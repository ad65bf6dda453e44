----------------------------- MODULE PinSession -----------------------------
(***************************************************************************)
(* A signing session on a cedula (signing.py: _signing_session and its two *)
(* backends, with native_card.py, pkcs11_utils.py and the card below       *)
(* them), and several of them on one card.  A wrong PIN costs one of the   *)
(* card's few tries and the last one locks it, so everything that can be   *)
(* checked without the PIN comes before it.  One action per exchange with  *)
(* the card or the PKCS#11 module, with other programs in between.         *)
(***************************************************************************)
EXTENDS TokenCertificates

CONSTANTS
  Sessions,      \* signing sessions open at once
  Native,        \* those that talk to the card over PC/SC; the others use PKCS#11
  MaxTries,      \* what the card's retry counter is reset to
  Pins,          \* what callers supply: subset of AllPins
  Tokens,        \* what the token may hold: sets of certificates
  SigningCerts,  \* what EF B001, the one certificate the native path reads, may be
  BadId,         \* a --cert-id that is not hexadecimal
  ReportsFlags,  \* whether the PKCS#11 module reports the PIN's state
  AnswersProbe,  \* whether the card answers a status-only VERIFY
  OthersTries,   \* bound on what other programs send to the card
  LastDay,       \* bound on the days that pass
  MaxFiles,      \* bound on files signed in one session
  Faults,        \* subset of AllFaults: an exchange fails or the card is pulled, the
                 \* PKCS#11 module reports an error, a certificate cannot be read
  Nobody, NoCert, Unknown

AllFaults == {"card", "module", "read"}
AllPins == {"right", "wrong", "malformed", "empty", "missing", "raises"}

ASSUME SessionAssumption ==
  Native \subseteq Sessions /\ Nobody \notin Sessions /\ Nobody \notin Sessions \X Nat
ASSUME BoundAssumption ==
  /\ MaxTries \in Nat \ {0} /\ OthersTries \in Nat /\ LastDay \in Nat /\ MaxFiles \in Nat
  /\ Pins \subseteq AllPins /\ ReportsFlags \in BOOLEAN /\ AnswersProbe \in BOOLEAN
  /\ Faults \subseteq AllFaults
  /\ BadId \notin Ids \cup {NoId} /\ Unknown \notin 0..MaxTries

VARIABLES
  tries,     \* the card's retry counter
  verified,  \* the card's security status
  hashed,    \* the digest PSO:HASH left in the card, or Nobody's
  selected,  \* the key and algorithm MSE:SET left in the card: "none", "signature", "other"
  token, ef, \* the token's certificates; the card's EF B001
  day,       \* today
  others,    \* what other programs have sent to the card: PINs and selections of a key
  pc,        \* session -> where it is
  wanted,    \* session -> its --cert-id
  live,      \* session -> whether its connection is open and was not reset
  cert, certDay,  \* session -> the certificate it signs with, and when it was last checked
  unsure,    \* session -> its check before the login was kept from reading something (history)
  missed,    \* session -> the certificates select_certificate could not read (history)
  flags,     \* session -> the PIN state find_token got with the token
  pin,       \* session -> the PIN it was given, or "none"
  sent,      \* session -> PINs it sent to the card
  left,      \* session -> tries left after its wrong PIN, or Unknown
  raced,     \* session -> others cost the card a try since it last looked (history)
  outcome,   \* session -> how it ended
  files,     \* session -> files signed
  meddled    \* session -> others changed what its next signature would use (history)

cardVars == <<tries, verified, hashed, selected>>
world == <<token, ef, day, others>>
vars == <<tries, verified, hashed, selected, token, ef, day, others, pc, wanted, live, cert,
          certDay, unsure, missed, flags, pin, sent, left, raced, outcome, files, meddled>>

Steps == {"start", "connect", "readcert", "probe", "ask", "reprobe", "verify", "find",
          "precheck", "status", "login", "select", "ready", "mse", "hash", "cds", "sign",
          "close", "ended"}
Outcomes == {"none", "done", "error", "not_found", "not_valid", "no_key", "locked",
             "last_try", "pin_format", "incorrect"}
Digests == Sessions \X (0..MaxFiles)

TypeOK ==
  /\ tries \in 0..MaxTries /\ verified \in BOOLEAN /\ hashed \in Digests \cup {Nobody}
  /\ selected \in {"none", "signature", "other"}
  /\ token \in Tokens /\ ef \in SigningCerts /\ day \in 0..LastDay /\ others \in 0..OthersTries
  /\ pc \in [Sessions -> Steps]
  /\ wanted \in [Sessions -> Ids \cup {NoId, BadId}]
  /\ live \in [Sessions -> BOOLEAN]
  /\ cert \in [Sessions -> (UNION Tokens) \cup SigningCerts \cup {NoCert}]
  /\ certDay \in [Sessions -> 0..LastDay]
  /\ unsure \in [Sessions -> BOOLEAN] /\ missed \in [Sessions -> SUBSET UNION Tokens]
  /\ flags \in [Sessions -> {"none", "locked", "final"}]
  /\ pin \in [Sessions -> Pins \cup {"none"}]
  /\ sent \in [Sessions -> 0..1]
  /\ left \in [Sessions -> 0..MaxTries \cup {Unknown}]
  /\ raced \in [Sessions -> BOOLEAN]
  /\ outcome \in [Sessions -> Outcomes]
  /\ files \in [Sessions -> 0..MaxFiles]
  /\ meddled \in [Sessions -> BOOLEAN]

Init ==
  /\ tries \in 0..MaxTries /\ verified = FALSE /\ hashed = Nobody
  /\ selected = "none"
  /\ token \in Tokens /\ ef \in SigningCerts /\ day = 0 /\ others = 0
  /\ pc = [s \in Sessions |-> "start"]
  /\ wanted \in [Sessions -> Ids \cup {NoId, BadId}]
  /\ live = [s \in Sessions |-> FALSE]
  /\ cert = [s \in Sessions |-> NoCert] /\ certDay = [s \in Sessions |-> 0]
  /\ unsure = [s \in Sessions |-> FALSE] /\ missed = [s \in Sessions |-> {}]
  /\ flags = [s \in Sessions |-> "none"]
  /\ pin = [s \in Sessions |-> "none"]
  /\ sent = [s \in Sessions |-> 0] /\ left = [s \in Sessions |-> Unknown]
  /\ raced = [s \in Sessions |-> FALSE]
  /\ outcome = [s \in Sessions |-> "none"]
  /\ files = [s \in Sessions |-> 0] /\ meddled = [s \in Sessions |-> FALSE]

-----------------------------------------------------------------------------
(* What a step of a session changes.                                         *)

Go(s, from, to) == pc[s] = from /\ pc' = [pc EXCEPT ![s] = to] /\ UNCHANGED outcome

\* An exception: what the session has open is closed on the way out.
AfterConnect == {"connect", "readcert", "probe", "reprobe", "verify", "mse", "hash", "cds"}
AfterLogin   == {"select", "sign"}
HasOpen(s)   == \/ pc[s] \in AfterConnect \cup AfterLogin
                \/ s \in Native /\ pc[s] = "ask"
Fail(s, from, why) ==
  /\ pc[s] = from
  /\ pc' = [pc EXCEPT ![s] = IF HasOpen(s) THEN "close" ELSE "ended"]
  /\ outcome' = [outcome EXCEPT ![s] = why]

KeepCard    == UNCHANGED cardVars
KeepWorld   == UNCHANGED world
KeepChoice  == UNCHANGED <<wanted, cert, certDay, unsure, missed>>
KeepPin     == UNCHANGED <<flags, pin, sent, left, raced>>
KeepSigning == UNCHANGED <<files, meddled>>

\* Between looking at the counter and sending the PIN a session is blind to it.
Blind(s) == IF s \in Native THEN {"verify"} ELSE {"precheck", "status", "ask", "login"}

\* The card judges a PIN somebody sends: a wrong one costs a try, a right one resets the
\* counter, a locked card accepts neither.  Only a session that is blind is raced.
Judge(by, right) ==
  /\ tries' = IF tries = 0 THEN 0 ELSE IF right THEN MaxTries ELSE tries - 1
  /\ verified' = (right /\ tries > 0)
  /\ raced' = [s \in Sessions |-> raced[s] \/
                 (s # by /\ pc[s] \in Blind(s) /\ ~right /\ tries > 0)]
  /\ UNCHANGED <<hashed, selected>>

\* The card is reset: its security status, its digest and its key selection are gone, and so
\* is every connection but those in keep.
ResetCard(keep) ==
  /\ verified' = FALSE /\ hashed' = Nobody /\ selected' = "none"
  /\ live' = [s \in Sessions |-> live[s] /\ s \in keep]
  /\ UNCHANGED tries

-----------------------------------------------------------------------------
(* Both backends: before anything is opened, and the PIN.                    *)

\* _check_backend_options refuses --cert-id with --native; normalize_cert_id_hex a bad one.
Preflight(s) ==
  /\ IF wanted[s] = NoId \/ (s \notin Native /\ wanted[s] \in Ids)
     THEN Go(s, "start", IF s \in Native THEN "connect" ELSE "find")
     ELSE Fail(s, "start", "error")
  /\ KeepCard /\ KeepWorld /\ KeepChoice /\ KeepPin /\ KeepSigning /\ UNCHANGED live

WellFormed(p) == p \in {"right", "wrong"}

\* Mutant: anything the caller supplies is taken for a PIN.
ResolveAnyPin(s) ==
  /\ \E p \in Pins \ {"missing", "raises"} :
       /\ pin' = [pin EXCEPT ![s] = p]
       /\ Go(s, "ask", IF s \in Native THEN "reprobe" ELSE "login")
  /\ KeepCard /\ KeepWorld /\ KeepChoice /\ KeepSigning
  /\ UNCHANGED <<live, flags, sent, left, raced>>

\* Mutant: the counter is not looked at again after the PIN was asked for.
ResolveFinalPinLast(s) ==
  /\ \E p \in Pins :
       /\ pin' = [pin EXCEPT ![s] = p]
       /\ IF WellFormed(p) THEN Go(s, "ask", IF s \in Native THEN "verify" ELSE "login")
                           ELSE Fail(s, "ask", "pin_format")
  /\ KeepCard /\ KeepWorld /\ KeepChoice /\ KeepSigning
  /\ UNCHANGED <<live, flags, sent, left, raced>>

\* _resolve_final_pin: the direct PIN or the provider's, and what is wrong with it.
ResolveFinalPin(s) ==
  /\ \E p \in Pins :
       /\ pin' = [pin EXCEPT ![s] = p]
       /\ \/ WellFormed(p) /\ Go(s, "ask", IF s \in Native THEN "reprobe" ELSE "login")
          \/ p \in {"empty", "malformed"} /\ Fail(s, "ask", "pin_format")
          \/ p \in {"missing", "raises"} /\ Fail(s, "ask", "error")
  /\ KeepCard /\ KeepWorld /\ KeepChoice /\ KeepSigning
  /\ UNCHANGED <<live, flags, sent, left, raced>>

-----------------------------------------------------------------------------
(* The native backend.                                                       *)

\* open_reader and select_applet.
Connect(s) ==
  /\ Go(s, "connect", "readcert")
  /\ live' = [live EXCEPT ![s] = TRUE]
  /\ KeepCard /\ KeepWorld /\ KeepChoice /\ KeepPin /\ KeepSigning

\* read_signing_certificate, and the validity guard.
ReadSigningCertificate(s) ==
  /\ live[s]
  /\ certDay' = [certDay EXCEPT ![s] = day]
  /\ IF InValidity(ef, day)
     THEN Go(s, "readcert", "probe") /\ cert' = [cert EXCEPT ![s] = ef]
     ELSE Fail(s, "readcert", "not_valid") /\ UNCHANGED cert
  /\ KeepCard /\ KeepWorld /\ KeepPin /\ KeepSigning /\ UNCHANGED <<live, wanted, unsure, missed>>

\* check_pin_status: why the PIN must not be sent, or "none".
Refusal == CASE verified -> "none"
             [] ~verified /\ ~AnswersProbe -> "error"
             [] OTHER -> IF tries = 0 THEN "locked" ELSE IF tries = 1 THEN "last_try" ELSE "none"

CheckPinStatus(s, from, to) ==
  /\ live[s]
  /\ IF Refusal = "none" THEN Go(s, from, to) ELSE Fail(s, from, Refusal)
  /\ KeepCard /\ KeepWorld /\ KeepChoice /\ KeepPin /\ KeepSigning /\ UNCHANGED live

Probe(s) == CheckPinStatus(s, "probe", "ask")

\* verify_pin looks again first, and an authenticated card needs no PIN.
Reprobe(s) == CheckPinStatus(s, "reprobe", IF verified THEN "ready" ELSE "verify")

\* What a PIN sent to the card comes to.  The try that locks it may be told either way.
Answered(s, from, to) ==
  /\ sent' = [sent EXCEPT ![s] = @ + 1]
  /\ Judge(s, pin[s] = "right")
  /\ \/ tries = 0 /\ Fail(s, from, "locked") /\ UNCHANGED left
     \/ tries > 0 /\ pin[s] = "right" /\ Go(s, from, to) /\ UNCHANGED left
     \/ /\ tries > 0 /\ pin[s] # "right"
        /\ left' = [left EXCEPT ![s] = tries - 1]
        /\ \/ Fail(s, from, "incorrect")
           \/ tries = 1 /\ Fail(s, from, "locked")
  /\ KeepWorld /\ KeepChoice /\ KeepSigning /\ UNCHANGED <<live, flags, pin>>

\* The VERIFY with the PIN.
Verify(s) == live[s] /\ Answered(s, "verify", "ready")

-----------------------------------------------------------------------------
(* The PKCS#11 backend.                                                      *)

\* find_token: the PIN's state comes with the token, and is not read again.
FindToken(s) ==
  /\ Go(s, "find", "precheck")
  /\ flags' = [flags EXCEPT ![s] =
       IF ~ReportsFlags \/ tries > 1 THEN "none" ELSE IF tries = 0 THEN "locked" ELSE "final"]
  /\ KeepCard /\ KeepWorld /\ KeepChoice /\ KeepSigning
  /\ UNCHANGED <<live, pin, sent, left, raced>>

\* The objects read_certificates may fail to read.
Lost(certs) == IF "read" \in Faults THEN SUBSET certs ELSE {{}}

\* Mutant: the check waits for the login.
CheckBeforeLoginNever(s) ==
  /\ Go(s, "precheck", "status")
  /\ certDay' = [certDay EXCEPT ![s] = day]
  /\ KeepCard /\ KeepWorld /\ KeepPin /\ KeepSigning
  /\ UNCHANGED <<live, wanted, cert, unsure, missed>>

\* check_certificate_before_login.  A module error proves nothing and is passed over.
CheckCertificateBeforeLogin(s) ==
  LET seen == Visible(token, FALSE)
      verdict(lost) == VerdictBeforeLogin(seen, lost, wanted[s], day)
  IN  /\ certDay' = [certDay EXCEPT ![s] = day]
      /\ \E lost \in Lost(seen) :
           \/ /\ verdict(lost) = "ok" /\ Go(s, "precheck", "status")
              /\ unsure' = [unsure EXCEPT ![s] = lost # {}]
           \/ verdict(lost) # "ok" /\ Fail(s, "precheck", verdict(lost)) /\ UNCHANGED unsure
           \/ /\ "module" \in Faults /\ Go(s, "precheck", "status")
              /\ unsure' = [unsure EXCEPT ![s] = TRUE]
      /\ KeepCard /\ KeepWorld /\ KeepPin /\ KeepSigning /\ UNCHANGED <<live, wanted, cert, missed>>

\* check_pin_status(token)
CheckTokenPinStatus(s) ==
  /\ \/ flags[s] = "none"   /\ Go(s, "status", "ask")
     \/ flags[s] = "locked" /\ Fail(s, "status", "locked")
     \/ flags[s] = "final"  /\ Fail(s, "status", "last_try")
  /\ KeepCard /\ KeepWorld /\ KeepChoice /\ KeepPin /\ KeepSigning /\ UNCHANGED live

\* login_session: C_Login sends the PIN.
Login(s) == Answered(s, "login", "select")

\* select_certificate, with the private objects visible.
SelectCertificate(s) ==
  LET verdict(read) == SelectVerdict(read, wanted[s], day)
  IN  /\ certDay' = [certDay EXCEPT ![s] = day]
      /\ \E lost \in Lost(Visible(token, TRUE)) :
           LET read == Visible(token, TRUE) \ lost
           IN  /\ missed' = [missed EXCEPT ![s] = lost]
               /\ \/ /\ verdict(read) = "ok" /\ Go(s, "select", "ready")
                     /\ \E c \in Selectable(read, wanted[s], day) : cert' = [cert EXCEPT ![s] = c]
                  \/ verdict(read) # "ok" /\ Fail(s, "select", verdict(read)) /\ UNCHANGED cert
      /\ KeepCard /\ KeepWorld /\ KeepPin /\ KeepSigning /\ UNCHANGED <<live, wanted, unsure>>

-----------------------------------------------------------------------------
(* Signing: one digest per file, as long as the caller keeps the session.    *)

Mine(s) == <<s, files[s]>>

BeginFile(s) ==
  /\ files[s] < MaxFiles
  /\ Go(s, "ready", IF s \in Native THEN "mse" ELSE "sign")
  /\ KeepCard /\ KeepWorld /\ KeepChoice /\ KeepPin /\ KeepSigning /\ UNCHANGED live

Leave(s) ==
  /\ pc[s] = "ready"
  /\ pc' = [pc EXCEPT ![s] = "close"] /\ outcome' = [outcome EXCEPT ![s] = "done"]
  /\ KeepCard /\ KeepWorld /\ KeepChoice /\ KeepPin /\ KeepSigning /\ UNCHANGED live

\* Somebody else leaves another key or digest in the card for the sessions in those steps.
Meddle(by, steps) ==
  meddled' = [s \in Sessions |-> meddled[s] \/ (s # by /\ s \in Native /\ pc[s] \in steps)]

\* Mutant: a session selects its key once.
SetKeyOnce(s) ==
  /\ live[s] /\ Go(s, "mse", "hash")
  /\ selected' = IF files[s] = 0 THEN "signature" ELSE selected
  /\ UNCHANGED <<tries, verified, hashed, live>>
  /\ KeepWorld /\ KeepChoice /\ KeepPin /\ KeepSigning

\* MSE:SET DST, the same key and algorithm for every signature.
SetKey(s) ==
  /\ live[s] /\ Go(s, "mse", "hash")
  /\ selected' = "signature"
  /\ UNCHANGED <<tries, verified, hashed, live>>
  /\ KeepWorld /\ KeepChoice /\ KeepPin /\ KeepSigning

\* Mutant: the digest of the file before is good enough.
PutHashOnce(s) ==
  /\ live[s] /\ Go(s, "hash", "cds")
  /\ hashed' = IF hashed = Nobody THEN Mine(s) ELSE hashed
  /\ UNCHANGED <<tries, verified, selected, live>>
  /\ KeepWorld /\ KeepChoice /\ KeepPin /\ KeepSigning

\* PSO:HASH
PutHash(s) ==
  /\ live[s] /\ Go(s, "hash", "cds")
  /\ hashed' = Mine(s)
  /\ Meddle(s, {"cds"})
  /\ UNCHANGED <<tries, verified, selected, live, files>>
  /\ KeepWorld /\ KeepChoice /\ KeepPin

\* PSO:CDS signs whatever digest the card holds, with the key that is selected, if its PIN is
\* verified.
ComputeSignature(s) ==
  /\ live[s]
  /\ IF verified /\ hashed # Nobody /\ selected # "none"
     THEN /\ Go(s, "cds", "ready")
          /\ files' = [files EXCEPT ![s] = @ + 1]
          /\ meddled' = [meddled EXCEPT ![s] = FALSE]
          /\ hashed' \in {hashed, Nobody}
     ELSE Fail(s, "cds", "error") /\ KeepSigning /\ UNCHANGED hashed
  /\ UNCHANGED <<tries, verified, selected, live>> /\ KeepWorld /\ KeepChoice /\ KeepPin

\* The module signs: its own exchanges with the card are not firmauy's to interleave, and it may
\* use another algorithm.
ModuleSign(s) ==
  /\ IF verified
     THEN /\ Go(s, "sign", "ready")
          /\ files' = [files EXCEPT ![s] = @ + 1]
          /\ hashed' \in {Mine(s), Nobody} /\ selected' \in {"signature", "other"}
          /\ Meddle(s, {"hash", "cds"})
     ELSE Fail(s, "sign", "error") /\ KeepSigning /\ UNCHANGED <<hashed, selected>>
  /\ UNCHANGED <<tries, verified, live>> /\ KeepWorld /\ KeepChoice /\ KeepPin

\* The way out: disconnect may reset the card; closing a PKCS#11 session logs out.
Close(s) ==
  /\ Go(s, "close", "ended")
  /\ \/ s \in Native /\ ResetCard({})
     \/ /\ live' = [live EXCEPT ![s] = FALSE]
        /\ verified' \in IF s \in Native THEN {verified} ELSE {FALSE, verified}
        /\ UNCHANGED <<tries, hashed, selected>>
  /\ KeepWorld /\ KeepChoice /\ KeepPin /\ KeepSigning

\* An exchange that fails, and every exchange over a connection that was reset.
ExchangeFails(s) ==
  /\ \E from \in AfterConnect :
       /\ from = "connect" \/ ~live[s] \/ "card" \in Faults
       /\ Fail(s, from, "error")
  /\ KeepCard /\ KeepWorld /\ KeepChoice /\ KeepPin /\ KeepSigning /\ UNCHANGED live

\* The card judged the PIN, and its answer was lost.
AnswerLost(s) ==
  /\ "card" \in Faults
  /\ \E from \in {"verify", "login"} :
       /\ from = "login" \/ live[s]
       /\ Fail(s, from, "error")
  /\ sent' = [sent EXCEPT ![s] = @ + 1]
  /\ Judge(s, pin[s] = "right")
  /\ left' = [left EXCEPT ![s] = IF tries > 0 /\ pin[s] = "wrong" THEN tries - 1 ELSE @]
  /\ KeepWorld /\ KeepChoice /\ KeepSigning /\ UNCHANGED <<live, flags, pin>>

\* No module, no token or several, or an error from it.
ModuleFails(s) ==
  /\ "module" \in Faults
  /\ \E from \in {"find", "login", "select", "sign"} : Fail(s, from, "error")
  /\ KeepCard /\ KeepWorld /\ KeepChoice /\ KeepPin /\ KeepSigning /\ UNCHANGED live

NativeStep(s) == \/ Connect(s) \/ ReadSigningCertificate(s) \/ Probe(s) \/ Reprobe(s)
                 \/ Verify(s) \/ SetKey(s) \/ PutHash(s) \/ ComputeSignature(s)
                 \/ ExchangeFails(s)
Pkcs11Step(s) == \/ FindToken(s) \/ CheckCertificateBeforeLogin(s) \/ CheckTokenPinStatus(s)
                 \/ Login(s) \/ SelectCertificate(s) \/ ModuleSign(s) \/ ModuleFails(s)
SessionStep(s) == \/ AnswerLost(s) \/ Preflight(s) \/ ResolveFinalPin(s) \/ BeginFile(s)
                  \/ Leave(s) \/ Close(s) \/ NativeStep(s) \/ Pkcs11Step(s)

-----------------------------------------------------------------------------
(* Everybody else.                                                           *)

\* Another program sends a PIN of its own.
OthersVerify ==
  /\ others < OthersTries
  /\ others' = others + 1
  /\ \E right \in BOOLEAN : Judge(Nobody, right)
  /\ KeepChoice /\ KeepSigning
  /\ UNCHANGED <<token, ef, day, pc, live, flags, pin, sent, left, outcome>>

\* Another program selects a key of its own.
OthersSelect ==
  /\ others < OthersTries
  /\ others' = others + 1
  /\ selected' = "other"
  /\ Meddle(Nobody, {"hash", "cds"})
  /\ KeepChoice /\ KeepPin
  /\ UNCHANGED <<tries, verified, hashed, token, ef, day, pc, live, files, outcome>>

\* The card is pulled and put back.
Pulled ==
  /\ "card" \in Faults
  /\ ResetCard({})
  /\ KeepWorld /\ KeepChoice /\ KeepPin /\ KeepSigning /\ UNCHANGED <<pc, outcome>>

Tick ==
  /\ day < LastDay /\ day' = day + 1
  /\ KeepCard /\ KeepChoice /\ KeepPin /\ KeepSigning
  /\ UNCHANGED <<token, ef, others, pc, live, outcome>>

Next == (\E s \in Sessions : SessionStep(s)) \/ OthersVerify \/ OthersSelect \/ Pulled \/ Tick
Spec == Init /\ [][Next]_vars

-----------------------------------------------------------------------------
(* What a session promises.                                                  *)

\* A session never spends the last try, unless somebody else spent one while it could not
\* see it: on the native path after the second probe, on PKCS#11 since find_token, and
\* there only if the module reports the PIN's state (verify_pin, check_pin_status).
KeepsLastTry ==
  \A s \in Sessions : left[s] = 0 => raced[s] \/ (s \notin Native /\ ~ReportsFlags)

\* One session sends at most one PIN, one that could be the card's, and of its outcomes
\* only a wrong PIN, a locked card or a broken connection can have cost a try.
CostOfACall ==
  \A s \in Sessions :
    /\ sent[s] = 1 => WellFormed(pin[s])
    /\ left[s] # Unknown => /\ sent[s] = 1 /\ pin[s] = "wrong"
                            /\ outcome[s] \in {"incorrect", "locked", "error"}
    /\ outcome[s] = "incorrect" => left[s] # Unknown

\* The PIN is asked for last: once it was, a native session fails for no certificate, and
\* a PKCS#11 session for a missing or invalid one only if the token showed none before the
\* login, something could not be read, or a midnight passed (_signing_session).
AskedLast ==
  \A s \in Sessions : pin[s] # "none" /\ outcome[s] \in {"not_found", "not_valid"} =>
    /\ s \notin Native
    /\ \/ Visible(token, FALSE) = {} \/ certDay[s] > 0
       \/ unsure[s] \/ missed[s] # {}

\* What is refused before the login would have been refused after it, unless the token
\* keeps a certificate private (check_certificate_before_login: "the one setup this
\* refuses early that login would have rescued").
EarlyRefusalIsFinal ==
  [][\A s \in Sessions :
       pc[s] = "precheck" /\ outcome'[s] # "none" =>
         \/ SelectVerdict(token, wanted[s], day) # "ok"
         \/ \E c \in token : ~c.public]_vars

Signing == {"ready", "mse", "hash", "cds", "sign"}

\* What select_certificate should return: the wanted certificate, valid, with its key, and
\* no worse than any other such it could read.
RightChoice(c, id, when, lost) ==
  /\ c \in token /\ c.key /\ id \in {NoId, c.id} /\ InValidity(c, when)
  /\ \A d \in WithKey(ValidOf(token, id, when)) \ lost : d.score <= c.score

\* A session signs with a certificate that was valid when it was last checked, and on
\* PKCS#11 the wanted one, with its key, no worse than any it could read
\* (select_certificate).
ChosenIsUsable ==
  \A s \in Sessions : pc[s] \in Signing =>
    /\ InValidity(cert[s], certDay[s])
    /\ s \notin Native => RightChoice(cert[s], wanted[s], certDay[s], missed[s])

\* A native signature is made with the key the session selected for it and over the digest it
\* put there for it, whatever the files before and other sessions left in the card, unless
\* somebody put another in between (sign_message: MSE, HASH and CDS are three exchanges).
SignsItsOwn ==
  [][\A s \in Native : files'[s] # files[s] =>
       (selected = "signature" /\ hashed = Mine(s)) \/ meddled[s]]_vars

(* Why these hold: where each backend can be, and what it already knows there.      *)

BeforePin == {"start", "connect", "readcert", "probe", "ask", "find", "precheck", "status"}

SessionInv ==
  \A s \in Sessions :
    /\ pc[s] \in {"connect", "readcert", "probe", "reprobe", "verify", "mse", "hash", "cds"}
         => s \in Native
    /\ pc[s] \in {"find", "precheck", "status", "login", "select", "sign"} => s \notin Native
    /\ pc[s] \in BeforePin => pin[s] = "none"
    /\ pc[s] \in {"reprobe", "verify", "login", "select"} \cup Signing => WellFormed(pin[s])
    /\ pc[s] \in BeforePin \cup {"reprobe", "verify", "login"} => sent[s] = 0
    /\ pc[s] \notin {"close", "ended"} => left[s] = Unknown /\ outcome[s] = "none"
    /\ pc[s] \in Signing \ {"ready"} => files[s] < MaxFiles

CounterInv ==
  \A s \in Sessions :
    /\ s \in Native /\ pc[s] = "verify" => tries >= 2 \/ raced[s]
    /\ s \notin Native /\ ReportsFlags =>
         /\ pc[s] \in Blind(s) /\ flags[s] = "none" => tries >= 2 \/ raced[s]
         /\ pc[s] \in {"ask", "login"} => flags[s] = "none"

CertInv ==
  \A s \in Native : pc[s] \in {"probe", "ask", "reprobe", "verify"} =>
    InValidity(cert[s], certDay[s])
=============================================================================
