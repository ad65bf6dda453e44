------------------------- MODULE PinSession_proofs -------------------------
(***************************************************************************)
(* Theorems about signing sessions, for every number of them on one card,  *)
(* every retry counter, every token and whatever other programs do.        *)
(***************************************************************************)
EXTENDS PinSession, TLAPS

\* The answers of the certificate checks are outcomes of a session.
LEMMA VerdictType ==
  \A certs, lost, id, today :
    /\ UsableVerdict(certs, id, today) \in {"ok", "not_found", "not_valid"}
    /\ VerdictBeforeLogin(certs, lost, id, today) \in {"ok", "not_found", "not_valid"}
    /\ SelectVerdict(certs, id, today) \in {"ok", "not_found", "not_valid", "no_key"}
<1>1. \A certs, id, today : UsableVerdict(certs, id, today) \in {"ok", "not_found", "not_valid"}
  BY DEF UsableVerdict
<1> QED BY <1>1 DEF VerdictBeforeLogin, SelectVerdict

\* What read_certificates fails to read is on the token.
LEMMA LostType == \A certs : \A lost \in Lost(certs) : lost \subseteq certs
BY DEF Lost

USE DEF Go, Fail, KeepCard, KeepWorld, KeepChoice, KeepPin, KeepSigning, cardVars, world

\* What the check of the token's certificates before the login changes.
LEMMA CheckBeforeLoginShape ==
  ASSUME NEW s \in Sessions, CheckCertificateBeforeLogin(s)
  PROVE  /\ pc[s] = "precheck" /\ certDay' = [certDay EXCEPT ![s] = day]
         /\ \/ pc' = [pc EXCEPT ![s] = "status"] /\ UNCHANGED outcome
            \/ /\ pc' = [pc EXCEPT ![s] = "ended"]
               /\ \E v \in {"not_found", "not_valid"} : outcome' = [outcome EXCEPT ![s] = v]
         /\ unsure' \in {unsure} \cup {[unsure EXCEPT ![s] = b] : b \in BOOLEAN}
         /\ UNCHANGED <<tries, verified, hashed, selected, token, ef, day, others, wanted,
                        live, cert, missed, flags, pin, sent, left, raced, files, meddled>>
<1>1. PICK lost \in Lost(Visible(token, FALSE)) :
        LET v == VerdictBeforeLogin(Visible(token, FALSE), lost, wanted[s], day)
        IN  \/ /\ Go(s, "precheck", "status")
               /\ \E b \in BOOLEAN : unsure' = [unsure EXCEPT ![s] = b]
            \/ v # "ok" /\ Fail(s, "precheck", v) /\ UNCHANGED unsure
  BY DEF CheckCertificateBeforeLogin
<1>2. VerdictBeforeLogin(Visible(token, FALSE), lost, wanted[s], day)
        \in {"ok", "not_found", "not_valid"}
  BY VerdictType
<1>3. pc[s] = "precheck" => ~HasOpen(s)
  BY DEF HasOpen, AfterLogin, AfterConnect
<1> QED BY <1>1, <1>2, <1>3 DEF CheckCertificateBeforeLogin

\* Whatever select_certificate could not read, what it returns is the right choice.
LEMMA SelectedIsRight ==
  ASSUME NEW id, NEW when, NEW lost, lost \in Lost(Visible(token, TRUE)),
         NEW c, c \in Selectable(Visible(token, TRUE) \ lost, id, when)
  PROVE  RightChoice(c, id, when, lost)
<1>1. Visible(token, TRUE) = token
  BY DEF Visible
<1>2. c \in token /\ c.key /\ id \in {NoId, c.id} /\ InValidity(c, when)
  BY DEF Selectable, Best, WithKey, ValidOf, Matching, Visible
<1>3. WithKey(ValidOf(token, id, when)) \ lost = WithKey(ValidOf(token \ lost, id, when))
  BY DEF WithKey, ValidOf, Matching
<1>4. \A d \in WithKey(ValidOf(token \ lost, id, when)) : d.score <= c.score
  BY <1>1 DEF Selectable, Best
<1> QED BY <1>2, <1>3, <1>4 DEF RightChoice

\* What the choice of the certificate after the login changes.
LEMMA SelectShape ==
  ASSUME NEW s \in Sessions, SelectCertificate(s)
  PROVE  /\ pc[s] = "select" /\ certDay' = [certDay EXCEPT ![s] = day]
         /\ \E lost \in SUBSET token :
              /\ missed' = [missed EXCEPT ![s] = lost]
              /\ \/ /\ pc' = [pc EXCEPT ![s] = "ready"] /\ UNCHANGED outcome
                    /\ \E c : /\ RightChoice(c, wanted[s], day, lost)
                              /\ cert' = [cert EXCEPT ![s] = c]
                 \/ /\ pc' = [pc EXCEPT ![s] = "close"] /\ UNCHANGED cert
                    /\ \E v \in {"not_found", "not_valid", "no_key"} :
                         outcome' = [outcome EXCEPT ![s] = v]
         /\ UNCHANGED <<tries, verified, hashed, selected, token, ef, day, others, wanted,
                        live, unsure, flags, pin, sent, left, raced, files, meddled>>
<1>1. PICK lost \in Lost(Visible(token, TRUE)) :
        LET read == Visible(token, TRUE) \ lost
            v == SelectVerdict(read, wanted[s], day)
        IN  /\ missed' = [missed EXCEPT ![s] = lost]
            /\ \/ /\ Go(s, "select", "ready")
                  /\ \E c \in Selectable(read, wanted[s], day) : cert' = [cert EXCEPT ![s] = c]
               \/ v # "ok" /\ Fail(s, "select", v) /\ UNCHANGED cert
  BY DEF SelectCertificate
<1>2. SelectVerdict(Visible(token, TRUE) \ lost, wanted[s], day)
        \in {"ok", "not_found", "not_valid", "no_key"}
  BY VerdictType
<1>3. pc[s] = "select" => HasOpen(s)
  BY DEF HasOpen, AfterLogin
<1>4. \A c \in Selectable(Visible(token, TRUE) \ lost, wanted[s], day) :
        RightChoice(c, wanted[s], day, lost)
  BY SelectedIsRight
<1>5. lost \in SUBSET token
  BY LostType DEF Visible
<1>6. /\ certDay' = [certDay EXCEPT ![s] = day]
      /\ UNCHANGED <<tries, verified, hashed, selected, token, ef, day, others, wanted, live,
                     unsure, flags, pin, sent, left, raced, files, meddled>>
  BY DEF SelectCertificate
<1>7. CASE /\ Go(s, "select", "ready")
           /\ \E c \in Selectable(Visible(token, TRUE) \ lost, wanted[s], day) :
                cert' = [cert EXCEPT ![s] = c]
  BY <1>1, <1>4, <1>5, <1>6, <1>7
<1>8. CASE /\ SelectVerdict(Visible(token, TRUE) \ lost, wanted[s], day) # "ok"
           /\ Fail(s, "select", SelectVerdict(Visible(token, TRUE) \ lost, wanted[s], day))
           /\ UNCHANGED cert
  BY <1>1, <1>2, <1>3, <1>5, <1>6, <1>8
<1> QED BY <1>1, <1>7, <1>8

\* Another's PIN leaves a session that cannot see it with a try to spare, or marks it raced.
LEMMA JudgeCounter ==
  ASSUME TypeOK, NEW by, NEW right \in BOOLEAN, Judge(by, right), NEW t \in Sessions, t # by,
         pc[t] \in Blind(t), tries >= 2 \/ raced[t]
  PROVE  tries' >= 2 \/ raced'[t]
<1>1. tries \in Nat /\ MaxTries \in Nat /\ tries <= MaxTries
  BY BoundAssumption DEF TypeOK
<1>2. raced'[t] = (raced[t] \/ (~right /\ tries > 0))
  BY DEF Judge
<1>3. raced[t] => raced'[t]
  BY <1>2
<1>4. CASE tries >= 2 /\ right
  BY <1>1, <1>4 DEF Judge
<1>5. CASE tries >= 2 /\ ~right
  <2>1. tries > 0
    BY <1>1, <1>5
  <2> QED BY <1>2, <1>5, <2>1, Zenon
<1> QED BY <1>3, <1>4, <1>5

\* The initial states are well typed and satisfy the inductive invariant.
LEMMA InitInv == Init => /\ TypeOK /\ SessionInv /\ CounterInv /\ CertInv
                         /\ KeepsLastTry /\ CostOfACall /\ ChosenIsUsable
<1> SUFFICES ASSUME Init PROVE /\ TypeOK /\ SessionInv /\ CounterInv /\ CertInv
                               /\ KeepsLastTry /\ CostOfACall /\ ChosenIsUsable
  OBVIOUS
<1>1. TypeOK
  <2>1. /\ tries \in 0..MaxTries /\ hashed \in Digests \cup {Nobody}
        /\ selected \in {"none", "signature", "other"}
        /\ token \in Tokens /\ ef \in SigningCerts
    BY DEF Init
  <2>5. verified \in BOOLEAN
    BY DEF Init
  <2>6. day \in 0..LastDay /\ others \in 0..OthersTries
    BY BoundAssumption DEF Init
  <2>2. /\ pc \in [Sessions -> Steps] /\ outcome \in [Sessions -> Outcomes]
        /\ live \in [Sessions -> BOOLEAN] /\ raced \in [Sessions -> BOOLEAN]
        /\ flags \in [Sessions -> {"none", "locked", "final"}]
        /\ pin \in [Sessions -> Pins \cup {"none"}]
    BY DEF Init, Steps, Outcomes
  <2>3. /\ wanted \in [Sessions -> Ids \cup {NoId, BadId}]
        /\ cert \in [Sessions -> (UNION Tokens) \cup SigningCerts \cup {NoCert}]
        /\ left \in [Sessions -> 0..MaxTries \cup {Unknown}]
        /\ meddled \in [Sessions -> BOOLEAN]
    BY DEF Init
  <2>7. /\ unsure \in [Sessions -> BOOLEAN] /\ missed \in [Sessions -> SUBSET UNION Tokens]
    BY DEF Init
  <2>4. /\ certDay \in [Sessions -> 0..LastDay] /\ sent \in [Sessions -> 0..1]
        /\ files \in [Sessions -> 0..MaxFiles]
    BY BoundAssumption DEF Init
  <2> QED BY <2>1, <2>2, <2>3, <2>4, <2>5, <2>6, <2>7 DEF TypeOK
<1>2. SessionInv /\ CounterInv /\ CertInv
  BY SessionAssumption DEF Init, SessionInv, CounterInv, CertInv, BeforePin, Signing, Blind
<1>3. KeepsLastTry /\ CostOfACall /\ ChosenIsUsable
  BY BoundAssumption DEF Init, KeepsLastTry, CostOfACall, ChosenIsUsable, Signing
<1> QED BY <1>1, <1>2, <1>3

\* Every step of anybody keeps the state well typed.
LEMMA TypeStep ==
  ASSUME TypeOK, SessionInv, Next
  PROVE  TypeOK'
<1> USE SessionAssumption, BoundAssumption, VerdictType
        DEF TypeOK, Steps, Outcomes, Digests, AllPins
<1>1. ASSUME NEW s \in Sessions, AnswerLost(s) PROVE TypeOK'
  BY <1>1 DEF AnswerLost, Judge, SessionInv, BeforePin
<1>2. ASSUME NEW s \in Sessions, Preflight(s) PROVE TypeOK'
  BY <1>2 DEF Preflight
<1>3. ASSUME NEW s \in Sessions, ResolveFinalPin(s) PROVE TypeOK'
  BY <1>3 DEF ResolveFinalPin, WellFormed
<1>4. ASSUME NEW s \in Sessions, BeginFile(s) PROVE TypeOK'
  BY <1>4 DEF BeginFile
<1>5. ASSUME NEW s \in Sessions, Leave(s) PROVE TypeOK'
  BY <1>5 DEF Leave
<1>6. ASSUME NEW s \in Sessions, Close(s) PROVE TypeOK'
  <2>1. pc' \in [Sessions -> Steps]
    BY <1>6 DEF Close, Go
  <2>2. CASE ResetCard({})
    <3>1. live' \in [Sessions -> BOOLEAN] BY <2>2 DEF ResetCard
    <3>2. /\ verified' \in BOOLEAN /\ hashed' \in Digests \cup {Nobody} /\ tries' = tries
          /\ selected' = "none"
      BY <2>2 DEF ResetCard
    <3> QED BY <1>6, <2>1, <3>1, <3>2 DEF Close, Go, KeepWorld, KeepChoice, KeepPin, KeepSigning
  <2>3. CASE ~ResetCard({})
    <3>1. /\ live' = [live EXCEPT ![s] = FALSE] /\ UNCHANGED <<tries, hashed, selected>>
          /\ verified' \in (IF s \in Native THEN {verified} ELSE {FALSE, verified})
      BY <1>6, <2>3 DEF Close
    <3>2. live' \in [Sessions -> BOOLEAN] BY <3>1
    <3>3. verified' \in BOOLEAN BY <3>1
    <3> QED BY <1>6, <2>1, <3>1, <3>2, <3>3
            DEF Close, Go, KeepWorld, KeepChoice, KeepPin, KeepSigning
  <2> QED BY <2>2, <2>3
<1>7. ASSUME NEW s \in Sessions, Connect(s) PROVE TypeOK'
  BY <1>7 DEF Connect
<1>8. ASSUME NEW s \in Sessions, ReadSigningCertificate(s) PROVE TypeOK'
  BY <1>8 DEF ReadSigningCertificate
<1>9. ASSUME NEW s \in Sessions, Probe(s) PROVE TypeOK'
  BY <1>9 DEF Probe, CheckPinStatus, Refusal
<1>10. ASSUME NEW s \in Sessions, Reprobe(s) PROVE TypeOK'
  BY <1>10 DEF Reprobe, CheckPinStatus, Refusal
<1>11. ASSUME NEW s \in Sessions, Verify(s) PROVE TypeOK'
  BY <1>11 DEF Verify, Answered, Judge, SessionInv, BeforePin
<1>12. ASSUME NEW s \in Sessions, SetKey(s) PROVE TypeOK'
  BY <1>12 DEF SetKey
<1>13. ASSUME NEW s \in Sessions, PutHash(s) PROVE TypeOK'
  <2>1. hashed' \in Digests
    BY <1>13 DEF PutHash, Mine
  <2>2. meddled' \in [Sessions -> BOOLEAN]
    BY <1>13 DEF PutHash, Meddle
  <2> QED BY <1>13, <2>1, <2>2 DEF PutHash
<1>14. ASSUME NEW s \in Sessions, ComputeSignature(s) PROVE TypeOK'
  <2>1. CASE verified /\ hashed # Nobody /\ selected # "none"
    <3>1. files[s] < MaxFiles /\ files' = [files EXCEPT ![s] = @ + 1]
      BY <1>14, <2>1 DEF ComputeSignature, SessionInv, Signing
    <3>2. files' \in [Sessions -> 0..MaxFiles]
      BY <3>1
    <3>3. hashed' \in Digests \cup {Nobody} /\ meddled' \in [Sessions -> BOOLEAN]
      BY <1>14, <2>1 DEF ComputeSignature
    <3>4. pc' \in [Sessions -> Steps] /\ outcome' = outcome
      BY <1>14, <2>1 DEF ComputeSignature
    <3> QED BY <1>14, <3>2, <3>3, <3>4 DEF ComputeSignature
  <2>2. CASE ~(verified /\ hashed # Nobody /\ selected # "none")
    BY <1>14, <2>2 DEF ComputeSignature
  <2> QED BY <2>1, <2>2
<1>15. ASSUME NEW s \in Sessions, ExchangeFails(s) PROVE TypeOK'
  BY <1>15 DEF ExchangeFails
<1>16. ASSUME NEW s \in Sessions, FindToken(s) PROVE TypeOK'
  BY <1>16 DEF FindToken
<1>17. ASSUME NEW s \in Sessions, CheckCertificateBeforeLogin(s) PROVE TypeOK'
  <2>1. unsure' \in [Sessions -> BOOLEAN]
    BY <1>17, CheckBeforeLoginShape
  <2>2. pc' \in [Sessions -> Steps] /\ outcome' \in [Sessions -> Outcomes]
    BY <1>17, CheckBeforeLoginShape
  <2> QED BY <1>17, <2>1, <2>2, CheckBeforeLoginShape
<1>18. ASSUME NEW s \in Sessions, CheckTokenPinStatus(s) PROVE TypeOK'
  BY <1>18 DEF CheckTokenPinStatus
<1>19. ASSUME NEW s \in Sessions, Login(s) PROVE TypeOK'
  BY <1>19 DEF Login, Answered, Judge, SessionInv, BeforePin
<1>20. ASSUME NEW s \in Sessions, SelectCertificate(s) PROVE TypeOK'
  <2>1. \A c, lost : RightChoice(c, wanted[s], day, lost) => c \in token
    BY DEF RightChoice
  <2> QED BY <1>20, <2>1, SelectShape
<1>21. ASSUME NEW s \in Sessions, ModuleSign(s) PROVE TypeOK'
  BY SMTT(30), <1>21 DEF ModuleSign, Mine, Meddle, SessionInv, Signing
<1>22. ASSUME NEW s \in Sessions, ModuleFails(s) PROVE TypeOK'
  BY <1>22 DEF ModuleFails
<1>23. CASE OthersVerify
  BY <1>23 DEF OthersVerify, Judge
<1>24. CASE Pulled
  BY <1>24 DEF Pulled, ResetCard
<1>25. CASE Tick
  BY <1>25 DEF Tick
<1>26. CASE OthersSelect
  BY <1>26 DEF OthersSelect, Meddle
<1> QED BY <1>1, <1>2, <1>3, <1>4, <1>5, <1>6, <1>7, <1>8, <1>9, <1>10, <1>11, <1>12, <1>13,
           <1>14, <1>15, <1>16, <1>17, <1>18, <1>19, <1>20, <1>21, <1>22, <1>23, <1>24, <1>25,
           <1>26
       DEF Next, SessionStep, NativeStep, Pkcs11Step

\* Every step keeps each backend on its own path and the PIN where it belongs.
LEMMA SessionStepInv ==
  ASSUME TypeOK, SessionInv, Next
  PROVE  SessionInv'
<1> USE SessionAssumption, VerdictType DEF TypeOK, SessionInv, BeforePin, Signing, WellFormed
<1>1. ASSUME NEW s \in Sessions, AnswerLost(s) PROVE SessionInv'
  BY <1>1 DEF AnswerLost, Judge
<1>2. ASSUME NEW s \in Sessions, Preflight(s) PROVE SessionInv'
  BY <1>2 DEF Preflight
<1>3. ASSUME NEW s \in Sessions, ResolveFinalPin(s) PROVE SessionInv'
  BY <1>3 DEF ResolveFinalPin, WellFormed
<1>4. ASSUME NEW s \in Sessions, BeginFile(s) PROVE SessionInv'
  BY <1>4 DEF BeginFile
<1>5. ASSUME NEW s \in Sessions, Leave(s) PROVE SessionInv'
  BY <1>5 DEF Leave
<1>6. ASSUME NEW s \in Sessions, Close(s) PROVE SessionInv'
  BY <1>6 DEF Close, ResetCard
<1>7. ASSUME NEW s \in Sessions, Connect(s) PROVE SessionInv'
  BY <1>7 DEF Connect
<1>8. ASSUME NEW s \in Sessions, ReadSigningCertificate(s) PROVE SessionInv'
  BY <1>8 DEF ReadSigningCertificate
<1>9. ASSUME NEW s \in Sessions, Probe(s) PROVE SessionInv'
  BY <1>9 DEF Probe, CheckPinStatus, Refusal
<1>10. ASSUME NEW s \in Sessions, Reprobe(s) PROVE SessionInv'
  BY <1>10 DEF Reprobe, CheckPinStatus, Refusal
<1>11. ASSUME NEW s \in Sessions, Verify(s) PROVE SessionInv'
  BY <1>11 DEF Verify, Answered, Judge
<1>12. ASSUME NEW s \in Sessions, SetKey(s) PROVE SessionInv'
  BY <1>12 DEF SetKey
<1>13. ASSUME NEW s \in Sessions, PutHash(s) PROVE SessionInv'
  BY <1>13 DEF PutHash, Mine, Meddle
<1>14. ASSUME NEW s \in Sessions, ComputeSignature(s) PROVE SessionInv'
  BY <1>14 DEF ComputeSignature
<1>15. ASSUME NEW s \in Sessions, ExchangeFails(s) PROVE SessionInv'
  BY <1>15 DEF ExchangeFails
<1>16. ASSUME NEW s \in Sessions, FindToken(s) PROVE SessionInv'
  BY <1>16 DEF FindToken
<1>17. ASSUME NEW s \in Sessions, CheckCertificateBeforeLogin(s) PROVE SessionInv'
  BY <1>17, CheckBeforeLoginShape
<1>18. ASSUME NEW s \in Sessions, CheckTokenPinStatus(s) PROVE SessionInv'
  BY <1>18 DEF CheckTokenPinStatus
<1>19. ASSUME NEW s \in Sessions, Login(s) PROVE SessionInv'
  BY <1>19 DEF Login, Answered, Judge
<1>20. ASSUME NEW s \in Sessions, SelectCertificate(s) PROVE SessionInv'
  BY <1>20, SelectShape
<1>21. ASSUME NEW s \in Sessions, ModuleSign(s) PROVE SessionInv'
  BY <1>21 DEF ModuleSign, Mine, Meddle
<1>22. ASSUME NEW s \in Sessions, ModuleFails(s) PROVE SessionInv'
  BY <1>22 DEF ModuleFails
<1>23. CASE OthersVerify
  BY <1>23 DEF OthersVerify, Judge
<1>24. CASE Pulled
  BY <1>24 DEF Pulled, ResetCard
<1>25. CASE Tick
  BY <1>25 DEF Tick
<1>26. CASE OthersSelect
  BY <1>26 DEF OthersSelect, Meddle
<1> QED BY <1>1, <1>2, <1>3, <1>4, <1>5, <1>6, <1>7, <1>8, <1>9, <1>10, <1>11, <1>12, <1>13,
           <1>14, <1>15, <1>16, <1>17, <1>18, <1>19, <1>20, <1>21, <1>22, <1>23, <1>24, <1>25,
           <1>26
       DEF Next, SessionStep, NativeStep, Pkcs11Step

\* Every step keeps what a session knows of the counter true, or records that others moved it.
LEMMA CounterStep ==
  ASSUME TypeOK, SessionInv, CounterInv, Next
  PROVE  CounterInv'
<1> USE SessionAssumption, BoundAssumption DEF TypeOK, SessionInv, CounterInv, Blind
<1>1. ASSUME NEW s \in Sessions, AnswerLost(s) PROVE CounterInv'
  <2>1. ASSUME NEW t \in Sessions, t # s, tries >= 2 \/ raced[t], pc[t] \in Blind(t)
        PROVE  tries' >= 2 \/ raced'[t]
    BY <1>1, <2>1, JudgeCounter DEF AnswerLost
  <2>2. pc'[s] \notin {"verify", "precheck", "status", "ask", "login"}
    BY <1>1 DEF AnswerLost
  <2>3. flags' = flags /\ \A t \in Sessions \ {s} : pc'[t] = pc[t]
    BY <1>1 DEF AnswerLost
  <2> QED BY <2>1, <2>2, <2>3 DEF CounterInv, Blind
<1>2. ASSUME NEW s \in Sessions, Preflight(s) PROVE CounterInv'
  BY <1>2 DEF Preflight
<1>3. ASSUME NEW s \in Sessions, ResolveFinalPin(s) PROVE CounterInv'
  BY <1>3 DEF ResolveFinalPin, WellFormed
<1>4. ASSUME NEW s \in Sessions, BeginFile(s) PROVE CounterInv'
  BY <1>4 DEF BeginFile
<1>5. ASSUME NEW s \in Sessions, Leave(s) PROVE CounterInv'
  BY <1>5 DEF Leave
<1>6. ASSUME NEW s \in Sessions, Close(s) PROVE CounterInv'
  BY ZenonT(60), <1>6 DEF Close, ResetCard
<1>7. ASSUME NEW s \in Sessions, Connect(s) PROVE CounterInv'
  BY <1>7 DEF Connect
<1>8. ASSUME NEW s \in Sessions, ReadSigningCertificate(s) PROVE CounterInv'
  BY <1>8 DEF ReadSigningCertificate
<1>9. ASSUME NEW s \in Sessions, Probe(s) PROVE CounterInv'
  BY <1>9 DEF Probe, CheckPinStatus, Refusal
<1>10. ASSUME NEW s \in Sessions, Reprobe(s) PROVE CounterInv'
  <2>1. UNCHANGED <<tries, raced, flags>> /\ \A t \in Sessions \ {s} : pc'[t] = pc[t]
    BY <1>10 DEF Reprobe, CheckPinStatus
  <2>2. pc[s] = "reprobe" /\ pc'[s] \in {"ready", "verify", "close", "ended"}
    BY <1>10 DEF Reprobe, CheckPinStatus
  <2>3. pc'[s] = "verify" => tries >= 2
    <3>1. CASE Refusal # "none"
      BY <1>10, <3>1 DEF Reprobe, CheckPinStatus
    <3>2. CASE Refusal = "none"
      <4>1. CASE verified
        BY <1>10, <3>2, <4>1 DEF Reprobe, CheckPinStatus
      <4>2. CASE ~verified
        BY <3>2, <4>2 DEF Refusal
      <4> QED BY <4>1, <4>2
    <3> QED BY <3>1, <3>2
  <2>4. s \in Native
    BY <2>2
  <2> QED BY <2>1, <2>2, <2>3, <2>4 DEF CounterInv, Blind
<1>11. ASSUME NEW s \in Sessions, Verify(s) PROVE CounterInv'
  <2>1. ASSUME NEW t \in Sessions, t # s, tries >= 2 \/ raced[t], pc[t] \in Blind(t)
        PROVE  tries' >= 2 \/ raced'[t]
    BY <1>11, <2>1, JudgeCounter DEF Verify, Answered
  <2>2. pc'[s] \notin {"verify", "precheck", "status", "ask", "login"}
    BY <1>11 DEF Verify, Answered
  <2>3. flags' = flags /\ \A t \in Sessions \ {s} : pc'[t] = pc[t]
    BY <1>11 DEF Verify, Answered
  <2> QED BY <2>1, <2>2, <2>3 DEF CounterInv, Blind
<1>12. ASSUME NEW s \in Sessions, SetKey(s) PROVE CounterInv'
  BY <1>12 DEF SetKey
<1>13. ASSUME NEW s \in Sessions, PutHash(s) PROVE CounterInv'
  <2>1. /\ pc[s] = "hash" /\ pc' = [pc EXCEPT ![s] = "cds"]
        /\ UNCHANGED <<tries, raced, flags>>
    BY <1>13 DEF PutHash, Go, KeepPin
  <2> QED BY <2>1 DEF CounterInv, Blind
<1>14. ASSUME NEW s \in Sessions, ComputeSignature(s) PROVE CounterInv'
  BY <1>14 DEF ComputeSignature
<1>15. ASSUME NEW s \in Sessions, ExchangeFails(s) PROVE CounterInv'
  BY <1>15 DEF ExchangeFails
<1>16. ASSUME NEW s \in Sessions, FindToken(s) PROVE CounterInv'
  BY <1>16 DEF FindToken
<1>17. ASSUME NEW s \in Sessions, CheckCertificateBeforeLogin(s) PROVE CounterInv'
  BY <1>17, CheckBeforeLoginShape
<1>18. ASSUME NEW s \in Sessions, CheckTokenPinStatus(s) PROVE CounterInv'
  BY <1>18 DEF CheckTokenPinStatus
<1>19. ASSUME NEW s \in Sessions, Login(s) PROVE CounterInv'
  <2>1. ASSUME NEW t \in Sessions, t # s, tries >= 2 \/ raced[t], pc[t] \in Blind(t)
        PROVE  tries' >= 2 \/ raced'[t]
    BY <1>19, <2>1, JudgeCounter DEF Login, Answered
  <2>2. pc'[s] \notin {"verify", "precheck", "status", "ask", "login"}
    BY <1>19 DEF Login, Answered
  <2>3. flags' = flags /\ \A t \in Sessions \ {s} : pc'[t] = pc[t]
    BY <1>19 DEF Login, Answered
  <2> QED BY <2>1, <2>2, <2>3 DEF CounterInv, Blind
<1>20. ASSUME NEW s \in Sessions, SelectCertificate(s) PROVE CounterInv'
  BY <1>20, SelectShape
<1>21. ASSUME NEW s \in Sessions, ModuleSign(s) PROVE CounterInv'
  BY <1>21 DEF ModuleSign, Mine, Meddle
<1>22. ASSUME NEW s \in Sessions, ModuleFails(s) PROVE CounterInv'
  BY <1>22 DEF ModuleFails
<1>23. CASE OthersVerify
  <2>1. PICK right \in BOOLEAN : Judge(Nobody, right)
    BY <1>23 DEF OthersVerify
  <2>2. pc' = pc /\ flags' = flags
    BY <1>23 DEF OthersVerify
  <2>3. ASSUME NEW t \in Sessions, tries >= 2 \/ raced[t], pc[t] \in Blind(t)
        PROVE  tries' >= 2 \/ raced'[t]
    BY <2>1, <2>3, JudgeCounter
  <2> QED BY <2>2, <2>3 DEF CounterInv, Blind
<1>24. CASE Pulled
  BY <1>24 DEF Pulled, ResetCard
<1>25. CASE Tick
  BY <1>25 DEF Tick
<1>26. CASE OthersSelect
  BY <1>26 DEF OthersSelect, Meddle
<1> QED BY <1>1, <1>2, <1>3, <1>4, <1>5, <1>6, <1>7, <1>8, <1>9, <1>10, <1>11, <1>12, <1>13,
           <1>14, <1>15, <1>16, <1>17, <1>18, <1>19, <1>20, <1>21, <1>22, <1>23, <1>24, <1>25,
           <1>26
       DEF Next, SessionStep, NativeStep, Pkcs11Step

\* Every step keeps the native session's certificate the one it checked.
LEMMA CertStep ==
  ASSUME TypeOK, SessionInv, CertInv, Next
  PROVE  CertInv'
<1> USE SessionAssumption DEF TypeOK, SessionInv, CertInv
<1>1. ASSUME NEW s \in Sessions, AnswerLost(s) PROVE CertInv'
  BY <1>1 DEF AnswerLost, Judge
<1>2. ASSUME NEW s \in Sessions, Preflight(s) PROVE CertInv'
  BY <1>2 DEF Preflight
<1>3. ASSUME NEW s \in Sessions, ResolveFinalPin(s) PROVE CertInv'
  BY <1>3 DEF ResolveFinalPin, WellFormed
<1>4. ASSUME NEW s \in Sessions, BeginFile(s) PROVE CertInv'
  BY <1>4 DEF BeginFile
<1>5. ASSUME NEW s \in Sessions, Leave(s) PROVE CertInv'
  BY <1>5 DEF Leave
<1>6. ASSUME NEW s \in Sessions, Close(s) PROVE CertInv'
  BY <1>6 DEF Close, ResetCard
<1>7. ASSUME NEW s \in Sessions, Connect(s) PROVE CertInv'
  BY <1>7 DEF Connect
<1>8. ASSUME NEW s \in Sessions, ReadSigningCertificate(s) PROVE CertInv'
  BY <1>8 DEF ReadSigningCertificate
<1>9. ASSUME NEW s \in Sessions, Probe(s) PROVE CertInv'
  BY <1>9 DEF Probe, CheckPinStatus, Refusal
<1>10. ASSUME NEW s \in Sessions, Reprobe(s) PROVE CertInv'
  BY <1>10 DEF Reprobe, CheckPinStatus, Refusal
<1>11. ASSUME NEW s \in Sessions, Verify(s) PROVE CertInv'
  BY <1>11 DEF Verify, Answered, Judge
<1>12. ASSUME NEW s \in Sessions, SetKey(s) PROVE CertInv'
  BY <1>12 DEF SetKey
<1>13. ASSUME NEW s \in Sessions, PutHash(s) PROVE CertInv'
  BY <1>13 DEF PutHash, Mine, Meddle
<1>14. ASSUME NEW s \in Sessions, ComputeSignature(s) PROVE CertInv'
  BY <1>14 DEF ComputeSignature
<1>15. ASSUME NEW s \in Sessions, ExchangeFails(s) PROVE CertInv'
  BY <1>15 DEF ExchangeFails
<1>16. ASSUME NEW s \in Sessions, FindToken(s) PROVE CertInv'
  BY <1>16 DEF FindToken
<1>17. ASSUME NEW s \in Sessions, CheckCertificateBeforeLogin(s) PROVE CertInv'
  BY <1>17, CheckBeforeLoginShape
<1>18. ASSUME NEW s \in Sessions, CheckTokenPinStatus(s) PROVE CertInv'
  BY <1>18 DEF CheckTokenPinStatus
<1>19. ASSUME NEW s \in Sessions, Login(s) PROVE CertInv'
  BY <1>19 DEF Login, Answered, Judge
<1>20. ASSUME NEW s \in Sessions, SelectCertificate(s) PROVE CertInv'
  BY <1>20, SelectShape
<1>21. ASSUME NEW s \in Sessions, ModuleSign(s) PROVE CertInv'
  BY <1>21 DEF ModuleSign, Mine, Meddle
<1>22. ASSUME NEW s \in Sessions, ModuleFails(s) PROVE CertInv'
  BY <1>22 DEF ModuleFails
<1>23. CASE OthersVerify
  BY <1>23 DEF OthersVerify, Judge
<1>24. CASE Pulled
  BY <1>24 DEF Pulled, ResetCard
<1>25. CASE Tick
  BY <1>25 DEF Tick
<1>26. CASE OthersSelect
  BY <1>26 DEF OthersSelect, Meddle
<1> QED BY <1>1, <1>2, <1>3, <1>4, <1>5, <1>6, <1>7, <1>8, <1>9, <1>10, <1>11, <1>12, <1>13,
           <1>14, <1>15, <1>16, <1>17, <1>18, <1>19, <1>20, <1>21, <1>22, <1>23, <1>24, <1>25,
           <1>26
       DEF Next, SessionStep, NativeStep, Pkcs11Step

\* No step spends the last try unseen.
LEMMA LastTryStep ==
  ASSUME TypeOK, SessionInv, CounterInv, KeepsLastTry, Next
  PROVE  KeepsLastTry'
<1> USE SessionAssumption, BoundAssumption DEF TypeOK, SessionInv, CounterInv, KeepsLastTry, Blind
<1>1. ASSUME NEW s \in Sessions, AnswerLost(s) PROVE KeepsLastTry'
  BY <1>1 DEF AnswerLost, Judge
<1>2. ASSUME NEW s \in Sessions, Preflight(s) PROVE KeepsLastTry'
  BY <1>2 DEF Preflight
<1>3. ASSUME NEW s \in Sessions, ResolveFinalPin(s) PROVE KeepsLastTry'
  BY <1>3 DEF ResolveFinalPin, WellFormed
<1>4. ASSUME NEW s \in Sessions, BeginFile(s) PROVE KeepsLastTry'
  BY <1>4 DEF BeginFile
<1>5. ASSUME NEW s \in Sessions, Leave(s) PROVE KeepsLastTry'
  BY <1>5 DEF Leave
<1>6. ASSUME NEW s \in Sessions, Close(s) PROVE KeepsLastTry'
  BY <1>6 DEF Close, ResetCard
<1>7. ASSUME NEW s \in Sessions, Connect(s) PROVE KeepsLastTry'
  BY <1>7 DEF Connect
<1>8. ASSUME NEW s \in Sessions, ReadSigningCertificate(s) PROVE KeepsLastTry'
  BY <1>8 DEF ReadSigningCertificate
<1>9. ASSUME NEW s \in Sessions, Probe(s) PROVE KeepsLastTry'
  BY <1>9 DEF Probe, CheckPinStatus, Refusal
<1>10. ASSUME NEW s \in Sessions, Reprobe(s) PROVE KeepsLastTry'
  BY <1>10 DEF Reprobe, CheckPinStatus, Refusal
<1>11. ASSUME NEW s \in Sessions, Verify(s) PROVE KeepsLastTry'
  BY <1>11 DEF Verify, Answered, Judge
<1>12. ASSUME NEW s \in Sessions, SetKey(s) PROVE KeepsLastTry'
  BY <1>12 DEF SetKey
<1>13. ASSUME NEW s \in Sessions, PutHash(s) PROVE KeepsLastTry'
  BY <1>13 DEF PutHash, Mine, Meddle
<1>14. ASSUME NEW s \in Sessions, ComputeSignature(s) PROVE KeepsLastTry'
  BY <1>14 DEF ComputeSignature
<1>15. ASSUME NEW s \in Sessions, ExchangeFails(s) PROVE KeepsLastTry'
  BY <1>15 DEF ExchangeFails
<1>16. ASSUME NEW s \in Sessions, FindToken(s) PROVE KeepsLastTry'
  BY <1>16 DEF FindToken
<1>17. ASSUME NEW s \in Sessions, CheckCertificateBeforeLogin(s) PROVE KeepsLastTry'
  BY <1>17, CheckBeforeLoginShape
<1>18. ASSUME NEW s \in Sessions, CheckTokenPinStatus(s) PROVE KeepsLastTry'
  BY <1>18 DEF CheckTokenPinStatus
<1>19. ASSUME NEW s \in Sessions, Login(s) PROVE KeepsLastTry'
  BY <1>19 DEF Login, Answered, Judge
<1>20. ASSUME NEW s \in Sessions, SelectCertificate(s) PROVE KeepsLastTry'
  BY <1>20, SelectShape
<1>21. ASSUME NEW s \in Sessions, ModuleSign(s) PROVE KeepsLastTry'
  BY <1>21 DEF ModuleSign, Mine, Meddle
<1>22. ASSUME NEW s \in Sessions, ModuleFails(s) PROVE KeepsLastTry'
  BY <1>22 DEF ModuleFails
<1>23. CASE OthersVerify
  BY <1>23 DEF OthersVerify, Judge
<1>24. CASE Pulled
  BY <1>24 DEF Pulled, ResetCard
<1>25. CASE Tick
  BY <1>25 DEF Tick
<1>26. CASE OthersSelect
  BY <1>26 DEF OthersSelect, Meddle
<1> QED BY <1>1, <1>2, <1>3, <1>4, <1>5, <1>6, <1>7, <1>8, <1>9, <1>10, <1>11, <1>12, <1>13,
           <1>14, <1>15, <1>16, <1>17, <1>18, <1>19, <1>20, <1>21, <1>22, <1>23, <1>24, <1>25,
           <1>26
       DEF Next, SessionStep, NativeStep, Pkcs11Step

\* Every step keeps the account of what a session costs.
LEMMA CostStep ==
  ASSUME TypeOK, SessionInv, CostOfACall, Next
  PROVE  CostOfACall'
<1> USE SessionAssumption, BoundAssumption, VerdictType
        DEF TypeOK, SessionInv, CostOfACall, BeforePin, Signing, WellFormed, AllPins
<1>1. ASSUME NEW s \in Sessions, AnswerLost(s) PROVE CostOfACall'
  BY <1>1 DEF AnswerLost, Judge
<1>2. ASSUME NEW s \in Sessions, Preflight(s) PROVE CostOfACall'
  BY <1>2 DEF Preflight
<1>3. ASSUME NEW s \in Sessions, ResolveFinalPin(s) PROVE CostOfACall'
  BY <1>3 DEF ResolveFinalPin, WellFormed
<1>4. ASSUME NEW s \in Sessions, BeginFile(s) PROVE CostOfACall'
  BY <1>4 DEF BeginFile
<1>5. ASSUME NEW s \in Sessions, Leave(s) PROVE CostOfACall'
  BY <1>5 DEF Leave
<1>6. ASSUME NEW s \in Sessions, Close(s) PROVE CostOfACall'
  BY <1>6 DEF Close, ResetCard
<1>7. ASSUME NEW s \in Sessions, Connect(s) PROVE CostOfACall'
  BY <1>7 DEF Connect
<1>8. ASSUME NEW s \in Sessions, ReadSigningCertificate(s) PROVE CostOfACall'
  BY <1>8 DEF ReadSigningCertificate
<1>9. ASSUME NEW s \in Sessions, Probe(s) PROVE CostOfACall'
  BY <1>9 DEF Probe, CheckPinStatus, Refusal
<1>10. ASSUME NEW s \in Sessions, Reprobe(s) PROVE CostOfACall'
  BY <1>10 DEF Reprobe, CheckPinStatus, Refusal
<1>11. ASSUME NEW s \in Sessions, Verify(s) PROVE CostOfACall'
  BY <1>11 DEF Verify, Answered, Judge
<1>12. ASSUME NEW s \in Sessions, SetKey(s) PROVE CostOfACall'
  BY <1>12 DEF SetKey
<1>13. ASSUME NEW s \in Sessions, PutHash(s) PROVE CostOfACall'
  BY <1>13 DEF PutHash, Mine, Meddle
<1>14. ASSUME NEW s \in Sessions, ComputeSignature(s) PROVE CostOfACall'
  BY <1>14 DEF ComputeSignature
<1>15. ASSUME NEW s \in Sessions, ExchangeFails(s) PROVE CostOfACall'
  BY <1>15 DEF ExchangeFails
<1>16. ASSUME NEW s \in Sessions, FindToken(s) PROVE CostOfACall'
  BY <1>16 DEF FindToken
<1>17. ASSUME NEW s \in Sessions, CheckCertificateBeforeLogin(s) PROVE CostOfACall'
  BY <1>17, CheckBeforeLoginShape
<1>18. ASSUME NEW s \in Sessions, CheckTokenPinStatus(s) PROVE CostOfACall'
  BY <1>18 DEF CheckTokenPinStatus
<1>19. ASSUME NEW s \in Sessions, Login(s) PROVE CostOfACall'
  BY <1>19 DEF Login, Answered, Judge
<1>20. ASSUME NEW s \in Sessions, SelectCertificate(s) PROVE CostOfACall'
  BY <1>20, SelectShape
<1>21. ASSUME NEW s \in Sessions, ModuleSign(s) PROVE CostOfACall'
  BY <1>21 DEF ModuleSign, Mine, Meddle
<1>22. ASSUME NEW s \in Sessions, ModuleFails(s) PROVE CostOfACall'
  BY <1>22 DEF ModuleFails
<1>23. CASE OthersVerify
  BY <1>23 DEF OthersVerify, Judge
<1>24. CASE Pulled
  BY <1>24 DEF Pulled, ResetCard
<1>25. CASE Tick
  BY <1>25 DEF Tick
<1>26. CASE OthersSelect
  BY <1>26 DEF OthersSelect, Meddle
<1> QED BY <1>1, <1>2, <1>3, <1>4, <1>5, <1>6, <1>7, <1>8, <1>9, <1>10, <1>11, <1>12, <1>13,
           <1>14, <1>15, <1>16, <1>17, <1>18, <1>19, <1>20, <1>21, <1>22, <1>23, <1>24, <1>25,
           <1>26
       DEF Next, SessionStep, NativeStep, Pkcs11Step

\* Every step keeps a signing session's certificate the right choice.
LEMMA ChosenStep ==
  ASSUME TypeOK, SessionInv, CertInv, ChosenIsUsable, Next
  PROVE  ChosenIsUsable'
<1> USE SessionAssumption DEF TypeOK, SessionInv, CertInv, ChosenIsUsable, RightChoice, Signing
<1>1. ASSUME NEW s \in Sessions, AnswerLost(s) PROVE ChosenIsUsable'
  BY <1>1 DEF AnswerLost, Judge
<1>2. ASSUME NEW s \in Sessions, Preflight(s) PROVE ChosenIsUsable'
  BY <1>2 DEF Preflight
<1>3. ASSUME NEW s \in Sessions, ResolveFinalPin(s) PROVE ChosenIsUsable'
  BY <1>3 DEF ResolveFinalPin, WellFormed
<1>4. ASSUME NEW s \in Sessions, BeginFile(s) PROVE ChosenIsUsable'
  BY <1>4 DEF BeginFile
<1>5. ASSUME NEW s \in Sessions, Leave(s) PROVE ChosenIsUsable'
  BY <1>5 DEF Leave
<1>6. ASSUME NEW s \in Sessions, Close(s) PROVE ChosenIsUsable'
  BY <1>6 DEF Close, ResetCard
<1>7. ASSUME NEW s \in Sessions, Connect(s) PROVE ChosenIsUsable'
  BY <1>7 DEF Connect
<1>8. ASSUME NEW s \in Sessions, ReadSigningCertificate(s) PROVE ChosenIsUsable'
  BY <1>8 DEF ReadSigningCertificate
<1>9. ASSUME NEW s \in Sessions, Probe(s) PROVE ChosenIsUsable'
  BY <1>9 DEF Probe, CheckPinStatus, Refusal
<1>10. ASSUME NEW s \in Sessions, Reprobe(s) PROVE ChosenIsUsable'
  BY <1>10 DEF Reprobe, CheckPinStatus, Refusal
<1>11. ASSUME NEW s \in Sessions, Verify(s) PROVE ChosenIsUsable'
  BY <1>11 DEF Verify, Answered, Judge
<1>12. ASSUME NEW s \in Sessions, SetKey(s) PROVE ChosenIsUsable'
  BY <1>12 DEF SetKey
<1>13. ASSUME NEW s \in Sessions, PutHash(s) PROVE ChosenIsUsable'
  BY <1>13 DEF PutHash, Mine, Meddle
<1>14. ASSUME NEW s \in Sessions, ComputeSignature(s) PROVE ChosenIsUsable'
  BY <1>14 DEF ComputeSignature
<1>15. ASSUME NEW s \in Sessions, ExchangeFails(s) PROVE ChosenIsUsable'
  BY <1>15 DEF ExchangeFails
<1>16. ASSUME NEW s \in Sessions, FindToken(s) PROVE ChosenIsUsable'
  BY <1>16 DEF FindToken
<1>17. ASSUME NEW s \in Sessions, CheckCertificateBeforeLogin(s) PROVE ChosenIsUsable'
  BY <1>17, CheckBeforeLoginShape
<1>18. ASSUME NEW s \in Sessions, CheckTokenPinStatus(s) PROVE ChosenIsUsable'
  BY <1>18 DEF CheckTokenPinStatus
<1>19. ASSUME NEW s \in Sessions, Login(s) PROVE ChosenIsUsable'
  BY <1>19 DEF Login, Answered, Judge
<1>20. ASSUME NEW s \in Sessions, SelectCertificate(s) PROVE ChosenIsUsable'
  BY <1>20, SelectShape
<1>21. ASSUME NEW s \in Sessions, ModuleSign(s) PROVE ChosenIsUsable'
  BY <1>21 DEF ModuleSign, Mine, Meddle
<1>22. ASSUME NEW s \in Sessions, ModuleFails(s) PROVE ChosenIsUsable'
  BY <1>22 DEF ModuleFails
<1>23. CASE OthersVerify
  BY <1>23 DEF OthersVerify, Judge
<1>24. CASE Pulled
  BY <1>24 DEF Pulled, ResetCard
<1>25. CASE Tick
  BY <1>25 DEF Tick
<1>26. CASE OthersSelect
  BY <1>26 DEF OthersSelect, Meddle
<1> QED BY <1>1, <1>2, <1>3, <1>4, <1>5, <1>6, <1>7, <1>8, <1>9, <1>10, <1>11, <1>12, <1>13,
           <1>14, <1>15, <1>16, <1>17, <1>18, <1>19, <1>20, <1>21, <1>22, <1>23, <1>24, <1>25,
           <1>26
       DEF Next, SessionStep, NativeStep, Pkcs11Step

\* The inductive invariant.
PinInv == /\ TypeOK /\ SessionInv /\ CounterInv /\ CertInv
          /\ KeepsLastTry /\ CostOfACall /\ ChosenIsUsable

\* It holds in every reachable state.
LEMMA Correct == Spec => []PinInv
<1>1. Init => PinInv
  BY InitInv DEF PinInv
<1>2. PinInv /\ [Next]_vars => PinInv'
  <2>1. CASE Next
    BY <2>1, TypeStep, SessionStepInv, CounterStep, CertStep, LastTryStep, CostStep, ChosenStep
       DEF PinInv
  <2>2. CASE UNCHANGED vars
    BY <2>2 DEF vars, PinInv, TypeOK, SessionInv, CounterInv, CertInv, KeepsLastTry,
                CostOfACall, ChosenIsUsable, RightChoice, Blind
  <2> QED BY <2>1, <2>2
<1> QED BY <1>1, <1>2, PTL DEF Spec

\* Every reachable state is well typed.
THEOREM TypeCorrect == Spec => []TypeOK
BY Correct, PTL DEF PinInv

\* However many sessions and programs share the card, whatever its counter starts at, no
\* session spends the last try unless others spent one where it could not look.
THEOREM LastTryIsKept == Spec => []KeepsLastTry
BY Correct, PTL DEF PinInv

\* A session sends at most one PIN, never a malformed one, and what it costs is told.
THEOREM CostIsTold == Spec => []CostOfACall
BY Correct, PTL DEF PinInv

\* Whatever a token holds, a session signs with a certificate that was valid when checked,
\* on PKCS#11 the wanted one, with its key, and the best of those.
THEOREM SignsWithUsable == Spec => []ChosenIsUsable
BY Correct, PTL DEF PinInv

-----------------------------------------------------------------------------
(* What the card signs, and with which key.                                   *)

\* What the session's next signature would use is what the session put there, or somebody else's.
Own(s) == (selected = "signature" /\ hashed = Mine(s)) \/ meddled[s]

\* While its connection lasts, a session finds in the card what it left there for this file,
\* unless somebody put something else in between or used the digest up.
SignInv ==
  \A s \in Native : live[s] =>
    /\ pc[s] \in {"hash", "cds"} => selected = "signature" \/ meddled[s]
    /\ pc[s] = "cds" => hashed \in {Mine(s), Nobody} \/ meddled[s]

Signed == \A s \in Native : files'[s] # files[s] => Own(s)

\* A step that signs nothing, hashes nothing and selects nothing.
LEMMA QuietStep ==
  ASSUME SignInv, UNCHANGED <<files, meddled, hashed, selected>>,
         \A s \in Sessions : pc'[s] \in {"hash", "cds"} =>
           pc'[s] = pc[s] /\ (live'[s] => live[s])
  PROVE  SignInv' /\ Signed
<1> USE SessionAssumption
<1> QED BY DEF SignInv, Signed, Mine

LEMMA SignStep ==
  ASSUME TypeOK, SessionInv, SignInv, Next
  PROVE  SignInv' /\ Signed
<1> USE SessionAssumption DEF TypeOK
<1>1. ASSUME NEW s \in Sessions, SetKey(s) PROVE SignInv' /\ Signed
  <2>1. /\ pc' = [pc EXCEPT ![s] = "hash"] /\ selected' = "signature"
        /\ UNCHANGED <<hashed, live, files, meddled>>
    BY <1>1 DEF SetKey
  <2> QED BY <2>1 DEF SignInv, Signed, Mine
<1>2. ASSUME NEW s \in Sessions, PutHash(s) PROVE SignInv' /\ Signed
  <2>1. /\ pc[s] = "hash" /\ pc' = [pc EXCEPT ![s] = "cds"] /\ hashed' = Mine(s)
        /\ UNCHANGED <<selected, live, files>>
        /\ meddled' = [t \in Sessions |->
             meddled[t] \/ (t # s /\ t \in Native /\ pc[t] \in {"cds"})]
    BY <1>2 DEF PutHash, Meddle
  <2>2. Mine(s)' = Mine(s)
    BY <2>1 DEF Mine
  <2>3. ASSUME NEW t \in Native, t # s, pc'[t] = "cds" PROVE meddled'[t]
    BY <2>1, <2>3
  <2>4. \A t \in Sessions : meddled[t] => meddled'[t]
    BY <2>1
  <2> QED BY <2>1, <2>2, <2>3, <2>4 DEF SignInv, Signed
<1>3. ASSUME NEW s \in Sessions, ComputeSignature(s) PROVE SignInv' /\ Signed
  <2>1. CASE verified /\ hashed # Nobody /\ selected # "none"
    <3>1. /\ live[s] /\ pc[s] = "cds" /\ pc' = [pc EXCEPT ![s] = "ready"]
          /\ hashed' \in {hashed, Nobody} /\ UNCHANGED <<selected, live>>
          /\ files' = [files EXCEPT ![s] = @ + 1]
          /\ meddled' = [meddled EXCEPT ![s] = FALSE]
      BY <1>3, <2>1 DEF ComputeSignature
    <3>2. s \in Native => Own(s)
      BY <2>1, <3>1 DEF SignInv, Own
    <3>3. Signed
      BY <3>1, <3>2 DEF Signed
    <3>4. ASSUME NEW t \in Native, t # s PROVE Mine(t)' = Mine(t) /\ meddled'[t] = meddled[t]
      BY <3>1, <3>4 DEF Mine
    <3> QED BY <3>1, <3>3, <3>4 DEF SignInv
  <2>2. CASE ~(verified /\ hashed # Nobody /\ selected # "none")
    <3>1. /\ UNCHANGED <<files, meddled, hashed, selected, live>>
          /\ \A t \in Sessions : pc'[t] \in {"hash", "cds"} => pc'[t] = pc[t]
      BY <1>3, <2>2 DEF ComputeSignature
    <3> QED BY <3>1, QuietStep
  <2> QED BY <2>1, <2>2
<1>4. ASSUME NEW s \in Sessions, ModuleSign(s) PROVE SignInv' /\ Signed
  <2>1. pc[s] = "sign" /\ s \notin Native
    BY <1>4 DEF ModuleSign, SessionInv
  <2>2. CASE verified
    <3>1. /\ pc' = [pc EXCEPT ![s] = "ready"] /\ files' = [files EXCEPT ![s] = @ + 1]
          /\ meddled' = [t \in Sessions |->
               meddled[t] \/ (t # s /\ t \in Native /\ pc[t] \in {"hash", "cds"})]
      BY <1>4, <2>2 DEF ModuleSign, Meddle
    <3>2. \A t \in Native : pc'[t] \in {"hash", "cds"} => meddled'[t]
      BY <2>1, <3>1
    <3> QED BY <2>1, <3>1, <3>2 DEF SignInv, Signed
  <2>3. CASE ~verified
    <3>1. /\ UNCHANGED <<files, meddled, hashed, selected, live>>
          /\ \A t \in Sessions : pc'[t] \in {"hash", "cds"} => pc'[t] = pc[t]
      BY <1>4, <2>3 DEF ModuleSign
    <3> QED BY <3>1, QuietStep
  <2> QED BY <2>2, <2>3
<1>5. ASSUME NEW s \in Sessions, Close(s) PROVE SignInv' /\ Signed
  <2>1. CASE ResetCard({})
    <3>1. UNCHANGED files /\ \A t \in Sessions : ~live'[t]
      BY <1>5, <2>1 DEF Close, ResetCard
    <3> QED BY <3>1 DEF SignInv, Signed
  <2>2. CASE ~ResetCard({})
    <3>1. /\ UNCHANGED <<files, meddled, hashed, selected>>
          /\ live' = [live EXCEPT ![s] = FALSE] /\ pc' = [pc EXCEPT ![s] = "ended"]
      BY <1>5, <2>2 DEF Close
    <3> QED BY <3>1, QuietStep
  <2> QED BY <2>1, <2>2
<1>6. ASSUME NEW s \in Sessions, Connect(s) \/ ReadSigningCertificate(s) \/ Probe(s) \/ Reprobe(s)
                                   \/ ExchangeFails(s)
      PROVE  SignInv' /\ Signed
  <2>1. /\ UNCHANGED <<files, meddled, hashed, selected>>
        /\ \A t \in Sessions : pc'[t] \in {"hash", "cds"} =>
             pc'[t] = pc[t] /\ (live'[t] => live[t])
    BY <1>6 DEF Connect, ReadSigningCertificate, Probe, Reprobe, CheckPinStatus, ExchangeFails
  <2> QED BY <2>1, QuietStep
<1>7. ASSUME NEW s \in Sessions, Verify(s) \/ Login(s) \/ AnswerLost(s)
      PROVE  SignInv' /\ Signed
  <2>1. /\ UNCHANGED <<files, meddled, hashed, selected, live>>
        /\ \A t \in Sessions : pc'[t] \in {"hash", "cds"} => pc'[t] = pc[t]
    BY <1>7 DEF Verify, Login, AnswerLost, Answered, Judge
  <2> QED BY <2>1, QuietStep
<1>8. ASSUME NEW s \in Sessions, Preflight(s) \/ ResolveFinalPin(s) \/ BeginFile(s) \/ Leave(s)
      PROVE  SignInv' /\ Signed
  <2>1. /\ UNCHANGED <<files, meddled, hashed, selected, live>>
        /\ \A t \in Sessions : pc'[t] \in {"hash", "cds"} => pc'[t] = pc[t]
    BY <1>8 DEF Preflight, ResolveFinalPin, BeginFile, Leave
  <2> QED BY <2>1, QuietStep
<1>9. ASSUME NEW s \in Sessions, FindToken(s) \/ CheckTokenPinStatus(s) \/ ModuleFails(s)
                                   \/ CheckCertificateBeforeLogin(s) \/ SelectCertificate(s)
      PROVE  SignInv' /\ Signed
  <2>1. /\ UNCHANGED <<files, meddled, hashed, selected, live>>
        /\ \A t \in Sessions : pc'[t] \in {"hash", "cds"} => pc'[t] = pc[t]
    BY <1>9, CheckBeforeLoginShape, SelectShape DEF FindToken, CheckTokenPinStatus, ModuleFails
  <2> QED BY <2>1, QuietStep
<1>10. CASE OthersSelect
  <2>1. /\ UNCHANGED <<files, pc>>
        /\ meddled' = [t \in Sessions |->
             meddled[t] \/ (t # Nobody /\ t \in Native /\ pc[t] \in {"hash", "cds"})]
    BY <1>10 DEF OthersSelect, Meddle
  <2>2. \A t \in Native : pc'[t] \in {"hash", "cds"} => meddled'[t]
    BY <2>1
  <2> QED BY <2>1, <2>2 DEF SignInv, Signed
<1>11. CASE Pulled
  <2>1. UNCHANGED files /\ \A t \in Sessions : ~live'[t]
    BY <1>11 DEF Pulled, ResetCard
  <2> QED BY <2>1 DEF SignInv, Signed
<1>12. CASE OthersVerify \/ Tick
  <2>1. UNCHANGED <<files, meddled, hashed, selected, pc, live>>
    BY <1>12 DEF OthersVerify, Judge, Tick
  <2> QED BY <2>1, QuietStep
<1> QED BY <1>1, <1>2, <1>3, <1>4, <1>5, <1>6, <1>7, <1>8, <1>9, <1>10, <1>11, <1>12
        DEF Next, SessionStep, NativeStep, Pkcs11Step

\* However many sessions sign on one card and whatever other programs select on it, a native
\* signature is made with the session's own key over the file it is for, unless somebody put
\* another key or digest there between its commands.
THEOREM SignsOwnFile == Spec => SignsItsOwn
<1>1. Init => SignInv
  BY SessionAssumption DEF Init, SignInv
<1>2. TypeOK /\ SessionInv /\ SignInv /\ [Next]_vars => SignInv' /\ [Signed]_vars
  <2>1. CASE UNCHANGED vars
    BY <2>1 DEF vars, SignInv, Mine
  <2> QED BY <2>1, SignStep
<1>3. PinInv => TypeOK /\ SessionInv
  BY DEF PinInv
<1>4. [Signed]_vars =>
        [\A s \in Native : files'[s] # files[s] =>
           (selected = "signature" /\ hashed = Mine(s)) \/ meddled[s]]_vars
  BY DEF Signed, Own
<1> QED BY <1>1, <1>2, <1>3, <1>4, Correct, PTL DEF Spec, SignsItsOwn

-----------------------------------------------------------------------------
(* What the check before the login is worth.                                  *)

\* A token that shows a usable certificate before the login still has one after it.
LEMMA MoreIsEnough ==
  ASSUME NEW certs, NEW more, certs \subseteq more, NEW id, NEW when,
         UsableVerdict(certs, id, when) = "ok"
  PROVE  UsableVerdict(more, id, when) = "ok"
<1>1. Matching(certs, id) \subseteq Matching(more, id)
  BY DEF Matching
<1>2. ValidOf(certs, id, when) \subseteq ValidOf(more, id, when)
  BY DEF ValidOf, Matching
<1>3. Matching(certs, id) # {} /\ ValidOf(certs, id, when) # {}
  BY DEF UsableVerdict
<1>4. Matching(more, id) # {} /\ ValidOf(more, id, when) # {}
  BY <1>1, <1>2, <1>3
<1> QED BY <1>4 DEF UsableVerdict

\* Where a session that passed the check goes until it chooses its certificate.
WaitsForPin == {"status", "ask", "login", "select"}
NoUse       == {"not_found", "not_valid"}

\* A PKCS#11 session on its way to the login was shown a usable certificate, or nothing at
\* all, or was kept from reading something.
AskInv ==
  \A s \in Sessions :
    /\ certDay[s] <= day
    /\ s \notin Native /\ pc[s] \in WaitsForPin =>
         \/ unsure[s] \/ Visible(token, FALSE) = {}
         \/ UsableVerdict(Visible(token, FALSE), wanted[s], certDay[s]) = "ok"
    /\ s \in Native /\ outcome[s] \in NoUse => pin[s] = "none"

\* No check lies in the future.
LEMMA ChecksArePast ==
  ASSUME TypeOK, AskInv
  PROVE  day \in Nat /\ \A t \in Sessions : certDay[t] \in Nat /\ certDay[t] <= day
<1>1. day \in Nat /\ \A t \in Sessions : certDay[t] \in Nat
  BY BoundAssumption DEF TypeOK
<1>2. \A t \in Sessions : certDay[t] <= day
  BY DEF AskInv
<1> QED BY <1>1, <1>2

\* A check is dated today, and what was checked before stays in the past.
LEMMA DaysAreKept ==
  ASSUME TypeOK, AskInv, NEW s \in Sessions, certDay' = [certDay EXCEPT ![s] = day], day' = day
  PROVE  \A t \in Sessions : certDay'[t] <= day'
BY ChecksArePast DEF TypeOK

\* A step that checks no certificate.
LEMMA UncheckedStep ==
  ASSUME TypeOK, AskInv, AskedLast, day' \in {day, day + 1},
         UNCHANGED <<token, wanted, certDay, unsure, missed>>,
         \A t \in Sessions \ Native : pc'[t] \in WaitsForPin => pc[t] \in WaitsForPin,
         \A t \in Sessions : outcome'[t] \in NoUse => outcome'[t] = outcome[t] /\ pin'[t] = pin[t]
  PROVE  AskInv' /\ AskedLast'
<1>1. \A t \in Sessions : certDay'[t] <= day'
  BY ChecksArePast
<1>2. Visible(token, FALSE)' = Visible(token, FALSE)
  BY DEF Visible
<1>3. \A t \in Sessions : t \in Native /\ outcome'[t] \in NoUse => pin'[t] = "none"
  BY DEF AskInv
<1>4. \A t \in Sessions : t \notin Native /\ pc'[t] \in WaitsForPin =>
         \/ unsure'[t] \/ Visible(token, FALSE)' = {}
         \/ UsableVerdict(Visible(token, FALSE)', wanted'[t], certDay'[t]) = "ok"
  BY <1>2 DEF AskInv
<1>5. AskInv'
  BY <1>1, <1>3, <1>4 DEF AskInv
<1> QED BY <1>2, <1>5 DEF AskedLast, NoUse

\* The check before the login.
LEMMA CheckedEarly ==
  ASSUME TypeOK, SessionInv, AskInv, AskedLast, NEW s \in Sessions, CheckCertificateBeforeLogin(s)
  PROVE  AskInv' /\ AskedLast'
<1> USE DEF TypeOK
<1>1. /\ pc[s] = "precheck" /\ s \notin Native /\ pin[s] = "none"
      /\ certDay' = [certDay EXCEPT ![s] = day]
      /\ UNCHANGED <<day, token, wanted, missed, pin>>
      /\ \A t \in Sessions \ {s} :
           pc'[t] = pc[t] /\ outcome'[t] = outcome[t] /\ unsure'[t] = unsure[t]
  BY CheckBeforeLoginShape DEF SessionInv, BeforePin
<1>2. pc'[s] \in WaitsForPin =>
         \/ unsure'[s] \/ Visible(token, FALSE) = {}
         \/ UsableVerdict(Visible(token, FALSE), wanted[s], day) = "ok"
  <2>1. PICK lost \in Lost(Visible(token, FALSE)) :
          \/ /\ VerdictBeforeLogin(Visible(token, FALSE), lost, wanted[s], day) = "ok"
             /\ unsure' = [unsure EXCEPT ![s] = lost # {}]
          \/ Fail(s, "precheck", VerdictBeforeLogin(Visible(token, FALSE), lost, wanted[s], day))
          \/ unsure' = [unsure EXCEPT ![s] = TRUE]
    BY DEF CheckCertificateBeforeLogin
  <2>2. CASE /\ VerdictBeforeLogin(Visible(token, FALSE), lost, wanted[s], day) = "ok"
             /\ unsure' = [unsure EXCEPT ![s] = lost # {}]
    BY <2>2 DEF VerdictBeforeLogin
  <2>3. CASE Fail(s, "precheck", VerdictBeforeLogin(Visible(token, FALSE), lost, wanted[s], day))
    BY <2>3 DEF WaitsForPin
  <2>4. CASE unsure' = [unsure EXCEPT ![s] = TRUE]
    BY <2>4
  <2> QED BY <2>1, <2>2, <2>3, <2>4
<1>3. Visible(token, FALSE)' = Visible(token, FALSE)
  BY <1>1 DEF Visible
<1>4. \A t \in Sessions : certDay'[t] <= day'
  BY <1>1, DaysAreKept
<1>5. \A t \in Sessions : t \notin Native /\ pc'[t] \in WaitsForPin =>
         \/ unsure'[t] \/ Visible(token, FALSE) = {}
         \/ UsableVerdict(Visible(token, FALSE), wanted'[t], certDay'[t]) = "ok"
  BY <1>1, <1>2 DEF AskInv
<1>6. AskInv'
  BY <1>1, <1>3, <1>4, <1>5 DEF AskInv
<1> QED BY <1>1, <1>3, <1>6 DEF AskedLast

\* The choice after the login: what it could read is everything, or something was missed.
LEMMA CheckedLate ==
  ASSUME TypeOK, SessionInv, AskInv, AskedLast, NEW s \in Sessions, SelectCertificate(s)
  PROVE  AskInv' /\ AskedLast'
<1> USE DEF TypeOK
<1>1. /\ pc[s] = "select" /\ s \notin Native
      /\ certDay' = [certDay EXCEPT ![s] = day]
      /\ UNCHANGED <<day, token, wanted, unsure, pin>>
      /\ pc'[s] \notin WaitsForPin
      /\ \A t \in Sessions \ {s} :
           pc'[t] = pc[t] /\ outcome'[t] = outcome[t] /\ missed'[t] = missed[t]
  BY SelectShape DEF SessionInv, WaitsForPin
<1>2. Visible(token, FALSE)' = Visible(token, FALSE) /\ Visible(token, TRUE) = token
  BY <1>1 DEF Visible
<1>3. outcome'[s] \in NoUse =>
         Visible(token, FALSE) = {} \/ day > 0 \/ unsure[s] \/ missed'[s] # {}
  <2>1. PICK lost \in Lost(token) :
          /\ missed' = [missed EXCEPT ![s] = lost]
          /\ \/ UNCHANGED outcome
             \/ outcome' = [outcome EXCEPT ![s] = SelectVerdict(token \ lost, wanted[s], day)]
    BY <1>2 DEF SelectCertificate
  <2>2. day \in Nat /\ certDay[s] \in Nat /\ certDay[s] <= day
    BY ChecksArePast
  <2>3. missed' = [missed EXCEPT ![s] = lost]
    BY <2>1
  <2>4. missed'[s] = lost
    BY <2>3
  <2> SUFFICES ASSUME outcome'[s] \in NoUse, Visible(token, FALSE) # {},
                      ~(day > 0), ~unsure[s], missed'[s] = {}
               PROVE  FALSE
    OBVIOUS
  <2>5. day = 0 /\ lost = {}
    BY <2>2, <2>4
  <2>6. outcome[s] = "none"
    BY <1>1 DEF SessionInv
  <2>7. UsableVerdict(token, wanted[s], day) # "ok"
    BY <2>1, <2>5, <2>6 DEF SelectVerdict, NoUse
  <2>8. certDay[s] = 0
    BY <2>2, <2>5
  <2>9. UsableVerdict(Visible(token, FALSE), wanted[s], day) = "ok"
    BY <1>1, <2>5, <2>8 DEF AskInv, WaitsForPin
  <2> DEFINE id == wanted[s]
             seen == Visible(token, FALSE)
  <2>10. UsableVerdict(seen, id, day) = "ok" /\ seen \subseteq token
    BY <2>9 DEF Visible
  <2>11. UsableVerdict(token, id, day) = "ok"
    <3> HIDE DEF id, seen
    <3> QED BY <2>10, MoreIsEnough
  <2> QED BY <2>7, <2>11
<1>4. \A t \in Sessions : certDay'[t] <= day'
  BY <1>1, DaysAreKept
<1>5. \A t \in Sessions : t \notin Native /\ pc'[t] \in WaitsForPin =>
         \/ unsure'[t] \/ Visible(token, FALSE) = {}
         \/ UsableVerdict(Visible(token, FALSE), wanted'[t], certDay'[t]) = "ok"
  BY <1>1 DEF AskInv
<1>6. AskInv'
  BY <1>1, <1>2, <1>4, <1>5 DEF AskInv
<1> QED BY <1>1, <1>2, <1>3, <1>6 DEF AskedLast, NoUse

\* The native session reads its certificate before it asks for anything.
LEMMA CheckedOnCard ==
  ASSUME TypeOK, SessionInv, AskInv, AskedLast, NEW s \in Sessions, ReadSigningCertificate(s)
  PROVE  AskInv' /\ AskedLast'
<1> USE DEF TypeOK
<1>1. /\ pc[s] = "readcert" /\ s \in Native /\ pin[s] = "none"
      /\ certDay' = [certDay EXCEPT ![s] = day]
      /\ UNCHANGED <<day, token, wanted, unsure, missed, pin>>
      /\ \A t \in Sessions \ {s} : pc'[t] = pc[t] /\ outcome'[t] = outcome[t]
  BY DEF ReadSigningCertificate, SessionInv, BeforePin
<1>2. Visible(token, FALSE)' = Visible(token, FALSE)
  BY <1>1 DEF Visible
<1>3. \A t \in Sessions : certDay'[t] <= day'
  BY <1>1, DaysAreKept
<1>4. \A t \in Sessions : t \notin Native /\ pc'[t] \in WaitsForPin =>
         \/ unsure'[t] \/ Visible(token, FALSE) = {}
         \/ UsableVerdict(Visible(token, FALSE), wanted'[t], certDay'[t]) = "ok"
  BY <1>1 DEF AskInv
<1>5. AskInv'
  BY <1>1, <1>2, <1>3, <1>4 DEF AskInv
<1> QED BY <1>1, <1>2, <1>5 DEF AskedLast

LEMMA AskStep ==
  ASSUME TypeOK, SessionInv, AskInv, AskedLast, Next
  PROVE  AskInv' /\ AskedLast'
<1> USE DEF TypeOK, WaitsForPin, NoUse
<1>1. ASSUME NEW s \in Sessions, AnswerLost(s) \/ Verify(s) \/ Login(s) PROVE AskInv' /\ AskedLast'
  <2>1. /\ UNCHANGED <<day, token, wanted, certDay, unsure, missed, pin>>
        /\ \A t \in Sessions \ Native : pc'[t] \in WaitsForPin => pc[t] \in WaitsForPin
        /\ \A t \in Sessions : outcome'[t] \in NoUse => outcome'[t] = outcome[t]
    BY <1>1 DEF AnswerLost, Verify, Login, Answered, Judge
  <2> QED BY <2>1, UncheckedStep
<1>2. ASSUME NEW s \in Sessions, ResolveFinalPin(s) PROVE AskInv' /\ AskedLast'
  <2>1. /\ UNCHANGED <<day, token, wanted, certDay, unsure, missed>>
        /\ \A t \in Sessions \ Native : pc'[t] \in WaitsForPin => pc[t] \in WaitsForPin
        /\ outcome[s] = "none" /\ outcome'[s] \notin NoUse
        /\ \A t \in Sessions \ {s} : outcome'[t] = outcome[t] /\ pin'[t] = pin[t]
    BY <1>2 DEF ResolveFinalPin, SessionInv
  <2> QED BY <2>1, UncheckedStep
<1>3. ASSUME NEW s \in Sessions, Preflight(s) PROVE AskInv' /\ AskedLast'
  <2>1. /\ UNCHANGED <<day, token, wanted, certDay, unsure, missed, pin>>
        /\ \A t \in Sessions \ Native : pc'[t] \in WaitsForPin => pc[t] \in WaitsForPin
        /\ \A t \in Sessions : outcome'[t] \in NoUse => outcome'[t] = outcome[t]
    BY <1>3 DEF Preflight
  <2> QED BY <2>1, UncheckedStep
<1>4. ASSUME NEW s \in Sessions, BeginFile(s) \/ Leave(s) \/ Close(s)
      PROVE  AskInv' /\ AskedLast'
  <2>1. UNCHANGED <<day, token, wanted, certDay, unsure, missed, pin>>
    BY <1>4 DEF BeginFile, Leave, Close
  <2>2. \A t \in Sessions \ Native : pc'[t] \in WaitsForPin => pc[t] \in WaitsForPin
    BY <1>4 DEF BeginFile, Leave, Close
  <2>3. \A t \in Sessions : outcome'[t] \in NoUse => outcome'[t] = outcome[t]
    BY <1>4 DEF BeginFile, Leave, Close
  <2> QED BY <2>1, <2>2, <2>3, UncheckedStep
<1>5. ASSUME NEW s \in Sessions, Connect(s) \/ Probe(s) \/ Reprobe(s) \/ SetKey(s) \/ PutHash(s)
                                   \/ ComputeSignature(s) \/ ExchangeFails(s)
      PROVE  AskInv' /\ AskedLast'
  <2>1. /\ UNCHANGED <<day, token, wanted, certDay, unsure, missed, pin>>
        /\ \A t \in Sessions \ Native : pc'[t] \in WaitsForPin => pc[t] \in WaitsForPin
        /\ \A t \in Sessions : outcome'[t] \in NoUse => outcome'[t] = outcome[t]
    BY <1>5 DEF Connect, Probe, Reprobe, CheckPinStatus, Refusal, SetKey, PutHash,
                ComputeSignature, ExchangeFails, SessionInv
  <2> QED BY <2>1, UncheckedStep
<1>6. ASSUME NEW s \in Sessions, FindToken(s) \/ CheckTokenPinStatus(s) \/ ModuleSign(s)
                                   \/ ModuleFails(s)
      PROVE  AskInv' /\ AskedLast'
  <2>1. /\ UNCHANGED <<day, token, wanted, certDay, unsure, missed, pin>>
        /\ \A t \in Sessions \ Native : pc'[t] \in WaitsForPin => pc[t] \in WaitsForPin
        /\ \A t \in Sessions : outcome'[t] \in NoUse => outcome'[t] = outcome[t]
    BY <1>6 DEF FindToken, CheckTokenPinStatus, ModuleSign, ModuleFails
  <2> QED BY <2>1, UncheckedStep
<1>7. CASE OthersVerify \/ OthersSelect \/ Pulled \/ Tick
  <2>1. /\ UNCHANGED <<pc, outcome, token, wanted, certDay, unsure, missed, pin>>
        /\ day' \in {day, day + 1}
    BY <1>7 DEF OthersVerify, Judge, OthersSelect, Pulled, ResetCard, Tick
  <2> QED BY <2>1, UncheckedStep
<1> QED BY <1>1, <1>2, <1>3, <1>4, <1>5, <1>6, <1>7, CheckedEarly, CheckedLate, CheckedOnCard
        DEF Next, SessionStep, NativeStep, Pkcs11Step

\* Whatever the token holds and however long the session takes, a PIN is never asked for and
\* then wasted on a certificate the check before the login could have seen was missing or
\* invalid.
THEOREM PinIsAskedLast == Spec => []AskedLast
<1>1. Init => AskInv /\ AskedLast
  BY DEF Init, AskInv, AskedLast, WaitsForPin, NoUse
<1>2. TypeOK /\ SessionInv /\ AskInv /\ AskedLast /\ [Next]_vars => AskInv' /\ AskedLast'
  <2>1. CASE UNCHANGED vars
    BY <2>1, UncheckedStep DEF vars
  <2> QED BY <2>1, AskStep
<1>3. PinInv => TypeOK /\ SessionInv
  BY DEF PinInv
<1> QED BY <1>1, <1>2, <1>3, Correct, PTL DEF Spec

\* A step that refuses a certificate before the login is the check itself.
LEMMA RefusedEarly ==
  ASSUME TypeOK, SessionInv, Next, NEW s \in Sessions, pc[s] = "precheck", outcome'[s] # "none"
  PROVE  CheckCertificateBeforeLogin(s)
<1>1. outcome[s] = "none" /\ s \notin Native
  BY DEF SessionInv
<1>2. ASSUME NEW t \in Sessions, SessionStep(t), t # s PROVE FALSE
  <2>1. outcome'[s] = outcome[s]
    <3>1. CASE CheckCertificateBeforeLogin(t) \/ SelectCertificate(t)
      BY <1>2, <3>1, CheckBeforeLoginShape, SelectShape DEF TypeOK
    <3>2. CASE AnswerLost(t) \/ Preflight(t) \/ ResolveFinalPin(t)
      BY <1>2, <3>2 DEF TypeOK, AnswerLost, Preflight, ResolveFinalPin
    <3>3. CASE BeginFile(t) \/ Leave(t) \/ Close(t)
      BY <1>2, <3>3 DEF TypeOK, BeginFile, Leave, Close
    <3>4. CASE NativeStep(t)
      BY <1>2, <3>4 DEF TypeOK, NativeStep, Connect, ReadSigningCertificate, Probe, Reprobe,
           CheckPinStatus, Verify, Answered, SetKey, PutHash, ComputeSignature, ExchangeFails
    <3>5. CASE \/ FindToken(t) \/ CheckTokenPinStatus(t) \/ Login(t) \/ ModuleSign(t)
               \/ ModuleFails(t)
      BY <1>2, <3>5 DEF TypeOK, FindToken, CheckTokenPinStatus, Login, Answered, ModuleSign,
           ModuleFails
    <3> QED BY <1>2, <3>1, <3>2, <3>3, <3>4, <3>5 DEF SessionStep, Pkcs11Step
  <2> QED BY <1>1, <2>1
<1>3. ASSUME SessionStep(s) PROVE CheckCertificateBeforeLogin(s)
  <2>1. ~(\/ AnswerLost(s) \/ Preflight(s) \/ ResolveFinalPin(s)
          \/ BeginFile(s) \/ Leave(s) \/ Close(s))
    BY DEF AnswerLost, Preflight, ResolveFinalPin, BeginFile, Leave, Close
  <2>2. ~NativeStep(s)
    BY DEF NativeStep, Connect, ReadSigningCertificate, Probe, Reprobe, CheckPinStatus, Verify,
           Answered, SetKey, PutHash, ComputeSignature, ExchangeFails, AfterConnect
  <2>3. ~(FindToken(s) \/ CheckTokenPinStatus(s) \/ Login(s) \/ SelectCertificate(s)
            \/ ModuleSign(s) \/ ModuleFails(s))
    BY SelectShape DEF FindToken, CheckTokenPinStatus, Login, Answered, ModuleSign, ModuleFails
  <2> QED BY <1>3, <2>1, <2>2, <2>3 DEF SessionStep, Pkcs11Step
<1>4. ~(OthersVerify \/ OthersSelect \/ Pulled \/ Tick)
  BY <1>1 DEF OthersVerify, OthersSelect, Pulled, Tick
<1> QED BY <1>2, <1>3, <1>4 DEF Next

\* What the check before the login refuses, the choice after it would have refused, for every
\* token that keeps no certificate private.
THEOREM RefusesForGood == Spec => EarlyRefusalIsFinal
<1>1. ASSUME TypeOK, SessionInv, Next, NEW s \in Sessions,
             pc[s] = "precheck", outcome'[s] # "none",
             \A c \in token : c.public
      PROVE  SelectVerdict(token, wanted[s], day) # "ok"
  <2>1. Visible(token, FALSE) = token
    BY <1>1 DEF Visible
  <2>2. outcome[s] = "none"
    BY <1>1 DEF SessionInv
  <2>3. PICK lost \in Lost(token) : VerdictBeforeLogin(token, lost, wanted[s], day) # "ok"
    BY <1>1, <2>1, <2>2, RefusedEarly DEF CheckCertificateBeforeLogin
  <2> QED BY <2>3 DEF VerdictBeforeLogin, SelectVerdict
<1>2. TypeOK /\ SessionInv /\ [Next]_vars =>
        [\A s \in Sessions : pc[s] = "precheck" /\ outcome'[s] # "none" =>
           \/ SelectVerdict(token, wanted[s], day) # "ok"
           \/ \E c \in token : ~c.public]_vars
  BY <1>1
<1>3. PinInv => TypeOK /\ SessionInv
  BY DEF PinInv
<1> QED BY <1>2, <1>3, Correct, PTL DEF Spec, EarlyRefusalIsFinal
=============================================================================
