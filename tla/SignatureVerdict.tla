------------------------- MODULE SignatureVerdict -------------------------
(***************************************************************************)
(* What firmauy says of a signature and its timestamp (verify_common.py,   *)
(* pdf_verify.py, cms_verify.py, xml_verify.py).  The same facts are put   *)
(* to the three verifiers day after day, with any timestamp: it is an      *)
(* unsigned attribute, and whoever holds the file can write another.       *)
(* Certificates end on a day, and a chain is a root; cryptography and path *)
(* validation are pyHanko's.                                               *)
(***************************************************************************)
EXTENDS Integers, FiniteSets

CONSTANTS
  LastDay,   \* the clock stops here
  Roots      \* the roots a signer's or a TSA's chain can end in

ASSUME CalendarAssumption == LastDay \in Nat

Days == 0..LastDay
Never == -1            \* Python's None, for a time
Formats == {"pdf", "cms", "xml"}
Answers == {"yes", "no", "none"}   \* True, False and None: not evaluated

VARIABLES
  today,
  file,     \* the signature: its integrity, what it covers, and its certificate
  crl,      \* what a revocation check would find today
  token,    \* its timestamp
  caller,   \* the anchors the person verifying gives, and whether revocation is checked
  results   \* format -> what the last verification returned

vars == <<today, file, crl, token, caller, results>>

Files == [intact : BOOLEAN, valid : BOOLEAN, covers : BOOLEAN, root : Roots, until : Days]

\* A token that is not there, one whose element or attribute was emptied, one whose genTime
\* cannot be read, one with another field broken or a hash nobody implements, and a sound one:
\* over this signature or not, with a good signature of its own or not, from some TSA.
Fields == [binds : BOOLEAN, genuine : BOOLEAN, root : Roots, gen : Days, until : Days]
Tokens ==
  [state : {"absent", "empty", "garbled"}] \cup [state : {"unusable"}, gen : Days]
  \cup {[state |-> "readable", binds |-> t.binds, genuine |-> t.genuine, root |-> t.root,
         gen |-> t.gen, until |-> t.until] : t \in Fields}

Callers == [signer : SUBSET Roots, tsa : SUBSET Roots, revocation : BOOLEAN]

-----------------------------------------------------------------------------
(* The timestamp.                                                            *)

Answer(b) == IF b THEN "yes" ELSE "no"

\* No timestamp is a timestamp with nothing against it.
NoStamp == [present |-> FALSE, intact |-> "none", valid |-> "none", trusted |-> "none",
            gen |-> Never, ok |-> TRUE, time |-> Never]

\* It is there and says nothing.  The PDF and CMS verifiers take it out of the signature so
\* that pyHanko does not parse it again (drop_timestamp_token).
Malformed == [present |-> TRUE, intact |-> "no", valid |-> "no", trusted |-> "none",
              gen |-> Never, ok |-> FALSE, time |-> Never]

\* Mutant: the TSA's certificate is judged when the file is verified.
ValidateToday(t) ==
  IF t.state = "unusable" THEN [intact |-> "no", valid |-> "no", trusted |-> "none"]
  ELSE [intact |-> Answer(t.binds), valid |-> Answer(t.genuine),
        trusted |-> IF caller.tsa = {} THEN "none"
                    ELSE Answer(t.root \in caller.tsa /\ today <= t.until)]

\* validate_timestamp_token: three questions; only the chain's depends on the anchors, and it is
\* judged at the genTime.  What pyHanko raises is one error.
Validate(t) ==
  IF t.state = "unusable" THEN [intact |-> "no", valid |-> "no", trusted |-> "none"]
  ELSE [intact |-> Answer(t.binds), valid |-> Answer(t.genuine),
        trusted |-> IF caller.tsa = {} THEN "none"
                    ELSE Answer(t.root \in caller.tsa /\ t.gen <= t.until)]

\* Mutant: a time nobody vouched for is used too.
EvaluateClaim(t) ==
  LET v == Validate(t)
      sound == v.intact = "yes" /\ v.valid = "yes"
  IN [present |-> TRUE, intact |-> v.intact, valid |-> v.valid, trusted |-> v.trusted,
      gen |-> t.gen, ok |-> sound /\ v.trusted # "no", time |-> IF sound THEN t.gen ELSE Never]

\* evaluate_timestamp: the row passes unless something was found wrong; the time is handed back
\* only when everything was asked and answered yes.
Evaluate(t) ==
  LET v == Validate(t)
      sound == v.intact = "yes" /\ v.valid = "yes"
  IN [present |-> TRUE, intact |-> v.intact, valid |-> v.valid, trusted |-> v.trusted,
      gen |-> t.gen, ok |-> sound /\ v.trusted # "no",
      time |-> IF sound /\ v.trusted = "yes" THEN t.gen ELSE Never]

\* timestamp_of (PDF and CMS): the whole token is parsed and its hash looked up before it is used.
TimestampOf ==
  CASE token.state = "absent" -> NoStamp
    [] token.state \in {"empty", "garbled", "unusable"} -> Malformed
    [] OTHER -> Evaluate(token)

\* Mutant: a token that cannot be read is no token.
XmlTimestampAbsent ==
  CASE token.state \in {"absent", "empty", "garbled"} -> NoStamp
    [] OTHER -> Evaluate(token)

\* _verify_timestamp (XML): an element without text is no timestamp, and only the genTime is
\* read before the token is used.
XmlTimestamp ==
  CASE token.state \in {"absent", "empty"} -> NoStamp
    [] token.state = "garbled" -> Malformed
    [] OTHER -> Evaluate(token)

Stamp(format) == IF format = "xml" THEN XmlTimestamp ELSE TimestampOf

-----------------------------------------------------------------------------
(* The signature.                                                            *)

\* The moment the signer's chain is judged at.
Moment(stamp) == IF stamp.time = Never THEN today ELSE stamp.time

\* The chain as pyhanko-certvalidator judges it: revocation as it is known now, hard-fail.
Chain(at) ==
  /\ file.root \in caller.signer
  /\ at <= file.until
  /\ caller.revocation => crl = "good"

Core == file.intact /\ file.valid

\* Without a sound signature nothing is said of its chain.
Trusted(stamp) == caller.signer # {} /\ Core /\ Chain(Moment(stamp))

\* Mutant: the timestamp is not looked at.
CmsIndicationAnyStamp(stamp) ==
  CASE ~Core -> "INVALID"
    [] OTHER -> IF Trusted(stamp) THEN "VALID" ELSE "INDETERMINATE"

\* cms_verify._map_status
CmsIndication(stamp) ==
  CASE ~Core -> "INVALID"
    [] Core /\ ~stamp.ok -> "INDETERMINATE"
    [] OTHER -> IF Trusted(stamp) THEN "VALID" ELSE "INDETERMINATE"

\* pdf_verify._map_status: the signature has to cover the whole file too.
PdfIndication(stamp) ==
  CASE ~Core -> "INVALID"
    [] Core /\ ~file.covers -> "INDETERMINATE"
    [] Core /\ file.covers /\ ~stamp.ok -> "INDETERMINATE"
    [] OTHER -> IF Trusted(stamp) THEN "VALID" ELSE "INDETERMINATE"

\* Mutant: a stamp that does not check out is a failed check like the others.
XmlIndicationOfAll(stamp) ==
  CASE ~(Core /\ stamp.ok) -> "INVALID"
    [] OTHER -> IF Trusted(stamp) THEN "VALID" ELSE "INDETERMINATE"

\* xml_verify._verify_signature: the four checks of level 1, then the timestamp, then the chain.
XmlIndication(stamp) ==
  CASE ~Core -> "INVALID"
    [] Core /\ ~stamp.ok -> "INDETERMINATE"
    [] OTHER -> IF Trusted(stamp) THEN "VALID" ELSE "INDETERMINATE"

Indication(format, stamp) ==
  CASE format = "cms" -> CmsIndication(stamp)
    [] format = "pdf" -> PdfIndication(stamp)
    [] format = "xml" -> XmlIndication(stamp)

Result(format) ==
  LET stamp == Stamp(format)
  IN [day |-> today, indication |-> Indication(format, stamp), trusted |-> Trusted(stamp),
      at |-> Moment(stamp), stamp |-> stamp]

NoResult == [day |-> Never]

-----------------------------------------------------------------------------
Init ==
  /\ today = 0
  /\ file \in Files /\ token \in Tokens /\ caller \in Callers
  /\ crl = "good"
  /\ results = [format \in Formats |-> NoResult]

\* verify_pdf, verify_cms and verify_xml over the same facts.
Verify ==
  /\ results' = [format \in Formats |-> Result(format)]
  /\ UNCHANGED <<today, file, crl, token, caller>>

\* A day passes; the certificate may have been revoked, or nobody answers for it.
Tick ==
  /\ today < LastDay /\ today' = today + 1
  /\ crl' \in {crl, "bad"}
  /\ UNCHANGED <<file, token, caller, results>>

Next == Verify \/ Tick
Spec == Init /\ [][Next]_vars

-----------------------------------------------------------------------------
(* What a verdict means.  Each is about every format.                        *)

Indications == {"VALID", "INDETERMINATE", "INVALID"}
Stamps == [present : BOOLEAN, intact : Answers, valid : Answers, trusted : Answers,
           gen : Days \cup {Never}, ok : BOOLEAN, time : Days \cup {Never}]
Results == [day : Days, indication : Indications, trusted : BOOLEAN, at : Days, stamp : Stamps]

TypeOK ==
  /\ today \in Days /\ crl \in {"good", "bad"}
  /\ file \in Files /\ token \in Tokens /\ caller \in Callers
  /\ results \in [Formats -> Results \cup {NoResult}]

Verified == {format \in Formats : results[format] # NoResult}

\* A timestamp, an unsigned attribute, can hold a verdict back and no more: one that was found
\* wrong never stands under VALID, and neither does it make a sound signature INVALID nor save a
\* broken one (docs/security-invariants.md, rows 2 and 3).  An XML element emptied of its text
\* counts as none.
BrokenHoldsBack ==
  \A f \in Verified :
    /\ results[f].indication = "INVALID" <=> ~(file.intact /\ file.valid)
    /\ results[f].indication = "VALID" =>
         \/ token.state = "absent" \/ (f = "xml" /\ token.state = "empty")
         \/ /\ token.state = "readable" /\ token.binds /\ token.genuine
            /\ caller.tsa = {} \/ (token.root \in caller.tsa /\ token.gen <= token.until)

\* The chain is judged on another day than the day of the verification, and a certificate that
\* had ended can pass, only by a token over this signature, of a TSA that ends in the TSA
\* anchors and was in its validity at the genTime (rows 4, 5 and 7).
MomentIsEarned ==
  \A f \in Verified :
    \/ results[f].at # results[f].day
    \/ results[f].trusted /\ file.until < results[f].day
    =>
    /\ token.state = "readable" /\ token.binds /\ token.genuine
    /\ token.root \in caller.tsa /\ token.gen <= token.until
    /\ results[f].at = token.gen

\* The container does not decide: the three verifiers agree on every combination of trust and
\* time, but for a PDF signature that does not cover the file and an emptied XML element (row 8
\* and gap 6, where one combination is tested).
FormatsAgree ==
  Verified = Formats /\ token.state # "empty" =>
    /\ results["xml"].indication = results["cms"].indication
    /\ file.covers => results["pdf"].indication = results["cms"].indication

\* A verdict that rests on a trusted timestamp does not decay: verified again on a later day,
\* the same file is still VALID (row 7), unless revocation is asked again.
DoesNotDecay ==
  [][\A f \in Verified \cap Verified' :
       /\ results[f].indication = "VALID" /\ results[f].stamp.time # Never
       /\ ~caller.revocation
       => results'[f].indication = "VALID"]_vars
=============================================================================
