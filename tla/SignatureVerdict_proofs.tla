----------------------- MODULE SignatureVerdict_proofs -----------------------
(***************************************************************************)
(* Theorems about SignatureVerdict, for any calendar and any set of roots. *)
(***************************************************************************)
EXTENDS SignatureVerdict, TLAPS

\* A recorded result carries the stamp its file has; it is INVALID exactly when the signature is
\* broken, and VALID only with a stamp that passes; its chain was judged at the stamp's time, or
\* else that day; and with a time that is vouched for the day it was asked makes no difference.
Earned(f) ==
  LET r == results[f] IN
    /\ r.stamp = Stamp(f)
    /\ r.indication = "INVALID" <=> ~Core
    /\ r.indication = "VALID" => r.stamp.ok
    /\ r.at = IF r.stamp.time = Never THEN r.day ELSE r.stamp.time
    /\ r.trusted => r.at <= file.until
    /\ r.stamp.time # Never /\ ~caller.revocation => r.indication = Indication(f, Stamp(f))
VerdictInv == \A f \in Verified : Earned(f)

-----------------------------------------------------------------------------
(* The timestamp.                                                            *)

\* What a token says does not depend on the day.
LEMMA StampKept ==
  ASSUME NEW f \in Formats, UNCHANGED <<token, caller>>
  PROVE Stamp(f)' = Stamp(f)
BY DEF Stamp, XmlTimestamp, TimestampOf, Evaluate, Validate

\* The three answers about a token that can be used.
LEMMA ValidateSays ==
  ASSUME token.state # "unusable"
  PROVE /\ Validate(token).intact = "yes" <=> token.binds
        /\ Validate(token).valid = "yes" <=> token.genuine
        /\ Validate(token).trusted = "none" <=> caller.tsa = {}
        /\ Validate(token).trusted = "yes" <=>
             caller.tsa # {} /\ token.root \in caller.tsa /\ token.gen <= token.until
        /\ Validate(token).trusted \in Answers
<1>1. Validate(token) = [intact |-> Answer(token.binds), valid |-> Answer(token.genuine),
                         trusted |-> IF caller.tsa = {} THEN "none"
                                     ELSE Answer(token.root \in caller.tsa /\ token.gen <= token.until)]
  BY DEF Validate
<1>2. /\ Validate(token).intact = Answer(token.binds)
      /\ Validate(token).valid = Answer(token.genuine)
      /\ Validate(token).trusted = IF caller.tsa = {} THEN "none"
                                   ELSE Answer(token.root \in caller.tsa /\ token.gen <= token.until)
  BY <1>1
<1>3. ASSUME NEW b PROVE /\ Answer(b) = "yes" <=> b
                          /\ Answer(b) \in {"yes", "no"}
  BY DEF Answer
<1>4. QED
  BY <1>2, <1>3 DEF Answers, Answer

\* The row of a token, from its three answers.
LEMMA EvaluateSays ==
  LET v == Validate(token)
      sound == v.intact = "yes" /\ v.valid = "yes"
  IN /\ Evaluate(token).ok <=> sound /\ v.trusted # "no"
     /\ Evaluate(token).time = IF sound /\ v.trusted = "yes" THEN token.gen ELSE Never
<1> DEFINE v == Validate(token)
           sound == v.intact = "yes" /\ v.valid = "yes"
<1>1. Evaluate(token) =
        [present |-> TRUE, intact |-> v.intact, valid |-> v.valid, trusted |-> v.trusted,
         gen |-> token.gen, ok |-> sound /\ v.trusted # "no",
         time |-> IF sound /\ v.trusted = "yes" THEN token.gen ELSE Never]
  BY Zenon DEF Evaluate
<1> HIDE DEF v
<1>2. Evaluate(token).ok = (sound /\ v.trusted # "no")
  BY <1>1
<1>3. Evaluate(token).time = IF sound /\ v.trusted = "yes" THEN token.gen ELSE Never
  BY <1>1
<1>4. QED
  BY <1>2, <1>3 DEF v

\* A time is handed back only by a token that everything vouched for, and such a token passes.
LEMMA TimeIsVouchedFor ==
  ASSUME NEW f \in Formats, token \in Tokens, caller \in Callers, Stamp(f).time # Never
  PROVE /\ token.state = "readable" /\ token.binds /\ token.genuine
        /\ token.root \in caller.tsa /\ token.gen <= token.until
        /\ Stamp(f).time = token.gen /\ Stamp(f).ok
<1>1. token.state \notin {"absent", "empty", "garbled"} /\ Stamp(f) = Evaluate(token)
  BY DEF Stamp, XmlTimestamp, TimestampOf, NoStamp, Malformed
<1>2. token.state # "unusable"
  BY <1>1 DEF Evaluate, Validate
<1>3. token.state = "readable"
  BY <1>1, <1>2 DEF Tokens
<1>4. /\ Validate(token).intact = "yes" /\ Validate(token).valid = "yes"
      /\ Validate(token).trusted = "yes" /\ Stamp(f).time = token.gen /\ Stamp(f).ok
  BY <1>1, EvaluateSays
<1>5. QED
  BY <1>2, <1>3, <1>4, ValidateSays

\* A stamp passes only if there is none, or nothing was found wrong with it.
LEMMA StampPasses ==
  ASSUME NEW f \in Formats, token \in Tokens, caller \in Callers, Stamp(f).ok
  PROVE \/ token.state = "absent" \/ (f = "xml" /\ token.state = "empty")
        \/ /\ token.state = "readable" /\ token.binds /\ token.genuine
           /\ caller.tsa = {} \/ (token.root \in caller.tsa /\ token.gen <= token.until)
<1>1. CASE token.state \in {"absent", "empty", "garbled"}
  BY <1>1 DEF Stamp, XmlTimestamp, TimestampOf, NoStamp, Malformed, Formats
<1>2. CASE token.state \in {"unusable", "readable"}
  <2>1. CASE token.state = "unusable" /\ f # "xml"
    BY <2>1 DEF Stamp, TimestampOf, Malformed
  <2>2. CASE Stamp(f) = Evaluate(token)
    <3>1. /\ Validate(token).intact = "yes" /\ Validate(token).valid = "yes"
          /\ Validate(token).trusted # "no"
      BY <2>2, EvaluateSays
    <3>2. token.state # "unusable"
      BY <3>1 DEF Validate
    <3>3. Validate(token).trusted \in {"none", "yes"}
      BY <3>1, <3>2, ValidateSays DEF Answers
    <3>4. QED
      BY <1>2, <3>1, <3>2, <3>3, ValidateSays
  <2>3. QED
    BY <1>2, <2>1, <2>2 DEF Stamp, XmlTimestamp, TimestampOf
<1>3. QED
  BY <1>1, <1>2 DEF Tokens

-----------------------------------------------------------------------------
(* The verdict.                                                              *)

\* INVALID is for a broken signature, and VALID asks for a stamp that passes.
LEMMA IndicationSays ==
  ASSUME NEW f \in Formats
  PROVE /\ Indication(f, Stamp(f)) = "INVALID" <=> ~Core
        /\ Indication(f, Stamp(f)) = "VALID" => Stamp(f).ok
BY DEF Indication, CmsIndication, PdfIndication, XmlIndication, Formats

\* Judged at a time vouched for, and with no revocation to ask about, the day makes no difference.
LEMMA DayMakesNoDifference ==
  ASSUME NEW f \in Formats, UNCHANGED <<file, token, caller>>, Stamp(f).time # Never, ~caller.revocation
  PROVE Indication(f, Stamp(f))' = Indication(f, Stamp(f))
<1>1. Stamp(f)' = Stamp(f)
  BY StampKept
<1>2. Trusted(Stamp(f))' = Trusted(Stamp(f))
  BY <1>1 DEF Trusted, Chain, Moment, Core
<1>3. Core' = Core
  BY DEF Core
<1>4. QED
  BY <1>1, <1>2, <1>3 DEF Indication, CmsIndication, PdfIndication, XmlIndication, Formats

\* What each verification returns is earned.
LEMMA ResultEarned ==
  ASSUME NEW f \in Formats, file \in Files, token \in Tokens, today \in Days, Verify, results \in [Formats -> {NoResult} \cup Results]
  PROVE Earned(f)'
<1>1. results'[f] = [day |-> today, indication |-> Indication(f, Stamp(f)), trusted |-> Trusted(Stamp(f)),
                     at |-> Moment(Stamp(f)), stamp |-> Stamp(f)]
  BY DEF Verify, Result
<1>2. Stamp(f)' = Stamp(f) /\ Core' = Core /\ Indication(f, Stamp(f))' = Indication(f, Stamp(f))
  <2>1. Stamp(f)' = Stamp(f)
    BY StampKept DEF Verify
  <2>2. Core' = Core /\ Trusted(Stamp(f))' = Trusted(Stamp(f))
    BY <2>1 DEF Verify, Core, Trusted, Chain, Moment
  <2>3. QED
    BY <2>1, <2>2 DEF Indication, CmsIndication, PdfIndication, XmlIndication, Formats, Verify
<1>3. file' = file /\ caller' = caller
  BY DEF Verify
<1>4. Trusted(Stamp(f)) => Moment(Stamp(f)) <= file.until
  BY DEF Trusted, Chain
<1>5. QED
  BY <1>1, <1>2, <1>3, <1>4, IndicationSays DEF Earned, Moment

\* Each step keeps what was recorded earned.
LEMMA VerdictStep ==
  ASSUME TypeOK, VerdictInv, [Next]_vars
  PROVE VerdictInv'
<1>1. CASE Verify
  BY <1>1, ResultEarned DEF VerdictInv, Verified, TypeOK
<1>2. CASE UNCHANGED <<file, token, caller, results>>
  <2> SUFFICES ASSUME NEW f \in Verified PROVE Earned(f)'
    BY <1>2 DEF VerdictInv, Verified
  <2>1. f \in Formats /\ Earned(f)
    BY DEF Verified, VerdictInv
  <2>2. Stamp(f)' = Stamp(f) /\ Core' = Core
    BY <1>2, <2>1, StampKept DEF Core
  <2>3. CASE Stamp(f).time # Never /\ ~caller.revocation
    <3>1. Indication(f, Stamp(f))' = Indication(f, Stamp(f))
      BY <1>2, <2>1, <2>3, DayMakesNoDifference
    <3>2. QED
      BY <1>2, <2>1, <2>2, <3>1 DEF Earned
  <2>4. CASE Stamp(f).time = Never \/ caller.revocation
    BY <1>2, <2>1, <2>2, <2>4 DEF Earned
  <2>5. QED
    BY <2>3, <2>4
<1>3. QED
  BY <1>1, <1>2 DEF Next, Tick, vars

-----------------------------------------------------------------------------
(* Types.                                                                    *)

\* What a token says is a stamp.
LEMMA StampTyped ==
  ASSUME NEW f \in Formats, token \in Tokens
  PROVE Stamp(f) \in Stamps
<1>1. NoStamp \in Stamps /\ Malformed \in Stamps
  BY DEF NoStamp, Malformed, Stamps, Answers
<1>2. ASSUME token.state \in {"unusable", "readable"} PROVE Evaluate(token) \in Stamps
  <2>1. token.gen \in Days
    BY <1>2 DEF Tokens, Fields
  <2>2. /\ Validate(token).intact \in Answers /\ Validate(token).valid \in Answers
        /\ Validate(token).trusted \in Answers
    BY DEF Validate, Answers, Answer
  <2>3. QED
    BY <2>1, <2>2 DEF Evaluate, Stamps
<1>3. QED
  BY <1>1, <1>2 DEF Stamp, XmlTimestamp, TimestampOf, Tokens

\* Every reachable state is well typed; each verdict is one of three and has its moment.
THEOREM TypeCorrect == Spec => []TypeOK
<1>1. Init => TypeOK
  BY CalendarAssumption DEF Init, TypeOK, Days
<1>2. TypeOK /\ [Next]_vars => TypeOK'
  <2> SUFFICES ASSUME TypeOK, [Next]_vars PROVE TypeOK'
    OBVIOUS
  <2>1. CASE UNCHANGED vars
    BY <2>1 DEF vars, TypeOK
  <2>2. CASE Tick
    BY <2>2, CalendarAssumption DEF Tick, TypeOK, Days
  <2>3. CASE Verify
    <3>1. ASSUME NEW f \in Formats PROVE Result(f) \in Results
      <4>1. Stamp(f) \in Stamps
        BY StampTyped DEF TypeOK
      <4>2. Indication(f, Stamp(f)) \in Indications
        BY DEF Indication, CmsIndication, PdfIndication, XmlIndication, Formats, Indications
      <4>3. Moment(Stamp(f)) \in Days
        BY <4>1 DEF Moment, Stamps, TypeOK
      <4>4. Trusted(Stamp(f)) \in BOOLEAN
        BY DEF Trusted, Chain, Core, TypeOK, Files
      <4>5. Result(f) = [day |-> today, indication |-> Indication(f, Stamp(f)),
                         trusted |-> Trusted(Stamp(f)), at |-> Moment(Stamp(f)), stamp |-> Stamp(f)]
        BY DEF Result
      <4>6. QED
        BY <4>1, <4>2, <4>3, <4>4, <4>5 DEF Results, TypeOK
    <3>2. QED
      BY <2>3, <3>1 DEF Verify, TypeOK
  <2>4. QED
    BY <2>1, <2>2, <2>3 DEF Next
<1>3. QED
  BY <1>1, <1>2, PTL DEF Spec

-----------------------------------------------------------------------------
(* What a verdict means.                                                     *)

\* Every result there is was earned.
THEOREM VerdictsEarned == Spec => []VerdictInv
<1>1. Init => VerdictInv
  BY DEF Init, VerdictInv, Verified
<1>2. QED
  BY <1>1, VerdictStep, TypeCorrect, PTL DEF Spec

\* A timestamp that was found wrong never stands under VALID, and no timestamp makes a sound
\* signature INVALID or saves a broken one (_map_status, _verify_signature).
THEOREM BrokenHeldBack == Spec => []BrokenHoldsBack
<1>1. TypeOK /\ VerdictInv => BrokenHoldsBack
  <2> SUFFICES ASSUME TypeOK, VerdictInv, NEW f \in Verified
               PROVE /\ results[f].indication = "INVALID" <=> ~(file.intact /\ file.valid)
                     /\ results[f].indication = "VALID" =>
                          \/ token.state = "absent" \/ (f = "xml" /\ token.state = "empty")
                          \/ /\ token.state = "readable" /\ token.binds /\ token.genuine
                             /\ caller.tsa = {} \/ (token.root \in caller.tsa /\ token.gen <= token.until)
    BY DEF BrokenHoldsBack
  <2>1. f \in Formats /\ Earned(f)
    BY DEF Verified, VerdictInv
  <2>2. results[f].indication = "INVALID" <=> ~(file.intact /\ file.valid)
    BY <2>1 DEF Earned, Core
  <2>3. results[f].indication = "VALID" => Stamp(f).ok
    BY <2>1 DEF Earned
  <2>4. QED
    BY <2>1, <2>2, <2>3, StampPasses DEF TypeOK
<1>2. QED
  BY <1>1, TypeCorrect, VerdictsEarned, PTL

\* The chain is judged on another day than the day of the verification only by a time that
\* everything vouches for (evaluate_timestamp).
THEOREM MomentEarned == Spec => []MomentIsEarned
<1>1. TypeOK /\ VerdictInv => MomentIsEarned
  <2> SUFFICES ASSUME TypeOK, VerdictInv, NEW f \in Verified,
                      \/ results[f].at # results[f].day
                      \/ results[f].trusted /\ file.until < results[f].day
               PROVE /\ token.state = "readable" /\ token.binds /\ token.genuine
                     /\ token.root \in caller.tsa /\ token.gen <= token.until
                     /\ results[f].at = token.gen
    BY DEF MomentIsEarned
  <2>1. f \in Formats /\ Earned(f) /\ results[f] \in Results
    BY DEF Verified, VerdictInv, TypeOK
  <2>2. Stamp(f).time # Never /\ results[f].at = Stamp(f).time
    <3>1. ASSUME Stamp(f).time = Never PROVE FALSE
      <4>1. results[f].at = results[f].day
        BY <2>1, <3>1 DEF Earned
      <4>2. results[f].day <= file.until /\ file.until < results[f].day
        BY <2>1, <4>1 DEF Earned
      <4>3. results[f].day \in Int /\ file.until \in Int
        BY <2>1 DEF Results, TypeOK, Files, Days
      <4>4. QED
        BY <4>2, <4>3
    <3>2. QED
      BY <2>1, <3>1 DEF Earned
  <2>3. QED
    BY <2>1, <2>2, TimeIsVouchedFor DEF TypeOK
<1>2. QED
  BY <1>1, TypeCorrect, VerdictsEarned, PTL

\* The container does not decide (the three _map_status).
THEOREM Agree == Spec => []FormatsAgree
<1>1. Init => FormatsAgree
  BY DEF Init, FormatsAgree, Verified, Formats
<1>2. TypeOK /\ FormatsAgree /\ [Next]_vars => FormatsAgree'
  <2> SUFFICES ASSUME TypeOK, FormatsAgree, [Next]_vars PROVE FormatsAgree'
    OBVIOUS
  <2>1. CASE UNCHANGED <<file, token, results>>
    BY <2>1 DEF FormatsAgree, Verified
  <2>2. CASE Verify
    <3> SUFFICES ASSUME token.state # "empty"
                 PROVE /\ results'["xml"].indication = results'["cms"].indication
                       /\ file.covers => results'["pdf"].indication = results'["cms"].indication
      BY <2>2 DEF FormatsAgree, Verify
    <3>1. Stamp("pdf") = Stamp("cms")
      BY DEF Stamp
    <3>2. Stamp("xml").ok = Stamp("cms").ok /\ Stamp("xml").time = Stamp("cms").time
      <4>1. CASE token.state = "unusable"
        <5>1. Stamp("xml") = Evaluate(token) /\ Stamp("cms") = Malformed
          BY <4>1 DEF Stamp, XmlTimestamp, TimestampOf
        <5>2. Validate(token).intact # "yes"
          BY <4>1 DEF Validate
        <5>3. Evaluate(token).ok = FALSE /\ Evaluate(token).time = Never
          BY <5>2 DEF Evaluate
        <5>4. Malformed.ok = FALSE /\ Malformed.time = Never
          BY DEF Malformed
        <5>5. QED
          BY <5>1, <5>3, <5>4
      <4>2. CASE token.state # "unusable"
        <5>1. Stamp("xml") = Stamp("cms")
          BY <4>2 DEF Stamp, XmlTimestamp, TimestampOf
        <5>2. QED
          BY <5>1
      <4>3. QED
        BY <4>1, <4>2
    <3>3. Trusted(Stamp("xml")) = Trusted(Stamp("cms"))
      BY <3>2 DEF Trusted, Chain, Moment
    <3>4. \A f \in Formats : results'[f].indication = Indication(f, Stamp(f))
      BY <2>2 DEF Verify, Result
    <3>5. XmlIndication(Stamp("xml")) = CmsIndication(Stamp("cms"))
      BY <3>2, <3>3 DEF XmlIndication, CmsIndication
    <3>6. file.covers => PdfIndication(Stamp("pdf")) = CmsIndication(Stamp("cms"))
      BY <3>1 DEF PdfIndication, CmsIndication
    <3>7. QED
      BY <3>4, <3>5, <3>6 DEF Indication, Formats
  <2>3. QED
    BY <2>1, <2>2 DEF Next, Tick, vars
<1>3. QED
  BY <1>1, <1>2, TypeCorrect, PTL DEF Spec

\* A verdict that rests on a trusted timestamp does not decay (verify_pdf, verify_cms, verify_xml).
THEOREM NoDecay == Spec => DoesNotDecay
<1>1. VerdictInv /\ [Next]_vars =>
        \A f \in Verified \cap Verified' :
          /\ results[f].indication = "VALID" /\ results[f].stamp.time # Never
          /\ ~caller.revocation
          => results'[f].indication = "VALID"
  <2> SUFFICES ASSUME VerdictInv, [Next]_vars, NEW f \in Verified \cap Verified',
                      results[f].indication = "VALID", results[f].stamp.time # Never,
                      ~caller.revocation
               PROVE results'[f].indication = "VALID"
    OBVIOUS
  <2>1. f \in Formats /\ Indication(f, Stamp(f)) = "VALID"
    BY DEF Verified, VerdictInv, Earned
  <2>2. CASE Verify
    BY <2>1, <2>2 DEF Verify, Result
  <2>3. CASE UNCHANGED results
    BY <2>3
  <2>4. QED
    BY <2>2, <2>3 DEF Next, Tick, vars
<1>2. QED
  BY <1>1, VerdictsEarned, PTL DEF Spec, DoesNotDecay
=============================================================================
