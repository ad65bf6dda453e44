-------------------------- MODULE BatchSign_proofs --------------------------
(***************************************************************************)
(* What is proved of BatchSign for any number of inputs, any output names  *)
(* and any edits: that reports, answers and files agree.                   *)
(***************************************************************************)
EXTENDS BatchSign, TLAPS

-----------------------------------------------------------------------------
(* What is true all along.                                                   *)

Looping == {"next", "sign", "check", "settle"}
Committed == {"done", "committed"} \cup PostSign

\* There is a document at every input, and one nobody has replaced is the input's own, unsigned.
DiskInv ==
  /\ \A i \in Inputs : disk[Source[i]] \in Documents
  /\ \A p \in Paths, i \in 0..N :
       disk[p] \in Documents /\ disk[p].file = <<"given", i>> => disk[p].origin = i /\ disk[p].by = {}

\* A batch command that got past its plan has no two outputs of one name.
PlanInv ==
  /\ pc = "plan" => written = {} /\ at = 1
  /\ job.front = "api" => job.listed = {} /\ undetected = {} /\ ~job.dry
  /\ job.front = "cli" /\ (pc \in Looping \/ written # {}) => ~Collides(Inputs \ undetected)
  /\ written \cap undetected = {}
  /\ pc # "over" => answer = NoAnswer

\* The loop has written only what is behind it, or what it is at, and what became of that one is
\* in hand.
LoopInv ==
  /\ \A i \in written : i < at \/ (i = at /\ pc \in {"check", "settle", "over"})
  /\ pc \in {"sign", "check", "settle"} => at \notin undetected
  /\ pc = "check" => at \in written /\ at \notin checked /\ job.verify
  /\ pc = "settle" => /\ fate \in {"error"} \cup Committed
                      /\ at \in written <=> fate \in Committed \/ at \in misled
                      /\ at \in checked <=> fate = "done" /\ job.verify

\* A signing that failed after its commit is the one in hand, or a command's error.
MisledInv ==
  \A i \in misled : pc # "over" =>
    \/ i = at /\ pc = "settle" /\ fate = "error"
    \/ i < at /\ job.front = "cli" /\ report[i].status = "error"

\* Each file behind has its report, and no other has one.
ToldInv ==
  /\ pc # "over" => \A i \in Inputs :
       IF i < at /\ i \notin undetected
       THEN report[i].status \in {"ok"} \cup (IF job.front = "api" THEN {}
                                              ELSE {"signed", "error"} \cup PostSign)
       ELSE report[i] = NoReport
  /\ \A i \in Inputs :
       /\ report[i].status \in {"ok", "signed"} \cup PostSign => i \in written
       /\ i \in written => \/ report[i].status \in {"ok", "signed"} \cup PostSign
                           \/ i \in misled
                           \/ i = at /\ pc \in {"check", "settle", "over"}
       /\ report[i].verified <=> i \in checked /\ report[i].status = "ok"
       /\ report[i].status = "ok" => (i \in checked <=> job.verify)
  /\ announced = IF job.front = "api" THEN Reported ELSE {}

\* What is said of input i, its fate while its report is still to be made.
Said(i) == IF i = at /\ pc = "settle" THEN fate ELSE report[i].status

\* Input i's output is at its name, and is what is said of it.
Stands(i) ==
  /\ disk[out(i)] \in Documents /\ disk[out(i)].file = <<"output", i>>
  /\ i \in checked => disk[out(i)].sound
  /\ Said(i) \in {"ok", "done"} \/ (i = at /\ pc = "check") => disk[out(i)].mode = "final"
  /\ Said(i) \in {"signed", "committed"} => disk[out(i)].mode = "0600"
  /\ Said(i) = "failed" => ~disk[out(i)].sound
  /\ i \in job.listed => disk[out(i)].origin = i /\ disk[out(i)].by = {i}

\* What was written stands, unless a later input of an API batch took its name.
OutputInv == \A i \in written : ~Overtaken(i) => Stands(i)

-----------------------------------------------------------------------------
(* Types.                                                                    *)

AnswerTypes == [kind : AnswerKinds, index : 0..N, cause : Fates \cup {"callback"}, callback : BOOLEAN]
ReportTypes == [status : Statuses, verified : BOOLEAN]

\* Outputs and inputs are paths.
LEMMA OnPaths ==
  ASSUME TypeOK, NEW i \in Inputs
  PROVE  out(i) \in Paths /\ Source[i] \in Paths
  BY BatchAssumption DEF TypeOK, Jobs, out

\* An answer is one, and ends the batch.
LEMMA AnswerTyped ==
  ASSUME NEW kind \in AnswerKinds, NEW index \in 0..N, NEW cause \in Fates \cup {"callback"},
         NEW callback \in BOOLEAN, Answer(kind, index, cause, callback)
  PROVE  answer' \in AnswerTypes /\ pc' = "over"
  BY DEF Answer, AnswerTypes

\* What an answer says.
LEMMA AnswerSays ==
  ASSUME NEW kind, NEW index, NEW cause, NEW callback, Answer(kind, index, cause, callback)
  PROVE  answer'.kind = kind /\ answer'.index = index /\ answer'.cause = cause
  BY DEF Answer

\* What the batch answers with.
LEMMA AnswerWords ==
  /\ {"refused", "dry", "cancelled", "stopped", "list", "exit 0", "exit 1"} \subseteq AnswerKinds
  /\ Fates \cup {"callback"} = {"none", "done", "error", "committed", "failed", "detached-mismatch", "inconclusive", "callback"}
  /\ 0 \in 0..N /\ Inputs \subseteq 0..N
  BY BatchAssumption DEF AnswerKinds, Fates, PostSign, Inputs

\* A report is one, and the others stay.
LEMMA ReportTyped ==
  ASSUME report \in [Inputs -> ReportTypes], NEW status \in Statuses, NEW verified \in BOOLEAN,
         at \in Inputs, Report(status, verified)
  PROVE  /\ report' \in [Inputs -> ReportTypes]
         /\ report'[at].status = status /\ report'[at].verified = verified
         /\ \A i \in Inputs \ {at} : report'[i] = report[i]
<1>1. report'[at] = [status |-> status, verified |-> verified]
  BY DEF Report, ReportTypes
<1> QED BY <1>1 DEF Report, ReportTypes

\* What signing writes is a document of this batch's.
LEMMA SignedIs ==
  ASSUME TypeOK, DiskInv, NEW i \in Inputs, NEW sound \in BOOLEAN, NEW mode \in {"final", "0600"}
  PROVE  /\ Signed(i, sound, mode) \in Documents
         /\ Signed(i, sound, mode).file = <<"output", i>>
         /\ Signed(i, sound, mode).origin = src(i).origin
         /\ Signed(i, sound, mode).by = src(i).by \cup {i}
         /\ Signed(i, sound, mode).sound = sound /\ Signed(i, sound, mode).mode = mode
<1>1. src(i) \in Documents
  BY DEF DiskInv, src
<1>2. src(i).origin \in 0..N /\ src(i).edited \in BOOLEAN /\ src(i).by \subseteq Inputs
  BY <1>1 DEF Documents
<1>3. <<"output", i>> \in FileIds
  BY DEF FileIds
<1> QED BY <1>2, <1>3 DEF Signed, Documents

\* What another program leaves at an input is a document, and not an output.
LEMMA TouchedIs ==
  ASSUME TypeOK, DiskInv, NEW i \in Inputs, Edit(i) \/ Replace(i)
  PROVE  \E d \in Documents :
           /\ disk' = [disk EXCEPT ![Source[i]] = d] /\ disk[Source[i]].file = <<"given", i>>
           /\ \/ d.file = disk[Source[i]].file /\ d.origin = disk[Source[i]].origin /\ d.by = disk[Source[i]].by
              \/ d.file = <<"other", 0>>
<1> DEFINE was == disk[Source[i]]
<1>1. was \in Documents /\ was.file = <<"given", i>>
  BY DEF DiskInv, Edit, Replace, Touch, src
<1>2. CASE Edit(i)
  <2>1. [was EXCEPT !.edited = TRUE] \in Documents
    BY <1>1 DEF Documents
  <2>2. disk' = [disk EXCEPT ![Source[i]] = [was EXCEPT !.edited = TRUE]]
    BY <1>2 DEF Edit, Touch
  <2>3. LET d == [was EXCEPT !.edited = TRUE] IN d.file = was.file /\ d.origin = was.origin /\ d.by = was.by
    BY <1>1 DEF Documents
  <2> QED BY <1>1, <2>1, <2>2, <2>3
<1>3. CASE Replace(i)
  <2>1. <<"other", 0>> \in FileIds /\ 0 \in 0..N
    BY BatchAssumption DEF FileIds
  <2>2. [was EXCEPT !.file = <<"other", 0>>, !.origin = 0] \in Documents
    BY <1>1, <2>1 DEF Documents
  <2>3. disk' = [disk EXCEPT ![Source[i]] = [was EXCEPT !.file = <<"other", 0>>, !.origin = 0]]
    BY <1>3 DEF Replace, Touch
  <2>4. [was EXCEPT !.file = <<"other", 0>>, !.origin = 0].file = <<"other", 0>>
    BY <1>1 DEF Documents
  <2> QED BY <1>1, <2>2, <2>3, <2>4
<1> QED BY <1>2, <1>3
-----------------------------------------------------------------------------
(* Steps.                                                                    *)

\* Every action keeps the types.
LEMMA TypeStep ==
  ASSUME TypeOK, DiskInv, LoopInv, [Next]_vars
  PROVE  TypeOK'
<1> DEFINE Rest == /\ disk \in [Paths -> Documents \cup {Nothing}] /\ report \in [Inputs -> ReportTypes]
                   /\ answer \in AnswerTypes /\ job \in Jobs
<1>0. Rest /\ N \in Nat \ {0}
  BY BatchAssumption DEF TypeOK, ReportTypes, AnswerTypes
<1>a. ASSUME Rest', at' \in 1..(N + 1), undetected' \subseteq Inputs, fate' \in Fates, announced' \subseteq Inputs,
             pc' \in {"plan", "next", "sign", "check", "settle", "over"},
             pc' \in {"sign", "check", "settle"} => at' \in Inputs,
             written' \subseteq Inputs, checked' \subseteq written', misled' \subseteq written',
             edits' \in 0..MaxEdits
      PROVE  TypeOK'
  BY <1>a DEF TypeOK, ReportTypes, AnswerTypes
<1>b. /\ at \in 1..(N + 1) /\ undetected \subseteq Inputs /\ fate \in Fates /\ announced \subseteq Inputs
      /\ pc \in {"plan", "next", "sign", "check", "settle", "over"}
      /\ pc \in {"sign", "check", "settle"} => at \in Inputs
      /\ written \subseteq Inputs /\ checked \subseteq written /\ misled \subseteq written
      /\ edits \in 0..MaxEdits
  BY DEF TypeOK
<1> HIDE DEF Rest
<1>1. CASE Refuse
  <2>1. answer' \in AnswerTypes
    <3>1. Answer("refused", 0, "error", FALSE)
      BY <1>1 DEF Refuse
    <3>2. "refused" \in AnswerKinds /\ 0 \in 0..N /\ "error" \in Fates \cup {"callback"}
      BY AnswerWords
    <3> QED BY <3>1, <3>2, AnswerTyped
  <2> QED BY <1>1, <1>0, <1>a, <1>b, <2>1 DEF Refuse, Answer, Rest
<1>2. CASE \E unreadable \in SUBSET Inputs : PlanCli(unreadable)
  <2>1. answer' \in AnswerTypes
    <3>1. Answer("refused", 0, "error", FALSE) \/ Answer("dry", 0, "none", FALSE) \/ UNCHANGED answer
      BY <1>2 DEF PlanCli
    <3>2. {"refused", "dry"} \subseteq AnswerKinds /\ 0 \in 0..N /\ {"error", "none"} \subseteq Fates \cup {"callback"}
      BY AnswerWords
    <3>3. answer \in AnswerTypes
      BY <1>0 DEF Rest
    <3> QED BY <3>1, <3>2, <3>3, AnswerTyped
  <2> QED BY <1>2, <1>0, <1>a, <1>b, <2>1 DEF PlanCli, Answer, Rest
<1>3. CASE PlanApi
  BY <1>3, <1>0, <1>a, <1>b DEF PlanApi, Rest
<1>4. CASE Proceed
  BY <1>4, <1>0, <1>a, <1>b DEF Proceed, Inputs, Rest
<1>5. CASE Halt
  <2>1. answer' \in AnswerTypes
    <3>1. Answer("cancelled", at, "none", FALSE) \/ Answer("stopped", at, "callback", TRUE)
      BY <1>5 DEF Halt
    <3>2. {"cancelled", "stopped"} \subseteq AnswerKinds /\ at \in 0..N /\ {"callback", "none"} \subseteq Fates \cup {"callback"}
      BY <1>5, AnswerWords DEF Halt
    <3> QED BY <3>1, <3>2, AnswerTyped
  <2> QED BY <1>5, <1>0, <1>a, <1>b, <2>1 DEF Halt, Answer, Rest
<1>6. CASE Skip
  BY <1>6, <1>0, <1>a, <1>b DEF Skip, Inputs, Rest
<1>7. CASE SignOne \/ SignCommitted \/ SignDelivers
  <2>1. at \in Inputs /\ out(at) \in Paths
    BY <1>7, <1>b, OnPaths DEF SignOne, SignCommitted, SignDelivers
  <2>2. disk' \in [Paths -> Documents \cup {Nothing}]
    BY <1>7, <1>0, <2>1, SignedIs DEF SignOne, SignCommitted, SignDelivers, Rest
  <2>3. /\ fate' \in Fates /\ pc' \in {"check", "settle"}
        /\ written' \subseteq Inputs /\ checked' \subseteq written' /\ misled' \subseteq written'
    BY <1>7, <1>b, <2>1 DEF SignOne, SignCommitted, SignDelivers, Fates
  <2>4. UNCHANGED <<job, at, undetected, report, announced, answer, edits>>
    BY <1>7 DEF SignOne, SignCommitted, SignDelivers
  <2> QED BY <1>0, <1>a, <1>b, <2>1, <2>2, <2>3, <2>4 DEF Rest
<1>8. CASE SignFails
  BY <1>8, <1>0, <1>a, <1>b DEF SignFails, Fates, Rest
<1>9. CASE Check
  <2>1. fate' \in Fates /\ checked' \in {checked, checked \cup {at}}
    BY <1>9 DEF Check, Fates, PostSign
  <2>2. at \in written
    BY <1>9 DEF Check, LoopInv
  <2> QED BY <1>9, <1>0, <1>a, <1>b, <2>1, <2>2 DEF Check, Rest
<1>10. CASE SettleApi
  <2>1. at \in Inputs /\ at + 1 \in 1..(N + 1)
    BY <1>10, <1>0, <1>b DEF SettleApi, Inputs
  <2>2. answer' \in AnswerTypes
    <3>1. \/ UNCHANGED answer
          \/ \E cause \in {fate, "callback"}, raised \in BOOLEAN : Answer("stopped", at, cause, raised)
      BY <1>10 DEF SettleApi
    <3>2. "stopped" \in AnswerKinds /\ at \in 0..N
      BY <2>1, AnswerWords
    <3>3. answer \in AnswerTypes /\ {fate, "callback"} \subseteq Fates \cup {"callback"}
      BY <1>0, <1>b DEF Rest
    <3> QED BY <3>1, <3>2, <3>3, AnswerTyped
  <2>3. report' \in [Inputs -> ReportTypes]
    <3>1. UNCHANGED report \/ \E status \in {"ok", "signed"}, verified \in BOOLEAN : Report(status, verified)
      <4>1. (fate = "done" /\ job.verify) \in BOOLEAN
        OBVIOUS
      <4> QED BY <1>10, <4>1 DEF SettleApi
    <3>2. {"ok", "signed"} \subseteq Statuses /\ report \in [Inputs -> ReportTypes]
      BY <1>0 DEF Rest, Statuses
    <3> QED BY <3>1, <3>2, <2>1, ReportTyped
  <2>4. at' \in {at, at + 1} /\ fate' \in {fate, "none"} /\ announced' \in {announced, announced \cup {at}} /\ pc' \in {"next", "over"}
    BY <1>10 DEF SettleApi, Answer
  <2>5. UNCHANGED <<job, disk, undetected, written, checked, misled, edits>>
    BY <1>10 DEF SettleApi
  <2> QED BY <1>0, <1>a, <1>b, <2>1, <2>2, <2>3, <2>4, <2>5 DEF Fates, Rest
<1>11. CASE SettleCli
  <2>1. at \in Inputs /\ at + 1 \in 1..(N + 1)
    BY <1>11, <1>0, <1>b DEF SettleCli, Inputs
  <2>2. report' \in [Inputs -> ReportTypes]
    <3>1. fate \in {"done", "committed", "error"} \cup PostSign /\ job.verify \in BOOLEAN
      BY <1>11, <1>0 DEF SettleCli, LoopInv, Committed, Rest, Jobs
    <3>2. \E status \in {"ok", "signed", "error"} \cup PostSign, verified \in BOOLEAN : Report(status, verified)
      BY <1>11, <3>1 DEF SettleCli, PostSign
    <3>3. {"ok", "signed", "error"} \cup PostSign \subseteq Statuses /\ report \in [Inputs -> ReportTypes]
      BY <1>0 DEF Rest, Statuses
    <3> QED BY <3>2, <3>3, <2>1, ReportTyped
  <2> QED BY <1>11, <1>0, <1>a, <1>b, <2>1, <2>2 DEF SettleCli, Fates, Rest
<1>12. CASE FinishApi
  <2>1. answer' \in AnswerTypes
    <3>1. Answer("list", 0, "none", FALSE)
      BY <1>12 DEF FinishApi
    <3>2. "list" \in AnswerKinds /\ 0 \in 0..N /\ "none" \in Fates \cup {"callback"}
      BY AnswerWords
    <3> QED BY <3>1, <3>2, AnswerTyped
  <2> QED BY <1>12, <1>0, <1>a, <1>b, <2>1 DEF FinishApi, Answer, Rest
<1>13. CASE FinishCli
  <2>1. report' \in [Inputs -> ReportTypes]
    BY <1>13, <1>0 DEF FinishCli, ReportTypes, Statuses, Rest
  <2>2. answer' \in AnswerTypes
    <3>1. Answer("exit 0", 0, "none", FALSE) \/ Answer("exit 1", 0, "none", FALSE)
      BY <1>13 DEF FinishCli
    <3>2. {"exit 0", "exit 1"} \subseteq AnswerKinds /\ 0 \in 0..N /\ "none" \in Fates \cup {"callback"}
      BY AnswerWords
    <3> QED BY <3>1, <3>2, AnswerTyped
  <2> QED BY <1>13, <1>0, <1>a, <1>b, <2>1, <2>2 DEF FinishCli, Answer, Rest
<1>14. ASSUME NEW i \in Inputs, Edit(i) \/ Replace(i) PROVE TypeOK'
  <2>1. disk' \in [Paths -> Documents \cup {Nothing}]
    BY <1>14, <1>0, TouchedIs, OnPaths DEF Rest
  <2> QED BY <1>14, <1>0, <1>a, <1>b, <2>1, BatchAssumption DEF Edit, Replace, Touch, Rest
<1>15. CASE UNCHANGED vars
  BY <1>15, <1>0, <1>a, <1>b DEF vars, Rest
<1> QED BY <1>1, <1>2, <1>3, <1>4, <1>5, <1>6, <1>7, <1>8, <1>9, <1>10, <1>11, <1>12, <1>13, <1>14, <1>15
        DEF Next, Loop

\* What signing a file does, whichever way it ends.
LEMMA SigningIs ==
  ASSUME TypeOK, DiskInv, SignOne \/ SignCommitted \/ SignDelivers
  PROVE  /\ pc = "sign" /\ at \in Inputs /\ MaySign(at) /\ out(at) \in Paths
         /\ \E d \in Documents :
              /\ disk' = [disk EXCEPT ![out(at)] = d] /\ d.file = <<"output", at>>
              /\ d.origin = src(at).origin /\ d.by = src(at).by \cup {at}
              /\ d.mode = IF fate' \in {"committed", "error"} /\ pc' = "settle"
                          THEN "0600" ELSE "final"
         /\ written' = written \cup {at}
         /\ \/ pc' = "check" /\ job.verify /\ misled' = misled
            \/ pc' = "settle" /\ fate' = "done" /\ ~job.verify /\ misled' = misled
            \/ pc' = "settle" /\ fate' = "committed" /\ misled' = misled
            \/ pc' = "settle" /\ fate' = "error" /\ misled' = misled \cup {at}
         /\ UNCHANGED <<job, at, undetected, report, announced, answer, checked, edits>>
<1>1. pc = "sign" /\ MaySign(at)
  BY DEF SignOne, SignCommitted, SignDelivers
<1>2. at \in Inputs /\ out(at) \in Paths
  BY <1>1, OnPaths DEF TypeOK
<1>3. CASE SignOne
  <2>1. PICK sound \in BOOLEAN : disk' = [disk EXCEPT ![out(at)] = Signed(at, sound, "final")]
    BY <1>3 DEF SignOne
  <2> QED BY <1>1, <1>2, <1>3, <2>1, SignedIs DEF SignOne
<1>4. CASE SignCommitted
  <2>1. PICK sound \in BOOLEAN : disk' = [disk EXCEPT ![out(at)] = Signed(at, sound, "0600")]
    BY <1>4 DEF SignCommitted
  <2> QED BY <1>1, <1>2, <1>4, <2>1, SignedIs DEF SignCommitted
<1>5. CASE SignDelivers
  <2>1. PICK sound \in BOOLEAN : disk' = [disk EXCEPT ![out(at)] = Signed(at, sound, "0600")]
    BY <1>5 DEF SignDelivers
  <2> QED BY <1>1, <1>2, <1>5, <2>1, SignedIs DEF SignDelivers
<1> QED BY <1>3, <1>4, <1>5

\* Nothing but signing and other programs touches a file.
LEMMA DiskSame ==
  ASSUME [Next]_vars, ~SignOne, ~SignCommitted, ~SignDelivers,
         \A i \in Inputs : ~Edit(i) /\ ~Replace(i)
  PROVE  UNCHANGED <<disk, written, misled, edits>>
  BY DEF Next, Loop, Refuse, PlanCli, PlanApi, Proceed, Halt, Skip, SignFails, Check, SettleApi, SettleCli,
         FinishApi, FinishCli, vars

\* Every input keeps a document.
LEMMA DiskStep ==
  ASSUME TypeOK, DiskInv, [Next]_vars
  PROVE  DiskInv'
<1>1. ASSUME NEW p \in Paths, NEW d \in Documents, disk' = [disk EXCEPT ![p] = d],
             \/ \A i \in 0..N : d.file # <<"given", i>>
             \/ disk[p] \in Documents /\ d.file = disk[p].file /\ d.origin = disk[p].origin /\ d.by = disk[p].by
      PROVE  DiskInv'
  <2>1. disk \in [Paths -> Documents \cup {Nothing}]
    BY DEF TypeOK
  <2>2. \A q \in Paths : disk'[q] = IF q = p THEN d ELSE disk[q]
    BY <1>1, <2>1
  <2>3. \A i \in Inputs : disk'[Source[i]] \in Documents
    BY <1>1, <2>2, OnPaths DEF DiskInv
  <2>4. \A q \in Paths, i \in 0..N :
          disk'[q] \in Documents /\ disk'[q].file = <<"given", i>> => disk'[q].origin = i /\ disk'[q].by = {}
    BY <1>1, <2>2 DEF DiskInv
  <2> QED BY <2>3, <2>4 DEF DiskInv
<1>2. CASE SignOne \/ SignCommitted \/ SignDelivers
  BY <1>1, <1>2, SigningIs
<1>3. ASSUME NEW i \in Inputs, Edit(i) \/ Replace(i) PROVE DiskInv'
  <2>1. PICK d \in Documents :
           /\ disk' = [disk EXCEPT ![Source[i]] = d]
           /\ \/ d.file = disk[Source[i]].file /\ d.origin = disk[Source[i]].origin /\ d.by = disk[Source[i]].by
              \/ d.file = <<"other", 0>>
    BY <1>3, TouchedIs
  <2> QED BY <1>1, <2>1, OnPaths DEF DiskInv
<1> QED BY <1>2, <1>3, DiskSame DEF DiskInv

\* The plan keeps outputs apart, and only the end answers.
LEMMA PlanStep ==
  ASSUME TypeOK, DiskInv, PlanInv, LoopInv, [Next]_vars
  PROVE  PlanInv'
<1> USE DEF PlanInv, Looping
<1>1. CASE Refuse
  BY <1>1 DEF Refuse, Answer, Collides, out
<1>2. CASE \E unreadable \in SUBSET Inputs : PlanCli(unreadable)
  BY <1>2 DEF PlanCli, Answer, Collides, out
<1>3. CASE PlanApi
  BY <1>3 DEF PlanApi, Collides, out
<1>4. CASE Proceed
  BY <1>4 DEF Proceed, Collides, out
<1>5. CASE Halt
  BY <1>5 DEF Halt, Answer, Collides, out
<1>6. CASE Skip
  BY <1>6 DEF Skip, Collides, out
<1>7. CASE SignOne \/ SignCommitted \/ SignDelivers
  <2>1. /\ pc = "sign" /\ pc' \in {"check", "settle"} /\ written' = written \cup {at}
        /\ UNCHANGED <<job, undetected, answer>>
    BY <1>7, SigningIs
  <2>2. at \notin undetected
    BY <2>1 DEF LoopInv
  <2> QED BY <2>1, <2>2 DEF Collides, out
<1>8. CASE SignFails
  BY <1>8 DEF SignFails, Collides, out
<1>9. CASE Check
  BY <1>9 DEF Check, Collides, out
<1>10. CASE SettleApi
  BY <1>10 DEF SettleApi, Answer, Collides, out
<1>11. CASE SettleCli
  BY <1>11 DEF SettleCli, Collides, out
<1>12. CASE FinishApi
  BY <1>12 DEF FinishApi, Answer, Collides, out
<1>13. CASE FinishCli
  BY <1>13 DEF FinishCli, Answer, Collides, out
<1>14. ASSUME NEW i \in Inputs, Edit(i) \/ Replace(i) PROVE PlanInv'
  BY <1>14 DEF Edit, Replace, Touch, Collides, out
<1>15. CASE UNCHANGED vars
  BY <1>15 DEF vars, Collides, out
<1> QED BY <1>1, <1>2, <1>3, <1>4, <1>5, <1>6, <1>7, <1>8, <1>9, <1>10, <1>11, <1>12, <1>13, <1>14, <1>15
        DEF Next, Loop

\* The loop writes what it is at, and moves on.
LEMMA LoopStep ==
  ASSUME TypeOK, DiskInv, PlanInv, LoopInv, [Next]_vars
  PROVE  LoopInv'
<1>a. at \in Nat /\ written \subseteq Nat /\ checked \subseteq written /\ misled \subseteq written
  BY BatchAssumption DEF TypeOK, Inputs
<1> USE <1>a DEF LoopInv
<1>1. CASE Refuse
  BY <1>1 DEF Refuse, Answer
<1>2. CASE \E unreadable \in SUBSET Inputs : PlanCli(unreadable)
  BY <1>2 DEF PlanCli, Answer
<1>3. CASE PlanApi
  BY <1>3 DEF PlanApi
<1>4. CASE Proceed
  BY <1>4 DEF Proceed
<1>5. CASE Halt
  BY <1>5 DEF Halt, Answer
<1>6. CASE Skip
  BY <1>6 DEF Skip
<1>7. CASE SignOne \/ SignCommitted \/ SignDelivers
  <2>1. /\ pc = "sign" /\ written' = written \cup {at}
        /\ \/ pc' = "check" /\ job.verify
           \/ pc' = "settle" /\ fate' = "done" /\ ~job.verify
           \/ pc' = "settle" /\ fate' = "committed"
           \/ pc' = "settle" /\ fate' = "error" /\ misled' = misled \cup {at}
        /\ UNCHANGED <<job, at, undetected, checked>>
    BY <1>7, SigningIs
  <2>2. at \notin written /\ at \notin checked
    BY <2>1
  <2> QED BY <2>1, <2>2 DEF Committed
<1>8. CASE SignFails
  BY <1>8 DEF SignFails, Committed, PostSign
<1>9. CASE Check
  <2>1. /\ fate' \in {"done"} \cup PostSign /\ pc = "check" /\ pc' = "settle"
        /\ checked' = IF fate' = "done" THEN checked \cup {at} ELSE checked
        /\ UNCHANGED <<job, at, undetected, written, misled>>
    BY <1>9 DEF Check, PostSign
  <2> QED BY <2>1 DEF Committed
<1>10. CASE SettleApi
  <2>1. /\ \/ pc' = "next" /\ at' = at + 1
           \/ pc' = "over" /\ at' = at
        /\ pc = "settle" /\ UNCHANGED <<written, checked>>
    BY <1>10 DEF SettleApi, Answer
  <2> QED BY <2>1
<1>11. CASE SettleCli
  BY <1>11 DEF SettleCli
<1>12. CASE FinishApi
  BY <1>12 DEF FinishApi, Answer
<1>13. CASE FinishCli
  BY <1>13 DEF FinishCli, Answer
<1>14. ASSUME NEW i \in Inputs, Edit(i) \/ Replace(i) PROVE LoopInv'
  BY <1>14 DEF Edit, Replace, Touch
<1>15. CASE UNCHANGED vars
  BY <1>15 DEF vars
<1> QED BY <1>1, <1>2, <1>3, <1>4, <1>5, <1>6, <1>7, <1>8, <1>9, <1>10, <1>11, <1>12, <1>13, <1>14, <1>15
        DEF Next, Loop

\* What failed after its commit stays the one in hand until a command calls it an error.
LEMMA MisledStep ==
  ASSUME TypeOK, DiskInv, PlanInv, LoopInv, MisledInv, [Next]_vars
  PROVE  MisledInv'
<1>a. /\ at \in Nat /\ Inputs \subseteq Nat /\ misled \subseteq Inputs
      /\ report \in [Inputs -> ReportTypes]
  BY BatchAssumption DEF TypeOK, Inputs, ReportTypes
<1>b. ASSUME UNCHANGED <<job, report, misled>>, pc # "settle", at' \in {at, at + 1}, pc # "over"
      PROVE  MisledInv'
  BY <1>a, <1>b DEF MisledInv
<1>c. ASSUME pc' = "over" PROVE MisledInv'
  BY <1>c DEF MisledInv
<1>1. CASE Refuse \/ Halt \/ FinishApi \/ FinishCli
  BY <1>1, <1>c DEF Refuse, Halt, FinishApi, FinishCli, Answer
<1>2. CASE \E unreadable \in SUBSET Inputs : PlanCli(unreadable)
  BY <1>2, <1>b DEF PlanCli
<1>3. CASE PlanApi \/ Proceed \/ Skip \/ SignFails \/ Check
  BY <1>3, <1>b DEF PlanApi, Proceed, Skip, SignFails, Check
<1>4. CASE SignOne \/ SignCommitted \/ SignDelivers
  <2>1. /\ pc = "sign" /\ UNCHANGED <<job, at, report>>
        /\ \/ misled' = misled
           \/ pc' = "settle" /\ fate' = "error" /\ misled' = misled \cup {at}
    BY <1>4, SigningIs
  <2>2. \A i \in misled : i < at /\ job.front = "cli" /\ report[i].status = "error"
    BY <2>1 DEF MisledInv
  <2>3. ASSUME NEW i \in misled', pc' # "over"
        PROVE  \/ i = at' /\ pc' = "settle" /\ fate' = "error"
               \/ i < at' /\ job'.front = "cli" /\ report'[i].status = "error"
    BY <2>1, <2>2
  <2> QED BY <2>3 DEF MisledInv
<1>5. CASE SettleApi
  <2>1. CASE pc' = "over"
    BY <2>1, <1>c
  <2>2. CASE pc' # "over"
    <3>1. /\ pc = "settle" /\ fate = "done" /\ job.front = "api" /\ UNCHANGED <<job, misled>>
      BY <1>5, <2>2 DEF SettleApi, Answer
    <3> QED BY <3>1 DEF MisledInv
  <2> QED BY <2>1, <2>2
<1>6. CASE SettleCli
  <2>1. /\ pc = "settle" /\ at' = at + 1 /\ job.front = "cli" /\ UNCHANGED <<job, misled>>
        /\ at \in Inputs
    BY <1>6 DEF SettleCli, TypeOK
  <2>2. ASSUME NEW i \in misled PROVE i < at' /\ job'.front = "cli" /\ report'[i].status = "error"
    <3>1. CASE i = at
      <4>1. fate = "error"
        BY <1>a, <2>1, <3>1 DEF MisledInv
      <4>2. Report("error", FALSE)
        BY <1>6, <4>1 DEF SettleCli
      <4>3. report'[at].status = "error"
        BY <1>a, <2>1, <4>2 DEF Report, ReportTypes
      <4> QED BY <1>a, <2>1, <3>1, <4>3
    <3>2. CASE i # at
      <4>1. i < at /\ report[i].status = "error"
        BY <2>1, <3>2 DEF MisledInv
      <4>2. report'[i] = report[i]
        <5>1. \E status, verified : Report(status, verified)
          BY <1>6 DEF SettleCli
        <5> QED BY <1>a, <3>2, <5>1 DEF Report
      <4> QED BY <1>a, <2>1, <4>1, <4>2
    <3> QED BY <3>1, <3>2
  <2> QED BY <2>1, <2>2 DEF MisledInv
<1>7. ASSUME NEW i \in Inputs, Edit(i) \/ Replace(i) PROVE MisledInv'
  BY <1>7 DEF Edit, Replace, Touch, MisledInv
<1>8. CASE UNCHANGED vars
  BY <1>8 DEF vars, MisledInv
<1> QED BY <1>1, <1>2, <1>3, <1>4, <1>5, <1>6, <1>7, <1>8 DEF Next, Loop

\* The reports follow the loop.
LEMMA ToldStep ==
  ASSUME TypeOK, DiskInv, PlanInv, LoopInv, ToldInv, [Next]_vars
  PROVE  ToldInv'
<1>a. /\ at \in Nat /\ Inputs \subseteq Nat /\ written \subseteq Inputs /\ checked \subseteq written
      /\ report \in [Inputs -> ReportTypes] /\ N \in Nat /\ misled \subseteq written
  BY BatchAssumption DEF TypeOK, Inputs, ReportTypes
<1> DEFINE Kept == UNCHANGED <<job, undetected, report, announced, written, checked, misled>>
<1>b. ASSUME Kept, at' = at, pc' # "over" => pc # "over",
             pc \in {"check", "settle"} => at \notin written \/ pc' \in {"check", "settle", "over"}
      PROVE  ToldInv'
  BY <1>b DEF ToldInv, Reported
<1>1. CASE Refuse
  BY <1>1, <1>b DEF Refuse, Answer
<1>2. CASE \E unreadable \in SUBSET Inputs : PlanCli(unreadable)
  <2>1. pc = "plan" /\ at = 1 /\ job.front = "cli" /\ UNCHANGED <<job, at, report, announced, written, checked, misled>>
    BY <1>2 DEF PlanCli, PlanInv
  <2> QED BY <1>a, <2>1 DEF ToldInv, Reported, Inputs
<1>3. CASE PlanApi
  BY <1>3, <1>b DEF PlanApi
<1>4. CASE Proceed
  BY <1>4, <1>b DEF Proceed
<1>5. CASE Halt
  BY <1>5, <1>b DEF Halt, Answer
<1>6. CASE Skip
  <2>1. pc = "next" /\ at \in undetected /\ at' = at + 1 /\ UNCHANGED pc /\ Kept
    BY <1>6 DEF Skip
  <2> QED BY <1>a, <2>1 DEF ToldInv, Reported
<1>7. CASE SignOne \/ SignCommitted \/ SignDelivers
  <2>1. /\ pc = "sign" /\ pc' \in {"check", "settle"} /\ at \in Inputs /\ written' = written \cup {at}
        /\ UNCHANGED <<job, at, undetected, report, announced, checked>> /\ misled \subseteq misled'
    BY <1>7, SigningIs
  <2> QED BY <1>a, <2>1 DEF ToldInv, Reported
<1>8. CASE SignFails
  BY <1>8, <1>b DEF SignFails
<1>9. CASE Check
  <2>1. pc = "check" /\ pc' = "settle" /\ checked' \in {checked, checked \cup {at}}
        /\ UNCHANGED <<job, at, undetected, report, announced, written, misled>>
    BY <1>9 DEF Check
  <2>2. report[at] = NoReport /\ at \in Inputs
    BY <1>a, <2>1 DEF ToldInv, LoopInv
  <2> QED BY <1>a, <2>1, <2>2 DEF ToldInv, Reported, NoReport
<1>10. CASE SettleApi
  <2>1. /\ pc = "settle" /\ at \in Inputs /\ at \notin undetected /\ job.front = "api" /\ UNCHANGED <<job, undetected, written, checked, misled>>
        /\ \/ pc' = "next" /\ at' = at + 1 /\ fate = "done"
           \/ pc' = "over" /\ at' = at
    BY <1>10 DEF SettleApi, Answer, LoopInv, TypeOK
  <2>2. CASE fate \in {"done", "committed"}
    <3>1. /\ Report(IF fate = "done" THEN "ok" ELSE "signed", fate = "done" /\ job.verify)
          /\ announced' = announced \cup {at}
      BY <1>10, <2>2 DEF SettleApi
    <3>2. job.verify \in BOOLEAN
      BY DEF TypeOK, Jobs
    <3>3. /\ report' \in [Inputs -> ReportTypes] /\ \A i \in Inputs \ {at} : report'[i] = report[i]
          /\ report'[at].status = IF fate = "done" THEN "ok" ELSE "signed"
          /\ report'[at].verified = (fate = "done" /\ job.verify)
      <4>1. PICK status \in Statuses, verified \in BOOLEAN :
              /\ Report(status, verified) /\ verified = (fate = "done" /\ job.verify)
              /\ status = IF fate = "done" THEN "ok" ELSE "signed"
        BY <2>2, <3>1, <3>2 DEF Statuses
      <4>2. /\ report' \in [Inputs -> ReportTypes] /\ \A i \in Inputs \ {at} : report'[i] = report[i]
            /\ report'[at].status = status /\ report'[at].verified = verified
        BY <1>a, <2>1, <4>1, ReportTyped
      <4> QED BY <4>1, <4>2
    <3>4. at \in written /\ (at \in checked <=> fate = "done" /\ job.verify)
      BY <2>1, <2>2 DEF LoopInv, Committed
    <3>5. announced' = Reported'
      BY <1>a, <2>1, <2>2, <3>1, <3>3 DEF ToldInv, Reported
    <3>6. pc' # "over" => \A i \in Inputs :
            IF i < at' /\ i \notin undetected' THEN report'[i].status = "ok" ELSE report'[i] = NoReport
      BY <1>a, <2>1, <3>3 DEF ToldInv
    <3>7. \A i \in Inputs :
            /\ report'[i].status \in {"ok", "signed"} \cup PostSign => i \in written'
            /\ i \in written' => i \in misled' \/ report'[i].status \in {"ok", "signed"} \cup PostSign
            /\ report'[i].verified <=> i \in checked' /\ report'[i].status = "ok"
            /\ report'[i].status = "ok" => (i \in checked' <=> job.verify)
      BY <1>a, <2>1, <2>2, <3>3, <3>4 DEF ToldInv
    <3> QED BY <2>1, <3>5, <3>6, <3>7 DEF ToldInv
  <2>3. CASE fate \notin {"done", "committed"}
    BY <1>10, <1>a, <1>b, <2>1, <2>3 DEF SettleApi
  <2> QED BY <2>2, <2>3
<1>11. CASE SettleCli
  <2>1. /\ pc = "settle" /\ pc' = "next" /\ at' = at + 1 /\ at \in Inputs /\ at \notin undetected /\ job.front = "cli"
        /\ UNCHANGED <<job, undetected, announced, written, checked, misled>>
        /\ fate \in {"error"} \cup Committed
        /\ (at \in written <=> fate \in Committed \/ at \in misled)
        /\ (at \in checked <=> fate = "done" /\ job.verify)
    BY <1>11 DEF SettleCli, LoopInv, TypeOK
  <2>2. \E status \in {"ok", "signed", "error"} \cup PostSign, verified \in BOOLEAN :
          /\ Report(status, verified) /\ verified = (fate = "done" /\ job.verify)
          /\ status = IF fate = "done" THEN "ok" ELSE IF fate = "committed" THEN "signed" ELSE fate
    <3>1. job.verify \in BOOLEAN
      BY DEF TypeOK, Jobs
    <3> QED BY <1>11, <2>1, <3>1 DEF SettleCli, Committed, PostSign
  <2>3. /\ \A i \in Inputs \ {at} : report'[i] = report[i]
        /\ report'[at].status = IF fate = "done" THEN "ok" ELSE IF fate = "committed" THEN "signed" ELSE fate
        /\ report'[at].verified <=> fate = "done" /\ job.verify
    <3>1. PICK status \in {"ok", "signed", "error"} \cup PostSign, verified \in BOOLEAN :
            /\ Report(status, verified) /\ verified = (fate = "done" /\ job.verify)
            /\ status = IF fate = "done" THEN "ok" ELSE IF fate = "committed" THEN "signed" ELSE fate
      BY <2>2
    <3>2. status \in Statuses
      BY DEF Statuses
    <3>3. \A i \in Inputs \ {at} : report'[i] = report[i]
      BY <1>a, <2>1, <3>1, <3>2, ReportTyped
    <3>4. report'[at].status = status /\ report'[at].verified = verified
      BY <1>a, <2>1, <3>1, <3>2, ReportTyped
    <3>5. verified <=> fate = "done" /\ job.verify
      BY <3>1
    <3> QED BY <3>1, <3>3, <3>4, <3>5
  <2>4. report'[at].status \in {"ok", "signed", "error"} \cup PostSign
    BY <2>1, <2>3 DEF Committed, PostSign
  <2>5. pc' # "over" => \A i \in Inputs :
          IF i < at' /\ i \notin undetected' THEN report'[i].status \in {"ok", "signed", "error"} \cup PostSign
          ELSE report'[i] = NoReport
    BY <1>a, <2>1, <2>3, <2>4 DEF ToldInv
  <2>6. \A i \in Inputs :
          /\ report'[i].status \in {"ok", "signed"} \cup PostSign => i \in written'
          /\ i \in written' => i \in misled' \/ report'[i].status \in {"ok", "signed"} \cup PostSign
          /\ report'[i].verified <=> i \in checked' /\ report'[i].status = "ok"
          /\ report'[i].status = "ok" => (i \in checked' <=> job.verify)
    <3>1. ASSUME NEW i \in Inputs \ {at}
          PROVE  /\ report'[i].status \in {"ok", "signed"} \cup PostSign => i \in written'
                 /\ i \in written' => i \in misled' \/ report'[i].status \in {"ok", "signed"} \cup PostSign
                 /\ report'[i].verified <=> i \in checked' /\ report'[i].status = "ok"
                 /\ report'[i].status = "ok" => (i \in checked' <=> job.verify)
      BY <1>a, <2>1, <2>3, <3>1 DEF ToldInv
    <3>2. /\ report'[at].status \in {"ok", "signed"} \cup PostSign => at \in written'
          /\ at \in written' => at \in misled' \/ report'[at].status \in {"ok", "signed"} \cup PostSign
          /\ report'[at].verified <=> at \in checked' /\ report'[at].status = "ok"
          /\ report'[at].status = "ok" => (at \in checked' <=> job.verify)
      BY <1>a, <2>1, <2>3 DEF Committed, PostSign
    <3> QED BY <3>1, <3>2
  <2>7. announced' = {}
    BY <2>1 DEF ToldInv
  <2> QED BY <2>1, <2>5, <2>6, <2>7 DEF ToldInv
<1>12. CASE FinishApi
  BY <1>12, <1>b DEF FinishApi, Answer
<1>13. CASE FinishCli
  <2>1. /\ pc = "next" /\ pc' = "over" /\ job.front = "cli"
        /\ UNCHANGED <<job, undetected, announced, written, checked, misled>>
        /\ report' = [i \in Inputs |-> IF i \in undetected THEN [status |-> "error", verified |-> FALSE] ELSE report[i]]
    BY <1>13 DEF FinishCli, Answer
  <2>2. undetected \cap written = {}
    BY DEF PlanInv
  <2>3. \A i \in Inputs : IF i \in undetected THEN report'[i].status = "error" /\ report'[i].verified = FALSE
                          ELSE report'[i] = report[i]
    BY <2>1
  <2> QED BY <1>a, <2>1, <2>2, <2>3 DEF ToldInv, PostSign
<1>14. ASSUME NEW i \in Inputs, Edit(i) \/ Replace(i) PROVE ToldInv'
  BY <1>14, <1>b DEF Edit, Replace, Touch
<1>15. CASE UNCHANGED vars
  BY <1>15, <1>b DEF vars
<1> QED BY <1>1, <1>2, <1>3, <1>4, <1>5, <1>6, <1>7, <1>8, <1>9, <1>10, <1>11, <1>12, <1>13, <1>14, <1>15
        DEF Next, Loop


\* What a step leaves at an output, and says of it, stands as it did.
LEMMA StandsOn ==
  ASSUME NEW i, Stands(i), UNCHANGED job, disk'[out(i)] = disk[out(i)], i \in checked' => i \in checked,
         Said(i)' = Said(i), i = at' /\ pc' = "check" => i = at /\ pc = "check"
  PROVE  Stands(i)'
  BY DEF Stands, out

\* Every output stands after every step.
LEMMA OutputStep ==
  ASSUME TypeOK, DiskInv, PlanInv, LoopInv, ToldInv, OutputInv, [Next]_vars
  PROVE  OutputInv'
<1>a. /\ at \in Nat /\ Inputs \subseteq Nat /\ written \subseteq Inputs /\ checked \subseteq written
      /\ report \in [Inputs -> ReportTypes] /\ disk \in [Paths -> Documents \cup {Nothing}]
  BY BatchAssumption DEF TypeOK, Inputs, ReportTypes
<1>b. ASSUME UNCHANGED <<job, disk, written, checked>>, \A i \in written : Said(i)' = Said(i),
             pc' = "check" => pc = "check" /\ at' = at
      PROVE  OutputInv'
  <2>1. \A i \in written : Overtaken(i)' = Overtaken(i)
    BY <1>b DEF Overtaken, out
  <2>2. \A i \in written : Stands(i) => Stands(i)'
    BY <1>b, StandsOn
  <2> QED BY <1>b, <2>1, <2>2 DEF OutputInv
<1>c. ASSUME UNCHANGED <<job, disk, written, checked, report>>, pc # "settle", pc' # "settle" \/ at \notin written,
             pc' = "settle" => at' = at, pc' = "check" => pc = "check" /\ at' = at
      PROVE  OutputInv'
  BY <1>b, <1>c DEF Said
<1>d. ASSUME pc = "settle", pc' \in {"next", "over"}, UNCHANGED <<job, disk, written, checked>>,
             \A i \in Inputs \ {at} : report'[i] = report[i],
             report'[at].status \in {"ok", "done"} => fate = "done",
             report'[at].status \in {"signed", "committed"} => fate = "committed",
             report'[at].status = "failed" => fate = "failed"
      PROVE  OutputInv'
  <2>1. ASSUME NEW i \in written, ~Overtaken(i)' PROVE Stands(i)'
    <3>1. Stands(i) /\ i \in Inputs
      BY <1>a, <1>d, <2>1 DEF OutputInv, Overtaken, out
    <3>2. CASE i = at
      <4>1. Said(i) = fate /\ Said(i)' = report'[at].status
        BY <1>d, <3>2 DEF Said
      <4> QED BY <1>d, <3>1, <3>2, <4>1 DEF Stands, out
    <3>3. CASE i # at
      <4>1. Said(i)' = Said(i)
        BY <1>d, <3>1, <3>3 DEF Said
      <4> QED BY <1>d, <3>1, <4>1, StandsOn DEF out
    <3> QED BY <3>2, <3>3
  <2> QED BY <1>d, <2>1 DEF OutputInv
<1>1. CASE Refuse
  BY <1>1, <1>c DEF Refuse, Answer
<1>2. CASE \E unreadable \in SUBSET Inputs : PlanCli(unreadable)
  BY <1>2, <1>c DEF PlanCli, Answer
<1>3. CASE PlanApi
  BY <1>3, <1>c DEF PlanApi
<1>4. CASE Proceed
  BY <1>4, <1>c DEF Proceed
<1>5. CASE Halt
  BY <1>5, <1>c DEF Halt, Answer
<1>6. CASE Skip
  BY <1>6, <1>c DEF Skip
<1>7. CASE SignOne \/ SignCommitted \/ SignDelivers
  <2>1. /\ pc = "sign" /\ at \in Inputs /\ MaySign(at) /\ out(at) \in Paths
        /\ \/ pc' = "check"
           \/ pc' = "settle" /\ fate' \in {"done", "committed", "error"}
        /\ written' = written \cup {at} /\ UNCHANGED <<job, at, undetected, report, checked>>
    BY <1>7, SigningIs
  <2>2. PICK d \in Documents :
          /\ disk' = [disk EXCEPT ![out(at)] = d] /\ d.file = <<"output", at>>
          /\ d.origin = src(at).origin /\ d.by = src(at).by \cup {at}
          /\ d.mode = IF fate' \in {"committed", "error"} /\ pc' = "settle" THEN "0600" ELSE "final"
    BY <1>7, SigningIs
  <2>3. at \notin written /\ at \notin checked /\ at \notin undetected /\ report[at] = NoReport
    BY <1>a, <2>1 DEF LoopInv, ToldInv
  <2>4. \A p \in Paths : disk'[p] = IF p = out(at) THEN d ELSE disk[p]
    BY <1>a, <2>1, <2>2
  <2>5. ASSUME NEW i \in written, ~Overtaken(i)' PROVE Stands(i)'
    <3>1. i < at /\ i \in Inputs
      BY <1>a, <2>1 DEF LoopInv
    <3>2. out(i) # out(at)
      <4>1. CASE job.front = "api"
        BY <4>1, <2>1, <2>5, <3>1 DEF Overtaken, out
      <4>2. CASE job.front = "cli"
        <5>1. i \notin undetected /\ ~Collides(Inputs \ undetected)
          BY <4>2, <2>1 DEF PlanInv, Looping
        <5> QED BY <5>1, <1>a, <2>1, <2>3, <3>1 DEF Collides
      <4> QED BY <4>1, <4>2 DEF TypeOK, Jobs
    <3>3. disk'[out(i)] = disk[out(i)]
      BY <2>4, <3>1, <3>2, OnPaths
    <3>4. ~Overtaken(i)
      BY <2>1, <2>5 DEF Overtaken, out
    <3>5. Stands(i) /\ Said(i)' = Said(i)
      BY <1>a, <2>1, <3>1, <3>4 DEF OutputInv, Said
    <3> QED BY <1>a, <2>1, <3>1, <3>3, <3>5, StandsOn
  <2>6. Stands(at)'
    <3>1. disk'[out(at)'] = d
      BY <2>1, <2>4 DEF out
    <3>2. at \in job.listed => d.origin = at /\ d.by = {at}
      <4>1. at \in job.listed => src(at).file = <<"given", at>>
        BY <2>1 DEF MaySign, Opens
      <4>2. at \in 0..N /\ Source[at] \in Paths
        BY <2>1, AnswerWords, OnPaths
      <4> QED BY <2>1, <2>2, <4>1, <4>2 DEF DiskInv, src
    <3>3. /\ Said(at)' \in {"ok", "done"} \/ pc' = "check" => d.mode = "final"
          /\ Said(at)' \in {"signed", "committed"} => d.mode = "0600"
          /\ Said(at)' # "failed"
      BY <2>1, <2>2, <2>3 DEF Said, NoReport
    <3> QED BY <2>1, <2>2, <2>3, <3>1, <3>2, <3>3 DEF Stands
  <2> QED BY <2>1, <2>5, <2>6 DEF OutputInv
<1>8. CASE SignFails
  <2>1. at \notin written
    BY <1>a, <1>8 DEF SignFails, LoopInv
  <2> QED BY <1>8, <1>c, <2>1 DEF SignFails
<1>9. CASE Check
  <2>1. /\ pc = "check" /\ pc' = "settle" /\ UNCHANGED <<job, disk, at, report, written>>
        /\ checked' = IF fate' = "done" THEN checked \cup {at} ELSE checked
    BY <1>9 DEF Check
  <2>2. /\ fate' = "done" => disk[out(at)].sound
        /\ fate' = "failed" => ~disk[out(at)].sound
        /\ fate' \in {"done"} \cup PostSign
    <3>1. Matches(at) \/ Kind[at] # "embedded"
      BY DEF Matches
    <3> QED BY <1>9, <3>1 DEF Check, PostSign
  <2>3. ASSUME NEW i \in written, ~Overtaken(i)' PROVE Stands(i)'
    <3>1. Stands(i)
      BY <2>1, <2>3 DEF OutputInv, Overtaken, out
    <3>2. CASE i = at
      <4>1. Said(i)' = fate'
        BY <2>1, <3>2 DEF Said
      <4> QED BY <2>1, <2>2, <3>1, <3>2, <4>1 DEF Stands, PostSign, out
    <3>3. CASE i # at
      <4>1. Said(i)' = Said(i)
        BY <2>1, <3>3 DEF Said
      <4> QED BY <2>1, <3>1, <3>3, <4>1, StandsOn DEF out
    <3> QED BY <3>2, <3>3
  <2> QED BY <2>1, <2>3 DEF OutputInv
<1>10. CASE SettleApi
  <2>1. /\ pc = "settle" /\ pc' \in {"next", "over"} /\ at \in Inputs /\ UNCHANGED <<job, disk, written, checked>>
    BY <1>10 DEF SettleApi, Answer, TypeOK
  <2>2. CASE fate \in {"done", "committed"}
    <3>1. Report(IF fate = "done" THEN "ok" ELSE "signed", fate = "done" /\ job.verify)
      BY <1>10, <2>2 DEF SettleApi
    <3>2. job.verify \in BOOLEAN
      BY DEF TypeOK, Jobs
    <3>3. PICK status \in Statuses, verified \in BOOLEAN :
            Report(status, verified) /\ status = IF fate = "done" THEN "ok" ELSE "signed"
      BY <2>2, <3>1, <3>2 DEF Statuses
    <3>4. \A i \in Inputs \ {at} : report'[i] = report[i]
      BY <1>a, <2>1, <3>3, ReportTyped
    <3>5. report'[at].status = IF fate = "done" THEN "ok" ELSE "signed"
      BY <1>a, <2>1, <3>3, ReportTyped
    <3> QED BY <1>a, <1>d, <2>1, <2>2, <3>4, <3>5
  <2>3. CASE fate \notin {"done", "committed"}
    <3>1. UNCHANGED report
      BY <1>10, <2>3 DEF SettleApi
    <3>2. report[at] = NoReport
      BY <1>a, <2>1 DEF ToldInv
    <3> QED BY <1>a, <1>d, <2>1, <3>1, <3>2 DEF NoReport
  <2> QED BY <2>2, <2>3
<1>11. CASE SettleCli
  <2>1. /\ pc = "settle" /\ pc' = "next" /\ at \in Inputs /\ UNCHANGED <<job, disk, written, checked>>
        /\ fate \in {"error"} \cup Committed
    BY <1>11 DEF SettleCli, LoopInv, TypeOK
  <2>2. job.verify \in BOOLEAN
    BY DEF TypeOK, Jobs
  <2>3. PICK status \in {"ok", "signed", "error"} \cup PostSign, verified \in BOOLEAN :
          Report(status, verified) /\ status = IF fate = "done" THEN "ok" ELSE IF fate = "committed" THEN "signed" ELSE fate
    BY <1>11, <2>1, <2>2 DEF SettleCli, Committed, PostSign
  <2>4. status \in Statuses
    BY DEF Statuses
  <2>5. \A i \in Inputs \ {at} : report'[i] = report[i]
    BY <1>a, <2>1, <2>3, <2>4, ReportTyped
  <2>6. report'[at].status = status
    BY <1>a, <2>1, <2>3, <2>4, ReportTyped
  <2>7. status = "ok" <=> fate = "done"
    BY <2>1, <2>3 DEF Committed, PostSign
  <2>8. status = "signed" <=> fate = "committed"
    BY <2>1, <2>3 DEF Committed, PostSign
  <2>9. (status = "failed" => fate = "failed") /\ status \notin {"done", "committed"}
    BY <2>1, <2>3 DEF Committed, PostSign
  <2> QED BY <1>d, <2>1, <2>5, <2>6, <2>7, <2>8, <2>9
<1>12. CASE FinishApi
  BY <1>12, <1>c DEF FinishApi, Answer
<1>13. CASE FinishCli
  <2>1. /\ pc = "next" /\ pc' = "over" /\ UNCHANGED <<job, disk, written, checked, at>>
        /\ report' = [i \in Inputs |-> IF i \in undetected THEN [status |-> "error", verified |-> FALSE] ELSE report[i]]
    BY <1>13 DEF FinishCli, Answer
  <2>2. \A i \in written : report'[i] = report[i]
    BY <1>a, <2>1 DEF PlanInv
  <2> QED BY <1>b, <2>1, <2>2 DEF Said
<1>14. ASSUME NEW k \in Inputs, Edit(k) \/ Replace(k) PROVE OutputInv'
  <2>1. PICK d \in Documents : disk' = [disk EXCEPT ![Source[k]] = d] /\ disk[Source[k]].file = <<"given", k>>
    BY <1>14, TouchedIs
  <2>2. UNCHANGED <<job, pc, at, fate, report, written, checked>>
    BY <1>14 DEF Edit, Replace, Touch
  <2>3. ASSUME NEW i \in written, ~Overtaken(i)' PROVE Stands(i)'
    <3>1. Stands(i) /\ i \in Inputs
      BY <1>a, <2>2, <2>3 DEF OutputInv, Overtaken, out
    <3>2. out(i) # Source[k]
      BY <2>1, <3>1 DEF Stands
    <3>3. disk'[out(i)] = disk[out(i)]
      BY <1>a, <2>1, <3>1, <3>2, OnPaths
    <3>4. Said(i)' = Said(i)
      BY <2>2 DEF Said
    <3> QED BY <2>2, <3>1, <3>3, <3>4, StandsOn
  <2> QED BY <2>2, <2>3 DEF OutputInv
<1>15. CASE UNCHANGED vars
  <2>1. \A i \in written : Said(i)' = Said(i)
    BY <1>15 DEF vars, Said
  <2> QED BY <1>15, <1>b, <2>1 DEF vars
<1> QED BY <1>1, <1>2, <1>3, <1>4, <1>5, <1>6, <1>7, <1>8, <1>9, <1>10, <1>11, <1>12, <1>13, <1>14, <1>15
        DEF Next, Loop

-----------------------------------------------------------------------------
(* Theorems.                                                                 *)

IInv == TypeOK /\ DiskInv /\ PlanInv /\ LoopInv /\ MisledInv /\ ToldInv /\ OutputInv

\* It holds before the batch has begun.
LEMMA InitInv ==
  ASSUME Init
  PROVE  IInv
<1>1. /\ pc = "plan" /\ at = 1 /\ undetected = {} /\ fate = "none" /\ report = [i \in Inputs |-> NoReport]
      /\ announced = {} /\ answer = NoAnswer /\ written = {} /\ checked = {} /\ misled = {}
      /\ edits = 0
      /\ job \in Jobs /\ (job.front = "api" => ~job.dry /\ job.listed = {})
  BY DEF Init
<1>2. N \in Nat \ {0} /\ MaxEdits \in Nat /\ 1 \in Inputs /\ 0 \in 0..N /\ Inputs \subseteq 0..N
  BY BatchAssumption DEF Inputs
<1>3. ASSUME NEW i \in 0..N PROVE Given(i) \in Documents
  <2>1. <<"given", i>> \in FileIds
    BY DEF FileIds
  <2> QED BY <2>1 DEF Given, Documents
<1>4. /\ disk \in [Paths -> {Nothing, Given(0)} \cup {Given(i) : i \in Inputs}]
      /\ \A i \in Inputs : disk[Source[i]] = Given(i)
  BY DEF Init
<1>5. disk \in [Paths -> Documents \cup {Nothing}]
  BY <1>2, <1>3, <1>4
<1>6. \A i \in Inputs : disk[Source[i]] \in Documents
  BY <1>2, <1>3, <1>4
<1>7. ASSUME NEW p \in Paths, NEW i \in 0..N, disk[p] \in Documents, disk[p].file = <<"given", i>>
      PROVE  disk[p].origin = i /\ disk[p].by = {}
  <2>1. PICK k \in 0..N : disk[p] = Given(k)
    BY <1>2, <1>4, <1>7, NullAssumption
  <2> QED BY <1>7, <2>1 DEF Given
<1>8. DiskInv
  BY <1>6, <1>7 DEF DiskInv
<1>9. TypeOK
  <2>1. answer \in AnswerTypes
    BY <1>1, <1>2 DEF NoAnswer, AnswerTypes, AnswerKinds, Fates
  <2>2. report \in [Inputs -> ReportTypes]
    BY <1>1 DEF NoReport, ReportTypes, Statuses
  <2> QED BY <1>1, <1>2, <1>5, <2>1, <2>2 DEF TypeOK, AnswerTypes, ReportTypes, Fates
<1>10. PlanInv /\ LoopInv /\ MisledInv /\ OutputInv
  BY <1>1 DEF PlanInv, LoopInv, MisledInv, OutputInv, Looping
<1>11. ToldInv
  <2>1. \A i \in Inputs : report[i] = NoReport /\ ~(i < at)
    BY <1>1, <1>2 DEF Inputs
  <2>2. NoReport.status = "none" /\ NoReport.verified = FALSE
    BY DEF NoReport
  <2>3. Reported = {}
    BY <2>1, <2>2 DEF Reported
  <2> QED BY <1>1, <2>1, <2>2, <2>3 DEF ToldInv, PostSign
<1> QED BY <1>8, <1>9, <1>10, <1>11 DEF IInv

\* Every step keeps it.
LEMMA StepInv ==
  ASSUME IInv, [Next]_vars
  PROVE  IInv'
  BY TypeStep, DiskStep, PlanStep, LoopStep, MisledStep, ToldStep, OutputStep DEF IInv

\* It holds all along.
LEMMA Invariance == Spec => []IInv
  BY InitInv, StepInv, PTL DEF Spec

\* Every variable keeps its type.
THEOREM TypeCorrect == Spec => []TypeOK
<1>1. IInv => TypeOK
  BY DEF IInv
<1> QED BY <1>1, Invariance, PTL

\* A file with a report is not the one being settled, so that what is said of it is its report.
LEMMA SaidOfReported ==
  ASSUME IInv, NEW i \in Inputs, report[i].status \in {"ok", "signed"}, ~Overtaken(i)
  PROVE  i \in written /\ Stands(i) /\ Said(i) = report[i].status
<1>1. i \in written
  BY DEF IInv, ToldInv
<1>2. ~(i = at /\ pc = "settle")
  BY BatchAssumption DEF IInv, ToldInv, TypeOK, NoReport, Inputs
<1> QED BY <1>1, <1>2 DEF IInv, OutputInv, Said

\* What is reported as signed is at its name and is what the report says (errors.py BatchSignError).
THEOREM ReportsAreTrue == Spec => []ReportsStand
<1>1. ASSUME IInv PROVE ReportsStand
  <2>1. ASSUME NEW i \in Reported, ~Overtaken(i)
        PROVE  /\ disk[out(i)] # Nothing /\ disk[out(i)].file = <<"output", i>>
               /\ (report[i].status = "ok") <=> (disk[out(i)].mode = "final")
               /\ report[i].verified => disk[out(i)].sound
    <3>1. i \in Inputs /\ report[i].status \in {"ok", "signed"}
      BY DEF Reported
    <3>2. Stands(i) /\ Said(i) = report[i].status
      BY <1>1, <2>1, <3>1, SaidOfReported
    <3>3. report[i].verified => i \in checked
      BY <1>1, <3>1 DEF IInv, ToldInv
    <3> QED BY <3>1, <3>2, <3>3, NullAssumption DEF Stands
  <2>2. ASSUME NEW i \in Reported
        PROVE  /\ report[i].verified => i \in checked
               /\ report[i].status = "ok" /\ job.verify => report[i].verified
    BY <1>1 DEF IInv, ToldInv, Reported
  <2>3. announced = IF job.front = "api" THEN Reported ELSE {}
    BY <1>1 DEF IInv, ToldInv
  <2> QED BY <2>1, <2>2, <2>3 DEF ReportsStand
<1> QED BY <1>1, Invariance, PTL

\* A listed file is signed only if it is still the file that was listed (_open_input).
THEOREM ListedIsSigned == Spec => []SignsWhatWasListed
<1>1. ASSUME IInv PROVE SignsWhatWasListed
  <2>1. ASSUME NEW i \in written \cap job.listed PROVE disk[out(i)].origin = i /\ disk[out(i)].by = {i}
    <3>1. ~Overtaken(i)
      BY <1>1 DEF IInv, PlanInv, Overtaken
    <3> QED BY <1>1, <3>1 DEF IInv, OutputInv, Stands
  <2> QED BY <2>1 DEF SignsWhatWasListed
<1> QED BY <1>1, Invariance, PTL

\* Once over, nothing moves.
LEMMA OverIsOver ==
  ASSUME pc = "over", [Next]_vars
  PROVE  UNCHANGED vars
  BY DEF Next, Loop, Refuse, PlanCli, PlanApi, Proceed, Halt, Skip, SignOne, SignCommitted,
         SignDelivers, SignFails, Check, SettleApi, SettleCli, FinishApi, FinishCli, Edit, Replace, Touch

\* The steps that end a batch.
LEMMA Endings ==
  ASSUME [Next]_vars, pc # "over", pc' = "over"
  PROVE  \/ Refuse \/ Halt \/ SettleApi \/ FinishApi \/ FinishCli
         \/ \E unreadable \in SUBSET Inputs : PlanCli(unreadable)
<1>1. /\ ~PlanApi /\ ~Proceed /\ ~Skip /\ ~SignOne /\ ~SignCommitted /\ ~SignDelivers
      /\ ~SignFails /\ ~Check /\ ~SettleCli
  BY DEF PlanApi, Proceed, Skip, SignOne, SignCommitted, SignDelivers, SignFails, Check, SettleCli
<1>2. \A i \in Inputs : ~Edit(i) /\ ~Replace(i)
  BY DEF Edit, Replace, Touch
<1>3. ~UNCHANGED vars
  BY DEF vars
<1> QED BY <1>1, <1>2, <1>3 DEF Next, Loop

\* A batch that ends names what is left of it.
LEMMA LeftoverStep ==
  ASSUME IInv, IInv', LeftoverIsNamed, [Next]_vars
  PROVE  LeftoverIsNamed'
<1>a. /\ at \in Nat /\ Inputs \subseteq Nat /\ N \in Nat /\ at \in 1..(N + 1) /\ written \subseteq Inputs
      /\ misled \subseteq written
      /\ job.front \in {"api", "cli"} /\ \A i \in Inputs : i <= N
  BY BatchAssumption DEF IInv, TypeOK, Inputs, Jobs
<1>b. ASSUME pc # "over", pc' = "over",
             \A i \in Inputs : /\ \/ i \in written' <=> i \in Reported' \/ Blamed(i)' \in PostSign
                                  \/ i \in written' /\ i \in misled'
                               /\ i \in misled' => Blamed(i)' = "error"
                               /\ Blamed(i)' = "failed" /\ ~Overtaken(i)' => ~disk'[out(i)'].sound
      PROVE  LeftoverIsNamed'
  <2>1. misled' \subseteq written'
    BY DEF IInv, TypeOK
  <2> QED BY <1>b, <2>1 DEF LeftoverIsNamed
<1>1. CASE pc' # "over"
  BY <1>1 DEF LeftoverIsNamed
<1>2. CASE pc = "over"
  <2>1. UNCHANGED vars
    BY <1>2, OverIsOver
  <2> QED BY <2>1 DEF LeftoverIsNamed, vars, Reported, Blamed, Overtaken, out
<1>3. CASE pc # "over" /\ pc' = "over" /\ (Refuse \/ \E unreadable \in SUBSET Inputs : PlanCli(unreadable))
  <2>1. /\ pc = "plan" /\ UNCHANGED <<report, written, misled, job>>
        /\ answer'.cause \in {"error", "none"}
    <3>1. Answer("refused", 0, "error", FALSE) \/ Answer("dry", 0, "none", FALSE)
      BY <1>3 DEF Refuse, PlanCli
    <3>2. pc = "plan" /\ UNCHANGED <<report, written, misled, job>>
      BY <1>3 DEF Refuse, PlanCli
    <3> QED BY <3>1, <3>2, AnswerSays
  <2>2. written = {} /\ misled = {} /\ \A i \in Inputs : report[i] = NoReport
    BY <1>a, <2>1 DEF IInv, PlanInv, ToldInv, Inputs
  <2>3. \A i \in Inputs : i \notin Reported' /\ Blamed(i)' \in {"none", "error"}
    BY <2>1, <2>2 DEF Reported, Blamed, NoReport
  <2> QED BY <1>b, <1>3, <2>1, <2>2, <2>3 DEF PostSign
<1>4. CASE pc # "over" /\ pc' = "over" /\ (Halt \/ FinishApi)
  <2>1. /\ pc = "next" /\ job.front = "api" /\ UNCHANGED <<report, written, misled, job, at>>
        /\ answer'.cause \in {"callback", "none"}
    BY <1>4 DEF Halt, FinishApi, Answer
  <2>0. misled = {}
    BY <2>1 DEF IInv, MisledInv
  <2>2. ASSUME NEW i \in Inputs PROVE i \in written <=> report[i].status \in {"ok", "signed"}
    <3>1. report[i].status = "ok" \/ report[i] = NoReport
      BY <2>1 DEF IInv, ToldInv
    <3> QED BY <2>0, <2>1, <3>1 DEF IInv, ToldInv, LoopInv, NoReport, PostSign
  <2>3. \A i \in Inputs : /\ i \in Reported' <=> report[i].status \in {"ok", "signed"}
                          /\ Blamed(i)' \in {"none", "callback"}
    BY <2>1 DEF Reported, Blamed
  <2> QED BY <1>b, <1>4, <2>0, <2>1, <2>2, <2>3 DEF PostSign
<1>5. CASE pc # "over" /\ pc' = "over" /\ SettleApi
  <2>1. /\ pc = "settle" /\ job.front = "api" /\ at \in Inputs /\ UNCHANGED <<disk, written, misled, job, at>>
        /\ fate \in {"error"} \cup Committed
        /\ (at \in written <=> fate \in Committed \/ at \in misled)
        /\ answer'.index = at /\ answer'.cause = IF fate = "done" THEN "callback" ELSE fate
    <3>1. \E raised \in BOOLEAN : Answer("stopped", at, IF fate = "done" THEN "callback" ELSE fate, raised)
      BY <1>5 DEF SettleApi
    <3> QED BY <1>5, <3>1 DEF SettleApi, Answer, IInv, LoopInv, TypeOK
  <2>0. misled \subseteq {at} /\ (at \in misled => fate = "error")
    BY <1>a, <2>1 DEF IInv, MisledInv
  <2>2. \A i \in Inputs \ {at} : report'[i] = report[i]
    <3>1. job.verify \in BOOLEAN /\ report \in [Inputs -> ReportTypes]
      BY DEF IInv, TypeOK, Jobs, ReportTypes
    <3> QED BY <1>5, <2>1, <3>1 DEF SettleApi, Report
  <2>3. ASSUME NEW i \in Inputs \ {at} PROVE /\ i \in written' <=> i \in Reported' \/ Blamed(i)' \in PostSign
                                             /\ Blamed(i)' # "failed"
    <3>1. report[i].status = "ok" \/ report[i] = NoReport
      BY <2>1 DEF IInv, ToldInv
    <3>2. i \in written <=> report[i].status \in {"ok", "signed"}
      BY <2>0, <2>1, <2>3, <3>1 DEF IInv, ToldInv, NoReport, PostSign
    <3>3. Blamed(i)' = "none"
      BY <2>1, <2>3 DEF Blamed
    <3> QED BY <2>1, <2>2, <3>2, <3>3 DEF Reported, PostSign
  <2>4. CASE fate \in {"done", "committed"}
    <3>1. report'[at].status \in {"ok", "signed"}
      <4>1. \E verified \in BOOLEAN : Report(IF fate = "done" THEN "ok" ELSE "signed", verified)
        <5>1. (fate = "done" /\ job.verify) \in BOOLEAN
          OBVIOUS
        <5> QED BY <1>5, <2>4, <5>1 DEF SettleApi
      <4>2. report \in [Inputs -> ReportTypes]
        BY DEF IInv, TypeOK, ReportTypes
      <4>3. PICK status \in {"ok", "signed"}, verified \in BOOLEAN : Report(status, verified)
        BY <4>1
      <4> QED BY <2>1, <4>2, <4>3, ReportTyped DEF Statuses
    <3>2. at \in Reported' /\ at \in written'
      BY <2>1, <2>4, <3>1 DEF Reported, Committed
    <3>3. Blamed(at)' \in {"callback", "committed"}
      BY <2>1, <2>4 DEF Blamed
    <3>4. /\ at \in written' <=> at \in Reported' \/ Blamed(at)' \in PostSign
          /\ Blamed(at)' # "failed"
      BY <3>2, <3>3
    <3>5. misled' = {}
      BY <2>0, <2>1, <2>4
    <3> QED BY <1>b, <1>5, <2>1, <2>3, <3>4, <3>5
  <2>5. CASE fate \notin {"done", "committed"}
    <3>1. UNCHANGED report
      BY <1>5, <2>5 DEF SettleApi
    <3>2. report[at] = NoReport
      BY <1>a, <2>1 DEF IInv, ToldInv
    <3>3. Blamed(at)' = fate /\ at \notin Reported'
      BY <2>1, <2>5, <3>1, <3>2 DEF Blamed, Reported, NoReport
    <3>4. /\ \/ at \in written' <=> Blamed(at)' \in PostSign
             \/ at \in written' /\ at \in misled'
          /\ at \in misled' => Blamed(at)' = "error"
      BY <2>0, <2>1, <2>5, <3>3 DEF Committed, PostSign
    <3>5. ASSUME fate = "failed", ~Overtaken(at)' PROVE ~disk'[out(at)'].sound
      <4>1. at \in written /\ ~Overtaken(at) /\ Said(at) = "failed"
        BY <2>1, <3>5 DEF Committed, PostSign, Overtaken, out, Said
      <4> QED BY <2>1, <4>1 DEF IInv, OutputInv, Stands, out
    <3> QED BY <1>b, <1>5, <2>0, <2>1, <2>3, <3>3, <3>4, <3>5
  <2> QED BY <2>4, <2>5
<1>6. CASE pc # "over" /\ pc' = "over" /\ FinishCli
  <2>1. /\ job'.front = "cli" /\ at' = N + 1 /\ UNCHANGED <<job, misled>>
    BY <1>6 DEF FinishCli
  <2>2. ASSUME NEW i \in Inputs
        PROVE  /\ Blamed(i)' = report'[i].status /\ i # at'
               /\ i \in Reported' <=> report'[i].status \in {"ok", "signed"}
    BY <1>a, <2>1 DEF Blamed, Reported
  <2>3. ASSUME NEW i \in Inputs
        PROVE  \/ i \in written' <=> report'[i].status \in {"ok", "signed"} \cup PostSign
               \/ i \in written' /\ i \in misled'
    BY <2>2 DEF IInv, ToldInv
  <2>0. ASSUME NEW i \in Inputs, i \in misled' PROVE report'[i].status = "error"
    <3>1. pc = "next" /\ i \in misled /\ report' = [k \in Inputs |->
            IF k \in undetected THEN [status |-> "error", verified |-> FALSE] ELSE report[k]]
      BY <1>6, <2>0, <2>1 DEF FinishCli
    <3>2. report[i].status = "error"
      BY <3>1 DEF IInv, MisledInv
    <3> QED BY <3>1, <3>2
  <2>4. ASSUME NEW i \in Inputs, report'[i].status = "failed", ~Overtaken(i)' PROVE ~disk'[out(i)'].sound
    <3>1. i \in written' /\ Said(i)' = "failed"
      BY <2>2, <2>4 DEF Said, PostSign, IInv, ToldInv
    <3> QED BY <2>4, <3>1 DEF IInv, OutputInv, Stands
  <2> QED BY <1>b, <1>6, <2>0, <2>2, <2>3, <2>4
<1> QED BY <1>1, <1>2, <1>3, <1>4, <1>5, <1>6, Endings

\* When the batch is over, what was written is reported or blamed, but for what a signing
\* delivered and then failed on, which is called an error; and a signature that was found bad is
\* the one that is said to be (errors.py BatchSignError, PostSignVerificationError).
THEOREM LeftoversAreNamed == Spec => []LeftoverIsNamed
<1>1. Init => LeftoverIsNamed
  BY DEF Init, LeftoverIsNamed
<1>2. IInv /\ IInv' /\ LeftoverIsNamed /\ [Next]_vars => LeftoverIsNamed'
  BY LeftoverStep
<1> QED BY <1>1, <1>2, Invariance, PTL DEF Spec

\* A batch that ends well has signed, and checked, every input.
LEMMA SuccessStep ==
  ASSUME IInv, IInv', SuccessMeansAll, [Next]_vars
  PROVE  SuccessMeansAll'
<1>a. /\ Inputs \subseteq Nat /\ N \in Nat /\ \A i \in Inputs : i < N + 1
      /\ job.front \in {"api", "cli"}
  BY BatchAssumption DEF IInv, TypeOK, Inputs, Jobs
<1>b. ASSUME pc = "next", at = N + 1, pc' = "over", UNCHANGED <<job, disk, at, written, checked>>,
             \A i \in Inputs : report'[i].status = "ok", NEW i \in Inputs
      PROVE  /\ i \in written' /\ (job'.verify => i \in checked')
             /\ ~Overtaken(i)' => disk'[out(i)'].file = <<"output", i>> /\ disk'[out(i)'].mode = "final"
  <2>1. i \in written' /\ (job'.verify => i \in checked')
    BY <1>b DEF IInv, ToldInv
  <2>2. Said(i)' = "ok"
    BY <1>b DEF Said
  <2> QED BY <2>1, <2>2 DEF IInv, OutputInv, Stands
<1>1. CASE pc' # "over"
  <2>1. answer' = NoAnswer
    BY <1>1 DEF IInv, PlanInv
  <2>2. answer'.kind = "none"
    BY <2>1 DEF NoAnswer
  <2> QED BY <2>2 DEF SuccessMeansAll
<1>2. CASE pc = "over"
  <2>1. UNCHANGED vars
    BY <1>2, OverIsOver
  <2> QED BY <2>1 DEF SuccessMeansAll, vars, Overtaken, out
<1>3. CASE pc # "over" /\ (Refuse \/ Halt \/ SettleApi \/ \E unreadable \in SUBSET Inputs : PlanCli(unreadable))
  <2>1. pc' = "over" => answer'.kind \in {"refused", "dry", "cancelled", "stopped"}
    <3>1. pc' = "over" => \E kind \in {"refused", "dry", "cancelled", "stopped"} :
                            \E index, cause, callback : Answer(kind, index, cause, callback)
      BY <1>3 DEF Refuse, Halt, SettleApi, PlanCli
    <3> QED BY <3>1, AnswerSays
  <2> QED BY <1>1, <2>1 DEF SuccessMeansAll
<1>4. CASE FinishApi
  <2>1. /\ pc = "next" /\ at = N + 1 /\ pc' = "over" /\ answer'.kind = "list" /\ job.front = "api"
        /\ UNCHANGED <<job, disk, at, report, written, checked>>
    BY <1>4 DEF FinishApi, Answer
  <2>2. \A i \in Inputs : report'[i].status = "ok"
    BY <1>a, <2>1 DEF IInv, PlanInv, ToldInv
  <2> QED BY <1>b, <2>1, <2>2 DEF SuccessMeansAll
<1>5. CASE FinishCli
  <2>1. /\ pc = "next" /\ at = N + 1 /\ pc' = "over" /\ job.front = "cli"
        /\ UNCHANGED <<job, disk, at, undetected, written, checked>>
        /\ report' = [i \in Inputs |-> IF i \in undetected THEN [status |-> "error", verified |-> FALSE] ELSE report[i]]
        /\ answer'.kind = IF \A i \in Inputs : report'[i].status = "ok" THEN "exit 0" ELSE "exit 1"
    BY <1>5 DEF FinishCli, Answer
  <2>2. \A i \in Inputs : report'[i].status # "none"
    <3>1. ASSUME NEW i \in Inputs PROVE report'[i].status # "none"
      <4>1. CASE i \in undetected
        BY <2>1, <4>1
      <4>2. CASE i \notin undetected
        <5>1. report'[i] = report[i] /\ report[i].status \in {"ok", "signed", "error"} \cup PostSign
          BY <1>a, <2>1, <4>2 DEF IInv, ToldInv
        <5> QED BY <5>1 DEF PostSign
      <4> QED BY <4>1, <4>2
    <3> QED BY <3>1
  <2>3. CASE \A i \in Inputs : report'[i].status = "ok"
    BY <1>b, <2>1, <2>2, <2>3 DEF SuccessMeansAll
  <2>4. CASE ~\A i \in Inputs : report'[i].status = "ok"
    BY <2>1, <2>2, <2>4 DEF SuccessMeansAll
  <2> QED BY <2>3, <2>4
<1> QED BY <1>1, <1>2, <1>3, <1>4, <1>5, Endings

\* A list, or exit 0, means that every input was signed and passed the check asked for.
THEOREM SuccessIsComplete == Spec => []SuccessMeansAll
<1>1. Init => SuccessMeansAll
  BY DEF Init, SuccessMeansAll, NoAnswer
<1>2. IInv /\ IInv' /\ SuccessMeansAll /\ [Next]_vars => SuccessMeansAll'
  BY SuccessStep
<1> QED BY <1>1, <1>2, Invariance, PTL DEF Spec

=============================================================================
