------------------------ MODULE StagedOutput_proofs ------------------------
(***************************************************************************)
(* Theorems about the staged writer, for every set of writers, of files,   *)
(* of access controls and of faults; among them that with hard links its   *)
(* system calls implement the contract of AtomicOutput.                    *)
(***************************************************************************)
EXTENDS StagedRefinement, TLAPS

LEMMA InodeOf == \A w \in Writers : Stage(w) \in Inode /\ Holder(w) \in Inode
  BY DEF Stage, Holder, Inode

LEMMA EnvInode == \A e \in EnvFiles : <<"env", e>> \in Inode
  BY DEF Inode

LEMMA FreshAccessType == FreshAccess \in Access
  BY AccessAssumption DEF FreshAccess, Access

LEMMA RuleType ==
  \A o \in Owners, m \in Modes, c \in Acls : Rule(o, m, c) \in Access
  BY DEF Access, Rule

LEMMA AccessFields ==
  \A a \in Access : a.own \in Owners /\ a.mode \in Modes /\ a.acl \in Acls
  BY DEF Access

USE DEF Go, Raise, Ends, Refuse, Restamp, PointAt, CloseTarget, KeepCapture, KeepPath, KeepEnd,
        KeepInodes, KeepFiles

LEMMA InitType == Init => TypeOK
  BY WritersAssumption, EnvironmentAssumption, FreshAccessType
     DEF Init, TypeOK, Steps, Outcomes, Contents

LEMMA WriteStepType ==
  ASSUME TypeOK, ControlInv, NEW w \in Writers, WriteStep(w)
  PROVE  TypeOK'
<1> USE InodeOf, FreshAccessType, AccessAssumption, WritersAssumption
        DEF TypeOK, Steps, Outcomes, Contents
<1>1. CASE CreateStaging(w)
  BY <1>1 DEF CreateStaging
<1>2. CASE CreateFails(w)
  BY <1>2 DEF CreateFails
<1>3. CASE Narrow(w)
  BY <1>3, RuleType, AccessFields DEF Narrow, Chmod, SetAccess
<1>4. CASE Write(w)
  BY <1>4 DEF Write
<1>5. CASE Flush(w)
  BY <1>5 DEF Flush
<1> QED BY <1>1, <1>2, <1>3, <1>4, <1>5 DEF WriteStep

LEMMA AdoptStepType ==
  ASSUME TypeOK, ControlInv, NEW w \in Writers, AdoptStep(w)
  PROVE  TypeOK'
<1> USE InodeOf, FreshAccessType, AccessAssumption, WritersAssumption
        DEF TypeOK, Steps, Outcomes, Contents
<1>1. CASE OpenTarget(w)
  <2>1. attempt' \in [Writers -> 0..Attempts]
    BY <1>1 DEF OpenTarget
  <2>2. fd' \in [Writers -> Inode \cup {Nothing}]
    BY <1>1 DEF OpenTarget
  <2>3. /\ replaced' \in [Writers -> Access \cup {NoAccess}]
        /\ disturbed' \in [Writers -> BOOLEAN]
        /\ pc' \in [Writers -> Steps]
        /\ seen' = seen /\ since' = since
    BY <1>1 DEF OpenTarget, NothingToAdopt
  <2> QED BY <1>1, <2>1, <2>2, <2>3 DEF OpenTarget
<1>2. CASE GiveUp(w)
  BY <1>2 DEF GiveUp
<1>3. CASE Fstat(w)
  BY <1>3 DEF Fstat, NothingToAdopt, ControlInv, Capturing
<1>4. CASE GetAcl(w)
  BY <1>4, RuleType, AccessFields DEF GetAcl, ControlInv, Capturing
<1>5. CASE Refstat(w)
  <2>1. CASE Unmoved(w)
    BY <1>5, <2>1 DEF Refstat
  <2>2. CASE ~Unmoved(w)
    BY <1>5, <2>2 DEF Refstat, Moved
  <2> QED BY <2>1, <2>2
<1>6. CASE Lstat(w)
  BY <1>6 DEF Lstat, Moved, ControlInv, Capturing
<1>7. CASE Chown(w)
  BY <1>7, RuleType, AccessFields DEF Chown, SetAccess, ControlInv, Capturing
<1>8. CASE ChownRefused(w)
  BY <1>8 DEF ChownRefused
<1>9. CASE SetAcl(w)
  BY <1>9, RuleType, AccessFields DEF SetAcl, SetAccess, ControlInv, Capturing
<1> QED BY <1>1, <1>2, <1>3, <1>4, <1>5, <1>6, <1>7, <1>8, <1>9 DEF AdoptStep

LEMMA CommitStepType ==
  ASSUME TypeOK, ControlInv, NEW w \in Writers, CommitStep(w)
  PROVE  TypeOK'
<1> USE InodeOf, FreshAccessType, AccessAssumption, WritersAssumption
        DEF TypeOK, Steps, Outcomes, Contents
<1>1. CASE Renarrow(w)
  BY <1>1, RuleType, AccessFields DEF Renarrow, Chmod, SetAccess
<1>2. CASE Rename(w)
  BY <1>2 DEF Rename, PutInPlace
<1>3. CASE Link(w)
  BY <1>3 DEF Link, PutInPlace
<1>4. CASE CannotLink(w)
  BY <1>4 DEF CannotLink
<1>5. CASE NameTaken(w)
  BY <1>5 DEF NameTaken
<1>6. CASE Discard(w)
  BY <1>6 DEF Discard
<1>7. CASE DiscardFails(w)
  BY <1>7 DEF DiscardFails
<1>8. CASE Reserve(w)
  BY <1>8, RuleType, AccessFields DEF Reserve
<1>9. CASE RenameOver(w)
  BY <1>9 DEF RenameOver, PutInPlace
<1>10. CASE RenameOverFails(w)
  BY <1>10 DEF RenameOverFails
<1>11. CASE SameStat(w)
  BY <1>11 DEF SameStat
<1>12. CASE Unreserve(w)
  BY <1>12 DEF Unreserve
<1>15. CASE UnreserveFails(w)
  BY <1>15 DEF UnreserveFails
<1>13. CASE Publish(w)
  BY <1>13, RuleType, AccessFields DEF Publish, Chmod, SetAccess
<1>14. CASE PublishFails(w)
  BY <1>14 DEF PublishFails
<1> QED BY <1>1, <1>2, <1>3, <1>4, <1>5, <1>6, <1>7, <1>8, <1>9, <1>10, <1>11, <1>12, <1>13,
           <1>14, <1>15 DEF CommitStep

LEMMA ExitStepType ==
  ASSUME TypeOK, ControlInv, NEW w \in Writers, ExitStep(w)
  PROVE  TypeOK'
<1> USE InodeOf, FreshAccessType, AccessAssumption, WritersAssumption
        DEF TypeOK, Steps, Outcomes, Contents
<1>1. CASE Cleanup(w)
  BY <1>1 DEF Cleanup
<1>2. CASE CleanupFails(w)
  BY <1>2 DEF CleanupFails
<1>3. CASE CallFails(w)
  BY <1>3 DEF CallFails
<1>4. CASE AdoptFails(w)
  BY <1>4 DEF AdoptFails
<1> QED BY <1>1, <1>2, <1>3, <1>4 DEF ExitStep

LEMMA InterruptType ==
  ASSUME TypeOK, NEW w \in Writers, Stopped(w)
  PROVE  TypeOK'
<1> USE FreshAccessType, InodeOf DEF TypeOK, Steps, Outcomes, Contents
<1>1. CASE Interrupt(w)
  BY <1>1 DEF Interrupt
<1>2. CASE InterruptUnguarded(w)
  BY <1>2 DEF InterruptUnguarded
<1>3. CASE Kill(w)
  BY <1>3 DEF Kill
<1> QED BY <1>1, <1>2, <1>3 DEF Stopped

LEMMA EnvStepType ==
  ASSUME TypeOK, EnvStep
  PROVE  TypeOK'
<1> USE EnvInode, AccessAssumption, EnvironmentAssumption DEF TypeOK, Contents, local
<1>1. CASE EnvCreate
  BY <1>1 DEF EnvCreate, EnvPut
<1>2. CASE EnvReplace
  BY <1>2 DEF EnvReplace, EnvPut
<1>3. CASE EnvRemove
  BY <1>3 DEF EnvRemove
<1>4. CASE EnvAside
  BY <1>4 DEF EnvAside
<1>5. CASE EnvRewrite
  BY <1>5 DEF EnvRewrite
<1> QED BY <1>1, <1>2, <1>3, <1>4, <1>5 DEF EnvStep

LEMMA WriteStepControl ==
  ASSUME TypeOK, ControlInv, NEW w \in Writers, WriteStep(w)
  PROVE  ControlInv'
<1> USE NullAssumption DEF TypeOK, ControlInv, Capturing, Linking, Reserving
<1>1. CASE CreateStaging(w)
  BY <1>1 DEF CreateStaging
<1>2. CASE CreateFails(w)
  BY <1>2 DEF CreateFails
<1>3. CASE Narrow(w)
  BY <1>3 DEF Narrow, Chmod, SetAccess
<1>4. CASE Write(w)
  BY <1>4 DEF Write
<1>5. CASE Flush(w)
  BY <1>5 DEF Flush
<1> QED BY <1>1, <1>2, <1>3, <1>4, <1>5 DEF WriteStep

LEMMA AdoptStepControl ==
  ASSUME TypeOK, ControlInv, NEW w \in Writers, AdoptStep(w)
  PROVE  ControlInv'
<1> USE NullAssumption DEF TypeOK, ControlInv, Capturing, Linking, Reserving
<1>1. CASE OpenTarget(w)
  BY <1>1 DEF OpenTarget, NothingToAdopt
<1>2. CASE GiveUp(w)
  BY <1>2 DEF GiveUp
<1>3. CASE Fstat(w)
  BY <1>3 DEF Fstat, NothingToAdopt
<1>4. CASE GetAcl(w)
  BY <1>4 DEF GetAcl
<1>5. CASE Refstat(w)
  BY <1>5 DEF Refstat, Unmoved, Moved
<1>6. CASE Lstat(w)
  BY <1>6 DEF Lstat, Moved
<1>7. CASE Chown(w)
  BY <1>7 DEF Chown, SetAccess
<1>8. CASE ChownRefused(w)
  BY <1>8 DEF ChownRefused
<1>9. CASE SetAcl(w)
  BY <1>9 DEF SetAcl, SetAccess
<1> QED BY <1>1, <1>2, <1>3, <1>4, <1>5, <1>6, <1>7, <1>8, <1>9 DEF AdoptStep

LEMMA CommitStepControl ==
  ASSUME TypeOK, ControlInv, NEW w \in Writers, CommitStep(w)
  PROVE  ControlInv'
<1> USE NullAssumption DEF TypeOK, ControlInv, Capturing, Linking, Reserving
<1>1. CASE Renarrow(w)
  BY <1>1 DEF Renarrow, Chmod, SetAccess
<1>2. CASE Rename(w)
  BY <1>2 DEF Rename, PutInPlace
<1>3. CASE Link(w)
  BY <1>3 DEF Link, PutInPlace
<1>4. CASE CannotLink(w)
  BY <1>4 DEF CannotLink
<1>5. CASE NameTaken(w)
  BY <1>5 DEF NameTaken
<1>6. CASE Discard(w)
  BY <1>6 DEF Discard
<1>7. CASE DiscardFails(w)
  BY <1>7 DEF DiscardFails
<1>8. CASE Reserve(w)
  BY <1>8 DEF Reserve
<1>9. CASE RenameOver(w)
  BY <1>9 DEF RenameOver, PutInPlace
<1>10. CASE RenameOverFails(w)
  BY <1>10 DEF RenameOverFails
<1>11. CASE SameStat(w)
  BY <1>11 DEF SameStat
<1>12. CASE Unreserve(w)
  BY <1>12 DEF Unreserve
<1>15. CASE UnreserveFails(w)
  BY <1>15 DEF UnreserveFails
<1>13. CASE Publish(w)
  BY <1>13 DEF Publish, Chmod, SetAccess
<1>14. CASE PublishFails(w)
  BY <1>14 DEF PublishFails
<1> QED BY <1>1, <1>2, <1>3, <1>4, <1>5, <1>6, <1>7, <1>8, <1>9, <1>10, <1>11, <1>12, <1>13,
           <1>14, <1>15 DEF CommitStep

LEMMA ExitStepControl ==
  ASSUME TypeOK, ControlInv, NEW w \in Writers, ExitStep(w)
  PROVE  ControlInv'
<1> USE NullAssumption DEF TypeOK, ControlInv, Capturing, Linking, Reserving
<1>1. CASE Cleanup(w)
  BY <1>1 DEF Cleanup
<1>2. CASE CleanupFails(w)
  BY <1>2 DEF CleanupFails
<1>3. CASE CallFails(w)
  BY <1>3 DEF CallFails
<1>4. CASE AdoptFails(w)
  BY <1>4 DEF AdoptFails
<1> QED BY <1>1, <1>2, <1>3, <1>4 DEF ExitStep

LEMMA InterruptControl ==
  ASSUME TypeOK, ControlInv, NEW w \in Writers, Stopped(w)
  PROVE  ControlInv'
<1> USE DEF TypeOK, ControlInv, Capturing, Linking, Reserving
<1>1. CASE Interrupt(w)
  BY <1>1 DEF Interrupt
<1>2. CASE InterruptUnguarded(w)
  BY <1>2 DEF InterruptUnguarded
<1>3. CASE Kill(w)
  BY <1>3 DEF Kill
<1> QED BY <1>1, <1>2, <1>3 DEF Stopped

LEMMA EnvStepControl ==
  ASSUME ControlInv, EnvStep
  PROVE  ControlInv'
  BY DEF ControlInv, EnvStep, EnvCreate, EnvReplace, EnvRemove, EnvAside, EnvRewrite, local

LEMMA Distinct ==
  /\ \A v, w \in Writers : Stage(v) = Stage(w) => v = w
  /\ \A v, w \in Writers : Holder(v) = Holder(w) => v = w
  /\ \A v, w \in Writers : Stage(v) # Holder(w)
  /\ \A w \in Writers, e \in EnvFiles : Stage(w) # <<"env", e>> /\ Holder(w) # <<"env", e>>
  /\ \A w \in Writers : Stage(w) # Nothing /\ Holder(w) # Nothing
<1>1. \A w \in Writers : Stage(w) # Nothing /\ Holder(w) # Nothing
  BY InodeOf, NullAssumption
<1> QED BY <1>1 DEF Stage, Holder

LEMMA RuleMode == \A o, m, c : Rule(o, m, c).mode = m
  BY DEF Rule

LEMMA WriteStepData ==
  ASSUME TypeOK, ControlInv, DataInv, NEW w \in Writers, WriteStep(w)
  PROVE  DataInv'
<1> USE InodeOf, Distinct, RuleMode
        DEF TypeOK, ControlInv, DataInv, AllWritten, Ready, Capturing, Linking
<1>1. CASE CreateStaging(w)
  BY <1>1 DEF CreateStaging
<1>2. CASE CreateFails(w)
  BY <1>2 DEF CreateFails
<1>3. CASE Narrow(w)
  BY <1>3 DEF Narrow, Chmod, SetAccess
<1>4. CASE Write(w)
  BY <1>4 DEF Write
<1>5. CASE Flush(w)
  BY <1>5 DEF Flush
<1> QED BY <1>1, <1>2, <1>3, <1>4, <1>5 DEF WriteStep

LEMMA AdoptStepData ==
  ASSUME TypeOK, ControlInv, DataInv, NEW w \in Writers, AdoptStep(w)
  PROVE  DataInv'
<1> USE InodeOf, Distinct, RuleMode
        DEF TypeOK, ControlInv, DataInv, AllWritten, Ready, Capturing, Linking
<1>1. CASE OpenTarget(w)
  BY <1>1 DEF OpenTarget, NothingToAdopt
<1>2. CASE GiveUp(w)
  BY <1>2 DEF GiveUp
<1>3. CASE Fstat(w)
  BY <1>3 DEF Fstat, NothingToAdopt
<1>4. CASE GetAcl(w)
  BY <1>4 DEF GetAcl
<1>5. CASE Refstat(w)
  BY <1>5 DEF Refstat, Unmoved, Moved
<1>6. CASE Lstat(w)
  BY <1>6 DEF Lstat, Moved
<1>7. CASE Chown(w)
  BY <1>7 DEF Chown, SetAccess
<1>8. CASE ChownRefused(w)
  BY <1>8 DEF ChownRefused
<1>9. CASE SetAcl(w)
  BY <1>9 DEF SetAcl, SetAccess
<1> QED BY <1>1, <1>2, <1>3, <1>4, <1>5, <1>6, <1>7, <1>8, <1>9 DEF AdoptStep

LEMMA CommitStepData ==
  ASSUME TypeOK, ControlInv, DataInv, NEW w \in Writers, CommitStep(w)
  PROVE  DataInv'
<1> USE InodeOf, Distinct, RuleMode
        DEF TypeOK, ControlInv, DataInv, AllWritten, Ready, Capturing, Linking
<1>1. CASE Renarrow(w)
  BY <1>1 DEF Renarrow, Chmod, SetAccess
<1>2. CASE Rename(w)
  BY <1>2 DEF Rename, PutInPlace
<1>3. CASE Link(w)
  BY <1>3 DEF Link, PutInPlace
<1>4. CASE CannotLink(w)
  BY <1>4 DEF CannotLink
<1>5. CASE NameTaken(w)
  BY <1>5 DEF NameTaken
<1>6. CASE Discard(w)
  BY <1>6 DEF Discard
<1>7. CASE DiscardFails(w)
  BY <1>7 DEF DiscardFails
<1>8. CASE Reserve(w)
  BY <1>8 DEF Reserve
<1>9. CASE RenameOver(w)
  BY <1>9 DEF RenameOver, PutInPlace
<1>10. CASE RenameOverFails(w)
  BY <1>10 DEF RenameOverFails
<1>11. CASE SameStat(w)
  BY <1>11 DEF SameStat
<1>12. CASE Unreserve(w)
  BY <1>12 DEF Unreserve
<1>15. CASE UnreserveFails(w)
  BY <1>15 DEF UnreserveFails
<1>13. CASE Publish(w)
  BY <1>13 DEF Publish, Chmod, SetAccess
<1>14. CASE PublishFails(w)
  BY <1>14 DEF PublishFails
<1> QED BY <1>1, <1>2, <1>3, <1>4, <1>5, <1>6, <1>7, <1>8, <1>9, <1>10, <1>11, <1>12, <1>13,
           <1>14, <1>15 DEF CommitStep

LEMMA ExitStepData ==
  ASSUME TypeOK, ControlInv, DataInv, NEW w \in Writers, ExitStep(w)
  PROVE  DataInv'
<1> USE InodeOf, Distinct, RuleMode
        DEF TypeOK, ControlInv, DataInv, AllWritten, Ready, Capturing, Linking
<1>1. CASE Cleanup(w)
  BY <1>1 DEF Cleanup
<1>2. CASE CleanupFails(w)
  BY <1>2 DEF CleanupFails
<1>3. CASE CallFails(w)
  BY <1>3 DEF CallFails
<1>4. CASE AdoptFails(w)
  BY <1>4 DEF AdoptFails
<1> QED BY <1>1, <1>2, <1>3, <1>4 DEF ExitStep

LEMMA InterruptData ==
  ASSUME TypeOK, ControlInv, DataInv, NEW w \in Writers, Stopped(w)
  PROVE  DataInv'
<1> USE InodeOf, Distinct DEF TypeOK, ControlInv, DataInv, AllWritten, Ready, Capturing, Linking
<1>1. CASE Interrupt(w)
  BY <1>1 DEF Interrupt
<1>2. CASE InterruptUnguarded(w)
  BY <1>2 DEF InterruptUnguarded
<1>3. CASE Kill(w)
  BY <1>3 DEF Kill
<1> QED BY <1>1, <1>2, <1>3 DEF Stopped

LEMMA EnvStepData ==
  ASSUME TypeOK, DataInv, EnvStep
  PROVE  DataInv'
<1> USE InodeOf, Distinct, EnvInode DEF TypeOK, DataInv, AllWritten, Ready, local
<1>1. CASE EnvCreate
  BY <1>1 DEF EnvCreate, EnvPut
<1>2. CASE EnvReplace
  BY <1>2 DEF EnvReplace, EnvPut
<1>3. CASE EnvRemove
  BY <1>3 DEF EnvRemove
<1>4. CASE EnvAside
  BY <1>4 DEF EnvAside
<1>5. CASE EnvRewrite
  BY <1>5 DEF EnvRewrite
<1> QED BY <1>1, <1>2, <1>3, <1>4, <1>5 DEF EnvStep

LEMMA TypeStep ==
  ASSUME TypeOK, ControlInv, [Next]_vars
  PROVE  TypeOK'
<1>1. ASSUME NEW w \in Writers, WriterStep(w)
      PROVE  TypeOK'
  BY <1>1, WriteStepType, AdoptStepType, CommitStepType, ExitStepType DEF WriterStep
<1>2. CASE UNCHANGED vars
  BY <1>2 DEF TypeOK, vars
<1> QED BY <1>1, <1>2, InterruptType, EnvStepType DEF Next

LEMMA ControlStep ==
  ASSUME TypeOK, ControlInv, [Next]_vars
  PROVE  ControlInv'
<1>1. ASSUME NEW w \in Writers, WriterStep(w)
      PROVE  ControlInv'
  BY <1>1, WriteStepControl, AdoptStepControl, CommitStepControl, ExitStepControl
     DEF WriterStep
<1>2. CASE UNCHANGED vars
  BY <1>2 DEF ControlInv, vars
<1> QED BY <1>1, <1>2, InterruptControl, EnvStepControl DEF Next

LEMMA DataStep ==
  ASSUME TypeOK, ControlInv, DataInv, [Next]_vars
  PROVE  DataInv'
<1>1. ASSUME NEW w \in Writers, WriterStep(w)
      PROVE  DataInv'
  BY <1>1, WriteStepData, AdoptStepData, CommitStepData, ExitStepData DEF WriterStep
<1>2. CASE UNCHANGED vars
  BY <1>2 DEF DataInv, vars
<1> QED BY <1>1, <1>2, InterruptData, EnvStepData DEF Next

\* Every state of the writer has the declared shape, and a writer only makes the calls
\* its kind of commit has, with what they need in hand.
THEOREM TypeCorrect == Spec => [](TypeOK /\ ControlInv)
<1>1. Init => TypeOK /\ ControlInv
  BY InitType DEF Init, ControlInv, Capturing, Linking, Reserving
<1>2. TypeOK /\ ControlInv /\ [Next]_vars => (TypeOK /\ ControlInv)'
  BY TypeStep, ControlStep
<1> QED BY <1>1, <1>2, PTL DEF Spec

LEMMA DataCorrect == Spec => []DataInv
<1>1. Init => DataInv
  <2>1. ASSUME Init, NEW w \in Writers PROVE Stage(w) \notin {at, aside}
    BY <2>1, Distinct DEF Init
  <2> QED BY <2>1 DEF Init, DataInv, AllWritten, Ready, Capturing, Linking
<1>2. TypeOK /\ ControlInv /\ DataInv /\ [Next]_vars => DataInv'
  BY DataStep
<1> QED BY <1>1, <1>2, TypeCorrect, PTL DEF Spec

\* Whatever other programs do and whatever fails, the path never leads to a document
\* that is not whole, nor to one others can read before the call's last step.
THEOREM AtPathWholeAndPrivate == Spec => []WholeAndPrivateAtPath
<1>1. DataInv => WholeAndPrivateAtPath
  BY DEF DataInv, WholeAndPrivateAtPath
<1> QED BY <1>1, DataCorrect, PTL

\* Whatever fails and whoever interrupts: unless an unlink of the call's own was refused, an
\* error other than OutputCommittedError means the document never was at the path.
THEOREM OutcomeIsTrue == Spec => []OutcomeTellsTruth
<1>1. Init => OutcomeTellsTruth
  BY DEF Init, OutcomeTellsTruth
<1>2. ASSUME TypeOK, ControlInv, DataInv, OutcomeTellsTruth, [Next]_vars
      PROVE  OutcomeTellsTruth'
  <2> USE <1>2 DEF TypeOK, ControlInv, DataInv, OutcomeTellsTruth, Capturing
  <2>1. ASSUME NEW w \in Writers, WriteStep(w) PROVE OutcomeTellsTruth'
    BY <2>1 DEF WriteStep, CreateStaging, CreateFails, Narrow, Write, Flush
  <2>2. ASSUME NEW w \in Writers, AdoptStep(w) PROVE OutcomeTellsTruth'
    BY <2>2 DEF AdoptStep, OpenTarget, GiveUp, Fstat, GetAcl, Refstat, Lstat, Chown,
                ChownRefused, SetAcl
  <2>3. ASSUME NEW w \in Writers, CommitStep(w) PROVE OutcomeTellsTruth'
    <3>1. CASE Rename(w) \/ Link(w) \/ RenameOver(w)
      BY <3>1 DEF Rename, Link, RenameOver, PutInPlace
    <3>2. CASE NameTaken(w) \/ RenameOverFails(w)
      BY <3>2 DEF NameTaken, RenameOverFails
    <3>3. CASE Publish(w) \/ PublishFails(w)
      BY <3>3 DEF Publish, PublishFails
    <3>4. CASE DiscardFails(w)
      BY <3>4 DEF DiscardFails
    <3>5. CASE Renarrow(w) \/ CannotLink(w) \/ Discard(w) \/ Reserve(w) \/ SameStat(w)
                 \/ Unreserve(w) \/ UnreserveFails(w)
      BY <3>5 DEF Renarrow, CannotLink, Discard, Reserve, SameStat, Unreserve, UnreserveFails
    <3> QED BY <2>3, <3>1, <3>2, <3>3, <3>4, <3>5 DEF CommitStep
  <2>4. ASSUME NEW w \in Writers, ExitStep(w) PROVE OutcomeTellsTruth'
    BY <2>4 DEF ExitStep, Cleanup, CleanupFails, CallFails, AdoptFails
  <2>5. ASSUME NEW w \in Writers, Stopped(w) PROVE OutcomeTellsTruth'
    BY <2>5 DEF Stopped, Interrupt, InterruptUnguarded, Kill
  <2>6. CASE EnvStep
    BY <2>6 DEF EnvStep, EnvCreate, EnvReplace, EnvRemove, EnvAside, EnvRewrite, local
  <2>7. CASE UNCHANGED vars
    BY <2>7 DEF vars
  <2> QED BY <2>1, <2>2, <2>3, <2>4, <2>5, <2>6, <2>7 DEF Next, WriterStep
<1> QED BY <1>1, <1>2, TypeCorrect, DataCorrect, PTL DEF Spec

-----------------------------------------------------------------------------
(* What a call leaves behind.                                                 *)

\* A reservation is at the path, never aside, while its writer may still take it back, or was
\* killed, cut short or refused the unlink; and a writer that has nothing more to unlink has
\* no staging file but for the last two reasons.
LeftInv ==
  \A w \in Writers :
    /\ aside # Holder(w)
    /\ at = Holder(w) =>
         /\ ~HardLinks
         /\ \/ pc[w] \in {"over", "samestat", "unreserve", "killed"}
            \/ pc[w] \in {"cleanup", "ended"} /\ (outcome[w] = "cut" \/ refused[w])
    /\ staged[w] => /\ pc[w] \notin {"create", "publish"}
                    /\ pc[w] = "ended" =>
                         outcome[w] = "cut" \/ (refused[w] /\ outcome[w] = "error")

LEMMA LeftStep ==
  ASSUME HardLinks \/ "aside" \notin EnvOps, TypeOK, ControlInv, LeftInv, [Next]_vars
  PROVE  LeftInv'
<1> USE Distinct DEF TypeOK, ControlInv, LeftInv, Capturing, Linking, Reserving
<1>1. ASSUME NEW w \in Writers, WriteStep(w) PROVE LeftInv'
  BY <1>1 DEF WriteStep, CreateStaging, CreateFails, Narrow, Write, Flush
<1>2. ASSUME NEW w \in Writers, AdoptStep(w) PROVE LeftInv'
  BY <1>2 DEF AdoptStep, OpenTarget, NothingToAdopt, GiveUp, Fstat, GetAcl, Refstat, Moved,
              Lstat, Chown, ChownRefused, SetAcl
<1>3. ASSUME NEW w \in Writers, CommitStep(w) PROVE LeftInv'
  <2>1. CASE Rename(w) \/ Link(w) \/ RenameOver(w)
    BY <2>1 DEF Rename, Link, RenameOver, PutInPlace
  <2>2. CASE Reserve(w)
    BY <2>2 DEF Reserve
  <2>3. CASE RenameOverFails(w) \/ SameStat(w) \/ Unreserve(w) \/ UnreserveFails(w)
    BY <2>3 DEF RenameOverFails, SameStat, Unreserve, UnreserveFails
  <2>4. CASE NameTaken(w) \/ CannotLink(w)
    BY <2>4 DEF NameTaken, CannotLink
  <2>5. CASE DiscardFails(w) \/ PublishFails(w)
    BY <2>5 DEF DiscardFails, PublishFails
  <2>6. CASE Renarrow(w) \/ Discard(w) \/ Publish(w)
    BY <2>6 DEF Renarrow, Discard, Publish
  <2> QED BY <1>3, <2>1, <2>2, <2>3, <2>4, <2>5, <2>6 DEF CommitStep
<1>4. ASSUME NEW w \in Writers, ExitStep(w) PROVE LeftInv'
  <2>1. CASE Cleanup(w) \/ CleanupFails(w)
    BY <2>1 DEF Cleanup, CleanupFails
  <2>2. CASE CallFails(w)
    BY <2>2 DEF CallFails
  <2>3. CASE AdoptFails(w)
    BY <2>3 DEF AdoptFails
  <2> QED BY <1>4, <2>1, <2>2, <2>3 DEF ExitStep
<1>5. ASSUME NEW w \in Writers, Interrupt(w) \/ InterruptUnguarded(w) PROVE LeftInv'
  BY <1>5 DEF Interrupt, InterruptUnguarded
<1>6. ASSUME NEW w \in Writers, Kill(w) PROVE LeftInv'
  BY <1>6 DEF Kill
<1>7. CASE EnvStep
  <2> USE DEF local
  <2>1. CASE EnvCreate \/ EnvReplace
    <3>1. /\ \E e \in EnvFiles : at' = <<"env", e>>
          /\ UNCHANGED <<aside, staged, pc, outcome, refused>>
      BY <2>1 DEF EnvCreate, EnvReplace, EnvPut
    <3> QED BY <3>1
  <2>2. CASE EnvRemove \/ EnvRewrite
    BY <2>2 DEF EnvRemove, EnvRewrite
  <2>3. CASE EnvAside
    BY <2>3, HardLinks \/ "aside" \notin EnvOps DEF EnvAside
  <2> QED BY <1>7, <2>1, <2>2, <2>3 DEF EnvStep
<1>8. CASE UNCHANGED vars
  BY <1>8 DEF vars
<1> QED BY <1>1, <1>2, <1>3, <1>4, <1>5, <1>6, <1>7, <1>8 DEF Next, WriterStep, Stopped

\* Where nothing can take a reservation away from under its writer (with hard links there
\* is none; without, no program renames the entry), a call that ended has left no
\* reservation and no staging file, but where the directory refused it an unlink or an
\* interrupt fell outside its handlers.
THEOREM LeavesNothing ==
  ASSUME HardLinks \/ "aside" \notin EnvOps
  PROVE  Spec => []NothingLeftBehind
<1>1. Init => LeftInv
  BY Distinct DEF Init, LeftInv
<1>2. TypeOK /\ ControlInv /\ LeftInv /\ [Next]_vars => LeftInv'
  BY LeftStep
<1>3. LeftInv => NothingLeftBehind
  BY DEF LeftInv, NothingLeftBehind
<1> QED BY <1>1, <1>2, <1>3, TypeCorrect, PTL DEF Spec

-----------------------------------------------------------------------------
(* What a staging file gives away, and what a published document gets.        *)

\* What of the state nobody but a writer itself changes.
Mine(w) == <<pc[w], fd[w], seen[w], replaced[w], outcome[w], committed[w], data[Stage(w)],
             access[Stage(w)]>>

LEMMA OthersLeaveMine ==
  ASSUME TypeOK, NEW v \in Writers, WriterStep(v) \/ Stopped(v),
         NEW w \in Writers, w # v
  PROVE  UNCHANGED Mine(w)
<1> USE InodeOf, Distinct DEF TypeOK, Mine
<1>1. CASE WriteStep(v)
  BY <1>1 DEF WriteStep, CreateStaging, CreateFails, Narrow, Write, Flush, Chmod, SetAccess
<1>2. CASE OpenTarget(v) \/ GiveUp(v) \/ Fstat(v) \/ GetAcl(v)
  BY <1>2 DEF OpenTarget, NothingToAdopt, GiveUp, Fstat, GetAcl
<1>3. CASE Refstat(v) \/ Lstat(v) \/ Chown(v) \/ ChownRefused(v) \/ SetAcl(v)
  BY <1>3 DEF Refstat, Moved, Lstat, Chown, ChownRefused, SetAcl, SetAccess
<1>4. CASE Renarrow(v) \/ Rename(v) \/ Link(v) \/ CannotLink(v) \/ NameTaken(v) \/ Discard(v)
            \/ DiscardFails(v)
  BY <1>4 DEF Renarrow, Rename, Link, CannotLink, NameTaken, Discard, DiscardFails, PutInPlace,
              Chmod, SetAccess
<1>5. CASE Reserve(v) \/ RenameOver(v) \/ RenameOverFails(v) \/ SameStat(v) \/ Unreserve(v)
             \/ UnreserveFails(v)
  BY <1>5 DEF Reserve, RenameOver, RenameOverFails, SameStat, Unreserve, UnreserveFails,
              PutInPlace
<1>6. CASE Publish(v) \/ PublishFails(v)
  BY <1>6 DEF Publish, PublishFails, Chmod, SetAccess
<1>7. CASE ExitStep(v) \/ Stopped(v)
  BY <1>7 DEF ExitStep, Cleanup, CleanupFails, CallFails, AdoptFails, Stopped, Interrupt,
              InterruptUnguarded, Kill
<1> QED BY <1>1, <1>2, <1>3, <1>4, <1>5, <1>6, <1>7 DEF WriterStep, AdoptStep, CommitStep

LEMMA EnvLeavesMine ==
  ASSUME TypeOK, EnvStep, NEW w \in Writers
  PROVE  UNCHANGED Mine(w)
<1> USE InodeOf, EnvInode, Distinct DEF TypeOK, Mine, local
<1>1. CASE EnvCreate \/ EnvReplace
  BY <1>1 DEF EnvCreate, EnvReplace, EnvPut
<1>2. CASE EnvRemove \/ EnvAside
  BY <1>2 DEF EnvRemove, EnvAside
<1>3. CASE EnvRewrite
  BY <1>3 DEF EnvRewrite
<1> QED BY <1>1, <1>2, <1>3 DEF EnvStep

\* A file system has ACLs or has none, for every file and everything read of one.
Supported(a) == a.acl = AclUnsupported <=> InheritedAcl = AclUnsupported
SupportInv ==
  /\ \A i \in Inode : Supported(access[i])
  /\ \A w \in Writers : Supported(seen[w]) /\ (replaced[w] # NoAccess => Supported(replaced[w]))

LEMMA RuleFields ==
  \A o, m, c : Rule(o, m, c).own = o /\ Rule(o, m, c).mode = m /\ Rule(o, m, c).acl = c
  BY DEF Rule

LEMMA FreshFields ==
  FreshAccess.own = Me /\ FreshAccess.mode = FreshMode /\ FreshAccess.acl = InheritedAcl
  BY DEF FreshAccess

LEMMA SameAccess ==
  \A a, b \in Access : a.own = b.own /\ a.mode = b.mode /\ a.acl = b.acl => a = b
  BY DEF Access

LEMMA RuleOfFields == \A a \in Access : Rule(a.own, a.mode, a.acl) = a
  BY DEF Access, Rule

LEMMA SupportOf ==
  /\ Supported(FreshAccess)
  /\ \A o, m, a : Supported(a) => Supported(Rule(o, m, a.acl))
  /\ \A o, m : Supported(Rule(o, m, InheritedAcl))
  /\ \A a \in EnvAccess : Supported(a)
  BY AclSupportAssumption, FreshFields, RuleFields DEF Supported

LEMMA SupportStep ==
  ASSUME TypeOK, ControlInv, SupportInv, [Next]_vars
  PROVE  SupportInv'
<1> USE SupportOf, InodeOf, EnvInode DEF TypeOK, ControlInv, SupportInv, Capturing
<1>2. ASSUME NEW w \in Writers, WriteStep(w) PROVE SupportInv'
  <2>1. CASE Narrow(w)
    BY <2>1 DEF Narrow, Chmod, SetAccess
  <2>2. CASE ~Narrow(w)
    BY <1>2, <2>2 DEF WriteStep, CreateStaging, CreateFails, Write, Flush
  <2> QED BY <2>1, <2>2
<1>3. ASSUME NEW w \in Writers, AdoptStep(w) PROVE SupportInv'
  <2>1. CASE OpenTarget(w) \/ GiveUp(w) \/ ChownRefused(w)
    BY <2>1 DEF OpenTarget, NothingToAdopt, GiveUp, ChownRefused
  <2>2. CASE Fstat(w)
    BY <2>2 DEF Fstat, NothingToAdopt
  <2>3. CASE GetAcl(w)
    BY <2>3 DEF GetAcl
  <2>4. CASE Refstat(w) \/ Lstat(w)
    BY <2>4 DEF Refstat, Moved, Lstat
  <2>5. CASE Chown(w)
    BY <2>5 DEF Chown, SetAccess
  <2>6. CASE SetAcl(w)
    <3>1. replaced[w] \in Access /\ replaced[w] # NoAccess
      BY <2>6, NullAssumption DEF SetAcl
    <3> QED BY <2>6, <3>1 DEF SetAcl, SetAccess
  <2> QED BY <1>3, <2>1, <2>2, <2>3, <2>4, <2>5, <2>6 DEF AdoptStep
<1>4. ASSUME NEW w \in Writers, CommitStep(w) PROVE SupportInv'
  <2>1. CASE Reserve(w)
    BY <2>1 DEF Reserve
  <2>2. CASE Renarrow(w) \/ Publish(w)
    <3>1. UNCHANGED <<seen, replaced>>
      BY <2>2 DEF Renarrow, Publish
    <3>2. PICK o, m : access' = [access EXCEPT ![Stage(w)] = Rule(o, m, access[Stage(w)].acl)]
      BY <2>2 DEF Renarrow, Publish, Chmod, SetAccess
    <3>3. Supported(Rule(o, m, access[Stage(w)].acl))
      BY Zenon
    <3> QED BY <3>1, <3>2, <3>3
  <2>3. CASE ~(Reserve(w) \/ Renarrow(w) \/ Publish(w))
    BY <1>4, <2>3 DEF CommitStep, Rename, Link, CannotLink, NameTaken, Discard, DiscardFails,
                      RenameOver, RenameOverFails, SameStat, Unreserve, UnreserveFails,
                         PublishFails
  <2> QED BY <2>1, <2>2, <2>3
<1>5. ASSUME NEW w \in Writers, ExitStep(w) \/ Stopped(w) PROVE SupportInv'
  BY <1>5 DEF ExitStep, Cleanup, CleanupFails, CallFails, AdoptFails, Stopped, Interrupt,
              InterruptUnguarded, Kill
<1>6. CASE EnvStep
  <2> USE DEF local
  <2>1. UNCHANGED <<seen, replaced>>
    BY <1>6 DEF EnvStep, EnvCreate, EnvReplace, EnvRemove, EnvAside, EnvRewrite
  <2>2. \/ UNCHANGED access
        \/ \E e \in EnvFiles, a \in EnvAccess : access' = [access EXCEPT ![<<"env", e>>] = a]
    BY <1>6 DEF EnvStep, EnvCreate, EnvReplace, EnvRemove, EnvAside, EnvRewrite, EnvPut
  <2> QED BY <2>1, <2>2
<1>7. CASE UNCHANGED vars
  BY <1>7 DEF vars
<1> QED BY <1>2, <1>3, <1>4, <1>5, <1>6, <1>7 DEF Next, WriterStep

\* The access control of a writer's own file, call by call.
Early == {"create", "narrow", "write", "flush", "open"} \cup Capturing
OwnFile(w) ==
  LET a == access[Stage(w)]
      r == replaced[w]
  IN  /\ pc[w] \in {"create", "narrow"} => data[Stage(w)] \in {"none", "empty"}
      /\ pc[w] \in Early => r = NoAccess
      /\ pc[w] \in Early \cup {"chown"} => a.own = Me /\ a.acl = InheritedAcl
      /\ pc[w] \in (Early \ {"create", "narrow"}) \cup {"chown", "setacl"} => a.mode = Private
      /\ pc[w] = "setacl" => a.own = r.own /\ r.acl # AclUnsupported
      /\ pc[w] \in {"renarrow"} \cup Ready => a.own = Due(w).own /\ a.acl = Due(w).acl
      /\ outcome[w] = "ok" => a = Due(w)
      /\ data[Stage(w)] \in {"partial", "whole"} /\ outcome[w] # "ok" =>
           \/ a.mode = Private
           \/ /\ ~committed[w]
              /\ r # NoAccess
              /\ r.acl \notin {AclAbsent, AclUnsupported}
              /\ a = r
OwnFileInv == \A w \in Writers : OwnFile(w)

LEMMA OwnFileFrame ==
  ASSUME NEW w \in Writers, OwnFile(w), UNCHANGED Mine(w)
  PROVE  OwnFile(w)'
  BY DEF OwnFile, Mine, Due

LEMMA OwnFileStep ==
  ASSUME TypeOK, ControlInv, DataInv, SupportInv, NEW w \in Writers, OwnFile(w),
         WriterStep(w) \/ Stopped(w)
  PROVE  OwnFile(w)'
<1> USE InodeOf, RuleFields, NullAssumption DEF TypeOK, ControlInv, Early, Capturing
<1>1. CASE CreateStaging(w) \/ CreateFails(w) \/ Write(w) \/ Flush(w)
  BY <1>1, FreshFields DEF OwnFile, Due, CreateStaging, CreateFails, Write, Flush, Ready,
                           Linking
<1>2. CASE Narrow(w)
  BY <1>2 DEF OwnFile, Narrow, Chmod, SetAccess, Ready, Linking
<1>3. CASE OpenTarget(w) \/ GiveUp(w) \/ ChownRefused(w)
  BY <1>3, FreshFields DEF OwnFile, Due, OpenTarget, NothingToAdopt, GiveUp, ChownRefused,
                           Ready,
                           Linking
<1>4. CASE Fstat(w)
  BY <1>4, FreshFields DEF OwnFile, Due, Fstat, NothingToAdopt, Ready, Linking
<1>5. CASE GetAcl(w) \/ Refstat(w) \/ Lstat(w)
  BY <1>5 DEF OwnFile, GetAcl, Refstat, Moved, Lstat, Ready, Linking
<1>6. CASE Chown(w)
  <2>1. Supported(replaced[w])
    BY <1>6 DEF Chown, SupportInv
  <2> QED BY <1>6, <2>1 DEF OwnFile, Due, Chown, SetAccess, Supported, Ready, Linking
<1>7. CASE SetAcl(w)
  <2> DEFINE r == replaced[w]
  <2>1. r \in Access /\ access[Stage(w)] \in Access /\ ~committed[w]
    BY <1>7 DEF SetAcl, DataInv
  <2>2. access'[Stage(w)] = Rule(access[Stage(w)].own,
                                 IF r.acl = AclAbsent THEN access[Stage(w)].mode ELSE r.mode,
                                 r.acl)
    BY <1>7 DEF SetAcl, SetAccess
  <2>3. access[Stage(w)].own = r.own /\ access[Stage(w)].mode = Private /\ r.acl # AclUnsupported
    BY <1>7 DEF SetAcl, OwnFile
  <2>4. access'[Stage(w)].own = r.own /\ access'[Stage(w)].acl = r.acl
    BY <2>2, <2>3
  <2>5. access'[Stage(w)].mode = Private \/ (r.acl # AclAbsent /\ access'[Stage(w)] = r)
    BY <2>1, <2>2, <2>3, RuleOfFields
  <2>6. pc'[w] = "renarrow" /\ replaced'[w] = r /\ r # NoAccess /\ committed'[w] = FALSE
        /\ outcome'[w] = "none" /\ data' = data
    BY <1>7, <2>1 DEF SetAcl, SetAccess
  <2> QED BY <2>3, <2>4, <2>5, <2>6 DEF OwnFile, Due, Ready, Linking
<1>8. CASE Renarrow(w)
  BY <1>8 DEF OwnFile, Due, Renarrow, Chmod, SetAccess, Ready, Linking
<1>9. CASE Publish(w)
  <2>1. /\ access[Stage(w)].own = Due(w).own /\ access[Stage(w)].acl = Due(w).acl
        /\ Due(w) \in Access /\ Due(w)' = Due(w)
    BY <1>9, FreshAccessType DEF OwnFile, Due, Publish, Ready
  <2>2. access'[Stage(w)] = Rule(Due(w).own, Due(w).mode, Due(w).acl)
    BY <1>9, <2>1, FreshFields DEF Publish, Chmod, SetAccess, Due
  <2>3. access'[Stage(w)] = Due(w)
    BY <2>1, <2>2, RuleOfFields, Zenon
  <2>4. pc'[w] = "ended" /\ outcome'[w] = "ok"
    BY <1>9 DEF Publish
  <2> QED BY <2>1, <2>3, <2>4 DEF OwnFile, Ready, Linking
<1>10. CASE Rename(w) \/ Link(w) \/ RenameOver(w)
  BY <1>10 DEF OwnFile, Due, DataInv, Rename, Link, RenameOver, PutInPlace, Ready, Linking
<1>11. CASE CannotLink(w) \/ NameTaken(w) \/ Discard(w) \/ DiscardFails(w) \/ PublishFails(w)
  BY <1>11 DEF OwnFile, Due, CannotLink, NameTaken, Discard, DiscardFails, PublishFails, Ready,
               Linking
<1>12. CASE Reserve(w) \/ RenameOverFails(w) \/ SameStat(w) \/ Unreserve(w) \/ UnreserveFails(w)
  BY <1>12, Distinct DEF OwnFile, Due, Reserve, RenameOverFails, SameStat, Unreserve,
                         UnreserveFails, Ready, Linking
<1>13. CASE ExitStep(w)
  BY <1>13 DEF OwnFile, Due, ExitStep, Cleanup, CleanupFails, CallFails, AdoptFails, Ready,
               Linking
<1>14. CASE Stopped(w)
  BY <1>14 DEF OwnFile, Due, Stopped, Interrupt, InterruptUnguarded, Kill, Ready, Linking
<1> QED BY <1>1, <1>2, <1>3, <1>4, <1>5, <1>6, <1>7, <1>8, <1>9, <1>10, <1>11, <1>12, <1>13,
           <1>14
        DEF WriterStep, WriteStep, AdoptStep, CommitStep

LEMMA OwnFileCorrect == Spec => []OwnFileInv
<1>1. Init => SupportInv /\ OwnFileInv
  BY SupportOf, InodeOf, FreshFields
     DEF Init, SupportInv, OwnFileInv, OwnFile, Early, Capturing, Ready, Linking
<1>2. ASSUME TypeOK, ControlInv, DataInv, SupportInv, OwnFileInv, [Next]_vars
      PROVE  OwnFileInv'
  <2> SUFFICES ASSUME NEW w \in Writers PROVE OwnFile(w)'
    BY DEF OwnFileInv
  <2>1. OwnFile(w)
    BY <1>2 DEF OwnFileInv
  <2>2. ASSUME NEW v \in Writers, WriterStep(v) \/ Stopped(v) PROVE OwnFile(w)'
    <3>1. CASE v = w
      BY <1>2, <2>1, <2>2, <3>1, OwnFileStep
    <3>2. CASE v # w
      BY <1>2, <2>1, <2>2, <3>2, OthersLeaveMine, OwnFileFrame
    <3> QED BY <3>1, <3>2
  <2>3. CASE EnvStep
    BY <1>2, <2>1, <2>3, EnvLeavesMine, OwnFileFrame
  <2>4. CASE UNCHANGED vars
    <3>1. UNCHANGED Mine(w)
      BY <2>4 DEF vars, Mine
    <3> QED BY <2>1, <3>1, OwnFileFrame
  <2> QED BY <1>2, <2>2, <2>3, <2>4 DEF Next
<1>3. TypeOK /\ ControlInv /\ SupportInv /\ [Next]_vars => SupportInv'
  BY SupportStep
<1> QED BY <1>1, <1>2, <1>3, TypeCorrect, DataCorrect, PTL DEF Spec

\* Before its call succeeds, no part of a document is in a file that others can read, but
\* for the restored ACL of the file it replaces, off the path and no wider than that.
THEOREM StagedInPrivate == Spec => []PrivateWhileStaged
<1>1. OwnFileInv => PrivateWhileStaged
  BY DEF OwnFileInv, OwnFile, PrivateWhileStaged
<1> QED BY <1>1, OwnFileCorrect, PTL

\* A document that was published has all of the accepted capture and nothing else, or what
\* an ordinary create gives, with or without ACLs on the file system.
THEOREM PublishesTheCapture == Spec => []PublishedAccess
<1>1. OwnFileInv => PublishedAccess
  BY DEF OwnFileInv, OwnFile, PublishedAccess
<1> QED BY <1>1, OwnFileCorrect, PTL

-----------------------------------------------------------------------------
(* Why a capture is of one file at one moment.                                *)

\* An inode that was at the path: a document that was put there, or a reservation.
Placed == {"over", "samestat", "unreserve", "publish", "cleanup", "ended", "killed"}
WasThere(i) == /\ \A v \in Writers : i = Stage(v) => committed[v]
               /\ \A v \in Writers : i = Holder(v) => pc[v] \in Placed
ShownInv == WasThere(at) /\ WasThere(aside) /\ \A w \in Writers : WasThere(fd[w])

\* A writer's steps, as far as they move the path or a descriptor.
LEMMA WriterMoves ==
  ASSUME TypeOK, NEW v \in Writers, WriterStep(v) \/ Stopped(v)
  PROVE  /\ pc[v] \in Placed => pc'[v] \in Placed
         /\ committed[v] => committed'[v]
         /\ aside' = aside
         /\ \A w \in Writers : fd'[w] \in {fd[w], at, Nothing}
         /\ \/ at' \in {at, Nothing}
            \/ at' = Stage(v) /\ committed'[v]
            \/ at' = Holder(v) /\ pc'[v] = "over"
<1> USE DEF TypeOK, Placed
<1>1. CASE WriteStep(v)
  BY <1>1 DEF WriteStep, CreateStaging, CreateFails, Narrow, Write, Flush
<1>2. CASE AdoptStep(v)
  BY <1>2 DEF AdoptStep, OpenTarget, NothingToAdopt, GiveUp, Fstat, GetAcl, Refstat, Moved,
              Lstat, Chown, ChownRefused, SetAcl
<1>3. CASE Rename(v) \/ Link(v) \/ RenameOver(v)
  BY <1>3 DEF Rename, Link, RenameOver, PutInPlace
<1>4. CASE Renarrow(v) \/ CannotLink(v) \/ NameTaken(v) \/ Discard(v) \/ DiscardFails(v)
  BY <1>4 DEF Renarrow, CannotLink, NameTaken, Discard, DiscardFails
<1>5. CASE Reserve(v) \/ RenameOverFails(v) \/ SameStat(v) \/ Unreserve(v) \/ UnreserveFails(v)
  BY <1>5 DEF Reserve, RenameOverFails, SameStat, Unreserve, UnreserveFails
<1>6. CASE Publish(v) \/ PublishFails(v)
  BY <1>6 DEF Publish, PublishFails
<1>7. CASE ExitStep(v)
  BY <1>7 DEF ExitStep, Cleanup, CleanupFails, CallFails, AdoptFails
<1>8. CASE Stopped(v)
  BY <1>8 DEF Stopped, Interrupt, InterruptUnguarded, Kill
<1> QED BY <1>1, <1>2, <1>3, <1>4, <1>5, <1>6, <1>7, <1>8 DEF WriterStep, CommitStep

LEMMA ShownStep ==
  ASSUME TypeOK, ShownInv, [Next]_vars
  PROVE  ShownInv'
<1>1. ASSUME NEW v \in Writers, WriterStep(v) \/ Stopped(v) PROVE ShownInv'
  <2> DEFINE There(i) == /\ \A u \in Writers : i = Stage(u) => committed'[u]
                         /\ \A u \in Writers : i = Holder(u) => pc'[u] \in Placed
  <2>1. \A u \in Writers : /\ pc[u] \in Placed => pc'[u] \in Placed
                           /\ committed[u] => committed'[u]
    BY <1>1, WriterMoves, OthersLeaveMine DEF Mine
  <2>2. \A i : WasThere(i) => There(i)
    BY <2>1 DEF WasThere
  <2>3. There(Nothing)
    BY Distinct
  <2>4. at' = Stage(v) /\ committed'[v] => There(at')
    BY Distinct
  <2>5. at' = Holder(v) /\ pc'[v] = "over" => There(at')
    BY Distinct DEF Placed
  <2> HIDE DEF There
  <2>6. There(at') /\ There(aside')
    BY <1>1, <2>2, <2>3, <2>4, <2>5, WriterMoves DEF ShownInv
  <2>7. \A w \in Writers : There(fd'[w])
    BY <1>1, <2>2, <2>3, WriterMoves DEF ShownInv
  <2> QED BY <2>6, <2>7 DEF ShownInv, WasThere, There
<1>2. CASE EnvStep
  <2>1. UNCHANGED <<pc, fd, committed>>
    BY <1>2 DEF EnvStep, EnvCreate, EnvReplace, EnvRemove, EnvAside, EnvRewrite, local
  <2>2. /\ at' \in {at, aside, Nothing} \/ \E e \in EnvFiles : at' = <<"env", e>>
        /\ aside' \in {at, aside, Nothing}
    BY <1>2 DEF EnvStep, EnvCreate, EnvReplace, EnvRemove, EnvAside, EnvRewrite, EnvPut
  <2>3. WasThere(Nothing)' /\ \A e \in EnvFiles : WasThere(<<"env", e>>)'
    BY Distinct DEF WasThere
  <2> QED BY <2>1, <2>2, <2>3 DEF ShownInv, WasThere
<1>3. CASE UNCHANGED vars
  BY <1>3 DEF vars, ShownInv, WasThere
<1> QED BY <1>1, <1>2, <1>3 DEF Next

\* What was at the path is written no more but by its writer's last fchmod.
LEMMA WriterMarks ==
  ASSUME TypeOK, ControlInv, DataInv, NEW v \in Writers,
         WriterStep(v) \/ Stopped(v), NEW i \in Inode, WasThere(i)
  PROVE  data'[i] = data[i] /\ (access'[i] # access[i] => Publish(v) /\ i = Stage(v))
<1> USE InodeOf, Distinct DEF TypeOK
<1>1. i = Stage(v) => pc[v] \in {"discard", "publish", "cleanup", "ended", "killed"}
  BY DEF WasThere, DataInv
<1>2. i = Holder(v) => pc[v] # "reserve"
  BY DEF WasThere, Placed
<1>3. CASE WriteStep(v)
  BY <1>1, <1>3 DEF WriteStep, CreateStaging, CreateFails, Narrow, Write, Flush, Chmod,
                    SetAccess
<1>4. CASE AdoptStep(v)
  <2>1. CASE Chown(v) \/ SetAcl(v)
    BY <1>1, <2>1 DEF Chown, SetAcl, SetAccess
  <2>2. CASE ~(Chown(v) \/ SetAcl(v))
    BY <1>4, <2>2 DEF AdoptStep, OpenTarget, GiveUp, Fstat, GetAcl, Refstat, Lstat, ChownRefused
  <2> QED BY <2>1, <2>2
<1>5. CASE CommitStep(v)
  <2>1. CASE Renarrow(v)
    BY <1>1, <2>1 DEF Renarrow, Chmod, SetAccess
  <2>2. CASE Reserve(v)
    BY <1>2, <2>2 DEF Reserve
  <2>3. CASE Publish(v)
    BY <2>3 DEF Publish, Chmod, SetAccess
  <2>4. CASE ~(Renarrow(v) \/ Reserve(v) \/ Publish(v))
    BY <1>5, <2>4 DEF CommitStep, Rename, Link, CannotLink, NameTaken, Discard, DiscardFails,
                      RenameOver, RenameOverFails, SameStat, Unreserve, UnreserveFails,
                         PublishFails
  <2> QED BY <2>1, <2>2, <2>3, <2>4
<1>6. CASE ExitStep(v) \/ Stopped(v)
  BY <1>1, <1>6 DEF ExitStep, Cleanup, CleanupFails, CallFails, AdoptFails, Stopped, Interrupt,
                    InterruptUnguarded, Kill
<1> QED BY <1>3, <1>4, <1>5, <1>6 DEF WriterStep

\* Whoever changes the access control of a file that w has open leaves a mark on its ctime,
\* whether or not the clock is sharp enough for w to see it.
Marked(w) == since'[w] = "same" => since[w] = "same" /\ access'[fd[w]] = access[fd[w]]

LEMMA OthersMark ==
  ASSUME TypeOK, NEW v \in Writers, WriterStep(v) \/ Stopped(v), NEW w \in Writers, w # v
  PROVE  since'[w] = since[w] \/ (Publish(v) /\ fd[w] = Stage(v) /\ since'[w] # "same")
<1> USE DEF TypeOK
<1>1. CASE WriteStep(v)
  BY <1>1 DEF WriteStep, CreateStaging, CreateFails, Narrow, Write, Flush
<1>2. CASE AdoptStep(v)
  BY <1>2 DEF AdoptStep, OpenTarget, GiveUp, Fstat, GetAcl, Refstat, Moved, Lstat, Chown,
              ChownRefused, SetAcl
<1>3. CASE CommitStep(v)
  <2>1. CASE Publish(v)
    BY <2>1 DEF Publish
  <2>2. CASE ~Publish(v)
    BY <1>3, <2>2 DEF CommitStep, Renarrow, Rename, Link, CannotLink, NameTaken, Discard,
                      DiscardFails, Reserve, RenameOver, RenameOverFails, SameStat, Unreserve,
                      UnreserveFails, PublishFails
  <2> QED BY <2>1, <2>2
<1>4. CASE ExitStep(v) \/ Stopped(v)
  BY <1>4 DEF ExitStep, Cleanup, CleanupFails, CallFails, AdoptFails, Stopped, Interrupt,
              InterruptUnguarded, Kill
<1> QED BY <1>1, <1>2, <1>3, <1>4 DEF WriterStep

LEMMA EnvMarks ==
  ASSUME TypeOK, EnvStep
  PROVE  /\ \A i \in Inode : InUse(i) => data'[i] = data[i]
         /\ \A w \in Writers : disturbed'[w] /\ (fd[w] \in Inode => Marked(w))
<1> USE EnvInode DEF TypeOK, Marked, local
<1>1. CASE EnvCreate \/ EnvReplace
  BY <1>1 DEF EnvCreate, EnvReplace, EnvPut, InUse
<1>2. CASE EnvRemove \/ EnvAside
  BY <1>2 DEF EnvRemove, EnvAside
<1>3. CASE EnvRewrite
  BY <1>3 DEF EnvRewrite
<1> QED BY <1>1, <1>2, <1>3 DEF EnvStep

\* Another writer that moves the path or publishes is noticed.
LEMMA OthersDisturb ==
  ASSUME TypeOK, NEW v \in Writers, WriterStep(v) \/ Stopped(v),
         NEW w \in Writers, w # v, ~disturbed'[w]
  PROVE  ~disturbed[w] /\ at' = at /\ ~Publish(v)
<1> USE DEF TypeOK
<1>1. CASE WriteStep(v)
  BY <1>1 DEF WriteStep, CreateStaging, CreateFails, Narrow, Write, Flush, Publish
<1>2. CASE AdoptStep(v)
  BY <1>2 DEF AdoptStep, OpenTarget, GiveUp, Fstat, GetAcl, Refstat, Lstat, Chown, ChownRefused,
              SetAcl, Publish
<1>3. CASE CommitStep(v)
  <2>1. CASE Rename(v) \/ Link(v) \/ RenameOver(v) \/ Reserve(v) \/ Publish(v)
    BY <2>1 DEF Rename, Link, RenameOver, Reserve, PutInPlace, Publish
  <2>2. CASE Unreserve(v)
    BY <2>2 DEF Unreserve, Publish
  <2>3. CASE ~(Rename(v) \/ Link(v) \/ RenameOver(v) \/ Reserve(v) \/ Publish(v) \/ Unreserve(v))
    BY <1>3, <2>3 DEF CommitStep, Renarrow, CannotLink, NameTaken, Discard, DiscardFails,
                      RenameOverFails, SameStat, UnreserveFails, PublishFails
  <2> QED BY <2>1, <2>2, <2>3
<1>4. CASE ExitStep(v) \/ Stopped(v)
  BY <1>4 DEF ExitStep, Cleanup, CleanupFails, CallFails, AdoptFails, Stopped, Interrupt,
              InterruptUnguarded, Kill, Publish
<1> QED BY <1>1, <1>2, <1>3, <1>4 DEF WriterStep

\* What a capture has in hand, call by call.
Capture(w) ==
  /\ pc[w] = "fstat" /\ ~disturbed[w] => at = fd[w]
  /\ pc[w] \in {"getacl", "refstat", "lstat"} => data[fd[w]] # "special"
  /\ pc[w] \in {"getacl", "refstat"} /\ since[w] = "same" => seen[w] = access[fd[w]]
  /\ pc[w] = "lstat" /\ ~disturbed[w] => seen[w] = access[fd[w]]
  /\ pc[w] \in {"chown", "setacl", "renarrow", "rename"} =>
       (w \in Overwriting /\ ~disturbed[w] =>
          IF RegularAtPath THEN replaced[w] = access[at] ELSE replaced[w] = NoAccess)
CaptureInv == \A w \in Writers : Capture(w)

\* A step that leaves the writer and what is held as they were, or is noticed.
LEMMA CaptureFrame ==
  ASSUME TypeOK, ControlInv, NEW w \in Writers, Capture(w),
         UNCHANGED <<pc[w], fd[w], seen[w], replaced[w]>>,
         pc[w] \in Capturing => Marked(w) /\ data'[fd[w]] = data[fd[w]],
         ~disturbed'[w] => /\ ~disturbed[w] /\ at' = at
                           /\ at # Nothing => data'[at] = data[at] /\ access'[at] = access[at]
                           /\ pc[w] \in Capturing => access'[fd[w]] = access[fd[w]]
  PROVE  Capture(w)'
<1> USE DEF TypeOK, ControlInv, Capturing, Marked
<1>1. pc[w] = "fstat" /\ ~disturbed'[w] => at' = fd'[w]
  BY DEF Capture
<1>2. pc[w] \in {"getacl", "refstat", "lstat"} => data'[fd[w]] # "special"
  BY DEF Capture
<1>3. pc[w] \in {"getacl", "refstat"} /\ since'[w] = "same" => seen[w] = access'[fd[w]]
  BY DEF Capture
<1>5. pc[w] = "lstat" /\ ~disturbed'[w] => seen[w] = access'[fd[w]]
  BY DEF Capture
<1>6. ASSUME pc[w] \in {"chown", "setacl", "renarrow", "rename"}, w \in Overwriting,
             ~disturbed'[w]
      PROVE  IF RegularAtPath' THEN replaced[w] = access'[at'] ELSE replaced[w] = NoAccess
  <2>1. RegularAtPath' <=> RegularAtPath
    BY <1>6, NullAssumption DEF RegularAtPath
  <2>2. IF RegularAtPath THEN replaced[w] = access[at] ELSE replaced[w] = NoAccess
    BY <1>6 DEF Capture
  <2>3. RegularAtPath => at # Nothing
    BY NullAssumption DEF RegularAtPath
  <2> QED BY <1>6, <2>1, <2>2, <2>3
<1> QED BY <1>1, <1>2, <1>3, <1>5, <1>6 DEF Capture

LEMMA CaptureStep ==
  ASSUME TypeOK, ControlInv, DataInv, ShownInv, NEW w \in Writers, Capture(w),
         WriterStep(w) \/ Stopped(w)
  PROVE  Capture(w)'
<1> USE InodeOf, Distinct, NullAssumption DEF TypeOK, ControlInv, Capturing
<1>1. CASE WriteStep(w)
  BY <1>1 DEF Capture, WriteStep, CreateStaging, CreateFails, Narrow, Write, Flush
<1>2. CASE OpenTarget(w)
  BY <1>2 DEF Capture, OpenTarget, NothingToAdopt, RegularAtPath
<1>3. CASE GiveUp(w) \/ ChownRefused(w)
  BY <1>3 DEF Capture, GiveUp, ChownRefused
<1>4. CASE Fstat(w)
  BY <1>4 DEF Capture, Fstat, NothingToAdopt, RegularAtPath
<1>5. CASE GetAcl(w)
  <2>1. since[w] = "same" => Rule(seen[w].own, seen[w].mode, access[fd[w]].acl) = access[fd[w]]
    BY <1>5, RuleOfFields DEF Capture, GetAcl
  <2> QED BY <1>5, <2>1 DEF Capture, GetAcl
<1>6. CASE Refstat(w)
  <2>1. CASE Unmoved(w)
    <3>1. since[w] = "same" \/ since[w] = "blurred"
      BY <2>1 DEF Unmoved
    <3>2. since[w] = "same" => seen[w] = access[fd[w]]
      BY <1>6 DEF Capture, Refstat
    <3> QED BY <1>6, <2>1, <3>1, <3>2 DEF Capture, Refstat
  <2>2. CASE ~Unmoved(w)
    BY <1>6, <2>2 DEF Capture, Refstat, Moved
  <2> QED BY <2>1, <2>2
<1>7. CASE Lstat(w)
  BY <1>7 DEF Capture, Lstat, Moved, RegularAtPath
<1>8. CASE Chown(w) \/ SetAcl(w) \/ Renarrow(w)
  <2>1. at # Stage(w)
    BY <1>8 DEF Chown, SetAcl, Renarrow, DataInv
  <2>2. /\ UNCHANGED <<at, data, replaced, disturbed>>
        /\ \A i \in Inode : i # Stage(w) => access'[i] = access[i]
    BY <1>8 DEF Chown, SetAcl, Renarrow, Chmod, SetAccess
  <2>3. /\ pc[w] \in {"chown", "setacl", "renarrow"}
        /\ pc'[w] \in {"setacl", "renarrow", "rename", "link"}
    BY <1>8 DEF Chown, SetAcl, Renarrow
  <2>4. RegularAtPath' = RegularAtPath /\ (RegularAtPath => access'[at] = access[at])
    BY <2>1, <2>2 DEF RegularAtPath
  <2> QED BY <2>2, <2>3, <2>4 DEF Capture
<1>9. CASE CommitStep(w) /\ ~Renarrow(w)
  <2>1. pc'[w] \notin {"fstat", "getacl", "refstat", "lstat", "chown", "setacl",
                        "renarrow", "rename"}
    BY <1>9 DEF CommitStep, Rename, Link, CannotLink, NameTaken, Discard, DiscardFails, Reserve,
                RenameOver, RenameOverFails, SameStat, Unreserve, UnreserveFails, Publish,
                   PublishFails
  <2> QED BY <2>1 DEF Capture
<1>10. CASE ExitStep(w) \/ Stopped(w)
  <2>1. pc'[w] \notin {"fstat", "getacl", "refstat", "lstat", "chown", "setacl",
                        "renarrow", "rename"}
    BY <1>10 DEF ExitStep, Cleanup, CleanupFails, CallFails, AdoptFails, Stopped, Interrupt,
                 InterruptUnguarded, Kill
  <2> QED BY <2>1 DEF Capture
<1> QED BY <1>1, <1>2, <1>3, <1>4, <1>5, <1>6, <1>7, <1>8, <1>9, <1>10
        DEF WriterStep, AdoptStep, CommitStep

LEMMA OthersCapture ==
  ASSUME TypeOK, ControlInv, DataInv, ShownInv, NEW w \in Writers, Capture(w),
         NEW v \in Writers, v # w, WriterStep(v) \/ Stopped(v)
  PROVE  Capture(w)'
<1>1. UNCHANGED <<pc[w], fd[w], seen[w], replaced[w]>>
  BY OthersLeaveMine DEF Mine
<1>2. \A i \in Inode : WasThere(i) =>
        data'[i] = data[i] /\ (access'[i] # access[i] => Publish(v) /\ i = Stage(v))
  BY WriterMarks
<1>3. pc[w] \in Capturing =>
        data'[fd[w]] = data[fd[w]] /\ (access'[fd[w]] # access[fd[w]] => Publish(v))
  BY <1>2 DEF ShownInv, ControlInv
<1>4. ASSUME pc[w] \in Capturing PROVE Marked(w)
  <2>1. fd[w] \in Inode /\ WasThere(fd[w])
    BY <1>4 DEF ShownInv, ControlInv
  <2>2. CASE Publish(v) /\ fd[w] = Stage(v)
    BY <2>2, InodeOf DEF Publish, Marked, TypeOK
  <2>3. CASE ~(Publish(v) /\ fd[w] = Stage(v))
    <3>1. access'[fd[w]] = access[fd[w]]
      BY <1>2, <2>1, <2>3
    <3>2. since'[w] = since[w]
      BY <2>3, OthersMark
    <3> QED BY <3>1, <3>2 DEF Marked
  <2> QED BY <2>2, <2>3
<1>5. at # Nothing => data'[at] = data[at] /\ (access'[at] # access[at] => Publish(v))
  BY <1>2 DEF ShownInv, TypeOK
<1>6. ~disturbed'[w] => ~disturbed[w] /\ at' = at /\ ~Publish(v)
  BY OthersDisturb
<1> QED BY <1>1, <1>3, <1>4, <1>5, <1>6, CaptureFrame

LEMMA EnvCapture ==
  ASSUME TypeOK, ControlInv, NEW w \in Writers, Capture(w), EnvStep
  PROVE  Capture(w)'
<1>1. UNCHANGED <<pc[w], fd[w], seen[w], replaced[w]>>
  BY EnvLeavesMine DEF Mine
<1>2. pc[w] \in Capturing => Marked(w) /\ data'[fd[w]] = data[fd[w]]
  BY EnvMarks DEF ControlInv, InUse
<1>3. disturbed'[w]
  BY EnvMarks
<1> QED BY <1>1, <1>2, <1>3, CaptureFrame

\* Whatever other writers and programs do between the calls of a capture: unless they act after
\* its second fstat, or within the resolution of the clock before it, owner, mode and ACL are
\* those of the one file at the path, up to the commit.
THEOREM CapturesOneMoment == Spec => []CaptureExact
<1>1. Init => ShownInv /\ CaptureInv
  BY Distinct DEF Init, ShownInv, WasThere, CaptureInv, Capture
<1>2. ASSUME TypeOK, ControlInv, DataInv, ShownInv, CaptureInv, [Next]_vars
      PROVE  CaptureInv'
  <2> SUFFICES ASSUME NEW w \in Writers PROVE Capture(w)'
    BY DEF CaptureInv
  <2>1. Capture(w)
    BY <1>2 DEF CaptureInv
  <2>2. ASSUME NEW v \in Writers, WriterStep(v) \/ Stopped(v) PROVE Capture(w)'
    BY <1>2, <2>1, <2>2, CaptureStep, OthersCapture
  <2>3. CASE EnvStep
    BY <1>2, <2>1, <2>3, EnvCapture
  <2>4. CASE UNCHANGED vars
    BY <2>1, <2>4 DEF vars, Capture, RegularAtPath
  <2> QED BY <1>2, <2>2, <2>3, <2>4 DEF Next
<1>3. TypeOK /\ ShownInv /\ [Next]_vars => ShownInv'
  BY ShownStep
<1>4. ControlInv /\ CaptureInv => CaptureExact
  BY WritersAssumption DEF ControlInv, CaptureInv, Capture, CaptureExact
<1> QED BY <1>1, <1>2, <1>3, <1>4, TypeCorrect, DataCorrect, PTL DEF Spec

-----------------------------------------------------------------------------
(* Reservations.                                                              *)

\* Nobody takes a reservation away from the writer that made it: with hard links there is
\* none, and without, no writer overwrites and other programs make and change files only.
ReservationsStay ==
  HardLinks \/ (Overwriting = {} /\ EnvOps \subseteq {"create", "rewrite"})

\* A writer at one of the calls that follow a reservation still holds the name.
HeldInv == \A w \in Writers : pc[w] \in {"over", "samestat", "unreserve"} => at = Holder(w)

LEMMA HeldStep ==
  ASSUME ReservationsStay, TypeOK, ControlInv, HeldInv, [Next]_vars
  PROVE  HeldInv'
<1> USE Distinct DEF TypeOK, ControlInv, HeldInv, Capturing, Linking, Reserving
<1>1. ASSUME NEW w \in Writers, WriteStep(w) PROVE HeldInv'
  BY <1>1 DEF WriteStep, CreateStaging, CreateFails, Narrow, Write, Flush
<1>2. ASSUME NEW w \in Writers, AdoptStep(w) PROVE HeldInv'
  BY <1>2 DEF AdoptStep, OpenTarget, NothingToAdopt, GiveUp, Fstat, GetAcl, Refstat, Moved,
              Lstat, Chown, ChownRefused, SetAcl
<1>3. ASSUME NEW w \in Writers, CommitStep(w) PROVE HeldInv'
  <2>1. CASE Rename(w)
    BY <2>1, ReservationsStay DEF Rename, ReservationsStay
  <2>2. CASE Link(w) \/ Reserve(w)
    BY <2>2 DEF Link, Reserve
  <2>3. CASE RenameOver(w) \/ Unreserve(w)
    BY <2>3 DEF RenameOver, Unreserve, PutInPlace
  <2>4. CASE RenameOverFails(w) \/ SameStat(w) \/ UnreserveFails(w)
    BY <2>4 DEF RenameOverFails, SameStat, UnreserveFails
  <2>5. CASE Renarrow(w) \/ CannotLink(w) \/ NameTaken(w) \/ Discard(w) \/ DiscardFails(w)
               \/ Publish(w) \/ PublishFails(w)
    BY <2>5 DEF Renarrow, CannotLink, NameTaken, Discard, DiscardFails, Publish, PublishFails
  <2> QED BY <1>3, <2>1, <2>2, <2>3, <2>4, <2>5 DEF CommitStep
<1>4. ASSUME NEW w \in Writers, ExitStep(w) PROVE HeldInv'
  BY <1>4 DEF ExitStep, Cleanup, CleanupFails, CallFails, AdoptFails
<1>5. ASSUME NEW w \in Writers, Stopped(w) PROVE HeldInv'
  BY <1>5 DEF Stopped, Interrupt, InterruptUnguarded, Kill
<1>6. CASE EnvStep
  <2>1. UNCHANGED pc
    BY <1>6 DEF EnvStep, EnvCreate, EnvReplace, EnvRemove, EnvAside, EnvRewrite, local
  <2>2. CASE HardLinks
    BY <2>1, <2>2
  <2>3. CASE ~HardLinks
    <3>1. at = Nothing \/ at' = at
      BY <1>6, <2>3, ReservationsStay
         DEF ReservationsStay, EnvStep, EnvCreate, EnvReplace, EnvRemove, EnvAside, EnvRewrite
    <3> QED BY <2>1, <3>1
  <2> QED BY <2>2, <2>3
<1>7. CASE UNCHANGED vars
  BY <1>7 DEF vars
<1> QED BY <1>1, <1>2, <1>3, <1>4, <1>5, <1>6, <1>7 DEF Next, WriterStep

\* Where the file system has hard links, or nobody takes a reservation away, no other
\* program and no failure makes a writer that was not asked to overwrite take the path
\* from anything but its own reservation (_commit_without_clobber).
THEOREM NeverClobbers ==
  ASSUME ReservationsStay
  PROVE  Spec => NoClobber
<1> DEFINE Kept(w) == pc'[w] # pc[w] => at' = at \/ at \in {Nothing, Holder(w)}
<1>1. ASSUME TypeOK, ControlInv, HeldInv, NEW w \in Writers \ Overwriting, [Next]_vars
      PROVE  Kept(w)
  <2> USE <1>1 DEF TypeOK, ControlInv, Capturing, Linking, Reserving
  <2>1. ASSUME NEW v \in Writers, WriteStep(v) PROVE Kept(w)
    BY <2>1 DEF WriteStep, CreateStaging, CreateFails, Narrow, Write, Flush
  <2>2. ASSUME NEW v \in Writers, AdoptStep(v) PROVE Kept(w)
    BY <2>2 DEF AdoptStep, OpenTarget, GiveUp, Fstat, GetAcl, Refstat, Lstat, Chown,
                ChownRefused, SetAcl
  <2>3. ASSUME NEW v \in Writers, CommitStep(v) PROVE Kept(w)
    <3>1. CASE Rename(v) \/ Link(v)
      BY <2>3, <3>1 DEF Rename, Link
    <3>2. CASE Reserve(v) \/ RenameOver(v) \/ Unreserve(v)
      BY <2>3, <3>2 DEF Reserve, RenameOver, Unreserve, HeldInv
    <3>3. CASE ~(Rename(v) \/ Link(v) \/ Reserve(v) \/ RenameOver(v) \/ Unreserve(v))
      <4>1. at' = at
        BY <2>3, <3>3 DEF CommitStep, Renarrow, CannotLink, NameTaken, Discard,
                          DiscardFails, RenameOverFails, SameStat, UnreserveFails, Publish,
                          PublishFails
      <4> QED BY <4>1
    <3> QED BY <3>1, <3>2, <3>3
  <2>4. ASSUME NEW v \in Writers, ExitStep(v) \/ Stopped(v) PROVE Kept(w)
    BY <2>4 DEF ExitStep, Cleanup, CleanupFails, CallFails, AdoptFails, Stopped, Interrupt,
                InterruptUnguarded, Kill
  <2>5. CASE EnvStep
    BY <2>5 DEF EnvStep, EnvCreate, EnvReplace, EnvRemove, EnvAside, EnvRewrite, local
  <2>6. CASE UNCHANGED vars
    BY <2>6 DEF vars
  <2> QED BY <2>1, <2>2, <2>3, <2>4, <2>5, <2>6 DEF Next, WriterStep
<1>2. Init => HeldInv
  BY DEF Init, HeldInv
<1>3. TypeOK /\ ControlInv /\ HeldInv /\ [Next]_vars => HeldInv'
  BY ReservationsStay, HeldStep
<1>4. TypeOK /\ ControlInv /\ HeldInv /\ [Next]_vars =>
        [\A w \in Writers \ Overwriting : Kept(w)]_vars
  BY <1>1
<1> QED BY <1>2, <1>3, <1>4, TypeCorrect, PTL DEF Spec, NoClobber

-----------------------------------------------------------------------------
(* The system calls implement AtomicOutput.                                   *)

\* What a writer is about to answer agrees with whether its document ever was at the path.
AnswerInv ==
  \A w \in Writers :
    /\ pc[w] = "cleanup" =>
         /\ outcome[w] \in {"exists", "denied", "error", "committed", "interrupted", "cut"}
         /\ outcome[w] \in {"exists", "denied"} => ~committed[w]
         /\ outcome[w] = "error" => ~committed[w] \/ refused[w]
         /\ outcome[w] = "committed" => committed[w]
    /\ pc[w] \in {"samestat", "unreserve"} => outcome[w] \in {"error", "interrupted"}

LEMMA AnswerStep ==
  ASSUME TypeOK, ControlInv, DataInv, AnswerInv, [Next]_vars
  PROVE  AnswerInv'
<1> USE DEF TypeOK, ControlInv, DataInv, AnswerInv, Capturing
<1>1. ASSUME NEW w \in Writers, WriteStep(w) PROVE AnswerInv'
  BY <1>1 DEF WriteStep, CreateStaging, CreateFails, Narrow, Write, Flush
<1>2. ASSUME NEW w \in Writers, AdoptStep(w) PROVE AnswerInv'
  BY <1>2 DEF AdoptStep, OpenTarget, NothingToAdopt, GiveUp, Fstat, GetAcl, Refstat, Moved,
              Lstat, Chown, ChownRefused, SetAcl
<1>3. ASSUME NEW w \in Writers, CommitStep(w) PROVE AnswerInv'
  <2>1. CASE Rename(w) \/ Link(w) \/ RenameOver(w)
    BY <2>1 DEF Rename, Link, RenameOver, PutInPlace
  <2>2. CASE RenameOverFails(w) \/ SameStat(w) \/ Unreserve(w) \/ UnreserveFails(w)
    BY <2>2 DEF RenameOverFails, SameStat, Unreserve, UnreserveFails
  <2>3. CASE NameTaken(w)
    BY <2>3 DEF NameTaken
  <2>4. CASE DiscardFails(w) \/ PublishFails(w)
    BY <2>4 DEF DiscardFails, PublishFails
  <2>5. CASE Renarrow(w) \/ CannotLink(w) \/ Discard(w) \/ Publish(w) \/ Reserve(w)
    BY <2>5 DEF Renarrow, CannotLink, Discard, Publish, Reserve
  <2> QED BY <1>3, <2>1, <2>2, <2>3, <2>4, <2>5 DEF CommitStep
<1>4. ASSUME NEW w \in Writers, ExitStep(w) PROVE AnswerInv'
  BY <1>4 DEF ExitStep, Cleanup, CleanupFails, CallFails, AdoptFails
<1>5. ASSUME NEW w \in Writers, Stopped(w) PROVE AnswerInv'
  BY <1>5 DEF Stopped, Interrupt, InterruptUnguarded, Kill
<1>6. CASE EnvStep
  <2>1. UNCHANGED <<pc, outcome, committed, refused>>
    BY <1>6 DEF EnvStep, EnvCreate, EnvReplace, EnvRemove, EnvAside, EnvRewrite, local
  <2> QED BY <2>1
<1>7. CASE UNCHANGED vars
  BY <1>7 DEF vars
<1> QED BY <1>1, <1>2, <1>3, <1>4, <1>5, <1>6, <1>7 DEF Next, WriterStep

\* What the path leads to, as the contract sees it: a document there is whole.
EntryShape ==
  /\ at = Nothing => Entry = AVacant
  /\ \A w \in Writers : at = Holder(w) => Entry = <<"held", w>>
  /\ \A w \in Writers : at = Stage(w) => Entry = <<"whole", w>>
  /\ at # Nothing /\ (\A w \in Writers : at # Stage(w) /\ at # Holder(w)) => Entry = AForeign

LEMMA EntryIs == DataInv => EntryShape
<1> SUFFICES ASSUME DataInv PROVE EntryShape
  OBVIOUS
<1>1. ASSUME NEW w \in Writers, at = Stage(w) PROVE Entry = <<"whole", w>>
  <2>1. (CHOOSE v \in Writers : at = Stage(v)) = w
    BY <1>1, Distinct
  <2>2. data[at] = "whole"
    BY <1>1 DEF DataInv
  <2> QED BY <1>1, <2>1, <2>2, Distinct DEF Entry
<1>2. ASSUME NEW w \in Writers, at = Holder(w) PROVE Entry = <<"held", w>>
  <2>1. (CHOOSE v \in Writers : at = Holder(v)) = w
    BY <1>2, Distinct
  <2> QED BY <1>2, <2>1, Distinct DEF Entry
<1>3. at # Nothing /\ (\A w \in Writers : at # Stage(w) /\ at # Holder(w)) => Entry = AForeign
  BY DEF Entry
<1> QED BY <1>1, <1>2, <1>3 DEF Entry, EntryShape

LEMMA EntryNext == DataInv' => EntryShape'
  BY EntryIs, PTL

\* While the path leads where it led, the contract sees no change of it.
LEMMA EntrySame ==
  ASSUME DataInv, DataInv', at' = at
  PROVE  Entry' = Entry
  BY EntryIs, EntryNext DEF EntryShape

Delivered == {w \in Writers : committed[w]}
Answers == [w \in Writers |-> Verdict(w)]
Balked == {w \in Writers : refused[w]}

\* A step that neither moves the path nor delivers nor ends a call is none of the contract's.
LEMMA Unseen ==
  ASSUME DataInv, DataInv', UNCHANGED <<at, committed, refused, Answers>>
  PROVE  UNCHANGED <<Entry, Delivered, Answers, Balked>>
  BY EntrySame DEF Delivered, Balked

\* A refused unlink that ends no call is the contract's directory balking.
LEMMA Balks ==
  ASSUME TypeOK, DataInv, DataInv', NEW w \in Writers, Refuse(w),
         UNCHANGED <<at, committed, Answers>>, Answers[w] = "open"
  PROVE  Atomic!Balk(w)
<1>1. UNCHANGED <<Entry, Delivered>>
  BY EntrySame DEF Delivered
<1>2. Balked' = Balked \cup {w}
  BY DEF Balked, TypeOK
<1> QED BY <1>1, <1>2 DEF Atomic!Balk, Delivered, Answers, Balked

\* The name is held by the writer whose reservation is there, and by nobody else.
LEMMA HoldersHold ==
  ASSUME EntryShape, NEW w \in Writers, at # Holder(w)
  PROVE  Entry # <<"held", w>>
<1>1. \/ Entry \in {AVacant, AForeign}
      \/ \E v \in Writers : Entry = <<"whole", v>>
      \/ \E v \in Writers : Entry = <<"held", v>> /\ v # w
  BY DEF EntryShape
<1>2. \A x : /\ <<"vacant", x>> # <<"held", w>> /\ <<"foreign", x>> # <<"held", w>>
             /\ <<"whole", x>> # <<"held", w>>
             /\ <<"held", x>> = <<"held", w>> => x = w
  OBVIOUS
<1> QED BY <1>1, <1>2 DEF AVacant, AForeign

\* Ending a call answers it, with what it delivered.
LEMMA Answered ==
  ASSUME TypeOK, DataInv, DataInv', LeftInv', UNCHANGED <<at, committed>>,
         NEW w \in Writers, pc[w] \notin {"ended", "killed"}, NEW to \in {"ended", "killed"},
         pc' = [pc EXCEPT ![w] = to],
         \A v \in Writers \ {w} : outcome'[v] = outcome[v],
         UNCHANGED refused \/ Refuse(w),
         to = "ended" => /\ outcome'[w] \in {"ok", "exists", "denied", "error", "committed",
                                            "interrupted", "cut"}
                         /\ outcome'[w] \in {"ok", "committed"} => committed[w]
                         /\ outcome'[w] \in {"exists", "denied"} => ~committed[w]
                         /\ outcome'[w] = "error" => ~committed[w] \/ refused'[w]
  PROVE  Atomic!Answer(w)
<1>1. Entry' = Entry /\ Delivered' = Delivered
  BY EntrySame DEF Delivered
<1>2. to = "ended" /\ outcome'[w] # "cut" => Entry # <<"held", w>> \/ w \in Balked'
  <2>1. to = "ended" /\ outcome'[w] # "cut" => at # Holder(w) \/ refused'[w]
    BY DEF LeftInv, TypeOK
  <2> QED BY <2>1, EntryIs, HoldersHold DEF Balked
<1>3. Answers[w] = "open" /\ Answers' = [Answers EXCEPT ![w] = Verdict(w)']
  <2>1. Verdict(w) = "open"
    BY DEF Verdict
  <2>2. ASSUME NEW v \in Writers \ {w} PROVE Verdict(v)' = Verdict(v)
    <3>1. pc'[v] = pc[v] /\ outcome'[v] = outcome[v]
      BY <2>2 DEF TypeOK
    <3> QED BY <3>1 DEF Verdict
  <2> QED BY <2>1, <2>2 DEF Answers
<1>4. /\ w \in Delivered => Verdict(w)' \in {"success", "unfinished", "stopped"}
                              \/ (w \in Balked' /\ Verdict(w)' = "failure")
      /\ w \notin Delivered => Verdict(w)' \in {"failure", "stopped"}
  BY DEF Delivered, Verdict, TypeOK, Balked
<1>5. Verdict(w)' # "stopped" => to = "ended" /\ outcome'[w] # "cut"
  BY DEF Verdict, TypeOK
<1>6. Balked' \in {Balked, Balked \cup {w}}
  BY DEF Balked, TypeOK
<1> QED BY <1>1, <1>2, <1>3, <1>4, <1>5, <1>6 DEF Atomic!Answer, Delivered, Answers, Balked

\* Putting the file in place delivers it.
LEMMA Delivers ==
  ASSUME TypeOK, DataInv, DataInv', NEW w \in Writers,
         pc[w] \notin {"ended", "killed"}, ~committed[w],
         w \in Overwriting \/ at \in {Nothing, Holder(w)},
         NEW to \in Steps \ {"ended", "killed"}, pc' = [pc EXCEPT ![w] = to],
         UNCHANGED <<outcome, refused>>, PutInPlace(w)
  PROVE  Atomic!Deliver(w)
<1>1. Entry' = <<"whole", w>>
  BY EntryNext DEF EntryShape, PutInPlace
<1>2. w \in Overwriting \/ Entry \in {AVacant, <<"held", w>>}
  BY EntryIs DEF EntryShape
<1>3. Answers' = Answers /\ Answers[w] = "open"
  BY DEF Answers, Verdict, TypeOK
<1>4. w \notin Delivered /\ Delivered' = Delivered \cup {w}
  BY DEF Delivered, PutInPlace, TypeOK
<1> QED BY <1>1, <1>2, <1>3, <1>4 DEF Atomic!Deliver, Delivered, Answers, Balked

\* A reservation holds the name, and taking it back lets go of it.
LEMMA Reserves ==
  ASSUME TypeOK, ControlInv, DataInv, HeldInv, DataInv', NEW w \in Writers,
         Reserve(w) \/ Unreserve(w)
  PROVE  Atomic!Hold(w) \/ Atomic!LetGo(w)
<1> USE DEF TypeOK
<1>1. UNCHANGED <<Delivered, Answers, Balked>> /\ Answers[w] = "open"
  BY DEF Reserve, Unreserve, Delivered, Answers, Verdict, Balked
<1>2. CASE Reserve(w)
  <2>1. ~HardLinks /\ ~committed[w]
    BY <1>2 DEF Reserve, ControlInv, Reserving, DataInv
  <2>2. Entry = AVacant /\ Entry' = <<"held", w>>
    BY <1>2, EntryIs, EntryNext DEF Reserve, EntryShape
  <2> QED BY <1>1, <2>1, <2>2 DEF Atomic!Hold, Delivered, Answers, Balked
<1>3. CASE Unreserve(w)
  <2>1. at = Holder(w) /\ at' = Nothing
    BY <1>3, Distinct DEF Unreserve, HeldInv
  <2>2. Entry = <<"held", w>> /\ Entry' = AVacant
    BY <2>1, EntryIs, EntryNext DEF EntryShape
  <2> QED BY <1>1, <2>2 DEF Atomic!LetGo, Delivered, Answers, Balked
<1> QED BY <1>2, <1>3

\* What a step of the contract's may be, for one writer.
Contract(w) == \/ UNCHANGED <<Entry, Delivered, Answers, Balked>>
               \/ Atomic!Hold(w) \/ Atomic!LetGo(w) \/ Atomic!Deliver(w) \/ Atomic!Balk(w)
               \/ Atomic!Answer(w)

LEMMA WriterImplements ==
  ASSUME TypeOK, ControlInv, DataInv, LeftInv, HeldInv, AnswerInv, DataInv', LeftInv',
         NEW w \in Writers, WriterStep(w) \/ Stopped(w)
  PROVE  Contract(w)
<1> DEFINE Silent == UNCHANGED <<at, committed, refused, Answers>>
<1> USE DEF TypeOK, ControlInv, Capturing, Linking, Contract
<1>1. CASE WriteStep(w)
  <2>1. CASE CreateFails(w)
    <3>1. ~committed[w]
      BY <2>1 DEF CreateFails, DataInv
    <3> QED BY <2>1, <3>1, Answered DEF CreateFails
  <2>2. CASE CreateStaging(w) \/ Narrow(w) \/ Write(w) \/ Flush(w)
    <3>1. Silent
      BY <2>2 DEF CreateStaging, Narrow, Write, Flush, Answers, Verdict
    <3> QED BY <3>1, Unseen
  <2> QED BY <1>1, <2>1, <2>2 DEF WriteStep
<1>2. CASE AdoptStep(w)
  <2>1. Silent
    BY <1>2 DEF AdoptStep, OpenTarget, NothingToAdopt, GiveUp, Fstat, GetAcl, Refstat, Moved,
                Lstat, Chown, ChownRefused, SetAcl, Answers, Verdict
  <2> QED BY <2>1, Unseen
<1>3. CASE CommitStep(w)
  <2>1. CASE Rename(w) \/ Link(w)
    <3>1. ~committed[w]
      BY <2>1 DEF Rename, Link, DataInv
    <3> QED BY <2>1, <3>1, Delivers DEF Rename, Link, Steps
  <2>2. CASE RenameOver(w)
    <3>1. ~committed[w] /\ at = Holder(w)
      BY <2>2 DEF RenameOver, DataInv, HeldInv
    <3> QED BY <2>2, <3>1, Delivers DEF RenameOver, Steps
  <2>3. CASE Publish(w)
    <3>1. committed[w] /\ UNCHANGED <<at, committed>>
      BY <2>3 DEF Publish, DataInv
    <3> QED BY <2>3, <3>1, Answered DEF Publish
  <2>4. CASE Reserve(w) \/ Unreserve(w)
    BY <2>4, Reserves
  <2>5. CASE Renarrow(w) \/ CannotLink(w) \/ NameTaken(w) \/ Discard(w) \/ RenameOverFails(w)
               \/ SameStat(w) \/ PublishFails(w)
    <3>1. Silent
      BY <2>5 DEF Renarrow, CannotLink, NameTaken, Discard, RenameOverFails, SameStat,
                  PublishFails,
                  Answers, Verdict
    <3> QED BY <3>1, Unseen
  <2>6. CASE DiscardFails(w) \/ UnreserveFails(w)
    <3>1. /\ UNCHANGED <<at, committed, Answers>> /\ Answers[w] = "open"
          /\ Refuse(w)
      BY <2>6 DEF DiscardFails, UnreserveFails, Answers, Verdict
    <3> QED BY <3>1, Balks
  <2> QED BY <1>3, <2>1, <2>2, <2>3, <2>4, <2>5, <2>6 DEF CommitStep
<1>4. CASE ExitStep(w)
  <2>1. CASE Cleanup(w)
    BY <2>1, Answered DEF Cleanup, AnswerInv
  <2>2. CASE CleanupFails(w)
    <3>1. refused'[w]
      BY <2>2 DEF CleanupFails
    <3> QED BY <2>2, <3>1, Answered DEF CleanupFails
  <2>3. CASE CallFails(w) \/ AdoptFails(w)
    <3>1. Silent
      BY <2>3 DEF CallFails, AdoptFails, Answers, Verdict
    <3> QED BY <3>1, Unseen
  <2> QED BY <1>4, <2>1, <2>2, <2>3 DEF ExitStep
<1>5. CASE Interrupt(w)
  <2>1. Silent
    BY <1>5 DEF Interrupt, Answers, Verdict
  <2> QED BY <2>1, Unseen
<1>6. CASE InterruptUnguarded(w)
  <2>1. CASE pc'[w] = "ended"
    <3>1. /\ pc[w] \in {"create", "cleanup"} /\ pc' = [pc EXCEPT ![w] = "ended"]
          /\ outcome'[w] = "cut" /\ UNCHANGED <<at, committed, refused>>
          /\ \A v \in Writers \ {w} : outcome'[v] = outcome[v]
      BY <1>6, <2>1 DEF InterruptUnguarded
    <3> QED BY <3>1, Answered
  <2>2. CASE pc'[w] # "ended"
    <3>1. Silent
      BY <1>6, <2>2 DEF InterruptUnguarded, Answers, Verdict
    <3> QED BY <3>1, Unseen
  <2> QED BY <2>1, <2>2
<1>7. CASE Kill(w)
  BY <1>7, Answered DEF Kill
<1> QED BY <1>1, <1>2, <1>3, <1>4, <1>5, <1>6, <1>7 DEF WriterStep, Stopped

\* What other programs do to the path, the contract lets them do.
LEMMA OthersImplement ==
  ASSUME ReservationsStay, TypeOK, DataInv, DataInv', LeftInv', EnvStep
  PROVE  UNCHANGED <<Entry, Delivered, Answers, Balked>> \/ Atomic!OthersAct
<1>1. UNCHANGED <<committed, pc, outcome, refused>>
  BY DEF EnvStep, EnvCreate, EnvReplace, EnvRemove, EnvAside, EnvRewrite, local
<1>2. UNCHANGED <<Delivered, Answers, Balked>>
  BY <1>1 DEF Delivered, Answers, Verdict, Balked
<1>3. CASE at' = at
  BY <1>2, <1>3, EntrySame
<1>4. CASE at' # at
  <2>1. \A w \in Writers : at' # Holder(w)
    <3>1. CASE HardLinks
      BY <3>1 DEF LeftInv
    <3>2. CASE ~HardLinks
      <4>1. EnvCreate
        BY <1>4, <3>2 DEF ReservationsStay, EnvStep, EnvReplace, EnvRemove, EnvAside, EnvRewrite
      <4> QED BY <4>1, Distinct DEF EnvCreate, EnvPut
    <3> QED BY <3>1, <3>2
  <2>2. \A w \in Writers : at' = Stage(w) => w \in Delivered'
    BY DEF DataInv, Delivered
  <2>3. Entry' \in {AVacant, AForeign} \cup {<<"whole", w>> : w \in Delivered}
    BY <1>2, <2>1, <2>2, EntryNext DEF EntryShape
  <2> QED BY <1>2, <2>3 DEF Atomic!OthersAct, Delivered, Answers, Balked
<1> QED BY <1>3, <1>4

\* Where there are hard links, for any number of writers and whatever other programs, failures,
\* interrupts and kills do between two system calls, each call delivers its whole document in
\* one step or not at all, over nobody's file unasked, and its answer says which and that the
\* name is let go of, unless the directory refused it an unlink; where there are none, as long
\* as nobody takes a reservation away (_staged_output).
THEOREM Implements ==
  ASSUME ReservationsStay
  PROVE  Spec => ImplementsAtomicOutput
<1>1. Init => LeftInv /\ HeldInv /\ AnswerInv
  BY Distinct DEF Init, LeftInv, HeldInv, AnswerInv
<1>2. Init => Atomic!AInit
  BY DEF Init, Atomic!AInit, Entry, Verdict
<1>3. ASSUME TypeOK, ControlInv, DataInv, LeftInv, HeldInv, AnswerInv, [Next]_vars,
             DataInv', LeftInv'
      PROVE  [Atomic!ANext]_Atomic!avars
  <2>1. CASE UNCHANGED vars
    <3>1. UNCHANGED <<Entry, Delivered, Answers, Balked>>
      BY <1>3, <2>1, Unseen DEF vars, Answers, Verdict
    <3> QED BY <3>1 DEF Atomic!avars, Delivered, Answers, Balked
  <2>2. ASSUME NEW w \in Writers, WriterStep(w) \/ Stopped(w)
        PROVE  [Atomic!ANext]_Atomic!avars
    <3>1. Contract(w)
      BY <1>3, <2>2, WriterImplements
    <3> QED BY <3>1 DEF Contract, Atomic!avars, Atomic!ANext, Delivered, Answers, Balked
  <2>3. CASE EnvStep
    <3>1. UNCHANGED <<Entry, Delivered, Answers, Balked>> \/ Atomic!OthersAct
      BY <1>3, <2>3, ReservationsStay, OthersImplement
    <3> QED BY <3>1 DEF Atomic!avars, Atomic!ANext, Delivered, Answers, Balked
  <2> QED BY <1>3, <2>1, <2>2, <2>3 DEF Next
<1>4. TypeOK /\ ControlInv /\ LeftInv /\ [Next]_vars => LeftInv'
  BY ReservationsStay, LeftStep DEF ReservationsStay
<1>5. TypeOK /\ ControlInv /\ HeldInv /\ [Next]_vars => HeldInv'
  BY ReservationsStay, HeldStep
<1>6. TypeOK /\ ControlInv /\ DataInv /\ AnswerInv /\ [Next]_vars => AnswerInv'
  BY AnswerStep
<1> QED BY <1>1, <1>2, <1>3, <1>4, <1>5, <1>6, TypeCorrect, DataCorrect, PTL
        DEF Spec, ImplementsAtomicOutput, Atomic!ASpec
=============================================================================
