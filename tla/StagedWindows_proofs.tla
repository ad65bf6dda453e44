----------------------- MODULE StagedWindows_proofs -----------------------
(***************************************************************************)
(* Theorems about the Windows branch of the staged writer, for every set   *)
(* of writers, volumes, scanners and faults: it implements the contract of *)
(* the POSIX one as long as nobody opens a reservation, and nobody but     *)
(* another program or another writer ever stands in its way.               *)
(***************************************************************************)
EXTENDS StagedWindows, TLAPS

LEMMA InodeOf == \A w \in Writers : Stage(w) \in Inode /\ Holder(w) \in Inode
  BY DEF Stage, Holder, Inode

LEMMA EnvInode == \A e \in EnvFiles : <<"env", e>> \in Inode
  BY DEF Inode

LEMMA Distinct ==
  /\ \A v, w \in Writers : Stage(v) = Stage(w) => v = w
  /\ \A v, w \in Writers : Holder(v) = Holder(w) => v = w
  /\ \A v, w \in Writers : Stage(v) # Holder(w)
  /\ \A w \in Writers, e \in EnvFiles : Stage(w) # <<"env", e>> /\ Holder(w) # <<"env", e>>
  /\ \A w \in Writers : Stage(w) # Nothing /\ Holder(w) # Nothing
<1>1. \A w \in Writers : Stage(w) # Nothing /\ Holder(w) # Nothing
  BY InodeOf, CallAssumption
<1> QED BY <1>1 DEF Stage, Holder

LEMMA HoldersAre == \A i : i \in Holders <=> \E w \in Writers : i = Holder(w)
  BY DEF Holders, Holder

USE DEF Go, Hold, Forget, Raise, PutInPlace, KeepPath, KeepFiles, KeepCapture, KeepTries, KeepEnd,
        KeepHandle, KeepWorld

-----------------------------------------------------------------------------
(* Where a writer can be, and what it has done there.                        *)

Adopting == {"lstat", "open", "fstat", "rename"}
Reserved == {"identify", "over", "samestat", "unreserve"}
Reserving == {"reserve"} \cup Reserved
Linking == {"link", "discard"} \cup Reserving
Leaving == {"discard", "return", "cleanup", "ended", "killed"}

\* Which calls a writer makes at all, by its flag and the volume, and how often it was refused.
ControlInv ==
  \A w \in Writers :
    /\ w \notin setting.callers => pc[w] = "create"
    /\ pc[w] = "create" => ~staged[w]
    /\ pc[w] \in Adopting => w \in Overwriting
    /\ pc[w] \in Linking => w \notin Overwriting
    /\ pc[w] \in Reserving => ~setting.links
    /\ pc[w] \notin Leaving => tries[w] = 0
    /\ pc[w] \in {"discard", "cleanup"} => tries[w] < Tries

\* The call was interrupted where no handler cleans up, and is on its way out.
CutShort(w) == pc[w] \in {"cleanup", "ended"} /\ outcome[w] = "cut"

\* A writer has nothing open but while it writes, compares or looks at its reservation, or when
\* it was interrupted there before it could close it.
HandleInv ==
  \A w \in Writers :
    pc[w] \notin {"write", "flush", "fstat", "identify"} => handle[w] = Nothing \/ CutShort(w)

\* What is to be put in place is whole, and stays so.
DataInv ==
  \A w \in Writers :
    /\ at = Stage(w) => committed[w]
    /\ committed[w] \/ pc[w] \in Adopting \cup {"link", "reserve", "identify", "over"}
       => data[Stage(w)] = "whole"

\* A writer has delivered at most once, by its last calls, and ends accordingly.
AnswerInv ==
  \A w \in Writers :
    /\ pc[w] \in {"discard", "return"} => committed[w]
    /\ committed[w] => \/ pc[w] \in {"discard", "return", "killed"}
                       \/ pc[w] \in {"cleanup", "ended"} /\ outcome[w] \in {"interrupted", "cut"}
                       \/ pc[w] = "ended" /\ outcome[w] = "ok"
    /\ pc[w] \in {"samestat", "unreserve", "cleanup"} =>
         outcome[w] \in {"exists", "denied", "busy", "error", "interrupted", "cut"}

WriterInv == TypeOK /\ ControlInv /\ HandleInv /\ DataInv /\ AnswerInv

LEMMA InitWriter == Init => WriterInv
  BY CallAssumption, Distinct
     DEF Init, WriterInv, TypeOK, Steps, Outcomes, ControlInv, HandleInv, CutShort, DataInv,
         AnswerInv, Adopting, Linking, Reserving, Reserved, Leaving

LEMMA WriterMoves ==
  ASSUME WriterInv, NEW w \in Writers,
         WriterStep(w) \/ Interrupt(w) \/ InterruptUnguarded(w) \/ Kill(w)
  PROVE  WriterInv'
<1> USE InodeOf, CallAssumption, Distinct
        DEF WriterInv, TypeOK, Steps, Outcomes, ControlInv, HandleInv, CutShort, DataInv,
            AnswerInv, Adopting, Linking, Reserving, Reserved, Leaving
<1>1. CASE WriteStep(w)
  <2>1. CASE CreateStaging(w)
    BY <2>1 DEF CreateStaging
  <2>2. CASE CreateFails(w)
    BY <2>2 DEF CreateFails
  <2>3. CASE Write(w)
    BY <2>3 DEF Write
  <2>4. CASE FlushAndClose(w)
    BY <2>4 DEF FlushAndClose
  <2> QED BY <1>1, <2>1, <2>2, <2>3, <2>4 DEF WriteStep
<1>2. CASE AdoptStep(w)
  <2>1. CASE LookAt(w)
    BY <2>1 DEF LookAt
  <2>2. CASE GiveUp(w)
    BY <2>2 DEF GiveUp
  <2>3. CASE OpenTarget(w)
    BY <2>3 DEF OpenTarget
  <2>4. CASE Compare(w)
    BY <2>4 DEF Compare
  <2>5. CASE CaptureFails(w)
    <3>1. CASE Raise(w, "lstat", "denied")
      BY <2>5, <3>1 DEF CaptureFails
    <3>2. CASE Raise(w, "fstat", "denied")
      BY <2>5, <3>2 DEF CaptureFails
    <3> QED BY <2>5, <3>1, <3>2 DEF CaptureFails
  <2> QED BY <1>2, <2>1, <2>2, <2>3, <2>4, <2>5 DEF AdoptStep
<1>3. CASE CommitStep(w)
  <2>1. CASE Rename(w)
    BY <2>1 DEF Rename
  <2>2. CASE RenameRefused(w)
    BY <2>2 DEF RenameRefused
  <2>3. CASE Link(w)
    BY <2>3 DEF Link
  <2>4. CASE CannotLink(w)
    BY <2>4 DEF CannotLink
  <2>5. CASE NameTaken(w)
    <3>1. CASE Raise(w, "link", "exists")
      BY <2>5, <3>1 DEF NameTaken
    <3>2. CASE Raise(w, "reserve", "exists")
      BY <2>5, <3>2 DEF NameTaken
    <3> QED BY <2>5, <3>1, <3>2 DEF NameTaken
  <2>6. CASE Discard(w)
    BY <2>6 DEF Discard
  <2>7. CASE DiscardRefused(w)
    BY <2>7 DEF DiscardRefused
  <2>8. CASE Reserve(w)
    BY <2>8 DEF Reserve
  <2>9. CASE Identify(w)
    BY <2>9 DEF Identify
  <2>10. CASE RenameOver(w)
    BY <2>10 DEF RenameOver
  <2>11. CASE RenameOverFails(w)
    BY <2>11 DEF RenameOverFails
  <2>12. CASE SameStat(w)
    BY <2>12 DEF SameStat
  <2>13. CASE Unreserve(w)
    BY <2>13 DEF Unreserve
  <2>14. CASE Return(w)
    BY <2>14 DEF Return
  <2> QED BY <1>3, <2>1, <2>2, <2>3, <2>4, <2>5, <2>6, <2>7, <2>8,
              <2>9, <2>10, <2>11, <2>12, <2>13, <2>14 DEF CommitStep
<1>4. CASE ExitStep(w)
  <2>1. CASE Cleanup(w)
    BY <2>1 DEF Cleanup
  <2>2. CASE CleanupRefused(w)
    BY <2>2 DEF CleanupRefused
  <2>3. CASE CallFails(w)
    BY <2>3 DEF CallFails
  <2> QED BY <1>4, <2>1, <2>2, <2>3 DEF ExitStep
<1>5. CASE Interrupt(w)
  BY <1>5 DEF Interrupt
<1>6. CASE InterruptUnguarded(w)
  <2>1. CASE Go(w, "create", "ended")
    <3>1. /\ w \in setting.callers /\ data' = [data EXCEPT ![Stage(w)] = "empty"]
          /\ staged' = [staged EXCEPT ![w] = TRUE] /\ Hold(w, Stage(w))
          /\ outcome' = [outcome EXCEPT ![w] = "cut"]
          /\ KeepPath /\ Forget(w) /\ KeepWorld
      BY <1>6, <2>1 DEF InterruptUnguarded
    <3>2. ~committed[w]
      BY <2>1
    <3>3. at # Stage(w)
      BY <3>2
    <3>4. TypeOK' /\ ControlInv'
      BY <2>1, <3>1
    <3>5. HandleInv'
      BY <2>1, <3>1
    <3>6. DataInv'
      BY <2>1, <3>1, <3>2, <3>3
    <3>7. AnswerInv'
      BY <2>1, <3>1, <3>2
    <3> QED BY <3>4, <3>5, <3>6, <3>7
  <2>2. CASE Go(w, "open", "cleanup")
    BY <1>6, <2>2 DEF InterruptUnguarded
  <2>3. CASE \E from \in {"write", "flush", "fstat", "identify"} : Go(w, from, "cleanup")
    BY <1>6, <2>3 DEF InterruptUnguarded
  <2>4. CASE \E from \in {"over", "samestat", "unreserve"} : Go(w, from, "cleanup")
    BY <1>6, <2>4 DEF InterruptUnguarded
  <2>5. CASE Go(w, "cleanup", "ended")
    BY <1>6, <2>5 DEF InterruptUnguarded
  <2> QED BY <1>6, <2>1, <2>2, <2>3, <2>4, <2>5 DEF InterruptUnguarded
<1>7. CASE Kill(w)
  BY <1>7 DEF Kill
<1> QED BY <1>1, <1>2, <1>3, <1>4, <1>5, <1>6, <1>7 DEF WriterStep

LEMMA OthersLeaveMine ==
  ASSUME TypeOK, NEW w \in Writers, NEW v \in Writers \ {w},
         WriterStep(v) \/ Interrupt(v) \/ InterruptUnguarded(v) \/ Kill(v)
  PROVE  UNCHANGED <<pc[w], outcome[w], committed[w], staged[w], handle[w]>>
<1> USE DEF TypeOK
<1>1. CASE WriteStep(v)
  BY <1>1 DEF WriteStep, CreateStaging, CreateFails, Write, FlushAndClose
<1>2. CASE AdoptStep(v)
  BY <1>2 DEF AdoptStep, LookAt, GiveUp, OpenTarget, Compare, CaptureFails
<1>3. CASE CommitStep(v)
  BY <1>3 DEF CommitStep, Rename, RenameRefused, Link, CannotLink, NameTaken, Discard,
              DiscardRefused, Reserve, Identify, RenameOver, RenameOverFails, SameStat, Unreserve,
              Return
<1>4. CASE ExitStep(v)
  BY <1>4 DEF ExitStep, Cleanup, CleanupRefused, CallFails
<1>5. CASE Interrupt(v) \/ InterruptUnguarded(v) \/ Kill(v)
  BY <1>5 DEF Interrupt, InterruptUnguarded, Kill
<1> QED BY <1>1, <1>2, <1>3, <1>4, <1>5 DEF WriterStep

LEMMA EnvMoves ==
  ASSUME WriterInv, EnvStep
  PROVE  WriterInv'
<1> USE DEF WriterInv, TypeOK, ControlInv, HandleInv, CutShort, DataInv, AnswerInv, local
<1>1. CASE EnvCreate
  BY <1>1, EnvInode, InodeOf, Distinct DEF EnvCreate, EnvPut
<1>2. CASE EnvRemove \/ ScanStarts \/ ScanEnds
  BY <1>2, Distinct DEF EnvRemove, ScanStarts, ScanEnds
<1> QED BY <1>1, <1>2 DEF EnvStep

LEMMA WriterCorrect == Spec => []WriterInv
<1>1. WriterInv /\ [Next]_wvars => WriterInv'
  <2> SUFFICES ASSUME WriterInv, [Next]_wvars PROVE WriterInv'
    OBVIOUS
  <2>1. CASE UNCHANGED wvars
    BY <2>1 DEF wvars, WriterInv, TypeOK, ControlInv, HandleInv, CutShort, DataInv, AnswerInv
  <2> QED BY <2>1, WriterMoves, EnvMoves DEF Next
<1> QED BY <1>1, InitWriter, PTL DEF Spec

\* The state is always well typed, and a writer is only at calls its flag and the volume allow.
THEOREM TypeCorrect == Spec => [](TypeOK /\ ControlInv)
  BY WriterCorrect, PTL DEF WriterInv

-----------------------------------------------------------------------------
(* Who is in the way.                                                        *)

LEMMA InUseElsewhere ==
  ASSUME NEW w \in Writers, handle[w] = Nothing, NEW i, InUse(i)
  PROVE  OpenElsewhere(w, i)
  BY DEF InUse, OpenElsewhere

\* For any number of writers and of scanners: what is refused because a file is open is open to
\* somebody else, and a part file stays only where somebody else has it open to the last try, or
\* an interrupt fell where no handler discards it.
THEOREM OthersStandInTheWay == Spec => OnlyOthersStandInTheWay
<1> DEFINE Excused(w) ==
      /\ outcome'[w] = "busy" /\ outcome[w] # "busy" =>
           OpenElsewhere(w, Stage(w)) \/ OpenElsewhere(w, at)
      /\ /\ pc[w] # "return" /\ pc'[w] # pc[w] /\ pc'[w] \in {"return", "ended"}
         /\ staged'[w] /\ outcome'[w] # "cut"
         => OpenElsewhere(w, Stage(w))
<1>1. ASSUME WriterInv, NEW w \in Writers,
             WriterStep(w) \/ Interrupt(w) \/ InterruptUnguarded(w) \/ Kill(w)
      PROVE  Excused(w)
  <2> USE <1>1 DEF WriterInv, TypeOK, HandleInv, CutShort, ControlInv
  <2>1. CASE WriteStep(w)
    BY <2>1 DEF WriteStep, CreateStaging, CreateFails, Write, FlushAndClose
  <2>2. CASE AdoptStep(w)
    BY <2>2 DEF AdoptStep, LookAt, GiveUp, OpenTarget, Compare, CaptureFails
  <2>3. CASE CommitStep(w)
    <3>1. CASE RenameRefused(w) \/ RenameOverFails(w)
      BY <3>1, InUseElsewhere DEF RenameRefused, RenameOverFails, Movable
    <3>2. CASE DiscardRefused(w)
      BY <3>2, InUseElsewhere DEF DiscardRefused
    <3>3. CASE Rename(w) \/ Link(w) \/ CannotLink(w) \/ NameTaken(w) \/ Discard(w) \/ Reserve(w)
      BY <3>3 DEF Rename, Link, CannotLink, NameTaken, Discard, Reserve
    <3>4. CASE Identify(w) \/ RenameOver(w) \/ SameStat(w) \/ Unreserve(w) \/ Return(w)
      BY <3>4 DEF Identify, RenameOver, SameStat, Unreserve, Return
    <3> QED BY <2>3, <3>1, <3>2, <3>3, <3>4 DEF CommitStep
  <2>4. CASE ExitStep(w)
    <3>1. CASE CleanupRefused(w)
      BY <3>1, InUseElsewhere DEF CleanupRefused
    <3>2. CASE Cleanup(w) \/ CallFails(w)
      BY <3>2 DEF Cleanup, CallFails
    <3> QED BY <2>4, <3>1, <3>2 DEF ExitStep
  <2>5. CASE Interrupt(w) \/ InterruptUnguarded(w) \/ Kill(w)
    BY <2>5 DEF Interrupt, InterruptUnguarded, Kill
  <2> QED BY <1>1, <2>1, <2>2, <2>3, <2>4, <2>5 DEF WriterStep
<1>2. ASSUME WriterInv, NEW w \in Writers, NEW v \in Writers \ {w},
             WriterStep(v) \/ Interrupt(v) \/ InterruptUnguarded(v) \/ Kill(v)
      PROVE  Excused(w)
  <2>1. outcome'[w] = outcome[w] /\ pc'[w] = pc[w]
    BY <1>2, OthersLeaveMine DEF WriterInv
  <2> QED BY <2>1
<1>3. ASSUME NEW w \in Writers, EnvStep \/ UNCHANGED wvars PROVE Excused(w)
  BY <1>3 DEF EnvStep, EnvCreate, EnvRemove, ScanStarts, ScanEnds, local, wvars
<1>4. WriterInv /\ [Next]_wvars => [\A w \in Writers : Excused(w)]_wvars
  BY <1>1, <1>2, <1>3 DEF Next
<1> QED BY <1>4, WriterCorrect, PTL DEF Spec, OnlyOthersStandInTheWay

-----------------------------------------------------------------------------
(* The contract.  A reservation that somebody opens cannot be replaced or taken back, which is *)
(* what the run WindowsReservation shows; what follows is about the others.                    *)

\* Where there are reservations at all, scanners pass them by and no call overwrites: one that
\* does would open whatever it finds at the name.
ReservationsUnopened ==
  \A s \in Settings : s.links \/ ("holder" \notin Scannable /\ s.callers \cap Overwriting = {})

\* The name is a writer's from its reservation until it lets go, which only the end of the
\* process or an interrupt between its handlers keeps it from.
HeldInv ==
  /\ at \in Holders => ~setting.links
  /\ scanned \cap Holders = {}
  /\ \A w \in Writers :
       /\ pc[w] \in Reserved => at = Holder(w)
       /\ at = Holder(w) => pc[w] \in Reserved \cup {"killed"} \/ CutShort(w)
       /\ handle[w] \in Holders =>
            handle[w] = Holder(w) /\ (pc[w] = "identify" \/ CutShort(w))

LEMMA InitHeld == Init => HeldInv
  BY Distinct, HoldersAre DEF Init, HeldInv, CutShort, Reserved

LEMMA WriterHolds ==
  ASSUME ReservationsUnopened, WriterInv, HeldInv, NEW w \in Writers,
         WriterStep(w) \/ Interrupt(w) \/ InterruptUnguarded(w) \/ Kill(w)
  PROVE  HeldInv'
<1> USE InodeOf, Distinct, HoldersAre
        DEF WriterInv, TypeOK, ControlInv, HandleInv, CutShort, HeldInv,
            Adopting, Linking, Reserving, Reserved, Leaving
<1>0. pc[w] \in Adopting => setting.links /\ at \notin Holders
  BY ReservationsUnopened DEF ReservationsUnopened
<1>1. CASE WriteStep(w)
  <2>1. CASE CreateStaging(w)
    BY <2>1 DEF CreateStaging
  <2>2. CASE CreateFails(w)
    BY <2>2 DEF CreateFails
  <2>3. CASE Write(w)
    BY <2>3 DEF Write
  <2>4. CASE FlushAndClose(w)
    BY <2>4 DEF FlushAndClose
  <2> QED BY <1>1, <2>1, <2>2, <2>3, <2>4 DEF WriteStep
<1>2. CASE AdoptStep(w)
  <2>1. CASE LookAt(w)
    BY <2>1 DEF LookAt
  <2>2. CASE GiveUp(w)
    BY <2>2 DEF GiveUp
  <2>3. CASE OpenTarget(w)
    BY <1>0, <2>3 DEF OpenTarget
  <2>4. CASE Compare(w)
    BY <2>4 DEF Compare
  <2>5. CASE CaptureFails(w)
    BY <2>5 DEF CaptureFails
  <2> QED BY <1>2, <2>1, <2>2, <2>3, <2>4, <2>5 DEF AdoptStep
<1>3. CASE CommitStep(w)
  <2>1. CASE Rename(w)
    BY <1>0, <2>1 DEF Rename
  <2>2. CASE RenameRefused(w)
    BY <2>2 DEF RenameRefused
  <2>3. CASE Link(w)
    BY <2>3 DEF Link
  <2>4. CASE CannotLink(w)
    BY <2>4 DEF CannotLink
  <2>5. CASE NameTaken(w)
    BY <2>5 DEF NameTaken
  <2>6. CASE Discard(w)
    BY <2>6 DEF Discard
  <2>7. CASE DiscardRefused(w)
    BY <2>7 DEF DiscardRefused
  <2>8. CASE Reserve(w)
    BY <2>8 DEF Reserve
  <2>9. CASE Identify(w)
    BY <2>9 DEF Identify
  <2>10. CASE RenameOver(w)
    BY <2>10 DEF RenameOver
  <2>11. CASE RenameOverFails(w)
    BY <2>11 DEF RenameOverFails
  <2>12. CASE SameStat(w)
    BY <2>12 DEF SameStat
  <2>13. CASE Unreserve(w)
    <3>1. at = Holder(w) /\ ~InUse(at)
      BY <2>13 DEF Unreserve, InUse
    <3> QED BY <2>13, <3>1 DEF Unreserve
  <2>14. CASE Return(w)
    BY <2>14 DEF Return
  <2> QED BY <1>3, <2>1, <2>2, <2>3, <2>4, <2>5, <2>6, <2>7, <2>8,
              <2>9, <2>10, <2>11, <2>12, <2>13, <2>14 DEF CommitStep
<1>4. CASE ExitStep(w)
  <2>1. CASE Cleanup(w)
    BY <2>1 DEF Cleanup
  <2>2. CASE CleanupRefused(w)
    BY <2>2 DEF CleanupRefused
  <2>3. CASE CallFails(w)
    BY <2>3 DEF CallFails
  <2> QED BY <1>4, <2>1, <2>2, <2>3 DEF ExitStep
<1>5. CASE Interrupt(w)
  BY <1>5 DEF Interrupt
<1>6. CASE InterruptUnguarded(w)
  <2>1. CASE Go(w, "create", "ended")
    BY <1>6, <2>1 DEF InterruptUnguarded
  <2>2. CASE Go(w, "open", "cleanup")
    BY <1>0, <1>6, <2>2 DEF InterruptUnguarded
  <2>3. CASE \E from \in {"write", "flush", "fstat", "identify"} : Go(w, from, "cleanup")
    BY <1>6, <2>3 DEF InterruptUnguarded
  <2>4. CASE \E from \in {"over", "samestat", "unreserve"} : Go(w, from, "cleanup")
    BY <1>6, <2>4 DEF InterruptUnguarded
  <2>5. CASE Go(w, "cleanup", "ended")
    BY <1>6, <2>5 DEF InterruptUnguarded
  <2> QED BY <1>6, <2>1, <2>2, <2>3, <2>4, <2>5 DEF InterruptUnguarded
<1>7. CASE Kill(w)
  BY <1>7 DEF Kill
<1> QED BY <1>1, <1>2, <1>3, <1>4, <1>5, <1>6, <1>7 DEF WriterStep

LEMMA EnvHolds ==
  ASSUME ReservationsUnopened, WriterInv, HeldInv, EnvStep
  PROVE  HeldInv'
<1> USE Distinct, HoldersAre DEF WriterInv, TypeOK, ControlInv, CutShort, HeldInv, Reserved, local
<1>1. CASE EnvCreate
  BY <1>1 DEF EnvCreate, EnvPut
<1>2. CASE EnvRemove
  BY <1>2 DEF EnvRemove, Free
<1>3. CASE ScanStarts
  <2>1. PICK i \in Inode \ scanned : i[1] \in Scannable /\ Named(i) /\ scanned' = scanned \cup {i}
    BY <1>3 DEF ScanStarts
  <2>2. i \notin Holders
    BY <2>1, ReservationsUnopened DEF Named, Holders, Holder, ReservationsUnopened
  <2> QED BY <1>3, <2>1, <2>2 DEF ScanStarts
<1>4. CASE ScanEnds
  BY <1>4 DEF ScanEnds
<1> QED BY <1>1, <1>2, <1>3, <1>4 DEF EnvStep

LEMMA HeldStep ==
  ASSUME ReservationsUnopened
  PROVE  WriterInv /\ HeldInv /\ [Next]_wvars => HeldInv'
<1> SUFFICES ASSUME WriterInv, HeldInv, [Next]_wvars PROVE HeldInv'
  OBVIOUS
<1>1. CASE UNCHANGED wvars
  BY <1>1 DEF wvars, HeldInv, CutShort
<1> QED BY <1>1, ReservationsUnopened, WriterHolds, EnvHolds DEF Next

\* What the path leads to, as the contract sees it: a document there is whole.
EntryShape ==
  /\ at = Nothing => Entry = AVacant
  /\ \A w \in Writers : at = Holder(w) => Entry = <<"held", w>>
  /\ \A w \in Writers : at = Stage(w) => Entry = <<"whole", w>>
  /\ at # Nothing /\ (\A w \in Writers : at # Stage(w) /\ at # Holder(w)) => Entry = AForeign

LEMMA EntryIs == DataInv => EntryShape
<1> SUFFICES ASSUME DataInv PROVE EntryShape
  OBVIOUS
<1>1. ASSUME NEW w \in Writers, at = Stage(w) PROVE Entry = <<"whole", w>>
  <2>1. data[at] = "whole" /\ at[2] = w
    BY <1>1 DEF DataInv, Stage
  <2> QED BY <1>1, <2>1, Distinct, HoldersAre DEF Entry
<1>2. ASSUME NEW w \in Writers, at = Holder(w) PROVE Entry = <<"held", w>>
  <2>1. at[2] = w
    BY <1>2 DEF Holder
  <2> QED BY <1>2, <2>1, Distinct, HoldersAre DEF Entry
<1>3. at # Nothing /\ (\A w \in Writers : at # Stage(w) /\ at # Holder(w)) => Entry = AForeign
  BY HoldersAre DEF Entry
<1> QED BY <1>1, <1>2, <1>3 DEF Entry, EntryShape

LEMMA EntryNext == DataInv' => EntryShape'
  BY EntryIs, PTL

\* While the path leads where it led, the contract sees no change of it.
LEMMA EntrySame ==
  ASSUME DataInv, DataInv', at' = at
  PROVE  Entry' = Entry
  BY EntryIs, EntryNext DEF EntryShape

Delivered == {w \in Writers : committed[w]}
Answers == [w \in Writers |-> Verdict(w)]

\* A step that neither moves the path nor delivers nor ends a call is none of the contract's.
LEMMA Unseen ==
  ASSUME DataInv, DataInv', UNCHANGED <<at, committed, Answers>>
  PROVE  UNCHANGED <<Entry, Delivered, Answers>>
  BY EntrySame DEF Delivered

\* The name is held by the writer whose reservation is there, and by nobody else.
LEMMA HoldersHold ==
  ASSUME EntryShape, NEW w \in Writers, at # Holder(w)
  PROVE  Entry # <<"held", w>>
<1>1. \/ Entry \in {AVacant, AForeign}
      \/ \E v \in Writers : Entry = <<"whole", v>>
      \/ \E v \in Writers : Entry = <<"held", v>> /\ v # w
  BY DEF EntryShape
<1>2. \A x : /\ <<"vacant", x>> # <<"held", w>> /\ <<"foreign", x>> # <<"held", w>>
             /\ <<"whole", x>> # <<"held", w>>
             /\ <<"held", x>> = <<"held", w>> => x = w
  OBVIOUS
<1> QED BY <1>1, <1>2 DEF AVacant, AForeign

\* Ending a call answers it, with what it delivered.
LEMMA Answered ==
  ASSUME WriterInv, WriterInv', UNCHANGED <<at, committed>>,
         NEW w \in Writers, pc[w] \notin {"ended", "killed"}, NEW to \in {"ended", "killed"},
         pc' = [pc EXCEPT ![w] = to],
         \A v \in Writers \ {w} : outcome'[v] = outcome[v],
         to = "ended" => /\ outcome'[w] \in {"ok", "exists", "denied", "busy", "error",
                                             "interrupted", "cut"}
                         /\ outcome'[w] = "ok" => committed[w]
                         /\ outcome'[w] # "cut" => at # Holder(w)
  PROVE  Atomic!Answer(w)
<1> USE DEF WriterInv, TypeOK
<1>1. Entry' = Entry /\ Delivered' = Delivered
  BY EntrySame DEF Delivered
<1>2. Answers[w] = "open" /\ Answers' = [Answers EXCEPT ![w] = Verdict(w)']
  <2>1. Verdict(w) = "open"
    BY DEF Verdict
  <2>2. ASSUME NEW v \in Writers \ {w} PROVE Verdict(v)' = Verdict(v)
    <3>1. pc'[v] = pc[v] /\ outcome'[v] = outcome[v]
      BY <2>2
    <3> QED BY <3>1 DEF Verdict
  <2> QED BY <2>1, <2>2 DEF Answers
<1>3. /\ w \in Delivered => Verdict(w)' \in {"success", "stopped"}
      /\ w \notin Delivered => Verdict(w)' \in {"failure", "stopped"}
  <2>1. pc'[w] = to
    OBVIOUS
  <2>2. committed[w] /\ to = "ended" => outcome'[w] \in {"ok", "interrupted", "cut"}
    BY <2>1 DEF AnswerInv
  <2> QED BY <2>1, <2>2 DEF Delivered, Verdict
<1>4. Verdict(w)' # "stopped" => Entry # <<"held", w>>
  <2>1. Verdict(w)' # "stopped" => at # Holder(w)
    BY DEF Verdict
  <2> QED BY <2>1, EntryIs, HoldersHold
<1> QED BY <1>1, <1>2, <1>3, <1>4 DEF Atomic!Answer, Delivered, Answers

\* Putting the file in place delivers it.
LEMMA Delivers ==
  ASSUME WriterInv, WriterInv', NEW w \in Writers,
         pc[w] \notin {"ended", "killed"}, ~committed[w],
         w \in Overwriting \/ at \in {Nothing, Holder(w)},
         NEW to \in Steps \ {"ended", "killed"}, pc' = [pc EXCEPT ![w] = to],
         outcome' = outcome, PutInPlace(w)
  PROVE  Atomic!Deliver(w)
<1> USE DEF WriterInv, TypeOK
<1>1. Entry' = <<"whole", w>>
  BY EntryNext DEF EntryShape
<1>2. w \in Overwriting \/ Entry \in {AVacant, <<"held", w>>}
  BY EntryIs DEF EntryShape
<1>3. Answers' = Answers /\ Answers[w] = "open"
  BY DEF Answers, Verdict
<1>4. w \notin Delivered /\ Delivered' = Delivered \cup {w}
  BY DEF Delivered
<1> QED BY <1>1, <1>2, <1>3, <1>4 DEF Atomic!Deliver, Delivered, Answers

\* A reservation holds the name, and taking it back lets go of it.
LEMMA Reserves ==
  ASSUME WriterInv, HeldInv, WriterInv', NEW w \in Writers, Reserve(w) \/ Unreserve(w)
  PROVE  Atomic!Hold(w) \/ Atomic!LetGo(w)
<1> USE DEF WriterInv, TypeOK
<1>1. UNCHANGED <<Delivered, Answers>> /\ Answers[w] = "open"
  BY DEF Reserve, Unreserve, Delivered, Answers, Verdict
<1>2. CASE Reserve(w)
  <2>1. setting \in Settings /\ ~setting.links /\ ~committed[w]
    BY <1>2 DEF Reserve, ControlInv, Reserving, AnswerInv
  <2>2. Entry = AVacant /\ Entry' = <<"held", w>>
    BY <1>2, EntryIs, EntryNext DEF Reserve, EntryShape
  <2> QED BY <1>1, <2>1, <2>2 DEF Atomic!Hold, Delivered, Answers
<1>3. CASE Unreserve(w)
  <2>1. at = Holder(w)
    BY <1>3 DEF Unreserve, HeldInv, Reserved
  <2>2. ~InUse(at)
    BY <1>3, <2>1, Distinct, HoldersAre DEF Unreserve, HeldInv, CutShort, InUse
  <2>3. Entry = <<"held", w>> /\ Entry' = AVacant
    BY <1>3, <2>1, <2>2, EntryIs, EntryNext DEF EntryShape, Unreserve
  <2> QED BY <1>1, <2>3 DEF Atomic!LetGo, Delivered, Answers
<1> QED BY <1>2, <1>3

\* What a step of the contract's may be, for one writer.
Contract(w) == \/ UNCHANGED <<Entry, Delivered, Answers>>
               \/ Atomic!Hold(w) \/ Atomic!LetGo(w) \/ Atomic!Deliver(w) \/ Atomic!Answer(w)

LEMMA WriterImplements ==
  ASSUME WriterInv, HeldInv, WriterInv', NEW w \in Writers,
         WriterStep(w) \/ Interrupt(w) \/ InterruptUnguarded(w) \/ Kill(w)
  PROVE  Contract(w)
<1> DEFINE Silent == UNCHANGED <<at, committed, Answers>>
<1> USE DEF WriterInv, TypeOK, Contract
<1>1. CASE WriteStep(w)
  <2>1. CASE CreateFails(w)
    <3>1. at # Holder(w) /\ ~committed[w]
      BY <2>1 DEF CreateFails, HeldInv, CutShort, Reserved, AnswerInv
    <3> QED BY <2>1, <3>1, Answered DEF CreateFails
  <2>2. CASE CreateStaging(w) \/ Write(w) \/ FlushAndClose(w)
    <3>1. Silent
      BY <2>2 DEF CreateStaging, Write, FlushAndClose, Answers, Verdict
    <3> QED BY <3>1, Unseen
  <2> QED BY <1>1, <2>1, <2>2 DEF WriteStep
<1>2. CASE AdoptStep(w)
  <2>1. Silent
    BY <1>2 DEF AdoptStep, LookAt, GiveUp, OpenTarget, Compare, CaptureFails, Answers, Verdict
  <2> QED BY <2>1, Unseen
<1>3. CASE CommitStep(w)
  <2>1. CASE Rename(w) \/ Link(w)
    <3>1. ~committed[w] /\ (Rename(w) => w \in Overwriting)
      BY <2>1 DEF Rename, Link, AnswerInv, ControlInv, Adopting
    <3> QED BY <2>1, <3>1, Delivers DEF Rename, Link, Steps
  <2>2. CASE RenameOver(w)
    <3>1. ~committed[w] /\ at = Holder(w)
      BY <2>2 DEF RenameOver, AnswerInv, HeldInv, Reserved
    <3> QED BY <2>2, <3>1, Delivers DEF RenameOver, Steps
  <2>3. CASE Return(w)
    <3>1. committed[w] /\ at # Holder(w)
      BY <2>3 DEF Return, AnswerInv, HeldInv, CutShort, Reserved
    <3> QED BY <2>3, <3>1, Answered DEF Return
  <2>4. CASE Reserve(w) \/ Unreserve(w)
    BY <2>4, Reserves
  <2>5. CASE RenameRefused(w) \/ CannotLink(w) \/ NameTaken(w) \/ Discard(w) \/ DiscardRefused(w)
               \/ Identify(w) \/ RenameOverFails(w) \/ SameStat(w)
    <3>1. Silent
      BY <2>5 DEF RenameRefused, CannotLink, NameTaken, Discard, DiscardRefused, Identify,
                  RenameOverFails, SameStat, Answers, Verdict
    <3> QED BY <3>1, Unseen
  <2> QED BY <1>3, <2>1, <2>2, <2>3, <2>4, <2>5 DEF CommitStep
<1>4. CASE ExitStep(w)
  <2>1. CASE CallFails(w)
    <3>1. Silent
      BY <2>1 DEF CallFails, Answers, Verdict
    <3> QED BY <3>1, Unseen
  <2>2. CASE (Cleanup(w) \/ CleanupRefused(w)) /\ pc'[w] = "ended"
    <3>1. /\ outcome[w] \in {"exists", "denied", "busy", "error", "interrupted", "cut"}
          /\ outcome[w] # "cut" => at # Holder(w)
      BY <2>2 DEF Cleanup, CleanupRefused, HeldInv, CutShort, Reserved, AnswerInv
    <3>2. /\ pc[w] = "cleanup" /\ pc' = [pc EXCEPT ![w] = "ended"]
          /\ UNCHANGED <<at, committed, outcome>>
      BY <2>2 DEF Cleanup, CleanupRefused
    <3> QED BY <3>1, <3>2, Answered
  <2>3. CASE CleanupRefused(w) /\ pc'[w] # "ended"
    <3>1. Silent
      BY <2>3 DEF CleanupRefused, Answers, Verdict
    <3> QED BY <3>1, Unseen
  <2> QED BY <1>4, <2>1, <2>2, <2>3 DEF ExitStep, Cleanup
<1>5. CASE Interrupt(w)
  <2>1. Silent
    BY <1>5 DEF Interrupt, Answers, Verdict
  <2> QED BY <2>1, Unseen
<1>6. CASE InterruptUnguarded(w)
  <2>1. CASE pc'[w] = "ended"
    <3>1. /\ pc[w] \in {"create", "cleanup"} /\ pc' = [pc EXCEPT ![w] = "ended"]
          /\ outcome'[w] = "cut" /\ UNCHANGED <<at, committed>>
          /\ \A v \in Writers \ {w} : outcome'[v] = outcome[v]
      BY <1>6, <2>1 DEF InterruptUnguarded
    <3> QED BY <3>1, Answered
  <2>2. CASE pc'[w] # "ended"
    <3>1. Silent
      BY <1>6, <2>2 DEF InterruptUnguarded, Answers, Verdict
    <3> QED BY <3>1, Unseen
  <2> QED BY <2>1, <2>2
<1>7. CASE Kill(w)
  BY <1>7, Answered DEF Kill
<1> QED BY <1>1, <1>2, <1>3, <1>4, <1>5, <1>6, <1>7 DEF WriterStep

\* What other programs do to the path, the contract lets them do.
LEMMA OthersImplement ==
  ASSUME WriterInv, WriterInv', EnvStep
  PROVE  UNCHANGED <<Entry, Delivered, Answers>> \/ Atomic!OthersAct
<1>1. UNCHANGED <<committed, pc, outcome>>
  BY DEF EnvStep, EnvCreate, EnvRemove, ScanStarts, ScanEnds, local
<1>2. UNCHANGED <<Delivered, Answers>>
  BY <1>1 DEF Delivered, Answers, Verdict
<1>3. CASE at' = at
  BY <1>2, <1>3, EntrySame DEF WriterInv
<1>4. CASE at' # at
  <2>1. at' = Nothing \/ \E e \in EnvFiles : at' = <<"env", e>>
    BY <1>4 DEF EnvStep, EnvCreate, EnvPut, EnvRemove, ScanStarts, ScanEnds
  <2>2. at' # Nothing => Entry' = AForeign
    BY <2>1, EntryNext, Distinct DEF EntryShape, WriterInv
  <2>3. at' = Nothing => Entry' = AVacant
    BY EntryNext DEF EntryShape, WriterInv
  <2> QED BY <1>2, <2>2, <2>3 DEF Atomic!OthersAct, Delivered, Answers
<1> QED BY <1>3, <1>4

\* On any volume, with any number of writers, of scanners that open documents at any moment, of
\* other programs, failures, interrupts and kills, the Windows branch keeps the contract of the
\* POSIX writer, as long as nobody opens a reservation (_staged_output_windows).
THEOREM Implements ==
  ASSUME ReservationsUnopened
  PROVE  Spec => ImplementsAtomicOutput
<1>1. Init => Atomic!AInit
  BY DEF Init, Atomic!AInit, Entry, Verdict
<1>2. ASSUME WriterInv, HeldInv, WriterInv', [Next]_wvars
      PROVE  [Atomic!ANext]_Atomic!avars
  <2>1. CASE UNCHANGED wvars
    <3>1. UNCHANGED <<Entry, Delivered, Answers>>
      BY <1>2, <2>1, Unseen DEF WriterInv, wvars, Answers, Verdict
    <3> QED BY <3>1 DEF Atomic!avars, Delivered, Answers
  <2>2. ASSUME NEW w \in Writers, WriterStep(w) \/ Interrupt(w) \/ InterruptUnguarded(w) \/ Kill(w)
        PROVE  [Atomic!ANext]_Atomic!avars
    <3>1. Contract(w)
      BY <1>2, <2>2, WriterImplements
    <3> QED BY <3>1 DEF Contract, Atomic!avars, Atomic!ANext, Delivered, Answers
  <2>3. CASE EnvStep
    <3>1. UNCHANGED <<Entry, Delivered, Answers>> \/ Atomic!OthersAct
      BY <1>2, <2>3, OthersImplement
    <3> QED BY <3>1 DEF Atomic!avars, Atomic!ANext, Delivered, Answers
  <2> QED BY <1>2, <2>1, <2>2, <2>3 DEF Next
<1>3. WriterInv /\ HeldInv /\ [Next]_wvars => HeldInv'
  BY ReservationsUnopened, HeldStep
<1> QED BY <1>1, <1>2, <1>3, InitHeld, WriterCorrect, PTL
        DEF Spec, ImplementsAtomicOutput, Atomic!ASpec
=============================================================================
