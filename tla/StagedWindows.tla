--------------------------- MODULE StagedWindows ---------------------------
(***************************************************************************)
(* The Windows branch of the staged writer (_staged_output_windows of      *)
(* signing.py and what it calls).  Windows refuses to rename or delete a   *)
(* file that anybody holds open: the writer itself, another writer looking *)
(* at what it replaces, or a virus scanner.  One action per system call;   *)
(* the contract is the one of AtomicOutput.                                *)
(***************************************************************************)
EXTENDS Integers, FiniteSets

CONSTANTS
  Writers,       \* calls of _staged_output on one output path
  Overwriting,   \* those with overwrite=True
  Settings,      \* the cases: [links, callers], hard links or not and who calls
  EnvFiles,      \* files other programs may put at the path
  Scannable,     \* what scanners open: subset of {"stage", "holder", "env"}
  Scanners,      \* how many files they have open at once, at most
  EnvOps,        \* what other programs do: subset of {"create", "remove"}
  Faults,        \* what may go wrong: subset of {"io", "interrupt", "kill"}
  Attempts,      \* _ADOPT_ATTEMPTS
  Tries,         \* _DISCARD_ATTEMPTS
  Nothing        \* no inode

Stage(w)  == <<"stage", w>>
Holder(w) == <<"holder", w>>
Inode == {"stage", "holder"} \X Writers \cup {"env"} \X EnvFiles
Holders == {"holder"} \X Writers

ASSUME CallAssumption ==
  /\ Overwriting \subseteq Writers /\ Attempts \in Nat \ {0} /\ Tries \in Nat \ {0}
  /\ Settings \subseteq [links : BOOLEAN, callers : SUBSET Writers]
  /\ Scanners \in Nat /\ Nothing \notin Inode

VARIABLES
  setting,    \* the case
  at,         \* the inode the output's name leads to, or Nothing
  data,       \* inode -> "none", "special" (a link or no regular file), or what it holds
  staged,     \* writer -> whether its .firmauy-*.part name exists
  handle,     \* writer -> the inode it has open, or Nothing
  scanned,    \* the inodes other programs have open
  pc,         \* writer -> the system call it is about to make
  looked,     \* writer -> the inode its lstat answered
  attempt,    \* writer -> captures started
  tries,      \* writer -> refusals in the current _discard_staging
  outcome,    \* writer -> how the call ended: "cut" is an interrupt where no handler cleans up
  committed   \* writer -> whether its document ever was at the path (history)

wvars == <<setting, at, data, staged, handle, scanned, pc, looked, attempt, tries,
           outcome, committed>>

Steps == {"create", "write", "flush", "lstat", "open", "fstat", "rename", "link", "discard",
          "reserve", "identify", "over", "samestat", "unreserve", "return",
          "cleanup", "ended", "killed"}
\* "busy" is the PermissionError of a file that is open somewhere; "denied" is
\* OutputAccessControlError.
Outcomes == {"none", "ok", "exists", "denied", "busy", "error", "interrupted", "cut"}

TypeOK ==
  /\ setting \in Settings
  /\ at \in Inode \cup {Nothing}
  /\ data \in [Inode -> {"none", "special", "empty", "partial", "whole"}]
  /\ staged \in [Writers -> BOOLEAN]
  /\ handle \in [Writers -> Inode \cup {Nothing}]
  /\ scanned \in SUBSET Inode
  /\ pc \in [Writers -> Steps]
  /\ looked \in [Writers -> Inode \cup {Nothing}]
  /\ attempt \in [Writers -> 0..Attempts]
  /\ tries \in [Writers -> 0..Tries]
  /\ outcome \in [Writers -> Outcomes]
  /\ committed \in [Writers -> BOOLEAN]

Init ==
  /\ setting \in Settings
  /\ at = Nothing
  /\ data = [i \in Inode |-> "none"]
  /\ staged = [w \in Writers |-> FALSE]
  /\ handle = [w \in Writers |-> Nothing]
  /\ scanned = {}
  /\ pc = [w \in Writers |-> "create"]
  /\ looked = [w \in Writers |-> Nothing]
  /\ attempt = [w \in Writers |-> 0]
  /\ tries = [w \in Writers |-> 0]
  /\ outcome = [w \in Writers |-> "none"]
  /\ committed = [w \in Writers |-> FALSE]

-----------------------------------------------------------------------------
(* What a step of a writer changes.                                          *)

Go(w, from, to) == pc[w] = from /\ pc' = [pc EXCEPT ![w] = to]
Hold(w, i) == handle' = [handle EXCEPT ![w] = i]

\* What only the frames that are left knew.
Forget(w) == /\ looked' = [looked EXCEPT ![w] = Nothing]
             /\ attempt' = [attempt EXCEPT ![w] = 0]
             /\ tries' = [tries EXCEPT ![w] = 0]

\* An exception reaches the handler, which calls _discard_staging and re-raises.
Raise(w, from, why) == /\ Go(w, from, "cleanup")
                       /\ outcome' = [outcome EXCEPT ![w] = why]
                       /\ Forget(w)

\* Somebody has it open, and Windows will not rename it, replace it or delete it.
InUse(i) == i # Nothing /\ (i \in scanned \/ \E w \in Writers : handle[w] = i)
Movable(w) == ~InUse(Stage(w)) /\ ~InUse(at)

PutInPlace(w) == /\ at' = Stage(w)
                 /\ committed' = [committed EXCEPT ![w] = TRUE]

KeepPath    == UNCHANGED <<at, committed>>
KeepFiles   == UNCHANGED <<data, staged>>
KeepCapture == UNCHANGED <<looked, attempt>>
KeepTries   == UNCHANGED tries
KeepEnd     == UNCHANGED outcome
KeepHandle  == UNCHANGED handle
KeepWorld   == UNCHANGED <<setting, scanned>>

-----------------------------------------------------------------------------
(* The staging file.                                                         *)

CreateStaging(w) ==
  /\ w \in setting.callers
  /\ Go(w, "create", "write")
  /\ data' = [data EXCEPT ![Stage(w)] = "empty"]
  /\ staged' = [staged EXCEPT ![w] = TRUE]
  /\ Hold(w, Stage(w))
  /\ KeepPath /\ KeepCapture /\ KeepTries /\ KeepEnd /\ KeepWorld

\* The caller's body.
Write(w) ==
  /\ Go(w, "write", "flush")
  /\ data' = [data EXCEPT ![Stage(w)] = "partial"]
  /\ UNCHANGED staged
  /\ KeepHandle /\ KeepPath /\ KeepCapture /\ KeepTries /\ KeepEnd /\ KeepWorld

\* Mutant: the descriptor stays open, as on POSIX.
FlushOnly(w) ==
  /\ Go(w, "flush", IF w \in Overwriting THEN "lstat" ELSE "link")
  /\ data' = [data EXCEPT ![Stage(w)] = "whole"]
  /\ UNCHANGED staged
  /\ KeepHandle /\ KeepPath /\ KeepCapture /\ KeepTries /\ KeepEnd /\ KeepWorld

\* flush, fsync, and os.close before anything else.
FlushAndClose(w) ==
  /\ Go(w, "flush", IF w \in Overwriting THEN "lstat" ELSE "link")
  /\ data' = [data EXCEPT ![Stage(w)] = "whole"]
  /\ UNCHANGED staged
  /\ Hold(w, Nothing)
  /\ KeepPath /\ KeepCapture /\ KeepTries /\ KeepEnd /\ KeepWorld

-----------------------------------------------------------------------------
(* _adopt_replaced(None, path): is there a regular file being replaced?      *)

\* path.lstat(): nothing there, a link or something special is nothing to adopt.
LookAt(w) ==
  /\ attempt[w] < Attempts
  /\ attempt' = [attempt EXCEPT ![w] = @ + 1]
  /\ IF at = Nothing \/ at \in {i \in Inode : data[i] = "special"}
     THEN Go(w, "lstat", "rename") /\ UNCHANGED looked
     ELSE Go(w, "lstat", "open") /\ looked' = [looked EXCEPT ![w] = at]
  /\ KeepHandle /\ KeepFiles /\ KeepPath /\ KeepTries /\ KeepEnd /\ KeepWorld

GiveUp(w) ==
  /\ attempt[w] = Attempts
  /\ Raise(w, "lstat", "denied")
  /\ KeepHandle /\ KeepFiles /\ KeepPath /\ KeepWorld

\* os.open(path), which follows a link that is there by now.  Gone: _Moved.  A file that
\* cannot be opened is left to the replace.
OpenTarget(w) ==
  /\ \/ at = Nothing /\ Go(w, "open", "lstat") /\ KeepHandle
     \/ at # Nothing /\ Go(w, "open", "fstat") /\ Hold(w, at)
     \/ at # Nothing /\ Go(w, "open", "rename") /\ KeepHandle
  /\ KeepFiles /\ KeepPath /\ KeepCapture /\ KeepTries /\ KeepEnd /\ KeepWorld

\* os.fstat, os.close, and the identity compared with the lstat's: another file is _Moved.
Compare(w) ==
  /\ Go(w, "fstat", IF handle[w] = looked[w] THEN "rename" ELSE "lstat")
  /\ Hold(w, Nothing)
  /\ KeepFiles /\ KeepPath /\ KeepCapture /\ KeepTries /\ KeepEnd /\ KeepWorld

-----------------------------------------------------------------------------
(* The commit.                                                               *)

\* os.replace(tmp, path) for overwrite=True.
Rename(w) ==
  /\ Movable(w)
  /\ Go(w, "rename", "return")
  /\ PutInPlace(w)
  /\ staged' = [staged EXCEPT ![w] = FALSE]
  /\ UNCHANGED data /\ KeepHandle /\ KeepCapture /\ KeepTries /\ KeepEnd /\ KeepWorld

RenameRefused(w) ==
  /\ ~Movable(w)
  /\ Raise(w, "rename", "busy")
  /\ KeepHandle /\ KeepFiles /\ KeepPath /\ KeepWorld

\* os.link(tmp, path), which a handle on the staging file does not prevent.
Link(w) ==
  /\ setting.links /\ at = Nothing
  /\ Go(w, "link", "discard")
  /\ PutInPlace(w)
  /\ KeepHandle /\ KeepFiles /\ KeepCapture /\ KeepTries /\ KeepEnd /\ KeepWorld

\* winerror 1 or 50: FAT32, exFAT, a share without hard links.
CannotLink(w) ==
  /\ ~setting.links
  /\ Go(w, "link", "reserve")
  /\ KeepHandle /\ KeepFiles /\ KeepPath /\ KeepCapture /\ KeepTries /\ KeepEnd /\ KeepWorld

\* FileExistsError from the link or from the exclusive create: OutputExistsError.
NameTaken(w) ==
  /\ at # Nothing
  /\ \/ setting.links /\ Raise(w, "link", "exists")
     \/ Raise(w, "reserve", "exists")
  /\ KeepHandle /\ KeepFiles /\ KeepPath /\ KeepWorld

\* _discard_staging after the link: one unlink that succeeds,
Discard(w) ==
  /\ ~InUse(Stage(w))
  /\ Go(w, "discard", "return")
  /\ staged' = [staged EXCEPT ![w] = FALSE]
  /\ UNCHANGED data /\ KeepHandle /\ KeepPath /\ KeepCapture /\ KeepTries /\ KeepEnd /\ KeepWorld

\* Mutant: the last refusal is raised, as the unlink on POSIX would.
DiscardRefusedRaises(w) ==
  /\ InUse(Stage(w))
  /\ IF tries[w] + 1 < Tries
     THEN /\ Go(w, "discard", "discard") /\ KeepEnd /\ KeepCapture
          /\ tries' = [tries EXCEPT ![w] = @ + 1]
     ELSE Raise(w, "discard", "busy")
  /\ KeepHandle /\ KeepFiles /\ KeepPath /\ KeepWorld

\* or a PermissionError, tried again after a pause until the last one is let go.
DiscardRefused(w) ==
  /\ InUse(Stage(w))
  /\ tries' = [tries EXCEPT ![w] = @ + 1]
  /\ Go(w, "discard", IF tries'[w] < Tries THEN "discard" ELSE "return")
  /\ KeepEnd /\ KeepHandle /\ KeepFiles /\ KeepPath /\ KeepCapture /\ KeepWorld

\* The exclusive create of the reservation.
Reserve(w) ==
  /\ at = Nothing
  /\ Go(w, "reserve", "identify")
  /\ at' = Holder(w)
  /\ data' = [data EXCEPT ![Holder(w)] = "empty"]
  /\ Hold(w, Holder(w))
  /\ UNCHANGED <<staged, committed>> /\ KeepCapture /\ KeepTries /\ KeepEnd /\ KeepWorld

\* os.fstat(reservation), and os.close.
Identify(w) ==
  /\ Go(w, "identify", "over")
  /\ Hold(w, Nothing)
  /\ KeepFiles /\ KeepPath /\ KeepCapture /\ KeepTries /\ KeepEnd /\ KeepWorld

\* os.replace(tmp, path) over the reservation.
RenameOver(w) ==
  /\ Movable(w)
  /\ Go(w, "over", "return")
  /\ PutInPlace(w)
  /\ staged' = [staged EXCEPT ![w] = FALSE]
  /\ UNCHANGED data /\ KeepHandle /\ KeepCapture /\ KeepTries /\ KeepEnd /\ KeepWorld

\* It raises, because one of the two is open, or for another reason.
RenameOverFails(w) ==
  /\ Go(w, "over", "samestat")
  /\ \/ ~Movable(w) /\ outcome' = [outcome EXCEPT ![w] = "busy"]
     \/ "io" \in Faults /\ outcome' = [outcome EXCEPT ![w] = "error"]
     \/ "interrupt" \in Faults /\ outcome' = [outcome EXCEPT ![w] = "interrupted"]
  /\ KeepHandle /\ KeepFiles /\ KeepPath /\ KeepCapture /\ KeepTries /\ KeepWorld

\* os.path.samestat(reserved, os.lstat(path))
SameStat(w) ==
  /\ Go(w, "samestat", IF at = Holder(w) THEN "unreserve" ELSE "cleanup")
  /\ KeepHandle /\ KeepFiles /\ KeepPath /\ KeepCapture /\ KeepTries /\ KeepEnd /\ KeepWorld

\* os.unlink(path), once; an OSError is passed over.
Unreserve(w) ==
  /\ Go(w, "unreserve", "cleanup")
  /\ IF InUse(at) THEN UNCHANGED at ELSE at' = Nothing
  /\ UNCHANGED committed
  /\ KeepHandle /\ KeepFiles /\ KeepCapture /\ KeepTries /\ KeepEnd /\ KeepWorld

\* There is no mode to set after the commit.
Return(w) ==
  /\ Go(w, "return", "ended")
  /\ outcome' = [outcome EXCEPT ![w] = "ok"]
  /\ KeepHandle /\ KeepFiles /\ KeepPath /\ Forget(w) /\ KeepWorld

-----------------------------------------------------------------------------
(* Every other way out.                                                      *)

\* _discard_staging while another exception is on its way.
Cleanup(w) ==
  /\ staged[w] => ~InUse(Stage(w))
  /\ Go(w, "cleanup", "ended")
  /\ staged' = [staged EXCEPT ![w] = FALSE]
  /\ UNCHANGED data
  /\ KeepHandle /\ KeepPath /\ Forget(w) /\ KeepEnd /\ KeepWorld

\* Mutant: it waits for as long as it takes.
CleanupWaits(w) ==
  /\ staged[w] /\ InUse(Stage(w))
  /\ Go(w, "cleanup", "cleanup")
  /\ KeepHandle /\ KeepFiles /\ KeepPath /\ KeepCapture /\ KeepTries /\ KeepEnd /\ KeepWorld

CleanupRefused(w) ==
  /\ staged[w] /\ InUse(Stage(w))
  /\ tries' = [tries EXCEPT ![w] = @ + 1]
  /\ Go(w, "cleanup", IF tries'[w] < Tries THEN "cleanup" ELSE "ended")
  /\ KeepHandle /\ KeepFiles /\ KeepPath /\ KeepCapture /\ KeepEnd /\ KeepWorld

\* Creating the staging file fails: nothing to clean up.
CreateFails(w) ==
  /\ "io" \in Faults /\ w \in setting.callers
  /\ Go(w, "create", "ended")
  /\ outcome' = [outcome EXCEPT ![w] = "error"]
  /\ KeepHandle /\ KeepFiles /\ KeepPath /\ KeepCapture /\ KeepTries /\ KeepWorld

\* The body raises, or a system call with no handler of its own; the descriptor is closed first.
CallFails(w) ==
  /\ "io" \in Faults
  /\ \E from \in {"write", "flush", "rename", "link", "reserve"} : Raise(w, from, "error")
  /\ Hold(w, Nothing)
  /\ KeepFiles /\ KeepPath /\ KeepWorld

\* lstat or fstat fails for anything but a missing file: _unreadable.
CaptureFails(w) ==
  /\ "io" \in Faults
  /\ Raise(w, "lstat", "denied") \/ Raise(w, "fstat", "denied")
  /\ Hold(w, Nothing)
  /\ KeepFiles /\ KeepPath /\ KeepWorld

\* KeyboardInterrupt between two calls, where a handler closes the descriptor and discards the
\* staging file.  At the rename over a reservation it is RenameOverFails that says what happens.
Interrupt(w) ==
  /\ "interrupt" \in Faults
  /\ \E from \in {"write", "flush", "lstat", "open", "fstat", "rename", "link", "discard", "reserve",
                  "return"} : Raise(w, from, "interrupted")
  /\ Hold(w, Nothing)
  /\ KeepFiles /\ KeepPath /\ KeepWorld

\* KeyboardInterrupt where nothing takes back what the call has made: as an os.open returns, before
\* its try; in a finally before its os.close, which leaves the file open to this process; between
\* the reservation and the rename, or before the unlink of the name; and in the discard itself.
InterruptUnguarded(w) ==
  /\ "interrupt" \in Faults
  /\ \/ /\ w \in setting.callers
        /\ Go(w, "create", "ended")
        /\ data' = [data EXCEPT ![Stage(w)] = "empty"]
        /\ staged' = [staged EXCEPT ![w] = TRUE]
        /\ Hold(w, Stage(w))
     \/ Go(w, "open", "cleanup") /\ at # Nothing /\ Hold(w, at) /\ KeepFiles
     \/ /\ \E from \in {"write", "flush", "fstat", "identify"} : Go(w, from, "cleanup")
        /\ KeepHandle /\ KeepFiles
     \/ /\ \E from \in {"identify", "over", "samestat", "unreserve"} : Go(w, from, "cleanup")
        /\ Hold(w, Nothing) /\ KeepFiles
     \/ Go(w, "cleanup", "ended") /\ KeepHandle /\ KeepFiles
  /\ outcome' = [outcome EXCEPT ![w] = "cut"]
  /\ KeepPath /\ Forget(w) /\ KeepWorld

\* The process is killed, and the system closes what it had open.
Kill(w) ==
  /\ "kill" \in Faults
  /\ \E from \in Steps \ {"create", "ended", "killed"} : Go(w, from, "killed")
  /\ Hold(w, Nothing)
  /\ KeepFiles /\ KeepPath /\ Forget(w) /\ KeepEnd /\ KeepWorld

WriteStep(w) == CreateStaging(w) \/ CreateFails(w) \/ Write(w) \/ FlushAndClose(w)
AdoptStep(w) == LookAt(w) \/ GiveUp(w) \/ OpenTarget(w) \/ Compare(w) \/ CaptureFails(w)
CommitStep(w) == \/ Rename(w) \/ RenameRefused(w)
                 \/ Link(w) \/ CannotLink(w) \/ NameTaken(w) \/ Discard(w) \/ DiscardRefused(w)
                 \/ Reserve(w) \/ Identify(w) \/ RenameOver(w) \/ RenameOverFails(w)
                 \/ SameStat(w) \/ Unreserve(w) \/ Return(w)
ExitStep(w) == Cleanup(w) \/ CleanupRefused(w) \/ CallFails(w)
WriterStep(w) == WriteStep(w) \/ AdoptStep(w) \/ CommitStep(w) \/ ExitStep(w)

-----------------------------------------------------------------------------
(* Other programs.  One that replaces the entry removes it and creates another with no *)
(* call of a writer in between.                                              *)

local == <<setting, pc, handle, looked, attempt, tries, outcome, committed, staged>>

\* The entry is one they may take: not a reservation, which is open to them for one system call
\* only (_replace_reservation_windows), and not open.
Free == at = Nothing \/ (at \notin Holders /\ ~InUse(at))

EnvPut(e, what) ==
  /\ at # <<"env", e>> /\ ~InUse(<<"env", e>>)
  /\ data' = [data EXCEPT ![<<"env", e>>] = what]
  /\ at' = <<"env", e>>

EnvCreate == /\ "create" \in EnvOps /\ at = Nothing
             /\ \E e \in EnvFiles, what \in {"whole", "special"} : EnvPut(e, what)
             /\ UNCHANGED <<scanned, local>>
EnvRemove == /\ "remove" \in EnvOps /\ at # Nothing /\ Free
             /\ at' = Nothing
             /\ UNCHANGED <<data, scanned, local>>

\* A scanner opens a file it can see, without sharing delete access, and lets go of it.
Named(i) == i = at \/ \E w \in Writers : i = Stage(w) /\ staged[w]
ScanStarts == /\ Cardinality(scanned) < Scanners
              /\ \E i \in Inode \ scanned :
                   i[1] \in Scannable /\ Named(i) /\ scanned' = scanned \cup {i}
              /\ UNCHANGED <<at, data, local>>
ScanEnds == /\ \E i \in scanned : scanned' = scanned \ {i}
            /\ UNCHANGED <<at, data, local>>

EnvStep == EnvCreate \/ EnvRemove \/ ScanStarts \/ ScanEnds

Next == \/ \E w \in Writers :
             WriterStep(w) \/ Interrupt(w) \/ InterruptUnguarded(w) \/ Kill(w)
        \/ EnvStep
Spec == Init /\ [][Next]_wvars

\* The process runs on.  A scanner need never let go.
FairSpec == Spec /\ \A w \in Writers : WF_wvars(WriterStep(w))

-----------------------------------------------------------------------------
(* The contract.                                                             *)

AVacant  == <<"vacant", Nothing>>
AForeign == <<"foreign", Nothing>>

Entry ==
  IF at = Nothing THEN AVacant
  ELSE IF at \in Holders THEN <<"held", at[2]>>
  ELSE IF \E w \in Writers : at = Stage(w) THEN <<data[at], at[2]>>
  ELSE AForeign

Verdict(w) ==
  CASE pc[w] = "killed" \/ (pc[w] = "ended" /\ outcome[w] \in {"interrupted", "cut"}) -> "stopped"
    [] pc[w] = "ended" /\ outcome[w] = "ok" -> "success"
    [] pc[w] = "ended" /\ outcome[w] \in {"exists", "denied", "busy", "error"} -> "failure"
    [] OTHER -> "open"

Atomic == INSTANCE AtomicOutput WITH
  MayReserve <- \E s \in Settings : ~s.links,
  Vacant <- AVacant, Foreign <- AForeign,
  entry <- Entry,
  delivered <- {w \in Writers : committed[w]},
  verdict <- [w \in Writers |-> Verdict(w)],
  balked <- {}

\* The Windows writer keeps the contract of the POSIX one (_staged_output_windows: "Same
\* contract, less to keep"), whoever holds which file open when, as long as nobody holds the
\* reservation: the document arrives whole and at once or not at all, over nobody's file unasked,
\* and a part file that cannot be deleted never turns a delivered document into a failure.
ImplementsAtomicOutput == Atomic!ASpec

\* Somebody other than the writer has the file open.
OpenElsewhere(w, i) ==
  i # Nothing /\ (i \in scanned \/ \E v \in Writers \ {w} : handle[v] = i)

\* What Windows refuses because a file is open, it refuses because of somebody else: the writer
\* has closed its own descriptors by then.  A call leaves its part file only if somebody else
\* holds it to the last try, or an interrupt fell where no handler discards it (_discard_staging).
OnlyOthersStandInTheWay ==
  [][\A w \in Writers :
       /\ outcome'[w] = "busy" /\ outcome[w] # "busy" =>
            OpenElsewhere(w, Stage(w)) \/ OpenElsewhere(w, at)
       /\ /\ pc[w] # "return" /\ pc'[w] # pc[w] /\ pc'[w] \in {"return", "ended"}
          /\ staged'[w] /\ outcome'[w] # "cut"
          => OpenElsewhere(w, Stage(w))]_wvars

\* Though a scanner may hold the part file for ever and the path may never stop changing, every
\* call ends (_DISCARD_ATTEMPTS, _ADOPT_ATTEMPTS).
Finishes == <>(\A w \in setting.callers : pc[w] \in {"ended", "killed"})

(* What the source says and the code does not always do.                     *)

\* _staged_output_windows: "so a crash or an exception never leaves a truncated file at path".
LeavesNoTruncatedFile ==
  \A w \in Writers : pc[w] \in {"ended", "killed"} => at # Holder(w)
=============================================================================
