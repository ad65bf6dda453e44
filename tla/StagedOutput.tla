---------------------------- MODULE StagedOutput ----------------------------
(***************************************************************************)
(* The staged writer of signing.py (_staged_output and what it calls, the  *)
(* POSIX path): every signed document is written to a private file beside  *)
(* the output and moved onto the output's name.  One action per system     *)
(* call, so that other programs, other writers, failures, interrupts and a *)
(* kill fall between any two of them.                                      *)
(*                                                                         *)
(* Access control is a record [own, mode, acl].  An ACL stands for its     *)
(* named entries; its mask and its owner and other classes are the mode    *)
(* bits, so setting a captured ACL also sets the captured mode.            *)
(***************************************************************************)
EXTENDS Integers, FiniteSets

CONSTANTS
  Writers,       \* concurrent calls of _staged_output on one output path
  Overwriting,   \* the writers called with overwrite=True
  HardLinks,     \* whether the file system can make a hard link
  EnvFiles,      \* files other programs may put at the path
  EnvAccess,     \* the access control such a file may have
  EnvOps,        \* what other programs do: subset of AllEnvOps
  MaxRewrites,   \* bound on changes of access control by other programs
  Modes, Private, FreshMode,        \* permission bits; 0600; umask's answer
  Owners, Me,                       \* owning users; the one running firmauy
  Acls, AclAbsent, AclUnsupported,  \* access ACLs; _ACL_ABSENT, _ACL_UNSUPPORTED
  InheritedAcl,  \* what a file created in the directory inherits
  Nothing,       \* no inode
  NoAccess,      \* no access control to carry (a capture that returned None)
  Attempts,      \* _ADOPT_ATTEMPTS
  Faults         \* what may go wrong: subset of AllFaults

AllEnvOps == {"create", "replace", "remove", "aside", "rewrite"}
AllFaults == {"io", "unlink", "interrupt", "kill"}
Access == [own : Owners, mode : Modes, acl : Acls]

ASSUME WritersAssumption ==
  Overwriting \subseteq Writers /\ HardLinks \in BOOLEAN /\ Attempts \in Nat \ {0}
ASSUME AccessAssumption ==
  /\ {Private, FreshMode} \subseteq Modes /\ Me \in Owners
  /\ {AclAbsent, AclUnsupported, InheritedAcl} \subseteq Acls
  /\ AclAbsent # AclUnsupported
  /\ EnvAccess \subseteq Access
ASSUME EnvironmentAssumption ==
  EnvOps \subseteq AllEnvOps /\ Faults \subseteq AllFaults /\ MaxRewrites \in Nat
\* The kernel answers "no ACLs here" for a whole file system, not for a file.
ASSUME AclSupportAssumption ==
  \A a \in EnvAccess : a.acl = AclUnsupported <=> InheritedAcl = AclUnsupported

Stage(w)  == <<"stage", w>>       \* the inode a writer signs into
Holder(w) == <<"holder", w>>      \* the empty inode that reserves the name
Inode == {<<"stage", w>> : w \in Writers} \cup {<<"holder", w>> : w \in Writers}
           \cup {<<"env", e>> : e \in EnvFiles}
ASSUME NullAssumption == Nothing \notin Inode /\ NoAccess \notin Access

VARIABLES
  at,         \* the inode the output's name leads to, or Nothing
  aside,      \* an entry another program has renamed away from the path
  data,       \* inode -> "none" (no such file), what it holds, or "special"
  access,     \* inode -> its access control
  staged,     \* writer -> whether its .firmauy-*.part name still exists
  pc,         \* writer -> the system call it is about to make
  fd,         \* writer -> the inode it has open for reading, or Nothing
  seen,       \* writer -> the access control fstat and getxattr have answered
  since,      \* writer -> what became of the open file's access control since the first
              \* fstat: "same", "moved" (ctime shows a change) or "blurred" (one it cannot show)
  replaced,   \* writer -> the accepted capture, or NoAccess
  attempt,    \* writer -> captures started
  outcome,    \* writer -> how the call ended: "cut" is an interrupt where no handler cleans up
  refused,    \* writer -> whether an unlink of its call's was refused (history)
  committed,  \* writer -> whether its document ever was at the path (history)
  disturbed,  \* writer -> somebody else acted since its capture was exact (history)
  rewrites    \* changes of access control made by other programs

local == <<pc, fd, seen, replaced, attempt, outcome, refused>>
vars == <<at, aside, data, access, staged, pc, fd, seen, since, replaced, attempt,
          outcome, refused, committed, disturbed, rewrites>>

Contents == {"none", "special", "empty", "partial", "whole"}
Steps == {"create", "narrow", "write", "flush", "open", "fstat", "getacl", "refstat",
          "lstat", "chown", "setacl", "renarrow", "rename", "link", "discard", "reserve",
          "over", "samestat", "unreserve", "publish", "cleanup", "ended", "killed"}
Outcomes == {"none", "ok", "exists", "denied", "error", "committed", "interrupted", "cut"}

TypeOK ==
  /\ at \in Inode \cup {Nothing} /\ aside \in Inode \cup {Nothing}
  /\ data \in [Inode -> Contents]
  /\ access \in [Inode -> Access]
  /\ staged \in [Writers -> BOOLEAN]
  /\ pc \in [Writers -> Steps]
  /\ fd \in [Writers -> Inode \cup {Nothing}]
  /\ seen \in [Writers -> Access]
  /\ since \in [Writers -> {"same", "blurred", "moved"}]
  /\ replaced \in [Writers -> Access \cup {NoAccess}]
  /\ attempt \in [Writers -> 0..Attempts]
  /\ outcome \in [Writers -> Outcomes] /\ refused \in [Writers -> BOOLEAN]
  /\ committed \in [Writers -> BOOLEAN] /\ disturbed \in [Writers -> BOOLEAN]
  /\ rewrites \in 0..MaxRewrites

FreshAccess == [own |-> Me, mode |-> FreshMode, acl |-> InheritedAcl]

Init ==
  /\ at = Nothing /\ aside = Nothing
  /\ data = [i \in Inode |-> "none"]
  /\ access = [i \in Inode |-> FreshAccess]
  /\ staged = [w \in Writers |-> FALSE]
  /\ pc = [w \in Writers |-> "create"]
  /\ fd = [w \in Writers |-> Nothing]
  /\ seen = [w \in Writers |-> FreshAccess]
  /\ since = [w \in Writers |-> "same"]
  /\ replaced = [w \in Writers |-> NoAccess]
  /\ attempt = [w \in Writers |-> 0]
  /\ outcome = [w \in Writers |-> "none"]
  /\ refused = [w \in Writers |-> FALSE]
  /\ committed = [w \in Writers |-> FALSE]
  /\ disturbed = [w \in Writers |-> TRUE]
  /\ rewrites = 0

-----------------------------------------------------------------------------
(* What a step of a writer changes.                                          *)

Go(w, from, to) == pc[w] = from /\ pc' = [pc EXCEPT ![w] = to]

Ends(w, why) == /\ outcome' = [outcome EXCEPT ![w] = why]
                /\ UNCHANGED refused

\* An exception: the outer handler unlinks the staging file, then re-raises.
Raise(w, from, why) == Go(w, from, "cleanup") /\ Ends(w, why)

\* An unlink of the call's is refused.
Refuse(w) == refused' = [refused EXCEPT ![w] = TRUE]

\* The staging file gets this access control; the path comes to lead to inode i.
SetAccess(w, a) == /\ access' = [access EXCEPT ![Stage(w)] = a]
                   /\ UNCHANGED data
Rule(own, mode, acl) == [own |-> own, mode |-> mode, acl |-> acl]
Chmod(w, m) == SetAccess(w, Rule(access[Stage(w)].own, m, access[Stage(w)].acl))

\* The kernel marks i's ctime.  Whoever has i open sees that it moved if the clock separates
\* this change from the mark the first fstat read, and not otherwise.
Restamp(i, separate) ==
  since' = [v \in Writers |->
              IF fd[v] # i \/ since[v] = "moved" THEN since[v]
              ELSE IF separate THEN "moved" ELSE "blurred"]

PointAt(i, others) ==
  /\ at' = i
  /\ disturbed' = [v \in Writers |-> disturbed[v] \/ v \in others]

CloseTarget(w) == /\ fd' = [fd EXCEPT ![w] = Nothing]
                  /\ seen' = [seen EXCEPT ![w] = FreshAccess]
                  /\ since' = [since EXCEPT ![w] = "same"]

KeepCapture == UNCHANGED <<fd, seen, since, replaced, attempt>>
KeepPath    == UNCHANGED <<at, aside, committed, disturbed, rewrites>>
KeepEnd     == UNCHANGED <<outcome, refused>>
KeepInodes  == UNCHANGED <<data, access>>
KeepFiles   == KeepInodes /\ UNCHANGED staged

-----------------------------------------------------------------------------
(* Writing the staging file.                                                 *)

\* os.open(tmp, O_CREAT | O_EXCL, 0666) and the fstat that reads the mode back.
CreateStaging(w) ==
  /\ Go(w, "create", "narrow")
  /\ data' = [data EXCEPT ![Stage(w)] = "empty"]
  /\ staged' = [staged EXCEPT ![w] = TRUE]
  /\ UNCHANGED access
  /\ KeepCapture /\ KeepPath /\ KeepEnd

CreateFails(w) ==
  /\ "io" \in Faults
  /\ Go(w, "create", "ended")
  /\ Ends(w, "error")
  /\ KeepCapture /\ KeepPath /\ KeepFiles

\* Mutant: the file keeps the umask's mode while it is written.
NarrowForgotten(w) ==
  /\ Go(w, "narrow", "write")
  /\ KeepFiles /\ KeepCapture /\ KeepPath /\ KeepEnd

Narrow(w) ==
  /\ Go(w, "narrow", "write")
  /\ Chmod(w, Private)
  /\ UNCHANGED staged /\ KeepCapture /\ KeepPath /\ KeepEnd

\* Mutant: the commit does not wait for the flush.
WriteUnflushed(w) ==
  /\ Go(w, "write", IF w \in Overwriting THEN "open" ELSE "renarrow")
  /\ data' = [data EXCEPT ![Stage(w)] = "partial"]
  /\ UNCHANGED <<access, staged>> /\ KeepCapture /\ KeepPath /\ KeepEnd

\* The caller's body: some of the document is in the file.
Write(w) ==
  /\ Go(w, "write", "flush")
  /\ data' = [data EXCEPT ![Stage(w)] = "partial"]
  /\ UNCHANGED <<access, staged>> /\ KeepCapture /\ KeepPath /\ KeepEnd

\* The body ends, flush, fsync.  Only an overwriting writer adopts anything.
Flush(w) ==
  /\ Go(w, "flush", IF w \in Overwriting THEN "open" ELSE "renarrow")
  /\ data' = [data EXCEPT ![Stage(w)] = "whole"]
  /\ UNCHANGED <<access, staged>> /\ KeepCapture /\ KeepPath /\ KeepEnd

-----------------------------------------------------------------------------
(* _adopt_replaced: capture through one descriptor, then restore.            *)

RegularAtPath == at \in {i \in Inode : data[i] # "special"}

\* A capture that found nothing to adopt: nothing is restored.
NothingToAdopt(w, from) ==
  /\ Go(w, from, "renarrow")
  /\ replaced' = [replaced EXCEPT ![w] = NoAccess]

\* os.open(path, O_NOFOLLOW): ENOENT, or a symlink's ELOOP, is nothing to adopt.
OpenTarget(w) ==
  /\ pc[w] = "open" /\ attempt[w] < Attempts
  /\ attempt' = [attempt EXCEPT ![w] = @ + 1]
  /\ \/ /\ ~RegularAtPath
        /\ NothingToAdopt(w, "open")
        /\ disturbed' = [disturbed EXCEPT ![w] = FALSE]
        /\ UNCHANGED <<fd, seen>>
     \/ /\ at # Nothing
        /\ Go(w, "open", "fstat")
        /\ fd' = [fd EXCEPT ![w] = at]
        /\ UNCHANGED <<seen, replaced, disturbed>>
  /\ UNCHANGED <<since, at, aside, committed, rewrites>> /\ KeepFiles /\ KeepEnd

\* The attempts are used up: OutputAccessControlError.
GiveUp(w) ==
  /\ attempt[w] = Attempts
  /\ Raise(w, "open", "denied")
  /\ KeepCapture /\ KeepPath /\ KeepFiles

Fstat(w) ==
  /\ pc[w] = "fstat"
  /\ IF data[fd[w]] = "special"
     THEN NothingToAdopt(w, "fstat") /\ CloseTarget(w)
     ELSE /\ Go(w, "fstat", "getacl")
          /\ seen' = [seen EXCEPT ![w] = access[fd[w]]]
          /\ since' = [since EXCEPT ![w] = "same"]
          /\ UNCHANGED <<fd, replaced>>
  /\ UNCHANGED attempt /\ KeepPath /\ KeepFiles /\ KeepEnd

GetAcl(w) ==
  /\ Go(w, "getacl", "refstat")
  /\ seen' = [seen EXCEPT ![w] = Rule(@.own, @.mode, access[fd[w]].acl)]
  /\ UNCHANGED <<fd, since, replaced, attempt>> /\ KeepPath /\ KeepFiles /\ KeepEnd

\* _Moved: the descriptor is closed and the loop starts over.
Moved(w, from) == Go(w, from, "open") /\ CloseTarget(w)

\* Mutant: ctime is not compared, and a changed ACL alone shows nowhere else.
UnmovedByModeAlone(w) == /\ access[fd[w]].mode = seen[w].mode
                         /\ access[fd[w]].own = seen[w].own

\* (st_ctime_ns, st_mode, st_uid, st_gid) is what it was.
Unmoved(w) == /\ since[w] # "moved"
              /\ access[fd[w]].mode = seen[w].mode
              /\ access[fd[w]].own = seen[w].own

Refstat(w) ==
  /\ pc[w] = "refstat"
  /\ IF Unmoved(w)
     THEN /\ Go(w, "refstat", "lstat")
          /\ disturbed' = [disturbed EXCEPT ![w] = since[w] = "blurred"]
          /\ UNCHANGED <<fd, seen, since>>
     ELSE Moved(w, "refstat") /\ UNCHANGED disturbed
  /\ UNCHANGED <<at, aside, committed, rewrites, replaced, attempt>>
  /\ KeepFiles /\ KeepEnd

\* path.lstat() under the held descriptor: the name must lead back to that inode.
Lstat(w) ==
  /\ IF at = fd[w]
     THEN /\ Go(w, "lstat", "chown")
          /\ replaced' = [replaced EXCEPT ![w] = seen[w]]
     ELSE Moved(w, "lstat") /\ UNCHANGED replaced
  /\ CloseTarget(w)
  /\ UNCHANGED attempt /\ KeepPath /\ KeepFiles /\ KeepEnd

\* os.fchown; without ACLs on this file system there is nothing further to restore.
Chown(w) ==
  /\ Go(w, "chown", IF replaced[w].acl = AclUnsupported THEN "renarrow" ELSE "setacl")
  /\ SetAccess(w, Rule(replaced[w].own, access[Stage(w)].mode, access[Stage(w)].acl))
  /\ UNCHANGED staged /\ KeepCapture /\ KeepPath /\ KeepEnd

ChownRefused(w) ==
  /\ Raise(w, "chown", "denied")
  /\ replaced[w].own # Me
  /\ KeepCapture /\ KeepPath /\ KeepFiles

\* Mutant: an inherited ACL stays when there was none to copy.
SetAclOnlyIfAny(w) ==
  /\ Go(w, "setacl", "renarrow")
  /\ SetAccess(w, IF replaced[w].acl = AclAbsent THEN access[Stage(w)] ELSE replaced[w])
  /\ UNCHANGED staged /\ KeepCapture /\ KeepPath /\ KeepEnd

\* removexattr for an absent ACL, setxattr for another: only this one writes the mode.
SetAcl(w) ==
  /\ Go(w, "setacl", "renarrow")
  /\ SetAccess(w, Rule(access[Stage(w)].own,
                       IF replaced[w].acl = AclAbsent THEN access[Stage(w)].mode
                                                      ELSE replaced[w].mode,
                       replaced[w].acl))
  /\ UNCHANGED staged /\ KeepCapture /\ KeepPath /\ KeepEnd

-----------------------------------------------------------------------------
(* The commit.                                                               *)

\* Mutant: the mode the ACL brought is not taken back before the commit.
RenarrowForgotten(w) ==
  /\ Go(w, "renarrow", IF w \in Overwriting THEN "rename" ELSE "link")
  /\ KeepFiles /\ KeepCapture /\ KeepPath /\ KeepEnd

Renarrow(w) ==
  /\ Go(w, "renarrow", IF w \in Overwriting THEN "rename" ELSE "link")
  /\ Chmod(w, Private)
  /\ UNCHANGED staged /\ KeepCapture /\ KeepPath /\ KeepEnd

\* The staging file is what the path leads to from now on.
PutInPlace(w) == /\ PointAt(Stage(w), Writers \ {w})
                 /\ committed' = [committed EXCEPT ![w] = TRUE]

\* os.replace(tmp, path) for overwrite=True.
Rename(w) ==
  /\ Go(w, "rename", "publish")
  /\ PutInPlace(w)
  /\ staged' = [staged EXCEPT ![w] = FALSE]
  /\ UNCHANGED <<aside, rewrites>> /\ KeepInodes /\ KeepCapture /\ KeepEnd

\* Mutant: a rename instead of a link.
LinkOver(w) ==
  /\ HardLinks
  /\ Go(w, "link", "discard")
  /\ PutInPlace(w)
  /\ UNCHANGED <<aside, rewrites>> /\ KeepFiles /\ KeepCapture /\ KeepEnd

\* os.link(tmp, path) where there are hard links.
Link(w) ==
  /\ HardLinks /\ at = Nothing
  /\ Go(w, "link", "discard")
  /\ PutInPlace(w)
  /\ UNCHANGED <<aside, rewrites>> /\ KeepFiles /\ KeepCapture /\ KeepEnd

\* EPERM, EOPNOTSUPP and the like: fall back to reserving the name.
CannotLink(w) ==
  /\ ~HardLinks /\ at = Nothing
  /\ Go(w, "link", "reserve")
  /\ KeepCapture /\ KeepPath /\ KeepFiles /\ KeepEnd

\* FileExistsError from os.link or from the exclusive create: OutputExistsError.
NameTaken(w) ==
  /\ at # Nothing
  /\ Raise(w, "link", "exists") \/ Raise(w, "reserve", "exists")
  /\ KeepCapture /\ KeepPath /\ KeepFiles

\* _discard_staging after a successful link.
Discard(w) ==
  /\ Go(w, "discard", "publish")
  /\ staged' = [staged EXCEPT ![w] = FALSE]
  /\ KeepInodes /\ KeepCapture /\ KeepPath /\ KeepEnd

DiscardFails(w) ==
  /\ "unlink" \in Faults
  /\ Go(w, "discard", "cleanup")
  /\ outcome' = [outcome EXCEPT ![w] = "error"] /\ Refuse(w)
  /\ KeepCapture /\ KeepPath /\ KeepFiles

\* Mutant: the create is not exclusive, and takes the name from whoever has it.
ReserveOver(w) ==
  /\ Go(w, "reserve", "over")
  /\ PointAt(Holder(w), Writers \ {w})
  /\ data' = [data EXCEPT ![Holder(w)] = "empty"]
  /\ access' = [access EXCEPT ![Holder(w)] = Rule(Me, Private, InheritedAcl)]
  /\ UNCHANGED <<staged, aside, committed, rewrites>> /\ KeepCapture /\ KeepEnd

\* The exclusive create of the reservation at 0600.
Reserve(w) ==
  /\ at = Nothing
  /\ Go(w, "reserve", "over")
  /\ PointAt(Holder(w), Writers \ {w})
  /\ data' = [data EXCEPT ![Holder(w)] = "empty"]
  /\ access' = [access EXCEPT ![Holder(w)] = Rule(Me, Private, InheritedAcl)]
  /\ UNCHANGED <<staged, aside, committed, rewrites>> /\ KeepCapture /\ KeepEnd

\* os.replace(tmp, path) over the reservation, and whatever is at the path by then.
RenameOver(w) ==
  /\ Go(w, "over", "publish")
  /\ PutInPlace(w)
  /\ staged' = [staged EXCEPT ![w] = FALSE]
  /\ UNCHANGED <<aside, rewrites>> /\ KeepInodes /\ KeepCapture /\ KeepEnd

\* That rename raises: the handler takes the reservation back before re-raising.
RenameOverFails(w) ==
  /\ Go(w, "over", "samestat")
  /\ \/ "io" \in Faults /\ Ends(w, "error")
     \/ "interrupt" \in Faults /\ Ends(w, "interrupted")
  /\ KeepCapture /\ KeepPath /\ KeepFiles

\* os.path.samestat(os.fstat(reservation), os.stat(path))
SameStat(w) ==
  /\ Go(w, "samestat", IF at = Holder(w) THEN "unreserve" ELSE "cleanup")
  /\ KeepCapture /\ KeepPath /\ KeepFiles /\ KeepEnd

\* Mutant: the reservation is left behind although nothing was refused.
UnreserveForgotten(w) ==
  /\ Go(w, "unreserve", "cleanup")
  /\ KeepCapture /\ KeepPath /\ KeepFiles /\ KeepEnd

\* os.unlink(path): by name, whatever the name leads to by now.
Unreserve(w) ==
  /\ Go(w, "unreserve", "cleanup")
  /\ IF at = Nothing THEN UNCHANGED <<at, disturbed>> ELSE PointAt(Nothing, Writers \ {w})
  /\ UNCHANGED <<aside, committed, rewrites>> /\ KeepCapture /\ KeepFiles /\ KeepEnd

\* The stat or the unlink is refused, and that OSError is passed over.
UnreserveFails(w) ==
  /\ "unlink" \in Faults
  /\ \E from \in {"samestat", "unreserve"} : Go(w, from, "cleanup")
  /\ Refuse(w) /\ UNCHANGED outcome
  /\ KeepCapture /\ KeepPath /\ KeepFiles

\* The last fchmod: the mode of what was replaced, or what an ordinary create gives.
Publish(w) ==
  /\ Go(w, "publish", "ended")
  /\ Chmod(w, IF replaced[w] = NoAccess THEN FreshMode ELSE replaced[w].mode)
  /\ \E separate \in BOOLEAN : Restamp(Stage(w), separate)
  /\ Ends(w, "ok")
  /\ PointAt(at, Writers \ {w})
  /\ UNCHANGED <<aside, staged, committed, rewrites, fd, seen, replaced, attempt>>

\* Mutant: it looks like every other failure.
PublishFailsPlainly(w) ==
  /\ "io" \in Faults
  /\ Raise(w, "publish", "error")
  /\ KeepCapture /\ KeepPath /\ KeepFiles

\* The one failure that says so: OutputCommittedError.
PublishFails(w) ==
  /\ "io" \in Faults
  /\ Raise(w, "publish", "committed")
  /\ KeepCapture /\ KeepPath /\ KeepFiles

-----------------------------------------------------------------------------
(* Every other way out.                                                      *)

\* Mutant: the staging file is not removed.
CleanupForgotten(w) ==
  /\ Go(w, "cleanup", "ended")
  /\ KeepFiles /\ KeepCapture /\ KeepPath /\ KeepEnd

\* except BaseException: tmp.unlink(missing_ok=True); raise
Cleanup(w) ==
  /\ Go(w, "cleanup", "ended")
  /\ staged' = [staged EXCEPT ![w] = FALSE]
  /\ KeepInodes /\ KeepCapture /\ KeepPath /\ KeepEnd

\* The directory refuses the unlink, and that OSError replaces the exception.
CleanupFails(w) ==
  /\ "unlink" \in Faults /\ staged[w]
  /\ Go(w, "cleanup", "ended")
  /\ outcome' = [outcome EXCEPT ![w] = "error"] /\ Refuse(w)
  /\ KeepCapture /\ KeepPath /\ KeepFiles

\* A system call with no handler of its own raises OSError.
CallFails(w) ==
  /\ "io" \in Faults
  /\ \E from \in {"narrow", "write", "flush", "renarrow", "rename", "link", "reserve"} :
       Raise(w, from, "error")
  /\ KeepCapture /\ KeepPath /\ KeepFiles

\* Every call of the capture and the restore that fails is OutputAccessControlError.
AdoptFails(w) ==
  /\ "io" \in Faults
  /\ \E from \in {"open", "fstat", "getacl", "refstat", "lstat", "chown", "setacl"} :
       Raise(w, from, "denied")
  /\ CloseTarget(w)
  /\ UNCHANGED <<replaced, attempt>> /\ KeepPath /\ KeepFiles

\* KeyboardInterrupt between two calls, inside the try whose handler unlinks the staging
\* file.  At the rename over a reservation it is RenameOverFails that says what happens.
Interrupt(w) ==
  /\ "interrupt" \in Faults
  /\ \E from \in Steps \ {"create", "over", "samestat", "unreserve", "cleanup", "ended", "killed"} :
       Raise(w, from, "interrupted")
  /\ CloseTarget(w)
  /\ UNCHANGED <<replaced, attempt>> /\ KeepPath /\ KeepFiles

\* KeyboardInterrupt where no handler takes back what the call has made: as os.open returns,
\* before the outer try; as the reservation's returns, before the inner one, or inside its
\* handler, before the unlink of the name; and inside the outer handler, before its unlink.
InterruptUnguarded(w) ==
  /\ "interrupt" \in Faults
  /\ \/ /\ Go(w, "create", "ended")
        /\ data' = [data EXCEPT ![Stage(w)] = "empty"]
        /\ staged' = [staged EXCEPT ![w] = TRUE]
        /\ UNCHANGED access
     \/ /\ \E from \in {"over", "samestat", "unreserve"} : Go(w, from, "cleanup")
        /\ KeepFiles
     \/ Go(w, "cleanup", "ended") /\ KeepFiles
  /\ Ends(w, "cut")
  /\ KeepCapture /\ KeepPath

\* The process is killed, or the machine stops: nothing is cleaned up.
Kill(w) ==
  /\ "kill" \in Faults
  /\ \E from \in Steps \ {"create", "ended", "killed"} : Go(w, from, "killed")
  /\ CloseTarget(w)
  /\ UNCHANGED <<replaced, attempt>> /\ KeepPath /\ KeepFiles /\ KeepEnd

WriteStep(w) == CreateStaging(w) \/ CreateFails(w) \/ Narrow(w) \/ Write(w) \/ Flush(w)
AdoptStep(w) == \/ OpenTarget(w) \/ GiveUp(w) \/ Fstat(w) \/ GetAcl(w) \/ Refstat(w)
                \/ Lstat(w) \/ Chown(w) \/ ChownRefused(w) \/ SetAcl(w)
CommitStep(w) == \/ Renarrow(w) \/ Rename(w) \/ Link(w) \/ CannotLink(w) \/ NameTaken(w)
                 \/ Discard(w) \/ DiscardFails(w) \/ Reserve(w) \/ RenameOver(w)
                 \/ RenameOverFails(w) \/ SameStat(w) \/ Unreserve(w) \/ UnreserveFails(w)
                 \/ Publish(w) \/ PublishFails(w)
ExitStep(w) == Cleanup(w) \/ CleanupFails(w) \/ CallFails(w) \/ AdoptFails(w)
Stopped(w) == Interrupt(w) \/ InterruptUnguarded(w) \/ Kill(w)
WriterStep(w) == WriteStep(w) \/ AdoptStep(w) \/ CommitStep(w) \/ ExitStep(w)

-----------------------------------------------------------------------------
(* Other programs working in the same directory.                             *)

InUse(i) == i \in {at, aside} \/ \E w \in Writers : fd[w] = i

\* A new file under the output's name, made in full before it is put there.
EnvPut(e, what, a) ==
  LET i == <<"env", e>>
  IN  /\ ~InUse(i)
      /\ data' = [data EXCEPT ![i] = what]
      /\ access' = [access EXCEPT ![i] = a]
      /\ PointAt(i, Writers)

EnvCreate == /\ "create" \in EnvOps /\ at = Nothing
             /\ \E e \in EnvFiles, what \in {"whole", "special"}, a \in EnvAccess :
                  EnvPut(e, what, a)
             /\ UNCHANGED <<aside, staged, since, committed, rewrites>> /\ UNCHANGED local

EnvReplace == /\ "replace" \in EnvOps /\ at # Nothing
              /\ \E e \in EnvFiles, what \in {"whole", "special"}, a \in EnvAccess :
                   EnvPut(e, what, a)
              /\ UNCHANGED <<aside, staged, since, committed, rewrites>> /\ UNCHANGED local

EnvRemove == /\ "remove" \in EnvOps /\ at # Nothing
             /\ PointAt(Nothing, Writers)
             /\ UNCHANGED <<aside, since, committed, rewrites>> /\ KeepFiles /\ UNCHANGED local

\* The entry is renamed away, and perhaps back.
EnvAside == /\ "aside" \in EnvOps
            /\ \/ at # Nothing /\ aside = Nothing /\ aside' = at /\ PointAt(Nothing, Writers)
               \/ aside # Nothing /\ aside' = Nothing /\ PointAt(aside, Writers)
            /\ UNCHANGED <<since, committed, rewrites>> /\ KeepFiles /\ UNCHANGED local

\* chmod, chown or setfacl on such a file: POSIX makes the kernel mark its ctime, with a clock
\* that may not separate the change from the one before.
EnvRewrite ==
  /\ "rewrite" \in EnvOps /\ rewrites < MaxRewrites
  /\ \E e \in EnvFiles, a \in EnvAccess :
       /\ InUse(<<"env", e>>) /\ a # access[<<"env", e>>]
       /\ access' = [access EXCEPT ![<<"env", e>>] = a]
       /\ \E separate \in BOOLEAN : Restamp(<<"env", e>>, separate)
  /\ rewrites' = rewrites + 1
  /\ disturbed' = [w \in Writers |-> TRUE]
  /\ UNCHANGED <<at, aside, data, staged, committed>> /\ UNCHANGED local

EnvStep == EnvCreate \/ EnvReplace \/ EnvRemove \/ EnvAside \/ EnvRewrite

Next == \/ \E w \in Writers : WriterStep(w) \/ Stopped(w)
        \/ EnvStep

Spec == Init /\ [][Next]_vars

-----------------------------------------------------------------------------
(* What the writer promises.                                                 *)

\* The path never leads to a document that is still being written, and until its
\* last fchmod a document at the path is readable by its owner alone (_staged_output:
\* "Atomic", "still be private when it becomes reachable by the final name").
WholeAndPrivateAtPath ==
  \A w \in Writers : at = Stage(w) =>
    /\ data[Stage(w)] = "whole"
    /\ outcome[w] # "ok" => access[Stage(w)].mode = Private

\* A staging file that holds any of the document is 0600 until the call succeeds.
\* Only a restored ACL opens it earlier, off the path, and then no wider than
\* the file it replaces.
PrivateWhileStaged ==
  \A w \in Writers :
    data[Stage(w)] \in {"partial", "whole"} /\ outcome[w] # "ok" =>
      \/ access[Stage(w)].mode = Private
      \/ /\ ~committed[w]
         /\ replaced[w] # NoAccess
         /\ replaced[w].acl \notin {AclAbsent, AclUnsupported}
         /\ access[Stage(w)] = replaced[w]

\* The access control a published document gets: all of the accepted capture, or what
\* an ordinary create gives, and nothing from a discarded attempt (_adopt_replaced).
Due(w) == IF replaced[w] = NoAccess THEN FreshAccess ELSE replaced[w]
PublishedAccess ==
  \A w \in Writers : outcome[w] = "ok" => access[Stage(w)] = Due(w)

\* Owner, group, mode and ACL describe one file at one moment, up to the commit itself:
\* what was captured is what the path leads to, unless somebody acted since the second
\* fstat, or changed the file before it within the clock's resolution, which is the limit
\* _read_replaced states for itself.
CaptureExact ==
  \A w \in Overwriting : ~disturbed[w] =>
    /\ pc[w] = "lstat" => seen[w] = access[fd[w]]
    /\ pc[w] \in {"chown", "setacl", "renarrow", "rename"} =>
         IF RegularAtPath
         THEN replaced[w] = access[at]
         ELSE replaced[w] = NoAccess

\* A writer that was not asked to overwrite never changes what the path leads to
\* unless that is nothing, or its own reservation (_commit_without_clobber).
NoClobber ==
  [][\A w \in Writers \ Overwriting :
       pc'[w] # pc[w] => at' = at \/ at \in {Nothing, Holder(w)}]_vars

\* A call that returned or raised leaves neither a reservation nor a staging file (_staged_output,
\* _commit_without_clobber), unless an unlink of its own was refused or an interrupt fell where no
\* handler removes what it had made; and a staging file whose unlink was refused is an error.
NothingLeftBehind ==
  \A w \in Writers : pc[w] = "ended" /\ outcome[w] # "cut" =>
    /\ Holder(w) \in {at, aside} \/ staged[w] => refused[w]
    /\ staged[w] => outcome[w] = "error"

\* An error, OutputCommittedError apart, means the document was never at the path, unless an
\* unlink was refused, and success or OutputCommittedError means it was: what a batch may
\* count or sign again.
OutcomeTellsTruth ==
  \A w \in Writers :
    /\ outcome[w] \in {"exists", "denied"} => ~committed[w]
    /\ outcome[w] = "error" => ~committed[w] \/ refused[w]
    /\ outcome[w] \in {"ok", "committed"} => committed[w]

(* Why these hold: which calls a writer makes at all, and what is already true of   *)
(* its file when it makes them.                                                      *)

Capturing == {"fstat", "getacl", "refstat", "lstat"}
Linking   == {"link", "discard", "reserve", "over", "samestat", "unreserve"}
Reserving == {"reserve", "over", "samestat", "unreserve"}
Ready     == {"rename", "publish"} \cup Linking
AllWritten == {"open", "chown", "setacl", "renarrow"} \cup Capturing \cup Ready

ControlInv ==
  \A w \in Writers :
    /\ pc[w] \in Capturing => fd[w] \in Inode
    /\ pc[w] \in {"chown", "setacl"} => replaced[w] \in Access
    /\ pc[w] \in {"open", "chown", "setacl", "rename"} \cup Capturing => w \in Overwriting
    /\ pc[w] \in Linking => w \notin Overwriting
    /\ HardLinks => pc[w] \notin Reserving
    /\ pc[w] \notin {"samestat", "unreserve", "cleanup", "ended", "killed"}
         => outcome[w] = "none"
    /\ outcome[w] = "ok" => pc[w] = "ended"

DataInv ==
  \A w \in Writers :
    /\ pc[w] \in AllWritten => data[Stage(w)] = "whole"
    /\ pc[w] \in Ready => access[Stage(w)].mode = Private
    /\ Stage(w) \in {at, aside} => committed[w]
    /\ pc[w] \in {"discard", "publish"} => committed[w]
    /\ committed[w] => /\ pc[w] \in {"discard", "publish", "cleanup", "ended", "killed"}
                       /\ data[Stage(w)] = "whole"
                       /\ outcome[w] # "ok" => access[Stage(w)].mode = Private

(* What the source says and the code does not always do.                     *)

\* _commit_without_clobber: the reservation goes only while it is still what was
\* reserved, "anything else at that name is not this function's to remove".
RemovesOnlyItsReservation ==
  [][\A w \in Writers : pc[w] = "unreserve" /\ at' # at => at = Holder(w)]_vars
=============================================================================
