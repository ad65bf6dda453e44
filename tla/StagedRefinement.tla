-------------------------- MODULE StagedRefinement --------------------------
(***************************************************************************)
(* The system calls of StagedOutput implement the contract of AtomicOutput *)
(* as long as, where there are no hard links, other programs leave a       *)
(* reserved name alone.                                                    *)
(***************************************************************************)
EXTENDS StagedOutput

AVacant  == <<"vacant", Nothing>>
AForeign == <<"foreign", Nothing>>

Entry ==
  IF at = Nothing THEN AVacant
  ELSE IF \E w \in Writers : at = Holder(w)
       THEN <<"held", CHOOSE w \in Writers : at = Holder(w)>>
  ELSE IF \E w \in Writers : at = Stage(w)
       THEN <<data[at], CHOOSE w \in Writers : at = Stage(w)>>
  ELSE AForeign

\* The caller has its answer when the call has returned, and never has it after a kill.
Verdict(w) ==
  CASE pc[w] = "killed" \/ (pc[w] = "ended" /\ outcome[w] \in {"interrupted", "cut"}) -> "stopped"
    [] pc[w] = "ended" /\ outcome[w] = "ok" -> "success"
    [] pc[w] = "ended" /\ outcome[w] = "committed" -> "unfinished"
    [] pc[w] = "ended" /\ outcome[w] \in {"exists", "denied", "error"} -> "failure"
    [] OTHER -> "open"

Atomic == INSTANCE AtomicOutput WITH
  MayReserve <- ~HardLinks, Vacant <- AVacant, Foreign <- AForeign,
  entry <- Entry,
  delivered <- {w \in Writers : committed[w]},
  verdict <- [w \in Writers |-> Verdict(w)],
  balked <- {w \in Writers : refused[w]}

\* Every call of _staged_output delivers its whole document in one step or not at all,
\* never over another file unasked, and its answer says which and that the name is let go of,
\* unless the directory refused it an unlink: that OSError can follow a successful link.
ImplementsAtomicOutput == Atomic!ASpec
=============================================================================
