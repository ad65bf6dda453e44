-------------------------- MODULE MCStagedWindows --------------------------
(***************************************************************************)
(* Instances of StagedWindows for TLC: a volume with hard links, where one *)
(* of two writers overwrites, and one without, where neither does.         *)
(***************************************************************************)
EXTENDS StagedWindows

EitherVolume == {[links |-> TRUE, callers |-> {"first", "over"}],
                 [links |-> FALSE, callers |-> {"first", "second"}]}
OneOnFat == {[links |-> FALSE, callers |-> {"first"}]}

\* One call at most fails for a reason of its own, is interrupted or is killed.
CutShort == {w \in Writers : pc[w] = "killed" \/ outcome[w] \in {"interrupted", "cut", "error"}}
MCSpec == Init /\ [][Next /\ Cardinality(CutShort') <= 1]_wvars
MCFairSpec == MCSpec /\ \A w \in Writers : WF_wvars(WriterStep(w))
=============================================================================
