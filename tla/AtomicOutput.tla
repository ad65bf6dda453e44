---------------------------- MODULE AtomicOutput ----------------------------
(***************************************************************************)
(* What _staged_output promises its callers, without saying how: a call    *)
(* puts its whole document under the output's name in one step, at most    *)
(* once, over somebody else's file only when it was asked to overwrite,    *)
(* and what it answers says whether it did.                                *)
(***************************************************************************)
CONSTANTS Writers, Overwriting,
          MayReserve,       \* the name may be held by an empty file for a moment
          Vacant, Foreign   \* no entry at the name; somebody else's

VARIABLES entry,      \* Vacant, Foreign, <<"held", w>> or <<"whole", w>>
          delivered,  \* the writers whose document has been at the name
          verdict,    \* writer -> "open", "success", "unfinished", "failure", "stopped"
          balked      \* the writers whose directory refused to let an entry of theirs go

avars == <<entry, delivered, verdict, balked>>

AInit == /\ entry = Vacant
         /\ delivered = {}
         /\ verdict = [w \in Writers |-> "open"]
         /\ balked = {}

Hold(w) == /\ MayReserve /\ entry = Vacant /\ verdict[w] = "open" /\ w \notin delivered
           /\ entry' = <<"held", w>>
           /\ UNCHANGED <<delivered, verdict, balked>>

LetGo(w) == /\ entry = <<"held", w>>
            /\ entry' = Vacant
            /\ UNCHANGED <<delivered, verdict, balked>>

Deliver(w) == /\ verdict[w] = "open" /\ w \notin delivered
              /\ w \in Overwriting \/ entry \in {Vacant, <<"held", w>>}
              /\ entry' = <<"whole", w>>
              /\ delivered' = delivered \cup {w}
              /\ UNCHANGED <<verdict, balked>>

\* The directory refuses an unlink: the one thing that may keep a call from putting right what
\* it leaves, or from answering what it did.
Balk(w) == /\ verdict[w] = "open"
           /\ balked' = balked \cup {w}
           /\ UNCHANGED <<entry, delivered, verdict>>

\* "unfinished" is OutputCommittedError: delivered, and the mode could not be set.  A call that
\* answers has let go of the name.
Answer(w) ==
  /\ verdict[w] = "open"
  /\ balked' \in {balked, balked \cup {w}}
  /\ \E v \in (IF w \in delivered THEN {"success", "unfinished"} ELSE {"failure"})
                \cup (IF w \in balked' THEN {"failure"} ELSE {}) \cup {"stopped"} :
       /\ verdict' = [verdict EXCEPT ![w] = v]
       /\ v # "stopped" => entry # <<"held", w>> \/ w \in balked'
  /\ UNCHANGED <<entry, delivered>>

\* Other programs replace or remove the entry, or put back a document they had moved away.
OthersAct == /\ entry' \in {Vacant, Foreign} \cup {<<"whole", w>> : w \in delivered}
             /\ UNCHANGED <<delivered, verdict, balked>>

ANext == OthersAct \/ \E w \in Writers : Hold(w) \/ LetGo(w) \/ Deliver(w) \/ Balk(w) \/ Answer(w)

ASpec == AInit /\ [][ANext]_avars
=============================================================================
