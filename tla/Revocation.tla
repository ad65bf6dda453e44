----------------------------- MODULE Revocation -----------------------------
(***************************************************************************)
(* Checking the revocation of one signature's chain                        *)
(* (revocation_fetchers.py, and _verify_chain of xml_verify.py).           *)
(* certvalidator fetches CRLs, OCSP answers and issuers in worker threads, *)
(* each a call of outbound.fetch, through one PolicyFetcherBackend: its    *)
(* budget is shared, and so is its list of what the policy refused.  The   *)
(* chain is judged from the answers, and what was refused is added to the  *)
(* row that says so.                                                       *)
(***************************************************************************)
EXTENDS OutboundFetch, Sequences

\* The chain's certificates say where to ask; one that says nowhere is not this module's.
ASSUME SourceAssumption == Fetches # {}

VARIABLES
  need,      \* whether the chain needs the evidence of each fetch, or of any
  seen,      \* fetch -> what certvalidator got of it
  refusals,  \* PolicyFetcherBackend._refusals, as the fetches refused
  chain,     \* the verdict on the chain
  row        \* the refusals the chain row tells of, once it is written

checking == <<need, seen, refusals, chain, row>>
allVars == <<vars, checking>>

Unwritten == <<"unwritten">>

CheckingTypeOK ==
  /\ TypeOK
  /\ need \in {"each", "any"}
  /\ seen \in [Fetches -> {"nothing", "evidence", "failure"}]
  /\ refusals \in Seq(Fetches)
  /\ chain \in {"open", "trusted", "untrusted"}
  /\ row \in Seq(Fetches) \cup {Unwritten}

CheckingInit ==
  /\ Init
  /\ need \in {"each", "any"}
  /\ seen = [f \in Fetches |-> "nothing"]
  /\ refusals = <<>>
  /\ chain = "open"
  /\ row = Unwritten

\* A fetch runs in its thread.  It carries no credentials, and none begins once the chain is judged.
Fetching(f) ==
  /\ Own(f) \/ Server(f) \/ Watchdog(f)
  /\ pc[f] = "start" => chain = "open" /\ ~auth'[f]
  /\ UNCHANGED checking

Refused(f) == outcome[f] \in {"refused", "budget"}

\* PolicyFetcherBackend.fetch returns or raises: a refusal is kept, under the lock, and a status
\* that is not 200 is a failure like any other.
Deliver(f) ==
  /\ pc[f] = "done" /\ seen[f] = "nothing"
  /\ refusals' = IF Refused(f) THEN Append(refusals, f) ELSE refusals
  /\ \E got \in {"failure"} \cup (IF outcome[f] = "ok" THEN {"evidence"} ELSE {}) :
       seen' = [seen EXCEPT ![f] = got]
  /\ UNCHANGED <<vars, need, chain, row>>

Evidence ==
  IF need = "each" THEN \A f \in Fetches : seen[f] = "evidence"
                   ELSE \E f \in Fetches : seen[f] = "evidence"

\* Mutant: soft-fail, where no answer is as good as one.
JudgeSoftly(verdict) ==
  /\ chain = "open" /\ chain' = verdict
  /\ \A f \in Fetches : seen[f] # "nothing"
  /\ UNCHANGED <<vars, need, seen, refusals, row>>

\* async_validate_path in hard-fail mode.  The chain may also fail for what has nothing to do with
\* the fetches, or for the first that fails while others still run.
JudgeChain(verdict) ==
  /\ chain = "open" /\ chain' = verdict
  /\ verdict = "trusted" => Evidence
  /\ UNCHANGED <<vars, need, seen, refusals, row>>

\* Mutant: the row is written when the verdict is.
WriteRowAtOnce ==
  /\ chain # "open" /\ row = Unwritten /\ row' = refusals
  /\ UNCHANGED <<vars, need, seen, refusals, chain>>

\* refused_fetches_note, after asyncio.run, which waits for the threads it left running.
WriteRow ==
  /\ chain # "open" /\ row = Unwritten /\ row' = refusals
  /\ \A f \in Fetches : pc[f] = "start" \/ seen[f] # "nothing"
  /\ UNCHANGED <<vars, need, seen, refusals, chain>>

CheckingNext == \/ \E f \in Fetches : Fetching(f) \/ Deliver(f)
                \/ \E verdict \in {"trusted", "untrusted"} : JudgeChain(verdict)
                \/ WriteRow
CheckingSpec == CheckingInit /\ [][CheckingNext]_allVars

-----------------------------------------------------------------------------
(* What the check promises.                                                  *)

\* A chain that was not trusted because firmauy would not fetch says so, and one that failed for
\* another reason does not: the row tells of every refusal, each once, whichever threads met them
\* and however late (PolicyFetcherBackend, refused_fetches_note).
RefusalIsSaid ==
  row # Unwritten =>
    /\ \A f \in Fetches : Refused(f) <=> \E n \in DOMAIN row : row[n] = f
    /\ \A m, n \in DOMAIN row : row[m] = row[n] => m = n

\* With revocation checked, a chain is trusted only on answers that came whole, within the limits
\* and the budget: what a refusal, the deadline or a failure leaves unknown is never taken for
\* "not revoked" (revocation_mode, PolicyFetcherBackend.fetch).
TrustNeedsEvidence ==
  chain = "trusted" =>
    /\ \E f \in Fetches : outcome[f] = "ok"
    /\ need = "each" => \A f \in Fetches : outcome[f] = "ok"
=============================================================================
