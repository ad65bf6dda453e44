----------------------------- MODULE BatchSign -----------------------------
(***************************************************************************)
(* One signing session over several files: api.sign_files, which stops at  *)
(* the first failure and hands over what it had done, and the batch        *)
(* commands of cli.py, which go on and report each file.  Documents live   *)
(* at paths, which inputs and outputs may share; other programs edit or    *)
(* replace the inputs meanwhile.  How one output is put in place is        *)
(* StagedOutput, and how the card is opened PinSession.                    *)
(***************************************************************************)
EXTENDS Integers, FiniteSets

CONSTANTS
  N,         \* the inputs are 1..N, signed in that order
  Paths,
  Source,    \* input -> its path
  Kind,      \* input -> "embedded" (PDF, XML) or "detached" (.p7s), as resolved or forced
  Targets,   \* the paths the output names may come out as
  Nothing,
  MaxEdits   \* how many times another program touches an input

Inputs == 1..N
Kinds == {"embedded", "detached"}

ASSUME BatchAssumption ==
  /\ N \in Nat \ {0} /\ MaxEdits \in Nat
  /\ Source \in [Inputs -> Paths] /\ \A i, k \in Inputs : Source[i] = Source[k] => i = k
  /\ Kind \in [Inputs -> Kinds] /\ Targets \subseteq Paths

VARIABLES
  job,        \* the call: front end, options, output names, inputs found by listing a directory
  disk,       \* path -> the document there
  pc, at,     \* the loop and the input it is at
  undetected, \* inputs whose type could not be read up front (cli.py's predetect_errors)
  fate,       \* what became of the file at hand: what was raised, or "done"
  report,     \* input -> its report
  announced,  \* the inputs progress was called for
  answer,     \* what the caller gets
  written, checked,  \* history: the inputs committed, and those that passed the self-check
  misled,     \* history: the inputs whose signing committed and then failed like any other
  edits

vars == <<job, disk, pc, at, undetected, fate, report, announced, answer, written, checked,
          misled, edits>>

Jobs == [front : {"api", "cli"}, overwrite : BOOLEAN, verify : BOOLEAN, dry : BOOLEAN,
         target : [Inputs -> Targets], listed : SUBSET Inputs]

\* A document: which file it is (its inode), the input it came from (0: nobody's) and whether
\* it was edited since, who signed it, whether the last signature is good, and its mode.
FileIds == {<<"given", i>> : i \in 0..N} \cup {<<"output", i>> : i \in Inputs} \cup {<<"other", 0>>}
Documents == [file : FileIds, origin : 0..N, edited : BOOLEAN, by : SUBSET Inputs,
              sound : BOOLEAN, mode : {"final", "0600"}]

ASSUME NullAssumption == Nothing \notin Documents

Given(i) == [file |-> <<"given", i>>, origin |-> i, edited |-> FALSE, by |-> {},
             sound |-> TRUE, mode |-> "final"]

NoReport == [status |-> "none", verified |-> FALSE]
NoAnswer == [kind |-> "none", index |-> 0, cause |-> "none", callback |-> FALSE]

PostSign == {"failed", "detached-mismatch", "inconclusive"}
Fates == {"none", "done", "error", "committed"} \cup PostSign

src(i) == disk[Source[i]]
out(i) == job.target[i]

-----------------------------------------------------------------------------
(* Before the card.                                                          *)

Init ==
  /\ job \in {j \in Jobs : j.front = "api" => ~j.dry /\ j.listed = {}}
  /\ disk \in {d \in [Paths -> {Nothing, Given(0)} \cup {Given(i) : i \in Inputs}] :
                 /\ \A i \in Inputs : d[Source[i]] = Given(i)
                 /\ \A p \in Paths : (\A i \in Inputs : p # Source[i]) => d[p] \in {Nothing, Given(0)}}
  /\ pc = "plan" /\ at = 1 /\ undetected = {} /\ fate = "none"
  /\ report = [i \in Inputs |-> NoReport] /\ announced = {}
  /\ answer = NoAnswer /\ written = {} /\ checked = {} /\ misled = {} /\ edits = 0

Answer(kind, index, cause, callback) ==
  /\ pc' = "over"
  /\ answer' = [kind |-> kind, index |-> index, cause |-> cause, callback |-> callback]

\* A bad option, a missing input, a PDF past what its own check will read, or a session that
\* does not open: nothing has been signed.
Refuse ==
  /\ pc = "plan" /\ Answer("refused", 0, "error", FALSE)
  /\ UNCHANGED <<job, disk, at, undetected, fate, report, announced, written, checked,
                 misled, edits>>

Collides(S) == \E i, k \in S : i # k /\ out(i) = out(k)

\* Mutant: the outputs are not compared with each other.
PlanCliBlind(unreadable) ==
  /\ pc = "plan" /\ job.front = "cli"
  /\ undetected' = unreadable
  /\ IF job.dry THEN Answer("dry", 0, "none", FALSE) ELSE pc' = "next" /\ UNCHANGED answer
  /\ UNCHANGED <<job, disk, at, fate, report, announced, written, checked, misled, edits>>

\* sign-batch resolves every type and output name up front; two outputs of one name stop it.
PlanCli(unreadable) ==
  /\ pc = "plan" /\ job.front = "cli"
  /\ undetected' = unreadable
  /\ IF Collides(Inputs \ unreadable) THEN Answer("refused", 0, "error", FALSE)
     ELSE IF job.dry THEN Answer("dry", 0, "none", FALSE) ELSE pc' = "next" /\ UNCHANGED answer
  /\ UNCHANGED <<job, disk, at, fate, report, announced, written, checked, misled, edits>>

PlanApi ==
  /\ pc = "plan" /\ job.front = "api" /\ pc' = "next"
  /\ UNCHANGED <<job, disk, at, undetected, fate, report, announced, answer, written, checked,
                 misled, edits>>

-----------------------------------------------------------------------------
(* The loop's head.                                                          *)

\* should_continue says yes, or is not there; the commands ask nobody.
Proceed ==
  /\ pc = "next" /\ at \in Inputs \ undetected /\ pc' = "sign"
  /\ UNCHANGED <<job, disk, at, undetected, fate, report, announced, answer, written, checked,
                 misled, edits>>

\* should_continue says no, or raises: BatchSignCancelled, or BatchSignError.
Halt ==
  /\ pc = "next" /\ at \in Inputs /\ job.front = "api"
  /\ \/ Answer("cancelled", at, "none", FALSE)
     \/ Answer("stopped", at, "callback", TRUE)
  /\ UNCHANGED <<job, disk, at, undetected, fate, report, announced, written, checked,
                 misled, edits>>

\* An input of no known type is not in the commands' jobs.
Skip ==
  /\ pc = "next" /\ at \in undetected /\ at' = at + 1
  /\ UNCHANGED <<job, disk, pc, undetected, fate, report, announced, answer, written, checked,
                 misled, edits>>

-----------------------------------------------------------------------------
(* One file: _sign_one_pdf, _sign_one_xml, _sign_one_cms.                     *)

\* Mutant: the file is opened by its name alone.
OpensAny(i) == TRUE

\* _open_input: a file found by listing a directory is still the file that was listed.
Opens(i) == i \in job.listed => src(i).file = <<"given", i>>

\* Not onto itself, not over a file unasked, and not a second signature into one document.
MaySign(i) ==
  /\ out(i) # Source[i]
  /\ job.overwrite \/ disk[out(i)] = Nothing
  /\ Opens(i)
  /\ Kind[i] = "embedded" => src(i).by = {}

Signed(i, sound, mode) ==
  [file |-> <<"output", i>>, origin |-> src(i).origin, edited |-> src(i).edited,
   by |-> src(i).by \cup {i}, sound |-> sound, mode |-> mode]

\* Committed, and whether the card's signature is good only its check can tell.
SignOne ==
  /\ pc = "sign" /\ MaySign(at)
  /\ \E sound \in BOOLEAN : disk' = [disk EXCEPT ![out(at)] = Signed(at, sound, "final")]
  /\ written' = written \cup {at}
  /\ IF job.verify THEN pc' = "check" /\ UNCHANGED fate ELSE pc' = "settle" /\ fate' = "done"
  /\ UNCHANGED <<job, at, undetected, report, announced, answer, checked, misled, edits>>

\* OutputCommittedError: committed, and its mode could not be set.
SignCommitted ==
  /\ pc = "sign" /\ MaySign(at)
  /\ \E sound \in BOOLEAN : disk' = [disk EXCEPT ![out(at)] = Signed(at, sound, "0600")]
  /\ written' = written \cup {at}
  /\ fate' = "committed" /\ pc' = "settle"
  /\ UNCHANGED <<job, at, undetected, report, announced, answer, checked, misled, edits>>

\* Committed by its link, and the name it was staged under would not go (_commit_without_clobber):
\* a plain OSError, which nobody can tell from a signing that wrote nothing.
SignDelivers ==
  /\ pc = "sign" /\ MaySign(at) /\ ~job.overwrite
  /\ \E sound \in BOOLEAN : disk' = [disk EXCEPT ![out(at)] = Signed(at, sound, "0600")]
  /\ written' = written \cup {at} /\ misled' = misled \cup {at}
  /\ fate' = "error" /\ pc' = "settle"
  /\ UNCHANGED <<job, at, undetected, report, announced, answer, checked, edits>>

\* Refused, or the card, the TSA, the parser or the disk failed before the commit: nothing is
\* written.
SignFails ==
  /\ pc = "sign" /\ fate' = "error" /\ pc' = "settle"
  /\ UNCHANGED <<job, disk, at, undetected, report, announced, answer, written, checked,
                 misled, edits>>

\* A detached signature is checked against the input as it is now.
Matches(i) ==
  \/ Kind[i] = "embedded"
  \/ LET c == disk[out(i)] IN
       c.origin = src(i).origin /\ c.edited = src(i).edited /\ c.by = src(i).by \cup {i}

\* Mutant: one outcome for every check that fails.
CheckOneOutcome ==
  /\ pc = "check" /\ pc' = "settle"
  /\ LET passes == disk[out(at)].sound /\ Matches(at)
     IN fate' \in {IF passes THEN "done" ELSE "failed", "inconclusive"}
  /\ checked' = IF fate' = "done" THEN checked \cup {at} ELSE checked
  /\ UNCHANGED <<job, disk, at, undetected, report, announced, answer, written, misled, edits>>

\* _verify_after_*: the check passes, finds against the signature, or cannot be completed.
Check ==
  /\ pc = "check" /\ pc' = "settle"
  /\ LET passes == disk[out(at)].sound /\ Matches(at)
         finding == IF Kind[at] = "embedded" THEN "failed" ELSE "detached-mismatch"
     IN fate' \in {IF passes THEN "done" ELSE finding, "inconclusive"}
  /\ checked' = IF fate' = "done" THEN checked \cup {at} ELSE checked
  /\ UNCHANGED <<job, disk, at, undetected, report, announced, answer, written, misled, edits>>

-----------------------------------------------------------------------------
(* What is said of it.                                                       *)

Report(status, verified) ==
  report' = [report EXCEPT ![at] = [status |-> status, verified |-> verified]]

\* Mutant: a committed output of the wrong mode is an ordinary failure.
SettleApiPlain ==
  /\ pc = "settle" /\ job.front = "api"
  /\ IF fate = "done" THEN Report("ok", job.verify) /\ announced' = announced \cup {at}
     ELSE UNCHANGED <<report, announced>>
  /\ \E raised \in (IF fate = "done" THEN BOOLEAN ELSE {FALSE}) :
       IF fate = "done" /\ ~raised
       THEN pc' = "next" /\ at' = at + 1 /\ fate' = "none" /\ UNCHANGED answer
       ELSE /\ Answer("stopped", at, IF fate = "done" THEN "callback" ELSE fate, raised)
            /\ UNCHANGED <<at, fate>>
  /\ UNCHANGED <<job, disk, undetected, written, checked, misled, edits>>

\* sign_files: a finished output is reported and announced whatever came of it; the first
\* failure, the caller's own progress included, ends the batch.
SettleApi ==
  /\ pc = "settle" /\ job.front = "api"
  /\ LET finished == fate \in {"done", "committed"} IN
     /\ IF finished
        THEN /\ Report(IF fate = "done" THEN "ok" ELSE "signed", fate = "done" /\ job.verify)
             /\ announced' = announced \cup {at}
        ELSE UNCHANGED <<report, announced>>
     /\ \E raised \in (IF finished THEN BOOLEAN ELSE {FALSE}) :
          IF fate = "done" /\ ~raised
          THEN pc' = "next" /\ at' = at + 1 /\ fate' = "none" /\ UNCHANGED answer
          ELSE /\ Answer("stopped", at, IF fate = "done" THEN "callback" ELSE fate, raised)
               /\ UNCHANGED <<at, fate>>
  /\ UNCHANGED <<job, disk, undetected, written, checked, misled, edits>>

\* The commands report each file and go on.
SettleCli ==
  /\ pc = "settle" /\ job.front = "cli"
  /\ CASE fate = "done" -> Report("ok", job.verify)
       [] fate = "committed" -> Report("signed", FALSE)
       [] OTHER -> Report(IF fate = "error" THEN "error" ELSE fate, FALSE)
  /\ pc' = "next" /\ at' = at + 1 /\ fate' = "none"
  /\ UNCHANGED <<job, disk, undetected, announced, answer, written, checked, misled, edits>>

\* Every input has its report: the list of them.
FinishApi ==
  /\ pc = "next" /\ at = N + 1 /\ job.front = "api" /\ Answer("list", 0, "none", FALSE)
  /\ UNCHANGED <<job, disk, at, undetected, fate, report, announced, written, checked,
                 misled, edits>>

\* Mutant: only errors make the command fail.
FinishCliLenient ==
  /\ pc = "next" /\ at = N + 1 /\ job.front = "cli"
  /\ report' = [i \in Inputs |-> IF i \in undetected THEN [status |-> "error", verified |-> FALSE]
                                 ELSE report[i]]
  /\ LET good == \A i \in Inputs : report'[i].status \in {"ok", "signed"}
     IN Answer(IF good THEN "exit 0" ELSE "exit 1", 0, "none", FALSE)
  /\ UNCHANGED <<job, disk, at, undetected, fate, announced, written, checked, misled, edits>>

\* The inputs that never had a type are errors too; an error or a missing chmod is exit 1.
FinishCli ==
  /\ pc = "next" /\ at = N + 1 /\ job.front = "cli"
  /\ report' = [i \in Inputs |-> IF i \in undetected THEN [status |-> "error", verified |-> FALSE]
                                 ELSE report[i]]
  /\ LET good == \A i \in Inputs : report'[i].status = "ok"
     IN Answer(IF good THEN "exit 0" ELSE "exit 1", 0, "none", FALSE)
  /\ UNCHANGED <<job, disk, at, undetected, fate, announced, written, checked, misled, edits>>

-----------------------------------------------------------------------------
(* Other programs, to inputs the batch has not overwritten itself.           *)

Touch(i, file) ==
  /\ edits < MaxEdits /\ edits' = edits + 1 /\ pc \notin {"plan", "over"}
  /\ src(i).file = <<"given", i>>
  /\ disk' = [disk EXCEPT ![Source[i]] =
       IF file = "same" THEN [@ EXCEPT !.edited = TRUE]
       ELSE [@ EXCEPT !.file = <<"other", 0>>, !.origin = 0]]
  /\ UNCHANGED <<job, pc, at, undetected, fate, report, announced, answer, written, checked,
                 misled>>

Edit(i) == Touch(i, "same")
Replace(i) == Touch(i, "another")

Loop == Proceed \/ Halt \/ Skip \/ SignOne \/ SignCommitted \/ SignDelivers \/ SignFails
        \/ Check \/ SettleApi \/ SettleCli \/ FinishApi \/ FinishCli

Next ==
  \/ Refuse \/ (\E unreadable \in SUBSET Inputs : PlanCli(unreadable)) \/ PlanApi
  \/ Loop
  \/ \E i \in Inputs : Edit(i) \/ Replace(i)

Spec == Init /\ [][Next]_vars

-----------------------------------------------------------------------------
(* Properties.                                                               *)

Statuses == {"none", "ok", "signed", "error"} \cup PostSign
AnswerKinds == {"none", "refused", "dry", "cancelled", "stopped", "list", "exit 0", "exit 1"}

\* The type of every variable.
TypeOK ==
  /\ job \in Jobs /\ disk \in [Paths -> Documents \cup {Nothing}]
  /\ pc \in {"plan", "next", "sign", "check", "settle", "over"} /\ at \in 1..(N + 1)
  /\ pc \in {"sign", "check", "settle"} => at \in Inputs
  /\ undetected \subseteq Inputs /\ fate \in Fates
  /\ report \in [Inputs -> [status : Statuses, verified : BOOLEAN]] /\ announced \subseteq Inputs
  /\ answer \in [kind : AnswerKinds, index : 0..N, cause : Fates \cup {"callback"},
                callback : BOOLEAN]
  /\ written \subseteq Inputs /\ checked \subseteq written /\ misled \subseteq written
  /\ edits \in 0..MaxEdits

Reported == {i \in Inputs : report[i].status \in {"ok", "signed"}}

\* The API compares no output names: a later input may take this one's.
Overtaken(i) == job.front = "api" /\ \E k \in written : k > i /\ out(k) = out(i)

\* What is reported as signed is at its path, by this input's signature, in the mode the report
\* says, and called verified only if that signature passed its own check; progress was told of
\* exactly these (errors.py BatchSignError, cli.py "SIGNED (not verified)").  No input's output
\* replaces another's, but in an API batch whose names coincide.
ReportsStand ==
  /\ \A i \in Reported :
       /\ ~Overtaken(i) =>
            /\ disk[out(i)] # Nothing /\ disk[out(i)].file = <<"output", i>>
            /\ (report[i].status = "ok") <=> (disk[out(i)].mode = "final")
            /\ report[i].verified => disk[out(i)].sound
       /\ report[i].verified => i \in checked
       /\ report[i].status = "ok" /\ job.verify => report[i].verified
  /\ announced = IF job.front = "api" THEN Reported ELSE {}

\* What the answer says of file i when it does not count it as signed.
Blamed(i) == IF job.front = "cli" THEN report[i].status
             ELSE IF answer.index = i THEN answer.cause ELSE "none"

\* Over: a file was written exactly if it is reported as signed, or its failed self-check is what
\* the answer blames, or its signing failed after the commit and the answer calls it an error, so
\* what is left to do can be told but for those; "failed", which says to sign again, is only said
\* of a bad signature, and a good one beside a changed original is a mismatch (errors.py
\* BatchSignError, PostSignVerificationError).
LeftoverIsNamed ==
  pc = "over" => \A i \in Inputs :
    /\ i \in written <=> i \in Reported \/ Blamed(i) \in PostSign \/ i \in misled
    /\ i \in misled => Blamed(i) = "error"
    /\ Blamed(i) = "failed" /\ ~Overtaken(i) => ~disk[out(i)].sound

\* A file found by listing a directory is signed only if it is the file that was listed: not
\* another one put at its name meanwhile, and not an output of this same batch.
SignsWhatWasListed ==
  \A i \in written \cap job.listed : disk[out(i)].origin = i /\ disk[out(i)].by = {i}

\* Success, a list or exit 0, is said exactly when every input has been signed, has its final
\* mode and passed the check that was asked for; and a finished command reports every input.
SuccessMeansAll ==
  /\ answer.kind \in {"list", "exit 0"} =>
       \A i \in Inputs :
         /\ i \in written /\ (job.verify => i \in checked)
         /\ ~Overtaken(i) => disk[out(i)].file = <<"output", i>> /\ disk[out(i)].mode = "final"
  /\ answer.kind = "exit 1" => \E i \in Inputs : report[i].status # "ok"
  /\ answer.kind \in {"list", "exit 0", "exit 1"} => \A i \in Inputs : report[i].status # "none"
=============================================================================
