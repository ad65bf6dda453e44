# Verification of firmauy

firmauy signs PDF, XML and arbitrary files with a Uruguayan identity card (cédula) and verifies
such signatures. This directory holds TLA+ models of the parts of it whose correctness lies in
order: of system calls, of commands to a card, of threads, of the files of a batch and of a cache,
and of the answers a verifier gives. They are checked by TLC on small instances, and every property
that is not of liveness is proved by TLAPS for all of them. Line numbers below are of `src/src/firmauy/`.

## 1. The system

| component | code | state it keeps | operations | what is hard |
| --- | --- | --- | --- | --- |
| staged output | `signing.py` 627-1270 | files beside and at the output's name, their owner, ACL and mode | `_staged_output` and its Windows branch, `_adopt_replaced`, `_commit_without_clobber` | other writers and programs between any two system calls, failures, interrupts, kills, file systems without hard links or ACLs, files that cannot be renamed or deleted while open |
| signing session and PIN | `signing.py` 89-302, 565-607, `native_card.py`, `pkcs11_utils.py`, `pin.py` | the connection, the chosen certificate, the PIN; in the card: retry counter, security status, selected key, digest | `_signing_session` (two backends), `verify_pin`, `select_certificate`, `sign_message` | the last try locks the card; the card is shared; checks before the PIN grow stale |
| outbound fetch | `outbound.py` | per fetch: sockets, deadline; per verification: a budget | `fetch`, watchdog `_Fetch`, `FetchBudget` | a timer thread against the registration of sockets, redirects, rebinding names, slow servers, threads on one budget |
| timestamping | `signing.py` 314-562 | none | the TSA request | it is a caller of `fetch` |
| revocation fetchers | `revocation_fetchers.py`, `xml_verify.py` 230-262 | the refusals of one verification | CRL, OCSP and AIA requests in pyHanko's threads | a refusal met by a thread that outlives the verdict |
| verification | `verify_common.py`, `pdf_verify.py`, `cms_verify.py`, `xml_verify.py` | none: a function of a file, anchors and the day | `verify_pdf`, `verify_cms`, `verify_xml` | an unsigned token that may choose the day the chain is judged on; three codes for one question; three-valued answers |
| batch signing | `api.py` 743-978, `cli.py` 391-455, 776-985, 1100-1240, 1343-1495, 1689-1929 | reports, counts, outputs on disk | `sign_files`, `sign-batch` and the batches by type | partial failure, callbacks that raise, outputs that collide, inputs that change |
| listed inputs | `cli.py` 402-434, `signing.py` 1321-1373 | the identity of each listed file | `_discover_batch_inputs`, `_open_input` | the file replaced between listing and open |
| national CA anchors | `national_ca.py`, `_shared.py` 59-106 | two cached files | `fetch_cas`, `load_cached_trust_anchors`, `_resolve_trust_anchors` | two replaces that are not one; kills; retries, mirrors; versions with other pins |
| card files | `card_reader.py`, `native_card.py` 53-76 | the file selected in the card | `read_file`, `transmit_collect`, TLV and DER lengths | a shared selection, answers in pieces, offsets of 15 bits |
| one document | `signing.py` 1407-1636, `xml_sign.py`, `cms_sign.py`, `appearance.py` | none | `_sign_one_*`, the stamp | one pass over one document |
| the rest | `ci.py`, `cert_utils.py`, `errors.py`, single commands and `doctor` in `cli.py`, `api.py` | none | parsing, printing | nothing concurrent |

How they interact. A signing call (single or batch) builds the timestamper, opens one session
(certificate, PIN), and for each file opens the input, has the card sign, asks the TSA through
`fetch`, writes through the staged output, and with `--verify` runs the verifier on what it wrote.
A verification loads anchors and hands path building to pyHanko, which calls the revocation
fetchers back in its threads; they share one budget and each goes through `fetch`. The processes
share nothing but the file system (outputs, inputs and the CA cache) and the card.

What makes each correct is stated in section 3, next to the run that checks it; the hazards those
properties are for are listed, each at its line, in `PROJECT.json`.

## 2. Modules

| module | models |
| --- | --- |
| `AtomicOutput` | what a call of `_staged_output` promises, without saying how: at most one delivery, over another's file only if asked, and a true answer |
| `StagedOutput` | concurrent calls on one path on POSIX, one action per system call, with the other programs (`Env*`), failures, interrupts and kills as actions |
| `StagedRefinement` | the refinement mapping from `StagedOutput` to `AtomicOutput` |
| `StagedWindows` | the same on Windows, where a file that anybody has open can be neither renamed nor deleted; with its own mapping to `AtomicOutput` |
| `TokenCertificates` | pure: the certificates of a token and how one is chosen (`usable_certificates`, `select_certificate`) |
| `PinSession` | sessions of both backends on one card, one action per exchange with the card or the PKCS#11 module, with other programs' PINs, pulled cards and midnights in between |
| `OutboundFetch` | fetches with their watchdog threads and their shared budget: vetting, connecting, registering the socket, waiting, reading, following; the server's answers and the timer are other actors |
| `Revocation` | the check of one chain over those fetches: worker threads, the list of refusals, the verdict on the chain and the row that tells of the refusals |
| `SignatureVerdict` | what the three verifiers return for every combination of signature, token, anchors and day |
| `BatchSign` | one batch by either front end over documents at paths, with another program editing or replacing inputs |
| `TrustAnchors` | fetches and readers of the CA cache of several versions of firmauy, from the source files and downloads to the two files one after the other |
| `CardBytes` | pure: the decoders of what a card returns (`ber_length`, `_fci_file_size`, the fields, photo and certificate), over bytes |
| `CardFiles` | the commands that read files off the card, and another program that selects files in between |
| `MC*` | values of the constants for TLC |
| `*_proofs` | the theorems of a module; those of `OutboundFetch` are in `Revocation_proofs`, whose proofs rest on them |

How state and actions correspond to the code: every definition names its function in a comment or
in `PROJECT.json` ("map"), a local variable of the code that matters is a variable indexed by the
call, the thread or the file, and `pc` or `stage` is where in the function it is. Variables marked
*history* (`raced`, `meddled`, `refused`, `disturbed`, `written`, `misled`, `mixed`...) are not in the code; they
only record what the properties speak of. Definitions preceded by "Mutant" are not used by the
specifications: they are plausible mistakes, and putting one in the place of the definition it
follows makes the property named with it in `PROJECT.json` fail.

`PinSession` extends `TokenCertificates`, `CardFiles` extends `CardBytes`, and `Revocation` extends
`OutboundFetch`: its fetches are that module's, with every socket, redirect and timer, and a theorem
says so (`ChecksByFetching`). `BatchSign` takes from the other modules their result only: a session
that opened, a file that was committed, failed, or committed with the wrong mode
(`OutcomeTellsTruth` is what lets it), and a check that passed, found against or could not be made.

What the data is abstracted to. A document is a value with its origin and its signers; an ACL is
absent, unsupported or present; a certificate is its validity in days, whether it is public and has
its key, and its score, or in `TrustAnchors` a name and who signed it; an address is public, private
or link-local; a body is counted in chunks; time is a day, or the choice of when a timer fires;
cryptography is a Boolean. Only `CardBytes` speaks of bytes, because its lengths and tags are what
can go wrong.

## 3. Runs

Every run but `Verdict` ends with `CHECK_DEADLOCK FALSE`, since a call, a session, a fetch or a
batch ends and nothing need happen after.

| run | instance | shows |
| --- | --- | --- |
| `StagedHardLinks` | hard links; an overwriting writer alone among programs that create, replace, remove, move aside and re-permission the output, with two owners, a clock that may not separate two changes, I/O failures, refused unlinks, interrupts and kills; or with a writer that may not overwrite beside it, among programs that create, replace and remove files, and no kill | the path never leads to an unfinished or too open document (`WholeAndPrivateAtPath`, `PrivateWhileStaged`); the access published is one file's at one moment, as far as the clock can show (`CaptureExact`, `PublishedAccess`); how a call ends tells what it delivered, unless it was refused an unlink (`OutcomeTellsTruth`); `NoClobber`; the calls implement `AtomicOutput` |
| `StagedNoHardLinks` | two writers that may not overwrite, no links, every fault | a call that answers has taken back its reservation and its staging file, unless an unlink was refused or an interrupt fell outside the handlers (`NothingLeftBehind`), and the same contract with the reservation in it |
| `StagedUnreserve` | as above, one overwriting | violated: see section 6 |
| `StagedWindows` | two writers on NTFS, one overwriting, or two on a volume without links; a scanner that opens a staging file or the file being replaced at any moment and may never let go; one failure, interrupt or kill | the contract of `AtomicOutput`, where nothing ever balks; what Windows refuses is never the writer's own doing (`OnlyOthersStandInTheWay`); every call ends (`Finishes`) |
| `WindowsReservation` | one writer without links, a scanner that opens the reservation | violated: see section 6 |
| `Pin` | a native and a PKCS#11 session, one PIN or one selection of a key by others, every kind of PIN, every starting counter, pulled cards, or one midnight; or one PKCS#11 session alone on every token of up to two certificates, with a midnight | `KeepsLastTry`, `CostOfACall`, `ChosenIsUsable`, `AskedLast`, `EarlyRefusalIsFinal`; each step that signs uses the session's own key and digest, unless somebody changed them in between (`SignsItsOwn`) |
| `FetchWatchdog` | one fetch, two redirects with each of the three hops charged, proxy or not | `WatchdogMissesNothing`, `CutIsDeadline`, `GoesWhereVetted`, `Finishes` |
| `Revocation` | two fetches with a redirect each, a budget of two requests and one chunk | nothing is trusted without whole answers (`TrustNeedsEvidence`), every refusal is told however late it comes (`RefusalIsSaid`), `BudgetHolds` |
| `Verdict` | two roots, three days, all signatures, tokens and callers | the rows of `docs/security-invariants.md` that speak of timestamps and verdicts: `BrokenHoldsBack`, `MomentIsEarned`, `FormatsAgree`, `DoesNotDecay` |
| `Batch` | a file of any type and a document, two output names and the inputs' own, two edits or replacements, every way a signing ends, also with the document delivered and a plain error | `ReportsStand`, `SignsWhatWasListed`, `SuccessMeansAll`; what was written is reported or blamed, or is the one case where the code calls a delivered document an error (`LeftoverIsNamed`) |
| `TrustAnchors` | two fetches, one perhaps of a newer version with other pins, and a verification; a cache that is empty, newer or spoilt; five states of the three servers, the official one down for good with the mirror up among them | a reader gets its own version's pair or none (`OnlyPinned`), a refused fetch has touched nothing, and a temporary file stays only of a killed one, or of one that says its removal was refused (`RefusedTouchesNothing`), what was fetched stays (`FetchedIsFound`), what is served is cached (`ServedIsCached`) |
| `CardFiles` | three cards, six wordings of the answer to SELECT, two readers, one command by another program | a file is read whole and without its padding (`ReadsWhatWasPutIn`), a failure is never taken for an absent file (`AbsenceIsTrue`), a read ends though the card may answer nothing for ever (`Finishes`) |

Types (`TypeOK`) are proved where a module has theorems, and not run again.

Why the bounds are enough. *Staged output*: the interesting cases need one other writer, or one
program that acts twice, and a second attempt of a capture; more writers add nothing that two do
not do to each other. `MaxRewrites` is 2, so that an access can be changed and changed back, and two of
the accesses differ in the ACL alone, which only ctime can show: the clock separates a change from the
one before, or does not (`since`). `Attempts` (`_ADOPT_ATTEMPTS`) is 2 where the code has 4, and `Tries`
(`_DISCARD_ATTEMPTS`) 2 where it has 20: what matters is that a capture or an unlink is tried again
and given up. One `Scanners` is one file that cannot be moved; the writer has one part file, and
looks at one other at a time. *PIN*: tries start anywhere from 0 to 3, so the last one is reached
with and without a race, and one foreign PIN is the race. Two files per session show a stale digest or key selection.
The choice of a certificate compares them in pairs. *Fetch*: the watchdog's race is between one
socket and one expiry; the second and third hop show sockets that were registered earlier.
*Revocation*: the budget is smaller than what two fetches want, and one fetch may outlive the
other's verdict. *Verdict*: three days are before, at and after an end; two roots are the right and
the wrong one. *Batch*: two files are one that fails and one before or after it, and either may
be overwritten by the other's output. *Trust anchors*:
a reader has two reads and a fetch two writes; one fetch between the reads and one half done is what
there is, and three would only repeat it. `Retries` is 2 where the code has 4, so that a server that
comes back does so in time, and one that does not is given up. *Card files*: chunks of 3 and
offsets to 11 make a file take several reads, and one longer than the last offset; the code's are
248 and 32767. `MaxRewrites`, `OthersTries`, `LastDay`, `MaxFiles`, `MaxEdits`, `MaxOthers` and
`Attempts` are the bounds that cut the environment off. `Interchangeable` and `Names` permute values
no definition tells apart; none of these runs checks liveness. In `Pin`
the variable `alone` (`MCPinSession`) and in `StagedHardLinks` the constraint `Scope`
(`MCStagedOutput`) keep apart one actor in every world and two actors in a smaller one. What those
two worlds leave apart is not left to TLC alone: the invariants of both runs are theorems too. So are `NothingLeftBehind` with hard links and
`OutcomeTellsTruth` without, each of which is run on the other file system only.

Fairness. `StagedWindows!FairSpec` (of `MCFairSpec`, whose steps are fewer): a writer's next system
call is eventually made (it is one thread running straight on; other programs owe nothing, and a
scanner may hold a file for ever).
`OutboundFetch!FairSpec`: a fetch's thread runs, its timer fires and its watchdog finishes; a thread
waiting on a socket that was shut is woken. The server need never answer: `Finishes` holds because of
the watchdog alone. That a name is resolved and a connect ends is assumed: the first has no limit in
the code (`outbound.py` 20-34 says so), the second has its own timeout. `TrustAnchors!Fairness`: a
call that is not killed runs on, as every request has a timeout and every pause ends.
`CardFiles!FairSpec`: the card answers every command, with what it likes. Nothing else is said to be
fair.

## 4. Theorems

Each holds for every value of the constants that the named assumptions allow.

| theorem | says | argument |
| --- | --- | --- |
| `StagedOutput_proofs!TypeCorrect` | `[]TypeOK`, and where a writer can be | `ControlInv`: which calls a writer makes at all, by its flag and the file system |
| `AtPathWholeAndPrivate` | `[]WholeAndPrivateAtPath` | not inductive: the commit needs that the file is whole and `0600` when its turn comes, which is `DataInv`, which needs `ControlInv` |
| `StagedInPrivate`, `PublishesTheCapture` | `[]PrivateWhileStaged`, `[]PublishedAccess` | `OwnFileInv`: at each call, which of the captured owner, ACL and mode the writer's own file has by now; `SupportInv`: an access with ACLs comes only from a file system that has them (`AclSupportAssumption`), so a step that is skipped had nothing to restore |
| `CapturesOneMoment` | `[]CaptureExact` | `CaptureInv`: what was read is still what the open file has, as long as `since` says "same", and after the second `fstat` unless `disturbed`, which a change the clock did not show counts as; a step that changes what a reader has open marks that reader (`Marked`), and nobody has another's staging file in view before it was delivered (`ShownInv`), so the calls of other writers on their own files change nothing |
| `LeavesNothing` | if there are hard links or nobody moves entries aside, `[]NothingLeftBehind` | `LeftInv`: where a writer is when its reservation is still at the name or its staging file still exists, and that one left behind by a call that ended was refused its unlink or cut short |
| `NeverClobbers` | under `ReservationsStay`, `NoClobber` | `HeldInv`: from its reservation to the rename over it, the name is the writer's; action by action |
| `OutcomeIsTrue` | `[]OutcomeTellsTruth` | from `DataInv`: `committed` and `pc` go together |
| `Implements` | under `ReservationsStay`, `StagedOutput` implements `AtomicOutput` | a step of a writer is a reservation or its end, a delivery, an answer or a stutter (`WriterImplements`); the others' are a change of the entry (`OthersImplement`); `AnswerInv`, `LeftInv` and `HeldInv` add to `DataInv` what has been answered and who holds the name |
| `StagedWindows_proofs!TypeCorrect`, `OthersStandInTheWay` | `[](TypeOK /\ ControlInv)`, `OnlyOthersStandInTheWay` | `HandleInv`: a writer has nothing open at the calls Windows may refuse, so the file that is in use is in use by another |
| `StagedWindows_proofs!Implements` | under `ReservationsUnopened`, `StagedWindows` implements `AtomicOutput` | the same steps; `HeldInv` says besides that no handle but the reserving writer's own is on a reservation, so taking it back succeeds |
| `PinSession_proofs!TypeCorrect` | `[]TypeOK` | with the shapes of the two certificate choices as lemmas |
| `LastTryIsKept` | `[]KeepsLastTry` | `CounterInv`: what a session last saw of the counter bounds it unless it was raced; `SessionInv` says where each backend can be |
| `CostIsTold` | `[]CostOfACall` | from `SessionInv` |
| `SignsOwnFile` | `SignsItsOwn` | `SignInv`: from its MSE on, the key in the card is the session's, and from its HASH on the digest is its current file's or gone, unless the session was `meddled` with; action by action |
| `PinIsAskedLast`, `RefusesForGood` | `[]AskedLast`, `EarlyRefusalIsFinal` | `AskInv`: what the choice made before the login found; `MoreIsEnough`: with more certificates shown and none private, a choice that failed before the login would fail after it |
| `SignsWithUsable` | `[]ChosenIsUsable` | `SelectedIsRight`: the greatest score among those left is a right choice; `CertInv` carries the native check to the PIN |
| `Revocation_proofs!FetchTypes` | `[]TypeOK` | one lemma per shape of transition |
| `ConnectionsVetted` | `[]GoesWhereVetted` | `Vetting`: what is still to be tried was vetted too |
| `NoSocketMissed` | `[]WatchdogMissesNothing` | `EventFirst` (the event is set before the list is copied) and `Guarded` (an open socket is known, or the thread is about to look) |
| `CutReported` | `[]CutIsDeadline` | `CutSeen`: where a thread can be once its socket was shut |
| `CredentialsKept` | `[]CredentialsStay`: a request carries credentials only until the first redirect | with where the thread is when it follows one |
| `BudgetIsKept` | `[]BudgetHolds` | `CountInv`: the counter of requests is at least the number of hops paid for, and that of bytes at least the chunks read by threads still in the run, each charged before it is used; a charge adds one element to a finite set (`GrownByOne`), any other step none (`NotGrown`) |
| `ChecksByFetching` | a revocation check is a behaviour of `OutboundFetch`, so that its theorems hold of it | step by step |
| `RefusalsSaid` | `[]RefusalIsSaid` | the list holds each refused fetch once, and a row is written only when no thread is left to add one |
| `TrustRestsOnEvidence` | `[]TrustNeedsEvidence` | what certvalidator has of a fetch is what the fetch ended with |
| `SignatureVerdict_proofs!BrokenHeldBack`, `MomentEarned`, `Agree` | `[]BrokenHoldsBack`, `[]MomentIsEarned`, `[]FormatsAgree` | `VerdictInv`: for each verdict given, the stamp, the moment and the trust it rests on |
| `NoDecay` | `DoesNotDecay` | the chain of a proved moment is judged on that moment, whatever the day |
| `BatchSign_proofs!TypeCorrect` | `[]TypeOK` | with the loop's invariant |
| `ReportsAreTrue`, `ListedIsSigned` | `[]ReportsStand`, `[]SignsWhatWasListed` | `IInv`: outputs do not collide once a command's plan is made (`PlanInv`), nothing ahead of the loop is written (`LoopInv`), a report and the files agree (`ToldInv`), and what was written still stands (`OutputInv`), which needs all three |
| `LeftoversAreNamed`, `SuccessIsComplete` | `[]LeftoverIsNamed`, `[]SuccessMeansAll` | of the step that ends the batch, from `IInv`, of which `MisledInv` says where a signing that delivered and then failed stands; nothing moves after it |
| `TrustAnchors_proofs!PinnedOnly`, `RefusalsTouchNothing`, `WhatWasFetchedIsThere`, `TypeCorrect` | `[]OnlyPinned`, `[]RefusedTouchesNothing`, `[]FetchedIsFound`, `[]TypeOK` | `SafetyInv`: what a call has in hand at each stage has been judged, and a reader's root is its pin before it reads on |
| `CardFiles_proofs!WholeOrNothing`, `MissingIsMissing` | `[]ReadsWhatWasPutIn`, `[]AbsenceIsTrue` | `CardInv`: what was read so far is the file's beginning, as long as nobody else selected |

Assumptions: those named in the modules (`WritersAssumption`, `AccessAssumption`,
`AclSupportAssumption`, `SessionAssumption`, `LimitAssumption`, `AnchorAssumption`,
`BatchAssumption`, `NullAssumption`, `SourceAssumption`: a chain that is checked names a source...),
which TLC evaluates in every run. The theorems of `CardFiles_proofs` have one more, `DecodersRight`:
that the decoders of `CardBytes` get the value out of each card's bytes, and the size out of each
answer. It is about functions that walk bytes, out of this prover's reach; for the cards of the run
it is what `ReadsWhatWasPutIn` checks, since TLC computes the decoders there. The inductive
invariants were checked by TLC before they were proved.

Two assumptions are hypotheses of the theorems that need them, not of the modules, since the runs
`StagedUnreserve` and `WindowsReservation` are about what happens without them.
`StagedOutput_proofs!ReservationsStay`: there are hard links, or no writer overwrites and other
programs only create files and write into them, so that nobody replaces or removes an empty file
that holds the name. `StagedWindows_proofs!ReservationsUnopened`: there are hard links, or no scanner
opens a reservation and no writer that opens what it finds overwrites. Within them the system may do
everything else.

Only model-checked: liveness (`Finishes`, three of them, and `ServedIsCached`), which rests on
fairness and is out of TLAPS's reach.

## 5. Not modelled

- The bytes of a signature, digests, canonicalization, parsing and path building (pyHanko, lxml, or
  one pass without state), and how a stamp is drawn.
- The options of the timestamper and its checks of the TSA's answer: one pass over one message.
- Of verification, several signatures in one file and the worst of them; of listed inputs, the
  filter on links and on what lies outside the directory (`_batch_input_allowed`).
- Option parsing, JSON and wording; `ci.py`, `cert_utils.py`, `appearance.py` and `doctor` (pure, or
  one look at the environment).
- On Windows: ACLs, of which the writer keeps none; a failing `fstat` of a handle just opened; an
  unlink that fails for another reason than a file in use. `os.replace` is one step. In `StagedWindows`
  other programs leave a reservation alone; what happens when one does not is `WindowsReservation`.
- A SOCKS proxy: `proxy_manager_for` (`outbound.py` 448) leaves it urllib3's own classes, so its
  sockets never reach `_Fetch.watch` and the watchdog cannot shut them. It needs PySocks, which is no
  dependency of the package; `OutboundFetch` has the direct route and an HTTP proxy.
- An `os.close` that fails in the `finally` of a writer (1058, 1262), which would turn a delivered
  document into an `OSError`, and an interrupt after the last `fchmod` has returned (1249): `Publish`
  and the return of the call are one step. Nothing is written after either.
- On the card: two programs that both sign with it are in `PinSession`, and two that read in
  `CardFiles`; not one of each.
- Five hazards no property covers, each with its reason in `PROJECT.json`: time is not measured, so
  that the loop over a name's addresses looks at no deadline (`outbound.py` 376) and that a name's
  resolution has no limit (365); a token whose validation raises and that pyHanko parses again
  (`verify_common.py` 330); outputs of one name in an API batch (`api.py` 916); and a certificate that
  expires after it was checked (`signing.py` 275, section 6).

`PROJECT.json` lists each part and the reason.

## 6. Where the code and its text differ

Shown by a run:

- `StagedUnreserve`: the reservation is compared and then removed by name, in two calls; what took its
  place in between is removed, against "anything else at that name is not this function's to
  remove" (`signing.py` 1049).
- `WindowsReservation`: while a program has the fresh reservation open, Windows refuses the replace
  and then the one unlink (1077), and an empty file stays at the output's name, against "a crash or an
  exception never leaves a truncated file at `path`" (1118).

Met while modelling, and in the model as the code has them; no run is given to refute the text:

- Without hard links a kill between the reservation and the rename leaves an empty file at the
  output's name on POSIX too (1039, against 1174).
- A `KeyboardInterrupt` where no handler is in place yet leaves what was just made, on POSIX and on
  Windows (`InterruptUnguarded`, outcome "cut"): as the `os.open` of the staging file returns (657, 1215)
  the part file; as the reservation's returns (1039, before the `try` at 1045), or inside the handler
  that would take it back, the empty file at the output's name; inside the handler that unlinks the
  part file (1259), that file. `NothingLeftBehind` and `OnlyOthersStandInTheWay` set "cut" apart, and
  nothing else of an interrupt.
- The access of the replaced file is not read atomically, as `_read_replaced` says itself (803-816): a
  change made and undone, or an ACL changed, within the resolution of the file system's timestamps is
  not seen. In `StagedOutput` the clock may or may not separate two changes (`Restamp`), and
  `CaptureExact` claims nothing of a capture that one of these fell into.
- `OutputAccessControlError` can be raised on Windows (776, 790, 957), where the docstring of
  `_staged_output_windows` (1127) and `CHANGELOG.md` 39-40 say it never is.
- The native session looks at the certificate's validity once, before the PIN is asked for, against
  "never sign with an expired or not-yet-valid certificate" (273); `ChosenIsUsable` says what holds.
- Where the directory refuses the unlink of the staging name after the link (POSIX, 1100), a
  delivered document ends in a plain `OSError`, not in `OutputCommittedError` (`refused` in
  `OutcomeTellsTruth`, `Balk` in `AtomicOutput`). A batch counts it as an error (`api.py` 945-967, and
  the commands): the file is written, and neither reported nor in the lists of `BatchSignError`
  (`errors.py` 350), whose cause is that `OSError`. `SignDelivers` in `BatchSign` does this, and
  `LeftoverIsNamed` holds but for it.
- `_atomic_cache_write` unlinks its temporary file in a handler (`national_ca.py` 100); where that is
  refused, as on Windows while a scanner has the file open, it stays though the call was not killed,
  and the refusal is what is raised ("stranded" in `TrustAnchors`).
- MSE, HASH and CDS are three commands and no transaction holds the card (`native_card.py` 164-188): a
  key or a digest that another program puts there in between is what is signed with (`meddled` sets
  this apart in `SignsItsOwn`).
- `read_card` reports the optional files absent when another program has selected its own applet,
  since the card then has no such file; and a file that changed under a read is not noticed, as
  there is no `SCardBeginTransaction` (`strayed` and `mixed` set both apart in `CardFiles`).
- An XML timestamp element without text counts as no timestamp where CMS and PDF say it is broken
  (`BrokenHoldsBack`, `FormatsAgree`).
- `sign_files` compares no output names, so with `overwrite` two inputs of one name leave one output
  and two reports (`Overtaken` in `BatchSign`).

## 7. Plan

Order: what can lose a document or lock a card first, then what can mislead, then the rest.

1. Done: both writers with their abstract specification, sessions, fetches and the revocation check
   over them, verdicts, batches, the CA cache, the files of the card.
2. Proofs: every safety property of every run is a theorem, and both writers' refinement. Left: that
   the decoders of `CardBytes` are right for every length, which needs induction over bytes
   (`DecodersRight` assumes it); and a weaker contract for the writers where a reservation is
   disturbed, which both could be shown to implement.
3. Model left: several signatures per file in `SignatureVerdict`, the filter of listed inputs in
   `BatchSign`, a signing session beside a reader on one card.
