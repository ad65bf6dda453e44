------------------------------ MODULE CardFiles ------------------------------
(***************************************************************************)
(* Reading files off the cedula over PC/SC (card_reader.py, and the        *)
(* certificate of native_card.py): SELECT the applet, and for each file    *)
(* SELECT it, find its size in the answer and READ BINARY until there is   *)
(* that much.  The connection is shared: between any two commands another  *)
(* program may select what it likes on the same card.  A card may answer   *)
(* in pieces, less than it was asked for, or nothing at all.               *)
(***************************************************************************)
EXTENDS CardBytes, FiniteSets

CONSTANTS
  Cards,      \* cards there are: file -> [bytes, value], what it holds and what it should read as
  Shapes,     \* how a card words its answer to SELECT FILE
  Readers,    \* PC/SC readers
  MaxChunk,   \* the most READ BINARY asks for (F8)
  MaxOffset,  \* the last offset it can name (7FFF)
  MaxOthers   \* commands other programs give

\* 7002, 7001, 700B, 7004 and B001, and a file of another applet.
Fids == {"bio", "doc", "mrz", "photo", "cert"}
OnCard == Fids \cup {"foreign"}

\* A file the card has not got holds Absent.
ASSUME CardAssumption ==
  /\ MaxChunk \in Nat \ {0} /\ MaxOffset \in Nat /\ MaxOthers \in Nat
  /\ \A c \in Cards, f \in OnCard : c[f].bytes \in Seq(0..255)
  /\ Shapes \subseteq {"plain", "nested", "long", "bare", "sizeless", "cut"}

\* read_card, read_photo and a native signing session: <<file, whether it may be missing>>.
Plans == { << <<"bio", FALSE>>, <<"doc", TRUE>>, <<"mrz", TRUE>> >>,
           << <<"photo", FALSE>> >>,
           << <<"cert", FALSE>> >> }

\* What the card answers to SELECT of a file of n bytes: its size under 80 or 81, in the template
\* 6F or bare, with other tags whose values look like anything, or not at all.
SelectAnswer(how, n) ==
  CASE how = "plain"    -> <<111, 4, 129, 2, 0, n>>
    [] how = "nested"   -> <<111, 8, 133, 3, 129, 1, 4, 128, 1, n>>
    [] how = "long"     -> <<111, 129, 3, 129, 1, n>>
    [] how = "bare"     -> <<128, 1, n>>
    [] how = "sizeless" -> <<111, 4, 131, 2, 0, 1>>
    [] how = "cut"      -> <<111, 4, 129, 2, 0>>

VARIABLES
  card,      \* what the files are
  shape,     \* how SELECT is answered
  mute,      \* whether the card answers READ BINARY and GET RESPONSE with success and no data
  applet, selected, pending,   \* the card's state: what is selected, and what GET RESPONSE gives
  todo,      \* the files still to read
  stage,     \* where the reader is
  fci,       \* what it has of the answer to SELECT
  size, offset, buf,           \* read_file
  result,    \* file -> what the caller gets of it, for those it has been through
  outcome,   \* how the call ended
  others,    \* commands other programs gave
  mixed,     \* the files during whose reading one of them selected something (history)
  strayed    \* whether one of them selected another applet (history)

make == <<card, shape, mute>>
onCard == <<applet, selected, pending>>
reading == <<fci, size, offset, buf>>
world == <<others, mixed, strayed>>
vars == <<make, onCard, todo, stage, reading, result, outcome, world>>

TypeOK ==
  /\ card \in Cards /\ shape \in Shapes /\ mute \in BOOLEAN
  /\ applet \in {"none", "cedula", "other"} /\ selected \in OnCard \cup {"none"}
  /\ pending \in Seq(Int) /\ fci \in Seq(Int)
  /\ todo \in Seq(Fids \X BOOLEAN)
  /\ stage \in {"open", "applet", "applet answer", "select", "answer", "read", "done"}
  /\ size \in Nat /\ offset \in Nat /\ buf \in Seq(0..255)
  /\ DOMAIN result \subseteq Fids
  /\ outcome \in {"none", "read", "failed"}
  /\ others \in 0..MaxOthers /\ mixed \subseteq Fids /\ strayed \in BOOLEAN

Init ==
  /\ card \in Cards /\ shape \in Shapes /\ mute \in BOOLEAN
  /\ applet = "none" /\ selected = "none" /\ pending = <<>>
  /\ todo \in Plans /\ stage = "open"
  /\ fci = <<>> /\ size = 0 /\ offset = 0 /\ buf = <<>>
  /\ result = [f \in {} |-> Absent] /\ outcome = "none"
  /\ others = 0 /\ mixed = {} /\ strayed = FALSE

File == todo[1][1]
Optional == todo[1][2]
There(f) == applet = "cedula" /\ card[f].bytes # Absent

Give(what) ==
  result' = [f \in DOMAIN result \cup {File} |-> IF f = File THEN what ELSE result[f]]

Go(to) == stage' = to /\ UNCHANGED outcome
End(how) == stage' = "done" /\ outcome' = how

-----------------------------------------------------------------------------
(* The reader and the applet.                                                *)

\* open_reader: the reader that was named, or the only one, and a card in it.
Open ==
  /\ stage = "open"
  /\ \E plugged \in SUBSET Readers, named \in SUBSET Readers :
       /\ Cardinality(named) <= 1
       /\ \/ named \subseteq plugged /\ Cardinality(IF named = {} THEN plugged ELSE named) = 1
             /\ Go("applet")
          \/ End("failed")
  /\ UNCHANGED <<make, onCard, todo, reading, result, world>>

\* A command that the card or the connection fails: it propagates.
CommandFails ==
  /\ stage \notin {"open", "done"}
  /\ End("failed")
  /\ UNCHANGED <<make, onCard, todo, reading, result, world>>

\* select_applet: the answer is here, or to be collected.
SelectApplet ==
  /\ stage = "applet"
  /\ applet' = "cedula" /\ selected' = "none"
  /\ \/ Go("select") /\ pending' = <<>>
     \/ Go("applet answer") /\ pending' = <<111, 0>>
  /\ fci' = <<>>
  /\ UNCHANGED <<make, todo, size, offset, buf, result, world>>

-----------------------------------------------------------------------------
(* One file.                                                                 *)

\* The answer to SELECT is whole: read_file begins, if it names a size.
Measure(answer) ==
  LET n == FciFileSize(answer) IN
    /\ IF n = NoSize THEN End("failed") /\ UNCHANGED size
                     ELSE Go("read") /\ size' = n
    /\ fci' = <<>> /\ offset' = 0 /\ buf' = <<>>

\* Mutant: whatever SELECT fails with, an optional file is not there.
SelectFileOrGoOn ==
  /\ stage = "select" /\ todo # <<>>
  /\ \/ /\ There(File)
        /\ selected' = File /\ pending' = <<>>
        /\ Measure(SelectAnswer(shape, Len(card[File].bytes)))
        /\ UNCHANGED <<todo, result>>
     \/ /\ IF Optional
           THEN todo' = Tail(todo) /\ Give(Absent) /\ Go("select")
           ELSE End("failed") /\ UNCHANGED <<todo, result>>
        /\ UNCHANGED <<selected, pending, reading>>
  /\ UNCHANGED <<make, applet, world>>

\* select_file: the answer at once, or to be collected, or 6A82, which an optional file may give.
SelectFile ==
  /\ stage = "select" /\ todo # <<>>
  /\ \/ /\ There(File)
        /\ selected' = File
        /\ LET answer == SelectAnswer(shape, Len(card[File].bytes)) IN
             \/ Measure(answer) /\ pending' = <<>>
             \/ Go("answer") /\ pending' = answer /\ UNCHANGED reading
        /\ UNCHANGED <<todo, result>>
     \/ /\ ~There(File)
        /\ IF Optional
           THEN todo' = Tail(todo) /\ Give(Absent) /\ Go("select")
           ELSE End("failed") /\ UNCHANGED <<todo, result>>
        /\ UNCHANGED <<selected, pending, reading>>
  /\ UNCHANGED <<make, applet, world>>

\* transmit_collect, one GET RESPONSE: another piece of what the card has; nothing, though more
\* was announced, is an error, and so is asking a card that has nothing.
GetResponse ==
  /\ stage \in {"applet answer", "answer"}
  /\ \/ /\ mute \/ pending = <<>>
        /\ End("failed") /\ UNCHANGED <<pending, reading>>
     \/ /\ ~mute
        /\ \E k \in 1..Len(pending) :
             LET answer == fci \o UpTo(k, pending) IN
               /\ pending' = SubSeq(pending, k + 1, Len(pending))
               /\ \/ /\ k < Len(pending) /\ fci' = answer
                     /\ UNCHANGED <<stage, outcome, size, offset, buf>>
                  \/ /\ k = Len(pending) /\ stage = "answer" /\ Measure(answer)
                  \/ /\ k = Len(pending) /\ stage = "applet answer" /\ Go("select")
                     /\ fci' = <<>> /\ UNCHANGED <<size, offset, buf>>
  /\ UNCHANGED <<make, applet, selected, todo, result, world>>

\* What the card gives for READ BINARY: the offset's high bit is not part of it.
Given(from, n) ==
  LET b == IF selected = "none" THEN <<>> ELSE card[selected].bytes
  IN UpTo(n, SubSeq(b, (from % (MaxOffset + 1)) + 1, Len(b)))

Ask == IF size - offset < MaxChunk THEN size - offset ELSE MaxChunk

\* read_file: at most a chunk, and the card may give less.
ReadBinary ==
  /\ stage = "read" /\ offset < size /\ offset <= MaxOffset /\ ~mute
  /\ \E n \in 1..Ask :
       /\ Given(offset, n) # <<>>
       /\ buf' = buf \o Given(offset, n)
       /\ offset' = offset + Len(Given(offset, n))
  /\ UNCHANGED <<make, onCard, todo, stage, fci, size, result, outcome, world>>

\* Mutant: it is asked again.
AskAgain ==
  /\ stage = "read" /\ offset < size
  /\ IF offset > MaxOffset THEN End("failed") ELSE Go("read")
  /\ offset > MaxOffset \/ mute \/ Given(offset, Ask) = <<>>
  /\ UNCHANGED <<make, onCard, todo, reading, result, world>>

\* Past what the offset can name, or no data though the card reports success.
ReadRefused ==
  /\ stage = "read" /\ offset < size
  /\ offset > MaxOffset \/ mute \/ Given(offset, Ask) = <<>>
  /\ End("failed")
  /\ UNCHANGED <<make, onCard, todo, reading, result, world>>

\* All of it is here and is parsed; a photo that is no JPEG and a certificate that is no DER are
\* errors.
FileRead ==
  /\ stage = "read" /\ offset >= size
  /\ IF File \in {"photo", "cert"} /\ Parsed(File, buf) = Absent
     THEN End("failed") /\ UNCHANGED <<todo, result>>
     ELSE /\ Go("select") /\ todo' = Tail(todo)
          /\ Give(Parsed(File, buf))
  /\ size' = 0 /\ offset' = 0 /\ buf' = <<>>
  /\ UNCHANGED <<make, onCard, fci, world>>

Return ==
  /\ stage = "select" /\ todo = <<>>
  /\ End("read")
  /\ UNCHANGED <<make, onCard, todo, reading, result, world>>

-----------------------------------------------------------------------------
(* Another program selects a file, perhaps after an applet, and may leave the *)
(* answer for whoever asks.                                                  *)

OtherSelects ==
  /\ stage \notin {"open", "done"} /\ others < MaxOthers
  /\ others' = others + 1
  /\ \E f \in OnCard :
       /\ card[f].bytes # Absent
       /\ applet' = IF f = "foreign" THEN "other" ELSE "cedula"
       /\ selected' = f
       /\ pending' \in {<<>>, SelectAnswer(shape, Len(card[f].bytes))}
       /\ strayed' = (strayed \/ f = "foreign")
  /\ mixed' = mixed \cup (IF stage \in {"answer", "read"} THEN {File} ELSE {})
  /\ UNCHANGED <<make, todo, stage, reading, result, outcome>>

Read == Open \/ SelectApplet \/ SelectFile \/ GetResponse \/ ReadBinary \/ ReadRefused
        \/ FileRead \/ Return
Next == Read \/ CommandFails \/ OtherSelects
Spec == Init /\ [][Next]_vars

\* The card answers every command, with what it likes.
FairSpec == Spec /\ WF_vars(Read)

-----------------------------------------------------------------------------
(* What reading the card promises.                                           *)

\* What the caller gets of a file is what is in it, all of it and without what pads it, whatever
\* the size of the answers and wherever its size is said, if nobody selected anything while it
\* was read (read_file, _fci_file_size, the parsers).
ReadsWhatWasPutIn ==
  \A f \in DOMAIN result \ mixed : result[f] # Absent => result[f] = card[f].value

\* A document number or an MRZ is reported missing only if the card has none or it is blank: a
\* failure is never taken for one.  That the applet was still selected is taken on trust
\* (read_card, CardFileAbsent).
AbsenceIsTrue ==
  ~strayed => \A f \in DOMAIN result \ mixed : result[f] = Absent => card[f].value = Absent

\* Every read ends, though the card may answer nothing forever (read_file, transmit_collect).
Finishes == <>(stage = "done")
=============================================================================
