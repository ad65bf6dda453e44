-------------------------- MODULE CardFiles_proofs --------------------------
(***************************************************************************)
(* What is proved of CardFiles: if the decoders are right about whole      *)
(* files, then what a call returns is right, for every card, every offset  *)
(* and chunk limit, every way answers are cut, and any number of commands  *)
(* of other programs.                                                      *)
(***************************************************************************)
EXTENDS CardFiles, SequenceTheorems, TLAPS

\* What the decoders owe: the value of each whole file, and its size from the answer to SELECT,
\* or no size.  TLC runs them; as recursive functions they are out of the provers' reach.
DecodersRight ==
  \A c \in Cards, f \in Fids :
    /\ Parsed(f, c[f].bytes) = c[f].value
    /\ c[f].bytes = Absent => c[f].value = Absent
    /\ \A how \in Shapes :
         FciFileSize(SelectAnswer(how, Len(c[f].bytes))) \in {NoSize, Len(c[f].bytes)}

-----------------------------------------------------------------------------
(* Where a reader is, and what it has there if nobody selected anything.     *)

Typed ==
  /\ card \in Cards /\ shape \in Shapes
  /\ pending \in Seq(Int) /\ fci \in Seq(Int)
  /\ todo \in Seq(Fids \X BOOLEAN)

Whole(f) == card[f].bytes

ReadInv ==
  /\ stage \in {"answer", "read"} => todo # <<>>
  /\ stage \in {"select", "read"} => fci = <<>>
  /\ stage \notin {"open", "applet", "done"} /\ ~strayed => applet = "cedula"
  /\ stage = "answer" /\ File \notin mixed =>
       selected = File /\ fci \o pending = SelectAnswer(shape, Len(Whole(File)))
  /\ stage = "read" /\ File \notin mixed =>
       /\ selected = File
       /\ size = Len(Whole(File)) /\ offset \in 0..size
       /\ buf = SubSeq(Whole(File), 1, offset)

ResultInv ==
  \A f \in DOMAIN result \ mixed :
    \/ f \in Fids /\ result[f] = card[f].value
    \/ result[f] = Absent /\ (strayed \/ card[f].value = Absent)

CardInv == Typed /\ ReadInv /\ ResultInv

-----------------------------------------------------------------------------
(* Pieces of a sequence.                                                     *)

\* A piece taken off the front and added to what was there before loses nothing.
LEMMA Pieces ==
  ASSUME NEW had \in Seq(Int), NEW s \in Seq(Int), NEW k \in 1..Len(s)
  PROVE /\ UpTo(k, s) \in Seq(Int) /\ SubSeq(s, k + 1, Len(s)) \in Seq(Int)
        /\ (had \o UpTo(k, s)) \o SubSeq(s, k + 1, Len(s)) = had \o s
        /\ k = Len(s) => had \o UpTo(k, s) = had \o s
<1>1. UpTo(k, s) = SubSeq(s, 1, k)
  BY LenProperties DEF UpTo
<1>2. SubSeq(s, 1, k) \in Seq(Int) /\ SubSeq(s, k + 1, Len(s)) \in Seq(Int)
  <2>1. Len(s) \in Nat /\ \A i \in 1..Len(s) : s[i] \in Int
    BY LenProperties, ElementOfSeq
  <2>2. (\A i \in 1..k : s[i] \in Int) /\ (\A i \in (k + 1)..Len(s) : s[i] \in Int)
    BY <2>1
  <2>3. QED
    BY <2>1, <2>2, SubSeqProperties
<1>3. SubSeq(s, 1, k) \o SubSeq(s, k + 1, Len(s)) = s
  <2>1. Len(s) \in Nat
    BY LenProperties
  <2>2. 1 \in 1..(Len(s) + 1) /\ k \in (1 - 1)..Len(s) /\ Len(s) \in k..Len(s)
    BY <2>1
  <2>3. SubSeq(s, 1, k) \o SubSeq(s, k + 1, Len(s)) = SubSeq(s, 1, Len(s))
    BY <2>2, ConcatAdjacentSubSeq
  <2>4. QED
    BY <2>3, SubSeqFull
<1>4. (had \o SubSeq(s, 1, k)) \o SubSeq(s, k + 1, Len(s))
        = had \o (SubSeq(s, 1, k) \o SubSeq(s, k + 1, Len(s)))
  <2>1. ASSUME NEW t \in Seq(Int), NEW u \in Seq(Int)
        PROVE (had \o t) \o u = had \o (t \o u)
    BY SMTT(60)
  <2>2. QED
    BY Zenon, <1>2, <2>1
<1>5. k = Len(s) => SubSeq(s, 1, k) = s
  BY SubSeqFull
<1>6. QED
  BY <1>1, <1>2, <1>3, <1>4, <1>5

\* What READ BINARY gives of a file from an offset within reach follows what is there.
LEMMA ReadOn ==
  ASSUME NEW b \in Seq(0..255), NEW m \in Nat, NEW from \in 0..m, NEW n \in 1..(Len(b) - from)
  PROVE /\ SubSeq(b, 1, from) \o UpTo(n, SubSeq(b, (from % (m + 1)) + 1, Len(b)))
             = SubSeq(b, 1, from + n)
        /\ Len(UpTo(n, SubSeq(b, (from % (m + 1)) + 1, Len(b)))) = n
<1> DEFINE rest == SubSeq(b, from + 1, Len(b))
<1>0. Len(b) \in Nat /\ from \in Nat /\ n \in Nat /\ from + n <= Len(b)
  BY LenProperties
<1>b. \A i \in (from + 1)..Len(b) : b[i] \in 0..255
  <2>1. \A i \in 1..Len(b) : b[i] \in 0..255
    BY ElementOfSeq
  <2>2. QED
    BY <1>0, <2>1
<1>1. from % (m + 1) = from
  BY <1>0
<1>2. rest \in Seq(0..255) /\ Len(rest) = Len(b) - from
  <2>1. \A i \in (from + 1)..Len(b) : b[i] \in 0..255
    BY <1>b
  <2>2. QED
    BY <1>0, <2>1, SubSeqProperties
<1>3. UpTo(n, rest) = SubSeq(rest, 1, n)
  BY <1>0, <1>2 DEF UpTo
<1>4. SubSeq(rest, 1, n) = SubSeq(b, from + 1, from + n)
  <2>1. /\ from + 1 \in 1..Len(b) /\ Len(b) \in 1..Len(b)
        /\ 1 \in 1..(Len(b) - (from + 1) + 1) /\ n \in 1..(Len(b) - (from + 1) + 1)
    BY <1>0
  <2>2. SubSeq(SubSeq(b, from + 1, Len(b)), 1, n) = SubSeq(b, (from + 1) + 1 - 1, (from + 1) + n - 1)
    BY <2>1, SubSeqOfSubSeq
  <2>3. (from + 1) + 1 - 1 = from + 1 /\ (from + 1) + n - 1 = from + n
    BY <1>0
  <2>4. QED
    BY <2>2, <2>3
<1>5. SubSeq(b, 1, from) \o SubSeq(b, from + 1, from + n) = SubSeq(b, 1, from + n)
  <2>1. 1 \in 1..(Len(b) + 1) /\ from \in (1 - 1)..Len(b) /\ from + n \in from..Len(b)
    BY <1>0
  <2>2. QED
    BY <2>1, ConcatAdjacentSubSeq
<1>6. Len(SubSeq(b, from + 1, from + n)) = n
  <2>1. \A i \in (from + 1)..(from + n) : b[i] \in 0..255
    BY <1>0, <1>b
  <2>2. Len(SubSeq(b, from + 1, from + n)) =
          IF from + 1 <= from + n THEN (from + n) - (from + 1) + 1 ELSE 0
    BY <1>0, <2>1, SubSeqProperties
  <2>3. QED
    BY <1>0, <2>2
<1>7. QED
  BY <1>1, <1>3, <1>4, <1>5, <1>6

-----------------------------------------------------------------------------
(* Types.                                                                    *)

\* The answer to SELECT is a sequence of numbers.
LEMMA AnswerTyped ==
  ASSUME NEW how \in Shapes, NEW n \in Nat
  PROVE SelectAnswer(how, n) \in Seq(Int)
<1>1. how \in {"plain", "nested", "long", "bare", "sizeless", "cut"}
  BY CardAssumption
<1>2. QED
  BY <1>1 DEF SelectAnswer

\* What the card sends and what the reader has of it stay sequences of numbers.
LEMMA TypeStep ==
  ASSUME Typed, stage \in {"answer", "read"} => todo # <<>>, [Next]_vars
  PROVE Typed'
<1> USE DEF Typed, make, onCard, reading, world
<1>0. \A f \in OnCard : Len(card[f].bytes) \in Nat
  BY CardAssumption, LenProperties
<1>e. <<>> \in Seq(Int) /\ <<111, 0>> \in Seq(Int)
  OBVIOUS
<1>1. CASE UNCHANGED vars
  BY <1>1 DEF vars
<1>2. CASE Open \/ CommandFails \/ ReadRefused \/ Return \/ ReadBinary
  BY <1>2 DEF Open, CommandFails, ReadRefused, Return, ReadBinary
<1>3. CASE SelectApplet
  <2>1. pending' \in {<<>>, <<111, 0>>} /\ fci' = <<>>
    BY <1>3 DEF SelectApplet
  <2>2. QED
    BY <1>3, <1>e, <2>1 DEF SelectApplet
<1>4. CASE SelectFile
  <2>1. todo # <<>> /\ File \in Fids /\ Tail(todo) \in Seq(Fids \X BOOLEAN)
    BY <1>4 DEF SelectFile, File
  <2>2. SelectAnswer(shape, Len(card[File].bytes)) \in Seq(Int)
    BY <1>0, <2>1, AnswerTyped DEF OnCard
  <2>3. /\ fci' \in {<<>>, fci} /\ todo' \in {todo, Tail(todo)} /\ UNCHANGED make
        /\ pending' \in {<<>>, pending, SelectAnswer(shape, Len(card[File].bytes))}
    BY <1>4 DEF SelectFile, Measure
  <2>4. QED
    BY <1>e, <2>1, <2>2, <2>3
<1>5. CASE GetResponse
  <2>1. CASE UNCHANGED <<pending, reading>>
    BY <1>5, <2>1 DEF GetResponse
  <2>2. ASSUME NEW k \in 1..Len(pending),
               pending' = SubSeq(pending, k + 1, Len(pending)),
               fci' \in {fci \o UpTo(k, pending), <<>>}
        PROVE Typed'
    <3>1. fci \o UpTo(k, pending) \in Seq(Int) /\ pending' \in Seq(Int)
      BY <2>2, Pieces, ConcatProperties
    <3>2. fci' \in Seq(Int)
      BY <1>e, <2>2, <3>1
    <3>3. QED
      BY <1>5, <3>1, <3>2 DEF GetResponse
  <2>3. QED
    BY <1>5, <2>1, <2>2 DEF GetResponse, Measure
<1>6. CASE FileRead
  <2>1. todo # <<>>
    BY <1>6 DEF FileRead
  <2>2. Tail(todo) \in Seq(Fids \X BOOLEAN)
    BY <2>1
  <2>3. QED
    BY <1>6, <2>2 DEF FileRead
<1>7. CASE OtherSelects
  <2>1. PICK f \in OnCard : pending' \in {<<>>, SelectAnswer(shape, Len(card[f].bytes))}
    BY <1>7 DEF OtherSelects
  <2>2. pending' \in Seq(Int)
    BY <1>0, <1>e, <2>1, AnswerTyped
  <2>3. QED
    BY <1>7, <2>2 DEF OtherSelects
<1>8. QED
  BY <1>1, <1>2, <1>3, <1>4, <1>5, <1>6, <1>7 DEF Next, Read

-----------------------------------------------------------------------------
(* Where the reader is.                                                      *)

\* What a measured answer leads to.
LEMMA MeasureShape ==
  ASSUME NEW answer, Measure(answer)
  PROVE /\ fci' = <<>>
        /\ \/ stage' = "done"
           \/ stage' = "read" /\ size' = FciFileSize(answer) /\ FciFileSize(answer) # NoSize
              /\ offset' = 0 /\ buf' = <<>>
BY DEF Measure, End, Go

\* The reader keeps what it has of a file that nobody disturbs, one command after another.
LEMMA ReadStep ==
  ASSUME DecodersRight, CardInv, [Next]_vars
  PROVE ReadInv'
<1> USE DEF CardInv, ReadInv, Whole, make, onCard, reading, world
<1>0. /\ card \in Cards /\ shape \in Shapes
      /\ todo # <<>> => File \in Fids
      /\ \A f \in Fids : /\ card[f].bytes \in Seq(0..255) /\ Len(card[f].bytes) \in Nat
                         /\ FciFileSize(SelectAnswer(shape, Len(card[f].bytes)))
                              \in {NoSize, Len(card[f].bytes)}
  <2>1. todo # <<>> => File \in Fids
    BY DEF Typed, File
  <2>2. \A f \in Fids : card[f].bytes \in Seq(0..255)
    BY CardAssumption DEF Typed, OnCard
  <2>3. \A f \in Fids : Len(card[f].bytes) \in Nat
    BY <2>2, LenProperties
  <2>4. QED
    BY <2>1, <2>2, <2>3 DEF Typed, DecodersRight
<1>1. CASE UNCHANGED vars
  BY <1>1 DEF vars, File
<1>2. CASE stage' = "done"
  BY <1>2
<1>3. CASE Open /\ stage' # "done"
  BY <1>3 DEF Open, Go, End
<1>4. CASE SelectApplet
  BY <1>4 DEF SelectApplet, Go
\* A file whose answer is whole is read from its start.
<1>5. ASSUME NEW answer, Measure(answer), stage' # "done", todo # <<>>, UNCHANGED <<card, todo, mixed>>,
             File \notin mixed => selected' = File /\ answer = SelectAnswer(shape, Len(Whole(File)))
      PROVE /\ fci' = <<>> /\ stage' = "read"
            /\ File' \notin mixed' =>
                 /\ selected' = File' /\ size' = Len(Whole(File)') /\ offset' \in 0..size'
                 /\ buf' = SubSeq(Whole(File)', 1, offset')
  <2>1. /\ fci' = <<>> /\ stage' = "read" /\ size' = FciFileSize(answer) /\ FciFileSize(answer) # NoSize
        /\ offset' = 0 /\ buf' = <<>>
    BY <1>5, MeasureShape
  <2>2. File' = File /\ mixed' = mixed /\ card' = card
    BY <1>5 DEF File
  <2>3. ASSUME File \notin mixed
        PROVE /\ selected' = File /\ size' = Len(Whole(File)) /\ offset' \in 0..size'
              /\ buf' = SubSeq(Whole(File), 1, offset')
    <3>1. size' = Len(Whole(File)) /\ selected' = File
      BY <1>0, <1>5, <2>1, <2>3
    <3>2. SubSeq(Whole(File), 1, 0) = <<>>
      BY SubSeqEmpty
    <3>3. QED
      BY <1>0, <1>5, <2>1, <3>1, <3>2
  <2>4. QED
    BY <2>1, <2>2, <2>3
<1>6. CASE SelectFile /\ stage' # "done"
  <2>0. stage = "select" /\ todo # <<>> /\ fci = <<>> /\ UNCHANGED <<make, applet, world>>
    BY <1>6 DEF SelectFile
  <2>1. CASE /\ ~There(File) /\ stage' = "select" /\ UNCHANGED <<selected, pending, reading>>
    BY <2>0, <2>1
  <2>2. CASE /\ There(File) /\ selected' = File /\ UNCHANGED todo
             /\ Measure(SelectAnswer(shape, Len(card[File].bytes)))
    <3>1. /\ fci' = <<>> /\ stage' = "read"
          /\ File' \notin mixed' =>
               /\ selected' = File' /\ size' = Len(Whole(File)') /\ offset' \in 0..size'
               /\ buf' = SubSeq(Whole(File)', 1, offset')
      BY <1>5, <1>6, <2>0, <2>2
    <3>2. QED
      BY <2>0, <2>2, <3>1
  <2>3. CASE /\ There(File) /\ selected' = File /\ UNCHANGED <<todo, reading>>
             /\ stage' = "answer" /\ pending' = SelectAnswer(shape, Len(card[File].bytes))
    <3>1. SelectAnswer(shape, Len(card[File].bytes)) \in Seq(Int)
      BY <1>0, <2>0, AnswerTyped
    <3>2. fci' \o pending' = SelectAnswer(shape, Len(card[File].bytes))
      BY Zenon, <2>0, <2>3, <3>1, ConcatEmptySeq DEF reading
    <3>3. File' = File /\ card' = card /\ shape' = shape
      BY <2>0, <2>3 DEF File
    <3>4. QED
      BY <2>0, <2>3, <3>2, <3>3
  <2>4. QED
    BY <1>6, <2>1, <2>2, <2>3 DEF SelectFile, Go, End
<1>7. CASE GetResponse /\ stage' # "done"
  <2>0. stage \in {"applet answer", "answer"} /\ UNCHANGED <<make, applet, selected, todo, result, world>>
    BY <1>7 DEF GetResponse
  <2>1. PICK k \in 1..Len(pending) :
          /\ pending' = SubSeq(pending, k + 1, Len(pending))
          /\ \/ /\ k < Len(pending) /\ fci' = fci \o UpTo(k, pending) /\ UNCHANGED stage
             \/ k = Len(pending) /\ stage = "answer" /\ Measure(fci \o UpTo(k, pending))
             \/ k = Len(pending) /\ stage = "applet answer" /\ stage' = "select" /\ fci' = <<>>
    BY <1>7 DEF GetResponse, End, Go
  <2>2. /\ (fci \o UpTo(k, pending)) \o SubSeq(pending, k + 1, Len(pending)) = fci \o pending
        /\ k = Len(pending) => fci \o UpTo(k, pending) = fci \o pending
    BY Pieces DEF Typed
  <2>3. File' = File /\ Whole(File)' = Whole(File)
    BY <2>0 DEF File
  <2>4. CASE k < Len(pending) /\ fci' = fci \o UpTo(k, pending) /\ UNCHANGED stage
    <3>1. fci' \o pending' = fci \o pending
      BY <2>1, <2>2, <2>4
    <3>2. QED
      BY <2>0, <2>3, <2>4, <3>1
  <2>5. CASE k = Len(pending) /\ stage = "answer" /\ Measure(fci \o UpTo(k, pending))
    <3>1. /\ fci' = <<>> /\ stage' = "read"
          /\ File' \notin mixed' =>
               /\ selected' = File' /\ size' = Len(Whole(File)') /\ offset' \in 0..size'
               /\ buf' = SubSeq(Whole(File)', 1, offset')
      BY <1>5, <1>7, <2>0, <2>2, <2>5
    <3>2. QED
      BY <2>0, <2>5, <3>1
  <2>6. CASE k = Len(pending) /\ stage = "applet answer" /\ stage' = "select" /\ fci' = <<>>
    BY <2>0, <2>6
  <2>7. QED
    BY <2>1, <2>4, <2>5, <2>6
<1>8. CASE ReadBinary
  <2>0. /\ stage = "read" /\ offset < size /\ offset <= MaxOffset /\ todo # <<>>
        /\ UNCHANGED <<make, onCard, todo, stage, fci, size, result, outcome, world>>
    BY <1>8 DEF ReadBinary
  <2>1. File' = File /\ Whole(File)' = Whole(File)
    BY <2>0 DEF File
  <2>2. ASSUME File \notin mixed
        PROVE offset' \in 0..size /\ buf' = SubSeq(Whole(File), 1, offset')
    <3>1. PICK n \in 1..Ask : /\ buf' = buf \o Given(offset, n)
                              /\ offset' = offset + Len(Given(offset, n))
      BY <1>8 DEF ReadBinary
    <3>2. /\ selected = File /\ size = Len(Whole(File)) /\ offset \in 0..size
          /\ buf = SubSeq(Whole(File), 1, offset) /\ File # "none"
      BY <1>0, <2>0, <2>2 DEF Fids
    <3>3. n \in 1..(Len(Whole(File)) - offset) /\ offset \in 0..MaxOffset
      BY <1>0, <2>0, <3>1, <3>2, CardAssumption DEF Ask
    <3>4. Given(offset, n) = UpTo(n, SubSeq(Whole(File), (offset % (MaxOffset + 1)) + 1, Len(Whole(File))))
      BY <3>2 DEF Given
    <3>5. /\ SubSeq(Whole(File), 1, offset) \o Given(offset, n) = SubSeq(Whole(File), 1, offset + n)
          /\ Len(Given(offset, n)) = n
      <4>1. Whole(File) \in Seq(0..255) /\ MaxOffset \in Nat
        BY <1>0, <2>0, CardAssumption
      <4> HIDE DEF Whole
      <4>2. QED
        BY <3>3, <3>4, <4>1, ReadOn
    <3>6. QED
      BY <1>0, <2>0, <3>1, <3>2, <3>3, <3>5
  <2>3. QED
    BY <2>0, <2>1, <2>2
<1>9. CASE FileRead /\ stage' # "done"
  BY <1>9 DEF FileRead, Go, End
<1>10. CASE OtherSelects
  <2>1. stage \notin {"open", "done"} /\ UNCHANGED <<make, todo, stage, reading, result, outcome>>
    BY <1>10 DEF OtherSelects
  <2>2. (~strayed' => applet' = "cedula") /\ File' = File
    BY <1>10, <2>1 DEF OtherSelects, File
  <2>3. stage \in {"answer", "read"} => File \in mixed'
    BY <1>10 DEF OtherSelects
  <2>4. QED
    BY <2>1, <2>2, <2>3
<1>11. CASE CommandFails \/ ReadRefused \/ Return
  BY <1>2, <1>11 DEF CommandFails, ReadRefused, Return, End
<1>12. QED
  BY <1>1, <1>2, <1>3, <1>4, <1>6, <1>7, <1>8, <1>9, <1>10, <1>11 DEF Next, Read

-----------------------------------------------------------------------------
(* What the caller gets.                                                     *)

\* What is given to the caller is a file's value, or nothing where there is none.
LEMMA ResultStep ==
  ASSUME DecodersRight, CardInv, [Next]_vars
  PROVE ResultInv'
<1> USE DEF CardInv, ResultInv
<1>0. card' = card /\ (strayed => strayed') /\ mixed \subseteq mixed'
  <2> USE DEF make, world
  <2>1. CASE UNCHANGED <<make, world>>
    BY <2>1
  <2>2. CASE SelectFile
    BY <2>2 DEF SelectFile
  <2>3. CASE GetResponse
    BY <2>3 DEF GetResponse
  <2>4. CASE ReadBinary \/ FileRead
    BY <2>4 DEF ReadBinary, FileRead
  <2>5. CASE OtherSelects
    BY <2>5 DEF OtherSelects
  <2>6. QED
    BY <2>1, <2>2, <2>3, <2>4, <2>5
    DEF Next, Read, vars, Open, CommandFails, SelectApplet, ReadRefused, Return
<1>1. CASE UNCHANGED result
  BY <1>0, <1>1
<1>2. ASSUME NEW what, Give(what), todo # <<>>,
             File \notin mixed => \/ what = card[File].value
                                  \/ what = Absent /\ (strayed \/ card[File].value = Absent)
      PROVE ResultInv'
  <2>1. File \in Fids
    BY <1>2 DEF Typed, File
  <2>2. ASSUME NEW f \in DOMAIN result' \ mixed'
        PROVE \/ f \in Fids /\ result'[f] = card'[f].value
              \/ result'[f] = Absent /\ (strayed' \/ card'[f].value = Absent)
    <3>1. CASE f = File
      BY <1>0, <1>2, <2>1, <2>2, <3>1 DEF Give
    <3>2. CASE f # File
      <4>1. f \in DOMAIN result \ mixed /\ result'[f] = result[f]
        BY <1>0, <1>2, <2>2, <3>2 DEF Give
      <4>2. QED
        BY <1>0, <4>1
    <3>3. QED
      BY <3>1, <3>2
  <2>3. QED
    BY <2>2
<1>3. CASE SelectFile /\ result' # result
  <2>1. ~There(File) /\ todo # <<>> /\ Give(Absent) /\ stage = "select"
    BY <1>3 DEF SelectFile
  <2>2. strayed \/ card[File].bytes = Absent
    BY <2>1 DEF There, ReadInv
  <2>3. card[File].bytes = Absent => card[File].value = Absent
    BY <2>1 DEF DecodersRight, Typed, File
  <2>4. QED
    BY <1>2, <2>1, <2>2, <2>3
<1>4. CASE FileRead /\ result' # result
  <2>1. Give(Parsed(File, buf)) /\ stage = "read" /\ offset >= size /\ todo # <<>>
    BY <1>4 DEF FileRead, ReadInv
  <2>2. File \in Fids /\ card \in Cards
    BY <2>1 DEF Typed, File
  <2>3. ASSUME File \notin mixed PROVE Parsed(File, buf) = card[File].value
    <3>1. /\ card[File].bytes \in Seq(0..255)
          /\ size = Len(Whole(File)) /\ offset \in 0..size /\ buf = SubSeq(Whole(File), 1, offset)
      BY <2>1, <2>2, <2>3, CardAssumption DEF ReadInv, OnCard
    <3>2. offset = Len(Whole(File))
      BY <2>1, <3>1, LenProperties DEF Whole
    <3>3. buf = card[File].bytes
      BY <3>1, <3>2, SubSeqFull DEF Whole
    <3>4. QED
      BY <2>2, <3>3 DEF DecodersRight
  <2>4. QED
    BY <1>2, <2>1, <2>3
<1>5. QED
  BY <1>1, <1>3, <1>4
  DEF Next, Read, vars, Open, CommandFails, SelectApplet, GetResponse, ReadBinary, ReadRefused,
      Return, OtherSelects

LEMMA Invariant ==
  ASSUME DecodersRight
  PROVE Spec => []CardInv
<1>1. Init => CardInv
  <2> SUFFICES ASSUME Init PROVE CardInv
    OBVIOUS
  <2>1. todo \in Seq(Fids \X BOOLEAN)
    <3> DEFINE S == Fids \X BOOLEAN
    <3>1. /\ <<"bio", FALSE>> \in S /\ <<"doc", TRUE>> \in S /\ <<"mrz", TRUE>> \in S
          /\ <<"photo", FALSE>> \in S /\ <<"cert", FALSE>> \in S
      BY DEF Fids
    <3> HIDE DEF S
    <3>2. Plans \subseteq Seq(S)
      BY <3>1 DEF Plans
    <3>3. QED
      BY <3>2 DEF Init, S
  <2>2. QED
    BY <2>1 DEF Init, CardInv, Typed, ReadInv, ResultInv
<1>2. CardInv /\ [Next]_vars => CardInv'
  <2> SUFFICES ASSUME CardInv, [Next]_vars PROVE CardInv'
    OBVIOUS
  <2>1. Typed'
    BY TypeStep DEF CardInv, ReadInv
  <2>2. QED
    BY <2>1, ReadStep, ResultStep DEF CardInv
<1>3. QED
  BY <1>1, <1>2, PTL DEF Spec

\* What the caller gets of a file is all of it, if nobody selected anything while it was read,
\* for every card, chunk and offset limit (read_file, transmit_collect).
THEOREM WholeOrNothing ==
  ASSUME DecodersRight
  PROVE Spec => []ReadsWhatWasPutIn
<1>1. CardInv => ReadsWhatWasPutIn
  BY DEF CardInv, ResultInv, ReadsWhatWasPutIn
<1>2. QED
  BY <1>1, Invariant, PTL

\* What is reported missing is missing, as long as nobody selects another applet (read_card).
THEOREM MissingIsMissing ==
  ASSUME DecodersRight
  PROVE Spec => []AbsenceIsTrue
<1>1. CardInv => AbsenceIsTrue
  BY DEF CardInv, ResultInv, AbsenceIsTrue
<1>2. QED
  BY <1>1, Invariant, PTL
=============================================================================
