------------------------------ MODULE CardBytes ------------------------------
(***************************************************************************)
(* What the bytes of a card file mean: the decoders of card_reader.py and  *)
(* of native_card.py, as functions.  A byte is a number, a file a sequence *)
(* of them.  How text is decoded and laid out is left out.                 *)
(***************************************************************************)
EXTENDS Integers, Sequences, SequencesExt

\* What a decoder returns that finds nothing.
Absent == <<>>

None == [length |-> 0, start |-> 0]

\* int.from_bytes; past any size there is, how much past does not matter.
Number(b) == FoldLeft(LAMBDA n, x : IF n > 65535 THEN n ELSE 256 * n + x, 0, b)

\* ber_length: the length encoded at b[i] and where the value starts, or None.
BerLength(b, i) ==
  IF i > Len(b) THEN None
  ELSE IF b[i] < 128 THEN [length |-> b[i], start |-> i + 1]
  ELSE LET n == b[i] - 128 IN
       IF n = 0 \/ Len(b) < i + n THEN None
       ELSE [length |-> Number(SubSeq(b, i + 1, i + n)), start |-> i + 1 + n]

\* Whether a decoded length is there and its value is.
Fits(b, d) == d # None /\ d.start + d.length - 1 <= Len(b)
Value(b, d) == SubSeq(b, d.start, d.start + d.length - 1)
UpTo(n, b) == SubSeq(b, 1, IF n < Len(b) THEN n ELSE Len(b))

\* What is inside the template 6F, as far as it goes.
Template(fci) ==
  LET d == BerLength(fci, 2) IN
    IF fci # <<>> /\ Head(fci) = 111 /\ d # None
    THEN UpTo(d.length, SubSeq(fci, d.start, Len(fci))) ELSE fci

\* bytes.find
Finds(b, mark, from) ==
  {i \in from..(Len(b) - Len(mark) + 1) : SubSeq(b, i, i + Len(mark) - 1) = mark}
First(S) == CHOOSE i \in S : \A j \in S : i <= j

NoSize == -1

\* Mutant: the bytes are searched for 81 01.
ScannedFileSize(fci) ==
  LET at == Finds(fci, <<129, 1>>, 1) IN IF at = {} THEN NoSize ELSE fci[First(at) + 2]

\* _fci_file_size: the value of the first 80 or 81, walking from one tag to the next.
FciFileSize(fci) ==
  LET b == Template(fci)
      walk[i \in 1..(Len(b) + 1)] ==
        LET d == BerLength(b, i + 1) IN
          IF i + 1 > Len(b) \/ ~Fits(b, d) THEN NoSize
          ELSE IF b[i] \in {128, 129} /\ d.length >= 1 THEN Number(Value(b, d))
          ELSE walk[d.start + d.length]
  IN walk[1]

\* _tlv_value: whether the two-byte tag is at the start with a value that is all there, and it.
Tagged(b, tag) == Len(b) >= 3 /\ SubSeq(b, 1, 2) = tag /\ Fits(b, BerLength(b, 3))
TlvValue(b, tag) == IF Tagged(b, tag) THEN Value(b, BerLength(b, 3)) ELSE Absent

\* str.strip
Spaces == (9..13) \cup (28..32)
Strip(b) ==
  LET ink == {i \in DOMAIN b : b[i] \notin Spaces}
  IN IF ink = {} THEN Absent ELSE SubSeq(b, First(ink), CHOOSE i \in ink : \A j \in ink : j <= i)

\* parse_doc_number
DocNumber(b) == Strip(TlvValue(b, <<95, 1>>))

\* parse_mrz: three lines of 30 or two of 44, together, or what there is.
Mrz(b) ==
  LET text == IF Tagged(b, <<127, 1>>) THEN TlvValue(b, <<127, 1>>) ELSE b
  IN IF Len(text) >= 90 THEN UpTo(90, text)
     ELSE IF Len(text) >= 88 THEN UpTo(88, text)
     ELSE IF Strip(text) = Absent THEN Absent ELSE text

\* parse_photo: the value if it is a JPEG, or from its first marker to its last.
Jpeg == <<255, 216, 255>>
EndOfJpeg == <<255, 217>>
Photo(b) ==
  LET v == TlvValue(b, <<63, 1>>)
      starts == Finds(b, Jpeg, 1)
      ends == Finds(b, EndOfJpeg, First(starts))
  IN IF UpTo(3, v) = Jpeg THEN v
     ELSE IF starts = {} THEN Absent
     ELSE SubSeq(b, First(starts), IF ends = {} THEN Len(b) ELSE First(ends) + 1)

\* parse_bio: fields 1F tag length value until something else; of a field given twice, the last.
Bio(b) ==
  LET fields[i \in 1..(Len(b) + 1)] ==
        IF i + 2 > Len(b) THEN <<>>
        ELSE LET next == i + 3 + b[i + 2] IN
          IF b[i] # 31 \/ next - 1 > Len(b) THEN <<>>
          ELSE LET rest == fields[next] IN
            IF b[i + 2] = 0 \/ \E n \in DOMAIN rest : rest[n][1] = b[i + 1] THEN rest
            ELSE << <<b[i + 1], SubSeq(b, i + 3, next - 1)>> >> \o rest
  IN fields[1]

\* read_signing_certificate: what follows the outer SEQUENCE is cut off (_der_total_length), and
\* one that is not all there does not load.
Certificate(b) ==
  LET d == BerLength(b, 2)
  IN IF b # <<>> /\ Head(b) = 48 /\ Fits(b, d) THEN UpTo(d.start + d.length - 1, b) ELSE Absent

Parsed(f, b) == CASE f = "bio" -> Bio(b) [] f = "doc" -> DocNumber(b) [] f = "mrz" -> Mrz(b)
                  [] f = "photo" -> Photo(b) [] f = "cert" -> Certificate(b)
=============================================================================
