---------------------------- MODULE MCCardFiles ----------------------------
(* CardFiles with cards whose files are padded, wrapped differently, missing, *)
(* blank or too long, and one of another applet beside them. *)
EXTENDS CardFiles

Held(bytes, value) == [bytes |-> bytes, value |-> value]
Missing == Held(Absent, Absent)
Padding == <<255>>

SomeBio == Held(<<31, 1, 1, 65, 31, 2, 0, 31, 3, 1, 66>> \o Padding, << <<1, <<65>>>>, <<3, <<66>>>> >>)
SomeDoc == Held(<<95, 1, 3, 49, 50, 32>> \o Padding, <<49, 50>>)
SomeMrz == Held(<<127, 1, 129, 1, 60>>, <<60>>)
SomePhoto == Jpeg \o <<7>> \o EndOfJpeg
LongPhoto == SomePhoto \o [i \in 1..10 |-> 0]
LongCert == <<48, 14>> \o [i \in 1..14 |-> i]
Foreign == Held(<<95, 1, 1, 57>>, <<57>>)

Cedula == [bio |-> SomeBio, doc |-> SomeDoc, mrz |-> SomeMrz,
           photo |-> Held(<<63, 1, 6>> \o SomePhoto \o Padding, SomePhoto),
           cert |-> Held(<<48, 2, 5, 0>> \o Padding, <<48, 2, 5, 0>>),
           foreign |-> Foreign]

MCCards ==
  { Cedula,
    \* nothing optional; a photo in no wrapper; no padding after the certificate
    [Cedula EXCEPT !["doc"] = Missing, !["mrz"] = Missing,
                   !["photo"] = Held(<<0>> \o SomePhoto \o Padding, SomePhoto),
                   !["cert"] = Held(<<48, 129, 1, 0>>, <<48, 129, 1, 0>>)],
    \* a blank number, an MRZ in no wrapper, files past the last offset
    [Cedula EXCEPT !["doc"] = Held(<<95, 1, 1, 32>>, Absent),
                   !["mrz"] = Held(<<60, 60>>, <<60, 60>>),
                   !["photo"] = Held(<<63, 1, 16>> \o LongPhoto, LongPhoto),
                   !["cert"] = Held(LongCert, LongCert)] }

\* Only the first of these answers a SELECT in every shape.
MCInit == Init /\ (card = Cedula \/ shape \in {"plain", "nested"})
MCSpec == MCInit /\ [][Next]_vars /\ WF_vars(Read)
=============================================================================
