---------------------------- MODULE MCBatchSign ----------------------------
(* BatchSign for TLC: a file of any type and a document; an output may land  *)
(* on either name.                                                          *)
EXTENDS BatchSign, TLC
CONSTANTS in1, in2, out1, out2

MCSource == <<in1, in2>>
Names == Permutations({out1, out2})
MCKind == <<"detached", "embedded">>
=============================================================================
