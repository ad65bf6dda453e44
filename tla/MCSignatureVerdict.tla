------------------------ MODULE MCSignatureVerdict ------------------------
(* SignatureVerdict with interchangeable roots. *)
EXTENDS SignatureVerdict, TLC

Interchangeable == Permutations(Roots)
=============================================================================
