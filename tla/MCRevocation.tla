---------------------------- MODULE MCRevocation ----------------------------
(* Revocation with interchangeable fetches. *)
EXTENDS Revocation, TLC

Interchangeable == Permutations(Fetches)
=============================================================================
