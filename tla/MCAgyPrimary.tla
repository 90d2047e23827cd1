---------------------------- MODULE MCAgyPrimary ----------------------------
(* The instances of AgyPrimary that TLC explores. *)
EXTENDS AgyPrimary, TLC

Interchangeable == Permutations(Call)
=============================================================================
