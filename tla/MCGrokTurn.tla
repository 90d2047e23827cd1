----------------------------- MODULE MCGrokTurn -----------------------------
(* The instances of GrokTurn that TLC explores. *)
EXTENDS GrokTurn, TLC

Interchangeable == Permutations(Call)
=============================================================================
