--------------------------- MODULE MCUsageService ---------------------------
(* The instances of UsageService that TLC explores. *)
EXTENDS UsageService, TLC

Interchangeable == Permutations(Caller) \cup Permutations(Provider)
=============================================================================
