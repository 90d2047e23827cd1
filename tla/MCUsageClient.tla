--------------------------- MODULE MCUsageClient ---------------------------
(* The instances of UsageClient that TLC explores. *)
EXTENDS UsageClient, TLC

Interchangeable == Permutations(Caller) \cup Permutations(Provider)
=============================================================================
