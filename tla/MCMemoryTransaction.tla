------------------------ MODULE MCMemoryTransaction ------------------------
(* The instances of MemoryTransaction that TLC explores. *)
EXTENDS MemoryTransaction, TLC, FiniteSets

CONSTANTS t1, t2

Requests(kinds, names) == [kind : kinds, topic : names]
Interchangeable == Permutations(Actor)

\* The requests of the runs.
Mutations == Requests(Kind, {t1})
WritesAndReads == Requests({"writeTopic", "read"}, {t1})
Writes == Requests({"writeTopic"}, {t1})
=============================================================================
