---------------------------- MODULE MCWriterLock ----------------------------
(* The instances of WriterLock that TLC explores: the lock's own behaviours, *)
(* beside a transaction that stands still.                                   *)
EXTENDS ProjectMemory, TLC

LockInit == Writer!Init /\ Init /\ memory = Absent
LockNext == Writer!Next /\ UNCHANGED vars
LockSpec == LockInit /\ [][LockNext]_<<Writer!vars, vars>> /\ Writer!Fairness
=============================================================================
