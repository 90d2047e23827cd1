---------------------------- MODULE ProjectMemory ----------------------------
(***************************************************************************)
(* The two levels of the project memory.  The transaction takes a writer   *)
(* lock as AbstractLock states it; the protocol on the file system that    *)
(* implements AbstractLock stands beside it here, with a state of its own  *)
(* and for one lock, so that the same processes are spoken of.             *)
(***************************************************************************)
EXTENDS MemoryTransaction

CONSTANTS
  Upstream,       \* WriterLock: processes with a plain-file lock
  BirthIdentity, InodeReuse, NoEntry

VARIABLES
  running, entry, marked, at, calls, looked, expected, outcome, upHolding

Writer == INSTANCE WriterLock WITH alive <- running, pc <- at, seen <- looked

\* What WriterLock assumes: a directory is told from a plain file and from no entry.
ASSUME WriterAssumption ==
  /\ BirthIdentity \in BOOLEAN /\ InodeReuse \in BOOLEAN
  /\ NoEntry \notin Upstream
  /\ (Upstream \cup {NoEntry}) \cap (Actor \X (0..MaxCalls)) = {}
  /\ Actor \cap Upstream = {}

\* WriterLock: two running processes never hold the lock at once.
MutualExclusion == Writer!MutualExclusion

\* WriterLock: the protocol implements the abstract generation mutex.
ImplementsLock == Writer!ImplementsLock

\* WriterLock: a waiting caller is served, unless a dead process or a plain file holds the lock.
WaiterServed == Writer!WaiterServed
=============================================================================
