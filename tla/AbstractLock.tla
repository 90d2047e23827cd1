---------------------------- MODULE AbstractLock ----------------------------
(***************************************************************************)
(* What the writer lock of one project-memory file promises its callers:   *)
(* a mutex whose grants are generations.  A generation is granted when     *)
(* nobody holds the lock, it is given back by its own process once that    *)
(* process has left the protected operation, and it is taken away from a   *)
(* process only after that process has died.                               *)
(***************************************************************************)
CONSTANTS
  Generation,     \* every acquisition that can ever be granted
  Process,        \* the processes that acquire
  OwnerOf(_),     \* the process a generation belongs to
  Nobody          \* the holder of a free lock

VARIABLES
  alive,          \* processes that are running
  holder,         \* the generation that holds the lock, or Nobody
  inside          \* generations running their protected operation

absVars == <<alive, holder, inside>>

AbsInit ==
  /\ alive = Process
  /\ holder = Nobody
  /\ inside = {}

Grant(g) ==
  /\ holder = Nobody
  /\ OwnerOf(g) \in alive
  /\ holder' = g
  /\ inside' = inside \cup {g}
  /\ UNCHANGED alive

Leave(g) ==
  /\ g \in inside
  /\ inside' = inside \ {g}
  /\ UNCHANGED <<alive, holder>>

\* The holder gave the lock back, or its process is gone and someone reclaimed it.
Free ==
  /\ holder # Nobody
  /\ holder \notin inside
  /\ holder' = Nobody
  /\ UNCHANGED <<alive, inside>>

Die(p) ==
  /\ p \in alive
  /\ alive' = alive \ {p}
  /\ inside' = {g \in inside : OwnerOf(g) # p}
  /\ UNCHANGED holder

AbsNext ==
  \/ \E g \in Generation : Grant(g) \/ Leave(g)
  \/ Free
  \/ \E p \in Process : Die(p)

AbsSpec == AbsInit /\ [][AbsNext]_absVars
=============================================================================
