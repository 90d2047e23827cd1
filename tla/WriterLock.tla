----------------------------- MODULE WriterLock -----------------------------
(***************************************************************************)
(* The writer lock of packages/project-memory/src/filesystem.ts for one    *)
(* target file: the protocol on the directory entry <target>.lock.         *)
(*                                                                         *)
(* A caller prepares a private directory holding one owner marker and      *)
(* rename()s it onto the entry.  Release and dead-owner cleanup share      *)
(* removeWriterLockIfOwnedBy: open the directory the entry resolves to,    *)
(* compare the marker with the expected owner, unlink the marker through   *)
(* the opened directory, and rmdir() the entry.  Every file-system call    *)
(* that reads or writes something another process can change is one step. *)
(*                                                                         *)
(* A directory is identified by the acquisition that published it: a call  *)
(* of withWriterLock draws one random token and publishes at most once.    *)
(***************************************************************************)
EXTENDS Naturals

CONSTANTS
  Actor,          \* processes running this package, one lock caller each
  Upstream,       \* processes locking with dsh-atomic-write's plain file
  MaxCalls,       \* bound: withWriterLock calls per actor
  BirthIdentity,  \* the platform gives lock markers a process-birth identity
  InodeReuse,     \* a freed inode number may be given to the next directory
  NoEntry         \* nothing at <target>.lock

Token == Actor \X (1..MaxCalls)
Owner(t) == t[1]

VARIABLES
  alive,      \* processes that are running
  entry,      \* what <target>.lock resolves to: a directory, a plain file, nothing
  marked,     \* directories that still contain their owner marker
  pc,         \* where each actor is
  calls,      \* withWriterLock calls each actor has made
  seen,       \* the directory an actor has looked up or opened
  expected,   \* the owner an actor means to remove
  outcome,    \* how the actor's last finished operation ended
  upHolding   \* upstream processes inside their protected operation

vars == <<alive, entry, marked, pc, calls, seen, expected, outcome, upHolding>>

ReadPCs == {"readFile", "readLstat", "readOpen", "readList", "readMarker", "readAlive"}
RemovePCs == {"rmStat", "rmLstat", "rmOpen", "rmCompare", "rmUnlink",
              "rmRestat", "rmDir", "rmFileCheck", "rmFile"}
Entry == Token \cup Upstream \cup {NoEntry}
Outcome == {"none", "done", "timeout", "error"}

TypeOK ==
  /\ alive \subseteq Actor \cup Upstream
  /\ entry \in Entry
  /\ marked \subseteq Token
  /\ pc \in [Actor -> {"idle", "acquire", "critical"} \cup ReadPCs \cup RemovePCs]
  /\ calls \in [Actor -> 0..MaxCalls]
  /\ seen \in [Actor -> Token \cup {NoEntry}]
  /\ expected \in [Actor -> Entry]
  /\ outcome \in [Actor -> Outcome]
  /\ upHolding \subseteq Upstream

Init ==
  /\ alive = Actor \cup Upstream
  /\ entry = NoEntry
  /\ marked = {}
  /\ pc = [a \in Actor |-> "idle"]
  /\ calls = [a \in Actor |-> 0]
  /\ seen = [a \in Actor |-> NoEntry]
  /\ expected = [a \in Actor |-> NoEntry]
  /\ outcome = [a \in Actor |-> "none"]
  /\ upHolding = {}

MyToken(a) == <<a, calls[a]>>

\* Mutant: rename() onto a populated lock directory succeeds.
PublishableOverAnyDirectory == entry = NoEntry \/ entry \in Token

\* Mutant: the directory is published with link-like semantics, never onto an empty one.
PublishableOnlyIfAbsent == entry = NoEntry

\* rename() replaces an absent entry or an empty directory, and nothing else.
Publishable == entry = NoEntry \/ entry \in Token \ marked

At(a, label) == a \in alive /\ pc[a] = label
Goto(a, label) == pc' = [pc EXCEPT ![a] = label]

Finish(a, result) ==
  /\ Goto(a, "idle")
  /\ outcome' = [outcome EXCEPT ![a] = result]
  /\ seen' = [seen EXCEPT ![a] = NoEntry]
  /\ expected' = [expected EXCEPT ![a] = NoEntry]

-----------------------------------------------------------------------------
(* Acquisition *)

\* A new call draws its token and prepares the private directory.
CallLock(a) ==
  /\ At(a, "idle")
  /\ calls[a] < MaxCalls
  /\ calls' = [calls EXCEPT ![a] = @ + 1]
  /\ Goto(a, "acquire")
  /\ UNCHANGED <<alive, entry, marked, seen, expected, outcome, upHolding>>

Publish(a) ==
  /\ At(a, "acquire")
  /\ Publishable
  /\ entry' = MyToken(a)
  /\ marked' = marked \cup {MyToken(a)}
  /\ Goto(a, "critical")
  /\ UNCHANGED <<alive, calls, seen, expected, outcome, upHolding>>

\* Contention past the deadline, or a cancelled wait: the private directory is removed.
GiveUp(a) ==
  /\ At(a, "acquire")
  /\ Finish(a, "timeout")
  /\ UNCHANGED <<alive, entry, marked, calls, upHolding>>

\* The protected operation returned or threw; the finally block releases.
StartRelease(a) ==
  /\ At(a, "critical")
  /\ Goto(a, "rmStat")
  /\ expected' = [expected EXCEPT ![a] = MyToken(a)]
  /\ UNCHANGED <<alive, entry, marked, calls, seen, outcome, upHolding>>

-----------------------------------------------------------------------------
(* readWriterLockOwner followed by the liveness test of removeDeadLockIfPresent *)

\* The first lstat chooses the format.
StartReclaim(a) ==
  /\ At(a, "idle")
  /\ \/ /\ entry = NoEntry
        /\ Finish(a, "done")
     \/ /\ entry # NoEntry
        /\ Goto(a, IF entry \in Token THEN "readLstat" ELSE "readFile")
        /\ UNCHANGED <<outcome, seen, expected>>
  /\ UNCHANGED <<alive, entry, marked, calls, upHolding>>

\* A plain file holds the pid; meanwhile it may be gone, or be a directory by now.
ReadFile(a) ==
  /\ At(a, "readFile")
  /\ \/ /\ entry \in Upstream
        /\ expected' = [expected EXCEPT ![a] = entry]
        /\ Goto(a, "readAlive")
        /\ UNCHANGED <<outcome, seen>>
     \/ /\ entry = NoEntry
        /\ Finish(a, "done")
     \/ /\ entry \in Token
        /\ Finish(a, "error")
  /\ UNCHANGED <<alive, entry, marked, calls, upHolding>>

\* openChildAnchor's lstat; shared by the reader and the remover.
LstatDirectory(a, from, to) ==
  /\ At(a, from)
  /\ \/ /\ entry = NoEntry
        /\ Finish(a, "done")
     \/ /\ entry \in Upstream
        /\ Finish(a, "error")
     \/ /\ entry \in Token
        /\ seen' = [seen EXCEPT ![a] = entry]
        /\ Goto(a, to)
        /\ UNCHANGED <<outcome, expected>>
  /\ UNCHANGED <<alive, entry, marked, calls, upHolding>>

\* openChildAnchor's open, fstat and second lstat: the same directory, or an error.
OpenDirectory(a, from, to) ==
  /\ At(a, from)
  /\ \/ /\ entry \in Token
        /\ entry = seen[a] \/ InodeReuse
        /\ seen' = [seen EXCEPT ![a] = entry]
        /\ Goto(a, to)
        /\ UNCHANGED <<outcome, expected>>
     \/ /\ entry # seen[a]
        /\ Finish(a, "error")
  /\ UNCHANGED <<alive, entry, marked, calls, upHolding>>

ReadLstat(a) == LstatDirectory(a, "readLstat", "readOpen")
ReadOpen(a) == OpenDirectory(a, "readOpen", "readList")

\* readdir: an empty directory is a lock caught mid-release and has no owner.
ReadList(a) ==
  /\ At(a, "readList")
  /\ IF seen[a] \in marked
     THEN Goto(a, "readMarker") /\ UNCHANGED <<outcome, seen, expected>>
     ELSE Finish(a, "done")
  /\ UNCHANGED <<alive, entry, marked, calls, upHolding>>

\* The marker readdir listed may be gone when it is read.
ReadMarker(a) ==
  /\ At(a, "readMarker")
  /\ IF seen[a] \in marked
     THEN /\ expected' = [expected EXCEPT ![a] = seen[a]]
          /\ Goto(a, "readAlive")
          /\ UNCHANGED <<outcome, seen>>
     ELSE Finish(a, "error")
  /\ UNCHANGED <<alive, entry, marked, calls, upHolding>>

OwnerProcess(e) == IF e \in Token THEN Owner(e) ELSE e

\* Without a birth identity, and plain files never carry one, a dead owner's
\* recycled pid counts as alive.
CheckAlive(a) ==
  /\ At(a, "readAlive")
  /\ \/ /\ \/ OwnerProcess(expected[a]) \in alive
           \/ ~BirthIdentity
           \/ expected[a] \in Upstream
        /\ Finish(a, "done")
     \/ /\ OwnerProcess(expected[a]) \notin alive
        /\ Goto(a, "rmStat")
        /\ seen' = [seen EXCEPT ![a] = NoEntry]
        /\ UNCHANGED <<outcome, expected>>
  /\ UNCHANGED <<alive, entry, marked, calls, upHolding>>

-----------------------------------------------------------------------------
(* removeWriterLockIfOwnedBy *)

RemoveStat(a) ==
  /\ At(a, "rmStat")
  /\ \/ /\ expected[a] \in Token /\ entry \in Token
        /\ Goto(a, "rmLstat")
        /\ UNCHANGED <<outcome, seen, expected>>
     \/ /\ expected[a] \in Upstream /\ entry \in Upstream
        /\ Goto(a, "rmFileCheck")
        /\ UNCHANGED <<outcome, seen, expected>>
     \/ /\ ~(expected[a] \in Token /\ entry \in Token)
        /\ ~(expected[a] \in Upstream /\ entry \in Upstream)
        /\ Finish(a, "done")
  /\ UNCHANGED <<alive, entry, marked, calls, upHolding>>

RemoveLstat(a) == LstatDirectory(a, "rmLstat", "rmOpen")
RemoveOpen(a) == OpenDirectory(a, "rmOpen", "rmCompare")

\* The generation comparison: exactly one marker, and its token the expected one.
RemoveCompare(a) ==
  /\ At(a, "rmCompare")
  /\ IF seen[a] \in marked /\ seen[a] = expected[a]
     THEN Goto(a, "rmUnlink") /\ UNCHANGED <<outcome, seen, expected>>
     ELSE Finish(a, "done")
  /\ UNCHANGED <<alive, entry, marked, calls, upHolding>>

\* The marker is unlinked inside the opened directory, whatever the entry is now.
RemoveUnlink(a) ==
  /\ At(a, "rmUnlink")
  /\ IF seen[a] \in marked
     THEN /\ marked' = marked \ {seen[a]}
          /\ Goto(a, "rmRestat")
          /\ UNCHANGED <<outcome, seen, expected>>
     ELSE Finish(a, "done") /\ UNCHANGED marked
  /\ UNCHANGED <<alive, entry, calls, upHolding>>

RemoveRestat(a) ==
  /\ At(a, "rmRestat")
  /\ \/ /\ entry = seen[a] \/ (entry \in Token /\ InodeReuse)
        /\ Goto(a, "rmDir")
        /\ UNCHANGED <<outcome, seen, expected>>
     \/ /\ entry # seen[a]
        /\ Finish(a, "done")
  /\ UNCHANGED <<alive, entry, marked, calls, upHolding>>

\* Mutant: the directory is removed recursively, with whatever marker it holds.
RemoveTree(a) ==
  /\ At(a, "rmDir")
  /\ entry' = IF entry \in Token THEN NoEntry ELSE entry
  /\ Finish(a, "done")
  /\ UNCHANGED <<alive, marked, calls, upHolding>>

\* rmdir() removes the entry only while it is an empty directory.
RemoveDir(a) ==
  /\ At(a, "rmDir")
  /\ entry' = IF entry \in Token \ marked THEN NoEntry ELSE entry
  /\ Finish(a, "done")
  /\ UNCHANGED <<alive, marked, calls, upHolding>>

\* Legacy format: the plain file is read again and compared by pid ...
RemoveFileCheck(a) ==
  /\ At(a, "rmFileCheck")
  /\ IF entry = expected[a]
     THEN Goto(a, "rmFile") /\ UNCHANGED <<outcome, seen, expected>>
     ELSE Finish(a, "done")
  /\ UNCHANGED <<alive, entry, marked, calls, upHolding>>

\* ... and then the pathname is unlinked, if it is a plain file at all.
RemoveFile(a) ==
  /\ At(a, "rmFile")
  /\ entry' = IF entry \in Upstream THEN NoEntry ELSE entry
  /\ Finish(a, "done")
  /\ UNCHANGED <<alive, marked, calls, upHolding>>

-----------------------------------------------------------------------------
(* The environment *)

\* dsh-atomic-write creates <target>.lock exclusively, as a plain file.
UpstreamAcquire(u) ==
  /\ u \in alive \ upHolding
  /\ entry = NoEntry
  /\ entry' = u
  /\ upHolding' = upHolding \cup {u}
  /\ UNCHANGED <<alive, marked, pc, calls, seen, expected, outcome>>

UpstreamRelease(u) ==
  /\ u \in alive \cap upHolding
  /\ entry' = IF entry = u THEN NoEntry ELSE entry
  /\ upHolding' = upHolding \ {u}
  /\ UNCHANGED <<alive, marked, pc, calls, seen, expected, outcome>>

\* A killed process leaves its entry behind and never takes another step.
Crash(p) ==
  /\ p \in alive
  /\ alive' = alive \ {p}
  /\ UNCHANGED <<entry, marked, pc, calls, seen, expected, outcome, upHolding>>

-----------------------------------------------------------------------------
Acquire(a) == CallLock(a) \/ Publish(a) \/ GiveUp(a)
Read(a) ==
  \/ ReadFile(a) \/ ReadLstat(a) \/ ReadOpen(a) \/ ReadList(a) \/ ReadMarker(a)
  \/ CheckAlive(a)
Remove(a) ==
  \/ RemoveStat(a) \/ RemoveLstat(a) \/ RemoveOpen(a) \/ RemoveCompare(a)
  \/ RemoveUnlink(a) \/ RemoveRestat(a) \/ RemoveDir(a)
  \/ RemoveFileCheck(a) \/ RemoveFile(a)

Next ==
  \/ \E a \in Actor : Acquire(a) \/ StartRelease(a) \/ StartReclaim(a) \/ Read(a) \/ Remove(a)
  \/ \E u \in Upstream : UpstreamAcquire(u) \/ UpstreamRelease(u)
  \/ \E p \in Actor \cup Upstream : Crash(p)

Spec == Init /\ [][Next]_vars

(***************************************************************************)
(* Fairness.  The Node event loop resumes every awaited file-system call,  *)
(* and the retry loop of a waiting caller keeps calling rename().  Nothing *)
(* makes a caller start an operation, give up, or crash.                   *)
(***************************************************************************)
Fairness ==
  \A a \in Actor : WF_vars(Publish(a) \/ StartRelease(a) \/ Read(a) \/ Remove(a))

FairSpec == Spec /\ Fairness

-----------------------------------------------------------------------------
(* Properties *)

\* The actor owns the lock: from publication until it unlinks its own marker.
Holding(a) ==
  /\ a \in alive
  /\ \/ pc[a] = "critical"
     \/ /\ pc[a] \in {"rmStat", "rmLstat", "rmOpen", "rmCompare", "rmUnlink"}
        /\ expected[a] = MyToken(a)

\* A held lock is on disk: the entry is the holder's own directory with its
\* marker, whatever readers and reclaimers of other processes are doing.
LockIntact ==
  \A a \in Actor : Holding(a) => entry = MyToken(a) /\ entry \in marked

\* Two running processes never hold the lock at once.
MutualExclusion ==
  \A a, b \in Actor : Holding(a) /\ Holding(b) => a = b

\* A running holder gives the lock up only by unlinking its own marker: its
\* finally block never misses its lock, and nobody else's cleanup takes it.
ReleaseOnlyByHolder ==
  [][\A a \in Actor :
       Holding(a) /\ ~Holding(a)' => pc'[a] = "rmRestat" \/ a \notin alive']_vars

\* A dead process's lock, or a plain file that nothing promises to remove.
HeldByOthers == entry \in Upstream \/ (entry \in marked /\ Owner(entry) \notin alive)

\* A waiting caller is served, whatever crashed cleanups left behind, unless a
\* dead process or a plain-file locker holds the lock: an empty directory never
\* blocks.
WaiterServed ==
  \A a \in Actor : At(a, "acquire") ~> (~At(a, "acquire") \/ HeldByOthers)

\* What the protocol implements: the marker decides who holds the lock.
Lock == INSTANCE AbstractLock WITH
  Generation <- Token,
  Process <- Actor,
  OwnerOf <- Owner,
  Nobody <- NoEntry,
  alive <- alive \cap Actor,
  holder <- IF entry \in marked THEN entry ELSE NoEntry,
  inside <- {MyToken(a) : a \in {b \in Actor : At(b, "critical")}}

ImplementsLock == Lock!AbsSpec
=============================================================================
