-------------------------- MODULE MemoryTransaction --------------------------
(***************************************************************************)
(* The compound topic/map transaction of packages/project-memory: the      *)
(* write-ahead journal, its recovery, and the operations around them       *)
(* (transaction.ts, topics.ts, bootstrap.ts).                              *)
(*                                                                         *)
(* Writer locks are the generation mutex that WriterLock implements: a     *)
(* dead holder's lock stays until recovery removes it.  Every read or      *)
(* write of a shared file is a step; reads under a lock that nobody else   *)
(* may write under are joined with the step that uses them.                *)
(***************************************************************************)
EXTENDS Naturals

CONSTANTS
  Actor,          \* processes, each running one operation at a time
  Topic,          \* named topics
  Existing,       \* topics present at the start
  Menu,           \* requests a caller may make: records of a kind and a topic
  MaxCalls,       \* bound: operations per process
  MaxCrashes,     \* bound: processes that die
  MaxFaults,      \* bound: I/O errors and cancellations of ordinary work
  MaxSettlementFaults, \* bound: I/O errors while restoring or clearing
  MaxObservations,     \* MAX_RECOVERY_OBSERVATIONS
  Old, Fresh, Absent,  \* initial content, template body, missing file
  Nil             \* no journal, no owner, no record

Compound == {"writeTopic", "editTopic"}
Bootstrap == {"writeMemory", "editMemory", "ensure"}
TopicOnly == {"writeTopicOnly", "editTopicOnly"}
Kind == Compound \cup Bootstrap \cup TopicOnly \cup {"mapEntry", "read"}

Op == [actor : Actor, call : 1..MaxCalls, kind : Kind, topic : Topic]
LockName == {"journal", "memory"} \cup Topic

ASSUME TopicAssumption == Existing \subseteq Topic /\ {"journal", "memory"} \cap Topic = {}
ASSUME MenuAssumption == Menu \subseteq [kind : Kind, topic : Topic]
ASSUME BoundsAssumption ==
  /\ MaxCalls \in Nat /\ MaxCrashes \in Nat
  /\ MaxFaults \in Nat /\ MaxSettlementFaults \in Nat
  /\ MaxObservations \in Nat \ {0}

VARIABLES
  alive,      \* processes that are running
  lock,       \* who holds each writer lock
  journal,    \* .dsh/local/project-memory-transaction.json
  topics,     \* <topic>.md: the operation that wrote it, Old or Absent
  memory,     \* MEMORY.md: body and Memory map, or Absent
  pc, op,     \* where each process is, and in which operation
  round,      \* recoveries the operation still has to run
  tries,      \* observations made by the current recovery
  seen,       \* the journal record the process relies on
  plan,       \* the MEMORY.md content it is about to write
  after,      \* what follows the settlement or unlocking it is in
  applied, acked, failed,           \* history: effects and reports
  crashes, faults, settlementFaults \* bounded environment

files == <<topics, memory>>
local == <<op, round, tries, seen, plan, after>>
history == <<applied, acked, failed>>
budget == <<crashes, faults, settlementFaults>>
vars == <<alive, lock, journal, files, pc, local, history, budget>>

\* A record whose transaction has not committed: what it replaces is still what is stored.
Pending == journal # Nil /\ journal.phase = "pending"

Store == INSTANCE AtomicMemory WITH
  topics <- IF Pending THEN [topics EXCEPT ![journal.topic] = journal.topicBefore] ELSE topics,
  memory <- IF Pending THEN journal.memoryBefore ELSE memory

Content == Op \cup {Old, Absent}
Memory == [body : Op \cup {Old, Fresh}, map : SUBSET Topic] \cup {Absent}
Record == [phase : {"pending", "committed"}, owner : Actor, id : Op, topic : Topic,
           topicBefore : Content, memoryBefore : Memory]

ASSUME SentinelAssumption == Nil \notin Actor \cup Op \cup Record

RecoverPCs == {"probe", "probeCheck", "ownerCheck", "waitLock", "waitRead", "dropJournal",
               "dropMemory", "dropTopic", "claimLock", "claimRead", "claimWrite",
               "claimMemory", "claimVerify", "settleLock"}
SettlePCs == {"restoreTopic", "restoreMemory", "clearRead", "clearRemove"}
CommitPCs == {"writeTopic", "commitMap", "markRead", "markWrite"}
BodyPCs == {"mapLock", "mapSettle", "mapUnlockTopic", "readMap", "mapWrite", "topicLock",
            "begin", "bootLock", "bootRead", "bootWrite", "onlyLock", "onlyWrite"}
PCs == {"idle", "unlock"} \cup RecoverPCs \cup SettlePCs \cup CommitPCs \cup BodyPCs

TypeOK ==
  /\ alive \subseteq Actor
  /\ lock \in [LockName -> Actor \cup {Nil}]
  /\ journal \in Record \cup {Nil}
  /\ topics \in [Topic -> Content]
  /\ memory \in Memory
  /\ pc \in [Actor -> PCs]
  /\ op \in [Actor -> Op \cup {Nil}]
  /\ round \in [Actor -> 0..2]
  /\ tries \in [Actor -> 0..(MaxObservations - 1)]
  /\ seen \in [Actor -> Record \cup {Nil}]
  /\ plan \in [Actor -> Memory]
  /\ after \in [Actor -> {"none", "wait", "claim", "map", "rollback", "commit",
                          "recovered", "retry", "ok", "failed"}]
  /\ applied \subseteq Op /\ acked \subseteq Op /\ failed \subseteq Op
  /\ crashes \in 0..MaxCrashes
  /\ faults \in 0..MaxFaults
  /\ settlementFaults \in 0..MaxSettlementFaults

Init ==
  /\ alive = Actor
  /\ lock = [l \in LockName |-> Nil]
  /\ journal = Nil
  /\ topics = [t \in Topic |-> IF t \in Existing THEN Old ELSE Absent]
  /\ memory \in {Absent, [body |-> Old, map |-> Existing]}
  /\ pc = [a \in Actor |-> "idle"]
  /\ op = [a \in Actor |-> Nil]
  /\ round = [a \in Actor |-> 0]
  /\ tries = [a \in Actor |-> 0]
  /\ seen = [a \in Actor |-> Nil]
  /\ plan = [a \in Actor |-> Absent]
  /\ after = [a \in Actor |-> "none"]
  /\ applied = {} /\ acked = {} /\ failed = {}
  /\ crashes = 0 /\ faults = 0 /\ settlementFaults = 0

-----------------------------------------------------------------------------
(* Control: where a process goes next *)

At(a, label) == a \in alive /\ pc[a] = label
Goto(a, label) == pc' = [pc EXCEPT ![a] = label]
Relies(a, record) == seen' = [seen EXCEPT ![a] = record]
Plans(a, content) == plan' = [plan EXCEPT ![a] = content]

\* Unwind the nested withWriterLock calls, then go on as `next` says.
Unwind(a, next) ==
  /\ Goto(a, "unlock")
  /\ after' = [after EXCEPT ![a] = next]
  /\ UNCHANGED <<op, round, tries, seen, plan>>

Finish(a, success) ==
  /\ Goto(a, "idle")
  /\ acked' = IF success THEN acked \cup {op[a]} ELSE acked
  /\ failed' = IF success THEN failed ELSE failed \cup {op[a]}
  /\ seen' = [seen EXCEPT ![a] = Nil]
  /\ plan' = [plan EXCEPT ![a] = Absent]
  /\ after' = [after EXCEPT ![a] = "none"]
  /\ round' = [round EXCEPT ![a] = 0]
  /\ tries' = [tries EXCEPT ![a] = 0]
  /\ UNCHANGED <<op, applied>>

\* Where the operation proper starts once recovery has returned.
BodyStart(o) ==
  CASE o.kind \in Compound \cup {"mapEntry"} -> "mapLock"
    [] o.kind \in Bootstrap -> "bootLock"
    [] o.kind \in TopicOnly -> "onlyLock"

\* recoverPendingProjectMemoryTransaction returned.  The compound operations run
\* it twice: on entry and again in withMemoryMapEntryTransaction.
Recovered(a) ==
  \/ /\ round[a] = 1 /\ op[a].kind = "read"
     /\ Finish(a, TRUE)
  \/ /\ \/ round[a] > 1
        \/ round[a] = 1 /\ op[a].kind # "read"
     /\ Goto(a, IF round[a] > 1 THEN "probe" ELSE BodyStart(op[a]))
     /\ round' = [round EXCEPT ![a] = @ - 1]
     /\ tries' = [tries EXCEPT ![a] = 0]
     /\ Relies(a, Nil)
     /\ after' = [after EXCEPT ![a] = "none"]
     /\ UNCHANGED <<op, plan, history>>

\* A stale observation: observe again, a bounded number of times.
Retry(a) ==
  \/ /\ tries[a] + 1 < MaxObservations
     /\ tries' = [tries EXCEPT ![a] = @ + 1]
     /\ Goto(a, "probe")
     /\ Relies(a, Nil)
     /\ after' = [after EXCEPT ![a] = "none"]
     /\ UNCHANGED <<op, round, plan, history>>
  \/ /\ tries[a] + 1 = MaxObservations
     /\ Recovered(a)

TakeLock(a, l, from, to) ==
  /\ At(a, from)
  /\ lock[l] = Nil
  /\ lock' = [lock EXCEPT ![l] = a]
  /\ Goto(a, to)
  /\ UNCHANGED <<alive, journal, files, local, history, budget>>

\* Mutant: a pending record is cleared like a committed one, nothing is restored.
SettleByClearing(a, record, reason) ==
  /\ Relies(a, record)
  /\ after' = [after EXCEPT ![a] = reason]
  /\ Goto(a, "clearRead")
  /\ UNCHANGED <<op, round, tries, plan>>

\* Settle a record: clear it if it committed, else restore it first.
Settle(a, record, reason) ==
  /\ Relies(a, record)
  /\ after' = [after EXCEPT ![a] = reason]
  /\ Goto(a, IF record.phase = "committed" THEN "clearRead" ELSE "settleLock")
  /\ UNCHANGED <<op, round, tries, plan>>

Call(a) ==
  /\ At(a, "idle")
  /\ (IF op[a] = Nil THEN 0 ELSE op[a].call) < MaxCalls
  /\ \E r \in Menu :
       /\ op' = [op EXCEPT ![a] =
                   [actor |-> a, call |-> IF @ = Nil THEN 1 ELSE @.call + 1,
                    kind |-> r.kind, topic |-> r.topic]]
       /\ round' = [round EXCEPT ![a] = IF r.kind \in Compound THEN 2 ELSE 1]
  /\ Goto(a, "probe")
  /\ UNCHANGED <<alive, lock, journal, files, tries, seen, plan, after, history, budget>>

\* The finally blocks release the innermost lock first.
Held(a) == {l \in LockName : lock[l] = a}
Innermost(locks) ==
  IF locks \cap Topic # {} THEN CHOOSE t \in locks \cap Topic : TRUE
  ELSE IF "memory" \in locks THEN "memory" ELSE "journal"

Unlock(a) ==
  /\ At(a, "unlock")
  /\ LET held == Held(a) IN
       /\ lock' = IF held = {} THEN lock ELSE [lock EXCEPT ![Innermost(held)] = Nil]
       /\ IF held \subseteq {Innermost(held)}
          THEN \/ after[a] = "recovered" /\ Recovered(a)
               \/ after[a] = "retry" /\ Retry(a)
               \/ after[a] \in {"ok", "failed"} /\ Finish(a, after[a] = "ok")
          ELSE UNCHANGED <<pc, local, history>>
  /\ UNCHANGED <<alive, journal, files, budget>>

-----------------------------------------------------------------------------
(* recoverPendingProjectMemoryTransaction *)

\* The unlocked probe opens the journal ...
Probe(a) ==
  /\ At(a, "probe")
  /\ \/ /\ journal = Nil
        /\ Recovered(a)
     \/ /\ journal # Nil
        /\ Relies(a, journal)
        /\ Goto(a, "probeCheck")
        /\ UNCHANGED <<op, round, tries, plan, after, history>>
  /\ UNCHANGED <<alive, lock, journal, files, budget>>

\* ... and looks again: gone is absence, another file is a stale observation.
ProbeCheck(a) ==
  /\ At(a, "probeCheck")
  /\ \/ /\ journal = Nil
        /\ Recovered(a)
     \/ /\ journal = seen[a]
        /\ Goto(a, "ownerCheck")
        /\ UNCHANGED <<local, history>>
     \/ /\ journal # Nil /\ journal # seen[a]
        /\ Retry(a)
  /\ UNCHANGED <<alive, lock, journal, files, budget>>

OwnerCheck(a) ==
  /\ At(a, "ownerCheck")
  /\ Goto(a, IF seen[a].owner \in alive THEN "waitLock" ELSE "dropJournal")
  /\ UNCHANGED <<alive, lock, journal, files, local, history, budget>>

\* A live owner: cross its MEMORY.md lock, then settle what it left behind.
WaitLock(a) == TakeLock(a, "memory", "waitLock", "waitRead")

\* Mutant: a pending journal behind the barrier is taken for a running transaction.
WaitReadTrusting(a) ==
  /\ At(a, "waitRead")
  /\ IF journal = Nil \/ journal.phase = "pending"
     THEN Unwind(a, "recovered") ELSE Settle(a, journal, "wait")
  /\ UNCHANGED <<alive, lock, journal, files, history, budget>>

WaitRead(a) ==
  /\ At(a, "waitRead")
  /\ IF journal = Nil THEN Unwind(a, "recovered") ELSE Settle(a, journal, "wait")
  /\ UNCHANGED <<alive, lock, journal, files, history, budget>>

\* A dead owner: reclaim the locks of dead processes on its path.
DropDeadLock(a, l, from, to) ==
  /\ At(a, from)
  /\ lock' = IF lock[l] \in alive THEN lock ELSE [lock EXCEPT ![l] = Nil]
  /\ Goto(a, to)
  /\ UNCHANGED <<alive, journal, files, local, history, budget>>

DropJournal(a) == DropDeadLock(a, "journal", "dropJournal", "dropMemory")
DropMemory(a) == DropDeadLock(a, "memory", "dropMemory", "dropTopic")
DropTopic(a) == seen[a] # Nil /\ DropDeadLock(a, seen[a].topic, "dropTopic", "claimLock")

ClaimLock(a) == TakeLock(a, "journal", "claimLock", "claimRead")

ClaimRead(a) ==
  /\ At(a, "claimRead")
  /\ \/ /\ journal = seen[a]
        /\ journal.owner \notin alive
        /\ Relies(a, [journal EXCEPT !.owner = a])
        /\ Goto(a, "claimWrite")
        /\ UNCHANGED <<op, round, tries, plan, after>>
     \/ /\ journal # seen[a]
        /\ Unwind(a, "retry")
  /\ UNCHANGED <<alive, lock, journal, files, history, budget>>

\* The claim replaces whatever is at the journal's pathname by now.
ClaimWrite(a) ==
  /\ At(a, "claimWrite")
  /\ journal' = seen[a]
  /\ Goto(a, "claimMemory")
  /\ UNCHANGED <<alive, lock, files, local, history, budget>>

ClaimMemory(a) == TakeLock(a, "memory", "claimMemory", "claimVerify")

\* The claim must still be there, or recovery fails closed.
ClaimVerify(a) ==
  /\ At(a, "claimVerify")
  /\ IF journal = seen[a] THEN Settle(a, journal, "claim") ELSE Unwind(a, "failed")
  /\ UNCHANGED <<alive, lock, journal, files, history, budget>>

-----------------------------------------------------------------------------
(* Settlement: restore both participants, then clear that very record *)

\* Mutant: the participants are restored without the topic lock.
SettleUnlocked(a) ==
  /\ At(a, "settleLock")
  /\ Goto(a, "restoreTopic")
  /\ UNCHANGED <<alive, lock, journal, files, local, history, budget>>

SettleLock(a) ==
  seen[a] # Nil /\ TakeLock(a, seen[a].topic, "settleLock", "restoreTopic")

RestoreTopic(a) ==
  /\ At(a, "restoreTopic")
  /\ topics' = [topics EXCEPT ![seen[a].topic] = seen[a].topicBefore]
  /\ Goto(a, "restoreMemory")
  /\ UNCHANGED <<alive, lock, journal, memory, local, history, budget>>

RestoreMemory(a) ==
  /\ At(a, "restoreMemory")
  /\ memory' = seen[a].memoryBefore
  /\ Goto(a, "clearRead")
  /\ UNCHANGED <<alive, lock, journal, topics, local, history, budget>>

Settled(a) ==
  \/ after[a] \in {"wait", "claim"} /\ Unwind(a, "recovered")
  \/ after[a] = "rollback" /\ Unwind(a, "failed")
  \/ after[a] = "commit" /\ Unwind(a, "ok")
  \/ /\ after[a] = "map"
     /\ Goto(a, "mapUnlockTopic")
     /\ UNCHANGED local

\* clearPendingProjectMemoryTransaction compares, then removes by pathname.
ClearRead(a) ==
  /\ At(a, "clearRead")
  /\ IF journal = seen[a] THEN Goto(a, "clearRemove") /\ UNCHANGED local ELSE Settled(a)
  /\ UNCHANGED <<alive, lock, journal, files, history, budget>>

ClearRemove(a) ==
  /\ At(a, "clearRemove")
  /\ journal' = Nil
  /\ Settled(a)
  /\ UNCHANGED <<alive, lock, files, history, budget>>

-----------------------------------------------------------------------------
(* withMemoryMapEntryTransaction and the compound operations inside it *)

MapLock(a) == TakeLock(a, "memory", "mapLock", "mapSettle")

\* settleCommittedProjectMemoryTransactionUnderMapLock
MapSettle(a) ==
  /\ At(a, "mapSettle")
  /\ IF journal = Nil
     THEN Goto(a, "readMap") /\ UNCHANGED local
     ELSE Settle(a, journal, "map")
  /\ UNCHANGED <<alive, lock, journal, files, history, budget>>

\* Mutant: settling under the map lock keeps the topic lock.
MapKeepTopic(a) ==
  /\ At(a, "mapUnlockTopic")
  /\ Goto(a, "readMap")
  /\ Relies(a, Nil)
  /\ after' = [after EXCEPT ![a] = "none"]
  /\ UNCHANGED <<alive, lock, journal, files, op, round, tries, plan, history, budget>>

MapUnlockTopic(a) ==
  /\ At(a, "mapUnlockTopic")
  /\ lock' = [l \in LockName |-> IF l \in Topic /\ lock[l] = a THEN Nil ELSE lock[l]]
  /\ Goto(a, "readMap")
  /\ Relies(a, Nil)
  /\ after' = [after EXCEPT ![a] = "none"]
  /\ UNCHANGED <<alive, journal, files, op, round, tries, plan, history, budget>>

\* An ambiguous map section, or a map that would grow too large, is refused.
ReadMap(a) ==
  /\ At(a, "readMap")
  /\ \/ Unwind(a, "failed")
     \/ /\ Plans(a, Store!WithEntry(memory, op[a].topic))
        /\ Goto(a, IF op[a].kind = "mapEntry" THEN "mapWrite" ELSE "topicLock")
        /\ UNCHANGED <<op, round, tries, seen, after>>
  /\ UNCHANGED <<alive, lock, journal, files, history, budget>>

\* The operation's effect is durable and will be reported.
Applied(a) == applied' = applied \cup {op[a]} /\ UNCHANGED <<acked, failed>>

\* ensureMemoryMapEntry: a single participant, no journal.
MapWrite(a) ==
  /\ At(a, "mapWrite")
  /\ memory' = plan[a]
  /\ Applied(a)
  /\ Unwind(a, "ok")
  /\ UNCHANGED <<alive, lock, journal, topics, budget>>

TopicLock(a) ==
  op[a] # Nil /\ TakeLock(a, op[a].topic, "topicLock", "begin")

\* Snapshot both participants and create the journal exclusively.
Begin(a) ==
  /\ At(a, "begin")
  /\ \/ /\ journal # Nil \/ (op[a].kind = "editTopic" /\ topics[op[a].topic] = Absent)
        /\ Unwind(a, "failed")
        /\ UNCHANGED journal
     \/ /\ journal = Nil
        /\ op[a].kind = "editTopic" => topics[op[a].topic] # Absent
        /\ journal' = [phase |-> "pending", owner |-> a, id |-> op[a], topic |-> op[a].topic,
                       topicBefore |-> topics[op[a].topic], memoryBefore |-> memory]
        /\ Relies(a, journal')
        /\ Goto(a, "writeTopic")
        /\ UNCHANGED <<op, round, tries, plan, after>>
  /\ UNCHANGED <<alive, lock, files, history, budget>>

Rollback(a) ==
  /\ Goto(a, "restoreTopic")
  /\ after' = [after EXCEPT ![a] = "rollback"]
  /\ UNCHANGED <<op, round, tries, seen, plan>>

\* An edit whose text does not match exactly once fails with the journal in place.
WriteTopic(a) ==
  /\ At(a, "writeTopic")
  /\ \/ /\ topics' = [topics EXCEPT ![op[a].topic] = op[a]]
        /\ Goto(a, "commitMap")
        /\ UNCHANGED local
     \/ /\ op[a].kind = "editTopic"
        /\ Rollback(a)
        /\ UNCHANGED topics
  /\ UNCHANGED <<alive, lock, journal, memory, history, budget>>

CommitMap(a) ==
  /\ At(a, "commitMap")
  /\ memory' = plan[a]
  /\ Goto(a, "markRead")
  /\ UNCHANGED <<alive, lock, journal, topics, local, history, budget>>

\* markProjectMemoryTransactionCommitted reads its own journal ...
MarkRead(a) ==
  /\ At(a, "markRead")
  /\ IF journal = seen[a] THEN Goto(a, "markWrite") /\ UNCHANGED local ELSE Rollback(a)
  /\ UNCHANGED <<alive, lock, journal, files, history, budget>>

\* ... and replaces it: the logical commit point.
MarkWrite(a) ==
  /\ At(a, "markWrite")
  /\ journal' = [seen[a] EXCEPT !.phase = "committed"]
  /\ Relies(a, journal')
  /\ Applied(a)
  /\ after' = [after EXCEPT ![a] = "commit"]
  /\ Goto(a, "clearRead")
  /\ UNCHANGED <<alive, lock, files, op, round, tries, plan, budget>>

-----------------------------------------------------------------------------
(* The operations under a single lock *)

BootLock(a) == TakeLock(a, "memory", "bootLock", "bootRead")

BootRead(a) ==
  /\ At(a, "bootRead")
  /\ \/ /\ op[a].kind = "editMemory"  \* missing, or not matched exactly once
        /\ Unwind(a, "failed")
     \/ /\ op[a].kind = "ensure" /\ memory # Absent
        /\ Unwind(a, "ok")
     \/ /\ op[a].kind = "editMemory" => memory # Absent
        /\ op[a].kind = "ensure" => memory = Absent
        /\ Plans(a, CASE op[a].kind = "writeMemory" -> [body |-> op[a], map |-> {}]
                      [] op[a].kind = "editMemory" -> [memory EXCEPT !.body = op[a]]
                      [] op[a].kind = "ensure" -> [body |-> Fresh, map |-> {}])
        /\ Goto(a, "bootWrite")
        /\ UNCHANGED <<op, round, tries, seen, after>>
  /\ UNCHANGED <<alive, lock, journal, files, history, budget>>

BootWrite(a) ==
  /\ At(a, "bootWrite")
  /\ memory' = plan[a]
  /\ Applied(a)
  /\ Unwind(a, "ok")
  /\ UNCHANGED <<alive, lock, journal, topics, budget>>

OnlyLock(a) ==
  op[a] # Nil /\ TakeLock(a, op[a].topic, "onlyLock", "onlyWrite")

OnlyWrite(a) ==
  /\ At(a, "onlyWrite")
  /\ \/ /\ op[a].kind = "editTopicOnly"
        /\ Unwind(a, "failed")
        /\ UNCHANGED <<topics, history>>
     \/ /\ op[a].kind = "editTopicOnly" => topics[op[a].topic] # Absent
        /\ topics' = [topics EXCEPT ![op[a].topic] = op[a]]
        /\ Applied(a)
        /\ Unwind(a, "ok")
  /\ UNCHANGED <<alive, lock, journal, memory, budget>>

-----------------------------------------------------------------------------
(* The environment *)

\* The lock an actor waits for, Nil if it does not wait.
Awaited(a) ==
  CASE pc[a] \in {"waitLock", "claimMemory", "mapLock", "bootLock"} -> "memory"
    [] pc[a] = "claimLock" -> "journal"
    [] pc[a] = "settleLock" -> seen[a].topic
    [] pc[a] \in {"topicLock", "onlyLock"} -> op[a].topic
    [] OTHER -> Nil

Waiting(a) == a \in alive /\ Awaited(a) # Nil /\ lock[Awaited(a)] # Nil

\* The 10 s budget of a queued waiter is spent.
TimeOut(a) ==
  /\ Waiting(a)
  /\ Unwind(a, "failed")
  /\ UNCHANGED <<alive, lock, journal, files, history, budget>>

\* A cancellation or an I/O error in ordinary work.
Fault(a) ==
  /\ a \in alive
  /\ faults < MaxFaults
  /\ faults' = faults + 1
  /\ \/ /\ pc[a] \in RecoverPCs \cup BodyPCs
        /\ Unwind(a, "failed")
     \/ /\ pc[a] \in CommitPCs
        /\ Rollback(a)
  /\ UNCHANGED <<alive, lock, journal, files, history, crashes, settlementFaults>>

\* Mutant: a failing cleanup after the commit enters the rollback.
SettlementFaultRollsBack(a) ==
  /\ a \in alive
  /\ pc[a] \in SettlePCs
  /\ settlementFaults < MaxSettlementFaults
  /\ settlementFaults' = settlementFaults + 1
  /\ IF after[a] = "commit" THEN Rollback(a) ELSE Unwind(a, "failed")
  /\ UNCHANGED <<alive, lock, journal, files, history, crashes, faults>>

\* An I/O error in a settlement, which no cancellation interrupts: an
\* incomplete rollback stays journalled, a committed record stays uncleared.
SettlementFault(a) ==
  /\ a \in alive
  /\ pc[a] \in SettlePCs
  /\ settlementFaults < MaxSettlementFaults
  /\ settlementFaults' = settlementFaults + 1
  /\ Unwind(a, IF after[a] = "commit" THEN "ok" ELSE "failed")
  /\ UNCHANGED <<alive, lock, journal, files, history, crashes, faults>>

\* A killed process leaves its locks, the journal and the files as they are.
Crash(a) ==
  /\ a \in alive
  /\ crashes < MaxCrashes
  /\ crashes' = crashes + 1
  /\ alive' = alive \ {a}
  /\ Goto(a, "idle")
  /\ op' = [op EXCEPT ![a] = Nil]
  /\ round' = [round EXCEPT ![a] = 0]
  /\ tries' = [tries EXCEPT ![a] = 0]
  /\ Relies(a, Nil)
  /\ Plans(a, Absent)
  /\ after' = [after EXCEPT ![a] = "none"]
  /\ UNCHANGED <<lock, journal, files, history, faults, settlementFaults>>

-----------------------------------------------------------------------------
Recover(a) ==
  \/ Probe(a) \/ ProbeCheck(a) \/ OwnerCheck(a) \/ WaitLock(a) \/ WaitRead(a)
  \/ DropJournal(a) \/ DropMemory(a) \/ DropTopic(a)
  \/ ClaimLock(a) \/ ClaimRead(a) \/ ClaimWrite(a) \/ ClaimMemory(a) \/ ClaimVerify(a)
SettleRecord(a) ==
  \/ SettleLock(a) \/ RestoreTopic(a) \/ RestoreMemory(a) \/ ClearRead(a) \/ ClearRemove(a)
Transact(a) ==
  \/ MapLock(a) \/ MapSettle(a) \/ MapUnlockTopic(a) \/ ReadMap(a) \/ MapWrite(a)
  \/ TopicLock(a) \/ Begin(a) \/ WriteTopic(a) \/ CommitMap(a) \/ MarkRead(a) \/ MarkWrite(a)
SingleLock(a) ==
  BootLock(a) \/ BootRead(a) \/ BootWrite(a) \/ OnlyLock(a) \/ OnlyWrite(a)

Step(a) == Recover(a) \/ SettleRecord(a) \/ Transact(a) \/ SingleLock(a) \/ Unlock(a)

Next ==
  \E a \in Actor :
    Call(a) \/ Step(a) \/ TimeOut(a) \/ Fault(a) \/ SettlementFault(a) \/ Crash(a)

Spec == Init /\ [][Next]_vars

(***************************************************************************)
(* Fairness: the event loop resumes what a process awaits.  Nothing makes  *)
(* a call start, a fault or a crash happen; lock waits are left unfair, so *)
(* that progress never comes from a timeout.                               *)
(***************************************************************************)
FairSpec == Spec /\ \A a \in Actor : WF_vars(Step(a))

-----------------------------------------------------------------------------
(* Properties *)

\* Every operation is atomic, acknowledged operations have taken effect, failed
\* ones never do, and rollback and recovery are invisible.
ImplementsAtomicMemory == Store!StoreSpec

\* A committed version of a topic gives way to a later operation only: no
\* rollback or recovery takes it back.
CommittedNeverRolledBack ==
  [][\A a \in Actor : RestoreTopic(a) =>
       \A t \in Topic : topics[t] \in applied => topics'[t] = topics[t]]_vars

\* What no lock ensures and atomicity rests on: a claim replaces the record it read, and a
\* write that journals nothing does not land on a participant of a pending record.
Unraced(a) ==
  /\ ClaimWrite(a) => journal # Nil /\ seen[a] = [journal EXCEPT !.owner = a]
  /\ MapWrite(a) \/ BootWrite(a) => ~Pending
  /\ OnlyWrite(a) => ~(Pending /\ journal.topic = op[a].topic)
Undisturbed == [][\A a \in Actor : Unraced(a)]_vars

\* Participants change under their own lock, held by a running process.
WritesUnderLock ==
  [][/\ memory' # memory => lock["memory"] \in alive
     /\ \A t \in Topic : topics'[t] # topics[t] => lock[t] \in alive]_vars

\* A recovery that observed a journal returns only when that transaction is
\* settled, unless its observations ran out.
RecoveryLeavesNothing ==
  [][\A a \in Actor :
       (/\ pc[a] \in {"probeCheck", "unlock"}
        /\ round'[a] < round[a] /\ pc'[a] # "idle"
        /\ tries[a] + 1 < MaxObservations /\ seen[a] # Nil)
       => journal = Nil \/ journal.id # seen[a].id]_vars

\* Every call ends, without a timeout, unless a dead process holds a lock.
DeadHolds == \E l \in LockName : lock[l] # Nil /\ lock[l] \notin alive
CallsReturn == \A a \in Actor : pc[a] # "idle" ~> pc[a] = "idle" \/ DeadHolds
=============================================================================
