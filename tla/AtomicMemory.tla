---------------------------- MODULE AtomicMemory ----------------------------
(***************************************************************************)
(* What the project memory promises the callers of its operations: every   *)
(* operation takes effect at one instant or not at all, a topic together   *)
(* with its entry in the Memory map; an operation that reported success    *)
(* has taken effect, one that reported failure never does; and nothing     *)
(* else - no crash, rollback or recovery - changes what is stored.         *)
(***************************************************************************)
CONSTANTS
  Op,         \* operation instances, records with a kind and a topic
  Topic,      \* named topics
  Existing,   \* topics present at the start
  Old,        \* the content that was there at the start
  Fresh,      \* the body of INITIAL_MEMORY_MD_CONTENT
  Absent      \* no such file

VARIABLES
  topics,     \* topic -> the operation that wrote its content, Old or Absent
  memory,     \* MEMORY.md: a body and the topics its Memory map lists, or Absent
  applied,    \* operations that took effect
  acked,      \* operations that reported success
  failed      \* operations that reported failure

storeVars == <<topics, memory, applied, acked, failed>>

InitialMemory == [body |-> Fresh, map |-> {}]

\* insertTopicIntoMemoryMapContent over readBootstrapOrInitial.
WithEntry(m, t) ==
  LET base == IF m = Absent THEN InitialMemory ELSE m
  IN [base EXCEPT !.map = @ \cup {t}]

StoreInit ==
  /\ topics = [t \in Topic |-> IF t \in Existing THEN Old ELSE Absent]
  /\ memory \in {Absent, [body |-> Old, map |-> Existing]}
  /\ applied = {} /\ acked = {} /\ failed = {}

Present(o) == topics[o.topic] # Absent

\* What one operation does to the stored state.
Effect(o) ==
  \/ /\ o.kind = "writeTopic" \/ (o.kind = "editTopic" /\ Present(o))
     /\ topics' = [topics EXCEPT ![o.topic] = o]
     /\ memory' = WithEntry(memory, o.topic)
  \/ /\ o.kind = "mapEntry"
     /\ memory' = WithEntry(memory, o.topic)
     /\ UNCHANGED topics
  \/ /\ o.kind = "writeMemory"
     /\ memory' = [body |-> o, map |-> {}]
     /\ UNCHANGED topics
  \/ /\ o.kind = "editMemory" /\ memory # Absent
     /\ memory' = [memory EXCEPT !.body = o]
     /\ UNCHANGED topics
  \/ /\ o.kind = "ensure" /\ memory = Absent
     /\ memory' = InitialMemory
     /\ UNCHANGED topics
  \/ /\ o.kind = "writeTopicOnly" \/ (o.kind = "editTopicOnly" /\ Present(o))
     /\ topics' = [topics EXCEPT ![o.topic] = o]
     /\ UNCHANGED memory

Apply(o) ==
  /\ o \notin applied \cup failed
  /\ Effect(o)
  /\ applied' = applied \cup {o}
  /\ UNCHANGED <<acked, failed>>

\* Reading, or ensuring a MEMORY.md that exists, succeeds without an effect.
Succeed(o) ==
  /\ o \in applied \/ o.kind \in {"read", "ensure"}
  /\ acked' = acked \cup {o}
  /\ UNCHANGED <<topics, memory, applied, failed>>

Fail(o) ==
  /\ o \notin applied \cup acked
  /\ failed' = failed \cup {o}
  /\ UNCHANGED <<topics, memory, applied, acked>>

StoreNext == \E o \in Op : Apply(o) \/ Succeed(o) \/ Fail(o)

StoreSpec == StoreInit /\ [][StoreNext]_storeVars
=============================================================================
