----------------------------- MODULE AgyPrimary -----------------------------
(***************************************************************************)
(* The Antigravity route (antigravity-primary.ts, agy-session.ts,          *)
(* turn-settlement.ts): steps of DSH sessions run as turns of live `agy`   *)
(* children, each of which holds one vendor conversation.  A conversation  *)
(* is continued by what DSH appended, repaired once when it answers with   *)
(* the decision of an earlier turn, retried once on a new child when the   *)
(* vendor fails, and reaped when idle.                                     *)
(*                                                                         *)
(* A step of the model is what runs between two awaits.  What follows a    *)
(* result runs in one chain of microtasks up to the next await.            *)
(*                                                                         *)
(* Abstracted: a message is its digest; a turn stamp is a number that is   *)
(* never reused; model resolution, the schema file and the invocation are  *)
(* the one await of `starting`; call ids and usage counts are left out.    *)
(***************************************************************************)
EXTENDS HeardMessages, FiniteSets

CONSTANTS
  Key,           \* DSH sessions (sessionKey)
  Call,          \* concurrent stream calls
  Signature,     \* requestSignature: model, effort, system, tools
  MaxSteps,      \* bound: stream calls
  MaxChildren,   \* bound: children not yet forgotten
  None           \* no session key, child or call

ASSUME BoundsAssumption ==
  MaxSteps \in Nat /\ MaxChildren \in Nat
ASSUME SentinelAssumption ==
  /\ None \notin Key \cup Call \cup Nat
  /\ Signature # {}
ASSUME FiniteAssumption == IsFiniteSet(Key) /\ IsFiniteSet(Call)

Child == 1..MaxChildren
Stamp == Nat        \* 0 is no stamp

\* A message of DSH's history: text, a block the bridge cannot serialize, or a
\* reply of this route coming back.
Message == [kind : {"text", "image", "own"}, id : Nat]
IsOwnReply(message) == message.kind = "own"
Serializable(messages) == \A i \in 1..Len(messages) : messages[i].kind # "image"

\* The result event of one turn: a decision, prose, a retryable failure (error),
\* or what no conversation survives (bad: any other settlement, a native tool, a
\* reply that DSH cannot execute).  `stamp` is the stamp in its structured output,
\* which the vendor never clears: it may be that of an earlier turn.
Result == [kind : {"decision", "prose", "bad", "error"}, stamp : Stamp]
NoResult == [kind |-> "bad", stamp |-> 0]

VARIABLES
  history,        \* DSH's messages of each session
  sessions,       \* the live child of each session
  turnsInFlight,  \* sessions with a turn in flight
  turnChildren,   \* children that dispose must close
  disposed,       \* how far dispose has come
  child,          \* AgyTurnProcess, with the AgySessionState it belongs to
  call,           \* the step each caller is in
  steps           \* how many there have been

adapter == <<sessions, turnsInFlight, turnChildren, disposed>>
vars == <<history, adapter, child, call, steps>>

ChildState ==
  [state : {"gone", "alive", "dead"},
   key : Key \cup {None},
   signature : Signature,
   sentDigests : Seq(Message),
   idleTimer : BOOLEAN,
   pending : Call \cup {None},   \* whose turn() awaits
   line : Stamp,                 \* the line it has not answered
   buffered : Stamp,             \* a line answered when nobody awaited
   structured : Stamp,           \* the stamp its structured_output holds
   executed : Nat,               \* history: how often that decision was handed to DSH
   told : Seq(Message),          \* history: messages written to it
   opened : BOOLEAN,             \* history: it got a full envelope
   late : BOOLEAN]               \* history: spawned after dispose began

StepState ==
  [pc : {"idle", "starting", "turn", "repair", "rejected", "closing"},
   key : Key \cup {None},
   request : Seq(Message),
   signature : Signature,
   child : Child \cup {None},    \* `session`, or the throwaway child
   turn : Stamp,
   repairing : BOOLEAN,          \* stale # undefined
   retried : BOOLEAN,
   next : {"none", "rebuild", "again", "throw", "retry", "judge"},
   result : Result,
   error : {"none", "own", "closed", "reaped", "busy"},
   lines : Nat,                  \* history: lines written for the step
   answered : Stamp]             \* history: the line whose result it took

TypeOK ==
  /\ history \in [Key -> Seq(Message)]
  /\ sessions \in [Key -> Child \cup {None}]
  /\ turnsInFlight \subseteq Key
  /\ turnChildren \subseteq Child
  /\ disposed \in {"no", "sessions", "children", "done"}
  /\ child \in [Child -> ChildState]
  /\ call \in [Call -> StepState]
  /\ steps \in 0..MaxSteps
  /\ \A k \in Key : sessions[k] # None => child[sessions[k]].state # "gone"

AnySignature == CHOOSE s \in Signature : TRUE
Gone ==
  [state |-> "gone", key |-> None, signature |-> AnySignature, sentDigests |-> <<>>,
   idleTimer |-> FALSE, pending |-> None, line |-> 0, buffered |-> 0, structured |-> 0, executed |-> 0,
   told |-> <<>>, opened |-> FALSE, late |-> FALSE]
Idle ==
  [pc |-> "idle", key |-> None, request |-> <<>>, signature |-> AnySignature, child |-> None,
   turn |-> 0, repairing |-> FALSE, retried |-> FALSE, next |-> "none", result |-> NoResult,
   error |-> "none", lines |-> 0, answered |-> 0]

Init ==
  /\ history = [k \in Key |-> <<>>]
  /\ sessions = [k \in Key |-> None]
  /\ turnsInFlight = {}
  /\ turnChildren = {}
  /\ disposed = "no"
  /\ child = [ch \in Child |-> Gone]
  /\ call = [c \in Call |-> Idle]
  /\ steps = 0

-----------------------------------------------------------------------------
(* Children.  `childs` and `calls` are what the step has made of child and   *)
(* call so far.                                                              *)

\* fail: the first reason marks the child dead.  When its session is closed, its
\* state is forgotten and nobody reads its results any more; its number is free.
Killed(childs, S) == [ch \in Child |-> IF ch \in S THEN [childs[ch] EXCEPT !.state = "dead", !.pending = None]
                                                   ELSE childs[ch]]
Forgotten(childs, S) == [ch \in Child |-> IF ch \in S THEN Gone ELSE childs[ch]]
\* The turn that awaits a failed child is rejected.
Rejecting(calls, childs, S, why) ==
  [c \in Call |-> IF \E ch \in S : childs[ch].pending = c
                  THEN [calls[c] EXCEPT !.pc = "rejected", !.error = why] ELSE calls[c]]

\* The part of closeSession before it awaits the child's exit.
CloseSessions(ks, childs, calls, why) ==
  LET S == {sessions[k] : k \in ks} \ {None} IN
  /\ sessions' = [k \in Key |-> IF k \in ks THEN None ELSE sessions[k]]
  /\ turnChildren' = turnChildren \ S
  /\ child' = Forgotten(childs, S)
  /\ call' = Rejecting(calls, childs, S, why)

Closing(calls, c, next) == [calls EXCEPT ![c].pc = "closing", ![c].next = next, ![c].error = "none"]

\* Digests and stamps that something still refers to.
Remembered ==
  UNION {{messages[i] : i \in 1..Len(messages)} : messages \in
           {history[k] : k \in Key} \cup {call[c].request : c \in Call}
             \cup {child[ch].sentDigests : ch \in Child} \cup {child[ch].told : ch \in Child}}
StampsInUse ==
  {call[c].turn : c \in Call}
    \cup (UNION {{child[ch].line, child[ch].buffered, child[ch].structured} : ch \in Child})
    \cup {m.id : m \in {m \in Remembered : IsOwnReply(m)}}
Least(S) == CHOOSE n \in S : \A m \in S : n <= m
NewStamp == Least((1..(Cardinality(StampsInUse) + 1)) \ StampsInUse)
NewMessage ==
  LET ids == {m.id : m \in {m \in Remembered : ~IsOwnReply(m)}} IN Least((1..(Cardinality(ids) + 1)) \ ids)

\* AgyTurnProcess.turn: a dead child with nothing buffered, or a busy one, refuses.
\* The line carries a stamp of its own.
Refuses(ch, childs) ==
  \/ childs[ch].state = "dead" /\ childs[ch].buffered = 0
  \/ childs[ch].pending # None
WriteLine(c, ch, pc, step, childs) ==
  IF Refuses(ch, childs)
  THEN /\ child' = childs
       /\ call' = [call EXCEPT ![c] = [step EXCEPT !.pc = "rejected", !.error = "busy"]]
  ELSE /\ child' = [childs EXCEPT ![ch].pending = c, ![ch].line = NewStamp]
       /\ call' = [call EXCEPT ![c] = [step EXCEPT !.pc = pc, !.turn = NewStamp, !.error = "none",
                                                   !.answered = 0, !.lines = @ + 1]]

-----------------------------------------------------------------------------
(* runTurn and runTurnBody *)

IsPrefixOf(sent, messages) ==
  Len(sent) <= Len(messages) /\ \A i \in 1..Len(sent) : messages[i] = sent[i]

\* Mutant: only the number of messages is compared.
ExtendsInLength(ch, messages) == Len(messages) > Len(child[ch].sentDigests)

ExtendsConversation(ch, messages) ==
  /\ Len(messages) > Len(child[ch].sentDigests)
  /\ IsPrefixOf(child[ch].sentDigests, messages)

Continues(ch, step) ==
  /\ child[ch].state = "alive"
  /\ child[ch].signature = step.signature
  /\ ExtendsConversation(ch, step.request)

Appended(ch, step) == SubSeq(step.request, Len(child[ch].sentDigests) + 1, Len(step.request))

\* The step ends; a session's guard is released.
Leave(c, step) ==
  /\ call' = [call EXCEPT ![c] = Idle]
  /\ turnsInFlight' = turnsInFlight \ {step.key}
  /\ UNCHANGED <<sessions, turnChildren, child>>

Await(c, step) ==
  /\ call' = [call EXCEPT ![c] = [step EXCEPT !.pc = "starting", !.child = None, !.next = "none"]]
  /\ turnsInFlight' = turnsInFlight \cup ({step.key} \ {None})
  /\ UNCHANGED <<sessions, turnChildren, child>>

Reclose(c, step, next) ==
  /\ CloseSessions({step.key}, child, Closing([call EXCEPT ![c] = step], c, next), "closed")
  /\ turnsInFlight' = turnsInFlight \cup {step.key}

\* A delta: the appended messages that are not the vendor's own.
Delta(c, ch, step) ==
  LET unheard == Unheard(Appended(ch, step)) IN
  IF ~Serializable(unheard) THEN Leave(c, step)
  ELSE /\ WriteLine(c, ch, "turn", [step EXCEPT !.child = ch, !.next = "none"],
                    [child EXCEPT ![ch].told = @ \o unheard])
       /\ turnsInFlight' = turnsInFlight \cup {step.key}
       /\ UNCHANGED <<sessions, turnChildren>>

\* One turn of a step, up to its first await.
RunTurnBody(c, step) ==
  LET ch == IF step.key = None THEN None ELSE sessions[step.key] IN
  IF disposed # "no" THEN Leave(c, step)
  ELSE IF ch = None THEN Await(c, step)
  ELSE IF ~Continues(ch, step) THEN Reclose(c, step, "rebuild")
  ELSE IF Unheard(Appended(ch, step)) = <<>> THEN Reclose(c, step, "again")
  ELSE Delta(c, ch, step)

\* Mutant: a second request of a session is not refused at the door.
RunTurnUnguarded(c, step) == RunTurnBody(c, step)

\* A second request of a session whose turn is in flight is refused.
RunTurn(c, step) ==
  IF step.key \in turnsInFlight
  THEN /\ call' = [call EXCEPT ![c] = Idle]
       /\ UNCHANGED <<sessions, turnsInFlight, turnChildren, child>>
  ELSE RunTurnBody(c, step)

\* DSH asks for a step.  Its history is what it was (a step asked again, or one
\* that ended with the vendor's reply), has grown, was compacted into one
\* message, or had its first message pruned.
Grown(messages, kind) == Append(messages, [kind |-> kind, id |-> NewMessage])
Requests(messages) ==
  LET summary == [kind |-> "text", id |-> NewMessage] IN
  {Grown(messages, "text"), Grown(messages, "image")}
    \cup IF messages = <<>> THEN {} ELSE {messages, <<summary>>, [messages EXCEPT ![1] = summary]}

Stream(c, k, request, signature) ==
  /\ call[c].pc = "idle"
  /\ steps < MaxSteps
  /\ RunTurn(c, [Idle EXCEPT !.key = k, !.request = request, !.signature = signature])
  /\ history' = [history EXCEPT ![k] = request]
  /\ steps' = steps + 1
  /\ UNCHANGED <<disposed>>

\* An auxiliary call (a compaction, a title) has no session key.
StreamAuxiliary(c) ==
  /\ call[c].pc = "idle"
  /\ steps < MaxSteps
  /\ RunTurn(c, Idle)
  /\ steps' = steps + 1
  /\ UNCHANGED <<history, disposed>>

\* The throwaway child is closed in the finally of its turn.
CloseThrowaway(c, childs, calls, next) ==
  LET ch == calls[c].child IN
  /\ turnChildren' = turnChildren \ {ch}
  /\ child' = Forgotten(childs, {ch})
  /\ call' = Closing(calls, c, next)
  /\ UNCHANGED <<sessions, turnsInFlight>>

Unused == {ch \in Child : child[ch].state = "gone"}
NewChild == Least(Unused)
Spawned(step) ==
  [Gone EXCEPT !.state = "alive", !.key = step.key, !.signature = step.signature,
                 !.late = disposed # "no"]

\* startProcess answered: the child is mapped, and gets the whole request.  A
\* request that cannot be serialized throws past the catch that would close the
\* session.
StartProcess(c) ==
  LET ch == NewChild
      step == [call[c] EXCEPT !.child = ch]
      plain == Serializable(step.request)
      heard == [Spawned(step) EXCEPT !.opened = plain, !.told = IF plain THEN step.request ELSE <<>>]
  IN  /\ call[c].pc = "starting"
      /\ Unused # {}
      /\ turnChildren' = turnChildren \cup {ch}
      /\ sessions' = IF step.key = None THEN sessions ELSE [sessions EXCEPT ![step.key] = ch]
      /\ IF plain
         THEN WriteLine(c, ch, "turn", step, [child EXCEPT ![ch] = heard]) /\ UNCHANGED turnsInFlight
         ELSE /\ child' = [child EXCEPT ![ch] = heard]
              /\ call' = [call EXCEPT ![c] = Idle]
              /\ turnsInFlight' = turnsInFlight \ {step.key}
      /\ UNCHANGED <<history, disposed, steps>>

\* The turn's timeout or the caller's abort ends the wait for the child, or no
\* child can be started.
StartFails(c) ==
  /\ call[c].pc = "starting"
  /\ Leave(c, call[c])
  /\ UNCHANGED <<history, disposed, steps>>

\* The child is spawned all the same, and turn() finds its signal aborted.
StartedTooLate(c) ==
  LET ch == NewChild
      dead == [Spawned(call[c]) EXCEPT !.state = "dead"]
  IN  /\ call[c].pc = "starting"
      /\ Unused # {}
      /\ Serializable(call[c].request)
      /\ child' = [child EXCEPT ![ch] = dead]
      /\ call' = Closing([call EXCEPT ![c].child = ch], c, "throw")
      /\ UNCHANGED <<history, adapter, steps>>

-----------------------------------------------------------------------------
(* What a step does with a result *)

\* Mutant: a decision is read whatever turn it was authored for.
AnswersAnyTurn(step, result) == result.kind = "decision" \/ result.stamp # 0

\* The decision was authored for the turn now being read.
AnswersTurn(step, result) == result.kind = "decision" /\ result.stamp = step.turn

\* The step ends with a reply to DSH, which appends it to its history.
Finish(c, step, childs, decisions) ==
  /\ history' = IF step.key # None /\ history[step.key] = step.request
                THEN [history EXCEPT ![step.key] = Append(@, [kind |-> "own", id |-> step.turn])]
                ELSE history
  /\ call' = [call EXCEPT ![c] = Idle]
  /\ child' = IF step.key = None THEN childs ELSE [childs EXCEPT ![step.child].executed = @ + decisions]
  /\ UNCHANGED <<sessions, turnChildren>>

Lose(c, childs) ==
  /\ call' = [call EXCEPT ![c] = Idle]
  /\ child' = childs
  /\ UNCHANGED <<history, sessions, turnChildren>>

\* abandonSession, before a retry or before the step throws: then nothing more
\* depends on the exit of the child.
Abandon(c, step, childs, free, retry) ==
  /\ turnsInFlight' = free
  /\ CloseSessions({step.key} \ {None}, childs,
                   IF retry THEN Closing([call EXCEPT ![c] = step], c, "retry") ELSE [call EXCEPT ![c] = Idle],
                   "closed")
  /\ UNCHANGED history

\* repairTurn, written to the conversation that answered.
Repair(c, step, childs, free) ==
  /\ turnsInFlight' = free \cup {step.key}
  /\ WriteLine(c, step.child, "repair", [step EXCEPT !.repairing = TRUE], childs)
  /\ UNCHANGED <<history, sessions, turnChildren>>

RetriesOnce(step, result) == result.kind = "error" /\ ~step.retried

\* The loop of stream, with the guard released: `free` is what is then in flight.
Judge(c, step, result, childs, free) ==
  LET stale == result.kind \in {"decision", "prose"} /\ ~AnswersTurn(step, result)
      asked == step.repairing \/ step.key = None
  IN  IF AnswersTurn(step, result)
      THEN Finish(c, step, childs, 1) /\ turnsInFlight' = free
      ELSE IF stale /\ asked /\ result.kind = "prose"
      THEN Finish(c, step, childs, 0) /\ turnsInFlight' = free
      ELSE IF stale /\ asked
      THEN Lose(c, childs) /\ turnsInFlight' = free
      ELSE IF stale
      THEN Repair(c, step, childs, free)
      ELSE Abandon(c, step, childs, free, RetriesOnce(step, result))

\* Mutant: the idle timer is not armed after a turn.
DeliveredUnarmed(ch, step, childs) ==
  [childs EXCEPT ![ch].sentDigests = @ \o Appended(ch, step)]

\* The turn of a session resolved: it is recorded as delivered, the idle timer
\* armed and the guard released before the result is read.
Delivered(ch, step, childs) ==
  [childs EXCEPT ![ch].sentDigests = @ \o Appended(ch, step), ![ch].idleTimer = TRUE]

\* The vendor's result for the line it was working on, or the one it answered
\* when nobody awaited.
AgyTurnResult(ch, kind, stamp) ==
  LET c == child[ch].pending
      line == IF child[ch].buffered # 0 THEN child[ch].buffered ELSE child[ch].line
      fresh == kind = "decision" /\ stamp = line
      answered == [child EXCEPT ![ch].pending = None, ![ch].line = 0, ![ch].buffered = 0,
                                ![ch].structured = IF fresh THEN line ELSE @,
                                ![ch].executed = IF fresh THEN 0 ELSE @]
      step == [call[c] EXCEPT !.answered = line]
      result == [kind |-> kind, stamp |-> stamp]
  IN  /\ c # None
      /\ stamp \in CASE kind = "decision" -> {line, child[ch].structured}
                     [] kind = "prose" -> {child[ch].structured} \ {0}
                     [] OTHER -> {0}
      /\ IF step.key = None
         THEN /\ CloseThrowaway(c, answered, [call EXCEPT ![c] = [step EXCEPT !.result = result]], "judge")
              /\ UNCHANGED history
         ELSE Judge(c, step, result,
                    IF step.pc = "repair" THEN answered ELSE Delivered(ch, step, answered),
                    turnsInFlight \ {step.key})
      /\ UNCHANGED <<disposed, steps>>

\* A line that was given up is answered before the child of a session is gone.
LateResult(ch) ==
  /\ child[ch].state = "dead"
  /\ child[ch].line # 0
  /\ child' = [child EXCEPT ![ch].buffered = child[ch].line, ![ch].line = 0]
  /\ UNCHANGED <<history, adapter, call, steps>>

-----------------------------------------------------------------------------
(* How a turn fails *)

FailChild(ch, why) ==
  /\ child' = Killed(child, {ch})
  /\ call' = Rejecting(call, child, {ch}, why)

\* The vendor exits, or writes what is not JSON.
Exit(ch) ==
  /\ child[ch].state = "alive"
  /\ FailChild(ch, "own")
  /\ UNCHANGED <<history, adapter, steps>>

\* The timeout of the turn, or the caller's abort.
Abort(c) ==
  /\ call[c].pc \in {"turn", "repair"}
  /\ FailChild(call[c].child, "own")
  /\ UNCHANGED <<history, adapter, steps>>

RejectedRepair(c) ==
  /\ Lose(c, child)
  /\ turnsInFlight' = turnsInFlight \ {call[c].key}

\* The rejection reaches the step: a failed repair leaves the session alone, a
\* failed turn closes it.
Rejected(c) ==
  /\ call[c].pc = "rejected"
  /\ IF call[c].repairing
     THEN RejectedRepair(c)
     ELSE /\ IF call[c].key = None
             THEN CloseThrowaway(c, child, call, "throw")
             ELSE /\ CloseSessions({call[c].key}, child, Closing(call, c, "throw"), "closed")
                  /\ UNCHANGED turnsInFlight
          /\ UNCHANGED history
  /\ UNCHANGED <<disposed, steps>>

\* Mutant: the retry does not pass the guard.
RetryUnguarded(c, step) == RunTurnBody(c, step)

Retry(c, step) == RunTurn(c, step)

\* The child that a step closed has exited, or its grace is over.
Closed(c) ==
  LET step == [call[c] EXCEPT !.next = "none"] IN
  /\ call[c].pc = "closing"
  /\ CASE step.key = None /\ call[c].next = "judge" ->
            Judge(c, step, step.result, child, turnsInFlight)
       [] call[c].next = "rebuild" ->
            Await(c, step) /\ UNCHANGED history
       [] call[c].next = "again" ->
            RunTurnBody(c, step) /\ UNCHANGED history
       [] call[c].next = "retry" ->
            /\ Retry(c, [step EXCEPT !.retried = TRUE, !.repairing = FALSE, !.child = None,
                                     !.result = NoResult])
            /\ UNCHANGED history
       [] call[c].next = "throw" ->
            Leave(c, step) /\ UNCHANGED history
  /\ UNCHANGED <<disposed, steps>>

-----------------------------------------------------------------------------
(* The idle reaper and dispose *)

\* The timer of a conversation closes whatever its session key maps to.
IdleTimer(ch) ==
  /\ child[ch].idleTimer
  /\ CloseSessions({child[ch].key}, [child EXCEPT ![ch].idleTimer = FALSE], call, "reaped")
  /\ UNCHANGED <<history, turnsInFlight, disposed, steps>>

Dispose ==
  /\ disposed = "no"
  /\ disposed' = "sessions"
  /\ CloseSessions(Key, child, call, "closed")
  /\ UNCHANGED <<history, turnsInFlight, steps>>

\* The sessions have closed: every turn child is closed.
DisposeChildren ==
  /\ disposed = "sessions"
  /\ disposed' = "children"
  /\ child' = Killed(child, turnChildren)
  /\ call' = Rejecting(call, child, turnChildren, "closed")
  /\ UNCHANGED <<history, sessions, turnsInFlight, turnChildren, steps>>

Disposed ==
  /\ disposed = "children"
  /\ disposed' = "done"
  /\ turnChildren' = {}
  /\ UNCHANGED <<history, sessions, turnsInFlight, child, call, steps>>

-----------------------------------------------------------------------------

Kinds == {"decision", "prose", "bad", "error"}

Next ==
  \/ \E c \in Call :
       \/ \E k \in Key :
            \/ \E request \in Requests(history[k]) : Stream(c, k, request, AnySignature)
            \/ \E signature \in Signature : Stream(c, k, Grown(history[k], "text"), signature)
       \/ StreamAuxiliary(c)
       \/ StartProcess(c) \/ StartFails(c) \/ StartedTooLate(c)
       \/ Abort(c) \/ Rejected(c) \/ Closed(c)
  \/ \E ch \in Child :
       \/ \E kind \in Kinds, stamp \in {0, child[ch].line, child[ch].buffered, child[ch].structured} :
            AgyTurnResult(ch, kind, stamp)
       \/ LateResult(ch) \/ Exit(ch) \/ IdleTimer(ch)
  \/ Dispose \/ DisposeChildren \/ Disposed

Spec == Init /\ [][Next]_vars

-----------------------------------------------------------------------------
(* Properties *)

\* A conversation is only asked for a turn when the messages written to it are
\* exactly those of the request that are not its own replies, in order, and it
\* was opened for the same model, effort, system and tools, however DSH's
\* history was rewritten since (extendsConversation, requestSignature).
HeardHistory ==
  \A c \in Call :
    call[c].pc = "turn" /\ call[c].key # None =>
      /\ Unheard(child[call[c].child].told) = Unheard(call[c].request)
      /\ child[call[c].child].signature = call[c].signature

\* No child is left that nothing can reach: a live one is its session's, or the
\* throwaway child a step is waiting for (the comment in runTurn on orphans); and when
\* dispose is done it was started after dispose began.
NoOrphan ==
  \A ch \in Child :
    child[ch].state = "alive" =>
      /\ \/ \E k \in Key : sessions[k] = ch
         \/ \E c \in Call : call[c].key = None /\ child[ch].pending = c
      /\ disposed = "done" => child[ch].late

\* Every variable has its type.  A turn fails for a reason of its own: it is closed only by dispose or by the
\* idle timer, never by another step of its session (the comment in runTurn:
\* a refused second request costs the live conversation nothing).
OwnFailure ==
  \A c \in Call :
    call[c].pc = "rejected" =>
      \/ call[c].error \in {"own", "reaped"}
      \/ call[c].error = "closed" /\ disposed # "no"

\* And a session's guard is held by exactly one step, from its first turn to the end
\* of the turn, repair or rebuild it is in: it neither leaks, refusing every later
\* step, nor is given to two.
Guarded(c) ==
  /\ call[c].key # None
  /\ call[c].pc \in {"starting", "turn", "repair", "rejected"} \/ call[c].next \in {"rebuild", "again", "throw"}
GuardHeld ==
  /\ \A k \in turnsInFlight : \E c \in Call : Guarded(c) /\ call[c].key = k
  /\ \A c, d \in Call : Guarded(c) => /\ call[c].key \in turnsInFlight
                                      /\ Guarded(d) /\ call[d].key = call[c].key => c = d
Undisturbed == TypeOK /\ OwnFailure /\ GuardHeld

\* A step is judged by the answer to the line it wrote last, never by a result
\* left behind by a turn that was given up (AgyTurnProcess.buffered).
OwnAnswer == \A c \in Call : call[c].answered \in {0, call[c].turn}

\* No decision is handed to DSH twice, although structured_output keeps the last
\* one and turns are repaired and retried (BRIDGE_TURN_FIELD).
NoneTwice == \A ch \in Child : child[ch].executed <= 1

\* And a step asks the vendor at most four times: one retry per step, one repair per
\* conversation.
BoundedAsking == \A c \in Call : call[c].lines <= 4
ExecutedOnce == OwnAnswer /\ NoneTwice /\ BoundedAsking

\* An opened conversation at rest has a timer that will reap it, and a timer
\* that is armed belongs to the conversation its session holds.
Reapable ==
  /\ \A k \in Key : sessions[k] # None /\ k \notin turnsInFlight /\ child[sessions[k]].opened
                      => child[sessions[k]].idleTimer
  /\ \A ch \in Child : child[ch].idleTimer => sessions[child[ch].key] = ch

\* A conversation is reaped after a time of silence, not in the middle of a turn
\* (antigravity-primary.ts:1066 and :149).  A repair follows the turn that armed
\* the timer at once and has timed out before it, so it is excepted.
ReapedInSilence == \A c \in Call : call[c].error = "reaped" => call[c].repairing
=============================================================================
