---------------------------- MODULE CodexThread ----------------------------
(***************************************************************************)
(* The Codex route (adapter.ts, app-server.ts, history.ts): each step of a *)
(* DSH session opens an App Server process, realigns a vendor thread with  *)
(* DSH's history (resume, rollback, fork, or a new thread), injects what   *)
(* the thread has not heard, runs one turn, and closes the process.        *)
(*                                                                         *)
(* Abstracted: messages, turns and threads are numbered by the step that   *)
(* made them; a digest is what it is the digest of; notifications within a *)
(* turn are the subject of CodexStream; images, schemas and configuration  *)
(* are left out.  DSH and the vendor are external.                         *)
(***************************************************************************)
EXTENDS Naturals, Sequences, FiniteSetsExt

CONSTANTS
  Session,       \* DSH sessions
  MaxSteps,      \* bound: stream calls
  MaxFailures,   \* bound: failed steps after which DSH asks for another one
  MaxAuxiliary,  \* bound: auxiliary steps
  MaxInFlight,   \* bound: sessions with a step in flight at once
  None           \* no turn, thread, step or checkpoint

Step == 1..MaxSteps

\* A message of a DSH history.  "call" and "text" are replies of this route,
\* "partial" what DSH kept of one that failed, "foreign" the reply of another route.
\* A tool result answers the call "of" a step.  DSH may prune a tool result or edit a
\* call ("edited").
Kind == {"user", "tool", "summary", "foreign", "partial", "call", "text"}
Message == [kind : Kind, by : Step, of : Step \cup {None}, edited : BOOLEAN]

\* What a vendor thread holds: turns, and items injected between them.
Entry == [turn : Step \cup {None}, items : Seq(Message)]

VARIABLES
  history,       \* DSH: the messages of each session
  rewritten,     \* DSH: what a session held before it was last rewritten
  replay,        \* the replay state of each step's reply
  call,          \* the locals of each call of stream
  inFlight,      \* sessions with a step in flight
  activeTurns,   \* the turn registered for each session, and auxiliary turns
  child,         \* the App Server process of each step
  disposed,
  thread,        \* vendor: the entries of each thread
  rollout,       \* vendor: what the thread of each turn held when the turn ended
  lost,          \* history: messages of a thread that DSH's history may lack, see Forsaken
  late,          \* history: steps that were starting when the adapter was disposed
  failures       \* history: steps that failed

dsh == <<history, rewritten>>
vendor == <<thread, rollout, lost>>
observed == <<late, failures>>
vars == <<history, rewritten, replay, call, inFlight, activeTurns, child, disposed, thread, rollout, lost, late, failures>>

ReplayState == [thread : Step, session : Session, prefix : Seq(Message)]

Starting == {"spawning", "resuming", "rollingBack", "forking", "starting", "injecting", "turning"}

CallState ==
  [pc : {"idle", "streaming", "closing", "done"} \cup Starting,
   session : Session \cup {None},
   auxiliary : BOOLEAN,
   messages : Seq(Message),
   checkpoint : Step \cup {None},      \* history.checkpoint: the step whose turn it is
   thread : Step \cup {None},
   behind : Nat]                       \* turns of the thread after the checkpoint

Idle == [pc |-> "idle", session |-> None, auxiliary |-> FALSE, messages |-> <<>>, checkpoint |-> None,
         thread |-> None, behind |-> 0]
Over(k) == [Idle EXCEPT !.pc = "done", !.auxiliary = call[k].auxiliary]

Init ==
  /\ history = [s \in Session |-> <<>>]
  /\ rewritten = [s \in Session |-> <<>>]
  /\ replay = [k \in Step |-> None]
  /\ call = [k \in Step |-> Idle]
  /\ inFlight = {}
  /\ activeTurns = {}
  /\ child = [k \in Step |-> "none"]
  /\ disposed = FALSE
  /\ thread = [t \in Step |-> <<>>]
  /\ rollout = [k \in Step |-> <<>>]
  /\ lost = [t \in Step |-> {}]
  /\ late = {}
  /\ failures = 0

-----------------------------------------------------------------------------
(* history.ts: what of DSH's history goes where *)

IsReply(m) == m.kind \in {"call", "text"}
ToolResult == {"tool"}
CurrentTurnInput == {"user", "summary"}

\* Mutant: the digest of the prefix is not compared, only its length.
ValidCheckpointByLength(messages, i) ==
  /\ IsReply(messages[i])
  /\ replay[messages[i].by] # None
  /\ Len(replay[messages[i].by].prefix) = i - 1

\* The reply at i was given to exactly the messages before it, and its tool call is
\* what DSH has of it.
ValidCheckpoint(messages, i) ==
  /\ IsReply(messages[i])
  /\ replay[messages[i].by] # None
  /\ replay[messages[i].by].prefix = SubSeq(messages, 1, i - 1)
  /\ messages[i].kind = "call" => ~messages[i].edited

\* The position of the latest valid checkpoint, 0 if there is none.
LatestCheckpoint(messages) ==
  Max({0} \cup {i \in 1..Len(messages) : ValidCheckpoint(messages, i)})

\* A checkpoint made in another session is passed over for a rebuild.
Checkpoint(messages, session) ==
  LET i == LatestCheckpoint(messages)
  IN  IF i # 0 /\ replay[messages[i].by].session = session THEN i ELSE 0

\* How many of the last messages are of these kinds.
Trailing(messages, kinds) ==
  Len(messages) - Max({0} \cup {i \in 1..Len(messages) : messages[i].kind \notin kinds})

Pending(messages, position) == SubSeq(messages, position + 1, Len(messages))

\* Where the input of the turn begins in the pending messages; after tool results
\* alone all are imported and the input is a notice.
Historical(pending) ==
  SubSeq(pending, 1, Len(pending) - Trailing(pending, CurrentTurnInput))
TurnInput(pending) ==
  SubSeq(pending, Len(pending) - Trailing(pending, CurrentTurnInput) + 1, Len(pending))

HasInput(pending) ==
  Trailing(pending, CurrentTurnInput) > 0 \/ Trailing(pending, ToolResult) > 0

\* A result of the call that the checkpoint's reply made is preceded by that call.
WithCall(item, checkpoint) ==
  IF item.kind \in ToolResult /\ checkpoint # None /\ checkpoint.kind = "call" /\ item.of = checkpoint.by
  THEN <<checkpoint, item>>
  ELSE <<item>>

\* Lists one after another; a recursive function, which the provers can unfold.
Joined(lists) ==
  LET joined[i \in 0..Len(lists)] == IF i = 0 THEN <<>> ELSE joined[i-1] \o lists[i]
  IN  joined[Len(lists)]

\* prepareCodexHistory: what is injected, by the position of the checkpoint.
InjectItems(messages, position) ==
  LET checkpoint == IF position = 0 THEN None ELSE messages[position]
      items == Historical(Pending(messages, position))
  IN  Joined([i \in 1..Len(items) |-> WithCall(items[i], checkpoint)])

PositionOf(k) ==
  IF call[k].checkpoint = None THEN 0
  ELSE CHOOSE i \in 1..Len(call[k].messages) :
         IsReply(call[k].messages[i]) /\ call[k].messages[i].by = call[k].checkpoint
Injected(k) == InjectItems(call[k].messages, PositionOf(k))
Input(k) == TurnInput(Pending(call[k].messages, PositionOf(k)))

-----------------------------------------------------------------------------
(* The vendor's threads *)

\* The turns of a thread after its i-th entry.
TurnsAfter(entries, i) == Cardinality({j \in i + 1 .. Len(entries) : entries[j].turn # None})
Heard(entries) == Joined([i \in 1..Len(entries) |-> entries[i].items])

\* What thread/rollback leaves of a thread: n turns are dropped, and perhaps the items
\* injected before the first of them.
RolledBack(entries, n) ==
  LET kept == SubSeq(entries, 1, Max({0} \cup {i \in 1..Len(entries) : TurnsAfter(entries, i) >= n}))
  IN  {kept, SubSeq(kept, 1, Max({0} \cup {i \in 1..Len(kept) : kept[i].turn # None}))}

WithItems(t, turn, items) == [thread EXCEPT ![t] = Append(@, [turn |-> turn, items |-> items])]

Messages(entries) == UNION {Range(entries[i].items) : i \in 1..Len(entries)}

\* A thread that k resumed keeps what k gave it before it failed, and perhaps what was
\* injected before a turn that k rolled back.  A thread that k began is not used again.
Forsaken(k, threads) ==
  LET t == call[k].thread
  IN  IF t \in {None, k} THEN lost
      ELSE [lost EXCEPT ![t] = @ \cup (Messages(threads[t]) \ Range(SubSeq(call[k].messages, 1, PositionOf(k))))]
Abandoned(k, threads) == IF call[k].thread = k THEN [threads EXCEPT ![k] = <<>>] ELSE threads

-----------------------------------------------------------------------------
(* DSH (external): the histories a step is asked for *)

New(kind, k) == [kind |-> kind, by |-> k, of |-> None, edited |-> FALSE]
Result(messages, k) == [New("tool", k) EXCEPT !.of = messages[Len(messages)].by]
CallOf(messages) == messages[Len(messages)].kind = "call"

\* What the session held, and what it is rewritten to: what led to a reply of it, what it held
\* before an earlier rewriting, a summary, or the same with a message edited.
Rewritten(s, k) ==
  {SubSeq(history[s], 1, n) : n \in {0, Len(history[s])} \cup {i \in 1..Len(history[s]) : IsReply(history[s][i])}} \cup {rewritten[s]}
    \cup {<<New("summary", k)>> : i \in DOMAIN history[s]}
    \cup {[history[s] EXCEPT ![i].edited = TRUE] :
            i \in {j \in 1..Len(history[s]) : history[s][j].kind \in {"tool", "call"}}}

\* A call is answered by a tool result, perhaps followed by a message of the user; a
\* message that was not answered is asked again or answered by another route.
Continued(messages, k) ==
  IF messages = <<>> THEN {<<New("user", k)>>}
  ELSE IF CallOf(messages)
  THEN {Append(messages, Result(messages, k)), messages \o <<Result(messages, k), New("user", k)>>}
  ELSE {Append(messages, New("user", k))}
       \cup (IF HasInput(messages) THEN {messages, messages \o <<New("foreign", k), New("user", k)>>} ELSE {})

Requests(s, k) == UNION {Continued(messages, k) : messages \in Rewritten(s, k)}

\* A session that starts as a copy of another one.
Fork(s) ==
  /\ history[s] = <<>>
  /\ s \notin inFlight
  /\ \E other \in Session \ {s} :
       /\ other \notin inFlight
       /\ history[other] # <<>>
       /\ history' = [history EXCEPT ![s] = history[other]]
  /\ UNCHANGED <<rewritten, replay, call, inFlight, activeTurns, child, disposed, vendor, observed>>

-----------------------------------------------------------------------------
(* stream and startTurn *)

Goto(k, pc) == call' = [call EXCEPT ![k].pc = pc]

\* The thread a step works on, or is about to resume.
ThreadOf(k) ==
  IF call[k].thread # None THEN call[k].thread
  ELSE IF call[k].checkpoint # None THEN replay[call[k].checkpoint].thread
  ELSE k

\* Only the thread matters until the process is gone.
Leave(k) == call' = [call EXCEPT ![k] = [call[k] EXCEPT !.pc = "closing", !.messages = <<>>, !.checkpoint = None, !.thread = ThreadOf(k), !.behind = 0]]

\* The next stream call, in the order of their numbers; a disposed adapter gets none.
NextStep(k) ==
  /\ ~disposed
  /\ failures <= MaxFailures
  /\ call[k].pc = "idle" /\ \A j \in 1..(k - 1) : call[j].pc # "idle"

\* A step is in flight for the session: a second request is refused.
MayRun(s) == s \notin inFlight

\* An ordinary step; its history is prepared before anything is opened.
Stream(k) ==
  /\ NextStep(k)
  /\ \E s \in Session :
       /\ MayRun(s)
       /\ Cardinality(inFlight) < MaxInFlight
       /\ \E messages \in Requests(s, k) :
            LET position == Checkpoint(messages, s)
            IN  /\ call' = [call EXCEPT ![k] =
                     [Idle EXCEPT !.pc = "spawning", !.session = s, !.messages = messages,
                                  !.checkpoint = IF position = 0 THEN None ELSE messages[position].by]]
                /\ history' = [history EXCEPT ![s] = messages]
                /\ rewritten' = IF \E n \in 0..Len(messages) : history[s] = SubSeq(messages, 1, n) THEN rewritten
                                ELSE [rewritten EXCEPT ![s] = history[s]]
                /\ inFlight' = inFlight \cup {s}
  /\ UNCHANGED <<replay, activeTurns, child, disposed, vendor, observed>>

\* A second request for a session with a step in flight throws at once.
StreamRefused(k) ==
  /\ NextStep(k)
  /\ \E s \in Session : ~MayRun(s)
  /\ call' = [call EXCEPT ![k] = Over(k)]
  /\ UNCHANGED <<dsh, replay, inFlight, activeTurns, child, disposed, vendor, observed>>

\* A session title or a compaction: a thread of its own, beside whatever runs; what it
\* is asked is one message here.
StreamAuxiliary(k) ==
  /\ NextStep(k)
  /\ Cardinality({j \in Step : call[j].auxiliary}) < MaxAuxiliary
  /\ \E s \in Session :
       call' = [call EXCEPT ![k] = [Idle EXCEPT !.pc = "spawning", !.session = s, !.auxiliary = TRUE,
                                                !.messages = <<New("user", k)>>]]
  /\ UNCHANGED <<dsh, replay, inFlight, activeTurns, child, disposed, vendor, observed>>

\* openConnection: the executable was resolved and the process is spawned; initialize,
\* config/read and skills/list are answered before anything else is asked of it.
Spawn(k) ==
  /\ call[k].pc = "spawning"
  /\ child' = [child EXCEPT ![k] = "live"]
  /\ Goto(k, IF call[k].checkpoint = None THEN "starting" ELSE "resuming")
  /\ UNCHANGED <<dsh, replay, inFlight, activeTurns, disposed, vendor, observed>>

\* The thread is ready: what it has not heard is injected, if there is any.
Established(k, t) ==
  call' = [call EXCEPT ![k].pc = IF Injected(k) = <<>> THEN "turning" ELSE "injecting", ![k].thread = t]

\* thread/resume was answered with the turns of the thread: its tip is the checkpoint,
\* or lies after it, or does not descend from it, or does so no longer: threads live on
\* in the user's account.
Resume(k) ==
  LET t == replay[call[k].checkpoint].thread
      tip == Max({0} \cup {i \in 1..Len(thread[t]) : thread[t][i].turn = call[k].checkpoint})
      after == TurnsAfter(thread[t], tip)
  IN  /\ call[k].pc = "resuming" /\ child[k] = "live"
      /\ \/ /\ tip # 0 /\ after = 0
            /\ Established(k, t)
         \/ /\ tip # 0 /\ after # 0
            /\ call' = [call EXCEPT ![k].pc = "rollingBack", ![k].thread = t, ![k].behind = after]
         \/ Goto(k, "forking")
      /\ UNCHANGED <<dsh, replay, inFlight, activeTurns, child, disposed, vendor, observed>>

\* thread/rollback drops the turns after the checkpoint.
Rollback(k) ==
  /\ call[k].pc = "rollingBack" /\ child[k] = "live"
  /\ \E kept \in RolledBack(thread[call[k].thread], call[k].behind) :
       thread' = [thread EXCEPT ![call[k].thread] = kept]
  /\ lost' = Forsaken(k, thread')
  /\ Established(k, call[k].thread)
  /\ UNCHANGED <<dsh, replay, inFlight, activeTurns, child, disposed, rollout, observed>>

\* thread/fork copies the thread up to a turn that is no longer on it.
ForkThread(k) ==
  /\ call[k].pc = "forking" /\ child[k] = "live"
  /\ thread' = [thread EXCEPT ![k] = rollout[call[k].checkpoint]]
  /\ lost' = [lost EXCEPT ![k] = lost[replay[call[k].checkpoint].thread]]
  /\ Established(k, k)
  /\ UNCHANGED <<dsh, replay, inFlight, activeTurns, child, disposed, rollout, observed>>

\* The vendor no longer has the thread or the turn, or a rollback failed, after it took
\* effect or not: the whole history goes to a new thread.
Rebuild(k) ==
  /\ call[k].pc \in {"resuming", "rollingBack", "forking"} /\ child[k] = "live"
  /\ call' = [call EXCEPT ![k].pc = "starting", ![k].checkpoint = None, ![k].thread = None]
  /\ \/ UNCHANGED <<thread, lost>>
     \/ /\ call[k].pc = "rollingBack"
        /\ \E kept \in RolledBack(thread[call[k].thread], call[k].behind) :
             thread' = [thread EXCEPT ![call[k].thread] = kept]
        /\ lost' = Forsaken(k, thread')
  /\ UNCHANGED <<dsh, replay, inFlight, activeTurns, child, disposed, rollout, observed>>

\* thread/start was answered.
StartThread(k) ==
  /\ call[k].pc = "starting" /\ child[k] = "live"
  /\ Established(k, k)
  /\ UNCHANGED <<dsh, replay, inFlight, activeTurns, child, disposed, vendor, observed>>

Inject(k) ==
  /\ call[k].pc = "injecting" /\ child[k] = "live"
  /\ thread' = WithItems(call[k].thread, None, Injected(k))
  /\ Goto(k, "turning")
  /\ UNCHANGED <<dsh, replay, inFlight, activeTurns, child, disposed, rollout, lost, observed>>

\* turn/start was answered: the turn is registered and its notifications are read.
StartTurn(k) ==
  /\ call[k].pc = "turning" /\ child[k] = "live"
  /\ thread' = WithItems(call[k].thread, k, Input(k))
  /\ activeTurns' = activeTurns \cup {k}
  /\ Goto(k, "streaming")
  /\ UNCHANGED <<dsh, replay, inFlight, child, disposed, rollout, lost, observed>>

\* What the request that a step waits for does to its thread.
Effects(k) ==
  {thread} \cup
    CASE call[k].pc = "rollingBack" ->
           {[thread EXCEPT ![call[k].thread] = kept] : kept \in RolledBack(thread[call[k].thread], call[k].behind)}
      [] call[k].pc = "injecting" -> {WithItems(call[k].thread, None, Injected(k))}
      [] call[k].pc = "turning" -> {WithItems(call[k].thread, k, Input(k))}
      [] OTHER -> {}

\* The step timed out, was cancelled, or a request failed otherwise, after it took
\* effect at the vendor or not: startTurn closes the connection and throws.
Fail(k) ==
  /\ call[k].pc \in Starting
  /\ \E threads \in Effects(k) :
       /\ thread' = Abandoned(k, threads)
       /\ lost' = Forsaken(k, threads)
  /\ child' = [child EXCEPT ![k] = IF @ = "live" THEN "closing" ELSE @]
  /\ Leave(k)
  /\ failures' = failures + 1
  /\ UNCHANGED <<dsh, replay, inFlight, activeTurns, disposed, rollout, late>>

-----------------------------------------------------------------------------
(* The turn, and the ways it is closed *)

\* finishCloseTurn, once per turn: it is deregistered and its process terminated.
Terminated(ks) == [j \in Step |-> IF j \in ks /\ child[j] = "live" THEN "closing" ELSE child[j]]

CloseTurns(ks) ==
  /\ activeTurns' = activeTurns \ ks
  /\ child' = Terminated(ks)

\* What the thread of a turn holds once the model has replied.
Replied(k, reply) ==
  LET t == call[k].thread
  IN  [thread[t] EXCEPT ![Len(thread[t])].items = Append(@, New(reply, k))]

\* turn/completed was read: the finish chunk carries the replay state, unless the step is
\* auxiliary, and DSH appends the reply.
Finish(k) ==
  LET step == call[k]
  IN  /\ step.pc = "streaming" /\ k \in activeTurns
      /\ \E reply \in {"call", "text"} :
           IF step.auxiliary
           THEN /\ thread' = Abandoned(k, thread)
                /\ UNCHANGED <<history, replay, rollout>>
           ELSE /\ thread' = [thread EXCEPT ![step.thread] = Replied(k, reply)]
                /\ rollout' = [rollout EXCEPT ![k] = Replied(k, reply)]
                /\ history' = [history EXCEPT ![step.session] = Append(@, New(reply, k))]
                /\ replay' = [replay EXCEPT ![k] = [thread |-> step.thread, session |-> step.session,
                                                    prefix |-> step.messages]]
      /\ Leave(k)
      /\ CloseTurns({k})
      /\ UNCHANGED <<rewritten, inFlight, disposed, lost, observed>>

\* The turn failed, was cancelled, or its events were closed under it, before or after
\* the model replied; DSH may keep what it was shown of the reply.
TurnFails(k) ==
  LET step == call[k]
  IN  /\ step.pc = "streaming"
      /\ \/ UNCHANGED history
         \/ /\ ~step.auxiliary
            /\ history' = [history EXCEPT ![step.session] = Append(@, New("partial", k))]
      /\ \E held \in {thread[step.thread], Replied(k, "text")} :
           LET threads == [thread EXCEPT ![step.thread] = held]
           IN  /\ thread' = Abandoned(k, threads)
               /\ lost' = Forsaken(k, threads)
      /\ Leave(k)
      /\ CloseTurns({k})
      /\ failures' = failures + 1
      /\ UNCHANGED <<rewritten, replay, inFlight, disposed, rollout, late>>

\* onAbort: a cancellation or the timeout closes a turn whatever its reader does.
Abort(k) ==
  /\ k \in activeTurns
  /\ CloseTurns({k})
  /\ UNCHANGED <<dsh, replay, call, inFlight, disposed, vendor, observed>>

\* turn/end of a session: the turn registered for it is closed.
CloseSession(s) ==
  /\ \E k \in activeTurns : call[k].session = s /\ ~call[k].auxiliary
  /\ CloseTurns({k \in activeTurns : call[k].session = s /\ ~call[k].auxiliary})
  /\ UNCHANGED <<dsh, replay, call, inFlight, disposed, vendor, observed>>

\* Mutant: the auxiliary turns are left to themselves.
DisposeSessions ==
  /\ ~disposed
  /\ disposed' = TRUE
  /\ CloseTurns({k \in activeTurns : ~call[k].auxiliary})
  /\ late' = {k \in Step : call[k].pc \in Starting}
  /\ UNCHANGED <<dsh, replay, call, inFlight, vendor, failures>>

\* dispose closes every registered turn; a step that is starting is none yet.
Dispose ==
  /\ ~disposed
  /\ disposed' = TRUE
  /\ CloseTurns(activeTurns)
  /\ late' = {k \in Step : call[k].pc \in Starting}
  /\ UNCHANGED <<dsh, replay, call, inFlight, vendor, failures>>

\* A terminated process exits; a live one may die by itself.
Exit(k) ==
  /\ child[k] = "closing"
  /\ child' = [child EXCEPT ![k] = "none"]
  /\ UNCHANGED <<dsh, replay, call, inFlight, activeTurns, disposed, vendor, observed>>
Die(k) ==
  /\ child[k] = "live"
  /\ child' = [child EXCEPT ![k] = "none"]
  /\ UNCHANGED <<dsh, replay, call, inFlight, activeTurns, disposed, vendor, observed>>

\* Mutant: the guard is given back when the turn is over, before its process is.
ReturnEarly(k) ==
  /\ call[k].pc = "closing"
  /\ call' = [call EXCEPT ![k] = Over(k)]
  /\ inFlight' = IF call[k].auxiliary THEN inFlight ELSE inFlight \ {call[k].session}
  /\ UNCHANGED <<dsh, replay, activeTurns, child, disposed, vendor, observed>>

\* The process has exited: stream returns or throws, and gives its guard back.
Return(k) ==
  /\ call[k].pc = "closing"
  /\ child[k] = "none"
  /\ call' = [call EXCEPT ![k] = Over(k)]
  /\ inFlight' = IF call[k].auxiliary THEN inFlight ELSE inFlight \ {call[k].session}
  /\ late' = late \ {k}
  /\ UNCHANGED <<dsh, replay, activeTurns, child, disposed, vendor, failures>>

Advance(k) ==
  \/ Stream(k) \/ StreamRefused(k) \/ StreamAuxiliary(k)
  \/ Spawn(k) \/ Resume(k) \/ Rollback(k) \/ ForkThread(k) \/ Rebuild(k)
  \/ StartThread(k) \/ Inject(k) \/ StartTurn(k) \/ Fail(k)
  \/ Finish(k) \/ TurnFails(k) \/ Abort(k) \/ Exit(k) \/ Die(k) \/ Return(k)

Next ==
  \/ \E k \in Step : Advance(k)
  \/ \E s \in Session : Fork(s) \/ CloseSession(s)
  \/ Dispose

Spec == Init /\ [][Next]_vars

-----------------------------------------------------------------------------
(* Properties *)

TypeOK ==
  /\ history \in [Session -> Seq(Message)]
  /\ rewritten \in [Session -> Seq(Message)]
  /\ replay \in [Step -> ReplayState \cup {None}]
  /\ call \in [Step -> CallState]
  /\ inFlight \subseteq Session
  /\ activeTurns \subseteq Step
  /\ child \in [Step -> {"none", "live", "closing"}]
  /\ disposed \in BOOLEAN
  /\ thread \in [Step -> Seq(Entry)]
  /\ rollout \in [Step -> Seq(Entry)]
  /\ lost \in [Step -> SUBSET Message]
  /\ late \subseteq Step
  /\ failures \in Nat

\* Two App Server processes never work on one vendor thread, even while the first is
\* being terminated: a rollback of one would drop the turn of the other.  The guard of
\* stream has to outlive the process, across cancellations and turn ends that close a
\* turn under its reader.
OneWriter ==
  \A j, k \in Step :
    (j # k /\ child[j] \in {"live", "closing"} /\ child[k] \in {"live", "closing"})
      => ThreadOf(j) # ThreadOf(k)
Consistent == TypeOK /\ OneWriter

\* Where a thread last heard a message.
LastHeard(heard, m) == Max({0} \cup {i \in 1..Len(heard) : heard[i] = m})

\* When a turn runs, its thread has heard every message of DSH's history in DSH's order,
\* and nothing else but what a failed step gave it; a tool result comes right after the
\* call it answers.  Rewinds, edits, summaries and copies of a session, threads that ran
\* ahead, and requests that failed after they took effect must not break this.
HeardHistory ==
  \A k \in Step : call[k].pc = "streaming" =>
    LET heard == Heard(thread[call[k].thread])
        asked == call[k].messages
    IN  /\ \A i \in 1..Len(asked) :
             /\ LastHeard(heard, asked[i]) > 0
             /\ i > 1 => LastHeard(heard, asked[i - 1]) < LastHeard(heard, asked[i])
        /\ Range(heard) \subseteq Range(asked) \cup lost[call[k].thread]
        /\ \A i \in 1..Len(heard) : heard[i].kind \in ToolResult => 
             i > 1 /\ heard[i - 1].kind = "call" /\ heard[i - 1].by = heard[i].of

\* dispose leaves no turn's process running, auxiliary ones included; only a step that
\* was still starting is missed.
DisposeClosesAll ==
  disposed => \A k \in Step : child[k] = "live" => k \in late
=============================================================================
