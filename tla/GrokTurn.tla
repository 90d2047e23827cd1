------------------------------ MODULE GrokTurn ------------------------------
(***************************************************************************)
(* The Grok route (grok-primary.ts): each step of a DSH session is a       *)
(* process of its own, which opens a vendor session with the whole request *)
(* or resumes one with what DSH has appended.  The vendor keeps the        *)
(* conversation; the adapter keeps, per DSH session, which vendor session  *)
(* it is and what that was told.                                           *)
(*                                                                         *)
(* Abstracted: a message is its digest; sessions, messages and replies are *)
(* numbered by the step that made them; schema, argv, call ids, usage and  *)
(* the model catalogue are left out.                                       *)
(***************************************************************************)
EXTENDS HeardMessages

CONSTANTS
  Key,           \* DSH sessions (sessionKey)
  Call,          \* concurrent stream calls
  Signature,     \* requestSignature: model, effort, system, tools
  Kind,          \* what DSH appends: text, image
  MaxSteps,      \* bound: stream calls
  None           \* no session key, session or conversation

ASSUME BoundAssumption == MaxSteps \in Nat
ASSUME KindAssumption == Kind \subseteq {"text", "image"}
Step == 1..MaxSteps
Message == [kind : {"text", "image", "own"}, id : Step]

\* A conversation of the vendor: the one a step asked it to open, or another one
\* that it reports to have answered in.
Conversation == [asked : BOOLEAN, by : Step]

ASSUME SentinelAssumption ==
  /\ None \notin Key \cup Nat \cup Conversation
  /\ Signature # {}

VARIABLES
  history,    \* DSH's messages of each session
  sessions,   \* the VendorSession of each DSH session
  session,    \* the VendorSessions, by the step that made them
  heard,      \* the messages of DSH that each conversation of the vendor holds
  disposed,
  call,       \* the step each caller is in
  steps       \* how many there have been

vars == <<history, sessions, session, heard, disposed, call, steps>>

VendorSession ==
  [id : Conversation, signature : Signature, delivered : Seq(Message),
   clean : BOOLEAN]         \* history: no turn of it threw and no two overlapped

StepState ==
  [pc : {"idle", "writing", "running"},
   key : Key \cup {None},
   auxiliary : BOOLEAN,
   request : Seq(Message),
   session : Step \cup {None},
   full : BOOLEAN,                \* fullPromptBlocks, or deltaPromptBlocks
   news : Seq(Message),
   resume : BOOLEAN,
   id : Conversation \cup {None},
   signature : Signature,
   number : Nat]

TypeOK ==
  /\ history \in [Key -> Seq(Message)]
  /\ sessions \in [Key -> Step \cup {None}]
  /\ session \in [Step -> VendorSession]
  /\ heard \in [Conversation -> Seq(Message)]
  /\ disposed \in BOOLEAN
  /\ call \in [Call -> StepState]
  /\ steps \in 0..MaxSteps
  /\ \A k \in Key : sessions[k] # None => sessions[k] <= steps

AnySignature == CHOOSE s \in Signature : TRUE
Fresh(n, signature) ==
  [id |-> [asked |-> TRUE, by |-> n], signature |-> signature, delivered |-> <<>>, clean |-> TRUE]
Idle ==
  [pc |-> "idle", key |-> None, auxiliary |-> FALSE, request |-> <<>>, session |-> None, full |-> TRUE, news |-> <<>>,
   resume |-> FALSE, id |-> None, signature |-> AnySignature, number |-> 0]

Init ==
  /\ history = [k \in Key |-> <<>>]
  /\ sessions = [k \in Key |-> None]
  /\ session = [n \in Step |-> Fresh(n, AnySignature)]
  /\ heard = [v \in Conversation |-> <<>>]
  /\ disposed = FALSE
  /\ call = [c \in Call |-> Idle]
  /\ steps = 0

-----------------------------------------------------------------------------
(* prepareTurn *)

Serializable(messages) == \A i \in 1..Len(messages) : messages[i].kind # "image"

\* Mutant: only the number of messages is compared.
ExtendsInLength(n, messages) == Len(session[n].delivered) <= Len(messages)

\* The request starts with exactly what the session was told.
ExtendsDelivered(n, messages) ==
  /\ Len(session[n].delivered) <= Len(messages)
  /\ \A i \in 1..Len(session[n].delivered) : messages[i] = session[n].delivered[i]

Continues(n, signature, messages) ==
  session[n].signature = signature /\ ExtendsDelivered(n, messages)

InUse(n) == \E c \in Call : call[c].session = n

\* The step goes on to runTurn, which decides at once whether it resumes.  A prompt
\* that cannot be serialized throws first.
Prepared(c, step) ==
  call' = [call EXCEPT ![c] = IF Serializable(step.news) THEN step ELSE Idle]

ContinueSession(c, step, n) ==
  LET known == session[n].delivered
      news == Unheard(SubSeq(step.request, Len(known) + 1, Len(step.request)))
  IN  /\ Prepared(c, [step EXCEPT !.session = n, !.full = FALSE, !.news = news, !.resume = known # <<>>])
      /\ session' = IF InUse(n) THEN [session EXCEPT ![n].clean = FALSE] ELSE session
      /\ UNCHANGED sessions

\* The new session is mapped before its prompt is serialized.
OpenSession(c, step) ==
  LET n == step.number IN
  /\ Prepared(c, [step EXCEPT !.session = n, !.full = TRUE, !.news = step.request])
  /\ session' = [session EXCEPT ![n] = Fresh(n, step.signature)]
  /\ sessions' = [sessions EXCEPT ![step.key] = n]

PrepareTurn(c, step) ==
  LET n == sessions[step.key] IN
  IF n # None /\ Continues(n, step.signature, step.request)
  THEN ContinueSession(c, step, n)
  ELSE OpenSession(c, step)

\* DSH asks for a step.  Its history is what it was, has grown, lost its last
\* message, was compacted into one, or had its first pruned.
Grown(messages, kind) == Append(messages, [kind |-> kind, id |-> steps + 1])
Requests(messages) ==
  LET summary == [kind |-> "text", id |-> steps + 1]
      kept == SubSeq(messages, 1, Len(messages) - 1)
  IN  {Grown(messages, kind) : kind \in Kind}
        \cup IF messages = <<>> THEN {}
             ELSE {messages, Grown(kept, "text"), <<summary>>, [messages EXCEPT ![1] = summary]}

Stream(c, k, request, signature) ==
  /\ call[c].pc = "idle"
  /\ steps < MaxSteps
  /\ PrepareTurn(c, [Idle EXCEPT !.pc = "writing", !.key = k, !.request = request,
                                 !.signature = signature, !.number = steps + 1])
  /\ history' = [history EXCEPT ![k] = request]
  /\ steps' = steps + 1
  /\ UNCHANGED <<heard, disposed>>

\* An auxiliary call (a compaction, a title), or one without a session key, brings a
\* session of its own that is never mapped.  What it tells it does not matter here.
StreamAuxiliary(c, k) ==
  LET n == steps + 1 IN
  /\ call[c].pc = "idle"
  /\ n <= MaxSteps
  /\ call' = [call EXCEPT ![c] = [Idle EXCEPT !.pc = "writing", !.key = k, !.auxiliary = TRUE,
                                           !.session = n, !.number = n]]
  /\ session' = [session EXCEPT ![n] = Fresh(n, AnySignature)]
  /\ steps' = n
  /\ UNCHANGED <<history, sessions, heard, disposed>>

-----------------------------------------------------------------------------
(* runTurn *)

\* The prompt is written; the argv names the conversation the session now has.
PromptWritten(c) ==
  /\ call[c].pc = "writing"
  /\ call' = [call EXCEPT ![c].pc = "running", ![c].id = session[call[c].session].id]
  /\ UNCHANGED <<history, sessions, session, heard, disposed, steps>>

Told(c, v) == [heard EXCEPT ![v] = heard[call[c].id] \o call[c].news]

\* Writing or spawning fails, the turn times out or is aborted, its child is
\* terminated, or its output is no envelope.  The vendor may have kept the prompt.
TurnThrows(c) ==
  /\ call[c].pc # "idle"
  /\ heard' \in {heard} \cup IF call[c].pc = "running" THEN {Told(c, call[c].id)} ELSE {}
  /\ session' = [session EXCEPT ![call[c].session].clean = FALSE]
  /\ call' = [call EXCEPT ![c] = Idle]
  /\ UNCHANGED <<history, sessions, disposed, steps>>

\* Mutant: whatever session is mapped now is dropped.
ForgetMapped(c) ==
  LET k == call[c].key IN
  sessions' = IF k # None THEN [sessions EXCEPT ![k] = None] ELSE sessions

\* forget: the session of the step is dropped if it is still the mapped one.
Forget(c) ==
  LET k == call[c].key IN
  sessions' = IF k # None /\ sessions[k] = call[c].session
              THEN [sessions EXCEPT ![k] = None] ELSE sessions

\* The turn ended without success, or its decision cannot be read or executed.
TurnRejected(c) ==
  /\ call[c].pc = "running"
  /\ heard' = Told(c, call[c].id)
  /\ Forget(c)
  /\ call' = [call EXCEPT ![c] = Idle]
  /\ UNCHANGED <<history, session, disposed, steps>>

Delivering(c, v) ==
  [session EXCEPT ![call[c].session].delivered = call[c].request, ![call[c].session].id = v]

\* commit: the whole request has been delivered, to the conversation reported if
\* the vendor reports one.
Commit(c, reported) ==
  session' = IF call[c].auxiliary THEN session
             ELSE Delivering(c, IF reported # None THEN reported ELSE session[call[c].session].id)

\* The turn succeeded, in the conversation asked for or in another one that the
\* vendor reports.  DSH appends the reply unless its history has changed.
TurnSucceeds(c) ==
  LET k == call[c].key
      n == call[c].number
  IN  /\ call[c].pc = "running"
      /\ \E reported \in {None, call[c].id, [asked |-> FALSE, by |-> n]} :
           /\ Commit(c, reported)
           /\ heard' = Told(c, IF reported = None THEN call[c].id ELSE reported)
      /\ history' = IF ~call[c].auxiliary /\ history[k] = call[c].request
                    THEN [history EXCEPT ![k] = Append(@, [kind |-> "own", id |-> n])] ELSE history
      /\ call' = [call EXCEPT ![c] = Idle]
      /\ UNCHANGED <<sessions, disposed, steps>>

\* dispose forgets every session and terminates the children, whose turns throw.
Dispose ==
  /\ ~disposed
  /\ disposed' = TRUE
  /\ sessions' = [k \in Key |-> None]
  /\ UNCHANGED <<history, session, heard, call, steps>>

-----------------------------------------------------------------------------

Next ==
  \/ \E c \in Call :
       \/ \E k \in Key :
            \/ \E request \in Requests(history[k]) : Stream(c, k, request, AnySignature)
            \/ \E signature \in Signature : Stream(c, k, Grown(history[k], "text"), signature)
       \/ \E k \in Key \cup {None} : StreamAuxiliary(c, k)
       \/ PromptWritten(c) \/ TurnThrows(c) \/ TurnRejected(c) \/ TurnSucceeds(c)
  \/ Dispose

Spec == Init /\ [][Next]_vars

-----------------------------------------------------------------------------
(* Properties *)

\* A turn runs in a conversation that holds, with its prompt, exactly the messages
\* of the request, and that was opened for the same model, effort, system and
\* tools, however DSH's history was rewritten and turns failed before
\* (prepareTurn, commit, forget).  Excepted are sessions of which a turn has thrown
\* or two have overlapped; see OpenedInFull for the former.
HeardHistory ==
  TypeOK /\ \A c \in Call :
    call[c].pc = "running" /\ session[call[c].session].clean =>
      /\ Unheard(heard[call[c].id] \o call[c].news) = Unheard(call[c].request)
      /\ session[call[c].session].signature = call[c].signature

\* A conversation is dropped only by a step of its own that failed, by a request of
\* its DSH session that it cannot serve, or by dispose: never by the late failure
\* of a step on the session before it, or of an auxiliary call (forget).
ForgetsOnlyItsOwn ==
  [][\A k \in Key :
       sessions[k] # None /\ sessions'[k] # sessions[k] =>
         \/ disposed' # disposed
         \/ sessions'[k] = steps'
         \/ \E c \in Call : call[c].session = sessions[k] /\ call'[c] = Idle]_vars

\* The prompt that opens a vendor session is the whole request
\* (prompt-envelope.ts:132): a delta goes to one that is resumed.
OpenedInFull == \A c \in Call : call[c].pc = "running" => call[c].full \/ call[c].resume
=============================================================================
