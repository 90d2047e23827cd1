---------------------------- MODULE UsageSources ----------------------------
(***************************************************************************)
(* The usage sources of the four providers: each reading is one vendor     *)
(* process.  Grok's and Antigravity's join a reading under way and leave a *)
(* floor between two processes (usage-billing.ts, usage-command.ts);       *)
(* Codex's and Claude's start one for every read (usage-source.ts).  The   *)
(* collector turns the end of a read into a status (vendor-collector.ts).  *)
(*                                                                         *)
(* Abstracted: what a reading says (UsageReadings): it is the process that *)
(* took it.  Vendors and the subprocess service are external.              *)
(***************************************************************************)
EXTENDS Naturals, Sequences, FiniteSetsExt

CONSTANTS
  Caller,       \* calls of collect that may be open at once
  Floor,        \* minIntervalMs: between the starts of two processes of a shared source
  MaxTime,      \* bound: the wall clock
  MaxProcesses, \* bound: processes ever started
  MaxCalls,     \* bound: calls ever made
  None

Source == {"grok", "antigravity", "codex", "claude"}

VARIABLES
  source,       \* the provider
  now,          \* the wall clock, which may be set back
  caller,       \* the open calls
  process,      \* the processes started so far, in order
  inFlight,     \* shared source: the process a new read joins
  lastAttempt,  \* shared source: when the last process was started
  last,         \* shared source: the last good reading
  calls,        \* history: how many calls were made
  answered,     \* history: the answers given last, together
  newest        \* history: the newest reading served before them

history == <<calls, answered, newest>>
sourceVars == <<source, now, caller, process, inFlight, lastAttempt, last, history>>

Shared == source \in {"grok", "antigravity"}

Init ==
  /\ source \in Source
  /\ now = 0
  /\ caller = [c \in Caller |-> None]
  /\ process = <<>>
  /\ inFlight = None
  /\ lastAttempt = None
  /\ last = None
  /\ calls = 0
  /\ answered = {}
  /\ newest = 0

-----------------------------------------------------------------------------
(* Time: only the shared sources read the clock *)

Clock(t) == Shared /\ now' = t /\ UNCHANGED <<source, caller, process, inFlight, lastAttempt, last, history>>
Pass == now < MaxTime /\ Clock(now + 1)
SetBack == now > 0 /\ Clock(now - 1)

-----------------------------------------------------------------------------
(* read and collect *)

Waiting(p) == {c \in Caller : caller[c] # None /\ caller[c].on = p}
Call(c) == caller[c] = None /\ calls < MaxCalls /\ calls' = calls + 1

\* What collect makes of a reading, or of the error that takes its place.
Answer(on, reading, error) ==
  [on |-> on, reading |-> reading, status |-> IF reading # None THEN "AVAILABLE" ELSE error]
Give(answers) ==
  /\ answered' = answers
  /\ newest' = Max({newest} \cup ({a.reading : a \in answered} \ {None}))

StartProcess(c) ==
  /\ Len(process) < MaxProcesses
  /\ process' = Append(process, [started |-> now, by |-> c,
                  stage |-> IF Shared THEN "opening" ELSE "resolving",
                  child |-> "none", error |-> None, good |-> FALSE])
  /\ caller' = [caller EXCEPT ![c] = [on |-> Len(process) + 1]]
  /\ UNCHANGED <<source, now, last, answered, newest>>

\* A clock that was set back does not keep the source waiting.
WithinFloor == lastAttempt # None /\ now >= lastAttempt /\ now < lastAttempt + Floor

\* Mutant: every read starts a process of its own.
JoinsNothing == FALSE
Joins == inFlight # None

\* observe: join the process under way, or serve the last reading, or start a process.
CollectShared(c) ==
  /\ Shared /\ Call(c)
  /\ CASE Joins ->
            /\ caller' = [caller EXCEPT ![c] = [on |-> inFlight]]
            /\ UNCHANGED <<source, now, process, inFlight, lastAttempt, last, answered, newest>>
       [] ~Joins /\ WithinFloor ->
            /\ Give({Answer(None, last, "UNAVAILABLE")})
            /\ UNCHANGED <<source, now, caller, process, inFlight, lastAttempt, last>>
       [] OTHER ->
            /\ lastAttempt' = now
            /\ inFlight' = Len(process) + 1
            /\ StartProcess(c)

CollectOwn(c) ==
  /\ ~Shared /\ Call(c)
  /\ StartProcess(c)
  /\ UNCHANGED <<inFlight, lastAttempt>>

-----------------------------------------------------------------------------
(* One process *)

At(p, stage) == process[p].stage = stage
Update(p, new) ==
  /\ process' = [process EXCEPT ![p] = new]
  /\ UNCHANGED <<source, now, caller, inFlight, lastAttempt, last, history>>

\* The temporary directory; it is removed when the process is over, and a failure of
\* that goes unnoticed.
Open(p) ==
  /\ At(p, "opening")
  /\ Update(p, [process[p] EXCEPT !.stage = "resolving"]) \/ Update(p, [process[p] EXCEPT !.stage = "over", !.error = "UNAVAILABLE"])

Ends(p, error) == Update(p, [process[p] EXCEPT !.stage = "over", !.error = error])
Asks(p) == Update(p, [process[p] EXCEPT !.stage = "asking", !.child = "alive"])
Answers(p, error) == Update(p, [process[p] EXCEPT !.stage = "closing", !.good = (error = None), !.error = error])
Closes(p) == Update(p, [process[p] EXCEPT !.stage = "over", !.child = "gone"])

\* The command is resolved and spawned.  Codex tells its own deadline, and a spawn that
\* gives no process, from a command that is not there.
SpawnShared(p) == Shared /\ At(p, "resolving") /\ (Asks(p) \/ Ends(p, "UNAVAILABLE"))
SpawnCodex(p) == source = "codex" /\ At(p, "resolving") /\ (Asks(p) \/ Ends(p, "UNAVAILABLE") \/ Ends(p, "ERROR"))
SpawnClaude(p) == source = "claude" /\ At(p, "resolving") /\ (Asks(p) \/ Ends(p, "ERROR"))

\* What the vendor may come to: an answer, a request to log in (which only Codex tells),
\* a failure, an exit or the deadline, whichever is first.
AskShared(p) ==
  Shared /\ At(p, "asking") /\ \E error \in {None, "UNAVAILABLE"} : Answers(p, error)
AskCodex(p) ==
  source = "codex" /\ At(p, "asking") /\ \E error \in {None, "UNAVAILABLE", "LOGIN_REQUIRED", "ERROR"} : Answers(p, error)
AskClaude(p) ==
  source = "claude" /\ At(p, "asking") /\ \E error \in {None, "ERROR"} : Answers(p, error)

\* The child is ended and its exit awaited.  A failure of that goes unnoticed in the
\* shared sources, and is an error of the others whatever the vendor answered.
CloseFails(p) ==
  Update(p, [process[p] EXCEPT !.stage = "over", !.child = "terminated", !.good = FALSE, !.error = "ERROR"])
CloseShared(p) ==
  /\ Shared /\ At(p, "closing")
  /\ Closes(p) \/ Update(p, [process[p] EXCEPT !.stage = "over", !.child = "terminated"])
CloseCodex(p) == source = "codex" /\ At(p, "closing") /\ (Closes(p) \/ CloseFails(p))
CloseClaude(p) == source = "claude" /\ At(p, "closing") /\ (Closes(p) \/ CloseFails(p))

\* The readers are answered: the one that started the process of a shared source falls
\* back on the last good reading, those that joined it do not.
Reading(p) == IF process[p].good THEN p ELSE None

\* Mutant: a reading is kept only if there is none yet.
KeepFirst(p) == IF last = None THEN Reading(p) ELSE last
Keep(p) == IF process[p].good THEN p ELSE last

Served(p, c) ==
  IF Shared
  THEN Answer(p, IF c = process[p].by THEN Keep(p) ELSE Reading(p), "UNAVAILABLE")
  ELSE Answer(p, Reading(p), process[p].error)

Settle(p) ==
  /\ At(p, "over")
  /\ process' = [process EXCEPT ![p].stage = "settled"]
  /\ IF Shared THEN inFlight' = None /\ last' = Keep(p) ELSE UNCHANGED <<inFlight, last>>
  /\ caller' = [c \in Caller |-> IF c \in Waiting(p) THEN None ELSE caller[c]]
  /\ Give({Served(p, c) : c \in Waiting(p)})
  /\ UNCHANGED <<source, now, lastAttempt, calls>>

Next ==
  \/ Pass \/ SetBack
  \/ \E c \in Caller : CollectShared(c) \/ CollectOwn(c)
  \/ \E p \in DOMAIN process :
       \/ Open(p) \/ SpawnShared(p) \/ AskShared(p) \/ CloseShared(p)
       \/ SpawnCodex(p) \/ AskCodex(p) \/ CloseCodex(p)
       \/ SpawnClaude(p) \/ AskClaude(p) \/ CloseClaude(p)
       \/ Settle(p)

Spec == Init /\ [][Next]_sourceVars

-----------------------------------------------------------------------------
(* Properties *)

\* A refresh loop never becomes a spawn loop, nor leaves anything behind: a shared source
\* has one process at a time and starts the next a floor after it by the clock, however
\* the clock was set; and when a read is answered its child was ended, and is gone unless
\* the failure to end it is what the read reported.
Bounded ==
  /\ Shared => \A p, q \in DOMAIN process : p < q =>
       /\ process[p].stage = "settled"
       /\ q = p + 1 => \/ process[q].started >= process[p].started + Floor
                       \/ process[q].started < process[p].started
  /\ \A p \in DOMAIN process : process[p].stage = "settled" =>
       /\ process[p].child # "alive"
       /\ Waiting(p) = {}
       /\ ~Shared /\ process[p].child = "terminated" => process[p].error = "ERROR"

\* What is served is a reading the vendor gave, never older than one served before; a
\* read that started or joined a process which gave one is served that; and a login is
\* asked for only by a vendor that asked for it.
Newest ==
  \A a \in answered :
    /\ a.status = "AVAILABLE" <=> a.reading # None
    /\ a.reading # None => process[a.reading].good
    /\ a.reading # None /\ Shared => a.reading >= newest
    /\ a.on # None /\ process[a.on].good => a.reading = a.on
    /\ a.status = "LOGIN_REQUIRED" => source = "codex" /\ process[a.on].error = "LOGIN_REQUIRED"
=============================================================================
