---------------------------- MODULE ModelCatalog ----------------------------
(***************************************************************************)
(* The list of models of a primary adapter: cached for a while, otherwise  *)
(* read from the vendor's CLI by one load that every caller joins.  Codex  *)
(* gives the load a signal of its own and lets each caller leave it        *)
(* (adapter.ts); antigravity and grok run it under the signal of the       *)
(* caller that began it (antigravity-primary.ts, grok-primary.ts,          *)
(* model-catalog.ts).                                                      *)
(*                                                                         *)
(* Abstracted: a list is the version of the vendor's list it was read      *)
(* from; time passes by the cache running out at any moment.               *)
(***************************************************************************)
EXTENDS Naturals, FiniteSets, Functions

CONSTANTS
  Caller,
  MaxLoads,
  MaxVersions,
  None

VARIABLES
  provider,
  version,     \* of the vendor's list
  caller,      \* what each caller of models() does or was told
  aborted,     \* callers whose signal is aborted
  load,        \* pendingModels
  child,       \* the load's process
  cached,      \* cachedModels, None when it has run out
  loads

catalogVars == <<provider, version, caller, aborted, load, child, cached, loads>>

\* pendingModels as it begins; the owner's signal is the load's, but for codex.
Begun(owner) == [owner |-> owner, attempt |-> 1, outcome |-> None]

\* What a caller is told, and the caller whose abort had ended its load by then.
Told(kind, by, models) == [is |-> kind, by |-> by, models |-> models]
Idle == Told("idle", None, None)
Waiting == Told("waiting", None, None)
Failed(kind) == [is |-> kind, models |-> None]
Listed(models) == [is |-> "models", models |-> models]

\* A plausible slip: codex too loads under the signal of the first caller.
LoadFollowsOwner(l, stopped) == l.owner \in stopped

LoadAborted(l, stopped) == provider # "codex" /\ l.owner \in stopped

-----------------------------------------------------------------------------
(* Callers *)

\* models(): the cache, the load under way, or a load of one's own.
Ask(c) ==
  /\ caller[c].is # "waiting"
  /\ UNCHANGED <<provider, version, aborted, cached>>
  /\ \/ /\ cached # None
        /\ caller' = [caller EXCEPT ![c] = Told("models", None, cached)]
        /\ UNCHANGED <<load, child, loads>>
     \/ /\ cached = None /\ provider = "codex" /\ c \in aborted
        /\ caller' = [caller EXCEPT ![c] = Told("aborted", c, None)]
        /\ UNCHANGED <<load, child, loads>>
     \/ /\ cached = None /\ (provider = "codex" => c \notin aborted) /\ load # None
        /\ caller' = [caller EXCEPT ![c] = Waiting]
        /\ UNCHANGED <<load, child, loads>>
     \/ /\ cached = None /\ (provider = "codex" => c \notin aborted) /\ load = None
        /\ loads < MaxLoads
        /\ loads' = loads + 1
        /\ caller' = [caller EXCEPT ![c] = Waiting]
        /\ load' = Begun(c)
        /\ UNCHANGED child

\* A caller of codex leaves at once (waitForPromise), the load goes on.
Abort(c) ==
  /\ c \notin aborted
  /\ aborted' = aborted \cup {c}
  /\ caller' = IF provider = "codex" /\ caller[c].is = "waiting"
               THEN [caller EXCEPT ![c] = Told("aborted", c, None)] ELSE caller
  /\ UNCHANGED <<provider, version, load, child, cached, loads>>

\* The next call comes with a signal of its own.
Again(c) ==
  /\ c \in aborted
  /\ caller[c].is # "waiting"
  /\ load # None => load.owner # c
  /\ aborted' = aborted \ {c}
  /\ caller' = [caller EXCEPT ![c] = Idle]
  /\ UNCHANGED <<provider, version, load, child, cached, loads>>

-----------------------------------------------------------------------------
(* The load *)

Spawn ==
  /\ load # None
  /\ load.outcome = None
  /\ child = None
  /\ ~LoadAborted(load, aborted)
  /\ child' = "running"
  /\ UNCHANGED <<provider, version, caller, aborted, load, cached, loads>>

Outcome(o) ==
  /\ load' = [load EXCEPT !.outcome = o]
  /\ UNCHANGED <<provider, version, caller, aborted, cached, loads>>

\* The executable is not found, or the signal is aborted before there is a process.
NotSpawned ==
  /\ load # None
  /\ load.outcome = None
  /\ child = None
  /\ \/ ~LoadAborted(load, aborted) /\ Outcome(Failed("failed"))
     \/ LoadAborted(load, aborted) /\ Outcome(Failed("aborted"))
  /\ UNCHANGED child

\* The vendor lists its models.
Lists ==
  /\ child = "running"
  /\ load.outcome = None
  /\ Outcome(Listed(version))
  /\ UNCHANGED child

\* It refuses, ends, answers what cannot be read, or the load's time is over.
Fails ==
  /\ child = "running"
  /\ load.outcome = None
  /\ Outcome(Failed("failed"))
  /\ UNCHANGED child

\* Antigravity asks once more in plain text when the first process gave no list of models.
FallsBack ==
  /\ provider = "antigravity"
  /\ child = "running"
  /\ load.outcome = None
  /\ load.attempt = 1
  /\ ~LoadAborted(load, aborted)
  /\ child' = None
  /\ load' = [load EXCEPT !.attempt = 2]
  /\ UNCHANGED <<provider, version, caller, aborted, cached, loads>>

\* The aborted signal ends the process; grok takes that for a process that ended by itself.
Cut ==
  /\ child = "running"
  /\ LoadAborted(load, aborted)
  /\ load.outcome = None
  /\ Outcome(Failed(IF provider = "grok" THEN "failed" ELSE "aborted"))
  /\ UNCHANGED child

\* connection.close, disposeVendorChild, child.done: the process ends before the load does;
\* antigravity then looks at the signal.
Exits ==
  /\ child = "running"
  /\ load.outcome # None
  /\ child' = None
  /\ load' = IF provider = "antigravity" /\ LoadAborted(load, aborted)
             THEN [load EXCEPT !.outcome = Failed("aborted")] ELSE load
  /\ UNCHANGED <<provider, version, caller, aborted, cached, loads>>

\* The load's promise settles: the cache is set and everyone who joined is told.
Settles ==
  /\ load # None
  /\ load.outcome # None
  /\ child = None
  /\ cached' = IF load.outcome.is = "models" THEN load.outcome.models ELSE cached
  /\ caller' = [c \in Caller |->
                  IF caller[c].is = "waiting"
                  THEN Told(load.outcome.is, IF load.owner \in aborted THEN load.owner ELSE None,
                            load.outcome.models)
                  ELSE caller[c]]
  /\ load' = None
  /\ UNCHANGED <<provider, version, aborted, child, loads>>

\* The cache runs out; with a cache time of zero at once.
Expire ==
  /\ cached # None
  /\ cached' = None
  /\ UNCHANGED <<provider, version, caller, aborted, load, child, loads>>

\* The vendor changes its list.
Changes ==
  /\ version < MaxVersions
  /\ version' = version + 1
  /\ UNCHANGED <<provider, caller, aborted, load, child, cached, loads>>

Init ==
  /\ provider \in {"codex", "antigravity", "grok"}
  /\ version = 1
  /\ caller = [c \in Caller |-> Idle]
  /\ aborted = {}
  /\ load = None
  /\ child = None
  /\ cached = None
  /\ loads = 0

Next ==
  \/ \E c \in Caller : Ask(c) \/ Abort(c) \/ Again(c)
  \/ Spawn \/ NotSpawned \/ Lists \/ Fails \/ FallsBack \/ Cut \/ Exits \/ Settles
  \/ Expire \/ Changes

Spec == Init /\ [][Next]_catalogVars

-----------------------------------------------------------------------------
(* Properties *)

\* A caller is told of an abort only where there was one: its own at codex, at the others that
\* of the caller whose load it joined; and at codex none waits behind its own abort.
OwnAbort ==
  \A c \in Caller :
    /\ caller[c].is = "aborted" => caller[c].by # None /\ (provider = "codex" => caller[c].by = c)
    /\ provider = "codex" /\ c \in aborted => caller[c].is # "waiting"

\* There is one load at a time: whoever waits waits for it, its process is the only one and
\* has ended when it has; and no list to be given out is older than one that was.
OneLoad ==
  /\ child # None => load # None
  /\ \A c \in Caller :
       /\ caller[c].is = "waiting" => load # None
       /\ caller[c].is = "models" =>
            /\ cached # None => cached >= caller[c].models
            /\ load # None /\ load.outcome # None /\ load.outcome.is = "models" =>
                 load.outcome.models >= caller[c].models

CatalogAnswers == OwnAbort /\ OneLoad
=============================================================================
