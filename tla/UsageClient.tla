---------------------------- MODULE UsageClient ----------------------------
(***************************************************************************)
(* UsageLimitsClientController of packages/core (client/controller.ts):    *)
(* the browser's roster and usage rows, kept from answers of the host that *)
(* may arrive in any order, fail, or arrive after the plugin is unloaded.  *)
(*                                                                         *)
(* A step is what runs between two awaits.  The host answers with any      *)
(* roster and any usage: providers mount, unmount, reload and invalidate at*)
(* any time.  A roster is a set; loops over it take its rows in any order, *)
(* as the host may list them in any.                                       *)
(***************************************************************************)
EXTENDS Naturals

CONSTANTS
  Provider,    \* provider ids the host may list
  Caller,      \* concurrent calls of the controller
  Menu,        \* operations the plugin calls
  MaxCalls,    \* bound: calls
  None         \* no row, no usage, no refresh in flight

Operation == {"initialize", "refreshAll", "refreshProvider", "ensureAllFresh"}

ASSUME MenuAssumption == Menu \subseteq Operation
ASSUME BoundsAssumption == MaxCalls \in Nat

\* Every call loads the roster at most once, and dispose runs once.
Serial == 0..MaxCalls
RosterGeneration == 0..(MaxCalls + 1)

\* FRESH stands for UNSUPPORTED too, which ensureFresh leaves alone as well.
\* `asked` is the roster generation of the request that was answered (history).
Freshness == {"FRESH", "STALE"}
Usage == [freshness : Freshness, asked : RosterGeneration]
Row == [status : {"loading", "ready", "error"}, usage : Usage \cup {None}]
InFlightRefresh == [generation : RosterGeneration, starter : Caller]
Call ==
  [pc : {"idle", "roster", "rosterDone", "cached", "cachedDone", "loop", "joined", "refreshing"},
   op : Operation,
   serial : Serial,                  \* requestSerial of loadRoster
   generation : RosterGeneration,    \* captured by loadCached and doRefresh
   todo : SUBSET Provider,           \* rows its loop has not reached
   provider : Provider \cup {None},  \* of the refresh it awaits
   starter : Caller,                 \* whose refresh it joined
   prior : Usage \cup {None}]        \* usage shown when its refresh started

ASSUME SentinelAssumption == None \notin Row \cup Usage \cup InFlightRefresh \cup Provider

VARIABLES
  phase,                \* snapshot.phase
  roster, rows,         \* snapshot.roster and snapshot.providers
  rosterGeneration, rosterRequestSerial, inFlightRefreshes,
  call,                 \* the operation each caller is in
  calls,                \* calls made so far
  disposed,             \* history: dispose was called
  published             \* history: serial of the roster shown

snapshot == <<phase, roster, rows>>
fences == <<rosterGeneration, rosterRequestSerial, inFlightRefreshes>>
vars == <<snapshot, fences, call, calls, disposed, published>>

TypeOK ==
  /\ phase \in {"idle", "loading", "ready"}
  /\ roster \subseteq Provider
  /\ rows \in [Provider -> Row \cup {None}]
  /\ \A p \in Provider : rows[p] # None <=> p \in roster
  /\ rosterGeneration \in RosterGeneration
  /\ rosterRequestSerial \in Serial
  /\ inFlightRefreshes \in [Provider -> InFlightRefresh \cup {None}]
  /\ call \in [Caller -> Call]
  /\ calls \in 0..MaxCalls
  /\ disposed \in BOOLEAN
  /\ published \in Serial

Idle(c) ==
  [pc |-> "idle", op |-> "refreshAll", serial |-> 0, generation |-> 0, todo |-> {},
   provider |-> None, starter |-> c, prior |-> None]

Init ==
  /\ phase = "idle"
  /\ roster = {}
  /\ rows = [p \in Provider |-> None]
  /\ rosterGeneration = 0
  /\ rosterRequestSerial = 0
  /\ inFlightRefreshes = [p \in Provider |-> None]
  /\ call = [c \in Caller |-> Idle(c)]
  /\ calls = 0
  /\ disposed = FALSE
  /\ published = 0

-----------------------------------------------------------------------------
(* doRefresh and the loops around it *)

\* Mutant of HasProvider: the roster generation is not compared.
HasProviderListed(p, generation) == p \in roster

HasProvider(p, generation) == generation = rosterGeneration /\ p \in roster

At(c, label) == call[c].pc = label
Becomes(c, r) == call' = [call EXCEPT ![c] = r]
Looping(c, op, rest) == [Idle(c) EXCEPT !.pc = "loop", !.op = op, !.todo = rest]

\* ensureFresh returns without refreshing a row that shows fresh usage.
LeavesAlone(op, p) ==
  /\ op \in {"initialize", "ensureAllFresh"}
  /\ p \in roster /\ rows[p].usage # None /\ rows[p].usage.freshness = "FRESH"

\* Mutant of Joinable: a refresh started under an older roster is joined.
JoinableAny(p) == inFlightRefreshes[p] # None

Joinable(p) ==
  inFlightRefreshes[p] # None /\ inFlightRefreshes[p].generation = rosterGeneration

SkipRow(c, op, p, rest) ==
  /\ LeavesAlone(op, p) \/ p \notin roster
  /\ Becomes(c, Looping(c, op, rest))
  /\ UNCHANGED <<snapshot, fences>>

JoinRefresh(c, op, p, rest) ==
  /\ ~LeavesAlone(op, p) /\ p \in roster /\ Joinable(p)
  /\ Becomes(c, [Looping(c, op, rest) EXCEPT !.pc = "joined",
                                             !.starter = inFlightRefreshes[p].starter])
  /\ UNCHANGED <<snapshot, fences>>

StartRefresh(c, op, p, rest) ==
  /\ ~LeavesAlone(op, p) /\ p \in roster /\ ~Joinable(p)
  /\ rows' = [rows EXCEPT ![p] = [status |-> "loading", usage |-> rows[p].usage]]
  /\ inFlightRefreshes' = [inFlightRefreshes EXCEPT
                             ![p] = [generation |-> rosterGeneration, starter |-> c]]
  /\ Becomes(c, [Looping(c, op, rest) EXCEPT !.pc = "refreshing", !.provider = p,
                                             !.generation = rosterGeneration,
                                             !.prior = rows[p].usage])
  /\ UNCHANGED <<phase, roster, rosterGeneration, rosterRequestSerial>>

\* The end of an operation; initialize announces the panel ready.
Finish(c, op) ==
  /\ phase' = IF op = "initialize" THEN "ready" ELSE phase
  /\ Becomes(c, Idle(c))
  /\ UNCHANGED <<roster, rows, fences>>

\* One turn of `for (const entry of roster) await ...`, up to its await.
Iterate(c, op, todo) ==
  \/ todo = {} /\ Finish(c, op)
  \/ \E p \in todo :
       \/ SkipRow(c, op, p, todo \ {p})
       \/ JoinRefresh(c, op, p, todo \ {p})
       \/ StartRefresh(c, op, p, todo \ {p})

Loop(c) ==
  /\ At(c, "loop")
  /\ Iterate(c, call[c].op, call[c].todo)
  /\ UNCHANGED <<calls, disposed, published>>

\* The refresh request of c settles: its own entry goes, those that joined go on.
Settle(c) ==
  LET p == call[c].provider
      own == inFlightRefreshes[p] # None /\ inFlightRefreshes[p].starter = c
  IN  /\ inFlightRefreshes' = IF own THEN [inFlightRefreshes EXCEPT ![p] = None]
                              ELSE inFlightRefreshes
      /\ call' = [d \in Caller |->
                    IF d = c \/ (At(d, "joined") /\ call[d].starter = c)
                    THEN Looping(d, call[d].op, call[d].todo) ELSE call[d]]
      /\ UNCHANGED <<phase, roster, rosterGeneration, rosterRequestSerial, calls, disposed, published>>

RefreshAnswers(c) ==
  /\ At(c, "refreshing")
  /\ \E freshness \in Freshness :
       rows' = IF HasProvider(call[c].provider, call[c].generation)
               THEN [rows EXCEPT ![call[c].provider] =
                       [status |-> "ready",
                        usage |-> [freshness |-> freshness, asked |-> call[c].generation]]]
               ELSE rows
  /\ Settle(c)

RefreshFails(c) ==
  /\ At(c, "refreshing")
  /\ rows' = IF HasProvider(call[c].provider, call[c].generation)
             THEN [rows EXCEPT ![call[c].provider] = [status |-> "error", usage |-> call[c].prior]]
             ELSE rows
  /\ Settle(c)

-----------------------------------------------------------------------------
(* loadRoster and loadCached *)

\* loadRoster up to its await.
RequestRoster(c, op) ==
  /\ rosterRequestSerial' = rosterRequestSerial + 1
  /\ Becomes(c, [Idle(c) EXCEPT !.pc = "roster", !.op = op, !.serial = rosterRequestSerial + 1])
  /\ UNCHANGED <<roster, rows, rosterGeneration, inFlightRefreshes>>

\* Mutant of RosterAnswers: the request serial is not compared.
RosterAnswersLate(c) ==
  /\ At(c, "roster")
  /\ Becomes(c, [call[c] EXCEPT !.pc = "rosterDone"])
  /\ rosterGeneration' = rosterGeneration + 1
  /\ roster' \in SUBSET Provider
  /\ rows' = [p \in Provider |->
                IF p \notin roster' THEN None
                ELSE [status |-> "loading",
                      usage |-> IF rows[p] = None THEN None ELSE rows[p].usage]]
  /\ published' = call[c].serial
  /\ UNCHANGED <<phase, rosterRequestSerial, inFlightRefreshes, calls, disposed>>

\* Only the newest request may publish; an accepted roster starts a generation
\* whose rows keep the usage they showed.
RosterAnswers(c) ==
  /\ At(c, "roster")
  /\ Becomes(c, [call[c] EXCEPT !.pc = "rosterDone"])
  /\ IF call[c].serial = rosterRequestSerial
     THEN /\ rosterGeneration' = rosterGeneration + 1
          /\ roster' \in SUBSET Provider
          /\ rows' = [p \in Provider |->
                        IF p \notin roster' THEN None
                        ELSE [status |-> "loading",
                              usage |-> IF rows[p] = None THEN None ELSE rows[p].usage]]
          /\ published' = call[c].serial
     ELSE UNCHANGED <<rosterGeneration, roster, rows, published>>
  /\ UNCHANGED <<phase, rosterRequestSerial, inFlightRefreshes, calls, disposed>>

\* The last known roster stays.
RosterFails(c) ==
  /\ At(c, "roster")
  /\ Becomes(c, [call[c] EXCEPT !.pc = "rosterDone"])
  /\ UNCHANGED <<snapshot, fences, calls, disposed, published>>

\* refreshAll goes on to refresh every row, initialize to read the host's cache.
AfterRoster(c) ==
  /\ At(c, "rosterDone")
  /\ \/ /\ call[c].op = "refreshAll"
        /\ Iterate(c, "refreshAll", roster)
     \/ /\ call[c].op = "initialize"
        /\ Becomes(c, [Idle(c) EXCEPT !.pc = "cached", !.op = "initialize",
                                      !.generation = rosterGeneration])
        /\ UNCHANGED <<snapshot, fences>>
  /\ UNCHANGED <<calls, disposed, published>>

\* The host's list replaces every row; a row it omits has nothing to show.
CachedAnswers(c) ==
  /\ At(c, "cached")
  /\ Becomes(c, [call[c] EXCEPT !.pc = "cachedDone"])
  /\ IF call[c].generation = rosterGeneration
     THEN /\ \E listed \in SUBSET roster : \E freshness \in [listed -> Freshness] :
               rows' = [p \in Provider |->
                          IF p \in listed
                          THEN [status |-> "ready",
                                usage |-> [freshness |-> freshness[p], asked |-> rosterGeneration]]
                          ELSE IF p \in roster THEN [status |-> "loading", usage |-> None]
                          ELSE None]
          /\ phase' = "ready"
     ELSE UNCHANGED <<rows, phase>>
  /\ UNCHANGED <<roster, fences, calls, disposed, published>>

CachedFails(c) ==
  /\ At(c, "cached")
  /\ Becomes(c, [call[c] EXCEPT !.pc = "cachedDone"])
  /\ phase' = IF call[c].generation = rosterGeneration THEN "ready" ELSE phase
  /\ UNCHANGED <<roster, rows, fences, calls, disposed, published>>

\* ensureAllFresh of initialize.
AfterCached(c) ==
  /\ At(c, "cachedDone")
  /\ Iterate(c, "initialize", roster)
  /\ UNCHANGED <<calls, disposed, published>>

-----------------------------------------------------------------------------
(* Calls *)

\* The plugin initializes the controller once, when it is loaded, and makes its
\* other calls after that.
MayCall(op) ==
  op \in Menu /\ ("initialize" \in Menu => (op = "initialize" <=> calls = 0))

Start(c) ==
  /\ At(c, "idle")
  /\ ~disposed
  /\ calls < MaxCalls
  /\ calls' = calls + 1
  /\ \/ /\ MayCall("initialize")
        /\ phase' = "loading"
        /\ RequestRoster(c, "initialize")
     \/ /\ MayCall("refreshAll")
        /\ RequestRoster(c, "refreshAll")
        /\ UNCHANGED phase
     \/ /\ MayCall("refreshProvider")
        /\ \E p \in Provider : Iterate(c, "refreshProvider", {p})
     \/ /\ MayCall("ensureAllFresh")
        /\ Iterate(c, "ensureAllFresh", roster)
  /\ UNCHANGED <<disposed, published>>

\* The plugin is unloaded.
Dispose ==
  /\ ~disposed
  /\ disposed' = TRUE
  /\ rosterGeneration' = rosterGeneration + 1
  /\ inFlightRefreshes' = [p \in Provider |-> None]
  /\ UNCHANGED <<snapshot, rosterRequestSerial, call, calls, published>>

Next ==
  \/ \E c \in Caller :
       \/ Start(c) \/ Loop(c)
       \/ RosterAnswers(c) \/ RosterFails(c) \/ AfterRoster(c)
       \/ CachedAnswers(c) \/ CachedFails(c) \/ AfterCached(c)
       \/ RefreshAnswers(c) \/ RefreshFails(c)
  \/ Dispose

Spec == Init /\ [][Next]_vars

-----------------------------------------------------------------------------
(* Properties *)

\* Only answers to requests of the current roster generation are shown as
\* current: no late answer brings back a provider generation that is gone
\* (docs/ARCHITECTURE.md, invariant 8).
ReadyIsCurrent ==
  ~disposed => \A p \in Provider :
    p \in roster /\ rows[p].status = "ready" => rows[p].usage.asked = rosterGeneration

\* Answers to concurrent roster requests are accepted in the order of the requests.
RosterNeverGoesBack == [][published' >= published]_vars

\* Every variable has its type; one refresh request at a time for a provider of one roster generation, and
\* what others may join is always one that will settle.
OneRefresh ==
  /\ TypeOK
  /\ \A c, d \in Caller :
       /\ c # d /\ At(c, "refreshing") /\ At(d, "refreshing")
       /\ call[c].provider = call[d].provider
       => call[c].generation # call[d].generation
  /\ \A p \in Provider : inFlightRefreshes[p] # None =>
       LET starter == call[inFlightRefreshes[p].starter] IN
       /\ starter.pc = "refreshing" /\ starter.provider = p
       /\ starter.generation = inFlightRefreshes[p].generation
  /\ \A c \in Caller : At(c, "joined") => At(call[c].starter, "refreshing")

\* And when every call has ended no row is left loading: the panel disables its
\* refresh buttons while a row loads.
RowsSettle ==
  (~disposed /\ \A c \in Caller : At(c, "idle")) =>
    \A p \in roster : rows[p].status # "loading"
RefreshesSettle == OneRefresh /\ RowsSettle
=============================================================================
