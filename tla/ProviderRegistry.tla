-------------------------- MODULE ProviderRegistry --------------------------
(***************************************************************************)
(* Provider plugins come and go (registration.ts, registry/service.ts) and *)
(* the host that shows their usage follows (host/composition.ts, index.ts).*)
(* registerProvider is synchronous up to `await install`; a plugin may be  *)
(* unloaded, and loaded again, while its install is still pending.         *)
(*                                                                         *)
(* Abstracted: identities are canonical or not; presentation, policies and *)
(* backends belong to their load.  The collection of usage is UsageService.*)
(* Cordis and the llm service (adapters) are external.                     *)
(***************************************************************************)
EXTENDS Naturals, FiniteSets

CONSTANTS
  Load,          \* loads of provider plugins, each with a context of its own
  Provider,      \* provider ids
  Route,         \* model routes
  None           \* no load

\* What a load declares: a model capability has routes.
Descriptor == [id : Provider, routes : SUBSET Route, usage : BOOLEAN]

VARIABLES
  stage,         \* how far each load is
  descriptor,    \* what each load declared
  byId,          \* registry: the load recorded for an id
  byRoute,       \* registry: the load serving a route
  modelListers,  \* registry: whose unfiltered catalog an id has
  adapters,      \* llm service: the load whose adapter serves a route
  hostUp,        \* the host plugin is mounted
  registered,    \* host: the load whose collector is in the usage roster
  cached         \* host: the load a cached snapshot was collected by

registry == <<byId, byRoute, modelListers>>
host == <<registered, cached>>
vars == <<stage, descriptor, byId, byRoute, modelListers, adapters, hostUp, registered, cached>>

Init ==
  /\ stage = [l \in Load |-> "idle"]
  /\ descriptor = [l \in Load |-> None]
  /\ byId = [p \in Provider |-> None]
  /\ byRoute = [r \in Route |-> None]
  /\ modelListers = [p \in Provider |-> None]
  /\ adapters = [r \in Route |-> None]
  /\ hostUp = FALSE
  /\ registered = [p \in Provider |-> None]
  /\ cached = [p \in Provider |-> None]

-----------------------------------------------------------------------------
(* The usage roster *)

HasUsage(l) == descriptor'[l].usage

\* Mutant: an id that is in the roster already is left as it is.
ReconcileMissing(ids) ==
  [p \in Provider |->
     IF registered[p] # None THEN registered[p]
     ELSE IF ids[p] # None /\ HasUsage(ids[p]) THEN ids[p]
     ELSE None]

\* The roster after the announcement that leaves the registry at ids: what is no longer
\* wanted is withdrawn, what is wanted and missing is registered.
Reconciled(ids) ==
  LET wanted == {p \in Provider : ids[p] # None /\ HasUsage(ids[p])}
  IN  [p \in Provider |->
         IF p \notin wanted THEN None
         ELSE IF registered[p] # None THEN registered[p]
         ELSE ids[p]]

\* Withdrawing a collector drops what it had cached.
Announce ==
  IF hostUp
  THEN /\ registered' = Reconciled(byId')
       /\ cached' = [p \in Provider |-> IF registered'[p] = registered[p] THEN cached[p] ELSE None]
  ELSE UNCHANGED host

\* The host plugin is mounted when the services it needs are there, and unmounted with
\* them, which ends its tracking of the registry.
HostMount ==
  /\ ~hostUp
  /\ hostUp' = TRUE
  /\ UNCHANGED <<stage, descriptor, registry, adapters, cached>>
  /\ registered' = Reconciled(byId)

HostUnmount ==
  /\ hostUp
  /\ hostUp' = FALSE
  /\ registered' = [p \in Provider |-> None]
  /\ cached' = [p \in Provider |-> None]
  /\ UNCHANGED <<stage, descriptor, registry, adapters>>

\* refreshProviderPublic: a provider without usage has nothing to collect.
Refresh(p) ==
  /\ hostUp /\ byId[p] # None /\ descriptor[byId[p]].usage
  /\ registered[p] # None
  /\ cached' = [cached EXCEPT ![p] = registered[p]]
  /\ UNCHANGED <<stage, descriptor, registry, adapters, hostUp, registered>>

\* A provider reports newer usage, even while it is being unloaded.
Invalidate(l) ==
  /\ stage[l] \notin {"idle", "failed"}
  /\ LET p == descriptor[l].id
     IN  cached' = IF registered[p] = None THEN cached ELSE [cached EXCEPT ![p] = None]
  /\ UNCHANGED <<stage, descriptor, registry, adapters, hostUp, registered>>

-----------------------------------------------------------------------------
(* registerProvider *)

\* A duplicate id and a route of another provider are refused before anything changes.
MayRecord(d) == byId[d.id] = None /\ \A r \in d.routes : byRoute[r] = None

Record(l, d) ==
  /\ byId' = [byId EXCEPT ![d.id] = l]
  /\ byRoute' = [r \in Route |-> IF r \in d.routes THEN l ELSE byRoute[r]]

\* Up to the await: the entry is recorded and announced, the unfiltered catalog attached
\* and the filtered adapter registered.
Register(l) ==
  /\ stage[l] = "idle"
  /\ \E d \in Descriptor :
       /\ MayRecord(d)
       /\ \A r \in d.routes : adapters[r] = None
       /\ descriptor' = [descriptor EXCEPT ![l] = d]
       /\ Record(l, d)
       /\ modelListers' = IF d.routes = {} THEN modelListers ELSE [modelListers EXCEPT ![d.id] = l]
       /\ adapters' = [r \in Route |-> IF r \in d.routes THEN l ELSE adapters[r]]
  /\ stage' = [stage EXCEPT ![l] = "installing"]
  /\ Announce
  /\ UNCHANGED hostUp

\* The descriptor is refused, a capability's factory throws, the entry is refused, or a
\* later step throws and what was recorded is withdrawn again: in one piece, but two
\* announcements.  The routes' adapter may be in use at the llm service.
RegisterFails(l) ==
  /\ stage[l] = "idle"
  /\ \E d \in Descriptor : descriptor' = [descriptor EXCEPT ![l] = d]
  /\ stage' = [stage EXCEPT ![l] = "failed"]
  /\ UNCHANGED registry
  /\ Announce
  /\ UNCHANGED <<adapters, hostUp>>

InstallDone(l) ==
  /\ stage[l] = "installing"
  /\ stage' = [stage EXCEPT ![l] = "active"]
  /\ UNCHANGED <<descriptor, registry, adapters, hostUp, host>>

\* Mutant: an entry is forgotten by its id, whoever holds it now.
ForgetById(l) ==
  LET d == descriptor[l]
  IN  /\ byId' = [byId EXCEPT ![d.id] = None]
      /\ modelListers' = [modelListers EXCEPT ![d.id] = None]
      /\ byRoute' = [r \in Route |-> IF r \in d.routes THEN None ELSE byRoute[r]]

\* What record returned: an entry that was replaced is not touched.
Forget(l) ==
  LET d == descriptor[l]
  IN  IF byId[d.id] # l
      THEN UNCHANGED registry
      ELSE /\ byId' = [byId EXCEPT ![d.id] = None]
           /\ modelListers' = [modelListers EXCEPT ![d.id] = None]
           /\ byRoute' = [r \in Route |-> IF r \in d.routes /\ byRoute[r] = l THEN None ELSE byRoute[r]]

\* Disposing of an adapter may throw, after or before it took effect.
DisposeAdapter(l) == [r \in Route |-> IF adapters[r] = l THEN None ELSE adapters[r]]

\* Mutant: the rollback ends when disposing of the adapter throws.
RollbackAborted(l) ==
  /\ stage[l] = "installing"
  /\ stage' = [stage EXCEPT ![l] = "failed"]
  /\ UNCHANGED <<registry, adapters, descriptor, hostUp, host>>

\* install rejects: the adapter, then the entry, are withdrawn, each whatever became of
\* the other.
Rollback(l) ==
  /\ stage[l] = "installing"
  /\ stage' = [stage EXCEPT ![l] = "failed"]
  /\ adapters' \in {adapters, DisposeAdapter(l)}
  /\ Forget(l)
  /\ UNCHANGED descriptor
  /\ Announce
  /\ UNCHANGED hostUp

-----------------------------------------------------------------------------
(* Unloading: Cordis disposes of the effects of the context, the last one first *)

Unload(l) ==
  /\ stage[l] \in {"installing", "active"}
  /\ stage' = [stage EXCEPT ![l] = IF @ = "installing" THEN "leavingEarly" ELSE "leaving"]
  /\ adapters' = DisposeAdapter(l)
  /\ UNCHANGED <<descriptor, registry, hostUp, host>>

Unloaded(l) ==
  /\ stage[l] \in {"leaving", "leavingEarly"}
  /\ stage' = [stage EXCEPT ![l] = IF @ = "leaving" THEN "unloaded" ELSE "orphaned"]
  /\ Forget(l)
  /\ UNCHANGED descriptor
  /\ Announce
  /\ UNCHANGED <<adapters, hostUp>>

\* The install of a load that is gone ends, or rejects and is rolled back.
OrphanDone(l) ==
  /\ stage[l] = "orphaned"
  /\ stage' = [stage EXCEPT ![l] = "unloaded"]
  /\ UNCHANGED <<descriptor, registry, adapters, hostUp, host>>
OrphanRollback(l) ==
  /\ stage[l] = "orphaned"
  /\ stage' = [stage EXCEPT ![l] = "unloaded"]
  /\ adapters' = DisposeAdapter(l)
  /\ Forget(l)
  /\ UNCHANGED descriptor
  /\ Announce
  /\ UNCHANGED hostUp

Next ==
  \/ HostMount
  \/ HostUnmount
  \/ \E p \in Provider : Refresh(p)
  \/ \E l \in Load :
       \/ Register(l) \/ RegisterFails(l) \/ InstallDone(l) \/ Rollback(l)
       \/ Unload(l) \/ Unloaded(l) \/ OrphanDone(l) \/ OrphanRollback(l)
       \/ Invalidate(l)

Spec == Init /\ [][Next]_vars

-----------------------------------------------------------------------------
(* Properties *)

Present == {"installing", "active", "leaving", "leavingEarly"}

TypeOK ==
  /\ stage \in [Load -> Present \cup {"idle", "failed", "unloaded", "orphaned"}]
  /\ descriptor \in [Load -> Descriptor \cup {None}]
  /\ \A l \in Load : stage[l] # "idle" => descriptor[l] # None
  /\ byId \in [Provider -> Load \cup {None}]
  /\ byRoute \in [Route -> Load \cup {None}]
  /\ modelListers \in [Provider -> Load \cup {None}]
  /\ adapters \in [Route -> Load \cup {None}]
  /\ hostUp \in BOOLEAN
  /\ registered \in [Provider -> Load \cup {None}]
  /\ cached \in [Provider -> Load \cup {None}]

\* A load that is registered stays so until it leaves: its id, its catalog and each of
\* its routes lead to it, whatever stale rollbacks and reloads of the same provider do.
Serves(l) ==
  LET d == descriptor[l]
  IN  /\ byId[d.id] = l
      /\ \A r \in d.routes : byRoute[r] = l
      /\ d.routes # {} => modelListers[d.id] = l
      /\ stage[l] \in {"installing", "active"} => \A r \in d.routes : adapters[r] = l
PresentServes == TypeOK /\ \A l \in Load : stage[l] \in Present => Serves(l)

\* Nothing of a load that failed or is gone is left in the registry, where it would keep
\* its id and its routes from the next load, nor in the roster.  The adapter of a failed
\* load stays only if disposing of it threw.
GoneLeavesNothing ==
  \A l \in Load : stage[l] \in {"failed", "unloaded", "orphaned"} =>
    /\ \A p \in Provider : l \notin {byId[p], modelListers[p], registered[p], cached[p]}
    /\ \A r \in Route : byRoute[r] # l
    /\ stage[l] # "failed" => \A r \in Route : adapters[r] # l

\* The usage the host shows is the registered provider's: the roster has exactly the
\* providers with usage, each with the collector of the load that is registered now, and
\* a cached snapshot was collected by it.
RosterFollowsRegistry ==
  /\ hostUp => \A p \in Provider :
       registered[p] = IF byId[p] # None /\ descriptor[byId[p]].usage THEN byId[p] ELSE None
  /\ \A p \in Provider : cached[p] \in {None, registered[p]}
=============================================================================
