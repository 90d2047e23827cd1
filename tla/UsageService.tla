---------------------------- MODULE UsageService ----------------------------
(***************************************************************************)
(* UsageLimitsService of packages/core (usage/service.ts): the host's      *)
(* cache of vendor usage observations, with coalesced collections, provider*)
(* generations and invalidation tokens.                                    *)
(*                                                                         *)
(* JavaScript runs each handler to its next await: a step is what runs     *)
(* between two awaits.  A provider generation (the identity of its         *)
(* registration object) and an invalidation token (a fresh Symbol) are     *)
(* numbers that are never reused; 0 is `undefined`.                        *)
(***************************************************************************)
EXTENDS Naturals, Sequences

CONSTANTS
  Provider,            \* provider ids
  Caller,              \* concurrent refreshProvider calls
  MinRefreshInterval,  \* policy.minRefreshIntervalMs
  MaxSafeInteger,      \* Number.MAX_SAFE_INTEGER
  MaxTime,             \* bound: clock
  MaxGenerations,      \* bound: registrations of a provider
  MaxInvalidations,    \* bound: invalidations of a provider
  None, Failed         \* no value, a rejected promise

Undefined == 0

Generation == 1..MaxGenerations
Token == 1..MaxInvalidations
Time == 0..MaxTime

\* A snapshot keeps what it was collected for: the invalidations are those the
\* provider had reported when the collection started (history, not program state).
Snapshot == [observedAtMs : Time, generation : Generation, invalidations : {Undefined} \cup Token]
InFlightRefresh == [registration : Generation, token : {Undefined} \cup Token, promise : Caller]
RefreshCall ==
  [pc : {"idle", "collecting", "settled", "joined", "returned"},
   provider : Provider,
   registration : Generation,
   token : {Undefined} \cup Token,         \* invalidationTokenAtStart
   now : Time,
   promise : Caller,                       \* whose collection it awaits
   fresh : BOOLEAN,                        \* forced, or called on an invalidated provider
   invalidations : {Undefined} \cup Token, \* history: reported before the call
   result : Snapshot \cup {None, Failed}]

ASSUME PolicyAssumption ==
  MinRefreshInterval \in Nat /\ MaxSafeInteger \in Nat
ASSUME ProviderAssumption == Provider # {}
ASSUME BoundsAssumption ==
  /\ MaxTime \in Nat /\ MaxGenerations \in Nat \ {0} /\ MaxInvalidations \in Nat
ASSUME SentinelAssumption ==
  /\ None # Failed
  /\ {None, Failed} \cap Snapshot = {}
  /\ None \notin InFlightRefresh

VARIABLES
  registrations,       \* the generation registered for each provider
  registrationOrder,   \* provider ids in registration order
  cache,               \* the last published snapshot
  inFlight,            \* the collection that refreshes may join
  invalidationTokens,  \* set from an invalidation to the next published collection
  clock,
  call,                \* the refreshProvider call each caller is in
  generations,         \* registration objects created so far
  invalidations        \* tokens created so far

host == <<registrations, registrationOrder, cache, inFlight, invalidationTokens>>
identities == <<generations, invalidations>>
vars == <<host, clock, call, identities>>

TypeOK ==
  /\ registrations \in [Provider -> {Undefined} \cup Generation]
  /\ registrationOrder \in Seq(Provider)
  /\ \A p \in Provider :
       registrations[p] # Undefined <=> \E i \in 1..Len(registrationOrder) : registrationOrder[i] = p
  /\ \A i, j \in 1..Len(registrationOrder) : registrationOrder[i] = registrationOrder[j] => i = j
  /\ cache \in [Provider -> Snapshot \cup {None}]
  /\ inFlight \in [Provider -> InFlightRefresh \cup {None}]
  /\ invalidationTokens \in [Provider -> {Undefined} \cup Token]
  /\ clock \in Time
  /\ call \in [Caller -> RefreshCall]
  /\ generations \in [Provider -> {Undefined} \cup Generation]
  /\ invalidations \in [Provider -> {Undefined} \cup Token]

Idle(c) ==
  [pc |-> "idle", provider |-> CHOOSE p \in Provider : TRUE, registration |-> 1,
   token |-> Undefined, now |-> 0, promise |-> c, fresh |-> FALSE,
   invalidations |-> Undefined, result |-> None]

\* composeUsageLimitsHost starts from no registrations.
Init ==
  /\ registrations = [p \in Provider |-> Undefined]
  /\ registrationOrder = <<>>
  /\ cache = [p \in Provider |-> None]
  /\ inFlight = [p \in Provider |-> None]
  /\ invalidationTokens = [p \in Provider |-> Undefined]
  /\ clock = 0
  /\ call = [c \in Caller |-> Idle(c)]
  /\ generations = [p \in Provider |-> Undefined]
  /\ invalidations = [p \in Provider |-> Undefined]

-----------------------------------------------------------------------------
(* Registration *)

Registered(p) == registrations[p] # Undefined

\* registrationOrder.splice(registrationOrder.indexOf(p), 1)
Without(order, p) ==
  LET at == CHOOSE i \in 1..Len(order) : order[i] = p
  IN  [i \in 1..(Len(order) - 1) |-> order[IF i < at THEN i ELSE i + 1]]

\* A duplicate id is refused before anything changes.
Register(p) ==
  /\ ~Registered(p)
  /\ generations[p] < MaxGenerations
  /\ generations' = [generations EXCEPT ![p] = @ + 1]
  /\ registrations' = [registrations EXCEPT ![p] = generations[p] + 1]
  /\ registrationOrder' = Append(registrationOrder, p)
  /\ UNCHANGED <<cache, inFlight, invalidationTokens, clock, call, invalidations>>

\* Mutant: the disposer leaves what the generation cached.
WithdrawKeepsCache(p, generation) ==
  /\ registrations[p] = generation
  /\ registrations' = [registrations EXCEPT ![p] = Undefined]
  /\ registrationOrder' = Without(registrationOrder, p)
  /\ inFlight' = [inFlight EXCEPT ![p] = None]
  /\ invalidationTokens' = [invalidationTokens EXCEPT ![p] = Undefined]
  /\ UNCHANGED <<cache, clock, call, identities>>

\* The disposer that register returned for one generation; it does nothing
\* when another generation is registered.
Withdraw(p, generation) ==
  /\ registrations[p] = generation
  /\ registrations' = [registrations EXCEPT ![p] = Undefined]
  /\ registrationOrder' = Without(registrationOrder, p)
  /\ cache' = [cache EXCEPT ![p] = None]
  /\ inFlight' = IF inFlight[p] # None /\ inFlight[p].registration = generation
                 THEN [inFlight EXCEPT ![p] = None] ELSE inFlight
  /\ invalidationTokens' = [invalidationTokens EXCEPT ![p] = Undefined]
  /\ UNCHANGED <<clock, call, identities>>

Invalidate(p) ==
  /\ Registered(p)
  /\ invalidations[p] < MaxInvalidations
  /\ invalidations' = [invalidations EXCEPT ![p] = @ + 1]
  /\ cache' = [cache EXCEPT ![p] = None]
  /\ invalidationTokens' = [invalidationTokens EXCEPT ![p] = invalidations[p] + 1]
  /\ UNCHANGED <<registrations, registrationOrder, inFlight, clock, call, generations>>

-----------------------------------------------------------------------------
(* Cached reads *)

\* getCachedSnapshot, and the row of getCachedSnapshots, for a registered provider.
CachedSnapshot(p) == IF invalidationTokens[p] # Undefined THEN None ELSE cache[p]

-----------------------------------------------------------------------------
(* refreshProvider *)

\* The call up to its first await: what it captured and what it awaits.
Called(c, p, force, pc, promise, result) ==
  [pc |-> pc, provider |-> p, registration |-> registrations[p],
   token |-> invalidationTokens[p], now |-> clock, promise |-> promise,
   fresh |-> force \/ invalidationTokens[p] # Undefined,
   invalidations |-> invalidations[p], result |-> result]

\* Mutant: a collection may be joined whatever was invalidated since it started.
JoinableByGeneration(p) == inFlight[p] # None /\ inFlight[p].registration = registrations[p]

Joinable(p) ==
  /\ inFlight[p] # None
  /\ inFlight[p].registration = registrations[p]
  /\ inFlight[p].token = invalidationTokens[p]

\* Join the collection of this generation and token.  Its promise may have
\* settled already, its starter not yet having removed the entry.
Join(c, p, force) ==
  /\ Joinable(p)
  /\ LET starter == inFlight[p].promise
         settled == call[starter].pc = "settled"
     IN  call' = [call EXCEPT ![c] = Called(c, p, force, IF settled THEN "returned" ELSE "joined",
                                            starter,
                                            IF settled THEN call[starter].result ELSE None)]
  /\ UNCHANGED <<host, clock, identities>>

Deadline(p) == cache[p].observedAtMs + MinRefreshInterval
AnswersFromCache(p, force) ==
  /\ cache[p] # None /\ ~force /\ invalidationTokens[p] = Undefined
  /\ Deadline(p) > MaxSafeInteger \/ clock < Deadline(p)

\* Inside the minimum interval the cached snapshot is returned; a deadline that
\* is no safe integer fails the call.
FromCache(c, p, force) ==
  /\ ~Joinable(p)
  /\ AnswersFromCache(p, force)
  /\ call' = [call EXCEPT ![c] = Called(c, p, force, "returned", c,
                                        IF Deadline(p) > MaxSafeInteger THEN Failed ELSE cache[p])]
  /\ UNCHANGED <<host, clock, identities>>

\* Start a collection; its entry replaces the one of an older token.
Collect(c, p, force) ==
  /\ ~Joinable(p)
  /\ ~AnswersFromCache(p, force)
  /\ call' = [call EXCEPT ![c] = Called(c, p, force, "collecting", c, None)]
  /\ inFlight' = [inFlight EXCEPT ![p] = [registration |-> registrations[p],
                                          token |-> invalidationTokens[p], promise |-> c]]
  /\ UNCHANGED <<registrations, registrationOrder, cache, invalidationTokens, clock, identities>>

RefreshProvider(c, p, force) ==
  /\ call[c].pc = "idle"
  /\ Registered(p)
  /\ Join(c, p, force) \/ FromCache(c, p, force) \/ Collect(c, p, force)

\* The promise of c's collection settles: c resumes later, its joiners return.
Resolve(c, result) ==
  call' = [d \in Caller |->
             IF d = c THEN [call[d] EXCEPT !.pc = "settled", !.result = result]
             ELSE IF call[d].pc = "joined" /\ call[d].promise = c
                  THEN [call[d] EXCEPT !.pc = "returned", !.result = result]
                  ELSE call[d]]

Collected(c) ==
  [observedAtMs |-> call[c].now, generation |-> call[c].registration,
   invalidations |-> call[c].invalidations]

\* The collector rejects, answers for another provider or another time, or
\* leaves to staleAfterMs a staleAtMs that is no safe integer.
CollectorFails(c) ==
  /\ call[c].pc = "collecting"
  /\ Resolve(c, Failed)
  /\ UNCHANGED <<host, clock, identities>>

\* Mutant: the token is not compared before publishing.
CollectorAnswersUnfenced(c) ==
  LET p == call[c].provider IN
  /\ call[c].pc = "collecting"
  /\ Resolve(c, IF registrations[p] = call[c].registration THEN Collected(c) ELSE Failed)
  /\ IF registrations[p] = call[c].registration
     THEN /\ cache' = [cache EXCEPT ![p] = Collected(c)]
          /\ invalidationTokens' = [invalidationTokens EXCEPT ![p] = Undefined]
     ELSE UNCHANGED <<cache, invalidationTokens>>
  /\ UNCHANGED <<registrations, registrationOrder, inFlight, clock, identities>>

\* The collector answers.  The result is published only into the generation it
\* was collected for, and only if the token is the one it started with.
CollectorAnswers(c) ==
  LET p == call[c].provider IN
  /\ call[c].pc = "collecting"
  /\ IF registrations[p] # call[c].registration
     THEN Resolve(c, Failed) /\ UNCHANGED <<cache, invalidationTokens>>
     ELSE /\ Resolve(c, Collected(c))
          /\ IF invalidationTokens[p] = call[c].token
             THEN /\ cache' = [cache EXCEPT ![p] = Collected(c)]
                  /\ invalidationTokens' = [invalidationTokens EXCEPT ![p] = Undefined]
             ELSE UNCHANGED <<cache, invalidationTokens>>
  /\ UNCHANGED <<registrations, registrationOrder, inFlight, clock, identities>>

\* Mutant: the end of a collection removes whatever entry the provider has.
RefreshSettledByProvider(c) ==
  /\ call[c].pc = "settled"
  /\ call' = [call EXCEPT ![c].pc = "returned"]
  /\ inFlight' = [inFlight EXCEPT ![call[c].provider] = None]
  /\ UNCHANGED <<registrations, registrationOrder, cache, invalidationTokens, clock, identities>>

\* The starter resumes and removes its own entry.
RefreshSettled(c) ==
  LET p == call[c].provider
      own == /\ inFlight[p] # None
             /\ inFlight[p].registration = call[c].registration
             /\ inFlight[p].promise = c
  IN  /\ call[c].pc = "settled"
      /\ call' = [call EXCEPT ![c].pc = "returned"]
      /\ inFlight' = IF own THEN [inFlight EXCEPT ![p] = None] ELSE inFlight
      /\ UNCHANGED <<registrations, registrationOrder, cache, invalidationTokens, clock, identities>>

\* The caller takes its result.
Return(c) ==
  /\ call[c].pc = "returned"
  /\ call' = [call EXCEPT ![c] = Idle(c)]
  /\ UNCHANGED <<host, clock, identities>>

Tick ==
  /\ clock < MaxTime
  /\ clock' = clock + 1
  /\ UNCHANGED <<host, call, identities>>

Next ==
  \/ \E p \in Provider :
       \/ Register(p)
       \/ \E g \in Generation : Withdraw(p, g)
       \/ Invalidate(p)
  \/ \E c \in Caller :
       \/ \E p \in Provider, force \in BOOLEAN : RefreshProvider(c, p, force)
       \/ CollectorAnswers(c) \/ CollectorFails(c)
       \/ RefreshSettled(c) \/ Return(c)
  \/ Tick

Spec == Init /\ [][Next]_vars

-----------------------------------------------------------------------------
(* Properties *)

\* What a withdrawn generation cached, has in flight or invalidated is gone, and
\* a collection of it that ends later brings none of it back into the next one
\* (docs/ARCHITECTURE.md, invariant 8, on the host).
NoResurrection ==
  \A p \in Provider :
    /\ cache[p] # None => cache[p].generation = registrations[p]
    /\ inFlight[p] # None => inFlight[p].registration = registrations[p]
    /\ invalidationTokens[p] # Undefined => Registered(p)

\* Coalescing: the vendor is never asked twice at a time for one generation
\* between two invalidations, whatever calls overlap and whichever ends first.
OneCollection ==
  \A c, d \in Caller :
    /\ c # d /\ call[c].pc = "collecting" /\ call[d].pc = "collecting"
    /\ call[c].provider = call[d].provider /\ call[c].registration = call[d].registration
    => call[c].invalidations # call[d].invalidations

\* An entry never outlives the call that made it: no refresh joins a promise
\* nobody will settle, or keeps joining one that was rejected.
InFlightAlive ==
  \A p \in Provider :
    inFlight[p] # None =>
      LET starter == call[inFlight[p].promise] IN
      /\ starter.pc \in {"collecting", "settled"}
      /\ starter.provider = p
      /\ starter.registration = inFlight[p].registration
      /\ starter.token = inFlight[p].token

\* A refresh that is forced, or called after an invalidation, is never answered
\* with what the vendor reported before an invalidation that precedes the call,
\* not even by joining a collection (docs/ARCHITECTURE.md:98).
FreshRefresh ==
  \A c \in Caller :
    call[c].pc = "returned" /\ call[c].fresh /\ call[c].result # Failed =>
      /\ call[c].result.invalidations >= call[c].invalidations
      /\ call[c].result.generation = call[c].registration

\* Only a collection started after the last invalidation ends it: until then no
\* cached read answers, however many superseded collections end.
InvalidationEndsFresh ==
  [][\A p \in Provider :
       invalidationTokens[p] # Undefined /\ invalidationTokens'[p] = Undefined
         => \/ registrations'[p] # registrations[p]
            \/ cache'[p] # None /\ cache'[p].invalidations = invalidations[p]]_vars

\* Cached reads never serve what an invalidation superseded
\* (docs/ARCHITECTURE.md:97 and invariant 7, packages/core/README.md).
CachedReadsCurrent ==
  \A p \in Provider :
    CachedSnapshot(p) # None => CachedSnapshot(p).invalidations = invalidations[p]
=============================================================================
