---------------------------- MODULE PartsProofs ----------------------------
(* Eight of the parts that Parts names keep their promises for every value of *)
(* the constants, and CodexThreadProofs has the ninth. The specification in   *)
(* each theorem is the part's own; the one MCParts explores is that           *)
(* specification whenever "part" names it.                                    *)
EXTENDS Parts, HeardMessagesProofs, FiniteSetTheorems

\* An element of a sequence.
LEMMA ElementTyped ==
  ASSUME NEW S, NEW s \in Seq(S)
  PROVE  DOMAIN s = 1 .. Len(s) /\ Len(s) \in Nat /\ \A i \in DOMAIN s : s[i] \in S
  OBVIOUS

-----------------------------------------------------------------------------
(* ProviderRegistry *)

\* Whatever names a load in the registry was declared by it, and the load has not left;
\* an adapter outlives only the load whose rollback could not dispose of it.
Owned ==
  \A l \in Load :
    /\ \A p \in Identity : l \in {byId[p], modelListers[p]} =>
         stage[l] \in Registry!Present /\ descriptor[l].id = p
    /\ \A r \in Route : byRoute[r] = l => stage[l] \in Registry!Present /\ r \in descriptor[l].routes
    /\ \A r \in Route : adapters[r] = l =>
         stage[l] \in {"installing", "active", "failed"} /\ r \in descriptor[l].routes

\* What RosterFollowsRegistry says of a mounted host, and an unmounted one shows nothing.
Roster ==
  /\ Registry!RosterFollowsRegistry
  /\ ~hostUp => \A p \in Identity : registered[p] = None

AllServe == \A l \in Load : stage[l] \in Registry!Present => Registry!Serves(l)

RegistryInv == Registry!TypeOK /\ Owned /\ AllServe /\ Roster

-----------------------------------------------------------------------------
(* The roster follows what is announced *)

\* An announcement brings the roster back to the registry if the announced change
\* replaced no load by another one under the same id.
LEMMA AnnounceFollows ==
  ASSUME Registry!TypeOK, Roster, Registry!Announce, UNCHANGED hostUp,
         byId' \in [Identity -> Load \cup {None}],
         \A p \in Identity : byId[p] # None /\ byId'[p] # None =>
           byId'[p] = byId[p] /\ descriptor'[byId[p]] = descriptor[byId[p]]
  PROVE  /\ registered' \in [Identity -> Load \cup {None}]
         /\ cached' \in [Identity -> Load \cup {None}]
         /\ Roster'
<1>1. CASE hostUp
  <2>1. registered' = Registry!Reconciled(byId')
    BY <1>1 DEF Registry!Announce
  <2>2. \A p \in Identity :
          registered'[p] = IF byId'[p] # None /\ descriptor'[byId'[p]].usage THEN byId'[p] ELSE None
    BY <1>1, <2>1 DEF Registry!Reconciled, Registry!HasUsage, Roster, Registry!RosterFollowsRegistry
  <2>3. registered' \in [Identity -> Load \cup {None}]
    BY <1>1, <2>1 DEF Registry!Reconciled, Registry!TypeOK
  <2>4. cached' = [p \in Identity |-> IF registered'[p] = registered[p] THEN cached[p] ELSE None]
    BY <1>1 DEF Registry!Announce
  <2> QED
    BY <1>1, <2>2, <2>3, <2>4 DEF Roster, Registry!RosterFollowsRegistry, Registry!TypeOK
<1>2. CASE ~hostUp
  BY <1>2 DEF Registry!Announce, Registry!host, Roster, Registry!RosterFollowsRegistry, Registry!TypeOK
<1> QED BY <1>1, <1>2 DEF Registry!TypeOK

-----------------------------------------------------------------------------
(* Steps of one load *)

\* A load that enters finds its id and its routes free, and disturbs none that is present.
LEMMA RegisterPreserves ==
  ASSUME RegistryInv, NEW l \in Load, Registry!Register(l)
  PROVE  RegistryInv'
<1>1. PICK d \in Registry!Descriptor :
        /\ Registry!MayRecord(d)
        /\ \A r \in d.routes : adapters[r] = None
        /\ descriptor' = [descriptor EXCEPT ![l] = d]
        /\ Registry!Record(l, d)
        /\ modelListers' = IF d.routes = {} THEN modelListers ELSE [modelListers EXCEPT ![d.id] = l]
        /\ adapters' = [r \in Route |-> IF r \in d.routes THEN l ELSE adapters[r]]
  BY DEF Registry!Register
<1>2. d.id \in Identity /\ d.routes \subseteq Route /\ d # None
  BY RegistryAssumption DEF Registry!Descriptor
<1>3. stage[l] = "idle" /\ stage' = [stage EXCEPT ![l] = "installing"] /\ Registry!Announce /\ UNCHANGED hostUp
  BY DEF Registry!Register
<1>4. /\ byId' = [byId EXCEPT ![d.id] = l] /\ byId[d.id] = None
      /\ byRoute' = [r \in Route |-> IF r \in d.routes THEN l ELSE byRoute[r]]
      /\ \A r \in d.routes : byRoute[r] = None
  BY <1>1 DEF Registry!Record, Registry!MayRecord
<1>5. \A k \in Load, p \in Identity : k \in {byId[p], modelListers[p]} => k # l
  BY <1>3 DEF RegistryInv, Owned, Registry!Present
<1>6. /\ registered' \in [Identity -> Load \cup {None}]
      /\ cached' \in [Identity -> Load \cup {None}]
      /\ Roster'
  <2>1. byId' \in [Identity -> Load \cup {None}]
    BY <1>2, <1>4 DEF RegistryInv, Registry!TypeOK
  <2>2. ASSUME NEW p \in Identity, byId[p] # None, byId'[p] # None
        PROVE  byId'[p] = byId[p] /\ descriptor'[byId[p]] = descriptor[byId[p]]
    <3>1. byId[p] \in Load /\ byId[p] # l
      BY <2>2, <1>5 DEF RegistryInv, Registry!TypeOK
    <3>2. p # d.id
      BY <2>2, <1>4
    <3> QED BY <3>1, <3>2, <1>1, <1>4 DEF RegistryInv, Registry!TypeOK
  <2> QED BY <2>1, <2>2, <1>3, AnnounceFollows DEF RegistryInv
<1>7. Registry!TypeOK'
  BY <1>1, <1>2, <1>3, <1>4, <1>6 DEF RegistryInv, Registry!TypeOK, Registry!Present
<1>8. Owned'
  BY <1>1, <1>2, <1>3, <1>4 DEF RegistryInv, Registry!TypeOK, Owned, Registry!Present
<1>9. AllServe'
  <2> SUFFICES ASSUME NEW k \in Load, stage'[k] \in Registry!Present PROVE Registry!Serves(k)'
    BY DEF AllServe
  <2>1. CASE k = l
    BY <2>1, <1>1, <1>2, <1>3, <1>4 DEF RegistryInv, Registry!TypeOK, Registry!Serves
  <2>2. CASE k # l
    <3>1. stage[k] \in Registry!Present /\ stage'[k] = stage[k] /\ descriptor'[k] = descriptor[k] /\ Registry!Serves(k)
      BY <2>2, <1>1, <1>3 DEF RegistryInv, Registry!TypeOK, AllServe
    <3>2. descriptor[k] \in Registry!Descriptor /\ descriptor[k].id \in Identity /\ descriptor[k].routes \subseteq Route
      BY <3>1 DEF RegistryInv, Registry!TypeOK, Registry!Present, Registry!Descriptor
    <3>3. descriptor[k].id # d.id /\ \A r \in descriptor[k].routes : r \notin d.routes
      BY <3>1, <1>4, RegistryAssumption DEF Registry!Serves
    <3> QED
      BY <3>1, <3>2, <3>3, <1>1, <1>2, <1>4 DEF RegistryInv, Registry!TypeOK, Registry!Serves
  <2> QED BY <2>1, <2>2
<1> QED BY <1>6, <1>7, <1>8, <1>9 DEF RegistryInv

\* A refused load declares something and has nothing.
LEMMA RegisterFailsPreserves ==
  ASSUME RegistryInv, NEW l \in Load, Registry!RegisterFails(l)
  PROVE  RegistryInv'
<1>1. PICK d \in Registry!Descriptor : descriptor' = [descriptor EXCEPT ![l] = d]
  BY DEF Registry!RegisterFails
<1>2. /\ stage[l] = "idle" /\ stage' = [stage EXCEPT ![l] = "failed"]
      /\ UNCHANGED Registry!registry /\ Registry!Announce /\ UNCHANGED <<adapters, hostUp>>
  BY DEF Registry!RegisterFails
<1>3. \A p \in Identity : l \notin {byId[p], modelListers[p]}
  BY <1>2 DEF RegistryInv, Owned, Registry!Present
<1>4. \A r \in Route : l \notin {byRoute[r], adapters[r]}
  BY <1>2 DEF RegistryInv, Owned, Registry!Present
<1>5. /\ registered' \in [Identity -> Load \cup {None}]
      /\ cached' \in [Identity -> Load \cup {None}]
      /\ Roster'
  <2>1. byId' \in [Identity -> Load \cup {None}]
    BY <1>2 DEF Registry!registry, RegistryInv, Registry!TypeOK
  <2>2. ASSUME NEW p \in Identity, byId[p] # None, byId'[p] # None
        PROVE  byId'[p] = byId[p] /\ descriptor'[byId[p]] = descriptor[byId[p]]
    BY <2>2, <1>1, <1>2, <1>3 DEF Registry!registry, RegistryInv, Registry!TypeOK
  <2> QED BY <2>1, <2>2, <1>2, AnnounceFollows DEF RegistryInv
<1>6. Registry!TypeOK'
  BY <1>1, <1>2, <1>5, RegistryAssumption DEF Registry!registry, RegistryInv, Registry!TypeOK
<1>7. Owned'
  BY <1>1, <1>2, <1>3, <1>4 DEF Registry!registry, RegistryInv, Registry!TypeOK, Owned
<1>8. AllServe'
  BY <1>1, <1>2 DEF Registry!registry, RegistryInv, Registry!TypeOK, AllServe, Registry!Serves,
     Registry!Present
<1> QED BY <1>5, <1>6, <1>7, <1>8 DEF RegistryInv

\* Forgetting a load leaves the registry of the others as it was.
LEMMA ForgetKeepsOthers ==
  ASSUME RegistryInv, NEW l \in Load, stage[l] # "idle", Registry!Forget(l)
  PROVE  /\ byId' \in [Identity -> Load \cup {None}]
         /\ byRoute' \in [Route -> Load \cup {None}]
         /\ modelListers' \in [Identity -> Load \cup {None}]
         /\ \A p \in Identity : byId'[p] = IF byId[p] = l THEN None ELSE byId[p]
         /\ \A p \in Identity : modelListers'[p] = IF modelListers[p] = l THEN None ELSE modelListers[p]
         /\ \A r \in Route : byRoute'[r] = IF byRoute[r] = l THEN None ELSE byRoute[r]
<1> DEFINE d == descriptor[l]
<1>1. d \in Registry!Descriptor /\ d.id \in Identity
  BY DEF RegistryInv, Registry!TypeOK, Registry!Descriptor
<1>2. \A p \in Identity : l \in {byId[p], modelListers[p]} => p = d.id /\ byId[d.id] = l
  BY DEF RegistryInv, Owned, AllServe, Registry!Serves
<1>3. \A r \in Route : byRoute[r] = l => r \in d.routes /\ byId[d.id] = l
  BY DEF RegistryInv, Owned, AllServe, Registry!Serves
<1>4. CASE byId[d.id] # l
  BY <1>2, <1>3, <1>4 DEF Registry!Forget, Registry!registry, RegistryInv, Registry!TypeOK
<1>5. CASE byId[d.id] = l
  <2>1. /\ byId' = [byId EXCEPT ![d.id] = None]
        /\ modelListers' = [modelListers EXCEPT ![d.id] = None]
        /\ byRoute' = [r \in Route |-> IF r \in d.routes /\ byRoute[r] = l THEN None ELSE byRoute[r]]
    BY <1>5 DEF Registry!Forget
  <2>2. modelListers[d.id] \in {l, None}
    <3> SUFFICES ASSUME NEW k \in Load, modelListers[d.id] = k PROVE k = l
      BY <1>1 DEF RegistryInv, Registry!TypeOK
    <3>1. stage[k] \in Registry!Present /\ descriptor[k].id = d.id
      BY <1>1 DEF RegistryInv, Owned
    <3> QED BY <3>1, <1>5 DEF RegistryInv, AllServe, Registry!Serves
  <2>3. \A p \in Identity : byId'[p] = IF byId[p] = l THEN None ELSE byId[p]
    BY <1>1, <1>2, <1>5, <2>1 DEF RegistryInv, Registry!TypeOK
  <2>4. \A p \in Identity : modelListers'[p] = IF modelListers[p] = l THEN None ELSE modelListers[p]
    BY <1>1, <1>2, <2>1, <2>2 DEF RegistryInv, Registry!TypeOK
  <2>5. \A r \in Route : byRoute'[r] = IF byRoute[r] = l THEN None ELSE byRoute[r]
    BY <1>3, <2>1 DEF RegistryInv, Registry!TypeOK
  <2> QED BY <1>1, <2>1, <2>3, <2>4, <2>5 DEF RegistryInv, Registry!TypeOK
<1> QED BY <1>4, <1>5

\* A load that leaves the registry, with its adapter or without, when its announcement
\* follows.
LEMMA WithdrawPreserves ==
  ASSUME RegistryInv, NEW l \in Load,
         stage[l] \notin {"idle", "active"},
         NEW left \in {"failed", "unloaded", "orphaned"},
         stage' = [stage EXCEPT ![l] = left],
         \/ adapters' = Registry!DisposeAdapter(l)
         \/ adapters' = adapters /\ (left = "failed" \/ stage[l] \in {"leaving", "leavingEarly"}),
         Registry!Forget(l), Registry!Announce, UNCHANGED <<descriptor, hostUp>>
  PROVE  RegistryInv'
<1>1. /\ byId' \in [Identity -> Load \cup {None}]
      /\ byRoute' \in [Route -> Load \cup {None}]
      /\ modelListers' \in [Identity -> Load \cup {None}]
      /\ \A p \in Identity : byId'[p] = IF byId[p] = l THEN None ELSE byId[p]
      /\ \A p \in Identity : modelListers'[p] = IF modelListers[p] = l THEN None ELSE modelListers[p]
      /\ \A r \in Route : byRoute'[r] = IF byRoute[r] = l THEN None ELSE byRoute[r]
  BY ForgetKeepsOthers
<1>2. /\ adapters' \in [Route -> Load \cup {None}]
      /\ \A r \in Route : adapters'[r] \in {None, adapters[r]}
      /\ \A r \in Route : adapters[r] # l => adapters'[r] = adapters[r]
      /\ \A r \in Route : adapters'[r] = l => left = "failed" /\ adapters[r] = l
  BY RegistryAssumption DEF Registry!DisposeAdapter, RegistryInv, Registry!TypeOK, Owned
<1>3. /\ registered' \in [Identity -> Load \cup {None}]
      /\ cached' \in [Identity -> Load \cup {None}]
      /\ Roster'
  BY <1>1, AnnounceFollows DEF RegistryInv
<1>4. Registry!TypeOK'
  BY <1>1, <1>2, <1>3 DEF RegistryInv, Registry!TypeOK, Registry!Present
<1>5. Owned'
  BY <1>1, <1>2, RegistryAssumption DEF RegistryInv, Registry!TypeOK, Owned
<1>6. AllServe'
  <2> SUFFICES ASSUME NEW k \in Load, stage'[k] \in Registry!Present PROVE Registry!Serves(k)'
    BY DEF AllServe
  <2>1. k # l /\ stage'[k] = stage[k] /\ Registry!Serves(k)
    BY DEF RegistryInv, Registry!TypeOK, AllServe, Registry!Present
  <2>2. descriptor[k].id \in Identity /\ descriptor[k].routes \subseteq Route
    BY <2>1 DEF RegistryInv, Registry!TypeOK, Registry!Present, Registry!Descriptor
  <2> QED BY <2>1, <2>2, <1>1, <1>2 DEF Registry!Serves
<1> QED BY <1>3, <1>4, <1>5, <1>6 DEF RegistryInv

\* Unloading begins with the adapter, while the entry is still listed.
LEMMA UnloadPreserves ==
  ASSUME RegistryInv, NEW l \in Load, Registry!Unload(l)
  PROVE  RegistryInv'
<1>1. /\ stage[l] \in {"installing", "active"}
      /\ stage' = [stage EXCEPT ![l] = IF @ = "installing" THEN "leavingEarly" ELSE "leaving"]
      /\ adapters' = Registry!DisposeAdapter(l)
      /\ UNCHANGED <<descriptor, Registry!registry, hostUp, Registry!host>>
  BY DEF Registry!Unload
<1>2. Registry!TypeOK'
  BY <1>1 DEF RegistryInv, Registry!TypeOK, Registry!DisposeAdapter, Registry!registry, Registry!host,
     Registry!Present
<1>3. Owned'
  BY <1>1, RegistryAssumption DEF RegistryInv, Registry!TypeOK, Owned, Registry!DisposeAdapter,
     Registry!registry, Registry!Present
<1>4. AllServe'
  <2> SUFFICES ASSUME NEW k \in Load, stage'[k] \in Registry!Present PROVE Registry!Serves(k)'
    BY DEF AllServe
  <2>1. Registry!Serves(k) /\ descriptor[k].routes \subseteq Route
    BY <1>1 DEF RegistryInv, Registry!TypeOK, AllServe, Registry!Present, Registry!Descriptor
  <2> QED BY <2>1, <1>1 DEF RegistryInv, Registry!TypeOK, Registry!Serves, Registry!DisposeAdapter,
             Registry!registry, Registry!Present
<1>5. Roster'
  BY <1>1 DEF RegistryInv, Roster, Registry!RosterFollowsRegistry, Registry!registry, Registry!host
<1> QED BY <1>2, <1>3, <1>4, <1>5 DEF RegistryInv

-----------------------------------------------------------------------------
(* Every step *)

LEMMA RegistryInit == Registry!Init => RegistryInv
  BY RegistryAssumption DEF Registry!Init, RegistryInv, Registry!TypeOK, Owned, AllServe, Roster,
     Registry!RosterFollowsRegistry, Registry!Present

LEMMA RegistryNext == RegistryInv /\ [Registry!Next]_(Registry!vars) => RegistryInv'
<1> SUFFICES ASSUME RegistryInv, [Registry!Next]_(Registry!vars) PROVE RegistryInv'
  OBVIOUS
<1>1. CASE Registry!HostMount
  <2>1. registered' \in [Identity -> Load \cup {None}]
    BY <1>1 DEF Registry!HostMount, Registry!Reconciled, Registry!registry, RegistryInv, Registry!TypeOK
  <2>2. \A p \in Identity :
          registered'[p] = IF byId[p] # None /\ descriptor[byId[p]].usage THEN byId[p] ELSE None
    BY <1>1 DEF Registry!HostMount, Registry!Reconciled, Registry!HasUsage, RegistryInv, Roster
  <2>3. Roster'
    BY <1>1, <2>2 DEF Registry!HostMount, Registry!registry, RegistryInv, Registry!TypeOK, Roster,
       Registry!RosterFollowsRegistry
  <2> QED
    BY <1>1, <2>1, <2>3 DEF Registry!HostMount, Registry!registry, RegistryInv, Registry!TypeOK, Owned,
       AllServe, Registry!Serves
<1>2. CASE Registry!HostUnmount
  BY <1>2 DEF Registry!HostUnmount, Registry!registry, RegistryInv, Registry!TypeOK, Owned, AllServe,
     Registry!Serves, Roster, Registry!RosterFollowsRegistry
<1>3. ASSUME NEW p \in Identity, Registry!Refresh(p) PROVE RegistryInv'
  BY <1>3 DEF Registry!Refresh, Registry!registry, RegistryInv, Registry!TypeOK, Owned, AllServe,
     Registry!Serves, Roster, Registry!RosterFollowsRegistry
<1>4. ASSUME NEW l \in Load, Registry!InstallDone(l) PROVE RegistryInv'
  BY <1>4 DEF Registry!InstallDone, Registry!registry, Registry!host, RegistryInv, Registry!TypeOK, Owned,
     AllServe, Registry!Serves, Roster,
              Registry!RosterFollowsRegistry, Registry!Present
<1>5. ASSUME NEW l \in Load, Registry!Rollback(l) PROVE RegistryInv'
  BY <1>5, WithdrawPreserves DEF Registry!Rollback
<1>6. ASSUME NEW l \in Load, Registry!Unloaded(l) PROVE RegistryInv'
  BY <1>6, WithdrawPreserves DEF Registry!Unloaded
<1>7. ASSUME NEW l \in Load, Registry!OrphanDone(l) PROVE RegistryInv'
  BY <1>7 DEF Registry!OrphanDone, Registry!registry, Registry!host, RegistryInv, Registry!TypeOK, Owned,
     AllServe, Registry!Serves, Roster,
              Registry!RosterFollowsRegistry, Registry!Present
<1>8. ASSUME NEW l \in Load, Registry!OrphanRollback(l) PROVE RegistryInv'
  BY <1>8, WithdrawPreserves DEF Registry!OrphanRollback
<1>9. ASSUME NEW l \in Load, Registry!Invalidate(l) PROVE RegistryInv'
  <2>1. descriptor[l].id \in Identity
    BY <1>9 DEF Registry!Invalidate, RegistryInv, Registry!TypeOK, Registry!Descriptor
  <2> QED
    BY <1>9, <2>1 DEF Registry!Invalidate, Registry!registry, RegistryInv, Registry!TypeOK, Owned, AllServe,
       Registry!Serves, Roster,
                      Registry!RosterFollowsRegistry
<1>10. CASE UNCHANGED Registry!vars
  BY <1>10 DEF Registry!vars, RegistryInv, Registry!TypeOK, Owned, AllServe, Registry!Serves, Roster,
     Registry!RosterFollowsRegistry
<1> QED
  BY <1>1, <1>2, <1>3, <1>4, <1>5, <1>6, <1>7, <1>8, <1>9, <1>10,
     RegisterPreserves, RegisterFailsPreserves, UnloadPreserves DEF Registry!Next

LEMMA RegistryInductive == Registry!Spec => []RegistryInv
<1>1. Registry!Init => RegistryInv
  BY RegistryInit
<1>2. RegistryInv /\ [Registry!Next]_(Registry!vars) => RegistryInv'
  BY RegistryNext
<1> QED BY <1>1, <1>2, PTL DEF Registry!Spec

-----------------------------------------------------------------------------
(* What follows *)

\* Every load that is present serves its id, its catalog and its routes, however many
\* loads of the same provider install, fail and leave beside it (PresentServes).
LEMMA PresentServeLoads == Registry!Spec => []Registry!PresentServes
<1>1. RegistryInv => Registry!PresentServes
  BY DEF RegistryInv, Registry!PresentServes, AllServe
<1> QED BY <1>1, RegistryInductive, PTL

\* A load that failed or left is found neither in the registry nor in the roster
\* (GoneLeavesNothing).
LEMMA NothingIsLeft == Registry!Spec => []Registry!GoneLeavesNothing
<1>1. ASSUME RegistryInv PROVE Registry!GoneLeavesNothing
  <2> SUFFICES ASSUME NEW l \in Load, stage[l] \in {"failed", "unloaded", "orphaned"}
               PROVE  /\ \A p \in Identity : l \notin {byId[p], modelListers[p], registered[p], cached[p]}
                      /\ \A r \in Route : byRoute[r] # l
                      /\ stage[l] # "failed" => \A r \in Route : adapters[r] # l
    BY DEF Registry!GoneLeavesNothing
  <2>1. /\ \A p \in Identity : l \notin {byId[p], modelListers[p]}
        /\ \A r \in Route : byRoute[r] # l
        /\ stage[l] # "failed" => \A r \in Route : adapters[r] # l
    BY <1>1 DEF RegistryInv, Owned, Registry!Present
  <2>2. \A p \in Identity : registered[p] \in {None, byId[p]} /\ cached[p] \in {None, registered[p]}
    BY <1>1 DEF RegistryInv, Registry!TypeOK, Roster, Registry!RosterFollowsRegistry
  <2> QED BY <2>1, <2>2, RegistryAssumption
<1>2. RegistryInv => Registry!GoneLeavesNothing
  BY <1>1
<1> QED BY <1>2, RegistryInductive, PTL

\* The usage that the host shows is always the registered provider's
\* (RosterFollowsRegistry).
LEMMA RosterFollows == Registry!Spec => []Registry!RosterFollowsRegistry
<1>1. RegistryInv => Registry!RosterFollowsRegistry
  BY DEF RegistryInv, Roster
<1> QED BY <1>1, RegistryInductive, PTL

\* ProviderRegistry!PresentServes and GoneLeavesNothing, however many loads of one provider
\* install, fail and leave beside each other: a present load serves its id, its catalog and its
\* routes, and nothing of one that failed or left is found in the registry or the roster.
THEOREM PresentOnesServe == Registry!Spec => []PresentServes
BY PresentServeLoads, NothingIsLeft, PTL DEF PresentServes

\* ProviderRegistry!RosterFollowsRegistry: the usage the host shows is the registered
\* provider's, from the first announcement to the last.
THEOREM RosterIsRegistry == Registry!Spec => []RosterFollowsRegistry
BY RosterFollows, PTL DEF RosterFollowsRegistry

-----------------------------------------------------------------------------
(* VendorSearch *)

QueryState ==
  [stage : {"idle", "opening", "resolving", "waiting", "reading", "disposing", "removing", "done"},
   code : Search!Outcome \cup {None}, exe : Executable \cup {None}, on : Nat \cup {None},
   dir : BOOLEAN, child : {"none", "alive", "gone", "terminated"}]

PreflightState == [exe : Executable, stage : {"running", "clearing", "settled"}, good : BOOLEAN]

CallState ==
  [stage : {"idle", "running", "done"}, backend : Search!Backend \cup {None}, queries : SUBSET Query,
   aborted : BOOLEAN, batchAborted : BOOLEAN, outcome : Search!Outcome \cup {None}]

\* The type of the state.
SearchTypeInv ==
  /\ search \in [Searcher -> CallState]
  /\ query \in [Searcher -> [Query -> QueryState]]
  /\ installed \in Executable /\ verified \in Executable \cup {None}
  /\ preflight \in Seq(PreflightState)
  /\ pending \in DOMAIN preflight \cup {None}

\* A preflight found this executable to be codex.
Verified(exe) == \E p \in DOMAIN preflight : preflight[p].exe = exe /\ preflight[p].good

QueryOK(c, q) ==
  LET s == query[c][q]
  IN  /\ s.stage \in {"idle", "opening", "resolving", "waiting"} => s.child = "none"
      /\ s.stage \in {"reading", "disposing"} => s.child = "alive"
      /\ s.stage = "waiting" => s.on \in DOMAIN preflight /\ preflight[s.on].exe = s.exe
      /\ s.stage \in {"removing", "done"} => s.child # "alive"
      /\ s.stage \in {"disposing", "removing", "done"} => s.code # None
      /\ s.stage = "done" => ~s.dir
      /\ s.child = "terminated" => search[c].backend = "antigravity" \/ s.code # "ok"
      /\ s.code = "aborted" => Search!Aborted(c)
      /\ s.exe # None /\ s.child # "none" => Verified(s.exe)

CallOK(c) ==
  /\ search[c].batchAborted => search[c].outcome # None
  /\ search[c].outcome = "aborted" => search[c].aborted
  /\ search[c].stage = "done" => \A q \in search[c].queries : query[c][q].stage = "done"

PreflightsOK ==
  /\ verified # None => Verified(verified)
  /\ \A p \in DOMAIN preflight : preflight[p].stage = "running" => ~preflight[p].good
  /\ pending # None => preflight[pending].stage # "settled"

SearchInv ==
  /\ SearchTypeInv
  /\ \A c \in Searcher : CallOK(c) /\ \A q \in Query : QueryOK(c, q)
  /\ PreflightsOK

\* What is known of a call.
LEMMA SearchCallTyped ==
  ASSUME SearchInv, NEW c \in Searcher
  PROVE  /\ search[c] \in CallState /\ search[c].stage \in {"idle", "running", "done"}
         /\ search[c].backend \in Search!Backend \cup {None} /\ search[c].queries \subseteq Query
         /\ search[c].aborted \in BOOLEAN /\ search[c].batchAborted \in BOOLEAN
         /\ search[c].outcome \in Search!Outcome \cup {None}
  BY DEF SearchInv, SearchTypeInv, CallState

LEMMA PreflightsTyped ==
  ASSUME SearchInv
  PROVE  /\ DOMAIN preflight = 1 .. Len(preflight)
         /\ \A p \in DOMAIN preflight :
              /\ preflight[p] \in PreflightState
              /\ preflight[p].exe \in Executable
              /\ preflight[p].good \in BOOLEAN
<1>1. \A p \in DOMAIN preflight : preflight[p] \in PreflightState
  BY ElementTyped DEF SearchInv, SearchTypeInv
<1> QED BY <1>1, ElementTyped DEF PreflightState, SearchInv, SearchTypeInv

LEMMA SearchInit == Search!Init => SearchInv
<1> SUFFICES ASSUME Search!Init PROVE SearchInv
  OBVIOUS
<1>1. SearchTypeInv
  BY DEF Search!Init, SearchTypeInv, QueryState, Search!NoQuery, CallState
<1>2. \A c \in Searcher : CallOK(c) /\ \A q \in Query : QueryOK(c, q)
  BY SearchAssumption DEF Search!Init, CallOK, QueryOK, Search!NoQuery, Search!Outcome
<1>3. PreflightsOK
  BY DEF Search!Init, PreflightsOK
<1> QED BY <1>1, <1>2, <1>3 DEF SearchInv

\* A step that lengthens the list of preflights, or changes one, and forgets none that was good.
PreflightsGrow ==
  /\ preflight' \in Seq(PreflightState)
  /\ \A p \in DOMAIN preflight :
       /\ p \in DOMAIN preflight' /\ preflight'[p].exe = preflight[p].exe
       /\ preflight[p].good => preflight'[p].good

LEMMA GrowKeepsVerified ==
  ASSUME PreflightsGrow
  PROVE  \A exe \in Executable : Verified(exe) => Verified(exe)'
  BY DEF PreflightsGrow, Verified

\* A step of one query disturbs no other query.
LEMMA QueryStep ==
  ASSUME SearchInv, NEW c \in Searcher, NEW q \in Query, NEW next \in QueryState,
         query[c][q].stage # "done", Search!Set(c, q, next), UNCHANGED <<search, installed, verified>>,
         PreflightsGrow, pending' \in DOMAIN preflight' \cup {None}, PreflightsOK', QueryOK(c, q)'
  PROVE  SearchInv'
<1>1. SearchTypeInv'
  BY DEF SearchInv, SearchTypeInv, Search!Set, PreflightsGrow
<1>2. \A d \in Searcher, r \in Query : d # c \/ r # q => query'[d][r] = query[d][r]
  BY DEF SearchInv, SearchTypeInv, Search!Set
<1>3. ASSUME NEW d \in Searcher, NEW r \in Query PROVE QueryOK(d, r)'
  <2>1. CASE d = c /\ r = q
    BY <2>1
  <2>2. CASE d # c \/ r # q
    <3>1. query'[d][r] = query[d][r] /\ query[d][r].exe \in Executable \cup {None}
      BY <1>2, <2>2 DEF SearchInv, SearchTypeInv, QueryState
    <3> QED BY <3>1, GrowKeepsVerified DEF SearchInv, QueryOK, PreflightsGrow, Search!Aborted, Verified
  <2> QED BY <2>1, <2>2
<1>4. ASSUME NEW d \in Searcher PROVE CallOK(d)'
  BY <1>2, SearchCallTyped DEF SearchInv, CallOK
<1> QED BY <1>1, <1>3, <1>4 DEF SearchInv

LEMMA RestGrows ==
  ASSUME SearchInv, Search!Rest
  PROVE  /\ UNCHANGED <<search, installed, verified>> /\ PreflightsGrow
         /\ pending' \in DOMAIN preflight' \cup {None} /\ PreflightsOK'
  BY DEF SearchInv, SearchTypeInv, Search!Rest, PreflightsGrow, PreflightsOK, Verified

\* What is known of a query.
LEMMA QueryTyped ==
  ASSUME SearchInv, NEW c \in Searcher, NEW q \in Query
  PROVE  /\ query[c][q] \in QueryState /\ QueryOK(c, q) /\ Search!Aborted(c) \in BOOLEAN
         /\ query[c][q].code \in Search!Outcome \cup {None} /\ query[c][q].exe \in Executable \cup {None}
         /\ query[c][q].on \in Nat \cup {None} /\ query[c][q].dir \in BOOLEAN
         /\ query[c][q].child \in {"none", "alive", "gone", "terminated"}
         /\ \A next \in QueryState : Search!Set(c, q, next) => query'[c][q] = next
  BY DEF SearchInv, SearchTypeInv, QueryState, Search!Aborted, Search!Set

\* A query fails before it has a child, or because it gets none.
LEMMA LeavePreserves ==
  ASSUME SearchInv, NEW c \in Searcher, NEW q \in Query, NEW code \in {"failed", "aborted"},
         Search!Leave(c, q, code), query[c][q].stage \in {"opening", "resolving", "waiting"},
         code = "aborted" => Search!Aborted(c), UNCHANGED <<search, installed, verified>>,
         PreflightsGrow, pending' \in DOMAIN preflight' \cup {None}, PreflightsOK'
  PROVE  SearchInv'
<1> DEFINE next == [query[c][q] EXCEPT !.stage = "removing", !.code = code]
<1>1. next \in QueryState
  BY QueryTyped DEF QueryState, Search!Outcome
<1>2. QueryOK(c, q)'
  BY <1>1, QueryTyped, SearchAssumption DEF QueryOK, Search!Leave, Search!Aborted, QueryState, Search!Outcome
<1> QED BY <1>1, <1>2, QueryStep DEF Search!Leave

\* A child is spawned, of a verified executable if it is codex's; or the query fails.
LEMMA SpawnPreserves ==
  ASSUME SearchInv, NEW c \in Searcher, NEW q \in Query, NEW exe \in Executable \cup {None},
         Search!Spawn(c, q, exe), query[c][q].stage \in {"resolving", "waiting"},
         exe # None => Verified(exe), Search!Rest
  PROVE  SearchInv'
<1>1. CASE Search!Leave(c, q, Search!FailureCode(c))
  BY <1>1, LeavePreserves, RestGrows DEF Search!FailureCode
<1>2. CASE Search!Set(c, q, [query[c][q] EXCEPT !.stage = "reading", !.exe = exe, !.child = "alive"])
  <2> DEFINE next == [query[c][q] EXCEPT !.stage = "reading", !.exe = exe, !.child = "alive"]
  <2>1. next \in QueryState
    BY QueryTyped DEF QueryState
  <2>2. QueryOK(c, q)'
    <3>1. query'[c][q] = next /\ query[c][q] \in QueryState /\ QueryOK(c, q)
      BY <1>2, <2>1, QueryTyped
    <3>2. /\ next.stage = "reading" /\ next.exe = exe /\ next.child = "alive"
          /\ next.code = query[c][q].code
      BY <3>1 DEF QueryState
    <3> HIDE DEF next
    <3> QED BY <3>1, <3>2 DEF QueryOK, Search!Rest, Search!Aborted, Verified
  <2> QED BY <1>2, <2>1, <2>2, QueryStep, RestGrows
<1> QED BY <1>1, <1>2 DEF Search!Spawn

\* The steps of a query that change nothing but the query.
LEMMA QuerySteps ==
  ASSUME SearchInv, NEW c \in Searcher, NEW q \in search[c].queries,
         \/ Search!Open(c, q) \/ Search!Resolve(c, q) \/ Search!ResolveFails(c, q) \/ Search!Wait(c, q)
         \/ Search!Read(c, q) \/ Search!Dispose(c, q)
  PROVE  SearchInv'
<1> DEFINE s == query[c][q]
<1>1. /\ q \in Query /\ s \in QueryState /\ QueryOK(c, q) /\ Search!Aborted(c) \in BOOLEAN
      /\ s.code \in Search!Outcome \cup {None} /\ s.exe \in Executable \cup {None}
      /\ \A next \in QueryState : Search!Set(c, q, next) => query'[c][q] = next
  BY QueryTyped, SearchCallTyped
<1>2. Search!Rest
  BY DEF Search!Open, Search!Resolve, Search!ResolveFails, Search!Wait, Search!Read, Search!Dispose
<1>3. CASE Search!Open(c, q)
  <2>1. CASE Search!Set(c, q, [s EXCEPT !.stage = "resolving", !.dir = TRUE])
    <3> DEFINE next == [s EXCEPT !.stage = "resolving", !.dir = TRUE]
    <3>1. next \in QueryState
      BY <1>1 DEF QueryState
    <3>2. QueryOK(c, q)'
      BY <1>1, <1>2, <1>3, <2>1, <3>1, SearchAssumption DEF Search!Open, QueryOK, Search!Rest, Search!Aborted,
         Verified, QueryState, Search!Outcome
    <3> QED BY <1>1, <1>3, <2>1, <3>1, <3>2, <1>2, RestGrows, QueryStep DEF Search!Open
  <2>2. CASE Search!Leave(c, q, "failed")
    BY <1>1, <1>2, <1>3, <2>2, LeavePreserves, RestGrows DEF Search!Open
  <2>3. CASE Search!Set(c, q, [s EXCEPT !.stage = "removing", !.dir = TRUE, !.code = "failed"])
    <3> DEFINE next == [s EXCEPT !.stage = "removing", !.dir = TRUE, !.code = "failed"]
    <3>1. next \in QueryState
      BY <1>1 DEF QueryState, Search!Outcome
    <3>2. QueryOK(c, q)'
      BY <1>1, <1>2, <1>3, <2>3, <3>1, SearchAssumption DEF Search!Open, QueryOK, Search!Rest, Search!Aborted,
         Verified, QueryState, Search!Outcome
    <3> QED BY <1>1, <1>3, <2>3, <3>1, <3>2, <1>2, RestGrows, QueryStep DEF Search!Open
  <2> QED BY <1>3, <2>1, <2>2, <2>3 DEF Search!Open
<1>4. CASE Search!Resolve(c, q)
  BY <1>1, <1>4, SpawnPreserves DEF Search!Resolve
<1>5. CASE Search!ResolveFails(c, q)
  BY <1>1, <1>2, <1>5, LeavePreserves, RestGrows DEF Search!ResolveFails, Search!FailureCode
<1>6. CASE Search!Wait(c, q)
  <2>1. /\ s.stage = "waiting" /\ s.on \in DOMAIN preflight /\ preflight[s.on].exe = s.exe
        /\ s.exe \in Executable
    <3>1. s.stage = "waiting" /\ s.on \in DOMAIN preflight /\ preflight[s.on].exe = s.exe
      BY <1>1, <1>6 DEF Search!Wait, QueryOK
    <3>2. \A p \in DOMAIN preflight : preflight[p].exe \in Executable
      BY PreflightsTyped
    <3> HIDE DEF s
    <3> QED BY <3>1, <3>2
  <2>2. CASE preflight[s.on].good /\ Search!Spawn(c, q, s.exe)
    BY <1>1, <1>6, <2>1, <2>2, SpawnPreserves DEF Search!Wait, Verified
  <2>3. CASE Search!Leave(c, q, Search!FailureCode(c))
    BY <1>1, <1>2, <1>6, <2>1, <2>3, LeavePreserves, RestGrows DEF Search!Wait, Search!FailureCode
  <2> QED BY <1>6, <2>2, <2>3 DEF Search!Wait
<1>7. CASE Search!Read(c, q)
  <2>1. PICK code \in Search!Readings(c) : Search!Set(c, q, [s EXCEPT !.stage = "disposing", !.code = code])
    BY <1>7 DEF Search!Read
  <2>2. code \in Search!Outcome /\ code # None /\ (code = "aborted" => Search!Aborted(c))
    <3>1. CASE ~Search!Aborted(c)
      BY <3>1, SearchAssumption DEF Search!Readings, Search!Outcome
    <3>2. CASE Search!Aborted(c) /\ search[c].backend = "grok"
      BY <3>2, SearchAssumption DEF Search!Readings, Search!Outcome
    <3>3. CASE Search!Aborted(c) /\ search[c].backend # "grok"
      BY <3>3, SearchAssumption DEF Search!Readings, Search!Outcome
    <3> QED BY <3>1, <3>2, <3>3
  <2> DEFINE next == [s EXCEPT !.stage = "disposing", !.code = code]
  <2>3. next \in QueryState
    BY <1>1, <2>2 DEF QueryState
  <2>4. s.child # "terminated" \/ code # "ok" \/ search[c].backend = "antigravity"
    BY <1>1, <1>7 DEF Search!Read, QueryOK
  <2>5. QueryOK(c, q)'
    BY <1>1, <1>2, <1>7, <2>1, <2>2, <2>3, <2>4 DEF Search!Read, QueryOK, Search!Rest, Search!Aborted,
       Verified, QueryState
  <2> QED BY <1>1, <1>7, <2>1, <2>3, <2>5, <1>2, RestGrows, QueryStep DEF Search!Read
<1>8. CASE Search!Dispose(c, q)
  <2>1. ASSUME NEW next \in QueryState, Search!Set(c, q, next), next.stage = "removing", next.exe = s.exe,
               next.child \in {"gone", "terminated"}, next.code \in {s.code, "failed"},
               next.code # None,
               next.child = "terminated" => search[c].backend = "antigravity" \/ next.code # "ok"
        PROVE  SearchInv'
    <3>1. QueryOK(c, q)'
      BY <1>1, <1>2, <1>8, <2>1 DEF Search!Dispose, QueryOK, Search!Rest, Search!Aborted, Verified
    <3> QED BY <1>1, <1>8, <2>1, <3>1, <1>2, RestGrows, QueryStep DEF Search!Dispose
  <2>5. s.code # None /\ "failed" # None
    BY <1>1, <1>8, SearchAssumption DEF Search!Dispose, QueryOK, Search!Outcome
  <2>2. CASE Search!Set(c, q, [s EXCEPT !.stage = "removing", !.child = "gone"])
    BY <1>1, <2>1, <2>2, <2>5 DEF QueryState
  <2>3. CASE search[c].backend = "antigravity" /\ Search!Set(c, q, [s EXCEPT !.stage = "removing", !.child = "terminated"])
    BY <1>1, <2>1, <2>3, <2>5 DEF QueryState
  <2>4. CASE Search!Set(c, q, [s EXCEPT !.stage = "removing", !.child = "terminated",
                                 !.code = IF s.code = "ok" THEN "failed" ELSE s.code])
    BY <1>1, <1>2, <2>1, <2>4, <2>5 DEF QueryState, Search!Outcome
  <2> QED BY <1>8, <2>2, <2>3, <2>4 DEF Search!Dispose
<1> QED BY <1>3, <1>4, <1>5, <1>6, <1>7, <1>8

\* A step of the preflights leaves every query and every call as it was.
LEMMA PreflightStep ==
  ASSUME SearchInv, PreflightsGrow, UNCHANGED <<search, query>>,
         installed' \in Executable, verified' \in Executable \cup {None},
         pending' \in DOMAIN preflight' \cup {None}, PreflightsOK'
  PROVE  SearchInv'
<1>1. SearchTypeInv'
  BY DEF SearchInv, SearchTypeInv, PreflightsGrow
<1>2. ASSUME NEW c \in Searcher, NEW q \in Query PROVE QueryOK(c, q)'
  <2>1. query[c][q].exe \in Executable \cup {None}
    BY DEF SearchInv, SearchTypeInv, QueryState
  <2> QED BY <2>1, GrowKeepsVerified DEF SearchInv, QueryOK, PreflightsGrow, Search!Aborted, Verified
<1>3. ASSUME NEW c \in Searcher PROVE CallOK(c)'
  BY DEF SearchInv, CallOK
<1> QED BY <1>1, <1>2, <1>3 DEF SearchInv

LEMMA VerifyPreserves ==
  ASSUME SearchInv, NEW p \in DOMAIN preflight, NEW good \in BOOLEAN, Search!Verify(p, good)
  PROVE  SearchInv'
<1>1. preflight' = [preflight EXCEPT ![p].stage = "clearing", ![p].good = good]
  BY DEF Search!Verify
<1>2. /\ preflight' \in Seq(PreflightState) /\ DOMAIN preflight' = DOMAIN preflight
      /\ preflight'[p] = [preflight[p] EXCEPT !.stage = "clearing", !.good = good]
      /\ \A r \in DOMAIN preflight : r # p => preflight'[r] = preflight[r]
  BY <1>1, PreflightsTyped DEF SearchInv, SearchTypeInv, PreflightState
<1>3. preflight[p] \in PreflightState /\ ~preflight[p].good
  BY PreflightsTyped DEF Search!Verify, SearchInv, PreflightsOK
<1>4. preflight'[p].exe = preflight[p].exe /\ preflight'[p].stage = "clearing" /\ preflight'[p].good = good
  BY <1>2, <1>3 DEF PreflightState
<1>5. PreflightsGrow
  BY <1>2, <1>3, <1>4 DEF PreflightsGrow
<1>6. PreflightsOK'
  <2>1. verified' # None => Verified(verified)'
    <3>1. CASE good
      BY <1>2, <1>4, <3>1 DEF Search!Verify, Verified
    <3>2. CASE ~good
      BY <1>5, <3>2, GrowKeepsVerified DEF Search!Verify, SearchInv, SearchTypeInv, PreflightsOK, Verified
    <3> QED BY <3>1, <3>2
  <2>2. \A r \in DOMAIN preflight' : preflight'[r].stage = "running" => ~preflight'[r].good
    BY <1>2, <1>4 DEF SearchInv, PreflightsOK
  <2>3. pending' # None => preflight'[pending'].stage # "settled"
    BY <1>2, <1>4 DEF Search!Verify, SearchInv, PreflightsOK, SearchTypeInv
  <2> QED BY <2>1, <2>2, <2>3 DEF PreflightsOK, Verified
<1>7. verified' \in Executable \cup {None}
  BY PreflightsTyped DEF Search!Verify, SearchInv, SearchTypeInv
<1> QED BY <1>2, <1>5, <1>6, <1>7, PreflightStep DEF Search!Verify, SearchInv, SearchTypeInv

LEMMA ClearPreserves ==
  ASSUME SearchInv, NEW p \in DOMAIN preflight, Search!Clear(p)
  PROVE  SearchInv'
<1>1. /\ preflight' \in Seq(PreflightState) /\ DOMAIN preflight' = DOMAIN preflight
      /\ preflight'[p] = [preflight[p] EXCEPT !.stage = "settled"]
      /\ \A r \in DOMAIN preflight : r # p => preflight'[r] = preflight[r]
  BY PreflightsTyped DEF Search!Clear, SearchInv, SearchTypeInv, PreflightState
<1>2. preflight'[p].exe = preflight[p].exe /\ preflight'[p].good = preflight[p].good
      /\ preflight'[p].stage = "settled"
  BY <1>1, PreflightsTyped DEF PreflightState
<1>3. PreflightsGrow
  BY <1>1, <1>2 DEF PreflightsGrow
<1>4. pending' \in DOMAIN preflight' \cup {None} /\ (pending' # None => pending' = pending /\ pending # p)
  BY <1>1 DEF Search!Clear, SearchInv, SearchTypeInv
<1>5. PreflightsOK'
  <2>1. verified' # None => Verified(verified)'
    BY <1>3, GrowKeepsVerified DEF Search!Clear, SearchInv, SearchTypeInv, PreflightsOK, Verified
  <2>2. \A r \in DOMAIN preflight' : preflight'[r].stage = "running" => ~preflight'[r].good
    BY <1>1, <1>2 DEF SearchInv, PreflightsOK
  <2>3. pending' # None => preflight'[pending'].stage # "settled"
    BY <1>1, <1>4 DEF SearchInv, PreflightsOK
  <2> QED BY <2>1, <2>2, <2>3 DEF PreflightsOK, Verified
<1> QED BY <1>3, <1>4, <1>5, PreflightStep DEF Search!Clear, SearchInv, SearchTypeInv

LEMMA ReinstallPreserves ==
  ASSUME SearchInv, Search!Reinstall
  PROVE  SearchInv'
<1>1. PreflightsGrow
  BY DEF Search!Reinstall, PreflightsGrow, SearchInv, SearchTypeInv
<1>2. PreflightsOK'
  BY DEF Search!Reinstall, SearchInv, PreflightsOK, Verified
<1> QED BY <1>1, <1>2, PreflightStep DEF Search!Reinstall, SearchInv, SearchTypeInv

\* A search resolves its executable; it may start a preflight.
LEMMA EnsurePreserves ==
  ASSUME SearchInv, NEW c \in Searcher, NEW q \in search[c].queries, Search!Ensure(c, q)
  PROVE  SearchInv'
<1> DEFINE wait(p) == IF Search!Aborted(c) THEN Search!Leave(c, q, "aborted")
                      ELSE Search!Set(c, q, [query[c][q] EXCEPT !.stage = "waiting", !.exe = installed, !.on = p])
<1>1. /\ q \in Query /\ query[c][q].stage = "resolving" /\ installed \in Executable
      /\ UNCHANGED <<search, installed, verified>>
  BY SearchCallTyped DEF Search!Ensure, SearchInv, SearchTypeInv
<1>2. \/ /\ verified = installed
         /\ Search!Spawn(c, q, installed) /\ UNCHANGED <<pending, preflight>>
      \/ /\ pending # None /\ preflight[pending].exe = installed
         /\ wait(pending) /\ UNCHANGED <<pending, preflight>>
      \/ /\ preflight' = Append(preflight, [exe |-> installed, stage |-> "running", good |-> FALSE])
         /\ pending' = Len(preflight) + 1
         /\ wait(Len(preflight) + 1)
  BY DEF Search!Ensure, Search!Joins
<1>3. ASSUME NEW p \in Nat, wait(p), p \in DOMAIN preflight', preflight'[p].exe = installed,
             PreflightsGrow, pending' \in DOMAIN preflight' \cup {None}, PreflightsOK'
      PROVE  SearchInv'
  <2>1. CASE Search!Aborted(c)
    BY <1>1, <1>3, <2>1, LeavePreserves
  <2>2. CASE ~Search!Aborted(c)
    <3> DEFINE next == [query[c][q] EXCEPT !.stage = "waiting", !.exe = installed, !.on = p]
    <3>1. next \in QueryState
      BY <1>1, QueryTyped DEF QueryState
    <3>2. query'[c][q] = next /\ query[c][q] \in QueryState /\ QueryOK(c, q)
      BY <1>1, <1>3, <2>2, <3>1, QueryTyped
    <3>3. /\ next.stage = "waiting" /\ next.exe = installed /\ next.on = p
          /\ next.child = query[c][q].child /\ next.code = query[c][q].code
      BY <3>2 DEF QueryState
    <3>4. Search!Set(c, q, next)
      BY <1>3, <2>2
    <3> HIDE DEF next
    <3>5. QueryOK(c, q)'
      BY <1>1, <1>3, <3>2, <3>3 DEF QueryOK, Search!Aborted
    <3> QED BY <1>1, <1>3, <3>1, <3>4, <3>5, QueryStep
  <2> QED BY <2>1, <2>2
<1>4. CASE verified = installed /\ Search!Spawn(c, q, installed) /\ UNCHANGED <<pending, preflight>>
  <2>1. Verified(installed) /\ Search!Rest
    BY <1>1, <1>4, SearchAssumption DEF SearchInv, PreflightsOK, Search!Rest
  <2> QED BY <1>1, <1>4, <2>1, SpawnPreserves
<1>5. CASE /\ pending # None /\ preflight[pending].exe = installed
           /\ wait(pending) /\ UNCHANGED <<pending, preflight>>
  <2>1. Search!Rest
    BY <1>1, <1>5 DEF Search!Rest
  <2>2. pending \in DOMAIN preflight /\ pending \in Nat
    BY <1>5, PreflightsTyped DEF SearchInv, SearchTypeInv
  <2> HIDE DEF wait
  <2> QED BY <1>3, <1>5, <2>1, <2>2, RestGrows
<1>6. CASE /\ preflight' = Append(preflight, [exe |-> installed, stage |-> "running", good |-> FALSE])
           /\ pending' = Len(preflight) + 1
           /\ wait(Len(preflight) + 1)
  <2> DEFINE new == [exe |-> installed, stage |-> "running", good |-> FALSE]
  <2>1. new \in PreflightState
    BY <1>1 DEF PreflightState
  <2>2. /\ preflight' \in Seq(PreflightState) /\ DOMAIN preflight = 1 .. Len(preflight)
        /\ DOMAIN preflight' = 1 .. Len(preflight) + 1 /\ Len(preflight) \in Nat
        /\ preflight'[Len(preflight) + 1] = new
        /\ \A p \in DOMAIN preflight : preflight'[p] = preflight[p]
    <3> HIDE DEF new
    <3> QED BY <1>6, <2>1, PreflightsTyped DEF SearchInv, SearchTypeInv, new
  <2>3. PreflightsGrow
    BY <2>2 DEF PreflightsGrow
  <2>4. PreflightsOK'
    <3>1. verified' # None => Verified(verified)'
      BY <1>1, <2>3, GrowKeepsVerified DEF SearchInv, SearchTypeInv, PreflightsOK, Verified
    <3>2. \A p \in DOMAIN preflight' : preflight'[p].stage = "running" => ~preflight'[p].good
      BY <2>2 DEF SearchInv, PreflightsOK
    <3>3. preflight'[pending'].stage # "settled"
      BY <1>6, <2>2
    <3> QED BY <3>1, <3>2, <3>3 DEF PreflightsOK, Verified
  <2>5. /\ Len(preflight) + 1 \in DOMAIN preflight' /\ Len(preflight) + 1 \in Nat
        /\ preflight'[Len(preflight) + 1].exe = installed /\ pending' \in DOMAIN preflight'
    BY <1>6, <2>2
  <2> HIDE DEF wait
  <2> QED BY <1>3, <1>6, <2>3, <2>4, <2>5
<1> HIDE DEF wait
<1> QED BY <1>2, <1>4, <1>5, <1>6

\* A step of one call leaves the other calls' queries alone.
LEMMA CallStep ==
  ASSUME SearchInv, NEW c \in Searcher, UNCHANGED <<installed, verified, pending, preflight>>,
         SearchTypeInv', CallOK(c)', \A q \in Query : QueryOK(c, q)',
         \A d \in Searcher : d # c => search'[d] = search[d] /\ query'[d] = query[d]
  PROVE  SearchInv'
<1>1. ASSUME NEW d \in Searcher, d # c PROVE CallOK(d)' /\ \A q \in Query : QueryOK(d, q)'
  BY <1>1 DEF SearchInv, CallOK, QueryOK, Search!Aborted, Verified
<1>2. PreflightsOK'
  BY DEF SearchInv, PreflightsOK, Verified
<1> QED BY <1>1, <1>2 DEF SearchInv

LEMMA SearchStartPreserves ==
  ASSUME SearchInv, NEW c \in Searcher, Search!Start(c)
  PROVE  SearchInv'
<1>1. PICK b \in Search!Backend \cup {None}, qs \in (SUBSET Query) \ {{}} :
        /\ search' = [search EXCEPT ![c] = [stage |-> "running", backend |-> b, queries |-> qs,
                      aborted |-> FALSE, batchAborted |-> FALSE, outcome |-> None]]
        /\ query' = [query EXCEPT ![c] =
             [q \in Query |-> IF q \notin qs THEN Search!NoQuery
                              ELSE IF b = None THEN [Search!NoQuery EXCEPT !.stage = "removing", !.code = "failed"]
                              ELSE [Search!NoQuery EXCEPT !.stage = "opening"]]]
  BY DEF Search!Start
<1>2. /\ search'[c] = [stage |-> "running", backend |-> b, queries |-> qs,
                     aborted |-> FALSE, batchAborted |-> FALSE, outcome |-> None]
      /\ \A d \in Searcher : d # c => search'[d] = search[d] /\ query'[d] = query[d]
      /\ \A q \in Query :
           query'[c][q] \in {Search!NoQuery, [Search!NoQuery EXCEPT !.stage = "removing", !.code = "failed"],
                             [Search!NoQuery EXCEPT !.stage = "opening"]}
  BY <1>1 DEF SearchInv, SearchTypeInv
<1>3. ASSUME NEW s \in {Search!NoQuery, [Search!NoQuery EXCEPT !.stage = "removing", !.code = "failed"],
                        [Search!NoQuery EXCEPT !.stage = "opening"]}
      PROVE  /\ s \in QueryState /\ s.child = "none" /\ s.dir = FALSE /\ s.exe = None
             /\ s.stage \in {"idle", "opening", "removing"} /\ s.code # "aborted"
             /\ s.stage = "removing" => s.code # None
  <2>1. CASE s = Search!NoQuery
    BY <2>1, SearchAssumption DEF Search!NoQuery, QueryState, Search!Outcome
  <2>2. CASE s = [Search!NoQuery EXCEPT !.stage = "removing", !.code = "failed"]
    BY <2>2, SearchAssumption DEF Search!NoQuery, QueryState, Search!Outcome
  <2>3. CASE s = [Search!NoQuery EXCEPT !.stage = "opening"]
    BY <2>3, SearchAssumption DEF Search!NoQuery, QueryState, Search!Outcome
  <2> QED BY <2>1, <2>2, <2>3
<1>4. /\ query' = [query EXCEPT ![c] = query'[c]]
      /\ query'[c] \in [Query -> QueryState]
  BY <1>1, <1>2, <1>3 DEF SearchInv, SearchTypeInv
<1>5. SearchTypeInv'
  <2>1. search'[c] \in CallState
    BY <1>2 DEF CallState
  <2>2. search' \in [Searcher -> CallState]
    BY <1>1, <1>2, <2>1 DEF SearchInv, SearchTypeInv
  <2> QED BY <1>4, <2>2 DEF Search!Start, SearchInv, SearchTypeInv
<1>6. CallOK(c)'
  BY <1>2, SearchAssumption, SearchAssumption DEF CallOK, Search!Outcome
<1>7. \A q \in Query : QueryOK(c, q)'
  BY <1>2, <1>3 DEF QueryOK
<1> QED BY <1>2, <1>5, <1>6, <1>7, CallStep DEF Search!Start

LEMMA SearchAbortPreserves ==
  ASSUME SearchInv, NEW c \in Searcher, Search!Abort(c)
  PROVE  SearchInv'
<1>1. /\ search'[c] = [search[c] EXCEPT !.aborted = TRUE] /\ query' = query
      /\ \A d \in Searcher : d # c => search'[d] = search[d]
  BY DEF Search!Abort, SearchInv, SearchTypeInv
<1>2. SearchTypeInv'
  <2>1. search'[c] \in CallState
    BY <1>1, SearchCallTyped DEF CallState
  <2>2. search' \in [Searcher -> CallState]
    BY <1>1, <2>1 DEF Search!Abort, SearchInv, SearchTypeInv
  <2> QED BY <2>2 DEF Search!Abort, SearchInv, SearchTypeInv
<1>3. /\ search'[c].stage = search[c].stage /\ search'[c].backend = search[c].backend
      /\ search'[c].queries = search[c].queries /\ search'[c].batchAborted = search[c].batchAborted
      /\ search'[c].outcome = search[c].outcome /\ search'[c].aborted
  BY <1>1 DEF SearchInv, SearchTypeInv, CallState
<1>4. CallOK(c)' /\ \A q \in Query : QueryOK(c, q)'
  BY <1>1, <1>3 DEF Search!Abort, SearchInv, CallOK, QueryOK, Search!Aborted, Verified
<1> QED BY <1>1, <1>2, <1>4, CallStep DEF Search!Abort

LEMMA SearchReturnPreserves ==
  ASSUME SearchInv, NEW c \in Searcher, Search!Return(c)
  PROVE  SearchInv'
<1>1. /\ search'[c] = [search[c] EXCEPT !.stage = "done",
                                    !.outcome = IF search[c].outcome = None THEN "ok" ELSE search[c].outcome]
      /\ query' = query
      /\ \A d \in Searcher : d # c => search'[d] = search[d]
  BY DEF Search!Return, SearchInv, SearchTypeInv
<1>2. SearchTypeInv'
  <2>1. search'[c] \in CallState
    BY <1>1, SearchCallTyped DEF CallState, Search!Outcome
  <2>2. search' \in [Searcher -> CallState]
    BY <1>1, <2>1 DEF Search!Return, SearchInv, SearchTypeInv
  <2> QED BY <2>2 DEF Search!Return, SearchInv, SearchTypeInv
<1>3. /\ search'[c].backend = search[c].backend
      /\ search'[c].queries = search[c].queries /\ search'[c].batchAborted = search[c].batchAborted
      /\ search'[c].outcome = (IF search[c].outcome = None THEN "ok" ELSE search[c].outcome)
      /\ search'[c].aborted = search[c].aborted
  BY <1>1 DEF SearchInv, SearchTypeInv, CallState
<1>4. CallOK(c)'
  <2>1. CallOK(c) /\ \A q \in search[c].queries : query[c][q].stage = "done"
    BY DEF Search!Return, SearchInv
  <2>2. "ok" # None /\ "ok" # "aborted"
    BY SearchAssumption DEF Search!Outcome
  <2> QED BY <1>1, <1>3, <2>1, <2>2 DEF CallOK
<1>5. \A q \in Query : QueryOK(c, q)'
  BY <1>1, <1>3 DEF Search!Return, SearchInv, QueryOK, Search!Aborted, Verified
<1> QED BY <1>1, <1>2, <1>4, <1>5, CallStep DEF Search!Return

\* The first failure of a call is its own abort only if the call was aborted: a sibling
\* aborts the batch after its own failure was kept.
LEMMA SearchSettlePreserves ==
  ASSUME SearchInv, NEW c \in Searcher, NEW q \in search[c].queries, Search!Settle(c, q)
  PROVE  SearchInv'
<1> DEFINE s == query[c][q]
           next == [s EXCEPT !.stage = "done", !.dir = FALSE, !.on = None]
           keeps == Search!KeepFirst(c, s.code)
           batch == search[c].batchAborted \/ (s.code # "ok" /\ Search!Cardinality(search[c].queries) > 1)
<1>1. /\ q \in Query /\ s \in QueryState /\ QueryOK(c, q) /\ CallOK(c)
      /\ s.stage = "removing" /\ search[c].outcome \in Search!Outcome \cup {None}
  BY QueryTyped DEF Search!Settle, SearchInv, SearchTypeInv, CallState
<1>2. next \in QueryState /\ s.code \in Search!Outcome \cup {None}
  BY <1>1 DEF QueryState
<1>3. query'[c][q] = next /\ \A r \in Query : r # q => query'[c][r] = query[c][r]
  BY <1>1 DEF Search!Settle, Search!Set, SearchInv, SearchTypeInv
<1>4. keeps \in Search!Outcome \cup {None} /\ batch \in BOOLEAN
  BY <1>1, <1>2 DEF Search!KeepFirst, SearchInv, SearchTypeInv
<1>5. /\ search' = [search EXCEPT ![c].outcome = keeps, ![c].batchAborted = batch]
      /\ query' = [query EXCEPT ![c][q] = next]
  <2>1. query' = [query EXCEPT ![c][q] = next]
    BY DEF Search!Settle, Search!Set
  <2>2. search' = [search EXCEPT ![c].outcome = keeps, ![c].batchAborted = batch]
    BY DEF Search!Settle
  <2> QED BY <2>1, <2>2
<1>6. SearchTypeInv'
  <2> HIDE DEF keeps, batch, next
  <2>1. [search[c] EXCEPT !.outcome = keeps, !.batchAborted = batch] \in CallState
    BY <1>4, SearchCallTyped DEF CallState
  <2>2. search' = [search EXCEPT ![c] = [search[c] EXCEPT !.outcome = keeps, !.batchAborted = batch]]
    BY <1>5 DEF SearchInv, SearchTypeInv
  <2>3. search' \in [Searcher -> CallState]
    BY <2>1, <2>2 DEF SearchInv, SearchTypeInv
  <2>4. query' \in [Searcher -> [Query -> QueryState]]
    BY <1>1, <1>2, <1>5 DEF SearchInv, SearchTypeInv
  <2> QED BY <2>3, <2>4 DEF Search!Settle, SearchInv, SearchTypeInv
<1>7. /\ search'[c].stage = search[c].stage /\ search'[c].backend = search[c].backend
      /\ search'[c].queries = search[c].queries /\ search'[c].aborted = search[c].aborted
      /\ search'[c].outcome = keeps /\ search'[c].batchAborted = batch
      /\ \A d \in Searcher : d # c => search'[d] = search[d] /\ query'[d] = query[d]
  <2> HIDE DEF keeps, batch, next
  <2> QED BY <1>5 DEF SearchInv, SearchTypeInv, CallState
<1>8. CallOK(c)'
  <2>1. batch => keeps # None
    <3>1. s.code # None
      BY <1>1 DEF QueryOK
    <3> QED BY <1>1, <1>2, <3>1, SearchAssumption DEF CallOK, Search!KeepFirst, Search!Outcome
  <2>2. keeps = "aborted" => search[c].aborted
    <3>1. CASE s.code = "ok" \/ search[c].outcome # None
      BY <1>1, <3>1 DEF Search!KeepFirst, CallOK
    <3>2. CASE s.code # "ok" /\ search[c].outcome = None
      BY <1>1, <3>2 DEF Search!KeepFirst, CallOK, QueryOK, Search!Aborted
    <3> QED BY <3>1, <3>2
  <2>3. search'[c].stage = "done" => \A r \in search'[c].queries : query'[c][r].stage = "done"
    BY <1>1, <1>7 DEF CallOK
  <2> HIDE DEF keeps, batch
  <2> QED BY <1>7, <2>1, <2>2, <2>3 DEF CallOK
<1>9. ASSUME NEW r \in Query PROVE QueryOK(c, r)'
  <2>1. Search!Aborted(c) => Search!Aborted(c)'
    BY <1>7 DEF Search!Aborted
  <2>2. CASE r = q
    <3>1. next.stage = "done" /\ next.dir = FALSE /\ next.code = s.code /\ next.child = s.child /\ next.exe = s.exe
      BY <1>1 DEF QueryState
    <3> HIDE DEF next, batch, keeps
    <3> QED BY <1>1, <1>3, <1>7, <2>1, <2>2, <3>1 DEF Search!Settle, QueryOK, Verified
  <2>3. CASE r # q
    <3> HIDE DEF next, batch, keeps
    <3> QED BY <1>3, <1>7, <2>1, <2>3 DEF Search!Settle, SearchInv, QueryOK, Verified
  <2> QED BY <2>2, <2>3
<1> HIDE DEF next, batch, keeps
<1> QED BY <1>6, <1>7, <1>8, <1>9, CallStep DEF Search!Settle

LEMMA SearchNext == SearchInv /\ [Search!Next]_(Search!vars) => SearchInv'
<1> SUFFICES ASSUME SearchInv, [Search!Next]_(Search!vars) PROVE SearchInv'
  OBVIOUS
<1>1. CASE Search!Reinstall
  BY <1>1, ReinstallPreserves
<1>2. ASSUME NEW p \in DOMAIN preflight, Search!Clear(p) \/ \E good \in BOOLEAN : Search!Verify(p, good) PROVE SearchInv'
  BY <1>2, ClearPreserves, VerifyPreserves
<1>3. ASSUME NEW c \in Searcher, Search!Start(c) \/ Search!Abort(c) \/ Search!Return(c) PROVE SearchInv'
  BY <1>3, SearchStartPreserves, SearchAbortPreserves, SearchReturnPreserves
<1>4. ASSUME NEW c \in Searcher, NEW q \in search[c].queries,
             \/ Search!Open(c, q) \/ Search!Resolve(c, q) \/ Search!ResolveFails(c, q) \/ Search!Ensure(c, q) \/ Search!Wait(c, q)
             \/ Search!Read(c, q) \/ Search!Dispose(c, q) \/ Search!Settle(c, q)
      PROVE  SearchInv'
  BY <1>4, QuerySteps, EnsurePreserves, SearchSettlePreserves
<1>5. CASE UNCHANGED Search!vars
  <2>1. SearchTypeInv' /\ PreflightsOK'
    BY <1>5 DEF Search!vars, SearchInv, SearchTypeInv, PreflightsOK, Verified
  <2>2. \A c \in Searcher : CallOK(c)' /\ \A q \in Query : QueryOK(c, q)'
    BY <1>5 DEF Search!vars, SearchInv, CallOK, QueryOK, Search!Aborted, Verified
  <2> QED BY <2>1, <2>2 DEF SearchInv
<1> QED BY <1>1, <1>2, <1>3, <1>4, <1>5 DEF Search!Next

LEMMA SearchInductive == Search!Spec => []SearchInv
  BY SearchInit, SearchNext, PTL DEF Search!Spec

\* When the tool has answered, nothing of its call is left.
LEMMA NothingOutlivesTheCall == Search!Spec => [](Search!NothingOutlives /\ Search!OwnAbort)
<1>1. SearchInv => Search!NothingOutlives
  <2> SUFFICES ASSUME SearchInv PROVE Search!NothingOutlives
    OBVIOUS
  <2>1. Search!TypeOK
    BY SearchCallTyped DEF SearchInv, SearchTypeInv, Search!TypeOK
  <2>2. ASSUME NEW c \in Searcher, search[c].stage = "done", NEW q \in search[c].queries
        PROVE  LET s == query[c][q]
               IN  /\ s.stage = "done" /\ ~s.dir /\ s.child # "alive"
                   /\ s.child = "terminated" => search[c].backend = "antigravity" \/ s.code # "ok"
    BY <2>2, SearchCallTyped DEF SearchInv, CallOK, QueryOK
  <2> QED BY <2>1, <2>2 DEF Search!NothingOutlives
<1>2. SearchInv => Search!OwnAbort
  BY DEF SearchInv, CallOK, Search!OwnAbort
<1> QED BY <1>1, <1>2, SearchInductive, PTL

\* A codex search runs only a verified executable.
LEMMA OnlyVerifiedRun == Search!Spec => []Search!VerifiedRuns
<1>1. SearchInv => Search!VerifiedRuns
  BY DEF SearchInv, QueryOK, PreflightsOK, Search!VerifiedRuns, Verified
<1> QED BY <1>1, SearchInductive, PTL

\* VendorSearch!NothingOutlives and OwnAbort: a call that has answered left no directory and no
\* child of any of its queries, a child was ended by force only where the vendor's rules end it,
\* and "aborted" is answered only to a caller that aborted.
THEOREM SearchLeavesNothing == Search!Spec => []NothingOutlives
BY NothingOutlivesTheCall, PTL DEF NothingOutlives

\* VendorSearch!VerifiedRuns: whatever is installed in the middle of a call, a codex search runs
\* only an executable that a preflight verified.
THEOREM SearchRunsVerified == Search!Spec => []VerifiedRuns
BY OnlyVerifiedRun, PTL DEF VerifiedRuns

-----------------------------------------------------------------------------
(* UsageSources *)

SourceStatus == {"AVAILABLE", "UNAVAILABLE", "LOGIN_REQUIRED", "ERROR"}

ProcessState ==
  [started : Nat, by : Caller,
   stage : {"opening", "resolving", "asking", "closing", "over", "settled"},
   child : {"none", "alive", "gone", "terminated"},
   error : (SourceStatus \ {"AVAILABLE"}) \cup {None}, good : BOOLEAN]

AnswerState == [on : Nat \cup {None}, reading : Nat \cup {None}, status : SourceStatus \cup {None}]

SourcesTypeInv ==
  /\ source \in Sources!Source /\ now \in Nat
  /\ caller \in [Caller -> [on : Nat] \cup {None}]
  /\ process \in Seq(ProcessState)
  /\ shared \in Nat \cup {None} /\ lastAttempt \in Nat \cup {None} /\ last \in Nat \cup {None}
  /\ answered \subseteq AnswerState
  /\ newest \in Nat

Settled(p) == p \in DOMAIN process /\ process[p].stage = "settled"

\* A shared source has at most one process that has not settled: the one new reads join.  It is
\* the newest, and was started at lastAttempt; each was started a floor after the one before
\* it, or the clock had been set back.
OneProcess ==
  /\ shared # None => shared \in DOMAIN process /\ shared = Len(process) /\ ~Settled(shared)
  /\ \A p \in DOMAIN process : p # shared => Settled(p)
  /\ Len(process) > 0 => lastAttempt = process[Len(process)].started
  /\ \A p \in DOMAIN process : p + 1 \in DOMAIN process =>
       \/ process[p + 1].started >= process[p].started + Floor
       \/ process[p + 1].started < process[p].started

\* What the stage of a process says of its child and of its outcome.
ProcessOK(r) ==
  /\ r.stage \in {"opening", "resolving"} => r.child = "none" /\ ~r.good
  /\ r.stage \in {"asking", "closing"} => r.child = "alive"
  /\ r.stage \in {"over", "settled"} => r.child # "alive"
  /\ r.stage \in {"closing", "over", "settled"} /\ ~r.good => r.error # None
  /\ ~Sources!Shared /\ r.child = "terminated" => r.error = "ERROR"
  /\ r.error = "LOGIN_REQUIRED" => source = "codex"

\* A caller waits for a process that has not settled.
Waits ==
  \A c \in Caller : caller[c] # None => caller[c].on \in DOMAIN process /\ ~Settled(caller[c].on)

\* An answer is what a settled process came to.
AnswerOK(a) ==
  /\ a.status = "AVAILABLE" <=> a.reading # None
  /\ a.reading # None => Settled(a.reading) /\ process[a.reading].good
  /\ a.on # None => Settled(a.on) /\ (process[a.on].good => a.reading = a.on)
  /\ a.status = "LOGIN_REQUIRED" => source = "codex" /\ a.on # None /\ process[a.on].error = "LOGIN_REQUIRED"

\* The answers given together hold one reading at most, and nothing a shared source served is
\* newer than its last reading.
Ordered ==
  /\ last # None => Settled(last) /\ process[last].good
  /\ \A a, b \in answered : a.reading # None /\ b.reading # None => a.reading = b.reading
  /\ Sources!Shared =>
       /\ newest > 0 => last # None /\ newest <= last
       /\ \A a \in answered : a.reading # None => last # None /\ newest <= a.reading /\ a.reading <= last

SourcesInv ==
  /\ SourcesTypeInv
  /\ Sources!Shared => OneProcess
  /\ \A p \in DOMAIN process : ProcessOK(process[p])
  /\ Waits
  /\ \A a \in answered : AnswerOK(a)
  /\ Ordered

LEMMA ProcessesTyped ==
  ASSUME SourcesInv
  PROVE  /\ DOMAIN process = 1 .. Len(process) /\ Len(process) \in Nat
         /\ \A p \in DOMAIN process :
              /\ p \in Nat /\ process[p] \in ProcessState
              /\ process[p].started \in Nat /\ process[p].good \in BOOLEAN
              /\ process[p].error \in (SourceStatus \ {"AVAILABLE"}) \cup {None}
              /\ process[p].stage \in {"opening", "resolving", "asking", "closing", "over", "settled"}
<1>1. /\ DOMAIN process = 1 .. Len(process) /\ Len(process) \in Nat
      /\ \A p \in DOMAIN process : process[p] \in ProcessState
  BY ElementTyped DEF SourcesInv, SourcesTypeInv
<1> QED BY <1>1 DEF ProcessState

LEMMA SourcesInit == Sources!Init => SourcesInv
<1> SUFFICES ASSUME Sources!Init PROVE SourcesInv
  OBVIOUS
<1>1. SourcesTypeInv
  BY DEF Sources!Init, SourcesTypeInv
<1>2. DOMAIN process = {} /\ Len(process) = 0
  BY DEF Sources!Init
<1>3. OneProcess
  BY <1>2 DEF Sources!Init, OneProcess
<1>4. Waits /\ Ordered
  BY DEF Sources!Init, Waits, Ordered
<1> QED BY <1>1, <1>2, <1>3, <1>4 DEF Sources!Init, SourcesInv

LEMMA MaxOfTwo ==
  ASSUME NEW a \in Nat, NEW b \in Nat
  PROVE  Sources!Max({a, b}) \in {a, b} /\ Sources!Max({a, b}) >= a /\ Sources!Max({a, b}) >= b
<1>1. \E x \in {a, b} : \A y \in {a, b} : x >= y
  <2>1. CASE a >= b
    BY <2>1
  <2>2. CASE b >= a
    BY <2>2
  <2> QED BY <2>1, <2>2
<1> QED BY <1>1 DEF Sources!Max

Served1 == {newest} \cup ({a.reading : a \in answered} \ {None})

\* The newest reading served so far is one that was served, or there is none.
LEMMA NewestServed ==
  ASSUME SourcesInv
  PROVE  /\ Sources!Max(Served1) \in Nat
         /\ Sources!Max(Served1) = newest \/ \E a \in answered : a.reading # None /\ Sources!Max(Served1) = a.reading
<1>1. CASE \A a \in answered : a.reading = None
  <2>1. Served1 = {newest, newest}
    BY <1>1 DEF Served1
  <2> QED BY <2>1, MaxOfTwo DEF SourcesInv, SourcesTypeInv
<1>2. CASE \E a \in answered : a.reading # None
  <2>1. PICK a \in answered : a.reading # None
    BY <1>2
  <2>2. a.reading \in Nat
    BY <2>1 DEF SourcesInv, SourcesTypeInv, AnswerState
  <2>3. Served1 = {newest, a.reading}
    BY <2>1 DEF Served1, SourcesInv, Ordered
  <2> QED BY <2>1, <2>2, <2>3, MaxOfTwo DEF SourcesInv, SourcesTypeInv
<1> QED BY <1>1, <1>2

\* A process goes on to a stage that its readers do not see.
LEMMA UpdateStep ==
  ASSUME SourcesInv, NEW p \in DOMAIN process, NEW new \in ProcessState, Sources!Update(p, new), ~Settled(p),
         new.started = process[p].started, new.stage # "settled", ProcessOK(new)
  PROVE  SourcesInv'
<1>1. /\ process' \in Seq(ProcessState) /\ DOMAIN process' = DOMAIN process
      /\ Len(process') = Len(process) /\ process'[p] = new
      /\ \A q \in DOMAIN process : q # p => process'[q] = process[q]
      /\ UNCHANGED <<source, now, caller, shared, lastAttempt, last, collects, answered, newest>>
  BY ProcessesTyped DEF Sources!Update, SourcesInv, SourcesTypeInv, Sources!history
<1>2. /\ \A q : Settled(q)' <=> Settled(q)
      /\ \A q : Settled(q) => process'[q] = process[q]
  BY <1>1 DEF Settled
<1>3. SourcesTypeInv'
  BY <1>1 DEF SourcesInv, SourcesTypeInv
<1>4. Sources!Shared' => OneProcess'
  <2> SUFFICES ASSUME Sources!Shared PROVE OneProcess'
    BY <1>1 DEF Sources!Shared
  <2>1. OneProcess /\ \A q \in DOMAIN process : process'[q].started = process[q].started
    BY <1>1 DEF SourcesInv
  <2>2. Len(process) > 0 => Len(process) \in DOMAIN process
    BY ProcessesTyped
  <2> QED BY <1>1, <1>2, <2>1, <2>2 DEF OneProcess
<1>5. \A q \in DOMAIN process' : ProcessOK(process[q])'
  <2>1. \A q \in DOMAIN process : ProcessOK(process'[q])
    BY <1>1 DEF SourcesInv
  <2> QED BY <1>1, <2>1 DEF ProcessOK, Sources!Shared
<1>6. Waits'
  BY <1>1, <1>2 DEF SourcesInv, Waits
<1>7. \A a \in answered' : AnswerOK(a)'
  BY <1>1, <1>2 DEF SourcesInv, AnswerOK
<1>8. Ordered'
  BY <1>1, <1>2 DEF SourcesInv, Ordered, Sources!Shared
<1> QED BY <1>3, <1>4, <1>5, <1>6, <1>7, <1>8 DEF SourcesInv

\* Every step of a process but the last, whatever the vendor does.
LEMMA ProcessSteps ==
  ASSUME SourcesInv, NEW p \in DOMAIN process,
         \/ Sources!Open(p) \/ Sources!SpawnShared(p) \/ Sources!AskShared(p) \/ Sources!CloseShared(p)
         \/ Sources!SpawnCodex(p) \/ Sources!AskCodex(p) \/ Sources!CloseCodex(p)
         \/ Sources!SpawnClaude(p) \/ Sources!AskClaude(p) \/ Sources!CloseClaude(p)
  PROVE  SourcesInv'
<1>1. process[p] \in ProcessState /\ ProcessOK(process[p]) /\ source \in Sources!Source
  BY ProcessesTyped DEF SourcesInv, SourcesTypeInv
<1>2. ~Settled(p)
  BY DEF Settled, Sources!At, Sources!Open, Sources!SpawnShared, Sources!AskShared, Sources!CloseShared,
     Sources!SpawnCodex, Sources!AskCodex, Sources!CloseCodex,
         Sources!SpawnClaude, Sources!AskClaude, Sources!CloseClaude
<1>3. CASE Sources!Open(p)
  <2>1. CASE Sources!Update(p, [process[p] EXCEPT !.stage = "resolving"])
    <3> DEFINE new == [process[p] EXCEPT !.stage = "resolving"]
    <3>1. new \in ProcessState /\ new.started = process[p].started /\ new.stage # "settled" /\ ProcessOK(new)
      BY <1>1, <1>3 DEF Sources!Open, Sources!At, ProcessState, ProcessOK
    <3> HIDE DEF new
    <3> QED BY <1>2, <2>1, <3>1, UpdateStep DEF new
  <2>2. CASE Sources!Update(p, [process[p] EXCEPT !.stage = "over", !.error = "UNAVAILABLE"])
    <3> DEFINE new == [process[p] EXCEPT !.stage = "over", !.error = "UNAVAILABLE"]
    <3>1. new \in ProcessState /\ new.started = process[p].started /\ new.stage # "settled" /\ ProcessOK(new)
      BY <1>1, <1>3, SourcesAssumption DEF Sources!Open, Sources!At, ProcessState, ProcessOK, SourceStatus
    <3> HIDE DEF new
    <3> QED BY <1>2, <2>2, <3>1, UpdateStep DEF new
  <2> QED BY <1>3, <2>1, <2>2 DEF Sources!Open
<1>4. ASSUME Sources!At(p, "resolving"), Sources!Asks(p) PROVE SourcesInv'
  <2> DEFINE new == [process[p] EXCEPT !.stage = "asking", !.child = "alive"]
  <2>1. new \in ProcessState /\ new.started = process[p].started /\ new.stage # "settled" /\ ProcessOK(new)
    BY <1>1, <1>4 DEF Sources!At, ProcessState, ProcessOK
  <2> HIDE DEF new
  <2> QED BY <1>2, <1>4, <2>1, UpdateStep DEF new, Sources!Asks
<1>5. ASSUME Sources!At(p, "resolving"), NEW error \in {"UNAVAILABLE", "ERROR"}, Sources!Ends(p, error) PROVE SourcesInv'
  <2> DEFINE new == [process[p] EXCEPT !.stage = "over", !.error = error]
  <2>1. new \in ProcessState /\ new.started = process[p].started /\ new.stage # "settled" /\ ProcessOK(new)
    BY <1>1, <1>5, SourcesAssumption DEF Sources!At, ProcessState, ProcessOK, SourceStatus
  <2> HIDE DEF new
  <2> QED BY <1>2, <1>5, <2>1, UpdateStep DEF new, Sources!Ends
<1>6. ASSUME Sources!At(p, "asking"), NEW error \in {None, "UNAVAILABLE", "LOGIN_REQUIRED", "ERROR"}, Sources!Answers(p, error),
             error = "LOGIN_REQUIRED" => source = "codex"
      PROVE  SourcesInv'
  <2> DEFINE new == [process[p] EXCEPT !.stage = "closing", !.good = (error = None), !.error = error]
  <2>1. new \in ProcessState /\ new.started = process[p].started /\ new.stage # "settled"
    BY <1>1, <1>6, SourcesAssumption DEF Sources!At, ProcessState, SourceStatus
  <2>2. new.child = "alive" /\ new.stage = "closing" /\ (new.good <=> error = None) /\ new.error = error
    BY <1>1, <1>6 DEF Sources!At, ProcessState, ProcessOK
  <2> HIDE DEF new
  <2>3. ProcessOK(new)
    BY <1>6, <2>2 DEF ProcessOK
  <2> QED BY <1>2, <1>6, <2>1, <2>3, UpdateStep DEF new, Sources!Answers
<1>7. ASSUME Sources!At(p, "closing"), Sources!Closes(p) PROVE SourcesInv'
  <2> DEFINE new == [process[p] EXCEPT !.stage = "over", !.child = "gone"]
  <2>1. new \in ProcessState /\ new.started = process[p].started /\ new.stage # "settled" /\ ProcessOK(new)
    BY <1>1, <1>7 DEF Sources!At, ProcessState, ProcessOK
  <2> HIDE DEF new
  <2> QED BY <1>2, <1>7, <2>1, UpdateStep DEF new, Sources!Closes
<1>8. ASSUME Sources!At(p, "closing"), Sources!CloseFails(p) PROVE SourcesInv'
  <2> DEFINE new == [process[p] EXCEPT !.stage = "over", !.child = "terminated", !.good = FALSE, !.error = "ERROR"]
  <2>1. new \in ProcessState /\ new.started = process[p].started /\ new.stage # "settled" /\ ProcessOK(new)
    BY <1>1, <1>8, SourcesAssumption DEF Sources!At, ProcessState, ProcessOK, SourceStatus
  <2> HIDE DEF new
  <2> QED BY <1>2, <1>8, <2>1, UpdateStep DEF new, Sources!CloseFails
<1>9. ASSUME Sources!Shared, Sources!At(p, "closing"), Sources!Update(p, [process[p] EXCEPT !.stage = "over", !.child = "terminated"])
      PROVE  SourcesInv'
  <2> DEFINE new == [process[p] EXCEPT !.stage = "over", !.child = "terminated"]
  <2>1. new \in ProcessState /\ new.started = process[p].started /\ new.stage # "settled" /\ ProcessOK(new)
    BY <1>1, <1>9 DEF Sources!At, ProcessState, ProcessOK
  <2> HIDE DEF new
  <2> QED BY <1>2, <1>9, <2>1, UpdateStep DEF new
<1> QED
  BY <1>3, <1>4, <1>5, <1>6, <1>7, <1>8, <1>9, SourcesAssumption
  DEF Sources!SpawnShared, Sources!AskShared, Sources!CloseShared, Sources!SpawnCodex, Sources!AskCodex,
  Sources!CloseCodex, Sources!SpawnClaude, Sources!AskClaude, Sources!CloseClaude

LEMMA ClockPreserves ==
  ASSUME SourcesInv, Sources!Pass \/ Sources!SetBack
  PROVE  SourcesInv'
<1>1. now' \in Nat /\ UNCHANGED <<source, caller, process, shared, lastAttempt, last, answered, newest>>
  BY DEF Sources!Pass, Sources!SetBack, Sources!Clock, SourcesInv, SourcesTypeInv, Sources!history
<1>2. SourcesTypeInv' /\ (Sources!Shared' => OneProcess') /\ Waits' /\ Ordered'
  BY <1>1 DEF SourcesInv, SourcesTypeInv, Sources!Shared, OneProcess, Settled, Waits, Ordered
<1>3. (\A p \in DOMAIN process' : ProcessOK(process[p])') /\ \A a \in answered' : AnswerOK(a)'
  BY <1>1 DEF SourcesInv, ProcessOK, Sources!Shared, AnswerOK, Settled
<1> QED BY <1>2, <1>3 DEF SourcesInv

\* A read joins the process under way, or is served the last reading.
LEMMA ServePreserves ==
  ASSUME SourcesInv, NEW c \in Caller, Sources!Shared, Sources!Call(c),
         UNCHANGED <<source, now, caller, process, shared, lastAttempt, last>>,
         Sources!Give({Sources!Answer(None, last, "UNAVAILABLE")})
  PROVE  SourcesInv'
<1> DEFINE answer == Sources!Answer(None, last, "UNAVAILABLE")
<1>1. answered' = {answer} /\ newest' = Sources!Max(Served1)
  BY DEF Sources!Give, Served1
<1>2. /\ answer \in AnswerState /\ answer.on = None /\ answer.reading = last
      /\ answer.status = (IF last # None THEN "AVAILABLE" ELSE "UNAVAILABLE")
  BY SourcesAssumption DEF Sources!Answer, AnswerState, SourceStatus, SourcesInv, SourcesTypeInv
<1> HIDE DEF answer
<1>3. newest' \in Nat /\ (newest' > 0 => last # None /\ newest' <= last)
  BY <1>1, NewestServed DEF SourcesInv, SourcesTypeInv, Ordered
<1>4. SourcesTypeInv'
  BY <1>1, <1>2, <1>3 DEF SourcesInv, SourcesTypeInv
<1>5. (Sources!Shared' => OneProcess') /\ Waits' /\ \A p \in DOMAIN process' : ProcessOK(process[p])'
  BY DEF SourcesInv, OneProcess, Waits, ProcessOK, Sources!Shared, Settled
<1>6. \A a \in answered' : AnswerOK(a)'
  BY <1>1, <1>2 DEF SourcesInv, Ordered, AnswerOK, Settled
<1>7. Ordered'
  <2>1. last \in Nat \cup {None}
    BY DEF SourcesInv, SourcesTypeInv
  <2> QED BY <1>1, <1>2, <1>3, <2>1 DEF SourcesInv, Ordered, Settled
<1> QED BY <1>4, <1>5, <1>6, <1>7 DEF SourcesInv

LEMMA JoinPreserves ==
  ASSUME SourcesInv, NEW c \in Caller, Sources!Shared, Sources!Joins, caller' = [caller EXCEPT ![c] = [on |-> shared]],
         UNCHANGED <<source, now, process, shared, lastAttempt, last, answered, newest>>
  PROVE  SourcesInv'
<1>1. shared \in Nat /\ shared \in DOMAIN process /\ ~Settled(shared)
  BY DEF Sources!Joins, SourcesInv, SourcesTypeInv, OneProcess
<1>2. SourcesTypeInv'
  BY <1>1 DEF SourcesInv, SourcesTypeInv
<1>3. (Sources!Shared' => OneProcess') /\ \A p \in DOMAIN process' : ProcessOK(process[p])'
  BY DEF SourcesInv, OneProcess, ProcessOK, Sources!Shared, Settled
<1>4. (\A a \in answered' : AnswerOK(a)') /\ Ordered'
  BY DEF SourcesInv, AnswerOK, Ordered, Settled, Sources!Shared
<1>5. Waits'
  BY <1>1 DEF SourcesInv, SourcesTypeInv, Waits, Settled
<1> QED BY <1>2, <1>3, <1>4, <1>5 DEF SourcesInv

\* A process is started: the only one of a shared source, a floor after the one before it.
LEMMA SourcesStartPreserves ==
  ASSUME SourcesInv, NEW c \in Caller, Sources!StartProcess(c),
         \/ Sources!Shared /\ ~Sources!Joins /\ ~Sources!WithinFloor /\ lastAttempt' = now /\ shared' = Len(process) + 1
         \/ ~Sources!Shared /\ UNCHANGED <<shared, lastAttempt>>
  PROVE  SourcesInv'
<1> DEFINE new == [started |-> now, by |-> c, stage |-> IF Sources!Shared THEN "opening" ELSE "resolving",
                   child |-> "none", error |-> None, good |-> FALSE]
           n == Len(process) + 1
<1>1. /\ new \in ProcessState /\ new.started = now /\ new.stage # "settled" /\ ProcessOK(new)
  BY SourcesAssumption DEF ProcessState, ProcessOK, SourcesInv, SourcesTypeInv, SourceStatus
<1>2. /\ process' = Append(process, new) /\ caller' = [caller EXCEPT ![c] = [on |-> n]]
      /\ UNCHANGED <<source, now, last, answered, newest>>
  BY DEF Sources!StartProcess
<1> HIDE DEF new
<1>3. /\ process' \in Seq(ProcessState) /\ Len(process') = n /\ DOMAIN process' = 1 .. n
      /\ n \in Nat /\ DOMAIN process = 1 .. Len(process) /\ Len(process) \in Nat
      /\ process'[n] = new /\ \A p \in DOMAIN process : process'[p] = process[p]
  BY <1>1, <1>2, ProcessesTyped DEF SourcesInv, SourcesTypeInv
<1>4. /\ \A p \in DOMAIN process : Settled(p)' <=> Settled(p)
      /\ \A p : Settled(p) => Settled(p)' /\ process'[p] = process[p]
      /\ process'[n].stage # "settled" /\ n \in DOMAIN process' /\ n \notin DOMAIN process
  BY <1>1, <1>3 DEF Settled
<1> HIDE DEF n
<1>5. SourcesTypeInv'
  BY <1>2, <1>3 DEF SourcesInv, SourcesTypeInv
<1>6. Sources!Shared' => OneProcess'
  <2> SUFFICES ASSUME Sources!Shared PROVE OneProcess'
    BY <1>2 DEF Sources!Shared
  <2>1. shared = None /\ shared' = n /\ lastAttempt' = now /\ OneProcess
    BY DEF Sources!Joins, SourcesInv, n
  <2>2. \A p \in DOMAIN process : Settled(p) /\ p # None
    BY <2>1, <1>3, SourcesAssumption DEF OneProcess
  <2>3. ASSUME Len(process) > 0
        PROVE  \/ now >= process[Len(process)].started + Floor
               \/ now < process[Len(process)].started
    <3>1. lastAttempt = process[Len(process)].started /\ lastAttempt \in Nat /\ now \in Nat
      BY <2>1, <2>3, ProcessesTyped DEF OneProcess, SourcesInv, SourcesTypeInv
    <3> QED BY <3>1, SourcesAssumption DEF Sources!WithinFloor
  <2>4. ASSUME NEW p \in DOMAIN process', p + 1 \in DOMAIN process'
        PROVE  \/ process'[p + 1].started >= process'[p].started + Floor
               \/ process'[p + 1].started < process'[p].started
    <3>1. CASE p + 1 \in DOMAIN process
      BY <1>3, <2>1, <3>1, <2>4 DEF OneProcess
    <3>2. CASE p + 1 = n
      <4>1. p = Len(process) /\ Len(process) > 0 /\ p \in DOMAIN process
        BY <1>3, <2>4, <3>2 DEF n
      <4> QED BY <1>1, <1>3, <2>3, <3>2, <4>1
    <3> QED BY <1>3, <2>4, <3>1, <3>2 DEF n
  <2>5. shared' \in DOMAIN process' /\ shared' = Len(process') /\ ~Settled(shared)'
    BY <1>3, <1>4, <2>1 DEF Settled, n
  <2>6. ASSUME NEW p \in DOMAIN process', p # shared' PROVE Settled(p)'
    BY <1>3, <1>4, <2>1, <2>2, <2>6 DEF n
  <2>7. lastAttempt' = process'[Len(process')].started
    BY <1>1, <1>3, <2>1
  <2> QED BY <2>4, <2>5, <2>6, <2>7 DEF OneProcess
<1>7. \A p \in DOMAIN process' : ProcessOK(process[p])'
  <2>1. \A p \in DOMAIN process' : ProcessOK(process'[p])
    BY <1>1, <1>3 DEF SourcesInv, n
  <2> QED BY <1>2, <2>1 DEF ProcessOK, Sources!Shared
<1>8. Waits'
  <2>1. ASSUME NEW d \in Caller, caller'[d] # None
        PROVE  caller'[d].on \in DOMAIN process' /\ ~Settled(caller[d].on)'
    <3>1. CASE d = c
      <4>1. caller'[d] = [on |-> n] /\ n \in DOMAIN process'
        BY <1>2, <1>3, <3>1 DEF SourcesInv, SourcesTypeInv, n
      <4> QED BY <1>4, <4>1 DEF Settled
    <3>2. CASE d # c
      <4>1. caller'[d] = caller[d] /\ caller[d].on \in DOMAIN process /\ ~Settled(caller[d].on)
        BY <1>2, <2>1, <3>2 DEF SourcesInv, SourcesTypeInv, Waits
      <4> QED BY <1>3, <1>4, <4>1 DEF Settled, n
    <3> QED BY <3>1, <3>2
  <2> QED BY <2>1 DEF Waits
<1>9. (\A a \in answered' : AnswerOK(a)') /\ Ordered'
  BY <1>2, <1>4 DEF SourcesInv, AnswerOK, Ordered, Sources!Shared
<1> QED BY <1>5, <1>6, <1>7, <1>8, <1>9 DEF SourcesInv

LEMMA CollectPreserves ==
  ASSUME SourcesInv, NEW c \in Caller, Sources!CollectShared(c) \/ Sources!CollectOwn(c)
  PROVE  SourcesInv'
<1>1. CASE Sources!CollectShared(c) /\ Sources!Joins
  BY <1>1, JoinPreserves DEF Sources!CollectShared
<1>2. CASE Sources!CollectShared(c) /\ ~Sources!Joins /\ Sources!WithinFloor
  BY <1>2, ServePreserves DEF Sources!CollectShared
<1>3. CASE Sources!CollectShared(c) /\ ~Sources!Joins /\ ~Sources!WithinFloor
  BY <1>3, SourcesStartPreserves DEF Sources!CollectShared
<1>4. CASE Sources!CollectOwn(c)
  BY <1>4, SourcesStartPreserves DEF Sources!CollectOwn
<1> QED BY <1>1, <1>2, <1>3, <1>4

\* The readers of a process are answered: with its reading if it has one, and otherwise the
\* one that started it with the last reading.
LEMMA SourcesSettlePreserves ==
  ASSUME SourcesInv, NEW p \in DOMAIN process, Sources!Settle(p)
  PROVE  SourcesInv'
<1> DEFINE new == [process[p] EXCEPT !.stage = "settled"]
<1>1. /\ process[p] \in ProcessState /\ ProcessOK(process[p]) /\ p \in Nat
      /\ process[p].stage = "over" /\ ~Settled(p)
  BY ProcessesTyped DEF Sources!Settle, Sources!At, SourcesInv, Settled
<1>2. /\ new \in ProcessState /\ ProcessOK(new) /\ new.stage = "settled" /\ new.started = process[p].started
      /\ new.good = process[p].good /\ new.error = process[p].error
  BY <1>1 DEF ProcessState, ProcessOK
<1>3. process' = [process EXCEPT ![p] = new]
  BY <1>1 DEF Sources!Settle, ProcessState
<1> HIDE DEF new
<1>4. /\ process' \in Seq(ProcessState) /\ DOMAIN process' = DOMAIN process
      /\ Len(process') = Len(process) /\ process'[p] = new
      /\ \A q \in DOMAIN process : q # p => process'[q] = process[q]
  BY <1>2, <1>3, ProcessesTyped DEF SourcesInv, SourcesTypeInv
<1>5. /\ \A q : Settled(q)' <=> Settled(q) \/ q = p
      /\ \A q : Settled(q) => process'[q] = process[q]
      /\ \A q \in DOMAIN process : /\ process'[q].good = process[q].good /\ process'[q].error = process[q].error
                                /\ process'[q].started = process[q].started
  BY <1>1, <1>2, <1>4 DEF Settled
<1>6. /\ UNCHANGED <<source, now, lastAttempt, collects>>
      /\ IF Sources!Shared THEN shared' = None /\ last' = Sources!Keep(p) ELSE UNCHANGED <<shared, last>>
      /\ caller' = [c \in Caller |-> IF c \in Sources!Waiting(p) THEN None ELSE caller[c]]
      /\ answered' = {Sources!Served(p, c) : c \in Sources!Waiting(p)} /\ newest' = Sources!Max(Served1)
  BY DEF Sources!Settle, Sources!Give, Served1
<1>7. newest' \in Nat
  BY <1>6, NewestServed
<1>8. Sources!Keep(p) \in Nat \cup {None} /\ Sources!Reading(p) \in {None, p}
  BY <1>1 DEF Sources!Keep, Sources!Reading, SourcesInv, SourcesTypeInv
<1>9. ASSUME NEW c \in Sources!Waiting(p)
      PROVE  /\ Sources!Served(p, c) \in AnswerState /\ Sources!Served(p, c).on = p
             /\ Sources!Served(p, c).reading \in {Sources!Reading(p)} \cup (IF Sources!Shared THEN {Sources!Keep(p)} ELSE {})
             /\ Sources!Served(p, c).status =
                  (IF Sources!Served(p, c).reading # None THEN "AVAILABLE"
                   ELSE IF Sources!Shared THEN "UNAVAILABLE" ELSE process[p].error)
  <2>1. process[p].error \in SourceStatus \cup {None}
    BY ProcessesTyped
  <2> QED BY <1>1, <1>8, <2>1 DEF Sources!Served, Sources!Answer, AnswerState, SourceStatus
<1>10. SourcesTypeInv'
  <2>1. answered' \subseteq AnswerState
    BY <1>6, <1>9
  <2>2. caller' \in [Caller -> [on : Nat] \cup {None}]
    BY <1>6 DEF SourcesInv, SourcesTypeInv
  <2>3. last' \in Nat \cup {None} /\ shared' \in Nat \cup {None}
    BY <1>6, <1>8 DEF SourcesInv, SourcesTypeInv
  <2> QED BY <1>4, <1>6, <1>7, <2>1, <2>2, <2>3 DEF SourcesInv, SourcesTypeInv
<1>11. Sources!Shared => p = shared /\ p = Len(process)
  BY <1>1, SourcesAssumption DEF SourcesInv, OneProcess
<1>12. Sources!Shared' => OneProcess'
  <2> SUFFICES ASSUME Sources!Shared PROVE OneProcess'
    BY <1>6 DEF Sources!Shared
  <2>1. OneProcess /\ shared' = None
    BY <1>6 DEF SourcesInv
  <2>2. \A q \in DOMAIN process : Settled(q)'
    BY <1>5, <1>11, <2>1 DEF OneProcess
  <2>3. Len(process) > 0 => Len(process) \in DOMAIN process
    BY ProcessesTyped
  <2> QED BY <1>4, <1>5, <1>6, <2>1, <2>2, <2>3 DEF OneProcess
<1>13. \A q \in DOMAIN process' : ProcessOK(process[q])'
  <2>1. \A q \in DOMAIN process : ProcessOK(process'[q])
    BY <1>2, <1>4 DEF SourcesInv
  <2> QED BY <1>4, <1>6, <2>1 DEF ProcessOK, Sources!Shared
<1>14. Waits'
  BY <1>4, <1>5, <1>6 DEF SourcesInv, Waits, Sources!Waiting
<1>15. Sources!Reading(p) # None => Sources!Reading(p) = p /\ process[p].good
  BY DEF Sources!Reading
<1>16. ASSUME NEW k, k = Sources!Keep(p), k # None PROVE Settled(k)' /\ process'[k].good
  <2>1. CASE process[p].good
    BY <1>1, <1>5, <1>16, <2>1 DEF Sources!Keep
  <2>2. CASE ~process[p].good
    BY <1>5, <1>16, <2>2 DEF Sources!Keep, SourcesInv, Ordered, Settled
  <2> QED BY <2>1, <2>2
<1>17. ASSUME NEW a \in answered' PROVE AnswerOK(a)'
  <2>1. /\ a.on = p /\ a.on # None
        /\ a.reading \in {Sources!Reading(p)} \cup (IF Sources!Shared THEN {Sources!Keep(p)} ELSE {})
        /\ a.status = (IF a.reading # None THEN "AVAILABLE"
                       ELSE IF Sources!Shared THEN "UNAVAILABLE" ELSE process[p].error)
    <3>1. PICK c \in Sources!Waiting(p) : a = Sources!Served(p, c)
      BY <1>6
    <3> QED BY <1>1, <1>9, <3>1, SourcesAssumption
  <2>2. process[p].good => a.reading = p
    BY <2>1 DEF Sources!Reading, Sources!Keep
  <2>3. a.reading # None => Settled(a.reading)' /\ process'[a.reading].good
    <3>1. CASE a.reading = Sources!Reading(p)
      BY <1>5, <1>15, <3>1
    <3>2. CASE a.reading = Sources!Keep(p)
      BY <1>16, <3>2
    <3> QED BY <2>1, <3>1, <3>2
  <2>4. a.status = "AVAILABLE" <=> a.reading # None
    <3>1. process[p].error \in (SourceStatus \ {"AVAILABLE"}) \cup {None}
      BY ProcessesTyped
    <3> QED BY <2>1, <3>1, SourcesAssumption DEF SourceStatus
  <2>5. a.status = "LOGIN_REQUIRED" => source' = "codex" /\ process'[p].error = "LOGIN_REQUIRED"
    BY <1>1, <1>5, <1>6, <2>1 DEF ProcessOK
  <2>6. Settled(p)' /\ process'[p].good = process[p].good
    BY <1>5
  <2>7. /\ a.status = "AVAILABLE" <=> a.reading # None
        /\ a.reading # None => Settled(a.reading)' /\ process'[a.reading].good
        /\ a.on # None => Settled(a.on)' /\ (process'[a.on].good => a.reading = a.on)
        /\ a.status = "LOGIN_REQUIRED" => source' = "codex" /\ a.on # None /\ process'[a.on].error = "LOGIN_REQUIRED"
    BY <2>1, <2>2, <2>3, <2>4, <2>5, <2>6
  <2> QED BY <2>7 DEF AnswerOK
<1>18. last' # None => Settled(last)' /\ process'[last'].good
  <2>1. CASE Sources!Shared
    BY <1>6, <1>16, <2>1 DEF Settled
  <2>2. CASE ~Sources!Shared
    BY <1>5, <1>6, <2>2 DEF SourcesInv, Ordered, Settled
  <2> QED BY <2>1, <2>2
<1>19. ASSUME NEW a \in answered'
       PROVE  a.reading \in {Sources!Reading(p)} \cup (IF Sources!Shared THEN {Sources!Keep(p)} ELSE {})
  BY <1>6, <1>9
<1>20. \A a, b \in answered' : a.reading # None /\ b.reading # None => a.reading = b.reading
  BY <1>19 DEF Sources!Reading, Sources!Keep
<1>21. Sources!Shared => (last # None => last \in Nat /\ last <= p)
  BY <1>11, ProcessesTyped DEF SourcesInv, SourcesTypeInv, Ordered, Settled
<1>22. ASSUME Sources!Shared, newest' > 0 PROVE last' # None /\ newest' <= last' /\ last' \in Nat
  <2>1. last # None /\ newest' <= last
    BY <1>6, <1>22, NewestServed DEF SourcesInv, SourcesTypeInv, Ordered
  <2>2. last' \in {last, p} /\ last' # None
    BY <1>1, <1>6, <1>22, <2>1, SourcesAssumption DEF Sources!Keep
  <2> QED BY <1>1, <1>7, <1>21, <1>22, <2>1, <2>2
<1>23. ASSUME Sources!Shared, NEW a \in answered', a.reading # None
       PROVE  last' # None /\ newest' <= a.reading /\ a.reading <= last'
  <2>1. last' = Sources!Keep(p) /\ a.reading = last' /\ last' \in Nat
    BY <1>6, <1>8, <1>19, <1>23 DEF Sources!Keep, Sources!Reading
  <2>2. newest' = 0 \/ newest' > 0
    BY <1>7
  <2> QED BY <1>7, <1>22, <1>23, <2>1, <2>2
<1>24. Ordered'
  BY <1>6, <1>18, <1>20, <1>22, <1>23 DEF Ordered, Sources!Shared
<1> QED BY <1>10, <1>12, <1>13, <1>14, <1>17, <1>24 DEF SourcesInv

LEMMA SourcesNext == SourcesInv /\ [Sources!Next]_(Sources!sourceVars) => SourcesInv'
<1> SUFFICES ASSUME SourcesInv, [Sources!Next]_(Sources!sourceVars) PROVE SourcesInv'
  OBVIOUS
<1>1. CASE Sources!Pass \/ Sources!SetBack
  BY <1>1, ClockPreserves
<1>2. ASSUME NEW c \in Caller, Sources!CollectShared(c) \/ Sources!CollectOwn(c) PROVE SourcesInv'
  BY <1>2, CollectPreserves
<1>3. ASSUME NEW p \in DOMAIN process, Sources!Settle(p) PROVE SourcesInv'
  BY <1>3, SourcesSettlePreserves
<1>4. ASSUME NEW p \in DOMAIN process,
             \/ Sources!Open(p) \/ Sources!SpawnShared(p) \/ Sources!AskShared(p) \/ Sources!CloseShared(p)
             \/ Sources!SpawnCodex(p) \/ Sources!AskCodex(p) \/ Sources!CloseCodex(p)
             \/ Sources!SpawnClaude(p) \/ Sources!AskClaude(p) \/ Sources!CloseClaude(p)
      PROVE  SourcesInv'
  BY <1>4, ProcessSteps
<1>5. CASE UNCHANGED Sources!sourceVars
  <2>1. SourcesTypeInv' /\ (Sources!Shared' => OneProcess') /\ Waits' /\ Ordered'
    BY <1>5 DEF Sources!sourceVars, Sources!history, SourcesInv, SourcesTypeInv, Sources!Shared, OneProcess,
       Settled, Waits, Ordered
  <2>2. (\A p \in DOMAIN process' : ProcessOK(process[p])') /\ \A a \in answered' : AnswerOK(a)'
    BY <1>5 DEF Sources!sourceVars, Sources!history, SourcesInv, ProcessOK, Sources!Shared, AnswerOK, Settled
  <2> QED BY <2>1, <2>2 DEF SourcesInv
<1> QED BY <1>1, <1>2, <1>3, <1>4, <1>5 DEF Sources!Next

LEMMA SourcesInductive == Sources!Spec => []SourcesInv
  BY SourcesInit, SourcesNext, PTL DEF Sources!Spec

\* One vendor process at a time for a shared source, a floor apart, and none left behind.
LEMMA FewProcesses == Sources!Spec => []Sources!Bounded
<1>1. SourcesInv => Sources!Bounded
  <2> SUFFICES ASSUME SourcesInv PROVE Sources!Bounded
    OBVIOUS
  <2>1. ASSUME Sources!Shared, NEW p \in DOMAIN process, NEW q \in DOMAIN process, p < q
        PROVE  /\ process[p].stage = "settled"
               /\ q = p + 1 => \/ process[q].started >= process[p].started + Floor
                               \/ process[q].started < process[p].started
    <3>1. OneProcess /\ p # Len(process)
      BY <2>1, ProcessesTyped DEF SourcesInv
    <3>2. p # shared
      BY <3>1, <2>1, ProcessesTyped, SourcesAssumption DEF OneProcess
    <3> QED BY <2>1, <3>1, <3>2 DEF OneProcess, Settled
  <2>2. ASSUME NEW p \in DOMAIN process, process[p].stage = "settled"
        PROVE  /\ process[p].child # "alive"
               /\ Sources!Waiting(p) = {}
               /\ ~Sources!Shared /\ process[p].child = "terminated" => process[p].error = "ERROR"
    BY <2>2 DEF SourcesInv, ProcessOK, Waits, Sources!Waiting, Settled
  <2> QED BY <2>1, <2>2 DEF Sources!Bounded
<1> QED BY <1>1, SourcesInductive, PTL

\* No answer is older than one served before, and each is what a process really read.
LEMMA NewestServedOnly == Sources!Spec => []Sources!Newest
<1>1. SourcesInv => Sources!Newest
  BY DEF SourcesInv, AnswerOK, Ordered, Sources!Newest
<1> QED BY <1>1, SourcesInductive, PTL

\* UsageSources!Bounded and Newest: a shared source asks with one vendor process at a time and
\* a floor apart, a settled process leaves no child and no waiting caller, and no answer goes
\* back behind one that was served before.
THEOREM SourcesBoundedNewest == Sources!Spec => []Bounded
BY FewProcesses, NewestServedOnly, PTL DEF Bounded

-----------------------------------------------------------------------------
(* ModelCatalog *)

CatalogTypeInv ==
  /\ adapter \in {"codex", "antigravity", "grok"} /\ version \in Nat
  /\ modelsCaller \in [Caller -> [is : {"idle", "waiting", "models", "failed", "aborted"},
                            by : Caller \cup {None}, models : Nat \cup {None}]]
  /\ aborted \subseteq Caller
  /\ load \in LoadState \cup {None}
  /\ cachedModels \in Nat \cup {None}

\* There is a load only while there is no list to give out, and a process only with a load.
LoadOK ==
  /\ load # None => cachedModels = None
  /\ loadChild # None => load # None
  /\ cachedModels # None => cachedModels <= version

\* A list is never newer than the vendor's; an abort is the owner's, who cannot take it back
\* while the load lasts.
OutcomeOK(o, owner) ==
  o # None =>
    /\ o.is = "models" => o.models \in Nat /\ o.models <= version
    /\ o.is = "aborted" => adapter # "codex" /\ owner \in aborted

CallerOK(c) ==
  /\ modelsCaller[c].is = "aborted" => modelsCaller[c].by # None /\ (adapter = "codex" => modelsCaller[c].by = c)
  /\ adapter = "codex" /\ c \in aborted => modelsCaller[c].is # "waiting"
  /\ modelsCaller[c].is = "waiting" => load # None
  /\ modelsCaller[c].is = "models" =>
       /\ modelsCaller[c].models \in Nat /\ modelsCaller[c].models <= version
       /\ cachedModels # None => cachedModels >= modelsCaller[c].models
       /\ load # None /\ load.outcome # None /\ load.outcome.is = "models" =>
            load.outcome.models >= modelsCaller[c].models

CatalogInv ==
  /\ CatalogTypeInv
  /\ LoadOK
  /\ load # None => OutcomeOK(load.outcome, load.owner)
  /\ \A c \in Caller : CallerOK(c)

LEMMA CatalogInitInv == Catalog!Init => CatalogInv
<1> SUFFICES ASSUME Catalog!Init PROVE CatalogInv
  OBVIOUS
<1>1. CatalogTypeInv
  BY DEF Catalog!Init, CatalogTypeInv, Catalog!Idle, Catalog!Told
<1>2. LoadOK /\ \A c \in Caller : CallerOK(c)
  BY DEF Catalog!Init, LoadOK, CallerOK, Catalog!Idle, Catalog!Told
<1> QED BY <1>1, <1>2 DEF Catalog!Init, CatalogInv

\* What is known of a caller and of the load.
LEMMA CatalogTyped ==
  ASSUME CatalogInv
  PROVE  /\ \A c \in Caller :
              /\ modelsCaller[c].is \in {"idle", "waiting", "models", "failed", "aborted"}
              /\ modelsCaller[c].models \in Nat \cup {None}
         /\ load # None =>
              /\ load \in LoadState /\ load.owner \in Caller /\ load.attempt \in {1, 2}
              /\ load.outcome \in OutcomeState \cup {None}
  BY DEF CatalogInv, CatalogTypeInv, LoadState

\* The callers whom a step of one of them leaves alone.
LEMMA OneCaller ==
  ASSUME CatalogInv, NEW c \in Caller, NEW told, modelsCaller' = [modelsCaller EXCEPT ![c] = told],
         told \in [is : {"idle", "waiting", "models", "failed", "aborted"},
                   by : Caller \cup {None}, models : Nat \cup {None}],
         UNCHANGED <<adapter, version, cachedModels>>,
         \A d \in Caller : d # c => (d \in aborted' <=> d \in aborted),
         aborted' \subseteq Caller,
         load' \in LoadState \cup {None}, LoadOK', load' # None => OutcomeOK(load.outcome, load.owner)',
         load # None => load' = load,
         load = None /\ load' # None => load'.outcome = None,
         CallerOK(c)'
  PROVE  CatalogInv'
<1>1. CatalogTypeInv'
  BY DEF CatalogInv, CatalogTypeInv
<1>2. modelsCaller'[c] = told /\ \A d \in Caller : d # c => modelsCaller'[d] = modelsCaller[d]
  BY DEF CatalogInv, CatalogTypeInv
<1>3. ASSUME NEW d \in Caller PROVE CallerOK(d)'
  <2>1. CASE d = c
    BY <2>1
  <2>2. CASE d # c
    BY <1>2, <2>2 DEF CatalogInv, CallerOK
  <2> QED BY <2>1, <2>2
<1> QED BY <1>1, <1>3 DEF CatalogInv

LEMMA CatalogAskPreserves ==
  ASSUME CatalogInv, NEW c \in Caller, Catalog!Ask(c)
  PROVE  CatalogInv'
<1>1. /\ UNCHANGED <<adapter, version, aborted, cachedModels>> /\ modelsCaller[c].is # "waiting"
      /\ CallerOK(c) /\ cachedModels \in Nat \cup {None} /\ aborted \subseteq Caller
      /\ load \in LoadState \cup {None}
  BY DEF Catalog!Ask, CatalogInv, CatalogTypeInv
<1>2. ASSUME NEW told \in {Catalog!Told("models", None, cachedModels), Catalog!Told("aborted", c, None), Catalog!Waiting}
      PROVE  told \in [is : {"idle", "waiting", "models", "failed", "aborted"},
                       by : Caller \cup {None}, models : Nat \cup {None}]
  BY <1>1 DEF Catalog!Told, Catalog!Waiting
<1>3. ASSUME NEW told, modelsCaller' = [modelsCaller EXCEPT ![c] = told] PROVE modelsCaller'[c] = told
  BY <1>3 DEF CatalogInv, CatalogTypeInv
<1>4. CASE /\ cachedModels # None
           /\ modelsCaller' = [modelsCaller EXCEPT ![c] = Catalog!Told("models", None, cachedModels)]
           /\ UNCHANGED <<load, loadChild, loads>>
  <2> DEFINE told == Catalog!Told("models", None, cachedModels)
  <2>1. told.is = "models" /\ told.models = cachedModels
    BY DEF Catalog!Told
  <2>2. load = None /\ cachedModels <= version /\ cachedModels \in Nat
    BY <1>1, <1>4 DEF CatalogInv, LoadOK
  <2>3. CallerOK(c)'
    BY <1>1, <1>3, <1>4, <2>1, <2>2 DEF CallerOK
  <2>4. LoadOK' /\ (load' # None => OutcomeOK(load.outcome, load.owner)')
    BY <1>1, <1>4 DEF CatalogInv, LoadOK, OutcomeOK
  <2> QED BY <1>1, <1>2, <1>4, <2>3, <2>4, OneCaller
<1>5. CASE /\ adapter = "codex" /\ c \in aborted
           /\ modelsCaller' = [modelsCaller EXCEPT ![c] = Catalog!Told("aborted", c, None)]
           /\ UNCHANGED <<load, loadChild, loads>>
  <2> DEFINE told == Catalog!Told("aborted", c, None)
  <2>1. told.is = "aborted" /\ told.by = c
    BY DEF Catalog!Told
  <2>2. CallerOK(c)'
    BY <1>1, <1>3, <1>5, <2>1, CatalogAssumption DEF CallerOK
  <2>3. LoadOK' /\ (load' # None => OutcomeOK(load.outcome, load.owner)')
    BY <1>1, <1>5 DEF CatalogInv, LoadOK, OutcomeOK
  <2> QED BY <1>1, <1>2, <1>5, <2>2, <2>3, OneCaller
<1>6. CASE /\ (adapter = "codex" => c \notin aborted) /\ load # None
           /\ modelsCaller' = [modelsCaller EXCEPT ![c] = Catalog!Waiting]
           /\ UNCHANGED <<load, loadChild, loads>>
  <2>1. Catalog!Waiting.is = "waiting"
    BY DEF Catalog!Waiting, Catalog!Told
  <2>2. CallerOK(c)'
    BY <1>1, <1>3, <1>6, <2>1 DEF CallerOK
  <2>3. LoadOK' /\ (load' # None => OutcomeOK(load.outcome, load.owner)')
    BY <1>1, <1>6 DEF CatalogInv, LoadOK, OutcomeOK
  <2> QED BY <1>1, <1>2, <1>6, <2>2, <2>3, OneCaller
<1>7. CASE /\ cachedModels = None /\ (adapter = "codex" => c \notin aborted) /\ load = None
           /\ modelsCaller' = [modelsCaller EXCEPT ![c] = Catalog!Waiting]
           /\ load' = Catalog!Begun(c) /\ UNCHANGED loadChild
  <2>1. Catalog!Waiting.is = "waiting"
    BY DEF Catalog!Waiting, Catalog!Told
  <2>2. load' \in LoadState /\ load' # None /\ load'.outcome = None
    BY <1>7, CatalogAssumption DEF Catalog!Begun, LoadState
  <2>3. CallerOK(c)'
    BY <1>1, <1>3, <1>7, <2>1, <2>2 DEF CallerOK
  <2>4. LoadOK' /\ OutcomeOK(load.outcome, load.owner)'
    BY <1>1, <1>7, <2>2 DEF CatalogInv, LoadOK, OutcomeOK
  <2> QED BY <1>1, <1>2, <1>7, <2>2, <2>3, <2>4, OneCaller
<1> QED BY <1>4, <1>5, <1>6, <1>7 DEF Catalog!Ask

LEMMA CatalogAbortPreserves ==
  ASSUME CatalogInv, NEW c \in Caller, Catalog!Abort(c)
  PROVE  CatalogInv'
<1>1. /\ aborted' = aborted \cup {c} /\ UNCHANGED <<adapter, version, load, loadChild, cachedModels, loads>>
      /\ aborted' \subseteq Caller /\ load \in LoadState \cup {None}
  BY DEF Catalog!Abort, CatalogInv, CatalogTypeInv
<1>2. LoadOK' /\ (load' # None => OutcomeOK(load.outcome, load.owner)')
  BY <1>1 DEF CatalogInv, LoadOK, OutcomeOK
<1> DEFINE told == IF adapter = "codex" /\ modelsCaller[c].is = "waiting" THEN Catalog!Told("aborted", c, None) ELSE modelsCaller[c]
<1>3. modelsCaller' = [modelsCaller EXCEPT ![c] = told]
  BY DEF Catalog!Abort, CatalogInv, CatalogTypeInv
<1>4. told \in [is : {"idle", "waiting", "models", "failed", "aborted"},
                by : Caller \cup {None}, models : Nat \cup {None}]
  BY DEF Catalog!Told, CatalogInv, CatalogTypeInv
<1>5. CallerOK(c)'
  <2>1. CASE adapter = "codex" /\ modelsCaller[c].is = "waiting"
    <3>1. modelsCaller'[c].is = "aborted" /\ modelsCaller'[c].by = c
      BY <1>3, <2>1 DEF Catalog!Told, CatalogInv, CatalogTypeInv
    <3> QED BY <1>1, <3>1, CatalogAssumption DEF CallerOK
  <2>2. CASE ~(adapter = "codex" /\ modelsCaller[c].is = "waiting")
    <3>1. modelsCaller'[c] = modelsCaller[c] /\ CallerOK(c)
      BY <1>3, <2>2 DEF CatalogInv, CatalogTypeInv
    <3> QED BY <1>1, <2>2, <3>1 DEF CallerOK
  <2> QED BY <2>1, <2>2
<1> HIDE DEF told
<1> QED BY <1>1, <1>2, <1>3, <1>4, <1>5, OneCaller

LEMMA AgainPreserves ==
  ASSUME CatalogInv, NEW c \in Caller, Catalog!Again(c)
  PROVE  CatalogInv'
<1>1. /\ aborted' = aborted \ {c} /\ UNCHANGED <<adapter, version, load, loadChild, cachedModels, loads>>
      /\ aborted' \subseteq Caller /\ load \in LoadState \cup {None}
      /\ (load # None => load.owner # c) /\ modelsCaller' = [modelsCaller EXCEPT ![c] = Catalog!Idle]
  BY DEF Catalog!Again, CatalogInv, CatalogTypeInv
<1>2. LoadOK' /\ (load' # None => OutcomeOK(load.outcome, load.owner)')
  BY <1>1 DEF CatalogInv, LoadOK, OutcomeOK
<1>3. Catalog!Idle \in [is : {"idle", "waiting", "models", "failed", "aborted"},
                by : Caller \cup {None}, models : Nat \cup {None}] /\ Catalog!Idle.is = "idle"
  BY DEF Catalog!Idle, Catalog!Told
<1>4. modelsCaller'[c] = Catalog!Idle
  BY <1>1 DEF CatalogInv, CatalogTypeInv
<1>5. CallerOK(c)'
  BY <1>3, <1>4 DEF CallerOK
<1> QED BY <1>1, <1>2, <1>3, <1>5, OneCaller

\* The load goes on; what it has come to may be known now.
LEMMA LoadStep ==
  ASSUME CatalogInv, load # None, NEW o \in OutcomeState \cup {None}, NEW n \in {1, 2},
         load' = [load EXCEPT !.attempt = n, !.outcome = o],
         UNCHANGED <<adapter, version, modelsCaller, aborted, cachedModels>>, OutcomeOK(o, load.owner),
         o # None /\ o.is = "models" => o.models = version \/ o = load.outcome
  PROVE  CatalogInv'
<1>1. /\ load' \in LoadState /\ load' # None /\ load'.outcome = o /\ load'.owner = load.owner
  BY CatalogTyped, CatalogAssumption DEF LoadState
<1>2. CatalogTypeInv' /\ LoadOK'
  BY <1>1 DEF CatalogInv, CatalogTypeInv, LoadOK
<1>3. OutcomeOK(load.outcome, load.owner)'
  BY <1>1 DEF OutcomeOK
<1>4. ASSUME NEW c \in Caller PROVE CallerOK(c)'
  <2>1. CallerOK(c) /\ version \in Nat
    BY DEF CatalogInv, CatalogTypeInv
  <2>2. modelsCaller[c].is = "models" /\ o # None /\ o.is = "models" => o.models >= modelsCaller[c].models
    BY <2>1 DEF CallerOK
  <2> QED BY <1>1, <2>1, <2>2 DEF CallerOK
<1> QED BY <1>2, <1>3, <1>4 DEF CatalogInv

LEMMA LoadSteps ==
  ASSUME CatalogInv, Catalog!Spawn \/ Catalog!NotSpawned \/ Catalog!Lists \/ Catalog!Fails \/ Catalog!FallsBack \/ Catalog!Cut \/ Catalog!Exits
  PROVE  CatalogInv'
<1>1. /\ load # None /\ load \in LoadState /\ load.owner \in Caller /\ load.attempt \in {1, 2}
      /\ load.outcome \in OutcomeState \cup {None} /\ OutcomeOK(load.outcome, load.owner)
      /\ version \in Nat
  <2>1. load # None
    BY CatalogAssumption DEF CatalogInv, LoadOK, Catalog!Spawn, Catalog!NotSpawned, Catalog!Lists,
       Catalog!Fails, Catalog!FallsBack, Catalog!Cut, Catalog!Exits
  <2> QED BY <2>1, CatalogTyped DEF CatalogInv, CatalogTypeInv
<1>2. UNCHANGED <<adapter, version, modelsCaller, aborted, cachedModels>>
  BY DEF Catalog!Spawn, Catalog!NotSpawned, Catalog!Lists, Catalog!Fails, Catalog!FallsBack, Catalog!Cut,
     Catalog!Exits, Catalog!Outcome
<1>3. ASSUME NEW o \in OutcomeState, Catalog!Outcome(o), OutcomeOK(o, load.owner),
             o.is = "models" => o.models = version
      PROVE  CatalogInv'
  <2>1. load' = [load EXCEPT !.attempt = load.attempt, !.outcome = o]
    BY <1>1, <1>3 DEF Catalog!Outcome, LoadState
  <2> QED BY <1>1, <1>2, <1>3, <2>1, LoadStep
<1>4. ASSUME NEW kind \in {"failed", "aborted"}
      PROVE  Catalog!Failed(kind) \in OutcomeState /\ Catalog!Failed(kind).is = kind
  BY DEF Catalog!Failed, OutcomeState
<1>5. /\ OutcomeOK(Catalog!Failed("failed"), load.owner)
      /\ Catalog!LoadAborted(load, aborted) => OutcomeOK(Catalog!Failed("aborted"), load.owner)
  BY <1>4 DEF OutcomeOK, Catalog!LoadAborted
<1>6. CASE Catalog!Spawn
  <2>1. load' = [load EXCEPT !.attempt = load.attempt, !.outcome = load.outcome]
    BY <1>1, <1>6 DEF Catalog!Spawn, LoadState
  <2> QED BY <1>1, <1>2, <2>1, LoadStep
<1>7. CASE Catalog!NotSpawned
  BY <1>3, <1>4, <1>5, <1>7 DEF Catalog!NotSpawned
<1>8. CASE Catalog!Lists
  <2>1. Catalog!Listed(version) \in OutcomeState /\ Catalog!Listed(version).models = version /\ Catalog!Listed(version).is = "models"
    BY <1>1 DEF Catalog!Listed, OutcomeState
  <2>2. OutcomeOK(Catalog!Listed(version), load.owner)
    BY <1>1, <2>1 DEF OutcomeOK
  <2> QED BY <1>3, <1>8, <2>1, <2>2 DEF Catalog!Lists
<1>9. CASE Catalog!Fails
  BY <1>3, <1>4, <1>5, <1>9 DEF Catalog!Fails
<1>10. CASE Catalog!FallsBack
  <2>1. load' = [load EXCEPT !.attempt = 2, !.outcome = load.outcome]
    BY <1>1, <1>10 DEF Catalog!FallsBack, LoadState
  <2> QED BY <1>1, <1>2, <2>1, LoadStep
<1>11. CASE Catalog!Cut
  BY <1>3, <1>4, <1>5, <1>11 DEF Catalog!Cut
<1>12. CASE Catalog!Exits
  <2>1. CASE adapter = "antigravity" /\ Catalog!LoadAborted(load, aborted)
    <3>1. load' = [load EXCEPT !.attempt = load.attempt, !.outcome = Catalog!Failed("aborted")]
      BY <1>1, <1>12, <2>1 DEF Catalog!Exits, LoadState
    <3> QED BY <1>1, <1>2, <1>4, <1>5, <2>1, <3>1, LoadStep
  <2>2. CASE ~(adapter = "antigravity" /\ Catalog!LoadAborted(load, aborted))
    <3>1. load' = [load EXCEPT !.attempt = load.attempt, !.outcome = load.outcome]
      BY <1>1, <1>12, <2>2 DEF Catalog!Exits, LoadState
    <3> QED BY <1>1, <1>2, <3>1, LoadStep
  <2> QED BY <2>1, <2>2
<1> QED BY <1>6, <1>7, <1>8, <1>9, <1>10, <1>11, <1>12

\* Every caller who waits is told what the load came to.
LEMMA SettlesPreserves ==
  ASSUME CatalogInv, Catalog!Settles
  PROVE  CatalogInv'
<1>1. /\ load # None /\ load.outcome # None /\ load' = None /\ loadChild = None /\ cachedModels = None
      /\ UNCHANGED <<adapter, version, aborted, loadChild>>
      /\ load.owner \in Caller /\ load.outcome \in OutcomeState
      /\ OutcomeOK(load.outcome, load.owner) /\ version \in Nat
  BY CatalogTyped DEF Catalog!Settles, CatalogInv, LoadOK, CatalogTypeInv
<1>2. /\ load.outcome.is \in {"models", "failed", "aborted"}
      /\ load.outcome.models \in Nat \cup {None}
  BY <1>1 DEF OutcomeState
<1> DEFINE told == Catalog!Told(load.outcome.is, IF load.owner \in aborted THEN load.owner ELSE None,
                        load.outcome.models)
<1>3. /\ told.is = load.outcome.is /\ told.models = load.outcome.models
      /\ told.by = IF load.owner \in aborted THEN load.owner ELSE None
      /\ told \in [is : {"idle", "waiting", "models", "failed", "aborted"},
                   by : Caller \cup {None}, models : Nat \cup {None}]
  BY <1>1, <1>2 DEF Catalog!Told
<1>4. modelsCaller' = [c \in Caller |-> IF modelsCaller[c].is = "waiting" THEN told ELSE modelsCaller[c]]
  BY DEF Catalog!Settles
<1> HIDE DEF told
<1>5. cachedModels' = IF load.outcome.is = "models" THEN load.outcome.models ELSE None
  BY <1>1 DEF Catalog!Settles
<1>6. cachedModels' \in Nat \cup {None} /\ (cachedModels' # None => cachedModels' <= version)
  BY <1>1, <1>2, <1>5 DEF OutcomeOK
<1>7. CatalogTypeInv'
  BY <1>1, <1>3, <1>4, <1>6 DEF CatalogInv, CatalogTypeInv
<1>8. LoadOK'
  BY <1>1, <1>6 DEF LoadOK
<1>9. ASSUME NEW c \in Caller PROVE CallerOK(c)'
  <2>1. CallerOK(c)
    BY DEF CatalogInv
  <2>2. CASE modelsCaller[c].is = "waiting"
    <3>1. modelsCaller'[c] = told
      BY <1>4, <2>2
    <3>2. load.outcome.is = "aborted" => told.by = load.owner /\ load.owner # None /\ adapter # "codex"
      BY <1>1, <1>3, CatalogAssumption DEF OutcomeOK
    <3>3. told.is = "models" =>
            told.models \in Nat /\ told.models <= version /\ cachedModels' = told.models
      BY <1>1, <1>3, <1>5 DEF OutcomeOK
    <3>4. told.is # "waiting"
      BY <1>2, <1>3
    <3> QED BY <1>1, <1>3, <3>1, <3>2, <3>3, <3>4 DEF CallerOK
  <2>3. CASE modelsCaller[c].is # "waiting"
    <3>1. modelsCaller'[c] = modelsCaller[c]
      BY <1>4, <2>3
    <3>2. modelsCaller[c].is = "models" /\ cachedModels' # None => cachedModels' >= modelsCaller[c].models
      BY <1>1, <1>5, <2>1 DEF CallerOK, OutcomeOK
    <3> QED BY <1>1, <2>1, <2>3, <3>1, <3>2 DEF CallerOK
  <2> QED BY <2>2, <2>3
<1> QED BY <1>1, <1>7, <1>8, <1>9 DEF CatalogInv

LEMMA TimePreserves ==
  ASSUME CatalogInv, Catalog!Expire \/ Catalog!Changes \/ UNCHANGED Catalog!catalogVars
  PROVE  CatalogInv'
<1>1. /\ UNCHANGED <<adapter, modelsCaller, aborted, load, loadChild>>
      /\ version \in Nat /\ version' \in Nat /\ version <= version'
      /\ cachedModels' = cachedModels \/ cachedModels' = None
  BY DEF Catalog!Expire, Catalog!Changes, Catalog!catalogVars, CatalogInv, CatalogTypeInv
<1>2. CatalogTypeInv' /\ LoadOK'
  BY <1>1 DEF CatalogInv, CatalogTypeInv, LoadOK
<1>3. ASSUME NEW o, NEW k, OutcomeOK(o, k) PROVE OutcomeOK(o, k)'
  BY <1>1, <1>3 DEF OutcomeOK
<1>4. load' # None => OutcomeOK(load.outcome, load.owner)'
  BY <1>1 DEF CatalogInv, OutcomeOK
<1>5. \A c \in Caller : CallerOK(c)'
  BY <1>1 DEF CatalogInv, CallerOK
<1> QED BY <1>2, <1>4, <1>5 DEF CatalogInv

LEMMA CatalogNext ==
  ASSUME CatalogInv, [Catalog!Next]_(Catalog!catalogVars)
  PROVE  CatalogInv'
BY CatalogAskPreserves, CatalogAbortPreserves, AgainPreserves, LoadSteps, SettlesPreserves, TimePreserves
   DEF Catalog!Next

\* What a caller is told of the load.
LEMMA CatalogAlways ==
  ASSUME CatalogInv
  PROVE  Catalog!CatalogAnswers
BY DEF CatalogInv, LoadOK, CallerOK, Catalog!CatalogAnswers, Catalog!OwnAbort, Catalog!OneLoad

LEMMA AnswersOfOneLoad == Catalog!Spec => []Catalog!CatalogAnswers
<1>1. Catalog!Init => CatalogInv
  BY CatalogInitInv
<1>2. CatalogInv /\ [Catalog!Next]_(Catalog!catalogVars) => CatalogInv'
  BY CatalogNext
<1>3. CatalogInv => Catalog!CatalogAnswers
  BY CatalogAlways
<1> QED BY <1>1, <1>2, <1>3, PTL DEF Catalog!Spec

\* ModelCatalog!CatalogAnswers: one load at a time, its callers told of that load or of the list
\* it left, and told "aborted" only when they or the load's owner aborted.
THEOREM CatalogAnswersAll == Catalog!Spec => []CatalogAnswers
BY AnswersOfOneLoad, PTL DEF CatalogAnswers

-----------------------------------------------------------------------------
(* PresetManager *)

Steps == {"idle", "stage", "install", "back up", "replace", "restore", "clean", "remove"}
Command == [name : {"install", "update", "remove", None}, version : Version \cup {None}, step : Steps]

PresetTypeInv ==
  /\ target \in Tree \cup {None}
  /\ command \in [Terminal -> Command]
  /\ staged \in [Terminal -> Tree \cup {None}]
  /\ backup \in [Terminal -> Tree \cup {None}]
  /\ litter \subseteq Tree
  /\ edited \in BOOLEAN /\ removed \in BOOLEAN

\* What a command holds at each of its steps.
PresetCommandOK(t) ==
  /\ command[t].step = "idle" => command[t] = Preset!Idle
  /\ command[t].step # "idle" => command[t].version \in Version
  /\ command[t].step \in {"install", "back up", "replace"} => staged[t] = Preset!Whole(command[t].version)
  /\ command[t].step \in {"replace", "restore"} => backup[t] # None
  /\ command[t].step \notin {"replace", "restore", "clean"} => backup[t] = None
  /\ command[t].step = "remove" => removed
  /\ ~removed /\ backup[t] # None => backup[t].files # Preset!Part

\* From the user's first edit on no command proceeds.
EditedOK == edited => /\ target # None /\ target.files = Preset!Edited
                      /\ \A t \in Terminal : command[t] = Preset!Idle

\* Somewhere there is a whole preset which no command is about to clean away.
WholeKept ==
  ~removed =>
    /\ target # None => target.files # Preset!Part
    /\ \/ target # None
       \/ \E tree \in litter : tree.files # Preset!Part
       \/ \E t \in Terminal : backup[t] # None /\ command[t].step # "clean"

PresetInv ==
  /\ PresetTypeInv
  /\ \A t \in Terminal : PresetCommandOK(t)
  /\ EditedOK
  /\ WholeKept

LEMMA PresetInit == Preset!Init => PresetInv
<1> SUFFICES ASSUME Preset!Init PROVE PresetInv
  OBVIOUS
<1>1. target \in Tree \cup {None} /\ (target # None => target.files # Preset!Part)
  <2>1. CASE target = [files |-> Preset!Edited, marker |-> None]
    BY <2>1 DEF Tree, Preset!Edited, Preset!Part
  <2>2. CASE target \in {Preset!Whole(v) : v \in Version}
    BY <2>2, PresetAssumption DEF Tree, Preset!Whole
  <2>3. CASE target = None
    BY <2>3
  <2> QED BY <2>1, <2>2, <2>3 DEF Preset!Init
<1>2. Preset!Idle \in Command /\ Preset!Idle.step = "idle"
  BY DEF Preset!Idle, Command, Steps
<1>3. PresetTypeInv
  BY <1>1, <1>2 DEF Preset!Init, PresetTypeInv
<1>4. \A t \in Terminal : PresetCommandOK(t)
  BY <1>2 DEF Preset!Init, PresetCommandOK
<1>5. EditedOK /\ WholeKept
  BY <1>1 DEF Preset!Init, EditedOK, WholeKept
<1> QED BY <1>3, <1>4, <1>5 DEF PresetInv

\* A tree, a command.
LEMMA TreeTyped ==
  /\ \A tree \in Tree : tree # None /\ tree.files \in Version \cup {Preset!Part, Preset!Edited} /\ tree.marker \in Version \cup {None}
  /\ \A v \in Version : Preset!Whole(v) \in Tree /\ Preset!Whole(v) # None /\ Preset!Whole(v).files = v /\ Preset!Whole(v).files # Preset!Part
  /\ \A m \in Version \cup {None} :
       /\ [files |-> Preset!Part, marker |-> m] \in Tree /\ [files |-> Preset!Part, marker |-> m] # None
       /\ [files |-> Preset!Part, marker |-> m].files = Preset!Part
BY PresetAssumption DEF Tree, Preset!Whole

LEMMA CommandTyped ==
  ASSUME PresetInv, NEW t \in Terminal
  PROVE  /\ command[t] \in Command /\ command[t].step \in Steps
         /\ \A step \in Steps : /\ [command[t] EXCEPT !.step = step] \in Command
                                /\ [command[t] EXCEPT !.step = step].step = step
                                /\ [command[t] EXCEPT !.step = step].version = command[t].version
         /\ Preset!Idle \in Command /\ Preset!Idle.step = "idle"
         /\ staged[t] \in Tree \cup {None} /\ backup[t] \in Tree \cup {None}
BY DEF PresetInv, PresetTypeInv, Command, Preset!Idle, Steps

\* A step of one terminal's command, which leaves the others' alone.
LEMMA OneTerminal ==
  ASSUME PresetInv, NEW t \in Terminal, NEW c \in Command, NEW s \in Tree \cup {None}, NEW b \in Tree \cup {None},
         command' = [command EXCEPT ![t] = c],
         staged' = [staged EXCEPT ![t] = s],
         backup' = [backup EXCEPT ![t] = b],
         target' \in Tree \cup {None}, litter' \subseteq Tree, edited' = edited, removed' \in BOOLEAN,
         removed /\ ~removed' => \A u \in Terminal \ {t} : command[u] = Preset!Idle,
         PresetCommandOK(t)', ~edited, WholeKept'
  PROVE  PresetInv'
<1>1. PresetTypeInv'
  BY DEF PresetInv, PresetTypeInv
<1>2. ASSUME NEW u \in Terminal PROVE PresetCommandOK(u)'
  <2>1. CASE u # t
    <3>1. command'[u] = command[u] /\ staged'[u] = staged[u] /\ backup'[u] = backup[u] /\ PresetCommandOK(u)
      BY <2>1 DEF PresetInv, PresetTypeInv
    <3>2. command[u] = Preset!Idle => command[u].step = "idle"
      BY CommandTyped
    <3> QED BY <2>1, <3>1, <3>2 DEF PresetCommandOK
  <2> QED BY <2>1
<1>3. EditedOK'
  BY DEF EditedOK
<1> QED BY <1>1, <1>2, <1>3 DEF PresetInv

\* Nothing the user edited is under a command.
LEMMA NotEdited ==
  ASSUME PresetInv, NEW t \in Terminal, command[t].step # "idle"
  PROVE  ~edited /\ command[t] # Preset!Idle
BY CommandTyped DEF PresetInv, EditedOK

LEMMA RunPreserves ==
  ASSUME PresetInv, NEW t \in Terminal, Preset!Run(t)
  PROVE  PresetInv'
<1>1. PICK name \in {"install", "update", "remove"}, wantedVersion \in Version :
        /\ Preset!Proceeds(name, Preset!State(wantedVersion))
        /\ command' = [command EXCEPT ![t] =
             [name |-> name, version |-> wantedVersion, step |-> IF name = "remove" THEN "remove" ELSE "stage"]]
        /\ removed' = (removed \/ name = "remove")
  BY DEF Preset!Run
<1>2. UNCHANGED <<target, staged, backup, litter, edited>> /\ command[t] = Preset!Idle
  BY DEF Preset!Run
<1> DEFINE c == [name |-> name, version |-> wantedVersion, step |-> IF name = "remove" THEN "remove" ELSE "stage"]
<1>3. c \in Command /\ c.version = wantedVersion /\ c.step = IF name = "remove" THEN "remove" ELSE "stage"
  BY DEF Command, Steps
<1>4. command' = [command EXCEPT ![t] = c]
  BY <1>1
<1> HIDE DEF c
<1>5. command'[t] = c
  BY <1>4 DEF PresetInv, PresetTypeInv
<1>6. staged' = [staged EXCEPT ![t] = staged[t]] /\ backup' = [backup EXCEPT ![t] = backup[t]]
  BY <1>2 DEF PresetInv, PresetTypeInv
<1>7. removed' \in BOOLEAN /\ target' \in Tree \cup {None} /\ litter' \subseteq Tree
  BY <1>1, <1>2 DEF PresetInv, PresetTypeInv
<1>8. ~edited
  <2> SUFFICES ASSUME edited PROVE FALSE
    OBVIOUS
  <2>1. target # None /\ target.files = Preset!Edited /\ target \in Tree
    BY DEF PresetInv, EditedOK, PresetTypeInv
  <2>2. target.marker # None => target.marker # target.files
    BY <2>1, TreeTyped, PresetAssumption DEF Preset!Edited
  <2>3. Preset!State(wantedVersion) \in {"unmanaged", "modified"}
    BY <2>1, <2>2 DEF Preset!State
  <2> QED BY <1>1, <2>3 DEF Preset!Proceeds
<1>9. PresetCommandOK(t)'
  <2>1. backup[t] = None
    BY <1>2, CommandTyped DEF PresetInv, PresetCommandOK
  <2> QED BY <1>1, <1>2, <1>3, <1>5, <2>1 DEF PresetCommandOK
<1>10. WholeKept'
  <2>1. \A u \in Terminal : backup'[u] # None /\ command[u].step # "clean" => command'[u].step # "clean"
    BY <1>2, <1>3, <1>4, <1>5 DEF PresetInv, PresetTypeInv
  <2> QED BY <1>1, <1>2, <2>1 DEF PresetInv, WholeKept
<1>11. removed => removed'
  BY <1>1
<1>12. staged[t] \in Tree \cup {None} /\ backup[t] \in Tree \cup {None}
  BY CommandTyped
<1> QED BY <1>2, <1>3, <1>4, <1>6, <1>7, <1>8, <1>9, <1>10, <1>11, <1>12, OneTerminal

\* What is whole and kept stays so: the directory keeps what it has, or nothing of it is needed.
LEMMA StillWhole ==
  ASSUME PresetInv, NEW t \in Terminal, WholeKept, target' = target, removed' = removed, litter \subseteq litter',
         NEW c, NEW b, command' = [command EXCEPT ![t] = c], backup' = [backup EXCEPT ![t] = b],
         \/ b # None /\ c.step # "clean"
         \/ backup[t] = None
         \/ command[t].step = "clean"
         \/ backup[t] \in litter'
  PROVE  WholeKept'
<1> SUFFICES ASSUME ~removed, target = None
             PROVE  \/ \E tree \in litter' : tree.files # Preset!Part
                    \/ \E u \in Terminal : backup'[u] # None /\ command'[u].step # "clean"
  BY DEF WholeKept
<1>1. CASE \E tree \in litter : tree.files # Preset!Part
  BY <1>1
<1>2. ASSUME NEW u \in Terminal, backup[u] # None, command[u].step # "clean"
      PROVE  \/ \E tree \in litter' : tree.files # Preset!Part
             \/ \E v \in Terminal : backup'[v] # None /\ command'[v].step # "clean"
  <2>1. CASE u = t
    <3>1. backup'[t] = b /\ command'[t] = c
      BY DEF PresetInv, PresetTypeInv
    <3>2. backup[t].files # Preset!Part
      BY <1>2, <2>1 DEF PresetInv, PresetCommandOK
    <3> QED BY <1>2, <2>1, <3>1, <3>2
  <2>2. CASE u # t
    BY <1>2, <2>2 DEF PresetInv, PresetTypeInv
  <2> QED BY <2>1, <2>2
<1> QED BY <1>1, <1>2 DEF WholeKept

LEMMA StagePreserves ==
  ASSUME PresetInv, NEW t \in Terminal, Preset!StageBegins(t) \/ Preset!StageEnds(t)
  PROVE  PresetInv'
<1>1. /\ command[t].step = "stage" /\ UNCHANGED <<target, backup, litter, edited, removed>>
      /\ command[t].version \in Version /\ backup[t] = None /\ ~edited
  BY NotEdited DEF Preset!StageBegins, Preset!StageEnds, Preset!At, Preset!Histories, PresetInv,
     PresetCommandOK
<1>2. /\ removed' \in BOOLEAN /\ target' \in Tree \cup {None} /\ litter' \subseteq Tree
      /\ backup' = [backup EXCEPT ![t] = None]
  BY <1>1 DEF PresetInv, PresetTypeInv
<1>3. ASSUME NEW c \in Command, NEW s \in Tree \cup {None},
             command' = [command EXCEPT ![t] = c], staged' = [staged EXCEPT ![t] = s],
             \/ c = Preset!Idle
             \/ /\ c.step \in {"stage", "install", "back up"} /\ c.version = command[t].version
                /\ c.step # "stage" => s = Preset!Whole(c.version)
      PROVE  PresetInv'
  <2>1. command'[t] = c /\ staged'[t] = s /\ backup'[t] = None
    BY <1>2, <1>3 DEF PresetInv, PresetTypeInv
  <2>2. PresetCommandOK(t)'
    BY <1>1, <1>3, <2>1, CommandTyped DEF PresetCommandOK
  <2>3. WholeKept'
    BY <1>1, <1>2, <1>3, StillWhole DEF PresetInv
  <2> QED BY <1>1, <1>2, <1>3, <2>2, <2>3, OneTerminal
<1>4. CASE Preset!StageBegins(t)
  <2>1. command' = [command EXCEPT ![t] = command[t]]
    BY <1>4 DEF Preset!StageBegins, PresetInv, PresetTypeInv
  <2> DEFINE s == [files |-> Preset!Part, marker |-> None]
  <2>2. s \in Tree /\ staged' = [staged EXCEPT ![t] = s]
    BY <1>4, TreeTyped DEF Preset!StageBegins
  <2> QED BY <1>1, <1>3, <2>1, <2>2, CommandTyped
<1>5. CASE Preset!StageEnds(t)
  <2>1. CASE /\ staged' = [staged EXCEPT ![t] = Preset!Whole(command[t].version)]
             /\ Preset!Goto(t, IF command[t].name = "install" THEN "install" ELSE "back up")
    <3> DEFINE step == IF command[t].name = "install" THEN "install" ELSE "back up"
               c == [command[t] EXCEPT !.step = step]
    <3>1. step \in Steps /\ step \in {"install", "back up"}
      BY DEF Steps
    <3>2. c \in Command /\ c.step = step /\ c.version = command[t].version
      BY <3>1, CommandTyped
    <3>3. command' = [command EXCEPT ![t] = c]
      BY <2>1 DEF Preset!Goto
    <3> HIDE DEF c
    <3> QED BY <1>1, <1>3, <2>1, <3>1, <3>2, <3>3, TreeTyped
  <2>2. CASE staged' = [staged EXCEPT ![t] = None] /\ Preset!End(t)
    BY <1>3, <2>2, CommandTyped DEF Preset!End
  <2> QED BY <1>5, <2>1, <2>2 DEF Preset!StageEnds
<1> QED BY <1>4, <1>5

\* A command that is over holds nothing.
LEMMA EndedOK ==
  ASSUME PresetInv, NEW t \in Terminal, Preset!End(t), backup'[t] = None
  PROVE  /\ PresetCommandOK(t)' /\ Preset!Idle \in Command /\ Preset!Idle.step = "idle"
         /\ command' = [command EXCEPT ![t] = Preset!Idle] /\ command'[t] = Preset!Idle
<1>1. command'[t] = Preset!Idle /\ command' = [command EXCEPT ![t] = Preset!Idle]
  BY DEF Preset!End, PresetInv, PresetTypeInv
<1> QED BY <1>1, CommandTyped DEF PresetCommandOK

LEMMA InstallPreserves ==
  ASSUME PresetInv, NEW t \in Terminal, Preset!Install(t)
  PROVE  PresetInv'
<1>1. /\ command[t].step = "install" /\ UNCHANGED <<backup, litter, edited>> /\ Preset!End(t)
      /\ command[t].version \in Version /\ backup[t] = None /\ ~edited
      /\ staged[t] = Preset!Whole(command[t].version)
      /\ staged' = [staged EXCEPT ![t] = None]
  BY NotEdited DEF Preset!Install, Preset!At, PresetInv, PresetCommandOK
<1>2. backup' = [backup EXCEPT ![t] = None] /\ litter' \subseteq Tree
  BY <1>1 DEF PresetInv, PresetTypeInv
<1>3. backup'[t] = None
  BY <1>1
<1>4. CASE UNCHANGED <<target, removed>>
  <2>1. WholeKept'
    BY <1>1, <1>2, <1>3, <1>4, EndedOK, StillWhole DEF PresetInv
  <2> QED BY <1>1, <1>2, <1>3, <1>4, <2>1, EndedOK, OneTerminal DEF PresetInv, PresetTypeInv
<1>5. CASE /\ target' = staged[t]
           /\ removed' = (removed /\ \E u \in Terminal \ {t} : command[u] # Preset!Idle)
  <2>1. target' \in Tree /\ target' # None /\ target'.files # Preset!Part
    BY <1>1, <1>5, TreeTyped
  <2>2. removed' \in BOOLEAN /\ (removed /\ ~removed' => \A u \in Terminal \ {t} : command[u] = Preset!Idle)
    BY <1>5 DEF PresetInv, PresetTypeInv
  <2>3. WholeKept'
    BY <2>1 DEF WholeKept
  <2> QED BY <1>1, <1>2, <1>3, <2>1, <2>2, <2>3, EndedOK, OneTerminal
<1> QED BY <1>4, <1>5 DEF Preset!Install

LEMMA BackUpPreserves ==
  ASSUME PresetInv, NEW t \in Terminal, Preset!BackUp(t)
  PROVE  PresetInv'
<1>1. /\ command[t].step = "back up" /\ UNCHANGED <<litter, edited, removed>>
      /\ command[t].version \in Version /\ backup[t] = None /\ ~edited
      /\ staged[t] = Preset!Whole(command[t].version) /\ staged[t] \in Tree
      /\ removed' \in BOOLEAN /\ litter' \subseteq Tree /\ target \in Tree \cup {None}
  BY NotEdited, TreeTyped DEF Preset!BackUp, Preset!At, Preset!Histories, PresetInv, PresetCommandOK,
     PresetTypeInv
<1>2. CASE /\ target # None
           /\ backup' = [backup EXCEPT ![t] = target] /\ target' = None
           /\ Preset!Goto(t, "replace") /\ UNCHANGED staged
  <2> DEFINE c == [command[t] EXCEPT !.step = "replace"]
  <2>1. c \in Command /\ c.step = "replace" /\ c.version = command[t].version
    BY CommandTyped DEF Steps
  <2>2. command' = [command EXCEPT ![t] = c]
    BY <1>2 DEF Preset!Goto
  <2> HIDE DEF c
  <2>3. command'[t] = c /\ backup'[t] = target /\ staged' = [staged EXCEPT ![t] = staged[t]]
    BY <1>2, <2>2 DEF PresetInv, PresetTypeInv
  <2>4. ~removed => target.files # Preset!Part
    BY <1>2 DEF PresetInv, WholeKept
  <2>5. PresetCommandOK(t)'
    BY <1>1, <1>2, <2>1, <2>3, <2>4 DEF PresetCommandOK
  <2>6. WholeKept'
    BY <1>2, <2>1, <2>3 DEF WholeKept
  <2> QED BY <1>1, <1>2, <2>1, <2>2, <2>3, <2>5, <2>6, OneTerminal
<1>3. CASE staged' = [staged EXCEPT ![t] = None] /\ Preset!End(t) /\ UNCHANGED <<target, backup>>
  <2>1. backup' = [backup EXCEPT ![t] = None] /\ backup'[t] = None
    BY <1>1, <1>3 DEF PresetInv, PresetTypeInv
  <2>2. WholeKept'
    BY <1>1, <1>3, <2>1, EndedOK, StillWhole DEF PresetInv
  <2> QED BY <1>1, <1>3, <2>1, <2>2, EndedOK, OneTerminal
<1> QED BY <1>2, <1>3 DEF Preset!BackUp

LEMMA ReplacePreserves ==
  ASSUME PresetInv, NEW t \in Terminal, Preset!Replace(t)
  PROVE  PresetInv'
<1>1. /\ command[t].step = "replace" /\ UNCHANGED <<backup, litter, edited, removed>>
      /\ command[t].version \in Version /\ backup[t] # None /\ ~edited
      /\ staged[t] = Preset!Whole(command[t].version) /\ staged[t] \in Tree
      /\ removed' \in BOOLEAN /\ litter' \subseteq Tree /\ target \in Tree \cup {None}
      /\ backup' = [backup EXCEPT ![t] = backup[t]] /\ backup[t] \in Tree
      /\ ~removed => backup[t].files # Preset!Part
  BY NotEdited, TreeTyped DEF Preset!Replace, Preset!At, Preset!Histories, PresetInv, PresetCommandOK,
     PresetTypeInv
<1>2. CASE target' = staged[t] /\ staged' = [staged EXCEPT ![t] = None] /\ Preset!Goto(t, "clean")
  <2> DEFINE c == [command[t] EXCEPT !.step = "clean"]
  <2>1. c \in Command /\ c.step = "clean" /\ c.version = command[t].version
    BY CommandTyped DEF Steps
  <2>2. command' = [command EXCEPT ![t] = c]
    BY <1>2 DEF Preset!Goto
  <2> HIDE DEF c
  <2>3. command'[t] = c /\ backup'[t] = backup[t]
    BY <1>1, <2>2 DEF PresetInv, PresetTypeInv
  <2>4. PresetCommandOK(t)'
    BY <1>1, <2>1, <2>3 DEF PresetCommandOK
  <2>5. target' \in Tree /\ target' # None /\ target'.files # Preset!Part
    BY <1>1, <1>2, TreeTyped
  <2>6. WholeKept'
    BY <2>5 DEF WholeKept
  <2> QED BY <1>1, <1>2, <2>1, <2>2, <2>4, <2>5, <2>6, OneTerminal
<1>3. CASE Preset!Goto(t, "restore") /\ UNCHANGED <<target, staged>>
  <2> DEFINE c == [command[t] EXCEPT !.step = "restore"]
  <2>1. c \in Command /\ c.step = "restore" /\ c.version = command[t].version
    BY CommandTyped DEF Steps
  <2>2. command' = [command EXCEPT ![t] = c]
    BY <1>3 DEF Preset!Goto
  <2> HIDE DEF c
  <2>3. /\ command'[t] = c /\ backup'[t] = backup[t]
        /\ staged' = [staged EXCEPT ![t] = staged[t]]
    BY <1>1, <1>3, <2>2 DEF PresetInv, PresetTypeInv
  <2>4. PresetCommandOK(t)'
    BY <1>1, <2>1, <2>3 DEF PresetCommandOK
  <2>5. WholeKept'
    BY <1>1, <1>3, <2>1, <2>2, StillWhole DEF PresetInv
  <2>6. /\ target' \in Tree \cup {None} /\ litter' \subseteq Tree /\ edited' = edited
        /\ removed' \in BOOLEAN /\ removed' = removed /\ ~edited
        /\ staged[t] \in Tree \cup {None} /\ backup[t] \in Tree \cup {None}
        /\ backup' = [backup EXCEPT ![t] = backup[t]]
    BY <1>1, <1>3
  <2>7. staged' = [staged EXCEPT ![t] = staged[t]] /\ c \in Command
    BY <2>1, <2>3
  <2> QED BY <2>2, <2>4, <2>5, <2>6, <2>7, OneTerminal
<1> QED BY <1>2, <1>3 DEF Preset!Replace

LEMMA RestorePreserves ==
  ASSUME PresetInv, NEW t \in Terminal, Preset!Restore(t)
  PROVE  PresetInv'
<1>1. /\ command[t].step = "restore" /\ UNCHANGED <<edited, removed>> /\ Preset!End(t)
      /\ backup[t] # None /\ ~edited /\ backup[t] \in Tree
      /\ removed' \in BOOLEAN /\ target \in Tree \cup {None} /\ litter \subseteq Tree
      /\ backup' = [backup EXCEPT ![t] = None] /\ backup'[t] = None
      /\ staged' = [staged EXCEPT ![t] = None]
      /\ ~removed => backup[t].files # Preset!Part
  BY NotEdited, CommandTyped DEF Preset!Restore, Preset!At, PresetInv, PresetCommandOK, PresetTypeInv
<1>2. CASE target' = backup[t] /\ UNCHANGED litter
  <2>1. WholeKept'
    BY <1>1, <1>2 DEF WholeKept
  <2> QED BY <1>1, <1>2, <2>1, EndedOK, OneTerminal
<1>3. CASE litter' = litter \cup {backup[t]} /\ UNCHANGED target
  <2>1. WholeKept'
    BY <1>1, <1>3, EndedOK, StillWhole DEF PresetInv
  <2> QED BY <1>1, <1>3, <2>1, EndedOK, OneTerminal
<1> QED BY <1>2, <1>3 DEF Preset!Restore

LEMMA CleanPreserves ==
  ASSUME PresetInv, NEW t \in Terminal, Preset!Clean(t)
  PROVE  PresetInv'
<1>1. /\ command[t].step = "clean" /\ UNCHANGED <<target, staged, litter, edited, removed>> /\ Preset!End(t) /\ ~edited
      /\ backup' = [backup EXCEPT ![t] = None] /\ backup'[t] = None
      /\ staged' = [staged EXCEPT ![t] = staged[t]] /\ staged[t] \in Tree \cup {None}
      /\ removed' \in BOOLEAN /\ target' \in Tree \cup {None} /\ litter' \subseteq Tree
  BY NotEdited, CommandTyped DEF Preset!Clean, Preset!At, Preset!Histories, PresetInv, PresetTypeInv
<1>2. WholeKept'
  BY <1>1, EndedOK, StillWhole DEF PresetInv
<1> QED BY <1>1, <1>2, EndedOK, OneTerminal

LEMMA RemovePreserves ==
  ASSUME PresetInv, NEW t \in Terminal, Preset!RemoveSome(t) \/ Preset!RemoveEnds(t)
  PROVE  PresetInv'
<1>1. /\ command[t].step = "remove" /\ UNCHANGED <<staged, backup, litter, edited, removed>> /\ ~edited
      /\ removed /\ backup[t] = None /\ PresetCommandOK(t)
      /\ removed' \in BOOLEAN /\ litter' \subseteq Tree /\ target \in Tree \cup {None}
      /\ command[t] \in Command /\ staged[t] \in Tree \cup {None}
  <2>1. command[t].step = "remove" /\ UNCHANGED <<staged, backup, litter, edited, removed>>
    BY DEF Preset!RemoveSome, Preset!RemoveEnds, Preset!At
  <2>2. ~edited
    BY <2>1, NotEdited
  <2>3. removed /\ backup[t] = None /\ PresetCommandOK(t)
    BY <2>1 DEF PresetInv, PresetCommandOK
  <2> QED BY <2>1, <2>2, <2>3, CommandTyped DEF PresetInv, PresetTypeInv
<1>0. /\ backup' = [backup EXCEPT ![t] = None] /\ backup'[t] = None
      /\ staged' = [staged EXCEPT ![t] = staged[t]]
  BY <1>1 DEF PresetInv, PresetTypeInv
<1>2. WholeKept'
  BY <1>1 DEF WholeKept
<1>3. CASE Preset!RemoveSome(t)
  <2>1. target' \in Tree
    <3>1. target.marker \in Version \cup {None}
      BY <1>1, <1>3, TreeTyped DEF Preset!RemoveSome
    <3> QED BY <1>3, <3>1, TreeTyped DEF Preset!RemoveSome
  <2>2. command' = [command EXCEPT ![t] = command[t]] /\ command' = command
    BY <1>3 DEF Preset!RemoveSome, PresetInv, PresetTypeInv
  <2>3. PresetCommandOK(t)'
    BY <1>0, <1>1, <2>2 DEF PresetCommandOK
  <2> QED BY <1>0, <1>1, <1>2, <2>1, <2>2, <2>3, OneTerminal
<1>4. CASE Preset!RemoveEnds(t)
  <2>1. target' \in Tree \cup {None} /\ Preset!End(t)
    BY <1>1, <1>4 DEF Preset!RemoveEnds
  <2> QED BY <1>0, <1>1, <1>2, <2>1, EndedOK, OneTerminal
<1> QED BY <1>3, <1>4

LEMMA InterruptPreserves ==
  ASSUME PresetInv, NEW t \in Terminal, Preset!Interrupt(t)
  PROVE  PresetInv'
<1>1. /\ command[t] # Preset!Idle /\ UNCHANGED <<target, edited, removed>> /\ Preset!End(t)
      /\ litter' = litter \cup ({staged[t], backup[t]} \ {None})
      /\ staged' = [staged EXCEPT ![t] = None] /\ backup' = [backup EXCEPT ![t] = None]
  BY DEF Preset!Interrupt
<1>2. /\ backup'[t] = None /\ ~edited /\ litter' \subseteq Tree
      /\ removed' \in BOOLEAN /\ target' \in Tree \cup {None}
  BY <1>1, CommandTyped DEF PresetInv, PresetTypeInv, EditedOK
<1>3. WholeKept'
  BY <1>1, <1>2, EndedOK, StillWhole DEF PresetInv
<1> QED BY <1>1, <1>2, <1>3, EndedOK, OneTerminal

LEMMA EditPreserves ==
  ASSUME PresetInv, Preset!Edit
  PROVE  PresetInv'
<1>1. /\ \A t \in Terminal : command[t] = Preset!Idle
      /\ target # None /\ target \in Tree
      /\ target' = [target EXCEPT !.files = Preset!Edited] /\ edited'
      /\ UNCHANGED <<command, staged, backup, litter, removed>>
  BY DEF Preset!Edit, PresetInv, PresetTypeInv
<1>2. target' \in Tree /\ target'.files = Preset!Edited
  BY <1>1 DEF Tree
<1>3. target' # None /\ target'.files # Preset!Part
  BY <1>2, TreeTyped DEF Preset!Edited, Preset!Part
<1>4. PresetTypeInv'
  BY <1>1, <1>2 DEF PresetInv, PresetTypeInv, Preset!Edit
<1>5. \A t \in Terminal : PresetCommandOK(t)'
  BY <1>1 DEF PresetInv, PresetCommandOK
<1>6. EditedOK' /\ WholeKept'
  BY <1>1, <1>2, <1>3 DEF EditedOK, WholeKept
<1> QED BY <1>4, <1>5, <1>6 DEF PresetInv

LEMMA PresetNext ==
  ASSUME PresetInv, [Preset!Next]_(Preset!presetVars)
  PROVE  PresetInv'
<1>1. CASE UNCHANGED Preset!presetVars
  BY <1>1 DEF Preset!presetVars, PresetInv, PresetTypeInv, PresetCommandOK, EditedOK, WholeKept
<1> QED BY <1>1, RunPreserves, StagePreserves, InstallPreserves, BackUpPreserves, ReplacePreserves,
           RestorePreserves, CleanPreserves, RemovePreserves, InterruptPreserves, EditPreserves
           DEF Preset!Next

LEMMA PresetAlways ==
  ASSUME PresetInv
  PROVE  Preset!NothingLost
<1>1. ~removed => \E tree \in Preset!Kept : tree.files # Preset!Part
  <2> SUFFICES ASSUME ~removed PROVE \E tree \in Preset!Kept : tree.files # Preset!Part
    OBVIOUS
  <2>1. CASE target # None
    BY <2>1 DEF PresetInv, WholeKept, Preset!Kept
  <2>2. CASE \E tree \in litter : tree.files # Preset!Part
    BY <2>2, TreeTyped DEF PresetInv, PresetTypeInv, Preset!Kept
  <2>3. CASE \E t \in Terminal : backup[t] # None
    BY <2>3 DEF PresetInv, PresetCommandOK, Preset!Kept
  <2> QED BY <2>1, <2>2, <2>3 DEF PresetInv, WholeKept
<1> QED BY <1>1 DEF PresetInv, EditedOK, WholeKept, Preset!NothingLost

LEMMA NothingIsLost == Preset!Spec => []Preset!NothingLost
<1>1. Preset!Init => PresetInv
  BY PresetInit
<1>2. PresetInv /\ [Preset!Next]_(Preset!presetVars) => PresetInv'
  BY PresetNext
<1>3. PresetInv => Preset!NothingLost
  BY PresetAlways
<1> QED BY <1>1, <1>2, <1>3, PTL DEF Preset!Spec

\* PresetManager!NothingLost: whatever commands run at once, wherever each is killed, a whole
\* preset is left unless it was removed on request, and so is every edit of the user's.
THEOREM PresetNeverLost == Preset!Spec => []NothingLost
BY NothingIsLost, PTL DEF NothingLost

-----------------------------------------------------------------------------
(* ModelVisibility *)

Calls == [kind : {"set", "get"}, mount : Nat, models : SUBSET Model, was : SUBSET Model,
          stage : {"sent", "listing", "answered"}]

VisibilityTypeInv ==
  /\ hiddenModels \in SUBSET Model /\ hidden \in SUBSET Model /\ catalogue = hidden
  /\ asked \in SUBSET Model /\ missed \in BOOLEAN /\ made \in Nat \ {0}
  /\ calls \in Seq(Calls)
  /\ section \in Sections \cup {None}

IsSet(i) == calls[i].kind = "set"
LastSet(i) == IsSet(i) /\ \A j \in DOMAIN calls : j > i => ~IsSet(j)

\* What is sent is handled in order; no two calls are of one section's reading; every call is of
\* a section mounted before; a load's set is alone.
CallsOK ==
  /\ \A i, j \in DOMAIN calls : i < j =>
       /\ calls[i].stage = "sent" => calls[j].stage = "sent"
       /\ IsSet(i) /\ IsSet(j) => calls[i].stage = "answered"
       /\ ~IsSet(i) /\ ~IsSet(j) => calls[i].mount # calls[j].mount
  /\ \A i \in DOMAIN calls :
       /\ calls[i].mount < made
       /\ IsSet(i) => calls[i].stage # "listing"
       /\ Visibility!Loading(calls[i]) => Len(calls) = 1 /\ section = None /\ hiddenModels = asked

\* The last set carries what is wanted, and the host has it once it is handled; what is to be
\* handled goes back to what the host has.
SetsOK ==
  /\ \A i \in DOMAIN calls : LastSet(i) =>
       /\ calls[i].models = asked
       /\ calls[i].stage = "answered" => hidden = calls[i].models
       /\ calls[i].stage = "sent" /\ ~Visibility!Loading(calls[i]) => calls[i].was = hidden \/ missed
  /\ \A i, j \in DOMAIN calls : i < j /\ IsSet(i) /\ IsSet(j) => calls[j].was = hidden \/ calls[j].stage = "answered"
  /\ (\A i \in DOMAIN calls : ~IsSet(i)) => asked = hiddenModels /\ (~missed => hiddenModels = hidden)

SectionOK ==
  section # None =>
    /\ section.mount \in 1..(made - 1)
    /\ section.status = "ready" =>
         section.hidden = hidden /\ \A i \in DOMAIN calls : IsSet(i) => calls[i].stage = "answered"
    /\ section.status = "error" =>
         (~missed => section.hidden = hidden) /\ \A i \in DOMAIN calls : ~IsSet(i)
    /\ section.status = "unread" => section.hidden = {}
    /\ section.status = "loading" => section.hidden = {}
    /\ \A i \in DOMAIN calls : calls[i].mount = section.mount =>
         IF IsSet(i) THEN LastSet(i) /\ section.status = "saving"
         ELSE /\ section.status = "loading"
              /\ \A j \in DOMAIN calls : j > i => ~IsSet(j)
              /\ calls[i].stage = "answered" => calls[i].models = hidden

VisibilityInv == VisibilityTypeInv /\ CallsOK /\ SetsOK /\ SectionOK

\* A call, a section.
LEMMA CallTyped ==
  ASSUME VisibilityInv, NEW i \in DOMAIN calls
  PROVE  /\ calls[i] \in Calls /\ i \in Nat \ {0} /\ i <= Len(calls) /\ Len(calls) \in Nat
         /\ calls[i].mount \in Nat /\ calls[i].models \in SUBSET Model /\ calls[i].was \in SUBSET Model
         /\ calls[i].kind \in {"set", "get"} /\ calls[i].stage \in {"sent", "listing", "answered"}
<1>1. DOMAIN calls = 1..Len(calls) /\ Len(calls) \in Nat /\ calls[i] \in Calls
  BY DEF VisibilityInv, VisibilityTypeInv
<1> QED BY <1>1 DEF Calls

LEMMA VisibilityInitInv == Visibility!Init => VisibilityInv
<1> SUFFICES ASSUME Visibility!Init PROVE VisibilityInv
  OBVIOUS
<1>1. calls = <<Visibility!SetCall(0, hiddenModels, hiddenModels)>> /\ hiddenModels \in SUBSET Model
  BY DEF Visibility!Init, Visibility!Loaded
<1> DEFINE c == Visibility!SetCall(0, hiddenModels, hiddenModels)
<1>2. /\ c \in Calls /\ c.kind = "set" /\ c.mount = 0 /\ c.models = hiddenModels /\ c.stage = "sent"
  BY <1>1 DEF Visibility!SetCall, Calls
<1> HIDE DEF c
<1>3. calls \in Seq(Calls) /\ Len(calls) = 1 /\ DOMAIN calls = {1} /\ calls[1] = c
  BY <1>1, <1>2 DEF c
<1>4. VisibilityTypeInv
  <2>1. /\ section = None /\ missed \in BOOLEAN /\ catalogue = hidden
        /\ hidden \in SUBSET Model /\ asked \in SUBSET Model
    BY DEF Visibility!Init
  <2>2. made \in Nat \ {0}
    BY DEF Visibility!Init
  <2> QED BY <1>1, <1>3, <2>1, <2>2 DEF VisibilityTypeInv
<1>5. CallsOK /\ SetsOK
  BY <1>2, <1>3 DEF Visibility!Init, CallsOK, SetsOK, IsSet, LastSet, Visibility!Loading
<1>6. SectionOK
  BY DEF Visibility!Init, SectionOK
<1> QED BY <1>4, <1>5, <1>6 DEF VisibilityInv

\* The call that is handled is changed in its stage and what it carries.
LEMMA HandledView ==
  ASSUME VisibilityInv, NEW i \in DOMAIN calls, NEW m \in SUBSET Model, NEW s \in {"listing", "answered"},
         calls' = [calls EXCEPT ![i].stage = s, ![i].models = m]
  PROVE  /\ calls' \in Seq(Calls) /\ Len(calls') = Len(calls) /\ DOMAIN calls' = DOMAIN calls
         /\ \A j \in DOMAIN calls : j # i => calls'[j] = calls[j]
         /\ \A j \in DOMAIN calls : calls'[j].kind = calls[j].kind /\ calls'[j].mount = calls[j].mount
                                    /\ calls'[j].was = calls[j].was
         /\ calls'[i].stage = s /\ calls'[i].models = m
<1>1. calls \in Seq(Calls) /\ calls[i] \in Calls /\ DOMAIN calls = 1..Len(calls) /\ Len(calls) \in Nat
  BY DEF VisibilityInv, VisibilityTypeInv
<1> DEFINE c == [calls[i] EXCEPT !.stage = s, !.models = m]
<1>2. c \in Calls /\ c.kind = calls[i].kind /\ c.mount = calls[i].mount /\ c.was = calls[i].was
      /\ c.stage = s /\ c.models = m
  BY <1>1 DEF Calls
<1>3. calls' = [calls EXCEPT ![i] = c]
  BY <1>1
<1> HIDE DEF c
<1>4. calls' \in Seq(Calls) /\ Len(calls') = Len(calls) /\ DOMAIN calls' = DOMAIN calls
  <2>1. i \in 1..Len(calls)
    BY <1>1
  <2>2. [calls EXCEPT ![i] = c] \in Seq(Calls) /\ Len([calls EXCEPT ![i] = c]) = Len(calls)
    BY <1>1, <1>2, <2>1, ExceptSeq
  <2>3. calls' \in Seq(Calls) /\ Len(calls') = Len(calls)
    BY <1>3, <2>2
  <2> QED BY <1>1, <1>3, <2>3
<1>5. calls'[i] = c /\ \A j \in DOMAIN calls : j # i => calls'[j] = calls[j]
  BY <1>1, <1>3
<1> QED BY <1>2, <1>4, <1>5

LEMMA HostSetsPreserves ==
  ASSUME VisibilityInv, Visibility!HostSets
  PROVE  VisibilityInv'
<1>1. PICK i \in DOMAIN calls :
        /\ Visibility!Arrives(i) /\ calls[i].kind = "set"
        /\ IF Visibility!Same(calls[i].models) THEN UNCHANGED <<hidden, catalogue>> /\ Visibility!Handled(i, hidden)
           ELSE hidden' = calls[i].models /\ catalogue' = hidden' /\ Visibility!Handled(i, hidden')
  BY DEF Visibility!HostSets
<1>2. UNCHANGED <<hiddenModels, section, made, asked, missed>>
  BY DEF Visibility!HostSets
<1>3. /\ hidden' = calls[i].models /\ catalogue' = hidden' /\ hidden' \in SUBSET Model
      /\ calls' = [calls EXCEPT ![i].stage = "answered", ![i].models = calls[i].models]
  BY <1>1, CallTyped DEF Visibility!Same, Visibility!Handled, VisibilityInv, VisibilityTypeInv
<1>4. /\ calls' \in Seq(Calls) /\ Len(calls') = Len(calls) /\ DOMAIN calls' = DOMAIN calls
      /\ \A j \in DOMAIN calls : j # i => calls'[j] = calls[j]
      /\ \A j \in DOMAIN calls : calls'[j].kind = calls[j].kind /\ calls'[j].mount = calls[j].mount
                                 /\ calls'[j].was = calls[j].was
      /\ calls'[i].stage = "answered" /\ calls'[i].models = calls[i].models
  BY <1>3, HandledView, CallTyped
<1>5. /\ calls[i].stage = "sent" /\ IsSet(i)
      /\ \A j \in DOMAIN calls : j < i => calls[j].stage # "sent"
      /\ \A j \in DOMAIN calls : j > i => calls[j].stage = "sent" /\ ~IsSet(j)
      /\ \A j \in DOMAIN calls : j < i /\ IsSet(j) => calls[j].stage = "answered"
  <2>1. \A j \in DOMAIN calls : j < i => j \in 1..(i - 1)
    BY CallTyped
  <2> QED BY <1>1, <2>1, CallTyped DEF Visibility!Arrives, VisibilityInv, CallsOK, IsSet
<1>6. \A j \in DOMAIN calls : (IsSet(j)' <=> IsSet(j)) /\ (LastSet(j)' <=> LastSet(j))
                              /\ (Visibility!Loading(calls[j])' <=> Visibility!Loading(calls[j]))
  BY <1>4 DEF IsSet, LastSet, Visibility!Loading
<1>7. VisibilityTypeInv'
  BY <1>2, <1>3, <1>4 DEF VisibilityInv, VisibilityTypeInv
<1>8. CallsOK'
  <2>1. ASSUME NEW a \in DOMAIN calls, NEW b \in DOMAIN calls, a < b
        PROVE  /\ calls'[a].stage = "sent" => calls'[b].stage = "sent"
               /\ IsSet(a)' /\ IsSet(b)' => calls'[a].stage = "answered"
               /\ ~IsSet(a)' /\ ~IsSet(b)' => calls'[a].mount # calls'[b].mount
    BY <1>4, <1>5, <1>6, <2>1, CallTyped DEF VisibilityInv, CallsOK
  <2>2. ASSUME NEW a \in DOMAIN calls
        PROVE  /\ calls'[a].mount < made'
               /\ IsSet(a)' => calls'[a].stage # "listing"
               /\ Visibility!Loading(calls[a])' => Len(calls') = 1 /\ section' = None /\ hiddenModels' = asked'
    BY <1>2, <1>4, <1>6 DEF VisibilityInv, CallsOK
  <2> QED BY <1>4, <2>1, <2>2 DEF CallsOK
<1>9. SetsOK'
  <2>1. ASSUME NEW a \in DOMAIN calls, LastSet(a)
        PROVE  a = i /\ calls'[a].models = asked' /\ hidden' = calls'[a].models /\ calls'[a].stage = "answered"
    <3>1. a = i
      BY <1>5, <2>1, CallTyped DEF LastSet
    <3> QED BY <1>2, <1>3, <1>4, <2>1, <3>1 DEF VisibilityInv, SetsOK
  <2>2. ASSUME NEW b \in DOMAIN calls, IsSet(b)
        PROVE  calls'[b].stage = "answered"
    BY <1>4, <1>5, <2>2, CallTyped
  <2> QED BY <1>4, <1>5, <1>6, <2>1, <2>2 DEF SetsOK
<1>10. SectionOK'
  <2> SUFFICES ASSUME section # None PROVE SectionOK'
    BY <1>2 DEF SectionOK
  <2>1. section.status # "ready" /\ section.status # "error"
    BY <1>5 DEF VisibilityInv, SectionOK
  <2>2. ASSUME NEW a \in DOMAIN calls, calls'[a].mount = section'.mount
        PROVE  IF IsSet(a)' THEN LastSet(a)' /\ section'.status = "saving"
               ELSE /\ section'.status = "loading"
                    /\ \A j \in DOMAIN calls' : j > a => ~IsSet(j)'
                    /\ calls'[a].stage = "answered" => calls'[a].models = hidden'
    <3>1. CASE IsSet(a)
      BY <1>2, <1>4, <1>6, <2>2, <3>1 DEF VisibilityInv, SectionOK
    <3>2. CASE ~IsSet(a)
      <4>1. section.status = "loading" /\ \A j \in DOMAIN calls : j > a => ~IsSet(j)
        BY <1>2, <1>4, <2>2, <3>2 DEF VisibilityInv, SectionOK
      <4>2. a > i
        BY <1>5, <3>2, <4>1, CallTyped
      <4>3. calls'[a].stage = "sent"
        BY <1>4, <1>5, <4>2, CallTyped
      <4> QED BY <1>2, <1>4, <1>6, <3>2, <4>1, <4>3
    <3> QED BY <3>1, <3>2
  <2> QED BY <1>2, <1>4, <2>1, <2>2 DEF VisibilityInv, SectionOK
<1> QED BY <1>7, <1>8, <1>9, <1>10 DEF VisibilityInv

LEMMA HostReadsPreserves ==
  ASSUME VisibilityInv, Visibility!HostReads
  PROVE  VisibilityInv'
<1>1. PICK i \in DOMAIN calls :
        /\ calls[i].kind = "get"
        /\ \/ Visibility!Arrives(i) /\ calls' = [calls EXCEPT ![i].stage = "listing"]
           \/ calls[i].stage = "listing" /\ Visibility!Handled(i, hidden)
  BY DEF Visibility!HostReads
<1>2. UNCHANGED <<hiddenModels, section, made, hidden, catalogue, asked, missed>>
  BY DEF Visibility!HostReads
<1>3. /\ calls' \in Seq(Calls) /\ Len(calls') = Len(calls) /\ DOMAIN calls' = DOMAIN calls
      /\ \A j \in DOMAIN calls : j # i => calls'[j] = calls[j]
      /\ \A j \in DOMAIN calls : calls'[j].kind = calls[j].kind /\ calls'[j].mount = calls[j].mount
                                 /\ calls'[j].was = calls[j].was
      /\ calls'[i].stage # "sent"
      /\ calls'[i].stage = "answered" => calls'[i].models = hidden
      /\ \A j \in DOMAIN calls : j < i => calls[j].stage # "sent"
  <2>1. CASE Visibility!Arrives(i) /\ calls' = [calls EXCEPT ![i].stage = "listing"]
    <3>1. calls' = [calls EXCEPT ![i].stage = "listing", ![i].models = calls[i].models]
      BY <2>1 DEF VisibilityInv, VisibilityTypeInv, Calls
    <3>2. \A j \in DOMAIN calls : j < i => j \in 1..(i - 1)
      BY CallTyped
    <3>3. "listing" \in {"listing", "answered"} /\ "listing" # "sent" /\ "listing" # "answered"
      OBVIOUS
    <3> QED BY <2>1, <3>1, <3>2, <3>3, HandledView, CallTyped DEF Visibility!Arrives
  <2>2. CASE calls[i].stage = "listing" /\ Visibility!Handled(i, hidden)
    <3>1. \A j \in DOMAIN calls : j < i => calls[j].stage # "sent"
      BY <2>2 DEF VisibilityInv, CallsOK
    <3>2. hidden \in SUBSET Model /\ calls' = [calls EXCEPT ![i].stage = "answered", ![i].models = hidden]
      BY <2>2 DEF Visibility!Handled, VisibilityInv, VisibilityTypeInv
    <3> QED BY <3>1, <3>2, HandledView
  <2> QED BY <1>1, <2>1, <2>2
<1>4. \A j \in DOMAIN calls : (IsSet(j)' <=> IsSet(j)) /\ (LastSet(j)' <=> LastSet(j))
                              /\ (Visibility!Loading(calls[j])' <=> Visibility!Loading(calls[j]))
  BY <1>3 DEF IsSet, LastSet, Visibility!Loading
<1>5. ~IsSet(i) /\ \A j \in DOMAIN calls : IsSet(j) => calls'[j] = calls[j]
  BY <1>1, <1>3 DEF IsSet
<1>6. VisibilityTypeInv'
  BY <1>2, <1>3 DEF VisibilityInv, VisibilityTypeInv
<1>7. CallsOK'
  <2>1. ASSUME NEW a \in DOMAIN calls, NEW b \in DOMAIN calls, a < b
        PROVE  /\ calls'[a].stage = "sent" => calls'[b].stage = "sent"
               /\ IsSet(a)' /\ IsSet(b)' => calls'[a].stage = "answered"
               /\ ~IsSet(a)' /\ ~IsSet(b)' => calls'[a].mount # calls'[b].mount
    BY <1>3, <1>4, <1>5, <2>1, CallTyped DEF VisibilityInv, CallsOK
  <2>2. ASSUME NEW a \in DOMAIN calls
        PROVE  /\ calls'[a].mount < made'
               /\ IsSet(a)' => calls'[a].stage # "listing"
               /\ Visibility!Loading(calls[a])' => Len(calls') = 1 /\ section' = None /\ hiddenModels' = asked'
    BY <1>2, <1>3, <1>4, <1>5 DEF VisibilityInv, CallsOK
  <2> QED BY <1>3, <2>1, <2>2 DEF CallsOK
<1>8. SetsOK'
  BY <1>2, <1>3, <1>4, <1>5 DEF VisibilityInv, SetsOK, LastSet
<1>9. SectionOK'
  <2> SUFFICES ASSUME section # None PROVE SectionOK'
    BY <1>2 DEF SectionOK
  <2>1. ASSUME NEW a \in DOMAIN calls, calls'[a].mount = section'.mount
        PROVE  IF IsSet(a)' THEN LastSet(a)' /\ section'.status = "saving"
               ELSE /\ section'.status = "loading"
                    /\ \A j \in DOMAIN calls' : j > a => ~IsSet(j)'
                    /\ calls'[a].stage = "answered" => calls'[a].models = hidden'
    BY <1>2, <1>3, <1>4, <2>1 DEF VisibilityInv, SectionOK
  <2> QED BY <1>2, <1>3, <1>4, <1>5, <2>1 DEF VisibilityInv, SectionOK
<1> QED BY <1>6, <1>7, <1>8, <1>9 DEF VisibilityInv

\* A call more.
LEMMA CallView ==
  ASSUME VisibilityInv, NEW c, c \in Calls, Visibility!Call(c)
  PROVE  \E n \in Nat \ {0} :
           /\ calls' \in Seq(Calls) /\ Len(calls') = n
           /\ DOMAIN calls' = DOMAIN calls \cup {n} /\ n \notin DOMAIN calls
           /\ \A j \in DOMAIN calls : j \in Nat /\ j < n /\ calls'[j] = calls[j]
           /\ calls'[n] = c /\ made' = made + 1
<1>1. calls \in Seq(Calls) /\ calls' = Append(calls, c) /\ made' = made + 1
  BY DEF Visibility!Call, VisibilityInv, VisibilityTypeInv
<1>2. Len(calls) \in Nat /\ DOMAIN calls = 1..Len(calls)
  BY <1>1
<1>3. /\ calls' \in Seq(Calls) /\ Len(calls') = Len(calls) + 1
      /\ DOMAIN calls' = DOMAIN calls \cup {Len(calls) + 1} /\ Len(calls) + 1 \notin DOMAIN calls
      /\ \A j \in DOMAIN calls : j \in Nat /\ j < Len(calls) + 1 /\ calls'[j] = calls[j]
      /\ calls'[Len(calls) + 1] = c
  BY <1>1, <1>2
<1> QED BY <1>1, <1>2, <1>3

LEMMA MountPreserves ==
  ASSUME VisibilityInv, Visibility!Mount
  PROVE  VisibilityInv'
<1> DEFINE c == Visibility!GetCall(made)
           shown == [mount |-> made, status |-> "loading", hidden |-> {}]
<1>1. /\ section = None /\ \A i \in DOMAIN calls : ~Visibility!Loading(calls[i])
      /\ Visibility!Call(c) /\ section' = shown /\ UNCHANGED <<hiddenModels, hidden, catalogue, asked, missed>>
  BY DEF Visibility!Mount
<1>2. made \in Nat \ {0} /\ made + 1 \in Nat \ {0} /\ made < made + 1 /\ made \in 1..(made + 1 - 1)
  BY DEF VisibilityInv, VisibilityTypeInv
<1>3. /\ c \in Calls /\ c.kind = "get" /\ c.mount = made /\ c.stage = "sent"
      /\ shown \in Sections /\ shown.mount = made /\ shown.status = "loading" /\ shown.hidden = {}
  BY <1>2 DEF Visibility!GetCall, Calls, Sections, SectionStatus
<1> HIDE DEF c, shown
<1>4. PICK n \in Nat \ {0} :
        /\ calls' \in Seq(Calls) /\ Len(calls') = n
        /\ DOMAIN calls' = DOMAIN calls \cup {n} /\ n \notin DOMAIN calls
        /\ \A j \in DOMAIN calls : j \in Nat /\ j < n /\ calls'[j] = calls[j]
        /\ calls'[n] = c /\ made' = made + 1
  BY <1>1, <1>3, CallView
<1>5. ~IsSet(n)' /\ ~Visibility!Loading(calls[n])' /\ n \in Nat /\ n \in DOMAIN calls' /\ n \notin DOMAIN calls
  BY <1>3, <1>4 DEF IsSet, Visibility!Loading
<1>6. \A j \in DOMAIN calls : (IsSet(j)' <=> IsSet(j)) /\ ~Visibility!Loading(calls[j])'
  BY <1>1, <1>4 DEF IsSet, Visibility!Loading
<1>7. \A j \in DOMAIN calls : LastSet(j)' <=> LastSet(j)
  BY <1>4, <1>5, <1>6 DEF LastSet
<1>8. VisibilityTypeInv'
  BY <1>1, <1>2, <1>3, <1>4 DEF VisibilityInv, VisibilityTypeInv
<1>9. CallsOK'
  <2>1. ASSUME NEW a \in DOMAIN calls', NEW b \in DOMAIN calls', a < b
        PROVE  /\ calls'[a].stage = "sent" => calls'[b].stage = "sent"
               /\ IsSet(a)' /\ IsSet(b)' => calls'[a].stage = "answered"
               /\ ~IsSet(a)' /\ ~IsSet(b)' => calls'[a].mount # calls'[b].mount
    <3>1. a \in DOMAIN calls
      BY <1>4, <2>1, <1>5
    <3>2. CASE b = n
      BY <1>2, <1>3, <1>4, <1>5, <3>1, <3>2, CallTyped DEF VisibilityInv, CallsOK
    <3>3. CASE b # n
      BY <1>4, <1>6, <2>1, <3>1, <3>3 DEF VisibilityInv, CallsOK
    <3> QED BY <3>2, <3>3
  <2>2. ASSUME NEW a \in DOMAIN calls'
        PROVE  /\ calls'[a].mount < made'
               /\ IsSet(a)' => calls'[a].stage # "listing"
               /\ ~Visibility!Loading(calls[a])'
    <3>1. CASE a = n
      BY <1>2, <1>3, <1>4, <1>5, <3>1
    <3>2. CASE a # n
      BY <1>2, <1>4, <1>6, <3>2, CallTyped DEF VisibilityInv, CallsOK
    <3> QED BY <3>1, <3>2
  <2> QED BY <2>1, <2>2 DEF CallsOK
<1>10. SetsOK'
  BY <1>1, <1>4, <1>5, <1>6, <1>7 DEF VisibilityInv, SetsOK, LastSet
<1>11. SectionOK'
  <2>1. ASSUME NEW a \in DOMAIN calls', calls'[a].mount = made
        PROVE  a = n
    BY <1>2, <1>4, <2>1, CallTyped DEF VisibilityInv, CallsOK
  <2>2. \A j \in DOMAIN calls' : ~(j > n)
    BY <1>4, <1>5
  <2> QED BY <1>1, <1>2, <1>3, <1>4, <1>5, <2>1, <2>2 DEF SectionOK
<1> QED BY <1>8, <1>9, <1>10, <1>11 DEF VisibilityInv

LEMMA UnmountPreserves ==
  ASSUME VisibilityInv, Visibility!Unmount \/ UNCHANGED Visibility!visibilityVars
  PROVE  VisibilityInv'
<1>1. UNCHANGED <<hiddenModels, calls, made, hidden, catalogue, asked, missed>> /\ (section' = section \/ section' = None)
  BY DEF Visibility!Unmount, Visibility!visibilityVars
<1>2. VisibilityTypeInv'
  BY <1>1 DEF VisibilityInv, VisibilityTypeInv
<1>3. CallsOK' /\ SetsOK'
  BY <1>1 DEF VisibilityInv, CallsOK, SetsOK, IsSet, LastSet, Visibility!Loading
<1>4. SectionOK'
  BY <1>1 DEF VisibilityInv, SectionOK, IsSet, LastSet
<1> QED BY <1>2, <1>3, <1>4 DEF VisibilityInv

LEMMA CommitPreserves ==
  ASSUME VisibilityInv, Visibility!Commit
  PROVE  VisibilityInv'
<1>1. PICK next \in {{}} \cup {section.hidden \cup {m} : m \in Model} \cup {section.hidden \ {m} : m \in Model} :
        /\ section.status = "unread" => next = {} /\ section.hidden # {}
        /\ Visibility!Call(Visibility!SetCall(section.mount, next, section.hidden))
        /\ section' = [section EXCEPT !.status = "saving", !.hidden = next]
        /\ hiddenModels' = next /\ asked' = next
  BY DEF Visibility!Commit
<1>2. /\ section # None /\ section.status \notin {"loading", "saving"} /\ UNCHANGED <<hidden, catalogue, missed>>
      /\ section \in Sections
  BY DEF Visibility!Commit, Visibility!MayCommit, VisibilityInv, VisibilityTypeInv
<1>3. /\ section.mount \in Nat /\ section.hidden \in SUBSET Model /\ section.status \in {"ready", "error"}
      /\ section.mount \in 1..(made - 1) /\ made \in Nat \ {0}
  <2>1. section.mount \in Nat /\ section.hidden \in SUBSET Model /\ section.status \in SectionStatus
    BY <1>2 DEF Sections
  <2> QED BY <1>1, <1>2, <2>1 DEF SectionStatus, VisibilityInv, SectionOK, VisibilityTypeInv
<1>4. next \in SUBSET Model
  BY <1>1, <1>3
<1> DEFINE c == Visibility!SetCall(section.mount, next, section.hidden)
<1>5. /\ c \in Calls /\ c.kind = "set" /\ c.mount = section.mount /\ c.stage = "sent"
      /\ c.models = next /\ c.was = section.hidden
  BY <1>3, <1>4 DEF Visibility!SetCall, Calls
<1>6. Visibility!Call(c)
  BY <1>1
<1> HIDE DEF c
<1>7. PICK n \in Nat \ {0} :
        /\ calls' \in Seq(Calls) /\ Len(calls') = n
        /\ DOMAIN calls' = DOMAIN calls \cup {n} /\ n \notin DOMAIN calls
        /\ \A j \in DOMAIN calls : j \in Nat /\ j < n /\ calls'[j] = calls[j]
        /\ calls'[n] = c /\ made' = made + 1
  BY <1>5, <1>6, CallView
<1>8. IsSet(n)' /\ ~Visibility!Loading(calls[n])' /\ n \in Nat /\ n \in DOMAIN calls' /\ n \notin DOMAIN calls
  BY <1>3, <1>5, <1>7 DEF IsSet, Visibility!Loading
<1>9. \A j \in DOMAIN calls : (IsSet(j)' <=> IsSet(j)) /\ ~Visibility!Loading(calls[j])' /\ ~Visibility!Loading(calls[j])
                              /\ ~LastSet(j)' /\ (IsSet(j) => calls[j].stage = "answered")
                              /\ calls[j].mount # section.mount
  <2>1. ASSUME NEW j \in DOMAIN calls PROVE ~Visibility!Loading(calls[j]) /\ (IsSet(j) => calls[j].stage = "answered")
                                            /\ calls[j].mount # section.mount
    BY <1>2, <1>3 DEF VisibilityInv, CallsOK, SectionOK
  <2> QED BY <1>7, <1>8, <2>1 DEF IsSet, LastSet, Visibility!Loading
<1>10. LastSet(n)'
  BY <1>7, <1>8 DEF LastSet
<1>11. /\ section' \in Sections /\ section' # None /\ section'.mount = section.mount
       /\ section'.status = "saving" /\ section'.hidden = next
  BY <1>1, <1>2, <1>4, VisibilityAssumption DEF Sections, SectionStatus
<1>12. VisibilityTypeInv'
  BY <1>1, <1>2, <1>3, <1>4, <1>7, <1>11 DEF VisibilityInv, VisibilityTypeInv
<1>13. CallsOK'
  <2>1. ASSUME NEW a \in DOMAIN calls', NEW b \in DOMAIN calls', a < b
        PROVE  /\ calls'[a].stage = "sent" => calls'[b].stage = "sent"
               /\ IsSet(a)' /\ IsSet(b)' => calls'[a].stage = "answered"
               /\ ~IsSet(a)' /\ ~IsSet(b)' => calls'[a].mount # calls'[b].mount
    <3>1. a \in DOMAIN calls
      BY <1>7, <1>8, <2>1
    <3>2. CASE b = n
      BY <1>5, <1>7, <1>8, <1>9, <3>1, <3>2
    <3>3. CASE b # n
      BY <1>7, <1>9, <2>1, <3>1, <3>3 DEF VisibilityInv, CallsOK
    <3> QED BY <3>2, <3>3
  <2>2. ASSUME NEW a \in DOMAIN calls'
        PROVE  /\ calls'[a].mount < made'
               /\ IsSet(a)' => calls'[a].stage # "listing"
               /\ ~Visibility!Loading(calls[a])'
    <3>1. CASE a = n
      BY <1>3, <1>5, <1>7, <1>8, <3>1
    <3>2. CASE a # n
      BY <1>3, <1>7, <1>9, <3>2, CallTyped DEF VisibilityInv, CallsOK
    <3> QED BY <3>1, <3>2
  <2> QED BY <2>1, <2>2 DEF CallsOK
<1>14. SetsOK'
  <2>1. section.hidden = hidden \/ (missed /\ \A j \in DOMAIN calls : ~IsSet(j))
    BY <1>2, <1>3 DEF VisibilityInv, SectionOK
  <2>2. ASSUME NEW a \in DOMAIN calls', LastSet(a)'
        PROVE  a = n
    BY <1>7, <1>9, <2>2
  <2>3. ASSUME NEW a \in DOMAIN calls', NEW b \in DOMAIN calls', a < b, IsSet(a)', IsSet(b)'
        PROVE  calls'[b].was = hidden' \/ calls'[b].stage = "answered"
    <3>1. a \in DOMAIN calls
      BY <1>7, <1>8, <2>3
    <3>2. CASE b = n
      BY <1>2, <1>5, <1>7, <1>9, <2>1, <2>3, <3>1, <3>2
    <3>3. CASE b # n
      BY <1>7, <1>9, <2>3, <3>3
    <3> QED BY <3>2, <3>3
  <2> QED BY <1>1, <1>2, <1>5, <1>7, <1>8, <2>1, <2>2, <2>3 DEF SetsOK
<1>15. SectionOK'
  <2>1. ASSUME NEW a \in DOMAIN calls', calls'[a].mount = section'.mount
        PROVE  a = n
    BY <1>7, <1>9, <1>11, <2>1
  <2>2. section'.mount \in 1..(made' - 1)
    BY <1>3, <1>7, <1>11
  <2> QED BY <1>8, <1>10, <1>11, <2>1, <2>2 DEF SectionOK
<1> QED BY <1>12, <1>13, <1>14, <1>15 DEF VisibilityInv

\* No call is under way, or a load's alone.
LEMMA BreakPreserves ==
  ASSUME VisibilityInv, Visibility!Break
  PROVE  VisibilityInv'
<1> DEFINE commits == {i \in DOMAIN calls : calls[i].kind = "set" /\ ~Visibility!Loading(calls[i])}
<1>1. /\ calls' = <<>> /\ UNCHANGED <<made, hidden, catalogue>>
      /\ missed' = (missed \/ \E i \in DOMAIN calls : Visibility!Divides(calls[i]))
      /\ \/ commits = {} /\ section' = Visibility!Unread(section) /\ UNCHANGED <<hiddenModels, asked>>
         \/ \E i \in commits :
              /\ \A j \in commits : j <= i
              /\ hiddenModels' = calls[i].was /\ asked' = calls[i].was
              /\ section' = IF Visibility!Shown(calls[i]) THEN [section EXCEPT !.status = "error", !.hidden = calls[i].was]
                            ELSE Visibility!Unread(section)
  BY DEF Visibility!Break
<1>2. calls' \in Seq(Calls) /\ DOMAIN calls' = {} /\ CallsOK'
  <2>1. calls' \in Seq(Calls) /\ DOMAIN calls' = {}
    <3>1. calls' = <<>>
      BY <1>1
    <3> QED BY <3>1
  <2> QED BY <2>1 DEF CallsOK
<1>3. /\ Visibility!Unread(section) \in Sections \cup {None}
      /\ Visibility!Unread(section) # None =>
           /\ section # None /\ Visibility!Unread(section).mount = section.mount /\ Visibility!Unread(section).hidden = section.hidden
           /\ Visibility!Unread(section).status = IF section.status = "loading" THEN "unread" ELSE section.status
  BY VisibilityAssumption DEF Visibility!Unread, VisibilityInv, VisibilityTypeInv, Sections, SectionStatus
<1>4. missed' \in BOOLEAN /\ (missed' \/ ~missed)
  BY <1>1 DEF VisibilityInv, VisibilityTypeInv
<1>5. CASE commits = {} /\ section' = Visibility!Unread(section) /\ UNCHANGED <<hiddenModels, asked>>
  <2>1. VisibilityTypeInv'
    BY <1>1, <1>2, <1>3, <1>4, <1>5 DEF VisibilityInv, VisibilityTypeInv
  <2>2. asked = hiddenModels /\ (~missed' => hiddenModels = hidden)
    <3>1. CASE \E i \in DOMAIN calls : Visibility!Loading(calls[i])
      BY <1>1, <3>1 DEF Visibility!Divides, VisibilityInv, CallsOK
    <3>2. CASE ~ \E i \in DOMAIN calls : Visibility!Loading(calls[i])
      BY <1>4, <1>5, <3>2 DEF VisibilityInv, SetsOK, IsSet
    <3> QED BY <3>1, <3>2
  <2>3. SetsOK'
    BY <1>1, <1>2, <1>5, <2>2 DEF SetsOK
  <2>4. SectionOK'
    BY <1>1, <1>2, <1>3, <1>4, <1>5 DEF VisibilityInv, SectionOK
  <2> QED BY <1>2, <2>1, <2>3, <2>4 DEF VisibilityInv
<1>6. ASSUME NEW i \in commits, \A j \in commits : j <= i,
             hiddenModels' = calls[i].was, asked' = calls[i].was,
             section' = IF Visibility!Shown(calls[i]) THEN [section EXCEPT !.status = "error", !.hidden = calls[i].was]
                        ELSE Visibility!Unread(section)
      PROVE  VisibilityInv'
  <2>1. /\ i \in DOMAIN calls /\ IsSet(i) /\ ~Visibility!Loading(calls[i]) /\ calls[i].was \in SUBSET Model
        /\ calls[i].stage \in {"sent", "answered"}
    BY CallTyped DEF IsSet, VisibilityInv, CallsOK
  <2>2. LastSet(i)
    <3> SUFFICES ASSUME NEW j \in DOMAIN calls, j > i PROVE ~IsSet(j)
      BY <2>1 DEF LastSet
    <3>1. ~Visibility!Loading(calls[j])
      BY <2>1, CallTyped DEF VisibilityInv, CallsOK
    <3> QED BY <1>6, <3>1, CallTyped DEF IsSet
  <2>3. ~missed' => ~missed /\ calls[i].was = hidden
    BY <1>1, <2>1, <2>2 DEF Visibility!Divides, IsSet, VisibilityInv, SetsOK
  <2>4. CASE Visibility!Shown(calls[i])
    <3>1. /\ section # None /\ section' \in Sections /\ section'.mount = section.mount
          /\ section'.status = "error" /\ section'.hidden = calls[i].was
      BY <1>6, <2>1, <2>4 DEF Visibility!Shown, VisibilityInv, VisibilityTypeInv, Sections, SectionStatus
    <3>2. VisibilityTypeInv'
      BY <1>1, <1>2, <1>4, <1>6, <2>1, <3>1 DEF VisibilityInv, VisibilityTypeInv
    <3>3. SetsOK'
      BY <1>1, <1>2, <1>6, <2>3 DEF SetsOK
    <3>4. SectionOK'
      BY <1>1, <1>2, <2>3, <3>1 DEF VisibilityInv, SectionOK
    <3> QED BY <1>2, <3>2, <3>3, <3>4 DEF VisibilityInv
  <2>5. CASE ~Visibility!Shown(calls[i])
    <3>1. section' = Visibility!Unread(section)
      BY <1>6, <2>5
    <3>2. VisibilityTypeInv'
      BY <1>1, <1>2, <1>3, <1>4, <1>6, <2>1, <3>1 DEF VisibilityInv, VisibilityTypeInv
    <3>3. SetsOK'
      BY <1>1, <1>2, <1>6, <2>3 DEF SetsOK
    <3>4. SectionOK'
      BY <1>1, <1>2, <1>3, <1>4, <3>1 DEF VisibilityInv, SectionOK
    <3> QED BY <1>2, <3>2, <3>3, <3>4 DEF VisibilityInv
  <2> QED BY <2>4, <2>5
<1> QED BY <1>1, <1>5, <1>6

LEMMA ReloadPreserves ==
  ASSUME VisibilityInv, Visibility!Reload
  PROVE  VisibilityInv'
<1>1. /\ made' = made + 1 /\ calls' = <<Visibility!SetCall(0, hiddenModels, hiddenModels)>> /\ section' = None /\ asked' = hiddenModels
      /\ UNCHANGED <<hiddenModels, hidden, catalogue, missed>> /\ hiddenModels \in SUBSET Model /\ made \in Nat \ {0}
  BY DEF Visibility!Reload, Visibility!Loaded, VisibilityInv, VisibilityTypeInv
<1> DEFINE c == Visibility!SetCall(0, hiddenModels, hiddenModels)
<1>2. c \in Calls /\ c.kind = "set" /\ c.mount = 0 /\ c.models = hiddenModels /\ c.stage = "sent"
  BY <1>1 DEF Visibility!SetCall, Calls
<1>3. calls' = <<c>>
  BY <1>1
<1> HIDE DEF c
<1>4. calls' \in Seq(Calls) /\ Len(calls') = 1 /\ DOMAIN calls' = {1} /\ calls'[1] = c
  BY <1>2, <1>3
<1>5. made' \in Nat \ {0} /\ 0 < made'
  BY <1>1
<1>6. VisibilityTypeInv'
  BY <1>1, <1>4, <1>5 DEF VisibilityInv, VisibilityTypeInv
<1>7. CallsOK'
  BY <1>1, <1>2, <1>4, <1>5 DEF CallsOK, IsSet, LastSet, Visibility!Loading
<1>8. SetsOK'
  BY <1>1, <1>2, <1>4 DEF SetsOK, IsSet, LastSet, Visibility!Loading
<1>9. SectionOK'
  BY <1>1 DEF SectionOK
<1> QED BY <1>6, <1>7, <1>8, <1>9 DEF VisibilityInv

\* Where the calls that are left were before one of them was answered.
Old(i, j) == IF j < i THEN j ELSE j + 1

LEMMA RemovedView ==
  ASSUME VisibilityInv, NEW i \in DOMAIN calls, calls' = Visibility!Without(i)
  PROVE  /\ calls' \in Seq(Calls)
         /\ \A j \in DOMAIN calls' : Old(i, j) \in DOMAIN calls /\ Old(i, j) # i /\ calls'[j] = calls[Old(i, j)]
         /\ \A j \in DOMAIN calls' : j \in Nat
         /\ \A a, b \in DOMAIN calls' : a < b <=> Old(i, a) < Old(i, b)
         /\ \A k \in DOMAIN calls : k # i => \E j \in DOMAIN calls' : Old(i, j) = k
<1>1. /\ calls \in Seq(Calls) /\ DOMAIN calls = 1..Len(calls) /\ Len(calls) \in Nat
      /\ i \in Nat /\ 1 <= i /\ i <= Len(calls)
  BY DEF VisibilityInv, VisibilityTypeInv
<1> DEFINE s == SubSeq(calls, 1, i - 1)
           t == SubSeq(calls, i + 1, Len(calls))
<1>2. /\ s \in Seq(Calls) /\ Len(s) = i - 1 /\ \A j \in 1..(i - 1) : s[j] = calls[j]
  BY <1>1
<1>3. /\ t \in Seq(Calls) /\ Len(t) = Len(calls) - i /\ \A j \in 1..(Len(calls) - i) : t[j] = calls[i + j]
  BY <1>1
<1>4. calls' = s \o t
  BY DEF Visibility!Without
<1> HIDE DEF s, t
<1>5. /\ calls' \in Seq(Calls) /\ Len(calls') = Len(calls) - 1
      /\ \A j \in 1..(Len(calls) - 1) : calls'[j] = IF j <= i - 1 THEN s[j] ELSE t[j - (i - 1)]
  <2>1. /\ s \o t \in Seq(Calls) /\ Len(s \o t) = Len(s) + Len(t)
        /\ \A j \in 1..(Len(s) + Len(t)) : (s \o t)[j] = IF j <= Len(s) THEN s[j] ELSE t[j - Len(s)]
    BY <1>2, <1>3, ConcatProperties
  <2>2. Len(s) + Len(t) = Len(calls) - 1
    BY <1>1, <1>2, <1>3
  <2> QED BY <1>2, <1>4, <2>1, <2>2
<1>6. DOMAIN calls' = 1..(Len(calls) - 1)
  BY <1>1, <1>5
<1>7. ASSUME NEW j \in 1..(Len(calls) - 1)
      PROVE  Old(i, j) \in 1..Len(calls) /\ Old(i, j) # i /\ calls'[j] = calls[Old(i, j)]
  <2>1. CASE j < i
    <3>1. j <= i - 1 /\ j \in 1..(i - 1) /\ j \in 1..Len(calls) /\ j # i
      BY <1>1, <2>1
    <3>2. calls'[j] = s[j]
      BY <1>5, <3>1
    <3>3. calls'[j] = calls[j]
      BY <1>2, <3>1, <3>2
    <3>4. Old(i, j) = j
      BY <2>1 DEF Old
    <3> QED BY <3>1, <3>3, <3>4
  <2>2. CASE ~(j < i)
    <3>1. j - (i - 1) \in 1..(Len(calls) - i) /\ i + (j - (i - 1)) = j + 1
      BY <1>1, <2>2
    <3>2. calls'[j] = t[j - (i - 1)]
      BY <1>1, <1>5, <2>2
    <3>3. calls'[j] = calls[j + 1]
      BY <1>3, <3>1, <3>2
    <3> QED BY <1>1, <2>2, <3>3 DEF Old
  <2> QED BY <2>1, <2>2
<1>8. \A a, b \in 1..(Len(calls) - 1) : a < b <=> Old(i, a) < Old(i, b)
  BY <1>1 DEF Old
<1>9. ASSUME NEW k \in 1..Len(calls), k # i PROVE \E j \in 1..(Len(calls) - 1) : Old(i, j) = k
  <2>1. CASE k < i
    BY <1>1, <2>1 DEF Old
  <2>2. CASE ~(k < i)
    <3>1. k - 1 \in 1..(Len(calls) - 1) /\ Old(i, k - 1) = k
      BY <1>1, <1>9, <2>2 DEF Old
    <3> QED BY <3>1
  <2> QED BY <2>1, <2>2
<1>10. \A j \in DOMAIN calls' : j \in Nat
  BY <1>1, <1>6
<1> QED BY <1>1, <1>5, <1>6, <1>7, <1>8, <1>9, <1>10

\* What is left of the calls is in order.
LEMMA RemovedCallsOK ==
  ASSUME VisibilityInv, NEW i \in DOMAIN calls, calls' = Visibility!Without(i), UNCHANGED made
  PROVE  CallsOK'
<1>1. /\ calls' \in Seq(Calls)
      /\ \A j \in DOMAIN calls' : Old(i, j) \in DOMAIN calls /\ Old(i, j) # i /\ calls'[j] = calls[Old(i, j)]
      /\ \A a, b \in DOMAIN calls' : a < b <=> Old(i, a) < Old(i, b)
  BY RemovedView
<1>2. ASSUME NEW a \in DOMAIN calls', NEW b \in DOMAIN calls', a < b
      PROVE  /\ calls'[a].stage = "sent" => calls'[b].stage = "sent"
             /\ IsSet(a)' /\ IsSet(b)' => calls'[a].stage = "answered"
             /\ ~IsSet(a)' /\ ~IsSet(b)' => calls'[a].mount # calls'[b].mount
  <2> DEFINE k == Old(i, a)
             l == Old(i, b)
  <2>1. k \in DOMAIN calls /\ l \in DOMAIN calls /\ k < l /\ calls'[a] = calls[k] /\ calls'[b] = calls[l]
    BY <1>1, <1>2
  <2> HIDE DEF k, l
  <2> QED BY <2>1 DEF VisibilityInv, CallsOK, IsSet
<1>3. ASSUME NEW a \in DOMAIN calls'
      PROVE  /\ calls'[a].mount < made'
             /\ IsSet(a)' => calls'[a].stage # "listing"
             /\ ~Visibility!Loading(calls[a])'
  <2> DEFINE k == Old(i, a)
  <2>1. k \in DOMAIN calls /\ k # i /\ calls'[a] = calls[k]
    BY <1>1
  <2> HIDE DEF k
  <2>2. ~Visibility!Loading(calls[k])
    BY <2>1, CallTyped DEF VisibilityInv, CallsOK
  <2> QED BY <2>1, <2>2 DEF VisibilityInv, CallsOK, IsSet, Visibility!Loading
<1> QED BY <1>2, <1>3 DEF CallsOK

LEMMA GetAnsweredPreserves ==
  ASSUME VisibilityInv, NEW i \in DOMAIN calls, calls[i].stage = "answered", calls[i].kind # "set",
         calls' = Visibility!Without(i), Visibility!GetAnswered(calls[i], calls[i].models), UNCHANGED <<made, hidden, catalogue>>
  PROVE  VisibilityInv'
<1>1. /\ calls' \in Seq(Calls)
      /\ \A j \in DOMAIN calls' : Old(i, j) \in DOMAIN calls /\ Old(i, j) # i /\ calls'[j] = calls[Old(i, j)]
      /\ \A a, b \in DOMAIN calls' : a < b <=> Old(i, a) < Old(i, b)
      /\ \A k \in DOMAIN calls : k # i => \E j \in DOMAIN calls' : Old(i, j) = k
  BY RemovedView
<1>2. UNCHANGED <<hiddenModels, asked, missed>> /\ ~IsSet(i)
  BY DEF Visibility!GetAnswered, IsSet
<1>3. \A j \in DOMAIN calls' : IsSet(j)' <=> IsSet(Old(i, j))
  BY <1>1 DEF IsSet
<1>4. ASSUME NEW j \in DOMAIN calls' PROVE LastSet(j)' <=> LastSet(Old(i, j))
  BY <1>1, <1>2, <1>3 DEF LastSet
<1>5. CallsOK'
  BY RemovedCallsOK
<1>6. SetsOK'
  <2>1. ASSUME NEW a \in DOMAIN calls', LastSet(a)'
        PROVE  /\ calls'[a].models = asked'
               /\ calls'[a].stage = "answered" => hidden' = calls'[a].models
               /\ calls'[a].stage = "sent" /\ ~Visibility!Loading(calls[a])' => calls'[a].was = hidden' \/ missed'
    BY <1>1, <1>2, <1>4, <2>1 DEF VisibilityInv, SetsOK, Visibility!Loading
  <2>2. ASSUME NEW a \in DOMAIN calls', NEW b \in DOMAIN calls', a < b, IsSet(a)', IsSet(b)'
        PROVE  calls'[b].was = hidden' \/ calls'[b].stage = "answered"
    BY <1>1, <1>2, <1>3, <2>2 DEF VisibilityInv, SetsOK
  <2>3. (\A j \in DOMAIN calls' : ~IsSet(j)') => \A k \in DOMAIN calls : ~IsSet(k)
    BY <1>1, <1>2, <1>3
  <2> QED BY <1>2, <2>1, <2>2, <2>3 DEF VisibilityInv, SetsOK
<1>7. CASE Visibility!Shown(calls[i])
  <2>1. /\ section # None /\ section \in Sections /\ section.mount = calls[i].mount
        /\ section' = [section EXCEPT !.status = "ready", !.hidden = calls[i].models]
    BY <1>7 DEF Visibility!Shown, Visibility!GetAnswered, VisibilityInv, VisibilityTypeInv
  <2>2. /\ section.status = "loading" /\ calls[i].models = hidden
        /\ \A j \in DOMAIN calls : j > i => ~IsSet(j)
    BY <1>2, <2>1 DEF VisibilityInv, SectionOK
  <2>3. /\ section' \in Sections /\ section'.mount = section.mount /\ section'.status = "ready"
        /\ section'.hidden = hidden
    BY <2>1, <2>2, CallTyped DEF Sections, SectionStatus
  <2>4. \A k \in DOMAIN calls : IsSet(k) => calls[k].stage = "answered"
    BY <1>2, <2>2, CallTyped DEF VisibilityInv, CallsOK
  <2>5. \A k \in DOMAIN calls : k # i => calls[k].mount # section.mount
    <3> SUFFICES ASSUME NEW k \in DOMAIN calls, k # i, calls[k].mount = section.mount PROVE FALSE
      OBVIOUS
    <3>1. ~IsSet(k)
      BY <2>1, <2>2 DEF VisibilityInv, SectionOK
    <3>2. k < i \/ i < k
      BY CallTyped
    <3> QED BY <1>2, <2>1, <3>1, <3>2 DEF VisibilityInv, CallsOK
  <2>6. VisibilityTypeInv'
    BY <1>1, <1>2, <2>3 DEF VisibilityInv, VisibilityTypeInv
  <2>7. SectionOK'
    <3>1. \A j \in DOMAIN calls' : calls'[j].mount # section'.mount
      BY <1>1, <2>3, <2>5
    <3>2. \A j \in DOMAIN calls' : IsSet(j)' => calls'[j].stage = "answered"
      BY <1>1, <1>3, <2>4
    <3> QED BY <2>1, <2>3, <3>1, <3>2 DEF VisibilityInv, SectionOK
  <2> QED BY <1>5, <1>6, <2>6, <2>7 DEF VisibilityInv
<1>8. CASE ~Visibility!Shown(calls[i])
  <2>1. UNCHANGED section
    BY <1>8 DEF Visibility!GetAnswered
  <2>2. VisibilityTypeInv'
    BY <1>1, <1>2, <2>1 DEF VisibilityInv, VisibilityTypeInv
  <2>3. SectionOK'
    <3> SUFFICES ASSUME section # None PROVE SectionOK'
      BY <2>1 DEF SectionOK
    <3>1. ASSUME NEW a \in DOMAIN calls', calls'[a].mount = section.mount
          PROVE  IF IsSet(a)' THEN LastSet(a)' /\ section.status = "saving"
                 ELSE /\ section.status = "loading"
                      /\ \A j \in DOMAIN calls' : j > a => ~IsSet(j)'
                      /\ calls'[a].stage = "answered" => calls'[a].models = hidden
      BY <1>1, <1>3, <1>4, <3>1 DEF VisibilityInv, SectionOK
    <3>2. \A j \in DOMAIN calls' : IsSet(j)' => IsSet(Old(i, j)) /\ calls'[j] = calls[Old(i, j)]
      BY <1>1, <1>3
    <3> QED BY <1>1, <1>2, <2>1, <3>1, <3>2 DEF VisibilityInv, SectionOK
  <2> QED BY <1>5, <1>6, <2>2, <2>3 DEF VisibilityInv
<1> QED BY <1>7, <1>8

LEMMA SetAnsweredPreserves ==
  ASSUME VisibilityInv, NEW i \in DOMAIN calls, calls[i].stage = "answered", calls[i].kind = "set",
         \A j \in 1..(i - 1) : calls[j].kind = "get",
         calls' = Visibility!Without(i), Visibility!SetAnswered(calls[i], calls[i].models), UNCHANGED <<made, hidden, catalogue>>
  PROVE  VisibilityInv'
<1>1. /\ calls' \in Seq(Calls)
      /\ \A j \in DOMAIN calls' : Old(i, j) \in DOMAIN calls /\ Old(i, j) # i /\ calls'[j] = calls[Old(i, j)]
      /\ \A a, b \in DOMAIN calls' : a < b <=> Old(i, a) < Old(i, b)
      /\ \A k \in DOMAIN calls : k # i => \E j \in DOMAIN calls' : Old(i, j) = k
  BY RemovedView
<1>2. UNCHANGED asked /\ missed' = FALSE /\ IsSet(i)
  BY DEF Visibility!SetAnswered, IsSet
<1>3. \A j \in DOMAIN calls' : IsSet(j)' <=> IsSet(Old(i, j))
  BY <1>1 DEF IsSet
<1>4. \A k \in DOMAIN calls : IsSet(k) /\ k # i => i < k
  <2>1. \A k \in DOMAIN calls : k < i => k \in 1..(i - 1)
    BY CallTyped
  <2> QED BY <2>1, CallTyped DEF IsSet
<1>5. ASSUME NEW j \in DOMAIN calls' PROVE LastSet(j)' <=> LastSet(Old(i, j))
  <2>1. CASE IsSet(Old(i, j))
    BY <1>1, <1>3, <1>4, <2>1, CallTyped DEF LastSet
  <2>2. CASE ~IsSet(Old(i, j))
    BY <1>3, <2>2 DEF LastSet
  <2> QED BY <2>1, <2>2
<1>6. CallsOK'
  BY RemovedCallsOK
<1>7. hiddenModels' \in SUBSET Model /\ hiddenModels' = IF Visibility!Loading(calls[i]) THEN hiddenModels ELSE calls[i].models
  BY CallTyped DEF Visibility!SetAnswered, VisibilityInv, VisibilityTypeInv
<1>8. SetsOK'
  <2>1. ASSUME NEW a \in DOMAIN calls', LastSet(a)'
        PROVE  /\ calls'[a].models = asked'
               /\ calls'[a].stage = "answered" => hidden' = calls'[a].models
               /\ calls'[a].stage = "sent" => calls'[a].was = hidden'
    <3> DEFINE k == Old(i, a)
    <3>1. LastSet(k) /\ k \in DOMAIN calls /\ k # i /\ calls'[a] = calls[k] /\ IsSet(k)
      BY <1>1, <1>5, <2>1 DEF LastSet
    <3> HIDE DEF k
    <3>2. i < k
      BY <1>4, <3>1
    <3> QED BY <1>2, <3>1, <3>2 DEF VisibilityInv, SetsOK
  <2>2. ASSUME NEW a \in DOMAIN calls', NEW b \in DOMAIN calls', a < b, IsSet(a)', IsSet(b)'
        PROVE  calls'[b].was = hidden' \/ calls'[b].stage = "answered"
    BY <1>1, <1>2, <1>3, <2>2 DEF VisibilityInv, SetsOK
  <2>3. ASSUME \A j \in DOMAIN calls' : ~IsSet(j)' PROVE asked' = hiddenModels' /\ hiddenModels' = hidden'
    <3>1. LastSet(i)
      BY <1>1, <1>2, <1>3, <2>3, CallTyped DEF LastSet
    <3> QED BY <1>2, <1>7, <3>1 DEF VisibilityInv, SetsOK, CallsOK
  <2> QED BY <1>2, <2>1, <2>2, <2>3 DEF SetsOK
<1>9. CASE Visibility!Shown(calls[i]) /\ ~Visibility!Loading(calls[i])
  <2>1. /\ section # None /\ section \in Sections /\ section.mount = calls[i].mount
        /\ section' = [section EXCEPT !.status = "ready", !.hidden = calls[i].models]
    BY <1>9 DEF Visibility!Shown, Visibility!SetAnswered, VisibilityInv, VisibilityTypeInv
  <2>2. section.status = "saving" /\ LastSet(i)
    BY <1>2, <2>1 DEF VisibilityInv, SectionOK
  <2>3. calls[i].models = hidden
    BY <2>2 DEF VisibilityInv, SetsOK
  <2>4. /\ section' \in Sections /\ section'.mount = section.mount /\ section'.status = "ready"
        /\ section'.hidden = hidden
    BY <2>1, <2>3, CallTyped DEF Sections, SectionStatus
  <2>5. \A k \in DOMAIN calls : k # i => ~IsSet(k)
    BY <1>4, <2>2, CallTyped DEF LastSet
  <2>6. \A k \in DOMAIN calls : k # i => calls[k].mount # section.mount
    BY <2>2, <2>5, <2>1 DEF VisibilityInv, SectionOK
  <2>7. VisibilityTypeInv'
    BY <1>1, <1>2, <1>7, <2>4 DEF VisibilityInv, VisibilityTypeInv
  <2>8. SectionOK'
    <3>1. \A j \in DOMAIN calls' : calls'[j].mount # section'.mount /\ ~IsSet(j)'
      BY <1>1, <1>3, <2>4, <2>5, <2>6
    <3> QED BY <2>1, <2>4, <3>1 DEF VisibilityInv, SectionOK
  <2> QED BY <1>6, <1>8, <2>7, <2>8 DEF VisibilityInv
<1>10. CASE ~(Visibility!Shown(calls[i]) /\ ~Visibility!Loading(calls[i]))
  <2>1. UNCHANGED section
    BY <1>10 DEF Visibility!SetAnswered
  <2>2. VisibilityTypeInv'
    BY <1>1, <1>2, <1>7, <2>1 DEF VisibilityInv, VisibilityTypeInv
  <2>3. SectionOK'
    <3> SUFFICES ASSUME section # None PROVE SectionOK'
      BY <2>1 DEF SectionOK
    <3>1. ASSUME NEW a \in DOMAIN calls', calls'[a].mount = section.mount
          PROVE  IF IsSet(a)' THEN LastSet(a)' /\ section.status = "saving"
                 ELSE /\ section.status = "loading"
                      /\ \A j \in DOMAIN calls' : j > a => ~IsSet(j)'
                      /\ calls'[a].stage = "answered" => calls'[a].models = hidden
      BY <1>1, <1>3, <1>5, <3>1 DEF VisibilityInv, SectionOK
    <3>2. \A j \in DOMAIN calls' : IsSet(j)' => IsSet(Old(i, j)) /\ calls'[j] = calls[Old(i, j)]
      BY <1>1, <1>3
    <3>3. section.status # "error"
      BY <1>2 DEF VisibilityInv, SectionOK
    <3> QED BY <1>1, <2>1, <3>1, <3>2, <3>3 DEF VisibilityInv, SectionOK
  <2> QED BY <1>6, <1>8, <2>2, <2>3 DEF VisibilityInv
<1> QED BY <1>9, <1>10

LEMMA AnswerPreserves ==
  ASSUME VisibilityInv, Visibility!Answer
  PROVE  VisibilityInv'
BY GetAnsweredPreserves, SetAnsweredPreserves DEF Visibility!Answer

LEMMA VisibilityNext ==
  ASSUME VisibilityInv, [Visibility!Next]_(Visibility!visibilityVars)
  PROVE  VisibilityInv'
BY MountPreserves, UnmountPreserves, CommitPreserves, HostSetsPreserves, HostReadsPreserves,
   AnswerPreserves, BreakPreserves, ReloadPreserves DEF Visibility!Next

LEMMA VisibilityAlways ==
  ASSUME VisibilityInv
  PROVE  Visibility!AllAgree
<1>1. ~Visibility!Writing => \A i \in DOMAIN calls : ~IsSet(i)
  BY DEF Visibility!Writing, IsSet
<1> QED BY <1>1 DEF VisibilityInv, VisibilityTypeInv, SetsOK, SectionOK, Visibility!AllAgree

LEMMA BrowserAndHostAgree == Visibility!Spec => []Visibility!AllAgree
<1>1. Visibility!Init => VisibilityInv
  BY VisibilityInitInv
<1>2. VisibilityInv /\ [Visibility!Next]_(Visibility!visibilityVars) => VisibilityInv'
  BY VisibilityNext
<1>3. VisibilityInv => Visibility!AllAgree
  BY VisibilityAlways
<1> QED BY <1>1, <1>2, <1>3, PTL DEF Visibility!Spec

\* ModelVisibility!AllAgree: once nothing is being written, storage, section, host and
\* catalogue hide the same models, whatever mounts, drops and reloads went before.
THEOREM VisibilityAgrees == Visibility!Spec => []AllAgree
BY BrowserAndHostAgree, PTL DEF AllAgree

-----------------------------------------------------------------------------
(* BridgeReply *)

\* The ids a model writes, and the calls it states with them.
VendorIds == CallId \cup {Empty}
CallSeq == Seq([id : VendorIds, name : {"declared", "undeclared", ""}, arguments : {"object", "other"}])

BridgeTypeInv ==
  /\ provider \in {"antigravity", "grok"} /\ kept \in BOOLEAN /\ repaired \in BOOLEAN
  /\ wrote \in Seq(VendorIds \cup {None})

\* An id is restored for the first call that has it, and for no other.
FirstOf(i) == wrote[i] # None /\ \A j \in 1 .. i - 1 : wrote[j] # wrote[i]
RestoredInv ==
  /\ DOMAIN callIds \subseteq DOMAIN wrote
  /\ \A i \in DOMAIN callIds : callIds[i] = wrote[i]
  /\ \A i \in DOMAIN wrote : i \in DOMAIN callIds <=> FirstOf(i)
  /\ \A i \in DOMAIN wrote : wrote[i] # None => wrote[i] \in Bridge!Range(callIds)

BridgeInv == BridgeTypeInv /\ RestoredInv /\ Bridge!DecisionRead

LEMMA CallsTyped ==
  ASSUME NEW list \in CallSeq
  PROVE  DOMAIN list = 1..Len(list) /\ Len(list) \in Nat /\ \A i \in DOMAIN list : list[i].id \in VendorIds
<1> DEFINE C == [id : VendorIds, name : {"declared", "undeclared", ""}, arguments : {"object", "other"}]
<1>1. list \in Seq(C)
  BY DEF CallSeq
<1>2. \A c \in C : c.id \in VendorIds
  OBVIOUS
<1> HIDE DEF C
<1> QED BY <1>1, <1>2

\* What the rows of a reply hold.
LEMMA RowTyped ==
  ASSUME NEW row \in Bridge!Rows
  PROVE  /\ row.turn \in {"this", "earlier"} /\ Bridge!CallsOf(row) \in CallSeq
<1>1. Bridge!SomeId \in CallId
  BY BridgeAssumption DEF Bridge!SomeId
<1>2. \A list \in Bridge!Lists : list # None => list \in CallSeq
  <2> DEFINE C == [id : VendorIds, name : {"declared", "undeclared", ""}, arguments : {"object", "other"}]
  <2>1. /\ \A i \in CallId : Bridge!Good(i) \in C
        /\ Bridge!Call(Bridge!SomeId, "undeclared", "object") \in C /\ Bridge!Call(Bridge!SomeId, "", "object") \in C
        /\ Bridge!Call(Empty, "declared", "object") \in C /\ Bridge!Call(Bridge!SomeId, "declared", "other") \in C
    BY <1>1 DEF Bridge!Good, Bridge!Call, VendorIds
  <2> HIDE DEF C
  <2>2. /\ \A c \in C : <<c>> \in Seq(C)
        /\ \A c, d \in C : <<c, d>> \in Seq(C)
        /\ <<>> \in Seq(C)
    OBVIOUS
  <2>3. CallSeq = Seq(C)
    BY DEF C, CallSeq
  <2>4. SUFFICES ASSUME NEW list \in Bridge!Lists, list # None PROVE list \in Seq(C)
    BY <2>3
  <2>5. Bridge!OneCall \subseteq Seq(C)
    BY <2>1, <2>2 DEF Bridge!OneCall
  <2>6. ASSUME NEW two \in Bridge!TwoCalls PROVE two \in Seq(C)
    <3>1. PICK i \in CallId, j \in CallId : two = <<Bridge!Good(i), Bridge!Good(j)>>
      BY DEF Bridge!TwoCalls
    <3> QED BY <2>1, <2>2, <3>1
  <2>7. Bridge!IllMade \subseteq Seq(C)
    BY <1>1, <2>1, <2>2 DEF Bridge!IllMade
  <2> QED BY <2>2, <2>4, <2>5, <2>6, <2>7 DEF Bridge!Lists
<1>3. row.calls \in Bridge!Lists \cup {None, <<>>, <<Bridge!Good(Bridge!SomeId)>>} /\ row.turn \in {"this", "earlier"}
  BY DEF Bridge!Rows, Bridge!Row
<1>4. <<Bridge!Good(Bridge!SomeId)>> \in CallSeq /\ <<>> \in CallSeq
  BY <1>1 DEF CallSeq, Bridge!Good, Bridge!Call, VendorIds
<1> QED BY <1>2, <1>3, <1>4 DEF Bridge!CallsOf

\* What of a reply answers this turn, and what of that can be executed.
OwnRows(r) == {row \in {r.structured, r.response.row} \ {None} : row.turn = "this"}
UsableRows(r) == {row \in OwnRows(r) : Bridge!Valid(row) /\ Bridge!ExecutableDecision(Bridge!CallsOf(row))}

\* What a reply is read as: a decision stated for this turn by a source of it, or a failure.
LEMMA ReadSound ==
  ASSUME NEW r \in Bridge!Replies, provider \in {"antigravity", "grok"},
         provider = "grok" => r.response = Bridge!Response("absent", None)
  PROVE  /\ Bridge!Read(r).is \in {"decision", "protocol", "stale"}
         /\ Bridge!Read(r).calls \in CallSeq
         /\ Bridge!Read(r).is = "decision" => /\ \E row \in UsableRows(r) : Bridge!Read(r).calls = Bridge!CallsOf(row)
                                       /\ Bridge!ExecutableDecision(Bridge!Read(r).calls)
         /\ Bridge!Read(r).is # "decision" =>
              Bridge!Read(r).calls = <<>> /\ (UsableRows(r) # {} => OwnRows(r) # UsableRows(r))
         /\ Bridge!Read(r).is = "stale" => r.structured # None /\ ~Bridge!AnswersTurn(r.structured)
<1> DEFINE read == IF provider = "grok" THEN Bridge!ReadDecision(r) ELSE Bridge!StructuredResult(r)
<1>1. /\ r.structured \in Bridge!Rows \cup {None} /\ r.response.row \in Bridge!Rows \cup {None}
      /\ provider = "grok" => r.response.row = None
  BY DEF Bridge!Replies, Bridge!Responses, Bridge!Response
<1>2. /\ read.is \in {"decision", "protocol", "stale"}
      /\ read.is = "decision" => \E row \in OwnRows(r) : Bridge!Valid(row) /\ read.calls = Bridge!CallsOf(row)
      /\ read.is # "decision" =>
           read.calls = <<>> /\ (UsableRows(r) = {} \/ \E row \in OwnRows(r) : ~Bridge!Valid(row))
      /\ read.is = "stale" => r.structured # None /\ ~Bridge!AnswersTurn(r.structured)
  <2>1. CASE Bridge!AnswersTurn(r.structured)
    <3>1. r.structured \in OwnRows(r) /\ read = Bridge!Validated(r.structured)
      BY <2>1 DEF OwnRows, UsableRows, Bridge!AnswersTurn, Bridge!ReadDecision, Bridge!StructuredResult
    <3> QED BY <3>1, <2>1 DEF Bridge!Validated, Bridge!Decision, Bridge!Failure
  <2>2. CASE ~Bridge!AnswersTurn(r.structured) /\ Bridge!AnswersTurn(r.response.row) /\ Bridge!Valid(r.response.row)
    <3>1. provider # "grok" /\ r.response.row \in OwnRows(r)
      BY <1>1, <2>2 DEF OwnRows, UsableRows, Bridge!AnswersTurn
    <3>2. read = Bridge!Decision(r.response.row)
      BY <2>2, <3>1 DEF Bridge!StructuredResult
    <3> QED BY <3>1, <3>2, <2>2 DEF Bridge!Decision
  <2>3. CASE ~Bridge!AnswersTurn(r.structured) /\ ~(Bridge!AnswersTurn(r.response.row) /\ Bridge!Valid(r.response.row))
    <3>1. read = Bridge!Failure(IF r.structured = None THEN "protocol" ELSE "stale")
      BY <2>3 DEF Bridge!StructuredResult, Bridge!ReadDecision
    <3>2. UsableRows(r) = {}
      BY <2>3 DEF OwnRows, UsableRows, Bridge!AnswersTurn
    <3> QED BY <2>3, <3>1, <3>2 DEF Bridge!Failure
  <2> QED BY <2>1, <2>2, <2>3
<1>3. read.calls \in CallSeq
  <2>1. <<>> \in CallSeq
    BY DEF CallSeq
  <2>2. \A row \in OwnRows(r) : Bridge!CallsOf(row) \in CallSeq
    BY <1>1, RowTyped DEF OwnRows
  <2> QED BY <1>2, <2>1, <2>2
<1> HIDE DEF read
<1>4. CASE Bridge!ExecutableDecision(read.calls)
  <2>1. Bridge!Read(r) = read
    BY <1>4 DEF Bridge!Read, read
  <2> QED BY <1>2, <1>3, <1>4, <2>1 DEF UsableRows
<1>5. CASE ~Bridge!ExecutableDecision(read.calls)
  <2>1. Bridge!Read(r) = Bridge!Failure("protocol")
    BY <1>5 DEF Bridge!Read, read
  <2>2. read.is = "decision"
    BY <1>2, <1>5 DEF Bridge!ExecutableDecision
  <2>3. PICK row \in OwnRows(r) : Bridge!Valid(row) /\ read.calls = Bridge!CallsOf(row)
    BY <1>2, <2>2
  <2>4. row \notin UsableRows(r)
    BY <1>5, <2>3 DEF UsableRows
  <2>5. <<>> \in CallSeq
    BY DEF CallSeq
  <2> QED BY <2>1, <2>3, <2>4, <2>5 DEF Bridge!Failure
<1> QED BY <1>4, <1>5

-----------------------------------------------------------------------------
\* An id that is restored is the one the model wrote; every other call goes by DSH's Own(r).
LEMMA ToldApart ==
  ASSUME BridgeTypeInv, RestoredInv
  PROVE  Bridge!CallsToldApart
<1>1. \A i \in DOMAIN wrote : i \in Nat /\ wrote[i] \in VendorIds \cup {None}
  BY DEF BridgeTypeInv
<1>2. \A i \in DOMAIN wrote : Bridge!View(i) = IF FirstOf(i) THEN wrote[i] ELSE i
  BY DEF RestoredInv, Bridge!View
<1>3. \A i \in DOMAIN wrote : FirstOf(i) => wrote[i] \in VendorIds /\ wrote[i] \notin Nat
  BY <1>1, BridgeAssumption DEF FirstOf, VendorIds
<1>4. ASSUME NEW i \in DOMAIN wrote, NEW j \in DOMAIN wrote, Bridge!View(i) = Bridge!View(j) PROVE i = j
  <2>1. CASE FirstOf(i) /\ FirstOf(j)
    <3>1. wrote[i] = wrote[j]
      BY <1>2, <1>4, <2>1
    <3>2. (i < j => i \in 1 .. j - 1) /\ (j < i => j \in 1 .. i - 1)
      BY <1>1 DEF BridgeTypeInv
    <3>3. ~(i < j) /\ ~(j < i)
      BY <2>1, <3>1, <3>2 DEF FirstOf
    <3> QED BY <1>1, <3>3
  <2>2. CASE ~(FirstOf(i) /\ FirstOf(j))
    BY <1>1, <1>2, <1>3, <1>4, <2>2
  <2> QED BY <2>1, <2>2
<1> QED BY <1>2, <1>4 DEF Bridge!CallsToldApart, FirstOf

\* The conversation is given up: nothing is restored any more.
LEMMA ForgottenKeeps ==
  ASSUME BridgeTypeInv, Bridge!Forgotten
  PROVE  RestoredInv' /\ wrote' \in Seq(VendorIds \cup {None})
<1>1. wrote' \in Seq(VendorIds \cup {None}) /\ \A i \in DOMAIN wrote' : wrote'[i] = None
  BY DEF Bridge!Forgotten, BridgeTypeInv
<1>2. DOMAIN callIds' = {}
  BY DEF Bridge!Forgotten
<1> QED BY <1>1, <1>2 DEF RestoredInv, FirstOf

\* A decision's calls are restored under the ids that are new to the conversation.
LEMMA MappedKeeps ==
  ASSUME BridgeTypeInv, RestoredInv, NEW list \in CallSeq, Bridge!ExecutableDecision(list),
         wrote' = wrote \o [i \in DOMAIN list |-> list[i].id], callIds' = Bridge!Mapped(list)
  PROVE  RestoredInv' /\ wrote' \in Seq(VendorIds \cup {None})
<1>0. PICK n \in Nat : n = Len(wrote)
  BY DEF BridgeTypeInv
<1> DEFINE ids == [i \in DOMAIN list |-> list[i].id]
           new == {i \in DOMAIN list : list[i].id \notin Bridge!Range(callIds)}
<1>1. /\ wrote \in Seq(VendorIds \cup {None}) /\ n \in Nat /\ DOMAIN wrote = 1..n
      /\ DOMAIN list = 1..Len(list) /\ Len(list) \in Nat
      /\ \A i \in DOMAIN list : list[i].id \in VendorIds
  <2>1. wrote \in Seq(VendorIds \cup {None}) /\ n \in Nat /\ DOMAIN wrote = 1..n
    BY <1>0 DEF BridgeTypeInv
  <2>2. DOMAIN list = 1..Len(list) /\ Len(list) \in Nat /\ \A i \in DOMAIN list : list[i].id \in VendorIds
    BY CallsTyped
  <2> QED BY <2>1, <2>2
<1>2. ids \in Seq(VendorIds \cup {None}) /\ Len(ids) = Len(list) /\ \A i \in 1..Len(list) : ids[i] = list[i].id
  BY <1>1
<1>3. /\ wrote' \in Seq(VendorIds \cup {None}) /\ DOMAIN wrote' = 1..(n + Len(list))
      /\ \A i \in 1..n : wrote'[i] = wrote[i]
      /\ \A i \in 1..Len(list) : wrote'[n + i] = list[i].id
  <2> HIDE DEF ids
  <2>1. wrote' = wrote \o ids
    BY DEF ids
  <2>2. /\ wrote \o ids \in Seq(VendorIds \cup {None}) /\ Len(wrote \o ids) = Len(wrote) + Len(ids)
        /\ \A i \in 1..(Len(wrote) + Len(ids)) :
             (wrote \o ids)[i] = IF i <= Len(wrote) THEN wrote[i] ELSE ids[i - Len(wrote)]
    BY <1>0, <1>1, <1>2, ConcatProperties
  <2>3. \A i \in 1..Len(list) : (n + i) \in 1..(n + Len(list)) /\ ~(n + i <= n) /\ (n + i) - n = i
    BY <1>1
  <2>4. \A i \in 1..n : i \in 1..(n + Len(list)) /\ i <= n
    BY <1>1
  <2> QED BY <1>0, <1>1, <1>2, <2>1, <2>2, <2>3, <2>4
<1>4. /\ DOMAIN callIds' = DOMAIN callIds \cup {n + i : i \in new}
      /\ \A i \in DOMAIN callIds : i \in 1..n /\ callIds'[i] = callIds[i]
      /\ \A i \in new : callIds'[n + i] = list[i].id
  <2>1. \A i \in new : n + i \notin 1..n /\ (n + i) - n = i
    BY <1>1
  <2> QED BY <1>0, <1>1, <2>1 DEF Bridge!Mapped, Bridge!Restoring, RestoredInv
<1> HIDE DEF ids
<1>5. \A i \in 1..(n + Len(list)) : i \in 1..n \/ \E k \in 1..Len(list) : i = n + k
  <2>1. SUFFICES ASSUME NEW i \in 1..(n + Len(list)), i \notin 1..n PROVE i - n \in 1..Len(list) /\ i = n + (i - n)
    OBVIOUS
  <2> QED BY <1>1, <2>1
<1>6. \A k \in 1..Len(list) : n + k \notin DOMAIN callIds /\ (n + k \in DOMAIN callIds' <=> k \in new)
  <2>1. \A k \in 1..Len(list) : n + k \notin 1..n /\ \A l \in 1..Len(list) : n + k = n + l => k = l
    BY <1>1
  <2> QED BY <1>1, <1>4, <2>1
<1>7. DOMAIN callIds' \subseteq DOMAIN wrote' /\ \A i \in DOMAIN callIds' : callIds'[i] = wrote'[i]
  <2>1. \A k \in new : n + k \in 1..(n + Len(list))
    BY <1>1
  <2>2. \A i \in 1..n : i \in 1..(n + Len(list))
    BY <1>1
  <2> QED BY <1>1, <1>3, <1>4, <2>1, <2>2 DEF RestoredInv
<1>8. ASSUME NEW i \in 1..n PROVE i \in DOMAIN callIds' <=> FirstOf(i)'
  <2>1. \A j \in 1..(i - 1) : j \in 1..n /\ wrote'[j] = wrote[j]
    BY <1>1, <1>3
  <2>2. FirstOf(i)' <=> FirstOf(i)
    BY <1>3, <2>1 DEF FirstOf
  <2>3. i \in DOMAIN callIds' <=> i \in DOMAIN callIds
    <3>1. \A k \in 1..Len(list) : i # n + k
      BY <1>1
    <3> QED BY <1>1, <1>4, <3>1
  <2> QED BY <1>1, <2>2, <2>3 DEF RestoredInv
<1>9. ASSUME NEW k \in 1..Len(list) PROVE n + k \in DOMAIN callIds' <=> FirstOf(n + k)'
  <2>1. wrote'[n + k] = list[k].id /\ list[k].id # None
    BY <1>1, <1>3, BridgeAssumption DEF VendorIds
  <2>2. CASE k \in new
    <3>1. ASSUME NEW j \in 1..((n + k) - 1) PROVE wrote'[j] # list[k].id
      <4>1. CASE j \in 1..n
        BY <1>1, <1>3, <2>1, <2>2, <4>1 DEF RestoredInv
      <4>2. CASE j \notin 1..n
        <5>1. j - n \in 1..Len(list) /\ n + (j - n) = j /\ j - n # k
          BY <1>1, <4>2
        <5>2. wrote'[j] = list[j - n].id
          BY <1>3, <5>1
        <5> QED BY <1>1, <5>1, <5>2 DEF Bridge!ExecutableDecision
      <4> QED BY <4>1, <4>2
    <3>2. FirstOf(n + k)'
      BY <2>1, <3>1 DEF FirstOf
    <3> QED BY <1>6, <2>2, <3>2
  <2>3. CASE k \notin new
    <3>1. PICK i \in DOMAIN callIds : callIds[i] = list[k].id
      BY <1>1, <2>3 DEF Bridge!Range
    <3>2. i \in 1..n /\ i \in 1..((n + k) - 1) /\ wrote'[i] = wrote'[n + k]
      BY <1>1, <1>3, <1>4, <2>1, <3>1 DEF RestoredInv
    <3> QED BY <1>6, <2>3, <3>2 DEF FirstOf
  <2> QED BY <2>2, <2>3
<1>10. ASSUME NEW i \in DOMAIN wrote', wrote'[i] # None PROVE wrote'[i] \in Bridge!Range(callIds')
  <2>1. Bridge!Range(callIds) \subseteq Bridge!Range(callIds')
    BY <1>4 DEF Bridge!Range
  <2>2. CASE i \in 1..n
    BY <1>1, <1>3, <1>10, <2>1, <2>2 DEF RestoredInv
  <2>3. ASSUME NEW k \in 1..Len(list), i = n + k PROVE wrote'[i] \in Bridge!Range(callIds')
    <3>1. CASE k \in new
      BY <1>3, <1>4, <1>6, <2>3, <3>1 DEF Bridge!Range
    <3>2. CASE k \notin new
      BY <1>1, <1>3, <2>1, <2>3, <3>2
    <3> QED BY <3>1, <3>2
  <2> QED BY <1>3, <1>5, <2>2, <2>3
<1>11. \A i \in DOMAIN wrote' : i \in DOMAIN callIds' <=> FirstOf(i)'
  BY <1>3, <1>5, <1>8, <1>9
<1> QED BY <1>3, <1>7, <1>10, <1>11 DEF RestoredInv

-----------------------------------------------------------------------------
LEMMA StillMapped ==
  ASSUME RestoredInv, wrote' = wrote, callIds' = callIds
  PROVE  RestoredInv'
BY DEF RestoredInv, FirstOf

LEMMA StillRestored ==
  ASSUME BridgeTypeInv, RestoredInv, NEW taken, taken.calls \in CallSeq,
         taken.is = "decision" => Bridge!ExecutableDecision(taken.calls), Bridge!Settle(taken)
  PROVE  BridgeTypeInv' /\ RestoredInv' /\ decision' = taken
<1>1. CASE kept /\ taken.is = "decision"
  <2>1. RestoredInv' /\ wrote' \in Seq(VendorIds \cup {None})
    BY <1>1, MappedKeeps DEF Bridge!Settle
  <2> QED BY <2>1 DEF Bridge!Settle, BridgeTypeInv
<1>2. CASE ~(kept /\ taken.is = "decision")
  BY <1>2, StillMapped DEF Bridge!Settle, BridgeTypeInv
<1> QED BY <1>1, <1>2

LEMMA LostRestoresNothing ==
  ASSUME BridgeTypeInv, RestoredInv, NEW failure, Bridge!Lose(failure)
  PROVE  BridgeTypeInv' /\ RestoredInv' /\ decision' = failure
<1>1. CASE kept
  <2>1. RestoredInv' /\ wrote' \in Seq(VendorIds \cup {None})
    BY <1>1, ForgottenKeeps DEF Bridge!Lose
  <2> QED BY <2>1 DEF Bridge!Lose, BridgeTypeInv
<1>2. CASE ~kept
  BY <1>2, StillMapped DEF Bridge!Lose, BridgeTypeInv
<1> QED BY <1>1, <1>2

LEMMA AnsweredPreserves ==
  ASSUME BridgeInv, NEW r \in Bridge!Replies, Bridge!Answered(r)
  PROVE  BridgeInv'
<1>1. /\ BridgeTypeInv /\ RestoredInv /\ decision = None /\ reply' = r /\ provider' = provider /\ kept' = kept
      /\ provider \in {"antigravity", "grok"} /\ (provider = "grok" => r.response = Bridge!Response("absent", None))
  BY DEF BridgeInv, BridgeTypeInv, Bridge!Answered, Bridge!Decides, Bridge!Refused, Bridge!AskedAgain,
         Bridge!TakenAsProse, Bridge!Settle, Bridge!Lose
<1>2. /\ Bridge!Read(r).is \in {"decision", "protocol", "stale"}
      /\ Bridge!Read(r).calls \in CallSeq
      /\ Bridge!Read(r).is = "decision" => /\ \E row \in UsableRows(r) : Bridge!Read(r).calls = Bridge!CallsOf(row)
                                    /\ Bridge!ExecutableDecision(Bridge!Read(r).calls)
      /\ Bridge!Read(r).is # "decision" =>
           Bridge!Read(r).calls = <<>> /\ (UsableRows(r) # {} => OwnRows(r) # UsableRows(r))
      /\ Bridge!Read(r).is = "stale" => r.structured # None /\ ~Bridge!AnswersTurn(r.structured)
  BY <1>1, ReadSound
<1>3. \A row : Bridge!Valid(row)' <=> Bridge!Valid(row)
  BY <1>1 DEF Bridge!Valid
<1>4. ASSUME decision'.is = "decision" => \E row \in UsableRows(r) : decision'.calls = Bridge!CallsOf(row),
             decision'.is # "decision" =>
               decision'.calls = <<>> /\ (UsableRows(r) # {} => OwnRows(r) # UsableRows(r)),
             decision'.is = "prose" => OwnRows(r) = {} /\ (kept' => repaired')
      PROVE  Bridge!DecisionRead'
  <2>1. UsableRows(r) = {row \in OwnRows(r) : Bridge!Valid(row)' /\ Bridge!ExecutableDecision(Bridge!CallsOf(row))}
    BY <1>3 DEF UsableRows
  <2> QED BY <1>1, <1>4, <2>1 DEF Bridge!DecisionRead, OwnRows
<1>5. CASE Bridge!Decides(r)
  <2>1. Bridge!Read(r).is = "decision" /\ Bridge!Settle(Bridge!Read(r))
    BY <1>5 DEF Bridge!Decides
  <2>2. BridgeTypeInv' /\ RestoredInv' /\ decision' = Bridge!Read(r)
    BY <1>1, <1>2, <2>1, StillRestored
  <2> QED BY <1>2, <1>4, <2>1, <2>2 DEF BridgeInv
<1>6. CASE Bridge!Refused(r)
  <2>1. Bridge!Read(r).is \in {"protocol", "stale"} /\ Bridge!Lose(Bridge!Read(r))
    BY <1>6 DEF Bridge!Refused
  <2>2. BridgeTypeInv' /\ RestoredInv' /\ decision' = Bridge!Read(r)
    BY <1>1, <2>1, LostRestoresNothing
  <2> QED BY <1>2, <1>4, <2>1, <2>2 DEF BridgeInv
<1>7. CASE Bridge!AskedAgain(r)
  <2>1. BridgeTypeInv' /\ RestoredInv' /\ decision' = None
    BY <1>1, <1>7, StillMapped DEF Bridge!AskedAgain, BridgeTypeInv
  <2> QED BY <2>1 DEF BridgeInv, Bridge!DecisionRead
<1>8. CASE Bridge!TakenAsProse(r)
  <2> DEFINE taken == IF Bridge!IsProse(r) THEN Bridge!Failure("prose") ELSE Bridge!Failure("stale")
  <2>1. taken.calls = <<>> /\ taken.calls \in CallSeq /\ taken.is \in {"prose", "stale"}
    BY DEF Bridge!Failure, CallSeq
  <2>2. taken.is = "prose" => OwnRows(r) = {} /\ r.response.row = None
    <3>1. taken.is = "prose" => Bridge!IsProse(r)
      BY DEF Bridge!Failure
    <3>2. Bridge!IsProse(r) => r.response.row = None
      BY DEF Bridge!IsProse, Bridge!Replies, Bridge!Responses, Bridge!Response
    <3> QED BY <1>2, <1>8, <3>1, <3>2 DEF Bridge!TakenAsProse, Bridge!AnswersTurn, OwnRows
  <2>3. Bridge!Settle(taken) /\ Bridge!Read(r).is = "stale" /\ (kept => repaired) /\ repaired' = repaired
    BY <1>8 DEF Bridge!TakenAsProse, Bridge!Settle
  <2> HIDE DEF taken
  <2>4. BridgeTypeInv' /\ RestoredInv' /\ decision' = taken
    BY <1>1, <2>1, <2>3, StillRestored
  <2> QED BY <1>1, <1>2, <1>4, <2>1, <2>2, <2>3, <2>4 DEF BridgeInv
<1> QED BY <1>5, <1>6, <1>7, <1>8 DEF Bridge!Answered

LEMMA BridgeNext ==
  ASSUME BridgeInv, [Bridge!Next]_(Bridge!bridgeVars)
  PROVE  BridgeInv'
<1>1. CASE Bridge!NextStep
  <2>1. RestoredInv' /\ wrote' \in Seq(VendorIds \cup {None})
    BY <1>1, ForgottenKeeps, StillMapped DEF BridgeInv, BridgeTypeInv, Bridge!NextStep
  <2>2. BridgeTypeInv' /\ Bridge!DecisionRead'
    BY <1>1, <2>1 DEF BridgeInv, BridgeTypeInv, Bridge!NextStep, Bridge!DecisionRead
  <2> QED BY <2>1, <2>2 DEF BridgeInv
<1>2. CASE UNCHANGED Bridge!bridgeVars
  <2>1. RestoredInv' /\ BridgeTypeInv'
    BY <1>2, StillMapped DEF Bridge!bridgeVars, BridgeInv, BridgeTypeInv
  <2>2. \A row : Bridge!Valid(row)' <=> Bridge!Valid(row)
    BY <1>2 DEF Bridge!bridgeVars, Bridge!Valid
  <2>3. Bridge!DecisionRead'
    BY <1>2, <2>2 DEF Bridge!bridgeVars, BridgeInv, Bridge!DecisionRead
  <2> QED BY <2>1, <2>3 DEF BridgeInv
<1> QED BY <1>1, <1>2, AnsweredPreserves DEF Bridge!Next

LEMMA BridgeInit ==
  ASSUME Bridge!Init
  PROVE  BridgeInv
<1>1. wrote \in Seq(VendorIds \cup {None}) /\ DOMAIN wrote = {} /\ DOMAIN callIds = {}
  BY DEF Bridge!Init
<1> QED BY <1>1 DEF Bridge!Init, BridgeInv, BridgeTypeInv, RestoredInv, Bridge!DecisionRead

LEMMA RepliesAreRead == Bridge!Spec => []Bridge!RepliesRead
<1>1. Bridge!Init => BridgeInv
  BY BridgeInit
<1>2. BridgeInv /\ [Bridge!Next]_(Bridge!bridgeVars) => BridgeInv'
  BY BridgeNext
<1>3. BridgeInv => Bridge!RepliesRead
  BY ToldApart DEF BridgeInv, Bridge!RepliesRead
<1> QED BY <1>1, <1>2, <1>3, PTL DEF Bridge!Spec

\* BridgeReply!RepliesRead: DSH takes a decision only as a source of the reply states it for this
\* turn, and what it took prose or nothing for did not decide; and of the calls a conversation
\* has heard of no two go by one id, the model's own id wherever it is the first with it.
THEOREM RepliesAreTakenAsRead == Bridge!Spec => []RepliesRead
BY RepliesAreRead, PTL DEF RepliesRead

-----------------------------------------------------------------------------
(* CodexStream *)

\* The instance counts as the library does.
LEMMA SameCount ==
  ASSUME NEW S
  PROVE  Stream!Cardinality(S) = Cardinality(S)
BY DEF Stream!Cardinality, Cardinality

-----------------------------------------------------------------------------
(* The pieces of a block *)

StartChunk == [chunk : {"start"}, index : Nat, type : {"reasoning", "image", "text", "tool-call"}]
TextChunk == [chunk : {"delta"}, index : Nat, pieces : Nat]
EndChunk == [chunk : {"end"}, index : Nat, pieces : Nat]
UsageChunk == [chunk : {"usage"}]
FinishChunk == [chunk : {"finish"}, reason : {"stop", "tool-calls", "max-tokens"}]
Chunk == StartChunk \cup TextChunk \cup EndChunk \cup UsageChunk \cup FinishChunk

OfKind(given, kind) == {n \in DOMAIN given : given[n].chunk = kind}
\* The pieces a chunk gives to a block.
Gives(x, index) == IF x.chunk = "delta" /\ x.index = index THEN x.pieces ELSE 0

PiecesSum(f, given, index, n) ==
  /\ f = [i \in 0..n |-> f[i]]
  /\ f[0] = 0
  /\ \A i \in 1..n : f[i] = f[i-1] + Gives(given[i], index)

LEMMA ChunkTyped ==
  ASSUME NEW x \in Chunk
  PROVE  /\ x.chunk \in {"start", "delta", "end", "usage", "finish"}
         /\ x.chunk \in {"start", "delta", "end"} => x.index \in Nat
         /\ x.chunk \in {"delta", "end"} => x.pieces \in Nat
         /\ x.chunk = "start" => x.type \in {"reasoning", "image", "text", "tool-call"}
BY DEF Chunk, StartChunk, TextChunk, EndChunk, UsageChunk, FinishChunk

LEMMA GivesNumber ==
  ASSUME NEW x \in Chunk, NEW index
  PROVE  Gives(x, index) \in Nat
BY ChunkTyped DEF Gives

LEMMA SumsSolvable ==
  ASSUME NEW given, NEW index, NEW n \in Nat
  PROVE  \E f : PiecesSum(f, given, index, n)
<1> DEFINE solved == {m \in 0..n : \E f : PiecesSum(f, given, index, m)}
<1>1. 0 \in solved
  <2>1. PiecesSum([i \in 0..0 |-> 0], given, index, 0)
    BY DEF PiecesSum
  <2> QED BY <2>1
<1>2. ASSUME NEW m \in 1..n, m-1 \in solved PROVE m \in solved
  <2>1. PICK f : PiecesSum(f, given, index, m-1)
    BY <1>2
  <2> DEFINE g == [i \in 0..m |-> IF i = m THEN f[m-1] + Gives(given[m], index) ELSE f[i]]
  <2>2. g[0] = 0 /\ g = [i \in 0..m |-> g[i]]
    BY <2>1 DEF PiecesSum
  <2>3. ASSUME NEW i \in 1..m PROVE g[i] = g[i-1] + Gives(given[i], index)
    <3>1. CASE i = m
      <4>1. g[i] = f[m-1] + Gives(given[m], index) /\ g[i-1] = f[m-1]
        BY <3>1
      <4> QED BY <4>1, <3>1
    <3>2. CASE i # m
      <4>1. g[i] = f[i] /\ g[i-1] = f[i-1] /\ i \in 1..(m-1)
        BY <3>2
      <4> QED BY <4>1, <2>1 DEF PiecesSum
    <3> QED BY <3>1, <3>2
  <2> HIDE DEF g
  <2>4. PiecesSum(g, given, index, m)
    BY <2>2, <2>3 DEF PiecesSum
  <2> QED BY <2>4
<1> HIDE DEF solved
<1>3. n \in solved
  <2>1. \A m \in 1..n : m-1 \in solved => m \in solved
    BY <1>2
  <2>2. 0..n \subseteq solved
    BY <1>1, <2>1, UpTo
  <2> QED BY <2>2
<1> QED BY <1>3 DEF solved

\* The sum so far, of which Streamed is the last.
LEMMA StreamedSums ==
  ASSUME NEW given \in Seq(Chunk), NEW index
  PROVE  \E f : PiecesSum(f, given, index, Len(given)) /\ Stream!Streamed(given, index) = f[Len(given)]
<1>1. PICK n \in Nat : n = Len(given)
  OBVIOUS
<1> DEFINE step(i, before) == IF given[i].chunk = "delta" /\ given[i].index = index THEN before + given[i].pieces ELSE before
           sum == CHOOSE f : f = [i \in 0..n |-> IF i = 0 THEN 0
                                                 ELSE IF given[i].chunk = "delta" /\ given[i].index = index
                                                 THEN f[i - 1] + given[i].pieces
                                                 ELSE f[i - 1]]
<1>2. Stream!Streamed(given, index) = sum[n]
  BY <1>1 DEF Stream!Streamed
<1>3. PICK f : PiecesSum(f, given, index, n)
  BY SumsSolvable
<1>4. \A i \in 0..n : f[i] \in Nat
  <2> DEFINE counted == {i \in 0..n : f[i] \in Nat}
  <2>1. 0 \in counted
    <3>1. 0 \in 0..n /\ f[0] = 0
      BY <1>3 DEF PiecesSum
    <3> QED BY <3>1
  <2>2. ASSUME NEW i \in 1..n, i-1 \in counted PROVE i \in counted
    <3>1. given[i] \in Chunk
      BY <1>1
    <3>2. f[i] = f[i-1] + Gives(given[i], index) /\ f[i-1] \in Nat /\ Gives(given[i], index) \in Nat
      BY <1>3, <2>2, <3>1, GivesNumber DEF PiecesSum
    <3> QED BY <3>2
  <2>3. \A i \in 1..n : i-1 \in counted => i \in counted
    BY <2>2
  <2> HIDE DEF counted
  <2>4. 0..n \subseteq counted
    BY <2>1, <2>3, UpTo
  <2> QED BY <2>4 DEF counted
<1>5. f = [i \in 0..n |-> IF i = 0 THEN 0
                          ELSE IF given[i].chunk = "delta" /\ given[i].index = index
                          THEN f[i - 1] + given[i].pieces
                          ELSE f[i - 1]]
  <2>1. f = [i \in 0..n |-> f[i]]
    BY <1>3 DEF PiecesSum
  <2>2. ASSUME NEW i \in 0..n
        PROVE  f[i] = IF i = 0 THEN 0
                      ELSE IF given[i].chunk = "delta" /\ given[i].index = index
                      THEN f[i - 1] + given[i].pieces
                      ELSE f[i - 1]
    <3>1. CASE i = 0
      BY <3>1, <1>3 DEF PiecesSum
    <3>2. CASE i # 0
      <4>1. i \in 1..n /\ i-1 \in 0..n
        BY <3>2
      <4>2. f[i] = f[i-1] + Gives(given[i], index) /\ f[i-1] \in Nat
        BY <4>1, <1>3, <1>4 DEF PiecesSum
      <4> QED BY <3>2, <4>2 DEF Gives
    <3> QED BY <3>1, <3>2
  <2> QED BY <2>1, <2>2
<1>6. sum = [i \in 0..n |-> IF i = 0 THEN 0
                            ELSE IF given[i].chunk = "delta" /\ given[i].index = index
                            THEN sum[i - 1] + given[i].pieces
                            ELSE sum[i - 1]]
  BY <1>5
<1> HIDE DEF sum
<1>7. \A i \in 0..n : sum[i] = f[i]
  <2> DEFINE same == {i \in 0..n : sum[i] = f[i]}
  <2>1. 0 \in same
    <3>1. 0 \in 0..n
      OBVIOUS
    <3>2. sum[0] = 0 /\ f[0] = 0
      BY <1>3, <1>6, <3>1 DEF PiecesSum
    <3> QED BY <3>1, <3>2
  <2>2. ASSUME NEW i \in 1..n, i-1 \in same PROVE i \in same
    <3>1. i \in 0..n /\ i # 0 /\ sum[i-1] = f[i-1]
      BY <2>2
    <3>2. sum[i] = IF given[i].chunk = "delta" /\ given[i].index = index THEN sum[i - 1] + given[i].pieces ELSE sum[i - 1]
      BY <1>6, <3>1
    <3>3. f[i] = IF given[i].chunk = "delta" /\ given[i].index = index THEN f[i - 1] + given[i].pieces ELSE f[i - 1]
      BY <1>5, <3>1
    <3> QED BY <3>1, <3>2, <3>3
  <2>3. \A i \in 1..n : i-1 \in same => i \in same
    BY <2>2
  <2> HIDE DEF same
  <2>4. 0..n \subseteq same
    BY <2>1, <2>3, UpTo
  <2> QED BY <2>4 DEF same
<1>8. n \in 0..n
  OBVIOUS
<1> QED BY <1>1, <1>2, <1>3, <1>7, <1>8

LEMMA StreamedNumber ==
  ASSUME NEW given \in Seq(Chunk), NEW index
  PROVE  Stream!Streamed(given, index) \in Nat
<1>1. PICK f : PiecesSum(f, given, index, Len(given)) /\ Stream!Streamed(given, index) = f[Len(given)]
  BY StreamedSums
<1>2. PICK n \in Nat : n = Len(given)
  OBVIOUS
<1> DEFINE counted == {i \in 0..n : f[i] \in Nat}
<1>3. 0 \in counted
  <2>1. 0 \in 0..n /\ f[0] = 0
    BY <1>1 DEF PiecesSum
  <2> QED BY <2>1
<1>4. ASSUME NEW i \in 1..n, i-1 \in counted PROVE i \in counted
  <2>1. given[i] \in Chunk
    BY <1>2
  <2>2. f[i] = f[i-1] + Gives(given[i], index) /\ f[i-1] \in Nat /\ Gives(given[i], index) \in Nat
    BY <1>1, <1>2, <1>4, <2>1, GivesNumber DEF PiecesSum
  <2> QED BY <2>2
<1>5. \A i \in 1..n : i-1 \in counted => i \in counted
  BY <1>4
<1> HIDE DEF counted
<1>6. 0..n \subseteq counted
  BY <1>3, <1>5, UpTo
<1>7. n \in 0..n
  OBVIOUS
<1> QED BY <1>1, <1>2, <1>6, <1>7 DEF counted

\* One chunk more.
LEMMA OneChunkMore ==
  ASSUME NEW given \in Seq(Chunk), NEW x \in Chunk
  PROVE  /\ given \o <<x>> \in Seq(Chunk)
         /\ Len(given \o <<x>>) = Len(given) + 1
         /\ \A n \in 1..Len(given) : (given \o <<x>>)[n] = given[n]
         /\ (given \o <<x>>)[Len(given) + 1] = x
         /\ DOMAIN given = 1..Len(given) /\ DOMAIN (given \o <<x>>) = 1..(Len(given) + 1)
OBVIOUS

LEMMA StreamedOneMore ==
  ASSUME NEW given \in Seq(Chunk), NEW x \in Chunk, NEW index
  PROVE  Stream!Streamed(given \o <<x>>, index) = Stream!Streamed(given, index) + Gives(x, index)
<1>1. PICK n \in Nat : n = Len(given)
  OBVIOUS
<1>2. PICK more \in Seq(Chunk) : more = given \o <<x>>
  BY OneChunkMore
<1>3. Len(more) = n + 1 /\ (\A i \in 1..n : more[i] = given[i]) /\ more[n+1] = x
  BY <1>1, <1>2, OneChunkMore
<1>4. PICK f : PiecesSum(f, given, index, n) /\ Stream!Streamed(given, index) = f[n]
  BY <1>1, StreamedSums
<1>5. PICK g : PiecesSum(g, more, index, n + 1) /\ Stream!Streamed(more, index) = g[n + 1]
  BY <1>3, StreamedSums
<1> DEFINE same == {i \in 0..n : g[i] = f[i]}
<1>6. 0 \in same
  <2>1. 0 \in 0..n /\ g[0] = 0 /\ f[0] = 0
    BY <1>4, <1>5 DEF PiecesSum
  <2> QED BY <2>1
<1>7. ASSUME NEW i \in 1..n, i-1 \in same PROVE i \in same
  <2>1. i \in 1..(n+1) /\ i \in 0..n
    OBVIOUS
  <2>2. g[i] = g[i-1] + Gives(more[i], index) /\ f[i] = f[i-1] + Gives(given[i], index)
    BY <1>4, <1>5, <2>1 DEF PiecesSum
  <2> QED BY <1>3, <1>7, <2>1, <2>2
<1>8. \A i \in 1..n : i-1 \in same => i \in same
  BY <1>7
<1> HIDE DEF same
<1>9. 0..n \subseteq same
  BY <1>6, <1>8, UpTo
<1>10. g[n] = f[n]
  <2>1. n \in 0..n
    OBVIOUS
  <2> QED BY <1>9, <2>1 DEF same
<1>11. g[n+1] = g[n] + Gives(x, index)
  <2>1. n+1 \in 1..(n+1) /\ (n+1)-1 = n
    OBVIOUS
  <2> QED BY <1>3, <1>5, <2>1 DEF PiecesSum
<1> QED BY <1>2, <1>4, <1>5, <1>10, <1>11

-----------------------------------------------------------------------------
(* What has been given, a chunk at a time *)

BlocksBegun(given) == {given[n].index : n \in OfKind(given, "start")}
BlocksEnded(given) == {given[n].index : n \in OfKind(given, "end")}
AnswerChunks(given) == {n \in OfKind(given, "start") : given[n].type \in {"text", "tool-call"}}

StartsInOrder(given, next) ==
  /\ IsFiniteSet(OfKind(given, "start")) /\ Cardinality(OfKind(given, "start")) = next
  /\ \A n \in OfKind(given, "start") :
       /\ given[n].index < next
       /\ given[n].index = Cardinality({m \in OfKind(given, "start") : m < n})
WithinBlocks(given) ==
  \A n \in OfKind(given, "delta") \cup OfKind(given, "end") :
    /\ \E m \in OfKind(given, "start") : given[m].index = given[n].index /\ m < n
    /\ \A m \in OfKind(given, "end") : given[m].index = given[n].index => n <= m
EndsAsStreamed(given) ==
  \A n \in OfKind(given, "end") : given[n].pieces = Stream!Streamed(given, given[n].index)
AnswerLast(given) ==
  \A n \in AnswerChunks(given) : \A m \in OfKind(given, "start") : m <= n
NothingAhead(given, next) == \A k \in Nat : k >= next => Stream!Streamed(given, k) = 0

\* The blocks of a message with "next" blocks, some of which are still open.
MessageBlocks(given, next) ==
  /\ given \in Seq(Chunk) /\ next \in Nat
  /\ StartsInOrder(given, next) /\ WithinBlocks(given) /\ EndsAsStreamed(given) /\ AnswerLast(given)
  /\ NothingAhead(given, next)

\* The chunks of a kind are those of before, and the new one if it is of that kind.
LEMMA KindsOneMore ==
  ASSUME NEW given \in Seq(Chunk), NEW x \in Chunk, NEW kind
  PROVE  /\ x.chunk = kind => OfKind(given \o <<x>>, kind) = OfKind(given, kind) \cup {Len(given) + 1}
         /\ x.chunk # kind => OfKind(given \o <<x>>, kind) = OfKind(given, kind)
         /\ OfKind(given, kind) \subseteq 1..Len(given)
         /\ \A n \in OfKind(given, kind) : (given \o <<x>>)[n] = given[n] /\ given[n] \in Chunk /\ given[n].chunk = kind
<1>1. OfKind(given, kind) \subseteq 1..Len(given)
  BY DEF OfKind
<1>2. \A n \in OfKind(given, kind) : (given \o <<x>>)[n] = given[n] /\ given[n] \in Chunk /\ given[n].chunk = kind
  BY <1>1, OneChunkMore DEF OfKind
<1>3. PICK more \in Seq(Chunk) : more = given \o <<x>>
  BY OneChunkMore
<1>4. PICK l \in Nat : l = Len(given)
  OBVIOUS
<1>5. DOMAIN more = 1..(l+1) /\ DOMAIN given = 1..l /\ (\A n \in 1..l : more[n] = given[n]) /\ more[l+1] = x
  BY <1>3, <1>4, OneChunkMore
<1>6. ASSUME NEW n PROVE n \in OfKind(more, kind) <=> n \in OfKind(given, kind) \/ (x.chunk = kind /\ n = l+1)
  <2>1. CASE n \in 1..l
    BY <1>5, <2>1 DEF OfKind
  <2>2. CASE n = l+1
    BY <1>5, <2>2 DEF OfKind
  <2>3. CASE n \notin 1..(l+1)
    <3>1. n \notin 1..l /\ n # l+1
      BY <2>3
    <3> QED BY <1>5, <2>3, <3>1 DEF OfKind
  <2>4. n \in 1..(l+1) => n \in 1..l \/ n = l+1
    OBVIOUS
  <2> QED BY <2>1, <2>2, <2>3, <2>4
<1>7. /\ x.chunk = kind => OfKind(more, kind) = OfKind(given, kind) \cup {l + 1}
      /\ x.chunk # kind => OfKind(more, kind) = OfKind(given, kind)
  BY <1>6
<1> QED BY <1>1, <1>2, <1>3, <1>4, <1>7

\* A chunk that belongs to no block, or opens none, leaves the opened ones as they were.
LEMMA StartsKept ==
  ASSUME NEW given \in Seq(Chunk), NEW x \in Chunk, x.chunk # "start"
  PROVE  /\ OfKind(given \o <<x>>, "start") = OfKind(given, "start")
         /\ BlocksBegun(given \o <<x>>) = BlocksBegun(given)
         /\ AnswerChunks(given \o <<x>>) = AnswerChunks(given)
         /\ \A next : StartsInOrder(given, next) => StartsInOrder(given \o <<x>>, next)
         /\ AnswerLast(given) => AnswerLast(given \o <<x>>)
<1>1. PICK more : more = given \o <<x>>
  OBVIOUS
<1>2. OfKind(more, "start") = OfKind(given, "start")
  BY <1>1, KindsOneMore
<1>3. \A n \in OfKind(given, "start") : more[n] = given[n]
  BY <1>1, KindsOneMore
<1>4. BlocksBegun(more) = BlocksBegun(given) /\ AnswerChunks(more) = AnswerChunks(given)
  BY <1>2, <1>3 DEF BlocksBegun, AnswerChunks
<1>5. \A next : StartsInOrder(given, next) => StartsInOrder(more, next)
  BY <1>2, <1>3 DEF StartsInOrder
<1>6. AnswerLast(given) => AnswerLast(more)
  BY <1>2, <1>4 DEF AnswerLast
<1> QED BY <1>1, <1>2, <1>4, <1>5, <1>6

LEMMA EndsKept ==
  ASSUME NEW given \in Seq(Chunk), NEW x \in Chunk, x.chunk # "end"
  PROVE  OfKind(given \o <<x>>, "end") = OfKind(given, "end") /\ BlocksEnded(given \o <<x>>) = BlocksEnded(given)
<1>1. OfKind(given \o <<x>>, "end") = OfKind(given, "end")
  BY KindsOneMore
<1>2. \A n \in OfKind(given, "end") : (given \o <<x>>)[n] = given[n]
  BY KindsOneMore
<1> QED BY <1>1, <1>2 DEF BlocksEnded

\* Usage and the finish are of no block.
LEMMA OutsideBlocks ==
  ASSUME NEW given, NEW next, MessageBlocks(given, next), NEW x \in UsageChunk \cup FinishChunk
  PROVE  /\ MessageBlocks(given \o <<x>>, next)
         /\ BlocksBegun(given \o <<x>>) = BlocksBegun(given) /\ BlocksEnded(given \o <<x>>) = BlocksEnded(given)
         /\ AnswerChunks(given \o <<x>>) = AnswerChunks(given)
         /\ \A k : Stream!Streamed(given \o <<x>>, k) = Stream!Streamed(given, k)
<1>1. x \in Chunk /\ x.chunk \in {"usage", "finish"} /\ given \in Seq(Chunk)
  BY DEF Chunk, UsageChunk, FinishChunk, MessageBlocks
<1>2. PICK more : more = given \o <<x>>
  OBVIOUS
<1>3. OfKind(more, "delta") = OfKind(given, "delta") /\ OfKind(more, "end") = OfKind(given, "end")
        /\ OfKind(more, "start") = OfKind(given, "start")
  BY <1>1, <1>2, KindsOneMore
<1>4. /\ \A n \in OfKind(given, "delta") : more[n] = given[n]
      /\ \A n \in OfKind(given, "end") : more[n] = given[n]
      /\ \A n \in OfKind(given, "start") : more[n] = given[n]
  BY <1>1, <1>2, KindsOneMore
<1>5. \A k : Stream!Streamed(more, k) = Stream!Streamed(given, k)
  <2> SUFFICES ASSUME NEW k PROVE Stream!Streamed(more, k) = Stream!Streamed(given, k)
    OBVIOUS
  <2>1. Gives(x, k) = 0
    BY <1>1 DEF Gives
  <2> QED BY <1>1, <1>2, <2>1, StreamedOneMore, StreamedNumber
<1>6. WithinBlocks(more)
  BY <1>3, <1>4 DEF MessageBlocks, WithinBlocks
<1>7. EndsAsStreamed(more)
  BY <1>3, <1>4, <1>5 DEF MessageBlocks, EndsAsStreamed
<1>8. NothingAhead(more, next)
  BY <1>5 DEF MessageBlocks, NothingAhead
<1>9. StartsInOrder(more, next) /\ AnswerLast(more) /\ BlocksBegun(more) = BlocksBegun(given) /\ AnswerChunks(more) = AnswerChunks(given)
  BY <1>1, <1>2, StartsKept DEF MessageBlocks
<1>10. BlocksEnded(more) = BlocksEnded(given) /\ more \in Seq(Chunk)
  BY <1>1, <1>2, EndsKept, OneChunkMore
<1> QED BY <1>2, <1>5, <1>6, <1>7, <1>8, <1>9, <1>10 DEF MessageBlocks

\* A text for a block that is open.
LEMMA TextGiven ==
  ASSUME NEW given, NEW next, MessageBlocks(given, next), NEW k \in BlocksBegun(given), k \notin BlocksEnded(given),
         NEW pieces \in Nat
  PROVE  LET more == given \o Stream!Text(k, pieces)
         IN  /\ MessageBlocks(more, next) /\ BlocksBegun(more) = BlocksBegun(given) /\ BlocksEnded(more) = BlocksEnded(given)
             /\ AnswerChunks(more) = AnswerChunks(given)
             /\ OfKind(more, "finish") = OfKind(given, "finish")
             /\ Stream!Streamed(more, k) = Stream!Streamed(given, k) + pieces
             /\ \A j : j # k => Stream!Streamed(more, j) = Stream!Streamed(given, j)
<1>1. given \in Seq(Chunk) /\ next \in Nat
  BY DEF MessageBlocks
<1>2. CASE pieces = 0
  <2>1. given \o Stream!Text(k, pieces) = given
    BY <1>1, <1>2 DEF Stream!Text
  <2> QED BY <2>1, <1>1, <1>2, StreamedNumber
<1>3. CASE pieces # 0
  <2> DEFINE x == [chunk |-> "delta", index |-> k, pieces |-> pieces]
  <2>1. PICK o \in OfKind(given, "start") : given[o].index = k
    BY DEF BlocksBegun
  <2>2. o \in 1..Len(given) /\ k \in Nat /\ k < next
    <3>1. given[o] \in Chunk /\ given[o].chunk = "start" /\ o \in 1..Len(given)
      BY <1>1, <2>1 DEF OfKind
    <3> QED BY <2>1, <3>1, ChunkTyped DEF MessageBlocks, StartsInOrder
  <2>3. x \in Chunk /\ x.chunk = "delta" /\ x.index = k /\ x.pieces = pieces
    BY <2>2 DEF Chunk, TextChunk
  <2>4. Stream!Text(k, pieces) = <<x>>
    BY <1>3 DEF Stream!Text
  <2> HIDE DEF x
  <2>5. PICK more : more = given \o <<x>>
    OBVIOUS
  <2>6. PICK l \in Nat : l = Len(given)
    BY <1>1
  <2>7. /\ OfKind(more, "delta") = OfKind(given, "delta") \cup {l+1} /\ OfKind(more, "end") = OfKind(given, "end")
        /\ OfKind(more, "start") = OfKind(given, "start") /\ OfKind(more, "finish") = OfKind(given, "finish")
    <3>1. OfKind(more, "delta") = OfKind(given, "delta") \cup {l+1}
      <4>1. OfKind(given \o <<x>>, "delta") = OfKind(given, "delta") \cup {Len(given) + 1}
        BY <1>1, <2>3, KindsOneMore
      <4> QED BY <4>1, <2>5, <2>6
    <3>2. \A kind : kind # "delta" => OfKind(more, kind) = OfKind(given, kind)
      BY <1>1, <2>3, <2>5, KindsOneMore
    <3> QED BY <3>1, <3>2
  <2>8. /\ \A n \in OfKind(given, "delta") : more[n] = given[n] /\ n \in 1..l
        /\ \A n \in OfKind(given, "end") : more[n] = given[n] /\ n \in 1..l
        /\ \A n \in OfKind(given, "start") : more[n] = given[n] /\ n \in 1..l
        /\ more[l+1] = x
    BY <1>1, <2>3, <2>5, <2>6, KindsOneMore, OneChunkMore
  <2>9. \A j : Stream!Streamed(more, j) = Stream!Streamed(given, j) + (IF j = k THEN pieces ELSE 0)
    <3> SUFFICES ASSUME NEW j PROVE Stream!Streamed(more, j) = Stream!Streamed(given, j) + (IF j = k THEN pieces ELSE 0)
      OBVIOUS
    <3>1. Gives(x, j) = IF j = k THEN pieces ELSE 0
      BY <2>3 DEF Gives
    <3> QED BY <1>1, <2>3, <2>5, <3>1, StreamedOneMore
  <2>10. \A j : Stream!Streamed(given, j) \in Nat
    BY <1>1, StreamedNumber
  <2>11. WithinBlocks(more)
    <3> SUFFICES ASSUME NEW n \in OfKind(more, "delta") \cup OfKind(more, "end")
                 PROVE  /\ \E m \in OfKind(more, "start") : more[m].index = more[n].index /\ m < n
                        /\ \A m \in OfKind(more, "end") : more[m].index = more[n].index => n <= m
      BY DEF WithinBlocks
    <3>1. CASE n = l+1
      <4>1. \A m \in OfKind(given, "end") : given[m].index # k
        BY DEF BlocksEnded
      <4>2. o \in OfKind(more, "start") /\ more[o].index = k /\ o < l+1
        BY <2>1, <2>2, <2>6, <2>7, <2>8
      <4> QED BY <4>1, <4>2, <3>1, <2>3, <2>7, <2>8
    <3>2. CASE n # l+1
      <4>1. n \in OfKind(given, "delta") \cup OfKind(given, "end") /\ more[n] = given[n]
        BY <3>2, <2>7, <2>8
      <4> QED BY <4>1, <2>7, <2>8 DEF MessageBlocks, WithinBlocks
    <3> QED BY <3>1, <3>2
  <2>12. EndsAsStreamed(more)
    <3> SUFFICES ASSUME NEW n \in OfKind(given, "end") PROVE given[n].pieces = Stream!Streamed(more, given[n].index)
      BY <2>7, <2>8 DEF EndsAsStreamed
    <3>1. given[n].index # k
      BY DEF BlocksEnded
    <3>2. Stream!Streamed(more, given[n].index) = Stream!Streamed(given, given[n].index)
      BY <2>9, <2>10, <3>1
    <3> QED BY <3>2 DEF MessageBlocks, EndsAsStreamed
  <2>13. NothingAhead(more, next)
    <3> SUFFICES ASSUME NEW j \in Nat, j >= next PROVE Stream!Streamed(more, j) = 0
      BY DEF NothingAhead
    <3>1. j # k
      BY <1>1, <2>2
    <3> QED BY <2>9, <3>1 DEF MessageBlocks, NothingAhead
  <2>14. StartsInOrder(more, next) /\ AnswerLast(more) /\ BlocksBegun(more) = BlocksBegun(given) /\ AnswerChunks(more) = AnswerChunks(given)
    BY <1>1, <2>3, <2>5, StartsKept DEF MessageBlocks
  <2>15. BlocksEnded(more) = BlocksEnded(given) /\ more \in Seq(Chunk)
    BY <1>1, <2>3, <2>5, EndsKept, OneChunkMore
  <2>16. MessageBlocks(more, next)
    BY <1>1, <2>11, <2>12, <2>13, <2>14, <2>15 DEF MessageBlocks
  <2> QED BY <2>4, <2>5, <2>7, <2>9, <2>10, <2>14, <2>15, <2>16
<1> QED BY <1>2, <1>3

\* A block ends as it was streamed.
LEMMA BlockEnded ==
  ASSUME NEW given, NEW next, MessageBlocks(given, next), NEW k \in BlocksBegun(given), k \notin BlocksEnded(given)
  PROVE  LET more == given \o Stream!End(k, Stream!Streamed(given, k))
         IN  /\ MessageBlocks(more, next) /\ BlocksBegun(more) = BlocksBegun(given) /\ BlocksEnded(more) = BlocksEnded(given) \cup {k}
             /\ AnswerChunks(more) = AnswerChunks(given)
             /\ OfKind(more, "finish") = OfKind(given, "finish")
             /\ \A j : Stream!Streamed(more, j) = Stream!Streamed(given, j)
<1>1. given \in Seq(Chunk) /\ next \in Nat
  BY DEF MessageBlocks
<1>2. PICK pieces \in Nat : pieces = Stream!Streamed(given, k)
  BY <1>1, StreamedNumber
<1> DEFINE x == [chunk |-> "end", index |-> k, pieces |-> pieces]
<1>3. PICK o \in OfKind(given, "start") : given[o].index = k
  BY DEF BlocksBegun
<1>4. o \in 1..Len(given) /\ k \in Nat
  <2>1. given[o] \in Chunk /\ given[o].chunk = "start" /\ o \in 1..Len(given)
    BY <1>1, <1>3 DEF OfKind
  <2> QED BY <1>3, <2>1, ChunkTyped
<1>5. x \in Chunk /\ x.chunk = "end" /\ x.index = k /\ x.pieces = pieces
  BY <1>4 DEF Chunk, EndChunk
<1>6. Stream!End(k, Stream!Streamed(given, k)) = <<x>>
  BY <1>2 DEF Stream!End
<1> HIDE DEF x
<1>7. PICK more : more = given \o <<x>>
  OBVIOUS
<1>8. PICK l \in Nat : l = Len(given)
  BY <1>1
<1>9. /\ OfKind(more, "end") = OfKind(given, "end") \cup {l+1} /\ OfKind(more, "delta") = OfKind(given, "delta")
      /\ OfKind(more, "start") = OfKind(given, "start") /\ OfKind(more, "finish") = OfKind(given, "finish")
  <2>1. OfKind(more, "end") = OfKind(given, "end") \cup {l+1}
    <3>1. OfKind(given \o <<x>>, "end") = OfKind(given, "end") \cup {Len(given) + 1}
      BY <1>1, <1>5, KindsOneMore
    <3> QED BY <3>1, <1>7, <1>8
  <2>2. \A kind : kind # "end" => OfKind(more, kind) = OfKind(given, kind)
    BY <1>1, <1>5, <1>7, KindsOneMore
  <2> QED BY <2>1, <2>2
<1>10. /\ \A n \in OfKind(given, "delta") : more[n] = given[n] /\ n \in 1..l
       /\ \A n \in OfKind(given, "end") : more[n] = given[n] /\ n \in 1..l
       /\ \A n \in OfKind(given, "start") : more[n] = given[n] /\ n \in 1..l
       /\ more[l+1] = x
  BY <1>1, <1>5, <1>7, <1>8, KindsOneMore, OneChunkMore
<1>11. \A j : Stream!Streamed(more, j) = Stream!Streamed(given, j)
  <2> SUFFICES ASSUME NEW j PROVE Stream!Streamed(more, j) = Stream!Streamed(given, j)
    OBVIOUS
  <2>1. Gives(x, j) = 0
    BY <1>5 DEF Gives
  <2> QED BY <1>1, <1>5, <1>7, <2>1, StreamedOneMore, StreamedNumber
<1>12. WithinBlocks(more)
  <2> SUFFICES ASSUME NEW n \in OfKind(more, "delta") \cup OfKind(more, "end")
               PROVE  /\ \E m \in OfKind(more, "start") : more[m].index = more[n].index /\ m < n
                      /\ \A m \in OfKind(more, "end") : more[m].index = more[n].index => n <= m
    BY DEF WithinBlocks
  <2>1. CASE n = l+1
    <3>1. \A m \in OfKind(given, "end") : given[m].index # k
      BY DEF BlocksEnded
    <3>2. o \in OfKind(more, "start") /\ more[o].index = k /\ o < l+1
      BY <1>3, <1>4, <1>8, <1>9, <1>10
    <3>3. more[n].index = k
      BY <2>1, <1>5, <1>10
    <3>4. \A m \in OfKind(more, "end") : more[m].index = k => m = l+1
      BY <3>1, <1>9, <1>10
    <3>5. n <= l+1
      BY <2>1
    <3> QED BY <3>2, <3>3, <3>4, <3>5, <2>1
  <2>2. CASE n # l+1
    <3>1. n \in OfKind(given, "delta") \cup OfKind(given, "end") /\ more[n] = given[n] /\ n \in 1..l
      BY <2>2, <1>9, <1>10
    <3>2. n <= l+1
      BY <3>1
    <3> QED BY <3>1, <3>2, <1>9, <1>10 DEF MessageBlocks, WithinBlocks
  <2> QED BY <2>1, <2>2
<1>13. EndsAsStreamed(more)
  <2>1. \A n \in OfKind(given, "end") : given[n].pieces = Stream!Streamed(given, given[n].index)
    BY DEF MessageBlocks, EndsAsStreamed
  <2>2. x.pieces = Stream!Streamed(given, x.index)
    BY <1>2, <1>5
  <2> QED BY <2>1, <2>2, <1>9, <1>10, <1>11 DEF EndsAsStreamed
<1>14. NothingAhead(more, next)
  BY <1>11 DEF MessageBlocks, NothingAhead
<1>15. StartsInOrder(more, next) /\ AnswerLast(more) /\ BlocksBegun(more) = BlocksBegun(given) /\ AnswerChunks(more) = AnswerChunks(given)
  BY <1>1, <1>5, <1>7, StartsKept DEF MessageBlocks
<1>16. more \in Seq(Chunk)
  BY <1>1, <1>5, <1>7, OneChunkMore
<1>17. BlocksEnded(more) = BlocksEnded(given) \cup {k}
  BY <1>5, <1>9, <1>10 DEF BlocksEnded
<1>18. MessageBlocks(more, next)
  BY <1>1, <1>12, <1>13, <1>14, <1>15, <1>16 DEF MessageBlocks
<1> QED BY <1>6, <1>7, <1>9, <1>11, <1>15, <1>17, <1>18

\* The next block opens; after an answer none does.
LEMMA BlockBegun ==
  ASSUME NEW given, NEW next, MessageBlocks(given, next), AnswerChunks(given) = {},
         NEW type \in {"reasoning", "image", "text", "tool-call"}
  PROVE  LET more == given \o Stream!Start(next, type)
         IN  /\ MessageBlocks(more, next + 1) /\ BlocksBegun(more) = BlocksBegun(given) \cup {next} /\ BlocksEnded(more) = BlocksEnded(given)
             /\ type \in {"reasoning", "image"} => AnswerChunks(more) = {}
             /\ OfKind(more, "finish") = OfKind(given, "finish")
             /\ \A j : Stream!Streamed(more, j) = Stream!Streamed(given, j)
             /\ Stream!Streamed(more, next) = 0 /\ next \notin BlocksEnded(more)
<1>1. given \in Seq(Chunk) /\ next \in Nat
  BY DEF MessageBlocks
<1> DEFINE x == [chunk |-> "start", index |-> next, type |-> type]
<1>2. x \in Chunk /\ x.chunk = "start" /\ x.index = next /\ x.type = type
  BY <1>1 DEF Chunk, StartChunk
<1>3. Stream!Start(next, type) = <<x>>
  BY DEF Stream!Start
<1> HIDE DEF x
<1>4. PICK more : more = given \o <<x>>
  OBVIOUS
<1>5. PICK l \in Nat : l = Len(given)
  BY <1>1
<1>6. /\ OfKind(more, "start") = OfKind(given, "start") \cup {l+1} /\ OfKind(more, "delta") = OfKind(given, "delta")
      /\ OfKind(more, "end") = OfKind(given, "end") /\ OfKind(more, "finish") = OfKind(given, "finish")
  <2>1. OfKind(more, "start") = OfKind(given, "start") \cup {l+1}
    <3>1. OfKind(given \o <<x>>, "start") = OfKind(given, "start") \cup {Len(given) + 1}
      BY <1>1, <1>2, KindsOneMore
    <3> QED BY <3>1, <1>4, <1>5
  <2>2. \A kind : kind # "start" => OfKind(more, kind) = OfKind(given, kind)
    BY <1>1, <1>2, <1>4, KindsOneMore
  <2> QED BY <2>1, <2>2
<1>7. /\ \A n \in OfKind(given, "delta") : more[n] = given[n] /\ n \in 1..l
      /\ \A n \in OfKind(given, "end") : more[n] = given[n] /\ n \in 1..l
      /\ \A n \in OfKind(given, "start") : more[n] = given[n] /\ n \in 1..l
      /\ more[l+1] = x
  BY <1>1, <1>2, <1>4, <1>5, KindsOneMore, OneChunkMore
<1>8. \A j : Stream!Streamed(more, j) = Stream!Streamed(given, j)
  <2> SUFFICES ASSUME NEW j PROVE Stream!Streamed(more, j) = Stream!Streamed(given, j)
    OBVIOUS
  <2>1. Gives(x, j) = 0
    BY <1>2 DEF Gives
  <2> QED BY <1>1, <1>2, <1>4, <2>1, StreamedOneMore, StreamedNumber
<1>9. StartsInOrder(more, next + 1)
  <2>1. IsFiniteSet(OfKind(given, "start")) /\ Cardinality(OfKind(given, "start")) = next
    BY DEF MessageBlocks, StartsInOrder
  <2>2. l+1 \notin OfKind(given, "start")
    BY <1>5, <1>7
  <2>3. IsFiniteSet(OfKind(more, "start")) /\ Cardinality(OfKind(more, "start")) = next + 1
    BY <1>6, <2>1, <2>2, FS_AddElement
  <2>4. ASSUME NEW n \in OfKind(more, "start")
        PROVE  more[n].index < next + 1 /\ more[n].index = Cardinality({m \in OfKind(more, "start") : m < n})
    <3>1. CASE n = l+1
      <4>1. {m \in OfKind(more, "start") : m < n} = OfKind(given, "start")
        <5>1. \A m \in OfKind(given, "start") : m < l+1
          BY <1>7
        <5>2. ~(l+1 < l+1)
          OBVIOUS
        <5> QED BY <3>1, <5>1, <5>2, <1>6
      <4>2. more[n].index = next
        BY <3>1, <1>2, <1>7
      <4>3. next < next + 1
        BY <1>1
      <4> QED BY <4>1, <4>2, <4>3, <2>1
    <3>2. CASE n # l+1
      <4>1. n \in OfKind(given, "start") /\ more[n] = given[n] /\ n \in 1..l
        BY <3>2, <1>6, <1>7
      <4>2. {m \in OfKind(more, "start") : m < n} = {m \in OfKind(given, "start") : m < n}
        BY <4>1, <1>5, <1>6
      <4>3. given[n].index \in Nat
        <5>1. given[n] \in Chunk /\ given[n].chunk = "start"
          BY <4>1, <1>1 DEF OfKind
        <5> QED BY <5>1, ChunkTyped
      <4>4. given[n].index < next /\ given[n].index = Cardinality({m \in OfKind(given, "start") : m < n})
        BY <4>1 DEF MessageBlocks, StartsInOrder
      <4>5. more[n].index < next + 1
        BY <4>1, <4>3, <4>4, <1>1
      <4> QED BY <4>1, <4>2, <4>4, <4>5
    <3> QED BY <3>1, <3>2
  <2> QED BY <2>3, <2>4 DEF StartsInOrder
<1>10. WithinBlocks(more)
  <2> SUFFICES ASSUME NEW n \in OfKind(given, "delta") \cup OfKind(given, "end")
               PROVE  /\ \E m \in OfKind(more, "start") : more[m].index = more[n].index /\ m < n
                      /\ \A m \in OfKind(more, "end") : more[m].index = more[n].index => n <= m
    BY <1>6 DEF WithinBlocks
  <2>1. more[n] = given[n]
    BY <1>7
  <2>2. PICK m \in OfKind(given, "start") : given[m].index = given[n].index /\ m < n
    BY DEF MessageBlocks, WithinBlocks
  <2>3. m \in OfKind(more, "start") /\ more[m] = given[m]
    BY <1>6, <1>7
  <2>4. \A e \in OfKind(given, "end") : given[e].index = given[n].index => n <= e
    BY DEF MessageBlocks, WithinBlocks
  <2> QED BY <2>1, <2>2, <2>3, <2>4, <1>6, <1>7
<1>11. EndsAsStreamed(more)
  BY <1>6, <1>7, <1>8 DEF MessageBlocks, EndsAsStreamed
<1>12. NothingAhead(more, next + 1)
  BY <1>1, <1>8 DEF MessageBlocks, NothingAhead
<1>13. AnswerChunks(more) = IF type \in {"text", "tool-call"} THEN {l+1} ELSE {}
  BY <1>2, <1>6, <1>7 DEF AnswerChunks
<1>14. AnswerLast(more)
  BY <1>5, <1>6, <1>7, <1>13 DEF AnswerLast
<1>15. more \in Seq(Chunk) /\ BlocksEnded(more) = BlocksEnded(given)
  BY <1>1, <1>2, <1>4, EndsKept, OneChunkMore
<1>16. BlocksBegun(more) = BlocksBegun(given) \cup {next}
  BY <1>2, <1>6, <1>7 DEF BlocksBegun
<1>17. Stream!Streamed(more, next) = 0
  BY <1>1, <1>8 DEF MessageBlocks, NothingAhead
<1>18. next \notin BlocksEnded(given)
  <2> SUFFICES ASSUME NEW n \in OfKind(given, "end"), given[n].index = next PROVE FALSE
    BY DEF BlocksEnded
  <2>1. PICK m \in OfKind(given, "start") : given[m].index = next
    BY DEF MessageBlocks, WithinBlocks
  <2>2. given[m].index < next
    BY DEF MessageBlocks, StartsInOrder
  <2> QED BY <2>1, <2>2, <1>1
<1>19. MessageBlocks(more, next + 1)
  BY <1>1, <1>9, <1>10, <1>11, <1>12, <1>14, <1>15 DEF MessageBlocks
<1> QED BY <1>3, <1>4, <1>6, <1>8, <1>13, <1>15, <1>16, <1>17, <1>18, <1>19

-----------------------------------------------------------------------------
(* The message as DSH reads it *)

WellFormedOf(given, finished) ==
  /\ \A n \in OfKind(given, "start") : given[n].index = Cardinality({m \in OfKind(given, "start") : m < n})
  /\ \A n \in OfKind(given, "delta") \cup OfKind(given, "end") :
       /\ \E m \in OfKind(given, "start") : given[m].index = given[n].index /\ m < n
       /\ \A m \in OfKind(given, "end") : given[m].index = given[n].index => n <= m
  /\ \A n \in OfKind(given, "end") : given[n].pieces = Stream!Streamed(given, given[n].index)
  /\ \A n \in OfKind(given, "start") : given[n].type \in {"text", "tool-call"} =>
       \A m \in OfKind(given, "start") : m <= n
  /\ finished <=> OfKind(given, "finish") # {}
  /\ \A n \in OfKind(given, "finish") :
       /\ n = Len(given)
       /\ given[n].reason # "max-tokens" =>
            \A m \in OfKind(given, "start") : \E e \in OfKind(given, "end") : given[e].index = given[m].index

LEMMA MessageWhole ==
  ASSUME NEW given, NEW next, MessageBlocks(given, next), OfKind(given, "finish") = {}
  PROVE  WellFormedOf(given, FALSE)
<1>1. \A n \in OfKind(given, "start") : given[n].index = Cardinality({m \in OfKind(given, "start") : m < n})
  BY DEF MessageBlocks, StartsInOrder
<1>2. \A n \in OfKind(given, "delta") \cup OfKind(given, "end") :
        /\ \E m \in OfKind(given, "start") : given[m].index = given[n].index /\ m < n
        /\ \A m \in OfKind(given, "end") : given[m].index = given[n].index => n <= m
  BY DEF MessageBlocks, WithinBlocks
<1>3. \A n \in OfKind(given, "end") : given[n].pieces = Stream!Streamed(given, given[n].index)
  BY DEF MessageBlocks, EndsAsStreamed
<1>4. \A n \in OfKind(given, "start") : given[n].type \in {"text", "tool-call"} =>
        \A m \in OfKind(given, "start") : m <= n
  BY DEF MessageBlocks, AnswerLast, AnswerChunks
<1> QED BY <1>1, <1>2, <1>3, <1>4 DEF WellFormedOf

LEMMA WholeAtEnd ==
  ASSUME NEW given, NEW next, MessageBlocks(given, next), OfKind(given, "finish") = {},
         NEW reason \in {"stop", "tool-calls", "max-tokens"},
         reason # "max-tokens" => BlocksBegun(given) \subseteq BlocksEnded(given)
  PROVE  WellFormedOf(given \o <<[chunk |-> "finish", reason |-> reason]>>, TRUE)
<1> DEFINE x == [chunk |-> "finish", reason |-> reason]
<1>1. x \in FinishChunk /\ x \in Chunk /\ x.chunk = "finish" /\ x.reason = reason
  BY DEF Chunk, FinishChunk
<1>2. given \in Seq(Chunk)
  BY DEF MessageBlocks
<1> HIDE DEF x
<1>3. PICK more : more = given \o <<x>>
  OBVIOUS
<1>4. PICK l \in Nat : l = Len(given)
  BY <1>2
<1>5. MessageBlocks(more, next) /\ BlocksBegun(more) = BlocksBegun(given) /\ BlocksEnded(more) = BlocksEnded(given)
  BY <1>1, <1>3, OutsideBlocks
<1>6. OfKind(more, "finish") = {l+1} /\ Len(more) = l+1 /\ more[l+1] = x
  <2>1. OfKind(given \o <<x>>, "finish") = OfKind(given, "finish") \cup {Len(given) + 1}
    BY <1>1, <1>2, KindsOneMore
  <2> QED BY <1>1, <1>2, <1>3, <1>4, <2>1, OneChunkMore
<1>7. \A n \in OfKind(more, "start") : more[n].index = Cardinality({m \in OfKind(more, "start") : m < n})
  BY <1>5 DEF MessageBlocks, StartsInOrder
<1>8. \A n \in OfKind(more, "delta") \cup OfKind(more, "end") :
        /\ \E m \in OfKind(more, "start") : more[m].index = more[n].index /\ m < n
        /\ \A m \in OfKind(more, "end") : more[m].index = more[n].index => n <= m
  BY <1>5 DEF MessageBlocks, WithinBlocks
<1>9. \A n \in OfKind(more, "end") : more[n].pieces = Stream!Streamed(more, more[n].index)
  BY <1>5 DEF MessageBlocks, EndsAsStreamed
<1>10. \A n \in OfKind(more, "start") : more[n].type \in {"text", "tool-call"} =>
        \A m \in OfKind(more, "start") : m <= n
  BY <1>5 DEF MessageBlocks, AnswerLast, AnswerChunks
<1>11. more[l+1].reason # "max-tokens" =>
         \A m \in OfKind(more, "start") : \E e \in OfKind(more, "end") : more[e].index = more[m].index
  <2> SUFFICES ASSUME reason # "max-tokens", NEW m \in OfKind(more, "start")
               PROVE  \E e \in OfKind(more, "end") : more[e].index = more[m].index
    BY <1>1, <1>6
  <2>1. more[m].index \in BlocksEnded(more)
    BY <1>5 DEF BlocksBegun
  <2> QED BY <2>1 DEF BlocksEnded
<1>12. WellFormedOf(more, TRUE)
  BY <1>6, <1>7, <1>8, <1>9, <1>10, <1>11 DEF WellFormedOf
<1> QED BY <1>3, <1>12 DEF x

-----------------------------------------------------------------------------
(* The turn *)

BlockState == [index : Nat \cup {None}, phase : {"commentary", "answer", None}, pieces : Nat, ended : BOOLEAN]
BlockMap == UNION {[items -> BlockState] : items \in SUBSET Item}
TurnState ==
  [stage : {"streaming", "failed", "finished"}, constrained : BOOLEAN, blocks : BlockMap, next : Nat,
   answerItem : Item \cup {None}, answer : {"final", "blank", "tool_call", None},
   images : SUBSET Item, finalOutput : BOOLEAN, usage : BOOLEAN, retrying : Nat]
VendorState == [kind : [Item -> {"commentary", "answer", "image"}], complete : SUBSET Item]

\* The blocks that are shown: a commentary's, which has been given what it holds.
ShownBlock(b, i, seen, given) ==
  /\ b.phase = "commentary" <=> b.index # None
  /\ b.index # None => /\ seen.kind[i] = "commentary" /\ b.index \in BlocksBegun(given)
                       /\ Stream!Streamed(given, b.index) = b.pieces
                       /\ b.ended <=> b.index \in BlocksEnded(given)
  /\ b.ended => i \in seen.complete
BlocksShown(blocks, seen, given) ==
  /\ \A i \in DOMAIN blocks : ShownBlock(blocks[i], i, seen, given)
  /\ \A i \in DOMAIN blocks, j \in DOMAIN blocks : i # j /\ blocks[i].index # None => blocks[i].index # blocks[j].index
  /\ \A k \in BlocksBegun(given) : k \in BlocksEnded(given) \/ \E i \in DOMAIN blocks : blocks[i].index = k /\ ~blocks[i].ended

MessageOpen(blocks, next, seen, given) ==
  /\ MessageBlocks(given, next) /\ OfKind(given, "finish") = {} /\ AnswerChunks(given) = {}
  /\ BlocksShown(blocks, seen, given)

StreamTyped == turn \in TurnState /\ vendor \in VendorState
StreamInv ==
  /\ StreamTyped
  /\ turn.stage # "finished" => MessageOpen(turn.blocks, turn.next, vendor, chunks)
  /\ turn.stage = "finished" => WellFormedOf(chunks, TRUE)

LEMMA WellFormedHolds == StreamInv => Stream!WellFormed
<1> SUFFICES ASSUME StreamInv PROVE Stream!WellFormed
  OBVIOUS
<1>1. WellFormedOf(chunks, turn.stage = "finished")
  <2>1. CASE turn.stage = "finished"
    BY <2>1 DEF StreamInv
  <2>2. CASE turn.stage # "finished"
    <3>1. WellFormedOf(chunks, FALSE)
      BY <2>2, MessageWhole DEF StreamInv, MessageOpen
    <3> QED BY <2>2, <3>1
  <2> QED BY <2>1, <2>2
<1>2. \A kind : Stream!Of(kind) = OfKind(chunks, kind)
  BY DEF Stream!Of, OfKind
<1>3. \A n : Stream!Opening(n) = {m \in OfKind(chunks, "start") : chunks[m].index = chunks[n].index}
  BY <1>2 DEF Stream!Opening
<1> HIDE DEF Stream!Of, Stream!Opening
<1> QED BY <1>1, <1>2, <1>3, SameCount DEF Stream!WellFormed, WellFormedOf

LEMMA StreamInit == Stream!Init => StreamInv
<1> SUFFICES ASSUME Stream!Init PROVE StreamInv
  OBVIOUS
<1>1. PICK constrained \in BOOLEAN :
        turn = [stage |-> "streaming", constrained |-> constrained, blocks |-> [i \in {} |-> None], next |-> 0,
                answerItem |-> None, answer |-> None, images |-> {}, finalOutput |-> FALSE,
                usage |-> FALSE, retrying |-> 0]
  BY DEF Stream!Init
<1>2. [i \in {} |-> None] \in BlockMap
  <2>1. [i \in {} |-> None] \in [{} -> BlockState]
    OBVIOUS
  <2> QED BY <2>1 DEF BlockMap
<1>3. turn \in TurnState
  BY <1>1, <1>2 DEF TurnState
<1>4. vendor \in VendorState
  BY DEF Stream!Init, VendorState
<1>5. chunks = <<>> /\ chunks \in Seq(Chunk)
  BY DEF Stream!Init
<1>6. \A kind : OfKind(chunks, kind) = {}
  BY <1>5 DEF OfKind
<1>7. \A k : Stream!Streamed(chunks, k) = 0
  <2> SUFFICES ASSUME NEW k PROVE Stream!Streamed(chunks, k) = 0
    OBVIOUS
  <2>1. PICK f : PiecesSum(f, chunks, k, Len(chunks)) /\ Stream!Streamed(chunks, k) = f[Len(chunks)]
    BY <1>5, StreamedSums
  <2>2. Len(chunks) = 0
    BY <1>5
  <2> QED BY <2>1, <2>2 DEF PiecesSum
<1>8. MessageBlocks(chunks, 0)
  <2>1. StartsInOrder(chunks, 0)
    BY <1>6, FS_EmptySet DEF StartsInOrder
  <2>2. WithinBlocks(chunks) /\ EndsAsStreamed(chunks) /\ AnswerLast(chunks)
    BY <1>6 DEF WithinBlocks, EndsAsStreamed, AnswerLast, AnswerChunks
  <2> QED BY <1>5, <1>7, <2>1, <2>2 DEF MessageBlocks, NothingAhead
<1>9. BlocksShown(turn.blocks, vendor, chunks)
  BY <1>1, <1>6 DEF BlocksShown, BlocksBegun
<1>10. AnswerChunks(chunks) = {}
  BY <1>6 DEF AnswerChunks
<1> QED BY <1>1, <1>3, <1>4, <1>6, <1>8, <1>9, <1>10 DEF StreamInv, StreamTyped, MessageOpen

-----------------------------------------------------------------------------
(* Steps *)

LEMMA NewBlockTyped ==
  ASSUME turn \in TurnState, NEW i \in Item, NEW index \in Nat \cup {None},
         NEW phase \in {"commentary", "answer", None}, NEW pieces \in Nat, NEW ended \in BOOLEAN
  PROVE  /\ Stream!NewBlock(i, index, phase, pieces, ended) \in BlockMap
         /\ DOMAIN Stream!NewBlock(i, index, phase, pieces, ended) = DOMAIN turn.blocks \cup {i}
         /\ Stream!NewBlock(i, index, phase, pieces, ended)[i] = [index |-> index, phase |-> phase, pieces |-> pieces, ended |-> ended]
         /\ \A j \in DOMAIN turn.blocks : j # i => Stream!NewBlock(i, index, phase, pieces, ended)[j] = turn.blocks[j]
<1>1. PICK items \in SUBSET Item : turn.blocks \in [items -> BlockState]
  BY DEF TurnState, BlockMap
<1> DEFINE b == [index |-> index, phase |-> phase, pieces |-> pieces, ended |-> ended]
<1>2. b \in BlockState
  BY DEF BlockState
<1>3. Stream!NewBlock(i, index, phase, pieces, ended) = [j \in items \cup {i} |-> IF j = i THEN b ELSE turn.blocks[j]]
  BY <1>1 DEF Stream!NewBlock
<1> HIDE DEF b
<1>4. Stream!NewBlock(i, index, phase, pieces, ended) \in [items \cup {i} -> BlockState]
  BY <1>1, <1>2, <1>3
<1>5. items \cup {i} \in SUBSET Item
  OBVIOUS
<1>6. Stream!NewBlock(i, index, phase, pieces, ended) \in BlockMap
  BY <1>4, <1>5 DEF BlockMap
<1> QED BY <1>1, <1>3, <1>6 DEF b

LEMMA BlockTyped ==
  ASSUME NEW blocks \in BlockMap, NEW i \in DOMAIN blocks
  PROVE  /\ i \in Item /\ blocks[i] \in BlockState
         /\ blocks[i].index \in Nat \cup {None} /\ blocks[i].phase \in {"commentary", "answer", None}
         /\ blocks[i].pieces \in Nat /\ blocks[i].ended \in BOOLEAN
<1>1. PICK items \in SUBSET Item : blocks \in [items -> BlockState]
  BY DEF BlockMap
<1>2. i \in items /\ blocks[i] \in BlockState
  BY <1>1
<1> QED BY <1>2 DEF BlockState

\* One block becomes b, the others stay as they are.
LEMMA ShownChanges ==
  ASSUME NEW blocks, NEW seen, NEW given, BlocksShown(blocks, seen, given),
         NEW i, NEW b, NEW changed, DOMAIN changed = DOMAIN blocks \cup {i}, changed[i] = b,
         \A j \in DOMAIN blocks : j # i => changed[j] = blocks[j],
         NEW after, after.kind = seen.kind, seen.complete \subseteq after.complete, NEW more,
         ShownBlock(b, i, after, more),
         \A j \in DOMAIN blocks : j # i /\ blocks[j].index # None =>
           /\ blocks[j].index # b.index
           /\ blocks[j].index \in BlocksBegun(more)
           /\ Stream!Streamed(more, blocks[j].index) = Stream!Streamed(given, blocks[j].index)
           /\ blocks[j].index \in BlocksEnded(more) <=> blocks[j].index \in BlocksEnded(given),
         \A k \in BlocksBegun(more) :
           \/ k \in BlocksEnded(more)
           \/ b.index = k /\ ~b.ended
           \/ k \in BlocksBegun(given) /\ k \notin BlocksEnded(given) /\ (i \in DOMAIN blocks => blocks[i].index # k)
  PROVE  BlocksShown(changed, after, more)
<1>1. ASSUME NEW j \in DOMAIN changed PROVE ShownBlock(changed[j], j, after, more)
  <2>1. CASE j = i
    BY <2>1
  <2>2. CASE j # i
    <3>1. j \in DOMAIN blocks /\ changed[j] = blocks[j] /\ ShownBlock(blocks[j], j, seen, given)
      BY <2>2 DEF BlocksShown
    <3> QED BY <2>2, <3>1 DEF ShownBlock
  <2> QED BY <2>1, <2>2
<1>2. ASSUME NEW j \in DOMAIN changed, NEW l \in DOMAIN changed, j # l, changed[j].index # None
      PROVE  changed[j].index # changed[l].index
  <2>1. CASE j = i
    <3>1. l \in DOMAIN blocks /\ l # i /\ changed[l] = blocks[l]
      BY <1>2, <2>1
    <3> QED BY <1>2, <2>1, <3>1
  <2>2. CASE j # i
    <3>1. j \in DOMAIN blocks /\ changed[j] = blocks[j]
      BY <1>2, <2>2
    <3>2. CASE l = i
      BY <1>2, <2>2, <3>1, <3>2
    <3>3. CASE l # i
      <4>1. l \in DOMAIN blocks /\ changed[l] = blocks[l]
        BY <3>3
      <4> QED BY <1>2, <3>1, <4>1 DEF BlocksShown
    <3> QED BY <3>2, <3>3
  <2> QED BY <2>1, <2>2
<1>3. ASSUME NEW k \in BlocksBegun(more), k \notin BlocksEnded(more)
      PROVE  \E j \in DOMAIN changed : changed[j].index = k /\ ~changed[j].ended
  <2>1. CASE b.index = k /\ ~b.ended
    BY <2>1
  <2>2. CASE k \in BlocksBegun(given) /\ k \notin BlocksEnded(given) /\ (i \in DOMAIN blocks => blocks[i].index # k)
    <3>1. PICK j \in DOMAIN blocks : blocks[j].index = k /\ ~blocks[j].ended
      BY <2>2 DEF BlocksShown
    <3>2. j # i /\ j \in DOMAIN changed /\ changed[j] = blocks[j]
      BY <2>2, <3>1
    <3> QED BY <3>1, <3>2
  <2> QED BY <1>3, <2>1, <2>2
<1> QED BY <1>1, <1>2, <1>3 DEF BlocksShown

\* Nothing shown changes, though more items may be complete.
LEMMA TurnUnmoved ==
  ASSUME StreamInv, turn.stage # "finished",
         turn' \in TurnState, turn'.stage # "finished", turn'.blocks = turn.blocks, turn'.next = turn.next,
         UNCHANGED chunks, vendor' \in VendorState, vendor'.kind = vendor.kind, vendor.complete \subseteq vendor'.complete
  PROVE  StreamInv'
<1>1. MessageOpen(turn.blocks, turn.next, vendor, chunks)
  BY DEF StreamInv
<1>2. BlocksShown(turn.blocks, vendor', chunks)
  BY <1>1 DEF MessageOpen, BlocksShown, ShownBlock
<1>3. MessageOpen(turn'.blocks, turn'.next, vendor', chunks')
  BY <1>1, <1>2 DEF MessageOpen
<1> QED BY <1>3 DEF StreamInv, StreamTyped

LEMMA CompletesTyped ==
  ASSUME vendor \in VendorState, NEW i \in Item, Stream!Completes(i)
  PROVE  /\ vendor' \in VendorState /\ vendor'.kind = vendor.kind /\ vendor.complete \subseteq vendor'.complete
         /\ i \in vendor'.complete
BY DEF VendorState, Stream!Completes

LEMMA StreamFailed ==
  ASSUME StreamInv, turn.stage = "streaming", Stream!Throw,
         vendor' \in VendorState, vendor'.kind = vendor.kind, vendor.complete \subseteq vendor'.complete
  PROVE  StreamInv'
<1>1. turn' \in TurnState /\ turn'.stage = "failed" /\ turn'.blocks = turn.blocks /\ turn'.next = turn.next
  BY DEF StreamInv, StreamTyped, TurnState, Stream!Throw
<1> QED BY <1>1, TurnUnmoved DEF Stream!Throw

\* Only what the adapter notes about the turn changes.
LEMMA TurnNoted ==
  ASSUME turn \in TurnState
  PROVE  /\ Stream!Progress \in TurnState /\ Stream!Progress.stage = turn.stage
         /\ Stream!Progress.blocks = turn.blocks /\ Stream!Progress.next = turn.next
BY DEF TurnState, Stream!Progress

LEMMA StepError ==
  ASSUME StreamInv, turn.stage = "streaming", NEW willRetry \in BOOLEAN, Stream!Error(willRetry)
  PROVE  StreamInv'
<1>1. vendor' = vendor /\ vendor \in VendorState /\ turn \in TurnState
  BY DEF Stream!Error, StreamInv, StreamTyped
<1>2. CASE Stream!Throw
  BY <1>1, <1>2, StreamFailed
<1>3. CASE turn' = [turn EXCEPT !.retrying = @ + 1] /\ UNCHANGED chunks
  <2>1. turn' \in TurnState /\ turn'.stage = turn.stage /\ turn'.blocks = turn.blocks /\ turn'.next = turn.next
    BY <1>1, <1>3 DEF TurnState
  <2> QED BY <1>1, <1>3, <2>1, TurnUnmoved
<1> QED BY <1>2, <1>3 DEF Stream!Error

LEMMA StepUsage ==
  ASSUME StreamInv, turn.stage = "streaming", Stream!TokenUsage
  PROVE  StreamInv'
<1>1. vendor' = vendor /\ vendor \in VendorState /\ turn \in TurnState
  BY DEF Stream!TokenUsage, StreamInv, StreamTyped
<1>2. CASE Stream!Throw
  BY <1>1, <1>2, StreamFailed
<1>3. CASE turn' = [Stream!Progress EXCEPT !.usage = TRUE] /\ UNCHANGED chunks
  <2>1. turn' \in TurnState /\ turn'.stage = turn.stage /\ turn'.blocks = turn.blocks /\ turn'.next = turn.next
    BY <1>1, <1>3, TurnNoted DEF TurnState
  <2> QED BY <1>1, <1>3, <2>1, TurnUnmoved
<1> QED BY <1>2, <1>3 DEF Stream!TokenUsage

LEMMA StepOtherwise ==
  ASSUME StreamInv, turn.stage = "streaming", NEW i \in Item, Stream!CompletedOtherwise(i)
  PROVE  StreamInv'
BY CompletesTyped, StreamFailed DEF Stream!CompletedOtherwise, StreamInv, StreamTyped

\* A block that is not shown is noted; no chunk is given.
LEMMA NotedBlock ==
  ASSUME StreamInv, turn.stage = "streaming", NEW i \in Item,
         NEW phase \in {"answer", None}, NEW pieces \in Nat, NEW ended \in BOOLEAN,
         turn' \in TurnState, turn'.stage = "streaming", turn'.next = turn.next,
         turn'.blocks = Stream!NewBlock(i, None, phase, pieces, ended),
         i \in DOMAIN turn.blocks => turn.blocks[i].index = None,
         phase # "commentary",
         ended => i \in vendor'.complete,
         UNCHANGED chunks, vendor' \in VendorState, vendor'.kind = vendor.kind, vendor.complete \subseteq vendor'.complete
  PROVE  StreamInv'
<1>1. turn \in TurnState /\ MessageOpen(turn.blocks, turn.next, vendor, chunks)
  BY DEF StreamInv, StreamTyped
<1> DEFINE b == [index |-> None, phase |-> phase, pieces |-> pieces, ended |-> ended]
<1>2. PICK changed : changed = turn'.blocks
  OBVIOUS
<1>3. DOMAIN changed = DOMAIN turn.blocks \cup {i} /\ changed[i] = b
        /\ \A j \in DOMAIN turn.blocks : j # i => changed[j] = turn.blocks[j]
  <2>2. changed = Stream!NewBlock(i, None, phase, pieces, ended)
    BY <1>2
  <2>3. changed = [j \in DOMAIN turn.blocks \cup {i} |-> IF j = i THEN b ELSE turn.blocks[j]]
    BY <2>2 DEF Stream!NewBlock
  <2> HIDE DEF b
  <2> QED BY <2>3
<1>4. b.index = None /\ b.phase = phase /\ b.ended = ended
  OBVIOUS
<1> HIDE DEF b
<1>5. PICK after : after = vendor'
  OBVIOUS
<1>6. ShownBlock(b, i, after, chunks)
  BY <1>4, <1>5 DEF ShownBlock
<1>7. \A j \in DOMAIN turn.blocks : j # i /\ turn.blocks[j].index # None =>
        turn.blocks[j].index # b.index /\ turn.blocks[j].index \in BlocksBegun(chunks)
  BY <1>1, <1>4 DEF MessageOpen, BlocksShown, ShownBlock
<1>8. None \notin BlocksBegun(chunks)
  <2> SUFFICES ASSUME NEW n \in OfKind(chunks, "start"), chunks[n].index = None PROVE FALSE
    BY DEF BlocksBegun
  <2>1. chunks \in Seq(Chunk) /\ chunks[n] \in Chunk /\ chunks[n].chunk = "start"
    BY <1>1 DEF MessageOpen, MessageBlocks, OfKind
  <2> QED BY <2>1, ChunkTyped, StreamAssumption
<1>9. \A k \in BlocksBegun(chunks) : k \in BlocksEnded(chunks) \/ (i \in DOMAIN turn.blocks => turn.blocks[i].index # k)
  BY <1>8
<1>10. BlocksShown(turn.blocks, vendor, chunks)
  BY <1>1 DEF MessageOpen
<1>11. after.kind = vendor.kind /\ vendor.complete \subseteq after.complete
  BY <1>5
<1>12. BlocksShown(changed, after, chunks)
  BY <1>3, <1>6, <1>7, <1>9, <1>10, <1>11, ShownChanges
<1>13. MessageOpen(turn'.blocks, turn'.next, vendor', chunks')
  BY <1>1, <1>2, <1>5, <1>12 DEF MessageOpen
<1> QED BY <1>13 DEF StreamInv, StreamTyped

\* What a block that is shown is shown as.
LEMMA ShownAs ==
  ASSUME StreamInv, turn.stage # "finished", NEW i \in DOMAIN turn.blocks
  PROVE  /\ turn.blocks[i].phase = "commentary" <=> turn.blocks[i].index # None
         /\ turn.blocks[i].index # None =>
              /\ vendor.kind[i] = "commentary" /\ turn.blocks[i].index \in BlocksBegun(chunks)
              /\ Stream!Streamed(chunks, turn.blocks[i].index) = turn.blocks[i].pieces
              /\ turn.blocks[i].ended <=> turn.blocks[i].index \in BlocksEnded(chunks)
         /\ turn.blocks[i].ended => i \in vendor.complete
BY DEF StreamInv, MessageOpen, BlocksShown, ShownBlock

\* A block is shown that was not, or is shown on; "more" is what has been given then.
LEMMA ShownOn ==
  ASSUME StreamInv, turn.stage = "streaming", NEW i \in Item, vendor.kind[i] = "commentary",
         NEW k \in Nat, NEW pieces \in Nat, NEW ended \in BOOLEAN,
         turn' \in TurnState, turn'.stage = "streaming",
         turn'.blocks = Stream!NewBlock(i, k, "commentary", pieces, ended),
         vendor' \in VendorState, vendor'.kind = vendor.kind, vendor.complete \subseteq vendor'.complete,
         ended => i \in vendor'.complete,
         NEW more, chunks' = more, MessageBlocks(more, turn'.next),
         OfKind(more, "finish") = {}, AnswerChunks(more) = {},
         k \in BlocksBegun(more), BlocksBegun(more) \subseteq BlocksBegun(chunks) \cup {k},
         Stream!Streamed(more, k) = pieces,
         BlocksEnded(more) = BlocksEnded(chunks) \cup (IF ended THEN {k} ELSE {}), k \notin BlocksEnded(chunks),
         BlocksBegun(chunks) \subseteq BlocksBegun(more),
         \A j : j # k => Stream!Streamed(more, j) = Stream!Streamed(chunks, j),
         IF i \in DOMAIN turn.blocks /\ turn.blocks[i].index # None THEN turn.blocks[i].index = k ELSE k \notin BlocksBegun(chunks)
  PROVE  StreamInv'
<1>1. turn \in TurnState /\ MessageOpen(turn.blocks, turn.next, vendor, chunks)
  BY DEF StreamInv, StreamTyped
<1> DEFINE b == [index |-> k, phase |-> "commentary", pieces |-> pieces, ended |-> ended]
<1>2. PICK changed : changed = turn'.blocks
  OBVIOUS
<1>3. DOMAIN changed = DOMAIN turn.blocks \cup {i} /\ changed[i] = b
        /\ \A j \in DOMAIN turn.blocks : j # i => changed[j] = turn.blocks[j]
  <2>2. changed = Stream!NewBlock(i, k, "commentary", pieces, ended)
    BY <1>2
  <2>3. changed = [j \in DOMAIN turn.blocks \cup {i} |-> IF j = i THEN b ELSE turn.blocks[j]]
    BY <2>2 DEF Stream!NewBlock
  <2> HIDE DEF b
  <2> QED BY <2>3
<1>4. b.index = k /\ b.phase = "commentary" /\ b.ended = ended /\ b.pieces = pieces
  OBVIOUS
<1> HIDE DEF b
<1>5. PICK after : after = vendor'
  OBVIOUS
<1>6. k # None
  BY StreamAssumption
<1>7. ended <=> k \in BlocksEnded(more)
  OBVIOUS
<1>8. ShownBlock(b, i, after, more)
  BY <1>4, <1>5, <1>6, <1>7 DEF ShownBlock
<1>9. ASSUME NEW j \in DOMAIN turn.blocks, j # i, turn.blocks[j].index # None
      PROVE  /\ turn.blocks[j].index # k
             /\ turn.blocks[j].index \in BlocksBegun(more)
             /\ Stream!Streamed(more, turn.blocks[j].index) = Stream!Streamed(chunks, turn.blocks[j].index)
             /\ turn.blocks[j].index \in BlocksEnded(more) <=> turn.blocks[j].index \in BlocksEnded(chunks)
  <2>1. turn.blocks[j].index \in BlocksBegun(chunks)
    BY <1>9, ShownAs
  <2>2. turn.blocks[j].index # k
    <3>1. CASE i \in DOMAIN turn.blocks /\ turn.blocks[i].index # None
      BY <1>1, <1>9, <3>1 DEF MessageOpen, BlocksShown
    <3>2. CASE ~(i \in DOMAIN turn.blocks /\ turn.blocks[i].index # None)
      BY <2>1, <3>2
    <3> QED BY <3>1, <3>2
  <2> QED BY <2>1, <2>2
<1>10. ASSUME NEW m \in BlocksBegun(more)
       PROVE  \/ m \in BlocksEnded(more)
              \/ b.index = m /\ ~b.ended
              \/ m \in BlocksBegun(chunks) /\ m \notin BlocksEnded(chunks) /\ (i \in DOMAIN turn.blocks => turn.blocks[i].index # m)
  <2>1. CASE m = k
    BY <2>1, <1>4, <1>7
  <2>2. CASE m # k
    <3>1. m \in BlocksBegun(chunks)
      BY <2>2
    <3>2. m # None
      <4>1. PICK n \in OfKind(chunks, "start") : chunks[n].index = m
        BY <3>1 DEF BlocksBegun
      <4>2. chunks \in Seq(Chunk) /\ chunks[n] \in Chunk /\ chunks[n].chunk = "start"
        BY <1>1 DEF MessageOpen, MessageBlocks, OfKind
      <4> QED BY <4>1, <4>2, ChunkTyped, StreamAssumption
    <3>3. i \in DOMAIN turn.blocks => turn.blocks[i].index # m
      BY <2>2, <3>2
    <3> QED BY <3>1, <3>3
  <2> QED BY <2>1, <2>2
<1>11. BlocksShown(turn.blocks, vendor, chunks)
  BY <1>1 DEF MessageOpen
<1>12. after.kind = vendor.kind /\ vendor.complete \subseteq after.complete
  BY <1>5
<1>13. BlocksShown(changed, after, more)
  <2>1. \A j \in DOMAIN turn.blocks : j # i /\ turn.blocks[j].index # None =>
          /\ turn.blocks[j].index # b.index
          /\ turn.blocks[j].index \in BlocksBegun(more)
          /\ Stream!Streamed(more, turn.blocks[j].index) = Stream!Streamed(chunks, turn.blocks[j].index)
          /\ turn.blocks[j].index \in BlocksEnded(more) <=> turn.blocks[j].index \in BlocksEnded(chunks)
    BY <1>4, <1>9
  <2>2. \A m \in BlocksBegun(more) :
          \/ m \in BlocksEnded(more)
          \/ b.index = m /\ ~b.ended
          \/ m \in BlocksBegun(chunks) /\ m \notin BlocksEnded(chunks) /\ (i \in DOMAIN turn.blocks => turn.blocks[i].index # m)
    BY <1>10
  <2> QED BY <1>3, <1>8, <1>11, <1>12, <2>1, <2>2, ShownChanges
<1>14. MessageOpen(turn'.blocks, turn'.next, vendor', chunks')
  BY <1>2, <1>5, <1>13 DEF MessageOpen
<1> QED BY <1>14 DEF StreamInv, StreamTyped

\* The next block has a number no block has had.
LEMMA NextUnused ==
  ASSUME NEW given, NEW next, MessageBlocks(given, next)
  PROVE  next \notin BlocksBegun(given) /\ next \notin BlocksEnded(given)
<1>1. next \in Nat /\ given \in Seq(Chunk)
  BY DEF MessageBlocks
<1>2. \A n \in OfKind(given, "start") : given[n].index < next
  BY DEF MessageBlocks, StartsInOrder
<1>3. next \notin BlocksBegun(given)
  BY <1>1, <1>2 DEF BlocksBegun
<1>4. BlocksEnded(given) \subseteq BlocksBegun(given)
  BY DEF MessageBlocks, WithinBlocks, BlocksBegun, BlocksEnded
<1> QED BY <1>3, <1>4

LEMMA StepStarted ==
  ASSUME StreamInv, turn.stage = "streaming", NEW i \in Item, Stream!ItemStarted(i)
  PROVE  StreamInv'
<1>1. /\ vendor' = vendor /\ vendor \in VendorState /\ turn \in TurnState /\ turn.next \in Nat
      /\ MessageOpen(turn.blocks, turn.next, vendor, chunks)
  BY DEF Stream!ItemStarted, StreamInv, StreamTyped, TurnState
<1>2. CASE turn' = Stream!Progress /\ UNCHANGED chunks
  BY <1>1, <1>2, TurnNoted, TurnUnmoved
<1>3. CASE /\ ~Stream!Known(i) /\ vendor.kind[i] = "commentary"
           /\ turn' = [Stream!Progress EXCEPT !.blocks = Stream!NewBlock(i, turn.next, "commentary", 0, FALSE), !.next = turn.next + 1]
           /\ Stream!Yield(Stream!Start(turn.next, "reasoning"))
  <2>1. Stream!NewBlock(i, turn.next, "commentary", 0, FALSE) \in BlockMap
    BY <1>1, NewBlockTyped
  <2>2. /\ turn' \in TurnState /\ turn'.stage = "streaming" /\ turn'.next = turn.next + 1
        /\ turn'.blocks = Stream!NewBlock(i, turn.next, "commentary", 0, FALSE)
    <3>1. PICK changed \in BlockMap : changed = Stream!NewBlock(i, turn.next, "commentary", 0, FALSE)
      BY <2>1
    <3>2. PICK progress \in TurnState : progress = Stream!Progress /\ progress.stage = "streaming"
      BY <1>1, TurnNoted
    <3>3. turn' = [progress EXCEPT !.blocks = changed, !.next = turn.next + 1] /\ turn.next + 1 \in Nat
      BY <1>1, <1>3, <3>1, <3>2
    <3> QED BY <3>1, <3>2, <3>3 DEF TurnState
  <2>3. PICK more : more = chunks \o Stream!Start(turn.next, "reasoning")
    OBVIOUS
  <2>4. chunks' = more
    BY <1>3, <2>3 DEF Stream!Yield
  <2>5. /\ MessageBlocks(more, turn.next + 1) /\ BlocksBegun(more) = BlocksBegun(chunks) \cup {turn.next} /\ BlocksEnded(more) = BlocksEnded(chunks)
        /\ AnswerChunks(more) = {} /\ OfKind(more, "finish") = {} /\ (\A j : Stream!Streamed(more, j) = Stream!Streamed(chunks, j))
        /\ Stream!Streamed(more, turn.next) = 0
    BY <1>1, <2>3, BlockBegun DEF MessageOpen
  <2>6. turn.next \notin BlocksBegun(chunks) /\ turn.next \notin BlocksEnded(chunks)
    BY <1>1, NextUnused DEF MessageOpen
  <2>7. i \notin DOMAIN turn.blocks
    BY <1>3 DEF Stream!Known
  <2>8. /\ turn.next \in BlocksBegun(more) /\ BlocksBegun(more) \subseteq BlocksBegun(chunks) \cup {turn.next}
        /\ BlocksBegun(chunks) \subseteq BlocksBegun(more)
        /\ BlocksEnded(more) = BlocksEnded(chunks) \cup (IF FALSE THEN {turn.next} ELSE {})
        /\ \A j : j # turn.next => Stream!Streamed(more, j) = Stream!Streamed(chunks, j)
    BY <2>5
  <2>9. MessageBlocks(more, turn'.next) /\ vendor.complete \subseteq vendor'.complete
    BY <1>1, <2>2, <2>5
  <2>10. IF i \in DOMAIN turn.blocks /\ turn.blocks[i].index # None THEN turn.blocks[i].index = turn.next
         ELSE turn.next \notin BlocksBegun(chunks)
    BY <2>6, <2>7
  <2>11. vendor' \in VendorState /\ vendor'.kind = vendor.kind /\ vendor.kind[i] = "commentary"
    BY <1>1, <1>3
  <2>12. 0 \in Nat /\ FALSE \in BOOLEAN /\ (FALSE => i \in vendor'.complete)
    OBVIOUS
  <2> QED BY <1>1, <2>2, <2>4, <2>5, <2>6, <2>8, <2>9, <2>10, <2>11, <2>12, ShownOn
<1>4. CASE ~Stream!Known(i) /\ Stream!Throw
  BY <1>1, <1>4, StreamFailed
<1>5. CASE /\ ~Stream!Known(i)
           /\ turn' = [Stream!Progress EXCEPT !.blocks = Stream!NewBlock(i, None, "answer", 0, FALSE), !.answerItem = i]
           /\ UNCHANGED chunks
  <2>1. Stream!NewBlock(i, None, "answer", 0, FALSE) \in BlockMap
    BY <1>1, NewBlockTyped
  <2>2. /\ turn' \in TurnState /\ turn'.stage = "streaming" /\ turn'.next = turn.next
        /\ turn'.blocks = Stream!NewBlock(i, None, "answer", 0, FALSE)
    BY <1>1, <1>5, <2>1, TurnNoted DEF TurnState
  <2> QED BY <1>1, <1>5, <2>2, NotedBlock DEF Stream!Known
<1>6. CASE /\ ~Stream!Known(i)
           /\ turn' = [Stream!Progress EXCEPT !.blocks = Stream!NewBlock(i, None, None, 0, FALSE)] /\ UNCHANGED chunks
  <2>1. Stream!NewBlock(i, None, None, 0, FALSE) \in BlockMap
    BY <1>1, NewBlockTyped
  <2>2. /\ turn' \in TurnState /\ turn'.stage = "streaming" /\ turn'.next = turn.next
        /\ turn'.blocks = Stream!NewBlock(i, None, None, 0, FALSE)
    BY <1>1, <1>6, <2>1, TurnNoted DEF TurnState
  <2> QED BY <1>1, <1>6, <2>2, NotedBlock, StreamAssumption DEF Stream!Known
<1> QED BY <1>2, <1>3, <1>4, <1>5, <1>6 DEF Stream!ItemStarted

LEMMA StepDelta ==
  ASSUME StreamInv, turn.stage = "streaming", NEW i \in Item, Stream!Delta(i)
  PROVE  StreamInv'
<1>1. /\ vendor' = vendor /\ vendor \in VendorState /\ turn \in TurnState /\ turn.next \in Nat /\ turn.blocks \in BlockMap
      /\ MessageOpen(turn.blocks, turn.next, vendor, chunks)
  BY DEF Stream!Delta, StreamInv, StreamTyped, TurnState
<1>2. PICK block : block = IF Stream!Known(i) THEN turn.blocks[i]
                           ELSE [index |-> None, phase |-> None, pieces |-> 0, ended |-> FALSE]
  OBVIOUS
<1>3. /\ block.index \in Nat \cup {None} /\ block.phase \in {"commentary", "answer", None}
      /\ block.pieces \in Nat /\ block.ended \in BOOLEAN
  BY <1>1, <1>2, BlockTyped DEF Stream!Known
<1>4. IF block.ended THEN Stream!Throw
      ELSE /\ turn' = [Stream!Progress EXCEPT !.blocks = Stream!NewBlock(i, block.index, block.phase, block.pieces + 1, FALSE)]
           /\ IF block.phase = "commentary" THEN Stream!Yield(Stream!Text(block.index, 1)) ELSE UNCHANGED chunks
  BY <1>2 DEF Stream!Delta
<1>5. CASE block.ended
  BY <1>1, <1>4, <1>5, StreamFailed
<1>6. CASE ~block.ended
  <2>1. Stream!NewBlock(i, block.index, block.phase, block.pieces + 1, FALSE) \in BlockMap
    <3>1. block.pieces + 1 \in Nat
      BY <1>3
    <3> QED BY <1>1, <1>3, <3>1, NewBlockTyped
  <2>2. /\ turn' \in TurnState /\ turn'.stage = "streaming" /\ turn'.next = turn.next
        /\ turn'.blocks = Stream!NewBlock(i, block.index, block.phase, block.pieces + 1, FALSE)
    BY <1>1, <1>4, <1>6, <2>1, TurnNoted DEF TurnState
  <2>3. CASE block.phase = "commentary"
    <3>1. i \in DOMAIN turn.blocks /\ block = turn.blocks[i]
      BY <1>2, <2>3, StreamAssumption DEF Stream!Known
    <3>2. /\ block.index # None /\ vendor.kind[i] = "commentary" /\ block.index \in BlocksBegun(chunks)
          /\ Stream!Streamed(chunks, block.index) = block.pieces /\ block.index \notin BlocksEnded(chunks)
      BY <1>6, <2>3, <3>1, ShownAs
    <3>3. PICK k \in Nat : k = block.index
      BY <1>3, <3>2
    <3>4. PICK more : more = chunks \o Stream!Text(k, 1)
      OBVIOUS
    <3>5. chunks' = more
      BY <1>4, <1>6, <2>3, <3>3, <3>4 DEF Stream!Yield
    <3>6. /\ MessageBlocks(more, turn.next) /\ BlocksBegun(more) = BlocksBegun(chunks) /\ BlocksEnded(more) = BlocksEnded(chunks)
          /\ AnswerChunks(more) = {} /\ OfKind(more, "finish") = {}
          /\ Stream!Streamed(more, k) = block.pieces + 1 /\ (\A j : j # k => Stream!Streamed(more, j) = Stream!Streamed(chunks, j))
      <4>1. MessageBlocks(chunks, turn.next) /\ k \in BlocksBegun(chunks) /\ k \notin BlocksEnded(chunks) /\ 1 \in Nat
        BY <1>1, <3>2, <3>3 DEF MessageOpen
      <4> QED BY <1>1, <3>2, <3>3, <3>4, <4>1, TextGiven DEF MessageOpen
    <3>7. turn'.blocks = Stream!NewBlock(i, k, "commentary", block.pieces + 1, FALSE)
      BY <2>2, <2>3, <3>3
    <3>8. block.pieces + 1 \in Nat
      BY <1>3
    <3> QED BY <1>1, <2>2, <3>1, <3>2, <3>3, <3>5, <3>6, <3>7, <3>8, ShownOn
  <2>4. CASE block.phase # "commentary"
    <3>1. block.index = None
      BY <1>2, <2>4, ShownAs DEF Stream!Known
    <3>2. block.phase \in {"answer", None} /\ block.pieces + 1 \in Nat /\ UNCHANGED chunks
      BY <1>3, <1>4, <1>6, <2>4
    <3>3. i \in DOMAIN turn.blocks => turn.blocks[i].index = None
      BY <1>2, <3>1 DEF Stream!Known
    <3> QED BY <1>1, <2>2, <2>4, <3>1, <3>2, <3>3, NotedBlock
  <2> QED BY <2>3, <2>4
<1> QED BY <1>3, <1>5, <1>6

LEMMA ChunksAssociate ==
  ASSUME NEW s \in Seq(Chunk), NEW t \in Seq(Chunk), NEW u \in Seq(Chunk)
  PROVE  (s \o t) \o u = s \o (t \o u) /\ s \o t \in Seq(Chunk) /\ t \o u \in Seq(Chunk)
<1>1. (s \o t) \o u = s \o (t \o u)
  BY ConcatAssociative
<1>2. s \o t \in Seq(Chunk) /\ t \o u \in Seq(Chunk)
  BY ConcatProperties
<1> QED BY <1>1, <1>2

LEMMA AllChunksAssociate ==
  \A x \in Seq(Chunk), y \in Seq(Chunk), z \in Seq(Chunk) : (x \o y) \o z = x \o (y \o z)
BY ChunksAssociate

\* Outputs are chunks.
LEMMA OutputTyped ==
  /\ \A k \in Nat : \A type \in {"reasoning", "image", "text", "tool-call"} : Stream!Start(k, type) \in Seq(Chunk)
  /\ \A k \in Nat, pieces \in Nat : Stream!Text(k, pieces) \in Seq(Chunk) /\ Stream!End(k, pieces) \in Seq(Chunk)
<1>1. ASSUME NEW k \in Nat, NEW type \in {"reasoning", "image", "text", "tool-call"} PROVE Stream!Start(k, type) \in Seq(Chunk)
  <2> DEFINE x == [chunk |-> "start", index |-> k, type |-> type]
  <2>1. x \in Chunk
    BY DEF Chunk, StartChunk
  <2>2. Stream!Start(k, type) = <<x>>
    BY DEF Stream!Start
  <2> HIDE DEF x
  <2>3. <<x>> \in Seq(Chunk)
    BY <2>1
  <2> QED BY <2>2, <2>3
<1>2. ASSUME NEW k \in Nat, NEW pieces \in Nat PROVE Stream!Text(k, pieces) \in Seq(Chunk)
  <2> DEFINE x == [chunk |-> "delta", index |-> k, pieces |-> pieces]
  <2>1. x \in Chunk
    BY DEF Chunk, TextChunk
  <2>2. Stream!Text(k, pieces) \in {<<>>, <<x>>}
    BY DEF Stream!Text
  <2> HIDE DEF x
  <2>3. <<x>> \in Seq(Chunk) /\ <<>> \in Seq(Chunk)
    BY <2>1
  <2> QED BY <2>2, <2>3
<1>3. ASSUME NEW k \in Nat, NEW pieces \in Nat PROVE Stream!End(k, pieces) \in Seq(Chunk)
  <2> DEFINE x == [chunk |-> "end", index |-> k, pieces |-> pieces]
  <2>1. x \in Chunk
    BY DEF Chunk, EndChunk
  <2>2. Stream!End(k, pieces) = <<x>>
    BY DEF Stream!End
  <2> HIDE DEF x
  <2>3. <<x>> \in Seq(Chunk)
    BY <2>1
  <2> QED BY <2>2, <2>3
<1> QED BY <1>1, <1>2, <1>3

\* A text and the end of its block, given to a block that is open.
LEMMA BlockGiven ==
  ASSUME NEW given, NEW next, MessageBlocks(given, next), NEW k \in BlocksBegun(given), k \in Nat, k \notin BlocksEnded(given),
         NEW pieces \in Nat, NEW all \in Nat, all = Stream!Streamed(given, k) + pieces
  PROVE  LET more == given \o (Stream!Text(k, pieces) \o Stream!End(k, all))
         IN  /\ MessageBlocks(more, next) /\ BlocksBegun(more) = BlocksBegun(given) /\ BlocksEnded(more) = BlocksEnded(given) \cup {k}
             /\ AnswerChunks(more) = AnswerChunks(given)
             /\ OfKind(more, "finish") = OfKind(given, "finish")
             /\ Stream!Streamed(more, k) = all
             /\ \A j : j # k => Stream!Streamed(more, j) = Stream!Streamed(given, j)
<1>1. PICK between : between = given \o Stream!Text(k, pieces)
  OBVIOUS
<1>2. /\ MessageBlocks(between, next) /\ BlocksBegun(between) = BlocksBegun(given) /\ BlocksEnded(between) = BlocksEnded(given)
      /\ AnswerChunks(between) = AnswerChunks(given)
      /\ OfKind(between, "finish") = OfKind(given, "finish")
      /\ Stream!Streamed(between, k) = all
      /\ \A j : j # k => Stream!Streamed(between, j) = Stream!Streamed(given, j)
  BY <1>1, TextGiven
<1>3. PICK more : more = between \o Stream!End(k, all)
  OBVIOUS
<1>4. k \in BlocksBegun(between) /\ k \notin BlocksEnded(between)
  BY <1>2
<1>5. more = between \o Stream!End(k, Stream!Streamed(between, k))
  BY <1>2, <1>3
<1>6. /\ MessageBlocks(more, next) /\ BlocksBegun(more) = BlocksBegun(between) /\ BlocksEnded(more) = BlocksEnded(between) \cup {k}
      /\ AnswerChunks(more) = AnswerChunks(between)
      /\ OfKind(more, "finish") = OfKind(between, "finish")
      /\ \A j : Stream!Streamed(more, j) = Stream!Streamed(between, j)
  BY <1>2, <1>4, <1>5, BlockEnded
<1>7. more = given \o (Stream!Text(k, pieces) \o Stream!End(k, all))
  <2>1. given \in Seq(Chunk) /\ Stream!Text(k, pieces) \in Seq(Chunk) /\ Stream!End(k, all) \in Seq(Chunk)
    BY OutputTyped DEF MessageBlocks
  <2>2. (given \o Stream!Text(k, pieces)) \o Stream!End(k, all) = given \o (Stream!Text(k, pieces) \o Stream!End(k, all))
    BY <2>1, ConcatAssociative
  <2> QED BY <1>1, <1>3, <2>2
<1> QED BY <1>2, <1>6, <1>7

\* A whole block at once.
LEMMA WholeBlock ==
  ASSUME NEW given, NEW next, MessageBlocks(given, next), AnswerChunks(given) = {},
         NEW type \in {"reasoning", "image", "text", "tool-call"}, NEW pieces \in Nat
  PROVE  LET more == given \o (Stream!Start(next, type) \o (Stream!Text(next, pieces) \o Stream!End(next, pieces)))
         IN  /\ MessageBlocks(more, next + 1) /\ BlocksBegun(more) = BlocksBegun(given) \cup {next}
             /\ BlocksEnded(more) = BlocksEnded(given) \cup {next}
             /\ type \in {"reasoning", "image"} => AnswerChunks(more) = {}
             /\ OfKind(more, "finish") = OfKind(given, "finish")
             /\ Stream!Streamed(more, next) = pieces
             /\ \A j : j # next => Stream!Streamed(more, j) = Stream!Streamed(given, j)
<1>1. PICK between : between = given \o Stream!Start(next, type)
  OBVIOUS
<1>2. /\ MessageBlocks(between, next + 1) /\ BlocksBegun(between) = BlocksBegun(given) \cup {next} /\ BlocksEnded(between) = BlocksEnded(given)
      /\ type \in {"reasoning", "image"} => AnswerChunks(between) = {}
      /\ OfKind(between, "finish") = OfKind(given, "finish")
      /\ \A j : Stream!Streamed(between, j) = Stream!Streamed(given, j)
      /\ Stream!Streamed(between, next) = 0 /\ next \notin BlocksEnded(between)
  BY <1>1, BlockBegun
<1>3. next \in Nat /\ given \in Seq(Chunk) /\ next \in BlocksBegun(between) /\ pieces = Stream!Streamed(between, next) + pieces
  BY <1>2 DEF MessageBlocks
<1>4. PICK more : more = between \o (Stream!Text(next, pieces) \o Stream!End(next, pieces))
  OBVIOUS
<1>5. /\ MessageBlocks(more, next + 1) /\ BlocksBegun(more) = BlocksBegun(between) /\ BlocksEnded(more) = BlocksEnded(between) \cup {next}
      /\ AnswerChunks(more) = AnswerChunks(between)
      /\ OfKind(more, "finish") = OfKind(between, "finish")
      /\ Stream!Streamed(more, next) = pieces
      /\ \A j : j # next => Stream!Streamed(more, j) = Stream!Streamed(between, j)
  BY <1>2, <1>3, <1>4, BlockGiven
<1>6. more = given \o (Stream!Start(next, type) \o (Stream!Text(next, pieces) \o Stream!End(next, pieces)))
  <2>1. Stream!Start(next, type) \in Seq(Chunk) /\ Stream!Text(next, pieces) \in Seq(Chunk) /\ Stream!End(next, pieces) \in Seq(Chunk)
    BY <1>3, OutputTyped
  <2>2. Stream!Text(next, pieces) \o Stream!End(next, pieces) \in Seq(Chunk)
    BY <2>1, ConcatProperties
  <2>3. (given \o Stream!Start(next, type)) \o (Stream!Text(next, pieces) \o Stream!End(next, pieces))
          = given \o (Stream!Start(next, type) \o (Stream!Text(next, pieces) \o Stream!End(next, pieces)))
    <3>1. PICK s \in Seq(Chunk), t \in Seq(Chunk) : s = Stream!Start(next, type) /\ t = Stream!Text(next, pieces) \o Stream!End(next, pieces)
      BY <2>1, <2>2
    <3>2. (given \o s) \o t = given \o (s \o t)
      BY <1>3, ChunksAssociate
    <3> QED BY <3>1, <3>2
  <2> QED BY <1>1, <1>4, <2>3
<1> QED BY <1>2, <1>5, <1>6

LEMMA PiecesNumber ==
  ASSUME turn \in TurnState, NEW i \in Item
  PROVE  Stream!Pieces(i) \in Nat
<1>1. turn.blocks \in BlockMap
  BY DEF TurnState
<1> QED BY <1>1, BlockTyped DEF Stream!Pieces, Stream!Known

LEMMA StepCommentary ==
  ASSUME StreamInv, turn.stage = "streaming", NEW i \in Item, Stream!CommentaryCompleted(i)
  PROVE  StreamInv'
<1>1. /\ vendor \in VendorState /\ turn \in TurnState /\ turn.next \in Nat /\ turn.blocks \in BlockMap
      /\ MessageOpen(turn.blocks, turn.next, vendor, chunks) /\ MessageBlocks(chunks, turn.next) /\ AnswerChunks(chunks) = {}
      /\ OfKind(chunks, "finish") = {}
  BY DEF StreamInv, StreamTyped, TurnState, MessageOpen
<1>2. /\ vendor' \in VendorState /\ vendor'.kind = vendor.kind /\ vendor.complete \subseteq vendor'.complete
      /\ i \in vendor'.complete /\ vendor.kind[i] = "commentary" /\ i \notin vendor.complete
  BY <1>1, CompletesTyped DEF Stream!CommentaryCompleted
<1>3. PICK pieces \in Stream!Pieces(i) .. MaxPieces :
        IF Stream!Known(i) /\ turn.blocks[i].index # None
        THEN LET index == turn.blocks[i].index
             IN  /\ turn' = [Stream!Progress EXCEPT !.blocks = Stream!NewBlock(i, index, "commentary", pieces, TRUE)]
                 /\ Stream!Yield(Stream!Text(index, pieces - Stream!Pieces(i)) \o Stream!End(index, pieces))
        ELSE /\ turn' = [Stream!Progress EXCEPT !.blocks = Stream!NewBlock(i, turn.next, "commentary", pieces, TRUE), !.next = turn.next + 1]
             /\ Stream!Yield(Stream!Start(turn.next, "reasoning") \o Stream!Text(turn.next, pieces) \o Stream!End(turn.next, pieces))
  BY DEF Stream!CommentaryCompleted
<1>4. pieces \in Nat /\ Stream!Pieces(i) \in Nat /\ pieces - Stream!Pieces(i) \in Nat /\ TRUE \in BOOLEAN
  BY <1>1, PiecesNumber
<1>5. PICK progress \in TurnState : progress = Stream!Progress /\ progress.stage = "streaming" /\ progress.next = turn.next
  BY <1>1, TurnNoted
<1>6. CASE Stream!Known(i) /\ turn.blocks[i].index # None
  <2>1. i \in DOMAIN turn.blocks
    BY <1>6 DEF Stream!Known
  <2>2. PICK k \in Nat : k = turn.blocks[i].index
    BY <1>1, <1>6, <2>1, BlockTyped
  <2>3. k \in BlocksBegun(chunks) /\ Stream!Streamed(chunks, k) = Stream!Pieces(i) /\ k \notin BlocksEnded(chunks)
    BY <1>2, <1>6, <2>1, <2>2, ShownAs DEF Stream!Pieces
  <2>4. PICK changed \in BlockMap : changed = Stream!NewBlock(i, k, "commentary", pieces, TRUE)
    BY <1>1, <1>4, NewBlockTyped
  <2>5. turn' = [progress EXCEPT !.blocks = changed]
    BY <1>3, <1>5, <1>6, <2>2, <2>4
  <2>6. turn' \in TurnState /\ turn'.stage = "streaming" /\ turn'.next = turn.next /\ turn'.blocks = changed
    BY <1>5, <2>4, <2>5 DEF TurnState
  <2>7. PICK more : more = chunks \o (Stream!Text(k, pieces - Stream!Pieces(i)) \o Stream!End(k, pieces))
    OBVIOUS
  <2>8. chunks' = more
    BY <1>3, <1>6, <2>2, <2>7 DEF Stream!Yield
  <2>9. pieces = Stream!Streamed(chunks, k) + (pieces - Stream!Pieces(i))
    BY <1>4, <2>3
  <2>10. /\ MessageBlocks(more, turn.next) /\ BlocksBegun(more) = BlocksBegun(chunks) /\ BlocksEnded(more) = BlocksEnded(chunks) \cup {k}
         /\ AnswerChunks(more) = {} /\ OfKind(more, "finish") = {} /\ Stream!Streamed(more, k) = pieces
         /\ \A j : j # k => Stream!Streamed(more, j) = Stream!Streamed(chunks, j)
    BY <1>1, <1>4, <2>3, <2>7, <2>9, BlockGiven
  <2>11. /\ k \in BlocksBegun(more) /\ BlocksBegun(more) \subseteq BlocksBegun(chunks) \cup {k} /\ BlocksBegun(chunks) \subseteq BlocksBegun(more)
         /\ BlocksEnded(more) = BlocksEnded(chunks) \cup (IF TRUE THEN {k} ELSE {})
         /\ MessageBlocks(more, turn'.next)
    BY <2>3, <2>6, <2>10
  <2>12. IF i \in DOMAIN turn.blocks /\ turn.blocks[i].index # None THEN turn.blocks[i].index = k ELSE k \notin BlocksBegun(chunks)
    BY <1>6, <2>1, <2>2
  <2>13. turn'.blocks = Stream!NewBlock(i, k, "commentary", pieces, TRUE)
    BY <2>4, <2>6
  <2> QED BY <1>2, <1>4, <2>3, <2>6, <2>8, <2>10, <2>11, <2>12, <2>13, ShownOn
<1>7. CASE ~(Stream!Known(i) /\ turn.blocks[i].index # None)
  <2>1. PICK k \in Nat : k = turn.next
    BY <1>1
  <2>2. k \notin BlocksBegun(chunks) /\ k \notin BlocksEnded(chunks)
    BY <1>1, <2>1, NextUnused
  <2>3. PICK changed \in BlockMap : changed = Stream!NewBlock(i, k, "commentary", pieces, TRUE)
    BY <1>1, <1>4, NewBlockTyped
  <2>4. turn' = [progress EXCEPT !.blocks = changed, !.next = k + 1]
    BY <1>3, <1>5, <1>7, <2>1, <2>3
  <2>5. turn' \in TurnState /\ turn'.stage = "streaming" /\ turn'.next = k + 1 /\ turn'.blocks = changed
    <3>1. k + 1 \in Nat
      OBVIOUS
    <3> QED BY <1>5, <2>3, <2>4, <3>1 DEF TurnState
  <2>6. PICK more : more = chunks \o (Stream!Start(k, "reasoning") \o (Stream!Text(k, pieces) \o Stream!End(k, pieces)))
    OBVIOUS
  <2>7. chunks' = more
    <3>1. Stream!Start(k, "reasoning") \in Seq(Chunk) /\ Stream!Text(k, pieces) \in Seq(Chunk) /\ Stream!End(k, pieces) \in Seq(Chunk)
      BY <1>4, OutputTyped
    <3>2. (Stream!Start(k, "reasoning") \o Stream!Text(k, pieces)) \o Stream!End(k, pieces) = Stream!Start(k, "reasoning") \o (Stream!Text(k, pieces) \o Stream!End(k, pieces))
      BY <3>1, ConcatAssociative
    <3> QED BY <1>3, <1>7, <2>1, <2>6, <3>2 DEF Stream!Yield
  <2>8. /\ MessageBlocks(more, k + 1) /\ BlocksBegun(more) = BlocksBegun(chunks) \cup {k} /\ BlocksEnded(more) = BlocksEnded(chunks) \cup {k}
        /\ AnswerChunks(more) = {} /\ OfKind(more, "finish") = {} /\ Stream!Streamed(more, k) = pieces
        /\ \A j : j # k => Stream!Streamed(more, j) = Stream!Streamed(chunks, j)
    BY <1>1, <1>4, <2>1, <2>6, WholeBlock
  <2>9. /\ k \in BlocksBegun(more) /\ BlocksBegun(more) \subseteq BlocksBegun(chunks) \cup {k} /\ BlocksBegun(chunks) \subseteq BlocksBegun(more)
        /\ BlocksEnded(more) = BlocksEnded(chunks) \cup (IF TRUE THEN {k} ELSE {})
        /\ MessageBlocks(more, turn'.next)
    BY <2>5, <2>8
  <2>10. IF i \in DOMAIN turn.blocks /\ turn.blocks[i].index # None THEN turn.blocks[i].index = k ELSE k \notin BlocksBegun(chunks)
    BY <1>7, <2>2 DEF Stream!Known
  <2>11. turn'.blocks = Stream!NewBlock(i, k, "commentary", pieces, TRUE)
    BY <2>3, <2>5
  <2> QED BY <1>2, <1>4, <2>2, <2>5, <2>7, <2>8, <2>9, <2>10, <2>11, ShownOn
<1> QED BY <1>6, <1>7

LEMMA StepAnswer ==
  ASSUME StreamInv, turn.stage = "streaming", NEW i \in Item, Stream!AnswerCompleted(i)
  PROVE  StreamInv'
<1>1. /\ vendor \in VendorState /\ turn \in TurnState /\ turn.blocks \in BlockMap
  BY DEF StreamInv, StreamTyped, TurnState
<1>2. /\ vendor' \in VendorState /\ vendor'.kind = vendor.kind /\ vendor.complete \subseteq vendor'.complete
      /\ i \in vendor'.complete /\ vendor.kind[i] = "answer"
  BY <1>1, CompletesTyped DEF Stream!AnswerCompleted
<1>3. CASE Stream!Throw
  BY <1>2, <1>3, StreamFailed
<1>4. CASE \E answer \in {"final", "blank", "tool_call"} :
             turn' = [Stream!Progress EXCEPT !.blocks = Stream!NewBlock(i, None, "answer", Stream!Pieces(i), TRUE),
                                      !.answerItem = i, !.answer = answer] /\ UNCHANGED chunks
  <2>1. PICK answer \in {"final", "blank", "tool_call"} :
          turn' = [Stream!Progress EXCEPT !.blocks = Stream!NewBlock(i, None, "answer", Stream!Pieces(i), TRUE),
                                   !.answerItem = i, !.answer = answer] /\ UNCHANGED chunks
    BY <1>4
  <2>2. Stream!Pieces(i) \in Nat
    BY <1>1, PiecesNumber
  <2>3. PICK changed \in BlockMap : changed = Stream!NewBlock(i, None, "answer", Stream!Pieces(i), TRUE)
    BY <1>1, <2>2, NewBlockTyped
  <2>4. PICK progress \in TurnState : progress = Stream!Progress /\ progress.stage = "streaming" /\ progress.next = turn.next
    BY <1>1, TurnNoted
  <2>5. turn' = [progress EXCEPT !.blocks = changed, !.answerItem = i, !.answer = answer]
    BY <2>1, <2>3, <2>4
  <2>6. turn' \in TurnState /\ turn'.stage = "streaming" /\ turn'.next = turn.next /\ turn'.blocks = changed
    BY <2>3, <2>4, <2>5 DEF TurnState
  <2>7. turn'.blocks = Stream!NewBlock(i, None, "answer", Stream!Pieces(i), TRUE)
    BY <2>3, <2>6
  <2>8. i \in DOMAIN turn.blocks => turn.blocks[i].index = None
    BY <1>2, ShownAs
  <2>9. "answer" \in {"answer", None} /\ "answer" # "commentary" /\ TRUE \in BOOLEAN
    OBVIOUS
  <2> QED BY <1>2, <2>1, <2>2, <2>6, <2>7, <2>8, <2>9, NotedBlock
<1> QED BY <1>3, <1>4 DEF Stream!AnswerCompleted

\* A block that no item is behind is shown whole.
LEMMA StepImage ==
  ASSUME StreamInv, turn.stage = "streaming", NEW i \in Item, Stream!ImageCompleted(i)
  PROVE  StreamInv'
<1>1. /\ vendor \in VendorState /\ turn \in TurnState /\ turn.next \in Nat
      /\ MessageOpen(turn.blocks, turn.next, vendor, chunks) /\ MessageBlocks(chunks, turn.next) /\ AnswerChunks(chunks) = {}
      /\ OfKind(chunks, "finish") = {} /\ BlocksShown(turn.blocks, vendor, chunks)
  BY DEF StreamInv, StreamTyped, TurnState, MessageOpen
<1>2. /\ vendor' \in VendorState /\ vendor'.kind = vendor.kind /\ vendor.complete \subseteq vendor'.complete
  BY <1>1, CompletesTyped DEF Stream!ImageCompleted
<1>3. PICK progress \in TurnState :
        /\ progress = Stream!Progress /\ progress.stage = "streaming" /\ progress.next = turn.next
        /\ progress.blocks = turn.blocks
  BY <1>1, TurnNoted
<1>4. CASE turn' = Stream!Progress /\ UNCHANGED chunks
  BY <1>2, <1>3, <1>4, TurnUnmoved
<1>5. turn.images \cup {i} \in SUBSET Item
  BY <1>1 DEF TurnState
<1>6. CASE turn' = [Stream!Progress EXCEPT !.images = turn.images \cup {i}] /\ UNCHANGED chunks
  <2>1. turn' \in TurnState /\ turn'.stage = "streaming" /\ turn'.next = turn.next /\ turn'.blocks = turn.blocks
    BY <1>3, <1>5, <1>6 DEF TurnState
  <2> QED BY <1>2, <1>6, <2>1, TurnUnmoved
<1>7. CASE /\ turn' = [Stream!Progress EXCEPT !.images = turn.images \cup {i}, !.next = turn.next + 1, !.finalOutput = TRUE]
           /\ Stream!Yield(Stream!Start(turn.next, "image") \o Stream!End(turn.next, 0))
  <2>1. turn' = [progress EXCEPT !.images = turn.images \cup {i}, !.next = turn.next + 1, !.finalOutput = TRUE]
    BY <1>3, <1>7
  <2>2. PICK k \in Nat : k = turn.next /\ k + 1 \in Nat
    BY <1>1
  <2>3. turn' \in TurnState /\ turn'.stage = "streaming" /\ turn'.next = k + 1 /\ turn'.blocks = turn.blocks
    BY <1>3, <1>5, <2>1, <2>2 DEF TurnState
  <2>4. PICK more : more = chunks \o (Stream!Start(k, "image") \o (Stream!Text(k, 0) \o Stream!End(k, 0)))
    OBVIOUS
  <2>5. chunks' = more
    <3>1. Stream!End(k, 0) \in Seq(Chunk)
      BY OutputTyped
    <3>2. Stream!Text(k, 0) \o Stream!End(k, 0) = Stream!End(k, 0)
      BY <3>1, ConcatEmptySeq DEF Stream!Text
    <3> QED BY <1>7, <2>2, <2>4, <3>2 DEF Stream!Yield
  <2>6. /\ MessageBlocks(more, k + 1) /\ BlocksBegun(more) = BlocksBegun(chunks) \cup {k} /\ BlocksEnded(more) = BlocksEnded(chunks) \cup {k}
        /\ AnswerChunks(more) = {} /\ OfKind(more, "finish") = {}
        /\ \A j : j # k => Stream!Streamed(more, j) = Stream!Streamed(chunks, j)
    <3>1. 0 \in Nat /\ "image" \in {"reasoning", "image", "text", "tool-call"} /\ "image" \in {"reasoning", "image"}
      OBVIOUS
    <3> QED BY <1>1, <2>2, <2>4, <3>1, WholeBlock
  <2>7. k \notin BlocksBegun(chunks)
    BY <1>1, <2>2, NextUnused
  <2>8. PICK after : after = vendor' /\ after.kind = vendor.kind /\ vendor.complete \subseteq after.complete
    BY <1>2
  <2>9. ASSUME NEW j \in DOMAIN turn.blocks PROVE ShownBlock(turn.blocks[j], j, after, more)
    <3>1. ShownBlock(turn.blocks[j], j, vendor, chunks)
      BY <1>1 DEF BlocksShown
    <3>2. turn.blocks[j].index # None => turn.blocks[j].index # k
      BY <2>7, <3>1 DEF ShownBlock
    <3> QED BY <2>6, <2>8, <3>1, <3>2 DEF ShownBlock
  <2>10. BlocksShown(turn.blocks, after, more)
    BY <1>1, <2>6, <2>9 DEF BlocksShown
  <2>11. MessageOpen(turn'.blocks, turn'.next, vendor', chunks')
    BY <2>3, <2>5, <2>6, <2>8, <2>10 DEF MessageOpen
  <2> QED BY <1>2, <2>3, <2>11 DEF StreamInv, StreamTyped
<1> QED BY <1>4, <1>6, <1>7 DEF Stream!ImageCompleted

\* Usage or nothing, and the finish.
LEMMA FinishGiven ==
  ASSUME turn \in TurnState, NEW given, NEW next, MessageBlocks(given, next), OfKind(given, "finish") = {},
         NEW reason \in {"stop", "tool-calls", "max-tokens"},
         reason # "max-tokens" => BlocksBegun(given) \subseteq BlocksEnded(given)
  PROVE  WellFormedOf(given \o (Stream!Usage \o <<[chunk |-> "finish", reason |-> reason]>>), TRUE)
<1>1. given \in Seq(Chunk)
  BY DEF MessageBlocks
<1> DEFINE x == [chunk |-> "finish", reason |-> reason]
           u == [chunk |-> "usage"]
<1>2. x \in Chunk /\ u \in Chunk /\ u \in UsageChunk /\ u.chunk = "usage"
  BY DEF Chunk, UsageChunk, FinishChunk
<1>3. Stream!Usage = <<u>> \/ Stream!Usage = <<>>
  BY DEF Stream!Usage
<1> HIDE DEF x, u
<1>4. <<x>> \in Seq(Chunk) /\ <<u>> \in Seq(Chunk)
  BY <1>2
<1>5. CASE Stream!Usage = <<>>
  <2>1. given \o (Stream!Usage \o <<x>>) = given \o <<x>>
    BY <1>4, <1>5, ConcatEmptySeq
  <2>2. WellFormedOf(given \o <<x>>, TRUE)
    BY WholeAtEnd DEF x
  <2> QED BY <2>1, <2>2 DEF x
<1>6. CASE Stream!Usage = <<u>>
  <2>1. PICK between : between = given \o <<u>>
    OBVIOUS
  <2>2. MessageBlocks(between, next) /\ BlocksBegun(between) = BlocksBegun(given) /\ BlocksEnded(between) = BlocksEnded(given)
    BY <1>2, <2>1, OutsideBlocks
  <2>3. OfKind(between, "finish") = {}
    BY <1>1, <1>2, <2>1, KindsOneMore
  <2>4. WellFormedOf(between \o <<x>>, TRUE)
    BY <2>2, <2>3, WholeAtEnd DEF x
  <2>5. (given \o <<u>>) \o <<x>> = given \o (<<u>> \o <<x>>)
    BY <1>1, <1>4, ConcatAssociative
  <2>6. given \o (Stream!Usage \o <<x>>) = between \o <<x>>
    BY <1>6, <2>1, <2>5
  <2> QED BY <2>4, <2>6 DEF x
<1> QED BY <1>3, <1>5, <1>6

\* With no block of an item open, none is.
LEMMA AllClosed ==
  ASSUME StreamInv, turn.stage # "finished", Stream!NothingOpen
  PROVE  BlocksBegun(chunks) \subseteq BlocksEnded(chunks)
BY DEF StreamInv, MessageOpen, BlocksShown, Stream!NothingOpen

LEMMA StepFinish ==
  ASSUME StreamInv, turn.stage = "streaming", NEW reason \in {"stop", "max-tokens"}, Stream!Finish(<<>>, reason),
         reason # "max-tokens" => Stream!NothingOpen, UNCHANGED vendor
  PROVE  StreamInv'
<1>1. /\ turn \in TurnState /\ vendor \in VendorState /\ MessageBlocks(chunks, turn.next) /\ OfKind(chunks, "finish") = {}
  BY DEF StreamInv, StreamTyped, MessageOpen
<1>2. turn' \in TurnState /\ turn'.stage = "finished"
  BY <1>1 DEF Stream!Finish, TurnState
<1>3. <<>> \o Stream!Usage \o <<[chunk |-> "finish", reason |-> reason]>> = Stream!Usage \o <<[chunk |-> "finish", reason |-> reason]>>
  <2>1. Stream!Usage = <<[chunk |-> "usage"]>> \/ Stream!Usage = <<>>
    BY DEF Stream!Usage
  <2> QED BY <2>1
<1>4. chunks' = chunks \o (Stream!Usage \o <<[chunk |-> "finish", reason |-> reason]>>)
  BY <1>3 DEF Stream!Finish, Stream!Yield
<1>5. reason # "max-tokens" => BlocksBegun(chunks) \subseteq BlocksEnded(chunks)
  BY AllClosed
<1>6. WellFormedOf(chunks', TRUE)
  BY <1>1, <1>4, <1>5, FinishGiven
<1> QED BY <1>1, <1>2, <1>6 DEF StreamInv, StreamTyped

LEMMA StepShowsAnswer ==
  ASSUME StreamInv, turn.stage = "streaming", Stream!NothingOpen,
         NEW type \in {"text", "tool-call"}, NEW reason \in {"stop", "tool-calls"}, Stream!Answer(type, reason),
         UNCHANGED vendor
  PROVE  StreamInv'
<1>1. /\ turn \in TurnState /\ vendor \in VendorState /\ MessageBlocks(chunks, turn.next) /\ OfKind(chunks, "finish") = {}
      /\ AnswerChunks(chunks) = {} /\ turn.next \in Nat
  BY DEF StreamInv, StreamTyped, MessageOpen, MessageBlocks
<1>2. turn' \in TurnState /\ turn'.stage = "finished"
  <2>1. turn.next + 1 \in Nat /\ turn' = [turn EXCEPT !.stage = "finished", !.next = turn.next + 1]
    BY <1>1 DEF Stream!Answer, TurnState
  <2> QED BY <1>1, <2>1 DEF TurnState
<1>3. PICK k \in Nat : k = turn.next
  BY <1>1
<1>4. PICK end : end = Stream!Usage \o <<[chunk |-> "finish", reason |-> reason]>> /\ end \in Seq(Chunk)
  <2>1. [chunk |-> "finish", reason |-> reason] \in Chunk /\ [chunk |-> "usage"] \in Chunk
    BY DEF Chunk, UsageChunk, FinishChunk
  <2>2. Stream!Usage \in Seq(Chunk) /\ <<[chunk |-> "finish", reason |-> reason]>> \in Seq(Chunk)
    BY <2>1 DEF Stream!Usage
  <2>3. Stream!Usage \o <<[chunk |-> "finish", reason |-> reason]>> \in Seq(Chunk)
    BY <2>2, ConcatProperties
  <2> QED BY <2>3
<1>5. PICK given : given = chunks \o (Stream!Start(k, type) \o (Stream!Text(k, 1) \o Stream!End(k, 1)))
  OBVIOUS
<1>6. /\ MessageBlocks(given, k + 1) /\ BlocksBegun(given) = BlocksBegun(chunks) \cup {k} /\ BlocksEnded(given) = BlocksEnded(chunks) \cup {k}
      /\ OfKind(given, "finish") = {}
  BY <1>1, <1>3, <1>5, WholeBlock
<1>7. BlocksBegun(given) \subseteq BlocksEnded(given)
  BY <1>6, AllClosed
<1>8. chunks' = given \o end
  <2>1. Stream!Start(k, type) \in Seq(Chunk) /\ Stream!Text(k, 1) \in Seq(Chunk) /\ Stream!End(k, 1) \in Seq(Chunk) /\ chunks \in Seq(Chunk)
    BY <1>1, OutputTyped DEF MessageBlocks
  <2>2. Stream!Usage \in Seq(Chunk) /\ <<[chunk |-> "finish", reason |-> reason]>> \in Seq(Chunk)
    <3>1. [chunk |-> "finish", reason |-> reason] \in Chunk /\ [chunk |-> "usage"] \in Chunk
      BY DEF Chunk, UsageChunk, FinishChunk
    <3> QED BY <3>1 DEF Stream!Usage
  <2>3. PICK s \in Seq(Chunk), t \in Seq(Chunk), e \in Seq(Chunk), u \in Seq(Chunk), f \in Seq(Chunk), c \in Seq(Chunk) :
          /\ s = Stream!Start(k, type) /\ t = Stream!Text(k, 1) /\ e = Stream!End(k, 1)
          /\ u = Stream!Usage /\ f = <<[chunk |-> "finish", reason |-> reason]>> /\ c = chunks
    BY <2>1, <2>2
  <2>4. s \o t \o e = s \o (t \o e) /\ s \o t \in Seq(Chunk) /\ s \o (t \o e) \in Seq(Chunk)
    <3>1. PICK te \in Seq(Chunk) : te = t \o e
      BY ChunksAssociate
    <3>2. s \o te \in Seq(Chunk)
      BY ChunksAssociate
    <3>3. (s \o t) \o e = s \o (t \o e) /\ s \o t \in Seq(Chunk)
      BY ChunksAssociate
    <3> QED BY <3>1, <3>2, <3>3
  <2>5. PICK w \in Seq(Chunk) : w = s \o (t \o e)
    BY <2>4
  <2>6. (w \o u) \o f = w \o (u \o f) /\ u \o f \in Seq(Chunk)
    BY ChunksAssociate
  <2>7. c \o (w \o (u \o f)) = (c \o w) \o (u \o f)
    <3>1. PICK uf \in Seq(Chunk) : uf = u \o f
      BY ChunksAssociate
    <3>2. (c \o w) \o uf = c \o (w \o uf)
      BY AllChunksAssociate, Zenon
    <3> QED BY <3>1, <3>2
  <2>8. chunks' = chunks \o (Stream!Start(k, type) \o Stream!Text(k, 1) \o Stream!End(k, 1) \o Stream!Usage \o <<[chunk |-> "finish", reason |-> reason]>>)
    BY <1>3 DEF Stream!Answer, Stream!Yield
  <2>9. chunks' = c \o (((s \o t \o e) \o u) \o f)
    BY <2>3, <2>8
  <2>10. given = c \o w /\ end = u \o f
    BY <1>4, <1>5, <2>3, <2>5
  <2> QED BY <2>4, <2>5, <2>6, <2>7, <2>9, <2>10
<1>9. WellFormedOf(chunks', TRUE)
  BY <1>1, <1>4, <1>6, <1>7, <1>8, FinishGiven
<1> QED BY <1>1, <1>2, <1>9 DEF StreamInv, StreamTyped

LEMMA StepTurnCompleted ==
  ASSUME StreamInv, turn.stage = "streaming", Stream!TurnCompleted
  PROVE  StreamInv'
<1>1. UNCHANGED vendor /\ vendor \in VendorState
  BY DEF Stream!TurnCompleted, StreamInv, StreamTyped
<1>2. CASE Stream!Throw
  BY <1>1, <1>2, StreamFailed
<1>3. CASE Stream!Finish(<<>>, "max-tokens")
  BY <1>1, <1>3, StepFinish
<1>4. CASE Stream!NothingOpen /\ Stream!Finish(<<>>, "stop")
  BY <1>1, <1>4, StepFinish
<1>5. CASE Stream!NothingOpen /\ Stream!Answer("text", "stop")
  BY <1>1, <1>5, StepShowsAnswer
<1>6. CASE Stream!NothingOpen /\ Stream!Answer("tool-call", "tool-calls")
  BY <1>1, <1>6, StepShowsAnswer
<1> QED BY <1>2, <1>3, <1>4, <1>5, <1>6 DEF Stream!TurnCompleted

LEMMA StreamNext == StreamInv /\ [Stream!Next]_(Stream!streamVars) => StreamInv'
<1> SUFFICES ASSUME StreamInv, [Stream!Next]_(Stream!streamVars) PROVE StreamInv'
  OBVIOUS
<1>1. CASE UNCHANGED Stream!streamVars
  BY <1>1 DEF StreamInv, StreamTyped, Stream!streamVars
<1>2. CASE Stream!Next
  <2>1. turn.stage = "streaming"
    BY <1>2 DEF Stream!Next
  <2>2. CASE \E willRetry \in BOOLEAN : Stream!Error(willRetry)
    BY <2>1, <2>2, StepError
  <2>3. ASSUME NEW i \in Item,
               Stream!ItemStarted(i) \/ Stream!Delta(i) \/ Stream!CompletedOtherwise(i) \/ Stream!CommentaryCompleted(i)
                 \/ Stream!AnswerCompleted(i) \/ Stream!ImageCompleted(i)
        PROVE  StreamInv'
    BY <2>1, <2>3, StepStarted, StepDelta, StepOtherwise, StepCommentary, StepAnswer, StepImage
  <2>4. CASE Stream!TokenUsage
    BY <2>1, <2>4, StepUsage
  <2>5. CASE Stream!TurnCompleted
    BY <2>1, <2>5, StepTurnCompleted
  <2> QED BY <1>2, <2>2, <2>3, <2>4, <2>5 DEF Stream!Next
<1> QED BY <1>1, <1>2

LEMMA MessageWellFormed == Stream!Spec => []Stream!WellFormed
<1>1. Stream!Init => StreamInv
  BY StreamInit
<1>2. StreamInv /\ [Stream!Next]_(Stream!streamVars) => StreamInv'
  BY StreamNext
<1>3. StreamInv => Stream!WellFormed
  BY WellFormedHolds
<1> QED BY <1>1, <1>2, <1>3, PTL DEF Stream!Spec

\* CodexStream!WellFormed: what DSH reads of a turn is one well-formed message, in whatever
\* order the notifications of its items come.
THEOREM MessagesWellFormed == Stream!Spec => []WellFormed
BY MessageWellFormed, PTL DEF WellFormed
=============================================================================
