------------------------- MODULE UsageServiceProofs -------------------------
(***************************************************************************)
(* Proofs about the usage cache for any number of providers, overlapping   *)
(* refreshes, reloads and invalidations.                                   *)
(***************************************************************************)
EXTENDS UsageService, TLAPS

\* Identities are never reused, and a token is the last one created.
Identities ==
  /\ \A p \in Provider :
       /\ registrations[p] <= generations[p]
       /\ invalidationTokens[p] \in {Undefined, invalidations[p]}
  /\ \A c \in Caller : call[c].pc # "idle" =>
       /\ call[c].registration <= generations[call[c].provider]
       /\ call[c].invalidations <= invalidations[call[c].provider]
       /\ call[c].token \in {Undefined, call[c].invalidations}

IsCurrent(c) ==
  /\ call[c].pc = "collecting"
  /\ call[c].registration = registrations[call[c].provider]
  /\ call[c].invalidations = invalidations[call[c].provider]

\* A collection that nothing superseded is the one that refreshes join.
CurrentIsJoinable ==
  \A c \in Caller : IsCurrent(c) =>
    /\ inFlight[call[c].provider] # None
    /\ inFlight[call[c].provider].promise = c
    /\ call[c].token = invalidationTokens[call[c].provider]

\* What refreshes join was not superseded when it started.
JoinableIsCurrent ==
  \A p \in Provider : Joinable(p) => call[inFlight[p].promise].invalidations = invalidations[p]

\* What a settled or joined collection answers belongs to its own start.
Answers ==
  \A c \in Caller :
    /\ call[c].pc = "settled" /\ call[c].result # Failed =>
         /\ call[c].result.invalidations = call[c].invalidations
         /\ call[c].result.generation = call[c].registration
    /\ call[c].pc = "joined" =>
         LET starter == call[call[c].promise] IN
         /\ starter.pc = "collecting"
         /\ starter.registration = call[c].registration
         /\ starter.invalidations >= call[c].invalidations

Inv ==
  /\ TypeOK /\ Identities /\ NoResurrection /\ InFlightAlive
  /\ CurrentIsJoinable /\ JoinableIsCurrent /\ OneCollection /\ Answers /\ FreshRefresh

-----------------------------------------------------------------------------
(* Types *)

\* registrationOrder keeps listing each registered provider once.
LEMMA WithoutOrder ==
  ASSUME NEW order \in Seq(Provider), NEW p \in Provider,
         \E i \in 1..Len(order) : order[i] = p,
         \A i, j \in 1..Len(order) : order[i] = order[j] => i = j
  PROVE  /\ Without(order, p) \in Seq(Provider)
         /\ \A q \in Provider : (\E i \in 1..Len(Without(order, p)) : Without(order, p)[i] = q)
                                <=> q # p /\ \E i \in 1..Len(order) : order[i] = q
         /\ \A i, j \in 1..Len(Without(order, p)) :
              Without(order, p)[i] = Without(order, p)[j] => i = j
<1> DEFINE at == CHOOSE i \in 1..Len(order) : order[i] = p
           rest == Without(order, p)
           from(i) == IF i < at THEN i ELSE i + 1
<1>1. at \in 1..Len(order) /\ order[at] = p
  OBVIOUS
<1>2. Len(order) \in Nat
  OBVIOUS
<1>3. rest = [i \in 1..(Len(order) - 1) |-> order[from(i)]]
  BY DEF Without
<1>4. \A i \in 1..(Len(order) - 1) : from(i) \in 1..Len(order) /\ from(i) # at
  BY <1>1, <1>2
<1> HIDE DEF at
<1>5. Len(order) - 1 \in Nat
  BY <1>1, <1>2
<1>6. \A i \in 1..(Len(order) - 1) : rest[i] \in Provider
  BY <1>3, <1>4
<1>7. rest \in Seq(Provider) /\ Len(rest) = Len(order) - 1
  <2> HIDE DEF rest, from
  <2> QED BY <1>3, <1>5, <1>6
<1>8. \A i \in 1..Len(rest) : rest[i] = order[from(i)]
  BY <1>3, <1>7
<1> HIDE DEF rest
<1>9. ASSUME NEW q \in Provider
      PROVE  (\E i \in 1..Len(rest) : rest[i] = q) <=> q # p /\ \E i \in 1..Len(order) : order[i] = q
  <2>1. ASSUME NEW i \in 1..Len(rest), rest[i] = q
        PROVE  q # p /\ \E j \in 1..Len(order) : order[j] = q
    BY <2>1, <1>1, <1>4, <1>7, <1>8
  <2>2. ASSUME q # p, NEW j \in 1..Len(order), order[j] = q
        PROVE  \E i \in 1..Len(rest) : rest[i] = q
    <3>1. j # at
      BY <2>2, <1>1
    <3>2. CASE j < at
      <4>1. j \in 1..Len(rest) /\ from(j) = j
        BY <3>2, <1>1, <1>2, <1>7
      <4> QED BY <4>1, <1>8, <2>2
    <3>3. CASE j > at
      <4>1. j - 1 \in 1..Len(rest) /\ from(j - 1) = j
        BY <3>3, <1>1, <1>2, <1>7
      <4> QED BY <4>1, <1>8, <2>2
    <3> QED BY <3>1, <3>2, <3>3, <1>1, <1>2
  <2> QED BY <2>1, <2>2
<1>10. ASSUME NEW i \in 1..Len(rest), NEW j \in 1..Len(rest), rest[i] = rest[j]
       PROVE  i = j
  <2>1. from(i) = from(j)
    BY <1>10, <1>4, <1>7, <1>8
  <2> QED BY <2>1, <1>1, <1>2, <1>7
<1> QED BY <1>7, <1>9, <1>10 DEF rest

LEMMA InitTypes == Init => TypeOK
<1> SUFFICES ASSUME Init PROVE TypeOK
  OBVIOUS
<1>1. (CHOOSE p \in Provider : TRUE) \in Provider
  BY ProviderAssumption
<1>2. \A c \in Caller : Idle(c) \in RefreshCall
  BY <1>1, BoundsAssumption DEF Idle, RefreshCall, Generation, Time, Undefined
<1> QED
  BY <1>2, BoundsAssumption DEF Init, TypeOK, Time, Undefined

LEMMA ResolveTypes ==
  ASSUME TypeOK, NEW c \in Caller, NEW result \in Snapshot \cup {Failed}, Resolve(c, result)
  PROVE  call' \in [Caller -> RefreshCall]
<1>1. \A d \in Caller : call[d] \in RefreshCall
  BY DEF TypeOK
<1>2. ASSUME NEW r \in RefreshCall, NEW label \in {"settled", "returned"}
      PROVE  [r EXCEPT !.pc = label, !.result = result] \in RefreshCall
  BY DEF RefreshCall
<1> QED BY <1>1, <1>2 DEF Resolve

LEMMA CalledTypes ==
  ASSUME TypeOK, NEW c \in Caller, NEW p \in Provider, NEW force \in BOOLEAN, Registered(p),
         NEW pc \in {"collecting", "joined", "returned"}, NEW promise \in Caller,
         NEW result \in Snapshot \cup {None, Failed}
  PROVE  Called(c, p, force, pc, promise, result) \in RefreshCall
  BY DEF TypeOK, Registered, Called, RefreshCall

LEMMA CollectedTypes ==
  ASSUME TypeOK, NEW c \in Caller
  PROVE  Collected(c) \in Snapshot
  BY DEF TypeOK, Collected, RefreshCall, Snapshot

LEMMA RegistrationTypes ==
  ASSUME TypeOK, NEW p \in Provider,
         Register(p) \/ (\E g \in Generation : Withdraw(p, g)) \/ Invalidate(p)
  PROVE  TypeOK'
<1>1. CASE Register(p)
  <2>1. generations[p] + 1 \in Generation
    BY <1>1, BoundsAssumption DEF TypeOK, Register, Generation, Undefined
  <2>2. generations[p] + 1 # Undefined
    BY <2>1 DEF Generation, Undefined
  <2>3. registrations[p] = Undefined
    BY <1>1 DEF Register, Registered
  <2>4. /\ registrationOrder' \in Seq(Provider)
        /\ Len(registrationOrder') = Len(registrationOrder) + 1
        /\ registrationOrder'[Len(registrationOrder) + 1] = p
        /\ \A i \in 1..Len(registrationOrder) : registrationOrder'[i] = registrationOrder[i]
    BY <1>1 DEF TypeOK, Register
  <2>5. Len(registrationOrder) \in Nat
    BY DEF TypeOK
  <2>6. \A q \in Provider : registrations'[q] = IF q = p THEN generations[p] + 1 ELSE registrations[q]
    BY <1>1 DEF TypeOK, Register
  <2>7. \A q \in Provider : registrations'[q] # Undefined
          <=> \E i \in 1..Len(registrationOrder') : registrationOrder'[i] = q
    <3> SUFFICES ASSUME NEW q \in Provider
                 PROVE  registrations'[q] # Undefined
                          <=> \E i \in 1..Len(registrationOrder') : registrationOrder'[i] = q
      OBVIOUS
    <3>1. registrations[q] # Undefined
            <=> \E i \in 1..Len(registrationOrder) : registrationOrder[i] = q
      BY DEF TypeOK
    <3>2. (\E i \in 1..Len(registrationOrder') : registrationOrder'[i] = q)
            <=> q = p \/ \E i \in 1..Len(registrationOrder) : registrationOrder[i] = q
      BY <2>4, <2>5
    <3> QED BY <2>2, <2>6, <3>1, <3>2
  <2>8. \A i, j \in 1..Len(registrationOrder') : registrationOrder'[i] = registrationOrder'[j] => i = j
    BY <2>3, <2>4, <2>5 DEF TypeOK
  <2>9. /\ registrations' \in [Provider -> {Undefined} \cup Generation]
        /\ generations' \in [Provider -> {Undefined} \cup Generation]
    BY <1>1, <2>1 DEF TypeOK, Register
  <2> QED BY <1>1, <2>4, <2>7, <2>8, <2>9 DEF TypeOK, Register
<1>2. ASSUME NEW g \in Generation, Withdraw(p, g) PROVE TypeOK'
  <2>1. registrations[p] # Undefined
    BY <1>2 DEF Withdraw, Generation, Undefined
  <2>2. /\ registrationOrder' \in Seq(Provider)
        /\ \A q \in Provider : (\E i \in 1..Len(registrationOrder') : registrationOrder'[i] = q)
                               <=> q # p /\ \E i \in 1..Len(registrationOrder) : registrationOrder[i] = q
        /\ \A i, j \in 1..Len(registrationOrder') :
             registrationOrder'[i] = registrationOrder'[j] => i = j
    <3>1. /\ registrationOrder \in Seq(Provider)
          /\ \E i \in 1..Len(registrationOrder) : registrationOrder[i] = p
          /\ \A i, j \in 1..Len(registrationOrder) :
               registrationOrder[i] = registrationOrder[j] => i = j
      BY <2>1 DEF TypeOK
    <3>2. registrationOrder' = Without(registrationOrder, p)
      BY <1>2 DEF Withdraw
    <3>3. /\ Without(registrationOrder, p) \in Seq(Provider)
          /\ \A q \in Provider :
               (\E i \in 1..Len(Without(registrationOrder, p)) : Without(registrationOrder, p)[i] = q)
               <=> q # p /\ \E i \in 1..Len(registrationOrder) : registrationOrder[i] = q
          /\ \A i, j \in 1..Len(Without(registrationOrder, p)) :
               Without(registrationOrder, p)[i] = Without(registrationOrder, p)[j] => i = j
      BY <3>1, WithoutOrder
    <3> QED BY <3>2, <3>3
  <2>3. \A q \in Provider : registrations'[q] = IF q = p THEN Undefined ELSE registrations[q]
    BY <1>2 DEF TypeOK, Withdraw
  <2>4. \A q \in Provider : registrations'[q] # Undefined
          <=> \E i \in 1..Len(registrationOrder') : registrationOrder'[i] = q
    BY <2>2, <2>3 DEF TypeOK
  <2> QED BY <1>2, <2>2, <2>4 DEF TypeOK, Withdraw, identities
<1>3. CASE Invalidate(p)
  <2>1. invalidations[p] + 1 \in Token
    BY <1>3, BoundsAssumption DEF TypeOK, Invalidate, Token, Undefined
  <2> QED BY <1>3, <2>1 DEF TypeOK, Invalidate
<1> QED BY <1>1, <1>2, <1>3

LEMMA RefreshTypes ==
  ASSUME TypeOK, NEW c \in Caller, NEW p \in Provider, NEW force \in BOOLEAN,
         RefreshProvider(c, p, force)
  PROVE  TypeOK'
<1>1. Registered(p)
  BY DEF RefreshProvider
<1>2. CASE Join(c, p, force)
  <2> DEFINE starter == inFlight[p].promise
  <2>1. starter \in Caller
    BY <1>2 DEF TypeOK, Join, Joinable, InFlightRefresh
  <2>2. call[starter].result \in Snapshot \cup {None, Failed}
    BY <2>1 DEF TypeOK, RefreshCall
  <2>3. call' \in [Caller -> RefreshCall]
    BY <1>1, <1>2, <2>1, <2>2, CalledTypes DEF TypeOK, Join
  <2> QED BY <1>2, <2>3 DEF TypeOK, Join, host, identities
<1>3. CASE FromCache(c, p, force)
  <2>1. cache[p] \in Snapshot
    BY <1>3 DEF TypeOK, FromCache, AnswersFromCache
  <2>2. call' \in [Caller -> RefreshCall]
    BY <1>1, <1>3, <2>1, CalledTypes DEF TypeOK, FromCache
  <2> QED BY <1>3, <2>2 DEF TypeOK, FromCache, host, identities
<1>4. CASE Collect(c, p, force)
  <2>1. call' \in [Caller -> RefreshCall]
    BY <1>1, <1>4, CalledTypes DEF TypeOK, Collect
  <2>2. [registration |-> registrations[p], token |-> invalidationTokens[p], promise |-> c]
          \in InFlightRefresh
    BY <1>1 DEF TypeOK, Registered, InFlightRefresh
  <2> QED BY <1>4, <2>1, <2>2 DEF TypeOK, Collect, identities
<1> QED BY <1>2, <1>3, <1>4 DEF RefreshProvider

LEMMA SettlementTypes ==
  ASSUME TypeOK, NEW c \in Caller,
         CollectorAnswers(c) \/ CollectorFails(c) \/ RefreshSettled(c) \/ Return(c)
  PROVE  TypeOK'
<1>1. CASE CollectorAnswers(c)
  <2>1. Collected(c) \in Snapshot
    BY CollectedTypes
  <2>2. call' \in [Caller -> RefreshCall]
    BY <1>1, <2>1, ResolveTypes DEF CollectorAnswers
  <2>3. cache' \in [Provider -> Snapshot \cup {None}]
    BY <1>1, <2>1 DEF CollectorAnswers, TypeOK
  <2>4. invalidationTokens' \in [Provider -> {Undefined} \cup Token]
    BY <1>1 DEF CollectorAnswers, TypeOK
  <2> QED BY <1>1, <2>2, <2>3, <2>4 DEF TypeOK, CollectorAnswers, identities
<1>2. CASE CollectorFails(c)
  <2>1. call' \in [Caller -> RefreshCall]
    BY <1>2, ResolveTypes DEF CollectorFails
  <2> QED BY <1>2, <2>1 DEF TypeOK, CollectorFails, host, identities
<1>3. CASE RefreshSettled(c)
  <2>1. call[c] \in RefreshCall
    BY DEF TypeOK
  <2>2. [call[c] EXCEPT !.pc = "returned"] \in RefreshCall
    BY <2>1 DEF RefreshCall
  <2>3. call' \in [Caller -> RefreshCall]
    BY <1>3, <2>2 DEF TypeOK, RefreshSettled
  <2>4. inFlight' \in [Provider -> InFlightRefresh \cup {None}]
    BY <1>3 DEF TypeOK, RefreshSettled
  <2> QED BY <1>3, <2>3, <2>4 DEF TypeOK, RefreshSettled, identities
<1>4. CASE Return(c)
  <2>1. (CHOOSE p \in Provider : TRUE) \in Provider
    BY ProviderAssumption
  <2>2. Idle(c) \in RefreshCall
    BY <2>1, BoundsAssumption DEF Idle, RefreshCall, Generation, Time, Undefined
  <2> QED BY <1>4, <2>2 DEF TypeOK, Return, host, identities
<1> QED BY <1>1, <1>2, <1>3, <1>4

\* Every step keeps the types.
LEMMA TypesPreserved == TypeOK /\ [Next]_vars => TypeOK'
<1> SUFFICES ASSUME TypeOK, [Next]_vars PROVE TypeOK'
  OBVIOUS
<1>1. CASE Tick
  BY <1>1, BoundsAssumption DEF TypeOK, Tick, Time, host, identities
<1>2. CASE UNCHANGED vars
  BY <1>2 DEF TypeOK, vars, host, identities
<1> QED
  BY <1>1, <1>2, RegistrationTypes, RefreshTypes, SettlementTypes DEF Next

-----------------------------------------------------------------------------
\* The usage cache keeps its types and lists each registered provider once, in
\* registration order.
THEOREM TypeCorrect == Spec => []TypeOK
BY InitTypes, TypesPreserved, PTL DEF Spec

-----------------------------------------------------------------------------
(* The inductive invariant *)

LEMMA InitInv == Init => Inv
<1> SUFFICES ASSUME Init PROVE Inv
  OBVIOUS
<1>1. TypeOK
  BY InitTypes
<1>2. \A c \in Caller : call[c].pc = "idle"
  BY DEF Init, Idle
<1>3. Identities /\ NoResurrection /\ InFlightAlive
  BY <1>2 DEF Init, Identities, NoResurrection, InFlightAlive, Undefined
<1>4. CurrentIsJoinable /\ JoinableIsCurrent /\ OneCollection /\ Answers /\ FreshRefresh
  BY <1>2 DEF Init, CurrentIsJoinable, IsCurrent, JoinableIsCurrent, Joinable, OneCollection,
              Answers, FreshRefresh
<1> QED BY <1>1, <1>3, <1>4 DEF Inv

\* What the types say about numbers.
LEMMA Numbers ==
  ASSUME TypeOK
  PROVE  /\ \A p \in Provider : /\ registrations[p] \in Nat /\ invalidationTokens[p] \in Nat
                                /\ generations[p] \in Nat /\ invalidations[p] \in Nat
         /\ \A c \in Caller : /\ call[c] \in RefreshCall /\ call[c].provider \in Provider
                              /\ call[c].registration \in Nat \ {0}
                              /\ call[c].token \in Nat /\ call[c].invalidations \in Nat
         /\ \A p \in Provider : inFlight[p] # None =>
              /\ inFlight[p].promise \in Caller
              /\ inFlight[p].registration \in Nat \ {0} /\ inFlight[p].token \in Nat
<1>1. /\ \A g \in Generation : g \in Nat \ {0}
      /\ \A t \in {Undefined} \cup Token : t \in Nat
      /\ \A g \in {Undefined} \cup Generation : g \in Nat
  BY BoundsAssumption DEF Generation, Token, Undefined
<1>2. \A p \in Provider : /\ registrations[p] \in Nat /\ invalidationTokens[p] \in Nat
                          /\ generations[p] \in Nat /\ invalidations[p] \in Nat
  BY <1>1 DEF TypeOK
<1>3. ASSUME NEW c \in Caller
      PROVE  /\ call[c] \in RefreshCall /\ call[c].provider \in Provider
             /\ call[c].registration \in Nat \ {0}
             /\ call[c].token \in Nat /\ call[c].invalidations \in Nat
  <2>1. call[c] \in RefreshCall
    BY DEF TypeOK
  <2> QED BY <2>1, <1>1 DEF RefreshCall
<1>4. ASSUME NEW p \in Provider, inFlight[p] # None
      PROVE  /\ inFlight[p].promise \in Caller
             /\ inFlight[p].registration \in Nat \ {0} /\ inFlight[p].token \in Nat
  <2>1. inFlight[p] \in InFlightRefresh
    BY <1>4 DEF TypeOK
  <2> QED BY <2>1, <1>1 DEF InFlightRefresh
<1> QED BY <1>2, <1>3, <1>4

LEMMA RegisterInv ==
  ASSUME Inv, NEW p \in Provider, Register(p)
  PROVE  Inv'
<1>1. TypeOK'
  BY RegistrationTypes DEF Inv
<1>2. /\ call' = call /\ cache' = cache /\ inFlight' = inFlight
      /\ invalidationTokens' = invalidationTokens /\ invalidations' = invalidations
      /\ registrations[p] = 0 /\ Undefined = 0
      /\ \A q \in Provider : /\ registrations'[q] = IF q = p THEN generations[p] + 1 ELSE registrations[q]
                             /\ generations'[q] = IF q = p THEN generations[p] + 1 ELSE generations[q]
  BY DEF Inv, TypeOK, Register, Registered, Undefined
<1>3. /\ Identities /\ NoResurrection /\ InFlightAlive /\ CurrentIsJoinable
      /\ JoinableIsCurrent /\ OneCollection /\ Answers /\ FreshRefresh
  BY DEF Inv
<1>4. TypeOK
  BY DEF Inv
<1>5. inFlight[p] = None /\ cache[p] = None
  <2>1. cache[p] # None => cache[p].generation \in Nat \ {0}
    BY <1>4, BoundsAssumption DEF TypeOK, Snapshot, Generation
  <2> QED BY <1>2, <1>3, <1>4, <2>1, Numbers DEF NoResurrection
<1>6. Identities'
  BY <1>2, <1>3, <1>4, Numbers DEF Identities
<1>7. NoResurrection'
  BY <1>2, <1>3, <1>4, <1>5, Numbers DEF NoResurrection, Registered
<1>8. InFlightAlive' /\ OneCollection' /\ Answers' /\ FreshRefresh'
  BY <1>2, <1>3 DEF InFlightAlive, OneCollection, Answers, FreshRefresh
<1>9. CurrentIsJoinable'
  <2> SUFFICES ASSUME NEW c \in Caller, IsCurrent(c)'
               PROVE  IsCurrent(c)
    BY <1>2, <1>3 DEF CurrentIsJoinable
  <2>1. call[c].provider # p
    BY <1>2, <1>3, <1>4, Numbers DEF IsCurrent, Identities
  <2> QED BY <2>1, <1>2, <1>4, Numbers DEF IsCurrent
<1>10. JoinableIsCurrent'
  BY <1>2, <1>3, <1>5 DEF JoinableIsCurrent, Joinable
<1> QED BY <1>1, <1>6, <1>7, <1>8, <1>9, <1>10 DEF Inv

LEMMA WithdrawInv ==
  ASSUME Inv, NEW p \in Provider, NEW g \in Generation, Withdraw(p, g)
  PROVE  Inv'
<1>1. TypeOK'
  BY RegistrationTypes DEF Inv
<1>2. TypeOK /\ g # 0 /\ Undefined = 0 /\ registrations[p] = g
  BY DEF Inv, Withdraw, Generation, Undefined
<1>3. /\ Identities /\ NoResurrection /\ InFlightAlive /\ CurrentIsJoinable
      /\ JoinableIsCurrent /\ OneCollection /\ Answers /\ FreshRefresh
  BY DEF Inv
<1>4. /\ call' = call /\ invalidations' = invalidations /\ generations' = generations
      /\ \A q \in Provider :
           /\ registrations'[q] = IF q = p THEN 0 ELSE registrations[q]
           /\ cache'[q] = IF q = p THEN None ELSE cache[q]
           /\ invalidationTokens'[q] = IF q = p THEN 0 ELSE invalidationTokens[q]
  BY <1>2 DEF TypeOK, Withdraw, identities, Undefined
<1>5. \A q \in Provider : inFlight'[q] = IF q = p THEN None ELSE inFlight[q]
  BY <1>2, <1>3 DEF TypeOK, Withdraw, NoResurrection
<1>6. Identities'
  BY <1>2, <1>3, <1>4, Numbers DEF Identities
<1>7. NoResurrection'
  BY <1>2, <1>3, <1>4, <1>5 DEF NoResurrection, Registered
<1>8. InFlightAlive' /\ OneCollection' /\ Answers' /\ FreshRefresh'
  BY <1>3, <1>4, <1>5 DEF InFlightAlive, OneCollection, Answers, FreshRefresh
<1>9. CurrentIsJoinable'
  <2> SUFFICES ASSUME NEW c \in Caller, IsCurrent(c)'
               PROVE  call[c].provider # p /\ IsCurrent(c)
    BY <1>2, <1>3, <1>4, <1>5, Numbers DEF CurrentIsJoinable
  <2> QED BY <1>2, <1>4, Numbers DEF IsCurrent
<1>10. JoinableIsCurrent'
  BY <1>3, <1>4, <1>5 DEF JoinableIsCurrent, Joinable
<1> QED BY <1>1, <1>6, <1>7, <1>8, <1>9, <1>10 DEF Inv

LEMMA InvalidateInv ==
  ASSUME Inv, NEW p \in Provider, Invalidate(p)
  PROVE  Inv'
<1>1. TypeOK'
  BY RegistrationTypes DEF Inv
<1>2. TypeOK /\ Undefined = 0 /\ registrations[p] # 0
  BY DEF Inv, Invalidate, Registered, Undefined
<1>3. /\ Identities /\ NoResurrection /\ InFlightAlive /\ CurrentIsJoinable
      /\ JoinableIsCurrent /\ OneCollection /\ Answers /\ FreshRefresh
  BY DEF Inv
<1>4. /\ call' = call /\ registrations' = registrations /\ generations' = generations
      /\ inFlight' = inFlight
      /\ \A q \in Provider :
           /\ invalidations'[q] = IF q = p THEN invalidations[p] + 1 ELSE invalidations[q]
           /\ cache'[q] = IF q = p THEN None ELSE cache[q]
           /\ invalidationTokens'[q] = IF q = p THEN invalidations[p] + 1 ELSE invalidationTokens[q]
  BY <1>2 DEF TypeOK, Invalidate
<1>5. Identities'
  BY <1>2, <1>3, <1>4, Numbers DEF Identities
<1>6. NoResurrection'
  BY <1>2, <1>3, <1>4 DEF NoResurrection, Registered
<1>7. InFlightAlive' /\ OneCollection' /\ Answers' /\ FreshRefresh'
  BY <1>3, <1>4 DEF InFlightAlive, OneCollection, Answers, FreshRefresh
<1>8. CurrentIsJoinable'
  <2> SUFFICES ASSUME NEW c \in Caller, IsCurrent(c)'
               PROVE  call[c].provider # p /\ IsCurrent(c)
    BY <1>2, <1>3, <1>4, Numbers DEF CurrentIsJoinable
  <2>1. call[c].invalidations <= invalidations[call[c].provider]
    BY <1>3, <1>4 DEF Identities, IsCurrent
  <2>2. call[c].provider # p
    BY <2>1, <1>2, <1>4, Numbers DEF IsCurrent
  <2> QED BY <2>2, <1>2, <1>4, Numbers DEF IsCurrent
<1>9. JoinableIsCurrent'
  <2> SUFFICES ASSUME NEW q \in Provider, Joinable(q)'
               PROVE  q # p
    BY <1>3, <1>4 DEF JoinableIsCurrent, Joinable
  <2>1. ASSUME q = p PROVE FALSE
    <3>1. inFlight[p] # None /\ inFlight[p].token = invalidations[p] + 1
      BY <2>1, <1>4 DEF Joinable
    <3>2. LET starter == inFlight[p].promise IN
          /\ call[starter].pc # "idle" /\ call[starter].provider = p
          /\ call[starter].token = inFlight[p].token
      BY <3>1, <1>3 DEF InFlightAlive
    <3>3. call[inFlight[p].promise].token <= invalidations[p]
      BY <3>1, <3>2, <1>2, <1>3, Numbers DEF Identities
    <3> QED BY <3>1, <3>2, <3>3, <1>2, Numbers
  <2> QED BY <2>1
<1> QED BY <1>1, <1>5, <1>6, <1>7, <1>8, <1>9 DEF Inv

\* A call that is answered or joins changes nothing but itself, and what it
\* changes to must belong to the invariant.
LEMMA CallChangeInv ==
  ASSUME Inv, TypeOK', NEW c \in Caller, NEW r \in RefreshCall,
         call[c].pc \in {"idle", "returned"}, r.pc \in {"idle", "joined", "returned"},
         call' = [call EXCEPT ![c] = r], UNCHANGED host, UNCHANGED identities,
         r.pc # "idle" =>
           /\ r.registration <= generations[r.provider]
           /\ r.invalidations <= invalidations[r.provider]
           /\ r.token \in {Undefined, r.invalidations},
         r.pc = "joined" =>
           LET starter == call[r.promise] IN
           /\ starter.pc = "collecting"
           /\ starter.registration = r.registration
           /\ starter.invalidations >= r.invalidations,
         r.pc = "returned" /\ r.fresh /\ r.result # Failed =>
           r.result.invalidations >= r.invalidations /\ r.result.generation = r.registration
  PROVE  Inv'
<1>1. /\ registrations' = registrations /\ cache' = cache /\ inFlight' = inFlight
      /\ invalidationTokens' = invalidationTokens
      /\ generations' = generations /\ invalidations' = invalidations
  BY DEF host, identities
<1>2. call'[c] = r /\ \A d \in Caller : d # c => call'[d] = call[d]
  BY DEF Inv, TypeOK
<1>3. /\ Identities /\ NoResurrection /\ InFlightAlive /\ CurrentIsJoinable
      /\ JoinableIsCurrent /\ OneCollection /\ Answers /\ FreshRefresh /\ TypeOK
  BY DEF Inv
<1>4. Identities'
  BY <1>1, <1>2, <1>3 DEF Identities
<1>5. NoResurrection'
  BY <1>1, <1>3 DEF NoResurrection, Registered
<1>6. \A p \in Provider : inFlight[p] # None =>
        inFlight[p].promise \in Caller /\ inFlight[p].promise # c
  BY <1>3, Numbers DEF InFlightAlive
<1>7. InFlightAlive'
  BY <1>1, <1>2, <1>3, <1>6 DEF InFlightAlive
<1>8. CurrentIsJoinable'
  BY <1>1, <1>2, <1>3 DEF CurrentIsJoinable, IsCurrent
<1>9. JoinableIsCurrent'
  BY <1>1, <1>2, <1>3, <1>6 DEF JoinableIsCurrent, Joinable
<1>10. OneCollection'
  BY <1>2, <1>3 DEF OneCollection
<1>11. Answers'
  <2>1. \A d \in Caller : call[d].promise \in Caller
    BY <1>3 DEF TypeOK, RefreshCall
  <2>2. r.promise \in Caller
    BY DEF RefreshCall
  <2> QED BY <1>2, <1>3, <2>1, <2>2 DEF Answers
<1>12. FreshRefresh'
  BY <1>2, <1>3 DEF FreshRefresh
<1> QED BY <1>4, <1>5, <1>7, <1>8, <1>9, <1>10, <1>11, <1>12 DEF Inv

\* What refreshProvider captured.
LEMMA CalledFields ==
  ASSUME Inv, NEW c \in Caller, NEW p \in Provider, NEW force \in BOOLEAN, Registered(p),
         NEW pc \in {"collecting", "joined", "returned"}, NEW promise \in Caller,
         NEW result \in Snapshot \cup {None, Failed},
         NEW r, r = Called(c, p, force, pc, promise, result)
  PROVE  /\ r \in RefreshCall
         /\ r.pc = pc /\ r.provider = p /\ r.promise = promise /\ r.result = result
         /\ r.registration = registrations[p] /\ r.token = invalidationTokens[p]
         /\ r.invalidations = invalidations[p]
         /\ r.fresh = (force \/ invalidationTokens[p] # Undefined)
         /\ r.registration <= generations[p] /\ r.invalidations <= invalidations[p]
         /\ r.token \in {Undefined, r.invalidations}
<1>1. TypeOK /\ Identities
  BY DEF Inv
<1>2. /\ r.pc = pc /\ r.provider = p /\ r.promise = promise /\ r.result = result
      /\ r.registration = registrations[p] /\ r.token = invalidationTokens[p]
      /\ r.invalidations = invalidations[p]
      /\ r.fresh = (force \/ invalidationTokens[p] # Undefined)
  BY DEF Called
<1>3. r \in RefreshCall
  BY <1>1, CalledTypes
<1> QED BY <1>1, <1>2, <1>3, Numbers DEF Identities

LEMMA JoinInv ==
  ASSUME Inv, NEW c \in Caller, NEW p \in Provider, NEW force \in BOOLEAN,
         call[c].pc = "idle", Registered(p), Join(c, p, force)
  PROVE  Inv'
<1> DEFINE starter == inFlight[p].promise
           settled == call[starter].pc = "settled"
           pc == IF settled THEN "returned" ELSE "joined"
           result == IF settled THEN call[starter].result ELSE None
           r == Called(c, p, force, pc, starter, result)
<1>1. TypeOK'
  BY RefreshTypes DEF Inv, RefreshProvider
<1>2. /\ TypeOK /\ InFlightAlive /\ JoinableIsCurrent /\ Answers /\ Joinable(p)
      /\ call' = [call EXCEPT ![c] = r] /\ UNCHANGED host /\ UNCHANGED identities
  BY DEF Inv, Join
<1>3. starter \in Caller /\ inFlight[p] # None
  BY <1>2, Numbers DEF Joinable
<1>4. /\ call[starter].pc \in {"collecting", "settled"}
      /\ call[starter].registration = registrations[p]
      /\ call[starter].invalidations = invalidations[p]
  BY <1>2, <1>3 DEF InFlightAlive, Joinable, JoinableIsCurrent
<1>5. result \in Snapshot \cup {None, Failed} /\ pc \in {"joined", "returned"}
  BY <1>2, <1>3 DEF TypeOK, RefreshCall
<1>6. settled /\ result # Failed => /\ result.invalidations = invalidations[p]
                                    /\ result.generation = registrations[p]
  BY <1>2, <1>3, <1>4 DEF Answers
<1>7. invalidations[p] \in Nat
  BY <1>2, Numbers
<1> HIDE DEF starter, settled, pc, result
<1>8. /\ r \in RefreshCall
      /\ r.pc = pc /\ r.provider = p /\ r.promise = starter /\ r.result = result
      /\ r.registration = registrations[p] /\ r.invalidations = invalidations[p]
      /\ r.registration <= generations[p] /\ r.invalidations <= invalidations[p]
      /\ r.token \in {Undefined, r.invalidations}
  BY <1>3, <1>5, CalledFields
<1> HIDE DEF r
<1>9. /\ pc = "joined" => call[starter].pc = "collecting"
      /\ pc = "returned" => settled
  BY <1>4 DEF pc, settled
<1> QED BY <1>1, <1>2, <1>4, <1>5, <1>6, <1>7, <1>8, <1>9, CallChangeInv

LEMMA FromCacheInv ==
  ASSUME Inv, NEW c \in Caller, NEW p \in Provider, NEW force \in BOOLEAN,
         call[c].pc = "idle", Registered(p), FromCache(c, p, force)
  PROVE  Inv'
<1> DEFINE result == IF Deadline(p) > MaxSafeInteger THEN Failed ELSE cache[p]
           r == Called(c, p, force, "returned", c, result)
<1>1. TypeOK'
  BY RefreshTypes DEF Inv, RefreshProvider
<1>2. /\ TypeOK /\ cache[p] # None /\ ~force /\ invalidationTokens[p] = Undefined
      /\ call' = [call EXCEPT ![c] = r] /\ UNCHANGED host /\ UNCHANGED identities
  BY DEF Inv, FromCache, AnswersFromCache
<1>3. result \in Snapshot \cup {None, Failed}
  BY <1>2 DEF TypeOK
<1> HIDE DEF result
<1>4. /\ r \in RefreshCall /\ r.pc = "returned" /\ r.provider = p /\ ~r.fresh
      /\ r.registration <= generations[p] /\ r.invalidations <= invalidations[p]
      /\ r.token \in {Undefined, r.invalidations}
  BY <1>2, <1>3, CalledFields
<1> HIDE DEF r
<1> QED BY <1>1, <1>2, <1>4, CallChangeInv

LEMMA ReturnInv ==
  ASSUME Inv, NEW c \in Caller, Return(c)
  PROVE  Inv'
<1>1. TypeOK'
  BY SettlementTypes DEF Inv
<1>2. Idle(c) = call'[c] /\ call'[c] \in RefreshCall
  BY <1>1 DEF Inv, TypeOK, Return
<1>3. Idle(c).pc = "idle"
  BY DEF Idle
<1> QED BY <1>1, <1>2, <1>3, CallChangeInv DEF Return

LEMMA CollectInv ==
  ASSUME Inv, NEW c \in Caller, NEW p \in Provider, NEW force \in BOOLEAN,
         call[c].pc = "idle", Registered(p), Collect(c, p, force)
  PROVE  Inv'
<1> DEFINE r == Called(c, p, force, "collecting", c, None)
           entry == [registration |-> registrations[p], token |-> invalidationTokens[p], promise |-> c]
<1>1. TypeOK'
  BY RefreshTypes DEF Inv, RefreshProvider
<1>2. /\ Identities /\ NoResurrection /\ InFlightAlive /\ CurrentIsJoinable
      /\ JoinableIsCurrent /\ OneCollection /\ Answers /\ FreshRefresh /\ TypeOK
  BY DEF Inv
<1>3. /\ r \in RefreshCall /\ r.pc = "collecting" /\ r.provider = p
      /\ r.registration = registrations[p] /\ r.token = invalidationTokens[p]
      /\ r.invalidations = invalidations[p]
      /\ r.registration <= generations[p] /\ r.invalidations <= invalidations[p]
      /\ r.token \in {Undefined, r.invalidations}
  BY CalledFields
<1>4. /\ entry.registration = registrations[p] /\ entry.token = invalidationTokens[p]
      /\ entry.promise = c /\ entry # None
  <2>1. entry \in InFlightRefresh
    BY <1>2 DEF TypeOK, Registered, InFlightRefresh
  <2> QED BY <2>1, SentinelAssumption
<1>5. /\ registrations' = registrations /\ cache' = cache
      /\ invalidationTokens' = invalidationTokens
      /\ generations' = generations /\ invalidations' = invalidations
      /\ ~Joinable(p)
      /\ call'[c] = r /\ \A d \in Caller : d # c => call'[d] = call[d]
      /\ inFlight'[p] = entry /\ \A q \in Provider : q # p => inFlight'[q] = inFlight[q]
  BY <1>2 DEF Collect, TypeOK, identities
<1> HIDE DEF r, entry
<1>6. Identities'
  BY <1>2, <1>3, <1>5 DEF Identities
<1>7. NoResurrection'
  BY <1>2, <1>4, <1>5 DEF NoResurrection, Registered
<1>8. \A q \in Provider : inFlight[q] # None =>
        inFlight[q].promise \in Caller /\ inFlight[q].promise # c
  BY <1>2, Numbers DEF InFlightAlive
<1>9. InFlightAlive'
  BY <1>2, <1>3, <1>4, <1>5, <1>8 DEF InFlightAlive
\* No other collection is current: it could be joined.
<1>10. \A d \in Caller : IsCurrent(d) => call[d].provider # p
  BY <1>2, <1>5 DEF CurrentIsJoinable, InFlightAlive, IsCurrent, Joinable
<1>11. \A d \in Caller : d # c /\ IsCurrent(d)' => IsCurrent(d)
  BY <1>5 DEF IsCurrent
<1>12. CurrentIsJoinable'
  <2> SUFFICES ASSUME NEW d \in Caller, IsCurrent(d)'
               PROVE  /\ inFlight'[call'[d].provider] # None
                      /\ inFlight'[call'[d].provider].promise = d
                      /\ call'[d].token = invalidationTokens'[call'[d].provider]
    BY DEF CurrentIsJoinable
  <2>1. CASE d = c
    BY <2>1, <1>3, <1>4, <1>5
  <2>2. CASE d # c
    <3>1. IsCurrent(d) /\ call[d].provider # p /\ call[d].provider \in Provider
      BY <2>2, <1>2, <1>10, <1>11, Numbers
    <3> QED BY <2>2, <3>1, <1>2, <1>5 DEF CurrentIsJoinable
  <2> QED BY <2>1, <2>2
<1>13. JoinableIsCurrent'
  BY <1>2, <1>3, <1>4, <1>5, <1>8 DEF JoinableIsCurrent, Joinable
<1>14. OneCollection'
  <2>1. \A d \in Caller :
          d # c /\ call[d].pc = "collecting" /\ call[d].provider = p
          /\ call[d].registration = registrations[p] => call[d].invalidations # invalidations[p]
    BY <1>10 DEF IsCurrent
  <2> QED BY <2>1, <1>2, <1>3, <1>5 DEF OneCollection
<1>15. Answers'
  <2>1. \A d \in Caller : call[d].promise \in Caller
    BY <1>2 DEF TypeOK, RefreshCall
  <2> QED BY <2>1, <1>2, <1>3, <1>5 DEF Answers
<1>16. FreshRefresh'
  BY <1>2, <1>3, <1>5 DEF FreshRefresh
<1> QED BY <1>1, <1>6, <1>7, <1>9, <1>12, <1>13, <1>14, <1>15, <1>16 DEF Inv

LEMMA RefreshInv ==
  ASSUME Inv, NEW c \in Caller, NEW p \in Provider, NEW force \in BOOLEAN,
         RefreshProvider(c, p, force)
  PROVE  Inv'
BY JoinInv, FromCacheInv, CollectInv DEF RefreshProvider

\* What a settling collection does to the calls.
LEMMA ResolveCalls ==
  ASSUME TypeOK, NEW c \in Caller, NEW result, Resolve(c, result)
  PROVE  \A d \in Caller :
           /\ call'[d].provider = call[d].provider
           /\ call'[d].registration = call[d].registration
           /\ call'[d].token = call[d].token
           /\ call'[d].invalidations = call[d].invalidations
           /\ call'[d].promise = call[d].promise
           /\ d = c => call'[d].pc = "settled" /\ call'[d].result = result
           /\ d # c /\ call[d].pc = "joined" /\ call[d].promise = c =>
                call'[d].pc = "returned" /\ call'[d].result = result
           /\ d # c /\ ~(call[d].pc = "joined" /\ call[d].promise = c) => call'[d] = call[d]
<1> SUFFICES ASSUME NEW d \in Caller
             PROVE  /\ call'[d].provider = call[d].provider
                    /\ call'[d].registration = call[d].registration
                    /\ call'[d].token = call[d].token
                    /\ call'[d].invalidations = call[d].invalidations
                    /\ call'[d].promise = call[d].promise
                    /\ d = c => call'[d].pc = "settled" /\ call'[d].result = result
                    /\ d # c /\ call[d].pc = "joined" /\ call[d].promise = c =>
                         call'[d].pc = "returned" /\ call'[d].result = result
                    /\ d # c /\ ~(call[d].pc = "joined" /\ call[d].promise = c) => call'[d] = call[d]
  OBVIOUS
<1>1. call[d] \in RefreshCall
  BY DEF TypeOK
<1> QED BY <1>1 DEF Resolve, RefreshCall

\* A collection settles with an answer of its own or with a failure; the cache and
\* the token change only if it is registered and its token is the current one.
LEMMA SettleInv ==
  ASSUME Inv, TypeOK', NEW c \in Caller, NEW result \in Snapshot \cup {Failed},
         call[c].pc = "collecting", Resolve(c, result),
         UNCHANGED <<registrations, registrationOrder, inFlight, clock, identities>>,
         result # Failed => /\ result.invalidations = call[c].invalidations
                            /\ result.generation = call[c].registration,
         NEW p, p = call[c].provider,
         \/ UNCHANGED <<cache, invalidationTokens>>
         \/ /\ registrations[p] = call[c].registration
            /\ invalidationTokens[p] = call[c].token
            /\ result # Failed
            /\ cache' = [cache EXCEPT ![p] = result]
            /\ invalidationTokens' = [invalidationTokens EXCEPT ![p] = Undefined]
  PROVE  Inv'
<1>1. /\ Identities /\ NoResurrection /\ InFlightAlive /\ CurrentIsJoinable
      /\ JoinableIsCurrent /\ OneCollection /\ Answers /\ FreshRefresh /\ TypeOK
  BY DEF Inv
<1>2. /\ registrations' = registrations /\ inFlight' = inFlight
      /\ generations' = generations /\ invalidations' = invalidations
      /\ p \in Provider /\ Undefined = 0
  BY <1>1, Numbers DEF identities, Undefined
<1>3. \A d \in Caller :
        /\ call'[d].provider = call[d].provider
        /\ call'[d].registration = call[d].registration
        /\ call'[d].token = call[d].token
        /\ call'[d].invalidations = call[d].invalidations
        /\ call'[d].promise = call[d].promise
        /\ d = c => call'[d].pc = "settled" /\ call'[d].result = result
        /\ d # c /\ call[d].pc = "joined" /\ call[d].promise = c =>
             call'[d].pc = "returned" /\ call'[d].result = result
        /\ d # c /\ ~(call[d].pc = "joined" /\ call[d].promise = c) => call'[d] = call[d]
  BY <1>1, ResolveCalls
<1>4. \A q \in Provider :
        /\ invalidationTokens'[q] \in {invalidationTokens[q], 0}
        /\ q # p => invalidationTokens'[q] = invalidationTokens[q]
        /\ cache'[q] # cache[q] =>
             q = p /\ cache'[q] = result /\ result # Failed /\ registrations[p] = call[c].registration
  BY <1>1, <1>2 DEF TypeOK
\* A token that ends is that of the current collection, whose entry stands.
<1>5. ASSUME invalidationTokens'[p] # invalidationTokens[p]
      PROVE  /\ IsCurrent(c) /\ inFlight[p].promise = c /\ inFlight[p].token # 0
             /\ inFlight[p].token = invalidationTokens[p] /\ invalidationTokens'[p] = 0
  <2>1. /\ registrations[p] = call[c].registration /\ invalidationTokens[p] = call[c].token
        /\ invalidationTokens'[p] = 0 /\ call[c].token # 0
    BY <1>4, <1>5, <1>2, <1>1 DEF TypeOK
  <2>2. invalidationTokens[p] = invalidations[p] /\ call[c].token = call[c].invalidations
    BY <2>1, <1>1, <1>2 DEF Identities
  <2>3. IsCurrent(c)
    BY <2>1, <2>2 DEF IsCurrent
  <2> QED BY <2>1, <2>3, <1>1, <1>2 DEF CurrentIsJoinable, InFlightAlive
<1>6. Identities'
  <2>1. \A d \in Caller : call'[d].pc # "idle" => call[d].pc # "idle"
    BY <1>3
  <2> QED BY <2>1, <1>1, <1>2, <1>3, <1>4 DEF Identities
<1>7. NoResurrection'
  <2>1. \A q \in Provider : cache'[q] # None => cache'[q].generation = registrations[q]
    BY <1>1, <1>2, <1>4 DEF NoResurrection
  <2> QED BY <2>1, <1>1, <1>2, <1>4 DEF NoResurrection, Registered
<1>8. \A q \in Provider : inFlight[q] # None =>
        /\ inFlight[q].promise \in Caller
        /\ call'[inFlight[q].promise].pc \in {"collecting", "settled"}
  BY <1>1, <1>3, Numbers DEF InFlightAlive
<1>9. InFlightAlive'
  BY <1>1, <1>2, <1>3, <1>8 DEF InFlightAlive
<1>10. \A d \in Caller : call'[d].pc = "collecting" => call[d].pc = "collecting" /\ d # c
  BY <1>3
<1>11. CurrentIsJoinable'
  <2> SUFFICES ASSUME NEW d \in Caller, IsCurrent(d)'
               PROVE  /\ inFlight'[call'[d].provider] # None
                      /\ inFlight'[call'[d].provider].promise = d
                      /\ call'[d].token = invalidationTokens'[call'[d].provider]
    BY DEF CurrentIsJoinable
  <2>1. IsCurrent(d) /\ d # c
    BY <1>2, <1>3, <1>10 DEF IsCurrent
  <2>2. /\ inFlight[call[d].provider] # None
        /\ inFlight[call[d].provider].promise = d
        /\ call[d].token = invalidationTokens[call[d].provider]
    BY <2>1, <1>1 DEF CurrentIsJoinable
  <2>3. invalidationTokens'[call[d].provider] = invalidationTokens[call[d].provider]
    <3>1. call[d].provider \in Provider
      BY <1>1, Numbers
    <3> QED BY <3>1, <2>1, <2>2, <1>4, <1>5
  <2> QED BY <2>2, <2>3, <1>2, <1>3
<1>12. JoinableIsCurrent'
  <2> SUFFICES ASSUME NEW q \in Provider, Joinable(q)'
               PROVE  call'[inFlight'[q].promise].invalidations = invalidations'[q]
    BY DEF JoinableIsCurrent
  <2>1. inFlight[q] # None /\ inFlight[q].registration = registrations[q]
        /\ inFlight[q].token = invalidationTokens'[q] /\ inFlight[q].promise \in Caller
    BY <1>2, <1>8 DEF Joinable
  <2>2. invalidationTokens'[q] = invalidationTokens[q]
    BY <2>1, <1>4, <1>5
  <2>3. call[inFlight[q].promise].invalidations = invalidations[q]
    BY <2>1, <2>2, <1>1 DEF JoinableIsCurrent, Joinable
  <2> QED BY <2>1, <2>3, <1>2, <1>3
<1>13. OneCollection'
  BY <1>1, <1>3, <1>10 DEF OneCollection
<1>14. Answers'
  <2> SUFFICES ASSUME NEW d \in Caller
               PROVE  /\ call'[d].pc = "settled" /\ call'[d].result # Failed =>
                           /\ call'[d].result.invalidations = call'[d].invalidations
                           /\ call'[d].result.generation = call'[d].registration
                      /\ call'[d].pc = "joined" =>
                           /\ call'[call'[d].promise].pc = "collecting"
                           /\ call'[call'[d].promise].registration = call'[d].registration
                           /\ call'[call'[d].promise].invalidations >= call'[d].invalidations
    BY DEF Answers
  <2>1. CASE d = c
    BY <2>1, <1>3
  <2>2. CASE d # c
    <3>1. call[d].promise \in Caller
      BY <1>1 DEF TypeOK, RefreshCall
    <3>2. call'[d].pc = "joined" => call[d].pc = "joined" /\ call[d].promise # c
      BY <2>2, <1>3
    <3>3. call'[d].pc = "settled" => call[d].pc = "settled" /\ call'[d].result = call[d].result
      BY <2>2, <1>3
    <3> QED BY <2>2, <3>1, <3>2, <3>3, <1>1, <1>3 DEF Answers
  <2> QED BY <2>1, <2>2
<1>15. FreshRefresh'
  <2> SUFFICES ASSUME NEW d \in Caller, call'[d].pc = "returned", call'[d].fresh,
                      call'[d].result # Failed
               PROVE  /\ call'[d].result.invalidations >= call'[d].invalidations
                      /\ call'[d].result.generation = call'[d].registration
    BY DEF FreshRefresh
  <2>1. CASE call[d].pc = "joined" /\ call[d].promise = c
    BY <2>1, <1>1, <1>3 DEF Answers
  <2>2. CASE ~(call[d].pc = "joined" /\ call[d].promise = c)
    BY <2>2, <1>1, <1>3 DEF FreshRefresh
  <2> QED BY <2>1, <2>2
<1> QED BY <1>6, <1>7, <1>9, <1>11, <1>12, <1>13, <1>14, <1>15 DEF Inv

LEMMA FailsInv ==
  ASSUME Inv, NEW c \in Caller, CollectorFails(c)
  PROVE  Inv'
<1>1. TypeOK'
  BY SettlementTypes DEF Inv
<1>2. /\ call[c].pc = "collecting" /\ Resolve(c, Failed)
      /\ UNCHANGED <<registrations, registrationOrder, inFlight, clock, identities>>
      /\ UNCHANGED <<cache, invalidationTokens>>
  BY DEF CollectorFails, host
<1> QED BY <1>1, <1>2, SettleInv

LEMMA AnswersInv ==
  ASSUME Inv, NEW c \in Caller, CollectorAnswers(c)
  PROVE  Inv'
<1> DEFINE p == call[c].provider
<1>1. TypeOK /\ TypeOK'
  BY SettlementTypes DEF Inv
<1>2. /\ call[c].pc = "collecting"
      /\ UNCHANGED <<registrations, registrationOrder, inFlight, clock, identities>>
  BY DEF CollectorAnswers
<1>3. /\ Collected(c) \in Snapshot /\ Collected(c) # Failed
      /\ Collected(c).invalidations = call[c].invalidations
      /\ Collected(c).generation = call[c].registration
  BY <1>1, CollectedTypes, SentinelAssumption DEF Collected
<1>4. CASE registrations[p] # call[c].registration
  <2>1. Resolve(c, Failed) /\ UNCHANGED <<cache, invalidationTokens>>
    BY <1>4 DEF CollectorAnswers
  <2> QED BY <2>1, <1>1, <1>2, SettleInv
<1>5. CASE registrations[p] = call[c].registration
  <2>1. /\ Resolve(c, Collected(c))
        /\ \/ UNCHANGED <<cache, invalidationTokens>>
           \/ /\ invalidationTokens[p] = call[c].token
              /\ cache' = [cache EXCEPT ![p] = Collected(c)]
              /\ invalidationTokens' = [invalidationTokens EXCEPT ![p] = Undefined]
    BY <1>5 DEF CollectorAnswers
  <2> QED BY <2>1, <1>1, <1>2, <1>3, <1>5, SettleInv
<1> QED BY <1>4, <1>5

LEMMA RefreshSettledInv ==
  ASSUME Inv, NEW c \in Caller, RefreshSettled(c)
  PROVE  Inv'
<1> DEFINE p == call[c].provider
<1>1. TypeOK'
  BY SettlementTypes DEF Inv
<1>2. /\ Identities /\ NoResurrection /\ InFlightAlive /\ CurrentIsJoinable
      /\ JoinableIsCurrent /\ OneCollection /\ Answers /\ FreshRefresh /\ TypeOK
  BY DEF Inv
<1>3. p \in Provider
  BY <1>2, Numbers
<1>4. /\ call[c].pc = "settled"
      /\ registrations' = registrations /\ cache' = cache
      /\ invalidationTokens' = invalidationTokens
      /\ generations' = generations /\ invalidations' = invalidations
      /\ \A d \in Caller : d # c => call'[d] = call[d]
      /\ call'[c] = [call[c] EXCEPT !.pc = "returned"]
  BY <1>2 DEF RefreshSettled, TypeOK, identities
<1>5. /\ call'[c].pc = "returned"
      /\ call'[c].provider = p /\ call'[c].registration = call[c].registration
      /\ call'[c].token = call[c].token /\ call'[c].invalidations = call[c].invalidations
      /\ call'[c].promise = call[c].promise /\ call'[c].result = call[c].result
  <2>1. call[c] \in RefreshCall
    BY <1>2 DEF TypeOK
  <2> QED BY <2>1, <1>4 DEF RefreshCall
\* The entry goes exactly if it is the one this collection made.
<1>6. \A q \in Provider :
        inFlight'[q] = IF inFlight[q] # None /\ inFlight[q].promise = c THEN None ELSE inFlight[q]
  <2>1. \A q \in Provider : inFlight[q] # None /\ inFlight[q].promise = c =>
          q = p /\ inFlight[q].registration = call[c].registration
    BY <1>2 DEF InFlightAlive
  <2> QED BY <2>1, <1>2, <1>3 DEF RefreshSettled, TypeOK
<1>7. Identities'
  BY <1>2, <1>4, <1>5 DEF Identities
<1>8. NoResurrection'
  BY <1>2, <1>4, <1>6 DEF NoResurrection, Registered
<1>9. \A q \in Provider : inFlight[q] # None => inFlight[q].promise \in Caller
  BY <1>2, Numbers
<1>10. InFlightAlive'
  BY <1>2, <1>4, <1>6, <1>9 DEF InFlightAlive
<1>11. \A d \in Caller : call'[d].pc = "collecting" => d # c
  BY <1>5
<1>12. CurrentIsJoinable'
  <2> SUFFICES ASSUME NEW d \in Caller, IsCurrent(d)'
               PROVE  /\ inFlight'[call'[d].provider] # None
                      /\ inFlight'[call'[d].provider].promise = d
                      /\ call'[d].token = invalidationTokens'[call'[d].provider]
    BY DEF CurrentIsJoinable
  <2>1. d # c /\ IsCurrent(d) /\ call[d].provider \in Provider
    BY <1>2, <1>4, <1>11, Numbers DEF IsCurrent
  <2> QED BY <2>1, <1>2, <1>4, <1>6 DEF CurrentIsJoinable
<1>13. JoinableIsCurrent'
  BY <1>2, <1>4, <1>6, <1>9 DEF JoinableIsCurrent, Joinable
<1>14. OneCollection'
  BY <1>2, <1>4, <1>11 DEF OneCollection
<1>15. Answers'
  <2> SUFFICES ASSUME NEW d \in Caller
               PROVE  /\ call'[d].pc = "settled" /\ call'[d].result # Failed =>
                           /\ call'[d].result.invalidations = call'[d].invalidations
                           /\ call'[d].result.generation = call'[d].registration
                      /\ call'[d].pc = "joined" =>
                           /\ call'[call'[d].promise].pc = "collecting"
                           /\ call'[call'[d].promise].registration = call'[d].registration
                           /\ call'[call'[d].promise].invalidations >= call'[d].invalidations
    BY DEF Answers
  <2>1. CASE d = c
    BY <2>1, <1>5
  <2>2. CASE d # c
    <3>1. call'[d] = call[d] /\ call[d].promise \in Caller
      BY <2>2, <1>2, <1>4 DEF TypeOK, RefreshCall
    <3>2. call[d].pc = "joined" => call[d].promise # c
      BY <1>2, <1>4 DEF Answers
    <3>3. call[d].pc = "joined" => call'[call[d].promise] = call[call[d].promise]
      BY <3>1, <3>2, <1>4
    <3> QED BY <3>1, <3>3, <1>2 DEF Answers
  <2> QED BY <2>1, <2>2
\* The starter's own answer was collected since its call.
<1>16. FreshRefresh'
  <2> SUFFICES ASSUME NEW d \in Caller, call'[d].pc = "returned", call'[d].fresh,
                      call'[d].result # Failed
               PROVE  /\ call'[d].result.invalidations >= call'[d].invalidations
                      /\ call'[d].result.generation = call'[d].registration
    BY DEF FreshRefresh
  <2>1. CASE d = c
    <3>1. call[c].invalidations \in Nat
      BY <1>2, Numbers
    <3>2. /\ call[c].result.invalidations = call[c].invalidations
          /\ call[c].result.generation = call[c].registration
      BY <2>1, <1>2, <1>4, <1>5 DEF Answers
    <3> QED BY <2>1, <3>1, <3>2, <1>5
  <2>2. CASE d # c
    BY <2>2, <1>2, <1>4 DEF FreshRefresh
  <2> QED BY <2>1, <2>2
<1> QED BY <1>1, <1>7, <1>8, <1>10, <1>12, <1>13, <1>14, <1>15, <1>16 DEF Inv

LEMMA StutterInv ==
  ASSUME Inv, Tick \/ UNCHANGED vars
  PROVE  Inv'
<1>1. TypeOK'
  BY TypesPreserved DEF Inv, Next
<1>2. UNCHANGED <<host, call, identities>>
  BY DEF Tick, vars
<1> QED
  BY <1>1, <1>2 DEF Inv, Identities, NoResurrection, Registered, InFlightAlive, CurrentIsJoinable,
                    IsCurrent, JoinableIsCurrent, Joinable, OneCollection, Answers, FreshRefresh,
                    host, identities

LEMMA InvPreserved == Inv /\ [Next]_vars => Inv'
<1> SUFFICES ASSUME Inv, [Next]_vars PROVE Inv'
  OBVIOUS
<1>1. ASSUME NEW p \in Provider,
             Register(p) \/ (\E g \in Generation : Withdraw(p, g)) \/ Invalidate(p)
      PROVE  Inv'
  BY <1>1, RegisterInv, WithdrawInv, InvalidateInv
<1>2. ASSUME NEW c \in Caller,
             \/ \E p \in Provider, force \in BOOLEAN : RefreshProvider(c, p, force)
             \/ CollectorAnswers(c) \/ CollectorFails(c) \/ RefreshSettled(c) \/ Return(c)
      PROVE  Inv'
  BY <1>2, RefreshInv, AnswersInv, FailsInv, RefreshSettledInv, ReturnInv
<1> QED BY <1>1, <1>2, StutterInv DEF Next

\* The inductive invariant holds throughout.
LEMMA Invariance == Spec => []Inv
BY InitInv, InvPreserved, PTL DEF Spec

-----------------------------------------------------------------------------
(* The properties, for any number of providers, callers, generations and tokens *)

\* Nothing of a withdrawn provider generation comes back into its replacement.
THEOREM NoOldGeneration == Spec => []NoResurrection
BY Invariance, PTL DEF Inv

\* The vendor is asked once at a time between two invalidations.
THEOREM Coalesced == Spec => []OneCollection
BY Invariance, PTL DEF Inv

\* What refreshes may join is a call that is still running, with its own
\* generation and token.
THEOREM NoLeakedEntry == Spec => []InFlightAlive
BY Invariance, PTL DEF Inv

\* A forced or post-invalidation refresh answers with what was collected since.
THEOREM RefreshIsFresh == Spec => []FreshRefresh
BY Invariance, PTL DEF Inv

\* Only a collection started after the last invalidation ends it.
THEOREM FreshEndsInvalidation == Spec => InvalidationEndsFresh
<1>1. Inv /\ [Next]_vars =>
        [\A p \in Provider :
           invalidationTokens[p] # Undefined /\ invalidationTokens'[p] = Undefined
             => \/ registrations'[p] # registrations[p]
                \/ cache'[p] # None /\ cache'[p].invalidations = invalidations[p]]_vars
  <2> SUFFICES ASSUME Inv, Next, NEW p \in Provider,
                      invalidationTokens[p] # Undefined, invalidationTokens'[p] = Undefined,
                      registrations'[p] = registrations[p]
               PROVE  cache'[p] # None /\ cache'[p].invalidations = invalidations[p]
    OBVIOUS
  <2>1. TypeOK /\ Identities
    BY DEF Inv
  <2>2. ASSUME NEW q \in Provider, NEW g \in Generation, Withdraw(q, g) PROVE FALSE
    <3>1. /\ registrations \in [Provider -> {Undefined} \cup Generation]
          /\ invalidationTokens \in [Provider -> {Undefined} \cup Token]
      BY <2>1 DEF TypeOK
    <3>2. q = p
      BY <2>2, <3>1 DEF Withdraw
    <3>3. registrations'[p] = Undefined /\ registrations[p] = g /\ g # Undefined
      BY <2>2, <3>1, <3>2 DEF Withdraw, Generation, Undefined
    <3> QED BY <3>3
  <2>3. ASSUME NEW q \in Provider, Invalidate(q) PROVE FALSE
    <3>1. invalidationTokens \in [Provider -> {Undefined} \cup Token]
      BY <2>1 DEF TypeOK
    <3>2. q = p /\ invalidationTokens'[p] = invalidations[p] + 1
      BY <2>3, <3>1 DEF Invalidate
    <3> QED BY <3>2, <2>1, Numbers DEF Undefined
  <2>4. ASSUME NEW c \in Caller, CollectorAnswers(c)
        PROVE  cache'[p] # None /\ cache'[p].invalidations = invalidations[p]
    <3>1. /\ call[c].provider = p /\ call[c].token = invalidationTokens[p]
          /\ cache' = [cache EXCEPT ![p] = Collected(c)]
      BY <2>4, <2>1 DEF TypeOK, CollectorAnswers
    <3>2. cache'[p] = Collected(c) /\ Collected(c) # None
      BY <3>1, <2>1, CollectedTypes, SentinelAssumption DEF TypeOK
    <3>3. call[c].invalidations = invalidations[p]
      BY <3>1, <2>1, <2>4 DEF Identities, CollectorAnswers
    <3> QED BY <3>2, <3>3 DEF Collected
  <2>5. ASSUME UNCHANGED invalidationTokens PROVE FALSE
    BY <2>5
  <2> QED
    BY <2>2, <2>3, <2>4, <2>5 DEF Next, Register, RefreshProvider, Join, FromCache, Collect,
         CollectorFails, RefreshSettled, Return, Tick, host
<1> QED BY <1>1, Invariance, PTL DEF Spec, InvalidationEndsFresh
=============================================================================
