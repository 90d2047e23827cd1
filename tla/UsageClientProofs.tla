-------------------------- MODULE UsageClientProofs --------------------------
(***************************************************************************)
(* Proofs about the browser's usage controller for any number of           *)
(* providers, of overlapping calls, and of answers in any order.           *)
(***************************************************************************)
EXTENDS UsageClient, TLAPS

\* Roster requests are told apart, accepted at most once, and open one generation each.
Serials ==
  /\ published <= rosterRequestSerial /\ rosterRequestSerial <= calls
  /\ rosterGeneration <= published + (IF disposed THEN 1 ELSE 0)
  /\ published = 0 => roster = {}
  /\ \A c \in Caller : At(c, "roster") =>
       /\ 1 <= call[c].serial /\ call[c].serial <= rosterRequestSerial /\ call[c].serial # published
       /\ call[c].op = "initialize" => call[c].serial = 1
       /\ \A d \in Caller : At(d, "roster") /\ call[d].serial = call[c].serial => d = c

\* What a call that has left its loop, or not reached it, is a call of.
Operations ==
  \A c \in Caller :
    /\ call[c].pc \in {"roster", "rosterDone"} => call[c].op \in {"initialize", "refreshAll"}
    /\ call[c].pc \in {"cached", "cachedDone"} => call[c].op = "initialize"

\* Refreshes of the roster shown are the ones that others join; one that is not belongs to
\* an older roster.
Refreshes ==
  /\ \A c \in Caller : At(c, "refreshing") =>
       /\ call[c].provider \in Provider /\ call[c].generation <= rosterGeneration
       /\ call[c].generation = rosterGeneration =>
            inFlightRefreshes[call[c].provider] # None
            /\ inFlightRefreshes[call[c].provider].starter = c
       /\ \A d \in Caller : At(d, "refreshing") /\ call[d].provider = call[c].provider
                            /\ call[d].generation = call[c].generation => d = c
  /\ \A p \in Provider : inFlightRefreshes[p] # None =>
       LET starter == call[inFlightRefreshes[p].starter] IN
       /\ starter.pc = "refreshing" /\ starter.provider = p
       /\ starter.generation = inFlightRefreshes[p].generation
  /\ \A c \in Caller : At(c, "joined") => At(call[c].starter, "refreshing")

\* A row that loads is in the care of a call: one that refreshes it under the present
\* roster, or one that has yet to reach it and will not take it for fresh.
ShowsFresh(p) == rows[p].usage # None /\ rows[p].usage.freshness = "FRESH"
Reaches(op, p) == op = "refreshAll" \/ (op = "initialize" /\ ~ShowsFresh(p))
Covers(c, p) ==
  \/ At(c, "refreshing") /\ call[c].provider = p /\ call[c].generation = rosterGeneration
  \/ /\ Reaches(call[c].op, p)
     /\ \/ call[c].pc \in {"rosterDone", "cached", "cachedDone"}
        \/ call[c].pc \in {"loop", "joined", "refreshing"} /\ p \in call[c].todo
LoadingCovered ==
  ~disposed => \A p \in roster : rows[p].status = "loading" => \E c \in Caller : Covers(c, p)

Inv == TypeOK /\ Serials /\ Operations /\ Refreshes /\ ReadyIsCurrent /\ LoadingCovered

-----------------------------------------------------------------------------
(* Types *)

LEMMA RowTypes ==
  /\ \A r \in Row : r # None /\ r.status \in {"loading", "ready", "error"} /\ r.usage \in Usage \cup {None}
  /\ \A u \in Usage : u # None /\ u.freshness \in Freshness /\ u.asked \in RosterGeneration
  /\ \A r \in InFlightRefresh : r # None /\ r.generation \in RosterGeneration /\ r.starter \in Caller
  /\ None \notin Provider
  BY SentinelAssumption DEF Row, Usage, InFlightRefresh

\* The records that actions assign.
LEMMA CallTypes ==
  ASSUME NEW c \in Caller
  PROVE  /\ Idle(c) \in Call /\ Idle(c).pc = "idle"
         /\ \A op \in Operation, rest \in SUBSET Provider :
              /\ Looping(c, op, rest) \in Call
              /\ Looping(c, op, rest).pc = "loop"
              /\ Looping(c, op, rest).op = op
              /\ Looping(c, op, rest).todo = rest
<1>1. Idle(c) \in Call /\ Idle(c).pc = "idle"
  BY BoundsAssumption DEF Idle, Call, Operation, Serial, RosterGeneration
<1>2. ASSUME NEW op \in Operation, NEW rest \in SUBSET Provider
      PROVE  /\ Looping(c, op, rest) \in Call
             /\ Looping(c, op, rest).pc = "loop"
             /\ Looping(c, op, rest).op = op
             /\ Looping(c, op, rest).todo = rest
  BY <1>1 DEF Looping, Call
<1> QED BY <1>1, <1>2

LEMMA InitInv == Init => Inv
<1> SUFFICES ASSUME Init PROVE Inv
  OBVIOUS
<1>1. TypeOK
  <2>1. call \in [Caller -> Call]
    BY CallTypes DEF Init
  <2>2. 0 \in Serial /\ 0 \in RosterGeneration /\ 0 \in 0..MaxCalls
    BY BoundsAssumption DEF RosterGeneration, Serial
  <2> QED BY <2>1, <2>2 DEF Init, TypeOK
<1> QED
  BY <1>1, BoundsAssumption DEF Init, Inv, Serials, Operations, Refreshes, ReadyIsCurrent,
     LoadingCovered, At, Idle

-----------------------------------------------------------------------------
(* What a step of one call leaves alone *)

\* A call that does not wait for a roster afterwards disturbs no request for one.
LEMMA SerialsKept ==
  ASSUME Inv, NEW c \in Caller, \A d \in Caller : d # c => call'[d] = call[d],
         ~At(c, "roster")', calls' \in 0..MaxCalls, calls <= calls',
         UNCHANGED <<roster, rosterGeneration, rosterRequestSerial, disposed, published>>
  PROVE  Serials'
<1>1. published <= rosterRequestSerial /\ rosterRequestSerial <= calls'
  BY DEF Inv, TypeOK, Serials, Serial
<1>2. ASSUME NEW d \in Caller, At(d, "roster")' PROVE d # c /\ At(d, "roster") /\ call'[d] = call[d]
  BY <1>2 DEF At
<1> QED BY <1>1, <1>2 DEF Inv, Serials, At

\* A call that refreshes neither before nor afterwards disturbs no refresh.
LEMMA RefreshesKept ==
  ASSUME Inv, NEW c \in Caller, \A d \in Caller : d # c => call'[d] = call[d],
         ~At(c, "refreshing"), ~At(c, "refreshing")',
         At(c, "joined")' => call'[c].starter \in Caller /\ At(call[c].starter, "refreshing")',
         UNCHANGED <<rosterGeneration, inFlightRefreshes>>
  PROVE  Refreshes'
<1>1. \A p \in Provider : inFlightRefreshes[p] # None => inFlightRefreshes[p].starter \in Caller
  BY RowTypes DEF Inv, TypeOK
<1>2. ASSUME NEW d \in Caller, At(d, "refreshing")'
      PROVE  d # c /\ At(d, "refreshing") /\ call'[d] = call[d]
  BY <1>2 DEF At
<1>3. ASSUME NEW d \in Caller, At(d, "refreshing")
      PROVE  At(d, "refreshing")' /\ call'[d] = call[d]
  BY <1>3 DEF At
<1>4. ASSUME NEW d \in Caller, At(d, "joined")' PROVE At(call[d].starter, "refreshing")'
  <2>1. CASE d = c
    BY <2>1, <1>4
  <2>2. CASE d # c
    <3>1. call'[d] = call[d] /\ call[d].starter \in Caller
      BY <2>2 DEF Inv, TypeOK, Call
    <3> QED BY <3>1, <1>3, <1>4 DEF Inv, Refreshes, At
  <2> QED BY <2>1, <2>2
<1>5. ASSUME NEW p \in Provider, inFlightRefreshes'[p] # None
      PROVE  LET starter == call'[inFlightRefreshes'[p].starter] IN
             /\ starter.pc = "refreshing" /\ starter.provider = p
             /\ starter.generation = inFlightRefreshes'[p].generation
  BY <1>1, <1>3, <1>5 DEF Inv, Refreshes, At
<1> QED BY <1>2, <1>4, <1>5 DEF Inv, Refreshes, At

-----------------------------------------------------------------------------
(* One turn of a loop *)

\* What every action that iterates knows of its caller: it waits for nothing, and the rows
\* in its care are still before it.
Resuming(c, op, todo) ==
  /\ call[c].pc \notin {"roster", "joined", "refreshing"}
  /\ op \in Operation /\ todo \subseteq Provider
  /\ \A p \in roster : Covers(c, p) => p \in todo /\ Reaches(op, p)
  /\ calls' \in 0..MaxCalls /\ calls <= calls'
  /\ UNCHANGED <<disposed, published>>

LEMMA FinishPreserves ==
  ASSUME Inv, NEW c \in Caller, NEW op, Resuming(c, op, {}), Finish(c, op)
  PROVE  Inv'
<1>1. /\ call' = [call EXCEPT ![c] = Idle(c)]
      /\ phase' = IF op = "initialize" THEN "ready" ELSE phase
      /\ UNCHANGED <<roster, rows, rosterGeneration, rosterRequestSerial, inFlightRefreshes>>
  BY DEF Finish, Becomes, fences
<1>2. TypeOK'
  BY <1>1, CallTypes DEF Inv, TypeOK, Resuming
<1>3. /\ call'[c].pc = "idle"
      /\ \A d \in Caller : d # c => call'[d] = call[d]
  BY <1>1, CallTypes DEF Inv, TypeOK
<1>4. Serials'
  BY <1>1, <1>3, SerialsKept DEF Resuming, At
<1>5. Operations' /\ ReadyIsCurrent'
  BY <1>1, <1>3 DEF Inv, Operations, ReadyIsCurrent, Resuming
<1>6. Refreshes'
  BY <1>1, <1>3, RefreshesKept DEF Resuming, At
<1>7. LoadingCovered'
  BY <1>1, <1>3 DEF Inv, LoadingCovered, Covers, Reaches, ShowsFresh, Resuming, At
<1> QED BY <1>2, <1>4, <1>5, <1>6, <1>7 DEF Inv

LEMMA SkipPreserves ==
  ASSUME Inv, NEW c \in Caller, NEW op, NEW todo, Resuming(c, op, todo),
         NEW p \in todo, SkipRow(c, op, p, todo \ {p}), UNCHANGED phase
  PROVE  Inv'
<1> DEFINE rest == todo \ {p}
<1>1. /\ LeavesAlone(op, p) \/ p \notin roster
      /\ call' = [call EXCEPT ![c] = Looping(c, op, rest)]
      /\ UNCHANGED <<phase, roster, rows, rosterGeneration, rosterRequestSerial, inFlightRefreshes>>
  BY DEF SkipRow, Becomes, snapshot, fences
<1>2. Looping(c, op, rest) \in Call
      /\ call'[c].pc = "loop" /\ call'[c].op = op /\ call'[c].todo = rest
      /\ \A d \in Caller : d # c => call'[d] = call[d]
  BY <1>1, CallTypes DEF Inv, TypeOK, Resuming
<1>3. TypeOK'
  BY <1>1, <1>2 DEF Inv, TypeOK, Resuming
<1>4. Serials'
  BY <1>1, <1>2, SerialsKept DEF Resuming, At
<1>5. Operations' /\ ReadyIsCurrent'
  BY <1>1, <1>2 DEF Inv, Operations, ReadyIsCurrent, Resuming
<1>6. Refreshes'
  BY <1>1, <1>2, RefreshesKept DEF Resuming, At
<1>7. LoadingCovered'
  <2> SUFFICES ASSUME ~disposed, NEW q \in roster, rows[q].status = "loading"
               PROVE  \E d \in Caller : Covers(d, q)'
    BY <1>1 DEF LoadingCovered, Resuming
  <2>1. PICK d \in Caller : Covers(d, q)
    BY DEF Inv, LoadingCovered
  <2>2. CASE d # c
    BY <2>1, <2>2, <1>1, <1>2 DEF Covers, Reaches, ShowsFresh, At
  <2>3. CASE d = c
    <3>1. q \in todo /\ Reaches(op, q)
      BY <2>1, <2>3 DEF Resuming
    <3>2. q # p
      BY <3>1, <1>1 DEF Reaches, LeavesAlone, ShowsFresh
    <3> QED BY <3>1, <3>2, <1>1, <1>2 DEF Covers, Reaches, ShowsFresh
  <2> QED BY <2>2, <2>3
<1> QED BY <1>3, <1>4, <1>5, <1>6, <1>7 DEF Inv

LEMMA JoinPreserves ==
  ASSUME Inv, NEW c \in Caller, NEW op, NEW todo, Resuming(c, op, todo),
         NEW p \in todo, JoinRefresh(c, op, p, todo \ {p})
  PROVE  Inv'
<1> DEFINE rest == todo \ {p}
           starter == inFlightRefreshes[p].starter
           joining == [Looping(c, op, rest) EXCEPT !.pc = "joined", !.starter = starter]
<1>1. /\ p \in roster /\ Joinable(p)
      /\ call' = [call EXCEPT ![c] = joining]
      /\ UNCHANGED <<phase, roster, rows, rosterGeneration, rosterRequestSerial, inFlightRefreshes>>
  BY DEF JoinRefresh, Becomes, snapshot, fences
<1>2. /\ starter \in Caller /\ starter # c
      /\ At(starter, "refreshing") /\ call[starter].provider = p
      /\ call[starter].generation = rosterGeneration
  BY <1>1, RowTypes DEF Inv, TypeOK, Refreshes, Joinable, Resuming, At
<1>3. /\ joining \in Call
      /\ call'[c].pc = "joined" /\ call'[c].op = op /\ call'[c].todo = rest
      /\ call'[c].starter = starter
      /\ \A d \in Caller : d # c => call'[d] = call[d]
  <2>1. /\ Looping(c, op, rest) \in Call /\ Looping(c, op, rest).op = op
        /\ Looping(c, op, rest).todo = rest
    BY CallTypes DEF Resuming
  <2>2. joining \in Call /\ joining.pc = "joined" /\ joining.op = op /\ joining.todo = rest
        /\ joining.starter = starter
    BY <2>1, <1>2 DEF Call
  <2> QED BY <2>2, <1>1 DEF Inv, TypeOK
<1>4. TypeOK'
  BY <1>1, <1>3 DEF Inv, TypeOK, Resuming
<1>5. Serials'
  BY <1>1, <1>3, SerialsKept DEF Resuming, At
<1>6. Operations' /\ ReadyIsCurrent'
  BY <1>1, <1>3 DEF Inv, Operations, ReadyIsCurrent, Resuming
<1>7. Refreshes'
  BY <1>1, <1>2, <1>3, RefreshesKept DEF Resuming, At
<1>8. LoadingCovered'
  <2> SUFFICES ASSUME ~disposed, NEW q \in roster, rows[q].status = "loading"
               PROVE  \E d \in Caller : Covers(d, q)'
    BY <1>1 DEF LoadingCovered, Resuming
  <2>1. PICK d \in Caller : Covers(d, q)
    BY DEF Inv, LoadingCovered
  <2>2. CASE d # c
    BY <2>1, <2>2, <1>1, <1>3 DEF Covers, Reaches, ShowsFresh, At
  <2>3. CASE d = c /\ q # p
    BY <2>1, <2>3, <1>1, <1>3 DEF Covers, Reaches, ShowsFresh, Resuming
  <2>4. CASE q = p
    BY <2>4, <1>1, <1>2, <1>3 DEF Covers, At
  <2> QED BY <2>2, <2>3, <2>4
<1> QED BY <1>4, <1>5, <1>6, <1>7, <1>8 DEF Inv

LEMMA StartRefreshPreserves ==
  ASSUME Inv, NEW c \in Caller, NEW op, NEW todo, Resuming(c, op, todo),
         NEW p \in todo, StartRefresh(c, op, p, todo \ {p})
  PROVE  Inv'
<1> DEFINE rest == todo \ {p}
           started == [Looping(c, op, rest) EXCEPT !.pc = "refreshing", !.provider = p,
                                                   !.generation = rosterGeneration,
                                                   !.prior = rows[p].usage]
           entry == [generation |-> rosterGeneration, starter |-> c]
           row == [status |-> "loading", usage |-> rows[p].usage]
<1>1. /\ p \in roster /\ p \in Provider /\ ~Joinable(p)
      /\ rows' = [rows EXCEPT ![p] = row]
      /\ inFlightRefreshes' = [inFlightRefreshes EXCEPT ![p] = entry]
      /\ call' = [call EXCEPT ![c] = started]
      /\ UNCHANGED <<phase, roster, rosterGeneration, rosterRequestSerial>>
  BY DEF StartRefresh, Becomes, Resuming
<1>2. rows[p] \in Row /\ rows[p].usage \in Usage \cup {None}
  BY <1>1, RowTypes DEF Inv, TypeOK
<1>3. row \in Row /\ entry \in InFlightRefresh /\ entry # None /\ row # None
  BY <1>2, RowTypes DEF Inv, TypeOK, Row, InFlightRefresh
<1>4. /\ started \in Call
      /\ call'[c].pc = "refreshing" /\ call'[c].op = op /\ call'[c].todo = rest
      /\ call'[c].provider = p /\ call'[c].generation = rosterGeneration
      /\ \A d \in Caller : d # c => call'[d] = call[d]
  <2>1. /\ Looping(c, op, rest) \in Call /\ Looping(c, op, rest).op = op
        /\ Looping(c, op, rest).todo = rest
    BY CallTypes DEF Resuming
  <2>2. started \in Call /\ started.pc = "refreshing" /\ started.op = op /\ started.todo = rest
        /\ started.provider = p /\ started.generation = rosterGeneration
    BY <2>1, <1>1, <1>2 DEF Call, Inv, TypeOK
  <2> QED BY <2>2, <1>1 DEF Inv, TypeOK
<1>5. TypeOK'
  BY <1>1, <1>3, <1>4 DEF Inv, TypeOK, Resuming
<1>6. Serials'
  BY <1>1, <1>4, SerialsKept DEF Resuming, At
<1>7. Operations'
  BY <1>1, <1>4 DEF Inv, Operations
<1>8. ReadyIsCurrent'
  BY <1>1 DEF Inv, TypeOK, ReadyIsCurrent, Resuming
<1>9. \A d \in Caller : At(d, "refreshing") /\ call[d].provider = p =>
        call[d].generation # rosterGeneration
  BY <1>1 DEF Inv, Refreshes, Joinable
<1>10. Refreshes'
  <2>1. /\ inFlightRefreshes'[p] = entry
        /\ \A q \in Provider : q # p => inFlightRefreshes'[q] = inFlightRefreshes[q]
    BY <1>1 DEF Inv, TypeOK
  <2>2. \A q \in Provider : inFlightRefreshes[q] # None => inFlightRefreshes[q].starter \in Caller
    BY RowTypes DEF Inv, TypeOK
  <2>3. ASSUME NEW d \in Caller, At(d, "refreshing")'
        PROVE  /\ call'[d].provider \in Provider /\ call'[d].generation <= rosterGeneration'
               /\ call'[d].generation = rosterGeneration' =>
                    inFlightRefreshes'[call'[d].provider] # None
                    /\ inFlightRefreshes'[call'[d].provider].starter = d
    BY <2>1, <2>3, <1>1, <1>3, <1>4, <1>9 DEF Inv, TypeOK, RosterGeneration, Refreshes, At
  <2>4. ASSUME NEW d \in Caller, At(d, "refreshing")', NEW e \in Caller, At(e, "refreshing")',
               call'[e].provider = call'[d].provider, call'[e].generation = call'[d].generation
        PROVE  e = d
    BY <2>4, <1>4, <1>9 DEF Inv, Refreshes, At
  <2>5. ASSUME NEW q \in Provider, inFlightRefreshes'[q] # None
        PROVE  LET starter == call'[inFlightRefreshes'[q].starter] IN
               /\ starter.pc = "refreshing" /\ starter.provider = q
               /\ starter.generation = inFlightRefreshes'[q].generation
    <3>1. CASE q = p
      BY <3>1, <2>1, <1>4
    <3>2. CASE q # p
      BY <3>2, <2>1, <2>2, <2>5, <1>4 DEF Inv, Refreshes, Resuming
    <3> QED BY <3>1, <3>2
  <2>6. ASSUME NEW d \in Caller, At(d, "joined")' PROVE At(call[d].starter, "refreshing")'
    <3>1. call[d].starter \in Caller
      BY DEF Inv, TypeOK, Call
    <3> QED BY <3>1, <2>6, <1>4 DEF Inv, Refreshes, At, Resuming
  <2> QED BY <2>3, <2>4, <2>5, <2>6 DEF Refreshes
<1>11. LoadingCovered'
  <2> SUFFICES ASSUME ~disposed, NEW q \in roster, rows'[q].status = "loading"
               PROVE  \E d \in Caller : Covers(d, q)'
    BY <1>1 DEF LoadingCovered, Resuming
  <2>1. CASE q = p
    BY <2>1, <1>1, <1>4 DEF Covers, At
  <2>2. CASE q # p
    <3>1. rows'[q] = rows[q]
      BY <2>2, <1>1 DEF Inv, TypeOK
    <3>2. PICK d \in Caller : Covers(d, q)
      BY <3>1 DEF Inv, LoadingCovered
    <3>3. CASE d # c
      BY <3>1, <3>2, <3>3, <1>1, <1>4 DEF Covers, Reaches, ShowsFresh, At
    <3>4. CASE d = c
      BY <3>1, <3>2, <3>4, <2>2, <1>1, <1>4 DEF Covers, Reaches, ShowsFresh, Resuming
    <3> QED BY <3>3, <3>4
  <2> QED BY <2>1, <2>2
<1> QED BY <1>5, <1>6, <1>7, <1>8, <1>10, <1>11 DEF Inv

LEMMA IteratePreserves ==
  ASSUME Inv, NEW c \in Caller, NEW op, NEW todo, Resuming(c, op, todo), Iterate(c, op, todo)
  PROVE  Inv'
  BY FinishPreserves, SkipPreserves, JoinPreserves, StartRefreshPreserves
  DEF Iterate, SkipRow, snapshot

\* A call whose rows are those of its loop, or all of the roster.
LEMMA LoopPreserves ==
  ASSUME Inv, NEW c \in Caller, Loop(c) \/ AfterCached(c)
  PROVE  Inv'
<1>1. call[c] \in Call /\ call[c].op \in Operation /\ call[c].todo \subseteq Provider
  BY DEF Inv, TypeOK, Call
<1>2. calls' \in 0..MaxCalls /\ calls <= calls' /\ UNCHANGED <<disposed, published>>
  BY DEF Loop, AfterCached, Inv, TypeOK
<1>3. CASE Loop(c)
  <2>1. Resuming(c, call[c].op, call[c].todo)
    BY <1>1, <1>2, <1>3 DEF Loop, Resuming, Covers, At
  <2> QED BY <2>1, <1>3, IteratePreserves DEF Loop
<1>4. CASE AfterCached(c)
  <2>1. call[c].op = "initialize" /\ roster \subseteq Provider
    BY <1>4 DEF AfterCached, At, Inv, TypeOK, Operations
  <2>2. Resuming(c, "initialize", roster)
    BY <2>1, <1>2, <1>4 DEF AfterCached, Resuming, Covers, Reaches, At, Operation
  <2> QED BY <2>2, <1>4, IteratePreserves DEF AfterCached
<1> QED BY <1>3, <1>4

-----------------------------------------------------------------------------
(* A refresh settles *)

\* The rows may differ in the one that was refreshed, which has stopped loading if it is
\* of the roster shown.
LEMMA SettlePreserves ==
  ASSUME Inv, NEW c \in Caller, At(c, "refreshing"), Settle(c),
         NEW row \in Row, row.status # "loading",
         row.status = "ready" => row.usage # None /\ row.usage.asked = call[c].generation,
         rows' = IF HasProvider(call[c].provider, call[c].generation)
                 THEN [rows EXCEPT ![call[c].provider] = row] ELSE rows
  PROVE  Inv'
<1> DEFINE p == call[c].provider
           own == inFlightRefreshes[p] # None /\ inFlightRefreshes[p].starter = c
           resumes(d) == d = c \/ (At(d, "joined") /\ call[d].starter = c)
<1>1. /\ inFlightRefreshes' = IF own THEN [inFlightRefreshes EXCEPT ![p] = None] ELSE inFlightRefreshes
      /\ call' = [d \in Caller |-> IF resumes(d) THEN Looping(d, call[d].op, call[d].todo) ELSE call[d]]
      /\ UNCHANGED <<phase, roster, rosterGeneration, rosterRequestSerial, calls, disposed, published>>
  BY DEF Settle
<1>2. p \in Provider /\ \A d \in Caller : call[d] \in Call /\ call[d].op \in Operation
                                        /\ call[d].todo \subseteq Provider /\ call[d].starter \in Caller
  BY DEF Inv, TypeOK, Refreshes, Call
<1>3. /\ call' \in [Caller -> Call]
      /\ \A d \in Caller : resumes(d) =>
           call'[d].pc = "loop" /\ call'[d].op = call[d].op /\ call'[d].todo = call[d].todo
      /\ \A d \in Caller : ~resumes(d) => call'[d] = call[d]
  BY <1>1, <1>2, CallTypes
<1>4. \A q \in Provider : rows'[q] = IF HasProvider(p, call[c].generation) /\ q = p THEN row ELSE rows[q]
  BY <1>2 DEF Inv, TypeOK
<1>5. TypeOK'
  <2>1. rows' \in [Provider -> Row \cup {None}] /\ \A q \in Provider : rows'[q] # None <=> q \in roster
    BY <1>2, <1>4, RowTypes DEF Inv, TypeOK, HasProvider
  <2>2. inFlightRefreshes' \in [Provider -> InFlightRefresh \cup {None}]
    BY <1>1, <1>2 DEF Inv, TypeOK
  <2> QED BY <2>1, <2>2, <1>1, <1>3 DEF Inv, TypeOK
<1>6. Serials'
  <2>1. ASSUME NEW d \in Caller, At(d, "roster")' PROVE At(d, "roster") /\ call'[d] = call[d]
    BY <2>1, <1>3 DEF At
  <2> QED BY <2>1, <1>1 DEF Inv, Serials, At
<1>7. Operations'
  BY <1>3 DEF Inv, Operations
<1>8. ReadyIsCurrent'
  BY <1>1, <1>2, <1>4, RowTypes DEF Inv, TypeOK, ReadyIsCurrent, HasProvider
<1>9. Refreshes'
  <2>1. ASSUME NEW d \in Caller, At(d, "refreshing")'
        PROVE  d # c /\ At(d, "refreshing") /\ call'[d] = call[d]
    BY <2>1, <1>3 DEF At
  <2>2. \A q \in Provider : inFlightRefreshes[q] # None =>
          inFlightRefreshes[q].starter \in Caller
    BY RowTypes DEF Inv, TypeOK
  <2>3. ASSUME NEW q \in Provider, inFlightRefreshes'[q] # None
        PROVE  inFlightRefreshes'[q] = inFlightRefreshes[q] /\ inFlightRefreshes[q].starter # c
    BY <2>3, <1>1, <1>2 DEF Inv, TypeOK, Refreshes
  <2>4. ASSUME NEW d \in Caller, At(d, "refreshing"), d # c
        PROVE  call'[d] = call[d]
    BY <2>4, <1>3 DEF At
  <2>5. ASSUME NEW d \in Caller, At(d, "refreshing")'
        PROVE  /\ call'[d].provider \in Provider /\ call'[d].generation <= rosterGeneration'
               /\ call'[d].generation = rosterGeneration' =>
                    inFlightRefreshes'[call'[d].provider] # None
                    /\ inFlightRefreshes'[call'[d].provider].starter = d
    BY <2>1, <2>5, <1>1, <1>2 DEF Inv, TypeOK, Refreshes, At
  <2>6. ASSUME NEW d \in Caller, At(d, "refreshing")', NEW e \in Caller, At(e, "refreshing")',
               call'[e].provider = call'[d].provider, call'[e].generation = call'[d].generation
        PROVE  e = d
    BY <2>1, <2>6 DEF Inv, Refreshes, At
  <2>7. ASSUME NEW q \in Provider, inFlightRefreshes'[q] # None
        PROVE  LET starter == call'[inFlightRefreshes'[q].starter] IN
               /\ starter.pc = "refreshing" /\ starter.provider = q
               /\ starter.generation = inFlightRefreshes'[q].generation
    BY <2>2, <2>3, <2>4, <2>7 DEF Inv, Refreshes, At
  <2>8. ASSUME NEW d \in Caller, At(d, "joined")' PROVE At(call[d].starter, "refreshing")'
    <3>1. At(d, "joined") /\ call'[d] = call[d] /\ call[d].starter # c
      BY <2>8, <1>3 DEF At
    <3> QED BY <3>1, <2>4, <1>2 DEF Inv, Refreshes, At
  <2> QED BY <2>5, <2>6, <2>7, <2>8 DEF Refreshes
<1>10. LoadingCovered'
  <2> SUFFICES ASSUME ~disposed, NEW q \in roster, rows'[q].status = "loading"
               PROVE  \E d \in Caller : Covers(d, q)'
    BY <1>1 DEF LoadingCovered
  <2>1. q \in Provider /\ ~(HasProvider(p, call[c].generation) /\ q = p) /\ rows'[q] = rows[q]
    BY <1>4 DEF Inv, TypeOK
  <2>2. PICK d \in Caller : Covers(d, q)
    BY <2>1 DEF Inv, LoadingCovered
  <2>3. ~(d = c /\ p = q /\ call[c].generation = rosterGeneration)
    BY <2>1 DEF HasProvider
  <2>4. Covers(d, q)'
    <3>1. CASE resumes(d)
      BY <3>1, <2>1, <2>2, <2>3, <1>1, <1>3 DEF Covers, Reaches, ShowsFresh, At
    <3>2. CASE ~resumes(d)
      BY <3>2, <2>1, <2>2, <1>1, <1>3 DEF Covers, Reaches, ShowsFresh, At
    <3> QED BY <3>1, <3>2
  <2> QED BY <2>4
<1> QED BY <1>5, <1>6, <1>7, <1>8, <1>9, <1>10 DEF Inv

LEMMA RefreshEndsPreserves ==
  ASSUME Inv, NEW c \in Caller, RefreshAnswers(c) \/ RefreshFails(c)
  PROVE  Inv'
<1>1. call[c] \in Call /\ call[c].generation \in RosterGeneration /\ call[c].prior \in Usage \cup {None}
  BY DEF Inv, TypeOK, Call
<1>2. CASE RefreshAnswers(c)
  <2>1. PICK freshness \in Freshness :
          rows' = IF HasProvider(call[c].provider, call[c].generation)
                  THEN [rows EXCEPT ![call[c].provider] =
                          [status |-> "ready",
                           usage |-> [freshness |-> freshness, asked |-> call[c].generation]]]
                  ELSE rows
    BY <1>2 DEF RefreshAnswers
  <2> DEFINE usage == [freshness |-> freshness, asked |-> call[c].generation]
             row == [status |-> "ready", usage |-> usage]
  <2>2. usage \in Usage /\ usage # None /\ usage.asked = call[c].generation
    BY <1>1, RowTypes DEF Usage
  <2>3. row \in Row /\ row.status = "ready" /\ row.usage = usage
    BY <2>2 DEF Row
  <2> QED BY <2>1, <2>2, <2>3, <1>2, SettlePreserves DEF RefreshAnswers
<1>3. CASE RefreshFails(c)
  <2> DEFINE row == [status |-> "error", usage |-> call[c].prior]
  <2>1. row \in Row /\ row.status = "error"
    BY <1>1 DEF Row
  <2> QED BY <2>1, <1>3, SettlePreserves DEF RefreshFails
<1> QED BY <1>2, <1>3

-----------------------------------------------------------------------------
(* Rosters *)

\* An accepted roster is newer than the one shown, and its request will go on to every row.
LEMMA RosterAcceptedPreserves ==
  ASSUME Inv, NEW c \in Caller, RosterAnswers(c), call[c].serial = rosterRequestSerial
  PROVE  Inv'
<1> DEFINE kept(p) == [status |-> "loading", usage |-> IF rows[p] = None THEN None ELSE rows[p].usage]
<1>1. /\ At(c, "roster")
      /\ call' = [call EXCEPT ![c] = [call[c] EXCEPT !.pc = "rosterDone"]]
      /\ rosterGeneration' = rosterGeneration + 1
      /\ roster' \in SUBSET Provider
      /\ rows' = [p \in Provider |-> IF p \notin roster' THEN None ELSE kept(p)]
      /\ published' = call[c].serial
      /\ UNCHANGED <<phase, rosterRequestSerial, inFlightRefreshes, calls, disposed>>
  BY DEF RosterAnswers, Becomes
<1>2. /\ call' \in [Caller -> Call]
      /\ call'[c].pc = "rosterDone" /\ call'[c].op = call[c].op
      /\ \A d \in Caller : d # c => call'[d] = call[d]
  BY <1>1 DEF Inv, TypeOK, Call
<1>3. \A p \in Provider : kept(p) \in Row /\ kept(p) # None
  BY RowTypes DEF Inv, TypeOK, Row
<1>4. /\ published \in Nat /\ rosterRequestSerial \in Nat /\ calls \in Nat /\ calls <= MaxCalls
      /\ MaxCalls \in Nat /\ rosterGeneration \in Nat
  BY BoundsAssumption DEF Inv, TypeOK, Serial, RosterGeneration
<1>5. published < rosterRequestSerial
  BY <1>1, <1>4 DEF Inv, Serials
<1>6. rosterGeneration' <= published' + (IF disposed' THEN 1 ELSE 0)
  BY <1>1, <1>4, <1>5 DEF Inv, Serials
<1>7. TypeOK'
  <2>1. rows' \in [Provider -> Row \cup {None}] /\ \A p \in Provider : rows'[p] # None <=> p \in roster'
    BY <1>1, <1>3
  <2>2. rosterGeneration' \in RosterGeneration /\ published' \in Serial
    BY <1>1, <1>4, <1>6 DEF Inv, TypeOK, Serials, RosterGeneration, Serial
  <2> QED BY <2>1, <2>2, <1>1, <1>2 DEF Inv, TypeOK
<1>8. Serials'
  <2>1. ASSUME NEW d \in Caller, At(d, "roster")'
        PROVE  At(d, "roster") /\ d # c /\ call'[d] = call[d] /\ call[d].serial # call[c].serial
    BY <2>1, <1>1, <1>2 DEF At, Inv, Serials
  <2>2. published' # 0
    BY <1>1, <1>4, <1>5
  <2> QED BY <2>1, <2>2, <1>1, <1>4, <1>6 DEF Inv, Serials, At
<1>9. Operations'
  BY <1>1, <1>2 DEF Inv, Operations, At
<1>10. ReadyIsCurrent'
  BY <1>1 DEF ReadyIsCurrent
<1>11. Refreshes'
  <2>1. ASSUME NEW d \in Caller, At(d, "refreshing") \/ At(d, "refreshing")'
        PROVE  At(d, "refreshing") /\ At(d, "refreshing")' /\ d # c /\ call'[d] = call[d]
    BY <2>1, <1>1, <1>2 DEF At
  <2>2. ASSUME NEW d \in Caller, At(d, "refreshing")
        PROVE  call[d].generation <= rosterGeneration' /\ call[d].generation # rosterGeneration'
    BY <2>2, <1>1, <1>4 DEF Inv, TypeOK, Refreshes, Call, RosterGeneration
  <2>3. \A p \in Provider : inFlightRefreshes[p] # None => inFlightRefreshes[p].starter \in Caller
    BY RowTypes DEF Inv, TypeOK
  <2>4. \A d \in Caller : At(d, "joined")' => At(d, "joined") /\ call'[d] = call[d]
    BY <1>1, <1>2 DEF At
  <2>5. \A d \in Caller : call[d].starter \in Caller
    BY DEF Inv, TypeOK, Call
  <2> QED BY <2>1, <2>2, <2>3, <2>4, <2>5, <1>1 DEF Inv, Refreshes, At
<1>12. LoadingCovered'
  <2>1. call[c].op = "initialize" => roster = {}
    BY <1>1, <1>4, <1>5 DEF Inv, Serials
  <2>2. ASSUME NEW p \in roster' PROVE Reaches(call[c].op, p)'
    <3>1. call[c].op = "initialize" => rows'[p].usage = None
      BY <2>1, <2>2, <1>1 DEF Inv, TypeOK
    <3> QED BY <3>1, <1>1 DEF Inv, Operations, Reaches, ShowsFresh, At
  <2> QED BY <2>2, <1>2 DEF LoadingCovered, Covers, Reaches
<1> QED BY <1>7, <1>8, <1>9, <1>10, <1>11, <1>12 DEF Inv

\* A call that only goes on, from a roster or a cached list it does not use, keeps its rows.
LEMMA GoesOnPreserves ==
  ASSUME Inv, NEW c \in Caller,
         NEW after \in {"rosterDone", "cached", "cachedDone"},
         call[c].pc = CASE after = "rosterDone" -> "roster" [] after = "cached" -> "rosterDone"
                        [] OTHER -> "cached",
         NEW next \in Call, next.pc = after, next.op = call[c].op,
         after # "rosterDone" => next.op = "initialize",
         call' = [call EXCEPT ![c] = next],
         phase' \in {phase, "ready"},
         UNCHANGED <<roster, rows, fences, calls, disposed, published>>
  PROVE  Inv'
<1>1. /\ call' \in [Caller -> Call]
      /\ call'[c] = next
      /\ \A d \in Caller : d # c => call'[d] = call[d]
  BY DEF Inv, TypeOK
<1>2. UNCHANGED <<rosterGeneration, rosterRequestSerial, inFlightRefreshes>>
  BY DEF fences
<1>3. TypeOK'
  BY <1>1, <1>2 DEF Inv, TypeOK
<1>4. Serials'
  BY <1>1, <1>2, SerialsKept DEF Inv, TypeOK, At
<1>5. Operations' /\ ReadyIsCurrent'
  BY <1>1, <1>2 DEF Inv, Operations, ReadyIsCurrent
<1>6. Refreshes'
  BY <1>1, <1>2, RefreshesKept DEF At
<1>7. LoadingCovered'
  <2> SUFFICES ASSUME ~disposed, NEW q \in roster, rows[q].status = "loading"
               PROVE  \E d \in Caller : Covers(d, q)'
    BY DEF LoadingCovered
  <2>1. PICK d \in Caller : Covers(d, q)
    BY DEF Inv, LoadingCovered
  <2> QED BY <2>1, <1>1, <1>2 DEF Covers, Reaches, ShowsFresh, At
<1> QED BY <1>3, <1>4, <1>5, <1>6, <1>7 DEF Inv

LEMMA RosterEndsPreserves ==
  ASSUME Inv, NEW c \in Caller, RosterAnswers(c) \/ RosterFails(c)
  PROVE  Inv'
<1> DEFINE next == [call[c] EXCEPT !.pc = "rosterDone"]
<1>1. next \in Call /\ next.pc = "rosterDone" /\ next.op = call[c].op
  BY DEF Inv, TypeOK, Call
<1>2. CASE RosterAnswers(c) /\ call[c].serial = rosterRequestSerial
  BY <1>2, RosterAcceptedPreserves
<1>3. CASE RosterFails(c) \/ (RosterAnswers(c) /\ call[c].serial # rosterRequestSerial)
  <2>1. /\ call[c].pc = "roster" /\ call' = [call EXCEPT ![c] = next]
        /\ UNCHANGED <<phase, roster, rows, fences, calls, disposed, published>>
    BY <1>3 DEF RosterAnswers, RosterFails, Becomes, At, snapshot, fences
  <2> QED BY <2>1, <1>1, GoesOnPreserves
<1> QED BY <1>2, <1>3

LEMMA AfterRosterPreserves ==
  ASSUME Inv, NEW c \in Caller, AfterRoster(c)
  PROVE  Inv'
<1>1. call[c] \in Call /\ call[c].pc = "rosterDone" /\ UNCHANGED <<calls, disposed, published>>
  BY DEF AfterRoster, At, Inv, TypeOK
<1>2. CASE call[c].op = "refreshAll" /\ Iterate(c, "refreshAll", roster)
  <2>1. Resuming(c, "refreshAll", roster)
    BY <1>1, <1>2 DEF Resuming, Covers, Reaches, At, Operation, Inv, TypeOK
  <2> QED BY <2>1, <1>2, IteratePreserves
<1>3. CASE /\ call[c].op = "initialize"
           /\ Becomes(c, [Idle(c) EXCEPT !.pc = "cached", !.op = "initialize",
                                         !.generation = rosterGeneration])
           /\ UNCHANGED <<snapshot, fences>>
  <2> DEFINE next == [Idle(c) EXCEPT !.pc = "cached", !.op = "initialize", !.generation = rosterGeneration]
  <2>1. next \in Call /\ next.pc = "cached" /\ next.op = "initialize"
    <3>1. Idle(c) \in Call
      BY CallTypes
    <3>2. rosterGeneration \in RosterGeneration
      BY DEF Inv, TypeOK
    <3> QED BY <3>1, <3>2 DEF Call, Operation
  <2>2. call' = [call EXCEPT ![c] = next] /\ UNCHANGED <<phase, roster, rows, fences, calls, disposed, published>>
    BY <1>1, <1>3 DEF Becomes, snapshot
  <2> HIDE DEF next
  <2> QED BY <2>1, <2>2, <1>1, <1>3, GoesOnPreserves
<1> QED BY <1>2, <1>3 DEF AfterRoster

\* A list of the roster shown leaves no row loading that shows anything.
LEMMA CachedPreserves ==
  ASSUME Inv, NEW c \in Caller, CachedAnswers(c) \/ CachedFails(c)
  PROVE  Inv'
<1> DEFINE next == [call[c] EXCEPT !.pc = "cachedDone"]
<1>1. /\ call[c].pc = "cached" /\ call[c].op = "initialize" /\ call' = [call EXCEPT ![c] = next]
      /\ UNCHANGED <<roster, fences, calls, disposed, published>>
  BY DEF CachedAnswers, CachedFails, Becomes, At, Inv, Operations
<1>2. next \in Call /\ next.pc = "cachedDone" /\ next.op = call[c].op
  BY DEF Inv, TypeOK, Call
<1>3. CASE UNCHANGED rows /\ phase' \in {phase, "ready"}
  BY <1>1, <1>2, <1>3, GoesOnPreserves
<1>4. CASE CachedAnswers(c) /\ call[c].generation = rosterGeneration
  <2>0. PICK listed \in SUBSET roster : \E freshness \in [listed -> Freshness] :
          rows' = [p \in Provider |->
                     IF p \in listed
                     THEN [status |-> "ready",
                           usage |-> [freshness |-> freshness[p], asked |-> rosterGeneration]]
                     ELSE IF p \in roster THEN [status |-> "loading", usage |-> None]
                     ELSE None]
    BY <1>4 DEF CachedAnswers
  <2>1. PICK freshness \in [listed -> Freshness] :
          rows' = [p \in Provider |->
                     IF p \in listed
                     THEN [status |-> "ready",
                           usage |-> [freshness |-> freshness[p], asked |-> rosterGeneration]]
                     ELSE IF p \in roster THEN [status |-> "loading", usage |-> None]
                     ELSE None]
    BY <2>0
  <2>2. phase' = "ready" /\ UNCHANGED <<rosterGeneration, rosterRequestSerial, inFlightRefreshes>>
    BY <1>1, <1>4 DEF CachedAnswers, fences
  <2>3. /\ call' \in [Caller -> Call]
        /\ call'[c] = next
        /\ \A d \in Caller : d # c => call'[d] = call[d]
    BY <1>1, <1>2 DEF Inv, TypeOK
  <2>4. rows' \in [Provider -> Row \cup {None}] /\ \A p \in Provider : rows'[p] # None <=> p \in roster
    <3>1. ASSUME NEW p \in listed
          PROVE  [status |-> "ready", usage |-> [freshness |-> freshness[p], asked |-> rosterGeneration]] \in Row
      BY <3>1 DEF Row, Usage, Inv, TypeOK
    <3>2. [status |-> "loading", usage |-> None] \in Row
      BY DEF Row
    <3> QED BY <3>1, <3>2, <2>1, RowTypes DEF Inv, TypeOK
  <2>5. TypeOK'
    BY <2>2, <2>3, <2>4, <1>1 DEF Inv, TypeOK
  <2>6. Serials'
    BY <2>2, <2>3, <1>1, <1>2, SerialsKept DEF Inv, TypeOK, At
  <2>7. Operations'
    BY <2>3, <1>1, <1>2 DEF Inv, Operations
  <2>8. ReadyIsCurrent'
    BY <2>1, <2>2, <1>1 DEF ReadyIsCurrent
  <2>9. Refreshes'
    BY <2>2, <2>3, <1>1, <1>2, RefreshesKept DEF At
  <2>10. ASSUME NEW p \in roster, rows'[p].status = "loading" PROVE Covers(c, p)'
    <3>1. rows'[p].usage = None
      BY <2>1, <2>10 DEF Inv, TypeOK
    <3> QED BY <3>1, <2>3, <1>1, <1>2 DEF Covers, Reaches, ShowsFresh
  <2>11. LoadingCovered'
    BY <2>10, <1>1 DEF LoadingCovered
  <2> QED BY <2>5, <2>6, <2>7, <2>8, <2>9, <2>11 DEF Inv
<1> QED BY <1>3, <1>4 DEF CachedAnswers, CachedFails

-----------------------------------------------------------------------------
(* Calls *)

LEMMA RequestRosterPreserves ==
  ASSUME Inv, NEW c \in Caller, At(c, "idle"), NEW op \in {"initialize", "refreshAll"},
         op = "initialize" => calls = 0,
         calls < MaxCalls, calls' = calls + 1, RequestRoster(c, op),
         phase' \in {phase, "loading"}, UNCHANGED <<disposed, published>>
  PROVE  Inv'
<1> DEFINE next == [Idle(c) EXCEPT !.pc = "roster", !.op = op, !.serial = rosterRequestSerial + 1]
<1>1. /\ rosterRequestSerial' = rosterRequestSerial + 1
      /\ call' = [call EXCEPT ![c] = next]
      /\ UNCHANGED <<roster, rows, rosterGeneration, inFlightRefreshes>>
  BY DEF RequestRoster, Becomes
<1>2. /\ published \in Nat /\ rosterRequestSerial \in Nat /\ calls \in Nat /\ MaxCalls \in Nat
      /\ published <= rosterRequestSerial /\ rosterRequestSerial <= calls
  BY BoundsAssumption DEF Inv, TypeOK, Serial, Serials
<1>3. rosterRequestSerial + 1 \in Serial
  BY <1>2 DEF Serial
<1>4. next \in Call /\ next.pc = "roster" /\ next.op = op /\ next.serial = rosterRequestSerial + 1
  <2>1. Idle(c) \in Call
    BY CallTypes
  <2> QED BY <2>1, <1>3 DEF Call, Operation
<1>5. /\ call' \in [Caller -> Call]
      /\ call'[c] = next
      /\ \A d \in Caller : d # c => call'[d] = call[d]
  BY <1>1, <1>4 DEF Inv, TypeOK
<1>6. TypeOK'
  BY <1>1, <1>2, <1>3, <1>5 DEF Inv, TypeOK
<1>7. Serials'
  <2>1. ASSUME NEW d \in Caller, At(d, "roster")', d # c
        PROVE  /\ At(d, "roster") /\ call'[d] = call[d]
               /\ call[d].serial \in Nat /\ call[d].serial <= rosterRequestSerial
    BY <2>1, <1>5 DEF At, Inv, TypeOK, Serials, Call, Serial
  <2> QED BY <2>1, <1>1, <1>2, <1>4, <1>5 DEF Inv, Serials, At
<1>8. Operations' /\ ReadyIsCurrent'
  BY <1>1, <1>4, <1>5 DEF Inv, Operations, ReadyIsCurrent
<1>9. Refreshes'
  BY <1>1, <1>4, <1>5, RefreshesKept DEF At
<1>10. LoadingCovered'
  <2> SUFFICES ASSUME ~disposed, NEW q \in roster, rows[q].status = "loading"
               PROVE  \E d \in Caller : Covers(d, q)'
    BY <1>1 DEF LoadingCovered
  <2>1. PICK d \in Caller : Covers(d, q)
    BY DEF Inv, LoadingCovered
  <2>2. d # c
    BY <2>1 DEF Covers, At
  <2> QED BY <2>1, <2>2, <1>1, <1>5 DEF Covers, Reaches, ShowsFresh, At
<1> QED BY <1>6, <1>7, <1>8, <1>9, <1>10 DEF Inv

LEMMA StartPreserves ==
  ASSUME Inv, NEW c \in Caller, Start(c)
  PROVE  Inv'
<1>1. /\ At(c, "idle") /\ calls < MaxCalls /\ calls' = calls + 1 /\ UNCHANGED <<disposed, published>>
      /\ calls' \in 0..MaxCalls /\ calls <= calls'
  BY BoundsAssumption DEF Start, Inv, TypeOK
<1>2. ASSUME NEW op \in Operation, NEW todo \in SUBSET Provider, Iterate(c, op, todo)
      PROVE  Inv'
  <2>1. Resuming(c, op, todo)
    BY <1>1 DEF Resuming, Covers, At
  <2> QED BY <2>1, <1>2, IteratePreserves
<1>3. CASE MayCall("initialize") /\ phase' = "loading" /\ RequestRoster(c, "initialize")
  BY <1>1, <1>3, RequestRosterPreserves DEF MayCall
<1>4. CASE MayCall("refreshAll") /\ RequestRoster(c, "refreshAll") /\ UNCHANGED phase
  BY <1>1, <1>4, RequestRosterPreserves
<1>5. CASE \E p \in Provider : Iterate(c, "refreshProvider", {p})
  BY <1>2, <1>5 DEF Operation
<1>6. CASE Iterate(c, "ensureAllFresh", roster)
  BY <1>2, <1>6 DEF Operation, Inv, TypeOK
<1> QED BY <1>3, <1>4, <1>5, <1>6 DEF Start

LEMMA DisposePreserves ==
  ASSUME Inv, Dispose
  PROVE  Inv'
<1>1. /\ ~disposed /\ disposed' = TRUE
      /\ rosterGeneration' = rosterGeneration + 1
      /\ inFlightRefreshes' = [p \in Provider |-> None]
      /\ UNCHANGED <<phase, roster, rows, rosterRequestSerial, call, calls, published>>
  BY DEF Dispose, snapshot
<1>2. rosterGeneration \in Nat /\ published \in 0..MaxCalls /\ rosterGeneration <= published /\ MaxCalls \in Nat
  BY <1>1, BoundsAssumption DEF Inv, TypeOK, Serials, RosterGeneration, Serial
<1>3. rosterGeneration' \in RosterGeneration
  BY <1>1, <1>2 DEF RosterGeneration
<1>4. TypeOK'
  BY <1>1, <1>3 DEF Inv, TypeOK
<1>5. Serials'
  BY <1>1, <1>2 DEF Inv, Serials, At
<1>6. Refreshes'
  <2>1. \A c \in Caller : At(c, "refreshing") =>
          call[c].generation <= rosterGeneration' /\ call[c].generation # rosterGeneration'
    BY <1>1, <1>2 DEF Inv, TypeOK, Refreshes, Call, RosterGeneration
  <2> QED BY <2>1, <1>1 DEF Inv, Refreshes, At
<1>7. Operations' /\ ReadyIsCurrent' /\ LoadingCovered'
  BY <1>1 DEF Inv, Operations, ReadyIsCurrent, LoadingCovered
<1> QED BY <1>4, <1>5, <1>6, <1>7 DEF Inv

-----------------------------------------------------------------------------
(* What follows *)

LEMMA NextInv == Inv /\ [Next]_vars => Inv'
<1> SUFFICES ASSUME Inv, [Next]_vars PROVE Inv'
  OBVIOUS
<1>1. CASE UNCHANGED vars
  BY <1>1 DEF vars, snapshot, fences, Inv, TypeOK, Serials, Operations, Refreshes, ReadyIsCurrent,
              LoadingCovered, Covers, Reaches, ShowsFresh, At
<1> QED
  BY <1>1, StartPreserves, LoopPreserves, RosterEndsPreserves, AfterRosterPreserves,
     CachedPreserves, RefreshEndsPreserves, DisposePreserves DEF Next

LEMMA Inductive == Spec => []Inv
  BY InitInv, NextInv, PTL DEF Spec

\* A ready row of a controller in use shows an answer that was asked for under the roster
\* shown, in whatever order the host answers (ReadyIsCurrent).
THEOREM RowsAreCurrent == Spec => []ReadyIsCurrent
<1>1. Inv => ReadyIsCurrent
  BY DEF Inv
<1> QED BY <1>1, Inductive, PTL

\* One refresh request for a provider of one roster, every call that joined one waits for
\* a request under way, and once the calls have ended no row is left loading
\* (RefreshesSettle).
THEOREM RowsSettled == Spec => []RefreshesSettle
<1>1. ASSUME Inv PROVE RefreshesSettle
  <2>1. OneRefresh
    BY <1>1 DEF Inv, Refreshes, OneRefresh
  <2>2. RowsSettle
    BY <1>1 DEF Inv, LoadingCovered, Covers, RowsSettle, At
  <2> QED BY <2>1, <2>2 DEF RefreshesSettle
<1>2. Inv => RefreshesSettle
  BY <1>1
<1> QED BY <1>2, Inductive, PTL

\* The roster shown is never replaced by the answer to an older request
\* (RosterNeverGoesBack).
THEOREM RostersAdvance == Spec => RosterNeverGoesBack
<1>1. ASSUME Inv, [Next]_vars PROVE published' >= published
  <2>1. published \in Nat /\ published <= rosterRequestSerial
    BY <1>1 DEF Inv, TypeOK, Serials, Serial
  <2>2. ASSUME NEW c \in Caller, RosterAnswers(c) PROVE published' >= published
    BY <2>1, <2>2 DEF RosterAnswers
  <2>3. CASE published' = published
    BY <2>1, <2>3
  <2> QED
    BY <1>1, <2>2, <2>3 DEF Next, vars, Start, Loop, RosterFails, AfterRoster, CachedAnswers,
                            CachedFails, AfterCached, RefreshAnswers, RefreshFails, Settle, Dispose
<1>2. Inv /\ [Next]_vars => [published' >= published]_vars
  BY <1>1
<1> QED BY <1>2, Inductive, PTL DEF Spec, RosterNeverGoesBack
=============================================================================
