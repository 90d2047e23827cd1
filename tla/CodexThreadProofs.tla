------------------------- MODULE CodexThreadProofs -------------------------
(* The part CodexThread of Parts, for every value of the constants: no two    *)
(* processes work on one thread of the vendor, and the thread a turn runs on  *)
(* has heard what DSH's history says. The first theorem, ThreadsHaveOneWriter,*)
(* rests on ThreadInv; the second, ThreadsHearHistory, on HeardInv as well,   *)
(* which says what every checkpoint, rollout and running step knows of the    *)
(* histories that DSH has told.                                               *)
EXTENDS Parts, HeardMessagesProofs, FiniteSetTheorems

-----------------------------------------------------------------------------
(* Sets and numbers *)

\* The instance counts as the library does.
LEMMA SameCardinality ==
  ASSUME NEW S
  PROVE  Thread!Cardinality(S) = Cardinality(S)
BY DEF Thread!Cardinality, Cardinality

\* The greatest of some numbers up to n.
LEMMA MaxUpTo ==
  ASSUME NEW n \in Nat, NEW S, S \subseteq 0..n, S # {}
  PROVE  Thread!Max(S) \in S /\ Thread!Max(S) \in 0..n /\ \A x \in S : x <= Thread!Max(S)
<1> DEFINE T == {n - x : x \in S}
<1>1. T \in SUBSET Nat /\ T # {}
  <2>1. \A x \in S : x \in 0..n /\ n - x \in Nat
    OBVIOUS
  <2>2. T \subseteq Nat
    BY <2>1
  <2>3. PICK x : x \in S
    OBVIOUS
  <2>4. n - x \in T
    BY <2>3
  <2> HIDE DEF T
  <2> QED BY <2>2, <2>4
<1>2. PICK t \in T : \A u \in T : t <= u
  <2> HIDE DEF T
  <2> QED BY <1>1, LeastNumber
<1>3. PICK x \in S : t = n - x
  BY <1>2
<1>4. \A y \in S : x >= y
  <2> SUFFICES ASSUME NEW y \in S PROVE x >= y
    OBVIOUS
  <2>1. n - y \in T
    OBVIOUS
  <2>2. n - x <= n - y
    BY <1>2, <1>3, <2>1
  <2> QED BY <2>2
<1>5. Thread!Max(S) \in S /\ \A y \in S : Thread!Max(S) >= y
  BY <1>4 DEF Thread!Max
<1> QED BY <1>5

-----------------------------------------------------------------------------
(* Joining lists *)

Joins(f, lists, n) ==
  /\ f = [i \in 0..n |-> f[i]]
  /\ f[0] = <<>>
  /\ \A i \in 1..n : f[i] = f[i-1] \o lists[i]

LEMMA JoinsSolvable ==
  ASSUME NEW lists, NEW n \in Nat
  PROVE  \E f : Joins(f, lists, n)
<1> DEFINE solved == {m \in 0..n : \E f : Joins(f, lists, m)}
<1>1. 0 \in solved
  <2>1. Joins([i \in 0..0 |-> <<>>], lists, 0)
    BY DEF Joins
  <2> QED BY <2>1
<1>2. ASSUME NEW m \in 1..n, m-1 \in solved PROVE m \in solved
  <2>1. PICK f : Joins(f, lists, m-1)
    BY <1>2
  <2> DEFINE g == [i \in 0..m |-> IF i = m THEN f[m-1] \o lists[m] ELSE f[i]]
  <2>2. g[0] = <<>> /\ g = [i \in 0..m |-> g[i]]
    BY <2>1 DEF Joins
  <2>3. ASSUME NEW i \in 1..m PROVE g[i] = g[i-1] \o lists[i]
    <3>1. CASE i = m
      <4>1. g[i] = f[m-1] \o lists[m] /\ g[i-1] = f[m-1]
        BY <3>1
      <4> QED BY <4>1, <3>1
    <3>2. CASE i # m
      <4>1. g[i] = f[i] /\ g[i-1] = f[i-1] /\ i \in 1..(m-1)
        BY <3>2
      <4> QED BY <4>1, <2>1 DEF Joins
    <3> QED BY <3>1, <3>2
  <2> HIDE DEF g
  <2>4. Joins(g, lists, m)
    BY <2>2, <2>3 DEF Joins
  <2> QED BY <2>4
<1> HIDE DEF solved
<1>3. n \in solved
  <2>1. \A m \in 1..n : m-1 \in solved => m \in solved
    BY <1>2
  <2>2. 0..n \subseteq solved
    BY <1>1, <2>1, UpTo
  <2> QED BY <2>2
<1> QED BY <1>3 DEF solved

\* The lists joined so far, of which Joined is the last.
LEMMA JoinedSteps ==
  ASSUME NEW S, NEW lists \in Seq(Seq(S))
  PROVE  \E f : /\ Joins(f, lists, Len(lists)) /\ Thread!Joined(lists) = f[Len(lists)]
                /\ \A i \in 0..Len(lists) : f[i] \in Seq(S)
<1>1. PICK n \in Nat : n = Len(lists)
  OBVIOUS
<1> DEFINE joined == CHOOSE f : f = [i \in 0..n |-> IF i = 0 THEN <<>> ELSE f[i-1] \o lists[i]]
<1>2. Thread!Joined(lists) = joined[n]
  BY <1>1 DEF Thread!Joined
<1>3. PICK f : Joins(f, lists, n)
  BY JoinsSolvable
<1>4. f = [i \in 0..n |-> IF i = 0 THEN <<>> ELSE f[i-1] \o lists[i]]
  BY <1>3 DEF Joins
<1>5. joined = [i \in 0..n |-> IF i = 0 THEN <<>> ELSE joined[i-1] \o lists[i]]
  BY <1>4
<1> HIDE DEF joined
<1>6. joined[0] = <<>> /\ \A i \in 1..n : joined[i] = joined[i-1] \o lists[i]
  <2>1. joined[0] = <<>>
    <3>1. 0 \in 0..n
      OBVIOUS
    <3> QED BY <1>5, <3>1
  <2>2. ASSUME NEW i \in 1..n PROVE joined[i] = joined[i-1] \o lists[i]
    <3>1. i \in 0..n /\ i # 0
      OBVIOUS
    <3> QED BY <1>5, <3>1
  <2> QED BY <2>1, <2>2
<1>7. Joins(joined, lists, n)
  BY <1>5, <1>6 DEF Joins
<1> DEFINE typed == {i \in 0..n : joined[i] \in Seq(S)}
<1>8. 0..n \subseteq typed
  <2>1. 0 \in typed
    <3>1. 0 \in 0..n
      OBVIOUS
    <3>2. <<>> \in Seq(S)
      OBVIOUS
    <3>3. joined[0] \in Seq(S)
      BY <1>6, <3>2
    <3> QED BY <3>1, <3>3
  <2>2. ASSUME NEW i \in 1..n, i-1 \in typed PROVE i \in typed
    <3>1. lists[i] \in Seq(S) /\ joined[i-1] \in Seq(S)
      BY <1>1, <2>2
    <3>2. joined[i-1] \o lists[i] \in Seq(S)
      BY <3>1
    <3>3. joined[i] \in Seq(S)
      BY <1>6, <3>2
    <3> QED BY <3>3
  <2>3. \A i \in 1..n : i-1 \in typed => i \in typed
    BY <2>2
  <2> HIDE DEF typed
  <2> QED BY <2>1, <2>3, UpTo
<1> QED BY <1>1, <1>2, <1>7, <1>8

LEMMA JoinedType ==
  ASSUME NEW S, NEW lists \in Seq(Seq(S))
  PROVE  Thread!Joined(lists) \in Seq(S)
<1>1. PICK f : /\ Joins(f, lists, Len(lists)) /\ Thread!Joined(lists) = f[Len(lists)]
               /\ \A i \in 0..Len(lists) : f[i] \in Seq(S)
  BY JoinedSteps
<1>2. Len(lists) \in 0..Len(lists)
  OBVIOUS
<1> QED BY <1>1, <1>2

-----------------------------------------------------------------------------
(* The steps of a session *)

\* From the call to its return.
Active(k) == call[k].pc \notin {"idle", "done"}

\* The threads of a session: the one a step began, which a later step may take up again.
Roots ==
  \A k \in Thread!Step : replay[k] # None =>
    LET t == replay[k].thread
    IN  replay[t] # None /\ replay[t].thread = t /\ replay[t].session = replay[k].session

Owns(k) ==
  LET t == Thread!ThreadOf(k)
  IN  \/ t = k
      \/ /\ ~call[k].auxiliary /\ replay[t] # None
         /\ replay[t].thread = t /\ replay[t].session = call[k].session

CallInv(k) ==
  /\ child[k] # "none" => call[k].pc \notin {"idle", "spawning", "done"}
  /\ Active(k) => call[k].session \in Session /\ Owns(k)
  /\ Active(k) /\ ~call[k].auxiliary => call[k].session \in inFlight
  /\ call[k].pc \in {"rollingBack", "injecting", "turning", "streaming", "closing"} => call[k].thread # None
  /\ call[k].pc \in {"spawning", "resuming", "forking", "starting"} => call[k].thread = None
  /\ call[k].pc \in {"resuming", "rollingBack", "forking"} => call[k].checkpoint # None
  /\ call[k].checkpoint # None =>
       /\ replay[call[k].checkpoint] # None /\ Active(k)
       /\ \E i \in DOMAIN call[k].messages : Thread!IsReply(call[k].messages[i]) /\ call[k].messages[i].by = call[k].checkpoint
  /\ replay[k] # None =>
       /\ call[k].pc \in {"closing", "done"} /\ ~call[k].auxiliary
       /\ call[k].pc = "closing" => replay[k].session = call[k].session

OneStep ==
  \A j, k \in Thread!Step : j # k /\ Active(j) /\ Active(k) /\ ~call[j].auxiliary /\ ~call[k].auxiliary
    => call[j].session # call[k].session

DisposeInv ==
  /\ \A k \in Thread!Step : child[k] = "live" => call[k].pc \in Thread!Starting \/ k \in activeTurns
  /\ disposed => \A k \in Thread!Step : call[k].pc \in Thread!Starting => k \in late

LEMMA SubSeqTyped ==
  ASSUME NEW S, NEW s \in Seq(S), NEW a \in Nat, a >= 1, NEW b \in Nat, b <= Len(s)
  PROVE  SubSeq(s, a, b) \in Seq(S)
<1>1. a \in Int /\ b \in Int /\ \A i \in a..b : s[i] \in S
  OBVIOUS
<1> QED BY <1>1, SubSeqProperties

LEMMA MessageTyped ==
  ASSUME NEW m \in Thread!Message
  PROVE  m.kind \in Thread!Kind /\ m.by \in Thread!Step /\ m.of \in Thread!Step \cup {None} /\ m.edited \in BOOLEAN
BY DEF Thread!Message

LEMMA NewTyped ==
  ASSUME NEW kind \in Thread!Kind, NEW k \in Thread!Step
  PROVE  Thread!New(kind, k) \in Thread!Message
BY DEF Thread!New, Thread!Message

\* The last messages of these kinds, and how many they are.
LEMMA TrailingBound ==
  ASSUME NEW messages \in Seq(Thread!Message), NEW kinds
  PROVE  Thread!Trailing(messages, kinds) \in 0..Len(messages)
<1> DEFINE others == {0} \cup {i \in 1..Len(messages) : messages[i].kind \notin kinds}
<1>1. Len(messages) \in Nat /\ others \subseteq 0..Len(messages) /\ others # {}
  OBVIOUS
<1> HIDE DEF others
<1>2. Thread!Max(others) \in 0..Len(messages)
  BY <1>1, MaxUpTo
<1>3. Thread!Trailing(messages, kinds) = Len(messages) - Thread!Max(others)
  BY DEF Thread!Trailing, others
<1> QED BY <1>1, <1>2, <1>3

LEMMA PendingTyped ==
  ASSUME NEW messages \in Seq(Thread!Message), NEW position \in 0..Len(messages)
  PROVE  /\ Thread!Pending(messages, position) \in Seq(Thread!Message)
         /\ Thread!Historical(Thread!Pending(messages, position)) \in Seq(Thread!Message)
         /\ Thread!TurnInput(Thread!Pending(messages, position)) \in Seq(Thread!Message)
<1>1. Thread!Pending(messages, position) \in Seq(Thread!Message)
  BY SubSeqTyped DEF Thread!Pending
<1>2. PICK rest \in Seq(Thread!Message) : rest = Thread!Pending(messages, position)
  BY <1>1
<1>3. Thread!Trailing(rest, Thread!CurrentTurnInput) \in 0..Len(rest)
  BY TrailingBound
<1>4. Len(rest) - Thread!Trailing(rest, Thread!CurrentTurnInput) \in 0..Len(rest) /\ Len(rest) \in Nat
  BY <1>3
<1>5. Thread!Historical(rest) \in Seq(Thread!Message) /\ Thread!TurnInput(rest) \in Seq(Thread!Message)
  BY <1>4, SubSeqTyped DEF Thread!Historical, Thread!TurnInput
<1> QED BY <1>1, <1>2, <1>5

LEMMA InjectTyped ==
  ASSUME NEW messages \in Seq(Thread!Message), NEW position \in 0..Len(messages)
  PROVE  Thread!InjectItems(messages, position) \in Seq(Thread!Message)
<1>1. PICK items \in Seq(Thread!Message) : items = Thread!Historical(Thread!Pending(messages, position))
  BY PendingTyped
<1>2. PICK checkpoint : checkpoint = IF position = 0 THEN None ELSE messages[position]
  OBVIOUS
<1>3. checkpoint # None => checkpoint \in Thread!Message
  <2>1. position # 0 => messages[position] \in Thread!Message
    OBVIOUS
  <2> QED BY <1>2, <2>1
<1>4. \A item \in Thread!Message : Thread!WithCall(item, checkpoint) \in Seq(Thread!Message)
  <2>1. \A item \in Thread!Message : <<item>> \in Seq(Thread!Message)
    OBVIOUS
  <2>2. checkpoint \in Thread!Message => \A item \in Thread!Message : <<checkpoint, item>> \in Seq(Thread!Message)
    OBVIOUS
  <2> QED BY <1>3, <2>1, <2>2 DEF Thread!WithCall
<1> DEFINE seqs == [i \in 1..Len(items) |-> Thread!WithCall(items[i], checkpoint)]
<1>5. seqs \in Seq(Seq(Thread!Message))
  <2>1. Len(items) \in Nat /\ \A i \in 1..Len(items) : Thread!WithCall(items[i], checkpoint) \in Seq(Thread!Message)
    BY <1>4
  <2> QED BY <2>1
<1>6. Thread!InjectItems(messages, position) = Thread!Joined(seqs)
  BY <1>1, <1>2 DEF Thread!InjectItems
<1> HIDE DEF seqs
<1> QED BY <1>5, <1>6, JoinedType

LEMMA StepTyped ==
  ASSUME Thread!TypeOK, NEW k \in Thread!Step
  PROVE  /\ call[k] \in Thread!CallState
         /\ call[k].session \in Session \cup {None} /\ call[k].auxiliary \in BOOLEAN
         /\ call[k].messages \in Seq(Thread!Message) /\ call[k].checkpoint \in Thread!Step \cup {None}
         /\ call[k].thread \in Thread!Step \cup {None} /\ call[k].behind \in Nat
BY DEF Thread!TypeOK, Thread!CallState

LEMMA PositionTyped ==
  ASSUME Thread!TypeOK, NEW k \in Thread!Step, CallInv(k)
  PROVE  /\ Thread!PositionOf(k) \in 0..Len(call[k].messages)
         /\ Thread!Injected(k) \in Seq(Thread!Message) /\ Thread!Input(k) \in Seq(Thread!Message)
<1>1. PICK messages \in Seq(Thread!Message) : messages = call[k].messages
  BY StepTyped
<1>2. PICK position : position = Thread!PositionOf(k)
  OBVIOUS
<1>3. position \in 0..Len(messages)
  <2>1. CASE call[k].checkpoint = None
    BY <1>1, <1>2, <2>1 DEF Thread!PositionOf
  <2>2. CASE call[k].checkpoint # None
    <3> DEFINE P(i) == Thread!IsReply(messages[i]) /\ messages[i].by = call[k].checkpoint
    <3>1. \E i \in 1..Len(messages) : P(i)
      BY <1>1, <2>2 DEF CallInv
    <3>2. position = CHOOSE i \in 1..Len(messages) : P(i)
      BY <1>1, <1>2, <2>2 DEF Thread!PositionOf
    <3> HIDE DEF P
    <3>3. position \in 1..Len(messages)
      BY <3>1, <3>2
    <3> QED BY <3>3
  <2> QED BY <2>1, <2>2
<1>4. Thread!Injected(k) = Thread!InjectItems(messages, position) /\ Thread!Input(k) = Thread!TurnInput(Thread!Pending(messages, position))
  BY <1>1, <1>2 DEF Thread!Injected, Thread!Input
<1> QED BY <1>1, <1>2, <1>3, <1>4, InjectTyped, PendingTyped

\* A part of a thread is as good a thread.
LEMMA RolledBackTyped ==
  ASSUME NEW entries \in Seq(Thread!Entry), NEW n, NEW held \in Thread!RolledBack(entries, n)
  PROVE  held \in Seq(Thread!Entry)
<1> DEFINE before == {0} \cup {i \in 1..Len(entries) : Thread!TurnsAfter(entries, i) >= n}
<1>1. Len(entries) \in Nat /\ before \subseteq 0..Len(entries) /\ before # {}
  OBVIOUS
<1> HIDE DEF before
<1>2. Thread!Max(before) \in 0..Len(entries)
  BY <1>1, MaxUpTo
<1>3. SubSeq(entries, 1, Thread!Max(before)) \in Seq(Thread!Entry)
  BY <1>1, <1>2, SubSeqTyped
<1>4. PICK left \in Seq(Thread!Entry) : left = SubSeq(entries, 1, Thread!Max(before))
  BY <1>3
<1> DEFINE turned == {0} \cup {i \in 1..Len(left) : left[i].turn # None}
<1>5. Len(left) \in Nat /\ turned \subseteq 0..Len(left) /\ turned # {}
  OBVIOUS
<1> HIDE DEF turned
<1>6. Thread!Max(turned) \in 0..Len(left)
  BY <1>5, MaxUpTo
<1>7. SubSeq(left, 1, Thread!Max(turned)) \in Seq(Thread!Entry)
  BY <1>5, <1>6, SubSeqTyped
<1>8. held = left \/ held = SubSeq(left, 1, Thread!Max(turned))
  BY <1>4 DEF Thread!RolledBack, before, turned
<1> QED BY <1>7, <1>8

LEMMA WithItemsTyped ==
  ASSUME Thread!TypeOK, NEW t \in Thread!Step, NEW of \in Thread!Step \cup {None},
         NEW items \in Seq(Thread!Message)
  PROVE  Thread!WithItems(t, of, items) \in [Thread!Step -> Seq(Thread!Entry)]
<1>1. [turn |-> of, items |-> items] \in Thread!Entry
  BY DEF Thread!Entry
<1>2. Append(thread[t], [turn |-> of, items |-> items]) \in Seq(Thread!Entry)
  BY <1>1 DEF Thread!TypeOK
<1> QED BY <1>2 DEF Thread!WithItems, Thread!TypeOK

LEMMA MessagesTyped ==
  ASSUME NEW entries \in Seq(Thread!Entry)
  PROVE  Thread!Messages(entries) \subseteq Thread!Message
<1>1. \A i \in 1..Len(entries) : entries[i].items \in Seq(Thread!Message)
  <2>1. \A e \in Thread!Entry : e.items \in Seq(Thread!Message)
    BY DEF Thread!Entry
  <2> QED BY <2>1
<1>2. \A s \in Seq(Thread!Message) : Thread!Range(s) \subseteq Thread!Message
  BY DEF Thread!Range
<1> QED BY <1>1, <1>2 DEF Thread!Messages

LEMMA ForsakenTyped ==
  ASSUME Thread!TypeOK, NEW k \in Thread!Step, NEW threads \in [Thread!Step -> Seq(Thread!Entry)]
  PROVE  /\ Thread!Forsaken(k, threads) \in [Thread!Step -> SUBSET Thread!Message]
         /\ Thread!Abandoned(k, threads) \in [Thread!Step -> Seq(Thread!Entry)]
<1>1. \A t \in Thread!Step : Thread!Messages(threads[t]) \subseteq Thread!Message
  BY MessagesTyped
<1>2. Thread!Forsaken(k, threads) \in [Thread!Step -> SUBSET Thread!Message]
  <2>1. PICK gone : gone = Thread!Range(SubSeq(call[k].messages, 1, Thread!PositionOf(k)))
    OBVIOUS
  <2> QED BY <1>1, <2>1, StepTyped DEF Thread!Forsaken, Thread!TypeOK
<1>3. Thread!Abandoned(k, threads) \in [Thread!Step -> Seq(Thread!Entry)]
  <2>1. <<>> \in Seq(Thread!Entry)
    OBVIOUS
  <2> QED BY <2>1 DEF Thread!Abandoned
<1> QED BY <1>2, <1>3

LEMMA RepliedTyped ==
  ASSUME Thread!TypeOK, NEW k \in Thread!Step, call[k].thread # None, NEW kind \in Thread!Kind
  PROVE  Thread!Replied(k, kind) \in Seq(Thread!Entry)
<1>1. PICK entries \in Seq(Thread!Entry) : entries = thread[call[k].thread]
  BY StepTyped DEF Thread!TypeOK
<1>2. Thread!New(kind, k) \in Thread!Message
  BY NewTyped
<1>3. \A e \in Thread!Entry : e.items \in Seq(Thread!Message) /\ Append(e.items, Thread!New(kind, k)) \in Seq(Thread!Message)
  BY <1>2 DEF Thread!Entry
<1>4. \A e \in Thread!Entry : [e EXCEPT !.items = Append(e.items, Thread!New(kind, k))] \in Thread!Entry
  BY <1>3 DEF Thread!Entry
<1>5. Thread!Replied(k, kind) = [entries EXCEPT ![Len(entries)] = [entries[Len(entries)] EXCEPT !.items = Append(entries[Len(entries)].items, Thread!New(kind, k))]]
  BY <1>1 DEF Thread!Replied
<1>6. CASE Len(entries) = 0
  <2>1. Thread!Replied(k, kind) = entries
    BY <1>5, <1>6
  <2> QED BY <2>1
<1>7. CASE Len(entries) # 0
  <2>1. Len(entries) \in 1..Len(entries) /\ entries[Len(entries)] \in Thread!Entry
    BY <1>7
  <2> QED BY <1>4, <1>5, <2>1
<1> QED BY <1>6, <1>7

LEMMA EffectsTyped ==
  ASSUME Thread!TypeOK, NEW k \in Thread!Step, CallInv(k), NEW threads \in Thread!Effects(k)
  PROVE  threads \in [Thread!Step -> Seq(Thread!Entry)]
<1>1. thread \in [Thread!Step -> Seq(Thread!Entry)]
  BY DEF Thread!TypeOK
<1>2. ASSUME call[k].pc = "rollingBack",
             NEW held \in Thread!RolledBack(thread[call[k].thread], call[k].behind),
             threads = [thread EXCEPT ![call[k].thread] = held]
      PROVE  threads \in [Thread!Step -> Seq(Thread!Entry)]
  <2>1. call[k].thread \in Thread!Step
    BY <1>2, StepTyped DEF CallInv
  <2>2. held \in Seq(Thread!Entry)
    BY <1>1, <1>2, <2>1, RolledBackTyped
  <2> QED BY <1>1, <1>2, <2>1, <2>2
<1>3. ASSUME call[k].pc = "injecting" \/ call[k].pc = "turning"
      PROVE  /\ Thread!WithItems(call[k].thread, None, Thread!Injected(k)) \in [Thread!Step -> Seq(Thread!Entry)]
             /\ Thread!WithItems(call[k].thread, k, Thread!Input(k)) \in [Thread!Step -> Seq(Thread!Entry)]
  <2>1. call[k].thread \in Thread!Step
    BY <1>3, StepTyped DEF CallInv
  <2> QED BY <2>1, WithItemsTyped, PositionTyped
<1> QED BY <1>1, <1>2, <1>3 DEF Thread!Effects

\* What a session is rewritten to is a history.
LEMMA RewrittenTyped ==
  ASSUME Thread!TypeOK, NEW s \in Session, NEW k \in Thread!Step,
         NEW messages \in Thread!Rewritten(s, k)
  PROVE  messages \in Seq(Thread!Message)
<1>1. PICK held \in Seq(Thread!Message) : held = history[s]
  BY DEF Thread!TypeOK
<1>2. ASSUME NEW n \in {0, Len(held)} \cup {i \in 1..Len(held) : Thread!IsReply(held[i])}
      PROVE  SubSeq(held, 1, n) \in Seq(Thread!Message)
  <2>1. n \in Nat /\ n <= Len(held)
    BY <1>2
  <2> QED BY <2>1, SubSeqTyped
<1>3. rewritten[s] \in Seq(Thread!Message)
  BY DEF Thread!TypeOK
<1>4. <<Thread!New("summary", k)>> \in Seq(Thread!Message)
  <2>1. Thread!New("summary", k) \in Thread!Message
    BY NewTyped DEF Thread!Kind
  <2> QED BY <2>1
<1>5. ASSUME NEW i \in {j \in 1..Len(held) : held[j].kind \in {"tool", "call"}}
      PROVE  [held EXCEPT ![i].edited = TRUE] \in Seq(Thread!Message)
  <2>1. i \in 1..Len(held) /\ held[i] \in Thread!Message
    BY <1>5
  <2>2. [held[i] EXCEPT !.edited = TRUE] \in Thread!Message
    BY <2>1 DEF Thread!Message
  <2> QED BY <2>1, <2>2
<1>6. \/ messages \in {SubSeq(held, 1, n) : n \in {0, Len(held)} \cup {i \in 1..Len(held) : Thread!IsReply(held[i])}}
      \/ messages = rewritten[s] \/ messages = <<Thread!New("summary", k)>>
      \/ messages \in {[held EXCEPT ![i].edited = TRUE] : i \in {j \in 1..Len(held) : held[j].kind \in {"tool", "call"}}}
  BY <1>1 DEF Thread!Rewritten
<1> QED BY <1>2, <1>3, <1>4, <1>5, <1>6

LEMMA ContinuedTyped ==
  ASSUME NEW k \in Thread!Step, NEW before \in Seq(Thread!Message),
         NEW messages \in Thread!Continued(before, k)
  PROVE  messages \in Seq(Thread!Message)
<1>1. Thread!New("user", k) \in Thread!Message /\ Thread!New("foreign", k) \in Thread!Message /\ Thread!New("tool", k) \in Thread!Message
  BY NewTyped DEF Thread!Kind
<1>2. PICK user \in Thread!Message, foreign \in Thread!Message : user = Thread!New("user", k) /\ foreign = Thread!New("foreign", k)
  BY <1>1
<1>3. /\ <<user>> \in Seq(Thread!Message) /\ before \o <<foreign, user>> \in Seq(Thread!Message)
      /\ Append(before, user) \in Seq(Thread!Message)
  OBVIOUS
<1>4. ASSUME before # <<>>
      PROVE  /\ Append(before, Thread!Result(before, k)) \in Seq(Thread!Message)
             /\ before \o <<Thread!Result(before, k), user>> \in Seq(Thread!Message)
  <2>1. Len(before) \in 1..Len(before) /\ before[Len(before)] \in Thread!Message
    BY <1>4
  <2>2. before[Len(before)].by \in Thread!Step
    BY <2>1, MessageTyped
  <2>3. Thread!Result(before, k) \in Thread!Message
    BY <1>1, <2>2 DEF Thread!Result, Thread!Message
  <2>4. PICK result \in Thread!Message : result = Thread!Result(before, k)
    BY <2>3
  <2> QED BY <2>4
<1> QED BY <1>2, <1>3, <1>4 DEF Thread!Continued

LEMMA RequestsTyped ==
  ASSUME Thread!TypeOK, NEW s \in Session, NEW k \in Thread!Step, NEW messages \in Thread!Requests(s, k)
  PROVE  messages \in Seq(Thread!Message)
BY RewrittenTyped, ContinuedTyped DEF Thread!Requests

\* The checkpoint of a history is a reply of it, made in the same session.
LEMMA CheckpointFound ==
  ASSUME Thread!TypeOK, NEW messages \in Seq(Thread!Message), NEW s, NEW position,
         position = Thread!Checkpoint(messages, s)
  PROVE  /\ position \in 0..Len(messages)
         /\ position # 0 => /\ Thread!ValidCheckpoint(messages, position) /\ messages[position] \in Thread!Message
                            /\ replay[messages[position].by] # None
                            /\ replay[messages[position].by].session = s
<1> DEFINE valid == {0} \cup {i \in 1..Len(messages) : Thread!ValidCheckpoint(messages, i)}
<1>1. Len(messages) \in Nat /\ valid \subseteq 0..Len(messages) /\ valid # {}
  OBVIOUS
<1>2. Thread!Max(valid) \in valid /\ Thread!Max(valid) \in 0..Len(messages)
  <2> HIDE DEF valid
  <2> QED BY <1>1, MaxUpTo
<1>3. Thread!LatestCheckpoint(messages) = Thread!Max(valid)
  BY DEF Thread!LatestCheckpoint
<1>4. PICK i : i = Thread!Max(valid)
  OBVIOUS
<1>5. i \in 0..Len(messages) /\ (i # 0 => Thread!ValidCheckpoint(messages, i) /\ messages[i] \in Thread!Message)
  BY <1>2, <1>4
<1>6. position = IF i # 0 /\ replay[messages[i].by].session = s THEN i ELSE 0
  BY <1>3, <1>4 DEF Thread!Checkpoint
<1>7. i # 0 => replay[messages[i].by] # None
  BY <1>5 DEF Thread!ValidCheckpoint
<1> HIDE DEF valid
<1> QED BY <1>5, <1>6, <1>7

ThreadInv == Thread!TypeOK /\ Roots /\ (\A k \in Thread!Step : CallInv(k)) /\ OneStep /\ DisposeInv /\ Thread!DisposeClosesAll

\* A step of one stream call that goes on: what it leaves of the others' state.
Goes(k, c) ==
  /\ Active(k) /\ c \in Thread!CallState
  /\ c.session = call[k].session /\ c.auxiliary = call[k].auxiliary /\ c.pc \notin {"idle", "done"}
  /\ c.pc \in Thread!Starting => call[k].pc \in Thread!Starting
  /\ call' = [call EXCEPT ![k] = c]
  /\ inFlight' = inFlight /\ disposed' = disposed /\ late' = late
  /\ \A j \in Thread!Step : j # k => child'[j] = child[j]
  /\ activeTurns' \ {k} = activeTurns \ {k}
  /\ child'[k] = "live" => c.pc \in Thread!Starting \/ k \in activeTurns'
  /\ child'[k] = "live" /\ child[k] # "live" => call[k].pc \in Thread!Starting

LEMMA GoesKeeps ==
  ASSUME ThreadInv, NEW k \in Thread!Step, NEW c, Goes(k, c)
  PROVE  OneStep' /\ DisposeInv' /\ Thread!DisposeClosesAll'
<1>1. /\ call'[k] = c /\ \A j \in Thread!Step : j # k => call'[j] = call[j]
      /\ \A j \in Thread!Step : call'[j].session = call[j].session /\ call'[j].auxiliary = call[j].auxiliary
      /\ \A j \in Thread!Step : Active(j)' => Active(j)
      /\ \A j \in Thread!Step : call'[j].pc \in Thread!Starting => call[j].pc \in Thread!Starting
  BY DEF Goes, ThreadInv, Thread!TypeOK, Active
<1>2. OneStep'
  BY <1>1 DEF ThreadInv, OneStep
<1>3. DisposeInv'
  <2>1. ASSUME NEW j \in Thread!Step, child'[j] = "live"
        PROVE call'[j].pc \in Thread!Starting \/ j \in activeTurns'
    <3>1. CASE j = k
      BY <1>1, <2>1, <3>1 DEF Goes
    <3>2. CASE j # k
      <4>1. child[j] = "live" /\ call'[j] = call[j] /\ (j \in activeTurns => j \in activeTurns')
        BY <1>1, <2>1, <3>2 DEF Goes
      <4> QED BY <4>1 DEF ThreadInv, DisposeInv
    <3> QED BY <3>1, <3>2
  <2>2. disposed' => \A j \in Thread!Step : call'[j].pc \in Thread!Starting => j \in late'
    BY <1>1 DEF Goes, ThreadInv, DisposeInv
  <2> QED BY <2>1, <2>2 DEF DisposeInv
<1>4. Thread!DisposeClosesAll'
  BY DEF Goes, ThreadInv, DisposeInv, Thread!DisposeClosesAll
<1> QED BY <1>2, <1>3, <1>4

\* The replay states that are there stay, and the steps beside k stay as they are.
LEMMA OthersKeep ==
  ASSUME ThreadInv, NEW k \in Thread!Step, NEW j \in Thread!Step, j # k, call'[j] = call[j],
         child'[j] = child[j],
         replay'[j] = replay[j], \A i \in Thread!Step : replay[i] # None => replay'[i] = replay[i],
         Active(j) /\ ~call[j].auxiliary => call[j].session \in inFlight'
  PROVE  CallInv(j)'
<1>1. CallInv(j) /\ call[j] \in Thread!CallState /\ call[j].checkpoint \in Thread!Step \cup {None}
  BY StepTyped DEF ThreadInv
<1>2. Active(j)' <=> Active(j)
  BY DEF Active
<1>3. call[j].checkpoint # None => replay'[call[j].checkpoint] = replay[call[j].checkpoint]
  BY <1>1 DEF CallInv
<1>4. Thread!ThreadOf(j)' = Thread!ThreadOf(j)
  BY <1>3 DEF Thread!ThreadOf
<1>5. Active(j) => Owns(j)'
  <2>1. PICK t : t = Thread!ThreadOf(j)
    OBVIOUS
  <2>2. Active(j) => t \in Thread!Step
    BY <1>1, <2>1, StepTyped DEF ThreadInv, Thread!TypeOK, Thread!ThreadOf, CallInv, Thread!ReplayState
  <2>3. Active(j) => t = j \/ (~call[j].auxiliary /\ replay[t] # None /\ replay[t].thread = t
                                /\ replay[t].session = call[j].session)
    BY <1>1, <2>1 DEF CallInv, Owns
  <2>4. Thread!ThreadOf(j)' = t
    BY <1>4, <2>1
  <2>5. Active(j) /\ replay[t] # None => replay'[t] = replay[t]
    BY <2>2
  <2> QED BY <2>3, <2>4, <2>5 DEF Owns
<1> QED BY <1>1, <1>2, <1>3, <1>5 DEF CallInv

\* The thread a step works on.
LEMMA ThreadTyped ==
  ASSUME ThreadInv, NEW k \in Thread!Step, Active(k)
  PROVE  Thread!ThreadOf(k) \in Thread!Step /\ (call[k].checkpoint # None => replay[call[k].checkpoint].thread \in Thread!Step)
BY StepTyped DEF ThreadInv, Thread!TypeOK, Thread!ThreadOf, CallInv, Thread!ReplayState

LEMMA SameReplay ==
  ASSUME ThreadInv, NEW k \in Thread!Step, NEW c, Goes(k, c), replay' = replay
  PROVE  /\ Roots' /\ \A j \in Thread!Step : j # k => CallInv(j)'
         /\ replay[k] # None => call[k].pc = "closing"
<1>1. Roots'
  BY DEF ThreadInv, Roots
<1>2. ASSUME NEW j \in Thread!Step, j # k PROVE CallInv(j)'
  <2>1. call'[j] = call[j] /\ child'[j] = child[j]
    BY <1>2 DEF Goes, ThreadInv, Thread!TypeOK
  <2>2. Active(j) /\ ~call[j].auxiliary => call[j].session \in inFlight'
    BY DEF Goes, ThreadInv, CallInv
  <2> QED BY <1>2, <2>1, <2>2, OthersKeep
<1>3. replay[k] # None => call[k].pc = "closing"
  BY DEF Goes, ThreadInv, CallInv, Active
<1> QED BY <1>1, <1>2, <1>3

LEMMA GoesPreserves ==
  ASSUME ThreadInv, NEW k \in Thread!Step, NEW c, Goes(k, c), replay' = replay, Thread!TypeOK',
         CallInv(k)'
  PROVE  ThreadInv'
BY GoesKeeps, SameReplay DEF ThreadInv

LEMMA SpawnStarts ==
  ASSUME ThreadInv, NEW k \in Thread!Step, Thread!Spawn(k)
  PROVE  ThreadInv'
<1>1. PICK c : c = [call[k] EXCEPT !.pc = IF call[k].checkpoint = None THEN "starting" ELSE "resuming"]
  OBVIOUS
<1>2. /\ call[k] \in Thread!CallState /\ call[k].pc = "spawning" /\ CallInv(k) /\ c \in Thread!CallState
      /\ c.session = call[k].session /\ c.auxiliary = call[k].auxiliary /\ c.messages = call[k].messages
      /\ c.thread = call[k].thread /\ c.checkpoint = call[k].checkpoint
      /\ c.pc = IF call[k].checkpoint = None THEN "starting" ELSE "resuming"
  BY <1>1, StepTyped DEF ThreadInv, Thread!Spawn, Thread!CallState, Thread!Starting
<1>3. Active(k) /\ call' = [call EXCEPT ![k] = c]
  BY <1>1, <1>2 DEF Active, Thread!Spawn, Thread!Goto, ThreadInv, Thread!TypeOK
<1>4. /\ call'[k] = c /\ child' = [child EXCEPT ![k] = "live"] /\ replay' = replay
  BY <1>2, <1>3 DEF Thread!Spawn, ThreadInv, Thread!TypeOK
<1>5. Goes(k, c)
  BY <1>2, <1>3, <1>4 DEF Goes, Thread!Spawn, Thread!observed, ThreadInv, Thread!TypeOK, Thread!Starting
<1>6. Thread!TypeOK'
  BY <1>2, <1>3, <1>4 DEF Thread!Spawn, ThreadInv, Thread!TypeOK, Thread!dsh, Thread!vendor, Thread!observed
<1>7. CallInv(k)'
  BY <1>2, <1>3, <1>4 DEF CallInv, Active, Owns, Thread!ThreadOf, Thread!Spawn
<1> QED BY <1>4, <1>5, <1>6, <1>7, GoesPreserves

\* A thread is established for k: it is the one k works on, and the next thing to ask is known.
LEMMA EstablishedNext ==
  ASSUME ThreadInv, NEW k \in Thread!Step, NEW t, Thread!Established(k, t),
         t = Thread!ThreadOf(k) \/ t = k,
         call[k].pc \in {"resuming", "rollingBack", "forking", "starting"},
         UNCHANGED <<replay, inFlight, disposed, late, activeTurns, child>>
  PROVE  /\ call' \in [Thread!Step -> Thread!CallState] /\ \E c : Goes(k, c)
         /\ CallInv(k)'
<1>1. t \in Thread!Step /\ Active(k) /\ call[k] \in Thread!CallState /\ CallInv(k)
  BY ThreadTyped, StepTyped DEF Active, ThreadInv
<1>2. PICK c : c = [call[k] EXCEPT !.pc = IF Thread!Injected(k) = <<>> THEN "turning" ELSE "injecting", !.thread = t]
  OBVIOUS
<1>3. /\ c \in Thread!CallState /\ c.pc \in {"turning", "injecting"} /\ c.thread = t /\ c.messages = call[k].messages
      /\ c.session = call[k].session /\ c.auxiliary = call[k].auxiliary /\ c.checkpoint = call[k].checkpoint
  BY <1>1, <1>2 DEF Thread!CallState, Thread!Starting
<1>4. call' = [call EXCEPT ![k] = c] /\ call'[k] = c /\ call' \in [Thread!Step -> Thread!CallState]
  BY <1>2, <1>3 DEF Thread!Established, ThreadInv, Thread!TypeOK
<1>5. Goes(k, c)
  BY <1>1, <1>3, <1>4 DEF Goes, Thread!Starting, ThreadInv, DisposeInv
<1>6. t # None /\ Owns(k) /\ (t = k \/ t = Thread!ThreadOf(k))
  BY <1>1, ThreadAssumption DEF CallInv
<1>7. CallInv(k)'
  BY <1>1, <1>3, <1>4, <1>6 DEF CallInv, Active, Owns, Thread!ThreadOf
<1> QED BY <1>4, <1>5, <1>7

\* What k does when it goes on without its thread.
LEMMA ResumeFinds ==
  ASSUME ThreadInv, NEW k \in Thread!Step, Thread!Resume(k)
  PROVE  ThreadInv'
<1>1. /\ call[k].pc = "resuming" /\ Active(k) /\ CallInv(k) /\ call[k] \in Thread!CallState
      /\ call[k].checkpoint # None /\ call[k].checkpoint \in Thread!Step
  BY StepTyped DEF ThreadInv, Thread!Resume, Active, CallInv
<1>2. /\ UNCHANGED <<replay, inFlight, disposed, late, activeTurns, child>>
      /\ UNCHANGED <<Thread!dsh, Thread!vendor, Thread!observed>>
  BY DEF Thread!Resume, Thread!observed
<1>3. PICK t : t = replay[call[k].checkpoint].thread
  OBVIOUS
<1>4. t \in Thread!Step /\ t # None
  BY <1>1, <1>3, ThreadTyped, ThreadAssumption
<1>5. PICK tip : tip = Thread!Max({0} \cup {i \in 1..Len(thread[t]) : thread[t][i].turn = call[k].checkpoint})
  OBVIOUS
<1>6. PICK after : after = Thread!TurnsAfter(thread[t], tip)
  OBVIOUS
<1>7. after \in Nat
  <2>1. thread[t] \in Seq(Thread!Entry)
    BY <1>4 DEF ThreadInv, Thread!TypeOK
  <2>2. tip \in Nat
    <3> DEFINE own == {0} \cup {i \in 1..Len(thread[t]) : thread[t][i].turn = call[k].checkpoint}
    <3>1. Len(thread[t]) \in Nat /\ own \subseteq 0..Len(thread[t]) /\ own # {}
      BY <2>1
    <3> HIDE DEF own
    <3>2. Thread!Max(own) \in 0..Len(thread[t])
      BY <3>1, MaxUpTo
    <3> QED BY <1>5, <3>1, <3>2 DEF own
  <2>3. PICK n \in Nat : n = Len(thread[t])
    BY <2>1
  <2> DEFINE turns == {j \in tip + 1 .. n : thread[t][j].turn # None}
  <2>4. IsFiniteSet(tip + 1 .. n) /\ turns \subseteq tip + 1 .. n
    <3>1. tip + 1 \in Int /\ n \in Int
      BY <2>2
    <3> QED BY <3>1, FS_Interval
  <2>5. Thread!Cardinality(turns) \in Nat
    BY <2>4, FS_Subset, FS_CardinalityType, SameCardinality
  <2> QED BY <1>6, <2>3, <2>5 DEF Thread!TurnsAfter
<1>8. \/ Thread!Established(k, t)
      \/ call' = [call EXCEPT ![k].pc = "rollingBack", ![k].thread = t, ![k].behind = after]
      \/ Thread!Goto(k, "forking")
  BY <1>3, <1>5, <1>6 DEF Thread!Resume
<1>9. CASE Thread!Established(k, t)
  <2>1. t = Thread!ThreadOf(k)
    BY <1>1, <1>3 DEF Thread!ThreadOf, CallInv
  <2>2. call' \in [Thread!Step -> Thread!CallState] /\ CallInv(k)' /\ \E c : Goes(k, c)
    BY <1>1, <1>2, <1>9, <2>1, EstablishedNext
  <2>3. Thread!TypeOK'
    BY <1>2, <2>2 DEF ThreadInv, Thread!TypeOK, Thread!dsh, Thread!vendor, Thread!observed
  <2> QED BY <1>2, <2>2, <2>3, GoesPreserves
<1>10. CASE call' = [call EXCEPT ![k].pc = "rollingBack", ![k].thread = t, ![k].behind = after]
  <2>1. PICK c : c = [call[k] EXCEPT !.pc = "rollingBack", !.thread = t, !.behind = after]
    OBVIOUS
  <2>2. /\ c \in Thread!CallState /\ c.pc = "rollingBack" /\ c.thread = t /\ c.messages = call[k].messages
        /\ c.session = call[k].session /\ c.auxiliary = call[k].auxiliary /\ c.checkpoint = call[k].checkpoint
    BY <1>1, <1>4, <1>7, <2>1 DEF Thread!CallState, Thread!Starting
  <2>3. call' = [call EXCEPT ![k] = c] /\ call'[k] = c
    BY <1>10, <2>1 DEF ThreadInv, Thread!TypeOK
  <2>4. Goes(k, c)
    BY <1>1, <1>2, <2>2, <2>3 DEF Goes, Thread!Starting, ThreadInv, DisposeInv
  <2>5. Thread!TypeOK'
    BY <1>2, <2>2, <2>3 DEF ThreadInv, Thread!TypeOK, Thread!dsh, Thread!vendor, Thread!observed
  <2>6. t = Thread!ThreadOf(k)
    BY <1>1, <1>3 DEF Thread!ThreadOf, CallInv
  <2>7. CallInv(k)'
    BY <1>1, <1>2, <1>4, <2>2, <2>3, <2>6 DEF CallInv, Active, Owns, Thread!ThreadOf
  <2> QED BY <1>2, <2>4, <2>5, <2>7, GoesPreserves
<1>11. CASE Thread!Goto(k, "forking")
  <2>1. PICK c : c = [call[k] EXCEPT !.pc = "forking"]
    OBVIOUS
  <2>2. /\ c \in Thread!CallState /\ c.pc = "forking" /\ c.thread = call[k].thread /\ c.messages = call[k].messages
        /\ c.session = call[k].session /\ c.auxiliary = call[k].auxiliary /\ c.checkpoint = call[k].checkpoint
    BY <1>1, <2>1 DEF Thread!CallState, Thread!Starting
  <2>3. call' = [call EXCEPT ![k] = c] /\ call'[k] = c
    BY <1>11, <2>1 DEF Thread!Goto, ThreadInv, Thread!TypeOK
  <2>4. Goes(k, c)
    BY <1>1, <1>2, <2>2, <2>3 DEF Goes, Thread!Starting, ThreadInv, DisposeInv
  <2>5. Thread!TypeOK'
    BY <1>2, <2>2, <2>3 DEF ThreadInv, Thread!TypeOK, Thread!dsh, Thread!vendor, Thread!observed
  <2>6. CallInv(k)'
    BY <1>1, <1>2, <2>2, <2>3 DEF CallInv, Active, Owns, Thread!ThreadOf
  <2> QED BY <1>2, <2>4, <2>5, <2>6, GoesPreserves
<1> QED BY <1>8, <1>9, <1>10, <1>11

LEMMA RollbackPreserves ==
  ASSUME ThreadInv, NEW k \in Thread!Step, Thread!Rollback(k)
  PROVE  ThreadInv'
<1>1. call[k].pc = "rollingBack" /\ Active(k) /\ CallInv(k) /\ call[k].thread \in Thread!Step /\ call[k].thread = Thread!ThreadOf(k)
  BY StepTyped DEF ThreadInv, Thread!Rollback, Active, CallInv, Thread!ThreadOf
<1>2. UNCHANGED <<replay, inFlight, disposed, late, activeTurns, child, failures, history, rewritten, rollout>>
  BY DEF Thread!Rollback, Thread!dsh, Thread!observed
<1>3. PICK held \in Thread!RolledBack(thread[call[k].thread], call[k].behind) : thread' = [thread EXCEPT ![call[k].thread] = held]
  BY DEF Thread!Rollback
<1>4. thread' \in [Thread!Step -> Seq(Thread!Entry)]
  <2>1. held \in Seq(Thread!Entry)
    BY <1>1, RolledBackTyped DEF ThreadInv, Thread!TypeOK
  <2> QED BY <1>1, <1>3, <2>1 DEF ThreadInv, Thread!TypeOK
<1>5. lost' \in [Thread!Step -> SUBSET Thread!Message]
  <2>1. PICK threads \in [Thread!Step -> Seq(Thread!Entry)] : threads = thread'
    BY <1>4
  <2>2. lost' = Thread!Forsaken(k, threads)
    BY <2>1 DEF Thread!Rollback
  <2> QED BY <2>2, ForsakenTyped DEF ThreadInv
<1>6. call' \in [Thread!Step -> Thread!CallState] /\ CallInv(k)' /\ \E c : Goes(k, c)
  BY <1>1, <1>2, EstablishedNext DEF Thread!Rollback
<1>7. Thread!TypeOK'
  BY <1>2, <1>4, <1>5, <1>6 DEF ThreadInv, Thread!TypeOK
<1> QED BY <1>2, <1>6, <1>7, GoesPreserves

LEMMA ForkThreadPreserves ==
  ASSUME ThreadInv, NEW k \in Thread!Step, Thread!ForkThread(k)
  PROVE  ThreadInv'
<1>1. call[k].pc = "forking" /\ Active(k) /\ CallInv(k) /\ call[k].checkpoint \in Thread!Step
      /\ replay[call[k].checkpoint].thread \in Thread!Step
  BY StepTyped, ThreadTyped DEF ThreadInv, Thread!ForkThread, Active, CallInv
<1>2. UNCHANGED <<replay, inFlight, disposed, late, activeTurns, child, failures, history, rewritten, rollout>>
  BY DEF Thread!ForkThread, Thread!dsh, Thread!observed
<1>3. thread' \in [Thread!Step -> Seq(Thread!Entry)] /\ lost' \in [Thread!Step -> SUBSET Thread!Message]
  BY <1>1 DEF Thread!ForkThread, ThreadInv, Thread!TypeOK
<1>4. call' \in [Thread!Step -> Thread!CallState] /\ CallInv(k)' /\ \E c : Goes(k, c)
  BY <1>1, <1>2, EstablishedNext DEF Thread!ForkThread
<1>5. Thread!TypeOK'
  BY <1>2, <1>3, <1>4 DEF ThreadInv, Thread!TypeOK
<1> QED BY <1>2, <1>4, <1>5, GoesPreserves

LEMMA StartThreadPreserves ==
  ASSUME ThreadInv, NEW k \in Thread!Step, Thread!StartThread(k)
  PROVE  ThreadInv'
<1>1. UNCHANGED <<replay, inFlight, disposed, late, activeTurns, child, Thread!dsh, Thread!vendor, Thread!observed>>
  BY DEF Thread!StartThread, Thread!observed
<1>2. call' \in [Thread!Step -> Thread!CallState] /\ CallInv(k)' /\ \E c : Goes(k, c)
  BY <1>1, EstablishedNext DEF Thread!StartThread
<1>3. Thread!TypeOK'
  BY <1>1, <1>2 DEF ThreadInv, Thread!TypeOK, Thread!dsh, Thread!vendor, Thread!observed
<1> QED BY <1>1, <1>2, <1>3, GoesPreserves

\* A step that goes on with the thread it has.
LEMMA StepOn ==
  ASSUME ThreadInv, NEW k \in Thread!Step, NEW pc, Thread!Goto(k, pc),
         call[k].pc \in {"injecting", "turning"},
         pc = "turning" \/ (pc = "streaming" /\ k \in activeTurns'),
         activeTurns' \ {k} = activeTurns \ {k}, activeTurns \subseteq activeTurns',
         UNCHANGED <<replay, inFlight, disposed, late, child>>
  PROVE  call' \in [Thread!Step -> Thread!CallState] /\ CallInv(k)' /\ \E c : Goes(k, c)
<1>1. /\ Active(k) /\ CallInv(k) /\ call[k] \in Thread!CallState /\ call[k].thread # None
  BY StepTyped DEF ThreadInv, Active, CallInv
<1>2. PICK c : c = [call[k] EXCEPT !.pc = pc]
  OBVIOUS
<1>3. /\ c \in Thread!CallState /\ c.pc = pc /\ c.thread = call[k].thread /\ c.messages = call[k].messages
      /\ c.session = call[k].session /\ c.auxiliary = call[k].auxiliary /\ c.checkpoint = call[k].checkpoint
  BY <1>1, <1>2 DEF Thread!CallState, Thread!Starting
<1>4. call' = [call EXCEPT ![k] = c] /\ call'[k] = c /\ call' \in [Thread!Step -> Thread!CallState]
  BY <1>2, <1>3 DEF Thread!Goto, ThreadInv, Thread!TypeOK
<1>5. Goes(k, c)
  BY <1>1, <1>3, <1>4 DEF Goes, Thread!Starting, ThreadInv, DisposeInv
<1>6. CallInv(k)'
  BY <1>1, <1>3, <1>4 DEF CallInv, Active, Owns, Thread!ThreadOf
<1> QED BY <1>4, <1>5, <1>6

LEMMA InjectPreserves ==
  ASSUME ThreadInv, NEW k \in Thread!Step, Thread!Inject(k)
  PROVE  ThreadInv'
<1>1. call[k].thread \in Thread!Step /\ CallInv(k)
  BY StepTyped DEF ThreadInv, Thread!Inject, CallInv
<1>2. UNCHANGED <<replay, inFlight, disposed, late, activeTurns, child, failures, history, rewritten, rollout, lost>>
  BY DEF Thread!Inject, Thread!dsh, Thread!observed
<1>3. thread' \in [Thread!Step -> Seq(Thread!Entry)]
  BY <1>1, PositionTyped, WithItemsTyped DEF Thread!Inject, ThreadInv
<1>4. call' \in [Thread!Step -> Thread!CallState] /\ CallInv(k)' /\ \E c : Goes(k, c)
  BY <1>2, StepOn DEF Thread!Inject
<1>5. Thread!TypeOK'
  BY <1>2, <1>3, <1>4 DEF ThreadInv, Thread!TypeOK
<1> QED BY <1>2, <1>4, <1>5, GoesPreserves

LEMMA StartTurnPreserves ==
  ASSUME ThreadInv, NEW k \in Thread!Step, Thread!StartTurn(k)
  PROVE  ThreadInv'
<1>1. call[k].thread \in Thread!Step /\ CallInv(k)
  BY StepTyped DEF ThreadInv, Thread!StartTurn, CallInv
<1>2. UNCHANGED <<replay, inFlight, disposed, late, child, failures, history, rewritten, rollout, lost>>
      /\ activeTurns' = activeTurns \cup {k}
  BY DEF Thread!StartTurn, Thread!dsh, Thread!observed
<1>3. thread' \in [Thread!Step -> Seq(Thread!Entry)]
  BY <1>1, PositionTyped, WithItemsTyped DEF Thread!StartTurn, ThreadInv
<1>4. call' \in [Thread!Step -> Thread!CallState] /\ CallInv(k)' /\ \E c : Goes(k, c)
  BY <1>2, StepOn DEF Thread!StartTurn
<1>5. Thread!TypeOK'
  BY <1>2, <1>3, <1>4 DEF ThreadInv, Thread!TypeOK
<1> QED BY <1>2, <1>4, <1>5, GoesPreserves

LEMMA RebuildPreserves ==
  ASSUME ThreadInv, NEW k \in Thread!Step, Thread!Rebuild(k)
  PROVE  ThreadInv'
<1>1. /\ call[k].pc \in {"resuming", "rollingBack", "forking"} /\ Active(k) /\ CallInv(k) /\ call[k] \in Thread!CallState
      /\ call[k].pc = "rollingBack" => call[k].thread \in Thread!Step
  BY StepTyped DEF ThreadInv, Thread!Rebuild, Active, CallInv
<1>2. UNCHANGED <<replay, inFlight, disposed, late, activeTurns, child, failures, history, rewritten, rollout>>
  BY DEF Thread!Rebuild, Thread!dsh, Thread!observed
<1>3. thread' \in [Thread!Step -> Seq(Thread!Entry)] /\ lost' \in [Thread!Step -> SUBSET Thread!Message]
  <2>1. CASE UNCHANGED <<thread, lost>>
    BY <2>1 DEF ThreadInv, Thread!TypeOK
  <2>2. CASE ~UNCHANGED <<thread, lost>>
    <3>1. PICK held \in Thread!RolledBack(thread[call[k].thread], call[k].behind) :
            thread' = [thread EXCEPT ![call[k].thread] = held]
      BY <2>2 DEF Thread!Rebuild
    <3>2. call[k].thread \in Thread!Step /\ lost' = Thread!Forsaken(k, thread')
      BY <1>1, <2>2 DEF Thread!Rebuild
    <3>3. held \in Seq(Thread!Entry)
      BY <3>2, RolledBackTyped DEF ThreadInv, Thread!TypeOK
    <3>4. PICK threads \in [Thread!Step -> Seq(Thread!Entry)] : threads = thread'
      BY <3>1, <3>2, <3>3 DEF ThreadInv, Thread!TypeOK
    <3> QED BY <3>2, <3>4, ForsakenTyped DEF ThreadInv
  <2> QED BY <2>1, <2>2
<1>4. PICK c : c = [call[k] EXCEPT !.pc = "starting", !.checkpoint = None, !.thread = None]
  OBVIOUS
<1>5. /\ c \in Thread!CallState /\ c.pc = "starting" /\ c.thread = None /\ c.checkpoint = None
      /\ c.session = call[k].session /\ c.auxiliary = call[k].auxiliary
  BY <1>1, <1>4 DEF Thread!CallState, Thread!Starting
<1>6. call' = [call EXCEPT ![k] = c] /\ call'[k] = c /\ call' \in [Thread!Step -> Thread!CallState]
  BY <1>4, <1>5 DEF Thread!Rebuild, ThreadInv, Thread!TypeOK
<1>7. Goes(k, c)
  BY <1>1, <1>2, <1>5, <1>6 DEF Goes, Thread!Starting, ThreadInv, DisposeInv
<1>8. CallInv(k)'
  BY <1>1, <1>2, <1>5, <1>6 DEF CallInv, Active, Owns, Thread!ThreadOf
<1>9. Thread!TypeOK'
  BY <1>2, <1>3, <1>6 DEF ThreadInv, Thread!TypeOK
<1> QED BY <1>2, <1>7, <1>8, <1>9, GoesPreserves

\* A step that is over: its process is closed and its thread is known until it is gone.
LEMMA LeaveCloses ==
  ASSUME ThreadInv, NEW k \in Thread!Step, Thread!Leave(k),
         call[k].pc \in Thread!Starting \cup {"streaming"},
         UNCHANGED <<inFlight, disposed, late>>, child'[k] # "live", child'[k] # "none" => child[k] # "none",
         \A j \in Thread!Step : j # k => child'[j] = child[j], activeTurns' \ {k} = activeTurns \ {k}
  PROVE  /\ call' \in [Thread!Step -> Thread!CallState] /\ \E c : Goes(k, c)
         /\ call'[k].pc = "closing" /\ call'[k].session = call[k].session /\ call'[k].auxiliary = call[k].auxiliary
         /\ call'[k].checkpoint = None /\ call'[k].thread = Thread!ThreadOf(k)
         /\ replay' = replay => CallInv(k)'
<1>1. /\ Active(k) /\ CallInv(k) /\ call[k] \in Thread!CallState /\ Thread!ThreadOf(k) \in Thread!Step /\ replay[k] = None
      /\ Thread!ThreadOf(k) # None
  BY StepTyped, ThreadTyped, ThreadAssumption DEF ThreadInv, Active, CallInv, Thread!Starting
<1>2. PICK c : c = [call[k] EXCEPT !.pc = "closing", !.messages = <<>>, !.checkpoint = None, !.thread = Thread!ThreadOf(k), !.behind = 0]
  OBVIOUS
<1>3. /\ c \in Thread!CallState /\ c.pc = "closing" /\ c.thread = Thread!ThreadOf(k) /\ c.checkpoint = None
      /\ c.session = call[k].session /\ c.auxiliary = call[k].auxiliary
  <2>1. <<>> \in Seq(Thread!Message)
    OBVIOUS
  <2> QED BY <1>1, <1>2, <2>1 DEF Thread!CallState
<1>4. call' = [call EXCEPT ![k] = c] /\ call'[k] = c /\ call' \in [Thread!Step -> Thread!CallState]
  BY <1>2, <1>3 DEF Thread!Leave, ThreadInv, Thread!TypeOK
<1>5. Goes(k, c)
  BY <1>1, <1>3, <1>4 DEF Goes, Thread!Starting
<1>6. ASSUME replay' = replay PROVE CallInv(k)'
  <2>1. PICK t \in Thread!Step : t = Thread!ThreadOf(k)
    BY <1>1
  <2>2. Thread!ThreadOf(k)' = t
    BY <1>1, <1>3, <1>4, <2>1 DEF Thread!ThreadOf
  <2>3. Owns(k)'
    BY <1>1, <1>3, <1>4, <1>6, <2>1, <2>2 DEF Owns, CallInv
  <2> QED BY <1>1, <1>3, <1>4, <1>6, <2>1, <2>3 DEF CallInv, Active
<1> QED BY <1>3, <1>4, <1>5, <1>6

LEMMA FailPreserves ==
  ASSUME ThreadInv, NEW k \in Thread!Step, Thread!Fail(k)
  PROVE  ThreadInv'
<1>1. call[k].pc \in Thread!Starting /\ CallInv(k)
  BY DEF Thread!Fail, ThreadInv
<1>2. UNCHANGED <<replay, inFlight, disposed, late, activeTurns, history, rewritten, rollout>> /\ failures' = failures + 1
  BY DEF Thread!Fail, Thread!dsh
<1>3. PICK threads \in Thread!Effects(k) : thread' = Thread!Abandoned(k, threads) /\ lost' = Thread!Forsaken(k, threads)
  BY DEF Thread!Fail
<1>4. thread' \in [Thread!Step -> Seq(Thread!Entry)] /\ lost' \in [Thread!Step -> SUBSET Thread!Message]
  BY <1>1, <1>3, EffectsTyped, ForsakenTyped DEF ThreadInv
<1>5. /\ child' \in [Thread!Step -> {"none", "live", "closing"}] /\ child'[k] # "live" /\ (child'[k] # "none" => child[k] # "none")
      /\ \A j \in Thread!Step : j # k => child'[j] = child[j]
  BY DEF Thread!Fail, ThreadInv, Thread!TypeOK
<1>6. call' \in [Thread!Step -> Thread!CallState] /\ CallInv(k)' /\ \E c : Goes(k, c)
  BY <1>1, <1>2, <1>5, LeaveCloses DEF Thread!Fail
<1>7. Thread!TypeOK'
  BY <1>2, <1>4, <1>5, <1>6 DEF ThreadInv, Thread!TypeOK
<1> QED BY <1>2, <1>6, <1>7, GoesPreserves

\* Closing the turn of a step closes its process and no other.
LEMMA CloseTurnOf ==
  ASSUME ThreadInv, NEW k \in Thread!Step, Thread!CloseTurns({k})
  PROVE  /\ child' \in [Thread!Step -> {"none", "live", "closing"}] /\ activeTurns' \subseteq Thread!Step
         /\ child'[k] # "live" /\ (child'[k] # "none" => child[k] # "none")
         /\ \A j \in Thread!Step : j # k => child'[j] = child[j]
         /\ activeTurns' \ {k} = activeTurns \ {k}
BY DEF Thread!CloseTurns, Thread!Terminated, ThreadInv, Thread!TypeOK

LEMMA TurnFailsPreserves ==
  ASSUME ThreadInv, NEW k \in Thread!Step, Thread!TurnFails(k)
  PROVE  ThreadInv'
<1>1. /\ call[k].pc = "streaming" /\ CallInv(k) /\ call[k].thread \in Thread!Step /\ call[k].thread # None
      /\ call[k].session \in Session
  BY StepTyped DEF Thread!TurnFails, ThreadInv, CallInv, Active
<1>2. UNCHANGED <<replay, inFlight, disposed, late, rewritten, rollout>> /\ failures' = failures + 1
  BY DEF Thread!TurnFails
<1>3. history' \in [Session -> Seq(Thread!Message)]
  <2>1. Thread!New("partial", k) \in Thread!Message
    BY NewTyped DEF Thread!Kind
  <2>2. Append(history[call[k].session], Thread!New("partial", k)) \in Seq(Thread!Message)
    BY <1>1, <2>1 DEF ThreadInv, Thread!TypeOK
  <2> QED BY <1>1, <2>2 DEF Thread!TurnFails, ThreadInv, Thread!TypeOK
<1>4. PICK held \in {thread[call[k].thread], Thread!Replied(k, "text")} :
        /\ thread' = Thread!Abandoned(k, [thread EXCEPT ![call[k].thread] = held])
        /\ lost' = Thread!Forsaken(k, [thread EXCEPT ![call[k].thread] = held])
  BY DEF Thread!TurnFails
<1>5. PICK threads \in [Thread!Step -> Seq(Thread!Entry)] : threads = [thread EXCEPT ![call[k].thread] = held]
  <2>1. held \in Seq(Thread!Entry)
    BY <1>1, RepliedTyped DEF ThreadInv, Thread!TypeOK, Thread!Kind
  <2> QED BY <1>1, <2>1 DEF ThreadInv, Thread!TypeOK
<1>6. thread' \in [Thread!Step -> Seq(Thread!Entry)] /\ lost' \in [Thread!Step -> SUBSET Thread!Message]
  BY <1>4, <1>5, ForsakenTyped DEF ThreadInv
<1>7. call' \in [Thread!Step -> Thread!CallState] /\ CallInv(k)' /\ \E c : Goes(k, c)
  BY <1>1, <1>2, CloseTurnOf, LeaveCloses DEF Thread!TurnFails
<1>8. child' \in [Thread!Step -> {"none", "live", "closing"}] /\ activeTurns' \subseteq Thread!Step
  BY CloseTurnOf DEF Thread!TurnFails
<1>9. Thread!TypeOK'
  BY <1>2, <1>3, <1>6, <1>7, <1>8 DEF ThreadInv, Thread!TypeOK
<1> QED BY <1>2, <1>7, <1>9, GoesPreserves

\* A turn that is over leaves its thread to the session: the replay state names the thread's root.
LEMMA FinishPreserves ==
  ASSUME ThreadInv, NEW k \in Thread!Step, Thread!Finish(k)
  PROVE  ThreadInv'
<1>1. /\ call[k].pc = "streaming" /\ CallInv(k) /\ call[k].thread \in Thread!Step /\ call[k].thread # None
      /\ call[k].session \in Session /\ call[k].messages \in Seq(Thread!Message) /\ call[k].auxiliary \in BOOLEAN
      /\ Thread!ThreadOf(k) = call[k].thread /\ replay[k] = None /\ Owns(k)
  BY StepTyped DEF Thread!Finish, ThreadInv, CallInv, Active, Thread!ThreadOf
<1>2. UNCHANGED <<inFlight, disposed, late, rewritten, lost, failures>> /\ Thread!Leave(k) /\ Thread!CloseTurns({k})
  BY DEF Thread!Finish, Thread!observed
<1>3. /\ call' \in [Thread!Step -> Thread!CallState] /\ \E c : Goes(k, c)
      /\ call'[k].pc = "closing" /\ call'[k].session = call[k].session /\ call'[k].auxiliary = call[k].auxiliary
      /\ call'[k].checkpoint = None /\ call'[k].thread = call[k].thread
      /\ replay' = replay => CallInv(k)'
  BY <1>1, <1>2, CloseTurnOf, LeaveCloses
<1>4. child' \in [Thread!Step -> {"none", "live", "closing"}] /\ activeTurns' \subseteq Thread!Step
  BY <1>2, CloseTurnOf
<1>5. PICK kind \in {"call", "text"} :
        IF call[k].auxiliary
        THEN thread' = Thread!Abandoned(k, thread) /\ UNCHANGED <<history, replay, rollout>>
        ELSE /\ thread' = [thread EXCEPT ![call[k].thread] = Thread!Replied(k, kind)]
             /\ rollout' = [rollout EXCEPT ![k] = Thread!Replied(k, kind)]
             /\ history' = [history EXCEPT ![call[k].session] = Append(@, Thread!New(kind, k))]
             /\ replay' = [replay EXCEPT ![k] = [thread |-> call[k].thread, session |-> call[k].session,
                                                 prefix |-> call[k].messages]]
  BY DEF Thread!Finish
<1>6. kind \in Thread!Kind
  BY DEF Thread!Kind
<1>7. CASE call[k].auxiliary
  <2>1. thread' = Thread!Abandoned(k, thread) /\ UNCHANGED <<history, replay, rollout>>
    BY <1>5, <1>7
  <2>2. PICK threads \in [Thread!Step -> Seq(Thread!Entry)] : threads = thread
    BY DEF ThreadInv, Thread!TypeOK
  <2>3. thread' \in [Thread!Step -> Seq(Thread!Entry)]
    BY <2>1, <2>2, ForsakenTyped DEF ThreadInv
  <2>4. Thread!TypeOK'
    BY <1>2, <1>3, <1>4, <2>1, <2>3 DEF ThreadInv, Thread!TypeOK
  <2> QED BY <1>3, <2>1, <2>4, GoesPreserves
<1>8. CASE ~call[k].auxiliary
  <2>1. PICK r \in Thread!ReplayState : r = [thread |-> call[k].thread, session |-> call[k].session, prefix |-> call[k].messages]
    BY <1>1 DEF Thread!ReplayState
  <2>2. /\ r.thread = call[k].thread /\ r.session = call[k].session /\ r # None
        /\ replay' = [replay EXCEPT ![k] = r] /\ replay'[k] = r
        /\ \A j \in Thread!Step : j # k => replay'[j] = replay[j]
    BY <1>5, <1>8, <2>1, ThreadAssumption DEF ThreadInv, Thread!TypeOK
  <2>3. Thread!Replied(k, kind) \in Seq(Thread!Entry) /\ Thread!New(kind, k) \in Thread!Message
    BY <1>1, <1>6, RepliedTyped, NewTyped DEF ThreadInv
  <2>4. Append(history[call[k].session], Thread!New(kind, k)) \in Seq(Thread!Message)
    BY <1>1, <2>3 DEF ThreadInv, Thread!TypeOK
  <2>5. Thread!TypeOK'
    <3>1. history' \in [Session -> Seq(Thread!Message)]
      BY <1>1, <1>5, <1>8, <2>4 DEF ThreadInv, Thread!TypeOK
    <3>2. thread' \in [Thread!Step -> Seq(Thread!Entry)] /\ rollout' \in [Thread!Step -> Seq(Thread!Entry)]
      BY <1>1, <1>5, <1>8, <2>3 DEF ThreadInv, Thread!TypeOK
    <3>3. replay' \in [Thread!Step -> Thread!ReplayState \cup {None}]
      BY <2>1, <2>2 DEF ThreadInv, Thread!TypeOK
    <3> QED BY <1>2, <1>3, <1>4, <3>1, <3>2, <3>3 DEF ThreadInv, Thread!TypeOK
  <2>6. Roots'
    <3>1. PICK t \in Thread!Step : t = call[k].thread
      BY <1>1
    <3>2. replay'[t] # None /\ replay'[t].thread = t /\ replay'[t].session = call[k].session
      BY <1>1, <1>8, <2>2, <3>1 DEF Owns
    <3>3. ASSUME NEW j \in Thread!Step, replay'[j] # None
          PROVE  /\ replay'[replay'[j].thread] # None /\ replay'[replay'[j].thread].thread = replay'[j].thread
                 /\ replay'[replay'[j].thread].session = replay'[j].session
      <4>1. CASE j = k
        BY <2>2, <3>1, <3>2, <4>1
      <4>2. CASE j # k
        <5>1. replay'[j] = replay[j] /\ replay[j] # None /\ replay[j] \in Thread!ReplayState
          BY <2>2, <3>3, <4>2 DEF ThreadInv, Thread!TypeOK
        <5>2. PICK u \in Thread!Step : u = replay[j].thread
          BY <5>1 DEF Thread!ReplayState
        <5>3. replay[u] # None /\ replay[u].thread = u /\ replay[u].session = replay[j].session
          BY <5>1, <5>2 DEF ThreadInv, Roots
        <5>4. replay'[u] = replay[u]
          BY <1>1, <2>2, <5>3
        <5> QED BY <5>1, <5>2, <5>3, <5>4
      <4> QED BY <4>1, <4>2
    <3> QED BY <3>3 DEF Roots
  <2>7. ASSUME NEW j \in Thread!Step, j # k PROVE CallInv(j)'
    <3>1. call'[j] = call[j] /\ child'[j] = child[j]
      BY <1>3, <2>7 DEF Goes, ThreadInv, Thread!TypeOK
    <3>2. Active(j) /\ ~call[j].auxiliary => call[j].session \in inFlight'
      BY <1>2 DEF ThreadInv, CallInv
    <3>3. \A i \in Thread!Step : replay[i] # None => replay'[i] = replay[i]
      BY <1>1, <2>2
    <3> QED BY <2>2, <2>7, <3>1, <3>2, <3>3, OthersKeep
  <2>8. CallInv(k)'
    <3>1. Thread!ThreadOf(k)' = call[k].thread
      BY <1>1, <1>3 DEF Thread!ThreadOf
    <3>2. PICK t \in Thread!Step : t = call[k].thread
      BY <1>1
    <3>3. t = k \/ (t # k /\ replay[t] # None /\ replay[t].thread = t /\ replay[t].session = call[k].session)
      BY <1>1, <1>8, <3>2 DEF Owns
    <3>4. Owns(k)'
      BY <1>3, <1>8, <2>2, <3>1, <3>2, <3>3 DEF Owns
    <3> QED BY <1>1, <1>2, <1>3, <1>8, <2>2, <3>2, <3>4 DEF CallInv, Active
  <2>9. OneStep' /\ DisposeInv' /\ Thread!DisposeClosesAll'
    BY <1>3, GoesKeeps
  <2> QED BY <2>5, <2>6, <2>7, <2>8, <2>9 DEF ThreadInv
<1> QED BY <1>1, <1>7, <1>8

\* A stream call that begins: it owns the thread it will begin, or that of its checkpoint.
LEMMA BeginsPreserves ==
  ASSUME ThreadInv, NEW k \in Thread!Step, Thread!NextStep(k), NEW c \in Thread!CallState,
         call' = [call EXCEPT ![k] = c],
         c.pc = "spawning", c.session \in Session, c.thread = None,
         c.checkpoint # None => /\ ~c.auxiliary /\ replay[c.checkpoint] # None
                                /\ replay[c.checkpoint].session = c.session
                                /\ \E i \in DOMAIN c.messages : Thread!IsReply(c.messages[i]) /\ c.messages[i].by = c.checkpoint,
         IF c.auxiliary THEN inFlight' = inFlight
         ELSE c.session \notin inFlight /\ inFlight' = inFlight \cup {c.session},
         UNCHANGED <<replay, activeTurns, child, disposed, late>>, Thread!TypeOK'
  PROVE  ThreadInv'
<1>1. /\ call[k].pc = "idle" /\ ~disposed /\ CallInv(k) /\ child[k] = "none" /\ replay[k] = None
      /\ call'[k] = c /\ \A j \in Thread!Step : j # k => call'[j] = call[j]
  BY DEF Thread!NextStep, ThreadInv, Thread!TypeOK, CallInv
<1>2. inFlight \subseteq inFlight'
  OBVIOUS
<1>3. ASSUME NEW j \in Thread!Step, j # k PROVE CallInv(j)'
  <2>1. Active(j) /\ ~call[j].auxiliary => call[j].session \in inFlight'
    BY <1>2 DEF ThreadInv, CallInv
  <2> QED BY <1>1, <1>3, <2>1, OthersKeep
<1>4. CallInv(k)'
  <2>1. Owns(k)'
    <3>1. CASE c.checkpoint = None
      BY <1>1, <3>1 DEF Owns, Thread!ThreadOf
    <3>2. CASE c.checkpoint # None
      <4>1. PICK r \in Thread!ReplayState : r = replay[c.checkpoint]
        BY <3>2 DEF Thread!CallState, ThreadInv, Thread!TypeOK
      <4>2. Thread!ThreadOf(k)' = r.thread /\ r.session = c.session /\ r.thread \in Thread!Step
        BY <1>1, <3>2, <4>1 DEF Thread!ThreadOf, Thread!ReplayState
      <4>3. replay[r.thread] # None /\ replay[r.thread].thread = r.thread /\ replay[r.thread].session = r.session
        BY <3>2, <4>1 DEF ThreadInv, Roots, Thread!CallState
      <4> QED BY <1>1, <3>2, <4>2, <4>3 DEF Owns
    <3> QED BY <3>1, <3>2
  <2> QED BY <1>1, <2>1 DEF CallInv, Active, Thread!CallState
<1>5. OneStep'
  <2>1. ASSUME NEW i \in Thread!Step, NEW j \in Thread!Step, i # j, Active(i)', Active(j)',
               ~call'[i].auxiliary, ~call'[j].auxiliary
        PROVE  call'[i].session # call'[j].session
    <3>1. \A h \in Thread!Step : h # k /\ Active(h)' /\ ~call'[h].auxiliary =>
             Active(h) /\ ~call[h].auxiliary /\ call'[h].session = call[h].session /\ call[h].session \in inFlight
      BY <1>1 DEF Active, ThreadInv, CallInv
    <3>2. CASE i # k /\ j # k
      BY <2>1, <3>1, <3>2 DEF ThreadInv, OneStep
    <3>3. CASE i = k \/ j = k
      BY <1>1, <2>1, <3>1, <3>3
    <3> QED BY <3>2, <3>3
  <2> QED BY <2>1 DEF OneStep
<1>6. DisposeInv' /\ Thread!DisposeClosesAll'
  BY <1>1 DEF ThreadInv, DisposeInv, Thread!DisposeClosesAll, Thread!Starting
<1>7. Roots'
  BY DEF ThreadInv, Roots
<1> QED BY <1>3, <1>4, <1>5, <1>6, <1>7 DEF ThreadInv

\* A stream call for s, asked with these messages.
StreamOf(k, s, messages) ==
  LET position == Thread!Checkpoint(messages, s)
  IN  /\ s \notin inFlight
      /\ call' = [call EXCEPT ![k] =
           [Thread!Idle EXCEPT !.pc = "spawning", !.session = s, !.messages = messages,
                        !.checkpoint = IF position = 0 THEN None ELSE messages[position].by]]
      /\ history' = [history EXCEPT ![s] = messages]
      /\ rewritten' = IF \E n \in 0..Len(messages) : history[s] = SubSeq(messages, 1, n) THEN rewritten
                      ELSE [rewritten EXCEPT ![s] = history[s]]
      /\ inFlight' = inFlight \cup {s}

LEMMA StreamPreserves ==
  ASSUME ThreadInv, NEW k \in Thread!Step, Thread!Stream(k)
  PROVE  ThreadInv'
<1>1. UNCHANGED <<replay, activeTurns, child, disposed, late, thread, rollout, lost, failures>> /\ Thread!NextStep(k)
  BY DEF Thread!Stream, Thread!vendor, Thread!observed
<1>2. PICK s \in Session : \E messages \in Thread!Requests(s, k) : StreamOf(k, s, messages)
  BY DEF Thread!Stream, Thread!MayRun, StreamOf
<1>3. PICK messages \in Thread!Requests(s, k) : StreamOf(k, s, messages)
  BY <1>2
<1>4. PICK position : position = Thread!Checkpoint(messages, s)
  OBVIOUS
<1>5. messages \in Seq(Thread!Message)
  BY RequestsTyped DEF ThreadInv
<1>6. /\ position \in 0..Len(messages)
      /\ position # 0 => /\ Thread!ValidCheckpoint(messages, position) /\ messages[position] \in Thread!Message
                         /\ replay[messages[position].by] # None /\ replay[messages[position].by].session = s
  BY <1>4, <1>5, CheckpointFound DEF ThreadInv
<1>7. PICK checkpoint : checkpoint = IF position = 0 THEN None ELSE messages[position].by
  OBVIOUS
<1>8. /\ checkpoint \in Thread!Step \cup {None}
      /\ checkpoint # None => /\ replay[checkpoint] # None /\ replay[checkpoint].session = s
                              /\ \E i \in DOMAIN messages : Thread!IsReply(messages[i]) /\ messages[i].by = checkpoint
  <2>1. CASE position = 0
    BY <1>7, <2>1
  <2>2. CASE position # 0
    <3>1. position \in DOMAIN messages /\ Thread!IsReply(messages[position]) /\ messages[position].by \in Thread!Step
      BY <1>5, <1>6, <2>2, MessageTyped DEF Thread!ValidCheckpoint
    <3> QED BY <1>6, <1>7, <2>2, <3>1
  <2> QED BY <2>1, <2>2
<1>9. PICK c : c = [Thread!Idle EXCEPT !.pc = "spawning", !.session = s, !.messages = messages, !.checkpoint = checkpoint]
  OBVIOUS
<1>10. /\ c \in Thread!CallState /\ c.pc = "spawning" /\ c.session = s /\ c.thread = None /\ ~c.auxiliary
      /\ c.checkpoint = checkpoint /\ c.messages = messages
  BY <1>5, <1>8, <1>9 DEF Thread!Idle, Thread!CallState, Thread!Starting
<1>11. call' = [call EXCEPT ![k] = c]
  BY <1>3, <1>4, <1>7, <1>9 DEF StreamOf
<1>12. Thread!TypeOK'
  <2>1. call' \in [Thread!Step -> Thread!CallState]
    BY <1>10, <1>11 DEF ThreadInv, Thread!TypeOK
  <2>2. history' \in [Session -> Seq(Thread!Message)] /\ rewritten' \in [Session -> Seq(Thread!Message)]
    BY <1>3, <1>5 DEF StreamOf, ThreadInv, Thread!TypeOK
  <2>3. inFlight' \subseteq Session
    BY <1>3 DEF StreamOf, ThreadInv, Thread!TypeOK
  <2> QED BY <1>1, <2>1, <2>2, <2>3 DEF ThreadInv, Thread!TypeOK
<1>13. /\ IF c.auxiliary THEN inFlight' = inFlight
          ELSE c.session \notin inFlight /\ inFlight' = inFlight \cup {c.session}
       /\ c.checkpoint # None => /\ ~c.auxiliary /\ replay[c.checkpoint] # None
                                 /\ replay[c.checkpoint].session = c.session
                                 /\ \E i \in DOMAIN c.messages : Thread!IsReply(c.messages[i]) /\ c.messages[i].by = c.checkpoint
  BY <1>3, <1>8, <1>10 DEF StreamOf
<1> QED BY <1>1, <1>10, <1>11, <1>12, <1>13, BeginsPreserves

LEMMA StreamAuxiliaryPreserves ==
  ASSUME ThreadInv, NEW k \in Thread!Step, Thread!StreamAuxiliary(k)
  PROVE  ThreadInv'
<1>1. /\ UNCHANGED <<replay, activeTurns, child, disposed, late, inFlight, thread, rollout, lost, failures, history, rewritten>>
      /\ Thread!NextStep(k)
  BY DEF Thread!StreamAuxiliary, Thread!vendor, Thread!observed, Thread!dsh
<1>2. PICK s \in Session : call' = [call EXCEPT ![k] = [Thread!Idle EXCEPT !.pc = "spawning", !.session = s, !.auxiliary = TRUE,
                                                                    !.messages = <<Thread!New("user", k)>>]]
  BY DEF Thread!StreamAuxiliary
<1>3. <<Thread!New("user", k)>> \in Seq(Thread!Message)
  <2>1. Thread!New("user", k) \in Thread!Message
    BY NewTyped DEF Thread!Kind
  <2> QED BY <2>1
<1>4. PICK c : c = [Thread!Idle EXCEPT !.pc = "spawning", !.session = s, !.auxiliary = TRUE, !.messages = <<Thread!New("user", k)>>]
  OBVIOUS
<1>5. c \in Thread!CallState /\ c.pc = "spawning" /\ c.session = s /\ c.thread = None /\ c.auxiliary /\ c.checkpoint = None
  BY <1>3, <1>4 DEF Thread!Idle, Thread!CallState, Thread!Starting
<1>6. call' = [call EXCEPT ![k] = c]
  BY <1>2, <1>4
<1>7. Thread!TypeOK'
  BY <1>1, <1>5, <1>6 DEF ThreadInv, Thread!TypeOK
<1> QED BY <1>1, <1>5, <1>6, <1>7, BeginsPreserves

\* A stream call that is refused, or that returned: it owns nothing.
LEMMA OverTyped ==
  ASSUME ThreadInv, NEW k \in Thread!Step
  PROVE  /\ Thread!Over(k) \in Thread!CallState /\ Thread!Over(k).pc = "done" /\ Thread!Over(k).auxiliary = call[k].auxiliary
         /\ Thread!Over(k).checkpoint = None /\ Thread!Over(k).thread = None
<1>1. <<>> \in Seq(Thread!Message) /\ call[k].auxiliary \in BOOLEAN
  BY StepTyped DEF ThreadInv
<1> QED BY <1>1 DEF Thread!Over, Thread!Idle, Thread!CallState

LEMMA StreamRefusedPreserves ==
  ASSUME ThreadInv, NEW k \in Thread!Step, Thread!StreamRefused(k)
  PROVE  ThreadInv'
<1>1. UNCHANGED <<replay, activeTurns, child, disposed, late, inFlight, thread, rollout, lost, failures, history, rewritten>>
  BY DEF Thread!StreamRefused, Thread!vendor, Thread!observed, Thread!dsh
<1>2. PICK c \in Thread!CallState : c = Thread!Over(k)
  BY OverTyped
<1>3. /\ call[k].pc = "idle" /\ call' = [call EXCEPT ![k] = c] /\ call'[k] = c
      /\ \A j \in Thread!Step : j # k => call'[j] = call[j]
  BY <1>2 DEF Thread!StreamRefused, Thread!NextStep, ThreadInv, Thread!TypeOK
<1>4. c.pc = "done" /\ c.checkpoint = None /\ c.thread = None
  BY <1>2, OverTyped
<1>5. Thread!TypeOK'
  BY <1>1, <1>3 DEF ThreadInv, Thread!TypeOK
<1>6. ASSUME NEW j \in Thread!Step, j # k PROVE CallInv(j)'
  <2>1. Active(j) /\ ~call[j].auxiliary => call[j].session \in inFlight'
    BY <1>1 DEF ThreadInv, CallInv
  <2> QED BY <1>1, <1>3, <1>6, <2>1, OthersKeep
<1>7. CallInv(k)'
  BY <1>1, <1>3, <1>4 DEF ThreadInv, CallInv, Active, Thread!Starting
<1>8. OneStep' /\ DisposeInv' /\ Thread!DisposeClosesAll' /\ Roots'
  BY <1>1, <1>3, <1>4 DEF ThreadInv, OneStep, DisposeInv, Thread!DisposeClosesAll, Roots, Active, Thread!Starting
<1> QED BY <1>5, <1>6, <1>7, <1>8 DEF ThreadInv

LEMMA ReturnPreserves ==
  ASSUME ThreadInv, NEW k \in Thread!Step, Thread!Return(k)
  PROVE  ThreadInv'
<1>1. UNCHANGED <<replay, activeTurns, child, disposed, thread, rollout, lost, failures, history, rewritten>>
  BY DEF Thread!Return, Thread!vendor, Thread!dsh
<1>2. PICK c \in Thread!CallState : c = Thread!Over(k)
  BY OverTyped
<1>3. /\ call[k].pc = "closing" /\ child[k] = "none" /\ call' = [call EXCEPT ![k] = c] /\ call'[k] = c
      /\ \A j \in Thread!Step : j # k => call'[j] = call[j]
      /\ late' = late \ {k} /\ inFlight' = IF call[k].auxiliary THEN inFlight ELSE inFlight \ {call[k].session}
  BY <1>2 DEF Thread!Return, ThreadInv, Thread!TypeOK
<1>4. c.pc = "done" /\ c.checkpoint = None /\ c.thread = None /\ c.auxiliary = call[k].auxiliary
  BY <1>2, OverTyped
<1>5. Thread!TypeOK'
  BY <1>1, <1>3 DEF ThreadInv, Thread!TypeOK
<1>6. ASSUME NEW j \in Thread!Step, j # k PROVE CallInv(j)'
  <2>1. Active(j) /\ ~call[j].auxiliary => call[j].session \in inFlight'
    BY <1>3, <1>6 DEF ThreadInv, CallInv, OneStep, Active
  <2> QED BY <1>1, <1>3, <1>6, <2>1, OthersKeep
<1>7. CallInv(k)'
  BY <1>1, <1>3, <1>4 DEF ThreadInv, CallInv, Active, Thread!Starting
<1>8. OneStep' /\ DisposeInv' /\ Thread!DisposeClosesAll' /\ Roots'
  BY <1>1, <1>3, <1>4 DEF ThreadInv, OneStep, DisposeInv, Thread!DisposeClosesAll, Roots, Active, Thread!Starting
<1> QED BY <1>5, <1>6, <1>7, <1>8 DEF ThreadInv

\* What closes turns or processes and touches no call: no process comes to life.
LEMMA ClosesPreserve ==
  ASSUME ThreadInv, Thread!TypeOK', UNCHANGED <<call, replay, inFlight>>,
         \A j \in Thread!Step : child'[j] = child[j] \/ child'[j] # "live",
         \A j \in Thread!Step : child'[j] # "none" => child[j] # "none",
         \A j \in Thread!Step : child'[j] = "live" /\ j \in activeTurns => j \in activeTurns',
         IF disposed' = disposed THEN late' = late
         ELSE /\ late' = {j \in Thread!Step : call[j].pc \in Thread!Starting}
              /\ \A j \in Thread!Step : child'[j] = "live" => call[j].pc \in Thread!Starting
  PROVE  ThreadInv'
<1>1. Roots' /\ OneStep'
  BY DEF ThreadInv, Roots, OneStep, Active
<1>2. ASSUME NEW j \in Thread!Step PROVE CallInv(j)'
  <2>1. Owns(j)' = Owns(j)
    BY DEF Owns, Thread!ThreadOf
  <2> QED BY <2>1 DEF ThreadInv, CallInv, Active
<1>3. DisposeInv'
  BY DEF ThreadInv, DisposeInv
<1>4. Thread!DisposeClosesAll'
  BY DEF ThreadInv, Thread!DisposeClosesAll, Thread!TypeOK
<1> QED BY <1>1, <1>2, <1>3, <1>4 DEF ThreadInv

LEMMA ForkPreserves ==
  ASSUME ThreadInv, NEW s \in Session, Thread!Fork(s)
  PROVE  ThreadInv'
<1>1. UNCHANGED <<rewritten, replay, call, inFlight, activeTurns, child, disposed, thread, rollout, lost, late, failures>>
  BY DEF Thread!Fork, Thread!vendor, Thread!observed
<1>2. history' \in [Session -> Seq(Thread!Message)]
  BY DEF Thread!Fork, ThreadInv, Thread!TypeOK
<1>3. Thread!TypeOK'
  BY <1>1, <1>2 DEF ThreadInv, Thread!TypeOK
<1> QED BY <1>1, <1>3, ClosesPreserve

\* Closing turns.
LEMMA CloseTurnsCloses ==
  ASSUME ThreadInv, NEW ks, ks \subseteq activeTurns, Thread!CloseTurns(ks)
  PROVE  /\ child' \in [Thread!Step -> {"none", "live", "closing"}] /\ activeTurns' \subseteq Thread!Step
         /\ \A j \in Thread!Step : child'[j] = child[j] \/ child'[j] # "live"
         /\ \A j \in Thread!Step : child'[j] # "none" => child[j] # "none"
         /\ \A j \in Thread!Step : child'[j] = "live" => child[j] = "live" /\ j \notin ks
         /\ activeTurns' = activeTurns \ ks
BY DEF Thread!CloseTurns, Thread!Terminated, ThreadInv, Thread!TypeOK

LEMMA AbortPreserves ==
  ASSUME ThreadInv, NEW k \in Thread!Step, Thread!Abort(k)
  PROVE  ThreadInv'
<1>1. UNCHANGED <<history, rewritten, replay, call, inFlight, disposed, thread, rollout, lost, late, failures>>
  BY DEF Thread!Abort, Thread!dsh, Thread!vendor, Thread!observed
<1>2. {k} \subseteq activeTurns /\ Thread!CloseTurns({k})
  BY DEF Thread!Abort
<1>3. Thread!TypeOK'
  BY <1>1, <1>2, CloseTurnsCloses DEF ThreadInv, Thread!TypeOK
<1> QED BY <1>1, <1>2, <1>3, CloseTurnsCloses, ClosesPreserve

LEMMA CloseSessionPreserves ==
  ASSUME ThreadInv, NEW s \in Session, Thread!CloseSession(s)
  PROVE  ThreadInv'
<1>1. UNCHANGED <<history, rewritten, replay, call, inFlight, disposed, thread, rollout, lost, late, failures>>
  BY DEF Thread!CloseSession, Thread!dsh, Thread!vendor, Thread!observed
<1>2. PICK ks : ks = {k \in activeTurns : call[k].session = s /\ ~call[k].auxiliary}
  OBVIOUS
<1>3. ks \subseteq activeTurns /\ Thread!CloseTurns(ks)
  BY <1>2 DEF Thread!CloseSession
<1>4. Thread!TypeOK'
  BY <1>1, <1>3, CloseTurnsCloses DEF ThreadInv, Thread!TypeOK
<1> QED BY <1>1, <1>3, <1>4, CloseTurnsCloses, ClosesPreserve

LEMMA DisposePreserves ==
  ASSUME ThreadInv, Thread!Dispose
  PROVE  ThreadInv'
<1>1. /\ UNCHANGED <<history, rewritten, replay, call, inFlight, thread, rollout, lost, failures>>
      /\ disposed' = TRUE /\ ~disposed /\ late' = {j \in Thread!Step : call[j].pc \in Thread!Starting}
  BY DEF Thread!Dispose, Thread!dsh, Thread!vendor
<1>2. PICK ks : ks = activeTurns
  OBVIOUS
<1>3. ks \subseteq activeTurns /\ Thread!CloseTurns(ks)
  BY <1>2 DEF Thread!Dispose
<1>4. Thread!TypeOK'
  BY <1>1, <1>3, CloseTurnsCloses DEF ThreadInv, Thread!TypeOK
<1>5. \A j \in Thread!Step : child'[j] = "live" => call[j].pc \in Thread!Starting /\ j \notin activeTurns
  BY <1>2, <1>3, CloseTurnsCloses DEF ThreadInv, DisposeInv
<1> QED BY <1>1, <1>3, <1>4, <1>5, CloseTurnsCloses, ClosesPreserve

LEMMA ProcessEndsPreserves ==
  ASSUME ThreadInv, NEW k \in Thread!Step, Thread!Exit(k) \/ Thread!Die(k)
  PROVE  ThreadInv'
<1>1. /\ UNCHANGED <<history, rewritten, replay, call, inFlight, activeTurns, disposed, thread, rollout, lost, late, failures>>
      /\ child' = [child EXCEPT ![k] = "none"]
  BY DEF Thread!Exit, Thread!Die, Thread!dsh, Thread!vendor, Thread!observed
<1>2. Thread!TypeOK'
  BY <1>1 DEF ThreadInv, Thread!TypeOK
<1> QED BY <1>1, <1>2, ClosesPreserve DEF ThreadInv, Thread!TypeOK

LEMMA ThreadInit ==
  ASSUME Thread!Init
  PROVE  ThreadInv
<1>1. <<>> \in Seq(Thread!Message) /\ <<>> \in Seq(Thread!Entry)
  OBVIOUS
<1>2. Thread!Idle \in Thread!CallState /\ Thread!Idle.pc = "idle" /\ Thread!Idle.checkpoint = None
  BY <1>1 DEF Thread!Idle, Thread!CallState
<1>3. Thread!TypeOK
  BY <1>1, <1>2 DEF Thread!Init, Thread!TypeOK
<1>4. \A k \in Thread!Step : CallInv(k)
  BY <1>2 DEF Thread!Init, CallInv, Active
<1> QED BY <1>2, <1>3, <1>4 DEF Thread!Init, ThreadInv, Roots, OneStep, DisposeInv, Thread!DisposeClosesAll, Active, Thread!Starting

LEMMA ThreadNext ==
  ASSUME ThreadInv, [Thread!Next]_(Thread!vars)
  PROVE  ThreadInv'
<1>1. CASE UNCHANGED Thread!vars
  <2>1. Thread!TypeOK'
    BY <1>1 DEF Thread!vars, ThreadInv, Thread!TypeOK
  <2> QED BY <1>1, <2>1, ClosesPreserve DEF Thread!vars
<1>2. ASSUME NEW k \in Thread!Step, Thread!Advance(k) PROVE ThreadInv'
  BY <1>2, StreamPreserves, StreamRefusedPreserves, StreamAuxiliaryPreserves, SpawnStarts, ResumeFinds,
     RollbackPreserves, ForkThreadPreserves, RebuildPreserves, StartThreadPreserves, InjectPreserves,
     StartTurnPreserves, FailPreserves, FinishPreserves, TurnFailsPreserves, AbortPreserves,
     ProcessEndsPreserves, ReturnPreserves DEF Thread!Advance
<1> QED BY <1>1, <1>2, ForkPreserves, CloseSessionPreserves, DisposePreserves DEF Thread!Next

\* Two steps whose processes are there work on two threads: a thread is that of the step that
\* began it, or of the one session that step was of, which has one step at a time.
LEMMA OneWriterOfEach ==
  ASSUME ThreadInv
  PROVE  Thread!OneWriter
<1> SUFFICES ASSUME NEW j \in Thread!Step, NEW k \in Thread!Step, j # k, child[j] # "none", child[k] # "none",
                    Thread!ThreadOf(j) = Thread!ThreadOf(k)
             PROVE  FALSE
  BY DEF Thread!OneWriter, ThreadInv, Thread!TypeOK
<1>1. Active(j) /\ Active(k) /\ Owns(j) /\ Owns(k) /\ call[j].auxiliary \in BOOLEAN /\ call[k].auxiliary \in BOOLEAN
  BY StepTyped DEF ThreadInv, CallInv, Active
<1>2. PICK t \in Thread!Step : t = Thread!ThreadOf(j) /\ t = Thread!ThreadOf(k)
  BY <1>1, ThreadTyped
<1>3. \A i \in {j, k} : replay[i] # None => ~call[i].auxiliary /\ replay[i].session = call[i].session
  BY <1>1 DEF ThreadInv, CallInv, Active
<1>4. \/ t = j
      \/ ~call[j].auxiliary /\ replay[t] # None /\ replay[t].session = call[j].session
  BY <1>1, <1>2 DEF Owns
<1>5. \/ t = k
      \/ ~call[k].auxiliary /\ replay[t] # None /\ replay[t].session = call[k].session
  BY <1>1, <1>2 DEF Owns
<1>6. ~call[j].auxiliary /\ ~call[k].auxiliary => call[j].session # call[k].session
  BY <1>1 DEF ThreadInv, OneStep
<1> QED BY <1>3, <1>4, <1>5, <1>6

LEMMA ThreadsConsistent == Thread!Spec => [](Thread!Consistent /\ Thread!DisposeClosesAll)
<1>1. Thread!Init => ThreadInv
  BY ThreadInit
<1>2. ThreadInv /\ [Thread!Next]_(Thread!vars) => ThreadInv'
  BY ThreadNext
<1>3. ThreadInv => Thread!Consistent /\ Thread!DisposeClosesAll
  BY OneWriterOfEach DEF ThreadInv, Thread!Consistent
<1> QED BY <1>1, <1>2, <1>3, PTL DEF Thread!Spec

\* CodexThread!Consistent and DisposeClosesAll: no two App Server processes work on one vendor
\* thread, through cancellations, timeouts and lost turns, and a disposed adapter leaves no
\* process running but of a step that was starting.
THEOREM ThreadsHaveOneWriter == Thread!Spec => []Consistent
BY ThreadsConsistent, PTL DEF Consistent

-----------------------------------------------------------------------------
(* CodexThread: what a thread has heard *)

Said(ms) == {ms[i] : i \in 1..Len(ms)}
SaidBefore(ms) == {ms[i] : i \in 1..(Len(ms) - 1)}

\* Two messages that say the same thing of one step.
Same(m, n) == m.by = n.by /\ (m.kind = n.kind \/ (Thread!IsReply(m) /\ Thread!IsReply(n)))
Distinct(ms) == \A i, j \in 1..Len(ms) : Same(ms[i], ms[j]) => i = j
ToolsFollow(ms) ==
  \A i \in 1..Len(ms) : ms[i].kind = "tool" => i > 1 /\ ms[i - 1].kind = "call" /\ ms[i - 1].by = ms[i].of

\* All of a history was heard, and each message of it after the last time the one before was.
HeardInOrder(heard, ms) ==
  \A i \in 1..Len(ms) :
    \E y \in 1..Len(heard) :
      /\ heard[y] = ms[i]
      /\ i > 1 => \A x \in 1..Len(heard) : heard[x] = ms[i - 1] => x < y
Follows(heard, ms, gone) ==
  HeardInOrder(heard, ms) /\ Said(heard) \subseteq gone \cup Said(ms) /\ ToolsFollow(heard)

NoTurns(entries, i, j) == \A m \in i + 1 .. j : entries[m].turn = None
ItemsFollow(entries) == \A i \in 1..Len(entries) : ToolsFollow(entries[i].items)
Turns(entries) == {entries[i].turn : i \in 1..Len(entries)}

\* The i-th entry of a thread is the turn of a reply, that DSH may go back to.
TipOK(entries, i, told, gone, used) ==
  /\ Follows(Thread!Heard(SubSeq(entries, 1, i)), told, gone)
  /\ \A j \in i + 1 .. Len(entries) : NoTurns(entries, i, j) => Said(entries[j].items) \cap SaidBefore(told) = {}
  /\ NoTurns(entries, i, Len(entries)) /\ ~used =>
       \A j \in i + 1 .. Len(entries) : Said(entries[j].items) \subseteq gone \cup Said(told)

ReplyOf(c) == LET e == rollout[c][Len(rollout[c])] IN e.items[Len(e.items)]
Asked(c) == Append(replay[c].prefix, ReplyOf(c))

Spoken(m) ==
  /\ call[m.by].pc # "idle"
  /\ Thread!IsReply(m) => replay[m.by] # None /\ (m = ReplyOf(m.by) \/ (m.kind = "call" /\ m.edited))
  /\ m.kind = "partial" => call[m.by].pc \in {"closing", "done"} /\ replay[m.by] = None
WellTold(ms) == Distinct(ms) /\ ToolsFollow(ms)
HistoryOK(ms) == WellTold(ms) /\ \A i \in 1..Len(ms) : Spoken(ms[i])

Histories ==
  /\ \A s \in Session : HistoryOK(history[s]) /\ HistoryOK(rewritten[s])
  /\ \A k \in Thread!Step : HistoryOK(call[k].messages)

\* The entry is the turn of a reply that was given on this thread.
IsTip(t, i) ==
  LET c == thread[t][i].turn IN c # None /\ replay[c] # None /\ replay[c].thread = t
InUse(t) == \E k \in Thread!Step : call[k].pc \in {"turning", "streaming"} /\ call[k].thread = t

ThreadOK(t) ==
  /\ ItemsFollow(thread[t])
  /\ \A i \in 1..Len(thread[t]) : IsTip(t, i) => TipOK(thread[t], i, Asked(thread[t][i].turn), lost[t], InUse(t))

RolloutOK(c) ==
  /\ ItemsFollow(rollout[c])
  /\ replay[c] # None =>
       /\ Len(rollout[c]) > 0
       /\ Len(rollout[c][Len(rollout[c])].items) > 0
       /\ ReplyOf(c) \in {Thread!New("call", c), Thread!New("text", c)}
       /\ Follows(Thread!Heard(rollout[c]), Asked(c), lost[replay[c].thread])

Unstarted == {"idle", "spawning", "resuming", "rollingBack", "forking", "starting"}
TurnsFresh(k) ==
  call[k].pc \in {"idle"} \cup Thread!Starting => \A t \in Thread!Step : k \notin Turns(thread[t]) /\ k \notin Turns(rollout[t])

\* What of its history a step has told its thread before the turn, and before what it injects.
Known(k) == SubSeq(call[k].messages, 1, Thread!PositionOf(k))
BeforeInput(k) == SubSeq(call[k].messages, 1, Len(call[k].messages) - Len(Thread!Input(k)))

StepOK(k) ==
  LET t == call[k].thread
      c == call[k].checkpoint
      pc == call[k].pc
  IN
  /\ c # None => Thread!ValidCheckpoint(call[k].messages, Thread!PositionOf(k))
  /\ pc \in Unstarted => thread[k] = <<>>
  /\ pc = "starting" => c = None
  /\ pc = "rollingBack" =>
       /\ t = replay[c].thread
       /\ \E i \in 1..Len(thread[t]) : thread[t][i].turn = c /\ call[k].behind = Thread!TurnsAfter(thread[t], i)
  /\ pc \in {"injecting", "turning"} /\ t # k =>
       /\ c # None /\ t = replay[c].thread
       /\ \E i \in 1..Len(thread[t]) : thread[t][i].turn = c /\ NoTurns(thread[t], i, Len(thread[t]))
  /\ pc = "injecting" => Follows(Thread!Heard(thread[t]), Known(k), lost[t])
  /\ pc = "turning" => Follows(Thread!Heard(thread[t]), BeforeInput(k), lost[t])
  /\ pc = "streaming" =>
       /\ Follows(Thread!Heard(thread[t]), call[k].messages, lost[t])
       /\ Len(thread[t]) > 0 /\ thread[t][Len(thread[t])].turn = k
       /\ \A i \in 1..(Len(thread[t]) - 1) : thread[t][i].turn # k

\* Histories are in order; every reply on a thread can be gone back to, for the thread had then
\* heard what the reply was given to; what a reply's thread held then can be copied; and a step
\* before its turn has told its thread the history up to its checkpoint, or to its input.
HeardInv ==
  /\ Histories
  /\ \A k \in Thread!Step : ThreadOK(k) /\ RolloutOK(k) /\ TurnsFresh(k) /\ StepOK(k)

\* Sequences joined and cut, and what is said in them.
LEMMA SaidConcat ==
  ASSUME NEW S, NEW a \in Seq(S), NEW b \in Seq(S)
  PROVE  Said(a \o b) = Said(a) \cup Said(b) /\ a \o b \in Seq(S) /\ Len(a \o b) = Len(a) + Len(b)
         /\ (\A i \in 1..Len(a) : (a \o b)[i] = a[i]) /\ (\A i \in 1..Len(b) : (a \o b)[Len(a) + i] = b[i])
<1>1. /\ a \o b \in Seq(S) /\ Len(a \o b) = Len(a) + Len(b) /\ Len(a) \in Nat /\ Len(b) \in Nat
      /\ \A i \in 1..Len(a) : (a \o b)[i] = a[i] /\ i \in 1..Len(a \o b)
      /\ \A i \in 1..Len(b) : (a \o b)[Len(a) + i] = b[i] /\ Len(a) + i \in 1..Len(a \o b)
  OBVIOUS
<1>2. Said(a \o b) \subseteq Said(a) \cup Said(b)
  <2> SUFFICES ASSUME NEW i \in 1..Len(a \o b) PROVE (a \o b)[i] \in Said(a) \cup Said(b)
    BY DEF Said
  <2>1. CASE i <= Len(a)
    BY <1>1, <2>1 DEF Said
  <2>2. CASE i > Len(a)
    <3>1. i - Len(a) \in 1..Len(b) /\ i = Len(a) + (i - Len(a))
      BY <1>1, <2>2
    <3>2. (a \o b)[i] = b[i - Len(a)]
      BY <1>1, <3>1
    <3> QED BY <3>1, <3>2 DEF Said
  <2> QED BY <1>1, <2>1, <2>2
<1>3. Said(a) \cup Said(b) \subseteq Said(a \o b)
  BY <1>1 DEF Said
<1> QED BY <1>1, <1>2, <1>3

LEMMA BothSaid ==
  ASSUME NEW a \in Seq(Thread!Message), NEW b \in Seq(Thread!Message)
  PROVE  Said(a \o b) = Said(a) \cup Said(b) /\ Len(a \o b) = Len(a) + Len(b) /\ Len(a) \in Nat /\ Len(b) \in Nat
         /\ (\A i \in 1..Len(a) : (a \o b)[i] = a[i]) /\ (\A i \in 1..Len(b) : (a \o b)[Len(a) + i] = b[i])
BY SaidConcat

LEMMA SaidTyped ==
  ASSUME NEW S, NEW a \in Seq(S)
  PROVE  Said(a) \subseteq S /\ Thread!Range(a) = Said(a) /\ Len(a) \in Nat /\ DOMAIN a = 1..Len(a)
BY DEF Said, Thread!Range

LEMMA CutTyped ==
  ASSUME NEW S, NEW a \in Seq(S), NEW m \in 0..Len(a)
  PROVE  /\ SubSeq(a, 1, m) \in Seq(S) /\ Len(SubSeq(a, 1, m)) = m
         /\ \A i \in 1..m : SubSeq(a, 1, m)[i] = a[i] /\ i \in 1..Len(a)
         /\ Said(SubSeq(a, 1, m)) \subseteq Said(a)
<1>1. /\ SubSeq(a, 1, m) \in Seq(S) /\ Len(SubSeq(a, 1, m)) = m
      /\ \A i \in 1..m : SubSeq(a, 1, m)[i] = a[i] /\ i \in 1..Len(a)
  BY SubSeqTyped
<1> QED BY <1>1 DEF Said

\* A list joined from others is made of the first of them and what the rest holds.
LEMMA JoinsAlike ==
  ASSUME NEW n \in Nat, NEW f, NEW g, NEW a, NEW b, Joins(f, a, n), Joins(g, b, n),
         \A i \in 1..n : a[i] = b[i]
  PROVE  \A i \in 0..n : f[i] = g[i]
<1> DEFINE alike == {i \in 0..n : f[i] = g[i]}
<1>1. 0 \in alike
  BY DEF Joins
<1>2. ASSUME NEW i \in 1..n, i-1 \in alike PROVE i \in alike
  <2>1. f[i-1] = g[i-1] /\ i \in 0..n
    BY <1>2
  <2>2. f[i] = f[i-1] \o a[i] /\ g[i] = g[i-1] \o b[i]
    BY DEF Joins
  <2> QED BY <2>1, <2>2
<1>3. 0..n \subseteq alike
  <2>1. \A i \in 1..n : i-1 \in alike => i \in alike
    BY <1>2
  <2> HIDE DEF alike
  <2> QED BY <1>1, <2>1, UpTo
<1> QED BY <1>3 DEF alike

\* What a thread has heard up to each of its entries.
HeardSoFar(f, entries) ==
  /\ f[0] = <<>>
  /\ \A i \in 1..Len(entries) : f[i] = f[i-1] \o entries[i].items
  /\ \A i \in 0..Len(entries) : f[i] \in Seq(Thread!Message) /\ Thread!Heard(SubSeq(entries, 1, i)) = f[i]
  /\ Thread!Heard(entries) = f[Len(entries)]

LEMMA EntryTyped ==
  ASSUME NEW entries \in Seq(Thread!Entry)
  PROVE  /\ Len(entries) \in Nat
         /\ \A i \in 1..Len(entries) : entries[i].items \in Seq(Thread!Message) /\ entries[i].turn \in Thread!Step \cup {None}
<1>1. \A e \in Thread!Entry : e.items \in Seq(Thread!Message) /\ e.turn \in Thread!Step \cup {None}
  BY DEF Thread!Entry
<1> QED BY <1>1

LEMMA ItemsTyped ==
  ASSUME NEW entries \in Seq(Thread!Entry)
  PROVE  /\ [i \in 1..Len(entries) |-> entries[i].items] \in Seq(Seq(Thread!Message))
         /\ Len([i \in 1..Len(entries) |-> entries[i].items]) = Len(entries)
<1>1. PICK n \in Nat : n = Len(entries)
  OBVIOUS
<1>2. \A i \in 1..n : entries[i].items \in Seq(Thread!Message)
  BY <1>1, EntryTyped
<1>3. [i \in 1..n |-> entries[i].items] \in Seq(Seq(Thread!Message)) /\ Len([i \in 1..n |-> entries[i].items]) = n
  BY <1>2
<1> QED BY <1>1, <1>3

LEMMA HeardJoins ==
  ASSUME NEW entries \in Seq(Thread!Entry)
  PROVE  \E f : /\ Joins(f, [i \in 1..Len(entries) |-> entries[i].items], Len(entries))
                /\ Thread!Heard(entries) = f[Len(entries)]
                /\ \A i \in 0..Len(entries) : f[i] \in Seq(Thread!Message)
<1>1. PICK lists \in Seq(Seq(Thread!Message)) : lists = [i \in 1..Len(entries) |-> entries[i].items] /\ Len(lists) = Len(entries)
  BY ItemsTyped
<1>2. Thread!Heard(entries) = Thread!Joined(lists)
  BY <1>1 DEF Thread!Heard
<1> QED BY <1>1, <1>2, JoinedSteps

LEMMA HeardSteps ==
  ASSUME NEW entries \in Seq(Thread!Entry)
  PROVE  \E f : HeardSoFar(f, entries)
<1>1. PICK n \in Nat : n = Len(entries)
  OBVIOUS
<1>2. PICK f : /\ Joins(f, [i \in 1..n |-> entries[i].items], n) /\ Thread!Heard(entries) = f[n]
               /\ \A i \in 0..n : f[i] \in Seq(Thread!Message)
  BY <1>1, HeardJoins
<1>3. f[0] = <<>> /\ \A i \in 1..n : f[i] = f[i-1] \o entries[i].items
  BY <1>2 DEF Joins
<1>4. ASSUME NEW m \in 0..n PROVE Thread!Heard(SubSeq(entries, 1, m)) = f[m]
  <2>1. PICK cut \in Seq(Thread!Entry) : cut = SubSeq(entries, 1, m) /\ Len(cut) = m /\ \A i \in 1..m : cut[i] = entries[i] /\ i \in 1..n
    BY <1>1, CutTyped
  <2>2. PICK g : Joins(g, [i \in 1..m |-> cut[i].items], m) /\ Thread!Heard(cut) = g[m]
    BY <2>1, HeardJoins
  <2>3. m \in Nat /\ m \in 0..m /\ \A i \in 0..m : i \in 0..n
    BY <1>4
  <2> DEFINE h == [i \in 0..m |-> f[i]]
  <2>4. Joins(h, [i \in 1..m |-> cut[i].items], m)
    <3>1. h = [i \in 0..m |-> h[i]] /\ h[0] = <<>>
      BY <1>3, <2>3
    <3>2. \A i \in 1..m : h[i] = h[i-1] \o cut[i].items
      BY <1>3, <2>1, <2>3
    <3>3. \A i \in 1..m : [j \in 1..m |-> cut[j].items][i] = cut[i].items
      OBVIOUS
    <3> HIDE DEF h
    <3> QED BY <3>1, <3>2, <3>3 DEF Joins
  <2>5. h[m] = g[m]
    <3> HIDE DEF h
    <3> QED BY <2>2, <2>3, <2>4, JoinsAlike
  <2> QED BY <2>1, <2>2, <2>3, <2>5
<1> QED BY <1>1, <1>2, <1>3, <1>4 DEF HeardSoFar

LEMMA HeardTyped ==
  ASSUME NEW entries \in Seq(Thread!Entry)
  PROVE  Thread!Heard(entries) \in Seq(Thread!Message)
<1>1. Len(entries) \in 0..Len(entries)
  OBVIOUS
<1> QED BY <1>1, HeardSteps DEF HeardSoFar

LEMMA MessagesAssociate ==
  ASSUME NEW s \in Seq(Thread!Message), NEW t \in Seq(Thread!Message), NEW u \in Seq(Thread!Message)
  PROVE  (s \o t) \o u = s \o (t \o u) /\ s \o t \in Seq(Thread!Message) /\ t \o u \in Seq(Thread!Message)
BY ConcatAssociative, ConcatProperties

LEMMA NothingHeard ==
  /\ <<>> \in Seq(Thread!Entry) /\ Thread!Heard(<<>>) = <<>> /\ Len(<<>>) = 0
<1>1. <<>> \in Seq(Thread!Entry) /\ Len(<<>>) = 0
  OBVIOUS
<1> QED BY <1>1, HeardSteps DEF HeardSoFar

\* Another entry is heard after what was heard.
LEMMA HeardMore ==
  ASSUME NEW entries \in Seq(Thread!Entry), NEW e \in Thread!Entry
  PROVE  Thread!Heard(Append(entries, e)) = Thread!Heard(entries) \o e.items
<1>0. Append(entries, e) \in Seq(Thread!Entry)
  OBVIOUS
<1>1. PICK more \in Seq(Thread!Entry) : more = Append(entries, e)
  BY <1>0
<1>2. PICK n \in Nat : n = Len(entries)
  OBVIOUS
<1>3. Len(more) = n + 1 /\ more[n + 1] = e /\ SubSeq(more, 1, n) = entries
  BY <1>1, <1>2
<1>4. PICK f : HeardSoFar(f, more)
  BY HeardSteps
<1>5. n \in 0..Len(more) /\ n + 1 \in 1..Len(more) /\ n + 1 - 1 = n
  BY <1>3
<1>6. f[n + 1] = f[n] \o e.items /\ Thread!Heard(more) = f[n + 1]
  <2>1. \A i \in 1..Len(more) : f[i] = f[i-1] \o more[i].items
    BY <1>4 DEF HeardSoFar
  <2>2. PICK j \in 1..Len(more) : j = n + 1 /\ j - 1 = n /\ j = Len(more)
    BY <1>3, <1>5
  <2>3. f[j] = f[j-1] \o more[j].items
    BY <2>1
  <2>4. Thread!Heard(more) = f[j]
    BY <1>4, <2>2 DEF HeardSoFar
  <2> QED BY <1>3, <2>2, <2>3, <2>4
<1>7. Thread!Heard(entries) = f[n]
  BY <1>3, <1>4, <1>5 DEF HeardSoFar
<1> QED BY <1>1, <1>6, <1>7

\* Lists in which each tool result follows its call, one after the other.
LEMMA ToolsFollowOn ==
  ASSUME NEW a \in Seq(Thread!Message), NEW b \in Seq(Thread!Message), ToolsFollow(a), ToolsFollow(b)
  PROVE  ToolsFollow(a \o b)
<1>1. PICK ab \in Seq(Thread!Message) : ab = a \o b
  BY MessagesAssociate
<1>2. /\ Len(ab) = Len(a) + Len(b) /\ Len(a) \in Nat /\ Len(b) \in Nat
      /\ \A i \in 1..Len(a) : ab[i] = a[i]
      /\ \A i \in 1..Len(b) : ab[Len(a) + i] = b[i]
  BY <1>1, SaidConcat
<1>3. ASSUME NEW i \in 1..Len(ab), ab[i].kind = "tool"
      PROVE  i > 1 /\ ab[i-1].kind = "call" /\ ab[i-1].by = ab[i].of
  <2>1. CASE i <= Len(a)
    <3>1. i \in 1..Len(a) /\ a[i].kind = "tool" /\ i > 1 /\ a[i-1].kind = "call" /\ a[i-1].by = a[i].of
      BY <1>2, <1>3, <2>1 DEF ToolsFollow
    <3>2. i - 1 \in 1..Len(a)
      BY <3>1
    <3> QED BY <1>2, <3>1, <3>2
  <2>2. CASE i > Len(a)
    <3>1. PICK j \in 1..Len(b) : i = Len(a) + j
      <4>1. i - Len(a) \in 1..Len(b) /\ i = Len(a) + (i - Len(a))
        BY <1>2, <2>2
      <4> QED BY <4>1
    <3>2. b[j].kind = "tool" /\ j > 1 /\ b[j-1].kind = "call" /\ b[j-1].by = b[j].of
      BY <1>2, <1>3, <3>1 DEF ToolsFollow
    <3>3. j - 1 \in 1..Len(b) /\ i - 1 = Len(a) + (j - 1) /\ i > 1
      BY <1>2, <3>1, <3>2
    <3>4. ab[i-1] = b[j-1] /\ ab[i] = b[j]
      BY <1>2, <3>1, <3>3
    <3> QED BY <3>2, <3>3, <3>4
  <2> QED BY <1>2, <2>1, <2>2
<1> QED BY <1>1, <1>3 DEF ToolsFollow

\* What the entries after the m-th say.
SaidAfter(entries, m, n) == UNION {Said(entries[i].items) : i \in m + 1 .. n}

\* What is heard of a thread after a cut of it.
LEMMA HeardCut ==
  ASSUME NEW entries \in Seq(Thread!Entry), NEW m \in 0..Len(entries), NEW n \in m..Len(entries)
  PROVE  \E rest \in Seq(Thread!Message) :
           /\ Thread!Heard(SubSeq(entries, 1, m)) \in Seq(Thread!Message)
           /\ Thread!Heard(SubSeq(entries, 1, n)) = Thread!Heard(SubSeq(entries, 1, m)) \o rest
           /\ Said(rest) = SaidAfter(entries, m, n)
           /\ ItemsFollow(entries) => ToolsFollow(rest)
<1>1. PICK l \in Nat : l = Len(entries)
  OBVIOUS
<1>2. PICK f : HeardSoFar(f, entries)
  BY HeardSteps
<1> DEFINE Rest(r, i) == /\ r \in Seq(Thread!Message) /\ f[i] = f[m] \o r
                         /\ Said(r) = SaidAfter(entries, m, i)
                         /\ ItemsFollow(entries) => ToolsFollow(r)
           done == {i \in 0..l : i >= m => \E r : Rest(r, i)}
<1>3. \A i \in 0..l : f[i] \in Seq(Thread!Message) /\ Thread!Heard(SubSeq(entries, 1, i)) = f[i]
  BY <1>1, <1>2 DEF HeardSoFar
<1>4. Rest(<<>>, m)
  <2>1. f[m] \in Seq(Thread!Message) /\ <<>> \in Seq(Thread!Message) /\ Len(<<>>) = 0
    BY <1>1, <1>3
  <2>2. f[m] = f[m] \o <<>>
    BY <2>1
  <2>3. m + 1 .. m = {}
    BY <1>1
  <2>4. Said(<<>>) = {} /\ ToolsFollow(<<>>)
    BY <2>1 DEF Said, ToolsFollow
  <2>5. SaidAfter(entries, m, m) = {}
    BY <2>3 DEF SaidAfter
  <2> QED BY <2>1, <2>2, <2>4, <2>5
<1>5. 0 \in done
  <2>1. 0 >= m => m = 0
    BY <1>1
  <2> HIDE DEF Rest
  <2> QED BY <1>1, <1>4, <2>1
<1>6. ASSUME NEW i \in 1..l, i-1 \in done PROVE i \in done
  <2>1. CASE i < m
    BY <1>1, <2>1
  <2>2. CASE i = m
    <3> HIDE DEF Rest
    <3> QED BY <1>4, <2>2
  <2>3. CASE i > m
    <3>1. i - 1 >= m
      BY <1>1, <2>3
    <3>2. PICK r : Rest(r, i-1)
      BY <1>6, <3>1
    <3>3. PICK items \in Seq(Thread!Message) : items = entries[i].items /\ (ItemsFollow(entries) => ToolsFollow(items))
      BY <1>1, EntryTyped DEF ItemsFollow
    <3>4. f[i] = f[i-1] \o items /\ f[m] \in Seq(Thread!Message)
      BY <1>1, <1>2, <1>3, <3>3 DEF HeardSoFar
    <3>5. f[i] = f[m] \o (r \o items) /\ r \o items \in Seq(Thread!Message)
      <4>1. r \in Seq(Thread!Message) /\ f[i-1] = f[m] \o r
        BY <3>2
      <4>2. (f[m] \o r) \o items = f[m] \o (r \o items) /\ r \o items \in Seq(Thread!Message)
        BY <3>3, <3>4, <4>1, MessagesAssociate
      <4> QED BY <3>4, <4>1, <4>2
    <3>6. Said(r \o items) = Said(r) \cup Said(items)
      BY <3>2, <3>3, SaidConcat
    <3>7. m + 1 .. i = (m + 1 .. i - 1) \cup {i}
      BY <1>1, <2>3
    <3>8. SaidAfter(entries, m, i) = SaidAfter(entries, m, i-1) \cup Said(items)
      BY <3>3, <3>7 DEF SaidAfter
    <3>9. ItemsFollow(entries) => ToolsFollow(r \o items)
      BY <3>2, <3>3, ToolsFollowOn
    <3>10. Rest(r \o items, i)
      BY <3>2, <3>5, <3>6, <3>8, <3>9
    <3> HIDE DEF Rest
    <3> QED BY <3>10
  <2> QED BY <1>1, <2>1, <2>2, <2>3
<1>7. n \in done
  <2>1. \A i \in 1..l : i-1 \in done => i \in done
    BY <1>6
  <2>2. n \in 0..l
    BY <1>1
  <2> HIDE DEF done
  <2>3. 0..l \subseteq done
    BY <1>5, <2>1, UpTo
  <2> QED BY <2>2, <2>3
<1>8. PICK r : Rest(r, n)
  BY <1>1, <1>7
<1>9. m \in 0..l /\ n \in 0..l
  BY <1>1
<1> QED BY <1>3, <1>8, <1>9

\* What a thread hears beside a history does not matter while none of it but its last
\* message is among it.
LEMMA InOrderBeside ==
  ASSUME NEW heard \in Seq(Thread!Message), NEW rest \in Seq(Thread!Message),
         NEW ms \in Seq(Thread!Message),
         HeardInOrder(heard, ms), Said(rest) \cap SaidBefore(ms) = {}
  PROVE  HeardInOrder(heard \o rest, ms)
<1>1. PICK all \in Seq(Thread!Message) : all = heard \o rest
  BY MessagesAssociate
<1>2. /\ Len(all) = Len(heard) + Len(rest) /\ Len(heard) \in Nat /\ Len(rest) \in Nat
      /\ \A x \in 1..Len(heard) : all[x] = heard[x]
      /\ \A x \in 1..Len(rest) : all[Len(heard) + x] = rest[x]
  BY <1>1, SaidConcat
<1> SUFFICES ASSUME NEW i \in 1..Len(ms)
             PROVE  \E y \in 1..Len(all) : /\ all[y] = ms[i]
                                           /\ i > 1 => \A x \in 1..Len(all) : all[x] = ms[i - 1] => x < y
  BY <1>1 DEF HeardInOrder
<1>3. PICK y \in 1..Len(heard) : /\ heard[y] = ms[i]
                                 /\ i > 1 => \A x \in 1..Len(heard) : heard[x] = ms[i - 1] => x < y
  BY DEF HeardInOrder
<1>4. y \in 1..Len(all) /\ all[y] = ms[i]
  BY <1>2, <1>3
<1>5. ASSUME i > 1, NEW x \in 1..Len(all), all[x] = ms[i - 1] PROVE x < y
  <2>1. CASE x <= Len(heard)
    BY <1>2, <1>3, <1>5, <2>1
  <2>2. CASE x > Len(heard)
    <3>1. x - Len(heard) \in 1..Len(rest) /\ x = Len(heard) + (x - Len(heard))
      BY <1>2, <2>2
    <3>2. rest[x - Len(heard)] = ms[i - 1]
      BY <1>2, <1>5, <3>1
    <3>3. ms[i - 1] \in Said(rest)
      BY <3>1, <3>2 DEF Said
    <3>4. i - 1 \in 1..(Len(ms) - 1)
      BY <1>5
    <3> QED BY <3>3, <3>4 DEF SaidBefore
  <2> QED BY <1>2, <2>1, <2>2
<1> QED BY <1>4, <1>5

\* A history is heard to its end when the end of it is.
LEMMA InOrderMore ==
  ASSUME NEW heard \in Seq(Thread!Message), NEW more \in Seq(Thread!Message),
         NEW ms \in Seq(Thread!Message),
         HeardInOrder(heard, ms), Distinct(ms \o more)
  PROVE  HeardInOrder(heard \o more, ms \o more)
<1>1. PICK all \in Seq(Thread!Message), longer \in Seq(Thread!Message) : all = heard \o more /\ longer = ms \o more
  BY MessagesAssociate
<1>2. /\ Len(all) = Len(heard) + Len(more) /\ Len(heard) \in Nat /\ Len(more) \in Nat
      /\ \A x \in 1..Len(heard) : all[x] = heard[x]
      /\ \A x \in 1..Len(more) : all[Len(heard) + x] = more[x]
  BY <1>1, SaidConcat
<1>3. /\ Len(longer) = Len(ms) + Len(more) /\ Len(ms) \in Nat
      /\ \A x \in 1..Len(ms) : longer[x] = ms[x]
      /\ \A x \in 1..Len(more) : longer[Len(ms) + x] = more[x]
  BY <1>1, SaidConcat
\* No two messages of the longer history are the same.
<1>4. \A i, j \in 1..Len(longer) : longer[i] = longer[j] => i = j
  BY <1>1 DEF Distinct, Same
\* What was heard last is the end of the history.
<1>5. ASSUME NEW n \in 1..Len(longer), NEW x \in 1..Len(all), x > Len(heard), all[x] = longer[n]
      PROVE  x - Len(heard) = n - Len(ms)
  <2>1. x - Len(heard) \in 1..Len(more) /\ x = Len(heard) + (x - Len(heard))
    BY <1>2, <1>5
  <2>2. PICK z \in 1..Len(more) : x = Len(heard) + z
    BY <2>1
  <2>3. all[x] = more[z] /\ longer[Len(ms) + z] = more[z] /\ Len(ms) + z \in 1..Len(longer)
    BY <1>2, <1>3, <2>2
  <2>4. Len(ms) + z = n
    BY <1>4, <1>5, <2>3
  <2> QED BY <1>2, <1>3, <2>2, <2>4
<1> SUFFICES ASSUME NEW i \in 1..Len(longer)
             PROVE  \E y \in 1..Len(all) : /\ all[y] = longer[i]
                                           /\ i > 1 => \A x \in 1..Len(all) : all[x] = longer[i - 1] => x < y
  BY <1>1 DEF HeardInOrder
<1>6. CASE i <= Len(ms)
  <2>1. i \in 1..Len(ms) /\ longer[i] = ms[i] /\ (i > 1 => i - 1 \in 1..Len(ms) /\ longer[i - 1] = ms[i - 1])
    <3>1. i \in 1..Len(ms) /\ (i > 1 => i - 1 \in 1..Len(ms))
      BY <1>3, <1>6
    <3> QED BY <1>3, <3>1
  <2>2. PICK y \in 1..Len(heard) : /\ heard[y] = ms[i]
                                   /\ i > 1 => \A x \in 1..Len(heard) : heard[x] = ms[i - 1] => x < y
    BY <2>1 DEF HeardInOrder
  <2>3. y \in 1..Len(all) /\ all[y] = longer[i]
    BY <1>2, <2>1, <2>2
  <2>4. ASSUME i > 1, NEW x \in 1..Len(all), all[x] = longer[i - 1] PROVE x < y
    <3>1. CASE x <= Len(heard)
      BY <1>2, <2>1, <2>2, <2>4, <3>1
    <3>2. CASE x > Len(heard)
      <4>1. PICK n \in 1..Len(longer) : n = i - 1
        BY <2>4
      <4>2. x - Len(heard) = n - Len(ms)
        BY <1>5, <2>4, <3>2, <4>1
      <4> QED BY <1>2, <1>3, <1>6, <3>2, <4>1, <4>2
    <3> QED BY <1>2, <3>1, <3>2
  <2> QED BY <2>3, <2>4
<1>7. CASE i > Len(ms)
  <2>1. PICK z \in 1..Len(more) : i = Len(ms) + z
    <3>1. i - Len(ms) \in 1..Len(more) /\ i = Len(ms) + (i - Len(ms))
      BY <1>3, <1>7
    <3> QED BY <3>1
  <2>2. Len(heard) + z \in 1..Len(all) /\ all[Len(heard) + z] = longer[i]
    BY <1>2, <1>3, <2>1
  <2>3. ASSUME i > 1, NEW x \in 1..Len(all), all[x] = longer[i - 1] PROVE x < Len(heard) + z
    <3>1. CASE x <= Len(heard)
      BY <1>2, <2>1, <3>1
    <3>2. CASE x > Len(heard)
      <4>1. PICK n \in 1..Len(longer) : n = i - 1
        BY <2>3
      <4>2. x - Len(heard) = n - Len(ms)
        BY <1>5, <2>3, <3>2, <4>1
      <4> QED BY <1>2, <1>3, <2>1, <4>1, <4>2
    <3> QED BY <1>2, <3>1, <3>2
  <2> QED BY <2>2, <2>3
<1> QED BY <1>3, <1>6, <1>7

\* A thread hears the rest of a history, perhaps after the last message it heard again.
LEMMA FollowsMore ==
  ASSUME NEW heard \in Seq(Thread!Message), NEW again \in Seq(Thread!Message),
         NEW more \in Seq(Thread!Message),
         NEW ms \in Seq(Thread!Message), NEW gone, Follows(heard, ms, gone), Distinct(ms \o more),
         Said(again) \cap SaidBefore(ms) = {}, Said(again) \subseteq Said(ms), ToolsFollow(again \o more)
  PROVE  Follows(heard \o (again \o more), ms \o more, gone)
<1>1. /\ (heard \o again) \o more = heard \o (again \o more)
      /\ heard \o again \in Seq(Thread!Message) /\ again \o more \in Seq(Thread!Message) /\ ms \o more \in Seq(Thread!Message)
  BY MessagesAssociate
<1>2. HeardInOrder((heard \o again) \o more, ms \o more)
  BY <1>1, InOrderBeside, InOrderMore DEF Follows
<1>3. Said(heard \o (again \o more)) = Said(heard) \cup Said(again) \cup Said(more) /\ Said(ms \o more) = Said(ms) \cup Said(more)
  <2>1. Said(heard \o (again \o more)) = Said(heard) \cup Said(again \o more)
    <3>1. PICK rest \in Seq(Thread!Message) : rest = again \o more
      BY <1>1
    <3>2. Said(heard \o rest) = Said(heard) \cup Said(rest)
      BY SaidConcat
    <3> QED BY <3>1, <3>2
  <2>2. Said(again \o more) = Said(again) \cup Said(more) /\ Said(ms \o more) = Said(ms) \cup Said(more)
    BY SaidConcat
  <2> QED BY <2>1, <2>2
<1>4. ToolsFollow(heard \o (again \o more))
  BY <1>1, ToolsFollowOn DEF Follows
<1> QED BY <1>1, <1>2, <1>3, <1>4 DEF Follows

\* Hearing again what comes last, or what is forsaken, breaks nothing.
LEMMA FollowsBeside ==
  ASSUME NEW heard \in Seq(Thread!Message), NEW rest \in Seq(Thread!Message),
         NEW ms \in Seq(Thread!Message),
         NEW gone, NEW left, gone \subseteq left, Follows(heard, ms, gone),
         Said(rest) \cap SaidBefore(ms) = {}, Said(rest) \subseteq left \cup Said(ms), ToolsFollow(rest)
  PROVE  Follows(heard \o rest, ms, left)
<1>1. HeardInOrder(heard \o rest, ms) /\ ToolsFollow(heard \o rest) /\ Said(heard \o rest) = Said(heard) \cup Said(rest)
  BY InOrderBeside, ToolsFollowOn, SaidConcat DEF Follows
<1> QED BY <1>1 DEF Follows

\* Nothing was heard and nothing had to be.
LEMMA FollowsNothing ==
  ASSUME NEW gone
  PROVE  Follows(<<>>, <<>>, gone)
BY DEF Follows, HeardInOrder, Said, ToolsFollow

-----------------------------------------------------------------------------
(* The entries of a thread *)

LEMMA CutAlike ==
  ASSUME NEW S, NEW a \in Seq(S), NEW b \in Seq(S), NEW n \in Nat, n <= Len(a), n <= Len(b),
         \A i \in 1..n : a[i] = b[i]
  PROVE  SubSeq(a, 1, n) = SubSeq(b, 1, n)
<1>1. PICK x \in Seq(S), y \in Seq(S) : x = SubSeq(a, 1, n) /\ y = SubSeq(b, 1, n)
  <2>1. n \in 0..Len(a) /\ n \in 0..Len(b)
    OBVIOUS
  <2>2. SubSeq(a, 1, n) \in Seq(S) /\ SubSeq(b, 1, n) \in Seq(S)
    BY <2>1, CutTyped
  <2> QED BY <2>2
<1>2. Len(x) = n /\ Len(y) = n /\ \A i \in 1..n : x[i] = y[i]
  BY <1>1, CutTyped
<1> QED BY <1>1, <1>2

LEMMA CutOfCut ==
  ASSUME NEW S, NEW a \in Seq(S), NEW n \in 0..Len(a), NEW m \in 0..n
  PROVE  SubSeq(SubSeq(a, 1, n), 1, m) = SubSeq(a, 1, m)
<1>1. PICK b \in Seq(S) : b = SubSeq(a, 1, n) /\ Len(b) = n /\ \A i \in 1..n : b[i] = a[i]
  BY CutTyped
<1>2. m \in Nat /\ m <= Len(a) /\ m <= Len(b) /\ \A i \in 1..m : b[i] = a[i]
  BY <1>1
<1> QED BY <1>1, <1>2, CutAlike

LEMMA CutWhole ==
  ASSUME NEW S, NEW a \in Seq(S)
  PROVE  SubSeq(a, 1, Len(a)) = a
OBVIOUS

\* A turn of a reply that DSH may go back to, when the thread is changed after it.
LEMMA TipKept ==
  ASSUME NEW entries \in Seq(Thread!Entry), NEW held \in Seq(Thread!Entry),
         NEW n \in Nat, n <= Len(entries), n <= Len(held), NEW i \in 1..n,
         \A j \in 1..n : held[j] = entries[j],
         NEW told, NEW gone, NEW left, gone \subseteq left, NEW used, NEW using,
         TipOK(entries, i, told, gone, used),
         \A j \in n + 1 .. Len(held) : NoTurns(held, i, j) => Said(held[j].items) \cap SaidBefore(told) = {},
         NoTurns(held, i, Len(held)) /\ ~using => SaidAfter(held, i, Len(held)) \subseteq left \cup Said(told)
  PROVE  TipOK(held, i, told, left, using)
<1>1. SubSeq(held, 1, i) = SubSeq(entries, 1, i)
  BY CutAlike
<1>2. Follows(Thread!Heard(SubSeq(held, 1, i)), told, left)
  BY <1>1 DEF TipOK, Follows
<1>3. ASSUME NEW j \in i + 1 .. Len(held), NoTurns(held, i, j)
      PROVE  Said(held[j].items) \cap SaidBefore(told) = {}
  <2>1. CASE j <= n
    <3>1. j \in i + 1 .. Len(entries) /\ held[j] = entries[j]
      BY <2>1
    <3>2. NoTurns(entries, i, j)
      BY <1>3, <2>1 DEF NoTurns
    <3> QED BY <3>1, <3>2 DEF TipOK
  <2>2. CASE j > n
    <3>1. j \in n + 1 .. Len(held) /\ held[j].turn = None
      BY <1>3, <2>2 DEF NoTurns
    <3> QED BY <1>3, <3>1
  <2> QED BY <2>1, <2>2
<1>4. ASSUME NoTurns(held, i, Len(held)), ~using
      PROVE  \A j \in i + 1 .. Len(held) : Said(held[j].items) \subseteq left \cup Said(told)
  BY <1>4 DEF SaidAfter
<1> QED BY <1>2, <1>3, <1>4 DEF TipOK

\* A thread that was cut after such a turn, before another one.
LEMMA TipFollows ==
  ASSUME NEW entries \in Seq(Thread!Entry), NEW i \in 1..Len(entries), NEW m \in i..Len(entries),
         NoTurns(entries, i, m),
         NEW told \in Seq(Thread!Message), NEW gone, NEW left, gone \subseteq left, NEW used,
         TipOK(entries, i, told, gone, used),
         SaidAfter(entries, i, m) \subseteq left \cup Said(told), ItemsFollow(entries)
  PROVE  Follows(Thread!Heard(SubSeq(entries, 1, m)), told, left)
<1>1. i \in 0..Len(entries)
  OBVIOUS
<1>2. PICK rest \in Seq(Thread!Message) :
        /\ Thread!Heard(SubSeq(entries, 1, i)) \in Seq(Thread!Message)
        /\ Thread!Heard(SubSeq(entries, 1, m)) = Thread!Heard(SubSeq(entries, 1, i)) \o rest
        /\ Said(rest) = SaidAfter(entries, i, m) /\ ToolsFollow(rest)
  BY <1>1, HeardCut
<1>3. ASSUME NEW j \in i + 1 .. m PROVE Said(entries[j].items) \cap SaidBefore(told) = {}
  <2>1. j \in i + 1 .. Len(entries) /\ NoTurns(entries, i, j)
    BY DEF NoTurns
  <2> QED BY <2>1 DEF TipOK
<1>4. Said(rest) \cap SaidBefore(told) = {}
  BY <1>2, <1>3 DEF SaidAfter
<1>5. PICK heard \in Seq(Thread!Message) : heard = Thread!Heard(SubSeq(entries, 1, i))
  BY <1>2
<1>6. Follows(heard, told, gone)
  BY <1>5 DEF TipOK
<1>7. Follows(heard \o rest, told, left)
  BY <1>2, <1>4, <1>6, FollowsBeside
<1> QED BY <1>2, <1>5, <1>7

\* What an entry says is among what the thread holds.
LEMMA SaidOnThread ==
  ASSUME NEW entries \in Seq(Thread!Entry), NEW i \in Nat, NEW m \in Nat, m <= Len(entries)
  PROVE  SaidAfter(entries, i, m) \subseteq Thread!Messages(entries)
<1>1. ASSUME NEW j \in i + 1 .. m PROVE Said(entries[j].items) \subseteq Thread!Messages(entries)
  <2>1. j \in 1..Len(entries) /\ entries[j].items \in Seq(Thread!Message)
    BY EntryTyped
  <2>2. Thread!Range(entries[j].items) = Said(entries[j].items)
    BY <2>1, SaidTyped
  <2> QED BY <2>1, <2>2 DEF Thread!Messages
<1> QED BY <1>1 DEF SaidAfter

\* A rollback by the turns after a turn cuts the thread after it and before the next turn.
LEMMA RolledBackCuts ==
  ASSUME NEW entries \in Seq(Thread!Entry), NEW i \in 1..Len(entries), entries[i].turn # None,
         NEW held \in Thread!RolledBack(entries, Thread!TurnsAfter(entries, i))
  PROVE  \E m \in i..Len(entries) : held = SubSeq(entries, 1, m) /\ NoTurns(entries, i, m)
<1>1. PICK l \in Nat : l = Len(entries)
  OBVIOUS
<1> DEFINE after(m) == {j \in m + 1 .. l : entries[j].turn # None}
<1>2. \A m \in Nat : Thread!TurnsAfter(entries, m) = Cardinality(after(m))
  BY <1>1, SameCardinality DEF Thread!TurnsAfter
<1>3. \A m \in Nat : IsFiniteSet(after(m)) /\ Cardinality(after(m)) \in Nat
  <2> TAKE m \in Nat
  <2>1. m + 1 \in Int /\ l \in Int
    OBVIOUS
  <2>2. IsFiniteSet(m + 1 .. l)
    BY <2>1, FS_Interval
  <2>3. after(m) \subseteq m + 1 .. l
    OBVIOUS
  <2> HIDE DEF after
  <2> QED BY <2>2, <2>3, FS_Subset, FS_CardinalityType
\* As many turns after a later entry are the same turns.
<1>4. ASSUME NEW m \in i..l, Thread!TurnsAfter(entries, m) >= Thread!TurnsAfter(entries, i)
      PROVE  NoTurns(entries, i, m)
  <2> SUFFICES ASSUME NEW j \in i + 1 .. m, entries[j].turn # None PROVE FALSE
    BY DEF NoTurns
  <2>1. j \in after(i) /\ j \notin after(m) /\ after(m) \subseteq after(i)
    BY <1>1
  <2>2. i \in Nat /\ m \in Nat
    BY <1>1
  <2> HIDE DEF after
  <2>3. after(m) \subseteq after(i) \ {j}
    BY <2>1
  <2>4. /\ IsFiniteSet(after(i) \ {j}) /\ Cardinality(after(i) \ {j}) = Cardinality(after(i)) - 1
    BY <1>3, <2>1, <2>2, FS_RemoveElement
  <2>5. Cardinality(after(m)) <= Cardinality(after(i) \ {j})
    BY <2>3, <2>4, FS_Subset
  <2>6. Cardinality(after(m)) >= Cardinality(after(i)) /\ Cardinality(after(i)) \in Nat /\ Cardinality(after(m)) \in Nat
    BY <1>2, <1>3, <1>4, <2>2
  <2> QED BY <2>4, <2>5, <2>6
<1> DEFINE enough == {0} \cup {m \in 1..l : Thread!TurnsAfter(entries, m) >= Thread!TurnsAfter(entries, i)}
<1>5. PICK m \in i..l : m = Thread!Max(enough) /\ NoTurns(entries, i, m)
  <2>1. Thread!TurnsAfter(entries, i) \in Nat
    <3>1. i \in Nat
      BY <1>1
    <3> HIDE DEF after
    <3> QED BY <1>2, <1>3, <3>1
  <2>2. i \in enough /\ enough \subseteq 0..l /\ enough # {}
    BY <1>1, <2>1
  <2>3. Thread!Max(enough) \in enough /\ Thread!Max(enough) \in 0..l /\ i <= Thread!Max(enough)
    <3> HIDE DEF enough
    <3> QED BY <2>2, MaxUpTo
  <2>4. Thread!Max(enough) \in i..l
    BY <1>1, <2>3
  <2>5. Thread!TurnsAfter(entries, Thread!Max(enough)) >= Thread!TurnsAfter(entries, i)
    BY <1>1, <2>3, <2>4
  <2> HIDE DEF enough
  <2> QED BY <1>4, <2>4, <2>5
<1>6. m \in 0..Len(entries) /\ m \in Nat
  BY <1>1
<1>7. PICK left \in Seq(Thread!Entry) : left = SubSeq(entries, 1, m) /\ Len(left) = m /\ \A j \in 1..m : left[j] = entries[j]
  <2>1. /\ SubSeq(entries, 1, m) \in Seq(Thread!Entry) /\ Len(SubSeq(entries, 1, m)) = m
        /\ \A j \in 1..m : SubSeq(entries, 1, m)[j] = entries[j]
    BY <1>6, CutTyped
  <2> QED BY <2>1
<1> DEFINE turned == {0} \cup {j \in 1..Len(left) : left[j].turn # None}
<1>8. held = left \/ held = SubSeq(left, 1, Thread!Max(turned))
  BY <1>1, <1>5, <1>7 DEF Thread!RolledBack
<1>9. CASE held = left
  BY <1>1, <1>5, <1>7, <1>9
<1>10. CASE held = SubSeq(left, 1, Thread!Max(turned))
  <2>1. i \in turned /\ turned \subseteq 0..m /\ turned # {}
    <3>1. i \in 1..m
      BY <1>1, <1>5
    <3>2. left[i].turn # None /\ i \in 1..Len(left)
      BY <1>7, <3>1
    <3> QED BY <1>7, <3>2
  <2>2. PICK n : n = Thread!Max(turned)
    OBVIOUS
  <2>3. n \in 0..m /\ i <= n
    <3> HIDE DEF turned
    <3> QED BY <1>6, <2>1, <2>2, MaxUpTo
  <2>4. held = SubSeq(entries, 1, n)
    <3>1. SubSeq(SubSeq(entries, 1, m), 1, n) = SubSeq(entries, 1, n)
      BY <1>6, <2>3, CutOfCut
    <3> QED BY <1>7, <1>10, <2>2, <3>1
  <2>5. n \in i..Len(entries) /\ NoTurns(entries, i, n)
    BY <1>1, <1>5, <2>3 DEF NoTurns
  <2> QED BY <2>4, <2>5
<1> QED BY <1>8, <1>9, <1>10

EndedWith(entries, m) == [entries EXCEPT ![Len(entries)].items = Append(@, m)]

\* The model's reply is heard after everything else.
LEMMA HeardReply ==
  ASSUME NEW entries \in Seq(Thread!Entry), Len(entries) > 0, NEW m \in Thread!Message, NEW held,
         held = EndedWith(entries, m)
  PROVE  /\ held \in Seq(Thread!Entry) /\ Len(held) = Len(entries)
         /\ \A i \in 1..(Len(entries) - 1) : held[i] = entries[i]
         /\ held[Len(entries)].turn = entries[Len(entries)].turn
         /\ held[Len(entries)].items = Append(entries[Len(entries)].items, m)
         /\ Thread!Heard(held) = Thread!Heard(entries) \o <<m>>
<1>1. PICK n \in Nat : n = Len(entries) /\ n \in 1..Len(entries) /\ n - 1 \in Nat
  OBVIOUS
<1>2. entries[n] \in Thread!Entry /\ entries[n].items \in Seq(Thread!Message)
  BY <1>1, EntryTyped
<1>3. PICK items \in Seq(Thread!Message), more \in Seq(Thread!Message) : items = entries[n].items /\ more = Append(items, m)
  <2>1. Append(entries[n].items, m) \in Seq(Thread!Message)
    BY <1>2
  <2> QED BY <1>2, <2>1
<1>4. PICK final \in Thread!Entry : final = [entries[n] EXCEPT !.items = more] /\ final.turn = entries[n].turn /\ final.items = more
  <2>1. \A e \in Thread!Entry : /\ [e EXCEPT !.items = more] \in Thread!Entry
                              /\ [e EXCEPT !.items = more].turn = e.turn /\ [e EXCEPT !.items = more].items = more
    BY <1>3 DEF Thread!Entry
  <2> QED BY <1>2, <2>1
<1>5. held = [entries EXCEPT ![n] = final]
  BY <1>1, <1>3, <1>4 DEF EndedWith
<1>6. held \in Seq(Thread!Entry) /\ Len(held) = n /\ held[n] = final /\ \A i \in 1..(n - 1) : held[i] = entries[i]
  <2>1. entries \in Seq(Thread!Entry) /\ n \in 1..Len(entries) /\ final \in Thread!Entry
    BY <1>1
  <2>2. /\ [entries EXCEPT ![n] = final] \in Seq(Thread!Entry) /\ Len([entries EXCEPT ![n] = final]) = Len(entries)
        /\ [entries EXCEPT ![n] = final][n] = final
        /\ \A i \in 1..Len(entries) : i # n => [entries EXCEPT ![n] = final][i] = entries[i]
    BY <2>1
  <2>3. \A i \in 1..(n - 1) : i \in 1..Len(entries) /\ i # n
    BY <1>1
  <2> QED BY <1>1, <1>5, <2>2, <2>3
<1>7. PICK f : HeardSoFar(f, entries)
  BY HeardSteps
<1>8. PICK g : HeardSoFar(g, held)
  BY <1>6, HeardSteps
<1>9. f[n - 1] = g[n - 1] /\ f[n - 1] \in Seq(Thread!Message)
  <2>1. SubSeq(held, 1, n - 1) = SubSeq(entries, 1, n - 1)
    BY <1>1, <1>6, CutAlike
  <2>2. n - 1 \in 0..Len(entries) /\ n - 1 \in 0..Len(held)
    BY <1>1, <1>6
  <2> QED BY <1>7, <1>8, <2>1, <2>2 DEF HeardSoFar
<1>10. f[n] = f[n - 1] \o items /\ Thread!Heard(entries) = f[n]
  BY <1>1, <1>3, <1>7 DEF HeardSoFar
<1>11. g[n] = f[n - 1] \o more /\ Thread!Heard(held) = g[n]
  <2>1. n \in 1..Len(held) /\ n = Len(held)
    BY <1>1, <1>6
  <2>2. g[n] = g[n - 1] \o held[n].items /\ Thread!Heard(held) = g[n]
    BY <1>8, <2>1 DEF HeardSoFar
  <2> QED BY <1>4, <1>6, <1>9, <2>2
<1>12. more = items \o <<m>> /\ <<m>> \in Seq(Thread!Message)
  <2>1. Append(items, m) = items \o <<m>> /\ <<m>> \in Seq(Thread!Message)
    OBVIOUS
  <2> QED BY <1>3, <2>1
<1>13. f[n - 1] \o (items \o <<m>>) = (f[n - 1] \o items) \o <<m>>
  BY <1>9, <1>12, MessagesAssociate
<1>14. Thread!Heard(held) = Thread!Heard(entries) \o <<m>>
  BY <1>10, <1>11, <1>12, <1>13
<1> QED BY <1>1, <1>3, <1>4, <1>6, <1>14

\* A history is what it is taken up after, what is injected, and the input of the turn.
PendingAre(messages, p, h, items, input) ==
  /\ items \in Seq(Thread!Message) /\ input \in Seq(Thread!Message)
  /\ Len(items) = h /\ Len(messages) = p + h + Len(input)
  /\ \A i \in 1..h : items[i] = messages[p + i]
  /\ \A i \in 1..Len(input) : input[i] = messages[p + h + i] /\ input[i].kind \in Thread!CurrentTurnInput

LEMMA PendingParts ==
  ASSUME NEW messages \in Seq(Thread!Message), NEW position \in 0..Len(messages),
         NEW items, items = Thread!Historical(Thread!Pending(messages, position)),
         NEW input, input = Thread!TurnInput(Thread!Pending(messages, position))
  PROVE  \E h \in Nat : PendingAre(messages, position, h, items, input)
<1>1. PICK l \in Nat, n \in Nat : n = Len(messages) /\ l = n - position /\ position \in Nat
  OBVIOUS
<1>2. PICK rest \in Seq(Thread!Message) :
        /\ rest = Thread!Pending(messages, position) /\ Len(rest) = l
        /\ \A i \in 1..l : rest[i] = messages[position + i]
  <2>1. Thread!Pending(messages, position) \in Seq(Thread!Message)
    BY PendingTyped
  <2>2. \A i \in (position + 1) .. n : messages[i] \in Thread!Message
    BY <1>1
  <2>3. position + 1 \in Int /\ n \in Int
    BY <1>1
  <2>4. /\ Len(SubSeq(messages, position + 1, n)) = IF position + 1 <= n THEN n - (position + 1) + 1 ELSE 0
        /\ \A i \in 1 .. n - (position + 1) + 1 : SubSeq(messages, position + 1, n)[i] = messages[(position + 1) + i - 1]
    BY <2>2, <2>3, SubSeqProperties
  <2>5. Thread!Pending(messages, position) = SubSeq(messages, position + 1, n)
    BY <1>1 DEF Thread!Pending
  <2>6. Len(SubSeq(messages, position + 1, n)) = l /\ \A i \in 1..l : SubSeq(messages, position + 1, n)[i] = messages[position + i]
    BY <1>1, <2>4
  <2> QED BY <2>1, <2>5, <2>6
<1> DEFINE others == {0} \cup {i \in 1..l : rest[i].kind \notin Thread!CurrentTurnInput}
<1>3. PICK h \in 0..l : h = Thread!Max(others) /\ \A x \in others : x <= h
  <2>1. others \subseteq 0..l /\ others # {}
    BY <1>1
  <2> HIDE DEF others
  <2> QED BY <1>1, <2>1, MaxUpTo
<1>4. l - Thread!Trailing(rest, Thread!CurrentTurnInput) = h
  BY <1>1, <1>2, <1>3 DEF Thread!Trailing
<1>5. items = SubSeq(rest, 1, h) /\ input = SubSeq(rest, h + 1, l)
  BY <1>2, <1>4 DEF Thread!Historical, Thread!TurnInput
<1>6. items \in Seq(Thread!Message) /\ Len(items) = h /\ \A i \in 1..h : items[i] = messages[position + i]
  BY <1>1, <1>2, <1>5, CutTyped
<1>7. input \in Seq(Thread!Message) /\ Len(input) = l - h /\ \A i \in 1..(l - h) : input[i] = rest[h + i]
  <2>1. \A i \in (h + 1) .. l : rest[i] \in Thread!Message
    BY <1>2
  <2>2. h + 1 \in Int /\ l \in Int
    BY <1>1
  <2>3. /\ SubSeq(rest, h + 1, l) \in Seq(Thread!Message)
        /\ Len(SubSeq(rest, h + 1, l)) = IF h + 1 <= l THEN l - (h + 1) + 1 ELSE 0
        /\ \A i \in 1 .. l - (h + 1) + 1 : SubSeq(rest, h + 1, l)[i] = rest[(h + 1) + i - 1]
    BY <2>1, <2>2, SubSeqProperties
  <2>4. Len(SubSeq(rest, h + 1, l)) = l - h /\ \A i \in 1..(l - h) : SubSeq(rest, h + 1, l)[i] = rest[h + i]
    BY <1>1, <2>3
  <2> QED BY <1>5, <2>3, <2>4
<1>8. ASSUME NEW i \in 1..(l - h)
      PROVE  input[i] = messages[position + h + i] /\ input[i].kind \in Thread!CurrentTurnInput
  <2>1. PICK j \in 1..l : j = h + i
    BY <1>1
  <2>2. input[i] = rest[j] /\ rest[j] = messages[position + j] /\ position + j = position + h + i
    BY <1>1, <1>2, <1>7, <2>1
  <2>3. rest[j].kind \in Thread!CurrentTurnInput
    <3> SUFFICES ASSUME rest[j].kind \notin Thread!CurrentTurnInput PROVE FALSE
      OBVIOUS
    <3>1. j \in others
      OBVIOUS
    <3>2. j <= h
      BY <1>3, <3>1
    <3> QED BY <1>1, <2>1, <3>2
  <2> QED BY <2>2, <2>3
<1>9. Len(messages) = position + h + Len(input) /\ h \in Nat
  BY <1>1, <1>7
<1>10. \A i \in 1..Len(input) :
         input[i] = messages[position + h + i] /\ input[i].kind \in Thread!CurrentTurnInput
  BY <1>7, <1>8
<1>11. PendingAre(messages, position, h, items, input)
  BY <1>6, <1>7, <1>9, <1>10 DEF PendingAre
<1> QED BY <1>9, <1>11

\* What is injected: the messages between, and before them the call of the checkpoint if the first
\* of them is its result.
LEMMA InjectsBetween ==
  ASSUME NEW messages \in Seq(Thread!Message), NEW position \in 0..Len(messages),
         ToolsFollow(messages), Distinct(messages),
         NEW items, items = Thread!Historical(Thread!Pending(messages, position))
  PROVE  \E again \in Seq(Thread!Message) :
           /\ Thread!InjectItems(messages, position) = again \o items
           /\ again = <<>> \/ (position # 0 /\ again = <<messages[position]>>)
           /\ ToolsFollow(again \o items)
<1> DEFINE input == Thread!TurnInput(Thread!Pending(messages, position))
<1>1. PICK h \in Nat :
        /\ items \in Seq(Thread!Message) /\ Len(items) = h /\ position + h <= Len(messages)
        /\ \A i \in 1..h : items[i] = messages[position + i]
  <2>1. PICK h \in Nat : PendingAre(messages, position, h, items, input)
    <3>1. input = Thread!TurnInput(Thread!Pending(messages, position))
      OBVIOUS
    <3> HIDE DEF input
    <3> QED BY <3>1, PendingParts
  <2> HIDE DEF input
  <2>2. /\ items \in Seq(Thread!Message) /\ input \in Seq(Thread!Message) /\ Len(items) = h
        /\ Len(messages) = position + h + Len(input) /\ \A i \in 1..h : items[i] = messages[position + i]
    BY <2>1 DEF PendingAre
  <2>3. position + h <= Len(messages)
    BY <2>2
  <2> QED BY <2>2, <2>3
<1> HIDE DEF input
<1>2. PICK checkpoint : checkpoint = IF position = 0 THEN None ELSE messages[position]
  OBVIOUS
<1>3. position # 0 => checkpoint = messages[position] /\ position \in 1..Len(messages) /\ messages[position] \in Thread!Message
  BY <1>2
\* A result of the checkpoint's call comes right after it.
<1>4. ASSUME NEW i \in 1..h, i > 1 PROVE Thread!WithCall(items[i], checkpoint) = <<items[i]>>
  <2> SUFFICES ASSUME items[i].kind = "tool", checkpoint # None, checkpoint.kind = "call", items[i].of = checkpoint.by PROVE FALSE
    BY DEF Thread!WithCall, Thread!ToolResult
  <2>1. position # 0
    BY <1>2
  <2>2. position + i \in 1..Len(messages) /\ position + i - 1 \in 1..Len(messages)
    BY <1>1, <1>4
  <2>3. messages[position + i].kind = "tool"
    BY <1>1
  <2>4. messages[position + i - 1].kind = "call" /\ messages[position + i - 1].by = messages[position + i].of
    BY <2>2, <2>3 DEF ToolsFollow
  <2>5. Same(messages[position + i - 1], messages[position])
    BY <1>1, <1>3, <2>1, <2>4 DEF Same
  <2>6. position + i - 1 = position
    BY <1>3, <2>1, <2>2, <2>5 DEF Distinct
  <2> QED BY <1>4, <2>6
\* It is injected with the call.
<1>5. PICK again \in Seq(Thread!Message) :
        /\ again = <<>> \/ (position # 0 /\ again = <<messages[position]>>)
        /\ h > 0 => Thread!WithCall(items[1], checkpoint) = again \o <<items[1]>>
        /\ h > 0 /\ items[1].kind = "tool" => Len(again) = 1 /\ again[1].kind = "call" /\ again[1].by = items[1].of
        /\ again # <<>> => again[1].kind # "tool" /\ Len(again) = 1
        /\ h = 0 => again = <<>>
  <2>1. CASE h > 0 /\ items[1].kind = "tool"
    <3>1. position + 1 \in 1..Len(messages) /\ items[1] = messages[position + 1]
      BY <1>1, <2>1
    <3>2. position + 1 > 1 /\ messages[position].kind = "call" /\ messages[position].by = messages[position + 1].of
      BY <2>1, <3>1 DEF ToolsFollow
    <3>3. position # 0 /\ checkpoint \in Thread!Message /\ checkpoint = messages[position]
      BY <1>3, <3>2
    <3>4. checkpoint # None
      BY <3>3, ThreadAssumption DEF Thread!Message
    <3>5. Thread!WithCall(items[1], checkpoint) = <<checkpoint, items[1]>>
      BY <2>1, <3>1, <3>2, <3>3, <3>4 DEF Thread!WithCall, Thread!ToolResult
    <3>6. items[1] \in Thread!Message
      BY <1>1, <2>1
    <3>7. /\ <<checkpoint>> \in Seq(Thread!Message) /\ <<checkpoint, items[1]>> = <<checkpoint>> \o <<items[1]>>
          /\ Len(<<checkpoint>>) = 1 /\ <<checkpoint>>[1] = checkpoint
      BY <3>3, <3>6
    <3> DEFINE again == <<checkpoint>>
    <3>8. again \in Seq(Thread!Message) /\ again = <<messages[position]>> /\ again # <<>>
      BY <3>3, <3>7
    <3>9. Thread!WithCall(items[1], checkpoint) = again \o <<items[1]>>
      BY <3>5, <3>7
    <3>10. Len(again) = 1 /\ again[1].kind = "call" /\ again[1].by = items[1].of
      BY <3>1, <3>2, <3>3, <3>7
    <3> HIDE DEF again
    <3> QED BY <2>1, <3>3, <3>8, <3>9, <3>10
  <2>2. CASE ~(h > 0 /\ items[1].kind = "tool")
    <3>1. <<>> \in Seq(Thread!Message)
      OBVIOUS
    <3>2. h > 0 => Thread!WithCall(items[1], checkpoint) = <<items[1]>> /\ items[1] \in Thread!Message
      BY <1>1, <2>2 DEF Thread!WithCall, Thread!ToolResult
    <3>3. h > 0 => <<items[1]>> = <<>> \o <<items[1]>>
      BY <3>2
    <3> QED BY <2>2, <3>1, <3>2, <3>3
  <2> QED BY <2>1, <2>2
<1> DEFINE seqs == [i \in 1..Len(items) |-> Thread!WithCall(items[i], checkpoint)]
<1>6. seqs \in Seq(Seq(Thread!Message)) /\ Len(seqs) = h /\ \A i \in 1..h : seqs[i] = Thread!WithCall(items[i], checkpoint)
  <2>1. \A i \in 1..h : Thread!WithCall(items[i], checkpoint) \in Seq(Thread!Message)
    <3> TAKE i \in 1..h
    <3>1. items[i] \in Thread!Message
      BY <1>1
    <3>2. <<items[i]>> \in Seq(Thread!Message)
      BY <3>1
    <3>3. again \o <<items[i]>> \in Seq(Thread!Message)
      BY <3>2
    <3> QED BY <1>4, <1>5, <3>2, <3>3
  <2> QED BY <1>1, <2>1
<1>7. Thread!InjectItems(messages, position) = Thread!Joined(seqs)
  BY <1>2 DEF Thread!InjectItems
<1>8. PICK f : /\ Joins(f, seqs, h) /\ Thread!Joined(seqs) = f[h]
  <2> HIDE DEF seqs
  <2> QED BY <1>6, JoinedSteps
<1>9. f[0] = <<>> /\ \A i \in 1..h : f[i] = f[i-1] \o Thread!WithCall(items[i], checkpoint)
  <2> HIDE DEF seqs
  <2> QED BY <1>6, <1>8 DEF Joins
<1> HIDE DEF seqs
<1> DEFINE done == {i \in 0..h : i > 0 => f[i] = again \o SubSeq(items, 1, i)}
<1>10. 0 \in done
  OBVIOUS
<1>11. ASSUME NEW i \in 1..h, i-1 \in done PROVE i \in done
  <2>1. items[i] \in Thread!Message /\ i \in 0..Len(items) /\ i - 1 \in 0..Len(items)
    BY <1>1
  <2>2. PICK before \in Seq(Thread!Message) :
          before = SubSeq(items, 1, i - 1) /\ Len(before) = i - 1 /\ \A j \in 1..(i - 1) : before[j] = items[j]
    <3>1. /\ SubSeq(items, 1, i - 1) \in Seq(Thread!Message) /\ Len(SubSeq(items, 1, i - 1)) = i - 1
          /\ \A j \in 1..(i - 1) : SubSeq(items, 1, i - 1)[j] = items[j]
      BY <1>1, <2>1, CutTyped
    <3> QED BY <3>1
  <2>3. SubSeq(items, 1, i) = before \o <<items[i]>>
    <3>1. PICK x \in Seq(Thread!Message) : x = SubSeq(items, 1, i) /\ Len(x) = i /\ \A j \in 1..i : x[j] = items[j]
      <4>1. /\ SubSeq(items, 1, i) \in Seq(Thread!Message) /\ Len(SubSeq(items, 1, i)) = i
            /\ \A j \in 1..i : SubSeq(items, 1, i)[j] = items[j]
        BY <1>1, <2>1, CutTyped
      <4> QED BY <4>1
    <3>2. Len(before) = i - 1 /\ \A j \in 1..(i - 1) : before[j] = items[j]
      BY <2>2
    <3>3. PICK y \in Seq(Thread!Message) : y = before \o <<items[i]>> /\ Len(y) = i /\ \A j \in 1..i : y[j] = items[j]
      <4>1. before \o <<items[i]>> \in Seq(Thread!Message)
        BY <2>1
      <4>2. Len(before \o <<items[i]>>) = i /\ \A j \in 1..i : (before \o <<items[i]>>)[j] = items[j]
        BY <2>1, <3>2
      <4> QED BY <4>1, <4>2
    <3>4. Len(x) = Len(y) /\ \A j \in 1..Len(x) : x[j] = y[j]
      BY <3>1, <3>3
    <3>5. x = y
      BY <3>4, SeqEqual
    <3> QED BY <3>1, <3>3, <3>5
  <2>4. CASE i = 1
    <3>1. before = <<>> /\ f[i-1] = <<>> /\ f[i] = f[i-1] \o Thread!WithCall(items[1], checkpoint)
      <4>1. i - 1 = 0
        BY <2>4
      <4>2. Len(before) = 0
        BY <2>2, <4>1
      <4>3. f[i] = f[i-1] \o Thread!WithCall(items[i], checkpoint)
        BY <1>9
      <4> QED BY <1>9, <2>4, <4>1, <4>2, <4>3
    <3>2. Thread!WithCall(items[1], checkpoint) = again \o <<items[1]>>
      BY <1>5, <2>4
    <3>3. again \o <<items[1]>> \in Seq(Thread!Message) /\ SubSeq(items, 1, i) = <<items[1]>>
      BY <2>1, <2>3, <2>4, <3>1
    <3>4. f[i] = again \o <<items[1]>>
      BY <3>1, <3>2, <3>3
    <3>5. f[i] = again \o SubSeq(items, 1, i)
      BY <3>3, <3>4
    <3> QED BY <3>5
  <2>5. CASE i # 1
    <3>1. f[i-1] = again \o before /\ f[i] = f[i-1] \o <<items[i]>>
      <4>1. i > 1 /\ i - 1 > 0
        BY <2>5
      <4>2. f[i-1] = again \o SubSeq(items, 1, i - 1)
        BY <1>11, <4>1
      <4>3. f[i] = f[i-1] \o Thread!WithCall(items[i], checkpoint)
        BY <1>9
      <4> QED BY <1>4, <2>2, <4>1, <4>2, <4>3
    <3>2. <<items[i]>> \in Seq(Thread!Message)
      BY <2>1
    <3>3. (again \o before) \o <<items[i]>> = again \o (before \o <<items[i]>>)
      BY <3>2, MessagesAssociate
    <3>4. f[i] = again \o SubSeq(items, 1, i)
      BY <2>3, <3>1, <3>3
    <3> QED BY <3>4
  <2> QED BY <2>4, <2>5
<1>12. f[h] = again \o items
  <2>1. \A i \in 1..h : i-1 \in done => i \in done
    BY <1>11
  <2>2. h \in done
    <3> HIDE DEF done
    <3>1. 0..h \subseteq done
      BY <1>10, <2>1, UpTo
    <3> QED BY <3>1
  <2>3. SubSeq(items, 1, h) = items
    BY <1>1, CutWhole
  <2>4. CASE h = 0
    <3>1. items = <<>> /\ again = <<>>
      BY <1>1, <1>5, <2>4
    <3> QED BY <1>9, <2>4, <3>1
  <2>5. CASE h # 0
    BY <2>2, <2>3, <2>5
  <2> QED BY <2>4, <2>5
<1>13. ToolsFollow(again \o items)
  <2>1. PICK all \in Seq(Thread!Message) : all = again \o items
    BY <1>1, MessagesAssociate
  <2>2. /\ Len(all) = Len(again) + h /\ Len(again) \in Nat
        /\ \A i \in 1..Len(again) : all[i] = again[i]
        /\ \A i \in 1..h : all[Len(again) + i] = items[i]
    BY <1>1, <2>1, BothSaid
  <2> SUFFICES ASSUME NEW i \in 1..Len(all), all[i].kind = "tool"
               PROVE  i > 1 /\ all[i - 1].kind = "call" /\ all[i - 1].by = all[i].of
    BY <2>1 DEF ToolsFollow
  <2>3. i > Len(again)
    <3> SUFFICES ASSUME i <= Len(again) PROVE FALSE
      BY <2>2
    <3>1. again # <<>> /\ i = 1 /\ all[i] = again[1]
      BY <1>5, <2>2
    <3> QED BY <1>5, <3>1
  <2>4. PICK j \in 1..h : i = Len(again) + j
    <3>1. i - Len(again) \in 1..h /\ i = Len(again) + (i - Len(again))
      BY <2>2, <2>3
    <3> QED BY <3>1
  <2>5. items[j].kind = "tool" /\ all[i] = items[j]
    BY <2>2, <2>4
  <2>6. CASE j = 1
    <3>1. Len(again) = 1 /\ again[1].kind = "call" /\ again[1].by = items[1].of
      BY <1>5, <2>5, <2>6
    <3>2. i = 2 /\ all[1] = again[1]
      BY <2>2, <2>4, <2>6, <3>1
    <3> QED BY <2>5, <2>6, <3>1, <3>2
  <2>7. CASE j # 1
    <3>1. j - 1 \in 1..h /\ position + j \in 1..Len(messages) /\ i - 1 = Len(again) + (j - 1) /\ i > 1
          /\ position + (j - 1) = position + j - 1
      BY <1>1, <2>2, <2>4, <2>7
    <3>2. items[j] = messages[position + j] /\ items[j - 1] = messages[position + j - 1] /\ all[i - 1] = items[j - 1]
      BY <1>1, <2>2, <3>1
    <3>3. messages[position + j - 1].kind = "call" /\ messages[position + j - 1].by = messages[position + j].of
      BY <2>5, <3>1, <3>2 DEF ToolsFollow
    <3> QED BY <2>5, <3>1, <3>2, <3>3
  <2> QED BY <2>6, <2>7
<1> QED BY <1>5, <1>7, <1>8, <1>12, <1>13

-----------------------------------------------------------------------------
(* DSH's histories *)

\* A message that says something else is told after the others.
LEMMA ToldMore ==
  ASSUME NEW ms \in Seq(Thread!Message), WellTold(ms), NEW m \in Thread!Message,
         \A i \in 1..Len(ms) : ~Same(ms[i], m),
         m.kind = "tool" => Len(ms) > 0 /\ ms[Len(ms)].kind = "call" /\ ms[Len(ms)].by = m.of
  PROVE  /\ WellTold(Append(ms, m)) /\ Append(ms, m) \in Seq(Thread!Message) /\ Len(Append(ms, m)) = Len(ms) + 1
         /\ Append(ms, m)[Len(ms) + 1] = m /\ \A i \in 1..Len(ms) : Append(ms, m)[i] = ms[i]
<1>1. PICK n \in Nat : n = Len(ms)
  OBVIOUS
<1>2. /\ Append(ms, m) \in Seq(Thread!Message) /\ Len(Append(ms, m)) = n + 1
      /\ Append(ms, m)[n + 1] = m /\ \A i \in 1..n : Append(ms, m)[i] = ms[i]
  BY <1>1
<1>3. PICK more \in Seq(Thread!Message) : more = Append(ms, m) /\ Len(more) = n + 1 /\ more[n + 1] = m /\ \A i \in 1..n : more[i] = ms[i]
  BY <1>2
<1>4. Distinct(more)
  <2> SUFFICES ASSUME NEW i \in 1..(n + 1), NEW j \in 1..(n + 1), Same(more[i], more[j]) PROVE i = j
    BY <1>3 DEF Distinct
  <2>1. CASE i \in 1..n /\ j \in 1..n
    <3>1. Same(ms[i], ms[j])
      BY <1>3, <2>1
    <3> QED BY <1>1, <2>1, <3>1 DEF WellTold, Distinct
  <2>2. CASE i \in 1..n /\ j = n + 1
    BY <1>1, <1>3, <2>2
  <2>3. CASE i = n + 1 /\ j \in 1..n
    <3>1. Same(m, ms[j])
      BY <1>3, <2>3
    <3>2. Same(ms[j], m)
      BY <3>1 DEF Same
    <3> QED BY <1>1, <2>3, <3>2
  <2> QED BY <1>1, <2>1, <2>2, <2>3
<1>5. ToolsFollow(more)
  <2> SUFFICES ASSUME NEW i \in 1..(n + 1), more[i].kind = "tool"
               PROVE  i > 1 /\ more[i - 1].kind = "call" /\ more[i - 1].by = more[i].of
    BY <1>3 DEF ToolsFollow
  <2>1. CASE i \in 1..n
    <3>1. i > 1 /\ ms[i - 1].kind = "call" /\ ms[i - 1].by = ms[i].of
      BY <1>1, <1>3, <2>1 DEF WellTold, ToolsFollow
    <3>2. i - 1 \in 1..n
      BY <2>1, <3>1
    <3> QED BY <1>3, <2>1, <3>1, <3>2
  <2>2. CASE i = n + 1
    <3>1. n > 0 /\ ms[n].kind = "call" /\ ms[n].by = m.of
      BY <1>1, <1>3, <2>2
    <3>2. n \in 1..n /\ i - 1 = n
      BY <2>2, <3>1
    <3> QED BY <1>3, <2>2, <3>1, <3>2
  <2> QED BY <1>1, <2>1, <2>2
<1> QED BY <1>1, <1>2, <1>3, <1>4, <1>5 DEF WellTold

\* A history that is cut is still in order.
LEMMA ToldCut ==
  ASSUME NEW ms \in Seq(Thread!Message), WellTold(ms), NEW n \in 0..Len(ms)
  PROVE  WellTold(SubSeq(ms, 1, n))
<1>1. PICK cut \in Seq(Thread!Message) : cut = SubSeq(ms, 1, n) /\ Len(cut) = n /\ \A i \in 1..n : cut[i] = ms[i]
  <2>1. /\ SubSeq(ms, 1, n) \in Seq(Thread!Message) /\ Len(SubSeq(ms, 1, n)) = n
        /\ \A i \in 1..n : SubSeq(ms, 1, n)[i] = ms[i]
    BY CutTyped
  <2> QED BY <2>1
<1>2. Distinct(cut)
  BY <1>1 DEF WellTold, Distinct
<1>3. ToolsFollow(cut)
  <2> SUFFICES ASSUME NEW i \in 1..n, cut[i].kind = "tool"
               PROVE  i > 1 /\ cut[i - 1].kind = "call" /\ cut[i - 1].by = cut[i].of
    BY <1>1 DEF ToolsFollow
  <2>1. i > 1 /\ ms[i - 1].kind = "call" /\ ms[i - 1].by = ms[i].of
    BY <1>1 DEF WellTold, ToolsFollow
  <2>2. i - 1 \in 1..n
    BY <2>1
  <2> QED BY <1>1, <2>1, <2>2
<1> QED BY <1>1, <1>2, <1>3 DEF WellTold

\* A message that was edited says the same of the same step.
LEMMA ToldEdited ==
  ASSUME NEW ms \in Seq(Thread!Message), WellTold(ms), NEW n \in 1..Len(ms)
  PROVE  WellTold([ms EXCEPT ![n].edited = TRUE])
<1>1. ms[n] \in Thread!Message
  OBVIOUS
<1>2. PICK m \in Thread!Message : m = [ms[n] EXCEPT !.edited = TRUE] /\ m.kind = ms[n].kind /\ m.by = ms[n].by /\ m.of = ms[n].of
  <2>1. \A x \in Thread!Message : /\ [x EXCEPT !.edited = TRUE] \in Thread!Message
                                  /\ [x EXCEPT !.edited = TRUE].kind = x.kind
                                  /\ [x EXCEPT !.edited = TRUE].by = x.by /\ [x EXCEPT !.edited = TRUE].of = x.of
    BY DEF Thread!Message
  <2> QED BY <1>1, <2>1
<1>3. PICK held \in Seq(Thread!Message) : held = [ms EXCEPT ![n] = m]
  <2>1. [ms EXCEPT ![n] = m] \in Seq(Thread!Message)
    OBVIOUS
  <2> QED BY <2>1
<1>4. /\ held = [ms EXCEPT ![n].edited = TRUE] /\ Len(held) = Len(ms)
      /\ \A i \in 1..Len(ms) : held[i].kind = ms[i].kind /\ held[i].by = ms[i].by /\ held[i].of = ms[i].of
  BY <1>2, <1>3
<1>5. \A i, j \in 1..Len(ms) : Same(held[i], held[j]) => Same(ms[i], ms[j])
  BY <1>4 DEF Same, Thread!IsReply
<1>6. Distinct(held)
  BY <1>4, <1>5 DEF WellTold, Distinct
<1>7. ToolsFollow(held)
  <2> SUFFICES ASSUME NEW i \in 1..Len(ms), held[i].kind = "tool"
               PROVE  i > 1 /\ held[i - 1].kind = "call" /\ held[i - 1].by = held[i].of
    BY <1>4 DEF ToolsFollow
  <2>1. i > 1 /\ ms[i - 1].kind = "call" /\ ms[i - 1].by = ms[i].of
    BY <1>4 DEF WellTold, ToolsFollow
  <2>2. i - 1 \in 1..Len(ms)
    BY <2>1
  <2> QED BY <1>4, <2>1, <2>2
<1> QED BY <1>4, <1>6, <1>7 DEF WellTold

LEMMA ToldOne ==
  ASSUME NEW m \in Thread!Message, m.kind # "tool"
  PROVE  /\ WellTold(<<m>>) /\ <<m>> \in Seq(Thread!Message) /\ Len(<<m>>) = 1 /\ <<m>>[1] = m
         /\ WellTold(<<>>) /\ <<>> \in Seq(Thread!Message) /\ Len(<<>>) = 0
<1>1. /\ <<m>> \in Seq(Thread!Message) /\ Len(<<m>>) = 1 /\ <<m>>[1] = m
      /\ <<>> \in Seq(Thread!Message) /\ Len(<<>>) = 0
  OBVIOUS
<1>2. PICK one \in Seq(Thread!Message) : one = <<m>> /\ Len(one) = 1 /\ one[1] = m
  BY <1>1
<1>3. Distinct(one) /\ ToolsFollow(one)
  BY <1>2 DEF Distinct, ToolsFollow
<1>4. Distinct(<<>>) /\ ToolsFollow(<<>>)
  BY <1>1 DEF Distinct, ToolsFollow
<1> QED BY <1>1, <1>2, <1>3, <1>4 DEF WellTold

\* What is told of a step stays so.
Grows ==
  \A j \in Thread!Step :
    /\ call[j].pc # "idle" => call'[j].pc # "idle"
    /\ replay[j] # None => replay'[j] = replay[j] /\ rollout'[j] = rollout[j]
    /\ call[j].pc \in {"closing", "done"} => call'[j].pc \in {"closing", "done"} /\ replay'[j] = replay[j]

\* What was said stays said, whatever the other steps do.
LEMMA SpokenStays ==
  ASSUME Grows, NEW m \in Thread!Message, Spoken(m)
  PROVE  Spoken(m)'
<1>1. m.by \in Thread!Step
  BY MessageTyped
<1>2. replay[m.by] # None => ReplyOf(m.by)' = ReplyOf(m.by)
  BY <1>1 DEF Grows, ReplyOf
<1> QED BY <1>1, <1>2 DEF Grows, Spoken

LEMMA HistoryStays ==
  ASSUME Grows, NEW ms \in Seq(Thread!Message), HistoryOK(ms)
  PROVE  HistoryOK(ms)'
<1>1. \A i \in 1..Len(ms) : ms[i] \in Thread!Message
  OBVIOUS
<1> QED BY <1>1, SpokenStays DEF HistoryOK

LEMMA HistoriesKept ==
  ASSUME ThreadInv, Histories, Grows,
         \A s \in Session : history'[s] \in {history[i] : i \in Session} \/ HistoryOK(history[s])',
         \A s \in Session : rewritten'[s] = rewritten[s] \/ rewritten'[s] = history[s],
         \A k \in Thread!Step : call'[k].messages = call[k].messages \/ HistoryOK(call[k].messages)'
  PROVE  Histories'
<1>1. ASSUME NEW s \in Session PROVE HistoryOK(history[s])'
  <2>1. CASE \E i \in Session : history'[s] = history[i]
    <3>1. PICK ms \in Seq(Thread!Message) : ms = history'[s] /\ HistoryOK(ms)
      BY <2>1 DEF ThreadInv, Thread!TypeOK, Histories
    <3>2. HistoryOK(ms)'
      BY <3>1, HistoryStays
    <3> QED BY <3>1, <3>2 DEF HistoryOK
  <2> QED BY <2>1
<1>2. ASSUME NEW s \in Session PROVE HistoryOK(rewritten[s])'
  <2>1. PICK ms \in Seq(Thread!Message) : ms = rewritten'[s] /\ HistoryOK(ms)
    BY DEF ThreadInv, Thread!TypeOK, Histories
  <2>2. HistoryOK(ms)'
    BY <2>1, HistoryStays
  <2> QED BY <2>1, <2>2 DEF HistoryOK
<1>3. ASSUME NEW k \in Thread!Step PROVE HistoryOK(call[k].messages)'
  <2>1. CASE call'[k].messages = call[k].messages
    <3>1. PICK ms \in Seq(Thread!Message) : ms = call'[k].messages /\ HistoryOK(ms)
      BY <2>1, StepTyped DEF ThreadInv, Histories
    <3>2. HistoryOK(ms)'
      BY <3>1, HistoryStays
    <3> QED BY <3>1, <3>2 DEF HistoryOK
  <2> QED BY <2>1
<1> QED BY <1>1, <1>2, <1>3 DEF Histories

\* A message that a step is asked with for the first time.
IsNew(m, k) == m.by = k /\ m.kind \in {"user", "tool", "summary", "foreign"}

\* What a session may be rewritten to is in order, and says nothing new but a summary.
LEMMA RewrittenTold ==
  ASSUME ThreadInv, Histories, NEW s \in Session, NEW k \in Thread!Step,
         NEW before \in Thread!Rewritten(s, k)
  PROVE  /\ before \in Seq(Thread!Message) /\ WellTold(before)
         /\ \A i \in 1..Len(before) : Spoken(before[i]) \/ before[i] = Thread!New("summary", k)
<1>1. before \in Seq(Thread!Message)
  BY RewrittenTyped DEF ThreadInv
<1>2. PICK held \in Seq(Thread!Message) : held = history[s] /\ WellTold(held) /\ \A i \in 1..Len(held) : Spoken(held[i])
  BY DEF ThreadInv, Thread!TypeOK, Histories, HistoryOK
<1>3. CASE before = rewritten[s]
  BY <1>1, <1>3 DEF Histories, HistoryOK
<1>4. ASSUME NEW n \in {0, Len(held)} \cup {i \in 1..Len(held) : Thread!IsReply(held[i])},
             before = SubSeq(held, 1, n)
      PROVE  WellTold(before) /\ \A i \in 1..Len(before) : Spoken(before[i])
  <2>1. n \in 0..Len(held)
    BY <1>4
  <2>2. Len(SubSeq(held, 1, n)) = n /\ \A i \in 1..n : SubSeq(held, 1, n)[i] = held[i] /\ i \in 1..Len(held)
    BY <2>1, CutTyped
  <2> QED BY <1>2, <1>4, <2>1, <2>2, ToldCut
<1>5. CASE before = <<Thread!New("summary", k)>>
  <2>1. PICK m \in Thread!Message : m = Thread!New("summary", k) /\ m.kind # "tool"
    BY NewTyped DEF Thread!Kind, Thread!New
  <2>2. WellTold(<<m>>) /\ Len(<<m>>) = 1 /\ <<m>>[1] = m
    BY <2>1, ToldOne
  <2> QED BY <1>5, <2>1, <2>2
<1>6. ASSUME NEW n \in {j \in 1..Len(held) : held[j].kind \in {"tool", "call"}},
             before = [held EXCEPT ![n].edited = TRUE]
      PROVE  WellTold(before) /\ \A i \in 1..Len(before) : Spoken(before[i])
  <2>1. n \in 1..Len(held) /\ held[n] \in Thread!Message /\ held[n].kind \in {"tool", "call"} /\ Spoken(held[n])
    BY <1>2, <1>6
  <2>2. WellTold(before)
    BY <1>2, <1>6, <2>1, ToldEdited
  <2>3. PICK m \in Thread!Message : m = [held[n] EXCEPT !.edited = TRUE] /\ m.kind = held[n].kind /\ m.by = held[n].by /\ m.edited
    <3>1. \A x \in Thread!Message : /\ [x EXCEPT !.edited = TRUE] \in Thread!Message
                                    /\ [x EXCEPT !.edited = TRUE].kind = x.kind
                                    /\ [x EXCEPT !.edited = TRUE].by = x.by /\ [x EXCEPT !.edited = TRUE].edited
      BY DEF Thread!Message
    <3> QED BY <2>1, <3>1
  <2>4. Spoken(m)
    BY <2>1, <2>3 DEF Spoken, Thread!IsReply
  <2>5. before = [held EXCEPT ![n] = m]
    BY <1>6, <2>3
  <2>6. Len(before) = Len(held) /\ before[n] = m /\ \A i \in 1..Len(held) : i # n => before[i] = held[i]
    BY <2>1, <2>5
  <2> QED BY <1>2, <2>2, <2>4, <2>6
<1>7. \/ before \in {SubSeq(held, 1, n) : n \in {0, Len(held)} \cup {i \in 1..Len(held) : Thread!IsReply(held[i])}}
      \/ before = rewritten[s] \/ before = <<Thread!New("summary", k)>>
      \/ before \in {[held EXCEPT ![n].edited = TRUE] : n \in {j \in 1..Len(held) : held[j].kind \in {"tool", "call"}}}
  BY <1>2 DEF Thread!Rewritten
<1> QED BY <1>1, <1>3, <1>4, <1>5, <1>6, <1>7

\* A step is asked with a history that was told, and what is new in it.
LEMMA ContinuedTold ==
  ASSUME NEW k \in Thread!Step, NEW before \in Seq(Thread!Message), WellTold(before),
         \A i \in 1..Len(before) : before[i].by # k \/ before[i] = Thread!New("summary", k),
         NEW messages \in Thread!Continued(before, k)
  PROVE  /\ WellTold(messages)
         /\ \A i \in 1..Len(messages) : (\E j \in 1..Len(before) : messages[i] = before[j]) \/ IsNew(messages[i], k)
<1>1. /\ Thread!New("user", k) \in Thread!Message /\ Thread!New("foreign", k) \in Thread!Message
      /\ Thread!New("tool", k) \in Thread!Message
  BY NewTyped DEF Thread!Kind
<1>2. PICK user \in Thread!Message, foreign \in Thread!Message :
        /\ user = Thread!New("user", k) /\ foreign = Thread!New("foreign", k)
        /\ user.kind = "user" /\ user.by = k /\ foreign.kind = "foreign" /\ foreign.by = k
  BY <1>1 DEF Thread!New
<1>3. IsNew(user, k) /\ IsNew(foreign, k)
  BY <1>2 DEF IsNew
\* What is new is not the same as anything that was told.
<1>4. ASSUME NEW m \in Thread!Message, m.by = k, m.kind \in {"user", "tool", "foreign"}
      PROVE  \A i \in 1..Len(before) : ~Same(before[i], m)
  BY <1>4 DEF Same, Thread!IsReply, Thread!New
<1>5. WellTold(Append(before, user)) /\ Len(Append(before, user)) = Len(before) + 1 /\ Append(before, user)[Len(before) + 1] = user
      /\ \A i \in 1..Len(before) : Append(before, user)[i] = before[i]
  BY <1>2, <1>4, ToldMore
<1>6. ASSUME messages = Append(before, user)
      PROVE  \A i \in 1..Len(messages) : (\E j \in 1..Len(before) : messages[i] = before[j]) \/ IsNew(messages[i], k)
  <2>1. \A i \in 1..(Len(before) + 1) : i \in 1..Len(before) \/ i = Len(before) + 1
    OBVIOUS
  <2> QED BY <1>3, <1>5, <1>6, <2>1
\* Two new messages.
<1>7. ASSUME NEW m \in Thread!Message, m.by = k, m.kind \in {"tool", "foreign"},
             m.kind = "tool" => Len(before) > 0 /\ before[Len(before)].kind = "call" /\ before[Len(before)].by = m.of
      PROVE  \A longer \in {Append(before, m), before \o <<m, user>>} :
               /\ WellTold(longer)
               /\ \A i \in 1..Len(longer) : (\E j \in 1..Len(before) : longer[i] = before[j]) \/ IsNew(longer[i], k)
  <2>1. PICK n \in Nat : n = Len(before)
    OBVIOUS
  <2>2. /\ WellTold(Append(before, m)) /\ Append(before, m) \in Seq(Thread!Message) /\ Len(Append(before, m)) = n + 1
        /\ Append(before, m)[n + 1] = m /\ \A i \in 1..n : Append(before, m)[i] = before[i]
    BY <1>4, <1>7, <2>1, ToldMore
  <2>3. PICK one \in Seq(Thread!Message) :
          one = Append(before, m) /\ WellTold(one) /\ Len(one) = n + 1 /\ one[n + 1] = m /\ \A i \in 1..n : one[i] = before[i]
    BY <2>2
  <2>4. \A i \in 1..Len(one) : ~Same(one[i], user)
    <3>1. \A i \in 1..n : ~Same(before[i], user)
      BY <1>2, <1>4, <2>1
    <3>2. ~Same(m, user)
      BY <1>2, <1>7 DEF Same, Thread!IsReply
    <3>3. \A i \in 1..(n + 1) : i \in 1..n \/ i = n + 1
      BY <2>1
    <3> QED BY <2>3, <3>1, <3>2, <3>3
  <2>5. /\ WellTold(Append(one, user)) /\ Len(Append(one, user)) = n + 2
        /\ Append(one, user)[n + 2] = user /\ \A i \in 1..(n + 1) : Append(one, user)[i] = one[i]
    <3>1. /\ WellTold(Append(one, user)) /\ Len(Append(one, user)) = Len(one) + 1 /\ Append(one, user)[Len(one) + 1] = user
          /\ \A i \in 1..Len(one) : Append(one, user)[i] = one[i]
      BY <1>2, <2>3, <2>4, ToldMore
    <3>2. Len(one) + 1 = n + 2
      BY <2>3
    <3> QED BY <2>3, <3>1, <3>2
  <2>6. before \o <<m, user>> = Append(one, user)
    BY <1>2, <2>3
  <2>7. IsNew(m, k)
    BY <1>7 DEF IsNew
  <2>8. \A i \in 1..Len(one) : (\E j \in 1..Len(before) : one[i] = before[j]) \/ IsNew(one[i], k)
    <3>1. \A i \in 1..(n + 1) : i \in 1..n \/ i = n + 1
      BY <2>1
    <3> QED BY <2>1, <2>3, <2>7, <3>1
  <2>9. \A i \in 1..(n + 2) : (\E j \in 1..Len(before) : Append(one, user)[i] = before[j]) \/ IsNew(Append(one, user)[i], k)
    <3>1. \A i \in 1..(n + 2) : i \in 1..(n + 1) \/ i = n + 2
      BY <2>1
    <3> QED BY <1>3, <2>3, <2>5, <2>8, <3>1
  <2> QED BY <2>2, <2>3, <2>5, <2>6, <2>8, <2>9
<1>8. CASE before = <<>>
  <2>1. messages = <<user>>
    BY <1>2, <1>8 DEF Thread!Continued
  <2>2. WellTold(<<user>>) /\ Len(<<user>>) = 1 /\ <<user>>[1] = user
    BY <1>2, ToldOne
  <2> QED BY <1>3, <2>1, <2>2
<1>9. CASE before # <<>> /\ Thread!CallOf(before)
  <2>1. Len(before) \in 1..Len(before) /\ before[Len(before)] \in Thread!Message
    BY <1>9
  <2>2. before[Len(before)].by \in Thread!Step /\ before[Len(before)].kind = "call"
    BY <1>9, <2>1, MessageTyped DEF Thread!CallOf
  <2>3. PICK m \in Thread!Message : m = Thread!Result(before, k) /\ m.by = k /\ m.kind = "tool" /\ m.of = before[Len(before)].by
    <3>1. Thread!Result(before, k) \in Thread!Message
      BY <1>1, <2>2 DEF Thread!Result, Thread!Message
    <3>2. /\ Thread!Result(before, k).by = k /\ Thread!Result(before, k).kind = "tool"
          /\ Thread!Result(before, k).of = before[Len(before)].by
      BY DEF Thread!Result, Thread!New
    <3> QED BY <3>1, <3>2
  <2>4. messages \in {Append(before, m), before \o <<m, user>>}
    BY <1>2, <1>9, <2>3 DEF Thread!Continued
  <2>5. \A longer \in {Append(before, m), before \o <<m, user>>} :
          /\ WellTold(longer)
          /\ \A i \in 1..Len(longer) : (\E j \in 1..Len(before) : longer[i] = before[j]) \/ IsNew(longer[i], k)
    <3>1. Len(before) > 0
      BY <2>1
    <3> QED BY <1>7, <2>2, <2>3, <3>1
  <2> QED BY <2>4, <2>5
<1>10. CASE before # <<>> /\ ~Thread!CallOf(before)
  <2>1. messages = Append(before, user) \/ messages = before \/ messages = before \o <<foreign, user>>
    BY <1>2, <1>10 DEF Thread!Continued
  <2>2. CASE messages = Append(before, user)
    BY <1>5, <1>6, <2>2
  <2>3. CASE messages = before
    BY <2>3
  <2>4. CASE messages = before \o <<foreign, user>>
    BY <1>2, <1>7, <2>4
  <2> QED BY <2>1, <2>2, <2>3, <2>4
<1> QED BY <1>8, <1>9, <1>10

\* A history that a step is asked for is in order; what is new of it is of that step.
LEMMA RequestTold ==
  ASSUME ThreadInv, Histories, NEW s \in Session, NEW k \in Thread!Step, call[k].pc = "idle",
         NEW messages \in Thread!Requests(s, k)
  PROVE  /\ messages \in Seq(Thread!Message) /\ WellTold(messages)
         /\ \A i \in 1..Len(messages) : Spoken(messages[i]) \/ IsNew(messages[i], k)
<1>1. PICK before \in Thread!Rewritten(s, k) : messages \in Thread!Continued(before, k)
  BY DEF Thread!Requests
<1>2. /\ before \in Seq(Thread!Message) /\ WellTold(before)
      /\ \A i \in 1..Len(before) : Spoken(before[i]) \/ before[i] = Thread!New("summary", k)
  BY RewrittenTold
<1>3. \A i \in 1..Len(before) : before[i].by # k \/ before[i] = Thread!New("summary", k)
  BY <1>2 DEF Spoken
<1>4. IsNew(Thread!New("summary", k), k)
  BY DEF IsNew, Thread!New
<1> QED BY <1>1, <1>2, <1>3, <1>4, ContinuedTold, RequestsTyped DEF ThreadInv

-----------------------------------------------------------------------------
(* What a step tells its thread *)

\* A history is taken up after what its thread was told of it.
LEMMA CheckpointAsked ==
  ASSUME ThreadInv, HeardInv, NEW k \in Thread!Step, call[k].checkpoint # None
  PROVE  /\ Known(k) = Asked(call[k].checkpoint)
         /\ Thread!PositionOf(k) \in 1..Len(call[k].messages)
         /\ replay[call[k].checkpoint] # None
<1>1. PICK messages \in Seq(Thread!Message), p \in Nat, c \in Thread!Step :
        /\ messages = call[k].messages /\ p = Thread!PositionOf(k) /\ p \in 0..Len(messages) /\ c = call[k].checkpoint
  BY PositionTyped, StepTyped DEF ThreadInv
<1>2. Thread!ValidCheckpoint(messages, p)
  BY <1>1 DEF HeardInv, StepOK
<1>3. p \in 1..Len(messages) /\ Thread!IsReply(messages[p]) /\ messages[p].by = c /\ replay[c] # None
  <2> DEFINE P(i) == Thread!IsReply(messages[i]) /\ messages[i].by = c
  <2>1. /\ replay[c] # None
        /\ \E i \in 1..Len(messages) : P(i)
    BY <1>1 DEF ThreadInv, CallInv
  <2>2. p = CHOOSE i \in 1..Len(messages) : P(i)
    BY <1>1 DEF Thread!PositionOf
  <2> HIDE DEF P
  <2>3. p \in 1..Len(messages) /\ P(p)
    BY <2>1, <2>2
  <2> QED BY <2>1, <2>3 DEF P
<1>4. replay[c].prefix = SubSeq(messages, 1, p - 1) /\ (messages[p].kind = "call" => ~messages[p].edited)
  BY <1>2, <1>3 DEF Thread!ValidCheckpoint
<1>5. messages[p] = ReplyOf(c)
  BY <1>1, <1>3, <1>4 DEF HeardInv, Histories, HistoryOK, Spoken
<1>6. SubSeq(messages, 1, p) = Append(SubSeq(messages, 1, p - 1), messages[p])
  <2>1. p \in 0..Len(messages) /\ p - 1 \in 0..Len(messages) /\ messages[p] \in Thread!Message
    BY <1>3
  <2>2. PICK x \in Seq(Thread!Message) : x = SubSeq(messages, 1, p) /\ Len(x) = p /\ \A i \in 1..p : x[i] = messages[i]
    <3>1. /\ SubSeq(messages, 1, p) \in Seq(Thread!Message) /\ Len(SubSeq(messages, 1, p)) = p
          /\ \A i \in 1..p : SubSeq(messages, 1, p)[i] = messages[i]
      BY <2>1, CutTyped
    <3> QED BY <3>1
  <2>3. PICK y \in Seq(Thread!Message) : y = SubSeq(messages, 1, p - 1) /\ Len(y) = p - 1 /\ \A i \in 1..(p - 1) : y[i] = messages[i]
    <3>1. /\ SubSeq(messages, 1, p - 1) \in Seq(Thread!Message) /\ Len(SubSeq(messages, 1, p - 1)) = p - 1
          /\ \A i \in 1..(p - 1) : SubSeq(messages, 1, p - 1)[i] = messages[i]
      BY <2>1, CutTyped
    <3> QED BY <3>1
  <2>4. /\ Append(y, messages[p]) \in Seq(Thread!Message) /\ Len(Append(y, messages[p])) = p
        /\ \A i \in 1..p : Append(y, messages[p])[i] = messages[i]
    BY <2>1, <2>3
  <2>5. x = Append(y, messages[p])
    BY <2>2, <2>4, SeqEqual
  <2> QED BY <2>2, <2>3, <2>5
<1> QED BY <1>1, <1>3, <1>4, <1>5, <1>6 DEF Known, Asked

JoinedAt(c, a, b, m, n) ==
  Len(c) = m + n /\ (\A i \in 1..m : c[i] = a[i]) /\ \A i \in 1..n : c[m + i] = b[i]
LEMMA JoinParts ==
  ASSUME NEW a \in Seq(Thread!Message), NEW b \in Seq(Thread!Message), NEW m \in Nat, NEW n \in Nat,
         Len(a) = m, Len(b) = n
  PROVE  JoinedAt(a \o b, a, b, m, n)
BY BothSaid DEF JoinedAt

SplitAt(messages, p, again, items, input, known, before) ==
  /\ known = SubSeq(messages, 1, p) /\ before = SubSeq(messages, 1, Len(messages) - Len(input))
  /\ before = known \o items /\ messages = before \o input
  /\ Said(again) \subseteq Said(known) /\ Said(again) \cap SaidBefore(known) = {}
  /\ Said(items) \cap Said(known) = {} /\ SaidBefore(known) \subseteq Said(known)
  /\ Distinct(before) /\ ToolsFollow(input)
Injects(messages, p, again, items, input) ==
  /\ Thread!InjectItems(messages, p) = again \o items /\ ToolsFollow(again \o items)
  /\ input = Thread!TurnInput(Thread!Pending(messages, p))

\* What a step tells its thread, by the position of the checkpoint.
LEMMA SplitHistory ==
  ASSUME NEW messages \in Seq(Thread!Message), WellTold(messages), NEW p \in Nat,
         p \in 0..Len(messages), NEW h \in Nat,
         NEW items, NEW input, NEW again \in Seq(Thread!Message),
         PendingAre(messages, p, h, items, input),
         again = <<>> \/ (p # 0 /\ again = <<messages[p]>>)
  PROVE  \E known \in Seq(Thread!Message), before \in Seq(Thread!Message) : SplitAt(messages, p, again, items, input, known, before)
<1> USE DEF PendingAre
<1>6. PICK known \in Seq(Thread!Message) : known = SubSeq(messages, 1, p) /\ Len(known) = p /\ \A i \in 1..p : known[i] = messages[i]
  <2>1. /\ SubSeq(messages, 1, p) \in Seq(Thread!Message) /\ Len(SubSeq(messages, 1, p)) = p
        /\ \A i \in 1..p : SubSeq(messages, 1, p)[i] = messages[i]
    BY CutTyped
  <2> QED BY <2>1
<1>7. PICK n \in Nat : n = p + h /\ n = Len(messages) - Len(input) /\ n \in 0..Len(messages) /\ Len(messages) = n + Len(input)
  <2>1. PICK l \in Nat, m \in Nat : l = Len(input) /\ m = Len(messages) /\ m = (p + h) + l
    OBVIOUS
  <2> QED BY <2>1
<1>8. PICK before \in Seq(Thread!Message) : before = SubSeq(messages, 1, n) /\ Len(before) = n /\ \A i \in 1..n : before[i] = messages[i]
  <2>1. /\ SubSeq(messages, 1, n) \in Seq(Thread!Message) /\ Len(SubSeq(messages, 1, n)) = n
        /\ \A i \in 1..n : SubSeq(messages, 1, n)[i] = messages[i]
    BY <1>7, CutTyped
  <2> QED BY <2>1
<1>9. before = known \o items
  <2>1. PICK x \in Seq(Thread!Message) : x = known \o items
    BY MessagesAssociate
  <2>2. /\ Len(x) = p + h /\ \A i \in 1..p : x[i] = known[i]
        /\ \A i \in 1..h : x[p + i] = items[i]
    <3>1. Len(known) = p /\ Len(items) = h
      BY <1>6
    <3>2. JoinedAt(known \o items, known, items, p, h)
      BY <3>1, JoinParts
    <3> QED BY <2>1, <3>2 DEF JoinedAt
  <2>3. ASSUME NEW i \in 1..n PROVE x[i] = before[i]
    <3>1. CASE i <= p
      BY <1>6, <1>8, <2>2, <3>1
    <3>2. CASE i > p
      <4>1. PICK z \in 1..h : i = p + z
        <5>1. i - p \in 1..h /\ i = p + (i - p)
          BY <1>7, <3>2
        <5> QED BY <5>1
      <4>2. x[i] = items[z] /\ items[z] = messages[p + z] /\ before[i] = messages[i]
        BY <1>8, <2>2, <4>1
      <4> QED BY <4>1, <4>2
    <3> QED BY <3>1, <3>2
  <2> QED BY <1>7, <1>8, <2>1, <2>2, <2>3, SeqEqual
<1>10. messages = before \o input
  <2>1. PICK x \in Seq(Thread!Message) : x = before \o input
    BY MessagesAssociate
  <2>2. /\ Len(x) = n + Len(input) /\ \A i \in 1..n : x[i] = before[i]
        /\ \A i \in 1..Len(input) : x[n + i] = input[i]
    <3>1. /\ Len(before \o input) = n + Len(input) /\ \A i \in 1..n : (before \o input)[i] = before[i]
          /\ \A i \in 1..Len(input) : (before \o input)[n + i] = input[i]
      <4>1. Len(before) = n
        BY <1>8
      <4> QED BY <4>1, BothSaid
    <3> QED BY <2>1, <3>1
  <2>3. ASSUME NEW i \in 1..Len(messages) PROVE x[i] = messages[i]
    <3>1. CASE i <= n
      BY <1>8, <2>2, <3>1
    <3>2. CASE i > n
      <4>1. PICK z \in 1..Len(input) : i = n + z
        <5>1. PICK l \in Nat : l = Len(input) /\ Len(messages) = n + l
          BY <1>7
        <5>2. i - n \in 1..l /\ i = n + (i - n)
          BY <3>2, <5>1
        <5> QED BY <5>1, <5>2
      <4>2. x[i] = input[z] /\ input[z] = messages[p + h + z] /\ p + h + z = i
        BY <1>7, <2>2, <4>1
      <4> QED BY <4>2
    <3> QED BY <3>1, <3>2
  <2>4. Len(x) = Len(messages)
    BY <1>7, <2>2
  <2>5. x = messages
    BY <2>3, <2>4, SeqEqual
  <2> QED BY <2>1, <2>5
<1>11. \A i, j \in 1..Len(messages) : messages[i] = messages[j] => i = j
  BY DEF WellTold, Distinct, Same
<1>12. Said(items) \cap Said(known) = {}
  <2>0. Said(items) = {items[i] : i \in 1..h} /\ Said(known) = {known[i] : i \in 1..p}
    BY <1>6 DEF Said
  <2> SUFFICES ASSUME NEW i \in 1..h, NEW j \in 1..p, items[i] = known[j] PROVE FALSE
    BY <2>0
  <2>1. p + i \in 1..Len(messages) /\ j \in 1..Len(messages) /\ p + i # j
    OBVIOUS
  <2> QED BY <1>6, <1>11, <2>1
<1>13. SaidBefore(known) \subseteq Said(known)
  <2>1. \A i \in 1..(Len(known) - 1) : i \in 1..Len(known)
    OBVIOUS
  <2> QED BY <2>1 DEF Said, SaidBefore
<1>14. Said(again) \subseteq Said(known) /\ Said(again) \cap SaidBefore(known) = {}
  <2>1. CASE again = <<>>
    BY <2>1 DEF Said
  <2>2. CASE p # 0 /\ again = <<messages[p]>>
    <3>1. p \in 1..Len(messages) /\ Len(again) = 1 /\ again[1] = messages[p]
      BY <2>2
    <3>2. Said(again) = {messages[p]}
      BY <3>1 DEF Said
    <3>3. messages[p] \in Said(known)
      BY <1>6, <2>2 DEF Said
    <3>4. messages[p] \notin SaidBefore(known)
      <4> SUFFICES ASSUME NEW i \in 1..(p - 1), known[i] = messages[p] PROVE FALSE
        BY <1>6 DEF SaidBefore
      <4>1. i \in 1..Len(messages) /\ i \in 1..p /\ i # p
        OBVIOUS
      <4> QED BY <1>6, <1>11, <3>1, <4>1
    <3> QED BY <3>2, <3>3, <3>4
  <2> QED BY <2>1, <2>2
<1>15. Distinct(before)
  BY <1>7, <1>8, ToldCut DEF WellTold
<1>16. ToolsFollow(input)
  BY DEF ToolsFollow, Thread!CurrentTurnInput
<1>17. known = SubSeq(messages, 1, p) /\ before = SubSeq(messages, 1, Len(messages) - Len(input))
  BY <1>6, <1>7, <1>8
<1> HIDE DEF PendingAre
<1>18. SplitAt(messages, p, again, items, input, known, before)
  BY <1>9, <1>10, <1>12, <1>13, <1>14, <1>15, <1>16, <1>17 DEF SplitAt
<1> QED BY <1>18

\* A history by the position of a checkpoint: known, injected, and the input of the turn.
LEMMA HistorySplit ==
  ASSUME NEW messages \in Seq(Thread!Message), WellTold(messages), NEW p \in Nat, p \in 0..Len(messages)
  PROVE  \E known \in Seq(Thread!Message), before \in Seq(Thread!Message), again \in Seq(Thread!Message),
            items \in Seq(Thread!Message), input \in Seq(Thread!Message) :
           Injects(messages, p, again, items, input) /\ SplitAt(messages, p, again, items, input, known, before)
<1>1. PICK items, input : items = Thread!Historical(Thread!Pending(messages, p)) /\ input = Thread!TurnInput(Thread!Pending(messages, p))
  OBVIOUS
<1>2. PICK h \in Nat : PendingAre(messages, p, h, items, input)
  BY <1>1, PendingParts
<1>3. PICK again \in Seq(Thread!Message) :
           /\ Thread!InjectItems(messages, p) = again \o items
           /\ again = <<>> \/ (p # 0 /\ again = <<messages[p]>>)
           /\ ToolsFollow(again \o items)
  <2>1. ToolsFollow(messages) /\ Distinct(messages)
    BY DEF WellTold
  <2> QED BY <1>1, <2>1, InjectsBetween
<1>4. PICK known \in Seq(Thread!Message), before \in Seq(Thread!Message) : SplitAt(messages, p, again, items, input, known, before)
  BY <1>2, <1>3, SplitHistory
<1>5. Injects(messages, p, again, items, input) /\ items \in Seq(Thread!Message) /\ input \in Seq(Thread!Message)
  BY <1>1, <1>2, <1>3 DEF Injects, PendingAre
<1> QED BY <1>4, <1>5

\* The parts of the history a step was asked with.
LEMMA HistoryParts ==
  ASSUME ThreadInv, HeardInv, NEW k \in Thread!Step
  PROVE  \E again \in Seq(Thread!Message), items \in Seq(Thread!Message) :
           /\ Known(k) \in Seq(Thread!Message) /\ BeforeInput(k) \in Seq(Thread!Message) /\ Thread!Input(k) \in Seq(Thread!Message)
           /\ Thread!Injected(k) = again \o items /\ ToolsFollow(again \o items) /\ Distinct(call[k].messages)
           /\ SplitAt(call[k].messages, Thread!PositionOf(k), again, items, Thread!Input(k), Known(k), BeforeInput(k))
<1>1. PICK messages \in Seq(Thread!Message), p \in Nat :
        /\ messages = call[k].messages /\ p = Thread!PositionOf(k) /\ p \in 0..Len(messages)
  BY PositionTyped, StepTyped DEF ThreadInv
<1>2. WellTold(messages) /\ Distinct(messages) /\ p \in 0..Len(messages)
  BY <1>1 DEF HeardInv, Histories, HistoryOK, WellTold
<1>3. PICK known \in Seq(Thread!Message), before \in Seq(Thread!Message), again \in Seq(Thread!Message),
         items \in Seq(Thread!Message), input \in Seq(Thread!Message) :
        Injects(messages, p, again, items, input) /\ SplitAt(messages, p, again, items, input, known, before)
  BY <1>2, HistorySplit
<1>4. Thread!Injected(k) = again \o items /\ ToolsFollow(again \o items) /\ Thread!Input(k) = input
  BY <1>1, <1>3 DEF Thread!Injected, Thread!Input, Injects
<1>5. Known(k) = known /\ BeforeInput(k) = before
  BY <1>1, <1>3, <1>4 DEF Known, BeforeInput, SplitAt
<1> QED BY <1>1, <1>2, <1>3, <1>4, <1>5

-----------------------------------------------------------------------------
(* What a step leaves alone *)

\* The replay states that are there stay, with what was replied.
RepliesStay == \A i \in Thread!Step : replay[i] # None => replay'[i] = replay[i] /\ rollout'[i] = rollout[i]

LEMMA FollowsLeft ==
  ASSUME NEW heard, NEW ms, NEW gone, NEW left, gone \subseteq left, Follows(heard, ms, gone)
  PROVE  Follows(heard, ms, left)
BY DEF Follows

\* Where a step is in its history is a matter of its own locals.
LEMMA PositionStays ==
  ASSUME NEW j \in Thread!Step, call'[j].messages = call[j].messages,
         call'[j].checkpoint = call[j].checkpoint
  PROVE  /\ Thread!PositionOf(j)' = Thread!PositionOf(j) /\ Known(j)' = Known(j)
         /\ Thread!Injected(j)' = Thread!Injected(j) /\ Thread!Input(j)' = Thread!Input(j) /\ BeforeInput(j)' = BeforeInput(j)
<1>1. Thread!PositionOf(j)' = Thread!PositionOf(j)
  BY DEF Thread!PositionOf
<1>2. Thread!Injected(j)' = Thread!Injected(j) /\ Thread!Input(j)' = Thread!Input(j)
  BY <1>1 DEF Thread!Injected, Thread!Input
<1> QED BY <1>1, <1>2 DEF Known, BeforeInput

\* A checkpoint stays valid while the replies stay.
LEMMA CheckpointStays ==
  ASSUME ThreadInv, HeardInv, RepliesStay, NEW j \in Thread!Step, call[j].checkpoint # None
  PROVE  /\ Thread!ValidCheckpoint(call[j].messages, Thread!PositionOf(j))
         /\ \A messages, p : messages = call[j].messages /\ p = Thread!PositionOf(j) => Thread!ValidCheckpoint(messages, p)'
         /\ replay'[call[j].checkpoint] = replay[call[j].checkpoint]
<1>1. PICK messages \in Seq(Thread!Message), p \in Nat :
        messages = call[j].messages /\ p = Thread!PositionOf(j) /\ p \in 1..Len(messages)
  BY CheckpointAsked, StepTyped DEF ThreadInv
<1>2. Thread!ValidCheckpoint(messages, p)
  BY <1>1 DEF HeardInv, StepOK
<1>3. messages[p].by \in Thread!Step
  <2>1. messages[p] \in Thread!Message
    BY <1>1
  <2> QED BY <2>1, MessageTyped
<1>4. Thread!ValidCheckpoint(messages, p)'
  BY <1>2, <1>3 DEF Thread!ValidCheckpoint, RepliesStay
<1>5. replay'[call[j].checkpoint] = replay[call[j].checkpoint]
  BY CheckpointAsked, StepTyped DEF ThreadInv, RepliesStay
<1> QED BY <1>1, <1>2, <1>4, <1>5

\* A step whose locals and thread stay.
LEMMA StepStays ==
  ASSUME ThreadInv, HeardInv, RepliesStay, NEW j \in Thread!Step, call'[j] = call[j],
         call[j].pc \in {"rollingBack", "injecting", "turning", "streaming"} =>
           thread'[call[j].thread] = thread[call[j].thread] /\ lost[call[j].thread] \subseteq lost'[call[j].thread],
         call[j].pc \in Unstarted => thread'[j] = thread[j]
  PROVE  StepOK(j)'
<1>1. CallInv(j) /\ StepOK(j)
  BY DEF ThreadInv, HeardInv
<1>2. /\ Thread!PositionOf(j)' = Thread!PositionOf(j) /\ Known(j)' = Known(j) /\ BeforeInput(j)' = BeforeInput(j)
  BY PositionStays
<1>3. PICK t, c, pc : t = call[j].thread /\ c = call[j].checkpoint /\ pc = call[j].pc
  OBVIOUS
<1>4. c # None => replay'[c] = replay[c] /\ Thread!ValidCheckpoint(call[j].messages, Thread!PositionOf(j))'
  <2> SUFFICES ASSUME c # None PROVE replay'[c] = replay[c] /\ Thread!ValidCheckpoint(call[j].messages, Thread!PositionOf(j))'
    OBVIOUS
  <2>1. \A messages, p : messages = call[j].messages /\ p = Thread!PositionOf(j) => Thread!ValidCheckpoint(messages, p)'
    BY <1>3, CheckpointStays
  <2> QED BY <1>2, <1>3, <2>1, CheckpointStays DEF Thread!ValidCheckpoint
<1>5. pc \in {"rollingBack", "injecting", "turning", "streaming"} => thread'[t] = thread[t] /\ lost[t] \subseteq lost'[t]
  BY <1>1, <1>3 DEF CallInv
<1>6. pc \in {"rollingBack"} => c # None
  BY <1>1, <1>3 DEF CallInv
<1>7. /\ pc = "injecting" => Follows(Thread!Heard(thread[t]), Known(j), lost'[t])
      /\ pc = "turning" => Follows(Thread!Heard(thread[t]), BeforeInput(j), lost'[t])
      /\ pc = "streaming" => Follows(Thread!Heard(thread[t]), call[j].messages, lost'[t])
  BY <1>1, <1>3, <1>5, FollowsLeft DEF StepOK
<1> QED BY <1>1, <1>2, <1>3, <1>4, <1>5, <1>6, <1>7 DEF StepOK

LEMMA TipLeft ==
  ASSUME NEW entries, NEW i, NEW told, NEW gone, NEW left, gone \subseteq left, NEW used, NEW using,
         used => using,
         TipOK(entries, i, told, gone, used)
  PROVE  TipOK(entries, i, told, left, using)
<1>1. Follows(Thread!Heard(SubSeq(entries, 1, i)), told, left)
  BY FollowsLeft DEF TipOK
<1> QED BY <1>1 DEF TipOK

\* A reply and what it was asked for.
LEMMA AskedStays ==
  ASSUME NEW c, replay'[c] = replay[c], rollout'[c] = rollout[c]
  PROVE  Asked(c)' = Asked(c) /\ ReplyOf(c)' = ReplyOf(c)
BY DEF Asked, ReplyOf

\* A thread that stays, with the replies that were given on it.
LEMMA ThreadStays ==
  ASSUME ThreadInv, HeardInv, RepliesStay, NEW t \in Thread!Step, thread'[t] = thread[t],
         lost[t] \subseteq lost'[t],
         InUse(t) => InUse(t)', \A i \in 1..Len(thread[t]) : IsTip(t, i)' => IsTip(t, i)
  PROVE  ThreadOK(t)'
<1>1. ThreadOK(t) /\ thread[t] \in Seq(Thread!Entry)
  BY DEF HeardInv, ThreadInv, Thread!TypeOK
<1>2. ASSUME NEW i \in 1..Len(thread[t]), IsTip(t, i)'
      PROVE  TipOK(thread[t], i, Asked(thread[t][i].turn), lost[t], InUse(t))'
  <2>1. IsTip(t, i)
    BY <1>2
  <2>2. PICK c : c = thread[t][i].turn
    OBVIOUS
  <2>3. c \in Thread!Step /\ replay[c] # None
    BY <1>1, <2>1, <2>2, EntryTyped DEF IsTip
  <2>4. PICK told : told = Asked(c) /\ told = Asked(c)'
    BY <2>3, AskedStays DEF RepliesStay
  <2>5. PICK entries, used, using : entries = thread[t] /\ used = InUse(t) /\ using = InUse(t)'
    OBVIOUS
  <2>6. TipOK(entries, i, told, lost[t], used)
    BY <1>1, <2>1, <2>2, <2>4, <2>5 DEF ThreadOK
  <2>7. TipOK(entries, i, told, lost'[t], using)
    BY <2>5, <2>6, TipLeft
  <2>8. Asked(thread[t][i].turn)' = told
    BY <2>2, <2>4
  <2> QED BY <2>5, <2>7, <2>8 DEF TipOK
<1>3. ItemsFollow(thread[t])'
  BY <1>1 DEF ThreadOK, ItemsFollow
<1> QED BY <1>2, <1>3 DEF ThreadOK

\* What the thread of a reply held stays.
LEMMA RolloutStays ==
  ASSUME HeardInv, NEW c \in Thread!Step, replay'[c] = replay[c], rollout'[c] = rollout[c],
         replay[c] # None => lost[replay[c].thread] \subseteq lost'[replay[c].thread]
  PROVE  RolloutOK(c)'
<1>1. RolloutOK(c)
  BY DEF HeardInv
<1>2. Asked(c)' = Asked(c) /\ ReplyOf(c)' = ReplyOf(c)
  BY AskedStays
<1>3. replay[c] # None => Follows(Thread!Heard(rollout[c]), Asked(c), lost'[replay[c].thread])
  BY <1>1, FollowsLeft DEF RolloutOK
<1> QED BY <1>1, <1>2, <1>3 DEF RolloutOK, ItemsFollow

\* The turns on the threads are those that were there, and that of the step.
TurnsStay(k) ==
  /\ \A t \in Thread!Step : \A x \in Turns(thread[t])' \cup Turns(rollout[t])' :
       \/ x = None
       \/ \E u \in Thread!Step : x \in Turns(thread[u]) \cup Turns(rollout[u])
       \/ x = k /\ call'[k].pc \notin {"idle"} \cup Thread!Starting
  /\ call'[k].pc \in {"idle"} \cup Thread!Starting => call[k].pc \in {"idle"} \cup Thread!Starting
  /\ \A j \in Thread!Step : j # k => call'[j] = call[j]

LEMMA FreshStays ==
  ASSUME ThreadInv, HeardInv, NEW k \in Thread!Step, TurnsStay(k), NEW j \in Thread!Step
  PROVE  TurnsFresh(j)'
<1> SUFFICES ASSUME call'[j].pc \in {"idle"} \cup Thread!Starting, NEW t \in Thread!Step,
                    j \in Turns(thread[t])' \cup Turns(rollout[t])'
             PROVE  FALSE
  BY DEF TurnsFresh
<1>1. call[j].pc \in {"idle"} \cup Thread!Starting
  BY DEF TurnsStay
<1>2. j # None
  BY ThreadAssumption
<1>3. PICK u \in Thread!Step : j \in Turns(thread[u]) \cup Turns(rollout[u])
  BY <1>2 DEF TurnsStay
<1> QED BY <1>1, <1>3 DEF HeardInv, TurnsFresh

\* A thread that a step began is taken up by another one only once that step has replied.
LEMMA OthersElsewhere ==
  ASSUME ThreadInv, NEW k \in Thread!Step, Active(k), replay[k] = None, NEW j \in Thread!Step, j # k
  PROVE  /\ Active(j) => Thread!ThreadOf(j) # k /\ Thread!ThreadOf(j) # Thread!ThreadOf(k)
         /\ replay[j] = None => Thread!ThreadOf(k) # j
<1>1. Owns(k) /\ call[k].auxiliary \in BOOLEAN /\ call[j].auxiliary \in BOOLEAN
  BY StepTyped DEF ThreadInv, CallInv
<1>2. PICK t \in Thread!Step : t = Thread!ThreadOf(k)
  BY ThreadTyped
<1>3. t = k \/ (~call[k].auxiliary /\ replay[t] # None /\ replay[t].session = call[k].session)
  BY <1>1, <1>2 DEF Owns
<1>4. ASSUME Active(j) PROVE Thread!ThreadOf(j) # k /\ Thread!ThreadOf(j) # t
  <2>1. PICK u \in Thread!Step : u = Thread!ThreadOf(j)
    BY <1>4, ThreadTyped
  <2>2. Owns(j)
    BY <1>4 DEF ThreadInv, CallInv
  <2>3. u = j \/ (~call[j].auxiliary /\ replay[u] # None /\ replay[u].session = call[j].session)
    BY <2>1, <2>2 DEF Owns
  <2>4. replay[j] # None => ~call[j].auxiliary /\ replay[j].session = call[j].session
    BY <1>4 DEF ThreadInv, CallInv, Active
  <2>5. ~call[j].auxiliary /\ ~call[k].auxiliary => call[j].session # call[k].session
    BY <1>4 DEF ThreadInv, OneStep
  <2> QED BY <1>3, <2>1, <2>3, <2>4, <2>5
<1> QED BY <1>2, <1>3, <1>4

\* No reply was given on a thread before the step that began it replied.
LEMMA NoReplyYet ==
  ASSUME ThreadInv, NEW k \in Thread!Step, replay[k] = None
  PROVE  \A c \in Thread!Step : replay[c] # None => replay[c].thread # k
BY DEF ThreadInv, Roots

\* The thread of a step before its turn begins or after it: it is not used.
LEMMA NotInUse ==
  ASSUME ThreadInv, NEW k \in Thread!Step, Active(k), replay[k] = None,
         call[k].pc \notin {"turning", "streaming"},
         NEW t, t = Thread!ThreadOf(k)
  PROVE  ~InUse(t)
<1> SUFFICES ASSUME NEW j \in Thread!Step, call[j].pc \in {"turning", "streaming"}, call[j].thread = t PROVE FALSE
  BY DEF InUse
<1>1. j # k /\ Active(j)
  BY DEF Active
<1>2. Thread!ThreadOf(j) = t
  BY StepTyped DEF Thread!ThreadOf, ThreadInv, CallInv
<1> QED BY <1>1, <1>2, OthersElsewhere

\* A step that changes nothing at the vendor.
LEMMA ThreadsUntouched ==
  ASSUME ThreadInv, HeardInv, NEW k \in Thread!Step, \A j \in Thread!Step : j # k => call'[j] = call[j],
         UNCHANGED <<replay, Thread!vendor>>, call[k].pc \notin {"turning", "streaming"},
         call'[k].pc \in {"idle"} \cup Thread!Starting => call[k].pc \in {"idle"} \cup Thread!Starting,
         StepOK(k)', Histories'
  PROVE  HeardInv'
<1>1. thread' = thread /\ lost' = lost /\ rollout' = rollout /\ replay' = replay /\ RepliesStay
  BY DEF Thread!vendor, RepliesStay
<1>2. ASSUME NEW t \in Thread!Step PROVE ThreadOK(t)'
  <2>1. InUse(t) => InUse(t)'
    <3> SUFFICES ASSUME NEW j \in Thread!Step, call[j].pc \in {"turning", "streaming"}, call[j].thread = t PROVE InUse(t)'
      BY DEF InUse
    <3>1. call'[j] = call[j]
      OBVIOUS
    <3> QED BY <3>1 DEF InUse
  <2>2. \A i \in 1..Len(thread[t]) : IsTip(t, i)' => IsTip(t, i)
    BY <1>1 DEF IsTip
  <2> QED BY <1>1, <2>1, <2>2, ThreadStays
<1>3. ASSUME NEW c \in Thread!Step PROVE RolloutOK(c)'
  BY <1>1, RolloutStays
<1>4. TurnsStay(k)
  BY <1>1 DEF TurnsStay
<1>5. ASSUME NEW j \in Thread!Step PROVE TurnsFresh(j)'
  BY <1>4, FreshStays
<1>6. ASSUME NEW j \in Thread!Step, j # k PROVE StepOK(j)'
  BY <1>1, <1>6, StepStays
<1> QED BY <1>2, <1>3, <1>5, <1>6 DEF HeardInv

\* Nothing at all that this is about changes.
LEMMA NothingChanges ==
  ASSUME ThreadInv, HeardInv, UNCHANGED <<call, replay, Thread!vendor>>, rewritten' = rewritten,
         \A s \in Session : history'[s] \in {history[i] : i \in Session}
  PROVE  HeardInv'
<1>1. thread' = thread /\ lost' = lost /\ rollout' = rollout /\ replay' = replay /\ call' = call /\ RepliesStay
  BY DEF Thread!vendor, RepliesStay
<1>2. Histories'
  <2>1. Grows
    BY <1>1 DEF Grows
  <2> QED BY <1>1, <2>1, HistoriesKept DEF HeardInv
<1>3. ASSUME NEW t \in Thread!Step PROVE ThreadOK(t)'
  <2>1. InUse(t)' = InUse(t)
    BY <1>1 DEF InUse
  <2>2. \A i \in 1..Len(thread[t]) : IsTip(t, i)' => IsTip(t, i)
    BY <1>1 DEF IsTip
  <2> QED BY <1>1, <2>1, <2>2, ThreadStays
<1>4. ASSUME NEW c \in Thread!Step PROVE RolloutOK(c)' /\ StepOK(c)'
  BY <1>1, RolloutStays, StepStays
<1>5. ASSUME NEW j \in Thread!Step PROVE TurnsFresh(j)'
  BY <1>1 DEF HeardInv, TurnsFresh, Turns
<1> QED BY <1>2, <1>3, <1>4, <1>5 DEF HeardInv

\* A step whose history stays, or goes.
LEMMA HistoriesOfStep ==
  ASSUME ThreadInv, HeardInv, NEW k \in Thread!Step, NEW c, call' = [call EXCEPT ![k] = c],
         c.pc # "idle",
         call[k].pc \in {"closing", "done"} => c.pc \in {"closing", "done"},
         c.messages = call[k].messages \/ c.messages = <<>>, UNCHANGED <<replay, rollout, history, rewritten>>
  PROVE  Histories'
<1>1. call'[k] = c /\ \A j \in Thread!Step : j # k => call'[j] = call[j]
  BY DEF ThreadInv, Thread!TypeOK
<1>2. Grows
  BY <1>1 DEF Grows
<1>3. HistoryOK(<<>>)'
  <2>1. Len(<<>>) = 0
    OBVIOUS
  <2> QED BY <2>1 DEF HistoryOK, WellTold, Distinct, ToolsFollow
<1>4. \A j \in Thread!Step : call'[j].messages = call[j].messages \/ HistoryOK(call[j].messages)'
  <2>1. c.messages = <<>> => HistoryOK(call[k].messages)'
    BY <1>1, <1>3 DEF HistoryOK
  <2> QED BY <1>1, <2>1
<1> QED BY <1>2, <1>4, HistoriesKept DEF HeardInv

-----------------------------------------------------------------------------
(* Steps before the turn: what they are told, and what their thread has heard *)

\* The turn of the checkpoint, on its thread.
LEMMA TipOfCheckpoint ==
  ASSUME ThreadInv, HeardInv, NEW k \in Thread!Step, NEW c, c = call[k].checkpoint, c # None, NEW t,
         t = replay[c].thread,
         NEW i \in 1..Len(thread[t]), thread[t][i].turn = c
  PROVE  /\ t \in Thread!Step /\ thread[t] \in Seq(Thread!Entry) /\ Known(k) \in Seq(Thread!Message)
         /\ ItemsFollow(thread[t]) /\ TipOK(thread[t], i, Known(k), lost[t], InUse(t))
<1>1. c \in Thread!Step /\ replay[c] # None /\ Known(k) = Asked(c)
  BY CheckpointAsked, StepTyped DEF ThreadInv
<1>2. t \in Thread!Step
  BY <1>1 DEF ThreadInv, Thread!TypeOK, Thread!ReplayState
<1>3. thread[t] \in Seq(Thread!Entry) /\ ThreadOK(t) /\ IsTip(t, i)
  BY <1>1, <1>2 DEF ThreadInv, Thread!TypeOK, HeardInv, IsTip
<1>4. Known(k) \in Seq(Thread!Message)
  BY HistoryParts
<1>5. TipOK(thread[t], i, Asked(c), lost[t], InUse(t)) /\ ItemsFollow(thread[t])
  BY <1>3 DEF ThreadOK
<1> QED BY <1>1, <1>2, <1>3, <1>4, <1>5

\* Nothing is injected when nothing is between what the thread was told and the input.
LEMMA NothingBetween ==
  ASSUME ThreadInv, HeardInv, NEW k \in Thread!Step, Thread!Injected(k) = <<>>
  PROVE  BeforeInput(k) = Known(k)
<1>1. PICK again \in Seq(Thread!Message), items \in Seq(Thread!Message) :
           /\ Known(k) \in Seq(Thread!Message) /\ Thread!Injected(k) = again \o items
           /\ SplitAt(call[k].messages, Thread!PositionOf(k), again, items, Thread!Input(k), Known(k), BeforeInput(k))
  BY HistoryParts
<1>2. PICK known \in Seq(Thread!Message) : known = Known(k)
  BY <1>1
<1>3. BeforeInput(k) = known \o items
  BY <1>1, <1>2 DEF SplitAt
<1>4. items = <<>>
  <2>1. again \o items = <<>>
    BY <1>1
  <2> HIDE <1>1
  <2> QED BY <2>1
<1>5. known \o <<>> = known
  OBVIOUS
<1> QED BY <1>2, <1>3, <1>4, <1>5

\* A thread is established that has heard what the step takes as told.
LEMMA EstablishedFollows ==
  ASSUME ThreadInv, HeardInv, RepliesStay, NEW k \in Thread!Step, NEW t \in Thread!Step,
         Thread!Established(k, t),
         Follows(Thread!Heard(thread'[t]), Known(k), lost'[t]),
         t # k => /\ call[k].checkpoint # None /\ t = replay[call[k].checkpoint].thread
                  /\ \E i \in 1..Len(thread'[t]) : thread'[t][i].turn = call[k].checkpoint /\ NoTurns(thread'[t], i, Len(thread'[t]))
  PROVE  /\ StepOK(k)' /\ call'[k].pc \in {"injecting", "turning"} /\ call'[k].messages = call[k].messages
<1>1. /\ call'[k].pc = IF Thread!Injected(k) = <<>> THEN "turning" ELSE "injecting"
      /\ call'[k].thread = t /\ call'[k].messages = call[k].messages /\ call'[k].checkpoint = call[k].checkpoint
  <2>1. call[k] \in Thread!CallState
    BY StepTyped DEF ThreadInv
  <2> QED BY <2>1 DEF Thread!Established, ThreadInv, Thread!TypeOK, Thread!CallState
<1>2. /\ Thread!PositionOf(k)' = Thread!PositionOf(k) /\ Known(k)' = Known(k) /\ BeforeInput(k)' = BeforeInput(k)
  BY <1>1, PositionStays
<1>3. Thread!Injected(k) = <<>> => Follows(Thread!Heard(thread'[t]), BeforeInput(k), lost'[t])
  BY NothingBetween
<1>4. PICK c : c = call[k].checkpoint
  OBVIOUS
<1>5. c # None => replay'[c] = replay[c] /\ Thread!ValidCheckpoint(call[k].messages, Thread!PositionOf(k))'
  <2> SUFFICES ASSUME c # None PROVE replay'[c] = replay[c] /\ Thread!ValidCheckpoint(call[k].messages, Thread!PositionOf(k))'
    OBVIOUS
  <2>1. \A messages, p : messages = call[k].messages /\ p = Thread!PositionOf(k) => Thread!ValidCheckpoint(messages, p)'
    BY <1>4, CheckpointStays
  <2> QED BY <1>1, <1>2, <1>4, <2>1, CheckpointStays DEF Thread!ValidCheckpoint
<1>6. call'[k].pc \notin Unstarted /\ call'[k].pc \in {"injecting", "turning"}
  BY <1>1 DEF Unstarted
<1>7. StepOK(k)'
  BY <1>1, <1>2, <1>3, <1>4, <1>5, <1>6 DEF StepOK
<1> QED BY <1>1, <1>6, <1>7

\* A checkpoint that stays with its history stays valid.
LEMMA CheckpointGoesOn ==
  ASSUME ThreadInv, HeardInv, RepliesStay, NEW k \in Thread!Step,
         call'[k].messages = call[k].messages, call'[k].checkpoint = call[k].checkpoint
  PROVE  call[k].checkpoint # None =>
           Thread!ValidCheckpoint(call[k].messages, Thread!PositionOf(k))' /\ replay'[call[k].checkpoint] = replay[call[k].checkpoint]
<1> SUFFICES ASSUME call[k].checkpoint # None
             PROVE  Thread!ValidCheckpoint(call[k].messages, Thread!PositionOf(k))' /\ replay'[call[k].checkpoint] = replay[call[k].checkpoint]
  OBVIOUS
<1>1. \A messages, p : messages = call[k].messages /\ p = Thread!PositionOf(k) => Thread!ValidCheckpoint(messages, p)'
  BY CheckpointStays
<1>2. Thread!PositionOf(k)' = Thread!PositionOf(k)
  BY PositionStays
<1> QED BY <1>1, <1>2, CheckpointStays DEF Thread!ValidCheckpoint

\* Spawn: nothing is told yet.
LEMMA SpawnHeard ==
  ASSUME ThreadInv, HeardInv, NEW k \in Thread!Step, Thread!Spawn(k)
  PROVE  HeardInv'
<1>1. PICK c : c = [call[k] EXCEPT !.pc = IF call[k].checkpoint = None THEN "starting" ELSE "resuming"]
  OBVIOUS
<1>2. /\ call[k] \in Thread!CallState /\ call[k].pc = "spawning"
      /\ c.messages = call[k].messages /\ c.thread = call[k].thread /\ c.checkpoint = call[k].checkpoint
      /\ c.pc = IF call[k].checkpoint = None THEN "starting" ELSE "resuming"
  BY <1>1, StepTyped DEF ThreadInv, Thread!Spawn, Thread!CallState
<1>3. call' = [call EXCEPT ![k] = c] /\ call'[k] = c /\ \A j \in Thread!Step : j # k => call'[j] = call[j]
  BY <1>1 DEF Thread!Spawn, Thread!Goto, ThreadInv, Thread!TypeOK
<1>4. UNCHANGED <<replay, Thread!vendor, history, rewritten>> /\ rollout' = rollout /\ thread' = thread /\ RepliesStay
  BY DEF Thread!Spawn, Thread!dsh, Thread!vendor, RepliesStay
<1>5. Histories'
  BY <1>2, <1>3, <1>4, HistoriesOfStep
<1>6. StepOK(k)'
  <2>1. StepOK(k)
    BY DEF HeardInv
  <2>2. call[k].checkpoint # None => Thread!ValidCheckpoint(call[k].messages, Thread!PositionOf(k))'
    BY <1>2, <1>3, <1>4, CheckpointGoesOn
  <2> QED BY <1>2, <1>3, <1>4, <2>1, <2>2 DEF StepOK, Unstarted
<1> QED BY <1>2, <1>3, <1>4, <1>5, <1>6, ThreadsUntouched DEF Thread!Starting

\* StartThread: the whole history goes to a thread that has heard nothing.
LEMMA StartThreadHeard ==
  ASSUME ThreadInv, HeardInv, NEW k \in Thread!Step, Thread!StartThread(k)
  PROVE  HeardInv'
<1>1. /\ call[k].pc = "starting" /\ call[k].checkpoint = None /\ thread[k] = <<>> /\ thread' = thread
      /\ Thread!Established(k, k) /\ UNCHANGED <<replay, Thread!vendor, history, rewritten>> /\ rollout' = rollout /\ RepliesStay
  BY DEF Thread!StartThread, HeardInv, StepOK, Unstarted, Thread!dsh, Thread!vendor, RepliesStay
<1>2. Known(k) = <<>>
  <2>1. PICK messages \in Seq(Thread!Message) : messages = call[k].messages
    BY StepTyped DEF ThreadInv
  <2>2. Known(k) = SubSeq(messages, 1, 0)
    BY <1>1, <2>1 DEF Known, Thread!PositionOf
  <2>3. SubSeq(messages, 1, 0) = <<>>
    OBVIOUS
  <2> QED BY <2>2, <2>3
<1>3. Follows(Thread!Heard(thread'[k]), Known(k), lost'[k])
  BY <1>1, <1>2, NothingHeard, FollowsNothing
<1>4. StepOK(k)' /\ call'[k].pc \in {"injecting", "turning"} /\ call'[k].messages = call[k].messages
  BY <1>1, <1>3, EstablishedFollows
<1>5. call' = [call EXCEPT ![k] = call'[k]] /\ \A j \in Thread!Step : j # k => call'[j] = call[j]
  BY <1>1 DEF Thread!Established, ThreadInv, Thread!TypeOK
<1>6. Histories'
  BY <1>1, <1>4, <1>5, HistoriesOfStep
<1> QED BY <1>1, <1>4, <1>5, <1>6, ThreadsUntouched DEF Thread!Starting

\* A step that changes its own thread, or the one it took up.
LEMMA StepOfThread ==
  ASSUME ThreadInv, HeardInv, NEW k \in Thread!Step, Active(k), replay[k] = None,
         NEW t \in Thread!Step, t = Thread!ThreadOf(k),
         \A j \in Thread!Step : j # k => call'[j] = call[j] /\ replay'[j] = replay[j] /\ rollout'[j] = rollout[j],
         replay'[k] = None \/ replay'[k].thread = t,
         \A u \in Thread!Step : u \notin {k, t} => thread'[u] = thread[u],
         \A u \in Thread!Step : u # k => lost[u] \subseteq lost'[u],
         TurnsStay(k), StepOK(k)', Histories', ThreadOK(k)', ThreadOK(t)', RolloutOK(k)'
  PROVE  HeardInv'
<1>1. RepliesStay
  BY DEF RepliesStay
<1>2. ASSUME NEW u \in Thread!Step, u \notin {k, t} PROVE ThreadOK(u)'
  <2>1. InUse(u) => InUse(u)'
    <3> SUFFICES ASSUME NEW j \in Thread!Step, call[j].pc \in {"turning", "streaming"}, call[j].thread = u PROVE InUse(u)'
      BY DEF InUse
    <3>1. u # None
      BY ThreadAssumption
    <3>2. j # k
      BY <1>2, <3>1 DEF Thread!ThreadOf
    <3>3. call'[j] = call[j]
      BY <3>2
    <3> QED BY <3>3 DEF InUse
  <2>2. \A i \in 1..Len(thread[u]) : IsTip(u, i)' => IsTip(u, i)
    <3> SUFFICES ASSUME NEW i \in 1..Len(thread[u]), IsTip(u, i)' PROVE IsTip(u, i)
      OBVIOUS
    <3>1. PICK c : c = thread[u][i].turn /\ thread'[u] = thread[u]
      BY <1>2
    <3>2. c # None /\ replay'[c] # None /\ replay'[c].thread = u
      BY <3>1 DEF IsTip
    <3>3. c \in Thread!Step
      <4>1. thread[u] \in Seq(Thread!Entry)
        BY DEF ThreadInv, Thread!TypeOK
      <4> QED BY <3>1, <3>2, <4>1, EntryTyped
    <3>4. c # k
      BY <1>2, <3>2
    <3> QED BY <3>1, <3>2, <3>3, <3>4 DEF IsTip
  <2>3. thread'[u] = thread[u] /\ lost[u] \subseteq lost'[u]
    BY <1>2
  <2> QED BY <1>1, <2>1, <2>2, <2>3, ThreadStays
<1>3. ASSUME NEW c \in Thread!Step, c # k PROVE RolloutOK(c)'
  <2>1. replay[c] # None => replay[c].thread \in Thread!Step /\ replay[c].thread # k
    BY NoReplyYet DEF ThreadInv, Thread!TypeOK, Thread!ReplayState
  <2>2. replay[c] # None => lost[replay[c].thread] \subseteq lost'[replay[c].thread]
    BY <2>1
  <2>3. replay'[c] = replay[c] /\ rollout'[c] = rollout[c]
    BY <1>3
  <2> QED BY <2>2, <2>3, RolloutStays
<1>4. ASSUME NEW j \in Thread!Step PROVE TurnsFresh(j)'
  BY FreshStays
<1>5. ASSUME NEW j \in Thread!Step, j # k PROVE StepOK(j)'
  <2>1. CallInv(j) /\ call'[j] = call[j]
    BY <1>5 DEF ThreadInv
  <2>2. call[j].pc \in {"rollingBack", "injecting", "turning", "streaming"} =>
           thread'[call[j].thread] = thread[call[j].thread] /\ lost[call[j].thread] \subseteq lost'[call[j].thread]
    <3> SUFFICES ASSUME call[j].pc \in {"rollingBack", "injecting", "turning", "streaming"}
                 PROVE  thread'[call[j].thread] = thread[call[j].thread] /\ lost[call[j].thread] \subseteq lost'[call[j].thread]
      OBVIOUS
    <3>1. call[j].thread \in Thread!Step /\ Thread!ThreadOf(j) = call[j].thread /\ Active(j)
      BY <2>1, StepTyped DEF CallInv, Thread!ThreadOf, ThreadInv, Active
    <3>2. call[j].thread \notin {k, t}
      BY <1>5, <3>1, OthersElsewhere
    <3> QED BY <3>1, <3>2
  <2>3. call[j].pc \in Unstarted => thread'[j] = thread[j]
    <3>1. call[j].pc \in Unstarted => replay[j] = None
      BY <2>1 DEF CallInv, Unstarted
    <3>2. call[j].pc \in Unstarted => j \notin {k, t}
      BY <1>5, <3>1, OthersElsewhere
    <3> QED BY <3>2
  <2> QED BY <1>1, <2>1, <2>2, <2>3, StepStays
<1> QED BY <1>2, <1>3, <1>4, <1>5 DEF HeardInv

\* A thread that a step began and has not replied on.
LEMMA OwnThread ==
  ASSUME ThreadInv, NEW k \in Thread!Step, replay' = replay, replay[k] = None,
         thread'[k] \in Seq(Thread!Entry), ItemsFollow(thread'[k])
  PROVE  ThreadOK(k)'
<1>1. ASSUME NEW i \in 1..Len(thread'[k]), IsTip(k, i)' PROVE FALSE
  <2>1. PICK c : c = thread'[k][i].turn
    OBVIOUS
  <2>2. c \in Thread!Step /\ replay[c] # None /\ replay[c].thread = k
    BY <1>1, <2>1, EntryTyped DEF IsTip
  <2> QED BY <2>2, NoReplyYet
<1> QED BY <1>1 DEF ThreadOK, ItemsFollow

\* The turns of a thread that was cut.
LEMMA CutTurns ==
  ASSUME NEW entries \in Seq(Thread!Entry), NEW m \in 0..Len(entries)
  PROVE  /\ Turns(SubSeq(entries, 1, m)) \subseteq Turns(entries)
         /\ ItemsFollow(entries) => ItemsFollow(SubSeq(entries, 1, m))
<1>1. /\ Len(SubSeq(entries, 1, m)) = m
      /\ \A i \in 1..m : SubSeq(entries, 1, m)[i] = entries[i] /\ i \in 1..Len(entries)
  BY CutTyped
<1> QED BY <1>1 DEF Turns, ItemsFollow

LEMMA AddedTurns ==
  ASSUME NEW entries \in Seq(Thread!Entry), NEW e \in Thread!Entry
  PROVE  /\ Append(entries, e) \in Seq(Thread!Entry) /\ Len(Append(entries, e)) = Len(entries) + 1
         /\ Append(entries, e)[Len(entries) + 1] = e /\ \A i \in 1..Len(entries) : Append(entries, e)[i] = entries[i]
         /\ Turns(Append(entries, e)) = Turns(entries) \cup {e.turn}
         /\ ItemsFollow(entries) /\ ToolsFollow(e.items) => ItemsFollow(Append(entries, e))
<1>1. PICK n \in Nat : n = Len(entries)
  OBVIOUS
<1>2. /\ Append(entries, e) \in Seq(Thread!Entry) /\ Len(Append(entries, e)) = n + 1
      /\ Append(entries, e)[n + 1] = e /\ \A i \in 1..n : Append(entries, e)[i] = entries[i]
  BY <1>1
<1>3. PICK more \in Seq(Thread!Entry) : more = Append(entries, e) /\ Len(more) = n + 1 /\ more[n + 1] = e /\ \A i \in 1..n : more[i] = entries[i]
  BY <1>2
<1>4. Turns(more) = Turns(entries) \cup {e.turn}
  <2>1. \A i \in 1..(n + 1) : i \in 1..n \/ i = n + 1
    OBVIOUS
  <2>2. n + 1 \in 1..(n + 1) /\ \A i \in 1..n : i \in 1..(n + 1)
    OBVIOUS
  <2>3. Turns(more) = {more[i].turn : i \in 1..(n + 1)} /\ Turns(entries) = {entries[i].turn : i \in 1..n}
    BY <1>1, <1>3 DEF Turns
  <2> QED BY <1>3, <2>1, <2>2, <2>3
<1>5. ItemsFollow(entries) /\ ToolsFollow(e.items) => ItemsFollow(more)
  <2>1. \A i \in 1..(n + 1) : i \in 1..n \/ i = n + 1
    OBVIOUS
  <2> QED BY <1>1, <1>3, <2>1 DEF ItemsFollow
<1> QED BY <1>1, <1>2, <1>3, <1>4, <1>5

\* The turns on a thread that were replied to there.
Replies(t, entries, i) ==
  LET c == entries[i].turn IN c # None /\ replay[c] # None /\ replay[c].thread = t
TipsOK(t, entries, gone, used) ==
  \A i \in 1..Len(entries) : Replies(t, entries, i) => TipOK(entries, i, Asked(entries[i].turn), gone, used)

\* The replies on a thread, by the entries of the thread.
LEMMA TipsOfThread ==
  ASSUME HeardInv, NEW t \in Thread!Step
  PROVE  TipsOK(t, thread[t], lost[t], InUse(t)) /\ ItemsFollow(thread[t])
BY DEF HeardInv, ThreadOK, TipsOK, Replies, IsTip

LEMMA TipsLeft ==
  ASSUME NEW t, NEW entries, NEW gone, NEW left, gone \subseteq left, NEW used, NEW using,
         used => using, TipsOK(t, entries, gone, used)
  PROVE  TipsOK(t, entries, left, using)
BY TipLeft DEF TipsOK

LEMMA ThreadOfTips ==
  ASSUME NEW t \in Thread!Step, replay' = replay, rollout' = rollout,
         thread'[t] \in Seq(Thread!Entry), ItemsFollow(thread'[t]),
         TipsOK(t, thread'[t], lost'[t], FALSE) \/ (TipsOK(t, thread'[t], lost'[t], TRUE) /\ InUse(t)')
  PROVE  ThreadOK(t)'
<1>1. PICK entries, using : entries = thread'[t] /\ using = InUse(t)'
  OBVIOUS
<1>2. TipsOK(t, entries, lost'[t], using)
  BY <1>1, TipsLeft
<1>3. ASSUME NEW i \in 1..Len(entries), IsTip(t, i)'
      PROVE TipOK(thread[t], i, Asked(thread[t][i].turn), lost[t], InUse(t))'
  <2>1. Replies(t, entries, i)
    BY <1>1, <1>3 DEF IsTip, Replies
  <2>2. PICK c, told : c = entries[i].turn /\ told = Asked(c)
    OBVIOUS
  <2>3. Asked(thread[t][i].turn)' = told
    BY <1>1, <2>2, AskedStays
  <2>4. TipOK(entries, i, told, lost'[t], using)
    BY <1>2, <2>1, <2>2 DEF TipsOK
  <2> QED BY <1>1, <2>3, <2>4 DEF TipOK
<1> QED BY <1>1, <1>3 DEF ThreadOK, ItemsFollow

\* A thread that was cut after the checkpoint of a step.
CutBack(k, c, t, held, left) ==
  /\ t \in Thread!Step /\ t # k /\ c # None /\ t = replay[c].thread
  /\ held \in Seq(Thread!Entry) /\ ItemsFollow(held) /\ Turns(held) \subseteq Turns(thread[t])
  /\ \E i \in 1..Len(held) : held[i].turn = c /\ NoTurns(held, i, Len(held))
  /\ Follows(Thread!Heard(held), Known(k), left)
  /\ TipsOK(t, held, left, FALSE)

\* What is left of a thread after the turns after the checkpoint were rolled back: the
\* items after the checkpoint were either told, or are forsaken.
LEMMA RolledBackHeard ==
  ASSUME ThreadInv, HeardInv, NEW k \in Thread!Step, call[k].pc = "rollingBack", NEW c,
         c = call[k].checkpoint,
         NEW t, t = call[k].thread, NEW held \in Thread!RolledBack(thread[t], call[k].behind),
         NEW left, left = lost[t] \cup (Thread!Messages(held) \ Said(Known(k)))
  PROVE  CutBack(k, c, t, held, left)
<1>1. /\ c # None /\ c \in Thread!Step /\ replay[c] # None /\ t = replay[c].thread /\ t \in Thread!Step /\ Active(k) /\ replay[k] = None
  BY CheckpointAsked, StepTyped DEF ThreadInv, CallInv, HeardInv, StepOK, Active
<1>2. t # k
  BY <1>1, NoReplyYet
<1>3. PICK i \in 1..Len(thread[t]) : thread[t][i].turn = c /\ call[k].behind = Thread!TurnsAfter(thread[t], i)
  BY DEF HeardInv, StepOK
<1>4. PICK entries : entries = thread[t]
  OBVIOUS
<1>5. /\ entries \in Seq(Thread!Entry) /\ Known(k) \in Seq(Thread!Message) /\ ItemsFollow(entries)
      /\ TipOK(entries, i, Known(k), lost[t], InUse(t))
  BY <1>1, <1>3, <1>4, TipOfCheckpoint
<1>6. i \in 1..Len(entries) /\ entries[i].turn # None /\ held \in Thread!RolledBack(entries, Thread!TurnsAfter(entries, i))
  BY <1>1, <1>3, <1>4
<1>7. \E m \in i..Len(entries) : held = SubSeq(entries, 1, m) /\ NoTurns(entries, i, m)
  BY <1>5, <1>6, RolledBackCuts
<1>8. PICK m \in Nat : /\ m \in i..Len(entries) /\ m \in 0..Len(entries) /\ i <= m /\ m <= Len(entries)
                     /\ held = SubSeq(entries, 1, m) /\ NoTurns(entries, i, m)
  <2>1. Len(entries) \in Nat /\ \A x \in i..Len(entries) : x \in Nat /\ x \in 0..Len(entries) /\ i <= x /\ x <= Len(entries)
    BY <1>5, <1>6
  <2> QED BY <1>7, <2>1
<1>9. /\ held \in Seq(Thread!Entry) /\ Len(held) = m /\ \A j \in 1..m : held[j] = entries[j] /\ j \in 1..Len(entries)
  BY <1>5, <1>8, CutTyped
<1>10. ItemsFollow(held) /\ Turns(held) \subseteq Turns(entries)
  BY <1>5, <1>8, CutTurns
<1>11. held[i].turn = c /\ NoTurns(held, i, Len(held)) /\ i \in 1..Len(held)
  <2>1. \A j \in i + 1 .. m : j \in 1..m
    BY <1>6
  <2>2. i \in 1..m
    BY <1>6, <1>8
  <2> QED BY <1>3, <1>4, <1>8, <1>9, <2>1, <2>2 DEF NoTurns
\* What is said after the checkpoint.
<1>12. SaidAfter(held, i, m) \subseteq left \cup Said(Known(k)) /\ SaidAfter(entries, i, m) = SaidAfter(held, i, m)
  <2>1. SaidAfter(held, i, m) \subseteq Thread!Messages(held)
    BY <1>6, <1>9, SaidOnThread
  <2>2. \A j \in i + 1 .. m : j \in 1..m
    BY <1>6
  <2>3. SaidAfter(entries, i, m) = SaidAfter(held, i, m)
    BY <1>9, <2>2 DEF SaidAfter
  <2> QED BY <2>1, <2>3
<1>13. Follows(Thread!Heard(held), Known(k), left)
  <2>0. PICK known \in Seq(Thread!Message) : known = Known(k)
    BY <1>5
  <2>1. PICK gone, used : known = Known(k) /\ gone = lost[t] /\ used = InUse(t)
    BY <2>0
  <2>2. TipOK(entries, i, known, gone, used) /\ gone \subseteq left /\ SaidAfter(entries, i, m) \subseteq left \cup Said(known)
    BY <1>5, <1>12, <2>1
  <2>3. Follows(Thread!Heard(SubSeq(entries, 1, m)), known, left)
    BY <1>5, <1>6, <1>8, <2>2, TipFollows
  <2> QED BY <1>8, <2>1, <2>3
<1>14. TipsOK(t, held, left, FALSE)
  <2> SUFFICES ASSUME NEW p \in 1..Len(held), Replies(t, held, p) PROVE TipOK(held, p, Asked(held[p].turn), left, FALSE)
    BY DEF TipsOK
  <2>1. PICK told, gone, used : told = Asked(held[p].turn) /\ gone = lost[t] /\ used = InUse(t)
    OBVIOUS
  <2>2. TipOK(entries, p, told, gone, used)
    <3>1. TipsOK(t, entries, gone, used)
      BY <1>1, <1>4, <2>1, TipsOfThread
    <3>2. held[p] = entries[p] /\ p \in 1..Len(entries)
      BY <1>9
    <3> QED BY <2>1, <3>1, <3>2 DEF TipsOK, Replies
  <2>3. ASSUME NoTurns(held, p, Len(held))
        PROVE SaidAfter(held, p, Len(held)) \subseteq left \cup Said(told)
    <3>1. held[p].turn # None /\ held[i].turn # None
      BY <1>1, <1>11 DEF Replies
    <3>2. ~(i \in p + 1 .. Len(held)) /\ ~(p \in i + 1 .. Len(held))
      BY <1>11, <2>3, <3>1 DEF NoTurns
    <3>3. p = i
      BY <1>6, <1>9, <1>11, <3>2
    <3>4. told = Known(k)
      <4>1. Known(k) = Asked(c)
        BY <1>1, CheckpointAsked
      <4> QED BY <1>11, <2>1, <3>3, <4>1
    <3> QED BY <1>9, <1>12, <3>3, <3>4
  <2>4. gone \subseteq left /\ p \in 1..m /\ m <= Len(held) /\ \A j \in 1..m : held[j] = entries[j]
    BY <1>9, <2>1
  <2>5. PICK using : using = FALSE
    OBVIOUS
  <2>6. /\ \A j \in m + 1 .. Len(held) : NoTurns(held, p, j) => Said(held[j].items) \cap SaidBefore(told) = {}
        /\ NoTurns(held, p, Len(held)) /\ ~using => SaidAfter(held, p, Len(held)) \subseteq left \cup Said(told)
    BY <1>9, <2>3
  <2>7. /\ entries \in Seq(Thread!Entry) /\ held \in Seq(Thread!Entry) /\ m \in Nat /\ m <= Len(entries) /\ m <= Len(held)
        /\ p \in 1..m /\ (\A j \in 1..m : held[j] = entries[j]) /\ gone \subseteq left /\ TipOK(entries, p, told, gone, used)
    BY <1>5, <1>8, <1>9, <2>2, <2>4
  <2>8. TipOK(held, p, told, left, using)
    BY <2>6, <2>7, TipKept
  <2> QED BY <2>1, <2>5, <2>8
<1> QED BY <1>1, <1>2, <1>4, <1>9, <1>10, <1>11, <1>13, <1>14 DEF CutBack

\* What is forsaken of a thread that a step took up.
LEMMA ForsakenIs ==
  ASSUME ThreadInv, HeardInv, NEW k \in Thread!Step, NEW threads, NEW f, f = Thread!Forsaken(k, threads)
  PROVE  /\ call[k].thread \in {None, k} => f = lost
         /\ call[k].thread \notin {None, k} =>
              /\ f[call[k].thread] = lost[call[k].thread] \cup (Thread!Messages(threads[call[k].thread]) \ Said(Known(k)))
              /\ \A u \in Thread!Step : u # call[k].thread => f[u] = lost[u]
         /\ \A u \in Thread!Step : lost[u] \subseteq f[u]
<1>1. PICK t : t = call[k].thread
  OBVIOUS
<1>2. PICK known \in Seq(Thread!Message) : known = Known(k)
  BY HistoryParts
<1>3. Thread!Range(known) = Said(known)
  BY SaidTyped
<1>4. f = IF t \in {None, k} THEN lost ELSE [lost EXCEPT ![t] = lost[t] \cup (Thread!Messages(threads[t]) \ Said(known))]
  BY <1>1, <1>2, <1>3 DEF Thread!Forsaken, Known
<1>5. t \in Thread!Step \cup {None} /\ DOMAIN lost = Thread!Step
  BY <1>1, StepTyped DEF ThreadInv, Thread!TypeOK
<1> QED BY <1>1, <1>2, <1>4, <1>5

\* A step that keeps the replies, and works on one thread.
LEMMA StepOfThreads ==
  ASSUME ThreadInv, HeardInv, NEW k \in Thread!Step, Active(k), replay[k] = None,
         NEW t \in Thread!Step, t = Thread!ThreadOf(k),
         \A j \in Thread!Step : j # k => call'[j] = call[j], UNCHANGED <<replay, rollout>>,
         \A u \in Thread!Step : u \notin {k, t} => thread'[u] = thread[u],
         \A u \in Thread!Step : u # k => lost[u] \subseteq lost'[u],
         \A u \in {k, t} : Turns(thread'[u]) \subseteq Turns(thread[u]) \cup {None} \cup (IF call'[k].pc \in Thread!Starting THEN {} ELSE {k}),
         call'[k].pc # "idle", call'[k].pc \in Thread!Starting => call[k].pc \in Thread!Starting,
         StepOK(k)', Histories', ThreadOK(k)', ThreadOK(t)'
  PROVE  HeardInv'
<1>1. TurnsStay(k)
  <2>1. ASSUME NEW u \in Thread!Step, NEW x \in Turns(thread[u])' \cup Turns(rollout[u])'
        PROVE  \/ x = None
               \/ \E v \in Thread!Step : x \in Turns(thread[v]) \cup Turns(rollout[v])
               \/ x = k /\ call'[k].pc \notin {"idle"} \cup Thread!Starting
    <3>1. CASE x \in Turns(thread'[u]) /\ u \in {k, t}
      <4>1. x \in Turns(thread[u]) \cup {None} \cup (IF call'[k].pc \in Thread!Starting THEN {} ELSE {k})
        BY <3>1
      <4> QED BY <4>1
    <3>2. CASE x \in Turns(thread'[u]) /\ u \notin {k, t}
      BY <3>2
    <3>3. CASE x \in Turns(rollout[u])
      BY <3>3
    <3>4. Turns(thread[u])' = Turns(thread'[u]) /\ Turns(rollout[u])' = Turns(rollout[u])
      BY DEF Turns
    <3> QED BY <2>1, <3>1, <3>2, <3>3, <3>4
  <2> QED BY <2>1 DEF TurnsStay
<1>2. RolloutOK(k)'
  BY RolloutStays
<1>3. \A j \in Thread!Step : j # k => call'[j] = call[j] /\ replay'[j] = replay[j] /\ rollout'[j] = rollout[j]
  OBVIOUS
<1> QED BY <1>1, <1>2, <1>3, StepOfThread

\* Rollback: the thread is back at the checkpoint; items left after it are forsaken.
LEMMA RollbackHeard ==
  ASSUME ThreadInv, HeardInv, NEW k \in Thread!Step, Thread!Rollback(k)
  PROVE  HeardInv'
<1>1. PICK t, c : t = call[k].thread /\ c = call[k].checkpoint
  OBVIOUS
<1>2. PICK held \in Thread!RolledBack(thread[t], call[k].behind) : thread' = [thread EXCEPT ![t] = held]
  BY <1>1 DEF Thread!Rollback
<1>3. /\ call[k].pc = "rollingBack" /\ Thread!Established(k, t) /\ UNCHANGED <<replay, rollout, history, rewritten>> /\ RepliesStay
      /\ \E threads : threads = thread' /\ lost' = Thread!Forsaken(k, threads)
  BY <1>1 DEF Thread!Rollback, Thread!dsh, RepliesStay
<1>4. PICK left : left = lost[t] \cup (Thread!Messages(held) \ Said(Known(k)))
  OBVIOUS
<1>0. CutBack(k, c, t, held, left)
  BY <1>1, <1>2, <1>3, <1>4, RolledBackHeard
<1>5. /\ t \in Thread!Step /\ t # k /\ c # None /\ t = replay[c].thread
      /\ held \in Seq(Thread!Entry) /\ ItemsFollow(held) /\ Turns(held) \subseteq Turns(thread[t])
      /\ \E i \in 1..Len(held) : held[i].turn = c /\ NoTurns(held, i, Len(held))
      /\ Follows(Thread!Heard(held), Known(k), left)
      /\ TipsOK(t, held, left, FALSE)
  BY <1>0 DEF CutBack
<1>6. thread'[t] = held /\ \A u \in Thread!Step : u # t => thread'[u] = thread[u]
  BY <1>2, <1>5 DEF ThreadInv, Thread!TypeOK
<1>7. lost'[t] = left /\ \A u \in Thread!Step : lost[u] \subseteq lost'[u]
  <2>1. PICK threads : threads = thread' /\ lost' = Thread!Forsaken(k, threads)
    BY <1>3
  <2>2. t \notin {None, k}
    BY <1>5, ThreadAssumption
  <2> QED BY <1>1, <1>4, <1>6, <2>1, <2>2, ForsakenIs
<1>8. StepOK(k)' /\ call'[k].pc \in {"injecting", "turning"} /\ call'[k].messages = call[k].messages
  BY <1>1, <1>3, <1>5, <1>6, <1>7, EstablishedFollows
<1>9. call' = [call EXCEPT ![k] = call'[k]] /\ \A j \in Thread!Step : j # k => call'[j] = call[j]
  BY <1>3 DEF Thread!Established, ThreadInv, Thread!TypeOK
<1>10. Histories'
  BY <1>3, <1>8, <1>9, HistoriesOfStep
<1>11. ThreadOK(t)'
  BY <1>3, <1>5, <1>6, <1>7, ThreadOfTips
<1>12. Active(k) /\ replay[k] = None /\ t = Thread!ThreadOf(k)
  BY <1>1, <1>3, <1>5, ThreadAssumption DEF Active, ThreadInv, CallInv, Thread!ThreadOf
<1>13. ThreadOK(k)'
  <2>1. thread'[k] = thread[k] /\ thread[k] \in Seq(Thread!Entry) /\ ItemsFollow(thread[k])
    BY <1>5, <1>6 DEF ThreadInv, Thread!TypeOK, HeardInv, ThreadOK
  <2> QED BY <1>3, <1>12, <2>1, OwnThread
<1>14. \A u \in {k, t} : Turns(thread'[u]) \subseteq Turns(thread[u])
  BY <1>5, <1>6
<1> QED BY <1>3, <1>5, <1>6, <1>7, <1>8, <1>9, <1>10, <1>11, <1>12, <1>13, <1>14, StepOfThreads DEF Thread!Starting

\* ForkThread: the copy has heard what the thread had when the checkpoint was reached.
LEMMA ForkThreadHeard ==
  ASSUME ThreadInv, HeardInv, NEW k \in Thread!Step, Thread!ForkThread(k)
  PROVE  HeardInv'
<1>1. PICK c : c = call[k].checkpoint
  OBVIOUS
<1>2. /\ call[k].pc = "forking" /\ Thread!Established(k, k) /\ UNCHANGED <<replay, rollout, history, rewritten>> /\ RepliesStay
      /\ thread' = [thread EXCEPT ![k] = rollout[c]] /\ lost' = [lost EXCEPT ![k] = lost[replay[c].thread]]
  BY <1>1 DEF Thread!ForkThread, Thread!dsh, RepliesStay
<1>3. c \in Thread!Step /\ replay[c] # None /\ Known(k) = Asked(c)
  BY <1>1, <1>2, CheckpointAsked, StepTyped DEF ThreadInv, CallInv
<1>4. RolloutOK(c) /\ rollout[c] \in Seq(Thread!Entry)
  BY <1>3 DEF HeardInv, ThreadInv, Thread!TypeOK
<1>5. /\ thread'[k] = rollout[c] /\ lost'[k] = lost[replay[c].thread]
      /\ \A u \in Thread!Step : u # k => thread'[u] = thread[u] /\ lost'[u] = lost[u]
  BY <1>2 DEF ThreadInv, Thread!TypeOK
<1>6. Follows(Thread!Heard(thread'[k]), Known(k), lost'[k])
  BY <1>3, <1>4, <1>5 DEF RolloutOK
<1>7. StepOK(k)' /\ call'[k].pc \in {"injecting", "turning"} /\ call'[k].messages = call[k].messages
  BY <1>2, <1>6, EstablishedFollows
<1>8. call' = [call EXCEPT ![k] = call'[k]] /\ \A j \in Thread!Step : j # k => call'[j] = call[j]
  BY <1>2 DEF Thread!Established, ThreadInv, Thread!TypeOK
<1>9. Histories'
  BY <1>2, <1>7, <1>8, HistoriesOfStep
<1>10. Active(k) /\ replay[k] = None
  BY <1>2 DEF Active, ThreadInv, CallInv
<1>11. ThreadOK(k)'
  BY <1>2, <1>4, <1>5, <1>10, OwnThread DEF RolloutOK
<1>12. TurnsStay(k)
  <2>1. \A u \in Thread!Step : Turns(thread[u])' = Turns(thread'[u]) /\ Turns(rollout[u])' = Turns(rollout[u])
    BY <1>2 DEF Turns
  <2> QED BY <1>2, <1>3, <1>5, <1>7, <1>8, <2>1 DEF TurnsStay, Thread!Starting
<1>13. RolloutOK(k)'
  BY <1>2, <1>10, RolloutStays
<1>14. PICK t \in Thread!Step : t = Thread!ThreadOf(k)
  BY <1>10, ThreadTyped
<1>15. t # k => ThreadOK(t)'
  <2> SUFFICES ASSUME t # k PROVE ThreadOK(t)'
    OBVIOUS
  <2>1. thread'[t] = thread[t] /\ lost[t] \subseteq lost'[t]
    BY <1>5
  <2>2. ~InUse(t)
    BY <1>2, <1>10, <1>14, NotInUse
  <2>3. \A i \in 1..Len(thread[t]) : IsTip(t, i)' => IsTip(t, i)
    BY <1>2, <2>1 DEF IsTip
  <2> QED BY <1>2, <2>1, <2>2, <2>3, ThreadStays
<1>16. ThreadOK(t)'
  BY <1>11, <1>15
<1>17. /\ \A j \in Thread!Step : j # k => call'[j] = call[j] /\ replay'[j] = replay[j] /\ rollout'[j] = rollout[j]
       /\ \A u \in Thread!Step : u \notin {k, t} => thread'[u] = thread[u]
       /\ \A u \in Thread!Step : u # k => lost[u] \subseteq lost'[u]
       /\ replay'[k] = None
  BY <1>2, <1>5, <1>8, <1>10
<1> QED BY <1>7, <1>9, <1>10, <1>11, <1>12, <1>13, <1>14, <1>16, <1>17, StepOfThread

\* A thread whose last turn is the checkpoint.
LEMMA AtTip ==
  ASSUME ThreadInv, HeardInv, NEW k \in Thread!Step, NEW c, c = call[k].checkpoint, c # None, NEW t,
         t = replay[c].thread,
         NEW i \in 1..Len(thread[t]), thread[t][i].turn = c, NoTurns(thread[t], i, Len(thread[t])),
         ~InUse(t)
  PROVE  Follows(Thread!Heard(thread[t]), Known(k), lost[t])
<1>1. PICK entries : entries = thread[t]
  OBVIOUS
<1>2. /\ t \in Thread!Step /\ entries \in Seq(Thread!Entry) /\ Known(k) \in Seq(Thread!Message)
      /\ ItemsFollow(entries) /\ TipOK(entries, i, Known(k), lost[t], InUse(t))
  BY <1>1, TipOfCheckpoint
<1>3. PICK known \in Seq(Thread!Message) : known = Known(k)
  BY <1>2
<1>4. PICK gone, used : gone = lost[t] /\ used = InUse(t)
  OBVIOUS
<1>5. PICK n \in Nat : n = Len(entries) /\ n \in i..Len(entries) /\ i \in 1..Len(entries) /\ NoTurns(entries, i, n)
  <2>1. Len(entries) \in Nat /\ i \in 1..Len(entries) /\ Len(entries) \in i..Len(entries)
    BY <1>1, <1>2
  <2> QED BY <1>1, <2>1
<1>6. TipOK(entries, i, known, gone, used) /\ ~used
  BY <1>2, <1>3, <1>4
<1>7. SaidAfter(entries, i, n) \subseteq gone \cup Said(known)
  BY <1>5, <1>6 DEF TipOK, SaidAfter
<1>8. Follows(Thread!Heard(SubSeq(entries, 1, n)), known, gone)
  BY <1>2, <1>5, <1>6, <1>7, TipFollows
<1>9. SubSeq(entries, 1, n) = entries
  BY <1>2, <1>5, CutWhole
<1> QED BY <1>1, <1>3, <1>4, <1>8, <1>9

LEMMA NoTurnsAfter ==
  ASSUME NEW entries \in Seq(Thread!Entry), NEW i \in Nat, Thread!TurnsAfter(entries, i) = 0
  PROVE  NoTurns(entries, i, Len(entries))
<1> DEFINE turns == {j \in i + 1 .. Len(entries) : entries[j].turn # None}
<1>1. IsFiniteSet(i + 1 .. Len(entries)) /\ turns \subseteq i + 1 .. Len(entries)
  <2>1. i + 1 \in Int /\ Len(entries) \in Int
    OBVIOUS
  <2> QED BY <2>1, FS_Interval
<1>2. Thread!TurnsAfter(entries, i) = Cardinality(turns)
  BY SameCardinality DEF Thread!TurnsAfter
<1>3. turns = {}
  <2> HIDE DEF turns
  <2>1. IsFiniteSet(turns)
    BY <1>1, FS_Subset
  <2> QED BY <1>2, <2>1, FS_EmptySet
<1> QED BY <1>3 DEF NoTurns

\* Resume: a thread whose tip is the checkpoint has heard what the checkpoint was told.
LEMMA ResumeHeard ==
  ASSUME ThreadInv, HeardInv, NEW k \in Thread!Step, Thread!Resume(k)
  PROVE  HeardInv'
<1>1. PICK c : c = call[k].checkpoint
  OBVIOUS
<1>2. PICK t : t = replay[c].thread
  OBVIOUS
<1>3. /\ call[k].pc = "resuming" /\ c # None /\ Active(k) /\ replay[k] = None /\ StepOK(k) /\ call[k] \in Thread!CallState
      /\ call[k].thread = None
  BY <1>1, StepTyped DEF Thread!Resume, ThreadInv, CallInv, Active, HeardInv
<1>4. /\ UNCHANGED <<replay, Thread!vendor, history, rewritten>> /\ rollout' = rollout /\ thread' = thread /\ lost' = lost /\ RepliesStay
  BY DEF Thread!Resume, Thread!dsh, Thread!vendor, RepliesStay
<1>5. t \in Thread!Step /\ t = Thread!ThreadOf(k) /\ thread[t] \in Seq(Thread!Entry)
  BY <1>1, <1>2, <1>3, ThreadTyped DEF Thread!ThreadOf, ThreadInv, Thread!TypeOK
<1> DEFINE own == {0} \cup {i \in 1..Len(thread[t]) : thread[t][i].turn = c}
<1>6. PICK tip \in Nat : tip = Thread!Max(own) /\ (tip # 0 => tip \in 1..Len(thread[t]) /\ thread[t][tip].turn = c)
  <2>1. Len(thread[t]) \in Nat /\ own \subseteq 0..Len(thread[t]) /\ own # {}
    BY <1>5
  <2>2. Thread!Max(own) \in own /\ Thread!Max(own) \in 0..Len(thread[t])
    <3> HIDE DEF own
    <3> QED BY <2>1, MaxUpTo
  <2>3. Thread!Max(own) \in Nat /\ (Thread!Max(own) # 0 => Thread!Max(own) \in {i \in 1..Len(thread[t]) : thread[t][i].turn = c})
    BY <2>1, <2>2
  <2> QED BY <2>3
<1>7. PICK after : after = Thread!TurnsAfter(thread[t], tip)
  OBVIOUS
<1>8. \/ tip # 0 /\ after = 0 /\ Thread!Established(k, t)
      \/ tip # 0 /\ call' = [call EXCEPT ![k].pc = "rollingBack", ![k].thread = t, ![k].behind = after]
      \/ Thread!Goto(k, "forking")
  BY <1>1, <1>2, <1>6, <1>7 DEF Thread!Resume
<1>9. call' = [call EXCEPT ![k] = call'[k]] /\ \A j \in Thread!Step : j # k => call'[j] = call[j]
  BY <1>8 DEF Thread!Goto, Thread!Established, ThreadInv, Thread!TypeOK
<1> HIDE DEF own
<1>10. /\ StepOK(k)' /\ call'[k].messages = call[k].messages
       /\ call'[k].pc \in {"injecting", "turning", "rollingBack", "forking"}
  <2>1. CASE tip # 0 /\ after = 0 /\ Thread!Established(k, t)
    <3>1. tip \in 1..Len(thread[t]) /\ thread[t][tip].turn = c /\ NoTurns(thread[t], tip, Len(thread[t]))
      BY <1>5, <1>6, <1>7, <2>1, NoTurnsAfter
    <3>2. ~InUse(t)
      BY <1>3, <1>5, NotInUse
    <3>3. Follows(Thread!Heard(thread[t]), Known(k), lost[t])
      BY <1>1, <1>2, <1>3, <3>1, <3>2, AtTip
    <3> QED BY <1>1, <1>2, <1>3, <1>4, <1>5, <2>1, <3>1, <3>3, EstablishedFollows
  <2>2. CASE tip # 0 /\ call' = [call EXCEPT ![k].pc = "rollingBack", ![k].thread = t, ![k].behind = after]
    <3>1. /\ call'[k].pc = "rollingBack" /\ call'[k].thread = t /\ call'[k].behind = after
          /\ call'[k].messages = call[k].messages /\ call'[k].checkpoint = c
      BY <1>1, <1>3, <2>2 DEF ThreadInv, Thread!TypeOK, Thread!CallState
    <3>2. Thread!ValidCheckpoint(call[k].messages, Thread!PositionOf(k))'
      BY <1>1, <1>3, <1>4, <3>1, CheckpointGoesOn
    <3> QED BY <1>2, <1>3, <1>4, <1>6, <1>7, <2>2, <3>1, <3>2 DEF StepOK, Unstarted
  <2>3. CASE Thread!Goto(k, "forking")
    <3>1. /\ call'[k].pc = "forking" /\ call'[k].messages = call[k].messages /\ call'[k].checkpoint = c
      BY <1>1, <1>3, <2>3 DEF ThreadInv, Thread!TypeOK, Thread!CallState, Thread!Goto
    <3>2. Thread!ValidCheckpoint(call[k].messages, Thread!PositionOf(k))'
      BY <1>1, <1>3, <1>4, <3>1, CheckpointGoesOn
    <3> QED BY <1>3, <1>4, <3>1, <3>2 DEF StepOK, Unstarted
  <2> QED BY <1>8, <2>1, <2>2, <2>3
<1>11. Histories'
  BY <1>3, <1>4, <1>9, <1>10, HistoriesOfStep
<1> QED BY <1>3, <1>4, <1>9, <1>10, <1>11, ThreadsUntouched DEF Thread!Starting

\* Rebuild: the thread is left, rolled back or not.
LEMMA RebuildHeard ==
  ASSUME ThreadInv, HeardInv, NEW k \in Thread!Step, Thread!Rebuild(k)
  PROVE  HeardInv'
<1>1. /\ call[k].pc \in {"resuming", "rollingBack", "forking"} /\ Active(k) /\ replay[k] = None /\ StepOK(k)
      /\ call[k] \in Thread!CallState /\ thread[k] = <<>>
  BY StepTyped DEF Thread!Rebuild, ThreadInv, CallInv, Active, HeardInv, StepOK, Unstarted
<1>2. UNCHANGED <<replay, rollout, history, rewritten>> /\ RepliesStay
  BY DEF Thread!Rebuild, Thread!dsh, RepliesStay
<1>3. /\ call' = [call EXCEPT ![k] = call'[k]] /\ \A j \in Thread!Step : j # k => call'[j] = call[j]
      /\ call'[k].pc = "starting" /\ call'[k].checkpoint = None /\ call'[k].messages = call[k].messages
  BY <1>1 DEF Thread!Rebuild, ThreadInv, Thread!TypeOK, Thread!CallState
<1>4. Histories'
  BY <1>1, <1>2, <1>3, HistoriesOfStep
<1>5. CASE UNCHANGED <<thread, lost>>
  <2>1. StepOK(k)'
    BY <1>1, <1>3, <1>5 DEF StepOK
  <2> QED BY <1>1, <1>2, <1>3, <1>4, <1>5, <2>1, ThreadsUntouched DEF Thread!Starting, Thread!vendor
<1>6. CASE ~UNCHANGED <<thread, lost>>
  <2>1. PICK t, c : t = call[k].thread /\ c = call[k].checkpoint
    OBVIOUS
  <2>2. /\ call[k].pc = "rollingBack"
        /\ \E held \in Thread!RolledBack(thread[t], call[k].behind) : thread' = [thread EXCEPT ![t] = held]
        /\ \E threads : threads = thread' /\ lost' = Thread!Forsaken(k, threads)
    BY <1>6, <2>1 DEF Thread!Rebuild
  <2>3. PICK held \in Thread!RolledBack(thread[t], call[k].behind) : thread' = [thread EXCEPT ![t] = held]
    BY <2>2
  <2>4. PICK left : left = lost[t] \cup (Thread!Messages(held) \ Said(Known(k)))
    OBVIOUS
  <2>5. CutBack(k, c, t, held, left)
    BY <2>1, <2>2, <2>3, <2>4, RolledBackHeard
  <2>6. /\ t \in Thread!Step /\ t # k /\ held \in Seq(Thread!Entry) /\ ItemsFollow(held) /\ Turns(held) \subseteq Turns(thread[t])
        /\ TipsOK(t, held, left, FALSE)
    BY <2>5 DEF CutBack
  <2>7. thread'[t] = held /\ \A u \in Thread!Step : u # t => thread'[u] = thread[u]
    BY <2>3, <2>6 DEF ThreadInv, Thread!TypeOK
  <2>8. lost'[t] = left /\ \A u \in Thread!Step : lost[u] \subseteq lost'[u]
    <3>1. PICK threads : threads = thread' /\ lost' = Thread!Forsaken(k, threads)
      BY <2>2
    <3>2. t \notin {None, k}
      BY <2>6, ThreadAssumption
    <3> QED BY <2>1, <2>4, <2>7, <3>1, <3>2, ForsakenIs
  <2>9. thread'[k] = <<>>
    BY <1>1, <2>6, <2>7
  <2>10. StepOK(k)'
    BY <1>3, <2>9 DEF StepOK
  <2>11. ThreadOK(t)'
    BY <1>2, <2>6, <2>7, <2>8, ThreadOfTips
  <2>12. t = Thread!ThreadOf(k)
    BY <2>1, <2>6, ThreadAssumption DEF Thread!ThreadOf
  <2>13. ThreadOK(k)'
    <3>1. thread'[k] = thread[k] /\ thread[k] \in Seq(Thread!Entry) /\ ItemsFollow(thread[k])
      BY <2>6, <2>7 DEF ThreadInv, Thread!TypeOK, HeardInv, ThreadOK
    <3> QED BY <1>1, <1>2, <3>1, OwnThread
  <2>14. \A u \in {k, t} : Turns(thread'[u]) \subseteq Turns(thread[u])
    BY <2>6, <2>7
  <2> QED BY <1>1, <1>2, <1>3, <1>4, <2>6, <2>7, <2>8, <2>10, <2>11, <2>12, <2>13, <2>14, StepOfThreads DEF Thread!Starting
<1> QED BY <1>5, <1>6

\* What is injected between the turns, and the turn that follows: the thread has heard
\* the history up to the input, and then all of it.
LEMMA InjectedFollows ==
  ASSUME ThreadInv, HeardInv, NEW k \in Thread!Step, NEW entries \in Seq(Thread!Entry), NEW gone,
         Follows(Thread!Heard(entries), Known(k), gone), NEW e, e = [turn |-> None, items |-> Thread!Injected(k)]
  PROVE  /\ e \in Thread!Entry /\ ToolsFollow(e.items) /\ Said(e.items) \cap SaidBefore(Known(k)) = {}
         /\ Follows(Thread!Heard(Append(entries, e)), BeforeInput(k), gone)
<1>1. PICK again \in Seq(Thread!Message), items \in Seq(Thread!Message) :
           /\ Known(k) \in Seq(Thread!Message) /\ BeforeInput(k) \in Seq(Thread!Message)
           /\ Thread!Injected(k) = again \o items /\ ToolsFollow(again \o items)
           /\ SplitAt(call[k].messages, Thread!PositionOf(k), again, items, Thread!Input(k), Known(k), BeforeInput(k))
  BY HistoryParts
<1>2. PICK known \in Seq(Thread!Message) : known = Known(k)
  BY <1>1
<1>3. PICK injected \in Seq(Thread!Message) : injected = again \o items
  BY MessagesAssociate
<1>4. e \in Thread!Entry /\ e.items = injected /\ e.turn = None
  BY <1>1, <1>3 DEF Thread!Entry
<1>5. /\ BeforeInput(k) = known \o items /\ Distinct(known \o items)
      /\ Said(again) \subseteq Said(known) /\ Said(again) \cap SaidBefore(known) = {}
      /\ Said(items) \cap Said(known) = {} /\ SaidBefore(known) \subseteq Said(known)
  BY <1>1, <1>2 DEF SplitAt
<1>6. Said(injected) = Said(again) \cup Said(items)
  BY <1>3, BothSaid
<1>7. Said(injected) \cap SaidBefore(known) = {}
  BY <1>5, <1>6
<1>8. PICK heard \in Seq(Thread!Message) : heard = Thread!Heard(entries)
  BY HeardTyped
<1>9. Follows(heard \o (again \o items), known \o items, gone)
  <2>1. Follows(heard, known, gone) /\ ToolsFollow(again \o items)
    BY <1>1, <1>2, <1>8
  <2> QED BY <1>5, <2>1, FollowsMore
<1>10. Thread!Heard(Append(entries, e)) = heard \o injected
  BY <1>4, <1>8, HeardMore
<1> QED BY <1>1, <1>2, <1>3, <1>4, <1>5, <1>7, <1>9, <1>10

LEMMA TurnFollows ==
  ASSUME ThreadInv, HeardInv, NEW k \in Thread!Step, NEW entries \in Seq(Thread!Entry), NEW gone,
         Follows(Thread!Heard(entries), BeforeInput(k), gone), NEW e, e = [turn |-> k, items |-> Thread!Input(k)]
  PROVE  /\ e \in Thread!Entry /\ ToolsFollow(e.items)
         /\ Follows(Thread!Heard(Append(entries, e)), call[k].messages, gone)
<1>1. PICK again, items :
           /\ BeforeInput(k) \in Seq(Thread!Message) /\ Thread!Input(k) \in Seq(Thread!Message) /\ Distinct(call[k].messages)
           /\ SplitAt(call[k].messages, Thread!PositionOf(k), again, items, Thread!Input(k), Known(k), BeforeInput(k))
  BY HistoryParts
<1>2. PICK before \in Seq(Thread!Message), input \in Seq(Thread!Message) : before = BeforeInput(k) /\ input = Thread!Input(k)
  BY <1>1
<1>3. call[k].messages = before \o input /\ Distinct(before \o input) /\ ToolsFollow(input)
  BY <1>1, <1>2 DEF SplitAt
<1>4. e \in Thread!Entry /\ e.items = input
  BY <1>2 DEF Thread!Entry
<1>5. PICK heard \in Seq(Thread!Message) : heard = Thread!Heard(entries)
  BY HeardTyped
<1>6. PICK none \in Seq(Thread!Message) : none = <<>> /\ Said(none) = {} /\ none \o input = input
  <2>1. <<>> \in Seq(Thread!Message) /\ Len(<<>>) = 0 /\ <<>> \o input = input
    OBVIOUS
  <2>2. Said(<<>>) = {}
    BY <2>1 DEF Said
  <2> QED BY <2>1, <2>2
<1>7. Follows(heard \o (none \o input), before \o input, gone)
  <2>1. Follows(heard, before, gone) /\ ToolsFollow(none \o input) /\ Said(none) \subseteq Said(before) /\ Said(none) \cap SaidBefore(before) = {}
    BY <1>2, <1>3, <1>5, <1>6
  <2> QED BY <1>3, <2>1, FollowsMore
<1>8. Thread!Heard(Append(entries, e)) = heard \o input
  BY <1>4, <1>5, HeardMore
<1> QED BY <1>3, <1>4, <1>6, <1>7, <1>8

\* The replies on a thread when an entry was added to it, that is a turn of its own, or
\* says nothing of what was told before the reply it follows.
LEMMA TipsAdded ==
  ASSUME NEW t, NEW entries \in Seq(Thread!Entry), NEW e \in Thread!Entry, NEW gone, NEW used,
         TipsOK(t, entries, gone, used),
         \A i \in 1..Len(entries) : Replies(t, entries, i) /\ NoTurns(entries, i, Len(entries)) /\ e.turn = None =>
           Said(e.items) \cap SaidBefore(Asked(entries[i].turn)) = {},
         e.turn # None => replay[e.turn] = None
  PROVE  TipsOK(t, Append(entries, e), gone, TRUE)
<1>1. PICK n \in Nat : n = Len(entries)
  OBVIOUS
<1>2. PICK held \in Seq(Thread!Entry) : held = Append(entries, e) /\ Len(held) = n + 1 /\ held[n + 1] = e /\ \A i \in 1..n : held[i] = entries[i]
  BY <1>1, AddedTurns
<1> SUFFICES ASSUME NEW p \in 1..(n + 1), Replies(t, held, p) PROVE TipOK(held, p, Asked(held[p].turn), gone, TRUE)
  BY <1>2 DEF TipsOK
<1>3. CASE p = n + 1
  <2>1. held[p].turn # None /\ replay[held[p].turn] # None /\ held[p] = e
    BY <1>2, <1>3 DEF Replies
  <2> QED BY <2>1
<1>4. CASE p \in 1..n
  <2>1. PICK told : told = Asked(held[p].turn)
    OBVIOUS
  <2>2. held[p] = entries[p] /\ Replies(t, entries, p) /\ p \in 1..Len(entries)
    BY <1>1, <1>2, <1>4 DEF Replies
  <2>3. TipOK(entries, p, told, gone, used)
    BY <2>1, <2>2 DEF TipsOK
  <2>4. ASSUME NEW j \in n + 1 .. Len(held), NoTurns(held, p, j)
        PROVE Said(held[j].items) \cap SaidBefore(told) = {}
    <3>1. j = n + 1 /\ held[j] = e
      BY <1>2
    <3>2. n + 1 \in p + 1 .. j /\ \A m \in p + 1 .. n : m \in p + 1 .. j /\ m \in 1..n
      BY <1>4, <3>1
    <3>3. e.turn = None /\ NoTurns(entries, p, n)
      BY <1>2, <2>4, <3>2 DEF NoTurns
    <3>4. Said(e.items) \cap SaidBefore(Asked(entries[p].turn)) = {}
      BY <1>1, <2>2, <3>3
    <3> QED BY <2>1, <2>2, <3>1, <3>4
  <2>5. PICK using, left : using = TRUE /\ left = gone
    OBVIOUS
  <2>6. NoTurns(held, p, Len(held)) /\ ~using => SaidAfter(held, p, Len(held)) \subseteq left \cup Said(told)
    BY <2>5
  <2>7. /\ n \in Nat /\ n <= Len(entries) /\ n <= Len(held) /\ p \in 1..n /\ (\A j \in 1..n : held[j] = entries[j])
        /\ gone \subseteq left
    BY <1>1, <1>2, <1>4, <2>5
  <2>8. TipOK(held, p, told, left, using)
    BY <2>3, <2>4, <2>6, <2>7, TipKept
  <2> QED BY <2>1, <2>5, <2>8
<1>5. p = n + 1 \/ p \in 1..n
  OBVIOUS
<1> QED BY <1>3, <1>4, <1>5

\* A thread that a step took up ends with the checkpoint of the step, before its turn.
LEMMA TipAtEnd ==
  ASSUME ThreadInv, HeardInv, NEW k \in Thread!Step, call[k].pc \in {"injecting", "turning"},
         NEW t, t = call[k].thread, t # k, NEW i \in 1..Len(thread[t]), Replies(t, thread[t], i),
         NoTurns(thread[t], i, Len(thread[t]))
  PROVE  thread[t][i].turn = call[k].checkpoint /\ Asked(thread[t][i].turn) = Known(k)
<1>1. PICK c : c = call[k].checkpoint
  OBVIOUS
<1>2. c # None /\ t = replay[c].thread
  BY <1>1 DEF HeardInv, StepOK
<1>3. PICK p \in 1..Len(thread[t]) : thread[t][p].turn = c /\ NoTurns(thread[t], p, Len(thread[t]))
  BY <1>1 DEF HeardInv, StepOK
<1>4. thread[t] \in Seq(Thread!Entry)
  BY <1>1, <1>2, <1>3, TipOfCheckpoint
<1>5. thread[t][i].turn # None /\ thread[t][p].turn # None
  BY <1>2, <1>3 DEF Replies
<1>6. ~(i \in p + 1 .. Len(thread[t])) /\ ~(p \in i + 1 .. Len(thread[t]))
  BY <1>3, <1>5 DEF NoTurns
<1>7. i = p
  BY <1>4, <1>6
<1> QED BY <1>1, <1>2, <1>3, <1>7, CheckpointAsked

\* A thread of a step after the items it had not heard were injected, and after the turn.
Injecting(k, t, threads) ==
  /\ t \in Thread!Step /\ threads[t] \in Seq(Thread!Entry) /\ ItemsFollow(threads[t])
  /\ \A u \in Thread!Step : u # t => threads[u] = thread[u]
  /\ Turns(threads[t]) = Turns(thread[t]) \cup {None}
  /\ Follows(Thread!Heard(threads[t]), BeforeInput(k), lost[t])
  /\ t # k => /\ TipsOK(t, threads[t], lost[t], TRUE)
              /\ \E i \in 1..Len(threads[t]) : threads[t][i].turn = call[k].checkpoint /\ NoTurns(threads[t], i, Len(threads[t]))
Turning(k, t, threads) ==
  /\ t \in Thread!Step /\ threads[t] \in Seq(Thread!Entry) /\ ItemsFollow(threads[t])
  /\ \A u \in Thread!Step : u # t => threads[u] = thread[u]
  /\ Turns(threads[t]) = Turns(thread[t]) \cup {k}
  /\ Follows(Thread!Heard(threads[t]), call[k].messages, lost[t])
  /\ TipsOK(t, threads[t], lost[t], TRUE)
  /\ Len(threads[t]) > 0 /\ threads[t][Len(threads[t])].turn = k
  /\ \A i \in 1..(Len(threads[t]) - 1) : threads[t][i].turn # k

\* What a request does to the thread of a step, and what the thread has heard then.
LEMMA InjectEffect ==
  ASSUME ThreadInv, HeardInv, NEW k \in Thread!Step, call[k].pc = "injecting", NEW t,
         t = call[k].thread,
         NEW threads, threads = Thread!WithItems(t, None, Thread!Injected(k))
  PROVE  Injecting(k, t, threads)
<1>1. t \in Thread!Step /\ thread[t] \in Seq(Thread!Entry)
  BY StepTyped DEF ThreadInv, CallInv, Thread!TypeOK
<1>0. PICK gone : gone = lost[t]
  OBVIOUS
<1>2. PICK entries \in Seq(Thread!Entry) : entries = thread[t] /\ gone = lost[t]
  BY <1>0, <1>1
<1>3. PICK e : e = [turn |-> None, items |-> Thread!Injected(k)]
  OBVIOUS
<1>4. Follows(Thread!Heard(entries), Known(k), gone)
  BY <1>2 DEF HeardInv, StepOK
<1>5. /\ e \in Thread!Entry /\ ToolsFollow(e.items) /\ Said(e.items) \cap SaidBefore(Known(k)) = {}
      /\ Follows(Thread!Heard(Append(entries, e)), BeforeInput(k), gone)
  BY <1>3, <1>4, InjectedFollows
<1>6. e.turn = None
  BY <1>3
<1>7. threads[t] = Append(entries, e) /\ \A u \in Thread!Step : u # t => threads[u] = thread[u]
  BY <1>1, <1>2, <1>3 DEF Thread!WithItems, ThreadInv, Thread!TypeOK
<1>8. PICK held : held = Append(entries, e)
  OBVIOUS
<1>9. /\ held \in Seq(Thread!Entry) /\ Len(held) = Len(entries) + 1
      /\ held[Len(entries) + 1] = e /\ \A i \in 1..Len(entries) : held[i] = entries[i]
      /\ Turns(held) = Turns(entries) \cup {None} /\ (ItemsFollow(entries) => ItemsFollow(held))
  BY <1>5, <1>6, <1>8, AddedTurns
<1>10. ItemsFollow(entries) /\ TipsOK(t, entries, gone, InUse(t))
  BY <1>1, <1>2, TipsOfThread
<1>11. ASSUME t # k PROVE TipsOK(t, held, gone, TRUE)
  <2>1. ASSUME NEW i \in 1..Len(entries), Replies(t, entries, i), NoTurns(entries, i, Len(entries))
        PROVE  Said(e.items) \cap SaidBefore(Asked(entries[i].turn)) = {}
    <3>1. Asked(entries[i].turn) = Known(k)
      BY <1>2, <1>11, <2>1, TipAtEnd
    <3> QED BY <1>5, <3>1
  <2>2. PICK used : used = InUse(t)
    OBVIOUS
  <2>3. TipsOK(t, entries, gone, used) /\ (e.turn # None => replay[e.turn] = None)
    BY <1>6, <1>10, <2>2
  <2> QED BY <1>5, <1>8, <2>1, <2>3, TipsAdded
<1>12. ASSUME t # k
       PROVE  \E i \in 1..Len(held) : held[i].turn = call[k].checkpoint /\ NoTurns(held, i, Len(held))
  <2>1. PICK n \in Nat : n = Len(entries) /\ Len(held) = n + 1
    BY <1>9
  <2>2. PICK i \in 1..n : entries[i].turn = call[k].checkpoint /\ NoTurns(entries, i, n)
    BY <1>2, <1>12, <2>1 DEF HeardInv, StepOK
  <2>3. ASSUME NEW j \in i + 1 .. n + 1 PROVE held[j].turn = None
    <3>1. CASE j = n + 1
      BY <1>6, <1>9, <2>1, <3>1
    <3>2. CASE j # n + 1
      <4>1. j \in i + 1 .. n /\ j \in 1..n
        BY <3>2
      <4> QED BY <1>9, <2>1, <2>2, <4>1 DEF NoTurns
    <3> QED BY <3>1, <3>2
  <2>4. held[i].turn = call[k].checkpoint /\ i \in 1..Len(held)
    BY <1>9, <2>1, <2>2
  <2> QED BY <2>1, <2>3, <2>4 DEF NoTurns
<1> QED BY <1>1, <1>2, <1>5, <1>7, <1>8, <1>9, <1>10, <1>11, <1>12 DEF Injecting

\* The turn of a step: the thread has heard all of the history.
LEMMA TurnEffect ==
  ASSUME ThreadInv, HeardInv, NEW k \in Thread!Step, call[k].pc = "turning", NEW t, t = call[k].thread,
         NEW threads, threads = Thread!WithItems(t, k, Thread!Input(k))
  PROVE  Turning(k, t, threads)
<1>1. t \in Thread!Step /\ thread[t] \in Seq(Thread!Entry) /\ replay[k] = None /\ k # None
  BY StepTyped, ThreadAssumption DEF ThreadInv, CallInv, Thread!TypeOK
<1>0. PICK gone : gone = lost[t]
  OBVIOUS
<1>2. PICK entries \in Seq(Thread!Entry) : entries = thread[t] /\ gone = lost[t]
  BY <1>0, <1>1
<1>3. PICK e : e = [turn |-> k, items |-> Thread!Input(k)]
  OBVIOUS
<1>4. Follows(Thread!Heard(entries), BeforeInput(k), gone)
  BY <1>2 DEF HeardInv, StepOK
<1>5. /\ e \in Thread!Entry /\ ToolsFollow(e.items)
      /\ Follows(Thread!Heard(Append(entries, e)), call[k].messages, gone)
  BY <1>3, <1>4, TurnFollows
<1>6. e.turn = k
  BY <1>3
<1>7. threads[t] = Append(entries, e) /\ \A u \in Thread!Step : u # t => threads[u] = thread[u]
  BY <1>1, <1>2, <1>3 DEF Thread!WithItems, ThreadInv, Thread!TypeOK
<1>8. PICK held : held = Append(entries, e)
  OBVIOUS
<1>9. /\ held \in Seq(Thread!Entry) /\ Len(held) = Len(entries) + 1
      /\ held[Len(entries) + 1] = e /\ \A i \in 1..Len(entries) : held[i] = entries[i]
      /\ Turns(held) = Turns(entries) \cup {k} /\ (ItemsFollow(entries) => ItemsFollow(held))
  BY <1>5, <1>6, <1>8, AddedTurns
<1>10. ItemsFollow(entries) /\ TipsOK(t, entries, gone, InUse(t))
  BY <1>1, <1>2, TipsOfThread
<1>11. TipsOK(t, held, gone, TRUE)
  <2>1. PICK used : used = InUse(t)
    OBVIOUS
  <2>2. TipsOK(t, entries, gone, used) /\ e.turn # None /\ replay[e.turn] = None
    BY <1>1, <1>6, <1>10, <2>1
  <2> QED BY <1>5, <1>8, <2>2, TipsAdded
<1>12. \A i \in 1..Len(entries) : entries[i].turn # k
  <2>1. k \notin Turns(entries)
    BY <1>1, <1>2 DEF HeardInv, TurnsFresh, Thread!Starting
  <2> QED BY <2>1 DEF Turns
<1>13. PICK n \in Nat : n = Len(entries) /\ Len(held) = n + 1
  BY <1>9
<1>14. Len(held) > 0 /\ held[Len(held)].turn = k /\ \A i \in 1..(Len(held) - 1) : held[i].turn # k
  BY <1>6, <1>9, <1>12, <1>13
<1> QED BY <1>1, <1>2, <1>5, <1>7, <1>8, <1>9, <1>10, <1>11, <1>14 DEF Turning

\* Where a step works before its turn and during it.
LEMMA ThreadTaken ==
  ASSUME ThreadInv, HeardInv, NEW k \in Thread!Step,
         call[k].pc \in {"injecting", "turning", "streaming"}
  PROVE  /\ Active(k) /\ replay[k] = None /\ k # None /\ call[k].thread \in Thread!Step /\ call[k].thread = Thread!ThreadOf(k)
         /\ thread[k] \in Seq(Thread!Entry) /\ ItemsFollow(thread[k]) /\ StepOK(k)
         /\ call[k].checkpoint # None => replay[call[k].checkpoint] # None
<1>1. call[k].thread # None /\ replay[k] = None /\ Active(k) /\ (call[k].checkpoint # None => replay[call[k].checkpoint] # None)
  BY DEF ThreadInv, CallInv, Active
<1>2. call[k].thread \in Thread!Step /\ thread[k] \in Seq(Thread!Entry)
  BY <1>1, StepTyped DEF ThreadInv, Thread!TypeOK
<1> QED BY <1>1, <1>2, ThreadAssumption DEF HeardInv, ThreadOK, Thread!ThreadOf

\* Inject and StartTurn: the thread hears the rest of the history, in order.
LEMMA InjectHeard ==
  ASSUME ThreadInv, HeardInv, NEW k \in Thread!Step, Thread!Inject(k)
  PROVE  HeardInv'
<1>1. PICK t, c : t = call[k].thread /\ c = call[k].checkpoint
  OBVIOUS
<1>2. /\ call[k].pc = "injecting" /\ Thread!Goto(k, "turning") /\ lost' = lost
      /\ UNCHANGED <<replay, rollout, history, rewritten>> /\ RepliesStay
      /\ \E threads : threads = thread' /\ threads = Thread!WithItems(t, None, Thread!Injected(k))
  BY <1>1 DEF Thread!Inject, Thread!dsh, RepliesStay
<1>3. PICK threads : threads = thread' /\ threads = Thread!WithItems(t, None, Thread!Injected(k))
  BY <1>2
<1>0. Injecting(k, t, threads)
  BY <1>1, <1>2, <1>3, InjectEffect
<1>4. /\ t \in Thread!Step /\ threads[t] \in Seq(Thread!Entry) /\ ItemsFollow(threads[t])
      /\ \A u \in Thread!Step : u # t => threads[u] = thread[u]
      /\ Turns(threads[t]) = Turns(thread[t]) \cup {None}
      /\ Follows(Thread!Heard(threads[t]), BeforeInput(k), lost[t])
      /\ t # k => /\ TipsOK(t, threads[t], lost[t], TRUE)
                  /\ \E i \in 1..Len(threads[t]) : threads[t][i].turn = c /\ NoTurns(threads[t], i, Len(threads[t]))
  BY <1>0, <1>1 DEF Injecting
<1>5. /\ Active(k) /\ replay[k] = None /\ t = Thread!ThreadOf(k) /\ StepOK(k) /\ thread[k] \in Seq(Thread!Entry) /\ ItemsFollow(thread[k])
      /\ c # None => replay[c] # None
  BY <1>1, <1>2, ThreadTaken
<1>6. /\ call' = [call EXCEPT ![k] = call'[k]] /\ \A j \in Thread!Step : j # k => call'[j] = call[j]
      /\ call'[k].pc = "turning" /\ call'[k].messages = call[k].messages /\ call'[k].checkpoint = c /\ call'[k].thread = t
  BY <1>1, <1>2, StepTyped DEF Thread!Goto, ThreadInv, Thread!TypeOK, Thread!CallState
<1>7. StepOK(k)'
  <2>1. c # None => Thread!ValidCheckpoint(call[k].messages, Thread!PositionOf(k))' /\ replay'[c] = replay[c]
    BY <1>1, <1>2, <1>6, CheckpointGoesOn
  <2>2. BeforeInput(k)' = BeforeInput(k)
    BY <1>1, <1>6, PositionStays
  <2>3. t # k => c # None /\ t = replay[c].thread
    BY <1>1, <1>2, <1>5 DEF StepOK
  <2>4. Thread!Heard(thread[t])' = Thread!Heard(threads[t])
    BY <1>3, <1>6 DEF Thread!Heard
  <2>5. Follows(Thread!Heard(thread'[t]), BeforeInput(k)', lost'[t])
    BY <1>2, <1>3, <1>4, <2>2
  <2>6. t # k => \E i \in 1..Len(thread'[t]) : thread'[t][i].turn = c /\ NoTurns(thread'[t], i, Len(thread'[t]))
    BY <1>3, <1>4
  <2> QED BY <1>2, <1>6, <2>1, <2>3, <2>5, <2>6 DEF StepOK, Unstarted
<1>8. Histories'
  BY <1>2, <1>6, HistoriesOfStep
<1>9. t # k => ThreadOK(t)'
  <2> SUFFICES ASSUME t # k PROVE ThreadOK(t)'
    OBVIOUS
  <2>1. InUse(t)'
    BY <1>6 DEF InUse
  <2>2. TipsOK(t, thread'[t], lost'[t], TRUE) /\ thread'[t] \in Seq(Thread!Entry) /\ ItemsFollow(thread'[t])
    BY <1>2, <1>3, <1>4
  <2> QED BY <1>2, <1>4, <2>1, <2>2, ThreadOfTips
<1>10. ThreadOK(k)'
  <2>1. thread'[k] \in Seq(Thread!Entry) /\ ItemsFollow(thread'[k])
    <3>1. CASE t = k
      BY <1>3, <1>4, <3>1
    <3>2. CASE t # k
      BY <1>3, <1>4, <1>5, <3>2
    <3> QED BY <3>1, <3>2
  <2> QED BY <1>2, <1>5, <2>1, OwnThread
<1>11. ThreadOK(t)'
  BY <1>9, <1>10
<1>12. \A u \in {k, t} : Turns(thread'[u]) \subseteq Turns(thread[u]) \cup {None}
  BY <1>3, <1>4
<1>13. \A u \in Thread!Step : u \notin {k, t} => thread'[u] = thread[u]
  BY <1>3, <1>4
<1> QED BY <1>2, <1>4, <1>5, <1>6, <1>7, <1>8, <1>10, <1>11, <1>12, <1>13, StepOfThreads DEF Thread!Starting

LEMMA StartTurnHeard ==
  ASSUME ThreadInv, HeardInv, NEW k \in Thread!Step, Thread!StartTurn(k)
  PROVE  HeardInv'
<1>1. PICK t, c : t = call[k].thread /\ c = call[k].checkpoint
  OBVIOUS
<1>2. /\ call[k].pc = "turning" /\ Thread!Goto(k, "streaming") /\ lost' = lost
      /\ UNCHANGED <<replay, rollout, history, rewritten>> /\ RepliesStay
      /\ \E threads : threads = thread' /\ threads = Thread!WithItems(t, k, Thread!Input(k))
  BY <1>1 DEF Thread!StartTurn, Thread!dsh, RepliesStay
<1>3. PICK threads : threads = thread' /\ threads = Thread!WithItems(t, k, Thread!Input(k))
  BY <1>2
<1>0. Turning(k, t, threads)
  BY <1>1, <1>2, <1>3, TurnEffect
<1>4. /\ t \in Thread!Step /\ threads[t] \in Seq(Thread!Entry) /\ ItemsFollow(threads[t])
      /\ \A u \in Thread!Step : u # t => threads[u] = thread[u]
      /\ Turns(threads[t]) = Turns(thread[t]) \cup {k}
      /\ Follows(Thread!Heard(threads[t]), call[k].messages, lost[t])
      /\ TipsOK(t, threads[t], lost[t], TRUE)
      /\ Len(threads[t]) > 0 /\ threads[t][Len(threads[t])].turn = k
      /\ \A i \in 1..(Len(threads[t]) - 1) : threads[t][i].turn # k
  BY <1>0, <1>1 DEF Turning
<1>5. /\ Active(k) /\ replay[k] = None /\ t = Thread!ThreadOf(k) /\ StepOK(k) /\ thread[k] \in Seq(Thread!Entry) /\ ItemsFollow(thread[k])
      /\ c # None => replay[c] # None
  BY <1>1, <1>2, ThreadTaken
<1>6. /\ call' = [call EXCEPT ![k] = call'[k]] /\ \A j \in Thread!Step : j # k => call'[j] = call[j]
      /\ call'[k].pc = "streaming" /\ call'[k].messages = call[k].messages /\ call'[k].checkpoint = c /\ call'[k].thread = t
  BY <1>1, <1>2, StepTyped DEF Thread!Goto, ThreadInv, Thread!TypeOK, Thread!CallState
<1>7. StepOK(k)'
  <2>1. c # None => Thread!ValidCheckpoint(call[k].messages, Thread!PositionOf(k))'
    BY <1>1, <1>2, <1>6, CheckpointGoesOn
  <2>2. /\ Follows(Thread!Heard(thread'[t]), call'[k].messages, lost'[t])
        /\ Len(thread'[t]) > 0 /\ thread'[t][Len(thread'[t])].turn = k
        /\ \A i \in 1..(Len(thread'[t]) - 1) : thread'[t][i].turn # k
    BY <1>2, <1>3, <1>4, <1>6
  <2> QED BY <1>2, <1>6, <2>1, <2>2 DEF StepOK, Unstarted
<1>8. Histories'
  BY <1>2, <1>6, HistoriesOfStep
<1>9. ThreadOK(t)'
  <2>1. InUse(t)'
    BY <1>6 DEF InUse
  <2>2. TipsOK(t, thread'[t], lost'[t], TRUE) /\ thread'[t] \in Seq(Thread!Entry) /\ ItemsFollow(thread'[t])
    BY <1>2, <1>3, <1>4
  <2> QED BY <1>2, <1>4, <2>1, <2>2, ThreadOfTips
<1>10. ThreadOK(k)'
  <2>1. thread'[k] \in Seq(Thread!Entry) /\ ItemsFollow(thread'[k])
    <3>1. CASE t = k
      BY <1>3, <1>4, <3>1
    <3>2. CASE t # k
      BY <1>3, <1>4, <1>5, <3>2
    <3> QED BY <3>1, <3>2
  <2> QED BY <1>2, <1>5, <2>1, OwnThread
<1>11. \A u \in {k, t} : Turns(thread'[u]) \subseteq Turns(thread[u]) \cup {k}
  BY <1>3, <1>4
<1>12. \A u \in Thread!Step : u \notin {k, t} => thread'[u] = thread[u]
  BY <1>3, <1>4
<1> QED BY <1>2, <1>4, <1>5, <1>6, <1>7, <1>8, <1>9, <1>10, <1>11, <1>12, StepOfThreads DEF Thread!Starting

-----------------------------------------------------------------------------
(* Steps that fail, and steps that end *)

\* What a failed step gave a thread is forsaken.
LEMMA ForsakenTips ==
  ASSUME NEW k \in Thread!Step, NEW t, NEW held \in Seq(Thread!Entry), NEW gone, NEW used,
         TipsOK(t, held, gone, used),
         \A i \in 1..Len(held) : Replies(t, held, i) /\ NoTurns(held, i, Len(held)) => Asked(held[i].turn) = Known(k)
  PROVE  TipsOK(t, held, gone \cup (Thread!Messages(held) \ Said(Known(k))), FALSE)
<1>1. PICK left, n : left = gone \cup (Thread!Messages(held) \ Said(Known(k))) /\ n = Len(held)
  OBVIOUS
<1> SUFFICES ASSUME NEW i \in 1..n, Replies(t, held, i) PROVE TipOK(held, i, Asked(held[i].turn), left, FALSE)
  BY <1>1 DEF TipsOK
<1>2. PICK told : told = Asked(held[i].turn)
  OBVIOUS
<1>3. TipOK(held, i, told, gone, used)
  BY <1>1, <1>2 DEF TipsOK
<1>4. PICK using : using = FALSE
  OBVIOUS
<1>5. NoTurns(held, i, n) => SaidAfter(held, i, n) \subseteq left \cup Said(told)
  <2> SUFFICES ASSUME NoTurns(held, i, n) PROVE SaidAfter(held, i, n) \subseteq left \cup Said(told)
    OBVIOUS
  <2>1. told = Known(k)
    BY <1>1, <1>2
  <2>2. SaidAfter(held, i, n) \subseteq Thread!Messages(held)
    <3>1. i \in Nat /\ n \in Nat /\ n <= Len(held)
      BY <1>1
    <3> QED BY <3>1, SaidOnThread
  <2> QED BY <1>1, <2>1, <2>2
<1>6. /\ n \in Nat /\ n <= Len(held) /\ i \in 1..n /\ gone \subseteq left
      /\ \A j \in n + 1 .. Len(held) : NoTurns(held, i, j) => Said(held[j].items) \cap SaidBefore(told) = {}
      /\ NoTurns(held, i, Len(held)) /\ ~using => SaidAfter(held, i, Len(held)) \subseteq left \cup Said(told)
  BY <1>1, <1>5
<1>7. TipOK(held, i, told, left, using)
  BY <1>3, <1>6, TipKept
<1> QED BY <1>2, <1>4, <1>7

\* A thread has one last turn.
LEMMA LastTurn ==
  ASSUME NEW held \in Seq(Thread!Entry), NEW i \in 1..Len(held), NEW p \in 1..Len(held),
         held[i].turn # None, held[p].turn # None,
         NoTurns(held, i, Len(held)), NoTurns(held, p, Len(held))
  PROVE  i = p
<1>1. ~(i \in p + 1 .. Len(held)) /\ ~(p \in i + 1 .. Len(held))
  BY DEF NoTurns
<1> QED BY <1>1

\* What a thread that a step took up is left with when the step fails.
Forsaking(k, t, threads) ==
  /\ threads[t] \in Seq(Thread!Entry) /\ ItemsFollow(threads[t])
  /\ \A u \in Thread!Step : u # t => threads[u] = thread[u]
  /\ Turns(threads[t]) \subseteq Turns(thread[t]) \cup {None, k}
  /\ TipsOK(t, threads[t], lost[t] \cup (Thread!Messages(threads[t]) \ Said(Known(k))), FALSE)

\* A request that failed, whether it took effect or not, leaves the replies on the thread good.
LEMMA EffectForsaken ==
  ASSUME ThreadInv, HeardInv, NEW k \in Thread!Step,
         call[k].pc \in {"rollingBack", "injecting", "turning"},
         NEW t, t = call[k].thread, t # k, NEW threads \in Thread!Effects(k)
  PROVE  Forsaking(k, t, threads)
<1>1. PICK gone, used : gone = lost[t] /\ used = InUse(t)
  OBVIOUS
<1>2. PICK left : left = gone \cup (Thread!Messages(threads[t]) \ Said(Known(k)))
  OBVIOUS
<1>3. /\ t \in Thread!Step /\ thread[t] \in Seq(Thread!Entry) /\ ItemsFollow(thread[t]) /\ Active(k) /\ replay[k] = None /\ k # None
      /\ t = Thread!ThreadOf(k) /\ StepOK(k) /\ thread \in [Thread!Step -> Seq(Thread!Entry)]
  BY StepTyped, ThreadAssumption DEF ThreadInv, CallInv, Thread!TypeOK, Active, HeardInv, ThreadOK, Thread!ThreadOf
<1>4. TipsOK(t, thread[t], gone, used)
  BY <1>1, <1>3, TipsOfThread
<1>5. CASE threads = thread
  <2>1. CASE call[k].pc = "rollingBack"
    <3>1. ~used
      BY <1>1, <1>3, <2>1, NotInUse
    <3>2. PICK using : using = FALSE
      OBVIOUS
    <3>3. TipsOK(t, threads[t], left, using)
      BY <1>2, <1>4, <1>5, <3>1, <3>2, TipsLeft
    <3> QED BY <1>1, <1>2, <1>3, <1>5, <3>2, <3>3 DEF Forsaking
  <2>2. CASE call[k].pc \in {"injecting", "turning"}
    <3>1. PICK held \in Seq(Thread!Entry) : held = thread[t]
      BY <1>3
    <3>2. \A i \in 1..Len(held) : Replies(t, held, i) /\ NoTurns(held, i, Len(held)) => Asked(held[i].turn) = Known(k)
      BY <2>2, <3>1, TipAtEnd
    <3>3. TipsOK(t, held, gone, used)
      BY <1>4, <3>1
    <3>4. TipsOK(t, held, gone \cup (Thread!Messages(held) \ Said(Known(k))), FALSE)
      BY <3>2, <3>3, ForsakenTips
    <3> QED BY <1>1, <1>3, <1>5, <3>1, <3>4 DEF Forsaking
  <2> QED BY <2>1, <2>2
<1>6. CASE call[k].pc = "rollingBack" /\ threads # thread
  <2>1. PICK held \in Thread!RolledBack(thread[t], call[k].behind) : threads = [thread EXCEPT ![t] = held]
    BY <1>6 DEF Thread!Effects
  <2>2. threads[t] = held /\ \A u \in Thread!Step : u # t => threads[u] = thread[u]
    BY <1>3, <2>1
  <2>3. PICK c : c = call[k].checkpoint
    OBVIOUS
  <2>4. left = lost[t] \cup (Thread!Messages(held) \ Said(Known(k)))
    BY <1>1, <1>2, <2>2
  <2>5. CutBack(k, c, t, held, left)
    BY <1>6, <2>3, <2>4, RolledBackHeard
  <2>6. held \in Seq(Thread!Entry) /\ ItemsFollow(held) /\ Turns(held) \subseteq Turns(thread[t]) /\ TipsOK(t, held, left, FALSE)
    BY <2>5 DEF CutBack
  <2> QED BY <1>1, <1>2, <2>2, <2>6 DEF Forsaking
<1>7. CASE call[k].pc = "injecting" /\ threads # thread
  <2>1. threads = Thread!WithItems(t, None, Thread!Injected(k))
    BY <1>7 DEF Thread!Effects
  <2>2. Injecting(k, t, threads)
    BY <1>7, <2>1, InjectEffect
  <2>3. PICK held \in Seq(Thread!Entry) : held = threads[t]
    BY <2>2 DEF Injecting
  <2>4. PICK p \in 1..Len(held) : held[p].turn = call[k].checkpoint /\ NoTurns(held, p, Len(held))
    BY <2>2, <2>3 DEF Injecting
  <2>5. call[k].checkpoint # None /\ Asked(call[k].checkpoint) = Known(k)
    BY <1>3, <1>7, CheckpointAsked DEF StepOK
  <2>6. \A i \in 1..Len(held) : Replies(t, held, i) /\ NoTurns(held, i, Len(held)) => Asked(held[i].turn) = Known(k)
    <3> SUFFICES ASSUME NEW i \in 1..Len(held), Replies(t, held, i), NoTurns(held, i, Len(held)) PROVE Asked(held[i].turn) = Known(k)
      OBVIOUS
    <3>1. held[i].turn # None /\ held[p].turn # None
      BY <2>4, <2>5 DEF Replies
    <3>2. i = p
      BY <2>4, <3>1, LastTurn
    <3> QED BY <2>4, <2>5, <3>2
  <2>7. PICK using : using = TRUE
    OBVIOUS
  <2>8. TipsOK(t, held, gone, using) /\ ItemsFollow(held) /\ Turns(held) = Turns(thread[t]) \cup {None}
    BY <1>1, <2>2, <2>3, <2>7 DEF Injecting
  <2>9. TipsOK(t, held, gone \cup (Thread!Messages(held) \ Said(Known(k))), FALSE)
    BY <2>6, <2>8, ForsakenTips
  <2>10. \A u \in Thread!Step : u # t => threads[u] = thread[u]
    BY <2>2 DEF Injecting
  <2> QED BY <1>1, <2>3, <2>8, <2>9, <2>10 DEF Forsaking
<1>8. CASE call[k].pc = "turning" /\ threads # thread
  <2>1. threads = Thread!WithItems(t, k, Thread!Input(k))
    BY <1>8 DEF Thread!Effects
  <2>2. Turning(k, t, threads)
    BY <1>8, <2>1, TurnEffect
  <2>3. PICK held \in Seq(Thread!Entry) : held = threads[t]
    BY <2>2 DEF Turning
  <2>4. Len(held) > 0 /\ held[Len(held)].turn = k
    BY <2>2, <2>3 DEF Turning
  <2>5. \A i \in 1..Len(held) : Replies(t, held, i) /\ NoTurns(held, i, Len(held)) => Asked(held[i].turn) = Known(k)
    <3> SUFFICES ASSUME NEW i \in 1..Len(held), Replies(t, held, i), NoTurns(held, i, Len(held)) PROVE FALSE
      OBVIOUS
    <3>1. i # Len(held)
      BY <1>3, <2>4 DEF Replies
    <3>2. Len(held) \in i + 1 .. Len(held)
      BY <3>1
    <3> QED BY <1>3, <2>4, <3>2 DEF NoTurns
  <2>6. PICK using : using = TRUE
    OBVIOUS
  <2>7. TipsOK(t, held, gone, using) /\ ItemsFollow(held) /\ Turns(held) = Turns(thread[t]) \cup {k}
    BY <1>1, <2>2, <2>3, <2>6 DEF Turning
  <2>8. TipsOK(t, held, gone \cup (Thread!Messages(held) \ Said(Known(k))), FALSE)
    BY <2>5, <2>7, ForsakenTips
  <2>9. \A u \in Thread!Step : u # t => threads[u] = thread[u]
    BY <2>2 DEF Turning
  <2> QED BY <1>1, <2>3, <2>7, <2>8, <2>9 DEF Forsaking
<1> QED BY <1>5, <1>6, <1>7, <1>8

\* A step that is over keeps nothing but its thread.
LEMMA LeaveHeard ==
  ASSUME ThreadInv, NEW k \in Thread!Step, Thread!Leave(k)
  PROVE  /\ call' = [call EXCEPT ![k] = call'[k]] /\ \A j \in Thread!Step : j # k => call'[j] = call[j]
         /\ call'[k].pc = "closing" /\ call'[k].messages = <<>> /\ StepOK(k)'
<1>1. /\ call' = [call EXCEPT ![k] = call'[k]] /\ \A j \in Thread!Step : j # k => call'[j] = call[j]
      /\ call'[k].pc = "closing" /\ call'[k].messages = <<>> /\ call'[k].checkpoint = None
  BY StepTyped DEF Thread!Leave, ThreadInv, Thread!TypeOK, Thread!CallState
<1> QED BY <1>1 DEF StepOK, Unstarted

\* A step that fails on a thread of its own, or on one that it took up.
LEMMA StepForsaken ==
  ASSUME ThreadInv, HeardInv, NEW k \in Thread!Step, Active(k), replay[k] = None,
         NEW t \in Thread!Step, t = call[k].thread,
         Thread!Leave(k), UNCHANGED <<replay, rollout>>, Histories',
         NEW threads \in [Thread!Step -> Seq(Thread!Entry)], thread' = Thread!Abandoned(k, threads),
         lost' = Thread!Forsaken(k, threads),
         t # k => Forsaking(k, t, threads), t = k => \A u \in Thread!Step : u # k => threads[u] = thread[u]
  PROVE  HeardInv'
<1>1. t # None /\ t = Thread!ThreadOf(k) /\ k # None
  BY ThreadAssumption DEF Thread!ThreadOf
<1>2. /\ \A j \in Thread!Step : j # k => call'[j] = call[j]
      /\ call'[k].pc = "closing" /\ StepOK(k)'
  BY LeaveHeard
<1>3. call'[k].pc # "idle" /\ call'[k].pc \notin Thread!Starting
  BY <1>2 DEF Thread!Starting
<1>4. \A u \in Thread!Step : lost[u] \subseteq lost'[u]
  BY ForsakenIs
<1>5. thread[k] \in Seq(Thread!Entry) /\ ItemsFollow(thread[k])
  BY DEF ThreadInv, Thread!TypeOK, HeardInv, ThreadOK
<1>6. CASE t = k
  <2>1. thread'[k] = <<>> /\ \A u \in Thread!Step : u # k => thread'[u] = thread[u]
    BY <1>6 DEF Thread!Abandoned
  <2>2. <<>> \in Seq(Thread!Entry) /\ Turns(<<>>) = {} /\ ItemsFollow(<<>>)
    <3>1. <<>> \in Seq(Thread!Entry) /\ Len(<<>>) = 0
      OBVIOUS
    <3> QED BY <3>1 DEF Turns, ItemsFollow
  <2>3. ThreadOK(k)'
    BY <2>1, <2>2, OwnThread
  <2>4. \A u \in {k, t} : Turns(thread'[u]) \subseteq Turns(thread[u])
    BY <1>6, <2>1, <2>2
  <2>5. \A u \in Thread!Step : u \notin {k, t} => thread'[u] = thread[u]
    BY <2>1
  <2> QED BY <1>1, <1>2, <1>3, <1>4, <1>6, <2>3, <2>4, <2>5, StepOfThreads
<1>7. CASE t # k
  <2>1. /\ threads[t] \in Seq(Thread!Entry) /\ ItemsFollow(threads[t])
        /\ \A u \in Thread!Step : u # t => threads[u] = thread[u]
        /\ Turns(threads[t]) \subseteq Turns(thread[t]) \cup {None, k}
        /\ TipsOK(t, threads[t], lost[t] \cup (Thread!Messages(threads[t]) \ Said(Known(k))), FALSE)
    BY <1>7 DEF Forsaking
  <2>2. thread' = threads
    BY <1>7 DEF Thread!Abandoned
  <2>3. lost'[t] = lost[t] \cup (Thread!Messages(threads[t]) \ Said(Known(k)))
    <3>1. PICK f : f = lost' /\ f = Thread!Forsaken(k, threads)
      OBVIOUS
    <3>2. call[k].thread \notin {None, k}
      BY <1>1, <1>7
    <3>3. f[call[k].thread] = lost[call[k].thread] \cup (Thread!Messages(threads[call[k].thread]) \ Said(Known(k)))
      BY <3>1, <3>2, ForsakenIs
    <3> QED BY <3>1, <3>3
  <2>4. ThreadOK(t)'
    <3>1. TipsOK(t, thread'[t], lost'[t], FALSE) /\ thread'[t] \in Seq(Thread!Entry) /\ ItemsFollow(thread'[t])
      BY <2>1, <2>2, <2>3
    <3> QED BY <3>1, ThreadOfTips
  <2>5. ThreadOK(k)'
    <3>1. thread'[k] = thread[k]
      BY <1>7, <2>1, <2>2
    <3> QED BY <1>5, <3>1, OwnThread
  <2>6. \A u \in {k, t} : Turns(thread'[u]) \subseteq Turns(thread[u]) \cup {None, k}
    BY <1>7, <2>1, <2>2
  <2>7. \A u \in Thread!Step : u \notin {k, t} => thread'[u] = thread[u]
    BY <2>1, <2>2
  <2> QED BY <1>1, <1>2, <1>3, <1>4, <2>4, <2>5, <2>6, <2>7, StepOfThreads
<1> QED BY <1>6, <1>7

\* Fail: what a starting step gave a thread is forsaken.
LEMMA FailHeard ==
  ASSUME ThreadInv, HeardInv, NEW k \in Thread!Step, Thread!Fail(k)
  PROVE  HeardInv'
<1>1. call[k].pc \in Thread!Starting /\ Thread!Leave(k) /\ UNCHANGED <<replay, rollout, history, rewritten>>
  BY DEF Thread!Fail, Thread!dsh
<1>2. PICK threads \in Thread!Effects(k) : thread' = Thread!Abandoned(k, threads) /\ lost' = Thread!Forsaken(k, threads)
  BY DEF Thread!Fail
<1>3. threads \in [Thread!Step -> Seq(Thread!Entry)]
  BY <1>2, EffectsTyped DEF ThreadInv
<1>4. Active(k) /\ replay[k] = None /\ k # None
  BY <1>1, ThreadAssumption DEF Thread!Starting, Active, ThreadInv, CallInv
<1>5. /\ call' = [call EXCEPT ![k] = call'[k]] /\ \A j \in Thread!Step : j # k => call'[j] = call[j]
      /\ call'[k].pc = "closing" /\ call'[k].messages = <<>> /\ StepOK(k)'
  BY <1>1, LeaveHeard
<1>6. Histories'
  BY <1>1, <1>4, <1>5, HistoriesOfStep DEF Thread!Starting
<1>7. PICK t : t = call[k].thread
  OBVIOUS
<1>8. CASE t = None
  <2>1. call[k].pc \notin {"rollingBack", "injecting", "turning", "streaming"}
    BY <1>7, <1>8 DEF ThreadInv, CallInv
  <2>2. threads = thread
    BY <1>2, <2>1 DEF Thread!Effects
  <2>3. thread' = thread
    BY <1>2, <1>4, <1>7, <1>8, <2>2 DEF Thread!Abandoned
  <2>4. lost' = lost
    BY <1>2, <1>7, <1>8 DEF Thread!Forsaken
  <2>5. UNCHANGED <<replay, Thread!vendor>>
    BY <1>1, <2>3, <2>4 DEF Thread!vendor
  <2> QED BY <1>5, <1>6, <2>1, <2>5, ThreadsUntouched DEF Thread!Starting
<1>9. CASE t # None
  <2>1. t \in Thread!Step /\ call[k].pc \in {"rollingBack", "injecting", "turning"}
    BY <1>1, <1>7, <1>9, StepTyped DEF ThreadInv, CallInv, Thread!Starting
  <2>2. t # k => Forsaking(k, t, threads)
    BY <1>2, <1>7, <2>1, EffectForsaken
  <2>3. t = k => \A u \in Thread!Step : u # k => threads[u] = thread[u]
    <3> SUFFICES ASSUME t = k PROVE \A u \in Thread!Step : u # k => threads[u] = thread[u]
      OBVIOUS
    <3>1. PICK held : threads = thread \/ threads = [thread EXCEPT ![t] = held]
      BY <1>2, <1>7, <2>1 DEF Thread!Effects, Thread!WithItems
    <3> QED BY <3>1 DEF ThreadInv, Thread!TypeOK
  <2> QED BY <1>1, <1>2, <1>3, <1>4, <1>6, <1>7, <2>1, <2>2, <2>3, StepForsaken
<1> QED BY <1>8, <1>9

\* A thread whose last turn was replied to.
AfterReply(t, k, entries, m, held, gone) ==
  /\ held \in Seq(Thread!Entry) /\ ItemsFollow(held) /\ Turns(held) = Turns(entries)
  /\ Len(held) = Len(entries) /\ held[Len(held)].turn = k
  /\ held[Len(held)].items = Append(entries[Len(entries)].items, m)
  /\ Thread!Heard(held) = Thread!Heard(entries) \o <<m>>
  /\ \A i \in 1..(Len(held) - 1) : held[i] = entries[i]
  /\ \A i \in 1..(Len(held) - 1) : Replies(t, held, i) => TipOK(held, i, Asked(held[i].turn), gone, FALSE)

\* A reply ends the last turn, and no turn before it.
LEMMA TurnReplied ==
  ASSUME NEW t, NEW k, k # None, NEW entries \in Seq(Thread!Entry), ItemsFollow(entries),
         Len(entries) > 0, entries[Len(entries)].turn = k,
         NEW gone, NEW used, TipsOK(t, entries, gone, used), NEW m \in Thread!Message, m.kind # "tool",
         NEW held, held = EndedWith(entries, m)
  PROVE  AfterReply(t, k, entries, m, held, gone)
<1>1. PICK n \in Nat : n = Len(entries) /\ n > 0
  OBVIOUS
<1>2. /\ held \in Seq(Thread!Entry) /\ Len(held) = n
      /\ \A i \in 1..(n - 1) : held[i] = entries[i]
      /\ held[n].turn = k /\ held[n].items = Append(entries[n].items, m)
      /\ Thread!Heard(held) = Thread!Heard(entries) \o <<m>>
  <2>1. /\ held \in Seq(Thread!Entry) /\ Len(held) = Len(entries)
        /\ \A i \in 1..(Len(entries) - 1) : held[i] = entries[i]
        /\ held[Len(entries)].turn = entries[Len(entries)].turn
        /\ held[Len(entries)].items = Append(entries[Len(entries)].items, m)
        /\ Thread!Heard(held) = Thread!Heard(entries) \o <<m>>
    BY HeardReply
  <2> QED BY <1>1, <2>1
<1>3. \A i \in 1..n : i \in 1..(n - 1) \/ i = n
  OBVIOUS
<1>4. ToolsFollow(held[n].items)
  <2>1. PICK items \in Seq(Thread!Message), h \in Nat : items = entries[n].items /\ h = Len(items) /\ ToolsFollow(items)
    <3>1. entries[n].items \in Seq(Thread!Message) /\ ToolsFollow(entries[n].items)
      BY <1>1, EntryTyped DEF ItemsFollow
    <3> QED BY <3>1
  <2>2. PICK more \in Seq(Thread!Message) : more = Append(items, m) /\ Len(more) = h + 1 /\ more[h + 1] = m /\ \A i \in 1..h : more[i] = items[i]
    <3>1. /\ Append(items, m) \in Seq(Thread!Message) /\ Len(Append(items, m)) = h + 1 /\ Append(items, m)[h + 1] = m
          /\ \A i \in 1..h : Append(items, m)[i] = items[i]
      BY <2>1
    <3> QED BY <3>1
  <2>3. ASSUME NEW i \in 1..(h + 1), more[i].kind = "tool"
        PROVE i > 1 /\ more[i - 1].kind = "call" /\ more[i - 1].by = more[i].of
    <3>1. i \in 1..h
      BY <2>2, <2>3
    <3>2. i > 1 /\ items[i - 1].kind = "call" /\ items[i - 1].by = items[i].of
      BY <2>1, <2>2, <2>3, <3>1 DEF ToolsFollow
    <3>3. i - 1 \in 1..h
      BY <3>1, <3>2
    <3> QED BY <2>2, <3>1, <3>2, <3>3
  <2>4. ToolsFollow(more)
    BY <2>2, <2>3 DEF ToolsFollow
  <2> QED BY <1>2, <2>1, <2>2, <2>4
<1>5. ItemsFollow(held)
  BY <1>1, <1>2, <1>3, <1>4 DEF ItemsFollow
<1>6. Turns(held) = Turns(entries)
  <2>1. \A i \in 1..n : held[i].turn = entries[i].turn
    BY <1>1, <1>2, <1>3
  <2> QED BY <1>1, <1>2, <2>1 DEF Turns
<1>7. ASSUME NEW i \in 1..(n - 1), Replies(t, held, i)
      PROVE TipOK(held, i, Asked(held[i].turn), gone, FALSE)
  <2>1. PICK told, using, left, h : told = Asked(held[i].turn) /\ using = FALSE /\ left = gone /\ h = n - 1
    OBVIOUS
  <2>2. TipOK(entries, i, told, gone, used)
    <3>1. held[i] = entries[i] /\ i \in 1..Len(entries)
      BY <1>1, <1>2
    <3> QED BY <1>7, <2>1, <3>1 DEF TipsOK, Replies
  <2>3. \A j \in h + 1 .. Len(held) : NoTurns(held, i, j) => Said(held[j].items) \cap SaidBefore(told) = {}
    <3> SUFFICES ASSUME NEW j \in h + 1 .. Len(held), NoTurns(held, i, j) PROVE FALSE
      OBVIOUS
    <3>1. j = n /\ n \in i + 1 .. j
      BY <1>1, <1>2, <2>1
    <3> QED BY <1>2, <3>1 DEF NoTurns
  <2>6. ~NoTurns(held, i, Len(held))
    <3>1. n \in i + 1 .. Len(held)
      BY <1>1, <1>2
    <3> QED BY <1>2, <3>1 DEF NoTurns
  <2>4. /\ h \in Nat /\ h <= Len(entries) /\ h <= Len(held) /\ i \in 1..h /\ (\A j \in 1..h : held[j] = entries[j]) /\ gone \subseteq left
        /\ NoTurns(held, i, Len(held)) /\ ~using => SaidAfter(held, i, Len(held)) \subseteq left \cup Said(told)
    BY <1>1, <1>2, <1>7, <2>1, <2>6
  <2>5. TipOK(held, i, told, left, using)
    <3>1. held \in Seq(Thread!Entry)
      BY <1>2
    <3> QED BY <2>2, <2>3, <2>4, <3>1, TipKept
  <2> QED BY <2>1, <2>5
<1> QED BY <1>1, <1>2, <1>5, <1>6, <1>7 DEF AfterReply

\* The turn of a step and the message it may end with.
LEMMA TurnOfStep ==
  ASSUME ThreadInv, HeardInv, NEW k \in Thread!Step, call[k].pc = "streaming",
         NEW kind \in {"call", "text"},
         NEW t, t = call[k].thread, NEW gone, gone = lost[t]
  PROVE  AfterReply(t, k, thread[t], Thread!New(kind, k), Thread!Replied(k, kind), gone)
<1>1. t \in Thread!Step /\ k # None /\ thread[t] \in Seq(Thread!Entry)
  BY ThreadTaken DEF ThreadInv, Thread!TypeOK
<1>2. PICK entries \in Seq(Thread!Entry) : entries = thread[t]
  BY <1>1
<1>3. PICK m \in Thread!Message : m = Thread!New(kind, k) /\ m.kind # "tool"
  <2>1. Thread!New(kind, k) \in Thread!Message /\ Thread!New(kind, k).kind # "tool"
    BY NewTyped DEF Thread!Kind, Thread!New
  <2> QED BY <2>1
<1>4. Len(entries) > 0 /\ entries[Len(entries)].turn = k
  BY <1>2 DEF HeardInv, StepOK
<1>5. PICK used : used = InUse(t)
  OBVIOUS
<1>6. TipsOK(t, entries, gone, used) /\ ItemsFollow(entries)
  BY <1>1, <1>2, <1>5, TipsOfThread
<1>7. PICK held : held = Thread!Replied(k, kind) /\ held = EndedWith(entries, m)
  BY <1>2, <1>3 DEF Thread!Replied, EndedWith
<1>8. AfterReply(t, k, entries, m, held, gone)
  BY <1>1, <1>4, <1>6, <1>7, <1>3, TurnReplied
<1> QED BY <1>2, <1>3, <1>7, <1>8

\* What a turn that failed leaves of the thread it ran on.
LEMMA TurnForsaken ==
  ASSUME ThreadInv, HeardInv, NEW k \in Thread!Step, call[k].pc = "streaming", NEW t,
         t = call[k].thread,
         NEW held \in {thread[t], Thread!Replied(k, "text")}, NEW threads,
         threads = [thread EXCEPT ![t] = held]
  PROVE  Forsaking(k, t, threads)
<1>1. /\ t \in Thread!Step /\ replay[k] = None /\ k # None /\ thread[t] \in Seq(Thread!Entry) /\ StepOK(k)
      /\ thread \in [Thread!Step -> Seq(Thread!Entry)]
  BY ThreadTaken DEF ThreadInv, Thread!TypeOK
<1>2. threads[t] = held /\ \A u \in Thread!Step : u # t => threads[u] = thread[u]
  BY <1>1
<1>3. PICK gone : gone = lost[t]
  OBVIOUS
<1>4. /\ held \in Seq(Thread!Entry) /\ ItemsFollow(held) /\ Turns(held) = Turns(thread[t])
      /\ (\E used : TipsOK(t, held, gone, used)) /\ Len(held) > 0 /\ held[Len(held)].turn = k
  <2>1. CASE held = thread[t]
    <3>1. Len(held) > 0 /\ held[Len(held)].turn = k
      BY <1>1, <2>1 DEF StepOK
    <3>2. PICK used : used = InUse(t)
      OBVIOUS
    <3>3. TipsOK(t, held, gone, used) /\ ItemsFollow(held)
      BY <1>1, <1>3, <2>1, <3>2, TipsOfThread
    <3> QED BY <1>1, <2>1, <3>1, <3>3
  <2>2. CASE held = Thread!Replied(k, "text")
    <3>1. PICK entries, m : entries = thread[t] /\ m = Thread!New("text", k)
      OBVIOUS
    <3>2. AfterReply(t, k, entries, m, held, gone)
      BY <1>3, <2>2, <3>1, TurnOfStep
    <3>3. /\ held \in Seq(Thread!Entry) /\ ItemsFollow(held) /\ Turns(held) = Turns(entries) /\ Len(held) = Len(entries)
          /\ held[Len(held)].turn = k
          /\ \A i \in 1..(Len(held) - 1) : Replies(t, held, i) => TipOK(held, i, Asked(held[i].turn), gone, FALSE)
      BY <3>2 DEF AfterReply
    <3>4. Len(held) > 0
      BY <1>1, <3>1, <3>3 DEF StepOK
    <3>5. ~Replies(t, held, Len(held))
      BY <1>1, <3>3 DEF Replies
    <3>6. \A i \in 1..Len(held) : i \in 1..(Len(held) - 1) \/ i = Len(held)
      BY <3>3
    <3>7. TipsOK(t, held, gone, FALSE)
      BY <1>3, <3>3, <3>5, <3>6 DEF TipsOK
    <3> QED BY <3>1, <3>3, <3>4, <3>7
  <2> QED BY <2>1, <2>2
<1>5. \A i \in 1..Len(held) : Replies(t, held, i) /\ NoTurns(held, i, Len(held)) => Asked(held[i].turn) = Known(k)
  <2> SUFFICES ASSUME NEW i \in 1..Len(held), Replies(t, held, i), NoTurns(held, i, Len(held)) PROVE FALSE
    OBVIOUS
  <2>1. i # Len(held)
    BY <1>1, <1>4 DEF Replies
  <2>2. Len(held) \in i + 1 .. Len(held)
    BY <1>4, <2>1
  <2> QED BY <1>1, <1>4, <2>2 DEF NoTurns
<1>6. TipsOK(t, held, gone \cup (Thread!Messages(held) \ Said(Known(k))), FALSE)
  <2>1. PICK used : TipsOK(t, held, gone, used)
    BY <1>4
  <2> QED BY <1>4, <1>5, <2>1, ForsakenTips
<1> QED BY <1>2, <1>3, <1>4, <1>6 DEF Forsaking

\* No history holds a reply of a step that has not replied, nor a part of one before the turn is closed.
LEMMA NotSaidYet ==
  ASSUME ThreadInv, NEW k \in Thread!Step, call[k].pc = "streaming", replay[k] = None, NEW ms,
         HistoryOK(ms),
         NEW m, m.by = k, m.kind \in {"call", "text", "partial"}
  PROVE  \A i \in 1..Len(ms) : ~Same(ms[i], m)
<1> SUFFICES ASSUME NEW i \in 1..Len(ms), Same(ms[i], m) PROVE FALSE
  OBVIOUS
<1>1. ms[i].by = k /\ (ms[i].kind = "partial" \/ Thread!IsReply(ms[i]))
  BY DEF Same, Thread!IsReply
<1>2. Spoken(ms[i])
  BY DEF HistoryOK
<1> QED BY <1>1, <1>2 DEF Spoken

\* A reply, or a part of one, is new to every history.
LEMMA SpeaksHeard ==
  ASSUME ThreadInv, HeardInv, NEW k \in Thread!Step, call[k].pc = "streaming", replay[k] = None,
         NEW s \in Session, Thread!Leave(k),
         NEW m \in Thread!Message, m.by = k, m.kind \in {"call", "text", "partial"}, Spoken(m)',
         history' = [history EXCEPT ![s] = Append(@, m)], rewritten' = rewritten,
         \A j \in Thread!Step : replay[j] # None => replay'[j] = replay[j] /\ rollout'[j] = rollout[j],
         \A j \in Thread!Step : j # k => replay'[j] = replay[j]
  PROVE  Histories'
<1>1. /\ \A j \in Thread!Step : j # k => call'[j] = call[j]
      /\ call'[k].pc = "closing" /\ call'[k].messages = <<>>
  BY LeaveHeard
<1>2. Grows
  BY <1>1 DEF Grows
<1>3. PICK ms \in Seq(Thread!Message) : ms = history[s] /\ HistoryOK(ms)
  BY DEF ThreadInv, Thread!TypeOK, HeardInv, Histories
<1>4. \A i \in 1..Len(ms) : ~Same(ms[i], m)
  BY <1>3, NotSaidYet
<1>5. m.kind # "tool"
  OBVIOUS
<1>6. PICK more \in Seq(Thread!Message) : /\ more = Append(ms, m) /\ WellTold(more) /\ Len(more) = Len(ms) + 1
                                        /\ more[Len(ms) + 1] = m /\ \A i \in 1..Len(ms) : more[i] = ms[i]
  BY <1>3, <1>4, <1>5, ToldMore DEF HistoryOK
<1>7. HistoryOK(more)'
  <2>1. HistoryOK(ms)'
    BY <1>2, <1>3, HistoryStays
  <2>2. \A i \in 1..Len(more) : i \in 1..Len(ms) \/ i = Len(ms) + 1
    BY <1>6
  <2>3. \A i \in 1..Len(more) : Spoken(more[i])'
    BY <1>6, <2>1, <2>2 DEF HistoryOK
  <2> QED BY <1>6, <2>3 DEF HistoryOK, WellTold, Distinct, ToolsFollow, Same, Thread!IsReply
<1>8. history'[s] = more /\ \A z \in Session : z # s => history'[z] = history[z]
  BY <1>3, <1>6 DEF ThreadInv, Thread!TypeOK
<1>9. \A z \in Session : history'[z] \in {history[i] : i \in Session} \/ HistoryOK(history[z])'
  <2>1. HistoryOK(history[s])'
    BY <1>7, <1>8 DEF HistoryOK
  <2> QED BY <1>8, <2>1
<1>10. \A j \in Thread!Step : call'[j].messages = call[j].messages \/ HistoryOK(call[j].messages)'
  <2>1. HistoryOK(<<>>)'
    <3>1. Len(<<>>) = 0
      OBVIOUS
    <3> QED BY <3>1 DEF HistoryOK, WellTold, Distinct, ToolsFollow
  <2>2. HistoryOK(call[k].messages)'
    BY <1>1, <2>1 DEF HistoryOK
  <2> QED BY <1>1, <2>2
<1> QED BY <1>2, <1>9, <1>10, HistoriesKept DEF HeardInv

\* TurnFails: what the turn gave the thread is forsaken, a part of its reply included.
LEMMA TurnFailsHeard ==
  ASSUME ThreadInv, HeardInv, NEW k \in Thread!Step, Thread!TurnFails(k)
  PROVE  HeardInv'
<1>1. call[k].pc = "streaming" /\ Thread!Leave(k) /\ UNCHANGED <<replay, rollout, rewritten>>
  BY DEF Thread!TurnFails
<1>2. PICK t \in Thread!Step : t = call[k].thread
  BY <1>1, ThreadTaken
<1>3. Active(k) /\ replay[k] = None /\ call[k].session \in Session
  BY <1>1, ThreadTaken DEF ThreadInv, CallInv
<1>4. PICK held \in {thread[t], Thread!Replied(k, "text")} :
        /\ thread' = Thread!Abandoned(k, [thread EXCEPT ![t] = held])
        /\ lost' = Thread!Forsaken(k, [thread EXCEPT ![t] = held])
  BY <1>2 DEF Thread!TurnFails
<1>5. PICK threads \in [Thread!Step -> Seq(Thread!Entry)] : threads = [thread EXCEPT ![t] = held]
  <2>1. held \in Seq(Thread!Entry)
    BY <1>2, ThreadAssumption, RepliedTyped DEF ThreadInv, Thread!TypeOK, Thread!Kind
  <2> QED BY <1>2, <2>1 DEF ThreadInv, Thread!TypeOK
<1>6. Forsaking(k, t, threads)
  BY <1>1, <1>2, <1>5, TurnForsaken
<1>7. \A u \in Thread!Step : u # t => threads[u] = thread[u]
  BY <1>6 DEF Forsaking
<1>8. Histories'
  <2>1. CASE history' = history
    <3>1. call' = [call EXCEPT ![k] = call'[k]] /\ call'[k].pc = "closing" /\ call'[k].messages = <<>>
      BY <1>1, LeaveHeard
    <3> QED BY <1>1, <2>1, <3>1, HistoriesOfStep
  <2>2. CASE history' # history
    <3>1. PICK s \in Session, m \in Thread!Message : s = call[k].session /\ m = Thread!New("partial", k)
      BY <1>3, NewTyped DEF Thread!Kind
    <3>2. history' = [history EXCEPT ![s] = Append(@, m)]
      BY <2>2, <3>1 DEF Thread!TurnFails
    <3>3. m.by = k /\ m.kind = "partial"
      BY <3>1 DEF Thread!New
    <3>4. Spoken(m)'
      <4>1. call'[k].pc = "closing" /\ replay'[k] = None
        BY <1>1, <1>3, LeaveHeard
      <4> QED BY <3>3, <4>1 DEF Spoken, Thread!IsReply
    <3>5. m.kind \in {"call", "text", "partial"}
      BY <3>3
    <3> QED BY <1>1, <1>3, <3>2, <3>3, <3>4, <3>5, SpeaksHeard
  <2> QED BY <2>1, <2>2
<1>9. thread' = Thread!Abandoned(k, threads) /\ lost' = Thread!Forsaken(k, threads)
  BY <1>4, <1>5
<1> QED BY <1>1, <1>2, <1>3, <1>6, <1>7, <1>8, <1>9, StepForsaken

\* The thread of a step has heard the step's history and its reply.
LEMMA ReplyFollows ==
  ASSUME ThreadInv, HeardInv, NEW k \in Thread!Step, call[k].pc = "streaming", NEW t,
         t = call[k].thread,
         NEW gone, gone = lost[t], NEW kind \in {"call", "text"}, NEW m, m = Thread!New(kind, k),
         NEW held, AfterReply(t, k, thread[t], m, held, gone)
  PROVE  Follows(Thread!Heard(held), Append(call[k].messages, m), gone)
<1>1. t \in Thread!Step /\ thread[t] \in Seq(Thread!Entry) /\ replay[k] = None
  BY ThreadTaken DEF ThreadInv, Thread!TypeOK
<1>2. PICK ms \in Seq(Thread!Message) : ms = call[k].messages /\ HistoryOK(ms)
  BY StepTyped DEF ThreadInv, HeardInv, Histories
<1>3. m \in Thread!Message /\ m.by = k /\ m.kind \in {"call", "text"} /\ m.kind # "tool"
  BY NewTyped DEF Thread!New, Thread!Kind
<1>4. PICK heard \in Seq(Thread!Message) : heard = Thread!Heard(thread[t]) /\ Follows(heard, ms, gone)
  <2>1. Thread!Heard(thread[t]) \in Seq(Thread!Message)
    BY <1>1, HeardTyped
  <2>2. Follows(Thread!Heard(thread[t]), ms, gone)
    BY <1>2 DEF HeardInv, StepOK
  <2> QED BY <2>1, <2>2
<1>5. \A i \in 1..Len(ms) : ~Same(ms[i], m)
  BY <1>1, <1>2, <1>3, NotSaidYet
<1>6. WellTold(Append(ms, m))
  BY <1>2, <1>3, <1>5, ToldMore DEF HistoryOK
<1>7. PICK none \in Seq(Thread!Message), more \in Seq(Thread!Message) :
        /\ none = <<>> /\ more = <<m>> /\ Said(none) = {} /\ none \o more = more /\ ToolsFollow(more) /\ ms \o more = Append(ms, m)
  <2>1. <<>> \in Seq(Thread!Message) /\ <<m>> \in Seq(Thread!Message) /\ Len(<<>>) = 0 /\ <<>> \o <<m>> = <<m>> /\ ms \o <<m>> = Append(ms, m)
    BY <1>3
  <2>2. Said(<<>>) = {}
    BY <2>1 DEF Said
  <2>3. ToolsFollow(<<m>>)
    BY <1>3, ToldOne DEF WellTold
  <2> QED BY <2>1, <2>2, <2>3
<1>8. /\ Follows(heard, ms, gone) /\ Distinct(ms \o more)
      /\ Said(none) \cap SaidBefore(ms) = {} /\ Said(none) \subseteq Said(ms) /\ ToolsFollow(none \o more)
  BY <1>4, <1>6, <1>7 DEF WellTold
<1>9. Follows(heard \o (none \o more), ms \o more, gone)
  BY <1>8, FollowsMore
<1>10. Thread!Heard(held) = heard \o <<m>>
  BY <1>4 DEF AfterReply
<1> QED BY <1>2, <1>7, <1>9, <1>10

\* A reply that DSH was given: its thread, and what the turn left of it.
Finished(k, t, m, held) ==
  /\ call[k].pc = "streaming" /\ ~call[k].auxiliary /\ t = call[k].thread
  /\ m \in {Thread!New("call", k), Thread!New("text", k)}
  /\ AfterReply(t, k, thread[t], m, held, lost[t])
  /\ thread' = [thread EXCEPT ![t] = held] /\ rollout' = [rollout EXCEPT ![k] = held]
  /\ replay' = [replay EXCEPT ![k] = [thread |-> t, session |-> call[k].session, prefix |-> call[k].messages]]
  /\ history' = [history EXCEPT ![call[k].session] = Append(@, m)]
  /\ Thread!Leave(k) /\ rewritten' = rewritten /\ lost' = lost

\* Finish, of a step that is not auxiliary.
LEMMA FinishIs ==
  ASSUME ThreadInv, HeardInv, NEW k \in Thread!Step, Thread!Finish(k), ~call[k].auxiliary
  PROVE  \E t, m, held : Finished(k, t, m, held)
<1>1. PICK kind \in {"call", "text"} :
        /\ thread' = [thread EXCEPT ![call[k].thread] = Thread!Replied(k, kind)]
        /\ rollout' = [rollout EXCEPT ![k] = Thread!Replied(k, kind)]
        /\ history' = [history EXCEPT ![call[k].session] = Append(@, Thread!New(kind, k))]
        /\ replay' = [replay EXCEPT ![k] = [thread |-> call[k].thread, session |-> call[k].session, prefix |-> call[k].messages]]
  BY DEF Thread!Finish
<1>2. call[k].pc = "streaming" /\ Thread!Leave(k) /\ rewritten' = rewritten /\ lost' = lost
  BY DEF Thread!Finish
<1>3. PICK t, gone, m, held : t = call[k].thread /\ gone = lost[t] /\ m = Thread!New(kind, k) /\ held = Thread!Replied(k, kind)
  OBVIOUS
<1>4. AfterReply(t, k, thread[t], m, held, gone)
  BY <1>2, <1>3, TurnOfStep
<1>5. m \in {Thread!New("call", k), Thread!New("text", k)}
  BY <1>3
<1> QED BY <1>1, <1>2, <1>3, <1>4, <1>5 DEF Finished

\* What holds of a step that has replied.
LEMMA FinishedState ==
  ASSUME ThreadInv, HeardInv, NEW k \in Thread!Step, NEW t, NEW m, NEW held, Finished(k, t, m, held)
  PROVE  /\ t \in Thread!Step /\ Active(k) /\ replay[k] = None /\ t = Thread!ThreadOf(k) /\ call[k].session \in Session
         /\ held \in Seq(Thread!Entry) /\ ItemsFollow(held) /\ Turns(held) = Turns(thread[t])
         /\ thread'[t] = held /\ \A u \in Thread!Step : u # t => thread'[u] = thread[u]
         /\ rollout'[k] = held /\ replay'[k] # None /\ replay'[k].thread = t /\ replay'[k].prefix = call[k].messages
         /\ \A j \in Thread!Step : j # k => call'[j] = call[j] /\ replay'[j] = replay[j] /\ rollout'[j] = rollout[j]
         /\ Len(held) > 0 /\ Len(held[Len(held)].items) > 0 /\ held[Len(held)].turn = k /\ ReplyOf(k)' = m
         /\ \A i \in 1..(Len(held) - 1) : held[i].turn # k
         /\ m \in Thread!Message /\ m.by = k /\ m.kind \in {"call", "text"} /\ lost' = lost
         /\ thread[k] \in Seq(Thread!Entry) /\ ItemsFollow(thread[k])
<1>1. /\ t \in Thread!Step /\ Active(k) /\ replay[k] = None /\ t = Thread!ThreadOf(k) /\ call[k].session \in Session
      /\ thread[k] \in Seq(Thread!Entry) /\ ItemsFollow(thread[k]) /\ thread[t] \in Seq(Thread!Entry) /\ StepOK(k)
      /\ \A j \in Thread!Step : j # k => call'[j] = call[j]
  BY ThreadTaken, LeaveHeard DEF Finished, ThreadInv, CallInv, Thread!TypeOK
<1>2. AfterReply(t, k, thread[t], m, held, lost[t])
  BY DEF Finished
<1>3. /\ held \in Seq(Thread!Entry) /\ ItemsFollow(held) /\ Turns(held) = Turns(thread[t])
      /\ Len(held) = Len(thread[t]) /\ held[Len(held)].turn = k
      /\ held[Len(held)].items = Append(thread[t][Len(thread[t])].items, m)
      /\ \A i \in 1..(Len(held) - 1) : held[i] = thread[t][i]
  BY <1>2 DEF AfterReply
<1>4. Len(held) > 0 /\ \A i \in 1..(Len(held) - 1) : held[i].turn # k
  <2>1. Len(thread[t]) > 0 /\ \A i \in 1..(Len(thread[t]) - 1) : thread[t][i].turn # k
    BY <1>1 DEF StepOK, Finished
  <2> QED BY <1>3, <2>1
<1>5. m \in Thread!Message /\ m.by = k /\ m.kind \in {"call", "text"}
  BY NewTyped DEF Finished, Thread!New, Thread!Kind
<1>6. /\ thread'[t] = held /\ \A u \in Thread!Step : u # t => thread'[u] = thread[u]
  BY <1>1 DEF Finished, ThreadInv, Thread!TypeOK
<1>7. rollout'[k] = held /\ \A j \in Thread!Step : j # k => rollout'[j] = rollout[j]
  BY DEF Finished, ThreadInv, Thread!TypeOK
<1>8. /\ replay'[k] = [thread |-> t, session |-> call[k].session, prefix |-> call[k].messages]
      /\ \A j \in Thread!Step : j # k => replay'[j] = replay[j]
  BY DEF Finished, ThreadInv, Thread!TypeOK
<1>9. replay'[k] # None /\ replay'[k].thread = t /\ replay'[k].prefix = call[k].messages
  <2>1. [thread |-> t, session |-> call[k].session, prefix |-> call[k].messages] \in Thread!ReplayState
    BY <1>1, StepTyped DEF Thread!ReplayState, ThreadInv
  <2> QED BY <1>8, <2>1, ThreadAssumption
<1>10. Len(held[Len(held)].items) > 0 /\ held[Len(held)].items[Len(held[Len(held)].items)] = m
  <2>1. thread[t][Len(thread[t])].items \in Seq(Thread!Message)
    <3>1. Len(thread[t]) \in 1..Len(thread[t])
      BY <1>1, <1>3, <1>4
    <3> QED BY <1>1, <3>1, EntryTyped
  <2> QED BY <1>3, <1>5, <2>1
<1>11. ReplyOf(k)' = m
  BY <1>7, <1>10 DEF ReplyOf
<1> QED BY <1>1, <1>3, <1>4, <1>5, <1>6, <1>7, <1>8, <1>9, <1>10, <1>11 DEF Finished

\* The reply is the last of what its thread has heard.
LEMMA FinishedAsked ==
  ASSUME ThreadInv, HeardInv, NEW k \in Thread!Step, NEW t, NEW m, NEW held, Finished(k, t, m, held)
  PROVE  /\ Asked(k)' = Append(call[k].messages, m)
         /\ Follows(Thread!Heard(held), Asked(k)', lost[t])
<1>1. replay'[k].prefix = call[k].messages /\ ReplyOf(k)' = m
  BY FinishedState
<1>2. Asked(k)' = Append(call[k].messages, m)
  BY <1>1 DEF Asked
<1>3. PICK kind \in {"call", "text"} : m = Thread!New(kind, k)
  BY DEF Finished
<1>4. call[k].pc = "streaming" /\ t = call[k].thread /\ AfterReply(t, k, thread[t], m, held, lost[t])
  BY DEF Finished
<1>5. PICK gone : gone = lost[t]
  OBVIOUS
<1>6. Follows(Thread!Heard(held), Append(call[k].messages, m), gone)
  BY <1>3, <1>4, <1>5, ReplyFollows
<1> QED BY <1>2, <1>5, <1>6

\* The thread after the reply: the reply is its last turn, and may be gone back to.
LEMMA FinishedThread ==
  ASSUME ThreadInv, HeardInv, NEW k \in Thread!Step, NEW t, NEW m, NEW held, Finished(k, t, m, held)
  PROVE  ThreadOK(t)'
<1>1. /\ t \in Thread!Step /\ held \in Seq(Thread!Entry) /\ ItemsFollow(held) /\ thread'[t] = held /\ lost' = lost
      /\ held[Len(held)].turn = k /\ Len(held) > 0 /\ \A i \in 1..(Len(held) - 1) : held[i].turn # k
      /\ \A j \in Thread!Step : j # k => replay'[j] = replay[j] /\ rollout'[j] = rollout[j]
  BY FinishedState
<1>2. PICK gone, using, n : gone = lost[t] /\ using = InUse(t)' /\ n = Len(held)
  OBVIOUS
<1>3. AfterReply(t, k, thread[t], m, held, gone)
  BY <1>2 DEF Finished
<1>4. \A i \in 1..(n - 1) : Replies(t, held, i) => TipOK(held, i, Asked(held[i].turn), gone, FALSE)
  BY <1>2, <1>3 DEF AfterReply
<1>5. ASSUME NEW i \in 1..(n - 1), IsTip(t, i)'
      PROVE TipOK(thread[t], i, Asked(thread[t][i].turn), lost[t], InUse(t))'
  <2>1. PICK c : c = held[i].turn
    OBVIOUS
  <2>2. c # k /\ c # None /\ c \in Thread!Step
    <3>1. i \in 1..Len(held) /\ held[i].turn # None /\ held[i].turn # k
      BY <1>1, <1>2, <1>5 DEF IsTip
    <3> QED BY <1>1, <2>1, <3>1, EntryTyped
  <2>3. replay'[c] = replay[c] /\ rollout'[c] = rollout[c]
    BY <1>1, <2>2
  <2>4. Replies(t, held, i)
    BY <1>1, <1>5, <2>1, <2>3 DEF IsTip, Replies
  <2>5. PICK told, used : told = Asked(c) /\ used = FALSE
    OBVIOUS
  <2>6. TipOK(held, i, told, gone, used)
    BY <1>4, <2>1, <2>4, <2>5
  <2>7. TipOK(held, i, told, gone, using)
    BY <2>5, <2>6, TipLeft
  <2>8. Asked(c)' = told
    BY <2>3, <2>5, AskedStays
  <2>9. Asked(thread[t][i].turn)' = told
    BY <1>1, <2>1, <2>8 DEF Asked, ReplyOf
  <2> QED BY <1>1, <1>2, <2>7, <2>9 DEF TipOK
<1>6. TipOK(thread[t], n, Asked(thread[t][n].turn), lost[t], InUse(t))'
  <2>1. PICK told : told = Asked(k)' /\ Follows(Thread!Heard(held), told, gone)
    BY <1>2, FinishedAsked
  <2>2. SubSeq(held, 1, n) = held /\ n + 1 .. n = {}
    BY <1>1, <1>2, CutWhole
  <2>3. TipOK(held, n, told, gone, using)
    BY <1>2, <2>1, <2>2 DEF TipOK
  <2>4. Asked(thread[t][n].turn)' = told
    BY <1>1, <1>2, <2>1 DEF Asked, ReplyOf
  <2> QED BY <1>1, <1>2, <2>3, <2>4 DEF TipOK
<1>7. \A i \in 1..n : i \in 1..(n - 1) \/ i = n
  BY <1>1, <1>2
<1>8. \A i \in 1..n : IsTip(t, i)' => TipOK(thread[t], i, Asked(thread[t][i].turn), lost[t], InUse(t))'
  BY <1>5, <1>6, <1>7
<1> QED BY <1>1, <1>2, <1>8 DEF ThreadOK, ItemsFollow

\* Finish: the reply can be gone back to.
LEMMA FinishHeard ==
  ASSUME ThreadInv, HeardInv, NEW k \in Thread!Step, Thread!Finish(k)
  PROVE  HeardInv'
<1>1. call[k].pc = "streaming" /\ Thread!Leave(k)
  BY DEF Thread!Finish
<1>2. CASE call[k].auxiliary
  <2>1. thread' = Thread!Abandoned(k, thread) /\ UNCHANGED <<replay, rollout, history, rewritten>> /\ lost' = lost
    BY <1>2 DEF Thread!Finish
  <2>2. PICK t \in Thread!Step : t = call[k].thread /\ t = Thread!ThreadOf(k)
    BY <1>1, ThreadTaken
  <2>3. Active(k) /\ replay[k] = None
    BY <1>1, ThreadTaken
  <2>4. t = k
    BY <1>2, <2>2, <2>3 DEF ThreadInv, CallInv, Owns
  <2>5. lost' = Thread!Forsaken(k, thread)
    BY <2>1, <2>2, <2>4 DEF Thread!Forsaken
  <2>6. Histories'
    <3>1. call' = [call EXCEPT ![k] = call'[k]] /\ call'[k].pc = "closing" /\ call'[k].messages = <<>>
      BY <1>1, LeaveHeard
    <3> QED BY <1>1, <2>1, <3>1, HistoriesOfStep
  <2>7. PICK threads \in [Thread!Step -> Seq(Thread!Entry)] : threads = thread
    BY DEF ThreadInv, Thread!TypeOK
  <2> QED BY <1>1, <2>1, <2>2, <2>3, <2>4, <2>5, <2>6, <2>7, StepForsaken
<1>3. CASE ~call[k].auxiliary
  <2>1. PICK t, m, held : Finished(k, t, m, held)
    BY <1>3, FinishIs
  <2>2. /\ t \in Thread!Step /\ Active(k) /\ replay[k] = None /\ t = Thread!ThreadOf(k) /\ call[k].session \in Session
        /\ held \in Seq(Thread!Entry) /\ ItemsFollow(held) /\ Turns(held) = Turns(thread[t])
        /\ thread'[t] = held /\ \A u \in Thread!Step : u # t => thread'[u] = thread[u]
        /\ rollout'[k] = held /\ replay'[k] # None /\ replay'[k].thread = t
        /\ \A j \in Thread!Step : j # k => call'[j] = call[j] /\ replay'[j] = replay[j] /\ rollout'[j] = rollout[j]
        /\ Len(held) > 0 /\ Len(held[Len(held)].items) > 0 /\ ReplyOf(k)' = m
        /\ m \in Thread!Message /\ m.by = k /\ m.kind \in {"call", "text"} /\ lost' = lost
        /\ thread[k] \in Seq(Thread!Entry) /\ ItemsFollow(thread[k])
    BY <2>1, FinishedState
  <2>3. call'[k].pc = "closing" /\ StepOK(k)'
    BY <1>1, LeaveHeard
  <2>4. Histories'
    <3>1. Spoken(m)'
      BY <2>2, <2>3 DEF Spoken
    <3>2. PICK s \in Session : s = call[k].session /\ history' = [history EXCEPT ![s] = Append(@, m)] /\ rewritten' = rewritten
      BY <2>1, <2>2 DEF Finished
    <3>3. /\ \A j \in Thread!Step : replay[j] # None => replay'[j] = replay[j] /\ rollout'[j] = rollout[j]
          /\ \A j \in Thread!Step : j # k => replay'[j] = replay[j]
          /\ m.kind \in {"call", "text", "partial"} /\ m \in Thread!Message /\ m.by = k /\ replay[k] = None
      BY <2>2
    <3> QED BY <1>1, <3>1, <3>2, <3>3, SpeaksHeard
  <2>5. RolloutOK(k)'
    <3>1. Follows(Thread!Heard(held), Asked(k)', lost'[t])
      BY <2>1, <2>2, FinishedAsked
    <3>2. m \in {Thread!New("call", k), Thread!New("text", k)}
      BY <2>1 DEF Finished
    <3> QED BY <2>2, <3>1, <3>2 DEF RolloutOK, ItemsFollow, Thread!New
  <2>6. ThreadOK(t)'
    BY <2>1, FinishedThread
  <2>7. t # k => ThreadOK(k)'
    <3> SUFFICES ASSUME t # k PROVE ThreadOK(k)'
      OBVIOUS
    <3>1. thread'[k] = thread[k]
      BY <2>2
    <3>2. ASSUME NEW i \in 1..Len(thread[k]), IsTip(k, i)' PROVE FALSE
      <4>1. PICK c : c = thread[k][i].turn
        OBVIOUS
      <4>2. c # None /\ replay'[c] # None /\ replay'[c].thread = k
        BY <3>1, <3>2, <4>1 DEF IsTip
      <4>3. c \in Thread!Step
        BY <2>2, <4>1, <4>2, EntryTyped
      <4>4. c # k /\ replay[c] # None /\ replay[c].thread = k
        BY <2>2, <4>2, <4>3
      <4> QED BY <2>2, <4>3, <4>4, NoReplyYet
    <3> QED BY <2>2, <3>1, <3>2 DEF ThreadOK, ItemsFollow
  <2>8. ThreadOK(k)'
    BY <2>6, <2>7
  <2>9. TurnsStay(k)
    <3>1. \A u \in Thread!Step : Turns(thread[u])' = Turns(thread'[u]) /\ Turns(rollout[u])' = Turns(rollout'[u])
      BY DEF Turns
    <3>2. \A u \in Thread!Step : Turns(thread'[u]) = Turns(thread[u])
      BY <2>2
    <3>3. \A u \in Thread!Step : Turns(rollout'[u]) = Turns(rollout[u]) \/ Turns(rollout'[u]) = Turns(thread[t])
      BY <2>2
    <3> QED BY <2>2, <2>3, <3>1, <3>2, <3>3 DEF TurnsStay, Thread!Starting
  <2>10. \A u \in Thread!Step : lost[u] \subseteq lost'[u]
    BY <2>2
  <2> QED BY <2>2, <2>3, <2>4, <2>5, <2>6, <2>8, <2>9, <2>10, StepOfThread
<1> QED BY <1>2, <1>3

-----------------------------------------------------------------------------
(* Steps that begin, and what tells nobody anything *)

\* A checkpoint is the only reply of its step.
LEMMA PositionFound ==
  ASSUME NEW messages \in Seq(Thread!Message), Distinct(messages), NEW p \in 1..Len(messages),
         Thread!IsReply(messages[p]),
         NEW k \in Thread!Step, call'[k].messages = messages, call'[k].checkpoint = messages[p].by,
         messages[p].by # None
  PROVE  Thread!PositionOf(k)' = p
<1> DEFINE P(i) == Thread!IsReply(messages[i]) /\ messages[i].by = messages[p].by
<1>1. \A i \in 1..Len(messages) : P(i) => Same(messages[i], messages[p])
  BY DEF Same
<1>2. \A i \in 1..Len(messages) : P(i) => i = p
  BY <1>1 DEF Distinct
<1>3. P(p)
  OBVIOUS
<1>4. Thread!PositionOf(k)' = CHOOSE i \in 1..Len(messages) : P(i)
  BY DEF Thread!PositionOf, Thread!IsReply
<1> HIDE DEF P
<1> QED BY <1>2, <1>3, <1>4

\* A step that begins: it is told nothing yet, and what it will tell is in order.
LEMMA BeginsHeard ==
  ASSUME ThreadInv, HeardInv, NEW k \in Thread!Step, call[k].pc = "idle", NEW c,
         call' = [call EXCEPT ![k] = c],
         c.pc = "spawning", UNCHANGED <<replay, Thread!vendor>>,
         c.checkpoint # None => Thread!ValidCheckpoint(call[k].messages, Thread!PositionOf(k))', Histories'
  PROVE  HeardInv'
<1>1. call'[k] = c /\ \A j \in Thread!Step : j # k => call'[j] = call[j]
  BY DEF ThreadInv, Thread!TypeOK
<1>2. thread'[k] = <<>>
  BY DEF Thread!vendor, HeardInv, StepOK, Unstarted
<1>3. StepOK(k)'
  BY <1>1, <1>2 DEF StepOK
<1> QED BY <1>1, <1>3, ThreadsUntouched

\* Stream: the step takes a checkpoint whose position in the history is its own.
LEMMA StreamHeard ==
  ASSUME ThreadInv, HeardInv, NEW k \in Thread!Step, Thread!Stream(k)
  PROVE  HeardInv'
<1>1. UNCHANGED <<replay, Thread!vendor>> /\ rollout' = rollout /\ call[k].pc = "idle"
  BY DEF Thread!Stream, Thread!vendor, Thread!NextStep
<1>2. PICK s \in Session : \E messages \in Thread!Requests(s, k) : StreamOf(k, s, messages)
  BY DEF Thread!Stream, Thread!MayRun, StreamOf
<1>3. PICK messages \in Thread!Requests(s, k) : StreamOf(k, s, messages)
  BY <1>2
<1>4. /\ messages \in Seq(Thread!Message) /\ WellTold(messages)
      /\ \A i \in 1..Len(messages) : Spoken(messages[i]) \/ IsNew(messages[i], k)
  BY <1>1, RequestTold DEF HeardInv
<1>5. PICK position : position = Thread!Checkpoint(messages, s)
  OBVIOUS
<1>6. PICK c : c = [Thread!Idle EXCEPT !.pc = "spawning", !.session = s, !.messages = messages,
                                       !.checkpoint = IF position = 0 THEN None ELSE messages[position].by]
  OBVIOUS
<1>7. /\ c.pc = "spawning" /\ c.messages = messages
      /\ c.checkpoint = IF position = 0 THEN None ELSE messages[position].by
  BY <1>6 DEF Thread!Idle
<1>8. call' = [call EXCEPT ![k] = c]
  BY <1>3, <1>5, <1>6 DEF StreamOf
<1>9. call'[k] = c /\ \A j \in Thread!Step : j # k => call'[j] = call[j]
  BY <1>8 DEF ThreadInv, Thread!TypeOK
<1>10. Grows
  BY <1>1, <1>7, <1>9 DEF Grows
<1>11. HistoryOK(messages)'
  <2>1. ASSUME NEW i \in 1..Len(messages) PROVE Spoken(messages[i])'
    <3>1. messages[i] \in Thread!Message
      BY <1>4
    <3>2. CASE Spoken(messages[i])
      BY <1>10, <3>1, <3>2, SpokenStays
    <3>3. CASE IsNew(messages[i], k)
      BY <1>7, <1>9, <3>3 DEF IsNew, Spoken, Thread!IsReply
    <3> QED BY <1>4, <3>2, <3>3
  <2> QED BY <1>4, <2>1 DEF HistoryOK, WellTold, Distinct, ToolsFollow, Same, Thread!IsReply
<1>12. Histories'
  <2>1. history'[s] = messages /\ \A z \in Session : z # s => history'[z] = history[z]
    BY <1>3 DEF StreamOf, ThreadInv, Thread!TypeOK
  <2>2. \A z \in Session : history'[z] \in {history[i] : i \in Session} \/ HistoryOK(history[z])'
    <3>1. HistoryOK(history[s])'
      BY <1>11, <2>1 DEF HistoryOK
    <3> QED BY <2>1, <3>1
  <2>3. \A z \in Session : rewritten'[z] = rewritten[z] \/ rewritten'[z] = history[z]
    BY <1>3 DEF StreamOf, ThreadInv, Thread!TypeOK
  <2>4. \A j \in Thread!Step : call'[j].messages = call[j].messages \/ HistoryOK(call[j].messages)'
    <3>1. HistoryOK(call[k].messages)'
      BY <1>7, <1>9, <1>11 DEF HistoryOK
    <3> QED BY <1>9, <3>1
  <2> QED BY <1>10, <2>2, <2>3, <2>4, HistoriesKept DEF HeardInv
<1>13. c.checkpoint # None => Thread!ValidCheckpoint(call[k].messages, Thread!PositionOf(k))'
  <2> SUFFICES ASSUME c.checkpoint # None PROVE Thread!ValidCheckpoint(call[k].messages, Thread!PositionOf(k))'
    OBVIOUS
  <2>1. position \in 0..Len(messages) /\ position # 0
    BY <1>4, <1>5, <1>7, CheckpointFound DEF ThreadInv
  <2>2. Thread!ValidCheckpoint(messages, position)
    BY <1>4, <1>5, <2>1, CheckpointFound DEF ThreadInv
  <2>3. position \in 1..Len(messages) /\ Thread!IsReply(messages[position])
    BY <1>4, <2>1, <2>2 DEF Thread!ValidCheckpoint
  <2>4. Distinct(messages) /\ messages[position].by # None
    BY <1>4, <1>7, <2>1 DEF WellTold
  <2>5. Thread!PositionOf(k)' = position
    BY <1>4, <1>7, <1>9, <2>1, <2>3, <2>4, PositionFound
  <2> QED BY <1>1, <1>7, <1>9, <2>2, <2>5 DEF Thread!ValidCheckpoint, Thread!IsReply
<1> QED BY <1>1, <1>7, <1>8, <1>12, <1>13, BeginsHeard

\* StreamAuxiliary: one message, and no checkpoint.
LEMMA StreamAuxiliaryHeard ==
  ASSUME ThreadInv, HeardInv, NEW k \in Thread!Step, Thread!StreamAuxiliary(k)
  PROVE  HeardInv'
<1>1. UNCHANGED <<replay, Thread!vendor, history, rewritten>> /\ rollout' = rollout /\ call[k].pc = "idle"
  BY DEF Thread!StreamAuxiliary, Thread!vendor, Thread!NextStep, Thread!dsh
<1>2. PICK s \in Session, m \in Thread!Message :
        /\ m = Thread!New("user", k)
        /\ call' = [call EXCEPT ![k] = [Thread!Idle EXCEPT !.pc = "spawning", !.session = s, !.auxiliary = TRUE, !.messages = <<m>>]]
  BY NewTyped DEF Thread!StreamAuxiliary, Thread!Kind
<1>3. PICK c : c = [Thread!Idle EXCEPT !.pc = "spawning", !.session = s, !.auxiliary = TRUE, !.messages = <<m>>]
  OBVIOUS
<1>4. c.pc = "spawning" /\ c.messages = <<m>> /\ c.checkpoint = None
  BY <1>3 DEF Thread!Idle
<1>5. call' = [call EXCEPT ![k] = c]
  BY <1>2, <1>3
<1>6. call'[k] = c /\ \A j \in Thread!Step : j # k => call'[j] = call[j]
  BY <1>5 DEF ThreadInv, Thread!TypeOK
<1>7. Grows
  BY <1>1, <1>4, <1>6 DEF Grows
<1>8. m.by = k /\ m.kind = "user"
  BY <1>2 DEF Thread!New
<1>9. PICK ms \in Seq(Thread!Message) : ms = <<m>> /\ WellTold(ms) /\ Len(ms) = 1 /\ ms[1] = m
  BY <1>8, ToldOne
<1>10. HistoryOK(ms)'
  <2>1. Spoken(m)'
    BY <1>4, <1>6, <1>8 DEF Spoken, Thread!IsReply
  <2>2. \A i \in 1..Len(ms) : ms[i] = m
    BY <1>9
  <2> QED BY <1>9, <2>1, <2>2 DEF HistoryOK, WellTold, Distinct, ToolsFollow, Same, Thread!IsReply
<1>11. \A j \in Thread!Step : call'[j].messages = call[j].messages \/ HistoryOK(call[j].messages)'
  <2>1. HistoryOK(call[k].messages)'
    BY <1>4, <1>6, <1>9, <1>10 DEF HistoryOK
  <2> QED BY <1>6, <2>1
<1>12. Histories'
  BY <1>1, <1>7, <1>11, HistoriesKept DEF HeardInv
<1> QED BY <1>1, <1>4, <1>5, <1>12, BeginsHeard

\* A step that is refused, or that returned.
LEMMA OverHeard ==
  ASSUME ThreadInv, HeardInv, NEW k \in Thread!Step, call' = [call EXCEPT ![k] = Thread!Over(k)],
         call[k].pc \in {"idle", "closing"}, UNCHANGED <<replay, Thread!vendor, history, rewritten>>
  PROVE  HeardInv'
<1>1. PICK c : c = Thread!Over(k)
  OBVIOUS
<1>2. c.pc = "done" /\ c.messages = <<>> /\ c.checkpoint = None
  BY <1>1 DEF Thread!Over, Thread!Idle
<1>3. call' = [call EXCEPT ![k] = c] /\ call'[k] = c /\ \A j \in Thread!Step : j # k => call'[j] = call[j]
  BY <1>1 DEF ThreadInv, Thread!TypeOK
<1>4. rollout' = rollout
  BY DEF Thread!vendor
<1>5. Histories'
  BY <1>2, <1>3, <1>4, HistoriesOfStep
<1>6. StepOK(k)'
  BY <1>2, <1>3 DEF StepOK, Unstarted
<1> QED BY <1>2, <1>3, <1>5, <1>6, ThreadsUntouched DEF Thread!Starting

\* StreamRefused and Return.
LEMMA ReturnHeard ==
  ASSUME ThreadInv, HeardInv, NEW k \in Thread!Step, Thread!StreamRefused(k) \/ Thread!Return(k)
  PROVE  HeardInv'
<1>1. /\ call[k].pc \in {"idle", "closing"} /\ call' = [call EXCEPT ![k] = Thread!Over(k)]
      /\ UNCHANGED <<replay, Thread!vendor, history, rewritten>>
  BY DEF Thread!StreamRefused, Thread!Return, Thread!NextStep, Thread!dsh
<1> QED BY <1>1, OverHeard

\* A copy of a session, and what ends turns and processes.
LEMMA ForkHeard ==
  ASSUME ThreadInv, HeardInv, NEW s \in Session, Thread!Fork(s)
  PROVE  HeardInv'
<1>1. UNCHANGED <<call, replay, Thread!vendor>> /\ rewritten' = rewritten
  BY DEF Thread!Fork
<1>2. PICK other \in Session : history' = [history EXCEPT ![s] = history[other]]
  BY DEF Thread!Fork
<1>3. \A z \in Session : history'[z] = history[z] \/ history'[z] = history[other]
  BY <1>2 DEF ThreadInv, Thread!TypeOK
<1>4. \A z \in Session : history'[z] \in {history[i] : i \in Session}
  BY <1>3
<1> QED BY <1>1, <1>4, NothingChanges

\* What closes turns and ends processes tells nobody anything.
LEMMA ProcessesHeard ==
  ASSUME ThreadInv, HeardInv, UNCHANGED <<history, rewritten, call, replay, thread, rollout, lost>>
  PROVE  HeardInv'
<1>1. UNCHANGED <<call, replay, Thread!vendor>> /\ rewritten' = rewritten
  BY DEF Thread!vendor
<1>2. \A z \in Session : history'[z] \in {history[i] : i \in Session}
  OBVIOUS
<1> QED BY <1>1, <1>2, NothingChanges

\* The invariant holds at first, is kept by every step, and says what a turn has heard.
LEMMA HeardInit ==
  ASSUME Thread!Init
  PROVE  HeardInv
<1>1. Len(<<>>) = 0 /\ Turns(<<>>) = {}
  BY DEF Turns
<1>2. \A k \in Thread!Step : call[k] = Thread!Idle /\ replay[k] = None /\ thread[k] = <<>> /\ rollout[k] = <<>>
  BY DEF Thread!Init
<1>3. Thread!Idle.pc = "idle" /\ Thread!Idle.messages = <<>> /\ Thread!Idle.checkpoint = None
  BY DEF Thread!Idle
<1>4. HistoryOK(<<>>)
  BY <1>1 DEF HistoryOK, WellTold, Distinct, ToolsFollow
<1>5. Histories
  <2>1. \A s \in Session : history[s] = <<>> /\ rewritten[s] = <<>>
    BY DEF Thread!Init
  <2> QED BY <1>2, <1>3, <1>4, <2>1 DEF Histories
<1>6. ASSUME NEW k \in Thread!Step PROVE ThreadOK(k) /\ RolloutOK(k) /\ TurnsFresh(k) /\ StepOK(k)
  <2>1. ThreadOK(k)
    BY <1>1, <1>2 DEF ThreadOK, ItemsFollow
  <2>2. RolloutOK(k)
    BY <1>1, <1>2 DEF RolloutOK, ItemsFollow
  <2>3. TurnsFresh(k)
    BY <1>1, <1>2 DEF TurnsFresh
  <2>4. StepOK(k)
    BY <1>2, <1>3 DEF StepOK, Unstarted
  <2> QED BY <2>1, <2>2, <2>3, <2>4
<1> QED BY <1>5, <1>6 DEF HeardInv

LEMMA HeardNext ==
  ASSUME ThreadInv, HeardInv, [Thread!Next]_(Thread!vars)
  PROVE  HeardInv'
<1>1. CASE UNCHANGED Thread!vars
  BY <1>1, ProcessesHeard DEF Thread!vars
<1>2. ASSUME NEW k \in Thread!Step, Thread!Advance(k) PROVE HeardInv'
  <2>1. CASE Thread!Abort(k) \/ Thread!Exit(k) \/ Thread!Die(k)
    BY <2>1, ProcessesHeard DEF Thread!Abort, Thread!Exit, Thread!Die, Thread!dsh, Thread!vendor
  <2>2. CASE Thread!Stream(k) \/ Thread!StreamRefused(k) \/ Thread!StreamAuxiliary(k) \/ Thread!Return(k)
    BY <2>2, StreamHeard, ReturnHeard, StreamAuxiliaryHeard
  <2>3. CASE Thread!Spawn(k) \/ Thread!Resume(k) \/ Thread!Rollback(k) \/ Thread!ForkThread(k) \/ Thread!Rebuild(k) \/ Thread!StartThread(k)
    BY <2>3, SpawnHeard, ResumeHeard, RollbackHeard, ForkThreadHeard, RebuildHeard, StartThreadHeard
  <2>4. CASE Thread!Inject(k) \/ Thread!StartTurn(k) \/ Thread!Fail(k) \/ Thread!Finish(k) \/ Thread!TurnFails(k)
    BY <2>4, InjectHeard, StartTurnHeard, FailHeard, FinishHeard, TurnFailsHeard
  <2> QED BY <1>2, <2>1, <2>2, <2>3, <2>4 DEF Thread!Advance
<1>3. ASSUME NEW s \in Session, Thread!Fork(s) \/ Thread!CloseSession(s) PROVE HeardInv'
  BY <1>3, ForkHeard, ProcessesHeard DEF Thread!CloseSession, Thread!dsh, Thread!vendor
<1>4. CASE Thread!Dispose
  BY <1>4, ProcessesHeard DEF Thread!Dispose, Thread!dsh, Thread!vendor
<1> QED BY <1>1, <1>2, <1>3, <1>4 DEF Thread!Next

LEMMA LastHeardIs ==
  ASSUME NEW heard \in Seq(Thread!Message), NEW m
  PROVE  /\ Thread!LastHeard(heard, m) \in 0..Len(heard)
         /\ \A x \in 1..Len(heard) : heard[x] = m => x <= Thread!LastHeard(heard, m)
         /\ Thread!LastHeard(heard, m) # 0 => heard[Thread!LastHeard(heard, m)] = m
<1> DEFINE times == {0} \cup {i \in 1..Len(heard) : heard[i] = m}
<1>1. Len(heard) \in Nat /\ times \subseteq 0..Len(heard) /\ times # {}
  OBVIOUS
<1>2. /\ Thread!Max(times) \in times /\ Thread!Max(times) \in 0..Len(heard)
      /\ \A x \in times : x <= Thread!Max(times)
  <2> HIDE DEF times
  <2> QED BY <1>1, MaxUpTo
<1>3. Thread!LastHeard(heard, m) = Thread!Max(times)
  BY DEF Thread!LastHeard
<1>4. PICK n : n = Thread!Max(times)
  OBVIOUS
<1>5. n \in times /\ n \in 0..Len(heard) /\ \A x \in 1..Len(heard) : heard[x] = m => x <= n
  BY <1>2, <1>4
<1> QED BY <1>3, <1>4, <1>5

LEMMA HeardImplies ==
  ASSUME ThreadInv, HeardInv
  PROVE  Thread!HeardHistory
<1> SUFFICES ASSUME NEW k \in Thread!Step, call[k].pc = "streaming", NEW heard, heard = Thread!Heard(thread[call[k].thread]),
                    NEW told, told = call[k].messages
             PROVE  /\ \A i \in 1..Len(told) :
                         /\ Thread!LastHeard(heard, told[i]) > 0
                         /\ i > 1 => Thread!LastHeard(heard, told[i - 1]) < Thread!LastHeard(heard, told[i])
                    /\ Thread!Range(heard) \subseteq Thread!Range(told) \cup lost[call[k].thread]
                    /\ \A i \in 1..Len(heard) : heard[i].kind \in Thread!ToolResult =>
                         i > 1 /\ heard[i - 1].kind = "call" /\ heard[i - 1].by = heard[i].of
  BY DEF Thread!HeardHistory
<1>1. thread[call[k].thread] \in Seq(Thread!Entry) /\ told \in Seq(Thread!Message)
  BY ThreadTaken, StepTyped DEF ThreadInv, Thread!TypeOK
<1>2. heard \in Seq(Thread!Message)
  BY <1>1, HeardTyped
<1>3. Follows(heard, told, lost[call[k].thread])
  BY DEF HeardInv, StepOK
<1>4. HeardInOrder(heard, told) /\ Said(heard) \subseteq lost[call[k].thread] \cup Said(told) /\ ToolsFollow(heard)
  BY <1>3 DEF Follows
<1>5. ASSUME NEW i \in 1..Len(told)
      PROVE  /\ Thread!LastHeard(heard, told[i]) > 0
             /\ i > 1 => Thread!LastHeard(heard, told[i - 1]) < Thread!LastHeard(heard, told[i])
  <2>1. PICK y \in 1..Len(heard) :
          heard[y] = told[i] /\ (i > 1 => \A x \in 1..Len(heard) : heard[x] = told[i - 1] => x < y)
    BY <1>4 DEF HeardInOrder
  <2>2. PICK after : after = Thread!LastHeard(heard, told[i])
    OBVIOUS
  <2>3. after \in 0..Len(heard) /\ y <= after
    BY <1>2, <2>1, <2>2, LastHeardIs
  <2>4. PICK before : before = Thread!LastHeard(heard, told[i - 1])
    OBVIOUS
  <2>5. before \in 0..Len(heard) /\ (before # 0 => heard[before] = told[i - 1])
    BY <1>2, <2>4, LastHeardIs
  <2>6. i > 1 => before < y
    BY <1>2, <2>1, <2>5
  <2> QED BY <1>2, <2>1, <2>2, <2>3, <2>4, <2>5, <2>6
<1>6. Thread!Range(heard) \subseteq Thread!Range(told) \cup lost[call[k].thread]
  BY <1>1, <1>2, <1>4, SaidTyped
<1> QED BY <1>4, <1>5, <1>6 DEF ToolsFollow, Thread!ToolResult

\* CodexThread!HeardHistory: when a turn runs, its thread has heard every message of DSH's
\* history in DSH's order, and nothing else but what a failed step gave it, and a tool result
\* right after its call; through rewinds, edits, copies, rollbacks, forks, rebuilds, and
\* requests that failed after they took effect.
THEOREM ThreadsHearHistory == Thread!Spec => []HeardHistory
<1>1. Thread!Init => ThreadInv /\ HeardInv
  BY ThreadInit, HeardInit
<1>2. ThreadInv /\ HeardInv /\ [Thread!Next]_(Thread!vars) => ThreadInv' /\ HeardInv'
  BY ThreadNext, HeardNext
<1>3. ThreadInv /\ HeardInv => Thread!HeardHistory
  BY HeardImplies
<1>4. Thread!HeardHistory => HeardHistory
  BY DEF HeardHistory
<1> QED BY <1>1, <1>2, <1>3, <1>4, PTL DEF Thread!Spec

=============================================================================
