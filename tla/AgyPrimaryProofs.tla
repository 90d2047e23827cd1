-------------------------- MODULE AgyPrimaryProofs --------------------------
(***************************************************************************)
(* Proofs about the Antigravity route for any number of DSH sessions, steps*)
(* and children, and histories of any length.                              *)
(*                                                                         *)
(* An action ends the part of a step that is over, then begins the next:   *)
(* the session of a failed turn is closed and the step waits for the exit; *)
(* a result is taken and the repair written.  The invariant Good is stated *)
(* of any sessions, guards, children and calls, so that it can be shown of *)
(* what lies between the two.                                              *)
(***************************************************************************)
EXTENDS AgyPrimary, HeardMessagesProofs, FiniteSetTheorems

\* The step holds its session's guard, or waits for the answer of a child.
Holding(step) ==
  /\ step.key # None
  /\ step.pc \in {"starting", "turn", "repair", "rejected"} \/ step.next \in {"rebuild", "again", "throw"}
Working(step) == step.pc \in {"turn", "repair"}
Throwaway(step) == step.pc = "rejected" /\ step.key = None

\* How often a step has asked: twice before the retry, and of its present round once when
\* it waits for a turn and twice when it repairs or has failed.
Rounds(step) == IF step.retried THEN 2 ELSE 0
Asked(step) ==
  IF step.pc = "starting" \/ step.next \in {"rebuild", "again"} THEN 0
  ELSE IF step.pc = "turn" \/ step.next = "judge" THEN 1 ELSE 2

StepOK(step, stage) ==
  /\ step.pc = "idle" => step = Idle
  /\ step.pc = "closing" <=> step.next # "none"
  /\ step.key = None => step.request = <<>> /\ ~step.repairing /\ step.next \notin {"rebuild", "again"}
  /\ step.next = "judge" => step.key = None
  /\ step.pc = "repair" => step.repairing
  /\ step.pc \in {"starting", "turn"} \/ step.next \in {"rebuild", "again", "judge"} => ~step.repairing
  /\ step.pc = "rejected" =>
       step.error \in {"own", "reaped"} \/ (step.error = "closed" /\ stage # "no")
  /\ step.answered \in {0, step.turn}
  /\ step.lines <= Rounds(step) + Asked(step)
  /\ step.next = "retry" => ~step.retried

\* What a live child was told: the request of the turn it works on, or what was recorded as
\* delivered.
Hears(x, calls) ==
  IF x.pending # None /\ calls[x.pending].pc = "turn"
  THEN /\ IsPrefixOf(x.sentDigests, calls[x.pending].request)
       /\ Unheard(x.told) = Unheard(calls[x.pending].request)
  ELSE Unheard(x.told) = Unheard(x.sentDigests)

ChildOK(ch, x, mapped, mine, stage, calls) ==
  /\ x.state = "gone" => x = Gone
  /\ x.pending # None => LET step == calls[x.pending] IN
       /\ x.state = "alive" /\ Working(step)
       /\ step.child = ch /\ step.key = x.key /\ step.turn = x.line /\ step.signature = x.signature
  /\ x.state = "alive" =>
       /\ x.buffered = 0
       /\ IF x.key = None THEN x.pending # None ELSE mapped[x.key] = ch
       /\ ~x.late => ch \in mine /\ stage \in {"no", "sessions"}
       /\ Hears(x, calls)
  /\ x.executed <= 1
  /\ x.idleTimer => x.key \in Key /\ mapped[x.key] = ch

\* A step that waits for an answer is the one its child works for; one that waits for a
\* child has none yet; a throwaway child that failed is still its step's.
LinkOK(c, mapped, childs, calls) ==
  /\ Working(calls[c]) => calls[c].child \in Child /\ childs[calls[c].child].pending = c
  /\ Holding(calls[c]) /\ calls[c].pc \in {"starting", "closing"} => mapped[calls[c].key] = None
  /\ Throwaway(calls[c]) =>
       /\ calls[c].child \in Child
       /\ childs[calls[c].child].state = "dead" /\ childs[calls[c].child].key = None
       /\ \A d \in Call : Throwaway(calls[d]) /\ calls[d].child = calls[c].child => d = c

\* An opened session without a timer has a turn that will arm it or close the session.
Arming(step, k) ==
  step.key = k /\ (step.pc = "turn" \/ (step.pc = "rejected" /\ ~step.repairing))
KeyOK(k, mapped, childs, calls) ==
  mapped[k] # None =>
    /\ childs[mapped[k]].key = k /\ childs[mapped[k]].state # "gone"
    /\ childs[mapped[k]].opened /\ ~childs[mapped[k]].idleTimer => \E c \in Call : Arming(calls[c], k)

GuardsOK(guards, calls) ==
  /\ \A k \in guards : \E c \in Call : Holding(calls[c]) /\ calls[c].key = k
  /\ \A c \in Call : Holding(calls[c]) => calls[c].key \in guards
  /\ \A c, d \in Call : Holding(calls[c]) /\ Holding(calls[d]) /\ calls[c].key = calls[d].key => c = d

Good(mapped, guards, mine, stage, childs, calls) ==
  /\ mapped \in [Key -> Child \cup {None}] /\ guards \in SUBSET Key /\ mine \in SUBSET Child
  /\ stage \in {"no", "sessions", "children", "done"}
  /\ childs \in [Child -> ChildState] /\ calls \in [Call -> StepState]
  /\ \A c \in Call : StepOK(calls[c], stage)
  /\ \A ch \in Child : ChildOK(ch, childs[ch], mapped, mine, stage, calls)
  /\ \A c \in Call : LinkOK(c, mapped, childs, calls)
  /\ \A k \in Key : KeyOK(k, mapped, childs, calls)
  /\ GuardsOK(guards, calls)

GoodState == Good(sessions, turnsInFlight, turnChildren, disposed, child, call)
Inv == history \in [Key -> Seq(Message)] /\ steps \in 0..MaxSteps /\ GoodState

-----------------------------------------------------------------------------
(* Types *)

LEMMA Constants ==
  /\ MaxSteps \in Nat /\ MaxChildren \in Nat
  /\ None \notin Key /\ None \notin Call /\ None \notin Nat /\ None \notin Child
  /\ AnySignature \in Signature /\ Child \subseteq Nat
  BY BoundsAssumption, SentinelAssumption DEF AnySignature, Child

LEMMA GoneType ==
  /\ Gone \in ChildState
  /\ Gone.state = "gone" /\ Gone.pending = None /\ Gone.executed = 0 /\ ~Gone.idleTimer /\ Gone.key = None
  BY Constants DEF Gone, ChildState, Stamp

LEMMA IdleType ==
  /\ Idle \in StepState /\ Idle.pc = "idle" /\ Idle.key = None /\ Idle.next = "none"
  /\ Idle.request = <<>> /\ Idle.lines = 0 /\ ~Idle.repairing /\ ~Idle.retried
  /\ ~Holding(Idle) /\ ~Working(Idle) /\ ~Throwaway(Idle)
  /\ \A stage : StepOK(Idle, stage)
<1>1. /\ Idle.pc = "idle" /\ Idle.key = None /\ Idle.next = "none" /\ Idle.answered = 0 /\ Idle.turn = 0
      /\ Idle.request = <<>> /\ Idle.lines = 0 /\ ~Idle.repairing /\ ~Idle.retried
  BY DEF Idle
<1>2. Idle \in StepState
  <2>1. NoResult \in Result
    BY DEF NoResult, Result, Stamp
  <2> QED BY <2>1, Constants DEF Idle, StepState, Stamp
<1>3. ~Holding(Idle) /\ ~Working(Idle) /\ ~Throwaway(Idle)
  BY <1>1 DEF Holding, Working, Throwaway
<1>4. ASSUME NEW stage PROVE StepOK(Idle, stage)
  BY <1>1 DEF StepOK, Rounds, Asked
<1> QED BY <1>1, <1>2, <1>3, <1>4

-----------------------------------------------------------------------------
(* What a change leaves alone *)

LEMMA ChildKeeps ==
  ASSUME NEW ch \in Child, NEW x \in ChildState,
         NEW mapped, NEW mine, NEW stage, NEW calls, ChildOK(ch, x, mapped, mine, stage, calls),
         NEW mapped2, NEW mine2, NEW calls2,
         x.key \in Key /\ mapped[x.key] = ch => mapped2[x.key] = ch,
         ch \in mine /\ x.state = "alive" => ch \in mine2,
         x.pending # None => calls2[x.pending] = calls[x.pending]
  PROVE  ChildOK(ch, x, mapped2, mine2, stage, calls2)
<1>1. x.key \in Key \cup {None}
  BY DEF ChildState
<1>2. Hears(x, calls) => Hears(x, calls2)
  BY DEF Hears
<1> QED BY <1>1, <1>2 DEF ChildOK

LEMMA LinkKeeps ==
  ASSUME NEW c \in Call, NEW mapped, NEW childs, NEW calls, LinkOK(c, mapped, childs, calls),
         NEW mapped2, NEW childs2, NEW calls2, calls2[c] = calls[c],
         Working(calls[c]) => childs2[calls[c].child].pending = c,
         Holding(calls[c]) => mapped2[calls[c].key] \in {mapped[calls[c].key], None},
         Throwaway(calls[c]) =>
           /\ childs2[calls[c].child].state = "dead" /\ childs2[calls[c].child].key = None
           /\ \A d \in Call : Throwaway(calls2[d]) /\ calls2[d].child = calls[c].child /\ d # c =>
                Throwaway(calls[d]) /\ calls[d].child = calls[c].child
  PROVE  LinkOK(c, mapped2, childs2, calls2)
  BY DEF LinkOK

-----------------------------------------------------------------------------
(* The end of a part of a step *)

Guard(step) == IF Holding(step) THEN {step.key} ELSE {}

\* A step that no child works for is over.
LEMMA Drop ==
  ASSUME NEW mapped, NEW guards, NEW mine, NEW stage, NEW childs, NEW calls,
         Good(mapped, guards, mine, stage, childs, calls),
         NEW c \in Call, ~Working(calls[c]),
         calls[c].pc = "rejected" /\ ~calls[c].repairing /\ calls[c].key # None => mapped[calls[c].key] = None
  PROVE  Good(mapped, guards \ Guard(calls[c]), mine, stage, childs, [calls EXCEPT ![c] = Idle])
<1> DEFINE after == [calls EXCEPT ![c] = Idle]
<1>1. /\ after \in [Call -> StepState] /\ after[c] = Idle
      /\ \A d \in Call : d # c => after[d] = calls[d]
  BY IdleType DEF Good
<1>2. \A d \in Call : StepOK(after[d], stage)
  BY <1>1, IdleType DEF Good
<1>3. ASSUME NEW ch \in Child PROVE ChildOK(ch, childs[ch], mapped, mine, stage, after)
  <2>1. childs[ch] \in ChildState /\ ChildOK(ch, childs[ch], mapped, mine, stage, calls)
    BY DEF Good
  <2>2. childs[ch].pending # None => childs[ch].pending \in Call /\ childs[ch].pending # c
    BY <2>1 DEF ChildOK, ChildState
  <2> QED BY <2>1, <2>2, <1>1, ChildKeeps
<1>4. ASSUME NEW d \in Call PROVE LinkOK(d, mapped, childs, after)
  <2>1. CASE d = c
    BY <2>1, <1>1, IdleType DEF LinkOK
  <2>2. CASE d # c
    <3>1. LinkOK(d, mapped, childs, calls)
      BY DEF Good
    <3> QED BY <3>1, <2>2, <1>1, IdleType DEF LinkOK
  <2> QED BY <2>1, <2>2
<1>5. ASSUME NEW k \in Key PROVE KeyOK(k, mapped, childs, after)
  <2>1. KeyOK(k, mapped, childs, calls)
    BY DEF Good
  <2>2. ASSUME mapped[k] # None, NEW d \in Call, Arming(calls[d], k) PROVE Arming(after[d], k)
    BY <2>2, <1>1, Constants DEF Arming, Working
  <2> QED BY <2>1, <2>2 DEF KeyOK
<1>6. GuardsOK(guards \ Guard(calls[c]), after)
  <2>1. GuardsOK(guards, calls)
    BY DEF Good
  <2> QED BY <2>1, <1>1, IdleType DEF GuardsOK, Guard
<1> QED
  <2>1. guards \ Guard(calls[c]) \in SUBSET Key
    BY DEF Good
  <2> QED BY <2>1, <1>1, <1>2, <1>3, <1>4, <1>5, <1>6 DEF Good

\* A session's child has answered its step.
LEMMA Answered ==
  ASSUME NEW mapped, NEW guards, NEW mine, NEW stage, NEW childs, NEW calls,
         Good(mapped, guards, mine, stage, childs, calls),
         NEW ch \in Child, NEW c \in Call, childs[ch].pending = c, childs[ch].key # None,
         NEW x \in ChildState, x.state = "alive", x.key = childs[ch].key, x.pending = None,
         x.buffered = 0, x.late = childs[ch].late, x.executed <= 1, x.opened => x.idleTimer,
         Unheard(x.told) = Unheard(x.sentDigests)
  PROVE  Good(mapped, guards \ {x.key}, mine, stage, [childs EXCEPT ![ch] = x], [calls EXCEPT ![c] = Idle])
<1> DEFINE after == [calls EXCEPT ![c] = Idle]
           then == [childs EXCEPT ![ch] = x]
<1>1. /\ after \in [Call -> StepState] /\ after[c] = Idle
      /\ \A d \in Call : d # c => after[d] = calls[d]
      /\ then \in [Child -> ChildState] /\ then[ch] = x
      /\ \A other \in Child : other # ch => then[other] = childs[other]
  BY IdleType DEF Good
<1>2. /\ childs[ch].state = "alive" /\ Working(calls[c]) /\ calls[c].child = ch /\ calls[c].key = x.key
      /\ x.key \in Key /\ mapped[x.key] = ch /\ Holding(calls[c])
      /\ ~childs[ch].late => ch \in mine /\ stage \in {"no", "sessions"}
  <2>1. ChildOK(ch, childs[ch], mapped, mine, stage, calls) /\ x.key \in Key \cup {None}
    BY DEF Good, ChildState
  <2>2. /\ childs[ch].state = "alive" /\ Working(calls[c]) /\ calls[c].child = ch /\ calls[c].key = x.key
    BY <2>1, Constants DEF ChildOK
  <2>3. Holding(calls[c])
    BY <2>2 DEF Holding, Working
  <2> QED BY <2>1, <2>2, <2>3 DEF ChildOK
<1>3. \A d \in Call : StepOK(after[d], stage)
  BY <1>1, IdleType DEF Good
<1>4. ASSUME NEW other \in Child PROVE ChildOK(other, then[other], mapped, mine, stage, after)
  <2>1. CASE other = ch
    BY <2>1, <1>1, <1>2 DEF ChildOK, Hears
  <2>2. CASE other # ch
    <3>1. childs[other] \in ChildState /\ ChildOK(other, childs[other], mapped, mine, stage, calls)
      BY DEF Good
    <3>2. childs[other].pending # None => childs[other].pending \in Call /\ childs[other].pending # c
      BY <3>1, <2>2, <1>2 DEF ChildOK, ChildState
    <3> QED BY <3>1, <3>2, <2>2, <1>1, ChildKeeps
  <2> QED BY <2>1, <2>2
<1>5. ASSUME NEW d \in Call PROVE LinkOK(d, mapped, then, after)
  <2>1. CASE d = c
    BY <2>1, <1>1, IdleType DEF LinkOK
  <2>2. CASE d # c
    <3>1. LinkOK(d, mapped, childs, calls)
      BY DEF Good
    <3>2. (Working(calls[d]) \/ Throwaway(calls[d])) => calls[d].child \in Child /\ calls[d].child # ch
      BY <3>1, <2>2, <1>2 DEF LinkOK
    <3> QED BY <3>1, <3>2, <2>2, <1>1, IdleType DEF LinkOK
  <2> QED BY <2>1, <2>2
<1>6. ASSUME NEW k \in Key PROVE KeyOK(k, mapped, then, after)
  <2>1. KeyOK(k, mapped, childs, calls) /\ mapped[k] \in Child \cup {None}
    BY DEF Good
  <2>2. CASE mapped[k] = ch
    BY <2>1, <2>2, <1>1, <1>2 DEF KeyOK
  <2>3. CASE mapped[k] # ch
    <3>1. ASSUME NEW d \in Call, Arming(calls[d], k) PROVE Arming(after[d], k)
      BY <3>1, <2>3, <1>1, <1>2 DEF Arming
    <3> QED BY <2>1, <2>3, <3>1, <1>1 DEF KeyOK
  <2> QED BY <2>2, <2>3
<1>7. GuardsOK(guards \ {x.key}, after)
  <2>1. GuardsOK(guards, calls)
    BY DEF Good
  <2> QED BY <2>1, <1>1, <1>2, IdleType DEF GuardsOK
<1> QED
  <2>1. guards \ {x.key} \in SUBSET Key
    BY DEF Good
  <2> QED BY <2>1, <1>1, <1>3, <1>4, <1>5, <1>6, <1>7 DEF Good

\* A throwaway child has answered, and is closed.
LEMMA AnsweredOnce ==
  ASSUME NEW mapped, NEW guards, NEW mine, NEW stage, NEW childs, NEW calls,
         Good(mapped, guards, mine, stage, childs, calls),
         NEW ch \in Child, NEW c \in Call, childs[ch].pending = c, childs[ch].key = None
  PROVE  Good(mapped, guards, mine \ {ch}, stage, [childs EXCEPT ![ch] = Gone], [calls EXCEPT ![c] = Idle])
<1> DEFINE after == [calls EXCEPT ![c] = Idle]
           then == [childs EXCEPT ![ch] = Gone]
<1>1. /\ after \in [Call -> StepState] /\ after[c] = Idle
      /\ \A d \in Call : d # c => after[d] = calls[d]
      /\ then \in [Child -> ChildState] /\ then[ch] = Gone
      /\ \A other \in Child : other # ch => then[other] = childs[other]
  BY IdleType, GoneType DEF Good
<1>2. childs[ch].state = "alive" /\ Working(calls[c]) /\ calls[c].child = ch /\ calls[c].key = None
  <2>1. ChildOK(ch, childs[ch], mapped, mine, stage, calls)
    BY DEF Good
  <2> QED BY <2>1, Constants DEF ChildOK
<1>3. \A d \in Call : StepOK(after[d], stage)
  BY <1>1, IdleType DEF Good
<1>4. ASSUME NEW other \in Child PROVE ChildOK(other, then[other], mapped, mine \ {ch}, stage, after)
  <2>1. CASE other = ch
    BY <2>1, <1>1, GoneType DEF ChildOK
  <2>2. CASE other # ch
    <3>1. childs[other] \in ChildState /\ ChildOK(other, childs[other], mapped, mine, stage, calls)
      BY DEF Good
    <3>2. childs[other].pending # None => childs[other].pending \in Call /\ childs[other].pending # c
      BY <3>1, <2>2, <1>2 DEF ChildOK, ChildState
    <3> QED BY <3>1, <3>2, <2>2, <1>1, ChildKeeps
  <2> QED BY <2>1, <2>2
<1>5. ASSUME NEW d \in Call PROVE LinkOK(d, mapped, then, after)
  <2>1. CASE d = c
    BY <2>1, <1>1, IdleType DEF LinkOK
  <2>2. CASE d # c
    <3>1. LinkOK(d, mapped, childs, calls)
      BY DEF Good
    <3>2. (Working(calls[d]) \/ Throwaway(calls[d])) => calls[d].child \in Child /\ calls[d].child # ch
      BY <3>1, <2>2, <1>2 DEF LinkOK
    <3> QED BY <3>1, <3>2, <2>2, <1>1, IdleType DEF LinkOK
  <2> QED BY <2>1, <2>2
<1>6. ASSUME NEW k \in Key PROVE KeyOK(k, mapped, then, after)
  <2>1. KeyOK(k, mapped, childs, calls) /\ mapped[k] \in Child \cup {None}
    BY DEF Good
  <2>2. mapped[k] # ch
    BY <2>1, Constants DEF KeyOK
  <2>3. ASSUME NEW d \in Call, Arming(calls[d], k) PROVE Arming(after[d], k)
    BY <2>3, <1>1, <1>2, Constants DEF Arming
  <2> QED BY <2>1, <2>2, <2>3, <1>1 DEF KeyOK
<1>7. GuardsOK(guards, after)
  <2>1. GuardsOK(guards, calls) /\ ~Holding(calls[c])
    BY <1>2 DEF Good, Holding
  <2> QED BY <2>1, <1>1, IdleType DEF GuardsOK
<1> QED BY <1>1, <1>3, <1>4, <1>5, <1>6, <1>7 DEF Good

-----------------------------------------------------------------------------
(* The beginning of a part of a step *)

\* A step waits for a child, or for the exit of one.
LEMMA Waits ==
  ASSUME NEW mapped, NEW guards, NEW mine, NEW stage, NEW childs, NEW calls,
         Good(mapped, guards, mine, stage, childs, calls),
         NEW c \in Call, calls[c] = Idle,
         NEW step \in StepState, StepOK(step, stage), step.pc \in {"starting", "closing"},
         Holding(step) => step.key \notin guards /\ mapped[step.key] = None
  PROVE  Good(mapped, guards \cup Guard(step), mine, stage, childs, [calls EXCEPT ![c] = step])
<1> DEFINE after == [calls EXCEPT ![c] = step]
<1>1. /\ after \in [Call -> StepState] /\ after[c] = step
      /\ \A d \in Call : d # c => after[d] = calls[d]
  BY DEF Good
<1>2. ~Working(step) /\ ~Throwaway(step)
  BY DEF Working, Throwaway
<1>3. \A d \in Call : StepOK(after[d], stage)
  BY <1>1 DEF Good
<1>4. ASSUME NEW ch \in Child PROVE ChildOK(ch, childs[ch], mapped, mine, stage, after)
  <2>1. childs[ch] \in ChildState /\ ChildOK(ch, childs[ch], mapped, mine, stage, calls)
    BY DEF Good
  <2>2. childs[ch].pending # None => childs[ch].pending \in Call /\ childs[ch].pending # c
    BY <2>1, IdleType DEF ChildOK, ChildState
  <2> QED BY <2>1, <2>2, <1>1, ChildKeeps
<1>5. ASSUME NEW d \in Call PROVE LinkOK(d, mapped, childs, after)
  <2>1. CASE d = c
    BY <2>1, <1>1, <1>2 DEF LinkOK
  <2>2. CASE d # c
    <3>1. LinkOK(d, mapped, childs, calls)
      BY DEF Good
    <3> QED BY <3>1, <2>2, <1>1, <1>2 DEF LinkOK
  <2> QED BY <2>1, <2>2
<1>6. ASSUME NEW k \in Key PROVE KeyOK(k, mapped, childs, after)
  <2>1. KeyOK(k, mapped, childs, calls)
    BY DEF Good
  <2>2. ASSUME NEW d \in Call, Arming(calls[d], k) PROVE Arming(after[d], k)
    BY <2>2, <1>1, IdleType, Constants DEF Arming
  <2> QED BY <2>1, <2>2 DEF KeyOK
<1>7. GuardsOK(guards \cup Guard(step), after)
  <2>1. GuardsOK(guards, calls)
    BY DEF Good
  <2> QED BY <2>1, <1>1, IdleType DEF GuardsOK, Guard
<1> QED
  <2>1. guards \cup Guard(step) \in SUBSET Key
    <3>1. step.key \in Key \cup {None}
      BY DEF StepState
    <3> QED BY <3>1 DEF Good, Guard, Holding
  <2> QED BY <2>1, <1>1, <1>3, <1>4, <1>5, <1>6, <1>7 DEF Good

\* A line is written to a session's child.
LEMMA Writes ==
  ASSUME NEW mapped, NEW guards, NEW mine, NEW stage, NEW childs, NEW calls,
         Good(mapped, guards, mine, stage, childs, calls),
         NEW c \in Call, calls[c] = Idle,
         NEW ch \in Child, childs[ch].state = "alive", childs[ch].pending = None,
         childs[ch].key # None, childs[ch].key \notin guards,
         NEW step \in StepState, StepOK(step, stage), Working(step), step.child = ch, step.key = childs[ch].key,
         NEW x \in ChildState, x.state = "alive", x.key = childs[ch].key, x.signature = step.signature,
         x.pending = c, x.line = step.turn, x.buffered = 0, x.late = childs[ch].late, x.executed <= 1,
         x.idleTimer = childs[ch].idleTimer, x.opened = childs[ch].opened \/ step.pc = "turn",
         IF step.pc = "turn"
         THEN IsPrefixOf(x.sentDigests, step.request) /\ Unheard(x.told) = Unheard(step.request)
         ELSE Unheard(x.told) = Unheard(x.sentDigests)
  PROVE  Good(mapped, guards \cup {step.key}, mine, stage, [childs EXCEPT ![ch] = x], [calls EXCEPT ![c] = step])
<1> DEFINE after == [calls EXCEPT ![c] = step]
           then == [childs EXCEPT ![ch] = x]
<1>1. /\ after \in [Call -> StepState] /\ after[c] = step
      /\ \A d \in Call : d # c => after[d] = calls[d]
      /\ then \in [Child -> ChildState] /\ then[ch] = x
      /\ \A other \in Child : other # ch => then[other] = childs[other]
  BY DEF Good
<1>2. /\ x.key \in Key /\ mapped[x.key] = ch /\ step.key = x.key
      /\ ~childs[ch].late => ch \in mine /\ stage \in {"no", "sessions"}
  <2>1. ChildOK(ch, childs[ch], mapped, mine, stage, calls) /\ x.key \in Key \cup {None}
    BY DEF Good, ChildState
  <2> QED BY <2>1 DEF ChildOK
<1>3. Holding(step) /\ ~Throwaway(step) /\ step.pc \notin {"starting", "closing"}
  BY <1>2, Constants DEF Holding, Working, Throwaway
<1>4. \A d \in Call : StepOK(after[d], stage)
  BY <1>1 DEF Good
<1>5. ASSUME NEW other \in Child PROVE ChildOK(other, then[other], mapped, mine, stage, after)
  <2>1. CASE other = ch
    BY <2>1, <1>1, <1>2, Constants DEF ChildOK, Hears
  <2>2. CASE other # ch
    <3>1. childs[other] \in ChildState /\ ChildOK(other, childs[other], mapped, mine, stage, calls)
      BY DEF Good
    <3>2. childs[other].pending # None => childs[other].pending \in Call /\ childs[other].pending # c
      BY <3>1, IdleType DEF ChildOK, ChildState
    <3> QED BY <3>1, <3>2, <2>2, <1>1, ChildKeeps
  <2> QED BY <2>1, <2>2
<1>6. ASSUME NEW d \in Call PROVE LinkOK(d, mapped, then, after)
  <2>1. CASE d = c
    BY <2>1, <1>1, <1>3 DEF LinkOK
  <2>2. CASE d # c
    <3>1. LinkOK(d, mapped, childs, calls)
      BY DEF Good
    <3>2. (Working(calls[d]) \/ Throwaway(calls[d])) => calls[d].child \in Child /\ calls[d].child # ch
      BY <3>1, Constants DEF LinkOK
    <3> QED BY <3>1, <3>2, <2>2, <1>1, <1>3 DEF LinkOK
  <2> QED BY <2>1, <2>2
<1>7. ASSUME NEW k \in Key PROVE KeyOK(k, mapped, then, after)
  <2>1. KeyOK(k, mapped, childs, calls) /\ mapped[k] \in Child \cup {None}
    BY DEF Good
  <2>2. ASSUME NEW d \in Call, Arming(calls[d], k) PROVE Arming(after[d], k)
    BY <2>2, <1>1, IdleType, Constants DEF Arming
  <2>3. step.pc = "turn" => Arming(after[c], x.key)
    BY <1>1 DEF Arming
  <2> QED BY <2>1, <2>2, <2>3, <1>1 DEF KeyOK
<1>8. GuardsOK(guards \cup {step.key}, after)
  <2>1. GuardsOK(guards, calls)
    BY DEF Good
  <2> QED BY <2>1, <1>1, <1>2, <1>3, IdleType DEF GuardsOK
<1> QED
  <2>1. guards \cup {step.key} \in SUBSET Key
    BY <1>2 DEF Good
  <2> QED BY <2>1, <1>1, <1>4, <1>5, <1>6, <1>7, <1>8 DEF Good

\* A child is started for a session, and nothing written to it yet.
LEMMA Born ==
  ASSUME NEW mapped, NEW guards, NEW mine, NEW stage, NEW childs, NEW calls,
         Good(mapped, guards, mine, stage, childs, calls),
         NEW ch \in Child, childs[ch].state = "gone",
         NEW k \in Key, k \notin guards, mapped[k] = None,
         NEW x \in ChildState, x.state = "alive", x.key = k, x.pending = None, x.buffered = 0,
         x.executed <= 1, ~x.opened, ~x.idleTimer, ~x.late => stage = "no",
         Unheard(x.told) = Unheard(x.sentDigests)
  PROVE  Good([mapped EXCEPT ![k] = ch], guards, mine \cup {ch}, stage, [childs EXCEPT ![ch] = x], calls)
<1> DEFINE then == [childs EXCEPT ![ch] = x]
           map == [mapped EXCEPT ![k] = ch]
<1>1. /\ then \in [Child -> ChildState] /\ then[ch] = x
      /\ \A other \in Child : other # ch => then[other] = childs[other]
      /\ map \in [Key -> Child \cup {None}] /\ map[k] = ch
      /\ \A l \in Key : l # k => map[l] = mapped[l]
  BY DEF Good
<1>2. childs[ch] = Gone
  BY DEF Good, ChildOK
<1>3. ASSUME NEW other \in Child PROVE ChildOK(other, then[other], map, mine \cup {ch}, stage, calls)
  <2>1. CASE other = ch
    BY <2>1, <1>1, Constants DEF ChildOK, Hears
  <2>2. CASE other # ch
    <3>1. childs[other] \in ChildState /\ ChildOK(other, childs[other], mapped, mine, stage, calls)
      BY DEF Good
    <3>2. childs[other].key \in Key /\ mapped[childs[other].key] = other => map[childs[other].key] = other
      BY <1>1, Constants
    <3> QED BY <3>1, <3>2, <2>2, <1>1, ChildKeeps
  <2> QED BY <2>1, <2>2
<1>4. ASSUME NEW d \in Call PROVE LinkOK(d, map, then, calls)
  <2>1. LinkOK(d, mapped, childs, calls) /\ calls[d].key \in Key \cup {None}
    BY DEF Good, StepState
  <2>2. (Working(calls[d]) \/ Throwaway(calls[d])) => calls[d].child \in Child /\ calls[d].child # ch
    BY <2>1, <1>2, GoneType, Constants DEF LinkOK
  <2>3. Holding(calls[d]) => calls[d].key \in Key /\ calls[d].key # k
    BY <2>1 DEF Good, GuardsOK, Holding
  <2> QED BY <2>1, <2>2, <2>3, <1>1 DEF LinkOK
<1>5. ASSUME NEW l \in Key PROVE KeyOK(l, map, then, calls)
  <2>1. KeyOK(l, mapped, childs, calls) /\ mapped[l] \in Child \cup {None}
    BY DEF Good
  <2>2. l # k /\ mapped[l] # None => mapped[l] # ch
    BY <2>1, <1>2, GoneType DEF KeyOK
  <2> QED BY <2>1, <2>2, <1>1 DEF KeyOK
<1> QED
  <2>1. mine \cup {ch} \in SUBSET Child
    BY DEF Good
  <2> QED BY <2>1, <1>1, <1>3, <1>4, <1>5 DEF Good

\* A throwaway child is started and asked.
LEMMA BornOnce ==
  ASSUME NEW mapped, NEW guards, NEW mine, NEW stage, NEW childs, NEW calls,
         Good(mapped, guards, mine, stage, childs, calls),
         NEW c \in Call, calls[c] = Idle,
         NEW ch \in Child, childs[ch].state = "gone",
         NEW step \in StepState, StepOK(step, stage), step.pc = "turn", step.child = ch, step.key = None,
         NEW x \in ChildState, x.state = "alive", x.key = None, x.signature = step.signature,
         x.pending = c, x.line = step.turn, x.buffered = 0, x.executed <= 1, ~x.idleTimer,
         ~x.late => stage = "no",
         IsPrefixOf(x.sentDigests, step.request), Unheard(x.told) = Unheard(step.request)
  PROVE  Good(mapped, guards, mine \cup {ch}, stage, [childs EXCEPT ![ch] = x], [calls EXCEPT ![c] = step])
<1> DEFINE after == [calls EXCEPT ![c] = step]
           then == [childs EXCEPT ![ch] = x]
<1>1. /\ after \in [Call -> StepState] /\ after[c] = step
      /\ \A d \in Call : d # c => after[d] = calls[d]
      /\ then \in [Child -> ChildState] /\ then[ch] = x
      /\ \A other \in Child : other # ch => then[other] = childs[other]
  BY DEF Good
<1>2. childs[ch] = Gone
  BY DEF Good, ChildOK
<1>3. Working(step) /\ ~Holding(step) /\ ~Throwaway(step)
  BY DEF Holding, Working, Throwaway
<1>4. \A d \in Call : StepOK(after[d], stage)
  BY <1>1 DEF Good
<1>5. ASSUME NEW other \in Child PROVE ChildOK(other, then[other], mapped, mine \cup {ch}, stage, after)
  <2>1. CASE other = ch
    BY <2>1, <1>1, <1>3, Constants DEF ChildOK, Hears
  <2>2. CASE other # ch
    <3>1. childs[other] \in ChildState /\ ChildOK(other, childs[other], mapped, mine, stage, calls)
      BY DEF Good
    <3>2. childs[other].pending # None => childs[other].pending \in Call /\ childs[other].pending # c
      BY <3>1, IdleType DEF ChildOK, ChildState
    <3> QED BY <3>1, <3>2, <2>2, <1>1, ChildKeeps
  <2> QED BY <2>1, <2>2
<1>6. ASSUME NEW d \in Call PROVE LinkOK(d, mapped, then, after)
  <2>1. CASE d = c
    BY <2>1, <1>1, <1>3 DEF LinkOK
  <2>2. CASE d # c
    <3>1. LinkOK(d, mapped, childs, calls)
      BY DEF Good
    <3>2. (Working(calls[d]) \/ Throwaway(calls[d])) => calls[d].child \in Child /\ calls[d].child # ch
      BY <3>1, <1>2, GoneType, Constants DEF LinkOK
    <3> QED BY <3>1, <3>2, <2>2, <1>1, <1>3 DEF LinkOK
  <2> QED BY <2>1, <2>2
<1>7. ASSUME NEW k \in Key PROVE KeyOK(k, mapped, then, after)
  <2>1. KeyOK(k, mapped, childs, calls) /\ mapped[k] \in Child \cup {None}
    BY DEF Good
  <2>2. ASSUME NEW d \in Call, Arming(calls[d], k) PROVE Arming(after[d], k)
    BY <2>2, <1>1, IdleType, Constants DEF Arming
  <2>3. mapped[k] # None => mapped[k] # ch
    BY <2>1, <1>2, GoneType DEF KeyOK
  <2> QED BY <2>1, <2>2, <2>3, <1>1 DEF KeyOK
<1>8. GuardsOK(guards, after)
  <2>1. GuardsOK(guards, calls)
    BY DEF Good
  <2> QED BY <2>1, <1>1, <1>3, IdleType DEF GuardsOK
<1> QED
  <2>1. mine \cup {ch} \in SUBSET Child
    BY DEF Good
  <2> QED BY <2>1, <1>1, <1>4, <1>5, <1>6, <1>7, <1>8 DEF Good

-----------------------------------------------------------------------------
(* Children that end *)

\* A child dies before it was asked anything, or is dead and changes in nothing that
\* matters to others.
LEMMA StaysDead ==
  ASSUME NEW mapped, NEW guards, NEW mine, NEW stage, NEW childs, NEW calls,
         Good(mapped, guards, mine, stage, childs, calls),
         NEW ch \in Child, NEW x \in ChildState, x.state = "dead", x.pending = None, x.executed <= 1,
         \/ childs[ch].state = "gone" /\ ~x.idleTimer
         \/ /\ childs[ch].state = "dead" /\ x.key = childs[ch].key
            /\ x.opened = childs[ch].opened /\ x.idleTimer = childs[ch].idleTimer
  PROVE  Good(mapped, guards, mine, stage, [childs EXCEPT ![ch] = x], calls)
<1> DEFINE then == [childs EXCEPT ![ch] = x]
<1>1. /\ then \in [Child -> ChildState] /\ then[ch] = x
      /\ \A other \in Child : other # ch => then[other] = childs[other]
  BY DEF Good
<1>2. childs[ch].state # "alive" /\ childs[ch].pending = None
  <2>1. ChildOK(ch, childs[ch], mapped, mine, stage, calls)
    BY DEF Good
  <2> QED BY <2>1, GoneType DEF ChildOK
<1>3. ASSUME NEW other \in Child PROVE ChildOK(other, then[other], mapped, mine, stage, calls)
  <2>1. ChildOK(other, childs[other], mapped, mine, stage, calls)
    BY DEF Good
  <2> QED BY <2>1, <1>1 DEF ChildOK
<1>4. ASSUME NEW d \in Call PROVE LinkOK(d, mapped, then, calls)
  <2>1. LinkOK(d, mapped, childs, calls)
    BY DEF Good
  <2>2. Working(calls[d]) => calls[d].child # ch
    BY <2>1, <1>2, Constants DEF LinkOK
  <2> QED BY <2>1, <2>2, <1>1 DEF LinkOK
<1>5. ASSUME NEW k \in Key PROVE KeyOK(k, mapped, then, calls)
  <2>1. KeyOK(k, mapped, childs, calls) /\ mapped[k] \in Child \cup {None}
    BY DEF Good
  <2> QED BY <2>1, <1>1 DEF KeyOK
<1> QED BY <1>1, <1>3, <1>4, <1>5 DEF Good

\* A dead child that nobody refers to is forgotten.
LEMMA Forgets ==
  ASSUME NEW mapped, NEW guards, NEW mine, NEW stage, NEW childs, NEW calls,
         Good(mapped, guards, mine, stage, childs, calls),
         NEW ch \in Child, childs[ch].state = "dead", childs[ch].key = None,
         \A c \in Call : Throwaway(calls[c]) => calls[c].child # ch
  PROVE  Good(mapped, guards, mine \ {ch}, stage, [childs EXCEPT ![ch] = Gone], calls)
<1> DEFINE then == [childs EXCEPT ![ch] = Gone]
<1>1. /\ then \in [Child -> ChildState] /\ then[ch] = Gone
      /\ \A other \in Child : other # ch => then[other] = childs[other]
  BY GoneType DEF Good
<1>2. childs[ch].pending = None
  <2>1. ChildOK(ch, childs[ch], mapped, mine, stage, calls)
    BY DEF Good
  <2> QED BY <2>1 DEF ChildOK
<1>3. ASSUME NEW other \in Child PROVE ChildOK(other, then[other], mapped, mine \ {ch}, stage, calls)
  <2>1. childs[other] \in ChildState /\ ChildOK(other, childs[other], mapped, mine, stage, calls)
    BY DEF Good
  <2>2. CASE other = ch
    BY <2>2, <1>1, GoneType DEF ChildOK
  <2>3. CASE other # ch
    BY <2>1, <2>3, <1>1, ChildKeeps
  <2> QED BY <2>2, <2>3
<1>4. ASSUME NEW d \in Call PROVE LinkOK(d, mapped, then, calls)
  <2>1. LinkOK(d, mapped, childs, calls)
    BY DEF Good
  <2>2. Working(calls[d]) => calls[d].child # ch
    BY <2>1, <1>2, Constants DEF LinkOK
  <2> QED BY <2>1, <2>2, <1>1 DEF LinkOK
<1>5. ASSUME NEW k \in Key PROVE KeyOK(k, mapped, then, calls)
  <2>1. KeyOK(k, mapped, childs, calls) /\ mapped[k] \in Child \cup {None}
    BY DEF Good
  <2>2. mapped[k] # ch
    BY <2>1, Constants DEF KeyOK
  <2> QED BY <2>1, <2>2, <1>1 DEF KeyOK
<1> QED
  <2>1. mine \ {ch} \in SUBSET Child
    BY DEF Good
  <2> QED BY <2>1, <1>1, <1>3, <1>4, <1>5 DEF Good

\* The steps that wait for the children of S are those that work with one.  They are
\* rejected, and keep their sessions' guards.
LEMMA Rejections ==
  ASSUME NEW mapped, NEW guards, NEW mine, NEW stage, NEW childs, NEW calls,
         Good(mapped, guards, mine, stage, childs, calls),
         NEW S \in SUBSET Child, NEW why \in {"own", "closed", "reaped"},
         why = "closed" /\ stage = "no" => \A ch \in S : childs[ch].pending = None,
         NEW after, after = Rejecting(calls, childs, S, why)
  PROVE  /\ after \in [Call -> StepState]
         /\ \A c \in Call :
              /\ StepOK(after[c], stage)
              /\ Holding(after[c]) <=> Holding(calls[c])
              /\ after[c].key = calls[c].key /\ after[c].child = calls[c].child
              /\ IF Working(calls[c]) /\ calls[c].child \in S
                 THEN after[c].pc = "rejected" /\ (after[c].repairing <=> calls[c].pc = "repair")
                 ELSE after[c] = calls[c]
         /\ GuardsOK(guards, after)
<1>1. ASSUME NEW c \in Call
      PROVE  (\E ch \in S : childs[ch].pending = c) <=> Working(calls[c]) /\ calls[c].child \in S
  <2>1. LinkOK(c, mapped, childs, calls)
    BY DEF Good
  <2>2. \A ch \in S : childs[ch].pending = c => Working(calls[c]) /\ calls[c].child = ch
    BY Constants DEF Good, ChildOK
  <2> QED BY <2>1, <2>2 DEF LinkOK
<1>2. ASSUME NEW c \in Call
      PROVE  after[c] = IF Working(calls[c]) /\ calls[c].child \in S
                        THEN [calls[c] EXCEPT !.pc = "rejected", !.error = why] ELSE calls[c]
  BY <1>1 DEF Rejecting
<1>3. ASSUME NEW c \in Call
      PROVE  /\ after[c] \in StepState /\ StepOK(after[c], stage)
             /\ Holding(after[c]) <=> Holding(calls[c])
             /\ after[c].key = calls[c].key /\ after[c].child = calls[c].child
             /\ IF Working(calls[c]) /\ calls[c].child \in S
                THEN after[c].pc = "rejected" /\ (after[c].repairing <=> calls[c].pc = "repair")
                ELSE after[c] = calls[c]
  <2> DEFINE step == calls[c]
             hit == [step EXCEPT !.pc = "rejected", !.error = why]
  <2>1. step \in StepState /\ StepOK(step, stage)
    BY DEF Good
  <2>2. CASE Working(step) /\ step.child \in S
    <3>1. after[c] = hit
      BY <1>2, <2>2
    <3>2. why = "closed" => stage # "no"
      BY <1>1, <2>2, Constants
    <3>3. hit \in StepState
      BY <2>1 DEF StepState
    <3>4. /\ hit.pc = "rejected" /\ hit.error = why /\ hit.key = step.key /\ hit.next = step.next
          /\ hit.request = step.request /\ hit.repairing = step.repairing /\ hit.retried = step.retried
          /\ hit.answered = step.answered /\ hit.turn = step.turn /\ hit.lines = step.lines
          /\ hit.child = step.child
      BY <2>1 DEF StepState
    <3>5. step.pc \in {"turn", "repair"} /\ step.next = "none" /\ (step.repairing <=> step.pc = "repair")
      BY <2>1, <2>2 DEF StepOK, Working, StepState
    <3>6. step.lines \in Nat /\ Rounds(hit) = Rounds(step) /\ Rounds(step) \in Nat
          /\ Asked(hit) = 2 /\ Asked(step) \in {1, 2}
      BY <2>1, <3>4, <3>5 DEF StepState, Rounds, Asked
    <3>7. StepOK(hit, stage)
      BY <2>1, <3>2, <3>4, <3>5, <3>6 DEF StepOK
    <3>8. Holding(hit) <=> Holding(step)
      BY <3>4, <3>5 DEF Holding
    <3> QED BY <2>2, <3>1, <3>3, <3>4, <3>5, <3>7, <3>8
  <2>3. CASE ~(Working(step) /\ step.child \in S)
    BY <2>1, <2>3, <1>2
  <2> QED BY <2>2, <2>3
<1>4. after \in [Call -> StepState]
  BY <1>3 DEF Rejecting
<1>5. GuardsOK(guards, after)
  BY <1>3 DEF Good, GuardsOK
<1> QED BY <1>3, <1>4, <1>5

\* Sessions are closed: their children are forgotten, and whoever waits for one is rejected.
LEMMA Closes ==
  ASSUME NEW mapped, NEW guards, NEW mine, NEW stage, NEW childs, NEW calls,
         Good(mapped, guards, mine, stage, childs, calls),
         NEW ks \in SUBSET Key, NEW S, S = {mapped[k] : k \in ks} \ {None},
         NEW why \in {"closed", "reaped"},
         why = "closed" /\ stage = "no" => \A ch \in S : childs[ch].pending = None
  PROVE  Good([k \in Key |-> IF k \in ks THEN None ELSE mapped[k]], guards, mine \ S, stage,
              Forgotten(childs, S), Rejecting(calls, childs, S, why))
<1> DEFINE map == [k \in Key |-> IF k \in ks THEN None ELSE mapped[k]]
           then == Forgotten(childs, S)
           after == Rejecting(calls, childs, S, why)
<1>1. S \in SUBSET Child /\ \A ch \in S : childs[ch].key \in ks /\ mapped[childs[ch].key] = ch
  <2>1. ASSUME NEW k \in ks, mapped[k] # None
        PROVE mapped[k] \in Child /\ childs[mapped[k]].key = k
    BY <2>1 DEF Good, KeyOK
  <2> QED BY <2>1
<1>2. /\ then \in [Child -> ChildState]
      /\ \A ch \in Child : then[ch] = IF ch \in S THEN Gone ELSE childs[ch]
      /\ map \in [Key -> Child \cup {None}]
      /\ \A k \in Key : map[k] = IF k \in ks THEN None ELSE mapped[k]
  BY GoneType DEF Good, Forgotten
<1>3. /\ after \in [Call -> StepState]
      /\ \A c \in Call :
           /\ StepOK(after[c], stage)
           /\ Holding(after[c]) <=> Holding(calls[c])
           /\ after[c].key = calls[c].key /\ after[c].child = calls[c].child
           /\ IF Working(calls[c]) /\ calls[c].child \in S
              THEN after[c].pc = "rejected" /\ (after[c].repairing <=> calls[c].pc = "repair")
              ELSE after[c] = calls[c]
      /\ GuardsOK(guards, after)
  BY <1>1, Rejections
<1>4. ASSUME NEW c \in Call, Working(calls[c]), calls[c].child \in S
      PROVE  calls[c].key \in ks /\ mapped[calls[c].key] = calls[c].child
  <2>1. childs[calls[c].child].pending = c
    BY <1>4 DEF Good, LinkOK
  <2>2. ChildOK(calls[c].child, childs[calls[c].child], mapped, mine, stage, calls)
    BY <1>1, <1>4 DEF Good
  <2>3. calls[c].key = childs[calls[c].child].key
    BY <2>1, <2>2, Constants DEF ChildOK
  <2> QED BY <2>3, <1>1, <1>4
<1>5. ASSUME NEW ch \in Child PROVE ChildOK(ch, then[ch], map, mine \ S, stage, after)
  <2>1. childs[ch] \in ChildState /\ ChildOK(ch, childs[ch], mapped, mine, stage, calls)
    BY DEF Good
  <2>2. CASE ch \in S
    BY <2>2, <1>2, GoneType DEF ChildOK
  <2>3. CASE ch \notin S
    <3>1. childs[ch].key \in Key /\ mapped[childs[ch].key] = ch => map[childs[ch].key] = ch
      BY <2>3, <1>2, Constants
    <3>2. childs[ch].pending # None => after[childs[ch].pending] = calls[childs[ch].pending]
      <4>1. childs[ch].pending # None => childs[ch].pending \in Call /\ calls[childs[ch].pending].child = ch
        BY <2>1 DEF ChildOK, ChildState
      <4> QED BY <4>1, <2>3, <1>3
    <3>3. ch \in mine => ch \in mine \ S
      BY <2>3
    <3>4. ChildOK(ch, childs[ch], map, mine \ S, stage, after)
      BY <2>1, <3>1, <3>2, <3>3, ChildKeeps
    <3> QED BY <3>4, <2>3, <1>2
  <2> QED BY <2>2, <2>3
<1>6. ASSUME NEW c \in Call PROVE LinkOK(c, map, then, after)
  <2>1. LinkOK(c, mapped, childs, calls) /\ calls[c].key \in Key \cup {None}
    BY DEF Good, StepState
  <2>2. CASE Working(calls[c]) /\ calls[c].child \in S
    <3>1. after[c].pc = "rejected" /\ after[c].key # None
      BY <2>2, <1>3, <1>4, Constants
    <3> QED BY <3>1 DEF LinkOK, Working, Throwaway
  <2>3. CASE ~(Working(calls[c]) /\ calls[c].child \in S)
    <3>1. after[c] = calls[c]
      BY <2>3, <1>3
    <3>2. \A d \in Call : Throwaway(after[d]) => Throwaway(calls[d])
      BY <1>3, <1>4, Constants DEF Throwaway
    <3>3. Throwaway(calls[c]) => calls[c].child \notin S
      BY <2>1, <1>1, Constants DEF LinkOK
    <3>4. Holding(calls[c]) => calls[c].key \in Key
      BY <2>1 DEF Holding
    <3> QED BY <2>1, <2>3, <3>1, <3>2, <3>3, <3>4, <1>2, <1>3 DEF LinkOK
  <2> QED BY <2>2, <2>3
<1>7. ASSUME NEW k \in Key PROVE KeyOK(k, map, then, after)
  <2>1. KeyOK(k, mapped, childs, calls) /\ mapped[k] \in Child \cup {None}
    BY DEF Good
  <2>2. CASE k \in ks \/ mapped[k] = None
    BY <2>2, <1>2 DEF KeyOK
  <2>3. CASE k \notin ks /\ mapped[k] # None
    <3>1. mapped[k] \notin S
      BY <2>1, <2>3, <1>1 DEF KeyOK
    <3>2. ASSUME NEW d \in Call, Arming(calls[d], k) PROVE Arming(after[d], k)
      <4>1. after[d] = calls[d]
        BY <3>2, <2>3, <1>3, <1>4 DEF Arming
      <4> QED BY <3>2, <4>1
    <3> QED BY <2>1, <2>3, <3>1, <3>2, <1>2 DEF KeyOK
  <2> QED BY <2>2, <2>3
<1> QED
  <2>1. mine \ S \in SUBSET Child
    BY DEF Good
  <2> QED BY <2>1, <1>2, <1>3, <1>5, <1>6, <1>7 DEF Good

\* Children die, and whoever waits for one is rejected.
LEMMA Kills ==
  ASSUME NEW mapped, NEW guards, NEW mine, NEW stage, NEW childs, NEW calls,
         Good(mapped, guards, mine, stage, childs, calls),
         NEW S \in SUBSET Child, NEW why \in {"own", "closed"}, why = "closed" => stage # "no"
  PROVE  Good(mapped, guards, mine, stage, Killed(childs, S), Rejecting(calls, childs, S, why))
<1> DEFINE then == Killed(childs, S)
           after == Rejecting(calls, childs, S, why)
<1>1. ASSUME NEW ch \in Child
      PROVE  /\ then[ch] \in ChildState
             /\ ch \notin S => then[ch] = childs[ch]
             /\ ch \in S => /\ then[ch].state = "dead" /\ then[ch].pending = None
                            /\ then[ch].key = childs[ch].key /\ then[ch].opened = childs[ch].opened
                            /\ then[ch].idleTimer = childs[ch].idleTimer
                            /\ then[ch].executed = childs[ch].executed
  <2>1. childs[ch] \in ChildState
    BY DEF Good
  <2> QED BY <2>1 DEF Killed, ChildState
<1>2. then \in [Child -> ChildState]
  BY <1>1 DEF Killed
<1>3. /\ after \in [Call -> StepState]
      /\ \A c \in Call :
           /\ StepOK(after[c], stage)
           /\ Holding(after[c]) <=> Holding(calls[c])
           /\ after[c].key = calls[c].key /\ after[c].child = calls[c].child
           /\ IF Working(calls[c]) /\ calls[c].child \in S
              THEN after[c].pc = "rejected" /\ (after[c].repairing <=> calls[c].pc = "repair")
              ELSE after[c] = calls[c]
      /\ GuardsOK(guards, after)
  BY Rejections
<1>4. ASSUME NEW c \in Call, Working(calls[c])
      PROVE  LET ch == calls[c].child IN
             ch \in Child /\ childs[ch].pending = c /\ childs[ch].state = "alive" /\ childs[ch].key = calls[c].key
  <2>1. LinkOK(c, mapped, childs, calls)
    BY DEF Good
  <2>2. calls[c].child \in Child /\ childs[calls[c].child].pending = c
    BY <2>1, <1>4 DEF LinkOK
  <2>3. ChildOK(calls[c].child, childs[calls[c].child], mapped, mine, stage, calls)
    BY <2>2 DEF Good
  <2> QED BY <2>2, <2>3, Constants DEF ChildOK
<1>5. ASSUME NEW ch \in Child PROVE ChildOK(ch, then[ch], mapped, mine, stage, after)
  <2>1. childs[ch] \in ChildState /\ ChildOK(ch, childs[ch], mapped, mine, stage, calls)
    BY DEF Good
  <2>2. CASE ch \in S
    BY <2>1, <2>2, <1>1 DEF ChildOK
  <2>3. CASE ch \notin S
    <3>1. childs[ch].pending # None => childs[ch].pending \in Call /\ calls[childs[ch].pending].child = ch
      BY <2>1 DEF ChildOK, ChildState
    <3>2. childs[ch].pending # None => after[childs[ch].pending] = calls[childs[ch].pending]
      BY <3>1, <2>3, <1>3
    <3>3. ChildOK(ch, childs[ch], mapped, mine, stage, after)
      BY <2>1, <3>2, ChildKeeps
    <3> QED BY <3>3, <2>3, <1>1
  <2> QED BY <2>2, <2>3
<1>6. ASSUME NEW c \in Call PROVE LinkOK(c, mapped, then, after)
  <2>1. LinkOK(c, mapped, childs, calls)
    BY DEF Good
  <2>2. ASSUME NEW d \in Call, Throwaway(after[d])
        PROVE  \/ Throwaway(calls[d])
               \/ Working(calls[d]) /\ calls[d].child \in S /\ calls[d].key = None
    BY <2>2, <1>3 DEF Throwaway
  <2>3. CASE Working(calls[c]) /\ calls[c].child \in S
    <3>1. after[c].pc = "rejected" /\ after[c].key = calls[c].key /\ after[c].child = calls[c].child
      BY <2>3, <1>3
    <3>2. ASSUME NEW d \in Call, Throwaway(after[d]), after[d].child = after[c].child PROVE d = c
      <4>1. calls[d].child = calls[c].child
        BY <3>1, <3>2, <1>3
      <4>2. LinkOK(d, mapped, childs, calls)
        BY DEF Good
      <4>3. ~Throwaway(calls[d])
        BY <4>1, <4>2, <2>3, <1>4 DEF LinkOK
      <4> QED BY <4>1, <4>3, <2>2, <2>3, <3>2, <1>4
    <3> QED BY <3>1, <3>2, <2>3, <1>1, <1>4 DEF LinkOK, Working, Throwaway
  <2>4. CASE ~(Working(calls[c]) /\ calls[c].child \in S)
    <3>1. after[c] = calls[c]
      BY <2>4, <1>3
    <3>2. Working(calls[c]) => then[calls[c].child].pending = c
      BY <2>1, <2>4, <1>1 DEF LinkOK
    <3>3. ASSUME Throwaway(calls[c])
          PROVE  /\ then[calls[c].child].state = "dead" /\ then[calls[c].child].key = None
                 /\ \A d \in Call : Throwaway(after[d]) /\ after[d].child = calls[c].child =>
                      Throwaway(calls[d]) /\ calls[d].child = calls[c].child
      <4>1. calls[c].child \in Child /\ childs[calls[c].child].state = "dead"
            /\ childs[calls[c].child].key = None
        BY <2>1, <3>3 DEF LinkOK
      <4>2. then[calls[c].child].state = "dead" /\ then[calls[c].child].key = None
        BY <4>1, <1>1
      <4>3. ASSUME NEW d \in Call, Throwaway(after[d]), after[d].child = calls[c].child
            PROVE  Throwaway(calls[d]) /\ calls[d].child = calls[c].child
        BY <4>1, <4>3, <2>2, <1>3, <1>4
      <4> QED BY <4>2, <4>3
    <3> QED BY <2>1, <3>1, <3>2, <3>3 DEF LinkOK
  <2> QED BY <2>3, <2>4
<1>7. ASSUME NEW k \in Key PROVE KeyOK(k, mapped, then, after)
  <2>1. KeyOK(k, mapped, childs, calls) /\ mapped[k] \in Child \cup {None}
    BY DEF Good
  <2>2. ASSUME NEW d \in Call, Arming(calls[d], k) PROVE Arming(after[d], k)
    BY <2>2, <1>3 DEF Arming
  <2> QED BY <2>1, <2>2, <1>1 DEF KeyOK
<1> QED BY <1>2, <1>3, <1>5, <1>6, <1>7 DEF Good

\* Dispose goes on once the children it is responsible for have been closed.
LEMMA Advances ==
  ASSUME NEW mapped, NEW guards, NEW mine, NEW stage, NEW childs, NEW calls,
         Good(mapped, guards, mine, stage, childs, calls),
         NEW mine2 \in SUBSET Child, NEW stage2 \in {"sessions", "children", "done"},
         \A ch \in Child : childs[ch].state = "alive" /\ ~childs[ch].late =>
           ch \in mine2 /\ stage2 = "sessions"
  PROVE  Good(mapped, guards, mine2, stage2, childs, calls)
<1>1. \A c \in Call : StepOK(calls[c], stage2)
  BY DEF Good, StepOK
<1>2. ASSUME NEW ch \in Child PROVE ChildOK(ch, childs[ch], mapped, mine2, stage2, calls)
  <2>1. ChildOK(ch, childs[ch], mapped, mine, stage, calls)
    BY DEF Good
  <2> QED BY <2>1 DEF ChildOK
<1> QED BY <1>1, <1>2 DEF Good

\* What a session's child has handed to DSH is counted.
LEMMA Counts ==
  ASSUME NEW mapped, NEW guards, NEW mine, NEW stage, NEW childs, NEW calls,
         Good(mapped, guards, mine, stage, childs, calls),
         NEW ch \in Child, childs[ch].state = "alive", NEW n \in Nat, n <= 1
  PROVE  Good(mapped, guards, mine, stage, [childs EXCEPT ![ch].executed = n], calls)
<1> DEFINE then == [childs EXCEPT ![ch].executed = n]
<1>1. /\ then \in [Child -> ChildState]
      /\ \A other \in Child : other # ch => then[other] = childs[other]
  BY DEF Good, ChildState
<1>2. ASSUME NEW other \in Child
      PROVE  LET x == childs[other]  y == then[other] IN
             /\ y.state = x.state /\ y.key = x.key /\ y.signature = x.signature /\ y.sentDigests = x.sentDigests
             /\ y.idleTimer = x.idleTimer /\ y.pending = x.pending /\ y.line = x.line
             /\ y.buffered = x.buffered /\ y.told = x.told /\ y.opened = x.opened /\ y.late = x.late
  BY DEF Good, ChildState
<1>3. then[ch].executed = n
  BY DEF Good, ChildState
<1>4. ASSUME NEW other \in Child PROVE ChildOK(other, then[other], mapped, mine, stage, calls)
  <2>1. ChildOK(other, childs[other], mapped, mine, stage, calls)
    BY DEF Good
  <2>2. CASE other = ch
    <3>1. Hears(childs[other], calls) => Hears(then[other], calls)
      BY <1>2 DEF Hears
    <3> QED BY <2>1, <2>2, <3>1, <1>2, <1>3 DEF ChildOK
  <2>3. CASE other # ch
    BY <2>1, <2>3, <1>1
  <2> QED BY <2>2, <2>3
<1>5. ASSUME NEW d \in Call PROVE LinkOK(d, mapped, then, calls)
  BY <1>2 DEF Good, LinkOK
<1>6. ASSUME NEW k \in Key PROVE KeyOK(k, mapped, then, calls)
  BY <1>2 DEF Good, KeyOK
<1> QED BY <1>1, <1>4, <1>5, <1>6 DEF Good

\* Nobody waits for the child of a session whose guard is free.
LEMMA Quiet ==
  ASSUME NEW mapped, NEW guards, NEW mine, NEW stage, NEW childs, NEW calls,
         Good(mapped, guards, mine, stage, childs, calls),
         NEW k \in Key, k \notin guards, mapped[k] # None
  PROVE  mapped[k] \in Child /\ childs[mapped[k]].key = k /\ childs[mapped[k]].pending = None
<1>1. mapped[k] \in Child /\ childs[mapped[k]].key = k
  BY DEF Good, KeyOK
<1>2. ASSUME childs[mapped[k]].pending # None PROVE FALSE
  <2> DEFINE d == childs[mapped[k]].pending
  <2>1. ChildOK(mapped[k], childs[mapped[k]], mapped, mine, stage, calls) /\ d \in Call
    BY <1>1, <1>2 DEF Good, ChildState
  <2>2. Working(calls[d]) /\ calls[d].key = k
    BY <2>1, <1>1, <1>2 DEF ChildOK
  <2>3. Holding(calls[d])
    BY <2>2, Constants DEF Holding, Working
  <2> QED BY <2>1, <2>2, <2>3 DEF Good, GuardsOK
<1> QED BY <1>1, <1>2

\* Nobody is rejected when nobody waits.
LEMMA RejectsNobody ==
  ASSUME NEW calls \in [Call -> StepState], NEW childs, NEW S, NEW why, \A ch \in S : childs[ch].pending = None
  PROVE  Rejecting(calls, childs, S, why) = calls
  BY Constants DEF Rejecting

\* A session nobody works with is closed.
LEMMA ClosesQuiet ==
  ASSUME NEW mapped, NEW guards, NEW mine, NEW stage, NEW childs, NEW calls,
         Good(mapped, guards, mine, stage, childs, calls),
         NEW ks \in SUBSET Key, NEW S, S = {mapped[k] : k \in ks} \ {None},
         \A ch \in S : childs[ch].pending = None
  PROVE  Good([k \in Key |-> IF k \in ks THEN None ELSE mapped[k]], guards, mine \ S, stage,
              Forgotten(childs, S), calls)
<1>1. Good([k \in Key |-> IF k \in ks THEN None ELSE mapped[k]], guards, mine \ S, stage,
           Forgotten(childs, S), Rejecting(calls, childs, S, "closed"))
  BY Closes
<1>2. Rejecting(calls, childs, S, "closed") = calls
  BY RejectsNobody DEF Good
<1> QED BY <1>1, <1>2

-----------------------------------------------------------------------------
(* Numbers *)

LEMMA ImageFinite ==
  ASSUME NEW S, NEW f, IsFiniteSet(S)
  PROVE  IsFiniteSet({f[x] : x \in S})
<1> DEFINE g == [x \in S |-> f[x]]
<1>1. g \in Surjection(S, {f[x] : x \in S})
  BY DEF Surjection
<1> QED BY <1>1, FS_Surjection

LEMMA TripleFinite ==
  ASSUME NEW a, NEW b, NEW d
  PROVE  IsFiniteSet({a, b, d})
<1> DEFINE f == [i \in 1..3 |-> IF i = 1 THEN a ELSE IF i = 2 THEN b ELSE d]
<1>1. IsFiniteSet(1..3)
  <2>1. 1 \in Int /\ 3 \in Int
    OBVIOUS
  <2> QED BY <2>1, FS_Interval
<1>2. IsFiniteSet({f[i] : i \in 1..3})
  <2> HIDE DEF f
  <2> QED BY <1>1, ImageFinite
<1>3. {f[i] : i \in 1..3} = {a, b, d}
  <2>1. f[1] = a /\ f[2] = b /\ f[3] = d /\ 1..3 = {1, 2, 3}
    OBVIOUS
  <2> QED BY <2>1
<1> QED BY <1>2, <1>3

LEMMA MessagesFinite ==
  ASSUME NEW messages \in Seq(Message)
  PROVE  IsFiniteSet({messages[i] : i \in 1..Len(messages)})
<1>1. IsFiniteSet(1..Len(messages))
  BY FS_Interval
<1> QED BY <1>1, ImageFinite

\* There is always a number that is not in use.
LEMMA LeastUnused ==
  ASSUME NEW S, IsFiniteSet(S)
  PROVE  Least((1..(Cardinality(S) + 1)) \ S) \in Nat
<1> DEFINE n == Cardinality(S) + 1
           T == (1..n) \ S
<1>1. n \in Nat /\ Cardinality(S) \in Nat
  BY FS_CardinalityType
<1>2. IsFiniteSet(1..n) /\ Cardinality(1..n) = n
  BY <1>1, FS_Interval
<1>3. T # {}
  <2>1. ASSUME T = {} PROVE FALSE
    <3>1. 1..n \in SUBSET S
      BY <2>1
    <3>2. Cardinality(1..n) <= Cardinality(S)
      BY <3>1, FS_Subset
    <3> QED BY <3>2, <1>1, <1>2
  <2> QED BY <2>1
<1>4. T \in SUBSET Nat
  BY <1>1
<1>5. \E x \in T : \A y \in T : x <= y
  BY <1>3, <1>4, LeastNumber
<1>6. Least(T) \in T
  BY <1>5 DEF Least
<1> QED BY <1>4, <1>6

LEMMA NewNumbers ==
  ASSUME history \in [Key -> Seq(Message)], child \in [Child -> ChildState], call \in [Call -> StepState]
  PROVE  NewStamp \in Nat /\ NewMessage \in Nat
<1>1. IsFiniteSet(Key) /\ IsFiniteSet(Call) /\ IsFiniteSet(Child)
  <2>1. MaxChildren \in Int /\ 1 \in Int
    BY Constants
  <2> QED BY <2>1, FiniteAssumption, FS_Interval DEF Child
<1> DEFINE H == {history[k] : k \in Key}
           R == {call[c].request : c \in Call}
           D == {child[ch].sentDigests : ch \in Child}
           T == {child[ch].told : ch \in Child}
           Texts == H \cup R \cup D \cup T
           Items == {{messages[i] : i \in 1..Len(messages)} : messages \in Texts}
<1>2. IsFiniteSet(Texts)
  <2>1. IsFiniteSet(H)
    BY <1>1, ImageFinite
  <2>2. IsFiniteSet(R)
    <3> DEFINE f == [c \in Call |-> call[c].request]
    <3>1. IsFiniteSet({f[c] : c \in Call})
      BY <1>1, ImageFinite
    <3>2. {f[c] : c \in Call} = R
      OBVIOUS
    <3> QED BY <3>1, <3>2
  <2>3. IsFiniteSet(D)
    <3> DEFINE f == [ch \in Child |-> child[ch].sentDigests]
    <3>1. IsFiniteSet({f[ch] : ch \in Child})
      BY <1>1, ImageFinite
    <3>2. {f[ch] : ch \in Child} = D
      OBVIOUS
    <3> QED BY <3>1, <3>2
  <2>4. IsFiniteSet(T)
    <3> DEFINE f == [ch \in Child |-> child[ch].told]
    <3>1. IsFiniteSet({f[ch] : ch \in Child})
      BY <1>1, ImageFinite
    <3>2. {f[ch] : ch \in Child} = T
      OBVIOUS
    <3> QED BY <3>1, <3>2
  <2> HIDE DEF H, R, D, T
  <2>5. IsFiniteSet(H \cup R)
    BY <2>1, <2>2, FS_Union
  <2>6. IsFiniteSet(H \cup R \cup D)
    BY <2>3, <2>5, FS_Union
  <2> QED BY <2>4, <2>6, FS_Union
<1>3. Texts \subseteq Seq(Message)
  BY DEF ChildState, StepState
<1>4. IsFiniteSet(Remembered)
  <2>1. IsFiniteSet(Items)
    <3> DEFINE f == [messages \in Texts |-> {messages[i] : i \in 1..Len(messages)}]
    <3>1. IsFiniteSet({f[messages] : messages \in Texts})
      <4> HIDE DEF f, Texts
      <4> QED BY <1>2, ImageFinite
    <3>2. {f[messages] : messages \in Texts} = Items
      <4> HIDE DEF Texts
      <4> QED OBVIOUS
    <3> QED BY <3>1, <3>2
  <2>2. \A s \in Items : IsFiniteSet(s)
    BY <1>3, MessagesFinite
  <2>3. Remembered = UNION Items
    BY DEF Remembered
  <2> HIDE DEF Items
  <2> QED BY <2>1, <2>2, <2>3, FS_UNION
<1>5. ASSUME NEW S, IsFiniteSet(S) PROVE IsFiniteSet({m.id : m \in S})
  <2> DEFINE f == [m \in S |-> m.id]
  <2>1. IsFiniteSet({f[m] : m \in S})
    BY <1>5, ImageFinite
  <2>2. {f[m] : m \in S} = {m.id : m \in S}
    OBVIOUS
  <2> QED BY <2>1, <2>2
<1> HIDE DEF H, R, D, T, Texts, Items
<1>6. NewMessage \in Nat
  <2> DEFINE others == {m \in Remembered : ~IsOwnReply(m)}
             ids == {m.id : m \in others}
  <2>1. IsFiniteSet(others)
    BY <1>4, FS_Subset
  <2>2. IsFiniteSet(ids)
    <3> HIDE DEF others
    <3> QED BY <2>1, <1>5
  <2>3. NewMessage = Least((1..(Cardinality(ids) + 1)) \ ids)
    BY DEF NewMessage
  <2> HIDE DEF ids
  <2> QED BY <2>2, <2>3, LeastUnused
<1>7. NewStamp \in Nat
  <2> DEFINE turns == {call[c].turn : c \in Call}
             lines == {{child[ch].line, child[ch].buffered, child[ch].structured} : ch \in Child}
             own == {m \in Remembered : IsOwnReply(m)}
             ids == {m.id : m \in own}
  <2>1. IsFiniteSet(turns)
    <3> DEFINE f == [c \in Call |-> call[c].turn]
    <3>1. IsFiniteSet({f[c] : c \in Call})
      BY <1>1, ImageFinite
    <3>2. {f[c] : c \in Call} = turns
      OBVIOUS
    <3> QED BY <3>1, <3>2
  <2>2. IsFiniteSet(UNION lines)
    <3> DEFINE f == [ch \in Child |-> {child[ch].line, child[ch].buffered, child[ch].structured}]
    <3>1. IsFiniteSet({f[ch] : ch \in Child})
      BY <1>1, ImageFinite
    <3>2. {f[ch] : ch \in Child} = lines
      OBVIOUS
    <3>3. \A s \in lines : IsFiniteSet(s)
      <4>1. \A ch \in Child : IsFiniteSet({child[ch].line, child[ch].buffered, child[ch].structured})
        BY TripleFinite
      <4> QED BY <4>1
    <3> HIDE DEF lines
    <3> QED BY <3>1, <3>2, <3>3, FS_UNION
  <2>3. IsFiniteSet(own)
    BY <1>4, FS_Subset
  <2>4. IsFiniteSet(ids)
    <3> HIDE DEF own
    <3> QED BY <2>3, <1>5
  <2>5. StampsInUse = (turns \cup UNION lines) \cup ids
    BY DEF StampsInUse
  <2> HIDE DEF turns, lines, ids
  <2>6. IsFiniteSet(turns \cup UNION lines)
    BY <2>1, <2>2, FS_Union
  <2>7. IsFiniteSet(StampsInUse)
    BY <2>4, <2>5, <2>6, FS_Union
  <2> QED BY <2>7, LeastUnused DEF NewStamp
<1> QED BY <1>6, <1>7

LEMMA NewChildIsUnused ==
  ASSUME Unused # {}
  PROVE  NewChild \in Child /\ child[NewChild].state = "gone"
<1>1. Unused \in SUBSET Nat
  BY Constants DEF Unused
<1>2. \E x \in Unused : \A y \in Unused : x <= y
  BY <1>1, LeastNumber
<1>3. NewChild \in Unused
  BY <1>2 DEF NewChild, Least
<1> QED BY <1>3 DEF Unused

-----------------------------------------------------------------------------
(* One turn of a step *)

Typed ==
  /\ history \in [Key -> Seq(Message)] /\ child \in [Child -> ChildState] /\ call \in [Call -> StepState]
  /\ turnsInFlight \in SUBSET Key

\* The step begins a round: it has not asked in it.
Ready(step) ==
  /\ ~step.repairing /\ step.answered \in {0, step.turn} /\ step.lines <= Rounds(step)
  /\ step.key = None => step.request = <<>>

\* A line is written to a live child that nobody waits for.
LEMMA LineWritten ==
  ASSUME Typed, NEW c \in Call, NEW ch \in Child, NEW pc \in {"turn", "repair"},
         NEW step \in StepState, NEW childs \in [Child -> ChildState],
         childs[ch].state = "alive", childs[ch].pending = None, WriteLine(c, ch, pc, step, childs)
  PROVE  \E s \in StepState, x \in ChildState :
           /\ call' = [call EXCEPT ![c] = s] /\ child' = [childs EXCEPT ![ch] = x]
           /\ s.pc = pc /\ s.key = step.key /\ s.request = step.request /\ s.signature = step.signature
           /\ s.child = step.child /\ s.repairing = step.repairing /\ s.retried = step.retried
           /\ s.next = step.next /\ s.answered = 0 /\ s.lines = step.lines + 1
           /\ x.state = "alive" /\ x.pending = c /\ x.line = s.turn
           /\ x.key = childs[ch].key /\ x.signature = childs[ch].signature /\ x.late = childs[ch].late
           /\ x.sentDigests = childs[ch].sentDigests /\ x.told = childs[ch].told
           /\ x.opened = childs[ch].opened /\ x.idleTimer = childs[ch].idleTimer
           /\ x.executed = childs[ch].executed /\ x.buffered = childs[ch].buffered
<1> DEFINE s == [step EXCEPT !.pc = pc, !.turn = NewStamp, !.error = "none", !.answered = 0, !.lines = @ + 1]
           x == [childs[ch] EXCEPT !.pending = c, !.line = NewStamp]
<1>1. NewStamp \in Nat
  BY NewNumbers DEF Typed
<1>2. s \in StepState /\ x \in ChildState
  <2>1. s \in StepState
    <3>1. step.lines + 1 \in Nat
      BY DEF StepState
    <3> QED BY <1>1, <3>1 DEF StepState, Stamp
  <2>2. childs[ch] \in ChildState
    OBVIOUS
  <2>3. x \in ChildState
    <3> HIDE DEF s
    <3> QED BY <1>1, <2>2 DEF ChildState, Stamp
  <2> QED BY <2>1, <2>3
<1>3. ~Refuses(ch, childs)
  BY DEF Refuses
<1>4. call' = [call EXCEPT ![c] = s] /\ child' = [childs EXCEPT ![ch] = x]
  BY <1>3 DEF WriteLine
<1>5. /\ s.pc = pc /\ s.key = step.key /\ s.request = step.request /\ s.signature = step.signature
      /\ s.child = step.child /\ s.repairing = step.repairing /\ s.retried = step.retried
      /\ s.next = step.next /\ s.answered = 0 /\ s.lines = step.lines + 1 /\ s.turn = NewStamp
  BY DEF StepState
<1>6. /\ x.state = "alive" /\ x.pending = c /\ x.line = NewStamp
      /\ x.key = childs[ch].key /\ x.signature = childs[ch].signature /\ x.late = childs[ch].late
      /\ x.sentDigests = childs[ch].sentDigests /\ x.told = childs[ch].told
      /\ x.opened = childs[ch].opened /\ x.idleTimer = childs[ch].idleTimer
      /\ x.executed = childs[ch].executed /\ x.buffered = childs[ch].buffered
  BY DEF ChildState
<1> HIDE DEF s, x
<1> QED BY <1>2, <1>4, <1>5, <1>6

\* A child told what was delivered, and then what was appended, has heard the request.
LEMMA HeardInFull ==
  ASSUME NEW sent \in Seq(Message), NEW told \in Seq(Message), NEW request \in Seq(Message),
         IsPrefixOf(sent, request), Unheard(told) = Unheard(sent)
  PROVE  LET rest == SubSeq(request, Len(sent) + 1, Len(request))
         IN  /\ rest \in Seq(Message) /\ request = sent \o rest /\ Unheard(rest) \in Seq(Message)
             /\ Unheard(told \o Unheard(rest)) = Unheard(request)
<1> DEFINE rest == SubSeq(request, Len(sent) + 1, Len(request))
<1>1. rest \in Seq(Message) /\ request = sent \o rest
  BY PrefixAndRest DEF IsPrefixOf
<1> HIDE DEF rest
<1>2. Unheard(rest) \in Seq(Message) /\ Unheard(Unheard(rest)) = Unheard(rest)
  BY <1>1, UnheardType, UnheardTwice
<1>3. Unheard(told \o Unheard(rest)) = Unheard(told) \o Unheard(Unheard(rest))
  BY <1>2, UnheardConcat
<1>4. Unheard(request) = Unheard(sent) \o Unheard(rest)
  BY <1>1, UnheardConcat
<1> QED BY <1>1, <1>2, <1>3, <1>4 DEF rest

\* A session nobody works with is closed, and the step waits for the exit of its child.
LEMMA ReclosePreserves ==
  ASSUME Typed, NEW c \in Call, NEW step \in StepState, Ready(step), NEW next \in {"rebuild", "again"},
         NEW free, free = turnsInFlight \ {step.key}, step.key # None,
         Good(sessions, free, turnChildren, disposed, child, [call EXCEPT ![c] = Idle]),
         Reclose(c, step, next), UNCHANGED disposed
  PROVE  GoodState'
<1> DEFINE idle == [call EXCEPT ![c] = Idle]
           s == [step EXCEPT !.pc = "closing", !.next = next, !.error = "none"]
<1>1. step.key \in Key /\ step.key \notin free
  BY DEF StepState
<1> PICK ks \in SUBSET Key : ks = {step.key}
  BY <1>1
<1> DEFINE S == {sessions[k] : k \in ks} \ {None}
           map == [k \in Key |-> IF k \in ks THEN None ELSE sessions[k]]
<1>2. \A ch \in S : child[ch].pending = None
  BY <1>1, Quiet
<1>3. Good(map, free, turnChildren \ S, disposed, Forgotten(child, S), idle)
  <2> HIDE DEF idle, S
  <2> QED BY <1>2, ClosesQuiet DEF idle, S
<1>4. s \in StepState
  BY DEF StepState
<1>5. /\ s.pc = "closing" /\ s.next = next /\ s.key = step.key /\ s.repairing = step.repairing
      /\ s.answered = step.answered /\ s.turn = step.turn /\ s.lines = step.lines /\ s.retried = step.retried
  BY DEF StepState
<1>6. StepOK(s, disposed)
  BY <1>4, <1>5 DEF StepOK, Ready, Rounds, Asked, StepState
<1>7. Holding(s) /\ Guard(s) = {step.key}
  BY <1>5 DEF Holding, Guard
<1>8. map[step.key] = None /\ idle[c] = Idle
  BY <1>1, IdleType DEF Typed
<1>9. /\ sessions' = map /\ turnChildren' = turnChildren \ S /\ child' = Forgotten(child, S)
      /\ turnsInFlight' = free \cup Guard(s)
      /\ call' = [idle EXCEPT ![c] = s]
  <2>1. Closing([call EXCEPT ![c] = step], c, next) = [call EXCEPT ![c] = s]
    BY DEF Closing, Typed
  <2>2. [call EXCEPT ![c] = s] \in [Call -> StepState]
    BY <1>4 DEF Typed
  <2>3. Rejecting([call EXCEPT ![c] = s], child, S, "closed") = [call EXCEPT ![c] = s]
    <3> HIDE DEF S, s
    <3> QED BY <1>2, <2>2, RejectsNobody
  <2>4. [call EXCEPT ![c] = s] = [idle EXCEPT ![c] = s]
    BY DEF Typed
  <2> HIDE DEF s, idle
  <2> QED BY <1>7, <2>1, <2>3, <2>4 DEF Reclose, CloseSessions
<1> HIDE DEF idle, s, S, map
<1>10. Good(map, free \cup Guard(s), turnChildren \ S, disposed, Forgotten(child, S), [idle EXCEPT ![c] = s])
  BY <1>1, <1>3, <1>4, <1>5, <1>6, <1>8, Waits
<1> QED BY <1>9, <1>10 DEF GoodState

\* What was appended is written to the session's child.
LEMMA DeltaPreserves ==
  ASSUME Typed, NEW c \in Call, NEW step \in StepState, Ready(step),
         NEW free, free = turnsInFlight \ {step.key}, step.key # None,
         Good(sessions, free, turnChildren, disposed, child, [call EXCEPT ![c] = Idle]),
         sessions[step.key] # None, Continues(sessions[step.key], step),
         Delta(c, sessions[step.key], step), UNCHANGED disposed
  PROVE  GoodState'
<1> DEFINE idle == [call EXCEPT ![c] = Idle]
           ch == sessions[step.key]
           rest == Appended(ch, step)
           heard == [child EXCEPT ![ch].told = @ \o Unheard(rest)]
           asking == [step EXCEPT !.child = ch, !.next = "none"]
<1>1. step.key \in Key /\ step.key \notin free
  BY DEF StepState
<1>2. /\ ch \in Child /\ child[ch].key = step.key /\ child[ch].pending = None
      /\ child[ch].state = "alive" /\ child[ch].signature = step.signature
      /\ IsPrefixOf(child[ch].sentDigests, step.request)
  BY <1>1, Quiet DEF Continues, ExtendsConversation
<1>3. child[ch].buffered = 0 /\ child[ch].executed <= 1 /\ Unheard(child[ch].told) = Unheard(child[ch].sentDigests)
  <2>1. ChildOK(ch, child[ch], sessions, turnChildren, disposed, idle)
    BY <1>2 DEF Good
  <2> QED BY <2>1, <1>2 DEF ChildOK, Hears
<1>4. /\ child[ch].sentDigests \in Seq(Message) /\ child[ch].told \in Seq(Message)
      /\ step.request \in Seq(Message)
  BY <1>2 DEF Typed, ChildState, StepState
<1>5. /\ rest \in Seq(Message) /\ Unheard(rest) \in Seq(Message)
      /\ Unheard(child[ch].told \o Unheard(rest)) = Unheard(step.request)
  BY <1>2, <1>3, <1>4, HeardInFull DEF Appended
<1>6. idle[c] = Idle /\ idle \in [Call -> StepState]
  BY IdleType DEF Typed
<1>7. CASE ~Serializable(Unheard(rest))
  <2>1. Leave(c, step)
    BY <1>7 DEF Delta
  <2> QED BY <2>1 DEF Leave, GoodState
<1>8. CASE Serializable(Unheard(rest))
  <2>1. /\ WriteLine(c, ch, "turn", asking, heard)
        /\ turnsInFlight' = turnsInFlight \cup {step.key}
        /\ UNCHANGED <<sessions, turnChildren>>
    BY <1>8 DEF Delta
  <2>2. asking \in StepState
    BY <1>2 DEF StepState
  <2>3. /\ asking.key = step.key /\ asking.request = step.request /\ asking.signature = step.signature
        /\ asking.child = ch /\ asking.repairing = step.repairing /\ asking.retried = step.retried
        /\ asking.next = "none" /\ asking.lines = step.lines
    BY DEF StepState
  <2>4. heard \in [Child -> ChildState]
    <3>1. child[ch].told \o Unheard(rest) \in Seq(Message)
      BY <1>4, <1>5
    <3> HIDE DEF rest, ch
    <3>2. child[ch] \in ChildState
      BY <1>2 DEF Typed
    <3>3. [child[ch] EXCEPT !.told = @ \o Unheard(rest)] \in ChildState
      BY <3>1, <3>2 DEF ChildState
    <3> QED BY <3>3, <1>2 DEF Typed
  <2>5. /\ heard[ch].told = child[ch].told \o Unheard(rest) /\ heard[ch].state = "alive"
        /\ heard[ch].pending = None /\ heard[ch].key = step.key /\ heard[ch].signature = step.signature
        /\ heard[ch].sentDigests = child[ch].sentDigests /\ heard[ch].idleTimer = child[ch].idleTimer
        /\ heard[ch].opened = child[ch].opened /\ heard[ch].late = child[ch].late
        /\ heard[ch].executed = child[ch].executed /\ heard[ch].buffered = 0
    BY <1>2, <1>3 DEF Typed, ChildState
  <2> HIDE DEF asking, heard, ch
  <2>6. PICK s \in StepState, x \in ChildState :
           /\ call' = [call EXCEPT ![c] = s] /\ child' = [heard EXCEPT ![ch] = x]
           /\ s.pc = "turn" /\ s.key = asking.key /\ s.request = asking.request /\ s.signature = asking.signature
           /\ s.child = asking.child /\ s.repairing = asking.repairing /\ s.retried = asking.retried
           /\ s.next = asking.next /\ s.answered = 0 /\ s.lines = asking.lines + 1
           /\ x.state = "alive" /\ x.pending = c /\ x.line = s.turn
           /\ x.key = heard[ch].key /\ x.signature = heard[ch].signature /\ x.late = heard[ch].late
           /\ x.sentDigests = heard[ch].sentDigests /\ x.told = heard[ch].told
           /\ x.opened = heard[ch].opened /\ x.idleTimer = heard[ch].idleTimer
           /\ x.executed = heard[ch].executed /\ x.buffered = heard[ch].buffered
    BY <1>2, <2>1, <2>2, <2>4, <2>5, LineWritten
  <2>7. child' = [child EXCEPT ![ch] = x] /\ call' = [idle EXCEPT ![c] = s]
    BY <2>6 DEF heard, Typed
  <2>8. StepOK(s, disposed) /\ Working(s)
    <3>1. s.lines <= Rounds(s) + Asked(s)
      BY <2>3, <2>6 DEF Ready, Rounds, Asked, StepState
    <3> QED BY <3>1, <2>3, <2>6 DEF StepOK, Ready, Working
  <2>9. turnsInFlight' = free \cup {s.key}
    BY <2>1, <2>3, <2>6
  <2> HIDE DEF idle, rest
  <2>11. /\ Unheard(x.told) = Unheard(s.request) /\ IsPrefixOf(x.sentDigests, s.request)
         /\ s.child = ch /\ s.key = child[ch].key /\ x.key = child[ch].key
         /\ x.signature = s.signature /\ x.buffered = 0 /\ x.late = child[ch].late
         /\ x.executed <= 1 /\ x.idleTimer = child[ch].idleTimer
    BY <1>2, <1>3, <1>5, <2>3, <2>5, <2>6
  <2>12. child[ch].key # None /\ child[ch].key \notin free
    BY <1>1, <1>2
  <2>10. Good(sessions, free \cup {s.key}, turnChildren, disposed, [child EXCEPT ![ch] = x], [idle EXCEPT ![c] = s])
    BY <1>2, <1>6, <2>6, <2>8, <2>11, <2>12, Writes DEF idle
  <2> QED BY <2>1, <2>7, <2>9, <2>10 DEF GoodState
<1> QED BY <1>7, <1>8

\* A step without a child waits for one.
LEMMA AwaitPreserves ==
  ASSUME Typed, NEW c \in Call, NEW step \in StepState, Ready(step),
         NEW free, free = turnsInFlight \ {step.key},
         step.key # None => sessions[step.key] = None,
         Good(sessions, free, turnChildren, disposed, child, [call EXCEPT ![c] = Idle]),
         Await(c, step), UNCHANGED disposed
  PROVE  GoodState'
<1> DEFINE idle == [call EXCEPT ![c] = Idle]
<1>1. idle[c] = Idle
  BY DEF Typed
<1>2. step.key # None => step.key \in Key /\ step.key \notin free
  BY DEF StepState
<1> DEFINE s == [step EXCEPT !.pc = "starting", !.child = None, !.next = "none"]
<1>3. s \in StepState
  BY DEF StepState
<1>4. /\ s.pc = "starting" /\ s.next = "none" /\ s.key = step.key /\ s.request = step.request
      /\ s.repairing = step.repairing /\ s.answered = step.answered /\ s.turn = step.turn
      /\ s.lines = step.lines /\ s.retried = step.retried
  BY DEF StepState
<1>5. StepOK(s, disposed)
  BY <1>3, <1>4 DEF StepOK, Ready, Rounds, Asked, StepState
<1>6. Guard(s) = {step.key} \ {None}
  BY <1>4 DEF Guard, Holding
<1>7. Holding(s) => s.key \notin free /\ sessions[s.key] = None
  BY <1>2, <1>4 DEF Holding
<1>8. /\ call' = [idle EXCEPT ![c] = s] /\ turnsInFlight' = free \cup Guard(s)
      /\ UNCHANGED <<sessions, turnChildren, child>>
  <2> HIDE DEF s
  <2>1. turnsInFlight' = turnsInFlight \cup ({step.key} \ {None}) /\ call' = [call EXCEPT ![c] = s]
    BY DEF Await, s
  <2>2. turnsInFlight \cup ({step.key} \ {None}) = free \cup ({step.key} \ {None})
    <3>1. None \notin turnsInFlight
      BY Constants DEF Typed
    <3> QED BY <3>1
  <2> QED BY <2>1, <2>2, <1>6 DEF Await, Typed
<1> HIDE DEF s, idle
<1>9. Good(sessions, free \cup Guard(s), turnChildren, disposed, child, [idle EXCEPT ![c] = s])
  BY <1>1, <1>3, <1>4, <1>5, <1>7, Waits DEF idle
<1> QED BY <1>8, <1>9 DEF GoodState

\* A step continues, opens, closes or leaves its session.
LEMMA BodyPreserves ==
  ASSUME Typed, NEW c \in Call, NEW step \in StepState, Ready(step),
         NEW free, free = turnsInFlight \ {step.key},
         Good(sessions, free, turnChildren, disposed, child, [call EXCEPT ![c] = Idle]),
         RunTurnBody(c, step), UNCHANGED disposed
  PROVE  GoodState'
<1> DEFINE idle == [call EXCEPT ![c] = Idle]
           ch == IF step.key = None THEN None ELSE sessions[step.key]
<1>1. idle[c] = Idle
  BY DEF Typed
<1>2. step.key # None => step.key \in Key /\ step.key \notin free
  BY DEF StepState
<1>3. CASE Leave(c, step)
  BY <1>3 DEF Leave, GoodState
<1>4. CASE ch = None /\ Await(c, step)
  BY <1>4, AwaitPreserves
<1>5. CASE ch # None /\ disposed = "no"
  <2>1. step.key # None /\ ch = sessions[step.key]
    BY <1>5
  <2>2. \/ Reclose(c, step, "rebuild") \/ Reclose(c, step, "again")
        \/ Continues(ch, step) /\ Delta(c, ch, step)
    BY <1>5 DEF RunTurnBody
  <2> QED BY <1>5, <2>1, <2>2, ReclosePreserves, DeltaPreserves
<1> QED BY <1>3, <1>4, <1>5 DEF RunTurnBody

LEMMA RunPreserves ==
  ASSUME Typed, NEW c \in Call, NEW step \in StepState, Ready(step),
         Good(sessions, turnsInFlight, turnChildren, disposed, child, [call EXCEPT ![c] = Idle]),
         RunTurn(c, step), UNCHANGED disposed
  PROVE  GoodState'
<1>1. CASE step.key \in turnsInFlight
  BY <1>1 DEF RunTurn, GoodState
<1>2. CASE step.key \notin turnsInFlight
  <2>1. turnsInFlight = turnsInFlight \ {step.key} /\ RunTurnBody(c, step)
    BY <1>2 DEF RunTurn
  <2> QED BY <2>1, BodyPreserves
<1> QED BY <1>1, <1>2

-----------------------------------------------------------------------------
(* What a step does with a result *)

\* The step has a result, its child is free and the guard of its session released.
Judging(c, step, result, childs, free) ==
  /\ Good(sessions, free, turnChildren, disposed, childs, [call EXCEPT ![c] = Idle])
  /\ step.next = "none" /\ step.answered \in {0, step.turn}
  /\ step.lines <= Rounds(step) + (IF step.repairing THEN 2 ELSE 1)
  /\ step.key = None => step.request = <<>> /\ ~step.repairing
  /\ step.key # None =>
       /\ step.child \in Child /\ step.key \notin free /\ sessions[step.key] = step.child
       /\ childs[step.child].state = "alive" /\ childs[step.child].pending = None
       /\ childs[step.child].key = step.key /\ childs[step.child].signature = step.signature
       /\ AnswersTurn(step, result) => childs[step.child].executed = 0

LEMMA FinishPreserves ==
  ASSUME Typed, NEW c \in Call, NEW step \in StepState, NEW result, NEW childs, NEW free,
         Judging(c, step, result, childs, free), NEW decisions \in {0, 1},
         decisions = 1 => AnswersTurn(step, result),
         Finish(c, step, childs, decisions), turnsInFlight' = free, UNCHANGED disposed
  PROVE  GoodState' /\ history' \in [Key -> Seq(Message)]
<1> DEFINE idle == [call EXCEPT ![c] = Idle]
           ch == step.child
<1>1. Good(sessions, free, turnChildren, disposed, childs, idle)
  BY DEF Judging
<1>2. call' = idle /\ UNCHANGED <<sessions, turnChildren>>
  BY DEF Finish
<1>3. history' \in [Key -> Seq(Message)]
  <2>1. step.turn \in Nat /\ step.key \in Key \cup {None}
    BY DEF StepState, Stamp
  <2>2. [kind |-> "own", id |-> step.turn] \in Message
    BY <2>1 DEF Message
  <2>3. \A k \in Key : Append(history[k], [kind |-> "own", id |-> step.turn]) \in Seq(Message)
    <3> HIDE DEF Message
    <3> QED BY <2>2 DEF Typed
  <2> QED BY <2>1, <2>3 DEF Finish, Typed
<1>4. CASE step.key = None
  BY <1>1, <1>2, <1>3, <1>4 DEF Finish, GoodState
<1>5. CASE step.key # None
  <2> DEFINE n == childs[ch].executed + decisions
  <2>1. ch \in Child /\ childs[ch].state = "alive" /\ (decisions = 1 => childs[ch].executed = 0)
    BY <1>5 DEF Judging
  <2>2. childs[ch].executed \in Nat /\ childs[ch].executed <= 1
    BY <2>1, <1>1 DEF Good, ChildOK, ChildState
  <2>3. n \in Nat /\ n <= 1
    BY <2>1, <2>2
  <2>4. child' = [childs EXCEPT ![ch].executed = n]
    BY <1>5 DEF Finish
  <2> HIDE DEF n, idle, ch
  <2>5. Good(sessions, free, turnChildren, disposed, [childs EXCEPT ![ch].executed = n], idle)
    BY <1>1, <2>1, <2>3, Counts
  <2> QED BY <1>2, <1>3, <2>4, <2>5 DEF GoodState
<1> QED BY <1>4, <1>5

LEMMA RepairPreserves ==
  ASSUME Typed, NEW c \in Call, NEW step \in StepState, NEW result, NEW childs, NEW free,
         Judging(c, step, result, childs, free), step.key # None, ~step.repairing,
         Repair(c, step, childs, free), UNCHANGED disposed
  PROVE  GoodState' /\ history' \in [Key -> Seq(Message)]
<1> DEFINE idle == [call EXCEPT ![c] = Idle]
           ch == step.child
           asking == [step EXCEPT !.repairing = TRUE]
<1>1. Good(sessions, free, turnChildren, disposed, childs, idle)
  BY DEF Judging
<1>2. /\ ch \in Child /\ childs[ch].state = "alive" /\ childs[ch].pending = None
      /\ childs[ch].key = step.key /\ step.key \notin free /\ childs[ch].signature = step.signature
      /\ childs \in [Child -> ChildState]
  BY <1>1 DEF Judging, Good
<1>3. childs[ch].buffered = 0 /\ childs[ch].executed <= 1 /\ Unheard(childs[ch].told) = Unheard(childs[ch].sentDigests)
  <2>1. ChildOK(ch, childs[ch], sessions, turnChildren, disposed, idle)
    BY <1>1, <1>2 DEF Good
  <2> QED BY <2>1, <1>2 DEF ChildOK, Hears
<1>4. asking \in StepState
  BY DEF StepState
<1>5. /\ asking.key = step.key /\ asking.request = step.request /\ asking.signature = step.signature
      /\ asking.child = ch /\ asking.repairing /\ asking.retried = step.retried
      /\ asking.next = "none" /\ asking.lines = step.lines
  BY DEF StepState, Judging
<1>6. /\ WriteLine(c, ch, "repair", asking, childs) /\ turnsInFlight' = free \cup {step.key}
      /\ UNCHANGED <<history, sessions, turnChildren>>
  BY DEF Repair
<1> HIDE DEF asking, ch
<1>7. PICK s \in StepState, x \in ChildState :
        /\ call' = [call EXCEPT ![c] = s] /\ child' = [childs EXCEPT ![ch] = x]
        /\ s.pc = "repair" /\ s.key = asking.key /\ s.request = asking.request /\ s.signature = asking.signature
        /\ s.child = asking.child /\ s.repairing = asking.repairing /\ s.retried = asking.retried
        /\ s.next = asking.next /\ s.answered = 0 /\ s.lines = asking.lines + 1
        /\ x.state = "alive" /\ x.pending = c /\ x.line = s.turn
        /\ x.key = childs[ch].key /\ x.signature = childs[ch].signature /\ x.late = childs[ch].late
        /\ x.sentDigests = childs[ch].sentDigests /\ x.told = childs[ch].told
        /\ x.opened = childs[ch].opened /\ x.idleTimer = childs[ch].idleTimer
        /\ x.executed = childs[ch].executed /\ x.buffered = childs[ch].buffered
  BY <1>2, <1>4, <1>6, LineWritten
<1>8. StepOK(s, disposed) /\ Working(s)
  <2>1. s.lines <= Rounds(s) + Asked(s)
    BY <1>5, <1>7 DEF Judging, Rounds, Asked, StepState
  <2> QED BY <2>1, <1>5, <1>7 DEF StepOK, Working
<1>9. idle[c] = Idle /\ [idle EXCEPT ![c] = s] = [call EXCEPT ![c] = s]
  BY DEF Typed
<1>10. /\ Unheard(x.told) = Unheard(x.sentDigests) /\ s.child = ch
       /\ s.key = childs[ch].key /\ x.key = childs[ch].key
       /\ x.signature = s.signature /\ x.buffered = 0 /\ x.late = childs[ch].late
       /\ x.executed <= 1 /\ x.idleTimer = childs[ch].idleTimer
       /\ childs[ch].key # None /\ childs[ch].key \notin free
  BY <1>2, <1>3, <1>5, <1>7
<1> HIDE DEF idle
<1>11. Good(sessions, free \cup {s.key}, turnChildren, disposed, [childs EXCEPT ![ch] = x], [idle EXCEPT ![c] = s])
  BY <1>1, <1>2, <1>7, <1>8, <1>9, <1>10, Writes
<1>12. turnsInFlight' = free \cup {s.key}
  BY <1>2, <1>6, <1>10
<1> QED BY <1>6, <1>7, <1>9, <1>11, <1>12 DEF GoodState, Typed

LEMMA AbandonPreserves ==
  ASSUME Typed, NEW c \in Call, NEW step \in StepState, NEW result, NEW childs, NEW free,
         Judging(c, step, result, childs, free), NEW retry \in BOOLEAN, retry => ~step.retried,
         Abandon(c, step, childs, free, retry), UNCHANGED disposed
  PROVE  GoodState' /\ history' \in [Key -> Seq(Message)]
<1>1. step.key \in Key \cup {None}
  BY DEF StepState
<1> PICK ks \in SUBSET Key : ks = {step.key} \ {None}
  BY <1>1
<1> DEFINE idle == [call EXCEPT ![c] = Idle]
           s == [step EXCEPT !.pc = "closing", !.next = "retry", !.error = "none"]
           S == {sessions[k] : k \in ks} \ {None}
           map == [k \in Key |-> IF k \in ks THEN None ELSE sessions[k]]
           calls == IF retry THEN [call EXCEPT ![c] = s] ELSE idle
<1>2. Good(sessions, free, turnChildren, disposed, childs, idle)
  BY DEF Judging
<1>3. \A ch \in S : childs[ch].pending = None
  BY DEF Judging
<1>4. Good(map, free, turnChildren \ S, disposed, Forgotten(childs, S), idle)
  <2> HIDE DEF idle, S
  <2> QED BY <1>2, <1>3, ClosesQuiet DEF S
<1>5. s \in StepState
  BY DEF StepState
<1>6. calls \in [Call -> StepState]
  <2> HIDE DEF s
  <2> QED BY <1>5, IdleType DEF Typed
<1>7. /\ sessions' = map /\ turnChildren' = turnChildren \ S /\ child' = Forgotten(childs, S)
      /\ turnsInFlight' = free /\ call' = calls /\ UNCHANGED history
  <2>1. Closing([call EXCEPT ![c] = step], c, "retry") = [call EXCEPT ![c] = s]
    BY DEF Closing, Typed
  <2>2. Rejecting(calls, childs, S, "closed") = calls
    <3> HIDE DEF S, calls
    <3> QED BY <1>3, <1>6, RejectsNobody
  <2>3. (IF retry THEN Closing([call EXCEPT ![c] = step], c, "retry") ELSE [call EXCEPT ![c] = Idle]) = calls
    BY <2>1
  <2> HIDE DEF s, idle, calls
  <2>4. CloseSessions(ks, childs, calls, "closed") /\ turnsInFlight' = free /\ UNCHANGED history
    BY <2>3 DEF Abandon
  <2> QED BY <2>2, <2>4 DEF CloseSessions
<1>8. CASE ~retry
  <2> HIDE DEF S, map, idle
  <2> QED BY <1>4, <1>7, <1>8 DEF GoodState, Typed
<1>9. CASE retry
  <2>1. /\ s.pc = "closing" /\ s.next = "retry" /\ s.key = step.key /\ s.repairing = step.repairing
        /\ s.request = step.request
        /\ s.answered = step.answered /\ s.turn = step.turn /\ s.lines = step.lines /\ s.retried = step.retried
    BY DEF StepState
  <2>2. StepOK(s, disposed)
    BY <1>5, <1>9, <2>1 DEF StepOK, Judging, Rounds, Asked, StepState
  <2>3. ~Holding(s) /\ Guard(s) = {} /\ free \cup {} = free
    BY <2>1 DEF Holding, Guard
  <2>4. idle[c] = Idle /\ [idle EXCEPT ![c] = s] = [call EXCEPT ![c] = s]
    BY DEF Typed
  <2> HIDE DEF S, map, idle, s
  <2>5. Good(map, free \cup Guard(s), turnChildren \ S, disposed, Forgotten(childs, S), [idle EXCEPT ![c] = s])
    BY <1>4, <1>5, <2>1, <2>2, <2>3, <2>4, Waits
  <2> QED BY <1>7, <1>9, <2>3, <2>4, <2>5 DEF GoodState, Typed
<1> QED BY <1>8, <1>9

LEMMA JudgePreserves ==
  ASSUME Typed, NEW c \in Call, NEW step \in StepState, NEW result, NEW childs, NEW free,
         Judging(c, step, result, childs, free),
         Judge(c, step, result, childs, free), UNCHANGED disposed
  PROVE  GoodState' /\ history' \in [Key -> Seq(Message)]
<1>1. CASE \E decisions \in {0, 1} :
             /\ decisions = 1 => AnswersTurn(step, result)
             /\ Finish(c, step, childs, decisions) /\ turnsInFlight' = free
  BY <1>1, FinishPreserves
<1>2. CASE Lose(c, childs) /\ turnsInFlight' = free
  BY <1>2 DEF Lose, GoodState, Judging, Typed
<1>3. CASE step.key # None /\ ~step.repairing /\ Repair(c, step, childs, free)
  BY <1>3, RepairPreserves
<1>4. CASE Abandon(c, step, childs, free, RetriesOnce(step, result))
  <2>1. RetriesOnce(step, result) \in BOOLEAN /\ (RetriesOnce(step, result) => ~step.retried)
    BY DEF RetriesOnce
  <2> QED BY <2>1, <1>4, AbandonPreserves
<1> QED BY <1>1, <1>2, <1>3, <1>4 DEF Judge

-----------------------------------------------------------------------------
(* Steps that begin *)

LEMMA InvTyped == Inv => Typed
  BY DEF Inv, GoodState, Good, Typed

LEMMA IdleCall ==
  ASSUME Inv, NEW c \in Call, call[c].pc = "idle"
  PROVE  call[c] = Idle /\ [call EXCEPT ![c] = Idle] = call
<1>1. call[c] = Idle
  BY DEF Inv, GoodState, Good, StepOK
<1> QED BY <1>1 DEF Inv, GoodState, Good

LEMMA RequestTypes ==
  ASSUME Inv, NEW k \in Key
  PROVE  Requests(history[k]) \subseteq Seq(Message) /\ Grown(history[k], "text") \in Seq(Message)
<1>1. NewMessage \in Nat /\ history[k] \in Seq(Message)
  BY InvTyped, NewNumbers DEF Typed
<1> DEFINE m(kind) == [kind |-> kind, id |-> NewMessage]
<1>2. m("text") \in Message /\ m("image") \in Message
  BY <1>1 DEF Message
<1> HIDE DEF m
<1>3. /\ Append(history[k], m("text")) \in Seq(Message) /\ Append(history[k], m("image")) \in Seq(Message)
      /\ <<m("text")>> \in Seq(Message)
  BY <1>1, <1>2
<1>4. ASSUME history[k] # <<>> PROVE [history[k] EXCEPT ![1] = m("text")] \in Seq(Message)
  <2>1. 1 \in 1..Len(history[k])
    BY <1>1, <1>4
  <2> QED BY <2>1, <1>1, <1>2, ExceptSeq
<1> QED BY <1>1, <1>3, <1>4 DEF Requests, Grown, m

LEMMA StreamPreserves ==
  ASSUME Inv, NEW c \in Call, NEW k \in Key, NEW request \in Seq(Message), NEW signature \in Signature,
         Stream(c, k, request, signature)
  PROVE  Inv'
<1> DEFINE step == [Idle EXCEPT !.key = k, !.request = request, !.signature = signature]
<1>1. call[c].pc = "idle" /\ RunTurn(c, step) /\ steps < MaxSteps /\ steps' = steps + 1
      /\ history' = [history EXCEPT ![k] = request] /\ UNCHANGED disposed
  BY DEF Stream
<1>2. step \in StepState
  BY IdleType DEF StepState
<1>3. Ready(step)
  <2>1. /\ step.key = k /\ step.repairing = FALSE /\ step.answered = 0 /\ step.turn = 0 /\ step.lines = 0
        /\ step.retried = FALSE
    BY DEF Idle
  <2> QED BY <2>1, Constants DEF Ready, Rounds
<1> HIDE DEF step
<1>4. GoodState'
  BY <1>1, <1>2, <1>3, InvTyped, IdleCall, RunPreserves DEF Inv, GoodState
<1> QED BY <1>1, <1>4, Constants DEF Inv

LEMMA AuxiliaryPreserves ==
  ASSUME Inv, NEW c \in Call, StreamAuxiliary(c)
  PROVE  Inv'
<1>1. call[c].pc = "idle" /\ RunTurn(c, Idle) /\ steps < MaxSteps /\ steps' = steps + 1
      /\ UNCHANGED <<history, disposed>>
  BY DEF StreamAuxiliary
<1>2. Ready(Idle) /\ Idle \in StepState
  <2>1. Idle.answered = 0
    BY DEF Idle
  <2> QED BY <2>1, IdleType DEF Ready, Rounds
<1>3. GoodState'
  BY <1>1, <1>2, InvTyped, IdleCall, RunPreserves DEF Inv, GoodState
<1> QED BY <1>1, <1>3, Constants DEF Inv

\* The step that waits for a child is over: its session has none.
LEMMA Starting ==
  ASSUME Inv, NEW c \in Call, call[c].pc = "starting"
  PROVE  /\ Good(sessions, turnsInFlight \ {call[c].key}, turnChildren, disposed, child, [call EXCEPT ![c] = Idle])
         /\ call[c] \in StepState /\ Ready(call[c]) /\ call[c].next = "none"
         /\ call[c].key # None => /\ call[c].key \in Key /\ call[c].key \in turnsInFlight
                                  /\ sessions[call[c].key] = None
<1>1. call[c] \in StepState /\ StepOK(call[c], disposed) /\ LinkOK(c, sessions, child, call)
  BY DEF Inv, GoodState, Good
<1>2. call[c].key # None => Holding(call[c]) /\ call[c].key \in turnsInFlight
  BY DEF Holding, Inv, GoodState, Good, GuardsOK
<1>3. turnsInFlight \ Guard(call[c]) = turnsInFlight \ {call[c].key}
  <2>1. None \notin turnsInFlight
    BY InvTyped, Constants DEF Typed
  <2> QED BY <2>1, <1>2 DEF Guard, Holding
<1>4. Good(sessions, turnsInFlight \ Guard(call[c]), turnChildren, disposed, child, [call EXCEPT ![c] = Idle])
  BY Drop DEF Inv, GoodState, Working
<1>5. Ready(call[c])
  BY <1>1 DEF StepOK, Ready, Rounds, Asked, StepState
<1>6. call[c].next = "none" /\ call[c].key \in Key \cup {None}
  BY <1>1 DEF StepOK, StepState
<1> QED BY <1>1, <1>2, <1>3, <1>4, <1>5, <1>6 DEF LinkOK

LEMMA StartFailsPreserves ==
  ASSUME Inv, NEW c \in Call, StartFails(c)
  PROVE  Inv'
<1>1. Good(sessions, turnsInFlight \ {call[c].key}, turnChildren, disposed, child, [call EXCEPT ![c] = Idle])
  BY Starting DEF StartFails
<1> QED BY <1>1 DEF StartFails, Leave, Inv, GoodState

LEMMA SpawnedType ==
  ASSUME NEW step \in StepState
  PROVE  LET x == Spawned(step) IN
         /\ x \in ChildState /\ x.state = "alive" /\ x.key = step.key /\ x.signature = step.signature
         /\ x.pending = None /\ x.buffered = 0 /\ x.executed = 0 /\ ~x.opened /\ ~x.idleTimer
         /\ (x.late <=> disposed # "no") /\ x.told = <<>> /\ x.sentDigests = <<>> /\ x.line = 0
<1> DEFINE x == Spawned(step)
<1>1. x \in ChildState
  BY GoneType DEF Spawned, ChildState, StepState
<1>2. /\ x.state = "alive" /\ x.key = step.key /\ x.signature = step.signature
      /\ x.pending = None /\ x.buffered = 0 /\ x.executed = 0 /\ ~x.opened /\ ~x.idleTimer
      /\ (x.late <=> disposed # "no") /\ x.told = <<>> /\ x.sentDigests = <<>> /\ x.line = 0
  BY DEF Spawned, Gone
<1> QED BY <1>1, <1>2

LEMMA StartedTooLatePreserves ==
  ASSUME Inv, NEW c \in Call, StartedTooLate(c)
  PROVE  Inv'
<1> DEFINE idle == [call EXCEPT ![c] = Idle]
           ch == NewChild
           free == turnsInFlight \ {call[c].key}
           x == [Spawned(call[c]) EXCEPT !.state = "dead"]
           s == [call[c] EXCEPT !.child = ch, !.pc = "closing", !.next = "throw", !.error = "none"]
<1>1. call[c].pc = "starting" /\ Unused # {}
  BY DEF StartedTooLate
<1>2. /\ Good(sessions, free, turnChildren, disposed, child, idle)
      /\ call[c] \in StepState /\ Ready(call[c])
      /\ call[c].key # None => /\ call[c].key \in Key /\ call[c].key \in turnsInFlight
                               /\ sessions[call[c].key] = None
  BY <1>1, Starting
<1>3. ch \in Child /\ child[ch].state = "gone"
  BY <1>1, NewChildIsUnused
<1>4. x \in ChildState /\ x.state = "dead" /\ x.pending = None /\ x.executed <= 1 /\ ~x.idleTimer
  BY <1>2, SpawnedType DEF ChildState
<1>5. s \in StepState
  BY <1>2, <1>3 DEF StepState
<1>6. /\ s.pc = "closing" /\ s.next = "throw" /\ s.key = call[c].key /\ s.repairing = call[c].repairing
      /\ s.request = call[c].request /\ s.answered = call[c].answered /\ s.turn = call[c].turn
      /\ s.lines = call[c].lines /\ s.retried = call[c].retried
  BY <1>2 DEF StepState
<1>7. StepOK(s, disposed)
  BY <1>2, <1>5, <1>6 DEF StepOK, Ready, Rounds, Asked, StepState
<1>8. Guard(s) = {call[c].key} \ {None}
  BY <1>6 DEF Guard, Holding
<1>9. Holding(s) => s.key \notin free /\ sessions[s.key] = None
  BY <1>2, <1>6 DEF Holding
<1>10. idle[c] = Idle /\ [idle EXCEPT ![c] = s] = call'
  <2>1. call \in [Call -> StepState]
    BY InvTyped DEF Typed
  <2> QED BY <2>1 DEF StartedTooLate, Closing
<1>11. child' = [child EXCEPT ![ch] = x] /\ UNCHANGED <<history, sessions, turnsInFlight, turnChildren, disposed, steps>>
  BY DEF StartedTooLate, adapter
<1>12. turnsInFlight = free \cup Guard(s)
  <2>1. None \notin turnsInFlight
    BY InvTyped, Constants DEF Typed
  <2> QED BY <2>1, <1>2, <1>8
<1> HIDE DEF idle, ch, free, x, s
<1>13. Good(sessions, free, turnChildren, disposed, [child EXCEPT ![ch] = x], idle)
  BY <1>2, <1>3, <1>4, StaysDead
<1>14. Good(sessions, free \cup Guard(s), turnChildren, disposed, [child EXCEPT ![ch] = x], [idle EXCEPT ![c] = s])
  BY <1>5, <1>6, <1>7, <1>9, <1>10, <1>13, Waits
<1> QED BY <1>10, <1>11, <1>12, <1>14 DEF Inv, GoodState

LEMMA StartProcessPreserves ==
  ASSUME Inv, NEW c \in Call, StartProcess(c)
  PROVE  Inv'
<1> DEFINE idle == [call EXCEPT ![c] = Idle]
           ch == NewChild
           key == call[c].key
           free == turnsInFlight \ {key}
           step == [call[c] EXCEPT !.child = ch]
           plain == Serializable(step.request)
           told == IF plain THEN step.request ELSE <<>>
           heard == [Spawned(step) EXCEPT !.opened = plain, !.told = told]
           born == [child EXCEPT ![ch] = heard]
<1>1. call[c].pc = "starting" /\ Unused # {}
  BY DEF StartProcess
<1>2. /\ Good(sessions, free, turnChildren, disposed, child, idle)
      /\ call[c] \in StepState /\ Ready(call[c]) /\ call[c].next = "none"
      /\ key # None => key \in Key /\ key \in turnsInFlight /\ sessions[key] = None
  BY <1>1, Starting
<1>3. ch \in Child /\ child[ch].state = "gone"
  BY <1>1, NewChildIsUnused
<1>4. step \in StepState
  BY <1>2, <1>3 DEF StepState
<1>5. /\ step.key = key /\ step.request = call[c].request /\ step.signature = call[c].signature
      /\ step.child = ch /\ step.repairing = call[c].repairing /\ step.retried = call[c].retried
      /\ step.next = "none" /\ step.lines = call[c].lines
  BY <1>2 DEF StepState
<1>6. step.request \in Seq(Message) /\ told \in Seq(Message)
  <2>1. step.request \in Seq(Message)
    BY <1>4 DEF StepState
  <2> QED BY <2>1
<1>7. LET x == Spawned(step) IN
      /\ x \in ChildState /\ x.state = "alive" /\ x.key = step.key /\ x.signature = step.signature
      /\ x.pending = None /\ x.buffered = 0 /\ x.executed = 0 /\ ~x.opened /\ ~x.idleTimer
      /\ (x.late <=> disposed # "no") /\ x.told = <<>> /\ x.sentDigests = <<>> /\ x.line = 0
  BY <1>4, SpawnedType
<1>8. /\ heard \in ChildState /\ heard.state = "alive" /\ heard.key = key /\ heard.signature = step.signature
      /\ heard.pending = None /\ heard.buffered = 0 /\ heard.executed = 0 /\ ~heard.idleTimer
      /\ (heard.opened <=> plain)
      /\ (heard.late <=> disposed # "no") /\ heard.told = told /\ heard.sentDigests = <<>>
  <2>1. plain \in BOOLEAN
    BY DEF Serializable
  <2> HIDE DEF told, plain, step
  <2> QED BY <2>1, <1>5, <1>6, <1>7 DEF ChildState
<1>9. /\ turnChildren' = turnChildren \cup {ch}
      /\ sessions' = IF key = None THEN sessions ELSE [sessions EXCEPT ![key] = ch]
      /\ IF plain
         THEN WriteLine(c, ch, "turn", step, born) /\ UNCHANGED turnsInFlight
         ELSE child' = born /\ call' = idle /\ turnsInFlight' = free
      /\ UNCHANGED <<history, disposed, steps>>
  BY <1>5 DEF StartProcess
<1>10. /\ born \in [Child -> ChildState] /\ born[ch] = heard
       /\ idle[c] = Idle /\ call \in [Call -> StepState] /\ child \in [Child -> ChildState]
       /\ None \notin turnsInFlight
  <2>1. Typed
    BY InvTyped
  <2> HIDE DEF heard
  <2> QED BY <2>1, <1>3, <1>8, Constants DEF Typed
<1>11. CASE ~plain
  <2>1. key # None
    <3>1. Serializable(<<>>)
      BY DEF Serializable
    <3> QED BY <3>1, <1>2, <1>5, <1>11 DEF Ready
  <2>2. Unheard(heard.told) = Unheard(heard.sentDigests) /\ ~heard.opened
    BY <1>8, <1>11
  <2> HIDE DEF heard, ch, idle, free, key, plain
  <2>3. Good([sessions EXCEPT ![key] = ch], free, turnChildren \cup {ch}, disposed, [child EXCEPT ![ch] = heard], idle)
    <3>1. key \notin free
      BY DEF free
    <3>2. heard.executed <= 1 /\ (~heard.late => disposed = "no")
      BY <1>8
    <3> QED BY <1>2, <1>3, <1>8, <2>1, <2>2, <3>1, <3>2, Born
  <2> QED BY <1>9, <1>11, <2>1, <2>3 DEF Inv, GoodState
<1>12. CASE plain
  <2> HIDE DEF heard, ch, step, idle, free, key, plain, born
  <2>1. PICK s \in StepState, x \in ChildState :
           /\ call' = [call EXCEPT ![c] = s] /\ child' = [born EXCEPT ![ch] = x]
           /\ s.pc = "turn" /\ s.key = step.key /\ s.request = step.request /\ s.signature = step.signature
           /\ s.child = step.child /\ s.repairing = step.repairing /\ s.retried = step.retried
           /\ s.next = step.next /\ s.answered = 0 /\ s.lines = step.lines + 1
           /\ x.state = "alive" /\ x.pending = c /\ x.line = s.turn
           /\ x.key = born[ch].key /\ x.signature = born[ch].signature /\ x.late = born[ch].late
           /\ x.sentDigests = born[ch].sentDigests /\ x.told = born[ch].told
           /\ x.opened = born[ch].opened /\ x.idleTimer = born[ch].idleTimer
           /\ x.executed = born[ch].executed /\ x.buffered = born[ch].buffered
    <3>1. WriteLine(c, ch, "turn", step, born) /\ Typed
      BY <1>9, <1>12, InvTyped
    <3> QED BY <1>3, <1>4, <1>8, <1>10, <3>1, LineWritten
  <2>2. child' = [child EXCEPT ![ch] = x] /\ call' = [idle EXCEPT ![c] = s]
    BY <2>1, <1>10 DEF born, idle
  <2>3. StepOK(s, disposed) /\ Working(s)
    <3>1. s.lines <= Rounds(s) + Asked(s)
      BY <1>2, <1>4, <1>5, <2>1 DEF Ready, Rounds, Asked, StepState
    <3> QED BY <3>1, <1>2, <1>5, <2>1 DEF StepOK, Ready, Working, key
  <2>4. /\ x.key = key /\ s.key = key /\ s.child = ch /\ x.signature = s.signature
        /\ x.buffered = 0 /\ x.executed <= 1 /\ ~x.idleTimer /\ (x.late <=> disposed # "no")
        /\ x.sentDigests = <<>> /\ Unheard(x.told) = Unheard(s.request)
    BY <1>5, <1>8, <1>10, <1>12, <2>1
  <2>5. IsPrefixOf(x.sentDigests, s.request)
    <3>1. s.request \in Seq(Message)
      BY <1>6, <2>1 DEF step
    <3> QED BY <3>1, <2>4 DEF IsPrefixOf
  <2>6. CASE key = None
    <3>1. free = turnsInFlight
      BY <2>6, <1>10 DEF free
    <3>2. ~x.late => disposed = "no"
      BY <2>4
    <3>3. Good(sessions, free, turnChildren \cup {ch}, disposed, [child EXCEPT ![ch] = x], [idle EXCEPT ![c] = s])
      BY <1>2, <1>3, <1>10, <2>1, <2>3, <2>4, <2>5, <2>6, <3>2, BornOnce
    <3> QED BY <1>9, <1>12, <2>2, <2>6, <3>1, <3>3 DEF Inv, GoodState
  <2>7. CASE key # None
    <3> DEFINE y == Spawned(step)
               then == [child EXCEPT ![ch] = y]
               map == [sessions EXCEPT ![key] = ch]
    <3>0. x.late \in BOOLEAN /\ y.late \in BOOLEAN /\ x.idleTimer \in BOOLEAN /\ y.idleTimer \in BOOLEAN
      BY <1>7 DEF ChildState
    <3>1. /\ y \in ChildState /\ y.state = "alive" /\ y.key = key /\ y.pending = None /\ y.buffered = 0
          /\ y.executed <= 1 /\ ~y.opened /\ ~y.idleTimer /\ (~y.late => disposed = "no")
          /\ Unheard(y.told) = Unheard(y.sentDigests) /\ y.late = x.late /\ y.idleTimer = x.idleTimer
      BY <1>5, <1>7, <2>4, <3>0
    <3> HIDE DEF y
    <3>2. key \in Key /\ key \in turnsInFlight /\ sessions[key] = None /\ key \notin free
      BY <1>2, <2>7 DEF free
    <3>3. Good(map, free, turnChildren \cup {ch}, disposed, then, idle)
      BY <1>2, <1>3, <3>1, <3>2, Born
    <3>4. then[ch] = y /\ [then EXCEPT ![ch] = x] = [child EXCEPT ![ch] = x]
      BY <1>3, <1>10
    <3> HIDE DEF then, map
    <3>5. Good(map, free \cup {s.key}, turnChildren \cup {ch}, disposed, [then EXCEPT ![ch] = x], [idle EXCEPT ![c] = s])
      BY <1>3, <1>10, <2>1, <2>3, <2>4, <2>5, <2>7, <3>1, <3>2, <3>3, <3>4, Writes
    <3>6. turnsInFlight' = free \cup {s.key}
      BY <1>9, <1>12, <2>4, <3>2 DEF free
    <3> QED BY <1>9, <1>12, <2>2, <2>7, <3>4, <3>5, <3>6 DEF Inv, GoodState, map
  <2> QED BY <2>6, <2>7
<1> QED BY <1>11, <1>12

-----------------------------------------------------------------------------
(* Turns that end *)

\* The child a step works with, and nobody else does.
LEMMA WorkingChild ==
  ASSUME Inv, NEW c \in Call, Working(call[c])
  PROVE  LET ch == call[c].child IN
         /\ ch \in Child /\ child[ch] \in ChildState /\ child[ch].pending = c /\ child[ch].state = "alive"
         /\ child[ch].key = call[c].key /\ child[ch].line = call[c].turn /\ child[ch].buffered = 0
         /\ child[ch].signature = call[c].signature /\ child[ch].executed <= 1 /\ Hears(child[ch], call)
         /\ call[c].key # None => call[c].key \in Key /\ sessions[call[c].key] = ch
<1> DEFINE ch == call[c].child
<1>1. ch \in Child /\ child[ch].pending = c /\ call[c].key \in Key \cup {None}
  BY DEF Inv, GoodState, Good, LinkOK, StepState
<1>2. ChildOK(ch, child[ch], sessions, turnChildren, disposed, call) /\ child[ch] \in ChildState
  BY <1>1 DEF Inv, GoodState, Good
<1> HIDE DEF ch
<1>3. /\ child[ch].state = "alive" /\ child[ch].key = call[c].key
      /\ child[ch].line = call[c].turn /\ child[ch].signature = call[c].signature
  BY <1>1, <1>2, Constants DEF ChildOK
<1>4. /\ child[ch].buffered = 0 /\ child[ch].executed <= 1 /\ Hears(child[ch], call)
      /\ call[c].key # None => sessions[call[c].key] = ch
  BY <1>2, <1>3 DEF ChildOK
<1> QED BY <1>1, <1>2, <1>3, <1>4 DEF ch

LEMMA AbortPreserves ==
  ASSUME Inv, NEW c \in Call, Abort(c)
  PROVE  Inv'
<1>1. {call[c].child} \in SUBSET Child
  BY WorkingChild DEF Abort, Working
<1>2. Good(sessions, turnsInFlight, turnChildren, disposed, Killed(child, {call[c].child}),
           Rejecting(call, child, {call[c].child}, "own"))
  BY <1>1, Kills DEF Inv, GoodState
<1> QED BY <1>2 DEF Abort, FailChild, adapter, Inv, GoodState

LEMMA ExitPreserves ==
  ASSUME Inv, NEW ch \in Child, Exit(ch)
  PROVE  Inv'
<1>1. Good(sessions, turnsInFlight, turnChildren, disposed, Killed(child, {ch}),
           Rejecting(call, child, {ch}, "own"))
  <2>1. {ch} \in SUBSET Child
    OBVIOUS
  <2> QED BY <2>1, Kills DEF Inv, GoodState
<1> QED BY <1>1 DEF Exit, FailChild, adapter, Inv, GoodState

\* A step that failed and waits for the exit of its child.
LEMMA Throwing ==
  ASSUME NEW step \in StepState, StepOK(step, disposed), step.pc = "rejected", ~step.repairing
  PROVE  LET s == [step EXCEPT !.pc = "closing", !.next = "throw", !.error = "none"] IN
         /\ s \in StepState /\ StepOK(s, disposed) /\ s.pc = "closing"
         /\ s.key = step.key /\ Guard(s) = {step.key} \ {None} /\ (Holding(s) => s.key # None)
<1> DEFINE s == [step EXCEPT !.pc = "closing", !.next = "throw", !.error = "none"]
<1>1. s \in StepState
  BY DEF StepState
<1>2. /\ s.pc = "closing" /\ s.next = "throw" /\ s.key = step.key /\ s.repairing = step.repairing
      /\ s.request = step.request /\ s.answered = step.answered /\ s.turn = step.turn
      /\ s.lines = step.lines /\ s.retried = step.retried
  BY DEF StepState
<1> HIDE DEF s
<1>3. step.next = "none"
  BY DEF StepOK, StepState
<1>4. StepOK(s, disposed)
  BY <1>1, <1>2, <1>3 DEF StepOK, Rounds, Asked, StepState
<1>5. Guard(s) = {step.key} \ {None} /\ (Holding(s) => s.key # None)
  BY <1>2 DEF Guard, Holding
<1> QED BY <1>1, <1>2, <1>4, <1>5 DEF s

LEMMA RejectedPreserves ==
  ASSUME Inv, NEW c \in Call, Rejected(c)
  PROVE  Inv'
<1> DEFINE idle == [call EXCEPT ![c] = Idle]
           key == call[c].key
           s == [call[c] EXCEPT !.pc = "closing", !.next = "throw", !.error = "none"]
<1>1. call[c].pc = "rejected" /\ UNCHANGED <<disposed, steps>>
  BY DEF Rejected
<1>2. /\ call[c] \in StepState /\ StepOK(call[c], disposed) /\ LinkOK(c, sessions, child, call)
      /\ GuardsOK(turnsInFlight, call) /\ call \in [Call -> StepState] /\ child \in [Child -> ChildState]
      /\ turnsInFlight \in SUBSET Key /\ key \in Key \cup {None}
      /\ Good(sessions, turnsInFlight, turnChildren, disposed, child, call)
      /\ history \in [Key -> Seq(Message)]
  BY DEF Inv, GoodState, Good, StepState
<1>3. ~Working(call[c]) /\ (key # None => Holding(call[c]) /\ key \in turnsInFlight)
  BY <1>1, <1>2 DEF Working, Holding, GuardsOK
<1>4. Guard(call[c]) = {key} \ {None}
  BY <1>3 DEF Guard, Holding
<1>5. idle[c] = Idle /\ [idle EXCEPT ![c] = s] = [call EXCEPT ![c] = s] /\ None \notin turnsInFlight
  BY <1>2, Constants
<1>6. Closing(call, c, "throw") = [call EXCEPT ![c] = s]
  BY <1>2 DEF Closing
<1>7. CASE call[c].repairing
  <2>1. Good(sessions, turnsInFlight \ Guard(call[c]), turnChildren, disposed, child, idle)
    BY <1>2, <1>3, <1>7, Drop
  <2>2. turnsInFlight \ Guard(call[c]) = turnsInFlight \ {key}
    BY <1>4, <1>5
  <2> HIDE DEF key
  <2> QED BY <1>1, <1>7, <2>1, <2>2 DEF Rejected, RejectedRepair, Lose, Inv, GoodState, key
<1>8. CASE ~call[c].repairing /\ key = None
  <2> DEFINE ch == call[c].child
  <2>1. Throwaway(call[c]) /\ Guard(call[c]) = {}
    BY <1>1, <1>4, <1>8 DEF Throwaway
  <2>2. /\ ch \in Child /\ child[ch].state = "dead" /\ child[ch].key = None
        /\ \A d \in Call : Throwaway(call[d]) /\ call[d].child = ch => d = c
    BY <1>2, <2>1 DEF LinkOK
  <2>3. Good(sessions, turnsInFlight, turnChildren, disposed, child, idle)
    <3>1. Good(sessions, turnsInFlight \ Guard(call[c]), turnChildren, disposed, child, idle)
      BY <1>2, <1>3, <1>8, Drop
    <3> QED BY <3>1, <2>1
  <2>4. \A d \in Call : Throwaway(idle[d]) => idle[d].child # ch
    BY <1>2, <2>2, IdleType
  <2>5. /\ turnChildren' = turnChildren \ {ch} /\ child' = Forgotten(child, {ch})
        /\ call' = [call EXCEPT ![c] = s] /\ UNCHANGED <<sessions, turnsInFlight, history>>
    <3> HIDE DEF s, key
    <3> QED BY <1>1, <1>6, <1>8 DEF Rejected, CloseThrowaway, key
  <2>6. Forgotten(child, {ch}) = [child EXCEPT ![ch] = Gone]
    <3> HIDE DEF ch
    <3> QED BY <1>2, <2>2 DEF Forgotten
  <2>7. s \in StepState /\ StepOK(s, disposed) /\ s.pc = "closing" /\ Guard(s) = {} /\ ~Holding(s)
    <3>1. Guard(s) = {key} \ {None} /\ (Holding(s) => s.key # None) /\ s.key = key
          /\ s \in StepState /\ StepOK(s, disposed) /\ s.pc = "closing"
      BY <1>1, <1>2, <1>8, Throwing
    <3> HIDE DEF s
    <3> QED BY <3>1, <1>8
  <2> HIDE DEF idle, s, ch
  <2>8. Good(sessions, turnsInFlight, turnChildren \ {ch}, disposed, [child EXCEPT ![ch] = Gone], idle)
    BY <2>2, <2>3, <2>4, Forgets
  <2>9. Good(sessions, turnsInFlight \cup Guard(s), turnChildren \ {ch}, disposed, [child EXCEPT ![ch] = Gone],
             [idle EXCEPT ![c] = s])
    BY <1>5, <2>7, <2>8, Waits
  <2>10. turnsInFlight \cup Guard(s) = turnsInFlight
    BY <2>7
  <2> QED BY <1>1, <1>5, <2>5, <2>6, <2>9, <2>10 DEF Inv, GoodState
<1>9. CASE ~call[c].repairing /\ key # None
  <2> PICK ks \in SUBSET Key : ks = {key}
    BY <1>2, <1>9
  <2> DEFINE S == {sessions[k] : k \in ks} \ {None}
             map == [k \in Key |-> IF k \in ks THEN None ELSE sessions[k]]
             closed == Forgotten(child, S)
  <2>1. \A ch \in S : child[ch].pending = None
    <3>1. ASSUME sessions[key] # None, child[sessions[key]].pending # None PROVE FALSE
      <4> DEFINE ch == sessions[key]
                 d == child[ch].pending
      <4>1. ch \in Child /\ child[ch].key = key /\ key \in Key
        BY <1>2, <1>9, <3>1 DEF Good, KeyOK
      <4>2. d \in Call /\ ChildOK(ch, child[ch], sessions, turnChildren, disposed, call)
        BY <1>2, <3>1, <4>1 DEF Good, ChildState
      <4>3. Working(call[d]) /\ call[d].key = key
        BY <3>1, <4>1, <4>2 DEF ChildOK
      <4>4. Holding(call[d])
        BY <1>9, <4>3 DEF Holding, Working
      <4> QED BY <1>2, <1>3, <1>9, <4>2, <4>3, <4>4 DEF GuardsOK
    <3> QED BY <3>1
  <2>2. Good(map, turnsInFlight, turnChildren \ S, disposed, closed, call)
    <3> HIDE DEF idle, s, key
    <3>1. Good(sessions, turnsInFlight, turnChildren, disposed, child, call)
      BY <1>2
    <3>2. S = {sessions[k] : k \in ks} \ {None}
      OBVIOUS
    <3> HIDE DEF S
    <3> QED BY <2>1, <3>1, <3>2, ClosesQuiet
  <2>3. map[key] = None /\ key \in Key
    BY <1>2, <1>9
  <2>4. /\ sessions' = map /\ turnChildren' = turnChildren \ S /\ child' = closed
        /\ call' = [call EXCEPT ![c] = s] /\ UNCHANGED <<turnsInFlight, history>>
    <3>1. s \in StepState
      BY <1>1, <1>2, <1>9, Throwing
    <3> HIDE DEF s
    <3>2. CloseSessions(ks, child, [call EXCEPT ![c] = s], "closed") /\ UNCHANGED <<turnsInFlight, history>>
      BY <1>1, <1>6, <1>9 DEF Rejected
    <3>3. [call EXCEPT ![c] = s] \in [Call -> StepState]
      BY <3>1, <1>2
    <3>4. Rejecting([call EXCEPT ![c] = s], child, S, "closed") = [call EXCEPT ![c] = s]
      <4> HIDE DEF S
      <4> QED BY <3>3, <2>1, RejectsNobody
    <3> QED BY <3>2, <3>4 DEF CloseSessions
  <2>5. /\ s \in StepState /\ StepOK(s, disposed) /\ s.pc = "closing" /\ s.key = key
        /\ Guard(s) = {key} /\ Guard(call[c]) = {key}
    <3>1. Guard(s) = {key} \ {None} /\ s.key = key
          /\ s \in StepState /\ StepOK(s, disposed) /\ s.pc = "closing"
      BY <1>1, <1>2, <1>9, Throwing
    <3> HIDE DEF s
    <3> QED BY <3>1, <1>4, <1>9
  <2> HIDE DEF idle, s, S, map, closed
  <2>6. Good(map, turnsInFlight \ Guard(call[c]), turnChildren \ S, disposed, closed, idle)
    BY <1>3, <2>2, <2>3, Drop DEF idle
  <2>7. Good(map, (turnsInFlight \ Guard(call[c])) \cup Guard(s), turnChildren \ S, disposed, closed,
             [idle EXCEPT ![c] = s])
    BY <1>5, <2>3, <2>5, <2>6, Waits
  <2>8. (turnsInFlight \ Guard(call[c])) \cup Guard(s) = turnsInFlight
    BY <1>3, <1>9, <2>5
  <2> QED BY <1>1, <1>5, <2>4, <2>7, <2>8 DEF Inv, GoodState
<1> QED BY <1>7, <1>8, <1>9

LEMMA ClosedPreserves ==
  ASSUME Inv, NEW c \in Call, Closed(c)
  PROVE  Inv'
<1> DEFINE idle == [call EXCEPT ![c] = Idle]
           key == call[c].key
           step == [call[c] EXCEPT !.next = "none"]
           again == [step EXCEPT !.retried = TRUE, !.repairing = FALSE, !.child = None, !.result = NoResult]
<1>1. call[c].pc = "closing" /\ UNCHANGED <<disposed, steps>>
  BY DEF Closed
<1>2. /\ call[c] \in StepState /\ StepOK(call[c], disposed) /\ LinkOK(c, sessions, child, call)
      /\ GuardsOK(turnsInFlight, call) /\ call \in [Call -> StepState] /\ key \in Key \cup {None}
      /\ Typed
  BY InvTyped DEF Inv, GoodState, Good, StepState
<1>3. Good(sessions, turnsInFlight \ Guard(call[c]), turnChildren, disposed, child, idle)
  BY <1>1, Drop DEF Inv, GoodState, Working
<1>4. step \in StepState
  BY <1>2 DEF StepState
<1>5. /\ step.key = key /\ step.next = "none" /\ step.request = call[c].request
      /\ step.repairing = call[c].repairing /\ step.retried = call[c].retried /\ step.child = call[c].child
      /\ step.answered = call[c].answered /\ step.turn = call[c].turn /\ step.lines = call[c].lines
      /\ step.result = call[c].result
  BY <1>2 DEF StepState
<1>6. CASE call[c].next = "judge"
  <2>1. key = None /\ ~step.repairing /\ step.request = <<>>
    BY <1>2, <1>5, <1>6 DEF StepOK
  <2>2. Guard(call[c]) = {} /\ turnsInFlight \ {} = turnsInFlight
    BY <2>1 DEF Guard, Holding
  <2>3. step.lines <= Rounds(step) + 1 /\ step.answered \in {0, step.turn}
    BY <1>1, <1>2, <1>5, <1>6 DEF StepOK, Rounds, Asked
  <2> HIDE DEF step, idle
  <2>4. Judging(c, step, step.result, child, turnsInFlight)
    BY <1>3, <1>5, <2>1, <2>2, <2>3 DEF Judging, idle
  <2>5. Judge(c, step, step.result, child, turnsInFlight)
    BY <1>5, <1>6, <2>1 DEF Closed, step
  <2> QED BY <1>1, <1>2, <1>4, <2>4, <2>5, JudgePreserves DEF Inv
<1>7. CASE call[c].next \in {"rebuild", "again", "throw"}
  <2>1. turnsInFlight \ Guard(call[c]) = turnsInFlight \ {step.key}
    <3>1. None \notin turnsInFlight
      BY <1>2, Constants DEF Typed
    <3> QED BY <3>1, <1>5, <1>7 DEF Guard, Holding
  <2>2. call[c].next \in {"rebuild", "again"} => Ready(step) /\ sessions[step.key] = None
    <3>1. ASSUME call[c].next \in {"rebuild", "again"} PROVE Ready(step) /\ sessions[step.key] = None
      <4>1. Holding(call[c]) /\ key # None /\ ~step.repairing
        BY <3>1, <1>2, <1>5 DEF Holding, StepOK
      <4>2. sessions[step.key] = None
        BY <4>1, <1>1, <1>2, <1>5 DEF LinkOK
      <4>3. step.lines <= Rounds(step) /\ step.answered \in {0, step.turn}
        <5>1. Asked(call[c]) = 0 /\ Rounds(step) = Rounds(call[c]) /\ Rounds(step) \in Nat
          BY <3>1, <1>5 DEF Asked, Rounds
        <5> QED BY <5>1, <1>2, <1>5 DEF StepOK
      <4> HIDE DEF step
      <4> QED BY <4>1, <4>2, <4>3, <1>5 DEF Ready
    <3> QED BY <3>1
  <2> HIDE DEF step
  <2>3. CASE call[c].next = "rebuild"
    <3>1. Await(c, step) /\ UNCHANGED history
      BY <1>2, <2>3 DEF Closed, step, StepOK
    <3>2. GoodState'
      BY <1>1, <1>2, <1>3, <1>4, <2>1, <2>2, <2>3, <3>1, AwaitPreserves
    <3> QED BY <1>1, <3>1, <3>2 DEF Inv
  <2>4. CASE call[c].next = "again"
    <3>1. RunTurnBody(c, step) /\ UNCHANGED history
      BY <1>2, <2>4 DEF Closed, step, StepOK
    <3>2. GoodState'
      BY <1>1, <1>2, <1>3, <1>4, <2>1, <2>2, <2>4, <3>1, BodyPreserves
    <3> QED BY <1>1, <3>1, <3>2 DEF Inv
  <2>5. CASE call[c].next = "throw"
    <3>1. Leave(c, step) /\ UNCHANGED history
      BY <1>2, <2>5 DEF Closed, step, StepOK
    <3> QED BY <1>1, <1>3, <2>1, <3>1 DEF Inv, GoodState, Leave
  <2> QED BY <1>7, <2>3, <2>4, <2>5
<1>8. CASE call[c].next = "retry"
  <2>1. Guard(call[c]) = {} /\ turnsInFlight \ {} = turnsInFlight
    BY <1>1, <1>8 DEF Guard, Holding
  <2>2. again \in StepState
    <3> HIDE DEF step
    <3>1. NoResult \in Result
      BY DEF NoResult, Result, Stamp
    <3> QED BY <3>1, <1>4 DEF StepState
  <2>3. /\ again.key = key /\ again.request = call[c].request /\ again.repairing = FALSE /\ again.retried = TRUE
        /\ again.answered = call[c].answered /\ again.turn = call[c].turn /\ again.lines = call[c].lines
    BY <1>2 DEF StepState
  <2> HIDE DEF step, again
  <2>4. Ready(again)
    <3>1. Rounds(call[c]) = 0 /\ Asked(call[c]) = 2 /\ Rounds(again) = 2
      BY <1>1, <1>2, <1>8, <2>3 DEF StepOK, Rounds, Asked
    <3> QED BY <3>1, <1>2, <2>3 DEF Ready, StepOK
  <2>5. Retry(c, again) /\ UNCHANGED history
    BY <1>2, <1>8 DEF Closed, step, again, StepOK
  <2>6. GoodState'
    <3>1. Good(sessions, turnsInFlight, turnChildren, disposed, child, idle) /\ RunTurn(c, again)
      BY <1>3, <2>1, <2>5 DEF Retry
    <3> QED BY <1>1, <1>2, <2>2, <2>4, <3>1, RunPreserves
  <2> QED BY <1>1, <2>5, <2>6 DEF Inv
<1> QED
  <2>1. call[c].next \in {"rebuild", "again", "throw", "retry", "judge"}
    BY <1>1, <1>2 DEF StepOK, StepState
  <2> QED BY <2>1, <1>6, <1>7, <1>8

-----------------------------------------------------------------------------
(* A result *)

\* A child that has answered, and one that was recorded to have heard the request.
Freed(x, structured, executed) ==
  [x EXCEPT !.pending = None, !.line = 0, !.buffered = 0, !.structured = structured, !.executed = executed]
Recorded(x, ch, step) == [x EXCEPT !.sentDigests = @ \o Appended(ch, step), !.idleTimer = TRUE]
Reading(step, line) == [step EXCEPT !.answered = line]

LEMMA SentAndRest ==
  ASSUME NEW sent \in Seq(Message), NEW request \in Seq(Message), IsPrefixOf(sent, request)
  PROVE  sent \o SubSeq(request, Len(sent) + 1, Len(request)) = request
  BY PrefixAndRest DEF IsPrefixOf

\* The child of a session has its answer: what was delivered to it is what it was asked, and
\* its timer is armed, now or by the turn that the repair follows.
LEMMA ResultPreserves ==
  ASSUME Inv, NEW ch \in Child, NEW c \in Call, child[ch].pending = c, call[c].key # None,
         NEW structured \in Nat, NEW executed \in Nat, executed <= 1,
         NEW step, step = Reading(call[c], child[ch].line),
         NEW y, y = IF call[c].pc = "repair" THEN Freed(child[ch], structured, executed)
                    ELSE Recorded(Freed(child[ch], structured, executed), ch, step),
         NEW result, AnswersTurn(step, result) => executed = 0,
         Judge(c, step, result, [child EXCEPT ![ch] = y], turnsInFlight \ {step.key}),
         UNCHANGED <<disposed, steps>>
  PROVE  Inv'
<1> DEFINE key == call[c].key
           free == turnsInFlight \ {key}
           line == child[ch].line
           x == Freed(child[ch], structured, executed)
           childs == [child EXCEPT ![ch] = y]
<1>1. Working(call[c]) /\ call[c].child = ch
  <2>1. ChildOK(ch, child[ch], sessions, turnChildren, disposed, call)
    BY DEF Inv, GoodState, Good
  <2> QED BY <2>1, Constants DEF ChildOK
<1>2. /\ child[ch] \in ChildState /\ child[ch].state = "alive" /\ child[ch].key = key /\ line = call[c].turn
      /\ child[ch].buffered = 0 /\ child[ch].signature = call[c].signature /\ Hears(child[ch], call)
      /\ key \in Key /\ sessions[key] = ch
  BY <1>1, WorkingChild
<1>3. /\ call[c] \in StepState /\ StepOK(call[c], disposed) /\ GuardsOK(turnsInFlight, call)
      /\ KeyOK(key, sessions, child, call) /\ child \in [Child -> ChildState]
      /\ Good(sessions, turnsInFlight, turnChildren, disposed, child, call)
      /\ Typed
  BY <1>2, InvTyped DEF Inv, GoodState, Good
<1>4. step \in StepState
  BY <1>2, <1>3 DEF StepState, Reading
<1>5. /\ step.key = key /\ step.child = ch /\ step.request = call[c].request /\ step.next = call[c].next
      /\ step.repairing = call[c].repairing /\ step.retried = call[c].retried /\ step.turn = call[c].turn
      /\ step.lines = call[c].lines /\ step.answered = line /\ step.signature = call[c].signature
  BY <1>1, <1>3 DEF StepState, Reading
<1>6. x \in ChildState
  BY <1>2, Constants DEF ChildState, Stamp, Freed
<1>7. /\ x.state = "alive" /\ x.key = key /\ x.pending = None /\ x.buffered = 0 /\ x.late = child[ch].late
      /\ x.executed = executed /\ x.opened = child[ch].opened /\ x.idleTimer = child[ch].idleTimer
      /\ x.told = child[ch].told /\ x.sentDigests = child[ch].sentDigests /\ x.signature = child[ch].signature
  BY <1>2 DEF ChildState, Freed
<1> HIDE DEF key, free, line, x, childs
<1>8. /\ y \in ChildState
      /\ y.state = "alive" /\ y.key = key /\ y.pending = None /\ y.buffered = 0 /\ y.late = child[ch].late
      /\ y.executed = executed /\ y.signature = child[ch].signature
      /\ y.opened => y.idleTimer
      /\ Unheard(y.told) = Unheard(y.sentDigests)
  <2>1. CASE call[c].pc = "repair"
    <3>1. y = x
      BY <2>1 DEF x
    <3>2. Unheard(x.told) = Unheard(x.sentDigests)
      BY <2>1, <1>2, <1>7 DEF Hears
    <3>3. ASSUME x.opened, ~x.idleTimer PROVE FALSE
      <4>1. PICK d \in Call : Arming(call[d], key)
        BY <3>3, <1>2, <1>3, <1>7, Constants DEF KeyOK
      <4>2. Holding(call[d]) /\ Holding(call[c]) /\ call[d].key = key
        BY <4>1, <1>1, <1>2, Constants DEF Arming, Holding, Working, key
      <4>3. d = c
        BY <4>2, <1>3 DEF GuardsOK, key
      <4> QED BY <4>1, <4>3, <2>1 DEF Arming
    <3> QED BY <3>1, <3>2, <3>3, <1>6, <1>7
  <2>2. CASE call[c].pc = "turn"
    <3>1. y = Recorded(x, ch, step)
      BY <2>2 DEF x
    <3>2. c # None
      BY Constants
    <3>3. IsPrefixOf(x.sentDigests, step.request) /\ Unheard(x.told) = Unheard(step.request)
      BY <2>2, <3>2, <1>2, <1>5, <1>7 DEF Hears
    <3>4. x.sentDigests \in Seq(Message) /\ step.request \in Seq(Message)
      BY <1>4, <1>6 DEF ChildState, StepState
    <3>5. x.sentDigests \o Appended(ch, step) = step.request
      <4>1. Appended(ch, step) = SubSeq(step.request, Len(x.sentDigests) + 1, Len(step.request))
        BY <1>7 DEF Appended
      <4> QED BY <4>1, <3>3, <3>4, SentAndRest
    <3>6. y = [x EXCEPT !.sentDigests = step.request, !.idleTimer = TRUE]
      BY <3>1, <3>5 DEF Recorded
    <3>7. y \in ChildState
      BY <3>4, <3>6, <1>6 DEF ChildState
    <3>8. /\ y.state = x.state /\ y.key = x.key /\ y.pending = x.pending /\ y.buffered = x.buffered
          /\ y.late = x.late /\ y.executed = x.executed /\ y.signature = x.signature /\ y.idleTimer
          /\ y.told = x.told /\ y.sentDigests = step.request
      BY <3>6, <1>6 DEF ChildState
    <3> QED BY <3>3, <3>7, <3>8, <1>7
  <2> QED BY <2>1, <2>2, <1>1 DEF Working
<1>9. Good(sessions, free, turnChildren, disposed, childs, [call EXCEPT ![c] = Idle])
  <2>1. child[ch].key # None /\ y.key = child[ch].key /\ y.executed <= 1 /\ free = turnsInFlight \ {y.key}
    BY <1>2, <1>8, Constants DEF free
  <2>2. Good(sessions, turnsInFlight \ {y.key}, turnChildren, disposed, [child EXCEPT ![ch] = y],
             [call EXCEPT ![c] = Idle])
    BY <2>1, <1>2, <1>3, <1>8, Answered
  <2> QED BY <2>1, <2>2 DEF childs
<1>10. step.next = "none" /\ step.lines <= Rounds(step) + (IF step.repairing THEN 2 ELSE 1)
  <2>1. step.next = "none"
    BY <1>1, <1>3, <1>5 DEF StepOK, Working
  <2>2. Rounds(call[c]) = Rounds(step) /\ Asked(call[c]) = IF step.repairing THEN 2 ELSE 1
    BY <1>1, <1>3, <1>5, <2>1 DEF StepOK, Working, Rounds, Asked
  <2> QED BY <2>1, <2>2, <1>3, <1>5 DEF StepOK
<1>11. childs[ch] = y
  BY <1>3 DEF childs
<1>12. step.key = key /\ key # None /\ key \notin free
  BY <1>2, <1>5, Constants DEF free
<1>13. Judging(c, step, result, childs, free)
  BY <1>2, <1>5, <1>8, <1>9, <1>10, <1>11, <1>12 DEF Judging
<1>14. Judge(c, step, result, childs, free)
  BY <1>5 DEF free, childs
<1>15. GoodState' /\ history' \in [Key -> Seq(Message)]
  BY <1>3, <1>4, <1>13, <1>14, JudgePreserves
<1> QED BY <1>15 DEF Inv

\* The throwaway child has answered, and its step waits for its exit.
LEMMA OnceResultPreserves ==
  ASSUME Inv, NEW ch \in Child, NEW c \in Call, child[ch].pending = c, call[c].key = None,
         NEW result \in Result, NEW answered,
         \A other \in Child \ {ch} : answered[other] = child[other],
         NEW step, step = Reading(call[c], child[ch].line),
         CloseThrowaway(c, answered, [call EXCEPT ![c] = [step EXCEPT !.result = result]], "judge"),
         UNCHANGED <<history, disposed, steps>>
  PROVE  Inv'
<1> DEFINE idle == [call EXCEPT ![c] = Idle]
           line == child[ch].line
           s == [call[c] EXCEPT !.pc = "closing", !.next = "judge", !.error = "none",
                                !.answered = line, !.result = result]
<1>1. Working(call[c]) /\ call[c].child = ch
  <2>1. ChildOK(ch, child[ch], sessions, turnChildren, disposed, call)
    BY DEF Inv, GoodState, Good
  <2> QED BY <2>1, Constants DEF ChildOK
<1>2. child[ch].key = None /\ line = call[c].turn
  BY <1>1, WorkingChild
<1>3. /\ call[c] \in StepState /\ StepOK(call[c], disposed) /\ call \in [Call -> StepState]
      /\ child \in [Child -> ChildState]
      /\ Good(sessions, turnsInFlight, turnChildren, disposed, child, call)
  BY DEF Inv, GoodState, Good
<1>4. Good(sessions, turnsInFlight, turnChildren \ {ch}, disposed, [child EXCEPT ![ch] = Gone], idle)
  BY <1>2, <1>3, AnsweredOnce
<1>5. s \in StepState
  BY <1>2, <1>3 DEF StepState
<1>6. /\ s.pc = "closing" /\ s.next = "judge" /\ s.key = None /\ s.request = call[c].request
      /\ s.repairing = call[c].repairing /\ s.retried = call[c].retried /\ s.turn = call[c].turn
      /\ s.lines = call[c].lines /\ s.answered = line
  BY <1>3 DEF StepState
<1>7. /\ sessions' = sessions /\ turnsInFlight' = turnsInFlight /\ turnChildren' = turnChildren \ {ch}
      /\ child' = [child EXCEPT ![ch] = Gone] /\ call' = [idle EXCEPT ![c] = s]
  <2> DEFINE calls == [call EXCEPT ![c] = [step EXCEPT !.result = result]]
  <2>1. calls[c].child = ch
    BY <1>1, <1>3 DEF StepState, Reading
  <2>2. Closing(calls, c, "judge") = [idle EXCEPT ![c] = s]
    BY <1>3 DEF Closing, Reading
  <2>3. Forgotten(answered, {ch}) = [child EXCEPT ![ch] = Gone]
    BY <1>3 DEF Forgotten
  <2> HIDE DEF calls, idle, s
  <2> QED BY <2>1, <2>2, <2>3 DEF CloseThrowaway, calls
<1>8. StepOK(s, disposed) /\ ~Holding(s)
  <2>1. call[c].request = <<>> /\ ~call[c].repairing
    BY <1>3 DEF StepOK
  <2>2. Asked(call[c]) = 1 /\ Asked(s) = 1 /\ Rounds(s) = Rounds(call[c])
    BY <2>1, <1>1, <1>3, <1>6 DEF StepOK, Working, Rounds, Asked
  <2>3. s.lines <= Rounds(s) + Asked(s)
    BY <2>2, <1>3, <1>6 DEF StepOK
  <2> HIDE DEF s
  <2> QED BY <2>1, <2>3, <1>2, <1>6 DEF StepOK, Holding
<1>9. Guard(s) = {} /\ turnsInFlight \cup {} = turnsInFlight /\ idle[c] = Idle
  BY <1>3, <1>8 DEF Guard
<1> HIDE DEF s, idle
<1>10. Good(sessions, turnsInFlight \cup Guard(s), turnChildren \ {ch}, disposed, [child EXCEPT ![ch] = Gone],
            [idle EXCEPT ![c] = s])
  BY <1>4, <1>5, <1>6, <1>8, <1>9, Waits
<1> QED BY <1>7, <1>9, <1>10 DEF Inv, GoodState

LEMMA AgyTurnResultPreserves ==
  ASSUME Inv, NEW ch \in Child, NEW kind \in Kinds,
         NEW stamp \in {0, child[ch].line, child[ch].buffered, child[ch].structured},
         AgyTurnResult(ch, kind, stamp)
  PROVE  Inv'
<1> DEFINE c == child[ch].pending
           line == child[ch].line
           fresh == kind = "decision" /\ stamp = line
           structured == IF fresh THEN line ELSE child[ch].structured
           executed == IF fresh THEN 0 ELSE child[ch].executed
           x == Freed(child[ch], structured, executed)
           answered == [child EXCEPT ![ch].pending = None, ![ch].line = 0, ![ch].buffered = 0,
                                     ![ch].structured = structured, ![ch].executed = executed]
           step == Reading(call[c], line)
           result == [kind |-> kind, stamp |-> stamp]
<1>1. child \in [Child -> ChildState] /\ child[ch] \in ChildState /\ call \in [Call -> StepState]
  BY DEF Inv, GoodState, Good
<1>2. c \in Call /\ c # None
  BY <1>1 DEF AgyTurnResult, ChildState
<1>3. child[ch].buffered = 0 /\ child[ch].executed <= 1
  BY <1>2 DEF Inv, GoodState, Good, ChildOK
<1>4. /\ IF step.key = None
         THEN /\ CloseThrowaway(c, answered, [call EXCEPT ![c] = [step EXCEPT !.result = result]], "judge")
              /\ UNCHANGED history
         ELSE Judge(c, step, result,
                    IF step.pc = "repair" THEN answered ELSE Delivered(ch, step, answered),
                    turnsInFlight \ {step.key})
      /\ UNCHANGED <<disposed, steps>>
  BY <1>3 DEF AgyTurnResult, Reading
<1>5. /\ structured \in Nat /\ executed \in Nat /\ executed <= 1 /\ result \in Result
      /\ AnswersTurn(step, result) => stamp = step.turn /\ kind = "decision"
  BY <1>1, <1>3 DEF ChildState, Stamp, Kinds, Result, AnswersTurn, Reading
<1>6. answered = [child EXCEPT ![ch] = x]
  BY <1>1 DEF Freed
<1>7. step.key = call[c].key /\ step.pc = call[c].pc /\ step.turn = call[c].turn
  BY <1>1, <1>2 DEF StepState, Reading
<1>8. CASE call[c].key = None
  <2>1. \A other \in Child \ {ch} : answered[other] = child[other]
    BY <1>1, <1>6
  <2>2. /\ CloseThrowaway(c, answered, [call EXCEPT ![c] = [step EXCEPT !.result = result]], "judge")
        /\ UNCHANGED <<history, disposed, steps>>
    BY <1>4, <1>7, <1>8
  <2> HIDE DEF answered, x, result
  <2> QED BY <1>2, <1>5, <1>8, <2>1, <2>2, OnceResultPreserves
<1>9. CASE call[c].key # None
  <2>1. call[c].turn = line
    BY <1>2 DEF Inv, GoodState, Good, ChildOK
  <2>2. AnswersTurn(step, result) => executed = 0
    BY <2>1, <1>5, <1>7
  <2> DEFINE y == IF call[c].pc = "repair" THEN x ELSE Recorded(x, ch, step)
  <2>3. (IF step.pc = "repair" THEN answered ELSE Delivered(ch, step, answered)) = [child EXCEPT ![ch] = y]
    <3> HIDE DEF answered, x, step
    <3>1. Delivered(ch, step, answered) = [child EXCEPT ![ch] = Recorded(x, ch, step)]
      BY <1>1, <1>6 DEF Delivered, Recorded
    <3> QED BY <3>1, <1>6, <1>7
  <2>4. Judge(c, step, result, [child EXCEPT ![ch] = y], turnsInFlight \ {step.key})
    BY <1>4, <1>7, <1>9, <2>3
  <2>5. UNCHANGED <<disposed, steps>>
    BY <1>4
  <2> HIDE DEF answered, result, structured, executed
  <2> QED BY <1>2, <1>5, <1>9, <2>2, <2>4, <2>5, ResultPreserves
<1> QED BY <1>8, <1>9

-----------------------------------------------------------------------------
(* The idle reaper and dispose *)

LEMMA LateResultPreserves ==
  ASSUME Inv, NEW ch \in Child, LateResult(ch)
  PROVE  Inv'
<1> DEFINE x == [child[ch] EXCEPT !.buffered = child[ch].line, !.line = 0]
<1>1. /\ child \in [Child -> ChildState] /\ child[ch] \in ChildState
      /\ child[ch].pending = None /\ child[ch].executed <= 1
      /\ Good(sessions, turnsInFlight, turnChildren, disposed, child, call)
  BY DEF Inv, GoodState, Good, ChildOK, LateResult
<1>2. x \in ChildState
  BY <1>1 DEF ChildState, Stamp
<1>3. /\ x.state = child[ch].state /\ x.pending = None /\ x.executed = child[ch].executed /\ x.key = child[ch].key
      /\ x.opened = child[ch].opened /\ x.idleTimer = child[ch].idleTimer
  BY <1>1 DEF ChildState
<1>4. child' = [child EXCEPT ![ch] = x]
  BY <1>1 DEF LateResult
<1>5. child[ch].state = "dead" /\ UNCHANGED <<history, sessions, turnsInFlight, turnChildren, disposed, call, steps>>
  BY DEF LateResult, adapter
<1> HIDE DEF x
<1>6. Good(sessions, turnsInFlight, turnChildren, disposed, [child EXCEPT ![ch] = x], call)
  BY <1>1, <1>2, <1>3, <1>5, StaysDead
<1> QED BY <1>4, <1>5, <1>6 DEF Inv, GoodState

LEMMA IdleTimerPreserves ==
  ASSUME Inv, NEW ch \in Child, IdleTimer(ch)
  PROVE  Inv'
<1> DEFINE stopped == [child EXCEPT ![ch].idleTimer = FALSE]
<1>1. child[ch].key \in Key
  BY DEF Inv, GoodState, Good, ChildOK, IdleTimer
<1>2. ASSUME NEW ks \in SUBSET Key, NEW S, S = {sessions[k] : k \in ks} \ {None}
      PROVE  Good([k \in Key |-> IF k \in ks THEN None ELSE sessions[k]], turnsInFlight, turnChildren \ S, disposed,
                  Forgotten(child, S), Rejecting(call, child, S, "reaped"))
  <2>1. Good(sessions, turnsInFlight, turnChildren, disposed, child, call)
    BY DEF Inv, GoodState
  <2>2. PICK why \in {"closed", "reaped"} : why = "reaped"
    OBVIOUS
  <2>3. why = "closed" /\ disposed = "no" => \A other \in S : child[other].pending = None
    BY <2>2
  <2>4. Good([k \in Key |-> IF k \in ks THEN None ELSE sessions[k]], turnsInFlight, turnChildren \ S, disposed,
             Forgotten(child, S), Rejecting(call, child, S, why))
    <3> HIDE DEF stopped
    <3> QED BY <1>2, <2>1, <2>3, Closes
  <2> QED BY <2>2, <2>4
<1> PICK ks \in SUBSET Key : ks = {child[ch].key}
  BY <1>1
<1> DEFINE S == {sessions[k] : k \in ks} \ {None}
           map == [k \in Key |-> IF k \in ks THEN None ELSE sessions[k]]
<1>3. sessions[child[ch].key] = ch /\ S = {ch}
  <2>1. sessions[child[ch].key] = ch
    BY DEF Inv, GoodState, Good, ChildOK, IdleTimer
  <2> QED BY <2>1, Constants
<1>4. child \in [Child -> ChildState] /\ child[ch] \in ChildState
  BY DEF Inv, GoodState, Good
<1>5. /\ sessions' = map /\ turnChildren' = turnChildren \ S /\ child' = Forgotten(stopped, S)
      /\ call' = Rejecting(call, stopped, S, "reaped")
      /\ UNCHANGED <<history, turnsInFlight, disposed, steps>>
  <2> HIDE DEF stopped
  <2> QED BY DEF IdleTimer, CloseSessions, stopped
<1>6. Forgotten(stopped, S) = Forgotten(child, S)
  <2>1. \A other \in Child : other \notin S => stopped[other] = child[other]
    BY <1>3, <1>4
  <2> HIDE DEF stopped, S
  <2> QED BY <2>1 DEF Forgotten
<1>7. Rejecting(call, stopped, S, "reaped") = Rejecting(call, child, S, "reaped")
  <2>1. \A other \in S : stopped[other].pending = child[other].pending
    BY <1>3, <1>4 DEF ChildState
  <2> HIDE DEF stopped, S
  <2> QED BY <2>1 DEF Rejecting
<1>8. Good(map, turnsInFlight, turnChildren \ S, disposed, Forgotten(child, S), Rejecting(call, child, S, "reaped"))
  BY <1>2
<1> HIDE DEF S, map, stopped
<1> QED BY <1>5, <1>6, <1>7, <1>8 DEF Inv, GoodState

LEMMA DisposePreserves ==
  ASSUME Inv, Dispose
  PROVE  Inv'
<1> PICK ks \in SUBSET Key : ks = Key
  OBVIOUS
<1> DEFINE S == {sessions[k] : k \in ks} \ {None}
           map == [k \in Key |-> IF k \in ks THEN None ELSE sessions[k]]
<1>1. Good(sessions, turnsInFlight, turnChildren, "sessions", child, call)
  <2>1. turnChildren \in SUBSET Child
    BY DEF Inv, GoodState, Good
  <2>2. \A ch \in Child : child[ch].state = "alive" /\ ~child[ch].late => ch \in turnChildren
    BY DEF Inv, GoodState, Good, ChildOK
  <2> QED BY <2>1, <2>2, Advances DEF Inv, GoodState
<1>2. Good(map, turnsInFlight, turnChildren \ S, "sessions", Forgotten(child, S), Rejecting(call, child, S, "closed"))
  <2>1. S = {sessions[k] : k \in ks} \ {None}
    OBVIOUS
  <2> HIDE DEF S
  <2> QED BY <1>1, <2>1, Closes
<1>3. /\ sessions' = map /\ turnChildren' = turnChildren \ S /\ child' = Forgotten(child, S)
      /\ call' = Rejecting(call, child, S, "closed") /\ disposed' = "sessions"
      /\ UNCHANGED <<history, turnsInFlight, steps>>
  BY DEF Dispose, CloseSessions
<1> HIDE DEF S, map
<1> QED BY <1>2, <1>3 DEF Inv, GoodState

LEMMA DisposeChildrenPreserves ==
  ASSUME Inv, DisposeChildren
  PROVE  Inv'
<1> DEFINE then == Killed(child, turnChildren)
           after == Rejecting(call, child, turnChildren, "closed")
<1>1. turnChildren \in SUBSET Child /\ child \in [Child -> ChildState] /\ disposed = "sessions"
  BY DEF Inv, GoodState, Good, DisposeChildren
<1>2. Good(sessions, turnsInFlight, turnChildren, disposed, then, after)
  BY <1>1, Kills DEF Inv, GoodState
<1>3. \A ch \in Child : ~(then[ch].state = "alive" /\ ~then[ch].late)
  <2>1. ASSUME NEW ch \in Child, then[ch].state = "alive", ~then[ch].late PROVE FALSE
    <3>1. ChildOK(ch, then[ch], sessions, turnChildren, disposed, after)
      BY <1>2 DEF Good
    <3>2. ch \in turnChildren
      BY <2>1, <3>1 DEF ChildOK
    <3>3. then[ch].state = "dead"
      BY <1>1, <3>2 DEF Killed, ChildState
    <3> QED BY <2>1, <3>3
  <2> QED BY <2>1
<1> HIDE DEF then, after
<1>4. Good(sessions, turnsInFlight, turnChildren, "children", then, after)
  BY <1>1, <1>2, <1>3, Advances
<1>5. /\ child' = then /\ call' = after /\ disposed' = "children"
      /\ UNCHANGED <<history, sessions, turnsInFlight, turnChildren, steps>>
  BY DEF DisposeChildren, then, after
<1> QED BY <1>4, <1>5 DEF Inv, GoodState

LEMMA DisposedPreserves ==
  ASSUME Inv, Disposed
  PROVE  Inv'
<1>1. \A ch \in Child : ~(child[ch].state = "alive" /\ ~child[ch].late)
  BY DEF Inv, GoodState, Good, ChildOK, Disposed
<1>2. {} \in SUBSET Child
  OBVIOUS
<1>3. Good(sessions, turnsInFlight, {}, "done", child, call)
  BY <1>1, <1>2, Advances DEF Inv, GoodState
<1> QED BY <1>3 DEF Disposed, Inv, GoodState

-----------------------------------------------------------------------------
(* The inductive invariant *)

LEMMA InitInv == Init => Inv
<1> SUFFICES ASSUME Init PROVE Inv
  OBVIOUS
<1>1. /\ sessions \in [Key -> Child \cup {None}] /\ \A k \in Key : sessions[k] = None
      /\ child \in [Child -> ChildState] /\ \A ch \in Child : child[ch] = Gone
      /\ call \in [Call -> StepState] /\ \A c \in Call : call[c] = Idle
  BY GoneType, IdleType DEF Init
<1>2. \A ch \in Child : ChildOK(ch, child[ch], sessions, turnChildren, disposed, call)
  BY <1>1, GoneType DEF ChildOK
<1>3. \A c \in Call : LinkOK(c, sessions, child, call) /\ StepOK(call[c], disposed)
  BY <1>1, IdleType DEF LinkOK
<1>4. GuardsOK(turnsInFlight, call)
  BY <1>1, IdleType DEF GuardsOK, Init
<1>5. \A k \in Key : KeyOK(k, sessions, child, call)
  BY <1>1 DEF KeyOK
<1>6. turnsInFlight \in SUBSET Key /\ turnChildren \in SUBSET Child /\ disposed \in {"no", "sessions", "children", "done"}
  BY DEF Init
<1>7. GoodState
  BY <1>1, <1>2, <1>3, <1>4, <1>5, <1>6 DEF GoodState, Good
<1>8. history \in [Key -> Seq(Message)] /\ steps \in 0..MaxSteps
  <2> HIDE DEF Message
  <2> QED BY Constants DEF Init
<1> QED BY <1>7, <1>8 DEF Inv

LEMMA NextInv == Inv /\ [Next]_vars => Inv'
<1> SUFFICES ASSUME Inv, [Next]_vars PROVE Inv'
  OBVIOUS
<1>1. CASE UNCHANGED vars
  BY <1>1 DEF vars, adapter, Inv, GoodState
<1>2. ASSUME NEW c \in Call, NEW k \in Key, NEW request, NEW signature \in Signature,
             Stream(c, k, request, signature),
             request \in Requests(history[k]) \/ request = Grown(history[k], "text")
      PROVE  Inv'
  BY <1>2, RequestTypes, StreamPreserves
<1>3. ASSUME NEW c \in Call, StreamAuxiliary(c) PROVE Inv'
  BY <1>3, AuxiliaryPreserves
<1>4. ASSUME NEW c \in Call, StartProcess(c) PROVE Inv'
  BY <1>4, StartProcessPreserves
<1>5. ASSUME NEW c \in Call, StartFails(c) PROVE Inv'
  BY <1>5, StartFailsPreserves
<1>6. ASSUME NEW c \in Call, StartedTooLate(c) PROVE Inv'
  BY <1>6, StartedTooLatePreserves
<1>7. ASSUME NEW c \in Call, Abort(c) PROVE Inv'
  BY <1>7, AbortPreserves
<1>8. ASSUME NEW c \in Call, Rejected(c) PROVE Inv'
  BY <1>8, RejectedPreserves
<1>9. ASSUME NEW c \in Call, Closed(c) PROVE Inv'
  BY <1>9, ClosedPreserves
<1>10. ASSUME NEW ch \in Child, NEW kind \in Kinds,
              NEW stamp \in {0, child[ch].line, child[ch].buffered, child[ch].structured},
              AgyTurnResult(ch, kind, stamp)
       PROVE  Inv'
  BY <1>10, AgyTurnResultPreserves
<1>11. ASSUME NEW ch \in Child, LateResult(ch) PROVE Inv'
  BY <1>11, LateResultPreserves
<1>12. ASSUME NEW ch \in Child, Exit(ch) PROVE Inv'
  BY <1>12, ExitPreserves
<1>13. ASSUME NEW ch \in Child, IdleTimer(ch) PROVE Inv'
  BY <1>13, IdleTimerPreserves
<1>14. CASE Dispose
  BY <1>14, DisposePreserves
<1>15. CASE DisposeChildren
  BY <1>15, DisposeChildrenPreserves
<1>16. CASE Disposed
  BY <1>16, DisposedPreserves
<1>17. AnySignature \in Signature
  BY Constants
<1> QED
  BY <1>1, <1>2, <1>3, <1>4, <1>5, <1>6, <1>7, <1>8, <1>9, <1>10, <1>11, <1>12, <1>13, <1>14, <1>15, <1>16, <1>17
  DEF Next

LEMMA Inductive == Spec => []Inv
  BY InitInv, NextInv, PTL DEF Spec

-----------------------------------------------------------------------------
(* What follows of it *)

\* A conversation that waits for a turn was told exactly the messages of the request that are
\* not its own replies, in order, and was opened for the same model, effort, system and tools
\* (extendsConversation, requestSignature), however DSH's history was rewritten and however
\* many sessions run.
THEOREM HistoryHeard == Spec => []HeardHistory
<1>1. Inv => HeardHistory
  <2> SUFFICES ASSUME Inv, NEW c \in Call, call[c].pc = "turn", call[c].key # None
               PROVE  /\ Unheard(child[call[c].child].told) = Unheard(call[c].request)
                      /\ child[call[c].child].signature = call[c].signature
    BY DEF HeardHistory
  <2>1. Working(call[c]) /\ c # None
    BY Constants DEF Working
  <2> QED BY <2>1, WorkingChild DEF Hears
<1> QED BY <1>1, Inductive, PTL

\* A live child is the one its session maps to, or the throwaway child a step waits for; and
\* when dispose is done it was started after dispose began (closeSession, dispose).
THEOREM NobodyOrphaned == Spec => []NoOrphan
<1>1. Inv => NoOrphan
  <2> SUFFICES ASSUME Inv, NEW ch \in Child, child[ch].state = "alive"
               PROVE  /\ \/ \E k \in Key : sessions[k] = ch
                         \/ \E c \in Call : call[c].key = None /\ child[ch].pending = c
                      /\ disposed = "done" => child[ch].late
    BY DEF NoOrphan
  <2>1. child[ch] \in ChildState /\ ChildOK(ch, child[ch], sessions, turnChildren, disposed, call)
    BY DEF Inv, GoodState, Good
  <2>2. child[ch].key \in Key \cup {None} /\ child[ch].pending \in Call \cup {None}
    BY <2>1 DEF ChildState
  <2>3. disposed = "done" => child[ch].late
    BY <2>1 DEF ChildOK
  <2>4. CASE child[ch].key = None
    <3>1. child[ch].pending \in Call /\ call[child[ch].pending].key = None
      BY <2>1, <2>2, <2>4 DEF ChildOK
    <3> QED BY <2>3, <3>1
  <2>5. CASE child[ch].key # None
    BY <2>1, <2>2, <2>3, <2>5 DEF ChildOK
  <2> QED BY <2>4, <2>5
<1> QED BY <1>1, Inductive, PTL

\* A turn fails for a reason of its own, and a session's guard is held by exactly one step
\* (turnsInFlight): a second request of a session neither closes it nor passes.
THEOREM StepsUndisturbed == Spec => []Undisturbed
<1>1. Inv => Undisturbed
  <2> SUFFICES ASSUME Inv PROVE Undisturbed
    OBVIOUS
  <2>1. TypeOK
    BY Constants DEF Inv, GoodState, Good, KeyOK, TypeOK
  <2>2. OwnFailure
    BY DEF Inv, GoodState, Good, StepOK, OwnFailure
  <2>3. GuardHeld
    <3>1. \A c \in Call : Guarded(c) <=> Holding(call[c])
      BY DEF Guarded, Holding
    <3>2. GuardsOK(turnsInFlight, call)
      BY DEF Inv, GoodState, Good
    <3> QED BY <3>1, <3>2 DEF GuardsOK, GuardHeld
  <2> QED BY <2>1, <2>2, <2>3 DEF Undisturbed
<1> QED BY <1>1, Inductive, PTL

\* A step is judged by the answer to its own last line, no decision is handed to DSH twice,
\* and a step asks at most four times (AgyTurnProcess.turn, BRIDGE_TURN_FIELD).
THEOREM DecisionsOnce == Spec => []ExecutedOnce
<1>1. Inv => ExecutedOnce
  <2> SUFFICES ASSUME Inv PROVE ExecutedOnce
    OBVIOUS
  <2>1. OwnAnswer
    BY DEF Inv, GoodState, Good, StepOK, OwnAnswer
  <2>2. NoneTwice
    BY DEF Inv, GoodState, Good, ChildOK, NoneTwice
  <2>3. ASSUME NEW c \in Call PROVE call[c].lines <= 4
    <3>1. StepOK(call[c], disposed) /\ call[c].lines \in Nat
      BY DEF Inv, GoodState, Good, StepState
    <3>2. Rounds(call[c]) \in {0, 2} /\ Asked(call[c]) \in {0, 1, 2}
      BY DEF Rounds, Asked
    <3> QED BY <3>1, <3>2 DEF StepOK
  <2> QED BY <2>1, <2>2, <2>3 DEF ExecutedOnce, BoundedAsking
<1> QED BY <1>1, Inductive, PTL

\* An opened conversation at rest has a timer that will reap it, and an armed timer is that
\* of the conversation its session holds (armIdleReaper, closeSession).
THEOREM SessionsReapable == Spec => []Reapable
<1>1. Inv => Reapable
  <2> SUFFICES ASSUME Inv PROVE Reapable
    OBVIOUS
  <2>1. ASSUME NEW k \in Key, sessions[k] # None, k \notin turnsInFlight, child[sessions[k]].opened,
               ~child[sessions[k]].idleTimer
        PROVE  FALSE
    <3>1. PICK c \in Call : Arming(call[c], k)
      BY <2>1 DEF Inv, GoodState, Good, KeyOK
    <3>2. Holding(call[c]) /\ call[c].key = k
      BY <3>1, Constants DEF Arming, Holding
    <3> QED BY <2>1, <3>2 DEF Inv, GoodState, Good, GuardsOK
  <2>2. ASSUME NEW ch \in Child, child[ch].idleTimer PROVE sessions[child[ch].key] = ch
    BY <2>2 DEF Inv, GoodState, Good, ChildOK
  <2> QED BY <2>1, <2>2 DEF Reapable
<1> QED BY <1>1, Inductive, PTL

=============================================================================
