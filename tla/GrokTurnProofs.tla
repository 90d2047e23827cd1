--------------------------- MODULE GrokTurnProofs ---------------------------
(***************************************************************************)
(* Proofs about the Grok route for any number of DSH sessions, steps and   *)
(* overlapping calls, and histories of any length.                         *)
(***************************************************************************)
EXTENDS GrokTurn, HeardMessagesProofs

Busy(c) == call[c].pc # "idle"

\* A call under way has a number and a vendor session, one that is not has neither.
Numbers ==
  \A c \in Call :
    /\ Busy(c) => call[c].number \in 1..steps /\ call[c].session \in 1..steps
    /\ ~Busy(c) => call[c].session = None
    /\ call[c].pc = "running" => call[c].id # None

\* The conversations that a vendor session is in, or may be told by a turn of it that it
\* is in.  No two vendor sessions share one.
Holds(n, v) ==
  \/ v = session[n].id
  \/ \E c \in Call : call[c].session = n /\ v \in {call[c].id, [asked |-> FALSE, by |-> call[c].number]}
Apart ==
  /\ \A m, n \in 1..steps : \A v \in Conversation : Holds(m, v) /\ Holds(n, v) => m = n
  /\ \A n \in 1..steps : \A v \in Conversation : Holds(n, v) => v.by <= steps
  /\ \A n \in Step : n > steps =>
       session[n].id = [asked |-> TRUE, by |-> n] /\ heard[[asked |-> TRUE, by |-> n]] = <<>>

\* A vendor session is mapped for one DSH session, and used by steps of that one only.
Mapping ==
  \A k \in Key : sessions[k] # None =>
    /\ sessions[k] \in 1..steps
    /\ \A l \in Key : sessions[l] = sessions[k] => l = k
    /\ \A c \in Call : call[c].session = sessions[k] => ~call[c].auxiliary /\ call[c].key = k

\* A vendor session that is not marked has heard what it was told, when nobody uses it, and
\* with the prompt of the one turn that does it will have heard the request of that turn.
Hears ==
  /\ \A k \in Key : sessions[k] # None /\ session[sessions[k]].clean /\ ~InUse(sessions[k]) =>
       Unheard(heard[session[sessions[k]].id]) = Unheard(session[sessions[k]].delivered)
  /\ \A c \in Call : Busy(c) /\ session[call[c].session].clean =>
       /\ \A d \in Call : call[d].session = call[c].session => d = c
       /\ session[call[c].session].signature = call[c].signature
       /\ Unheard(heard[session[call[c].session].id] \o call[c].news) = Unheard(call[c].request)
       /\ call[c].pc = "running" => call[c].id = session[call[c].session].id

Inv == TypeOK /\ Numbers /\ Apart /\ Mapping /\ Hears

-----------------------------------------------------------------------------
(* Types *)

LEMMA Constants ==
  /\ MaxSteps \in Nat /\ None \notin Key /\ None \notin Nat /\ None \notin Step
  /\ AnySignature \in Signature
  /\ None \notin Conversation
  BY BoundAssumption, SentinelAssumption DEF AnySignature, Step, Conversation

LEMMA CallFacts ==
  ASSUME Inv, NEW c \in Call
  PROVE  /\ call[c] \in StepState /\ call[c].news \in Seq(Message) /\ call[c].request \in Seq(Message)
         /\ call[c].signature \in Signature /\ call[c].number \in Nat
         /\ call[c].key \in Key \cup {None} /\ call[c].auxiliary \in BOOLEAN
         /\ Busy(c) => /\ call[c].session \in Step /\ session[call[c].session] \in VendorSession
                       /\ [asked |-> FALSE, by |-> call[c].number] \in Conversation
         /\ call[c].pc = "running" => call[c].id \in Conversation
<1>1. /\ call[c] \in StepState
      /\ Busy(c) => call[c].number \in 1..steps /\ call[c].session \in 1..steps
      /\ call[c].pc = "running" => call[c].id # None
  BY DEF Inv, TypeOK, Numbers
<1>2. /\ call[c].news \in Seq(Message) /\ call[c].request \in Seq(Message)
      /\ call[c].signature \in Signature /\ call[c].number \in Nat
      /\ call[c].key \in Key \cup {None} /\ call[c].auxiliary \in BOOLEAN
      /\ call[c].id \in Conversation \cup {None}
  BY <1>1 DEF StepState
<1>3. ASSUME Busy(c)
      PROVE  /\ call[c].session \in Step /\ session[call[c].session] \in VendorSession
             /\ [asked |-> FALSE, by |-> call[c].number] \in Conversation
  <2>1. 1..steps \subseteq Step
    BY Constants DEF Inv, TypeOK, Step
  <2> QED BY <2>1, <1>1, <1>3 DEF Inv, TypeOK, Conversation
<1> QED BY <1>1, <1>2, <1>3

LEMMA IdleType ==
  /\ Idle \in StepState /\ Idle.pc = "idle" /\ Idle.session = None /\ Idle.id = None
  /\ Idle.news = Idle.request /\ Idle.signature = AnySignature /\ ~Idle.auxiliary
  BY Constants DEF Idle, StepState

LEMMA InitInv == Init => Inv
<1> SUFFICES ASSUME Init PROVE Inv
  OBVIOUS
<1>1. TypeOK
  <2>1. \A n \in Step : Fresh(n, AnySignature) \in VendorSession
    BY Constants DEF Fresh, VendorSession, Conversation
  <2>2. <<>> \in Seq(Message) /\ 0 \in 0..MaxSteps
    BY Constants
  <2> QED BY <2>1, <2>2, IdleType, Constants DEF Init, TypeOK
<1>2. Numbers /\ Mapping /\ Hears
  BY IdleType, Constants DEF Init, Numbers, Mapping, Hears, Busy
<1>3. Apart
  <2>1. \A n \in Step : session[n].id = [asked |-> TRUE, by |-> n]
    BY DEF Init, Fresh
  <2> QED BY <2>1, IdleType, Constants DEF Init, Apart, Conversation
<1> QED BY <1>1, <1>2, <1>3 DEF Inv

-----------------------------------------------------------------------------
(* The end of a turn *)

\* A call that ends leaves a vendor session in a conversation that was its own, has told
\* at most that one something, and forgets a mapping at most.
LEMMA EndPreserves ==
  ASSUME Inv, NEW c \in Call, Busy(c),
         call' = [call EXCEPT ![c] = Idle], UNCHANGED <<steps, disposed>>,
         NEW x \in VendorSession, session' = [session EXCEPT ![call[c].session] = x],
         Holds(call[c].session, x.id), x.clean => session[call[c].session].clean,
         sessions' \in [Key -> Step \cup {None}],
         \A k \in Key : sessions'[k] # None => sessions'[k] = sessions[k],
         NEW v \in Conversation, Holds(call[c].session, v),
         NEW text \in Seq(Message), heard' = [heard EXCEPT ![v] = text],
         history' \in [Key -> Seq(Message)],
         \A k \in Key : sessions'[k] = call[c].session /\ x.clean =>
           Unheard(heard'[x.id]) = Unheard(x.delivered)
  PROVE  Inv'
<1> DEFINE n == call[c].session
<1>1. n \in 1..steps /\ n \in Step /\ n # None /\ steps \in Nat
  <2>1. n \in 1..steps
    BY DEF Inv, Numbers
  <2>2. n \in Step
    BY CallFacts
  <2>3. steps \in Nat
    BY Constants DEF Inv, TypeOK
  <2> QED BY <2>1, <2>2, <2>3, Constants
<1>2. /\ call' \in [Call -> StepState] /\ call'[c] = Idle
      /\ \A d \in Call : d # c => call'[d] = call[d]
      /\ \A d \in Call : Busy(d)' => d # c /\ Busy(d)
  BY IdleType DEF Inv, TypeOK, Busy
<1>3. /\ session'[n] = x
      /\ \A m \in Step : m # n => session'[m] = session[m]
      /\ \A m \in Step : session'[m].clean => session[m].clean
  BY <1>1 DEF Inv, TypeOK
<1>4. TypeOK'
  <2>1. session' \in [Step -> VendorSession] /\ heard' \in [Conversation -> Seq(Message)]
    BY <1>1 DEF Inv, TypeOK
  <2>2. \A k \in Key : sessions'[k] # None => sessions'[k] <= steps'
    BY DEF Inv, TypeOK
  <2> QED BY <2>1, <2>2, <1>2 DEF Inv, TypeOK
<1>5. Numbers'
  BY <1>2, IdleType DEF Inv, Numbers, Busy
<1>6. ASSUME NEW m \in Step, NEW w \in Conversation, Holds(m, w)' PROVE Holds(m, w)
  <2>1. CASE w = session'[m].id
    BY <2>1, <1>3 DEF Holds
  <2>2. CASE \E d \in Call : call'[d].session = m /\ w \in {call'[d].id, [asked |-> FALSE, by |-> call'[d].number]}
    <3>1. PICK d \in Call : call'[d].session = m /\ w \in {call'[d].id, [asked |-> FALSE, by |-> call'[d].number]}
      BY <2>2
    <3>2. d # c
      BY <3>1, <1>2, IdleType, Constants
    <3> QED BY <3>1, <3>2, <1>2 DEF Holds
  <2> QED BY <1>6, <2>1, <2>2 DEF Holds
<1>7. ASSUME NEW m \in 1..steps, m # n, NEW w \in Conversation, Holds(m, w)
      PROVE  heard'[w] = heard[w]
  BY <1>1, <1>7 DEF Inv, Apart, TypeOK
<1>8. \A m \in 1..steps : m \in Step
  BY Constants DEF Inv, TypeOK, Step
<1>9. Apart'
  <2>1. \A m \in Step : m > steps => heard'[[asked |-> TRUE, by |-> m]] = <<>>
    <3>1. v.by <= steps /\ v.by \in Nat
      BY <1>1 DEF Inv, Apart, Conversation, Step
    <3>2. \A m \in Step : [asked |-> TRUE, by |-> m] \in Conversation
      BY DEF Conversation
    <3>3. ASSUME NEW m \in Step, m > steps PROVE v # [asked |-> TRUE, by |-> m]
      BY <3>1, <3>3, <1>1 DEF Step
    <3> QED BY <3>2, <3>3 DEF Inv, Apart, TypeOK
  <2>2. \A m \in Step : m > steps => session'[m].id = [asked |-> TRUE, by |-> m]
    BY <1>1, <1>3 DEF Inv, Apart, Step
  <2> QED BY <2>1, <2>2, <1>6, <1>8 DEF Inv, Apart
<1>10. Mapping'
  BY <1>2, IdleType, Constants DEF Inv, Mapping, TypeOK
<1>11. Hears'
  <2>1. ASSUME NEW m \in 1..steps, m # n
        PROVE  /\ session'[m] = session[m] /\ heard'[session[m].id] = heard[session[m].id]
               /\ InUse(m)' => InUse(m)
    <3>1. session[m].id \in Conversation /\ Holds(m, session[m].id)
      BY <1>8 DEF Holds, Inv, TypeOK, VendorSession
    <3>2. session'[m] = session[m] /\ heard'[session[m].id] = heard[session[m].id]
      BY <3>1, <1>3, <1>7, <1>8, <2>1
    <3>3. InUse(m)' => InUse(m)
      BY <1>2, <1>8, IdleType, Constants DEF InUse
    <3> QED BY <3>2, <3>3
  <2>2. ASSUME NEW m \in 1..steps, m # n, InUse(m) PROVE InUse(m)'
    BY <1>2, <2>2 DEF InUse
  <2>3. ASSUME NEW k \in Key, sessions'[k] # None, session'[sessions'[k]].clean, ~InUse(sessions[k])'
        PROVE  Unheard(heard'[session'[sessions'[k]].id]) = Unheard(session'[sessions'[k]].delivered)
    <3>1. sessions'[k] = sessions[k] /\ sessions[k] \in 1..steps
      BY <2>3 DEF Inv, Mapping
    <3>2. CASE sessions[k] = n
      BY <3>1, <3>2, <2>3, <1>3
    <3>3. CASE sessions[k] # n
      <4>1. session'[sessions[k]] = session[sessions[k]] /\ ~InUse(sessions[k])
            /\ heard'[session[sessions[k]].id] = heard[session[sessions[k]].id]
        BY <3>1, <3>3, <2>1, <2>2, <2>3
      <4> QED BY <4>1, <3>1, <2>3 DEF Inv, Hears
    <3> QED BY <3>2, <3>3
  <2>4. ASSUME NEW d \in Call, Busy(d)', session'[call'[d].session].clean
        PROVE  /\ \A e \in Call : call'[e].session = call'[d].session => e = d
               /\ session'[call'[d].session].signature = call'[d].signature
               /\ Unheard(heard'[session'[call'[d].session].id] \o call'[d].news) = Unheard(call'[d].request)
               /\ call'[d].pc = "running" => call'[d].id = session'[call'[d].session].id
    <3>1. d # c /\ Busy(d) /\ call'[d] = call[d] /\ call[d].session \in 1..steps /\ call[d].session # None
      BY <2>4, <1>2, Constants DEF Inv, Numbers
    <3>2. session[call[d].session].clean
      BY <3>1, <2>4, <1>3, <1>8
    <3>3. call[d].session # n
      BY <3>1, <3>2 DEF Inv, Hears
    <3>4. \A e \in Call : call'[e].session = call'[d].session => e # c /\ call'[e] = call[e]
      BY <3>1, <1>2, IdleType
    <3>5. session'[call[d].session] = session[call[d].session]
          /\ heard'[session[call[d].session].id] = heard[session[call[d].session].id]
      BY <3>1, <3>3, <2>1
    <3>6. /\ \A e \in Call : call[e].session = call[d].session => e = d
          /\ session[call[d].session].signature = call[d].signature
          /\ Unheard(heard[session[call[d].session].id] \o call[d].news) = Unheard(call[d].request)
          /\ call[d].pc = "running" => call[d].id = session[call[d].session].id
      BY <3>1, <3>2 DEF Inv, Hears
    <3> QED BY <3>1, <3>4, <3>5, <3>6
  <2> QED BY <2>3, <2>4 DEF Hears
<1> QED BY <1>4, <1>5, <1>9, <1>10, <1>11 DEF Inv

LEMMA OwnConversations ==
  ASSUME Inv, NEW c \in Call, Busy(c)
  PROVE  LET n == call[c].session IN
         /\ Holds(n, session[n].id) /\ session[n].id \in Conversation
         /\ Holds(n, call[c].id)
         /\ Holds(n, [asked |-> FALSE, by |-> call[c].number])
         /\ [asked |-> FALSE, by |-> call[c].number] \in Conversation
         /\ call[c].pc = "running" => call[c].id \in Conversation
  BY CallFacts DEF Holds, VendorSession

\* What a running turn tells a conversation is text.
LEMMA ToldType ==
  ASSUME Inv, NEW c \in Call, call[c].pc = "running"
  PROVE  heard[call[c].id] \o call[c].news \in Seq(Message)
<1>1. heard[call[c].id] \in Seq(Message) /\ call[c].news \in Seq(Message)
  BY CallFacts DEF Inv, TypeOK
<1> QED BY <1>1, ConcatProperties

LEMMA TurnThrowsPreserves ==
  ASSUME Inv, NEW c \in Call, TurnThrows(c)
  PROVE  Inv'
<1> DEFINE n == call[c].session
           x == [session[n] EXCEPT !.clean = FALSE]
<1>1. /\ Busy(c) /\ call' = [call EXCEPT ![c] = Idle] /\ UNCHANGED <<history, sessions, disposed, steps>>
      /\ session' = [session EXCEPT ![n] = x]
      /\ heard' \in {heard} \cup IF call[c].pc = "running" THEN {Told(c, call[c].id)} ELSE {}
  BY DEF TurnThrows, Busy
<1>2. x \in VendorSession /\ ~x.clean /\ x.id = session[n].id
  BY <1>1, CallFacts DEF VendorSession
<1>3. Holds(n, x.id)
  BY <1>1, <1>2, OwnConversations
<1>4. PICK v \in Conversation, text \in Seq(Message) : Holds(n, v) /\ heard' = [heard EXCEPT ![v] = text]
  <2>1. CASE heard' = heard
    <3>1. session[n].id \in Conversation /\ Holds(n, session[n].id)
      BY <1>1, OwnConversations
    <3>2. heard[session[n].id] \in Seq(Message) /\ heard' = [heard EXCEPT ![session[n].id] = heard[session[n].id]]
      BY <2>1, <3>1 DEF Inv, TypeOK
    <3> QED BY <3>1, <3>2
  <2>2. CASE call[c].pc = "running" /\ heard' = Told(c, call[c].id)
    BY <1>1, <2>2, OwnConversations, ToldType DEF Told
  <2> QED BY <1>1, <2>1, <2>2
<1>5. sessions' \in [Key -> Step \cup {None}] /\ history' \in [Key -> Seq(Message)]
  BY <1>1 DEF Inv, TypeOK
<1> HIDE DEF x
<1> QED BY <1>1, <1>2, <1>3, <1>4, <1>5, EndPreserves

LEMMA TurnRejectedPreserves ==
  ASSUME Inv, NEW c \in Call, TurnRejected(c)
  PROVE  Inv'
<1> DEFINE n == call[c].session
           x == session[n]
<1>1. /\ Busy(c) /\ call[c].pc = "running"
      /\ call' = [call EXCEPT ![c] = Idle] /\ UNCHANGED <<history, session, disposed, steps>>
      /\ heard' = [heard EXCEPT ![call[c].id] = heard[call[c].id] \o call[c].news]
      /\ Forget(c)
  BY DEF TurnRejected, Told, Busy
<1>2. x \in VendorSession /\ n \in Step /\ session' = [session EXCEPT ![n] = x]
  BY <1>1, CallFacts DEF Inv, TypeOK
<1>3. /\ Holds(n, x.id) /\ Holds(n, call[c].id) /\ call[c].id \in Conversation
      /\ heard[call[c].id] \o call[c].news \in Seq(Message)
  BY <1>1, OwnConversations, ToldType
<1>4. /\ sessions' \in [Key -> Step \cup {None}]
      /\ \A k \in Key : sessions'[k] # None => sessions'[k] = sessions[k]
  BY <1>1 DEF Forget, Inv, TypeOK
<1>5. \A k \in Key : sessions'[k] # n
  <2>1. \A k \in Key : sessions[k] = n => k = call[c].key
    BY <1>2, Constants DEF Inv, Mapping
  <2> QED BY <2>1, <1>1, <1>2, <1>4, Constants DEF Forget, Inv, TypeOK
<1>6. history' \in [Key -> Seq(Message)]
  BY <1>1 DEF Inv, TypeOK
<1>7. x.clean => session[n].clean
  OBVIOUS
<1> DEFINE text == heard[call[c].id] \o call[c].news
<1>8. text \in Seq(Message) /\ heard' = [heard EXCEPT ![call[c].id] = text]
  BY <1>1, <1>3
<1> HIDE DEF x, text
<1>9. \A k \in Key : sessions'[k] = n /\ x.clean => Unheard(heard'[x.id]) = Unheard(x.delivered)
  BY <1>5
<1>10. UNCHANGED <<steps, disposed>> /\ call' = [call EXCEPT ![c] = Idle] /\ Busy(c)
  BY <1>1
<1> QED BY <1>2, <1>3, <1>4, <1>6, <1>7, <1>8, <1>9, <1>10, EndPreserves

LEMMA TurnSucceedsPreserves ==
  ASSUME Inv, NEW c \in Call, TurnSucceeds(c)
  PROVE  Inv'
<1> DEFINE n == call[c].session
<1>1. /\ Busy(c) /\ call[c].pc = "running"
      /\ call' = [call EXCEPT ![c] = Idle] /\ UNCHANGED <<sessions, disposed, steps>>
  BY DEF TurnSucceeds, Busy
<1>2. /\ session[n] \in VendorSession /\ n \in Step /\ n # None
      /\ call[c].request \in Seq(Message) /\ call[c].number \in Step /\ call[c].key \in Key \cup {None}
  BY <1>1, CallFacts, Constants DEF Conversation
<1>3. PICK reported \in {None, call[c].id, [asked |-> FALSE, by |-> call[c].number]} :
        Commit(c, reported) /\ heard' = Told(c, IF reported = None THEN call[c].id ELSE reported)
  BY DEF TurnSucceeds
<1> DEFINE v == IF reported = None THEN call[c].id ELSE reported
           id == IF reported # None THEN reported ELSE session[n].id
           text == heard[call[c].id] \o call[c].news
           x == IF call[c].auxiliary THEN session[n]
                ELSE [session[n] EXCEPT !.delivered = call[c].request, !.id = id]
<1>4. v \in Conversation /\ Holds(n, v) /\ id \in Conversation /\ Holds(n, id) /\ Holds(n, session[n].id)
  BY <1>1, OwnConversations
<1>5. text \in Seq(Message) /\ heard' = [heard EXCEPT ![v] = text]
  BY <1>1, <1>3, ToldType DEF Told
<1>6. x \in VendorSession /\ Holds(n, x.id) /\ x.clean = session[n].clean
  BY <1>2, <1>4 DEF VendorSession
<1>7. session' = [session EXCEPT ![n] = x]
  <2>1. CASE call[c].auxiliary
    BY <2>1, <1>2, <1>3 DEF Commit, Inv, TypeOK
  <2>2. CASE ~call[c].auxiliary
    <3>1. session' = Delivering(c, id)
      BY <2>2, <1>3 DEF Commit
    <3> QED BY <3>1, <2>2, <1>2 DEF Delivering, Inv, TypeOK, VendorSession
  <2> QED BY <2>1, <2>2
<1>8. ASSUME NEW k \in Key, sessions'[k] = n, x.clean
      PROVE  Unheard(heard'[x.id]) = Unheard(x.delivered)
  <2>1. ~call[c].auxiliary
    BY <1>1, <1>2, <1>8 DEF Inv, Mapping
  <2>2. x.delivered = call[c].request /\ x.id = id
    BY <2>1, <1>2 DEF VendorSession
  <2>3. call[c].id = session[n].id /\ Unheard(heard[session[n].id] \o call[c].news) = Unheard(call[c].request)
    BY <1>1, <1>6, <1>8 DEF Inv, Hears
  <2>4. id = v
    BY <2>3
  <2>5. heard'[v] = text
    BY <1>4, <1>5 DEF Inv, TypeOK
  <2> QED BY <2>2, <2>3, <2>4, <2>5
<1>9. history' \in [Key -> Seq(Message)]
  <2>1. [kind |-> "own", id |-> call[c].number] \in Message
    BY <1>2 DEF Message
  <2>2. ASSUME NEW k \in Key PROVE Append(history[k], [kind |-> "own", id |-> call[c].number]) \in Seq(Message)
    BY <2>1, AppendProperties DEF Inv, TypeOK
  <2> QED BY <2>2 DEF TurnSucceeds, Inv, TypeOK
<1>10. sessions' \in [Key -> Step \cup {None}]
  BY <1>1 DEF Inv, TypeOK
<1> HIDE DEF x, v, id, text
<1> QED BY <1>1, <1>4, <1>5, <1>6, <1>7, <1>8, <1>9, <1>10, EndPreserves

-----------------------------------------------------------------------------
(* The middle of a turn *)

LEMMA PromptWrittenPreserves ==
  ASSUME Inv, NEW c \in Call, PromptWritten(c)
  PROVE  Inv'
<1> DEFINE n == call[c].session
           next == [call[c] EXCEPT !.pc = "running", !.id = session[n].id]
<1>1. /\ Busy(c) /\ call' = [call EXCEPT ![c] = next]
      /\ UNCHANGED <<history, sessions, session, heard, disposed, steps>>
  BY DEF PromptWritten, Busy
<1>2. session[n].id \in Conversation /\ session[n].id # None
  BY <1>1, OwnConversations, Constants
<1>3. /\ next \in StepState /\ next.pc = "running" /\ next.id = session[n].id
      /\ next.session = n /\ next.number = call[c].number /\ next.key = call[c].key
      /\ next.auxiliary = call[c].auxiliary /\ next.signature = call[c].signature
      /\ next.news = call[c].news /\ next.request = call[c].request
  BY <1>1, <1>2, CallFacts DEF StepState
<1> HIDE DEF next
<1>4. call' \in [Call -> StepState] /\ call'[c] = next /\ \A d \in Call : d # c => call'[d] = call[d]
  BY <1>1, <1>3 DEF Inv, TypeOK
<1>5. \A d \in Call : /\ call'[d].session = call[d].session /\ call'[d].number = call[d].number
                      /\ Busy(d)' <=> Busy(d)
  BY <1>1, <1>3, <1>4 DEF Busy
<1>6. TypeOK'
  BY <1>1, <1>4 DEF Inv, TypeOK
<1>7. Numbers'
  BY <1>1, <1>2, <1>3, <1>4, <1>5 DEF Inv, Numbers
<1>8. \A m, v : Holds(m, v)' => Holds(m, v)
  BY <1>1, <1>3, <1>4, <1>5 DEF Holds
<1>9. Apart'
  BY <1>1, <1>8 DEF Inv, Apart
<1>10. Mapping'
  BY <1>1, <1>3, <1>4, <1>5 DEF Inv, Mapping
<1>11. Hears'
  <2>1. \A m : InUse(m)' <=> InUse(m)
    BY <1>5 DEF InUse
  <2>2. ASSUME NEW d \in Call, Busy(d), session[call[d].session].clean
        PROVE  /\ session[call[d].session].signature = call'[d].signature
               /\ Unheard(heard[session[call[d].session].id] \o call'[d].news) = Unheard(call'[d].request)
               /\ call'[d].pc = "running" => call'[d].id = session[call[d].session].id
    BY <2>2, <1>3, <1>4 DEF Inv, Hears
  <2> QED BY <2>1, <2>2, <1>1, <1>5 DEF Inv, Hears
<1> QED BY <1>6, <1>7, <1>9, <1>10, <1>11 DEF Inv

-----------------------------------------------------------------------------
(* The start of a turn *)

\* A step that finds its prompt is under way; one whose prompt cannot be serialized has
\* ended already.
Begins(c, next, n) ==
  /\ next \in StepState /\ call' = [call EXCEPT ![c] = next]
  /\ next.id = None
  /\ \/ next.pc = "idle" /\ next.session = None
     \/ next.pc = "writing" /\ next.session = n /\ next.number = steps + 1

LEMMA BeginFacts ==
  ASSUME Inv, NEW c \in Call, ~Busy(c), steps < MaxSteps, steps' = steps + 1,
         NEW n \in 1..(steps + 1), NEW next, Begins(c, next, n)
  PROVE  /\ call' \in [Call -> StepState] /\ call'[c] = next
         /\ \A d \in Call : d # c => call'[d] = call[d]
         /\ call[c].session = None
         /\ \A d \in Call : Busy(d)' <=> IF d = c THEN next.pc = "writing" ELSE Busy(d)
         /\ steps \in Nat /\ steps + 1 \in Step /\ steps' \in 0..MaxSteps
         /\ n \in Step /\ 1..(steps + 1) \subseteq Step /\ n # None
         /\ Numbers'
<1>1. /\ call' \in [Call -> StepState] /\ call'[c] = next
      /\ \A d \in Call : d # c => call'[d] = call[d]
      /\ next.pc \in {"idle", "writing"} /\ next.id = None
      /\ next.pc = "idle" => next.session = None
      /\ next.pc = "writing" => next.session = n /\ next.number = steps + 1
  BY DEF Begins, Inv, TypeOK
<1>2. call[c].session = None
  BY DEF Inv, Numbers
<1>3. \A d \in Call : Busy(d)' <=> IF d = c THEN next.pc = "writing" ELSE Busy(d)
  BY <1>1 DEF Busy
<1>4. /\ steps \in Nat /\ steps + 1 \in Step /\ steps' \in 0..MaxSteps
      /\ n \in Step /\ 1..(steps + 1) \subseteq Step /\ n # None
  BY Constants DEF Inv, TypeOK, Step
<1>5. Numbers'
  <2>1. ASSUME NEW d \in Call, d # c
        PROVE  /\ Busy(d)' => call'[d].number \in 1..steps' /\ call'[d].session \in 1..steps'
               /\ ~Busy(d)' => call'[d].session = None
               /\ call'[d].pc = "running" => call'[d].id # None
    <3>1. \A i \in 1..steps : i \in 1..steps'
      BY <1>4
    <3> QED BY <3>1, <2>1, <1>1, <1>3 DEF Inv, Numbers
  <2>2. /\ Busy(c)' => call'[c].number \in 1..steps' /\ call'[c].session \in 1..steps'
        /\ ~Busy(c)' => call'[c].session = None
        /\ call'[c].pc = "running" => call'[c].id # None
    BY <1>1, <1>3, <1>4
  <2> QED BY <2>1, <2>2 DEF Numbers
<1> QED BY <1>1, <1>2, <1>3, <1>4, <1>5

\* A vendor session of its own, mapped for a DSH session or not at all.
LEMMA OpenPreserves ==
  ASSUME Inv, NEW c \in Call, ~Busy(c), steps < MaxSteps, steps' = steps + 1,
         NEW n \in Nat, n = steps + 1, NEW next, Begins(c, next, n),
         NEW signature \in Signature, next.pc = "writing" => next.signature = signature,
         session' = [session EXCEPT ![n] = Fresh(n, signature)],
         next.pc = "writing" => Unheard(next.news) = Unheard(next.request),
         \/ sessions' = sessions
         \/ \E k \in Key : /\ sessions' = [sessions EXCEPT ![k] = n]
                           /\ next.pc = "writing" => next.key = k /\ ~next.auxiliary,
         history' \in [Key -> Seq(Message)], UNCHANGED <<heard, disposed>>
  PROVE  Inv'
<1>0. n \in 1..(steps + 1) /\ ~(n \in 1..steps) /\ ~(n <= steps) /\ steps \in Nat
  BY Constants DEF Inv, TypeOK
<1>1. /\ call' \in [Call -> StepState] /\ call'[c] = next
      /\ \A d \in Call : d # c => call'[d] = call[d]
      /\ call[c].session = None
      /\ \A d \in Call : Busy(d)' <=> IF d = c THEN next.pc = "writing" ELSE Busy(d)
      /\ n \in Step /\ steps' \in 0..MaxSteps /\ 1..(steps + 1) \subseteq Step
      /\ Numbers'
  BY <1>0, BeginFacts
<1>2. /\ Fresh(n, signature) \in VendorSession /\ Fresh(n, signature).delivered = <<>>
      /\ Fresh(n, signature).id = [asked |-> TRUE, by |-> n] /\ Fresh(n, signature).signature = signature
      /\ [asked |-> TRUE, by |-> n] \in Conversation
  BY <1>1 DEF Fresh, VendorSession, Conversation
<1>3. /\ session' \in [Step -> VendorSession] /\ session'[n] = Fresh(n, signature)
      /\ \A m \in Step : m # n => session'[m] = session[m]
  BY <1>1, <1>2 DEF Inv, TypeOK
<1>4. /\ next.pc \in {"idle", "writing"} /\ next.id = None /\ next \in StepState
      /\ next.pc = "idle" => next.session = None
      /\ next.pc = "writing" => next.session = n /\ next.number = n
  BY DEF Begins
<1>5. /\ sessions' \in [Key -> Step \cup {None}]
      /\ \A k \in Key : sessions'[k] # sessions[k] =>
           /\ sessions'[k] = n
           /\ next.pc = "writing" => next.key = k /\ ~next.auxiliary
           /\ \A l \in Key : l # k => sessions'[l] = sessions[l]
  BY <1>1 DEF Inv, TypeOK
<1>6. \A k \in Key : sessions[k] # None => sessions[k] \in 1..steps /\ sessions[k] # n
  BY <1>0 DEF Inv, Mapping
<1>7. TypeOK'
  <2>1. \A k \in Key : sessions'[k] # None => sessions'[k] <= steps'
    BY <1>0, <1>5, <1>6
  <2> QED BY <2>1, <1>1, <1>3, <1>5 DEF Inv, TypeOK
<1>8. \A d \in Call : Busy(d) => d # c /\ call'[d] = call[d] /\ call[d].session \in 1..steps /\ call[d].session # n
                                 /\ call[d].session # None
  BY <1>0, <1>1, Constants DEF Inv, Numbers
<1>9. heard[[asked |-> TRUE, by |-> n]] = <<>>
  BY <1>0, <1>1 DEF Inv, Apart
<1>10. Apart'
  <2>1. ASSUME NEW m \in 1..steps, NEW v \in Conversation, Holds(m, v)' PROVE Holds(m, v)
    <3>1. m \in Step /\ m # n /\ session'[m] = session[m] /\ m # None
      BY <1>0, <1>1, <1>3, Constants
    <3>2. \A d \in Call : call'[d].session = m => d # c /\ call'[d] = call[d]
      BY <3>1, <1>1, <1>4
    <3> QED BY <3>1, <3>2, <2>1 DEF Holds
  <2>2. ASSUME NEW v \in Conversation, Holds(n, v)' PROVE v.by = n
    <3>1. \A d \in Call : call'[d].session = n => d = c
      BY <1>0, <1>1, <1>8, Constants DEF Inv, Numbers, Step
    <3>2. v = session'[n].id \/ v = next.id \/ v = [asked |-> FALSE, by |-> next.number]
      BY <3>1, <2>2, <1>1 DEF Holds
    <3>3. CASE v = session'[n].id
      BY <3>3, <1>2, <1>3
    <3>4. CASE v = next.id
      BY <3>4, <1>4, Constants
    <3>5. CASE v = [asked |-> FALSE, by |-> next.number] /\ v # session'[n].id
      <4>1. \E d \in Call : call'[d].session = n
        BY <3>5, <2>2 DEF Holds
      <4>2. next.session = n /\ n # None
        BY <4>1, <3>1, <1>1, Constants
      <4> QED BY <4>2, <3>5, <1>4
    <3> QED BY <3>2, <3>3, <3>4, <3>5
  <2>3. \A m \in 1..steps' : m \in 1..steps \/ m = n
    BY <1>0
  <2>4. \A m \in 1..steps, v \in Conversation : Holds(m, v)' => v.by # n
    BY <2>1, <1>0 DEF Inv, Apart
  <2>5. \A m1, m2 \in 1..steps' : \A v \in Conversation : Holds(m1, v)' /\ Holds(m2, v)' => m1 = m2
    BY <2>1, <2>2, <2>3, <2>4 DEF Inv, Apart
  <2>6. \A m \in 1..steps' : \A v \in Conversation : Holds(m, v)' => v.by <= steps'
    <3>1. \A v \in Conversation : v.by \in Nat
      BY DEF Conversation, Step
    <3> QED BY <3>1, <2>1, <2>2, <2>3, <1>0 DEF Inv, Apart
  <2>7. \A m \in Step : m > steps' =>
          session'[m].id = [asked |-> TRUE, by |-> m] /\ heard'[[asked |-> TRUE, by |-> m]] = <<>>
    BY <1>0, <1>3 DEF Inv, Apart, Step
  <2> QED BY <2>5, <2>6, <2>7 DEF Apart
<1>11. Mapping'
  <2> SUFFICES ASSUME NEW k \in Key, sessions'[k] # None
               PROVE  /\ sessions'[k] \in 1..steps'
                      /\ \A l \in Key : sessions'[l] = sessions'[k] => l = k
                      /\ \A d \in Call : call'[d].session = sessions'[k] => ~call'[d].auxiliary /\ call'[d].key = k
    BY DEF Mapping
  <2>1. CASE sessions'[k] = sessions[k]
    <3>1. sessions[k] \in 1..steps /\ sessions[k] # n
      BY <2>1, <1>6
    <3>2. \A d \in Call : call'[d].session = sessions[k] => d # c /\ call'[d] = call[d]
      BY <2>1, <3>1, <1>1, <1>4
    <3>3. \A l \in Key : sessions'[l] = sessions[k] => sessions'[l] = sessions[l]
      BY <3>1, <1>5
    <3> QED BY <2>1, <3>1, <3>2, <3>3, <1>0 DEF Inv, Mapping
  <2>2. CASE sessions'[k] # sessions[k]
    <3>1. /\ sessions'[k] = n /\ \A l \in Key : l # k => sessions'[l] = sessions[l]
          /\ next.pc = "writing" => next.key = k /\ ~next.auxiliary
      BY <2>2, <1>5
    <3>2. \A d \in Call : call'[d].session = n => d = c /\ next.pc = "writing"
      BY <1>0, <1>1, <1>4, <1>8, Constants DEF Inv, Numbers, Step
    <3> QED BY <3>1, <3>2, <1>0, <1>1, <1>6, Constants DEF Step
  <2> QED BY <2>1, <2>2
<1>12. Hears'
  <2>1. \A m \in 1..steps : session'[m] = session[m] /\ (InUse(m)' <=> InUse(m))
    <3>1. ASSUME NEW m \in 1..steps PROVE m # n /\ m \in Step /\ m # None
      BY <1>0, <1>1, Constants
    <3> QED BY <3>1, <1>1, <1>3, <1>4 DEF InUse
  <2>2. ASSUME NEW k \in Key, sessions'[k] # None, session'[sessions'[k]].clean, ~InUse(sessions[k])',
               sessions'[k] = sessions[k]
        PROVE  Unheard(heard'[session'[sessions'[k]].id]) = Unheard(session'[sessions'[k]].delivered)
    BY <2>1, <2>2, <1>6 DEF Inv, Hears
  <2>3. ASSUME NEW k \in Key, sessions'[k] # None, sessions'[k] # sessions[k]
        PROVE  Unheard(heard'[session'[sessions'[k]].id]) = Unheard(session'[sessions'[k]].delivered)
    BY <2>3, <1>2, <1>3, <1>5, <1>9
  <2>4. ASSUME NEW d \in Call, d # c, Busy(d)', session'[call'[d].session].clean
        PROVE  /\ \A e \in Call : call'[e].session = call'[d].session => e = d
               /\ session'[call'[d].session].signature = call'[d].signature
               /\ Unheard(heard'[session'[call'[d].session].id] \o call'[d].news) = Unheard(call'[d].request)
               /\ call'[d].pc = "running" => call'[d].id = session'[call'[d].session].id
    <3>1. Busy(d) /\ call'[d] = call[d] /\ call[d].session \in 1..steps /\ call[d].session # n /\ call[d].session # None
      BY <2>4, <1>1, <1>8
    <3>2. session'[call[d].session] = session[call[d].session]
      BY <3>1, <2>1
    <3>3. \A e \in Call : call'[e].session = call[d].session => call[e].session = call[d].session
      BY <3>1, <1>1, <1>4
    <3> QED BY <3>1, <3>2, <3>3, <2>4 DEF Inv, Hears
  <2>5. ASSUME Busy(c)'
        PROVE  /\ \A e \in Call : call'[e].session = call'[c].session => e = c
               /\ session'[call'[c].session].signature = call'[c].signature
               /\ Unheard(heard'[session'[call'[c].session].id] \o call'[c].news) = Unheard(call'[c].request)
               /\ call'[c].pc # "running"
    <3>1. next.pc = "writing" /\ next.session = n /\ n # None
      BY <2>5, <1>1, <1>4, Constants
    <3>2. next.news \in Seq(Message) /\ <<>> \o next.news = next.news
      <4>1. next.news \in Seq(Message)
        BY <1>4 DEF StepState
      <4> QED BY <4>1
    <3>3. \A e \in Call : call'[e].session = n => e = c
      BY <3>1, <1>0, <1>1, <1>8 DEF Inv, Numbers
    <3>4. heard'[session'[n].id] \o next.news = next.news
      BY <3>2, <1>2, <1>3, <1>9
    <3> QED BY <3>1, <3>3, <3>4, <1>1, <1>2, <1>3
  <2> QED BY <2>2, <2>3, <2>4, <2>5 DEF Hears
<1> QED BY <1>1, <1>7, <1>10, <1>11, <1>12 DEF Inv

\* A step on the vendor session that is mapped, which it marks if another one uses it.
LEMMA ContinuePreserves ==
  ASSUME Inv, NEW c \in Call, ~Busy(c), steps < MaxSteps, steps' = steps + 1,
         NEW k \in Key, NEW n \in Step, n = sessions[k],
         NEW next, Begins(c, next, n),
         next.pc = "writing" =>
           /\ next.key = k /\ ~next.auxiliary /\ next.signature = session[n].signature
           /\ session[n].clean /\ ~InUse(n) =>
                Unheard(heard[session[n].id] \o next.news) = Unheard(next.request),
         session' = IF InUse(n) THEN [session EXCEPT ![n].clean = FALSE] ELSE session,
         history' \in [Key -> Seq(Message)], UNCHANGED <<sessions, heard, disposed>>
  PROVE  Inv'
<1>0. n \in 1..steps /\ n \in 1..(steps + 1) /\ steps \in Nat /\ n # None
  BY Constants DEF Inv, TypeOK, Mapping
<1>1. /\ call' \in [Call -> StepState] /\ call'[c] = next
      /\ \A d \in Call : d # c => call'[d] = call[d]
      /\ call[c].session = None
      /\ \A d \in Call : Busy(d)' <=> IF d = c THEN next.pc = "writing" ELSE Busy(d)
      /\ steps' \in 0..MaxSteps /\ 1..(steps + 1) \subseteq Step
      /\ Numbers'
  BY <1>0, BeginFacts
<1>2. /\ next.pc \in {"idle", "writing"} /\ next.id = None /\ next \in StepState
      /\ next.pc = "idle" => next.session = None
      /\ next.pc = "writing" => next.session = n /\ next.number = steps + 1
  BY DEF Begins
<1>3. /\ session' \in [Step -> VendorSession]
      /\ \A m \in Step : /\ session'[m].id = session[m].id
                         /\ session'[m].signature = session[m].signature
                         /\ session'[m].delivered = session[m].delivered
                         /\ session'[m].clean => session[m].clean
                         /\ m # n \/ ~InUse(n) => session'[m] = session[m]
      /\ InUse(n) => ~session'[n].clean
  <2>1. [session[n] EXCEPT !.clean = FALSE] \in VendorSession
    BY DEF Inv, TypeOK, VendorSession
  <2>2. CASE InUse(n)
    <3>1. session' = [session EXCEPT ![n] = [session[n] EXCEPT !.clean = FALSE]]
      BY <2>2 DEF Inv, TypeOK
    <3> QED BY <3>1, <2>1, <2>2 DEF Inv, TypeOK, VendorSession
  <2>3. CASE ~InUse(n)
    BY <2>3 DEF Inv, TypeOK
  <2> QED BY <2>2, <2>3
<1>4. TypeOK'
  <2>1. \A j \in Key : sessions[j] # None => sessions[j] <= steps'
    BY <1>0 DEF Inv, Mapping
  <2> QED BY <2>1, <1>1, <1>3 DEF Inv, TypeOK
<1>5. \A d \in Call : Busy(d) => d # c /\ call'[d] = call[d] /\ call[d].session \in 1..steps
                                 /\ call[d].session # None
  BY <1>0, <1>1, Constants DEF Inv, Numbers
<1>6. Apart'
  <2>1. ASSUME NEW m \in 1..steps, NEW v \in Conversation, Holds(m, v)'
        PROVE  Holds(m, v) \/ (m = n /\ v = [asked |-> FALSE, by |-> steps + 1])
    <3>1. m \in Step /\ session'[m].id = session[m].id /\ m # None
      BY <1>0, <1>1, <1>3, Constants
    <3>2. CASE v = session[m].id
      BY <3>2 DEF Holds
    <3>3. CASE v # session[m].id
      <4>1. PICK d \in Call : call'[d].session = m /\ v \in {call'[d].id, [asked |-> FALSE, by |-> call'[d].number]}
        BY <2>1, <3>1, <3>3 DEF Holds
      <4>2. CASE d = c
        BY <4>1, <4>2, <3>1, <1>1, <1>2, Constants
      <4>3. CASE d # c
        BY <4>1, <4>3, <1>1 DEF Holds
      <4> QED BY <4>2, <4>3
    <3> QED BY <3>2, <3>3
  <2>2. ASSUME NEW m \in Step, m = steps + 1, NEW v \in Conversation, Holds(m, v)'
        PROVE  v = [asked |-> TRUE, by |-> steps + 1]
    <3>1. \A d \in Call : call'[d].session # m
      <4>1. m # None /\ ~(m \in 1..steps) /\ m # n
        BY <2>2, <1>0, Constants
      <4> QED BY <4>1, <1>1, <1>2, <1>5 DEF Inv, Numbers
    <3>2. v = session[m].id
      BY <3>1, <2>2, <1>3 DEF Holds
    <3> QED BY <3>2, <2>2, <1>0 DEF Inv, Apart
  <2>3. ASSUME NEW m \in 1..steps', m # steps + 1 PROVE m \in 1..steps
    BY <2>3, <1>0
  <2>4. \A v \in Conversation : v.by \in Nat
    BY DEF Conversation, Step
  <2>5. ASSUME NEW m \in 1..steps', NEW v \in Conversation, Holds(m, v)'
        PROVE  \/ m \in 1..steps /\ Holds(m, v) /\ v.by <= steps
               \/ m = n /\ v = [asked |-> FALSE, by |-> steps + 1]
               \/ m = steps + 1 /\ v = [asked |-> TRUE, by |-> steps + 1]
    <3>1. CASE m = steps + 1
      BY <3>1, <2>2, <2>5, <1>1
    <3>2. CASE m # steps + 1
      <4>1. m \in 1..steps
        BY <3>2, <2>3
      <4>2. Holds(m, v) => v.by <= steps
        BY <4>1 DEF Inv, Apart
      <4> QED BY <4>1, <4>2, <2>1, <2>5
    <3> QED BY <3>1, <3>2
  <2>6. ASSUME NEW l \in 1..steps', NEW m \in 1..steps', NEW v \in Conversation, Holds(l, v)', Holds(m, v)'
        PROVE  l = m
    <3>1. CASE v.by <= steps
      <4>1. v # [asked |-> FALSE, by |-> steps + 1] /\ v # [asked |-> TRUE, by |-> steps + 1]
        BY <3>1, <1>0
      <4> QED BY <4>1, <2>5, <2>6 DEF Inv, Apart
    <3>2. CASE ~(v.by <= steps)
      BY <3>2, <2>5, <2>6
    <3> QED BY <3>1, <3>2
  <2>7. ASSUME NEW m \in 1..steps', NEW v \in Conversation, Holds(m, v)'
        PROVE  v.by <= steps'
    BY <2>4, <2>5, <2>7, <1>0
  <2>8. \A m \in Step : m > steps' =>
          session'[m].id = [asked |-> TRUE, by |-> m] /\ heard'[[asked |-> TRUE, by |-> m]] = <<>>
    BY <1>0, <1>3 DEF Inv, Apart, Step
  <2> QED BY <2>6, <2>7, <2>8 DEF Apart
<1>7. Mapping'
  <2> SUFFICES ASSUME NEW j \in Key, sessions[j] # None
               PROVE  /\ sessions[j] \in 1..steps'
                      /\ \A l \in Key : sessions[l] = sessions[j] => l = j
                      /\ \A d \in Call : call'[d].session = sessions[j] => ~call'[d].auxiliary /\ call'[d].key = j
    BY DEF Mapping
  <2>1. /\ sessions[j] \in 1..steps /\ \A l \in Key : sessions[l] = sessions[j] => l = j
        /\ \A d \in Call : call[d].session = sessions[j] => ~call[d].auxiliary /\ call[d].key = j
    BY DEF Inv, Mapping
  <2>2. call'[c].session = sessions[j] => ~call'[c].auxiliary /\ call'[c].key = j
    BY <2>1, <1>1, <1>2
  <2> QED BY <2>1, <2>2, <1>0, <1>1
<1>8. Hears'
  <2>1. \A m \in Step : InUse(m) => InUse(m)'
    BY <1>1, Constants DEF InUse
  <2>2. ASSUME NEW j \in Key, sessions[j] # None, session'[sessions[j]].clean, ~InUse(sessions[j])'
        PROVE  Unheard(heard[session'[sessions[j]].id]) = Unheard(session'[sessions[j]].delivered)
    <3>1. sessions[j] \in Step
      BY <2>2 DEF Inv, TypeOK
    <3>2. ~InUse(sessions[j])
      <4>1. ASSUME NEW d \in Call, call[d].session = sessions[j] PROVE FALSE
        <5>1. d # c /\ call'[d].session = sessions[j]
          BY <4>1, <3>1, <1>1, Constants
        <5> QED BY <5>1, <2>2 DEF InUse
      <4> QED BY <4>1 DEF InUse
    <3> QED BY <3>1, <3>2, <2>2, <1>3 DEF Inv, Hears
  <2>3. ASSUME NEW d \in Call, d # c, Busy(d)', session'[call'[d].session].clean
        PROVE  /\ \A e \in Call : call'[e].session = call'[d].session => e = d
               /\ session'[call'[d].session].signature = call'[d].signature
               /\ Unheard(heard[session'[call'[d].session].id] \o call'[d].news) = Unheard(call'[d].request)
               /\ call'[d].pc = "running" => call'[d].id = session'[call'[d].session].id
    <3>1. Busy(d) /\ call'[d] = call[d] /\ call[d].session \in Step
      BY <2>3, <1>1, CallFacts
    <3>2. session[call[d].session].clean
      BY <3>1, <2>3, <1>3
    <3>3. call[d].session # n
      BY <3>1, <2>3, <1>3 DEF InUse
    <3>4. /\ \A e \in Call : call[e].session = call[d].session => e = d
          /\ session[call[d].session].signature = call[d].signature
          /\ Unheard(heard[session[call[d].session].id] \o call[d].news) = Unheard(call[d].request)
          /\ call[d].pc = "running" => call[d].id = session[call[d].session].id
      BY <3>1, <3>2 DEF Inv, Hears
    <3>5. \A e \in Call : call'[e].session = call[d].session => call[e].session = call[d].session
      BY <3>1, <3>3, <1>1, <1>2, Constants
    <3> QED BY <3>1, <3>3, <3>4, <3>5, <1>3
  <2>4. ASSUME Busy(c)', session'[call'[c].session].clean
        PROVE  /\ \A e \in Call : call'[e].session = call'[c].session => e = c
               /\ session'[call'[c].session].signature = call'[c].signature
               /\ Unheard(heard[session'[call'[c].session].id] \o call'[c].news) = Unheard(call'[c].request)
               /\ call'[c].pc # "running"
    <3>1. next.pc = "writing" /\ next.session = n
      BY <2>4, <1>1, <1>2
    <3>2. ~InUse(n) /\ session[n].clean
      BY <3>1, <2>4, <1>1, <1>3
    <3>3. \A e \in Call : call'[e].session = n => e = c
      BY <3>2, <1>1 DEF InUse
    <3> QED BY <3>1, <3>2, <3>3, <1>1, <1>3
  <2> QED BY <2>2, <2>3, <2>4 DEF Hears
<1> QED BY <1>1, <1>4, <1>6, <1>7, <1>8 DEF Inv

\* What DSH asks with is a history.
LEMMA RequestsType ==
  ASSUME Inv, steps < MaxSteps, NEW k \in Key
  PROVE  /\ Requests(history[k]) \subseteq Seq(Message)
         /\ Grown(history[k], "text") \in Seq(Message)
<1> DEFINE messages == history[k]
           summary == [kind |-> "text", id |-> steps + 1]
           kept == SubSeq(messages, 1, Len(messages) - 1)
<1>1. messages \in Seq(Message) /\ steps + 1 \in Step
  BY Constants DEF Inv, TypeOK, Step
<1>2. /\ \A kind \in Kind : [kind |-> kind, id |-> steps + 1] \in Message
      /\ summary \in Message
  BY <1>1, KindAssumption DEF Message
<1>3. kept \in Seq(Message) /\ (messages # <<>> => [messages EXCEPT ![1] = summary] \in Seq(Message))
  <2>1. kept \in Seq(Message)
    BY <1>1
  <2>2. ASSUME messages # <<>> PROVE [messages EXCEPT ![1] = summary] \in Seq(Message)
    <3>1. 1 \in 1..Len(messages)
      BY <1>1, <2>2
    <3> QED BY <3>1, <1>1, <1>2, ExceptSeq
  <2> QED BY <2>1, <2>2
<1>4. \A m \in Seq(Message), kind \in Kind \cup {"text"} : Grown(m, kind) \in Seq(Message)
  BY <1>2, AppendProperties DEF Grown
<1>5. <<summary>> \in Seq(Message)
  BY <1>2
<1> QED BY <1>1, <1>3, <1>4, <1>5 DEF Requests

LEMMA StreamPreserves ==
  ASSUME Inv, NEW c \in Call, NEW k \in Key, NEW request \in Seq(Message), NEW signature \in Signature,
         Stream(c, k, request, signature)
  PROVE  Inv'
<1> DEFINE step == [Idle EXCEPT !.pc = "writing", !.key = k, !.request = request,
                                !.signature = signature, !.number = steps + 1]
<1>1. /\ ~Busy(c) /\ steps < MaxSteps /\ steps' = steps + 1 /\ PrepareTurn(c, step)
      /\ history' = [history EXCEPT ![k] = request] /\ UNCHANGED <<heard, disposed>>
  BY DEF Stream, Busy
<1>2. history' \in [Key -> Seq(Message)] /\ steps + 1 \in Step /\ steps \in Nat
  BY <1>1, Constants DEF Inv, TypeOK, Step
<1>3. /\ step \in StepState /\ step.pc = "writing" /\ step.key = k /\ step.request = request
      /\ step.signature = signature /\ step.number = steps + 1 /\ step.id = None /\ ~step.auxiliary
  <2>1. steps + 1 \in Nat
    BY <1>2
  <2>2. Idle \in StepState /\ Idle.id = None /\ ~Idle.auxiliary
    BY IdleType
  <2>3. step \in StepState
    BY <2>1, <2>2 DEF StepState
  <2> QED BY <2>2, <2>3 DEF StepState
<1> HIDE DEF step
<1>4. CASE sessions[k] # None /\ Continues(sessions[k], signature, request)
  <2> DEFINE known == session[sessions[k]].delivered
             rest == SubSeq(request, Len(known) + 1, Len(request))
             told == [step EXCEPT !.session = sessions[k], !.full = FALSE, !.news = Unheard(rest),
                                  !.resume = known # <<>>]
             next == IF Serializable(told.news) THEN told ELSE Idle
  <2>1. sessions[k] \in Step
    BY <1>4 DEF Inv, TypeOK
  <2>2. known \in Seq(Message) /\ rest \in Seq(Message) /\ Unheard(rest) \in Seq(Message)
    <3>1. known \in Seq(Message)
      BY <2>1 DEF Inv, TypeOK, VendorSession
    <3>2. rest \in Seq(Message)
      BY <3>1
    <3> QED BY <3>1, <3>2, UnheardType
  <2>3. /\ call' = [call EXCEPT ![c] = next] /\ UNCHANGED sessions
        /\ session' = IF InUse(sessions[k]) THEN [session EXCEPT ![sessions[k]].clean = FALSE] ELSE session
    BY <1>1, <1>3, <1>4 DEF PrepareTurn, ContinueSession, Prepared
  <2>4. /\ told \in StepState /\ told.session = sessions[k] /\ told.news = Unheard(rest)
        /\ told.request = request /\ told.signature = signature /\ told.key = k /\ ~told.auxiliary
        /\ told.pc = "writing" /\ told.id = None /\ told.number = steps + 1
    BY <1>3, <2>1, <2>2 DEF StepState
  <2>5. request = known \o rest
    <3>1. Len(known) <= Len(request) /\ \A i \in 1..Len(known) : request[i] = known[i]
      BY <1>4 DEF Continues, ExtendsDelivered
    <3> HIDE DEF known
    <3> QED BY <3>1, <2>2, PrefixAndRest
  <2>6. ASSUME session[sessions[k]].clean, ~InUse(sessions[k])
        PROVE  Unheard(heard[session[sessions[k]].id] \o Unheard(rest)) = Unheard(request)
    <3>1. heard[session[sessions[k]].id] \in Seq(Message)
      BY <2>1 DEF Inv, TypeOK, VendorSession
    <3>2. Unheard(heard[session[sessions[k]].id]) = Unheard(known)
      BY <1>4, <2>6 DEF Inv, Hears
    <3>3. Unheard(heard[session[sessions[k]].id] \o Unheard(rest)) = Unheard(known) \o Unheard(Unheard(rest))
      <4> DEFINE before == heard[session[sessions[k]].id]
                 after == Unheard(rest)
      <4>1. before \in Seq(Message) /\ after \in Seq(Message)
        BY <3>1, <2>2
      <4> HIDE DEF before, after
      <4>2. Unheard(before \o after) = Unheard(before) \o Unheard(after)
        BY <4>1, UnheardConcat
      <4> QED BY <4>2, <3>2 DEF before, after
    <3>4. Unheard(known \o rest) = Unheard(known) \o Unheard(rest) /\ Unheard(Unheard(rest)) = Unheard(rest)
      BY <2>2, UnheardConcat, UnheardTwice
    <3> QED BY <3>3, <3>4, <2>5
  <2>7. Begins(c, next, sessions[k])
    BY <2>3, <2>4, IdleType DEF Begins
  <2>8. next.pc = "writing" =>
          /\ next.key = k /\ ~next.auxiliary /\ next.signature = session[sessions[k]].signature
          /\ session[sessions[k]].clean /\ ~InUse(sessions[k]) =>
               Unheard(heard[session[sessions[k]].id] \o next.news) = Unheard(next.request)
    BY <2>4, <2>6, <1>4, IdleType DEF Continues
  <2> HIDE DEF next, told, rest, known
  <2> QED BY <1>1, <1>2, <2>1, <2>3, <2>7, <2>8, ContinuePreserves
<1>5. CASE ~(sessions[k] # None /\ Continues(sessions[k], signature, request))
  <2> DEFINE n == steps + 1
             told == [step EXCEPT !.session = n, !.full = TRUE, !.news = request]
             next == IF Serializable(told.news) THEN told ELSE Idle
  <2>1. /\ call' = [call EXCEPT ![c] = next]
        /\ session' = [session EXCEPT ![n] = Fresh(n, signature)]
        /\ sessions' = [sessions EXCEPT ![k] = n]
    BY <1>1, <1>3, <1>5 DEF PrepareTurn, OpenSession, Prepared
  <2>2. /\ told \in StepState /\ told.session = n /\ told.news = request
        /\ told.request = request /\ told.signature = signature /\ told.key = k /\ ~told.auxiliary
        /\ told.pc = "writing" /\ told.id = None /\ told.number = steps + 1
    BY <1>2, <1>3 DEF StepState
  <2>3. Begins(c, next, n)
    BY <2>1, <2>2, IdleType DEF Begins
  <2>4. /\ next.pc = "writing" => next.signature = signature
        /\ next.pc = "writing" => Unheard(next.news) = Unheard(next.request)
        /\ next.pc = "writing" => next.key = k /\ ~next.auxiliary
    BY <2>2, IdleType
  <2>5. n \in Nat
    BY <1>2
  <2> HIDE DEF next, told
  <2> QED BY <1>1, <1>2, <2>1, <2>3, <2>4, <2>5, OpenPreserves
<1> QED BY <1>4, <1>5

LEMMA StreamAuxiliaryPreserves ==
  ASSUME Inv, NEW c \in Call, NEW k \in Key \cup {None}, StreamAuxiliary(c, k)
  PROVE  Inv'
<1> DEFINE n == steps + 1
           next == [Idle EXCEPT !.pc = "writing", !.key = k, !.auxiliary = TRUE, !.session = n, !.number = n]
<1>1. steps \in Nat /\ n \in Nat /\ MaxSteps \in Nat
  BY Constants DEF Inv, TypeOK
<1>2. /\ ~Busy(c) /\ steps < MaxSteps /\ steps' = steps + 1
      /\ call' = [call EXCEPT ![c] = next]
      /\ session' = [session EXCEPT ![n] = Fresh(n, AnySignature)]
      /\ UNCHANGED <<history, sessions, heard, disposed>>
  BY <1>1 DEF StreamAuxiliary, Busy
<1>3. n \in Step
  BY <1>1, <1>2 DEF Step
<1>4. /\ next \in StepState /\ next.pc = "writing" /\ next.session = n /\ next.number = n /\ next.id = None
      /\ next.signature = AnySignature /\ next.news = next.request
  BY <1>1, <1>3, IdleType DEF StepState
<1>5. Begins(c, next, n)
  BY <1>2, <1>4 DEF Begins
<1>6. history' \in [Key -> Seq(Message)]
  BY <1>2 DEF Inv, TypeOK
<1> HIDE DEF next
<1>7. Unheard(next.news) = Unheard(next.request)
  BY <1>4
<1> QED BY <1>1, <1>2, <1>4, <1>5, <1>6, <1>7, Constants, OpenPreserves

LEMMA DisposePreserves ==
  ASSUME Inv, Dispose
  PROVE  Inv'
<1>1. /\ sessions' = [k \in Key |-> None] /\ disposed' = TRUE
      /\ UNCHANGED <<history, session, heard, call, steps>>
  BY DEF Dispose
<1>2. TypeOK'
  BY <1>1 DEF Inv, TypeOK
<1>3. Numbers' /\ Mapping'
  BY <1>1 DEF Inv, Numbers, Mapping, Busy
<1>4. Apart'
  BY <1>1 DEF Inv, Apart, Holds
<1>5. Hears'
  BY <1>1 DEF Inv, Hears, Busy
<1> QED BY <1>2, <1>3, <1>4, <1>5 DEF Inv

-----------------------------------------------------------------------------
(* What follows *)

LEMMA NextInv == Inv /\ [Next]_vars => Inv'
<1> SUFFICES ASSUME Inv, [Next]_vars PROVE Inv'
  OBVIOUS
<1>1. CASE UNCHANGED vars
  BY <1>1 DEF vars, Inv, TypeOK, Numbers, Apart, Holds, Mapping, Hears, InUse, Busy
<1>2. ASSUME NEW c \in Call, NEW k \in Key, NEW request \in Requests(history[k]),
             Stream(c, k, request, AnySignature)
      PROVE  Inv'
  <2>1. request \in Seq(Message)
    BY <1>2, RequestsType DEF Stream
  <2> QED BY <2>1, <1>2, Constants, StreamPreserves
<1>3. ASSUME NEW c \in Call, NEW k \in Key, NEW signature \in Signature,
             Stream(c, k, Grown(history[k], "text"), signature)
      PROVE  Inv'
  <2>1. Grown(history[k], "text") \in Seq(Message)
    BY <1>3, RequestsType DEF Stream
  <2> DEFINE request == Grown(history[k], "text")
  <2> HIDE DEF request
  <2>2. request \in Seq(Message) /\ Stream(c, k, request, signature)
    BY <2>1, <1>3 DEF request
  <2> QED BY <2>2, StreamPreserves
<1> QED
  BY <1>1, <1>2, <1>3, StreamAuxiliaryPreserves, PromptWrittenPreserves, TurnThrowsPreserves,
     TurnRejectedPreserves, TurnSucceedsPreserves, DisposePreserves DEF Next

LEMMA Inductive == Spec => []Inv
  BY InitInv, NextInv, PTL DEF Spec

\* A turn runs in a conversation that holds, with its prompt, the messages of its request
\* and no others, and that was opened for its model, effort, system and tools, for
\* histories of any length and any overlap of calls (HeardHistory).
THEOREM HistoryHeard == Spec => []HeardHistory
<1>1. ASSUME Inv PROVE HeardHistory
  <2>1. TypeOK
    BY <1>1 DEF Inv
  <2>2. ASSUME NEW c \in Call, call[c].pc = "running", session[call[c].session].clean
        PROVE  /\ Unheard(heard[call[c].id] \o call[c].news) = Unheard(call[c].request)
               /\ session[call[c].session].signature = call[c].signature
    BY <1>1, <2>2 DEF Inv, Hears, Busy
  <2> QED BY <2>1, <2>2 DEF HeardHistory
<1>2. Inv => HeardHistory
  BY <1>1
<1> QED BY <1>2, Inductive, PTL

\* A vendor session is forgotten by a failing step of its own, a request it cannot serve,
\* or dispose, and by nothing else (ForgetsOnlyItsOwn).
THEOREM OwnSessionForgotten == Spec => ForgetsOnlyItsOwn
<1> DEFINE Forgetting ==
      \A k \in Key :
        sessions[k] # None /\ sessions'[k] # sessions[k] =>
          \/ disposed' # disposed
          \/ sessions'[k] = steps'
          \/ \E c \in Call : call[c].session = sessions[k] /\ call'[c] = Idle
<1>1. ASSUME Inv, [Next]_vars PROVE Forgetting
  <2>1. sessions \in [Key -> Step \cup {None}] /\ call \in [Call -> StepState]
    BY <1>1 DEF Inv, TypeOK
  <2>2. CASE UNCHANGED sessions
    BY <2>2
  <2>3. ASSUME NEW c \in Call, NEW k \in Key, NEW request, NEW signature, Stream(c, k, request, signature)
        PROVE  Forgetting
    BY <2>1, <2>3 DEF Stream, PrepareTurn, OpenSession, ContinueSession, Idle
  <2>4. ASSUME NEW c \in Call, TurnRejected(c) PROVE Forgetting
    BY <2>1, <2>4 DEF TurnRejected, Forget
  <2>5. CASE Dispose
    BY <2>5 DEF Dispose
  <2> QED
    BY <1>1, <2>2, <2>3, <2>4, <2>5 DEF Next, vars, StreamAuxiliary, PromptWritten, TurnThrows, TurnSucceeds
<1>2. Inv /\ [Next]_vars => [Forgetting]_vars
  BY <1>1
<1> QED BY <1>2, Inductive, PTL DEF Spec, ForgetsOnlyItsOwn
=============================================================================
