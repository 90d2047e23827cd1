----------------------------- MODULE BridgeReply -----------------------------
(***************************************************************************)
(* One vendor reply read as a decision, and the ids under which the        *)
(* decision's calls go back to the vendor, for the two primaries whose CLI *)
(* answers with one structured object: antigravity (schema-transport.ts)   *)
(* and grok (decision-schema.ts).  AgyPrimary and GrokTurn say when a turn *)
(* runs; here its steps run one after the other.                           *)
(*                                                                         *)
(* Abstracted: a row that is no decision for a reason of its own (unknown  *)
(* kind, text or list of calls of another type) is of the kind             *)
(* "malformed"; a response of several equal JSON values, or of prose       *)
(* before one, is that one.                                                *)
(***************************************************************************)
EXTENDS Naturals, Sequences, FiniteSets, Functions

CONSTANTS
  CallId,      \* ids the model writes for its calls; none is one DSH made
  Empty,       \* the empty id
  MaxSteps,    \* decisions taken
  None

VARIABLES
  provider,
  kept,        \* the turn runs in the session's conversation, not in one of its own
  wrote,       \* for each call of the session, in the order of its DSH ids, the id the model
               \* wrote for it in the present conversation, or None
  callIds,     \* vendorCallIds of the session
  repaired,    \* the turn was asked for again
  reply,       \* the reply last read
  decision,    \* what DSH made of it; None while the turn runs
  steps

bridgeVars == <<provider, kept, wrote, callIds, repaired, reply, decision, steps>>

-----------------------------------------------------------------------------
(* Replies *)

Call(id, name, arguments) == [id |-> id, name |-> name, arguments |-> arguments]
Row(turn, kind, calls) == [turn |-> turn, kind |-> kind, calls |-> calls]

Good(id) == Call(id, "declared", "object")
SomeId == CHOOSE i \in CallId : TRUE

\* The lists of calls of a reply; None is an absent list.
OneCall == {<<Good(i)>> : i \in CallId}
TwoCalls == {<<Good(i), Good(j)>> : i \in CallId, j \in CallId}
IllMade ==
  {<<Good(SomeId), Call(SomeId, "undeclared", "object")>>,
   <<Call(SomeId, "", "object")>>, <<Call(Empty, "declared", "object")>>,
   <<Call(SomeId, "declared", "other")>>}
Lists == {None, <<>>} \cup OneCall \cup TwoCalls \cup IllMade

\* A row stamped for another turn may be any; one of each kind stands for them.
Rows ==
  {Row("this", kind, calls) : kind \in {"message", "tool_calls"}, calls \in Lists}
    \cup {Row("this", "malformed", None), Row("earlier", "message", <<>>),
          Row("earlier", "tool_calls", <<Good(SomeId)>>)}

Response(is, row) == [is |-> is, row |-> row]

\* "row" is one decision, "rows" are different ones, "broken" names "kind" and is none; "prose"
\* does not name it.
Responses ==
  {Response("row", row) : row \in Rows}
    \cup {Response(is, None) : is \in {"absent", "prose", "rows", "broken"}}

Replies ==
  {[structured |-> row, response |-> response] : row \in Rows \cup {None}, response \in Responses}

-----------------------------------------------------------------------------
(* Reading *)

CallsOf(row) == IF row.calls = None THEN <<>> ELSE row.calls

\* validateBridgeOutput and the second half of readDecision; grok alone refuses an empty id or
\* name, antigravity alone a kind the calls contradict.
Valid(row) ==
  /\ row.kind # "malformed"
  /\ \A c \in Range(CallsOf(row)) : c.arguments = "object"
  /\ provider = "grok" => \A c \in Range(CallsOf(row)) : c.id # Empty /\ c.name # ""
  /\ provider = "antigravity" => (row.kind = "message" <=> CallsOf(row) = <<>>)

AnswersTurn(row) == row # None /\ row.turn = "this"

Failure(code) == [is |-> code, calls |-> <<>>]
Decision(row) == [is |-> "decision", calls |-> CallsOf(row)]
Validated(row) == IF Valid(row) THEN Decision(row) ELSE Failure("protocol")

StructuredResult(r) ==
  CASE AnswersTurn(r.structured) -> Validated(r.structured)
    [] ~AnswersTurn(r.structured) /\ AnswersTurn(r.response.row) /\ Valid(r.response.row) ->
         Decision(r.response.row)
    [] OTHER -> Failure(IF r.structured = None THEN "protocol" ELSE "stale")

ReadDecision(r) ==
  IF AnswersTurn(r.structured) THEN Validated(r.structured)
  ELSE Failure(IF r.structured = None THEN "protocol" ELSE "stale")

\* assertExecutableDecision
ExecutableDecision(calls) ==
  /\ \A i \in DOMAIN calls : calls[i].name = "declared"
  /\ \A i, j \in DOMAIN calls : calls[i].id = calls[j].id => i = j

Read(r) ==
  LET read == IF provider = "grok" THEN ReadDecision(r) ELSE StructuredResult(r)
  IN  IF ExecutableDecision(read.calls) THEN read ELSE Failure("protocol")

\* proseDecision: the words of a turn that did not try to decide.
IsProse(r) == r.response.is = "prose"

-----------------------------------------------------------------------------
(* Call ids *)

\* callIdView, in an envelope that goes to the session's conversation.
View(id) == IF id \in DOMAIN callIds THEN callIds[id] ELSE id

\* callIds with the ids that the model wrote for these of the calls; DSH counts its calls.
Restoring(calls, new) ==
  [id \in DOMAIN callIds \cup {Len(wrote) + i : i \in new} |->
    IF id \in DOMAIN wrote THEN callIds[id] ELSE calls[id - Len(wrote)].id]

\* A plausible slip: an id the model writes again is restored again.
MappedAgain(calls) == Restoring(calls, DOMAIN calls)

\* mintCallId: the vendor's id is restored for the first call that has it.
Mapped(calls) == Restoring(calls, {i \in DOMAIN calls : calls[i].id \notin Range(callIds)})

Settle(made) ==
  /\ decision' = made
  /\ IF kept /\ made.is = "decision"
     THEN /\ wrote' = wrote \o [i \in DOMAIN made.calls |-> made.calls[i].id]
          /\ callIds' = Mapped(made.calls)
     ELSE UNCHANGED <<wrote, callIds>>
  /\ UNCHANGED <<provider, kept, repaired, steps>>

\* The conversation is given up; the next hears the history under DSH's ids.
Forgotten == wrote' = [i \in DOMAIN wrote |-> None] /\ callIds' = <<>>

Lose(failure) ==
  /\ decision' = failure
  /\ IF kept THEN Forgotten ELSE UNCHANGED <<wrote, callIds>>
  /\ UNCHANGED <<provider, kept, repaired, steps>>

-----------------------------------------------------------------------------
(* Actions *)

\* A reply that decides is taken; one that cannot be read or executed ends the conversation.
Decides(r) == Read(r).is = "decision" /\ Settle(Read(r))

Refused(r) == (Read(r).is = "protocol" \/ (provider = "grok" /\ Read(r).is = "stale")) /\ Lose(Read(r))

\* Antigravity: a stale decision is asked for once more, where there is a conversation to ask.
AskedAgain(r) ==
  /\ provider = "antigravity"
  /\ Read(r).is = "stale"
  /\ kept /\ ~repaired
  /\ repaired' = TRUE
  /\ UNCHANGED <<provider, kept, wrote, callIds, decision, steps>>

\* The last resort, and the step that is lost with its conversation still there.
TakenAsProse(r) ==
  /\ provider = "antigravity"
  /\ Read(r).is = "stale"
  /\ kept => repaired
  /\ Settle(IF IsProse(r) THEN Failure("prose") ELSE Failure("stale"))

Answered(r) ==
  /\ decision = None
  /\ provider = "grok" => r.response = Response("absent", None)
  /\ reply' = r
  /\ Decides(r) \/ Refused(r) \/ AskedAgain(r) \/ TakenAsProse(r)

\* A step of the session, in its conversation or in a new one, or a turn without a session.
NextStep ==
  /\ decision # None
  /\ steps < MaxSteps
  /\ steps' = steps + 1
  /\ kept' \in BOOLEAN
  /\ (kept' /\ Forgotten) \/ UNCHANGED <<wrote, callIds>>
  /\ repaired' = FALSE
  /\ reply' = None
  /\ decision' = None
  /\ UNCHANGED provider

Init ==
  /\ provider \in {"antigravity", "grok"}
  /\ kept \in BOOLEAN
  /\ wrote = <<>>
  /\ callIds = <<>>
  /\ repaired = FALSE
  /\ reply = None
  /\ decision = None
  /\ steps = 1

Next == NextStep \/ \E r \in Replies : Answered(r)

Spec == Init /\ [][Next]_bridgeVars

-----------------------------------------------------------------------------
(* Properties *)

\* DSH takes as one whole a decision that a source of this reply states for this turn, all of
\* its calls executable and with an id each; it takes prose only where no source decides and
\* the turn was asked for again if it could be; and a reply one of whose sources decides is
\* lost only if that reply also holds an unusable answer to the same turn.
DecisionRead ==
  decision # None =>
    LET sources == {reply.structured, reply.response.row} \ {None}
        own == {row \in sources : row.turn = "this"}
        usable == {row \in own : Valid(row) /\ ExecutableDecision(CallsOf(row))}
    IN  /\ decision.is = "decision" => \E row \in usable : decision.calls = CallsOf(row)
        /\ decision.is # "decision" => decision.calls = <<>> /\ (usable # {} => own # usable)
        /\ decision.is = "prose" => own = {} /\ (kept => repaired)

\* Of the calls a conversation has heard of, no two go by one id, so no two results do; and
\* the result of a call goes by the id the model itself wrote, unless the model had written
\* that id before in the same conversation (callIdView, mintCallId).
CallsToldApart ==
  /\ \A i, j \in DOMAIN wrote : View(i) = View(j) => i = j
  /\ \A i \in DOMAIN wrote :
       View(i) = IF wrote[i] # None /\ \A j \in 1..i - 1 : wrote[j] # wrote[i] THEN wrote[i] ELSE i

RepliesRead == DecisionRead /\ CallsToldApart
=============================================================================
