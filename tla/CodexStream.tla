---------------------------- MODULE CodexStream ----------------------------
(***************************************************************************)
(* How codex's adapter turns the notifications of one App Server turn into *)
(* the chunks DSH reads (codex-plugin-dsh/adapter.ts, stream).  Where a    *)
(* turn comes from, and what becomes of it, is CodexThread.                *)
(*                                                                         *)
(* Abstracted: a text is the number of pieces it came in.  Notifications   *)
(* of another thread or turn are skipped and left out.  The App Server is  *)
(* external: it keeps an item's phase once it has told it, and completes a *)
(* message once.                                                           *)
(***************************************************************************)
EXTENDS Naturals, Sequences, FiniteSets

CONSTANTS
  Item,          \* items of the turn
  MaxPieces,     \* bound: deltas of an item
  MaxRetrying,   \* MAX_CONSECUTIVE_RETRYING_ERRORS
  None           \* unknown, undefined

VARIABLES
  turn,          \* the adapter's record of the turn, and how it ended
  chunks,        \* what DSH has been given
  vendor         \* App Server: the kind of each item, and which are complete

Init ==
  /\ \E constrained \in BOOLEAN :
       turn = [stage |-> "streaming", constrained |-> constrained, blocks |-> [i \in {} |-> None], next |-> 0,
               answerItem |-> None, answer |-> None, images |-> {}, finalOutput |-> FALSE,
               usage |-> FALSE, retrying |-> 0]
  /\ chunks = <<>>
  /\ \E kind \in [Item -> {"commentary", "answer", "image"}] : vendor = [kind |-> kind, complete |-> {}]

-----------------------------------------------------------------------------
(* Chunks *)

Start(i, type) == <<[chunk |-> "start", index |-> i, type |-> type]>>
Text(i, pieces) == IF pieces = 0 THEN <<>> ELSE <<[chunk |-> "delta", index |-> i, pieces |-> pieces]>>
End(i, pieces) == <<[chunk |-> "end", index |-> i, pieces |-> pieces]>>
Usage == IF turn.usage THEN <<[chunk |-> "usage"]>> ELSE <<>>

Yield(out) == chunks' = chunks \o out
Throw == turn' = [turn EXCEPT !.stage = "failed"] /\ UNCHANGED chunks
Finish(out, reason) ==
  /\ turn' = [turn EXCEPT !.stage = "finished"]
  /\ Yield(out \o Usage \o <<[chunk |-> "finish", reason |-> reason]>>)

\* Whatever is addressed to this turn is progress.
Progress == [turn EXCEPT !.retrying = 0]

Known(i) == i \in DOMAIN turn.blocks
NewBlock(i, index, phase, pieces, ended) ==
  [j \in DOMAIN turn.blocks \cup {i} |->
     IF j = i THEN [index |-> index, phase |-> phase, pieces |-> pieces, ended |-> ended]
     ELSE turn.blocks[j]]

-----------------------------------------------------------------------------
(* Notifications *)

\* An error the vendor will retry is tolerated a few times in a row.
Error(willRetry) ==
  /\ IF willRetry /\ turn.retrying < MaxRetrying
     THEN turn' = [turn EXCEPT !.retrying = @ + 1] /\ UNCHANGED chunks
     ELSE Throw
  /\ UNCHANGED vendor

SecondAnswer(i) == turn.answerItem \notin {None, i} \/ turn.answer # None

\* item/started: the phase may still be unknown.
ItemStarted(i) ==
  /\ vendor.kind[i] # "image" /\ i \notin vendor.complete
  /\ \/ /\ Known(i)
        /\ turn' = Progress /\ UNCHANGED chunks
     \/ /\ ~Known(i) /\ vendor.kind[i] = "commentary"
        /\ turn' = [Progress EXCEPT !.blocks = NewBlock(i, turn.next, "commentary", 0, FALSE), !.next = turn.next + 1]
        /\ Yield(Start(turn.next, "reasoning"))
     \/ /\ ~Known(i) /\ vendor.kind[i] = "answer"
        /\ IF SecondAnswer(i) THEN Throw
           ELSE /\ turn' = [Progress EXCEPT !.blocks = NewBlock(i, None, "answer", 0, FALSE), !.answerItem = i]
                /\ UNCHANGED chunks
     \/ /\ ~Known(i)
        /\ turn' = [Progress EXCEPT !.blocks = NewBlock(i, None, None, 0, FALSE)] /\ UNCHANGED chunks
  /\ UNCHANGED vendor

\* item/agentMessage/delta: a text of unknown phase is buffered.
Delta(i) ==
  /\ vendor.kind[i] # "image"
  /\ LET block == IF Known(i) THEN turn.blocks[i]
                  ELSE [index |-> None, phase |-> None, pieces |-> 0, ended |-> FALSE]
     IN  /\ block.pieces < MaxPieces
         /\ IF block.ended THEN Throw
            ELSE /\ turn' = [Progress EXCEPT !.blocks = NewBlock(i, block.index, block.phase, block.pieces + 1, FALSE)]
                 /\ IF block.phase = "commentary" THEN Yield(Text(block.index, 1)) ELSE UNCHANGED chunks
  /\ UNCHANGED vendor

Completes(i) == vendor' = [vendor EXCEPT !.complete = @ \cup {i}]
Pieces(i) == IF Known(i) THEN turn.blocks[i].pieces ELSE 0

\* A completed message does not begin with what was streamed.
CompletedOtherwise(i) ==
  /\ vendor.kind[i] # "image" /\ i \notin vendor.complete /\ Pieces(i) > 0
  /\ Throw /\ Completes(i)

\* item/completed: a commentary that is not shown yet is shown in one piece.
CommentaryCompleted(i) ==
  /\ vendor.kind[i] = "commentary" /\ i \notin vendor.complete
  /\ \E pieces \in Pieces(i) .. MaxPieces :
       IF Known(i) /\ turn.blocks[i].index # None
       THEN LET index == turn.blocks[i].index
            IN  /\ turn' = [Progress EXCEPT !.blocks = NewBlock(i, index, "commentary", pieces, TRUE)]
                /\ Yield(Text(index, pieces - Pieces(i)) \o End(index, pieces))
       ELSE /\ turn' = [Progress EXCEPT !.blocks = NewBlock(i, turn.next, "commentary", pieces, TRUE), !.next = turn.next + 1]
            /\ Yield(Start(turn.next, "reasoning") \o Text(turn.next, pieces) \o End(turn.next, pieces))
  /\ Completes(i)

\* Every other message is the turn's answer: parsed, and kept for the end of the turn.
AnswerCompleted(i) ==
  /\ vendor.kind[i] = "answer" /\ i \notin vendor.complete
  /\ \/ SecondAnswer(i) /\ Throw
     \/ /\ ~SecondAnswer(i)
        /\ \/ turn.constrained /\ Throw
           \/ \E answer \in IF turn.constrained THEN {"final", "blank", "tool_call"} ELSE {"final", "blank"} :
                turn' = [Progress EXCEPT !.blocks = NewBlock(i, None, "answer", Pieces(i), TRUE),
                          !.answerItem = i, !.answer = answer] /\ UNCHANGED chunks
  /\ Completes(i)

\* An image may be reported again, and what is reported may be no image.
ImageCompleted(i) ==
  /\ vendor.kind[i] = "image"
  /\ \/ /\ i \in turn.images
        /\ turn' = Progress /\ UNCHANGED chunks
     \/ /\ i \notin turn.images
        /\ \/ turn' = [Progress EXCEPT !.images = turn.images \cup {i}] /\ UNCHANGED chunks
           \/ /\ turn' = [Progress EXCEPT !.images = turn.images \cup {i}, !.next = turn.next + 1, !.finalOutput = TRUE]
              /\ Yield(Start(turn.next, "image") \o End(turn.next, 0))
  /\ Completes(i)

TokenUsage ==
  /\ \/ turn' = [Progress EXCEPT !.usage = TRUE] /\ UNCHANGED chunks
     \/ Throw
  /\ UNCHANGED vendor

\* Mutant: a turn may complete with an open message.
NothingOpenUnchecked == TRUE

NothingOpen == \A i \in DOMAIN turn.blocks : turn.blocks[i].ended

Answer(type, reason) ==
  /\ turn' = [turn EXCEPT !.stage = "finished", !.next = @ + 1]
  /\ Yield(Start(turn.next, type) \o Text(turn.next, 1) \o End(turn.next, 1)
           \o Usage \o <<[chunk |-> "finish", reason |-> reason]>>)

\* turn/completed: the answer is shown at last.
TurnCompleted ==
  /\ \/ Finish(<<>>, "max-tokens")
     \/ Throw
     \/ ~NothingOpen /\ Throw
     \/ NothingOpen /\ turn.answer = "final" /\ Answer("text", "stop")
     \/ NothingOpen /\ turn.answer = "tool_call" /\ Answer("tool-call", "tool-calls")
     \/ /\ NothingOpen /\ (turn.answer = None \/ (turn.answer = "blank" /\ ~turn.constrained))
        /\ IF turn.finalOutput THEN Finish(<<>>, "stop") ELSE Throw
     \/ NothingOpen /\ turn.answer = "blank" /\ turn.constrained /\ Throw
  /\ UNCHANGED vendor

Next ==
  /\ turn.stage = "streaming"
  /\ \/ \E willRetry \in BOOLEAN : Error(willRetry)
     \/ \E i \in Item :
          \/ ItemStarted(i) \/ Delta(i) \/ CompletedOtherwise(i)
          \/ CommentaryCompleted(i) \/ AnswerCompleted(i) \/ ImageCompleted(i)
     \/ TokenUsage
     \/ TurnCompleted

streamVars == <<turn, chunks, vendor>>
Spec == Init /\ [][Next]_streamVars

-----------------------------------------------------------------------------
(* Properties *)

Of(kind) == {n \in DOMAIN chunks : chunks[n].chunk = kind}
Opening(n) == {m \in Of("start") : chunks[m].index = chunks[n].index}

\* The pieces a block was given; a recursive function, which the provers can unfold.
Streamed(given, index) ==
  LET streamed[n \in 0..Len(given)] ==
        IF n = 0 THEN 0
        ELSE IF given[n].chunk = "delta" /\ given[n].index = index
        THEN streamed[n - 1] + given[n].pieces
        ELSE streamed[n - 1]
  IN  streamed[Len(given)]

\* What DSH reads is one well-formed message, in whatever order the vendor tells its
\* items: the blocks open in order, each text goes to a block that is open and ends as it
\* was streamed, at most one block is an answer and it is the last, and a message that
\* finishes as meant, at most once and with nothing after it, has closed every block.
WellFormed ==
  /\ \A n \in Of("start") : chunks[n].index = Cardinality({m \in Of("start") : m < n})
  /\ \A n \in Of("delta") \cup Of("end") :
       /\ \E m \in Opening(n) : m < n
       /\ \A m \in Of("end") : chunks[m].index = chunks[n].index => n <= m
  /\ \A n \in Of("end") : \A m \in Opening(n) :
       chunks[m].type = "reasoning" => chunks[n].pieces = Streamed(chunks, chunks[n].index)
  /\ \A n \in Of("start") : chunks[n].type \in {"text", "tool-call"} =>
       \A m \in Of("start") : m <= n
  /\ turn.stage = "finished" <=> Of("finish") # {}
  /\ \A n \in Of("finish") :
       /\ n = Len(chunks)
       /\ chunks[n].reason # "max-tokens" =>
            \A m \in Of("start") : \E e \in Of("end") : chunks[e].index = chunks[m].index
=============================================================================
