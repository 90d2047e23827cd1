--------------------------- MODULE HeardMessages ----------------------------
(***************************************************************************)
(* What a vendor conversation has yet to hear of a DSH history: all but the*)
(* replies of the route that come back in it (isOwnReply).  Both bridge    *)
(* routes filter what they append to a conversation in this way.           *)
(*                                                                         *)
(* Written with a recursive function instead of SelectSeq, of which the    *)
(* provers know nothing.                                                   *)
(***************************************************************************)
EXTENDS Naturals, Sequences

NotOwn(message) == message.kind # "own"

\* What of the first i messages is not an own reply.
Kept(messages) ==
  LET kept[i \in 0..Len(messages)] ==
        IF i = 0 THEN <<>>
        ELSE IF NotOwn(messages[i]) THEN Append(kept[i-1], messages[i])
        ELSE kept[i-1]
  IN  kept

Unheard(messages) == Kept(messages)[Len(messages)]
=============================================================================
