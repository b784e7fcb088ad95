------------------------- MODULE OrderedDelivery -------------------------
(***************************************************************************)
(* What an ordered consumer promises its user: the messages of the stream, *)
(* from the first, in the order of the stream, none twice and none left    *)
(* out (Consumers.get() in jetstream/src/types.ts, "An ordered consumer    *)
(* expects messages to be delivered in order").  How it survives lost      *)
(* messages, lost consumers and reconnects is not its user's concern.      *)
(***************************************************************************)
EXTENDS Naturals, Sequences

CONSTANT LastSeq    \* messages of the stream

VARIABLE taken   \* sequences in the stream of what the user has had, in order

Init == taken = <<>>

Deliver == Len(taken) < LastSeq /\ taken' = Append(taken, Len(taken) + 1)

Spec == Init /\ [][Deliver]_taken
=============================================================================
