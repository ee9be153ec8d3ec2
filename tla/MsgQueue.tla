----------------------------- MODULE MsgQueue ------------------------------
(***************************************************************************)
(* What the ring of cmr_msg.c promises its users: a bounded first-in       *)
(* first-out queue of messages, empty when it is created.                  *)
(***************************************************************************)
EXTENDS Naturals, Sequences
CONSTANTS Message, Capacity
VARIABLE queue

Init   == queue = <<>>
Post   == \E m \in Message : Len(queue) < Capacity /\ queue' = Append(queue, m)
Get    == queue # <<>> /\ queue' = Tail(queue)
Renew  == queue' = <<>>
Spec   == Init /\ [][Post \/ Get \/ Renew]_queue
=============================================================================
