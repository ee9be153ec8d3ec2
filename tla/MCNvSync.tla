----------------------------- MODULE MCNvSync ------------------------------
(***************************************************************************)
(* Instances of NvSync for TLC: the requests of the modem.                 *)
(***************************************************************************)
EXTENDS NvSync

Head0(p)     == [t |-> "head", idx |-> 0, part |-> p]
Body(i, S)   == [t |-> "body", idx |-> i, secs |-> S]
Tail0(i)     == [t |-> "tail", idx |-> i]
Sector(s, v) == [t |-> "data", sec |-> s, v |-> v]
Half(h)      == [t |-> h]

MCMain == [p \in Part |-> TRUE]

\* One body of one sector; one body of two sectors; two bodies.
OneBody  == [part |-> 0, data |-> [s \in {1} |-> 1],
             stream |-> <<Head0(0), Body(1, {1}), Sector(1, 1), Tail0(2)>>]
LongBody == [part |-> 0, data |-> [s \in {0, 1} |-> 1 - s],
             stream |-> <<Head0(0), Body(1, {0, 1}), Sector(0, 1), Sector(1, 0),
                          Tail0(2)>>]
TwoBody  == [part |-> 0, data |-> [s \in {0, 1} |-> s],
             stream |-> <<Head0(0), Body(1, {0}), Sector(0, 0), Body(2, {1}),
                          Sector(1, 1), Tail0(3)>>]
\* The same with the tail, or a body, cut in two by the end of a packet.
SplitTail == [OneBody EXCEPT
               !.stream = <<Head0(0), Body(1, {1}), Sector(1, 1), Half("half1"),
                            Half("half2")>>]
SplitBody == [OneBody EXCEPT
               !.stream = <<Head0(0), Half("half1"), Half("half2"), Sector(1, 1),
                            Tail0(2)>>]

\* A request cut in its tail can be answered 1 by mistake (SplitTokenCompletes).
MCRequests == {OneBody, LongBody, TwoBody, SplitBody}
MCSplit    == {SplitTail, SplitBody}
=============================================================================
