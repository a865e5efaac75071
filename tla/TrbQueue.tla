------------------------------ MODULE TrbQueue ------------------------------
(***************************************************************************)
(* What a ring promises its two sides: a queue of TRBs.  Each is received  *)
(* once, whole, and in the order in which they were sent.                  *)
(***************************************************************************)
EXTENDS Integers, Sequences

CONSTANTS Trbs, Room, Nothing

VARIABLES queue, seen   \* what is on its way; what has been received last

Init == queue = << >> /\ seen = Nothing

Send(x) == /\ Len(queue) < Room
           /\ queue' = Append(queue, x)
           /\ UNCHANGED seen

Receive == /\ queue # << >>
           /\ seen' = Head(queue)
           /\ queue' = Tail(queue)

Next == Receive \/ \E x \in Trbs : Send(x)

Spec == Init /\ [][Next]_<<queue, seen>>

============================================================================
