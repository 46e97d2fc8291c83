--------------------------------- MODULE Fifo ----------------------------------
(***************************************************************************)
(* What the event ring promises: events come out once, in the order in     *)
(* which they were put in, and none is made up.                            *)
(***************************************************************************)
EXTENDS Sequences

CONSTANT Event

VARIABLES queue, taken    \* taken: the event the last Get returned

Init == queue = << >> /\ taken \in Event

Put(e) == queue' = Append(queue, e) /\ UNCHANGED taken

Get == queue # << >> /\ taken' = Head(queue) /\ queue' = Tail(queue)

Next == (\E e \in Event : Put(e)) \/ Get

Spec == Init /\ [][Next]_<<queue, taken>>
================================================================================
