------------------------------- MODULE EventRing -------------------------------
(***************************************************************************)
(* The ring in which the xHCI controller leaves its events                 *)
(* (kernel/src/xhci/event.rs): EVENT_RING_SIZE entries, each with a cycle  *)
(* bit by which the driver tells a fresh entry from one it has seen, and   *)
(* the dequeue pointer the driver reports back (xhci.rs:452-485).          *)
(***************************************************************************)
EXTENDS Integers, Sequences

CONSTANTS
  Event,            \* the events, as values
  EVENT_RING_SIZE,  \* 16 in the code
  MaxPosted         \* bound for TLC: events the controller posts

ASSUME EventIsNonEmpty == Event # {}
ASSUME SizeIsTwoOrMore == EVENT_RING_SIZE \in Nat /\ EVENT_RING_SIZE >= 2

VARIABLES
  trbs,           \* the entries: an event and its cycle bit
  dequeue_index,  \* EventRing.dequeue_index
  cycle_bit,      \* EventRing.cycle_bit: what a fresh entry carries
  erdp,           \* the dequeue pointer last written to the controller, as an index
  taken,          \* the event the last pop returned
  posted,         \* the controller's position: events posted since the reset
  popped, acked   \* no code reads them: events popped, and popped when erdp was written

vars == <<trbs, dequeue_index, cycle_bit, erdp, taken, posted, popped, acked>>

N == EVENT_RING_SIZE
Index(k) == k % N
Cycle(k) == (k \div N) % 2 = 0

Init ==
  /\ \E e \in Event : trbs = [i \in 0 .. N - 1 |-> [event |-> e, cycle |-> FALSE]] /\ taken = e
  /\ dequeue_index = 0 /\ cycle_bit = TRUE
  /\ erdp = 0
  /\ posted = 0 /\ popped = 0 /\ acked = 0

\* The controller posts unless the next entry is the one it was last told of.
Post(e) ==
  /\ posted < MaxPosted
  /\ Index(posted + 1) # erdp
  /\ trbs' = [trbs EXCEPT ![Index(posted)] = [event |-> e, cycle |-> Cycle(posted)]]
  /\ posted' = posted + 1
  /\ UNCHANGED <<dequeue_index, cycle_bit, erdp, taken, popped, acked>>

has_event == trbs[dequeue_index].cycle = cycle_bit

\* Mutants: the index wraps one entry early, or one late; the expected cycle never
\* changes.
AdvanceLate ==
  /\ dequeue_index' = IF dequeue_index + 1 > N THEN 0 ELSE dequeue_index + 1
  /\ cycle_bit' = IF dequeue_index + 1 > N THEN ~cycle_bit ELSE cycle_bit
AdvanceEarly ==
  /\ dequeue_index' = IF dequeue_index + 2 >= N THEN 0 ELSE dequeue_index + 1
  /\ cycle_bit' = IF dequeue_index + 2 >= N THEN ~cycle_bit ELSE cycle_bit
AdvanceSameCycle ==
  /\ dequeue_index' = IF dequeue_index + 1 >= N THEN 0 ELSE dequeue_index + 1
  /\ UNCHANGED cycle_bit

Advance ==
  /\ dequeue_index' = IF dequeue_index + 1 >= N THEN 0 ELSE dequeue_index + 1
  /\ cycle_bit' = IF dequeue_index + 1 >= N THEN ~cycle_bit ELSE cycle_bit

\* poll_events acknowledges each event before it takes the next.
pop ==
  /\ has_event /\ acked = popped
  /\ taken' = trbs[dequeue_index].event
  /\ Advance
  /\ popped' = popped + 1
  /\ UNCHANGED <<trbs, erdp, posted, acked>>

\* The controller is told where the driver is.
Acknowledge ==
  /\ acked # popped
  /\ erdp' = dequeue_index
  /\ acked' = popped
  /\ UNCHANGED <<trbs, dequeue_index, cycle_bit, taken, posted, popped>>

Next == (\E e \in Event : Post(e)) \/ pop \/ Acknowledge

Spec == Init /\ [][Next]_vars

--------------------------------------------------------------------------------
TypeOK ==
  /\ trbs \in [0 .. N - 1 -> [event : Event, cycle : BOOLEAN]]
  /\ dequeue_index \in 0 .. N - 1 /\ erdp \in 0 .. N - 1
  /\ cycle_bit \in BOOLEAN
  /\ taken \in Event
  /\ posted \in Nat /\ popped \in Nat /\ acked \in Nat

\* The driver sees an event exactly when there is one it has not taken: a stale
\* entry is never taken for an event and a posted one never overlooked, however
\* often the ring has wrapped and whether or not the controller has been told.
FreshIsPosted == has_event <=> popped < posted

\* The ring is a queue.
queue == [i \in 1 .. posted - popped |-> trbs[Index(popped + i - 1)].event]
F == INSTANCE Fifo
ImplementsFifo == F!Spec
================================================================================
