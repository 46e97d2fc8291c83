------------------------------ MODULE KernelProofs -----------------------------
(***************************************************************************)
(* The kernel's two queues, whatever their sizes.  The ring that the xHCI  *)
(* controller fills: an entry's cycle bit says of every entry whether it   *)
(* waits to be taken.  The ring that interrupt handlers fill: every lock   *)
(* they share with kernel code is taken in a guarded call, so that no code *)
(* but a fault's report spins on a lock of the code it interrupted, and a  *)
(* push or a pop is one step to the other.                                 *)
(***************************************************************************)
EXTENDS MCKernel, SequenceTheorems, TLAPS

(* Where the driver and the controller stand, and what the entries between   *)
(* them look like: those from popped to posted carry the cycle of their own   *)
(* lap, those behind the controller still carry that of the lap before.       *)
Inv ==
  /\ TypeOK
  /\ acked <= popped /\ popped <= posted /\ posted - acked < N
  /\ dequeue_index = Index(popped) /\ cycle_bit = Cycle(popped)
  /\ erdp = Index(acked)
  /\ \A k \in Nat : popped <= k /\ k < posted => trbs[Index(k)].cycle = Cycle(k)
  /\ \A k \in Nat : posted <= k /\ k < popped + N => trbs[Index(k)].cycle = ~Cycle(k)

LEMMA SizeFacts == N \in Nat /\ N >= 2
  BY SizeIsTwoOrMore DEF N

LEMMA IndexRange == ASSUME NEW k \in Nat PROVE Index(k) \in 0 .. N - 1 /\ Cycle(k) \in BOOLEAN
  BY SizeFacts DEF Index, Cycle

(* Quotient and remainder are what they are said to be, and the only such. *)
LEMMA DivMod ==
  ASSUME NEW k \in Nat
  PROVE  /\ k \div N \in Nat /\ k % N \in 0 .. N - 1
         /\ k = N * (k \div N) + (k % N)
  BY SizeFacts

LEMMA DivModUnique ==
  ASSUME NEW q \in Nat, NEW r \in 0 .. N - 1
  PROVE  (N * q + r) % N = r /\ (N * q + r) \div N = q
  BY SizeFacts

(* The position one further on, as Advance computes it. *)
LEMMA IndexNext ==
  ASSUME NEW k \in Nat
  PROVE  /\ Index(k) + 1 >= N => Index(k + 1) = 0 /\ Cycle(k + 1) = ~Cycle(k)
         /\ Index(k) + 1 < N => Index(k + 1) = Index(k) + 1 /\ Cycle(k + 1) = Cycle(k)
  <1>1. k % N \in 0 .. N - 1 /\ k \div N \in Nat
    BY SizeFacts
  <1>2. (k % N) + 1 >= N => (k + 1) % N = 0 /\ (k + 1) \div N = k \div N + 1
    <2>. SUFFICES ASSUME (k % N) + 1 >= N
                  PROVE  (k + 1) % N = 0 /\ (k + 1) \div N = k \div N + 1
      OBVIOUS
    <2>1. k + 1 = N * (k \div N + 1) + 0
      BY SizeFacts, DivMod
    <2>. QED BY <2>1, <1>1, SizeFacts, DivModUnique
  <1>3. (k % N) + 1 < N => (k + 1) % N = (k % N) + 1 /\ (k + 1) \div N = k \div N
    BY SizeFacts
  <1>4. ((k \div N + 1) % 2 = 0) = ~((k \div N) % 2 = 0)
    BY <1>1
  <1>. QED BY <1>1, <1>2, <1>3, <1>4 DEF Index, Cycle

(* Less than a lap apart, two positions are one entry only if they are one. *)
LEMMA IndexApart ==
  ASSUME NEW j \in Nat, NEW k \in Nat, j <= k, k < j + N, Index(j) = Index(k)
  PROVE  j = k
  <1>. DEFINE d == k \div N - j \div N
  <1>1. d \in Int /\ k - j = N * d
    BY DivMod, SizeFacts DEF Index
  <1>. HIDE DEF d
  <1>2. 0 <= N * d /\ N * d < N
    BY <1>1, SizeFacts
  <1>3. d = 0
    BY <1>1, <1>2, SizeFacts
  <1>. QED BY <1>1, <1>3, SizeFacts

(* A lap apart, they are the same entry with the opposite cycle. *)
LEMMA IndexLap ==
  ASSUME NEW k \in Nat
  PROVE  Index(k + N) = Index(k) /\ Cycle(k + N) = ~Cycle(k)
  <1>1. (k + N) % N = k % N /\ (k + N) \div N = k \div N + 1
    BY SizeFacts
  <1>2. k \div N \in Nat
    BY SizeFacts
  <1>3. ((k \div N + 1) % 2 = 0) = ~((k \div N) % 2 = 0)
    BY <1>2
  <1>. QED BY <1>1, <1>3 DEF Index, Cycle

--------------------------------------------------------------------------------
LEMMA InitInv == Init => Inv
  <1>. SUFFICES ASSUME Init PROVE Inv
    OBVIOUS
  <1>1. TypeOK
    BY SizeFacts DEF Init, TypeOK
  <1>2. Index(0) = 0 /\ Cycle(0)
    BY SizeFacts DEF Index, Cycle
  <1>3. ASSUME NEW k \in Nat, k < N PROVE trbs[Index(k)].cycle = ~Cycle(k)
    <2>1. k \div N = 0
      BY <1>3, SizeFacts
    <2>2. Cycle(k)
      BY <2>1 DEF Cycle
    <2>3. trbs[Index(k)].cycle = FALSE
      <3>1. PICK e \in Event : trbs = [i \in 0 .. N - 1 |-> [event |-> e, cycle |-> FALSE]]
        BY DEF Init
      <3>. QED BY <3>1, IndexRange
    <2>. QED BY <2>2, <2>3
  <1>4. dequeue_index = Index(popped) /\ erdp = Index(acked)
    BY <1>2 DEF Init
  <1>5. cycle_bit = Cycle(popped)
    BY <1>2 DEF Init
  <1>6. posted = 0 /\ popped = 0 /\ acked = 0
    BY DEF Init
  <1>. QED BY <1>1, <1>3, <1>4, <1>5, <1>6, SizeFacts DEF Inv

(* Whether the next entry is fresh is whether an event waits in it. *)
LEMMA InvFresh == Inv => (has_event <=> popped < posted)
  <1>. SUFFICES ASSUME Inv PROVE has_event <=> popped < posted
    OBVIOUS
  <1>. popped \in Nat /\ posted \in Nat /\ popped <= posted
    BY DEF Inv, TypeOK
  <1>1. CASE popped < posted
    <2>1. trbs[Index(popped)].cycle = Cycle(popped)
      BY <1>1 DEF Inv
    <2>. QED BY <1>1, <2>1 DEF Inv, has_event
  <1>2. CASE popped = posted
    <2>1. trbs[Index(popped)].cycle = ~Cycle(popped)
      BY <1>2, SizeFacts DEF Inv
    <2>. QED BY <1>2, <2>1, IndexRange DEF Inv, has_event
  <1>. QED BY <1>1, <1>2

(* A posted event goes where the controller stands, and that entry was behind. *)
LEMMA PostInv == ASSUME Inv, NEW e \in Event, Post(e) PROVE Inv'
  <1>. USE SizeFacts
  <1>t. TypeOK
    BY DEF Inv
  <1>n. posted \in Nat /\ popped \in Nat /\ acked \in Nat
    BY <1>t DEF TypeOK
  <1>1. Index(posted) \in 0 .. N - 1 /\ Cycle(posted) \in BOOLEAN
    BY <1>n, IndexRange
  <1>2. TypeOK'
    BY <1>t, <1>n, <1>1 DEF TypeOK, Post
  <1>3. posted' - acked' < N
    <2>1. posted + 1 - acked # N
      <3>1. posted + 1 = acked + N => Index(posted + 1) = Index(acked)
        BY <1>n, IndexLap
      <3>. QED BY <3>1, <1>n DEF Inv, Post
    <2>. QED BY <2>1, <1>n DEF Inv, Post
  <1>4. posted < popped + N
    BY <1>n DEF Inv
  <1>5. \A k \in Nat :
          k # posted /\ popped <= k /\ k < popped + N => trbs'[Index(k)] = trbs[Index(k)]
    <2>. SUFFICES ASSUME NEW k \in Nat, k # posted, popped <= k, k < popped + N
                  PROVE  trbs'[Index(k)] = trbs[Index(k)]
      OBVIOUS
    <2>1. Index(k) # Index(posted)
      <3>1. CASE k < posted
        BY <3>1, <1>n, <1>4, IndexApart
      <3>2. CASE posted < k
        BY <3>2, <1>n, IndexApart DEF Inv
      <3>. QED BY <3>1, <3>2, <1>n
    <2>. QED BY <2>1, <1>t, IndexRange DEF TypeOK, Post
  <1>6. trbs'[Index(posted)].cycle = Cycle(posted)
    BY <1>t, <1>1 DEF TypeOK, Post
  <1>7. \A k \in Nat : popped <= k /\ k < posted' => trbs'[Index(k)].cycle = Cycle(k)
    BY <1>5, <1>6, <1>n, <1>4 DEF Inv, Post
  <1>8. \A k \in Nat : posted' <= k /\ k < popped + N => trbs'[Index(k)].cycle = ~Cycle(k)
    BY <1>5, <1>n DEF Inv, Post
  <1>. QED BY <1>2, <1>3, <1>7, <1>8, <1>n DEF Inv, Post

(* A popped entry carries, seen from a lap later, the cycle of the lap before. *)
LEMMA PopInv == ASSUME Inv, pop PROVE Inv'
  <1>. USE SizeFacts
  <1>t. TypeOK
    BY DEF Inv
  <1>n. posted \in Nat /\ popped \in Nat /\ acked \in Nat
    BY <1>t DEF TypeOK
  <1>1. popped < posted
    BY InvFresh DEF pop
  <1>2. dequeue_index' = Index(popped + 1) /\ cycle_bit' = Cycle(popped + 1)
    BY <1>n, IndexNext, IndexRange DEF Inv, pop, Advance
  <1>3. Index(popped + 1) \in 0 .. N - 1 /\ Cycle(popped + 1) \in BOOLEAN
    BY <1>n, IndexRange
  <1>4. TypeOK'
    BY <1>t, <1>n, <1>2, <1>3 DEF TypeOK, pop
  <1>5. \A k \in Nat : popped + 1 <= k /\ k < posted => trbs[Index(k)].cycle = Cycle(k)
    BY <1>n DEF Inv
  <1>6. \A k \in Nat : posted <= k /\ k < popped + 1 + N => trbs[Index(k)].cycle = ~Cycle(k)
    <2>. SUFFICES ASSUME NEW k \in Nat, posted <= k, k < popped + 1 + N
                  PROVE  trbs[Index(k)].cycle = ~Cycle(k)
      OBVIOUS
    <2>1. CASE k < popped + N
      BY <2>1 DEF Inv
    <2>2. CASE k = popped + N
      <3>1. trbs[Index(popped)].cycle = Cycle(popped)
        BY <1>1, <1>n DEF Inv
      <3>2. Index(k) = Index(popped) /\ Cycle(k) = ~Cycle(popped)
        BY <2>2, <1>n, IndexLap
      <3>. QED BY <3>1, <3>2, <1>n, IndexRange
    <2>. QED BY <2>1, <2>2, <1>n
  <1>. QED BY <1>1, <1>2, <1>4, <1>5, <1>6, <1>n DEF Inv, pop

LEMMA AcknowledgeInv == ASSUME Inv, Acknowledge PROVE Inv'
  <1>1. TypeOK'
    BY DEF Inv, TypeOK, Acknowledge
  <1>. QED BY <1>1, SizeFacts DEF Inv, TypeOK, Acknowledge

LEMMA StepInv == Inv /\ [Next]_vars => Inv'
  <1>. SUFFICES ASSUME Inv, [Next]_vars PROVE Inv'
    OBVIOUS
  <1>1. CASE UNCHANGED vars
    BY <1>1 DEF Inv, TypeOK, vars
  <1>2. CASE Next
    BY <1>2, PostInv, PopInv, AcknowledgeInv DEF Next
  <1>. QED BY <1>1, <1>2

LEMMA AlwaysInv == Spec => []Inv
  BY InitInv, StepInv, PTL DEF Spec

--------------------------------------------------------------------------------
(* The indices of the ring and its counters keep their ranges (event.rs).     *)
THEOREM EventRingTypeOK == Spec => []TypeOK
  <1>1. Inv => TypeOK
    BY DEF Inv
  <1>. QED BY <1>1, AlwaysInv, PTL

(* has_event tells whether an event waits, at any size, after any number of   *)
(* laps: the cycle bit neither shows a stale entry nor hides a fresh one.     *)
THEOREM EventRingFreshIsPosted == Spec => []FreshIsPosted
  <1>1. Inv => FreshIsPosted
    BY InvFresh DEF FreshIsPosted
  <1>. QED BY <1>1, AlwaysInv, PTL

--------------------------------------------------------------------------------
(* The refinement: what waits in the ring, read from the driver's position to *)
(* the controller's, is the abstract queue.                                   *)
QueueOK ==
  /\ posted - popped \in Nat
  /\ queue \in Seq(Event) /\ Len(queue) = posted - popped
  /\ \A i \in 1 .. posted - popped : queue[i] = trbs[Index(popped + i - 1)].event

LEMMA QueueType == Inv => QueueOK
  <1>. SUFFICES ASSUME Inv PROVE QueueOK
    OBVIOUS
  <1>1. posted - popped \in Nat /\ popped \in Nat /\ posted \in Nat
    BY DEF Inv, TypeOK
  <1>2. ASSUME NEW i \in 1 .. posted - popped
        PROVE  trbs[Index(popped + i - 1)].event \in Event
    <2>1. popped + i - 1 \in Nat
      BY <1>1
    <2>2. Index(popped + i - 1) \in 0 .. N - 1
      BY <2>1, IndexRange
    <2>. QED BY <2>2 DEF Inv, TypeOK
  <1>. QED BY <1>1, <1>2 DEF queue, QueueOK

LEMMA QueueTypeNext == Inv' => QueueOK'
  BY QueueType, PTL

LEMMA InitRefines == Init => F!Init
  <1>. SUFFICES ASSUME Init PROVE F!Init
    OBVIOUS
  <1>1. QueueOK /\ posted = 0 /\ popped = 0
    BY InitInv, QueueType DEF Init
  <1>2. queue = << >>
    BY <1>1 DEF QueueOK
  <1>. QED BY <1>2 DEF Init, F!Init

LEMMA PostRefines == ASSUME Inv, Inv', NEW e \in Event, Post(e) PROVE F!Put(e)
  <1>. USE SizeFacts
  <1>n. posted \in Nat /\ popped \in Nat /\ popped <= posted /\ posted < popped + N
    BY DEF Inv, TypeOK
  <1>1. posted' = posted + 1 /\ popped' = popped /\ UNCHANGED taken
    BY DEF Post
  <1>2. \A i \in 1 .. posted - popped : trbs'[Index(popped + i - 1)] = trbs[Index(popped + i - 1)]
    <2>. SUFFICES ASSUME NEW i \in 1 .. posted - popped
                  PROVE  trbs'[Index(popped + i - 1)] = trbs[Index(popped + i - 1)]
      OBVIOUS
    <2>1. popped + i - 1 \in Nat /\ popped + i - 1 < posted /\ posted < (popped + i - 1) + N
      BY <1>n
    <2>2. Index(popped + i - 1) # Index(posted)
      BY <2>1, <1>n, IndexApart
    <2>. QED BY <2>1, <2>2, IndexRange DEF Inv, TypeOK, Post
  <1>3. trbs'[Index(posted)].event = e
    BY <1>n, IndexRange DEF Inv, TypeOK, Post
  <1>4. QueueOK
    BY QueueType
  <1>5. queue' \in Seq(Event) /\ Len(queue') = posted - popped + 1
    <2>1. queue' \in Seq(Event) /\ Len(queue') = posted' - popped'
      BY QueueTypeNext DEF QueueOK
    <2>. QED BY <2>1, <1>1, <1>n
  <1>6. \A i \in 1 .. posted - popped + 1 : queue'[i] = trbs'[Index(popped + i - 1)].event
    <2>1. \A i \in 1 .. posted' - popped' : queue'[i] = trbs'[Index(popped' + i - 1)].event
      BY QueueTypeNext DEF QueueOK
    <2>2. posted' - popped' = posted - popped + 1
      BY <1>1, <1>n
    <2>. QED BY <2>1, <2>2, <1>1
  <1>7. \A i \in 1 .. posted - popped : queue'[i] = queue[i]
    <2>. SUFFICES ASSUME NEW i \in 1 .. posted - popped PROVE queue'[i] = queue[i]
      OBVIOUS
    <2>1. i \in 1 .. posted - popped + 1
      BY <1>n
    <2>2. queue'[i] = trbs'[Index(popped + i - 1)].event
      BY <2>1, <1>6
    <2>3. queue[i] = trbs[Index(popped + i - 1)].event
      BY <1>4 DEF QueueOK
    <2>. QED BY <2>2, <2>3, <1>2
  <1>8. queue'[posted - popped + 1] = e
    BY <1>3, <1>6, <1>n
  <1>9. queue' = Append(queue, e)
    BY <1>4, <1>5, <1>7, <1>8, <1>n DEF QueueOK
  <1>. QED BY <1>9, <1>1 DEF F!Put

LEMMA PopRefines == ASSUME Inv, Inv', pop PROVE F!Get
  <1>n. posted \in Nat /\ popped \in Nat /\ popped < posted
    BY InvFresh DEF Inv, TypeOK, pop
  <1>1. posted' = posted /\ popped' = popped + 1 /\ UNCHANGED trbs
    BY DEF pop
  <1>2. QueueOK
    BY QueueType
  <1>3. taken' = queue[1]
    BY <1>2, <1>n DEF Inv, pop, QueueOK
  <1>4. queue' \in Seq(Event) /\ Len(queue') = posted - popped - 1
    <2>1. queue' \in Seq(Event) /\ Len(queue') = posted' - popped'
      BY QueueTypeNext DEF QueueOK
    <2>. QED BY <2>1, <1>1, <1>n
  <1>5. \A i \in 1 .. posted - popped - 1 : queue'[i] = queue[i + 1]
    <2>. SUFFICES ASSUME NEW i \in 1 .. posted - popped - 1 PROVE queue'[i] = queue[i + 1]
      OBVIOUS
    <2>1. queue'[i] = trbs[Index(popped + 1 + i - 1)].event
      BY <1>1, <1>n DEF queue
    <2>2. queue[i + 1] = trbs[Index(popped + (i + 1) - 1)].event
      BY <1>2, <1>n DEF QueueOK
    <2>3. popped + 1 + i - 1 = popped + (i + 1) - 1
      BY <1>n
    <2>. QED BY <2>1, <2>2, <2>3
  <1>6. queue' = Tail(queue) /\ Head(queue) = queue[1] /\ queue # << >>
    BY SMTT(30), <1>2, <1>4, <1>5, <1>n DEF QueueOK
  <1>. QED BY <1>3, <1>6 DEF F!Get

LEMMA AcknowledgeStutters == Acknowledge => UNCHANGED <<queue, taken>>
  BY DEF Acknowledge, queue

(* Every event the controller posts is handed to the driver once, in order,   *)
(* and nothing else is, for every size of the ring (event.rs, xhci.rs:452).   *)
THEOREM EventRingIsFifo == Spec => ImplementsFifo
  <1>1. Inv /\ Inv' /\ [Next]_vars => [F!Next]_<<queue, taken>>
    <2>. SUFFICES ASSUME Inv, Inv', [Next]_vars PROVE [F!Next]_<<queue, taken>>
      OBVIOUS
    <2>1. CASE UNCHANGED vars
      BY <2>1 DEF vars, queue
    <2>2. CASE Next
      BY <2>2, PostRefines, PopRefines, AcknowledgeStutters DEF Next, F!Next
    <2>. QED BY <2>1, <2>2
  <1>. QED BY <1>1, InitRefines, AlwaysInv, PTL DEF Spec, ImplementsFifo, F!Spec

--------------------------------------------------------------------------------
(* The processor: code as a sequence of steps.  Kernel code and handlers take  *)
(* a lock, but for the start and the heap's, only in a guarded call: one that  *)
(* first disables interrupts and in the end puts them back to what they were.  *)

Ops == {"cli", "sti", "idt", "restore", "lock", "unlock", "push", "pop", "eoi", "halt"}
Args == K!Locks \cup K!InputEvent \cup {"", K!Timer, K!Keyboard}
Steps == [op : Ops, arg : Args]
Codes == Seq(Steps)

Then(op, arg, rest) == K!Step(op, arg) \o rest

\* The places in a guarded call of lock l around body, with rest to follow.
Restoring(rest) == Then("restore", "", rest)
Leaving(l, rest) == Then("unlock", l, Restoring(rest))
Inside(l, body, rest) == body \o Leaving(l, rest)
Entering(l, body, rest) == Then("lock", l, Inside(l, body, rest))
Guarded(l, body, rest) == Then("cli", "", Entering(l, body, rest))

Bodies == {<< >>, K!Step("pop", "")} \cup {K!Step("push", e) : e \in Key}

LEMMA StepFirst ==
  ASSUME NEW op \in Ops, NEW arg \in Args, NEW rest \in Codes
  PROVE  /\ K!Step(op, arg) \in Codes
         /\ Then(op, arg, rest) \in Codes /\ Then(op, arg, rest) # << >>
         /\ Head(Then(op, arg, rest)).op = op /\ Head(Then(op, arg, rest)).arg = arg
         /\ Tail(Then(op, arg, rest)) = rest
<1> DEFINE s == [op |-> op, arg |-> arg]
<1>1. s \in Steps /\ s.op = op /\ s.arg = arg
  BY DEF Steps
<1> HIDE DEF s
<1>2. <<s>> \in Codes /\ <<s>> \o rest \in Codes /\ <<s>> \o rest # << >>
      /\ Head(<<s>> \o rest) = s /\ Tail(<<s>> \o rest) = rest
  BY <1>1 DEF Codes
<1> QED BY <1>1, <1>2 DEF s, Then, K!Step

LEMMA LastStep ==
  ASSUME NEW op \in Ops, NEW arg \in Args
  PROVE  K!Step(op, arg) \in Codes /\ K!Step(op, arg) = Then(op, arg, << >>)
<1>1. << >> \in Codes
  BY DEF Codes
<1> QED BY <1>1, StepFirst, ConcatEmptySeq DEF Codes, Then

LEMMA ArgsAre ==
  /\ K!Locks \subseteq Args /\ Key \subseteq Args /\ "" \in Args
  /\ K!Timer \in Args /\ K!Keyboard \in Args
  /\ {"PICS", "SERIAL1", "HEAP", "EVENT_QUEUE", "PCI_CONFIG"} \subseteq Args
  BY DEF Args, K!Locks, K!InputEvent

LEMMA OpsAre ==
  /\ "cli" \in Ops /\ "sti" \in Ops /\ "idt" \in Ops /\ "restore" \in Ops /\ "lock" \in Ops
  /\ "unlock" \in Ops /\ "push" \in Ops /\ "pop" \in Ops /\ "eoi" \in Ops /\ "halt" \in Ops
  BY DEF Ops

LEMMA BodiesAreCodes == Bodies \subseteq Codes
<1>1. << >> \in Codes
  BY DEF Codes
<1>2. K!Step("pop", "") \in Codes
  BY ArgsAre, OpsAre, LastStep
<1>3. \A e \in Key : K!Step("push", e) \in Codes
  BY ArgsAre, OpsAre, LastStep
<1> QED BY <1>1, <1>2, <1>3 DEF Bodies

LEMMA PlacesAreCodes ==
  ASSUME NEW l \in K!Locks, NEW body \in Codes, NEW rest \in Codes
  PROVE  /\ Restoring(rest) \in Codes /\ Leaving(l, rest) \in Codes
         /\ Inside(l, body, rest) \in Codes /\ Entering(l, body, rest) \in Codes
         /\ Guarded(l, body, rest) \in Codes
<1>1. l \in Args /\ "" \in Args /\ {"cli", "lock", "unlock", "restore"} \subseteq Ops
  BY ArgsAre, OpsAre
<1>2. Restoring(rest) \in Codes
  BY <1>1, StepFirst DEF Restoring
<1>3. Leaving(l, rest) \in Codes
  BY <1>1, <1>2, StepFirst DEF Leaving
<1>4. Inside(l, body, rest) \in Codes
  BY <1>3, ConcatProperties DEF Inside, Codes
<1>5. Entering(l, body, rest) \in Codes
  BY <1>1, <1>4, StepFirst DEF Entering
<1>6. Guarded(l, body, rest) \in Codes
  BY <1>1, <1>5, StepFirst DEF Guarded
<1> QED BY <1>2, <1>3, <1>4, <1>5, <1>6

\* Concatenation, as a name the provers do not look into.
Cat(s, t) == s \o t

LEMMA CatAssociative ==
  ASSUME NEW s \in Codes, NEW t \in Codes, NEW u \in Codes
  PROVE  Cat(s, t) \in Codes /\ Cat(Cat(s, t), u) = Cat(s, Cat(t, u))
<1>1. s \in Seq(Steps) /\ t \in Seq(Steps) /\ u \in Seq(Steps)
  BY DEF Codes
<1>2. (s \o t) \o u = s \o (t \o u)
  BY <1>1, ConcatAssociative
<1>3. s \o t \in Seq(Steps)
  BY <1>1, ConcatProperties
<1> QED BY <1>2, <1>3 DEF Cat, Codes

LEMMA GuardedCode ==
  ASSUME NEW l \in K!Locks, NEW body \in Codes, NEW rest \in Codes
  PROVE  /\ K!without_interrupts(K!Locked(l, body)) \in Codes
         /\ K!without_interrupts(K!Locked(l, body)) \o rest = Guarded(l, body, rest)
<1> DEFINE cli == K!Step("cli", "")
           lock == K!Step("lock", l)
           unlock == K!Step("unlock", l)
           restore == K!Step("restore", "")
           locked == Cat(Cat(lock, body), unlock)
<1>1. cli \in Codes /\ lock \in Codes /\ unlock \in Codes /\ restore \in Codes
  BY ArgsAre, OpsAre, LastStep
<1>2. K!without_interrupts(K!Locked(l, body)) = Cat(Cat(cli, locked), restore)
  BY DEF K!without_interrupts, K!Locked, Cat
<1>3. Guarded(l, body, rest) = Cat(cli, Cat(lock, Cat(body, Cat(unlock, Cat(restore, rest)))))
  BY DEF Guarded, Entering, Inside, Leaving, Restoring, Then, Cat, cli, lock, unlock, restore
<1> HIDE DEF cli, lock, unlock, restore
<1>4. /\ locked \in Codes /\ Cat(lock, body) \in Codes
      /\ Cat(restore, rest) \in Codes /\ Cat(unlock, Cat(restore, rest)) \in Codes
  BY <1>1, CatAssociative
<1>5. Cat(locked, Cat(restore, rest)) = Cat(lock, Cat(body, Cat(unlock, Cat(restore, rest))))
  BY <1>1, <1>4, CatAssociative
<1> HIDE DEF locked
<1>6. /\ Cat(cli, locked) \in Codes /\ Cat(Cat(cli, locked), restore) \in Codes
      /\ Cat(Cat(Cat(cli, locked), restore), rest) = Cat(cli, Cat(locked, Cat(restore, rest)))
  <2>1. Cat(cli, locked) \in Codes
    BY <1>1, <1>4, CatAssociative
  <2>2. Cat(Cat(cli, locked), Cat(restore, rest)) = Cat(cli, Cat(locked, Cat(restore, rest)))
    BY <1>1, <1>4, CatAssociative
  <2>3. /\ Cat(Cat(cli, locked), restore) \in Codes
        /\ Cat(Cat(Cat(cli, locked), restore), rest) = Cat(Cat(cli, locked), Cat(restore, rest))
    BY <1>1, <2>1, CatAssociative
  <2> QED BY <2>1, <2>2, <2>3
<1> QED BY <1>2, <1>3, <1>5, <1>6 DEF Cat

\* What a guarded call does at each of its places.
Does(todo, op, arg, next) ==
  todo # << >> /\ Head(todo).op = op /\ Head(todo).arg = arg /\ Tail(todo) = next

LEMMA PlaceSteps ==
  ASSUME NEW l \in K!Locks, NEW body \in Codes, NEW rest \in Codes
  PROVE  /\ Does(Guarded(l, body, rest), "cli", "", Entering(l, body, rest))
         /\ Does(Entering(l, body, rest), "lock", l, Inside(l, body, rest))
         /\ Inside(l, << >>, rest) = Leaving(l, rest)
         /\ \A op \in Ops, arg \in Args :
              Does(Inside(l, K!Step(op, arg), rest), op, arg, Leaving(l, rest))
         /\ Does(Leaving(l, rest), "unlock", l, Restoring(rest))
         /\ Does(Restoring(rest), "restore", "", rest)
<1>1. /\ Restoring(rest) \in Codes /\ Leaving(l, rest) \in Codes
      /\ Inside(l, body, rest) \in Codes /\ Entering(l, body, rest) \in Codes
  BY PlacesAreCodes
<1>2. ASSUME NEW op \in Ops, NEW arg \in Args, NEW next \in Codes
      PROVE  Does(Then(op, arg, next), op, arg, next)
  BY StepFirst DEF Does
<1>3. l \in Args /\ "" \in Args
  BY ArgsAre
<1>4. Inside(l, << >>, rest) = Leaving(l, rest)
  BY <1>1, ConcatEmptySeq DEF Inside, Codes
<1>5. ASSUME NEW op \in Ops, NEW arg \in Args
      PROVE  Does(Inside(l, K!Step(op, arg), rest), op, arg, Leaving(l, rest))
  <2>1. Inside(l, K!Step(op, arg), rest) = Then(op, arg, Leaving(l, rest))
    BY DEF Inside, Then
  <2> QED BY <1>1, <1>2, <2>1
<1>6. Does(Guarded(l, body, rest), "cli", "", Entering(l, body, rest))
  BY <1>1, <1>2, <1>3, OpsAre DEF Guarded
<1>7. Does(Entering(l, body, rest), "lock", l, Inside(l, body, rest))
  BY <1>1, <1>2, <1>3, OpsAre DEF Entering
<1>8. Does(Leaving(l, rest), "unlock", l, Restoring(rest))
  BY <1>1, <1>2, <1>3, OpsAre DEF Leaving
<1>9. Does(Restoring(rest), "restore", "", rest)
  BY <1>1, <1>2, <1>3, OpsAre DEF Restoring
<1> QED BY <1>4, <1>5, <1>6, <1>7, <1>8, <1>9

\* A step s taken with interrupts i, what was saved of them, and the locks held.
Saves(s, i, saved, saved2) == saved2 = IF s.op = "cli" THEN i ELSE saved
Enables(s, i, saved, i2) ==
  i2 = IF s.op \in {"cli", "sti"} THEN s.op = "sti" ELSE IF s.op = "restore" THEN saved ELSE i
Holds(s, locks, locks2) ==
  locks2 = IF s.op = "lock" THEN locks \cup {s.arg}
           ELSE IF s.op = "unlock" THEN locks \ {s.arg} ELSE locks
Taken(s, i, saved, locks, i2, saved2, locks2) ==
  Saves(s, i, saved, saved2) /\ Enables(s, i, saved, i2) /\ Holds(s, locks, locks2)

\* Where code in a guarded call stands, and what it then has of interrupts and of locks.
InCall(todo, i, saved, own, l, body, rest, was) ==
  \/ todo = Guarded(l, body, rest) /\ i = was /\ own = {}
  \/ todo = Entering(l, body, rest) /\ i = FALSE /\ saved = was /\ own = {}
  \/ todo = Inside(l, body, rest) /\ i = FALSE /\ saved = was /\ own = {l}
  \/ todo = Leaving(l, rest) /\ i = FALSE /\ saved = was /\ own = {l}
  \/ todo = Restoring(rest) /\ i = FALSE /\ saved = was /\ own = {}

\* What a step in it does: it stays in the call or ends it.
CallGoes(todo, locks, l, body, rest, was, base, i2, saved2, locks2) ==
  /\ \E own2 : /\ locks2 = base \cup own2
               /\ \/ InCall(Tail(todo), i2, saved2, own2, l, body, rest, was)
                  \/ Tail(todo) = rest /\ i2 = was /\ own2 = {}
  /\ Head(todo).op \in {"cli", "lock", "unlock", "restore", "push", "pop"}
  /\ Head(todo).op = "push" => Head(todo).arg \in Key
  /\ Head(todo).op = "lock" => Head(todo).arg \notin locks /\ Head(todo).arg = l
  /\ todo # << >> /\ (i2 = FALSE \/ i2 = was)

\* A guarded call takes its one lock where it holds none, and leaves nothing behind.
LEMMA CallStep ==
  ASSUME NEW l \in K!Locks, NEW body \in Bodies, NEW rest \in Codes, NEW was \in BOOLEAN,
         NEW todo, NEW i, NEW saved, NEW own, NEW base, l \notin base,
         InCall(todo, i, saved, own, l, body, rest, was),
         NEW i2, NEW saved2, NEW locks2,
         Taken(Head(todo), i, saved, base \cup own, i2, saved2, locks2)
  PROVE  CallGoes(todo, base \cup own, l, body, rest, was, base, i2, saved2, locks2)
<1> SUFFICES /\ \E own2 : /\ locks2 = base \cup own2
                          /\ \/ InCall(Tail(todo), i2, saved2, own2, l, body, rest, was)
                             \/ Tail(todo) = rest /\ i2 = was /\ own2 = {}
             /\ Head(todo).op \in {"cli", "lock", "unlock", "restore", "push", "pop"}
             /\ Head(todo).op = "push" => Head(todo).arg \in Key
             /\ Head(todo).op = "lock" => Head(todo).arg \notin base \cup own /\ Head(todo).arg = l
             /\ todo # << >> /\ (i2 = FALSE \/ i2 = was)
  BY DEF CallGoes
<1>1. l \in Args /\ "" \in Args /\ body \in Codes /\ Key \subseteq Args
  BY ArgsAre, BodiesAreCodes
<1>2. /\ Does(Guarded(l, body, rest), "cli", "", Entering(l, body, rest))
      /\ Does(Entering(l, body, rest), "lock", l, Inside(l, body, rest))
      /\ Inside(l, << >>, rest) = Leaving(l, rest)
      /\ \A op \in Ops, arg \in Args :
           Does(Inside(l, K!Step(op, arg), rest), op, arg, Leaving(l, rest))
      /\ Does(Leaving(l, rest), "unlock", l, Restoring(rest))
      /\ Does(Restoring(rest), "restore", "", rest)
  BY <1>1, PlaceSteps
<1>3. CASE todo = Guarded(l, body, rest) /\ i = was /\ own = {}
  <2>1. /\ todo # << >> /\ Head(todo).op = "cli" /\ Tail(todo) = Entering(l, body, rest)
    BY <1>1, <1>2, <1>3 DEF Does
  <2>2. i2 = FALSE /\ saved2 = was /\ locks2 = base \cup own
    BY <1>3, <2>1 DEF Taken, Saves, Enables, Holds
  <2> QED BY <1>3, <2>1, <2>2 DEF InCall
<1>4. CASE todo = Entering(l, body, rest) /\ i = FALSE /\ saved = was /\ own = {}
  <2>1. /\ todo # << >> /\ Head(todo).op = "lock" /\ Head(todo).arg = l
        /\ Tail(todo) = Inside(l, body, rest)
    BY <1>2, <1>4 DEF Does
  <2>2. i2 = FALSE /\ saved2 = was /\ locks2 = base \cup {l}
    BY <1>4, <2>1 DEF Taken, Saves, Enables, Holds
  <2> QED BY <1>4, <2>1, <2>2 DEF InCall
<1>5. ASSUME todo = Leaving(l, rest), i = FALSE, saved = was, own = {l}
      PROVE  /\ todo # << >> /\ Head(todo).op = "unlock" /\ Tail(todo) = Restoring(rest)
             /\ i2 = FALSE /\ saved2 = was /\ locks2 = base \cup {}
  <2>1. /\ todo # << >> /\ Head(todo).op = "unlock" /\ Head(todo).arg = l
        /\ Tail(todo) = Restoring(rest)
    BY <1>2, <1>5 DEF Does
  <2> QED BY <1>5, <2>1 DEF Taken, Saves, Enables, Holds
<1>6. CASE todo = Leaving(l, rest) /\ i = FALSE /\ saved = was /\ own = {l}
  BY <1>5, <1>6 DEF InCall
<1>7. CASE todo = Inside(l, body, rest) /\ i = FALSE /\ saved = was /\ own = {l}
  <2>1. CASE body = << >>
    <3>1. todo = Leaving(l, rest)
      BY <1>2, <1>7, <2>1
    <3> QED BY <1>6, <1>7, <3>1
  <2>2. ASSUME NEW op \in Ops, op \in {"push", "pop"}, NEW arg \in Args, body = K!Step(op, arg)
        PROVE  /\ todo # << >> /\ Head(todo).op = op /\ Head(todo).arg = arg
               /\ Tail(todo) = Leaving(l, rest)
               /\ i2 = FALSE /\ saved2 = was /\ locks2 = base \cup {l}
    <3>1. /\ todo # << >> /\ Head(todo).op = op /\ Head(todo).arg = arg
          /\ Tail(todo) = Leaving(l, rest)
      BY <1>2, <1>7, <2>2 DEF Does
    <3>2. \A o \in {"cli", "sti", "restore", "lock", "unlock"} : Head(todo).op # o
      BY <2>2, <3>1
    <3>3. i2 = i /\ saved2 = saved /\ locks2 = base \cup own
      BY <3>2 DEF Taken, Saves, Enables, Holds
    <3> QED BY <1>7, <3>1, <3>3
  <2>3. CASE body = K!Step("pop", "")
    BY <1>1, <1>7, <2>2, <2>3, OpsAre DEF InCall
  <2>4. ASSUME NEW e \in Key, body = K!Step("push", e)
        PROVE  /\ todo # << >> /\ Head(todo).op = "push" /\ Head(todo).arg = e
               /\ Tail(todo) = Leaving(l, rest)
               /\ i2 = FALSE /\ saved2 = was /\ locks2 = base \cup {l}
    BY <1>1, <2>2, <2>4, OpsAre
  <2>5. CASE \E e \in Key : body = K!Step("push", e)
    BY <1>7, <2>4, <2>5 DEF InCall
  <2> QED BY <2>1, <2>3, <2>5 DEF Bodies
<1>8. CASE todo = Restoring(rest) /\ i = FALSE /\ saved = was /\ own = {}
  <2>1. /\ todo # << >> /\ Head(todo).op = "restore" /\ Tail(todo) = rest
    BY <1>2, <1>8 DEF Does
  <2>2. i2 = was /\ locks2 = base \cup {}
    BY <1>8, <2>1 DEF Taken, Saves, Enables, Holds
  <2> QED BY <1>8, <2>1, <2>2
<1> QED BY <1>3, <1>4, <1>6, <1>7, <1>8 DEF InCall

\* There is always a step left in it.
LEMMA CallIsNotOver ==
  ASSUME NEW l \in K!Locks, NEW body \in Bodies, NEW rest \in Codes, NEW was,
         NEW todo, NEW i, NEW saved, NEW own,
         InCall(todo, i, saved, own, l, body, rest, was)
  PROVE  todo # << >>
<1>1. l \in Args /\ "" \in Args /\ body \in Codes /\ Key \subseteq Args
  BY ArgsAre, BodiesAreCodes
<1>2. /\ Guarded(l, body, rest) # << >> /\ Entering(l, body, rest) # << >>
      /\ Leaving(l, rest) # << >> /\ Restoring(rest) # << >>
      /\ Inside(l, << >>, rest) = Leaving(l, rest)
      /\ \A op \in Ops, arg \in Args : Inside(l, K!Step(op, arg), rest) # << >>
  <2>1. /\ Does(Guarded(l, body, rest), "cli", "", Entering(l, body, rest))
        /\ Does(Entering(l, body, rest), "lock", l, Inside(l, body, rest))
        /\ Inside(l, << >>, rest) = Leaving(l, rest)
        /\ Does(Leaving(l, rest), "unlock", l, Restoring(rest))
        /\ Does(Restoring(rest), "restore", "", rest)
    BY <1>1, PlaceSteps
  <2>2. \A op \in Ops, arg \in Args :
          Does(Inside(l, K!Step(op, arg), rest), op, arg, Leaving(l, rest))
    BY <1>1, PlaceSteps
  <2> QED BY <2>1, <2>2 DEF Does
<1>3. Inside(l, body, rest) # << >>
  BY <1>1, <1>2, OpsAre DEF Bodies
<1> QED BY <1>2, <1>3 DEF InCall

\* The code of the start, and of the end of an interrupt.
Started == Then("sti", "", << >>)
Unlocking == Then("unlock", "PICS", Started)
Locking == Then("lock", "PICS", Unlocking)
Start == Then("idt", "", Locking)

\* The code that gives the heap its memory.
HeapUnlocking == Then("unlock", "HEAP", << >>)
HeapLocking == Then("lock", "HEAP", HeapUnlocking)

Acked == Then("unlock", "PICS", << >>)
Acking(line) == Then("eoi", line, Acked)
Notify(line) == Then("lock", "PICS", Acking(line))

Halting == Then("halt", "", << >>)

WithHandler == {K!Timer, K!Keyboard}

LEMMA StraightSteps ==
  /\ Does(Start, "idt", "", Locking) /\ Does(Locking, "lock", "PICS", Unlocking)
  /\ Does(Unlocking, "unlock", "PICS", Started) /\ Does(Started, "sti", "", << >>)
  /\ Does(Halting, "halt", "", << >>) /\ Halting \in Codes /\ Start \in Codes
  /\ Does(HeapLocking, "lock", "HEAP", HeapUnlocking) /\ HeapLocking \in Codes
  /\ Does(HeapUnlocking, "unlock", "HEAP", << >>)
  /\ Does(Acked, "unlock", "PICS", << >>)
  /\ \A line \in WithHandler : /\ Does(Notify(line), "lock", "PICS", Acking(line))
                          /\ Does(Acking(line), "eoi", line, Acked)
                          /\ Notify(line) \in Codes
<1>1. ASSUME NEW op \in Ops, NEW arg \in Args, NEW next \in Codes
      PROVE  Does(Then(op, arg, next), op, arg, next) /\ Then(op, arg, next) \in Codes
  BY StepFirst DEF Does
<1>2. << >> \in Codes /\ "PICS" \in Args /\ "" \in Args /\ \A line \in WithHandler : line \in Args
  <2>1. << >> \in Codes
    BY DEF Codes
  <2>2. "PICS" \in Args /\ "" \in Args
    BY ArgsAre
  <2>3. \A line \in WithHandler : line \in Args
    BY ArgsAre DEF WithHandler
  <2> QED BY <2>1, <2>2, <2>3
<1>3. Does(Started, "sti", "", << >>) /\ Started \in Codes
  BY <1>1, <1>2, OpsAre DEF Started
<1>4. Does(Unlocking, "unlock", "PICS", Started) /\ Unlocking \in Codes
  BY <1>1, <1>2, <1>3, OpsAre DEF Unlocking
<1>5. Does(Locking, "lock", "PICS", Unlocking) /\ Locking \in Codes
  BY <1>1, <1>2, <1>4, OpsAre DEF Locking
<1>6. Does(Start, "idt", "", Locking) /\ Start \in Codes
  BY <1>1, <1>2, <1>5, OpsAre DEF Start
<1>7. Does(Halting, "halt", "", << >>) /\ Halting \in Codes
  BY <1>1, <1>2, OpsAre DEF Halting
<1>8. Does(Acked, "unlock", "PICS", << >>) /\ Acked \in Codes
  BY <1>1, <1>2, OpsAre DEF Acked
<1>9. ASSUME NEW line \in WithHandler
      PROVE  /\ Does(Notify(line), "lock", "PICS", Acking(line))
             /\ Does(Acking(line), "eoi", line, Acked)
             /\ Notify(line) \in Codes
  <2>1. Does(Acking(line), "eoi", line, Acked) /\ Acking(line) \in Codes
    BY <1>1, <1>2, <1>8, OpsAre DEF Acking
  <2> QED BY <1>1, <1>2, <2>1, OpsAre DEF Notify
<1>10. "HEAP" \in Args
  BY ArgsAre
<1>11. Does(HeapUnlocking, "unlock", "HEAP", << >>) /\ HeapUnlocking \in Codes
  BY <1>1, <1>2, <1>10, OpsAre DEF HeapUnlocking
<1>12. Does(HeapLocking, "lock", "HEAP", HeapUnlocking) /\ HeapLocking \in Codes
  BY <1>1, <1>10, <1>11, OpsAre DEF HeapLocking
<1> QED BY <1>3, <1>4, <1>5, <1>6, <1>7, <1>8, <1>9, <1>11, <1>12

LEMMA CodesAre ==
  /\ K!init = Start /\ K!init_heap = HeapLocking
  /\ \A line \in WithHandler : K!notify_end_of_interrupt(line) = Notify(line)
  /\ K!_print = Guarded("SERIAL1", << >>, << >>)
  /\ K!alloc = Guarded("HEAP", << >>, << >>)
  /\ K!read_word = Guarded("PCI_CONFIG", << >>, << >>)
  /\ K!pop_event = Guarded("EVENT_QUEUE", K!Step("pop", ""), << >>)
  /\ K!page_fault_handler = Guarded("SERIAL1", << >>, Halting)
  /\ \A e \in Key : K!push_event(e) \o Notify(K!Keyboard)
                      = Guarded("EVENT_QUEUE", K!Step("push", e), Notify(K!Keyboard))
<1>1. /\ << >> \in Codes /\ K!Step("pop", "") \in Codes
      /\ \A e \in Key : K!Step("push", e) \in Codes
      /\ {"SERIAL1", "HEAP", "PCI_CONFIG", "EVENT_QUEUE"} \subseteq K!Locks
      /\ Halting \in Codes /\ Notify(K!Keyboard) \in Codes
  <2>1. K!Keyboard \in WithHandler
    BY DEF WithHandler
  <2>2. << >> \in Codes
    BY DEF Codes
  <2>3. K!Step("pop", "") \in Codes /\ \A e \in Key : K!Step("push", e) \in Codes
    BY ArgsAre, OpsAre, LastStep
  <2>4. {"SERIAL1", "HEAP", "PCI_CONFIG", "EVENT_QUEUE"} \subseteq K!Locks
    BY DEF K!Locks
  <2> QED BY <2>1, <2>2, <2>3, <2>4, StraightSteps
<1>2. ASSUME NEW l \in K!Locks, NEW body \in Codes
      PROVE  /\ K!without_interrupts(K!Locked(l, body)) \in Codes
             /\ K!without_interrupts(K!Locked(l, body)) = Guarded(l, body, << >>)
  <2>1. K!without_interrupts(K!Locked(l, body)) \in Codes
    BY GuardedCode
  <2>2. K!without_interrupts(K!Locked(l, body)) \o << >> = K!without_interrupts(K!Locked(l, body))
    BY <2>1, ConcatEmptySeq DEF Codes
  <2> QED BY <1>1, <2>1, <2>2, GuardedCode
<1>3. /\ K!_print = Guarded("SERIAL1", << >>, << >>)
      /\ K!alloc = Guarded("HEAP", << >>, << >>)
      /\ K!read_word = Guarded("PCI_CONFIG", << >>, << >>)
      /\ K!pop_event = Guarded("EVENT_QUEUE", K!Step("pop", ""), << >>)
  BY <1>1, <1>2 DEF K!_print, K!alloc, K!read_word, K!pop_event
<1>4. K!page_fault_handler = Guarded("SERIAL1", << >>, Halting)
  <2>1. K!Step("halt", "") = Halting
    BY ArgsAre, OpsAre, LastStep DEF Halting
  <2>2. K!page_fault_handler = K!without_interrupts(K!Locked("SERIAL1", << >>)) \o Halting
    BY <2>1 DEF K!page_fault_handler, K!_print
  <2> QED BY <1>1, <2>2, GuardedCode
<1>5. ASSUME NEW e \in Key
      PROVE  K!push_event(e) \o Notify(K!Keyboard)
               = Guarded("EVENT_QUEUE", K!Step("push", e), Notify(K!Keyboard))
  BY <1>1, GuardedCode DEF K!push_event
<1>6. ASSUME NEW line \in WithHandler PROVE K!notify_end_of_interrupt(line) = Notify(line)
  <2> DEFINE lock == K!Step("lock", "PICS")
             eoi == K!Step("eoi", line)
             unlock == K!Step("unlock", "PICS")
  <2>1. /\ lock \in Codes /\ eoi \in Codes /\ unlock \in Codes /\ unlock = Acked
    <3>1. "PICS" \in Args /\ line \in Args
      BY ArgsAre DEF WithHandler
    <3> QED BY <3>1, OpsAre, LastStep DEF Acked
  <2>2. K!notify_end_of_interrupt(line) = Cat(Cat(lock, eoi), unlock)
    BY DEF K!notify_end_of_interrupt, K!Locked, Cat
  <2>3. Notify(line) = Cat(lock, Cat(eoi, unlock))
    BY <2>1 DEF Notify, Acking, Then, Cat
  <2> HIDE DEF lock, eoi, unlock
  <2> QED BY <2>1, <2>2, <2>3, CatAssociative
<1>7. K!init = Start
  <2> DEFINE idt_ == K!Step("idt", "")
             lock == K!Step("lock", "PICS")
             unlock == K!Step("unlock", "PICS")
             sti == K!Step("sti", "")
  <2>1. /\ lock \in Codes /\ idt_ \in Codes /\ unlock \in Codes /\ sti \in Codes /\ sti = Started
    BY ArgsAre, OpsAre, LastStep DEF Started
  <2>2. lock \o << >> = lock
    BY <2>1, ConcatEmptySeq DEF Codes
  <2>3. K!init = Cat(Cat(idt_, Cat(lock, unlock)), sti)
    BY <2>2 DEF K!init, K!Locked, Cat
  <2>4. Start = Cat(idt_, Cat(lock, Cat(unlock, sti)))
    BY <2>1 DEF Start, Locking, Unlocking, Then, Cat
  <2> HIDE DEF idt_, lock, unlock, sti
  <2>5. Cat(lock, unlock) \in Codes /\ Cat(Cat(lock, unlock), sti) = Cat(lock, Cat(unlock, sti))
    BY <2>1, CatAssociative
  <2>6. Cat(Cat(idt_, Cat(lock, unlock)), sti) = Cat(idt_, Cat(Cat(lock, unlock), sti))
    BY <2>1, <2>5, CatAssociative
  <2> QED BY <2>3, <2>4, <2>5, <2>6
<1>8. K!init_heap = HeapLocking
  <2> DEFINE lock == K!Step("lock", "HEAP")
             unlock == K!Step("unlock", "HEAP")
  <2>1. lock \in Codes /\ unlock \in Codes /\ unlock = HeapUnlocking
    BY ArgsAre, OpsAre, LastStep DEF HeapUnlocking
  <2>2. lock \o << >> = lock
    BY <2>1, ConcatEmptySeq DEF Codes
  <2>3. K!init_heap = Cat(lock, unlock)
    BY <2>2 DEF K!init_heap, K!Locked, Cat
  <2>4. HeapLocking = Cat(lock, unlock)
    BY <2>1 DEF HeapLocking, Then, Cat
  <2> QED BY <2>3, <2>4
<1> QED BY <1>3, <1>4, <1>5, <1>6, <1>7, <1>8

--------------------------------------------------------------------------------
(* The queue of input events. *)

QueueTyped ==
  /\ buffer \in [0 .. QUEUE_SIZE - 1 -> K!InputEvent] /\ polled \in K!InputEvent
  /\ head \in 0 .. QUEUE_SIZE - 1 /\ tail \in 0 .. QUEUE_SIZE - 1

\* The remainder, for numbers no further off than once around.
LEMMA Wrap ==
  ASSUME NEW x \in Int
  PROVE  /\ QUEUE_SIZE \in Nat /\ QUEUE_SIZE > 0
         /\ x % QUEUE_SIZE \in 0 .. QUEUE_SIZE - 1
         /\ 0 <= x /\ x < QUEUE_SIZE => x % QUEUE_SIZE = x
         /\ x < 0 /\ -QUEUE_SIZE <= x => x % QUEUE_SIZE = x + QUEUE_SIZE
         /\ QUEUE_SIZE <= x /\ x < 2 * QUEUE_SIZE => x % QUEUE_SIZE = x - QUEUE_SIZE
  BY KernelAssumption

\* How many wait, and where: those from the tail on, around the end.
Waiting == (head - tail) % QUEUE_SIZE
Place(i) == (tail + i - 1) % QUEUE_SIZE

LEMMA WaitingIs ==
  ASSUME QueueTyped
  PROVE  /\ QUEUE_SIZE \in Nat /\ QUEUE_SIZE > 0
         /\ Waiting = IF tail <= head THEN head - tail ELSE head - tail + QUEUE_SIZE
         /\ Waiting \in 0 .. QUEUE_SIZE - 1
         /\ \A i \in 1 .. QUEUE_SIZE :
              Place(i) = IF tail + i - 1 < QUEUE_SIZE THEN tail + i - 1
                                                     ELSE tail + i - 1 - QUEUE_SIZE
<1>1. /\ QUEUE_SIZE \in Nat /\ QUEUE_SIZE > 0
      /\ head \in 0 .. QUEUE_SIZE - 1 /\ tail \in 0 .. QUEUE_SIZE - 1
  BY KernelAssumption DEF QueueTyped
<1>2. head - tail \in Int /\ -QUEUE_SIZE <= head - tail /\ head - tail < QUEUE_SIZE
  BY <1>1
<1>3. /\ Waiting = IF tail <= head THEN head - tail ELSE head - tail + QUEUE_SIZE
      /\ Waiting \in 0 .. QUEUE_SIZE - 1
  BY <1>1, <1>2, Wrap DEF Waiting
<1>4. ASSUME NEW i \in 1 .. QUEUE_SIZE
      PROVE  Place(i) = IF tail + i - 1 < QUEUE_SIZE THEN tail + i - 1
                                                       ELSE tail + i - 1 - QUEUE_SIZE
  <2>1. tail + i - 1 \in Int /\ 0 <= tail + i - 1 /\ tail + i - 1 < 2 * QUEUE_SIZE
    BY <1>1
  <2> QED BY <1>1, <2>1, Wrap DEF Place
<1> QED BY <1>1, <1>3, <1>4

QueueRead ==
  /\ K!queue \in Seq(K!InputEvent) /\ Len(K!queue) = Waiting
  /\ \A i \in 1 .. Waiting : K!queue[i] = buffer[Place(i)]

LEMMA QueueIs == QueueTyped => QueueRead
<1> SUFFICES ASSUME QueueTyped PROVE QueueRead
  OBVIOUS
<1>1. Waiting \in Nat /\ \A i \in 1 .. Waiting : Place(i) \in 0 .. QUEUE_SIZE - 1
  <2>1. tail \in Nat /\ Waiting \in Nat
    BY WaitingIs DEF QueueTyped
  <2>2. \A i \in 1 .. Waiting : tail + i - 1 \in Int
    BY <2>1
  <2> QED BY <2>1, <2>2, Wrap DEF Place
<1>2. \A i \in 1 .. Waiting : buffer[Place(i)] \in K!InputEvent
  BY <1>1 DEF QueueTyped
<1>3. K!queue = [i \in 1 .. Waiting |-> buffer[Place(i)]]
  BY DEF K!queue, Waiting, Place
<1> QED BY <1>1, <1>2, <1>3 DEF QueueRead

LEMMA QueueIsNext == QueueTyped' => QueueRead'
  BY QueueIs, PTL

LEMMA QueuePush ==
  ASSUME QueueTyped, NEW e \in K!InputEvent, K!push(e)
  PROVE  QueueTyped' /\ (K!F!Put(e) \/ UNCHANGED <<K!queue, polled>>)
<1>1. /\ head \in 0 .. QUEUE_SIZE - 1 /\ tail \in 0 .. QUEUE_SIZE - 1
      /\ buffer \in [0 .. QUEUE_SIZE - 1 -> K!InputEvent] /\ UNCHANGED <<tail, polled>>
      /\ QUEUE_SIZE \in Nat /\ QUEUE_SIZE > 0
  BY WaitingIs DEF QueueTyped, K!push
<1> DEFINE next == (head + 1) % QUEUE_SIZE
<1>2. next = (IF head + 1 < QUEUE_SIZE THEN head + 1 ELSE 0) /\ next \in 0 .. QUEUE_SIZE - 1
  BY <1>1, Wrap
<1>3. CASE next = tail
  <2>1. UNCHANGED <<buffer, head>>
    BY <1>3 DEF K!push
  <2> QED BY <1>1, <2>1 DEF QueueTyped, K!queue
<1>4. CASE next # tail
  <2>1. buffer' = [buffer EXCEPT ![head] = e] /\ head' = next
    BY <1>4 DEF K!push
  <2> HIDE DEF next
  <2>2. QueueTyped'
    BY <1>1, <1>2, <2>1 DEF QueueTyped
  <2>3. /\ K!queue \in Seq(K!InputEvent) /\ Len(K!queue) = Waiting
        /\ \A i \in 1 .. Waiting : K!queue[i] = buffer[Place(i)]
        /\ K!queue' \in Seq(K!InputEvent) /\ Len(K!queue') = Waiting'
        /\ \A i \in 1 .. Waiting' : K!queue'[i] = buffer'[Place(i)']
    BY <2>2, QueueIs, QueueIsNext DEF QueueRead
  <2>4. /\ Waiting = IF tail <= head THEN head - tail ELSE head - tail + QUEUE_SIZE
        /\ Waiting \in 0 .. QUEUE_SIZE - 1
        /\ \A i \in 1 .. QUEUE_SIZE :
             Place(i) = IF tail + i - 1 < QUEUE_SIZE THEN tail + i - 1
                                                    ELSE tail + i - 1 - QUEUE_SIZE
    BY WaitingIs
  <2>5. Waiting' = Waiting + 1 /\ Waiting + 1 <= QUEUE_SIZE - 1
    <3>1. Waiting' = (next - tail) % QUEUE_SIZE
      BY <1>1, <2>1 DEF Waiting
    <3>2. (next - tail) % QUEUE_SIZE = IF tail <= next THEN next - tail
                                                     ELSE next - tail + QUEUE_SIZE
      BY <1>1, <1>2, Wrap
    <3> QED BY <1>1, <1>2, <1>4, <2>4, <3>1, <3>2
  <2>6. \A i \in 1 .. Waiting + 1 : Place(i)' = Place(i)
    BY <1>1 DEF Place
  <2>7. \A i \in 1 .. Waiting : Place(i) \in 0 .. QUEUE_SIZE - 1 /\ Place(i) # head
    BY <1>1, <2>4
  <2>8. Place(Waiting + 1) = head
    BY <1>1, <2>4, <2>5
  <2> HIDE DEF Waiting, Place
  <2>9. Waiting \in Nat /\ Waiting + 1 \in 1 .. Waiting'
    BY <2>4, <2>5
  <2>10. K!queue' = Append(K!queue, e)
    <3>1. /\ Append(K!queue, e) \in Seq(K!InputEvent)
          /\ Len(Append(K!queue, e)) = Waiting + 1
          /\ \A i \in 1 .. Waiting : Append(K!queue, e)[i] = K!queue[i]
          /\ Append(K!queue, e)[Waiting + 1] = e
      BY <2>3, AppendProperties
    <3>2. \A i \in 1 .. Waiting : K!queue'[i] = K!queue[i]
      <4> SUFFICES ASSUME NEW i \in 1 .. Waiting PROVE K!queue'[i] = K!queue[i]
        OBVIOUS
      <4>1. i \in 1 .. Waiting' /\ i \in 1 .. Waiting + 1
        BY <2>5, <2>9
      <4>2. K!queue'[i] = buffer'[Place(i)]
        BY <2>3, <2>6, <4>1
      <4>3. buffer'[Place(i)] = buffer[Place(i)]
        BY <1>1, <2>1, <2>7
      <4> QED BY <2>3, <4>2, <4>3
    <3>3. K!queue'[Waiting + 1] = e
      <4>1. K!queue'[Waiting + 1] = buffer'[Place(Waiting + 1)]
        BY <2>3, <2>6, <2>9
      <4> QED BY <1>1, <2>1, <2>8, <4>1
    <3>4. \A i \in 1 .. Waiting + 1 : K!queue'[i] = Append(K!queue, e)[i]
      BY <2>9, <3>1, <3>2, <3>3
    <3> QED BY <2>3, <2>5, <3>1, <3>4, SeqEqual
  <2>11. K!F!Put(e)
    BY <1>1, <2>10 DEF K!F!Put
  <2> QED BY <2>2, <2>11
<1> QED BY <1>3, <1>4

LEMMA QueuePop ==
  ASSUME QueueTyped, K!pop
  PROVE  QueueTyped' /\ (K!F!Get \/ UNCHANGED <<K!queue, polled>>)
<1>1. /\ head \in 0 .. QUEUE_SIZE - 1 /\ tail \in 0 .. QUEUE_SIZE - 1
      /\ buffer \in [0 .. QUEUE_SIZE - 1 -> K!InputEvent] /\ UNCHANGED <<buffer, head>>
      /\ QUEUE_SIZE \in Nat /\ QUEUE_SIZE > 0
  BY WaitingIs DEF QueueTyped, K!pop
<1>2. CASE head = tail
  <2>1. UNCHANGED <<polled, tail>>
    BY <1>2 DEF K!pop
  <2> QED BY <1>1, <2>1 DEF QueueTyped, K!queue
<1>3. CASE head # tail
  <2> DEFINE next == (tail + 1) % QUEUE_SIZE
  <2>1. polled' = buffer[tail] /\ tail' = next
    BY <1>3 DEF K!pop
  <2>2. next = (IF tail + 1 < QUEUE_SIZE THEN tail + 1 ELSE 0) /\ next \in 0 .. QUEUE_SIZE - 1
    BY <1>1, Wrap
  <2> HIDE DEF next
  <2>3. QueueTyped'
    BY <1>1, <2>1, <2>2 DEF QueueTyped
  <2>4. /\ K!queue \in Seq(K!InputEvent) /\ Len(K!queue) = Waiting
        /\ \A i \in 1 .. Waiting : K!queue[i] = buffer[Place(i)]
        /\ K!queue' \in Seq(K!InputEvent) /\ Len(K!queue') = Waiting'
        /\ \A i \in 1 .. Waiting' : K!queue'[i] = buffer'[Place(i)']
    BY <2>3, QueueIs, QueueIsNext DEF QueueRead
  <2>5. /\ Waiting = IF tail <= head THEN head - tail ELSE head - tail + QUEUE_SIZE
        /\ Waiting \in 1 .. QUEUE_SIZE - 1
        /\ \A i \in 1 .. QUEUE_SIZE :
             Place(i) = IF tail + i - 1 < QUEUE_SIZE THEN tail + i - 1
                                                    ELSE tail + i - 1 - QUEUE_SIZE
    BY <1>1, <1>3, WaitingIs
  <2>6. Waiting' = Waiting - 1
    <3>1. Waiting' = (head - next) % QUEUE_SIZE
      BY <1>1, <2>1 DEF Waiting
    <3>2. (head - next) % QUEUE_SIZE = IF next <= head THEN head - next
                                                     ELSE head - next + QUEUE_SIZE
      BY <1>1, <2>2, Wrap
    <3> QED BY <1>1, <1>3, <2>2, <2>5, <3>1, <3>2
  <2>7. \A i \in 1 .. Waiting - 1 : Place(i)' = Place(i + 1)
    <3> SUFFICES ASSUME NEW i \in 1 .. Waiting - 1 PROVE Place(i)' = Place(i + 1)
      OBVIOUS
    <3>1. Place(i)' = (next + i - 1) % QUEUE_SIZE
      BY <2>1 DEF Place
    <3>2. (next + i - 1) % QUEUE_SIZE = IF next + i - 1 < QUEUE_SIZE THEN next + i - 1
                                        ELSE next + i - 1 - QUEUE_SIZE
      BY <1>1, <2>2, <2>5, Wrap
    <3> QED BY <1>1, <2>2, <2>5, <3>1, <3>2
  <2>8. Place(1) = tail /\ tail \in 0 .. QUEUE_SIZE - 1
    BY <1>1, <2>5
  <2> HIDE DEF Waiting, Place
  <2>9. Waiting \in Nat /\ 1 \in 1 .. Waiting /\ K!queue # << >>
    BY <2>4, <2>5
  <2>10. K!queue' = Tail(K!queue)
    <3>1. /\ Tail(K!queue) \in Seq(K!InputEvent) /\ Len(Tail(K!queue)) = Waiting - 1
          /\ \A i \in 1 .. Waiting - 1 : Tail(K!queue)[i] = K!queue[i + 1]
      BY <2>4, <2>9, HeadTailProperties
    <3>2. \A i \in 1 .. Waiting - 1 : K!queue'[i] = K!queue[i + 1]
      <4> SUFFICES ASSUME NEW i \in 1 .. Waiting - 1 PROVE K!queue'[i] = K!queue[i + 1]
        OBVIOUS
      <4>1. i \in 1 .. Waiting' /\ i + 1 \in 1 .. Waiting
        BY <2>6, <2>9
      <4>2. K!queue'[i] = buffer'[Place(i)'] /\ K!queue[i + 1] = buffer[Place(i + 1)]
        BY <2>4, <4>1
      <4> QED BY <1>1, <2>7, <4>2
    <3>3. \A i \in 1 .. Len(K!queue') : K!queue'[i] = Tail(K!queue)[i]
      BY <2>4, <2>6, <3>1, <3>2
    <3> QED BY <2>4, <2>6, <3>1, <3>3, SeqEqual
  <2>11. polled' = Head(K!queue)
    BY <2>1, <2>4, <2>8, <2>9
  <2>12. K!F!Get
    BY <2>9, <2>10, <2>11 DEF K!F!Get
  <2> QED BY <2>3, <2>12
<1> QED BY <1>2, <1>3

--------------------------------------------------------------------------------
(* The invariant of the processor. *)

Frames == [name : {"main", "handler", "fault"}, todo : Codes, saved : BOOLEAN]

\* Kernel code f, which has interrupts i, locks own and the interrupt table, or not yet.
MainAt(f, i, own, t) ==
  \/ f.todo = Start /\ i = FALSE /\ own = {} /\ t = FALSE
  \/ f.todo = Locking /\ i = FALSE /\ own = {} /\ t = TRUE
  \/ f.todo = Unlocking /\ i = FALSE /\ own = {"PICS"} /\ t = TRUE
  \/ f.todo = Started /\ i = FALSE /\ own = {} /\ t = TRUE
  \/ f.todo = << >> /\ i = TRUE /\ own = {} /\ t = TRUE
  \/ f.todo = HeapLocking /\ i = TRUE /\ own = {} /\ t = TRUE
  \/ f.todo = HeapUnlocking /\ i = TRUE /\ own = {"HEAP"} /\ t = TRUE
  \/ /\ t = TRUE
     /\ \E l \in K!Locks, body \in Bodies : InCall(f.todo, i, f.saved, own, l, body, << >>, TRUE)

\* A handler f, which runs with interrupts disabled.
Pushing(f, own) ==
  \E e \in Key :
    InCall(f.todo, FALSE, f.saved, own, "EVENT_QUEUE", K!Step("push", e), Notify(K!Keyboard), FALSE)

HandlerAt(f, own, service) ==
  \/ Pushing(f, own) /\ service = {K!Keyboard}
  \/ \E line \in WithHandler : f.todo = Notify(line) /\ own = {} /\ service = {line}
  \/ \E line \in WithHandler : f.todo = Acking(line) /\ own = {"PICS"} /\ service = {line}
  \/ f.todo = Acked /\ own = {"PICS"} /\ service = {}
  \/ f.todo = << >> /\ own = {} /\ service = {}

\* The handler of a fault, which stops the processor, or spins.
Reporting(f, own) == InCall(f.todo, FALSE, f.saved, own, "SERIAL1", << >>, Halting, FALSE)
FaultAt(f) == f.name = "fault" /\ (f.todo = Halting \/ \E own : Reporting(f, own))

\* Kernel code runs alone, or has been interrupted where it has interrupts enabled and
\* holds no lock but the heap's, or something has failed; what is held then is open.
InMain == Len(frames) = 1 /\ MainAt(frames[1], iflag, held, idt) /\ inService = {}
HandlerOver(base) ==
  /\ MainAt(frames[1], TRUE, base, TRUE) /\ base \subseteq {"HEAP"}
  /\ \E own : held = base \cup own /\ HandlerAt(frames[2], own, inService)
InHandler == Len(frames) = 2 /\ iflag = FALSE /\ idt = TRUE /\ \E base : HandlerOver(base)
InFault == Len(frames) >= 2 /\ iflag = FALSE /\ idt = TRUE /\ FaultAt(frames[Len(frames)])

KTyped ==
  /\ frames \in Seq(Frames) /\ iflag \in BOOLEAN /\ idt \in BOOLEAN
  /\ raised \subseteq Lines /\ scancode \in Key \cup {K!NoKey}
  /\ QueueTyped

HandledLines == Lines \subseteq WithHandler

KInv ==
  /\ KTyped
  /\ halted = "no" => InMain \/ InHandler \/ InFault
  /\ HandledLines => halted # "unhandled"

\* What a step s of the frame on top does.
StepDone(top, s) ==
  /\ top \in 1 .. Len(frames) /\ frames[top].todo # << >> /\ halted = "no"
  /\ frames' \in Seq(Frames) /\ Len(frames') = top
  /\ \A j \in 1 .. top - 1 : frames'[j] = frames[j]
  /\ frames'[top].todo = Tail(frames[top].todo) /\ frames'[top].name = frames[top].name
  /\ Taken(s, iflag, frames[top].saved, held, iflag', frames'[top].saved, held')
  /\ idt' = (idt \/ s.op = "idt")
  /\ inService' = IF s.op = "eoi" THEN inService \ {s.arg} ELSE inService
  /\ halted' = IF s.op = "halt" THEN "fault" ELSE halted
  /\ iflag' \in BOOLEAN
  /\ IF s.op = "push" THEN K!push(s.arg) ELSE IF s.op = "pop" THEN K!pop
     ELSE UNCHANGED <<buffer, head, tail, polled>>
  /\ UNCHANGED <<raised, scancode>>

LEMMA ExecuteStep ==
  ASSUME KInv, K!Execute
  PROVE  StepDone(Len(frames), Head(frames[Len(frames)].todo))
<1> DEFINE top == Len(frames)
           s == Head(frames[top].todo)
           stepped == [frames EXCEPT ![top].todo = Tail(@)]
<1>1. /\ frames \in Seq(Frames) /\ iflag \in BOOLEAN /\ halted = "no" /\ top \in Nat /\ top >= 1
  BY DEF KInv, KTyped, K!Execute, InMain, InHandler, InFault
<1>2. K!Running = frames[top] /\ top \in 1 .. Len(frames)
  BY <1>1 DEF K!Running, K!Last
<1>3. frames[top] \in Frames
  BY <1>1, <1>2, ElementOfSeq
<1>4. /\ frames[top].todo # << >>
      /\ frames' = IF s.op = "cli" THEN [stepped EXCEPT ![top].saved = iflag] ELSE stepped
      /\ iflag' = IF s.op \in {"cli", "sti"} THEN s.op = "sti"
                  ELSE IF s.op = "restore" THEN frames[top].saved ELSE iflag
      /\ held' = IF s.op = "lock" THEN held \cup {s.arg}
                 ELSE IF s.op = "unlock" THEN held \ {s.arg} ELSE held
      /\ idt' = (idt \/ s.op = "idt")
      /\ inService' = IF s.op = "eoi" THEN inService \ {s.arg} ELSE inService
      /\ halted' = IF s.op = "halt" THEN "fault" ELSE halted
      /\ IF s.op = "push" THEN K!push(s.arg) ELSE IF s.op = "pop" THEN K!pop
         ELSE UNCHANGED <<buffer, head, tail, polled>>
      /\ UNCHANGED <<raised, scancode>>
  BY <1>2 DEF K!Execute
<1>5. Tail(frames[top].todo) \in Codes /\ frames \in [1 .. top -> Frames]
  <2>1. frames \in [1 .. top -> Frames]
    BY <1>1
  <2>2. frames[top].todo \in Seq(Steps)
    BY <1>3 DEF Frames, Codes
  <2> QED BY <1>4, <2>1, <2>2, HeadTailProperties DEF Codes
<1>6. /\ frames'[top] \in Frames /\ frames'[top].todo = Tail(frames[top].todo)
      /\ frames'[top].name = frames[top].name
      /\ frames'[top].saved = IF s.op = "cli" THEN iflag ELSE frames[top].saved
  <2>1. stepped[top] = [frames[top] EXCEPT !.todo = Tail(frames[top].todo)]
    BY <1>2, <1>5
  <2>2. /\ stepped[top] \in Frames /\ stepped[top].todo = Tail(frames[top].todo)
        /\ stepped[top].saved = frames[top].saved /\ stepped[top].name = frames[top].name
    BY ZenonT(30), <1>3, <1>5, <2>1 DEF Frames
  <2>3. ASSUME s.op = "cli" PROVE frames'[top] = [stepped[top] EXCEPT !.saved = iflag]
    BY <1>2, <1>4, <1>5, <2>3
  <2>4. ASSUME s.op # "cli" PROVE frames'[top] = stepped[top]
    BY <1>4, <2>4
  <2> HIDE DEF stepped, s
  <2>5. CASE s.op = "cli"
    BY <1>1, <2>2, <2>3, <2>5 DEF Frames
  <2>6. CASE s.op # "cli"
    BY <2>2, <2>4, <2>6
  <2> QED BY <2>5, <2>6
<1>7. frames' \in Seq(Frames) /\ Len(frames') = top
      /\ \A j \in 1 .. top - 1 : frames'[j] = frames[j]
  <2>1. DOMAIN frames' = 1 .. top /\ frames' = [j \in 1 .. top |-> frames'[j]]
    BY <1>4, <1>5
  <2>2. \A j \in 1 .. top : j # top => frames'[j] = frames[j]
    BY <1>4, <1>5
  <2> HIDE DEF s, stepped
  <2>3. frames' \in [1 .. top -> Frames]
    BY <1>5, <1>6, <2>1, <2>2
  <2>4. top \in Nat
    BY <1>1
  <2> HIDE DEF top
  <2> QED BY <2>2, <2>3, <2>4
<1>8. iflag' \in BOOLEAN
  BY <1>1, <1>3, <1>4 DEF Frames
<1>9. Taken(s, iflag, frames[top].saved, held, iflag', frames'[top].saved, held')
  <2>1. frames'[top].saved = IF s.op = "cli" THEN iflag ELSE frames[top].saved
    BY <1>6
  <2> HIDE DEF s
  <2>2. Saves(s, iflag, frames[top].saved, frames'[top].saved)
    BY <2>1 DEF Saves
  <2>3. Enables(s, iflag, frames[top].saved, iflag')
    BY <1>4 DEF Enables
  <2>4. Holds(s, held, held')
    BY <1>4 DEF Holds
  <2> QED BY <2>2, <2>3, <2>4 DEF Taken
<1> HIDE DEF s, top, stepped
<1>10. StepDone(top, s)
  BY <1>1, <1>2, <1>4, <1>6, <1>7, <1>8, <1>9 DEF StepDone
<1> QED BY <1>10 DEF s, top

--------------------------------------------------------------------------------
(* Steps of kernel code, of a handler, and of the handler of a fault. *)

LEMMA MainStep ==
  ASSUME NEW f, NEW i, NEW own, NEW t \in BOOLEAN, MainAt(f, i, own, t), f.todo # << >>,
         NEW g, NEW i2, NEW own2, NEW t2, g.todo = Tail(f.todo),
         Taken(Head(f.todo), i, f.saved, own, i2, g.saved, own2),
         t2 = (t \/ Head(f.todo).op = "idt")
  PROVE  /\ MainAt(g, i2, own2, t2)
         /\ Head(f.todo).op \notin {"eoi", "halt"}
         /\ Head(f.todo).op = "push" => Head(f.todo).arg \in Key
         /\ Head(f.todo).op = "lock" => Head(f.todo).arg \notin own
<1>1. CASE f.todo = Start /\ i = FALSE /\ own = {} /\ t = FALSE
  <2>1. Head(f.todo).op = "idt" /\ g.todo = Locking
    BY <1>1, StraightSteps DEF Does
  <2>2. i2 = FALSE /\ own2 = {} /\ t2 = TRUE
    BY <1>1, <2>1 DEF Taken, Enables, Holds
  <2> QED BY <2>1, <2>2 DEF MainAt
<1>2. CASE f.todo = Locking /\ i = FALSE /\ own = {} /\ t = TRUE
  <2>1. Head(f.todo).op = "lock" /\ Head(f.todo).arg = "PICS" /\ g.todo = Unlocking
    BY <1>2, StraightSteps DEF Does
  <2>2. i2 = FALSE /\ own2 = {"PICS"} /\ t2 = TRUE
    BY <1>2, <2>1 DEF Taken, Enables, Holds
  <2> QED BY <1>2, <2>1, <2>2 DEF MainAt
<1>3. CASE f.todo = Unlocking /\ i = FALSE /\ own = {"PICS"} /\ t = TRUE
  <2>1. Head(f.todo).op = "unlock" /\ Head(f.todo).arg = "PICS" /\ g.todo = Started
    BY <1>3, StraightSteps DEF Does
  <2>2. i2 = FALSE /\ own2 = {} /\ t2 = TRUE
    BY <1>3, <2>1 DEF Taken, Enables, Holds
  <2> QED BY <2>1, <2>2 DEF MainAt
<1>4. CASE f.todo = Started /\ i = FALSE /\ own = {} /\ t = TRUE
  <2>1. Head(f.todo).op = "sti" /\ g.todo = << >>
    BY ZenonT(30), <1>4, StraightSteps DEF Does
  <2>2. i2 = TRUE /\ own2 = {} /\ t2 = TRUE
    BY <1>4, <2>1 DEF Taken, Enables, Holds
  <2> QED BY <2>1, <2>2 DEF MainAt
<1>5. ASSUME t = TRUE, NEW l \in K!Locks, NEW body \in Bodies,
             InCall(f.todo, i, f.saved, own, l, body, << >>, TRUE)
      PROVE  /\ MainAt(g, i2, own2, t2)
             /\ Head(f.todo).op \notin {"eoi", "halt"}
             /\ Head(f.todo).op = "push" => Head(f.todo).arg \in Key
             /\ Head(f.todo).op = "lock" => Head(f.todo).arg \notin own
  <2>1. << >> \in Codes /\ l \notin {} /\ {} \cup own = own
    BY DEF Codes
  <2>2. Taken(Head(f.todo), i, f.saved, {} \cup own, i2, g.saved, own2)
    BY <2>1
  <2>3. /\ \E own3 : /\ own2 = {} \cup own3
                     /\ \/ InCall(Tail(f.todo), i2, g.saved, own3, l, body, << >>, TRUE)
                        \/ Tail(f.todo) = << >> /\ i2 = TRUE /\ own3 = {}
        /\ Head(f.todo).op \in {"cli", "lock", "unlock", "restore", "push", "pop"}
        /\ Head(f.todo).op = "push" => Head(f.todo).arg \in Key
        /\ Head(f.todo).op = "lock" => Head(f.todo).arg \notin {} \cup own
    <3>1. CallGoes(f.todo, {} \cup own, l, body, << >>, TRUE, {}, i2, g.saved, own2)
      BY <1>5, <2>1, <2>2, CallStep
    <3> QED BY <3>1 DEF CallGoes
  <2>4. /\ \/ InCall(g.todo, i2, g.saved, own2, l, body, << >>, TRUE)
           \/ g.todo = << >> /\ i2 = TRUE /\ own2 = {}
        /\ t2 = TRUE
    BY <1>5, <2>3
  <2>5. MainAt(g, i2, own2, t2)
    BY <2>4 DEF MainAt
  <2> QED BY <2>3, <2>5
<1>6. CASE f.todo = HeapLocking /\ i = TRUE /\ own = {} /\ t = TRUE
  <2>1. Head(f.todo).op = "lock" /\ Head(f.todo).arg = "HEAP" /\ g.todo = HeapUnlocking
    BY <1>6, StraightSteps DEF Does
  <2>2. i2 = TRUE /\ own2 = {"HEAP"} /\ t2 = TRUE
    BY <1>6, <2>1 DEF Taken, Enables, Holds
  <2> QED BY <1>6, <2>1, <2>2 DEF MainAt
<1>7. CASE f.todo = HeapUnlocking /\ i = TRUE /\ own = {"HEAP"} /\ t = TRUE
  <2>1. Head(f.todo).op = "unlock" /\ Head(f.todo).arg = "HEAP" /\ g.todo = << >>
    <3>1. Does(HeapUnlocking, "unlock", "HEAP", << >>)
      BY StraightSteps
    <3> QED BY <1>7, <3>1 DEF Does
  <2>2. i2 = TRUE /\ own2 = {} /\ t2 = TRUE
    BY <1>7, <2>1 DEF Taken, Enables, Holds
  <2> QED BY <2>1, <2>2 DEF MainAt
<1> QED BY <1>1, <1>2, <1>3, <1>4, <1>5, <1>6, <1>7 DEF MainAt

\* What a step of a handler does over code that holds base: it goes on as a handler.
HandlerGoes(f, locks, base, g, i2, locks2, service2) ==
  /\ \E own2 : locks2 = base \cup own2 /\ HandlerAt(g, own2, service2)
  /\ i2 = FALSE
  /\ Head(f.todo).op \notin {"halt", "idt"}
  /\ Head(f.todo).op = "push" => Head(f.todo).arg \in Key
  /\ Head(f.todo).op = "lock" => Head(f.todo).arg \notin locks

LEMMA HandlerStep ==
  ASSUME NEW f, NEW own, NEW service, HandlerAt(f, own, service), f.todo # << >>,
         NEW base \in SUBSET {"HEAP"},
         NEW g, NEW i2, NEW locks2, NEW service2, g.todo = Tail(f.todo),
         Taken(Head(f.todo), FALSE, f.saved, base \cup own, i2, g.saved, locks2),
         service2 = IF Head(f.todo).op = "eoi" THEN service \ {Head(f.todo).arg} ELSE service
  PROVE  HandlerGoes(f, base \cup own, base, g, i2, locks2, service2)
<1>0. "PICS" \notin base /\ "EVENT_QUEUE" \notin base
  OBVIOUS
<1>1. ASSUME NEW line \in WithHandler, f.todo = Notify(line), own = {}, service = {line}
      PROVE  HandlerGoes(f, base \cup own, base, g, i2, locks2, service2)
  <2>1. Head(f.todo).op = "lock" /\ Head(f.todo).arg = "PICS" /\ g.todo = Acking(line)
    <3>1. Does(Notify(line), "lock", "PICS", Acking(line))
      BY StraightSteps
    <3> QED BY <1>1, <3>1 DEF Does
  <2>2. i2 = FALSE /\ locks2 = base \cup {"PICS"} /\ service2 = {line}
    BY <1>1, <2>1 DEF Taken, Enables, Holds
  <2>3. HandlerAt(g, {"PICS"}, service2)
    BY <2>1, <2>2 DEF HandlerAt
  <2> QED BY <1>0, <1>1, <2>1, <2>2, <2>3 DEF HandlerGoes
<1>2. ASSUME NEW line \in WithHandler, f.todo = Acking(line), own = {"PICS"}, service = {line}
      PROVE  HandlerGoes(f, base \cup own, base, g, i2, locks2, service2)
  <2>1. Head(f.todo).op = "eoi" /\ Head(f.todo).arg = line /\ g.todo = Acked
    <3>1. Does(Acking(line), "eoi", line, Acked)
      BY StraightSteps
    <3> QED BY <1>2, <3>1 DEF Does
  <2>2. i2 = FALSE /\ locks2 = base \cup {"PICS"} /\ service2 = {}
    BY <1>2, <2>1 DEF Taken, Enables, Holds
  <2>3. HandlerAt(g, {"PICS"}, service2)
    BY <2>1, <2>2 DEF HandlerAt
  <2> QED BY <2>1, <2>2, <2>3 DEF HandlerGoes
<1>3. ASSUME f.todo = Acked, own = {"PICS"}, service = {}
      PROVE  HandlerGoes(f, base \cup own, base, g, i2, locks2, service2)
  <2>1. Head(f.todo).op = "unlock" /\ Head(f.todo).arg = "PICS" /\ g.todo = << >>
    BY <1>3, StraightSteps DEF Does
  <2>2. i2 = FALSE /\ locks2 = base \cup {} /\ service2 = {}
    BY <1>0, <1>3, <2>1 DEF Taken, Enables, Holds
  <2>3. HandlerAt(g, {}, service2)
    BY <2>1, <2>2 DEF HandlerAt
  <2> QED BY <2>1, <2>2, <2>3 DEF HandlerGoes
<1>4. ASSUME NEW e \in Key, service = {K!Keyboard},
             InCall(f.todo, FALSE, f.saved, own, "EVENT_QUEUE", K!Step("push", e),
                    Notify(K!Keyboard), FALSE)
      PROVE  HandlerGoes(f, base \cup own, base, g, i2, locks2, service2)
  <2> DEFINE body == K!Step("push", e)
             rest == Notify(K!Keyboard)
             l == "EVENT_QUEUE"
  <2>1. /\ rest \in Codes /\ body \in Bodies /\ l \in K!Locks /\ l \notin base
        /\ K!Keyboard \in WithHandler
    BY <1>0, StraightSteps DEF Bodies, K!Locks, WithHandler
  <2>2. InCall(f.todo, FALSE, f.saved, own, l, body, rest, FALSE)
    BY <1>4
  <2> HIDE DEF body, rest, l
  <2>3. CallGoes(f.todo, base \cup own, l, body, rest, FALSE, base, i2, g.saved, locks2)
    BY <2>1, <2>2, CallStep
  <2>4. PICK own2 : /\ locks2 = base \cup own2
                    /\ \/ InCall(g.todo, i2, g.saved, own2, l, body, rest, FALSE)
                       \/ g.todo = rest /\ own2 = {}
    BY <2>3 DEF CallGoes
  <2>5. /\ Head(f.todo).op \in {"cli", "lock", "unlock", "restore", "push", "pop"}
        /\ Head(f.todo).op = "push" => Head(f.todo).arg \in Key
        /\ Head(f.todo).op = "lock" => Head(f.todo).arg \notin base \cup own
        /\ i2 = FALSE
    BY <2>3 DEF CallGoes
  <2>6. service2 = {K!Keyboard}
    BY <1>4, <2>5
  <2>7. HandlerAt(g, own2, service2)
    <3>1. CASE InCall(g.todo, i2, g.saved, own2, l, body, rest, FALSE)
      BY <2>5, <2>6, <3>1 DEF HandlerAt, Pushing, l, body, rest
    <3>2. CASE g.todo = rest /\ own2 = {}
      BY <2>1, <2>6, <3>2 DEF HandlerAt, rest
    <3> QED BY <2>4, <3>1, <3>2
  <2> QED BY <2>4, <2>5, <2>7 DEF HandlerGoes
<1>5. ~(f.todo = << >>)
  OBVIOUS
<1> QED BY <1>1, <1>2, <1>3, <1>4, <1>5 DEF HandlerAt, Pushing

\* What a step of a fault's handler does: it halts, or goes on as a fault's handler.
FaultGoes(f, g, i2) ==
  /\ f.todo # << >>
  /\ \/ Head(f.todo).op = "halt"
     \/ /\ FaultAt(g) /\ i2 = FALSE
        /\ Head(f.todo).op \notin {"eoi", "idt", "halt"}
        /\ Head(f.todo).op = "push" => Head(f.todo).arg \in Key
  /\ Head(f.todo).op = "lock" => Head(f.todo).arg = "SERIAL1"

LEMMA FaultStep ==
  ASSUME NEW f, FaultAt(f), NEW g, NEW i2, g.todo = Tail(f.todo), g.name = f.name,
         Saves(Head(f.todo), FALSE, f.saved, g.saved),
         Enables(Head(f.todo), FALSE, f.saved, i2)
  PROVE  FaultGoes(f, g, i2)
<1>1. CASE f.todo = Halting
  BY <1>1, StraightSteps DEF Does, FaultGoes
<1>2. ASSUME NEW own, Reporting(f, own) PROVE FaultGoes(f, g, i2)
  <2> DEFINE l == "SERIAL1"
             body == << >>
  <2>1. l \in K!Locks /\ body \in Bodies /\ Halting \in Codes /\ l \notin {}
    BY StraightSteps DEF K!Locks, Bodies
  <2>2. InCall(f.todo, FALSE, f.saved, own, l, body, Halting, FALSE)
    BY <1>2 DEF Reporting
  <2>3. PICK locks2 : Holds(Head(f.todo), {} \cup own, locks2)
    BY DEF Holds
  <2>4. Taken(Head(f.todo), FALSE, f.saved, {} \cup own, i2, g.saved, locks2)
    BY <2>3 DEF Taken
  <2> HIDE DEF l, body
  <2>5. CallGoes(f.todo, {} \cup own, l, body, Halting, FALSE, {}, i2, g.saved, locks2)
    BY <2>1, <2>2, <2>4, CallStep
  <2>6. /\ f.todo # << >> /\ i2 = FALSE
        /\ Head(f.todo).op \in {"cli", "lock", "unlock", "restore", "push", "pop"}
        /\ Head(f.todo).op = "push" => Head(f.todo).arg \in Key
        /\ Head(f.todo).op = "lock" => Head(f.todo).arg = l
    BY <2>5 DEF CallGoes
  <2>7. \/ \E own2 : InCall(g.todo, i2, g.saved, own2, l, body, Halting, FALSE)
        \/ g.todo = Halting
    BY <2>5 DEF CallGoes
  <2>8. FaultAt(g)
    <3>1. f.name = "fault"
      BY DEF FaultAt
    <3> QED BY <2>6, <2>7, <3>1 DEF FaultAt, Reporting, l, body
  <2>9. Head(f.todo).op = "lock" => Head(f.todo).arg = "SERIAL1"
    BY <2>6 DEF l
  <2> QED BY <2>6, <2>8, <2>9 DEF FaultGoes
<1> QED BY <1>1, <1>2 DEF FaultAt

--------------------------------------------------------------------------------
(* Every step of the processor keeps the invariant. *)

\* What a step does to the queue, where what is pushed is a key.
LEMMA ExecuteQueue ==
  ASSUME QueueTyped, NEW top, NEW s, StepDone(top, s), s.op = "push" => s.arg \in Key
  PROVE  QueueTyped' /\ (K!F!Next \/ UNCHANGED <<K!queue, polled>>)
<1>1. Key \subseteq K!InputEvent
  BY DEF K!InputEvent
<1>2. CASE s.op = "push"
  <2>1. K!push(s.arg) /\ s.arg \in K!InputEvent
    BY <1>1, <1>2 DEF StepDone
  <2> QED BY <2>1, QueuePush DEF K!F!Next
<1>3. CASE s.op = "pop"
  <2>1. K!pop
    BY <1>3 DEF StepDone
  <2> QED BY <2>1, QueuePop DEF K!F!Next
<1>4. CASE s.op # "push" /\ s.op # "pop"
  <2>1. UNCHANGED <<buffer, head, tail, polled>>
    BY <1>4 DEF StepDone
  <2> QED BY <2>1 DEF QueueTyped, K!queue
<1> QED BY <1>2, <1>3, <1>4

LEMMA ExecuteKeeps ==
  ASSUME KInv, K!Execute
  PROVE  /\ KInv' /\ (K!F!Next \/ UNCHANGED <<K!queue, polled>>)
<1> DEFINE top == Len(frames)
           s == Head(frames[top].todo)
<1>1. StepDone(top, s)
  BY ExecuteStep
<1> HIDE DEF s
<1>2. KTyped /\ QueueTyped
  BY DEF KInv, KTyped
<1>3. HandledLines => halted' # "unhandled"
  BY <1>1 DEF StepDone
<1>4. idt' \in BOOLEAN /\ frames' \in Seq(Frames) /\ iflag' \in BOOLEAN
      /\ raised' \subseteq Lines /\ scancode' \in Key \cup {K!NoKey}
  <2>1. idt' \in BOOLEAN
    BY <1>1, <1>2 DEF StepDone, KTyped
  <2> QED BY <1>1, <1>2, <2>1 DEF StepDone, KTyped
<1>5. ASSUME s.op = "push" => s.arg \in Key, halted' = "no" => InMain' \/ InHandler' \/ InFault'
      PROVE  /\ KInv' /\ (K!F!Next \/ UNCHANGED <<K!queue, polled>>)
  <2>1. QueueTyped' /\ (K!F!Next \/ UNCHANGED <<K!queue, polled>>)
    BY <1>1, <1>2, <1>5, ExecuteQueue
  <2> QED BY <1>3, <1>4, <1>5, <2>1 DEF KInv, KTyped
<1>6. CASE InMain
  <2>1. top = 1 /\ MainAt(frames[1], iflag, held, idt) /\ inService = {} /\ idt \in BOOLEAN
    BY <1>2, <1>6 DEF InMain, KTyped
  <2>2. /\ frames[1].todo # << >> /\ frames'[1].todo = Tail(frames[1].todo)
        /\ Taken(s, iflag, frames[1].saved, held, iflag', frames'[1].saved, held')
        /\ idt' = (idt \/ s.op = "idt") /\ Len(frames') = 1
        /\ s.op # "eoi" => inService' = inService
    BY <1>1, <2>1 DEF StepDone
  <2>3. s = Head(frames[1].todo)
    BY <2>1 DEF s
  <2>4. /\ MainAt(frames'[1], iflag', held', idt')
        /\ s.op \notin {"eoi", "halt"}
        /\ s.op = "push" => s.arg \in Key
    BY <2>1, <2>2, <2>3, MainStep
  <2>5. InMain'
    BY <2>1, <2>2, <2>4 DEF InMain
  <2> QED BY <1>5, <2>4, <2>5
<1>7. CASE InHandler
  <2>1. top = 2 /\ iflag = FALSE /\ idt = TRUE
    BY <1>7 DEF InHandler
  <2>2. PICK base : HandlerOver(base)
    BY <1>7 DEF InHandler
  <2>3. PICK own : held = base \cup own /\ HandlerAt(frames[2], own, inService)
    BY <2>2 DEF HandlerOver
  <2>4. /\ frames[2].todo # << >> /\ frames'[2].todo = Tail(frames[2].todo)
        /\ Taken(s, FALSE, frames[2].saved, base \cup own, iflag', frames'[2].saved, held')
        /\ Len(frames') = 2 /\ frames'[1] = frames[1] /\ idt' = TRUE
        /\ inService' = IF s.op = "eoi" THEN inService \ {s.arg} ELSE inService
    <3>1. /\ frames[2].todo # << >> /\ frames'[2].todo = Tail(frames[2].todo)
          /\ Len(frames') = 2 /\ frames'[1] = frames[1]
      BY <1>1, <2>1 DEF StepDone
    <3>2. Taken(s, iflag, frames[2].saved, held, iflag', frames'[2].saved, held')
      BY <1>1, <2>1 DEF StepDone
    <3>3. Taken(s, FALSE, frames[2].saved, base \cup own, iflag', frames'[2].saved, held')
      BY <2>1, <2>3, <3>2
    <3>4. idt' = (idt \/ s.op = "idt")
          /\ inService' = IF s.op = "eoi" THEN inService \ {s.arg} ELSE inService
      BY <1>1 DEF StepDone
    <3> QED BY <2>1, <3>1, <3>3, <3>4
  <2>5. s = Head(frames[2].todo)
    BY <2>1 DEF s
  <2>6. HandlerGoes(frames[2], base \cup own, base, frames'[2], iflag', held', inService')
    <3>1. /\ Taken(Head(frames[2].todo), FALSE, frames[2].saved, base \cup own, iflag',
                   frames'[2].saved, held')
          /\ inService' = IF Head(frames[2].todo).op = "eoi"
                            THEN inService \ {Head(frames[2].todo).arg} ELSE inService
      BY <2>4, <2>5
    <3>2. base \in SUBSET {"HEAP"}
      BY <2>2 DEF HandlerOver
    <3> QED BY <2>3, <2>4, <3>1, <3>2, HandlerStep
  <2>7. HandlerOver(base)'
    BY <2>2, <2>4, <2>6 DEF HandlerOver, HandlerGoes
  <2>8. InHandler'
    BY <2>4, <2>6, <2>7 DEF InHandler, HandlerGoes
  <2>9. s.op = "push" => s.arg \in Key
    BY <2>5, <2>6 DEF HandlerGoes
  <2> QED BY <1>5, <2>8, <2>9
<1>8. CASE InFault
  <2>1. /\ top = Len(frames) /\ top >= 2 /\ iflag = FALSE /\ idt = TRUE /\ FaultAt(frames[top])
    BY <1>2, <1>8 DEF InFault, KTyped
  <2>2. /\ frames'[top].todo = Tail(frames[top].todo) /\ frames'[top].name = frames[top].name
        /\ Len(frames') = top
        /\ s.op = "halt" => halted' # "no"
        /\ Taken(s, iflag, frames[top].saved, held, iflag', frames'[top].saved, held')
        /\ idt' = (idt \/ s.op = "idt")
    BY <1>1 DEF StepDone
  <2>3. /\ Saves(s, FALSE, frames[top].saved, frames'[top].saved)
        /\ Enables(s, FALSE, frames[top].saved, iflag')
    BY <2>1, <2>2 DEF Taken
  <2>4. s = Head(frames[top].todo)
    BY DEF s
  <2> HIDE DEF top
  <2>5. FaultGoes(frames[top], frames'[top], iflag')
    BY <2>1, <2>2, <2>3, <2>4, FaultStep
  <2>6. CASE s.op = "halt"
    BY <1>5, <2>2, <2>6
  <2>7. CASE s.op # "halt"
    <3>1. FaultAt(frames'[top]) /\ iflag' = FALSE /\ (s.op = "push" => s.arg \in Key)
      BY <2>4, <2>5, <2>7 DEF FaultGoes
    <3>2. InFault'
      BY <2>1, <2>2, <3>1 DEF InFault
    <3> QED BY <1>5, <3>1, <3>2
  <2> QED BY <2>6, <2>7
<1> QED BY <1>1, <1>6, <1>7, <1>8 DEF KInv, StepDone

\* Interrupts are enabled only where no lock but the heap's is held and the table is loaded.
Free(own, t) == own \subseteq {"HEAP"} /\ t = TRUE

LEMMA InterruptibleMain ==
  ASSUME NEW f, NEW i, NEW own, NEW t, MainAt(f, i, own, t), i = TRUE
  PROVE  Free(own, t)
<1>1. \A l, body, rest : InCall(f.todo, i, f.saved, own, l, body, rest, TRUE) => own = {}
  BY DEF InCall
<1> QED BY <1>1 DEF MainAt, Free

LEMMA PushFrame ==
  ASSUME frames \in Seq(Frames), NEW f \in Frames, frames' = Append(frames, f)
  PROVE  /\ frames' \in Seq(Frames) /\ Len(frames') = Len(frames) + 1
         /\ \A i \in 1 .. Len(frames) : frames'[i] = frames[i]
         /\ frames'[Len(frames) + 1] = f
  BY AppendProperties

LEMMA InterruptKeeps ==
  ASSUME KInv, NEW line \in Lines, K!Interrupt(line)
  PROVE  KInv' /\ UNCHANGED <<K!queue, polled>>
<1>1. /\ halted = "no" /\ iflag = TRUE /\ line \in raised /\ raised' = raised \ {line}
      /\ inService' = inService \cup {line}
      /\ iflag' = FALSE
      /\ UNCHANGED <<scancode, held, idt, buffer, head, tail, polled>>
  BY DEF K!Interrupt, K!Deliverable, KInv, KTyped
<1>2. InMain /\ held \subseteq {"HEAP"} /\ idt = TRUE /\ KTyped
  <2>1. KTyped /\ InMain
    BY <1>1 DEF KInv, InHandler, InFault
  <2>2. MainAt(frames[1], iflag, held, idt) /\ iflag = TRUE
    BY <1>1, <2>1 DEF InMain
  <2>3. held \subseteq {"HEAP"} /\ idt = TRUE
    <3>1. Free(held, idt)
      BY <2>2, InterruptibleMain
    <3> QED BY <3>1 DEF Free
  <2> QED BY <2>1, <2>3
<1>3. UNCHANGED <<K!queue, polled>>
  BY <1>1 DEF K!queue
<1>4. K!HasHandler(K!Vector(line)) <=> line \in WithHandler
  <2>1. line \in 0 .. 15
    BY KernelAssumption
  <2>2. K!Vector(line) = 32 + line
    BY <2>1 DEF K!Vector, K!PIC_1_OFFSET, K!PIC_2_OFFSET
  <2>3. K!HasHandler(K!Vector(line)) <=> K!Vector(line) \in {32, 33, 52}
    BY DEF K!HasHandler, K!InterruptIndex, K!PIC_1_OFFSET, K!PIC_2_OFFSET
  <2> QED BY <2>1, <2>2, <2>3 DEF WithHandler, K!Timer, K!Keyboard
<1>5. CASE line \notin WithHandler
  <2>1. halted' = "unhandled" /\ UNCHANGED frames /\ ~HandledLines
    BY <1>2, <1>4, <1>5 DEF K!Interrupt, HandledLines
  <2> QED BY <1>1, <1>2, <1>3, <2>1 DEF KInv, KTyped, QueueTyped, HandledLines
<1>6. CASE line \in WithHandler
  <2> DEFINE code == K!Handler(K!Vector(line), scancode)
             f == K!Frame("handler", code)
  <2>1. UNCHANGED halted /\ frames' = Append(frames, f)
    BY <1>2, <1>4, <1>6 DEF K!Interrupt
  <2>2. /\ code = Notify(line)
           \/ \E e \in Key : code = Guarded("EVENT_QUEUE", K!Step("push", e), Notify(K!Keyboard))
        /\ code = Notify(line) \/ line = K!Keyboard
    <3>1. CASE line = K!Timer
      <4>1. K!Vector(line) = 32
        BY <3>1 DEF K!Vector, K!PIC_1_OFFSET, K!Timer
      <4>2. code = K!timer_interrupt_handler
        BY <4>1 DEF K!Handler, K!InterruptIndex, K!PIC_1_OFFSET, K!PIC_2_OFFSET
      <4> QED BY <1>6, <3>1, <4>2, CodesAre DEF K!timer_interrupt_handler
    <3>2. CASE line = K!Keyboard
      <4>1. K!Vector(line) = 33
        BY <3>2 DEF K!Vector, K!PIC_1_OFFSET, K!Keyboard
      <4>2. code = K!keyboard_interrupt_handler(scancode)
        BY <4>1 DEF K!Handler, K!InterruptIndex, K!PIC_1_OFFSET, K!PIC_2_OFFSET
      <4>3. K!notify_end_of_interrupt(K!Keyboard) = Notify(K!Keyboard)
        BY <1>6, <3>2, CodesAre
      <4>4. CASE scancode = K!NoKey
        <5>1. code = << >> \o Notify(K!Keyboard)
          BY <4>2, <4>3, <4>4 DEF K!keyboard_interrupt_handler
        <5>2. Notify(K!Keyboard) \in Seq(Steps)
          BY <1>6, <3>2, StraightSteps DEF Codes
        <5> QED BY <3>2, <5>1, <5>2, ConcatEmptySeq
      <4>5. CASE scancode # K!NoKey
        <5>1. scancode \in Key
          BY <1>2, <4>5 DEF KTyped
        <5>2. code = K!push_event(scancode) \o Notify(K!Keyboard)
          BY <4>2, <4>3, <4>5 DEF K!keyboard_interrupt_handler
        <5> QED BY <3>2, <5>1, <5>2, CodesAre
      <4> QED BY <4>4, <4>5
    <3> QED BY <1>6, <3>1, <3>2 DEF WithHandler
  <2>3. code \in Codes
    <3>1. /\ Notify(line) \in Codes /\ Notify(K!Keyboard) \in Codes
          /\ "EVENT_QUEUE" \in K!Locks /\ \A e \in Key : K!Step("push", e) \in Codes
      BY <1>6, StraightSteps, BodiesAreCodes DEF Bodies, K!Locks, WithHandler
    <3> QED BY <2>2, <3>1, PlacesAreCodes
  <2> HIDE DEF code
  <2>4. f \in Frames /\ f.todo = code
    BY <2>3 DEF K!Frame, Frames
  <2> HIDE DEF f
  <2>5. /\ frames' \in Seq(Frames) /\ Len(frames') = 2 /\ frames'[1] = frames[1]
        /\ frames'[2] = f
    <3>1. Len(frames) = 1 /\ 1 \in 1 .. Len(frames) /\ Len(frames) + 1 = 2
      BY <1>2 DEF InMain
    <3> QED BY <1>2, <2>1, <2>4, <3>1, PushFrame DEF KTyped
  <2>6. HandlerAt(f, {}, {line})
    <3>1. CASE code = Notify(line)
      BY <1>6, <2>4, <3>1 DEF HandlerAt
    <3>2. ASSUME NEW e \in Key,
                 code = Guarded("EVENT_QUEUE", K!Step("push", e), Notify(K!Keyboard)),
                 line = K!Keyboard
          PROVE  HandlerAt(f, {}, {line})
      BY <2>4, <3>2 DEF HandlerAt, Pushing, InCall
    <3> QED BY <2>2, <3>1, <3>2
  <2>7. InHandler'
    <3>1. inService' = {line} /\ held' = held /\ held' = held \cup {} /\ iflag = TRUE
      BY <1>1, <1>2 DEF InMain
    <3>2. MainAt(frames'[1], TRUE, held, TRUE)
      BY <1>2, <2>5, <3>1 DEF InMain
    <3>3. HandlerOver(held)'
      BY <1>2, <2>5, <2>6, <3>1, <3>2 DEF HandlerOver
    <3> QED BY <1>1, <1>2, <2>5, <3>3 DEF InHandler
  <2> QED BY <1>1, <1>2, <1>3, <2>1, <2>5, <2>7 DEF KInv, KTyped, QueueTyped, HandledLines
<1> QED BY <1>5, <1>6

LEMMA FaultKeeps == ASSUME KInv, K!Fault PROVE KInv' /\ UNCHANGED <<K!queue, polled>>
<1> DEFINE f == K!Frame("fault", K!page_fault_handler)
<1>1. /\ halted = "no" /\ idt = TRUE /\ frames' = Append(frames, f) /\ iflag' = FALSE
      /\ UNCHANGED <<raised, inService, scancode, held, idt, buffer, head, tail, polled, halted>>
  BY DEF K!Fault, KInv, KTyped
<1>2. KTyped /\ Len(frames) \in Nat /\ Len(frames) >= 1
  <2>1. KTyped /\ (InMain \/ InHandler \/ InFault)
    BY <1>1 DEF KInv
  <2>2. Len(frames) \in Nat
    BY <2>1 DEF KTyped
  <2>3. Len(frames) = 1 \/ Len(frames) = 2 \/ Len(frames) >= 2
    BY <2>1 DEF InMain, InHandler, InFault
  <2> QED BY <2>1, <2>2, <2>3
<1>3. f \in Frames /\ f.name = "fault" /\ f.todo = Guarded("SERIAL1", << >>, Halting)
  <2>1. Guarded("SERIAL1", << >>, Halting) \in Codes
    <3>1. << >> \in Codes
      BY DEF Codes
    <3>2. "SERIAL1" \in K!Locks
      BY DEF K!Locks
    <3> QED BY <3>1, <3>2, StraightSteps, PlacesAreCodes
  <2>2. K!page_fault_handler = Guarded("SERIAL1", << >>, Halting)
    BY CodesAre
  <2> QED BY <2>1, <2>2 DEF K!Frame, Frames
<1> HIDE DEF f
<1>4. /\ frames' \in Seq(Frames) /\ Len(frames') = Len(frames) + 1
      /\ frames'[Len(frames')] = f
  BY <1>1, <1>2, <1>3, PushFrame DEF KTyped
<1>5. FaultAt(f)
  <2>1. Reporting(f, {})
    BY <1>3 DEF Reporting, InCall
  <2> QED BY <1>3, <2>1 DEF FaultAt
<1>6. InFault'
  BY <1>1, <1>2, <1>4, <1>5 DEF InFault
<1>7. UNCHANGED <<K!queue, polled>>
  BY <1>1 DEF K!queue
<1> QED BY <1>1, <1>2, <1>4, <1>6, <1>7 DEF KInv, KTyped, QueueTyped, HandledLines

\* A handler returns to kernel code that had interrupts enabled.
LEMMA ReturnKeeps == ASSUME KInv, K!Return PROVE KInv' /\ UNCHANGED <<K!queue, polled>>
<1>1. /\ halted = "no" /\ Len(frames) > 1 /\ K!Running.todo = << >>
      /\ frames' = K!Front(frames) /\ iflag' = TRUE
      /\ UNCHANGED <<raised, inService, scancode, held, idt, buffer, head, tail, polled, halted>>
  BY DEF K!Return
<1>2. KTyped /\ Len(frames) \in Nat
  BY DEF KInv, KTyped
<1>3. K!Running = frames[Len(frames)]
  BY DEF K!Running, K!Last
<1>4. ~InFault
  <2> SUFFICES ASSUME FaultAt(frames[Len(frames)]) PROVE FALSE
    BY DEF InFault
  <2> DEFINE f == frames[Len(frames)]
  <2>1. PICK i2, saved2 : /\ Saves(Head(f.todo), FALSE, f.saved, saved2)
                          /\ Enables(Head(f.todo), FALSE, f.saved, i2)
    BY DEF Saves, Enables
  <2> DEFINE g == [name |-> f.name, todo |-> Tail(f.todo), saved |-> saved2]
  <2>2. g.todo = Tail(f.todo) /\ g.saved = saved2 /\ g.name = f.name
    OBVIOUS
  <2>3. FaultAt(f) /\ f.todo = << >>
    BY <1>1, <1>3
  <2> HIDE DEF f, g
  <2>4. FaultGoes(f, g, i2)
    BY <2>1, <2>2, <2>3, FaultStep
  <2> QED BY <2>3, <2>4 DEF FaultGoes
<1>5. /\ InHandler /\ Len(frames) = 2 /\ idt = TRUE
      /\ frames[2].todo = << >>
  <2>1. InHandler
    <3>1. InMain \/ InHandler
      BY <1>1, <1>4 DEF KInv
    <3>2. InMain => Len(frames) = 1
      BY DEF InMain
    <3>3. Len(frames) # 1
      <4>1. Len(frames) > 1
        BY <1>1
      <4>2. 1 > 1 <=> FALSE
        OBVIOUS
      <4> QED BY <4>1, <4>2
    <3> QED BY <3>1, <3>2, <3>3
  <2>2. Len(frames) = 2 /\ idt = TRUE
    BY <2>1 DEF InHandler
  <2> QED BY <1>1, <1>3, <2>1, <2>2
<1>0. PICK base : HandlerOver(base)
  BY <1>5 DEF InHandler
<1>6. held = base /\ inService = {}
  <2>1. PICK own : held = base \cup own /\ HandlerAt(frames[2], own, inService)
    BY <1>0 DEF HandlerOver
  <2>2. \A line \in WithHandler : Notify(line) # << >> /\ Acking(line) # << >>
    <3> SUFFICES ASSUME NEW line \in WithHandler PROVE Notify(line) # << >> /\ Acking(line) # << >>
      OBVIOUS
    <3>1. Does(Notify(line), "lock", "PICS", Acking(line)) /\ Does(Acking(line), "eoi", line, Acked)
      BY StraightSteps
    <3> QED BY <3>1 DEF Does
  <2>3. Acked # << >>
    BY StraightSteps DEF Does
  <2>4. ~Pushing(frames[2], own)
    <3> SUFFICES ASSUME NEW e \in Key,
                        InCall(<< >>, FALSE, frames[2].saved, own, "EVENT_QUEUE",
                               K!Step("push", e), Notify(K!Keyboard), FALSE)
                 PROVE  FALSE
      BY <1>5 DEF Pushing
    <3> DEFINE l == "EVENT_QUEUE"
               body == K!Step("push", e)
               rest == Notify(K!Keyboard)
    <3>1. l \in K!Locks /\ body \in Bodies /\ rest \in Codes
      BY StraightSteps DEF K!Locks, Bodies, WithHandler
    <3>2. InCall(<< >>, FALSE, frames[2].saved, own, l, body, rest, FALSE)
      OBVIOUS
    <3> HIDE DEF l, body, rest
    <3> QED BY <3>1, <3>2, CallIsNotOver
  <2>5. own = {} /\ inService = {}
    BY <1>5, <2>1, <2>2, <2>3, <2>4 DEF HandlerAt
  <2> QED BY <2>1, <2>5
<1>7. frames' \in Seq(Frames) /\ Len(frames') = 1 /\ frames'[1] = frames[1]
  <2>1. K!Front(frames) = SubSeq(frames, 1, 1)
    BY <1>5 DEF K!Front
  <2>2. \A i \in 1 .. 1 : frames[i] \in Frames
    <3>1. frames \in Seq(Frames) /\ Len(frames) = 2
      BY <1>2, <1>5 DEF KTyped
    <3> QED BY <3>1, ElementOfSeq
  <2> QED BY <1>1, <2>1, <2>2, SubSeqProperties
<1>8. InMain'
  <2>1. MainAt(frames[1], TRUE, base, TRUE)
    BY <1>0 DEF HandlerOver
  <2>2. frames'[1] = frames[1] /\ held' = base /\ inService' = {} /\ iflag' = TRUE /\ idt' = TRUE
        /\ Len(frames') = 1
    BY <1>1, <1>5, <1>6, <1>7
  <2> QED BY <2>1, <2>2 DEF InMain
<1>9. UNCHANGED <<K!queue, polled>>
  BY <1>1 DEF K!queue
<1> QED BY <1>1, <1>2, <1>7, <1>8, <1>9 DEF KInv, KTyped, QueueTyped, HandledLines

\* kernel_main goes on to a call.
LEMMA CallKeeps == ASSUME KInv, K!Call PROVE KInv' /\ UNCHANGED <<K!queue, polled>>
<1>1. /\ halted = "no" /\ Len(frames) = 1 /\ frames[1].todo = << >>
      /\ \E code \in {K!_print, K!init_heap, K!alloc, K!read_word, K!pop_event} :
           frames' = <<K!Frame("main", code)>>
      /\ UNCHANGED <<raised, inService, scancode, iflag, held, idt, buffer, head, tail, polled,
                     halted>>
  BY DEF K!Call
<1>2. KTyped /\ InMain
  BY <1>1 DEF KInv, InHandler, InFault
<1>3. /\ \A l \in K!Locks, body \in Bodies : Guarded(l, body, << >>) \in Codes
      /\ {"SERIAL1", "HEAP", "PCI_CONFIG", "EVENT_QUEUE"} \subseteq K!Locks
      /\ {<< >>, K!Step("pop", "")} \subseteq Bodies
  <2>1. << >> \in Codes
    BY DEF Codes
  <2> QED BY <2>1, PlacesAreCodes, BodiesAreCodes DEF Bodies, K!Locks
<1>4. PICK code \in Codes :
        /\ frames' = <<K!Frame("main", code)>>
        /\ \/ code = HeapLocking
           \/ \E l \in K!Locks, body \in Bodies : code = Guarded(l, body, << >>)
  <2>1. \A code \in {K!_print, K!alloc, K!read_word, K!pop_event} :
          \E l \in K!Locks, body \in Bodies : code = Guarded(l, body, << >>)
    BY <1>3, CodesAre
  <2>2. K!init_heap = HeapLocking /\ HeapLocking \in Codes
    BY CodesAre, StraightSteps
  <2> QED BY <1>1, <1>3, <2>1, <2>2
<1> DEFINE f == K!Frame("main", code)
<1>5. f \in Frames /\ f.todo = code /\ f.saved = FALSE
  BY <1>4 DEF K!Frame, Frames
<1>6. frames' = <<f>>
  BY <1>4
<1> HIDE DEF f
<1>7. frames' \in Seq(Frames) /\ Len(frames') = 1 /\ frames'[1] = f
  BY <1>5, <1>6
<1>8. iflag = TRUE /\ held = {} /\ idt = TRUE
  <2>1. MainAt(frames[1], iflag, held, idt)
    BY <1>2 DEF InMain
  <2>2. \A i, saved, own : \A l2 \in K!Locks, body2 \in Bodies :
          ~InCall(<< >>, i, saved, own, l2, body2, << >>, TRUE)
    <3> SUFFICES ASSUME NEW l2 \in K!Locks, NEW body2 \in Bodies, NEW i, NEW saved, NEW own,
                        InCall(<< >>, i, saved, own, l2, body2, << >>, TRUE)
                 PROVE  FALSE
      OBVIOUS
    <3>1. << >> \in Codes
      BY DEF Codes
    <3> QED BY <3>1, CallIsNotOver
  <2>3. Start # << >> /\ Locking # << >> /\ Unlocking # << >> /\ Started # << >>
        /\ HeapLocking # << >> /\ HeapUnlocking # << >>
    BY StraightSteps DEF Does
  <2> QED BY <1>1, <2>1, <2>2, <2>3 DEF MainAt
<1>9. MainAt(f, TRUE, {}, TRUE)
  <2>1. CASE code = HeapLocking
    BY <1>5, <2>1 DEF MainAt
  <2>2. ASSUME NEW l \in K!Locks, NEW body \in Bodies, code = Guarded(l, body, << >>)
        PROVE  MainAt(f, TRUE, {}, TRUE)
    <3>1. InCall(f.todo, TRUE, f.saved, {}, l, body, << >>, TRUE)
      BY <1>5, <2>2 DEF InCall
    <3> QED BY <3>1 DEF MainAt
  <2> QED BY <1>4, <2>1, <2>2
<1>10. iflag' = TRUE /\ held' = {} /\ idt' = TRUE
  BY <1>1, <1>8
<1>11. MainAt(frames'[1], iflag', held', idt')
  BY <1>7, <1>9, <1>10
<1>12. InMain'
  BY <1>1, <1>2, <1>7, <1>11 DEF InMain
<1>13. UNCHANGED <<K!queue, polled>>
  BY <1>1 DEF K!queue
<1> QED BY <1>1, <1>2, <1>7, <1>12, <1>13 DEF KInv, KTyped, QueueTyped, HandledLines

\* A device raises its line.
LEMMA RaiseKeeps ==
  ASSUME KInv, NEW line \in Lines, K!Raise(line)
  PROVE  KInv' /\ UNCHANGED <<K!queue, polled>>
<1>1. /\ raised' = raised \cup {line}
      /\ UNCHANGED <<inService, frames, iflag, held, idt, buffer, head, tail, polled, halted>>
  BY DEF K!Raise
<1>2. scancode' \in Key \cup {K!NoKey}
  BY DEF K!Raise, KInv, KTyped
<1>3. UNCHANGED <<K!queue, polled>>
  BY <1>1 DEF K!queue
<1> QED BY <1>1, <1>2, <1>3 DEF KInv, KTyped, QueueTyped, HandledLines, InMain, InHandler,
                                      HandlerOver, InFault

LEMMA KernelKeeps ==
  ASSUME KInv, K!Next
  PROVE  KInv' /\ (K!F!Next \/ UNCHANGED <<K!queue, polled>>)
<1>1. CASE K!Execute
  BY <1>1, ExecuteKeeps
<1>2. CASE K!Fault
  BY <1>2, FaultKeeps
<1>3. CASE K!Return
  BY <1>3, ReturnKeeps
<1>4. CASE K!Call
  BY <1>4, CallKeeps
<1>5. ASSUME NEW line \in Lines, K!Raise(line) \/ K!Interrupt(line)
      PROVE  KInv' /\ UNCHANGED <<K!queue, polled>>
  BY <1>5, RaiseKeeps, InterruptKeeps
<1> QED BY <1>1, <1>2, <1>3, <1>4, <1>5 DEF K!Next

LEMMA KernelStutters ==
  ASSUME KInv, UNCHANGED kernelVars
  PROVE  KInv' /\ UNCHANGED <<K!queue, polled>>
BY DEF kernelVars, KInv, KTyped, QueueTyped, HandledLines, InMain, InHandler, HandlerOver, InFault,
       K!queue

LEMMA KernelStarts == ASSUME K!Init PROVE KInv /\ K!F!Init
<1>1. /\ raised = {} /\ inService = {} /\ scancode = K!NoKey
      /\ frames = <<K!Frame("main", K!init)>>
      /\ iflag = FALSE /\ held = {} /\ idt = FALSE
      /\ buffer = [i \in 0 .. QUEUE_SIZE - 1 |-> K!NoKey] /\ head = 0 /\ tail = 0
      /\ polled = K!NoKey /\ halted = "no"
  BY DEF K!Init
<1> DEFINE f == K!Frame("main", K!init)
<1>2. f \in Frames /\ f.todo = Start
  <2>1. K!init \in Codes /\ K!init = Start
    BY CodesAre, StraightSteps
  <2> QED BY <2>1 DEF K!Frame, Frames
<1>3. frames = <<f>>
  BY <1>1
<1> HIDE DEF f
<1>4. frames \in Seq(Frames) /\ Len(frames) = 1 /\ frames[1] = f
  BY <1>2, <1>3
<1>5. InMain
  BY <1>1, <1>2, <1>4 DEF InMain, MainAt
<1>6. QueueTyped
  <2>1. QUEUE_SIZE \in Nat /\ QUEUE_SIZE > 0 /\ K!NoKey \in K!InputEvent
    BY KernelAssumption DEF K!NoKey, K!InputEvent
  <2> QED BY <1>1, <2>1 DEF QueueTyped
<1>7. K!F!Init
  <2>1. Waiting = 0
    BY <1>1, <1>6, WaitingIs
  <2>2. K!queue \in Seq(K!InputEvent) /\ Len(K!queue) = 0
    BY <1>6, <2>1, QueueIs DEF QueueRead
  <2>3. K!queue = << >>
    BY <2>2, EmptySeq
  <2>4. polled \in K!InputEvent
    BY <1>6 DEF QueueTyped
  <2> QED BY <2>3, <2>4 DEF K!F!Init
<1> QED BY <1>1, <1>4, <1>5, <1>6, <1>7 DEF KInv, KTyped

--------------------------------------------------------------------------------
(* The properties of the processor. *)

LEMMA KInvIsKept ==
  ASSUME KInv, [KernelNext \/ RingNext]_<<part, vars, kernelVars>>
  PROVE  KInv' /\ [K!F!Next]_<<K!queue, polled>>
<1>1. CASE KernelNext
  <2>1. K!Next
    BY <1>1 DEF KernelNext
  <2> QED BY <2>1, KernelKeeps
<1>2. CASE RingNext \/ UNCHANGED <<part, vars, kernelVars>>
  <2>1. UNCHANGED kernelVars
    BY <1>2 DEF RingNext
  <2> QED BY <2>1, KernelStutters
<1> QED BY <1>1, <1>2

LEMMA KInvStarts == KernelInit \/ RingInit => KInv /\ K!F!Init
  BY KernelStarts DEF KernelInit, RingInit

\* The inductive invariant: at every moment the processor is in the start, in a call of
\* kernel code, idle, in a handler, each holding exactly the locks of its place, or in the
\* handler of a fault, over whatever code failed and whatever it holds (Kernel, whole module).
THEOREM KernelInvariant == MCSpec => []KInv
<1>1. KernelInit \/ RingInit => KInv
  BY KInvStarts
<1>2. KInv /\ [KernelNext \/ RingNext]_<<part, vars, kernelVars>> => KInv'
  BY KInvIsKept
<1> QED BY <1>1, <1>2, PTL DEF MCSpec

\* There is a way to take any step.
LEMMA SomeStep ==
  ASSUME NEW s, NEW i, NEW saved, NEW locks
  PROVE  \E i2, saved2, locks2 : Taken(s, i, saved, locks, i2, saved2, locks2)
<1>1. \E saved2 : Saves(s, i, saved, saved2)
  BY DEF Saves
<1>2. \E i2 : Enables(s, i, saved, i2)
  BY DEF Enables
<1>3. \E locks2 : Holds(s, locks, locks2)
  BY DEF Holds
<1> QED BY <1>1, <1>2, <1>3 DEF Taken

LEMMA NobodySpins == KInv => OnlyFaultsSpin
<1> SUFFICES ASSUME KInv, halted = "no", K!Running.todo # << >>,
                    Head(K!Running.todo).op = "lock", Head(K!Running.todo).arg \in held
             PROVE  K!Running.name = "fault" /\ Head(K!Running.todo).arg = "SERIAL1"
  BY DEF OnlyFaultsSpin, K!OnlyFaultsSpin
<1>1. CASE InMain
  <2> DEFINE f == frames[1]
  <2>1. K!Running = f /\ MainAt(f, iflag, held, idt) /\ idt \in BOOLEAN
    BY <1>1 DEF InMain, K!Running, K!Last, KInv, KTyped
  <2>2. PICK i2, saved2, locks2 : Taken(Head(f.todo), iflag, f.saved, held, i2, saved2, locks2)
    BY SomeStep
  <2> DEFINE g == [todo |-> Tail(f.todo), saved |-> saved2]
             t2 == (idt \/ Head(f.todo).op = "idt")
  <2>3. g.todo = Tail(f.todo) /\ g.saved = saved2
    OBVIOUS
  <2>4. t2 = (idt \/ Head(f.todo).op = "idt") /\ f.todo # << >> /\ Head(f.todo).op = "lock"
    BY <2>1
  <2> HIDE DEF f, g, t2
  <2>5. Taken(Head(f.todo), iflag, f.saved, held, i2, g.saved, locks2)
    BY <2>2, <2>3
  <2>6. Head(f.todo).op = "lock" => Head(f.todo).arg \notin held
    BY <2>1, <2>3, <2>4, <2>5, MainStep
  <2> QED BY <2>1, <2>4, <2>6
<1>2. CASE InHandler
  <2> DEFINE f == frames[2]
  <2>1. K!Running = f
    BY <1>2 DEF InHandler, K!Running, K!Last
  <2>2. PICK base, own : base \in SUBSET {"HEAP"} /\ held = base \cup own
                         /\ HandlerAt(f, own, inService)
    BY <1>2 DEF InHandler, HandlerOver
  <2>3. PICK i2, saved2, locks2 :
          Taken(Head(f.todo), FALSE, f.saved, base \cup own, i2, saved2, locks2)
    BY SomeStep
  <2> DEFINE g == [todo |-> Tail(f.todo), saved |-> saved2]
             service2 == IF Head(f.todo).op = "eoi" THEN inService \ {Head(f.todo).arg}
                                                    ELSE inService
  <2>4. g.todo = Tail(f.todo) /\ g.saved = saved2
    OBVIOUS
  <2>5. /\ service2 = IF Head(f.todo).op = "eoi" THEN inService \ {Head(f.todo).arg}
                                                 ELSE inService
        /\ f.todo # << >> /\ Head(f.todo).op = "lock"
    BY <2>1
  <2> HIDE DEF f, g, service2
  <2>6. Taken(Head(f.todo), FALSE, f.saved, base \cup own, i2, g.saved, locks2)
    BY <2>3, <2>4
  <2>7. HandlerGoes(f, base \cup own, base, g, i2, locks2, service2)
    BY <2>2, <2>4, <2>5, <2>6, HandlerStep
  <2>8. Head(f.todo).arg \notin held
    BY <2>2, <2>5, <2>7 DEF HandlerGoes
  <2> QED BY <2>1, <2>8
<1>3. CASE InFault
  <2> DEFINE f == frames[Len(frames)]
  <2>1. K!Running = f /\ FaultAt(f)
    BY <1>3 DEF InFault, K!Running, K!Last
  <2>2. PICK i2, saved2 : /\ Saves(Head(f.todo), FALSE, f.saved, saved2)
                          /\ Enables(Head(f.todo), FALSE, f.saved, i2)
    BY DEF Saves, Enables
  <2> DEFINE g == [name |-> f.name, todo |-> Tail(f.todo), saved |-> saved2]
  <2>3. g.todo = Tail(f.todo) /\ g.saved = saved2 /\ g.name = f.name
    OBVIOUS
  <2> HIDE DEF f, g
  <2>4. FaultGoes(f, g, i2)
    BY <2>1, <2>2, <2>3, FaultStep
  <2> QED BY <2>1, <2>4 DEF FaultGoes, FaultAt
<1> QED BY <1>1, <1>2, <1>3 DEF KInv

\* No code of the kernel, interrupted or not, and no handler of an interrupt spins on a lock
\* that it or the code below it holds: that happens only to a fault's report, and only on the
\* serial port (Kernel: without_interrupts around every lock that handlers share).
THEOREM KernelOnlyFaultsSpin == MCSpec => []OnlyFaultsSpin
  BY KernelInvariant, NobodySpins, PTL

\* Where every line that interrupts has a handler, none finds the table without one, and
\* kernel code never goes on with a line still in service (Kernel: init, the handlers).
THEOREM KernelInterruptsAreFinished == HandledLines => (MCSpec => []InterruptsAreFinished)
<1> SUFFICES ASSUME HandledLines PROVE MCSpec => []InterruptsAreFinished
  OBVIOUS
<1>1. KInv => InterruptsAreFinished
  <2> SUFFICES ASSUME KInv PROVE InterruptsAreFinished
    OBVIOUS
  <2>1. halted # "unhandled"
    BY DEF KInv
  <2>2. ASSUME halted = "no", Len(frames) = 1 PROVE inService = {}
    BY <2>2 DEF KInv, InMain, InHandler, InFault
  <2> QED BY <2>1, <2>2 DEF InterruptsAreFinished, K!InterruptsAreFinished
<1> QED BY <1>1, KernelInvariant, PTL

\* The queue of input events is a first-in first-out queue: whatever the interleaving of
\* handlers and of kernel code, an event that is polled is the oldest one queued, and none is
\* polled twice (Kernel: push, pop; refinement of Fifo).
THEOREM KernelEventsAreFifo == MCSpec => EventsAreFifo
<1>1. KernelInit \/ RingInit => KInv /\ K!F!Init
  BY KInvStarts
<1>2. KInv /\ [KernelNext \/ RingNext]_<<part, vars, kernelVars>>
        => KInv' /\ [K!F!Next]_<<K!queue, polled>>
  BY KInvIsKept
<1> QED BY <1>1, <1>2, PTL DEF MCSpec, EventsAreFifo, K!ImplementsFifo, K!F!Spec
================================================================================
