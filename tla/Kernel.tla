---------------------------------- MODULE Kernel ----------------------------------
(***************************************************************************)
(* One processor running the kernel (crates/kernel/src): start-up, the     *)
(* interrupt and fault handlers, the spin locks that kernel code and       *)
(* handlers share, and the queue of input events between them (pal.rs).    *)
(* A handler interrupts between any two steps that run with interrupts     *)
(* enabled; what it needs is what it finds.                                *)
(***************************************************************************)
EXTENDS Integers, Sequences, SequencesExt

CONSTANTS
  Lines,       \* the interrupt lines that devices raise and no mask holds back
  Key,         \* keys with a character
  QUEUE_SIZE,  \* 64 in the code
  MaxRaised, MaxJobs, \* bounds: interrupts raised, calls made by kernel code
  MaxFrames           \* bound: pieces of code that a further one interrupts

VARIABLES
  raised,      \* lines waiting for the processor
  inService,   \* lines the PIC has delivered and not been told the end of
  scancode,    \* what port 0x60 holds
  frames,      \* the interrupted and the running code, the running one last
  iflag,       \* interrupts are enabled
  held,        \* locks that are held
  idt,         \* the interrupt table is loaded
  buffer, head, tail,  \* EventQueue
  taken,       \* the event the last pop returned
  halted,      \* "no", "fault" or "unhandled": stopped for good
  interrupts, jobs     \* counted for the bounds

vars == <<raised, inService, scancode, frames, iflag, held, idt, buffer, head, tail, taken,
          halted, interrupts, jobs>>

Timer == 0
Keyboard == 1
Mouse == 12
Locks == {"PICS", "SERIAL1", "HEAP", "EVENT_QUEUE", "PCI_CONFIG"}
InputEvent == Key \cup {"mouse", "none"}
NoKey == "none"

(* Code is a sequence of steps. *)
Step(op, arg) == <<[op |-> op, arg |-> arg]>>
Locked(lock, body) == Step("lock", lock) \o body \o Step("unlock", lock)
without_interrupts(body) == Step("cli", "") \o body \o Step("restore", "")

_print == without_interrupts(Locked("SERIAL1", << >>))
alloc == without_interrupts(Locked("HEAP", << >>))
read_word == without_interrupts(Locked("PCI_CONFIG", << >>))
push_event(e) == without_interrupts(Locked("EVENT_QUEUE", Step("push", e)))
\* Mutant: the reader of the queue leaves interrupts enabled.
pop_event_open == Locked("EVENT_QUEUE", Step("pop", ""))
pop_event == without_interrupts(Locked("EVENT_QUEUE", Step("pop", "")))

\* The one lock of kernel code that is taken with interrupts enabled.
init_heap == Locked("HEAP", << >>)

notify_end_of_interrupt(line) == Locked("PICS", Step("eoi", line))

\* Mutant: a scancode without a character is not acknowledged.
keyboard_interrupt_handler_early(code) ==
  IF code = NoKey THEN << >> ELSE push_event(code) \o notify_end_of_interrupt(Keyboard)
keyboard_interrupt_handler(code) ==
  (IF code = NoKey THEN << >> ELSE push_event(code)) \o notify_end_of_interrupt(Keyboard)
timer_interrupt_handler == notify_end_of_interrupt(Timer)
mouse_interrupt_handler == push_event("mouse") \o notify_end_of_interrupt(Mouse)
page_fault_handler == _print \o Step("halt", "")

\* Vectors 32 to 39 are the first controller's, 40 to 47 the second's.
PIC_1_OFFSET == 32
PIC_2_OFFSET == PIC_1_OFFSET + 8
Vector(line) == IF line < 8 THEN PIC_1_OFFSET + line ELSE PIC_2_OFFSET + line - 8
InterruptIndex ==
  [timer |-> PIC_1_OFFSET, keyboard |-> PIC_1_OFFSET + 1, mouse |-> PIC_2_OFFSET + 12]
HasHandler(vector) == \E name \in DOMAIN InterruptIndex : InterruptIndex[name] = vector
Handler(vector, code) ==
  IF vector = InterruptIndex.timer THEN timer_interrupt_handler
  ELSE IF vector = InterruptIndex.keyboard THEN keyboard_interrupt_handler(code)
  ELSE mouse_interrupt_handler

\* Mutant: interrupts are enabled before there is a table.
init_early == Step("sti", "") \o Step("idt", "") \o Locked("PICS", << >>)
init == Step("idt", "") \o Locked("PICS", << >>) \o Step("sti", "")

Frame(name, code) == [name |-> name, todo |-> code, saved |-> FALSE]

Init ==
  /\ raised = {} /\ inService = {} /\ scancode = NoKey
  /\ frames = <<Frame("main", init)>>
  /\ iflag = FALSE /\ held = {} /\ idt = FALSE
  /\ buffer = [i \in 0 .. QUEUE_SIZE - 1 |-> NoKey] /\ head = 0 /\ tail = 0
  /\ taken = NoKey
  /\ halted = "no"
  /\ interrupts = 0 /\ jobs = 0

--------------------------------------------------------------------------------
(* Devices. *)

Raise(line) ==
  /\ interrupts < MaxRaised /\ line \notin raised
  /\ raised' = raised \cup {line} /\ interrupts' = interrupts + 1
  /\ \E code \in IF line = Keyboard THEN Key \cup {NoKey} ELSE {scancode} : scancode' = code
  /\ UNCHANGED <<inService, frames, iflag, held, idt, buffer, head, tail, taken, halted, jobs>>

--------------------------------------------------------------------------------
(* The processor. *)

Running == Last(frames)

\* The lowest line waits for no other; a line in service holds back itself and
\* those behind it.
Deliverable(line) ==
  /\ line \in raised
  /\ \A other \in raised \cup inService : line < other \/ (line = other /\ line \notin inService)

Interrupt(line) ==
  /\ halted = "no" /\ iflag /\ Deliverable(line)
  /\ raised' = raised \ {line}
  /\ inService' = inService \cup {line}
  /\ IF idt /\ HasHandler(Vector(line))
       THEN /\ frames' = Append(frames, Frame("handler", Handler(Vector(line), scancode)))
            /\ UNCHANGED halted
       ELSE halted' = "unhandled" /\ UNCHANGED frames
  /\ iflag' = FALSE
  /\ UNCHANGED <<scancode, held, idt, buffer, head, tail, taken, interrupts, jobs>>

\* A fault of the running code, whatever it is doing; also of a handler, and of a
\* fault's handler, which print.  Without a table the machine would reset.
Fault ==
  /\ halted = "no" /\ Running.todo # << >> /\ Len(frames) < MaxFrames /\ idt
  /\ frames' = Append(frames, Frame("fault", page_fault_handler))
  /\ iflag' = FALSE
  /\ UNCHANGED <<raised, inService, scancode, held, idt, buffer, head, tail, taken, halted,
                 interrupts, jobs>>

queue == [i \in 1 .. (head - tail) % QUEUE_SIZE |-> buffer[(tail + i - 1) % QUEUE_SIZE]]

\* Mutant: the last free place is used, too.
push_full(e) ==
  /\ buffer' = [buffer EXCEPT ![head] = e] /\ head' = (head + 1) % QUEUE_SIZE
  /\ UNCHANGED <<tail, taken>>

\* An event that would make the queue look empty is dropped.
push(e) ==
  LET next == (head + 1) % QUEUE_SIZE
  IN /\ IF next # tail THEN buffer' = [buffer EXCEPT ![head] = e] /\ head' = next
                       ELSE UNCHANGED <<buffer, head>>
     /\ UNCHANGED <<tail, taken>>

pop ==
  /\ IF head = tail THEN UNCHANGED <<taken, tail>>
     ELSE taken' = buffer[tail] /\ tail' = (tail + 1) % QUEUE_SIZE
  /\ UNCHANGED <<buffer, head>>

\* The running code's next step; a lock that is held is spun on.
Execute ==
  /\ halted = "no" /\ Running.todo # << >>
  /\ LET s == Head(Running.todo)
         top == Len(frames)
         stepped == [frames EXCEPT ![top].todo = Tail(@)]
     IN /\ s.op = "lock" => s.arg \notin held
        /\ frames' = IF s.op = "cli" THEN [stepped EXCEPT ![top].saved = iflag] ELSE stepped
        /\ iflag' = IF s.op \in {"cli", "sti"} THEN s.op = "sti"
                    ELSE IF s.op = "restore" THEN Running.saved ELSE iflag
        /\ held' = IF s.op = "lock" THEN held \cup {s.arg}
                   ELSE IF s.op = "unlock" THEN held \ {s.arg} ELSE held
        /\ idt' = (idt \/ s.op = "idt")
        /\ inService' = IF s.op = "eoi" THEN inService \ {s.arg} ELSE inService
        /\ halted' = IF s.op = "halt" THEN "fault" ELSE halted
        /\ IF s.op = "push" THEN push(s.arg) ELSE IF s.op = "pop" THEN pop
           ELSE UNCHANGED <<buffer, head, tail, taken>>
  /\ UNCHANGED <<raised, scancode, interrupts, jobs>>

\* iret
Return ==
  /\ halted = "no" /\ Len(frames) > 1 /\ Running.todo = << >>
  /\ frames' = Front(frames)
  /\ iflag' = TRUE
  /\ UNCHANGED <<raised, inService, scancode, held, idt, buffer, head, tail, taken, halted,
                 interrupts, jobs>>

\* kernel_main and what it calls, in any order, and whoever polls for events; otherwise
\* it halts until the next interrupt.
Call ==
  /\ halted = "no" /\ Len(frames) = 1 /\ frames[1].todo = << >> /\ jobs < MaxJobs
  /\ \E code \in {_print, init_heap, alloc, read_word, pop_event} :
       frames' = <<Frame("main", code)>>
  /\ jobs' = jobs + 1
  /\ UNCHANGED <<raised, inService, scancode, iflag, held, idt, buffer, head, tail, taken, halted,
                 interrupts>>

Next ==
  \/ \E line \in Lines : Raise(line) \/ Interrupt(line)
  \/ Fault \/ Execute \/ Return \/ Call

Fairness == WF_vars(Execute) /\ WF_vars(Return) /\ \A line \in Lines : WF_vars(Interrupt(line))

Spec == Init /\ [][Next]_vars /\ Fairness

--------------------------------------------------------------------------------
TypeOK ==
  /\ raised \subseteq Lines /\ inService \subseteq Lines /\ scancode \in Key \cup {NoKey}
  /\ \A i \in DOMAIN frames : frames[i].name \in {"main", "handler", "fault"}
  /\ iflag \in BOOLEAN /\ held \subseteq Locks /\ idt \in BOOLEAN
  /\ buffer \in [0 .. QUEUE_SIZE - 1 -> InputEvent]
  /\ head \in 0 .. QUEUE_SIZE - 1 /\ tail \in 0 .. QUEUE_SIZE - 1 /\ taken \in InputEvent
  /\ halted \in {"no", "fault", "unhandled"}

\* Code that spins on a lock which it, or the code it interrupted, holds would spin for
\* ever on one processor.  Only a fault's handler may: its report of a fault that was
\* raised while something is printed waits for the serial port.
OnlyFaultsSpin ==
  halted = "no" /\ Running.todo # << >> /\ Head(Running.todo).op = "lock"
    /\ Head(Running.todo).arg \in held
      => Running.name = "fault" /\ Head(Running.todo).arg = "SERIAL1"

\* No interrupt comes before the table, and kernel code is never left with a line
\* still in service, which would keep that line and those behind it silent.
InterruptsAreFinished ==
  /\ halted # "unhandled"
  /\ halted = "no" /\ Len(frames) = 1 => inService = {}

\* Events come out in the order they were pushed; a push leaves the queue as it is
\* or one longer, at the rear.
F == INSTANCE Fifo WITH Event <- InputEvent
ImplementsFifo == F!Spec

\* A line that is raised is served and finished, unless a fault is being reported or
\* the processor stops.
Faulted == \E i \in DOMAIN frames : frames[i].name = "fault"
EveryLineIsServed ==
  \A line \in Lines :
    line \in raised ~> (line \notin raised \cup inService \/ Faulted \/ halted # "no")

\* README.md:81 lists "Keyboard/Mouse: PS/2 Legacy fallback" as done: refuted by line 12,
\* whose vector has no handler.
MouseIsHandled == halted # "unhandled"
================================================================================
