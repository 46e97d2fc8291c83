------------------------------- MODULE MCKernel --------------------------------
\* The kernel's two queues of events for TLC, one beside the other: the ring the
\* xHCI controller fills, and the one that interrupt handlers fill.
EXTENDS EventRing

CONSTANTS Lines, Key, QUEUE_SIZE, MaxRaised, MaxJobs, MaxFrames

\* The two controllers have eight lines each.
ASSUME KernelAssumption == Lines \subseteq 0 .. 15 /\ QUEUE_SIZE \in Nat \ {0}

VARIABLES part, raised, inService, scancode, frames, iflag, held, idt, buffer, head, tail,
          polled, halted, interrupts, jobs

K == INSTANCE Kernel WITH taken <- polled
kernelVars == <<raised, inService, scancode, frames, iflag, held, idt, buffer, head, tail, polled,
                halted, interrupts, jobs>>

\* Symbols in place of the events' contents.
MCEvent == {"port", "command", "transfer"}

KernelInit == part = "processor" /\ Init /\ taken = "port" /\ K!Init
RingInit == part = "ring" /\ Init /\ K!Init

KernelNext == part = "processor" /\ K!Next /\ UNCHANGED <<part, vars>>
RingNext == part = "ring" /\ Next /\ UNCHANGED <<part, kernelVars>>

MCFairness ==
  /\ WF_<<part, vars, kernelVars>>(part = "processor" /\ K!Execute /\ UNCHANGED <<part, vars>>)
  /\ WF_<<part, vars, kernelVars>>(part = "processor" /\ K!Return /\ UNCHANGED <<part, vars>>)
  /\ \A line \in Lines :
       WF_<<part, vars, kernelVars>>(part = "processor" /\ K!Interrupt(line) /\ UNCHANGED <<part, vars>>)

MCSpec ==
  /\ KernelInit \/ RingInit
  /\ [][KernelNext \/ RingNext]_<<part, vars, kernelVars>>
  /\ MCFairness

--------------------------------------------------------------------------------
\* Nothing but a fault's report, and that only on the serial port, spins on a lock that
\* it, or the code it interrupted, holds.
OnlyFaultsSpin == K!OnlyFaultsSpin

\* Every interrupt finds its handler and is acknowledged before kernel code goes on.
InterruptsAreFinished == K!InterruptsAreFinished

\* Input events are polled once, in the order of their interrupts.
EventsAreFifo == K!ImplementsFifo

\* An interrupt that is raised is served, whatever the kernel is doing.
EveryLineIsServed == K!EveryLineIsServed
================================================================================
