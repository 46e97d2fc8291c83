CONSTANTS
  Event <- MCEvent
  EVENT_RING_SIZE = 3
  MaxPosted = 5
  Lines = {0, 1}
  Key = {"k", "l"}
  QUEUE_SIZE = 3
  MaxRaised = 4
  MaxJobs = 2
  MaxFrames = 3
SPECIFICATION MCSpec
INVARIANTS TypeOK FreshIsPosted OnlyFaultsSpin InterruptsAreFinished
PROPERTIES ImplementsFifo EventsAreFifo EveryLineIsServed
CHECK_DEADLOCK FALSE
