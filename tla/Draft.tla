---------------------------------- MODULE Draft ---------------------------------
(***************************************************************************)
(* The draft in Lumen's input field (quartzite/platforms/gtk/spline.rs):   *)
(* half a second after the last change it is written to a file, which is   *)
(* removed when the message is sent and read when Lumen starts.            *)
(***************************************************************************)
EXTENDS Integers, FiniteSets

CONSTANTS
  MaxTexts,   \* bound: texts typed, numbered in their order; 0 is the empty text
  MaxStarts   \* bound: times Lumen is started

Absent == -1

VARIABLES
  input,         \* the field's text
  pending_save,  \* the timer the handler knows, or 0
  timers,        \* timers that run: their number and the text they will write
  file,          \* .lumen_draft.txt, or Absent
  sent,          \* texts sent
  texts, started, made  \* counted for the bounds: texts, starts, timers

vars == <<input, pending_save, timers, file, sent, texts, started, made>>

Init ==
  /\ input = 0 /\ pending_save = 0 /\ timers = {} /\ file = Absent /\ sent = {}
  /\ texts = 0 /\ started = 1 /\ made = 0

\* Mutants: the timer of the last change goes on; a timer that fires stays known.
ScheduleToo(text) ==
  /\ made' = made + 1
  /\ timers' = timers \cup {[id |-> made + 1, text |-> text]}
  /\ pending_save' = made + 1

\* The changed handler: the pending save is cancelled and a new one scheduled.
Schedule(text) ==
  /\ made' = made + 1
  /\ timers' = {t \in timers : t.id # pending_save} \cup {[id |-> made + 1, text |-> text]}
  /\ pending_save' = made + 1

Type ==
  /\ texts < MaxTexts
  /\ texts' = texts + 1
  /\ input' = texts + 1
  /\ Schedule(input')
  /\ UNCHANGED <<file, sent, started>>

FireKeepsSource(t) == timers' = timers \ {t} /\ file' = t.text /\ UNCHANGED pending_save
Fire(t) == timers' = timers \ {t} /\ file' = t.text /\ pending_save' = 0

Save ==
  /\ \E t \in timers : Fire(t)
  /\ UNCHANGED <<input, sent, texts, started, made>>

\* Enter, or the button: the file is removed, and emptying the field is a change.
Send ==
  /\ input # 0
  /\ file' = Absent
  /\ sent' = sent \cup {input}
  /\ input' = 0
  /\ Schedule(0)
  /\ UNCHANGED <<texts, started>>

\* The window is closed, timers and all, and Lumen started again; setting the text
\* comes before the handler is connected.
Restart ==
  /\ started < MaxStarts
  /\ started' = started + 1
  /\ input' = IF file = Absent THEN 0 ELSE file
  /\ timers' = {} /\ pending_save' = 0
  /\ UNCHANGED <<file, sent, texts, made>>

Next == Type \/ Save \/ Send \/ Restart

\* The main loop runs the timers.
Fairness == WF_vars(Save)

--------------------------------------------------------------------------------
\* A message that was sent does not come back as a draft: neither in the file, nor
\* from a timer that was running when it was sent.
SentIsNotDraft ==
  /\ file \notin sent /\ input \notin sent
  /\ \A t \in timers : t.text \notin sent

\* The handler knows the timer that runs: it cancels no timer twice, which GLib
\* aborts on, and leaves none behind.
TimerIsKnown == {t.id : t \in timers} = {pending_save} \ {0}

DraftIsSafe == SentIsNotDraft /\ TimerIsKnown

\* Where the user stops, the file is or will be what the field shows.
DraftIsSaved == <>[](file = input \/ (file = Absent /\ input = 0))
================================================================================
