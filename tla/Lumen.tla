--------------------------------- MODULE Lumen ---------------------------------
(***************************************************************************)
(* Lumen (apps/lumen/src/main.rs): the console and Vein, joined by the     *)
(* channel of events and the channel of updates, both unbounded.           *)
(***************************************************************************)
EXTENDS Vein, Console

vars == <<vein, console, events, updates>>

Init == VeinInit /\ ConsoleInit /\ events = << >> /\ updates = << >>

BrainStep ==
  Boot \/ SaveDirective \/ Generate \/ RememberAnswer \/ Clear \/ Recall \/ SendReview
TaskStep == \E t \in tasks : Save(t)

VeinStep == (Handle \/ BrainStep \/ TaskStep) /\ UNCHANGED console

UserStep ==
  \/ \E text \in Text : Ask(text)
  \/ \E kind \in {"clear", "directive"} : Command(kind)
  \/ \E i \in DOMAIN store : PressDispatch(i) \/ OpenDialog(i)
  \/ CloseDialog

Next == VeinStep \/ ((UserStep \/ ShowUpdate) /\ UNCHANGED vein)

\* The handler's task, the brain, each detached task and the main loop go on; the
\* user may do nothing more.
Fairness ==
  /\ WF_vars(Handle /\ UNCHANGED console)
  /\ WF_vars(BrainStep /\ UNCHANGED console)
  /\ WF_vars(TaskStep /\ UNCHANGED console)
  /\ WF_vars(ShowUpdate /\ UNCHANGED vein)

Spec == Init /\ [][Next]_vars /\ Fairness

--------------------------------------------------------------------------------
TypeOK == VeinTypeOK /\ ConsoleTypeOK

Count(s, P(_)) == Cardinality({i \in DOMAIN s : P(s[i])})

\* The payloads dispatched of which the console has not shown the outcome.
InFlight ==
  LET IsDispatch(e) == e.kind = "dispatch"
      IsOutcome(u) == u.kind \in {"una", "error"}
  IN Count(events, IsDispatch) + Count(inbox, IsDispatch) + Count(updates, IsOutcome)

\* A staging is locked, and a pulse says "AWAITING SYNAPSE...", only for an outcome
\* that is still to come: no order of answers, errors, clears and deletions leaves
\* a payload that can be neither dispatched nor deleted.
LockedIsAwaited ==
  /\ Count(store, IsLocked) <= InFlight
  /\ Count(store, IsPulse) <= InFlight

\* The lock the dialog was opened without is still not there when it is confirmed: the
\* dialog is modal, so that nothing is dispatched behind it.  Locked is not the same as
\* in flight: an error unlocks every staging (spline.rs:1423-1432), those of which the
\* outcome is still to come included, and these may be deleted, or dispatched again.
LockedIsKept == \A i \in DOMAIN store : store[i].id = dialog => ~IsLocked(store[i])

\* A question is not recalled as a memory for itself ("SAVE USER MEMORY LAST
\* (Resolving Temporal Paradox)", lib.rs:557).
NoSelfRecall == brain.text \notin brain.recalled

\* What the user waits for comes: in the end everything typed and dispatched is
\* served, every memory is saved or refused, and nothing is locked or pulsing.
AllServed ==
  <>[](/\ events = << >> /\ inbox = << >> /\ tasks = {}
       /\ \A i \in DOMAIN store : ~IsLocked(store[i]) /\ ~IsPulse(store[i]))

\* lib.rs:435 tells the user that the vault is "Physically Reformatted".
ClearedIsForgotten ==
  \A i \in DOMAIN updates : updates[i].kind = "clear" => vault = {}

\* spline.rs:1298 says "We only mutate the last Staging view that was locked."
LastLockedIsMutated ==
  LockedStagings(store) # {} =>
    \A i \in LockedStagings(store) : store[i].locked <= store[Target(store)].locked
================================================================================
