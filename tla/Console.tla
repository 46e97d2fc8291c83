-------------------------------- MODULE Console --------------------------------
(***************************************************************************)
(* The console of Lumen (quartzite/platforms/gtk/spline.rs, the same twice *)
(* for GNOME and for plain GTK): what the user types, the payloads staged  *)
(* for review, their dispatch, and the loop that shows Vein's updates.     *)
(* All of it runs on the main thread, one callback at a time.  Finished    *)
(* messages are not kept: nothing depends on them.                         *)
(***************************************************************************)
EXTENDS Channels

CONSTANTS
  MaxDispatch,  \* bound: payloads dispatched
  MaxOther      \* bound: other commands given

ASSUME ConsoleAssumption == MaxDispatch \in Nat /\ MaxOther \in Nat

VARIABLES
  store,    \* console_store: the stagings and pulses, in the order shown
  dialog,   \* the staging whose deletion is being confirmed, or 0
  asked,    \* texts typed so far
  others,   \* other commands given so far
  locks,    \* payloads dispatched so far
  ids       \* stagings and pulses made so far: their time stamps

console == <<store, dialog, asked, others, locks, ids>>

\* locked: 0, or which dispatch locked the staging (the code keeps a flag; the
\* order is there to speak of the last one locked).

\* Mutant: an item gets the time stamp of the one before.
StagingSameTick(id, text) == [kind |-> "staging", id |-> id - 1, text |-> text, locked |-> 0]

Staging(id, text) == [kind |-> "staging", id |-> id, text |-> text, locked |-> 0]
Pulse(id, text) == [kind |-> "pulse", id |-> id, text |-> text, locked |-> 0]

IsPulse(item) == item.kind = "pulse"
IsLocked(item) == item.kind = "staging" /\ item.locked > 0

ConsoleInit ==
  /\ store = << >> /\ dialog = 0 /\ asked = {} /\ others = 0 /\ locks = 0 /\ ids = 0

\* The list without the items at these indices: they are noted first and removed from
\* back to front, so that those still to go keep theirs.
Without(s, gone) ==
  LET kept[n \in 0 .. Len(s)] ==
        IF n = 0 THEN << >> ELSE IF n \in gone THEN kept[n - 1] ELSE Append(kept[n - 1], s[n])
  IN kept[Len(s)]

\* The dialog is modal: the window takes no other input while it is open.
Ask(text) ==
  /\ dialog = 0 /\ text \notin asked
  /\ asked' = asked \cup {text}
  /\ events' = Append(events, [kind |-> "question", text |-> text])
  /\ UNCHANGED <<store, dialog, others, locks, ids, updates>>

\* /clear and /directive.
Command(kind) ==
  /\ dialog = 0 /\ others < MaxOther
  /\ others' = others + 1
  /\ events' = Append(events, [kind |-> kind, text |-> SomeText])
  /\ UNCHANGED <<store, dialog, asked, locks, ids, updates>>

\* The staging is locked, a pulse added, and the payload sent.
Dispatch(i) ==
  /\ locks' = locks + 1 /\ ids' = ids + 1
  /\ store' = Append([store EXCEPT ![i].locked = locks + 1], Pulse(ids + 1, store[i].text))
  /\ events' = Append(events, [kind |-> "dispatch", text |-> store[i].text])

\* Mutant: the dialog leaves the window usable.
PressDispatchBehind(i) ==
  /\ locks < MaxDispatch
  /\ i \in DOMAIN store /\ store[i].kind = "staging" /\ store[i].locked = 0
  /\ Dispatch(i)
  /\ UNCHANGED <<dialog, asked, others, updates>>

PressDispatch(i) ==
  /\ dialog = 0 /\ locks < MaxDispatch
  /\ i \in DOMAIN store /\ store[i].kind = "staging" /\ store[i].locked = 0
  /\ Dispatch(i)
  /\ UNCHANGED <<dialog, asked, others, updates>>

Deletable(item) == item.kind = "staging" /\ item.locked = 0

OpenDialog(i) ==
  /\ dialog = 0 /\ others < MaxOther
  /\ i \in DOMAIN store /\ Deletable(store[i])
  /\ dialog' = store[i].id /\ others' = others + 1
  /\ UNCHANGED <<store, asked, locks, ids, events, updates>>

\* Confirmed, the item with that id is removed, if it is still there.
CloseDialog ==
  /\ dialog # 0
  /\ \/ store' = Without(store, {i \in DOMAIN store : store[i].id = dialog})
     \/ UNCHANGED store
  /\ dialog' = 0
  /\ UNCHANGED <<asked, others, locks, ids, events, updates>>

--------------------------------------------------------------------------------
\* The update loop.

LockedStagings(s) == {i \in DOMAIN s : IsLocked(s[i])}
Pulses(s) == {i \in DOMAIN s : IsPulse(s[i])}

\* The one an answer turns into a message: the last of the list that is locked.
Target(s) == CHOOSE i \in LockedStagings(s) : \A j \in LockedStagings(s) : j <= i

\* An answer drops every pulse and one locked staging, which becomes a message.
Answered(s) ==
  Without(s, Pulses(s) \cup IF LockedStagings(s) = {} THEN {} ELSE {Target(s)})

FirstPulse(s) == {i \in Pulses(s) : \A j \in Pulses(s) : i <= j}

\* Mutant: an error unlocks nothing.
FailedLocked(s) == Without(s, FirstPulse(s))

\* An error drops the first pulse and unlocks every staging.
Failed(s) ==
  LET rest == Without(s, FirstPulse(s))
  IN [i \in DOMAIN rest |->
        IF rest[i].kind = "staging" THEN [rest[i] EXCEPT !.locked = 0] ELSE rest[i]]

ShowUpdate ==
  /\ updates # << >>
  /\ updates' = Tail(updates)
  /\ LET u == Head(updates)
     IN \/ u.kind = "una" /\ store' = Answered(store) /\ UNCHANGED ids
        \/ u.kind = "error" /\ store' = Failed(store) /\ UNCHANGED ids
        \/ u.kind = "clear" /\ store' = << >> /\ UNCHANGED ids
        \/ /\ u.kind = "review"
           /\ store' = Append(store, Staging(ids + 1, u.text))
           /\ ids' = ids + 1
        \/ u.kind = "log" /\ UNCHANGED <<store, ids>>
  /\ UNCHANGED <<dialog, asked, others, locks, events>>

ConsoleTypeOK ==
  /\ \A i \in DOMAIN store :
       store[i] \in [kind : {"staging", "pulse"}, id : 1 .. ids, text : Text,
                     locked : 0 .. MaxDispatch]
  /\ \A i, j \in DOMAIN store : store[i].id = store[j].id => i = j
  /\ dialog \in 0 .. ids
  /\ asked \subseteq Text /\ others \in 0 .. MaxOther /\ locks \in 0 .. MaxDispatch
================================================================================
