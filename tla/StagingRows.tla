------------------------------- MODULE StagingRows ------------------------------
(***************************************************************************)
(* The rows of Lumen's console (quartzite/platforms/gtk/spline.rs, the     *)
(* bind handler of console_factory): GTK keeps a few rows and binds each   *)
(* to the item that scrolls into it.  A row for a staged payload has text  *)
(* fields, whose changes go to the item, and a button that dispatches what *)
(* the fields show.  One field stands for the four.                        *)
(***************************************************************************)
EXTENDS Integers, FiniteSets

CONSTANTS
  Stagings,  \* staged payloads
  Others,    \* messages and pulses
  Rows,      \* widgets that ListView recycles
  MaxTyped   \* bound: edits of the user

Items == Stagings \cup Others
None == "none"

VARIABLES
  text,      \* what each staging holds: whose text, and of which edit
  locked,    \* stagings that have been dispatched
  shown,     \* the item each row is bound to
  buffer,    \* what each row's field shows
  changed,   \* the items that changes of a row's field are copied to
  clicked,   \* the items that a row's button dispatches
  editable,  \* rows whose field and buttons the user can use
  typed,     \* for each staging, the last thing the user saw and typed there
  edits,     \* made so far
  sent       \* payloads dispatched: item, text, and the item on screen

vars == <<text, locked, shown, buffer, changed, clicked, editable, typed, edits, sent>>

Init ==
  /\ text = [s \in Stagings |-> <<s, 0>>] /\ typed = text
  /\ locked = {}
  /\ shown = [r \in Rows |-> None] /\ buffer = [r \in Rows |-> <<None, 0>>]
  /\ changed = [r \in Rows |-> {}] /\ clicked = [r \in Rows |-> {}]
  /\ editable = {} /\ edits = 0 /\ sent = {}

\* Mutant: the handlers of the row's last item stay connected.
ConnectToo(r, item) ==
  /\ changed' = [changed EXCEPT ![r] = @ \cup {item}]
  /\ clicked' = [clicked EXCEPT ![r] = @ \cup {item}]

\* The last item's handlers are disconnected.
Connect(r, item) ==
  /\ changed' = [changed EXCEPT ![r] = {item}]
  /\ clicked' = [clicked EXCEPT ![r] = {item}]

\* set_text comes first: the handlers still connected copy the new item's text to
\* the item the row showed before.
BindStaging(r, item) ==
  /\ buffer' = [buffer EXCEPT ![r] = text[item]]
  /\ text' = [s \in Stagings |-> IF s \in changed[r] THEN text[item] ELSE text[s]]
  /\ editable' = IF item \in locked THEN editable \ {r} ELSE editable \cup {r}
  /\ Connect(r, item)

\* Other items hide the fields and leave them, and their handlers, alone.
BindOther == UNCHANGED <<buffer, text, editable, changed, clicked>>

Bind(r, item) ==
  /\ shown[r] # item /\ \A other \in Rows : shown[other] # item
  /\ shown' = [shown EXCEPT ![r] = item]
  /\ IF item \in Stagings THEN BindStaging(r, item) ELSE BindOther
  /\ UNCHANGED <<locked, typed, edits, sent>>

ScrollOut(r) ==
  /\ shown[r] # None
  /\ shown' = [shown EXCEPT ![r] = None]
  /\ UNCHANGED <<text, locked, buffer, changed, clicked, editable, typed, edits, sent>>

Visible(r) == shown[r] \in Stagings /\ r \in editable

Type(r) ==
  /\ Visible(r) /\ edits < MaxTyped
  /\ edits' = edits + 1
  /\ LET t == <<shown[r], edits + 1>>
     IN /\ buffer' = [buffer EXCEPT ![r] = t]
        /\ text' = [s \in Stagings |-> IF s \in changed[r] THEN t ELSE text[s]]
        /\ typed' = [typed EXCEPT ![shown[r]] = t]
  /\ UNCHANGED <<locked, shown, changed, clicked, editable, sent>>

\* Each connected handler locks its item and sends what the row shows.
PressDispatch(r) ==
  /\ Visible(r)
  /\ locked' = locked \cup clicked[r]
  /\ editable' = editable \ {r}
  /\ text' = [s \in Stagings |-> IF s \in clicked[r] THEN buffer[r] ELSE text[s]]
  /\ sent' = sent \cup {[item |-> s, text |-> buffer[r], seen |-> shown[r]] : s \in clicked[r]}
  /\ UNCHANGED <<shown, buffer, changed, clicked, typed, edits>>

\* An error unlocks every staging and has the rows bound again (items_changed).
Unlock ==
  /\ locked # {}
  /\ locked' = {}
  /\ shown' = [row \in Rows |-> IF shown[row] \in Stagings THEN None ELSE shown[row]]
  /\ UNCHANGED <<text, buffer, changed, clicked, editable, typed, edits, sent>>

Next ==
  \/ Unlock
  \/ \E r \in Rows : \/ \E item \in Items : Bind(r, item)
                     \/ ScrollOut(r) \/ Type(r) \/ PressDispatch(r)

Spec == Init /\ [][Next]_vars

--------------------------------------------------------------------------------
TypeOK ==
  /\ text \in [Stagings -> Stagings \X (0 .. MaxTyped)]
  /\ locked \subseteq Stagings /\ editable \subseteq Rows
  /\ shown \in [Rows -> Items \cup {None}]

\* However rows have been recycled, what the user does in one reaches the item it
\* shows and no other: a dispatch sends one payload, of the item on the screen.
RowsAreTheirs ==
  /\ \A r \in Rows : shown[r] \in Stagings => clicked[r] = {shown[r]} /\ changed[r] = {shown[r]}
  /\ \A d \in sent : d.item = d.seen

\* spline.rs:787, "Bind text updates to prevent data loss on scroll": a staging holds
\* what its user last typed there.
ScrollKeepsText == \A s \in Stagings : text[s] = typed[s]
================================================================================
