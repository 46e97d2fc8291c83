----------------------------------- MODULE Bus ----------------------------------
(***************************************************************************)
(* The bus between the parts of Lumen (bandy/synapse.rs, a bounded         *)
(* broadcast channel that drops the oldest message for a slow receiver)    *)
(* and the core that listens to it and burns what it hears into its vault  *)
(* (apps/lumen/core.rs, cortex.rs).                                        *)
(***************************************************************************)
EXTENDS Integers, Sequences

CONSTANTS
  CHANNEL,  \* 1024 in the code
  MaxSent   \* bound: messages fired by the other parts

\* Messages by what the core does with them; it absorbs the noise.
Messages == {"prompt", "file", "log", "noise", "kill"}
Imprinted == {"prompt", "file", "log"}

VARIABLES
  sent,       \* messages fired, the oldest first; the channel holds the last of them
  core,       \* "spawned", "awake", "listening" or "severed"
  cursor,     \* messages the core's receiver is past
  subscribed, \* the cursor it started with
  skipped,    \* positions it was told it had missed
  imprints    \* create_inode and write_data in the vault, by position

vars == <<sent, core, cursor, subscribed, skipped, imprints>>

Init ==
  /\ sent = << >> /\ core = "spawned" /\ cursor = 0 /\ subscribed = 0
  /\ skipped = {} /\ imprints = << >>

\* Synapse::fire: with nobody listening a message is lost.
fire(m) == sent' = Append(sent, m)

Fire(m) ==
  /\ Len(sent) < MaxSent
  /\ fire(m)
  /\ UNCHANGED <<core, cursor, subscribed, skipped, imprints>>

\* Cortex::awaken fires before ignite subscribes.
awaken ==
  /\ core = "spawned"
  /\ core' = "awake"
  /\ fire("log")
  /\ UNCHANGED <<cursor, subscribed, skipped, imprints>>

Subscribe ==
  /\ core = "awake"
  /\ core' = "listening"
  /\ cursor' = Len(sent) /\ subscribed' = Len(sent)
  /\ UNCHANGED <<sent, skipped, imprints>>

\* Mutant: the receiver starts anew when it lags.
LaggedAnew ==
  /\ cursor' = Len(sent)
  /\ skipped' = skipped \cup cursor + 1 .. Len(sent) - CHANNEL
  /\ UNCHANGED <<core, imprints>>
Lagged ==
  /\ cursor' = Len(sent) - CHANNEL
  /\ skipped' = skipped \cup cursor + 1 .. Len(sent) - CHANNEL
  /\ UNCHANGED <<core, imprints>>

\* The vault may be full: the imprint is lost, and nothing else.
imprint(position) == imprints' = Append(imprints, position) \/ UNCHANGED imprints

\* Mutant: the core goes on after Kill.
HandleOn(m, position) ==
  /\ UNCHANGED core
  /\ IF m \in Imprinted THEN imprint(position) ELSE UNCHANGED imprints

Handle(m, position) ==
  /\ core' = IF m = "kill" THEN "severed" ELSE core
  /\ IF m \in Imprinted THEN imprint(position) ELSE UNCHANGED imprints

recv ==
  /\ core = "listening" /\ cursor < Len(sent)
  /\ IF Len(sent) - cursor > CHANNEL
       THEN Lagged
       ELSE /\ Handle(sent[cursor + 1], cursor + 1)
            /\ cursor' = cursor + 1 /\ UNCHANGED skipped
  /\ UNCHANGED <<sent, subscribed>>

Next == (\E m \in Messages : Fire(m)) \/ awaken \/ Subscribe \/ recv

\* The runtime polls its tasks.
Fairness == WF_vars(awaken) /\ WF_vars(Subscribe) /\ WF_vars(recv)

Spec == Init /\ [][Next]_vars /\ Fairness

--------------------------------------------------------------------------------
\* The core imprints each message at most once and in the order of the bus, none it
\* was told it skipped; and whatever it is past and was not told it skipped, it has
\* seen: a kill is not among them while it listens.
ImprintsInOrder ==
  /\ \A i, j \in DOMAIN imprints : i < j => imprints[i] < imprints[j]
  /\ \A i \in DOMAIN imprints : /\ imprints[i] \in subscribed + 1 .. cursor
                                /\ imprints[i] \notin skipped
                                /\ sent[imprints[i]] \in Imprinted
  /\ skipped \subseteq subscribed + 1 .. cursor
  /\ core = "listening" =>
       \A p \in subscribed + 1 .. cursor : sent[p] = "kill" => p \in skipped

\* A kill that is fired while the core listens ends it, unless the channel overflows.
KillIsObeyed ==
  (core = "listening" /\ \E p \in cursor + 1 .. Len(sent) : sent[p] = "kill") ~>
    (core = "severed" \/ skipped # {})
================================================================================
