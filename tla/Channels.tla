------------------------------- MODULE Channels --------------------------------
(***************************************************************************)
(* The two unbounded channels between the console and Vein                 *)
(* (apps/lumen/src/main.rs), with what goes through them.                  *)
(***************************************************************************)
EXTENDS Naturals, Sequences, FiniteSets

CONSTANT Text     \* what the user asks, each text once

ASSUME TextIsNonEmpty == Text # {}

VARIABLES
  events,   \* UI events on their way to the handler
  updates   \* what the UI has yet to show

Events == [kind : {"question", "clear", "directive", "dispatch"}, text : Text]
Updates == [kind : {"log", "una", "review", "error", "clear"}, text : Text]

Show(kind, text) == [kind |-> kind, text |-> text]

\* Nothing depends on what commands other than questions are about.
SomeText == CHOOSE text \in Text : TRUE
================================================================================
