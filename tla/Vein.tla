--------------------------------- MODULE Vein ----------------------------------
(***************************************************************************)
(* Vein (handlers/vein/src): the handler of UI events, the brain that      *)
(* serves them one after the other, and the detached tasks that save       *)
(* memories in the vault while it goes on.  A step of the brain runs from  *)
(* one await to the next at which another task can make a difference; each *)
(* use of the vault is one step, as it holds the vault's mutex throughout. *)
(***************************************************************************)
EXTENDS Channels

VARIABLES
  inbox,     \* what the handler has sent the brain
  brain,     \* where the loop of new() stands: at, the text it serves, what it recalled
  tasks,     \* detached tasks: memories to be saved
  vault      \* the memories saved

vein == <<inbox, brain, tasks, vault>>

Memory(sender, text) == [sender |-> sender, text |-> text]
Memories == [sender : {"user", "model", "engram", "directive"}, text : Text]

VeinInit ==
  /\ inbox = << >>
  /\ brain = [at |-> "boot", text |-> SomeText, recalled |-> {}]
  /\ tasks = {}
  /\ vault = {}

\* The brain is gone when the client could not be made: its inbox is closed.
Dead == brain.at = "dead"
Tell(u) == updates' = updates \o u

\* handle_event, in a task of its own, sends on what is typed and what is dispatched.
\* Uploads, changes of the view and lines that only inform are left out.
Handle ==
  /\ events # << >>
  /\ events' = Tail(events)
  /\ LET e == Head(events)
         sent == IF Dead THEN inbox ELSE Append(inbox, e)
     IN \/ /\ e.kind = "question"
           /\ inbox' = sent
           /\ Tell(IF Dead THEN <<Show("log", e.text)>> ELSE << >>)
        \/ /\ e.kind \in {"clear", "directive", "dispatch"}
           /\ inbox' = sent
           /\ UNCHANGED updates
  /\ UNCHANGED <<brain, tasks, vault>>

\* The vault is opened and read: no memory comes back, as the catalog the query
\* reads has no types (see AttributeQuery).  Without a token the brain ends here.
Boot ==
  /\ brain.at = "boot"
  /\ \/ /\ brain' = [brain EXCEPT !.at = "recv"]
        /\ UNCHANGED inbox
     \/ brain' = [brain EXCEPT !.at = "dead"] /\ inbox' = << >>
  /\ UNCHANGED <<events, updates, tasks, vault>>

Receive(kind) == brain.at = "recv" /\ inbox # << >> /\ Head(inbox).kind = kind /\ inbox' = Tail(inbox)

\* A directive is embedded and saved by a detached task; without embedding it is lost.
SaveDirective ==
  /\ Receive("directive")
  /\ \/ tasks' = tasks \cup {Memory("directive", Head(inbox).text)}
     \/ UNCHANGED tasks
  /\ UNCHANGED <<events, updates, brain, vault>>

\* Mutant: a payload that cannot be decoded is passed over in silence.
GenerateSilent ==
  /\ Receive("dispatch")
  /\ LET text == Head(inbox).text
     IN \/ /\ Tell(<<Show("una", text)>>)
           /\ brain' = [brain EXCEPT !.at = "answered", !.text = text]
        \/ UNCHANGED <<brain, updates>>
  /\ UNCHANGED <<events, tasks, vault>>

\* Mutant: an error ends the loop.
GenerateOnce ==
  /\ Receive("dispatch")
  /\ LET text == Head(inbox).text
     IN \/ /\ Tell(<<Show("una", text)>>)
           /\ brain' = [brain EXCEPT !.at = "answered", !.text = text]
        \/ Tell(<<Show("error", text)>>) /\ brain' = [brain EXCEPT !.at = "dead"]
  /\ UNCHANGED <<events, tasks, vault>>

\* A payload is decoded and sent: the answer is shown, or an error.
Generate ==
  /\ Receive("dispatch")
  /\ LET text == Head(inbox).text
     IN \/ /\ Tell(<<Show("una", text)>>)
           /\ brain' = [brain EXCEPT !.at = "answered", !.text = text]
        \/ Tell(<<Show("error", text)>>) /\ UNCHANGED brain
  /\ UNCHANGED <<events, tasks, vault>>

\* The answer, embedded or not, and an engram of it are saved by detached tasks.
RememberAnswer ==
  /\ brain.at = "answered"
  /\ tasks' = tasks \cup {Memory("model", brain.text),
                          Memory("engram", brain.text)}
  /\ brain' = [brain EXCEPT !.at = "recv"]
  /\ UNCHANGED <<events, inbox, updates, vault>>

\* /clear: the file is removed and a new one made; if that fails the old vault
\* stays in use.  The console is told either way.
Clear ==
  /\ Receive("clear")
  /\ vault' \in {{}, vault}
  /\ Tell(<<Show("clear", Head(inbox).text)>>)
  /\ UNCHANGED <<events, brain, tasks>>

\* What a search for memories of type "chat" may find.
Chats(memories) == {m.text : m \in {n \in memories : n.sender \in {"user", "model"}}}

\* Mutant: the question is saved before the vault is searched.
RecallAfterSaving ==
  /\ Receive("question")
  /\ vault' = vault \cup {Memory("user", Head(inbox).text)}
  /\ brain' = [at |-> "recalled", text |-> Head(inbox).text,
               recalled |-> Chats(vault')]
  /\ UNCHANGED <<events, updates, tasks>>

\* A question: the vault is searched by similarity, or, if the question cannot be
\* embedded, not at all.  What counts is what the search may find.
Recall ==
  /\ Receive("question")
  /\ brain' = [at |-> "recalled", text |-> Head(inbox).text, recalled |-> Chats(vault)]
  /\ UNCHANGED <<events, updates, tasks, vault>>

\* Only then it is saved, by a detached task, and the payload sent for review.
SendReview ==
  /\ brain.at = "recalled"
  /\ tasks' = tasks \cup {Memory("user", brain.text)}
  /\ Tell(<<Show("review", brain.text)>>)
  /\ brain' = [brain EXCEPT !.at = "recv", !.recalled = {}]
  /\ UNCHANGED <<events, inbox, vault>>

\* A detached task saves, or fails and says so only on stderr.  That of an engram
\* first has the answer compressed and embedded, by a client of its own.
Save(t) ==
  /\ t \in tasks
  /\ tasks' = tasks \ {t}
  /\ vault' \in {vault \cup {t}, vault}
  /\ UNCHANGED <<events, inbox, updates, brain>>

VeinTypeOK ==
  /\ events \in Seq(Events) /\ inbox \in Seq(Events) /\ updates \in Seq(Updates)
  /\ brain \in [at : {"boot", "dead", "recv", "answered", "recalled"}, text : Text,
                recalled : SUBSET Text]
  /\ tasks \subseteq Memories
  /\ vault \subseteq Memories
================================================================================
