-------------------------------- MODULE ApiClient -------------------------------
(***************************************************************************)
(* The clients of the model's API (gneiss_pal/src/api/mod.rs): the brain's *)
(* and those its detached tasks make, each with a token from gcloud that   *)
(* the server stops accepting some time later.  generate_content and       *)
(* embed_content run the same loop: a request refused with 401 fetches a   *)
(* token and is sent once more.  The HTTP client gives a request 300       *)
(* seconds; gcloud is run with Command::output(), which waits for ever.    *)
(***************************************************************************)
EXTENDS Integers

CONSTANTS
  Clients,
  MaxIssued,  \* bound: tokens gcloud issues
  MaxCalls    \* bound: calls each client makes

\* What a request comes back with, a refusal aside: an answer, none (a block, no
\* candidates, no embedding), another status, or nothing within the time limit.
Replies == {"answer", "silence", "status", "lost"}

VARIABLES
  issued,    \* the token gcloud has now; the server accepts it and no older one
  granted,   \* gcloud is set up
  token,     \* ResilientClient.token of each client, 0 before there is one
  pc,        \* where each client is
  attempts,  \* requests of the current call
  result,    \* of the last call
  latest,    \* no code reads it: the token gcloud had when the current call asked, or 0
  calls      \* made so far

vars == <<issued, granted, token, pc, attempts, result, latest, calls>>

Init ==
  /\ issued = 1 /\ granted \in BOOLEAN
  /\ token = [c \in Clients |-> 0]
  /\ pc = [c \in Clients |-> "absent"]
  /\ attempts = [c \in Clients |-> 0]
  /\ result = [c \in Clients |-> "none"]
  /\ latest = [c \in Clients |-> 0]
  /\ calls = [c \in Clients |-> 0]

\* The token in use expires, and gcloud has a new one.
Expire ==
  /\ issued < MaxIssued /\ issued' = issued + 1
  /\ UNCHANGED <<granted, token, pc, attempts, result, latest, calls>>

\* The user logs in to gcloud, or out.
Login ==
  /\ granted' = ~granted
  /\ UNCHANGED <<issued, token, pc, attempts, result, latest, calls>>

\* ResilientClient::new runs gcloud; without a token there is no client.
new(c) ==
  /\ pc[c] = "absent" /\ pc' = [pc EXCEPT ![c] = "making"]
  /\ UNCHANGED <<issued, granted, token, attempts, result, latest, calls>>
Made(c) ==
  /\ pc[c] = "making"
  /\ IF granted
       THEN pc' = [pc EXCEPT ![c] = "idle"] /\ token' = [token EXCEPT ![c] = issued]
       ELSE pc' = [pc EXCEPT ![c] = "absent"] /\ UNCHANGED token
  /\ UNCHANGED <<issued, granted, attempts, result, latest, calls>>

\* generate_content, embed_content.
Call(c) ==
  /\ pc[c] = "idle" /\ calls[c] < MaxCalls
  /\ pc' = [pc EXCEPT ![c] = "sent"]
  /\ attempts' = [attempts EXCEPT ![c] = 1]
  /\ latest' = [latest EXCEPT ![c] = 0]
  /\ calls' = [calls EXCEPT ![c] = @ + 1]
  /\ UNCHANGED <<issued, granted, token, result>>

Return(c, r) ==
  /\ pc' = [pc EXCEPT ![c] = "idle"] /\ result' = [result EXCEPT ![c] = r]
  /\ UNCHANGED <<token, attempts>>

\* The server refuses the token the request carries, which it may also do to the
\* latest, or it replies, which it does to no other.
Respond(c) ==
  /\ pc[c] = "sent"
  /\ \/ attempts[c] < 2 /\ pc' = [pc EXCEPT ![c] = "refreshing"] /\ UNCHANGED <<token, attempts, result>>
     \/ attempts[c] = 2 /\ Return(c, "unauthorized")
     \/ token[c] = issued /\ (\E r \in Replies : Return(c, r))
     \/ Return(c, "lost")
  /\ UNCHANGED <<issued, granted, latest, calls>>

\* Mutant: the token is not stored.
RefreshForgets(c) ==
  /\ pc[c] = "refreshing"
  /\ latest' = [latest EXCEPT ![c] = IF granted THEN issued ELSE 0]
  /\ IF granted
       THEN /\ pc' = [pc EXCEPT ![c] = "sent"]
            /\ attempts' = [attempts EXCEPT ![c] = @ + 1]
            /\ UNCHANGED <<token, result>>
       ELSE Return(c, "no token")
  /\ UNCHANGED <<issued, granted, calls>>

\* refresh_token: gcloud ends, and the request is sent again if it gave a token.
Refresh(c) ==
  /\ pc[c] = "refreshing"
  /\ latest' = [latest EXCEPT ![c] = IF granted THEN issued ELSE 0]
  /\ IF granted
       THEN /\ pc' = [pc EXCEPT ![c] = "sent"]
            /\ token' = [token EXCEPT ![c] = issued]
            /\ attempts' = [attempts EXCEPT ![c] = @ + 1]
            /\ UNCHANGED result
       ELSE Return(c, "no token")
  /\ UNCHANGED <<issued, granted, calls>>

Next ==
  \/ Expire \/ Login
  \/ \E c \in Clients : new(c) \/ Made(c) \/ Call(c) \/ Respond(c) \/ Refresh(c)

\* A request ends within the client's 300 seconds, given a free thread of the runtime.
\* Nothing says that gcloud ends.
Fairness == \A c \in Clients : WF_vars(Respond(c))

Spec == Init /\ [][Next]_vars /\ Fairness

--------------------------------------------------------------------------------
TypeOK ==
  /\ issued \in 1 .. MaxIssued /\ granted \in BOOLEAN
  /\ token \in [Clients -> 0 .. issued]
  /\ pc \in [Clients -> {"absent", "making", "idle", "sent", "refreshing"}]
  /\ attempts \in [Clients -> 0 .. 2]
  /\ result \in [Clients -> Replies \cup {"none", "no token", "unauthorized"}]
  /\ latest \in [Clients -> 0 .. issued]
  /\ calls \in [Clients -> 0 .. MaxCalls]

\* A call gives up as unauthorized only after a token that gcloud gave it during the
\* call was refused, and a call that fetched a token leaves the client with it, so that
\* the next one does not begin with a token known to be refused.
RefreshIsExact ==
  /\ TypeOK
  /\ \A c \in Clients : pc[c] = "idle" =>
       /\ result[c] = "unauthorized" => latest[c] # 0
       /\ latest[c] # 0 => token[c] = latest[c]

\* A call returns, also while tokens keep expiring, if every gcloud it runs ends.
CallsReturn ==
  \A c \in Clients :
    (pc[c] = "refreshing" ~> pc[c] # "refreshing") => (pc[c] = "sent" ~> pc[c] = "idle")
================================================================================
