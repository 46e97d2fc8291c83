------------------------------- MODULE PartsProofs ------------------------------
(***************************************************************************)
(* The components of MCParts, one after the other, for every value of     *)
(* their constants: the API client, the rows of the console, the draft,   *)
(* the bus and its core, amber_bytes, and the audio engine.  Then the     *)
(* algorithms of the libraries, for every input of their kind.  The last  *)
(* section puts them together again.                                      *)
(***************************************************************************)
EXTENDS MCParts, SequenceTheorems, NaturalsInduction, WellFoundedInduction, TLAPS

(* The retry of a refused request, for any clients, tokens and calls.      *)

\* The bounds leave room for a token; without one gcloud has nothing to give.
ApiBounds == MaxIssued \in Nat \ {0} /\ MaxCalls \in Nat

\* What a client knows: an idle one keeps what its call fetched, a second attempt
\* carries it, a first one and the refresh after it come before any, and a client not
\* yet made has called nobody.
ApiSettled(c) ==
  /\ callers[c] = "idle" => /\ result[c] = "unauthorized" => latest[c] # 0
                            /\ latest[c] # 0 => token[c] = latest[c]
  /\ callers[c] \in {"absent", "making"} => latest[c] = 0 /\ result[c] # "unauthorized"
  /\ callers[c] \in {"sent", "refreshing"} => attempts[c] # 0
  /\ callers[c] = "refreshing" => latest[c] = 0 /\ attempts[c] < 2
  /\ callers[c] = "sent" /\ attempts[c] < 2 => latest[c] = 0
  /\ callers[c] = "sent" /\ attempts[c] = 2 => latest[c] # 0 /\ token[c] = latest[c]

ApiInv == Api!TypeOK /\ \A c \in Clients : ApiSettled(c)

\* The numbers the steps reckon with.
LEMMA ApiNumbers ==
  ASSUME ApiBounds, ApiInv
  PROVE  /\ issued \in Nat \ {0} /\ MaxIssued \in Nat /\ issued <= MaxIssued
         /\ 0 \in 0 .. issued /\ issued \in 0 .. issued
         /\ \A c \in Clients : attempts[c] \in 0 .. 2 /\ calls[c] \in 0 .. MaxCalls
<1>1. issued \in 1 .. MaxIssued /\ MaxIssued \in Nat
  BY DEF ApiBounds, ApiInv, Api!TypeOK
<1>2. \A c \in Clients : attempts[c] \in 0 .. 2 /\ calls[c] \in 0 .. MaxCalls
  BY DEF ApiInv, Api!TypeOK
<1> QED BY <1>1, <1>2

LEMMA ApiInitInv == ApiBounds /\ Api!Init => ApiInv
  BY DEF ApiBounds, Api!Init, ApiInv, Api!TypeOK, ApiSettled

\* No client's state changes when a token expires or the user logs in or out.
LEMMA ApiOutsideKeeps == ASSUME ApiBounds, ApiInv, Api!Expire \/ Api!Login PROVE ApiInv'
<1>1. Api!TypeOK'
  <2>1. CASE Api!Expire
    <3>1. issued' \in 1 .. MaxIssued /\ issued' = issued + 1
      BY <2>1, ApiNumbers DEF Api!Expire
    <3>2. 0 .. issued \subseteq 0 .. issued'
      BY <3>1, ApiNumbers
    <3>3. token \in [Clients -> 0 .. issued'] /\ latest \in [Clients -> 0 .. issued']
      BY <3>2 DEF ApiInv, Api!TypeOK
    <3> QED BY <2>1, <3>1, <3>3 DEF Api!Expire, ApiInv, Api!TypeOK
  <2>2. CASE Api!Login
    BY <2>2 DEF Api!Login, ApiInv, Api!TypeOK
  <2> QED BY <2>1, <2>2
<1>2. UNCHANGED <<token, callers, attempts, result, latest>>
  BY DEF Api!Expire, Api!Login
<1>3. ASSUME NEW c \in Clients PROVE ApiSettled(c)'
  BY <1>2 DEF ApiInv, ApiSettled
<1> QED BY <1>1, <1>3 DEF ApiInv

LEMMA ApiNewKeeps ==
  ASSUME ApiBounds, ApiInv, NEW c \in Clients, Api!new(c) \/ Api!Made(c)
  PROVE  ApiInv'
<1>1. Api!TypeOK'
  <2>1. CASE Api!new(c)
    BY <2>1 DEF Api!new, ApiInv, Api!TypeOK
  <2>2. CASE Api!Made(c) /\ granted
    BY <2>2, ApiNumbers DEF Api!Made, ApiInv, Api!TypeOK
  <2>3. CASE Api!Made(c) /\ ~granted
    BY <2>3 DEF Api!Made, ApiInv, Api!TypeOK
  <2> QED BY <2>1, <2>2, <2>3
<1>2. ASSUME NEW d \in Clients PROVE ApiSettled(d)'
  <2>1. CASE d = c
    <3>1. /\ callers[c] \in {"absent", "making"} /\ callers'[c] \in {"absent", "making", "idle"}
          /\ UNCHANGED <<latest, result>>
      BY DEF Api!new, Api!Made, ApiInv, Api!TypeOK
    <3>2. latest[c] = 0 /\ result[c] # "unauthorized"
      BY <3>1 DEF ApiInv, ApiSettled
    <3> QED BY <2>1, <3>1, <3>2 DEF ApiSettled
  <2>2. CASE d # c
    BY <2>2 DEF Api!new, Api!Made, ApiInv, Api!TypeOK, ApiSettled
  <2> QED BY <2>1, <2>2
<1> QED BY <1>1, <1>2 DEF ApiInv

LEMMA ApiCallKeeps == ASSUME ApiBounds, ApiInv, NEW c \in Clients, Api!Call(c) PROVE ApiInv'
<1>1. Api!TypeOK'
  <2>1. calls[c] + 1 \in 0 .. MaxCalls
    BY ApiNumbers DEF ApiBounds, Api!Call
  <2>2. 1 \in 0 .. 2 /\ 0 \in 0 .. issued
    BY ApiNumbers
  <2> QED BY <2>1, <2>2 DEF Api!Call, ApiInv, Api!TypeOK
<1>2. ASSUME NEW d \in Clients PROVE ApiSettled(d)'
  <2>1. CASE d = c
    <3>1. callers'[c] = "sent" /\ attempts'[c] = 1 /\ latest'[c] = 0
      BY DEF Api!Call, ApiInv, Api!TypeOK
    <3> QED BY <2>1, <3>1 DEF ApiSettled
  <2>2. CASE d # c
    BY <2>2 DEF Api!Call, ApiInv, Api!TypeOK, ApiSettled
  <2> QED BY <2>1, <2>2
<1> QED BY <1>1, <1>2 DEF ApiInv

\* The first refusal is answered by running gcloud.
LEMMA ApiRefusedKeeps ==
  ASSUME ApiBounds, ApiInv, NEW c \in Clients, callers[c] = "sent", attempts[c] < 2,
         callers' = [callers EXCEPT ![c] = "refreshing"],
         UNCHANGED <<issued, granted, token, attempts, result, latest, calls>>
  PROVE  ApiInv'
<1>1. Api!TypeOK'
  BY DEF ApiInv, Api!TypeOK
<1>2. ASSUME NEW d \in Clients PROVE ApiSettled(d)'
  <2>1. CASE d # c
    BY <2>1 DEF ApiInv, Api!TypeOK, ApiSettled
  <2>2. CASE d = c
    BY <2>2 DEF ApiInv, Api!TypeOK, ApiSettled
  <2> QED BY <2>1, <2>2
<1> QED BY <1>1, <1>2 DEF ApiInv

\* gcloud gives a token, or the call ends for want of one.
LEMMA ApiRefreshKeeps ==
  ASSUME ApiBounds, ApiInv, NEW c \in Clients, Api!Refresh(c)
  PROVE  ApiInv'
<1>0. callers[c] = "refreshing" /\ latest[c] = 0 /\ attempts[c] < 2 /\ attempts[c] # 0
  BY DEF Api!Refresh, ApiInv, ApiSettled
<1>1. Api!TypeOK'
  <2>1. issued \in 0 .. issued /\ 0 \in 0 .. issued /\ attempts[c] + 1 \in 0 .. 2
    BY <1>0, ApiNumbers
  <2>2. CASE granted
    BY ZenonT(30), <2>1, <2>2 DEF Api!Refresh, ApiInv, Api!TypeOK
  <2>3. CASE ~granted
    BY <2>1, <2>3 DEF Api!Refresh, Api!Return, ApiInv, Api!TypeOK
  <2> QED BY <2>2, <2>3
<1>2. ASSUME NEW d \in Clients PROVE ApiSettled(d)'
  <2>1. CASE d # c
    BY <2>1 DEF Api!Refresh, Api!Return, ApiInv, Api!TypeOK, ApiSettled
  <2>2. CASE d = c /\ granted
    <3>1. token'[c] = issued /\ latest'[c] = issued /\ callers'[c] = "sent"
      BY <2>2 DEF Api!Refresh, ApiInv, Api!TypeOK
    <3>2. attempts'[c] = attempts[c] + 1 /\ attempts[c] \in 0 .. 2 /\ attempts[c] # 0
      BY <1>0, <2>2, ApiNumbers DEF Api!Refresh, ApiInv, Api!TypeOK
    <3> QED BY <2>2, <3>1, <3>2, ApiNumbers DEF ApiSettled
  <2>3. CASE d = c /\ ~granted
    <3>1. callers'[c] = "idle" /\ result'[c] = "no token" /\ latest'[c] = 0
      BY <2>3 DEF Api!Refresh, Api!Return, ApiInv, Api!TypeOK
    <3> QED BY <2>3, <3>1 DEF ApiSettled
  <2> QED BY <2>1, <2>2, <2>3
<1> QED BY <1>1, <1>2 DEF ApiInv

\* A call returns: what it fetched stays, and only a second attempt is unauthorized.
LEMMA ApiReturnKeeps ==
  ASSUME ApiBounds, ApiInv, NEW c \in Clients, Api!Respond(c), UNCHANGED latest,
         NEW r \in Api!Replies \cup {"unauthorized"}, Api!Return(c, r),
         r = "unauthorized" => attempts[c] = 2
  PROVE  ApiInv'
<1>1. Api!TypeOK'
  BY DEF Api!Respond, Api!Return, ApiInv, Api!TypeOK
<1>2. ASSUME NEW d \in Clients PROVE ApiSettled(d)'
  <2>1. CASE d = c
    <3>1. callers[c] = "sent" /\ attempts[c] \in 0 .. 2
      BY DEF Api!Respond, ApiInv, Api!TypeOK
    <3>2. latest[c] # 0 => token[c] = latest[c] /\ attempts[c] = 2
      BY <3>1 DEF ApiInv, ApiSettled
    <3>3. attempts[c] = 2 => latest[c] # 0
      BY <3>1 DEF ApiInv, ApiSettled
    <3> QED BY <2>1, <3>2, <3>3 DEF Api!Return, ApiInv, Api!TypeOK, ApiSettled
  <2>2. CASE d # c
    BY <2>2 DEF Api!Respond, Api!Return, ApiInv, Api!TypeOK, ApiSettled
  <2> QED BY <2>1, <2>2
<1> QED BY <1>1, <1>2 DEF ApiInv

LEMMA ApiRespondKeeps ==
  ASSUME ApiBounds, ApiInv, NEW c \in Clients, Api!Respond(c)
  PROVE  ApiInv'
<1>1. "lost" \in Api!Replies /\ "unauthorized" \notin Api!Replies
  BY DEF Api!Replies
<1>2. CASE /\ callers[c] = "sent" /\ attempts[c] < 2 /\ callers' = [callers EXCEPT ![c] = "refreshing"]
           /\ UNCHANGED <<issued, granted, token, attempts, result, latest, calls>>
  BY <1>2, ApiRefusedKeeps
<1> QED BY <1>1, <1>2, ApiReturnKeeps DEF Api!Respond

LEMMA ApiStepKeeps == ASSUME ApiBounds, ApiInv, [Api!Next]_(Api!vars) PROVE ApiInv'
<1>1. CASE UNCHANGED Api!vars
  BY <1>1 DEF Api!vars, ApiInv, Api!TypeOK, ApiSettled
<1> QED BY <1>1, ApiOutsideKeeps, ApiNewKeeps, ApiCallKeeps, ApiRespondKeeps, ApiRefreshKeeps DEF Api!Next

\* For any number of clients, tokens and calls: a call gives up as unauthorized only
\* after a token fetched for it was refused, and keeps the token it fetched.
THEOREM ApiClientRefreshIsExact == ASSUME ApiBounds PROVE Api!Spec => []Api!RefreshIsExact
<1>1. Api!Init => ApiInv
  BY ApiInitInv
<1>2. ApiInv /\ [Api!Next]_(Api!vars) => ApiInv'
  BY ApiStepKeeps
<1>3. ApiInv => Api!RefreshIsExact
  BY DEF ApiInv, Api!RefreshIsExact, ApiSettled
<1> QED BY <1>1, <1>2, <1>3, PTL DEF Api!Spec

--------------------------------------------------------------------------------
(* Recycled rows act on the items they show, for any stagings and rows.    *)

\* A row that shows nothing shows no staging; the bound is a number.
ConsoleBounds == Console!None \notin Stagings /\ MaxTyped \in Nat

ConsoleTexts == Stagings \X (0 .. MaxTyped)

\* The types of what the rows hold, and that a row whose handlers go to a staging
\* shows a text the user could send.
ConsoleTyped ==
  /\ Console!TypeOK
  /\ edits \in 0 .. MaxTyped
  /\ fields \in [RowWidgets -> ConsoleTexts \cup {<<Console!None, 0>>}]
  /\ changed \in [RowWidgets -> SUBSET Stagings]
  /\ clicked \in [RowWidgets -> SUBSET Stagings]
  /\ \A r \in RowWidgets : clicked[r] # {} => fields[r] \in ConsoleTexts

ConsoleInv == ConsoleTyped /\ Console!RowsAreTheirs

LEMMA ConsoleInitInv == ConsoleBounds /\ Console!Init => ConsoleInv
<1> SUFFICES ASSUME ConsoleBounds, Console!Init PROVE ConsoleInv
  OBVIOUS
<1>1. ConsoleTyped
  BY DEF ConsoleBounds, Console!Init, ConsoleTyped, Console!TypeOK, ConsoleTexts
<1>2. Console!RowsAreTheirs
  BY DEF ConsoleBounds, Console!Init, Console!RowsAreTheirs
<1> QED BY <1>1, <1>2 DEF ConsoleInv

LEMMA ConsoleBindKeeps ==
  ASSUME ConsoleBounds, ConsoleInv, NEW r \in RowWidgets, NEW item \in Console!Items,
         Console!Bind(r, item)
  PROVE  ConsoleInv'
<1>1. CASE item \in Stagings
  <2>1. Console!BindStaging(r, item) /\ Console!Connect(r, item) /\ shown' = [shown EXCEPT ![r] = item]
    BY <1>1 DEF Console!Bind, Console!BindStaging
  <2>2. UNCHANGED <<locked, edits, dispatched>>
    BY DEF Console!Bind
  <2>3. text[item] \in ConsoleTexts /\ text \in [Stagings -> ConsoleTexts]
    BY <1>1 DEF ConsoleInv, ConsoleTyped, Console!TypeOK, ConsoleTexts
  <2>4. ConsoleTyped'
    <3>1. text' \in [Stagings -> ConsoleTexts] /\ fields' \in [RowWidgets -> ConsoleTexts \cup {<<Console!None, 0>>}]
      BY <2>1, <2>3 DEF Console!BindStaging, ConsoleInv, ConsoleTyped
    <3>2. changed' \in [RowWidgets -> SUBSET Stagings] /\ clicked' \in [RowWidgets -> SUBSET Stagings]
      BY <1>1, <2>1 DEF Console!Connect, ConsoleInv, ConsoleTyped
    <3>3. editable' \subseteq RowWidgets /\ shown' \in [RowWidgets -> Console!Items \cup {Console!None}]
      BY <2>1 DEF Console!BindStaging, ConsoleInv, ConsoleTyped, Console!TypeOK
    <3>4. \A x \in RowWidgets : clicked'[x] # {} => fields'[x] \in ConsoleTexts
      BY <2>1, <2>3 DEF Console!BindStaging, Console!Connect, ConsoleInv, ConsoleTyped
    <3> QED BY <2>2, <3>1, <3>2, <3>3, <3>4 DEF ConsoleInv, ConsoleTyped, Console!TypeOK,
                                                ConsoleTexts
  <2>5. Console!RowsAreTheirs'
    BY <2>1, <2>2 DEF Console!Connect, ConsoleInv, ConsoleTyped, Console!TypeOK,
                      Console!RowsAreTheirs
  <2> QED BY <2>4, <2>5 DEF ConsoleInv
<1>2. CASE item \notin Stagings
  <2>1. Console!BindOther /\ shown' = [shown EXCEPT ![r] = item] /\ UNCHANGED <<locked, edits, dispatched>>
    BY <1>2 DEF Console!Bind
  <2>2. ConsoleTyped'
    BY <2>1 DEF Console!BindOther, ConsoleInv, ConsoleTyped, Console!TypeOK, ConsoleTexts
  <2>3. Console!RowsAreTheirs'
    BY <1>2, <2>1 DEF Console!BindOther, ConsoleInv, ConsoleTyped, Console!TypeOK,
                      Console!RowsAreTheirs
  <2> QED BY <2>2, <2>3 DEF ConsoleInv
<1> QED BY <1>1, <1>2

LEMMA ConsoleScrollOutKeeps ==
  ASSUME ConsoleBounds, ConsoleInv, NEW r \in RowWidgets, Console!ScrollOut(r)
  PROVE  ConsoleInv'
<1>1. ConsoleTyped'
  BY DEF Console!ScrollOut, ConsoleInv, ConsoleTyped, Console!TypeOK, ConsoleTexts
<1>2. Console!RowsAreTheirs'
  BY DEF ConsoleBounds, Console!ScrollOut, ConsoleInv, ConsoleTyped, Console!TypeOK,
         Console!RowsAreTheirs
<1> QED BY <1>1, <1>2 DEF ConsoleInv

LEMMA ConsoleTypeKeeps ==
  ASSUME ConsoleBounds, ConsoleInv, NEW r \in RowWidgets, Console!Type(r)
  PROVE  ConsoleInv'
<1> DEFINE t == <<shown[r], edits + 1>>
<1>1. edits' = edits + 1 /\ edits' \in 0 .. MaxTyped /\ t \in ConsoleTexts
  BY DEF ConsoleBounds, Console!Type, Console!Visible, ConsoleInv, ConsoleTyped, ConsoleTexts
<1>2. /\ fields' = [fields EXCEPT ![r] = t]
      /\ text' = [s \in Stagings |-> IF s \in changed[r] THEN t ELSE text[s]]
      /\ UNCHANGED <<locked, shown, changed, clicked, editable, dispatched>>
  BY DEF Console!Type
<1> HIDE DEF t
<1>3. text' \in [Stagings -> ConsoleTexts] /\ fields' \in [RowWidgets -> ConsoleTexts \cup {<<Console!None, 0>>}]
  BY <1>1, <1>2 DEF ConsoleInv, ConsoleTyped, Console!TypeOK, ConsoleTexts
<1>4. \A x \in RowWidgets : clicked'[x] # {} => fields'[x] \in ConsoleTexts
  BY <1>1, <1>2 DEF ConsoleInv, ConsoleTyped
<1>5. ConsoleTyped'
  BY <1>1, <1>2, <1>3, <1>4 DEF ConsoleInv, ConsoleTyped, Console!TypeOK, ConsoleTexts
<1>6. Console!RowsAreTheirs'
  BY <1>2 DEF ConsoleInv, Console!RowsAreTheirs
<1> QED BY <1>5, <1>6 DEF ConsoleInv

\* The one handler of the row is that of the staging it shows.
LEMMA ConsoleDispatchKeeps ==
  ASSUME ConsoleBounds, ConsoleInv, NEW r \in RowWidgets, Console!PressDispatch(r)
  PROVE  ConsoleInv'
<1>1. shown[r] \in Stagings /\ clicked[r] = {shown[r]}
  BY DEF Console!PressDispatch, Console!Visible, ConsoleInv, Console!RowsAreTheirs
<1>2. fields[r] \in ConsoleTexts
  BY <1>1 DEF ConsoleInv, ConsoleTyped
<1>3. text' \in [Stagings -> ConsoleTexts]
  BY <1>2 DEF Console!PressDispatch, ConsoleInv, ConsoleTyped, Console!TypeOK, ConsoleTexts
<1>4. ConsoleTyped'
  BY <1>1, <1>3 DEF Console!PressDispatch, ConsoleInv, ConsoleTyped, Console!TypeOK, ConsoleTexts
<1>5. ASSUME NEW d \in dispatched' PROVE d.item = d.seen
  <2>1. CASE d \in dispatched
    BY <2>1 DEF ConsoleInv, Console!RowsAreTheirs
  <2>2. CASE d \notin dispatched
    <3>1. PICK s \in clicked[r] : d = [item |-> s, text |-> fields[r], seen |-> shown[r]]
      BY <1>5, <2>2 DEF Console!PressDispatch
    <3> QED BY <1>1, <3>1
  <2> QED BY <2>1, <2>2
<1>6. Console!RowsAreTheirs'
  BY <1>5 DEF Console!PressDispatch, ConsoleInv, Console!RowsAreTheirs
<1> QED BY <1>4, <1>6 DEF ConsoleInv

LEMMA ConsoleUnlockKeeps == ASSUME ConsoleBounds, ConsoleInv, Console!Unlock PROVE ConsoleInv'
<1>1. ConsoleTyped'
  BY DEF Console!Unlock, ConsoleInv, ConsoleTyped, Console!TypeOK, ConsoleTexts
<1>2. Console!RowsAreTheirs'
  BY DEF ConsoleBounds, Console!Unlock, ConsoleInv, ConsoleTyped, Console!TypeOK,
         Console!RowsAreTheirs
<1> QED BY <1>1, <1>2 DEF ConsoleInv

LEMMA ConsoleStepKeeps ==
  ASSUME ConsoleBounds, ConsoleInv, [Console!Next]_(Console!vars)
  PROVE  ConsoleInv'
<1>1. CASE UNCHANGED Console!vars
  BY <1>1 DEF Console!vars, ConsoleInv, ConsoleTyped, Console!TypeOK, ConsoleTexts,
              Console!RowsAreTheirs
<1> QED BY <1>1, ConsoleBindKeeps, ConsoleScrollOutKeeps, ConsoleTypeKeeps, ConsoleDispatchKeeps,
           ConsoleUnlockKeeps DEF Console!Next

\* For any number of stagings, rows and edits, scrolled and dispatched in any order:
\* what the user does in a row reaches the item it shows and no other.
THEOREM StagingRowsAreTheirs ==
  ASSUME ConsoleBounds
  PROVE  Console!Spec => [](Console!TypeOK /\ Console!RowsAreTheirs)
<1>1. Console!Init => ConsoleInv
  BY ConsoleInitInv
<1>2. ConsoleInv /\ [Console!Next]_(Console!vars) => ConsoleInv'
  BY ConsoleStepKeeps
<1>3. ConsoleInv => Console!TypeOK /\ Console!RowsAreTheirs
  BY DEF ConsoleInv, ConsoleTyped
<1> QED BY <1>1, <1>2, <1>3, PTL DEF Console!Spec

--------------------------------------------------------------------------------
(* The draft: whatever is typed, sent and started again, for any number of     *)
(* texts and starts.                                                           *)

FieldBounds == MaxTexts \in Nat /\ MaxStarts \in Nat

\* Texts are numbered in their order, and so are timers; one timer at most runs, and
\* it is the one the handler knows.
FieldTyped ==
  /\ texts \in Nat /\ made \in Nat
  /\ draft \in 0 .. texts /\ file \in {Field!Absent} \cup 0 .. texts
  /\ messages \subseteq 1 .. texts
  /\ pending_save \in 0 .. made
  /\ timers \subseteq [id : 1 .. made, text : 0 .. texts]
  /\ \A t, u \in timers : t = u

FieldInv == FieldTyped /\ Field!DraftIsSafe

LEMMA FieldInitInv == FieldBounds /\ Field!Init => FieldInv
  BY DEF FieldBounds, Field!Init, FieldInv, FieldTyped, Field!DraftIsSafe, Field!SentIsNotDraft,
         Field!TimerIsKnown, Field!Absent

\* The new timer is the only one.
LEMMA FieldScheduled ==
  ASSUME FieldInv, NEW text_, Field!Schedule(text_)
  PROVE  /\ made' = made + 1 /\ pending_save' = made + 1
         /\ timers' = {[id |-> made + 1, text |-> text_]}
<1>1. \A t \in timers : t.id = pending_save
  BY DEF FieldInv, Field!DraftIsSafe, Field!TimerIsKnown
<1> QED BY <1>1 DEF Field!Schedule

LEMMA FieldTypeKeeps == ASSUME FieldInv, Field!Type PROVE FieldInv'
<1>1. /\ made' = made + 1 /\ pending_save' = made + 1
      /\ timers' = {[id |-> made + 1, text |-> draft']}
  BY FieldScheduled DEF Field!Type
<1>2. texts' = texts + 1 /\ draft' = texts + 1 /\ UNCHANGED <<file, messages>>
  BY DEF Field!Type
<1>3. FieldTyped'
  BY <1>1, <1>2 DEF FieldInv, FieldTyped
<1>4. Field!SentIsNotDraft'
  BY <1>1, <1>2 DEF FieldInv, FieldTyped, Field!DraftIsSafe, Field!SentIsNotDraft
<1>5. Field!TimerIsKnown'
  BY <1>1 DEF FieldInv, FieldTyped, Field!TimerIsKnown
<1> QED BY <1>3, <1>4, <1>5 DEF FieldInv, Field!DraftIsSafe

LEMMA FieldSaveKeeps == ASSUME FieldInv, Field!Save PROVE FieldInv'
<1>1. PICK t \in timers : Field!Fire(t)
  BY DEF Field!Save
<1>2. /\ timers' = {} /\ file' = t.text /\ pending_save' = 0
      /\ UNCHANGED <<draft, messages, texts, made>>
  BY <1>1 DEF Field!Save, Field!Fire, FieldInv, FieldTyped
<1>3. t.text \in 0 .. texts /\ t.text \notin messages
  BY DEF FieldInv, FieldTyped, Field!DraftIsSafe, Field!SentIsNotDraft
<1> QED BY <1>2, <1>3 DEF FieldInv, FieldTyped, Field!DraftIsSafe, Field!SentIsNotDraft,
           Field!TimerIsKnown

LEMMA FieldSendKeeps == ASSUME FieldInv, Field!Send PROVE FieldInv'
<1>1. /\ made' = made + 1 /\ pending_save' = made + 1
      /\ timers' = {[id |-> made + 1, text |-> 0]}
  BY FieldScheduled DEF Field!Send
<1>2. /\ draft # 0 /\ file' = Field!Absent /\ messages' = messages \cup {draft} /\ draft' = 0
      /\ texts' = texts
  BY DEF Field!Send
<1>3. messages' \subseteq 1 .. texts
  BY <1>2 DEF FieldInv, FieldTyped
<1>4. FieldTyped'
  BY <1>1, <1>2, <1>3 DEF FieldInv, FieldTyped
<1>5. Field!SentIsNotDraft'
  BY <1>1, <1>2, <1>3 DEF Field!SentIsNotDraft, Field!Absent
<1>6. Field!TimerIsKnown'
  BY <1>1 DEF FieldInv, FieldTyped, Field!TimerIsKnown
<1> QED BY <1>4, <1>5, <1>6 DEF FieldInv, Field!DraftIsSafe

LEMMA FieldRestartKeeps == ASSUME FieldInv, Field!Restart PROVE FieldInv'
<1>1. /\ draft' = IF file = Field!Absent THEN 0 ELSE file
      /\ timers' = {} /\ pending_save' = 0
      /\ UNCHANGED <<file, messages, texts, made>>
  BY DEF Field!Restart
<1>2. draft' \in 0 .. texts /\ draft' \notin messages
  BY <1>1 DEF FieldInv, FieldTyped, Field!DraftIsSafe, Field!SentIsNotDraft
<1> QED BY <1>1, <1>2 DEF FieldInv, FieldTyped, Field!DraftIsSafe, Field!SentIsNotDraft,
           Field!TimerIsKnown

LEMMA FieldStepKeeps == ASSUME FieldBounds, FieldInv, [Field!Next]_(Field!vars) PROVE FieldInv'
<1>1. CASE UNCHANGED Field!vars
  BY <1>1 DEF Field!vars, FieldInv, FieldTyped, Field!DraftIsSafe, Field!SentIsNotDraft,
              Field!TimerIsKnown
<1> QED BY <1>1, FieldTypeKeeps, FieldSaveKeeps, FieldSendKeeps, FieldRestartKeeps DEF Field!Next

--------------------------------------------------------------------------------
(* What the core burns into its vault, for any channel and any messages.   *)

SpineBounds == CHANNEL \in Nat \ {0} /\ MaxFired \in Nat

\* The receiver is somewhere between where it began and the last message, and has
\* nothing behind it before it begins.
SpinePlaced ==
  /\ fired \in Seq(Spine!Messages)
  /\ core \in {"spawned", "awake", "listening", "severed"}
  /\ cursor \in Nat /\ subscribed \in Nat
  /\ subscribed <= cursor /\ cursor <= Len(fired)
  /\ imprints \in Seq(Nat)
  /\ skipped \subseteq Nat
  /\ core \in {"spawned", "awake"} => skipped = {} /\ imprints = << >>

SpineInv == SpinePlaced /\ Spine!ImprintsInOrder

LEMMA SpineInitInv == SpineBounds /\ Spine!Init => SpineInv
<1> SUFFICES ASSUME SpineBounds, Spine!Init PROVE SpineInv
  OBVIOUS
<1>1. SpinePlaced
  BY DEF Spine!Init, SpinePlaced
<1>2. Spine!ImprintsInOrder
  BY DEF Spine!Init, Spine!ImprintsInOrder
<1> QED BY <1>1, <1>2 DEF SpineInv

\* A message fired is behind no receiver's cursor.
LEMMA SpineFireKeeps ==
  ASSUME SpineInv, NEW m \in Spine!Messages, Spine!fire(m),
         UNCHANGED <<cursor, subscribed, skipped, imprints>>,
         core' = core \/ (core = "spawned" /\ core' = "awake")
  PROVE  SpineInv'
<1>1. /\ fired' \in Seq(Spine!Messages) /\ Len(fired') = Len(fired) + 1
      /\ \A p \in 1 .. Len(fired) : fired'[p] = fired[p]
  BY DEF Spine!fire, SpineInv, SpinePlaced
<1>2. SpinePlaced'
  BY <1>1 DEF SpineInv, SpinePlaced
<1>3. \A p \in subscribed + 1 .. cursor : fired'[p] = fired[p]
  <2>1. Len(fired) \in Nat /\ subscribed \in Nat /\ cursor \in Nat /\ cursor <= Len(fired)
    BY DEF SpineInv, SpinePlaced
  <2>2. \A p \in subscribed + 1 .. cursor : p \in 1 .. Len(fired)
    BY <2>1
  <2> QED BY <1>1, <2>2
<1>4. Spine!ImprintsInOrder'
  BY <1>1, <1>3 DEF SpineInv, SpinePlaced, Spine!ImprintsInOrder
<1> QED BY <1>2, <1>4 DEF SpineInv

LEMMA SpineSubscribeKeeps == ASSUME SpineInv, Spine!Subscribe PROVE SpineInv'
<1>1. imprints = << >> /\ skipped = {} /\ cursor' = subscribed' /\ cursor' = Len(fired)
  BY DEF Spine!Subscribe, SpineInv, SpinePlaced
<1>2. SpinePlaced'
  BY <1>1 DEF Spine!Subscribe, SpineInv, SpinePlaced
<1>3. Spine!ImprintsInOrder'
  BY <1>1 DEF Spine!Subscribe, SpineInv, SpinePlaced, Spine!ImprintsInOrder
<1> QED BY <1>2, <1>3 DEF SpineInv

\* A receiver told that it lagged is past what it was told it missed, a kill included.
LEMMA SpineLaggedKeeps ==
  ASSUME SpineBounds, SpineInv, core = "listening", Len(fired) - cursor > CHANNEL, Spine!Lagged,
         UNCHANGED <<fired, subscribed>>
  PROVE  SpineInv'
<1>1. /\ cursor' = Len(fired) - CHANNEL /\ cursor' \in Nat /\ cursor < cursor' /\ cursor' <= Len(fired)
      /\ skipped' = skipped \cup (cursor + 1 .. cursor')
      /\ UNCHANGED <<core, imprints, fired, subscribed>>
  BY DEF SpineBounds, Spine!Lagged, SpineInv, SpinePlaced
<1>2. SpinePlaced'
  <2>1. cursor \in Nat /\ skipped \subseteq Nat
    BY DEF SpineInv, SpinePlaced
  <2>2. cursor + 1 .. cursor' \subseteq Nat
    BY <1>1, <2>1
  <2>3. skipped' \subseteq Nat
    BY <1>1, <2>1, <2>2
  <2> QED BY <1>1, <2>3 DEF SpineInv, SpinePlaced
<1>3. \A i \in DOMAIN imprints : imprints[i] \in subscribed + 1 .. cursor /\ imprints[i] \notin skipped
  BY DEF SpineInv, Spine!ImprintsInOrder
<1>4. \A i \in DOMAIN imprints : imprints[i] \in subscribed + 1 .. cursor' /\ imprints[i] \notin skipped'
  BY <1>1, <1>3 DEF SpineInv, SpinePlaced
<1>5. skipped' \subseteq subscribed + 1 .. cursor'
  <2>1. subscribed \in Nat /\ cursor \in Nat /\ subscribed <= cursor
    BY DEF SpineInv, SpinePlaced
  <2>2. subscribed + 1 .. cursor \subseteq subscribed + 1 .. cursor'
    BY <1>1, <2>1
  <2>3. cursor + 1 .. cursor' \subseteq subscribed + 1 .. cursor'
    BY <1>1, <2>1
  <2> QED BY <1>1, <2>2, <2>3 DEF SpineInv, Spine!ImprintsInOrder
<1>6. ASSUME NEW p \in subscribed + 1 .. cursor', fired[p] = "kill" PROVE p \in skipped'
  <2>1. CASE p <= cursor
    BY <1>1, <1>6, <2>1 DEF SpineInv, SpinePlaced, Spine!ImprintsInOrder
  <2>2. CASE p > cursor
    BY <1>1, <2>2 DEF SpineInv, SpinePlaced
  <2> QED BY <2>1, <2>2 DEF SpineInv, SpinePlaced
<1>7. Spine!ImprintsInOrder'
  BY <1>1, <1>4, <1>5, <1>6 DEF SpineInv, Spine!ImprintsInOrder
<1> QED BY <1>2, <1>7 DEF SpineInv

\* A message handled is the next one, behind all that was imprinted.
LEMMA SpineHandleKeeps ==
  ASSUME SpineInv, core = "listening", cursor < Len(fired),
         Spine!Handle(fired[cursor + 1], cursor + 1), cursor' = cursor + 1,
         UNCHANGED <<fired, subscribed, skipped>>
  PROVE  SpineInv'
<1> DEFINE p == cursor + 1
<1>1. p \in Nat /\ p \in 1 .. Len(fired) /\ fired[p] \in Spine!Messages /\ p > cursor
  BY DEF SpineInv, SpinePlaced
<1>2. core' \in {"listening", "severed"} /\ (core' = "listening" => fired[p] # "kill")
  BY DEF Spine!Handle
<1>3. imprints' = imprints \/ (imprints' = Append(imprints, p) /\ fired[p] \in Spine!Imprinted)
  BY DEF Spine!Handle, Spine!imprint
<1>4. /\ imprints' \in Seq(Nat) /\ DOMAIN imprints \subseteq DOMAIN imprints'
      /\ \A i \in DOMAIN imprints : imprints'[i] = imprints[i]
  <2>1. imprints \in Seq(Nat)
    BY DEF SpineInv, SpinePlaced
  <2>2. p \in Nat
    BY <1>1
  <2> HIDE DEF p
  <2>3. CASE imprints' = imprints
    BY <2>1, <2>3
  <2>4. CASE imprints' = Append(imprints, p)
    <3>1. Len(imprints') = Len(imprints) + 1 /\ imprints' \in Seq(Nat)
      BY <2>1, <2>2, <2>4
    <3>2. DOMAIN imprints = 1 .. Len(imprints) /\ DOMAIN imprints' = 1 .. Len(imprints')
          /\ Len(imprints) \in Nat
      BY <2>1, <3>1
    <3>3. \A i \in 1 .. Len(imprints) : imprints'[i] = imprints[i]
      BY <2>1, <2>2, <2>4
    <3> QED BY <3>1, <3>2, <3>3
  <2> QED BY <1>3, <2>3, <2>4
<1>5. SpinePlaced'
  <2>1. UNCHANGED <<fired, subscribed, skipped>> /\ cursor' = p
    OBVIOUS
  <2> QED BY <1>1, <1>2, <1>4, <2>1 DEF SpineInv, SpinePlaced
<1>6. p \notin skipped /\ skipped \subseteq subscribed + 1 .. cursor
  BY <1>1 DEF SpineInv, SpinePlaced, Spine!ImprintsInOrder
<1>7. core' = "listening" =>
        \A q \in subscribed' + 1 .. cursor' : fired'[q] = "kill" => q \in skipped'
  <2> SUFFICES ASSUME core' = "listening", NEW q \in subscribed + 1 .. p, fired[q] = "kill"
               PROVE  q \in skipped
    OBVIOUS
  <2>1. q # p
    BY <1>2
  <2>2. q \in subscribed + 1 .. cursor
    BY <2>1 DEF SpineInv, SpinePlaced
  <2> QED BY <2>2 DEF SpineInv, Spine!ImprintsInOrder
<1>8. skipped' \subseteq subscribed' + 1 .. cursor'
  BY <1>6 DEF SpineInv, SpinePlaced
<1>9. ASSUME NEW i \in DOMAIN imprints'
      PROVE  /\ imprints'[i] \in subscribed + 1 .. p /\ imprints'[i] \notin skipped
             /\ fired[imprints'[i]] \in Spine!Imprinted
  <2>1. CASE i \in DOMAIN imprints
    <3>1. imprints'[i] = imprints[i]
      BY <1>4, <2>1
    <3> QED BY <2>1, <3>1 DEF SpineInv, SpinePlaced, Spine!ImprintsInOrder
  <2>2. CASE i \notin DOMAIN imprints
    <3>1. imprints'[i] = p /\ fired[p] \in Spine!Imprinted
      BY <1>3, <1>9, <2>2 DEF SpineInv, SpinePlaced
    <3> QED BY <1>1, <1>6, <3>1 DEF SpineInv, SpinePlaced
  <2> QED BY <2>1, <2>2
<1>10. ASSUME NEW i \in DOMAIN imprints', NEW j \in DOMAIN imprints', i < j
      PROVE  imprints'[i] < imprints'[j]
  <2>1. CASE imprints' = imprints \/ j \in DOMAIN imprints
    <3>1. i \in DOMAIN imprints /\ j \in DOMAIN imprints
      BY <1>3, <1>10, <2>1 DEF SpineInv, SpinePlaced
    <3>2. imprints'[i] = imprints[i] /\ imprints'[j] = imprints[j]
      BY <1>4, <3>1
    <3> QED BY <1>10, <3>1, <3>2 DEF SpineInv, Spine!ImprintsInOrder
  <2>2. CASE imprints' = Append(imprints, p) /\ j \notin DOMAIN imprints
    <3>1. imprints'[j] = p /\ i \in DOMAIN imprints /\ imprints'[i] = imprints[i]
      BY <1>10, <2>2 DEF SpineInv, SpinePlaced
    <3>2. imprints[i] \in subscribed + 1 .. cursor
      BY <3>1 DEF SpineInv, Spine!ImprintsInOrder
    <3> QED BY <3>1, <3>2 DEF SpineInv, SpinePlaced
  <2> QED BY <1>3, <2>1, <2>2
<1>11. Spine!ImprintsInOrder'
  BY <1>7, <1>8, <1>9, <1>10 DEF Spine!ImprintsInOrder
<1> QED BY <1>5, <1>11 DEF SpineInv

LEMMA SpineStepKeeps == ASSUME SpineBounds, SpineInv, [Spine!Next]_(Spine!vars) PROVE SpineInv'
<1>1. CASE \E m \in Spine!Messages : Spine!Fire(m)
  BY <1>1, SpineFireKeeps DEF Spine!Fire
<1>2. CASE Spine!awaken
  <2>1. "log" \in Spine!Messages
    BY DEF Spine!Messages
  <2> QED BY <1>2, <2>1, SpineFireKeeps DEF Spine!awaken
<1>3. CASE Spine!Subscribe
  BY <1>3, SpineSubscribeKeeps
<1>4. CASE Spine!recv
  BY <1>4, SpineLaggedKeeps, SpineHandleKeeps DEF Spine!recv
<1>5. CASE UNCHANGED Spine!vars
  BY <1>5 DEF Spine!vars, SpineInv, SpinePlaced, Spine!ImprintsInOrder
<1> QED BY <1>1, <1>2, <1>3, <1>4, <1>5 DEF Spine!Next

\* For a channel of any size and however the core lags: it imprints what it heard once
\* and in the order of the bus, and listens on past a kill only if it was told that it
\* missed it.
THEOREM BusImprintsInOrder == ASSUME SpineBounds PROVE Spine!Spec => []Spine!ImprintsInOrder
<1>1. Spine!Init => SpineInv
  BY SpineInitInv
<1>2. SpineInv /\ [Spine!Next]_(Spine!vars) => SpineInv'
  BY SpineStepKeeps
<1>3. SpineInv => Spine!ImprintsInOrder
  BY DEF SpineInv
<1> QED BY <1>1, <1>2, <1>3, PTL DEF Spine!Spec

--------------------------------------------------------------------------------
(* What a command of amber_bytes reported complete did: for files of any   *)
(* length, reads and writes cut anywhere, and somebody else writing.       *)

AmberBytes == {"a", "b", "n", "x", "0", Amber!Wiped}
AmberClean == AmberBytes \ {"a", "b"}

AmberBounds ==
  /\ Data \subseteq Seq(AmberBytes) /\ Blocks \subseteq Nat
  /\ Chunk \in Nat \ {0} /\ MaxLen \in Nat /\ MaxPasses \in Nat /\ MaxWrites \in Nat

AmberTyped ==
  /\ source \in Seq(AmberBytes) /\ dest \in Seq(AmberBytes)
  /\ hasher \in Seq(AmberBytes) /\ pending \in Seq(AmberBytes) /\ buffer \in Seq(AmberBytes)
  /\ same \in BOOLEAN /\ device \in BOOLEAN /\ cmd \in Amber!Commands
  /\ pos \in Nat /\ size \in Nat /\ pass \in Nat /\ others \in Nat

\* What has been hashed is at the destination or about to be; an image of a file onto
\* itself has emptied it and hashes nothing.
AmberHashed ==
  cmd.op = "image" =>
    /\ pc = "open" => hasher = << >> /\ pending = << >>
    /\ pc \in {"loop", "done"} =>
         IF same THEN source = << >> /\ hasher = << >> /\ pending = << >>
                 ELSE hasher = dest \o pending
    /\ pc = "done" => pending = << >>

\* An image of a file nobody wrote to holds what has been read of it, to its end when
\* the loop is left and blocks hold anything.
AmberImaged ==
  cmd.op = "image" =>
    /\ pc = "open" => pos = 0
    /\ pc \in {"loop", "done"} /\ ~same /\ others = 0 =>
         /\ pos <= Len(source) /\ hasher = Amber!Slice(source, 0, pos)
         /\ ~device => size = Len(source)
    /\ pc = "done" /\ ~same /\ others = 0 /\ cmd.block > 0 => pos >= Len(source)

\* What has been read of an extraction is what the target holds there, or was
\* written to meanwhile.
AmberRead ==
  cmd.op = "extract" =>
    /\ pc = "open" => buffer = << >>
    /\ pc = "loop" => /\ Len(buffer) <= cmd.length /\ pos = cmd.offset + Len(buffer)
                      /\ others = 0 => /\ pos <= Len(source)
                                       /\ buffer = Amber!Slice(source, cmd.offset, Len(buffer))
    /\ pc = "done" => Amber!ExtractIsExact

\* A wipe of a file leaves clean what it is past; beyond the size it read there is only what
\* somebody has appended since.
AmberPast ==
  cmd.op = "wipe" =>
    /\ pc = "open" => pass = 1 /\ pos = 0
    /\ pc \in {"loop", "done"} =>
         /\ pass >= 1
         /\ \A i \in DOMAIN source :
              ~device /\ (pass > 1 \/ i <= pos \/ i > size) => source[i] \in AmberClean
    /\ pc = "done" => pass > cmd.passes

AmberInv == AmberTyped /\ AmberHashed /\ AmberImaged /\ AmberRead /\ AmberPast

LEMMA AmberCommandFields ==
  ASSUME AmberBounds, cmd \in Amber!Commands
  PROVE  /\ cmd.op \in {"image", "extract", "wipe"}
         /\ cmd.op = "image" => cmd.block \in Nat
         /\ cmd.op = "extract" => cmd.offset \in Nat /\ cmd.length \in Nat
         /\ cmd.op = "wipe" => cmd.passes \in Nat
<1>1. CASE cmd \in [op : {"image"}, block : Blocks]
  BY <1>1 DEF AmberBounds
<1>2. CASE cmd \in [op : {"extract"}, offset : 0 .. MaxLen, length : 0 .. MaxLen]
  BY <1>2 DEF AmberBounds
<1>3. CASE cmd \in [op : {"wipe"}, passes : 0 .. MaxPasses, force : BOOLEAN]
  BY <1>3 DEF AmberBounds
<1> QED BY <1>1, <1>2, <1>3 DEF Amber!Commands

LEMMA AmberSliceProperties ==
  ASSUME NEW s \in Seq(AmberBytes), NEW from \in Nat, NEW n \in Int, from + n <= Len(s)
  PROVE  /\ Amber!Slice(s, from, n) \in Seq(AmberBytes)
         /\ Len(Amber!Slice(s, from, n)) = IF n > 0 THEN n ELSE 0
         /\ \A i \in 1 .. n : Amber!Slice(s, from, n)[i] = s[from + i]
<1>1. \A i \in from + 1 .. from + n : s[i] \in AmberBytes
  BY ElementOfSeq
<1>2. /\ SubSeq(s, from + 1, from + n) \in Seq(AmberBytes)
      /\ Len(SubSeq(s, from + 1, from + n)) =
           IF from + 1 <= from + n THEN from + n - (from + 1) + 1 ELSE 0
      /\ \A i \in 1 .. from + n - (from + 1) + 1 :
           SubSeq(s, from + 1, from + n)[i] = s[from + 1 + i - 1]
  BY <1>1, SubSeqProperties
<1> QED BY <1>2 DEF Amber!Slice

\* Reading on from where the last read ended.
LEMMA AmberSliceOn ==
  ASSUME NEW s \in Seq(AmberBytes), NEW from \in Nat, NEW m \in Nat, NEW n \in Nat,
         from + m + n <= Len(s)
  PROVE  Amber!Slice(s, from, m) \o Amber!Slice(s, from + m, n) = Amber!Slice(s, from, m + n)
<1>1. Len(s) \in Nat
  OBVIOUS
<1>2. /\ from + 1 \in 1 .. Len(s) + 1 /\ from + m \in from + 1 - 1 .. Len(s)
      /\ from + m + n \in from + m .. Len(s)
  BY <1>1
<1>3. SubSeq(s, from + 1, from + m) \o SubSeq(s, from + m + 1, from + m + n)
        = SubSeq(s, from + 1, from + m + n)
  BY <1>2, ConcatAdjacentSubSeq
<1>4. from + (m + n) = from + m + n
  OBVIOUS
<1> QED BY <1>3, <1>4 DEF Amber!Slice

LEMMA AmberInitInv == AmberBounds /\ Amber!Init => AmberInv
<1> SUFFICES ASSUME AmberBounds, Amber!Init PROVE AmberInv
  OBVIOUS
<1>1. AmberTyped
  <2>1. source \in Seq(AmberBytes)
    BY DEF AmberBounds, Amber!Init
  <2>2. << >> \in Seq(AmberBytes) /\ <<"x", "x", "x", "x">> \in Seq(AmberBytes)
    BY DEF AmberBytes
  <2> QED BY <2>1, <2>2 DEF Amber!Init, AmberTyped
<1>2. AmberHashed /\ AmberImaged /\ AmberRead /\ AmberPast
  BY DEF Amber!Init, AmberHashed, AmberImaged, AmberRead, AmberPast
<1> QED BY <1>1, <1>2 DEF AmberInv

--------------------------------------------------------------------------------
(* Somebody else. *)

\* A byte somebody writes is new; the others are where they were.
LEMMA AmberOverwritten ==
  ASSUME AmberBounds, AmberInv, Amber!Overwrite
  PROVE  /\ source' \in Seq(AmberBytes)
         /\ Len(source') <= Len(source) \/ Len(source') <= MaxLen
         /\ \A i \in DOMAIN source' :
              source'[i] = "n" \/ (i \in DOMAIN source /\ source'[i] = source[i])
<1>1. source \in Seq(AmberBytes) /\ "n" \in AmberBytes /\ MaxLen \in Nat
  BY DEF AmberBounds, AmberInv, AmberTyped, AmberBytes
<1>2. CASE \E j \in DOMAIN source : source' = [source EXCEPT ![j] = "n"]
  BY <1>1, <1>2
<1>3. CASE ~device /\ Len(source) < MaxLen /\ source' = Append(source, "n")
  BY <1>1, <1>3
<1>4. CASE ~device /\ source # << >> /\ source' = SubSeq(source, 1, Len(source) - 1)
  BY <1>1, <1>4
<1> QED BY <1>2, <1>3, <1>4 DEF Amber!Overwrite

LEMMA AmberOverwriteKeeps == ASSUME AmberBounds, AmberInv, Amber!Overwrite PROVE AmberInv'
<1>1. AmberTyped /\ "n" \in AmberClean
  BY DEF AmberInv, AmberBytes, AmberClean
<1>2. /\ source' \in Seq(AmberBytes)
      /\ \A i \in DOMAIN source' :
           source'[i] = "n" \/ (i \in DOMAIN source /\ source'[i] = source[i])
  BY AmberOverwritten
<1>3. ~same /\ others' # 0 /\ others' \in Nat /\ pc \in {"open", "loop"}
      /\ UNCHANGED <<dest, same, device, cmd, pc, pos, size, hasher, pending, buffer, pass>>
  BY <1>1 DEF Amber!Overwrite, AmberTyped
<1>4. AmberTyped'
  BY <1>1, <1>2, <1>3 DEF AmberTyped
<1>5. AmberHashed' /\ AmberImaged'
  BY <1>3 DEF AmberInv, AmberHashed, AmberImaged
<1>6. AmberRead'
  BY <1>3 DEF AmberInv, AmberRead
<1>7. AmberPast'
  BY <1>1, <1>2, <1>3 DEF AmberInv, AmberPast
<1> QED BY <1>4, <1>5, <1>6, <1>7 DEF AmberInv

LEMMA AmberStopKeeps == ASSUME AmberBounds, AmberInv, Amber!Stop PROVE AmberInv'
<1>1. AmberTyped'
  <2>1. dest \o pending \in Seq(AmberBytes)
    BY ConcatProperties DEF AmberInv, AmberTyped
  <2> QED BY <2>1 DEF Amber!Stop, AmberInv, AmberTyped
<1>2. AmberHashed' /\ AmberImaged' /\ AmberRead' /\ AmberPast'
  BY DEF Amber!Stop, AmberHashed, AmberImaged, AmberRead, AmberPast
<1> QED BY <1>1, <1>2 DEF AmberInv

--------------------------------------------------------------------------------
(* image *)

\* A step of one command is none of the others'.
LEMMA AmberImageOnly ==
  ASSUME AmberInv, cmd.op = "image", cmd' = cmd, AmberTyped', AmberHashed', AmberImaged'
  PROVE  AmberInv'
  BY DEF AmberInv, AmberRead, AmberPast

LEMMA AmberImageOpenKeeps == ASSUME AmberBounds, AmberInv, Amber!ImageOpen PROVE AmberInv'
<1>1. Len(source) \in Nat /\ << >> \in Seq(AmberBytes)
  BY DEF AmberInv, AmberTyped
<1>2. AmberTyped'
  BY <1>1 DEF Amber!ImageOpen, Amber!MetadataLen, AmberInv, AmberTyped
<1>3. AmberHashed'
  BY DEF Amber!ImageOpen, AmberInv, AmberHashed
<1>4. AmberImaged'
  <2>1. Amber!Slice(source, 0, 0) = << >> /\ hasher = << >> /\ pos = 0
    BY SubSeqEmpty DEF Amber!ImageOpen, Amber!Slice, AmberInv, AmberTyped, AmberHashed, AmberImaged
  <2>2. /\ cmd.op = "image" /\ pc' = "loop" /\ (~same => source' = source)
        /\ size' = Amber!MetadataLen /\ UNCHANGED <<same, device, cmd, pos, hasher, others>>
    BY DEF Amber!ImageOpen
  <2> QED BY <1>1, <2>1, <2>2 DEF Amber!MetadataLen, AmberImaged
<1> QED BY <1>2, <1>3, <1>4, AmberImageOnly DEF Amber!ImageOpen

LEMMA AmberImageCopyKeeps == ASSUME AmberBounds, AmberInv, Amber!ImageCopy PROVE AmberInv'
<1>1. PICK n \in 1 .. Amber!Minimum(cmd.block, Len(source) - pos) :
        LET bytes == Amber!Slice(source, pos, n)
        IN /\ pos' = pos + n
           /\ hasher' = hasher \o bytes
           /\ \/ pending' = pending \o bytes /\ UNCHANGED <<source, dest>>
              \/ pending' = << >> /\ Amber!Written(pending \o bytes)
  BY DEF Amber!ImageCopy
<1> DEFINE bytes == Amber!Slice(source, pos, n)
<1>2. cmd.op = "image" /\ pc = "loop" /\ pos < Len(source) /\ cmd.block \in Nat
  BY AmberCommandFields DEF Amber!ImageCopy, AmberInv, AmberTyped
<1>3. n \in Nat /\ pos + n <= Len(source) /\ pos \in Nat
  BY <1>2 DEF Amber!Minimum, AmberInv, AmberTyped
<1>4. bytes \in Seq(AmberBytes)
  <2>1. source \in Seq(AmberBytes) /\ n \in Int
    BY <1>3 DEF AmberInv, AmberTyped
  <2> QED BY <1>3, <2>1, AmberSliceProperties
<1>5. ~same /\ hasher = dest \o pending
  <2>1. same => source = << >>
    BY <1>2 DEF AmberInv, AmberHashed
  <2>2. source # << >>
    BY <1>2, <1>3
  <2> QED BY <1>2, <2>1, <2>2 DEF AmberInv, AmberHashed
<1>6. UNCHANGED <<same, device, cmd, pc, size, buffer, pass, others>>
  BY DEF Amber!ImageCopy
<1> HIDE DEF bytes
<1>7. dest \in Seq(AmberBytes) /\ pending \in Seq(AmberBytes) /\ hasher \in Seq(AmberBytes)
  BY DEF AmberInv, AmberTyped
<1>8. /\ hasher \o bytes \in Seq(AmberBytes) /\ pending \o bytes \in Seq(AmberBytes)
      /\ dest \o (pending \o bytes) \in Seq(AmberBytes)
      /\ hasher \o bytes = dest \o (pending \o bytes)
      /\ dest \o (pending \o bytes) \o << >> = dest \o (pending \o bytes)
  BY SMTT(30), <1>4, <1>5, <1>7, ConcatProperties, ConcatAssociative, ConcatEmptySeq
<1>9. /\ pos' = pos + n /\ hasher' = hasher \o bytes
      /\ \/ pending' = pending \o bytes /\ UNCHANGED <<source, dest>>
         \/ pending' = << >> /\ dest' = dest \o (pending \o bytes) /\ UNCHANGED source
  BY <1>1, <1>5 DEF Amber!Written, bytes
<1>10. AmberTyped'
  <2>1. pos' \in Nat /\ << >> \in Seq(AmberBytes)
    BY <1>3, <1>9
  <2> QED BY <1>6, <1>8, <1>9, <2>1 DEF AmberInv, AmberTyped
<1>11. AmberHashed'
  BY <1>2, <1>5, <1>6, <1>8, <1>9 DEF AmberHashed
<1>12. AmberImaged'
  <2>1. CASE others = 0
    <3>1. hasher = Amber!Slice(source, 0, pos) /\ (~device => size = Len(source))
      BY <1>2, <1>5, <2>1 DEF AmberInv, AmberImaged
    <3>2. Amber!Slice(source, 0, pos) \o Amber!Slice(source, 0 + pos, n) = Amber!Slice(source, 0, pos + n)
      <4>1. source \in Seq(AmberBytes) /\ 0 \in Nat /\ 0 + pos + n <= Len(source)
        BY <1>3 DEF AmberInv, AmberTyped
      <4> QED BY <1>3, <4>1, AmberSliceOn
    <3>3. hasher' = Amber!Slice(source, 0, pos') /\ 0 + pos = pos
      BY <1>3, <1>9, <3>1, <3>2 DEF bytes
    <3> QED BY <1>2, <1>3, <1>6, <1>9, <3>1, <3>3 DEF AmberImaged
  <2>2. CASE others # 0
    BY <1>2, <1>6, <2>2 DEF AmberImaged
  <2> QED BY <2>1, <2>2
<1> QED BY <1>2, <1>6, <1>10, <1>11, <1>12, AmberImageOnly

LEMMA AmberImageEndKeeps == ASSUME AmberBounds, AmberInv, Amber!ImageEnd PROVE AmberInv'
<1>1. /\ dest \in Seq(AmberBytes) /\ pending \in Seq(AmberBytes) /\ source \in Seq(AmberBytes)
      /\ << >> \in Seq(AmberBytes) /\ << >> \o << >> = << >>
  BY DEF AmberInv, AmberTyped
<1>2. dest \o pending \in Seq(AmberBytes) /\ source \o pending \in Seq(AmberBytes)
      /\ dest \o pending \o << >> = dest \o pending
  BY <1>1, ConcatProperties, ConcatEmptySeq
<1>3. /\ cmd.op = "image" /\ pc = "loop" /\ pc' = "done" /\ pending' = << >>
      /\ Amber!Written(pending)
      /\ UNCHANGED <<same, device, cmd, pos, size, hasher, buffer, pass, others>>
  BY DEF Amber!ImageEnd
<1>4. AmberTyped'
  BY <1>1, <1>2, <1>3 DEF Amber!Written, AmberInv, AmberTyped
<1>5. AmberHashed'
  <2>1. CASE same
    BY <1>1, <1>3, <2>1 DEF Amber!Written, AmberInv, AmberHashed
  <2>2. CASE ~same
    BY <1>2, <1>3, <2>2 DEF Amber!Written, AmberInv, AmberHashed
  <2> QED BY <2>1, <2>2
<1>6. AmberImaged'
  <2>1. cmd.block \in Nat /\ (pos >= Len(source) \/ cmd.block = 0)
    BY <1>3, AmberCommandFields DEF Amber!ImageEnd, Amber!AtEnd, AmberInv, AmberTyped
  <2>2. ~same => source' = source
    BY <1>3 DEF Amber!Written
  <2> QED BY <1>3, <2>1, <2>2 DEF AmberInv, AmberImaged
<1> QED BY <1>3, <1>4, <1>5, <1>6, AmberImageOnly

--------------------------------------------------------------------------------
(* extract *)

LEMMA AmberExtractOnly ==
  ASSUME AmberInv, cmd.op = "extract", cmd' = cmd, AmberTyped', AmberRead' PROVE AmberInv'
  BY DEF AmberInv, AmberHashed, AmberImaged, AmberPast

LEMMA AmberExtractOpenKeeps == ASSUME AmberBounds, AmberInv, Amber!ExtractOpen PROVE AmberInv'
<1>1. /\ cmd.op = "extract" /\ cmd.offset \in Nat /\ cmd.length \in Nat
      /\ Len(source) \in Nat /\ source \in Seq(AmberBytes) /\ buffer = << >> /\ others \in Nat
  BY AmberCommandFields DEF Amber!ExtractOpen, AmberInv, AmberTyped, AmberRead
<1>2. /\ size' = Amber!MetadataLen /\ pos' = cmd.offset
      /\ pc' = IF cmd.offset + cmd.length > Amber!MetadataLen THEN "stopped" ELSE "loop"
      /\ UNCHANGED <<source, dest, same, device, cmd, hasher, pending, buffer, pass, others>>
  BY DEF Amber!ExtractOpen
<1>6. Amber!MetadataLen \in Nat /\ Amber!MetadataLen <= Len(source)
  BY <1>1 DEF Amber!MetadataLen
<1>3. AmberTyped'
  BY <1>1, <1>2, <1>6 DEF AmberInv, AmberTyped
<1>4. Len(<< >>) = 0 /\ SubSeq(source, cmd.offset + 1, cmd.offset + 0) = << >>
  BY <1>1, SubSeqEmpty
<1>5. AmberRead'
  BY <1>1, <1>2, <1>4, <1>6 DEF AmberRead, Amber!Slice
<1> QED BY <1>1, <1>2, <1>3, <1>5, AmberExtractOnly

LEMMA AmberExtractReadKeeps == ASSUME AmberBounds, AmberInv, Amber!ExtractRead PROVE AmberInv'
<1>1. /\ cmd.op = "extract" /\ cmd.offset \in Nat /\ cmd.length \in Nat
      /\ pos \in Nat /\ Len(source) \in Nat /\ Len(buffer) \in Nat
      /\ source \in Seq(AmberBytes) /\ buffer \in Seq(AmberBytes)
  BY AmberCommandFields DEF Amber!ExtractRead, AmberInv, AmberTyped
<1>2. /\ Len(buffer) < cmd.length /\ pc = "loop" /\ pos = cmd.offset + Len(buffer)
      /\ others = 0 => buffer = Amber!Slice(source, cmd.offset, Len(buffer))
      /\ UNCHANGED <<source, dest, same, device, cmd, size, hasher, pending, pass, others>>
  BY DEF Amber!ExtractRead, AmberInv, AmberRead
<1>3. CASE pc' = "stopped" /\ UNCHANGED <<pos, buffer>>
  <2>1. AmberTyped' /\ AmberRead'
    BY <1>2, <1>3 DEF AmberInv, AmberTyped, AmberRead
  <2> QED BY <1>1, <1>2, <2>1, AmberExtractOnly
<1>4. ASSUME NEW n \in 1 .. Amber!Minimum(cmd.length - Len(buffer), Len(source) - pos),
             pos' = pos + n, buffer' = buffer \o Amber!Slice(source, pos, n), UNCHANGED pc
      PROVE  AmberInv'
  <2>1. n \in Nat /\ pos + n <= Len(source) /\ Len(buffer) + n <= cmd.length
    BY <1>1 DEF Amber!Minimum
  <2>2. Amber!Slice(source, pos, n) \in Seq(AmberBytes) /\ Len(Amber!Slice(source, pos, n)) = n
    BY SMTT(30), <1>1, <2>1, AmberSliceProperties
  <2>3. buffer' \in Seq(AmberBytes) /\ Len(buffer') = Len(buffer) + n
    BY <1>1, <1>4, <2>2, ConcatProperties
  <2>4. others = 0 => buffer' = Amber!Slice(source, cmd.offset, Len(buffer) + n)
    <3>1. cmd.offset + Len(buffer) + n <= Len(source)
      BY <1>2, <2>1
    <3>2. ASSUME NEW from \in Nat, NEW m \in Nat, from + m + n <= Len(source)
          PROVE  Amber!Slice(source, from, m) \o Amber!Slice(source, from + m, n) = Amber!Slice(source, from, m + n)
      <4>1. n \in Nat /\ source \in Seq(AmberBytes)
        BY <1>1, <2>1
      <4> QED BY <4>1, <3>2, AmberSliceOn
    <3>3. Amber!Slice(source, cmd.offset, Len(buffer)) \o Amber!Slice(source, cmd.offset + Len(buffer), n)
            = Amber!Slice(source, cmd.offset, Len(buffer) + n)
      BY <1>1, <3>1, <3>2
    <3> QED BY <1>2, <1>4, <3>3
  <2>5. AmberTyped'
    <3>1. pos' \in Nat
      BY <1>1, <1>4, <2>1
    <3> QED BY <1>2, <1>4, <2>3, <3>1 DEF AmberInv, AmberTyped
  <2>6. AmberRead'
    <3>1. /\ pc' = "loop" /\ cmd' = cmd /\ source' = source /\ others' = others
          /\ Len(buffer') <= cmd.length /\ pos' = cmd.offset + Len(buffer')
          /\ pos' <= Len(source)
      BY SMTT(30), <1>1, <1>2, <1>4, <2>1, <2>3
    <3>2. others = 0 => buffer' = Amber!Slice(source, cmd.offset, Len(buffer'))
      BY <2>3, <2>4
    <3> QED BY <3>1, <3>2 DEF AmberRead
  <2> QED BY <1>1, <1>2, <2>5, <2>6, AmberExtractOnly
<1> QED BY <1>3, <1>4 DEF Amber!ExtractRead

LEMMA AmberExtractSaveKeeps == ASSUME AmberBounds, AmberInv, Amber!ExtractSave PROVE AmberInv'
<1>1. /\ cmd.op = "extract" /\ pc = "loop" /\ Len(buffer) = cmd.length
      /\ dest' = buffer /\ pc' = "done"
      /\ UNCHANGED <<source, same, device, cmd, pos, size, hasher, pending, buffer, pass, others>>
  BY DEF Amber!ExtractSave
<1>2. others = 0 => buffer = Amber!Slice(source, cmd.offset, cmd.length)
  BY <1>1 DEF AmberInv, AmberRead
<1>3. AmberTyped'
  BY <1>1 DEF AmberInv, AmberTyped
<1>4. AmberRead'
  BY <1>1, <1>2 DEF AmberRead, Amber!ExtractIsExact, Amber!Done
<1> QED BY <1>1, <1>3, <1>4, AmberExtractOnly

--------------------------------------------------------------------------------
(* wipe *)

LEMMA AmberWipeOnly ==
  ASSUME AmberInv, cmd.op = "wipe", cmd' = cmd, AmberTyped', AmberPast' PROVE AmberInv'
  BY DEF AmberInv, AmberHashed, AmberImaged, AmberRead

LEMMA AmberWipeOpenKeeps == ASSUME AmberBounds, AmberInv, Amber!WipeOpen PROVE AmberInv'
<1>1. /\ cmd.op = "wipe" /\ pass = 1 /\ pos = 0 /\ pc' \in {"loop", "stopped"}
      /\ size' = Amber!MetadataLen /\ Len(source) \in Nat /\ DOMAIN source = 1 .. Len(source)
      /\ UNCHANGED <<source, dest, same, device, cmd, pos, hasher, pending, buffer, pass, others>>
  BY DEF Amber!WipeOpen, AmberInv, AmberTyped, AmberPast
<1>2. AmberTyped'
  BY <1>1 DEF AmberInv, AmberTyped, Amber!MetadataLen
<1>3. AmberPast'
  BY <1>1 DEF AmberPast, Amber!MetadataLen
<1> QED BY <1>1, <1>2, <1>3, AmberWipeOnly

\* What a chunk leaves: the pattern where it was written, zeros where the target had
\* shrunk below it, and the rest as it was.
LEMMA AmberChunk ==
  ASSUME AmberBounds, AmberInv, Amber!WipeChunk, NEW n, n = Amber!WipeLength
  PROVE  /\ n \in Nat \ {0} /\ pos + n <= size /\ pos' = pos + n
         /\ source' \in Seq(AmberBytes)
         /\ Len(source') = pos + n \/ (pos + n < Len(source) /\ Len(source') = Len(source))
         /\ \A i \in DOMAIN source' :
              /\ i > pos + n => i \in DOMAIN source
              /\ source'[i] = IF i > pos + n THEN source[i]
                              ELSE IF i > pos THEN Amber!Wiped
                              ELSE IF i <= Len(source) THEN source[i] ELSE "0"
<1> DEFINE bytes == [i \in 1 .. pos + n |->
                       IF i > pos THEN Amber!Wiped ELSE IF i <= Len(source) THEN source[i] ELSE "0"]
           rest == Amber!Slice(source, pos + n, Len(source) - pos - n)
<1>1. /\ pos < size /\ source' = bytes \o rest
      /\ pos' = pos + IF n = 0 THEN Chunk ELSE n
  BY DEF Amber!WipeChunk
<1>2. pos \in Nat /\ size \in Nat /\ source \in Seq(AmberBytes)
  BY DEF AmberInv, AmberTyped
<1>3. n \in Nat \ {0} /\ pos + n <= size /\ pos' = pos + n
  BY <1>1, <1>2 DEF AmberBounds, Amber!WipeLength, Amber!Minimum
<1>4. \A i \in 1 .. Len(source) : source[i] \in AmberBytes
  BY <1>2, ElementOfSeq
<1>5. /\ bytes \in Seq(AmberBytes) /\ Len(bytes) = pos + n
      /\ \A i \in 1 .. pos + n : bytes[i] =
           IF i > pos THEN Amber!Wiped ELSE IF i <= Len(source) THEN source[i] ELSE "0"
  <2>1. pos + n \in Nat /\ Amber!Wiped \in AmberBytes /\ "0" \in AmberBytes
    BY <1>2, <1>3 DEF AmberBytes
  <2>2. bytes \in [1 .. pos + n -> AmberBytes]
    BY <1>2, <1>4, <2>1
  <2> QED BY <2>1, <2>2
<1> DEFINE m == Len(source) - pos - n
<1>6. m \in Int /\ pos + n \in Nat /\ pos + n + m = Len(source) /\ Len(source) \in Nat
  BY <1>2, <1>3
<1> HIDE DEF m
<1>7. /\ rest \in Seq(AmberBytes) /\ Len(rest) = IF m > 0 THEN m ELSE 0
      /\ \A i \in 1 .. m : rest[i] = source[pos + n + i]
  <2> DEFINE k == pos + n
  <2>1. k \in Nat /\ k + m <= Len(source) /\ m \in Int /\ source \in Seq(AmberBytes)
    BY <1>2, <1>6
  <2> HIDE DEF k
  <2>2. /\ Amber!Slice(source, k, m) \in Seq(AmberBytes)
        /\ Len(Amber!Slice(source, k, m)) = IF m > 0 THEN m ELSE 0
        /\ \A i \in 1 .. m : Amber!Slice(source, k, m)[i] = source[k + i]
    BY <2>1, AmberSliceProperties
  <2> QED BY <2>2 DEF m, k
<1> HIDE DEF bytes, rest
<1>8. /\ source' \in Seq(AmberBytes) /\ Len(source') = pos + n + Len(rest)
      /\ \A i \in 1 .. pos + n + Len(rest) :
           source'[i] = IF i <= pos + n THEN bytes[i] ELSE rest[i - (pos + n)]
  <2>1. /\ bytes \o rest \in Seq(AmberBytes) /\ Len(bytes \o rest) = Len(bytes) + Len(rest)
        /\ \A i \in 1 .. Len(bytes) + Len(rest) :
             (bytes \o rest)[i] = IF i <= Len(bytes) THEN bytes[i] ELSE rest[i - Len(bytes)]
    BY <1>5, <1>7, ConcatProperties
  <2> QED BY <1>1, <1>5, <2>1
<1>9. Len(source') = pos + n \/ (pos + n < Len(source) /\ Len(source') = Len(source))
  BY <1>6, <1>7, <1>8
<1>10. ASSUME NEW i \in DOMAIN source'
       PROVE  /\ i > pos + n => i \in DOMAIN source
              /\ source'[i] = IF i > pos + n THEN source[i]
                              ELSE IF i > pos THEN Amber!Wiped
                              ELSE IF i <= Len(source) THEN source[i] ELSE "0"
  <2>1. i \in 1 .. pos + n + Len(rest) /\ Len(rest) \in Nat
    BY <1>6, <1>7, <1>8
  <2>2. CASE i > pos + n
    <3>1. m > 0 /\ i - (pos + n) \in 1 .. m /\ i \in 1 .. Len(source)
      BY <1>6, <1>7, <2>1, <2>2
    <3>2. source'[i] = rest[i - (pos + n)] /\ pos + n + (i - (pos + n)) = i
      BY <1>6, <1>8, <2>1, <2>2
    <3>3. source'[i] = source[i]
      BY <1>7, <3>1, <3>2
    <3> QED BY <1>2, <2>2, <3>1, <3>3
  <2>3. CASE i <= pos + n
    <3>1. source'[i] = bytes[i] /\ i \in 1 .. pos + n
      BY <1>6, <1>8, <2>1, <2>3
    <3> QED BY <1>5, <1>6, <2>3, <3>1
  <2> QED BY <1>6, <2>1, <2>2, <2>3
<1> QED BY <1>3, <1>8, <1>9, <1>10

LEMMA AmberWipeChunkKeeps == ASSUME AmberBounds, AmberInv, Amber!WipeChunk PROVE AmberInv'
<1> DEFINE n == Amber!WipeLength
<1>1. /\ cmd.op = "wipe" /\ pc = "loop" /\ pos < size
      /\ UNCHANGED <<dest, same, device, cmd, pc, size, hasher, pending, buffer, pass, others>>
  BY DEF Amber!WipeChunk
<1>2. pos \in Nat /\ size \in Nat /\ source \in Seq(AmberBytes) /\ pass \in Nat
  BY DEF AmberInv, AmberTyped
<1>3. /\ n \in Nat \ {0} /\ pos + n <= size /\ pos' = pos + n
      /\ source' \in Seq(AmberBytes)
      /\ \A i \in DOMAIN source' :
           /\ i > pos + n => i \in DOMAIN source
           /\ source'[i] = IF i > pos + n THEN source[i]
                           ELSE IF i > pos THEN Amber!Wiped
                           ELSE IF i <= Len(source) THEN source[i] ELSE "0"
  BY AmberChunk
<1> HIDE DEF n
<1>4. AmberTyped'
  BY <1>1, <1>2, <1>3 DEF AmberInv, AmberTyped
<1>5. ASSUME NEW i \in DOMAIN source', ~device, pass > 1 \/ i <= pos + n \/ i > size
      PROVE  source'[i] \in AmberClean
  <2>1. i \in Nat /\ i >= 1 /\ Amber!Wiped \in AmberClean /\ "0" \in AmberClean
    BY <1>3 DEF AmberBytes, AmberClean, Amber!Wiped
  <2>2. \A j \in DOMAIN source : pass > 1 \/ j <= pos \/ j > size => source[j] \in AmberClean
    BY <1>1, <1>5 DEF AmberInv, AmberPast
  <2>3. CASE i > pos + n
    <3>1. i \in DOMAIN source /\ source'[i] = source[i] /\ (pass > 1 \/ i > size)
      BY <1>2, <1>3, <1>5, <2>1, <2>3
    <3> QED BY <2>2, <3>1
  <2>4. CASE i <= pos + n /\ i > pos
    BY <1>2, <1>3, <2>1, <2>4
  <2>5. CASE i <= pos
    <3>1. source'[i] = IF i <= Len(source) THEN source[i] ELSE "0"
      BY <1>2, <1>3, <2>1, <2>5
    <3>2. i <= Len(source) => i \in DOMAIN source
      BY <1>2, <2>1
    <3> QED BY <2>1, <2>2, <2>5, <3>1, <3>2
  <2> QED BY <1>2, <1>3, <2>1, <2>3, <2>4, <2>5
<1>6. AmberPast'
  <2>1. pass >= 1
    BY <1>1 DEF AmberInv, AmberPast
  <2> QED BY <1>1, <1>3, <1>5, <2>1 DEF AmberPast
<1> QED BY <1>1, <1>4, <1>6, AmberWipeOnly

LEMMA AmberWipePassKeeps == ASSUME AmberBounds, AmberInv, Amber!WipePass PROVE AmberInv'
<1>1. /\ cmd.op = "wipe" /\ pc = "loop" /\ pos >= size /\ pass' = pass + 1 /\ pos' = 0
      /\ UNCHANGED <<source, dest, same, device, cmd, pc, size, hasher, pending, buffer, others>>
  BY DEF Amber!WipePass
<1>2. pos \in Nat /\ size \in Nat /\ pass \in Nat /\ pass >= 1 /\ DOMAIN source = 1 .. Len(source)
  BY <1>1 DEF AmberInv, AmberTyped, AmberPast
<1>3. AmberTyped'
  BY <1>1, <1>2 DEF AmberInv, AmberTyped
<1>4. ~device => \A i \in DOMAIN source : source[i] \in AmberClean
  <2>1. \A i \in DOMAIN source : i <= pos \/ i > size
    BY <1>1, <1>2
  <2> QED BY <1>1, <2>1 DEF AmberInv, AmberPast
<1>5. AmberPast'
  BY <1>1, <1>2, <1>4 DEF AmberPast
<1> QED BY <1>1, <1>3, <1>5, AmberWipeOnly

LEMMA AmberWipeEndKeeps == ASSUME AmberBounds, AmberInv, Amber!WipeEnd PROVE AmberInv'
<1>1. AmberTyped'
  BY DEF Amber!WipeEnd, AmberInv, AmberTyped
<1>2. AmberPast'
  BY DEF Amber!WipeEnd, AmberInv, AmberPast
<1> QED BY <1>1, <1>2, AmberWipeOnly DEF Amber!WipeEnd

--------------------------------------------------------------------------------
LEMMA AmberStepKeeps == ASSUME AmberBounds, AmberInv, [Amber!Next]_(Amber!vars) PROVE AmberInv'
<1>1. CASE UNCHANGED Amber!vars
  BY <1>1 DEF Amber!vars, AmberInv, AmberTyped, AmberHashed, AmberImaged, AmberRead, AmberPast,
              Amber!ExtractIsExact, Amber!Done
<1> QED BY <1>1, AmberOverwriteKeeps, AmberStopKeeps, AmberImageOpenKeeps, AmberImageCopyKeeps,
           AmberImageEndKeeps,
           AmberExtractOpenKeeps, AmberExtractReadKeeps, AmberExtractSaveKeeps, AmberWipeOpenKeeps, AmberWipeChunkKeeps,
           AmberWipePassKeeps, AmberWipeEndKeeps DEF Amber!Next

\* The invariant says of a command that has reported what it is to have done.
LEMMA AmberInvReports == ASSUME AmberBounds, AmberInv PROVE Amber!ReportsAreTrue
<1>1. Amber!HashIsOfTheImage
  <2>1. dest \o << >> = dest
    BY ConcatEmptySeq DEF AmberInv, AmberTyped
  <2> QED BY <2>1 DEF Amber!HashIsOfTheImage, Amber!Done, AmberInv, AmberHashed
<1>2. Amber!ExtractIsExact
  BY DEF Amber!ExtractIsExact, Amber!Done, AmberInv, AmberRead
<1>3. Amber!WipeIsComplete
  <2> SUFFICES ASSUME pc = "done", cmd.op = "wipe", ~device, cmd.passes > 0, NEW i \in DOMAIN source
               PROVE  source[i] \notin {"a", "b"}
    BY DEF Amber!WipeIsComplete, Amber!Neutralized, Amber!Done
  <2>1. pass > 1
    BY AmberCommandFields DEF AmberInv, AmberTyped, AmberPast
  <2>2. source[i] \in AmberClean
    BY <2>1 DEF AmberInv, AmberPast
  <2> QED BY <2>2 DEF AmberClean
<1>4. Amber!ImageIsExact
  <2> SUFFICES ASSUME pc = "done", cmd.op = "image", ~same, others = 0, cmd.block > 0
               PROVE  dest = source /\ (~device => size = Len(dest))
    BY DEF Amber!ImageIsExact, Amber!Done
  <2>1. hasher = dest
    BY <1>1 DEF Amber!HashIsOfTheImage, Amber!Done
  <2>2. pos = Len(source) /\ hasher = Amber!Slice(source, 0, pos) /\ (~device => size = Len(source))
    BY DEF AmberInv, AmberTyped, AmberImaged
  <2>3. SubSeq(source, 1, Len(source)) = source
    BY SubSeqFull DEF AmberInv, AmberTyped
  <2>4. Amber!Slice(source, 0, Len(source)) = SubSeq(source, 1, Len(source))
    <3>1. 0 + 1 = 1 /\ 0 + Len(source) = Len(source)
      BY DEF AmberInv, AmberTyped
    <3> QED BY <3>1 DEF Amber!Slice
  <2> QED BY <2>1, <2>2, <2>3, <2>4
<1> QED BY <1>1, <1>2, <1>3, <1>4 DEF Amber!ReportsAreTrue

--------------------------------------------------------------------------------
(* The types: how long files and counters get, and which bytes get where.      *)

AmberReadable == {"a", "b", "n"}
AmberTarget == AmberReadable \cup {"0", Amber!Wiped}
AmberSaved == AmberReadable \cup {"x"}

\* The files given are no longer than the bound, and hold what files hold.
AmberFilesFit == \A s \in Data : s \in Seq({"a", "b"}) /\ Len(s) <= MaxLen

\* Only a wipe writes its target; what reaches the destination was read.
AmberFits ==
  /\ pc \in {"open", "loop", "done", "stopped"}
  /\ pos <= MaxLen /\ size <= MaxLen /\ Len(source) <= MaxLen /\ others <= MaxWrites
  /\ pass >= 1 /\ pass <= MaxPasses + 1
  /\ source \in Seq(IF cmd.op = "wipe" THEN AmberTarget ELSE AmberReadable)
  /\ dest \in Seq(AmberSaved) /\ pending \in Seq(AmberSaved) /\ buffer \in Seq(AmberSaved)

LEMMA AmberSeqOf ==
  ASSUME NEW S, NEW s \in Seq(AmberBytes), \A i \in DOMAIN s : s[i] \in S
  PROVE  s \in Seq(S)
<1>1. Len(s) \in Nat /\ s \in [1 .. Len(s) -> S]
  OBVIOUS
<1> QED BY <1>1

LEMMA AmberFitsType == ASSUME AmberBounds, AmberInv, AmberFits PROVE Amber!TypeOK
<1>1. source \in Seq({"a", "b", "n", "0", Amber!Wiped})
  <2>1. AmberTarget = {"a", "b", "n", "0", Amber!Wiped} /\ AmberReadable \subseteq AmberTarget
    BY DEF AmberTarget, AmberReadable
  <2>2. source \in Seq(AmberTarget)
    BY <2>1, SeqMonotonic DEF AmberFits
  <2> QED BY <2>1, <2>2
<1>2. dest \in Seq({"a", "b", "n", "x"})
  <2>1. AmberSaved = {"a", "b", "n", "x"}
    BY DEF AmberSaved, AmberReadable
  <2> QED BY <2>1 DEF AmberFits
<1> QED BY <1>1, <1>2 DEF Amber!TypeOK, AmberBounds, AmberInv, AmberTyped, AmberFits

LEMMA AmberInitFits ==
  ASSUME AmberBounds, AmberFilesFit, Amber!Init PROVE AmberFits
<1>1. source \in Seq({"a", "b"}) /\ Len(source) <= MaxLen
  BY DEF AmberFilesFit, Amber!Init
<1>2. source \in Seq(AmberReadable) /\ source \in Seq(AmberTarget)
  BY <1>1, SeqMonotonic DEF AmberReadable, AmberTarget
<1>3. << >> \in Seq(AmberSaved) /\ <<"x", "x", "x", "x">> \in Seq(AmberSaved)
  BY DEF AmberSaved
<1>4. /\ pc = "open" /\ pos = 0 /\ size = 0 /\ others = 0 /\ pass = 1
      /\ pending = << >> /\ buffer = << >> /\ dest \in {<< >>, <<"x", "x", "x", "x">>}
  BY DEF Amber!Init
<1>5. pass <= MaxPasses + 1 /\ 0 <= MaxLen /\ 0 <= MaxWrites
  BY <1>4 DEF AmberBounds
<1>6. source \in Seq(IF cmd.op = "wipe" THEN AmberTarget ELSE AmberReadable)
  BY <1>2
<1>7. pending \in Seq(AmberSaved) /\ buffer \in Seq(AmberSaved) /\ dest \in Seq(AmberSaved)
  <2>1. CASE dest = << >>
    BY <1>3, <1>4, <2>1
  <2>2. CASE dest = <<"x", "x", "x", "x">>
    BY <1>3, <1>4, <2>2
  <2> QED BY <1>4, <2>1, <2>2
<1>8. pos <= MaxLen /\ size <= MaxLen /\ others <= MaxWrites /\ pass >= 1 /\ pass <= MaxPasses + 1
  BY <1>4, <1>5
<1> QED BY <1>1, <1>4, <1>6, <1>7, <1>8 DEF AmberFits

\* What is read of a target that is not wiped can be saved.
LEMMA AmberSliceSaved ==
  ASSUME AmberInv, AmberFits, cmd.op # "wipe", NEW n \in Nat, pos + n <= Len(source)
  PROVE  Amber!Slice(source, pos, n) \in Seq(AmberSaved)
<1>1. source \in Seq(AmberBytes) /\ pos \in Nat /\ Len(source) \in Nat /\ DOMAIN source = 1 .. Len(source)
  BY DEF AmberInv, AmberTyped
<1>2. source \in Seq(AmberReadable)
  BY DEF AmberFits
<1> DEFINE bytes == Amber!Slice(source, pos, n)
<1>3. /\ bytes \in Seq(AmberBytes) /\ Len(bytes) = IF n > 0 THEN n ELSE 0
      /\ \A i \in 1 .. n : bytes[i] = source[pos + i]
  BY SMTT(30), <1>1, AmberSliceProperties
<1> HIDE DEF bytes
<1>4. ASSUME NEW i \in DOMAIN bytes PROVE bytes[i] \in AmberSaved
  <2>1. i \in 1 .. n /\ pos + i \in 1 .. Len(source)
    BY <1>1, <1>3
  <2>2. source[pos + i] \in AmberReadable
    BY <1>2, <2>1, ElementOfSeq
  <2> QED BY <1>3, <2>1, <2>2 DEF AmberSaved
<1>5. bytes \in Seq(AmberSaved)
  BY <1>3, <1>4, AmberSeqOf
<1> QED BY <1>5 DEF bytes

LEMMA AmberOverwriteFits == ASSUME AmberBounds, AmberInv, AmberFits, Amber!Overwrite PROVE AmberFits'
<1> DEFINE S == IF cmd.op = "wipe" THEN AmberTarget ELSE AmberReadable
<1>1. /\ source' \in Seq(AmberBytes)
      /\ Len(source') <= Len(source) \/ Len(source') <= MaxLen
      /\ \A i \in DOMAIN source' :
           source'[i] = "n" \/ (i \in DOMAIN source /\ source'[i] = source[i])
  BY AmberOverwritten
<1>2. source \in Seq(S) /\ "n" \in S
  BY DEF AmberFits, AmberTarget, AmberReadable
<1> HIDE DEF S
<1>3. \A i \in DOMAIN source' : source'[i] \in S
  BY <1>1, <1>2
<1>4. source' \in Seq(S)
  BY <1>1, <1>3, AmberSeqOf
<1>5. Len(source') <= MaxLen
  <2>1. Len(source') \in Nat /\ Len(source) \in Nat /\ Len(source) <= MaxLen /\ MaxLen \in Nat
    BY <1>1, <1>2 DEF AmberFits, AmberBounds
  <2> QED BY <1>1, <2>1
<1>6. /\ others' = others + 1 /\ others < MaxWrites /\ others \in Nat /\ MaxWrites \in Nat
      /\ UNCHANGED <<dest, cmd, pc, pos, size, pending, buffer, pass>>
  BY DEF Amber!Overwrite, AmberInv, AmberTyped, AmberBounds
<1> QED BY <1>4, <1>5, <1>6 DEF AmberFits, S

LEMMA AmberStopFits == ASSUME AmberFits, Amber!Stop PROVE AmberFits'
<1>1. dest \o pending \in Seq(AmberSaved)
  BY ConcatProperties DEF AmberFits
<1> QED BY <1>1 DEF Amber!Stop, AmberFits

LEMMA AmberImageFits ==
  ASSUME AmberBounds, AmberInv, AmberFits, Amber!ImageOpen \/ Amber!ImageCopy \/ Amber!ImageEnd
  PROVE  AmberFits'
<1>1. /\ cmd.op = "image" /\ source \in Seq(AmberReadable) /\ Len(source) \in Nat /\ MaxLen \in Nat
      /\ pos \in Nat
  BY DEF Amber!ImageOpen, Amber!ImageCopy, Amber!ImageEnd, AmberInv, AmberTyped, AmberFits, AmberBounds
<1>2. << >> \in Seq(AmberSaved) /\ << >> \in Seq(AmberReadable) /\ Len(<< >>) = 0
  OBVIOUS
<1>3. CASE Amber!ImageOpen
  <2>1. /\ size' \in {0, Len(source)} /\ pc' = "loop"
        /\ source' \in {source, << >>} /\ dest' \in {dest, << >>}
        /\ UNCHANGED <<cmd, pos, pending, buffer, pass, others>>
    BY <1>3 DEF Amber!ImageOpen, Amber!MetadataLen
  <2>2. source' \in Seq(AmberReadable) /\ Len(source') <= MaxLen /\ dest' \in Seq(AmberSaved)
    <3>1. Len(source) <= MaxLen /\ 0 <= MaxLen /\ dest \in Seq(AmberSaved)
      BY <1>1 DEF AmberFits
    <3>2. source' \in Seq(AmberReadable) /\ Len(source') <= MaxLen
      <4>1. CASE source' = source
        BY <1>1, <3>1, <4>1
      <4>2. CASE source' = << >>
        BY <1>2, <3>1, <4>2
      <4> QED BY <2>1, <4>1, <4>2
    <3>3. dest' \in Seq(AmberSaved)
      <4>1. CASE dest' = dest
        BY <3>1, <4>1
      <4>2. CASE dest' = << >>
        BY <1>2, <4>2
      <4> QED BY <2>1, <4>1, <4>2
    <3> QED BY <3>2, <3>3
  <2> QED BY <1>1, <2>1, <2>2 DEF AmberFits
<1>4. CASE Amber!ImageCopy
  <2>1. PICK n \in 1 .. Amber!Minimum(cmd.block, Len(source) - pos) :
          /\ pos' = pos + n
          /\ \/ pending' = pending \o Amber!Slice(source, pos, n) /\ UNCHANGED <<source, dest>>
             \/ pending' = << >> /\ Amber!Written(pending \o Amber!Slice(source, pos, n))
    BY <1>4 DEF Amber!ImageCopy
  <2>2. n \in Nat /\ pos + n <= Len(source) /\ pos + n <= MaxLen
    BY SMTT(30), <1>1, <1>4, AmberCommandFields
      DEF Amber!ImageCopy, Amber!Minimum, AmberInv, AmberTyped, AmberFits
  <2> DEFINE bytes == Amber!Slice(source, pos, n)
  <2>3. bytes \in Seq(AmberSaved)
    BY <1>1, <2>2, AmberSliceSaved
  <2>4. ~same
    BY <1>1, <1>4 DEF Amber!ImageCopy, AmberInv, AmberHashed
  <2> HIDE DEF bytes
  <2>5. pending \o bytes \in Seq(AmberSaved) /\ dest \o (pending \o bytes) \in Seq(AmberSaved)
    BY <2>3, ConcatProperties DEF AmberFits
  <2>6. /\ source' = source /\ dest' \in Seq(AmberSaved) /\ pending' \in Seq(AmberSaved)
        /\ pos' <= MaxLen
    BY <1>2, <2>1, <2>2, <2>4, <2>5 DEF Amber!Written, bytes, AmberFits
  <2>7. UNCHANGED <<cmd, pc, size, buffer, pass, others>>
    BY <1>4 DEF Amber!ImageCopy
  <2> QED BY <2>6, <2>7 DEF AmberFits
<1>5. CASE Amber!ImageEnd
  <2>1. same => source = << >> /\ pending = << >>
    BY <1>1, <1>5 DEF Amber!ImageEnd, AmberInv, AmberHashed
  <2>2. dest \o pending \in Seq(AmberSaved)
    BY ConcatProperties DEF AmberFits
  <2>3. same => source \o pending = source
    BY <1>1, <2>1
  <2>4. /\ source' = source /\ dest' \in Seq(AmberSaved) /\ pending' = << >>
        /\ pc' = "done" /\ UNCHANGED <<cmd, pos, size, buffer, pass, others>>
    BY <1>5, <2>2, <2>3 DEF Amber!ImageEnd, Amber!Written, AmberFits
  <2> QED BY <1>2, <2>4 DEF AmberFits
<1> QED BY <1>3, <1>4, <1>5

LEMMA AmberExtractFits ==
  ASSUME AmberBounds, AmberInv, AmberFits,
         Amber!ExtractOpen \/ Amber!ExtractRead \/ Amber!ExtractSave
  PROVE  AmberFits'
<1>1. /\ cmd.op = "extract" /\ Len(source) \in Nat /\ MaxLen \in Nat /\ pos \in Nat
      /\ cmd.offset <= MaxLen /\ cmd.offset \in Nat /\ cmd.length \in Nat
  <2>1. cmd.op = "extract"
    BY DEF Amber!ExtractOpen, Amber!ExtractRead, Amber!ExtractSave
  <2>2. cmd \in [op : {"extract"}, offset : 0 .. MaxLen, length : 0 .. MaxLen]
    BY <2>1 DEF AmberInv, AmberTyped, Amber!Commands
  <2> QED BY <2>1, <2>2 DEF AmberInv, AmberTyped, AmberBounds
<1>2. CASE Amber!ExtractOpen
  BY <1>1, <1>2 DEF Amber!ExtractOpen, Amber!MetadataLen, AmberFits
<1>3. CASE Amber!ExtractRead
  <2>1. UNCHANGED <<source, dest, cmd, size, pending, pass, others>>
    BY <1>3 DEF Amber!ExtractRead
  <2>2. CASE pc' = "stopped" /\ UNCHANGED <<pos, buffer>>
    BY <2>1, <2>2 DEF AmberFits
  <2>3. ASSUME NEW n \in 1 .. Amber!Minimum(cmd.length - Len(buffer), Len(source) - pos),
               pos' = pos + n, buffer' = buffer \o Amber!Slice(source, pos, n), UNCHANGED pc
        PROVE  AmberFits'
    <3>1. Len(buffer) \in Nat
      BY DEF AmberInv, AmberTyped
    <3>2. n \in Nat /\ pos + n <= Len(source) /\ pos + n <= MaxLen
      BY <1>1, <3>1 DEF Amber!Minimum, AmberFits
    <3>3. Amber!Slice(source, pos, n) \in Seq(AmberSaved)
      BY <1>1, <3>2, AmberSliceSaved
    <3>4. buffer' \in Seq(AmberSaved)
      BY <2>3, <3>3, ConcatProperties DEF AmberFits
    <3> QED BY <2>1, <2>3, <3>2, <3>4 DEF AmberFits
  <2> QED BY <1>3, <2>2, <2>3 DEF Amber!ExtractRead
<1>4. CASE Amber!ExtractSave
  BY <1>4 DEF Amber!ExtractSave, AmberFits
<1> QED BY <1>2, <1>3, <1>4

LEMMA AmberWipeFits ==
  ASSUME AmberBounds, AmberInv, AmberFits,
         Amber!WipeOpen \/ Amber!WipeChunk \/ Amber!WipePass \/ Amber!WipeEnd
  PROVE  AmberFits'
<1>1. /\ cmd.op = "wipe" /\ cmd.passes <= MaxPasses /\ cmd.passes \in Nat
      /\ Len(source) \in Nat /\ MaxLen \in Nat /\ MaxPasses \in Nat
      /\ pos \in Nat /\ size \in Nat /\ pass \in Nat
  <2>1. cmd.op = "wipe"
    BY DEF Amber!WipeOpen, Amber!WipeChunk, Amber!WipePass, Amber!WipeEnd
  <2>2. cmd \in [op : {"wipe"}, passes : 0 .. MaxPasses, force : BOOLEAN]
    BY <2>1 DEF AmberInv, AmberTyped, Amber!Commands
  <2> QED BY <2>1, <2>2 DEF AmberInv, AmberTyped, AmberBounds
<1>2. CASE Amber!WipeOpen
  BY <1>1, <1>2 DEF Amber!WipeOpen, Amber!MetadataLen, AmberFits
<1>3. CASE Amber!WipeChunk
  <2> DEFINE n == Amber!WipeLength
  <2>1. /\ n \in Nat \ {0} /\ pos + n <= size /\ pos' = pos + n
        /\ source' \in Seq(AmberBytes)
        /\ Len(source') = pos + n \/ (pos + n < Len(source) /\ Len(source') = Len(source))
        /\ \A i \in DOMAIN source' :
             /\ i > pos + n => i \in DOMAIN source
             /\ source'[i] = IF i > pos + n THEN source[i]
                             ELSE IF i > pos THEN Amber!Wiped
                             ELSE IF i <= Len(source) THEN source[i] ELSE "0"
    BY <1>3, AmberChunk
  <2> HIDE DEF n
  <2>2. source \in Seq(AmberTarget) /\ Amber!Wiped \in AmberTarget /\ "0" \in AmberTarget
    BY <1>1 DEF AmberFits, AmberTarget
  <2>3. ASSUME NEW i \in DOMAIN source' PROVE source'[i] \in AmberTarget
    <3>1. i \in Nat /\ i >= 1 /\ (i \in DOMAIN source => source[i] \in AmberTarget)
      BY <2>1, <2>2
    <3>2. i <= Len(source) => i \in DOMAIN source
      BY <2>2, <3>1
    <3> QED BY <2>1, <2>2, <3>1, <3>2
  <2>4. source' \in Seq(AmberTarget)
    BY <2>1, <2>3, AmberSeqOf
  <2>5. Len(source') <= MaxLen /\ pos' <= MaxLen
    BY <1>1, <2>1 DEF AmberFits
  <2>6. UNCHANGED <<dest, cmd, pc, size, pending, buffer, pass, others>>
    BY <1>3 DEF Amber!WipeChunk
  <2> QED BY <1>1, <2>4, <2>5, <2>6 DEF AmberFits
<1>4. CASE Amber!WipePass
  BY <1>1, <1>4 DEF Amber!WipePass, AmberFits
<1>5. CASE Amber!WipeEnd
  BY <1>5 DEF Amber!WipeEnd, AmberFits
<1> QED BY <1>2, <1>3, <1>4, <1>5

LEMMA AmberStepFits ==
  ASSUME AmberBounds, AmberInv, AmberFits, [Amber!Next]_(Amber!vars) PROVE AmberFits'
<1>1. CASE UNCHANGED Amber!vars
  BY <1>1 DEF Amber!vars, AmberFits
<1> QED BY <1>1, AmberOverwriteFits, AmberStopFits, AmberImageFits, AmberExtractFits, AmberWipeFits
        DEF Amber!Next

\* For files, reads, chunks and passes of any number and length: the hash reported is
\* that of the bytes at the destination; of what nobody wrote to, an image is exact unless
\* blocks hold nothing, and so is an extraction; and a wipe of a file that is reported has
\* left no byte of what was there (main.rs:210-274, 349-390, 401-465).
THEOREM AmberBytesReportsAreTrue ==
  ASSUME AmberBounds
  PROVE  Amber!Spec => []Amber!ReportsAreTrue
<1>1. Amber!Init => AmberInv
  BY AmberInitInv
<1>2. AmberInv /\ [Amber!Next]_(Amber!vars) => AmberInv'
  BY AmberStepKeeps
<1>3. AmberInv => Amber!ReportsAreTrue
  BY AmberInvReports
<1> QED BY <1>1, <1>2, <1>3, PTL DEF Amber!Spec

--------------------------------------------------------------------------------
(* The audio engine, for any patch, any blocks and any buffers.            *)

Before == OpToRel(<, Nat)

LEMMA LessIsBefore == \A x, y \in Nat : x < y => <<x, y>> \in Before
  BY DEF Before, OpToRel

LEMMA LeastNumber ==
  ASSUME NEW S \in SUBSET Nat, S # {}
  PROVE  \E n \in S : \A m \in S : n <= m
<1>1. IsWellFoundedOn(Before, Nat)
  BY NatLessThanWellFounded DEF Before
<1>2. PICK n \in S : \A m \in S : ~ (<<m, n>> \in Before)
  BY <1>1, WFMin
<1>3. \A m \in S : ~ (m < n)
  BY <1>2, LessIsBefore
<1> QED BY <1>3

\* What holds of 0 and of the next number up to N holds up to N.
LEMMA Climb ==
  ASSUME NEW top \in Nat, NEW S, 0 \in S, \A n \in 0 .. top : n # top /\ n \in S => n + 1 \in S
  PROVE  \A n \in 0 .. top : n \in S
<1> SUFFICES ASSUME (0 .. top) \ S # {} PROVE FALSE
  OBVIOUS
<1>1. (0 .. top) \ S \in SUBSET Nat
  OBVIOUS
<1>2. PICK n \in (0 .. top) \ S : \A m \in (0 .. top) \ S : n <= m
  BY <1>1, LeastNumber
<1>3. n - 1 \in 0 .. top /\ n - 1 # top /\ n - 1 \in S
  BY <1>2
<1>4. (n - 1) + 1 \in S
  BY <1>3
<1>5. (n - 1) + 1 = n
  BY <1>2
<1> QED BY <1>2, <1>4, <1>5

--------------------------------------------------------------------------------
\* Sums.

SumsOf(s, sum) == sum = [n \in 0 .. Len(s) |-> IF n = 0 THEN 0 ELSE sum[n - 1] + s[n]]

LEMMA SumsExist == ASSUME NEW s \in Seq(Int) PROVE \E sum : SumsOf(s, sum)
<1> DEFINE Up(n, sum) == sum = [m \in 0 .. n |-> IF m = 0 THEN 0 ELSE sum[m - 1] + s[m]]
           S == {n \in Nat : \E sum : Up(n, sum)}
<1>1. 0 \in S
  <2>1. Up(0, [m \in 0 .. 0 |-> 0])
    OBVIOUS
  <2> QED BY <2>1
<1>2. ASSUME NEW n \in 0 .. Len(s), n # Len(s), n \in S PROVE n + 1 \in S
  <2>1. PICK sum : Up(n, sum)
    BY <1>2
  <2> DEFINE more == [m \in 0 .. n + 1 |-> IF m <= n THEN sum[m] ELSE sum[n] + s[m]]
  <2>2. ASSUME NEW m \in 0 .. n + 1
        PROVE  more[m] = IF m = 0 THEN 0 ELSE more[m - 1] + s[m]
    <3>1. CASE m = 0
      BY <2>1, <3>1
    <3>2. CASE m # 0 /\ m <= n
      <4>1. m \in 0 .. n /\ m - 1 \in 0 .. n /\ m - 1 \in 0 .. n + 1
        BY <3>2
      <4>2. sum[m] = sum[m - 1] + s[m]
        BY <2>1, <3>2, <4>1
      <4>3. more[m] = sum[m] /\ more[m - 1] = sum[m - 1]
        BY <4>1
      <4> QED BY <3>2, <4>2, <4>3
    <3>3. CASE m = n + 1
      BY <3>3
    <3> QED BY <3>1, <3>2, <3>3
  <2>3. Up(n + 1, more)
    BY <2>2
  <2> HIDE DEF Up, more
  <2> QED BY <1>2, <2>3
<1>3. Len(s) \in Nat /\ Len(s) \in 0 .. Len(s)
  OBVIOUS
<1> HIDE DEF S
<1>4. \A n \in 0 .. Len(s) : n \in S
  BY <1>1, <1>2, <1>3, Climb
<1>5. Len(s) \in S
  BY <1>3, <1>4
<1> QED BY <1>5 DEF S, SumsOf

LEMMA TotalIs ==
  ASSUME NEW s \in Seq(Int)
  PROVE  \E sum : SumsOf(s, sum) /\ Audio!Total(s) = sum[Len(s)]
<1> DEFINE sum == CHOOSE f : SumsOf(s, f)
<1>1. SumsOf(s, sum)
  BY SumsExist
<1>2. Audio!Total(s) = sum[Len(s)]
  BY DEF Audio!Total, SumsOf
<1> QED BY <1>1, <1>2

\* Sums are numbers, and depend on nothing but what is summed.
LEMMA SumsAgree ==
  ASSUME NEW s \in Seq(Int), NEW t \in Seq(Int), NEW f, NEW g, SumsOf(s, f), SumsOf(t, g),
         Len(s) <= Len(t), \A i \in 1 .. Len(s) : s[i] = t[i]
  PROVE  \A n \in 0 .. Len(s) : f[n] = g[n] /\ f[n] \in Int
<1> DEFINE S == {n \in 0 .. Len(s) : f[n] = g[n] /\ f[n] \in Int}
<1>1. 0 \in S
  BY DEF SumsOf
<1>2. ASSUME NEW n \in 0 .. Len(s), n # Len(s), n \in S PROVE n + 1 \in S
  <2>1. n + 1 \in 0 .. Len(s) /\ n + 1 \in 0 .. Len(t) /\ n + 1 \in 1 .. Len(s) /\ n + 1 # 0
    BY <1>2
  <2>2. f[n + 1] = f[(n + 1) - 1] + s[n + 1] /\ g[n + 1] = g[(n + 1) - 1] + t[n + 1]
    BY <2>1 DEF SumsOf
  <2>3. (n + 1) - 1 = n /\ s[n + 1] \in Int /\ s[n + 1] = t[n + 1]
    BY <2>1
  <2> QED BY <1>2, <2>1, <2>2, <2>3
<1>3. Len(s) \in Nat
  OBVIOUS
<1> HIDE DEF S
<1>4. \A n \in 0 .. Len(s) : n \in S
  BY <1>1, <1>2, <1>3, Climb
<1> QED BY <1>4 DEF S

LEMMA TotalNothing == ASSUME NEW s \in Seq(Int), Len(s) = 0 PROVE Audio!Total(s) = 0
<1>1. PICK f : SumsOf(s, f) /\ Audio!Total(s) = f[0]
  BY TotalIs
<1>2. 0 \in 0 .. Len(s)
  OBVIOUS
<1> QED BY <1>1, <1>2 DEF SumsOf

LEMMA TotalNext ==
  ASSUME NEW s \in Seq(Int), NEW t \in Seq(Int), Len(t) = Len(s) + 1,
         \A i \in 1 .. Len(s) : s[i] = t[i]
  PROVE  Audio!Total(t) = Audio!Total(s) + t[Len(t)]
<1>1. PICK f : SumsOf(s, f) /\ Audio!Total(s) = f[Len(s)]
  BY TotalIs
<1>2. PICK g : SumsOf(t, g) /\ Audio!Total(t) = g[Len(t)]
  BY TotalIs
<1>3. f[Len(s)] = g[Len(s)]
  BY <1>1, <1>2, SumsAgree
<1>4. Len(t) \in 0 .. Len(t) /\ Len(t) # 0 /\ Len(t) - 1 = Len(s)
  OBVIOUS
<1>5. g[Len(t)] = g[Len(t) - 1] + t[Len(t)]
  BY <1>2, <1>4 DEF SumsOf
<1> QED BY <1>1, <1>2, <1>3, <1>4, <1>5

LEMMA TotalIsNumber == ASSUME NEW s \in Seq(Int) PROVE Audio!Total(s) \in Int
<1>1. PICK f : SumsOf(s, f) /\ Audio!Total(s) = f[Len(s)]
  BY TotalIs
<1>2. f[Len(s)] \in Int
  BY <1>1, SumsAgree
<1> QED BY <1>1, <1>2

--------------------------------------------------------------------------------
\* Patches: what they are made of and what they should sound like.

AudioNodes ==
  [type : {"sine"}, frequency : Int, phase : Int]
    \cup [type : {"gain"}, base_gain : Int] \cup [type : {"mixer"}]

\* A block holds a sample, and the nodes are of the three kinds there are, sines
\* with the phase SineOscillator::new gives them.
AudioBounds ==
  /\ BLOCK_SIZE \in Nat \ {0} /\ RingSize \in Nat /\ MAX_INPUTS \in Nat
  /\ Kinds \subseteq AudioNodes /\ \A kind \in Kinds : kind.type = "sine" => kind.phase = 0

AudioPatch ==
  /\ nodes \in Seq(AudioNodes)
  /\ connections \in Seq(Seq(0 .. Len(nodes))) /\ Len(connections) = Len(nodes)

Waves == [Nat -> Int]

\* What each node should sound like.
AudioSounds(snd) ==
  /\ snd \in Seq(Waves) /\ Len(snd) = Len(nodes)
  /\ \A n \in 1 .. Len(nodes) : snd[n] = Audio!Sound(n, snd)

LEMMA HeardIs ==
  ASSUME AudioPatch, NEW n \in 1 .. Len(nodes), NEW p \in Audio!Heard(n)
  PROVE  p \in Nat \ {0} /\ p \in 1 .. Len(connections[n]) /\ connections[n][p] \in 1 .. n - 1
<1>1. connections[n] \in Seq(0 .. Len(nodes))
  BY DEF AudioPatch
<1> QED BY <1>1 DEF Audio!Heard

LEMMA InputCountIs ==
  ASSUME AudioPatch, NEW n \in 1 .. Len(nodes)
  PROVE  /\ Audio!InputCount(n) \in Nat
         /\ \A p \in Audio!Heard(n) : p <= Audio!InputCount(n)
         /\ Audio!InputCount(n) > 0 => Audio!InputCount(n) \in Audio!Heard(n)
<1>1. CASE Audio!Heard(n) = {}
  BY <1>1 DEF Audio!InputCount
<1>2. CASE Audio!Heard(n) # {}
  <2> DEFINE S == {m \in Nat : \A p \in Audio!Heard(n) : p <= m}
  <2>1. Len(connections[n]) \in S
    <3>1. connections[n] \in Seq(0 .. Len(nodes))
      BY DEF AudioPatch
    <3> QED BY <3>1, HeardIs
  <2>2. PICK m \in S : \A l \in S : m <= l
    BY <2>1, LeastNumber
  <2>3. m \in Audio!Heard(n)
    <3> SUFFICES ASSUME m \notin Audio!Heard(n) PROVE FALSE
      OBVIOUS
    <3>1. PICK q \in Audio!Heard(n) : TRUE
      BY <1>2
    <3>2. m - 1 \in Nat
      BY <2>2, <3>1, HeardIs
    <3>3. \A p \in Audio!Heard(n) : p <= m - 1
      BY <2>2, HeardIs
    <3>4. m - 1 \in S
      BY <3>2, <3>3
    <3> QED BY <2>2, <3>4
  <2>4. \E p \in Audio!Heard(n) : \A q \in Audio!Heard(n) : q <= p
    BY <2>2, <2>3
  <2>5. /\ Audio!InputCount(n) \in Audio!Heard(n)
        /\ \A q \in Audio!Heard(n) : q <= Audio!InputCount(n)
    BY <1>2, <2>4 DEF Audio!InputCount
  <2> QED BY <2>5, HeardIs
<1> QED BY <1>1, <1>2

LEMMA SineIs == ASSUME NEW x \in Int PROVE Audio!Sine(x) \in Int
<1>1. x % 4 = 0 \/ x % 4 = 1 \/ x % 4 = 2 \/ x % 4 = 3
  OBVIOUS
<1> QED BY <1>1 DEF Audio!Sine

\* A cycle more or less is not heard.
LEMMA SineRepeats ==
  ASSUME NEW x \in Int, NEW c \in Int PROVE Audio!Sine(x + 4 * c) = Audio!Sine(x)
<1>1. (x + 4 * c) % 4 = x % 4
  OBVIOUS
<1> QED BY <1>1 DEF Audio!Sine

\* The wires into a node carry the sounds of the earlier ones or none.
LEMMA WireIs ==
  ASSUME AudioPatch, NEW n \in 1 .. Len(nodes), NEW e \in Seq(Waves), Len(e) >= n - 1, NEW p
  PROVE  Audio!Wire(n, e, p) \in Waves
<1>1. CASE p \in Audio!Heard(n)
  <2>1. connections[n][p] \in 1 .. Len(e)
    BY <1>1, HeardIs
  <2> QED BY <1>1, <2>1 DEF Audio!Wire
<1>2. CASE p \notin Audio!Heard(n)
  BY <1>2 DEF Audio!Wire, Waves
<1> QED BY <1>1, <1>2

LEMMA ModulationIs ==
  ASSUME AudioPatch, NEW n \in 1 .. Len(nodes), NEW e \in Seq(Waves), Len(e) >= n - 1, NEW t \in Nat
  PROVE  /\ [v \in 1 .. t |-> Audio!Wire(n, e, 1)[v - 1]] \in Seq(Int)
         /\ Len([v \in 1 .. t |-> Audio!Wire(n, e, 1)[v - 1]]) = t
<1>1. Audio!Wire(n, e, 1) \in Waves
  BY WireIs
<1>2. \A v \in 1 .. t : v - 1 \in Nat
  OBVIOUS
<1>3. \A v \in 1 .. t : Audio!Wire(n, e, 1)[v - 1] \in Int
  BY <1>1, <1>2 DEF Waves
<1> QED BY <1>3

LEMMA MixIs ==
  ASSUME AudioPatch, NEW n \in 1 .. Len(nodes), NEW e \in Seq(Waves), Len(e) >= n - 1, NEW t \in Nat
  PROVE  [p \in 1 .. Audio!InputCount(n) |-> Audio!Wire(n, e, p)[t]] \in Seq(Int)
<1>1. \A p \in 1 .. Audio!InputCount(n) : Audio!Wire(n, e, p)[t] \in Int
  BY WireIs DEF Waves
<1> QED BY <1>1, InputCountIs

LEMMA AngleIs ==
  ASSUME AudioPatch, NEW n \in 1 .. Len(nodes), nodes[n].type = "sine",
         NEW e \in Seq(Waves), Len(e) >= n - 1, NEW t \in Nat
  PROVE  Audio!Angle(n, e, t) \in Int
<1>1. nodes[n] \in AudioNodes
  BY DEF AudioPatch
<1>2. nodes[n].frequency \in Int /\ t * nodes[n].frequency \in Int
  BY <1>1 DEF AudioNodes
<1>3. Audio!Total([v \in 1 .. t |-> Audio!Wire(n, e, 1)[v - 1]]) \in Int
  BY ModulationIs, TotalIsNumber
<1> QED BY <1>2, <1>3 DEF Audio!Angle

LEMMA AngleStarts ==
  ASSUME AudioPatch, NEW n \in 1 .. Len(nodes), nodes[n].type = "sine",
         NEW e \in Seq(Waves), Len(e) >= n - 1
  PROVE  Audio!Angle(n, e, 0) = 0
<1>1. nodes[n] \in AudioNodes
  BY DEF AudioPatch
<1>2. nodes[n].frequency \in Int /\ 0 * nodes[n].frequency = 0
  BY <1>1 DEF AudioNodes
<1>3. Audio!Total([v \in 1 .. 0 |-> Audio!Wire(n, e, 1)[v - 1]]) = 0
  BY ModulationIs, TotalNothing
<1> QED BY <1>2, <1>3 DEF Audio!Angle

LEMMA AngleTurns ==
  ASSUME AudioPatch, NEW n \in 1 .. Len(nodes), nodes[n].type = "sine",
         NEW e \in Seq(Waves), Len(e) >= n - 1, NEW t \in Nat
  PROVE  Audio!Angle(n, e, t + 1) = Audio!Angle(n, e, t) + nodes[n].frequency + Audio!Wire(n, e, 1)[t]
<1> DEFINE w == Audio!Wire(n, e, 1)
           s == [v \in 1 .. t |-> w[v - 1]]
           u == [v \in 1 .. t + 1 |-> w[v - 1]]
<1>1. nodes[n] \in AudioNodes
  BY DEF AudioPatch
<1>2. nodes[n].frequency \in Int
  BY <1>1 DEF AudioNodes
<1>3. s \in Seq(Int) /\ Len(s) = t
  BY ModulationIs
<1>4. t + 1 \in Nat
  OBVIOUS
<1>5. u \in Seq(Int) /\ Len(u) = t + 1
  BY <1>4, ModulationIs
<1>6. \A i \in 1 .. t : s[i] = u[i]
  OBVIOUS
<1>7. u[t + 1] = w[t]
  OBVIOUS
<1>8. w[t] \in Int
  BY WireIs DEF Waves
<1>9. Audio!Angle(n, e, t) = t * nodes[n].frequency + Audio!Total(s)
      /\ Audio!Angle(n, e, t + 1) = (t + 1) * nodes[n].frequency + Audio!Total(u)
  BY DEF Audio!Angle
<1> HIDE DEF w, s, u
<1>10. Audio!Total(u) = Audio!Total(s) + w[t]
  BY <1>3, <1>5, <1>6, <1>7, TotalNext
<1>11. Audio!Total(s) \in Int
  BY <1>3, TotalIsNumber
<1>12. (t + 1) * nodes[n].frequency = t * nodes[n].frequency + nodes[n].frequency
       /\ t * nodes[n].frequency \in Int
  BY <1>2
<1>13. Audio!Angle(n, e, t + 1) = Audio!Angle(n, e, t) + nodes[n].frequency + w[t]
  <2> DEFINE q == t * nodes[n].frequency
             r == nodes[n].frequency
             m == Audio!Total(s)
             x == w[t]
  <2>1. q \in Int /\ r \in Int /\ m \in Int /\ x \in Int
    BY <1>2, <1>8, <1>11, <1>12
  <2>2. Audio!Angle(n, e, t + 1) = (q + r) + (m + x) /\ Audio!Angle(n, e, t) = q + m
    BY <1>9, <1>10, <1>12
  <2> HIDE DEF q, r, m, x
  <2>3. Audio!Angle(n, e, t + 1) = Audio!Angle(n, e, t) + r + x
    BY <2>1, <2>2
  <2> QED BY <2>3 DEF r, x
<1> QED BY <1>13 DEF w

LEMMA SoundIs ==
  ASSUME AudioPatch, NEW n \in 1 .. Len(nodes), NEW e \in Seq(Waves), Len(e) >= n - 1
  PROVE  Audio!Sound(n, e) \in Waves
<1> SUFFICES ASSUME NEW t \in Nat PROVE Audio!Sound(n, e)[t] \in Int
  BY DEF Audio!Sound, Waves
<1>1. nodes[n] \in AudioNodes
  BY DEF AudioPatch
<1>2. CASE nodes[n].type = "sine"
  <2>1. Audio!Sine(Audio!Angle(n, e, t)) \in Int
    BY <1>2, AngleIs, SineIs
  <2> QED BY <1>2, <2>1 DEF Audio!Sound
<1>3. CASE nodes[n].type = "gain"
  <2> DEFINE a == Audio!Wire(n, e, 1)[t]
             b == nodes[n].base_gain + IF Audio!InputCount(n) > 1 THEN Audio!Wire(n, e, 2)[t] ELSE 0
  <2>1. a \in Int /\ Audio!Wire(n, e, 2)[t] \in Int
    BY WireIs DEF Waves
  <2>2. nodes[n].base_gain \in Int
    BY <1>1, <1>3 DEF AudioNodes
  <2>3. b \in Int
    BY <2>1, <2>2
  <2>4. Audio!Sound(n, e)[t] = a * b
    BY <1>3 DEF Audio!Sound
  <2> HIDE DEF a, b
  <2> QED BY <2>1, <2>3, <2>4
<1>4. CASE nodes[n].type = "mixer"
  <2>1. Audio!Total([p \in 1 .. Audio!InputCount(n) |-> Audio!Wire(n, e, p)[t]]) \in Int
    BY MixIs, TotalIsNumber
  <2> QED BY <1>4, <2>1 DEF Audio!Sound
<1> QED BY <1>1, <1>2, <1>3, <1>4 DEF AudioNodes

\* A node's sound depends on the earlier ones only.
LEMMA SoundSame ==
  ASSUME AudioPatch, NEW n \in 1 .. Len(nodes), NEW e, NEW f, \A m \in 1 .. n - 1 : e[m] = f[m]
  PROVE  Audio!Sound(n, e) = Audio!Sound(n, f)
<1>1. \A p : Audio!Wire(n, e, p) = Audio!Wire(n, f, p)
  BY HeardIs DEF Audio!Wire
<1>2. ASSUME NEW t \in Nat PROVE Audio!Sound(n, e)[t] = Audio!Sound(n, f)[t]
  <2>1. Audio!Angle(n, e, t) = Audio!Angle(n, f, t)
    <3>1. [v \in 1 .. t |-> Audio!Wire(n, e, 1)[v - 1]] = [v \in 1 .. t |-> Audio!Wire(n, f, 1)[v - 1]]
      BY <1>1
    <3> QED BY <3>1 DEF Audio!Angle
  <2>2. [p \in 1 .. Audio!InputCount(n) |-> Audio!Wire(n, e, p)[t]]
          = [p \in 1 .. Audio!InputCount(n) |-> Audio!Wire(n, f, p)[t]]
    BY <1>1
  <2>3. Audio!Wire(n, e, 1) = Audio!Wire(n, f, 1) /\ Audio!Wire(n, e, 2) = Audio!Wire(n, f, 2)
    BY <1>1
  <2> QED BY <2>1, <2>2, <2>3 DEF Audio!Sound
<1> QED BY <1>2 DEF Audio!Sound

\* There is one way a patch should sound, and its last node is the ideal.
LEMMA SoundsExist ==
  ASSUME AudioPatch
  PROVE  \E snd : AudioSounds(snd) /\ Audio!Ideal = snd[Len(nodes)]
<1> DEFINE top == Len(nodes)
           Up(n, f) == f = [m \in 0 .. n |->
                              IF m = 0 THEN << >> ELSE Append(f[m - 1], Audio!Sound(m, f[m - 1]))]
           S == {n \in Nat : \E f : Up(n, f)}
<1>1. top \in Nat /\ top \in 0 .. top
  BY DEF AudioPatch
<1>2. 0 \in S
  <2>1. Up(0, [m \in 0 .. 0 |-> << >>])
    OBVIOUS
  <2> QED BY <2>1
<1>3. ASSUME NEW n \in 0 .. top, n # top, n \in S PROVE n + 1 \in S
  <2>1. PICK f : Up(n, f)
    BY <1>3
  <2> DEFINE more == [m \in 0 .. n + 1 |-> IF m <= n THEN f[m] ELSE Append(f[n], Audio!Sound(m, f[n]))]
  <2>2. ASSUME NEW m \in 0 .. n + 1
        PROVE  more[m] = IF m = 0 THEN << >> ELSE Append(more[m - 1], Audio!Sound(m, more[m - 1]))
    <3>1. CASE m = 0
      BY <2>1, <3>1
    <3>2. CASE m # 0 /\ m <= n
      <4>1. m \in 0 .. n /\ m - 1 \in 0 .. n /\ m - 1 \in 0 .. n + 1
        BY <3>2
      <4>2. f[m] = Append(f[m - 1], Audio!Sound(m, f[m - 1]))
        BY <2>1, <3>2, <4>1
      <4>3. more[m] = f[m] /\ more[m - 1] = f[m - 1]
        BY <4>1
      <4> QED BY <3>2, <4>2, <4>3
    <3>3. CASE m = n + 1
      <4>1. more[m] = Append(f[n], Audio!Sound(m, f[n])) /\ more[m - 1] = f[n]
        BY <3>3
      <4> QED BY <3>3, <4>1
    <3> QED BY <3>1, <3>2, <3>3
  <2>3. Up(n + 1, more)
    BY <2>2
  <2> HIDE DEF Up, more
  <2> QED BY <1>3, <2>3
<1>4. PICK f : Up(top, f) /\ Audio!Ideal = f[top][top]
  <2> HIDE DEF S
  <2>1. \A n \in 0 .. top : n \in S
    BY <1>1, <1>2, <1>3, Climb
  <2>2. top \in S
    BY <1>1, <2>1
  <2> DEFINE f == CHOOSE g : Up(top, g)
  <2>3. Up(top, f)
    BY <2>2 DEF S
  <2>4. Audio!Ideal = f[top][top]
    BY DEF Audio!Ideal
  <2> HIDE DEF f
  <2> QED BY <2>3, <2>4
<1> DEFINE T == {n \in 0 .. top : /\ f[n] \in Seq(Waves) /\ Len(f[n]) = n
                                  /\ \A m \in 1 .. n : f[n][m] = Audio!Sound(m, f[n])}
<1>5. 0 \in T
  <2>1. f[0] = << >>
    BY <1>1, <1>4
  <2>2. f[0] \in Seq(Waves) /\ Len(f[0]) = 0
    BY <2>1
  <2>3. \A m \in 1 .. 0 : f[0][m] = Audio!Sound(m, f[0])
    OBVIOUS
  <2> HIDE DEF Up
  <2> QED BY <1>1, <2>2, <2>3
<1>6. ASSUME NEW n \in 0 .. top, n # top, n \in T PROVE n + 1 \in T
  <2> DEFINE w == Audio!Sound(n + 1, f[n])
  <2>1. n + 1 \in 0 .. top /\ n + 1 \in 1 .. Len(nodes) /\ n + 1 # 0 /\ (n + 1) - 1 = n
    BY <1>1, <1>6
  <2>2. f[n] \in Seq(Waves) /\ Len(f[n]) = n
        /\ \A m \in 1 .. n : f[n][m] = Audio!Sound(m, f[n])
    BY <1>6
  <2>3. f[n + 1] = Append(f[n], w)
    BY <1>4, <2>1
  <2>4. w \in Waves
    BY <2>1, <2>2, SoundIs
  <2> HIDE DEF w
  <2>5. f[n + 1] \in Seq(Waves) /\ Len(f[n + 1]) = n + 1
        /\ (\A m \in 1 .. n : f[n + 1][m] = f[n][m]) /\ f[n + 1][n + 1] = w
    BY <2>2, <2>3, <2>4
  <2>6. ASSUME NEW m \in 1 .. n + 1 PROVE f[n + 1][m] = Audio!Sound(m, f[n + 1])
    <3>1. m \in 1 .. Len(nodes) /\ \A l \in 1 .. m - 1 : f[n][l] = f[n + 1][l]
      BY <2>1, <2>5
    <3>2. Audio!Sound(m, f[n]) = Audio!Sound(m, f[n + 1])
      BY <3>1, SoundSame
    <3>3. CASE m \in 1 .. n
      BY <2>2, <2>5, <3>2, <3>3
    <3>4. CASE m = n + 1
      BY <2>5, <3>2, <3>4 DEF w
    <3> QED BY <3>3, <3>4
  <2> QED BY <2>1, <2>5, <2>6
<1> HIDE DEF T, Up
<1>7. \A n \in 0 .. top : n \in T
  BY <1>1, <1>5, <1>6, Climb
<1>8. top \in T
  BY <1>1, <1>7
<1>9. AudioSounds(f[top])
  BY <1>8 DEF T, AudioSounds
<1> QED BY <1>4, <1>9

LEMMA SoundsUnique ==
  ASSUME AudioPatch, NEW a, NEW b, AudioSounds(a), AudioSounds(b)
  PROVE  \A n \in 1 .. Len(nodes) : a[n] = b[n]
<1> DEFINE S == {n \in 1 .. Len(nodes) : a[n] # b[n]}
<1> SUFFICES ASSUME S # {} PROVE FALSE
  OBVIOUS
<1>1. S \in SUBSET Nat
  BY DEF AudioPatch
<1>2. PICK n \in S : \A m \in S : n <= m
  BY <1>1, LeastNumber
<1>3. n \in 1 .. Len(nodes) /\ a[n] # b[n] /\ Len(nodes) \in Nat
  BY <1>2 DEF AudioPatch
<1>4. \A m \in 1 .. n - 1 : a[m] = b[m]
  BY <1>2, <1>3
<1>5. Audio!Sound(n, a) = Audio!Sound(n, b)
  BY <1>3, <1>4, SoundSame
<1> QED BY <1>3, <1>5 DEF AudioSounds

LEMMA IdealIs ==
  ASSUME AudioPatch, NEW snd, AudioSounds(snd), nodes # << >>
  PROVE  Audio!Ideal = snd[Len(nodes)]
<1>1. PICK f : AudioSounds(f) /\ Audio!Ideal = f[Len(nodes)]
  BY SoundsExist
<1>2. Len(nodes) \in 1 .. Len(nodes)
  BY DEF AudioPatch
<1> QED BY <1>1, <1>2, SoundsUnique

--------------------------------------------------------------------------------
\* One node over one block.

AudioBlocks == [Audio!Samples -> Int]

\* A node of the engine is the one that was added, but for its phase.
AudioLike(node, n) ==
  /\ node \in AudioNodes /\ node.type = nodes[n].type
  /\ node.type = "sine" => node.frequency = nodes[n].frequency
  /\ node.type = "gain" => node.base_gain = nodes[n].base_gain

\* Cycles aside, its phase is where it should be at time t.
AudioInPhase(node, n, snd, t) ==
  node.type = "sine" => \E c \in Int : node.phase = Audio!Angle(n, snd, t) + 4 * c

\* A block holds the sound of a node from time t on.
AudioHolds(block, n, snd, t) ==
  block \in AudioBlocks /\ \A i \in Audio!Samples : block[i] = snd[n][t + i]

\* The inputs of a node carry what comes over its wires from time t on.
AudioFeeds(inputs, n, snd, t) ==
  /\ inputs \in Seq(AudioBlocks) /\ Len(inputs) = Audio!InputCount(n)
  /\ \A p \in 1 .. Len(inputs), i \in Audio!Samples : inputs[p][i] = Audio!Wire(n, snd, p)[t + i]

LEMMA InputsAre ==
  ASSUME AudioBounds, AudioPatch, NEW snd, AudioSounds(snd), NEW n \in 1 .. Len(nodes), NEW t \in Nat,
         NEW outs, \A m \in 1 .. n - 1 : AudioHolds(outs[m], m, snd, t)
  PROVE  AudioFeeds(Audio!Inputs(n, outs), n, snd, t)
<1> DEFINE inputs == Audio!Inputs(n, outs)
<1>1. Audio!InputCount(n) \in Nat
  BY InputCountIs
<1>2. ASSUME NEW p \in 1 .. Audio!InputCount(n)
      PROVE  /\ inputs[p] \in AudioBlocks
             /\ \A i \in Audio!Samples : inputs[p][i] = Audio!Wire(n, snd, p)[t + i]
  <2>1. CASE p \in Audio!Heard(n)
    <3>1. inputs[p] = outs[connections[n][p]] /\ Audio!Wire(n, snd, p) = snd[connections[n][p]]
      BY <2>1 DEF Audio!Inputs, Audio!Wire
    <3>2. connections[n][p] \in 1 .. n - 1
      BY <2>1, HeardIs
    <3> QED BY <3>1, <3>2 DEF AudioHolds
  <2>2. CASE p \notin Audio!Heard(n)
    <3>1. inputs[p] = Audio!silence /\ Audio!Wire(n, snd, p) = [u \in Nat |-> 0]
      BY <2>2 DEF Audio!Inputs, Audio!Wire
    <3>2. \A i \in Audio!Samples : t + i \in Nat
      BY DEF Audio!Samples, AudioBounds
    <3> QED BY <3>1, <3>2 DEF Audio!silence, AudioBlocks
  <2> QED BY <2>1, <2>2
<1>3. inputs = [p \in 1 .. Audio!InputCount(n) |-> inputs[p]]
  BY DEF Audio!Inputs
<1> HIDE DEF inputs
<1>4. inputs \in Seq(AudioBlocks) /\ Len(inputs) = Audio!InputCount(n)
  BY <1>1, <1>2, <1>3
<1> QED BY <1>2, <1>4 DEF inputs, AudioFeeds

LEMMA WrapIs ==
  ASSUME NEW x \in Int
  PROVE  Audio!Wrap(x) \in Int /\ \E c \in Int : Audio!Wrap(x) = x + 4 * c
<1>1. CASE x >= 4
  <2>1. Audio!Wrap(x) = x + 4 * (-1)
    BY <1>1 DEF Audio!Wrap
  <2> QED BY <2>1
<1>2. CASE x < 0
  <2>1. Audio!Wrap(x) = x + 4 * 1
    BY <1>2 DEF Audio!Wrap
  <2> QED BY <2>1
<1>3. CASE ~ (x >= 4) /\ ~ (x < 0)
  <2>1. Audio!Wrap(x) = x + 4 * 0
    BY <1>3 DEF Audio!Wrap
  <2> QED BY <2>1
<1> QED BY <1>1, <1>2, <1>3

PhasesOf(node, inputs, phase) ==
  phase = [i \in 0 .. BLOCK_SIZE |->
             IF i = 0 THEN node.phase
             ELSE Audio!Wrap(phase[i - 1] + node.frequency
                               + IF inputs = << >> THEN 0 ELSE inputs[1][i - 1])]

LEMMA PhasesExist ==
  ASSUME AudioBounds, NEW node, NEW inputs
  PROVE  PhasesOf(node, inputs, Audio!Phases(node, inputs))
<1> DEFINE Step(i, x) == Audio!Wrap(x + node.frequency + IF inputs = << >> THEN 0 ELSE inputs[1][i - 1])
           Up(n, f) == f = [i \in 0 .. n |-> IF i = 0 THEN node.phase ELSE Step(i, f[i - 1])]
           S == {n \in Nat : \E f : Up(n, f)}
<1>1. BLOCK_SIZE \in Nat /\ BLOCK_SIZE \in 0 .. BLOCK_SIZE
  BY DEF AudioBounds
<1>2. 0 \in S
  <2>1. Up(0, [m \in 0 .. 0 |-> node.phase])
    OBVIOUS
  <2> QED BY <2>1
<1>3. ASSUME NEW n \in 0 .. BLOCK_SIZE, n # BLOCK_SIZE, n \in S PROVE n + 1 \in S
  <2> HIDE DEF Step
  <2>1. PICK f : Up(n, f)
    BY <1>3
  <2> DEFINE more == [m \in 0 .. n + 1 |-> IF m <= n THEN f[m] ELSE Step(m, f[n])]
  <2>2. ASSUME NEW m \in 0 .. n + 1
        PROVE  more[m] = IF m = 0 THEN node.phase ELSE Step(m, more[m - 1])
    <3>1. CASE m = 0
      BY <2>1, <3>1
    <3>2. CASE m # 0 /\ m <= n
      <4>1. m \in 0 .. n /\ m - 1 \in 0 .. n /\ m - 1 \in 0 .. n + 1
        BY <3>2
      <4>2. f[m] = Step(m, f[m - 1])
        BY <2>1, <3>2, <4>1
      <4>3. more[m] = f[m] /\ more[m - 1] = f[m - 1]
        BY <4>1
      <4> QED BY <3>2, <4>2, <4>3
    <3>3. CASE m = n + 1
      <4>1. more[m] = Step(m, f[n]) /\ more[m - 1] = f[n]
        BY <3>3
      <4> QED BY <3>3, <4>1
    <3> QED BY <3>1, <3>2, <3>3
  <2>3. Up(n + 1, more)
    BY <2>2
  <2> HIDE DEF Up, more
  <2> QED BY <1>3, <2>3
<1>4. \E f : PhasesOf(node, inputs, f)
  <2> HIDE DEF S
  <2>1. \A n \in 0 .. BLOCK_SIZE : n \in S
    BY <1>1, <1>2, <1>3, Climb
  <2>2. BLOCK_SIZE \in S
    BY <1>1, <2>1
  <2> QED BY <2>2 DEF S, PhasesOf
<1>5. Audio!Phases(node, inputs) = CHOOSE f : PhasesOf(node, inputs, f)
  BY DEF Audio!Phases, PhasesOf
<1> QED BY <1>4, <1>5

\* What drives an oscillator in the block is what comes over its first wire.
LEMMA TurnIs ==
  ASSUME AudioBounds, AudioPatch, NEW snd, AudioSounds(snd), NEW n \in 1 .. Len(nodes), NEW t \in Nat,
         NEW inputs, AudioFeeds(inputs, n, snd, t), NEW i \in Audio!Samples
  PROVE  (IF inputs = << >> THEN 0 ELSE inputs[1][i]) = Audio!Wire(n, snd, 1)[t + i]
<1> USE DEF AudioFeeds
<1>1. CASE inputs = << >>
  <2>1. Audio!InputCount(n) = 0
    BY <1>1
  <2>2. 1 \notin Audio!Heard(n)
    BY <2>1, InputCountIs
  <2>3. t + i \in Nat
    BY DEF Audio!Samples, AudioBounds
  <2> QED BY <1>1, <2>2, <2>3 DEF Audio!Wire
<1>2. CASE inputs # << >>
  <2>1. 1 \in 1 .. Len(inputs)
    BY <1>2
  <2> QED BY <1>2, <2>1
<1> QED BY <1>1, <1>2

LEMMA PhasesAre ==
  ASSUME AudioBounds, AudioPatch, NEW snd, AudioSounds(snd), NEW n \in 1 .. Len(nodes), NEW t \in Nat,
         NEW inputs, AudioFeeds(inputs, n, snd, t), NEW node, AudioLike(node, n), node.type = "sine", AudioInPhase(node, n, snd, t)
  PROVE  \A i \in 0 .. BLOCK_SIZE :
           \E c \in Int : Audio!Phases(node, inputs)[i] = Audio!Angle(n, snd, t + i) + 4 * c
<1> DEFINE phase == Audio!Phases(node, inputs)
           S == {i \in 0 .. BLOCK_SIZE : \E c \in Int : phase[i] = Audio!Angle(n, snd, t + i) + 4 * c}
<1>1. BLOCK_SIZE \in Nat \ {0}
  BY DEF AudioBounds
<1>2. PhasesOf(node, inputs, phase)
  BY PhasesExist
<1>3. snd \in Seq(Waves) /\ Len(snd) >= n - 1 /\ nodes[n].type = "sine"
  BY DEF AudioSounds, AudioLike, AudioPatch
<1>4. node.frequency = nodes[n].frequency /\ node.frequency \in Int
  BY DEF AudioLike, AudioNodes
<1> HIDE DEF phase
<1>5. 0 \in S
  <2>1. phase[0] = node.phase /\ t + 0 = t /\ 0 \in 0 .. BLOCK_SIZE
    BY <1>1, <1>2 DEF PhasesOf
  <2>2. \E c \in Int : node.phase = Audio!Angle(n, snd, t) + 4 * c
    BY DEF AudioInPhase
  <2> QED BY <2>1, <2>2
<1>6. ASSUME NEW i \in 0 .. BLOCK_SIZE, i # BLOCK_SIZE, i \in S PROVE i + 1 \in S
  <2>1. i \in Audio!Samples /\ i + 1 \in 0 .. BLOCK_SIZE /\ i + 1 # 0 /\ (i + 1) - 1 = i
        /\ t + i \in Nat /\ t + (i + 1) = (t + i) + 1
    BY <1>1, <1>6 DEF Audio!Samples
  <2> DEFINE a == Audio!Angle(n, snd, t + i)
             r == node.frequency
             m == IF inputs = << >> THEN 0 ELSE inputs[1][i]
  <2>2. m = Audio!Wire(n, snd, 1)[t + i]
    BY <2>1, TurnIs
  <2>3. Audio!Wire(n, snd, 1)[t + i] \in Int
    BY <1>3, <2>1, WireIs DEF Waves
  <2>4. a \in Int
    BY <1>3, <2>1, AngleIs
  <2>5. Audio!Angle(n, snd, t + (i + 1)) = a + r + m
    BY <1>3, <1>4, <2>1, <2>2, AngleTurns
  <2>6. PICK c \in Int : phase[i] = a + 4 * c
    BY <1>6
  <2>7. phase[i + 1] = Audio!Wrap(phase[i] + r + m)
    BY <1>2, <2>1 DEF PhasesOf
  <2> HIDE DEF a, r, m
  <2>8. r \in Int /\ m \in Int
    BY <1>4, <2>2, <2>3 DEF r
  <2>9. phase[i] + r + m \in Int
    BY <2>4, <2>6, <2>8
  <2>10. PICK d \in Int : Audio!Wrap(phase[i] + r + m) = (phase[i] + r + m) + 4 * d
    BY <2>9, WrapIs
  <2>11. phase[i + 1] = (a + r + m) + 4 * (c + d) /\ c + d \in Int
    BY <2>4, <2>6, <2>7, <2>8, <2>10
  <2> QED BY <2>1, <2>5, <2>11
<1> HIDE DEF S
<1>7. \A i \in 0 .. BLOCK_SIZE : i \in S
  BY <1>1, <1>5, <1>6, Climb
<1> QED BY <1>7 DEF S, phase

LEMMA SineHolds ==
  ASSUME AudioBounds, AudioPatch, NEW snd, AudioSounds(snd), NEW n \in 1 .. Len(nodes), NEW t \in Nat,
         NEW inputs, AudioFeeds(inputs, n, snd, t),
         NEW node, AudioLike(node, n), node.type = "sine", AudioInPhase(node, n, snd, t)
  PROVE  /\ AudioHolds(Audio!SineBlock(node, inputs), n, snd, t)
         /\ AudioLike([node EXCEPT !.phase = Audio!Phases(node, inputs)[BLOCK_SIZE]], n)
         /\ AudioInPhase([node EXCEPT !.phase = Audio!Phases(node, inputs)[BLOCK_SIZE]], n, snd, t + BLOCK_SIZE)
<1> DEFINE phase == Audio!Phases(node, inputs)
           next == [node EXCEPT !.phase = phase[BLOCK_SIZE]]
<1>1. BLOCK_SIZE \in Nat \ {0}
  BY DEF AudioBounds
<1>2. snd \in Seq(Waves) /\ Len(snd) >= n - 1 /\ nodes[n].type = "sine" /\ snd[n] = Audio!Sound(n, snd)
  BY DEF AudioSounds, AudioLike, AudioPatch
<1>3. \A i \in 0 .. BLOCK_SIZE : \E c \in Int : phase[i] = Audio!Angle(n, snd, t + i) + 4 * c
  BY PhasesAre
<1>4. \A i \in 0 .. BLOCK_SIZE : Audio!Angle(n, snd, t + i) \in Int
  <2>1. \A i \in 0 .. BLOCK_SIZE : t + i \in Nat
    BY <1>1
  <2> QED BY <1>2, <2>1, AngleIs
<1> HIDE DEF phase
<1>5. ASSUME NEW i \in Audio!Samples
      PROVE  Audio!Sine(phase[i]) = snd[n][t + i] /\ Audio!Sine(phase[i]) \in Int
  <2>1. i \in 0 .. BLOCK_SIZE /\ t + i \in Nat
    BY <1>1 DEF Audio!Samples
  <2>2. PICK c \in Int : phase[i] = Audio!Angle(n, snd, t + i) + 4 * c
    BY <1>3, <2>1
  <2>3. Audio!Angle(n, snd, t + i) \in Int
    BY <1>4, <2>1
  <2>4. Audio!Sine(phase[i]) = Audio!Sine(Audio!Angle(n, snd, t + i))
    BY <2>2, <2>3, SineRepeats
  <2>5. snd[n][t + i] = Audio!Sine(Audio!Angle(n, snd, t + i))
    BY <1>2, <2>1 DEF Audio!Sound
  <2> QED BY <2>3, <2>4, <2>5, SineIs
<1>6. Audio!SineBlock(node, inputs) = [i \in Audio!Samples |-> Audio!Sine(phase[i])]
  BY DEF Audio!SineBlock, phase
<1>7. AudioHolds(Audio!SineBlock(node, inputs), n, snd, t)
  BY <1>5, <1>6 DEF AudioHolds, AudioBlocks
<1>8. PICK c \in Int : phase[BLOCK_SIZE] = Audio!Angle(n, snd, t + BLOCK_SIZE) + 4 * c
  BY <1>1, <1>3
<1>9. phase[BLOCK_SIZE] \in Int
  BY <1>1, <1>4, <1>8
<1>10. node \in [type : {"sine"}, frequency : Int, phase : Int]
  BY DEF AudioLike, AudioNodes
<1>11. AudioLike(next, n)
  BY <1>9, <1>10 DEF AudioLike, AudioNodes
<1>12. next.phase = phase[BLOCK_SIZE]
  BY <1>10
<1>13. AudioInPhase(next, n, snd, t + BLOCK_SIZE)
  BY <1>8, <1>12 DEF AudioInPhase
<1> QED BY <1>7, <1>11, <1>13 DEF phase

LEMMA GainHolds ==
  ASSUME AudioBounds, AudioPatch, NEW snd, AudioSounds(snd), NEW n \in 1 .. Len(nodes), NEW t \in Nat,
         NEW inputs, AudioFeeds(inputs, n, snd, t), NEW node, AudioLike(node, n), node.type = "gain"
  PROVE  AudioHolds(Audio!GainBlock(node, inputs), n, snd, t)
<1> DEFINE count == Audio!InputCount(n)
           one == Audio!Wire(n, snd, 1)
           two == Audio!Wire(n, snd, 2)
           gain == node.base_gain
<1>1. count \in Nat /\ Len(inputs) = count /\ inputs \in Seq(AudioBlocks)
  BY InputCountIs DEF AudioFeeds
<1>2. snd \in Seq(Waves) /\ Len(snd) >= n - 1 /\ nodes[n].type = "gain" /\ snd[n] = Audio!Sound(n, snd)
      /\ nodes[n].base_gain = gain /\ gain \in Int
  BY DEF AudioSounds, AudioLike, AudioPatch, AudioNodes
<1>3. one \in Waves /\ two \in Waves
  BY <1>2, WireIs
<1>4. ASSUME NEW i \in Audio!Samples
      PROVE  /\ t + i \in Nat /\ one[t + i] \in Int /\ two[t + i] \in Int
             /\ snd[n][t + i] = one[t + i] * (gain + IF count > 1 THEN two[t + i] ELSE 0)
             /\ count >= 1 => inputs[1][i] = one[t + i]
             /\ count >= 2 => inputs[2][i] = two[t + i]
             /\ count = 0 => one[t + i] = 0
  <2>1. t + i \in Nat
    BY DEF Audio!Samples, AudioBounds
  <2>2. one[t + i] \in Int /\ two[t + i] \in Int
    BY <1>3, <2>1 DEF Waves
  <2>3. snd[n][t + i] = one[t + i] * (gain + IF count > 1 THEN two[t + i] ELSE 0)
    BY <1>2, <2>1 DEF Audio!Sound
  <2>4. \A p \in 1 .. count : inputs[p][i] = Audio!Wire(n, snd, p)[t + i]
    BY <1>1 DEF AudioFeeds
  <2>5. ASSUME count = 0 PROVE one[t + i] = 0
    <3>1. 1 \notin Audio!Heard(n)
      BY <2>5, InputCountIs
    <3> QED BY <2>1, <3>1 DEF Audio!Wire
  <2> HIDE DEF count
  <2> QED BY <1>1, <2>1, <2>2, <2>3, <2>4, <2>5
<1> DEFINE out == Audio!GainBlock(node, inputs)
<1> HIDE DEF count, one, two
<1>5. CASE count = 0
  <2>1. out = [i \in Audio!Samples |-> 0]
    BY <1>1, <1>5 DEF Audio!GainBlock, Audio!silence
  <2> HIDE DEF out, gain
  <2>2. \A i \in Audio!Samples : snd[n][t + i] = 0
    BY <1>2, <1>4, <1>5
  <2>3. AudioHolds(out, n, snd, t)
    BY <2>1, <2>2 DEF AudioHolds, AudioBlocks
  <2> QED BY <2>3 DEF out
<1>6. CASE count = 1
  <2>1. out = [i \in Audio!Samples |-> inputs[1][i] * gain]
    BY <1>1, <1>6 DEF Audio!GainBlock
  <2> HIDE DEF out, gain
  <2>2. ASSUME NEW i \in Audio!Samples PROVE out[i] = snd[n][t + i] /\ out[i] \in Int
    <3>1. out[i] = one[t + i] * gain
      BY <1>4, <1>6, <2>1
    <3>2. snd[n][t + i] = one[t + i] * (gain + 0)
      BY <1>4, <1>6
    <3>3. gain + 0 = gain
      BY <1>2
    <3> QED BY <1>2, <1>4, <3>1, <3>2, <3>3
  <2>3. AudioHolds(out, n, snd, t)
    BY <2>1, <2>2 DEF AudioHolds, AudioBlocks
  <2> QED BY <2>3 DEF out
<1>7. CASE count > 1
  <2>1. out = [i \in Audio!Samples |-> inputs[1][i] * (gain + inputs[2][i])]
    BY <1>1, <1>7 DEF Audio!GainBlock
  <2> HIDE DEF out, gain
  <2>2. ASSUME NEW i \in Audio!Samples PROVE out[i] = snd[n][t + i] /\ out[i] \in Int
    <3>1. out[i] = one[t + i] * (gain + two[t + i])
      BY <1>1, <1>4, <1>7, <2>1
    <3>2. snd[n][t + i] = one[t + i] * (gain + two[t + i])
      BY <1>4, <1>7
    <3>3. gain + two[t + i] \in Int
      BY <1>2, <1>4
    <3> QED BY <1>4, <3>1, <3>2, <3>3
  <2>3. AudioHolds(out, n, snd, t)
    BY <2>1, <2>2 DEF AudioHolds, AudioBlocks
  <2> QED BY <2>3 DEF out
<1> QED BY <1>1, <1>5, <1>6, <1>7

LEMMA MixerHolds ==
  ASSUME AudioBounds, AudioPatch, NEW snd, AudioSounds(snd), NEW n \in 1 .. Len(nodes), NEW t \in Nat,
         NEW inputs, AudioFeeds(inputs, n, snd, t), NEW node, AudioLike(node, n), node.type = "mixer"
  PROVE  AudioHolds(Audio!MixerBlock(inputs), n, snd, t)
<1>1. snd \in Seq(Waves) /\ Len(snd) >= n - 1 /\ nodes[n].type = "mixer" /\ snd[n] = Audio!Sound(n, snd)
  BY DEF AudioSounds, AudioLike, AudioPatch
<1>2. DOMAIN inputs = 1 .. Audio!InputCount(n) /\ Len(inputs) = Audio!InputCount(n)
  BY InputCountIs DEF AudioFeeds
<1>3. ASSUME NEW i \in Audio!Samples
      PROVE  Audio!MixerBlock(inputs)[i] = snd[n][t + i] /\ snd[n][t + i] \in Int
  <2>1. t + i \in Nat
    BY DEF Audio!Samples, AudioBounds
  <2>2. [p \in DOMAIN inputs |-> inputs[p][i]]
          = [p \in 1 .. Audio!InputCount(n) |-> Audio!Wire(n, snd, p)[t + i]]
    BY <1>2 DEF AudioFeeds
  <2>3. snd[n][t + i] = Audio!Total([p \in 1 .. Audio!InputCount(n) |-> Audio!Wire(n, snd, p)[t + i]])
    BY <1>1, <2>1 DEF Audio!Sound
  <2>4. Audio!MixerBlock(inputs)[i] = Audio!Total([p \in DOMAIN inputs |-> inputs[p][i]])
    BY DEF Audio!MixerBlock
  <2>5. Audio!Total([p \in 1 .. Audio!InputCount(n) |-> Audio!Wire(n, snd, p)[t + i]]) \in Int
    BY <1>1, <2>1, MixIs, TotalIsNumber
  <2> QED BY <2>2, <2>3, <2>4, <2>5
<1>4. Audio!MixerBlock(inputs) = [i \in Audio!Samples |-> Audio!MixerBlock(inputs)[i]]
  BY DEF Audio!MixerBlock
<1> QED BY <1>3, <1>4 DEF AudioHolds, AudioBlocks

\* A node that is given the sounds of the earlier ones produces its own, and its
\* phase is ready for the next block.
LEMMA ProcessedHolds ==
  ASSUME AudioBounds, AudioPatch, NEW snd, AudioSounds(snd), NEW n \in 1 .. Len(nodes), NEW t \in Nat,
         NEW inputs, AudioFeeds(inputs, n, snd, t),
         NEW node, AudioLike(node, n), AudioInPhase(node, n, snd, t)
  PROVE  LET done == Audio!Processed(node, inputs)
         IN  /\ AudioHolds(done.out, n, snd, t) /\ AudioLike(done.node, n)
             /\ AudioInPhase(done.node, n, snd, t + BLOCK_SIZE)
<1> DEFINE done == Audio!Processed(node, inputs)
<1>1. CASE node.type = "sine"
  <2>1. /\ done.out = Audio!SineBlock(node, inputs)
        /\ done.node = [node EXCEPT !.phase = Audio!Phases(node, inputs)[BLOCK_SIZE]]
    BY <1>1 DEF Audio!Processed
  <2> HIDE DEF done
  <2>2. /\ AudioHolds(done.out, n, snd, t) /\ AudioLike(done.node, n)
        /\ AudioInPhase(done.node, n, snd, t + BLOCK_SIZE)
    BY <1>1, <2>1, SineHolds
  <2> QED BY <2>2 DEF done
<1>2. CASE node.type = "gain"
  <2>1. done.out = Audio!GainBlock(node, inputs) /\ done.node = node
    BY <1>2 DEF Audio!Processed
  <2> HIDE DEF done
  <2>2. AudioHolds(done.out, n, snd, t)
    BY <1>2, <2>1, GainHolds
  <2>3. AudioInPhase(done.node, n, snd, t + BLOCK_SIZE)
    BY <1>2, <2>1 DEF AudioInPhase
  <2> QED BY <2>1, <2>2, <2>3 DEF done
<1>3. CASE node.type = "mixer"
  <2>1. done.out = Audio!MixerBlock(inputs) /\ done.node = node
    BY <1>3 DEF Audio!Processed
  <2> HIDE DEF done
  <2>2. AudioHolds(done.out, n, snd, t)
    BY <1>3, <2>1, MixerHolds
  <2>3. AudioInPhase(done.node, n, snd, t + BLOCK_SIZE)
    BY <1>3, <2>1 DEF AudioInPhase
  <2> QED BY <2>1, <2>2, <2>3 DEF done
<1>4. node.type \in {"sine", "gain", "mixer"}
  BY DEF AudioLike, AudioNodes
<1> QED BY <1>1, <1>2, <1>3, <1>4

--------------------------------------------------------------------------------
\* All nodes over one block.

EngineType ==
  [nodes : Seq(AudioNodes), outputs : Seq(AudioBlocks), block : AudioBlocks, offset : Nat,
   ring : 0 .. RingSize, speaker : Seq(Int), first : BOOLEAN]

\* An engine whose first id nodes have produced their blocks from time t on.
AudioRendered(v, id, snd, t) ==
  /\ v \in EngineType /\ Len(v.nodes) = Len(nodes) /\ Len(v.outputs) = Len(nodes)
  /\ \A n \in 1 .. Len(nodes) :
       /\ AudioLike(v.nodes[n], n)
       /\ n <= id => /\ AudioHolds(v.outputs[n], n, snd, t)
                     /\ AudioInPhase(v.nodes[n], n, snd, t + BLOCK_SIZE)
       /\ n > id => AudioInPhase(v.nodes[n], n, snd, t)

AudioVisit(id, before) ==
  LET done == Audio!Processed(before.nodes[id], Audio!Inputs(id, before.outputs))
  IN [before EXCEPT !.nodes[id] = done.node, !.outputs[id] = done.out]

LEMMA VisitRenders ==
  ASSUME AudioBounds, AudioPatch, NEW snd, AudioSounds(snd), NEW t \in Nat,
         NEW id \in 1 .. Len(nodes), NEW v, AudioRendered(v, id - 1, snd, t)
  PROVE  /\ AudioRendered(AudioVisit(id, v), id, snd, t)
         /\ AudioVisit(id, v).speaker = v.speaker
<1> DEFINE node == v.nodes[id]
           inputs == Audio!Inputs(id, v.outputs)
           done == Audio!Processed(node, inputs)
           w == AudioVisit(id, v)
<1>1. id \in Nat /\ Len(nodes) \in Nat /\ id - 1 \in Nat
  BY DEF AudioPatch
<1>2. AudioLike(node, id) /\ AudioInPhase(node, id, snd, t)
  BY <1>1 DEF AudioRendered
<1>3. AudioFeeds(inputs, id, snd, t)
  <2>1. \A m \in 1 .. id - 1 : AudioHolds(v.outputs[m], m, snd, t)
    BY <1>1 DEF AudioRendered
  <2> QED BY <2>1, InputsAre
<1>4. /\ AudioHolds(done.out, id, snd, t) /\ AudioLike(done.node, id)
      /\ AudioInPhase(done.node, id, snd, t + BLOCK_SIZE)
  BY <1>2, <1>3, ProcessedHolds
<1>5. w = [v EXCEPT !.nodes[id] = done.node, !.outputs[id] = done.out]
  BY DEF AudioVisit
<1> HIDE DEF node, inputs, done, w
<1>6. done.node \in AudioNodes /\ done.out \in AudioBlocks
  BY <1>4 DEF AudioLike, AudioHolds
<1>7. /\ v \in EngineType /\ Len(v.nodes) = Len(nodes) /\ Len(v.outputs) = Len(nodes)
      /\ v.nodes \in Seq(AudioNodes) /\ v.outputs \in Seq(AudioBlocks)
  BY DEF AudioRendered, EngineType
<1>8. /\ w.nodes = [v.nodes EXCEPT ![id] = done.node] /\ w.outputs = [v.outputs EXCEPT ![id] = done.out]
      /\ w.block = v.block /\ w.offset = v.offset /\ w.ring = v.ring /\ w.speaker = v.speaker
      /\ w.first = v.first
  BY <1>5, <1>7 DEF EngineType
<1>9. /\ w.nodes \in Seq(AudioNodes) /\ Len(w.nodes) = Len(nodes)
      /\ w.outputs \in Seq(AudioBlocks) /\ Len(w.outputs) = Len(nodes)
      /\ w.nodes[id] = done.node /\ w.outputs[id] = done.out
      /\ \A n \in 1 .. Len(nodes) :
           n # id => w.nodes[n] = v.nodes[n] /\ w.outputs[n] = v.outputs[n]
  BY <1>6, <1>7, <1>8
<1>10. w \in EngineType
  BY <1>5, <1>6, <1>7, <1>8, <1>9 DEF EngineType
<1>11. ASSUME NEW n \in 1 .. Len(nodes)
       PROVE  /\ AudioLike(w.nodes[n], n)
              /\ n <= id => /\ AudioHolds(w.outputs[n], n, snd, t)
                            /\ AudioInPhase(w.nodes[n], n, snd, t + BLOCK_SIZE)
              /\ n > id => AudioInPhase(w.nodes[n], n, snd, t)
  <2>1. CASE n = id
    BY <1>1, <1>4, <1>9, <2>1
  <2>2. CASE n # id
    <3>1. w.nodes[n] = v.nodes[n] /\ w.outputs[n] = v.outputs[n]
      BY <1>9, <2>2
    <3>2. (n <= id => n <= id - 1) /\ (n > id => n > id - 1)
      BY <1>1, <2>2
    <3> QED BY <3>1, <3>2 DEF AudioRendered
  <2> QED BY <2>1, <2>2
<1>12. AudioRendered(w, id, snd, t)
  BY <1>9, <1>10, <1>11 DEF AudioRendered
<1> QED BY <1>8, <1>12 DEF w

PassOf(s, after) ==
  after = [id \in 0 .. Len(s.nodes) |-> IF id = 0 THEN s ELSE AudioVisit(id, after[id - 1])]

LEMMA PassExists == ASSUME NEW s, Len(s.nodes) \in Nat PROVE \E after : PassOf(s, after)
<1> DEFINE top == Len(s.nodes)
           Up(n, f) == f = [id \in 0 .. n |-> IF id = 0 THEN s ELSE AudioVisit(id, f[id - 1])]
           S == {n \in Nat : \E f : Up(n, f)}
<1>1. top \in Nat /\ top \in 0 .. top
  OBVIOUS
<1>2. 0 \in S
  <2>1. Up(0, [m \in 0 .. 0 |-> s])
    OBVIOUS
  <2> QED BY <2>1
<1>3. ASSUME NEW n \in 0 .. top, n # top, n \in S PROVE n + 1 \in S
  <2>1. PICK f : Up(n, f)
    BY <1>3
  <2> DEFINE more == [m \in 0 .. n + 1 |-> IF m <= n THEN f[m] ELSE AudioVisit(m, f[n])]
  <2>2. ASSUME NEW m \in 0 .. n + 1
        PROVE  more[m] = IF m = 0 THEN s ELSE AudioVisit(m, more[m - 1])
    <3>1. CASE m = 0
      BY <2>1, <3>1
    <3>2. CASE m # 0 /\ m <= n
      <4>1. m \in 0 .. n /\ m - 1 \in 0 .. n /\ m - 1 \in 0 .. n + 1
        BY <3>2
      <4>2. f[m] = AudioVisit(m, f[m - 1])
        BY <2>1, <3>2, <4>1
      <4>3. more[m] = f[m] /\ more[m - 1] = f[m - 1]
        BY <4>1
      <4> QED BY <3>2, <4>2, <4>3
    <3>3. CASE m = n + 1
      <4>1. more[m] = AudioVisit(m, f[n]) /\ more[m - 1] = f[n]
        BY <3>3
      <4> QED BY <3>3, <4>1
    <3> QED BY <3>1, <3>2, <3>3
  <2>3. Up(n + 1, more)
    BY <2>2
  <2> HIDE DEF Up, more
  <2> QED BY <1>3, <2>3
<1> HIDE DEF S
<1>4. \A n \in 0 .. top : n \in S
  BY <1>1, <1>2, <1>3, Climb
<1>5. top \in S
  BY <1>1, <1>4
<1> QED BY <1>5 DEF S, PassOf

\* A block of the whole patch.
LEMMA ProcessRenders ==
  ASSUME AudioBounds, AudioPatch, NEW snd, AudioSounds(snd), NEW t \in Nat,
         NEW s, AudioRendered(s, 0, snd, t)
  PROVE  LET p == Audio!Process(s)
         IN  /\ AudioRendered(p, Len(nodes), snd, t)
             /\ p.speaker = s.speaker /\ p.offset = 0
             /\ nodes # << >> => AudioHolds(p.block, Len(nodes), snd, t)
<1> DEFINE top == Len(nodes)
           after == CHOOSE f : PassOf(s, f)
           end == after[Len(s.nodes)]
           p == Audio!Process(s)
<1>1. /\ top \in Nat /\ top \in 0 .. top /\ Len(s.nodes) = top /\ s.nodes \in Seq(AudioNodes)
      /\ s \in EngineType
  BY DEF AudioPatch, AudioRendered, EngineType
<1>2. PassOf(s, after)
  BY <1>1, PassExists
<1>3. p = [end EXCEPT !.block = IF s.nodes = << >> THEN Audio!silence ELSE end.outputs[Len(s.nodes)],
                      !.offset = 0, !.ring = 0]
  BY DEF Audio!Process, PassOf, AudioVisit
<1> DEFINE S == {id \in 0 .. top : AudioRendered(after[id], id, snd, t) /\ after[id].speaker = s.speaker}
<1> HIDE DEF after
<1>4. 0 \in S
  BY <1>1, <1>2 DEF PassOf
<1>5. ASSUME NEW n \in 0 .. top, n # top, n \in S PROVE n + 1 \in S
  <2>1. n + 1 \in 1 .. Len(nodes) /\ n + 1 \in 0 .. top /\ n + 1 # 0 /\ (n + 1) - 1 = n
    BY <1>1, <1>5
  <2>2. after[n + 1] = AudioVisit(n + 1, after[n])
    BY <1>1, <1>2, <2>1 DEF PassOf
  <2>3. AudioRendered(after[n], (n + 1) - 1, snd, t) /\ after[n].speaker = s.speaker
    BY <1>5, <2>1
  <2>4. AudioRendered(after[n + 1], n + 1, snd, t) /\ after[n + 1].speaker = s.speaker
    BY <2>1, <2>2, <2>3, VisitRenders
  <2> QED BY <2>1, <2>4
<1> HIDE DEF S
<1>6. \A n \in 0 .. top : n \in S
  BY <1>1, <1>4, <1>5, Climb
<1>7. AudioRendered(end, top, snd, t) /\ end.speaker = s.speaker
  BY <1>1, <1>6 DEF S
<1> HIDE DEF end, p
<1>8. end \in EngineType /\ end.outputs \in Seq(AudioBlocks) /\ Len(end.outputs) = top
  BY <1>7 DEF AudioRendered, EngineType
<1> DEFINE block == IF s.nodes = << >> THEN Audio!silence ELSE end.outputs[Len(s.nodes)]
<1>9. block \in AudioBlocks
  <2>1. CASE s.nodes = << >>
    BY <2>1 DEF Audio!silence, AudioBlocks
  <2>2. CASE s.nodes # << >>
    <3>1. Len(s.nodes) \in 1 .. top
      BY <1>1, <2>2
    <3> QED BY <1>8, <2>2, <3>1
  <2> QED BY <2>1, <2>2
<1>10. p = [end EXCEPT !.block = block, !.offset = 0, !.ring = 0]
  BY <1>3
<1> HIDE DEF block
<1>11. p \in EngineType
  <2>1. 0 \in Nat /\ 0 \in 0 .. RingSize
    BY DEF AudioBounds
  <2> QED BY <1>8, <1>9, <1>10, <2>1 DEF EngineType
<1>12. p.nodes = end.nodes /\ p.outputs = end.outputs /\ p.speaker = end.speaker
       /\ p.offset = 0 /\ p.block = block
  BY <1>8, <1>10 DEF EngineType
<1>13. AudioRendered(p, top, snd, t)
  BY <1>7, <1>11, <1>12 DEF AudioRendered
<1>14. ASSUME nodes # << >> PROVE AudioHolds(p.block, top, snd, t)
  <2>1. top \in 1 .. top /\ s.nodes # << >>
    BY <1>1, <1>14 DEF AudioPatch
  <2>2. block = end.outputs[top]
    BY <1>1, <2>1 DEF block
  <2> QED BY <1>7, <1>12, <2>1, <2>2 DEF AudioRendered
<1> QED BY <1>7, <1>12, <1>13, <1>14 DEF p

--------------------------------------------------------------------------------
\* Frames: whatever the buffers, the card is given the sound of the last node.

\* t is where the next block starts; the one at hand, if any, ends there.
AudioAt(v, snd, t) ==
  /\ AudioRendered(v, 0, snd, t)
  /\ v.offset <= BLOCK_SIZE /\ Len(v.speaker) + BLOCK_SIZE = t + v.offset
  /\ t > 0 => t - BLOCK_SIZE \in Nat
  /\ nodes # << >> =>
       /\ t > 0 => AudioHolds(v.block, Len(nodes), snd, t - BLOCK_SIZE)
       /\ \A i \in 1 .. Len(v.speaker) : v.speaker[i] = snd[Len(nodes)][i - 1]

\* A block has samples ahead, and is in its right place.
AudioAhead(v, snd, t) ==
  AudioAt(v, snd, t) /\ v.offset < BLOCK_SIZE /\ t > 0

LEMMA RefillIs ==
  ASSUME AudioBounds, AudioPatch, NEW snd, AudioSounds(snd), NEW t \in Nat, NEW v, AudioAt(v, snd, t)
  PROVE  \E u \in Nat : AudioAhead(Audio!Refill(v), snd, u)
<1>1. /\ BLOCK_SIZE \in Nat \ {0} /\ v.offset \in Nat /\ Len(v.speaker) \in Nat
      /\ v.offset <= BLOCK_SIZE /\ Len(v.speaker) + BLOCK_SIZE = t + v.offset
  BY DEF AudioBounds, AudioAt, AudioRendered, EngineType
<1>2. CASE v.offset >= BLOCK_SIZE
  <2> DEFINE p == Audio!Process(v)
             u == t + BLOCK_SIZE
  <2>1. /\ AudioRendered(p, Len(nodes), snd, t) /\ p.speaker = v.speaker /\ p.offset = 0
        /\ nodes # << >> => AudioHolds(p.block, Len(nodes), snd, t)
    BY ProcessRenders DEF AudioAt
  <2>2. Audio!Refill(v) = p
    BY <1>2 DEF Audio!Refill
  <2> HIDE DEF p
  <2>3. u \in Nat /\ u > 0 /\ u - BLOCK_SIZE = t /\ Len(p.speaker) + BLOCK_SIZE = u + p.offset
        /\ p.offset < BLOCK_SIZE /\ p.offset <= BLOCK_SIZE
    BY <1>1, <1>2, <2>1
  <2>4. AudioRendered(p, 0, snd, u)
    <3>1. \A n \in 1 .. Len(nodes) : n <= Len(nodes) /\ n > 0 /\ ~ (n <= 0)
      BY DEF AudioPatch
    <3> QED BY <2>1, <3>1 DEF AudioRendered
  <2>5. nodes # << >> => \A i \in 1 .. Len(p.speaker) : p.speaker[i] = snd[Len(nodes)][i - 1]
    BY <2>1 DEF AudioAt
  <2>6. AudioAt(p, snd, u)
    BY <2>1, <2>3, <2>4, <2>5 DEF AudioAt
  <2>7. AudioAhead(p, snd, u)
    BY <2>3, <2>6 DEF AudioAhead
  <2> QED BY <2>2, <2>3, <2>7
<1>3. CASE v.offset < BLOCK_SIZE
  <2>1. Audio!Refill(v) = v
    BY <1>1, <1>3 DEF Audio!Refill
  <2>2. t > 0
    BY <1>1, <1>3
  <2>3. AudioAhead(v, snd, t)
    BY <1>3, <2>2 DEF AudioAhead
  <2> QED BY <2>1, <2>3
<1> QED BY <1>1, <1>2, <1>3

AudioFrame(n, before) ==
  LET full == Audio!Refill([before EXCEPT !.first = n = 1])
  IN [full EXCEPT !.speaker = Append(@, full.block[full.offset]), !.offset = @ + 1]

LEMMA FrameIs ==
  ASSUME AudioBounds, AudioPatch, NEW snd, AudioSounds(snd), NEW t \in Nat, NEW v, AudioAt(v, snd, t),
         NEW n \in Nat
  PROVE  \E u \in Nat : AudioAt(AudioFrame(n, v), snd, u)
<1> DEFINE b == (n = 1)
           v1 == [v EXCEPT !.first = b]
           full == Audio!Refill(v1)
           w == AudioFrame(n, v)
<1>1. v \in EngineType /\ b \in BOOLEAN
  BY DEF AudioAt, AudioRendered
<1>2. /\ v1 \in EngineType /\ v1.nodes = v.nodes /\ v1.outputs = v.outputs /\ v1.block = v.block
      /\ v1.offset = v.offset /\ v1.speaker = v.speaker
  <2> HIDE DEF b
  <2> QED BY <1>1 DEF EngineType
<1>3. w = [full EXCEPT !.speaker = Append(full.speaker, full.block[full.offset]), !.offset = full.offset + 1]
  BY DEF AudioFrame
<1> HIDE DEF b, v1, w
<1>4. AudioAt(v1, snd, t)
  BY <1>2 DEF AudioAt, AudioRendered
<1>5. PICK u \in Nat : AudioAhead(full, snd, u)
  BY <1>4, RefillIs
<1> HIDE DEF full
<1>6. /\ full \in EngineType /\ full.offset \in Nat /\ full.speaker \in Seq(Int) /\ full.block \in AudioBlocks
      /\ full.offset < BLOCK_SIZE /\ Len(full.speaker) + BLOCK_SIZE = u + full.offset
      /\ u > 0 /\ u - BLOCK_SIZE \in Nat /\ BLOCK_SIZE \in Nat \ {0}
  BY <1>5 DEF AudioAhead, AudioAt, AudioRendered, EngineType, AudioBounds
<1>61. Len(full.speaker) \in Nat
  BY <1>6
<1> DEFINE x == full.block[full.offset]
<1>7. full.offset \in Audio!Samples /\ x \in Int
  BY <1>6 DEF Audio!Samples, AudioBlocks
<1> HIDE DEF x
<1>8. w = [full EXCEPT !.speaker = Append(full.speaker, x), !.offset = full.offset + 1]
  BY <1>3 DEF x
<1>9. Append(full.speaker, x) \in Seq(Int) /\ full.offset + 1 \in Nat
  BY <1>6, <1>7
<1>10. w \in EngineType
  BY <1>6, <1>8, <1>9 DEF EngineType
<1>11. /\ w.nodes = full.nodes /\ w.outputs = full.outputs /\ w.block = full.block
       /\ w.offset = full.offset + 1 /\ w.speaker = Append(full.speaker, x)
  BY <1>6, <1>8 DEF EngineType
<1>12. AudioRendered(w, 0, snd, u)
  BY <1>5, <1>10, <1>11 DEF AudioAhead, AudioAt, AudioRendered
<1>13. w.offset <= BLOCK_SIZE /\ Len(w.speaker) + BLOCK_SIZE = u + w.offset
  <2>1. Len(w.speaker) = Len(full.speaker) + 1
    BY <1>6, <1>7, <1>11
  <2> DEFINE o == full.offset
             l == Len(full.speaker)
  <2>2. /\ o \in Nat /\ l \in Nat /\ BLOCK_SIZE \in Nat /\ o < BLOCK_SIZE /\ l + BLOCK_SIZE = u + o
        /\ w.offset = o + 1 /\ Len(w.speaker) = l + 1
    BY <1>6, <1>61, <1>11, <2>1
  <2> HIDE DEF o, l
  <2> QED BY <2>2
<1>14. ASSUME nodes # << >>
       PROVE  /\ u > 0 => AudioHolds(w.block, Len(nodes), snd, u - BLOCK_SIZE)
              /\ \A i \in 1 .. Len(w.speaker) : w.speaker[i] = snd[Len(nodes)][i - 1]
  <2>1. AudioHolds(full.block, Len(nodes), snd, u - BLOCK_SIZE)
    BY <1>5, <1>6, <1>14 DEF AudioAhead, AudioAt
  <2>2. x = snd[Len(nodes)][(u - BLOCK_SIZE) + full.offset]
    BY <1>7, <2>1 DEF AudioHolds, x
  <2>3. (u - BLOCK_SIZE) + full.offset = Len(full.speaker)
    <3> DEFINE o == full.offset
               l == Len(full.speaker)
    <3>1. o \in Nat /\ l \in Nat /\ BLOCK_SIZE \in Nat /\ l + BLOCK_SIZE = u + o
      BY <1>6, <1>61
    <3> HIDE DEF o, l
    <3>2. (u - BLOCK_SIZE) + o = l
      BY <3>1
    <3> QED BY <3>2 DEF o, l
  <2>4. \A i \in 1 .. Len(full.speaker) : full.speaker[i] = snd[Len(nodes)][i - 1]
    BY <1>5, <1>14 DEF AudioAhead, AudioAt
  <2>5. ASSUME NEW i \in 1 .. Len(w.speaker) PROVE w.speaker[i] = snd[Len(nodes)][i - 1]
    <3>1. Len(w.speaker) = Len(full.speaker) + 1
      BY <1>6, <1>7, <1>11
    <3>2. CASE i <= Len(full.speaker)
      <4>1. i \in 1 .. Len(full.speaker) /\ w.speaker[i] = full.speaker[i]
        BY <1>6, <1>7, <1>11, <3>2
      <4> QED BY <2>4, <4>1
    <3>3. CASE i = Len(full.speaker) + 1
      <4>1. w.speaker[i] = x /\ i - 1 = Len(full.speaker)
        BY <1>6, <1>7, <1>11, <3>3
      <4> QED BY <2>2, <2>3, <4>1
    <3>4. i <= Len(full.speaker) \/ i = Len(full.speaker) + 1
      <4> DEFINE l == Len(full.speaker)
                 k == Len(w.speaker)
      <4>1. l \in Nat /\ k = l + 1 /\ i \in 1 .. k
        BY <1>6, <3>1
      <4> HIDE DEF l, k
      <4>2. i <= l \/ i = l + 1
        BY <4>1
      <4> QED BY <4>2 DEF l
    <3> QED BY <3>2, <3>3, <3>4
  <2> QED BY <1>6, <1>11, <2>1, <2>5
<1>15. AudioAt(w, snd, u)
  BY <1>6, <1>12, <1>13, <1>14 DEF AudioAt
<1> QED BY <1>15 DEF w

FramesOf(s, frames, after) ==
  after = [n \in 0 .. frames |-> IF n = 0 THEN s ELSE AudioFrame(n, after[n - 1])]

LEMMA FramesExist == ASSUME NEW s, NEW frames \in Nat PROVE \E after : FramesOf(s, frames, after)
<1> DEFINE Up(n, f) == f = [m \in 0 .. n |-> IF m = 0 THEN s ELSE AudioFrame(m, f[m - 1])]
           S == {n \in Nat : \E f : Up(n, f)}
<1>1. frames \in 0 .. frames
  OBVIOUS
<1>2. 0 \in S
  <2>1. Up(0, [m \in 0 .. 0 |-> s])
    OBVIOUS
  <2> QED BY <2>1
<1>3. ASSUME NEW n \in 0 .. frames, n # frames, n \in S PROVE n + 1 \in S
  <2>1. PICK f : Up(n, f)
    BY <1>3
  <2> DEFINE more == [m \in 0 .. n + 1 |-> IF m <= n THEN f[m] ELSE AudioFrame(m, f[n])]
  <2>2. ASSUME NEW m \in 0 .. n + 1
        PROVE  more[m] = IF m = 0 THEN s ELSE AudioFrame(m, more[m - 1])
    <3>1. CASE m = 0
      BY <2>1, <3>1
    <3>2. CASE m # 0 /\ m <= n
      <4>1. m \in 0 .. n /\ m - 1 \in 0 .. n /\ m - 1 \in 0 .. n + 1
        BY <3>2
      <4>2. f[m] = AudioFrame(m, f[m - 1])
        BY <2>1, <3>2, <4>1
      <4>3. more[m] = f[m] /\ more[m - 1] = f[m - 1]
        BY <4>1
      <4> QED BY <3>2, <4>2, <4>3
    <3>3. CASE m = n + 1
      <4>1. more[m] = AudioFrame(m, f[n]) /\ more[m - 1] = f[n]
        BY <3>3
      <4> QED BY <3>3, <4>1
    <3> QED BY <3>1, <3>2, <3>3
  <2>3. Up(n + 1, more)
    BY <2>2
  <2> HIDE DEF Up, more
  <2> QED BY <1>3, <2>3
<1> HIDE DEF S
<1>4. \A n \in 0 .. frames : n \in S
  BY <1>2, <1>3, Climb
<1>5. frames \in S
  BY <1>1, <1>4
<1> QED BY <1>5 DEF S, FramesOf

LEMMA PlayIs ==
  ASSUME AudioBounds, AudioPatch, NEW snd, AudioSounds(snd), NEW t \in Nat, NEW s, AudioAt(s, snd, t),
         NEW frames \in Nat
  PROVE  \E u \in Nat : AudioAt(Audio!Play(s, frames), snd, u)
<1> DEFINE after == CHOOSE f : FramesOf(s, frames, f)
           S == {n \in 0 .. frames : \E u \in Nat : AudioAt(after[n], snd, u)}
<1>1. FramesOf(s, frames, after)
  BY FramesExist
<1>2. Audio!Play(s, frames) = after[frames]
  BY DEF Audio!Play, FramesOf, AudioFrame
<1> HIDE DEF after
<1>3. 0 \in S
  <2>1. after[0] = s
    BY <1>1 DEF FramesOf
  <2> QED BY <2>1
<1>4. ASSUME NEW n \in 0 .. frames, n # frames, n \in S PROVE n + 1 \in S
  <2>1. n + 1 \in 0 .. frames /\ n + 1 \in Nat /\ n + 1 # 0 /\ (n + 1) - 1 = n
    BY <1>4
  <2>2. after[n + 1] = AudioFrame(n + 1, after[n])
    BY <1>1, <2>1 DEF FramesOf
  <2>3. PICK u \in Nat : AudioAt(after[n], snd, u)
    BY <1>4
  <2>4. \E w \in Nat : AudioAt(after[n + 1], snd, w)
    <3>1. \E w \in Nat : AudioAt(AudioFrame(n + 1, after[n]), snd, w)
      BY <2>1, <2>3, FrameIs
    <3> QED BY <2>2, <3>1
  <2> QED BY <2>1, <2>4
<1> HIDE DEF S
<1>5. \A n \in 0 .. frames : n \in S
  BY <1>3, <1>4, Climb
<1>6. frames \in S
  BY <1>5
<1> QED BY <1>2, <1>6 DEF S

--------------------------------------------------------------------------------
\* The engine in the program.

AudioQuiet ==
  /\ speaker = << >> /\ block_offset = BLOCK_SIZE
  /\ \A n \in 1 .. Len(nodes) : nodes[n].type = "sine" => nodes[n].phase = 0

\* Before it plays the engine is silent and at phase 0; then it is somewhere in the
\* sound of its patch.
AudioInv ==
  /\ AudioPatch /\ playing \in BOOLEAN
  /\ Audio!Engine \in EngineType /\ Len(outputs) = Len(nodes) /\ block_offset <= BLOCK_SIZE
  /\ ~ playing => AudioQuiet
  /\ playing => \E snd : AudioSounds(snd) /\ \E t \in Nat : AudioAt(Audio!Engine, snd, t)

LEMMA EngineIs ==
  /\ Audio!Engine.nodes = nodes /\ Audio!Engine.outputs = outputs /\ Audio!Engine.block = current_block
  /\ Audio!Engine.offset = block_offset /\ Audio!Engine.ring = ring /\ Audio!Engine.speaker = speaker
  /\ Audio!Engine \in EngineType
       <=> /\ nodes \in Seq(AudioNodes) /\ outputs \in Seq(AudioBlocks) /\ current_block \in AudioBlocks
           /\ block_offset \in Nat /\ ring \in 0 .. RingSize /\ speaker \in Seq(Int)
  BY DEF Audio!Engine, EngineType

LEMMA AudioInitInv == ASSUME AudioBounds, Audio!Init PROVE AudioInv
<1>1. nodes \in Seq(AudioNodes) /\ Len(nodes) = 0 /\ Len(connections) = 0 /\ Len(outputs) = 0
      /\ connections \in Seq(Seq(0 .. Len(nodes))) /\ outputs \in Seq(AudioBlocks) /\ speaker \in Seq(Int)
  BY DEF Audio!Init
<1>2. current_block \in AudioBlocks
  BY DEF Audio!Init, Audio!silence, AudioBlocks
<1>3. block_offset \in Nat /\ block_offset <= BLOCK_SIZE /\ ring \in 0 .. RingSize
  BY DEF Audio!Init, AudioBounds
<1>4. Audio!Engine \in EngineType
  BY <1>1, <1>2, <1>3, EngineIs
<1>5. AudioQuiet
  BY <1>1 DEF Audio!Init, AudioQuiet
<1> QED BY <1>1, <1>3, <1>4, <1>5 DEF Audio!Init, AudioInv, AudioPatch

LEMMA AudioAddKeeps ==
  ASSUME AudioBounds, AudioInv, NEW kind \in Kinds, Audio!add_node(kind)
  PROVE  AudioInv'
<1>1. kind \in AudioNodes /\ (kind.type = "sine" => kind.phase = 0)
  BY DEF AudioBounds
<1>2. /\ nodes \in Seq(AudioNodes) /\ outputs \in Seq(AudioBlocks) /\ current_block \in AudioBlocks
      /\ block_offset \in Nat /\ ring \in 0 .. RingSize /\ speaker \in Seq(Int)
  BY EngineIs DEF AudioInv
<1>3. Audio!silence \in AudioBlocks
  BY DEF Audio!silence, AudioBlocks
<1>4. /\ nodes' = Append(nodes, kind) /\ outputs' = Append(outputs, Audio!silence)
      /\ connections' = Append(connections, << >>) /\ ~ playing
      /\ UNCHANGED <<playing, current_block, block_offset, ring, speaker>>
  BY DEF Audio!add_node
<1>5. /\ nodes' \in Seq(AudioNodes) /\ Len(nodes') = Len(nodes) + 1 /\ outputs' \in Seq(AudioBlocks)
      /\ Len(outputs') = Len(outputs) + 1
  BY <1>1, <1>2, <1>3, <1>4
<1>6. Audio!Engine' \in EngineType
  BY <1>2, <1>4, <1>5 DEF Audio!Engine, EngineType
<1>7. connections' \in Seq(Seq(0 .. Len(nodes'))) /\ Len(connections') = Len(nodes')
  <2>1. connections \in Seq(Seq(0 .. Len(nodes))) /\ Len(connections) = Len(nodes)
    BY DEF AudioInv, AudioPatch
  <2>2. 0 .. Len(nodes) \subseteq 0 .. Len(nodes')
    BY <1>2, <1>5
  <2>3. Seq(0 .. Len(nodes)) \subseteq Seq(0 .. Len(nodes'))
    BY <2>2, SeqMonotonic
  <2>4. << >> \in Seq(0 .. Len(nodes'))
    OBVIOUS
  <2>5. connections \in Seq(Seq(0 .. Len(nodes')))
    BY <2>1, <2>3, SeqMonotonic
  <2> QED BY <1>4, <1>5, <2>1, <2>4, <2>5
<1>8. AudioQuiet'
  <2>1. AudioQuiet
    BY <1>4 DEF AudioInv
  <2>2. ASSUME NEW n \in 1 .. Len(nodes'), nodes'[n].type = "sine" PROVE nodes'[n].phase = 0
    BY <1>1, <1>2, <1>4, <2>1, <2>2 DEF AudioQuiet
  <2> QED BY <1>4, <2>1, <2>2 DEF AudioQuiet
<1>9. Len(outputs') = Len(nodes') /\ block_offset' <= BLOCK_SIZE /\ ~ playing' /\ playing' \in BOOLEAN
  BY <1>4, <1>5 DEF AudioInv
<1> QED BY <1>5, <1>6, <1>7, <1>8, <1>9 DEF AudioInv, AudioPatch

LEMMA AudioConnectKeeps ==
  ASSUME AudioBounds, AudioInv, NEW src \in DOMAIN nodes, NEW dst \in DOMAIN nodes,
         NEW port \in 1 .. MAX_INPUTS, Audio!connect(src, dst, port)
  PROVE  AudioInv'
<1>1. /\ nodes \in Seq(AudioNodes) /\ Len(nodes) \in Nat
      /\ connections \in Seq(Seq(0 .. Len(nodes))) /\ Len(connections) = Len(nodes)
  BY DEF AudioInv, AudioPatch
<1>2. port \in Nat /\ src \in 0 .. Len(nodes) /\ dst \in 1 .. Len(nodes)
  BY <1>1 DEF AudioBounds
<1> DEFINE old == connections[dst]
           length == IF port > Len(old) THEN port ELSE Len(old)
           row == [i \in 1 .. length |-> IF i = port THEN src ELSE IF i <= Len(old) THEN old[i] ELSE 0]
<1>3. old \in Seq(0 .. Len(nodes)) /\ Len(old) \in Nat
  BY <1>1, <1>2
<1>4. connections' = [connections EXCEPT ![dst] = row]
  BY DEF Audio!connect
<1>5. row \in Seq(0 .. Len(nodes))
  <2>1. length \in Nat
    BY <1>2, <1>3
  <2> HIDE DEF length
  <2>2. ASSUME NEW i \in 1 .. length
        PROVE  (IF i = port THEN src ELSE IF i <= Len(old) THEN old[i] ELSE 0) \in 0 .. Len(nodes)
    <3>1. i <= Len(old) => old[i] \in 0 .. Len(nodes)
      BY <1>3, <2>1
    <3>2. 0 \in 0 .. Len(nodes)
      BY <1>1
    <3> HIDE DEF old
    <3> QED BY <1>2, <3>1, <3>2
  <2> HIDE DEF old
  <2> QED BY <2>1, <2>2
<1> HIDE DEF row
<1>6. connections' \in Seq(Seq(0 .. Len(nodes))) /\ Len(connections') = Len(connections)
  BY <1>1, <1>2, <1>4, <1>5
<1>7. ~ playing /\ UNCHANGED <<playing, nodes, outputs, current_block, block_offset, ring, speaker>>
  BY DEF Audio!connect
<1>8. Audio!Engine' = Audio!Engine
  BY <1>7 DEF Audio!Engine
<1>9. AudioQuiet'
  BY <1>7 DEF AudioInv, AudioQuiet
<1>10. AudioPatch'
  BY <1>1, <1>6, <1>7 DEF AudioPatch
<1> QED BY <1>7, <1>8, <1>9, <1>10 DEF AudioInv

\* The phases of the nodes have no part in what the patch should sound like.
LEMMA SoundsKeep ==
  ASSUME AudioPatch, nodes' \in Seq(AudioNodes), Len(nodes') = Len(nodes), connections' = connections,
         \A n \in 1 .. Len(nodes) : AudioLike(nodes'[n], n)
  PROVE  /\ AudioPatch'
         /\ \A n \in 1 .. Len(nodes) : \A e : Audio!Sound(n, e)' = Audio!Sound(n, e)
         /\ \A snd : AudioSounds(snd) => AudioSounds(snd)'
         /\ \A n \in 1 .. Len(nodes) : \A node : AudioLike(node, n) => AudioLike(node, n)'
         /\ \A n \in 1 .. Len(nodes) : \A node, snd, t :
              AudioLike(node, n) /\ AudioInPhase(node, n, snd, t) => AudioInPhase(node, n, snd, t)'
<1>1. AudioPatch'
  BY DEF AudioPatch
<1>2. ASSUME NEW n \in 1 .. Len(nodes)
      PROVE  /\ nodes'[n].type = nodes[n].type
             /\ nodes[n].type = "sine" => nodes'[n].frequency = nodes[n].frequency
             /\ nodes[n].type = "gain" => nodes'[n].base_gain = nodes[n].base_gain
  BY DEF AudioLike
<1>3. \A n \in 1 .. Len(nodes) : Audio!Heard(n)' = Audio!Heard(n)
  BY DEF Audio!Heard
<1>4. ASSUME NEW n \in 1 .. Len(nodes) PROVE Audio!InputCount(n)' = Audio!InputCount(n)
  <2>1. Audio!Heard(n)' = Audio!Heard(n)
    BY <1>3
  <2> QED BY <2>1 DEF Audio!InputCount
<1>5. \A n \in 1 .. Len(nodes) : \A e, p : Audio!Wire(n, e, p)' = Audio!Wire(n, e, p)
  BY <1>3 DEF Audio!Wire
<1>6. ASSUME NEW n \in 1 .. Len(nodes), NEW e, NEW t, nodes[n].type = "sine"
      PROVE  Audio!Angle(n, e, t)' = Audio!Angle(n, e, t)
  <2>1. Audio!Wire(n, e, 1)' = Audio!Wire(n, e, 1)
    BY <1>5
  <2> QED BY <1>2, <1>6, <2>1 DEF Audio!Angle
<1>7. ASSUME NEW n \in 1 .. Len(nodes), NEW e PROVE Audio!Sound(n, e)' = Audio!Sound(n, e)
  <2>1. ASSUME NEW t \in Nat PROVE Audio!Sound(n, e)'[t] = Audio!Sound(n, e)[t]
    <3>1. CASE nodes[n].type = "sine"
      BY <1>2, <1>6, <3>1 DEF Audio!Sound
    <3>2. CASE nodes[n].type = "gain"
      BY <1>2, <1>4, <1>5, <3>2 DEF Audio!Sound
    <3>3. CASE nodes[n].type # "sine" /\ nodes[n].type # "gain"
      <4>1. [p \in 1 .. Audio!InputCount(n)' |-> Audio!Wire(n, e, p)'[t]]
              = [p \in 1 .. Audio!InputCount(n) |-> Audio!Wire(n, e, p)[t]]
        BY <1>4, <1>5
      <4> QED BY <1>2, <3>3, <4>1 DEF Audio!Sound
    <3> QED BY <3>1, <3>2, <3>3
  <2> QED BY <2>1 DEF Audio!Sound
<1>8. \A snd : AudioSounds(snd) => AudioSounds(snd)'
  BY <1>7 DEF AudioSounds
<1>9. \A n \in 1 .. Len(nodes) : \A node : AudioLike(node, n) => AudioLike(node, n)'
  BY <1>2 DEF AudioLike
<1>10. \A n \in 1 .. Len(nodes) : \A node, snd, t :
         AudioLike(node, n) /\ AudioInPhase(node, n, snd, t) => AudioInPhase(node, n, snd, t)'
  BY ZenonT(30), <1>2, <1>6 DEF AudioLike, AudioInPhase
<1> QED BY <1>1, <1>7, <1>8, <1>9, <1>10

LEMMA AudioAtKeeps ==
  ASSUME AudioPatch, nodes' \in Seq(AudioNodes), Len(nodes') = Len(nodes), connections' = connections,
         \A n \in 1 .. Len(nodes) : AudioLike(nodes'[n], n),
         NEW v, NEW snd, NEW t, AudioAt(v, snd, t)
  PROVE  AudioAt(v, snd, t)'
<1>1. (nodes' # << >>) => (nodes # << >>)
  BY DEF AudioPatch
<1>2. AudioRendered(v, 0, snd, t)'
  <2>1. ASSUME NEW n \in 1 .. Len(nodes)
        PROVE  ~ (n <= 0) /\ AudioLike(v.nodes[n], n)' /\ AudioInPhase(v.nodes[n], n, snd, t)'
    <3>1. n > 0 /\ ~ (n <= 0)
      BY DEF AudioPatch
    <3>2. AudioLike(v.nodes[n], n) /\ AudioInPhase(v.nodes[n], n, snd, t)
      BY <3>1 DEF AudioAt, AudioRendered
    <3> QED BY <3>1, <3>2, SoundsKeep
  <2> QED BY <2>1 DEF AudioAt, AudioRendered
<1> QED BY <1>1, <1>2 DEF AudioAt, AudioHolds

\* A patch that was not played yet is at the start of its sound.
LEMMA AudioNewKeeps == ASSUME AudioBounds, AudioInv, Audio!new PROVE AudioInv'
<1>1. AudioPatch /\ AudioQuiet /\ ~ playing
  BY DEF Audio!new, AudioInv
<1>2. PICK snd : AudioSounds(snd)
  BY <1>1, SoundsExist
<1>3. AudioAt(Audio!Engine, snd, 0)
  <2>1. /\ Audio!Engine \in EngineType /\ Len(outputs) = Len(nodes) /\ nodes \in Seq(AudioNodes)
        /\ BLOCK_SIZE \in Nat
    BY EngineIs DEF AudioInv, AudioBounds
  <2>2. ASSUME NEW n \in 1 .. Len(nodes)
        PROVE  AudioLike(nodes[n], n) /\ ~ (n <= 0) /\ AudioInPhase(nodes[n], n, snd, 0)
    <3>1. nodes[n] \in AudioNodes
      BY <2>1
    <3>2. AudioLike(nodes[n], n)
      BY <3>1 DEF AudioLike
    <3>3. ASSUME nodes[n].type = "sine"
          PROVE  \E c \in Int : nodes[n].phase = Audio!Angle(n, snd, 0) + 4 * c
      <4>1. snd \in Seq(Waves) /\ Len(snd) >= n - 1
        BY <1>2, <2>1 DEF AudioSounds
      <4>2. Audio!Angle(n, snd, 0) = 0 /\ nodes[n].phase = 0
        BY <1>1, <3>3, <4>1, AngleStarts DEF AudioQuiet
      <4> WITNESS 0 \in Int
      <4> QED BY <4>2
    <3> QED BY <3>2, <3>3 DEF AudioInPhase
  <2>3. AudioRendered(Audio!Engine, 0, snd, 0)
    BY <2>1, <2>2, EngineIs DEF AudioRendered
  <2>4. Len(speaker) = 0 /\ Len(speaker) + BLOCK_SIZE = 0 + block_offset /\ block_offset <= BLOCK_SIZE
    BY <1>1, <2>1 DEF AudioQuiet
  <2>5. \A i \in 1 .. Len(speaker) : speaker[i] = snd[Len(nodes)][i - 1]
    BY <2>4
  <2> QED BY <2>3, <2>4, <2>5, EngineIs DEF AudioAt
<1>4. UNCHANGED <<nodes, connections, outputs, current_block, block_offset, ring, speaker>> /\ playing' = TRUE
  BY DEF Audio!new
<1>5. Audio!Engine' = Audio!Engine
  BY <1>4 DEF Audio!Engine
<1>6. AudioPatch'
  BY <1>1, <1>4 DEF AudioPatch
<1>7. /\ nodes' \in Seq(AudioNodes) /\ Len(nodes') = Len(nodes) /\ connections' = connections
      /\ \A n \in 1 .. Len(nodes) : AudioLike(nodes'[n], n)
  BY <1>1, <1>4 DEF AudioPatch, AudioLike
<1>8. AudioSounds(snd)'
  BY <1>1, <1>2, <1>7, SoundsKeep
<1>9. \A v : v = Audio!Engine => AudioAt(v, snd, 0)'
  BY <1>1, <1>3, <1>7, AudioAtKeeps
<1>10. AudioAt(Audio!Engine, snd, 0)'
  BY <1>5, <1>9
<1> QED BY <1>4, <1>5, <1>6, <1>8, <1>10 DEF AudioInv
LEMMA AudioCallbackKeeps ==
  ASSUME AudioBounds, AudioInv, NEW frames \in 1 .. BLOCK_SIZE + 1, Audio!Callback(frames)
  PROVE  AudioInv'
<1> DEFINE s == Audio!Play(Audio!Engine, frames)
<1>1. /\ AudioPatch /\ playing
      /\ frames \in Nat /\ Audio!Engine \in EngineType
  BY DEF Audio!Callback, AudioInv, AudioBounds
<1>2. PICK snd : AudioSounds(snd) /\ \E t \in Nat : AudioAt(Audio!Engine, snd, t)
  BY <1>1 DEF AudioInv
<1>3. PICK t \in Nat : AudioAt(Audio!Engine, snd, t)
  BY <1>2
<1>4. PICK u \in Nat : AudioAt(s, snd, u)
  BY <1>1, <1>2, <1>3, PlayIs
<1>5. /\ nodes' = s.nodes /\ outputs' = s.outputs /\ current_block' = s.block /\ block_offset' = s.offset
      /\ ring' = s.ring /\ speaker' = s.speaker /\ UNCHANGED <<connections, playing>>
  BY DEF Audio!Callback
<1> HIDE DEF s
<1>6. /\ s \in EngineType /\ Len(s.nodes) = Len(nodes) /\ Len(s.outputs) = Len(nodes)
      /\ s.offset <= BLOCK_SIZE /\ s.nodes \in Seq(AudioNodes)
      /\ \A n \in 1 .. Len(nodes) : AudioLike(s.nodes[n], n)
  BY <1>4 DEF AudioAt, AudioRendered, EngineType
<1>7. AudioPatch'
  BY <1>1, <1>5, <1>6, SoundsKeep
<1>8. AudioSounds(snd)'
  BY <1>1, <1>2, <1>5, <1>6, SoundsKeep
<1> DEFINE w == [nodes |-> s.nodes, outputs |-> s.outputs, block |-> s.block, offset |-> s.offset,
                 ring |-> s.ring, speaker |-> s.speaker, first |-> TRUE]
<1>9. /\ w \in EngineType /\ w.nodes = s.nodes /\ w.outputs = s.outputs /\ w.block = s.block
      /\ w.offset = s.offset /\ w.ring = s.ring /\ w.speaker = s.speaker
  BY <1>6 DEF EngineType
<1>10. Audio!Engine' = w
  BY <1>5 DEF Audio!Engine
<1> HIDE DEF w
<1>11. AudioAt(w, snd, u)
  BY <1>4, <1>9 DEF AudioAt, AudioRendered
<1>12. \A v : v = w => AudioAt(v, snd, u)'
  BY <1>1, <1>5, <1>6, <1>11, AudioAtKeeps
<1>13. AudioAt(Audio!Engine, snd, u)'
  BY <1>10, <1>12
<1>14. Audio!Engine' \in EngineType /\ Len(outputs') = Len(nodes') /\ block_offset' <= BLOCK_SIZE
       /\ playing' /\ playing' \in BOOLEAN
  BY <1>1, <1>5, <1>6, <1>9, <1>10 DEF AudioInv
<1> QED BY <1>7, <1>8, <1>13, <1>14 DEF AudioInv

LEMMA AudioPushKeeps ==
  ASSUME AudioBounds, AudioInv, Audio!try_push \/ UNCHANGED Audio!vars PROVE AudioInv'
<1>1. /\ UNCHANGED <<nodes, connections, outputs, playing, current_block, block_offset, speaker>>
      /\ ring' \in 0 .. RingSize
  <2>1. ring \in 0 .. RingSize /\ RingSize \in Nat
    BY EngineIs DEF AudioInv, AudioBounds
  <2>2. CASE Audio!try_push
    BY <2>1, <2>2 DEF Audio!try_push
  <2>3. CASE UNCHANGED Audio!vars
    BY <2>1, <2>3 DEF Audio!vars
  <2> QED BY <2>2, <2>3
<1> DEFINE v == Audio!Engine
           w == [nodes |-> v.nodes, outputs |-> v.outputs, block |-> v.block, offset |-> v.offset,
                 ring |-> ring', speaker |-> v.speaker, first |-> TRUE]
<1>2. v \in EngineType /\ AudioPatch /\ nodes \in Seq(AudioNodes)
  BY DEF AudioInv, AudioPatch
<1>3. Audio!Engine' = w
  BY <1>1, EngineIs DEF Audio!Engine
<1> HIDE DEF v
<1>4. /\ w \in EngineType /\ w.nodes = v.nodes /\ w.outputs = v.outputs /\ w.block = v.block
      /\ w.offset = v.offset /\ w.speaker = v.speaker
  BY <1>1, <1>2 DEF EngineType
<1> HIDE DEF w
<1>5. AudioPatch' /\ (AudioQuiet => AudioQuiet')
  BY <1>1, <1>2 DEF AudioPatch, AudioQuiet
<1>6. ASSUME playing PROVE (\E snd : AudioSounds(snd) /\ \E t \in Nat : AudioAt(Audio!Engine, snd, t))'
  <2>1. PICK snd : AudioSounds(snd) /\ \E t \in Nat : AudioAt(v, snd, t)
    BY <1>6 DEF AudioInv, v
  <2>2. PICK t \in Nat : AudioAt(v, snd, t)
    BY <2>1
  <2>3. /\ nodes' \in Seq(AudioNodes) /\ Len(nodes') = Len(nodes) /\ connections' = connections
        /\ \A n \in 1 .. Len(nodes) : AudioLike(nodes'[n], n)
    BY <1>1, <1>2 DEF AudioLike
  <2>4. AudioSounds(snd)'
    BY <1>2, <2>1, <2>3, SoundsKeep
  <2>5. AudioAt(w, snd, t)
    BY <1>4, <2>2 DEF AudioAt, AudioRendered
  <2>6. \A x : x = w => AudioAt(x, snd, t)'
    BY <1>2, <2>3, <2>5, AudioAtKeeps
  <2>7. AudioAt(Audio!Engine, snd, t)'
    BY <1>3, <2>6
  <2> QED BY <2>4, <2>7
<1> QED BY <1>1, <1>3, <1>4, <1>5, <1>6 DEF AudioInv

LEMMA AudioStepKeeps ==
  ASSUME AudioBounds, AudioInv, [Audio!Next]_(Audio!vars) PROVE AudioInv'
<1> QED BY AudioAddKeeps, AudioConnectKeeps, AudioNewKeeps, AudioCallbackKeeps, AudioPushKeeps
        DEF Audio!Next

LEMMA AudioInvPlays == ASSUME AudioBounds, AudioInv PROVE Audio!TypeOK /\ Audio!PlaysThePatch
<1>1. AudioPatch /\ nodes \in Seq(AudioNodes) /\ Len(nodes) \in Nat
  BY DEF AudioInv, AudioPatch
<1>2. Audio!TypeOK
  <2>1. /\ outputs \in Seq(AudioBlocks) /\ current_block \in AudioBlocks /\ ring \in 0 .. RingSize
        /\ block_offset \in 0 .. BLOCK_SIZE
    BY EngineIs DEF AudioInv, AudioBounds
  <2>2. ASSUME NEW id \in DOMAIN nodes, nodes[id].type = "sine" PROVE nodes[id].phase \in Int
    <3>1. nodes[id] \in AudioNodes
      BY <1>1
    <3> QED BY <2>2, <3>1 DEF AudioNodes
  <2> QED BY <1>1, <2>1, <2>2 DEF Audio!TypeOK, AudioPatch, AudioInv, AudioBlocks
<1>3. ASSUME nodes # << >>, NEW i \in DOMAIN speaker PROVE speaker[i] = Audio!Ideal[i - 1]
  <2>1. playing
    <3>1. ~ playing => speaker = << >>
      BY DEF AudioInv, AudioQuiet
    <3> QED BY <1>3, <3>1 DEF AudioInv
  <2>2. PICK snd : AudioSounds(snd) /\ \E t \in Nat : AudioAt(Audio!Engine, snd, t)
    BY <2>1 DEF AudioInv
  <2>3. PICK t \in Nat : AudioAt(Audio!Engine, snd, t)
    BY <2>2
  <2>4. i \in 1 .. Len(speaker)
    BY EngineIs DEF AudioInv
  <2>5. speaker[i] = snd[Len(nodes)][i - 1]
    BY <1>3, <2>3, <2>4, EngineIs DEF AudioAt
  <2>6. Audio!Ideal = snd[Len(nodes)]
    BY <1>1, <1>3, <2>2, IdealIs
  <2> QED BY <2>5, <2>6
<1> QED BY <1>2, <1>3 DEF Audio!PlaysThePatch

\* Whatever the patch, the size of a block and the buffers the card asks for, it is
\* given the sound of the last node, sample by sample: none lost, repeated or taken
\* from another block, and no modulation late (graph.rs, audio.rs, nodes/).
THEOREM ResonancePlaysThePatch ==
  ASSUME AudioBounds PROVE Audio!Spec => [](Audio!TypeOK /\ Audio!PlaysThePatch)
<1>1. Audio!Init => AudioInv
  BY AudioInitInv
<1>2. AudioInv /\ [Audio!Next]_(Audio!vars) => AudioInv'
  BY AudioStepKeeps
<1>3. AudioInv => Audio!TypeOK /\ Audio!PlaysThePatch
  BY AudioInvPlays
<1> QED BY <1>1, <1>2, <1>3, PTL DEF Audio!Spec

--------------------------------------------------------------------------------
(* kernel/src/pci.rs *)

\* Functions are numbered as the bus numbers them.
PciMachine(machine) ==
  \A x \in machine : x.bus \in 0 .. 255 /\ x.device \in 0 .. 31 /\ x.func \in 0 .. 7

LEMMA PciFirst ==
  ASSUME NEW set, PciMachine(set), set # {}
  PROVE  P!First(set) \in set
<1> DEFINE place(x) == P!Place(x.bus, x.device, x.func)
           S == {place(x) : x \in set}
<1>1. ASSUME NEW x \in set PROVE place(x) \in Nat
  <2>1. \A b, d, f \in Nat : P!Place(b, d, f) \in Nat
    BY DEF P!Place
  <2>2. x.bus \in Nat /\ x.device \in Nat /\ x.func \in Nat
    BY DEF PciMachine
  <2> QED BY <2>1, <2>2
<1>2. S \in SUBSET Nat /\ S # {}
  BY <1>1
<1>3. PICK n \in S : \A m \in S : n <= m
  BY <1>2, LeastNumber
<1>4. PICK x \in set : n = place(x)
  BY <1>3
<1>5. \A y \in set : place(x) <= place(y)
  BY <1>3, <1>4
<1>6. \E z \in set : \A y \in set : P!Place(z.bus, z.device, z.func) <= P!Place(y.bus, y.device, y.func)
  BY <1>5
<1> QED BY <1>6 DEF P!First

\* Whatever functions answer on the bus, on however many buses and devices: where the
\* machine is what the bus allows, the scan of kernel/src/pci.rs finds an xHCI controller
\* if there is one and takes nothing else for it.
THEOREM PciScanFindsXhci ==
  ASSUME NEW machine, PciMachine(machine) PROVE P!ScanFindsXhci(machine)
<1> SUFFICES ASSUME P!WellFormed(machine)
             PROVE  LET controllers == {x \in machine : x.class = P!XhciClass}
                    IN /\ P!scan(machine) = P!None <=> controllers = {}
                       /\ controllers # {} => \E x \in controllers : P!scan(machine) = P!read_bar0(x)
                       /\ P!find_device(machine, 12, 3) = P!None => \A x \in controllers : x.func > 0
  BY DEF P!ScanFindsXhci
<1> DEFINE controllers == {x \in machine : x.class = P!XhciClass}
<1>1. P!LookedAt(machine) = machine
  <2>1. ASSUME NEW x \in machine PROVE x \in P!LookedAt(machine)
    <3>1. x.func > 0 \/ x.func = 0
      BY DEF PciMachine
    <3> QED BY <3>1 DEF P!LookedAt, P!WellFormed
  <2> QED BY <2>1 DEF P!LookedAt
<1>2. P!scan(machine) = IF controllers = {} THEN P!None ELSE P!read_bar0(P!First(controllers))
  BY <1>1 DEF P!scan
<1>3. \A x : P!read_bar0(x) # P!None
  BY DEF P!read_bar0, P!None
<1>4. controllers # {} => P!First(controllers) \in controllers
  <2>1. PciMachine(controllers)
    BY DEF PciMachine
  <2> QED BY <2>1, PciFirst
<1>5. ASSUME P!find_device(machine, 12, 3) = P!None, NEW x \in controllers PROVE x.func > 0
  <2>1. {y \in machine : y.func = 0 /\ y.class[1] = 12 /\ y.class[2] = 3} = {}
    BY <1>5 DEF P!find_device, P!None
  <2>2. x.class[1] = 12 /\ x.class[2] = 3
    BY DEF P!XhciClass
  <2>3. x.func # 0
    BY <2>1, <2>2
  <2> QED BY <2>3 DEF PciMachine
<1>6. P!scan(machine) = P!None <=> controllers = {}
  BY <1>2, <1>3
<1>7. controllers # {} => \E x \in controllers : P!scan(machine) = P!read_bar0(x)
  BY <1>2, <1>4
<1> QED BY <1>5, <1>6, <1>7

--------------------------------------------------------------------------------
(* crates/net/src *)

\* Whatever the fields of the packet, a machine makes a reply exactly if it is asked for
\* its address, to whoever asked; and no machine replies to that reply
\* (process_packet, crates/net/src/arp.rs).
THEOREM NetArpConverses ==
  ASSUME NEW asked, NEW ip, NEW mac, asked.len \in Nat
  PROVE  N!ArpConverses(asked, ip, mac)
<1> DEFINE valid == /\ asked.len >= 28 /\ asked.hardware_type = 1
                    /\ asked.protocol_type = 2048 /\ asked.operation = 1 /\ asked.target_ip = ip
           answer == [len |-> 28, hardware_type |-> 1, protocol_type |-> 2048, operation |-> 2,
                      sender_mac |-> mac, sender_ip |-> ip,
                      target_mac |-> asked.sender_mac, target_ip |-> asked.sender_ip]
<1>1. N!process_packet(ip, mac, asked) = IF valid THEN {answer} ELSE N!None
  <2>1. N!ArpOperation(asked.operation) = "request" <=> asked.operation = 1
    BY DEF N!ArpOperation
  <2> QED BY <2>1 DEF N!process_packet, N!None
<1>2. \A other : N!process_packet(other, mac, answer) = N!None
  <2>1. N!ArpOperation(answer.operation) # "request"
    BY DEF N!ArpOperation
  <2> QED BY <2>1 DEF N!process_packet
<1>3. N!process_packet(ip, mac, asked) # N!None <=> valid
  <2>1. {answer} # N!None
    <3> HIDE DEF answer
    <3> QED BY DEF N!None
  <2> HIDE DEF answer, valid
  <2> QED BY <1>1, <2>1
<1>4. ASSUME NEW reply \in N!process_packet(ip, mac, asked) PROVE reply = answer
  BY <1>1 DEF N!None
<1>5. answer.target_mac = asked.sender_mac /\ <<answer.sender_mac, answer.sender_ip>> = <<mac, ip>>
  OBVIOUS
<1> QED BY <1>2, <1>3, <1>4, <1>5 DEF N!ArpConverses

Word16 == {n \in Nat : n <= 65535}

\* A header the machine may be given: words of 16 bits, all those its length announces.
NetHeader(h) ==
  /\ h.words \in Seq(Word16) /\ h.ihl \in 0 .. 15 /\ 2 * h.ihl <= Len(h.words)
  /\ h.len \in Nat /\ h.total_length \in Nat

\* Words of 16 bits add up to no more than as many times the largest.
LEMMA NetSumIs ==
  ASSUME NEW s \in Seq(Word16), Len(s) <= 30
  PROVE  N!Sum(s) \in Nat /\ N!Sum(s) <= 30 * 65535
<1> DEFINE sum == CHOOSE f : SumsOf(s, f)
           S == {n \in 0 .. Len(s) : sum[n] \in Nat /\ sum[n] <= n * 65535}
<1>1. SumsOf(s, sum)
  <2>1. s \in Seq(Int)
    <3>1. \A i \in 1 .. Len(s) : s[i] \in Int
      BY DEF Word16
    <3> QED BY <3>1
  <2> QED BY <2>1, SumsExist
<1>2. N!Sum(s) = sum[Len(s)]
  BY DEF N!Sum, SumsOf
<1>3. Len(s) \in Nat /\ Len(s) \in 0 .. Len(s) /\ 0 \in 0 .. Len(s)
  OBVIOUS
<1> HIDE DEF sum
<1>4. 0 \in S
  BY <1>1, <1>3 DEF SumsOf
<1>5. ASSUME NEW n \in 0 .. Len(s), n # Len(s), n \in S PROVE n + 1 \in S
  <2>1. n + 1 \in 0 .. Len(s) /\ n + 1 # 0 /\ (n + 1) - 1 = n /\ n \in Nat
    BY <1>5
  <2>2. sum[n + 1] = sum[n] + s[n + 1]
    BY <1>1, <2>1 DEF SumsOf
  <2>3. /\ s[n + 1] \in Nat /\ s[n + 1] <= 65535
        /\ sum[n] \in Nat /\ sum[n] <= n * 65535
    BY <1>5, <2>1 DEF Word16
  <2> DEFINE a == sum[n]
             w == s[n + 1]
  <2>4. a + w \in Nat /\ a + w <= (n + 1) * 65535
    <3>1. a \in Nat /\ w \in Nat /\ a <= n * 65535 /\ w <= 65535
      BY <2>3
    <3> HIDE DEF a, w
    <3> QED BY <2>1, <3>1
  <2> QED BY <2>1, <2>2, <2>4
<1> HIDE DEF S
<1>6. \A n \in 0 .. Len(s) : n \in S
  BY <1>3, <1>4, <1>5, Climb
<1>7. sum[Len(s)] \in Nat /\ sum[Len(s)] <= Len(s) * 65535
  BY <1>3, <1>6 DEF S
<1> DEFINE l == Len(s)
<1>8. l \in Nat /\ l <= 30
  BY <1>3
<1> HIDE DEF l
<1>9. l * 65535 <= 30 * 65535
  BY <1>8
<1> QED BY <1>2, <1>7, <1>8, <1>9 DEF l

\* Adding the carries back in keeps the remainder of 65535, and zero as the one number
\* that folds to zero.
LEMMA NetFoldIs ==
  ASSUME NEW s \in Nat, s <= 30 * 65535
  PROVE  N!Fold(s) = 65535 <=> s > 0 /\ s % 65535 = 0
<1> DEFINE q == s \div 65536
           r == s % 65536
<1>1. /\ q \in 0 .. 29 /\ r \in Nat /\ r < 65536
      /\ s = 65536 * q + r
  OBVIOUS
<1>2. N!Fold(s) = ((r + q) % 65536) + ((r + q) \div 65536)
  BY DEF N!Fold
<1> HIDE DEF q, r
<1>3. CASE r + q < 65536
  <2>1. (r + q) % 65536 = r + q /\ (r + q) \div 65536 = 0
    BY <1>1, <1>3
  <2>2. N!Fold(s) = 65535 <=> r + q = 65535
    BY <1>1, <1>2, <2>1
  <2>3. s = 65535 * q + (r + q)
    BY <1>1
  <2>4. s % 65535 = (r + q) % 65535
    BY <1>1, <1>3, <2>3
  <2>5. (r + q) % 65535 = 0 <=> r + q \in {0, 65535}
    BY <1>1, <1>3
  <2>6. s > 0 <=> r + q > 0
    BY <1>1
  <2> QED BY <2>2, <2>4, <2>5, <2>6
<1>4. CASE r + q >= 65536
  <2>1. (r + q) % 65536 = r + q - 65536 /\ (r + q) \div 65536 = 1
    BY <1>1, <1>4
  <2>2. N!Fold(s) # 65535
    BY <1>1, <1>2, <2>1
  <2>3. s = 65535 * (q + 1) + (r + q - 65535) /\ r + q - 65535 \in 1 .. 29
    BY <1>1, <1>4
  <2>4. s % 65535 # 0
    BY <1>1, <2>3
  <2> QED BY <2>2, <2>4
<1> QED BY <1>1, <1>3, <1>4

\* For every header the machine may be given: what verify_checksum accepts is what RFC
\* 1071 accepts, and the payload lies in the packet and in the buffer
\* (crates/net/src/ipv4.rs).
THEOREM NetChecksumIsExact ==
  ASSUME NEW h, NetHeader(h) PROVE N!ChecksumIsExact(h)
<1> SUFFICES ASSUME N!Accepts(h)
             PROVE  /\ N!verify_checksum(h) <=> N!Sum(N!Words(h)) > 0 /\ N!Sum(N!Words(h)) % 65535 = 0
                    /\ N!payload(h)[1] <= N!payload(h)[2] /\ N!payload(h)[2] <= h.len
  BY DEF N!ChecksumIsExact
<1>1. N!Words(h) \in Seq(Word16) /\ Len(N!Words(h)) <= 30
  <2> DEFINE n == 2 * h.ihl
             w == SubSeq(h.words, 1, n)
  <2>1. h.ihl \in 0 .. 15 /\ h.words \in Seq(Word16) /\ n <= Len(h.words)
    BY DEF NetHeader
  <2>2. n \in Nat /\ n <= 30
    BY SMTT(30), <2>1
  <2>3. N!HeaderLength(h) \div 2 = n
    BY <2>1 DEF N!HeaderLength
  <2> HIDE DEF n
  <2>4. \A i \in 1 .. n : h.words[i] \in Word16
    BY <2>1, <2>2
  <2>5. w \in Seq(Word16) /\ Len(w) = (IF 1 <= n THEN n - 1 + 1 ELSE 0)
    BY <2>2, <2>4, SubSeqProperties
  <2>6. N!Words(h) = w
    BY <2>3 DEF N!Words
  <2> HIDE DEF w
  <2> QED BY <2>2, <2>5, <2>6
<1>2. N!Sum(N!Words(h)) \in Nat /\ N!Sum(N!Words(h)) <= 30 * 65535
  BY <1>1, NetSumIs
<1>3. N!verify_checksum(h) <=> N!Sum(N!Words(h)) > 0 /\ N!Sum(N!Words(h)) % 65535 = 0
  BY <1>2, NetFoldIs DEF N!verify_checksum
<1>4. N!payload(h)[1] <= N!payload(h)[2] /\ N!payload(h)[2] <= h.len
  <2>1. N!HeaderLength(h) \in Nat
    <3>1. h.ihl \in Nat
      BY DEF NetHeader
    <3> QED BY <3>1 DEF N!HeaderLength
  <2> QED BY <2>1 DEF N!payload, NetHeader
<1> QED BY <1>3, <1>4

--------------------------------------------------------------------------------
(* lux/src/parser.rs: demosaicing. *)

LEMMA LuxRowAndColumn ==
  ASSUME NEW w \in Nat, NEW x \in Nat, x < w, NEW y \in Nat
  PROVE  (y * w + x) % w = x /\ (y * w + x) \div w = y
<1> DEFINE n == y * w + x
           d == n \div w
           m == n % w
<1>1. n \in Nat /\ w > 0
  <2>1. y * w \in Nat
    OBVIOUS
  <2> QED BY <2>1
<1>2. d \in Int /\ m \in Nat /\ m < w /\ n = w * d + m
  <2> HIDE DEF n
  <2> QED BY <1>1
<1>3. w * d + m = w * y + x
  BY <1>2
<1> HIDE DEF d, m
<1>4. w * (y - d) = m - x
  BY <1>2, <1>3
<1>5. y - d < 1
  <2> SUFFICES ASSUME y - d >= 1 PROVE FALSE
    BY <1>2
  <2> DEFINE e == y - d
  <2>1. e \in Int /\ e >= 1 /\ w * e = m - x /\ m - x < w
    BY <1>2, <1>4
  <2> HIDE DEF e
  <2>2. w * e >= w
    BY <2>1, <1>1
  <2> QED BY <1>2, <2>1, <2>2
<1>6. y - d > -1
  <2> SUFFICES ASSUME y - d <= -1 PROVE FALSE
    BY <1>2
  <2> DEFINE e == d - y
  <2>1. e \in Int /\ e >= 1 /\ w * e = x - m /\ x - m < w
    BY <1>2, <1>4
  <2> HIDE DEF e
  <2>2. w * e >= w
    BY <2>1, <1>1
  <2> QED BY <1>2, <2>1, <2>2
<1>7. d = y
  BY <1>2, <1>5, <1>6
<1>8. m = x
  BY <1>2, <1>3, <1>7
<1> QED BY <1>7, <1>8 DEF d, m

\* The colour the filter lets through at a pixel.
LuxHue(colour, x, y) == IF x % 2 # y % 2 THEN colour[2] ELSE IF x % 2 = 0 THEN colour[1] ELSE colour[3]

LEMMA LuxPixel ==
  ASSUME NEW colour, NEW width \in Nat, NEW height \in Nat,
         NEW x \in 0 .. width - 1, NEW y \in 0 .. height - 1
  PROVE  L!At(L!Mosaic(colour, width, height), width, height, x, y) = LuxHue(colour, x, y)
<1> DEFINE i == y * width + x + 1
<1>1. x \in Nat /\ y \in Nat /\ x < width /\ y + 1 <= height
  OBVIOUS
<1>2. y * width \in Nat /\ y * width + width <= width * height
  <2>1. (y + 1) * width <= height * width
    BY <1>1
  <2> QED BY <1>1, <2>1
<1>3. i \in 1 .. width * height /\ i - 1 = y * width + x
  BY <1>1, <1>2
<1>4. L!Mosaic(colour, width, height)[i] = LuxHue(colour, x, y)
  <2>1. (i - 1) % width = x /\ (i - 1) \div width = y
    BY <1>1, <1>3, LuxRowAndColumn
  <2> HIDE DEF i
  <2> QED BY <1>3, <2>1 DEF L!Mosaic, LuxHue
<1>5. L!Clamp(x, 0, width - 1) = x /\ L!Clamp(y, 0, height - 1) = y
  BY DEF L!Clamp
<1> QED BY <1>4, <1>5 DEF L!At

\* A picture of one colour, of any width and height, comes out of demosaicing with that
\* colour at every pixel that is not at its edge.
THEOREM LuxDemosaicIsExact ==
  ASSUME NEW colour \in [1 .. 3 -> Int], NEW width \in Nat, NEW height \in Nat
  PROVE  L!DemosaicIsExact(colour, width, height)
<1> SUFFICES ASSUME NEW x \in 1 .. width - 2, NEW y \in 1 .. height - 2
             PROVE  L!demosaic(L!Mosaic(colour, width, height), width, height, x, y)
                      = [c \in 1 .. 3 |-> 4 * colour[c]]
  BY DEF L!DemosaicIsExact
<1> DEFINE p(dx, dy) == L!At(L!Mosaic(colour, width, height), width, height, x + dx, y + dy)
           r == colour[1]
           g == colour[2]
           b == colour[3]
<1>1. r \in Int /\ g \in Int /\ b \in Int
  OBVIOUS
<1>2. \A dx, dy \in -1 .. 1 : p(dx, dy) = LuxHue(colour, x + dx, y + dy)
  <2> TAKE dx \in -1 .. 1, dy \in -1 .. 1
  <2>1. x + dx \in 0 .. width - 1 /\ y + dy \in 0 .. height - 1
    OBVIOUS
  <2> QED BY <2>1, LuxPixel
<1>3. /\ p(0, 0) = LuxHue(colour, x, y) /\ p(-1, 0) = LuxHue(colour, x - 1, y)
      /\ p(1, 0) = LuxHue(colour, x + 1, y) /\ p(0, -1) = LuxHue(colour, x, y - 1)
      /\ p(0, 1) = LuxHue(colour, x, y + 1) /\ p(-1, -1) = LuxHue(colour, x - 1, y - 1)
      /\ p(1, -1) = LuxHue(colour, x + 1, y - 1) /\ p(-1, 1) = LuxHue(colour, x - 1, y + 1)
      /\ p(1, 1) = LuxHue(colour, x + 1, y + 1)
  <2>1. /\ x + 0 = x /\ x + (-1) = x - 1 /\ y + 0 = y /\ y + (-1) = y - 1
        /\ -1 \in -1 .. 1 /\ 0 \in -1 .. 1 /\ 1 \in -1 .. 1
    OBVIOUS
  <2> HIDE DEF p
  <2> QED BY <1>2, <2>1
<1>4. L!demosaic(L!Mosaic(colour, width, height), width, height, x, y)
        = LET here == 4 * p(0, 0)
              sides == 2 * (p(-1, 0) + p(1, 0))
              ends == 2 * (p(0, -1) + p(0, 1))
              cross == p(-1, 0) + p(1, 0) + p(0, -1) + p(0, 1)
              corners == p(-1, -1) + p(1, -1) + p(-1, 1) + p(1, 1)
          IN IF x % 2 = y % 2
             THEN IF y % 2 = 0 THEN <<here, cross, corners>> ELSE <<corners, cross, here>>
             ELSE IF y % 2 = 0 THEN <<sides, here, ends>> ELSE <<ends, here, sides>>
  BY DEF L!demosaic
<1>5. [c \in 1 .. 3 |-> 4 * colour[c]] = <<4 * r, 4 * g, 4 * b>>
  OBVIOUS
<1>6. /\ x % 2 \in {0, 1} /\ (x - 1) % 2 = 1 - (x % 2) /\ (x + 1) % 2 = 1 - (x % 2)
      /\ y % 2 \in {0, 1} /\ (y - 1) % 2 = 1 - (y % 2) /\ (y + 1) % 2 = 1 - (y % 2)
  OBVIOUS
<1> HIDE DEF p, r, g, b
<1>7. CASE y % 2 = 0 /\ x % 2 = 0
  <2>1. /\ p(0, 0) = r /\ p(-1, 0) = g /\ p(1, 0) = g /\ p(0, -1) = g /\ p(0, 1) = g
        /\ p(-1, -1) = b /\ p(1, -1) = b /\ p(-1, 1) = b /\ p(1, 1) = b
    BY <1>3, <1>6, <1>7 DEF LuxHue, r, g, b
  <2> QED BY <1>1, <1>4, <1>5, <1>7, <2>1
<1>8. CASE y % 2 = 0 /\ x % 2 = 1
  <2>1. /\ p(0, 0) = g /\ p(-1, 0) = r /\ p(1, 0) = r /\ p(0, -1) = b /\ p(0, 1) = b
        /\ p(-1, -1) = g /\ p(1, -1) = g /\ p(-1, 1) = g /\ p(1, 1) = g
    BY <1>3, <1>6, <1>8 DEF LuxHue, r, g, b
  <2> QED BY <1>1, <1>4, <1>5, <1>8, <2>1
<1>9. CASE y % 2 = 1 /\ x % 2 = 0
  <2>1. /\ p(0, 0) = g /\ p(-1, 0) = b /\ p(1, 0) = b /\ p(0, -1) = r /\ p(0, 1) = r
        /\ p(-1, -1) = g /\ p(1, -1) = g /\ p(-1, 1) = g /\ p(1, 1) = g
    BY <1>3, <1>6, <1>9 DEF LuxHue, r, g, b
  <2> QED BY <1>1, <1>4, <1>5, <1>9, <2>1
<1>10. CASE y % 2 = 1 /\ x % 2 = 1
  <2>1. /\ p(0, 0) = b /\ p(-1, 0) = g /\ p(1, 0) = g /\ p(0, -1) = g /\ p(0, 1) = g
        /\ p(-1, -1) = r /\ p(1, -1) = r /\ p(-1, 1) = r /\ p(1, 1) = r
    BY <1>3, <1>6, <1>10 DEF LuxHue, r, g, b
  <2> QED BY <1>1, <1>4, <1>5, <1>10, <2>1
<1> QED BY <1>6, <1>7, <1>8, <1>9, <1>10

--------------------------------------------------------------------------------
(* lux/src/parser.rs: the walk over the directories. *)

LuxTag(S) == {L!Absent} \cup {<<v>> : v \in S}
LuxDirectory ==
  [width : LuxTag(Nat), height : LuxTag(Nat), compression : LuxTag(Nat),
   offsets : LuxTag(Seq(Nat)), counts : LuxTag(Seq(Nat)), next : Nat, truncated : BOOLEAN]
\* A file: its first directory is there, and where the next one is said to be may be
\* anywhere.
LuxFile(dirs) == dirs \in Seq(LuxDirectory) /\ dirs # << >>
LuxWalk ==
  [at : Nat, width : Nat, height : Nat, compression : Word16, offsets : Seq(Nat), counts : Seq(Nat),
   status : {"walk", "corrupt", "raw", "missing"}]

LuxAfterOf(dirs, after) ==
  after = [n \in 0 .. 10 |-> IF n = 0 THEN L!Start(1) ELSE L!Walk(after[n - 1], dirs)]
LuxChainOf(dirs, at) == at = [n \in 0 .. 9 |-> IF n = 0 THEN 1 ELSE dirs[at[n - 1]].next]

\* The walk carries the tags as last given up to directory n.
LuxCarried(w, dirs, n) ==
  /\ L!GivenSoFar("width", dirs, n, w.width, 0) /\ L!GivenSoFar("height", dirs, n, w.height, 0)
  /\ L!GivenSoFar("offsets", dirs, n, w.offsets, << >>)
  /\ \E c \in Nat : L!GivenSoFar("compression", dirs, n, c, 0) /\ w.compression = c % 65536

\* What is known of the walk before its turn n: at no directory so far were the tags
\* raw; or it stopped at the first where they were.
LuxAtRaw(w, dirs) ==
  \E n \in 0 .. 9 :
    /\ w.at = L!Chain(dirs)[n] /\ LuxCarried(w, dirs, n)
    /\ L!RawSoFar(dirs, n) /\ \A m \in 0 .. n - 1 : ~L!RawSoFar(dirs, m)
LuxOnTheWay(w, dirs, n) ==
  /\ w.at \in DOMAIN dirs /\ LuxCarried(w, dirs, n - 1)
  /\ n \in 0 .. 9 => w.at = L!Chain(dirs)[n]
  /\ \A m \in 0 .. 9 : m < n => ~L!RawSoFar(dirs, m)
LuxWalked(w, dirs, n) ==
  /\ w \in LuxWalk
  /\ w.status = "raw" => LuxAtRaw(w, dirs)
  /\ w.status = "walk" => LuxOnTheWay(w, dirs, n)

LEMMA LuxAfterExists == ASSUME NEW dirs PROVE \E after : LuxAfterOf(dirs, after)
<1> DEFINE Up(n, f) == f = [m \in 0 .. n |-> IF m = 0 THEN L!Start(1) ELSE L!Walk(f[m - 1], dirs)]
           S == {n \in Nat : \E f : Up(n, f)}
<1>1. 0 \in S
  <2>1. Up(0, [m \in 0 .. 0 |-> L!Start(1)])
    OBVIOUS
  <2> QED BY <2>1
<1>2. ASSUME NEW n \in 0 .. 10, n # 10, n \in S PROVE n + 1 \in S
  <2>1. PICK f : Up(n, f)
    BY <1>2
  <2> DEFINE more == [m \in 0 .. n + 1 |-> IF m <= n THEN f[m] ELSE L!Walk(f[n], dirs)]
  <2>2. ASSUME NEW m \in 0 .. n + 1
        PROVE  more[m] = IF m = 0 THEN L!Start(1) ELSE L!Walk(more[m - 1], dirs)
    <3>1. CASE m = 0
      BY <2>1, <3>1
    <3>2. CASE m # 0 /\ m <= n
      <4>1. m \in 0 .. n /\ m - 1 \in 0 .. n /\ m - 1 \in 0 .. n + 1
        BY <3>2
      <4>2. f[m] = L!Walk(f[m - 1], dirs)
        BY <2>1, <3>2, <4>1
      <4>3. more[m] = f[m] /\ more[m - 1] = f[m - 1]
        BY <4>1
      <4> QED BY <3>2, <4>2, <4>3
    <3>3. CASE m = n + 1
      <4>1. m # 0 /\ m - 1 = n /\ n \in 0 .. n + 1 /\ ~(m <= n)
        BY <3>3
      <4>2. more[m] = L!Walk(f[n], dirs) /\ more[m - 1] = f[n]
        BY <4>1
      <4> QED BY <4>1, <4>2
    <3> QED BY <3>1, <3>2, <3>3
  <2>3. Up(n + 1, more)
    BY <2>2
  <2> HIDE DEF Up, more
  <2> QED BY <1>2, <2>3
<1> HIDE DEF S
<1>3. 10 \in Nat /\ 10 \in 0 .. 10
  OBVIOUS
<1>4. \A n \in 0 .. 10 : n \in S
  BY <1>1, <1>2, <1>3, Climb
<1>5. 10 \in S
  BY <1>3, <1>4
<1> QED BY <1>5 DEF S, LuxAfterOf

LEMMA LuxChainExists == ASSUME NEW dirs PROVE \E at : LuxChainOf(dirs, at)
<1> DEFINE Up(n, f) == f = [m \in 0 .. n |-> IF m = 0 THEN 1 ELSE dirs[f[m - 1]].next]
           S == {n \in Nat : \E f : Up(n, f)}
<1>1. 0 \in S
  <2>1. Up(0, [m \in 0 .. 0 |-> 1])
    OBVIOUS
  <2> QED BY <2>1
<1>2. ASSUME NEW n \in 0 .. 9, n # 9, n \in S PROVE n + 1 \in S
  <2>1. PICK f : Up(n, f)
    BY <1>2
  <2> DEFINE more == [m \in 0 .. n + 1 |-> IF m <= n THEN f[m] ELSE dirs[f[n]].next]
  <2>2. ASSUME NEW m \in 0 .. n + 1
        PROVE  more[m] = IF m = 0 THEN 1 ELSE dirs[more[m - 1]].next
    <3>1. CASE m = 0
      BY <2>1, <3>1
    <3>2. CASE m # 0 /\ m <= n
      <4>1. m \in 0 .. n /\ m - 1 \in 0 .. n /\ m - 1 \in 0 .. n + 1
        BY <3>2
      <4>2. f[m] = dirs[f[m - 1]].next
        BY <2>1, <3>2, <4>1
      <4>3. more[m] = f[m] /\ more[m - 1] = f[m - 1]
        BY <4>1
      <4> QED BY <3>2, <4>2, <4>3
    <3>3. CASE m = n + 1
      <4>1. m # 0 /\ m - 1 = n /\ n \in 0 .. n + 1 /\ ~(m <= n)
        BY <3>3
      <4>2. more[m] = dirs[f[n]].next /\ more[m - 1] = f[n]
        BY <4>1
      <4> QED BY <4>1, <4>2
    <3> QED BY <3>1, <3>2, <3>3
  <2>3. Up(n + 1, more)
    BY <2>2
  <2> HIDE DEF Up, more
  <2> QED BY <1>2, <2>3
<1> HIDE DEF S
<1>3. 9 \in Nat /\ 9 \in 0 .. 9
  OBVIOUS
<1>4. \A n \in 0 .. 9 : n \in S
  BY <1>1, <1>2, <1>3, Climb
<1>5. 9 \in S
  BY <1>3, <1>4
<1> QED BY <1>5 DEF S, LuxChainOf

LEMMA LuxTagIs ==
  ASSUME NEW S, NEW tag \in LuxTag(S), NEW old \in S
  PROVE  /\ L!Or(tag, old) \in S
         /\ tag = L!Absent => L!Or(tag, old) = old
         /\ tag # L!Absent => tag = <<L!Or(tag, old)>>
  BY DEF LuxTag, L!Or, L!Absent

LEMMA LuxTagsAre ==
  ASSUME NEW w \in LuxWalk, NEW d \in LuxDirectory
  PROVE  /\ L!Tags(w, d) \in LuxWalk
         /\ L!Tags(w, d).at = w.at /\ L!Tags(w, d).status = w.status
         /\ L!Tags(w, d).width = L!Or(d.width, w.width)
         /\ L!Tags(w, d).height = L!Or(d.height, w.height)
         /\ L!Tags(w, d).compression = L!Or(d.compression, w.compression) % 65536
         /\ L!Tags(w, d).offsets = L!Or(d.offsets, w.offsets)
<1>1. /\ w.width \in Nat /\ w.height \in Nat /\ w.compression \in Word16
      /\ w.offsets \in Seq(Nat) /\ w.counts \in Seq(Nat)
      /\ w.at \in Nat /\ w.status \in {"walk", "corrupt", "raw", "missing"}
  BY DEF LuxWalk
<1>2. /\ d.width \in LuxTag(Nat) /\ d.height \in LuxTag(Nat) /\ d.compression \in LuxTag(Nat)
      /\ d.offsets \in LuxTag(Seq(Nat)) /\ d.counts \in LuxTag(Seq(Nat))
  BY DEF LuxDirectory
<1>3. w.compression \in Nat
  BY <1>1 DEF Word16
<1> DEFINE wide == L!Or(d.width, w.width)
           high == L!Or(d.height, w.height)
           c == L!Or(d.compression, w.compression)
           o == L!Or(d.offsets, w.offsets)
           n == L!Or(d.counts, w.counts)
           t == [at |-> w.at, width |-> wide, height |-> high, compression |-> c % 65536,
                 offsets |-> o, counts |-> n, status |-> w.status]
<1>4. wide \in Nat /\ high \in Nat /\ c \in Nat
  BY <1>1, <1>2, <1>3, LuxTagIs
<1>5. o \in Seq(Nat) /\ n \in Seq(Nat)
  BY <1>1, <1>2, LuxTagIs
<1>6. L!Tags(w, d) = t
  BY DEF L!Tags, L!Short
<1> HIDE DEF wide, high, c, o, n
<1>7. c % 65536 \in Word16
  BY <1>4 DEF Word16
<1>8. t \in LuxWalk
  BY <1>1, <1>4, <1>5, <1>7 DEF LuxWalk
<1>9. L!Tags(w, d) \in LuxWalk
  BY <1>6, <1>8
<1> QED BY <1>6, <1>9 DEF wide, high, c, o

\* What directory n of the chain gives for a tag.
LuxGives(tag, dirs, n) == dirs[L!Chain(dirs)[n]][tag]

\* What one more directory gives is what the walk takes from it.
LEMMA LuxGivenNext ==
  ASSUME NEW tag, NEW dirs, NEW n \in 0 .. 9, NEW old, NEW unset,
         L!GivenSoFar(tag, dirs, n - 1, old, unset),
         NEW given, given = LuxGives(tag, dirs, n), given = L!Absent \/ \E v : given = <<v>>
  PROVE  L!GivenSoFar(tag, dirs, n, L!Or(given, old), unset)
<1> DEFINE last(k, m) == L!LastWith(tag, dirs, k, m)
<1>1. CASE given # L!Absent
  <2>1. given = <<L!Or(given, old)>>
    BY <1>1 DEF L!Or
  <2>2. last(n, n)
    BY <1>1 DEF L!LastWith, LuxGives
  <2>3. dirs[L!Chain(dirs)[n]][tag] = <<L!Or(given, old)>>
    BY <2>1 DEF LuxGives
  <2> HIDE DEF last
  <2> QED BY <2>2, <2>3 DEF L!GivenSoFar, last
<1>2. CASE given = L!Absent
  <2>1. L!Or(given, old) = old
    BY <1>2 DEF L!Or
  <2>2. ~last(n, n)
    BY <1>2 DEF L!LastWith, LuxGives
  <2>3. \A m \in 0 .. n - 1 : last(n, m) <=> last(n - 1, m)
    <3>1. dirs[L!Chain(dirs)[n]][tag] = L!Absent
      BY <1>2 DEF LuxGives
    <3> SUFFICES ASSUME NEW m \in 0 .. n - 1 PROVE last(n, m) <=> last(n - 1, m)
      OBVIOUS
    <3>2. \A k : k \in m + 1 .. n <=> k \in m + 1 .. n - 1 \/ k = n
      OBVIOUS
    <3> QED BY <3>1, <3>2 DEF L!LastWith
  <2>4. \A m \in 0 .. n : m = n \/ m \in 0 .. n - 1
    OBVIOUS
  <2>5. \A m \in 0 .. n - 1 : m \in 0 .. n
    OBVIOUS
  <2> HIDE DEF last
  <2>6. (\E m \in 0 .. n : last(n, m)) <=> \E m \in 0 .. n - 1 : last(n - 1, m)
    BY <2>2, <2>3, <2>4, <2>5
  <2>7. (\E m \in 0 .. n : last(n, m) /\ dirs[L!Chain(dirs)[m]][tag] = <<old>>)
          <=> \E m \in 0 .. n - 1 : last(n - 1, m) /\ dirs[L!Chain(dirs)[m]][tag] = <<old>>
    BY <2>2, <2>3, <2>4, <2>5
  <2> QED BY <2>1, <2>6, <2>7 DEF L!GivenSoFar, last
<1> QED BY <1>1, <1>2

LEMMA LuxShort ==
  ASSUME NEW c \in Nat
  PROVE  /\ c % 65536 \in Word16 /\ (c % 65536) % 65536 = c % 65536
         /\ c = 0 => c % 65536 = 0
  BY DEF Word16

LEMMA LuxCarriedNext ==
  ASSUME NEW dirs, NEW n \in 0 .. 9, NEW w \in LuxWalk, LuxCarried(w, dirs, n - 1),
         NEW d \in LuxDirectory, d = dirs[L!Chain(dirs)[n]]
  PROVE  LuxCarried(L!Tags(w, d), dirs, n)
<1> DEFINE t == L!Tags(w, d)
<1>1. /\ d.width \in LuxTag(Nat) /\ d.height \in LuxTag(Nat) /\ d.compression \in LuxTag(Nat)
      /\ d.offsets \in LuxTag(Seq(Nat))
  BY DEF LuxDirectory
<1>2. /\ d.width = L!Absent \/ \E v : d.width = <<v>>
      /\ d.height = L!Absent \/ \E v : d.height = <<v>>
      /\ d.compression = L!Absent \/ \E v : d.compression = <<v>>
      /\ d.offsets = L!Absent \/ \E v : d.offsets = <<v>>
  BY <1>1 DEF LuxTag
<1>3. /\ t.width = L!Or(d.width, w.width) /\ t.height = L!Or(d.height, w.height)
      /\ t.compression = L!Or(d.compression, w.compression) % 65536
      /\ t.offsets = L!Or(d.offsets, w.offsets)
  BY LuxTagsAre
<1> HIDE DEF t
<1>4. L!GivenSoFar("width", dirs, n, t.width, 0)
  <2>1. L!GivenSoFar("width", dirs, n - 1, w.width, 0)
    BY DEF LuxCarried
  <2>2. d.width = LuxGives("width", dirs, n)
    BY DEF LuxGives
  <2>3. L!GivenSoFar("width", dirs, n, L!Or(d.width, w.width), 0)
    BY <1>2, <2>1, <2>2, LuxGivenNext
  <2> QED BY <1>3, <2>3
<1>5. L!GivenSoFar("height", dirs, n, t.height, 0)
  <2>1. L!GivenSoFar("height", dirs, n - 1, w.height, 0)
    BY DEF LuxCarried
  <2>2. d.height = LuxGives("height", dirs, n)
    BY DEF LuxGives
  <2>3. L!GivenSoFar("height", dirs, n, L!Or(d.height, w.height), 0)
    BY <1>2, <2>1, <2>2, LuxGivenNext
  <2> QED BY <1>3, <2>3
<1>6. L!GivenSoFar("offsets", dirs, n, t.offsets, << >>)
  <2>1. L!GivenSoFar("offsets", dirs, n - 1, w.offsets, << >>)
    BY DEF LuxCarried
  <2>2. d.offsets = LuxGives("offsets", dirs, n)
    BY DEF LuxGives
  <2>3. L!GivenSoFar("offsets", dirs, n, L!Or(d.offsets, w.offsets), << >>)
    BY <1>2, <2>1, <2>2, LuxGivenNext
  <2> QED BY <1>3, <2>3
<1>7. \E c \in Nat : L!GivenSoFar("compression", dirs, n, c, 0) /\ t.compression = c % 65536
  <2>1. PICK c \in Nat : L!GivenSoFar("compression", dirs, n - 1, c, 0) /\ w.compression = c % 65536
    BY DEF LuxCarried
  <2>2. d.compression = LuxGives("compression", dirs, n)
    BY DEF LuxGives
  <2> DEFINE g == L!Or(d.compression, c)
  <2>3. L!GivenSoFar("compression", dirs, n, g, 0)
    BY <1>2, <2>1, <2>2, LuxGivenNext
  <2>4. g \in Nat
    BY <1>1, LuxTagIs
  <2>5. CASE d.compression = L!Absent
    <3>1. g = c /\ L!Or(d.compression, w.compression) = w.compression
      BY <2>5 DEF L!Or
    <3>2. t.compression = (c % 65536) % 65536
      BY <1>3, <2>1, <3>1
    <3>3. t.compression = g % 65536
      BY <3>1, <3>2, LuxShort
    <3> QED BY <2>3, <2>4, <3>3
  <2>6. CASE d.compression # L!Absent
    <3>1. g = L!Or(d.compression, w.compression)
      BY <2>6 DEF L!Or
    <3>2. t.compression = g % 65536
      BY <1>3, <3>1
    <3> HIDE DEF g
    <3> QED BY <2>3, <2>4, <3>2
  <2> QED BY <2>5, <2>6
<1> QED BY <1>4, <1>5, <1>6, <1>7 DEF LuxCarried, t

\* There is but one directory that has the tag last.
LEMMA LuxLastIsOne ==
  ASSUME NEW tag, NEW dirs, NEW n \in 0 .. 9, NEW i, NEW j,
         L!LastWith(tag, dirs, n, i), L!LastWith(tag, dirs, n, j)
  PROVE  i = j
  BY DEF L!LastWith

\* What is carried is raw when what the directories last gave is.
LEMMA LuxRawIs ==
  ASSUME NEW dirs, NEW n \in 0 .. 9, NEW w \in LuxWalk, LuxCarried(w, dirs, n)
  PROVE  L!RawSoFar(dirs, n) <=> L!IsRaw(w)
<1> DEFINE last(tag, m) == L!LastWith(tag, dirs, n, m)
           dir(m) == dirs[L!Chain(dirs)[m]]
<1>1. w.offsets # << >> <=> \E m \in 0 .. n : last("offsets", m) /\ dir(m).offsets # << << >> >>
  <2>1. L!GivenSoFar("offsets", dirs, n, w.offsets, << >>)
    BY DEF LuxCarried
  <2>2. CASE \E m \in 0 .. n : last("offsets", m)
    <3>1. PICK m \in 0 .. n : last("offsets", m) /\ dir(m).offsets = <<w.offsets>>
      BY <2>1, <2>2 DEF L!GivenSoFar
    <3>2. \A k \in 0 .. n : last("offsets", k) => k = m
      BY <3>1, LuxLastIsOne
    <3>3. w.offsets # << >> <=> dir(m).offsets # << << >> >>
      BY <3>1
    <3> HIDE DEF last, dir
    <3> QED BY <3>1, <3>2, <3>3
  <2>3. CASE ~ \E m \in 0 .. n : last("offsets", m)
    BY <2>1, <2>3 DEF L!GivenSoFar
  <2> QED BY <2>2, <2>3
<1>2. w.compression \in {1, 32769, 32767}
        <=> \E m \in 0 .. n : last("compression", m) /\ dir(m).compression[1] % 65536 \in {1, 32769, 32767}
  <2>1. PICK c \in Nat : L!GivenSoFar("compression", dirs, n, c, 0) /\ w.compression = c % 65536
    BY DEF LuxCarried
  <2>2. CASE \E m \in 0 .. n : last("compression", m)
    <3>1. PICK m \in 0 .. n : last("compression", m) /\ dir(m).compression = <<c>>
      BY <2>1, <2>2 DEF L!GivenSoFar
    <3>2. \A k \in 0 .. n : last("compression", k) => k = m
      BY <3>1, LuxLastIsOne
    <3>3. dir(m).compression[1] = c
      BY <3>1
    <3> HIDE DEF last, dir
    <3> QED BY <2>1, <3>1, <3>2, <3>3
  <2>3. CASE ~ \E m \in 0 .. n : last("compression", m)
    <3>1. c = 0
      BY <2>1, <2>3 DEF L!GivenSoFar
    <3>2. w.compression = 0
      BY <2>1, <3>1, LuxShort
    <3> QED BY <2>3, <3>2
  <2> QED BY <2>2, <2>3
<1> DEFINE rawOffsets == \E m \in 0 .. n : last("offsets", m) /\ dir(m).offsets # << << >> >>
           rawCompression ==
             \E m \in 0 .. n : last("compression", m) /\ dir(m).compression[1] % 65536 \in {1, 32769, 32767}
<1>3. L!RawSoFar(dirs, n) <=> rawOffsets /\ rawCompression
  BY ONLY SMTT(60) DEF L!RawSoFar, L!Short
<1>4. L!IsRaw(w) <=> rawOffsets /\ rawCompression
  <2>1. w.offsets # << >> <=> rawOffsets
    BY ONLY <1>1
  <2>2. w.compression \in {1, 32769, 32767} <=> rawCompression
    BY ONLY <1>2
  <2> HIDE DEF rawOffsets, rawCompression
  <2> QED BY ONLY <2>1, <2>2 DEF L!IsRaw
<1> HIDE DEF rawOffsets, rawCompression
<1> QED BY ONLY <1>3, <1>4, Zenon

LEMMA LuxChainIs == ASSUME NEW dirs PROVE LuxChainOf(dirs, L!Chain(dirs))
<1>1. L!Chain(dirs) = CHOOSE f : LuxChainOf(dirs, f)
  BY DEF L!Chain, LuxChainOf
<1> QED BY <1>1, LuxChainExists

\* One turn of the walk.
LEMMA LuxWalkKeeps ==
  ASSUME NEW dirs, LuxFile(dirs), NEW n \in 0 .. 9, NEW w, LuxWalked(w, dirs, n)
  PROVE  LuxWalked(L!Walk(w, dirs), dirs, n + 1)
<1> DEFINE d == dirs[w.at]
           t == L!Tags(w, d)
<1>1. CASE w.status # "walk"
  BY <1>1 DEF LuxWalked, L!Walk
<1>2. CASE w.status = "walk" /\ d.truncated
  <2>1. L!Walk(w, dirs) = [w EXCEPT !.status = "corrupt"]
    BY <1>2 DEF L!Walk
  <2>2. [w EXCEPT !.status = "corrupt"] \in LuxWalk /\ [w EXCEPT !.status = "corrupt"].status = "corrupt"
    BY DEF LuxWalked, LuxWalk
  <2> QED BY <2>1, <2>2 DEF LuxWalked
<1>3. CASE w.status = "walk" /\ ~d.truncated
  <2>1. LuxOnTheWay(w, dirs, n) /\ w \in LuxWalk
    BY <1>3 DEF LuxWalked
  <2>2. w.at \in DOMAIN dirs /\ w.at = L!Chain(dirs)[n] /\ LuxCarried(w, dirs, n - 1)
        /\ \A m \in 0 .. 9 : m < n => ~L!RawSoFar(dirs, m)
    BY <2>1 DEF LuxOnTheWay
  <2>3. d \in LuxDirectory /\ d = dirs[L!Chain(dirs)[n]]
    BY <2>2 DEF LuxFile
  <2>4. t \in LuxWalk /\ t.at = w.at /\ t.status = w.status
    BY <2>1, <2>3, LuxTagsAre
  <2>5. LuxCarried(t, dirs, n)
    BY <2>1, <2>2, <2>3, LuxCarriedNext
  <2>6. L!IsRaw(t) <=> L!RawSoFar(dirs, n)
    BY <2>4, <2>5, LuxRawIs
  <2>7. d.next \in Nat
    BY <2>3 DEF LuxDirectory
  <2> HIDE DEF d, t
  <2>8. CASE L!IsRaw(t)
    <3> DEFINE r == [t EXCEPT !.status = "raw"]
    <3>1. L!Walk(w, dirs) = r
      BY <1>3, <2>8 DEF L!Walk, d, t
    <3>2. /\ r \in LuxWalk /\ r.status = "raw" /\ r.at = w.at /\ r.width = t.width /\ r.height = t.height
          /\ r.offsets = t.offsets /\ r.compression = t.compression
      BY <2>4 DEF LuxWalk
    <3> HIDE DEF r
    <3>3. LuxCarried(r, dirs, n)
      BY <2>5, <3>2 DEF LuxCarried
    <3>4. \A m \in 0 .. n - 1 : ~L!RawSoFar(dirs, m)
      BY <2>2
    <3>5. LuxAtRaw(r, dirs)
      BY <2>2, <2>6, <2>8, <3>2, <3>3, <3>4 DEF LuxAtRaw
    <3> QED BY <3>1, <3>2, <3>5 DEF LuxWalked
  <2>9. CASE ~L!IsRaw(t) /\ d.next \notin DOMAIN dirs
    <3> DEFINE r == [t EXCEPT !.status = "missing"]
    <3>1. L!Walk(w, dirs) = r
      BY <1>3, <2>9 DEF L!Walk, d, t
    <3>2. r \in LuxWalk /\ r.status = "missing"
      BY <2>4 DEF LuxWalk
    <3> QED BY <3>1, <3>2 DEF LuxWalked
  <2>10. CASE ~L!IsRaw(t) /\ d.next \in DOMAIN dirs
    <3> DEFINE r == [t EXCEPT !.at = d.next]
    <3>1. L!Walk(w, dirs) = r
      BY <1>3, <2>10 DEF L!Walk, d, t
    <3>2. /\ r \in LuxWalk /\ r.status = "walk" /\ r.at = d.next /\ r.width = t.width
          /\ r.height = t.height /\ r.offsets = t.offsets /\ r.compression = t.compression
      BY <1>3, <2>4, <2>7 DEF LuxWalk
    <3> HIDE DEF r
    <3>3. LuxCarried(r, dirs, n)
      BY <2>5, <3>2 DEF LuxCarried
    <3>4. n + 1 \in 0 .. 9 => r.at = L!Chain(dirs)[n + 1]
      <4> SUFFICES ASSUME n + 1 \in 0 .. 9 PROVE r.at = L!Chain(dirs)[n + 1]
        OBVIOUS
      <4>1. L!Chain(dirs)[n + 1] = dirs[L!Chain(dirs)[(n + 1) - 1]].next
        BY LuxChainIs DEF LuxChainOf
      <4>2. (n + 1) - 1 = n
        OBVIOUS
      <4> QED BY <2>3, <3>2, <4>1, <4>2
    <3>5. ASSUME NEW m \in 0 .. 9, m < n + 1 PROVE ~L!RawSoFar(dirs, m)
      <4>1. m < n \/ m = n
        BY <3>5
      <4> QED BY <2>2, <2>6, <2>10, <4>1
    <3>6. (n + 1) - 1 = n
      OBVIOUS
    <3>7. LuxOnTheWay(r, dirs, n + 1)
      BY <2>10, <3>2, <3>3, <3>4, <3>5, <3>6 DEF LuxOnTheWay
    <3> QED BY <3>1, <3>2, <3>7 DEF LuxWalked
  <2> QED BY <2>8, <2>9, <2>10
<1> QED BY <1>1, <1>2, <1>3 DEF LuxWalked, LuxWalk, LuxOnTheWay, LuxFile, LuxDirectory

\* For files of any number of directories, with any tags and in any order: what
\* parse_arw (lux/src/parser.rs) decodes is found at the first directory at which the
\* tags, each as last given, are raw, with the size last given, and it panics only on
\* rows of no pixels or too many pixels to count.
THEOREM LuxFirstRawIsDecoded ==
  ASSUME NEW dirs, LuxFile(dirs), NEW bytes \in Nat
  PROVE  L!FirstRawIsDecoded(dirs, bytes)
<1> DEFINE w == L!Walked(dirs)
           image == L!parse_arw(dirs, bytes)
           samples == IF w.compression = 1 THEN w.counts[1] \div 2 ELSE L!PixelCount(w)
           after == CHOOSE f : LuxAfterOf(dirs, f)
<1> SUFFICES ASSUME image.result # "error"
             PROVE  /\ \E n \in 0 .. 9 :
                         /\ image.from = L!Chain(dirs)[n] /\ L!RawSoFar(dirs, n)
                         /\ \A m \in 0 .. n - 1 : ~L!RawSoFar(dirs, m)
                         /\ L!GivenSoFar("width", dirs, n, image.width, 0)
                         /\ L!GivenSoFar("height", dirs, n, image.height, 0)
                    /\ image.result = "panic" => image.width = 0 \/ image.width * image.height >= L!Wide
  BY DEF L!FirstRawIsDecoded
<1>2. w = after[10]
  BY DEF L!Walked, LuxAfterOf
<1>3. LuxAfterOf(dirs, after)
  BY LuxAfterExists
<1> HIDE DEF after, w
<1> DEFINE S == {n \in 0 .. 10 : LuxWalked(after[n], dirs, n)}
<1>4. 0 \in S
  <2> DEFINE s == L!Start(1)
  <2>1. after[0] = s
    BY <1>3 DEF LuxAfterOf
  <2>2. /\ s \in LuxWalk /\ s.status = "walk" /\ s.at = 1 /\ s.width = 0 /\ s.height = 0
        /\ s.compression = 0 /\ s.offsets = << >>
    BY DEF L!Start, LuxWalk, Word16
  <2> HIDE DEF s
  <2>3. \A tag, value : L!GivenSoFar(tag, dirs, 0 - 1, value, value)
    BY DEF L!GivenSoFar
  <2>4. LuxCarried(s, dirs, 0 - 1)
    BY <2>2, <2>3, LuxShort DEF LuxCarried
  <2>5. 1 \in DOMAIN dirs
    BY DEF LuxFile
  <2>6. L!Chain(dirs)[0] = 1
    BY LuxChainIs DEF LuxChainOf
  <2>7. LuxOnTheWay(s, dirs, 0)
    BY <2>2, <2>4, <2>5, <2>6 DEF LuxOnTheWay
  <2> QED BY <2>1, <2>2, <2>7 DEF LuxWalked
<1>5. ASSUME NEW n \in 0 .. 10, n # 10, n \in S PROVE n + 1 \in S
  <2>1. n + 1 \in 0 .. 10 /\ (n + 1) - 1 = n /\ n + 1 # 0 /\ n \in 0 .. 9
    BY <1>5
  <2>2. after[n + 1] = L!Walk(after[n], dirs)
    BY <1>3, <2>1 DEF LuxAfterOf
  <2>3. LuxWalked(after[n], dirs, n)
    BY <1>5
  <2>4. LuxWalked(L!Walk(after[n], dirs), dirs, n + 1)
    BY <2>1, <2>3, LuxWalkKeeps
  <2> QED BY <2>1, <2>2, <2>4
<1> HIDE DEF S
<1>6. \A n \in 0 .. 10 : n \in S
  BY <1>4, <1>5, Climb
<1>7. LuxWalked(w, dirs, 10)
  BY <1>2, <1>6 DEF S
<1>8. /\ w.status \notin {"corrupt", "missing", "walk"} /\ w.compression \in {1, 32769}
      /\ w.counts # << >>
      /\ ~(w.compression = 1 /\ w.counts[1] < L!PixelCount(w) * 2)
      /\ image = [result |-> L!Demosaiced(w, samples), from |-> w.at, width |-> w.width, height |-> w.height]
  BY DEF L!parse_arw, L!Failed, w
<1>9. LuxAtRaw(w, dirs) /\ w \in LuxWalk
  BY <1>7, <1>8 DEF LuxWalked, LuxWalk
<1>10. /\ image.from = w.at /\ image.width = w.width /\ image.height = w.height
       /\ image.result = L!Demosaiced(w, samples)
  BY <1>8
<1> HIDE DEF image
<1>11. image.result = "panic" => image.width = 0 \/ image.width * image.height >= L!Wide
  <2> DEFINE p == w.width * w.height
             c == w.counts[1]
  <2>1. p \in Nat /\ c \in Nat
    <3>1. w.width \in Nat /\ w.height \in Nat /\ w.counts \in Seq(Nat) /\ w.counts # << >>
      BY <1>8, <1>9 DEF LuxWalk
    <3> QED BY <3>1
  <2>2. L!PixelCount(w) = p % 256 /\ L!Wide = 256
    BY DEF L!PixelCount, L!Wide
  <2>3. ~(w.compression = 1 /\ c < (p % 256) * 2)
    BY <1>8, <2>2
  <2>4. samples = IF w.compression = 1 THEN c \div 2 ELSE p % 256
    BY <2>2
  <2>5. image.result = "panic" => w.width = 0 \/ samples < p
    BY <1>10 DEF L!Demosaiced
  <2> HIDE DEF p, c, samples
  <2>6. p < 256 => (p % 256 = p /\ (c >= p * 2 => c \div 2 >= p))
    BY <2>1
  <2>7. samples < p => p >= 256
    BY <2>1, <2>3, <2>4, <2>6
  <2>8. image.width * image.height = p
    BY <1>10 DEF p
  <2> QED BY <1>10, <2>2, <2>5, <2>7, <2>8
<1>12. \E n \in 0 .. 9 :
         /\ image.from = L!Chain(dirs)[n] /\ L!RawSoFar(dirs, n)
         /\ \A m \in 0 .. n - 1 : ~L!RawSoFar(dirs, m)
         /\ L!GivenSoFar("width", dirs, n, image.width, 0)
         /\ L!GivenSoFar("height", dirs, n, image.height, 0)
  BY <1>9, <1>10 DEF LuxAtRaw, LuxCarried
<1> QED BY <1>11, <1>12

--------------------------------------------------------------------------------
(* lux/src/parser.rs: rows of ARW2 blocks, of any length. *)

\* A row the format can express: base values are even and of 12 bits, and the rest
\* differ from the sample before by what a delta of 7 bits holds.
LuxRow(pixels) ==
  /\ pixels \in Seq(Nat) /\ \A i \in DOMAIN pixels : pixels[i] <= 16383
  /\ \A i \in DOMAIN pixels :
       IF i % 16 = 1 THEN pixels[i] % 2 = 0 /\ pixels[i] <= 4094
       ELSE -64 <= pixels[i] - pixels[i - 1] /\ pixels[i] - pixels[i - 1] <= 63

\* The fields of the first i samples, and how many these are.
LuxField(pixels, i) ==
  IF i % 16 = 1 THEN <<0, pixels[i] \div 2>> ELSE <<(pixels[i] - pixels[i - 1]) % 128>>
LuxCodeOf(pixels, code) ==
  code = [i \in 0 .. Len(pixels) |-> IF i = 0 THEN << >> ELSE code[i - 1] \o LuxField(pixels, i)]
LuxRead(i) == i + (i + 15) \div 16
LuxCoded(pixels, c, i) ==
  /\ c \in Seq(Nat) /\ Len(c) = LuxRead(i)
  /\ \A j \in 1 .. i :
       IF j % 16 = 1 THEN c[LuxRead(j - 1) + 2] = pixels[j] \div 2
       ELSE c[LuxRead(j - 1) + 1] = (pixels[j] - pixels[j - 1]) % 128

LEMMA LuxCodeExists == ASSUME NEW pixels, Len(pixels) \in Nat PROVE \E code : LuxCodeOf(pixels, code)
<1> DEFINE top == Len(pixels)
           Up(n, f) == f = [m \in 0 .. n |-> IF m = 0 THEN << >> ELSE f[m - 1] \o LuxField(pixels, m)]
           S == {n \in Nat : \E f : Up(n, f)}
<1>1. 0 \in S
  <2>1. Up(0, [m \in 0 .. 0 |-> << >>])
    OBVIOUS
  <2> QED BY <2>1
<1>2. ASSUME NEW n \in 0 .. top, n # top, n \in S PROVE n + 1 \in S
  <2>1. PICK f : Up(n, f)
    BY <1>2
  <2> DEFINE more == [m \in 0 .. n + 1 |-> IF m <= n THEN f[m] ELSE f[n] \o LuxField(pixels, n + 1)]
  <2>2. ASSUME NEW m \in 0 .. n + 1
        PROVE  more[m] = IF m = 0 THEN << >> ELSE more[m - 1] \o LuxField(pixels, m)
    <3>1. CASE m = 0
      BY <2>1, <3>1
    <3>2. CASE m # 0 /\ m <= n
      <4>1. m \in 0 .. n /\ m - 1 \in 0 .. n /\ m - 1 \in 0 .. n + 1
        BY <3>2
      <4>2. f[m] = f[m - 1] \o LuxField(pixels, m)
        BY <2>1, <3>2, <4>1
      <4>3. more[m] = f[m] /\ more[m - 1] = f[m - 1]
        BY <4>1
      <4> QED BY <3>2, <4>2, <4>3
    <3>3. CASE m = n + 1
      <4>1. m # 0 /\ m - 1 = n /\ n \in 0 .. n + 1 /\ ~(m <= n)
        BY <3>3
      <4>2. more[m] = f[n] \o LuxField(pixels, n + 1) /\ more[m - 1] = f[n]
        BY <4>1
      <4> QED BY <3>3, <4>1, <4>2
    <3> QED BY <3>1, <3>2, <3>3
  <2>3. Up(n + 1, more)
    BY <2>2
  <2> HIDE DEF Up, more
  <2> QED BY <1>2, <2>3
<1> HIDE DEF S
<1>3. top \in Nat /\ top \in 0 .. top
  OBVIOUS
<1> HIDE DEF top
<1>4. \A n \in 0 .. top : n \in S
  BY <1>1, <1>2, <1>3, Climb
<1>5. top \in S
  BY <1>3, <1>4
<1> QED BY <1>5 DEF S, top, LuxCodeOf

LEMMA LuxReads ==
  ASSUME NEW i \in Nat
  PROVE  /\ LuxRead(i) \in Nat
         /\ LuxRead(i + 1) = LuxRead(i) + (IF (i + 1) % 16 = 1 THEN 2 ELSE 1)
         /\ \A j \in Nat : j <= i => LuxRead(j) <= LuxRead(i)
  BY DEF LuxRead

LuxJoins(c, f, g) ==
  /\ g \in Seq(Nat) /\ Len(g) = Len(c) + Len(f)
  /\ \A m \in 1 .. Len(c) : g[m] = c[m]
  /\ \A m \in 1 .. Len(f) : g[Len(c) + m] = f[m]

LEMMA LuxJoined == ASSUME NEW c \in Seq(Nat), NEW f \in Seq(Nat) PROVE LuxJoins(c, f, c \o f)
  BY DEF LuxJoins

LEMMA LuxPair ==
  ASSUME NEW x \in Nat, NEW y \in Nat
  PROVE  /\ <<x>> \in Seq(Nat) /\ Len(<<x>>) = 1 /\ <<x>>[1] = x
         /\ <<x, y>> \in Seq(Nat) /\ Len(<<x, y>>) = 2 /\ <<x, y>>[2] = y
  OBVIOUS

\* One more sample is encoded.
LEMMA LuxCodes ==
  ASSUME NEW pixels, LuxRow(pixels), NEW c, NEW i \in Nat, i + 1 <= Len(pixels), LuxCoded(pixels, c, i)
  PROVE  LuxCoded(pixels, c \o LuxField(pixels, i + 1), i + 1)
<1> DEFINE k == i + 1
           f == LuxField(pixels, k)
<1>1. k \in 1 .. Len(pixels) /\ k \in DOMAIN pixels /\ pixels[k] \in Nat /\ Len(pixels) \in Nat
  BY DEF LuxRow
<1>2. /\ f \in Seq(Nat) /\ Len(f) = (IF k % 16 = 1 THEN 2 ELSE 1)
      /\ IF k % 16 = 1 THEN f[2] = pixels[k] \div 2 ELSE f[1] = (pixels[k] - pixels[k - 1]) % 128
  <2>1. CASE k % 16 = 1
    <3>1. f = <<0, pixels[k] \div 2>> /\ pixels[k] \div 2 \in Nat /\ 0 \in Nat
      BY <1>1, <2>1 DEF LuxField
    <3> HIDE DEF f, k
    <3> QED BY <2>1, <3>1, LuxPair
  <2>2. CASE k % 16 # 1
    <3>1. k - 1 \in DOMAIN pixels /\ pixels[k - 1] \in Nat
      <4>1. k # 1
        BY <2>2
      <4>2. k - 1 \in 1 .. Len(pixels)
        BY <1>1, <4>1
      <4> QED BY <4>2 DEF LuxRow
    <3>2. (pixels[k] - pixels[k - 1]) % 128 \in Nat
      BY <1>1, <3>1
    <3>3. f = <<(pixels[k] - pixels[k - 1]) % 128>>
      BY <2>2 DEF LuxField
    <3> HIDE DEF f, k
    <3> QED BY <2>2, <3>2, <3>3, LuxPair
  <2> QED BY <2>1, <2>2
<1>3. c \in Seq(Nat) /\ Len(c) = LuxRead(i) /\ LuxRead(i) \in Nat
  BY LuxReads DEF LuxCoded
<1>4. LuxRead(k) = LuxRead(i) + (IF k % 16 = 1 THEN 2 ELSE 1)
  BY LuxReads
<1>5. k = i + 1
  OBVIOUS
<1> HIDE DEF f, k
<1> DEFINE g == c \o f
<1>6. /\ g \in Seq(Nat) /\ Len(g) = LuxRead(i) + Len(f)
      /\ \A m \in 1 .. LuxRead(i) : g[m] = c[m]
      /\ \A m \in 1 .. Len(f) : g[LuxRead(i) + m] = f[m]
  <2>1. /\ g \in Seq(Nat) /\ Len(g) = Len(c) + Len(f)
        /\ \A m \in 1 .. Len(c) : g[m] = c[m]
        /\ \A m \in 1 .. Len(f) : g[Len(c) + m] = f[m]
    <3>1. c \in Seq(Nat) /\ f \in Seq(Nat)
      BY <1>2, <1>3
    <3>2. LuxJoins(c, f, c \o f)
      BY <3>1, LuxJoined
    <3> QED BY <3>2 DEF LuxJoins
  <2> HIDE DEF g
  <2> QED BY <1>3, <2>1
<1> HIDE DEF g
<1>7. Len(g) = LuxRead(k)
  BY <1>2, <1>4, <1>6
<1>8. ASSUME NEW j \in 1 .. k
      PROVE  IF j % 16 = 1 THEN g[LuxRead(j - 1) + 2] = pixels[j] \div 2
             ELSE g[LuxRead(j - 1) + 1] = (pixels[j] - pixels[j - 1]) % 128
  <2>1. CASE j = k
    <3>1. j - 1 = i
      BY <1>5, <2>1
    <3>2. CASE k % 16 = 1
      <4>1. g[LuxRead(i) + 2] = f[2]
        BY <1>2, <1>6, <3>2
      <4> QED BY <1>2, <2>1, <3>1, <3>2, <4>1
    <3>3. CASE k % 16 # 1
      <4>1. g[LuxRead(i) + 1] = f[1]
        BY <1>2, <1>6, <3>3
      <4> QED BY <1>2, <2>1, <3>1, <3>3, <4>1
    <3> QED BY <3>2, <3>3
  <2>2. CASE j # k
    <3>1. j \in 1 .. i /\ j - 1 \in Nat /\ (j - 1) + 1 = j /\ j <= i /\ j \in Nat
      BY <1>5, <2>2
    <3>2. IF j % 16 = 1 THEN c[LuxRead(j - 1) + 2] = pixels[j] \div 2
          ELSE c[LuxRead(j - 1) + 1] = (pixels[j] - pixels[j - 1]) % 128
      BY <3>1 DEF LuxCoded
    <3>3. LuxRead(j) <= LuxRead(i) /\ LuxRead(j - 1) \in Nat
          /\ LuxRead(j) = LuxRead(j - 1) + (IF j % 16 = 1 THEN 2 ELSE 1)
      <4>1. LuxRead(j) <= LuxRead(i)
        BY <3>1, LuxReads
      <4>2. LuxRead(j - 1) \in Nat /\ LuxRead((j - 1) + 1) = LuxRead(j - 1) + (IF ((j - 1) + 1) % 16 = 1 THEN 2 ELSE 1)
        BY <3>1, LuxReads
      <4> QED BY <3>1, <4>1, <4>2
    <3>4. CASE j % 16 = 1
      <4>1. LuxRead(j - 1) + 2 \in 1 .. LuxRead(i)
        BY <1>3, <3>3, <3>4
      <4> QED BY <1>6, <3>2, <3>4, <4>1
    <3>5. CASE j % 16 # 1
      <4>1. LuxRead(j - 1) + 1 \in 1 .. LuxRead(i)
        BY <1>3, <3>3, <3>5
      <4> QED BY <1>6, <3>2, <3>5, <4>1
    <3> QED BY <3>4, <3>5
  <2> QED BY <2>1, <2>2
<1>9. LuxCoded(pixels, g, k)
  BY <1>6, <1>7, <1>8 DEF LuxCoded
<1> QED BY <1>9 DEF f, g, k

LEMMA LuxEncodedIs ==
  ASSUME NEW pixels, LuxRow(pixels)
  PROVE  LuxCoded(pixels, L!Encoded(pixels), Len(pixels))
<1> DEFINE code == CHOOSE f : LuxCodeOf(pixels, f)
           top == Len(pixels)
<1>0. top \in Nat
  BY DEF LuxRow
<1>1. L!Encoded(pixels) = code[top]
  BY DEF L!Encoded, LuxCodeOf, LuxField
<1>2. LuxCodeOf(pixels, code)
  BY <1>0, LuxCodeExists
<1> HIDE DEF code
<1> DEFINE S == {n \in 0 .. top : LuxCoded(pixels, code[n], n)}
<1>3. 0 \in S
  <2>1. code[0] = << >> /\ LuxRead(0) = 0
    BY <1>0, <1>2 DEF LuxCodeOf, LuxRead
  <2>2. << >> \in Seq(Nat) /\ Len(<< >>) = 0 /\ 1 .. 0 = {} /\ 0 \in 0 .. top
    BY <1>0
  <2>3. LuxCoded(pixels, << >>, 0)
    BY <2>1, <2>2 DEF LuxCoded
  <2> QED BY <2>1, <2>2, <2>3
<1>4. ASSUME NEW n \in 0 .. top, n # top, n \in S PROVE n + 1 \in S
  <2>1. n + 1 \in 0 .. top /\ (n + 1) - 1 = n /\ n + 1 # 0 /\ n \in Nat /\ n + 1 <= Len(pixels)
    BY <1>0, <1>4
  <2>2. code[n + 1] = code[n] \o LuxField(pixels, n + 1)
    BY <1>2, <2>1 DEF LuxCodeOf
  <2>3. LuxCoded(pixels, code[n], n)
    BY <1>4
  <2>4. LuxCoded(pixels, code[n] \o LuxField(pixels, n + 1), n + 1)
    BY <2>1, <2>3, LuxCodes
  <2> QED BY <2>1, <2>2, <2>4
<1> HIDE DEF S
<1>5. top \in 0 .. top
  BY <1>0
<1> HIDE DEF top
<1>6. \A n \in 0 .. top : n \in S
  BY <1>0, <1>3, <1>4, Climb
<1> QED BY <1>1, <1>5, <1>6 DEF S, top

\* The decoder after n turns: it has decoded the first samples and read their fields,
\* and has taken at most two turns for each.
LuxState == [bayer : Seq(Nat), read : Nat, inBlock : 0 .. 16, stop : {FALSE}]
LuxDecoded(pixels, s, n) ==
  /\ s \in LuxState
  /\ Len(s.bayer) <= Len(pixels) /\ \A j \in 1 .. Len(s.bayer) : s.bayer[j] = pixels[j]
  /\ s.read = LuxRead(Len(s.bayer))
  /\ s.inBlock % 16 = Len(s.bayer) % 16
  /\ s.inBlock # 0 => Len(s.bayer) # 0
  /\ Len(s.bayer) # Len(pixels) => n <= 2 * Len(s.bayer) - (IF s.inBlock = 0 THEN 0 ELSE 1)

LEMMA LuxPlace ==
  ASSUME NEW k \in Nat, NEW b \in 0 .. 16, b % 16 = k % 16
  PROVE  /\ b = 0 => (k + 1) % 16 = 1
         /\ b # 0 /\ b # 16 => (k + 1) % 16 # 1
         /\ b # 16 => (b + 1) % 16 = (k + 1) % 16
         /\ b # 16 => b + 1 \in 0 .. 16 /\ b + 1 # 0
  OBVIOUS

LEMMA LuxStateIs ==
  ASSUME NEW pixels, LuxRow(pixels), NEW s, NEW n, LuxDecoded(pixels, s, n)
  PROVE  /\ s \in LuxState /\ s.bayer \in Seq(Nat) /\ Len(s.bayer) \in Nat
         /\ s.read = LuxRead(Len(s.bayer)) /\ LuxRead(Len(s.bayer)) \in Nat
         /\ s.inBlock \in 0 .. 16 /\ s.stop = FALSE
         /\ pixels \in Seq(Nat) /\ Len(pixels) \in Nat /\ Len(s.bayer) <= Len(pixels)
<1>1. s \in LuxState /\ s.read = LuxRead(Len(s.bayer)) /\ Len(s.bayer) <= Len(pixels)
  BY DEF LuxDecoded
<1>2. s.bayer \in Seq(Nat) /\ s.inBlock \in 0 .. 16 /\ s.stop = FALSE
  BY <1>1 DEF LuxState
<1>3. Len(s.bayer) \in Nat
  BY <1>2
<1>4. LuxRead(Len(s.bayer)) \in Nat
  BY <1>3, LuxReads
<1>5. pixels \in Seq(Nat) /\ Len(pixels) \in Nat
  BY DEF LuxRow
<1> QED BY <1>1, <1>2, <1>3, <1>4, <1>5

\* One more sample is decoded.
LEMMA LuxPixelDecodes ==
  ASSUME NEW pixels, LuxRow(pixels), NEW n \in Nat, NEW s, LuxDecoded(pixels, s, n),
         Len(s.bayer) # Len(pixels), s.inBlock # 16,
         NEW taken, taken = (IF s.inBlock = 0 THEN 2 ELSE 1)
  PROVE  LuxDecoded(pixels, L!Pixel(s, pixels[Len(s.bayer) + 1], taken), n + 1)
<1> DEFINE b == s.bayer
           k == Len(b)
           v == pixels[k + 1]
           r == L!Pixel(s, v, taken)
<1>1. /\ b \in Seq(Nat) /\ k \in Nat /\ s.read = LuxRead(k) /\ LuxRead(k) \in Nat
      /\ s.inBlock \in 0 .. 16 /\ s.inBlock # 16
      /\ s.stop = FALSE /\ pixels \in Seq(Nat) /\ Len(pixels) \in Nat
  BY LuxStateIs
<1>2. k + 1 \in 1 .. Len(pixels) /\ v \in Nat
  <2>1. k <= Len(pixels) /\ k # Len(pixels)
    BY DEF LuxDecoded
  <2>2. k + 1 \in 1 .. Len(pixels)
    BY <1>1, <2>1
  <2> QED BY <1>1, <2>2
<1>3. /\ r.bayer = Append(b, v) /\ r.read = LuxRead(k) + taken /\ r.inBlock = s.inBlock + 1
      /\ r = [bayer |-> Append(b, v), read |-> LuxRead(k) + taken, inBlock |-> s.inBlock + 1, stop |-> FALSE]
  BY <1>1 DEF L!Pixel
<1>4. /\ s.inBlock % 16 = k % 16
      /\ n <= 2 * k - (IF s.inBlock = 0 THEN 0 ELSE 1)
      /\ \A j \in 1 .. k : b[j] = pixels[j]
  BY DEF LuxDecoded
<1>5. taken \in Nat /\ taken = (IF s.inBlock = 0 THEN 2 ELSE 1)
  OBVIOUS
<1> DEFINE more == Append(b, v)
<1> HIDE DEF r, v, k
<1>6. /\ more \in Seq(Nat) /\ Len(more) = k + 1
      /\ \A j \in 1 .. k + 1 : more[j] = pixels[j]
  <2>1. \A j \in 1 .. k : more[j] = b[j]
    BY <1>1, <1>2 DEF k
  <2>2. more[k + 1] = v
    BY <1>1, <1>2 DEF k
  <2>3. more \in Seq(Nat) /\ Len(more) = k + 1
    BY <1>1, <1>2 DEF k
  <2>4. ASSUME NEW j \in 1 .. k + 1 PROVE more[j] = pixels[j]
    <3>1. j \in 1 .. k \/ j = k + 1
      BY <1>1
    <3> QED BY <1>4, <2>1, <2>2, <3>1 DEF v
  <2> QED BY <2>3, <2>4
<1> HIDE DEF more, b
<1>7. (k + 1) % 16 = 1 <=> s.inBlock = 0
  BY <1>1, <1>4, LuxPlace
<1>8. LuxRead(k + 1) = LuxRead(k) + taken
  BY <1>1, <1>5, <1>7, LuxReads
<1>9. r \in LuxState /\ r.bayer = more /\ r.read = LuxRead(k + 1) /\ r.inBlock = s.inBlock + 1
  <2>1. s.inBlock + 1 \in 0 .. 16
    BY <1>1, <1>4, LuxPlace
  <2>2. LuxRead(k) + taken \in Nat
    BY <1>1, <1>5
  <2> QED BY <1>3, <1>6, <1>8, <2>1, <2>2 DEF LuxState, more
<1>10. (s.inBlock + 1) % 16 = (k + 1) % 16 /\ s.inBlock + 1 # 0
  <2>1. (s.inBlock + 1) % 16 = (k + 1) % 16
    BY <1>1, <1>4, LuxPlace
  <2>2. s.inBlock + 1 # 0
    BY <1>1, <1>4, LuxPlace
  <2> QED BY <2>1, <2>2
<1>11. n + 1 <= 2 * (k + 1) - (IF s.inBlock + 1 = 0 THEN 0 ELSE 1)
  BY <1>1, <1>4
<1>12. k + 1 <= Len(pixels) /\ k + 1 # 0
  BY <1>1, <1>2
<1>13. LuxDecoded(pixels, r, n + 1)
  BY <1>6, <1>9, <1>10, <1>11, <1>12 DEF LuxDecoded
<1> QED BY <1>13 DEF r, v, k, b

\* One turn of the decoder.
LEMMA LuxDecodes ==
  ASSUME NEW pixels, LuxRow(pixels), NEW data, LuxCoded(pixels, data, Len(pixels)),
         NEW n \in Nat, NEW s, LuxDecoded(pixels, s, n)
  PROVE  LuxDecoded(pixels, L!Decode(s, data, Len(pixels)), n + 1)
<1> DEFINE k == Len(s.bayer)
           top == Len(pixels)
           b == s.inBlock
<1>1. /\ s \in LuxState /\ k \in Nat /\ s.read = LuxRead(k) /\ LuxRead(k) \in Nat
      /\ b \in 0 .. 16 /\ s.stop = FALSE /\ top \in Nat /\ k <= top /\ pixels \in Seq(Nat)
  BY LuxStateIs
<1>2. /\ \A j \in 1 .. k : s.bayer[j] = pixels[j]
      /\ b % 16 = k % 16
      /\ b # 0 => k # 0
      /\ k # top => n <= 2 * k - (IF b = 0 THEN 0 ELSE 1)
  BY DEF LuxDecoded
<1>3. CASE k >= top
  <2>1. L!Decode(s, data, top) = s
    BY <1>3 DEF L!Decode
  <2>2. k = top
    BY <1>1, <1>3
  <2> QED BY <2>1, <2>2 DEF LuxDecoded
<1>4. CASE ~(k >= top)
  <2>0. ~(s.stop \/ k >= top)
    BY <1>1, <1>4
  <2> HIDE DEF k, top, b
  <2>1. /\ k + 1 \in 1 .. top /\ k # top /\ k + 1 \in Nat /\ k + 1 <= top /\ (k + 1) - 1 = k
    BY <1>1, <1>4
  <2>2. LuxRead(k + 1) <= LuxRead(top) /\ LuxRead(k + 1) \in Nat /\ LuxRead(top) \in Nat
        /\ LuxRead(k + 1) = LuxRead(k) + (IF (k + 1) % 16 = 1 THEN 2 ELSE 1)
    BY <1>1, <2>1, LuxReads
  <2>3. Len(data) = LuxRead(top)
    BY DEF LuxCoded, top
  <2>4. k + 1 \in DOMAIN pixels
    BY <1>1, <2>1 DEF top
  <2>5. pixels[k + 1] \in Nat /\ pixels[k + 1] <= 16383
    BY <2>4 DEF LuxRow
  <2>6. LuxCoded(pixels, data, top)
    BY DEF top
  <2>7. IF (k + 1) % 16 = 1 THEN data[LuxRead(k) + 2] = pixels[k + 1] \div 2
        ELSE data[LuxRead(k) + 1] = (pixels[k + 1] - pixels[k]) % 128
    <3>1. IF (k + 1) % 16 = 1 THEN data[LuxRead((k + 1) - 1) + 2] = pixels[k + 1] \div 2
          ELSE data[LuxRead((k + 1) - 1) + 1] = (pixels[k + 1] - pixels[(k + 1) - 1]) % 128
      BY <2>1, <2>6 DEF LuxCoded
    <3> QED BY <2>1, <3>1
  <2>8. IF (k + 1) % 16 = 1 THEN pixels[k + 1] % 2 = 0 /\ pixels[k + 1] <= 4094
        ELSE -64 <= pixels[k + 1] - pixels[k] /\ pixels[k + 1] - pixels[k] <= 63
    <3>1. IF (k + 1) % 16 = 1 THEN pixels[k + 1] % 2 = 0 /\ pixels[k + 1] <= 4094
          ELSE -64 <= pixels[k + 1] - pixels[(k + 1) - 1] /\ pixels[k + 1] - pixels[(k + 1) - 1] <= 63
      BY <2>4 DEF LuxRow
    <3> QED BY <2>1, <3>1
  <2>9. k = Len(s.bayer) /\ top = Len(pixels) /\ b = s.inBlock
    BY DEF k, top, b
  <2>10. CASE b = 0
    <3>1. (k + 1) % 16 = 1
      BY <1>1, <1>2, <2>10, LuxPlace
    <3>2. ~(s.read + 2 > Len(data))
      BY <1>1, <2>2, <2>3, <3>1
    <3>3. (data[s.read + 2] * 2) % 65536 = pixels[k + 1]
      <4> DEFINE x == pixels[k + 1]
                 y == data[LuxRead(k) + 2]
      <4>1. x \in Nat /\ x % 2 = 0 /\ x <= 4094 /\ y = x \div 2
        BY <2>5, <2>7, <2>8, <3>1
      <4> HIDE DEF x, y
      <4>2. y * 2 = x
        BY <4>1
      <4>3. x % 65536 = x
        BY <4>1
      <4>4. (y * 2) % 65536 = x
        BY <4>2, <4>3
      <4> QED BY <1>1, <4>4 DEF x, y
    <3>4. L!Decode(s, data, top) = L!Pixel(s, pixels[k + 1], 2)
      BY <2>0, <2>9, <2>10, <3>2, <3>3 DEF L!Decode
    <3>5. /\ Len(s.bayer) # Len(pixels) /\ s.inBlock # 16
          /\ 2 = (IF s.inBlock = 0 THEN 2 ELSE 1)
      BY <2>1, <2>9, <2>10
    <3>6. LuxDecoded(pixels, L!Pixel(s, pixels[Len(s.bayer) + 1], 2), n + 1)
      BY <3>5, LuxPixelDecodes
    <3> QED BY <2>9, <3>4, <3>6
  <2>11. CASE b = 16
    <3> DEFINE r == [s EXCEPT !.inBlock = 0]
    <3>1. L!Decode(s, data, top) = r
      BY <2>0, <2>9, <2>11 DEF L!Decode
    <3>2. r \in LuxState /\ r.bayer = s.bayer /\ r.read = s.read /\ r.inBlock = 0
      <4>1. s \in LuxState /\ 0 \in 0 .. 16
        BY <1>1
      <4> QED BY <4>1 DEF LuxState
    <3> HIDE DEF r
    <3>3. n + 1 <= 2 * k - 0 /\ 0 % 16 = k % 16
      <4>1. n <= 2 * k - 1 /\ 16 % 16 = k % 16
        BY <1>2, <2>1, <2>11
      <4> QED BY <1>1, <4>1
    <3> QED BY <1>1, <1>2, <2>9, <3>1, <3>2, <3>3 DEF LuxDecoded
  <2>12. CASE b # 0 /\ b # 16
    <3>1. (k + 1) % 16 # 1 /\ ~(b > 15) /\ k # 0
      BY SMTT(30), <1>1, <1>2, <2>12, LuxPlace
    <3>2. ~(s.read + 1 > Len(data))
      BY <1>1, <2>2, <2>3, <3>1
    <3>3. L!Clamp(s.bayer[k] + L!SignExtend(data[s.read + 1]), 0, L!MaxValue) = pixels[k + 1]
      <4> DEFINE x == pixels[k + 1]
                 z == pixels[k]
                 y == data[LuxRead(k) + 1]
      <4>1. k \in 1 .. k /\ k \in 1 .. top
        BY <1>1, <2>1, <3>1
      <4>2. s.bayer[k] = z
        BY <1>2, <4>1
      <4>3. z \in Nat
        BY <1>1, <4>1 DEF top
      <4>4. x \in Nat /\ x <= 16383 /\ y = (x - z) % 128 /\ -64 <= x - z /\ x - z <= 63
        BY <2>5, <2>7, <2>8, <3>1
      <4>5. s.read = LuxRead(k)
        BY <1>1
      <4> HIDE DEF x, y, z
      <4>6. L!SignExtend(y) = x - z
        BY <4>3, <4>4 DEF L!SignExtend
      <4>7. z + (x - z) = x
        BY <4>3, <4>4
      <4>8. L!Clamp(x, 0, L!MaxValue) = x
        BY <4>4 DEF L!Clamp, L!MaxValue
      <4> QED BY <4>2, <4>5, <4>6, <4>7, <4>8 DEF x, y
    <3>4. L!Decode(s, data, top) = L!Pixel(s, pixels[k + 1], 1)
      BY <2>0, <2>9, <2>12, <3>1, <3>2, <3>3 DEF L!Decode
    <3>5. /\ Len(s.bayer) # Len(pixels) /\ s.inBlock # 16
          /\ 1 = (IF s.inBlock = 0 THEN 2 ELSE 1)
      BY <2>1, <2>9, <2>12
    <3>6. LuxDecoded(pixels, L!Pixel(s, pixels[Len(s.bayer) + 1], 1), n + 1)
      BY <3>5, LuxPixelDecodes
    <3> QED BY <2>9, <3>4, <3>6
  <2> QED BY <2>10, <2>11, <2>12
<1> QED BY <1>3, <1>4

LuxStart == [bayer |-> << >>, read |-> 0, inBlock |-> 0, stop |-> FALSE]
LuxTurnsOf(data, count, after) ==
  after = [n \in 0 .. 2 * (count + 2) |-> IF n = 0 THEN LuxStart ELSE L!Decode(after[n - 1], data, count)]

LEMMA LuxTurnsExist == ASSUME NEW data, NEW count \in Nat PROVE \E after : LuxTurnsOf(data, count, after)
<1> DEFINE top == 2 * (count + 2)
           Up(n, f) == f = [m \in 0 .. n |-> IF m = 0 THEN LuxStart ELSE L!Decode(f[m - 1], data, count)]
           S == {n \in Nat : \E f : Up(n, f)}
<1>1. 0 \in S
  <2>1. Up(0, [m \in 0 .. 0 |-> LuxStart])
    OBVIOUS
  <2> QED BY <2>1
<1>2. ASSUME NEW n \in 0 .. top, n # top, n \in S PROVE n + 1 \in S
  <2>1. PICK f : Up(n, f)
    BY <1>2
  <2> DEFINE more == [m \in 0 .. n + 1 |-> IF m <= n THEN f[m] ELSE L!Decode(f[n], data, count)]
  <2>2. ASSUME NEW m \in 0 .. n + 1
        PROVE  more[m] = IF m = 0 THEN LuxStart ELSE L!Decode(more[m - 1], data, count)
    <3>1. CASE m = 0
      BY <2>1, <3>1
    <3>2. CASE m # 0 /\ m <= n
      <4>1. m \in 0 .. n /\ m - 1 \in 0 .. n /\ m - 1 \in 0 .. n + 1
        BY <3>2
      <4>2. f[m] = L!Decode(f[m - 1], data, count)
        BY <2>1, <3>2, <4>1
      <4>3. more[m] = f[m] /\ more[m - 1] = f[m - 1]
        BY <4>1
      <4> QED BY <3>2, <4>2, <4>3
    <3>3. CASE m = n + 1
      <4>1. m # 0 /\ m - 1 = n /\ n \in 0 .. n + 1 /\ ~(m <= n)
        BY <3>3
      <4>2. more[m] = L!Decode(f[n], data, count) /\ more[m - 1] = f[n]
        BY <4>1
      <4> QED BY <3>3, <4>1, <4>2
    <3> QED BY <3>1, <3>2, <3>3
  <2>3. Up(n + 1, more)
    BY <2>2
  <2> HIDE DEF Up, more
  <2> QED BY <1>2, <2>3
<1> HIDE DEF S
<1>3. top \in Nat /\ top \in 0 .. top
  OBVIOUS
<1> HIDE DEF top
<1>4. \A n \in 0 .. top : n \in S
  BY <1>1, <1>2, <1>3, Climb
<1>5. top \in S
  BY <1>3, <1>4
<1> QED BY <1>5 DEF S, top, LuxTurnsOf

\* Rows of any length that the format can express come back as they were, sample by
\* sample (lux/src/parser.rs, decompress_raw).
THEOREM LuxArwRoundTrip == ASSUME NEW pixels, LuxRow(pixels) PROVE L!ArwRoundTrip(pixels)
<1> DEFINE count == Len(pixels)
           data == L!Encoded(pixels)
           after == CHOOSE f : LuxTurnsOf(data, count, f)
           top == 2 * (count + 2)
<1>1. pixels \in Seq(Nat) /\ count \in Nat /\ top \in Nat
  BY DEF LuxRow
<1>2. L!decompress_arw2(data, count) = L!Padded(after[top].bayer, count)
  BY DEF L!decompress_arw2, LuxTurnsOf, LuxStart
<1>3. LuxTurnsOf(data, count, after)
  BY <1>1, LuxTurnsExist
<1>4. LuxCoded(pixels, data, count)
  BY LuxEncodedIs
<1> HIDE DEF after, data
<1> DEFINE S == {n \in 0 .. top : LuxDecoded(pixels, after[n], n)}
<1>5. 0 \in S
  <2>1. after[0] = LuxStart /\ 0 \in 0 .. top
    BY <1>1, <1>3 DEF LuxTurnsOf
  <2>2. LuxStart \in LuxState /\ LuxStart.bayer = << >> /\ LuxStart.read = 0 /\ LuxStart.inBlock = 0
    BY DEF LuxStart, LuxState
  <2>3. Len(<< >>) = 0 /\ 1 .. 0 = {} /\ LuxRead(0) = 0 /\ 0 <= count
    BY <1>1 DEF LuxRead
  <2>4. LuxDecoded(pixels, LuxStart, 0)
    BY <2>2, <2>3 DEF LuxDecoded
  <2> QED BY <2>1, <2>4
<1>6. ASSUME NEW n \in 0 .. top, n # top, n \in S PROVE n + 1 \in S
  <2>1. n + 1 \in 0 .. top /\ (n + 1) - 1 = n /\ n + 1 # 0 /\ n \in Nat
    BY <1>1, <1>6
  <2>2. after[n + 1] = L!Decode(after[n], data, count)
    BY <1>3, <2>1 DEF LuxTurnsOf
  <2>3. LuxDecoded(pixels, after[n], n)
    BY <1>6
  <2>4. LuxDecoded(pixels, L!Decode(after[n], data, count), n + 1)
    BY <1>4, <2>1, <2>3, LuxDecodes
  <2> QED BY <2>1, <2>2, <2>4
<1> HIDE DEF S
<1>7. \A n \in 0 .. top : n \in S
  <2> HIDE DEF top
  <2> QED BY <1>1, <1>5, <1>6, Climb
<1>8. top \in 0 .. top /\ top = 2 * count + 4
  BY <1>1
<1> DEFINE s == after[top]
           k == Len(s.bayer)
<1>9. LuxDecoded(pixels, s, top)
  BY <1>7, <1>8 DEF S
<1>10. k \in Nat /\ k <= count
  BY <1>9, LuxStateIs
<1>11. /\ k # count => top <= 2 * k - (IF s.inBlock = 0 THEN 0 ELSE 1)
       /\ \A j \in 1 .. k : s.bayer[j] = pixels[j]
  BY <1>9 DEF LuxDecoded
<1> HIDE DEF s, k, top
<1>12. k = count
  <2> HIDE DEF count
  <2> QED BY <1>1, <1>8, <1>10, <1>11
<1>13. L!Padded(s.bayer, count) = [i \in 1 .. count |-> pixels[i]]
  <2>1. \A i \in 1 .. count : i <= Len(s.bayer) /\ s.bayer[i] = pixels[i]
    BY <1>1, <1>11, <1>12 DEF k
  <2> QED BY <2>1 DEF L!Padded
<1>14. [i \in 1 .. count |-> pixels[i]] = pixels
  BY <1>1
<1>15. L!decompress_arw2(data, count) = pixels
  BY <1>2, <1>13, <1>14 DEF s
<1> QED BY <1>15 DEF L!ArwRoundTrip, data

--------------------------------------------------------------------------------
(* euclase: vectors, rotations and cameras, with any whole numbers. *)

\* The columns of the rotation of <<a, b, c, d>>, where n is its squared length.
TurnX(a, b, c, d, n) ==
  <<n - (b * (b + b) + c * (c + c)), a * (b + b) + d * (c + c), a * (c + c) - d * (b + b), 0>>
TurnY(a, b, c, d, n) ==
  <<a * (b + b) - d * (c + c), n - (a * (a + a) + c * (c + c)), b * (c + c) + d * (a + a), 0>>
TurnZ(a, b, c, d, n) ==
  <<a * (c + c) + d * (b + b), b * (c + c) - d * (a + a), n - (a * (a + a) + b * (b + b)), 0>>
TurnW(n) == <<0, 0, 0, n>>
Turn(q, n) == <<TurnX(q[1], q[2], q[3], q[4], n), TurnY(q[1], q[2], q[3], q[4], n),
                TurnZ(q[1], q[2], q[3], q[4], n), TurnW(n)>>

LEMMA EuclaseTurns == ASSUME NEW q PROVE E!from_rotation(q) = Turn(q, E!Dot4(q, q))
  BY DEF E!from_rotation, Turn, TurnX, TurnY, TurnZ, TurnW

\* Every rotation turns lengths and angles into themselves (euclase, Mat4::from_rotation).
THEOREM EuclaseRotationIsRigid == ASSUME NEW q \in E!Quats(Int) PROVE E!RotationIsRigid(q)
<1> DEFINE a == q[1]
           b == q[2]
           c == q[3]
           d == q[4]
           n == E!Dot4(q, q)
           m == E!from_rotation(q)
<1>1. a \in Int /\ b \in Int /\ c \in Int /\ d \in Int
  BY DEF E!Quats, E!Vec4s
<1>2. n = a * a + b * b + c * c + d * d
  BY DEF E!Dot4
<1>3. /\ m[1] = TurnX(a, b, c, d, n) /\ m[2] = TurnY(a, b, c, d, n) /\ m[3] = TurnZ(a, b, c, d, n)
  BY EuclaseTurns DEF Turn
<1> HIDE DEF a, b, c, d, n, m
<1>4. E!Dot4(m[1], m[1]) = n * n
  BY <1>1, <1>2, <1>3 DEF E!Dot4, TurnX
<1>5. E!Dot4(m[1], m[2]) = 0
  BY <1>1, <1>2, <1>3 DEF E!Dot4, TurnX, TurnY
<1>6. E!Dot4(m[1], m[3]) = 0
  BY <1>1, <1>2, <1>3 DEF E!Dot4, TurnX, TurnZ
<1>7. E!Dot4(m[2], m[1]) = 0
  BY <1>1, <1>2, <1>3 DEF E!Dot4, TurnY, TurnX
<1>8. E!Dot4(m[2], m[2]) = n * n
  BY <1>1, <1>2, <1>3 DEF E!Dot4, TurnY
<1>9. E!Dot4(m[2], m[3]) = 0
  BY <1>1, <1>2, <1>3 DEF E!Dot4, TurnY, TurnZ
<1>10. E!Dot4(m[3], m[1]) = 0
  BY <1>1, <1>2, <1>3 DEF E!Dot4, TurnZ, TurnX
<1>11. E!Dot4(m[3], m[2]) = 0
  BY <1>1, <1>2, <1>3 DEF E!Dot4, TurnZ, TurnY
<1>12. E!Dot4(m[3], m[3]) = n * n
  BY <1>1, <1>2, <1>3 DEF E!Dot4, TurnZ
<1>13. ASSUME NEW i \in 1 .. 3, NEW j \in 1 .. 3
       PROVE  E!Dot4(m[i], m[j]) = IF i = j THEN n * n ELSE 0
  <2>1. i \in {1, 2, 3} /\ j \in {1, 2, 3}
    OBVIOUS
  <2> QED BY <1>4, <1>5, <1>6, <1>7, <1>8, <1>9, <1>10, <1>11, <1>12, <2>1
<1> QED BY <1>13 DEF E!RotationIsRigid, m, n

LEMMA EuclaseProduct ==
  ASSUME NEW m, NEW p,
         DOMAIN m[1] = 1 .. 4, DOMAIN m[2] = 1 .. 4, DOMAIN m[3] = 1 .. 4, DOMAIN m[4] = 1 .. 4
  PROVE  E!mul_vec4(m, p) =
           [i \in 1 .. 4 |-> (m[1][i] * p[1] + m[2][i] * p[2]) + (m[3][i] * p[3] + m[4][i] * p[4])]
  BY DEF E!mul_vec4, E!Add, E!Scale

\* o is the product of q and r, and m, n and l are the squared lengths of the three.
Composed(q, r, o, m, n, l) ==
  /\ q[1] \in Int /\ q[2] \in Int /\ q[3] \in Int /\ q[4] \in Int
  /\ r[1] \in Int /\ r[2] \in Int /\ r[3] \in Int /\ r[4] \in Int
  /\ o[1] = q[4] * r[1] + q[1] * r[4] + q[2] * r[3] - q[3] * r[2]
  /\ o[2] = q[4] * r[2] - q[1] * r[3] + q[2] * r[4] + q[3] * r[1]
  /\ o[3] = q[4] * r[3] + q[1] * r[2] - q[2] * r[1] + q[3] * r[4]
  /\ o[4] = q[4] * r[4] - q[1] * r[1] - q[2] * r[2] - q[3] * r[3]
  /\ m = q[1] * q[1] + q[2] * q[2] + q[3] * q[3] + q[4] * q[4]
  /\ n = r[1] * r[1] + r[2] * r[2] + r[3] * r[3] + r[4] * r[4]
  /\ l = o[1] * o[1] + o[2] * o[2] + o[3] * o[3] + o[4] * o[4]

\* The columns of the rotation of a product are what the rotation of its first factor
\* makes of those of its second.
LEMMA EuclaseLengths ==
  ASSUME NEW q, NEW r, NEW o, NEW m, NEW n, NEW l, Composed(q, r, o, m, n, l)
  PROVE  l = m * n /\ m \in Int /\ n \in Int
<1> DEFINE a == q[1]
           b == q[2]
           c == q[3]
           d == q[4]
           x == r[1]
           y == r[2]
           z == r[3]
           w == r[4]
           e == o[1]
           f == o[2]
           g == o[3]
           h == o[4]
<1>1. /\ a \in Int /\ b \in Int /\ c \in Int /\ d \in Int
      /\ x \in Int /\ y \in Int /\ z \in Int /\ w \in Int
      /\ e = d * x + a * w + b * z - c * y /\ f = d * y - a * z + b * w + c * x
      /\ g = d * z + a * y - b * x + c * w /\ h = d * w - a * x - b * y - c * z
      /\ m = a * a + b * b + c * c + d * d /\ n = x * x + y * y + z * z + w * w
      /\ l = e * e + f * f + g * g + h * h
  BY DEF Composed
<1> HIDE DEF a, b, c, d, x, y, z, w, e, f, g, h
<1>2. m \in Int /\ n \in Int
  BY <1>1
<1>3. l = m * n
  BY <1>1
<1> QED BY <1>2, <1>3

LEMMA EuclaseComposedX ==
  ASSUME NEW q, NEW r, NEW o, NEW m, NEW n, NEW l, Composed(q, r, o, m, n, l)
  PROVE  E!mul_vec4(Turn(q, m), Turn(r, n)[1]) = Turn(o, l)[1]
<1> DEFINE a == q[1]
           b == q[2]
           c == q[3]
           d == q[4]
           x == r[1]
           y == r[2]
           z == r[3]
           w == r[4]
           e == o[1]
           f == o[2]
           g == o[3]
           h == o[4]
<1>1. /\ a \in Int /\ b \in Int /\ c \in Int /\ d \in Int
      /\ x \in Int /\ y \in Int /\ z \in Int /\ w \in Int
      /\ e = d * x + a * w + b * z - c * y /\ f = d * y - a * z + b * w + c * x
      /\ g = d * z + a * y - b * x + c * w /\ h = d * w - a * x - b * y - c * z
      /\ m = a * a + b * b + c * c + d * d /\ n = x * x + y * y + z * z + w * w
      /\ l = e * e + f * f + g * g + h * h
  BY DEF Composed
<1> DEFINE k == Turn(q, m)
           p == Turn(r, n)[1]
           t == Turn(o, l)[1]
<1>2. /\ k[1] = TurnX(a, b, c, d, m) /\ k[2] = TurnY(a, b, c, d, m)
      /\ k[3] = TurnZ(a, b, c, d, m) /\ k[4] = TurnW(m)
      /\ p = TurnX(x, y, z, w, n) /\ t = TurnX(e, f, g, h, l)
  BY DEF Turn
<1> HIDE DEF k, p, t, a, b, c, d, x, y, z, w, e, f, g, h
<1>3. /\ DOMAIN k[1] = 1 .. 4 /\ DOMAIN k[2] = 1 .. 4 /\ DOMAIN k[3] = 1 .. 4 /\ DOMAIN k[4] = 1 .. 4
      /\ t = [i \in 1 .. 4 |-> t[i]]
  BY <1>2 DEF TurnX, TurnY, TurnZ, TurnW
<1>4. (k[1][1] * p[1] + k[2][1] * p[2]) + (k[3][1] * p[3] + k[4][1] * p[4]) = t[1]
  BY <1>1, <1>2 DEF TurnX, TurnY, TurnZ, TurnW
<1>5. (k[1][2] * p[1] + k[2][2] * p[2]) + (k[3][2] * p[3] + k[4][2] * p[4]) = t[2]
  BY <1>1, <1>2 DEF TurnX, TurnY, TurnZ, TurnW
<1>6. (k[1][3] * p[1] + k[2][3] * p[2]) + (k[3][3] * p[3] + k[4][3] * p[4]) = t[3]
  BY <1>1, <1>2 DEF TurnX, TurnY, TurnZ, TurnW
<1>7. (k[1][4] * p[1] + k[2][4] * p[2]) + (k[3][4] * p[3] + k[4][4] * p[4]) = t[4]
  BY <1>1, <1>2 DEF TurnX, TurnY, TurnZ, TurnW
<1>8. \A i \in 1 .. 4 : (k[1][i] * p[1] + k[2][i] * p[2]) + (k[3][i] * p[3] + k[4][i] * p[4]) = t[i]
  <2>1. \A i \in 1 .. 4 : i \in {1, 2, 3, 4}
    OBVIOUS
  <2> QED BY <1>4, <1>5, <1>6, <1>7, <2>1, Zenon
<1>9. E!mul_vec4(k, p) =
        [i \in 1 .. 4 |-> (k[1][i] * p[1] + k[2][i] * p[2]) + (k[3][i] * p[3] + k[4][i] * p[4])]
  BY <1>3, EuclaseProduct
<1>10. E!mul_vec4(k, p) = t
  BY <1>3, <1>8, <1>9, Zenon
<1> QED BY <1>10 DEF k, p, t

LEMMA EuclaseComposedY ==
  ASSUME NEW q, NEW r, NEW o, NEW m, NEW n, NEW l, Composed(q, r, o, m, n, l)
  PROVE  E!mul_vec4(Turn(q, m), Turn(r, n)[2]) = Turn(o, l)[2]
<1> DEFINE a == q[1]
           b == q[2]
           c == q[3]
           d == q[4]
           x == r[1]
           y == r[2]
           z == r[3]
           w == r[4]
           e == o[1]
           f == o[2]
           g == o[3]
           h == o[4]
<1>1. /\ a \in Int /\ b \in Int /\ c \in Int /\ d \in Int
      /\ x \in Int /\ y \in Int /\ z \in Int /\ w \in Int
      /\ e = d * x + a * w + b * z - c * y /\ f = d * y - a * z + b * w + c * x
      /\ g = d * z + a * y - b * x + c * w /\ h = d * w - a * x - b * y - c * z
      /\ m = a * a + b * b + c * c + d * d /\ n = x * x + y * y + z * z + w * w
      /\ l = e * e + f * f + g * g + h * h
  BY DEF Composed
<1> DEFINE k == Turn(q, m)
           p == Turn(r, n)[2]
           t == Turn(o, l)[2]
<1>2. /\ k[1] = TurnX(a, b, c, d, m) /\ k[2] = TurnY(a, b, c, d, m)
      /\ k[3] = TurnZ(a, b, c, d, m) /\ k[4] = TurnW(m)
      /\ p = TurnY(x, y, z, w, n) /\ t = TurnY(e, f, g, h, l)
  BY DEF Turn
<1> HIDE DEF k, p, t, a, b, c, d, x, y, z, w, e, f, g, h
<1>3. /\ DOMAIN k[1] = 1 .. 4 /\ DOMAIN k[2] = 1 .. 4 /\ DOMAIN k[3] = 1 .. 4 /\ DOMAIN k[4] = 1 .. 4
      /\ t = [i \in 1 .. 4 |-> t[i]]
  BY <1>2 DEF TurnX, TurnY, TurnZ, TurnW
<1>4. (k[1][1] * p[1] + k[2][1] * p[2]) + (k[3][1] * p[3] + k[4][1] * p[4]) = t[1]
  BY <1>1, <1>2 DEF TurnX, TurnY, TurnZ, TurnW
<1>5. (k[1][2] * p[1] + k[2][2] * p[2]) + (k[3][2] * p[3] + k[4][2] * p[4]) = t[2]
  BY <1>1, <1>2 DEF TurnX, TurnY, TurnZ, TurnW
<1>6. (k[1][3] * p[1] + k[2][3] * p[2]) + (k[3][3] * p[3] + k[4][3] * p[4]) = t[3]
  BY <1>1, <1>2 DEF TurnX, TurnY, TurnZ, TurnW
<1>7. (k[1][4] * p[1] + k[2][4] * p[2]) + (k[3][4] * p[3] + k[4][4] * p[4]) = t[4]
  BY <1>1, <1>2 DEF TurnX, TurnY, TurnZ, TurnW
<1>8. \A i \in 1 .. 4 : (k[1][i] * p[1] + k[2][i] * p[2]) + (k[3][i] * p[3] + k[4][i] * p[4]) = t[i]
  <2>1. \A i \in 1 .. 4 : i \in {1, 2, 3, 4}
    OBVIOUS
  <2> QED BY <1>4, <1>5, <1>6, <1>7, <2>1, Zenon
<1>9. E!mul_vec4(k, p) =
        [i \in 1 .. 4 |-> (k[1][i] * p[1] + k[2][i] * p[2]) + (k[3][i] * p[3] + k[4][i] * p[4])]
  BY <1>3, EuclaseProduct
<1>10. E!mul_vec4(k, p) = t
  BY <1>3, <1>8, <1>9, Zenon
<1> QED BY <1>10 DEF k, p, t

LEMMA EuclaseComposedZ ==
  ASSUME NEW q, NEW r, NEW o, NEW m, NEW n, NEW l, Composed(q, r, o, m, n, l)
  PROVE  E!mul_vec4(Turn(q, m), Turn(r, n)[3]) = Turn(o, l)[3]
<1> DEFINE a == q[1]
           b == q[2]
           c == q[3]
           d == q[4]
           x == r[1]
           y == r[2]
           z == r[3]
           w == r[4]
           e == o[1]
           f == o[2]
           g == o[3]
           h == o[4]
<1>1. /\ a \in Int /\ b \in Int /\ c \in Int /\ d \in Int
      /\ x \in Int /\ y \in Int /\ z \in Int /\ w \in Int
      /\ e = d * x + a * w + b * z - c * y /\ f = d * y - a * z + b * w + c * x
      /\ g = d * z + a * y - b * x + c * w /\ h = d * w - a * x - b * y - c * z
      /\ m = a * a + b * b + c * c + d * d /\ n = x * x + y * y + z * z + w * w
      /\ l = e * e + f * f + g * g + h * h
  BY DEF Composed
<1> DEFINE k == Turn(q, m)
           p == Turn(r, n)[3]
           t == Turn(o, l)[3]
<1>2. /\ k[1] = TurnX(a, b, c, d, m) /\ k[2] = TurnY(a, b, c, d, m)
      /\ k[3] = TurnZ(a, b, c, d, m) /\ k[4] = TurnW(m)
      /\ p = TurnZ(x, y, z, w, n) /\ t = TurnZ(e, f, g, h, l)
  BY DEF Turn
<1> HIDE DEF k, p, t, a, b, c, d, x, y, z, w, e, f, g, h
<1>3. /\ DOMAIN k[1] = 1 .. 4 /\ DOMAIN k[2] = 1 .. 4 /\ DOMAIN k[3] = 1 .. 4 /\ DOMAIN k[4] = 1 .. 4
      /\ t = [i \in 1 .. 4 |-> t[i]]
  BY <1>2 DEF TurnX, TurnY, TurnZ, TurnW
<1>4. (k[1][1] * p[1] + k[2][1] * p[2]) + (k[3][1] * p[3] + k[4][1] * p[4]) = t[1]
  BY <1>1, <1>2 DEF TurnX, TurnY, TurnZ, TurnW
<1>5. (k[1][2] * p[1] + k[2][2] * p[2]) + (k[3][2] * p[3] + k[4][2] * p[4]) = t[2]
  BY <1>1, <1>2 DEF TurnX, TurnY, TurnZ, TurnW
<1>6. (k[1][3] * p[1] + k[2][3] * p[2]) + (k[3][3] * p[3] + k[4][3] * p[4]) = t[3]
  BY <1>1, <1>2 DEF TurnX, TurnY, TurnZ, TurnW
<1>7. (k[1][4] * p[1] + k[2][4] * p[2]) + (k[3][4] * p[3] + k[4][4] * p[4]) = t[4]
  BY <1>1, <1>2 DEF TurnX, TurnY, TurnZ, TurnW
<1>8. \A i \in 1 .. 4 : (k[1][i] * p[1] + k[2][i] * p[2]) + (k[3][i] * p[3] + k[4][i] * p[4]) = t[i]
  <2>1. \A i \in 1 .. 4 : i \in {1, 2, 3, 4}
    OBVIOUS
  <2> QED BY <1>4, <1>5, <1>6, <1>7, <2>1, Zenon
<1>9. E!mul_vec4(k, p) =
        [i \in 1 .. 4 |-> (k[1][i] * p[1] + k[2][i] * p[2]) + (k[3][i] * p[3] + k[4][i] * p[4])]
  BY <1>3, EuclaseProduct
<1>10. E!mul_vec4(k, p) = t
  BY <1>3, <1>8, <1>9, Zenon
<1> QED BY <1>10 DEF k, p, t

LEMMA EuclaseComposedW ==
  ASSUME NEW q, NEW r, NEW o, NEW m, NEW n, NEW l, Composed(q, r, o, m, n, l)
  PROVE  E!mul_vec4(Turn(q, m), Turn(r, n)[4]) = Turn(o, l)[4]
<1> DEFINE a == q[1]
           b == q[2]
           c == q[3]
           d == q[4]
           x == r[1]
           y == r[2]
           z == r[3]
           w == r[4]
           e == o[1]
           f == o[2]
           g == o[3]
           h == o[4]
<1>1. /\ a \in Int /\ b \in Int /\ c \in Int /\ d \in Int
      /\ x \in Int /\ y \in Int /\ z \in Int /\ w \in Int
      /\ e = d * x + a * w + b * z - c * y /\ f = d * y - a * z + b * w + c * x
      /\ g = d * z + a * y - b * x + c * w /\ h = d * w - a * x - b * y - c * z
      /\ m = a * a + b * b + c * c + d * d /\ n = x * x + y * y + z * z + w * w
      /\ l = e * e + f * f + g * g + h * h
  BY DEF Composed
<1> DEFINE k == Turn(q, m)
           p == Turn(r, n)[4]
           t == Turn(o, l)[4]
<1>2. /\ k[1] = TurnX(a, b, c, d, m) /\ k[2] = TurnY(a, b, c, d, m)
      /\ k[3] = TurnZ(a, b, c, d, m) /\ k[4] = TurnW(m)
      /\ p = TurnW(n) /\ t = TurnW(l)
  BY DEF Turn
<1> HIDE DEF k, p, t, a, b, c, d, x, y, z, w, e, f, g, h
<1>3. /\ DOMAIN k[1] = 1 .. 4 /\ DOMAIN k[2] = 1 .. 4 /\ DOMAIN k[3] = 1 .. 4 /\ DOMAIN k[4] = 1 .. 4
      /\ t = [i \in 1 .. 4 |-> t[i]]
  BY <1>2 DEF TurnX, TurnY, TurnZ, TurnW
<1>4. l = m * n /\ m \in Int /\ n \in Int
  BY EuclaseLengths
<1>5. (k[1][1] * p[1] + k[2][1] * p[2]) + (k[3][1] * p[3] + k[4][1] * p[4]) = t[1]
  BY <1>1, <1>2, <1>4 DEF TurnX, TurnY, TurnZ, TurnW
<1>6. (k[1][2] * p[1] + k[2][2] * p[2]) + (k[3][2] * p[3] + k[4][2] * p[4]) = t[2]
  BY <1>1, <1>2, <1>4 DEF TurnX, TurnY, TurnZ, TurnW
<1>7. (k[1][3] * p[1] + k[2][3] * p[2]) + (k[3][3] * p[3] + k[4][3] * p[4]) = t[3]
  BY <1>1, <1>2, <1>4 DEF TurnX, TurnY, TurnZ, TurnW
<1>8. (k[1][4] * p[1] + k[2][4] * p[2]) + (k[3][4] * p[3] + k[4][4] * p[4]) = t[4]
  BY <1>1, <1>2, <1>4 DEF TurnX, TurnY, TurnZ, TurnW
<1>9. \A i \in 1 .. 4 : (k[1][i] * p[1] + k[2][i] * p[2]) + (k[3][i] * p[3] + k[4][i] * p[4]) = t[i]
  <2>1. \A i \in 1 .. 4 : i \in {1, 2, 3, 4}
    OBVIOUS
  <2> QED BY <1>5, <1>6, <1>7, <1>8, <2>1, Zenon
<1>10. E!mul_vec4(k, p) =
        [i \in 1 .. 4 |-> (k[1][i] * p[1] + k[2][i] * p[2]) + (k[3][i] * p[3] + k[4][i] * p[4])]
  BY <1>3, EuclaseProduct
<1>11. E!mul_vec4(k, p) = t
  BY <1>3, <1>9, <1>10, Zenon
<1> QED BY <1>11 DEF k, p, t


\* Rotations compose as their quaternions are multiplied, and as the code multiplies
\* their matrices (euclase, Quat::mul and Mat4::mul).
THEOREM EuclaseRotationComposes ==
  ASSUME NEW q \in E!Quats(Int), NEW r \in E!Quats(Int) PROVE E!RotationComposes(q, r)
<1> DEFINE o == E!QMul(q, r)
           m == E!Dot4(q, q)
           n == E!Dot4(r, r)
           l == E!Dot4(o, o)
<1>1. Composed(q, r, o, m, n, l)
  BY DEF Composed, E!QMul, E!Dot4, E!Quats, E!Vec4s
<1> DEFINE first == E!from_rotation(q)
           second == E!from_rotation(r)
           both == E!from_rotation(o)
<1>2. first = Turn(q, m) /\ second = Turn(r, n) /\ both = Turn(o, l)
  BY EuclaseTurns DEF Turn
<1> HIDE DEF first, second, both, m, n, l, o
<1>3. /\ E!mul_vec4(first, second[1]) = both[1] /\ E!mul_vec4(first, second[2]) = both[2]
      /\ E!mul_vec4(first, second[3]) = both[3] /\ E!mul_vec4(first, second[4]) = both[4]
  BY <1>1, <1>2, EuclaseComposedX, EuclaseComposedY, EuclaseComposedZ, EuclaseComposedW
<1>4. both = [i \in 1 .. 4 |-> both[i]]
  BY <1>2 DEF Turn
<1>5. ASSUME NEW i \in 1 .. 4 PROVE E!mul_vec4(first, second[i]) = both[i]
  <2>1. i \in {1, 2, 3, 4}
    OBVIOUS
  <2> QED BY <1>3, <2>1, Zenon
<1>6. E!Mul(first, second) = both
  BY <1>4, <1>5 DEF E!Mul
<1> QED BY <1>6 DEF E!RotationComposes, first, second, both, o

\* The columns of a view with these rows and this shift.
Viewed(m, right, u, back, o) ==
  /\ m[1] = <<right[1], u[1], back[1], 0>> /\ m[2] = <<right[2], u[2], back[2], 0>>
  /\ m[3] = <<right[3], u[3], back[3], 0>> /\ m[4] = <<o[1], o[2], o[3], o[4]>>
  /\ right[1] \in Int /\ right[2] \in Int /\ right[3] \in Int
  /\ u[1] \in Int /\ u[2] \in Int /\ u[3] \in Int
  /\ back[1] \in Int /\ back[2] \in Int /\ back[3] \in Int
  /\ o[1] \in Int /\ o[2] \in Int /\ o[3] \in Int /\ o[4] \in Int

LEMMA EuclaseFirstThree ==
  ASSUME NEW a \in Int, NEW b \in Int, NEW c \in Int, NEW d \in Int
  PROVE  SubSeq(<<a, b, c, d>>, 1, 3) = <<a, b, c>>
<1> DEFINE r == <<a, b, c, d>>
           v == SubSeq(r, 1, 3)
<1>1. r \in Seq(Int) /\ Len(r) = 4 /\ r[1] = a /\ r[2] = b /\ r[3] = c
  OBVIOUS
<1> HIDE DEF r
<1>2. 1 \in 1 .. Len(r) + 1 /\ 3 \in 0 .. Len(r)
  BY <1>1
<1>3. /\ v \in Seq(Int) /\ Len(v) = 3
      /\ \A i \in 1 .. 3 : v[i] = r[1 + i - 1]
  BY <1>1, <1>2, SubSeqProperties
<1> HIDE DEF v
<1>4. v[1] = a /\ v[2] = b /\ v[3] = c
  BY <1>1, <1>3
<1>5. v = <<v[1], v[2], v[3]>>
  BY <1>3
<1> QED BY <1>4, <1>5 DEF v, r

\* What a camera makes of a point: its place along the rows of the view, from the eye.
LEMMA EuclaseView ==
  ASSUME NEW m, NEW right, NEW u, NEW back, NEW o, Viewed(m, right, u, back, o),
         NEW p, p[1] \in Int, p[2] \in Int, p[3] \in Int
  PROVE  SubSeq(E!mul_vec4(m, E!Point(p)), 1, 3) =
           <<E!Dot3(right, p) + o[1], E!Dot3(u, p) + o[2], E!Dot3(back, p) + o[3]>>
<1> DEFINE r == E!mul_vec4(m, E!Point(p))
<1>1. /\ m[1] = <<right[1], u[1], back[1], 0>> /\ m[2] = <<right[2], u[2], back[2], 0>>
      /\ m[3] = <<right[3], u[3], back[3], 0>> /\ m[4] = <<o[1], o[2], o[3], o[4]>>
      /\ right[1] \in Int /\ right[2] \in Int /\ right[3] \in Int
      /\ u[1] \in Int /\ u[2] \in Int /\ u[3] \in Int
      /\ back[1] \in Int /\ back[2] \in Int /\ back[3] \in Int
      /\ o[1] \in Int /\ o[2] \in Int /\ o[3] \in Int /\ o[4] \in Int
  BY DEF Viewed
<1>2. /\ DOMAIN m[1] = 1 .. 4 /\ DOMAIN m[2] = 1 .. 4 /\ DOMAIN m[3] = 1 .. 4 /\ DOMAIN m[4] = 1 .. 4
  BY <1>1
<1> DEFINE e == E!Point(p)
<1>3. e[1] = p[1] /\ e[2] = p[2] /\ e[3] = p[3] /\ e[4] = 1
  BY DEF E!Point
<1> HIDE DEF e
<1>4. r = [i \in 1 .. 4 |-> (m[1][i] * e[1] + m[2][i] * e[2]) + (m[3][i] * e[3] + m[4][i] * e[4])]
  BY <1>2, EuclaseProduct DEF e
<1> HIDE DEF r
<1>5. r[1] = (m[1][1] * e[1] + m[2][1] * e[2]) + (m[3][1] * e[3] + m[4][1] * e[4])
  BY <1>4
<1>6. r[2] = (m[1][2] * e[1] + m[2][2] * e[2]) + (m[3][2] * e[3] + m[4][2] * e[4])
  BY <1>4
<1>7. r[3] = (m[1][3] * e[1] + m[2][3] * e[2]) + (m[3][3] * e[3] + m[4][3] * e[4])
  BY <1>4
<1>8. r[1] = E!Dot3(right, p) + o[1] /\ r[1] \in Int
  BY <1>1, <1>3, <1>5 DEF E!Dot3
<1>9. r[2] = E!Dot3(u, p) + o[2] /\ r[2] \in Int
  BY <1>1, <1>3, <1>6 DEF E!Dot3
<1>10. r[3] = E!Dot3(back, p) + o[3] /\ r[3] \in Int
  BY <1>1, <1>3, <1>7 DEF E!Dot3
<1>11. r[4] = (m[1][4] * e[1] + m[2][4] * e[2]) + (m[3][4] * e[3] + m[4][4] * e[4])
  BY <1>4
<1>12. r[4] \in Int
  BY <1>1, <1>3, <1>11
<1>13. r = <<r[1], r[2], r[3], r[4]>>
  BY <1>4
<1>14. SubSeq(r, 1, 3) = <<r[1], r[2], r[3]>>
  BY <1>8, <1>9, <1>10, <1>12, <1>13, EuclaseFirstThree
<1> QED BY <1>8, <1>9, <1>10, <1>14 DEF r, e

LEMMA EuclaseShift ==
  ASSUME NEW r, NEW p, NEW e, NEW f, r[1] \in Int, r[2] \in Int, r[3] \in Int,
         e[1] \in Int, e[2] \in Int, e[3] \in Int, f[1] \in Int, f[2] \in Int, f[3] \in Int,
         p[1] = e[1] + f[1], p[2] = e[2] + f[2], p[3] = e[3] + f[3]
  PROVE  E!Dot3(r, p) - E!Dot3(r, e) = E!Dot3(r, f)
  BY DEF E!Dot3

LEMMA EuclaseLengthIs ==
  ASSUME NEW v, E!HasLength(v), E!Dot3(v, v) \in Int
  PROVE  E!Length(v) \in Int /\ E!Length(v) * E!Length(v) = E!Dot3(v, v) /\ E!Dot3(v, v) >= 1
<1>1. PICK n \in 1 .. E!Dot3(v, v) : n * n = E!Dot3(v, v)
  BY DEF E!HasLength
<1>2. n \in 0 .. E!Dot3(v, v) /\ E!Dot3(v, v) >= 1
  BY <1>1
<1>3. E!Length(v) \in 0 .. E!Dot3(v, v) /\ E!Length(v) * E!Length(v) = E!Dot3(v, v)
  BY <1>1, <1>2 DEF E!Length
<1> QED BY <1>2, <1>3

\* Wherever a camera stands and whatever it looks at: it sees its eye at the origin, its
\* target straight ahead and what is up above (euclase, Mat4::look_at_rh).
THEOREM EuclaseCameraLooks ==
  ASSUME NEW eye \in E!Vec3s(Int), NEW center \in E!Vec3s(Int), NEW up \in E!Vec3s(Int)
  PROVE  E!CameraLooks(eye, center, up)
<1> DEFINE f == E!Sub(center, eye)
           s == E!Cross(f, up)
           u == E!Cross(s, f)
           m == E!look_at_rh(eye, center, up)
           right == E!Scale(s, E!Length(f))
           back == E!Scale(f, -E!Length(s))
           above == E!Add(eye, up)
           at(p) == SubSeq(E!mul_vec4(m, E!Point(p)), 1, 3)
           lf == E!Length(f)
           ls == E!Length(s)
<1> SUFFICES ASSUME E!HasLength(f), E!HasLength(s)
             PROVE  /\ at(eye) = <<0, 0, 0>>
                    /\ at(center)[1] = 0 /\ at(center)[2] = 0
                    /\ at(center)[3] = -(E!Length(f) * E!Length(f) * E!Length(s))
                    /\ at(above)[1] = 0 /\ at(above)[2] > 0
  BY DEF E!CameraLooks
<1>1. /\ eye[1] \in Int /\ eye[2] \in Int /\ eye[3] \in Int
      /\ center[1] \in Int /\ center[2] \in Int /\ center[3] \in Int
      /\ up[1] \in Int /\ up[2] \in Int /\ up[3] \in Int
      /\ DOMAIN eye = 1 .. 3 /\ DOMAIN center = 1 .. 3
  BY DEF E!Vec3s
<1>2. /\ f[1] = center[1] - eye[1] /\ f[2] = center[2] - eye[2] /\ f[3] = center[3] - eye[3]
      /\ DOMAIN f = 1 .. 3
  BY <1>1 DEF E!Sub
<1>3. above[1] = eye[1] + up[1] /\ above[2] = eye[2] + up[2] /\ above[3] = eye[3] + up[3]
  BY <1>1 DEF E!Add
<1> HIDE DEF f, above
<1>4. f[1] \in Int /\ f[2] \in Int /\ f[3] \in Int
  BY <1>1, <1>2
<1>5. /\ s[1] = f[2] * up[3] - f[3] * up[2] /\ s[2] = f[3] * up[1] - f[1] * up[3]
      /\ s[3] = f[1] * up[2] - f[2] * up[1] /\ DOMAIN s = 1 .. 3
  BY DEF E!Cross
<1> HIDE DEF s
<1>6. s[1] \in Int /\ s[2] \in Int /\ s[3] \in Int
  BY <1>1, <1>4, <1>5
<1>7. /\ u[1] = s[2] * f[3] - s[3] * f[2] /\ u[2] = s[3] * f[1] - s[1] * f[3]
      /\ u[3] = s[1] * f[2] - s[2] * f[1]
  BY DEF E!Cross
<1>8. /\ E!Dot3(f, f) = f[1] * f[1] + f[2] * f[2] + f[3] * f[3] /\ E!Dot3(f, f) \in Int
      /\ E!Dot3(s, s) = s[1] * s[1] + s[2] * s[2] + s[3] * s[3] /\ E!Dot3(s, s) \in Int
  BY <1>4, <1>6 DEF E!Dot3
<1>9. lf \in Int /\ lf * lf = E!Dot3(f, f) /\ ls \in Int /\ ls * ls = E!Dot3(s, s) /\ E!Dot3(s, s) >= 1
  BY <1>8, EuclaseLengthIs
<1>10. /\ right[1] = s[1] * lf /\ right[2] = s[2] * lf /\ right[3] = s[3] * lf
       /\ back[1] = f[1] * (-ls) /\ back[2] = f[2] * (-ls) /\ back[3] = f[3] * (-ls)
  BY <1>2, <1>5 DEF E!Scale
<1>11. m = << <<right[1], u[1], back[1], 0>>, <<right[2], u[2], back[2], 0>>,
              <<right[3], u[3], back[3], 0>>,
              <<-E!Dot3(right, eye), -E!Dot3(u, eye), -E!Dot3(back, eye), lf * ls>> >>
  BY DEF E!look_at_rh, f, s
<1> HIDE DEF u, m, right, back, lf, ls
<1>12. /\ u[1] \in Int /\ u[2] \in Int /\ u[3] \in Int /\ right[1] \in Int /\ right[2] \in Int /\ right[3] \in Int
       /\ back[1] \in Int /\ back[2] \in Int /\ back[3] \in Int
  BY <1>4, <1>6, <1>7, <1>9, <1>10
<1>13. /\ E!Dot3(right, eye) \in Int /\ E!Dot3(u, eye) \in Int /\ E!Dot3(back, eye) \in Int /\ lf * ls \in Int
       /\ -E!Dot3(right, eye) \in Int /\ -E!Dot3(u, eye) \in Int /\ -E!Dot3(back, eye) \in Int
  BY <1>1, <1>9, <1>12 DEF E!Dot3
<1>14. ASSUME NEW p, p[1] \in Int, p[2] \in Int, p[3] \in Int
       PROVE  /\ at(p)[1] = E!Dot3(right, p) - E!Dot3(right, eye)
              /\ at(p)[2] = E!Dot3(u, p) - E!Dot3(u, eye)
              /\ at(p)[3] = E!Dot3(back, p) - E!Dot3(back, eye)
              /\ at(p) = <<at(p)[1], at(p)[2], at(p)[3]>>
  <2> DEFINE o == <<-E!Dot3(right, eye), -E!Dot3(u, eye), -E!Dot3(back, eye), lf * ls>>
             v == at(p)
  <2>1. o[1] = -E!Dot3(right, eye) /\ o[2] = -E!Dot3(u, eye) /\ o[3] = -E!Dot3(back, eye) /\ o[4] = lf * ls
    OBVIOUS
  <2>2. Viewed(m, right, u, back, o)
    BY <1>11, <1>12, <1>13 DEF Viewed
  <2> HIDE DEF o
  <2>3. v = <<E!Dot3(right, p) + o[1], E!Dot3(u, p) + o[2], E!Dot3(back, p) + o[3]>>
    BY <1>14, <2>2, EuclaseView
  <2> HIDE DEF v
  <2>4. E!Dot3(right, p) \in Int /\ E!Dot3(u, p) \in Int /\ E!Dot3(back, p) \in Int
    BY <1>12, <1>14 DEF E!Dot3
  <2>5. /\ v[1] = E!Dot3(right, p) - E!Dot3(right, eye) /\ v[2] = E!Dot3(u, p) - E!Dot3(u, eye)
        /\ v[3] = E!Dot3(back, p) - E!Dot3(back, eye)
    BY <1>13, <2>1, <2>3, <2>4
  <2>6. v = <<v[1], v[2], v[3]>>
    BY <2>3
  <2> QED BY <2>5, <2>6 DEF v
<1>15. center[1] = eye[1] + f[1] /\ center[2] = eye[2] + f[2] /\ center[3] = eye[3] + f[3]
  BY <1>1, <1>2
<1> DEFINE A == at(eye)
           B == at(center)
           C == at(above)
<1>16. /\ A[1] = 0 /\ A[2] = 0 /\ A[3] = 0 /\ A = <<A[1], A[2], A[3]>>
  BY <1>1, <1>13, <1>14
<1>17. /\ B[1] = E!Dot3(right, center) - E!Dot3(right, eye)
       /\ B[2] = E!Dot3(u, center) - E!Dot3(u, eye)
       /\ B[3] = E!Dot3(back, center) - E!Dot3(back, eye)
  BY <1>1, <1>14
<1>18. above[1] \in Int /\ above[2] \in Int /\ above[3] \in Int
  BY <1>1, <1>3
<1>19. /\ C[1] = E!Dot3(right, above) - E!Dot3(right, eye)
       /\ C[2] = E!Dot3(u, above) - E!Dot3(u, eye)
  BY <1>14, <1>18
<1> HIDE DEF A, B, C
<1>20. B[1] = 0
  <2>1. B[1] = E!Dot3(right, f)
    BY <1>1, <1>4, <1>12, <1>15, <1>17, EuclaseShift
  <2>2. E!Dot3(right, f) = 0
    BY <1>1, <1>4, <1>5, <1>9, <1>10 DEF E!Dot3
  <2> QED BY <2>1, <2>2
<1>21. B[2] = 0
  <2>1. B[2] = E!Dot3(u, f)
    BY <1>1, <1>4, <1>12, <1>15, <1>17, EuclaseShift
  <2>2. E!Dot3(u, f) = 0
    BY <1>4, <1>6, <1>7 DEF E!Dot3
  <2> QED BY <2>1, <2>2
<1>22. B[3] = -(lf * lf * ls)
  <2>1. B[3] = -(E!Dot3(f, f) * ls)
    <3>1. B[3] = E!Dot3(back, f)
      BY <1>1, <1>4, <1>12, <1>15, <1>17, EuclaseShift
    <3>2. E!Dot3(back, f) = -(E!Dot3(f, f) * ls)
      BY <1>4, <1>9, <1>10 DEF E!Dot3
    <3> QED BY <3>1, <3>2
  <2> QED BY <1>9, <2>1
<1>23. C[1] = 0
  BY <1>1, <1>3, <1>4, <1>5, <1>9, <1>10, <1>19 DEF E!Dot3
<1>24. C[2] > 0
  <2>1. C[2] = E!Dot3(s, s)
    BY <1>1, <1>3, <1>4, <1>5, <1>7, <1>19 DEF E!Dot3
  <2> QED BY <1>8, <1>9, <2>1
<1> QED BY <1>16, <1>20, <1>21, <1>22, <1>23, <1>24 DEF A, B, C, lf, ls

\* Depth goes where each projection's kind says, near plane and far plane (euclase,
\* perspective_rh_zo and perspective_rh_gl).
THEOREM EuclaseDepthRange == ASSUME NEW near \in Int, NEW far \in Int PROVE E!DepthRange(near, far)
  BY DEF E!DepthRange, E!perspective_rh_zo, E!perspective_rh_gl

--------------------------------------------------------------------------------
(* The Fourier transform, for buffers of any size up to the largest. *)

\* A function defined by recursion from each argument to the next, up to a bound or
\* for all numbers: it starts with a, and g makes the value at n of n and the one before.
Recursive(S, a, g) == a \in S /\ g \in [Nat \X S -> S]
Recurs(f, D, a, g) == f[0] = a /\ \A n \in D : n # 0 => f[n] = g[<<n, f[n - 1]>>]

\* There is one.
LEMMA FiniteRecursion ==
  ASSUME NEW top \in Nat, NEW S, NEW a, NEW g, Recursive(S, a, g)
  PROVE  \E f : f \in [0 .. top -> S] /\ Recurs(f, 0 .. top, a, g)
<1> USE DEF Recursive
<1> DEFINE Up(n, f) == f \in [0 .. n -> S] /\ Recurs(f, 0 .. n, a, g)
           T == {n \in Nat : \E f : Up(n, f)}
<1>1. 0 \in T
  <2>1. Up(0, [i \in 0 .. 0 |-> a])
    BY DEF Recurs
  <2> QED BY <2>1
<1>2. ASSUME NEW n \in 0 .. top, n # top, n \in T PROVE n + 1 \in T
  <2>1. PICK f : Up(n, f)
    BY <1>2
  <2> DEFINE more == [i \in 0 .. n + 1 |-> IF i <= n THEN f[i] ELSE g[<<n + 1, f[n]>>]]
  <2>2. g[<<n + 1, f[n]>>] \in S
    <3>1. f[n] \in S /\ n + 1 \in Nat
      BY <2>1
    <3> QED BY <3>1
  <2>3. more \in [0 .. n + 1 -> S] /\ more[0] = a
    BY <2>1, <2>2 DEF Recurs
  <2>4. ASSUME NEW i \in 0 .. n + 1, i # 0 PROVE more[i] = g[<<i, more[i - 1]>>]
    <3>1. CASE i <= n
      <4>1. i \in 0 .. n /\ i - 1 \in 0 .. n /\ i - 1 \in 0 .. n + 1 /\ i - 1 <= n
        BY <2>4, <3>1
      <4>2. more[i] = f[i] /\ more[i - 1] = f[i - 1]
        BY <3>1, <4>1
      <4> QED BY <2>1, <2>4, <4>1, <4>2 DEF Recurs
    <3>2. CASE i = n + 1
      <4>1. more[i] = g[<<n + 1, f[n]>>]
        BY <3>2
      <4>2. i - 1 = n /\ n \in 0 .. n + 1 /\ n <= n
        BY <3>2
      <4>3. more[i - 1] = f[n]
        BY <4>2
      <4> QED BY <3>2, <4>1, <4>3
    <3> QED BY <3>1, <3>2
  <2>5. Up(n + 1, more)
    BY <2>3, <2>4 DEF Recurs
  <2> HIDE DEF Up, more
  <2> QED BY <1>2, <2>5
<1>3. \A n \in 0 .. top : n \in T
  <2> HIDE DEF T
  <2> QED BY <1>1, <1>2, Climb
<1>4. top \in T
  <2> HIDE DEF T
  <2> QED BY <1>3
<1>5. \E f : Up(top, f)
  <2> HIDE DEF Up
  <2> QED BY <1>4
<1> QED BY <1>5

LEMMA Recursion ==
  ASSUME NEW S, NEW a, NEW g, Recursive(S, a, g)
  PROVE  \E f : f \in [Nat -> S] /\ Recurs(f, Nat, a, g)
<1> DEFINE Up(n, f) == f \in [0 .. n -> S] /\ Recurs(f, 0 .. n, a, g)
           upto(n) == CHOOSE f : Up(n, f)
           all == [n \in Nat |-> upto(n)[n]]
<1>1. \A n \in Nat : Up(n, upto(n))
  <2> TAKE n \in Nat
  <2>1. \E f : Up(n, f)
    BY FiniteRecursion
  <2> HIDE DEF Up
  <2> QED BY <2>1
<1>2. ASSUME NEW n \in Nat, n # 0 PROVE upto(n)[n - 1] = upto(n - 1)[n - 1]
  <2> DEFINE p == upto(n)
             q == upto(n - 1)
             T == {i \in 0 .. n - 1 : p[i] = q[i]}
  <2>0. n - 1 \in Nat
    BY <1>2
  <2>1. Up(n, p) /\ Up(n - 1, q)
    <3> HIDE DEF Up
    <3> QED BY <1>1, <2>0
  <2> HIDE DEF p, q
  <2>2. n - 1 \in Nat /\ 0 \in T
    BY <1>2, <2>1 DEF Recurs
  <2>3. ASSUME NEW i \in 0 .. n - 1, i # n - 1, i \in T PROVE i + 1 \in T
    <3>1. i + 1 \in 0 .. n - 1 /\ i + 1 \in 0 .. n /\ i + 1 # 0 /\ (i + 1) - 1 = i
      BY <1>2, <2>3
    <3>2. p[i + 1] = g[<<i + 1, p[i]>>] /\ q[i + 1] = g[<<i + 1, q[i]>>]
      BY <2>1, <3>1 DEF Recurs
    <3>3. p[i] = q[i]
      BY <2>3
    <3> QED BY <3>1, <3>2, <3>3
  <2> HIDE DEF T
  <2>4. \A i \in 0 .. n - 1 : i \in T
    BY <2>2, <2>3, Climb
  <2>5. n - 1 \in T
    BY <2>2, <2>4
  <2> QED BY <2>5 DEF T, p, q
<1>3. \A n \in Nat : upto(n)[n] \in S
  BY <1>1
<1>4. all \in [Nat -> S] /\ all[0] = a
  BY <1>1, <1>3 DEF Recurs
<1>5. ASSUME NEW n \in Nat, n # 0 PROVE all[n] = g[<<n, all[n - 1]>>]
  <2>1. upto(n)[n] = g[<<n, upto(n)[n - 1]>>]
    <3>1. Up(n, upto(n))
      <4> HIDE DEF Up
      <4> QED BY <1>1
    <3> HIDE DEF upto
    <3> QED BY <3>1, <1>5 DEF Recurs
  <2>2. n - 1 \in Nat
    BY <1>5
  <2>3. all[n - 1] = upto(n - 1)[n - 1] /\ all[n] = upto(n)[n]
    BY <2>2
  <2> QED BY <1>2, <1>5, <2>1, <2>3
<1> HIDE DEF all
<1> QED BY <1>4, <1>5 DEF Recurs

LEMMA FftPow2 ==
  /\ F!Pow2[0] = 1
  /\ \A k \in Nat : F!Pow2[k + 1] = 2 * F!Pow2[k] /\ F!Pow2[k] \in Nat /\ F!Pow2[k] > 0
<1> DEFINE Is(f) == f = [k \in Nat |-> IF k = 0 THEN 1 ELSE 2 * f[k - 1]]
           S == {n \in Nat : n > 0}
           g == [z \in Nat \X S |-> 2 * z[2]]
<1>1. \E f : Is(f)
  <2>1. Recursive(S, 1, g)
    BY DEF Recursive
  <2>2. PICK f : f \in [Nat -> S] /\ Recurs(f, Nat, 1, g)
    <3> HIDE DEF g, S
    <3> QED BY <2>1, Recursion
  <2>3. ASSUME NEW n \in Nat PROVE f[n] = IF n = 0 THEN 1 ELSE 2 * f[n - 1]
    <3>1. n # 0 => f[n - 1] \in S /\ <<n, f[n - 1]>> \in Nat \X S
      BY <2>2
    <3>2. n # 0 => g[<<n, f[n - 1]>>] = 2 * f[n - 1]
      BY <3>1
    <3> QED BY <2>2, <3>2 DEF Recurs
  <2>4. f = [k \in Nat |-> IF k = 0 THEN 1 ELSE 2 * f[k - 1]]
    BY <2>2, <2>3
  <2> QED BY <2>4
<1> DEFINE f == F!Pow2
<1>2. Is(f)
  <2>1. f = CHOOSE h : Is(h)
    BY DEF F!Pow2
  <2> HIDE DEF Is
  <2> QED BY <1>1, <2>1
<1> HIDE DEF f
<1>3. f[0] = 1 /\ \A k \in Nat : f[k + 1] = 2 * f[k]
  BY <1>2
<1> DEFINE T == {k \in Nat : f[k] \in Nat /\ f[k] > 0}
<1>4. ASSUME NEW k \in Nat PROVE k \in T
  <2>1. 0 \in T /\ \A n \in 0 .. k : n # k /\ n \in T => n + 1 \in T
    BY <1>3
  <2> HIDE DEF T
  <2> QED BY <2>1, Climb
<1> QED BY <1>3, <1>4 DEF f

\* i >> j, for all j.
LEMMA FftShifts ==
  ASSUME NEW i \in Nat
  PROVE  /\ F!Shifts(i)[0] = i
         /\ \A j \in Nat : F!Shifts(i)[j + 1] = F!Shifts(i)[j] \div 2 /\ F!Shifts(i)[j] \in Nat
<1> DEFINE Is(f) == f = [j \in Nat |-> IF j = 0 THEN i ELSE f[j - 1] \div 2]
           g == [z \in Nat \X Nat |-> z[2] \div 2]
<1>1. \E f : Is(f)
  <2>1. Recursive(Nat, i, g)
    BY DEF Recursive
  <2>2. PICK f : f \in [Nat -> Nat] /\ Recurs(f, Nat, i, g)
    <3> HIDE DEF g
    <3> QED BY <2>1, Recursion
  <2>3. ASSUME NEW n \in Nat PROVE f[n] = IF n = 0 THEN i ELSE f[n - 1] \div 2
    <3>1. n # 0 => <<n, f[n - 1]>> \in Nat \X Nat
      BY <2>2
    <3>2. n # 0 => g[<<n, f[n - 1]>>] = f[n - 1] \div 2
      BY <3>1
    <3> QED BY <2>2, <3>2 DEF Recurs
  <2>4. f = [j \in Nat |-> IF j = 0 THEN i ELSE f[j - 1] \div 2]
    BY <2>2, <2>3
  <2> QED BY <2>4
<1> DEFINE f == F!Shifts(i)
<1>2. Is(f)
  <2>1. f = CHOOSE h : Is(h)
    BY DEF F!Shifts
  <2> HIDE DEF Is, f
  <2> QED BY <1>1, <2>1
<1> HIDE DEF f
<1>3. f[0] = i /\ \A j \in Nat : f[j + 1] = f[j] \div 2
  BY <1>2
<1> DEFINE T == {j \in Nat : f[j] \in Nat}
<1>4. ASSUME NEW j \in Nat PROVE j \in T
  <2>1. 0 \in T /\ \A n \in 0 .. j : n # j /\ n \in T => n + 1 \in T
    BY <1>3
  <2> HIDE DEF T
  <2> QED BY <2>1, Climb
<1> QED BY <1>3, <1>4 DEF f

LEMMA FftModulus == Modulus \in Nat /\ Modulus > 1 /\ Root \in Nat
  BY FftAssumption

\* The powers of b.
LEMMA FftPowers ==
  ASSUME NEW b \in Nat
  PROVE  /\ F!Powers(b)[0] = 1
         /\ \A e \in Nat : /\ F!Powers(b)[e + 1] = (b * F!Powers(b)[e]) % Modulus
                           /\ F!Powers(b)[e] \in Nat /\ F!Powers(b)[e] < Modulus
<1> DEFINE Is(f) == f = [e \in Nat |-> IF e = 0 THEN 1 ELSE (b * f[e - 1]) % Modulus]
           S == {n \in Nat : n < Modulus}
           g == [z \in Nat \X S |-> (b * z[2]) % Modulus]
<1>0. ASSUME NEW x \in S PROVE (b * x) % Modulus \in S
  <2>1. b * x \in Nat
    OBVIOUS
  <2> DEFINE y == b * x
  <2> HIDE DEF y
  <2> QED BY <2>1, FftModulus DEF y
<1>1. \E f : Is(f)
  <2>1. Recursive(S, 1, g)
    <3>1. 1 \in S
      BY FftModulus
    <3>2. g \in [Nat \X S -> S]
      <4> HIDE DEF S
      <4> QED BY <1>0
    <3> HIDE DEF S, g
    <3> QED BY <3>1, <3>2 DEF Recursive
  <2>2. PICK f : f \in [Nat -> S] /\ Recurs(f, Nat, 1, g)
    <3> HIDE DEF g, S
    <3> QED BY <2>1, Recursion
  <2> HIDE DEF S
  <2>3. ASSUME NEW n \in Nat PROVE f[n] = IF n = 0 THEN 1 ELSE (b * f[n - 1]) % Modulus
    <3>1. n # 0 => <<n, f[n - 1]>> \in Nat \X S
      BY <2>2
    <3>2. n # 0 => g[<<n, f[n - 1]>>] = (b * f[n - 1]) % Modulus
      BY <3>1
    <3> HIDE DEF g
    <3> QED BY <2>2, <3>2 DEF Recurs
  <2>4. f = [e \in Nat |-> IF e = 0 THEN 1 ELSE (b * f[e - 1]) % Modulus]
    BY <2>2, <2>3
  <2> QED BY <2>4
<1> DEFINE f == F!Powers(b)
<1>2. Is(f)
  <2>1. f = CHOOSE h : Is(h)
    BY DEF F!Powers
  <2> HIDE DEF Is, f
  <2> QED BY <1>1, <2>1
<1> HIDE DEF f
<1>3. f[0] = 1 /\ \A e \in Nat : f[e + 1] = (b * f[e]) % Modulus
  <2>1. f[0] = 1
    BY <1>2
  <2>2. ASSUME NEW e \in Nat PROVE f[e + 1] = (b * f[e]) % Modulus
    <3> DEFINE rest(n) == (b * f[n - 1]) % Modulus
    <3>1. f = [n \in Nat |-> IF n = 0 THEN 1 ELSE rest(n)]
      BY <1>2
    <3>2. rest(e + 1) = (b * f[e]) % Modulus
      <4>1. (e + 1) - 1 = e
        OBVIOUS
      <4> QED BY <4>1
    <3> HIDE DEF rest
    <3> QED BY <3>1, <3>2
  <2> QED BY <2>1, <2>2
<1> DEFINE T == {e \in Nat : f[e] \in S}
<1>4. ASSUME NEW e \in Nat PROVE e \in T
  <2>1. 0 \in T
    BY <1>3, FftModulus
  <2>2. \A n \in 0 .. e : n # e /\ n \in T => n + 1 \in T
    BY <1>0, <1>3
  <2> HIDE DEF T
  <2> QED BY <2>1, <2>2, Climb
<1> QED BY <1>3, <1>4 DEF f

\* The sums of the first numbers of a sequence of them.
SumsTo(f, s) == s \in [Nat -> Int] /\ s[0] = 0 /\ \A n \in Nat : s[n + 1] = s[n] + f[n]
Sums(f) == CHOOSE s : SumsTo(f, s)

LEMMA FftSums ==
  ASSUME NEW f \in [Nat -> Int] PROVE SumsTo(f, Sums(f))
<1> DEFINE g == [z \in Nat \X Int |-> z[2] + (IF z[1] = 0 THEN 0 ELSE f[z[1] - 1])]
<1>1. Recursive(Int, 0, g)
  BY DEF Recursive
<1>2. PICK s : s \in [Nat -> Int] /\ Recurs(s, Nat, 0, g)
  <2> HIDE DEF g
  <2> QED BY <1>1, Recursion
<1>3. ASSUME NEW n \in Nat PROVE s[n + 1] = s[n] + f[n]
  <2>1. s[n + 1] = g[<<n + 1, s[n]>>]
    <3> HIDE DEF g
    <3>1. n + 1 \in Nat /\ n + 1 # 0 /\ (n + 1) - 1 = n
      OBVIOUS
    <3> QED BY <1>2, <3>1 DEF Recurs
  <2>2. <<n + 1, s[n]>> \in Nat \X Int
    BY <1>2
  <2>3. g[<<n + 1, s[n]>>] = s[n] + f[n]
    BY <2>2
  <2> QED BY <2>1, <2>3
<1>4. SumsTo(f, s)
  BY <1>2, <1>3 DEF SumsTo, Recurs
<1> QED BY <1>4 DEF Sums

\* What Sum computes of a buffer.
LEMMA FftSumIs ==
  ASSUME NEW n \in Nat, NEW f \in [Nat -> Int], NEW h, \A j \in 0 .. n - 1 : h[j] = f[j]
  PROVE  F!Sum(h, n) = Sums(f)[n]
<1> DEFINE Is(s) == s = [i \in 0 .. n |-> IF i = 0 THEN 0 ELSE s[i - 1] + h[i - 1]]
           sums == Sums(f)
           s == CHOOSE x : Is(x)
           T == {i \in 0 .. n : s[i] = sums[i]}
<1>1. SumsTo(f, sums)
  BY FftSums
<1> HIDE DEF sums
<1>2. \E x : Is(x)
  <2> DEFINE x == [i \in 0 .. n |-> sums[i]]
  <2>1. ASSUME NEW i \in 0 .. n PROVE x[i] = IF i = 0 THEN 0 ELSE x[i - 1] + h[i - 1]
    <3>1. CASE i = 0
      BY <1>1, <3>1 DEF SumsTo
    <3>2. CASE i # 0
      <4>1. i - 1 \in 0 .. n /\ i - 1 \in 0 .. n - 1 /\ i - 1 \in Nat /\ (i - 1) + 1 = i
        BY <3>2
      <4>2. sums[i] = sums[i - 1] + f[i - 1]
        BY <1>1, <4>1 DEF SumsTo
      <4> QED BY <3>2, <4>1, <4>2
    <3> QED BY <3>1, <3>2
  <2>2. Is(x)
    BY <2>1
  <2> QED BY <2>2
<1>3. Is(s)
  <2> HIDE DEF Is
  <2> QED BY <1>2
<1>4. F!Sum(h, n) = s[n]
  BY DEF F!Sum
<1> HIDE DEF s
<1>5. 0 \in T
  BY <1>1, <1>3 DEF SumsTo
<1>6. ASSUME NEW i \in 0 .. n, i # n, i \in T PROVE i + 1 \in T
  <2>1. i + 1 \in 0 .. n /\ i + 1 # 0 /\ (i + 1) - 1 = i /\ i \in 0 .. n - 1 /\ i \in Nat
    BY <1>6
  <2>2. s[i + 1] = s[i] + h[i]
    BY <1>3, <2>1
  <2>3. sums[i + 1] = sums[i] + f[i]
    BY <1>1, <2>1 DEF SumsTo
  <2> QED BY <1>6, <2>1, <2>2, <2>3
<1>7. n \in T
  <2> HIDE DEF T
  <2>1. \A i \in 0 .. n : i \in T
    BY <1>5, <1>6, Climb
  <2> QED BY <2>1
<1> QED BY <1>4, <1>7 DEF sums

\* Remainders.
LEMMA ModIs ==
  ASSUME NEW x \in Int
  PROVE  /\ x % Modulus \in Nat /\ x % Modulus < Modulus
         /\ \E q \in Int : x = Modulus * q + (x % Modulus)
<1>1. x % Modulus \in Nat /\ x % Modulus < Modulus
  BY FftModulus
<1>2. x \div Modulus \in Int /\ x = Modulus * (x \div Modulus) + (x % Modulus)
  BY FftModulus
<1> QED BY <1>1, <1>2

LEMMA ModOnly ==
  ASSUME NEW d \in Nat, d > 0, NEW q \in Int, NEW r \in Nat, r < d
  PROVE  (d * q + r) % d = r /\ (d * q + r) \div d = q
  OBVIOUS

LEMMA ModSmall == ASSUME NEW x \in Nat, x < Modulus PROVE x % Modulus = x
  BY FftModulus

LEMMA ModAdd ==
  ASSUME NEW x \in Int, NEW y \in Int
  PROVE  /\ ((x % Modulus) + y) % Modulus = (x + y) % Modulus
         /\ (y + (x % Modulus)) % Modulus = (y + x) % Modulus
         /\ (y - (x % Modulus)) % Modulus = (y - x) % Modulus
<1> DEFINE r == x % Modulus
<1>1. PICK q \in Int : x = Modulus * q + r
  BY ModIs
<1>2. r \in Nat
  BY ModIs
<1>3. ASSUME NEW z \in Int, NEW p \in Int PROVE (Modulus * p + z) % Modulus = z % Modulus
  <2> DEFINE c == z % Modulus
  <2>1. PICK o \in Int : z = Modulus * o + c
    BY ModIs
  <2>2. c \in Nat /\ c < Modulus
    BY ModIs
  <2> HIDE DEF c
  <2>3. Modulus * p + z = Modulus * (p + o) + c /\ p + o \in Int
    BY <2>1, <2>2, FftModulus
  <2>4. (Modulus * (p + o) + c) % Modulus = c
    BY <2>2, <2>3, FftModulus, ModOnly
  <2> QED BY <2>3, <2>4 DEF c
<1> HIDE DEF r
<1>4. x + y = Modulus * q + (r + y) /\ y - x = Modulus * (-q) + (y - r)
  BY <1>1, <1>2, FftModulus
<1>5. r + y \in Int /\ y - r \in Int /\ -q \in Int
  BY <1>2
<1>6. (Modulus * q + (r + y)) % Modulus = (r + y) % Modulus
  BY <1>3, <1>5
<1>7. (Modulus * (-q) + (y - r)) % Modulus = (y - r) % Modulus
  BY <1>3, <1>5
<1>8. r + y = y + r /\ x + y = y + x
  BY <1>2
<1> QED BY <1>4, <1>6, <1>7, <1>8 DEF r

LEMMA ModMul ==
  ASSUME NEW x \in Int, NEW y \in Int
  PROVE  (x * (y % Modulus)) % Modulus = (x * y) % Modulus
<1> DEFINE r == y % Modulus
           z == x * r
           c == z % Modulus
<1>1. PICK q \in Int : y = Modulus * q + r
  BY ModIs
<1>2. r \in Nat
  BY ModIs
<1> HIDE DEF r
<1>3. z \in Int
  BY <1>2
<1>4. x * y = Modulus * (x * q) + z
  BY <1>1, <1>2, FftModulus
<1> HIDE DEF z
<1>5. PICK o \in Int : z = Modulus * o + c
  BY <1>3, ModIs
<1>6. c \in Nat /\ c < Modulus
  BY <1>3, ModIs
<1> HIDE DEF c
<1>7. x * q \in Int /\ x * q + o \in Int
  OBVIOUS
<1>8. x * y = Modulus * (x * q + o) + c
  BY <1>4, <1>5, <1>6, <1>7, FftModulus
<1>9. (Modulus * (x * q + o) + c) % Modulus = c
  BY <1>6, <1>7, FftModulus, ModOnly
<1> QED BY <1>8, <1>9 DEF c, z, r

\* The powers of a sum of exponents, and of a power.
LEMMA FftPowerAdd ==
  ASSUME NEW b \in Nat, NEW a \in Nat, NEW c \in Nat
  PROVE  F!Powers(b)[a + c] = (F!Powers(b)[a] * F!Powers(b)[c]) % Modulus
<1> DEFINE W == F!Powers(b)
           T == {n \in 0 .. a : W[n + c] = (W[n] * W[c]) % Modulus}
<1>1. /\ W[0] = 1
      /\ \A e \in Nat : W[e + 1] = (b * W[e]) % Modulus /\ W[e] \in Nat /\ W[e] < Modulus
  BY FftPowers
<1> HIDE DEF W
<1>2. 0 \in T
  <2>1. 0 + c = c /\ W[c] % Modulus = W[c] /\ 1 * W[c] = W[c]
    BY <1>1, ModSmall
  <2> QED BY <1>1, <2>1
<1>3. ASSUME NEW n \in 0 .. a, n # a, n \in T PROVE n + 1 \in T
  <2> DEFINE x == W[n]
             y == W[c]
  <2>1. x \in Nat /\ y \in Nat /\ x * y \in Int /\ b * x \in Int /\ n \in Nat /\ n + c \in Nat
    BY <1>1
  <2>2. W[(n + 1) + c] = (b * W[n + c]) % Modulus
    <3>1. (n + 1) + c = (n + c) + 1
      OBVIOUS
    <3> QED BY <1>1, <2>1, <3>1
  <2>3. W[n + c] = (x * y) % Modulus
    BY <1>3
  <2>4. W[n + 1] = (b * x) % Modulus
    BY <1>1, <2>1
  <2> HIDE DEF x, y
  <2>5. (b * ((x * y) % Modulus)) % Modulus = (b * (x * y)) % Modulus
    BY <2>1, ModMul
  <2>6. (y * ((b * x) % Modulus)) % Modulus = (y * (b * x)) % Modulus
    BY <2>1, ModMul
  <2>7. b * (x * y) = y * (b * x)
    BY <2>1
  <2>8. W[n + 1] \in Nat
    BY <1>1
  <2>9. W[n + 1] * y = y * W[n + 1]
    BY <2>1, <2>8
  <2>10. W[(n + 1) + c] = (W[n + 1] * y) % Modulus
    BY <2>2, <2>3, <2>4, <2>5, <2>6, <2>7, <2>9
  <2>11. n + 1 \in 0 .. a
    BY <1>3
  <2> QED BY <2>10, <2>11 DEF y
<1>4. a \in T
  <2> HIDE DEF T
  <2>1. \A n \in 0 .. a : n \in T
    BY <1>2, <1>3, Climb
  <2> QED BY <2>1
<1> QED BY <1>4 DEF W

LEMMA FftPowerPower ==
  ASSUME NEW b \in Nat, NEW a \in Nat, NEW c \in Nat
  PROVE  F!Powers(F!Powers(b)[a])[c] = F!Powers(b)[a * c]
<1> DEFINE W == F!Powers(b)
           V == F!Powers(W[a])
           T == {n \in 0 .. c : V[n] = W[a * n]}
<1>1. W[0] = 1 /\ W[a] \in Nat
  BY FftPowers
<1>2. V[0] = 1 /\ \A e \in Nat : V[e + 1] = (W[a] * V[e]) % Modulus
  BY <1>1, FftPowers
<1>3. \A d \in Nat : W[a + d] = (W[a] * W[d]) % Modulus
  BY FftPowerAdd
<1> HIDE DEF W, V
<1>4. 0 \in T
  BY <1>1, <1>2
<1>5. ASSUME NEW n \in 0 .. c, n # c, n \in T PROVE n + 1 \in T
  <2>1. a * (n + 1) = a + a * n /\ a * n \in Nat
    OBVIOUS
  <2>2. V[n + 1] = (W[a] * W[a * n]) % Modulus
    BY <1>2, <1>5
  <2>3. W[a + a * n] = (W[a] * W[a * n]) % Modulus
    BY <1>3, <2>1
  <2>4. n + 1 \in 0 .. c
    <3> HIDE DEF T
    <3> QED BY <1>5
  <2> QED BY <2>1, <2>2, <2>3, <2>4
<1>6. c \in T
  <2> HIDE DEF T
  <2>1. \A n \in 0 .. c : n \in T
    BY <1>4, <1>5, Climb
  <2> QED BY <2>1
<1> QED BY <1>6 DEF V, W

\* The powers of two.
LEMMA FftPow2Add ==
  ASSUME NEW a \in Nat, NEW c \in Nat
  PROVE  F!Pow2[a + c] = F!Pow2[a] * F!Pow2[c]
<1> DEFINE T == {n \in 0 .. a : F!Pow2[n + c] = F!Pow2[n] * F!Pow2[c]}
<1>1. 0 \in T
  <2>1. 0 + c = c /\ 1 * F!Pow2[c] = F!Pow2[c]
    BY FftPow2
  <2> QED BY <2>1, FftPow2
<1>2. ASSUME NEW n \in 0 .. a, n # a, n \in T PROVE n + 1 \in T
  <2>1. (n + 1) + c = (n + c) + 1 /\ n + c \in Nat /\ n \in Nat
    OBVIOUS
  <2>2. F!Pow2[(n + 1) + c] = 2 * F!Pow2[n + c] /\ F!Pow2[n + 1] = 2 * F!Pow2[n]
    BY <2>1, FftPow2
  <2>3. F!Pow2[n + c] = F!Pow2[n] * F!Pow2[c]
    BY <1>2
  <2>4. F!Pow2[n] \in Nat /\ F!Pow2[c] \in Nat
    BY <2>1, FftPow2
  <2>5. 2 * (F!Pow2[n] * F!Pow2[c]) = (2 * F!Pow2[n]) * F!Pow2[c]
    BY <2>4
  <2>6. n + 1 \in 0 .. a
    <3> HIDE DEF T
    <3> QED BY <1>2
  <2> QED BY <2>2, <2>3, <2>5, <2>6
<1>3. a \in T
  <2> HIDE DEF T
  <2>1. \A n \in 0 .. a : n \in T
    BY <1>1, <1>2, Climb
  <2> QED BY <2>1
<1> QED BY <1>3

LEMMA FftPow2Grows ==
  ASSUME NEW a \in Nat, NEW c \in Nat, a < c PROVE F!Pow2[a] < F!Pow2[c]
<1> DEFINE d == c - a - 1
<1>1. d \in Nat /\ c = a + (d + 1) /\ d + 1 \in Nat
  OBVIOUS
<1> HIDE DEF d
<1>2. F!Pow2[c] = F!Pow2[a] * (2 * F!Pow2[d])
  BY <1>1, FftPow2, FftPow2Add
<1>3. F!Pow2[a] \in Nat /\ F!Pow2[a] > 0 /\ F!Pow2[d] \in Nat /\ F!Pow2[d] > 0
  BY <1>1, FftPow2
<1> DEFINE x == F!Pow2[a]
           y == F!Pow2[d]
<1> HIDE DEF x, y
<1>4. x \in Nat /\ x > 0 /\ y \in Nat /\ y > 0
  BY <1>3 DEF x, y
<1>5. x < x * (2 * y)
  BY <1>4
<1> QED BY <1>2, <1>5 DEF x, y

\* trailing_zeros of a power of two is its exponent.
LEMMA FftBits == ASSUME NEW k \in Nat PROVE F!Bits(F!Pow2[k]) = k
<1> DEFINE T == {n \in 0 .. k : n < F!Pow2[n]}
<1>1. 0 \in T
  BY FftPow2
<1>2. ASSUME NEW n \in 0 .. k, n # k, n \in T PROVE n + 1 \in T
  <2>1. F!Pow2[n + 1] = 2 * F!Pow2[n] /\ F!Pow2[n] \in Nat
    BY FftPow2
  <2>2. n < F!Pow2[n]
    BY <1>2
  <2>3. n + 1 \in 0 .. k
    <3> HIDE DEF T
    <3> QED BY <1>2
  <2> QED BY <2>1, <2>2, <2>3
<1>3. k \in T
  <2> HIDE DEF T
  <2>1. \A n \in 0 .. k : n \in T
    BY <1>1, <1>2, Climb
  <2> QED BY <2>1
<1>4. k \in 0 .. F!Pow2[k]
  BY <1>3, FftPow2
<1>5. ASSUME NEW b \in 0 .. F!Pow2[k], F!Pow2[b] = F!Pow2[k] PROVE b = k
  <2>1. b \in Nat /\ F!Pow2[b] \in Nat /\ F!Pow2[k] \in Nat
    BY FftPow2
  <2>2. ~(b < k) /\ ~(k < b)
    BY <1>5, <2>1, FftPow2Grows
  <2> QED BY <2>1, <2>2
<1> QED BY <1>4, <1>5 DEF F!Bits

\* The root of order Pow2[k]: half way round it is -1.
LEMMA FftUnit ==
  ASSUME NEW k \in Nat, F!Pow2[k] <= MaxSize
  PROVE  /\ F!Unit(F!Pow2[k]) \in Nat
         /\ k # 0 => F!Powers(F!Unit(F!Pow2[k]))[F!Pow2[k - 1]] = Modulus - 1
<1>1. PICK top \in 1 .. MaxSize : MaxSize = F!Pow2[top]
  BY FftAssumption
<1>2. top \in Nat /\ top # 0 /\ top - 1 \in Nat
  OBVIOUS
<1>3. k <= top
  <2>1. ~(top < k)
    <3>1. F!Pow2[k] \in Nat /\ F!Pow2[top] \in Nat
      BY <1>2, FftPow2
    <3> QED BY <1>1, <1>2, <3>1, FftPow2Grows
  <2> QED BY <1>2, <2>1
<1> DEFINE d == top - k
           n == F!Pow2[k]
           c == F!Pow2[d]
<1>4. d \in Nat /\ top = d + k
  BY <1>2, <1>3
<1>5. MaxSize = c * n /\ n \in Nat /\ n > 0 /\ c \in Nat /\ c > 0
  BY <1>1, <1>4, FftPow2, FftPow2Add
<1> HIDE DEF n, c, d
<1>6. MaxSize \div n = c
  <2>1. MaxSize = n * c + 0
    BY <1>5
  <2>2. (n * c + 0) \div n = c
    BY <1>5, ModOnly
  <2> QED BY <2>1, <2>2
<1>7. F!Unit(n) = F!Powers(Root)[c]
  BY <1>6 DEF F!Unit
<1>8. F!Unit(n) \in Nat
  BY <1>5, <1>7, FftModulus, FftPowers
<1>9. ASSUME k # 0 PROVE F!Powers(F!Unit(n))[F!Pow2[k - 1]] = Modulus - 1
  <2> DEFINE h == F!Pow2[k - 1]
  <2>1. k - 1 \in Nat /\ (k - 1) + 1 = k /\ top - 1 = d + (k - 1) /\ (top - 1) + 1 = top
    BY <1>2, <1>4, <1>9
  <2>2. h \in Nat
    BY <2>1, FftPow2
  <2>3. F!Powers(F!Unit(n))[h] = F!Powers(Root)[c * h]
    <3> HIDE DEF h
    <3>1. F!Powers(F!Powers(Root)[c])[h] = F!Powers(Root)[c * h]
      BY <1>5, <2>2, FftModulus, FftPowerPower
    <3> QED BY <1>7, <3>1
  <2>4. F!Pow2[top - 1] = c * h
    BY <1>4, <2>1, FftPow2Add DEF c
  <2>5. F!Pow2[top] = 2 * F!Pow2[top - 1] /\ F!Pow2[top - 1] \in Nat
    BY <1>2, <2>1, FftPow2
  <2>6. MaxSize \div 2 = F!Pow2[top - 1]
    BY <1>1, <2>5
  <2>7. F!Powers(Root)[MaxSize \div 2] = Modulus - 1
    BY FftAssumption
  <2> QED BY <2>3, <2>4, <2>6, <2>7
<1> QED BY <1>8, <1>9 DEF n

\* Half a turn changes the sign, a whole one nothing.
HalfTurn(w, h) == h \in Nat /\ F!Powers(w)[h] = Modulus - 1
Turns(w, h, e) ==
  /\ F!Powers(w)[e + h] = (0 - F!Powers(w)[e]) % Modulus
  /\ \A i \in Nat : F!Powers(w)[e + 2 * h * i] = F!Powers(w)[e]

LEMMA FftTurns ==
  ASSUME NEW w \in Nat, NEW h, HalfTurn(w, h), NEW e \in Nat PROVE Turns(w, h, e)
<1>0. h \in Nat
  BY DEF HalfTurn
<1> DEFINE V == F!Powers(w)
<1>1. V[0] = 1 /\ \A a \in Nat : V[a] \in Nat /\ V[a] < Modulus
  BY FftPowers
<1>2. \A a, c \in Nat : V[a + c] = (V[a] * V[c]) % Modulus
  BY FftPowerAdd
<1>3. V[h] = Modulus - 1
  BY DEF HalfTurn
<1> HIDE DEF V
<1>4. ASSUME NEW a \in Nat PROVE V[a + h] = (0 - V[a]) % Modulus
  <2> DEFINE x == V[a]
  <2>1. x \in Nat
    BY <1>1
  <2>2. V[a + h] = (x * (Modulus - 1)) % Modulus
    BY <1>0, <1>2, <1>3
  <2> HIDE DEF x
  <2>3. x * (Modulus - 1) = x * Modulus - x /\ x * Modulus \in Int /\ x * Modulus - x \in Int
    BY <2>1, FftModulus
  <2>4. (x * (Modulus % Modulus)) % Modulus = (x * Modulus) % Modulus
    BY <2>1, FftModulus, ModMul
  <2>5. Modulus % Modulus = 0
    <3>1. Modulus = Modulus * 1 + 0
      BY FftModulus
    <3>2. (Modulus * 1 + 0) % Modulus = 0
      BY FftModulus, ModOnly
    <3> QED BY <3>1, <3>2
  <2>6. (x * Modulus) % Modulus = 0
    <3>1. x * 0 = 0 /\ 0 % Modulus = 0
      BY <2>1, FftModulus
    <3> QED BY <2>4, <2>5, <3>1
  <2> DEFINE y == x * Modulus
  <2>7. ((y % Modulus) + (0 - x)) % Modulus = (y + (0 - x)) % Modulus
    BY <2>1, <2>3, ModAdd
  <2>8. y + (0 - x) = y - x /\ 0 + (0 - x) = 0 - x
    BY <2>1, <2>3
  <2> HIDE DEF y
  <2>9. y % Modulus = 0
    BY <2>6 DEF y
  <2>10. (0 - x) % Modulus = (y - x) % Modulus
    BY <2>7, <2>8, <2>9
  <2> QED BY <2>2, <2>3, <2>10 DEF x, y
<1>5. ASSUME NEW a \in Nat PROVE V[a + 2 * h] = V[a]
  <2> DEFINE x == V[a]
  <2>1. a + h \in Nat /\ (a + h) + h = a + 2 * h
    BY <1>0
  <2>2. V[a + h] = (0 - x) % Modulus /\ V[a + 2 * h] = (0 - V[a + h]) % Modulus
    BY <1>4, <2>1
  <2>3. x \in Nat /\ x < Modulus
    BY <1>1
  <2> HIDE DEF x
  <2>4. (0 - ((0 - x) % Modulus)) % Modulus = (0 - (0 - x)) % Modulus
    BY <2>3, ModAdd
  <2>5. 0 - (0 - x) = x /\ x % Modulus = x
    BY <2>3, ModSmall
  <2> QED BY <2>2, <2>4, <2>5 DEF x
<1>6. ASSUME NEW i \in Nat PROVE V[e + 2 * h * i] = V[e]
  <2> DEFINE T == {n \in 0 .. i : V[e + 2 * h * n] = V[e]}
  <2>1. 0 \in T
    <3>1. e + 2 * h * 0 = e
      BY <1>0
    <3> QED BY <3>1
  <2>2. ASSUME NEW n \in 0 .. i, n # i, n \in T PROVE n + 1 \in T
    <3>1. e + 2 * h * (n + 1) = (e + 2 * h * n) + 2 * h /\ e + 2 * h * n \in Nat
      BY <1>0
    <3>2. V[(e + 2 * h * n) + 2 * h] = V[e + 2 * h * n]
      BY <1>5, <3>1
    <3>3. V[e + 2 * h * n] = V[e]
      BY <2>2
    <3>4. n + 1 \in 0 .. i
      <4> HIDE DEF T
      <4> QED BY <2>2
    <3> QED BY <3>1, <3>2, <3>3, <3>4
  <2> HIDE DEF T
  <2>3. \A n \in 0 .. i : n \in T
    BY <2>1, <2>2, Climb
  <2>4. i \in T
    BY <2>3
  <2> QED BY <2>4 DEF T
<1> QED BY <1>4, <1>6 DEF V, Turns

\* What the transform adds up: every t-th entry from the R-th on, each with the power
\* of w that is its due in result r.
Terms(b, w, R, t, r) == [j \in Nat |-> b[R + t * j] * F!Powers(w)[t * j * r]]
Part(b, w, R, t, r, m) == Sums(Terms(b, w, R, t, r))[m]

PartAdds(b, w, R, t, r) ==
  /\ Part(b, w, R, t, r, 0) = 0
  /\ \A m \in Nat : /\ Part(b, w, R, t, r, m) \in Int
                    /\ Part(b, w, R, t, r, m + 1)
                         = Part(b, w, R, t, r, m) + b[R + t * m] * F!Powers(w)[t * m * r]

LEMMA FftTerms ==
  ASSUME NEW b \in [Nat -> Int], NEW w \in Nat, NEW R \in Nat, NEW t \in Nat, NEW r \in Nat
  PROVE  Terms(b, w, R, t, r) \in [Nat -> Int] /\ PartAdds(b, w, R, t, r)
<1> DEFINE V == F!Powers(w)
           f == Terms(b, w, R, t, r)
<1>1. \A e \in Nat : V[e] \in Nat
  BY FftPowers
<1> HIDE DEF V
<1>2. ASSUME NEW j \in Nat PROVE b[R + t * j] * V[t * j * r] \in Int
  <2>1. t * j \in Nat
    OBVIOUS
  <2>2. R + t * j \in Nat /\ t * j * r \in Nat
    BY <2>1
  <2>3. b[R + t * j] \in Int /\ V[t * j * r] \in Nat
    BY <1>1, <2>2
  <2> QED BY <2>3
<1>3. f \in [Nat -> Int] /\ \A j \in Nat : f[j] = b[R + t * j] * V[t * j * r]
  BY <1>2 DEF Terms, V
<1> HIDE DEF f
<1>4. SumsTo(f, Sums(f))
  BY <1>3, FftSums
<1>5. Sums(f)[0] = 0 /\ \A m \in Nat : Sums(f)[m] \in Int /\ Sums(f)[m + 1] = Sums(f)[m] + f[m]
  BY <1>4 DEF SumsTo
<1> QED BY <1>3, <1>5 DEF PartAdds, Part, V, f

Splits(b, w, R, t, r, m) ==
  Part(b, w, R, t, r, 2 * m) % Modulus
    = (Part(b, w, R, 2 * t, r, m) + F!Powers(w)[t * r] * Part(b, w, R + t, 2 * t, r, m)) % Modulus
HalfWay(w, t, m) == F!Powers(w)[t * m] = Modulus - 1
Periodic(b, w, R, t, r, m) == Terms(b, w, R, 2 * t, r + m) = Terms(b, w, R, 2 * t, r)

\* Twice as many of them are those at even places and, turned, those at odd ones.
LEMMA FftSplit ==
  ASSUME NEW b \in [Nat -> Int], NEW w \in Nat, NEW R \in Nat, NEW t \in Nat, NEW r \in Nat, NEW m \in Nat
  PROVE  Splits(b, w, R, t, r, m)
<1> DEFINE V == F!Powers(w)
           u == 2 * t
           q == V[t * r]
           Whole(n) == Part(b, w, R, t, r, n)
           Evens(n) == Part(b, w, R, u, r, n)
           Odds(n) == Part(b, w, R + t, u, r, n)
           T == {n \in 0 .. m : Whole(2 * n) % Modulus = (Evens(n) + q * Odds(n)) % Modulus}
<1>1. u \in Nat /\ R + t \in Nat /\ t * r \in Nat
  OBVIOUS
<1>2. \A e \in Nat : V[e] \in Nat
  BY FftPowers
<1>3. \A a, c \in Nat : V[a + c] = (V[a] * V[c]) % Modulus
  BY FftPowerAdd
<1> HIDE DEF u
<1>4. Whole(0) = 0 /\ \A n \in Nat : Whole(n) \in Int /\ Whole(n + 1) = Whole(n) + b[R + t * n] * V[t * n * r]
  <2>1. PartAdds(b, w, R, t, r)
    BY FftTerms
  <2> QED BY <2>1 DEF PartAdds
<1>5. Evens(0) = 0 /\ \A n \in Nat : Evens(n) \in Int /\ Evens(n + 1) = Evens(n) + b[R + u * n] * V[u * n * r]
  <2>1. PartAdds(b, w, R, u, r)
    BY <1>1, FftTerms
  <2> QED BY <2>1 DEF PartAdds
<1>6. Odds(0) = 0 /\ \A n \in Nat : Odds(n) \in Int /\ Odds(n + 1) = Odds(n) + b[R + t + u * n] * V[u * n * r]
  <2>1. PartAdds(b, w, R + t, u, r)
    BY <1>1, FftTerms
  <2> QED BY <2>1 DEF PartAdds
<1>7. q \in Nat
  BY <1>1, <1>2
<1> HIDE DEF Whole, Evens, Odds, V
<1>8. 0 \in T
  <2>1. 2 * 0 = 0 /\ 0 + q * 0 = 0
    BY <1>7
  <2> QED BY <1>4, <1>5, <1>6, <2>1
<1>9. ASSUME NEW n \in 0 .. m, n # m, n \in T PROVE n + 1 \in T
  <2> DEFINE e == b[R + u * n]
             o == b[R + t + u * n]
             p == V[u * n * r]
             l == Whole(2 * n)
             x == Evens(n)
             y == Odds(n)
  <2>1. n \in Nat /\ 2 * n \in Nat /\ u * n \in Nat
    BY <1>1
  <2>2. /\ R + u * n \in Nat /\ R + t + u * n \in Nat /\ u * n * r \in Nat
        /\ 2 * n + 1 \in Nat /\ 2 * (n + 1) = (2 * n + 1) + 1
    BY <1>1, <2>1
  <2>3. /\ e \in Int /\ o \in Int /\ p \in Nat /\ l \in Int /\ x \in Int /\ y \in Int
        /\ Whole(2 * n + 1) \in Int
    BY <1>2, <1>4, <1>5, <1>6, <2>1, <2>2
  <2>4. Evens(n + 1) = x + e * p /\ Odds(n + 1) = y + o * p
    BY <1>5, <1>6, <2>1
  <2>5. Whole(2 * n + 1) = l + e * p
    <3>1. t * (2 * n) = u * n
      BY <2>1 DEF u
    <3>2. Whole(2 * n + 1) = Whole(2 * n) + b[R + t * (2 * n)] * V[t * (2 * n) * r]
      BY <1>4, <2>1
    <3> QED BY <3>1, <3>2
  <2>6. Whole(2 * (n + 1)) = Whole(2 * n + 1) + o * ((q * p) % Modulus)
    <3>1. t * (2 * n + 1) = t + u * n
      BY <2>1 DEF u
    <3>2. t * (2 * n + 1) * r = t * r + u * n * r
      BY <2>1 DEF u
    <3>3. R + (t + u * n) = R + t + u * n
      BY <2>1, <1>1
    <3>4. V[t * r + u * n * r] = (q * p) % Modulus
      BY <1>1, <1>3, <2>2
    <3>5. Whole((2 * n + 1) + 1) = Whole(2 * n + 1) + b[R + t * (2 * n + 1)] * V[t * (2 * n + 1) * r]
      BY <1>4, <2>2
    <3>6. b[R + t * (2 * n + 1)] = o
      BY <3>1, <3>3
    <3>7. V[t * (2 * n + 1) * r] = (q * p) % Modulus
      BY <3>2, <3>4
    <3> QED BY <2>2, <3>5, <3>6, <3>7
  <2>7. l % Modulus = (x + q * y) % Modulus
    BY <1>9
  <2> HIDE DEF e, o, p, l, x, y, q
  <2> DEFINE z == (q * p) % Modulus
             c == e * p + o * z
             s == x + q * y
             k == s + e * p
  <2>8. q * p \in Int /\ z \in Nat
    <3>1. q * p \in Int
      BY <1>7, <2>3
    <3> QED BY <3>1, ModIs
  <2>9. /\ c \in Int /\ s \in Int /\ k \in Int /\ o * z \in Int /\ o * (q * p) \in Int
        /\ e * p \in Int
    <3> HIDE DEF z
    <3> QED BY <1>7, <2>3, <2>8
  <2>10. Whole(2 * (n + 1)) = l + c
    <3> HIDE DEF z
    <3>1. Whole(2 * (n + 1)) = (l + e * p) + o * z
      BY <2>5, <2>6 DEF z
    <3> QED BY <2>3, <2>9, <3>1
  <2>11. (l + c) % Modulus = (s + c) % Modulus
    <3>1. ((l % Modulus) + c) % Modulus = (l + c) % Modulus
      BY <2>3, <2>9, ModAdd
    <3>2. ((s % Modulus) + c) % Modulus = (s + c) % Modulus
      BY <2>9, ModAdd
    <3> HIDE DEF c
    <3> QED BY <2>7, <3>1, <3>2
  <2>12. (s + c) % Modulus = (k + o * (q * p)) % Modulus
    <3>1. s + c = k + o * z
      <4> HIDE DEF z, s
      <4> QED BY <2>8, <2>9
    <3>2. (o * z) % Modulus = (o * (q * p)) % Modulus
      BY <2>3, <2>8, ModMul
    <3> DEFINE a1 == o * z
               a2 == o * (q * p)
    <3>3. (k + (a1 % Modulus)) % Modulus = (k + a1) % Modulus
      BY <2>9, ModAdd
    <3>4. (k + (a2 % Modulus)) % Modulus = (k + a2) % Modulus
      BY <2>9, ModAdd
    <3> QED BY <3>1, <3>2, <3>3, <3>4
  <2>13. k + o * (q * p) = (x + e * p) + q * (y + o * p)
    BY <1>7, <2>3
  <2>14. Whole(2 * (n + 1)) % Modulus = (Evens(n + 1) + q * Odds(n + 1)) % Modulus
    BY <2>4, <2>10, <2>11, <2>12, <2>13
  <2>15. n + 1 \in 0 .. m
    <3> HIDE DEF T
    <3> QED BY <1>9
  <2> QED BY <2>14, <2>15 DEF q
<1>10. m \in T
  <2> HIDE DEF T
  <2>1. \A n \in 0 .. m : n \in T
    BY <1>8, <1>9, Climb
  <2> QED BY <2>1
<1>11. Whole(2 * m) % Modulus = (Evens(m) + q * Odds(m)) % Modulus
  BY <1>10
<1> QED BY <1>11 DEF Whole, Evens, Odds, V, u, Splits

\* Half way round the same entries have the same powers.
LEMMA FftPeriod ==
  ASSUME NEW b \in [Nat -> Int], NEW w \in Nat, NEW R \in Nat, NEW t \in Nat, NEW r \in Nat, NEW m \in Nat,
         HalfWay(w, t, m)
  PROVE  Periodic(b, w, R, t, r, m)
<1> DEFINE V == F!Powers(w)
           h == t * m
<1>1. h \in Nat
  OBVIOUS
<1>2. \A e \in Nat, i \in Nat : V[e + 2 * h * i] = V[e]
  <2> HIDE DEF h
  <2>1. HalfTurn(w, h)
    BY <1>1 DEF h, HalfTurn, HalfWay
  <2>2. \A e \in Nat : Turns(w, h, e)
    BY <2>1, FftTurns
  <2> QED BY <2>2 DEF Turns
<1>3. ASSUME NEW j \in Nat PROVE V[2 * t * j * (r + m)] = V[2 * t * j * r]
  <2>1. 2 * t * j * (r + m) = 2 * t * j * r + 2 * h * j
    OBVIOUS
  <2>2. 2 * t * j * r \in Nat
    OBVIOUS
  <2> HIDE DEF h, V
  <2> QED BY <1>2, <2>1, <2>2
<1> QED BY <1>3 DEF Terms, Periodic

\* The reversal of the first k bits of an index, bit after bit.
Bit(i, j) == F!Shifts(i)[j] % 2
Mirrored(i, k) == Sums([j \in Nat |-> IF j < k THEN Bit(i, j) * F!Pow2[k - 1 - j] ELSE 0])

LEMMA FftBit ==
  ASSUME NEW i \in Nat, NEW j \in Nat
  PROVE  Bit(i, j) \in {0, 1} /\ F!Shifts(i)[j] = 2 * F!Shifts(i)[j + 1] + Bit(i, j)
<1> DEFINE h == F!Shifts(i)[j]
<1>1. h \in Nat /\ F!Shifts(i)[j + 1] = h \div 2
  BY FftShifts
<1> HIDE DEF h
<1>2. h % 2 \in {0, 1} /\ h = 2 * (h \div 2) + (h % 2)
  BY <1>1
<1> QED BY <1>1, <1>2 DEF h, Bit

Mirrors(i, k) ==
  /\ F!Reversed(i, k) = Mirrored(i, k)[k] /\ Mirrored(i, k)[0] = 0
  /\ \A j \in 0 .. k - 1 : Mirrored(i, k)[j + 1] = Mirrored(i, k)[j] + Bit(i, j) * F!Pow2[k - 1 - j]
  /\ \A j \in Nat : Mirrored(i, k)[j] \in Int

LEMMA FftMirrors == ASSUME NEW i \in Nat, NEW k \in Nat PROVE Mirrors(i, k)
<1> DEFINE f == [j \in Nat |-> IF j < k THEN Bit(i, j) * F!Pow2[k - 1 - j] ELSE 0]
           g == [j \in 0 .. k - 1 |-> (F!Shifts(i)[j] % 2) * F!Pow2[k - 1 - j]]
<1>1. ASSUME NEW j \in Nat PROVE (IF j < k THEN Bit(i, j) * F!Pow2[k - 1 - j] ELSE 0) \in Int
  <2>1. Bit(i, j) \in Int
    BY FftBit
  <2>2. j < k => k - 1 - j \in Nat /\ F!Pow2[k - 1 - j] \in Nat
    BY FftPow2
  <2> QED BY <2>1, <2>2
<1>2. f \in [Nat -> Int]
  BY <1>1
<1>3. \A j \in 0 .. k - 1 : f[j] = Bit(i, j) * F!Pow2[k - 1 - j]
  OBVIOUS
<1>4. \A j \in 0 .. k - 1 : g[j] = f[j]
  BY <1>3 DEF Bit
<1>5. F!Reversed(i, k) = F!Sum(g, k)
  BY DEF F!Reversed
<1> HIDE DEF f, g
<1>6. F!Sum(g, k) = Sums(f)[k]
  BY <1>2, <1>4, FftSumIs
<1>7. SumsTo(f, Sums(f))
  BY <1>2, FftSums
<1>8. Mirrored(i, k) = Sums(f)
  BY DEF Mirrored, f
<1>9. ASSUME NEW j \in 0 .. k - 1 PROVE Sums(f)[j + 1] = Sums(f)[j] + Bit(i, j) * F!Pow2[k - 1 - j]
  <2>1. j \in Nat
    OBVIOUS
  <2>2. Sums(f)[j + 1] = Sums(f)[j] + f[j]
    BY <1>7, <2>1 DEF SumsTo
  <2> QED BY <1>3, <2>2
<1>10. Sums(f)[0] = 0 /\ \A j \in Nat : Sums(f)[j] \in Int
  BY <1>7 DEF SumsTo
<1> QED BY <1>5, <1>6, <1>8, <1>9, <1>10 DEF Mirrors

\* After j bits the reversal is a multiple of what the next one counts, and not too large.
LEMMA FftMirroredIs ==
  ASSUME NEW i \in Nat, NEW k \in Nat, NEW j \in 0 .. k
  PROVE  \E c \in Nat : Mirrored(i, k)[j] = F!Pow2[k - j] * c /\ c < F!Pow2[j]
<1> DEFINE r == Mirrored(i, k)
           T == {n \in 0 .. j : \E c \in Nat : r[n] = F!Pow2[k - n] * c /\ c < F!Pow2[n]}
<1>1. r[0] = 0 /\ \A n \in 0 .. k - 1 : r[n + 1] = r[n] + Bit(i, n) * F!Pow2[k - 1 - n]
  BY FftMirrors DEF Mirrors
<1> HIDE DEF r
<1>2. 0 \in T
  <2>1. F!Pow2[k - 0] \in Nat /\ F!Pow2[k - 0] * 0 = 0 /\ 0 < F!Pow2[0] /\ 0 \in Nat
    BY FftPow2
  <2> QED BY <1>1, <2>1
<1>3. ASSUME NEW n \in 0 .. j, n # j, n \in T PROVE n + 1 \in T
  <2>1. PICK c \in Nat : r[n] = F!Pow2[k - n] * c /\ c < F!Pow2[n]
    BY <1>3
  <2>2. n \in 0 .. k - 1 /\ k - 1 - n \in Nat /\ (k - 1 - n) + 1 = k - n /\ k - (n + 1) = k - 1 - n /\ n \in Nat
    <3> HIDE DEF T
    <3> QED BY <1>3
  <2> DEFINE p == F!Pow2[k - 1 - n]
             b == Bit(i, n)
             d == 2 * c + b
  <2>3. F!Pow2[k - n] = 2 * p /\ p \in Nat
    BY <2>2, FftPow2
  <2>4. b \in {0, 1}
    BY <2>2, FftBit
  <2>5. F!Pow2[n + 1] = 2 * F!Pow2[n] /\ F!Pow2[n] \in Nat
    BY <2>2, FftPow2
  <2>6. r[n + 1] = r[n] + b * p
    BY <1>1, <2>2
  <2> HIDE DEF p, b
  <2>7. d \in Nat /\ d < F!Pow2[n + 1]
    BY <2>1, <2>4, <2>5
  <2>8. r[n + 1] = p * d
    <3>1. r[n + 1] = (2 * p) * c + b * p
      BY <2>1, <2>3, <2>6
    <3> QED BY <2>3, <2>4, <3>1
  <2>9. F!Pow2[k - (n + 1)] = p
    BY <2>2 DEF p
  <2>10. n + 1 \in 0 .. j
    <3> HIDE DEF T
    <3> QED BY <1>3
  <2> HIDE DEF d
  <2> QED BY <2>7, <2>8, <2>9, <2>10
<1>4. j \in T
  <2>1. j \in Nat
    OBVIOUS
  <2> HIDE DEF T
  <2>2. \A n \in 0 .. j : n \in T
    BY <1>2, <1>3, <2>1, Climb
  <2> QED BY <2>1, <2>2
<1> QED BY <1>4 DEF r

\* Its bits are the index's, the other way round.
LEMMA FftReversedBits ==
  ASSUME NEW i \in Nat, NEW k \in Nat
  PROVE  /\ F!Reversed(i, k) \in Nat /\ F!Reversed(i, k) < F!Pow2[k]
         /\ \A n \in 0 .. k - 1 : Bit(F!Reversed(i, k), n) = Bit(i, k - 1 - n)
<1> DEFINE v == F!Reversed(i, k)
           r == Mirrored(i, k)
           S(n) == F!Shifts(v)[n]
           T == {n \in 0 .. k : /\ r[k - n] = F!Pow2[n] * S(n)
                                /\ \A l \in 0 .. n - 1 : Bit(v, l) = Bit(i, k - 1 - l)}
<1>1. v = r[k] /\ r[0] = 0 /\ \A n \in 0 .. k - 1 : r[n + 1] = r[n] + Bit(i, n) * F!Pow2[k - 1 - n]
  BY FftMirrors DEF Mirrors
<1>2. v \in Nat /\ v < F!Pow2[k]
  <2>1. PICK c \in Nat : r[k] = F!Pow2[k - k] * c /\ c < F!Pow2[k]
    <3>1. k \in 0 .. k
      OBVIOUS
    <3> QED BY <3>1, FftMirroredIs
  <2>2. k - k = 0 /\ 1 * c = c
    OBVIOUS
  <2> QED BY <1>1, <2>1, <2>2, FftPow2
<1> HIDE DEF v, r
<1>3. S(0) = v /\ \A n \in Nat : S(n) \in Nat /\ S(n) = 2 * S(n + 1) + Bit(v, n)
  BY <1>2, FftShifts, FftBit
<1> HIDE DEF S
<1>4. 0 \in T
  <2>1. k - 0 = k /\ 1 * v = v /\ 0 \in 0 .. k
    BY <1>2
  <2> QED BY <1>1, <1>3, <2>1, FftPow2
<1>5. ASSUME NEW n \in 0 .. k, n # k, n \in T PROVE n + 1 \in T
  <2> DEFINE m == k - 1 - n
  <2>1. m \in 0 .. k - 1 /\ m \in 0 .. k /\ m \in Nat /\ m + 1 = k - n /\ k - m = n + 1 /\ k - 1 - m = n /\ n \in Nat
    <3> HIDE DEF T
    <3> QED BY <1>5
  <2>2. n + 1 \in Nat /\ n + 1 \in 0 .. k /\ k - (n + 1) = m
    <3> HIDE DEF T
    <3> QED BY <1>5
  <2> HIDE DEF m
  <2>3. PICK c \in Nat : r[m] = F!Pow2[n + 1] * c
    <3>1. \E c \in Nat : r[m] = F!Pow2[k - m] * c /\ c < F!Pow2[m]
      BY <2>1, FftMirroredIs DEF r
    <3> QED BY <2>1, <3>1
  <2> DEFINE p == F!Pow2[n]
             b == Bit(i, m)
             b2 == Bit(v, n)
             x == S(n)
             y == S(n + 1)
  <2>4. F!Pow2[n + 1] = 2 * p /\ p \in Nat /\ p > 0
    BY <2>1, FftPow2
  <2>5. r[k - n] = r[m] + b * p
    BY <1>1, <2>1
  <2>6. b \in {0, 1} /\ b2 \in {0, 1}
    BY <1>2, <2>1, FftBit
  <2>7. r[k - n] = p * x
    BY <1>5
  <2>8. x \in Nat /\ x = 2 * y + b2 /\ y \in Nat
    BY <1>3, <2>1, <2>2
  <2> HIDE DEF p, b, b2, x, y
  <2>9. p * x = p * (2 * c + b)
    <3>1. p * x = (2 * p) * c + b * p
      BY <2>3, <2>4, <2>5, <2>7
    <3> QED BY <2>4, <2>6, <3>1
  <2>10. x = 2 * c + b
    <3> DEFINE z == 2 * c + b
    <3>1. z \in Nat
      BY <2>6
    <3> HIDE DEF z
    <3>2. p * x = p * z
      BY <2>9 DEF z
    <3>3. x = z
      BY <2>4, <2>8, <3>1, <3>2
    <3> QED BY <3>3 DEF z
  <2>11. y = c /\ b2 = b
    BY <2>6, <2>8, <2>10
  <2>12. r[k - (n + 1)] = F!Pow2[n + 1] * S(n + 1)
    BY <2>2, <2>3, <2>11 DEF y
  <2>13. ASSUME NEW l \in 0 .. (n + 1) - 1 PROVE Bit(v, l) = Bit(i, k - 1 - l)
    <3>1. CASE l = n
      BY <2>11, <3>1 DEF b, b2, m
    <3>2. CASE l # n
      <4>1. l \in 0 .. n - 1
        <5> HIDE DEF T
        <5> QED BY <2>1, <3>2
      <4> QED BY <1>5, <4>1
    <3> QED BY <3>1, <3>2
  <2> QED BY <2>2, <2>12, <2>13
<1>6. k \in T
  <2> HIDE DEF T
  <2>1. \A n \in 0 .. k : n \in T
    BY <1>4, <1>5, Climb
  <2> QED BY <2>1
<1>7. \A l \in 0 .. k - 1 : Bit(v, l) = Bit(i, k - 1 - l)
  BY <1>6
<1> QED BY <1>2, <1>7 DEF v

\* A shorter index has nothing left after its last bit.
LEMMA FftShort ==
  ASSUME NEW k \in Nat, NEW i \in Nat, i < F!Pow2[k], NEW j \in 0 .. k
  PROVE  F!Shifts(i)[j] < F!Pow2[k - j]
<1> DEFINE T == {n \in 0 .. j : F!Shifts(i)[n] < F!Pow2[k - n]}
<1>1. 0 \in T
  <2>1. k - 0 = k
    OBVIOUS
  <2> QED BY <2>1, FftShifts
<1>2. ASSUME NEW n \in 0 .. j, n # j, n \in T PROVE n + 1 \in T
  <2>1. n \in Nat /\ n + 1 \in 0 .. j /\ k - (n + 1) \in Nat /\ (k - (n + 1)) + 1 = k - n
    <3> HIDE DEF T
    <3> QED BY <1>2
  <2>2. F!Pow2[k - n] = 2 * F!Pow2[k - (n + 1)] /\ F!Pow2[k - (n + 1)] \in Nat
    BY <2>1, FftPow2
  <2>3. F!Shifts(i)[n + 1] = F!Shifts(i)[n] \div 2 /\ F!Shifts(i)[n] \in Nat
    BY <2>1, FftShifts
  <2>4. F!Shifts(i)[n] < F!Pow2[k - n]
    BY <1>2
  <2> DEFINE x == F!Shifts(i)[n]
             y == F!Pow2[k - (n + 1)]
  <2> HIDE DEF x, y
  <2>5. x \in Nat /\ y \in Nat /\ x < 2 * y
    BY <2>2, <2>3, <2>4 DEF x, y
  <2>6. x \div 2 < y
    BY <2>5
  <2> QED BY <2>1, <2>3, <2>6 DEF x, y
<1>3. j \in T
  <2> HIDE DEF T
  <2>1. \A n \in 0 .. j : n \in T
    BY <1>1, <1>2, Climb
  <2> QED BY <2>1
<1> QED BY <1>3

\* Reversing twice gives the index again.
LEMMA FftInvolution ==
  ASSUME NEW k \in Nat, NEW i \in Nat, i < F!Pow2[k]
  PROVE  F!Reversed(F!Reversed(i, k), k) = i
<1> DEFINE v == F!Reversed(i, k)
           r == Mirrored(v, k)
           T == {n \in 0 .. k : r[n] = F!Pow2[k - n] * F!Shifts(i)[k - n]}
<1>1. v \in Nat /\ \A n \in 0 .. k - 1 : Bit(v, n) = Bit(i, k - 1 - n)
  BY FftReversedBits
<1>2. /\ F!Reversed(v, k) = r[k] /\ r[0] = 0
      /\ \A n \in 0 .. k - 1 : r[n + 1] = r[n] + Bit(v, n) * F!Pow2[k - 1 - n]
  BY <1>1, FftMirrors DEF Mirrors
<1> HIDE DEF r, v
<1>3. 0 \in T
  <2>1. F!Shifts(i)[k] < F!Pow2[k - k] /\ F!Shifts(i)[k] \in Nat
    BY FftShort, FftShifts
  <2>2. k - k = 0 /\ k - 0 = k
    OBVIOUS
  <2>3. F!Shifts(i)[k] = 0
    BY <2>1, <2>2, FftPow2
  <2>4. F!Pow2[k] * 0 = 0
    BY FftPow2
  <2> QED BY <1>2, <2>2, <2>3, <2>4
<1>4. ASSUME NEW n \in 0 .. k, n # k, n \in T PROVE n + 1 \in T
  <2> DEFINE m == k - 1 - n
             p == F!Pow2[m]
             b == Bit(i, m)
             x == F!Shifts(i)[m + 1]
  <2>1. n \in 0 .. k - 1 /\ n + 1 \in 0 .. k /\ m \in Nat /\ m + 1 = k - n /\ k - (n + 1) = m
    <3> HIDE DEF T
    <3> QED BY <1>4
  <2>2. r[n] = F!Pow2[m + 1] * x
    BY <1>4, <2>1
  <2>3. r[n + 1] = r[n] + b * p
    BY <1>1, <1>2, <2>1
  <2>4. F!Pow2[m + 1] = 2 * p /\ p \in Nat
    BY <2>1, FftPow2
  <2>5. b \in {0, 1} /\ F!Shifts(i)[m] = 2 * x + b
    BY <2>1, FftBit
  <2>6. x \in Nat
    BY <2>1, FftShifts
  <2> HIDE DEF p, b, x
  <2>7. r[n + 1] = p * (2 * x + b)
    <3>1. r[n + 1] = (2 * p) * x + b * p
      BY <2>2, <2>3, <2>4
    <3> QED BY <2>4, <2>5, <2>6, <3>1
  <2>8. r[n + 1] = F!Pow2[k - (n + 1)] * F!Shifts(i)[k - (n + 1)]
    BY <2>1, <2>5, <2>7 DEF p
  <2> QED BY <2>1, <2>8
<1>5. k \in T
  <2> HIDE DEF T
  <2>1. \A n \in 0 .. k : n \in T
    BY <1>3, <1>4, Climb
  <2> QED BY <2>1
<1>6. r[k] = i
  <2>1. k - k = 0 /\ 1 * i = i
    OBVIOUS
  <2> QED BY <1>5, <2>1, FftPow2, FftShifts
<1> QED BY <1>2, <1>6 DEF v

\* The shifts of a multiple of a power of two.
LEMMA FftShifted ==
  ASSUME NEW a \in Nat, NEW s \in Nat, NEW j \in 0 .. s
  PROVE  F!Shifts(a * F!Pow2[s])[j] = a * F!Pow2[s - j]
<1> DEFINE x == a * F!Pow2[s]
           T == {n \in 0 .. j : F!Shifts(x)[n] = a * F!Pow2[s - n]}
<1>1. x \in Nat
  BY FftPow2
<1> HIDE DEF x
<1>2. 0 \in T
  <2>1. s - 0 = s /\ F!Shifts(x)[0] = x
    BY <1>1, FftShifts
  <2> QED BY <2>1 DEF x
<1>3. ASSUME NEW n \in 0 .. j, n # j, n \in T PROVE n + 1 \in T
  <2>1. n \in Nat /\ n + 1 \in 0 .. j /\ s - (n + 1) \in Nat /\ (s - (n + 1)) + 1 = s - n
    <3> HIDE DEF T
    <3> QED BY <1>3
  <2> DEFINE p == F!Pow2[s - (n + 1)]
             y == a * p
  <2>2. F!Pow2[s - n] = 2 * p /\ p \in Nat
    BY <2>1, FftPow2
  <2>3. F!Shifts(x)[n + 1] = F!Shifts(x)[n] \div 2
    BY <1>1, <2>1, FftShifts
  <2>4. F!Shifts(x)[n] = a * F!Pow2[s - n]
    BY <1>3
  <2> HIDE DEF p
  <2>5. a * (2 * p) = 2 * y /\ y \in Nat
    BY <2>2
  <2>6. (2 * y) \div 2 = y
    BY <2>5
  <2> QED BY <2>1, <2>2, <2>3, <2>4, <2>5, <2>6 DEF p
<1>4. j \in T
  <2>1. j \in Nat
    OBVIOUS
  <2> HIDE DEF T
  <2>2. \A n \in 0 .. j : n \in T
    BY <1>2, <1>3, <2>1, Climb
  <2> QED BY <2>1, <2>2
<1> QED BY <1>4 DEF x

\* The first index is its own mirror image.
LEMMA FftReversedZero == ASSUME NEW k \in Nat PROVE F!Reversed(0, k) = 0
<1>1. 0 < F!Pow2[k] /\ 0 \in Nat
  BY FftPow2
<1> DEFINE r == Mirrored(0, k)
           T == {n \in 0 .. k : r[n] = 0}
<1>2. /\ F!Reversed(0, k) = r[k] /\ r[0] = 0
      /\ \A n \in 0 .. k - 1 : r[n + 1] = r[n] + Bit(0, n) * F!Pow2[k - 1 - n]
  BY FftMirrors DEF Mirrors
<1> HIDE DEF r
<1>3. ASSUME NEW n \in 0 .. k - 1 PROVE Bit(0, n) = 0
  <2>1. n \in Nat /\ n \in 0 .. n /\ n - n = 0
    OBVIOUS
  <2>2. 0 * F!Pow2[n] = 0 /\ 0 * F!Pow2[n - n] = 0
    BY <2>1, FftPow2
  <2>3. F!Shifts(0)[n] = 0
    BY <2>1, <2>2, FftShifted
  <2>4. 0 % 2 = 0
    OBVIOUS
  <2> QED BY <2>3, <2>4 DEF Bit
<1>4. ASSUME NEW n \in 0 .. k, n # k, n \in T PROVE n + 1 \in T
  <2>1. n \in 0 .. k - 1 /\ n + 1 \in 0 .. k /\ k - 1 - n \in Nat
    <3> HIDE DEF T
    <3> QED BY <1>4
  <2>2. 0 * F!Pow2[k - 1 - n] = 0
    BY <2>1, FftPow2
  <2>3. r[n + 1] = 0
    BY <1>2, <1>3, <1>4, <2>1, <2>2
  <2> QED BY <2>1, <2>3
<1>5. k \in T
  <2>1. 0 \in T
    BY <1>2
  <2> HIDE DEF T
  <2>2. \A n \in 0 .. k : n \in T
    BY <1>4, <2>1, Climb
  <2> QED BY <2>2
<1> QED BY <1>2, <1>5

\* The mirror image of the odd one of two neighbouring blocks of size Pow2[s].
LEMMA FftOddBlock ==
  ASSUME NEW k \in Nat, NEW s \in 0 .. k - 1, NEW q \in Nat
  PROVE  F!Reversed((2 * q + 1) * F!Pow2[s], k) = F!Reversed((2 * q) * F!Pow2[s], k) + F!Pow2[k - 1 - s]
<1> DEFINE x == (2 * q) * F!Pow2[s]
           y == (2 * q + 1) * F!Pow2[s]
           rx == Mirrored(x, k)
           ry == Mirrored(y, k)
           up == F!Pow2[k - 1 - s]
           T == {n \in 0 .. k : ry[n] = rx[n] + (IF n <= s THEN 0 ELSE up)}
<1>1. s \in Nat /\ k - 1 - s \in Nat /\ 2 * q \in Nat /\ 2 * q + 1 \in Nat
  OBVIOUS
<1>2. x \in Nat /\ y \in Nat /\ up \in Nat
  BY <1>1, FftPow2
<1>3. \A j \in 0 .. s : F!Shifts(x)[j] = (2 * q) * F!Pow2[s - j] /\ F!Shifts(y)[j] = (2 * q + 1) * F!Pow2[s - j]
  BY <1>1, FftShifted
<1> HIDE DEF x, y
<1>4. /\ F!Reversed(x, k) = rx[k] /\ rx[0] = 0 /\ \A j \in Nat : rx[j] \in Int
      /\ \A n \in 0 .. k - 1 : rx[n + 1] = rx[n] + Bit(x, n) * F!Pow2[k - 1 - n]
  BY <1>2, FftMirrors DEF Mirrors
<1>5. /\ F!Reversed(y, k) = ry[k] /\ ry[0] = 0
      /\ \A n \in 0 .. k - 1 : ry[n + 1] = ry[n] + Bit(y, n) * F!Pow2[k - 1 - n]
  BY <1>2, FftMirrors DEF Mirrors
<1> HIDE DEF rx, ry
<1>6. ASSUME NEW n \in 0 .. s, n # s PROVE Bit(x, n) = 0 /\ Bit(y, n) = 0
  <2>1. n \in Nat /\ s - n - 1 \in Nat /\ (s - n - 1) + 1 = s - n
    BY <1>6
  <2> DEFINE p == F!Pow2[s - n - 1]
             a == (2 * q) * p
             b == (2 * q + 1) * p
  <2>2. F!Pow2[s - n] = 2 * p /\ p \in Nat
    BY <2>1, FftPow2
  <2> HIDE DEF p
  <2>3. a \in Nat /\ b \in Nat /\ (2 * q) * (2 * p) = 2 * a /\ (2 * q + 1) * (2 * p) = 2 * b
    BY <2>2
  <2>4. F!Shifts(x)[n] = 2 * a /\ F!Shifts(y)[n] = 2 * b
    BY <1>3, <2>2, <2>3
  <2> HIDE DEF a, b
  <2>5. (2 * a) % 2 = 0 /\ (2 * b) % 2 = 0
    BY <2>3
  <2> QED BY <2>4, <2>5 DEF Bit
<1>7. F!Shifts(x)[s] = 2 * q /\ F!Shifts(y)[s] = 2 * q + 1
  <2>1. s \in 0 .. s /\ s - s = 0 /\ (2 * q) * 1 = 2 * q /\ (2 * q + 1) * 1 = 2 * q + 1
    BY <1>1
  <2> QED BY <1>3, <2>1, FftPow2
<1>8. Bit(x, s) = 0 /\ Bit(y, s) = 1
  <2>1. (2 * q) % 2 = 0 /\ (2 * q + 1) % 2 = 1
    OBVIOUS
  <2> QED BY <1>7, <2>1 DEF Bit
<1>9. ASSUME NEW n \in Nat, s < n PROVE F!Shifts(x)[n] = F!Shifts(y)[n]
  <2> DEFINE U == {j \in 0 .. n : s < j => F!Shifts(x)[j] = F!Shifts(y)[j]}
  <2>1. 0 \in U
    BY <1>1
  <2>2. ASSUME NEW j \in 0 .. n, j # n, j \in U PROVE j + 1 \in U
    <3>1. j \in Nat /\ j + 1 \in 0 .. n
      <4> HIDE DEF U
      <4> QED BY <2>2
    <3>2. F!Shifts(x)[j + 1] = F!Shifts(x)[j] \div 2 /\ F!Shifts(y)[j + 1] = F!Shifts(y)[j] \div 2
      BY <1>2, <3>1, FftShifts
    <3>3. CASE s < j
      BY <2>2, <3>1, <3>2, <3>3
    <3>4. CASE s = j
      <4>1. (2 * q) \div 2 = q /\ (2 * q + 1) \div 2 = q
        OBVIOUS
      <4> QED BY <1>7, <3>1, <3>2, <3>4, <4>1
    <3>5. CASE j < s
      BY <1>1, <3>1, <3>5
    <3> QED BY <1>1, <3>1, <3>3, <3>4, <3>5
  <2>3. n \in U
    <3> HIDE DEF U
    <3>1. \A j \in 0 .. n : j \in U
      BY <2>1, <2>2, Climb
    <3> QED BY <3>1
  <2> QED BY <1>9, <2>3
<1>10. 0 \in T
  BY <1>1, <1>4, <1>5
<1>11. ASSUME NEW n \in 0 .. k, n # k, n \in T PROVE n + 1 \in T
  <2>1. n \in Nat /\ n \in 0 .. k - 1 /\ n + 1 \in 0 .. k
    <3> HIDE DEF T
    <3> QED BY <1>11
  <2>2. ry[n] = rx[n] + (IF n <= s THEN 0 ELSE up) /\ rx[n] \in Int
    BY <1>4, <1>11, <2>1
  <2>3. rx[n + 1] = rx[n] + Bit(x, n) * F!Pow2[k - 1 - n] /\ ry[n + 1] = ry[n] + Bit(y, n) * F!Pow2[k - 1 - n]
    BY <1>4, <1>5, <2>1
  <2>4. k - 1 - n \in Nat /\ F!Pow2[k - 1 - n] \in Nat
    BY <2>1, FftPow2
  <2>5. CASE n < s
    <3>1. Bit(x, n) = 0 /\ Bit(y, n) = 0
      BY <1>1, <1>6, <2>1, <2>5
    <3>2. n <= s /\ n + 1 <= s
      BY <1>1, <2>1, <2>5
    <3>3. ry[n + 1] = rx[n + 1] + 0
      BY <2>2, <2>3, <2>4, <3>1, <3>2
    <3> QED BY <2>1, <3>2, <3>3
  <2>6. CASE n = s
    <3>1. rx[n + 1] = rx[n] /\ ry[n + 1] = ry[n] + up
      BY <1>1, <1>2, <1>8, <2>2, <2>3, <2>4, <2>6
    <3>2. n <= s /\ ~(n + 1 <= s)
      BY <1>1, <2>1, <2>6
    <3>3. ry[n + 1] = rx[n + 1] + up
      BY <1>2, <2>2, <3>1, <3>2
    <3> QED BY <2>1, <3>2, <3>3
  <2>7. CASE s < n
    <3>1. Bit(x, n) = Bit(y, n) /\ Bit(x, n) \in {0, 1}
      BY <1>2, <1>9, <2>1, <2>7, FftBit DEF Bit
    <3>2. ~(n <= s) /\ ~(n + 1 <= s)
      BY <1>1, <2>1, <2>7
    <3>3. ry[n + 1] = rx[n + 1] + up
      <4> DEFINE z == Bit(x, n) * F!Pow2[k - 1 - n]
      <4>1. z \in Int
        BY <2>4, <3>1
      <4> HIDE DEF z
      <4>2. rx[n + 1] = rx[n] + z /\ ry[n + 1] = ry[n] + z
        BY <2>3, <3>1 DEF z
      <4> QED BY <1>2, <2>2, <3>2, <4>1, <4>2
    <3> QED BY <2>1, <3>2, <3>3
  <2> QED BY <1>1, <2>1, <2>5, <2>6, <2>7
<1>12. k \in T
  <2> HIDE DEF T
  <2>1. \A n \in 0 .. k : n \in T
    BY <1>10, <1>11, Climb
  <2> QED BY <2>1
<1>13. ~(k <= s)
  BY <1>1
<1> QED BY <1>4, <1>5, <1>12, <1>13 DEF x, y

\* The permutation in place: the entries of which the index or its mirror image has been
\* passed are exchanged.
Mirror(R, top) == R \in [0 .. top - 1 -> 0 .. top - 1] /\ \A x \in 0 .. top - 1 : R[R[x]] = x
Exchanged(b, R, top, i) == [x \in 0 .. top - 1 |-> IF x < i \/ R[x] < i THEN b[R[x]] ELSE b[x]]

LEMMA FftSwap ==
  ASSUME NEW top \in Nat, NEW R, Mirror(R, top), NEW b, NEW i \in 0 .. top - 1
  PROVE  F!Swapped(Exchanged(b, R, top, i), i, R[i]) = Exchanged(b, R, top, i + 1)
<1> DEFINE c == Exchanged(b, R, top, i)
           d == Exchanged(b, R, top, i + 1)
           j == R[i]
<1>1. /\ \A x \in 0 .. top - 1 : R[x] \in 0 .. top - 1 /\ R[R[x]] = x
      /\ i \in 0 .. top - 1 /\ j \in 0 .. top - 1 /\ R[j] = i
  BY DEF Mirror
<1>2. /\ \A x \in 0 .. top - 1 : c[x] = IF x < i \/ R[x] < i THEN b[R[x]] ELSE b[x]
      /\ \A x \in 0 .. top - 1 : d[x] = IF x < i + 1 \/ R[x] < i + 1 THEN b[R[x]] ELSE b[x]
      /\ c = [x \in 0 .. top - 1 |-> c[x]] /\ d = [x \in 0 .. top - 1 |-> d[x]]
  BY DEF Exchanged
<1> HIDE DEF c, d
<1>3. CASE i < j
  <2>1. c[j] = b[j] /\ c[i] = b[i] /\ d[i] = b[j] /\ d[j] = b[i]
    <3>1. ~(j < i) /\ ~(i < i) /\ i < i + 1
      BY <1>1, <1>3
    <3> QED BY <1>1, <1>2, <3>1
  <2>2. ASSUME NEW x \in 0 .. top - 1, x # i, x # j PROVE d[x] = c[x]
    <3>1. R[x] # i
      BY <1>1, <2>2
    <3>2. (x < i + 1 <=> x < i) /\ (R[x] < i + 1 <=> R[x] < i)
      BY <1>1, <2>2, <3>1
    <3> QED BY <1>2, <3>2
  <2>3. F!Swapped(c, i, j) = [c EXCEPT ![i] = c[j], ![j] = c[i]]
    BY <1>3 DEF F!Swapped
  <2> HIDE DEF j
  <2>4. d = [c EXCEPT ![i] = c[j], ![j] = c[i]]
    <3> DEFINE e == [c EXCEPT ![i] = c[j], ![j] = c[i]]
    <3>1. e = [x \in 0 .. top - 1 |-> IF x = j THEN c[i] ELSE IF x = i THEN c[j] ELSE c[x]]
      BY <1>1, <1>2, <1>3
    <3>2. \A x \in 0 .. top - 1 : d[x] = IF x = j THEN c[i] ELSE IF x = i THEN c[j] ELSE c[x]
      BY <1>1, <1>3, <2>1, <2>2
    <3> HIDE DEF e
    <3> QED BY <1>2, <3>1, <3>2
  <2> QED BY <2>3, <2>4 DEF c, d, j
<1>4. CASE ~(i < j)
  <2>1. F!Swapped(c, i, j) = c
    BY <1>4 DEF F!Swapped
  <2>2. ASSUME NEW x \in 0 .. top - 1 PROVE d[x] = c[x]
    <3>1. CASE x = i
      <4>1. CASE j = i
        BY <1>1, <1>2, <3>1, <4>1
      <4>2. CASE j < i
        <5>1. i < i + 1
          BY <1>1
        <5> QED BY <1>1, <1>2, <3>1, <4>2, <5>1
      <4> QED BY <1>1, <1>4, <4>1, <4>2
    <3>2. CASE x # i /\ R[x] = i
      <4>1. x = j
        BY <1>1, <3>2
      <4>2. x < i /\ x < i + 1
        BY <1>1, <1>4, <3>2, <4>1
      <4> QED BY <1>2, <4>2
    <3>3. CASE x # i /\ R[x] # i
      <4>1. (x < i + 1 <=> x < i) /\ (R[x] < i + 1 <=> R[x] < i)
        BY <1>1, <3>3
      <4> QED BY <1>2, <4>1
    <3> QED BY <3>1, <3>2, <3>3
  <2>3. d = c
    BY <1>2, <2>2
  <2> QED BY <2>1, <2>3 DEF c, d, j
<1> QED BY <1>3, <1>4

LEMMA FftPermuted ==
  ASSUME NEW k \in Nat, NEW b \in [F!Indexes(F!Pow2[k]) -> Int]
  PROVE  /\ \A x \in F!Indexes(F!Pow2[k]) : F!Reversed(x, k) \in F!Indexes(F!Pow2[k])
         /\ F!Permuted(b, F!Pow2[k]) = [x \in F!Indexes(F!Pow2[k]) |-> b[F!Reversed(x, k)]]
<1> DEFINE top == F!Pow2[k]
           R == F!RevTable(top)
<1>1. top \in Nat /\ top > 0 /\ F!Indexes(top) = 0 .. top - 1
  BY FftPow2 DEF F!Indexes
<1>2. \A x \in 0 .. top - 1 : F!Reversed(x, k) \in 0 .. top - 1 /\ F!Reversed(F!Reversed(x, k), k) = x
  <2> TAKE x \in 0 .. top - 1
  <2> HIDE DEF top
  <2>1. x \in Nat /\ x < top
    BY <1>1
  <2>2. F!Reversed(x, k) \in Nat /\ F!Reversed(x, k) < top
    BY <2>1, FftReversedBits DEF top
  <2>3. F!Reversed(F!Reversed(x, k), k) = x
    BY <2>1, FftInvolution DEF top
  <2> QED BY <1>1, <2>2, <2>3
<1>3. R = [x \in 0 .. top - 1 |-> F!Reversed(x, k)]
  BY <1>1, FftBits DEF F!RevTable
<1> HIDE DEF R, top
<1>4. Mirror(R, top)
  BY <1>2, <1>3 DEF Mirror
<1> DEFINE C(i) == Exchanged(b, R, top, i)
           Is(f) == f = [i \in 0 .. top |-> IF i = 0 THEN b ELSE F!Swapped(f[i - 1], i - 1, R[i - 1])]
           after == CHOOSE f : Is(f)
<1>5. C(0) = b
  <2>1. \A x \in 0 .. top - 1 : ~(x < 0 \/ R[x] < 0)
    BY <1>1, <1>4 DEF Mirror
  <2>2. b = [x \in 0 .. top - 1 |-> b[x]]
    BY <1>1 DEF top
  <2> QED BY <2>1, <2>2 DEF Exchanged
<1>6. ASSUME NEW i \in 0 .. top, i # 0 PROVE F!Swapped(C(i - 1), i - 1, R[i - 1]) = C(i)
  <2>1. i - 1 \in 0 .. top - 1 /\ (i - 1) + 1 = i
    BY <1>1, <1>6
  <2> QED BY <1>1, <1>4, <2>1, FftSwap
<1>7. \E f : Is(f)
  <2> DEFINE f == [i \in 0 .. top |-> C(i)]
  <2> HIDE DEF C
  <2>1. ASSUME NEW i \in 0 .. top
        PROVE  f[i] = IF i = 0 THEN b ELSE F!Swapped(f[i - 1], i - 1, R[i - 1])
    <3>1. CASE i = 0
      BY <1>5, <3>1
    <3>2. CASE i # 0
      <4>1. i - 1 \in 0 .. top
        BY <1>1, <3>2
      <4>2. f[i] = C(i) /\ f[i - 1] = C(i - 1)
        BY <4>1
      <4> QED BY <1>6, <3>2, <4>2
    <3> QED BY <3>1, <3>2
  <2>2. Is(f)
    BY <2>1
  <2> HIDE DEF Is
  <2> QED BY <2>2
<1>8. Is(after)
  <2> HIDE DEF Is
  <2> QED BY <1>7
<1>9. F!Permuted(b, top) = after[top]
  BY DEF F!Permuted, R
<1> HIDE DEF after, C
<1> DEFINE T == {i \in 0 .. top : after[i] = C(i)}
<1>10. 0 \in T
  BY <1>1, <1>5, <1>8
<1>11. ASSUME NEW i \in 0 .. top, i # top, i \in T PROVE i + 1 \in T
  <2>1. i + 1 \in 0 .. top /\ i + 1 # 0 /\ (i + 1) - 1 = i
    <3> HIDE DEF T
    <3> QED BY <1>1, <1>11
  <2>2. after[i + 1] = F!Swapped(after[i], i, R[i])
    BY <1>8, <2>1
  <2>3. F!Swapped(C(i), i, R[i]) = C(i + 1)
    BY <1>6, <2>1
  <2> QED BY <1>11, <2>1, <2>2, <2>3
<1>12. after[top] = C(top)
  <2> HIDE DEF T
  <2>1. \A i \in 0 .. top : i \in T
    BY <1>1, <1>10, <1>11, Climb
  <2>2. top \in T
    BY <1>1, <2>1
  <2> QED BY <2>2 DEF T
<1>13. C(top) = [x \in 0 .. top - 1 |-> b[F!Reversed(x, k)]]
  <2>1. \A x \in 0 .. top - 1 : x < top /\ R[x] = F!Reversed(x, k)
    BY <1>1, <1>3
  <2> QED BY <2>1 DEF C, Exchanged
<1> QED BY <1>1, <1>2, <1>9, <1>12, <1>13 DEF top

\* The buffer, with silence behind it.
Extended(b, top) == [j \in Nat |-> IF j < top THEN b[j] ELSE 0]

\* What a buffer holds after s stages: block q of Pow2[s] entries the transform of every
\* Pow2[k - s]-th entry, from the mirror image of the block's start on.
Due(b, k, s, q, r) ==
  Part(Extended(b, F!Pow2[k]), F!Unit(F!Pow2[k]), F!Reversed(q * F!Pow2[s], k), F!Pow2[k - s], r, F!Pow2[s])
HoldsParts(b, k, s, a) ==
  /\ a \in [F!Indexes(F!Pow2[k]) -> Nat]
  /\ \A q, r \in Nat : q < F!Pow2[k - s] /\ r < F!Pow2[s] => a[q * F!Pow2[s] + r] = Due(b, k, s, q, r) % Modulus

\* A buffer the transform can be asked of.
Samples(b, k) == k \in Nat /\ F!Pow2[k] <= MaxSize /\ b \in [F!Indexes(F!Pow2[k]) -> 0 .. Modulus - 1]

LEMMA FftExtended ==
  ASSUME NEW b, NEW k, Samples(b, k)
  PROVE  /\ Extended(b, F!Pow2[k]) \in [Nat -> Int]
         /\ \A j \in F!Indexes(F!Pow2[k]) : Extended(b, F!Pow2[k])[j] = b[j] /\ b[j] \in Nat /\ b[j] < Modulus
<1> DEFINE top == F!Pow2[k]
<1>1. top \in Nat /\ F!Indexes(top) = 0 .. top - 1
  BY FftPow2 DEF Samples, F!Indexes
<1>2. \A j \in 0 .. top - 1 : b[j] \in Nat /\ b[j] < Modulus
  BY <1>1, FftModulus DEF Samples
<1> HIDE DEF top
<1>3. ASSUME NEW j \in Nat PROVE (IF j < top THEN b[j] ELSE 0) \in Int
  <2>1. j < top => j \in 0 .. top - 1
    BY <1>1
  <2> QED BY <1>2, <2>1
<1>4. \A j \in 0 .. top - 1 : j \in Nat /\ j < top
  BY <1>1
<1> QED BY <1>1, <1>2, <1>3, <1>4 DEF Extended, top

\* The permutation is the start of it.
LEMMA FftStarts ==
  ASSUME NEW b, NEW k, Samples(b, k)
  PROVE  HoldsParts(b, k, 0, F!Permuted(b, F!Pow2[k]))
<1> DEFINE top == F!Pow2[k]
           a == F!Permuted(b, top)
           B == Extended(b, top)
           w == F!Unit(top)
<1>0. k \in Nat /\ b \in [F!Indexes(top) -> 0 .. Modulus - 1] /\ top \in Nat /\ F!Indexes(top) = 0 .. top - 1
  BY FftPow2 DEF Samples, F!Indexes
<1>1. /\ \A x \in F!Indexes(top) : F!Reversed(x, k) \in F!Indexes(top)
      /\ a = [x \in F!Indexes(top) |-> b[F!Reversed(x, k)]]
  <2>1. b \in [F!Indexes(top) -> Int]
    BY <1>0, FftModulus
  <2> QED BY <1>0, <2>1, FftPermuted
<1>2. B \in [Nat -> Int] /\ \A j \in F!Indexes(top) : B[j] = b[j] /\ b[j] \in Nat /\ b[j] < Modulus
  BY FftExtended
<1>3. w \in Nat
  BY <1>0, FftUnit DEF Samples
<1>4. a \in [F!Indexes(top) -> Nat]
  BY <1>1, <1>2
<1> HIDE DEF a, top, B, w
<1>5. ASSUME NEW q \in Nat, q < F!Pow2[k - 0] PROVE a[q * F!Pow2[0] + 0] = Due(b, k, 0, q, 0) % Modulus
  <2> DEFINE R == F!Reversed(q, k)
  <2>1. q * F!Pow2[0] = q /\ q + 0 = q /\ k - 0 = k /\ F!Pow2[0] = 1
    BY <1>0, FftPow2
  <2>2. q \in F!Indexes(top)
    BY <1>0, <1>5, <2>1 DEF top
  <2>3. R \in Nat /\ R \in F!Indexes(top)
    BY <1>0, <1>1, <2>2
  <2>4. Due(b, k, 0, q, 0) = Part(B, w, R, top, 0, 1)
    BY <2>1 DEF Due, B, w, top
  <2> HIDE DEF R
  <2>5. PartAdds(B, w, R, top, 0)
    BY <1>0, <1>2, <1>3, <2>3, FftTerms
  <2>6. Part(B, w, R, top, 0, 0 + 1) = 0 + B[R + top * 0] * F!Powers(w)[top * 0 * 0]
    BY <2>5 DEF PartAdds
  <2>7. R + top * 0 = R /\ top * 0 * 0 = 0 /\ 0 + 1 = 1 /\ F!Powers(w)[0] = 1
    BY <1>0, <1>3, <2>3, FftPowers
  <2>8. B[R] = b[R] /\ b[R] \in Nat /\ b[R] < Modulus
    BY <1>2, <2>3
  <2>9. Part(B, w, R, top, 0, 1) = b[R]
    BY <2>6, <2>7, <2>8
  <2>10. b[R] % Modulus = b[R]
    BY <2>8, ModSmall
  <2>11. a[q] = b[R]
    BY <1>1, <2>2 DEF R
  <2> QED BY <2>1, <2>4, <2>9, <2>10, <2>11
<1>6. \A q, r \in Nat : q < F!Pow2[k - 0] /\ r < F!Pow2[0] => a[q * F!Pow2[0] + r] = Due(b, k, 0, q, r) % Modulus
  <2>1. \A r \in Nat : r < F!Pow2[0] => r = 0
    BY FftPow2
  <2> QED BY <1>5, <2>1
<1> QED BY <1>4, <1>6 DEF HoldsParts, a, top

\* The two halves of a stage's result: the sum and the difference, turned by the twiddle.
LEMMA FftButterfly ==
  ASSUME NEW x \in Int, NEW y \in Int, NEW v \in Nat
  PROVE  /\ ((x % Modulus) + ((v * (y % Modulus)) % Modulus)) % Modulus = (x + v * y) % Modulus
         /\ ((x % Modulus) - ((v * (y % Modulus)) % Modulus)) % Modulus = (x + ((0 - v) % Modulus) * y) % Modulus
<1> DEFINE z == v * y
<1>1. z \in Int
  OBVIOUS
<1>2. (v * (y % Modulus)) % Modulus = z % Modulus
  BY ModMul
<1>3. x % Modulus \in Int /\ 0 - v \in Int /\ 0 - z \in Int
  BY ModIs
<1>4. (((x % Modulus)) + (z % Modulus)) % Modulus = (x + z) % Modulus
  <2> HIDE DEF z
  <2>1. ((x % Modulus) + (z % Modulus)) % Modulus = ((x % Modulus) + z) % Modulus
    BY <1>1, <1>3, ModAdd
  <2>2. ((x % Modulus) + z) % Modulus = (x + z) % Modulus
    BY <1>1, ModAdd
  <2> QED BY <2>1, <2>2
<1>5. ((x % Modulus) - (z % Modulus)) % Modulus = (x + (0 - z)) % Modulus
  <2> HIDE DEF z
  <2>1. ((x % Modulus) - (z % Modulus)) % Modulus = ((x % Modulus) - z) % Modulus
    BY <1>1, <1>3, ModAdd
  <2>2. ((x % Modulus) + (0 - z)) % Modulus = (x + (0 - z)) % Modulus
    BY <1>1, <1>3, ModAdd
  <2>3. (x % Modulus) - z = (x % Modulus) + (0 - z)
    BY <1>1, <1>3
  <2> QED BY <2>1, <2>2, <2>3
<1>6. (x + ((0 - v) % Modulus) * y) % Modulus = (x + (0 - z)) % Modulus
  <2> DEFINE u == (0 - v) % Modulus
             p == u * y
  <2>1. u \in Nat
    BY <1>3, ModIs
  <2>2. (y * u) % Modulus = (y * (0 - v)) % Modulus
    BY <1>3, ModMul
  <2> HIDE DEF u
  <2>3. y * (0 - v) = 0 - z /\ y * u = p /\ p \in Int
    BY <2>1
  <2> HIDE DEF p, z
  <2>4. (x + (p % Modulus)) % Modulus = (x + p) % Modulus
    BY <2>3, ModAdd
  <2>5. (x + ((0 - z) % Modulus)) % Modulus = (x + (0 - z)) % Modulus
    BY <1>3, ModAdd
  <2>6. p % Modulus = (0 - z) % Modulus
    BY <2>2, <2>3
  <2>7. (x + p) % Modulus = (x + (0 - z)) % Modulus
    BY <2>4, <2>5, <2>6
  <2> QED BY <2>7 DEF p, u
<1> HIDE DEF z
<1> QED BY <1>2, <1>4, <1>5, <1>6 DEF z

\* One stage turns the transforms of blocks of Pow2[s] entries into those of the next size.
LEMMA FftStage ==
  ASSUME NEW b, NEW k, Samples(b, k), NEW s \in Nat, s + 1 <= k, NEW a, HoldsParts(b, k, s, a)
  PROVE  HoldsParts(b, k, s + 1, F!Stage(a, F!Pow2[s + 1], F!Pow2[k]))
<1> DEFINE top == F!Pow2[k]
           m == F!Pow2[s]
           M == F!Pow2[s + 1]
           t == F!Pow2[k - 1 - s]
           B == Extended(b, top)
           w == F!Unit(top)
           V == F!Powers(w)
           after == F!Stage(a, M, top)
           turned(i) == (F!Twiddles(top)[(i % m) * t] * a[i]) % Modulus
<1>0. k \in Nat /\ k # 0 /\ k - 1 \in Nat /\ k - 1 - s \in Nat /\ (k - 1 - s) + 1 = k - s /\ k - (s + 1) = k - 1 - s
  BY DEF Samples
<1>1. /\ m \in Nat /\ m > 0 /\ t \in Nat /\ t > 0 /\ M = 2 * m /\ F!Pow2[k - s] = 2 * t /\ top = t * M
      /\ F!Pow2[k - 1] = t * m /\ top \in Nat /\ F!Indexes(top) = 0 .. top - 1
  <2>1. k = (k - 1 - s) + (s + 1) /\ k - 1 = (k - 1 - s) + s /\ s + 1 \in Nat
    BY <1>0
  <2>2. top = t * M
    <3> DEFINE d == k - 1 - s
    <3>1. d \in Nat /\ k = d + (s + 1)
      BY <1>0
    <3> HIDE DEF d
    <3>2. F!Pow2[d + (s + 1)] = F!Pow2[d] * F!Pow2[s + 1]
      BY <2>1, <3>1, FftPow2Add
    <3>3. F!Pow2[k] = F!Pow2[d + (s + 1)]
      BY <3>1
    <3> QED BY <3>2, <3>3 DEF d
  <2>3. F!Pow2[k - 1] = t * m
    <3> DEFINE d == k - 1 - s
    <3>1. d \in Nat /\ k - 1 = d + s
      BY <1>0
    <3> HIDE DEF d
    <3>2. F!Pow2[d + s] = F!Pow2[d] * F!Pow2[s]
      BY <3>1, FftPow2Add
    <3>3. F!Pow2[k - 1] = F!Pow2[d + s]
      BY <3>1
    <3> QED BY <3>2, <3>3 DEF d
  <2>4. F!Pow2[k - s] = 2 * t
    <3> DEFINE d == k - 1 - s
    <3>1. d \in Nat /\ k - s = d + 1
      BY <1>0
    <3> HIDE DEF d
    <3>2. F!Pow2[k - s] = F!Pow2[d + 1]
      BY <3>1
    <3> QED BY <3>1, <3>2, FftPow2 DEF d
  <2>5. m \in Nat /\ m > 0 /\ t \in Nat /\ t > 0 /\ M = 2 * m /\ top \in Nat
    BY <1>0, FftPow2
  <2>6. F!Indexes(top) = 0 .. top - 1
    BY DEF F!Indexes
  <2> QED BY <2>2, <2>3, <2>4, <2>5, <2>6
<1>2. B \in [Nat -> Int]
  BY FftExtended
<1>3. w \in Nat /\ V[t * m] = Modulus - 1
  BY <1>0, <1>1, FftUnit DEF Samples
<1>4. /\ a \in [0 .. top - 1 -> Nat]
      /\ \A q, r \in Nat : q < 2 * t /\ r < m => a[q * m + r] = Due(b, k, s, q, r) % Modulus
  BY <1>1 DEF HoldsParts
<1>5. after = [i \in 0 .. top - 1 |-> IF i % M < m THEN (a[i] + turned(i + m)) % Modulus
                                      ELSE (a[i - m] - turned(i)) % Modulus]
  <2>1. M \div 2 = m
    BY <1>1
  <2>2. top \div M = t
    <3> DEFINE p == F!Pow2[s + 1]
    <3>1. M = p /\ p \in Nat /\ p > 0
      BY <1>1
    <3> HIDE DEF p, t, M, top, m
    <3>2. top = p * t + 0
      BY <1>1, <3>1
    <3>3. (p * t + 0) \div p = t
      BY <1>1, <3>1, ModOnly
    <3> QED BY <3>1, <3>2, <3>3
  <2> QED BY <1>1, <2>1, <2>2 DEF F!Stage
<1>6. \A r \in Nat : r < m => F!Twiddles(top)[r * t] = V[r * t]
  <2> TAKE r \in Nat
  <2> HAVE r < m
  <2>1. top \div 2 = t * m
    <3> HIDE DEF m, t, top, M
    <3>1. top = 2 * (t * m) + 0 /\ t * m \in Int
      BY <1>1
    <3>2. (2 * (t * m) + 0) \div 2 = t * m
      BY <3>1, ModOnly
    <3> QED BY <3>1, <3>2
  <2>2. r * t \in 0 .. (t * m) - 1
    <3> HIDE DEF m, t, top, M
    <3>1. r + 1 <= m
      BY <1>1
    <3>2. (r + 1) * t <= m * t
      <4> DEFINE d == m - (r + 1)
      <4>1. d \in Nat /\ m = (r + 1) + d
        BY <1>1, <3>1
      <4> HIDE DEF d
      <4>2. m * t = (r + 1) * t + d * t /\ d * t \in Nat /\ (r + 1) * t \in Nat
        BY <1>1, <4>1
      <4> DEFINE e1 == m * t
                 e2 == (r + 1) * t
                 e3 == d * t
      <4> HIDE DEF e1, e2, e3
      <4>3. e1 = e2 + e3 /\ e3 \in Nat /\ e2 \in Nat
        BY <4>2 DEF e1, e2, e3
      <4>4. e2 <= e1
        BY <4>3
      <4> QED BY <4>4 DEF e1, e2
    <3>3. (r + 1) * t = r * t + t /\ m * t = t * m /\ r * t \in Nat /\ t * m \in Nat
      BY <1>1
    <3> DEFINE e1 == r * t
               e2 == t * m
    <3>4. e1 + t <= e2
      BY <3>2, <3>3
    <3>5. e1 \in Nat /\ e2 \in Nat
      BY <3>3
    <3> HIDE DEF e1, e2
    <3>6. e1 \in 0 .. e2 - 1
      BY <1>1, <3>4, <3>5
    <3> QED BY <3>6 DEF e1, e2
  <2> HIDE DEF top, t, m
  <2> QED BY <2>1, <2>2 DEF F!Twiddles, V, w
<1> DEFINE Ev(q, r) == Part(B, w, F!Reversed(q * M, k), 2 * t, r, m)
           Od(q, r) == Part(B, w, F!Reversed(q * M, k) + t, 2 * t, r, m)
           Both(q, r) == Part(B, w, F!Reversed(q * M, k), t, r, 2 * m)
<1>7. ASSUME NEW q \in Nat, q < t, NEW r \in Nat, r < m
      PROVE  /\ a[q * M + r] = Ev(q, r) % Modulus /\ a[q * M + m + r] = Od(q, r) % Modulus
             /\ q * M + r \in 0 .. top - 1 /\ q * M + m + r \in 0 .. top - 1
  <2>1. 2 * q \in Nat /\ 2 * q + 1 \in Nat /\ 2 * q < 2 * t /\ 2 * q + 1 < 2 * t
    BY <1>1, <1>7
  <2>2. (2 * q) * m = q * M /\ (2 * q + 1) * m = q * M + m
    <3> HIDE DEF m, M, t
    <3> QED BY <1>1
  <2>3. F!Reversed((2 * q + 1) * m, k) = F!Reversed(q * M, k) + t
    <3>1. s \in 0 .. k - 1
      BY <1>0
    <3>2. F!Reversed((2 * q + 1) * m, k) = F!Reversed((2 * q) * m, k) + t
      BY <1>0, <3>1, FftOddBlock
    <3> QED BY <2>2, <3>2
  <2>4. a[(2 * q) * m + r] = Due(b, k, s, 2 * q, r) % Modulus
    BY <1>4, <1>7, <2>1
  <2>5. a[(2 * q + 1) * m + r] = Due(b, k, s, 2 * q + 1, r) % Modulus
    BY <1>4, <1>7, <2>1
  <2>6. Due(b, k, s, 2 * q, r) = Ev(q, r)
    BY <1>1, <2>2 DEF Due
  <2>7. Due(b, k, s, 2 * q + 1, r) = Od(q, r)
    BY <1>1, <2>3 DEF Due
  <2>8. q * M + r \in 0 .. top - 1 /\ q * M + m + r \in 0 .. top - 1
    <3> HIDE DEF m, M, t, top
    <3> DEFINE d == t - 1 - q
    <3>1. d \in Nat /\ t = q + 1 + d
      BY <1>1, <1>7
    <3> HIDE DEF d
    <3> DEFINE e == q * M
               f == d * M
    <3>2. M \in Nat /\ top = e + M + f /\ e \in Nat /\ f \in Nat
      BY <1>1, <3>1
    <3> HIDE DEF e, f
    <3>3. e + r \in 0 .. top - 1 /\ e + m + r \in 0 .. top - 1
      BY <1>1, <1>7, <3>2
    <3> QED BY <3>3 DEF e
  <2> QED BY <2>2, <2>4, <2>5, <2>6, <2>7, <2>8
<1>8. ASSUME NEW q \in Nat, q < t, NEW r \in Nat
      PROVE  /\ F!Reversed(q * M, k) \in Nat /\ Ev(q, r) \in Int /\ Od(q, r) \in Int
             /\ Both(q, r) % Modulus = (Ev(q, r) + V[t * r] * Od(q, r)) % Modulus
  <2> DEFINE R == F!Reversed(q * M, k)
  <2>1. q * M \in Nat
    <3> HIDE DEF M, m, t
    <3> QED BY <1>1
  <2>2. R \in Nat
    BY <1>0, <2>1, FftReversedBits
  <2> HIDE DEF R, t, m
  <2>3. 2 * t \in Nat /\ R + t \in Nat
    BY <1>1, <2>2
  <2>4. PartAdds(B, w, R, 2 * t, r) /\ PartAdds(B, w, R + t, 2 * t, r)
    BY <1>2, <1>3, <2>2, <2>3, FftTerms
  <2>5. Ev(q, r) \in Int /\ Od(q, r) \in Int
    BY <1>1, <2>4 DEF PartAdds, R
  <2>6. Part(B, w, R, t, r, 2 * m) % Modulus
          = (Part(B, w, R, 2 * t, r, m) + F!Powers(w)[t * r] * Part(B, w, R + t, 2 * t, r, m)) % Modulus
    <3>1. B \in [Nat -> Int] /\ w \in Nat /\ R \in Nat /\ t \in Nat /\ m \in Nat
      BY <1>1, <1>2, <1>3, <2>2
    <3> HIDE DEF B, w
    <3>2. Splits(B, w, R, t, r, m)
      BY <3>1, FftSplit
    <3> QED BY <3>2 DEF Splits
  <2> QED BY <2>2, <2>5, <2>6 DEF R
<1> HIDE DEF after, turned, Ev, Od, Both, V, top, m, M, t, B, w
<1>9. ASSUME NEW q \in Nat, q < t, NEW r \in Nat, r < m
      PROVE  /\ after[q * M + r] = Both(q, r) % Modulus
             /\ after[q * M + m + r] = Both(q, r + m) % Modulus
  <2> DEFINE x == Ev(q, r)
             y == Od(q, r)
             v == V[r * t]
  <2>1. /\ x \in Int /\ y \in Int
        /\ Both(q, r) % Modulus = (x + V[t * r] * y) % Modulus
    BY <1>8, <1>9
  <2>2. r * t = t * r /\ r * t \in Nat
    BY <1>1
  <2>3. v \in Nat
    BY <1>3, <2>2, FftPowers DEF V
  <2>4. a[q * M + r] = x % Modulus /\ a[q * M + m + r] = y % Modulus
    BY <1>7, <1>9
  <2>5. q * M + r \in 0 .. top - 1 /\ q * M + m + r \in 0 .. top - 1
    BY <1>7, <1>9
  <2>6. (q * M + r) + m = q * M + m + r /\ (q * M + m + r) - m = q * M + r /\ M \in Nat /\ M > 0
    BY <1>1
  <2>7. /\ (q * M + r) % M = r /\ (q * M + m + r) % M = m + r
        /\ (q * M + m + r) % m = r
    <3>1. q * M + r = M * q + r /\ q * M + m + r = M * q + (m + r) /\ q * M + m + r = m * (2 * q + 1) + r
      BY <1>1, <2>6
    <3>2. r < M /\ m + r < M /\ m + r \in Nat /\ 2 * q + 1 \in Int
      BY <1>1, <1>9
    <3>3. (M * q + r) % M = r
      <4>1. M \in Nat /\ M > 0 /\ q \in Int /\ r < M
        BY <2>6, <3>2
      <4> QED BY <4>1, ModOnly
    <3>4. (M * q + (m + r)) % M = m + r
      <4>1. M \in Nat /\ M > 0 /\ q \in Int
        BY <2>6
      <4> QED BY <3>2, <4>1, ModOnly
    <3>5. (m * (2 * q + 1) + r) % m = r
      BY <1>1, <1>9, <3>2, ModOnly
    <3> QED BY <3>1, <3>3, <3>4, <3>5
  <2>8. turned(q * M + m + r) = (v * (y % Modulus)) % Modulus
    <3>1. F!Twiddles(top)[r * t] = v
      BY <1>6, <1>9
    <3> QED BY <2>4, <2>7, <3>1 DEF turned
  <2> HIDE DEF x, y, v
  <2> DEFINE g == q * M + r
             h == q * M + m + r
  <2>9. after[g] = ((x % Modulus) + ((v * (y % Modulus)) % Modulus)) % Modulus
    <3>1. g % M < m /\ g \in 0 .. top - 1 /\ g + m = h
      BY <1>9, <2>5, <2>6, <2>7
    <3>2. a[g] = x % Modulus /\ turned(h) = (v * (y % Modulus)) % Modulus
      BY <2>4, <2>8
    <3> HIDE DEF g, h
    <3> QED BY <1>5, <3>1, <3>2
  <2>10. after[h] = ((x % Modulus) - ((v * (y % Modulus)) % Modulus)) % Modulus
    <3>1. ~(h % M < m) /\ h \in 0 .. top - 1 /\ h - m = g
      <4>1. ~(m + r < m)
        BY <1>1
      <4> QED BY <2>5, <2>6, <2>7, <4>1
    <3>2. a[g] = x % Modulus /\ turned(h) = (v * (y % Modulus)) % Modulus
      BY <2>4, <2>8
    <3> HIDE DEF g, h
    <3> QED BY <1>5, <3>1, <3>2
  <2>11. after[g] = Both(q, r) % Modulus
    <3>1. after[g] = (x + v * y) % Modulus
      BY <2>1, <2>3, <2>9, FftButterfly
    <3>2. V[t * r] = v
      BY <2>2 DEF v
    <3> QED BY <2>1, <3>1, <3>2
  <2>12. Ev(q, r + m) = x /\ Od(q, r + m) = y
    <3> DEFINE R == F!Reversed(q * M, k)
    <3>1. R \in Nat /\ R + t \in Nat
      <4>1. R \in Nat
        BY <1>8, <1>9
      <4> HIDE DEF R
      <4> QED BY <1>1, <4>1
    <3> HIDE DEF R
    <3>2. HalfWay(w, t, m)
      BY <1>3 DEF V, HalfWay
    <3>3. B \in [Nat -> Int] /\ w \in Nat /\ t \in Nat /\ m \in Nat
      BY <1>1, <1>2, <1>3
    <3>4. Terms(B, w, R, 2 * t, r + m) = Terms(B, w, R, 2 * t, r)
      <4>1. Periodic(B, w, R, t, r, m)
        BY <3>1, <3>2, <3>3, FftPeriod
      <4> QED BY <4>1 DEF Periodic
    <3> DEFINE R2 == R + t
    <3>5. Terms(B, w, R2, 2 * t, r + m) = Terms(B, w, R2, 2 * t, r)
      <4>1. R2 \in Nat
        BY <3>1
      <4> HIDE DEF R2
      <4>2. Periodic(B, w, R2, t, r, m)
        BY <3>2, <3>3, <4>1, FftPeriod
      <4> QED BY <4>2 DEF Periodic
    <3> QED BY <3>4, <3>5 DEF Ev, Od, Part, x, y, R
  <2>13. V[t * (r + m)] = (0 - v) % Modulus
    <3> DEFINE c == t * m
               e == r * t
    <3>1. c \in Nat /\ e \in Nat /\ t * (r + m) = e + c
      BY <1>1
    <3>2. F!Powers(w)[c] = Modulus - 1
      BY <1>3 DEF V
    <3> HIDE DEF c, e
    <3>3. Turns(w, c, e)
      BY <1>3, <3>1, <3>2, FftTurns DEF HalfTurn
    <3>4. V[e + c] = (0 - V[e]) % Modulus
      BY <3>3 DEF Turns, V
    <3>5. V[e] = v
      BY DEF v, e
    <3> QED BY <3>1, <3>4, <3>5
  <2>14. after[h] = Both(q, r + m) % Modulus
    <3>1. r + m \in Nat
      BY <1>1
    <3>2. Both(q, r + m) % Modulus = (Ev(q, r + m) + V[t * (r + m)] * Od(q, r + m)) % Modulus
      BY <1>8, <1>9, <3>1
    <3>3. after[h] = (x + ((0 - v) % Modulus) * y) % Modulus
      BY <2>1, <2>3, <2>10, FftButterfly
    <3> QED BY <2>12, <2>13, <3>2, <3>3
  <2> QED BY <2>11, <2>14
<1>10. ASSUME NEW q \in Nat, q < t, NEW r \in Nat, r < M PROVE after[q * M + r] = Both(q, r) % Modulus
  <2>1. CASE r < m
    BY <1>9, <1>10, <2>1
  <2>2. CASE m <= r
    <3> DEFINE u == r - m
    <3>1. u \in Nat /\ u < m /\ r = u + m
      BY <1>1, <1>10, <2>2
    <3> HIDE DEF u
    <3>2. after[q * M + m + u] = Both(q, u + m) % Modulus
      BY <1>9, <1>10, <3>1
    <3>3. q * M + m + u = q * M + r
      <4>1. q * M \in Nat
        BY <1>1
      <4> QED BY <1>1, <3>1, <4>1
    <3> QED BY <3>1, <3>2, <3>3
  <2> QED BY <1>1, <2>1, <2>2
<1>11. ASSUME NEW q, NEW r PROVE Both(q, r) = Due(b, k, s + 1, q, r)
  BY <1>0, <1>1 DEF Due, Both, B, w, top, t, m, M
<1>12. ASSUME NEW i \in 0 .. top - 1 PROVE after[i] \in Nat
  <2> DEFINE q == i \div M
             r == i % M
  <2>1. i \in Nat /\ M \in Nat /\ M > 0 /\ i < t * M
    BY <1>1
  <2>2. q \in Nat /\ r \in Nat /\ r < M /\ i = M * q + r
    BY <2>1
  <2> HIDE DEF q, r
  <2>3. q < t
    <3>1. CASE t <= q
      <4> DEFINE d == q - t
      <4>1. d \in Nat /\ q = t + d
        BY <1>1, <2>2, <3>1
      <4> HIDE DEF d
      <4> DEFINE e == t * M
                 f == M * d
      <4>2. i = e + f + r /\ e \in Nat /\ f \in Nat
        BY <1>1, <2>1, <2>2, <4>1
      <4>3. i < e
        BY <2>1
      <4> HIDE DEF e, f
      <4>4. FALSE
        BY <2>2, <4>2, <4>3
      <4> QED BY <4>4
    <3> QED BY <1>1, <2>2, <3>1
  <2>4. i = q * M + r
    BY <2>1, <2>2
  <2>5. Both(q, r) \in Int
    <3> DEFINE R == F!Reversed(q * M, k)
    <3>1. R \in Nat
      BY <1>8, <2>2, <2>3
    <3> HIDE DEF R
    <3>2. PartAdds(B, w, R, t, r)
      BY <1>1, <1>2, <1>3, <2>2, <3>1, FftTerms
    <3>3. 2 * m \in Nat
      BY <1>1
    <3> QED BY <3>2, <3>3 DEF PartAdds, Both, R
  <2>6. after[i] = Both(q, r) % Modulus
    BY <1>10, <2>2, <2>3, <2>4
  <2> QED BY <2>5, <2>6, ModIs
<1>13. after \in [F!Indexes(top) -> Nat]
  BY <1>1, <1>5, <1>12
<1>14. \A q, r \in Nat : q < F!Pow2[k - (s + 1)] /\ r < F!Pow2[s + 1]
                           => after[q * F!Pow2[s + 1] + r] = Due(b, k, s + 1, q, r) % Modulus
  BY <1>0, <1>10, <1>11 DEF t, M
<1> QED BY <1>13, <1>14 DEF HoldsParts, after, M, top

\* The stages, one after the other.
LEMMA FftStagesExist ==
  ASSUME NEW b, NEW k \in Nat
  PROVE  \E f : f = [s \in 0 .. k |-> IF s = 0 THEN F!Permuted(b, F!Pow2[k])
                                      ELSE F!Stage(f[s - 1], F!Pow2[s], F!Pow2[k])]
<1> DEFINE first == F!Permuted(b, F!Pow2[k])
           next(s, a) == F!Stage(a, F!Pow2[s], F!Pow2[k])
           Up(n, f) == f = [s \in 0 .. n |-> IF s = 0 THEN first ELSE next(s, f[s - 1])]
           T == {n \in Nat : \E f : Up(n, f)}
<1> SUFFICES \E f : Up(k, f)
  OBVIOUS
<1> HIDE DEF first, next
<1>1. 0 \in T
  <2>1. Up(0, [s \in 0 .. 0 |-> first])
    OBVIOUS
  <2> QED BY <2>1
<1>2. ASSUME NEW n \in 0 .. k, n # k, n \in T PROVE n + 1 \in T
  <2>1. PICK f : Up(n, f)
    BY <1>2
  <2> DEFINE more == [s \in 0 .. n + 1 |-> IF s <= n THEN f[s] ELSE next(s, f[n])]
  <2>2. ASSUME NEW s \in 0 .. n + 1
        PROVE  more[s] = IF s = 0 THEN first ELSE next(s, more[s - 1])
    <3>1. CASE s = 0
      BY <2>1, <3>1
    <3>2. CASE s # 0 /\ s <= n
      <4>1. s \in 0 .. n /\ s - 1 \in 0 .. n /\ s - 1 \in 0 .. n + 1
        BY <3>2
      <4>2. f[s] = next(s, f[s - 1])
        BY <2>1, <3>2, <4>1
      <4>3. more[s] = f[s] /\ more[s - 1] = f[s - 1]
        BY <4>1
      <4> QED BY <3>2, <4>2, <4>3
    <3>3. CASE s = n + 1
      BY <3>3
    <3> QED BY <3>1, <3>2, <3>3
  <2>3. Up(n + 1, more)
    BY <2>2
  <2> HIDE DEF Up, more
  <2> QED BY <1>2, <2>3
<1>3. k \in T
  <2> HIDE DEF T
  <2>1. \A n \in 0 .. k : n \in T
    BY <1>1, <1>2, Climb
  <2> QED BY <2>1
<1> QED BY <1>3

LEMMA FftProcess ==
  ASSUME NEW b, NEW k, Samples(b, k)
  PROVE  HoldsParts(b, k, k, F!Process(b, F!Pow2[k]))
<1>0. k \in Nat
  BY DEF Samples
<1> DEFINE top == F!Pow2[k]
           Is(f) == f = [s \in 0 .. k |-> IF s = 0 THEN F!Permuted(b, top) ELSE F!Stage(f[s - 1], F!Pow2[s], top)]
           after == CHOOSE f : Is(f)
           T == {s \in 0 .. k : HoldsParts(b, k, s, after[s])}
<1>1. Is(after)
  <2>1. \E f : Is(f)
    BY <1>0, FftStagesExist
  <2> HIDE DEF Is
  <2> QED BY <2>1
<1>2. F!Process(b, top) = after[k]
  BY <1>0, FftBits DEF F!Process
<1> HIDE DEF after, top
<1>3. 0 \in T
  <2>1. after[0] = F!Permuted(b, top)
    BY <1>0, <1>1
  <2>2. HoldsParts(b, k, 0, F!Permuted(b, top))
    BY FftStarts DEF top
  <2> QED BY <1>0, <2>1, <2>2
<1>4. ASSUME NEW s \in 0 .. k, s # k, s \in T PROVE s + 1 \in T
  <2>1. s \in Nat /\ s + 1 \in 0 .. k /\ s + 1 # 0 /\ (s + 1) - 1 = s /\ s + 1 <= k
    <3> HIDE DEF T
    <3> QED BY <1>0, <1>4
  <2>2. after[s + 1] = F!Stage(after[s], F!Pow2[s + 1], top)
    BY <1>1, <2>1
  <2>3. HoldsParts(b, k, s, after[s])
    BY <1>4
  <2>4. HoldsParts(b, k, s + 1, F!Stage(after[s], F!Pow2[s + 1], top))
    BY <2>1, <2>3, FftStage DEF top
  <2> QED BY <2>1, <2>2, <2>4
<1>5. k \in T
  <2> HIDE DEF T
  <2>1. \A s \in 0 .. k : s \in T
    BY <1>0, <1>3, <1>4, Climb
  <2> QED BY <1>0, <2>1
<1> QED BY <1>2, <1>5 DEF top

\* What FftContext::process leaves in the buffer is the transform by its definition, for
\* every size up to the largest and every buffer: the bit reversal, the scaling of the
\* twiddles' index and the pairing of the entries fit together at every stage.
THEOREM FftIsExact ==
  ASSUME NEW b, NEW k, Samples(b, k)
  PROVE  F!FftIsDft(b, F!Pow2[k])
<1>0. k \in Nat /\ F!Pow2[k] <= MaxSize
  BY DEF Samples
<1> DEFINE top == F!Pow2[k]
           B == Extended(b, top)
           w == F!Unit(top)
           a == F!Process(b, top)
<1>1. top \in Nat /\ top > 0 /\ F!Indexes(top) = 0 .. top - 1
  BY <1>0, FftPow2 DEF F!Indexes
<1>2. B \in [Nat -> Int] /\ \A j \in 0 .. top - 1 : B[j] = b[j]
  <2>1. B \in [Nat -> Int] /\ \A j \in F!Indexes(top) : B[j] = b[j]
    BY FftExtended
  <2> HIDE DEF B, top
  <2> QED BY <1>1, <2>1
<1>3. w \in Nat
  BY <1>0, FftUnit
<1>4. HoldsParts(b, k, k, a)
  BY FftProcess
<1>5. a \in [0 .. top - 1 -> Nat]
  BY <1>1, <1>4 DEF HoldsParts
<1>6. ASSUME NEW r \in 0 .. top - 1
      PROVE  a[r] = F!Sum([j \in F!Indexes(top) |-> b[j] * F!Powers(w)[j * r]], top) % Modulus
  <2>1. r \in Nat /\ r < top
    <3> HIDE DEF top
    <3> QED BY <1>1
  <2>2. k - k = 0 /\ F!Pow2[0] = 1 /\ 0 < 1 /\ 0 \in Nat /\ 0 * top = 0 /\ 0 + r = r
    BY SMTT(30), <1>0, <1>1, <2>1, FftPow2
  <2>3. a[0 * top + r] = Due(b, k, k, 0, r) % Modulus
    BY <1>4, <2>1, <2>2 DEF HoldsParts
  <2>4. Due(b, k, k, 0, r) = Part(B, w, 0, 1, r, top)
    <3>1. F!Reversed(0, k) = 0
      BY <1>0, FftReversedZero
    <3> QED BY <2>2, <3>1 DEF Due
  <2> DEFINE f == Terms(B, w, 0, 1, r)
             h == [j \in F!Indexes(top) |-> b[j] * F!Powers(w)[j * r]]
  <2> HIDE DEF B, w, top
  <2>5. f \in [Nat -> Int]
    BY <1>2, <1>3, <2>1, FftTerms
  <2>6. ASSUME NEW j \in 0 .. top - 1 PROVE h[j] = f[j]
    <3>1. j \in Nat /\ 0 + 1 * j = j /\ 1 * j * r = j * r
      BY <2>1
    <3>2. f[j] = B[0 + 1 * j] * F!Powers(w)[1 * j * r]
      BY <3>1 DEF Terms
    <3>3. h[j] = b[j] * F!Powers(w)[j * r]
      BY <1>1
    <3> HIDE DEF f, h
    <3> QED BY <1>2, <3>1, <3>2, <3>3
  <2> HIDE DEF f, h
  <2>7. F!Sum(h, top) = Sums(f)[top]
    BY <1>1, <2>5, <2>6, FftSumIs
  <2> QED BY <2>2, <2>3, <2>4, <2>7 DEF Part, f, h
<1>7. F!Dft(b, top) = [r \in 0 .. top - 1 |-> F!Sum([j \in F!Indexes(top) |-> b[j] * F!Powers(w)[j * r]], top) % Modulus]
  BY <1>1 DEF F!Dft
<1> HIDE DEF a, top, B, w
<1>8. a = F!Dft(b, top)
  BY <1>5, <1>6, <1>7
<1> QED BY <1>8 DEF F!FftIsDft, a, top

--------------------------------------------------------------------------------
(* What MCLibraries gives the libraries is what their theorems are about. *)

RowOf(p, first, up, down, last) ==
  p = [i \in 1 .. 18 |-> IF i = 1 THEN first ELSE IF i = 17 THEN last
                         ELSE L!Clamp(p[i - 1] + (IF i % 3 = 0 THEN down ELSE up), 0, L!MaxValue)]

LEMMA RowsExist == ASSUME NEW first, NEW up, NEW down, NEW last PROVE \E p : RowOf(p, first, up, down, last)
<1> DEFINE next(x, i) == IF i = 17 THEN last
                         ELSE L!Clamp(x + (IF i % 3 = 0 THEN down ELSE up), 0, L!MaxValue)
           Up(n, f) == f = [i \in 1 .. n |-> IF i = 1 THEN first ELSE next(f[i - 1], i)]
           S == {n \in Nat : \E f : Up(n, f)}
<1>1. 0 \in S
  <2>1. Up(0, << >>)
    OBVIOUS
  <2> QED BY <2>1
<1>2. ASSUME NEW n \in 0 .. 18, n # 18, n \in S PROVE n + 1 \in S
  <2>1. PICK f : Up(n, f)
    BY <1>2
  <2> DEFINE more == [i \in 1 .. n + 1 |-> IF i <= n THEN f[i] ELSE IF i = 1 THEN first ELSE next(f[n], i)]
  <2> HIDE DEF next
  <2>2. ASSUME NEW i \in 1 .. n + 1
        PROVE  more[i] = IF i = 1 THEN first ELSE next(more[i - 1], i)
    <3>1. CASE i <= n
      <4>1. i \in 1 .. n /\ more[i] = f[i]
        BY <3>1
      <4>2. f[i] = IF i = 1 THEN first ELSE next(f[i - 1], i)
        BY <2>1, <4>1
      <4>3. i # 1 => more[i - 1] = f[i - 1]
        BY <4>1
      <4> QED BY <4>1, <4>2, <4>3
    <3>2. CASE i = n + 1
      <4>1. more[i] = IF i = 1 THEN first ELSE next(f[n], i)
        BY <3>2
      <4>2. i # 1 => i - 1 = n /\ n \in 1 .. n + 1 /\ n <= n
        BY <3>2
      <4>3. i # 1 => more[i - 1] = f[n]
        BY <4>2
      <4> QED BY <4>1, <4>3
    <3> QED BY <3>1, <3>2
  <2>3. Up(n + 1, more)
    BY <2>2
  <2> HIDE DEF Up, more
  <2> QED BY <1>2, <2>3
<1>3. 18 \in Nat /\ 18 \in 0 .. 18
  OBVIOUS
<1>4. \A n \in 0 .. 18 : n \in S
  <2> HIDE DEF S
  <2> QED BY <1>1, <1>2, <1>3, Climb
<1>5. PICK p : Up(18, p)
  BY <1>3, <1>4
<1> QED BY <1>5 DEF RowOf

RowNext(x, i, up, down) == L!Clamp(x + (IF i % 3 = 0 THEN down ELSE up), 0, L!MaxValue)

RowSteps(first, last, up, down) ==
  first \in Bases /\ last \in Bases /\ up \in Ups /\ down \in Downs

LEMMA RowStep ==
  ASSUME NEW x \in Nat, x <= 16383, NEW i, NEW first, NEW last, NEW up, NEW down,
         RowSteps(first, last, up, down)
  PROVE  /\ RowNext(x, i, up, down) \in Nat /\ RowNext(x, i, up, down) <= 16383
         /\ -64 <= RowNext(x, i, up, down) - x /\ RowNext(x, i, up, down) - x <= 63
<1> DEFINE step == IF i % 3 = 0 THEN down ELSE up
<1>1. step \in {-64, -1, 0, 1, 63}
  BY DEF RowSteps, Ups, Downs
<1>2. RowNext(x, i, up, down) = L!Clamp(x + step, 0, L!MaxValue)
  BY DEF RowNext
<1> HIDE DEF step
<1> QED BY <1>1, <1>2 DEF L!Clamp, L!MaxValue

\* The rows the format can express.
LEMMA RowIsEncodable ==
  ASSUME NEW first, NEW last, NEW up, NEW down, RowSteps(first, last, up, down),
         NEW length \in Nat, length <= 18
  PROVE  LuxRow(SubSeq(Row(first, up, down, last), 1, length))
<1> DEFINE p == CHOOSE f : RowOf(f, first, up, down, last)
           row == [i \in 1 .. 18 |-> p[i]]
           v == SubSeq(row, 1, length)
<1>1. Row(first, up, down, last) = row
  BY DEF Row, RowOf
<1>2. RowOf(p, first, up, down, last)
  BY RowsExist
<1> HIDE DEF p
<1>3. /\ p[1] = first /\ p[17] = last
      /\ \A i \in 2 .. 18 : i # 17 => p[i] = RowNext(p[i - 1], i, up, down)
  BY <1>2 DEF RowOf, RowNext
<1> DEFINE S == {n \in 0 .. 18 : \A i \in 1 .. n : p[i] \in Nat /\ p[i] <= 16383}
<1>5. 0 \in S
  OBVIOUS
<1>6. ASSUME NEW n \in 0 .. 18, n # 18, n \in S PROVE n + 1 \in S
  <2>1. p[n + 1] \in Nat /\ p[n + 1] <= 16383
    <3>0. first \in Nat /\ first <= 16383 /\ last \in Nat /\ last <= 16383
      BY DEF RowSteps, Bases
    <3>1. CASE n + 1 = 1
      BY <1>3, <3>0, <3>1
    <3>2. CASE n + 1 = 17
      BY <1>3, <3>0, <3>2
    <3>3. CASE n + 1 # 1 /\ n + 1 # 17
      <4>1. n + 1 \in 2 .. 18 /\ n + 1 \in 1 .. 18 /\ (n + 1) - 1 = n /\ n \in 1 .. n
        BY <1>6, <3>3
      <4>2. p[n] \in Nat /\ p[n] <= 16383
        BY <1>6, <4>1
      <4>3. p[n + 1] = RowNext(p[n], n + 1, up, down)
        BY <1>3, <3>3, <4>1
      <4>4. RowNext(p[n], n + 1, up, down) \in Nat /\ RowNext(p[n], n + 1, up, down) <= 16383
        BY <4>1, <4>2, RowStep
      <4> QED BY <4>3, <4>4
    <3> QED BY <3>1, <3>2, <3>3
  <2>2. ASSUME NEW i \in 1 .. n + 1 PROVE p[i] \in Nat /\ p[i] <= 16383
    <3>1. i \in 1 .. n \/ i = n + 1
      BY <1>6
    <3> QED BY <1>6, <2>1, <3>1
  <2> QED BY <1>6, <2>2
<1>7. \A n \in 0 .. 18 : n \in S
  <2>1. 18 \in Nat
    OBVIOUS
  <2> HIDE DEF S
  <2> QED BY <1>5, <1>6, <2>1, Climb
<1>8. \A i \in 1 .. 18 : p[i] \in Nat /\ p[i] <= 16383
  <2>1. 18 \in S
    BY <1>7
  <2> QED BY <2>1
<1> HIDE DEF S
<1>9. v \in Seq(Nat) /\ Len(v) = length /\ \A i \in 1 .. length : v[i] = p[i]
  <2>1. \A i \in 1 .. length : row[i] \in Nat
    BY <1>8
  <2>2. /\ v \in Seq(Nat) /\ Len(v) = (IF 1 <= length THEN length - 1 + 1 ELSE 0)
        /\ \A i \in 1 .. length - 1 + 1 : v[i] = row[1 + i - 1]
    BY <2>1, SubSeqProperties
  <2> HIDE DEF v, row
  <2>3. Len(v) = length /\ length - 1 + 1 = length
    BY <2>2
  <2>4. \A i \in 1 .. length : 1 + i - 1 = i /\ i \in 1 .. 18
    OBVIOUS
  <2>5. \A i \in 1 .. length : v[i] = row[i]
    BY <2>2, <2>3, <2>4
  <2>6. \A i \in 1 .. 18 : row[i] = p[i]
    BY DEF row
  <2> QED BY <2>2, <2>3, <2>4, <2>5, <2>6
<1> HIDE DEF v, row
<1>10. DOMAIN v = 1 .. length
  BY <1>9
<1>11. \A i \in DOMAIN v : v[i] <= 16383
  <2> TAKE i \in DOMAIN v
  <2>1. i \in 1 .. length
    BY <1>10
  <2>2. v[i] = p[i]
    BY <1>9, <2>1
  <2>3. i \in 1 .. 18
    BY <2>1
  <2> QED BY <1>8, <2>2, <2>3
<1>12. ASSUME NEW i \in DOMAIN v
       PROVE  IF i % 16 = 1 THEN v[i] % 2 = 0 /\ v[i] <= 4094
              ELSE -64 <= v[i] - v[i - 1] /\ v[i] - v[i - 1] <= 63
  <2>1. i \in 1 .. length /\ i \in 1 .. 18
    BY <1>10
  <2>2. v[i] = p[i]
    BY <1>9, <2>1
  <2>3. CASE i = 1 \/ i = 17
    <3>1. v[i] % 2 = 0 /\ v[i] <= 4094
      BY <1>3, <2>2, <2>3 DEF RowSteps, Bases
    <3>2. i % 16 = 1
      BY <2>3
    <3> QED BY <3>1, <3>2
  <2>4. CASE i # 1 /\ i # 17
    <3>1. i % 16 # 1 /\ i \in 2 .. 18 /\ i - 1 \in 1 .. length /\ i - 1 \in 1 .. 18
      BY <2>1, <2>4
    <3>2. v[i - 1] = p[i - 1]
      BY <1>9, <3>1
    <3>3. p[i - 1] \in Nat /\ p[i - 1] <= 16383
      BY <1>8, <3>1
    <3>4. p[i] = RowNext(p[i - 1], i, up, down)
      BY <1>3, <2>4, <3>1
    <3>5. -64 <= RowNext(p[i - 1], i, up, down) - p[i - 1] /\ RowNext(p[i - 1], i, up, down) - p[i - 1] <= 63
      BY <2>1, <3>3, RowStep
    <3>6. -64 <= p[i] - p[i - 1] /\ p[i] - p[i - 1] <= 63
      BY <3>4, <3>5
    <3> QED BY <2>2, <3>1, <3>2, <3>6
  <2> QED BY <2>3, <2>4
<1>13. LuxRow(v)
  BY <1>9, <1>11, <1>12 DEF LuxRow
<1> QED BY <1>1, <1>13 DEF v

LibraryInv ==
  /\ part = "rotations" => input.q \in E!Quats(Int) /\ input.r \in E!Quats(Int)
  /\ part = "cameras" => /\ input.eye \in E!Vec3s(Int) /\ input.center \in E!Vec3s(Int)
                         /\ input.up \in E!Vec3s(Int)
  /\ part = "projections" => input[1] \in Int /\ input[2] \in Int
  /\ part = "buffers" => \E k \in Nat : input.size = F!Pow2[k] /\ Samples(input.b, k)
  /\ part = "directory" => input \in LuxDirectory
  /\ part = "files" => LuxFile(input.dirs) /\ input.size \in Nat
  /\ part = "rows" => LuxRow(input)
  /\ part = "pictures" => /\ input.colour \in [1 .. 3 -> Int]
                          /\ input.width \in Nat /\ input.height \in Nat
  /\ part = "questions" => input.len \in Nat
  /\ part = "headers" => NetHeader(input)
  /\ part = "machines" => PciMachine(input)

LEMMA LibraryRotations == Rotations => LibraryInv'
<1> SUFFICES ASSUME Rotations PROVE LibraryInv'
  OBVIOUS
<1>1. PICK q \in E!Quats(Small), r \in E!Quats(Small) : input' = [q |-> q, r |-> r]
  BY DEF Rotations
<1>2. q \in E!Quats(Int) /\ r \in E!Quats(Int)
  BY DEF E!Quats, E!Vec4s, Small
<1>3. part' = "rotations" /\ input'.q \in E!Quats(Int) /\ input'.r \in E!Quats(Int)
  BY <1>1, <1>2 DEF Rotations
<1> QED BY <1>3 DEF LibraryInv

LEMMA LibraryCameras == Cameras => LibraryInv'
<1> SUFFICES ASSUME Cameras PROVE LibraryInv'
  OBVIOUS
<1>1. PICK eye \in E!Vec3s({-1, 0, 2}), f \in Directions, up \in Axes :
        input' = [eye |-> eye, center |-> E!Add(eye, f), up |-> up]
  BY DEF Cameras
<1>2. eye \in E!Vec3s(Int)
  BY DEF E!Vec3s
<1>3. up \in E!Vec3s(Int)
  BY DEF E!Vec3s, Axes
<1>4. f[1] \in Int /\ f[2] \in Int /\ f[3] \in Int
  BY DEF Directions
<1>5. E!Add(eye, f) \in E!Vec3s(Int)
  <2>1. DOMAIN eye = 1 .. 3 /\ \A i \in 1 .. 3 : eye[i] \in Int
    BY <1>2 DEF E!Vec3s
  <2>2. \A i \in 1 .. 3 : i = 1 \/ i = 2 \/ i = 3
    OBVIOUS
  <2>3. \A i \in 1 .. 3 : f[i] \in Int
    BY <1>4, <2>2
  <2>4. \A i \in 1 .. 3 : eye[i] + f[i] \in Int
    BY <2>1, <2>3
  <2> QED BY <2>1, <2>4 DEF E!Vec3s, E!Add
<1>6. /\ part' = "cameras" /\ input'.eye \in E!Vec3s(Int) /\ input'.center \in E!Vec3s(Int)
      /\ input'.up \in E!Vec3s(Int)
  BY <1>1, <1>2, <1>3, <1>5 DEF Cameras
<1> QED BY <1>6 DEF LibraryInv

LEMMA LibraryProjections == Projections => LibraryInv'
<1> SUFFICES ASSUME Projections PROVE LibraryInv'
  OBVIOUS
<1>1. PICK near \in 1 .. 5, far \in 2 .. 9 : input' = <<near, far>>
  BY DEF Projections
<1>2. part' = "projections" /\ input'[1] \in Int /\ input'[2] \in Int
  BY <1>1 DEF Projections
<1> QED BY <1>2 DEF LibraryInv

LEMMA LibraryBuffers == Buffers => LibraryInv'
<1> SUFFICES ASSUME Buffers PROVE LibraryInv'
  OBVIOUS
<1>1. PICK k \in 0 .. 3 : /\ F!Pow2[k] <= MaxSize
                          /\ \E b \in [F!Indexes(F!Pow2[k]) -> Entries(k)] : input' = [size |-> F!Pow2[k], b |-> b]
  BY DEF Buffers
<1>2. PICK b \in [F!Indexes(F!Pow2[k]) -> Entries(k)] : input' = [size |-> F!Pow2[k], b |-> b]
  BY <1>1
<1>3. k \in Nat /\ Entries(k) \subseteq 0 .. Modulus - 1
  BY DEF Entries
<1>4. Samples(b, k)
  BY <1>1, <1>3 DEF Samples
<1>5. part' = "buffers" /\ input'.size = F!Pow2[k] /\ input'.b = b
  BY <1>2 DEF Buffers
<1> QED BY <1>3, <1>4, <1>5 DEF LibraryInv, Samples

LEMMA LibraryDirectories == Directories \subseteq LuxDirectory
<1> DEFINE T == LuxTag(Nat)
           Q == LuxTag(Seq(Nat))
<1>1. Widths \subseteq T /\ Heights \subseteq T /\ Compressions \subseteq T
  BY DEF LuxTag, Widths, Heights, Compressions
<1>2. Offsets \subseteq Q /\ Counts \subseteq Q
  <2>1. <<8>> \in Seq(Nat) /\ <<64>> \in Seq(Nat)
    OBVIOUS
  <2> QED BY <2>1 DEF LuxTag, Offsets, Counts
<1>3. <<16>> \in T /\ <<6>> \in T /\ << <<8>> >> \in Q /\ << <<64>> >> \in Q
  <2>1. <<8>> \in Seq(Nat) /\ <<64>> \in Seq(Nat)
    OBVIOUS
  <2> QED BY <2>1 DEF LuxTag
<1>4. LuxDirectory = [width : T, height : T, compression : T, offsets : Q, counts : Q,
                      next : Nat, truncated : BOOLEAN]
  BY DEF LuxDirectory
<1> HIDE DEF T, Q
<1>5. CutShort \in LuxDirectory
  BY <1>3, <1>4 DEF CutShort
<1>6. 0 .. 2 \subseteq Nat /\ {FALSE} \subseteq BOOLEAN
  OBVIOUS
<1>7. [width : Widths, height : Heights, compression : Compressions, offsets : Offsets,
       counts : Counts, next : 0 .. 2, truncated : {FALSE}] \subseteq LuxDirectory
  BY <1>1, <1>2, <1>4, <1>6
<1> QED BY <1>5, <1>7 DEF Directories

LEMMA LibraryFirst == FirstDirectory => LibraryInv'
  BY LibraryDirectories DEF FirstDirectory, LibraryInv

LEMMA LibraryFiles == LibraryInv /\ part = "directory" /\ Files => LibraryInv'
<1> SUFFICES ASSUME LibraryInv, part = "directory", Files PROVE LibraryInv'
  OBVIOUS
<1>1. PICK two \in Directories, bytes \in {70, 80} :
        input' = [dirs |-> <<input, two>>, size |-> bytes]
  BY DEF Files
<1>2. input \in LuxDirectory /\ two \in LuxDirectory
  BY LibraryDirectories DEF LibraryInv
<1>3. <<input, two>> \in Seq(LuxDirectory) /\ <<input, two>> # << >>
  BY <1>2
<1>4. part' = "files" /\ LuxFile(input'.dirs) /\ input'.size \in Nat
  BY <1>1, <1>3 DEF Files, LuxFile
<1> QED BY <1>4 DEF LibraryInv

LEMMA LibraryRows == Rows => LibraryInv'
<1> SUFFICES ASSUME Rows PROVE LibraryInv'
  OBVIOUS
<1>1. PICK first \in Bases, last \in Bases, up \in Ups, down \in Downs, length \in 0 .. 18 :
           input' = SubSeq(Row(first, up, down, last), 1, length)
  BY DEF Rows
<1>2. RowSteps(first, last, up, down) /\ length \in Nat /\ length <= 18
  BY DEF RowSteps
<1>3. LuxRow(SubSeq(Row(first, up, down, last), 1, length))
  BY <1>2, RowIsEncodable
<1>4. part' = "rows" /\ LuxRow(input')
  BY <1>1, <1>3 DEF Rows
<1> QED BY <1>4 DEF LibraryInv

LEMMA LibraryPictures == Pictures => LibraryInv'
<1> SUFFICES ASSUME Pictures PROVE LibraryInv'
  OBVIOUS
<1>1. PICK colour \in [1 .. 3 -> {0, 1, 5}], width \in 1 .. 5, height \in 1 .. 5 :
        input' = [colour |-> colour, width |-> width, height |-> height]
  BY DEF Pictures
<1>2. colour \in [1 .. 3 -> Int] /\ width \in Nat /\ height \in Nat
  OBVIOUS
<1>3. part' = "pictures" /\ input'.colour = colour /\ input'.width = width /\ input'.height = height
  BY <1>1 DEF Pictures
<1> QED BY <1>2, <1>3 DEF LibraryInv

LEMMA LibraryQuestions == Questions => LibraryInv'
<1> SUFFICES ASSUME Questions PROVE LibraryInv'
  OBVIOUS
<1>1. PICK p \in Packets : input' = p
  BY DEF Questions
<1>2. p.len \in Nat
  BY DEF Packets
<1>3. part' = "questions" /\ input' = p
  BY <1>1 DEF Questions
<1> QED BY <1>2, <1>3 DEF LibraryInv

LEMMA LibraryHeaders == Headers => LibraryInv'
<1> SUFFICES ASSUME Headers PROVE LibraryInv'
  OBVIOUS
<1>1. PICK a \in SampleWords, b \in SampleWords, c \in SampleWords, ihl \in {0, 1, 5, 6},
           len \in {19, 20, 24}, total \in {0, 10, 21, 40}, version \in {4, 6} :
        input' = [words |-> <<a, 0, b, 0, 0, 0, 0, 0, 0, c, 0, a>>, ihl |-> ihl, len |-> len,
                  total_length |-> total, version |-> version]
  BY DEF Headers
<1>2. a \in Word16 /\ b \in Word16 /\ c \in Word16 /\ 0 \in Word16
  BY DEF Word16, SampleWords
<1> DEFINE words == <<a, 0, b, 0, 0, 0, 0, 0, 0, c, 0, a>>
<1>3. words \in Seq(Word16) /\ Len(words) = 12
  BY <1>2
<1> HIDE DEF words
<1>4. ihl \in 0 .. 15 /\ 2 * ihl <= 12 /\ len \in Nat /\ total \in Nat
  OBVIOUS
<1>5. /\ part' = "headers" /\ input'.words = words /\ input'.ihl = ihl /\ input'.len = len
      /\ input'.total_length = total
  BY <1>1 DEF Headers, words
<1>6. NetHeader(input')
  BY <1>3, <1>4, <1>5, Zenon DEF NetHeader
<1> QED BY <1>5, <1>6 DEF LibraryInv

LEMMA LibraryFunctions ==
  ASSUME NEW b \in 0 .. 255, NEW d \in 0 .. 31, NEW f \in 0 .. 7, NEW multis, NEW x \in Functions(b, d, f, multis)
  PROVE  PciMachine(x)
  BY DEF Functions, PciMachine

LEMMA LibraryMachines == Machines => LibraryInv'
<1> SUFFICES ASSUME Machines PROVE LibraryInv'
  OBVIOUS
<1>1. PICK x \in Functions(0, 0, 0, BOOLEAN), y \in Functions(0, 0, 1, {FALSE}),
           z \in Functions(0, 1, 0, BOOLEAN), w \in Functions(1, 0, 1, {FALSE}),
           v \in Functions(1, 0, 0, {TRUE}) : input' = x \cup y \cup z \cup w \cup v
  BY DEF Machines
<1>2. PciMachine(x) /\ PciMachine(y) /\ PciMachine(z) /\ PciMachine(w) /\ PciMachine(v)
  <2>1. 0 \in 0 .. 255 /\ 1 \in 0 .. 255 /\ 0 \in 0 .. 31 /\ 1 \in 0 .. 31 /\ 0 \in 0 .. 7 /\ 1 \in 0 .. 7
    OBVIOUS
  <2> QED BY <2>1, LibraryFunctions
<1>3. PciMachine(x \cup y \cup z \cup w \cup v)
  BY <1>2 DEF PciMachine
<1>4. part' = "machines" /\ PciMachine(input')
  BY <1>1, <1>3 DEF Machines
<1> QED BY <1>4 DEF LibraryInv

LEMMA LibraryNextKeeps == LibraryInv /\ Next => LibraryInv'
  BY LibraryRotations, LibraryCameras, LibraryProjections, LibraryBuffers, LibraryFirst, LibraryFiles,
     LibraryRows, LibraryPictures, LibraryQuestions, LibraryHeaders, LibraryMachines DEF Next

LEMMA LibraryInvDecodes == LibraryInv => FirstRawIsDecoded /\ SamplesAreExact /\ PacketsAreExact /\ ScanFindsXhci
<1> SUFFICES ASSUME LibraryInv PROVE FirstRawIsDecoded /\ SamplesAreExact /\ PacketsAreExact /\ ScanFindsXhci
  OBVIOUS
<1>1. FirstRawIsDecoded
  BY LuxFirstRawIsDecoded DEF LibraryInv, FirstRawIsDecoded
<1>2. SamplesAreExact
  BY LuxArwRoundTrip, LuxDemosaicIsExact DEF LibraryInv, SamplesAreExact
<1>3. PacketsAreExact
  <2>1. part = "questions" => N!ArpConverses(input, 1, "a")
    BY NetArpConverses DEF LibraryInv
  <2>2. part = "headers" => N!ChecksumIsExact(input)
    BY NetChecksumIsExact DEF LibraryInv
  <2> QED BY <2>1, <2>2 DEF PacketsAreExact
<1>4. ScanFindsXhci
  BY PciScanFindsXhci DEF LibraryInv, ScanFindsXhci
<1> QED BY <1>1, <1>2, <1>3, <1>4

LEMMA LibraryInvReckons == LibraryInv => RotationsAreExact /\ CamerasAreExact /\ TransformIsExact
<1> SUFFICES ASSUME LibraryInv PROVE RotationsAreExact /\ CamerasAreExact /\ TransformIsExact
  OBVIOUS
<1>1. RotationsAreExact
  BY EuclaseRotationComposes, EuclaseRotationIsRigid DEF LibraryInv, RotationsAreExact
<1>2. CamerasAreExact
  BY EuclaseCameraLooks, EuclaseDepthRange DEF LibraryInv, CamerasAreExact
<1>3. TransformIsExact
  BY FftIsExact DEF LibraryInv, TransformIsExact
<1> QED BY <1>1, <1>2, <1>3

--------------------------------------------------------------------------------
(* The components beside each other, as MCParts runs them. *)

\* A step of the whole is a step of each part or leaves it alone.
LEMMA PartsSteps ==
  ASSUME [PartsNext]_parts
  PROVE  /\ [Api!Next]_(Api!vars) /\ [Console!Next]_(Console!vars)
         /\ [Field!Next]_(Field!vars) /\ [Spine!Next]_(Spine!vars)
         /\ [Amber!Next]_(Amber!vars) /\ [Audio!Next]_(Audio!vars)
<1> USE DEF Api!vars, Console!vars, Field!vars, Spine!vars, Amber!vars, Audio!vars, apiVars,
            consoleVars, fieldVars, spineVars, amberVars, audioVars
<1>1. CASE LibraryStep
  BY <1>1 DEF LibraryStep
<1>2. CASE AudioStep
  BY <1>2 DEF AudioStep
<1>3. CASE AmberStep
  BY <1>3 DEF AmberStep
<1>4. CASE ConsoleStep
  BY <1>4 DEF ConsoleStep
<1>5. CASE part = "api" /\ Api!Next /\ ApiOnly
  BY <1>5 DEF ApiOnly
<1>6. CASE part = "field" /\ Field!Next /\ FieldOnly
  BY <1>6 DEF FieldOnly
<1>7. CASE part = "spine" /\ Spine!Next /\ SpineOnly
  BY <1>7 DEF SpineOnly
<1>8. CASE UNCHANGED parts
  BY <1>8 DEF parts
<1> QED BY <1>1, <1>2, <1>3, <1>4, <1>5, <1>6, <1>7, <1>8 DEF PartsNext

LEMMA PartsInits ==
  ASSUME PartsInit
  PROVE  Api!Init /\ Console!Init /\ Field!Init /\ Spine!Init /\ Amber!Init /\ Audio!Init
  BY DEF PartsInit, AmberRests

\* A request of the API is given up as unauthorized only with a token fetched for it,
\* whatever else goes on (api/mod.rs).
THEOREM PartsRefreshIsExact == ASSUME ApiBounds PROVE PartsSpec => []RefreshIsExact
<1>1. PartsInit => ApiInv
  BY PartsInits, ApiInitInv
<1>2. ApiInv /\ [PartsNext]_parts => ApiInv'
  BY PartsSteps, ApiStepKeeps
<1>3. ApiInv => RefreshIsExact
  BY DEF ApiInv, ApiSettled, RefreshIsExact, Api!RefreshIsExact
<1> QED BY <1>1, <1>2, <1>3, PTL DEF PartsSpec

\* What the user does in a row reaches the item it shows, and what was sent does not
\* come back as a draft (spline.rs).
THEOREM PartsInputIsKept ==
  ASSUME ConsoleBounds, FieldBounds PROVE PartsSpec => []InputIsKept
<1>1. PartsInit => ConsoleInv /\ FieldInv
  BY PartsInits, ConsoleInitInv, FieldInitInv
<1>2. ConsoleInv /\ FieldInv /\ [PartsNext]_parts => (ConsoleInv /\ FieldInv)'
  BY PartsSteps, ConsoleStepKeeps, FieldStepKeeps
<1>3. ConsoleInv /\ FieldInv => InputIsKept
  BY DEF ConsoleInv, ConsoleTyped, FieldInv, InputIsKept
<1> QED BY <1>1, <1>2, <1>3, PTL DEF PartsSpec

\* The core imprints what it heard, once and in the order of the bus (core.rs,
\* synapse.rs).
THEOREM PartsImprintsInOrder == ASSUME SpineBounds PROVE PartsSpec => []ImprintsInOrder
<1>1. PartsInit => SpineInv
  BY PartsInits, SpineInitInv
<1>2. SpineInv /\ [PartsNext]_parts => SpineInv'
  BY PartsSteps, SpineStepKeeps
<1>3. SpineInv => ImprintsInOrder
  BY DEF SpineInv, ImprintsInOrder
<1> QED BY <1>1, <1>2, <1>3, PTL DEF PartsSpec

\* What a command on a device reports is what it did, and its files hold no bytes but
\* those read, wiped or written by somebody (amber_bytes/main.rs).
THEOREM PartsReportsAreTrue ==
  ASSUME AmberBounds, AmberFilesFit PROVE PartsSpec => []ReportsAreTrue
<1>1. PartsInit => AmberInv /\ AmberFits
  BY PartsInits, AmberInitInv, AmberInitFits
<1>2. AmberInv /\ AmberFits /\ [PartsNext]_parts => (AmberInv /\ AmberFits)'
  BY PartsSteps, AmberStepKeeps, AmberStepFits
<1>3. AmberInv /\ AmberFits => ReportsAreTrue
  BY AmberInvReports, AmberFitsType DEF ReportsAreTrue
<1> QED BY <1>1, <1>2, <1>3, PTL DEF PartsSpec

\* Whatever else goes on, the card is given the patch sample by sample (graph.rs,
\* audio.rs).
THEOREM PartsPlaysThePatch == ASSUME AudioBounds PROVE PartsSpec => []PlaysThePatch
<1>1. PartsInit => AudioInv
  BY PartsInits, AudioInitInv
<1>2. AudioInv /\ [PartsNext]_parts => AudioInv'
  BY PartsSteps, AudioStepKeeps
<1>3. AudioInv => PlaysThePatch
  BY AudioInvPlays DEF PlaysThePatch
<1> QED BY <1>1, <1>2, <1>3, PTL DEF PartsSpec

\* The initial input is none of a library, and only the library's steps change it.
LEMMA PartsInitLibrary == PartsInit => LibraryInv
  BY DEF PartsInit, LibraryInv

LEMMA PartsStepLibrary == LibraryInv /\ [PartsNext]_parts => LibraryInv'
<1> SUFFICES ASSUME LibraryInv, [PartsNext]_parts PROVE LibraryInv'
  OBVIOUS
<1>1. Next => LibraryInv'
  BY LibraryNextKeeps
<1>2. Next \/ UNCHANGED <<part, input>>
  BY DEF PartsNext, LibraryStep, AudioStep, AmberStep, ConsoleStep, ApiOnly, FieldOnly, SpineOnly,
         libraryVars, parts
<1>3. ASSUME UNCHANGED <<part, input>> PROVE LibraryInv'
  BY <1>3 DEF LibraryInv
<1> QED BY <1>1, <1>2, <1>3

\* Whatever is read from outside, the raw image decoded is the first one, compressed
\* samples and colours come back, an ARP request gets its one answer, a checksum is the
\* RFC's, and the controller is found (parser.rs, arp.rs, ipv4.rs, pci.rs).
THEOREM PartsInputsAreDecoded == PartsSpec => []InputsAreDecoded
<1>1. LibraryInv => InputsAreDecoded
  BY LibraryInvDecodes DEF InputsAreDecoded
<1> QED BY PartsInitLibrary, PartsStepLibrary, <1>1, PTL DEF PartsSpec

\* Rotations compose and are rigid, cameras look where they should, depth has its range,
\* and the in-place transform is the transform (quat.rs, mat4.rs, dsp.rs).
THEOREM PartsArithmeticIsExact == PartsSpec => []ArithmeticIsExact
<1>1. LibraryInv => ArithmeticIsExact
  BY LibraryInvReckons DEF ArithmeticIsExact
<1> QED BY PartsInitLibrary, PartsStepLibrary, <1>1, PTL DEF PartsSpec
================================================================================
