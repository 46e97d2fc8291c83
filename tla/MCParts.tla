--------------------------------- MODULE MCParts --------------------------------
\* Components that share no state, for TLC: each behaviour runs one of them, the
\* others standing still, so that the state space is the sum of theirs.
EXTENDS MCLibraries

CONSTANTS
  Kinds, MAX_INPUTS, BLOCK_SIZE, RingSize, MaxNodes, MaxWires, MaxFrames, MaxSent,
  Data, Chunk, Blocks, MaxPasses, MaxWrites, MaxLen,
  Clients, MaxIssued, MaxCalls,
  Stagings, Others, RowWidgets, MaxTyped, MaxTexts, MaxStarts,
  CHANNEL, MaxFired

VARIABLES
  nodes, connections, outputs, playing, current_block, block_offset, ring, speaker, wires, pushed,
  source, dest, same, device, cmd, pc, pos, size, hasher, pending, buffer, pass, others,
  issued, granted, token, callers, attempts, result, latest, calls,
  text, locked, shown, fields, changed, clicked, editable, typed, edits, dispatched,
  draft, pending_save, timers, file, messages, texts, started, made,
  fired, core, cursor, subscribed, skipped, imprints

Audio == INSTANCE Resonance
Amber == INSTANCE AmberBytes
Api == INSTANCE ApiClient WITH pc <- callers
Console == INSTANCE StagingRows WITH Rows <- RowWidgets, buffer <- fields, sent <- dispatched
Field == INSTANCE Draft WITH input <- draft, sent <- messages
Spine == INSTANCE Bus WITH sent <- fired, MaxSent <- MaxFired

audioVars == <<nodes, connections, outputs, playing, current_block, block_offset, ring, speaker,
               wires, pushed>>
amberVars == <<source, dest, same, device, cmd, pc, pos, size, hasher, pending, buffer, pass,
               others>>
apiVars == <<issued, granted, token, callers, attempts, result, latest, calls>>
consoleVars == <<text, locked, shown, fields, changed, clicked, editable, typed, edits, dispatched>>
fieldVars == <<draft, pending_save, timers, file, messages, texts, started, made>>
spineVars == <<fired, core, cursor, subscribed, skipped, imprints>>
libraryVars == <<input>>
parts == <<part, libraryVars, audioVars, amberVars, apiVars, consoleVars, fieldVars, spineVars>>

MCKinds == {[type |-> "sine", frequency |-> 1, phase |-> 0], [type |-> "gain", base_gain |-> 2],
            [type |-> "mixer"]}
MCData == {<<"a", "b", "a">>, << >>, <<"b", "a">>}

\* One state for those that stand still.
AmberRests ==
  /\ source = << >> /\ dest = << >> /\ same = FALSE /\ device = FALSE
  /\ cmd = [op |-> "image", block |-> 1]
  /\ Amber!Init

PartsInit ==
  /\ Audio!Init /\ Console!Init /\ Field!Init /\ Spine!Init
  /\ input = 0
  /\ \/ part = "amber" /\ Amber!Init /\ Api!Init /\ granted
     \/ part = "api" /\ AmberRests /\ Api!Init
     \/ part \in {"none", "audio", "console", "field", "spine"} /\ AmberRests /\ Api!Init /\ granted

AudioStep ==
  /\ part = "audio" /\ Audio!Next
  /\ UNCHANGED <<part, libraryVars, amberVars, apiVars, consoleVars, fieldVars, spineVars>>
AmberStep ==
  /\ part = "amber" /\ Amber!Next
  /\ UNCHANGED <<part, libraryVars, audioVars, apiVars, consoleVars, fieldVars, spineVars>>
ConsoleStep ==
  /\ part = "console" /\ Console!Next
  /\ UNCHANGED <<part, libraryVars, audioVars, amberVars, apiVars, fieldVars, spineVars>>
ApiOnly == UNCHANGED <<part, libraryVars, audioVars, amberVars, consoleVars, fieldVars, spineVars>>
FieldOnly == UNCHANGED <<part, libraryVars, audioVars, amberVars, apiVars, consoleVars, spineVars>>
SpineOnly == UNCHANGED <<part, libraryVars, audioVars, amberVars, apiVars, consoleVars, fieldVars>>
LibraryStep ==
  Next /\ UNCHANGED <<audioVars, amberVars, apiVars, consoleVars, fieldVars, spineVars>>

PartsNext ==
  \/ LibraryStep \/ AudioStep \/ AmberStep \/ ConsoleStep
  \/ part = "api" /\ Api!Next /\ ApiOnly
  \/ part = "field" /\ Field!Next /\ FieldOnly
  \/ part = "spine" /\ Spine!Next /\ SpineOnly

\* The fairness each of them states.
PartsFairness ==
  /\ \A c \in Clients : WF_parts(part = "api" /\ Api!Respond(c) /\ ApiOnly)
  /\ WF_parts(part = "field" /\ Field!Save /\ FieldOnly)
  /\ WF_parts(part = "spine" /\ Spine!awaken /\ SpineOnly)
  /\ WF_parts(part = "spine" /\ Spine!Subscribe /\ SpineOnly)
  /\ WF_parts(part = "spine" /\ Spine!recv /\ SpineOnly)

PartsSpec == PartsInit /\ [][PartsNext]_parts /\ PartsFairness

--------------------------------------------------------------------------------
\* The sound card is given the patch sample by sample, however it cuts its buffers.
PlaysThePatch == Audio!TypeOK /\ Audio!PlaysThePatch

\* A command reported complete on a file or a drive did its work, as far as it does it.
ReportsAreTrue == Amber!TypeOK /\ Amber!ReportsAreTrue

\* A request is refused only with a token fetched for it, and the token that works is kept.
RefreshIsExact == Api!RefreshIsExact

\* A recycled row acts on the item it shows, and a message that was sent is no draft.
InputIsKept == Console!TypeOK /\ Console!RowsAreTheirs /\ Field!DraftIsSafe

\* The core burns what it heard once and in order.
ImprintsInOrder == Spine!ImprintsInOrder

\* The libraries' arithmetic: rotations, cameras and projections, the transform.
ArithmeticIsExact == RotationsAreExact /\ CamerasAreExact /\ TransformIsExact

\* What is read from outside: raw images, packets, the PCI bus.
InputsAreDecoded == FirstRawIsDecoded /\ SamplesAreExact /\ PacketsAreExact /\ ScanFindsXhci

\* Calls return, a kill is obeyed, and what was typed is saved.
NothingHangs == Api!CallsReturn /\ Spine!KillIsObeyed /\ (part = "field" => Field!DraftIsSaved)
================================================================================
