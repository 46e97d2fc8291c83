-------------------------------- MODULE Resonance --------------------------------
(***************************************************************************)
(* The audio graph (resonance/src/graph.rs), its nodes and the engine that *)
(* plays it from the callback of the sound card (audio.rs).  A graph is    *)
(* built, moved into the callback, and played in buffers of whatever       *)
(* length the card asks for, while commands arrive over a ring.            *)
(*                                                                         *)
(* Samples are integers.  A cycle has four phases, so that sines are       *)
(* -1, 0 and 1 and frequencies are quarters of the sample rate.            *)
(***************************************************************************)
EXTENDS Integers, Sequences

CONSTANTS
  Kinds,       \* the nodes to build graphs of, records with a "type"
  MAX_INPUTS,  \* 8 in the code
  BLOCK_SIZE,  \* 64 in the code
  RingSize,    \* commands the ring holds, 128 in the code
  MaxNodes, MaxWires, MaxFrames, MaxSent  \* bounds

VARIABLES
  nodes,          \* AudioGraph.nodes
  connections,    \* AudioGraph.connections: per node, a sequence of ids, 0 for None
  outputs,        \* AudioGraph.outputs
  playing,        \* the graph has been moved into the stream's callback
  current_block, block_offset,
  ring,           \* commands waiting
  speaker,        \* what the card was given, one sample per frame
  wires, pushed   \* wires laid and commands accepted, for the bounds

vars == <<nodes, connections, outputs, playing, current_block, block_offset, ring, speaker,
          wires, pushed>>

Samples == 0 .. BLOCK_SIZE - 1
silence == [i \in Samples |-> 0]
Sine(phase) == <<0, 1, 0, -1>>[(phase % 4) + 1]

\* The numbers of a sequence added up, one after the other.
Total(s) ==
  LET sum[n \in 0 .. Len(s)] == IF n = 0 THEN 0 ELSE sum[n - 1] + s[n]
  IN sum[Len(s)]

Init ==
  /\ nodes = << >> /\ connections = << >> /\ outputs = << >>
  /\ playing = FALSE
  /\ current_block = silence /\ block_offset = BLOCK_SIZE
  /\ ring = 0
  /\ speaker = << >>
  /\ wires = 0 /\ pushed = 0

--------------------------------------------------------------------------------
(* Building the graph. *)

add_node(kind) ==
  /\ ~playing /\ Len(nodes) < MaxNodes
  /\ nodes' = Append(nodes, kind)
  /\ outputs' = Append(outputs, silence)
  /\ connections' = Append(connections, << >>)
  /\ UNCHANGED <<playing, current_block, block_offset, ring, speaker, wires, pushed>>

\* The list of inputs grows as far as it must, with None in the gap.
connect(src, dst, port) ==
  /\ ~playing /\ wires < MaxWires
  /\ connections' = [connections EXCEPT ![dst] =
       [i \in 1 .. IF port > Len(@) THEN port ELSE Len(@) |->
          IF i = port THEN src ELSE IF i <= Len(@) THEN @[i] ELSE 0]]
  /\ wires' = wires + 1
  /\ UNCHANGED <<nodes, outputs, playing, current_block, block_offset, ring, speaker, pushed>>

--------------------------------------------------------------------------------
(* Processing one block. *)

\* Only a node that comes earlier is heard; the slice ends at the highest such port.
Heard(id) == {p \in DOMAIN connections[id] : connections[id][p] \in 1 .. id - 1}
InputCount(id) == IF Heard(id) = {} THEN 0 ELSE CHOOSE p \in Heard(id) : \A q \in Heard(id) : q <= p
Inputs(id, outs) ==
  [p \in 1 .. InputCount(id) |-> IF p \in Heard(id) THEN outs[connections[id][p]] ELSE silence]

\* By one cycle at most, as the code does: a fast modulation leaves the range.
Wrap(phase) == IF phase >= 4 THEN phase - 4 ELSE IF phase < 0 THEN phase + 4 ELSE phase

\* The phase of an oscillator before each sample of a block, and after the last.
Phases(node, inputs) ==
  LET phase[i \in 0 .. BLOCK_SIZE] ==
        IF i = 0 THEN node.phase
        ELSE Wrap(phase[i - 1] + node.frequency
                    + IF inputs = << >> THEN 0 ELSE inputs[1][i - 1])
  IN phase

SineBlock(node, inputs) == [i \in Samples |-> Sine(Phases(node, inputs)[i])]

GainBlock(node, inputs) ==
  IF Len(inputs) = 0 THEN silence
  ELSE IF Len(inputs) = 1 THEN [i \in Samples |-> inputs[1][i] * node.base_gain]
  ELSE [i \in Samples |-> inputs[1][i] * (node.base_gain + inputs[2][i])]

MixerBlock(inputs) == [i \in Samples |-> Total([p \in DOMAIN inputs |-> inputs[p][i]])]

\* A node's block and the node afterwards.
Processed(node, inputs) ==
  IF node.type = "sine"
  THEN [out |-> SineBlock(node, inputs),
        node |-> [node EXCEPT !.phase = Phases(node, inputs)[BLOCK_SIZE]]]
  ELSE [out |-> IF node.type = "gain" THEN GainBlock(node, inputs) ELSE MixerBlock(inputs),
        node |-> node]

\* AudioGraph::process on a state of the engine: node by node in the order they
\* were added, each reading this block's outputs of the earlier ones.
Process(s) ==
  LET after[id \in 0 .. Len(s.nodes)] ==
        IF id = 0 THEN s
        ELSE LET before == after[id - 1]
                 done == Processed(before.nodes[id], Inputs(id, before.outputs))
             IN [before EXCEPT !.nodes[id] = done.node, !.outputs[id] = done.out]
      end == after[Len(s.nodes)]
  IN [end EXCEPT !.block = IF s.nodes = << >> THEN silence ELSE end.outputs[Len(s.nodes)],
                 !.offset = 0, !.ring = 0]

\* Mutant: every callback begins with a block of its own.
RefillEachCall(s) == IF s.offset >= BLOCK_SIZE \/ s.first THEN Process(s) ELSE s

\* A new block when the current one is used up; the commands are taken first.
Refill(s) == IF s.offset >= BLOCK_SIZE THEN Process(s) ELSE s

\* write_output_f32: one frame after the other.
Play(s, frames) ==
  LET after[n \in 0 .. frames] ==
        IF n = 0 THEN s
        ELSE LET full == Refill([after[n - 1] EXCEPT !.first = n = 1])
             IN [full EXCEPT !.speaker = Append(@, full.block[full.offset]),
                             !.offset = @ + 1]
  IN after[frames]

Engine == [nodes |-> nodes, outputs |-> outputs, block |-> current_block,
           offset |-> block_offset, ring |-> ring, speaker |-> speaker, first |-> TRUE]

\* The stream is created with the finished graph.
new ==
  /\ ~playing
  /\ playing' = TRUE
  /\ UNCHANGED <<nodes, connections, outputs, current_block, block_offset, ring, speaker,
                 wires, pushed>>

Callback(frames) ==
  /\ playing /\ Len(speaker) + frames <= MaxFrames
  /\ LET s == Play(Engine, frames)
     IN /\ nodes' = s.nodes /\ outputs' = s.outputs
        /\ current_block' = s.block /\ block_offset' = s.offset
        /\ ring' = s.ring /\ speaker' = s.speaker
  /\ UNCHANGED <<connections, playing, wires, pushed>>

\* The other end of the ring: a command is refused when the ring is full.  What a
\* command says makes no difference, process_commands drops them all.
try_push ==
  /\ playing /\ pushed < MaxSent /\ ring < RingSize
  /\ ring' = ring + 1 /\ pushed' = pushed + 1
  /\ UNCHANGED <<nodes, connections, outputs, playing, current_block, block_offset, speaker, wires>>

Next ==
  \/ \E kind \in Kinds : add_node(kind)
  \/ \E src, dst \in DOMAIN nodes, port \in 1 .. MAX_INPUTS : connect(src, dst, port)
  \/ new
  \/ \E frames \in 1 .. BLOCK_SIZE + 1 : Callback(frames)
  \/ try_push

Spec == Init /\ [][Next]_vars

--------------------------------------------------------------------------------
TypeOK ==
  /\ \A id \in DOMAIN nodes : nodes[id].type = "sine" => nodes[id].phase \in Int
  /\ connections \in Seq(Seq(0 .. Len(nodes))) /\ Len(connections) = Len(nodes)
  /\ outputs \in Seq([Samples -> Int]) /\ Len(outputs) = Len(nodes)
  /\ playing \in BOOLEAN
  /\ current_block \in [Samples -> Int] /\ block_offset \in 0 .. BLOCK_SIZE
  /\ ring \in 0 .. RingSize

\* What a node should sound like, as a function of time, from the sounds of the
\* earlier nodes: without blocks, buffers or wrapping.
Wire(n, earlier, p) == IF p \in Heard(n) THEN earlier[connections[n][p]] ELSE [t \in Nat |-> 0]
Angle(n, earlier, t) ==
  t * nodes[n].frequency + Total([v \in 1 .. t |-> Wire(n, earlier, 1)[v - 1]])
Sound(n, earlier) ==
  [t \in Nat |->
     IF nodes[n].type = "sine" THEN Sine(Angle(n, earlier, t))
     ELSE IF nodes[n].type = "gain"
     THEN Wire(n, earlier, 1)[t]
            * (nodes[n].base_gain + IF InputCount(n) > 1 THEN Wire(n, earlier, 2)[t] ELSE 0)
     ELSE Total([p \in 1 .. InputCount(n) |-> Wire(n, earlier, p)[t]])]

\* What the patch should sound like: its last node.
Ideal ==
  LET sounds[n \in 0 .. Len(nodes)] ==
        IF n = 0 THEN << >> ELSE Append(sounds[n - 1], Sound(n, sounds[n - 1]))
  IN sounds[Len(nodes)][Len(nodes)]

\* However the card cuts its buffers, and whatever the wiring, cycles and gaps
\* included, it is given the patch sample by sample: no sample is lost, repeated or
\* taken from another block, and modulation is not late.
PlaysThePatch ==
  nodes # << >> => \A t \in DOMAIN speaker : speaker[t] = Ideal[t - 1]
================================================================================
