------------------------------- MODULE MCLibraries -------------------------------
\* The pure algorithms of the libraries for TLC: each step picks one of them and an
\* input, and an invariant compares what it returns with what it should.
EXTENDS Integers, Sequences

CONSTANTS Modulus, Root, MaxSize      \* of the transform

VARIABLES part, input

E == INSTANCE Euclase
F == INSTANCE Fft
L == INSTANCE Lux
N == INSTANCE Net
P == INSTANCE Pci

\* Root is a root of unity of order MaxSize, a power of two: half way round it is -1.
ASSUME FftAssumption ==
  /\ Modulus \in Nat /\ Modulus > 1 /\ Root \in Nat
  /\ \E k \in 1 .. MaxSize : MaxSize = F!Pow2[k]
  /\ F!Powers(Root)[MaxSize \div 2] = Modulus - 1

Small == -1 .. 1
Directions ==
  {<<1, 0, 0>>, <<0, -2, 0>>, <<0, 0, -1>>, <<0, 0, 3>>, <<3, 0, 4>>, <<-4, 3, 0>>,
   <<4, 12, 3>>, <<-3, -12, 4>>, <<12, 3, -4>>, <<3, 4, 12>>}
Axes == {<<1, 0, 0>>, <<0, 1, 0>>, <<0, 0, 1>>}

Rotations == part' = "rotations" /\ \E q, r \in E!Quats(Small) : input' = [q |-> q, r |-> r]
Cameras ==
  /\ part' = "cameras"
  /\ \E eye \in E!Vec3s({-1, 0, 2}), f \in Directions, up \in Axes :
       input' = [eye |-> eye, center |-> E!Add(eye, f), up |-> up]
Projections ==
  part' = "projections" /\ \E near \in 1 .. 5, far \in 2 .. 9 : near < far /\ input' = <<near, far>>

Entries(k) == (IF k < 3 THEN {0, 1, 5} ELSE {0, 3}) \cap 0 .. Modulus - 1
Buffers ==
  /\ part' = "buffers"
  /\ \E k \in 0 .. 3 :
       /\ F!Pow2[k] <= MaxSize
       /\ \E b \in [F!Indexes(F!Pow2[k]) -> Entries(k)] : input' = [size |-> F!Pow2[k], b |-> b]

Widths == {L!Absent, <<0>>, <<2>>}
Heights == {<<16>>}
Compressions == {L!Absent, <<6>>, <<32769>>, <<65537>>}
Offsets == {L!Absent, << <<8>> >>}
Counts == {L!Absent, << <<64>> >>}
CutShort == [width |-> <<16>>, height |-> <<16>>, compression |-> <<6>>, offsets |-> << <<8>> >>,
             counts |-> << <<64>> >>, next |-> 0, truncated |-> TRUE]
Directories ==
  {CutShort} \cup
  [width : Widths, height : Heights, compression : Compressions, offsets : Offsets,
   counts : Counts, next : 0 .. 2, truncated : {FALSE}]
FirstDirectory == part' = "directory" /\ \E one \in Directories : input' = one
Files ==
  /\ part' = "files"
  /\ \E two \in Directories, size \in {70, 80} : input' = [dirs |-> <<input, two>>, size |-> size]

\* Rows of 18 pixels, two blocks: the steps alternate.
Row(first, up, down, last) ==
  LET p[i \in 1 .. 18] == IF i = 1 THEN first ELSE IF i = 17 THEN last
                          ELSE L!Clamp(p[i - 1] + (IF i % 3 = 0 THEN down ELSE up), 0, L!MaxValue)
  IN [i \in 1 .. 18 |-> p[i]]
Bases == {0, 2, 4094}
Ups == {-1, 0, 63}
Downs == {-64, 1}
Rows ==
  /\ part' = "rows"
  /\ \E first, last \in Bases, up \in Ups, down \in Downs, length \in 0 .. 18 :
       input' = SubSeq(Row(first, up, down, last), 1, length)

Pictures ==
  /\ part' = "pictures"
  /\ \E colour \in [1 .. 3 -> {0, 1, 5}], width, height \in 1 .. 5 :
       input' = [colour |-> colour, width |-> width, height |-> height]

Packets ==
  [len : {27, 28}, hardware_type : {1, 6}, protocol_type : {2048, 2054}, operation : 1 .. 3,
   sender_mac : {"b"}, sender_ip : 1 .. 2, target_mac : {"none"}, target_ip : 1 .. 2]
Questions == part' = "questions" /\ \E p \in Packets : input' = p

SampleWords == {0, 1, 32768, 65534, 65535}
Headers ==
  /\ part' = "headers"
  /\ \E a, b, c \in SampleWords, ihl \in {0, 1, 5, 6}, len \in {19, 20, 24},
        total \in {0, 10, 21, 40}, version \in {4, 6} :
       input' = [words |-> <<a, 0, b, 0, 0, 0, 0, 0, 0, c, 0, a>>, ihl |-> ihl, len |-> len,
                 total_length |-> total, version |-> version]

Functions(b, d, f, multis) ==
  {{}} \cup {{[bus |-> b, device |-> d, func |-> f, class |-> c, multi |-> m,
               bar |-> [low |-> b * 4 + d * 2 + f, type |-> 2 * f, high |-> 1]]} :
             c \in {P!XhciClass, <<12, 3, 32>>, <<1, 1, 0>>}, m \in multis}
Machines ==
  /\ part' = "machines"
  /\ \E x \in Functions(0, 0, 0, BOOLEAN), y \in Functions(0, 0, 1, {FALSE}),
        z \in Functions(0, 1, 0, BOOLEAN), w \in Functions(1, 0, 1, {FALSE}),
        v \in Functions(1, 0, 0, {TRUE}) :
       input' = x \cup y \cup z \cup w \cup v

Init == part = "none" /\ input = 0

Next ==
  \/ /\ part = "none"
     /\ \/ Rotations \/ Cameras \/ Projections \/ Buffers \/ FirstDirectory \/ Rows \/ Pictures
        \/ Questions \/ Headers \/ Machines
  \/ part = "directory" /\ Files

Spec == Init /\ [][Next]_<<part, input>>

--------------------------------------------------------------------------------
\* euclase: rotations compose as their quaternions do and are rigid.
RotationsAreExact ==
  part = "rotations" =>
    /\ E!RotationComposes(input.q, input.r)
    /\ input.r = <<0, 0, 0, 1>> => E!RotationIsRigid(input.q)

\* euclase: a camera looks where it should, and depth has the range of its kind.
CamerasAreExact ==
  /\ part = "cameras" => E!CameraLooks(input.eye, input.center, input.up)
  /\ part = "projections" => E!DepthRange(input[1], input[2])

\* resonance: the in-place transform is the transform.
TransformIsExact == part = "buffers" => F!FftIsDft(input.b, input.size)

\* lux: the image a file is decoded to is the first its tags, as carried along, make raw.
FirstRawIsDecoded == part = "files" => L!FirstRawIsDecoded(input.dirs, input.size)

\* lux: compressed samples come back, and one colour stays one colour.
SamplesAreExact ==
  /\ part = "rows" => L!ArwRoundTrip(input)
  /\ part = "pictures" => L!DemosaicIsExact(input.colour, input.width, input.height)

\* net: a reply is made for who asks by ARP, once, and a checksum is what the RFC says.
PacketsAreExact ==
  /\ part = "questions" => N!ArpConverses(input, 1, "a")
  /\ part = "headers" => N!ChecksumIsExact(input)

\* kernel: the controller is found.
ScanFindsXhci == part = "machines" => P!ScanFindsXhci(input)
================================================================================
