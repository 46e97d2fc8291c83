------------------------------ MODULE FilesProofs ------------------------------
(***************************************************************************)
(* What Extents.tla promises of the bytes of one file, for every size of a *)
(* block, of the device and of the file, as long as no write starts past   *)
(* the end: its extents tile it, with blocks of its own, and whoever reads *)
(* it sees the sequence of bytes that ByteFile.tla describes.  And what    *)
(* AttributeQuery.tla promises of the attributes of any inodes: a query    *)
(* returns what a scan of all of them would.                               *)
(***************************************************************************)
EXTENDS MCFiles, FiniteSetTheorems, SequenceTheorems, NaturalsInduction, WellFoundedInduction, TLAPS

--------------------------------------------------------------------------------
\* Numbers.

Before == OpToRel(<, Nat)

LEMMA LessIsBefore == \A x, y \in Nat : x < y => <<x, y>> \in Before
  BY DEF Before, OpToRel

LEMMA LeastNumber ==
  ASSUME NEW S \in SUBSET Nat, S # {}
  PROVE  \E n \in S : \A m \in S : n <= m
<1>1. IsWellFoundedOn(Before, Nat)
  BY NatLessThanWellFounded DEF Before
<1>2. PICK n \in S : \A m \in S : ~ (<<m, n>> \in Before)
  BY <1>1, WFMin
<1>3. \A m \in S : ~ (m < n)
  BY <1>2, LessIsBefore
<1> QED BY <1>3

\* Induction, as a statement about sets of numbers.
LEMMA NatSet ==
  ASSUME NEW S \in SUBSET Nat, 0 \in S, \A n \in S : n + 1 \in S
  PROVE  S = Nat
<1> SUFFICES ASSUME Nat \ S # {} PROVE FALSE
  OBVIOUS
<1>1. PICK n \in Nat \ S : \A m \in Nat \ S : n <= m
  <2>1. (Nat \ S) \in SUBSET Nat
    OBVIOUS
  <2> QED BY <2>1, LeastNumber
<1> QED BY <1>1

--------------------------------------------------------------------------------
\* Blocks and the positions in them.

\* The block of a position, its place there, and where a block starts.
Block(p) == p \div BLOCK_SIZE
Place(p) == p % BLOCK_SIZE
Start(q) == q * BLOCK_SIZE

LEMMA BlockSize == BLOCK_SIZE \in Nat /\ BLOCK_SIZE > 0
  BY ExtentsAssumption

LEMMA Starts ==
  ASSUME NEW q \in Nat, NEW r \in Nat
  PROVE  /\ Start(q) \in Nat
         /\ Start(q + 1) = Start(q) + BLOCK_SIZE
         /\ Start(q + r) = Start(q) + Start(r)
         /\ q < r => Start(q) + BLOCK_SIZE <= Start(r)
         /\ q <= r => Start(q) <= Start(r)
<1>1. q * BLOCK_SIZE \in Nat /\ r * BLOCK_SIZE \in Nat
  BY BlockSize
<1>2. (q + 1) * BLOCK_SIZE = q * BLOCK_SIZE + BLOCK_SIZE
  BY BlockSize
<1>3. (q + r) * BLOCK_SIZE = q * BLOCK_SIZE + r * BLOCK_SIZE
  BY BlockSize
<1>4. ASSUME q < r PROVE q * BLOCK_SIZE + BLOCK_SIZE <= r * BLOCK_SIZE
  <2>1. (r - (q + 1)) \in Nat /\ (r - (q + 1)) * BLOCK_SIZE \in Nat
    BY <1>4, BlockSize
  <2>2. r * BLOCK_SIZE = (q + 1) * BLOCK_SIZE + (r - (q + 1)) * BLOCK_SIZE
    BY <1>4, BlockSize
  <2> QED BY <2>1, <2>2, <1>1, <1>2, BlockSize
<1>5. ASSUME q <= r PROVE q * BLOCK_SIZE <= r * BLOCK_SIZE
  BY <1>1, <1>4, <1>5, BlockSize
<1> QED BY <1>1, <1>2, <1>3, <1>4, <1>5 DEF Start

LEMMA FirstStarts == Start(0) = 0 /\ Start(1) = BLOCK_SIZE
  BY BlockSize DEF Start

LEMMA Split ==
  ASSUME NEW p \in Nat
  PROVE  /\ Block(p) \in Nat /\ Place(p) \in 0 .. BLOCK_SIZE - 1
         /\ p = Start(Block(p)) + Place(p)
         /\ Start(Block(p)) \in Nat
<1>1. Block(p) \in Nat /\ Place(p) \in 0 .. BLOCK_SIZE - 1 /\ p = BLOCK_SIZE * Block(p) + Place(p)
  BY ExtentsAssumption DEF Block, Place
<1>2. BLOCK_SIZE * Block(p) = Block(p) * BLOCK_SIZE /\ Block(p) * BLOCK_SIZE \in Nat
  BY <1>1, BlockSize
<1> QED BY <1>1, <1>2 DEF Start

LEMMA Position ==
  ASSUME NEW q \in Nat, NEW p \in Nat, Start(q) <= p, p < Start(q) + BLOCK_SIZE
  PROVE  Block(p) = q /\ Place(p) = p - Start(q)
<1> DEFINE i == p - q * BLOCK_SIZE
<1>1. q * BLOCK_SIZE \in Nat /\ i \in 0 .. BLOCK_SIZE - 1 /\ p = q * BLOCK_SIZE + i
  BY BlockSize DEF Start
<1> HIDE DEF i
<1>2. (q * BLOCK_SIZE + i) \div BLOCK_SIZE = q /\ (q * BLOCK_SIZE + i) % BLOCK_SIZE = i
  BY <1>1, BlockSize
<1> QED BY <1>1, <1>2 DEF i, Block, Place, Start

\* A position lies in the first B blocks exactly when its block does.
LEMMA BlockBelow ==
  ASSUME NEW p \in Nat, NEW B \in Nat
  PROVE  p < Start(B) <=> Block(p) < B
<1>1. /\ Block(p) \in Nat /\ Place(p) \in 0 .. BLOCK_SIZE - 1
      /\ p = Start(Block(p)) + Place(p)
  BY Split
<1>2. /\ Start(Block(p)) \in Nat /\ Start(B) \in Nat
      /\ Block(p) < B => Start(Block(p)) + BLOCK_SIZE <= Start(B)
      /\ B <= Block(p) => Start(B) <= Start(Block(p))
  BY <1>1, Starts
<1> QED BY <1>1, <1>2, BlockSize

\* A position counted from the start of a block before it.
LEMMA BlockFrom ==
  ASSUME NEW q \in Nat, NEW p \in Nat, NEW r \in Nat, Start(q + r) <= p, p < Start(q + r) + BLOCK_SIZE
  PROVE  (p - Start(q)) \div BLOCK_SIZE = r
<1> DEFINE d == p - Start(q)
<1>1. Start(q + r) = Start(q) + Start(r) /\ Start(q) \in Nat /\ Start(r) \in Nat
  BY Starts
<1>2. d \in Nat /\ Start(r) <= d /\ d < Start(r) + BLOCK_SIZE
  BY <1>1, BlockSize
<1> HIDE DEF d
<1>3. Block(d) = r
  BY <1>2, Position
<1> QED BY <1>3 DEF Block, d

--------------------------------------------------------------------------------
\* A list of extents that maps the first B blocks of the file, and nothing else,
\* to the blocks f[0], f[1], ... of the device: what write_data keeps of a list.

ExtentType == [logical_offset : Nat, physical_block : Blocks, length : Nat \ {0}]

BlockIn(e, pos) == e.physical_block + (pos - e.logical_offset) \div BLOCK_SIZE

HeldBy(list, f, pos, i) ==
  /\ Covers(list[i], pos)
  /\ \A j \in 1 .. Len(list) : Covers(list[j], pos) => j = i
  /\ BlockIn(list[i], pos) = f[Block(pos)]

\* The last extent: c blocks, from block B - c of the file.
LastIs(list, f, B, c) ==
  LET e == list[Len(list)]
  IN  /\ e.logical_offset = Start(B - c) /\ e.length = Start(c)
      /\ e.physical_block + c - 1 = f[B - 1]

\* The first B blocks of a file.
BlockLists(B) == [0 .. B - 1 -> Blocks]

Maps(list, f, B) ==
  /\ list \in Seq(ExtentType)
  /\ f \in BlockLists(B)
  /\ list = << >> <=> B = 0
  /\ list # << >> => \E c \in 1 .. B : LastIs(list, f, B, c)
  /\ \A pos \in Nat : pos < Start(B) => \E i \in 1 .. Len(list) : HeldBy(list, f, pos, i)
  /\ \A pos \in Nat : \A i \in 1 .. Len(list) : Covers(list[i], pos) => pos < Start(B)

LEMMA CoversIs ==
  ASSUME NEW e, NEW a \in Nat, NEW n \in Nat, e.logical_offset = a, e.length = n, NEW pos \in Nat
  PROVE  Covers(e, pos) <=> a <= pos /\ pos < a + n
  BY DEF Covers

LEMMA MapsNothing ==
  ASSUME NEW f \in BlockLists(0)
  PROVE  Maps(<< >>, f, 0)
<1>1. << >> \in Seq(ExtentType) /\ DOMAIN << >> = {} /\ Start(0) = 0
  BY FirstStarts
<1> QED BY <1>1 DEF Maps

LEMMA MapsHolds ==
  ASSUME NEW list, NEW f, NEW B \in Nat, Maps(list, f, B), NEW pos \in Nat, pos < Start(B)
  PROVE  /\ \E i \in 1 .. Len(list) : HeldBy(list, f, pos, i)
         /\ Block(pos) \in 0 .. B - 1
<1>1. \E i \in 1 .. Len(list) : HeldBy(list, f, pos, i)
  BY DEF Maps
<1>2. Block(pos) \in Nat /\ Block(pos) < B
  BY Split, BlockBelow
<1> QED BY <1>1, <1>2

\* Finding the block of a position.
LEMMA BlockAtIs ==
  ASSUME NEW list, NEW f, NEW B \in Nat, Maps(list, f, B), NEW pos \in Nat, Block(pos) < B
  PROVE  /\ Mapped(list, pos)
         /\ BlockAt(list, pos) = f[Block(pos)]
         /\ Cardinality({i \in DOMAIN list : Covers(list[i], pos)}) = 1
<1>3. DOMAIN list = 1 .. Len(list) /\ Len(list) \in Nat
  BY DEF Maps
<1>1. PICK i \in DOMAIN list : HeldBy(list, f, pos, i)
  BY <1>3, BlockBelow DEF Maps
<1>2. \A j \in DOMAIN list : Covers(list[j], pos) <=> j = i
  BY <1>1, <1>3 DEF HeldBy
<1>4. Mapped(list, pos)
  BY <1>2 DEF Mapped
<1>5. \A j \in DOMAIN list :
        (Covers(list[j], pos) /\ \A h \in 1 .. j - 1 : ~Covers(list[h], pos)) <=> j = i
  <2>1. \A h \in 1 .. i - 1 : h \in DOMAIN list /\ h # i
    BY <1>3
  <2> QED BY <1>2, <2>1
<1>6. (CHOOSE j \in DOMAIN list :
         Covers(list[j], pos) /\ \A h \in 1 .. j - 1 : ~Covers(list[h], pos)) = i
  BY <1>5
<1>7. BlockAt(list, pos) = f[Block(pos)]
  BY <1>1, <1>6 DEF BlockAt, BlockIn, HeldBy
<1>8. {j \in DOMAIN list : Covers(list[j], pos)} = {i}
  BY <1>2
<1> QED BY <1>4, <1>7, <1>8, FS_Singleton

LEMMA NotMapped ==
  ASSUME NEW list, NEW f, NEW B \in Nat, Maps(list, f, B), NEW pos \in Nat, B <= Block(pos)
  PROVE  ~Mapped(list, pos)
<1>1. DOMAIN list = 1 .. Len(list)
  BY DEF Maps
<1>2. ~(pos < Start(B))
  BY Split, BlockBelow
<1>3. \A i \in 1 .. Len(list) : ~Covers(list[i], pos)
  BY <1>2 DEF Maps
<1> QED BY <1>1, <1>3 DEF Mapped

\* The map with one more block.
Grown(f, B, b) == [i \in 0 .. B |-> IF i = B THEN b ELSE f[i]]

LEMMA GrownIs ==
  ASSUME NEW B \in Nat, NEW f \in BlockLists(B), NEW b \in Blocks
  PROVE  /\ Grown(f, B, b) \in BlockLists(B + 1)
         /\ Grown(f, B, b)[B] = b
         /\ \A i \in 0 .. B - 1 : Grown(f, B, b)[i] = f[i]
<1>1. (B + 1) - 1 = B /\ B \in 0 .. B /\ \A i \in 0 .. B : i # B => i \in 0 .. B - 1
  OBVIOUS
<1> QED BY <1>1 DEF Grown, BlockLists

\* An extent one block longer, alone and in its list.
LEMMA Longer ==
  ASSUME NEW e \in ExtentType, NEW x \in Nat \ {0}
  PROVE  LET h == [e EXCEPT !.length = x] IN
         h \in ExtentType /\ h.length = x /\ h.logical_offset = e.logical_offset /\ h.physical_block = e.physical_block
  BY DEF ExtentType

LEMMA LongerAt ==
  ASSUME NEW list \in Seq(ExtentType), NEW L \in 1 .. Len(list)
  PROVE  LET new == [list EXCEPT ![L].length = @ + BLOCK_SIZE] IN
         /\ new \in Seq(ExtentType) /\ Len(new) = Len(list) /\ DOMAIN new = 1 .. Len(list)
         /\ new[L].length = list[L].length + BLOCK_SIZE 
         /\ new[L].logical_offset = list[L].logical_offset /\ new[L].physical_block = list[L].physical_block
         /\ \A j \in 1 .. Len(list) : j # L => new[j] = list[j]
<1> DEFINE e == list[L]
           x == e.length + BLOCK_SIZE
           h == [e EXCEPT !.length = x]
           new == [list EXCEPT ![L] = h]
<1>1. e \in ExtentType
  OBVIOUS
<1>2. x \in Nat \ {0}
  BY <1>1, BlockSize DEF ExtentType
<1>4. [list EXCEPT ![L].length = @ + BLOCK_SIZE] = new
  OBVIOUS
<1>3. h \in ExtentType /\ h.length = x /\ h.logical_offset = e.logical_offset /\ h.physical_block = e.physical_block
  <2> HIDE DEF e, x
  <2> QED BY <1>1, <1>2, Longer
<1> HIDE DEF h
<1>5.  /\ new \in Seq(ExtentType) /\ Len(new) = Len(list) /\ DOMAIN new = 1 .. Len(list)
       /\ new[L] = h
         /\ \A j \in 1 .. Len(list) : j # L => new[j] = list[j]
  BY <1>3
<1> HIDE DEF new, e
<1> QED BY <1>3, <1>4, <1>5 DEF e

\* The last extent grows by the block that follows it on the device.
LEMMA MergeMaps ==
  ASSUME NEW list, NEW f, NEW B \in Nat, Maps(list, f, B), NEW b \in Blocks,
         NEW c \in 1 .. B, LastIs(list, f, B, c), list # << >>,
         list[Len(list)].physical_block + c = b
  PROVE  Maps([list EXCEPT ![Len(list)].length = @ + BLOCK_SIZE], Grown(f, B, b), B + 1)
<1> DEFINE L == Len(list)
           e == list[L]
           new == [list EXCEPT ![L].length = @ + BLOCK_SIZE]
           g == Grown(f, B, b)
<1>1. /\ list \in Seq(ExtentType) /\ L \in Nat /\ L \in 1 .. L /\ DOMAIN list = 1 .. L
      /\ B \in Nat /\ c \in Nat /\ c > 0 /\ c <= B /\ B - c \in Nat /\ f \in BlockLists(B)
      /\ e \in ExtentType
  BY DEF Maps
<1>2. /\ Start(B - c) \in Nat /\ Start(c) \in Nat /\ Start(B) \in Nat
      /\ Start(B - c) + Start(c) = Start(B)
      /\ Start(c + 1) = Start(c) + BLOCK_SIZE
      /\ Start(B + 1) = Start(B) + BLOCK_SIZE
  <2>1. (B - c) + c = B
    BY <1>1
  <2> QED BY <1>1, <2>1, Starts
<1>3. /\ e.logical_offset = Start(B - c) /\ e.length = Start(c)
      /\ e.physical_block + c = b /\ e.physical_block \in Nat
  BY <1>1 DEF LastIs, ExtentType, Blocks
<1>4. /\ new \in Seq(ExtentType) /\ Len(new) = L /\ DOMAIN new = 1 .. L
      /\ new[L].length = e.length + BLOCK_SIZE
      /\ new[L].logical_offset = e.logical_offset /\ new[L].physical_block = e.physical_block
      /\ \A j \in 1 .. L : j # L => new[j] = list[j]
  BY <1>1, LongerAt
<1> HIDE DEF new, e
<1>5. /\ new[L].logical_offset = Start(B - c)
      /\ new[L].length = Start(c + 1)
      /\ new[L].physical_block = e.physical_block
      /\ e = list[L]
  BY <1>2, <1>3, <1>4 DEF e
<1>6. g \in BlockLists(B + 1) /\ g[B] = b /\ \A i \in 0 .. B - 1 : g[i] = f[i]
  BY <1>1, GrownIs
<1> HIDE DEF g, L
<1>61. \A pos \in Nat : Covers(new[L], pos) <=> Start(B - c) <= pos /\ pos < Start(B + 1)
  <2> SUFFICES ASSUME NEW pos \in Nat
               PROVE  Covers(new[L], pos) <=> Start(B - c) <= pos /\ pos < Start(B + 1)
    OBVIOUS
  <2>1. Start(c + 1) \in Nat /\ Start(B - c) + Start(c + 1) = Start(B + 1)
    BY <1>2, BlockSize
  <2>2. Covers(new[L], pos) <=> Start(B - c) <= pos /\ pos < Start(B - c) + Start(c + 1)
    BY SMTT(30), <1>2, <1>5, <2>1, CoversIs
  <2> QED BY <2>1, <2>2
<1>62. ASSUME NEW pos \in Nat
       PROVE  Covers(list[L], pos) <=> Start(B - c) <= pos /\ pos < Start(B)
  <2>1. Covers(list[L], pos) <=> Start(B - c) <= pos /\ pos < Start(B - c) + Start(c)
    BY <1>2, <1>3, <1>5, CoversIs
  <2> QED BY <1>2, <2>1
<1>7. \A pos \in Nat : pos < Start(B) => \A j \in 1 .. L : Covers(new[j], pos) <=> Covers(list[j], pos)
  <2> SUFFICES ASSUME NEW pos \in Nat, pos < Start(B), NEW j \in 1 .. L
               PROVE  Covers(new[j], pos) <=> Covers(list[j], pos)
    OBVIOUS
  <2>1. pos < Start(B + 1)
    BY <1>2, BlockSize
  <2> QED BY <1>4, <1>61, <1>62, <2>1
<1>8. \A pos \in Nat : pos >= Start(B) =>
        \A j \in 1 .. L : Covers(new[j], pos) <=> j = L /\ pos < Start(B + 1)
  <2> SUFFICES ASSUME NEW pos \in Nat, pos >= Start(B), NEW j \in 1 .. L
               PROVE  Covers(new[j], pos) <=> j = L /\ pos < Start(B + 1)
    OBVIOUS
  <2>1. Start(B - c) <= pos
    BY <1>2
  <2>2. CASE j = L
    BY <1>61, <2>1, <2>2
  <2>3. CASE j # L
    <3>1. ~(pos < Start(B))
      BY <1>2
    <3>2. ~Covers(list[j], pos)
      BY <3>1 DEF Maps, L
    <3> QED BY <1>4, <2>3, <3>2
  <2> QED BY <2>2, <2>3
<1>9. ASSUME NEW pos \in Nat, pos < Start(B + 1)
      PROVE  \E i \in 1 .. Len(new) : HeldBy(new, g, pos, i)
  <2>1. CASE pos < Start(B)
    <3>1. Block(pos) \in 0 .. B - 1 /\ \E i \in 1 .. L : HeldBy(list, f, pos, i)
      BY <2>1, MapsHolds DEF L
    <3>2. PICK i \in 1 .. L : HeldBy(list, f, pos, i)
      BY <3>1
    <3>3. Covers(new[i], pos) /\ \A j \in 1 .. L : Covers(new[j], pos) => j = i
      BY <1>7, <2>1, <3>2 DEF HeldBy, L
    <3>4. BlockIn(new[i], pos) = BlockIn(list[i], pos)
      <4>1. new[i].physical_block = list[i].physical_block /\ new[i].logical_offset = list[i].logical_offset
        BY <1>3, <1>4, <1>5
      <4> QED BY <4>1 DEF BlockIn
    <3>5. BlockIn(new[i], pos) = g[Block(pos)]
      BY <1>6, <3>1, <3>2, <3>4 DEF HeldBy
    <3> QED BY <1>4, <3>3, <3>5 DEF HeldBy
  <2>2. CASE ~(pos < Start(B))
    <3>1. Start(B) <= pos /\ pos < Start(B) + BLOCK_SIZE
      BY <1>2, <2>2, <1>9, BlockSize
    <3>2. Block(pos) = B
      BY <3>1, Position
    <3>3. (pos - Start(B - c)) \div BLOCK_SIZE = c
      <4>1. (B - c) + c = B /\ Start((B - c) + c) <= pos /\ pos < Start((B - c) + c) + BLOCK_SIZE
        BY <1>1, <3>1
      <4> QED BY <1>1, <4>1, BlockFrom
    <3>4. BlockIn(new[L], pos) = g[Block(pos)]
      BY <1>3, <1>5, <1>6, <3>2, <3>3 DEF BlockIn
    <3>5. Covers(new[L], pos) /\ \A j \in 1 .. L : Covers(new[j], pos) => j = L
      BY <1>1, <1>2, <1>8, <1>9, <3>1
    <3> QED BY <1>1, <1>4, <3>4, <3>5 DEF HeldBy
  <2> QED BY <2>1, <2>2
<1>10. ASSUME NEW pos \in Nat, NEW j \in 1 .. L, Covers(new[j], pos) PROVE pos < Start(B + 1)
  <2>1. CASE pos < Start(B)
    BY <1>2, <2>1, BlockSize
  <2>2. CASE pos >= Start(B)
    BY <1>8, <1>10, <2>2
  <2> QED BY <1>2, <2>1, <2>2
<1>11. LastIs(new, g, B + 1, c + 1)
  <2>1. (B + 1) - (c + 1) = B - c /\ (B + 1) - 1 = B
    BY <1>1
  <2> QED BY <1>1, <1>3, <1>4, <1>5, <1>6, <2>1 DEF LastIs
<1>12. new # << >> /\ B + 1 # 0 /\ c + 1 \in 1 .. B + 1 /\ B + 1 \in Nat
  BY <1>1, <1>4
<1>13. Maps(new, g, B + 1)
  BY <1>4, <1>6, <1>9, <1>10, <1>11, <1>12 DEF Maps
<1> QED BY <1>13 DEF new, g, L

\* The block gets an extent of its own.
LEMMA AppendMaps ==
  ASSUME NEW list, NEW f, NEW B \in Nat, Maps(list, f, B), NEW b \in Blocks
  PROVE  Maps(Append(list, Extent(Start(B), b, BLOCK_SIZE)), Grown(f, B, b), B + 1)
<1> DEFINE L == Len(list)
           e == Extent(Start(B), b, BLOCK_SIZE)
           new == Append(list, e)
           g == Grown(f, B, b)
<1>1. /\ list \in Seq(ExtentType) /\ L \in Nat /\ DOMAIN list = 1 .. L
      /\ f \in BlockLists(B)
  BY DEF Maps
<1>2. Start(B) \in Nat /\ Start(B + 1) = Start(B) + BLOCK_SIZE
  BY <1>1, Starts
<1>3. /\ e \in ExtentType /\ e.logical_offset = Start(B) /\ e.physical_block = b
      /\ e.length = BLOCK_SIZE /\ b \in Nat
  BY <1>2, BlockSize DEF Extent, ExtentType, Blocks
<1> HIDE DEF e
<1>4. /\ new \in Seq(ExtentType) /\ Len(new) = L + 1 /\ DOMAIN new = 1 .. L + 1
      /\ new[L + 1] = e /\ \A j \in 1 .. L : new[j] = list[j]
  BY <1>1, <1>3
<1>5. g \in BlockLists(B + 1) /\ g[B] = b /\ \A i \in 0 .. B - 1 : g[i] = f[i]
  <2>1. f \in BlockLists(B)
    BY <1>1
  <2> QED BY <2>1, GrownIs
<1> HIDE DEF new, g, L
<1>6. \A pos \in Nat : Covers(new[L + 1], pos) <=> Start(B) <= pos /\ pos < Start(B + 1)
  BY <1>2, <1>3, <1>4, CoversIs, BlockSize
<1>7. \A pos \in Nat : pos >= Start(B) => \A j \in 1 .. L : ~Covers(new[j], pos)
  <2> SUFFICES ASSUME NEW pos \in Nat, pos >= Start(B), NEW j \in 1 .. L
               PROVE  ~Covers(new[j], pos)
    OBVIOUS
  <2>1. ~(pos < Start(B)) /\ new[j] = list[j]
    BY <1>2, <1>4
  <2> QED BY <2>1 DEF Maps, L
<1>8. ASSUME NEW pos \in Nat, pos < Start(B + 1)
      PROVE  \E i \in 1 .. Len(new) : HeldBy(new, g, pos, i)
  <2>1. CASE pos < Start(B)
    <3>1. Block(pos) \in 0 .. B - 1 /\ \E i \in 1 .. L : HeldBy(list, f, pos, i)
      BY <2>1, MapsHolds DEF L
    <3>2. PICK i \in 1 .. L : HeldBy(list, f, pos, i)
      BY <3>1
    <3>3. ~Covers(new[L + 1], pos)
      BY <1>2, <1>6, <2>1
    <3>4. i \in 1 .. L + 1 /\ new[i] = list[i]
      BY <1>1, <1>4
    <3>5. \A j \in 1 .. L + 1 : Covers(new[j], pos) => j = i
      <4> SUFFICES ASSUME NEW j \in 1 .. L + 1, Covers(new[j], pos) PROVE j = i
        OBVIOUS
      <4>1. j \in 1 .. L /\ new[j] = list[j]
        BY <1>1, <1>4, <3>3
      <4> QED BY <3>2, <4>1 DEF HeldBy, L
    <3>6. BlockIn(new[i], pos) = g[Block(pos)]
      BY <1>5, <3>1, <3>2, <3>4 DEF HeldBy
    <3> QED BY <1>4, <3>2, <3>4, <3>5, <3>6 DEF HeldBy
  <2>2. CASE ~(pos < Start(B))
    <3>1. Start(B) <= pos /\ pos < Start(B) + BLOCK_SIZE
      BY <1>2, <2>2, <1>8, BlockSize
    <3>2. Block(pos) = B
      BY <3>1, Position
    <3>3. (pos - Start(B)) \div BLOCK_SIZE = 0
      <4>1. B + 0 = B /\ Start(B + 0) <= pos /\ pos < Start(B + 0) + BLOCK_SIZE
        BY <3>1
      <4> QED BY <4>1, BlockFrom
    <3>4. BlockIn(new[L + 1], pos) = g[Block(pos)]
      BY <1>3, <1>4, <1>5, <3>2, <3>3 DEF BlockIn
    <3>5. L + 1 \in 1 .. L + 1 /\ Covers(new[L + 1], pos)
      BY <1>1, <1>6, <1>8, <3>1
    <3>6. \A j \in 1 .. L + 1 : Covers(new[j], pos) => j = L + 1
      BY <1>1, <1>2, <1>7, <3>1
    <3> QED BY <1>4, <3>4, <3>5, <3>6 DEF HeldBy
  <2> QED BY <2>1, <2>2
<1>9. ASSUME NEW pos \in Nat, NEW j \in 1 .. L + 1, Covers(new[j], pos) PROVE pos < Start(B + 1)
  <2>1. CASE j = L + 1
    BY <1>6, <1>9, <2>1
  <2>2. CASE j \in 1 .. L
    BY <1>2, <1>7, <1>9, <2>2, BlockSize
  <2> QED BY <1>1, <2>1, <2>2
<1>10. LastIs(new, g, B + 1, 1)
  <2>1. (B + 1) - 1 = B /\ Start(1) = BLOCK_SIZE /\ b + 1 - 1 = b
    BY <1>3, FirstStarts
  <2> QED BY <1>3, <1>4, <1>5, <2>1 DEF LastIs
<1>11. new # << >> /\ B + 1 # 0 /\ 1 \in 1 .. B + 1 /\ B + 1 \in Nat
  BY <1>1, <1>4
<1>12. Maps(new, g, B + 1)
  BY <1>4, <1>5, <1>8, <1>9, <1>10, <1>11 DEF Maps
<1> QED BY <1>12 DEF new, g, e, L

\* The loop of write_data over the list, for the block that comes next.
LEMMA AddBlockMaps ==
  ASSUME NEW list, NEW f, NEW B \in Nat, Maps(list, f, B), NEW b \in Blocks,
         NEW pos \in Nat, Block(pos) = B
  PROVE  Maps(AddBlock(list, pos, b), Grown(f, B, b), B + 1)
<1>1. Maps(Append(list, Extent(Block(pos) * BLOCK_SIZE, b, BLOCK_SIZE)), Grown(f, B, b), B + 1)
  BY AppendMaps DEF Start
<1>2. CASE list = << >>
  BY <1>1, <1>2 DEF AddBlock, Block
<1>3. CASE list # << >>
  <2> DEFINE e == list[Len(list)]
  <2>1. PICK c \in 1 .. B : LastIs(list, f, B, c)
    BY <1>3 DEF Maps
  <2>2. B \in Nat /\ c \in Nat /\ e \in ExtentType
    BY <1>3 DEF Maps
  <2>3. (e.length + BLOCK_SIZE - 1) \div BLOCK_SIZE = c
    <3>1. e.length = Start(c) /\ Start(c) \in Nat
      BY <2>1, <2>2, Starts DEF LastIs
    <3> DEFINE p == e.length + BLOCK_SIZE - 1
    <3>2. p \in Nat /\ Start(c) <= p /\ p < Start(c) + BLOCK_SIZE
      BY <3>1, BlockSize
    <3> HIDE DEF p
    <3>3. Block(p) = c
      BY <2>2, <3>2, Position
    <3> QED BY <3>3 DEF Block, p
  <2>4. e.physical_block + c - 1 + 1 = e.physical_block + c
    BY <2>2 DEF ExtentType, Blocks
  <2>5. CASE e.physical_block + c = b
    <3>1. Maps([list EXCEPT ![Len(list)].length = @ + BLOCK_SIZE], Grown(f, B, b), B + 1)
      BY <1>3, <2>1, <2>5, MergeMaps
    <3> QED BY <1>1, <3>1 DEF AddBlock, Block
  <2>6. CASE e.physical_block + c # b
    BY <1>1, <2>3, <2>4, <2>6 DEF AddBlock, Block
  <2> QED BY <2>5, <2>6
<1> QED BY <1>2, <1>3

--------------------------------------------------------------------------------
\* One round of write_data's loop.

Bytes == ByteValues \cup {0, Foreign}
Devices == [Blocks -> [0 .. BLOCK_SIZE - 1 -> Bytes]]
Progress == [failed : BOOLEAN, used : SUBSET Blocks, chunks : Seq(ExtentType), data : Devices]

LEMMA LowestIsFree ==
  ASSUME NEW taken \in SUBSET Blocks, HasFree(taken, DeviceBlocks)
  PROVE  LowestFree(taken, DeviceBlocks) \in Blocks \ taken
<1> DEFINE S == {b \in 0 .. DeviceBlocks - 1 : b \notin taken}
<1>1. S \in SUBSET Nat /\ S # {}
  BY ExtentsAssumption DEF HasFree
<1>2. PICK b \in S : \A c \in S : b <= c
  BY <1>1, LeastNumber
<1>3. \A c \in 0 .. b - 1 : c \in taken
  <2> SUFFICES ASSUME NEW c \in 0 .. b - 1, c \notin taken PROVE FALSE
    OBVIOUS
  <2>1. b \in Nat /\ c \in Nat /\ c < b /\ c \in 0 .. DeviceBlocks - 1
    BY ExtentsAssumption
  <2> QED BY <1>2, <2>1
<1>4. b \in 0 .. DeviceBlocks - 1 /\ IsLowestFree(b, taken, DeviceBlocks)
  BY <1>3 DEF IsLowestFree
<1>5. /\ LowestFree(taken, DeviceBlocks) \in 0 .. DeviceBlocks - 1
      /\ IsLowestFree(LowestFree(taken, DeviceBlocks), taken, DeviceBlocks)
  BY <1>4 DEF LowestFree
<1> QED BY <1>5 DEF IsLowestFree, Blocks

\* The bytes from pos up to stop, in the block b.
Painted(d, b, pos, stop, v) ==
  [d EXCEPT ![b] = [i \in DOMAIN @ |-> IF i \in Place(pos) .. Place(stop - 1) THEN v ELSE @[i]]]

LEMMA PaintedIs ==
  ASSUME NEW d \in Devices, NEW b \in Blocks, NEW q \in Nat, NEW pos \in Nat, NEW stop \in Nat,
         NEW v \in ByteValues, Start(q) <= pos, pos < stop, stop <= Start(q) + BLOCK_SIZE
  PROVE  /\ Painted(d, b, pos, stop, v) \in Devices
         /\ \A c \in Blocks : c # b => Painted(d, b, pos, stop, v)[c] = d[c]
         /\ \A p \in Nat : Block(p) = q =>
              Painted(d, b, pos, stop, v)[b][Place(p)] =
                IF pos <= p /\ p < stop THEN v ELSE d[b][Place(p)]
<1> DEFINE row == [i \in 0 .. BLOCK_SIZE - 1 |-> IF i \in Place(pos) .. Place(stop - 1) THEN v ELSE d[b][i]]
<1>1. d[b] \in [0 .. BLOCK_SIZE - 1 -> Bytes] /\ DOMAIN d[b] = 0 .. BLOCK_SIZE - 1
  BY DEF Devices
<1>2. Painted(d, b, pos, stop, v) = [d EXCEPT ![b] = row]
  BY <1>1 DEF Painted
<1>3. row \in [0 .. BLOCK_SIZE - 1 -> Bytes]
  BY <1>1 DEF Bytes
<1>4. Start(q) \in Nat
  BY Starts
<1>5. Place(pos) = pos - Start(q) /\ Place(stop - 1) = stop - 1 - Start(q)
  <2>1. stop - 1 \in Nat /\ Start(q) <= stop - 1 /\ stop - 1 < Start(q) + BLOCK_SIZE
    BY <1>4, BlockSize
  <2>2. pos < Start(q) + BLOCK_SIZE
    BY <1>4, BlockSize
  <2> QED BY <2>1, <2>2, Position
<1>6. ASSUME NEW p \in Nat, Block(p) = q
      PROVE  row[Place(p)] = IF pos <= p /\ p < stop THEN v ELSE d[b][Place(p)]
  <2>1. Place(p) \in 0 .. BLOCK_SIZE - 1 /\ p = Start(q) + Place(p)
    BY <1>6, Split
  <2>2. Place(p) \in Place(pos) .. Place(stop - 1) <=> pos <= p /\ p < stop
    BY <1>4, <1>5, <2>1, BlockSize
  <2>3. row[Place(p)] = IF Place(p) \in Place(pos) .. Place(stop - 1) THEN v ELSE d[b][Place(p)]
    BY <2>1
  <2> QED BY <2>2, <2>3
<1> HIDE DEF row
<1>7. [d EXCEPT ![b] = row] \in Devices
  BY <1>3 DEF Devices
<1>8. [d EXCEPT ![b] = row][b] = row /\ \A c \in Blocks : c # b => [d EXCEPT ![b] = row][c] = d[c]
  BY DEF Devices
<1> QED BY <1>2, <1>6, <1>7, <1>8

\* What a round leaves: nothing was free, or one block b holds the new bytes.
Stopped(w, x) ==
  x.failed = TRUE /\ x.used = w.used /\ x.chunks = w.chunks /\ x.data = w.data
Went(w, x, b, pos, stop, v) ==
  x.failed = FALSE /\ x.used = w.used \cup {b} /\ x.data = Painted(w.data, b, pos, stop, v)

LEMMA RoundDoes ==
  ASSUME NEW w \in Progress, NEW g, NEW C \in Nat, Maps(w.chunks, g, C), w.failed = FALSE,
         NEW pos \in Nat, Block(pos) <= C, NEW stop, NEW v
  PROVE  LET x == WriteRound(w, pos, stop, v) IN
         /\ x.chunks \in Seq(ExtentType) /\ x.data \in Devices => x \in Progress
         /\ \/ Block(pos) = C /\ Stopped(w, x)
            \/ Block(pos) < C /\ x.chunks = w.chunks /\ Went(w, x, g[Block(pos)], pos, stop, v)
            \/ /\ Block(pos) = C
               /\ \E b \in Blocks \ w.used :
                    x.chunks = AddBlock(w.chunks, pos, b) /\ Went(w, x, b, pos, stop, v)
<1>1. Block(pos) \in Nat
  BY Split
<1>2. CASE Block(pos) < C
  <2>1. Mapped(w.chunks, pos) /\ BlockAt(w.chunks, pos) = g[Block(pos)]
    BY <1>2, BlockAtIs
  <2>2. g[Block(pos)] \in Blocks
    BY <1>1, <1>2 DEF Maps, BlockLists
  <2> QED BY <1>2, <2>1, <2>2 DEF WriteRound, Went, Painted, Place, Progress
<1>3. CASE Block(pos) = C
  <2>1. ~Mapped(w.chunks, pos)
    BY <1>1, <1>3, NotMapped
  <2>2. CASE HasFree(w.used, DeviceBlocks)
    <3>1. LowestFree(w.used, DeviceBlocks) \in Blocks \ w.used
      BY <2>2, LowestIsFree DEF Progress
    <3> QED BY <1>3, <2>1, <2>2, <3>1 DEF WriteRound, Went, Painted, Place, Progress
  <2>3. CASE ~HasFree(w.used, DeviceBlocks)
    <3>1. WriteRound(w, pos, stop, v) = [w EXCEPT !.failed = TRUE]
      BY <2>1, <2>3 DEF WriteRound
    <3>2. Stopped(w, [w EXCEPT !.failed = TRUE]) /\ [w EXCEPT !.failed = TRUE] \in Progress
      BY DEF Stopped, Progress
    <3> QED BY <1>3, <3>1, <3>2
  <2> QED BY <2>2, <2>3
<1> QED BY <1>1, <1>2, <1>3

--------------------------------------------------------------------------------
\* How far a write has come, in the file whose first B blocks are f: the blocks
\* g, of which there are C, and the bytes from o up to reach written.

Byte(d, f, p) == d[f[Block(p)]][Place(p)]

OneEach(f, B) == \A i, j \in 0 .. B - 1 : f[i] = f[j] => i = j

Fresh(w, g, C, o, v, reach) ==
  \A p \in Nat : p < Start(C) /\ o <= p /\ p < reach => Byte(w.data, g, p) = v

Kept(w, g, f, B, o, reach) ==
  \A p \in Nat : p < Start(B) /\ ~(o <= p /\ p < reach) => Byte(w.data, g, p) = Byte(data, f, p)

Reached(w, g, C, f, B, o, v, reach) ==
  /\ Maps(w.chunks, g, C)
  /\ \A i \in 0 .. B - 1 : g[i] = f[i]
  /\ \A i \in 0 .. C - 1 : g[i] \in w.used \ theirs
  /\ OneEach(g, C)
  /\ Fresh(w, g, C, o, v, reach)
  /\ Kept(w, g, f, B, o, reach)

\* What was taken stays taken.
Spares(w) == used \subseteq w.used /\ theirs \subseteq w.used

\* With the bytes from pos up to stop, what is written ends at next.
Widens(o, reach, pos, stop, next) ==
  \A p \in Nat : (o <= p /\ p < next) <=> ((o <= p /\ p < reach) \/ (pos <= p /\ p < stop))

\* The bytes of block q are written where it is, or it becomes the next block.
LEMMA RoundKeeps ==
  ASSUME NEW B \in Nat, NEW f, NEW C \in Nat, NEW g, B <= C, NEW w \in Progress, Spares(w),
         NEW o \in Nat, NEW v \in ByteValues, NEW reach \in Nat, NEW next \in Nat,
         Reached(w, g, C, f, B, o, v, reach),
         NEW pos \in Nat, NEW stop \in Nat, NEW q \in Nat, q <= C, Block(pos) = q,
         Start(q) <= pos, reach <= Start(q), pos < stop, stop <= Start(q) + BLOCK_SIZE,
         Widens(o, reach, pos, stop, next),
         NEW x, NEW b \in Blocks, Went(w, x, b, pos, stop, v),
         \/ q < C /\ b = g[q] /\ x.chunks = w.chunks
         \/ q = C /\ b \notin w.used /\ x.chunks = AddBlock(w.chunks, pos, b)
  PROVE  IF q < C THEN Reached(x, g, C, f, B, o, v, next)
                  ELSE Reached(x, Grown(g, C, b), C + 1, f, B, o, v, next)
<1> DEFINE h == IF q < C THEN g ELSE Grown(g, C, b)
           D == IF q < C THEN C ELSE C + 1
<1>1. /\ g \in BlockLists(C) /\ Maps(w.chunks, g, C)
      /\ w.data \in Devices /\ w.chunks \in Seq(ExtentType)
  BY DEF Reached, Maps, Progress
<1>2. /\ h \in BlockLists(D) /\ \A i \in 0 .. C - 1 : h[i] = g[i]
      /\ h[q] = b /\ D \in Nat /\ C <= D /\ q < D
      /\ \A i \in 0 .. D - 1 : i = q \/ i \in 0 .. C - 1
  <2>1. CASE q < C
    BY <1>1, <2>1
  <2>2. CASE q = C
    <3>1. /\ Grown(g, C, b) \in BlockLists(C + 1)
          /\ Grown(g, C, b)[C] = b
          /\ \A i \in 0 .. C - 1 : Grown(g, C, b)[i] = g[i]
      <4>1. g \in BlockLists(C)
        BY <1>1
      <4> QED BY <4>1, GrownIs
    <3>2. h = Grown(g, C, b) /\ D = C + 1
      BY <2>2
    <3>3. \A i \in 0 .. (C + 1) - 1 : i = C \/ i \in 0 .. C - 1
      OBVIOUS
    <3> HIDE DEF h, D
    <3> QED BY <2>2, <3>1, <3>2, <3>3
  <2> QED BY <2>1, <2>2
<1>3. Maps(x.chunks, h, D)
  <2>1. CASE q < C
    BY <1>1, <2>1
  <2>2. CASE q = C
    BY <1>1, <2>2, AddBlockMaps
  <2> QED BY <2>1, <2>2
<1> HIDE DEF h, D
<1>4. \A i \in 0 .. B - 1 : h[i] = f[i]
  BY <1>2 DEF Reached
<1>5. b \notin theirs
  <2>1. CASE q < C
    BY <2>1 DEF Reached
  <2>2. CASE q = C
    BY <2>2 DEF Spares
  <2> QED BY <2>1, <2>2
<1>6. \A i \in 0 .. D - 1 : h[i] \in x.used \ theirs
  BY <1>2, <1>5 DEF Reached, Went
<1>7. \A i \in 0 .. C - 1 : i # q => h[i] # b
  <2>1. CASE q < C
    BY <1>2, <2>1 DEF Reached, OneEach
  <2>2. CASE q = C
    BY <1>2, <2>2 DEF Reached
  <2> QED BY <2>1, <2>2
<1>8. OneEach(h, D)
  <2> SUFFICES ASSUME NEW i \in 0 .. D - 1, NEW j \in 0 .. D - 1, h[i] = h[j] PROVE i = j
    BY DEF OneEach
  <2>1. CASE i \in 0 .. C - 1 /\ j \in 0 .. C - 1
    BY <1>2, <2>1 DEF Reached, OneEach
  <2> QED BY <1>2, <1>7, <2>1
<1>9. /\ x.data \in Devices
      /\ \A c \in Blocks : c # b => x.data[c] = w.data[c]
      /\ \A p \in Nat : Block(p) = q =>
           x.data[b][Place(p)] = IF pos <= p /\ p < stop THEN v ELSE w.data[b][Place(p)]
  <2>1. w.data \in Devices /\ x.data = Painted(w.data, b, pos, stop, v)
    BY <1>1 DEF Went
  <2>2. /\ Painted(w.data, b, pos, stop, v) \in Devices
        /\ \A c \in Blocks : c # b => Painted(w.data, b, pos, stop, v)[c] = w.data[c]
        /\ \A p \in Nat : Block(p) = q =>
             Painted(w.data, b, pos, stop, v)[b][Place(p)] =
               IF pos <= p /\ p < stop THEN v ELSE w.data[b][Place(p)]
    BY <2>1, PaintedIs
  <2> QED BY <2>1, <2>2
<1>10. ASSUME NEW p \in Nat, Block(p) = q
       PROVE  Byte(x.data, h, p) = IF pos <= p /\ p < stop THEN v ELSE w.data[b][Place(p)]
  <2>1. h[Block(p)] = b
    BY <1>2, <1>10
  <2>2. Byte(x.data, h, p) = x.data[b][Place(p)]
    BY <2>1 DEF Byte
  <2>3. x.data[b][Place(p)] = IF pos <= p /\ p < stop THEN v ELSE w.data[b][Place(p)]
    BY <1>9, <1>10
  <2> QED BY <2>2, <2>3
<1>11. \A p \in Nat : Block(p) # q /\ p < Start(D) =>
         /\ Byte(x.data, h, p) = Byte(w.data, g, p)
         /\ ~(pos <= p /\ p < stop)
         /\ p < Start(C)
  <2> SUFFICES ASSUME NEW p \in Nat, Block(p) # q, p < Start(D)
               PROVE  /\ Byte(x.data, h, p) = Byte(w.data, g, p)
                      /\ ~(pos <= p /\ p < stop)
                      /\ p < Start(C)
    OBVIOUS
  <2>1. Block(p) \in 0 .. D - 1
    <3>1. D \in Nat
      BY <1>2
    <3>2. Block(p) \in Nat /\ Block(p) < D
      BY <3>1, Split, BlockBelow
    <3> QED BY <3>1, <3>2
  <2>2. Block(p) \in 0 .. C - 1
    BY <1>2, <2>1
  <2>3. h[Block(p)] # b /\ h[Block(p)] \in Blocks /\ h[Block(p)] = g[Block(p)]
    BY <1>1, <1>2, <1>7, <2>2 DEF BlockLists
  <2>4. Byte(x.data, h, p) = Byte(w.data, g, p)
    BY <1>9, <2>3 DEF Byte
  <2>5. ~(pos <= p /\ p < stop)
    <3> SUFFICES ASSUME pos <= p, p < stop PROVE FALSE
      OBVIOUS
    <3>1. Start(q) \in Nat
      BY Starts
    <3>2. Start(q) <= p /\ p < Start(q) + BLOCK_SIZE
      BY <3>1, BlockSize
    <3> QED BY <3>2, Position
  <2>6. p < Start(C)
    BY <2>2, BlockBelow
  <2> QED BY <2>4, <2>5, <2>6
<1>12. Start(B) \in Nat /\ Start(C) \in Nat /\ Start(D) \in Nat /\ Start(B) <= Start(C) /\ Start(C) <= Start(D)
  BY <1>2, Starts
<1>13. Fresh(x, h, D, o, v, next)
  <2> SUFFICES ASSUME NEW p \in Nat, p < Start(D), o <= p, p < next
               PROVE  Byte(x.data, h, p) = v
    BY DEF Fresh
  <2>1. (o <= p /\ p < reach) \/ (pos <= p /\ p < stop)
    BY DEF Widens
  <2>2. CASE Block(p) = q /\ pos <= p /\ p < stop
    BY <1>10, <2>2
  <2>3. CASE Block(p) = q /\ ~(pos <= p /\ p < stop)
    <3>1. Start(q) \in Nat /\ p = Start(q) + Place(p) /\ Place(p) \in Nat
      BY <2>3, Split, BlockSize
    <3>2. ~(p < reach)
      BY <3>1
    <3> QED BY <2>1, <2>3, <3>2
  <2>4. CASE Block(p) # q
    <3>1. p < Start(C) /\ o <= p /\ p < reach /\ Byte(x.data, h, p) = Byte(w.data, g, p)
      BY <1>11, <2>1, <2>4
    <3> QED BY <3>1 DEF Reached, Fresh
  <2> QED BY <2>2, <2>3, <2>4
<1>14. Kept(x, h, f, B, o, next)
  <2> SUFFICES ASSUME NEW p \in Nat, p < Start(B), ~(o <= p /\ p < next)
               PROVE  Byte(x.data, h, p) = Byte(data, f, p)
    BY DEF Kept
  <2>1. ~(o <= p /\ p < reach) /\ ~(pos <= p /\ p < stop)
    BY DEF Widens
  <2>2. Byte(w.data, g, p) = Byte(data, f, p)
    BY <2>1 DEF Reached, Kept
  <2>3. p < Start(C) /\ p < Start(D)
    BY <1>12
  <2>4. CASE Block(p) = q
    <3>1. q < C
      BY <2>3, <2>4, BlockBelow
    <3> QED BY <1>10, <2>1, <2>2, <2>4, <3>1 DEF Byte
  <2>5. CASE Block(p) # q
    BY <1>11, <2>2, <2>3, <2>5
  <2> QED BY <2>4, <2>5
<1>15. Reached(x, h, D, f, B, o, v, next)
  BY <1>3, <1>4, <1>6, <1>8, <1>13, <1>14 DEF Reached
<1> QED BY <1>15 DEF h, D

--------------------------------------------------------------------------------
\* write_data's loop is what its recursive equation says.

Begun == [failed |-> FALSE, used |-> used, chunks |-> chunks, data |-> data]
RoundAt(o, n, v, w, k) ==
  LET from == (o \div BLOCK_SIZE + k - 1) * BLOCK_SIZE
      pos  == IF from < o THEN o ELSE from
      stop == IF from + BLOCK_SIZE > o + n THEN o + n ELSE from + BLOCK_SIZE
  IN  WriteRound(w, pos, stop, v)
Rounds(o, n) == (o + n - 1) \div BLOCK_SIZE - o \div BLOCK_SIZE + 1
Turns(o, n, v, m, done) ==
  done = [k \in 0 .. m |-> IF k = 0 THEN Begun ELSE RoundAt(o, n, v, done[k - 1], k)]

LEMMA TurnsExist ==
  ASSUME NEW o, NEW n, NEW v, NEW m \in Nat
  PROVE  \E done : Turns(o, n, v, m, done)
<1> DEFINE S == {l \in Nat : \E done : Turns(o, n, v, l, done)}
<1>1. 0 \in S
  <2> DEFINE g == [k \in 0 .. 0 |-> Begun]
  <2>1. Turns(o, n, v, 0, g)
    BY DEF Turns
  <2> QED BY <2>1
<1>2. ASSUME NEW l \in S PROVE l + 1 \in S
  <2>1. PICK g : Turns(o, n, v, l, g)
    OBVIOUS
  <2> DEFINE h == [k \in 0 .. l + 1 |-> IF k <= l THEN g[k] ELSE RoundAt(o, n, v, g[l], k)]
  <2>2. \A k \in 0 .. l : g[k] = IF k = 0 THEN Begun ELSE RoundAt(o, n, v, g[k - 1], k)
    BY <2>1 DEF Turns
  <2>3. \A k \in 0 .. l + 1 : h[k] = IF k = 0 THEN Begun ELSE RoundAt(o, n, v, h[k - 1], k)
    <3> SUFFICES ASSUME NEW k \in 0 .. l + 1
                 PROVE  h[k] = IF k = 0 THEN Begun ELSE RoundAt(o, n, v, h[k - 1], k)
      OBVIOUS
    <3>1. CASE k <= l
      BY <2>2, <3>1
    <3>2. CASE k = l + 1
      <4>1. k # 0 /\ k - 1 = l /\ h[k] = RoundAt(o, n, v, g[l], k) /\ h[l] = g[l]
        BY <3>2
      <4> QED BY <4>1
    <3> QED BY <3>1, <3>2
  <2>4. h = [k \in 0 .. l + 1 |-> h[k]]
    OBVIOUS
  <2> HIDE DEF h
  <2>5. Turns(o, n, v, l + 1, h)
    BY <2>3, <2>4 DEF Turns
  <2> QED BY <2>5
<1>3. S \in SUBSET Nat
  OBVIOUS
<1> HIDE DEF S
<1>4. S = Nat
  BY <1>1, <1>2, <1>3, NatSet
<1> QED BY <1>4 DEF S

LEMMA WrittenTurns ==
  ASSUME NEW o, NEW n, NEW v, Rounds(o, n) \in Nat
  PROVE  \E done :
           /\ done[0] = Begun
           /\ \A k \in 0 .. Rounds(o, n) - 1 : done[k + 1] = RoundAt(o, n, v, done[k], k + 1)
           /\ Written(o, n, v) = done[Rounds(o, n)]
<1> DEFINE done == CHOOSE d : Turns(o, n, v, Rounds(o, n), d)
           R == Rounds(o, n)
<1>1. Turns(o, n, v, R, done)
  BY TurnsExist
<1>2. Written(o, n, v) = done[R]
  BY DEF Written, Turns, RoundAt, Rounds, Begun
<1> HIDE DEF done, R
<1>3. \A k \in 0 .. R : done[k] = IF k = 0 THEN Begun ELSE RoundAt(o, n, v, done[k - 1], k)
  BY <1>1 DEF Turns
<1>4. R \in Nat
  BY DEF R
<1>5. done[0] = Begun
  BY <1>3, <1>4
<1>6. \A k \in 0 .. R - 1 : done[k + 1] = RoundAt(o, n, v, done[k], k + 1)
  <2> SUFFICES ASSUME NEW k \in 0 .. R - 1 PROVE done[k + 1] = RoundAt(o, n, v, done[k], k + 1)
    OBVIOUS
  <2>1. k + 1 \in 0 .. R /\ k + 1 # 0 /\ (k + 1) - 1 = k
    BY <1>4
  <2> QED BY <1>3, <2>1
<1> QED BY <1>2, <1>5, <1>6 DEF R

--------------------------------------------------------------------------------
\* Where the rounds of a write are.

Lower(a, b) == IF a < b THEN a ELSE b
Higher(a, b) == IF a < b THEN b ELSE a

ReachOf(o, n, k) == Lower(o + n, Start(Block(o) + k))
From(o, k) == Higher(o, Start(Block(o) + k))
UpTo(o, n, k) == Lower(o + n, Start(Block(o) + k) + BLOCK_SIZE)

LEMMA RoundsIs ==
  ASSUME NEW o \in Nat, NEW n \in Nat \ {0}
  PROVE  /\ Rounds(o, n) \in Nat \ {0}
         /\ Block(o) + Rounds(o, n) = Block(o + n - 1) + 1
         /\ Block(o) \in Nat
         /\ o + n <= Start(Block(o) + Rounds(o, n))
         /\ \A k \in 0 .. Rounds(o, n) - 1 : Start(Block(o) + k) < o + n
<1> DEFINE e == o + n - 1
<1>1. e \in Nat /\ o <= e
  OBVIOUS
<1>2. Rounds(o, n) = Block(e) - Block(o) + 1
  BY DEF Rounds, Block
<1> HIDE DEF e
<1>3. /\ Block(o) \in Nat /\ Block(e) \in Nat /\ Start(Block(o)) \in Nat /\ Start(Block(e)) \in Nat
      /\ Place(o) \in 0 .. BLOCK_SIZE - 1 /\ Place(e) \in 0 .. BLOCK_SIZE - 1
      /\ o = Start(Block(o)) + Place(o) /\ e = Start(Block(e)) + Place(e)
  BY <1>1, Split
<1>4. Block(o) <= Block(e)
  <2> SUFFICES ASSUME Block(e) < Block(o) PROVE FALSE
    BY <1>3
  <2>1. Start(Block(e)) + BLOCK_SIZE <= Start(Block(o))
    BY <1>3, Starts
  <2> QED BY <1>1, <1>3, <2>1, BlockSize
<1>5. Start(Block(e) + 1) = Start(Block(e)) + BLOCK_SIZE
  BY <1>3, Starts
<1>6. ASSUME NEW k \in 0 .. Rounds(o, n) - 1 PROVE Start(Block(o) + k) < o + n
  <2>1. Block(o) + k \in Nat /\ Block(o) + k <= Block(e)
    BY <1>2, <1>3
  <2>2. Start(Block(o) + k) <= Start(Block(e)) /\ Start(Block(o) + k) \in Nat
    BY <1>3, <2>1, Starts
  <2>3. e < o + n
    BY <1>1 DEF e
  <2> QED BY <1>1, <1>3, <2>2, <2>3, BlockSize
<1>7. Rounds(o, n) \in Nat \ {0} /\ Block(o) + Rounds(o, n) = Block(e) + 1
  BY <1>2, <1>3, <1>4
<1>8. o + n = e + 1
  BY DEF e
<1>9. o + n <= Start(Block(e) + 1)
  BY <1>1, <1>3, <1>5, <1>8, BlockSize
<1> QED BY <1>3, <1>6, <1>7, <1>9 DEF e

LEMMA RoundIs ==
  ASSUME NEW o \in Nat, NEW n \in Nat \ {0}, NEW k \in Nat, NEW v, NEW w
  PROVE  RoundAt(o, n, v, w, k + 1) = WriteRound(w, From(o, k), UpTo(o, n, k), v)
<1>1. Block(o) \in Nat /\ Block(o) + (k + 1) - 1 = Block(o) + k /\ Block(o) + k \in Nat
  BY Split
<1>2. Start(Block(o) + k) \in Nat
  BY <1>1, Starts
<1> DEFINE from == Start(Block(o) + k)
<1>3. (o \div BLOCK_SIZE + (k + 1) - 1) * BLOCK_SIZE = from
  BY <1>1 DEF Block, Start
<1> HIDE DEF from
<1>4. /\ (IF from < o THEN o ELSE from) = Higher(o, from)
      /\ (IF from + BLOCK_SIZE > o + n THEN o + n ELSE from + BLOCK_SIZE) = Lower(o + n, from + BLOCK_SIZE)
  <2>1. from \in Nat /\ from + BLOCK_SIZE \in Nat /\ o + n \in Nat
    BY <1>2, BlockSize DEF from
  <2> QED BY <2>1 DEF Higher, Lower
<1>5. RoundAt(o, n, v, w, k + 1) = WriteRound(w, Higher(o, from), Lower(o + n, from + BLOCK_SIZE), v)
  BY <1>3, <1>4 DEF RoundAt
<1> QED BY <1>5 DEF From, UpTo, from

LEMMA RoundBounds ==
  ASSUME NEW o \in Nat, NEW n \in Nat \ {0}, NEW k \in 0 .. Rounds(o, n) - 1
  PROVE  /\ From(o, k) \in Nat /\ UpTo(o, n, k) \in Nat
         /\ ReachOf(o, n, k) \in Nat /\ ReachOf(o, n, k + 1) \in Nat
         /\ Block(From(o, k)) = Block(o) + k /\ Block(o) + k \in Nat
         /\ Start(Block(o) + k) <= From(o, k) /\ From(o, k) < UpTo(o, n, k)
         /\ UpTo(o, n, k) <= Start(Block(o) + k) + BLOCK_SIZE
         /\ ReachOf(o, n, k) <= Start(Block(o) + k)
         /\ Widens(o, ReachOf(o, n, k), From(o, k), UpTo(o, n, k), ReachOf(o, n, k + 1))
<1> DEFINE q == Block(o) + k
<1>1. /\ k \in Nat /\ Block(o) \in Nat /\ q \in Nat /\ Start(q) < o + n
      /\ Block(o) + (k + 1) = q + 1
  <2>1. Rounds(o, n) \in Nat /\ Block(o) \in Nat /\ Start(q) < o + n
    BY RoundsIs
  <2> QED BY <2>1
<1>2. /\ Start(q) \in Nat /\ Start(q + 1) = Start(q) + BLOCK_SIZE
      /\ Start(Block(o)) \in Nat /\ Start(Block(o)) <= o /\ o < Start(Block(o)) + BLOCK_SIZE
  <2>1. /\ o = Start(Block(o)) + Place(o) /\ Place(o) \in 0 .. BLOCK_SIZE - 1
        /\ Start(Block(o)) \in Nat
    BY Split
  <2>2. Start(q) \in Nat /\ Start(q + 1) = Start(q) + BLOCK_SIZE
    BY <1>1, Starts
  <2> QED BY <2>1, <2>2, BlockSize
<1>3. (k = 0 /\ Start(q) <= o /\ o < Start(q) + BLOCK_SIZE) \/ o < Start(q)
  <2>1. CASE k = 0
    <3>1. q = Block(o)
      BY <1>1, <2>1
    <3> QED BY <1>2, <2>1, <3>1
  <2>2. CASE k # 0
    <3>1. Block(o) < q
      BY <1>1, <2>2
    <3>2. Start(Block(o)) + BLOCK_SIZE <= Start(q)
      BY <1>1, <3>1, Starts
    <3> QED BY <1>2, <3>2, BlockSize
  <2> QED BY <2>1, <2>2
<1> DEFINE pos == From(o, k)
           stop == UpTo(o, n, k)
           reach == ReachOf(o, n, k)
           next == ReachOf(o, n, k + 1)
           s == Start(q)
<1>4. /\ pos = Higher(o, s) /\ stop = Lower(o + n, s + BLOCK_SIZE)
      /\ reach = Lower(o + n, s) /\ next = Lower(o + n, s + BLOCK_SIZE)
  BY <1>1, <1>2 DEF From, UpTo, ReachOf
<1> HIDE DEF pos, stop, reach, next
<1>5. s \in Nat /\ s < o + n /\ ((s <= o /\ o < s + BLOCK_SIZE) \/ o < s)
  BY <1>1, <1>2, <1>3
<1> HIDE DEF s
<1>6. /\ pos \in Nat /\ stop \in Nat /\ reach = s /\ next \in Nat
      /\ s <= pos /\ pos < stop /\ stop <= s + BLOCK_SIZE /\ pos < s + BLOCK_SIZE
      /\ pos = IF s <= o THEN o ELSE s
      /\ next = stop
  BY <1>4, <1>5, BlockSize DEF Higher, Lower
<1>7. Widens(o, reach, pos, stop, next)
  <2> SUFFICES ASSUME NEW p \in Nat
               PROVE  (o <= p /\ p < next) <=> ((o <= p /\ p < reach) \/ (pos <= p /\ p < stop))
    BY DEF Widens
  <2> QED BY <1>5, <1>6
<1>8. Block(pos) = q
  BY <1>1, <1>6, Position DEF s
<1> QED BY <1>1, <1>5, <1>6, <1>7, <1>8 DEF s, pos, stop, reach, next

--------------------------------------------------------------------------------
\* The whole write, round after round.

\* What the file is made of, in every state.
Laid(f, B) ==
  /\ B \in Nat /\ Maps(chunks, f, B)
  /\ size <= Start(B)
  /\ \A i \in 0 .. B - 1 : f[i] \in used \ theirs
  /\ OneEach(f, B)

DeviceTyped ==
  /\ data \in Devices /\ used \in SUBSET Blocks /\ theirs \subseteq used /\ size \in 0 .. MaxSize

\* A write that ran out of blocks has replaced what there was to replace.
Overwrote(w, f, B, o, n, v) ==
  \A p \in Nat : p < Start(B) =>
    Byte(w.data, f, p) = IF o <= p /\ p < o + n THEN v ELSE Byte(data, f, p)

After(w, k, f, B, o, n, v) ==
  /\ w \in Progress /\ Spares(w)
  /\ w.failed = FALSE =>
       \E g : Reached(w, g, Higher(B, Block(o) + k), f, B, o, v, ReachOf(o, n, k))
  /\ w.failed = TRUE => Overwrote(w, f, B, o, n, v)

LEMMA AfterNone ==
  ASSUME DeviceTyped, NEW f, NEW B, Laid(f, B), NEW o \in Nat, NEW n \in Nat \ {0}, NEW v, o <= size
  PROVE  After(Begun, 0, f, B, o, n, v)
<1>1. /\ B \in Nat /\ Block(o) \in Nat /\ Start(Block(o)) \in Nat /\ Start(Block(o)) <= o
      /\ Start(B) \in Nat /\ o <= Start(B)
  <2>1. B \in Nat /\ size <= Start(B) /\ size \in Nat
    BY ExtentsAssumption DEF Laid, DeviceTyped
  <2>2. /\ Block(o) \in Nat /\ Place(o) \in 0 .. BLOCK_SIZE - 1 /\ o = Start(Block(o)) + Place(o)
        /\ Start(Block(o)) \in Nat
    BY Split
  <2>3. Start(B) \in Nat
    BY <2>1, Starts
  <2> QED BY <2>1, <2>2, <2>3, BlockSize
<1>2. Block(o) <= B
  <2> SUFFICES ASSUME B < Block(o) PROVE FALSE
    BY <1>1
  <2>1. Start(B) + BLOCK_SIZE <= Start(Block(o))
    BY <1>1, Starts
  <2> QED BY <1>1, <2>1, BlockSize
<1>3. Higher(B, Block(o) + 0) = B
  BY <1>1, <1>2 DEF Higher
<1>4. \A p \in Nat : ~(o <= p /\ p < ReachOf(o, n, 0))
  <2> SUFFICES ASSUME NEW p \in Nat, o <= p, p < ReachOf(o, n, 0) PROVE FALSE
    OBVIOUS
  <2>1. Block(o) + 0 = Block(o)
    BY <1>1
  <2> QED BY <1>1, <2>1 DEF ReachOf, Lower
<1>5. Begun \in Progress /\ Begun.failed = FALSE /\ Begun.used = used /\ Begun.chunks = chunks /\ Begun.data = data
  BY DEF Begun, Progress, DeviceTyped, Laid, Maps
<1> DEFINE w == Begun
<1> HIDE DEF w
<1>6. w.used = used /\ w.chunks = chunks /\ w.data = data
  BY <1>5 DEF w
<1>7. Reached(w, f, B, f, B, o, v, ReachOf(o, n, 0))
  BY <1>4, <1>6 DEF Reached, Fresh, Kept, Laid
<1>8. Spares(w)
  BY <1>6 DEF Spares, DeviceTyped
<1> QED BY <1>3, <1>5, <1>7, <1>8 DEF After, w

LEMMA AfterRound ==
  ASSUME DeviceTyped, NEW f, NEW B, Laid(f, B), NEW o \in Nat, NEW n \in Nat \ {0}, NEW v \in ByteValues,
         NEW k \in 0 .. Rounds(o, n) - 1, NEW w, After(w, k, f, B, o, n, v)
  PROVE  After(RoundAt(o, n, v, w, k + 1), k + 1, f, B, o, n, v)
<1> DEFINE x == WriteRound(w, From(o, k), UpTo(o, n, k), v)
           q == Block(o) + k
           C == Higher(B, q)
           pos == From(o, k)
           stop == UpTo(o, n, k)
           reach == ReachOf(o, n, k)
           next == ReachOf(o, n, k + 1)
<1>1. /\ pos \in Nat /\ stop \in Nat /\ reach \in Nat /\ next \in Nat
      /\ Block(pos) = q /\ q \in Nat
      /\ Start(q) <= pos /\ pos < stop /\ stop <= Start(q) + BLOCK_SIZE /\ reach <= Start(q)
      /\ Widens(o, reach, pos, stop, next)
  BY RoundBounds
<1>2. k \in Nat /\ Block(o) \in Nat /\ B \in Nat
  BY RoundsIs DEF Laid
<1>3. RoundAt(o, n, v, w, k + 1) = x
  BY <1>2, RoundIs
<1>4. /\ C \in Nat /\ q <= C /\ B <= C /\ Higher(B, Block(o) + (k + 1)) = IF q < C THEN C ELSE C + 1
      /\ q = C => B <= q
  <2>1. Block(o) + (k + 1) = q + 1
    BY <1>2
  <2> QED BY <1>1, <1>2, <2>1 DEF Higher
<1>5. w \in Progress /\ Spares(w)
  BY DEF After
<1>6. CASE w.failed = TRUE
  <2>1. x = [w EXCEPT !.failed = TRUE]
    BY <1>6 DEF WriteRound
  <2>2. x \in Progress /\ x.failed = TRUE /\ x.data = w.data /\ x.used = w.used
    BY <1>5, <2>1 DEF Progress
  <2> HIDE DEF x
  <2>3. Overwrote(x, f, B, o, n, v) /\ Spares(x)
    BY <1>5, <1>6, <2>2 DEF After, Overwrote, Spares
  <2> QED BY <1>3, <2>2, <2>3 DEF After
<1>7. CASE w.failed = FALSE
  <2>1. PICK g : Reached(w, g, C, f, B, o, v, reach)
    BY <1>7 DEF After
  <2>2. Maps(w.chunks, g, C)
    BY <2>1 DEF Reached
  <2> HIDE DEF C, q, pos, stop, reach, next
  <2>3. /\ x.chunks \in Seq(ExtentType) /\ x.data \in Devices => x \in Progress
        /\ \/ q = C /\ Stopped(w, x)
           \/ q < C /\ x.chunks = w.chunks /\ Went(w, x, g[q], pos, stop, v)
           \/ /\ q = C
              /\ \E b \in Blocks \ w.used :
                   x.chunks = AddBlock(w.chunks, pos, b) /\ Went(w, x, b, pos, stop, v)
    <3>1. x = WriteRound(w, pos, stop, v)
      BY DEF pos, stop
    <3>2. C \in Nat /\ pos \in Nat /\ Block(pos) = q /\ Block(pos) <= C
      BY <1>1, <1>4
    <3> HIDE DEF x
    <3> DEFINE y == WriteRound(w, pos, stop, v)
    <3>3. /\ y.chunks \in Seq(ExtentType) /\ y.data \in Devices => y \in Progress
          /\ \/ Block(pos) = C /\ Stopped(w, y)
             \/ Block(pos) < C /\ y.chunks = w.chunks /\ Went(w, y, g[Block(pos)], pos, stop, v)
             \/ /\ Block(pos) = C
                /\ \E b \in Blocks \ w.used :
                     y.chunks = AddBlock(w.chunks, pos, b) /\ Went(w, y, b, pos, stop, v)
      BY <1>5, <1>7, <2>2, <3>2, RoundDoes
    <3> HIDE DEF y
    <3>4. x = y
      BY <3>1 DEF y
    <3> QED BY <3>2, <3>3, <3>4
  <2> HIDE DEF x
  <2>4. CASE q = C /\ Stopped(w, x)
    <3>1. /\ x.failed = TRUE /\ x.used = w.used /\ x.chunks = w.chunks /\ x.data = w.data
          /\ w.chunks \in Seq(ExtentType) /\ w.data \in Devices
      BY <1>5, <2>4 DEF Stopped, Progress
    <3>2. x \in Progress /\ Spares(x)
      BY <1>5, <2>3, <3>1 DEF Spares
    <3>3. Overwrote(x, f, B, o, n, v)
      <4> SUFFICES ASSUME NEW p \in Nat, p < Start(B)
                   PROVE  Byte(w.data, f, p) = IF o <= p /\ p < o + n THEN v ELSE Byte(data, f, p)
        BY <3>1 DEF Overwrote, Byte
      <4>1. Start(B) \in Nat /\ Start(q) \in Nat /\ Start(B) <= Start(q) /\ Start(C) \in Nat /\ Start(B) <= Start(C)
        BY <1>1, <1>2, <1>4, <2>4, Starts
      <4>2. Block(p) \in 0 .. B - 1
        BY <1>2, Split, BlockBelow
      <4>3. Byte(w.data, f, p) = Byte(w.data, g, p)
        BY <2>1, <4>2 DEF Byte, Reached
      <4>4. p < reach <=> p < o + n
        <5>1. reach = Lower(o + n, Start(q))
          BY DEF reach, q, ReachOf
        <5> QED BY <4>1, <5>1 DEF Lower
      <4>5. CASE o <= p /\ p < reach
        BY <2>1, <4>1, <4>3, <4>4, <4>5 DEF Reached, Fresh
      <4>6. CASE ~(o <= p /\ p < reach)
        BY <2>1, <4>3, <4>4, <4>6 DEF Reached, Kept
      <4> QED BY <4>5, <4>6
    <3> QED BY <1>3, <3>1, <3>2, <3>3 DEF After
  <2>5. ASSUME NEW b \in Blocks, Went(w, x, b, pos, stop, v),
               \/ q < C /\ b = g[q] /\ x.chunks = w.chunks
               \/ q = C /\ b \notin w.used /\ x.chunks = AddBlock(w.chunks, pos, b)
        PROVE  After(x, k + 1, f, B, o, n, v)
    <3>1. IF q < C THEN Reached(x, g, C, f, B, o, v, next)
                   ELSE Reached(x, Grown(g, C, b), C + 1, f, B, o, v, next)
      BY <1>1, <1>2, <1>4, <1>5, <2>1, <2>5, RoundKeeps
    <3>2. \E h : Reached(x, h, IF q < C THEN C ELSE C + 1, f, B, o, v, next)
      BY <3>1
    <3>3. x.chunks \in Seq(ExtentType)
      BY <3>2 DEF Reached, Maps
    <3>4. x.failed = FALSE /\ x.used = w.used \cup {b} /\ x.data = Painted(w.data, b, pos, stop, v)
      BY <2>5 DEF Went
    <3>5. x.data \in Devices
      <4>1. w.data \in Devices
        BY <1>5 DEF Progress
      <4> QED BY <1>1, <3>4, <4>1, PaintedIs
    <3>6. x \in Progress /\ Spares(x)
      BY <1>5, <2>3, <3>3, <3>4, <3>5 DEF Spares
    <3> QED BY <1>4, <3>2, <3>4, <3>6 DEF After, next
  <2>6. CASE q < C /\ x.chunks = w.chunks /\ Went(w, x, g[q], pos, stop, v)
    <3>1. g[q] \in Blocks
      BY <1>1, <1>4, <2>2, <2>6 DEF Maps, BlockLists
    <3> QED BY <1>3, <2>5, <2>6, <3>1
  <2>7. CASE /\ q = C
             /\ \E b \in Blocks \ w.used :
                  x.chunks = AddBlock(w.chunks, pos, b) /\ Went(w, x, b, pos, stop, v)
    BY <1>3, <2>5, <2>7
  <2> QED BY <2>3, <2>4, <2>6, <2>7
<1>8. w.failed \in BOOLEAN
  BY <1>5 DEF Progress
<1> QED BY <1>6, <1>7, <1>8

LEMMA AfterAll ==
  ASSUME DeviceTyped, NEW f, NEW B, Laid(f, B), NEW o \in Nat, NEW n \in Nat \ {0}, NEW v \in ByteValues,
         o <= size
  PROVE  After(Written(o, n, v), Rounds(o, n), f, B, o, n, v)
<1> DEFINE R == Rounds(o, n)
<1>1. R \in Nat
  BY RoundsIs
<1>2. PICK done : /\ done[0] = Begun
                  /\ \A k \in 0 .. R - 1 : done[k + 1] = RoundAt(o, n, v, done[k], k + 1)
                  /\ Written(o, n, v) = done[R]
  BY <1>1, WrittenTurns
<1> DEFINE S == {k \in Nat : k <= R => After(done[k], k, f, B, o, n, v)}
<1>3. 0 \in S
  BY <1>2, AfterNone
<1>4. ASSUME NEW k \in S PROVE k + 1 \in S
  <2> SUFFICES ASSUME k + 1 <= R PROVE After(done[k + 1], k + 1, f, B, o, n, v)
    BY <1>1
  <2>1. k \in 0 .. R - 1 /\ After(done[k], k, f, B, o, n, v)
    BY <1>1
  <2>2. done[k + 1] = RoundAt(o, n, v, done[k], k + 1)
    BY <1>2, <2>1
  <2> QED BY <2>1, <2>2, AfterRound
<1>5. S \in SUBSET Nat
  OBVIOUS
<1> HIDE DEF S
<1>6. S = Nat
  BY <1>3, <1>4, <1>5, NatSet
<1>7. After(done[R], R, f, B, o, n, v)
  BY <1>1, <1>6 DEF S
<1> QED BY <1>2, <1>7

--------------------------------------------------------------------------------
\* Reading the whole file.

Contents(d, f, n) == [i \in 1 .. n |-> Byte(d, f, i - 1)]

LEMMA PrefixIs ==
  ASSUME NEW S, NEW n \in Nat, NEW m \in 0 .. n, NEW s \in [1 .. n -> S]
  PROVE  SubSeq(s, 1, m) = [i \in 1 .. m |-> s[i]]
<1>1. \A i \in 1 .. m : s[i] \in S
  OBVIOUS
<1>2. m \in Int /\ 1 \in Int
  OBVIOUS
<1>3. /\ SubSeq(s, 1, m) \in Seq(S)
      /\ Len(SubSeq(s, 1, m)) = IF 1 <= m THEN m - 1 + 1 ELSE 0
      /\ \A i \in 1 .. m - 1 + 1 : SubSeq(s, 1, m)[i] = s[1 + i - 1]
  BY <1>1, <1>2, SubSeqProperties
<1> DEFINE t == SubSeq(s, 1, m)
<1> HIDE DEF t
<1>4. t \in Seq(S) /\ Len(t) = m /\ \A i \in 1 .. m : t[i] = s[i]
  BY <1>3 DEF t
<1>5. t = [i \in 1 .. m |-> t[i]]
  BY <1>4
<1>6. t = [i \in 1 .. m |-> s[i]]
  BY <1>4, <1>5
<1> QED BY <1>6 DEF t

LEMMA ByteTyped ==
  ASSUME NEW d \in Devices, NEW list, NEW f, NEW B \in Nat, Maps(list, f, B), NEW p \in Nat, p < Start(B)
  PROVE  Byte(d, f, p) \in Bytes /\ ByteAt(d, list, p) = Byte(d, f, p) /\ Block(p) \in 0 .. B - 1
<1>1. Block(p) \in 0 .. B - 1 /\ Block(p) < B
  BY MapsHolds
<1>2. f[Block(p)] \in Blocks
  BY <1>1 DEF Maps, BlockLists
<1>3. Place(p) \in 0 .. BLOCK_SIZE - 1
  BY Split
<1>4. d[f[Block(p)]] \in [0 .. BLOCK_SIZE - 1 -> Bytes]
  BY <1>2 DEF Devices
<1>5. Mapped(list, p) /\ BlockAt(list, p) = f[Block(p)]
  BY <1>1, BlockAtIs
<1>6. Byte(d, f, p) \in Bytes
  BY <1>3, <1>4 DEF Byte
<1>7. ByteAt(d, list, p) = Byte(d, f, p)
  BY <1>5 DEF ByteAt, Byte, Place
<1> QED BY <1>1, <1>6, <1>7

LEMMA ReadIs ==
  ASSUME NEW d \in Devices, NEW list, NEW f, NEW B \in Nat, Maps(list, f, B), NEW n \in Nat, n <= Start(B)
  PROVE  Read(d, list, n, 0, n) = Contents(d, f, n)
<1> DEFINE s == [i \in 1 .. n |-> ByteAt(d, list, 0 + i - 1)]
<1>1. Read(d, list, n, 0, n) = SubSeq(s, 1, n)
  <2>1. (IF n > 0 THEN n - 0 ELSE 0) = n
    OBVIOUS
  <2> QED BY <2>1 DEF Read
<1>2. \A i \in 1 .. n : ByteAt(d, list, 0 + i - 1) = Byte(d, f, i - 1) /\ Byte(d, f, i - 1) \in Bytes
  <2> SUFFICES ASSUME NEW i \in 1 .. n
               PROVE  ByteAt(d, list, 0 + i - 1) = Byte(d, f, i - 1) /\ Byte(d, f, i - 1) \in Bytes
    OBVIOUS
  <2>1. Start(B) \in Nat
    BY Starts
  <2>2. i - 1 \in Nat /\ i - 1 < Start(B) /\ 0 + i - 1 = i - 1
    BY <2>1
  <2>3. ByteAt(d, list, i - 1) = Byte(d, f, i - 1) /\ Byte(d, f, i - 1) \in Bytes
    BY <2>2, ByteTyped
  <2> QED BY <2>2, <2>3
<1>3. s = Contents(d, f, n) /\ s \in [1 .. n -> Bytes]
  BY <1>2 DEF Contents
<1> HIDE DEF s
<1>4. SubSeq(s, 1, n) = [i \in 1 .. n |-> s[i]]
  BY <1>3, PrefixIs
<1>5. s = [i \in 1 .. n |-> s[i]]
  BY <1>3
<1> QED BY <1>1, <1>3, <1>4, <1>5

--------------------------------------------------------------------------------
\* The invariant: some blocks are the file's, and its reader sees their bytes.

Holds(f, B) == Laid(f, B) /\ seen = Contents(data, f, size)
ExtentsInv == DeviceTyped /\ \E f, B : Holds(f, B)

\* No write starts past the end of the file.
NoGap == MaxGap = 0

LEMMA ExtentsStart == ASSUME Init PROVE ExtentsInv
<1>1. DeviceTyped
  <2>1. data = [b \in Blocks |-> [i \in 0 .. BLOCK_SIZE - 1 |-> 0]] /\ 0 \in Bytes
    BY DEF Init, Bytes
  <2>2. data \in Devices
    BY <2>1 DEF Devices
  <2>3. theirs \in SUBSET Blocks /\ used = theirs /\ size = 0
    BY DEF Init
  <2> QED BY <2>2, <2>3, ExtentsAssumption DEF DeviceTyped
<1>2. PICK f : f \in BlockLists(0)
  <2>1. [i \in 0 .. 0 - 1 |-> 0] \in BlockLists(0)
    BY DEF BlockLists
  <2> QED BY <2>1
<1>3. Maps(<< >>, f, 0)
  BY <1>2, MapsNothing
<1>4. chunks = << >> /\ size = 0 /\ seen = << >>
  BY DEF Init
<1>5. Laid(f, 0)
  BY <1>3, <1>4, FirstStarts DEF Laid, OneEach
<1>6. seen = Contents(data, f, size)
  BY <1>4 DEF Contents
<1> QED BY <1>1, <1>5, <1>6 DEF ExtentsInv, Holds

\* A write, whether it has the blocks it needs or not: the file is the size it
\* should be, and every byte of it is the new one or the one that was there.
Overwritten(f, g, o, n, v) ==
  \A p \in Nat : p < size' =>
    Byte(data', g, p) = IF o <= p /\ p < o + n THEN v ELSE Byte(data, f, p)

LEMMA WriteKeeps ==
  ASSUME DeviceTyped, NoGap, NEW f, NEW B, Laid(f, B),
         NEW o \in 0 .. MaxSize, NEW n \in 1 .. MaxSize, NEW v \in ByteValues, Write(o, n, v)
  PROVE  /\ DeviceTyped' /\ o <= size /\ o + n <= MaxSize
         /\ size' \in {size, Higher(size, o + n)}
         /\ size' < o + n => size' = size
         /\ \E g, C : Holds(g, C)' /\ Overwritten(f, g, o, n, v)
<1> DEFINE w == Written(o, n, v)
           R == Rounds(o, n)
<1>1. /\ o \in Nat /\ n \in Nat \ {0} /\ size \in Nat /\ MaxSize \in Nat /\ o <= size /\ o + n <= MaxSize
      /\ B \in Nat
  BY ExtentsAssumption DEF NoGap, Write, DeviceTyped, Laid
<1>2. After(w, R, f, B, o, n, v)
  BY <1>1, AfterAll
<1>3. /\ data' = w.data /\ used' = w.used /\ theirs' = theirs
      /\ IF w.failed THEN chunks' = chunks /\ size' = size
                     ELSE chunks' = w.chunks /\ size' = IF o + n > size THEN o + n ELSE size
      /\ seen' = Read(data', chunks', size', 0, size')
  BY DEF Write
<1>4. /\ R \in Nat /\ Block(o) \in Nat /\ Block(o) + R \in Nat
      /\ o + n <= Start(Block(o) + R)
  <2>1. o \in Nat /\ n \in Nat \ {0}
    BY <1>1
  <2>2. R \in Nat \ {0} /\ Block(o) \in Nat /\ o + n <= Start(Block(o) + R)
    BY <2>1, RoundsIs
  <2> QED BY <2>2
<1> HIDE DEF w, R
<1>5. w \in Progress /\ Spares(w)
  BY <1>2 DEF After
<1>6. size' \in {size, Higher(size, o + n)} /\ size' \in 0 .. MaxSize
  <2>1. size <= MaxSize
    BY DEF DeviceTyped
  <2> QED BY <1>1, <1>3, <2>1 DEF Higher
<1>7. DeviceTyped'
  BY <1>3, <1>5, <1>6 DEF DeviceTyped, Progress, Spares
<1>8. /\ Start(B) \in Nat /\ size <= Start(B)
  BY <1>1, Starts DEF Laid
<1>9. CASE w.failed = TRUE
  <2>1. Overwrote(w, f, B, o, n, v) /\ chunks' = chunks /\ size' = size
    BY <1>2, <1>3, <1>9 DEF After
  <2>2. Laid(f, B)'
    BY <1>3, <1>5, <2>1 DEF Laid, Spares
  <2>3. seen' = Contents(data', f, size')
    <3>1. data' \in Devices /\ size' \in Nat /\ size' <= Start(B) /\ Maps(chunks', f, B)
      BY <1>1, <1>7, <1>8, <2>1, <2>2 DEF DeviceTyped, Laid
    <3> QED BY <1>1, <1>3, <3>1, ReadIs
  <2>4. Overwritten(f, f, o, n, v)
    <3> SUFFICES ASSUME NEW p \in Nat, p < size'
                 PROVE  Byte(data', f, p) = IF o <= p /\ p < o + n THEN v ELSE Byte(data, f, p)
      BY DEF Overwritten
    <3>1. p < Start(B)
      BY <1>1, <1>8, <2>1
    <3> QED BY <1>3, <2>1, <3>1 DEF Overwrote
  <2> QED BY <1>1, <1>6, <1>7, <2>1, <2>2, <2>3, <2>4 DEF Holds
<1>10. CASE w.failed = FALSE
  <2> DEFINE C == Higher(B, Block(o) + R)
             reach == ReachOf(o, n, R)
  <2>1. PICK g : Reached(w, g, C, f, B, o, v, reach)
    BY <1>2, <1>10 DEF After
  <2>2. C \in Nat /\ B <= C /\ Block(o) + R <= C
    BY <1>1, <1>4 DEF Higher
  <2>3. /\ Start(C) \in Nat /\ Start(B) <= Start(C) /\ o + n <= Start(C)
    <3>1. /\ Start(C) \in Nat /\ Start(B) <= Start(C) /\ Start(Block(o) + R) <= Start(C)
          /\ Start(Block(o) + R) \in Nat
      BY <1>1, <1>4, <2>2, Starts
    <3> QED BY <1>1, <1>4, <3>1
  <2>4. reach = o + n
    <3>1. Start(Block(o) + R) \in Nat
      BY <1>4, Starts
    <3> QED BY <1>1, <1>4, <3>1 DEF ReachOf, Lower
  <2> HIDE DEF C, reach
  <2>5. /\ chunks' = w.chunks /\ size' = IF o + n > size THEN o + n ELSE size
        /\ Maps(w.chunks, g, C)
    BY <1>3, <1>10, <2>1 DEF Reached
  <2>6. size' \in Nat /\ size' <= Start(C)
    BY <1>1, <1>8, <2>3, <2>5
  <2>7. Laid(g, C)'
    BY <1>3, <2>1, <2>2, <2>5, <2>6 DEF Laid, Reached
  <2>8. seen' = Contents(data', g, size')
    <3>1. data' \in Devices /\ Maps(chunks', g, C)
      BY <1>7, <2>5 DEF DeviceTyped
    <3> QED BY <1>3, <2>2, <2>6, <3>1, ReadIs
  <2>9. Overwritten(f, g, o, n, v)
    <3> SUFFICES ASSUME NEW p \in Nat, p < size'
                 PROVE  Byte(data', g, p) = IF o <= p /\ p < o + n THEN v ELSE Byte(data, f, p)
      BY DEF Overwritten
    <3>1. p < Start(C)
      BY <2>3, <2>6
    <3>2. CASE o <= p /\ p < o + n
      BY <1>3, <2>1, <2>4, <3>1, <3>2 DEF Reached, Fresh, Byte
    <3>3. CASE ~(o <= p /\ p < o + n)
      <4>1. p < Start(B)
        BY <1>1, <1>8, <2>5, <3>3
      <4> QED BY <1>3, <2>1, <2>4, <3>3, <4>1 DEF Reached, Kept, Byte
    <3> QED BY <3>2, <3>3
  <2>10. size' < o + n => size' = size
    BY <1>1, <2>5
  <2> QED BY <1>1, <1>6, <1>7, <2>7, <2>8, <2>9, <2>10 DEF Holds
<1>11. w.failed \in BOOLEAN
  BY <1>5 DEF Progress
<1> QED BY <1>9, <1>10, <1>11

LEMMA TakeKeeps ==
  ASSUME DeviceTyped, NEW f, NEW B, Holds(f, B), OthersTake
  PROVE  DeviceTyped' /\ Holds(f, B)' /\ seen' = seen
<1> DEFINE b == LowestFree(used, DeviceBlocks)
           row == [i \in 0 .. BLOCK_SIZE - 1 |-> Foreign]
<1>1. /\ b \in Blocks \ used
      /\ used' = used \cup {b} /\ theirs' = theirs \cup {b}
      /\ seen' = Read(data', chunks, size, 0, size) /\ chunks' = chunks /\ size' = size
  BY LowestIsFree DEF OthersTake, DeviceTyped
<1>2. data \in Devices /\ data' = [data EXCEPT ![b] = [i \in DOMAIN @ |-> Foreign]]
  BY DEF OthersTake, DeviceTyped
<1> HIDE DEF b
<1>3. data' = [data EXCEPT ![b] = row]
  BY <1>1, <1>2 DEF Devices
<1>4. row \in [0 .. BLOCK_SIZE - 1 -> Bytes]
  BY DEF Bytes
<1> HIDE DEF row
<1>5. data' \in Devices /\ \A c \in Blocks : c # b => data'[c] = data[c]
  BY <1>2, <1>3, <1>4 DEF Devices
<1>6. DeviceTyped'
  BY <1>1, <1>5 DEF DeviceTyped
<1>7. Laid(f, B)'
  BY <1>1 DEF Holds, Laid
<1>8. B \in Nat /\ Maps(chunks, f, B) /\ size \in Nat /\ size <= Start(B) /\ seen = Contents(data, f, size)
  BY ExtentsAssumption DEF Holds, Laid, DeviceTyped
<1>9. seen' = Contents(data', f, size)
  BY <1>1, <1>5, <1>8, ReadIs
<1>10. \A p \in Nat : p < size => Byte(data', f, p) = Byte(data, f, p)
  <2> SUFFICES ASSUME NEW p \in Nat, p < size PROVE Byte(data', f, p) = Byte(data, f, p)
    OBVIOUS
  <2>1. Start(B) \in Nat
    BY <1>8, Starts
  <2>2. Block(p) \in 0 .. B - 1
    BY <1>8, <2>1, MapsHolds
  <2>3. f[Block(p)] \in Blocks /\ f[Block(p)] # b
    BY <1>1, <1>8, <2>2 DEF Holds, Laid, Maps, BlockLists
  <2> QED BY <1>5, <2>3 DEF Byte
<1>11. Contents(data', f, size) = Contents(data, f, size)
  <2>1. \A i \in 1 .. size : Byte(data', f, i - 1) = Byte(data, f, i - 1)
    <3> SUFFICES ASSUME NEW i \in 1 .. size PROVE Byte(data', f, i - 1) = Byte(data, f, i - 1)
      OBVIOUS
    <3>1. i - 1 \in Nat /\ i - 1 < size
      BY <1>8
    <3> QED BY <1>10, <3>1
  <2> QED BY <2>1 DEF Contents
<1> QED BY <1>1, <1>6, <1>7, <1>8, <1>9, <1>11 DEF Holds

LEMMA FreeKeeps ==
  ASSUME DeviceTyped, NEW f, NEW B, Holds(f, B), NEW b \in Blocks, OthersFree(b)
  PROVE  DeviceTyped' /\ Holds(f, B)' /\ seen' = seen
<1>1. /\ b \in theirs /\ used' = used \ {b} /\ theirs' = theirs \ {b}
      /\ data' = data /\ chunks' = chunks /\ size' = size /\ seen' = seen
  BY DEF OthersFree
<1>2. DeviceTyped'
  BY <1>1 DEF DeviceTyped
<1>3. Holds(f, B)'
  BY <1>1 DEF Holds, Laid
<1> QED BY <1>1, <1>2, <1>3

LEMMA ExtentsStep == ASSUME NoGap, ExtentsInv, [Next]_vars PROVE ExtentsInv'
<1>1. PICK f, B : Holds(f, B)
  BY DEF ExtentsInv
<1>2. DeviceTyped /\ Laid(f, B)
  BY <1>1 DEF ExtentsInv, Holds
<1>3. ASSUME NEW o \in 0 .. MaxSize, NEW n \in 1 .. MaxSize, NEW v \in ByteValues, Write(o, n, v)
      PROVE  ExtentsInv'
  BY <1>2, <1>3, WriteKeeps DEF ExtentsInv
<1>4. CASE OthersTake
  BY <1>1, <1>2, <1>4, TakeKeeps DEF ExtentsInv
<1>5. ASSUME NEW b \in Blocks, OthersFree(b) PROVE ExtentsInv'
  BY <1>1, <1>2, <1>5, FreeKeeps DEF ExtentsInv
<1>6. CASE UNCHANGED vars
  BY <1>1, <1>2, <1>6 DEF vars, ExtentsInv, DeviceTyped, Holds, Laid
<1> QED BY <1>3, <1>4, <1>5, <1>6 DEF Next

LEMMA InvTiles == ASSUME ExtentsInv PROVE ExtentsTile
<1>1. PICK f, B : Laid(f, B)
  BY DEF ExtentsInv, Holds
<1>2. B \in Nat /\ Maps(chunks, f, B) /\ size \in Nat /\ size <= Start(B) /\ Start(B) \in Nat
  BY <1>1, Starts, ExtentsAssumption DEF Laid, ExtentsInv, DeviceTyped
<1>3. ASSUME NEW p \in 0 .. size - 1
      PROVE  /\ Block(p) \in 0 .. B - 1
             /\ BlockAt(chunks, p) = f[Block(p)]
             /\ Cardinality({i \in DOMAIN chunks : Covers(chunks[i], p)}) = 1
  <2>1. p \in Nat /\ p < Start(B)
    BY <1>2
  <2>2. Block(p) \in 0 .. B - 1 /\ Block(p) < B
    BY <1>2, <2>1, MapsHolds
  <2> QED BY <1>2, <2>1, <2>2, BlockAtIs
<1>4. \A p \in 0 .. size - 1 : BlockAt(chunks, p) \in used \ theirs
  BY <1>1, <1>3 DEF Laid
<1>5. \A p, q \in 0 .. size - 1 : BlockAt(chunks, p) = BlockAt(chunks, q) <=> Block(p) = Block(q)
  BY <1>1, <1>3 DEF Laid, OneEach
<1> QED BY <1>3, <1>4, <1>5 DEF ExtentsTile, Block

--------------------------------------------------------------------------------
\* What the reader sees is what ByteFile promises.

Buffers(n) == [1 .. n -> Bytes]

\* The length of what Overlay returns.
Top(n, o, m) == Higher(n, o + m)

LEMMA OverlayIs ==
  ASSUME NEW n \in Nat, NEW old \in Buffers(n), Len(old) = n, NEW o \in Nat, NEW m \in Nat, NEW v \in ByteValues
  PROVE  /\ File!Overlay(old, o, m, v) \in Buffers(Top(n, o, m))
         /\ \A i \in 1 .. Top(n, o, m) :
              /\ i > o /\ i <= o + m => File!Overlay(old, o, m, v)[i] = v
              /\ ~(i > o /\ i <= o + m) /\ i <= n => File!Overlay(old, o, m, v)[i] = old[i]
<1> DEFINE e(i) == IF i > o /\ i <= o + m THEN v ELSE IF i <= n THEN old[i] ELSE 0
<1>1. (IF o + m > n THEN o + m ELSE n) = Higher(n, o + m) /\ Higher(n, o + m) \in Nat
  BY DEF Higher
<1>2. File!Overlay(old, o, m, v) = [i \in 1 .. Higher(n, o + m) |-> e(i)]
  BY <1>1 DEF File!Overlay
<1>3. \A i \in 1 .. Higher(n, o + m) :
        /\ e(i) \in Bytes
        /\ i > o /\ i <= o + m => e(i) = v
        /\ ~(i > o /\ i <= o + m) /\ i <= n => e(i) = old[i]
  <2> SUFFICES ASSUME NEW i \in 1 .. Higher(n, o + m)
               PROVE  /\ e(i) \in Bytes
                      /\ i > o /\ i <= o + m => e(i) = v
                      /\ ~(i > o /\ i <= o + m) /\ i <= n => e(i) = old[i]
    OBVIOUS
  <2>1. CASE i > o /\ i <= o + m
    <3>1. e(i) = v
      BY <1>1, <2>1
    <3> QED BY <2>1, <3>1 DEF Bytes
  <2>2. CASE ~(i > o /\ i <= o + m) /\ i <= n
    <3>1. e(i) = old[i]
      BY <1>1, <2>2
    <3>2. i \in 1 .. n
      BY <1>1, <2>2
    <3> QED BY <2>2, <3>1, <3>2 DEF Buffers
  <2>3. CASE ~(i > o /\ i <= o + m) /\ ~(i <= n)
    <3>1. e(i) = 0
      BY <1>1, <2>3
    <3> QED BY <2>3, <3>1 DEF Bytes
  <2> QED BY <2>1, <2>2, <2>3
<1> HIDE DEF e
<1> QED BY <1>2, <1>3 DEF Buffers, Top

LEMMA WriteIsByteWrite ==
  ASSUME NoGap, ExtentsInv, NEW o \in 0 .. MaxSize, NEW n \in 1 .. MaxSize, NEW v \in ByteValues, Write(o, n, v)
  PROVE  File!Next
<1>1. DeviceTyped /\ \E f, B : Holds(f, B)
  BY DEF ExtentsInv
<1>2. PICK f, B : Holds(f, B)
  BY <1>1
<1>3. PICK g, C : Holds(g, C)' /\ Overwritten(f, g, o, n, v)
  BY <1>1, <1>2, WriteKeeps DEF Holds
<1>4. /\ DeviceTyped' /\ o <= size /\ o + n <= MaxSize
      /\ size' \in {size, Higher(size, o + n)} /\ (size' < o + n => size' = size)
  BY <1>1, <1>2, WriteKeeps DEF Holds
<1>5. /\ size \in Nat /\ size' \in Nat /\ o \in Nat /\ n \in Nat /\ MaxSize \in Nat
      /\ data \in Devices /\ MaxGap = 0
  BY <1>1, <1>4, ExtentsAssumption DEF DeviceTyped, NoGap
<1>6. /\ seen = [i \in 1 .. size |-> Byte(data, f, i - 1)]
      /\ seen' = [i \in 1 .. size' |-> Byte(data', g, i - 1)]
  BY <1>2, <1>3 DEF Holds, Contents
<1>7. \A i \in 1 .. size' :
        /\ i > o /\ i <= o + n => seen'[i] = v
        /\ ~(i > o /\ i <= o + n) => seen'[i] = Byte(data, f, i - 1)
  <2> SUFFICES ASSUME NEW i \in 1 .. size'
               PROVE  /\ i > o /\ i <= o + n => Byte(data', g, i - 1) = v
                      /\ ~(i > o /\ i <= o + n) => Byte(data', g, i - 1) = Byte(data, f, i - 1)
    BY <1>6
  <2> DEFINE p == i - 1
  <2>1. p \in Nat /\ p < size' /\ (o <= p /\ p < o + n <=> i > o /\ i <= o + n)
    BY <1>5
  <2> HIDE DEF p
  <2>2. Byte(data', g, p) = IF o <= p /\ p < o + n THEN v ELSE Byte(data, f, p)
    BY <1>3, <2>1 DEF Overwritten
  <2> QED BY <2>1, <2>2 DEF p
<1>8. seen \in Buffers(size) /\ Len(seen) = size
  <2>1. Maps(chunks, f, B) /\ B \in Nat /\ size <= Start(B) /\ Start(B) \in Nat
    BY <1>2, Starts DEF Holds, Laid
  <2>2. \A i \in 1 .. size : Byte(data, f, i - 1) \in Bytes
    <3> SUFFICES ASSUME NEW i \in 1 .. size PROVE Byte(data, f, i - 1) \in Bytes
      OBVIOUS
    <3>1. i - 1 \in Nat /\ i - 1 < Start(B)
      BY <1>5, <2>1
    <3> QED BY <1>5, <2>1, <3>1, ByteTyped
  <2> QED BY <1>5, <1>6, <2>2 DEF Buffers
<1>9. Len(seen') = size' /\ seen' = [i \in 1 .. size' |-> seen'[i]]
  BY <1>5, <1>6
<1> DEFINE over == File!Overlay(seen, o, n, v)
           top == Top(size, o, n)
<1>10. /\ over \in Buffers(top)
       /\ \A i \in 1 .. top :
            /\ i > o /\ i <= o + n => over[i] = v
            /\ ~(i > o /\ i <= o + n) /\ i <= size => over[i] = seen[i]
  <2>1. size \in Nat /\ o \in Nat /\ n \in Nat
    BY <1>5
  <2> QED BY <1>8, <2>1, OverlayIs
<1>11. top \in Nat /\ size <= top /\ o + n <= top /\ top = IF o + n > size THEN o + n ELSE size
  BY <1>5 DEF Higher, Top
<1> HIDE DEF over, top
<1>12. \A i \in 1 .. size' : seen'[i] = over[i]
  <2> SUFFICES ASSUME NEW i \in 1 .. size' PROVE seen'[i] = over[i]
    OBVIOUS
  <2>1. i \in 1 .. top
    BY <1>4, <1>5, <1>11 DEF top, Top
  <2>2. CASE i > o /\ i <= o + n
    BY <1>7, <1>10, <2>1, <2>2
  <2>3. CASE ~(i > o /\ i <= o + n)
    <3>1. i \in 1 .. size
      <4>1. CASE size' = size
        BY <1>5, <4>1
      <4>2. CASE size' = top
        BY <1>4, <1>5, <1>11, <2>3, <4>2
      <4> QED BY <1>4, <4>1, <4>2 DEF top, Top
    <3>2. over[i] = seen[i] /\ seen[i] = Byte(data, f, i - 1)
      <4>1. i <= size
        BY <1>5, <3>1
      <4> QED BY <1>6, <1>10, <2>1, <2>3, <3>1, <4>1
    <3> QED BY <1>7, <2>3, <3>2
  <2> QED BY <2>2, <2>3
<1>13. File!Write(seen, seen', o, n, v) \/ File!FailedWrite(seen, seen', o, n, v)
  <2>1. CASE size' = top
    <3>1. over = [i \in 1 .. top |-> over[i]]
      BY <1>10 DEF Buffers
    <3>2. seen' = over
      BY <1>9, <1>12, <2>1, <3>1
    <3> QED BY <1>8, <1>9, <1>11, <2>1, <3>2 DEF File!Write, over
  <2>2. CASE size' = size
    <3>1. size \in 0 .. top
      BY <1>5, <1>11
    <3>2. SubSeq(over, 1, size) = [i \in 1 .. size |-> over[i]]
      BY <1>10, <1>11, <3>1, PrefixIs DEF Buffers
    <3>3. seen' = SubSeq(over, 1, size)
      BY <1>9, <1>12, <2>2, <3>2
    <3> QED BY <1>8, <1>9, <2>2, <3>3 DEF File!FailedWrite, over
  <2> QED BY <1>4, <2>1, <2>2 DEF top, Top
<1>14. o \in 0 .. Len(seen) + MaxGap /\ n \in 0 .. MaxSize - o
  BY <1>4, <1>5, <1>8
<1> QED BY <1>13, <1>14 DEF File!Next, File!Step

--------------------------------------------------------------------------------

\* The extents of a file cover every byte of it exactly once, with blocks that
\* the bitmap marks, that no other file has and that hold no other part of it.
THEOREM ExtentsTileTheFile == ASSUME NoGap PROVE Spec => []ExtentsTile
<1>1. Init => ExtentsInv
  BY ExtentsStart
<1>2. ExtentsInv /\ [Next]_vars => ExtentsInv'
  BY ExtentsStep
<1>3. ExtentsInv => ExtentsTile
  BY InvTiles
<1> QED BY <1>1, <1>2, <1>3, PTL DEF Spec

\* write_data and read_data over the extents implement a sequence of bytes: a
\* write replaces or adds bytes, or fails and has replaced what was there; what
\* other files do with their blocks is never seen.
THEOREM ExtentsImplementByteFile == ASSUME NoGap PROVE Spec => ImplementsByteFile
<1>1. Init => ExtentsInv
  BY ExtentsStart
<1>2. ExtentsInv /\ [Next]_vars => ExtentsInv'
  BY ExtentsStep
<1>3. Init => File!Init
  BY DEF Init, File!Init
<1>4. ExtentsInv /\ [Next]_vars => [File!Next]_seen
  <2> SUFFICES ASSUME ExtentsInv, [Next]_vars PROVE File!Next \/ UNCHANGED seen
    OBVIOUS
  <2>1. PICK f, B : DeviceTyped /\ Holds(f, B)
    BY DEF ExtentsInv
  <2>2. ASSUME NEW o \in 0 .. MaxSize, NEW n \in 1 .. MaxSize, NEW v \in ByteValues, Write(o, n, v)
        PROVE  File!Next
    BY <2>2, WriteIsByteWrite
  <2>3. CASE OthersTake
    BY <2>1, <2>3, TakeKeeps
  <2>4. ASSUME NEW b \in Blocks, OthersFree(b) PROVE UNCHANGED seen
    BY <2>4 DEF OthersFree
  <2>5. CASE UNCHANGED vars
    BY <2>5 DEF vars
  <2> QED BY <2>2, <2>3, <2>4, <2>5 DEF Next
<1> QED BY <1>1, <1>2, <1>3, <1>4, PTL DEF Spec, ImplementsByteFile, File!Spec
--------------------------------------------------------------------------------
(* Attributes and queries.  *)

AttributeValues == Attributes!Values \cup {Attributes!NoValue}
AttributeMaps == [Inodes -> [Keys -> AttributeValues]]

\* The entry that the catalog must hold for the last value of a key.
Entered(i, k) ==
  \E n \in DOMAIN catalog : catalog[n] = Attributes!CatalogEntry(k, latest[i][k], i)

\* Where the last value of a key is.
LastIsHeld(i, k) ==
  /\ Attributes!GetAttribute(i, k) = latest[i][k]
  /\ i \notin files => small[i][k] = Attributes!NoValue
  /\ i \notin files => large[i][k] = Attributes!NoValue
  /\ latest[i][k] # Attributes!NoValue => <<i, k>> \in missing \/ Entered(i, k)

AttributesTyped ==
  /\ files \subseteq Inodes
  /\ small \in AttributeMaps /\ large \in AttributeMaps /\ latest \in AttributeMaps
  /\ catalog \in Seq([key_hash : {KeyHash[k] : k \in Keys}, val_hash : Nat, inode_id : Inodes])

AttributesInv == AttributesTyped /\ \A i \in Inodes, k \in Keys : LastIsHeld(i, k)

LEMMA ValuesAreSome ==
  /\ Attributes!NoValue \notin Attributes!Values
  /\ \A v \in Attributes!Values : v # Attributes!NoValue /\ Attributes!ValueHash(v) \in Nat
<1>1. Width \in Nat
  BY AttributeAssumption
<1>2. ASSUME NEW v \in Attributes!Values PROVE v[2] \in 1 .. Width
  BY <1>2 DEF Attributes!Values
<1>3. Attributes!NoValue[2] = 0
  BY DEF Attributes!NoValue
<1>4. ASSUME NEW v \in Attributes!Values PROVE v # Attributes!NoValue /\ v[2] % 2 \in Nat
  BY <1>1, <1>2, <1>3
<1> QED BY <1>4 DEF Attributes!ValueHash

LEMMA EntryIsTyped ==
  ASSUME NEW k \in Keys, NEW v \in Attributes!Values, NEW i \in Inodes
  PROVE  Attributes!CatalogEntry(k, v, i) \in
           [key_hash : {KeyHash[c] : c \in Keys}, val_hash : Nat, inode_id : Inodes]
  BY ValuesAreSome DEF Attributes!CatalogEntry

LEMMA AttributesInit ==
  ASSUME Attributes!Init PROVE AttributesInv
<1> USE DEF Attributes!Init, AttributesInv, AttributesTyped, AttributeMaps, AttributeValues
<1>1. AttributesTyped
  OBVIOUS
<1>2. ASSUME NEW i \in Inodes, NEW k \in Keys PROVE LastIsHeld(i, k)
  BY DEF LastIsHeld, Attributes!GetAttribute
<1> QED BY <1>1, <1>2

\* The value that an inode holds after set_attribute is the one it was given.
LEMMA StoreKeeps ==
  ASSUME AttributesInv, NEW i \in Inodes, NEW k \in Keys, NEW v \in Attributes!Values,
         i \in files, Attributes!Store(i, k, v), files' = files,
         NEW j \in Inodes, NEW c \in Keys
  PROVE  /\ small' \in AttributeMaps /\ large' \in AttributeMaps /\ latest' \in AttributeMaps
         /\ Attributes!GetAttribute(j, c)' = latest'[j][c]
         /\ latest'[j][c] = IF j = i /\ c = k THEN v ELSE latest[j][c]
         /\ j \notin files' => small'[j][c] = Attributes!NoValue /\ large'[j][c] = Attributes!NoValue
<1> USE DEF AttributesInv, AttributesTyped, AttributeMaps, AttributeValues
<1>1. latest' = [latest EXCEPT ![i][k] = v]
  BY DEF Attributes!Store
<1>2. \E a, b \in AttributeValues :
        /\ small' = [small EXCEPT ![i][k] = a] /\ large' = [large EXCEPT ![i][k] = b]
        /\ \/ a = v /\ b = Attributes!NoValue
           \/ a = Attributes!NoValue /\ b = v
  BY DEF Attributes!Store
<1>3. PICK a, b \in AttributeValues :
        /\ small' = [small EXCEPT ![i][k] = a] /\ large' = [large EXCEPT ![i][k] = b]
        /\ \/ a = v /\ b = Attributes!NoValue
           \/ a = Attributes!NoValue /\ b = v
  BY <1>2
<1>4. small' \in AttributeMaps /\ large' \in AttributeMaps /\ latest' \in AttributeMaps
  BY <1>1, <1>3
<1>5. latest'[j][c] = IF j = i /\ c = k THEN v ELSE latest[j][c]
  BY <1>1
<1>6. /\ small'[j][c] = IF j = i /\ c = k THEN a ELSE small[j][c]
      /\ large'[j][c] = IF j = i /\ c = k THEN b ELSE large[j][c]
  BY <1>3
<1>7. LastIsHeld(j, c)
  OBVIOUS
<1>8. (IF small'[j][c] # Attributes!NoValue THEN small'[j][c] ELSE large'[j][c]) = latest'[j][c]
  BY <1>3, <1>5, <1>6, <1>7, ValuesAreSome DEF LastIsHeld, Attributes!GetAttribute
<1>9. j \notin files' => small'[j][c] = Attributes!NoValue /\ large'[j][c] = Attributes!NoValue
  BY <1>6, <1>7 DEF LastIsHeld
<1> QED BY <1>4, <1>5, <1>8, <1>9 DEF Attributes!GetAttribute

LEMMA CreateInodeKeeps ==
  ASSUME AttributesInv, NEW i \in Inodes, NEW attrs \in [CreateKeys -> AttributeValues],
         Attributes!CreateInode(i, attrs)
  PROVE  AttributesInv'
<1> USE DEF AttributesInv, AttributesTyped, AttributeMaps, AttributeValues
<1> DEFINE given == [k \in Keys |-> IF k \in CreateKeys THEN attrs[k] ELSE Attributes!NoValue]
<1>1. /\ i \notin files /\ files' = files \cup {i} /\ UNCHANGED <<large, catalog>>
      /\ small' = [small EXCEPT ![i] = given] /\ latest' = [latest EXCEPT ![i] = small'[i]]
      /\ missing' = missing \cup {<<i, k>> : k \in {c \in CreateKeys : attrs[c] # Attributes!NoValue}}
  BY DEF Attributes!CreateInode
<1>2. given \in [Keys -> AttributeValues]
  OBVIOUS
<1>3. small'[i] = given /\ small' \in AttributeMaps /\ latest' \in AttributeMaps
  BY <1>1, <1>2
<1>4. AttributesTyped'
  BY <1>1, <1>3
<1>5. ASSUME NEW j \in Inodes, NEW c \in Keys PROVE LastIsHeld(j, c)'
  <2>1. LastIsHeld(j, c)
    OBVIOUS
  <2>2. CASE j # i
    <3>1. small'[j] = small[j] /\ latest'[j] = latest[j]
      BY <1>1, <1>2, <2>2
    <3> QED BY <1>1, <2>1, <2>2, <3>1 DEF LastIsHeld, Entered, Attributes!GetAttribute, Attributes!CatalogEntry, Attributes!ValueHash
  <2>3. CASE j = i
    <3>1. small'[j][c] = given[c] /\ latest'[j][c] = given[c] /\ large'[j][c] = Attributes!NoValue
      BY <1>1, <1>3, <2>1, <2>3 DEF LastIsHeld
    <3>2. latest'[j][c] # Attributes!NoValue => <<j, c>> \in missing'
      BY <1>1, <2>3, <3>1
    <3>3. (IF small'[j][c] # Attributes!NoValue THEN small'[j][c] ELSE large'[j][c]) = latest'[j][c]
      BY <3>1
    <3> QED BY <1>1, <2>3, <3>2, <3>3 DEF LastIsHeld, Attributes!GetAttribute
  <2> QED BY <2>2, <2>3
<1> QED BY <1>4, <1>5

LEMMA SetAttributeKeeps ==
  ASSUME AttributesInv, NEW i \in Inodes, NEW k \in Keys, NEW v \in Attributes!Values,
         Attributes!SetAttribute(i, k, v)
  PROVE  AttributesInv'
<1> DEFINE E == [key_hash : {KeyHash[c] : c \in Keys}, val_hash : Nat, inode_id : Inodes]
           e == Attributes!CatalogEntry(k, v, i)
<1>1. /\ i \in files /\ files' = files /\ Attributes!Store(i, k, v)
      /\ catalog' = Append(catalog, e) /\ missing' = missing \ {<<i, k>>}
  BY DEF Attributes!SetAttribute
<1>2. catalog \in Seq(E) /\ e \in E
  BY EntryIsTyped DEF AttributesInv, AttributesTyped
<1> HIDE DEF E, e
<1>3. /\ catalog' \in Seq(E) /\ catalog'[Len(catalog) + 1] = e
      /\ Len(catalog) + 1 \in DOMAIN catalog'
      /\ \A n \in DOMAIN catalog : n \in DOMAIN catalog' /\ catalog'[n] = catalog[n]
  BY <1>1, <1>2
<1>4. \A j \in Inodes, c \in Keys :
        /\ small' \in AttributeMaps /\ large' \in AttributeMaps /\ latest' \in AttributeMaps
        /\ Attributes!GetAttribute(j, c)' = latest'[j][c]
        /\ latest'[j][c] = IF j = i /\ c = k THEN v ELSE latest[j][c]
        /\ j \notin files' => small'[j][c] = Attributes!NoValue /\ large'[j][c] = Attributes!NoValue
  BY <1>1, StoreKeeps
<1>5. AttributesTyped'
  BY <1>1, <1>3, <1>4 DEF AttributesInv, AttributesTyped, E
<1>6. ASSUME NEW j \in Inodes, NEW c \in Keys, latest'[j][c] # Attributes!NoValue
      PROVE  <<j, c>> \in missing' \/ Entered(j, c)'
  <2>1. CASE j = i /\ c = k
    <3>1. catalog'[Len(catalog) + 1] = Attributes!CatalogEntry(c, latest'[j][c], j)
      BY <1>3, <1>4, <2>1 DEF e
    <3> QED BY <1>3, <3>1 DEF Entered, Attributes!CatalogEntry, Attributes!ValueHash
  <2>2. CASE ~ (j = i /\ c = k)
    <3>1. latest'[j][c] = latest[j][c]
      BY <1>4, <2>2
    <3>2. LastIsHeld(j, c)
      BY DEF AttributesInv
    <3>3. CASE <<j, c>> \in missing
      BY <1>1, <2>2, <3>3
    <3>4. CASE Entered(j, c)
      BY <1>3, <3>1, <3>4 DEF Entered, Attributes!CatalogEntry, Attributes!ValueHash
    <3> QED BY <1>6, <3>1, <3>2, <3>3, <3>4 DEF LastIsHeld
  <2> QED BY <2>1, <2>2
<1> QED BY <1>4, <1>5, <1>6 DEF AttributesInv, LastIsHeld

LEMMA SetAttributeFailsKeeps ==
  ASSUME AttributesInv, NEW i \in Inodes, NEW k \in Keys, NEW v \in Attributes!Values,
         Attributes!SetAttributeFails(i, k, v)
  PROVE  AttributesInv'
<1>1. /\ i \in files /\ UNCHANGED <<files, catalog>> /\ Attributes!Store(i, k, v)
      /\ missing' = missing \cup {<<i, k>>}
  BY DEF Attributes!SetAttributeFails
<1>4. \A j \in Inodes, c \in Keys :
        /\ small' \in AttributeMaps /\ large' \in AttributeMaps /\ latest' \in AttributeMaps
        /\ Attributes!GetAttribute(j, c)' = latest'[j][c]
        /\ latest'[j][c] = IF j = i /\ c = k THEN v ELSE latest[j][c]
        /\ j \notin files' => small'[j][c] = Attributes!NoValue /\ large'[j][c] = Attributes!NoValue
  BY <1>1, StoreKeeps
<1>5. AttributesTyped'
  BY <1>1, <1>4 DEF AttributesInv, AttributesTyped
<1>6. ASSUME NEW j \in Inodes, NEW c \in Keys, latest'[j][c] # Attributes!NoValue
      PROVE  <<j, c>> \in missing' \/ Entered(j, c)'
  <2>1. CASE j = i /\ c = k
    BY <1>1, <2>1
  <2>2. CASE ~ (j = i /\ c = k)
    <3>1. latest'[j][c] = latest[j][c]
      BY <1>4, <2>2
    <3>2. LastIsHeld(j, c)
      BY DEF AttributesInv
    <3> QED BY <1>1, <1>6, <3>1, <3>2 DEF LastIsHeld, Entered, Attributes!CatalogEntry, Attributes!ValueHash
  <2> QED BY <2>1, <2>2
<1> QED BY <1>4, <1>5, <1>6 DEF AttributesInv, LastIsHeld

LEMMA AttributesStep ==
  ASSUME AttributesInv, [Attributes!Next]_(Attributes!vars) PROVE AttributesInv'
<1>1. CASE UNCHANGED Attributes!vars
  BY <1>1 DEF Attributes!vars, AttributesInv, AttributesTyped, LastIsHeld, Entered,
              Attributes!GetAttribute, Attributes!CatalogEntry, Attributes!ValueHash
<1>2. CASE Attributes!Next
  BY <1>2, CreateInodeKeeps, SetAttributeKeeps, SetAttributeFailsKeeps
     DEF Attributes!Next, AttributeValues
<1> QED BY <1>1, <1>2

LEMMA AttributesExact ==
  ASSUME AttributesInv PROVE Attributes!QueryExact
<1> SUFFICES ASSUME NEW q \in Attributes!Queries
             PROVE  /\ Attributes!Query(q) \subseteq Attributes!Matching(q)
                    /\ \A i \in Attributes!Matching(q) \ Attributes!Query(q) :
                         <<i, q.key>> \in missing
  BY DEF Attributes!QueryExact
<1>1. q.key \in Keys
  BY DEF Attributes!Queries
<1> DEFINE Satisfies(i) == /\ latest[i][q.key] # Attributes!NoValue
                       /\ Attributes!CheckCondition(latest[i][q.key], q.op, q.value)
                       /\ Attributes!PassesFilter(i, q.filter)
           Under(i) == \E n \in DOMAIN catalog :
                         /\ catalog[n].inode_id = i /\ catalog[n].key_hash = KeyHash[q.key]
                         /\ q.op = "Eq" => catalog[n].val_hash = Attributes!ValueHash(q.value)
<1>2. \A i \in Inodes : LastIsHeld(i, q.key)
  BY <1>1 DEF AttributesInv
<1>3. ASSUME NEW n \in DOMAIN catalog PROVE catalog[n].inode_id \in Inodes
  <2> DEFINE E == [key_hash : {KeyHash[k] : k \in Keys}, val_hash : Nat, inode_id : Inodes]
  <2>1. catalog \in Seq(E)
    BY DEF AttributesInv, AttributesTyped
  <2>2. \A e \in E : e.inode_id \in Inodes
    OBVIOUS
  <2> HIDE DEF E
  <2>3. catalog[n] \in E
    BY <2>1
  <2> QED BY <2>2, <2>3
<1>4. ASSUME NEW i PROVE i \in Attributes!Query(q) <=> i \in Inodes /\ Under(i) /\ Satisfies(i)
  <2> DEFINE known == {c \in Attributes!ToSet(catalog) :
                         /\ c.key_hash = KeyHash[q.key]
                         /\ q.op = "Eq" => c.val_hash = Attributes!ValueHash(q.value)}
  <2>1. (\E e \in known : i = e.inode_id) <=> Under(i)
    BY DEF Attributes!ToSet
  <2>2. Under(i) => i \in Inodes
    BY <1>3
  <2>3. i \in Attributes!Query(q) <=>
          /\ \E e \in known : i = e.inode_id
          /\ Attributes!GetAttribute(i, q.key) # Attributes!NoValue
          /\ Attributes!CheckCondition(Attributes!GetAttribute(i, q.key), q.op, q.value)
          /\ Attributes!PassesFilter(i, q.filter)
    BY DEF Attributes!Query
  <2>4. i \in Inodes => Attributes!GetAttribute(i, q.key) = latest[i][q.key]
    BY <1>2 DEF LastIsHeld
  <2> QED BY <2>1, <2>2, <2>3, <2>4
<1>5. \A i : i \in Attributes!Matching(q) <=> i \in files /\ Satisfies(i)
  BY DEF Attributes!Matching
<1>6. \A i \in Inodes : Satisfies(i) => i \in files
  BY <1>2 DEF LastIsHeld, Attributes!GetAttribute
<1>7. ASSUME NEW i \in files, Satisfies(i), <<i, q.key>> \notin missing PROVE Under(i)
  <2>1. i \in Inodes
    BY DEF AttributesInv, AttributesTyped
  <2>2. PICK n \in DOMAIN catalog :
          catalog[n] = Attributes!CatalogEntry(q.key, latest[i][q.key], i)
    BY <1>2, <1>7, <2>1 DEF LastIsHeld, Entered
  <2>3. q.op = "Eq" => latest[i][q.key] = q.value
    BY <1>7 DEF Attributes!CheckCondition
  <2> QED BY <2>2, <2>3 DEF Attributes!CatalogEntry
<1> HIDE DEF Satisfies, Under
<1>8. \A i \in files : i \in Inodes
  BY DEF AttributesInv, AttributesTyped
<1> QED BY <1>4, <1>5, <1>6, <1>7, <1>8

--------------------------------------------------------------------------------
(* The two beside each other, as MCFiles runs them. *)

\* Every query returns the inodes whose last value satisfies it, whatever entries
\* older values have left in the catalog, whatever hashes coincide and wherever a value
\* is kept; only a value that never got an entry is missed (set_attribute, query).
THEOREM QueriesAreExact == FilesSpec => []QueryExact
<1>1. FilesInit => AttributesInv
  BY AttributesInit DEF FilesInit
<1>2. AttributesInv /\ [BytesNext \/ AttributesNext]_<<part, bytesVars, attributeVars>>
        => AttributesInv'
  <2>1. [BytesNext \/ AttributesNext]_<<part, bytesVars, attributeVars>>
          => [Attributes!Next]_(Attributes!vars)
    BY DEF BytesNext, AttributesNext, attributeVars, Attributes!vars
  <2> QED BY <2>1, AttributesStep
<1>3. AttributesInv => QueryExact
  BY AttributesExact DEF QueryExact
<1> QED BY <1>1, <1>2, <1>3, PTL DEF FilesSpec
================================================================================
