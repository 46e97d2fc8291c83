-------------------------------- MODULE Extents --------------------------------
(***************************************************************************)
(* The bytes of one UnaFS file: write_data and read_data of fs.rs over its *)
(* list of extents, on a device whose other blocks are taken and given     *)
(* back by other files, so that the file is fragmented and its new blocks  *)
(* hold what their last owner left.  ByteFile is what the file promises.   *)
(*                                                                         *)
(* A write is one step here: UnaFS.tla has its steps on the device.  All   *)
(* the bytes of one write have the same value.                             *)
(***************************************************************************)
EXTENDS SpaceMap, SequencesExt

CONSTANTS
  BLOCK_SIZE,
  DeviceBlocks,
  ByteValues,  \* values the file's owner writes
  Foreign,     \* the value other owners write
  MaxSize,     \* bound: bytes of the file
  MaxGap       \* how far past the end of the file a write may start

ASSUME ExtentsAssumption ==
  /\ BLOCK_SIZE \in Nat \ {0} /\ DeviceBlocks \in Nat
  /\ MaxSize \in Nat /\ MaxGap \in Nat
  /\ 0 \notin ByteValues /\ Foreign \notin ByteValues

VARIABLES
  data,    \* block -> the bytes it holds
  used,    \* bitmap.bits
  theirs,  \* blocks of other files
  chunks,  \* inode.chunks
  size,    \* inode.size
  seen     \* what reading the whole file returns, a function of the others

vars == <<data, used, theirs, chunks, size, seen>>

Blocks == 0 .. DeviceBlocks - 1
Extent(logical, physical, length) ==
  [logical_offset |-> logical, physical_block |-> physical, length |-> length]

--------------------------------------------------------------------------------

Covers(e, pos) == e.logical_offset <= pos /\ pos < e.logical_offset + e.length

Mapped(list, pos) == \E i \in DOMAIN list : Covers(list[i], pos)

\* Mutant: the position inside the extent is forgotten.
BlockAtStart(list, pos) ==
  LET i == CHOOSE i \in DOMAIN list :
             Covers(list[i], pos) /\ \A j \in 1 .. i - 1 : ~Covers(list[j], pos)
  IN  list[i].physical_block

\* The block that holds a mapped position: the first extent that covers it wins.
BlockAt(list, pos) ==
  LET i == CHOOSE i \in DOMAIN list :
             Covers(list[i], pos) /\ \A j \in 1 .. i - 1 : ~Covers(list[j], pos)
  IN  list[i].physical_block + (pos - list[i].logical_offset) \div BLOCK_SIZE

\* read_from_extents: what no extent covers reads as zero, nothing is read past
\* the size.
ByteAt(blocks, list, pos) ==
  IF Mapped(list, pos) THEN blocks[BlockAt(list, pos)][pos % BLOCK_SIZE] ELSE 0

Read(blocks, list, total, offset, n) ==
  LET left == IF total > offset THEN total - offset ELSE 0
  IN  SubSeq([i \in 1 .. n |-> ByteAt(blocks, list, offset + i - 1)], 1, IF n < left THEN n ELSE left)

\* Mutant: the extent grows without looking where the new block is.
AddBlockAnywhere(list, pos, b) ==
  IF list # << >> /\ list[Len(list)].logical_offset + list[Len(list)].length <= pos
    THEN [list EXCEPT ![Len(list)].length = @ + BLOCK_SIZE]
    ELSE Append(list, Extent((pos \div BLOCK_SIZE) * BLOCK_SIZE, b, BLOCK_SIZE))

\* The new block b goes to the end of the last extent when it follows it, on the
\* device and in the file, or to an extent of its own.
AddBlock(list, pos, b) ==
  LET e    == list[Len(list)]
      ends == e.physical_block + (e.length + BLOCK_SIZE - 1) \div BLOCK_SIZE - 1
  IN  IF /\ list # << >>
         /\ e.logical_offset + e.length <= pos
         /\ e.length % BLOCK_SIZE = 0
         /\ ends + 1 = b
        THEN [list EXCEPT ![Len(list)].length = @ + BLOCK_SIZE]
        ELSE Append(list, Extent((pos \div BLOCK_SIZE) * BLOCK_SIZE, b, BLOCK_SIZE))

\* One round of write_data's loop: the bytes of one block, from pos up to stop.
\* Nothing more happens once no block is free.
WriteRound(w, pos, stop, v) ==
  LET new == ~Mapped(w.chunks, pos)
      b   == IF new THEN LowestFree(w.used, DeviceBlocks) ELSE BlockAt(w.chunks, pos)
  IN  IF w.failed \/ (new /\ ~HasFree(w.used, DeviceBlocks))
        THEN [w EXCEPT !.failed = TRUE]
        ELSE [failed |-> FALSE,
              used   |-> w.used \cup {b},
              chunks |-> IF new THEN AddBlock(w.chunks, pos, b) ELSE w.chunks,
              data   |-> [w.data EXCEPT ![b] =
                            [i \in DOMAIN @ |->
                               IF i \in (pos % BLOCK_SIZE) .. (stop - 1) % BLOCK_SIZE
                                 THEN v ELSE @[i]]]]

\* write_data, block after block.
Written(o, n, v) ==
  LET first  == o \div BLOCK_SIZE
      rounds == (o + n - 1) \div BLOCK_SIZE - first + 1
      Round(w, k) ==
        LET from == (first + k - 1) * BLOCK_SIZE
            pos  == IF from < o THEN o ELSE from
            stop == IF from + BLOCK_SIZE > o + n THEN o + n ELSE from + BLOCK_SIZE
        IN  WriteRound(w, pos, stop, v)
      done[k \in 0 .. rounds] ==
        IF k = 0 THEN [failed |-> FALSE, used |-> used, chunks |-> chunks, data |-> data]
                 ELSE Round(done[k - 1], k)
  IN  done[rounds]

--------------------------------------------------------------------------------

\* The file has been created; other files hold any blocks.
Init ==
  /\ data = [b \in Blocks |-> [i \in 0 .. BLOCK_SIZE - 1 |-> 0]]
  /\ theirs \in SUBSET Blocks
  /\ used = theirs
  /\ chunks = << >> /\ size = 0
  /\ seen = << >>

\* Mutant: every write counts as new bytes.
WriteAdds(o, n, v) ==
  LET w == Written(o, n, v)
  IN  /\ o <= size + MaxGap
      /\ o + n <= MaxSize
      /\ data' = w.data /\ used' = w.used /\ chunks' = w.chunks
      /\ size' = IF w.failed THEN size ELSE size + n
      /\ seen' = Read(data', chunks', size', 0, size')
      /\ UNCHANGED theirs

\* A write of n > 0 bytes; write_data returns at once when there are none.  With
\* NoSpace in the middle of it the blocks written so far keep the new bytes, the
\* inode on the device is the old one, the blocks taken stay taken.
Write(o, n, v) ==
  LET w == Written(o, n, v)
  IN  /\ o <= size + MaxGap
      /\ o + n <= MaxSize
      /\ data' = w.data
      /\ used' = w.used
      /\ IF w.failed
           THEN UNCHANGED <<chunks, size>>
           ELSE chunks' = w.chunks /\ size' = IF o + n > size THEN o + n ELSE size
      /\ seen' = Read(data', chunks', size', 0, size')
      /\ UNCHANGED theirs

\* Another file takes a block and fills it, or gives one back.
OthersTake ==
  /\ HasFree(used, DeviceBlocks)
  /\ LET b == LowestFree(used, DeviceBlocks)
     IN  /\ used' = used \cup {b}
         /\ theirs' = theirs \cup {b}
         /\ data' = [data EXCEPT ![b] = [i \in DOMAIN @ |-> Foreign]]
  /\ seen' = Read(data', chunks, size, 0, size)
  /\ UNCHANGED <<chunks, size>>

OthersFree(b) ==
  /\ b \in theirs
  /\ used' = used \ {b}
  /\ theirs' = theirs \ {b}
  /\ UNCHANGED <<data, chunks, size, seen>>

Next ==
  \/ \E o \in 0 .. MaxSize, n \in 1 .. MaxSize, v \in ByteValues :
       Write(o, n, v)
  \/ OthersTake
  \/ \E b \in Blocks : OthersFree(b)

Spec == Init /\ [][Next]_vars

--------------------------------------------------------------------------------

TypeOK ==
  /\ data \in [Blocks -> [0 .. BLOCK_SIZE - 1 -> ByteValues \cup {0, Foreign}]]
  /\ used \in SUBSET Blocks /\ theirs \in SUBSET used
  /\ chunks \in Seq([logical_offset : Nat, physical_block : Blocks, length : Nat \ {0}])
  /\ size \in 0 .. MaxSize

\* The extents of a file cover every byte of it exactly once, with blocks that
\* the bitmap marks and that no other file has (the merge in write_data).
ExtentsTile ==
  /\ \A pos \in 0 .. size - 1 : Cardinality({i \in DOMAIN chunks : Covers(chunks[i], pos)}) = 1
  /\ \A pos \in 0 .. size - 1 : BlockAt(chunks, pos) \in used \ theirs
  /\ \A p, q \in 0 .. size - 1 :
       BlockAt(chunks, p) = BlockAt(chunks, q) <=> p \div BLOCK_SIZE = q \div BLOCK_SIZE

\* For whoever reads it, the file is the sequence of bytes written to it.
File == INSTANCE ByteFile WITH content <- seen
ImplementsByteFile == File!Spec

\* "mapping logical offsets to physical blocks and lengths": the last byte of the
\* file has always been written, so some extent covers it.
EndIsMapped == size > 0 => Mapped(chunks, size - 1)
================================================================================
