---------------------------------- MODULE Wal ----------------------------------
(***************************************************************************)
(* The journal region of a UnaFS device and the code of wal.rs over it, as *)
(* pure operators: Journal.tla gives them a life of their own, UnaFS.tla   *)
(* uses them for every operation of the file system.                       *)
(*                                                                         *)
(* The region is JOURNAL_BLOCKS blocks of BLOCK_SIZE bytes.  Its contents  *)
(* are abstracted to the records whose first byte is still intact, each    *)
(* with its byte position, and to the remains: the positions that still    *)
(* hold the tail of a record whose head a later mount overwrote with a     *)
(* record that ends elsewhere.  Every other byte is zero.  A scan that     *)
(* comes to the remains of a record reads whatever stands there as a       *)
(* length and as a payload, and what it makes of them is left open.        *)
(***************************************************************************)
EXTENDS Naturals, SequencesExt

CONSTANTS
  JOURNAL_BLOCKS,  \* blocks reserved for the journal
  BLOCK_SIZE,      \* bytes in a block
  LEN_PREFIX,      \* bytes of the length that precedes a record
  SHORT_RECORD,    \* total bytes of BeginWrite, EndWrite, EndCreate, EndOp
  LONG_RECORD      \* total bytes of BeginCreate and BeginOp: they carry text

\* A record fits in a block: with a longer attribute name log() recurses for ever.
ASSUME WalAssumption ==
  /\ JOURNAL_BLOCKS \in Nat \ {0}
  /\ BLOCK_SIZE \in Nat \ {0}
  /\ LEN_PREFIX \in Nat \ {0}
  /\ SHORT_RECORD \in LEN_PREFIX + 1 .. BLOCK_SIZE
  /\ LONG_RECORD \in SHORT_RECORD .. BLOCK_SIZE

Capacity == JOURNAL_BLOCKS * BLOCK_SIZE

JournalOps == {"BeginOp", "EndOp", "BeginCreate", "EndCreate", "BeginWrite", "EndWrite"}

\* The bytes an operation takes in the journal, length prefix included.
TotalLen(op) == IF op \in {"BeginOp", "BeginCreate"} THEN LONG_RECORD ELSE SHORT_RECORD

\* A record on the device: where it starts, what it is, which inode it names.
Record(at, op, id) == [at |-> at, op |-> op, id |-> id]

\* A region of zeros.
Blank == [image |-> {}, remains |-> {}, offset |-> 0]

\* Journal::new(): the offset starts at zero whatever the region holds.
NewJournal(j) == [j EXCEPT !.offset = 0]

\* reset(): only the first block is zeroed.
Reset(j) == [image   |-> {r \in j.image : r.at >= BLOCK_SIZE},
             remains |-> {n \in j.remains : n >= BLOCK_SIZE},
             offset  |-> 0]

\* Mutant: records run across the end of a block.
PlacementStraddles(offset, len) == offset

\* Where log() puts a record of len bytes: a record never straddles two
\* blocks, and what is left of the block it does not fit in is not touched.
Placement(offset, len) ==
  IF (offset % BLOCK_SIZE) + len > BLOCK_SIZE
    THEN ((offset \div BLOCK_SIZE) + 1) * BLOCK_SIZE
    ELSE offset

\* What a record written over at .. end - 1 leaves of those it cuts.
Cut(image, at, end) ==
  UNION {end .. r.at + TotalLen(r.op) - 1 : r \in {s \in image : s.at \in at .. end - 1}}

\* The region with a record of len bytes written at a position.
Written(j, at, len, op, id) ==
  [image   |-> {r \in j.image : r.at \notin at .. at + len - 1} \cup {Record(at, op, id)},
   remains |-> (j.remains \ (at .. at + len - 1)) \cup Cut(j.image, at, at + len),
   offset  |-> at + len]

\* Mutant: the journal starts over at the end of its first block.
LogInOneBlock(j, op, id) ==
  LET len  == TotalLen(op)
      room == IF j.offset + len > BLOCK_SIZE THEN Reset(j) ELSE j
  IN  Written(room, room.offset, len, op, id)

\* Mutant: the journal runs past its region.
LogUnbounded(j, op, id) ==
  Written(j, Placement(j.offset, TotalLen(op)), TotalLen(op), op, id)

\* log(): reset when the region cannot hold the record, then append it over
\* whatever was there.
Log(j, op, id) ==
  LET len  == TotalLen(op)
      room == IF j.offset + len > Capacity THEN Reset(j) ELSE j
  IN  Written(room, Placement(room.offset, len), len, op, id)

\* Mutant: EndOp is not matched.
AccountKeepsOps(acc, r) ==
  CASE r.op = "BeginOp" -> [acc EXCEPT !.open_ops = @ \cup {r.id}]
    [] r.op \in {"BeginCreate", "BeginWrite"} -> [acc EXCEPT !.open_count = @ + 1]
    [] r.op \in {"EndCreate", "EndWrite"} ->
         [acc EXCEPT !.open_count = IF @ > 0 THEN @ - 1 ELSE 0]
    [] OTHER -> acc

\* Mutant: only the last of the creations and writes counts.
AccountLastOnly(acc, r) ==
  CASE r.op = "BeginOp" -> [acc EXCEPT !.open_ops = @ \cup {r.id}]
    [] r.op = "EndOp"   -> [acc EXCEPT !.open_ops = @ \ {r.id}]
    [] r.op \in {"BeginCreate", "BeginWrite"} -> [acc EXCEPT !.open_count = 1]
    [] r.op \in {"EndCreate", "EndWrite"} -> [acc EXCEPT !.open_count = 0]

\* How check_recovery() accounts for one record: BeginOp and EndOp pair by
\* inode, creations and writes share one counter that never goes below zero.
Account(acc, r) ==
  CASE r.op = "BeginOp" -> [acc EXCEPT !.open_ops = @ \cup {r.id}]
    [] r.op = "EndOp"   -> [acc EXCEPT !.open_ops = @ \ {r.id}]
    [] r.op \in {"BeginCreate", "BeginWrite"} -> [acc EXCEPT !.open_count = @ + 1]
    [] r.op \in {"EndCreate", "EndWrite"} ->
         [acc EXCEPT !.open_count = IF @ > 0 THEN @ - 1 ELSE 0]

\* One turn of check_recovery()'s loop over the intact records: where it reads,
\* what it has found so far.  It stays where no intact record begins.
Clear == [open_ops |-> {}, open_count |-> 0]
Advance(image, scan) ==
  LET here == {r \in image : r.at = scan.at}
      r    == CHOOSE r \in here : TRUE
  IN  IF scan.at >= Capacity THEN scan
      ELSE IF (scan.at % BLOCK_SIZE) + LEN_PREFIX > BLOCK_SIZE
        THEN [scan EXCEPT !.at = ((scan.at \div BLOCK_SIZE) + 1) * BLOCK_SIZE]
      ELSE IF here = {} THEN scan
      ELSE [at |-> scan.at + TotalLen(r.op), acc |-> Account(scan.acc, r)]

\* Every turn but the last moves on: Capacity turns reach the end.
Scanned(image) ==
  LET scan[n \in 0 .. Capacity] ==
        IF n = 0 THEN [at |-> 0, acc |-> Clear] ELSE Advance(image, scan[n - 1])
  IN  scan[Capacity]

\* Past the last intact record the loop reads on where the remains of a record
\* stand, and there is room for the shortest record to be read out of them; it
\* stops where there is none, and where the bytes are zero.
Astray(j) ==
  LET at == Scanned(j.image).at
  IN  at \in j.remains /\ (at % BLOCK_SIZE) + SHORT_RECORD <= BLOCK_SIZE

\* Mutant: open BeginOp records are forgotten.
CheckRecoveryCountsOnly(j) == {Scanned(j.image).acc.open_count > 0}

\* check_recovery(): what a mount of this region may report.
CheckRecovery(j) ==
  LET acc == Scanned(j.image).acc
  IN  IF Astray(j) THEN BOOLEAN ELSE {acc.open_ops # {} \/ acc.open_count > 0}
================================================================================
