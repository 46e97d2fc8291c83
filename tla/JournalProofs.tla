----------------------------- MODULE JournalProofs -----------------------------
(***************************************************************************)
(* What Journal.tla promises for every size of the journal, of its blocks  *)
(* and of its records: log() never cuts a record a scan can still start    *)
(* at, and never takes back what the current mount has logged.             *)
(***************************************************************************)
EXTENDS Journal, WalProofs, TLAPS

\* Division by the block size, the only arithmetic the proofs rest on.
LEMMA BlockSplit ==
  ASSUME NEW o \in Nat
  PROVE  /\ o \div BLOCK_SIZE \in Nat
         /\ o % BLOCK_SIZE \in 0 .. BLOCK_SIZE - 1
         /\ o = BLOCK_SIZE * (o \div BLOCK_SIZE) + (o % BLOCK_SIZE)
  BY WalAssumption

\* A multiple of the block size is the start of a block.
LEMMA BlockStart ==
  ASSUME NEW q \in Nat
  PROVE  /\ q * BLOCK_SIZE \in Nat
         /\ (q * BLOCK_SIZE) % BLOCK_SIZE = 0
  BY WalAssumption

\* Record lengths are positive and no record is longer than a block.
LEMMA Lengths ==
  ASSUME NEW op
  PROVE  TotalLen(op) \in 1 .. BLOCK_SIZE
  BY WalAssumption DEF TotalLen

\* Where log() puts a record: at or behind the offset, inside one block and
\* inside the region, and at the offset or at the start of the next block.
LEMMA PlacementFits ==
  ASSUME NEW offset \in Nat, NEW len \in 1 .. BLOCK_SIZE, offset + len <= Capacity,
         NEW at, at = Placement(offset, len)
  PROVE  /\ at \in Nat
         /\ offset <= at
         /\ (at % BLOCK_SIZE) + len <= BLOCK_SIZE
         /\ at + len <= Capacity
         /\ at = offset \/ /\ at = ((offset \div BLOCK_SIZE) + 1) * BLOCK_SIZE
                           /\ (offset % BLOCK_SIZE) + len > BLOCK_SIZE
<1> DEFINE q == offset \div BLOCK_SIZE
<1>1. /\ q \in Nat
      /\ offset % BLOCK_SIZE \in 0 .. BLOCK_SIZE - 1
      /\ offset = BLOCK_SIZE * q + (offset % BLOCK_SIZE)
  BY BlockSplit
<1>2. BLOCK_SIZE \in Nat \ {0} /\ JOURNAL_BLOCKS \in Nat \ {0}
  BY WalAssumption
<1>3. CASE (offset % BLOCK_SIZE) + len <= BLOCK_SIZE
  <2>1. at = offset
    BY <1>1, <1>2, <1>3 DEF Placement
  <2>2. QED
    BY <2>1, <1>2, <1>3
<1>4. CASE (offset % BLOCK_SIZE) + len > BLOCK_SIZE
  <2>1. at = (q + 1) * BLOCK_SIZE
    BY <1>4 DEF Placement
  <2>2. at \in Nat /\ at % BLOCK_SIZE = 0
    BY <2>1, <1>1, BlockStart
  <2>3. offset < at /\ at < offset + len
    BY <2>1, <1>1, <1>2, <1>4
  <2>4. q + 1 < JOURNAL_BLOCKS
    <3>1. (q + 1) * BLOCK_SIZE < JOURNAL_BLOCKS * BLOCK_SIZE
      BY <2>1, <2>2, <2>3, <1>2 DEF Capacity
    <3>2. QED
      BY <3>1, <1>1, <1>2
  <2>5. at + BLOCK_SIZE <= Capacity
    BY <2>1, <2>4, <1>1, <1>2 DEF Capacity
  <2>6. (at % BLOCK_SIZE) + len <= BLOCK_SIZE /\ at + len <= Capacity
    BY <2>2, <2>5, <1>2 DEF Capacity
  <2>7. QED
    BY <2>1, <2>2, <2>3, <2>6, <1>4
<1>5. QED
  BY <1>1, <1>2, <1>3, <1>4

\* A record that starts before the next block and stays in its own ends
\* before the next block starts.
LEMMA EndsInBlock ==
  ASSUME NEW q \in Nat, NEW o \in Nat, NEW len \in Nat,
         o < (q + 1) * BLOCK_SIZE, (o % BLOCK_SIZE) + len <= BLOCK_SIZE
  PROVE  o + len <= (q + 1) * BLOCK_SIZE
<1> DEFINE p == o \div BLOCK_SIZE
<1>1. BLOCK_SIZE \in Nat \ {0}
  BY WalAssumption
<1>2. p \in Nat /\ o % BLOCK_SIZE \in Nat /\ o = BLOCK_SIZE * p + (o % BLOCK_SIZE)
  BY BlockSplit
<1>3. p < q + 1
  <2>1. p * BLOCK_SIZE < (q + 1) * BLOCK_SIZE
    BY <1>1, <1>2
  <2>2. QED
    BY <2>1, <1>1, <1>2
<1>4. (p + 1) * BLOCK_SIZE <= (q + 1) * BLOCK_SIZE
  BY <1>1, <1>2, <1>3
<1>5. o + len <= (p + 1) * BLOCK_SIZE
  BY <1>1, <1>2
<1>6. QED
  BY <1>1, <1>2, <1>4, <1>5

--------------------------------------------------------------------------------

\* A journal as log() keeps it: IntactRecords, and no record reaches over the
\* write offset from below, so that the next one can only cut records that
\* start behind it, which it removes.
Sound(j) ==
  /\ j \in JournalType
  /\ j.offset <= Capacity
  /\ \A r \in j.image : (r.at % BLOCK_SIZE) + TotalLen(r.op) <= BLOCK_SIZE
  /\ \A r, s \in j.image : r.at < s.at => r.at + TotalLen(r.op) <= s.at
  /\ \A r \in j.image : r.at < j.offset => r.at + TotalLen(r.op) <= j.offset

LEMMA NewIsSound ==
  ASSUME NEW j, Sound(j)
  PROVE  Sound(NewJournal(j)) /\ Sound(Reset(j))
<1>1. Capacity \in Nat
  BY WalAssumption DEF Capacity
<1>2. QED
  BY <1>1 DEF Sound, JournalType, NewJournal, Reset

\* The journal keeps its shape whatever is logged, and nothing below the
\* offset is lost unless the journal starts over.
LEMMA LogIsSound ==
  ASSUME NEW j, Sound(j), NEW op \in JournalOps, NEW id \in Inodes \cup {0}
  PROVE  /\ Sound(Log(j, op, id))
         /\ j.offset + LONG_RECORD <= Capacity
              => {r \in j.image : r.at < j.offset} \subseteq Log(j, op, id).image
<1> DEFINE len == TotalLen(op)
           room == IF j.offset + len > Capacity THEN Reset(j) ELSE j
           at == Placement(room.offset, len)
           new == Record(at, op, id)
           kept == {r \in room.image : r.at \notin at .. at + len - 1}
           k == Log(j, op, id)
<1>4. /\ k = [image |-> kept \cup {new}, remains |-> k.remains, offset |-> at + len]
      /\ k.remains = (room.remains \ (at .. at + len - 1)) \cup Cut(room.image, at, at + len)
  BY DEF Log, Written
<1> HIDE DEF len, room, at, new, kept, k
<1>1. len \in 1 .. BLOCK_SIZE /\ BLOCK_SIZE \in Nat \ {0} /\ Capacity \in Nat
      /\ BLOCK_SIZE <= Capacity
  BY Lengths, WalAssumption DEF len, Capacity
<1>2. Sound(room) /\ room.offset + len <= Capacity /\ room.offset \in Nat
  BY <1>1, NewIsSound DEF room, Reset, NewJournal, Sound, JournalType
<1>3. /\ at \in Nat /\ room.offset <= at
      /\ (at % BLOCK_SIZE) + len <= BLOCK_SIZE
      /\ at + len <= Capacity
      /\ at = room.offset \/ /\ at = ((room.offset \div BLOCK_SIZE) + 1) * BLOCK_SIZE
                             /\ (room.offset % BLOCK_SIZE) + len > BLOCK_SIZE
  BY <1>1, <1>2, PlacementFits DEF at
<1>5. new = [at |-> at, op |-> op, id |-> id]
  BY DEF new, Record
<1>6. \A r \in room.image : /\ r.at \in Nat /\ r.op \in JournalOps
                            /\ TotalLen(r.op) \in 1 .. BLOCK_SIZE
                            /\ (r.at % BLOCK_SIZE) + TotalLen(r.op) <= BLOCK_SIZE
  BY <1>2, Lengths DEF Sound, JournalType
<1>7. ASSUME NEW r \in room.image, r.at < at
      PROVE  r.at + TotalLen(r.op) <= at
  <2>1. CASE r.at < room.offset
    BY <2>1, <1>2, <1>3, <1>6 DEF Sound
  <2>2. CASE r.at >= room.offset
    <3>1. at = ((room.offset \div BLOCK_SIZE) + 1) * BLOCK_SIZE
      BY <2>2, <1>2, <1>3, <1>6, <1>7
    <3> DEFINE q == room.offset \div BLOCK_SIZE
    <3>2. q \in Nat
      BY <1>2, BlockSplit
    <3> HIDE DEF q
    <3>3. at = (q + 1) * BLOCK_SIZE
      BY <3>1 DEF q
    <3>4. r.at + TotalLen(r.op) <= (q + 1) * BLOCK_SIZE
      BY <3>2, <3>3, <1>6, <1>7, EndsInBlock
    <3>5. QED
      BY <3>3, <3>4
  <2>3. QED
    BY <2>1, <2>2, <1>2, <1>6
<1>8. Sound(k)
  <2>1. k \in JournalType
    <3>1. k.remains \in SUBSET Nat
      <4>1. Cut(room.image, at, at + len) \in SUBSET Nat
        BY <1>1, <1>3, <1>6 DEF Cut
      <4>2. room.remains \in SUBSET Nat
        BY <1>2 DEF Sound, JournalType
      <4> QED BY <4>1, <4>2, <1>4
    <3>2. kept \cup {new} \in SUBSET [at : Nat, op : JournalOps, id : Inodes \cup {0}]
      BY <1>2, <1>3, <1>5 DEF Sound, JournalType, kept
    <3>3. at + len \in 0 .. Capacity
      BY <1>1, <1>3
    <3> QED BY <3>1, <3>2, <3>3, <1>4 DEF JournalType
  <2>2. k.offset <= Capacity
    BY <1>3, <1>4
  <2>3. \A r \in k.image : (r.at % BLOCK_SIZE) + TotalLen(r.op) <= BLOCK_SIZE
    BY <1>3, <1>4, <1>5, <1>6 DEF kept, len
  <2>4. ASSUME NEW r \in k.image, NEW s \in k.image, r.at < s.at
        PROVE  r.at + TotalLen(r.op) <= s.at
    <3>1. CASE r \in kept /\ s \in kept
      BY <3>1, <2>4, <1>2 DEF Sound, kept
    <3>2. CASE r \in kept /\ s = new
      BY <3>2, <2>4, <1>5, <1>7 DEF kept
    <3>3. CASE r = new /\ s \in kept
      BY <3>3, <2>4, <1>1, <1>3, <1>5, <1>6 DEF kept, len
    <3>4. QED
      BY <3>1, <3>2, <3>3, <2>4, <1>3, <1>4, <1>5
  <2>5. ASSUME NEW r \in k.image, r.at < k.offset
        PROVE  r.at + TotalLen(r.op) <= k.offset
    <3>1. k.offset = at + len
      BY <1>4
    <3>2. CASE r \in kept
      <4>1. r.at < at
        BY <3>1, <3>2, <2>5, <1>1, <1>3, <1>6 DEF kept
      <4>2. r.at + TotalLen(r.op) <= at
        BY <4>1, <3>2, <1>7 DEF kept
      <4>3. QED
        BY <4>2, <3>1, <3>2, <1>1, <1>3, <1>6 DEF kept
    <3>3. CASE r = new
      BY <3>1, <3>3, <1>1, <1>3, <1>5 DEF len
    <3>4. QED
      BY <3>2, <3>3, <1>4
  <2>6. QED
    BY <2>1, <2>2, <2>3, <2>4, <2>5 DEF Sound
<1>9. ASSUME j.offset + LONG_RECORD <= Capacity, NEW r \in j.image, r.at < j.offset
      PROVE  r \in k.image
  <2>1. room = j
    BY <1>1, <1>9, WalAssumption DEF room, len, TotalLen, Sound, JournalType
  <2>2. r.at \notin at .. at + len - 1
    BY <2>1, <1>1, <1>2, <1>3, <1>6, <1>9
  <2>3. QED
    BY <2>1, <2>2, <1>4 DEF kept
<1>10. QED
  BY <1>8, <1>9 DEF k

--------------------------------------------------------------------------------

\* The sequences the code builds, typed.
LEMMA ShortSeqs ==
  ASSUME NEW S, NEW a \in S, NEW b \in S, NEW c \in S, NEW d \in S
  PROVE  /\ <<a, b>> \in Seq(S) /\ <<a, b>> # << >>
         /\ <<a, b, c, d>> \in Seq(S) /\ <<a, b, c, d>> # << >>
  OBVIOUS

LEMMA EmptySeqTyped ==
  ASSUME NEW S
  PROVE  << >> \in Seq(S)
  OBVIOUS

\* The scripts are sequences of entries a journal can hold.
LEMMA ScriptsTyped ==
  ASSUME NEW script \in Scripts
  PROVE  /\ script # << >>
         /\ script \in Seq(Entries)
<1>1. ASSUME NEW op \in JournalOps, NEW id \in Inodes \cup {0}
      PROVE  Entry(op, id) \in Entries
  BY DEF Entry, Entries
<1>2. /\ Entry("BeginCreate", 0) \in Entries /\ Entry("EndCreate", 0) \in Entries
      /\ Entry("BeginWrite", 0) \in Entries /\ Entry("EndWrite", 0) \in Entries
      /\ \A i \in Inodes : Entry("BeginOp", i) \in Entries /\ Entry("EndOp", i) \in Entries
  BY <1>1 DEF JournalOps
<1> HIDE DEF Entry, Entries
<1>3. CASE script = <<Entry("BeginCreate", 0), Entry("EndCreate", 0)>>
  BY <1>2, <1>3, ShortSeqs
<1>4. CASE script = <<Entry("BeginWrite", 0), Entry("EndWrite", 0)>>
  BY <1>2, <1>4, ShortSeqs
<1>5. ASSUME NEW i \in Inodes,
             script = <<Entry("BeginOp", i), Entry("BeginWrite", 0), Entry("EndWrite", 0),
                        Entry("EndOp", i)>>
      PROVE  script # << >> /\ script \in Seq(Entries)
  BY <1>2, <1>5, ShortSeqs
<1>6. QED
  BY <1>3, <1>4, <1>5 DEF Scripts

\* The first entry of a script and what is left of it.
LEMMA HeadTail ==
  ASSUME NEW S, NEW s \in Seq(S), s # << >>
  PROVE  Head(s) \in S /\ Tail(s) \in Seq(S)
  OBVIOUS

\* Inductive: TypeOK and a sound journal.
IInv == TypeOK /\ Sound(journal)

LEMMA IInvInit == Init => IInv
<1>1. Capacity \in Nat
  BY WalAssumption DEF Capacity
<1>2. Init => TypeOK
  <2> SUFFICES ASSUME Init
               PROVE  TypeOK
    OBVIOUS
  <2>1. journal = [image |-> {}, remains |-> {}, offset |-> 0]
    BY DEF Init, Blank, Reset
  <2>2. journal \in JournalType
    BY <2>1, <1>1 DEF JournalType
  <2>3. todo \in Seq(Entries)
    BY EmptySeqTyped DEF Init
  <2>4. QED
    BY <2>2, <2>3 DEF Init, TypeOK
<1>3. Init => Sound(journal)
  BY <1>1 DEF Init, Sound, JournalType, Blank, Reset
<1>4. QED
  BY <1>2, <1>3 DEF IInv

LEMMA IInvStep == IInv /\ [Next]_vars => IInv'
<1> SUFFICES ASSUME IInv, [Next]_vars
             PROVE  IInv'
  OBVIOUS
<1> USE DEF IInv
<1>1. ASSUME NEW e \in Entries, LogEntry(e)
      PROVE  /\ Sound(journal') /\ journal' \in JournalType
             /\ spilled' \in BOOLEAN /\ records' \in Nat
  <2>1. e.op \in JournalOps /\ e.id \in Inodes \cup {0}
    BY DEF Entries
  <2>2. Sound(journal')
    BY <1>1, <2>1, LogIsSound DEF LogEntry
  <2>3. spilled' \in BOOLEAN
    BY <1>1 DEF LogEntry
  <2>4. records' \in Nat
    BY <1>1 DEF LogEntry, TypeOK
  <2>5. QED
    BY <2>2, <2>3, <2>4 DEF Sound
<1>2. ASSUME NEW script \in Scripts, Start(script)
      PROVE  IInv'
  <2>1. /\ Head(script) \in Entries
        /\ Tail(script) \in Seq(Entries)
    BY ScriptsTyped, HeadTail
  <2>2. QED
    BY <2>1, <1>1, <1>2 DEF Start, TypeOK
<1>3. CASE Step
  <2>1. /\ Head(todo) \in Entries
        /\ Tail(todo) \in Seq(Entries)
    BY <1>3, HeadTail DEF Step, TypeOK
  <2>2. QED
    BY <2>1, <1>1, <1>3 DEF Step, TypeOK
<1>4. CASE Fail
  <2>1. ASSUME NEW e \in ToSet(todo)
        PROVE  e.id \in Inodes \cup {0}
    <3>1. PICK i \in DOMAIN todo : e = todo[i]
      BY DEF ToSet
    <3>2. todo[i] \in Entries
      BY DEF TypeOK
    <3>3. QED
      BY <3>1, <3>2 DEF Entries
  <2>2. abandoned' \in SUBSET (Inodes \cup {0})
    BY <2>1, <1>4 DEF Fail, TypeOK
  <2>3. QED
    BY <2>2, <1>4 DEF Fail, TypeOK, Sound
<1>5. CASE Crash
  <2>1. torn' \in BOOLEAN
    BY <1>5 DEF Crash
  <2>2. mounted' \in BOOLEAN /\ todo' \in Seq(Entries)
    BY <1>5, EmptySeqTyped DEF Crash
  <2>3. UNCHANGED <<journal, abandoned, spilled, records, mounts>>
    BY <1>5 DEF Crash
  <2>4. TypeOK' /\ Sound(journal')
    BY <2>1, <2>2, <2>3 DEF TypeOK
  <2>5. QED
    BY <2>4
<1>6. CASE Mount
  <2>1. Sound(journal')
    BY <1>6, NewIsSound DEF Mount
  <2>2. QED
    BY <2>1, <1>6 DEF Mount, TypeOK, Sound
<1>7. CASE UNCHANGED vars
  BY <1>7 DEF vars, TypeOK
<1>8. QED
  BY <1>2, <1>3, <1>4, <1>5, <1>6, <1>7 DEF Next

\* The write offset stays inside the region, and every variable in its range,
\* for every size of the journal and of its records (log, wal.rs).
THEOREM JournalTypeOK == Spec => []TypeOK
<1>1. IInv => TypeOK
  BY DEF IInv
<1>2. QED
  BY <1>1, IInvInit, IInvStep, PTL DEF Spec

\* For every size of the journal and of its records, whatever operations run,
\* fail or crash and however often the device is mounted, every record a scan
\* can start at is whole (log and reset, wal.rs).
THEOREM JournalRecordsStayWhole == Spec => []IntactRecords
<1>1. IInv => IntactRecords
  BY DEF IInv, Sound, IntactRecords
<1>2. QED
  BY <1>1, IInvInit, IInvStep, PTL DEF Spec

\* For every size of the journal, no record of the current mount is ever taken
\* back or overwritten before the journal starts over (log, wal.rs).
THEOREM JournalOnlyAppends == Spec => SessionOnlyAppends
<1> DEFINE Kept == journal.offset + LONG_RECORD <= Capacity
                     => {r \in journal.image : r.at < journal.offset} \subseteq journal'.image
<1>1. IInv /\ [Next]_vars => [Kept]_vars
  <2> SUFFICES ASSUME IInv, Next
               PROVE  Kept
    OBVIOUS
  <2>1. ASSUME NEW e \in Entries, LogEntry(e)
        PROVE  Kept
    <3>1. e.op \in JournalOps /\ e.id \in Inodes \cup {0}
      BY DEF Entries
    <3>2. QED
      BY <2>1, <3>1, LogIsSound DEF LogEntry, IInv
  <2>2. ASSUME NEW script \in Scripts, Start(script)
        PROVE  Kept
    <3>1. Head(script) \in Entries
      BY ScriptsTyped, HeadTail
    <3>2. QED
      BY <3>1, <2>1, <2>2 DEF Start
  <2>3. CASE Step
    <3>1. Head(todo) \in Entries
      BY <2>3, HeadTail DEF Step, IInv, TypeOK
    <3>2. QED
      BY <3>1, <2>1, <2>3 DEF Step
  <2>4. CASE Fail \/ Crash
    BY <2>4 DEF Fail, Crash
  <2>5. CASE Mount
    BY <2>5 DEF Mount, NewJournal
  <2>6. QED
    BY <2>2, <2>3, <2>4, <2>5 DEF Next
<1>2. QED
  BY <1>1, IInvInit, IInvStep, PTL DEF Spec, SessionOnlyAppends

--------------------------------------------------------------------------------
\* The records a running operation has still to log, and what it has open: m
\* creations and writes, and the set_attributes of the inodes in Open.

Stage(left, m, Open) ==
  \/ left = << >> /\ m = 0 /\ Open = {}
  \/ left = <<Entry("EndCreate", 0)>> /\ m = 1 /\ Open = {}
  \/ left = <<Entry("EndWrite", 0)>> /\ m = 1 /\ Open = {}
  \/ \E i \in Inodes :
       /\ Open = {i}
       /\ \/ left = <<Entry("BeginWrite", 0), Entry("EndWrite", 0), Entry("EndOp", i)>> /\ m = 0
          \/ left = <<Entry("EndWrite", 0), Entry("EndOp", i)>> /\ m = 1
          \/ left = <<Entry("EndOp", i)>> /\ m = 0

LEMMA Heads ==
  ASSUME NEW a, NEW b, NEW c, NEW d
  PROVE  /\ <<a>> # << >> /\ Head(<<a>>) = a /\ Tail(<<a>>) = << >>
         /\ <<a, b>> # << >> /\ Head(<<a, b>>) = a /\ Tail(<<a, b>>) = <<b>>
         /\ <<a, b, c>> # << >> /\ Head(<<a, b, c>>) = a /\ Tail(<<a, b, c>>) = <<b, c>>
         /\ <<a, b, c, d>> # << >> /\ Head(<<a, b, c, d>>) = a /\ Tail(<<a, b, c, d>>) = <<b, c, d>>
  OBVIOUS

LEMMA EntryFields ==
  ASSUME NEW op, NEW id
  PROVE  Entry(op, id).op = op /\ Entry(op, id).id = id
  BY DEF Entry

LEMMA ScriptStage ==
  ASSUME NEW script \in Scripts
  PROVE  \E m2, Open2 :
           /\ m2 \in Nat
           /\ Stage(Tail(script), m2, Open2)
           /\ Logs(Head(script).op, Head(script).id, 0, {}, m2, Open2)
<1>1. CASE script = <<Entry("BeginCreate", 0), Entry("EndCreate", 0)>>
  <2>1. Head(script) = Entry("BeginCreate", 0) /\ Tail(script) = <<Entry("EndCreate", 0)>>
    BY <1>1, Heads
  <2>2. Stage(Tail(script), 1, {})
    BY <2>1 DEF Stage
  <2>3. Logs(Head(script).op, Head(script).id, 0, {}, 1, {})
    BY <2>1, EntryFields DEF Logs
  <2> QED BY <2>2, <2>3
<1>2. CASE script = <<Entry("BeginWrite", 0), Entry("EndWrite", 0)>>
  <2>1. Head(script) = Entry("BeginWrite", 0) /\ Tail(script) = <<Entry("EndWrite", 0)>>
    BY <1>2, Heads
  <2>2. Stage(Tail(script), 1, {})
    BY <2>1 DEF Stage
  <2>3. Logs(Head(script).op, Head(script).id, 0, {}, 1, {})
    BY <2>1, EntryFields DEF Logs
  <2> QED BY <2>2, <2>3
<1>3. ASSUME NEW i \in Inodes,
             script = <<Entry("BeginOp", i), Entry("BeginWrite", 0), Entry("EndWrite", 0),
                        Entry("EndOp", i)>>
      PROVE  \E m2, Open2 :
               /\ m2 \in Nat
               /\ Stage(Tail(script), m2, Open2)
               /\ Logs(Head(script).op, Head(script).id, 0, {}, m2, Open2)
  <2>1. /\ Head(script) = Entry("BeginOp", i)
        /\ Tail(script) = <<Entry("BeginWrite", 0), Entry("EndWrite", 0), Entry("EndOp", i)>>
    BY <1>3, Heads
  <2>2. Stage(Tail(script), 0, {i})
    BY <2>1 DEF Stage
  <2>3. Logs(Head(script).op, Head(script).id, 0, {}, 0, {i})
    BY <2>1, EntryFields DEF Logs
  <2> QED BY <2>2, <2>3
<1> QED BY <1>1, <1>2, <1>3 DEF Scripts

LEMMA StageStep ==
  ASSUME NEW left, left # << >>, NEW m \in Nat, NEW Open, Stage(left, m, Open)
  PROVE  \E m2, Open2 :
           /\ m2 \in Nat
           /\ Stage(Tail(left), m2, Open2)
           /\ Logs(Head(left).op, Head(left).id, m, Open, m2, Open2)
<1>1. CASE \/ left = <<Entry("EndCreate", 0)>> /\ m = 1 /\ Open = {}
           \/ left = <<Entry("EndWrite", 0)>> /\ m = 1 /\ Open = {}
  <2>4. \E e : left = <<e>> /\ e.op \in {"EndCreate", "EndWrite"}
    BY <1>1, EntryFields
  <2>1. Head(left).op \in {"EndCreate", "EndWrite"} /\ Tail(left) = << >>
    BY <2>4, Heads
  <2>2. Stage(Tail(left), 0, {})
    BY <2>1 DEF Stage
  <2>3. Logs(Head(left).op, Head(left).id, m, Open, 0, {})
    BY <2>1, <1>1 DEF Logs
  <2> QED BY <2>2, <2>3
<1>2. ASSUME NEW i \in Inodes, Open = {i}, m = 0,
             left = <<Entry("BeginWrite", 0), Entry("EndWrite", 0), Entry("EndOp", i)>>
      PROVE  Stage(Tail(left), 1, {i}) /\ Logs(Head(left).op, Head(left).id, m, Open, 1, {i})
  <2>1. Head(left).op = "BeginWrite" /\ Tail(left) = <<Entry("EndWrite", 0), Entry("EndOp", i)>>
    BY <1>2, Heads, EntryFields
  <2> QED BY <2>1, <1>2 DEF Stage, Logs
<1>3. ASSUME NEW i \in Inodes, Open = {i}, m = 1,
             left = <<Entry("EndWrite", 0), Entry("EndOp", i)>>
      PROVE  Stage(Tail(left), 0, {i}) /\ Logs(Head(left).op, Head(left).id, m, Open, 0, {i})
  <2>1. Head(left).op = "EndWrite" /\ Tail(left) = <<Entry("EndOp", i)>>
    BY <1>3, Heads, EntryFields
  <2> QED BY <2>1, <1>3 DEF Stage, Logs
<1>4. ASSUME NEW i \in Inodes, Open = {i}, m = 0, left = <<Entry("EndOp", i)>>
      PROVE  Stage(Tail(left), 0, {}) /\ Logs(Head(left).op, Head(left).id, m, Open, 0, {})
  <2>1. Head(left).op = "EndOp" /\ Head(left).id = i /\ Tail(left) = << >>
    BY <1>4, Heads, EntryFields
  <2> QED BY <2>1, <1>4 DEF Stage, Logs
<1> QED BY <1>1, <1>2, <1>3, <1>4 DEF Stage

\* What is open while an operation runs, and what it leaves when it gives up.
LEMMA StageOpen ==
  ASSUME NEW left, NEW m, NEW Open, Stage(left, m, Open)
  PROVE  /\ m \in Nat
         /\ left = << >> => m = 0 /\ Open = {}
         /\ left # << >> => m > 0 \/ Open # {}
         /\ Open # {} => {e.id : e \in {g \in ToSet(left) : g.op = "EndOp"}} # {}
<1>1. \A a, b, c : <<a>> # << >> /\ <<a, b>> # << >> /\ <<a, b, c>> # << >>
  OBVIOUS
<1>2. m \in Nat
  BY DEF Stage
<1>3. left = << >> => m = 0 /\ Open = {}
  BY <1>1 DEF Stage
<1>4. left # << >> => m > 0 \/ Open # {}
  BY DEF Stage
<1>5. ASSUME Open # {} PROVE \E e \in ToSet(left) : e.op = "EndOp"
  <2>1. PICK i \in Inodes :
          \/ left = <<Entry("BeginWrite", 0), Entry("EndWrite", 0), Entry("EndOp", i)>>
          \/ left = <<Entry("EndWrite", 0), Entry("EndOp", i)>>
          \/ left = <<Entry("EndOp", i)>>
    BY <1>5 DEF Stage
  <2>2. \E n \in DOMAIN left : left[n] = Entry("EndOp", i)
    <3>1. \A a, b, c : /\ 1 \in DOMAIN <<a>> /\ <<a>>[1] = a
                       /\ 2 \in DOMAIN <<a, b>> /\ <<a, b>>[2] = b
                       /\ 3 \in DOMAIN <<a, b, c>> /\ <<a, b, c>>[3] = c
      OBVIOUS
    <3> QED BY <2>1, <3>1
  <2> QED BY <2>2, EntryFields DEF ToSet
<1> QED BY <1>2, <1>3, <1>4, <1>5

--------------------------------------------------------------------------------
\* What a scan finds, while the mounts stay in the first block.

Ids == Inodes \cup {0}

\* While every transaction was ended, over all mounts: no more than what runs.
Quiet(m, Open) ==
  ~ torn /\ ~ spilled => \E f : Session(journal, f, AtMost(m, Open)) /\ Old(journal, f)

\* Up to the first remount: no less than what runs and what was torn.
Found(m, Open) ==
  IF mounted \/ ~ torn THEN AtLeast(Ids, m + (IF torn THEN 1 ELSE 0), Open) ELSE Dirty(Ids)
Loud(m, Open) ==
  mounts = 0 /\ ~ spilled /\ abandoned = {} =>
    NothingBehind(journal) /\ \E f : Session(journal, f, Found(m, Open))

Alarm ==
  /\ ~ mounted => todo = << >>
  /\ \E m, Open : Stage(todo, m, Open) /\ Quiet(m, Open) /\ Loud(m, Open)

LEMMA LogAlarms ==
  ASSUME NEW e \in Entries, LogEntry(e), mounted, UNCHANGED <<mounted, torn, abandoned, mounts>>,
         NEW m \in Nat, NEW Open, NEW m2 \in Nat, NEW Open2,
         Logs(e.op, e.id, m, Open, m2, Open2), Quiet(m, Open), Loud(m, Open)
  PROVE  Quiet(m2, Open2)' /\ Loud(m2, Open2)'
<1>1. /\ journal' = Log(journal, e.op, e.id) /\ e.id \in Ids
      /\ ~ spilled' => ~ spilled /\ ~ (journal.offset + TotalLen(e.op) > BLOCK_SIZE)
  BY DEF LogEntry, Entries, Ids
<1>2. ASSUME ~ spilled', NEW f, NEW Top, Session(journal, f, Top)
      PROVE  journal.offset + TotalLen(e.op) <= BLOCK_SIZE
  BY <1>1, <1>2, Sizes DEF Session
<1>3. ASSUME ~ torn', ~ spilled'
      PROVE  \E f : Session(journal', f, AtMost(m2, Open2)) /\ Old(journal', f)
  <2>1. PICK f : Session(journal, f, AtMost(m, Open)) /\ Old(journal, f)
    BY <1>1, <1>3 DEF Quiet
  <2>2. \A acc \in AtMost(m, Open) :
          Account(acc, Record(journal.offset, e.op, e.id)) \in AtMost(m2, Open2)
    BY AccountMost
  <2>3. Clear \in AtMost(m, Open)
    BY ClearBounds
  <2> QED BY <1>1, <1>2, <1>3, <2>1, <2>2, <2>3, LogExtends
<1>4. ASSUME mounts' = 0, ~ spilled', abandoned' = {}
      PROVE  /\ NothingBehind(journal')
             /\ \E f : Session(journal', f, AtLeast(Ids, m2 + (IF torn THEN 1 ELSE 0), Open2))
  <2> DEFINE k == IF torn THEN 1 ELSE 0
  <2>1. k \in Nat
    OBVIOUS
  <2>2. NothingBehind(journal) /\ \E f : Session(journal, f, AtLeast(Ids, m + k, Open))
    BY <1>1, <1>4 DEF Loud, Found
  <2> HIDE DEF k
  <2>3. PICK f : Session(journal, f, AtLeast(Ids, m + k, Open))
    BY <2>2
  <2>4. \A acc \in AtLeast(Ids, m + k, Open) :
          Account(acc, Record(journal.offset, e.op, e.id)) \in AtLeast(Ids, m2 + k, Open2)
    BY <1>1, <2>1, AccountLeast
  <2>5. journal.offset + TotalLen(e.op) <= BLOCK_SIZE
    BY <1>2, <1>4, <2>3
  <2> QED BY <1>1, <2>2, <2>3, <2>4, <2>5, LogExtends DEF k
<1>5. Quiet(m2, Open2)'
  BY <1>3 DEF Quiet
<1>6. Loud(m2, Open2)'
  BY <1>4 DEF Loud, Found
<1> QED BY <1>5, <1>6

LEMMA AlarmInit == Init => Alarm
<1> SUFFICES ASSUME Init PROVE Alarm
  OBVIOUS
<1>1. journal.image = {} /\ journal.remains = {} /\ journal.offset = 0 /\ todo = << >> /\ mounted /\ ~ torn
  BY DEF Init, Reset, Blank
<1>2. Stage(todo, 0, {})
  BY <1>1 DEF Stage
<1> DEFINE f == [n \in Nat |-> {}]
<1>3. Session(journal, f, AtMost(0, {})) /\ Session(journal, f, AtLeast(Ids, 0, {}))
  BY <1>1, Sizes, ClearBounds DEF Session, InFirstBlock
<1>4. Old(journal, f) /\ NothingBehind(journal)
  BY <1>1 DEF Old, NothingBehind
<1> HIDE DEF f
<1>5. Quiet(0, {})
  BY <1>3, <1>4 DEF Quiet
<1>6. Loud(0, {})
  BY <1>1, <1>3, <1>4 DEF Loud, Found
<1> QED BY <1>1, <1>2, <1>5, <1>6 DEF Alarm

LEMMA AlarmStep == IInv /\ Alarm /\ [Next]_vars => Alarm'
<1> SUFFICES ASSUME IInv, Alarm, [Next]_vars PROVE Alarm'
  OBVIOUS
<1>1. PICK m, Open : Stage(todo, m, Open) /\ Quiet(m, Open) /\ Loud(m, Open)
  BY DEF Alarm
<1>2. m \in Nat
  BY <1>1, StageOpen
<1>3. ASSUME NEW script \in Scripts, Start(script) PROVE Alarm'
  <2>1. PICK m2, Open2 :
          m2 \in Nat /\ Stage(Tail(script), m2, Open2) /\ Logs(Head(script).op, Head(script).id, 0, {}, m2, Open2)
    BY ScriptStage
  <2>2. Head(script) \in Entries
    BY ScriptsTyped, HeadTail
  <2>3. /\ mounted /\ todo = << >> /\ LogEntry(Head(script)) /\ todo' = Tail(script)
        /\ UNCHANGED <<mounted, torn, abandoned, mounts>>
    BY <1>3 DEF Start
  <2>4. m = 0 /\ Open = {}
    BY <1>1, <2>3, StageOpen
  <2>5. Quiet(m2, Open2)' /\ Loud(m2, Open2)'
    BY <1>1, <1>2, <2>1, <2>2, <2>3, <2>4, LogAlarms
  <2>6. Stage(todo', m2, Open2)
    BY <2>1, <2>3
  <2> QED BY <2>3, <2>5, <2>6 DEF Alarm
<1>4. CASE Step
  <2>3. /\ mounted /\ todo # << >> /\ LogEntry(Head(todo)) /\ todo' = Tail(todo)
        /\ UNCHANGED <<mounted, torn, abandoned, mounts>>
    BY <1>4 DEF Step
  <2>1. PICK m2, Open2 :
          m2 \in Nat /\ Stage(Tail(todo), m2, Open2) /\ Logs(Head(todo).op, Head(todo).id, m, Open, m2, Open2)
    BY <1>1, <1>2, <2>3, StageStep
  <2>2. Head(todo) \in Entries
    BY <2>3, HeadTail DEF IInv, TypeOK
  <2>5. Quiet(m2, Open2)' /\ Loud(m2, Open2)'
    BY <1>1, <1>2, <2>1, <2>2, <2>3, LogAlarms
  <2>6. Stage(todo', m2, Open2)
    BY <2>1, <2>3
  <2> QED BY <2>3, <2>5, <2>6 DEF Alarm
<1>5. CASE Fail
  <2>1. /\ mounted /\ todo # << >> /\ todo' = << >> /\ torn' = TRUE
        /\ abandoned' = abandoned \cup {e.id : e \in {g \in ToSet(todo) : g.op = "EndOp"}}
        /\ UNCHANGED <<journal, mounted, spilled, records, mounts>>
    BY <1>5 DEF Fail
  <2>2. Stage(todo', 0, {})
    BY <2>1 DEF Stage
  <2>3. Quiet(0, {})'
    BY <2>1 DEF Quiet
  <2>4. ASSUME mounts = 0, ~ spilled, abandoned' = {}
        PROVE  NothingBehind(journal) /\ \E f : Session(journal, f, AtLeast(Ids, 1, {}))
    <3>1. abandoned = {} /\ Open = {}
      BY <1>1, <2>1, <2>4, StageOpen
    <3>2. m > 0
      BY <1>1, <2>1, <3>1, StageOpen
    <3> DEFINE k == IF torn THEN 1 ELSE 0
    <3>3. NothingBehind(journal) /\ \E f : Session(journal, f, AtLeast(Ids, m + k, Open))
      BY <1>1, <2>1, <2>4, <3>1 DEF Loud, Found
    <3>4. AtLeast(Ids, m + k, Open) \subseteq AtLeast(Ids, 1, {})
      BY <1>2, <3>2 DEF AtLeast, Accounts
    <3> HIDE DEF k
    <3> QED BY <3>3, <3>4, SessionWeaker
  <2>5. Loud(0, {})'
    <3>1. 0 + 1 = 1
      OBVIOUS
    <3> QED BY <2>1, <2>4, <3>1 DEF Loud, Found
  <2> QED BY <2>1, <2>2, <2>3, <2>5 DEF Alarm
<1>6. CASE Crash
  <2>1. /\ mounted /\ mounted' = FALSE /\ todo' = << >>
        /\ torn' = (torn \/ todo # << >>)
        /\ UNCHANGED <<journal, abandoned, spilled, records, mounts>>
    BY <1>6 DEF Crash
  <2>6. torn' <=> torn \/ todo # << >>
    BY <2>1
  <2>2. Stage(todo', 0, {})
    BY <2>1 DEF Stage
  <2>3. Quiet(0, {})'
    <3>1. CASE torn'
      BY <3>1 DEF Quiet
    <3>2. CASE ~ torn'
      <4>1. ~ torn /\ m = 0 /\ Open = {}
        BY <1>1, <2>6, <3>2, StageOpen
      <4> QED BY <1>1, <2>1, <3>2, <4>1 DEF Quiet
    <3> QED BY <3>1, <3>2
  <2>4. ASSUME mounts = 0, ~ spilled, abandoned = {}
        PROVE  /\ NothingBehind(journal)
               /\ torn' => \E f : Session(journal, f, Dirty(Ids))
               /\ ~ torn' => \E f : Session(journal, f, AtLeast(Ids, 0, {}))
    <3> DEFINE k == IF torn THEN 1 ELSE 0
    <3>1. NothingBehind(journal) /\ \E f : Session(journal, f, AtLeast(Ids, m + k, Open))
      BY <1>1, <2>1, <2>4 DEF Loud, Found
    <3>2. ASSUME torn' PROVE AtLeast(Ids, m + k, Open) \subseteq Dirty(Ids)
      <4>1. m + k \in Nat /\ (m + k > 0 \/ Open # {})
        BY <1>1, <1>2, <2>6, <3>2, StageOpen
      <4> HIDE DEF k
      <4> QED BY <4>1, AtLeastDirty
    <3>3. ASSUME ~ torn' PROVE m + k = 0 /\ Open = {}
      BY <1>1, <2>6, <3>3, StageOpen
    <3> HIDE DEF k
    <3> QED BY <3>1, <3>2, <3>3, SessionWeaker
  <2>5. Loud(0, {})'
    <3>1. 0 + 0 = 0
      OBVIOUS
    <3>2. CASE torn'
      BY <2>1, <2>4, <3>2 DEF Loud, Found
    <3>3. CASE ~ torn'
      BY <2>1, <2>4, <3>1, <3>3 DEF Loud, Found
    <3> QED BY <3>2, <3>3
  <2> QED BY <2>1, <2>2, <2>3, <2>5 DEF Alarm
<1>7. CASE Mount
  <2>1. /\ ~ mounted /\ mounts' = mounts + 1 /\ mounted' = TRUE /\ journal' = NewJournal(journal)
        /\ UNCHANGED <<todo, torn, abandoned, spilled, records>>
    BY <1>7 DEF Mount
  <2>2. todo = << >> /\ m = 0 /\ Open = {}
    BY <1>1, <2>1, StageOpen DEF Alarm
  <2>3. Quiet(0, {})'
    BY <1>1, <2>1, <2>2, OldMounts, ClearBounds DEF Quiet
  <2>4. mounts' # 0
    BY <2>1 DEF IInv, TypeOK
  <2>5. Loud(0, {})'
    BY <2>4 DEF Loud
  <2> QED BY <1>1, <2>1, <2>2, <2>3, <2>5 DEF Alarm
<1>8. CASE UNCHANGED vars
  BY <1>8 DEF vars, Alarm, Quiet, Loud, Found
<1> QED BY <1>3, <1>4, <1>5, <1>6, <1>7, <1>8 DEF Next

\* Over any number of crashes and mounts, for every size of the journal and of
\* its records: while the mounts stay in its first block and the scan does not come
\* to the remains of a record that a later mount cut, a device is reported dirty
\* only when some transaction was begun and not ended (check_recovery).
THEOREM JournalNoFalseAlarm == Spec => []NoFalseAlarm
<1>1. IInv /\ Alarm => NoFalseAlarm
  <2> SUFFICES ASSUME Alarm, ~ spilled, ~ Astray(journal), ~ Unfinished
               PROVE  TRUE \notin CheckRecovery(journal)
    BY DEF NoFalseAlarm
  <2>1. ~ torn /\ todo = << >>
    BY DEF Unfinished
  <2>2. \E f : Session(journal, f, {Clear}) /\ Old(journal, f)
    BY <2>1, StageOpen, ClearBounds DEF Alarm, Quiet
  <2>3. CheckRecovery(journal) = {FALSE}
    BY <2>2, OldScan, Reported
  <2> QED BY <2>3
<1> QED BY <1>1, IInvInit, IInvStep, AlarmInit, AlarmStep, PTL DEF Spec

\* Up to the first remount, inside the first block, and but for an inode whose
\* set_attribute was given up: a transaction that was begun and not ended is
\* reported, whatever was begun and ended after it (check_recovery).
THEOREM JournalTornIsDirty == Spec => []TornIsDirty
<1>1. IInv /\ Alarm => TornIsDirty
  <2> SUFFICES ASSUME Alarm, mounts = 0, ~ spilled, abandoned = {}, Unfinished
               PROVE  FALSE \notin CheckRecovery(journal)
    BY DEF TornIsDirty
  <2>1. PICK m, Open : Stage(todo, m, Open) /\ Loud(m, Open)
    BY DEF Alarm
  <2>2. NothingBehind(journal) /\ \E f : Session(journal, f, Found(m, Open))
    BY <2>1 DEF Loud
  <2>3. Found(m, Open) \subseteq Dirty(Ids)
    <3>1. CASE mounted \/ ~ torn
      <4> DEFINE k == IF torn THEN 1 ELSE 0
      <4>1. m \in Nat /\ m + k \in Nat /\ (m + k > 0 \/ Open # {})
        BY <2>1, StageOpen DEF Unfinished
      <4>2. Found(m, Open) = AtLeast(Ids, m + k, Open)
        BY <3>1 DEF Found
      <4> HIDE DEF k
      <4> QED BY <4>1, <4>2, AtLeastDirty
    <3>2. CASE ~ (mounted \/ ~ torn)
      BY <3>2 DEF Found
    <3> QED BY <3>1, <3>2
  <2>4. Scanned(journal.image).acc \in Dirty(Ids)
    BY <2>2, <2>3, SessionScan
  <2>5. CheckRecovery(journal) = {TRUE}
    BY <2>2, <2>4, NotAstray, Reported
  <2> QED BY <2>5
<1> QED BY <1>1, IInvInit, IInvStep, AlarmInit, AlarmStep, PTL DEF Spec
================================================================================
