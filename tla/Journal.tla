-------------------------------- MODULE Journal --------------------------------
(***************************************************************************)
(* The journal of one UnaFS device through its life: operations that log   *)
(* their Begin and End records, operations that give up with an error      *)
(* after their Begin, a process that dies at any record, and the mounts    *)
(* that follow.  What the operations do between two records is in UnaFS.   *)
(***************************************************************************)
EXTENDS Wal

CONSTANTS
  Inodes,      \* inodes the operations name
  MaxRecords,  \* bound: records logged in a behaviour
  MaxMounts    \* bound: mounts after the format

VARIABLES
  journal,    \* [image, remains, offset]: the region, Journal.write_offset
  todo,       \* the records the running operation has still to log
  mounted,    \* a process has the device open
  \* what the properties talk about, and no code reads
  torn,       \* some transaction begun since the format was never ended
  abandoned,  \* inodes whose set_attribute returned an error after its BeginOp
  spilled,    \* some record was logged outside the first block, or over a reset
  records,    \* records logged so far
  mounts      \* mounts so far

vars == <<journal, todo, mounted, torn, abandoned, spilled, records, mounts>>

Entry(op, id) == [op |-> op, id |-> id]

Entries == [op : JournalOps, id : Inodes \cup {0}]

\* create_inode_internal, write_data and set_attribute (whose update_catalog
\* writes the catalog) as the records each one logs.  The inode that a creation
\* or a write names is never read back: it is 0 here.
Scripts ==
  {<<Entry("BeginCreate", 0), Entry("EndCreate", 0)>>,
   <<Entry("BeginWrite", 0), Entry("EndWrite", 0)>>} \cup
  {<<Entry("BeginOp", i), Entry("BeginWrite", 0), Entry("EndWrite", 0), Entry("EndOp", i)>> :
     i \in Inodes}

Init ==
  /\ journal = Reset(Blank)
  /\ todo = << >>
  /\ mounted = TRUE
  /\ torn = FALSE
  /\ abandoned = {}
  /\ spilled = FALSE
  /\ records = 0
  /\ mounts = 0

\* One call of Journal::log.
LogEntry(e) ==
  /\ records < MaxRecords
  /\ records' = records + 1
  /\ journal' = Log(journal, e.op, e.id)
  /\ spilled' = (spilled \/ journal.offset + TotalLen(e.op) > BLOCK_SIZE)

\* An operation starts: its Begin record is logged before anything else.
Start(script) ==
  /\ mounted
  /\ todo = << >>
  /\ LogEntry(Head(script))
  /\ todo' = Tail(script)
  /\ UNCHANGED <<mounted, torn, abandoned, mounts>>

\* The running operation reaches its next record.
Step ==
  /\ mounted
  /\ todo # << >>
  /\ LogEntry(Head(todo))
  /\ todo' = Tail(todo)
  /\ UNCHANGED <<mounted, torn, abandoned, mounts>>

\* The running operation returns an error: no End record is logged for it.
Fail ==
  /\ mounted
  /\ todo # << >>
  /\ todo' = << >>
  /\ torn' = TRUE
  /\ abandoned' = abandoned \cup {e.id : e \in {f \in ToSet(todo) : f.op = "EndOp"}}
  /\ UNCHANGED <<journal, mounted, spilled, records, mounts>>

\* The process ends, in the middle of an operation or between two.
Crash ==
  /\ mounted
  /\ mounted' = FALSE
  /\ torn' = (torn \/ todo # << >>)
  /\ todo' = << >>
  /\ UNCHANGED <<journal, abandoned, spilled, records, mounts>>

\* UnaFS::mount: a new Journal, its offset at zero, over the old records.
Mount ==
  /\ ~mounted
  /\ mounts < MaxMounts
  /\ mounts' = mounts + 1
  /\ mounted' = TRUE
  /\ journal' = NewJournal(journal)
  /\ UNCHANGED <<todo, torn, abandoned, spilled, records>>

Next ==
  \/ \E script \in Scripts : Start(script)
  \/ Step
  \/ Fail
  \/ Crash
  \/ Mount

Spec == Init /\ [][Next]_vars

--------------------------------------------------------------------------------

JournalType ==
  [image   : SUBSET [at : Nat, op : JournalOps, id : Inodes \cup {0}],
   remains : SUBSET Nat,
   offset  : 0 .. Capacity]

TypeOK ==
  /\ journal \in JournalType
  /\ todo \in Seq(Entries)
  /\ mounted \in BOOLEAN
  /\ torn \in BOOLEAN
  /\ abandoned \in SUBSET (Inodes \cup {0})
  /\ spilled \in BOOLEAN
  /\ records \in Nat
  /\ mounts \in Nat

\* A transaction was begun and not ended: by the running operation, or ever.
Unfinished == torn \/ todo # << >>

\* Wherever a scan can start reading a record, the whole record is still
\* there, inside one block: neither a record of this mount nor one that an
\* earlier mount left behind has been cut by a later one (log, wal.rs).
IntactRecords ==
  /\ \A r \in journal.image : (r.at % BLOCK_SIZE) + TotalLen(r.op) <= BLOCK_SIZE
  /\ \A r, s \in journal.image : r.at < s.at => r.at + TotalLen(r.op) <= s.at

\* log() only adds behind what the current mount has logged: what lies below
\* the write offset stays, unless a record may no longer fit and the journal
\* starts over.
SessionOnlyAppends ==
  [][journal.offset + LONG_RECORD <= Capacity
       => {r \in journal.image : r.at < journal.offset} \subseteq journal'.image]_vars

\* check_recovery never cries wolf, over any number of crashes and mounts, as
\* long as every mount has stayed inside the first block of the journal and the
\* scan does not come to the remains of a record (see DirtyMeansUnclosed).
NoFalseAlarm ==
  ~spilled /\ ~Astray(journal) /\ TRUE \in CheckRecovery(journal) => Unfinished

\* Up to the first remount, inside the first block, and but for an inode whose
\* set_attribute was given up, what the code comments promise holds: a device
\* with a Begin and no End is reported dirty (wal.rs, check_recovery).
TornIsDirty ==
  mounts = 0 /\ ~spilled /\ abandoned = {} /\ Unfinished => FALSE \notin CheckRecovery(journal)

--------------------------------------------------------------------------------
\* What wal.rs says of check_recovery, without those provisos.

\* "Any Begin without an End is dirty."
AnyBeginWithoutEndIsDirty == Unfinished => TRUE \in CheckRecovery(journal)

\* "Returns true if the FS was dirty (unclosed transaction found)."  It may return
\* true with nothing unclosed: the scan of a mount comes to the remains of a
\* record that an earlier one cut.
DirtyMeansUnclosed == TRUE \in CheckRecovery(journal) => Unfinished
================================================================================
