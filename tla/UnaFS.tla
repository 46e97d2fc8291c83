--------------------------------- MODULE UnaFS ---------------------------------
(***************************************************************************)
(* The UnaFS file system (libs/unafs/src/fs.rs) on one device, one action  *)
(* for every write to the device, so that a process may die between any    *)
(* two of them.  The file system is single threaded: one operation at a    *)
(* time, its place in the code in pc.                                      *)
(*                                                                         *)
(* A file is its list of physical blocks (Extents.tla has the byte ranges).*)
(* What blocks hold is abstracted to what the code reads back: inodes, and *)
(* the entry lists of directories and of the attribute catalog.            *)
(***************************************************************************)
EXTENDS Wal, SpaceMap, Integers, FiniteSets

CONSTANTS
  DeviceBlocks,    \* superblock.block_count
  BitmapCapacity,  \* bits in the bitmap's blocks: what load() takes for the block count
  SystemBlocks,    \* superblock, journal and bitmap blocks, from block 0
  InitialLength,   \* blocks the device holds before format(), zero for a new file
  InodeRoom,       \* extents and attributes an inode block has room for
  Keys,            \* attribute names
  CreateKeys,      \* attribute names callers pass to create_inode
  Names,           \* directory entry names
  MaxFileBlocks,   \* bound: blocks written to a file at once
  MaxLargeBlocks,  \* bound: blocks of a large attribute
  MaxOps,          \* bound: operations started
  MaxMounts        \* bound: mounts after the format

ASSUME UnaFSAssumption ==
  /\ SystemBlocks \in Nat \ {0}
  /\ DeviceBlocks \in Nat /\ DeviceBlocks >= SystemBlocks + 2
  /\ BitmapCapacity \in Nat /\ BitmapCapacity >= DeviceBlocks
  /\ InitialLength \in {0, DeviceBlocks}
  /\ CreateKeys \subseteq Keys
  /\ Keys \cap {"inode", "data"} = {}  \* the other places a block can have

VARIABLES
  \* the device
  inodes,     \* block -> the inode it holds, or NoInode
  lists,      \* block -> the entry list it holds, or NoList
  length,     \* blocks the device holds: a file grows when written past its end
  disk_bits,  \* the bitmap's blocks
  disk_free,  \* free_blocks in the superblock's block
  journal,    \* the journal region and Journal.write_offset
  \* the UnaFS value of the running process
  bits,       \* bitmap.bits
  count,      \* bitmap.block_count
  free,       \* superblock.free_blocks
  \* the operation it executes
  pc,         \* where it is; "idle" between two, "down" without a process
  task,       \* its arguments
  id,         \* the inode it works on
  node,       \* its copy of that inode
  idx,        \* the next block it writes
  out,        \* the entry list it writes, NoList for file data
  \* what the properties talk about, and no code reads
  torn,       \* an operation was cut short after its Begin record
  abandoned,  \* inodes whose set_attribute returned an error
  spilled,    \* the journal has left its first block
  err,        \* how the last operation failed
  ops,        \* operations started so far
  mounts      \* mounts so far

device == <<inodes, lists, length, disk_bits, disk_free>>
memory == <<bits, count, free>>
locals == <<task, id, node, idx, out>>
ghosts == <<torn, abandoned, err, ops, mounts>>
vars == <<device, journal, spilled, memory, pc, locals, ghosts>>

--------------------------------------------------------------------------------

Blocks == 0 .. BitmapCapacity - 1
System == 0 .. SystemBlocks - 1
Root == SystemBlocks
Catalog == SystemBlocks + 1

\* An inode: size counts entries for a list and blocks for a file; chunks[i]
\* holds the i-th block of the data; large maps a key to the blocks of its value.
NewInode(kind) ==
  [kind |-> kind, size |-> 0, chunks |-> << >>, small |-> {}, large |-> [k \in Keys |-> << >>]]

NoInode == NewInode("none")

\* A serialized entry list: of a directory or of the catalog, how many entries
\* it says it has, and which.  File data is taken to be zeros: an empty list.
NoList == [of |-> "none", len |-> 0, items |-> {}]
AddItem(kind, list, item) ==
  [of |-> kind, len |-> list.len + 1, items |-> list.items \cup {item}]

NoTask == [kind |-> "none", target |-> 0, key |-> "none", blocks |-> 0]

\* Inode::to_bytes refuses an inode that does not fit its block.  Consecutive
\* data blocks share one extent, those of an attribute never do.
TooLarge(n) ==
  LET extents == {i \in DOMAIN n.chunks : i = 1 \/ n.chunks[i] # n.chunks[i-1] + 1}
      stored  == {p \in Keys \X (1 .. MaxLargeBlocks) : p[2] \in DOMAIN n.large[p[1]]}
  IN  Cardinality(extents) + Cardinality(n.small) + Cardinality(stored) > InodeRoom

\* The list an inode's data decodes to: none of it is read past inode.size, so
\* a list that says it is longer than that does not decode.
ListOf(n) == IF n.size = 0 \/ n.chunks = << >> THEN NoList ELSE lists[n.chunks[1]]
Decodes(n) ==
  LET list == ListOf(n)
  IN  list = NoList \/ (list.of = n.kind /\ list.len <= n.size)

\* Every block the inode in block b accounts for, with the place it has there.
Places(b, n) ==
  {<<b, b, "inode", 0>>}
    \cup {<<n.chunks[i], b, "data", i>> : i \in DOMAIN n.chunks}
    \cup UNION {{<<n.large[k][i], b, k, i>> : i \in DOMAIN n.large[k]} : k \in Keys}

--------------------------------------------------------------------------------
\* UnaFS::format on a device of DeviceBlocks blocks, or on an empty file.

Init ==
  LET used == System \cup {Root, Catalog}
      left == DeviceBlocks - SystemBlocks - 2
  IN  /\ inodes = [b \in Blocks |-> CASE b = Root -> NewInode("dir")
                                      [] b = Catalog -> NewInode("system")
                                      [] OTHER -> NoInode]
      /\ lists = [b \in Blocks |-> NoList]
      /\ length = IF InitialLength > Catalog THEN InitialLength ELSE Catalog + 1
      /\ disk_bits = used /\ bits = used
      /\ disk_free = left /\ free = left
      /\ count = DeviceBlocks
      /\ journal = Reset(Blank)
      /\ pc = "idle"
      /\ task = NoTask /\ id = 0 /\ node = NoInode /\ idx = 1 /\ out = NoList
      /\ torn = FALSE /\ abandoned = {} /\ spilled = FALSE /\ err = "none"
      /\ ops = 0 /\ mounts = 0

--------------------------------------------------------------------------------
\* What several operations share.

\* One journal record.
LogRecord(op, i) ==
  /\ journal' = Log(journal, op, i)
  /\ spilled' = (spilled \/ journal.offset + TotalLen(op) > BLOCK_SIZE)

\* BlockDevice::write_block.
PutBlock(b, n, list) ==
  /\ inodes' = [inodes EXCEPT ![b] = n]
  /\ lists' = [lists EXCEPT ![b] = list]
  /\ length' = IF b >= length THEN b + 1 ELSE length
  /\ UNCHANGED <<disk_bits, disk_free>>

\* Mutant: the block taken is not marked in the bitmap.
TakeUnmarked(b) ==
  /\ IsLowestFree(b, bits, count)
  /\ bits' = bits
  /\ free' = CountDown(free)
  /\ count' = count

\* allocate() and the count that goes with it.
Take(b) ==
  /\ IsLowestFree(b, bits, count)
  /\ bits' = bits \cup {b}
  /\ free' = CountDown(free)
  /\ count' = count

\* The two writes of sync_metadata, each at its place in an operation.
SaveBitmap(from, to) ==
  /\ pc = from /\ pc' = to
  /\ disk_bits' = bits
  /\ UNCHANGED <<inodes, lists, length, disk_free, journal, spilled, memory, locals, ghosts>>

\* Mutant: the superblock is written as it was.
SaveOldSuperblock(from, to) ==
  /\ pc = from /\ pc' = to
  /\ UNCHANGED <<device, journal, spilled, memory, locals, ghosts>>

SaveSuperblock(from, to) ==
  /\ pc = from /\ pc' = to
  /\ disk_free' = free
  /\ UNCHANGED <<inodes, lists, length, disk_bits, journal, spilled, memory, locals, ghosts>>

\* The operation returns: nothing of its local variables survives.
Return ==
  /\ pc' = "idle"
  /\ task' = NoTask /\ id' = 0 /\ node' = NoInode /\ idx' = 1 /\ out' = NoList

\* A `?` in the middle of a journaled operation: it returns the error, and
\* neither the bitmap nor the journal hears of it.
Fail(e) ==
  /\ Return
  /\ err' = e
  /\ torn' = TRUE
  /\ abandoned' = IF task.kind = "attribute" THEN abandoned \cup {task.target} ELSE abandoned
  /\ UNCHANGED <<ops, mounts>>

StartOp ==
  /\ pc = "idle"
  /\ ops < MaxOps
  /\ ops' = ops + 1

\* Inodes a caller can name.
Known(kinds) == {b \in bits : inodes[b].kind \in kinds}

--------------------------------------------------------------------------------
\* Creating an inode: create_inode_internal.  When no block is free every
\* operation that starts with an allocation returns NoSpace and changes nothing.

\* The block of the new inode is taken in memory, the creation is logged.
BeginCreate(b, n, arguments, list) ==
  /\ StartOp
  /\ Take(b)
  /\ LogRecord("BeginCreate", 0)
  /\ pc' = "create_inode"
  /\ task' = arguments /\ id' = b /\ node' = n /\ idx' = 1 /\ out' = list
  /\ UNCHANGED <<device, torn, abandoned, err, mounts>>

\* create_inode: a file without a name, born with some attributes.
CreateInode(attrs) ==
  \E b \in Blocks :
    BeginCreate(b, [NewInode("file") EXCEPT !.small = attrs],
                [NoTask EXCEPT !.kind = "create"], NoList)

\* mkdir, create_file: add_entry reads the whole directory first.  The new
\* entry is only written once its inode exists.
AddEntry(parent, name, kind) ==
  LET dir  == inodes[parent]
      list == ListOf(dir)
  IN  /\ dir.kind = "dir" /\ Decodes(dir)
      /\ \A e \in list.items : e[1] # name
      /\ \E b \in Blocks :
           BeginCreate(b, NewInode(kind),
                       [kind |-> "entry", target |-> parent, key |-> name, blocks |-> 0],
                       AddItem("dir", list, <<name, b>>))

EndCreate ==
  /\ pc = "create_end"
  /\ LogRecord("EndCreate", 0)
  /\ IF task.kind = "entry"
       THEN pc' = "write_begin" /\ UNCHANGED locals
       ELSE Return
  /\ UNCHANGED <<device, memory, ghosts>>

--------------------------------------------------------------------------------
\* Writing data from offset zero, the only one callers use: write_data.

\* The inode is read back from the device once the write is logged.
BeginWrite(target, list, arguments) ==
  /\ LogRecord("BeginWrite", 0)
  /\ pc' = "write_block"
  /\ task' = arguments /\ id' = target /\ node' = inodes[target] /\ idx' = 1 /\ out' = list

WriteData(target, n) ==
  /\ StartOp
  /\ BeginWrite(target, NoList, [NoTask EXCEPT !.kind = "write", !.target = target, !.blocks = n])
  /\ UNCHANGED <<device, memory, torn, abandoned, err, mounts>>

WriteEntries ==
  /\ pc = "write_begin"
  /\ BeginWrite(task.target, out, task)
  /\ UNCHANGED <<device, memory, ghosts>>

\* Blocks the running write has to write: a list fits in one.
Span == IF out = NoList THEN task.blocks ELSE 1

WriteBlock(b, n) ==
  /\ b < length  \* read_block comes first
  /\ PutBlock(b, NoInode, out)
  /\ node' = n
  /\ idx' = idx + 1
  /\ pc' = IF idx < Span THEN "write_block" ELSE "write_inode"
  /\ UNCHANGED <<journal, spilled, task, id, out, ghosts>>

\* A block the file already has is overwritten in place.
Overwrite ==
  /\ pc = "write_block"
  /\ idx \in DOMAIN node.chunks
  /\ WriteBlock(node.chunks[idx], node)
  /\ UNCHANGED memory

\* The file grows by a block.
Extend(b) ==
  /\ pc = "write_block"
  /\ idx \notin DOMAIN node.chunks
  /\ Take(b)
  /\ WriteBlock(b, [node EXCEPT !.chunks = Append(@, b)])

\* The block taken lies behind the end of the device and cannot be read: the
\* write gives up, the block stays taken in memory.
ExtendBeyond(b) ==
  /\ pc = "write_block"
  /\ idx \notin DOMAIN node.chunks
  /\ Take(b)
  /\ b >= length
  /\ Fail("Storage")
  /\ UNCHANGED <<device, journal, spilled>>

EndWrite ==
  /\ pc = "write_end"
  /\ LogRecord("EndWrite", 0)
  /\ IF task.kind = "attribute"
       THEN pc' = "attr_bitmap" /\ UNCHANGED locals
       ELSE Return
  /\ UNCHANGED <<device, memory, ghosts>>

--------------------------------------------------------------------------------
\* Setting an attribute: set_attribute.  Zero blocks is a value that is kept in
\* the inode itself.

SetAttribute(target, key, n) ==
  LET old == inodes[target]
  IN  /\ StartOp
      /\ LogRecord("BeginOp", target)
      /\ pc' = IF old.large[key] # << >> THEN "attr_free"
               ELSE IF n > 0 THEN "attr_store" ELSE "attr_inode"
      /\ task' = [kind |-> "attribute", target |-> target, key |-> key, blocks |-> n]
      /\ id' = target /\ node' = old /\ idx' = 1 /\ out' = NoList
      /\ UNCHANGED <<device, memory, torn, abandoned, err, mounts>>

\* Mutant: the old extents stay in the inode.
FreeOldKeepsExtents ==
  LET old == node.large[task.key]
  IN  /\ pc = "attr_free"
      /\ bits' = bits \ ToSet(old)
      /\ free' = CountUp(free, DeviceBlocks, Len(old))
      /\ disk_bits' = bits'
      /\ pc' = "attr_free_super"
      /\ UNCHANGED <<inodes, lists, length, disk_free, journal, spilled, count, locals, ghosts>>

\* free_extents: the blocks of the old value are given back, and the bitmap that
\* says so is on the device before the inode that no longer uses them.
FreeOld ==
  LET old == node.large[task.key]
  IN  /\ pc = "attr_free"
      /\ bits' = bits \ ToSet(old)
      /\ free' = CountUp(free, DeviceBlocks, Len(old))
      /\ disk_bits' = bits'
      /\ node' = [node EXCEPT !.large[task.key] = << >>]
      /\ pc' = "attr_free_super"
      /\ UNCHANGED <<inodes, lists, length, disk_free, journal, spilled, count, task, id, idx, out, ghosts>>

\* allocate_and_write_extents: a block is written without being read.
StoreNew(b) ==
  /\ pc = "attr_store"
  /\ Take(b)
  /\ PutBlock(b, NoInode, NoList)
  /\ node' = [node EXCEPT !.large[task.key] = Append(@, b)]
  /\ idx' = idx + 1
  /\ pc' = IF idx < task.blocks THEN "attr_store" ELSE "attr_store_bitmap"
  /\ UNCHANGED <<journal, spilled, task, id, out, ghosts>>

\* Mutant: the new entry replaces the catalog.
UpdateCatalogAlone ==
  /\ pc = "attr_catalog"
  /\ Decodes(inodes[Catalog])
  /\ BeginWrite(Catalog, AddItem("system", NoList, <<task.key, task.target>>), task)
  /\ UNCHANGED <<device, memory, ghosts>>

\* update_catalog: the catalog is read whole and written whole, as a file.
UpdateCatalog ==
  LET catalog == inodes[Catalog]
  IN  /\ pc = "attr_catalog"
      /\ Decodes(catalog)
      /\ BeginWrite(Catalog,
                    AddItem("system", ListOf(catalog), <<task.key, task.target>>), task)
      /\ UNCHANGED <<device, memory, ghosts>>

CatalogUnreadable ==
  /\ pc = "attr_catalog"
  /\ ~Decodes(inodes[Catalog])
  /\ Fail("Catalog")
  /\ UNCHANGED <<device, journal, spilled, memory>>

EndAttribute ==
  /\ pc = "attr_end"
  /\ LogRecord("EndOp", task.target)
  /\ Return
  /\ UNCHANGED <<device, memory, ghosts>>

--------------------------------------------------------------------------------
\* What the operations share.

\* No block is free in the middle of an operation.
NoSpace ==
  /\ pc = "attr_store" \/ (pc = "write_block" /\ idx \notin DOMAIN node.chunks)
  /\ ~HasFree(bits, count)
  /\ Fail("NoSpace")
  /\ UNCHANGED <<device, journal, spilled, memory>>

\* Mutant: a write leaves the size of the inode alone.
FinalKeepsSize ==
  CASE pc = "attr_inode" -> [node EXCEPT !.small = IF task.blocks = 0 THEN @ \cup {task.key}
                                                                      ELSE @ \ {task.key}]
    [] OTHER -> node

\* The inode an operation writes back.
Final ==
  LET extent == IF out = NoList THEN task.blocks ELSE out.len
  IN  CASE pc = "create_inode" -> node
        [] pc = "write_inode"  -> [node EXCEPT !.size = IF extent > @ THEN extent ELSE @]
        [] pc = "attr_inode"   -> [node EXCEPT !.small = IF task.blocks = 0 THEN @ \cup {task.key}
                                                                            ELSE @ \ {task.key}]

\* write_inode
WriteInode ==
  /\ pc \in {"create_inode", "write_inode", "attr_inode"}
  /\ ~TooLarge(Final)
  /\ PutBlock(id, Final, NoList)
  /\ node' = Final
  /\ pc' = CASE pc = "create_inode" -> "create_bitmap"
             [] pc = "write_inode"  -> "write_bitmap"
             [] pc = "attr_inode"   -> "attr_catalog"
  /\ UNCHANGED <<journal, spilled, memory, task, id, idx, out, ghosts>>

InodeTooLarge ==
  /\ pc \in {"create_inode", "write_inode", "attr_inode"}
  /\ TooLarge(Final)
  /\ Fail("InodeTooLarge")
  /\ UNCHANGED <<device, journal, spilled, memory>>

\* sync_metadata, wherever it is called.
SyncMetadata ==
  \/ SaveBitmap("create_bitmap", "create_super")
  \/ SaveBitmap("write_bitmap", "write_super")
  \/ SaveBitmap("attr_store_bitmap", "attr_store_super")
  \/ SaveBitmap("attr_bitmap", "attr_super")
  \/ SaveSuperblock("create_super", "create_end")
  \/ SaveSuperblock("write_super", "write_end")
  \/ SaveSuperblock("attr_free_super", IF task.blocks > 0 THEN "attr_store" ELSE "attr_inode")
  \/ SaveSuperblock("attr_store_super", "attr_inode")
  \/ SaveSuperblock("attr_super", "attr_end")

--------------------------------------------------------------------------------
\* Between the Begin record of the running operation and its End record.
InTransaction == pc \notin {"idle", "write_begin", "down"}

\* The process dies, at any write or between two operations.
Crash ==
  /\ pc # "down"
  /\ pc' = "down"
  /\ torn' = (torn \/ InTransaction)
  /\ bits' = {} /\ count' = 0 /\ free' = 0
  /\ task' = NoTask /\ id' = 0 /\ node' = NoInode /\ idx' = 1 /\ out' = NoList
  /\ UNCHANGED <<device, journal, spilled, abandoned, err, ops, mounts>>

\* UnaFS::mount: a dirty journal is only reported, the bitmap takes the bits of
\* its blocks for the number of blocks of the device.
Mount ==
  /\ pc = "down" /\ pc' = "idle"
  /\ mounts < MaxMounts
  /\ mounts' = mounts + 1
  /\ bits' = disk_bits /\ count' = BitmapCapacity /\ free' = disk_free
  /\ journal' = NewJournal(journal)
  /\ UNCHANGED <<device, spilled, locals, torn, abandoned, err, ops>>

Next ==
  \/ \E attrs \in SUBSET CreateKeys : CreateInode(attrs)
  \/ \E parent \in Known({"dir"}), name \in Names, kind \in {"file", "dir"} :
       AddEntry(parent, name, kind)
  \/ EndCreate
  \/ \E target \in Known({"file"}), n \in 1 .. MaxFileBlocks : WriteData(target, n)
  \/ WriteEntries
  \/ Overwrite
  \/ \E b \in Blocks : Extend(b) \/ ExtendBeyond(b) \/ StoreNew(b)
  \/ EndWrite
  \/ \E target \in Known({"file", "dir"}), key \in Keys, n \in 0 .. MaxLargeBlocks :
       SetAttribute(target, key, n)
  \/ FreeOld
  \/ UpdateCatalog
  \/ CatalogUnreadable
  \/ EndAttribute
  \/ NoSpace
  \/ WriteInode
  \/ InodeTooLarge
  \/ SyncMetadata
  \/ Crash
  \/ Mount

Spec == Init /\ [][Next]_vars

--------------------------------------------------------------------------------

InodeType ==
  [kind : {"none", "file", "dir", "system"}, size : Nat, chunks : Seq(Blocks),
   small : SUBSET Keys, large : [Keys -> Seq(Blocks)]]

ListType == [of : {"none", "dir", "system"}, len : Nat, items : SUBSET ((Names \cup Keys) \X Blocks)]

Points == {"idle", "down",
  "create_inode", "create_bitmap", "create_super", "create_end",
  "write_begin", "write_block", "write_inode", "write_bitmap", "write_super", "write_end",
  "attr_free", "attr_free_super", "attr_store", "attr_store_bitmap", "attr_store_super",
  "attr_inode", "attr_catalog", "attr_bitmap", "attr_super", "attr_end"}

TypeOK ==
  /\ inodes \in [Blocks -> InodeType]
  /\ lists \in [Blocks -> ListType]
  /\ length \in 0 .. BitmapCapacity
  /\ disk_bits \in SUBSET Blocks /\ bits \in SUBSET Blocks
  /\ disk_free \in 0 .. DeviceBlocks /\ free \in 0 .. DeviceBlocks
  /\ count \in {0, DeviceBlocks, BitmapCapacity}
  /\ pc \in Points
  /\ id \in Blocks /\ node \in InodeType /\ idx \in Nat \ {0} /\ out \in ListType
  /\ torn \in BOOLEAN /\ spilled \in BOOLEAN /\ abandoned \in SUBSET Blocks

\* The inodes as the running operation will leave them: its own copy stands for
\* the one it works on.
View == IF InTransaction THEN [inodes EXCEPT ![id] = node] ELSE inodes
Live(table) == {b \in Blocks : table[b].kind # "none"}
AllPlaces(table) == UNION {Places(b, table[b]) : b \in Live(table)}
AllRefs(table) == {p[1] : p \in AllPlaces(table)}
Unshared(table) == \A p, q \in AllPlaces(table) : p[1] = q[1] => p = q

\* The bitmap the next operation will see.
Used == IF pc = "down" THEN disk_bits ELSE bits

\* No operation is between its first and its last write.
Settled == ~torn /\ ~InTransaction

\* As long as no operation has been cut short: a block holds one inode, or one
\* block of one file, or of one attribute, never two of them, and the bitmap
\* marks these blocks and those of the system, no other (allocate, free_extents).
AllocationExact ==
  ~torn =>
    /\ Unshared(View)
    /\ AllRefs(View) \cap System = {}
    /\ Used = System \cup AllRefs(View)

\* ... and what the device says is what the running process believes: between
\* two operations a process may die and lose nothing (sync_metadata).
NothingPending ==
  Settled /\ pc # "down" => disk_bits = bits /\ disk_free = free

\* free_blocks is the number of the device's blocks that are free (superblock.rs):
\* exactly while the bitmap believes in those and no more, and never too few when a
\* mount has made it believe in others.
FreeCount ==
  ~torn /\ pc # "down" =>
    /\ free >= DeviceBlocks - Cardinality(bits)
    /\ count = DeviceBlocks => free = DeviceBlocks - Cardinality(bits)

\* Directories and the catalog can be read, none that was written reads as empty,
\* and every entry names an inode of its own (add_entry, update_catalog).
EntriesSound ==
  Settled =>
    /\ \A b \in Live(inodes) :
         inodes[b].kind \in {"dir", "system"} =>
           Decodes(inodes[b]) /\ (inodes[b].chunks # << >> => ListOf(inodes[b]) # NoList)
    /\ \A b \in Live(inodes) :
         inodes[b].kind \in {"dir", "system"} =>
           \A e \in ListOf(inodes[b]).items : inodes[e[2]].kind \in {"file", "dir"}
    /\ \A a, b \in Live(inodes) :
         inodes[a].kind = "dir" /\ inodes[b].kind = "dir" =>
           \A d \in ListOf(inodes[a]).items, e \in ListOf(inodes[b]).items :
             d[2] = e[2] => a = b /\ d = e

\* Every attribute set with set_attribute can be found through the catalog.
CatalogComplete ==
  Settled =>
    \A b \in Live(inodes), k \in Keys \ CreateKeys :
      k \in inodes[b].small \/ inodes[b].large[k] # << >>
        => <<k, b>> \in ListOf(inodes[Catalog]).items

\* What a crash leaves behind that no later operation repairs: a block used
\* twice, or used and marked free, a list that cannot be read, or one that
\* names a block without an inode.
Damaged ==
  \/ ~Unshared(inodes)
  \/ AllRefs(inodes) \ disk_bits # {}
  \/ \E b \in Live(inodes) :
       /\ inodes[b].kind \in {"dir", "system"}
       /\ \/ ~Decodes(inodes[b])
          \/ \E e \in ListOf(inodes[b]).items : inodes[e[2]].kind = "none"

\* A mount that finds the device damaged says so: up to the first remount, inside
\* the first journal block, and but for an inode whose set_attribute failed.
DamageDetected ==
  mounts = 0 /\ ~spilled /\ abandoned = {} /\ Damaged => FALSE \notin CheckRecovery(journal)

--------------------------------------------------------------------------------
\* What the code's comments say and the code does not do.

\* "Any Begin without an End is dirty.": damage is always reported.
DamageAlwaysDetected == Damaged => TRUE \in CheckRecovery(journal)

\* "If we hit the end of the logical disk size": no block past it is taken.
AllocatedOnDevice == \A b \in bits : b < DeviceBlocks

\* "Use provided size if device is empty or for initialization": a file system
\* formatted on an empty device can be written to.
FormattedIsWritable == err # "Storage"

================================================================================
