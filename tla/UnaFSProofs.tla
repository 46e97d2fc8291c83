------------------------------ MODULE UnaFSProofs ------------------------------
(***************************************************************************)
(* What UnaFS.tla promises for every device, bitmap, inode and bound: the  *)
(* types; that in every state no operation was cut short before no block   *)
(* is used twice, none in use is free and none is leaked; that the device  *)
(* has the bitmap between two operations.  Then the count of free blocks,  *)
(* what directories and the attribute catalog hold as long as no operation *)
(* is cut short, and that a mount reports the damage when one was.         *)
(***************************************************************************)
EXTENDS UnaFS, FiniteSetTheorems, WalProofs, TLAPS

--------------------------------------------------------------------------------
\* Inodes and lists, each edit of one on its own.

LEMMA BlockNumbers ==
  /\ 0 \in Blocks /\ Root \in Blocks /\ Catalog \in Blocks /\ Root # Catalog
  /\ Root \notin System /\ Catalog \notin System
  /\ System \subseteq Blocks
  BY UnaFSAssumption DEF Blocks, Root, Catalog, System

LEMMA EmptySeq == \A S : << >> \in Seq(S)
  OBVIOUS

LEMMA InodeFields ==
  ASSUME NEW n \in InodeType
  PROVE  /\ n.kind \in {"none", "file", "dir", "system"}
         /\ n.size \in Nat
         /\ n.chunks \in Seq(Blocks)
         /\ n.small \in SUBSET Keys
         /\ n.large \in [Keys -> Seq(Blocks)]
  BY DEF InodeType

LEMMA InodeOfFields ==
  ASSUME NEW kind \in {"none", "file", "dir", "system"}, NEW size \in Nat,
         NEW chunks \in Seq(Blocks), NEW small \in SUBSET Keys,
         NEW large \in [Keys -> Seq(Blocks)]
  PROVE  [kind |-> kind, size |-> size, chunks |-> chunks, small |-> small,
          large |-> large] \in InodeType
  BY DEF InodeType

LEMMA NewInodeTyped ==
  ASSUME NEW kind \in {"none", "file", "dir", "system"}
  PROVE  /\ NewInode(kind) \in InodeType
         /\ NewInode(kind).kind = kind
         /\ NewInode(kind).chunks = << >>
         /\ \A k \in Keys : NewInode(kind).large[k] = << >>
<1>1. [k \in Keys |-> << >>] \in [Keys -> Seq(Blocks)]
  BY EmptySeq
<1>2. << >> \in Seq(Blocks) /\ {} \in SUBSET Keys /\ 0 \in Nat
  BY EmptySeq
<1>3. NewInode(kind) \in InodeType
  BY <1>1, <1>2, InodeOfFields DEF NewInode
<1>4. QED
  BY <1>3 DEF NewInode

\* A block more, in the data or in a large attribute.
LEMMA AppendBlock ==
  ASSUME NEW n \in InodeType, NEW b \in Blocks, NEW m,
         m = [n EXCEPT !.chunks = Append(@, b)]
  PROVE  /\ m \in InodeType
         /\ m.kind = n.kind
         /\ m.chunks = Append(n.chunks, b)
         /\ m.large = n.large
<1>1. Append(n.chunks, b) \in Seq(Blocks)
  BY InodeFields
<1>2. QED
  BY <1>1, InodeFields DEF InodeType

LEMMA SetLarge ==
  ASSUME NEW n \in InodeType, NEW k \in Keys, NEW s \in Seq(Blocks), NEW m,
         m = [n EXCEPT !.large[k] = s]
  PROVE  /\ m \in InodeType
         /\ m.kind = n.kind
         /\ m.chunks = n.chunks
         /\ m.large = [n.large EXCEPT ![k] = s]
<1>1. [n.large EXCEPT ![k] = s] \in [Keys -> Seq(Blocks)]
  BY InodeFields
<1>2. QED
  BY <1>1, InodeFields DEF InodeType

\* What WriteInode changes of an inode.
LEMMA SetSize ==
  ASSUME NEW n \in InodeType, NEW size \in Nat, NEW m, m = [n EXCEPT !.size = size]
  PROVE  /\ m \in InodeType
         /\ m.kind = n.kind /\ m.chunks = n.chunks /\ m.large = n.large
  BY DEF InodeType

LEMMA SetSmall ==
  ASSUME NEW n \in InodeType, NEW small \in SUBSET Keys, NEW m, m = [n EXCEPT !.small = small]
  PROVE  /\ m \in InodeType
         /\ m.kind = n.kind /\ m.chunks = n.chunks /\ m.large = n.large
  BY DEF InodeType

LEMMA NoListTyped == NoList \in ListType
  BY DEF NoList, ListType

LEMMA AddItemTyped ==
  ASSUME NEW list \in ListType, NEW kind \in {"dir", "system"},
         NEW key \in Names \cup Keys, NEW b \in Blocks
  PROVE  AddItem(kind, list, <<key, b>>) \in ListType
<1>1. list.len + 1 \in Nat /\ list.items \cup {<<key, b>>} \in SUBSET ((Names \cup Keys) \X Blocks)
  BY DEF ListType
<1>2. QED
  BY <1>1 DEF AddItem, ListType

LEMMA ListOfTyped ==
  ASSUME NEW n \in InodeType, lists \in [Blocks -> ListType]
  PROVE  ListOf(n) \in ListType
<1>1. n.chunks # << >> => n.chunks[1] \in Blocks
  BY InodeFields
<1>2. QED
  BY <1>1, NoListTyped DEF ListOf

--------------------------------------------------------------------------------
\* Type correctness.  TypeOK says nothing of the arguments of the running
\* operation, which every later step reads: the invariant adds them.

AttributePoints ==
  {"attr_free", "attr_free_super", "attr_store", "attr_store_bitmap", "attr_store_super",
   "attr_inode", "attr_catalog", "attr_bitmap", "attr_super", "attr_end"}

TaskOK ==
  /\ task.kind \in {"none", "create", "entry", "write", "attribute"}
  /\ task.target \in Blocks
  /\ task.blocks \in Nat
  /\ task.kind = "attribute" => task.key \in Keys
  /\ pc \in AttributePoints => task.kind = "attribute"
  /\ pc = "write_begin" => task.kind = "entry"

Typed == TypeOK /\ TaskOK

LEMMA NoTaskFields ==
  NoTask.kind = "none" /\ NoTask.target = 0 /\ NoTask.blocks = 0
  BY DEF NoTask

LEMMA InitTyped == Init => Typed
<1> SUFFICES ASSUME Init PROVE Typed
  OBVIOUS
<1>1. inodes \in [Blocks -> InodeType]
  BY NewInodeTyped DEF Init, NoInode
<1>2. lists \in [Blocks -> ListType]
  BY NoListTyped DEF Init
<1>3. /\ length \in 0 .. BitmapCapacity /\ count \in {0, DeviceBlocks, BitmapCapacity}
      /\ disk_free \in 0 .. DeviceBlocks /\ free \in 0 .. DeviceBlocks
  BY UnaFSAssumption DEF Init, Root, Catalog
<1>4. disk_bits \in SUBSET Blocks /\ bits \in SUBSET Blocks
  BY BlockNumbers DEF Init
<1>5. id \in Blocks /\ node \in InodeType /\ idx \in Nat \ {0} /\ out \in ListType
  BY BlockNumbers, NewInodeTyped, NoListTyped DEF Init, NoInode
<1>6. pc \in Points /\ torn \in BOOLEAN /\ spilled \in BOOLEAN /\ abandoned \in SUBSET Blocks
  BY DEF Init, Points
<1>7. TaskOK
  BY NoTaskFields, BlockNumbers DEF Init, TaskOK, AttributePoints
<1>8. QED
  BY <1>1, <1>2, <1>3, <1>4, <1>5, <1>6, <1>7 DEF Typed, TypeOK

\* What several actions do, once for all of them.
LEMMA LogTyped ==
  ASSUME NEW op, NEW i, LogRecord(op, i), spilled \in BOOLEAN
  PROVE  spilled' \in BOOLEAN
  BY DEF LogRecord

LEMMA TakeTyped ==
  ASSUME Typed, NEW b, Take(b)
  PROVE  /\ b \in Blocks
         /\ bits' \in SUBSET Blocks
         /\ free' \in 0 .. DeviceBlocks
         /\ count' \in {0, DeviceBlocks, BitmapCapacity}
<1>1. b \in Blocks
  BY UnaFSAssumption DEF Typed, TypeOK, Take, IsLowestFree, Blocks
<1>2. free' \in 0 .. DeviceBlocks
  BY UnaFSAssumption DEF Typed, TypeOK, Take, CountDown
<1>3. QED
  BY <1>1, <1>2 DEF Typed, TypeOK, Take

LEMMA CountUpTyped ==
  ASSUME NEW f \in 0 .. DeviceBlocks, NEW m \in Nat
  PROVE  CountUp(f, DeviceBlocks, m) \in 0 .. DeviceBlocks
  BY UnaFSAssumption DEF CountUp

LEMMA PutBlockTyped ==
  ASSUME Typed, NEW b \in Blocks, NEW n \in InodeType, NEW list \in ListType,
         PutBlock(b, n, list)
  PROVE  /\ inodes' \in [Blocks -> InodeType]
         /\ lists' \in [Blocks -> ListType]
         /\ length' \in 0 .. BitmapCapacity
         /\ disk_bits' \in SUBSET Blocks
         /\ disk_free' \in 0 .. DeviceBlocks
<1>1. length' \in 0 .. BitmapCapacity
  BY UnaFSAssumption DEF Typed, TypeOK, PutBlock, Blocks
<1>2. QED
  BY <1>1 DEF Typed, TypeOK, PutBlock

LEMMA ReturnTyped ==
  ASSUME Return
  PROVE  /\ pc' \in Points
         /\ id' \in Blocks /\ node' \in InodeType /\ idx' \in Nat \ {0} /\ out' \in ListType
         /\ TaskOK'
<1>1. node' \in InodeType /\ out' \in ListType
  BY NewInodeTyped, NoListTyped DEF Return, NoInode
<1>2. QED
  BY <1>1, BlockNumbers, NoTaskFields DEF Return, Points, TaskOK, AttributePoints

LEMMA FailTyped ==
  ASSUME Typed, NEW e, Fail(e), UNCHANGED <<device, journal, spilled>>,
         bits' \in SUBSET Blocks, free' \in 0 .. DeviceBlocks,
         count' \in {0, DeviceBlocks, BitmapCapacity}
  PROVE  Typed'
<1>1. torn' \in BOOLEAN /\ abandoned' \in SUBSET Blocks /\ spilled' \in BOOLEAN
  BY DEF Typed, TypeOK, TaskOK, Fail
<1>2. Return
  BY DEF Fail
<1>3. QED
  BY <1>1, <1>2, ReturnTyped DEF Typed, TypeOK, device

\* The inode WriteInode writes: typed, and with the blocks it had.
LEMMA FinalTyped ==
  ASSUME Typed, pc \in {"create_inode", "write_inode", "attr_inode"}
  PROVE  /\ Final \in InodeType
         /\ Final.kind = node.kind /\ Final.chunks = node.chunks /\ Final.large = node.large
<1>1. node \in InodeType
  BY DEF Typed, TypeOK
<1>2. CASE pc = "create_inode"
  BY <1>1, <1>2 DEF Final
<1>3. CASE pc = "write_inode"
  <2> DEFINE extent == IF out = NoList THEN task.blocks ELSE out.len
             size   == IF extent > node.size THEN extent ELSE node.size
  <2>1. extent \in Nat /\ node.size \in Nat
    BY InodeFields DEF Typed, TypeOK, TaskOK, ListType
  <2>2. size \in Nat
    BY <2>1
  <2>3. Final = [node EXCEPT !.size = size]
    BY <1>3 DEF Final
  <2>4. QED
    BY <1>1, <2>2, <2>3, SetSize
<1>4. CASE pc = "attr_inode"
  <2> DEFINE small == IF task.blocks = 0 THEN node.small \cup {task.key}
                                         ELSE node.small \ {task.key}
  <2>1. small \in SUBSET Keys
    BY <1>1, <1>4, InodeFields DEF Typed, TaskOK, AttributePoints
  <2>2. Final = [node EXCEPT !.small = small]
    BY <1>4 DEF Final
  <2>3. QED
    BY <1>1, <2>1, <2>2, SetSmall
<1>5. QED
  BY <1>2, <1>3, <1>4

\* An operation begins: reading an inode, or the entries of a directory.
LEMMA BeginCreateTyped ==
  ASSUME Typed, NEW b, NEW n \in InodeType, NEW arguments, NEW list \in ListType,
         arguments.kind \in {"create", "entry"}, arguments.target \in Blocks,
         arguments.blocks \in Nat,
         BeginCreate(b, n, arguments, list)
  PROVE  Typed'
<1>1. b \in Blocks /\ bits' \in SUBSET Blocks /\ free' \in 0 .. DeviceBlocks
        /\ count' \in {0, DeviceBlocks, BitmapCapacity}
  BY TakeTyped DEF BeginCreate
<1>2. spilled' \in BOOLEAN
  BY LogTyped DEF BeginCreate, Typed, TypeOK
<1>3. pc' \in Points /\ TaskOK'
  BY DEF BeginCreate, Points, TaskOK, AttributePoints
<1>4. QED
  BY <1>1, <1>2, <1>3 DEF BeginCreate, Typed, TypeOK, device

LEMMA BeginWriteTyped ==
  ASSUME Typed, NEW target \in Blocks, NEW list \in ListType, NEW arguments,
         arguments.kind \in {"none", "create", "entry", "write", "attribute"},
         arguments.target \in Blocks, arguments.blocks \in Nat,
         arguments.kind = "attribute" => arguments.key \in Keys,
         BeginWrite(target, list, arguments),
         UNCHANGED <<device, memory, torn, abandoned>>
  PROVE  Typed'
<1>1. spilled' \in BOOLEAN
  BY LogTyped DEF BeginWrite, Typed, TypeOK
<1>2. pc' \in Points /\ TaskOK'
  BY DEF BeginWrite, Points, TaskOK, AttributePoints
<1>3. QED
  BY <1>1, <1>2 DEF BeginWrite, Typed, TypeOK, device, memory

LEMMA WriteBlockTyped ==
  ASSUME Typed, pc = "write_block", NEW b \in Blocks, NEW n \in InodeType, WriteBlock(b, n),
         bits' \in SUBSET Blocks, free' \in 0 .. DeviceBlocks,
         count' \in {0, DeviceBlocks, BitmapCapacity}
  PROVE  Typed'
<1>1. NoInode \in InodeType /\ out \in ListType
  BY NewInodeTyped DEF NoInode, Typed, TypeOK
<1>2. /\ inodes' \in [Blocks -> InodeType] /\ lists' \in [Blocks -> ListType]
      /\ length' \in 0 .. BitmapCapacity
      /\ disk_bits' \in SUBSET Blocks /\ disk_free' \in 0 .. DeviceBlocks
  BY <1>1, PutBlockTyped DEF WriteBlock
<1>3. pc' \in Points /\ TaskOK'
  BY DEF WriteBlock, Points, Typed, TaskOK, AttributePoints
<1>4. idx' \in Nat \ {0}
  BY DEF WriteBlock, Typed, TypeOK
<1>5. QED
  BY <1>2, <1>3, <1>4 DEF WriteBlock, Typed, TypeOK, ghosts

\* The records that end an operation, and what comes after them.
LEMMA EndTyped ==
  ASSUME Typed, NEW op, NEW i, LogRecord(op, i), UNCHANGED <<device, memory, ghosts>>,
         Return \/ (UNCHANGED locals /\ pc' \in {"write_begin", "attr_bitmap"}
                   /\ task.kind = IF pc' = "attr_bitmap" THEN "attribute" ELSE "entry")
  PROVE  Typed'
<1>1. spilled' \in BOOLEAN
  BY LogTyped DEF Typed, TypeOK
<1>2. CASE Return
  BY <1>1, <1>2, ReturnTyped DEF Typed, TypeOK, device, memory, ghosts
<1>3. CASE UNCHANGED locals /\ pc' \in {"write_begin", "attr_bitmap"}
             /\ task.kind = IF pc' = "attr_bitmap" THEN "attribute" ELSE "entry"
  <2>1. pc' \in Points /\ TaskOK'
    BY <1>3 DEF Points, Typed, TaskOK, AttributePoints, locals
  <2>2. QED
    BY <1>1, <1>3, <2>1 DEF Typed, TypeOK, device, memory, ghosts, locals
<1>4. QED
  BY <1>2, <1>3

\* Every operation leaves every variable in its type.
LEMMA StepTyped == Typed /\ [Next]_vars => Typed'
<1> SUFFICES ASSUME Typed, [Next]_vars PROVE Typed'
  OBVIOUS
<1>a. /\ inodes \in [Blocks -> InodeType] /\ lists \in [Blocks -> ListType]
      /\ bits \in SUBSET Blocks /\ free \in 0 .. DeviceBlocks
      /\ count \in {0, DeviceBlocks, BitmapCapacity}
      /\ node \in InodeType /\ out \in ListType /\ id \in Blocks
  BY DEF Typed, TypeOK
<1>b. /\ NoTask.kind = "none" /\ NoTask.target \in Blocks /\ NoTask.blocks \in Nat
  BY NoTaskFields, BlockNumbers
<1>1. ASSUME NEW attrs \in SUBSET CreateKeys, CreateInode(attrs)
      PROVE  Typed'
  <2> DEFINE n == [NewInode("file") EXCEPT !.small = attrs]
             arguments == [NoTask EXCEPT !.kind = "create"]
  <2>1. n \in InodeType
    BY NewInodeTyped, SetSmall, UnaFSAssumption
  <2>2. /\ arguments.kind \in {"create", "entry"} /\ arguments.target \in Blocks
        /\ arguments.blocks \in Nat
    BY BlockNumbers DEF NoTask
  <2>3. PICK b \in Blocks : BeginCreate(b, n, arguments, NoList)
    BY <1>1 DEF CreateInode
  <2>4. QED
    BY <2>1, <2>2, <2>3, NoListTyped, BeginCreateTyped
<1>2. ASSUME NEW parent \in Known({"dir"}), NEW name \in Names, NEW kind \in {"file", "dir"},
             AddEntry(parent, name, kind)
      PROVE  Typed'
  <2> DEFINE list == ListOf(inodes[parent])
             arguments == [kind |-> "entry", target |-> parent, key |-> name, blocks |-> 0]
  <2>1. parent \in Blocks
    BY <1>a DEF Known
  <2>2. list \in ListType
    BY <1>a, <2>1, ListOfTyped
  <2>3. PICK b \in Blocks :
          BeginCreate(b, NewInode(kind), arguments, AddItem("dir", list, <<name, b>>))
    BY <1>2 DEF AddEntry
  <2>4. AddItem("dir", list, <<name, b>>) \in ListType /\ NewInode(kind) \in InodeType
    BY <2>2, AddItemTyped, NewInodeTyped
  <2>5. QED
    BY <2>1, <2>3, <2>4, BeginCreateTyped
<1>3. ASSUME EndCreate
      PROVE  Typed'
  BY <1>3, EndTyped DEF EndCreate
<1>4. ASSUME NEW target \in Known({"file"}), NEW n \in 1 .. MaxFileBlocks, WriteData(target, n)
      PROVE  Typed'
  <2> DEFINE arguments == [NoTask EXCEPT !.kind = "write", !.target = target, !.blocks = n]
  <2>1. target \in Blocks /\ n \in Nat
    BY <1>a DEF Known
  <2>2. /\ arguments.kind = "write" /\ arguments.target \in Blocks /\ arguments.blocks \in Nat
    BY <2>1 DEF NoTask
  <2>3. /\ BeginWrite(target, NoList, arguments)
        /\ UNCHANGED <<device, memory, torn, abandoned>>
    BY <1>4 DEF WriteData
  <2> HIDE DEF arguments
  <2>4. QED
    BY <2>1, <2>2, <2>3, NoListTyped, BeginWriteTyped
<1>5. ASSUME WriteEntries
      PROVE  Typed'
  BY <1>5, <1>a, BeginWriteTyped DEF WriteEntries, Typed, TaskOK, ghosts
<1>6. ASSUME Overwrite
      PROVE  Typed'
  <2>1. node.chunks[idx] \in Blocks
    BY <1>6, <1>a, InodeFields DEF Overwrite
  <2>2. QED
    BY <1>6, <1>a, <2>1, WriteBlockTyped DEF Overwrite, memory
<1>7. ASSUME NEW b \in Blocks, Extend(b)
      PROVE  Typed'
  <2>1. [node EXCEPT !.chunks = Append(@, b)] \in InodeType
    BY <1>a, AppendBlock
  <2>2. QED
    BY <1>7, <2>1, TakeTyped, WriteBlockTyped DEF Extend
<1>8. ASSUME NEW b \in Blocks, ExtendBeyond(b)
      PROVE  Typed'
  BY <1>8, TakeTyped, FailTyped DEF ExtendBeyond
<1>9. ASSUME NEW b \in Blocks, StoreNew(b)
      PROVE  Typed'
  <2>1. task.key \in Keys
    BY <1>9 DEF StoreNew, Typed, TaskOK, AttributePoints
  <2>2. Append(node.large[task.key], b) \in Seq(Blocks)
    BY <1>a, <2>1, InodeFields
  <2>3. node' \in InodeType
    BY <1>9, <1>a, <2>1, <2>2, SetLarge DEF StoreNew
  <2>4. /\ inodes' \in [Blocks -> InodeType] /\ lists' \in [Blocks -> ListType]
        /\ length' \in 0 .. BitmapCapacity
        /\ disk_bits' \in SUBSET Blocks /\ disk_free' \in 0 .. DeviceBlocks
    BY <1>9, PutBlockTyped, NewInodeTyped, NoListTyped DEF StoreNew, NoInode
  <2>5. bits' \in SUBSET Blocks /\ free' \in 0 .. DeviceBlocks
          /\ count' \in {0, DeviceBlocks, BitmapCapacity}
    BY <1>9, TakeTyped DEF StoreNew
  <2>6. pc' \in Points /\ TaskOK' /\ idx' \in Nat \ {0}
    BY <1>9 DEF StoreNew, Points, Typed, TypeOK, TaskOK, AttributePoints
  <2>7. QED
    BY <1>9, <2>3, <2>4, <2>5, <2>6 DEF StoreNew, Typed, TypeOK, ghosts
<1>10. ASSUME EndWrite
       PROVE  Typed'
  BY <1>10, EndTyped DEF EndWrite
<1>11. ASSUME NEW target \in Known({"file", "dir"}), NEW key \in Keys,
              NEW n \in 0 .. MaxLargeBlocks, SetAttribute(target, key, n)
       PROVE  Typed'
  <2>1. target \in Blocks /\ n \in Nat
    BY <1>a DEF Known
  <2>2. spilled' \in BOOLEAN
    BY <1>11, LogTyped DEF SetAttribute, Typed, TypeOK
  <2>3. pc' \in Points /\ TaskOK' /\ idx' \in Nat \ {0} /\ out' \in ListType
    BY <1>11, <2>1, NoListTyped DEF SetAttribute, Points, TaskOK, AttributePoints
  <2>4. QED
    BY <1>11, <1>a, <2>1, <2>2, <2>3 DEF SetAttribute, Typed, TypeOK, device, memory
<1>12. ASSUME FreeOld
       PROVE  Typed'
  <2>1. task.key \in Keys
    BY <1>12 DEF FreeOld, Typed, TaskOK, AttributePoints
  <2>2. node' \in InodeType
    BY <1>12, <1>a, <2>1, EmptySeq, SetLarge DEF FreeOld
  <2>3. Len(node.large[task.key]) \in Nat
    BY <1>a, <2>1, InodeFields
  <2>4. free' \in 0 .. DeviceBlocks
    BY <1>12, <1>a, <2>3, CountUpTyped DEF FreeOld
  <2>5. pc' \in Points /\ TaskOK'
    BY <1>12 DEF FreeOld, Points, Typed, TaskOK, AttributePoints
  <2>6. bits' \in SUBSET Blocks /\ disk_bits' \in SUBSET Blocks
    BY <1>12, <1>a DEF FreeOld
  <2>7. QED
    BY <1>12, <2>2, <2>4, <2>5, <2>6 DEF FreeOld, Typed, TypeOK, ghosts
<1>13. ASSUME UpdateCatalog
       PROVE  Typed'
  <2>1. task.key \in Keys /\ task.target \in Blocks /\ task.blocks \in Nat
    BY <1>13 DEF UpdateCatalog, Typed, TaskOK, AttributePoints
  <2>2. AddItem("system", ListOf(inodes[Catalog]), <<task.key, task.target>>) \in ListType
    BY <1>a, <2>1, BlockNumbers, ListOfTyped, AddItemTyped
  <2>3. QED
    BY <1>13, <2>1, <2>2, BlockNumbers, BeginWriteTyped DEF UpdateCatalog, Typed, TaskOK, ghosts
<1>14. ASSUME CatalogUnreadable
       PROVE  Typed'
  BY <1>14, <1>a, FailTyped DEF CatalogUnreadable, memory
<1>15. ASSUME EndAttribute
       PROVE  Typed'
  BY <1>15, EndTyped DEF EndAttribute
<1>16. ASSUME NoSpace
       PROVE  Typed'
  BY <1>16, <1>a, FailTyped DEF NoSpace, memory
<1>17. ASSUME WriteInode
       PROVE  Typed'
  <2>1. Final \in InodeType
    BY <1>17, FinalTyped DEF WriteInode
  <2>2. /\ inodes' \in [Blocks -> InodeType] /\ lists' \in [Blocks -> ListType]
        /\ length' \in 0 .. BitmapCapacity
        /\ disk_bits' \in SUBSET Blocks /\ disk_free' \in 0 .. DeviceBlocks
    BY <1>17, <1>a, <2>1, NoListTyped, PutBlockTyped DEF WriteInode
  <2>3. pc' \in Points /\ TaskOK'
    BY <1>17 DEF WriteInode, Points, Typed, TaskOK, AttributePoints
  <2>4. QED
    BY <1>17, <2>1, <2>2, <2>3 DEF WriteInode, Typed, TypeOK, memory, ghosts
<1>18. ASSUME InodeTooLarge
       PROVE  Typed'
  BY <1>18, <1>a, FailTyped DEF InodeTooLarge, memory
<1>19. ASSUME SyncMetadata
       PROVE  Typed'
  <2>1. disk_bits' \in SUBSET Blocks /\ disk_free' \in 0 .. DeviceBlocks
    BY <1>19 DEF SyncMetadata, SaveBitmap, SaveSuperblock, Typed, TypeOK
  <2>2. /\ UNCHANGED <<inodes, lists, length, journal, spilled, memory, locals, ghosts>>
    BY <1>19 DEF SyncMetadata, SaveBitmap, SaveSuperblock
  <2>3. /\ pc' \in Points /\ pc' # "write_begin"
        /\ pc' \in AttributePoints => pc \in AttributePoints
    BY <1>19 DEF SyncMetadata, SaveBitmap, SaveSuperblock, Points, AttributePoints
  <2>4. TaskOK'
    BY <2>2, <2>3 DEF Typed, TaskOK, locals
  <2>5. QED
    BY <2>1, <2>2, <2>3, <2>4 DEF Typed, TypeOK, memory, locals, ghosts
<1>20. ASSUME Crash
       PROVE  Typed'
  <2>1. torn' \in BOOLEAN /\ pc' \in Points /\ TaskOK'
    BY <1>20, <1>b DEF Crash, Typed, TypeOK, Points, TaskOK, AttributePoints
  <2>2. id' \in Blocks /\ node' \in InodeType /\ idx' \in Nat \ {0} /\ out' \in ListType
    BY <1>20, BlockNumbers, NewInodeTyped, NoListTyped DEF Crash, NoInode
  <2>3. bits' \in SUBSET Blocks /\ free' \in 0 .. DeviceBlocks
          /\ count' \in {0, DeviceBlocks, BitmapCapacity}
    BY <1>20, UnaFSAssumption DEF Crash
  <2>4. QED
    BY <1>20, <2>1, <2>2, <2>3 DEF Crash, Typed, TypeOK, device
<1>21. ASSUME Mount
       PROVE  Typed'
  <2>1. pc' \in Points /\ TaskOK'
    BY <1>21 DEF Mount, Typed, Points, TaskOK, AttributePoints, locals
  <2>2. QED
    BY <1>21, <2>1 DEF Mount, Typed, TypeOK, device, locals
<1>22. CASE UNCHANGED vars
  BY <1>22 DEF vars, device, memory, locals, ghosts, Typed, TypeOK, TaskOK
<1>23. QED
  BY <1>1, <1>2, <1>3, <1>4, <1>5, <1>6, <1>7, <1>8, <1>9, <1>10, <1>11, <1>12,
     <1>13, <1>14, <1>15, <1>16, <1>17, <1>18, <1>19, <1>20, <1>21, <1>22 DEF Next

\* Every variable of the file system stays in its type, on every device and
\* through every crash and mount: in particular a block number never leaves the
\* bitmap, and the count of free blocks never leaves the device.
THEOREM UnaFSTypeOK == Spec => []TypeOK
<1>1. Typed => TypeOK
  BY DEF Typed
<1>2. QED
  BY InitTyped, StepTyped, <1>1, PTL DEF Spec

--------------------------------------------------------------------------------
\* The places of one inode, and what each edit of the inode does to them.

LargePlaces(b, n, k) == {<<n.large[k][i], b, k, i>> : i \in DOMAIN n.large[k]}

LEMMA PlacesOwner ==
  ASSUME NEW b, NEW n, NEW p \in Places(b, n)
  PROVE  p[2] = b
  BY DEF Places

LEMMA InodePlace ==
  ASSUME NEW b, NEW n
  PROVE  <<b, b, "inode", 0>> \in Places(b, n)
  BY DEF Places

LEMMA PlacesOfSame ==
  ASSUME NEW b, NEW n, NEW m, m.chunks = n.chunks, m.large = n.large
  PROVE  Places(b, m) = Places(b, n)
  BY DEF Places

LEMMA PlacesOfNew ==
  ASSUME NEW b, NEW n, n.chunks = << >>, \A k \in Keys : n.large[k] = << >>
  PROVE  Places(b, n) = {<<b, b, "inode", 0>>}
<1>1. DOMAIN << >> = {}
  OBVIOUS
<1>2. QED
  BY <1>1 DEF Places

LEMMA AppendDomain ==
  ASSUME NEW S, NEW s \in Seq(S), NEW x \in S, NEW t, t = Append(s, x)
  PROVE  /\ DOMAIN t = DOMAIN s \cup {Len(s) + 1}
         /\ \A i \in DOMAIN s : t[i] = s[i]
         /\ t[Len(s) + 1] = x
  OBVIOUS

LEMMA PlacesOfAppend ==
  ASSUME NEW b, NEW n \in InodeType, NEW c \in Blocks, NEW m,
         m = [n EXCEPT !.chunks = Append(@, c)]
  PROVE  Places(b, m) = Places(b, n) \cup {<<c, b, "data", Len(n.chunks) + 1>>}
<1> DEFINE data(s) == {<<s[i], b, "data", i>> : i \in DOMAIN s}
<1>1. n.chunks \in Seq(Blocks) /\ m.chunks = Append(n.chunks, c) /\ m.large = n.large
  BY InodeFields, AppendBlock
<1>2. data(m.chunks) = data(n.chunks) \cup {<<c, b, "data", Len(n.chunks) + 1>>}
  BY <1>1, AppendDomain
<1>3. QED
  BY <1>1, <1>2 DEF Places

LEMMA PlacesByKey ==
  ASSUME NEW b, NEW n
  PROVE  Places(b, n) = {<<b, b, "inode", 0>>}
                          \cup {<<n.chunks[i], b, "data", i>> : i \in DOMAIN n.chunks}
                          \cup UNION {LargePlaces(b, n, k) : k \in Keys}
  BY DEF Places, LargePlaces

\* What a change of one large attribute leaves alone.
LEMMA PlacesOfSetLarge ==
  ASSUME NEW b, NEW n, NEW k \in Keys, NEW m,
         m.chunks = n.chunks, \A j \in Keys : j # k => m.large[j] = n.large[j]
  PROVE  Places(b, m) = (Places(b, n) \ LargePlaces(b, n, k)) \cup LargePlaces(b, m, k)
<1>1. m.chunks = n.chunks
  OBVIOUS
<1>2. \A j \in Keys : j # k => m.large[j] = n.large[j]
  OBVIOUS
<1>3. \A j \in Keys : j # k => LargePlaces(b, m, j) = LargePlaces(b, n, j)
  BY <1>2 DEF LargePlaces
<1>4. \A j : \A p \in LargePlaces(b, n, j) : p[3] = j
  BY DEF LargePlaces
<1>5. ASSUME NEW p \in Places(b, n), p \notin LargePlaces(b, n, k)
      PROVE  p \in Places(b, m)
  BY <1>1, <1>3, <1>5, PlacesByKey
<1>6. ASSUME NEW p \in Places(b, m), p \notin LargePlaces(b, m, k)
      PROVE  p \in Places(b, n) \ LargePlaces(b, n, k)
  <2>1. k # "inode" /\ k # "data"
    BY UnaFSAssumption
  <2>2. p \in Places(b, n)
    BY <1>1, <1>3, <1>6, PlacesByKey
  <2>3. \A j \in Keys : p \in LargePlaces(b, m, j) => p[3] = j /\ j # k
    BY <1>6 DEF LargePlaces
  <2>4. p[3] # k
    <3>1. CASE p = <<b, b, "inode", 0>>
      BY <3>1, <2>1
    <3>2. CASE \E i \in DOMAIN m.chunks : p = <<m.chunks[i], b, "data", i>>
      BY <3>2, <2>1
    <3>3. CASE \E j \in Keys : p \in LargePlaces(b, m, j)
      BY <3>3, <2>3
    <3>4. QED
      BY <1>6, <3>1, <3>2, <3>3, PlacesByKey
  <2>5. QED
    BY <2>2, <2>4, <1>4
<1>7. LargePlaces(b, m, k) \subseteq Places(b, m)
  BY PlacesByKey
<1>8. QED
  BY <1>5, <1>6, <1>7

LEMMA PlacesOfAppendLarge ==
  ASSUME NEW b, NEW n \in InodeType, NEW k \in Keys, NEW c \in Blocks, NEW m,
         m = [n EXCEPT !.large[k] = Append(n.large[k], c)]
  PROVE  Places(b, m) = Places(b, n) \cup {<<c, b, k, Len(n.large[k]) + 1>>}
<1>1. n.large[k] \in Seq(Blocks) /\ Append(n.large[k], c) \in Seq(Blocks)
  BY InodeFields
<1>2. /\ m.large[k] = Append(n.large[k], c)
      /\ Places(b, m) = (Places(b, n) \ LargePlaces(b, n, k)) \cup LargePlaces(b, m, k)
  <2>1. m.chunks = n.chunks /\ m.large = [n.large EXCEPT ![k] = Append(n.large[k], c)]
    BY <1>1, SetLarge
  <2>2. m.large[k] = Append(n.large[k], c) /\ \A j \in Keys : j # k => m.large[j] = n.large[j]
    BY <2>1, InodeFields
  <2>3. QED
    BY ZenonT(30), <2>1, <2>2, PlacesOfSetLarge
<1>3. LargePlaces(b, m, k) = LargePlaces(b, n, k) \cup {<<c, b, k, Len(n.large[k]) + 1>>}
  <2> DEFINE s == n.large[k]
             t == Append(s, c)
  <2>1. /\ DOMAIN t = DOMAIN s \cup {Len(s) + 1}
        /\ \A i \in DOMAIN s : t[i] = s[i]
        /\ t[Len(s) + 1] = c
    BY <1>1, AppendDomain
  <2>2. /\ LargePlaces(b, m, k) = {<<t[i], b, k, i>> : i \in DOMAIN t}
        /\ LargePlaces(b, n, k) = {<<s[i], b, k, i>> : i \in DOMAIN s}
    BY <1>2 DEF LargePlaces
  <2> HIDE DEF s, t
  <2>3. {<<t[i], b, k, i>> : i \in DOMAIN t}
          = {<<s[i], b, k, i>> : i \in DOMAIN s} \cup {<<c, b, k, Len(s) + 1>>}
    BY <2>1
  <2>4. QED
    BY <2>2, <2>3 DEF s
<1>4. LargePlaces(b, n, k) \subseteq Places(b, n)
  BY PlacesByKey
<1>5. QED
  BY <1>2, <1>3, <1>4

LEMMA PlacesOfClearLarge ==
  ASSUME NEW b, NEW n \in InodeType, NEW k \in Keys, NEW m,
         m = [n EXCEPT !.large[k] = << >>]
  PROVE  Places(b, m) = Places(b, n) \ LargePlaces(b, n, k)
<1>1. << >> \in Seq(Blocks)
  BY EmptySeq
<1>2. /\ m.large[k] = << >>
      /\ Places(b, m) = (Places(b, n) \ LargePlaces(b, n, k)) \cup LargePlaces(b, m, k)
  <2>1. m.chunks = n.chunks /\ m.large = [n.large EXCEPT ![k] = << >>]
    BY <1>1, SetLarge
  <2>2. m.large[k] = << >> /\ \A j \in Keys : j # k => m.large[j] = n.large[j]
    BY <2>1, InodeFields
  <2>3. QED
    BY ZenonT(30), <2>1, <2>2, PlacesOfSetLarge
<1>3. LargePlaces(b, m, k) = {}
  <2>1. DOMAIN << >> = {}
    OBVIOUS
  <2>2. QED
    BY <2>1, <1>2 DEF LargePlaces
<1>4. QED
  BY <1>2, <1>3

--------------------------------------------------------------------------------
\* The places of a whole table of inodes.

Tables == [Blocks -> InodeType]

LEMMA PlaceOfLive ==
  \A table : \A p : p \in AllPlaces(table) <=> \E b \in Live(table) : p \in Places(b, table[b])
  BY DEF AllPlaces

LEMMA LiveIs ==
  \A table : \A b : b \in Live(table) <=> b \in Blocks /\ table[b].kind # "none"
  BY DEF Live

LEMMA LiveIsUsed ==
  ASSUME NEW table, NEW b \in Live(table)
  PROVE  <<b, b, "inode", 0>> \in AllPlaces(table)
  BY InodePlace, PlaceOfLive

\* The inode of a live block changes: its places change, no other.
LEMMA ReplaceInode ==
  ASSUME NEW table \in Tables, NEW b \in Live(table), NEW n, n.kind # "none"
  PROVE  /\ Live([table EXCEPT ![b] = n]) = Live(table)
         /\ Places(b, table[b]) \subseteq AllPlaces(table)
         /\ AllPlaces([table EXCEPT ![b] = n])
              = (AllPlaces(table) \ Places(b, table[b])) \cup Places(b, n)
<1> DEFINE t == [table EXCEPT ![b] = n]
           own(c) == Places(c, table[c])
<1>1. b \in Live(table) /\ b \in Blocks
  BY LiveIs
<1>2. t[b] = n /\ \A c \in Blocks : c # b => t[c] = table[c]
  BY <1>1 DEF Tables
<1> HIDE DEF t
<1>3. Live(t) = Live(table)
  BY <1>1, <1>2 DEF Live
<1>4. \A c \in Live(table) : c # b => Places(c, t[c]) = own(c)
  BY <1>2, LiveIs
<1>5. Places(b, t[b]) = Places(b, n)
  BY <1>2
<1>6. \A p : p \in AllPlaces(table) <=> p \in own(b) \/ \E c \in Live(table) : c # b /\ p \in own(c)
  BY <1>1, PlaceOfLive
<1>7. \A c, p : p \in own(c) => p[2] = c
  BY PlacesOwner
<1>8. \A p : p \in AllPlaces(t) <=>
               p \in Places(b, n) \/ \E c \in Live(table) : c # b /\ p \in own(c)
  <2>1. \A p : p \in AllPlaces(t) <=> \E c \in Live(table) : p \in Places(c, t[c])
    BY <1>3 DEF AllPlaces
  <2> HIDE DEF own
  <2>2. QED
    BY <2>1, <1>1, <1>4, <1>5
<1> HIDE DEF own
<1>9. \A p : (\E c \in Live(table) : c # b /\ p \in own(c))
                <=> p \in AllPlaces(table) /\ p \notin own(b)
  BY <1>6, <1>7
<1>10. AllPlaces(t) = (AllPlaces(table) \ own(b)) \cup Places(b, n)
  BY <1>8, <1>9
<1>11. own(b) \subseteq AllPlaces(table)
  BY <1>6
<1>12. QED
  BY <1>3, <1>10, <1>11 DEF t, own

\* A block without an inode is written over with something else.
LEMMA BlankInode ==
  ASSUME NEW table \in Tables, NEW b, b \notin Live(table), NEW n, n.kind = "none"
  PROVE  /\ Live([table EXCEPT ![b] = n]) = Live(table)
         /\ AllPlaces([table EXCEPT ![b] = n]) = AllPlaces(table)
<1> DEFINE t == [table EXCEPT ![b] = n]
<1>1. (b \in Blocks => t[b] = n) /\ \A c \in Blocks : c # b => t[c] = table[c]
  BY DEF Tables
<1> HIDE DEF t
<1>2. \A c \in Blocks : t[c].kind # "none" <=> table[c].kind # "none"
  BY <1>1, LiveIs
<1>3. Live(t) = Live(table)
  BY <1>2 DEF Live
<1>4. \A c \in Live(table) : t[c] = table[c]
  BY <1>1, LiveIs
<1>5. QED
  BY <1>3, <1>4 DEF AllPlaces, t

\* A block gets its first inode.
LEMMA AddInode ==
  ASSUME NEW table \in Tables, NEW b \in Blocks, b \notin Live(table),
         NEW n, n.kind # "none", Places(b, n) = {<<b, b, "inode", 0>>}
  PROVE  /\ Live([table EXCEPT ![b] = n]) = Live(table) \cup {b}
         /\ AllPlaces([table EXCEPT ![b] = n]) = AllPlaces(table) \cup {<<b, b, "inode", 0>>}
<1> DEFINE t == [table EXCEPT ![b] = n]
<1>1. t[b] = n /\ \A c \in Blocks : c # b => t[c] = table[c]
  BY DEF Tables
<1> HIDE DEF t
<1>2. Live(t) = Live(table) \cup {b}
  BY <1>1 DEF Live
<1>3. \A c \in Live(table) : t[c] = table[c]
  BY <1>1, LiveIs
<1>4. \A p : p \in AllPlaces(t) <=> p \in AllPlaces(table) \/ p = <<b, b, "inode", 0>>
  <2>1. \A p : p \in AllPlaces(t) <=> \E c \in Live(table) \cup {b} : p \in Places(c, t[c])
    BY <1>2 DEF AllPlaces
  <2>2. \A c \in Live(table) : Places(c, t[c]) = Places(c, table[c])
    BY <1>3
  <2>3. Places(b, t[b]) = {<<b, b, "inode", 0>>}
    BY <1>1
  <2>4. QED
    BY <2>1, <2>2, <2>3, PlaceOfLive
<1>5. QED
  BY <1>2, <1>4 DEF t

--------------------------------------------------------------------------------
\* A bitmap that is exact for a table, and how it stays so.

Exact(table, used) ==
  /\ Unshared(table)
  /\ AllRefs(table) \cap System = {}
  /\ used = System \cup AllRefs(table)

LEMMA ExactIsUsed ==
  ASSUME NEW table, NEW used, Exact(table, used)
  PROVE  /\ \A p \in AllPlaces(table) : p[1] \in used /\ p[1] \notin System
         /\ \A b \in Live(table) : b \in used
<1>1. \A p \in AllPlaces(table) : p[1] \in used /\ p[1] \notin System
  BY DEF Exact, AllRefs
<1>2. ASSUME NEW b \in Live(table)
      PROVE  b \in used
  <2>1. <<b, b, "inode", 0>>[1] \in used
    BY <1>1, LiveIsUsed
  <2>2. QED
    BY <2>1
<1>3. QED
  BY <1>1, <1>2

\* One more place, on a block that was free.
LEMMA ExactGrow ==
  ASSUME NEW table, NEW t, NEW used, NEW x, NEW b, x[1] = b, b \notin used,
         Exact(table, used), AllPlaces(t) = AllPlaces(table) \cup {x}
  PROVE  Exact(t, used \cup {b})
<1>1. AllRefs(t) = AllRefs(table) \cup {b}
  BY DEF AllRefs
<1>2. b \notin System /\ b \notin AllRefs(table)
  BY DEF Exact
<1>3. Unshared(t)
  <2>1. \A p \in AllPlaces(table) : p[1] # b
    BY <1>2 DEF AllRefs
  <2>2. QED
    BY <2>1 DEF Exact, Unshared
<1>4. QED
  BY <1>1, <1>2, <1>3 DEF Exact

\* Some places less: their blocks have no other, they become free.
LEMMA ExactShrink ==
  ASSUME NEW table, NEW t, NEW used, NEW X, X \subseteq AllPlaces(table),
         NEW gone, gone = {p[1] : p \in X},
         Exact(table, used), AllPlaces(t) = AllPlaces(table) \ X
  PROVE  Exact(t, used \ gone)
<1>1. AllRefs(t) = AllRefs(table) \ gone
  BY DEF AllRefs, Exact, Unshared
<1>2. gone \cap System = {}
  BY DEF AllRefs, Exact
<1>3. Unshared(t)
  BY DEF Exact, Unshared
<1>4. QED
  BY <1>1, <1>2, <1>3 DEF Exact

--------------------------------------------------------------------------------
\* The invariant.  AllocationExact alone is not inductive: it needs the inode the
\* running operation works on to be one, the inodes it will turn to next to stay
\* where they are, its copy to be on the device before it lets go of it, and the
\* device to have the bitmap and the count before a crash may cost nothing.

Stored ==
  {"create_bitmap", "create_super", "create_end", "write_bitmap", "write_super", "write_end",
   "attr_catalog", "attr_bitmap", "attr_super", "attr_end"}
BitmapSaved ==
  {"idle", "write_begin", "create_super", "create_end", "write_super", "write_end",
   "attr_free_super", "attr_super", "attr_end"}
SuperblockSaved == {"idle", "write_begin", "create_end", "write_end", "attr_end"}

Consistent ==
  /\ Exact(View, Used)
  /\ InTransaction => node.kind # "none"
  /\ Catalog \in Live(View)
  /\ task.kind = "entry" => task.target \in Live(View)
  /\ pc \in Stored => inodes[id] = node
  /\ pc \in BitmapSaved => disk_bits = bits
  /\ pc \in SuperblockSaved => disk_free = free

Inv == Typed /\ (~torn => Consistent)

LEMMA ViewTable ==
  ASSUME Typed
  PROVE  /\ inodes \in Tables /\ View \in Tables
         /\ InTransaction => View = [inodes EXCEPT ![id] = node] /\ View[id] = node
         /\ ~InTransaction => View = inodes
         /\ inodes[id] = node => View = inodes
<1>1. inodes \in Tables /\ id \in Blocks /\ node \in InodeType
  BY DEF Typed, TypeOK, Tables
<1>2. [inodes EXCEPT ![id] = node] \in Tables /\ [inodes EXCEPT ![id] = node][id] = node
  BY <1>1 DEF Tables
<1>3. inodes[id] = node => [inodes EXCEPT ![id] = node] = inodes
  BY <1>1 DEF Tables
<1>4. QED
  BY <1>1, <1>2, <1>3 DEF View

LEMMA WorkingInode ==
  ASSUME Typed, Consistent, InTransaction
  PROVE  id \in Live(View) /\ View[id] = node
  BY ViewTable, LiveIs DEF Consistent, Typed, TypeOK

\* A step that changes neither the table, nor the bitmap, nor the task.
LEMMA QuietStep ==
  ASSUME Consistent, View' = View, Used' = Used, UNCHANGED task,
         InTransaction' => node'.kind # "none",
         (pc \in Stored => inodes[id] = node)',
         (pc \in BitmapSaved => disk_bits = bits)',
         (pc \in SuperblockSaved => disk_free = free)'
  PROVE  Consistent'
<1>1. Exact(View, Used)'
  BY DEF Consistent, Exact, Unshared, AllRefs, AllPlaces, Live
<1>2. (Catalog \in Live(View))' /\ (task.kind = "entry" => task.target \in Live(View))'
  BY DEF Consistent, Live
<1>3. QED
  BY <1>1, <1>2 DEF Consistent

\* Init: the root and the catalog, each in its own block.
LEMMA InitConsistent == Init => Consistent
<1> SUFFICES ASSUME Init PROVE Consistent
  OBVIOUS
<1>1. Typed /\ ~InTransaction
  BY InitTyped DEF Init, InTransaction
<1>2. View = inodes
  BY <1>1, ViewTable
<1>3. /\ inodes[Root] = NewInode("dir") /\ inodes[Catalog] = NewInode("system")
      /\ \A b \in Blocks : b # Root /\ b # Catalog => inodes[b] = NewInode("none")
  BY BlockNumbers DEF Init, NoInode
<1>4. Live(inodes) = {Root, Catalog}
  BY <1>3, BlockNumbers, NewInodeTyped DEF Live
<1>5. /\ Places(Root, inodes[Root]) = {<<Root, Root, "inode", 0>>}
      /\ Places(Catalog, inodes[Catalog]) = {<<Catalog, Catalog, "inode", 0>>}
  BY <1>3, NewInodeTyped, PlacesOfNew
<1>6. AllPlaces(inodes) = {<<Root, Root, "inode", 0>>, <<Catalog, Catalog, "inode", 0>>}
  BY <1>4, <1>5 DEF AllPlaces
<1>7. AllRefs(inodes) = {Root, Catalog}
  BY <1>6 DEF AllRefs
<1>8. Unshared(inodes)
  BY <1>6, BlockNumbers DEF Unshared
<1>9. Used = System \cup {Root, Catalog}
  BY DEF Init, Used
<1>10. Exact(View, Used)
  BY <1>2, <1>7, <1>8, <1>9, BlockNumbers DEF Exact
<1>11. Catalog \in Live(View) /\ task.kind # "entry"
  BY <1>2, <1>4, NoTaskFields DEF Init
<1>12. /\ pc \notin Stored
       /\ disk_bits = bits /\ disk_free = free
  BY DEF Init, Stored
<1>13. QED
  BY <1>1, <1>10, <1>11, <1>12 DEF Consistent

\* The operations, one lemma for each way they change the table.

LEMMA BeginCreateConsistent ==
  ASSUME Typed, Consistent, NEW b, NEW n \in InodeType, NEW arguments, NEW list,
         n.kind # "none", n.chunks = << >>, \A k \in Keys : n.large[k] = << >>,
         arguments.kind = "entry" => arguments.target \in Live(inodes),
         BeginCreate(b, n, arguments, list)
  PROVE  Consistent'
<1>1. /\ pc = "idle" /\ Take(b) /\ inodes' = inodes
      /\ pc' = "create_inode" /\ id' = b /\ node' = n /\ task' = arguments
  BY DEF BeginCreate, StartOp, device
<1>2. b \in Blocks /\ b \notin bits /\ bits' = bits \cup {b}
  BY <1>1, TakeTyped DEF Take, IsLowestFree
<1>3. View = inodes /\ inodes \in Tables /\ Used = bits /\ Used' = bits'
  BY <1>1, ViewTable DEF InTransaction, Used
<1>4. View' = [inodes EXCEPT ![b] = n]
  BY <1>1 DEF View, InTransaction
<1>5. b \notin Live(inodes)
  BY <1>2, <1>3, ExactIsUsed DEF Consistent
<1>6. Places(b, n) = {<<b, b, "inode", 0>>}
  BY PlacesOfNew
<1>7. /\ Live(View') = Live(inodes) \cup {b}
      /\ AllPlaces(View') = AllPlaces(inodes) \cup {<<b, b, "inode", 0>>}
  BY <1>2, <1>3, <1>4, <1>5, <1>6, AddInode
<1>8. Exact(View', bits \cup {b})
  <2>1. Exact(inodes, bits)
    BY <1>3 DEF Consistent
  <2>2. <<b, b, "inode", 0>>[1] = b
    OBVIOUS
  <2>3. QED
    BY <1>2, <1>7, <2>1, <2>2, ExactGrow
<1>9. pc' \notin Stored /\ pc' \notin BitmapSaved /\ pc' \notin SuperblockSaved
  BY <1>1 DEF Stored, BitmapSaved, SuperblockSaved
<1>10. Exact(View, Used)'
  BY <1>2, <1>3, <1>8 DEF Exact, Unshared, AllRefs, AllPlaces, Live
<1>11. (Catalog \in Live(View))' /\ (task.kind = "entry" => task.target \in Live(View))'
  BY <1>1, <1>3, <1>7 DEF Consistent, Live
<1>12. QED
  BY <1>1, <1>9, <1>10, <1>11 DEF Consistent

LEMMA BeginWriteConsistent ==
  ASSUME Typed, Consistent, View = inodes, pc # "down",
         NEW target, target \in Live(inodes), NEW list, NEW arguments,
         arguments.kind = "entry" => arguments.target \in Live(inodes),
         BeginWrite(target, list, arguments), UNCHANGED <<device, memory>>
  PROVE  Consistent'
<1>1. /\ pc' = "write_block" /\ inodes' = inodes /\ bits' = bits
      /\ id' = target /\ node' = inodes[target] /\ task' = arguments
  BY DEF BeginWrite, device, memory
<1>2. View' = [inodes EXCEPT ![target] = inodes[target]]
  BY <1>1 DEF View, InTransaction
<1>3. View' = View
  BY <1>2, ViewTable DEF Tables
<1>4. Used' = Used
  BY <1>1 DEF Used
<1>5. pc' \notin Stored /\ pc' \notin BitmapSaved /\ pc' \notin SuperblockSaved
  BY <1>1 DEF Stored, BitmapSaved, SuperblockSaved
<1>6. node'.kind # "none"
  BY <1>1, LiveIs
<1>7. Exact(View, Used)'
  BY <1>3, <1>4 DEF Consistent, Exact, Unshared, AllRefs, AllPlaces, Live
<1>8. (Catalog \in Live(View))' /\ (task.kind = "entry" => task.target \in Live(View))'
  BY <1>1, <1>3 DEF Consistent, Live
<1>9. QED
  BY <1>5, <1>6, <1>7, <1>8 DEF Consistent

\* A free block is taken, written over, and added to the inode at one place.
LEMMA GrowConsistent ==
  ASSUME Typed, Consistent, InTransaction, pc # "down", NEW b, Take(b), NEW list,
         PutBlock(b, NoInode, list), UNCHANGED <<id, task>>,
         NEW x, x[1] = b,
         Places(id, node') = Places(id, node) \cup {x}, node'.kind = node.kind,
         pc' \in {"write_block", "write_inode", "attr_store", "attr_store_bitmap"}
  PROVE  Consistent'
<1>1. b \in Blocks /\ b \notin bits /\ bits' = bits \cup {b}
  BY TakeTyped DEF Take, IsLowestFree
<1>2. id \in Live(View) /\ View[id] = node /\ id \in Blocks /\ View \in Tables
  BY WorkingInode, ViewTable, LiveIs
<1>3. Used = bits /\ Used' = bits'
  BY DEF Used
<1>4. b \notin Live(View) /\ b # id
  BY <1>1, <1>2, <1>3, ExactIsUsed DEF Consistent
<1> DEFINE table == [View EXCEPT ![b] = NoInode]
<1>5. NoInode.kind = "none" /\ NoInode \in InodeType
  BY NewInodeTyped DEF NoInode
<1>6. Live(table) = Live(View) /\ AllPlaces(table) = AllPlaces(View)
  BY <1>2, <1>4, <1>5, BlankInode
<1>7. table \in Tables /\ table[id] = node
  BY <1>1, <1>2, <1>4, <1>5 DEF Tables
<1>8. View' = [[inodes EXCEPT ![b] = NoInode] EXCEPT ![id] = node']
  BY DEF View, InTransaction, PutBlock
<1>9. View' = [table EXCEPT ![id] = node']
  BY <1>1, <1>2, <1>4, <1>8, ViewTable DEF Tables
<1>10. node.kind # "none"
  BY DEF Consistent
<1> HIDE DEF table
<1>11. Live(View') = Live(View) /\ AllPlaces(View') = AllPlaces(View) \cup {x}
  <2>1. id \in Live(table) /\ node'.kind # "none"
    BY <1>2, <1>6, <1>10
  <2>2. /\ Live(View') = Live(table)
        /\ Places(id, node) \subseteq AllPlaces(table)
        /\ AllPlaces(View') = (AllPlaces(table) \ Places(id, node)) \cup Places(id, node')
    BY <1>7, <1>9, <2>1, ReplaceInode
  <2>3. QED
    BY <1>6, <2>2
<1>12. Exact(View', bits \cup {b})
  BY <1>1, <1>3, <1>11, ExactGrow DEF Consistent
<1>13. Exact(View, Used)'
  BY <1>1, <1>3, <1>12 DEF Exact, Unshared, AllRefs, AllPlaces, Live
<1>14. (Catalog \in Live(View))' /\ (task.kind = "entry" => task.target \in Live(View))'
  BY <1>11 DEF Consistent, Live
<1>15. pc' \notin Stored /\ pc' \notin BitmapSaved /\ pc' \notin SuperblockSaved
  BY DEF Stored, BitmapSaved, SuperblockSaved
<1>16. QED
  BY <1>10, <1>13, <1>14, <1>15 DEF Consistent

\* A block that holds data is written over: no inode goes with it.
LEMMA OverwriteConsistent ==
  ASSUME Typed, Consistent, Overwrite
  PROVE  Consistent'
<1> DEFINE c == node.chunks[idx]
<1>1. /\ pc = "write_block" /\ idx \in DOMAIN node.chunks /\ PutBlock(c, NoInode, out)
      /\ node' = node /\ UNCHANGED <<id, task, bits>> /\ pc' \in {"write_block", "write_inode"}
  BY DEF Overwrite, WriteBlock, memory
<1>2. id \in Live(View) /\ View[id] = node /\ id \in Blocks /\ View \in Tables /\ InTransaction
  BY <1>1, WorkingInode, ViewTable, LiveIs DEF InTransaction
<1>3. <<c, id, "data", idx>> \in AllPlaces(View)
  <2>1. <<c, id, "data", idx>> \in Places(id, node)
    BY <1>1 DEF Places
  <2>2. QED
    BY <1>2, <2>1, PlaceOfLive
<1> HIDE DEF c
<1>4. c \notin Live(View)
  <2>1. SUFFICES ASSUME c \in Live(View) PROVE FALSE
    OBVIOUS
  <2>2. <<c, c, "inode", 0>> \in AllPlaces(View)
    BY <2>1, LiveIsUsed
  <2>3. <<c, c, "inode", 0>> = <<c, id, "data", idx>>
    BY <1>3, <2>2 DEF Consistent, Exact, Unshared
  <2>4. QED
    BY <2>3
<1>5. NoInode.kind = "none" /\ NoInode \in InodeType
  BY NewInodeTyped DEF NoInode
<1>6. c # id
  BY <1>2, <1>4
<1>7. View' = [[inodes EXCEPT ![c] = NoInode] EXCEPT ![id] = node]
  BY <1>1 DEF View, InTransaction, PutBlock
<1>8. View' = [View EXCEPT ![c] = NoInode]
  BY <1>2, <1>6, <1>7, ViewTable DEF Tables
<1>9. Live(View') = Live(View) /\ AllPlaces(View') = AllPlaces(View)
  BY <1>2, <1>4, <1>5, <1>8, BlankInode
<1>10. Used' = Used
  BY <1>1 DEF Used
<1>11. Exact(View, Used)'
  BY <1>9, <1>10 DEF Consistent, Exact, Unshared, AllRefs, AllPlaces, Live
<1>12. (Catalog \in Live(View))' /\ (task.kind = "entry" => task.target \in Live(View))'
  BY <1>1, <1>9 DEF Consistent, Live
<1>13. pc' \notin Stored /\ pc' \notin BitmapSaved /\ pc' \notin SuperblockSaved
  BY <1>1 DEF Stored, BitmapSaved, SuperblockSaved
<1>14. QED
  BY <1>1, <1>2, <1>11, <1>12, <1>13 DEF Consistent

\* The blocks of an old value are given back: nothing else used them.
LEMMA FreeOldConsistent ==
  ASSUME Typed, Consistent, FreeOld
  PROVE  Consistent'
<1> DEFINE k == task.key
           old == node.large[k]
           X == LargePlaces(id, node, k)
<1>1. /\ pc = "attr_free" /\ pc' = "attr_free_super" /\ UNCHANGED <<inodes, id, task>>
      /\ bits' = bits \ ToSet(old) /\ disk_bits' = bits'
      /\ node' = [node EXCEPT !.large[k] = << >>]
  BY DEF FreeOld
<1>2. k \in Keys /\ node \in InodeType
  BY <1>1 DEF Typed, TypeOK, TaskOK, AttributePoints
<1>3. id \in Live(View) /\ View[id] = node /\ id \in Blocks /\ View \in Tables /\ InTransaction
  BY <1>1, WorkingInode, ViewTable, LiveIs DEF InTransaction
<1>4. node'.kind = node.kind /\ node.kind # "none"
  BY <1>1, <1>2, <1>3, EmptySeq, SetLarge DEF Consistent
<1>5. Places(id, node') = Places(id, node) \ X
  BY <1>1, <1>2, PlacesOfClearLarge
<1>6. X \subseteq Places(id, node)
  BY <1>2, PlacesByKey
<1>7. X \subseteq AllPlaces(View)
  BY <1>3, <1>6, PlaceOfLive
<1>8. ToSet(old) = {p[1] : p \in X}
  <2>1. ASSUME NEW c \in ToSet(old)
        PROVE  c \in {p[1] : p \in X}
    <3>1. PICK i \in DOMAIN old : c = old[i]
      BY <2>1 DEF ToSet
    <3>2. <<c, id, k, i>> \in X /\ <<c, id, k, i>>[1] = c
      BY <3>1 DEF LargePlaces
    <3> HIDE DEF X
    <3>3. QED
      BY <3>2
  <2>2. ASSUME NEW p \in X
        PROVE  p[1] \in ToSet(old)
    BY <2>2 DEF LargePlaces, ToSet
  <2> HIDE DEF X, old
  <2>3. QED
    BY <2>1, <2>2
<1>9. View' = [inodes EXCEPT ![id] = node']
  BY <1>1 DEF View, InTransaction
<1>10. View' = [View EXCEPT ![id] = node']
  BY <1>3, <1>9, ViewTable DEF Tables
<1> HIDE DEF X, old, k
<1>11. Live(View') = Live(View) /\ AllPlaces(View') = AllPlaces(View) \ X
  <2>1. /\ Live(View') = Live(View)
        /\ Places(id, node) \subseteq AllPlaces(View)
        /\ AllPlaces(View') = (AllPlaces(View) \ Places(id, node)) \cup Places(id, node')
    BY <1>3, <1>4, <1>10, ReplaceInode
  <2>2. QED
    BY <1>5, <1>7, <1>6, <2>1
<1>12. Used = bits /\ Used' = bits'
  BY <1>1 DEF Used
<1>13. Exact(View', bits \ ToSet(old))
  BY <1>7, <1>8, <1>11, <1>12, ExactShrink DEF Consistent
<1>14. Exact(View, Used)'
  BY <1>1, <1>12, <1>13 DEF Exact, Unshared, AllRefs, AllPlaces, Live
<1>15. (Catalog \in Live(View))' /\ (task.kind = "entry" => task.target \in Live(View))'
  BY <1>1, <1>11 DEF Consistent, Live
<1>16. pc' \notin Stored /\ pc' \notin SuperblockSaved
  BY <1>1 DEF Stored, SuperblockSaved
<1>17. QED
  BY <1>1, <1>4, <1>14, <1>15, <1>16 DEF Consistent

\* The inode is written as it stands, but for its size and its small attributes.
LEMMA WriteInodeConsistent ==
  ASSUME Typed, Consistent, WriteInode
  PROVE  Consistent'
<1>1. /\ pc \in {"create_inode", "write_inode", "attr_inode"}
      /\ pc' \in {"create_bitmap", "write_bitmap", "attr_catalog"}
      /\ inodes' = [inodes EXCEPT ![id] = Final] /\ node' = Final
      /\ UNCHANGED <<id, task, bits>>
  BY DEF WriteInode, PutBlock, memory
<1>2. id \in Live(View) /\ View[id] = node /\ id \in Blocks /\ View \in Tables
        /\ inodes \in Tables /\ InTransaction
  BY <1>1, WorkingInode, ViewTable, LiveIs DEF InTransaction
<1>3. Final.kind = node.kind /\ Final.chunks = node.chunks /\ Final.large = node.large
  BY <1>1, FinalTyped
<1>4. Final.kind # "none" /\ Places(id, Final) = Places(id, node)
  BY <1>2, <1>3, PlacesOfSame DEF Consistent
<1>5. View' = [[inodes EXCEPT ![id] = Final] EXCEPT ![id] = Final]
  BY <1>1 DEF View, InTransaction
<1>6. View' = [View EXCEPT ![id] = Final]
  BY <1>2, <1>5, ViewTable DEF Tables
<1>7. Live(View') = Live(View) /\ AllPlaces(View') = AllPlaces(View)
  <2>1. /\ Live(View') = Live(View)
        /\ Places(id, node) \subseteq AllPlaces(View)
        /\ AllPlaces(View') = (AllPlaces(View) \ Places(id, node)) \cup Places(id, Final)
    BY <1>2, <1>4, <1>6, ReplaceInode
  <2>2. QED
    BY <1>4, <2>1
<1>8. Used' = Used
  BY <1>1 DEF Used
<1>9. Exact(View, Used)'
  BY <1>7, <1>8 DEF Consistent, Exact, Unshared, AllRefs, AllPlaces, Live
<1>10. (Catalog \in Live(View))' /\ (task.kind = "entry" => task.target \in Live(View))'
  BY <1>1, <1>7 DEF Consistent, Live
<1>11. inodes'[id'] = node'
  BY <1>1, <1>2 DEF Tables
<1>12. pc' \notin BitmapSaved /\ pc' \notin SuperblockSaved
  BY <1>1 DEF BitmapSaved, SuperblockSaved
<1>13. QED
  BY <1>1, <1>4, <1>9, <1>10, <1>11, <1>12 DEF Consistent

\* The steps that leave the table alone.

LEMMA BeginsOpConsistent ==
  ASSUME Typed, Consistent, NEW target \in Known({"file", "dir"}), NEW key \in Keys,
         NEW n \in 0 .. MaxLargeBlocks, SetAttribute(target, key, n)
  PROVE  Consistent'
<1>1. /\ pc = "idle" /\ pc' \in {"attr_free", "attr_store", "attr_inode"}
      /\ id' = target /\ node' = inodes[target] /\ task'.kind = "attribute"
      /\ inodes' = inodes /\ bits' = bits
  BY DEF SetAttribute, StartOp, device, memory
<1>2. node'.kind # "none"
  BY <1>1 DEF Known
<1>3. View = inodes /\ inodes \in Tables
  BY <1>1, ViewTable DEF InTransaction
<1>4. View' = [inodes EXCEPT ![target] = inodes[target]]
  BY <1>1 DEF View, InTransaction
<1>5. View' = View
  BY <1>3, <1>4 DEF Tables
<1>6. Used' = Used
  BY <1>1 DEF Used
<1>7. Exact(View, Used)'
  BY <1>5, <1>6 DEF Consistent, Exact, Unshared, AllRefs, AllPlaces, Live
<1>8. (Catalog \in Live(View))' /\ task'.kind # "entry"
  BY <1>1, <1>5 DEF Consistent, Live
<1>9. pc' \notin Stored /\ pc' \notin BitmapSaved /\ pc' \notin SuperblockSaved
  BY <1>1 DEF Stored, BitmapSaved, SuperblockSaved
<1>10. QED
  BY <1>2, <1>7, <1>8, <1>9 DEF Consistent

\* An operation lets go of its inode once the device has it.
LEMMA EndsConsistent ==
  ASSUME Typed, Typed', Consistent, pc \in {"create_end", "write_end", "attr_end"},
         UNCHANGED <<device, memory>>,
         \/ Return
         \/ UNCHANGED locals /\ pc' \in {"write_begin", "attr_bitmap"}
  PROVE  Consistent'
<1>1. /\ inodes[id] = node /\ disk_bits = bits /\ disk_free = free
      /\ inodes' = inodes /\ bits' = bits /\ free' = free
      /\ disk_bits' = disk_bits /\ disk_free' = disk_free
  BY DEF Consistent, Stored, BitmapSaved, SuperblockSaved, device, memory
<1>2. View = inodes
  BY <1>1, ViewTable
<1>3. pc' \in {"idle", "write_begin", "attr_bitmap"}
  BY DEF Return
<1>4. Used' = Used
  BY <1>1, <1>3 DEF Used
<1>5. CASE Return
  <2>1. View' = View /\ ~InTransaction' /\ pc' \notin Stored
    BY <1>1, <1>2, <1>5 DEF Return, View, InTransaction, Stored
  <2>2. Exact(View, Used)' /\ (Catalog \in Live(View))'
    BY <2>1, <1>4 DEF Consistent, Exact, Unshared, AllRefs, AllPlaces, Live
  <2>3. task'.kind # "entry"
    BY <1>5, NoTaskFields DEF Return
  <2>4. QED
    BY <1>1, <2>1, <2>2, <2>3 DEF Consistent
<1>6. CASE UNCHANGED locals /\ pc' \in {"write_begin", "attr_bitmap"}
  <2>1. id' = id /\ node' = node /\ task' = task
    BY <1>6 DEF locals
  <2>2. View' = [inodes EXCEPT ![id] = node] \/ View' = inodes
    BY <1>1, <2>1 DEF View
  <2>3. View' = View
    BY <1>1, <1>2, <2>2, ViewTable DEF Tables
  <2>4. InTransaction' => node'.kind # "none"
    BY <1>6, <2>1 DEF InTransaction, Consistent
  <2>5. (pc \in Stored => inodes[id] = node)'
    BY <1>1, <2>1
  <2>6. disk_bits' = bits' /\ disk_free' = free'
    BY <1>1
  <2>7. QED
    BY <1>4, <2>1, <2>3, <2>4, <2>5, <2>6, QuietStep
<1>7. QED
  BY <1>5, <1>6

LEMMA SyncConsistent ==
  ASSUME Typed, Consistent, SyncMetadata
  PROVE  Consistent'
<1>1. /\ inodes' = inodes /\ bits' = bits /\ free' = free
      /\ id' = id /\ node' = node /\ task' = task
  BY DEF SyncMetadata, SaveBitmap, SaveSuperblock, memory, locals
<1>2. InTransaction /\ InTransaction' /\ pc # "down" /\ pc' # "down"
  BY DEF SyncMetadata, SaveBitmap, SaveSuperblock, InTransaction
<1>3. View' = View /\ Used' = Used
  BY <1>1, <1>2 DEF View, Used
<1>4. pc' \in Stored => pc \in Stored
  BY DEF SyncMetadata, SaveBitmap, SaveSuperblock, Stored
<1>5. (pc \in Stored => inodes[id] = node)'
  BY <1>1, <1>4 DEF Consistent
<1>6. (pc \in BitmapSaved => disk_bits = bits)'
  <2>1. pc' \in BitmapSaved => disk_bits' = bits \/ (pc \in BitmapSaved /\ disk_bits' = disk_bits)
    BY DEF SyncMetadata, SaveBitmap, SaveSuperblock, BitmapSaved
  <2>2. QED
    BY <1>1, <2>1 DEF Consistent
<1>7. (pc \in SuperblockSaved => disk_free = free)'
  <2>1. pc' \in SuperblockSaved => disk_free' = free
    BY DEF SyncMetadata, SaveBitmap, SaveSuperblock, SuperblockSaved
  <2>2. QED
    BY <1>1, <2>1
<1>8. QED
  BY <1>1, <1>2, <1>3, <1>5, <1>6, <1>7, QuietStep DEF Consistent

\* A crash between two operations: the device has it all.
LEMMA CrashConsistent ==
  ASSUME Typed, Consistent, Crash, ~torn'
  PROVE  Consistent'
<1>1. pc \in {"idle", "write_begin"} /\ pc' = "down" /\ task' = NoTask
        /\ inodes' = inodes /\ disk_bits' = disk_bits
  BY DEF Crash, InTransaction, device
<1>2. disk_bits = bits
  BY <1>1 DEF Consistent, BitmapSaved
<1>3. View = inodes /\ View' = inodes
  BY <1>1, ViewTable DEF View, InTransaction
<1>4. Used = bits /\ Used' = disk_bits'
  BY <1>1 DEF Used
<1>5. Exact(View, Used)' /\ (Catalog \in Live(View))'
  BY <1>1, <1>2, <1>3, <1>4 DEF Consistent, Exact, Unshared, AllRefs, AllPlaces, Live
<1>6. /\ ~InTransaction' /\ task'.kind # "entry"
      /\ pc' \notin Stored /\ pc' \notin BitmapSaved /\ pc' \notin SuperblockSaved
  BY <1>1, NoTaskFields DEF InTransaction, Stored, BitmapSaved, SuperblockSaved
<1>7. QED
  BY <1>5, <1>6 DEF Consistent

LEMMA MountConsistent ==
  ASSUME Consistent, Mount
  PROVE  Consistent'
<1>1. /\ pc = "down" /\ pc' = "idle" /\ inodes' = inodes /\ task' = task
      /\ bits' = disk_bits /\ free' = disk_free /\ UNCHANGED <<disk_bits, disk_free>>
  BY DEF Mount, device, locals
<1>2. View' = View /\ Used' = Used /\ ~InTransaction' /\ pc' \notin Stored
  BY <1>1 DEF View, Used, InTransaction, Stored
<1>3. QED
  BY <1>1, <1>2, QuietStep

LEMMA FailTears ==
  ASSUME NEW e, Fail(e)
  PROVE  torn'
  BY DEF Fail

\* An operation cut short stays cut short.
LEMMA TornStays == Typed /\ [Next]_vars /\ ~torn' => ~torn
<1> SUFFICES ASSUME [Next]_vars, torn PROVE torn'
  OBVIOUS
<1>1. CASE UNCHANGED vars
  BY <1>1 DEF vars, ghosts
<1>2. CASE Next
  BY <1>2 DEF Next, CreateInode, AddEntry, EndCreate, WriteData, WriteEntries, Overwrite, Extend,
     ExtendBeyond, StoreNew, EndWrite, SetAttribute, FreeOld, UpdateCatalog, CatalogUnreadable,
     EndAttribute, NoSpace, WriteInode, InodeTooLarge, SyncMetadata, Crash, Mount, BeginCreate,
     WriteBlock, Fail, SaveBitmap, SaveSuperblock, ghosts
<1>3. QED
  BY <1>1, <1>2

\* Every operation keeps the bitmap exact, or is one that was cut short.
LEMMA StepConsistent == Inv /\ [Next]_vars => Inv'
<1> SUFFICES ASSUME Inv, [Next]_vars, ~torn' PROVE Consistent'
  BY StepTyped DEF Inv
<1>a. Typed /\ Typed' /\ ~torn
  BY StepTyped, TornStays DEF Inv
<1>b. Consistent
  BY <1>a DEF Inv
<1>c. ~InTransaction => View = inodes
  BY <1>a, ViewTable
<1>1. ASSUME NEW attrs \in SUBSET CreateKeys, CreateInode(attrs)
      PROVE  Consistent'
  <2> DEFINE n == [NewInode("file") EXCEPT !.small = attrs]
             arguments == [NoTask EXCEPT !.kind = "create"]
  <2>1. n \in InodeType /\ n.kind = "file" /\ n.chunks = << >> /\ \A k \in Keys : n.large[k] = << >>
    <3>1. attrs \in SUBSET Keys
      BY UnaFSAssumption
    <3>2. /\ NewInode("file") \in InodeType /\ NewInode("file").kind = "file"
          /\ NewInode("file").chunks = << >> /\ \A k \in Keys : NewInode("file").large[k] = << >>
      BY NewInodeTyped
    <3>3. QED
      BY <3>1, <3>2, SetSmall
  <2>2. arguments.kind = "create"
    BY DEF NoTask
  <2>3. PICK b \in Blocks : BeginCreate(b, n, arguments, NoList)
    BY <1>1 DEF CreateInode
  <2> HIDE DEF n, arguments
  <2>4. QED
    BY <1>a, <1>b, <2>1, <2>2, <2>3, BeginCreateConsistent
<1>2. ASSUME NEW parent \in Known({"dir"}), NEW name \in Names, NEW kind \in {"file", "dir"},
             AddEntry(parent, name, kind)
      PROVE  Consistent'
  <2> DEFINE arguments == [kind |-> "entry", target |-> parent, key |-> name, blocks |-> 0]
  <2>1. parent \in Live(inodes) /\ arguments.target = parent
    BY <1>a DEF Known, Live, Typed, TypeOK
  <2>2. PICK b \in Blocks :
          BeginCreate(b, NewInode(kind), arguments,
                      AddItem("dir", ListOf(inodes[parent]), <<name, b>>))
    BY <1>2 DEF AddEntry
  <2>3. /\ NewInode(kind) \in InodeType /\ NewInode(kind).kind # "none"
        /\ NewInode(kind).chunks = << >> /\ \A k \in Keys : NewInode(kind).large[k] = << >>
    BY NewInodeTyped
  <2> HIDE DEF arguments
  <2>4. QED
    BY <1>a, <1>b, <2>1, <2>2, <2>3, BeginCreateConsistent
<1>3. ASSUME EndCreate
      PROVE  Consistent'
  BY <1>3, <1>a, <1>b, EndsConsistent DEF EndCreate
<1>4. ASSUME NEW target \in Known({"file"}), NEW n \in 1 .. MaxFileBlocks, WriteData(target, n)
      PROVE  Consistent'
  <2> DEFINE arguments == [NoTask EXCEPT !.kind = "write", !.target = target, !.blocks = n]
  <2>1. arguments.kind = "write"
    BY DEF NoTask
  <2>2. BeginWrite(target, NoList, arguments) /\ pc = "idle" /\ UNCHANGED <<device, memory>>
    BY <1>4 DEF WriteData, StartOp
  <2>3. View = inodes
    BY <1>c, <2>2 DEF InTransaction
  <2>4. target \in Live(inodes)
    BY <1>a DEF Known, Live, Typed, TypeOK
  <2> HIDE DEF arguments
  <2>5. QED
    BY <1>a, <1>b, <2>1, <2>2, <2>3, <2>4, BeginWriteConsistent
<1>5. ASSUME WriteEntries
      PROVE  Consistent'
  <2>1. BeginWrite(task.target, out, task) /\ pc = "write_begin" /\ UNCHANGED <<device, memory>>
    BY <1>5 DEF WriteEntries
  <2>2. View = inodes
    BY <1>c, <2>1 DEF InTransaction
  <2>3. task.target \in Live(inodes)
    BY <1>a, <1>b, <2>1, <2>2 DEF Consistent, Typed, TaskOK
  <2>4. QED
    BY <1>a, <1>b, <2>1, <2>2, <2>3, BeginWriteConsistent
<1>6. ASSUME Overwrite
      PROVE  Consistent'
  BY <1>6, <1>a, <1>b, OverwriteConsistent
<1>7. ASSUME NEW b \in Blocks, Extend(b)
      PROVE  Consistent'
  <2> DEFINE n == [node EXCEPT !.chunks = Append(@, b)]
             x == <<b, id, "data", Len(node.chunks) + 1>>
  <2>1. /\ Take(b) /\ PutBlock(b, NoInode, out) /\ node' = n /\ pc = "write_block"
        /\ UNCHANGED <<id, task>> /\ pc' \in {"write_block", "write_inode"}
    BY <1>7 DEF Extend, WriteBlock
  <2>2. node \in InodeType
    BY <1>a DEF Typed, TypeOK
  <2>3. Places(id, n) = Places(id, node) \cup {x} /\ n.kind = node.kind
    BY <2>2, PlacesOfAppend, AppendBlock
  <2>4. x[1] = b
    OBVIOUS
  <2>5. InTransaction /\ pc # "down"
    BY <2>1 DEF InTransaction
  <2> HIDE DEF n, x
  <2>6. Places(id, node') = Places(id, node) \cup {x} /\ node'.kind = node.kind
    BY <2>1, <2>3
  <2>7. QED
    BY <1>a, <1>b, <2>1, <2>4, <2>5, <2>6, GrowConsistent
<1>8. ASSUME NEW b \in Blocks, ExtendBeyond(b)
      PROVE  Consistent'
  BY <1>8, FailTears DEF ExtendBeyond
<1>9. ASSUME NEW b \in Blocks, StoreNew(b)
      PROVE  Consistent'
  <2> DEFINE k == task.key
             n == [node EXCEPT !.large[k] = Append(node.large[k], b)]
             x == <<b, id, k, Len(node.large[k]) + 1>>
  <2>1. /\ Take(b) /\ PutBlock(b, NoInode, NoList) /\ node' = n /\ pc = "attr_store"
        /\ UNCHANGED <<id, task>> /\ pc' \in {"attr_store", "attr_store_bitmap"}
    BY <1>9 DEF StoreNew
  <2>2. node \in InodeType /\ k \in Keys
    BY <1>a, <2>1 DEF Typed, TypeOK, TaskOK, AttributePoints
  <2>3. Append(node.large[k], b) \in Seq(Blocks)
    BY <2>2, InodeFields
  <2> HIDE DEF k
  <2>4. Places(id, n) = Places(id, node) \cup {x} /\ n.kind = node.kind
    BY SMTT(30), <2>2, <2>3, PlacesOfAppendLarge, SetLarge
  <2>5. x[1] = b
    OBVIOUS
  <2>6. InTransaction /\ pc # "down"
    BY <2>1 DEF InTransaction
  <2> HIDE DEF n, x
  <2>7. Places(id, node') = Places(id, node) \cup {x} /\ node'.kind = node.kind
    BY <2>1, <2>4
  <2>8. QED
    BY <1>a, <1>b, <2>1, <2>5, <2>6, <2>7, GrowConsistent
<1>10. ASSUME EndWrite
       PROVE  Consistent'
  BY <1>10, <1>a, <1>b, EndsConsistent DEF EndWrite
<1>11. ASSUME NEW target \in Known({"file", "dir"}), NEW key \in Keys,
              NEW n \in 0 .. MaxLargeBlocks, SetAttribute(target, key, n)
       PROVE  Consistent'
  BY <1>11, <1>a, <1>b, BeginsOpConsistent
<1>12. ASSUME FreeOld
       PROVE  Consistent'
  BY <1>12, <1>a, <1>b, FreeOldConsistent
<1>13. ASSUME UpdateCatalog
       PROVE  Consistent'
  <2>1. PICK list : BeginWrite(Catalog, list, task)
    BY <1>13 DEF UpdateCatalog
  <2>2. pc = "attr_catalog" /\ UNCHANGED <<device, memory>>
    BY <1>13 DEF UpdateCatalog
  <2>3. View = inodes
    BY <1>a, <1>b, <2>2, ViewTable DEF Consistent, Stored
  <2>4. Catalog \in Live(inodes) /\ task.kind = "attribute"
    BY <1>a, <1>b, <2>2, <2>3 DEF Consistent, Typed, TaskOK, AttributePoints
  <2>5. QED
    BY <1>a, <1>b, <2>1, <2>2, <2>3, <2>4, BeginWriteConsistent
<1>14. ASSUME CatalogUnreadable
       PROVE  Consistent'
  BY <1>14, FailTears DEF CatalogUnreadable
<1>15. ASSUME EndAttribute
       PROVE  Consistent'
  BY <1>15, <1>a, <1>b, EndsConsistent DEF EndAttribute
<1>16. ASSUME NoSpace
       PROVE  Consistent'
  BY <1>16, FailTears DEF NoSpace
<1>17. ASSUME WriteInode
       PROVE  Consistent'
  BY <1>17, <1>a, <1>b, WriteInodeConsistent
<1>18. ASSUME InodeTooLarge
       PROVE  Consistent'
  BY <1>18, FailTears DEF InodeTooLarge
<1>19. ASSUME SyncMetadata
       PROVE  Consistent'
  BY <1>19, <1>a, <1>b, SyncConsistent
<1>20. ASSUME Crash
       PROVE  Consistent'
  BY <1>20, <1>a, <1>b, CrashConsistent
<1>21. ASSUME Mount
       PROVE  Consistent'
  BY <1>21, <1>b, MountConsistent
<1>22. CASE UNCHANGED vars
  <2>1. View' = View /\ Used' = Used
    BY <1>22 DEF View, Used, InTransaction, vars, device, memory, locals
  <2>2. QED
    BY <1>22, <1>b, <2>1, QuietStep
       DEF Consistent, InTransaction, vars, device, memory, locals
<1>23. QED
  BY <1>1, <1>2, <1>3, <1>4, <1>5, <1>6, <1>7, <1>8, <1>9, <1>10, <1>11, <1>12,
     <1>13, <1>14, <1>15, <1>16, <1>17, <1>18, <1>19, <1>20, <1>21, <1>22 DEF Next

LEMMA InvAlways == Spec => []Inv
<1>1. Init => Inv
  BY InitTyped, InitConsistent DEF Inv
<1>2. QED
  BY <1>1, StepConsistent, PTL DEF Spec

--------------------------------------------------------------------------------

\* As long as no operation is cut short, the bitmap marks exactly the blocks of
\* the system, of the inodes and of their data, each of which has one use: what
\* allocate() hands out is nobody's, and free_extents() gives back nobody else's.
THEOREM UnaFSAllocationExact == Spec => []AllocationExact
<1>1. Inv => AllocationExact
  BY DEF Inv, Consistent, Exact, AllocationExact
<1>2. QED
  BY InvAlways, <1>1, PTL

\* Between two operations the device holds the bitmap and the count of the
\* running process: sync_metadata comes last wherever a block was taken or freed.
THEOREM UnaFSNothingPending == Spec => []NothingPending
<1>1. Inv => NothingPending
  BY DEF Inv, Consistent, NothingPending, Settled, InTransaction, BitmapSaved, SuperblockSaved
<1>2. QED
  BY InvAlways, <1>1, PTL


--------------------------------------------------------------------------------
\* The count of free blocks beside the bitmap.  It is exact while the bitmap believes
\* in the device's blocks, and may exceed what is free once it believes in others.

CountOK(used, f, c) ==
  /\ f >= DeviceBlocks - Cardinality(used)
  /\ c = DeviceBlocks => used \subseteq 0 .. DeviceBlocks - 1 /\ f = DeviceBlocks - Cardinality(used)

Counted ==
  IF pc = "down" THEN CountOK(disk_bits, disk_free, BitmapCapacity)
                 ELSE CountOK(bits, free, count) /\ count \in {DeviceBlocks, BitmapCapacity}

LEMMA BlockSets ==
  ASSUME NEW S \in SUBSET Blocks
  PROVE  IsFiniteSet(S) /\ Cardinality(S) \in Nat /\ DeviceBlocks \in Nat
<1>1. IsFiniteSet(Blocks)
  BY UnaFSAssumption, FS_Interval DEF Blocks
<1> QED BY <1>1, UnaFSAssumption, FS_Subset, FS_CardinalityType

LEMMA TakeCounts ==
  ASSUME Typed, Counted, pc # "down", NEW b, Take(b)
  PROVE  CountOK(bits', free', count') /\ count' \in {DeviceBlocks, BitmapCapacity}
<1>1. /\ bits \in SUBSET Blocks /\ free \in Nat /\ free <= DeviceBlocks
      /\ CountOK(bits, free, count) /\ count \in {DeviceBlocks, BitmapCapacity}
  BY UnaFSAssumption DEF Counted, Typed, TypeOK
<1>2. /\ b \in 0 .. count - 1 /\ b \notin bits /\ bits' = bits \cup {b}
      /\ free' = (IF free > 0 THEN free - 1 ELSE 0) /\ count' = count
  BY DEF Take, IsLowestFree, CountDown
<1>3. IsFiniteSet(bits) /\ Cardinality(bits) \in Nat /\ DeviceBlocks \in Nat
  BY <1>1, BlockSets
<1>4. Cardinality(bits') = Cardinality(bits) + 1
  BY <1>2, <1>3, FS_AddElement
<1>5. free' >= DeviceBlocks - Cardinality(bits')
  BY <1>1, <1>2, <1>3, <1>4 DEF CountOK
<1>6. ASSUME count = DeviceBlocks
      PROVE  bits' \subseteq 0 .. DeviceBlocks - 1 /\ free' = DeviceBlocks - Cardinality(bits')
  <2>1. /\ bits \subseteq 0 .. DeviceBlocks - 1 /\ bits' \subseteq 0 .. DeviceBlocks - 1
        /\ free = DeviceBlocks - Cardinality(bits)
    BY <1>1, <1>2, <1>6 DEF CountOK
  <2>2. /\ IsFiniteSet(0 .. DeviceBlocks - 1)
        /\ Cardinality(0 .. DeviceBlocks - 1) = DeviceBlocks
    <3>1. 0 \in Int /\ DeviceBlocks - 1 \in Int
      BY <1>3
    <3>2. /\ IsFiniteSet(0 .. DeviceBlocks - 1)
          /\ Cardinality(0 .. DeviceBlocks - 1)
               = IF 0 > DeviceBlocks - 1 THEN 0 ELSE DeviceBlocks - 1 - 0 + 1
      BY <3>1, FS_Interval
    <3> QED BY <1>3, <3>2
  <2>3. Cardinality(bits') <= DeviceBlocks
    BY <2>1, <2>2, FS_Subset
  <2> QED BY <1>2, <1>3, <1>4, <2>1, <2>3
<1> QED BY <1>1, <1>2, <1>5, <1>6 DEF CountOK

\* A sequence without repetitions has as many elements as its length.
LEMMA DistinctElements ==
  ASSUME NEW s \in Seq(Blocks), \A i, j \in DOMAIN s : s[i] = s[j] => i = j
  PROVE  Cardinality(ToSet(s)) = Len(s)
<1> DEFINE n == Len(s)
<1>1. n \in Nat /\ DOMAIN s = 1 .. n
  OBVIOUS
<1>2. s \in Bijection(1 .. n, ToSet(s))
  <2>1. s \in [1 .. n -> ToSet(s)]
    <3>1. s \in [1 .. n -> Blocks] /\ \A i \in 1 .. n : s[i] \in ToSet(s)
      BY <1>1 DEF ToSet
    <3> QED BY <3>1
  <2>2. s \in Injection(1 .. n, ToSet(s))
    BY <1>1, <2>1 DEF Injection, IsInjective
  <2>3. \A x \in ToSet(s) : \E i \in 1 .. n : s[i] = x
    BY <1>1 DEF ToSet
  <2> QED BY <2>1, <2>2, <2>3 DEF Bijection, Surjection
<1>3. ExistsBijection(1 .. n, ToSet(s))
  BY <1>2 DEF ExistsBijection
<1> QED BY <1>1, <1>3, FS_CountingElements

LEMMA FreeOldCounts ==
  ASSUME Typed, Consistent, Counted, FreeOld
  PROVE  CountOK(bits', free', count')
<1> DEFINE old == node.large[task.key]
<1>1. /\ pc = "attr_free" /\ bits' = bits \ ToSet(old) /\ count' = count
      /\ free' = CountUp(free, DeviceBlocks, Len(old))
  BY DEF FreeOld
<1>2. task.key \in Keys /\ node \in InodeType
  BY <1>1 DEF Typed, TypeOK, TaskOK, AttributePoints
<1>3. old \in Seq(Blocks)
  BY <1>2, InodeFields
<1>4. id \in Live(View) /\ View[id] = node /\ Used = bits
  BY <1>1, WorkingInode DEF InTransaction, Used
<1>5. \A i \in DOMAIN old : <<old[i], id, task.key, i>> \in AllPlaces(View)
  <2>1. \A i \in DOMAIN old : <<old[i], id, task.key, i>> \in Places(id, node)
    BY <1>2 DEF Places
  <2> HIDE DEF old
  <2> QED BY <1>4, <2>1, PlaceOfLive
<1> HIDE DEF old
<1>6. \A i, j \in DOMAIN old : old[i] = old[j] => i = j
  <2> SUFFICES ASSUME NEW i \in DOMAIN old, NEW j \in DOMAIN old, old[i] = old[j] PROVE i = j
    OBVIOUS
  <2> DEFINE p == <<old[i], id, task.key, i>>
             q == <<old[j], id, task.key, j>>
  <2>1. p \in AllPlaces(View) /\ q \in AllPlaces(View) /\ p[1] = q[1]
    BY <1>5
  <2>2. p = q
    BY <2>1 DEF Consistent, Exact, Unshared
  <2> QED BY <2>2
<1>7. ToSet(old) \subseteq bits
  <2>1. \A i \in DOMAIN old : <<old[i], id, task.key, i>>[1] \in bits
    BY <1>4, <1>5, ExactIsUsed DEF Consistent
  <2> QED BY <2>1 DEF ToSet
<1>8. Cardinality(ToSet(old)) = Len(old) /\ Len(old) \in Nat
  BY <1>3, <1>6, DistinctElements
<1>9. /\ bits \in SUBSET Blocks /\ free \in Nat /\ free <= DeviceBlocks
      /\ CountOK(bits, free, count)
  BY <1>1, UnaFSAssumption DEF Counted, Typed, TypeOK
<1>10. IsFiniteSet(bits) /\ Cardinality(bits) \in Nat /\ DeviceBlocks \in Nat
  BY <1>9, BlockSets
<1>11. IsFiniteSet(ToSet(old)) /\ bits \cap ToSet(old) = ToSet(old)
  BY <1>7, <1>10, FS_Subset
<1>12. Cardinality(bits') = Cardinality(bits) - Len(old)
  <2>1. Cardinality(bits \ ToSet(old)) = Cardinality(bits) - Cardinality(bits \cap ToSet(old))
    BY <1>10, FS_Difference
  <2> QED BY <1>1, <1>8, <1>11, <2>1
<1>13. Cardinality(bits') >= 0
  <2>1. bits' \in SUBSET Blocks
    BY <1>1, <1>9
  <2> QED BY <2>1, BlockSets
<1>14. free' = IF free + Len(old) < DeviceBlocks THEN free + Len(old) ELSE DeviceBlocks
  BY <1>1 DEF CountUp
<1> QED BY <1>1, <1>8, <1>9, <1>10, <1>12, <1>13, <1>14 DEF CountOK

LEMMA InitCounts == Init => Counted
<1> SUFFICES ASSUME Init PROVE Counted
  OBVIOUS
<1>1. /\ bits = System \cup {Root, Catalog} /\ free = DeviceBlocks - SystemBlocks - 2
      /\ count = DeviceBlocks /\ pc = "idle"
  BY DEF Init
<1>2. /\ SystemBlocks \in Nat \ {0} /\ DeviceBlocks \in Nat /\ DeviceBlocks >= SystemBlocks + 2
      /\ Root = SystemBlocks /\ Catalog = SystemBlocks + 1
  BY UnaFSAssumption DEF Root, Catalog
<1>3. bits = 0 .. SystemBlocks + 1
  BY <1>1, <1>2 DEF System
<1>4. Cardinality(bits) = SystemBlocks + 2
  <2>1. 0 \in Int /\ SystemBlocks + 1 \in Int
    BY <1>2
  <2>2. Cardinality(0 .. SystemBlocks + 1)
          = IF 0 > SystemBlocks + 1 THEN 0 ELSE SystemBlocks + 1 - 0 + 1
    BY <2>1, FS_Interval
  <2> QED BY <1>2, <1>3, <2>2
<1> QED BY <1>1, <1>2, <1>3, <1>4 DEF Counted, CountOK

\* A step that leaves the bitmap and the count in memory alone.
LEMMA QuietCounts ==
  ASSUME Counted, UNCHANGED memory, pc # "down", pc' # "down"
  PROVE  Counted'
  BY DEF Counted, CountOK, memory

LEMMA CrashCounts ==
  ASSUME Typed, Consistent, Counted, Crash, ~torn'
  PROVE  Counted'
<1>1. pc \in {"idle", "write_begin"} /\ pc' = "down"
        /\ disk_bits' = disk_bits /\ disk_free' = disk_free
  BY DEF Crash, InTransaction, device
<1>2. disk_bits = bits /\ disk_free = free
  BY <1>1 DEF Consistent, BitmapSaved, SuperblockSaved
<1>3. CountOK(bits, free, count) /\ count \in {DeviceBlocks, BitmapCapacity}
  BY <1>1 DEF Counted
<1> QED BY <1>1, <1>2, <1>3 DEF Counted, CountOK

LEMMA MountCounts ==
  ASSUME Counted, Mount
  PROVE  Counted'
  BY DEF Counted, CountOK, Mount

LEMMA StepCounts == Inv /\ Inv' /\ ~torn /\ ~torn' /\ Counted /\ [Next]_vars => Counted'
<1> SUFFICES ASSUME Inv, ~torn, ~torn', Counted, [Next]_vars PROVE Counted'
  OBVIOUS
<1>1. Typed /\ Consistent
  BY DEF Inv
<1>2. ASSUME NEW b, Take(b), pc # "down", pc' # "down" PROVE Counted'
  BY <1>1, <1>2, TakeCounts DEF Counted
<1>3. ASSUME NEW attrs \in SUBSET CreateKeys, CreateInode(attrs) PROVE Counted'
  BY <1>2, <1>3 DEF CreateInode, BeginCreate, StartOp
<1>4. ASSUME NEW parent \in Known({"dir"}), NEW name \in Names, NEW kind \in {"file", "dir"},
             AddEntry(parent, name, kind)
      PROVE  Counted'
  BY <1>2, <1>4 DEF AddEntry, BeginCreate, StartOp
<1>5. ASSUME NEW b \in Blocks, Extend(b) \/ StoreNew(b) PROVE Counted'
  BY <1>2, <1>5 DEF Extend, StoreNew, WriteBlock
<1>6. CASE FreeOld
  BY <1>1, <1>6, FreeOldCounts DEF FreeOld, Counted
<1>7. CASE Crash
  BY <1>1, <1>7, CrashCounts
<1>8. CASE Mount
  BY <1>8, MountCounts
<1>9. ASSUME NEW e, Fail(e) PROVE FALSE
  BY <1>9, FailTears
<1>10. CASE NoSpace \/ CatalogUnreadable \/ InodeTooLarge
  BY <1>9, <1>10 DEF NoSpace, CatalogUnreadable, InodeTooLarge
<1>11. ASSUME NEW b \in Blocks, ExtendBeyond(b) PROVE FALSE
  BY <1>9, <1>11 DEF ExtendBeyond
<1>12. CASE EndCreate \/ WriteEntries \/ EndWrite \/ UpdateCatalog \/ EndAttribute
  BY <1>12, QuietCounts
     DEF EndCreate, WriteEntries, EndWrite, UpdateCatalog, EndAttribute, BeginWrite, Return
<1>13. CASE Overwrite
  BY <1>13, QuietCounts DEF Overwrite, WriteBlock
<1>14. CASE WriteInode
  BY <1>14, QuietCounts DEF WriteInode
<1>15. CASE SyncMetadata
  BY <1>15, QuietCounts DEF SyncMetadata, SaveBitmap, SaveSuperblock
<1>16. ASSUME NEW target \in Known({"file"}), NEW n \in 1 .. MaxFileBlocks, WriteData(target, n)
       PROVE  Counted'
  BY <1>16, QuietCounts DEF WriteData, StartOp, BeginWrite
<1>17. ASSUME NEW target \in Known({"file", "dir"}), NEW key \in Keys, NEW n \in 0 .. MaxLargeBlocks,
              SetAttribute(target, key, n)
       PROVE  Counted'
  BY <1>17, QuietCounts DEF SetAttribute, StartOp
<1>18. CASE UNCHANGED vars
  BY <1>18 DEF Counted, CountOK, vars, device, memory
<1> QED BY <1>3, <1>4, <1>5, <1>6, <1>7, <1>8, <1>10, <1>11, <1>12, <1>13, <1>14, <1>15, <1>16,
           <1>17, <1>18 DEF Next

\* The superblock's count of free blocks is exact until a mount makes the bitmap believe
\* in more blocks than the device has, and never too small (allocate, free_extents).
THEOREM UnaFSFreeCount == Spec => []FreeCount
<1> DEFINE J == Inv /\ (~torn => Counted)
<1>1. Init => J
  BY InitTyped, InitConsistent, InitCounts DEF Inv
<1>2. J /\ [Next]_vars => J'
  <2> SUFFICES ASSUME J, [Next]_vars PROVE J'
    OBVIOUS
  <2>1. Inv'
    BY StepConsistent
  <2>2. ~torn' => ~torn
    BY TornStays DEF Inv
  <2> QED BY <2>1, <2>2, StepCounts
<1>3. J => FreeCount
  BY DEF FreeCount, Counted, CountOK
<1> QED BY <1>1, <1>2, <1>3, PTL DEF Spec
--------------------------------------------------------------------------------
\* What directories and the catalog hold, said of any table of inodes and of the
\* list each of them has.

ListKinds == {"dir", "system"}

ListIn(n, table) == IF n.size = 0 \/ n.chunks = << >> THEN NoList ELSE table[n.chunks[1]]
Held(table, blocks) == [b \in Blocks |-> ListIn(table[b], blocks)]

Readable(n, list) ==
  /\ list = NoList \/ (list.of = n.kind /\ list.len <= n.size)
  /\ n.chunks # << >> => list # NoList
AllReadable(table, held, but) ==
  \A b \in Live(table) : b \notin but /\ table[b].kind \in ListKinds => Readable(table[b], held[b])

Named(table, held) ==
  \A b \in Live(table) : table[b].kind \in ListKinds =>
    \A e \in held[b].items : e[2] \in Blocks /\ table[e[2]].kind \in {"file", "dir"}
Apart(table, held) ==
  \A a, b \in Live(table) : table[a].kind = "dir" /\ table[b].kind = "dir" =>
    \A d \in held[a].items, e \in held[b].items : d[2] = e[2] => a = b /\ d = e

\* The list of t with one more entry, for an inode that no directory names yet.
NoEntryFor(table, held, b) ==
  \A d \in Live(table) : table[d].kind = "dir" => \A e \in held[d].items : e[2] # b
IsNew(table, held, t, item) ==
  /\ item[2] \in Blocks /\ table[item[2]].kind \in {"file", "dir"}
  /\ table[t].kind = "dir" => NoEntryFor(table, held, item[2])
Pends(table, held, t, list) ==
  /\ t \in Live(table) /\ table[t].kind \in ListKinds
  /\ \E item \in (Names \cup Keys) \X Blocks :
       IsNew(table, held, t, item) /\ list = AddItem(table[t].kind, held[t], item)

\* Attributes the catalog has, but for those in some set.
Has(n, k) == k \in n.small \/ n.large[k] # << >>
Found(table, held, but) ==
  \A b \in Live(table), k \in Keys \ CreateKeys :
    Has(table[b], k) => <<k, b>> \in but \/ <<k, b>> \in held[Catalog].items

\* From one table to the next: every list is where it was, new inodes have none.
Keeps(t, c, u, d) ==
  /\ Live(t) \subseteq Live(u)
  /\ \A b \in Live(t) :
       /\ u[b].kind = t[b].kind
       /\ t[b].kind \in ListKinds => d[b] = c[b] /\ (Readable(t[b], c[b]) => Readable(u[b], d[b]))
  /\ \A b \in Live(u) : b \notin Live(t) => d[b] = NoList /\ Readable(u[b], d[b])

LEMMA NoListFields == NoList.of = "none" /\ NoList.items = {}
  BY DEF NoList

LEMMA AddItemFields ==
  ASSUME NEW kind, NEW list, NEW item
  PROVE  /\ AddItem(kind, list, item).of = kind
         /\ AddItem(kind, list, item).items = list.items \cup {item}
         /\ AddItem(kind, list, item).len = list.len + 1
  BY DEF AddItem

LEMMA KeepsReadable ==
  ASSUME NEW t, NEW c, NEW u, NEW d, NEW S, Keeps(t, c, u, d), AllReadable(t, c, S),
         \A b \in S : Readable(u[b], d[b])
  PROVE  AllReadable(u, d, {})
<1> SUFFICES ASSUME NEW b \in Live(u), u[b].kind \in ListKinds PROVE Readable(u[b], d[b])
  BY DEF AllReadable
<1>1. CASE b \in Live(t)
  BY <1>1 DEF Keeps, AllReadable
<1>2. CASE b \notin Live(t)
  BY <1>2 DEF Keeps
<1> QED BY <1>1, <1>2

LEMMA KeepsNamed ==
  ASSUME NEW t, NEW c, NEW u, NEW d, Keeps(t, c, u, d), Named(t, c)
  PROVE  Named(u, d)
<1> SUFFICES ASSUME NEW b \in Live(u), u[b].kind \in ListKinds, NEW e \in d[b].items
             PROVE  e[2] \in Blocks /\ u[e[2]].kind \in {"file", "dir"}
  BY DEF Named
<1>1. b \in Live(t) /\ d[b] = c[b] /\ t[b].kind \in ListKinds
  BY NoListFields DEF Keeps
<1>2. e[2] \in Blocks /\ t[e[2]].kind \in {"file", "dir"}
  BY <1>1 DEF Named
<1>3. e[2] \in Live(t)
  BY <1>2 DEF Live
<1> QED BY <1>2, <1>3 DEF Keeps

LEMMA KeepsEntry ==
  ASSUME NEW t, NEW c, NEW u, NEW d, Keeps(t, c, u, d),
         NEW b \in Live(u), u[b].kind = "dir", NEW e \in d[b].items
  PROVE  b \in Live(t) /\ t[b].kind = "dir" /\ e \in c[b].items
  BY NoListFields DEF Keeps, ListKinds

LEMMA KeepsApart ==
  ASSUME NEW t, NEW c, NEW u, NEW d, Keeps(t, c, u, d), Apart(t, c)
  PROVE  Apart(u, d)
<1> SUFFICES ASSUME NEW a \in Live(u), NEW b \in Live(u), u[a].kind = "dir", u[b].kind = "dir",
                    NEW x \in d[a].items, NEW y \in d[b].items, x[2] = y[2]
             PROVE  a = b /\ x = y
  BY DEF Apart
<1>1. /\ a \in Live(t) /\ t[a].kind = "dir" /\ x \in c[a].items
      /\ b \in Live(t) /\ t[b].kind = "dir" /\ y \in c[b].items
  BY KeepsEntry
<1> QED BY <1>1 DEF Apart

LEMMA KeepsPends ==
  ASSUME NEW t, NEW c, NEW u, NEW d, Keeps(t, c, u, d),
         NEW b, NEW list, Pends(t, c, b, list)
  PROVE  Pends(u, d, b, list)
<1>1. /\ b \in Live(t) /\ b \in Live(u) /\ t[b].kind \in ListKinds
      /\ u[b].kind = t[b].kind /\ d[b] = c[b]
  BY DEF Pends, Keeps
<1>2. PICK item \in (Names \cup Keys) \X Blocks :
        IsNew(t, c, b, item) /\ list = AddItem(t[b].kind, c[b], item)
  BY DEF Pends
<1>3. item[2] \in Blocks /\ u[item[2]].kind \in {"file", "dir"}
  <2>1. item[2] \in Blocks /\ t[item[2]].kind \in {"file", "dir"}
    BY <1>2 DEF IsNew
  <2>2. item[2] \in Live(t)
    BY <2>1 DEF Live
  <2> QED BY <2>1, <2>2 DEF Keeps
<1>4. NoEntryFor(t, c, item[2]) => NoEntryFor(u, d, item[2])
  BY KeepsEntry DEF NoEntryFor
<1>5. IsNew(u, d, b, item)
  BY <1>1, <1>2, <1>3, <1>4 DEF IsNew
<1> QED BY <1>1, <1>2, <1>5 DEF Pends

LEMMA KeepsFound ==
  ASSUME NEW t, NEW c, NEW u, NEW d, NEW S, NEW R, Found(t, c, S),
         c[Catalog].items \subseteq d[Catalog].items,
         \A p \in S : p \in R \/ p \in d[Catalog].items,
         \A b \in Live(u), k \in Keys \ CreateKeys :
           Has(u[b], k) => <<k, b>> \in R \/ (b \in Live(t) /\ Has(t[b], k))
  PROVE  Found(u, d, R)
<1> SUFFICES ASSUME NEW b \in Live(u), NEW k \in Keys \ CreateKeys, Has(u[b], k)
             PROVE  <<k, b>> \in R \/ <<k, b>> \in d[Catalog].items
  BY DEF Found
<1>1. <<k, b>> \in R \/ (b \in Live(t) /\ Has(t[b], k))
  OBVIOUS
<1>2. b \in Live(t) /\ Has(t[b], k) => <<k, b>> \in S \/ <<k, b>> \in c[Catalog].items
  BY DEF Found
<1> QED BY <1>1, <1>2

\* One list gains its new entry.
Gains(t, c, u, d, b, list) ==
  /\ Live(u) = Live(t)
  /\ \A a \in Live(t) :
       /\ u[a].kind = t[a].kind
       /\ a # b /\ t[a].kind \in ListKinds =>
            u[a].size = t[a].size /\ u[a].chunks = t[a].chunks /\ d[a] = c[a]
  /\ d[b] = list

LEMMA GainsReadable ==
  ASSUME NEW t, NEW c, NEW u, NEW d, NEW b, NEW list, Gains(t, c, u, d, b, list),
         AllReadable(t, c, {})
  PROVE  AllReadable(u, d, {b})
  BY DEF Gains, AllReadable, Readable

LEMMA GainsNamed ==
  ASSUME NEW t, NEW c, NEW u, NEW d, NEW b, NEW list, Gains(t, c, u, d, b, list),
         Pends(t, c, b, list), Named(t, c)
  PROVE  Named(u, d)
<1>1. PICK item \in (Names \cup Keys) \X Blocks :
        IsNew(t, c, b, item) /\ list = AddItem(t[b].kind, c[b], item)
  BY DEF Pends
<1> SUFFICES ASSUME NEW a \in Live(u), u[a].kind \in ListKinds, NEW e \in d[a].items
             PROVE  e[2] \in Blocks /\ u[e[2]].kind \in {"file", "dir"}
  BY DEF Named
<1>2. a \in Live(t) /\ t[a].kind \in ListKinds
  BY DEF Gains
<1>3. e \in c[a].items \/ e = item
  BY <1>1, <1>2, AddItemFields DEF Gains
<1>4. e[2] \in Blocks /\ t[e[2]].kind \in {"file", "dir"}
  BY <1>1, <1>2, <1>3 DEF Named, IsNew
<1>5. e[2] \in Live(t)
  BY <1>4 DEF Live
<1> QED BY <1>4, <1>5 DEF Gains

LEMMA GainsApart ==
  ASSUME NEW t, NEW c, NEW u, NEW d, NEW b, NEW list, Gains(t, c, u, d, b, list),
         Pends(t, c, b, list), Apart(t, c)
  PROVE  Apart(u, d)
<1>1. PICK item \in (Names \cup Keys) \X Blocks :
        IsNew(t, c, b, item) /\ list = AddItem(t[b].kind, c[b], item)
  BY DEF Pends
<1>2. ASSUME NEW a \in Live(u), u[a].kind = "dir", NEW e \in d[a].items
      PROVE  a \in Live(t) /\ t[a].kind = "dir" /\ (e \in c[a].items \/ (a = b /\ e = item))
  BY <1>1, <1>2, AddItemFields DEF Gains, ListKinds
<1>3. ASSUME NEW a \in Live(u), u[a].kind = "dir", NEW e \in c[a].items, t[b].kind = "dir"
      PROVE  e[2] # item[2]
  BY <1>1, <1>3 DEF IsNew, NoEntryFor, Gains
<1> SUFFICES ASSUME NEW x \in Live(u), NEW y \in Live(u), u[x].kind = "dir", u[y].kind = "dir",
                    NEW e \in d[x].items, NEW f \in d[y].items, e[2] = f[2]
             PROVE  x = y /\ e = f
  BY DEF Apart
<1>4. x \in Live(t) /\ t[x].kind = "dir" /\ (e \in c[x].items \/ (x = b /\ e = item))
  BY <1>2
<1>5. y \in Live(t) /\ t[y].kind = "dir" /\ (f \in c[y].items \/ (y = b /\ f = item))
  BY <1>2
<1>6. CASE e \in c[x].items /\ f \in c[y].items
  BY <1>4, <1>5, <1>6 DEF Apart
<1>7. CASE e \in c[x].items /\ y = b /\ f = item
  BY <1>3, <1>5, <1>7
<1>8. CASE x = b /\ e = item /\ f \in c[y].items
  BY <1>3, <1>4, <1>8
<1> QED BY <1>4, <1>5, <1>6, <1>7, <1>8

\* Where a list is, and what writing another block leaves of it.
LEMMA FirstBlock ==
  ASSUME NEW t \in Tables, NEW b \in Live(t), t[b].chunks # << >>
  PROVE  t[b].chunks[1] \in Blocks /\ <<t[b].chunks[1], b, "data", 1>> \in AllPlaces(t)
<1>1. b \in Blocks /\ t[b] \in InodeType
  BY LiveIs DEF Tables
<1>2. t[b].chunks \in Seq(Blocks)
  BY <1>1, InodeFields
<1>3. 1 \in DOMAIN t[b].chunks /\ t[b].chunks[1] \in Blocks
  BY <1>2
<1>4. <<t[b].chunks[1], b, "data", 1>> \in Places(b, t[b])
  BY <1>3 DEF Places
<1> QED BY <1>3, <1>4, PlaceOfLive

LEMMA ListElsewhere ==
  ASSUME NEW n, NEW L, NEW M, n.chunks # << >> => M[n.chunks[1]] = L[n.chunks[1]]
  PROVE  ListIn(n, M) = ListIn(n, L)
  BY DEF ListIn
--------------------------------------------------------------------------------
\* The invariant.  An operation that writes a list has it on the device before the inode
\* that says how long it is: in between, the list is what the operation has written, and
\* the inode does not count.

Writing == pc = "write_inode" /\ out # NoList
Lists == Held(View, lists)
Contents == IF Writing THEN [Lists EXCEPT ![id] = out] ELSE Lists
Unsized == IF Writing THEN {id} ELSE {}

\* The attribute that is being set, until the catalog has it.
EarlyPoints ==
  {"attr_free", "attr_free_super", "attr_store", "attr_store_bitmap", "attr_store_super",
   "attr_inode", "attr_catalog"}
BeingSet ==
  IF pc \in EarlyPoints \/ (pc = "write_block" /\ task.kind = "attribute")
    THEN {<<task.key, task.target>>}
    ELSE {}

Listed ==
  /\ AllReadable(View, Contents, Unsized)
  /\ Named(View, Contents)
  /\ Apart(View, Contents)
  /\ Found(View, Contents, BeingSet)
  /\ View[Catalog].kind = "system"

CreatePoints == {"create_inode", "create_bitmap", "create_super", "create_end", "write_begin"}
Pending ==
  /\ pc \in CreatePoints /\ task.kind = "entry" => Pends(View, Contents, task.target, out)
  /\ pc = "write_block" /\ out # NoList => Pends(View, Contents, id, out) /\ idx = 1

WritePoints == {"write_block", "write_inode"}
Half ==
  /\ Writing => /\ node.kind = out.of /\ node.kind \in ListKinds /\ out.len > 0
                /\ node.chunks # << >> /\ lists[node.chunks[1]] = out
  /\ pc \in WritePoints /\ out = NoList => node.kind = "file"
  /\ pc \in EarlyPoints => id = task.target /\ node.kind \in {"file", "dir"}
  /\ pc \in WritePoints /\ task.kind = "attribute" =>
       id = Catalog /\ <<task.key, task.target>> \in out.items

Sound == Listed /\ Pending /\ Half

LEMMA PrimedLists == Lists' = Held(View', lists')
  BY DEF Lists, Held

LEMMA PrimedListed ==
  ASSUME NEW c, Contents' = c, NEW s, Unsized' = s, NEW r, BeingSet' = r,
         AllReadable(View', c, s), Named(View', c), Apart(View', c), Found(View', c, r),
         View'[Catalog].kind = "system"
  PROVE  Listed'
  BY DEF Listed, AllReadable, Named, Apart, Found, Live

LEMMA PrimedPends ==
  ASSUME NEW c, Contents' = c
  PROVE  /\ Pends(View', c, id', out') => Pends(View, Contents, id, out)'
         /\ Pends(View', c, task'.target, out') => Pends(View, Contents, task.target, out)'
  BY DEF Pends, IsNew, NoEntryFor, Live

LEMMA QuietContents ==
  /\ ~Writing => Contents = Lists /\ Unsized = {}
  /\ (~Writing)' => Contents' = Lists' /\ Unsized' = {}
  BY DEF Contents, Unsized

\* A step that leaves every list where it is.
LEMMA QuietSound ==
  ASSUME Sound, Catalog \in Live(View), ~Writing, (~Writing)',
         Keeps(View, Lists, View', Lists'),
         \A p \in BeingSet : p \in BeingSet',
         \A b \in Live(View'), k \in Keys \ CreateKeys :
           Has(View'[b], k) => <<k, b>> \in BeingSet' \/ (b \in Live(View) /\ Has(View[b], k))
  PROVE  /\ Listed'
         /\ \A b, list : Pends(View, Lists, b, list) => Pends(View', Lists', b, list)
         /\ Contents = Lists /\ Contents' = Lists'
<1>1. Contents = Lists /\ Unsized = {} /\ Contents' = Lists' /\ Unsized' = {}
  BY QuietContents
<1>2. /\ AllReadable(View, Lists, {}) /\ Named(View, Lists) /\ Apart(View, Lists)
      /\ Found(View, Lists, BeingSet) /\ View[Catalog].kind = "system"
  BY <1>1 DEF Sound, Listed
<1>3. AllReadable(View', Lists', {})
  BY <1>2, KeepsReadable
<1>4. Named(View', Lists')
  BY <1>2, KeepsNamed
<1>5. Apart(View', Lists')
  BY <1>2, KeepsApart
<1>6. View'[Catalog].kind = "system" /\ Lists'[Catalog] = Lists[Catalog]
  BY <1>2 DEF Keeps, ListKinds
<1>7. Found(View', Lists', BeingSet')
  BY <1>2, <1>6, KeepsFound
<1>8. Listed'
  BY <1>1, <1>3, <1>4, <1>5, <1>6, <1>7, PrimedListed
<1>9. \A b, list : Pends(View, Lists, b, list) => Pends(View', Lists', b, list)
  BY KeepsPends
<1> QED BY <1>1, <1>8, <1>9

\* ... because it changes neither inodes nor lists.
LEMMA SameKeeps ==
  ASSUME NEW t, NEW c
  PROVE  Keeps(t, c, t, c)
  BY DEF Keeps

LEMMA StillSound ==
  ASSUME Sound, Catalog \in Live(View), ~Writing, (~Writing)', View' = View, UNCHANGED lists,
         \A p \in BeingSet : p \in BeingSet'
  PROVE  /\ Listed'
         /\ \A b, list : Pends(View, Lists, b, list) => Pends(View', Lists', b, list)
         /\ Contents = Lists /\ Contents' = Lists'
<1>1. Lists' = Lists
  BY DEF Lists, Held
<1>2. Keeps(View, Lists, View', Lists')
  BY <1>1, SameKeeps
<1>3. \A b \in Live(View'), k \in Keys \ CreateKeys :
        Has(View'[b], k) => <<k, b>> \in BeingSet' \/ (b \in Live(View) /\ Has(View[b], k))
  OBVIOUS
<1> QED BY <1>2, <1>3, QuietSound

\* ... because the block it writes is of no list, and the inode it changes keeps its own.
LEMMA WriteKeeps ==
  ASSUME NEW t \in Tables, NEW u \in Tables, NEW L, NEW M, NEW b,
         \A a \in Live(t) : t[a].kind \in ListKinds /\ t[a].chunks # << >> =>
            M[t[a].chunks[1]] = L[t[a].chunks[1]],
         Live(u) = Live(t), \A a \in Live(t) : a # b => u[a] = t[a],
         u[b].kind = t[b].kind,
         t[b].kind \in ListKinds => u[b].chunks = t[b].chunks /\ u[b].size = t[b].size
  PROVE  Keeps(t, Held(t, L), u, Held(u, M))
<1> SUFFICES ASSUME NEW a \in Live(t), t[a].kind \in ListKinds
             PROVE  /\ Held(u, M)[a] = Held(t, L)[a]
                    /\ Readable(t[a], Held(t, L)[a]) => Readable(u[a], Held(u, M)[a])
  BY DEF Keeps
<1>1. u[a].kind = t[a].kind /\ u[a].size = t[a].size /\ u[a].chunks = t[a].chunks
  OBVIOUS
<1>2. a \in Blocks
  BY LiveIs
<1>3. ListIn(t[a], M) = ListIn(t[a], L)
  BY ListElsewhere
<1>4. ListIn(u[a], M) = ListIn(t[a], M)
  BY <1>1 DEF ListIn
<1>5. Held(u, M)[a] = Held(t, L)[a]
  BY <1>2, <1>3, <1>4 DEF Held
<1> QED BY <1>1, <1>5 DEF Readable

\* What is not the first block of a list: one that is free, one that holds an inode, one
\* of another inode.
LEMMA NotItsFirst ==
  ASSUME Typed, Consistent, NEW x, NEW a \in Live(View), View[a].chunks # << >>,
         \/ x \notin Used
         \/ x \in Live(View)
         \/ \E b, i : b # a /\ <<x, b, "data", i>> \in AllPlaces(View)
  PROVE  View[a].chunks[1] # x
<1> SUFFICES ASSUME View[a].chunks[1] = x PROVE FALSE
  OBVIOUS
<1> DEFINE p == <<x, a, "data", 1>>
<1>1. p \in AllPlaces(View) /\ p[1] = x
  BY ViewTable, FirstBlock
<1>2. \A q \in AllPlaces(View) : q[1] = x => p = q
  BY <1>1 DEF Consistent, Exact, Unshared
<1>3. x \in Used
  BY <1>1, ExactIsUsed DEF Consistent
<1>4. x \notin Live(View)
  <2> SUFFICES ASSUME x \in Live(View) PROVE FALSE
    OBVIOUS
  <2>1. <<x, x, "inode", 0>> \in AllPlaces(View) /\ <<x, x, "inode", 0>>[1] = x
    BY LiveIsUsed
  <2>2. p = <<x, x, "inode", 0>>
    BY <1>2, <2>1
  <2> QED BY <2>2
<1>5. ASSUME NEW b, NEW i, b # a, <<x, b, "data", i>> \in AllPlaces(View)
      PROVE  FALSE
  <2>1. p = <<x, b, "data", i>>
    BY <1>2, <1>5
  <2> QED BY <2>1, <1>5
<1> QED BY <1>3, <1>4, <1>5

--------------------------------------------------------------------------------
\* The steps that change neither inodes nor lists.

\* Where nothing is asked of the operation.
LEMMA RestSound ==
  ASSUME Listed', pc' \notin CreatePoints \cup WritePoints \cup EarlyPoints
  PROVE  Sound'
  BY DEF Sound, Pending, Half, CreatePoints, WritePoints, EarlyPoints, Writing

LEMMA NotWriting == pc \notin WritePoints => ~Writing
  BY DEF Writing, WritePoints

LEMMA ViewStays ==
  ASSUME Typed, UNCHANGED inodes, ~InTransaction \/ inodes[id] = node,
         (~InTransaction)' \/ (id' \in Blocks /\ node' = inodes[id'])
  PROVE  View' = View
<1>1. View = inodes /\ inodes \in Tables
  BY ViewTable
<1>2. View' = inodes \/ (id' \in Blocks /\ View' = [inodes EXCEPT ![id'] = inodes[id']])
  BY DEF View
<1> QED BY <1>1, <1>2 DEF Tables

LEMMA EndsSound ==
  ASSUME Typed, Typed', Consistent, Sound, UNCHANGED <<device, memory>>,
         \/ pc \in {"create_end", "write_end", "attr_end"} /\ Return
         \/ pc = "create_end" /\ pc' = "write_begin" /\ task.kind = "entry" /\ UNCHANGED locals
         \/ pc = "write_end" /\ pc' = "attr_bitmap" /\ UNCHANGED locals
  PROVE  Sound'
<1>1. /\ pc \in {"create_end", "write_end", "attr_end"}
      /\ pc' \in {"idle", "write_begin", "attr_bitmap"}
      /\ inodes' = inodes /\ lists' = lists
  BY DEF Return, device
<1>2. inodes[id] = node /\ Catalog \in Live(View)
  BY <1>1 DEF Consistent, Stored
<1>3. (~InTransaction)' \/ (id' = id /\ node' = node)
  BY <1>1 DEF InTransaction, Return, locals
<1>4. View' = View
  BY <1>1, <1>2, <1>3, ViewStays DEF Typed, TypeOK
<1>5. ~Writing /\ (~Writing)' /\ BeingSet = {}
  BY <1>1 DEF Writing, BeingSet, EarlyPoints
<1>6. /\ Listed' /\ Contents = Lists /\ Contents' = Lists'
      /\ \A b, list : Pends(View, Lists, b, list) => Pends(View', Lists', b, list)
  BY <1>1, <1>2, <1>4, <1>5, StillSound
<1>7. CASE pc' # "write_begin"
  BY <1>1, <1>6, <1>7, RestSound DEF CreatePoints, WritePoints, EarlyPoints
<1>8. CASE pc' = "write_begin"
  <2>1. pc = "create_end" /\ task.kind = "entry" /\ task' = task /\ out' = out
    BY <1>1, <1>8 DEF Return, locals
  <2>2. Pends(View, Lists, task.target, out)
    BY <1>6, <2>1 DEF Sound, Pending, CreatePoints
  <2>3. Pends(View', Lists', task'.target, out')
    BY <1>6, <2>1, <2>2
  <2>4. Pending'
    BY <1>6, <1>8, <2>3, PrimedPends DEF Pending
  <2>5. Half'
    BY <1>8 DEF Half, Writing, WritePoints, EarlyPoints
  <2> QED BY <1>6, <2>4, <2>5 DEF Sound
<1> QED BY <1>7, <1>8

LEMMA SyncSound ==
  ASSUME Typed, Consistent, Sound, SyncMetadata
  PROVE  Sound'
<1>1. /\ inodes' = inodes /\ lists' = lists /\ id' = id /\ node' = node /\ task' = task
      /\ out' = out
  BY DEF SyncMetadata, SaveBitmap, SaveSuperblock, memory, locals
<1>2. InTransaction /\ InTransaction'
  BY DEF SyncMetadata, SaveBitmap, SaveSuperblock, InTransaction
<1>3. View' = View /\ Catalog \in Live(View)
  BY <1>1, <1>2 DEF View, Consistent
<1>4. /\ pc \notin WritePoints /\ pc' \notin WritePoints
      /\ pc' \in CreatePoints => pc \in CreatePoints
      /\ pc' \in EarlyPoints <=> pc \in EarlyPoints
  BY DEF SyncMetadata, SaveBitmap, SaveSuperblock, WritePoints, CreatePoints, EarlyPoints
<1>5. ~Writing /\ (~Writing)' /\ BeingSet' = BeingSet
  BY <1>1, <1>4 DEF Writing, BeingSet, WritePoints
<1>6. /\ Listed' /\ Contents = Lists /\ Contents' = Lists'
      /\ \A b, list : Pends(View, Lists, b, list) => Pends(View', Lists', b, list)
  BY <1>1, <1>3, <1>5, StillSound
<1>7. Pending'
  <2>1. pc' \in CreatePoints /\ task'.kind = "entry" => Pends(View', Lists', task'.target, out')
    BY <1>1, <1>4, <1>6 DEF Sound, Pending
  <2> QED BY <1>4, <1>6, <2>1, PrimedPends DEF Pending, WritePoints
<1>8. Half'
  BY <1>1, <1>4, <1>5 DEF Half, Sound
<1> QED BY <1>6, <1>7, <1>8 DEF Sound

LEMMA WriteDataSound ==
  ASSUME Typed, Typed', Consistent, Sound,
         NEW target \in Known({"file"}), NEW n \in 1 .. MaxFileBlocks, WriteData(target, n)
  PROVE  Sound'
<1>1. /\ pc = "idle" /\ pc' = "write_block" /\ inodes' = inodes /\ lists' = lists
      /\ id' = target /\ node' = inodes[target] /\ out' = NoList /\ task'.kind = "write"
      /\ node'.kind = "file"
  BY DEF WriteData, StartOp, BeginWrite, device, NoTask, Known
<1>2. View' = View /\ Catalog \in Live(View)
  BY <1>1, ViewStays DEF InTransaction, Typed, TypeOK, Consistent
<1>3. ~Writing /\ (~Writing)' /\ BeingSet = {}
  BY <1>1 DEF Writing, BeingSet, EarlyPoints
<1>4. Listed'
  BY <1>1, <1>2, <1>3, StillSound
<1>5. Pending' /\ Half'
  BY <1>1 DEF Pending, Half, CreatePoints, EarlyPoints, Writing
<1> QED BY <1>4, <1>5 DEF Sound

LEMMA NoListIsNone ==
  ASSUME NEW t, NEW c, NEW b, Pends(t, c, b, NoList)
  PROVE  FALSE
<1>1. \E item : NoList = AddItem(t[b].kind, c[b], item) /\ t[b].kind \in ListKinds
  BY DEF Pends
<1> QED BY <1>1, NoListFields, AddItemFields DEF ListKinds

LEMMA WriteEntriesSound ==
  ASSUME Typed, Typed', Consistent, Sound, WriteEntries
  PROVE  Sound'
<1>1. /\ pc = "write_begin" /\ pc' = "write_block" /\ inodes' = inodes /\ lists' = lists
      /\ id' = task.target /\ node' = inodes[id'] /\ out' = out /\ task' = task /\ idx' = 1
      /\ task.kind = "entry"
  BY DEF WriteEntries, BeginWrite, device, Typed, TaskOK
<1>2. View' = View /\ Catalog \in Live(View)
  BY <1>1, ViewStays DEF InTransaction, Typed, TypeOK, Consistent
<1>3. ~Writing /\ (~Writing)' /\ BeingSet = {}
  BY <1>1 DEF Writing, BeingSet, EarlyPoints
<1>4. /\ Listed' /\ Contents = Lists /\ Contents' = Lists'
      /\ \A b, list : Pends(View, Lists, b, list) => Pends(View', Lists', b, list)
  BY <1>1, <1>2, <1>3, StillSound
<1>5. Pends(View, Lists, task.target, out)
  BY <1>1, <1>4 DEF Sound, Pending, CreatePoints
<1>6. Pends(View', Lists', id', out') /\ out' # NoList
  BY <1>1, <1>4, <1>5, NoListIsNone
<1>7. Pending'
  BY <1>1, <1>4, <1>6, PrimedPends DEF Pending, CreatePoints
<1>8. Half'
  BY <1>1, <1>6 DEF Half, Writing, WritePoints, EarlyPoints
<1> QED BY <1>4, <1>7, <1>8 DEF Sound

LEMMA SetAttributeSound ==
  ASSUME Typed, Typed', Consistent, Sound, NEW target \in Known({"file", "dir"}), NEW key \in Keys,
         NEW n \in 0 .. MaxLargeBlocks, SetAttribute(target, key, n)
  PROVE  Sound'
<1>1. /\ pc = "idle" /\ pc' \in {"attr_free", "attr_store", "attr_inode"}
      /\ inodes' = inodes /\ lists' = lists
      /\ id' = target /\ node' = inodes[target] /\ task'.target = target
      /\ node'.kind \in {"file", "dir"}
  BY DEF SetAttribute, StartOp, device, Known
<1>2. View' = View /\ Catalog \in Live(View)
  BY <1>1, ViewStays DEF InTransaction, Typed, TypeOK, Consistent
<1>3. ~Writing /\ (~Writing)' /\ BeingSet = {}
  BY <1>1 DEF Writing, BeingSet, EarlyPoints
<1>4. Listed'
  BY <1>1, <1>2, <1>3, StillSound
<1>5. Pending' /\ Half'
  BY <1>1 DEF Pending, Half, CreatePoints, WritePoints, Writing
<1> QED BY <1>4, <1>5 DEF Sound

\* The catalog is written next: its new entry names the inode the operation works on.
LEMMA UpdateCatalogSound ==
  ASSUME Typed, Typed', Consistent, Sound, UpdateCatalog
  PROVE  Sound'
<1> DEFINE item == <<task.key, task.target>>
<1>1. /\ pc = "attr_catalog" /\ pc' = "write_block" /\ inodes' = inodes /\ lists' = lists
      /\ id' = Catalog /\ node' = inodes[Catalog] /\ task' = task /\ idx' = 1
      /\ out' = AddItem("system", ListOf(inodes[Catalog]), item)
      /\ task.kind = "attribute" /\ task.key \in Keys /\ task.target \in Blocks
  BY DEF UpdateCatalog, BeginWrite, device, Typed, TaskOK, AttributePoints
<1>2. View = inodes /\ View' = View /\ Catalog \in Live(View) /\ Catalog \in Blocks
  BY <1>1, ViewTable, ViewStays, BlockNumbers DEF Consistent, Stored
<1>3. ~Writing /\ (~Writing)' /\ BeingSet' = BeingSet
  BY <1>1 DEF Writing, BeingSet, EarlyPoints
<1>4. /\ Listed' /\ Contents = Lists /\ Contents' = Lists'
      /\ \A b, list : Pends(View, Lists, b, list) => Pends(View', Lists', b, list)
  BY <1>1, <1>2, <1>3, StillSound
<1>5. View'[Catalog].kind = "system" /\ Lists'[Catalog] = ListOf(inodes[Catalog])
  <2>1. Lists[Catalog] = ListOf(inodes[Catalog])
    BY <1>2 DEF Lists, Held, ListIn, ListOf
  <2>2. Lists' = Lists
    BY <1>1, <1>2 DEF Lists, Held
  <2> QED BY <1>2, <2>1, <2>2 DEF Sound, Listed
<1>6. item[2] \in Blocks /\ View'[item[2]].kind \in {"file", "dir"}
  <2>1. id = task.target /\ node.kind \in {"file", "dir"} /\ inodes[id] = node
    BY <1>1 DEF Sound, Half, EarlyPoints, Consistent, Stored
  <2> QED BY <1>1, <1>2, <2>1
<1>7. item \in (Names \cup Keys) \X Blocks
  BY <1>1
<1> HIDE DEF item
<1>8. Pends(View', Lists', Catalog, out')
  <2>1. IsNew(View', Lists', Catalog, item)
    BY <1>5, <1>6 DEF IsNew
  <2> QED BY <1>1, <1>2, <1>5, <1>7, <2>1 DEF Pends, ListKinds
<1>9. out' # NoList /\ item \in out'.items
  BY <1>1, <1>8, NoListIsNone, AddItemFields
<1>10. Pending'
  BY <1>1, <1>4, <1>8, PrimedPends DEF Pending, CreatePoints
<1>11. Half'
  BY <1>1, <1>9 DEF Half, Writing, WritePoints, EarlyPoints, item
<1> QED BY <1>4, <1>10, <1>11 DEF Sound

LEMMA CrashSound ==
  ASSUME Typed, Consistent, Sound, Crash, ~torn'
  PROVE  Sound'
<1>1. pc \in {"idle", "write_begin"} /\ pc' = "down" /\ inodes' = inodes /\ lists' = lists
  BY DEF Crash, InTransaction, device
<1>2. View' = View /\ Catalog \in Live(View)
  BY <1>1, ViewStays DEF InTransaction, Consistent
<1>3. ~Writing /\ (~Writing)' /\ BeingSet = {}
  BY <1>1 DEF Writing, BeingSet, EarlyPoints
<1>4. Listed'
  BY <1>1, <1>2, <1>3, StillSound
<1> QED BY <1>1, <1>4, RestSound DEF CreatePoints, WritePoints, EarlyPoints

LEMMA MountSound ==
  ASSUME Typed, Consistent, Sound, Mount
  PROVE  Sound'
<1>1. pc = "down" /\ pc' = "idle" /\ inodes' = inodes /\ lists' = lists
  BY DEF Mount, device
<1>2. View' = View /\ Catalog \in Live(View)
  BY <1>1, ViewStays DEF InTransaction, Consistent
<1>3. ~Writing /\ (~Writing)' /\ BeingSet = {}
  BY <1>1 DEF Writing, BeingSet, EarlyPoints
<1>4. Listed'
  BY <1>1, <1>2, <1>3, StillSound
<1> QED BY <1>1, <1>4, RestSound DEF CreatePoints, WritePoints, EarlyPoints

--------------------------------------------------------------------------------
\* The steps that write a block or change the inode, and leave every list as it is.

\* The table after such a step.
LEMMA WorkedTable ==
  ASSUME Typed, Typed', Consistent, InTransaction, InTransaction', UNCHANGED id,
         node'.kind = node.kind,
         \A a \in Blocks : a # id =>
           inodes'[a] = inodes[a] \/ (a \notin Live(View) /\ inodes'[a].kind = "none")
  PROVE  /\ View \in Tables /\ View' \in Tables
         /\ Live(View') = Live(View)
         /\ id \in Live(View) /\ View[id] = node /\ View'[id] = node'
         /\ \A a \in Live(View) : a # id => View'[a] = View[a]
<1>1. /\ View \in Tables /\ inodes \in Tables /\ View = [inodes EXCEPT ![id] = node]
      /\ id \in Live(View) /\ View[id] = node /\ id \in Blocks
  BY ViewTable, WorkingInode DEF Typed, TypeOK
<1>2. inodes' \in Tables /\ node' \in InodeType
  BY DEF Typed, TypeOK, Tables
<1>3. View' = [inodes' EXCEPT ![id] = node']
  BY DEF View
<1>4. View' \in Tables /\ View'[id] = node' /\ \A a \in Blocks : a # id => View'[a] = inodes'[a]
  BY <1>1, <1>2, <1>3 DEF Tables
<1>5. \A a \in Blocks : a # id => View[a] = inodes[a]
  BY <1>1 DEF Tables
<1>6. \A a \in Blocks : a \in Live(View') <=> a \in Live(View)
  <2> SUFFICES ASSUME NEW a \in Blocks PROVE a \in Live(View') <=> a \in Live(View)
    OBVIOUS
  <2>1. CASE a = id
    BY <1>1, <1>4, <2>1, LiveIs
  <2>2. CASE a # id
    BY <1>4, <1>5, <2>2, LiveIs
  <2> QED BY <2>1, <2>2
<1>7. \A a \in Live(View) : a # id => View'[a] = View[a]
  <2> SUFFICES ASSUME NEW a \in Live(View), a # id PROVE View'[a] = View[a]
    OBVIOUS
  <2>1. a \in Blocks /\ View'[a].kind # "none"
    BY <1>6, LiveIs
  <2> QED BY <1>4, <1>5, <2>1
<1>8. Live(View') = Live(View)
  BY <1>6 DEF Live
<1> QED BY <1>1, <1>4, <1>7, <1>8

\* The block written is of no list.
LEMMA WorkedKeeps ==
  ASSUME Typed, Typed', Consistent, InTransaction, InTransaction', UNCHANGED id,
         node'.kind = node.kind,
         node.kind \in ListKinds => node'.chunks = node.chunks /\ node'.size = node.size,
         NEW x, NEW list,
         \/ x \notin Used
         \/ x \in Live(View)
         \/ node.kind = "file" /\ \E i : <<x, id, "data", i>> \in AllPlaces(View),
         lists' = [lists EXCEPT ![x] = list],
         \A a \in Blocks : a # id =>
           inodes'[a] = inodes[a] \/ (a \notin Live(View) /\ inodes'[a].kind = "none")
  PROVE  Keeps(View, Lists, View', Lists')
<1>1. /\ View \in Tables /\ View' \in Tables
      /\ Live(View') = Live(View)
      /\ id \in Live(View) /\ View[id] = node /\ View'[id] = node'
      /\ \A a \in Live(View) : a # id => View'[a] = View[a]
  BY WorkedTable
<1>2. \A a \in Live(View) :
        View[a].kind \in ListKinds /\ View[a].chunks # << >> => View[a].chunks[1] # x
  BY <1>1, NotItsFirst DEF ListKinds
<1>3. \A a \in Live(View) :
        View[a].kind \in ListKinds /\ View[a].chunks # << >> =>
          lists'[View[a].chunks[1]] = lists[View[a].chunks[1]]
  <2>1. \A y \in Blocks : y # x => lists'[y] = lists[y]
    BY DEF Typed, TypeOK
  <2>2. \A a \in Live(View) : View[a].chunks # << >> => View[a].chunks[1] \in Blocks
    BY <1>1, FirstBlock
  <2> QED BY <1>2, <2>1, <2>2
<1>4. Keeps(View, Held(View, lists), View', Held(View', lists'))
  BY <1>1, <1>3, WriteKeeps
<1> QED BY <1>4, PrimedLists DEF Lists

\* What the inode has more is the attribute being set.
LEMMA WorkedSound ==
  ASSUME Typed, Typed', Consistent, Sound, InTransaction, InTransaction',
         UNCHANGED <<id, task, out>>,
         node'.kind = node.kind, ~Writing, (~Writing)',
         \A a \in Blocks : a # id =>
           inodes'[a] = inodes[a] \/ (a \notin Live(View) /\ inodes'[a].kind = "none"),
         Keeps(View, Lists, View', Lists'),
         \A p \in BeingSet : p \in BeingSet',
         \A k \in Keys \ CreateKeys : Has(node', k) => Has(node, k) \/ <<k, id>> \in BeingSet',
         pc' \in CreatePoints => pc \in CreatePoints,
         pc' \in EarlyPoints => pc \in EarlyPoints,
         pc' \in WritePoints => pc \in WritePoints /\ out = NoList
  PROVE  Sound'
<1>1. /\ Live(View') = Live(View)
      /\ id \in Live(View) /\ View[id] = node /\ View'[id] = node'
      /\ \A a \in Live(View) : a # id => View'[a] = View[a]
  BY WorkedTable
<1>2. \A b \in Live(View'), k \in Keys \ CreateKeys :
        Has(View'[b], k) => <<k, b>> \in BeingSet' \/ (b \in Live(View) /\ Has(View[b], k))
  <2> SUFFICES ASSUME NEW b \in Live(View'), NEW k \in Keys \ CreateKeys, Has(View'[b], k)
               PROVE  <<k, b>> \in BeingSet' \/ (b \in Live(View) /\ Has(View[b], k))
    OBVIOUS
  <2> QED BY <1>1
<1>3. Catalog \in Live(View)
  BY DEF Consistent
<1>4. /\ Listed' /\ Contents = Lists /\ Contents' = Lists'
      /\ \A b, list : Pends(View, Lists, b, list) => Pends(View', Lists', b, list)
  BY <1>2, <1>3, QuietSound
<1>5. Pending'
  <2>1. pc' \in CreatePoints /\ task'.kind = "entry" => Pends(View', Lists', task'.target, out')
    BY <1>4 DEF Sound, Pending
  <2>2. ~(pc' = "write_block" /\ out' # NoList)
    BY DEF WritePoints
  <2> QED BY <1>4, <2>1, <2>2, PrimedPends DEF Pending
<1>6. Half'
  BY DEF Half, Sound
<1> QED BY <1>4, <1>5, <1>6 DEF Sound

LEMMA FreeOldSound ==
  ASSUME Typed, Typed', Consistent, Sound, FreeOld
  PROVE  Sound'
<1>1. /\ pc = "attr_free" /\ pc' = "attr_free_super" /\ UNCHANGED <<inodes, lists, id, task, out, idx>>
      /\ node' = [node EXCEPT !.large[task.key] = << >>]
  BY DEF FreeOld
<1>2. task.key \in Keys /\ node \in InodeType /\ << >> \in Seq(Blocks)
  BY <1>1, EmptySeq DEF Typed, TypeOK, TaskOK, AttributePoints
<1>3. /\ node'.kind = node.kind /\ node'.chunks = node.chunks
      /\ node'.large = [node.large EXCEPT ![task.key] = << >>]
  BY <1>1, <1>2, SetLarge
<1>4. node'.size = node.size /\ node'.small = node.small
  BY <1>1, <1>2 DEF InodeType
<1>5. InTransaction /\ InTransaction' /\ ~Writing /\ (~Writing)' /\ BeingSet' = BeingSet
  BY <1>1 DEF InTransaction, Writing, BeingSet, EarlyPoints
<1>6. id \in Live(View) /\ lists' = [lists EXCEPT ![id] = lists[id]]
  BY <1>1, <1>5, WorkingInode DEF Typed, TypeOK
<1>7. Keeps(View, Lists, View', Lists')
  BY <1>1, <1>3, <1>4, <1>5, <1>6, WorkedKeeps
<1>8. \A k \in Keys : Has(node', k) => Has(node, k)
  BY <1>2, <1>3, <1>4, InodeFields DEF Has
<1> QED BY <1>1, <1>3, <1>5, <1>7, <1>8, WorkedSound DEF CreatePoints, WritePoints, EarlyPoints

\* A block is taken for the value: it was nobody's.
LEMMA StoreNewSound ==
  ASSUME Typed, Typed', Consistent, Sound, NEW b \in Blocks, StoreNew(b)
  PROVE  Sound'
<1> DEFINE new == Append(node.large[task.key], b)
<1>1. /\ pc = "attr_store" /\ pc' \in {"attr_store", "attr_store_bitmap"}
      /\ UNCHANGED <<id, task, out>> /\ b \notin bits
      /\ inodes' = [inodes EXCEPT ![b] = NoInode] /\ lists' = [lists EXCEPT ![b] = NoList]
      /\ node' = [node EXCEPT !.large[task.key] = new]
  BY DEF StoreNew, PutBlock, Take, IsLowestFree
<1>2. task.key \in Keys /\ node \in InodeType /\ task.kind = "attribute"
  BY <1>1 DEF Typed, TypeOK, TaskOK, AttributePoints
<1>3. new \in Seq(Blocks)
  BY <1>2, InodeFields
<1> HIDE DEF new
<1>4. /\ node'.kind = node.kind /\ node'.chunks = node.chunks
      /\ node'.large = [node.large EXCEPT ![task.key] = new]
  BY <1>1, <1>2, <1>3, SetLarge
<1>5. node'.size = node.size /\ node'.small = node.small
  BY <1>1, <1>2 DEF InodeType
<1>6. /\ InTransaction /\ InTransaction' /\ ~Writing /\ (~Writing)' /\ Used = bits
      /\ BeingSet' = BeingSet /\ BeingSet = {<<task.key, task.target>>} /\ id = task.target
  BY <1>1 DEF InTransaction, Writing, BeingSet, EarlyPoints, Used, Sound, Half
<1>7. b \notin Live(View) /\ b \notin Used
  BY <1>1, <1>6, ExactIsUsed DEF Consistent
<1>8. \A a \in Blocks : a # id =>
        inodes'[a] = inodes[a] \/ (a \notin Live(View) /\ inodes'[a].kind = "none")
  BY <1>1, <1>7, NewInodeTyped DEF Typed, TypeOK, NoInode
<1>9. Keeps(View, Lists, View', Lists')
  BY <1>1, <1>4, <1>5, <1>6, <1>7, <1>8, WorkedKeeps
<1>10. \A k \in Keys : Has(node', k) => Has(node, k) \/ <<k, id>> \in BeingSet'
  BY <1>2, <1>4, <1>5, <1>6, InodeFields DEF Has
<1> QED BY <1>1, <1>4, <1>6, <1>8, <1>9, <1>10, WorkedSound
        DEF CreatePoints, WritePoints, EarlyPoints

LEMMA FinalFields ==
  ASSUME Typed, pc \in {"create_inode", "write_inode", "attr_inode"}
  PROVE  /\ pc # "write_inode" => Final.size = node.size
         /\ pc = "write_inode" => Final.size = (LET extent == IF out = NoList THEN task.blocks ELSE out.len
                                                IN  IF extent > node.size THEN extent ELSE node.size)
         /\ pc # "attr_inode" => Final.small = node.small
         /\ pc = "attr_inode" => Final.small \subseteq node.small \cup {task.key}
<1>1. node \in InodeType
  BY DEF Typed, TypeOK
<1>2. CASE pc = "create_inode"
  BY <1>2 DEF Final
<1>3. CASE pc = "write_inode"
  BY <1>1, <1>3 DEF Final, InodeType
<1>4. CASE pc = "attr_inode"
  BY <1>1, <1>4 DEF Final, InodeType
<1> QED BY <1>2, <1>3, <1>4

\* An inode is written that is new, that has the attribute, or that is a file's.
LEMMA WriteInodeSound ==
  ASSUME Typed, Typed', Consistent, Sound, WriteInode, ~Writing
  PROVE  Sound'
<1>1. /\ pc \in {"create_inode", "write_inode", "attr_inode"}
      /\ pc = "create_inode" => pc' = "create_bitmap"
      /\ pc = "write_inode" => pc' = "write_bitmap"
      /\ pc = "attr_inode" => pc' = "attr_catalog"
      /\ UNCHANGED <<id, task, out, idx>>
      /\ inodes' = [inodes EXCEPT ![id] = Final] /\ lists' = [lists EXCEPT ![id] = NoList]
      /\ node' = Final
  BY DEF WriteInode, PutBlock
<1>2. node'.kind = node.kind /\ node'.chunks = node.chunks /\ node'.large = node.large
  BY <1>1, FinalTyped
<1>3. pc = "write_inode" => node.kind = "file"
  BY DEF Writing, Sound, Half, WritePoints
<1>4. node.kind \in ListKinds => node'.chunks = node.chunks /\ node'.size = node.size
  BY <1>1, <1>2, <1>3, FinalFields DEF ListKinds
<1>5. InTransaction /\ InTransaction' /\ (~Writing)'
  BY <1>1 DEF InTransaction, Writing
<1>6. id \in Live(View)
  BY <1>5, WorkingInode
<1>7. \A a \in Blocks : a # id => inodes'[a] = inodes[a]
  BY <1>1 DEF Typed, TypeOK
<1>8. Keeps(View, Lists, View', Lists')
  BY <1>1, <1>2, <1>4, <1>5, <1>6, <1>7, WorkedKeeps
<1>9. /\ pc = "attr_inode" => BeingSet' = BeingSet /\ <<task.key, id>> \in BeingSet'
      /\ pc # "attr_inode" => BeingSet = {}
  BY <1>1 DEF BeingSet, EarlyPoints, Sound, Half
<1>10. \A k \in Keys \ CreateKeys : Has(node', k) => Has(node, k) \/ <<k, id>> \in BeingSet'
  BY <1>1, <1>2, <1>9, FinalFields DEF Has
<1> QED BY <1>1, <1>2, <1>5, <1>7, <1>8, <1>9, <1>10, WorkedSound
        DEF CreatePoints, WritePoints, EarlyPoints

\* The inode of a list is written: from now on the list is what the device has.
LEMMA WriteListInodeSound ==
  ASSUME Typed, Typed', Consistent, Sound, WriteInode, Writing
  PROVE  Sound'
<1>1. /\ pc = "write_inode" /\ pc' = "write_bitmap" /\ out # NoList /\ UNCHANGED <<id, task, out>>
      /\ inodes' = [inodes EXCEPT ![id] = Final] /\ lists' = [lists EXCEPT ![id] = NoList]
      /\ node' = Final
  BY DEF WriteInode, PutBlock, Writing
<1>2. node'.kind = node.kind /\ node'.chunks = node.chunks /\ node'.large = node.large
  BY <1>1, FinalTyped
<1>3. /\ node'.size = (IF out.len > node.size THEN out.len ELSE node.size)
      /\ node'.small = node.small
  BY <1>1, FinalFields
<1>4. /\ node.kind = out.of /\ node.kind \in ListKinds /\ out.len > 0
      /\ node.chunks # << >> /\ lists[node.chunks[1]] = out
  BY DEF Sound, Half
<1>5. out.len \in Nat /\ node.size \in Nat
  BY InodeFields DEF Typed, TypeOK, ListType
<1>6. InTransaction /\ InTransaction' /\ (~Writing)' /\ BeingSet = {}
  BY <1>1 DEF InTransaction, Writing, BeingSet, EarlyPoints
<1>7. \A a \in Blocks : a # id => inodes'[a] = inodes[a]
  BY <1>1 DEF Typed, TypeOK
<1>8. /\ View \in Tables /\ View' \in Tables
      /\ Live(View') = Live(View)
      /\ id \in Live(View) /\ View[id] = node /\ View'[id] = node'
      /\ \A a \in Live(View) : a # id => View'[a] = View[a]
  BY <1>1, <1>2, <1>6, <1>7, WorkedTable
<1>9. \A a \in Live(View) : View[a].chunks # << >> =>
        lists'[View[a].chunks[1]] = lists[View[a].chunks[1]]
  <2> SUFFICES ASSUME NEW a \in Live(View), View[a].chunks # << >>
               PROVE  lists'[View[a].chunks[1]] = lists[View[a].chunks[1]]
    OBVIOUS
  <2>1. View[a].chunks[1] \in Blocks /\ View[a].chunks[1] # id
    BY <1>8, FirstBlock, NotItsFirst
  <2> QED BY <1>1, <2>1 DEF Typed, TypeOK
<1>10. Lists' = Held(View', lists') /\ Lists = Held(View, lists)
  BY PrimedLists DEF Lists
<1>11. \A a \in Live(View) : a # id => Lists'[a] = Lists[a]
  <2> SUFFICES ASSUME NEW a \in Live(View), a # id PROVE Lists'[a] = Lists[a]
    OBVIOUS
  <2>1. ListIn(View[a], lists') = ListIn(View[a], lists) /\ View'[a] = View[a] /\ a \in Blocks
    BY <1>8, <1>9, ListElsewhere, LiveIs
  <2> QED BY <1>10, <2>1 DEF Held
<1>12. Lists'[id] = out
  <2>1. lists'[node'.chunks[1]] = out /\ node'.chunks # << >> /\ node'.size # 0
    BY <1>2, <1>3, <1>4, <1>5, <1>8, <1>9
  <2> QED BY <1>8, <1>10, <2>1, LiveIs DEF Held, ListIn
<1>13. /\ Contents' = Lists' /\ Unsized' = {} /\ Unsized = {id}
       /\ Contents[id] = out /\ \A a \in Blocks : a # id => Contents[a] = Lists[a]
  BY <1>6, <1>8, <1>10, QuietContents, LiveIs DEF Contents, Unsized, Held
<1>14. Readable(View'[id], Lists'[id])
  BY <1>1, <1>2, <1>3, <1>4, <1>5, <1>8, <1>12 DEF Readable
<1>15. Keeps(View, Contents, View', Lists')
  <2> SUFFICES ASSUME NEW a \in Live(View), View[a].kind \in ListKinds
               PROVE  /\ View'[a].kind = View[a].kind /\ Lists'[a] = Contents[a]
                      /\ Readable(View[a], Contents[a]) => Readable(View'[a], Lists'[a])
    BY <1>2, <1>8 DEF Keeps
  <2>1. CASE a = id
    BY <1>2, <1>8, <1>12, <1>13, <1>14, <2>1
  <2>2. CASE a # id
    BY <1>8, <1>11, <1>13, <2>2, LiveIs
  <2> QED BY <2>1, <2>2
<1>16. /\ AllReadable(View, Contents, {id}) /\ Named(View, Contents) /\ Apart(View, Contents)
       /\ Found(View, Contents, {}) /\ View[Catalog].kind = "system" /\ Catalog \in Live(View)
  BY <1>6, <1>13 DEF Sound, Listed, Consistent
<1>17. AllReadable(View', Lists', {})
  BY <1>14, <1>15, <1>16, KeepsReadable
<1>18. Named(View', Lists') /\ Apart(View', Lists')
  BY <1>15, <1>16, KeepsNamed, KeepsApart
<1>19. View'[Catalog].kind = "system" /\ Lists'[Catalog] = Contents[Catalog]
  BY <1>15, <1>16 DEF Keeps, ListKinds
<1>20. \A b \in Live(View'), k \in Keys \ CreateKeys : Has(View'[b], k) => b \in Live(View) /\ Has(View[b], k)
  <2>1. \A k : Has(node', k) <=> Has(node, k)
    BY <1>2, <1>3 DEF Has
  <2> SUFFICES ASSUME NEW b \in Live(View'), NEW k, Has(View'[b], k)
               PROVE  b \in Live(View) /\ Has(View[b], k)
    OBVIOUS
  <2> QED BY <1>8, <2>1
<1>21. Found(View', Lists', {})
  BY <1>16, <1>19, <1>20, KeepsFound
<1>22. Listed'
  <2>1. BeingSet' = {}
    BY <1>1 DEF BeingSet, EarlyPoints
  <2> QED BY <1>13, <1>17, <1>18, <1>19, <1>21, <2>1, PrimedListed
<1> QED BY <1>1, <1>22, RestSound DEF CreatePoints, WritePoints, EarlyPoints

--------------------------------------------------------------------------------
\* A block is written: of a file's data, or the one block of a list.

OwnOrFree(x) == x \notin Used \/ \E i : <<x, id, "data", i>> \in AllPlaces(View)

LEMMA WritesBlock ==
  ASSUME Typed, Consistent, Overwrite \/ \E b \in Blocks : Extend(b)
  PROVE  \E x \in Blocks :
           /\ pc = "write_block" /\ pc' = (IF idx < Span THEN "write_block" ELSE "write_inode")
           /\ UNCHANGED <<id, task, out>> /\ idx' = idx + 1
           /\ inodes' = [inodes EXCEPT ![x] = NoInode] /\ lists' = [lists EXCEPT ![x] = out]
           /\ x \notin Live(View) /\ OwnOrFree(x)
           /\ node'.kind = node.kind /\ node'.small = node.small /\ node'.large = node.large
           /\ idx = 1 => node'.chunks # << >> /\ node'.chunks[1] = x
<1>1. node \in InodeType /\ node.chunks \in Seq(Blocks) /\ idx \in Nat \ {0}
  BY InodeFields DEF Typed, TypeOK
<1>2. CASE Overwrite
  <2> DEFINE x == node.chunks[idx]
  <2>1. /\ pc = "write_block" /\ pc' = (IF idx < Span THEN "write_block" ELSE "write_inode")
        /\ UNCHANGED <<id, task, out>> /\ idx' = idx + 1
        /\ inodes' = [inodes EXCEPT ![x] = NoInode] /\ lists' = [lists EXCEPT ![x] = out]
        /\ node' = node /\ idx \in DOMAIN node.chunks
    BY <1>2 DEF Overwrite, WriteBlock, PutBlock
  <2>2. x \in Blocks /\ node.chunks # << >>
    BY <1>1, <2>1
  <2>3. <<x, id, "data", idx>> \in AllPlaces(View)
    <3>1. <<x, id, "data", idx>> \in Places(id, node)
      BY <2>1 DEF Places
    <3>2. id \in Live(View) /\ View[id] = node
      BY <2>1, WorkingInode DEF InTransaction
    <3> QED BY <3>1, <3>2, PlaceOfLive
  <2>4. idx = 1 => node'.chunks[1] = x
    BY <2>1
  <2> HIDE DEF x
  <2>5. OwnOrFree(x)
    BY <2>3 DEF OwnOrFree
  <2>6. x \notin Live(View)
    <3> SUFFICES ASSUME x \in Live(View) PROVE FALSE
      OBVIOUS
    <3>1. <<x, x, "inode", 0>> \in AllPlaces(View)
      BY LiveIsUsed
    <3>2. <<x, x, "inode", 0>> = <<x, id, "data", idx>>
      BY <2>3, <3>1 DEF Consistent, Exact, Unshared
    <3> QED BY <3>2
  <2> QED BY <2>1, <2>2, <2>4, <2>5, <2>6
<1>3. ASSUME NEW x \in Blocks, Extend(x)
      PROVE  /\ pc = "write_block" /\ pc' = (IF idx < Span THEN "write_block" ELSE "write_inode")
             /\ UNCHANGED <<id, task, out>> /\ idx' = idx + 1
             /\ inodes' = [inodes EXCEPT ![x] = NoInode] /\ lists' = [lists EXCEPT ![x] = out]
             /\ x \notin Live(View) /\ OwnOrFree(x)
             /\ node'.kind = node.kind /\ node'.small = node.small /\ node'.large = node.large
             /\ idx = 1 => node'.chunks # << >> /\ node'.chunks[1] = x
  <2>1. /\ pc = "write_block" /\ pc' = (IF idx < Span THEN "write_block" ELSE "write_inode")
        /\ UNCHANGED <<id, task, out>> /\ idx' = idx + 1
        /\ inodes' = [inodes EXCEPT ![x] = NoInode] /\ lists' = [lists EXCEPT ![x] = out]
        /\ node' = [node EXCEPT !.chunks = Append(@, x)] /\ idx \notin DOMAIN node.chunks
        /\ x \notin bits
    BY <1>3 DEF Extend, WriteBlock, PutBlock, Take, IsLowestFree
  <2>2. node'.kind = node.kind /\ node'.chunks = Append(node.chunks, x) /\ node'.large = node.large
    BY <1>1, <2>1, AppendBlock
  <2>3. node'.small = node.small
    BY <1>1, <2>1 DEF InodeType
  <2>4. Used = bits
    BY <2>1 DEF Used
  <2>5. x \notin Live(View) /\ OwnOrFree(x)
    BY <2>1, <2>4, ExactIsUsed DEF Consistent, OwnOrFree
  <2>6. ASSUME idx = 1 PROVE node'.chunks # << >> /\ node'.chunks[1] = x
    <3>1. Len(node.chunks) = 0
      BY <1>1, <2>1, <2>6
    <3>2. 1 \in DOMAIN node'.chunks /\ node'.chunks[1] = x
      BY <1>1, <2>2, <3>1, AppendDomain
    <3>3. DOMAIN << >> = {}
      OBVIOUS
    <3> QED BY <3>2, <3>3
  <2> QED BY <2>1, <2>2, <2>3, <2>5, <2>6
<1> QED BY <1>2, <1>3

LEMMA WriteFileBlockSound ==
  ASSUME Typed, Typed', Consistent, Sound, Overwrite \/ \E b \in Blocks : Extend(b), out = NoList
  PROVE  Sound'
<1>1. PICK x \in Blocks :
           /\ pc = "write_block" /\ pc' \in WritePoints
           /\ UNCHANGED <<id, task, out>>
           /\ inodes' = [inodes EXCEPT ![x] = NoInode] /\ lists' = [lists EXCEPT ![x] = out]
           /\ x \notin Live(View) /\ OwnOrFree(x)
           /\ node'.kind = node.kind /\ node'.small = node.small /\ node'.large = node.large
  BY WritesBlock DEF WritePoints
<1>2. node.kind = "file" /\ task.kind # "attribute"
  BY <1>1, NoListFields DEF Sound, Half, WritePoints
<1>3. InTransaction /\ InTransaction' /\ ~Writing /\ (~Writing)'
  BY <1>1 DEF InTransaction, Writing, WritePoints
<1>4. \A a \in Blocks : a # id =>
        inodes'[a] = inodes[a] \/ (a \notin Live(View) /\ inodes'[a].kind = "none")
  BY <1>1, NewInodeTyped DEF Typed, TypeOK, NoInode
<1>5. Keeps(View, Lists, View', Lists')
  BY <1>1, <1>2, <1>3, <1>4, WorkedKeeps DEF OwnOrFree, ListKinds
<1>6. BeingSet = {}
  BY <1>1, <1>2 DEF BeingSet, EarlyPoints
<1>7. \A k : Has(node', k) <=> Has(node, k)
  BY <1>1 DEF Has
<1>8. pc \in WritePoints /\ pc' \notin CreatePoints /\ pc' \notin EarlyPoints
  BY <1>1 DEF WritePoints, CreatePoints, EarlyPoints
<1> QED BY <1>1, <1>3, <1>4, <1>5, <1>6, <1>7, <1>8, WorkedSound

LEMMA WriteListBlockSound ==
  ASSUME Typed, Typed', Consistent, Sound, Overwrite \/ \E b \in Blocks : Extend(b), out # NoList
  PROVE  Sound'
<1>1. PICK x \in Blocks :
           /\ pc = "write_block" /\ pc' = (IF idx < Span THEN "write_block" ELSE "write_inode")
           /\ UNCHANGED <<id, task, out>>
           /\ inodes' = [inodes EXCEPT ![x] = NoInode] /\ lists' = [lists EXCEPT ![x] = out]
           /\ x \notin Live(View) /\ OwnOrFree(x)
           /\ node'.kind = node.kind /\ node'.small = node.small /\ node'.large = node.large
           /\ idx = 1 => node'.chunks # << >> /\ node'.chunks[1] = x
  BY WritesBlock
<1>2. Contents = Lists /\ Unsized = {}
  BY <1>1, QuietContents DEF Writing
<1>3. Pends(View, Lists, id, out) /\ idx = 1
  BY <1>1, <1>2 DEF Sound, Pending
<1>4. pc' = "write_inode" /\ Writing'
  BY <1>1, <1>3 DEF Span, Writing
<1>5. InTransaction /\ InTransaction'
  BY <1>1, <1>4 DEF InTransaction
<1>6. \A a \in Blocks : a # id =>
        inodes'[a] = inodes[a] \/ (a \notin Live(View) /\ inodes'[a].kind = "none")
  BY <1>1, NewInodeTyped DEF Typed, TypeOK, NoInode
<1>7. /\ View \in Tables /\ View' \in Tables
      /\ Live(View') = Live(View)
      /\ id \in Live(View) /\ View[id] = node /\ View'[id] = node'
      /\ \A a \in Live(View) : a # id => View'[a] = View[a]
  BY <1>1, <1>5, <1>6, WorkedTable
<1>8. Lists' = Held(View', lists') /\ Lists = Held(View, lists)
  BY PrimedLists DEF Lists
<1>9. \A a \in Live(View) : a # id => Lists'[a] = Lists[a]
  <2> SUFFICES ASSUME NEW a \in Live(View), a # id PROVE Lists'[a] = Lists[a]
    OBVIOUS
  <2>1. View[a].chunks # << >> => View[a].chunks[1] \in Blocks /\ View[a].chunks[1] # x
    BY <1>1, <1>7, FirstBlock, NotItsFirst DEF OwnOrFree
  <2>2. View[a].chunks # << >> => lists'[View[a].chunks[1]] = lists[View[a].chunks[1]]
    BY <1>1, <2>1 DEF Typed, TypeOK
  <2>3. ListIn(View[a], lists') = ListIn(View[a], lists) /\ View'[a] = View[a] /\ a \in Blocks
    BY <1>7, <2>2, ListElsewhere, LiveIs
  <2> QED BY <1>8, <2>3 DEF Held
<1>10. /\ Unsized' = {id} /\ Contents'[id] = out
       /\ \A a \in Blocks : a # id => Contents'[a] = Lists'[a]
  <2>1. Contents' = [Lists' EXCEPT ![id] = out] /\ Unsized' = {id}
    BY <1>1, <1>4 DEF Contents, Unsized
  <2> QED BY <1>7, <1>8, <2>1, LiveIs DEF Held
<1>11. Gains(View, Lists, View', Contents', id, out)
  <2>1. ASSUME NEW a \in Live(View), a # id PROVE View'[a] = View[a] /\ Contents'[a] = Lists[a]
    BY <1>7, <1>9, <1>10, <2>1, LiveIs
  <2> QED BY <1>1, <1>7, <1>10, <2>1 DEF Gains
<1>12. /\ AllReadable(View, Lists, {}) /\ Named(View, Lists) /\ Apart(View, Lists)
       /\ Found(View, Lists, BeingSet) /\ View[Catalog].kind = "system" /\ Catalog \in Live(View)
  BY <1>2 DEF Sound, Listed, Consistent
<1>13. AllReadable(View', Contents', {id}) /\ Named(View', Contents') /\ Apart(View', Contents')
  BY <1>3, <1>11, <1>12, GainsReadable, GainsNamed, GainsApart
<1>14. View'[Catalog].kind = "system"
  BY <1>11, <1>12 DEF Gains
<1>15. PICK item : out = AddItem(View[id].kind, Lists[id], item)
  BY <1>3 DEF Pends
<1>16. Lists[Catalog].items \subseteq Contents'[Catalog].items
  <2>1. CASE Catalog = id
    BY <1>10, <1>15, <2>1, AddItemFields
  <2>2. CASE Catalog # id
    BY <1>11, <1>12, <2>2 DEF Gains, ListKinds
  <2> QED BY <2>1, <2>2
<1>17. BeingSet' = {} /\ \A p \in BeingSet : p \in Contents'[Catalog].items
  <2>1. BeingSet' = {}
    BY <1>4 DEF BeingSet, EarlyPoints
  <2>2. BeingSet # {} => task.kind = "attribute"
    BY <1>1 DEF BeingSet, EarlyPoints
  <2>3. task.kind = "attribute" => id = Catalog /\ <<task.key, task.target>> \in out.items
    BY <1>1 DEF Sound, Half, WritePoints
  <2> QED BY <1>10, <2>1, <2>2, <2>3 DEF BeingSet
<1>18. \A b \in Live(View'), k \in Keys \ CreateKeys : Has(View'[b], k) => b \in Live(View) /\ Has(View[b], k)
  <2>1. \A k : Has(node', k) <=> Has(node, k)
    BY <1>1 DEF Has
  <2> SUFFICES ASSUME NEW b \in Live(View'), NEW k, Has(View'[b], k)
               PROVE  b \in Live(View) /\ Has(View[b], k)
    OBVIOUS
  <2> QED BY <1>7, <2>1
<1>19. Found(View', Contents', {})
  BY <1>12, <1>16, <1>17, <1>18, KeepsFound
<1>20. Listed'
  BY <1>10, <1>13, <1>14, <1>17, <1>19, PrimedListed
<1>21. Pending'
  BY <1>4 DEF Pending, CreatePoints
<1>22. Half'
  <2>1. node'.kind = out.of /\ node'.kind \in ListKinds
    BY <1>1, <1>3, <1>7, <1>15, AddItemFields DEF Pends
  <2>2. out.len > 0
    <3>1. Lists[id] = ListOf(View[id]) /\ View[id] \in InodeType
      BY <1>7, <1>8, LiveIs DEF Held, ListIn, ListOf, Tables
    <3>2. Lists[id].len \in Nat
      BY <3>1, ListOfTyped DEF Typed, TypeOK, ListType
    <3> QED BY <1>15, <3>2, AddItemFields
  <2>3. lists'[node'.chunks[1]] = out /\ node'.chunks # << >>
    BY <1>1, <1>3 DEF Typed, TypeOK
  <2>4. task'.kind = "attribute" => id' = Catalog /\ <<task'.key, task'.target>> \in out'.items
    BY <1>1 DEF Sound, Half, WritePoints
  <2> QED BY <1>1, <1>4, <2>1, <2>2, <2>3, <2>4 DEF Half, EarlyPoints
<1> QED BY <1>20, <1>21, <1>22 DEF Sound

--------------------------------------------------------------------------------
\* An inode is created: nothing names it yet.

Bare(n) ==
  /\ n \in InodeType /\ n.kind \in {"file", "dir"} /\ n.chunks = << >>
  /\ n.small \subseteq CreateKeys /\ \A k \in Keys : n.large[k] = << >>
Enters(arguments, list, b) ==
  arguments.kind = "entry" =>
    /\ arguments.target \in Live(inodes) /\ inodes[arguments.target].kind = "dir"
    /\ \E name \in Names :
         list = AddItem("dir", ListOf(inodes[arguments.target]), <<name, b>>)

LEMMA BeginCreateSound ==
  ASSUME Typed, Typed', Consistent, Sound, NEW b, NEW n, NEW arguments, NEW list, Bare(n),
         BeginCreate(b, n, arguments, list), Enters(arguments, list, b)
  PROVE  Sound'
<1>0. /\ n \in InodeType /\ n.kind \in {"file", "dir"} /\ n.chunks = << >>
      /\ n.small \subseteq CreateKeys /\ \A k \in Keys : n.large[k] = << >>
  BY DEF Bare
<1>1. /\ pc = "idle" /\ pc' = "create_inode" /\ inodes' = inodes /\ lists' = lists
      /\ id' = b /\ node' = n /\ task' = arguments /\ out' = list
      /\ b \in Blocks /\ b \notin bits
  BY TakeTyped DEF BeginCreate, StartOp, device, Take, IsLowestFree
<1>2. /\ View = inodes /\ View \in Tables /\ Used = bits
      /\ View' = [View EXCEPT ![b] = n]
  BY <1>1, ViewTable DEF View, InTransaction, Used
<1>3. b \notin Live(View) /\ Catalog \in Live(View)
  BY <1>1, <1>2, ExactIsUsed DEF Consistent
<1>4. Live(View') = Live(View) \cup {b} /\ View'[b] = n /\ \A a \in Live(View) : View'[a] = View[a]
  <2>1. Places(b, n) = {<<b, b, "inode", 0>>}
    BY <1>0, PlacesOfNew
  <2>2. Live(View') = Live(View) \cup {b}
    BY <1>0, <1>1, <1>2, <1>3, <2>1, AddInode
  <2> QED BY <1>1, <1>2, <1>3, <2>2, LiveIs DEF Tables
<1>5. Lists' = Held(View', lists) /\ Lists = Held(View, lists)
  BY <1>1, PrimedLists DEF Lists
<1>6. \A a \in Live(View) : Lists'[a] = Lists[a]
  BY <1>4, <1>5, LiveIs DEF Held
<1>7. Lists'[b] = NoList
  BY <1>0, <1>1, <1>4, <1>5 DEF Held, ListIn
<1>8. Readable(n, NoList)
  BY <1>0 DEF Readable
<1>9. Keeps(View, Lists, View', Lists')
  <2>1. \A a \in Live(View) : View'[a] = View[a] /\ Lists'[a] = Lists[a]
    BY <1>4, <1>6
  <2>2. \A a \in Live(View') : a \notin Live(View) => a = b
    BY <1>4
  <2> QED BY <1>4, <1>7, <1>8, <2>1, <2>2 DEF Keeps
<1>10. ~Writing /\ (~Writing)' /\ BeingSet = {}
  BY <1>1 DEF Writing, BeingSet, EarlyPoints
<1>11. \A a \in Live(View'), k \in Keys \ CreateKeys :
         Has(View'[a], k) => <<k, a>> \in BeingSet' \/ (a \in Live(View) /\ Has(View[a], k))
  <2>1. \A k \in Keys \ CreateKeys : ~Has(n, k)
    BY <1>0 DEF Has
  <2> SUFFICES ASSUME NEW a \in Live(View'), NEW k \in Keys \ CreateKeys, Has(View'[a], k)
               PROVE  a \in Live(View) /\ Has(View[a], k)
    OBVIOUS
  <2> QED BY <1>4, <2>1
<1>12. /\ Listed' /\ Contents = Lists /\ Contents' = Lists'
       /\ \A a, l : Pends(View, Lists, a, l) => Pends(View', Lists', a, l)
  BY <1>3, <1>9, <1>10, <1>11, QuietSound
<1>13. NoEntryFor(View', Lists', b)
  <2> SUFFICES ASSUME NEW d \in Live(View'), View'[d].kind = "dir", NEW e \in Lists'[d].items, e[2] = b
               PROVE  FALSE
    BY DEF NoEntryFor
  <2>1. d \in Live(View) /\ View[d].kind = "dir" /\ e \in Lists[d].items
    BY <1>9, KeepsEntry
  <2>2. Named(View, Lists)
    BY <1>12 DEF Sound, Listed
  <2>3. e[2] \in Blocks /\ View[e[2]].kind \in {"file", "dir"}
    BY <2>1, <2>2 DEF Named, ListKinds
  <2>4. e[2] \in Live(View)
    BY <2>3 DEF Live
  <2> QED BY <1>3, <2>4
<1>14. ASSUME arguments.kind = "entry"
       PROVE  Pends(View', Lists', task'.target, out')
  <2> DEFINE t == arguments.target
  <2>1. PICK name \in Names : list = AddItem("dir", ListOf(inodes[t]), <<name, b>>)
    BY <1>14 DEF Enters
  <2>2. t \in Live(View) /\ View[t].kind = "dir"
    BY <1>2, <1>14 DEF Enters
  <2>3. t \in Live(View') /\ View'[t].kind = "dir" /\ Lists'[t] = Lists[t] /\ t \in Blocks
    BY <1>4, <1>6, <2>2, LiveIs
  <2>4. Lists[t] = ListOf(inodes[t])
    BY <1>2, <1>5, <2>3 DEF Held, ListIn, ListOf
  <2> DEFINE item == <<name, b>>
  <2>5. item[2] = b /\ item \in (Names \cup Keys) \X Blocks
    BY <1>1
  <2>6. out' = AddItem("dir", Lists'[t], item) /\ task'.target = t
    BY <1>1, <2>1, <2>3, <2>4
  <2> HIDE DEF item, t
  <2>7. IsNew(View', Lists', t, item)
    BY <1>0, <1>1, <1>4, <1>13, <2>5 DEF IsNew
  <2> QED BY <2>3, <2>5, <2>6, <2>7 DEF Pends, ListKinds
<1>15. Pending'
  BY <1>1, <1>12, <1>14, PrimedPends DEF Pending
<1>16. Half'
  BY <1>1 DEF Half, Writing, WritePoints, EarlyPoints
<1> QED BY <1>12, <1>15, <1>16 DEF Sound

LEMMA InitSound == Init => Sound
<1> SUFFICES ASSUME Init PROVE Sound
  OBVIOUS
<1>1. Typed /\ ~InTransaction /\ pc = "idle"
  BY InitTyped DEF Init, InTransaction
<1>2. View = inodes
  BY <1>1, ViewTable
<1>3. /\ inodes[Root] = NewInode("dir") /\ inodes[Catalog] = NewInode("system")
      /\ \A b \in Blocks : b # Root /\ b # Catalog => inodes[b] = NewInode("none")
  BY BlockNumbers DEF Init, NoInode
<1>4. \A b \in Blocks : View[b].chunks = << >> /\ \A k \in Keys : ~Has(View[b], k)
  <2> SUFFICES ASSUME NEW b \in Blocks PROVE View[b].chunks = << >> /\ \A k \in Keys : ~Has(View[b], k)
    OBVIOUS
  <2>1. PICK kind \in {"none", "file", "dir", "system"} : View[b] = NewInode(kind)
    BY <1>2, <1>3
  <2> QED BY <2>1, NewInodeTyped DEF NewInode, Has
<1>5. ~Writing /\ Contents = Lists /\ Unsized = {} /\ BeingSet = {}
  BY <1>1, QuietContents DEF Writing, BeingSet, EarlyPoints
<1>6. \A b \in Blocks : Lists[b] = NoList
  BY <1>4 DEF Lists, Held, ListIn
<1>7. \A b \in Live(View) : b \in Blocks /\ Lists[b] = NoList /\ View[b].chunks = << >>
  BY <1>4, <1>6, LiveIs
<1>8. AllReadable(View, Lists, {}) /\ Named(View, Lists) /\ Apart(View, Lists)
  BY <1>7, NoListFields DEF AllReadable, Readable, Named, Apart
<1>9. Found(View, Lists, {})
  BY <1>4, LiveIs DEF Found
<1>10. View[Catalog].kind = "system"
  BY <1>2, <1>3, NewInodeTyped
<1>11. Pending /\ Half
  BY <1>1 DEF Pending, Half, CreatePoints, WritePoints, EarlyPoints, Writing
<1> QED BY <1>5, <1>8, <1>9, <1>10, <1>11 DEF Sound, Listed

--------------------------------------------------------------------------------

LEMMA StepSound == Inv /\ Inv' /\ ~torn /\ ~torn' /\ Sound /\ [Next]_vars => Sound'
<1> SUFFICES ASSUME Inv, Inv', ~torn, ~torn', Sound, [Next]_vars PROVE Sound'
  OBVIOUS
<1>a. Typed /\ Typed' /\ Consistent
  BY DEF Inv
<1>1. ASSUME NEW attrs \in SUBSET CreateKeys, CreateInode(attrs) PROVE Sound'
  <2> DEFINE n == [NewInode("file") EXCEPT !.small = attrs]
             arguments == [NoTask EXCEPT !.kind = "create"]
  <2>1. Bare(n)
    <3>1. attrs \in SUBSET Keys
      BY UnaFSAssumption
    <3>2. /\ NewInode("file") \in InodeType /\ NewInode("file").kind = "file"
          /\ NewInode("file").chunks = << >> /\ \A k \in Keys : NewInode("file").large[k] = << >>
      BY NewInodeTyped
    <3>3. n.small = attrs
      BY DEF NewInode
    <3>4. n \in InodeType /\ n.kind = "file" /\ n.chunks = << >> /\ \A k \in Keys : n.large[k] = << >>
      BY <3>1, <3>2, SetSmall
    <3> HIDE DEF n
    <3> QED BY <3>3, <3>4 DEF Bare
  <2>2. PICK b \in Blocks : BeginCreate(b, n, arguments, NoList)
    BY <1>1 DEF CreateInode
  <2>3. Enters(arguments, NoList, b)
    BY DEF Enters, NoTask
  <2> HIDE DEF n, arguments
  <2> QED BY <1>a, <2>1, <2>2, <2>3, BeginCreateSound
<1>2. ASSUME NEW parent \in Known({"dir"}), NEW name \in Names, NEW kind \in {"file", "dir"},
             AddEntry(parent, name, kind)
      PROVE  Sound'
  <2> DEFINE arguments == [kind |-> "entry", target |-> parent, key |-> name, blocks |-> 0]
             list(b) == AddItem("dir", ListOf(inodes[parent]), <<name, b>>)
  <2>1. parent \in Live(inodes) /\ inodes[parent].kind = "dir" /\ arguments.target = parent
    BY <1>a DEF Known, Live, Typed, TypeOK
  <2>2. PICK b \in Blocks : BeginCreate(b, NewInode(kind), arguments, list(b))
    BY <1>2 DEF AddEntry
  <2>3. Bare(NewInode(kind))
    <3>1. NewInode(kind).small = {} /\ kind \in {"none", "file", "dir", "system"}
      BY DEF NewInode
    <3> QED BY <3>1, NewInodeTyped DEF Bare
  <2>4. Enters(arguments, list(b), b)
    BY <2>1 DEF Enters
  <2> HIDE DEF arguments, list
  <2> QED BY <1>a, <2>2, <2>3, <2>4, BeginCreateSound
<1>3. CASE EndCreate \/ EndWrite \/ EndAttribute
  BY <1>3, <1>a, EndsSound DEF EndCreate, EndWrite, EndAttribute
<1>4. ASSUME NEW target \in Known({"file"}), NEW n \in 1 .. MaxFileBlocks, WriteData(target, n)
      PROVE  Sound'
  BY <1>4, <1>a, WriteDataSound
<1>5. CASE WriteEntries
  BY <1>5, <1>a, WriteEntriesSound
<1>6. CASE Overwrite \/ \E b \in Blocks : Extend(b)
  BY <1>6, <1>a, WriteFileBlockSound, WriteListBlockSound
<1>7. ASSUME NEW e, Fail(e) PROVE FALSE
  BY <1>7, FailTears
<1>8. CASE NoSpace \/ CatalogUnreadable \/ InodeTooLarge \/ \E b \in Blocks : ExtendBeyond(b)
  BY <1>7, <1>8 DEF NoSpace, CatalogUnreadable, InodeTooLarge, ExtendBeyond
<1>9. ASSUME NEW b \in Blocks, StoreNew(b) PROVE Sound'
  BY <1>9, <1>a, StoreNewSound
<1>10. ASSUME NEW target \in Known({"file", "dir"}), NEW key \in Keys,
              NEW n \in 0 .. MaxLargeBlocks, SetAttribute(target, key, n)
       PROVE  Sound'
  BY <1>10, <1>a, SetAttributeSound
<1>11. CASE FreeOld
  BY <1>11, <1>a, FreeOldSound
<1>12. CASE UpdateCatalog
  BY <1>12, <1>a, UpdateCatalogSound
<1>13. CASE WriteInode
  BY <1>13, <1>a, WriteInodeSound, WriteListInodeSound
<1>14. CASE SyncMetadata
  BY <1>14, <1>a, SyncSound
<1>15. CASE Crash
  BY <1>15, <1>a, CrashSound
<1>16. CASE Mount
  BY <1>16, <1>a, MountSound
<1>17. CASE UNCHANGED vars
  <2>1. View' = View /\ UNCHANGED <<pc, task, id, node, idx, out, lists>>
    BY <1>17 DEF View, InTransaction, vars, device, locals
  <2>2. Contents' = Contents /\ Unsized' = Unsized /\ BeingSet' = BeingSet
    BY <2>1 DEF Contents, Unsized, BeingSet, Writing, Lists, Held
  <2>3. Listed'
    BY <2>1, <2>2, PrimedListed DEF Sound, Listed
  <2>4. Pending'
    BY <2>1, <2>2, PrimedPends DEF Sound, Pending
  <2>5. Half'
    BY <2>1 DEF Sound, Half, Writing
  <2> QED BY <2>3, <2>4, <2>5 DEF Sound
<1> QED BY <1>1, <1>2, <1>3, <1>4, <1>5, <1>6, <1>8, <1>9, <1>10, <1>11, <1>12, <1>13, <1>14,
           <1>15, <1>16, <1>17 DEF Next

SoundInv == Inv /\ (~torn => Sound)

LEMMA SoundAlways == Spec => []SoundInv
<1>1. Init => SoundInv
  BY InitTyped, InitConsistent, InitSound DEF Inv, SoundInv
<1>2. SoundInv /\ [Next]_vars => SoundInv'
  <2> SUFFICES ASSUME SoundInv, [Next]_vars PROVE SoundInv'
    OBVIOUS
  <2>1. Inv /\ Inv' /\ (~torn' => ~torn)
    BY StepConsistent, TornStays DEF SoundInv, Inv
  <2> QED BY <2>1, StepSound DEF SoundInv
<1> QED BY <1>1, <1>2, PTL DEF Spec

LEMMA SettledLists ==
  ASSUME SoundInv, Settled
  PROVE  /\ View = inodes /\ Contents = Lists /\ Unsized = {} /\ BeingSet = {} /\ Listed
         /\ \A b \in Live(inodes) : b \in Blocks /\ Lists[b] = ListOf(inodes[b])
         /\ Catalog \in Live(inodes)
<1>1. Typed /\ Consistent /\ Sound /\ ~InTransaction
  BY DEF SoundInv, Inv, Settled
<1>2. View = inodes
  BY <1>1, ViewTable
<1>3. ~Writing /\ BeingSet = {}
  BY <1>1 DEF InTransaction, Writing, BeingSet, EarlyPoints
<1>4. \A b \in Live(inodes) : b \in Blocks /\ Lists[b] = ListOf(inodes[b])
  BY <1>2, LiveIs DEF Lists, Held, ListIn, ListOf
<1> QED BY <1>1, <1>2, <1>3, <1>4, QuietContents DEF Sound, Consistent

\* Between two operations, none of which was cut short, every directory and the catalog
\* can be read, none that was written reads as empty, and every entry names an inode that
\* no other entry names (add_entry, write_data, update_catalog).
THEOREM UnaFSEntriesSound == Spec => []EntriesSound
<1>1. SoundInv => EntriesSound
  <2> SUFFICES ASSUME SoundInv, Settled
               PROVE  EntriesSound
    BY DEF EntriesSound
  <2>1. /\ AllReadable(inodes, Lists, {}) /\ Named(inodes, Lists) /\ Apart(inodes, Lists)
        /\ \A b \in Live(inodes) : Lists[b] = ListOf(inodes[b])
    BY SettledLists DEF Listed
  <2>2. ASSUME NEW b \in Live(inodes), inodes[b].kind \in {"dir", "system"}
        PROVE  Decodes(inodes[b]) /\ (inodes[b].chunks # << >> => ListOf(inodes[b]) # NoList)
    BY <2>1, <2>2 DEF AllReadable, Readable, Decodes, ListKinds
  <2>3. ASSUME NEW b \in Live(inodes), inodes[b].kind \in {"dir", "system"},
               NEW e \in ListOf(inodes[b]).items
        PROVE  inodes[e[2]].kind \in {"file", "dir"}
    BY <2>1, <2>3 DEF Named, ListKinds
  <2>4. ASSUME NEW a \in Live(inodes), NEW b \in Live(inodes),
               inodes[a].kind = "dir" /\ inodes[b].kind = "dir",
               NEW d \in ListOf(inodes[a]).items, NEW e \in ListOf(inodes[b]).items, d[2] = e[2]
        PROVE  a = b /\ d = e
    BY <2>1, <2>4 DEF Apart
  <2> QED BY <2>2, <2>3, <2>4 DEF EntriesSound
<1> QED BY SoundAlways, <1>1, PTL

\* Between two operations, none of which was cut short, every attribute set_attribute has
\* stored is in the catalog's list: a query through the catalog misses none.
THEOREM UnaFSCatalogComplete == Spec => []CatalogComplete
<1>1. SoundInv => CatalogComplete
  BY SettledLists DEF CatalogComplete, Listed, Found, Has
<1> QED BY SoundAlways, <1>1, PTL

--------------------------------------------------------------------------------
\* What a mount finds in the journal, up to the first remount and inside its first
\* block: no less than the running operation has open and what was torn before it.

DataPoints == {"write_block", "write_inode", "write_bitmap", "write_super", "write_end"}
InodePoints == {"create_inode", "create_bitmap", "create_super", "create_end"}

\* What is open at a point of an operation: m creations and writes, and the
\* set_attributes of the inodes in Open.
Underway(point, arguments, m, Open) ==
  \/ point \in {"idle", "write_begin", "down"} /\ m = 0 /\ Open = {}
  \/ point \in InodePoints /\ m = 1 /\ Open = {}
  \/ /\ point \in DataPoints /\ m = 1
     /\ Open = IF arguments.kind = "attribute" THEN {arguments.target} ELSE {}
  \/ point \in AttributePoints /\ m = 0 /\ Open = {arguments.target}

Reports(m, Open) ==
  IF pc # "down" \/ ~ torn THEN AtLeast(Blocks, m + (IF torn THEN 1 ELSE 0), Open)
                           ELSE Dirty(Blocks)
Loud(m, Open) ==
  mounts = 0 /\ ~ spilled /\ abandoned = {} =>
    NothingBehind(journal) /\ \E f : Session(journal, f, Reports(m, Open))

Heard == mounts \in Nat /\ \E m, Open : Underway(pc, task, m, Open) /\ Loud(m, Open)

LEMMA OpenIs ==
  ASSUME NEW point, NEW arguments, NEW m, NEW Open, Underway(point, arguments, m, Open)
  PROVE  /\ m \in Nat
         /\ point \in {"idle", "write_begin", "down"} => m = 0 /\ Open = {}
         /\ point \in InodePoints => m = 1 /\ Open = {}
         /\ point \in DataPoints => m = 1
         /\ point \in DataPoints =>
              Open = IF arguments.kind = "attribute" THEN {arguments.target} ELSE {}
         /\ point \in AttributePoints => m = 0 /\ Open = {arguments.target}
         /\ point \notin {"idle", "write_begin", "down"} => m > 0 \/ Open # {}
  BY DEF Underway, InodePoints, DataPoints, AttributePoints

\* A step that logs a record.
LEMMA LogHeard ==
  ASSUME NEW op, NEW i \in Blocks, LogRecord(op, i), UNCHANGED <<torn, abandoned, mounts>>,
         pc # "down", pc' # "down", mounts \in Nat,
         NEW m \in Nat, NEW Open, NEW m2 \in Nat, NEW Open2, Logs(op, i, m, Open, m2, Open2),
         Loud(m, Open), Underway(pc', task', m2, Open2)
  PROVE  Heard'
<1>1. /\ journal' = Log(journal, op, i)
      /\ ~ spilled' => ~ spilled /\ ~ (journal.offset + TotalLen(op) > BLOCK_SIZE)
  BY DEF LogRecord
<1>2. ASSUME mounts' = 0, ~ spilled', abandoned' = {}
      PROVE  /\ NothingBehind(journal')
             /\ \E f : Session(journal', f, AtLeast(Blocks, m2 + (IF torn THEN 1 ELSE 0), Open2))
  <2> DEFINE k == IF torn THEN 1 ELSE 0
  <2>1. k \in Nat
    OBVIOUS
  <2>2. NothingBehind(journal) /\ \E f : Session(journal, f, AtLeast(Blocks, m + k, Open))
    BY <1>1, <1>2 DEF Loud, Reports
  <2> HIDE DEF k
  <2>3. PICK f : Session(journal, f, AtLeast(Blocks, m + k, Open))
    BY <2>2
  <2>4. \A acc \in AtLeast(Blocks, m + k, Open) :
          Account(acc, Record(journal.offset, op, i)) \in AtLeast(Blocks, m2 + k, Open2)
    BY <2>1, AccountLeast
  <2>5. journal.offset + TotalLen(op) <= BLOCK_SIZE
    BY <1>1, <1>2, <2>3, Sizes DEF Session
  <2> QED BY <1>1, <2>2, <2>3, <2>4, <2>5, LogExtends DEF k
<1>3. Loud(m2, Open2)'
  BY <1>2 DEF Loud, Reports
<1> QED BY <1>3 DEF Heard

\* A step that logs nothing and stays where as much is open.
LEMMA SilentHeard ==
  ASSUME Heard, UNCHANGED <<journal, spilled, torn, abandoned, mounts>>,
         pc # "down", pc' # "down",
         \A m, Open : Underway(pc, task, m, Open) => Underway(pc', task', m, Open)
  PROVE  Heard'
<1>1. PICK m, Open : Underway(pc, task, m, Open) /\ Loud(m, Open)
  BY DEF Heard
<1>2. Loud(m, Open)'
  BY <1>1 DEF Loud, Reports
<1> QED BY <1>1, <1>2 DEF Heard

\* An operation gives up.
LEMMA FailHeard ==
  ASSUME TaskOK, Heard, NEW e, Fail(e), pc \notin {"idle", "write_begin", "down"}, pc \in Points,
         UNCHANGED <<journal, spilled>>
  PROVE  Heard'
<1>1. PICK m, Open : Underway(pc, task, m, Open) /\ Loud(m, Open)
  BY DEF Heard
<1>2. /\ pc' = "idle" /\ torn' = TRUE /\ UNCHANGED <<journal, spilled, mounts>>
      /\ abandoned' = IF task.kind = "attribute" THEN abandoned \cup {task.target} ELSE abandoned
  BY DEF Fail, Return
<1>3. ASSUME mounts = 0, ~ spilled, abandoned' = {}
      PROVE  NothingBehind(journal) /\ \E f : Session(journal, f, AtLeast(Blocks, 1, {}))
  <2>1. abandoned = {} /\ task.kind # "attribute"
    BY <1>2, <1>3
  <2>2. pc \in InodePoints \cup DataPoints
    BY <2>1 DEF TaskOK, Points, InodePoints, DataPoints, AttributePoints
  <2>3. m = 1 /\ Open = {}
    BY <1>1, <2>1, <2>2, OpenIs
  <2> DEFINE k == IF torn THEN 1 ELSE 0
  <2>4. NothingBehind(journal) /\ \E f : Session(journal, f, AtLeast(Blocks, 1 + k, {}))
    BY <1>1, <1>3, <2>1, <2>3 DEF Loud, Reports
  <2>5. AtLeast(Blocks, 1 + k, {}) \subseteq AtLeast(Blocks, 1, {})
    BY DEF AtLeast, Accounts
  <2> HIDE DEF k
  <2> QED BY <2>4, <2>5, SessionWeaker
<1>4. Loud(0, {})'
  <2>1. 0 + 1 = 1
    OBVIOUS
  <2> QED BY <1>2, <1>3, <2>1 DEF Loud, Reports
<1>5. Underway(pc', task', 0, {})
  BY <1>2 DEF Underway
<1>6. mounts' \in Nat
  BY <1>2 DEF Heard
<1> QED BY <1>4, <1>5, <1>6 DEF Heard

LEMMA CrashHeard ==
  ASSUME Heard, Crash
  PROVE  Heard'
<1>1. PICK m, Open : Underway(pc, task, m, Open) /\ Loud(m, Open)
  BY DEF Heard
<1>2. /\ pc # "down" /\ pc' = "down" /\ UNCHANGED <<journal, spilled, abandoned, mounts>>
      /\ torn' = (torn \/ InTransaction)
  BY DEF Crash
<1>3. torn' <=> torn \/ InTransaction
  BY <1>2
<1>4. m \in Nat
  BY <1>1, OpenIs
<1>5. ASSUME mounts = 0, ~ spilled, abandoned = {}
      PROVE  /\ NothingBehind(journal)
             /\ torn' => \E f : Session(journal, f, Dirty(Blocks))
             /\ ~ torn' => \E f : Session(journal, f, AtLeast(Blocks, 0, {}))
  <2> DEFINE k == IF torn THEN 1 ELSE 0
  <2>1. NothingBehind(journal) /\ \E f : Session(journal, f, AtLeast(Blocks, m + k, Open))
    BY <1>1, <1>2, <1>5 DEF Loud, Reports
  <2>2. ASSUME torn' PROVE AtLeast(Blocks, m + k, Open) \subseteq Dirty(Blocks)
    <3>1. m + k \in Nat /\ (m + k > 0 \/ Open # {})
      BY <1>1, <1>3, <1>4, <2>2, OpenIs DEF InTransaction
    <3> HIDE DEF k
    <3> QED BY <3>1, AtLeastDirty
  <2>3. ASSUME ~ torn' PROVE m + k = 0 /\ Open = {}
    BY <1>1, <1>3, <2>3, OpenIs DEF InTransaction
  <2> HIDE DEF k
  <2> QED BY <2>1, <2>2, <2>3, SessionWeaker
<1>6. Loud(0, {})'
  <2>1. 0 + 0 = 0
    OBVIOUS
  <2>2. CASE torn'
    BY <1>2, <1>5, <2>2 DEF Loud, Reports
  <2>3. CASE ~ torn'
    BY <1>2, <1>5, <2>1, <2>3 DEF Loud, Reports
  <2> QED BY <2>2, <2>3
<1>7. Underway(pc', task', 0, {})
  BY <1>2 DEF Underway
<1> QED BY <1>2, <1>6, <1>7 DEF Heard

LEMMA MountHeard ==
  ASSUME Heard, Mount
  PROVE  Heard'
<1>1. pc' = "idle" /\ mounts' = mounts + 1 /\ mounts \in Nat
  BY DEF Mount, Heard
<1>2. Underway(pc', task', 0, {}) /\ Loud(0, {})'
  BY <1>1 DEF Underway, Loud
<1> QED BY <1>1, <1>2 DEF Heard

LEMMA InitHeard == Init => Heard
<1> SUFFICES ASSUME Init PROVE Heard
  OBVIOUS
<1>1. journal.image = {} /\ journal.remains = {} /\ journal.offset = 0 /\ pc = "idle" /\ ~ torn /\ mounts = 0
  BY DEF Init, Reset, Blank
<1> DEFINE f == [n \in Nat |-> {}]
<1>2. Session(journal, f, AtLeast(Blocks, 0, {}))
  BY <1>1, Sizes, ClearBounds DEF Session, InFirstBlock
<1>3. NothingBehind(journal) /\ Underway(pc, task, 0, {})
  BY <1>1 DEF NothingBehind, Underway
<1> HIDE DEF f
<1>4. Loud(0, {})
  BY <1>1, <1>2, <1>3 DEF Loud, Reports
<1> QED BY <1>1, <1>3, <1>4 DEF Heard

LEMMA StepHeard == Typed /\ Heard /\ [Next]_vars => Heard'
<1> SUFFICES ASSUME Typed, Heard, [Next]_vars PROVE Heard'
  OBVIOUS
<1>1. PICK m, Open : Underway(pc, task, m, Open) /\ Loud(m, Open)
  BY DEF Heard
<1>2. /\ m \in Nat /\ mounts \in Nat /\ 0 \in Blocks /\ TaskOK /\ pc \in Points
      /\ task.target \in Blocks /\ 0 \in Nat /\ 1 \in Nat
  BY <1>1, OpenIs, BlockNumbers DEF Heard, Typed, TypeOK, TaskOK
\* What each of the six kinds of records makes of what is open.
<1>3. ASSUME pc = "idle", LogRecord("BeginCreate", 0), pc' = "create_inode",
             UNCHANGED <<torn, abandoned, mounts>>
      PROVE  Heard'
  <2>1. m = 0 /\ Open = {}
    BY <1>1, <1>3, OpenIs
  <2>2. Logs("BeginCreate", 0, m, Open, 1, {}) /\ Underway(pc', task', 1, {})
    BY <2>1, <1>3 DEF Logs, Underway, InodePoints
  <2> QED BY <1>1, <1>2, <1>3, <2>2, LogHeard
<1>4. ASSUME NEW target, NEW list, NEW arguments, BeginWrite(target, list, arguments),
             \/ pc \in {"idle", "write_begin"} /\ arguments.kind # "attribute"
             \/ pc = "attr_catalog" /\ arguments = task,
             UNCHANGED <<torn, abandoned, mounts>>
      PROVE  Heard'
  <2>1. LogRecord("BeginWrite", 0) /\ pc' = "write_block" /\ task' = arguments
    BY <1>4 DEF BeginWrite
  <2>2. CASE pc \in {"idle", "write_begin"} /\ arguments.kind # "attribute"
    <3>1. m = 0 /\ Open = {}
      BY <1>1, <2>2, OpenIs
    <3>2. Logs("BeginWrite", 0, m, Open, 1, {}) /\ Underway(pc', task', 1, {})
      BY <3>1, <2>1, <2>2 DEF Logs, Underway, DataPoints
    <3> QED BY <1>1, <1>2, <1>4, <2>1, <2>2, <3>2, LogHeard
  <2>3. CASE pc = "attr_catalog" /\ arguments = task
    <3>1. m = 0 /\ Open = {task.target} /\ task.kind = "attribute"
      BY <1>1, <1>2, <2>3, OpenIs DEF TaskOK, AttributePoints
    <3>2. Logs("BeginWrite", 0, m, Open, 1, Open) /\ Underway(pc', task', 1, Open)
      BY <3>1, <2>1, <2>3 DEF Logs, Underway, DataPoints
    <3> QED BY <1>1, <1>2, <1>4, <2>1, <2>3, <3>2, LogHeard
  <2> QED BY <1>4, <2>2, <2>3
<1>5. CASE EndCreate
  <2>1. /\ pc = "create_end" /\ LogRecord("EndCreate", 0) /\ pc' \in {"idle", "write_begin"}
        /\ UNCHANGED <<torn, abandoned, mounts>>
    BY <1>5 DEF EndCreate, Return, ghosts
  <2>2. m = 1 /\ Open = {}
    BY <1>1, <2>1, OpenIs DEF InodePoints
  <2>3. Logs("EndCreate", 0, m, Open, 0, {}) /\ Underway(pc', task', 0, {})
    BY <2>1, <2>2 DEF Logs, Underway
  <2> QED BY <1>1, <1>2, <2>1, <2>3, LogHeard
<1>6. CASE EndWrite
  <2>1. /\ pc = "write_end" /\ LogRecord("EndWrite", 0) /\ UNCHANGED <<torn, abandoned, mounts>>
        /\ IF task.kind = "attribute" THEN pc' = "attr_bitmap" /\ task' = task ELSE pc' = "idle"
    BY <1>6 DEF EndWrite, Return, ghosts, locals
  <2>2. m = 1 /\ Open = IF task.kind = "attribute" THEN {task.target} ELSE {}
    BY <1>1, <2>1, OpenIs DEF DataPoints
  <2>3. Logs("EndWrite", 0, m, Open, 0, Open) /\ Underway(pc', task', 0, Open)
    BY <2>1, <2>2 DEF Logs, Underway, AttributePoints
  <2>4. pc' # "down"
    BY <2>1
  <2> QED BY <1>1, <1>2, <2>1, <2>3, <2>4, LogHeard
<1>7. ASSUME NEW target \in Known({"file", "dir"}), NEW key \in Keys, NEW n \in 0 .. MaxLargeBlocks,
             SetAttribute(target, key, n)
      PROVE  Heard'
  <2>1. /\ pc = "idle" /\ LogRecord("BeginOp", target) /\ UNCHANGED <<torn, abandoned, mounts>>
        /\ pc' \in {"attr_free", "attr_store", "attr_inode"} /\ task'.target = target
    BY <1>7 DEF SetAttribute, StartOp
  <2>2. target \in Blocks
    BY DEF Known, Typed, TypeOK
  <2>3. m = 0 /\ Open = {}
    BY <1>1, <2>1, OpenIs
  <2>4. Logs("BeginOp", target, m, Open, 0, {target}) /\ Underway(pc', task', 0, {target})
    BY <2>1, <2>3 DEF Logs, Underway, AttributePoints
  <2> QED BY <1>1, <1>2, <2>1, <2>2, <2>4, LogHeard
<1>8. CASE EndAttribute
  <2>1. /\ pc = "attr_end" /\ LogRecord("EndOp", task.target) /\ UNCHANGED <<torn, abandoned, mounts>>
        /\ pc' = "idle"
    BY <1>8 DEF EndAttribute, Return, ghosts
  <2>2. m = 0 /\ Open = {task.target}
    BY <1>1, <2>1, OpenIs DEF AttributePoints
  <2>3. Logs("EndOp", task.target, m, Open, 0, {}) /\ Underway(pc', task', 0, {})
    BY <2>1, <2>2 DEF Logs, Underway
  <2> QED BY <1>1, <1>2, <2>1, <2>3, LogHeard
\* The actions.
<1>9. ASSUME NEW attrs \in SUBSET CreateKeys, CreateInode(attrs) PROVE Heard'
  BY <1>3, <1>9 DEF CreateInode, BeginCreate, StartOp
<1>10. ASSUME NEW parent \in Known({"dir"}), NEW name \in Names, NEW kind \in {"file", "dir"},
              AddEntry(parent, name, kind)
       PROVE  Heard'
  BY <1>3, <1>10 DEF AddEntry, BeginCreate, StartOp
<1>11. ASSUME NEW target \in Known({"file"}), NEW n \in 1 .. MaxFileBlocks, WriteData(target, n)
       PROVE  Heard'
  <2> DEFINE arguments == [NoTask EXCEPT !.kind = "write", !.target = target, !.blocks = n]
  <2>1. arguments.kind # "attribute"
    BY DEF NoTask
  <2>2. pc = "idle" /\ BeginWrite(target, NoList, arguments) /\ UNCHANGED <<torn, abandoned, mounts>>
    BY <1>11 DEF WriteData, StartOp
  <2> HIDE DEF arguments
  <2> QED BY <1>4, <2>1, <2>2
<1>12. CASE WriteEntries
  <2>1. /\ pc = "write_begin" /\ BeginWrite(task.target, out, task)
        /\ UNCHANGED <<torn, abandoned, mounts>>
    BY <1>12 DEF WriteEntries, ghosts
  <2>2. task.kind # "attribute"
    BY <1>2, <2>1 DEF TaskOK
  <2> QED BY <1>4, <2>1, <2>2
<1>13. CASE UpdateCatalog
  <2> DEFINE list == AddItem("system", ListOf(inodes[Catalog]), <<task.key, task.target>>)
  <2>1. /\ pc = "attr_catalog" /\ BeginWrite(Catalog, list, task)
        /\ UNCHANGED <<torn, abandoned, mounts>>
    BY <1>13 DEF UpdateCatalog, ghosts
  <2> HIDE DEF list
  <2> QED BY <1>4, <2>1
<1>14. ASSUME NEW b \in Blocks, Overwrite \/ Extend(b) PROVE Heard'
  <2>1. /\ pc = "write_block" /\ pc' \in {"write_block", "write_inode"} /\ UNCHANGED task
        /\ UNCHANGED <<journal, spilled, torn, abandoned, mounts>>
    BY <1>14 DEF Overwrite, Extend, WriteBlock, ghosts
  <2>2. \A m2, Open2 : Underway(pc, task, m2, Open2) => Underway(pc', task', m2, Open2)
    BY <2>1 DEF Underway, DataPoints, InodePoints, AttributePoints
  <2> QED BY <2>1, <2>2, SilentHeard
<1>15. ASSUME NEW b \in Blocks, StoreNew(b) \/ FreeOld PROVE Heard'
  <2>1. /\ pc \in AttributePoints /\ pc' \in AttributePoints /\ UNCHANGED task
        /\ UNCHANGED <<journal, spilled, torn, abandoned, mounts>>
    BY <1>15 DEF StoreNew, FreeOld, AttributePoints, ghosts
  <2>2. \A m2, Open2 : Underway(pc, task, m2, Open2) => Underway(pc', task', m2, Open2)
    BY <2>1 DEF Underway, DataPoints, InodePoints, AttributePoints
  <2> QED BY <2>1, <2>2, SilentHeard DEF AttributePoints
<1>16. CASE WriteInode
  <2>1. /\ \/ pc = "create_inode" /\ pc' = "create_bitmap"
           \/ pc = "write_inode" /\ pc' = "write_bitmap"
           \/ pc = "attr_inode" /\ pc' = "attr_catalog"
        /\ UNCHANGED task /\ UNCHANGED <<journal, spilled, torn, abandoned, mounts>>
    BY <1>16 DEF WriteInode, ghosts
  <2>2. \A m2, Open2 : Underway(pc, task, m2, Open2) => Underway(pc', task', m2, Open2)
    BY <2>1 DEF Underway, DataPoints, InodePoints, AttributePoints
  <2>3. pc # "down" /\ pc' # "down"
    BY <2>1
  <2> QED BY <2>1, <2>2, <2>3, SilentHeard
<1>17. CASE SyncMetadata
  <2>1. /\ \/ pc \in InodePoints /\ pc' \in InodePoints
           \/ pc \in DataPoints /\ pc' \in DataPoints
           \/ pc \in AttributePoints /\ pc' \in AttributePoints
        /\ UNCHANGED task /\ UNCHANGED <<journal, spilled, torn, abandoned, mounts>>
    BY <1>17 DEF SyncMetadata, SaveBitmap, SaveSuperblock, ghosts, locals, InodePoints, DataPoints,
                 AttributePoints
  <2>2. \A m2, Open2 : Underway(pc, task, m2, Open2) => Underway(pc', task', m2, Open2)
    BY <2>1 DEF Underway, DataPoints, InodePoints, AttributePoints
  <2>3. pc # "down" /\ pc' # "down"
    BY <2>1 DEF DataPoints, InodePoints, AttributePoints
  <2> QED BY <2>1, <2>2, <2>3, SilentHeard
<1>18. ASSUME NEW b \in Blocks, ExtendBeyond(b) PROVE Heard'
  BY <1>2, <1>18, FailHeard DEF ExtendBeyond
<1>19. CASE CatalogUnreadable \/ InodeTooLarge \/ NoSpace
  BY <1>2, <1>19, FailHeard DEF CatalogUnreadable, InodeTooLarge, NoSpace
<1>20. CASE Crash
  BY <1>20, CrashHeard
<1>21. CASE Mount
  BY <1>21, MountHeard
<1>22. CASE UNCHANGED vars
  BY <1>22 DEF vars, locals, ghosts, Heard, Loud, Reports
<1> QED BY <1>5, <1>6, <1>7, <1>8, <1>9, <1>10, <1>11, <1>12, <1>13, <1>14, <1>15, <1>16, <1>17, <1>18,
           <1>19, <1>20, <1>21, <1>22, BlockNumbers DEF Next

\* A device whose last operation was not cut short is sound.
LEMMA SettledIsWhole ==
  ASSUME SoundInv, Settled
  PROVE  ~ Damaged
<1>1. Typed /\ Consistent
  BY DEF SoundInv, Inv, Settled
<1>2. /\ View = inodes /\ AllReadable(inodes, Lists, {}) /\ Named(inodes, Lists)
      /\ \A b \in Live(inodes) : Lists[b] = ListOf(inodes[b])
  BY SettledLists DEF Listed
<1>3. disk_bits = Used
  BY <1>1 DEF Consistent, BitmapSaved, Used, Settled, InTransaction
<1>4. Unshared(inodes) /\ AllRefs(inodes) \subseteq disk_bits
  BY <1>1, <1>2, <1>3 DEF Consistent, Exact
<1>5. ASSUME NEW b \in Live(inodes), inodes[b].kind \in {"dir", "system"}
      PROVE  Decodes(inodes[b]) /\ \A e \in ListOf(inodes[b]).items : inodes[e[2]].kind # "none"
  <2>1. Decodes(inodes[b])
    BY <1>2, <1>5 DEF AllReadable, Readable, Decodes, ListKinds
  <2>2. \A e \in ListOf(inodes[b]).items : inodes[e[2]].kind \in {"file", "dir"}
    BY <1>2, <1>5 DEF Named, ListKinds
  <2> QED BY <2>1, <2>2
<1> QED BY <1>4, <1>5 DEF Damaged

\* A mount that finds a block used twice, a block used and marked free, a list that
\* cannot be read or an entry without an inode says so: up to the first remount, while
\* the journal stays in its first block, and but for an inode whose set_attribute
\* failed (check_recovery, UnaFS::mount).
THEOREM UnaFSDamageDetected == Spec => []DamageDetected
<1>1. Init => Heard
  BY InitHeard
<1>2. Heard /\ SoundInv /\ [Next]_vars => Heard'
  BY StepHeard DEF SoundInv, Inv
<1>3. Heard /\ SoundInv => DamageDetected
  <2> SUFFICES ASSUME Heard, SoundInv, mounts = 0, ~ spilled, abandoned = {}, Damaged
               PROVE  FALSE \notin CheckRecovery(journal)
    BY DEF DamageDetected
  <2>1. PICK m, Open : Underway(pc, task, m, Open) /\ Loud(m, Open)
    BY DEF Heard
  <2>2. NothingBehind(journal) /\ \E f : Session(journal, f, Reports(m, Open))
    BY <2>1 DEF Loud
  <2>3. torn \/ InTransaction
    BY SettledIsWhole DEF Settled
  <2>4. Reports(m, Open) \subseteq Dirty(Blocks)
    <3>1. CASE pc # "down" \/ ~ torn
      <4> DEFINE k == IF torn THEN 1 ELSE 0
      <4>1. m \in Nat /\ m + k \in Nat /\ (m + k > 0 \/ Open # {})
        BY <2>1, <2>3, OpenIs DEF InTransaction
      <4>2. Reports(m, Open) = AtLeast(Blocks, m + k, Open)
        BY <3>1 DEF Reports
      <4> HIDE DEF k
      <4> QED BY <4>1, <4>2, AtLeastDirty
    <3>2. CASE ~ (pc # "down" \/ ~ torn)
      BY <3>2 DEF Reports
    <3> QED BY <3>1, <3>2
  <2>5. Scanned(journal.image).acc \in Dirty(Blocks)
    BY <2>2, <2>4, SessionScan
  <2>6. CheckRecovery(journal) = {TRUE}
    BY <2>2, <2>5, NotAstray, Reported
  <2> QED BY <2>6
<1> QED BY <1>1, <1>2, <1>3, SoundAlways, PTL DEF Spec
================================================================================
