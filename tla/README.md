# A verification development for UnaOS

TLA+ models of the parts of UnaOS that keep state or compute something worth
checking, TLC runs that check them on small instances, and TLAPS proofs of what
holds for every instance. The reference is the Rust source; line numbers are
those of the files under `src/`.

## 1. The system

| component | where | state it keeps | operations | modelled in |
|---|---|---|---|---|
| UnaFS journal | `libs/unafs/src/wal.rs` | ten blocks of length-prefixed records, a write offset in memory | `log`, `reset`, `check_recovery` | `Wal`, `Journal` |
| UnaFS core | `libs/unafs/src/{fs,bitmap,superblock,inode,catalog,storage}.rs` | superblock, bitmap, inodes, directories, the attribute catalog, on the device and partly in memory | `format`, `mount`, `create_inode`, `mkdir`, `create_file`, `write_data`, `set_attribute` | `UnaFS`, `SpaceMap` |
| UnaFS file data | `fs.rs` `write_data`, `read_from_extents` | extents of a file, bytes of blocks | write, read | `Extents`, `ByteFile` |
| UnaFS attributes and queries | `fs.rs`, `catalog.rs`, `query.rs` | the two maps of an inode, the catalog | `set_attribute`, `get_attribute`, `query` | `AttributeQuery` |
| Vein | `handlers/vein/src` | the brain's inbox and position, memories in the vault, detached tasks | handler of UI events, recall, dispatch, `/clear`, `/directive`, save | `Vein` (partly) |
| Lumen and its console | `apps/lumen/src`, `libs/quartzite/src/platforms/gtk/spline.rs` | channels, staged payloads and pulses, recycled rows, the draft and its timer | ask, dispatch, delete, show an update, edit, scroll | `Channels`, `Console`, `Lumen`, `StagingRows`, `Draft` (partly) |
| Bandy and the core | `libs/bandy/src`, `apps/lumen/src/core.rs` | a broadcast channel, a receiver's place, the Cortex vault | fire, subscribe, receive, imprint | `Bus` |
| Kernel xHCI driver | `unaos/crates/kernel/src/xhci*` | command, event and EP0 rings, port and slot state, one descriptor buffer | reset, port scan, `poll_events` | `Xhci`, `EventRing` (partly) |
| Kernel interrupts and input | `interrupts.rs`, `pal.rs`, and what takes the same locks | the interrupt flag, spin locks, two PICs, a queue of events | handlers, push, pop, start-up | `Kernel` |
| Kernel PCI | `pci.rs` | none | scan, base address, find by class | `Pci` |
| UnaOS network | `unaos/crates/net/src` | none | ARP packets, IPv4 headers | `Net` (partly) |
| Gneiss PAL | `libs/gneiss_pal/src/api/mod.rs` | a token per client | request, refresh, retry | `ApiClient` (partly) |
| Resonance | `libs/resonance/src` | audio graph, command ring, block and offset | build, callback, push; FFT | `Resonance`, `Fft` (partly) |
| Amber Bytes | `handlers/amber_bytes/src/main.rs` | a running command over two files or devices | image, extract, wipe | `AmberBytes` |
| Lux | `libs/lux/src/parser.rs` | none | walk over image directories, ARW2, demosaicing | `Lux` (partly) |
| Euclase | `libs/euclase/src` | none | vectors, quaternions, matrices | `Euclase` (partly) |
| Una, Elessar, small handlers, Stria, Vug, command line tools, loader, page tables | see `PROJECT.json` | | | no |

How they interact. The kernel is a program of its own and shares no code with
the rest. In Lumen, the GTK main thread and Vein talk over two unbounded
channels: UI events one way, updates the other. Vein's handler passes events to
the brain's inbox; the brain serves one after the other, spawns detached tasks
that save memories, and holds the vault's mutex whenever it or they use UnaFS.
The core of Lumen listens on Bandy's bus and burns what it hears into a UnaFS
vault of its own. Clients of the language model belong to the brain or to a
detached task, each with its own token.

What is hard, and what makes each part correct:

- **UnaFS** runs no transaction. Every operation is a sequence of block writes
  (journal record, data, inode, bitmap, superblock), a process may die between
  any two, errors return in the middle and undo nothing, and the journal is only
  read to decide whether to print a warning. It is correct when no block has two
  owners and every owned block is marked; directories and the catalog decode and
  name live inodes; a file reads as what was written; a query returns what a
  scan would; and when a crash broke any of this, a mount says so.
- **The xHCI driver** waits for one thing at a time and goes by what it waits
  for, while ports change under it and completions arrive when they like. It is
  correct when a completion is given to who asked for it, the shared buffer holds
  what its reader expects, its rings are not overrun, and a device left alone is
  read in the end.
- **Kernel input**: handlers interrupt code that may hold the lock they want,
  and a line not acknowledged stays silent; a fault may strike anywhere, and its
  handler prints. Correct: nothing but such a report spins on a lock of what it
  interrupted, every line served, events in order.
- **Lumen**: a staged payload is locked by its dispatch and unlocked by an
  outcome that does not say which payload it is about, between answers, errors,
  clears and deletions. Correct: nothing stays locked without an outcome to come,
  nothing locked is deleted, a question does not find itself as a memory.
- **Rows and draft**: rows are recycled with the handlers of what they showed; a
  timer saves a draft that may have been sent. Correct: a row acts on its item, a
  sent message is no draft.
- **Bus, client, devices, audio**: a receiver may lag; a token may expire between
  a refresh and its use; reads and buffers are cut anywhere. Correct: in order
  and once; refused only with a fresh token; reports match what was done; the
  card hears the patch.

The hazards are listed, each at its line, in `PROJECT.json`.

## 2. Modules

| module | models | is used by |
|---|---|---|
| `Wal` | `wal.rs` as operators on a region of records | `Journal`, `UnaFS`, `WalProofs` |
| `Journal` | a journal through operations, failures, crashes and mounts | its runs, `JournalProofs` |
| `SpaceMap` | `bitmap.rs` and the free count, as operators | `UnaFS`, `Extents` |
| `UnaFS` | every operation, one action per device write | its run, `UnaFSProofs` |
| `Extents` | the bytes of one file | `MCFiles`, `FilesProofs` |
| `ByteFile` | what a file promises: a sequence of bytes | `Extents` implements it |
| `AttributeQuery` | attributes, catalog, queries | `MCFiles`, `FilesProofs` |
| `Fifo` | what a queue promises | `EventRing` and `Kernel` implement it |
| `EventRing` | the ring of TRBs with cycle bits, driver and controller | `MCKernel`, `KernelProofs` |
| `Xhci` | the driver against the controller and the people who plug | its run, `XhciProofs` |
| `Kernel` | one processor with its interrupts and locks, the input queue | `MCKernel`, `KernelProofs` |
| `Channels`, `Vein`, `Console`, `Lumen` | Vein and the console, and their composition | the run `Lumen`, `LumenProofs` |
| `StagingRows`, `Draft` | recycled rows; the draft | `MCParts`, `PartsProofs` |
| `Bus` | the bus and the core that listens | `MCParts`, `PartsProofs` |
| `ApiClient` | requests, refusals, refreshes | `MCParts`, `PartsProofs` |
| `Resonance` | the audio graph and engine | `MCParts`, `PartsProofs` |
| `AmberBytes` | image, extract, wipe | `MCParts`, `MCAmber`, `PartsProofs` |
| `Fft`, `Euclase`, `Lux`, `Net`, `Pci` | pure algorithms with their definitions | `MCLibraries`, `PartsProofs` |
| `MCFiles`, `MCKernel`, `MCLibraries`, `MCParts`, `MCAmber` | instances and values for TLC | the runs |

The modules named `...Proofs` hold the proofs.
Definitions whose comment begins with "Mutant" are defects, used to check that
the properties can fail; no specification uses them.

### Wal, Journal

A region is the set of records whose first byte is intact, each with its byte
position, and the `remains`: the positions that hold the tail of a record whose
head was overwritten. All else is zero. `check_recovery` reads from position
zero, record after record, skips to the next block when no length fits, and stops
at zeros. `Advance` is one turn of the loop over whole records, `Scanned` the
turns as a recursive function, so that proofs can follow it record by record. A
mount logs from position zero over the records of the mount before, and its last
record may end inside one of those. The loop then goes on and takes what stands
there for a length and a record (`Astray`); what it makes of the bytes is left
open, so that `CheckRecovery` is the set of what it may report. An example with
the real sizes: a mount that creates eight inodes, 20 to 27, and sets an attribute
`description` of inode 21 logs 8 * (35 + 20) + 48 + 20 + 20 + 20 = 548 bytes, and
the next mount, with eight more inodes and a key `tag`, 540. The last record of the
first mount, `EndOp { 21 }`, began at 528; of it the eight bytes of the 21 are left, at
540. The third mount's scan reads them as a length of 21, and the 21 zeros behind
them as `BeginOp { op_id: 0, desc: "" }` with five bytes too many, which bincode
does not mind: the device is reported dirty, with nothing unfinished.

Record lengths are two constants, for records with and without text. `Journal` runs
the scripts of Begin and End records that `create_inode_internal`, `write_data` and
`set_attribute` log, and lets any of them fail, the process die, and the device be
mounted again. `spilled` remembers that the journal has left its first block or
started over, which is where the scan may miss what was written; the properties
about false and missed alarms speak of what comes before, the one about false
alarms also of scans that are not astray.

### UnaFS

`pc` is the place of the running operation in the code. The actions, in the
order of `fs.rs`:

| operation | actions |
|---|---|
| `create_inode` | `CreateInode`, `WriteInode`, `SyncMetadata` twice, `EndCreate` |
| `mkdir`, `create_file` | `AddEntry`, as above, then `WriteEntries` and a write |
| `write_data` | `WriteData`, then per block `Overwrite` or `Extend`, `WriteInode`, `SyncMetadata` twice, `EndWrite` |
| `set_attribute` | `SetAttribute`, `FreeOld`, `StoreNew` per block, `SyncMetadata`, `WriteInode`, `UpdateCatalog` and a write of the catalog, `SyncMetadata`, `EndAttribute` |
| errors in the middle | `NoSpace`, `InodeTooLarge`, `ExtendBeyond`, `CatalogUnreadable` |
| process and mount | `Crash`, `Mount` |

An operation that fails before its Begin record changes nothing and is a
stuttering step. A block holds an inode, an entry list, or file data, which is
taken to be zeros. An entry list fits in one block; what it says of its own
length decides whether it decodes within the inode's size. A bitmap is one block
(128 MB of device), so saving it is one write. Writes start at offset zero, as
every caller's do. Writes of the host file are durable in order; it is the
process that dies, not the host.

### Extents, ByteFile; AttributeQuery

`Extents` is `write_data` on the bytes of blocks, one step per write, with other
files taking and giving back blocks in between and leaving their bytes.
`ByteFile` is the abstract file; `seen`, what reading the whole file returns, is
the refinement mapping. In `AttributeQuery`, `latest` remembers the last value
given to each key, `missing` the values that never got an entry, and `QueryExact`
compares `query` with a scan over `latest`.

### EventRing, Fifo, Xhci

`EventRing` has the ring as `event.rs` does: entries with a cycle bit, the
driver's index and expected cycle, and the controller, which writes where it
stands and stops before the pointer the driver last reported. It implements
`Fifo`, a queue from which what is taken is what was put, once and in order.
`Xhci` therefore has queues for commands and events. Each access to a port
register is a step of its own: `PollPort`, `AckReset`, `ReadChange`,
`AckConnect`, `ResetPort` are the reads and writes of `poll_events` and
`handle_port_change`, `ScanRead` and `ScanWrite` those of `scan_ports`, and the
port may change between any two. `PollCommand` and `PollTransfer` are the other
branches of `poll_events`, with the code's own order of tests. The controller
follows what the driver's comments and uses say of it: write-one-to-clear change
bits, PR set by one, PED kept ("Preserve other R/W bits"), commands refused in
the wrong state, a control endpoint that starts at entry zero after an address
command. The kernel of this commit calls `xhci::init`, which resets the
controller and scans, and nothing calls `XhciController`'s methods: the order in
which a caller would is the one their comments give.

### Kernel

Code is a sequence of steps (`lock`, `unlock`, `cli`, `restore`, `push`, `pop`,
`eoi` and so on), read off the functions that run on one processor; a frame is
interrupted code, a handler or the handler of a fault. An interrupt may come
between any two steps that run with interrupts enabled, a fault before any step
once there is a table: of kernel code, of a handler, of another fault's handler.
The two interrupt controllers hold back the lines behind one in service. All but one
lock of kernel code are taken with interrupts disabled; `init_heap` takes the
heap's with interrupts on, which is harmless because no handler allocates. The
model lets kernel code call it, like the rest, in any order and again. The handlers
of faults print and halt. They print several times; one stands for all, since each
takes and gives back the same lock. When a fault strikes while the serial port is
held, by a print or by another report, its own report spins on it for ever: the
model does, too, and `OnlyFaultsSpin` says that this befalls nothing else.

### Channels, Vein, Console, Lumen

A step of the brain runs from one await to the next at which another task could
make a difference; a use of the vault is one step, as the code holds its mutex
throughout. The text of a message is a symbol, so what the vault recalls is the
set of what a search may find. Each callback of the console is one step, because
GTK runs them on one thread. `Lumen` conjoins the two with their channels and
states the fairness.

### The others

`StagingRows` has one text field for the four of a row. `Draft` has timers with
the text they were made with. `Bus` keeps all messages fired; the channel holds
the last `CHANNEL` of them, and a receiver further behind is told how many it
missed. In `ApiClient`, `issued` is the one token the server accepts; a refused
request is a step, and the end of the `gcloud` that fetches another one a step of its
own. In `AmberBytes` a read may be short, any step may fail, the process may be
killed and somebody else may write to the target. The target is a file or a block
device (`device`), for which `metadata().len()`, the length every command goes by, is
0 on Linux. `Resonance` computes integer samples
(sines of quarters of the sample rate); `Ideal` is the patch without blocks.
`Fft` computes in the integers modulo `Modulus`, with a `Root` of order `MaxSize`
in the place of the complex one, where the same steps can be compared exactly; in
the run 2 is a root of order 8 modulo 17. `Euclase` multiplies divisions out. `Lux`
has the directories of a file as records of tags that carry over from one to the
next as in `parse_arw`, cuts the compression to 16 bits, multiplies sizes modulo
`Wide` in the place of 2^32, and panics where the code does (a width of 0, fewer
samples than pixels). `Net` and `Pci` have packets and functions as records. In `Net`,
`process_packet` and `payload` are what they return; `ingress` calls the first, drops
the reply, and never calls the second, so that nothing is answered in this commit.

## 3. Runs

| run | shows | bounds, and why they are enough |
|---|---|---|
| `Journal` | records stay whole and in place; no false alarm and no missed torn transaction, within provisos (first block; no remains under the scan, or no remount) | 2 blocks of 20 bytes, records of 4 and 7: three to five fill a block, seven records spill, wrap and start over; 2 mounts, so that a journal overwrites records of two earlier lives |
| `JournalSpill` | a Begin record behind a block's end is not seen (finding) | 6 records |
| `JournalRemains` | the tail of an old record may be read as a record (finding) | one block that 6 records fit in, so that only the remains can be the reason; 2 mounts |
| `UnaFS` | allocation, directories, catalog, damage | 8 blocks and a bitmap of 9, so that there is a bit past the end of the device; 3 operations, 1 mount, files and attributes of 2 blocks: creating, setting and replacing a large attribute, filling the device, overflowing an inode and any crash in between all happen |
| `MCFiles` | extents tile the file; it implements `ByteFile`; queries equal a scan | 4 blocks of 2 bytes, files of 5 bytes: three blocks, fragmented by the fourth, short of space; 2 inodes, 2 keys with one hash, strings and vectors, two values each of which one is large, catalog of 2 entries |
| `ExtentsSparse` | a write past the end of a file can be mapped nowhere (finding) | writes up to 4 bytes past the end |
| `Xhci` | completions are attributed, the shared buffer is current, commands do not run out, a storage device is read | 2 ports and 2 slots, EP0 ring of the code's 16 entries, 2 devices plugged in: at one port again, at both, at any moment, pulled out at any moment |
| `Lumen` | locks are awaited, what is locked is kept, a question is no memory of itself; all is served | 2 questions, 2 dispatches (two in flight, with an answer and an error in either order, or one dispatched again after an error), 1 other command: a clear, a directive or a deletion |
| `MCKernel` | the two queues, the locks, the interrupts | an event ring of 3 entries and 5 events, so that cycle bits flip twice; the timer and the keyboard, 4 interrupts, a queue of 3, so that it is full and drops, 2 calls of kernel code after the start, 3 frames: a handler over kernel code, and a fault of either, or of another fault's report |
| `MCParts` | seven parts that share nothing (below) | each at its own bounds |
| `AmberWipe` | a wipe of a device writes nothing and reports success (finding) | `AmberBytes` alone (`MCAmber`), files and devices of at most 4 bytes |
| `StagingRowsScroll` | scrolling overwrites a payload (finding) | 2 stagings, 1 other item, 2 rows |

`MCFiles`, `MCKernel` and `MCParts` hold components that share no state. A behaviour runs
one of them, chosen at the start, while the variables of the others stand still,
so that the state space is the sum of theirs and not the product; each property
is the component's own, and each fairness too. `MCLibraries` picks an algorithm
and an input (a file of directories in two steps) and compares what it returns with
its definition: every
rotation of quaternions over -1..1, cameras over ten directions, FFTs of up to 8
samples, files of two directories, rows of 18 samples, ARP packets and IPv4
headers with every field at its edge, PCI machines of up to five functions on
two buses. `Resonance` plays all graphs of three nodes and two wires, cycles and
gaps included, in blocks of 2 for 4 frames, cut in buffers of 1 to 3;
`AmberBytes` has files of at most 4 bytes, block sizes 0, 1, 2, 4 and chunks of
2, so that remainders, empty files and empty reads occur; `ApiClient` two
clients, two calls each, three tokens; `Bus` a channel of 2 and four messages,
so that it lags; `Draft` three texts and two starts.

Deadlock is not checked where a system may stop for good: after a crash with no
mount left, when the kernel halts, or when the bounds are used up.

### Fairness

Liveness is stated where something waits:

| module | fair | why |
|---|---|---|
| `Xhci` | a reset ends, commands and doorbells are served; the driver's loops run and its caller polls again | the controller is hardware that goes on by itself; `scan_ports` is a loop, `poll_events` is called in one. Nobody has to plug anything in or out |
| `Kernel` | `Execute`, `Return`, `Interrupt` of each line | the processor; devices need not raise anything, kernel code need not call anything |
| `Lumen` | the handler's task, the brain, the detached tasks, the main loop | tokio's scheduler polls its tasks, GTK's main loop its receivers; the user may do nothing more |
| `ApiClient` | `Respond` | the client's time limit of 300 seconds ends a request, given a free thread: `gcloud` blocks one, but tokio's runtime here has several. Nothing is assumed of `Made` and `Refresh`: `gcloud` is run with `Command::output()`, which has no limit. `CallsReturn` is therefore conditional, "if every `gcloud` a call runs ends" |
| `Draft` | `Save` | the main loop runs its timers |
| `Bus` | `awaken`, `Subscribe`, `recv` | tokio polls the core's task |

UnaFS states none: an operation runs to its end by itself, in one thread.

### Findings

1. `JournalSpill`: the zeros at the end of a block end the scan, so that from the
   first block boundary on no Begin record is seen.
2. `JournalRemains`: the tail of a record of the mount before is read as a record;
   the device may be reported dirty with every transaction closed (example in
   section 2).
3. `ExtentsSparse`: a write past the end of a file extends the last extent over
   the gap, and the bytes written are covered by no extent.
4. `AmberWipe`: a wipe of a block device writes no byte and reports it neutralized.
5. `StagingRowsScroll`: a row's text is set while the handlers of the item it
   showed before are connected; that item's text is overwritten.

More disagreements are kept as definitions beside the models. None is a run's
property; named as an INVARIANT, TLC refutes each.

| definition | what the code does |
|---|---|
| `Journal!DirtyMeansUnclosed`, in blocks of 20 bytes | an End record behind a block's end is not seen, and a finished operation is reported as torn |
| `UnaFS!AllocatedOnDevice` | after a mount, the bitmap takes its capacity for the device's size and blocks past the end are allocated |
| `UnaFS!FormattedIsWritable` | a file system formatted on an empty file cannot be written to: a new block is read before it is written |
| `UnaFS!DamageAlwaysDetected` | mounting does not reset the journal; stale records hide a torn transaction |
| `AttributeQuery!AllAreRetrieved` | attributes given to `create_inode` are in no query's reach, among them the type by which Vein looks for its memories |
| `Xhci!AssumedAddressed` | with two devices a completion is given to the wrong command, and a descriptor asked of a slot that is not addressed |
| `Lumen!LastLockedIsMutated` | an answer turns the last locked payload of the list into a message, not the one locked last |
| `AmberBytes!BitPerfect` | with blocks of size 0 the first read is taken for the end, and an empty image is reported as complete, against `main.rs:46` |
| `AmberBytes!BytesCopied` | the bytes reported as copied are what `metadata` said when the source was opened: 0 for a device, and wrong of a file that changes its length |
| `Lux!StopsAtRaw`, of a file of two directories | whether a directory is raw is judged by tags of earlier ones, too, against the comment at `parser.rs:151` |
| `Kernel!MouseIsHandled`, with line 12 among `Lines` | the mouse's vector is computed from the second controller's offset plus 12 instead of plus 4 (`interrupts.rs:64`), and has no handler |
| `Lumen!ClearedIsForgotten` | a task that saves a memory may do so after `/clear` has emptied the vault |

Two more, seen in `Journal` with other bounds: the journal starts over in the
middle of a transaction (one block, six records), and the EndOp of a retried
`set_attribute` closes the one that failed (five records).

## 4. Proofs

`tlapm` checks every theorem and lemma of eight modules: `JournalProofs` and the
`WalProofs` it shares with UnaFS, `UnaFSProofs`, `FilesProofs`, `KernelProofs`,
`XhciProofs`, `PartsProofs` and `LumenProofs`.

They start from the assumptions the modules state about their constants, which
TLC evaluates on every run: `WalAssumption` (a record fits in a block),
`UnaFSAssumption`, `ExtentsAssumption`, `AttributeAssumption`, `EventIsNonEmpty`, `SizeIsTwoOrMore`,
`XhciAssumption` (a port, a slot, and room for one control request in the EP0
ring), `KernelAssumption`, `ConsoleAssumption`, `TextIsNonEmpty`, `FftAssumption` (the
largest size is a power of two and half a turn of the root is -1, which is what
a root of unity of that order is). Some theorems have a hypothesis of their own:

| hypothesis | says | why |
|---|---|---|
| `ApiBounds`, `ConsoleBounds`, `FieldBounds`, `SpineBounds`, `AmberBounds`, `AmberFilesFit`, `AudioBounds` | the bounds of a component of `MCParts` are numbers, and not zero where that would leave nothing to do; the files are sequences of the bytes the model has, the nodes of a patch of its three types, and a sine starts at phase 0, as `SineOscillator::new` has it | those modules check several components, and each theorem is about one |
| `HandledLines` | every line that interrupts is the timer's or the keyboard's | the mouse's has no handler (`MouseIsHandled`, section 3) |
| `PciMachine`, `NetHeader`, `LuxFile`, `LuxRow`, `Samples` | the input of an algorithm is of its kind: functions at addresses the bus has; words of 16 bits, as many as the header length of four bits says; a file of at least one directory; a row whose samples are no further apart than the seven bits of the format; a buffer of residues, of a size that is a power of two up to `MaxSize` | there is no other; of a row that the format cannot express nothing is promised |
| `NoGap` | no write starts past the end of its file | such a write loses its bytes: the finding `ExtentsSparse` |

| theorem | what holds for every value of the constants |
|---|---|
| `JournalTypeOK` | the write offset and the records stay inside the region |
| `JournalRecordsStayWhole` | no record is cut by a later one or straddles two blocks |
| `JournalOnlyAppends` | until it starts over, a mount keeps all it has logged |
| `JournalNoFalseAlarm` | in the first block, over any number of mounts, a scan that comes to no remains of a record reports something open only if something was begun and not ended |
| `JournalTornIsDirty` | in the first block, up to the first remount and but for a `set_attribute` given up, what was begun and not ended is found |
| `UnaFSTypeOK` | no block number leaves the bitmap, no free count the device |
| `UnaFSAllocationExact` | while no operation is cut short, the bitmap marks the blocks in use and no other, each with one use |
| `UnaFSNothingPending` | between two operations the device has the bitmap and the free count |
| `UnaFSFreeCount` | the free count is what the bitmap leaves free, exactly until a remount and never less after it |
| `UnaFSEntriesSound` | between two operations every directory and the catalog decode, and every entry names an inode that no other names |
| `UnaFSCatalogComplete` | between two operations every attribute stored is in the catalog |
| `UnaFSDamageDetected` | what a crash or an error damaged is reported by a mount, with the provisos of `JournalTornIsDirty` |
| `ExtentsTileTheFile` | extents map every byte of the file once, to blocks of its own |
| `ExtentsImplementByteFile` | a file of extents implements a sequence of bytes |
| `QueriesAreExact` | a query returns the inodes whose last value satisfies it, but for values that never got an entry |
| `EventRingTypeOK`, `EventRingFreshIsPosted` | an entry looks fresh exactly when it was posted and not taken |
| `EventRingIsFifo` | the ring of cycle bits implements a queue |
| `XhciTypeOK` | registers, contexts, commands and events keep their types; both indices into the EP0 ring stay in it, or one past it |
| `XhciCommandsPerPlug` | no more than three commands are pushed for each device plugged in, whatever the order of events |
| `XhciStages` | one device goes through six stages, each with what is then in the queues, the ring and the buffer |
| `XhciAttribution` | with one device the driver gives every completion to the command it completes |
| `XhciBufferIsCurrent` | with one device the shared buffer holds what it is taken for |
| `KernelInvariant` | where the processor is, and which locks it holds there, unless a fault came over it |
| `KernelOnlyFaultsSpin` | wherever faults strike, no code but a fault's report spins on a lock it or what it interrupted holds |
| `KernelInterruptsAreFinished` | every interrupt of a line with a handler is acknowledged before kernel code goes on |
| `KernelEventsAreFifo` | the queue of input events is one, under all interleavings |
| `LumenInvariant`, `LumenTypeOK` | the inductive invariant of Lumen; its types |
| `LumenLockedIsAwaited` | no more stagings are locked, nor pulses shown, than outcomes are to come |
| `LumenLockedIsKept` | what the dialog would delete is not locked; it may be in flight, once an error has unlocked all |
| `LumenNoSelfRecall` | what is recalled for a prompt is not the memory it becomes |
| `ApiClientRefreshIsExact`, `PartsRefreshIsExact` | a call gives up as unauthorized only after a token fetched for it was refused; the token fetched is kept |
| `BusImprintsInOrder`, `PartsImprintsInOrder` | the core imprints once and in order, and goes on past a kill only if told it missed it |
| `AmberBytesReportsAreTrue`, `PartsReportsAreTrue` | of files, an image, an extraction and a wipe reported complete are; of devices, the hash and the extraction |
| `StagingRowsAreTheirs`, `PartsInputIsKept` | a recycled row acts on the item it shows; a message that was sent is no draft and becomes none |
| `ResonancePlaysThePatch`, `PartsPlaysThePatch` | the card is given the sound of the last node, sample by sample, whatever the patch, the block size and the buffers it asks for |
| `PciScanFindsXhci` | the scan finds an xHCI controller if there is one, and nothing else |
| `NetArpConverses`, `NetChecksumIsExact` | `process_packet` makes a reply exactly for a request for its address, to the asker, and none for a reply; a checksum of any header is the RFC's |
| `LuxFirstRawIsDecoded` | what is decoded is at the first directory up to which the tags, each as last given, say a raw image, for any file; it panics only on a width of 0 or too many pixels to count |
| `LuxArwRoundTrip`, `LuxDemosaicIsExact` | rows of any length come back as they were compressed; of a picture of any size in one colour, every pixel inside gets that colour |
| `PartsInputsAreDecoded` | the six above, of whatever `MCParts` reads beside its other components |
| `EuclaseRotationComposes`, `EuclaseRotationIsRigid` | rotations compose as their quaternions multiply, and keep lengths and angles, for all quaternions of integers |
| `EuclaseCameraLooks`, `EuclaseDepthRange` | a camera sees its target straight ahead and what is up above; depth goes from one end of its range to the other |
| `FftIsExact` | the in-place transform is the transform by its definition, for every power of two up to `MaxSize` and every buffer |
| `PartsArithmeticIsExact` | the five above, of whatever `MCParts` computes |

Where a component has two theorems, one is about it alone and `Parts...` about it
among those that `MCParts` runs beside it, which is what the run checks.

**Journal, records.** The inductive invariant is `TypeOK` with `Sound`: besides
being whole, no record of the region reaches over the write offset from below.
Without that, a record written at the offset could cut the one before it. The
arithmetic is in five lemmas about blocks; `PlacementFits` and `EndsInBlock`
say where `log` puts a record, `LogIsSound` that a log keeps the region sound,
whichever of its three paths it takes. The assumption that a record fits in a
block is needed by the code itself: `log` recurses for ever without it.

**Journal, scans.** A scan is a recursive function, and what it returns has to be
known before it runs. The invariant therefore holds a certificate `f`, which gives
for each record a set of accounts a scan may have when it gets there, closed
under the step from a record to the next. `ScanKeeps`, by induction over
the turns of the loop, says that the scan then ends in what the certificate gives
for its end. Two certificates are kept. For `NoFalseAlarm`, `AtMost`: no more is
open than the running operation has begun, and a scan that reaches records of
an earlier mount with nothing open ends with nothing open (`Old`); a record that
overwrites one of those leaves the others as they were. Where the scan ends the
remains of one may begin, about which the certificate says nothing: hence the
proviso `~Astray`, which before the first remount is proved, since there is nothing
behind the offset then. For `TornIsDirty`,
`AtLeast`: no less is open than the running operation and the torn one have
begun, as long as nothing lies behind the offset. What is open at each point of
an operation's script is `Stage`. The attempt found an error in the model:
`spilled` had missed a reset of the journal at an offset no larger than the
record's length, as in a journal of one block that two records do not fit in,
where `TornIsDirty` was false.

**UnaFS, types.** `TypeOK` says nothing of the arguments of the running
operation, which later steps read. The invariant `Typed` adds them: an attribute
operation has a key, a write of entries has a directory to write to. One lemma
for each edit of an inode, one for each thing several actions do, then one step
for each action.

**UnaFS, allocation.** `AllocationExact` is about `View`, the inodes as the
running operation will leave them, and is not inductive. The invariant `Inv`
adds, for as long as no operation was cut short: the inode an operation works on
is one, and so are those it will turn to later (the catalog, the directory of a
new entry); its copy is on the device before the operation lets go of it
(`Stored`); the device has the bitmap (`BitmapSaved`) and the count
(`SuperblockSaved`) at every point after the write of one and before the next
allocation, which is why a crash between two operations costs nothing. TLC
checked `Inv` on small instances before it was proved. The argument: the places
of blocks form a set, each with its inode and its index there. An operation adds
a place on a block that was free (`ExactGrow`, from `GrowConsistent` for data and
attributes and `BeginCreateConsistent` for inodes), removes the places of one
attribute, whose blocks have no other (`ExactShrink`), or changes none: an
overwritten data block carries no inode, because a block has one use.

**UnaFS, free count.** `CountOK` relates the three numbers in memory, and the three
on the device while no process runs: the free count is never below the device's
blocks less those marked, and equal to it while the bitmap takes the device's
size for its own. It is an invariant of its own, not tied to `torn`: an error or
a crash leaves blocks marked that nobody uses, and their count is still right.

**UnaFS, entries.** `EntriesSound` and `CatalogComplete` speak of the moments between
two operations; the invariant `Sound` is about all of them, over `Inv`. `Contents`
are the lists as they will be read once the inode on its way is written, so that
a list on the device before the inode that gives its length (`Writing`) is no
exception. `Listed`: all lists but that one decode, every entry names an inode, no
two name the same, and every attribute stored, but the one being set (`BeingSet`),
is in the catalog. `Pending`: the entry being added names the inode just created,
which nobody else names. `Half`: a half-written list fits the inode that waits to
be written. A write of a list is safe because its block has one use, which is
`AllocationExact`.

**UnaFS, damage.** What is damaged while no operation was torn is excluded by the
two paragraphs above. When one was, the journal's certificate says that it is
reported: `Underway` gives what is open at each point of an operation, `Heard`
holds that a scan finds no less. `SettledIsWhole` joins the two.

**Extents.** `Maps` says that a list of extents maps the first `B` blocks of a file to
the blocks `f`, each position by exactly one extent, and what the last extent
is: the merge in `write_data` either lengthens it by the block behind its last
(`MergeMaps`) or starts another at the end (`AppendMaps`), and both map one block
more. The invariant is that there are such `f` and `B`, that the blocks of `f` are
different and marked, and that `seen` is their bytes. A write goes through
the blocks it touches in rounds; `After` is what holds after `k` rounds, proved by
induction: the bytes up to there are new and the others are as they were. A write
that runs out of blocks has replaced everything there was to replace, because it
only needs blocks past the end of the file. From this the step of `ByteFile`. The
proof found that `CASE` arms in `ByteFile`, `UnaFS` and `Lux` overlapped. TLC
takes the first arm that holds, and the meaning of the formula is a choice of
either; they are now chains of `IF`.

**Attributes.** What a query does with a candidate is what the property asks of an
inode, so that two things are to be shown. `LastIsHeld`: the value `get_attribute`
finds is the last one given, whichever of the two maps it is in, because each
write empties the other; an inode that does not exist holds nothing. `Entered`: a
last value that is not missing has an entry with its hash, which stays, as the
catalog only grows. Hashes may collide: the candidates are then too many, and the
value decides.

**EventRing.** `FreshIsPosted` follows from where each entry's cycle bit was last
written. The inductive invariant places driver and controller on one line of
positions, position modulo the size giving the entry and the lap the cycle bit:
the entries from the driver's position to the controller's carry the bit of
their lap, all others that of the lap before, and the controller is less than a
lap ahead because it stops short of the pointer it was last given. From it the
refinement of `Fifo`: the queue is the entries between the two.

**Xhci, commands.** A slot is asked for by a port event that finds the port enabled
and its reset finished. A spurious second event for the same reset would ask
again; that it cannot is a matter of the order of the driver's reads and writes.
`PortsOK` says what holds of a port between them: a reset that is over is still
marked when it is acknowledged, no port both in reset and enabled has the mark of
an earlier one, a port found to need a reset still needs it. Then the account
`Paid`: commands sent, those that must still follow (`Asked`: a port that waits,
commands in the queue, completions, a descriptor in the ring), and three for every
port that may still ask (`Owed`: `Hot`, a connected port whose reset has not been
noticed, and a read under way), are no more than three times the devices plugged
in. Plugging in pays, the read of a finished reset moves the three from the port
to the driver, and every later step spends what was set aside (`Cheap`). A
completion does not say which command it completes, so that each branch of
`poll_events` has to be cheap for any completion that can reach it; `CallsOK`
says which can: only slot 1 is configured, its completion comes when it is
awaited, and every completion that comes before it in the queue belongs before
it. No number of devices or slots is fixed.

**Xhci, one device.** The account leaves a single device no second request for a
slot, so that what was sent so far tells how far it has come. `Stage` has one
formula for each of the six points, from `Untouched` to `Streaming`; the steps of
the ports change none of them (`CalmStages`), and each of the others leads from
one to the next or stays. `Attribution` and `BufferIsCurrent` are read off them.
TLC checked `Account` and `Stage` with one and with two devices, and with rings
of 3 and of 16 entries, before they were proved.

**Kernel.** The invariant `KInv` lists where the processor can be: in kernel code
alone (`InMain`), in a handler over kernel code that had interrupts enabled
(`InHandler`), or in the handler of a fault, over anything (`InFault`). `MainAt` says
which locks are held at each place of kernel code: none when interrupts are on,
but for the heap's in the middle of `init_heap`, which no handler asks for. It rests
on the shape of the code: every lock a handler may want is taken in a guarded
call, `Guarded`, which disables interrupts, locks, does one thing, unlocks and
restores the flag it found. `CallGoes` follows such a call step by step; the same
lemma serves kernel code and handlers. Of a fault's handler no more is kept than that
it has interrupts off, prints and halts, which is why it is excepted from
`OnlyFaultsSpin` and why no line is promised service after one. The queue of
events needs that a push and a pop are one step to the other, which is this, and
arithmetic modulo its size.

**Lumen.** `LumenAwaited` is the heart: the locked stagings, and the pulses, are no
more than the dispatches and outcomes between the console and the brain, counted
in the two channels and the inbox. `Hits` counts the items of a sequence in a set,
and a handful of lemmas say how it changes with each kind of step. It needs
`LumenCold`, that nothing is dispatched before the brain has a client or when it
has none, since what it receives then gets no answer. For `NoSelfRecall`,
`LumenAsked`: a text is asked once, a question on its way is in one place, and has
not become a payload, a task or a memory.

**ApiClient.** The property speaks of idle clients; the invariant adds what holds
while a request is out or `gcloud` runs: a first attempt has fetched nothing, and a
second one carries what it fetched.

**Draft.** The texts and the timers are numbered in their order; at most one timer
runs, and it is the one the handler would cancel. Sending cancels it, and a text
that was sent is older than any text the draft can still get.

**Bus.** The invariant adds that the receiver stands between where it began and the
last message, so that what is handled next is behind everything imprinted.

**AmberBytes.** One conjunct for each command; those about the size and the wipe are
for files. `Hashed`: what has been hashed is the
destination followed by what the writer holds. `Read`: the buffer is the slice read
so far, unless somebody has written. `Past`: everything the wipe is past, or that
lies beyond the size it read, is clean. Slices and concatenations come from the
library's sequence theorems.

**StagingRows.** `RowsAreTheirs` is nearly inductive; the handlers of a row must be
those of stagings, and a row with handlers must show a text.

**Resonance.** `AudioInv`: until it plays, the engine is silent and every sine at its
start. Then let `snd` be the sounds of the patch (`AudioSounds`), each node's
written with those of the nodes before it; they are unique, and the last of them
is `Ideal`. The engine is somewhere in them (`AudioAt`): the phases of the
sines are those of the sample that comes next, but for whole turns; the buffer
holds a block of the last node's sound; the speaker has been given a prefix of it.
A block is node after node, sample after sample, so that a node reads the
samples that the nodes before it have just written; its own, where a patch
leads back, are not read, because only earlier nodes count.

**Libraries.** Each definition is compared with the code for every input of its kind,
and the inputs of `MCLibraries` are of their kind (`LibraryInv`). Where the code
loops, the definition is a recursive function; that it exists, and what it is
after each turn, is proved over the turns (`Climb`). `FirstRawIsDecoded`: after
each turn every tag kept is the one last given (`LuxCarried`), so that the walk
is at a raw image exactly if the tags up to there say so (`RawSoFar`); it has not been
before, or it has stopped at the first. `ArwRoundTrip`: after each turn the
pixels read so far are the first of the row, and the position in the codes is
what sixteen pixels for seventeen fields make of it. `ChecksumIsExact`: folding the
carries in keeps the sum modulo 65535, and twice is enough for at most thirty
words. The identities of `Euclase` are polynomials, multiplied out one entry at
a time.

**FFT.** Reversing the bits one by one is an involution, so that swapping each
entry with its mirror image once is the permutation by it. `HoldsParts` is what
holds after `s` stages: the block that starts at an index holds the transform of
every `n / 2^s`-th entry, from the mirror image of that index on. It holds of the
permuted buffer, whose blocks have one entry, and at the end it says that the one
block is the transform. A stage joins neighbouring blocks: a transform is that of
the even terms and, turned, that of the odd ones (`FftSplit`); half a block further
the turn changes its sign (`FftTurns`), the parts come round again (`FftPeriod`),
and the mirror image of the odd block's start lies half as far apart
(`FftOddBlock`). The only fact about the root is `FftAssumption`, so that the
argument is the one for complex numbers.

Induction over numbers (the turns of a scan, the rounds of a write, the length of
a list) goes through the least element of a set of numbers, `LeastNumber`, because
the library's induction theorems take an operator as a parameter. The functions
involved are recursive functions whose unfolding is proved beside them.

Every safety property of the runs that pass is stated by a theorem. Only
model-checked: all liveness and everything under fairness (`StorageIsRead`,
`AllServed`, `EveryLineIsServed`, `NothingHangs`), which is out of the prover's
reach.

## 5. Not modelled

- UnaFS: bitmaps of more than one block, I/O errors of the host, symbolic links
  (never created), the query parser, floating point.
- Vein: what payloads and prompts say, uploads, the live context and the scores of
  `gravity.rs`, `fire_with_backoff`, which nothing calls.
- xHCI: diagnostics, the no-op command, contexts and bulk rings bit by bit.
- Kernel: page tables, the heap's lists, the loader, drawing: set up once in one
  order, or output. `events.rs` and `shell.rs` are not part of the build.
- Network: `interface.rs` is a trait, `ethernet.rs` a header; no state. What `ingress`
  does with what it gets is nothing.
- Gneiss PAL: the forge's requests, paths, the JSON file: single library calls.
- Resonance: floating point, sample formats, the choice of a device, and what
  commands would do: `process_commands` drops them all.
- Quartzite: layout, styles, other pages and platforms.
- Una, Elessar, the small handlers, Stria, Vug, the command line tools: each does
  one call for one event and keeps next to no state, or only reads and draws.

What would come next: a second device through `Xhci` to its end;
the live context that Vein sends to the console after letting go of its lock,
where an older state may arrive last; the journal behind its first block, where
what a scan sees depends on what earlier mounts left there; the bytes that a scan
finds in the remains of a record.
