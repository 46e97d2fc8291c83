------------------------------- MODULE AmberBytes --------------------------------
(***************************************************************************)
(* The commands of amber_bytes that read or write a whole file or drive    *)
(* (handlers/amber_bytes/src/main.rs): image, extract and wipe, while      *)
(* someone else may be writing to it.  Every read and every write is a     *)
(* step; a read may be short, any step may fail, and the process may be    *)
(* killed.  The length the commands go by is the one metadata() gives,     *)
(* which on Linux is 0 for a block device, whatever it holds.              *)
(***************************************************************************)
EXTENDS Integers, Sequences

CONSTANTS
  Data,        \* the contents files start with
  Chunk,       \* bytes wipe writes at a time, 1 MiB in the code
  Blocks,      \* values of --block-size
  MaxPasses, MaxWrites, MaxLen  \* bounds

VARIABLES
  source, dest, \* the contents of the two paths given
  same,         \* both paths name one file, which then is source
  device,       \* source is a block device
  cmd,          \* the command and its arguments
  pc,           \* "open", "loop", "done" (reported complete), "stopped"
  pos,          \* the file position of the running command
  size,         \* file_size or file_len: what metadata() gave when the path was opened
  hasher,       \* what the hasher has been fed
  pending,      \* bytes in the BufWriter
  buffer,       \* bytes extract has read
  pass,
  others        \* writes by somebody else so far

vars == <<source, dest, same, device, cmd, pc, pos, size, hasher, pending, buffer, pass, others>>

Wiped == "w"        \* a byte of the wiping pattern
Slice(file, from, n) == SubSeq(file, from + 1, from + n)
Minimum(a, b) == IF a < b THEN a ELSE b

\* metadata()?.len(): st_size, which only a regular file has.
MetadataLen == IF device THEN 0 ELSE Len(source)

Commands ==
  [op : {"image"}, block : Blocks] \cup
  [op : {"extract"}, offset : 0 .. MaxLen, length : 0 .. MaxLen] \cup
  [op : {"wipe"}, passes : 0 .. MaxPasses, force : BOOLEAN]

Init ==
  /\ source \in Data
  /\ dest \in {<< >>, <<"x", "x", "x", "x">>}
  /\ cmd \in Commands
  /\ device \in BOOLEAN
  /\ same \in IF cmd.op = "image" /\ ~device THEN BOOLEAN ELSE {FALSE}
  /\ pc = "open" /\ pos = 0 /\ size = 0
  /\ hasher = << >> /\ pending = << >> /\ buffer = << >>
  /\ pass = 1 /\ others = 0

--------------------------------------------------------------------------------
(* Outside the program. *)

\* Somebody writes to the target, which only a file can change the size of; nobody does
\* to one that is both paths.
Overwrite ==
  /\ ~same /\ others < MaxWrites /\ pc \in {"open", "loop"} /\ others' = others + 1
  /\ \/ \E i \in DOMAIN source : source' = [source EXCEPT ![i] = "n"]
     \/ ~device /\ Len(source) < MaxLen /\ source' = Append(source, "n")
     \/ ~device /\ source # << >> /\ source' = SubSeq(source, 1, Len(source) - 1)
  /\ UNCHANGED <<dest, same, device, cmd, pc, pos, size, hasher, pending, buffer, pass>>

\* An I/O error is returned with ?, and the process ends; so does a kill.  What the
\* BufWriter still holds is written when it is dropped, or lost.
Stop ==
  /\ pc \in {"open", "loop"}
  /\ pc' = "stopped"
  /\ dest' \in {dest, dest \o pending}
  /\ UNCHANGED <<source, same, device, cmd, pos, size, hasher, pending, buffer, pass, others>>

--------------------------------------------------------------------------------
(* image_drive *)

ImageOpen ==
  /\ cmd.op = "image" /\ pc = "open"
  /\ size' = MetadataLen
  /\ IF same THEN source' = << >> /\ UNCHANGED dest ELSE dest' = << >> /\ UNCHANGED source
  /\ pc' = "loop"
  /\ UNCHANGED <<same, device, cmd, pos, hasher, pending, buffer, pass, others>>

Written(bytes) ==
  IF same THEN source' = source \o bytes /\ UNCHANGED dest
          ELSE dest' = dest \o bytes /\ UNCHANGED source

\* One round of the loop.  The writer keeps what it likes until the flush.
ImageCopy ==
  /\ cmd.op = "image" /\ pc = "loop" /\ pos < Len(source) /\ cmd.block > 0
  /\ \E n \in 1 .. Minimum(cmd.block, Len(source) - pos) :
       LET bytes == Slice(source, pos, n)
       IN /\ pos' = pos + n
          /\ hasher' = hasher \o bytes
          /\ \/ pending' = pending \o bytes /\ UNCHANGED <<source, dest>>
             \/ pending' = << >> /\ Written(pending \o bytes)
  /\ UNCHANGED <<same, device, cmd, pc, size, buffer, pass, others>>

\* A read of nothing is the end: at the end of the file, or into an empty buffer.
AtEnd == pos >= Len(source) \/ cmd.block = 0

\* Mutant: the report comes before the flush.
ImageEndUnflushed ==
  /\ cmd.op = "image" /\ pc = "loop" /\ AtEnd
  /\ pc' = "done"
  /\ UNCHANGED <<source, dest, same, device, cmd, pos, size, hasher, pending, buffer, pass, others>>

ImageEnd ==
  /\ cmd.op = "image" /\ pc = "loop" /\ AtEnd
  /\ Written(pending) /\ pending' = << >>
  /\ pc' = "done"
  /\ UNCHANGED <<same, device, cmd, pos, size, hasher, buffer, pass, others>>

--------------------------------------------------------------------------------
(* extract_data *)

ExtractOpen ==
  /\ cmd.op = "extract" /\ pc = "open"
  /\ size' = MetadataLen /\ pos' = cmd.offset
  /\ pc' = IF cmd.offset + cmd.length > MetadataLen THEN "stopped" ELSE "loop"
  /\ UNCHANGED <<source, dest, same, device, cmd, hasher, pending, buffer, pass, others>>

\* read_exact, by reads as short as they come; the end of the file is an error.
ExtractRead ==
  /\ cmd.op = "extract" /\ pc = "loop" /\ Len(buffer) < cmd.length
  /\ \/ /\ pos >= Len(source)
        /\ pc' = "stopped" /\ UNCHANGED <<pos, buffer>>
     \/ \E n \in 1 .. Minimum(cmd.length - Len(buffer), Len(source) - pos) :
          pos' = pos + n /\ buffer' = buffer \o Slice(source, pos, n) /\ UNCHANGED pc
  /\ UNCHANGED <<source, dest, same, device, cmd, size, hasher, pending, pass, others>>

\* Mutant: whatever has been read is saved.
ExtractSaveShort ==
  /\ cmd.op = "extract" /\ pc = "loop"
  /\ dest' = buffer /\ pc' = "done"
  /\ UNCHANGED <<source, same, device, cmd, pos, size, hasher, pending, buffer, pass, others>>

ExtractSave ==
  /\ cmd.op = "extract" /\ pc = "loop" /\ Len(buffer) = cmd.length
  /\ dest' = buffer /\ pc' = "done"
  /\ UNCHANGED <<source, same, device, cmd, pos, size, hasher, pending, buffer, pass, others>>

--------------------------------------------------------------------------------
(* wipe_target *)

WipeOpen ==
  /\ cmd.op = "wipe" /\ pc = "open"
  /\ size' = MetadataLen
  /\ pc' = IF cmd.force THEN "loop" ELSE "stopped"
  /\ UNCHANGED <<source, dest, same, device, cmd, pos, hasher, pending, buffer, pass, others>>

\* Mutant: only whole chunks are written.
WipeLengthWhole == IF size - pos >= Chunk THEN Chunk ELSE 0

WipeLength == Minimum(size - pos, Chunk)

\* A chunk is written where the last one ended; a target that has shrunk grows again.
WipeChunk ==
  /\ cmd.op = "wipe" /\ pc = "loop" /\ pass <= cmd.passes /\ pos < size
  /\ LET n == WipeLength
         bytes == [i \in 1 .. pos + n |->
                     IF i > pos THEN Wiped ELSE IF i <= Len(source) THEN source[i] ELSE "0"]
     IN source' = bytes \o Slice(source, pos + n, Len(source) - pos - n)
  /\ pos' = pos + IF WipeLength = 0 THEN Chunk ELSE WipeLength
  /\ UNCHANGED <<dest, same, device, cmd, pc, size, hasher, pending, buffer, pass, others>>

WipePass ==
  /\ cmd.op = "wipe" /\ pc = "loop" /\ pass <= cmd.passes /\ pos >= size
  /\ pass' = pass + 1 /\ pos' = 0
  /\ UNCHANGED <<source, dest, same, device, cmd, pc, size, hasher, pending, buffer, others>>

WipeEnd ==
  /\ cmd.op = "wipe" /\ pc = "loop" /\ pass > cmd.passes
  /\ pc' = "done"
  /\ UNCHANGED <<source, dest, same, device, cmd, pos, size, hasher, pending, buffer, pass, others>>

Next ==
  \/ Overwrite \/ Stop
  \/ ImageOpen \/ ImageCopy \/ ImageEnd
  \/ ExtractOpen \/ ExtractRead \/ ExtractSave
  \/ WipeOpen \/ WipeChunk \/ WipePass \/ WipeEnd

Spec == Init /\ [][Next]_vars

--------------------------------------------------------------------------------
TypeOK ==
  /\ source \in Seq({"a", "b", "n", "0", Wiped}) /\ dest \in Seq({"a", "b", "n", "x"})
  /\ same \in BOOLEAN /\ device \in BOOLEAN /\ cmd \in Commands
  /\ pc \in {"open", "loop", "done", "stopped"}
  /\ pos \in 0 .. MaxLen /\ size \in 0 .. MaxLen
  /\ pass \in 1 .. MaxPasses + 1 /\ others \in 0 .. MaxWrites

Done(op) == pc = "done" /\ cmd.op = op

\* The hash an image is reported with is the hash of what reached the destination,
\* however the reads were cut and whatever happened to the source meanwhile.
HashIsOfTheImage == Done("image") => hasher = IF same THEN source ELSE dest

\* A reported extraction holds as many bytes as were asked for, and of a target
\* nobody wrote to, those bytes.
ExtractIsExact ==
  Done("extract") =>
    /\ Len(dest) = cmd.length
    /\ others = 0 => dest = Slice(source, cmd.offset, cmd.length)

\* When an image is reported of a file nobody wrote to, read by blocks that hold
\* something, the destination is that file and the size reported is its own.
ImageIsExact ==
  Done("image") /\ ~same /\ others = 0 /\ cmd.block > 0 =>
    dest = source /\ (~device => size = Len(dest))

\* When a wipe with at least one pass of a file is reported, nothing is left of it as
\* it was opened: a byte is the pattern, or was written by somebody since.
Neutralized == \A i \in DOMAIN source : source[i] \notin {"a", "b"}
WipeIsComplete == Done("wipe") /\ ~device /\ cmd.passes > 0 => Neutralized

\* A command reported complete did its work: on a file all three, on a device the hash
\* and the extraction.  What is reported and false of a device is in the three below.
ReportsAreTrue == HashIsOfTheImage /\ ImageIsExact /\ ExtractIsExact /\ WipeIsComplete

\* main.rs:46, "Create a bit-perfect forensic image with hash verification": refuted by
\* blocks of no bytes, of which the first read is taken for the end.
BitPerfect == Done("image") /\ ~same /\ others = 0 => dest = source

\* main.rs:269, "Bytes Copied": refuted by a device, and by a file that changed length.
BytesCopied == Done("image") /\ ~same => size = Len(dest)

\* main.rs:96, "Destructively sanitizes a target by overwriting", the target being "file
\* or drive": refuted by a device, reported neutralized with no byte written.
WipeSanitizes == Done("wipe") /\ cmd.passes > 0 => Neutralized
================================================================================
