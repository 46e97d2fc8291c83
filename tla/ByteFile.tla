-------------------------------- MODULE ByteFile -------------------------------
(***************************************************************************)
(* What a file promises to whoever writes and reads it: a sequence of      *)
(* bytes.  A write replaces bytes or adds some, a gap in front of it reads *)
(* as zeros; a write that fails may have replaced a prefix of the bytes it *)
(* was to replace, and adds none.  Extents.tla implements it.              *)
(***************************************************************************)
EXTENDS Naturals, Sequences

CONSTANTS
  ByteValues,  \* what the bytes of a write can be
  MaxSize,     \* bound: bytes of the file
  MaxGap       \* how far past the end of the file a write may start

VARIABLE content

\* n bytes with value v at offset o, over what is there.
Overlay(old, o, n, v) ==
  [i \in 1 .. IF o + n > Len(old) THEN o + n ELSE Len(old) |->
     IF i > o /\ i <= o + n THEN v
     ELSE IF i <= Len(old) THEN old[i] ELSE 0]

Init == content = << >>

\* A write turns the bytes old into the bytes new.
Write(old, new, o, n, v) ==
  /\ Len(new) = IF o + n > Len(old) THEN o + n ELSE Len(old)
  /\ new = Overlay(old, o, n, v)

FailedWrite(old, new, o, n, v) ==
  /\ Len(new) = Len(old)
  /\ new = SubSeq(Overlay(old, o, n, v), 1, Len(old))

Step(old, new) ==
  \E o \in 0 .. Len(old) + MaxGap : \E n \in 0 .. MaxSize - o, v \in ByteValues :
    Write(old, new, o, n, v) \/ FailedWrite(old, new, o, n, v)

Next == Step(content, content')

Spec == Init /\ [][Next]_content
================================================================================
