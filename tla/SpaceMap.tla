-------------------------------- MODULE SpaceMap -------------------------------
(***************************************************************************)
(* The allocation bitmap (bitmap.rs) as the set of the blocks whose bit is *)
(* set, and the number of blocks it believes in.                           *)
(***************************************************************************)
EXTENDS Integers

\* allocate() would return a block: some bit below the block count is clear.
HasFree(used, count) == \E b \in 0 .. count - 1 : b \notin used

\* b is the block allocate() returns: the lowest one whose bit is clear.
IsLowestFree(b, used, count) ==
  b \in 0 .. count - 1 /\ b \notin used /\ \A c \in 0 .. b - 1 : c \in used
LowestFree(used, count) == CHOOSE b \in 0 .. count - 1 : IsLowestFree(b, used, count)

\* Mutants: the count of free blocks wraps below zero; blocks given back together
\* count once.
CountDownUnguarded(free) == free - 1
CountUpOnce(free, total, m) == IF free + 1 < total THEN free + 1 ELSE total

\* superblock.free_blocks when a block is taken, and when m are given back.
CountDown(free) == IF free > 0 THEN free - 1 ELSE 0
CountUp(free, total, m) == IF free + m < total THEN free + m ELSE total
================================================================================
