------------------------------- MODULE WalProofs --------------------------------
(***************************************************************************)
(* What a scan of the journal finds, for every size of the region and of   *)
(* its records, as long as the records lie in the first block: the scan is *)
(* followed record by record, with what may have been found before each.   *)
(***************************************************************************)
EXTENDS Wal, NaturalsInduction, WellFoundedInduction, TLAPS

--------------------------------------------------------------------------------
\* Numbers.

Before == OpToRel(<, Nat)

LEMMA LessIsBefore == \A x, y \in Nat : x < y => <<x, y>> \in Before
  BY DEF Before, OpToRel

LEMMA LeastNumber ==
  ASSUME NEW S \in SUBSET Nat, S # {}
  PROVE  \E n \in S : \A m \in S : n <= m
<1>1. IsWellFoundedOn(Before, Nat)
  BY NatLessThanWellFounded DEF Before
<1>2. PICK n \in S : \A m \in S : ~ (<<m, n>> \in Before)
  BY <1>1, WFMin
<1>3. \A m \in S : ~ (m < n)
  BY <1>2, LessIsBefore
<1> QED BY <1>3

\* Induction, as a statement about sets of numbers.
LEMMA NatSet ==
  ASSUME NEW S \in SUBSET Nat, 0 \in S, \A n \in S : n + 1 \in S
  PROVE  S = Nat
<1> SUFFICES ASSUME Nat \ S # {} PROVE FALSE
  OBVIOUS
<1>1. PICK n \in Nat \ S : \A m \in Nat \ S : n <= m
  <2>1. (Nat \ S) \in SUBSET Nat
    OBVIOUS
  <2> QED BY <2>1, LeastNumber
<1> QED BY <1>1

LEMMA Sizes ==
  /\ BLOCK_SIZE \in Nat \ {0} /\ Capacity \in Nat /\ BLOCK_SIZE <= Capacity
  /\ \A op : TotalLen(op) \in LEN_PREFIX + 1 .. BLOCK_SIZE
  /\ LEN_PREFIX \in Nat \ {0}
<1>1. JOURNAL_BLOCKS * BLOCK_SIZE >= BLOCK_SIZE
  <2>1. JOURNAL_BLOCKS - 1 \in Nat /\ BLOCK_SIZE \in Nat
    BY WalAssumption
  <2>2. (JOURNAL_BLOCKS - 1) * BLOCK_SIZE \in Nat
    BY <2>1
  <2>3. JOURNAL_BLOCKS * BLOCK_SIZE = (JOURNAL_BLOCKS - 1) * BLOCK_SIZE + BLOCK_SIZE
    BY WalAssumption
  <2> QED BY <2>1, <2>2, <2>3
<1> QED BY <1>1, WalAssumption DEF Capacity, TotalLen

--------------------------------------------------------------------------------
\* The loop of check_recovery is what its recursive equation says.

Start0 == [at |-> 0, acc |-> Clear]
Turns(image, n, scan) ==
  scan = [i \in 0 .. n |-> IF i = 0 THEN Start0 ELSE Advance(image, scan[i - 1])]

LEMMA TurnsExist ==
  ASSUME NEW image, NEW n \in Nat
  PROVE  \E scan : Turns(image, n, scan)
<1> DEFINE S == {m \in Nat : \E scan : Turns(image, m, scan)}
<1>1. 0 \in S
  <2> DEFINE g == [i \in 0 .. 0 |-> Start0]
  <2>1. Turns(image, 0, g)
    BY DEF Turns
  <2> QED BY <2>1
<1>2. ASSUME NEW m \in S PROVE m + 1 \in S
  <2>1. PICK g : Turns(image, m, g)
    OBVIOUS
  <2> DEFINE h == [i \in 0 .. m + 1 |-> IF i <= m THEN g[i] ELSE Advance(image, g[m])]
  <2>2. \A i \in 0 .. m : g[i] = IF i = 0 THEN Start0 ELSE Advance(image, g[i - 1])
    BY <2>1 DEF Turns
  <2>3. \A i \in 0 .. m + 1 : h[i] = IF i = 0 THEN Start0 ELSE Advance(image, h[i - 1])
    <3> SUFFICES ASSUME NEW i \in 0 .. m + 1
                 PROVE  h[i] = IF i = 0 THEN Start0 ELSE Advance(image, h[i - 1])
      OBVIOUS
    <3>1. CASE i <= m
      BY <2>2, <3>1
    <3>2. CASE i = m + 1
      <4>1. i # 0 /\ i - 1 = m /\ h[i] = Advance(image, g[m]) /\ h[m] = g[m]
        BY <3>2
      <4> QED BY <4>1
    <3> QED BY <3>1, <3>2
  <2>4. h = [i \in 0 .. m + 1 |-> h[i]]
    OBVIOUS
  <2> HIDE DEF h
  <2>5. Turns(image, m + 1, h)
    BY <2>3, <2>4 DEF Turns
  <2> QED BY <2>5
<1>3. S \in SUBSET Nat
  OBVIOUS
<1> HIDE DEF S
<1>4. S = Nat
  BY <1>1, <1>2, <1>3, NatSet
<1> QED BY <1>4 DEF S

LEMMA ScanTurns ==
  ASSUME NEW image
  PROVE  \E scan :
           /\ scan[0] = Start0
           /\ \A n \in 0 .. Capacity - 1 : scan[n + 1] = Advance(image, scan[n])
           /\ Scanned(image) = scan[Capacity]
<1> DEFINE scan == CHOOSE s : Turns(image, Capacity, s)
<1>1. Capacity \in Nat
  BY Sizes
<1>2. Turns(image, Capacity, scan)
  BY <1>1, TurnsExist
<1>3. Scanned(image) = scan[Capacity]
  BY DEF Scanned, Turns, Start0
<1> HIDE DEF scan
<1>4. \A i \in 0 .. Capacity : scan[i] = IF i = 0 THEN Start0 ELSE Advance(image, scan[i - 1])
  BY <1>2 DEF Turns
<1>5. scan[0] = Start0
  BY <1>1, <1>4
<1>6. \A n \in 0 .. Capacity - 1 : scan[n + 1] = Advance(image, scan[n])
  <2> SUFFICES ASSUME NEW n \in 0 .. Capacity - 1 PROVE scan[n + 1] = Advance(image, scan[n])
    OBVIOUS
  <2>1. n + 1 \in 0 .. Capacity /\ n + 1 # 0 /\ (n + 1) - 1 = n
    BY <1>1
  <2> QED BY <1>4, <2>1
<1> QED BY <1>3, <1>5, <1>6

--------------------------------------------------------------------------------
\* The scan of a region whose records all lie in the first block, given what may
\* have been found when a record is reached (f, by position) and when none is.

Here(image, o) == \E r \in image : r.at = o
InFirstBlock(image) == \A r \in image : r.at \in Nat /\ r.at + TotalLen(r.op) <= BLOCK_SIZE
Arrives(image, f, Rest, o, acc) == IF Here(image, o) THEN acc \in f[o] ELSE acc \in Rest
Follows(image, f, Rest) ==
  \A r \in image : \A acc \in f[r.at] :
    Arrives(image, f, Rest, r.at + TotalLen(r.op), Account(acc, r))

OnCourse(image, f, Rest, n, x) ==
  /\ x = [at |-> x.at, acc |-> x.acc]
  /\ x.at \in 0 .. BLOCK_SIZE
  /\ Arrives(image, f, Rest, x.at, x.acc)
  /\ x.at >= n \/ ~ Here(image, x.at)

LEMMA NothingAtTheEnd ==
  ASSUME NEW image, InFirstBlock(image), NEW o \in Nat, o + LEN_PREFIX > BLOCK_SIZE
  PROVE  ~ Here(image, o)
  BY Sizes DEF InFirstBlock, Here

LEMMA OneTurn ==
  ASSUME NEW image, NEW f, NEW Rest, InFirstBlock(image), Follows(image, f, Rest),
         NEW n \in Nat, NEW x, OnCourse(image, f, Rest, n, x)
  PROVE  OnCourse(image, f, Rest, n + 1, Advance(image, x))
<1> DEFINE here == {r \in image : r.at = x.at}
           r == CHOOSE r \in here : TRUE
           y == Advance(image, x)
<1>1. /\ x = [at |-> x.at, acc |-> x.acc]
      /\ x.at \in 0 .. BLOCK_SIZE /\ Arrives(image, f, Rest, x.at, x.acc)
      /\ x.at >= n \/ ~ Here(image, x.at)
  BY DEF OnCourse
<1>2. CASE ~ Here(image, x.at) /\ y = x
  BY <1>1, <1>2 DEF OnCourse
<1>3. CASE x.at >= Capacity
  <2>1. y = x
    BY <1>3 DEF Advance
  <2>2. x.at \in Nat /\ x.at + LEN_PREFIX > BLOCK_SIZE
    BY <1>1, <1>3, Sizes
  <2> QED BY <2>1, <2>2, <1>2, NothingAtTheEnd
<1>4. CASE x.at < Capacity /\ (x.at % BLOCK_SIZE) + LEN_PREFIX > BLOCK_SIZE
  <2>1. x.at # BLOCK_SIZE
    <3>1. BLOCK_SIZE % BLOCK_SIZE = 0 /\ LEN_PREFIX <= BLOCK_SIZE
      BY WalAssumption
    <3> QED BY <3>1, <1>4, Sizes
  <2>2. x.at % BLOCK_SIZE = x.at /\ x.at \div BLOCK_SIZE = 0
    BY <2>1, <1>1, WalAssumption
  <2>3. ~ Here(image, x.at)
    BY <2>2, <1>1, <1>4, NothingAtTheEnd
  <2>4. ~ (x.at >= Capacity)
    BY <1>1, <1>4, Sizes
  <2>5. y = [x EXCEPT !.at = (0 + 1) * BLOCK_SIZE]
    BY <2>2, <2>4, <1>4 DEF Advance
  <2>6. (0 + 1) * BLOCK_SIZE = BLOCK_SIZE
    BY WalAssumption
  <2>7. ~ Here(image, BLOCK_SIZE)
    BY Sizes, NothingAtTheEnd
  <2>8. y.at = BLOCK_SIZE /\ y.acc = x.acc
    <3>1. [x EXCEPT !.at = BLOCK_SIZE] = [at |-> BLOCK_SIZE, acc |-> x.acc]
      BY <1>1
    <3> QED BY <3>1, <2>5, <2>6
  <2>9. y = [at |-> y.at, acc |-> y.acc]
    <3>1. y = [x EXCEPT !.at = BLOCK_SIZE]
      BY <2>5, <2>6
    <3> QED BY <3>1, <1>1
  <2>10. Arrives(image, f, Rest, y.at, y.acc)
    BY <2>3, <2>7, <2>8, <1>1 DEF Arrives
  <2> HIDE DEF y
  <2> QED BY <2>7, <2>8, <2>9, <2>10, Sizes DEF OnCourse, y
<1>5. CASE ~ (x.at >= Capacity) /\ ~ ((x.at % BLOCK_SIZE) + LEN_PREFIX > BLOCK_SIZE)
           /\ ~ Here(image, x.at)
  <2>1. here = {}
    BY <1>5 DEF Here
  <2>2. y = x
    BY <2>1, <1>5 DEF Advance
  <2> QED BY <2>2, <1>2, <1>5
<1>6. CASE ~ (x.at >= Capacity) /\ ~ ((x.at % BLOCK_SIZE) + LEN_PREFIX > BLOCK_SIZE)
           /\ Here(image, x.at)
  <2>1. here # {}
    BY <1>6 DEF Here
  <2>2. y = [at |-> x.at + TotalLen(r.op), acc |-> Account(x.acc, r)]
    BY <2>1, <1>6 DEF Advance
  <2>3. r \in here
    BY <2>1
  <2> HIDE DEF r, y
  <2>4. r \in image /\ r.at = x.at
    BY <2>3
  <2>5. x.acc \in f[r.at]
    BY <2>4, <1>1, <1>6 DEF Arrives
  <2>6. Arrives(image, f, Rest, x.at + TotalLen(r.op), Account(x.acc, r))
    BY <2>4, <2>5 DEF Follows
  <2>7. /\ TotalLen(r.op) \in LEN_PREFIX + 1 .. BLOCK_SIZE /\ LEN_PREFIX \in Nat
        /\ BLOCK_SIZE \in Nat
    BY Sizes
  <2>8. r.at + TotalLen(r.op) <= BLOCK_SIZE
    BY <2>4 DEF InFirstBlock
  <2>9. y.at \in 0 .. BLOCK_SIZE /\ y.at >= n + 1
    BY <2>2, <2>4, <2>7, <2>8, <1>1, <1>6
  <2>10. y = [at |-> y.at, acc |-> y.acc] /\ Arrives(image, f, Rest, y.at, y.acc)
    BY <2>2, <2>6
  <2> QED BY <2>9, <2>10 DEF OnCourse, y
<1>7. Capacity \in Nat /\ x.at \in Nat
  BY <1>1, Sizes
<1>8. (x.at % BLOCK_SIZE) + LEN_PREFIX \in Nat
  BY <1>7, WalAssumption
<1> HIDE DEF here, r, y
<1> QED BY <1>3, <1>4, <1>5, <1>6, <1>7, <1>8, WalAssumption DEF y

LEMMA ScanKeeps ==
  ASSUME NEW image, NEW f, NEW Rest, InFirstBlock(image), Follows(image, f, Rest),
         Arrives(image, f, Rest, 0, Clear)
  PROVE  Scanned(image).acc \in Rest
<1>1. PICK scan : /\ scan[0] = Start0
                  /\ \A n \in 0 .. Capacity - 1 : scan[n + 1] = Advance(image, scan[n])
                  /\ Scanned(image) = scan[Capacity]
  BY ScanTurns
<1> DEFINE S == {n \in Nat : n <= Capacity => OnCourse(image, f, Rest, n, scan[n])}
<1>2. 0 \in S
  <2>1. Start0 = [at |-> 0, acc |-> Clear] /\ 0 \in 0 .. BLOCK_SIZE
    BY Sizes DEF Start0
  <2>2. OnCourse(image, f, Rest, 0, Start0)
    BY <2>1 DEF OnCourse
  <2> QED BY <2>2, <1>1
<1>3. ASSUME NEW n \in S PROVE n + 1 \in S
  <2> SUFFICES ASSUME n + 1 <= Capacity
               PROVE  OnCourse(image, f, Rest, n + 1, scan[n + 1])
    OBVIOUS
  <2>1. n \in Nat /\ n <= Capacity /\ n \in 0 .. Capacity - 1
    BY Sizes
  <2>2. OnCourse(image, f, Rest, n, scan[n])
    BY <2>1
  <2> QED BY <1>1, <2>1, <2>2, OneTurn
<1>4. S \in SUBSET Nat
  OBVIOUS
<1> HIDE DEF S
<1>5. S = Nat
  BY <1>2, <1>3, <1>4, NatSet
<1>6. OnCourse(image, f, Rest, Capacity, scan[Capacity])
  BY <1>5, Sizes DEF S
<1> DEFINE x == scan[Capacity]
<1>7. /\ x.at \in 0 .. BLOCK_SIZE
      /\ Arrives(image, f, Rest, x.at, x.acc)
      /\ x.at >= Capacity \/ ~ Here(image, x.at)
  BY <1>6 DEF OnCourse
<1> HIDE DEF x
<1>8. ~ Here(image, x.at)
  <2>1. CASE x.at >= Capacity
    <3>1. x.at \in Nat /\ x.at + LEN_PREFIX > BLOCK_SIZE
      BY <1>7, <2>1, Sizes
    <3> QED BY <3>1, NothingAtTheEnd
  <2> QED BY <2>1, <1>7
<1> QED BY <1>1, <1>7, <1>8 DEF Arrives, x

--------------------------------------------------------------------------------
\* What is known of a journal while it stays in its first block: f says what a
\* scan may have found when it reaches a record, Top what when it reaches the
\* write offset.

\* The records of the current mount, one behind the other up to the offset.
Session(j, f, Top) ==
  /\ j.offset \in 0 .. BLOCK_SIZE
  /\ InFirstBlock(j.image)
  /\ IF j.offset = 0 THEN Clear \in Top ELSE Here(j.image, 0) /\ Clear \in f[0]
  /\ \A r \in j.image : r.at < j.offset =>
       \/ /\ r.at + TotalLen(r.op) = j.offset
          /\ \A acc \in f[r.at] : Account(acc, r) \in Top
       \/ /\ r.at + TotalLen(r.op) < j.offset
          /\ Here(j.image, r.at + TotalLen(r.op))
          /\ \A acc \in f[r.at] : Account(acc, r) \in f[r.at + TotalLen(r.op)]

\* The records that earlier mounts left behind the offset: a scan that goes on
\* with them and has found nothing open finds nothing open.
Old(j, f) ==
  \A r \in j.image :
    /\ Clear \in f[r.at]
    /\ r.at >= j.offset =>
         \A acc \in f[r.at] :
           Arrives(j.image, f, {Clear}, r.at + TotalLen(r.op), Account(acc, r))

\* Nothing that an earlier mount logged, whole or cut.
NothingBehind(j) == (\A r \in j.image : r.at < j.offset) /\ j.remains = {}

LEMMA LogInBlock ==
  ASSUME NEW j, NEW op, NEW id, j.offset \in Nat, j.offset + TotalLen(op) <= BLOCK_SIZE
  PROVE  /\ Log(j, op, id).image =
               {r \in j.image : r.at \notin j.offset .. j.offset + TotalLen(op) - 1}
                 \cup {Record(j.offset, op, id)}
         /\ Log(j, op, id).remains =
               (j.remains \ (j.offset .. j.offset + TotalLen(op) - 1))
                 \cup Cut(j.image, j.offset, j.offset + TotalLen(op))
         /\ Log(j, op, id).offset = j.offset + TotalLen(op)
<1> DEFINE len == TotalLen(op)
<1>1. len \in 1 .. BLOCK_SIZE /\ BLOCK_SIZE \in Nat \ {0} /\ Capacity \in Nat
      /\ BLOCK_SIZE <= Capacity
  BY Sizes
<1>2. ~ (j.offset + len > Capacity)
  BY <1>1
<1>3. j.offset % BLOCK_SIZE = j.offset
  BY <1>1
<1>4. Placement(j.offset, len) = j.offset
  BY <1>1, <1>3 DEF Placement
<1>5. Log(j, op, id) = Written(j, j.offset, len, op, id)
  BY <1>2, <1>4 DEF Log
<1> QED BY <1>5 DEF Written

\* What a mount finds that scans only what it logged itself.
LEMMA SessionScan ==
  ASSUME NEW j, NEW f, NEW Top, Session(j, f, Top), NothingBehind(j)
  PROVE  Scanned(j.image).acc \in Top
<1>1. InFirstBlock(j.image)
  BY DEF Session
<1>2. ~ Here(j.image, j.offset)
  BY DEF NothingBehind, Here, InFirstBlock, Session
<1>3. Follows(j.image, f, Top)
  BY <1>2 DEF Follows, Session, NothingBehind, Arrives
<1>4. Arrives(j.image, f, Top, 0, Clear)
  BY <1>2 DEF Session, Arrives
<1> QED BY <1>1, <1>3, <1>4, ScanKeeps

LEMMA OldFollows ==
  ASSUME NEW j, NEW f, Session(j, f, {Clear}), Old(j, f)
  PROVE  Follows(j.image, f, {Clear}) /\ Arrives(j.image, f, {Clear}, 0, Clear)
<1>1. \A o : Arrives(j.image, f, {Clear}, o, Clear)
  BY DEF Old, Arrives, Here
<1>2. ASSUME NEW r \in j.image, NEW acc \in f[r.at]
      PROVE  Arrives(j.image, f, {Clear}, r.at + TotalLen(r.op), Account(acc, r))
  <2>1. CASE r.at < j.offset
    BY <2>1, <1>1 DEF Session, Arrives
  <2>2. CASE r.at >= j.offset
    BY <2>2 DEF Old
  <2>3. r.at \in Nat /\ j.offset \in Nat
    BY Sizes DEF Session, InFirstBlock
  <2> QED BY <2>1, <2>2, <2>3
<1> QED BY <1>1, <1>2 DEF Follows

\* What a mount finds over the records of many.
LEMMA OldScan ==
  ASSUME NEW j, NEW f, Session(j, f, {Clear}), Old(j, f)
  PROVE  Scanned(j.image).acc = Clear
<1>1. Scanned(j.image).acc \in {Clear}
  BY OldFollows, ScanKeeps DEF Session
<1> QED BY <1>1

\* A mount starts over at the offset zero.
LEMMA OldMounts ==
  ASSUME NEW j, NEW f, Session(j, f, {Clear}), Old(j, f)
  PROVE  Session(NewJournal(j), f, {Clear}) /\ Old(NewJournal(j), f)
<1> DEFINE k == NewJournal(j)
<1>1. k.image = j.image /\ k.offset = 0
  BY DEF NewJournal, Session
<1> HIDE DEF k
<1>2. Session(k, f, {Clear})
  BY <1>1, Sizes DEF Session, InFirstBlock
<1>3. Old(k, f)
  BY <1>1, OldFollows DEF Old, Follows
<1> QED BY <1>2, <1>3 DEF k

With(f, offset, Top) == [n \in Nat |-> IF n = offset THEN Top ELSE f[n]]

\* A record that fits in the block is added to the session.
LEMMA LogExtends ==
  ASSUME NEW j, NEW f, NEW Top, Session(j, f, Top), NEW op, NEW id, NEW Top2,
         j.offset + TotalLen(op) <= BLOCK_SIZE,
         \A acc \in Top : Account(acc, Record(j.offset, op, id)) \in Top2
  PROVE  /\ Session(Log(j, op, id), With(f, j.offset, Top), Top2)
         /\ NothingBehind(j) => NothingBehind(Log(j, op, id))
         /\ Old(j, f) /\ Clear \in Top => Old(Log(j, op, id), With(f, j.offset, Top))
<1> DEFINE len == TotalLen(op)
           new == Record(j.offset, op, id)
           k == Log(j, op, id)
           g == With(f, j.offset, Top)
           kept == {r \in j.image : r.at \notin j.offset .. j.offset + len - 1}
<1>1. /\ j.offset \in Nat /\ InFirstBlock(j.image) /\ len \in 1 .. BLOCK_SIZE /\ BLOCK_SIZE \in Nat
      /\ new.at = j.offset /\ new.op = op
  BY Sizes DEF Session, Record
<1>2. k.image = kept \cup {new} /\ k.offset = j.offset + len
  BY <1>1, LogInBlock
<1>14. k.remains = (j.remains \ (j.offset .. j.offset + len - 1)) \cup Cut(j.image, j.offset, j.offset + len)
  BY <1>1, LogInBlock
<1>3. \A n \in Nat : g[n] = IF n = j.offset THEN Top ELSE f[n]
  BY DEF With
<1>4. \A r \in j.image : r.at \in Nat /\ r.at + TotalLen(r.op) <= BLOCK_SIZE
  BY <1>1 DEF InFirstBlock
<1>5. \A r \in j.image : TotalLen(r.op) \in 1 .. BLOCK_SIZE
  BY Sizes
<1>6. \A r : r \in kept <=> r \in j.image /\ (r.at < j.offset \/ r.at >= j.offset + len)
  BY <1>1, <1>4
<1>7. \A acc \in Top : Account(acc, new) \in Top2
  OBVIOUS
<1>13. len = TotalLen(op)
  OBVIOUS
<1> HIDE DEF len, new, k, g, kept
<1>8. /\ Here(k.image, j.offset)
      /\ \A o \in Nat : o < j.offset \/ o >= j.offset + len => (Here(k.image, o) <=> Here(j.image, o))
  BY <1>1, <1>2, <1>6 DEF Here
<1>9. InFirstBlock(k.image)
  <2>1. j.offset + TotalLen(new.op) <= BLOCK_SIZE
    BY <1>1
  <2> QED BY <1>1, <1>2, <1>4, <1>6, <2>1 DEF InFirstBlock
<1>10. Session(k, g, Top2)
  <2>1. k.offset \in 0 .. BLOCK_SIZE /\ k.offset > 0
    BY <1>1, <1>2, <1>13
  <2>2. Here(k.image, 0) /\ Clear \in g[0]
    <3>1. CASE j.offset = 0
      BY <3>1, <1>3, <1>8 DEF Session
    <3>2. CASE j.offset # 0
      BY <3>2, <1>1, <1>3, <1>8 DEF Session
    <3> QED BY <3>1, <3>2
  <2>3. ASSUME NEW r \in k.image, r.at < k.offset
        PROVE  \/ /\ r.at + TotalLen(r.op) = k.offset
                  /\ \A acc \in g[r.at] : Account(acc, r) \in Top2
               \/ /\ r.at + TotalLen(r.op) < k.offset
                  /\ Here(k.image, r.at + TotalLen(r.op))
                  /\ \A acc \in g[r.at] : Account(acc, r) \in g[r.at + TotalLen(r.op)]
    <3>1. CASE r = new
      BY <3>1, <1>1, <1>2, <1>3, <1>7, <1>13
    <3>2. CASE r # new
      <4>1. r \in j.image /\ r.at < j.offset /\ r.at \in Nat /\ TotalLen(r.op) \in Nat
        BY <3>2, <2>3, <1>1, <1>2, <1>4, <1>5, <1>6
      <4>2. g[r.at] = f[r.at]
        BY <4>1, <1>3, <1>1
      <4>3. CASE r.at + TotalLen(r.op) = j.offset /\ \A acc \in f[r.at] : Account(acc, r) \in Top
        <5>1. g[r.at + TotalLen(r.op)] = Top
          BY <4>3, <1>3, <1>1
        <5>2. r.at + TotalLen(r.op) < k.offset
          BY <4>3, <1>1, <1>2
        <5> QED BY <5>1, <5>2, <4>2, <4>3, <1>8
      <4>4. CASE /\ r.at + TotalLen(r.op) < j.offset
                 /\ Here(j.image, r.at + TotalLen(r.op))
                 /\ \A acc \in f[r.at] : Account(acc, r) \in f[r.at + TotalLen(r.op)]
        <5>1. r.at + TotalLen(r.op) \in Nat
          BY <4>1
        <5>2. g[r.at + TotalLen(r.op)] = f[r.at + TotalLen(r.op)]
          BY <4>4, <5>1, <1>3, <1>1
        <5>3. r.at + TotalLen(r.op) < k.offset
          BY <4>4, <5>1, <1>1, <1>2
        <5>4. Here(k.image, r.at + TotalLen(r.op))
          BY <4>4, <5>1, <1>8
        <5> QED BY <5>2, <5>3, <5>4, <4>2, <4>4
      <4> QED BY <4>1, <4>3, <4>4 DEF Session
    <3> QED BY <3>1, <3>2
  <2> QED BY <1>9, <2>1, <2>2, <2>3 DEF Session
<1>11. ASSUME NothingBehind(j) PROVE NothingBehind(k)
  <2>1. {s \in j.image : s.at \in j.offset .. j.offset + len - 1} = {}
    BY <1>1, <1>4, <1>11 DEF NothingBehind
  <2>2. Cut(j.image, j.offset, j.offset + len) = {}
    BY <2>1, <1>1 DEF Cut
  <2>3. k.remains = {}
    BY <2>2, <1>14, <1>11 DEF NothingBehind
  <2> QED BY <2>3, <1>1, <1>2, <1>4, <1>6, <1>11 DEF NothingBehind
<1>12. ASSUME Old(j, f), Clear \in Top PROVE Old(k, g)
  <2> SUFFICES ASSUME NEW r \in k.image
               PROVE  /\ Clear \in g[r.at]
                      /\ r.at >= k.offset =>
                           \A acc \in g[r.at] :
                             Arrives(k.image, g, {Clear}, r.at + TotalLen(r.op), Account(acc, r))
    BY DEF Old
  <2>1. CASE r = new
    BY <2>1, <1>1, <1>2, <1>3, <1>12
  <2>2. CASE r # new
    <3>1. r \in j.image /\ r.at \in Nat /\ TotalLen(r.op) \in 1 .. BLOCK_SIZE
      BY <2>2, <1>2, <1>4, <1>5, <1>6
    <3>2. Clear \in g[r.at]
      BY <3>1, <1>3, <1>12 DEF Old
    <3>3. ASSUME r.at >= k.offset, NEW acc \in g[r.at]
          PROVE  Arrives(k.image, g, {Clear}, r.at + TotalLen(r.op), Account(acc, r))
      <4> DEFINE o == r.at + TotalLen(r.op)
      <4>1. o \in Nat /\ o >= j.offset + len /\ o # j.offset /\ r.at # j.offset /\ r.at >= j.offset
        BY <3>1, <3>3, <1>1, <1>2
      <4>2. g[o] = f[o] /\ g[r.at] = f[r.at]
        BY <3>1, <4>1, <1>3
      <4>3. Here(k.image, o) <=> Here(j.image, o)
        BY <4>1, <1>8
      <4>4. Arrives(j.image, f, {Clear}, o, Account(acc, r))
        BY <3>1, <3>3, <4>1, <4>2, <1>12 DEF Old
      <4> HIDE DEF o
      <4>5. Arrives(k.image, g, {Clear}, o, Account(acc, r))
        BY <4>2, <4>3, <4>4 DEF Arrives
      <4> QED BY <4>5 DEF o
    <3> QED BY <3>2, <3>3
  <2> QED BY <2>1, <2>2
<1> QED BY <1>10, <1>11, <1>12 DEF k, g

--------------------------------------------------------------------------------
\* What a scan may have found: at most, or at least, m creations and writes and
\* the set_attributes of the inodes in Open.

Accounts(Ids) == [open_ops : SUBSET Ids, open_count : Nat]
AtMost(m, Open) == [open_ops : SUBSET Open, open_count : 0 .. m]
AtLeast(Ids, m, Open) == {acc \in Accounts(Ids) : Open \subseteq acc.open_ops /\ m <= acc.open_count}
Dirty(Ids) == {acc \in Accounts(Ids) : acc.open_ops # {} \/ acc.open_count > 0}

\* What one more record makes of m and Open.
Logs(op, id, m, Open, m2, Open2) ==
  \/ op = "BeginOp" /\ m2 = m /\ Open2 = Open \cup {id}
  \/ op = "EndOp" /\ m2 = m /\ Open2 = Open \ {id}
  \/ op \in {"BeginCreate", "BeginWrite"} /\ m2 = m + 1 /\ Open2 = Open
  \/ op \in {"EndCreate", "EndWrite"} /\ m = m2 + 1 /\ Open2 = Open

LEMMA Accounted ==
  ASSUME NEW a, a = [open_ops |-> a.open_ops, open_count |-> a.open_count], NEW r
  PROVE  /\ r.op = "BeginOp" =>
              Account(a, r) = [open_ops |-> a.open_ops \cup {r.id}, open_count |-> a.open_count]
         /\ r.op = "EndOp" =>
              Account(a, r) = [open_ops |-> a.open_ops \ {r.id}, open_count |-> a.open_count]
         /\ r.op \in {"BeginCreate", "BeginWrite"} =>
              Account(a, r) = [open_ops |-> a.open_ops, open_count |-> a.open_count + 1]
         /\ r.op \in {"EndCreate", "EndWrite"} =>
              Account(a, r) = [open_ops   |-> a.open_ops,
                               open_count |-> IF a.open_count > 0 THEN a.open_count - 1 ELSE 0]
<1> DEFINE o == a.open_ops
           c == a.open_count
<1>1. a = [open_ops |-> o, open_count |-> c]
  OBVIOUS
<1> HIDE DEF o, c
<1>2. a.open_ops = o /\ a.open_count = c
  BY <1>1
<1>3. r.op = "BeginOp" => Account(a, r) = [open_ops |-> o \cup {r.id}, open_count |-> c]
  BY <1>1 DEF Account
<1>4. r.op = "EndOp" => Account(a, r) = [open_ops |-> o \ {r.id}, open_count |-> c]
  BY <1>1 DEF Account
<1>5. r.op \in {"BeginCreate", "BeginWrite"} =>
        Account(a, r) = [open_ops |-> o, open_count |-> c + 1]
  BY <1>1 DEF Account
<1>6. r.op \in {"EndCreate", "EndWrite"} =>
        Account(a, r) = [open_ops |-> o, open_count |-> IF c > 0 THEN c - 1 ELSE 0]
  BY <1>1 DEF Account
<1> QED BY <1>2, <1>3, <1>4, <1>5, <1>6

LEMMA AccountMost ==
  ASSUME NEW op, NEW id, NEW m \in Nat, NEW Open, NEW m2 \in Nat, NEW Open2, NEW at,
         Logs(op, id, m, Open, m2, Open2), NEW acc \in AtMost(m, Open)
  PROVE  Account(acc, Record(at, op, id)) \in AtMost(m2, Open2)
<1> DEFINE r == Record(at, op, id)
<1>1. r.op = op /\ r.id = id
  BY DEF Record
<1> HIDE DEF r
<1>2. /\ acc = [open_ops |-> acc.open_ops, open_count |-> acc.open_count]
      /\ acc.open_ops \subseteq Open /\ acc.open_count \in 0 .. m
  BY DEF AtMost
<1>3. CASE op = "BeginOp" /\ m2 = m /\ Open2 = Open \cup {id}
  <2>1. Account(acc, r) = [open_ops |-> acc.open_ops \cup {id}, open_count |-> acc.open_count]
    BY <1>1, <1>2, <1>3, Accounted
  <2> QED BY <2>1, <1>2, <1>3 DEF AtMost, r
<1>4. CASE op = "EndOp" /\ m2 = m /\ Open2 = Open \ {id}
  <2>1. Account(acc, r) = [open_ops |-> acc.open_ops \ {id}, open_count |-> acc.open_count]
    BY <1>1, <1>2, <1>4, Accounted
  <2> QED BY <2>1, <1>2, <1>4 DEF AtMost, r
<1>5. CASE op \in {"BeginCreate", "BeginWrite"} /\ m2 = m + 1 /\ Open2 = Open
  <2>1. Account(acc, r) = [open_ops |-> acc.open_ops, open_count |-> acc.open_count + 1]
    BY <1>1, <1>2, <1>5, Accounted
  <2> QED BY <2>1, <1>2, <1>5 DEF AtMost, r
<1>6. CASE op \in {"EndCreate", "EndWrite"} /\ m = m2 + 1 /\ Open2 = Open
  <2> DEFINE c == IF acc.open_count > 0 THEN acc.open_count - 1 ELSE 0
  <2>1. Account(acc, r) = [open_ops |-> acc.open_ops, open_count |-> c]
    BY <1>1, <1>2, <1>6, Accounted
  <2>2. c \in 0 .. m2
    BY <1>2, <1>6
  <2> HIDE DEF c
  <2> QED BY <2>1, <2>2, <1>2, <1>6 DEF AtMost, r
<1> QED BY <1>3, <1>4, <1>5, <1>6 DEF Logs

LEMMA AccountLeast ==
  ASSUME NEW op, NEW Ids, NEW id \in Ids, NEW m \in Nat, NEW Open, NEW m2 \in Nat, NEW Open2, NEW at,
         Logs(op, id, m, Open, m2, Open2), NEW k \in Nat, NEW acc \in AtLeast(Ids, m + k, Open)
  PROVE  Account(acc, Record(at, op, id)) \in AtLeast(Ids, m2 + k, Open2)
<1> DEFINE r == Record(at, op, id)
<1>1. r.op = op /\ r.id = id
  BY DEF Record
<1> HIDE DEF r
<1>2. /\ acc = [open_ops |-> acc.open_ops, open_count |-> acc.open_count]
      /\ acc.open_ops \subseteq Ids /\ acc.open_count \in Nat
      /\ Open \subseteq acc.open_ops /\ m + k <= acc.open_count
  BY DEF AtLeast, Accounts
<1>7. ASSUME NEW O \in SUBSET Ids, NEW c \in Nat, Open2 \subseteq O, m2 + k <= c
      PROVE  [open_ops |-> O, open_count |-> c] \in AtLeast(Ids, m2 + k, Open2)
  BY <1>7 DEF AtLeast, Accounts
<1>3. CASE op = "BeginOp" /\ m2 = m /\ Open2 = Open \cup {id}
  <2>1. Account(acc, r) = [open_ops |-> acc.open_ops \cup {id}, open_count |-> acc.open_count]
    BY <1>1, <1>2, <1>3, Accounted
  <2> QED BY <2>1, <1>2, <1>3, <1>7 DEF r
<1>4. CASE op = "EndOp" /\ m2 = m /\ Open2 = Open \ {id}
  <2>1. Account(acc, r) = [open_ops |-> acc.open_ops \ {id}, open_count |-> acc.open_count]
    BY <1>1, <1>2, <1>4, Accounted
  <2> QED BY <2>1, <1>2, <1>4, <1>7 DEF r
<1>5. CASE op \in {"BeginCreate", "BeginWrite"} /\ m2 = m + 1 /\ Open2 = Open
  <2>1. Account(acc, r) = [open_ops |-> acc.open_ops, open_count |-> acc.open_count + 1]
    BY <1>1, <1>2, <1>5, Accounted
  <2>2. acc.open_count + 1 \in Nat /\ m2 + k <= acc.open_count + 1
    BY <1>2, <1>5
  <2> QED BY <2>1, <2>2, <1>2, <1>5, <1>7 DEF r
<1>6. CASE op \in {"EndCreate", "EndWrite"} /\ m = m2 + 1 /\ Open2 = Open
  <2>1. Account(acc, r) = [open_ops |-> acc.open_ops, open_count |-> acc.open_count - 1]
    BY <1>1, <1>2, <1>6, Accounted
  <2>2. acc.open_count - 1 \in Nat /\ m2 + k <= acc.open_count - 1
    BY <1>2, <1>6
  <2> QED BY <2>1, <2>2, <1>2, <1>6, <1>7 DEF r
<1> QED BY <1>3, <1>4, <1>5, <1>6 DEF Logs

\* What check_recovery reports of what the scan found, unless the scan goes on
\* over the remains of a record.
LEMMA Reported ==
  ASSUME NEW j, ~ Astray(j)
  PROVE  /\ Scanned(j.image).acc = Clear => CheckRecovery(j) = {FALSE}
         /\ \A Ids : Scanned(j.image).acc \in Dirty(Ids) => CheckRecovery(j) = {TRUE}
<1> DEFINE acc == Scanned(j.image).acc
<1>1. Clear.open_ops = {} /\ Clear.open_count = 0
  BY DEF Clear
<1>2. CheckRecovery(j) = {acc.open_ops # {} \/ acc.open_count > 0}
  BY DEF CheckRecovery
<1> HIDE DEF acc
<1> DEFINE dirty == acc.open_ops # {} \/ acc.open_count > 0
<1>3. acc = Clear => ~ dirty
  BY <1>1
<1>4. ASSUME NEW Ids, acc \in Dirty(Ids) PROVE dirty
  BY <1>4 DEF Dirty
<1>5. CheckRecovery(j) = {dirty}
  BY <1>2
<1>6. dirty = TRUE \/ dirty = FALSE
  OBVIOUS
<1> HIDE DEF dirty
<1>7. ~ dirty => CheckRecovery(j) = {FALSE}
  BY <1>5, <1>6, Zenon
<1>8. dirty => CheckRecovery(j) = {TRUE}
  BY <1>5, <1>6, Zenon
<1> QED BY <1>3, <1>4, <1>7, <1>8 DEF acc

\* A region that holds only what the current mount logged leads no scan astray.
LEMMA NotAstray ==
  ASSUME NEW j, NothingBehind(j)
  PROVE  ~ Astray(j)
  BY DEF Astray, NothingBehind

LEMMA AtLeastDirty ==
  ASSUME NEW Ids, NEW m \in Nat, NEW Open, m > 0 \/ Open # {}
  PROVE  AtLeast(Ids, m, Open) \subseteq Dirty(Ids)
  BY DEF AtLeast, Dirty, Accounts

LEMMA ClearBounds ==
  /\ AtMost(0, {}) = {Clear}
  /\ \A Open : \A m \in Nat : Clear \in AtMost(m, Open)
  /\ \A Ids : Clear \in AtLeast(Ids, 0, {})
<1>1. AtMost(0, {}) \subseteq {Clear}
  BY DEF AtMost, Clear
<1>2. \A Open : \A m \in Nat : Clear \in AtMost(m, Open)
  BY DEF AtMost, Clear
<1>3. \A Ids : Clear \in AtLeast(Ids, 0, {})
  BY DEF AtLeast, Accounts, Clear
<1> QED BY <1>1, <1>2, <1>3

\* A larger set of what may be found at the offset.
LEMMA SessionWeaker ==
  ASSUME NEW j, NEW f, NEW Top, NEW Top2, Session(j, f, Top), Top \subseteq Top2
  PROVE  Session(j, f, Top2)
  BY DEF Session
================================================================================
