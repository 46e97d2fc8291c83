------------------------------- MODULE LumenProofs ------------------------------
(***************************************************************************)
(* Lumen for any texts and any number of dispatches and commands: its      *)
(* types, that no staging stays locked for nothing, that nothing locked    *)
(* is deleted, and that no question finds itself in the vault.             *)
(***************************************************************************)
EXTENDS Lumen, FiniteSetTheorems, SequenceTheorems, WellFoundedInduction, NaturalsInduction, TLAPS

(* Numbers, and the list without some of its items. *)

Before == OpToRel(<, Nat)

LEMMA LessIsBefore == \A x, y \in Nat : x < y => <<x, y>> \in Before
  BY DEF Before, OpToRel

LEMMA LeastNumber ==
  ASSUME NEW S \in SUBSET Nat, S # {}
  PROVE  \E n \in S : \A m \in S : n <= m
<1>1. IsWellFoundedOn(Before, Nat)
  BY NatLessThanWellFounded DEF Before
<1>2. PICK n \in S : \A m \in S : ~ (<<m, n>> \in Before)
  BY <1>1, WFMin
<1>3. \A m \in S : ~ (m < n)
  BY <1>2, LessIsBefore
<1> QED BY <1>3

\* Induction, as a statement about sets of numbers.
LEMMA NatSet ==
  ASSUME NEW S \in SUBSET Nat, 0 \in S, \A n \in S : n + 1 \in S
  PROVE  S = Nat
<1> SUFFICES ASSUME Nat \ S # {} PROVE FALSE
  OBVIOUS
<1>1. PICK n \in Nat \ S : \A m \in Nat \ S : n <= m
  <2>1. (Nat \ S) \in SUBSET Nat
    OBVIOUS
  <2> QED BY <2>1, LeastNumber
<1> QED BY <1>1

LEMMA FirstAndLast ==
  ASSUME NEW n \in Nat, NEW I \in SUBSET (1 .. n), I # {}
  PROVE  /\ \E i \in I : \A j \in I : i <= j
         /\ \E i \in I : \A j \in I : j <= i
<1>1. \E i \in I : \A j \in I : i <= j
  <2>1. I \in SUBSET Nat
    OBVIOUS
  <2> QED BY <2>1, LeastNumber
<1>2. \E i \in I : \A j \in I : j <= i
  <2> DEFINE above == {n - i : i \in I}
  <2>1. above \in SUBSET Nat /\ above # {}
    <3>1. \A i \in I : n - i \in Nat
      OBVIOUS
    <3> QED BY <3>1
  <2> HIDE DEF above
  <2>2. PICK k \in above : \A m \in above : k <= m
    BY <2>1, LeastNumber
  <2>3. PICK i \in I : k = n - i
    BY DEF above
  <2>4. \A j \in I : n - i <= n - j
    BY <2>2, <2>3 DEF above
  <2>5. \A j \in I : j <= i
    BY <2>4
  <2> QED BY <2>5
<1> QED BY <1>1, <1>2

\* The items kept of the first n, by the recursion of Without.
Kept(s, gone, kept, n) ==
  IF n = 0 THEN << >> ELSE IF n \in gone THEN kept[n - 1] ELSE Append(kept[n - 1], s[n])

IsKept(s, gone, kept, n) == kept = [m \in 0 .. n |-> Kept(s, gone, kept, m)]

LEMMA KeptExists ==
  ASSUME NEW s, Len(s) \in Nat, NEW gone
  PROVE  \E kept : IsKept(s, gone, kept, Len(s))
<1> DEFINE S == {n \in Nat : \E kept : IsKept(s, gone, kept, n)}
<1>1. 0 \in S
  <2> DEFINE kept == [m \in 0 .. 0 |-> << >>]
  <2>1. kept = [m \in 0 .. 0 |-> Kept(s, gone, kept, m)]
    BY DEF Kept
  <2> QED BY <2>1 DEF IsKept
<1>2. ASSUME NEW n \in S PROVE n + 1 \in S
  <2>1. PICK kept : IsKept(s, gone, kept, n)
    OBVIOUS
  <2>2. n \in Nat
    OBVIOUS
  <2> DEFINE more == [m \in 0 .. n + 1 |->
                        IF m = n + 1 THEN Kept(s, gone, kept, n + 1) ELSE kept[m]]
  <2>3. ASSUME NEW m \in 0 .. n + 1 PROVE more[m] = Kept(s, gone, more, m)
    <3>1. CASE m = n + 1
      BY <2>2, <3>1 DEF Kept
    <3>2. CASE m = 0
      BY <2>1, <2>2, <3>2 DEF Kept, IsKept
    <3>3. CASE m \in 1 .. n
      <4>1. m \in 0 .. n /\ m - 1 \in 0 .. n + 1 /\ m # n + 1 /\ m - 1 # n + 1 /\ m # 0
        BY <2>2, <3>3
      <4>2. kept[m] = Kept(s, gone, kept, m)
        BY <2>1, <4>1 DEF IsKept
      <4>3. more[m] = kept[m] /\ more[m - 1] = kept[m - 1]
        BY <4>1
      <4> QED BY <4>1, <4>2, <4>3 DEF Kept
    <3> QED BY <2>2, <3>1, <3>2, <3>3
  <2>4. more = [m \in 0 .. n + 1 |-> Kept(s, gone, more, m)]
    BY <2>3
  <2> HIDE DEF more
  <2>5. IsKept(s, gone, more, n + 1)
    BY <2>4 DEF IsKept
  <2> QED BY <2>2, <2>5
<1> HIDE DEF S
<1>3. S = Nat
  <2>1. S \in SUBSET Nat
    BY DEF S
  <2> QED BY <1>1, <1>2, <2>1, NatSet
<1> QED BY <1>3 DEF S

\* pick says where each item of t comes from.
Picks(t, s, from, pick) ==
  /\ pick \in [DOMAIN t -> from]
  /\ \A i, j \in DOMAIN t : pick[i] = pick[j] => i = j
  /\ \A i \in DOMAIN t : t[i] = s[pick[i]]

KeptFrom(S, s, t, from) == t \in Seq(S) /\ \E pick : Picks(t, s, from, pick)

\* What is left are items of the list, each taken once, and none of those that went.
LEMMA WithoutPicks ==
  ASSUME NEW S, NEW s \in Seq(S), NEW gone
  PROVE  KeptFrom(S, s, Without(s, gone), DOMAIN s \ gone)
<1> DEFINE kept == CHOOSE kept : IsKept(s, gone, kept, Len(s))
<1>1. Without(s, gone) = kept[Len(s)]
  BY DEF Without, IsKept, Kept
<1>2. Len(s) \in Nat /\ DOMAIN s = 1 .. Len(s)
  OBVIOUS
<1>3. IsKept(s, gone, kept, Len(s))
  BY <1>2, KeptExists
<1> HIDE DEF kept
<1>4. \A n \in 0 .. Len(s) : kept[n] = Kept(s, gone, kept, n)
  BY <1>3 DEF IsKept
<1> DEFINE N == {n \in Nat : n <= Len(s) => KeptFrom(S, s, kept[n], 1 .. n \ gone)}
<1>5. 0 \in N
  <2>1. kept[0] = << >>
    BY <1>2, <1>4 DEF Kept
  <2>2. Picks(<< >>, s, 1 .. 0 \ gone, << >>)
    BY DEF Picks
  <2>3. KeptFrom(S, s, kept[0], 1 .. 0 \ gone)
    BY <2>1, <2>2 DEF KeptFrom
  <2> QED BY <2>3
<1>6. ASSUME NEW n \in N PROVE n + 1 \in N
  <2> SUFFICES ASSUME n + 1 <= Len(s)
               PROVE  KeptFrom(S, s, kept[n + 1], 1 .. n + 1 \ gone)
    OBVIOUS
  <2>1. n \in Nat /\ n <= Len(s) /\ n + 1 \in 0 .. Len(s) /\ n + 1 # 0 /\ (n + 1) - 1 = n
    BY <1>2
  <2>2. kept[n] \in Seq(S) /\ \E pick : Picks(kept[n], s, 1 .. n \ gone, pick)
    BY <2>1 DEF KeptFrom
  <2>3. PICK pick : Picks(kept[n], s, 1 .. n \ gone, pick)
    BY <2>2
  <2>4. kept[n + 1] = IF n + 1 \in gone THEN kept[n] ELSE Append(kept[n], s[n + 1])
    BY <1>4, <2>1 DEF Kept
  <2>5. 1 .. n \ gone \subseteq 1 .. n + 1 \ gone
    BY <2>1
  <2>6. CASE n + 1 \in gone
    <3>1. Picks(kept[n], s, 1 .. n + 1 \ gone, pick)
      BY <2>3, <2>5 DEF Picks
    <3> QED BY <2>2, <2>4, <2>6, <3>1 DEF KeptFrom
  <2>7. CASE n + 1 \notin gone
    <3> DEFINE t == kept[n]
               u == Append(t, s[n + 1])
               also == [i \in 1 .. Len(t) + 1 |-> IF i = Len(t) + 1 THEN n + 1 ELSE pick[i]]
    <3>1. s[n + 1] \in S
      BY <1>2, <2>1, ElementOfSeq
    <3>2. Len(t) \in Nat /\ DOMAIN t = 1 .. Len(t)
      BY <2>2
    <3> HIDE DEF t
    <3>3. /\ u \in Seq(S) /\ DOMAIN u = 1 .. Len(t) + 1
          /\ \A i \in 1 .. Len(t) : u[i] = t[i]
          /\ u[Len(t) + 1] = s[n + 1]
      BY <2>2, <3>1, AppendProperties DEF t
    <3> HIDE DEF u
    <3>4. \A i \in 1 .. Len(t) : pick[i] \in 1 .. n \ gone /\ t[i] = s[pick[i]]
      BY <2>3, <3>2 DEF Picks, t
    <3>5. also \in [DOMAIN u -> 1 .. n + 1 \ gone]
      BY <2>1, <2>7, <3>2, <3>3, <3>4
    <3>6. \A i, j \in DOMAIN u : also[i] = also[j] => i = j
      <4>1. \A i, j \in 1 .. Len(t) : pick[i] = pick[j] => i = j
        BY <2>3, <3>2 DEF Picks, t
      <4> QED BY <2>1, <3>2, <3>3, <3>4, <4>1
    <3>7. \A i \in DOMAIN u : u[i] = s[also[i]]
      BY <3>2, <3>3, <3>4
    <3> HIDE DEF also
    <3>8. Picks(u, s, 1 .. n + 1 \ gone, also)
      BY <3>5, <3>6, <3>7 DEF Picks
    <3> QED BY <2>4, <2>7, <3>3, <3>8 DEF u, t, KeptFrom
  <2> QED BY <2>6, <2>7
<1> HIDE DEF N
<1>7. N = Nat
  <2>1. N \in SUBSET Nat
    BY DEF N
  <2> QED BY <1>5, <1>6, <2>1, NatSet
<1>8. Len(s) \in N
  BY <1>2, <1>7
<1>9. KeptFrom(S, s, kept[Len(s)], 1 .. Len(s) \ gone)
  BY <1>8 DEF N
<1>10. DOMAIN s \ gone = 1 .. Len(s) \ gone
  BY <1>2
<1> QED BY <1>1, <1>9, <1>10

--------------------------------------------------------------------------------
(* Counting the members of a sequence that are in a set. *)

Hits(s, T) == {i \in DOMAIN s : s[i] \in T}

LEMMA HitsFinite ==
  ASSUME NEW S, NEW s \in Seq(S), NEW I \in SUBSET DOMAIN s
  PROVE  IsFiniteSet(I) /\ Cardinality(I) \in Nat
<1>1. Len(s) \in Nat /\ DOMAIN s = 1 .. Len(s)
  OBVIOUS
<1>2. IsFiniteSet(1 .. Len(s))
  BY <1>1, FS_Interval
<1>3. IsFiniteSet(I)
  BY <1>1, <1>2, FS_Subset
<1> QED BY <1>3, FS_CardinalityType

LEMMA HitsAppend ==
  ASSUME NEW S, NEW s \in Seq(S), NEW x \in S, NEW T
  PROVE  Cardinality(Hits(Append(s, x), T)) =
           Cardinality(Hits(s, T)) + IF x \in T THEN 1 ELSE 0
<1> DEFINE n == Len(s) + 1
           t == Append(s, x)
<1>1. Len(s) \in Nat /\ DOMAIN s = 1 .. Len(s) /\ n \in Nat /\ n \notin 1 .. Len(s)
  OBVIOUS
<1>2. DOMAIN t = 1 .. n /\ t[n] = x /\ \A i \in 1 .. Len(s) : t[i] = s[i]
  BY AppendProperties
<1> HIDE DEF t
<1>3. Hits(t, T) = IF x \in T THEN Hits(s, T) \cup {n} ELSE Hits(s, T)
  BY <1>1, <1>2 DEF Hits
<1>4. n \notin Hits(s, T)
  BY <1>1 DEF Hits
<1>5. IsFiniteSet(Hits(s, T)) /\ Cardinality(Hits(s, T)) \in Nat
  BY HitsFinite DEF Hits
<1> HIDE DEF n
<1>6. Cardinality(Hits(s, T) \cup {n}) = Cardinality(Hits(s, T)) + 1
  BY <1>4, <1>5, FS_AddElement
<1> QED BY <1>3, <1>5, <1>6 DEF t

\* One that was taken is one less.
LEMMA HitsMove ==
  ASSUME NEW S, NEW s \in Seq(S), NEW R, NEW t \in Seq(R), NEW T, NEW X \in SUBSET DOMAIN s,
         NEW f \in [DOMAIN t -> DOMAIN s],
         \A i, j \in DOMAIN t : f[i] = f[j] => i = j,
         \A i \in DOMAIN t : t[i] \in T => f[i] \in X
  PROVE  Cardinality(Hits(t, T)) <= Cardinality(X)
<1> DEFINE H == Hits(t, T)
           g == [i \in H |-> f[i]]
<1>1. H \subseteq DOMAIN t /\ \A i \in H : f[i] \in X
  BY DEF Hits
<1> HIDE DEF H
<1>2. g \in [H -> X] /\ \A i, j \in H : g[i] = g[j] => i = j
  BY <1>1
<1>3. g \in Injection(H, X)
  BY <1>2 DEF Injection, IsInjective
<1>4. IsFiniteSet(X)
  BY HitsFinite
<1>5. Cardinality(H) <= Cardinality(X)
  BY <1>3, <1>4, FS_Injection
<1> QED BY <1>5 DEF H

LEMMA HitsTail ==
  ASSUME NEW S, NEW s \in Seq(S), s # << >>, NEW T
  PROVE  Cardinality(Hits(s, T)) =
           Cardinality(Hits(Tail(s), T)) + IF Head(s) \in T THEN 1 ELSE 0
<1> DEFINE H == Hits(s, T)
           rest == H \ {1}
           next == Hits(Tail(s), T)
           f == [i \in next |-> i + 1]
<1>1. /\ Len(s) \in Nat /\ DOMAIN s = 1 .. Len(s) /\ 1 \in DOMAIN s /\ Head(s) = s[1]
      /\ Tail(s) \in Seq(S) /\ DOMAIN Tail(s) = 1 .. Len(s) - 1
      /\ \A i \in 1 .. Len(s) - 1 : Tail(s)[i] = s[i + 1]
  BY HeadTailProperties
<1>2. IsFiniteSet(H) /\ Cardinality(H) \in Nat
  BY HitsFinite DEF Hits
<1>3. 1 \in H <=> Head(s) \in T
  BY <1>1 DEF Hits
<1>4. f \in [next -> rest]
  BY <1>1 DEF Hits
<1>5. \A i, j \in next : f[i] = f[j] => i = j
  BY <1>1 DEF Hits
<1>6. \A k \in rest : \E i \in next : f[i] = k
  <2> SUFFICES ASSUME NEW k \in rest PROVE k - 1 \in next /\ f[k - 1] = k
    OBVIOUS
  <2>1. k \in 1 .. Len(s) /\ k # 1 /\ s[k] \in T
    BY <1>1 DEF Hits
  <2>2. k - 1 \in 1 .. Len(s) - 1 /\ Tail(s)[k - 1] = s[k]
    BY <1>1, <2>1
  <2>3. k - 1 \in next
    BY <1>1, <2>1, <2>2 DEF Hits
  <2> QED BY <2>1, <2>3
<1> HIDE DEF f, next, rest, H
<1>7. f \in Bijection(next, rest)
  BY <1>4, <1>5, <1>6 DEF Bijection, Injection, Surjection, IsInjective
<1>8. IsFiniteSet(rest) /\ Cardinality(rest) = IF 1 \in H THEN Cardinality(H) - 1 ELSE Cardinality(H)
  BY <1>2, FS_RemoveElement DEF rest
<1>9. f \in Injection(next, rest) /\ f \in Surjection(next, rest)
  BY <1>7 DEF Bijection
<1>10. Cardinality(next) = Cardinality(rest)
  BY <1>8, <1>9, FS_Injection
<1> QED BY <1>2, <1>3, <1>8, <1>10 DEF next, H

--------------------------------------------------------------------------------
(* The invariant. *)

Items == [kind : {"staging", "pulse"}, id : Nat, text : Text, locked : Nat]

\* The types, with the store as a sequence.
LumenTyped ==
  /\ VeinTypeOK
  /\ store \in Seq(Items) /\ ids \in Nat
  /\ \A i \in DOMAIN store : store[i].id \in 1 .. ids /\ store[i].locked \in 0 .. MaxDispatch
  /\ \A i, j \in DOMAIN store : store[i].id = store[j].id => i = j
  /\ dialog \in 0 .. ids /\ asked \subseteq Text
  /\ others \in 0 .. MaxOther /\ locks \in 0 .. MaxDispatch

NoDispatch(q) == \A i \in DOMAIN q : q[i].kind # "dispatch"
OnlyLogs(q) == \A i \in DOMAIN q : q[i].kind = "log"

\* Before the brain has a client, and when it has none, nothing is staged: no payload
\* is dispatched that would wait in vain.
LumenCold ==
  brain.at \in {"boot", "dead"} =>
    /\ store = << >>
    /\ NoDispatch(events) /\ NoDispatch(inbox) /\ OnlyLogs(updates)

Texts(s, kinds) == {s[i].text : i \in {j \in DOMAIN s : s[j].kind \in kinds}}

\* The questions on their way, and the texts that have got further.
Asking == Texts(events, {"question"}) \cup Texts(inbox, {"question"})
Serving == IF brain.at \in {"recalled", "answered"} THEN {brain.text} ELSE {}
Traces ==
  Texts(events, {"dispatch"}) \cup Texts(inbox, {"dispatch"}) \cup Texts(updates, {"review"})
    \cup Texts(store, {"staging"}) \cup Serving \cup Chats(tasks) \cup Chats(vault)

OnceEach(s) ==
  \A i, j \in DOMAIN s :
    s[i].kind = "question" /\ s[j].kind = "question" /\ s[i].text = s[j].text => i = j

\* A question on its way is so once, and has left no trace yet.
LumenAsked ==
  /\ Asking \subseteq asked /\ Traces \subseteq asked
  /\ Asking \cap Traces = {}
  /\ OnceEach(events) /\ OnceEach(inbox)
  /\ Texts(events, {"question"}) \cap Texts(inbox, {"question"}) = {}
  /\ brain.text \notin brain.recalled
  /\ brain.at # "recalled" => brain.recalled = {}

\* LockedIsAwaited, in terms of Hits.
Dispatches == {e \in Events : e.kind = "dispatch"}
Outcomes == {u \in Updates : u.kind \in {"una", "error"}}
LockedItems == {x \in Items : IsLocked(x)}
PulseItems == {x \in Items : IsPulse(x)}
Awaiting(what) ==
  Cardinality(Hits(store, what)) <=
    Cardinality(Hits(events, Dispatches)) + Cardinality(Hits(inbox, Dispatches))
      + Cardinality(Hits(updates, Outcomes))
LumenAwaited == Awaiting(LockedItems) /\ Awaiting(PulseItems)

LumenInv == LumenTyped /\ LumenCold /\ LockedIsKept /\ LumenAsked /\ LumenAwaited

--------------------------------------------------------------------------------
(* What sending and receiving do to what is counted. *)

LEMMA AfterAppend ==
  ASSUME NEW S, NEW s \in Seq(S), NEW x \in S
  PROVE  /\ Append(s, x) \in Seq(S)
         /\ \A i \in DOMAIN Append(s, x) :
              Append(s, x)[i] = x \/ (i \in DOMAIN s /\ Append(s, x)[i] = s[i])
         /\ \A K : Texts(Append(s, x), K) = Texts(s, K) \cup IF x.kind \in K THEN {x.text} ELSE {}
         /\ OnceEach(s) /\ (x.kind = "question" => x.text \notin Texts(s, {"question"}))
              => OnceEach(Append(s, x))
<1> DEFINE t == Append(s, x)
           n == Len(s) + 1
<1>1. Len(s) \in Nat /\ DOMAIN s = 1 .. Len(s)
  OBVIOUS
<1>2. t \in Seq(S) /\ DOMAIN t = 1 .. n /\ t[n] = x /\ \A i \in 1 .. Len(s) : t[i] = s[i]
  BY AppendProperties
<1> HIDE DEF t
<1>3. \A i \in DOMAIN t : (i = n /\ t[i] = x) \/ (i \in DOMAIN s /\ t[i] = s[i])
  BY <1>1, <1>2
<1>4. n \in DOMAIN t /\ \A i \in DOMAIN s : i \in DOMAIN t /\ t[i] = s[i]
  BY <1>1, <1>2
<1>5. ASSUME NEW K
      PROVE  Texts(t, K) = Texts(s, K) \cup IF x.kind \in K THEN {x.text} ELSE {}
  BY <1>2, <1>3, <1>4 DEF Texts
<1>6. ASSUME OnceEach(s), x.kind = "question" => x.text \notin Texts(s, {"question"})
      PROVE  OnceEach(t)
  <2>1. \A i \in DOMAIN s : s[i].kind = "question" /\ x.kind = "question" => s[i].text # x.text
    BY <1>6 DEF Texts
  <2> QED BY <1>3, <1>6, <2>1 DEF OnceEach
<1> QED BY <1>2, <1>3, <1>5, <1>6 DEF t

LEMMA AfterTail ==
  ASSUME NEW S, NEW s \in Seq(S), s # << >>
  PROVE  /\ Head(s) \in S /\ Tail(s) \in Seq(S)
         /\ 1 \in DOMAIN s /\ Head(s) = s[1]
         /\ \A i \in DOMAIN Tail(s) : i + 1 \in DOMAIN s /\ Tail(s)[i] = s[i + 1]
         /\ \A K : Texts(s, K) = Texts(Tail(s), K)
                                  \cup IF Head(s).kind \in K THEN {Head(s).text} ELSE {}
         /\ OnceEach(s) => OnceEach(Tail(s))
         /\ OnceEach(s) /\ Head(s).kind = "question" =>
              Head(s).text \notin Texts(Tail(s), {"question"})
<1> DEFINE t == Tail(s)
           n == Len(s)
<1>1. /\ n \in Nat /\ DOMAIN s = 1 .. n /\ 1 \in DOMAIN s /\ Head(s) = s[1] /\ Head(s) \in S
      /\ t \in Seq(S) /\ DOMAIN t = 1 .. n - 1 /\ \A i \in 1 .. n - 1 : t[i] = s[i + 1]
  BY HeadTailProperties
<1> HIDE DEF t
<1>2. \A i \in DOMAIN t : i + 1 \in DOMAIN s /\ i + 1 # 1 /\ t[i] = s[i + 1]
  BY <1>1
<1>3. \A j \in DOMAIN s : j = 1 \/ (j - 1 \in DOMAIN t /\ t[j - 1] = s[j])
  BY <1>1
<1>4. ASSUME NEW K
      PROVE  Texts(s, K) = Texts(t, K) \cup IF s[1].kind \in K THEN {s[1].text} ELSE {}
  <2>1. ASSUME NEW x \in Texts(s, K)
        PROVE  x \in Texts(t, K) \/ (s[1].kind \in K /\ x = s[1].text)
    <3>1. PICK j \in DOMAIN s : s[j].kind \in K /\ x = s[j].text
      BY DEF Texts
    <3> QED BY <1>3, <3>1 DEF Texts
  <2>2. ASSUME NEW x \in Texts(t, K) PROVE x \in Texts(s, K)
    <3>1. PICK i \in DOMAIN t : t[i].kind \in K /\ x = t[i].text
      BY DEF Texts
    <3>2. i + 1 \in DOMAIN s /\ s[i + 1].kind \in K /\ x = s[i + 1].text
      BY <1>2, <3>1
    <3> QED BY <3>2 DEF Texts
  <2>3. s[1].kind \in K => s[1].text \in Texts(s, K)
    BY <1>1 DEF Texts
  <2> QED BY <2>1, <2>2, <2>3
<1>5. ASSUME OnceEach(s) PROVE OnceEach(t)
  <2> SUFFICES ASSUME NEW i \in DOMAIN t, NEW j \in DOMAIN t, t[i].kind = "question",
                      t[j].kind = "question", t[i].text = t[j].text
               PROVE  i = j
    BY DEF OnceEach
  <2>1. i + 1 = j + 1
    BY <1>2, <1>5 DEF OnceEach
  <2> QED BY <1>1, <2>1
<1>6. ASSUME OnceEach(s), s[1].kind = "question" PROVE s[1].text \notin Texts(t, {"question"})
  <2> SUFFICES ASSUME NEW i \in DOMAIN t, t[i].kind = "question", t[i].text = s[1].text
               PROVE  FALSE
    BY DEF Texts
  <2>1. i + 1 \in DOMAIN s /\ i + 1 # 1 /\ s[i + 1].kind = "question" /\ s[i + 1].text = s[1].text
    BY <1>2
  <2> QED BY <1>1, <1>6, <2>1 DEF OnceEach
<1> QED BY <1>1, <1>2, <1>4, <1>5, <1>6 DEF t

\* Sending one update, or none.
LEMMA Told ==
  ASSUME updates \in Seq(Updates), NEW u \in Updates, Tell(<<u>>)
  PROVE  updates' = Append(updates, u)
  BY AppendIsConcat DEF Tell

LEMMA ToldNothing ==
  ASSUME updates \in Seq(Updates), Tell(<< >>)
  PROVE  UNCHANGED updates
  BY ConcatEmptySeq DEF Tell

LEMMA EventSent ==
  ASSUME NEW q \in Seq(Events), NEW e \in Events
  PROVE  /\ Append(q, e) \in Seq(Events)
         /\ Texts(Append(q, e), {"question"}) =
              Texts(q, {"question"}) \cup IF e.kind = "question" THEN {e.text} ELSE {}
         /\ Texts(Append(q, e), {"dispatch"}) =
              Texts(q, {"dispatch"}) \cup IF e.kind = "dispatch" THEN {e.text} ELSE {}
         /\ Cardinality(Hits(Append(q, e), Dispatches)) =
              Cardinality(Hits(q, Dispatches)) + IF e.kind = "dispatch" THEN 1 ELSE 0
         /\ OnceEach(q) /\ (e.kind = "question" => e.text \notin Texts(q, {"question"}))
              => OnceEach(Append(q, e))
         /\ NoDispatch(q) /\ e.kind # "dispatch" => NoDispatch(Append(q, e))
<1>1. e \in Dispatches <=> e.kind = "dispatch"
  BY DEF Dispatches
<1>2. Cardinality(Hits(Append(q, e), Dispatches)) =
        Cardinality(Hits(q, Dispatches)) + IF e \in Dispatches THEN 1 ELSE 0
  BY HitsAppend
<1>3. NoDispatch(q) /\ e.kind # "dispatch" => NoDispatch(Append(q, e))
  BY AfterAppend DEF NoDispatch
<1>4. /\ e.kind \in {"question"} <=> e.kind = "question"
      /\ e.kind \in {"dispatch"} <=> e.kind = "dispatch"
  OBVIOUS
<1>5. /\ Append(q, e) \in Seq(Events)
      /\ \A K : Texts(Append(q, e), K) = Texts(q, K) \cup IF e.kind \in K THEN {e.text} ELSE {}
      /\ OnceEach(q) /\ (e.kind = "question" => e.text \notin Texts(q, {"question"}))
           => OnceEach(Append(q, e))
  BY AfterAppend
<1> QED BY <1>1, <1>2, <1>3, <1>4, <1>5

LEMMA EventTaken ==
  ASSUME NEW q \in Seq(Events), q # << >>
  PROVE  /\ Head(q) \in Events /\ Tail(q) \in Seq(Events)
         /\ Texts(q, {"question"}) = Texts(Tail(q), {"question"})
              \cup IF Head(q).kind = "question" THEN {Head(q).text} ELSE {}
         /\ Texts(q, {"dispatch"}) = Texts(Tail(q), {"dispatch"})
              \cup IF Head(q).kind = "dispatch" THEN {Head(q).text} ELSE {}
         /\ Cardinality(Hits(q, Dispatches)) =
              Cardinality(Hits(Tail(q), Dispatches)) + IF Head(q).kind = "dispatch" THEN 1 ELSE 0
         /\ OnceEach(q) => OnceEach(Tail(q))
         /\ OnceEach(q) /\ Head(q).kind = "question" =>
              Head(q).text \notin Texts(Tail(q), {"question"})
         /\ NoDispatch(q) => NoDispatch(Tail(q)) /\ Head(q).kind # "dispatch"
<1>1. /\ Head(q) \in Events /\ Tail(q) \in Seq(Events)
      /\ 1 \in DOMAIN q /\ Head(q) = q[1]
      /\ \A i \in DOMAIN Tail(q) : i + 1 \in DOMAIN q /\ Tail(q)[i] = q[i + 1]
  BY AfterTail
<1>2. /\ \A K : Texts(q, K) = Texts(Tail(q), K)
                                 \cup IF Head(q).kind \in K THEN {Head(q).text} ELSE {}
      /\ OnceEach(q) => OnceEach(Tail(q))
      /\ OnceEach(q) /\ Head(q).kind = "question" =>
           Head(q).text \notin Texts(Tail(q), {"question"})
  BY AfterTail
<1>3. Head(q) \in Dispatches <=> Head(q).kind = "dispatch"
  BY <1>1 DEF Dispatches
<1>4. Cardinality(Hits(q, Dispatches)) =
        Cardinality(Hits(Tail(q), Dispatches)) + IF Head(q) \in Dispatches THEN 1 ELSE 0
  BY HitsTail
<1>5. NoDispatch(q) => NoDispatch(Tail(q)) /\ Head(q).kind # "dispatch"
  BY <1>1 DEF NoDispatch
<1>6. /\ Head(q).kind \in {"question"} <=> Head(q).kind = "question"
      /\ Head(q).kind \in {"dispatch"} <=> Head(q).kind = "dispatch"
  OBVIOUS
<1> QED BY <1>1, <1>2, <1>3, <1>4, <1>5, <1>6

LEMMA UpdateSent ==
  ASSUME NEW q \in Seq(Updates), NEW u \in Updates
  PROVE  /\ Append(q, u) \in Seq(Updates)
         /\ Texts(Append(q, u), {"review"}) =
              Texts(q, {"review"}) \cup IF u.kind = "review" THEN {u.text} ELSE {}
         /\ Cardinality(Hits(Append(q, u), Outcomes)) =
              Cardinality(Hits(q, Outcomes)) + IF u.kind \in {"una", "error"} THEN 1 ELSE 0
         /\ OnlyLogs(q) /\ u.kind = "log" => OnlyLogs(Append(q, u))
<1>1. u \in Outcomes <=> u.kind \in {"una", "error"}
  BY DEF Outcomes
<1>2. Cardinality(Hits(Append(q, u), Outcomes)) =
        Cardinality(Hits(q, Outcomes)) + IF u \in Outcomes THEN 1 ELSE 0
  BY HitsAppend
<1>3. OnlyLogs(q) /\ u.kind = "log" => OnlyLogs(Append(q, u))
  BY AfterAppend DEF OnlyLogs
<1>4. u.kind \in {"review"} <=> u.kind = "review"
  OBVIOUS
<1>5. /\ Append(q, u) \in Seq(Updates)
      /\ \A K : Texts(Append(q, u), K) = Texts(q, K) \cup IF u.kind \in K THEN {u.text} ELSE {}
  BY AfterAppend
<1> QED BY <1>1, <1>2, <1>3, <1>4, <1>5

LEMMA UpdateTaken ==
  ASSUME NEW q \in Seq(Updates), q # << >>
  PROVE  /\ Head(q) \in Updates /\ Tail(q) \in Seq(Updates)
         /\ Texts(q, {"review"}) = Texts(Tail(q), {"review"})
              \cup IF Head(q).kind = "review" THEN {Head(q).text} ELSE {}
         /\ Cardinality(Hits(q, Outcomes)) =
              Cardinality(Hits(Tail(q), Outcomes))
                + IF Head(q).kind \in {"una", "error"} THEN 1 ELSE 0
         /\ OnlyLogs(q) => OnlyLogs(Tail(q)) /\ Head(q).kind = "log"
<1>1. /\ Head(q) \in Updates /\ Tail(q) \in Seq(Updates)
      /\ 1 \in DOMAIN q /\ Head(q) = q[1]
      /\ \A i \in DOMAIN Tail(q) : i + 1 \in DOMAIN q /\ Tail(q)[i] = q[i + 1]
  BY AfterTail
<1>2. Texts(q, {"review"}) = Texts(Tail(q), {"review"})
        \cup IF Head(q).kind \in {"review"} THEN {Head(q).text} ELSE {}
  BY AfterTail
<1>3. Head(q) \in Outcomes <=> Head(q).kind \in {"una", "error"}
  BY <1>1 DEF Outcomes
<1>4. Cardinality(Hits(q, Outcomes)) =
        Cardinality(Hits(Tail(q), Outcomes)) + IF Head(q) \in Outcomes THEN 1 ELSE 0
  BY HitsTail
<1>5. OnlyLogs(q) => OnlyLogs(Tail(q)) /\ Head(q).kind = "log"
  BY <1>1 DEF OnlyLogs
<1>6. Head(q).kind \in {"review"} <=> Head(q).kind = "review"
  OBVIOUS
<1> QED BY <1>1, <1>2, <1>3, <1>4, <1>5, <1>6

\* Numbers all of them.
LEMMA CountsAreNumbers ==
  ASSUME LumenTyped
  PROVE  /\ Cardinality(Hits(events, Dispatches)) \in Nat
         /\ Cardinality(Hits(inbox, Dispatches)) \in Nat
         /\ Cardinality(Hits(updates, Outcomes)) \in Nat
         /\ \A T : Cardinality(Hits(store, T)) \in Nat
<1>1. events \in Seq(Events) /\ inbox \in Seq(Events) /\ updates \in Seq(Updates)
      /\ store \in Seq(Items)
  BY DEF LumenTyped, VeinTypeOK
<1>2. \A T : /\ Hits(events, T) \in SUBSET DOMAIN events /\ Hits(inbox, T) \in SUBSET DOMAIN inbox
             /\ Hits(updates, T) \in SUBSET DOMAIN updates
             /\ Hits(store, T) \in SUBSET DOMAIN store
  BY DEF Hits
<1>3. \A T : Cardinality(Hits(store, T)) \in Nat
  BY <1>1, <1>2, HitsFinite
<1>4. Cardinality(Hits(events, Dispatches)) \in Nat
  BY <1>1, <1>2, HitsFinite
<1>5. Cardinality(Hits(inbox, Dispatches)) \in Nat
  BY <1>1, <1>2, HitsFinite
<1>6. Cardinality(Hits(updates, Outcomes)) \in Nat
  BY <1>1, <1>2, HitsFinite
<1> QED BY <1>3, <1>4, <1>5, <1>6

--------------------------------------------------------------------------------
(* The steps of Vein: the console stays as it is. *)

\* What a step of Vein must show.
VeinKeeps ==
  /\ VeinTypeOK'
  /\ LumenCold'
  /\ LumenAsked'
  /\ Cardinality(Hits(events', Dispatches)) + Cardinality(Hits(inbox', Dispatches))
       + Cardinality(Hits(updates', Outcomes)) >=
     Cardinality(Hits(events, Dispatches)) + Cardinality(Hits(inbox, Dispatches))
       + Cardinality(Hits(updates, Outcomes))
     \/ store = << >>

LEMMA VeinKeepsIsEnough ==
  ASSUME LumenInv, UNCHANGED console, VeinKeeps,
         events' \in Seq(Events), inbox' \in Seq(Events), updates' \in Seq(Updates)
  PROVE  LumenInv'
<1>1. UNCHANGED <<store, dialog, asked, others, locks, ids>>
  BY DEF console
<1>2. LumenTyped'
  BY <1>1 DEF VeinKeeps, LumenInv, LumenTyped
<1>3. LockedIsKept'
  BY <1>1 DEF LumenInv, LockedIsKept
<1>4. LumenAwaited'
  <2> DEFINE flight == Cardinality(Hits(events, Dispatches)) + Cardinality(Hits(inbox, Dispatches))
                         + Cardinality(Hits(updates, Outcomes))
             after == Cardinality(Hits(events', Dispatches)) + Cardinality(Hits(inbox', Dispatches))
                         + Cardinality(Hits(updates', Outcomes))
  <2>1. flight \in Nat /\ \A T : Cardinality(Hits(store, T)) \in Nat
    BY CountsAreNumbers DEF LumenInv
  <2>2. after \in Nat /\ (after >= flight \/ store = << >>)
    <3>1. (after \in Nat)
      <4>1. \A T : /\ Hits(events', T) \in SUBSET DOMAIN events'
                   /\ Hits(inbox', T) \in SUBSET DOMAIN inbox'
                   /\ Hits(updates', T) \in SUBSET DOMAIN updates'
        BY DEF Hits
      <4>2. Cardinality(Hits(events', Dispatches)) \in Nat
        BY <4>1, HitsFinite
      <4>3. Cardinality(Hits(inbox', Dispatches)) \in Nat
        BY <4>1, HitsFinite
      <4>4. Cardinality(Hits(updates', Outcomes)) \in Nat
        BY <4>1, HitsFinite
      <4> QED BY <4>2, <4>3, <4>4
    <3> QED BY <3>1 DEF VeinKeeps
  <2>3. store = << >> => \A T : Cardinality(Hits(store, T)) = 0
    <3>1. store = << >> => \A T : Hits(store, T) = {}
      BY DEF Hits
    <3> QED BY <3>1, FS_EmptySet
  <2>4. Cardinality(Hits(store, LockedItems)) <= flight /\ Cardinality(Hits(store, PulseItems)) <= flight
    BY DEF LumenInv, LumenAwaited, Awaiting
  <2>5. Cardinality(Hits(store, LockedItems)) <= after /\ Cardinality(Hits(store, PulseItems)) <= after
    <3> HIDE DEF flight, after
    <3> QED BY <2>1, <2>2, <2>3, <2>4
  <2> QED BY <1>1, <2>5 DEF LumenAwaited, Awaiting
<1> QED BY <1>2, <1>3, <1>4 DEF LumenInv, VeinKeeps

\* The types of the channels, which the steps below start from.
LEMMA Channelled ==
  ASSUME LumenTyped
  PROVE  /\ events \in Seq(Events) /\ inbox \in Seq(Events) /\ updates \in Seq(Updates)
         /\ brain \in [at : {"boot", "dead", "recv", "answered", "recalled"}, text : Text,
                       recalled : SUBSET Text]
         /\ tasks \subseteq Memories /\ vault \subseteq Memories
         /\ Cardinality(Hits(events, Dispatches)) \in Nat
         /\ Cardinality(Hits(inbox, Dispatches)) \in Nat
         /\ Cardinality(Hits(updates, Outcomes)) \in Nat
  BY CountsAreNumbers DEF LumenTyped, VeinTypeOK

LEMMA HandleKeeps == ASSUME LumenInv, Handle, UNCHANGED console PROVE LumenInv'
<1> DEFINE e == Head(events)
<1>0. /\ events \in Seq(Events) /\ inbox \in Seq(Events) /\ updates \in Seq(Updates)
      /\ brain \in [at : {"boot", "dead", "recv", "answered", "recalled"}, text : Text,
                    recalled : SUBSET Text]
      /\ tasks \subseteq Memories /\ vault \subseteq Memories
      /\ Cardinality(Hits(events, Dispatches)) \in Nat
      /\ Cardinality(Hits(inbox, Dispatches)) \in Nat
      /\ Cardinality(Hits(updates, Outcomes)) \in Nat
      /\ LumenCold /\ LumenAsked
  BY Channelled DEF LumenInv
<1>1. /\ events # << >> /\ events' = Tail(events) /\ UNCHANGED <<brain, tasks, vault>>
      /\ e \in Events /\ events' \in Seq(Events)
  BY <1>0, EventTaken DEF Handle
<1>2. UNCHANGED <<store, asked>>
  BY DEF console
<1>3. CASE Dead
  <2>1. UNCHANGED inbox /\ e.kind # "dispatch"
    BY <1>0, <1>1, <1>3, EventTaken DEF Handle, Dead, LumenCold
  <2>2. \/ UNCHANGED updates
        \/ updates' = Append(updates, Show("log", e.text)) /\ Show("log", e.text) \in Updates
    <3>1. Show("log", e.text) \in Updates
      BY <1>0, <1>1 DEF Show, Updates, Events
    <3> QED BY <1>0, <1>3, <3>1, Told DEF Handle
  <2>3. /\ updates' \in Seq(Updates) /\ Texts(updates', {"review"}) = Texts(updates, {"review"})
        /\ OnlyLogs(updates')
    BY <1>0, <1>3, <2>2, UpdateSent DEF Show, Dead, LumenCold
  <2>4. LumenCold' /\ store = << >>
    BY <1>0, <1>1, <1>2, <1>3, <2>1, <2>3, EventTaken DEF LumenCold, Dead
  <2>5. LumenAsked'
    <3>1. /\ Texts(events', {"question"}) \subseteq Texts(events, {"question"})
          /\ Texts(events', {"dispatch"}) \subseteq Texts(events, {"dispatch"})
          /\ OnceEach(events')
      BY <1>0, <1>1, EventTaken DEF LumenAsked
    <3> QED BY <1>0, <1>1, <1>2, <2>1, <2>3, <3>1 DEF LumenAsked, Asking, Traces, Serving
  <2> QED BY <1>0, <1>1, <2>1, <2>3, <2>4, <2>5, VeinKeepsIsEnough DEF VeinKeeps, VeinTypeOK
<1>4. CASE ~ Dead
  <2>1. inbox' = Append(inbox, e) /\ inbox' \in Seq(Events)
    BY <1>0, <1>1, <1>4, EventSent DEF Handle
  <2>2. UNCHANGED updates
    BY <1>0, <1>4, ToldNothing DEF Handle
  <2>3. LumenCold'
    BY <1>0, <1>1, <1>2, <2>1, <2>2, EventTaken, EventSent DEF LumenCold
  <2>4. LumenAsked'
    <3>1. OnceEach(inbox')
      BY <1>0, <1>1, <2>1, EventSent, EventTaken DEF LumenAsked
    <3>2. /\ Texts(events, {"question"}) = Texts(events', {"question"})
               \cup IF e.kind = "question" THEN {e.text} ELSE {}
          /\ Texts(events, {"dispatch"}) = Texts(events', {"dispatch"})
               \cup IF e.kind = "dispatch" THEN {e.text} ELSE {}
          /\ OnceEach(events')
          /\ e.kind = "question" => e.text \notin Texts(events', {"question"})
      BY <1>0, <1>1, EventTaken DEF LumenAsked
    <3>3. /\ Texts(inbox', {"question"}) = Texts(inbox, {"question"})
               \cup IF e.kind = "question" THEN {e.text} ELSE {}
          /\ Texts(inbox', {"dispatch"}) = Texts(inbox, {"dispatch"})
               \cup IF e.kind = "dispatch" THEN {e.text} ELSE {}
      BY <1>0, <1>1, <2>1, EventSent
    <3>4. Asking' = Asking /\ Traces' = Traces
      BY <1>0, <1>1, <1>2, <2>2, <3>2, <3>3 DEF Asking, Traces, Serving
    <3>5. Texts(events', {"question"}) \cap Texts(inbox', {"question"}) = {}
      BY <1>0, <3>2, <3>3 DEF LumenAsked
    <3> QED BY <1>0, <1>1, <1>2, <3>1, <3>2, <3>4, <3>5 DEF LumenAsked
  <2>5. /\ Cardinality(Hits(events, Dispatches)) = Cardinality(Hits(events', Dispatches))
             + IF e.kind = "dispatch" THEN 1 ELSE 0
        /\ Cardinality(Hits(inbox', Dispatches)) = Cardinality(Hits(inbox, Dispatches))
             + IF e.kind = "dispatch" THEN 1 ELSE 0
    BY <1>0, <1>1, <2>1, EventTaken, EventSent
  <2>6. Cardinality(Hits(events', Dispatches)) \in Nat
    <3>1. Hits(events', Dispatches) \in SUBSET DOMAIN events'
      BY DEF Hits
    <3> QED BY <1>0, <1>1, <3>1, HitsFinite
  <2>7. VeinTypeOK'
    BY <1>0, <1>1, <2>1, <2>2 DEF VeinTypeOK
  <2>8. Cardinality(Hits(events', Dispatches)) + Cardinality(Hits(inbox', Dispatches)) =
          Cardinality(Hits(events, Dispatches)) + Cardinality(Hits(inbox, Dispatches))
    BY <1>0, <2>5, <2>6
  <2>9. VeinKeeps
    BY <1>0, <2>2, <2>3, <2>4, <2>7, <2>8 DEF VeinKeeps
  <2> QED BY <1>0, <1>1, <2>1, <2>2, <2>9, VeinKeepsIsEnough
<1> QED BY <1>3, <1>4

LEMMA BrainKeeps == ASSUME LumenInv, BrainStep \/ TaskStep, UNCHANGED console PROVE LumenInv'
<1> DEFINE e == Head(inbox)
           waiting == Cardinality(Hits(inbox, Dispatches))
           waitingNext == Cardinality(Hits(inbox', Dispatches))
           outcomes == Cardinality(Hits(updates, Outcomes))
           outcomesNext == Cardinality(Hits(updates', Outcomes))
<1>0. /\ events \in Seq(Events) /\ inbox \in Seq(Events) /\ updates \in Seq(Updates)
      /\ brain \in [at : {"boot", "dead", "recv", "answered", "recalled"}, text : Text,
                    recalled : SUBSET Text]
      /\ tasks \subseteq Memories /\ vault \subseteq Memories
      /\ Cardinality(Hits(events, Dispatches)) \in Nat /\ waiting \in Nat /\ outcomes \in Nat
      /\ LumenCold /\ LumenAsked
  BY Channelled DEF LumenInv
<1>1. UNCHANGED <<store, asked>>
  BY DEF console
\* It is enough to show the parts of VeinKeeps, the events being left alone.
<1>2. SUFFICES /\ UNCHANGED events /\ inbox' \in Seq(Events) /\ updates' \in Seq(Updates)
               /\ brain' \in [at : {"boot", "dead", "recv", "answered", "recalled"}, text : Text,
                              recalled : SUBSET Text]
               /\ tasks' \subseteq Memories /\ vault' \subseteq Memories
               /\ LumenCold' /\ LumenAsked'
               /\ waitingNext + outcomesNext = waiting + outcomes \/ store = << >>
  <2>1. VeinTypeOK'
    BY <1>0, <1>2 DEF VeinTypeOK
  <2>2. \A T : /\ Hits(inbox', T) \in SUBSET DOMAIN inbox'
               /\ Hits(updates', T) \in SUBSET DOMAIN updates'
    BY DEF Hits
  <2>3. waitingNext \in Nat
    BY <1>2, <2>2, HitsFinite
  <2>4. outcomesNext \in Nat
    BY <1>2, <2>2, HitsFinite
  <2>5. Cardinality(Hits(events', Dispatches)) = Cardinality(Hits(events, Dispatches))
    BY <1>2
  <2>6. Cardinality(Hits(events', Dispatches)) + waitingNext + outcomesNext >=
          Cardinality(Hits(events, Dispatches)) + waiting + outcomes \/ store = << >>
    <3> HIDE DEF waiting, waitingNext, outcomes, outcomesNext
    <3> QED BY <1>0, <1>2, <2>3, <2>4, <2>5
  <2>7. VeinKeeps
    BY <1>2, <2>1, <2>6 DEF VeinKeeps
  <2> QED BY <1>0, <1>2, <2>7, VeinKeepsIsEnough
\* What a step that receives has taken.
<1>3. ASSUME inbox # << >>, inbox' = Tail(inbox)
      PROVE  /\ e \in Events /\ inbox' \in Seq(Events)
             /\ Texts(inbox, {"question"}) = Texts(inbox', {"question"})
                  \cup IF e.kind = "question" THEN {e.text} ELSE {}
             /\ Texts(inbox, {"dispatch"}) = Texts(inbox', {"dispatch"})
                  \cup IF e.kind = "dispatch" THEN {e.text} ELSE {}
             /\ waitingNext \in Nat /\ waiting = waitingNext + IF e.kind = "dispatch" THEN 1 ELSE 0
             /\ OnceEach(inbox')
             /\ e.kind = "question" => e.text \notin Texts(inbox', {"question"})
  <2>1. Hits(inbox', Dispatches) \in SUBSET DOMAIN inbox' /\ inbox' \in Seq(Events)
    BY <1>0, <1>3, EventTaken DEF Hits
  <2>2. waitingNext \in Nat
    BY <2>1, HitsFinite
  <2> QED BY <1>0, <1>3, <2>2, EventTaken DEF LumenAsked
<1>4. ASSUME NEW u \in Updates, Tell(<<u>>)
      PROVE  /\ updates' \in Seq(Updates)
             /\ Texts(updates', {"review"}) =
                  Texts(updates, {"review"}) \cup IF u.kind = "review" THEN {u.text} ELSE {}
             /\ outcomesNext = outcomes + IF u.kind \in {"una", "error"} THEN 1 ELSE 0
  BY <1>0, <1>4, Told, UpdateSent
<1> HIDE DEF waiting, waitingNext, outcomes, outcomesNext
<1> DEFINE asking == Texts(events, {"question"})
           asks == Texts(inbox, {"question"})
           sent == Texts(events, {"dispatch"})
           queued == Texts(inbox, {"dispatch"})
           reviews == Texts(updates, {"review"})
           staged == Texts(store, {"staging"})
<1>5. CASE Boot
  <2>1. /\ UNCHANGED <<events, updates, tasks, vault>>
        /\ brain.at = "boot"
        /\ \/ brain' = [brain EXCEPT !.at = "recv"] /\ UNCHANGED inbox
           \/ brain' = [brain EXCEPT !.at = "dead"] /\ inbox' = << >>
    BY <1>5 DEF Boot
  <2>2. store = << >> /\ NoDispatch(events) /\ OnlyLogs(updates)
    BY <1>0, <2>1 DEF LumenCold
  <2>3. inbox' \in Seq(Events) /\ (inbox' = inbox \/ inbox' = << >>)
    <3>1. inbox' = inbox \/ inbox' = << >>
      BY <2>1
    <3>2. << >> \in Seq(Events)
      OBVIOUS
    <3>3. CASE inbox' = inbox
      BY <1>0, <3>3
    <3>4. CASE inbox' = << >>
      BY <3>2, <3>4
    <3> QED BY <3>1, <3>3, <3>4
  <2>4. /\ Texts(<< >>, {"question"}) = {} /\ Texts(<< >>, {"dispatch"}) = {}
        /\ OnceEach(<< >>) /\ NoDispatch(<< >>)
    BY DEF Texts, OnceEach, NoDispatch
  <2>5. LumenCold'
    BY <1>0, <1>1, <2>1, <2>2, <2>4 DEF LumenCold
  <2>6. LumenAsked'
    <3>1. /\ Texts(inbox', {"question"}) \subseteq asks /\ Texts(inbox', {"dispatch"}) \subseteq queued
          /\ OnceEach(inbox')
      BY <1>0, <2>3, <2>4 DEF LumenAsked
    <3>2. brain'.recalled = brain.recalled /\ brain'.text = brain.text /\ brain'.at \in {"recv", "dead"}
      BY <1>0, <2>1
    <3> QED BY <1>0, <1>1, <2>1, <3>1, <3>2 DEF LumenAsked, Asking, Traces, Serving
  <2> QED BY <1>0, <2>1, <2>2, <2>3, <2>5, <2>6
<1>6. CASE SaveDirective
  <2>1. /\ inbox # << >> /\ inbox' = Tail(inbox) /\ e.kind = "directive" /\ brain.at = "recv"
        /\ UNCHANGED <<events, updates, brain, vault>>
        /\ tasks' \in {tasks \cup {Memory("directive", e.text)}, tasks}
    BY <1>6 DEF SaveDirective, Receive
  <2>2. Memory("directive", e.text) \in Memories /\ Memory("directive", e.text).sender = "directive"
    BY <1>3, <2>1 DEF Memory, Memories, Events
  <2>3. tasks' \subseteq Memories /\ Chats(tasks') = Chats(tasks)
    BY <1>0, <2>1, <2>2 DEF Chats
  <2>4. LumenCold'
    BY <2>1 DEF LumenCold
  <2>5. waitingNext = waiting /\ outcomesNext = outcomes
    BY <1>0, <1>3, <2>1 DEF outcomesNext, outcomes
  <2>6. LumenAsked'
    BY <1>0, <1>1, <1>3, <2>1, <2>3 DEF LumenAsked, Asking, Traces, Serving
  <2> QED BY <1>0, <1>3, <2>1, <2>3, <2>4, <2>5, <2>6
<1>7. CASE Generate
  <2>1. /\ inbox # << >> /\ inbox' = Tail(inbox) /\ e.kind = "dispatch" /\ brain.at = "recv"
        /\ UNCHANGED <<events, tasks, vault>>
        /\ \/ Tell(<<Show("una", e.text)>>) /\ brain' = [brain EXCEPT !.at = "answered", !.text = e.text]
           \/ Tell(<<Show("error", e.text)>>) /\ UNCHANGED brain
    BY <1>7 DEF Generate, Receive
  <2>2. /\ Show("una", e.text) \in Updates /\ Show("error", e.text) \in Updates /\ e.text \in Text
        /\ Show("una", e.text).kind = "una" /\ Show("error", e.text).kind = "error"
    BY <1>3, <2>1 DEF Show, Updates, Events
  <2>3. /\ updates' \in Seq(Updates) /\ Texts(updates', {"review"}) = reviews
        /\ outcomesNext = outcomes + 1
    BY <1>4, <2>1, <2>2
  <2>4. waiting = waitingNext + 1 /\ queued = Texts(inbox', {"dispatch"}) \cup {e.text}
    BY <1>3, <2>1
  <2>5. waitingNext + outcomesNext = waiting + outcomes
    BY <1>0, <1>3, <2>1, <2>3, <2>4
  <2>6. /\ brain'.at \in {"recv", "answered"} /\ brain'.recalled = brain.recalled
        /\ brain'.at = "answered" => brain'.text = e.text
        /\ brain' \in [at : {"boot", "dead", "recv", "answered", "recalled"}, text : Text,
                       recalled : SUBSET Text]
    BY <1>0, <2>1, <2>2
  <2>7. LumenCold'
    BY <2>6 DEF LumenCold
  <2>8. LumenAsked'
    BY SMTT(30), <1>0, <1>1, <1>3, <2>1, <2>3, <2>4, <2>6 DEF LumenAsked, Asking, Traces, Serving
  <2> QED BY <1>0, <1>3, <2>1, <2>3, <2>5, <2>6, <2>7, <2>8
<1>8. CASE RememberAnswer
  <2> DEFINE model == Memory("model", brain.text)
             engram == Memory("engram", brain.text)
  <2>1. /\ brain.at = "answered" /\ UNCHANGED <<events, inbox, updates, vault>>
        /\ tasks' = tasks \cup {model, engram} /\ brain' = [brain EXCEPT !.at = "recv"]
    BY <1>8 DEF RememberAnswer
  <2>2. /\ model \in Memories /\ engram \in Memories
        /\ model.text = brain.text /\ engram.sender = "engram"
    BY <1>0 DEF Memory, Memories
  <2> HIDE DEF model, engram
  <2>3. tasks' \subseteq Memories /\ Chats(tasks') \subseteq Chats(tasks) \cup {brain.text}
    BY <1>0, <2>1, <2>2 DEF Chats
  <2>4. /\ brain'.at = "recv" /\ brain'.recalled = brain.recalled /\ brain'.text = brain.text
        /\ brain' \in [at : {"boot", "dead", "recv", "answered", "recalled"}, text : Text,
                       recalled : SUBSET Text]
    BY <1>0, <2>1
  <2>5. LumenCold' /\ waitingNext = waiting /\ outcomesNext = outcomes
    BY <2>1, <2>4 DEF LumenCold, waiting, waitingNext, outcomes, outcomesNext
  <2>6. LumenAsked'
    BY ZenonT(30), <1>0, <1>1, <2>1, <2>3, <2>4 DEF LumenAsked, Asking, Traces, Serving
  <2> QED BY <1>0, <2>1, <2>3, <2>4, <2>5, <2>6
<1>9. CASE Clear
  <2>1. /\ inbox # << >> /\ inbox' = Tail(inbox) /\ e.kind = "clear" /\ brain.at = "recv"
        /\ vault' \in {{}, vault} /\ Tell(<<Show("clear", e.text)>>)
        /\ UNCHANGED <<events, brain, tasks>>
    BY <1>9 DEF Clear, Receive
  <2>2. Show("clear", e.text) \in Updates /\ Show("clear", e.text).kind = "clear"
    BY <1>3, <2>1 DEF Show, Updates, Events
  <2>3. updates' \in Seq(Updates) /\ Texts(updates', {"review"}) = reviews /\ outcomesNext = outcomes
    <3>1. /\ updates' \in Seq(Updates) /\ Texts(updates', {"review"}) = reviews \cup {}
          /\ outcomesNext = outcomes + 0
      BY <1>4, <2>1, <2>2
    <3> QED BY <1>0, <3>1
  <2>4. vault' \subseteq Memories /\ Chats(vault') \subseteq Chats(vault)
    BY <1>0, <2>1 DEF Chats
  <2>5. LumenCold' /\ waitingNext = waiting
    BY <1>0, <1>3, <2>1 DEF LumenCold
  <2>6. LumenAsked'
    BY <1>0, <1>1, <1>3, <2>1, <2>3, <2>4 DEF LumenAsked, Asking, Traces, Serving
  <2> QED BY <1>0, <1>3, <2>1, <2>3, <2>4, <2>5, <2>6
<1>10. CASE Recall
  <2>1. /\ inbox # << >> /\ inbox' = Tail(inbox) /\ e.kind = "question" /\ brain.at = "recv"
        /\ brain' = [at |-> "recalled", text |-> e.text, recalled |-> Chats(vault)]
        /\ UNCHANGED <<events, updates, tasks, vault>>
    BY <1>10 DEF Recall, Receive
  <2>2. e.text \in Text /\ Chats(vault) \subseteq Text
    BY <1>0, <1>3, <2>1 DEF Events, Chats, Memories
  <2>3. /\ brain'.at = "recalled" /\ brain'.recalled = Chats(vault) /\ brain'.text = e.text
        /\ brain' \in [at : {"boot", "dead", "recv", "answered", "recalled"}, text : Text,
                       recalled : SUBSET Text]
    BY <2>1, <2>2
  <2>4. LumenCold' /\ waitingNext = waiting /\ outcomesNext = outcomes
    BY <1>0, <1>3, <2>1 DEF LumenCold, outcomes, outcomesNext
  <2>5. asks = Texts(inbox', {"question"}) \cup {e.text} /\ queued = Texts(inbox', {"dispatch"})
    BY <1>3, <2>1
  <2>6. e.text \notin Chats(vault) /\ e.text \notin Traces /\ e.text \in asked
    BY <1>0, <2>5 DEF LumenAsked, Asking, Traces
  <2>7. Asking' \subseteq Asking /\ e.text \notin Asking' /\ Traces' \subseteq Traces \cup {e.text}
    BY <1>0, <1>1, <1>3, <2>1, <2>3, <2>5 DEF LumenAsked, Asking, Traces, Serving
  <2>8. LumenAsked'
    BY <1>0, <1>1, <1>3, <2>1, <2>3, <2>5, <2>6, <2>7 DEF LumenAsked
  <2> QED BY <1>0, <1>3, <2>1, <2>3, <2>4, <2>8
<1>11. CASE SendReview
  <2>1. /\ brain.at = "recalled" /\ tasks' = tasks \cup {Memory("user", brain.text)}
        /\ Tell(<<Show("review", brain.text)>>)
        /\ brain' = [brain EXCEPT !.at = "recv", !.recalled = {}]
        /\ UNCHANGED <<events, inbox, vault>>
    BY <1>11 DEF SendReview
  <2>2. /\ Show("review", brain.text) \in Updates /\ Show("review", brain.text).kind = "review"
        /\ Show("review", brain.text).text = brain.text
        /\ Memory("user", brain.text) \in Memories /\ Memory("user", brain.text).text = brain.text
    BY <1>0 DEF Show, Updates, Memory, Memories
  <2>3. /\ updates' \in Seq(Updates) /\ Texts(updates', {"review"}) = reviews \cup {brain.text}
        /\ outcomesNext = outcomes
    BY <1>0, <1>4, <2>1, <2>2
  <2>4. tasks' \subseteq Memories /\ Chats(tasks') \subseteq Chats(tasks) \cup {brain.text}
    BY <1>0, <2>1, <2>2 DEF Chats
  <2>5. /\ brain'.at = "recv" /\ brain'.recalled = {} /\ brain'.text = brain.text
        /\ brain' \in [at : {"boot", "dead", "recv", "answered", "recalled"}, text : Text,
                       recalled : SUBSET Text]
    BY <1>0, <2>1
  <2>6. LumenCold' /\ waitingNext = waiting
    BY <2>1, <2>5 DEF LumenCold, waiting, waitingNext
  <2>7. LumenAsked'
    BY ZenonT(30), <1>0, <1>1, <2>1, <2>3, <2>4, <2>5 DEF LumenAsked, Asking, Traces, Serving
  <2> QED BY <1>0, <2>1, <2>3, <2>4, <2>5, <2>6, <2>7
<1>12. CASE TaskStep
  <2>1. /\ tasks' \subseteq tasks /\ vault' \subseteq vault \cup tasks
        /\ UNCHANGED <<events, inbox, updates, brain>>
    BY <1>12 DEF TaskStep, Save
  <2>2. LumenCold' /\ waitingNext = waiting /\ outcomesNext = outcomes
    BY <1>0, <1>1, <2>1 DEF LumenCold, waiting, waitingNext, outcomes, outcomesNext
  <2>3. Chats(tasks') \subseteq Chats(tasks) /\ Chats(vault') \subseteq Chats(vault) \cup Chats(tasks)
    BY <2>1 DEF Chats
  <2>4. LumenAsked'
    BY <1>0, <1>1, <2>1, <2>3 DEF LumenAsked, Asking, Traces, Serving
  <2> QED BY <1>0, <2>1, <2>2, <2>4
<1> QED BY <1>5, <1>6, <1>7, <1>8, <1>9, <1>10, <1>11, <1>12 DEF BrainStep

--------------------------------------------------------------------------------
(* The steps of the console. *)

\* What the console starts from.
LEMMA Consoled ==
  ASSUME LumenInv
  PROVE  /\ events \in Seq(Events) /\ updates \in Seq(Updates) /\ store \in Seq(Items)
         /\ DOMAIN store = 1 .. Len(store) /\ Len(store) \in Nat
         /\ ids \in Nat /\ dialog \in 0 .. ids /\ asked \subseteq Text
         /\ others \in 0 .. MaxOther /\ locks \in 0 .. MaxDispatch
         /\ MaxOther \in Nat /\ MaxDispatch \in Nat
         /\ \A i \in DOMAIN store :
              store[i] \in Items /\ store[i].id \in 1 .. ids /\ store[i].locked \in 0 .. MaxDispatch
         /\ \A i, j \in DOMAIN store : store[i].id = store[j].id => i = j
         /\ LumenTyped /\ VeinTypeOK /\ LumenCold /\ LockedIsKept /\ LumenAsked /\ LumenAwaited
<1>1. store \in Seq(Items)
  BY DEF LumenInv, LumenTyped
<1>2. \A i \in DOMAIN store : store[i] \in Items
  BY <1>1, ElementOfSeq
<1>3. DOMAIN store = 1 .. Len(store) /\ Len(store) \in Nat
  BY <1>1
<1> QED BY <1>1, <1>2, <1>3, ConsoleAssumption DEF LumenInv, LumenTyped, VeinTypeOK

LEMMA AskKeeps ==
  ASSUME LumenInv, NEW text \in Text, Ask(text), UNCHANGED vein
  PROVE  LumenInv'
<1> DEFINE e == [kind |-> "question", text |-> text]
<1>1. /\ text \notin asked /\ asked' = asked \cup {text} /\ events' = Append(events, e)
      /\ UNCHANGED <<store, dialog, others, locks, ids, updates, inbox, brain, tasks, vault>>
  BY DEF Ask, vein
<1>2. e \in Events /\ e.kind = "question" /\ e.text = text
  BY DEF Events
<1> HIDE DEF e
<1>3. text \notin Asking /\ text \notin Traces
  BY <1>1, Consoled DEF LumenAsked
<1>4. /\ events' \in Seq(Events)
      /\ Texts(events', {"question"}) = Texts(events, {"question"}) \cup {text}
      /\ Texts(events', {"dispatch"}) = Texts(events, {"dispatch"}) \cup {}
      /\ Cardinality(Hits(events', Dispatches)) = Cardinality(Hits(events, Dispatches)) + 0
      /\ OnceEach(events) /\ text \notin Texts(events, {"question"}) => OnceEach(events')
      /\ NoDispatch(events) => NoDispatch(events')
  BY <1>1, <1>2, Consoled, EventSent
<1>5. LumenTyped'
  BY <1>1, <1>4, Consoled DEF LumenTyped, VeinTypeOK
<1>6. LumenCold'
  BY <1>1, <1>4, Consoled DEF LumenCold
<1>7. LockedIsKept'
  BY <1>1, Consoled DEF LockedIsKept
<1>8. Asking' = Asking \cup {text} /\ Traces' = Traces
  BY <1>1, <1>4 DEF Asking, Traces, Serving
<1>9. LumenAsked'
  <2>1. LumenAsked
    BY Consoled
  <2>2. text \notin Texts(events, {"question"}) /\ text \notin Texts(inbox, {"question"})
    BY <1>3 DEF Asking
  <2> QED BY <1>1, <1>3, <1>4, <1>8, <2>1, <2>2 DEF LumenAsked
<1>10. LumenAwaited'
  <2>1. Cardinality(Hits(events', Dispatches)) = Cardinality(Hits(events, Dispatches))
    BY <1>4, Consoled, CountsAreNumbers
  <2> QED BY <1>1, <2>1, Consoled DEF LumenAwaited, Awaiting
<1> QED BY <1>5, <1>6, <1>7, <1>9, <1>10 DEF LumenInv

LEMMA CommandKeeps ==
  ASSUME LumenInv, NEW kind \in {"clear", "directive"}, Command(kind), UNCHANGED vein
  PROVE  LumenInv'
<1> DEFINE e == [kind |-> kind, text |-> SomeText]
<1>1. /\ others < MaxOther /\ others' = others + 1 /\ events' = Append(events, e)
      /\ UNCHANGED <<store, dialog, asked, locks, ids, updates, inbox, brain, tasks, vault>>
  BY DEF Command, vein
<1>2. e \in Events /\ e.kind = kind
  BY TextIsNonEmpty DEF Events, SomeText
<1> HIDE DEF e
<1>3. e.kind # "question" /\ e.kind # "dispatch"
  BY <1>2
<1>4. /\ events' \in Seq(Events)
      /\ Texts(events', {"question"}) = Texts(events, {"question"}) \cup {}
      /\ Texts(events', {"dispatch"}) = Texts(events, {"dispatch"}) \cup {}
      /\ Cardinality(Hits(events', Dispatches)) = Cardinality(Hits(events, Dispatches)) + 0
      /\ OnceEach(events) => OnceEach(events')
      /\ NoDispatch(events) => NoDispatch(events')
  BY <1>1, <1>2, <1>3, Consoled, EventSent
<1>5. LumenTyped'
  BY <1>1, <1>4, Consoled DEF LumenTyped, VeinTypeOK
<1>6. LumenCold'
  BY <1>1, <1>4, Consoled DEF LumenCold
<1>7. LockedIsKept'
  BY <1>1, Consoled DEF LockedIsKept
<1>8. Asking' = Asking /\ Traces' = Traces
  BY <1>1, <1>4 DEF Asking, Traces, Serving
<1>9. LumenAsked'
  <2>1. LumenAsked
    BY Consoled
  <2> QED BY <1>1, <1>4, <1>8, <2>1 DEF LumenAsked
<1>10. LumenAwaited'
  <2>1. Cardinality(Hits(events', Dispatches)) = Cardinality(Hits(events, Dispatches))
    BY <1>4, Consoled, CountsAreNumbers
  <2> QED BY <1>1, <2>1, Consoled DEF LumenAwaited, Awaiting
<1> QED BY <1>5, <1>6, <1>7, <1>9, <1>10 DEF LumenInv

LEMMA OpenDialogKeeps ==
  ASSUME LumenInv, NEW i \in DOMAIN store, OpenDialog(i), UNCHANGED vein
  PROVE  LumenInv'
<1>1. /\ Deletable(store[i]) /\ dialog' = store[i].id
      /\ others < MaxOther /\ others' = others + 1
      /\ UNCHANGED <<store, asked, locks, ids, events, updates, inbox, brain, tasks, vault>>
  BY DEF OpenDialog, vein
<1>2. LumenTyped'
  BY SMTT(30), <1>1, Consoled DEF LumenTyped, VeinTypeOK
<1>3. LockedIsKept'
  <2> SUFFICES ASSUME NEW j \in DOMAIN store, store[j].id = store[i].id PROVE ~IsLocked(store[j])
    BY <1>1 DEF LockedIsKept
  <2>1. j = i
    BY Consoled
  <2> QED BY <1>1, <2>1 DEF Deletable, IsLocked
<1>4. LumenCold'
  BY <1>1, Consoled DEF LumenCold
<1>5. LumenAsked'
  BY <1>1, Consoled DEF LumenAsked, Asking, Traces, Serving
<1>6. LumenAwaited'
  BY <1>1, Consoled DEF LumenAwaited, Awaiting
<1> QED BY <1>2, <1>3, <1>4, <1>5, <1>6 DEF LumenInv

LEMMA PressDispatchKeeps ==
  ASSUME LumenInv, NEW i \in DOMAIN store, PressDispatch(i), UNCHANGED vein
  PROVE  LumenInv'
<1> DEFINE e == [kind |-> "dispatch", text |-> store[i].text]
           pulse == Pulse(ids + 1, store[i].text)
           own == [store[i] EXCEPT !.locked = locks + 1]
           marked == [store EXCEPT ![i] = own]
<1>1. /\ dialog = 0 /\ locks < MaxDispatch /\ locks' = locks + 1 /\ ids' = ids + 1
      /\ store[i].kind = "staging"
      /\ store' = Append(marked, pulse) /\ events' = Append(events, e)
      /\ UNCHANGED <<dialog, asked, others, updates, inbox, brain, tasks, vault>>
  BY DEF PressDispatch, Dispatch, vein
<1>2. /\ e \in Events /\ e.kind = "dispatch" /\ e.text = store[i].text
      /\ pulse \in Items /\ pulse.kind = "pulse" /\ pulse.id = ids + 1 /\ pulse.locked = 0
      /\ own \in Items /\ own.kind = "staging" /\ own.id = store[i].id
      /\ own.text = store[i].text /\ own.locked = locks + 1
  <2>1. store[i] \in Items /\ ids + 1 \in Nat /\ locks + 1 \in Nat
    BY Consoled
  <2>2. store[i].text \in Text
    BY <2>1 DEF Items
  <2>3. e \in Events /\ pulse \in Items
    BY <2>1, <2>2 DEF Events, Items, Pulse
  <2>4. own \in Items /\ own.kind = store[i].kind /\ own.id = store[i].id
        /\ own.text = store[i].text /\ own.locked = locks + 1
    BY <2>1 DEF Items
  <2> QED BY <1>1, <2>3, <2>4 DEF Pulse
<1> HIDE DEF e, pulse, own
<1>3. /\ marked \in Seq(Items) /\ DOMAIN marked = DOMAIN store
      /\ \A j \in DOMAIN store : marked[j] = IF j = i THEN own ELSE store[j]
  BY <1>2, Consoled, ExceptSeq
<1> HIDE DEF marked
<1>4. /\ store' \in Seq(Items)
      /\ \A j \in DOMAIN store' : store'[j] = pulse \/ (j \in DOMAIN marked /\ store'[j] = marked[j])
      /\ Texts(store', {"staging"}) = Texts(marked, {"staging"})
           \cup IF pulse.kind \in {"staging"} THEN {pulse.text} ELSE {}
  BY <1>1, <1>2, <1>3, AfterAppend
<1>5. Texts(store', {"staging"}) = Texts(store, {"staging"})
  <2>1. \A j \in DOMAIN store : marked[j].kind = store[j].kind /\ marked[j].text = store[j].text
    BY <1>1, <1>2, <1>3
  <2>2. Texts(marked, {"staging"}) = Texts(store, {"staging"})
    BY <1>3, <2>1 DEF Texts
  <2> QED BY <1>2, <1>4, <2>2
<1>6. /\ events' \in Seq(Events)
      /\ Texts(events', {"question"}) = Texts(events, {"question"}) \cup {}
      /\ Texts(events', {"dispatch"}) = Texts(events, {"dispatch"}) \cup {store[i].text}
      /\ Cardinality(Hits(events', Dispatches)) = Cardinality(Hits(events, Dispatches)) + 1
      /\ OnceEach(events) => OnceEach(events')
  BY <1>1, <1>2, Consoled, EventSent
<1>7. \A j \in DOMAIN store' :
        store'[j] = pulse \/ store'[j] = own \/ (j \in DOMAIN store /\ store'[j] = store[j])
  BY <1>3, <1>4
<1>8. LumenTyped'
  <2>1. \A j \in DOMAIN store' : store'[j].id \in 1 .. ids' /\ store'[j].locked \in 0 .. MaxDispatch
    <3> SUFFICES ASSUME NEW j \in DOMAIN store'
                 PROVE  store'[j].id \in 1 .. ids + 1 /\ store'[j].locked \in 0 .. MaxDispatch
      BY <1>1
    <3>1. ids \in Nat /\ MaxDispatch \in Nat /\ locks \in Nat /\ locks + 1 \in 0 .. MaxDispatch
      BY <1>1, Consoled
    <3>2. CASE store'[j] = pulse
      BY <1>2, <3>1, <3>2
    <3>3. CASE store'[j] = own
      BY <1>2, <3>1, <3>3, Consoled
    <3>4. CASE j \in DOMAIN store /\ store'[j] = store[j]
      BY <3>1, <3>4, Consoled
    <3> QED BY <1>7, <3>2, <3>3, <3>4
  <2>2. \A j, k \in DOMAIN store' : store'[j].id = store'[k].id => j = k
    <3>1. DOMAIN store = 1 .. Len(store) /\ Len(store) \in Nat /\ Len(marked) = Len(store)
      BY <1>3, Consoled
    <3>2. DOMAIN store' = 1 .. Len(store) + 1 /\ store'[Len(store) + 1] = pulse
          /\ \A j \in 1 .. Len(store) : store'[j] = marked[j]
      <4>1. /\ Len(Append(marked, pulse)) = Len(marked) + 1
            /\ \A j \in 1 .. Len(marked) : Append(marked, pulse)[j] = marked[j]
            /\ Append(marked, pulse)[Len(marked) + 1] = pulse
        BY <1>2, <1>3, AppendProperties
      <4>2. DOMAIN store' = 1 .. Len(store')
        BY <1>4, LenProperties
      <4> QED BY <1>1, <3>1, <4>1, <4>2
    <3>3. ASSUME NEW j \in 1 .. Len(store)
          PROVE  store'[j].id = store[j].id /\ store[j].id \in 1 .. ids
      BY <1>2, <1>3, <3>1, <3>2, Consoled
    <3>4. ids \in Nat /\ \A j, k \in 1 .. Len(store) : store[j].id = store[k].id => j = k
      BY <3>1, Consoled
    <3> QED BY <1>2, <3>1, <3>2, <3>3, <3>4
  <2>3. dialog' \in 0 .. ids' /\ ids' \in Nat /\ locks' \in 0 .. MaxDispatch
    BY SMTT(30), <1>1, Consoled
  <2> QED BY <1>1, <1>4, <1>6, <2>1, <2>2, <2>3, Consoled DEF LumenTyped, VeinTypeOK
<1>9. LockedIsKept'
  <2> SUFFICES ASSUME NEW j \in DOMAIN store' PROVE store'[j].id # 0
    BY <1>1 DEF LockedIsKept
  <2> QED BY <1>1, <1>8 DEF LumenTyped
<1>10. LumenCold'
  <2>1. store # << >>
    OBVIOUS
  <2> QED BY <1>1, <2>1, Consoled DEF LumenCold
<1>11. LumenAsked'
  <2>1. store[i].text \in Texts(store, {"staging"})
    BY <1>1 DEF Texts
  <2>2. Asking' = Asking /\ Traces' = Traces
    BY <1>1, <1>5, <1>6, <2>1 DEF Asking, Traces, Serving
  <2>3. LumenAsked
    BY Consoled
  <2> QED BY <1>1, <1>6, <2>2, <2>3 DEF LumenAsked
<1>12. Cardinality(Hits(store', LockedItems)) <= Cardinality(Hits(store, LockedItems)) + 1
  <2>1. pulse \notin LockedItems
    BY <1>2 DEF LockedItems, IsLocked
  <2>2. Cardinality(Hits(store', LockedItems)) = Cardinality(Hits(marked, LockedItems)) + 0
    BY <1>1, <1>2, <1>3, <2>1, HitsAppend
  <2>3. Hits(marked, LockedItems) \in SUBSET (Hits(store, LockedItems) \cup {i})
    BY <1>3 DEF Hits
  <2>4. IsFiniteSet(Hits(store, LockedItems)) /\ Cardinality(Hits(store, LockedItems)) \in Nat
    <3>1. Hits(store, LockedItems) \in SUBSET DOMAIN store
      BY DEF Hits
    <3> QED BY <3>1, Consoled, HitsFinite
  <2>5. /\ IsFiniteSet(Hits(store, LockedItems) \cup {i})
        /\ Cardinality(Hits(store, LockedItems) \cup {i}) <= Cardinality(Hits(store, LockedItems)) + 1
    BY <2>4, FS_AddElement
  <2>6. Cardinality(Hits(marked, LockedItems)) <= Cardinality(Hits(store, LockedItems) \cup {i})
    BY <2>3, <2>5, FS_Subset
  <2>7. Cardinality(Hits(marked, LockedItems)) \in Nat
    <3>1. Hits(marked, LockedItems) \in SUBSET DOMAIN marked
      BY DEF Hits
    <3> QED BY <1>3, <3>1, HitsFinite
  <2>8. Cardinality(Hits(store, LockedItems) \cup {i}) \in Nat
    BY <2>5, FS_CardinalityType
  <2> QED BY <2>2, <2>4, <2>5, <2>6, <2>7, <2>8
<1>13. Cardinality(Hits(store', PulseItems)) = Cardinality(Hits(store, PulseItems)) + 1
  <2>1. pulse \in PulseItems /\ own \notin PulseItems /\ store[i] \notin PulseItems
    BY <1>1, <1>2 DEF PulseItems, IsPulse
  <2>2. Cardinality(Hits(store', PulseItems)) = Cardinality(Hits(marked, PulseItems)) + 1
    BY <1>1, <1>2, <1>3, <2>1, HitsAppend
  <2>3. Hits(marked, PulseItems) = Hits(store, PulseItems)
    BY <1>3, <2>1 DEF Hits
  <2> QED BY <2>2, <2>3
<1>14. LumenAwaited'
  <2>1. Cardinality(Hits(store', LockedItems)) \in Nat
    <3>1. Hits(store', LockedItems) \in SUBSET DOMAIN store'
      BY DEF Hits
    <3> QED BY <1>4, <3>1, HitsFinite
  <2>2. /\ Cardinality(Hits(events, Dispatches)) \in Nat /\ Cardinality(Hits(inbox, Dispatches)) \in Nat
        /\ Cardinality(Hits(updates, Outcomes)) \in Nat
        /\ Cardinality(Hits(store, LockedItems)) \in Nat /\ Cardinality(Hits(store, PulseItems)) \in Nat
    BY Consoled, CountsAreNumbers
  <2>3. LumenAwaited /\ UNCHANGED <<inbox, updates>>
    BY <1>1, Consoled
  <2> QED BY <1>6, <1>12, <1>13, <2>1, <2>2, <2>3 DEF LumenAwaited, Awaiting
<1> QED BY <1>8, <1>9, <1>10, <1>11, <1>14 DEF LumenInv

\* What removing items, and unlocking others, leaves of the store.
SameItem(x, y) == x.kind = y.kind /\ x.id = y.id /\ x.text = y.text /\ x.locked \in {0, y.locked}

FromStore(t, from, pick) ==
  /\ t \in Seq(Items)
  /\ pick \in [DOMAIN t -> from]
  /\ \A i, j \in DOMAIN t : pick[i] = pick[j] => i = j
  /\ \A i \in DOMAIN t : SameItem(t[i], store[pick[i]])

LEMMA StoreShrinks ==
  ASSUME LumenInv, NEW t, NEW from \in SUBSET DOMAIN store, NEW pick, FromStore(t, from, pick)
  PROVE  /\ \A i \in DOMAIN t : t[i].id \in 1 .. ids /\ t[i].locked \in 0 .. MaxDispatch
         /\ \A i, j \in DOMAIN t : t[i].id = t[j].id => i = j
         /\ \A i \in DOMAIN t : t[i].id = dialog => ~IsLocked(t[i])
         /\ Texts(t, {"staging"}) \subseteq Texts(store, {"staging"})
         /\ \A X \in SUBSET DOMAIN store :
              Hits(store, LockedItems) \cap from \subseteq X =>
                Cardinality(Hits(t, LockedItems)) <= Cardinality(X)
         /\ \A X \in SUBSET DOMAIN store :
              Hits(store, PulseItems) \cap from \subseteq X =>
                Cardinality(Hits(t, PulseItems)) <= Cardinality(X)
<1>1. \A i \in DOMAIN t : /\ pick[i] \in from /\ pick[i] \in DOMAIN store
                          /\ SameItem(t[i], store[pick[i]]) /\ t[i] \in Items
                          /\ store[pick[i]] \in Items
  <2>1. \A i \in DOMAIN t : t[i] \in Items
    <3>1. t \in Seq(Items) /\ DOMAIN t = 1 .. Len(t)
      BY DEF FromStore
    <3> QED BY <3>1, ElementOfSeq
  <2> QED BY <2>1, Consoled DEF FromStore
<1>2. t \in Seq(Items) /\ store \in Seq(Items) /\ pick \in [DOMAIN t -> DOMAIN store]
      /\ \A i, j \in DOMAIN t : pick[i] = pick[j] => i = j
  BY Consoled DEF FromStore
<1>3. ASSUME NEW i \in DOMAIN t
      PROVE  t[i].id \in 1 .. ids /\ t[i].locked \in 0 .. MaxDispatch
  <2>1. /\ store[pick[i]].id \in 1 .. ids /\ store[pick[i]].locked \in 0 .. MaxDispatch
        /\ MaxDispatch \in Nat
    BY <1>1, Consoled
  <2>2. t[i].id = store[pick[i]].id /\ t[i].locked \in {0, store[pick[i]].locked}
    BY <1>1 DEF SameItem
  <2> QED BY <2>1, <2>2
<1>4. \A i, j \in DOMAIN t : t[i].id = t[j].id => i = j
  BY <1>1, <1>2, Consoled DEF SameItem
<1>5. ASSUME NEW i \in DOMAIN t, t[i].id = dialog PROVE ~IsLocked(t[i])
  <2>1. ~IsLocked(store[pick[i]])
    BY <1>1, <1>5, Consoled DEF SameItem, LockedIsKept
  <2>2. store[pick[i]].locked \in Nat /\ t[i].locked \in {0, store[pick[i]].locked}
        /\ t[i].kind = store[pick[i]].kind
    BY <1>1 DEF SameItem, Items
  <2> QED BY <2>1, <2>2 DEF IsLocked
<1>6. Texts(t, {"staging"}) \subseteq Texts(store, {"staging"})
  BY <1>1 DEF Texts, SameItem
<1>7. ASSUME NEW X \in SUBSET DOMAIN store, Hits(store, LockedItems) \cap from \subseteq X
      PROVE  Cardinality(Hits(t, LockedItems)) <= Cardinality(X)
  <2>1. ASSUME NEW i \in DOMAIN t, t[i] \in LockedItems PROVE pick[i] \in X
    <3>1. store[pick[i]].locked \in Nat /\ t[i].locked \in Nat
      BY <1>1 DEF Items
    <3>2. store[pick[i]] \in LockedItems
      BY <1>1, <2>1, <3>1 DEF LockedItems, IsLocked, SameItem
    <3> QED BY <1>1, <1>7, <3>2 DEF Hits
  <2> QED BY <1>2, <2>1, HitsMove
<1>8. ASSUME NEW X \in SUBSET DOMAIN store, Hits(store, PulseItems) \cap from \subseteq X
      PROVE  Cardinality(Hits(t, PulseItems)) <= Cardinality(X)
  <2>1. ASSUME NEW i \in DOMAIN t, t[i] \in PulseItems PROVE pick[i] \in X
    <3>1. store[pick[i]] \in PulseItems
      BY <1>1, <2>1 DEF PulseItems, IsPulse, SameItem
    <3> QED BY <1>1, <1>8, <3>1 DEF Hits
  <2> QED BY <1>2, <2>1, HitsMove
<1> QED BY <1>3, <1>4, <1>5, <1>6, <1>7, <1>8

LEMMA WithoutShrinks ==
  ASSUME LumenInv, NEW gone
  PROVE  \E pick : FromStore(Without(store, gone), DOMAIN store \ gone, pick)
<1>1. store \in Seq(Items)
  BY Consoled
<1>2. KeptFrom(Items, store, Without(store, gone), DOMAIN store \ gone)
  BY <1>1, WithoutPicks
<1>3. PICK pick : Picks(Without(store, gone), store, DOMAIN store \ gone, pick)
  BY <1>2 DEF KeptFrom
<1>4. FromStore(Without(store, gone), DOMAIN store \ gone, pick)
  BY <1>2, <1>3 DEF KeptFrom, Picks, FromStore, SameItem
<1> QED BY <1>4

\* Where the store shrinks and the dialog is as before or closed, what is left to show
\* is that what remains locked is awaited.
LEMMA ShrinkKeeps ==
  ASSUME LumenInv, UNCHANGED <<asked, others, locks, ids, events, inbox, brain, tasks, vault>>,
         dialog' \in {0, dialog}, updates' \in Seq(Updates),
         Texts(updates', {"review"}) \subseteq Texts(updates, {"review"}),
         OnlyLogs(updates) => OnlyLogs(updates'),
         store = << >> => store' = << >>,
         NEW from \in SUBSET DOMAIN store, NEW pick, FromStore(store', from, pick),
         LumenAwaited'
  PROVE  LumenInv'
<1>1. /\ \A i \in DOMAIN store' : store'[i].id \in 1 .. ids /\ store'[i].locked \in 0 .. MaxDispatch
      /\ \A i, j \in DOMAIN store' : store'[i].id = store'[j].id => i = j
      /\ \A i \in DOMAIN store' : store'[i].id = dialog => ~IsLocked(store'[i])
      /\ Texts(store', {"staging"}) \subseteq Texts(store, {"staging"})
  BY StoreShrinks
<1>2. store' \in Seq(Items)
  BY DEF FromStore
<1>3. dialog' \in 0 .. ids
  BY Consoled
<1>4. LumenTyped'
  BY <1>1, <1>2, <1>3, Consoled DEF LumenTyped, VeinTypeOK
<1>5. LumenCold'
  BY Consoled DEF LumenCold
<1>6. LockedIsKept'
  <2>1. \A i \in DOMAIN store' : store'[i].id # 0
    BY <1>1
  <2> QED BY <1>1, <2>1 DEF LockedIsKept
<1>7. LumenAsked'
  <2>1. Asking' = Asking /\ Traces' \subseteq Traces
    BY <1>1 DEF Asking, Traces, Serving
  <2>2. LumenAsked
    BY Consoled
  <2> QED BY <2>1, <2>2 DEF LumenAsked
<1> QED BY <1>4, <1>5, <1>6, <1>7 DEF LumenInv

LEMMA CloseDialogKeeps == ASSUME LumenInv, CloseDialog, UNCHANGED vein PROVE LumenInv'
<1> DEFINE gone == {i \in DOMAIN store : store[i].id = dialog}
<1>1. /\ store' = Without(store, gone) \/ UNCHANGED store
      /\ dialog' = 0
      /\ UNCHANGED <<asked, others, locks, ids, events, updates, inbox, brain, tasks, vault>>
  BY DEF CloseDialog, vein
<1> HIDE DEF gone
<1>2. CASE UNCHANGED store
  <2>1. LumenTyped'
    BY <1>1, <1>2, Consoled DEF LumenTyped, VeinTypeOK
  <2>2. LockedIsKept'
    <3>1. \A i \in DOMAIN store : store[i].id # 0
      BY Consoled
    <3> QED BY <1>1, <1>2, <3>1 DEF LockedIsKept
  <2>3. LumenCold' /\ LumenAsked' /\ LumenAwaited'
    BY <1>1, <1>2, Consoled
      DEF LumenCold, LumenAsked, Asking, Traces, Serving, LumenAwaited, Awaiting
  <2> QED BY <2>1, <2>2, <2>3 DEF LumenInv
<1>3. CASE store' = Without(store, gone)
  <2>1. PICK pick : FromStore(store', DOMAIN store \ gone, pick)
    BY <1>3, WithoutShrinks
  <2>2. store = << >> => store' = << >>
    <3>1. store = << >> => DOMAIN store' = {}
      BY <2>1 DEF FromStore
    <3>2. store' \in Seq(Items)
      BY <2>1 DEF FromStore
    <3> QED BY <3>1, <3>2
  <2>3. \A T : Hits(store, T) \in SUBSET DOMAIN store
    BY DEF Hits
  <2>4. /\ Cardinality(Hits(store', LockedItems)) <= Cardinality(Hits(store, LockedItems))
        /\ Cardinality(Hits(store', PulseItems)) <= Cardinality(Hits(store, PulseItems))
    BY <2>1, <2>3, StoreShrinks
  <2>5. LumenAwaited'
    <3>1. \A T : Hits(store', T) \in SUBSET DOMAIN store' /\ store' \in Seq(Items)
      BY <2>1 DEF Hits, FromStore
    <3>2. Cardinality(Hits(store', LockedItems)) \in Nat
      BY <3>1, HitsFinite
    <3>3. Cardinality(Hits(store', PulseItems)) \in Nat
      BY <3>1, HitsFinite
    <3> QED BY SMTT(30), <1>1, <2>4, <3>2, <3>3, Consoled, CountsAreNumbers DEF LumenAwaited, Awaiting
  <2> QED BY <1>1, <2>1, <2>2, <2>5, Consoled, ShrinkKeeps
<1> QED BY <1>1, <1>2, <1>3

LEMMA TargetIsLocked ==
  ASSUME LumenInv, LockedStagings(store) # {}
  PROVE  Target(store) \in LockedStagings(store)
<1>1. LockedStagings(store) \in SUBSET (1 .. Len(store)) /\ Len(store) \in Nat
  BY Consoled DEF LockedStagings
<1>2. \E i \in LockedStagings(store) : \A j \in LockedStagings(store) : j <= i
  BY <1>1, FirstAndLast
<1> QED BY <1>2 DEF Target

LEMMA FirstPulseIsPulse ==
  ASSUME LumenInv, Pulses(store) # {}
  PROVE  \E i \in FirstPulse(store) : i \in Pulses(store)
<1>1. Pulses(store) \in SUBSET (1 .. Len(store)) /\ Len(store) \in Nat
  BY Consoled DEF Pulses
<1>2. \E i \in Pulses(store) : \A j \in Pulses(store) : i <= j
  BY <1>1, FirstAndLast
<1> QED BY <1>2 DEF FirstPulse

\* The marks and pulses of the store, as the console and as the proof count them.
LEMMA SameMarks ==
  ASSUME LumenInv
  PROVE  /\ LockedStagings(store) = Hits(store, LockedItems)
         /\ Pulses(store) = Hits(store, PulseItems)
  BY Consoled DEF LockedStagings, Pulses, Hits, LockedItems, PulseItems

\* One less of either is what an outcome takes away.
LEMMA OneLess ==
  ASSUME LumenInv, NEW H \in SUBSET DOMAIN store, NEW I, H # {} => \E i \in I : i \in H
  PROVE  /\ H \ I \in SUBSET DOMAIN store
         /\ Cardinality(H \ I) \in Nat /\ Cardinality(H) \in Nat
         /\ Cardinality(H) > 0 => Cardinality(H \ I) <= Cardinality(H) - 1
         /\ Cardinality(H) = 0 => Cardinality(H \ I) = 0
<1>1. store \in Seq(Items) /\ H \ I \in SUBSET DOMAIN store
  BY Consoled
<1>2. IsFiniteSet(H) /\ Cardinality(H) \in Nat
  BY <1>1, HitsFinite
<1>3. IsFiniteSet(H \ I) /\ Cardinality(H \ I) \in Nat
  BY <1>1, HitsFinite
<1>4. CASE H = {}
  BY <1>1, <1>2, <1>3, <1>4, FS_EmptySet
<1>5. CASE H # {}
  <2>1. PICK i \in H : i \in I
    BY <1>5
  <2>2. IsFiniteSet(H \ {i}) /\ Cardinality(H \ {i}) = Cardinality(H) - 1
    BY <1>2, FS_RemoveElement
  <2>3. H \ I \in SUBSET (H \ {i})
    BY <2>1
  <2>4. Cardinality(H \ I) <= Cardinality(H \ {i})
    BY <2>2, <2>3, FS_Subset
  <2>5. Cardinality(H) # 0
    BY <1>2, <1>5, FS_EmptySet
  <2> QED BY <1>1, <1>2, <1>3, <2>2, <2>4, <2>5
<1> QED BY <1>4, <1>5

LEMMA ShowUpdateKeeps == ASSUME LumenInv, ShowUpdate, UNCHANGED vein PROVE LumenInv'
<1> DEFINE u == Head(updates)
           flight == Cardinality(Hits(events, Dispatches)) + Cardinality(Hits(inbox, Dispatches))
           outcomes == Cardinality(Hits(updates, Outcomes))
           outcomesNext == Cardinality(Hits(updates', Outcomes))
           lockedNext == Cardinality(Hits(store', LockedItems))
           pulsesNext == Cardinality(Hits(store', PulseItems))
           locked == Cardinality(Hits(store, LockedItems))
           pulses == Cardinality(Hits(store, PulseItems))
<1>1. /\ updates # << >> /\ updates' = Tail(updates)
      /\ UNCHANGED <<dialog, asked, others, locks, events, inbox, brain, tasks, vault>>
  BY DEF ShowUpdate, vein
<1>2. /\ u \in Updates /\ updates' \in Seq(Updates)
      /\ Texts(updates, {"review"}) = Texts(updates', {"review"})
           \cup IF u.kind = "review" THEN {u.text} ELSE {}
      /\ outcomes = outcomesNext + IF u.kind \in {"una", "error"} THEN 1 ELSE 0
      /\ OnlyLogs(updates) => OnlyLogs(updates') /\ u.kind = "log"
  BY <1>1, Consoled, UpdateTaken
<1>3. /\ flight \in Nat /\ outcomes \in Nat /\ outcomesNext \in Nat
      /\ locked \in Nat /\ pulses \in Nat
      /\ locked <= flight + outcomes /\ pulses <= flight + outcomes
  <2>1. /\ flight \in Nat /\ outcomes \in Nat /\ locked \in Nat /\ pulses \in Nat
    BY Consoled, CountsAreNumbers
  <2>2. Hits(updates', Outcomes) \in SUBSET DOMAIN updates'
    BY DEF Hits
  <2>3. outcomesNext \in Nat
    BY <1>2, <2>2, HitsFinite
  <2> QED BY <2>1, <2>3, Consoled DEF LumenAwaited, Awaiting
\* It is enough to know where the items come from and to count them.
<1>4. ASSUME UNCHANGED ids, store = << >> => store' = << >>,
             NEW from \in SUBSET DOMAIN store, NEW pick, FromStore(store', from, pick),
             lockedNext <= flight + outcomesNext, pulsesNext <= flight + outcomesNext
      PROVE  LumenInv'
  <2>1. LumenAwaited'
    BY <1>1, <1>4 DEF LumenAwaited, Awaiting
  <2>2. Texts(updates', {"review"}) \subseteq Texts(updates, {"review"})
    BY <1>2
  <2>3. UNCHANGED <<asked, others, locks, ids, events, inbox, brain, tasks, vault>>
        /\ dialog' \in {0, dialog}
    BY <1>1, <1>4
  <2> HIDE DEF lockedNext, pulsesNext, flight, outcomesNext
  <2> QED BY <1>2, <1>4, <2>1, <2>2, <2>3, ShrinkKeeps
<1>5. \A T : Hits(store, T) \in SUBSET DOMAIN store
  BY DEF Hits
<1>6. ASSUME store' \in Seq(Items) PROVE lockedNext \in Nat /\ pulsesNext \in Nat
  <2>1. \A T : Hits(store', T) \in SUBSET DOMAIN store'
    BY DEF Hits
  <2>2. lockedNext \in Nat
    BY <1>6, <2>1, HitsFinite
  <2>3. pulsesNext \in Nat
    BY <1>6, <2>1, HitsFinite
  <2> QED BY <2>2, <2>3
<1>7. CASE u.kind = "log" /\ UNCHANGED <<store, ids>>
  <2> DEFINE pick == [i \in DOMAIN store |-> i]
  <2>1. FromStore(store', DOMAIN store, pick)
    BY <1>7, Consoled DEF FromStore, SameItem
  <2>2. outcomes = outcomesNext /\ lockedNext = locked /\ pulsesNext = pulses
    BY <1>2, <1>3, <1>7
  <2> HIDE DEF pick, lockedNext, pulsesNext, flight, outcomesNext, locked, pulses, outcomes
  <2> QED BY <1>3, <1>4, <1>7, <2>1, <2>2
<1>8. CASE u.kind = "clear" /\ store' = << >> /\ UNCHANGED ids
  <2>1. FromStore(store', {}, << >>)
    BY <1>8 DEF FromStore
  <2>2. lockedNext = 0 /\ pulsesNext = 0
    <3>1. \A T : Hits(store', T) = {}
      BY <1>8 DEF Hits
    <3> QED BY <3>1, FS_EmptySet
  <2>3. lockedNext <= flight + outcomesNext /\ pulsesNext <= flight + outcomesNext
    BY <1>3, <2>2
  <2> HIDE DEF lockedNext, pulsesNext, flight, outcomesNext, locked, pulses, outcomes
  <2> QED BY <1>4, <1>8, <2>1, <2>3
<1>9. CASE u.kind = "una" /\ store' = Answered(store) /\ UNCHANGED ids
  <2> DEFINE gone == Pulses(store) \cup IF LockedStagings(store) = {} THEN {} ELSE {Target(store)}
  <2>1. PICK pick : FromStore(store', DOMAIN store \ gone, pick)
    BY <1>9, WithoutShrinks DEF Answered
  <2>2. store' \in Seq(Items) /\ (store = << >> => store' = << >>)
    <3>1. store = << >> => DOMAIN store' = {}
      BY <2>1 DEF FromStore
    <3>2. store' \in Seq(Items)
      BY <2>1 DEF FromStore
    <3> QED BY <3>1, <3>2
  <2>3. pulsesNext = 0
    <3>1. Hits(store, PulseItems) \cap (DOMAIN store \ gone) \subseteq {}
      BY SameMarks
    <3>2. pulsesNext <= Cardinality({})
      BY <2>1, <3>1, StoreShrinks
    <3> QED BY <1>6, <2>2, <3>2, FS_EmptySet
  <2> DEFINE left == Hits(store, LockedItems) \ gone
  <2>4. /\ left \in SUBSET DOMAIN store /\ Cardinality(left) \in Nat
        /\ locked > 0 => Cardinality(left) <= locked - 1
        /\ locked = 0 => Cardinality(left) = 0
    <3>1. Hits(store, LockedItems) # {} => \E i \in gone : i \in Hits(store, LockedItems)
      BY SameMarks, TargetIsLocked
    <3> QED BY <1>5, <3>1, OneLess
  <2>5. lockedNext <= Cardinality(left)
    <3>1. Hits(store, LockedItems) \cap (DOMAIN store \ gone) \subseteq left
      OBVIOUS
    <3> HIDE DEF left
    <3> QED BY <2>1, <2>4, <3>1, StoreShrinks
  <2>6. lockedNext <= flight + outcomesNext /\ pulsesNext <= flight + outcomesNext
    <3>1. outcomes = outcomesNext + 1 /\ lockedNext \in Nat
      BY <1>2, <1>6, <1>9, <2>2
    <3> HIDE DEF left, lockedNext, pulsesNext, flight, outcomesNext, locked, pulses, outcomes
    <3> QED BY <1>3, <2>3, <2>4, <2>5, <3>1
  <2> HIDE DEF gone, lockedNext, pulsesNext, flight, outcomesNext, locked, pulses, outcomes
  <2> QED BY <1>4, <1>9, <2>1, <2>2, <2>6
<1>10. CASE u.kind = "error" /\ store' = Failed(store) /\ UNCHANGED ids
  <2> DEFINE gone == FirstPulse(store)
             rest == Without(store, gone)
  <2>1. PICK pick : FromStore(rest, DOMAIN store \ gone, pick)
    BY WithoutShrinks
  <2>2. \A i \in DOMAIN rest : rest[i] \in Items
    <3>1. rest \in Seq(Items) /\ DOMAIN rest = 1 .. Len(rest)
      BY <2>1 DEF FromStore
    <3> HIDE DEF rest
    <3> QED BY <3>1, ElementOfSeq
  <2>3. store' = [i \in DOMAIN rest |->
                    IF rest[i].kind = "staging" THEN [rest[i] EXCEPT !.locked = 0] ELSE rest[i]]
    BY <1>10 DEF Failed
  <2> HIDE DEF rest
  <2>4. \A i \in DOMAIN rest : /\ store'[i] \in Items /\ SameItem(store'[i], rest[i])
                               /\ store'[i] \notin LockedItems
    BY <2>2, <2>3 DEF Items, SameItem, LockedItems, IsLocked
  <2>5. FromStore(store', DOMAIN store \ gone, pick)
    <3>1. store' \in Seq(Items)
      <4>1. Len(rest) \in Nat /\ DOMAIN rest = 1 .. Len(rest)
        BY <2>1 DEF FromStore
      <4>2. store' \in [1 .. Len(rest) -> Items]
        BY <2>3, <2>4, <4>1
      <4> QED BY <4>1, <4>2
    <3>2. DOMAIN store' = DOMAIN rest
      BY <2>3
    <3>3. \A i \in DOMAIN rest : SameItem(rest[i], store[pick[i]])
      BY <2>1 DEF FromStore
    <3>4. \A i \in DOMAIN rest : SameItem(store'[i], store[pick[i]])
      BY <2>4, <3>3 DEF SameItem
    <3> QED BY <2>1, <3>1, <3>2, <3>4 DEF FromStore
  <2>6. store' \in Seq(Items) /\ (store = << >> => store' = << >>)
    <3>1. store = << >> => DOMAIN store' = {}
      BY <2>5 DEF FromStore
    <3>2. store' \in Seq(Items)
      BY <2>5 DEF FromStore
    <3> QED BY <3>1, <3>2
  <2>7. lockedNext = 0
    <3>1. Hits(store', LockedItems) = {}
      BY <2>3, <2>4 DEF Hits
    <3> QED BY <3>1, FS_EmptySet
  <2> DEFINE left == Hits(store, PulseItems) \ gone
  <2>8. /\ left \in SUBSET DOMAIN store /\ Cardinality(left) \in Nat
        /\ pulses > 0 => Cardinality(left) <= pulses - 1
        /\ pulses = 0 => Cardinality(left) = 0
    <3>1. Hits(store, PulseItems) # {} => \E i \in gone : i \in Hits(store, PulseItems)
      BY SameMarks, FirstPulseIsPulse
    <3> QED BY <1>5, <3>1, OneLess
  <2>9. pulsesNext <= Cardinality(left)
    <3>1. Hits(store, PulseItems) \cap (DOMAIN store \ gone) \subseteq left
      OBVIOUS
    <3> HIDE DEF left
    <3> QED BY <2>5, <2>8, <3>1, StoreShrinks
  <2>10. lockedNext <= flight + outcomesNext /\ pulsesNext <= flight + outcomesNext
    <3>1. outcomes = outcomesNext + 1 /\ pulsesNext \in Nat
      BY <1>2, <1>6, <1>10, <2>6
    <3> HIDE DEF left, lockedNext, pulsesNext, flight, outcomesNext, locked, pulses, outcomes
    <3> QED BY <1>3, <2>7, <2>8, <2>9, <3>1
  <2> HIDE DEF gone, lockedNext, pulsesNext, flight, outcomesNext, locked, pulses, outcomes
  <2> QED BY <1>4, <1>10, <2>5, <2>6, <2>10
<1>11. CASE /\ u.kind = "review" /\ store' = Append(store, Staging(ids + 1, u.text))
            /\ ids' = ids + 1
  <2> DEFINE new == Staging(ids + 1, u.text)
  <2>1. /\ new \in Items /\ new.kind = "staging" /\ new.id = ids + 1
        /\ new.text = u.text /\ new.locked = 0
    <3>1. ids + 1 \in Nat /\ u.text \in Text
      BY <1>2, Consoled DEF Updates
    <3>2. new \in Items
      BY <3>1 DEF Items, Staging
    <3> QED BY <3>2 DEF Staging
  <2> HIDE DEF new
  <2>2. /\ store' \in Seq(Items) /\ DOMAIN store' = 1 .. Len(store) + 1
        /\ store'[Len(store) + 1] = new
        /\ \A i \in 1 .. Len(store) : store'[i] = store[i]
    <3>1. /\ Append(store, new) \in Seq(Items)
          /\ Len(Append(store, new)) = Len(store) + 1
          /\ \A i \in 1 .. Len(store) : Append(store, new)[i] = store[i]
          /\ Append(store, new)[Len(store) + 1] = new
      BY <2>1, Consoled, AppendProperties
    <3>2. store' = Append(store, new)
      BY <1>11 DEF new
    <3> QED BY <3>1, <3>2, LenProperties
  <2>3. LumenTyped'
    <3>1. \A i \in DOMAIN store' : store'[i].id \in 1 .. ids' /\ store'[i].locked \in 0 .. MaxDispatch
      <4> SUFFICES ASSUME NEW i \in DOMAIN store'
                   PROVE  store'[i].id \in 1 .. ids + 1 /\ store'[i].locked \in 0 .. MaxDispatch
        BY <1>11
      <4>1. CASE i = Len(store) + 1
        BY <2>1, <2>2, <4>1, Consoled
      <4>2. CASE i \in 1 .. Len(store)
        BY SMTT(30), <2>2, <4>2, Consoled
      <4> QED BY <2>2, <4>1, <4>2, Consoled
    <3>2. \A i, j \in DOMAIN store' : store'[i].id = store'[j].id => i = j
      <4>1. /\ Len(store) \in Nat /\ ids \in Nat
            /\ \A i \in 1 .. Len(store) : store'[i].id = store[i].id /\ store[i].id \in 1 .. ids
            /\ \A i, j \in 1 .. Len(store) : store[i].id = store[j].id => i = j
        BY <2>2, Consoled
      <4> QED BY <2>1, <2>2, <4>1
    <3>3. dialog' \in 0 .. ids' /\ ids' \in Nat
      BY <1>1, <1>11, Consoled
    <3> QED BY <1>1, <1>2, <2>2, <3>1, <3>2, <3>3, Consoled DEF LumenTyped, VeinTypeOK
  <2>4. LumenCold'
    <3>1. ~OnlyLogs(updates)
      BY <1>2, <1>11
    <3> QED BY <1>1, <3>1, Consoled DEF LumenCold
  <2>5. LockedIsKept'
    <3> SUFFICES ASSUME NEW i \in DOMAIN store', store'[i].id = dialog PROVE ~IsLocked(store'[i])
      BY <1>1 DEF LockedIsKept
    <3>1. i # Len(store) + 1
      BY <2>1, <2>2, Consoled
    <3> QED BY SMTT(30), <2>2, <3>1, Consoled DEF LockedIsKept
  <2>6. LumenAsked'
    <3>1. Texts(store', {"staging"}) = Texts(store, {"staging"}) \cup {u.text}
      <4>1. Texts(store', {"staging"}) =
              Texts(store, {"staging"}) \cup IF new.kind \in {"staging"} THEN {new.text} ELSE {}
        BY <1>11, <2>1, Consoled, AfterAppend DEF new
      <4> QED BY <2>1, <4>1
    <3>2. Texts(updates, {"review"}) = Texts(updates', {"review"}) \cup {u.text}
      BY <1>2, <1>11
    <3>3. Asking' = Asking /\ Traces' = Traces
      BY <1>1, <3>1, <3>2 DEF Asking, Traces, Serving
    <3>4. LumenAsked
      BY Consoled
    <3> QED BY <1>1, <3>3, <3>4 DEF LumenAsked
  <2>7. LumenAwaited'
    <3>1. new \notin LockedItems /\ new \notin PulseItems
      BY <2>1 DEF LockedItems, PulseItems, IsLocked, IsPulse
    <3>2. store' = Append(store, new) /\ store \in Seq(Items)
      BY <1>11, Consoled DEF new
    <3>3. lockedNext = locked + 0
      BY <2>1, <3>1, <3>2, HitsAppend
    <3>4. pulsesNext = pulses + 0
      BY <2>1, <3>1, <3>2, HitsAppend
    <3>5. outcomes = outcomesNext
      BY <1>2, <1>3, <1>11
    <3>6. lockedNext <= flight + outcomesNext /\ pulsesNext <= flight + outcomesNext
      <4> HIDE DEF lockedNext, pulsesNext, flight, outcomesNext, locked, pulses, outcomes
      <4> QED BY <1>3, <3>3, <3>4, <3>5
    <3> QED BY <1>1, <3>6 DEF LumenAwaited, Awaiting
  <2> QED BY <2>3, <2>4, <2>5, <2>6, <2>7 DEF LumenInv
<1> QED BY <1>7, <1>8, <1>9, <1>10, <1>11 DEF ShowUpdate

--------------------------------------------------------------------------------
(* The invariant holds, and what follows from it. *)

LEMMA LumenInitInv == ASSUME Init PROVE LumenInv
<1>1. /\ events = << >> /\ updates = << >> /\ store = << >> /\ inbox = << >>
      /\ tasks = {} /\ vault = {} /\ brain = [at |-> "boot", text |-> SomeText, recalled |-> {}]
      /\ dialog = 0 /\ asked = {} /\ others = 0 /\ locks = 0 /\ ids = 0
  BY DEF Init, VeinInit, ConsoleInit
<1>2. SomeText \in Text
  BY TextIsNonEmpty DEF SomeText
<1>3. LumenTyped
  BY <1>1, <1>2, ConsoleAssumption DEF LumenTyped, VeinTypeOK
<1>4. LumenCold
  BY <1>1 DEF LumenCold, NoDispatch, OnlyLogs
<1>5. LockedIsKept
  BY <1>1 DEF LockedIsKept
<1>6. LumenAsked
  <2>1. Asking = {} /\ Traces = {}
    BY <1>1 DEF Asking, Traces, Serving, Texts, Chats
  <2>2. OnceEach(events) /\ OnceEach(inbox)
        /\ Texts(events, {"question"}) \cap Texts(inbox, {"question"}) = {}
    BY <1>1 DEF OnceEach, Texts
  <2> QED BY <1>1, <2>1, <2>2 DEF LumenAsked
<1>7. LumenAwaited
  <2>1. \A T : Hits(store, T) = {} /\ Hits(events, T) = {} /\ Hits(inbox, T) = {}
               /\ Hits(updates, T) = {}
    BY <1>1 DEF Hits
  <2> QED BY <2>1, FS_EmptySet DEF LumenAwaited, Awaiting
<1> QED BY <1>3, <1>4, <1>5, <1>6, <1>7 DEF LumenInv

LEMMA LumenStepKeeps == ASSUME LumenInv, [Next]_vars PROVE LumenInv'
<1>1. CASE VeinStep
  BY <1>1, HandleKeeps, BrainKeeps DEF VeinStep
<1>2. CASE UserStep /\ UNCHANGED vein
  BY <1>2, AskKeeps, CommandKeeps, PressDispatchKeeps, OpenDialogKeeps, CloseDialogKeeps
    DEF UserStep
<1>3. CASE ShowUpdate /\ UNCHANGED vein
  BY <1>3, ShowUpdateKeeps
<1>4. CASE UNCHANGED vars
  <2>1. UNCHANGED <<inbox, brain, tasks, vault, store, dialog, asked, others, locks, ids,
                    events, updates>>
    BY <1>4 DEF vars, vein, console
  <2> QED BY <2>1
        DEF LumenInv, LumenTyped, VeinTypeOK, LumenCold, LockedIsKept, LumenAsked, Asking,
            Traces, Serving, LumenAwaited, Awaiting
<1> QED BY <1>1, <1>2, <1>3, <1>4 DEF Next

\* The parts named above hold in every state reached, together: none does alone.
THEOREM LumenInvariant == Spec => []LumenInv
<1>1. Init => LumenInv
  BY LumenInitInv
<1>2. LumenInv /\ [Next]_vars => LumenInv'
  BY LumenStepKeeps
<1> QED BY <1>1, <1>2, PTL DEF Spec

\* The types of the console and of Vein, and that no two items shown have one id.
THEOREM LumenTypeOK == Spec => []TypeOK
<1>1. LumenInv => TypeOK
  <2> SUFFICES ASSUME LumenInv PROVE ConsoleTypeOK
    BY Consoled DEF TypeOK
  <2>1. \A i \in DOMAIN store :
          store[i] \in [kind : {"staging", "pulse"}, id : 1 .. ids, text : Text,
                        locked : 0 .. MaxDispatch]
    BY Consoled DEF Items
  <2> QED BY <2>1, Consoled DEF ConsoleTypeOK
<1> QED BY <1>1, LumenInvariant, PTL

\* However answers, errors, clears and deletions are ordered, no staging stays locked
\* and no pulse shown for an outcome that does not come.
THEOREM LumenLockedIsAwaited == Spec => []LockedIsAwaited
<1>1. LumenInv => LockedIsAwaited
  <2> SUFFICES ASSUME LumenInv PROVE LockedIsAwaited
    OBVIOUS
  <2> DEFINE IsDispatch(e) == e.kind = "dispatch"
             IsOutcome(u) == u.kind \in {"una", "error"}
  <2>1. /\ \A i \in DOMAIN events : events[i] \in Events
        /\ \A i \in DOMAIN inbox : inbox[i] \in Events
        /\ \A i \in DOMAIN updates : updates[i] \in Updates
        /\ \A i \in DOMAIN store : store[i] \in Items
    <3>1. /\ events \in Seq(Events) /\ inbox \in Seq(Events) /\ updates \in Seq(Updates)
          /\ store \in Seq(Items)
      BY Consoled DEF VeinTypeOK
    <3> QED BY <3>1, ElementOfSeq
  <2>2. /\ {i \in DOMAIN events : IsDispatch(events[i])} = Hits(events, Dispatches)
        /\ {i \in DOMAIN inbox : IsDispatch(inbox[i])} = Hits(inbox, Dispatches)
        /\ {i \in DOMAIN updates : IsOutcome(updates[i])} = Hits(updates, Outcomes)
        /\ {i \in DOMAIN store : IsLocked(store[i])} = Hits(store, LockedItems)
        /\ {i \in DOMAIN store : IsPulse(store[i])} = Hits(store, PulseItems)
    BY <2>1 DEF Hits, Dispatches, Outcomes, LockedItems, PulseItems
  <2>3. LumenAwaited
    BY Consoled
  <2> QED BY <2>2, <2>3 DEF LockedIsAwaited, InFlight, Count, LumenAwaited, Awaiting
<1> QED BY <1>1, LumenInvariant, PTL

\* What the dialog would delete is never a locked staging (spline.rs:741-774).  One in
\* flight it may be, once an error has unlocked them all.
THEOREM LumenLockedIsKept == Spec => []LockedIsKept
<1>1. LumenInv => LockedIsKept
  BY DEF LumenInv
<1> QED BY <1>1, LumenInvariant, PTL

\* The vault searched for a question has not been told that question.
THEOREM LumenNoSelfRecall == Spec => []NoSelfRecall
<1>1. LumenInv => NoSelfRecall
  BY DEF LumenInv, LumenAsked, NoSelfRecall
<1> QED BY <1>1, LumenInvariant, PTL
================================================================================
