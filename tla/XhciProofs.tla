------------------------------ MODULE XhciProofs ------------------------------
(***************************************************************************)
(* Xhci.tla for any ports, slots and EP0 ring, and any number of devices   *)
(* plugged in: its types, that the driver sends no more than three         *)
(* commands for a device, and, with one device, that it gives every        *)
(* completion to the command it belongs to and finds in its one buffer     *)
(* what it takes it for.                                                   *)
(***************************************************************************)
EXTENDS Xhci, FiniteSetTheorems, SequenceTheorems, TLAPS

--------------------------------------------------------------------------------
\* Numbers and finite sets.

LEMMA Numbers ==
  /\ 1 \in Slots /\ 0 \notin Slots /\ Slots \subseteq Nat
  /\ 0 \notin Ports /\ Ports \subseteq Nat /\ CBW \in Nat /\ Ports \cup {0} \subseteq 0 .. CBW
  /\ CBW \notin Ports \cup {0}
  /\ 0 \in Cells /\ 1 \in Cells /\ 2 \in Cells /\ Cells \subseteq Nat /\ EP0_SIZE \in Nat
  BY XhciAssumption DEF Slots, Ports, Cells, CBW

LEMMA PortSets ==
  ASSUME NEW S \in SUBSET Ports
  PROVE  IsFiniteSet(S) /\ Cardinality(S) \in Nat
<1>1. IsFiniteSet(Ports)
  BY XhciAssumption, FS_Interval DEF Ports
<1>2. IsFiniteSet(S)
  BY <1>1, FS_Subset
<1> QED BY <1>2, FS_CardinalityType

LEMMA CellSets ==
  ASSUME NEW S \in SUBSET Cells
  PROVE  IsFiniteSet(S) /\ Cardinality(S) \in Nat
<1>1. IsFiniteSet(Cells)
  BY XhciAssumption, FS_Interval DEF Cells
<1>2. IsFiniteSet(S)
  BY <1>1, FS_Subset
<1> QED BY <1>2, FS_CardinalityType

LEMMA Fewer ==
  ASSUME NEW S, IsFiniteSet(S), NEW T \in SUBSET S
  PROVE  Cardinality(T) <= Cardinality(S)
  BY FS_Subset

LEMMA OneFewer ==
  ASSUME NEW S, IsFiniteSet(S), NEW x \in S, NEW T \in SUBSET (S \ {x})
  PROVE  Cardinality(T) + 1 <= Cardinality(S)
<1>1. IsFiniteSet(S \ {x}) /\ Cardinality(S \ {x}) = Cardinality(S) - 1
  BY FS_RemoveElement
<1>2. Cardinality(T) <= Cardinality(S \ {x}) /\ IsFiniteSet(T)
  BY <1>1, FS_Subset
<1>3. Cardinality(T) \in Nat /\ Cardinality(S) \in Nat
  BY <1>2, FS_CardinalityType
<1> QED BY <1>1, <1>2, <1>3

LEMMA OneMore ==
  ASSUME NEW S, IsFiniteSet(S), NEW x, NEW T \in SUBSET (S \cup {x})
  PROVE  Cardinality(T) <= Cardinality(S) + 1
<1>1. IsFiniteSet(S \cup {x})
  BY FS_AddElement
<1>2. Cardinality(S \cup {x}) <= Cardinality(S) + 1
  <2>1. Cardinality(S) \in Nat
    BY FS_CardinalityType
  <2>2. CASE x \in S
    <3>1. S \cup {x} = S
      BY <2>2
    <3> QED BY <2>1, <3>1
  <2>3. CASE x \notin S
    <3>1. Cardinality(S \cup {x}) = Cardinality(S) + 1
      BY <2>3, FS_AddElement
    <3> QED BY <2>1, <3>1
  <2> QED BY <2>2, <2>3
<1>3. Cardinality(T) <= Cardinality(S \cup {x}) /\ IsFiniteSet(T)
  BY <1>1, FS_Subset
<1>4. Cardinality(T) \in Nat /\ Cardinality(S) \in Nat /\ Cardinality(S \cup {x}) \in Nat
  BY <1>1, <1>3, FS_CardinalityType
<1> QED BY <1>2, <1>3, <1>4

LEMMA AtMostOne ==
  ASSUME NEW S, \A x, y \in S : x = y
  PROVE  Cardinality(S) \in Nat /\ Cardinality(S) <= 1
<1>1. CASE S = {}
  BY <1>1, FS_EmptySet
<1>2. CASE S # {}
  <2>1. PICK x \in S : TRUE
    BY <1>2
  <2>2. S = {x}
    BY <2>1
  <2> QED BY <2>2, FS_Singleton
<1> QED BY <1>1, <1>2

--------------------------------------------------------------------------------
\* Sequences: what is put at the end, what is taken from the front, and how many
\* items are in a set.

LEMMA Put ==
  ASSUME NEW S, NEW s \in Seq(S), NEW x \in S
  PROVE  /\ Append(s, x) \in Seq(S) /\ Len(s) \in Nat
         /\ DOMAIN s = 1 .. Len(s) /\ DOMAIN Append(s, x) = 1 .. Len(s) + 1
         /\ \A i \in DOMAIN s : Append(s, x)[i] = s[i]
         /\ Append(s, x)[Len(s) + 1] = x
  BY AppendProperties

LEMMA Taken ==
  ASSUME NEW S, NEW s \in Seq(S), s # << >>
  PROVE  /\ Tail(s) \in Seq(S) /\ Len(s) \in Nat /\ Len(s) > 0
         /\ DOMAIN s = 1 .. Len(s) /\ DOMAIN Tail(s) = 1 .. Len(s) - 1
         /\ 1 \in DOMAIN s /\ Head(s) = s[1] /\ Head(s) \in S
         /\ \A i \in DOMAIN Tail(s) : i + 1 \in DOMAIN s /\ Tail(s)[i] = s[i + 1]
<1>1. /\ Tail(s) \in Seq(S) /\ Len(s) \in Nat /\ Len(s) > 0
      /\ DOMAIN s = 1 .. Len(s) /\ Head(s) = s[1] /\ Len(Tail(s)) = Len(s) - 1
      /\ \A i \in 1 .. Len(Tail(s)) : Tail(s)[i] = s[i + 1]
  BY HeadTailProperties, EmptySeq
<1>2. DOMAIN Tail(s) = 1 .. Len(s) - 1
  BY <1>1
<1> QED BY <1>1, <1>2

\* Nothing new but members of N, at the end.
Follows(t, s, N) ==
  \E n \in {0, 1} : \A i \in DOMAIN t :
    \/ i + n \in DOMAIN s /\ t[i] = s[i + n]
    \/ t[i] \in N /\ \A j \in DOMAIN t : j <= i

LEMMA SameFollows ==
  ASSUME NEW S, NEW s \in Seq(S), NEW N
  PROVE  Follows(s, s, N)
<1>1. DOMAIN s = 1 .. Len(s) /\ Len(s) \in Nat
  OBVIOUS
<1>2. \A i \in DOMAIN s : i + 0 \in DOMAIN s /\ s[i] = s[i + 0]
  BY <1>1
<1> QED BY <1>2 DEF Follows

LEMMA PutFollows ==
  ASSUME NEW S, NEW s \in Seq(S), NEW N, NEW x \in N, x \in S
  PROVE  Follows(Append(s, x), s, N)
<1> DEFINE t == Append(s, x)
<1>1. /\ DOMAIN s = 1 .. Len(s) /\ DOMAIN t = 1 .. Len(s) + 1 /\ Len(s) \in Nat
      /\ \A i \in DOMAIN s : t[i] = s[i]
      /\ t[Len(s) + 1] = x
  BY Put
<1> HIDE DEF t
<1>2. ASSUME NEW i \in DOMAIN t
      PROVE  \/ i + 0 \in DOMAIN s /\ t[i] = s[i + 0]
             \/ t[i] \in N /\ \A j \in DOMAIN t : j <= i
  <2>1. CASE i = Len(s) + 1
    BY <1>1, <2>1
  <2>2. CASE i # Len(s) + 1
    BY <1>1, <2>2
  <2> QED BY <2>1, <2>2
<1>3. Follows(t, s, N)
  BY <1>2 DEF Follows
<1> QED BY <1>3 DEF t

LEMMA TakenFollows ==
  ASSUME NEW S, NEW s \in Seq(S), s # << >>, NEW N
  PROVE  Follows(Tail(s), s, N)
  BY Taken DEF Follows

Hits(s, T) == {i \in DOMAIN s : s[i] \in T}
Number(s, T) == Cardinality(Hits(s, T))

LEMMA HitsFinite ==
  ASSUME NEW S, NEW s \in Seq(S), NEW T
  PROVE  IsFiniteSet(Hits(s, T)) /\ Number(s, T) \in Nat
<1>1. Len(s) \in Nat /\ DOMAIN s = 1 .. Len(s)
  OBVIOUS
<1>2. IsFiniteSet(1 .. Len(s))
  BY <1>1, FS_Interval
<1>3. IsFiniteSet(Hits(s, T))
  BY <1>1, <1>2, FS_Subset DEF Hits
<1> QED BY <1>3, FS_CardinalityType DEF Number

LEMMA NumberPut ==
  ASSUME NEW S, NEW s \in Seq(S), NEW x \in S, NEW T
  PROVE  Number(Append(s, x), T) = Number(s, T) + IF x \in T THEN 1 ELSE 0
<1> DEFINE n == Len(s) + 1
           t == Append(s, x)
<1>1. Len(s) \in Nat /\ DOMAIN s = 1 .. Len(s) /\ n \in Nat /\ n \notin 1 .. Len(s)
  OBVIOUS
<1>2. DOMAIN t = 1 .. n /\ t[n] = x /\ \A i \in 1 .. Len(s) : t[i] = s[i]
  BY AppendProperties
<1> HIDE DEF t
<1>3. Hits(t, T) = IF x \in T THEN Hits(s, T) \cup {n} ELSE Hits(s, T)
  BY <1>1, <1>2 DEF Hits
<1>4. n \notin Hits(s, T)
  BY <1>1 DEF Hits
<1>5. IsFiniteSet(Hits(s, T)) /\ Cardinality(Hits(s, T)) \in Nat
  BY HitsFinite DEF Number
<1> HIDE DEF n
<1>6. Cardinality(Hits(s, T) \cup {n}) = Cardinality(Hits(s, T)) + 1
  BY <1>4, <1>5, FS_AddElement
<1> QED BY <1>3, <1>5, <1>6 DEF t, Number

LEMMA NumberTaken ==
  ASSUME NEW S, NEW s \in Seq(S), s # << >>, NEW T
  PROVE  Number(s, T) = Number(Tail(s), T) + IF Head(s) \in T THEN 1 ELSE 0
<1> DEFINE H == Hits(s, T)
           rest == H \ {1}
           next == Hits(Tail(s), T)
           f == [i \in next |-> i + 1]
<1>1. /\ Len(s) \in Nat /\ DOMAIN s = 1 .. Len(s) /\ 1 \in DOMAIN s /\ Head(s) = s[1]
      /\ Tail(s) \in Seq(S) /\ DOMAIN Tail(s) = 1 .. Len(s) - 1
      /\ \A i \in 1 .. Len(s) - 1 : Tail(s)[i] = s[i + 1]
  BY Taken
<1>2. IsFiniteSet(H) /\ Cardinality(H) \in Nat
  BY HitsFinite DEF Number
<1>3. 1 \in H <=> Head(s) \in T
  BY <1>1 DEF Hits
<1>4. f \in [next -> rest]
  BY <1>1 DEF Hits
<1>5. \A i, j \in next : f[i] = f[j] => i = j
  BY <1>1 DEF Hits
<1>6. \A k \in rest : \E i \in next : f[i] = k
  <2> SUFFICES ASSUME NEW k \in rest PROVE k - 1 \in next /\ f[k - 1] = k
    OBVIOUS
  <2>1. k \in 1 .. Len(s) /\ k # 1 /\ s[k] \in T
    BY <1>1 DEF Hits
  <2>2. k - 1 \in 1 .. Len(s) - 1 /\ Tail(s)[k - 1] = s[k]
    BY <1>1, <2>1
  <2>3. k - 1 \in next
    BY <1>1, <2>1, <2>2 DEF Hits
  <2> QED BY <2>1, <2>3
<1> HIDE DEF f, next, rest, H
<1>7. f \in Bijection(next, rest)
  BY <1>4, <1>5, <1>6 DEF Bijection, Injection, Surjection, IsInjective
<1>8. IsFiniteSet(rest) /\ Cardinality(rest) = IF 1 \in H THEN Cardinality(H) - 1 ELSE Cardinality(H)
  BY <1>2, FS_RemoveElement DEF rest
<1>9. f \in Injection(next, rest) /\ f \in Surjection(next, rest)
  BY <1>7 DEF Bijection
<1>10. Cardinality(next) = Cardinality(rest)
  BY <1>8, <1>9, FS_Injection
<1> QED BY <1>2, <1>3, <1>8, <1>10 DEF next, H, Number

LEMMA NumberFewer ==
  ASSUME NEW S, NEW s \in Seq(S), NEW T, NEW U, \A i \in DOMAIN s : s[i] \in T => s[i] \in U
  PROVE  Number(s, T) <= Number(s, U)
<1>1. Hits(s, T) \in SUBSET Hits(s, U)
  BY DEF Hits
<1>2. IsFiniteSet(Hits(s, U))
  BY HitsFinite
<1> QED BY <1>1, <1>2, Fewer DEF Number

--------------------------------------------------------------------------------
\* The ports: what a driver that reads one and then writes it can rely on.

PortOK(p) ==
  /\ port[p].ped => port[p].ccs
  /\ ~ (port[p].pr /\ port[p].prc /\ port[p].ped)
  /\ pc.at \in {"scan", "rescan"} /\ p >= pc.port => ~ port[p].ped /\ ~ port[p].pr /\ ~ port[p].prc

\* A change of the reset is still there when it is acknowledged, and a port found in
\* need of a reset still needs it.
ReadOK ==
  /\ pc.at = "ack" => seen.prc /\ ~ (seen.pr /\ seen.ped) /\ port[pc.port].prc
  /\ pc.at = "decide" /\ NeedsReset(seen) => ~ port[pc.port].ped /\ ~ port[pc.port].pr

PortsOK == (\A p \in Ports : PortOK(p)) /\ ReadOK

Regs == /\ port \in [Ports -> Bits] /\ pc \in [at : Steps, port : Ports] /\ seen \in Bits

\* A port whose device is connected may be asked a slot for once more, but for one that
\* has been enabled and its reset noticed.
Reading(p) == pc.at = "ack" /\ pc.port = p /\ seen.ped
Spent(p) == port[p].ped /\ ~ port[p].pr /\ (port[p].prc => Reading(p))
Hot == {p \in Ports : port[p].ccs /\ ~ Spent(p)}
Asking == pc.at = "ack" /\ seen.ped

LEMMA Connected ==
  ASSUME NEW b \in Bits, NEW c, c = [b EXCEPT !.ccs = TRUE, !.csc = TRUE]
  PROVE  c \in Bits /\ c.ccs /\ c.ped = b.ped /\ c.pr = b.pr /\ c.prc = b.prc
  BY DEF Bits

LEMMA Disconnected ==
  ASSUME NEW b \in Bits, NEW c, c = [b EXCEPT !.ccs = FALSE, !.ped = FALSE, !.csc = TRUE]
  PROVE  c \in Bits /\ ~ c.ccs /\ ~ c.ped /\ c.pr = b.pr /\ c.prc = b.prc
  BY DEF Bits

LEMMA WasReset ==
  ASSUME NEW b \in Bits, NEW c, c = [b EXCEPT !.pr = FALSE, !.prc = TRUE, !.ped = b.ccs]
  PROVE  c \in Bits /\ c.ccs = b.ccs /\ c.ped = b.ccs /\ ~ c.pr /\ c.prc
  BY DEF Bits

LEMMA WrittenPort ==
  ASSUME Regs, NEW p \in Ports, NEW v \in Bits, NEW after, after = Written(p, v)
  PROVE  /\ after \in [Ports -> Bits]
         /\ \A q \in Ports : q # p => after[q] = port[q]
         /\ after[p].ccs = port[p].ccs /\ after[p].ped = port[p].ped
         /\ after[p].pr <=> port[p].pr \/ v.pr
         /\ after[p].prc <=> port[p].prc /\ ~ v.prc
  BY DEF Written, Regs, Bits

LEMMA PcSteps ==
  ASSUME Regs, NEW a \in Steps, pc' = [pc EXCEPT !.at = a]
  PROVE  pc'.at = a /\ pc'.port = pc.port /\ pc' \in [at : Steps, port : Ports]
  BY DEF Regs

\* What a step does to the ports and the driver's place in handling them.
PortStep == Regs' /\ PortsOK' /\ Hot' \subseteq Hot

\* The controller's part.

LEMMA ConnectPorts ==
  ASSUME Regs, PortsOK, NEW p \in Ports, Connect(p)
  PROVE  Regs' /\ PortsOK' /\ Hot' \subseteq Hot \cup {p} /\ Asking' = Asking
<1> DEFINE c == [port[p] EXCEPT !.ccs = TRUE, !.csc = TRUE]
<1>1. port' = [port EXCEPT ![p] = c] /\ pc' = pc /\ seen' = seen
  BY DEF Connect, soft, Regs
<1>2. c \in Bits /\ c.ccs /\ c.ped = port[p].ped /\ c.pr = port[p].pr /\ c.prc = port[p].prc
  <2>1. port[p] \in Bits
    BY DEF Regs
  <2> QED BY <2>1, Connected
<1> HIDE DEF c
<1>3. port'[p] = c /\ port' \in [Ports -> Bits] /\ \A q \in Ports : q # p => port'[q] = port[q]
  BY <1>1, <1>2 DEF Regs
<1>4. \A q \in Ports : port'[q].ped = port[q].ped /\ port'[q].pr = port[q].pr /\ port'[q].prc = port[q].prc
                       /\ (port[q].ccs => port'[q].ccs)
  BY <1>2, <1>3
<1>5. Regs' /\ pc.port \in Ports
  BY <1>1, <1>3 DEF Regs
<1>6. ASSUME NEW q \in Ports PROVE PortOK(q)'
  BY <1>1, <1>4 DEF PortsOK, PortOK
<1>7. ReadOK'
  BY <1>1, <1>4, <1>5 DEF PortsOK, ReadOK
<1>8. Hot' \subseteq Hot \cup {p}
  BY <1>1, <1>3, <1>4 DEF Hot, Spent, Reading
<1> QED BY <1>1, <1>5, <1>6, <1>7, <1>8 DEF PortsOK, Asking

LEMMA DisconnectPorts ==
  ASSUME Regs, PortsOK, NEW p \in Ports, Disconnect(p)
  PROVE  PortStep /\ Asking' = Asking
<1> DEFINE c == [port[p] EXCEPT !.ccs = FALSE, !.ped = FALSE, !.csc = TRUE]
<1>1. port' = [port EXCEPT ![p] = c] /\ pc' = pc /\ seen' = seen
  BY DEF Disconnect, soft, Regs
<1>2. c \in Bits /\ ~ c.ccs /\ ~ c.ped /\ c.pr = port[p].pr /\ c.prc = port[p].prc
  <2>1. port[p] \in Bits
    BY DEF Regs
  <2> QED BY <2>1, Disconnected
<1> HIDE DEF c
<1>3. port'[p] = c /\ port' \in [Ports -> Bits] /\ \A q \in Ports : q # p => port'[q] = port[q]
  BY <1>1, <1>2 DEF Regs
<1>4. \A q \in Ports : (port'[q].ped => port[q].ped /\ port'[q].ccs = port[q].ccs)
                       /\ port'[q].pr = port[q].pr /\ port'[q].prc = port[q].prc
  BY <1>2, <1>3
<1>5. Regs' /\ pc.port \in Ports
  BY <1>1, <1>3 DEF Regs
<1>6. ASSUME NEW q \in Ports PROVE PortOK(q)'
  BY <1>1, <1>4 DEF PortsOK, PortOK
<1>7. ReadOK'
  BY <1>1, <1>4, <1>5 DEF PortsOK, ReadOK
<1>8. Hot' \subseteq Hot
  BY <1>1, <1>2, <1>3 DEF Hot, Spent, Reading
<1> QED BY <1>1, <1>5, <1>6, <1>7, <1>8 DEF PortsOK, PortStep, Asking

LEMMA ResetDonePorts ==
  ASSUME Regs, PortsOK, NEW p \in Ports, ResetDone(p)
  PROVE  PortStep /\ Asking' = Asking
<1> DEFINE c == [port[p] EXCEPT !.pr = FALSE, !.prc = TRUE, !.ped = port[p].ccs]
<1>1. port' = [port EXCEPT ![p] = c] /\ pc' = pc /\ seen' = seen /\ port[p].pr
  BY DEF ResetDone, soft, Regs
<1>2. c \in Bits /\ c.ccs = port[p].ccs /\ c.ped = port[p].ccs /\ ~ c.pr /\ c.prc
  <2>1. port[p] \in Bits
    BY DEF Regs
  <2> QED BY <2>1, WasReset
<1> HIDE DEF c
<1>3. port'[p] = c /\ port' \in [Ports -> Bits] /\ \A q \in Ports : q # p => port'[q] = port[q]
  BY <1>1, <1>2 DEF Regs
<1>5. Regs' /\ pc.port \in Ports
  BY <1>1, <1>3 DEF Regs
<1>6. ASSUME NEW q \in Ports PROVE PortOK(q)'
  <2>1. CASE q = p
    BY <1>1, <1>2, <1>3, <2>1 DEF PortsOK, PortOK
  <2>2. CASE q # p
    BY <1>1, <1>3, <2>2 DEF PortsOK, PortOK
  <2> QED BY <2>1, <2>2
<1>7. ReadOK'
  <2>1. CASE pc.port = p
    BY <1>1, <1>2, <1>3, <2>1 DEF PortsOK, ReadOK
  <2>2. CASE pc.port # p
    BY <1>1, <1>3, <1>5, <2>2 DEF PortsOK, ReadOK
  <2> QED BY <2>1, <2>2
<1>8. Hot' \subseteq Hot
  <2> SUFFICES ASSUME NEW q \in Ports, q \in Hot' PROVE q \in Hot
    BY DEF Hot
  <2>1. CASE q = p
    BY <1>1, <1>2, <1>3, <2>1 DEF Hot, Spent
  <2>2. CASE q # p
    BY <1>1, <1>3, <2>2 DEF Hot, Spent, Reading
  <2> QED BY <2>1, <2>2
<1> QED BY <1>1, <1>5, <1>6, <1>7, <1>8 DEF PortsOK, PortStep, Asking

\* The driver's part.

LEMMA ScanReadPorts ==
  ASSUME Regs, PortsOK, ScanRead
  PROVE  PortStep /\ ~ Asking /\ ~ Asking'
<1>1. port' = port /\ seen' = port[pc.port] /\ pc.at = "scan" /\ pc' = [pc EXCEPT !.at = "rescan"]
  BY DEF ScanRead, Goto, hw
<1>2. pc'.at = "rescan" /\ pc'.port = pc.port /\ pc' \in [at : Steps, port : Ports]
  BY <1>1, PcSteps DEF Steps
<1>3. Regs'
  BY <1>1, <1>2 DEF Regs
<1>4. ASSUME NEW q \in Ports PROVE PortOK(q)'
  BY <1>1, <1>2 DEF PortsOK, PortOK
<1>5. ReadOK' /\ Hot' \subseteq Hot /\ ~ Asking /\ ~ Asking'
  BY <1>1, <1>2 DEF ReadOK, Hot, Spent, Reading, Asking
<1> QED BY <1>3, <1>4, <1>5 DEF PortsOK, PortStep

\* Writing a port that is not enabled, to reset it.
LEMMA ResetHarmless ==
  ASSUME Regs, PortsOK, ~ port[pc.port].ped, port' = port \/ port' = Written(pc.port, [seen EXCEPT !.pr = TRUE])
  PROVE  /\ port' \in [Ports -> Bits]
         /\ \A q \in Ports : q # pc.port => port'[q] = port[q]
         /\ \A q \in Ports : port'[q].ccs = port[q].ccs /\ port'[q].ped = port[q].ped
<1> DEFINE v == [seen EXCEPT !.pr = TRUE]
<1>1. pc.port \in Ports /\ v \in Bits
  BY DEF Regs, Bits
<1>2. CASE port' = port
  BY <1>2 DEF Regs
<1>3. CASE port' = Written(pc.port, v)
  <2> HIDE DEF v
  <2>1. /\ port' \in [Ports -> Bits]
        /\ \A q \in Ports : q # pc.port => port'[q] = port[q]
        /\ port'[pc.port].ccs = port[pc.port].ccs /\ port'[pc.port].ped = port[pc.port].ped
    BY <1>1, <1>3, WrittenPort
  <2> QED BY <2>1
<1> QED BY <1>2, <1>3

LEMMA ScanWritePorts ==
  ASSUME Regs, PortsOK, ScanWrite
  PROVE  PortStep /\ ~ Asking /\ ~ Asking'
<1>1. /\ pc.at = "rescan" /\ seen' = seen
      /\ port' = port \/ port' = Written(pc.port, [seen EXCEPT !.pr = TRUE])
      /\ pc' = IF pc.port = MaxPort THEN [pc EXCEPT !.at = "poll"]
                                    ELSE [at |-> "scan", port |-> pc.port + 1]
  BY DEF ScanWrite
<1>2. pc.port \in Ports /\ pc.port \in Nat /\ MaxPort \in Nat
  BY XhciAssumption DEF Regs, Ports
<1>3. ~ port[pc.port].ped
  BY <1>1, <1>2 DEF PortsOK, PortOK
<1>4. /\ port' \in [Ports -> Bits]
      /\ \A q \in Ports : q # pc.port => port'[q] = port[q]
      /\ \A q \in Ports : port'[q].ccs = port[q].ccs /\ port'[q].ped = port[q].ped
  BY <1>1, <1>3, ResetHarmless
<1>5. /\ pc' \in [at : Steps, port : Ports]
      /\ pc'.at = "poll" \/ (pc'.at = "scan" /\ pc'.port = pc.port + 1)
  <2>1. CASE pc.port = MaxPort
    <3>1. pc' = [pc EXCEPT !.at = "poll"] /\ "poll" \in Steps
      BY <1>1, <2>1 DEF Steps
    <3> QED BY <3>1, PcSteps
  <2>2. CASE pc.port # MaxPort
    <3>1. pc' = [at |-> "scan", port |-> pc.port + 1] /\ pc.port + 1 \in Ports
      BY <1>1, <1>2, <2>2 DEF Ports
    <3> QED BY <3>1 DEF Steps
  <2> QED BY <2>1, <2>2
<1>6. Regs'
  BY <1>1, <1>4, <1>5 DEF Regs
<1>7. ASSUME NEW q \in Ports PROVE PortOK(q)'
  <2>1. q \in Nat /\ (q >= pc.port + 1 => q # pc.port /\ q >= pc.port)
    BY <1>2 DEF Ports
  <2>2. CASE q = pc.port
    BY <1>2, <1>3, <1>4, <1>5, <2>1, <2>2 DEF PortsOK, PortOK
  <2>3. CASE q # pc.port
    BY <1>1, <1>4, <1>5, <2>1, <2>3 DEF PortsOK, PortOK
  <2> QED BY <2>2, <2>3
<1>8. ReadOK' /\ ~ Asking /\ ~ Asking'
  BY <1>1, <1>5 DEF ReadOK, Asking
<1>9. Hot' \subseteq Hot
  <2> SUFFICES ASSUME NEW q \in Ports, q \in Hot' PROVE q \in Hot
    BY DEF Hot
  <2>1. CASE q = pc.port
    BY <1>3, <1>4, <2>1 DEF Hot, Spent
  <2>2. CASE q # pc.port
    BY <1>1, <1>4, <1>5, <2>2 DEF Hot, Spent, Reading
  <2> QED BY <2>1, <2>2
<1> QED BY <1>6, <1>7, <1>8, <1>9 DEF PortsOK, PortStep

\* The event of a reset is what the port is paid for.
LEMMA PollPortPorts ==
  ASSUME Regs, PortsOK, PollPort, Head(events).port \in Ports
  PROVE  /\ PortStep /\ ~ Asking
         /\ Asking' => \E p \in Hot : Hot' \subseteq Hot \ {p}
<1> DEFINE p == Head(events).port
<1>1. /\ pc.at = "poll" /\ port' = port /\ seen' = port[p] /\ p \in Ports
      /\ pc' = [at |-> IF port[p].prc THEN "ack" ELSE "change", port |-> p]
  BY DEF PollPort, Idle, hw
<1> HIDE DEF p
<1>2. /\ pc' \in [at : Steps, port : Ports] /\ pc'.port = p
      /\ pc'.at = IF port[p].prc THEN "ack" ELSE "change"
  BY <1>1 DEF Steps
<1>3. Regs'
  BY <1>1, <1>2 DEF Regs
<1>4. ASSUME NEW q \in Ports PROVE PortOK(q)'
  BY <1>1, <1>2 DEF PortsOK, PortOK
<1>5. ReadOK' /\ ~ Asking
  BY <1>1, <1>2 DEF PortsOK, PortOK, ReadOK, Asking
<1>6. Hot' \subseteq Hot
  BY <1>1 DEF Hot, Spent, Reading
<1>7. ASSUME Asking' PROVE p \in Hot /\ Hot' \subseteq Hot \ {p}
  <2>1. port[p].prc /\ port[p].ped /\ port[p].ccs /\ ~ port[p].pr
    BY <1>1, <1>2, <1>7 DEF Asking, PortsOK, PortOK
  <2>2. p \in Hot
    BY <1>1, <2>1 DEF Hot, Spent, Reading
  <2>3. p \notin Hot'
    BY <1>1, <1>2, <2>1 DEF Hot, Spent, Reading
  <2> QED BY <1>6, <2>2, <2>3
<1> QED BY <1>3, <1>4, <1>5, <1>6, <1>7 DEF PortsOK, PortStep

LEMMA AckResetPorts ==
  ASSUME Regs, PortsOK, AckReset
  PROVE  PortStep /\ ~ Asking' /\ (Asking <=> seen.ped)
<1>1. /\ pc.at = "ack" /\ port' = Written(pc.port, seen) /\ seen' = seen
      /\ pc' = [pc EXCEPT !.at = "change"]
  BY DEF AckReset, Goto
<1>2. pc.port \in Ports /\ seen \in Bits /\ seen.prc /\ ~ (seen.pr /\ seen.ped) /\ port[pc.port].prc
  BY <1>1 DEF Regs, PortsOK, ReadOK
<1>3. /\ port' \in [Ports -> Bits]
      /\ \A q \in Ports : q # pc.port => port'[q] = port[q]
      /\ port'[pc.port].ccs = port[pc.port].ccs /\ port'[pc.port].ped = port[pc.port].ped
      /\ (port'[pc.port].pr <=> port[pc.port].pr \/ seen.pr) /\ ~ port'[pc.port].prc
  <2>1. /\ port' \in [Ports -> Bits]
        /\ \A q \in Ports : q # pc.port => port'[q] = port[q]
        /\ port'[pc.port].ccs = port[pc.port].ccs /\ port'[pc.port].ped = port[pc.port].ped
        /\ port'[pc.port].pr <=> port[pc.port].pr \/ seen.pr
        /\ port'[pc.port].prc <=> port[pc.port].prc /\ ~ seen.prc
    BY <1>1, <1>2, WrittenPort
  <2> QED BY <1>2, <2>1
<1>4. pc'.at = "change" /\ pc'.port = pc.port /\ pc' \in [at : Steps, port : Ports]
  BY <1>1, PcSteps DEF Steps
<1>5. Regs'
  BY <1>1, <1>3, <1>4 DEF Regs
<1>6. ASSUME NEW q \in Ports PROVE PortOK(q)'
  <2>1. CASE q = pc.port
    BY <1>3, <1>4, <2>1 DEF PortsOK, PortOK
  <2>2. CASE q # pc.port
    BY <1>3, <1>4, <2>2 DEF PortsOK, PortOK
  <2> QED BY <2>1, <2>2
<1>7. ReadOK' /\ ~ Asking' /\ (Asking <=> seen.ped)
  BY <1>1, <1>4 DEF ReadOK, Asking
<1>8. Hot' \subseteq Hot
  <2> SUFFICES ASSUME NEW q \in Ports, q \in Hot' PROVE q \in Hot
    BY DEF Hot
  <2>1. CASE q = pc.port
    BY <1>1, <1>2, <1>3, <1>4, <2>1 DEF Hot, Spent, Reading
  <2>2. CASE q # pc.port
    BY <1>1, <1>3, <1>4, <2>2 DEF Hot, Spent, Reading
  <2> QED BY <2>1, <2>2
<1> QED BY <1>5, <1>6, <1>7, <1>8 DEF PortsOK, PortStep

LEMMA ReadChangePorts ==
  ASSUME Regs, PortsOK, ReadChange
  PROVE  PortStep /\ ~ Asking /\ ~ Asking'
<1>1. /\ pc.at \in {"change", "reread"} /\ port' = port /\ seen' = port[pc.port]
      /\ pc' = [pc EXCEPT !.at = IF pc.at = "change" /\ port[pc.port].csc THEN "csc" ELSE "decide"]
  BY DEF ReadChange, Goto, hw
<1>2. pc'.at \in {"csc", "decide"} /\ pc'.port = pc.port /\ pc' \in [at : Steps, port : Ports]
  <2>1. CASE pc' = [pc EXCEPT !.at = "csc"]
    BY <2>1, PcSteps DEF Steps
  <2>2. CASE pc' = [pc EXCEPT !.at = "decide"]
    BY <2>2, PcSteps DEF Steps
  <2> QED BY <1>1, <2>1, <2>2
<1>3. Regs'
  BY <1>1, <1>2 DEF Regs
<1>4. ASSUME NEW q \in Ports PROVE PortOK(q)'
  BY <1>1, <1>2 DEF PortsOK, PortOK
<1>5. ReadOK' /\ ~ Asking /\ ~ Asking'
  BY <1>1, <1>2 DEF ReadOK, Asking, NeedsReset
<1>6. Hot' \subseteq Hot
  BY <1>1, <1>2 DEF Hot, Spent, Reading
<1> QED BY <1>3, <1>4, <1>5, <1>6 DEF PortsOK, PortStep

LEMMA AckConnectPorts ==
  ASSUME Regs, PortsOK, AckConnect
  PROVE  PortStep /\ ~ Asking /\ ~ Asking'
<1> DEFINE v == [seen EXCEPT !.pr = FALSE]
<1>1. /\ pc.at = "csc" /\ port' = Written(pc.port, v) /\ seen' = seen
      /\ pc' = [pc EXCEPT !.at = "reread"]
  BY DEF AckConnect, Goto
<1>2. pc.port \in Ports /\ v \in Bits /\ ~ v.pr
  BY DEF Regs, Bits
<1> HIDE DEF v
<1>3. /\ port' \in [Ports -> Bits]
      /\ \A q \in Ports : q # pc.port => port'[q] = port[q]
      /\ port'[pc.port].ccs = port[pc.port].ccs /\ port'[pc.port].ped = port[pc.port].ped
      /\ (port'[pc.port].pr <=> port[pc.port].pr) /\ (port'[pc.port].prc => port[pc.port].prc)
  BY <1>1, <1>2, WrittenPort
<1>4. pc'.at = "reread" /\ pc'.port = pc.port /\ pc' \in [at : Steps, port : Ports]
  BY <1>1, PcSteps DEF Steps
<1>5. Regs'
  BY <1>1, <1>3, <1>4 DEF Regs
<1>6. ASSUME NEW q \in Ports PROVE PortOK(q)'
  <2>1. CASE q = pc.port
    BY <1>3, <1>4, <2>1 DEF PortsOK, PortOK
  <2>2. CASE q # pc.port
    BY <1>3, <1>4, <2>2 DEF PortsOK, PortOK
  <2> QED BY <2>1, <2>2
<1>7. ReadOK' /\ ~ Asking' /\ ~ Asking
  BY <1>1, <1>4 DEF ReadOK, Asking
<1>8. Hot' \subseteq Hot
  <2> SUFFICES ASSUME NEW q \in Ports, q \in Hot' PROVE q \in Hot
    BY DEF Hot
  <2>1. CASE q = pc.port
    BY <1>1, <1>3, <1>4, <2>1 DEF Hot, Spent, Reading
  <2>2. CASE q # pc.port
    BY <1>1, <1>3, <1>4, <2>2 DEF Hot, Spent, Reading
  <2> QED BY <2>1, <2>2
<1> QED BY <1>5, <1>6, <1>7, <1>8 DEF PortsOK, PortStep

LEMMA ResetPortPorts ==
  ASSUME Regs, PortsOK, ResetPort
  PROVE  PortStep /\ ~ Asking /\ ~ Asking'
<1>1. /\ pc.at = "decide" /\ seen' = seen /\ pc' = [pc EXCEPT !.at = "poll"]
      /\ port' = IF NeedsReset(seen) THEN Written(pc.port, [seen EXCEPT !.pr = TRUE]) ELSE port
  BY DEF ResetPort, Goto
<1>2. pc'.at = "poll" /\ pc'.port = pc.port /\ pc' \in [at : Steps, port : Ports]
  BY <1>1, PcSteps DEF Steps
<1>3. /\ port' \in [Ports -> Bits]
      /\ \A q \in Ports : q # pc.port => port'[q] = port[q]
      /\ \A q \in Ports : port'[q].ccs = port[q].ccs /\ port'[q].ped = port[q].ped
      /\ port' = port \/ ~ port[pc.port].ped
  <2>1. CASE NeedsReset(seen)
    <3>1. ~ port[pc.port].ped
      BY <1>1, <2>1 DEF PortsOK, ReadOK
    <3> QED BY <1>1, <2>1, <3>1, ResetHarmless
  <2>2. CASE ~ NeedsReset(seen)
    BY <1>1, <2>2 DEF Regs
  <2> QED BY <2>1, <2>2
<1>4. Regs'
  BY <1>1, <1>2, <1>3 DEF Regs
<1>5. ASSUME NEW q \in Ports PROVE PortOK(q)'
  <2>1. CASE q = pc.port /\ port' # port
    BY <1>2, <1>3, <2>1 DEF PortsOK, PortOK
  <2>2. CASE q # pc.port \/ port' = port
    BY <1>2, <1>3, <2>2 DEF PortsOK, PortOK
  <2> QED BY <2>1, <2>2
<1>6. ReadOK' /\ ~ Asking' /\ ~ Asking
  BY <1>1, <1>2 DEF ReadOK, Asking
<1>7. Hot' \subseteq Hot
  <2> SUFFICES ASSUME NEW q \in Ports, q \in Hot' PROVE q \in Hot
    BY DEF Hot
  <2>1. CASE q = pc.port /\ port' # port
    BY <1>3, <2>1 DEF Hot, Spent
  <2>2. CASE q # pc.port \/ port' = port
    BY <1>1, <1>2, <1>3, <2>2 DEF Hot, Spent, Reading
  <2> QED BY <2>1, <2>2
<1> QED BY <1>4, <1>5, <1>6, <1>7 DEF PortsOK, PortStep

LEMMA OtherPorts ==
  ASSUME Regs, PortsOK, UNCHANGED <<port, pc, seen>>
  PROVE  PortStep /\ Asking' = Asking
<1>1. Regs' /\ ReadOK' /\ Asking' = Asking /\ Hot' \subseteq Hot
  BY DEF Regs, PortsOK, ReadOK, Asking, Hot, Spent, Reading
<1>2. ASSUME NEW q \in Ports PROVE PortOK(q)'
  BY DEF PortsOK, PortOK
<1> QED BY <1>1, <1>2 DEF PortsOK, PortStep

--------------------------------------------------------------------------------
\* Types.

Contexts == [state : {"disabled", "enabled", "addressed", "configured"},
             port : Ports \cup {0}, deq : 0 .. EP0_SIZE]
Inputs == [op : {"none", "address", "configure"}, port : Ports \cup {0}]
TRBs == [stage : {"none", "setup", "data", "status"}, cycle : BOOLEAN]

\* All but the ports and what the driver knows of them.
Traffic ==
  /\ slot \in [Slots -> Contexts]
  /\ bells \subseteq Slots \X {1, 3, 4} /\ carried \subseteq Slots
  /\ plugs \in 0 .. MaxPlugs /\ sent \in Nat
  /\ cmds \in Seq(Commands) /\ events \in Seq(Events)
  /\ inputCtx \in Inputs
  /\ ep0Ring \in [Cells -> TRBs]
  /\ buffer \in 0 .. CBW
  /\ pending_port_id \in Ports \cup {0} /\ configuring_slot \in Slots \cup {0}
  /\ ep0 \in [index : Cells, cycle : BOOLEAN]
  /\ halted \in {"no", "read", "failed"}

LEMMA TwoParts == TypeOK <=> Regs /\ Traffic
  BY DEF TypeOK, Regs, Traffic, Contexts, Inputs, TRBs

LEMMA Messages ==
  /\ \A p \in Ports : Change(p) \in Events /\ Change(p).type = "port"
  /\ \A s \in Slots, ep \in {1, 3, 4} :
       /\ Transfer(s, ep) \in Events /\ Transfer(s, ep).type = "transfer"
       /\ Transfer(s, ep).slot = s /\ Transfer(s, ep).ep = ep
  /\ \A cmd \in Commands, s \in Slots \cup {0}, code \in {1, 4, 5} :
       /\ Completion(cmd, s, code) \in Events /\ Completion(cmd, s, code).type = "command"
       /\ Completion(cmd, s, code).of = cmd.op /\ Completion(cmd, s, code).slot = s
       /\ Completion(cmd, s, code).code = code
  BY DEF Change, Transfer, Completion, Events, Commands

LEMMA EventFields ==
  ASSUME NEW e \in Events
  PROVE  /\ e.type \in {"command", "port", "transfer"}
         /\ e.type = "port" => e.port \in Ports
         /\ e.type = "transfer" => e.slot \in Slots /\ e.ep \in {1, 3, 4} /\ e = Transfer(e.slot, e.ep)
         /\ e.type = "command" => /\ e.of \in {"enable", "address", "configure"}
                                  /\ e.slot \in Slots \cup {0} /\ e.code \in {1, 4, 5}
  BY DEF Events, Transfer

LEMMA CommandFields ==
  /\ \A cmd \in Commands : cmd.op \in {"enable", "address", "configure"} /\ cmd.slot \in Slots \cup {0}
  /\ \A op \in {"enable", "address", "configure"}, s \in Slots \cup {0} :
       Command(op, s) \in Commands /\ Command(op, s).op = op /\ Command(op, s).slot = s
  BY DEF Commands, Command

--------------------------------------------------------------------------------
\* Commands and completions: which slot they are for, and what is known of it.

InUse(s) == slot[s].state \in {"addressed", "configured"}
Answered(e) == e.type = "command" /\ e.code = 1
Prepared(e) == Answered(e) /\ e.of # "configure" /\ e.slot = 1
Configured(e) == Answered(e) /\ e.of = "configure"
Classified == Transfer(1, 1)

\* A command is for a slot that was enabled; slot 1 alone is configured.
Addressee(c) ==
  IF c.op = "enable" THEN c.slot = 0
  ELSE /\ c.slot \in Slots /\ slot[c.slot].state # "disabled"
       /\ c.op = "configure" => c.slot = 1 /\ InUse(1)

Replied(e) ==
  Answered(e) =>
    /\ e.slot \in Slots /\ slot[e.slot].state # "disabled"
    /\ e.of = "address" => InUse(e.slot)
    /\ e.of = "configure" => e.slot = 1 /\ slot[1].state = "configured"

Filled == \A s \in Slots : slot[s].state \in {"disabled", "enabled"} => slot[s].deq = 0

\* What the driver waits for while it configures slot 1, and what may come before that.
Expected ==
  /\ configuring_slot \in {0, 1}
  /\ configuring_slot = 1 => InUse(1)
  /\ slot[1].state = "addressed" /\ (\E i \in DOMAIN cmds : cmds[i].op = "configure") =>
       configuring_slot = 1

Arriving ==
  /\ \A i \in DOMAIN events : Prepared(events[i]) => configuring_slot = 0
  /\ \A i \in DOMAIN events : Configured(events[i]) => configuring_slot = 1
  /\ \A i, j \in DOMAIN events : Configured(events[i]) /\ Configured(events[j]) => i = j
  /\ \A i, j \in DOMAIN events : events[i] = Classified /\ Prepared(events[j]) => j < i
  /\ \A i \in DOMAIN events : events[i] = Classified => InUse(1)

CallsOK ==
  /\ Filled /\ Expected /\ Arriving
  /\ \A i \in DOMAIN cmds : Addressee(cmds[i])
  /\ \A i \in DOMAIN events : Replied(events[i])

\* A step that leaves the slots in their states, waits for what was waited for, and
\* adds neither a completion nor a configuration.
LEMMA QuietCalls ==
  ASSUME Traffic, Traffic', CallsOK,
         \A s \in Slots : slot'[s].state = slot[s].state,
         Filled', configuring_slot' = configuring_slot,
         Follows(cmds', cmds, {c \in Commands : Addressee(c) /\ c.op # "configure"}),
         Follows(events', events, {e \in Events : ~ Answered(e) /\ (e = Classified => InUse(1))})
  PROVE  CallsOK'
<1>1. PICK m \in {0, 1} : \A i \in DOMAIN cmds' :
        \/ i + m \in DOMAIN cmds /\ cmds'[i] = cmds[i + m]
        \/ cmds'[i] \in {c \in Commands : Addressee(c) /\ c.op # "configure"} /\ \A j \in DOMAIN cmds' : j <= i
  BY DEF Follows
<1>2. PICK n \in {0, 1} : \A i \in DOMAIN events' :
        \/ i + n \in DOMAIN events /\ events'[i] = events[i + n]
        \/ /\ events'[i] \in {e \in Events : ~ Answered(e) /\ (e = Classified => InUse(1))}
           /\ \A j \in DOMAIN events' : j <= i
  BY DEF Follows
<1>3. DOMAIN events' \subseteq Nat /\ DOMAIN events \subseteq Nat
  BY DEF Traffic
<1>4. 1 \in Slots /\ (InUse(1)' <=> InUse(1)) /\ slot'[1].state = slot[1].state
      /\ \A s \in Slots : InUse(s)' <=> InUse(s)
  BY Numbers DEF InUse
<1>5. ASSUME NEW i \in DOMAIN cmds' PROVE Addressee(cmds[i])'
  <2>1. Addressee(cmds'[i])
    BY <1>1 DEF CallsOK
  <2> QED BY <1>4, <2>1 DEF Addressee
<1>6. ASSUME NEW i \in DOMAIN events' PROVE Replied(events[i])'
  <2>1. Replied(events'[i])
    BY <1>2 DEF CallsOK, Replied
  <2> QED BY <1>4, <2>1 DEF Replied
<1>7. Expected'
  <2>1. (\E i \in DOMAIN cmds' : cmds'[i].op = "configure") => \E i \in DOMAIN cmds : cmds[i].op = "configure"
    BY <1>1
  <2> QED BY <1>4, <2>1 DEF CallsOK, Expected
<1>8. Arriving'
  <2>1. \A i \in DOMAIN events' : Answered(events'[i]) => i + n \in DOMAIN events /\ events'[i] = events[i + n]
    BY <1>2
  <2>2. ~ Answered(Classified)
    BY Messages, Numbers DEF Answered, Classified
  <2>3. /\ \A i \in DOMAIN events' : Prepared(events'[i]) => configuring_slot' = 0
        /\ \A i \in DOMAIN events' : Configured(events'[i]) => configuring_slot' = 1
    BY <2>1 DEF Prepared, Configured, CallsOK, Arriving
  <2>4. \A i, j \in DOMAIN events' : Configured(events'[i]) /\ Configured(events'[j]) => i = j
    <3> SUFFICES ASSUME NEW i \in DOMAIN events', NEW j \in DOMAIN events',
                        Configured(events'[i]), Configured(events'[j])
                 PROVE  i = j
      OBVIOUS
    <3>1. i + n \in DOMAIN events /\ j + n \in DOMAIN events
          /\ Configured(events[i + n]) /\ Configured(events[j + n])
      BY <2>1 DEF Configured
    <3>2. i + n = j + n /\ i \in Nat /\ j \in Nat
      BY <1>3, <3>1 DEF CallsOK, Arriving
    <3> QED BY <3>2
  <2>5. \A i, j \in DOMAIN events' : events'[i] = Classified /\ Prepared(events'[j]) => j < i
    <3> SUFFICES ASSUME NEW i \in DOMAIN events', NEW j \in DOMAIN events',
                        events'[i] = Classified, Prepared(events'[j])
                 PROVE  j < i
      OBVIOUS
    <3>1. j + n \in DOMAIN events /\ Prepared(events[j + n]) /\ i \in Nat /\ j \in Nat
      BY <1>3, <2>1 DEF Prepared
    <3>2. CASE i + n \in DOMAIN events /\ events'[i] = events[i + n]
      <4>1. j + n < i + n
        BY <3>1, <3>2 DEF CallsOK, Arriving
      <4> QED BY <3>1, <4>1
    <3>3. CASE \A k \in DOMAIN events' : k <= i
      <4>1. j <= i /\ j # i
        BY <2>2, <3>3 DEF Prepared
      <4> QED BY <3>1, <4>1
    <3> QED BY <1>2, <3>2, <3>3
  <2>6. \A i \in DOMAIN events' : events'[i] = Classified => InUse(1)'
    BY <1>2, <1>4 DEF CallsOK, Arriving
  <2> QED BY <2>3, <2>4, <2>5, <2>6 DEF Arriving
<1> QED BY <1>5, <1>6, <1>7, <1>8 DEF CallsOK

--------------------------------------------------------------------------------
\* What the commands in flight may still cost: a pending port and an unanswered Enable
\* Slot each lead to an address command, its completion to a descriptor, the descriptor
\* to a configuration, and that is all.

Worthy == {c \in Commands : \/ c.op = "enable"
                            \/ /\ c.op = "address" /\ c.slot \in Slots
                               /\ slot[c.slot].state = "enabled"}
Promises == {e \in Events : (Answered(e) /\ e.of # "configure") \/ e = Classified}
Ahead == {c \in Cells : c >= slot[1].deq /\ ep0Ring[c].stage = "status" /\ ep0Ring[c].cycle}

Waiting == IF pending_port_id > 0 THEN 1 ELSE 0
InQueue == Number(cmds, Worthy)
Arrived == Number(events, Promises)
InRing == Cardinality(Ahead)

Asked == Waiting + InQueue + Arrived + InRing

LEMMA AskedCounts ==
  ASSUME Traffic
  PROVE  /\ Waiting \in {0, 1} /\ InQueue \in Nat /\ Arrived \in Nat /\ InRing \in Nat
         /\ Asked \in Nat
<1>1. InQueue \in Nat /\ Arrived \in Nat
  BY HitsFinite DEF Traffic, InQueue, Arrived
<1>2. InRing \in Nat
  BY CellSets DEF InRing, Ahead
<1>3. Waiting \in {0, 1}
  BY DEF Waiting
<1> QED BY <1>1, <1>2, <1>3 DEF Asked

LEMMA NextCounts ==
  ASSUME Traffic'
  PROVE  /\ Waiting' \in {0, 1} /\ InQueue' \in Nat /\ Arrived' \in Nat /\ InRing' \in Nat
         /\ Asked' \in Nat
<1>1. InQueue' \in Nat /\ Arrived' \in Nat
  BY HitsFinite DEF Traffic, InQueue, Arrived
<1>2. InRing' \in Nat
  BY CellSets DEF InRing, Ahead
<1>3. Waiting' \in {0, 1}
  BY DEF Waiting
<1>4. Asked' = Waiting' + InQueue' + Arrived' + InRing'
  BY DEF Asked
<1>5. \A a \in {0, 1}, b, c, d \in Nat : a + b + c + d \in Nat
  OBVIOUS
<1> QED BY <1>1, <1>2, <1>3, <1>4, <1>5

\* A step that costs nothing but what was promised.
Cheap == sent' + Asked' <= sent + Asked
Good == Traffic' /\ CallsOK' /\ Cheap

\* A step of the ports alone.
Calm ==
  /\ UNCHANGED <<slot, bells, carried, cmds, inputCtx, ep0Ring, buffer,
                 pending_port_id, configuring_slot, ep0, halted, sent>>
  /\ plugs' \in 0 .. MaxPlugs
  /\ \/ events' = events
     \/ \E p \in Ports : events' = Append(events, Change(p))
     \/ events # << >> /\ Head(events).type = "port" /\ events' = Tail(events)

LEMMA Raised ==
  ASSUME NEW p \in Ports, Raise(p)
  PROVE  events' = events \/ events' = Append(events, Change(p))
  BY DEF Raise

LEMMA PortStepsAreCalm ==
  ASSUME Traffic, MaxPlugs \in Nat
  PROVE  /\ \A p \in Ports : Connect(p) => Calm /\ plugs' = plugs + 1
         /\ \A p \in Ports : Disconnect(p) \/ ResetDone(p) => Calm /\ plugs' = plugs
         /\ ScanRead \/ ScanWrite \/ PollPort \/ ReadChange \/ AckConnect \/ ResetPort =>
              Calm /\ plugs' = plugs
         /\ AckReset /\ ~ seen.ped => Calm /\ plugs' = plugs
<1>1. ASSUME NEW p \in Ports, Connect(p) PROVE Calm /\ plugs' = plugs + 1
  <2>1. events' = events \/ events' = Append(events, Change(p))
    BY <1>1, Raised DEF Connect
  <2> QED BY <1>1, <2>1 DEF Connect, Calm, soft, Traffic
<1>2. ASSUME NEW p \in Ports, Disconnect(p) \/ ResetDone(p) PROVE Calm /\ plugs' = plugs
  <2>1. events' = events \/ events' = Append(events, Change(p))
    BY <1>2, Raised DEF Disconnect, ResetDone
  <2> QED BY <1>2, <2>1 DEF Disconnect, ResetDone, Calm, soft, Traffic
<1>3. ASSUME ScanRead \/ ScanWrite PROVE Calm /\ plugs' = plugs
  BY <1>3 DEF ScanRead, ScanWrite, Calm, hw, Traffic
<1>4. ASSUME PollPort PROVE Calm /\ plugs' = plugs
  BY <1>4 DEF PollPort, Calm, hw, Traffic
<1>5. ASSUME ReadChange \/ AckConnect \/ ResetPort PROVE Calm /\ plugs' = plugs
  BY <1>5 DEF ReadChange, AckConnect, ResetPort, Calm, hw, Traffic
<1>6. ASSUME AckReset, ~ seen.ped PROVE Calm /\ plugs' = plugs
  BY <1>6 DEF AckReset, Calm, Traffic
<1> QED BY <1>1, <1>2, <1>3, <1>4, <1>5, <1>6

\* The events a step of the ports leaves.
LEMMA CalmEvents ==
  ASSUME Traffic, Calm
  PROVE  /\ events' \in Seq(Events)
         /\ Follows(events', events, {Change(p) : p \in Ports})
         /\ Arrived' = Arrived
<1> USE DEF Traffic
<1>1. CASE events' = events
  BY <1>1, SameFollows DEF Arrived, Promises, Answered
<1>2. CASE \E p \in Ports : events' = Append(events, Change(p))
  <2>1. PICK p \in Ports : events' = Append(events, Change(p))
    BY <1>2
  <2>2. Change(p) \in Events /\ Change(p) \notin Promises
    BY Messages, Numbers DEF Promises, Answered, Classified
  <2>3. Number(events', Promises) = Number(events, Promises) + 0
    BY <2>1, <2>2, NumberPut
  <2>4. Number(events, Promises) \in Nat
    BY HitsFinite
  <2>5. Arrived' = Arrived
    BY <2>3, <2>4 DEF Arrived, Promises, Answered
  <2> QED BY <2>1, <2>2, <2>5, PutFollows, Put
<1>3. CASE events # << >> /\ Head(events).type = "port" /\ events' = Tail(events)
  <2>1. Head(events) \notin Promises
    BY <1>3, Messages, Numbers DEF Promises, Answered, Classified
  <2>2. Number(events, Promises) = Number(events', Promises) + 0
    BY <1>3, <2>1, NumberTaken
  <2>3. events' \in Seq(Events)
    BY <1>3, Taken
  <2>4. Number(events', Promises) \in Nat
    BY <2>3, HitsFinite
  <2>5. Arrived' = Arrived
    BY <2>2, <2>4 DEF Arrived, Promises, Answered
  <2> QED BY <1>3, <2>3, <2>5, TakenFollows
<1> QED BY <1>1, <1>2, <1>3 DEF Calm

\* Follows with a larger set.
LEMMA FollowsMore ==
  ASSUME NEW t, NEW s, NEW M, NEW N, Follows(t, s, M), \A x \in M : x \in N
  PROVE  Follows(t, s, N)
  BY DEF Follows

LEMMA CalmIsGood ==
  ASSUME Traffic, CallsOK, Calm
  PROVE  Good
<1>1. events' \in Seq(Events) /\ Follows(events', events, {Change(p) : p \in Ports}) /\ Arrived' = Arrived
  BY CalmEvents
<1>2. Traffic'
  BY <1>1 DEF Traffic, Calm
<1>3. Follows(events', events, {e \in Events : ~ Answered(e) /\ (e = Classified => InUse(1))})
  <2>1. \A x \in {Change(p) : p \in Ports} : x \in {e \in Events : ~ Answered(e) /\ (e = Classified => InUse(1))}
    BY Messages, Numbers DEF Answered, Classified
  <2> QED BY <1>1, <2>1, FollowsMore
<1>4. Follows(cmds', cmds, {c \in Commands : Addressee(c) /\ c.op # "configure"})
  <2>1. cmds \in Seq(Commands) /\ cmds' = cmds
    BY DEF Traffic, Calm
  <2> QED BY <2>1, SameFollows
<1>5. CallsOK'
  <2>1. Filled' /\ configuring_slot' = configuring_slot /\ \A s \in Slots : slot'[s].state = slot[s].state
    BY DEF Calm, CallsOK, Filled
  <2> QED BY <1>2, <1>3, <1>4, <2>1, QuietCalls
<1>6. Waiting' = Waiting /\ InQueue' = InQueue /\ InRing' = InRing /\ sent' = sent
  BY DEF Calm, Waiting, InQueue, InRing, Worthy, Ahead
<1>7. Cheap
  BY <1>1, <1>6, AskedCounts DEF Cheap, Asked, Traffic
<1> QED BY <1>2, <1>5, <1>7 DEF Good

\* The driver asks for a slot: three commands and what may come of them.
LEMMA AskIsGood ==
  ASSUME Regs, Traffic, CallsOK, AckReset, seen.ped
  PROVE  Traffic' /\ CallsOK' /\ sent' + Asked' <= sent + Asked + 3
<1> DEFINE c == Command("enable", 0)
<1>1. /\ pending_port_id' = pc.port /\ cmds' = Append(cmds, c) /\ sent' = sent + 1
      /\ UNCHANGED <<slot, bells, carried, plugs, events, inputCtx, ep0Ring, buffer,
                     configuring_slot, ep0, halted>>
  BY DEF AckReset, enable_slot, send_command
<1>2. c \in Commands /\ c.op = "enable" /\ c.slot = 0
  BY CommandFields
<1> HIDE DEF c
<1>3. pc.port \in Ports /\ pc.port > 0
  BY DEF Regs, Ports
<1>4. cmds \in Seq(Commands) /\ events \in Seq(Events)
  BY DEF Traffic
<1>5. cmds' \in Seq(Commands)
  BY <1>1, <1>2, <1>4, Put
<1>6. Traffic'
  BY <1>1, <1>3, <1>5 DEF Traffic
<1>7. CallsOK'
  <2>1. Follows(cmds', cmds, {x \in Commands : Addressee(x) /\ x.op # "configure"})
    <3>1. c \in {x \in Commands : Addressee(x) /\ x.op # "configure"}
      BY <1>2 DEF Addressee
    <3> QED BY <1>1, <1>2, <1>4, <3>1, PutFollows
  <2>2. Follows(events', events, {e \in Events : ~ Answered(e) /\ (e = Classified => InUse(1))})
    BY <1>1, <1>4, SameFollows
  <2>3. Filled' /\ configuring_slot' = configuring_slot /\ \A s \in Slots : slot'[s].state = slot[s].state
    BY <1>1 DEF CallsOK, Filled
  <2> QED BY <1>6, <2>1, <2>2, <2>3, QuietCalls
<1>8. InQueue' = InQueue + 1
  <2>1. Number(cmds', Worthy) = Number(cmds, Worthy) + 1
    <3>1. c \in Worthy
      BY <1>2 DEF Worthy
    <3> QED BY <1>1, <1>2, <1>4, <3>1, NumberPut
  <2>2. Worthy' = Worthy
    BY <1>1 DEF Worthy
  <2> QED BY <2>1, <2>2 DEF InQueue
<1>9. Waiting' = 1 /\ Arrived' = Arrived /\ InRing' = InRing
  BY <1>1, <1>3 DEF Waiting, Arrived, Promises, Answered, InRing, Ahead
<1>10. Asked' = 1 + (InQueue + 1) + Arrived + InRing
  BY <1>8, <1>9 DEF Asked
<1>11. sent + 1 + (1 + (InQueue + 1) + Arrived + InRing) <= sent + Asked + 3
  <2>1. Waiting \in {0, 1} /\ InQueue \in Nat /\ Arrived \in Nat /\ InRing \in Nat /\ sent \in Nat
    BY AskedCounts DEF Traffic
  <2>2. Asked = Waiting + InQueue + Arrived + InRing
    BY DEF Asked
  <2> QED BY <2>1, <2>2
<1> QED BY <1>1, <1>6, <1>7, <1>10, <1>11

--------------------------------------------------------------------------------
\* The controller executes a command.

\* The commands and the states of the slot they are executed in, before and after.
Turn(op, before, after) ==
  \/ op = "enable" /\ before = "disabled" /\ after = "enabled"
  \/ op = "address" /\ before = "enabled" /\ after = "addressed"
  \/ op = "configure" /\ before = "addressed" /\ after = "configured"

\* Slot s is taken a state further.
Served(s) ==
  /\ slot' \in [Slots -> Contexts]
  /\ \A t \in Slots : t # s => slot'[t] = slot[t]
  /\ Turn(Head(cmds).op, slot[s].state, slot'[s].state)
  /\ slot'[s].deq = slot[s].deq
  /\ events' = Append(events, Completion(Head(cmds), s, 1))

Refused ==
  /\ slot' = slot
  /\ \E code \in {4, 5} : events' = Append(events, Completion(Head(cmds), Head(cmds).slot, code))

LEMMA Executed ==
  ASSUME Traffic, CallsOK, Execute
  PROVE  /\ cmds # << >> /\ cmds' = Tail(cmds) /\ Head(cmds) \in Commands
         /\ 1 \in DOMAIN cmds /\ cmds[1] = Head(cmds) /\ Addressee(Head(cmds))
         /\ UNCHANGED <<bells, carried, plugs, inputCtx, ep0Ring, buffer, sent,
                        pending_port_id, configuring_slot, ep0, halted>>
         /\ \/ Refused
            \/ \E s \in Slots : Served(s) /\ (Head(cmds).op # "enable" => s = Head(cmds).slot)

<1> DEFINE cmd == Head(cmds)
<1>1. cmds # << >> /\ cmds' = Tail(cmds) /\ cmds \in Seq(Commands)
  BY DEF Execute, Traffic
<1>2. cmd \in Commands /\ 1 \in DOMAIN cmds /\ cmds[1] = cmd
  BY <1>1, Taken
<1>3. Addressee(cmd)
  BY <1>2 DEF CallsOK
<1>4. UNCHANGED <<bells, carried, plugs, inputCtx, ep0Ring, buffer, sent,
                  pending_port_id, configuring_slot, ep0, halted>>
  BY DEF Execute, soft
<1>5. slot \in [Slots -> Contexts] /\ inputCtx.port \in Ports \cup {0}
  BY DEF Traffic, Inputs
<1>6. \/ /\ cmd.op = "enable"
         /\ \E s \in Slots : /\ slot[s].state = "disabled"
                             /\ slot' = [slot EXCEPT ![s].state = "enabled"]
                             /\ events' = Append(events, Completion(cmd, s, 1))
      \/ /\ cmd.op = "address" /\ slot[cmd.slot].state = "enabled"
         /\ slot' = [slot EXCEPT ![cmd.slot] =
                       [state |-> "addressed", port |-> inputCtx.port, deq |-> 0]]
         /\ events' = Append(events, Completion(cmd, cmd.slot, 1))
      \/ /\ cmd.op = "configure" /\ slot[cmd.slot].state = "addressed"
         /\ slot' = [slot EXCEPT ![cmd.slot].state = "configured"]
         /\ events' = Append(events, Completion(cmd, cmd.slot, 1))
      \/ Refused
  BY Zenon DEF Execute, Refused
<1>7. cmd.op \in {"enable", "address", "configure"} /\ (cmd.op # "enable" => cmd.slot \in Slots)
  BY <1>2, <1>3, CommandFields DEF Addressee
<1>8. ASSUME cmd.op = "enable", NEW s \in Slots, slot[s].state = "disabled",
             slot' = [slot EXCEPT ![s].state = "enabled"],
             events' = Append(events, Completion(cmd, s, 1))
      PROVE  Served(s)
  <2>1. /\ slot' \in [Slots -> Contexts] /\ slot'[s].state = "enabled" /\ slot'[s].deq = slot[s].deq
        /\ \A t \in Slots : t # s => slot'[t] = slot[t]
    BY <1>5, <1>8 DEF Contexts
  <2> QED BY <1>8, <2>1 DEF Served, Turn
<1>9. ASSUME cmd.op = "address", slot[cmd.slot].state = "enabled",
             slot' = [slot EXCEPT ![cmd.slot] =
                        [state |-> "addressed", port |-> inputCtx.port, deq |-> 0]],
             events' = Append(events, Completion(cmd, cmd.slot, 1))
      PROVE  Served(cmd.slot)
  <2>1. cmd.slot \in Slots /\ slot[cmd.slot].deq = 0
    BY <1>7, <1>9 DEF CallsOK, Filled
  <2>2. 0 \in 0 .. EP0_SIZE
    BY Numbers
  <2>3. /\ slot' \in [Slots -> Contexts] /\ slot'[cmd.slot].state = "addressed" /\ slot'[cmd.slot].deq = 0
        /\ \A t \in Slots : t # cmd.slot => slot'[t] = slot[t]
    BY <1>5, <1>9, <2>1, <2>2 DEF Contexts
  <2> QED BY <1>9, <2>1, <2>3 DEF Served, Turn
<1>10. ASSUME cmd.op = "configure", slot[cmd.slot].state = "addressed",
              slot' = [slot EXCEPT ![cmd.slot].state = "configured"],
              events' = Append(events, Completion(cmd, cmd.slot, 1))
       PROVE  Served(cmd.slot)
  <2>1. cmd.slot \in Slots
    BY <1>7, <1>10
  <2>2. /\ slot' \in [Slots -> Contexts] /\ slot'[cmd.slot].state = "configured"
        /\ slot'[cmd.slot].deq = slot[cmd.slot].deq
        /\ \A t \in Slots : t # cmd.slot => slot'[t] = slot[t]
    BY <1>5, <1>10, <2>1 DEF Contexts
  <2> QED BY <1>10, <2>1, <2>2 DEF Served, Turn
<1>11. Refused \/ \E s \in Slots : Served(s) /\ (cmd.op # "enable" => s = cmd.slot)
  BY <1>6, <1>7, <1>8, <1>9, <1>10
<1> QED BY <1>1, <1>2, <1>3, <1>4, <1>11

LEMMA ServedCalls ==
  ASSUME Traffic, Traffic', CallsOK, cmds # << >>, cmds' = Tail(cmds), Addressee(Head(cmds)),
         configuring_slot' = configuring_slot,
         NEW s \in Slots, Served(s), Head(cmds).op # "enable" => s = Head(cmds).slot
  PROVE  CallsOK'
<1> DEFINE cmd == Head(cmds)
           e == Completion(cmd, s, 1)
<1>1. /\ \A t \in Slots : t # s => slot'[t] = slot[t]
      /\ Turn(cmd.op, slot[s].state, slot'[s].state)
      /\ slot'[s].deq = slot[s].deq /\ events' = Append(events, e)
      /\ cmd.op = "configure" => s = 1
  BY DEF Served, Addressee
<1>2. /\ cmd \in Commands /\ 1 \in DOMAIN cmds /\ cmds[1] = cmd
      /\ \A i \in DOMAIN cmds' : i + 1 \in DOMAIN cmds /\ cmds'[i] = cmds[i + 1]
  BY Taken DEF Traffic
<1>3. e \in Events /\ e.type = "command" /\ e.of = cmd.op /\ e.slot = s /\ e.code = 1 /\ e # Classified
  BY <1>2, Messages, Numbers DEF Classified
<1> HIDE DEF e
<1>4. /\ Len(events) \in Nat /\ DOMAIN events = 1 .. Len(events)
      /\ DOMAIN events' = 1 .. Len(events) + 1
      /\ \A i \in DOMAIN events : events'[i] = events[i]
      /\ events'[Len(events) + 1] = e
  BY <1>1, <1>3, Put DEF Traffic
<1>5. 1 \in Slots
  BY Numbers
<1>6. \A t \in Slots : /\ slot[t].state # "disabled" => slot'[t].state # "disabled"
                       /\ InUse(t) => InUse(t)'
                       /\ slot[t].state = "configured" => slot'[t].state = "configured"
  BY <1>1 DEF Turn, InUse
<1>7. Filled'
  BY <1>1 DEF Turn, CallsOK, Filled
<1>8. Expected'
  <2>1. (\E i \in DOMAIN cmds' : cmds'[i].op = "configure") =>
          \E i \in DOMAIN cmds : cmds[i].op = "configure"
    BY <1>2
  <2>2. (\E i \in DOMAIN cmds : cmds[i].op = "configure") => InUse(1)
    BY DEF CallsOK, Addressee
  <2>3. slot'[1].state = "addressed" /\ InUse(1) => slot[1].state = "addressed"
    BY <1>1, <1>5 DEF Turn, InUse
  <2> QED BY <1>5, <1>6, <2>1, <2>2, <2>3 DEF CallsOK, Expected
<1>9. ASSUME NEW i \in DOMAIN cmds' PROVE Addressee(cmds[i])'
  <2>1. Addressee(cmds'[i])
    BY <1>2 DEF CallsOK
  <2> QED BY <1>5, <1>6, <2>1 DEF Addressee
<1>10. ASSUME NEW i \in DOMAIN events' PROVE Replied(events[i])'
  <2>1. CASE i \in DOMAIN events
    <3>1. Replied(events'[i])
      BY <1>4, <2>1 DEF CallsOK
    <3> QED BY <1>5, <1>6, <3>1 DEF Replied
  <2>2. CASE i = Len(events) + 1
    BY <1>1, <1>3, <1>4, <2>2 DEF Replied, Turn, InUse
  <2> QED BY <1>4, <2>1, <2>2
\* A completion for slot 1 is prepared before it is in use, and configured after.
<1>11. Prepared(e) => configuring_slot = 0 /\ \A i \in DOMAIN events : events[i] # Classified
  <2>1. Prepared(e) => ~ InUse(1)
    BY <1>1, <1>3 DEF Prepared, Turn, InUse
  <2> QED BY <2>1 DEF CallsOK, Expected, Arriving
<1>12. Configured(e) => configuring_slot = 1 /\ \A i \in DOMAIN events : ~ Configured(events[i])
  <2> SUFFICES ASSUME Configured(e)
               PROVE  configuring_slot = 1 /\ \A i \in DOMAIN events : ~ Configured(events[i])
    OBVIOUS
  <2>1. slot[1].state = "addressed" /\ cmds[1].op = "configure"
    BY <1>1, <1>2, <1>3 DEF Configured, Turn
  <2>2. configuring_slot = 1
    BY <1>2, <2>1 DEF CallsOK, Expected
  <2>3. ASSUME NEW i \in DOMAIN events, Configured(events[i]) PROVE FALSE
    BY <2>1, <2>3 DEF CallsOK, Replied, Configured
  <2> QED BY <2>2, <2>3
<1>13. Arriving'
  <2>1. \A i \in DOMAIN events' : i = Len(events) + 1 \/ (i \in DOMAIN events /\ events'[i] = events[i])
    BY <1>4
  <2>2. /\ \A i \in DOMAIN events' : Prepared(events'[i]) => configuring_slot' = 0
        /\ \A i \in DOMAIN events' : Configured(events'[i]) => configuring_slot' = 1
    BY <1>4, <1>11, <1>12, <2>1 DEF CallsOK, Arriving
  <2>3. \A i, j \in DOMAIN events' : Configured(events'[i]) /\ Configured(events'[j]) => i = j
    BY <1>4, <1>12, <2>1 DEF CallsOK, Arriving
  <2>4. \A i, j \in DOMAIN events' : events'[i] = Classified /\ Prepared(events'[j]) => j < i
    <3> SUFFICES ASSUME NEW i \in DOMAIN events', NEW j \in DOMAIN events',
                        events'[i] = Classified, Prepared(events'[j])
                 PROVE  j < i
      OBVIOUS
    <3>1. i \in DOMAIN events /\ events[i] = Classified
      BY <1>3, <1>4, <2>1
    <3>2. j \in DOMAIN events /\ Prepared(events[j])
      BY <1>4, <1>11, <2>1, <3>1
    <3> QED BY <3>1, <3>2 DEF CallsOK, Arriving
  <2>5. \A i \in DOMAIN events' : events'[i] = Classified => InUse(1)'
    BY <1>3, <1>4, <1>5, <1>6, <2>1 DEF CallsOK, Arriving
  <2> QED BY <2>2, <2>3, <2>4, <2>5 DEF Arriving
<1> QED BY <1>7, <1>8, <1>9, <1>10, <1>13 DEF CallsOK

LEMMA ServedCost ==
  ASSUME Traffic, Traffic', CallsOK, cmds # << >>, cmds' = Tail(cmds), Addressee(Head(cmds)),
         UNCHANGED <<pending_port_id, ep0Ring, sent>>,
         NEW s \in Slots, Served(s), Head(cmds).op # "enable" => s = Head(cmds).slot
  PROVE  Cheap
<1> DEFINE cmd == Head(cmds)
           e == Completion(cmd, s, 1)
<1>1. /\ \A t \in Slots : t # s => slot'[t] = slot[t]
      /\ Turn(cmd.op, slot[s].state, slot'[s].state)
      /\ slot'[s].deq = slot[s].deq /\ events' = Append(events, e)
  BY DEF Served
<1>2. cmd \in Commands /\ \A i \in DOMAIN cmds' : i + 1 \in DOMAIN cmds /\ cmds'[i] = cmds[i + 1]
  BY Taken DEF Traffic
<1>3. e \in Events /\ e.type = "command" /\ e.of = cmd.op /\ e.slot = s /\ e.code = 1 /\ e # Classified
  BY <1>2, Messages, Numbers DEF Classified
<1> HIDE DEF e
<1>4. e \in Promises <=> cmd.op # "configure"
  BY <1>3 DEF Promises, Answered
<1>5. cmd \in Worthy <=> cmd.op # "configure"
  BY <1>1, <1>2 DEF Worthy, Turn
<1>6. cmds \in Seq(Commands) /\ cmds' \in Seq(Commands) /\ events \in Seq(Events)
  BY DEF Traffic
<1>7. Number(events', Promises) = Number(events, Promises) + IF e \in Promises THEN 1 ELSE 0
  BY <1>1, <1>3, <1>6, NumberPut
<1>8. Number(cmds, Worthy) = Number(cmds', Worthy) + IF cmd \in Worthy THEN 1 ELSE 0
  BY <1>6, NumberTaken
<1>9. Number(cmds', Worthy') <= Number(cmds', Worthy)
  <2>1. ASSUME NEW i \in DOMAIN cmds', cmds'[i] \in Worthy' PROVE cmds'[i] \in Worthy
    <3>1. Addressee(cmds'[i])
      BY <1>2 DEF CallsOK
    <3> QED BY <1>1, <2>1, <3>1 DEF Worthy, Addressee, Turn
  <2> QED BY <1>6, <2>1, NumberFewer
<1>10. Promises' = Promises /\ Ahead' = Ahead /\ Waiting' = Waiting
  <2>1. slot'[1].deq = slot[1].deq
    BY <1>1, Numbers
  <2> QED BY <2>1 DEF Promises, Answered, Ahead, Waiting
<1>11. Arrived' = Arrived + (IF cmd.op # "configure" THEN 1 ELSE 0) /\ InRing' = InRing
  BY <1>4, <1>7, <1>10 DEF Arrived, InRing
<1>12. PICK n \in Nat : /\ n = InQueue'
                        /\ cmd.op # "configure" => n + 1 <= InQueue
                        /\ cmd.op = "configure" => n <= InQueue
  <2>1. PICK k \in Nat : k = Number(cmds', Worthy)
    BY <1>6, HitsFinite
  <2>2. PICK n \in Nat : n = Number(cmds', Worthy')
    BY <1>6, HitsFinite
  <2>3. n <= k /\ InQueue = k + IF cmd.op # "configure" THEN 1 ELSE 0
    BY <1>5, <1>8, <1>9, <2>1, <2>2 DEF InQueue
  <2>4. n = InQueue'
    BY <2>2 DEF InQueue
  <2>5. CASE cmd.op # "configure"
    <3>1. InQueue = k + 1
      BY <2>3, <2>5
    <3> QED BY <2>1, <2>2, <2>3, <2>4, <2>5, <3>1
  <2>6. CASE cmd.op = "configure"
    <3>1. InQueue = k
      BY <2>1, <2>3, <2>6
    <3> QED BY <2>1, <2>2, <2>3, <2>4, <2>6, <3>1
  <2> QED BY <2>5, <2>6
<1>13. Asked' = Waiting + n + (Arrived + (IF cmd.op # "configure" THEN 1 ELSE 0)) + InRing
  BY <1>10, <1>11, <1>12 DEF Asked
<1>14. Waiting \in {0, 1} /\ InQueue \in Nat /\ Arrived \in Nat /\ InRing \in Nat /\ sent \in Nat
  BY AskedCounts DEF Traffic
<1>15. Waiting + n + (Arrived + (IF cmd.op # "configure" THEN 1 ELSE 0)) + InRing <= Asked
  <2>1. Asked = Waiting + InQueue + Arrived + InRing
    BY DEF Asked
  <2>2. CASE cmd.op # "configure"
    <3>1. n + 1 <= InQueue
      BY <1>12, <2>2
    <3> QED BY <1>14, <2>1, <2>2, <3>1
  <2>3. CASE cmd.op = "configure"
    <3>1. n <= InQueue
      BY <1>12, <1>14, <2>3
    <3> QED BY <1>14, <2>1, <2>3, <3>1
  <2> QED BY <2>2, <2>3
<1>16. Asked \in Nat /\ sent' = sent
  BY AskedCounts
<1> QED BY <1>13, <1>14, <1>15, <1>16 DEF Cheap

\* The account of a step, term by term.
LEMMA CheapSum ==
  ASSUME Traffic, NEW k \in Nat, NEW w \in Nat, NEW q \in Nat, NEW a \in Nat, NEW r \in Nat,
         sent' = sent + k, Waiting' = w, InQueue' = q, Arrived' = a, InRing' = r,
         k + w + q + a + r <= Waiting + InQueue + Arrived + InRing
  PROVE  Cheap
<1>1. Waiting \in {0, 1} /\ InQueue \in Nat /\ Arrived \in Nat /\ InRing \in Nat /\ sent \in Nat
  BY AskedCounts DEF Traffic
<1>2. Asked = Waiting + InQueue + Arrived + InRing /\ Asked' = w + q + a + r
  BY DEF Asked
<1>3. sent + k + (w + q + a + r) <= sent + Asked
  BY <1>1, <1>2
<1> QED BY <1>2, <1>3 DEF Cheap

LEMMA RefusedIsGood ==
  ASSUME Traffic, CallsOK, cmds # << >>, cmds' = Tail(cmds), Refused,
         UNCHANGED <<bells, carried, plugs, inputCtx, ep0Ring, buffer, sent,
                     pending_port_id, configuring_slot, ep0, halted>>
  PROVE  Good
<1> DEFINE cmd == Head(cmds)
<1>1. PICK code \in {4, 5} : events' = Append(events, Completion(cmd, cmd.slot, code))
  BY DEF Refused
<1> DEFINE e == Completion(cmd, cmd.slot, code)
<1>2. cmds \in Seq(Commands) /\ events \in Seq(Events) /\ slot' = slot
  BY DEF Traffic, Refused
<1>3. cmd \in Commands /\ cmds' \in Seq(Commands)
  BY <1>2, Taken
<1>4. cmd.slot \in Slots \cup {0}
  BY <1>3, CommandFields
<1>5. e \in Events /\ ~ Answered(e) /\ e # Classified
  <2>1. code \in {1, 4, 5}
    OBVIOUS
  <2>2. e \in Events /\ e.type = "command" /\ e.code = code
    BY <1>3, <1>4, <2>1, Messages
  <2> HIDE DEF e
  <2> QED BY <2>2, Messages, Numbers DEF Answered, Classified
<1> HIDE DEF e
<1>6. events' = Append(events, e)
  BY <1>1 DEF e
<1>7. events' \in Seq(Events)
  BY <1>2, <1>5, <1>6, Put
<1>8. Traffic'
  BY <1>2, <1>3, <1>7 DEF Traffic
<1>9. CallsOK'
  <2>1. Follows(cmds', cmds, {x \in Commands : Addressee(x) /\ x.op # "configure"})
    BY <1>2, TakenFollows
  <2>2. Follows(events', events, {x \in Events : ~ Answered(x) /\ (x = Classified => InUse(1))})
    <3>1. e \in {x \in Events : ~ Answered(x) /\ (x = Classified => InUse(1))}
      BY <1>5
    <3> QED BY <1>2, <1>5, <1>6, <3>1, PutFollows
  <2>3. Filled' /\ configuring_slot' = configuring_slot /\ \A s \in Slots : slot'[s].state = slot[s].state
    BY <1>2 DEF CallsOK, Filled
  <2> QED BY <1>8, <2>1, <2>2, <2>3, QuietCalls
<1>10. Arrived' = Arrived
  <2>1. e \notin Promises
    BY <1>5 DEF Promises
  <2>2. Number(events', Promises) = Number(events, Promises) + 0
    BY <1>2, <1>5, <1>6, <2>1, NumberPut
  <2>3. Number(events, Promises) \in Nat /\ Promises' = Promises
    BY <1>2, HitsFinite DEF Promises, Answered
  <2> QED BY <2>2, <2>3 DEF Arrived
<1>11. PICK q \in Nat : InQueue' = q /\ q <= InQueue
  <2>1. PICK q \in Nat : q = Number(cmds', Worthy)
    BY <1>3, HitsFinite
  <2>2. InQueue = q + IF cmd \in Worthy THEN 1 ELSE 0
    BY <1>2, <2>1, NumberTaken DEF InQueue
  <2>3. InQueue' = q
    BY <1>2, <2>1 DEF InQueue, Worthy
  <2>4. q <= InQueue
    BY <2>2
  <2> QED BY <2>3, <2>4
<1>12. Waiting' = Waiting /\ InRing' = InRing /\ sent' = sent + 0
  BY <1>2 DEF Waiting, InRing, Ahead, Traffic
<1>13. Waiting \in Nat /\ InQueue \in Nat /\ Arrived \in Nat /\ InRing \in Nat
  BY AskedCounts
<1>14. 0 + Waiting + q + Arrived + InRing <= Waiting + InQueue + Arrived + InRing
  BY <1>11, <1>13
<1>15. Cheap
  BY <1>10, <1>11, <1>12, <1>13, <1>14, CheapSum
<1> QED BY <1>8, <1>9, <1>15 DEF Good

LEMMA ExecuteIsGood ==
  ASSUME Traffic, CallsOK, Execute
  PROVE  Good
<1>1. /\ cmds # << >> /\ cmds' = Tail(cmds) /\ Head(cmds) \in Commands
      /\ 1 \in DOMAIN cmds /\ cmds[1] = Head(cmds) /\ Addressee(Head(cmds))
      /\ UNCHANGED <<bells, carried, plugs, inputCtx, ep0Ring, buffer, sent,
                     pending_port_id, configuring_slot, ep0, halted>>
      /\ \/ Refused
         \/ \E s \in Slots : Served(s) /\ (Head(cmds).op # "enable" => s = Head(cmds).slot)
  BY Executed
<1>2. CASE Refused
  BY <1>1, <1>2, RefusedIsGood
<1>3. ASSUME NEW s \in Slots, Served(s), Head(cmds).op # "enable" => s = Head(cmds).slot
      PROVE  Good
  <2>1. cmds' \in Seq(Commands)
    BY <1>1, Taken DEF Traffic
  <2>2. events' \in Seq(Events)
    <3>1. Completion(Head(cmds), s, 1) \in Events
      BY <1>1, Messages
    <3> QED BY <1>3, <3>1, Put DEF Served, Traffic
  <2>3. slot' \in [Slots -> Contexts]
    BY <1>3 DEF Served
  <2>4. Traffic'
    BY <1>1, <2>1, <2>2, <2>3 DEF Traffic
  <2>5. CallsOK'
    BY <1>1, <1>3, <2>4, ServedCalls
  <2>6. Cheap
    BY <1>1, <1>3, <2>4, ServedCost
  <2> QED BY <2>4, <2>5, <2>6 DEF Good
<1> QED BY <1>1, <1>2, <1>3

--------------------------------------------------------------------------------
\* The controller serves a doorbell.

\* An event of a transfer is put, or none, and the slots keep their states.
LEMMA ServeCalls ==
  ASSUME Traffic, Traffic', CallsOK, cmds' = cmds, configuring_slot' = configuring_slot,
         \A s \in Slots : slot'[s].state = slot[s].state, Filled',
         \/ events' = events
         \/ \E s \in Slots, ep \in {1, 3, 4} :
              events' = Append(events, Transfer(s, ep)) /\ (s = 1 /\ ep = 1 => InUse(1))
  PROVE  CallsOK'
<1>1. cmds \in Seq(Commands) /\ events \in Seq(Events)
  BY DEF Traffic
<1>2. Follows(cmds', cmds, {x \in Commands : Addressee(x) /\ x.op # "configure"})
  BY <1>1, SameFollows
<1>3. Follows(events', events, {x \in Events : ~ Answered(x) /\ (x = Classified => InUse(1))})
  <2>1. CASE events' = events
    BY <1>1, <2>1, SameFollows
  <2>2. ASSUME NEW s \in Slots, NEW ep \in {1, 3, 4}, events' = Append(events, Transfer(s, ep)),
               s = 1 /\ ep = 1 => InUse(1)
        PROVE  Follows(events', events, {x \in Events : ~ Answered(x) /\ (x = Classified => InUse(1))})
    <3> DEFINE e == Transfer(s, ep)
    <3>1. e \in Events /\ e.type = "transfer" /\ e.slot = s /\ e.ep = ep
      BY Messages
    <3>2. Classified.slot = 1 /\ Classified.ep = 1
      BY DEF Classified, Transfer
    <3> HIDE DEF e
    <3>3. ~ Answered(e) /\ (e = Classified => InUse(1))
      BY <2>2, <3>1, <3>2 DEF Answered
    <3>4. events' = Append(events, e)
      BY <2>2 DEF e
    <3>5. e \in {x \in Events : ~ Answered(x) /\ (x = Classified => InUse(1))}
      BY <3>1, <3>3
    <3> QED BY <1>1, <3>1, <3>4, <3>5, PutFollows
  <2> QED BY <2>1, <2>2
<1> QED BY <1>2, <1>3, QuietCalls

\* Any other transfer event promises nothing.
LEMMA OtherTransfers ==
  ASSUME Traffic, NEW s \in Slots, NEW ep \in {1, 3, 4}, ~ (s = 1 /\ ep = 1),
         events' = Append(events, Transfer(s, ep))
  PROVE  Arrived' = Arrived
<1> DEFINE e == Transfer(s, ep)
<1>1. e \in Events /\ e.type = "transfer" /\ e.slot = s /\ e.ep = ep
  BY Messages
<1>2. Classified.slot = 1 /\ Classified.ep = 1
  BY DEF Classified, Transfer
<1> HIDE DEF e
<1>3. e \notin Promises
  BY <1>1, <1>2 DEF Promises, Answered
<1>4. events' = Append(events, e) /\ events \in Seq(Events)
  BY DEF e, Traffic
<1>5. Number(events', Promises) = Number(events, Promises) + 0
  BY <1>1, <1>3, <1>4, NumberPut
<1>6. Number(events, Promises) \in Nat /\ Promises' = Promises
  BY <1>4, HitsFinite DEF Promises, Answered
<1> QED BY <1>5, <1>6 DEF Arrived

LEMMA BulkIsGood ==
  ASSUME Traffic, CallsOK, NEW s \in Slots, BulkOut(s) \/ BulkIn(s)
  PROVE  Good
<1>1. /\ UNCHANGED <<slot, plugs, soft, cmds, inputCtx, ep0Ring, buffer, sent>>
      /\ bells' \subseteq Slots \X {1, 3, 4} /\ carried' \subseteq Slots
      /\ events' = events \/ \E ep \in {3, 4} : events' = Append(events, Transfer(s, ep))
  BY DEF BulkOut, BulkIn, Traffic
<1>2. events' = events \/ \E ep \in {1, 3, 4} : events' = Append(events, Transfer(s, ep)) /\ ep # 1
  BY <1>1
<1>3. events' \in Seq(Events)
  <2>1. events \in Seq(Events)
    BY DEF Traffic
  <2>2. ASSUME NEW ep \in {1, 3, 4}, events' = Append(events, Transfer(s, ep)) PROVE events' \in Seq(Events)
    <3>1. Transfer(s, ep) \in Events
      BY Messages
    <3> QED BY <2>1, <2>2, <3>1, Put
  <2> QED BY <1>2, <2>1, <2>2
<1>4. Traffic'
  BY <1>1, <1>3 DEF Traffic, soft
<1>5. CallsOK'
  <2>1. cmds' = cmds /\ configuring_slot' = configuring_slot /\ slot' = slot /\ Filled'
    BY <1>1 DEF soft, CallsOK, Filled
  <2>2. \/ events' = events
        \/ \E t \in Slots, ep \in {1, 3, 4} :
             events' = Append(events, Transfer(t, ep)) /\ (t = 1 /\ ep = 1 => InUse(1))
    BY <1>2
  <2> QED BY <1>4, <2>1, <2>2, ServeCalls
<1>6. Arrived' = Arrived
  <2>1. CASE events' = events
    BY <2>1 DEF Arrived, Promises, Answered
  <2>2. ASSUME NEW ep \in {1, 3, 4}, ep # 1, events' = Append(events, Transfer(s, ep)) PROVE Arrived' = Arrived
    BY <2>2, OtherTransfers
  <2> QED BY <1>2, <2>1, <2>2
<1>7. Waiting' = Waiting /\ InQueue' = InQueue /\ InRing' = InRing /\ sent' = sent + 0
  BY <1>1 DEF soft, Waiting, InQueue, Worthy, InRing, Ahead, Traffic
<1>8. Waiting \in Nat /\ InQueue \in Nat /\ Arrived \in Nat /\ InRing \in Nat
  BY AskedCounts
<1>9. Cheap
  BY <1>6, <1>7, <1>8, CheapSum
<1> QED BY <1>4, <1>5, <1>9 DEF Good

\* What a control endpoint does.
Fresh(s) == Answers(s) /\ slot[s].deq \in Cells /\ ep0Ring[slot[s].deq].cycle
Fetched(s) ==
  /\ slot' = [slot EXCEPT ![s].deq = @ + 1]
  /\ buffer' = IF ep0Ring[slot[s].deq].stage = "data" THEN slot[s].port ELSE buffer
  /\ events' = IF ep0Ring[slot[s].deq].stage = "status" THEN Append(events, Transfer(s, 1)) ELSE events
  /\ bells' = bells

LEMMA ControlSteps ==
  ASSUME NEW s \in Slots, Control(s)
  PROVE  /\ UNCHANGED <<port, carried, plugs, soft, cmds, inputCtx, ep0Ring, sent>>
         /\ <<s, 1>> \in bells
         /\ Fresh(s) => Fetched(s)
         /\ ~ Fresh(s) => /\ slot' = slot /\ buffer' = buffer /\ events' = events
                          /\ bells' = bells \ {<<s, 1>>}
<1>1. ~ Zeroed.cycle
  BY DEF Zeroed
<1>2. CASE slot[s].deq \in Cells
  BY <1>2 DEF Control, Fresh, Fetched
<1>3. CASE slot[s].deq \notin Cells
  BY <1>1, <1>3 DEF Control, Fresh
<1> QED BY <1>2, <1>3

LEMMA FetchedContexts ==
  ASSUME Traffic, NEW s \in Slots, Fresh(s), Fetched(s)
  PROVE  /\ slot' \in [Slots -> Contexts] /\ slot[s].deq \in Nat
         /\ slot'[s].deq = slot[s].deq + 1
         /\ \A t \in Slots : slot'[t].state = slot[t].state /\ slot'[t].port = slot[t].port
         /\ \A t \in Slots : t # s => slot'[t].deq = slot[t].deq
<1>1. slot[s].deq \in Cells /\ slot[s].deq \in Nat /\ slot[s].deq + 1 \in 0 .. EP0_SIZE
  BY Numbers DEF Fresh, Cells
<1>2. slot \in [Slots -> Contexts] /\ slot' = [slot EXCEPT ![s].deq = slot[s].deq + 1]
  BY DEF Traffic, Fetched
<1> QED BY <1>1, <1>2 DEF Contexts

\* A status TRB that slot 1's endpoint takes becomes the event it promised.
LEMMA FetchedCost ==
  ASSUME Traffic, NEW s \in Slots, Fresh(s), Fetched(s),
         UNCHANGED <<cmds, ep0Ring, pending_port_id, sent>>
  PROVE  Cheap
<1> DEFINE d == slot[s].deq
           e == Transfer(s, 1)
<1>1. /\ slot'[s].deq = d + 1 /\ d \in Cells /\ d \in Nat /\ ep0Ring[d].cycle
      /\ \A t \in Slots : slot'[t].state = slot[t].state
      /\ \A t \in Slots : t # s => slot'[t].deq = slot[t].deq
  BY FetchedContexts, Numbers DEF Fresh
<1>2. events' = IF ep0Ring[d].stage = "status" THEN Append(events, e) ELSE events
  BY DEF Fetched
<1>3. Waiting' = Waiting /\ sent' = sent + 0
  BY DEF Waiting, Traffic
<1>4. InQueue' = InQueue
  <2>2. Worthy' = Worthy
    BY <1>1 DEF Worthy
  <2> QED BY <2>2 DEF InQueue
<1>5. Waiting \in Nat /\ InQueue \in Nat /\ Arrived \in Nat /\ InRing \in Nat /\ events \in Seq(Events)
  BY AskedCounts DEF Traffic
<1>6. CASE s # 1
  <2>1. Arrived' = Arrived
    <3>1. CASE events' = events
      BY <3>1 DEF Arrived, Promises, Answered
    <3>2. CASE events' = Append(events, Transfer(s, 1))
      <4>1. 1 \in {1, 3, 4}
        OBVIOUS
      <4> QED BY <1>6, <3>2, <4>1, OtherTransfers
    <3> QED BY <1>2, <3>1, <3>2
  <2>2. InRing' = InRing
    <3>1. slot'[1].deq = slot[1].deq
      BY <1>1, <1>6, Numbers
    <3> QED BY <3>1 DEF InRing, Ahead
  <2> QED BY <1>3, <1>4, <1>5, <2>1, <2>2, CheapSum
<1>7. CASE s = 1
  <2>1. Ahead' \subseteq Ahead \ {d}
    <3> SUFFICES ASSUME NEW c \in Cells, c >= d + 1, ep0Ring[c].stage = "status", ep0Ring[c].cycle
                 PROVE  c >= d /\ c # d
      BY <1>1, <1>7 DEF Ahead
    <3> QED BY <1>1, Numbers
  <2>2. IsFiniteSet(Ahead) /\ Ahead \subseteq Cells /\ Ahead' \subseteq Cells
    <3>1. Ahead \subseteq Cells
      BY DEF Ahead
    <3> QED BY <2>1, <3>1, CellSets
  <2>3. PICK r \in Nat : r = InRing'
    BY <2>2, CellSets DEF InRing
  <2>4. r <= InRing
    BY <2>1, <2>2, <2>3, Fewer DEF InRing
  <2>5. CASE ep0Ring[d].stage = "status"
    <3>1. d \in Ahead
      BY <1>1, <1>7, <2>5 DEF Ahead
    <3>2. r + 1 <= InRing
      BY <2>1, <2>2, <2>3, <3>1, OneFewer DEF InRing
    <3>3. Arrived' = Arrived + 1
      <4>1. e \in Events /\ e \in Promises
        BY <1>7, Messages, Numbers DEF Promises, Classified
      <4>2. Number(events', Promises) = Number(events, Promises) + 1
        BY <1>2, <1>5, <2>5, <4>1, NumberPut
      <4>3. Promises' = Promises
        BY DEF Promises, Answered
      <4> QED BY <4>2, <4>3 DEF Arrived
    <3>4. Arrived + 1 \in Nat /\ 0 + Waiting + InQueue + (Arrived + 1) + r <= Waiting + InQueue + Arrived + InRing
      BY <1>5, <3>2
    <3> QED BY <1>3, <1>4, <1>5, <2>3, <3>3, <3>4, CheapSum
  <2>6. CASE ep0Ring[d].stage # "status"
    <3>1. Arrived' = Arrived
      BY <1>2, <2>6 DEF Arrived, Promises, Answered
    <3>2. 0 + Waiting + InQueue + Arrived + r <= Waiting + InQueue + Arrived + InRing
      BY <1>5, <2>4
    <3> QED BY <1>3, <1>4, <1>5, <2>3, <3>1, <3>2, CheapSum
  <2> QED BY <2>5, <2>6
<1> QED BY <1>6, <1>7

LEMMA ControlIsGood ==
  ASSUME Traffic, CallsOK, NEW s \in Slots, Control(s)
  PROVE  Good
<1>1. /\ UNCHANGED <<port, carried, plugs, soft, cmds, inputCtx, ep0Ring, sent>>
      /\ Fresh(s) => Fetched(s)
      /\ ~ Fresh(s) => /\ slot' = slot /\ buffer' = buffer /\ events' = events
                       /\ bells' = bells \ {<<s, 1>>}
  BY ControlSteps
<1>2. CASE Fresh(s)
  <2>1. /\ slot' \in [Slots -> Contexts]
        /\ \A t \in Slots : slot'[t].state = slot[t].state
        /\ \A t \in Slots : t # s => slot'[t].deq = slot[t].deq
    BY <1>1, <1>2, FetchedContexts
  <2>2. buffer' \in 0 .. CBW
    <3>1. slot[s].port \in 0 .. CBW
      BY Numbers DEF Traffic, Contexts
    <3> QED BY <1>1, <1>2, <3>1 DEF Fetched, Traffic
  <2>3. events' = events \/ events' = Append(events, Transfer(s, 1))
    BY <1>1, <1>2 DEF Fetched
  <2>4. events' \in Seq(Events)
    <3>1. Transfer(s, 1) \in Events
      BY Messages
    <3>2. events \in Seq(Events)
      BY DEF Traffic
    <3> QED BY <2>3, <3>1, <3>2, Put
  <2>5. Traffic'
    BY <1>1, <1>2, <2>1, <2>2, <2>4 DEF Traffic, Fetched, soft
  <2>6. InUse(s)
    BY <1>2 DEF Fresh, Answers, InUse
  <2>7. Filled'
    <3>1. slot[s].state \notin {"disabled", "enabled"}
      BY <2>6 DEF InUse
    <3> QED BY <2>1, <3>1 DEF Filled, CallsOK
  <2>8. CallsOK'
    <3>1. \/ events' = events
          \/ \E t \in Slots, ep \in {1, 3, 4} :
               events' = Append(events, Transfer(t, ep)) /\ (t = 1 /\ ep = 1 => InUse(1))
      BY <2>3, <2>6
    <3>2. cmds' = cmds /\ configuring_slot' = configuring_slot
      BY <1>1 DEF soft
    <3> QED BY <2>1, <2>5, <2>7, <3>1, <3>2, ServeCalls
  <2>9. Cheap
    BY <1>1, <1>2, FetchedCost DEF soft
  <2> QED BY <2>5, <2>8, <2>9 DEF Good
<1>3. CASE ~ Fresh(s)
  <2>1. /\ slot' = slot /\ buffer' = buffer /\ events' = events /\ bells' \subseteq bells
        /\ cmds' = cmds /\ configuring_slot' = configuring_slot
    BY <1>1, <1>3 DEF soft
  <2>2. Traffic'
    BY <1>1, <2>1 DEF Traffic, soft
  <2>3. CallsOK'
    <3>1. Filled'
      BY <2>1 DEF CallsOK, Filled
    <3> QED BY <2>1, <2>2, <3>1, ServeCalls
  <2>4. Waiting' = Waiting /\ InQueue' = InQueue /\ Arrived' = Arrived /\ InRing' = InRing /\ sent' = sent + 0
    BY <1>1, <2>1 DEF soft, Waiting, InQueue, Worthy, Arrived, Promises, Answered, InRing, Ahead, Traffic
  <2>5. Waiting \in Nat /\ InQueue \in Nat /\ Arrived \in Nat /\ InRing \in Nat
    BY AskedCounts
  <2>6. Cheap
    BY <2>4, <2>5, CheapSum
  <2> QED BY <2>2, <2>3, <2>6 DEF Good
<1> QED BY <1>2, <1>3

--------------------------------------------------------------------------------
\* The driver takes an event.

LEMMA TakeEvent ==
  ASSUME Traffic, CallsOK, events # << >>, events' = Tail(events)
  PROVE  /\ Head(events) \in Events /\ Replied(Head(events))
         /\ 1 \in DOMAIN events /\ events[1] = Head(events)
         /\ events' \in Seq(Events)
         /\ DOMAIN events' \subseteq Nat
         /\ \A i \in DOMAIN events' : i + 1 \in DOMAIN events /\ events'[i] = events[i + 1] /\ i > 0
         /\ \E a \in Nat : /\ Arrived' = a
                           /\ Head(events) \in Promises => Arrived = a + 1
                           /\ Head(events) \notin Promises => Arrived = a
<1>1. events \in Seq(Events)
  BY DEF Traffic
<1>2. /\ Head(events) \in Events /\ 1 \in DOMAIN events /\ events[1] = Head(events)
      /\ events' \in Seq(Events) /\ Len(events) \in Nat /\ DOMAIN events' = 1 .. Len(events) - 1
      /\ \A i \in DOMAIN events' : i + 1 \in DOMAIN events /\ events'[i] = events[i + 1]
  BY <1>1, Taken
<1>3. Replied(Head(events))
  BY <1>2 DEF CallsOK
<1>4. DOMAIN events' \subseteq Nat /\ \A i \in DOMAIN events' : i > 0
  BY <1>2
<1>5. PICK n \in Nat : n = Number(events', Promises)
  BY <1>2, HitsFinite
<1>6. Number(events, Promises) = n + IF Head(events) \in Promises THEN 1 ELSE 0
  BY <1>1, <1>5, NumberTaken
<1>7. Arrived' = n
  BY <1>5 DEF Arrived, Promises, Answered
<1>8. /\ Head(events) \in Promises => Arrived = n + 1
      /\ Head(events) \notin Promises => Arrived = n
  BY <1>5, <1>6 DEF Arrived
<1> QED BY <1>2, <1>3, <1>4, <1>7, <1>8

\* An event is taken and nothing is done about the others.
LEMMA TakeCalls ==
  ASSUME Traffic, Traffic', CallsOK, events # << >>, events' = Tail(events),
         slot' = slot, configuring_slot' = configuring_slot,
         \/ cmds' = cmds
         \/ \E c \in Commands : cmds' = Append(cmds, c) /\ Addressee(c) /\ c.op # "configure"
  PROVE  CallsOK'
<1>1. cmds \in Seq(Commands) /\ events \in Seq(Events)
  BY DEF Traffic
<1>2. Follows(cmds', cmds, {x \in Commands : Addressee(x) /\ x.op # "configure"})
  <2>1. CASE cmds' = cmds
    BY <1>1, <2>1, SameFollows
  <2>2. ASSUME NEW c \in Commands, cmds' = Append(cmds, c), Addressee(c), c.op # "configure"
        PROVE  Follows(cmds', cmds, {x \in Commands : Addressee(x) /\ x.op # "configure"})
    <3>1. c \in {x \in Commands : Addressee(x) /\ x.op # "configure"}
      BY <2>2
    <3> QED BY <1>1, <2>2, <3>1, PutFollows
  <2> QED BY <2>1, <2>2
<1>3. Follows(events', events, {x \in Events : ~ Answered(x) /\ (x = Classified => InUse(1))})
  BY <1>1, TakenFollows
<1>4. Filled' /\ \A s \in Slots : slot'[s].state = slot[s].state
  BY DEF CallsOK, Filled
<1> QED BY <1>2, <1>3, <1>4, QuietCalls

\* A completion while a port is pending: its device is addressed.
Address(s) ==
  /\ pending_port_id' = 0 /\ address_device(s, pending_port_id)
  /\ UNCHANGED <<configuring_slot, halted, slot, carried, plugs>>

LEMMA AddressIsGood ==
  ASSUME Traffic, CallsOK, events # << >>, events' = Tail(events), Answered(Head(events)),
         pending_port_id > 0, Address(Head(events).slot)
  PROVE  Good
<1> DEFINE e == Head(events)
           s == e.slot
           c == Command("address", s)
<1>1. e \in Events /\ Replied(e) /\ events' \in Seq(Events)
  BY TakeEvent
<1>12. PICK a \in Nat : /\ Arrived' = a
                        /\ e \in Promises => Arrived = a + 1
                        /\ e \notin Promises => Arrived = a
  BY TakeEvent
<1>2. /\ s \in Slots /\ slot[s].state # "disabled"
      /\ e.of = "address" => InUse(s)
      /\ e.of = "configure" => s = 1 /\ slot[1].state = "configured"
  BY <1>1 DEF Replied
<1>3. /\ pending_port_id' = 0 /\ cmds' = Append(cmds, c) /\ sent' = sent + 1
      /\ ep0Ring' = [i \in Cells |-> Zeroed]
      /\ inputCtx' = [op |-> "address", port |-> pending_port_id]
      /\ UNCHANGED <<bells, buffer, ep0, configuring_slot, halted, slot, carried, plugs>>
  BY DEF Address, address_device, send_command
<1>4. c \in Commands /\ c.op = "address" /\ c.slot = s
  BY <1>2, CommandFields
<1> HIDE DEF c, e
<1>5. cmds \in Seq(Commands) /\ cmds' \in Seq(Commands)
  BY <1>3, <1>4, Put DEF Traffic
<1>6. Traffic'
  <2>1. inputCtx' \in Inputs /\ ep0Ring' \in [Cells -> TRBs]
    BY <1>3 DEF Inputs, TRBs, Zeroed, Traffic
  <2>2. pending_port_id' \in Ports \cup {0} /\ sent' \in Nat
    BY <1>3 DEF Traffic
  <2> QED BY <1>1, <1>3, <1>5, <2>1, <2>2 DEF Traffic
<1>7. CallsOK'
  <2>1. Addressee(c) /\ c.op # "configure"
    BY <1>2, <1>4 DEF Addressee
  <2> QED BY <1>3, <1>4, <1>6, <2>1, TakeCalls
<1>8. InRing' = 0
  <2>1. Ahead' = {}
    BY <1>3 DEF Ahead, Zeroed
  <2> QED BY <2>1, FS_EmptySet DEF InRing
<1>9. Waiting' = 0 /\ Waiting = 1
  BY <1>3 DEF Waiting
<1>10. InQueue' = InQueue + IF c \in Worthy THEN 1 ELSE 0
  <2>1. Number(cmds', Worthy) = Number(cmds, Worthy) + IF c \in Worthy THEN 1 ELSE 0
    BY <1>3, <1>4, <1>5, NumberPut
  <2>2. Worthy' = Worthy
    BY <1>3 DEF Worthy
  <2> QED BY <2>1, <2>2 DEF InQueue
<1>11. c \in Worthy => e \in Promises
  <2> SUFFICES ASSUME c \in Worthy PROVE e \in Promises
    OBVIOUS
  <2>1. slot[s].state = "enabled"
    BY <1>4 DEF Worthy
  <2>2. e.of # "configure"
    BY <1>2, <2>1
  <2> QED BY <1>1, <2>2 DEF Promises, e
<1>13. InQueue \in Nat /\ InRing \in Nat /\ Waiting = 1
  BY <1>9, AskedCounts
<1>14. CASE c \in Worthy
  <2>1. Arrived = a + 1 /\ InQueue' = InQueue + 1
    BY <1>10, <1>11, <1>12, <1>14
  <2>2. 1 + 0 + (InQueue + 1) + a + 0 <= Waiting + InQueue + Arrived + InRing
    BY <1>13, <2>1
  <2>3. Cheap
    BY <1>3, <1>8, <1>9, <1>12, <1>13, <2>1, <2>2, CheapSum
  <2> QED BY <1>6, <1>7, <2>3 DEF Good
<1>15. CASE c \notin Worthy
  <2>1. a <= Arrived /\ Arrived \in Nat
    <3>1. Arrived = a + 1 \/ Arrived = a
      BY <1>12
    <3> QED BY <3>1
  <2>2. InQueue' = InQueue
    BY <1>10, <1>13, <1>15
  <2>3. 1 + 0 + InQueue + a + 0 <= Waiting + InQueue + Arrived + InRing
    BY <1>13, <2>1
  <2>4. Cheap
    BY <1>3, <1>8, <1>9, <1>12, <1>13, <2>2, <2>3, CheapSum
  <2> QED BY <1>6, <1>7, <2>4 DEF Good
<1> QED BY <1>14, <1>15

\* The completion of the configuration: the block is read.
Read(s) ==
  /\ configuring_slot = s /\ configuring_slot' = 0 /\ send_scsi_read(s)
  /\ UNCHANGED <<pending_port_id, halted, slot, carried, plugs>>

LEMMA ReadIsGood ==
  ASSUME Traffic, CallsOK, events # << >>, events' = Tail(events), Answered(Head(events)),
         Read(Head(events).slot)
  PROVE  Good
<1> DEFINE e == Head(events)
           s == e.slot
<1>1. /\ e \in Events /\ Replied(e) /\ events' \in Seq(Events)
      /\ 1 \in DOMAIN events /\ events[1] = e
      /\ DOMAIN events' \subseteq Nat
      /\ \A i \in DOMAIN events' : i + 1 \in DOMAIN events /\ events'[i] = events[i + 1] /\ i > 0
  BY TakeEvent
<1>2. s \in Slots /\ s = configuring_slot /\ configuring_slot = 1
  <2>1. s \in Slots /\ s = configuring_slot
    BY <1>1 DEF Replied, Read
  <2> QED BY <2>1, Numbers DEF CallsOK, Expected
<1>3. /\ configuring_slot' = 0 /\ buffer' = CBW /\ bells' = bells \cup {<<s, 4>>, <<s, 3>>}
      /\ UNCHANGED <<ep0Ring, ep0, inputCtx, cmds, sent, pending_port_id, halted, slot, carried, plugs>>
  BY DEF Read, send_scsi_read
<1> HIDE DEF e
<1>4. Configured(e) /\ slot[1].state = "configured"
  <2>1. ~ Prepared(e)
    BY <1>1, <1>2 DEF CallsOK, Arriving
  <2>2. e.of = "configure"
    BY <1>2, <2>1 DEF Prepared, e
  <2> QED BY <1>1, <2>2 DEF Configured, Replied, e
<1>5. Traffic'
  <2>1. buffer' \in 0 .. CBW /\ configuring_slot' \in Slots \cup {0}
    BY <1>3, Numbers
  <2>2. bells' \subseteq Slots \X {1, 3, 4}
    BY <1>2, <1>3 DEF Traffic
  <2> QED BY <1>1, <1>3, <2>1, <2>2 DEF Traffic
<1>6. CallsOK'
  <2>1. Filled' /\ Expected'
    BY <1>3, <1>4 DEF CallsOK, Filled, Expected
  <2>2. \A i \in DOMAIN cmds' : Addressee(cmds[i])'
    BY <1>3 DEF CallsOK, Addressee, InUse
  <2>3. ASSUME NEW i \in DOMAIN events' PROVE Replied(events[i])'
    <3>1. Replied(events'[i])
      BY <1>1 DEF CallsOK
    <3> QED BY <1>3, <3>1 DEF Replied, InUse
  <2>4. \A i \in DOMAIN events' : ~ Configured(events'[i])
    <3> SUFFICES ASSUME NEW i \in DOMAIN events', Configured(events'[i]) PROVE FALSE
      OBVIOUS
    <3>1. i + 1 = 1 /\ i \in Nat /\ i > 0
      BY <1>1, <1>4 DEF CallsOK, Arriving
    <3> QED BY <3>1
  <2>5. \A i, j \in DOMAIN events' : events'[i] = Classified /\ Prepared(events'[j]) => j < i
    <3> SUFFICES ASSUME NEW i \in DOMAIN events', NEW j \in DOMAIN events',
                        events'[i] = Classified, Prepared(events'[j])
                 PROVE  j < i
      OBVIOUS
    <3>1. j + 1 < i + 1 /\ i \in Nat /\ j \in Nat
      BY <1>1 DEF CallsOK, Arriving
    <3> QED BY <3>1
  <2>6. \A i \in DOMAIN events' : events'[i] = Classified => InUse(1)'
    BY <1>1, <1>3 DEF CallsOK, Arriving, InUse
  <2>7. Arriving'
    BY <1>3, <2>4, <2>5, <2>6 DEF Arriving
  <2> QED BY <2>1, <2>2, <2>3, <2>7 DEF CallsOK
<1>7. Waiting' = Waiting /\ InQueue' = InQueue /\ InRing' = InRing /\ sent' = sent + 0
  BY <1>3 DEF Waiting, InQueue, Worthy, InRing, Ahead, Traffic
<1>8. PICK a \in Nat : Arrived' = a /\ (Arrived = a + 1 \/ Arrived = a)
  BY TakeEvent
<1>9. Waiting \in Nat /\ InQueue \in Nat /\ InRing \in Nat
  BY AskedCounts
<1>12. Arrived = a + 1 \/ Arrived = a
  BY <1>8
<1>10. 0 + Waiting + InQueue + a + InRing <= Waiting + InQueue + Arrived + InRing
  BY <1>9, <1>12
<1>11. Cheap
  BY <1>7, <1>8, <1>9, <1>10, CheapSum
<1> QED BY <1>5, <1>6, <1>11 DEF Good

\* A completion that nothing is awaited for: the descriptor is asked for.
Trio == <<"setup", "data", "status">>
EntryAt(i) == (ep0.index + i) % EP0_SIZE
CycleAt(i) == IF ep0.index + i < EP0_SIZE THEN ep0.cycle ELSE ~ep0.cycle
TRBAt(i) == [stage |-> Trio[i + 1], cycle |-> CycleAt(i)]
Reaches(c) == \E i \in 0 .. 2 : c = EntryAt(i)
Place(c) == CHOOSE i \in 0 .. 2 : c = EntryAt(i)

LEMMA Stages ==
  /\ \A i \in 0 .. 2 : Trio[i + 1] \in {"none", "setup", "data", "status"}
  /\ \A i \in 0 .. 2 : Trio[i + 1] = "status" => i = 2
  /\ Trio[0 + 1] = "setup" /\ Trio[1 + 1] = "data" /\ Trio[2 + 1] = "status"
  BY DEF Trio

LEMMA Places ==
  ASSUME NEW c, Reaches(c)
  PROVE  Place(c) \in 0 .. 2 /\ c = EntryAt(Place(c))
  BY DEF Reaches, Place

LEMMA Entries ==
  ASSUME Traffic
  PROVE  /\ ep0.index \in Cells /\ ep0.index \in Nat /\ ep0.cycle \in BOOLEAN
         /\ \A i \in 0 .. 3 : EntryAt(i) \in Cells /\ CycleAt(i) \in BOOLEAN
<1>1. ep0.index \in Cells /\ ep0.index \in Nat /\ ep0.cycle \in BOOLEAN
  BY Numbers DEF Traffic
<1>2. \A n \in Nat : n % EP0_SIZE \in 0 .. EP0_SIZE - 1
  BY XhciAssumption
<1>3. \A i \in 0 .. 3 : ep0.index + i \in Nat
  BY <1>1
<1> QED BY <1>1, <1>2, <1>3 DEF EntryAt, CycleAt, Cells

LEMMA Requested ==
  ASSUME Traffic, NEW s \in Slots, request_device_descriptor(s)
  PROVE  /\ ep0Ring' \in [Cells -> TRBs] /\ ep0' \in [index : Cells, cycle : BOOLEAN]
         /\ \A c \in Cells : ep0Ring'[c] = IF Reaches(c) THEN TRBAt(Place(c)) ELSE ep0Ring[c]
         /\ bells' = bells \cup {<<s, 1>>} /\ UNCHANGED <<buffer, inputCtx, cmds, sent>>
<1>1. /\ ep0Ring' = [c \in Cells |-> IF Reaches(c) THEN TRBAt(Place(c)) ELSE ep0Ring[c]]
      /\ ep0' = [index |-> EntryAt(3), cycle |-> CycleAt(3)]
      /\ bells' = bells \cup {<<s, 1>>} /\ UNCHANGED <<buffer, inputCtx, cmds, sent>>
  BY DEF request_device_descriptor, Reaches, Place, TRBAt, EntryAt, CycleAt, Trio
<1>2. ASSUME NEW c \in Cells
      PROVE  (IF Reaches(c) THEN TRBAt(Place(c)) ELSE ep0Ring[c]) \in TRBs
  <2>1. ep0Ring[c] \in TRBs
    BY DEF Traffic
  <2>2. ASSUME NEW i \in 0 .. 2 PROVE TRBAt(i) \in TRBs
    <3>1. Trio[i + 1] \in {"none", "setup", "data", "status"} /\ CycleAt(i) \in BOOLEAN
      BY Stages, Entries
    <3> QED BY <3>1 DEF TRBAt, TRBs
  <2> QED BY <2>1, <2>2, Places
<1>3. 3 \in 0 .. 3
  OBVIOUS
<1>4. EntryAt(3) \in Cells /\ CycleAt(3) \in BOOLEAN
  BY <1>3, Entries
<1> QED BY <1>1, <1>2, <1>4

\* One status more in the ring.
LEMMA RequestedCost ==
  ASSUME Traffic, NEW s \in Slots, request_device_descriptor(s), slot' = slot
  PROVE  InRing' \in Nat /\ InRing' <= InRing + 1
<1> DEFINE a == EntryAt(2)
<1>1. \A c \in Cells : ep0Ring'[c] = IF Reaches(c) THEN TRBAt(Place(c)) ELSE ep0Ring[c]
  BY Requested
<1>2. ASSUME NEW c \in Cells, c # a, ep0Ring'[c].stage = "status" PROVE ep0Ring'[c] = ep0Ring[c]
  <2>1. ~ Reaches(c)
    <3> SUFFICES ASSUME Reaches(c) PROVE FALSE
      OBVIOUS
    <3>1. Place(c) \in 0 .. 2 /\ c = EntryAt(Place(c))
      BY Places
    <3>4. ep0Ring'[c] = TRBAt(Place(c))
      BY <1>1
    <3>2. ep0Ring'[c].stage = Trio[Place(c) + 1]
      BY <3>4 DEF TRBAt
    <3>3. Place(c) = 2
      BY <1>2, <3>1, <3>2, Stages
    <3> QED BY <1>2, <3>1, <3>3
  <2> QED BY <1>1, <2>1
<1>3. Ahead' \in SUBSET (Ahead \cup {a})
  BY <1>2 DEF Ahead
<1>4. IsFiniteSet(Ahead) /\ Cardinality(Ahead) \in Nat
  BY CellSets DEF Ahead
<1>5. Cardinality(Ahead') <= Cardinality(Ahead) + 1
  BY <1>3, <1>4, OneMore
<1>6. Ahead' \in SUBSET Cells
  BY DEF Ahead
<1>7. Cardinality(Ahead') \in Nat
  BY <1>6, CellSets
<1>8. InRing' = Cardinality(Ahead') /\ InRing = Cardinality(Ahead)
  BY DEF InRing
<1> QED BY <1>5, <1>7, <1>8

Request(s) ==
  /\ configuring_slot # s /\ request_device_descriptor(s)
  /\ UNCHANGED <<pending_port_id, configuring_slot, halted, slot, carried, plugs>>

LEMMA RequestIsGood ==
  ASSUME Traffic, CallsOK, events # << >>, events' = Tail(events), Answered(Head(events)),
         Request(Head(events).slot)
  PROVE  Good
<1> DEFINE e == Head(events)
           s == e.slot
<1>1. /\ e \in Events /\ Replied(e) /\ events' \in Seq(Events)
      /\ 1 \in DOMAIN events /\ events[1] = e
  BY TakeEvent
<1>2. PICK a \in Nat : Arrived' = a /\ (e \in Promises => Arrived = a + 1)
  BY TakeEvent
<1>3. s \in Slots /\ configuring_slot # s
  BY <1>1 DEF Replied, Request
<1>4. e \in Promises
  <2>1. e.of # "configure"
    <3> SUFFICES ASSUME e.of = "configure" PROVE FALSE
      OBVIOUS
    <3>1. s = 1 /\ Configured(events[1])
      BY <1>1 DEF Replied, Configured
    <3>2. configuring_slot = 1
      BY <1>1, <3>1 DEF CallsOK, Arriving
    <3> QED BY <1>3, <3>1, <3>2
  <2> QED BY <1>1, <2>1 DEF Promises
<1>5. /\ ep0Ring' \in [Cells -> TRBs] /\ ep0' \in [index : Cells, cycle : BOOLEAN]
      /\ bells' = bells \cup {<<s, 1>>} /\ UNCHANGED <<buffer, inputCtx, cmds, sent>>
      /\ UNCHANGED <<pending_port_id, configuring_slot, halted, slot, carried, plugs>>
  BY <1>3, Requested DEF Request
<1> HIDE DEF e, s
<1>6. Traffic'
  <2>1. bells' \subseteq Slots \X {1, 3, 4}
    BY <1>3, <1>5 DEF Traffic
  <2> QED BY <1>1, <1>5, <2>1 DEF Traffic
<1>7. CallsOK'
  BY <1>5, <1>6, TakeCalls
<1>8. PICK r \in Nat : r = InRing' /\ r <= InRing + 1
  <2>1. request_device_descriptor(s)
    BY DEF Request, s, e
  <2> QED BY <1>3, <1>5, <2>1, RequestedCost
<1>9. Waiting' = Waiting /\ InQueue' = InQueue /\ sent' = sent + 0
  BY <1>5 DEF Waiting, InQueue, Worthy, Traffic
<1>10. Waiting \in Nat /\ InQueue \in Nat /\ InRing \in Nat
  BY AskedCounts
<1>11. Arrived = a + 1
  BY <1>2, <1>4
<1>14. r \in Nat /\ r <= InRing + 1
  BY <1>8
<1>12. 0 + Waiting + InQueue + a + r <= Waiting + InQueue + Arrived + InRing
  <2>1. \A w, q, b, n, x, y \in Nat : x <= y + 1 /\ b = n + 1 => 0 + w + q + n + x <= w + q + b + y
    OBVIOUS
  <2>2. a \in Nat /\ Arrived \in Nat
    BY <1>11
  <2> QED BY <1>10, <1>11, <1>14, <2>1, <2>2
<1>13. Cheap
  BY <1>2, <1>8, <1>9, <1>10, <1>12, CheapSum
<1> QED BY <1>6, <1>7, <1>13 DEF Good

\* An event nothing is done about.
LEMMA IgnoredIsGood ==
  ASSUME Traffic, CallsOK, events # << >>, events' = Tail(events), halted' \in {"no", "read", "failed"},
         UNCHANGED <<slot, bells, carried, plugs, cmds, inputCtx, ep0Ring, buffer,
                     pending_port_id, configuring_slot, ep0, sent>>
  PROVE  Good
<1>1. events' \in Seq(Events)
  BY TakeEvent
<1>2. PICK a \in Nat : Arrived' = a /\ (Arrived = a + 1 \/ Arrived = a)
  BY TakeEvent
<1>3. Traffic'
  BY <1>1 DEF Traffic
<1>4. CallsOK'
  BY <1>3, TakeCalls
<1>5. Waiting' = Waiting /\ InQueue' = InQueue /\ InRing' = InRing /\ sent' = sent + 0
  BY DEF Waiting, InQueue, Worthy, InRing, Ahead, Traffic
<1>6. Waiting \in Nat /\ InQueue \in Nat /\ InRing \in Nat
  BY AskedCounts
<1>7. Arrived = a + 1 \/ Arrived = a
  BY <1>2
<1>8. 0 + Waiting + InQueue + a + InRing <= Waiting + InQueue + Arrived + InRing
  BY <1>6, <1>7
<1>9. Cheap
  BY <1>2, <1>5, <1>6, <1>8, CheapSum
<1> QED BY <1>3, <1>4, <1>9 DEF Good

\* The descriptor of slot 1 is a storage device's: slot 1 is configured.
Configure ==
  /\ configuring_slot' = 1 /\ configure_endpoints(1) /\ halted' = halted
  /\ UNCHANGED <<slot, bells, carried, plugs, ep0Ring, buffer, pending_port_id, ep0>>

LEMMA ConfigureIsGood ==
  ASSUME Traffic, CallsOK, events # << >>, events' = Tail(events), Head(events) = Classified, Configure
  PROVE  Good
<1> DEFINE c == Command("configure", 1)
<1>1. /\ 1 \in DOMAIN events /\ events[1] = Classified /\ events' \in Seq(Events)
      /\ DOMAIN events' \subseteq Nat
      /\ \A i \in DOMAIN events' : i + 1 \in DOMAIN events /\ events'[i] = events[i + 1] /\ i > 0
  BY TakeEvent
<1>2. PICK a \in Nat : Arrived' = a /\ (Head(events) \in Promises => Arrived = a + 1)
  BY TakeEvent
<1>3. Classified \in Promises
  BY Messages, Numbers DEF Promises, Classified
<1>4. Arrived = a + 1
  BY <1>2, <1>3
<1>5. /\ configuring_slot' = 1 /\ cmds' = Append(cmds, c) /\ sent' = sent + 1
      /\ inputCtx' = [op |-> "configure", port |-> 0]
      /\ UNCHANGED <<halted, slot, bells, carried, plugs, ep0Ring, buffer, pending_port_id, ep0>>
  BY DEF Configure, configure_endpoints, send_command
<1>6. c \in Commands /\ c.op = "configure" /\ c.slot = 1 /\ 1 \in Slots
  BY CommandFields, Numbers
<1> HIDE DEF c
<1>7. cmds \in Seq(Commands) /\ cmds' \in Seq(Commands) /\ Len(cmds) \in Nat
      /\ DOMAIN cmds = 1 .. Len(cmds) /\ DOMAIN cmds' = 1 .. Len(cmds) + 1
      /\ (\A i \in DOMAIN cmds : cmds'[i] = cmds[i]) /\ cmds'[Len(cmds) + 1] = c
  BY <1>5, <1>6, Put DEF Traffic
<1>8. Traffic'
  BY <1>1, <1>5, <1>6, <1>7 DEF Traffic, Inputs
<1>9. InUse(1)
  BY <1>1 DEF CallsOK, Arriving
<1>10. CallsOK'
  <2>1. Filled' /\ Expected'
    BY <1>5, <1>9 DEF CallsOK, Filled, Expected, InUse
  <2>2. ASSUME NEW i \in DOMAIN cmds' PROVE Addressee(cmds[i])'
    <3>1. Addressee(cmds'[i])
      <4>1. CASE i = Len(cmds) + 1
        <5>1. cmds'[i] = c /\ slot[1].state # "disabled"
          BY <1>7, <1>9, <4>1 DEF InUse
        <5> QED BY <1>6, <1>9, <5>1 DEF Addressee
      <4>2. CASE i # Len(cmds) + 1
        BY <1>7, <4>2 DEF CallsOK
      <4> QED BY <4>1, <4>2
    <3> QED BY <1>5, <3>1 DEF Addressee, InUse
  <2>3. ASSUME NEW i \in DOMAIN events' PROVE Replied(events[i])'
    <3>1. Replied(events'[i])
      BY <1>1 DEF CallsOK
    <3> QED BY <1>5, <3>1 DEF Replied, InUse
  <2>4. \A i \in DOMAIN events' : ~ Prepared(events'[i])
    <3> SUFFICES ASSUME NEW i \in DOMAIN events', Prepared(events'[i]) PROVE FALSE
      OBVIOUS
    <3>1. i + 1 < 1 /\ i \in Nat
      BY <1>1 DEF CallsOK, Arriving
    <3> QED BY <3>1
  <2>5. \A i, j \in DOMAIN events' : Configured(events'[i]) /\ Configured(events'[j]) => i = j
    <3> SUFFICES ASSUME NEW i \in DOMAIN events', NEW j \in DOMAIN events',
                        Configured(events'[i]), Configured(events'[j])
                 PROVE  i = j
      OBVIOUS
    <3>1. i + 1 = j + 1 /\ i \in Nat /\ j \in Nat
      BY <1>1 DEF CallsOK, Arriving
    <3> QED BY <3>1
  <2>6. \A i \in DOMAIN events' : events'[i] = Classified => InUse(1)'
    BY <1>5, <1>9 DEF InUse
  <2>7. Arriving'
    BY <1>5, <2>4, <2>5, <2>6 DEF Arriving
  <2> QED BY <2>1, <2>2, <2>3, <2>7 DEF CallsOK
<1>11. InQueue' = InQueue
  <2>1. c \notin Worthy
    BY <1>6 DEF Worthy
  <2>2. Number(cmds', Worthy) = Number(cmds, Worthy) + 0
    BY <1>5, <1>6, <1>7, <2>1, NumberPut
  <2>3. Worthy' = Worthy
    BY <1>5 DEF Worthy
  <2>4. InQueue \in Nat
    BY AskedCounts
  <2> QED BY <2>2, <2>3, <2>4 DEF InQueue
<1>12. Waiting' = Waiting /\ InRing' = InRing
  BY <1>5 DEF Waiting, InRing, Ahead
<1>13. Waiting \in Nat /\ InQueue \in Nat /\ InRing \in Nat
  BY AskedCounts
<1>14. 1 + Waiting + InQueue + a + InRing <= Waiting + InQueue + Arrived + InRing
  BY <1>4, <1>13
<1>15. Cheap
  BY <1>2, <1>5, <1>11, <1>12, <1>13, <1>14, CheapSum
<1> QED BY <1>8, <1>10, <1>15 DEF Good

LEMMA PollCommandIsGood ==
  ASSUME Traffic, CallsOK, PollCommand
  PROVE  Good
<1> DEFINE e == Head(events)
           s == e.slot
<1>1. events # << >> /\ events' = Tail(events) /\ e.type = "command" /\ UNCHANGED <<slot, carried, plugs>>
  BY DEF PollCommand
<1>2. e \in Events /\ Replied(e)
  BY <1>1, TakeEvent
<1>3. pending_port_id \in Ports \cup {0} /\ Ports \subseteq Nat /\ 0 \notin Ports
  BY Numbers DEF Traffic
<1>4. CASE e.code = 1 /\ s > 0 /\ pending_port_id > 0
  <2>1. Address(s) /\ Answered(e)
    BY <1>1, <1>4 DEF PollCommand, Address, Answered
  <2> QED BY <1>1, <1>4, <2>1, AddressIsGood
<1>5. CASE e.code = 1 /\ s > 0 /\ pending_port_id = 0 /\ configuring_slot = s
  <2>1. Read(s) /\ Answered(e)
    BY <1>1, <1>5 DEF PollCommand, Read, Answered
  <2> QED BY <1>1, <2>1, ReadIsGood
<1>6. CASE e.code = 1 /\ s > 0 /\ pending_port_id = 0 /\ configuring_slot # s
  <2>1. Request(s) /\ Answered(e)
    BY <1>1, <1>6 DEF PollCommand, Request, Answered
  <2> QED BY <1>1, <2>1, RequestIsGood
<1>7. CASE ~ (e.code = 1 /\ s > 0)
  <2>1. /\ UNCHANGED <<bells, cmds, inputCtx, ep0Ring, buffer, pending_port_id, configuring_slot, ep0, sent>>
        /\ halted' = IF e.code = 5 THEN "failed" ELSE halted
    BY <1>1, <1>7 DEF PollCommand
  <2>2. halted' \in {"no", "read", "failed"}
    BY <2>1 DEF Traffic
  <2> QED BY <1>1, <2>1, <2>2, IgnoredIsGood
<1> QED BY <1>3, <1>4, <1>5, <1>6, <1>7

LEMMA PollTransferSteps ==
  ASSUME Traffic, CallsOK, PollTransfer
  PROVE  /\ events # << >> /\ events' = Tail(events) /\ Head(events) \in Events
         /\ Head(events).type = "transfer" /\ UNCHANGED <<slot, bells, carried, plugs>>
         /\ \/ Head(events) = Classified /\ buffer \in Storage /\ Configure
            \/ /\ ~ (Head(events) = Classified /\ buffer \in Storage)
               /\ halted' \in {"no", "read", "failed"}
               /\ UNCHANGED <<cmds, inputCtx, ep0Ring, buffer, pending_port_id, configuring_slot, ep0, sent>>
<1> DEFINE e == Head(events)
           cargo == e.ep = 1 /\ e.slot = 1 /\ buffer \in Storage
<1>1. events # << >> /\ events' = Tail(events) /\ e.type = "transfer" /\ UNCHANGED <<slot, bells, carried, plugs>>
      /\ UNCHANGED <<ep0Ring, buffer, pending_port_id, ep0>>
      /\ halted' = IF e.ep = 3 THEN "read" ELSE halted
  BY DEF PollTransfer, hw
<1>2. e \in Events
  BY <1>1, TakeEvent
<1>3. e = Classified <=> e.ep = 1 /\ e.slot = 1
  <2>1. e = Transfer(e.slot, e.ep)
    BY <1>1, <1>2, EventFields
  <2>2. Classified.ep = 1 /\ Classified.slot = 1
    BY DEF Classified, Transfer
  <2>3. e.ep = 1 /\ e.slot = 1 => e = Classified
    BY <2>1 DEF Classified
  <2> QED BY <2>2, <2>3
<1>4. CASE cargo
  <2>1. configuring_slot' = 1 /\ configure_endpoints(1)
    BY <1>4 DEF PollTransfer
  <2>2. halted' = halted
    BY <1>1, <1>4
  <2> QED BY <1>1, <1>2, <1>3, <1>4, <2>1, <2>2 DEF Configure
<1>5. CASE ~ cargo
  <2>1. UNCHANGED <<configuring_slot, inputCtx, cmds, sent>>
    BY <1>5 DEF PollTransfer
  <2>2. halted' \in {"no", "read", "failed"}
    BY <1>1 DEF Traffic
  <2> QED BY <1>1, <1>2, <1>3, <1>5, <2>1, <2>2
<1> QED BY <1>4, <1>5

LEMMA PollTransferIsGood ==
  ASSUME Traffic, CallsOK, PollTransfer
  PROVE  Good
  BY PollTransferSteps, ConfigureIsGood, IgnoredIsGood

--------------------------------------------------------------------------------
\* The account: three commands for every device that was plugged in, of which some are
\* sent, some promised, and three still due for every port that may be asked a slot for.

Reads == IF Asking THEN 1 ELSE 0
Owed == 3 * Cardinality(Hot) + 3 * Reads
Paid == sent + Owed + Asked <= 3 * plugs

Account == Regs /\ Traffic /\ PortsOK /\ CallsOK /\ Paid

\* The sum, with the numbers after a step named.
LEMMA Sums ==
  \A h, k, r, x, s, t, a, b, p, q \in Nat :
    /\ s + (3 * h + 3 * r) + a <= 3 * p /\ t + b <= s + a /\ q = p /\ k <= h /\ x <= r =>
         t + (3 * k + 3 * x) + b <= 3 * q
    /\ s + (3 * h + 3 * r) + a <= 3 * p /\ t + b <= s + a /\ q = p /\ k + 1 <= h /\ r = 0 /\ x = 1 =>
         t + (3 * k + 3 * x) + b <= 3 * q
    /\ s + (3 * h + 3 * r) + a <= 3 * p /\ t + b <= s + a + 3 /\ q = p /\ k <= h /\ r = 1 /\ x = 0 =>
         t + (3 * k + 3 * x) + b <= 3 * q
    /\ s + (3 * h + 3 * r) + a <= 3 * p /\ t + b <= s + a /\ q = p + 1 /\ k <= h + 1 /\ x = r =>
         t + (3 * k + 3 * x) + b <= 3 * q
  OBVIOUS

LEMMA Terms ==
  ASSUME Traffic, Traffic'
  PROVE  /\ Cardinality(Hot) \in Nat /\ Cardinality(Hot') \in Nat /\ IsFiniteSet(Hot)
         /\ Reads \in Nat /\ Reads' \in Nat /\ sent \in Nat /\ sent' \in Nat
         /\ Asked \in Nat /\ Asked' \in Nat /\ plugs \in Nat /\ plugs' \in Nat
         /\ Paid <=> sent + (3 * Cardinality(Hot) + 3 * Reads) + Asked <= 3 * plugs
         /\ Paid' <=> sent' + (3 * Cardinality(Hot') + 3 * Reads') + Asked' <= 3 * plugs'
<1>1. Hot \in SUBSET Ports /\ Hot' \in SUBSET Ports
  BY DEF Hot
<1>2. Cardinality(Hot) \in Nat /\ Cardinality(Hot') \in Nat /\ IsFiniteSet(Hot)
  BY <1>1, PortSets
<1>3. Reads \in Nat /\ Reads' \in Nat
  BY DEF Reads
<1>4. Asked \in Nat /\ Asked' \in Nat
  BY AskedCounts, NextCounts
<1>5. sent \in Nat /\ sent' \in Nat /\ plugs \in Nat /\ plugs' \in Nat
  BY XhciAssumption DEF Traffic
<1>6. /\ Paid <=> sent + (3 * Cardinality(Hot) + 3 * Reads) + Asked <= 3 * plugs
      /\ Paid' <=> sent' + (3 * Cardinality(Hot') + 3 * Reads') + Asked' <= 3 * plugs'
  BY DEF Paid, Owed
<1> QED BY <1>2, <1>3, <1>4, <1>5, <1>6

LEMMA SamePaid ==
  ASSUME Traffic, Good, Paid, plugs' = plugs, Hot' \subseteq Hot, Asking' => Asking
  PROVE  Paid'
<1>1. Traffic' /\ sent' + Asked' <= sent + Asked
  BY DEF Good, Cheap
<1>2. Reads' <= Reads
  BY DEF Reads
<1>3. Cardinality(Hot') <= Cardinality(Hot)
  BY <1>1, Terms, Fewer
<1> QED BY <1>1, <1>2, <1>3, Terms, Sums

LEMMA ReadPaid ==
  ASSUME Traffic, Good, Paid, plugs' = plugs, ~ Asking, Asking',
         NEW p \in Hot, Hot' \subseteq Hot \ {p}
  PROVE  Paid'
<1>1. Traffic' /\ sent' + Asked' <= sent + Asked
  BY DEF Good, Cheap
<1>2. Reads' = 1 /\ Reads = 0
  BY DEF Reads
<1>3. Cardinality(Hot') + 1 <= Cardinality(Hot)
  BY <1>1, Terms, OneFewer
<1> QED BY <1>1, <1>2, <1>3, Terms, Sums

LEMMA AskPaid ==
  ASSUME Traffic, Traffic', sent' + Asked' <= sent + Asked + 3, Paid, plugs' = plugs,
         Asking, ~ Asking', Hot' \subseteq Hot
  PROVE  Paid'
<1>2. Reads' = 0 /\ Reads = 1
  BY DEF Reads
<1>3. Cardinality(Hot') <= Cardinality(Hot)
  BY Terms, Fewer
<1> QED BY <1>2, <1>3, Terms, Sums

LEMMA PlugPaid ==
  ASSUME Traffic, Good, Paid, plugs' = plugs + 1, Asking' = Asking,
         NEW p, Hot' \subseteq Hot \cup {p}
  PROVE  Paid'
<1>1. Traffic' /\ sent' + Asked' <= sent + Asked
  BY DEF Good, Cheap
<1>2. Reads' = Reads
  BY DEF Reads
<1>3. Cardinality(Hot') <= Cardinality(Hot) + 1
  BY <1>1, Terms, OneMore
<1> QED BY <1>1, <1>2, <1>3, Terms, Sums

\* A step of the controller or of the driver that does not look at the ports.
LEMMA AccountOff ==
  ASSUME Account, Good, UNCHANGED <<port, pc, seen, plugs>>
  PROVE  Account'
<1>1. PortStep /\ Asking' = Asking
  BY OtherPorts DEF Account
<1>2. Paid'
  BY <1>1, SamePaid DEF Account, PortStep
<1> QED BY <1>1, <1>2 DEF Account, PortStep, Good

\* A step of the ports that asks for no slot.
LEMMA AccountOn ==
  ASSUME Account, Calm, PortStep, plugs' = plugs, Asking' => Asking
  PROVE  Account'
<1>1. Good
  BY CalmIsGood DEF Account
<1>2. Paid'
  BY <1>1, SamePaid DEF Account, PortStep
<1> QED BY <1>1, <1>2 DEF Account, PortStep, Good

\* Before anything is done nothing is due, and no step spends what is not there.
LEMMA AccountInit == Init => Account
<1> SUFFICES ASSUME Init PROVE Account
  OBVIOUS
<1> USE DEF Init, reset, Statics, new, init_pointers, init_interrupter
<1>1. Regs
  BY Numbers, XhciAssumption DEF Regs, Clear, Bits, Steps, Ports
<1>2. Traffic
  BY Numbers, XhciAssumption DEF Traffic, Contexts, Disabled, Inputs, TRBs, Zeroed
<1>3. PortsOK
  BY DEF PortsOK, PortOK, ReadOK, Clear
<1>4. CallsOK
  BY Numbers DEF CallsOK, Filled, Expected, Arriving, Disabled
<1>5. Hot = {} /\ ~ Asking
  BY DEF Hot, Asking, Clear
<1>6. Waiting = 0 /\ Ahead = {}
  BY DEF Waiting, Ahead, Zeroed
<1>7. Hits(cmds, Worthy) = {} /\ Hits(events, Promises) = {}
  BY DEF Hits
<1>8. Asked = 0
  <2>1. Cardinality({}) = 0
    BY FS_EmptySet
  <2>2. InRing = 0 /\ InQueue = 0 /\ Arrived = 0
    BY <1>6, <1>7, <2>1 DEF InQueue, Arrived, InRing, Number
  <2> QED BY <1>6, <2>2 DEF Asked
<1>9. Owed = 0
  BY <1>5, FS_EmptySet DEF Owed, Reads
<1>10. Paid
  BY <1>8, <1>9 DEF Paid
<1> QED BY <1>1, <1>2, <1>3, <1>4, <1>10 DEF Account

LEMMA AccountStep == Account /\ [Next]_vars => Account'
<1> SUFFICES ASSUME Account, [Next]_vars PROVE Account'
  OBVIOUS
<1>0. Regs /\ Traffic /\ PortsOK /\ CallsOK /\ Paid /\ MaxPlugs \in Nat
  BY XhciAssumption DEF Account
<1>1. ASSUME NEW p \in Ports, Connect(p) PROVE Account'
  <2>1. Regs' /\ PortsOK' /\ Hot' \subseteq Hot \cup {p} /\ Asking' = Asking
    BY <1>0, <1>1, ConnectPorts
  <2>2. Good /\ plugs' = plugs + 1
    BY <1>0, <1>1, PortStepsAreCalm, CalmIsGood
  <2>3. Paid'
    BY <1>0, <2>1, <2>2, PlugPaid
  <2> QED BY <2>1, <2>2, <2>3 DEF Account, Good
<1>2. ASSUME NEW p \in Ports, Disconnect(p) \/ ResetDone(p) PROVE Account'
  <2>1. PortStep /\ Asking' = Asking
    BY <1>0, <1>2, DisconnectPorts, ResetDonePorts
  <2> QED BY <1>0, <1>2, <2>1, PortStepsAreCalm, AccountOn
<1>3. CASE Execute
  <2>1. UNCHANGED <<port, pc, seen, plugs>>
    BY <1>3 DEF Execute, soft
  <2> QED BY <1>0, <1>3, <2>1, ExecuteIsGood, AccountOff
<1>4. ASSUME NEW s \in Slots, Serve(s) PROVE Account'
  <2>1. UNCHANGED <<port, pc, seen, plugs>>
    BY <1>4 DEF Serve, Control, BulkOut, BulkIn, soft
  <2>2. Good
    BY <1>0, <1>4, ControlIsGood, BulkIsGood DEF Serve
  <2> QED BY <2>1, <2>2, AccountOff
<1>5. CASE ScanRead \/ ScanWrite \/ ReadChange \/ AckConnect \/ ResetPort
  <2>1. PortStep /\ ~ Asking'
    BY <1>0, <1>5, ScanReadPorts, ScanWritePorts, ReadChangePorts, AckConnectPorts, ResetPortPorts
  <2> QED BY <1>0, <1>5, <2>1, PortStepsAreCalm, AccountOn
<1>6. CASE AckReset
  <2>1. PortStep /\ ~ Asking' /\ (Asking <=> seen.ped)
    BY <1>0, <1>6, AckResetPorts
  <2>2. CASE seen.ped
    <3>1. Traffic' /\ CallsOK' /\ sent' + Asked' <= sent + Asked + 3
      BY <1>0, <1>6, <2>2, AskIsGood
    <3>2. plugs' = plugs
      BY <1>6 DEF AckReset
    <3>3. Paid'
      BY <1>0, <2>1, <2>2, <3>1, <3>2, AskPaid DEF PortStep
    <3> QED BY <2>1, <3>1, <3>3 DEF Account, PortStep
  <2>3. CASE ~ seen.ped
    BY <1>0, <1>6, <2>1, <2>3, PortStepsAreCalm, AccountOn
  <2> QED BY <2>2, <2>3
<1>7. CASE PollPort
  <2>1. events \in Seq(Events) /\ events # << >> /\ Head(events).type = "port"
    BY <1>0, <1>7 DEF PollPort, Traffic
  <2>2. Head(events).port \in Ports
    BY <2>1, Taken, EventFields
  <2>3. PortStep /\ ~ Asking /\ (Asking' => \E p \in Hot : Hot' \subseteq Hot \ {p})
    BY <1>0, <1>7, <2>2, PollPortPorts
  <2>4. Calm /\ plugs' = plugs /\ Good
    BY <1>0, <1>7, PortStepsAreCalm, CalmIsGood
  <2>5. CASE Asking'
    <3>1. PICK p \in Hot : Hot' \subseteq Hot \ {p}
      BY <2>3, <2>5
    <3>2. Paid'
      BY <1>0, <2>3, <2>4, <2>5, <3>1, ReadPaid
    <3> QED BY <2>3, <2>4, <3>2 DEF Account, PortStep, Good
  <2>6. CASE ~ Asking'
    BY <2>3, <2>4, <2>6, AccountOn
  <2> QED BY <2>5, <2>6
<1>8. CASE PollCommand
  <2>1. UNCHANGED <<port, pc, seen, plugs>>
    BY <1>8 DEF PollCommand
  <2> QED BY <1>0, <1>8, <2>1, PollCommandIsGood, AccountOff
<1>9. CASE PollTransfer
  <2>1. UNCHANGED <<port, pc, seen, plugs>>
    BY <1>9 DEF PollTransfer, hw
  <2> QED BY <1>0, <1>9, <2>1, PollTransferIsGood, AccountOff
<1>10. CASE UNCHANGED vars
  <2>1. Calm /\ UNCHANGED <<port, pc, seen, plugs>>
    BY <1>0, <1>10 DEF vars, hw, soft, Calm, Traffic
  <2> QED BY <1>0, <2>1, CalmIsGood, AccountOff
<1> QED BY <1>1, <1>2, <1>3, <1>4, <1>5, <1>6, <1>7, <1>8, <1>9, <1>10 DEF Next, Handle, Poll

\* What was sent and what must still follow is never more than what the devices plugged in
\* so far pay for, whatever the order of their events and the driver's reads and writes.
THEOREM XhciAccount == Spec => []Account
<1>1. Init => Account
  BY AccountInit
<1>2. Account /\ [Next]_vars => Account'
  BY AccountStep
<1> QED BY <1>1, <1>2, PTL DEF Spec

\* Whatever is plugged in and out, and however the controller's changes of a port fall
\* between the driver's reads and writes of it, the registers, the commands, the events and
\* what the driver keeps of them have their types: an index into the EP0 ring is one, a
\* port that waits for its slot is a port.
THEOREM XhciTypeOK == Spec => []TypeOK
<1>1. Account => TypeOK
  BY TwoParts DEF Account
<1> QED BY <1>1, XhciAccount, PTL

\* However many devices come and go, and however often, scan_ports, the handler of a port
\* event and the completions push no more than three commands for each.
THEOREM XhciCommandsPerPlug == Spec => []CommandsPerPlug
<1>1. Account => CommandsPerPlug
  <2> SUFFICES ASSUME Account PROVE CommandsPerPlug
    OBVIOUS
  <2>1. sent \in Nat /\ plugs \in Nat /\ Asked \in Nat
    BY AskedCounts, XhciAssumption DEF Account, Traffic
  <2>2. Hot \in SUBSET Ports
    BY DEF Hot
  <2>3. Cardinality(Hot) \in Nat /\ Reads \in Nat
    BY <2>2, PortSets DEF Reads
  <2>4. sent + (3 * Cardinality(Hot) + 3 * Reads) + Asked <= 3 * plugs
    BY DEF Account, Paid, Owed
  <2> QED BY <2>1, <2>3, <2>4 DEF CommandsPerPlug
<1> QED BY <1>1, XhciAccount, PTL

--------------------------------------------------------------------------------
\* One device.  What is in a queue, by type.

Only(s, ty, T) == \A i \in DOMAIN s : s[i].type = ty => s[i] \in T
Sole(s, ty) == \A i, j \in DOMAIN s : s[i].type = ty /\ s[j].type = ty => i = j

To(op) == {e \in Events : e.type = "command" /\ e.of = op}
Bulk == {e \in Events : e.type = "transfer" /\ e.ep # 1}

Idling == cmds = << >> /\ Only(events, "command", {})
OneFlight(op) ==
  /\ Sole(events, "command") /\ Only(events, "command", To(op))
  /\ \/ cmds = << >>
     \/ Len(cmds) = 1 /\ Head(cmds).op = op /\ Only(events, "command", {})

\* The stages of one device: nothing done, a slot asked for, its address, its
\* descriptor, its configuration, its block.
Unused == \A s \in Slots : s # 1 => slot[s].state = "disabled"
Blank ==
  /\ ep0Ring = [i \in Cells |-> Zeroed] /\ ep0 = [index |-> 0, cycle |-> TRUE]
  /\ bells = {} /\ Only(events, "transfer", {})
  /\ configuring_slot = 0 /\ slot[1].deq = 0
Ring ==
  /\ ep0Ring[0] = [stage |-> "setup", cycle |-> TRUE]
  /\ ep0Ring[1] = [stage |-> "data", cycle |-> TRUE]
  /\ ep0Ring[2] = [stage |-> "status", cycle |-> TRUE]
  /\ \A c \in Cells : c >= 3 => ep0Ring[c] = Zeroed

Untouched == sent = 0 /\ Unused /\ Blank /\ slot[1].state = "disabled" /\ pending_port_id = 0 /\ Idling
Enabling ==
  /\ sent = 1 /\ Unused /\ Blank /\ pending_port_id > 0 /\ OneFlight("enable")
  /\ cmds # << >> => slot[1].state = "disabled"
Addressing == sent = 2 /\ Unused /\ Blank /\ pending_port_id = 0 /\ OneFlight("address")
Describing ==
  /\ sent = 2 /\ Unused /\ pending_port_id = 0 /\ configuring_slot = 0 /\ Idling
  /\ Ring /\ bells \subseteq {<<1, 1>>} /\ slot[1].deq \in 0 .. 3
  /\ slot[1].deq >= 2 => buffer = slot[1].port
  /\ Sole(events, "transfer") /\ Only(events, "transfer", {Classified})
  /\ slot[1].deq = 3 \/ Only(events, "transfer", {})
Configuring ==
  /\ sent = 3 /\ Unused /\ pending_port_id = 0 /\ configuring_slot = 1 /\ OneFlight("configure")
  /\ Ring /\ slot[1].deq = 3 /\ bells \subseteq {<<1, 1>>} /\ Only(events, "transfer", {})
Streaming ==
  /\ sent = 3 /\ Unused /\ Idling
  /\ Ring /\ slot[1].deq = 3 /\ buffer = CBW /\ Only(events, "transfer", Bulk)

Stage == Untouched \/ Enabling \/ Addressing \/ Describing \/ Configuring \/ Streaming
Staged == Account /\ (Alone => Stage)

LEMMA QueuePut ==
  ASSUME NEW s \in Seq(Events), NEW x \in Events, NEW t, t = Append(s, x), NEW ty
  PROVE  /\ \A T : Only(s, ty, T) /\ (x.type = ty => x \in T) => Only(t, ty, T)
         /\ x.type # ty /\ Sole(s, ty) => Sole(t, ty)
         /\ Only(s, ty, {}) => Sole(t, ty) /\ \A T : x \in T => Only(t, ty, T)
<1>1. /\ Len(s) \in Nat /\ DOMAIN s = 1 .. Len(s) /\ DOMAIN t = 1 .. Len(s) + 1
      /\ \A i \in DOMAIN s : t[i] = s[i]
      /\ t[Len(s) + 1] = x
  BY Put
<1>2. \A i \in DOMAIN t : (i \in DOMAIN s /\ t[i] = s[i]) \/ (i = Len(s) + 1 /\ t[i] = x)
  BY <1>1
<1>3. ASSUME NEW T, Only(s, ty, T), x.type = ty => x \in T PROVE Only(t, ty, T)
  BY <1>2, <1>3 DEF Only
<1>4. ASSUME x.type # ty, Sole(s, ty) PROVE Sole(t, ty)
  BY <1>2, <1>4 DEF Sole
<1>5. ASSUME Only(s, ty, {}) PROVE Sole(t, ty)
  BY <1>2, <1>5 DEF Only, Sole
<1>6. ASSUME Only(s, ty, {}), NEW T, x \in T PROVE Only(t, ty, T)
  BY <1>2, <1>6 DEF Only
<1> QED BY <1>3, <1>4, <1>5, <1>6

LEMMA QueueTake ==
  ASSUME NEW s \in Seq(Events), s # << >>, NEW t, t = Tail(s), NEW ty
  PROVE  /\ \A T : Only(s, ty, T) => Only(t, ty, T) /\ (Head(s).type = ty => Head(s) \in T)
         /\ Sole(s, ty) => Sole(t, ty) /\ (Head(s).type = ty => Only(t, ty, {}))
<1>1. /\ Len(s) \in Nat /\ DOMAIN s = 1 .. Len(s) /\ DOMAIN t = 1 .. Len(s) - 1
      /\ \A i \in DOMAIN t : i + 1 \in DOMAIN s /\ t[i] = s[i + 1]
      /\ 1 \in DOMAIN s /\ s[1] = Head(s)
  BY Taken
<1>2. DOMAIN t \subseteq Nat /\ \A i \in DOMAIN t : i # 0
  BY <1>1
<1>3. ASSUME NEW T, Only(s, ty, T) PROVE Only(t, ty, T) /\ (Head(s).type = ty => Head(s) \in T)
  BY <1>1, <1>3 DEF Only
<1>4. ASSUME Sole(s, ty) PROVE Sole(t, ty)
  <2>1. \A i, j \in DOMAIN t : t[i].type = ty /\ t[j].type = ty => i + 1 = j + 1
    BY <1>1, <1>4 DEF Sole
  <2>2. \A i, j \in Nat : i + 1 = j + 1 => i = j
    OBVIOUS
  <2> QED BY <1>2, <2>1, <2>2 DEF Sole
<1>5. ASSUME Sole(s, ty), Head(s).type = ty PROVE Only(t, ty, {})
  <2> SUFFICES ASSUME NEW i \in DOMAIN t, t[i].type = ty PROVE FALSE
    BY DEF Only
  <2>1. i + 1 = 1
    BY <1>1, <1>5 DEF Sole
  <2> QED BY <1>2, <2>1
<1> QED BY <1>3, <1>4, <1>5

\* What a step of the ports leaves of the completions and of the transfers.
LEMMA CalmQueues ==
  ASSUME Traffic, Calm, NEW ty \in {"command", "transfer"}
  PROVE  /\ \A T : Only(events, ty, T) => Only(events', ty, T)
         /\ Sole(events, ty) => Sole(events', ty)
<1>1. events \in Seq(Events)
  BY DEF Traffic
<1>2. ASSUME NEW p \in Ports, events' = Append(events, Change(p))
      PROVE  /\ \A T : Only(events, ty, T) => Only(events', ty, T)
             /\ Sole(events, ty) => Sole(events', ty)
  <2>1. Change(p) \in Events /\ Change(p).type # ty
    BY Messages
  <2> QED BY <1>1, <1>2, <2>1, QueuePut
<1>3. ASSUME events # << >>, events' = Tail(events)
      PROVE  /\ \A T : Only(events, ty, T) => Only(events', ty, T)
             /\ Sole(events, ty) => Sole(events', ty)
  BY <1>1, <1>3, QueueTake
<1> QED BY <1>2, <1>3 DEF Calm

LEMMA CalmStages ==
  ASSUME Traffic, Calm, Stage
  PROVE  Stage'
<1>1. /\ UNCHANGED <<slot, bells, cmds, ep0Ring, buffer, pending_port_id, configuring_slot, ep0, sent>>
      /\ \A T : Only(events, "command", T) => Only(events', "command", T)
      /\ \A T : Only(events, "transfer", T) => Only(events', "transfer", T)
      /\ Sole(events, "command") => Sole(events', "command")
      /\ Sole(events, "transfer") => Sole(events', "transfer")
  BY CalmQueues DEF Calm
<1>2. Idling => Idling'
  BY <1>1 DEF Idling
<1>3. ASSUME NEW op, OneFlight(op) PROVE OneFlight(op)'
  BY <1>1, <1>3 DEF OneFlight, To
<1>4. (Unused => Unused') /\ (Ring => Ring') /\ (Blank => Blank')
  BY <1>1 DEF Unused, Ring, Blank
<1>5. Untouched => Untouched'
  BY <1>1, <1>2, <1>4 DEF Untouched
<1>6. Enabling => Enabling'
  BY <1>1, <1>3, <1>4 DEF Enabling
<1>7. Addressing => Addressing'
  BY <1>1, <1>3, <1>4 DEF Addressing
<1>8. Describing => Describing'
  BY <1>1, <1>2, <1>4 DEF Describing
<1>9. Configuring => Configuring'
  BY <1>1, <1>3, <1>4 DEF Configuring
<1>10. Streaming => Streaming'
  BY <1>1, <1>2, <1>4 DEF Streaming, Bulk
<1> QED BY <1>5, <1>6, <1>7, <1>8, <1>9, <1>10 DEF Stage

\* A slot is asked for only when nothing has been sent.
LEMMA FirstAsk ==
  ASSUME Account, Alone, Asking
  PROVE  sent = 0
<1>1. sent \in Nat /\ plugs \in Nat /\ plugs <= 1 /\ Asked \in Nat
  BY AskedCounts, XhciAssumption DEF Account, Traffic, Alone
<1>2. Hot \in SUBSET Ports
  BY DEF Hot
<1>3. Cardinality(Hot) \in Nat /\ Reads = 1
  BY <1>2, PortSets DEF Reads
<1>4. sent + (3 * Cardinality(Hot) + 3 * Reads) + Asked <= 3 * plugs
  BY DEF Account, Paid, Owed
<1>5. \A s, h, a, p \in Nat : p <= 1 /\ s + (3 * h + 3 * 1) + a <= 3 * p => s = 0
  OBVIOUS
<1> QED BY <1>1, <1>3, <1>4, <1>5

LEMMA AskStages ==
  ASSUME Account, Alone, Stage, AckReset, seen.ped
  PROVE  Stage'
<1> DEFINE c == Command("enable", 0)
<1>1. sent = 0
  BY FirstAsk DEF Asking, AckReset
<1>2. Untouched
  BY <1>1 DEF Stage, Enabling, Addressing, Describing, Configuring, Streaming
<1>3. /\ pending_port_id' = pc.port /\ cmds' = Append(cmds, c) /\ sent' = sent + 1
      /\ UNCHANGED <<slot, bells, events, ep0Ring, configuring_slot, ep0>>
  BY DEF AckReset, enable_slot, send_command
<1>4. c \in Commands /\ c.op = "enable"
  BY CommandFields
<1> HIDE DEF c
<1>5. cmds' = <<c>>
  BY <1>2, <1>3 DEF Untouched, Idling
<1>6. OneFlight("enable")'
  <2>1. Len(cmds') = 1 /\ Head(cmds').op = "enable"
    BY <1>4, <1>5
  <2>2. Only(events, "command", {})
    BY <1>2 DEF Untouched, Idling
  <2>3. Sole(events, "command") /\ Only(events, "command", To("enable"))
    BY <2>2 DEF Only, Sole
  <2> QED BY <1>3, <2>1, <2>2, <2>3 DEF OneFlight, To
<1>7. Unused' /\ Blank'
  BY <1>2, <1>3 DEF Untouched, Unused, Blank
<1>8. sent' = 1 /\ pending_port_id' > 0 /\ slot'[1].state = "disabled"
  BY <1>1, <1>2, <1>3 DEF Untouched, Account, Regs, Ports
<1>9. Enabling'
  BY <1>6, <1>7, <1>8 DEF Enabling
<1> QED BY <1>9 DEF Stage

LEMMA FirstSlot ==
  ASSUME Traffic, Execute, Head(cmds).op = "enable", slot[1].state = "disabled"
  PROVE  \A t \in Slots : t # 1 => slot'[t] = slot[t]
<1>1. CASE slot' = slot
  BY <1>1
<1>2. ASSUME NEW s \in Slots, \A t \in 1 .. s - 1 : slot[t].state # "disabled",
             slot' = [slot EXCEPT ![s].state = "enabled"]
      PROVE  \A t \in Slots : t # 1 => slot'[t] = slot[t]
  <2>1. s = 1
    <3>1. 1 \notin 1 .. s - 1
      BY <1>2
    <3> QED BY <3>1 DEF Slots
  <2> QED BY <1>2, <2>1 DEF Traffic
<1>3. \/ slot' = slot
      \/ \E s \in Slots : /\ \A t \in 1 .. s - 1 : slot[t].state # "disabled"
                          /\ slot' = [slot EXCEPT ![s].state = "enabled"]
  BY Zenon DEF Execute
<1> QED BY <1>1, <1>2, <1>3

\* The command in flight is executed.
LEMMA ExecuteStages ==
  ASSUME Account, Stage, Execute
  PROVE  Stage'
<1>0. Traffic /\ CallsOK
  BY DEF Account
<1>1. /\ cmds # << >> /\ cmds' = Tail(cmds) /\ Head(cmds) \in Commands
      /\ UNCHANGED <<bells, ep0Ring, sent, pending_port_id, configuring_slot, ep0>>
      /\ \/ Refused
         \/ \E s \in Slots : Served(s) /\ (Head(cmds).op # "enable" => s = Head(cmds).slot)
  BY <1>0, Executed
<1>2. PICK e \in Events : e.type = "command" /\ e.of = Head(cmds).op /\ events' = Append(events, e)
  <2>1. ASSUME NEW s \in Slots \cup {0}, NEW code \in {1, 4, 5},
               events' = Append(events, Completion(Head(cmds), s, code))
        PROVE  \E e \in Events : e.type = "command" /\ e.of = Head(cmds).op /\ events' = Append(events, e)
    <3>1. /\ Completion(Head(cmds), s, code) \in Events /\ Completion(Head(cmds), s, code).type = "command"
          /\ Completion(Head(cmds), s, code).of = Head(cmds).op
      BY <1>1, Messages
    <3> QED BY <2>1, <3>1
  <2>2. Head(cmds).slot \in Slots \cup {0}
    BY <1>1, CommandFields
  <2> QED BY <1>1, <2>1, <2>2 DEF Refused, Served
<1>3. /\ slot'[1].deq = slot[1].deq
      /\ \/ slot' = slot
         \/ \E s \in Slots : /\ \A t \in Slots : t # s => slot'[t] = slot[t]
                             /\ Turn(Head(cmds).op, slot[s].state, slot'[s].state)
  BY <1>1, Numbers DEF Refused, Served
<1>4. events \in Seq(Events) /\ cmds \in Seq(Commands)
  BY <1>0 DEF Traffic
<1>5. ASSUME NEW op \in {"enable", "address", "configure"}, OneFlight(op)
      PROVE  cmds' = << >> /\ Head(cmds).op = op /\ OneFlight(op)'
  <2>1. Len(cmds) = 1 /\ Head(cmds).op = op /\ Only(events, "command", {})
    BY <1>1, <1>5 DEF OneFlight
  <2>2. cmds' = << >>
    <3>1. Tail(cmds) \in Seq(Commands) /\ Len(Tail(cmds)) = 0
      BY <1>1, <1>4, <2>1, HeadTailProperties
    <3> QED BY <1>1, <3>1, EmptySeq
  <2>3. e \in To(op)
    BY <1>2, <2>1 DEF To
  <2>4. Sole(events', "command") /\ Only(events', "command", To(op))
    BY <1>2, <1>4, <2>1, <2>3, QueuePut
  <2> QED BY <2>1, <2>2, <2>4 DEF OneFlight, To
<1>6. Only(events, "transfer", {}) => Only(events', "transfer", {})
  BY <1>2, <1>4, QueuePut
<1>7. Blank => Blank'
  BY <1>1, <1>3, <1>6 DEF Blank
<1>8. Ring => Ring'
  BY <1>1 DEF Ring
<1>9. CASE Enabling
  <2>1. cmds' = << >> /\ Head(cmds).op = "enable" /\ OneFlight("enable")'
    BY <1>5, <1>9 DEF Enabling
  <2>2. Unused'
    <3>1. \A t \in Slots : t # 1 => slot'[t] = slot[t]
      BY <1>0, <1>1, <1>9, <2>1, FirstSlot DEF Enabling
    <3> QED BY <1>9, <3>1 DEF Enabling, Unused
  <2>3. Enabling'
    BY <1>1, <1>7, <1>9, <2>1, <2>2 DEF Enabling
  <2> QED BY <2>3 DEF Stage
<1>10. ASSUME Unused, Head(cmds).op # "enable" PROVE Unused'
  <2>1. ASSUME NEW s \in Slots, \A t \in Slots : t # s => slot'[t] = slot[t],
               Turn(Head(cmds).op, slot[s].state, slot'[s].state)
        PROVE  Unused'
    <3>1. s = 1
      BY <1>10, <2>1 DEF Unused, Turn
    <3> QED BY <1>10, <2>1, <3>1 DEF Unused
  <2>2. slot' = slot => Unused'
    BY <1>10 DEF Unused
  <2> QED BY <1>3, <2>1, <2>2
<1>11. CASE Addressing
  <2>1. cmds' = << >> /\ Head(cmds).op = "address" /\ OneFlight("address")'
    BY <1>5, <1>11 DEF Addressing
  <2>2. Addressing'
    BY <1>1, <1>7, <1>10, <1>11, <2>1 DEF Addressing
  <2> QED BY <2>2 DEF Stage
<1>12. CASE Configuring
  <2>1. cmds' = << >> /\ Head(cmds).op = "configure" /\ OneFlight("configure")'
    BY <1>5, <1>12 DEF Configuring
  <2>2. Configuring'
    BY <1>1, <1>3, <1>6, <1>8, <1>10, <1>12, <2>1 DEF Configuring
  <2> QED BY <2>2 DEF Stage
<1> QED BY <1>1, <1>9, <1>11, <1>12 DEF Stage, Untouched, Describing, Streaming, Idling

\* Past the three entries the ring holds nothing fresh, and no slot but the first answers.
LEMMA FreshEntry ==
  ASSUME Traffic, Unused, Ring, NEW s \in Slots, Fresh(s), slot[1].deq \in 0 .. 3
  PROVE  s = 1 /\ slot[1].deq \in 0 .. 2
<1>1. s = 1
  BY DEF Fresh, Answers, Unused
<1>2. slot[1].deq # 3
  BY <1>1 DEF Fresh, Ring, Zeroed
<1> QED BY <1>1, <1>2

\* The first control endpoint takes the next of the three.
LEMMA FetchStages ==
  ASSUME Traffic, Describing, Fresh(1), Fetched(1),
         UNCHANGED <<cmds, ep0Ring, sent, pending_port_id, configuring_slot>>
  PROVE  Describing'
<1> DEFINE d == slot[1].deq
<1>1. Unused /\ Ring /\ 1 \in Slots /\ d \in 0 .. 3
  BY Numbers DEF Describing
<1>2. d \in 0 .. 2
  BY <1>1, FreshEntry
<1>3. /\ slot'[1].deq = d + 1
      /\ \A t \in Slots : slot'[t].state = slot[t].state /\ slot'[t].port = slot[t].port
  BY <1>1, FetchedContexts
<1>4. /\ buffer' = IF ep0Ring[d].stage = "data" THEN slot[1].port ELSE buffer
      /\ events' = IF ep0Ring[d].stage = "status" THEN Append(events, Classified) ELSE events
      /\ bells' = bells
  BY DEF Fetched, Classified
<1>5. Unused' /\ Ring'
  BY <1>1, <1>3 DEF Unused, Ring
<1>6. Only(events, "transfer", {}) /\ Only(events, "command", {})
  BY <1>2 DEF Describing, Idling
<1>7. ep0Ring[0].stage = "setup" /\ ep0Ring[1].stage = "data" /\ ep0Ring[2].stage = "status"
  BY <1>1 DEF Ring
<1> HIDE DEF d
<1>8. slot'[1].deq \in 0 .. 3
  BY <1>2, <1>3
<1>9. slot'[1].deq >= 2 => buffer' = slot'[1].port
  <2>1. d = 0 => ~ (slot'[1].deq >= 2)
    BY <1>3
  <2>2. d = 1 => buffer' = slot'[1].port
    BY <1>1, <1>3, <1>4, <1>7
  <2>3. d = 2 => buffer' = slot'[1].port
    BY <1>1, <1>3, <1>4, <1>7 DEF Describing, d
  <2> QED BY <1>2, <2>1, <2>2, <2>3
<1>10. /\ Sole(events', "transfer") /\ Only(events', "transfer", {Classified})
       /\ Only(events', "command", {})
       /\ slot'[1].deq = 3 \/ Only(events', "transfer", {})
  <2>1. CASE d = 2
    <3>1. events' = Append(events, Classified) /\ slot'[1].deq = 3
      BY <1>3, <1>4, <1>7, <2>1
    <3>2. Classified \in Events /\ Classified.type = "transfer" /\ events \in Seq(Events)
      BY <1>1, Messages DEF Classified, Traffic
    <3> QED BY <1>6, <3>1, <3>2, QueuePut
  <2>2. CASE d # 2
    <3>1. events' = events
      BY <1>2, <1>4, <1>7, <2>2
    <3> QED BY <1>6, <3>1 DEF Describing
  <2> QED BY <2>1, <2>2
<1>11. cmds' = << >> /\ bells' \subseteq {<<1, 1>>} /\ sent' = 2 /\ pending_port_id' = 0 /\ configuring_slot' = 0
  BY <1>4 DEF Describing, Idling
<1>12. Idling'
  BY <1>10, <1>11 DEF Idling
<1> QED BY <1>5, <1>8, <1>9, <1>10, <1>11, <1>12 DEF Describing

LEMMA ControlStages ==
  ASSUME Account, Stage, NEW s \in Slots, Control(s)
  PROVE  Stage'
<1>0. Traffic
  BY DEF Account
<1>1. /\ UNCHANGED <<cmds, ep0Ring, sent, pending_port_id, configuring_slot>>
      /\ <<s, 1>> \in bells
      /\ Fresh(s) => Fetched(s)
      /\ ~ Fresh(s) => slot' = slot /\ buffer' = buffer /\ events' = events /\ bells' = bells \ {<<s, 1>>}
  BY ControlSteps DEF soft
<1>2. ~ Blank
  BY <1>1 DEF Blank
<1>3. CASE Describing /\ Fresh(s)
  <2>1. s = 1
    BY <1>0, <1>3, FreshEntry DEF Describing
  <2> QED BY <1>0, <1>1, <1>3, <2>1, FetchStages DEF Stage
<1>4. CASE Describing /\ ~ Fresh(s)
  <2>1. Unused' /\ Ring' /\ Idling'
    BY <1>1, <1>4 DEF Describing, Unused, Ring, Idling
  <2>2. Describing'
    BY <1>1, <1>4, <2>1 DEF Describing
  <2> QED BY <2>2 DEF Stage
<1>5. ASSUME Unused, Ring, slot[1].deq = 3 PROVE ~ Fresh(s)
  <2>1. slot[1].deq \in 0 .. 3 /\ slot[1].deq \notin 0 .. 2
    BY <1>5
  <2> QED BY <1>0, <1>5, <2>1, FreshEntry
<1>6. CASE Configuring
  <2>1. ~ Fresh(s)
    BY <1>5, <1>6 DEF Configuring
  <2>2. Unused' /\ Ring' /\ OneFlight("configure")'
    BY <1>1, <1>6, <2>1 DEF Configuring, Unused, Ring, OneFlight, To
  <2>3. Configuring'
    BY <1>1, <1>6, <2>1, <2>2 DEF Configuring
  <2> QED BY <2>3 DEF Stage
<1>7. CASE Streaming
  <2>1. ~ Fresh(s)
    BY <1>5, <1>7 DEF Streaming
  <2>2. Unused' /\ Ring' /\ Idling'
    BY <1>1, <1>7, <2>1 DEF Streaming, Unused, Ring, Idling
  <2>3. Streaming'
    BY <1>1, <1>7, <2>1, <2>2 DEF Streaming, Bulk
  <2> QED BY <2>3 DEF Stage
<1> QED BY <1>2, <1>3, <1>4, <1>6, <1>7 DEF Stage, Untouched, Enabling, Addressing

LEMMA BulkStages ==
  ASSUME Account, Stage, NEW s \in Slots, BulkOut(s) \/ BulkIn(s)
  PROVE  Stage'
<1>1. /\ UNCHANGED <<slot, cmds, ep0Ring, buffer, sent>>
      /\ <<s, 4>> \in bells \/ <<s, 3>> \in bells
      /\ events' = events \/ \E ep \in {3, 4} : events' = Append(events, Transfer(s, ep))
  BY DEF BulkOut, BulkIn
<1>2. ~ Blank /\ ~ (bells \subseteq {<<1, 1>>})
  BY <1>1 DEF Blank
<1>3. CASE Streaming
  <2>1. Only(events, "transfer", Bulk) /\ Only(events, "command", {}) /\ events \in Seq(Events)
    BY <1>3 DEF Streaming, Idling, Account, Traffic
  <2>2. Only(events', "transfer", Bulk) /\ Only(events', "command", {})
    <3>1. ASSUME NEW ep \in {3, 4}, events' = Append(events, Transfer(s, ep))
          PROVE  Only(events', "transfer", Bulk) /\ Only(events', "command", {})
      <4>1. /\ Transfer(s, ep) \in Events /\ Transfer(s, ep).type = "transfer" /\ Transfer(s, ep) \in Bulk
        BY Messages DEF Bulk
      <4> QED BY <2>1, <3>1, <4>1, QueuePut
    <3> QED BY <1>1, <2>1, <3>1
  <2>3. Unused' /\ Ring' /\ Idling'
    BY <1>1, <1>3, <2>2 DEF Streaming, Unused, Ring, Idling
  <2>4. Streaming'
    BY <1>1, <1>3, <2>2, <2>3 DEF Streaming, Bulk
  <2> QED BY <2>4 DEF Stage
<1> QED BY <1>2, <1>3 DEF Stage, Untouched, Enabling, Addressing, Describing, Configuring

\* The driver's index at the start of the ring: the three entries are the first three.
LEMMA FirstRequest ==
  ASSUME Traffic, ep0Ring = [i \in Cells |-> Zeroed], ep0 = [index |-> 0, cycle |-> TRUE],
         NEW s \in Slots, request_device_descriptor(s)
  PROVE  Ring'
<1>1. \A i \in 0 .. 2 : EntryAt(i) = i /\ CycleAt(i) = TRUE
  <2>1. \A n \in Nat : n < EP0_SIZE => n % EP0_SIZE = n
    BY XhciAssumption
  <2>2. \A i \in 0 .. 2 : i \in Nat /\ i < EP0_SIZE /\ ep0.index + i = i /\ ep0.cycle = TRUE
    BY XhciAssumption
  <2> QED BY <2>1, <2>2 DEF EntryAt, CycleAt
<1>2. \A c \in Cells : ep0Ring'[c] = IF Reaches(c) THEN TRBAt(Place(c)) ELSE ep0Ring[c]
  BY Requested
<1>3. ASSUME NEW c \in Cells, c >= 3 PROVE ep0Ring'[c] = Zeroed
  <2>1. ~ Reaches(c)
    BY <1>1, <1>3, Numbers DEF Reaches
  <2> QED BY <1>2, <2>1
<1>4. ASSUME NEW c \in 0 .. 2 PROVE ep0Ring'[c] = [stage |-> Trio[c + 1], cycle |-> TRUE]
  <2>1. Reaches(c) /\ c \in Cells
    BY <1>1, Numbers DEF Reaches
  <2>2. Place(c) = c
    BY <1>1, <2>1, Places
  <2> QED BY <1>1, <1>2, <2>1, <2>2 DEF TRBAt
<1>5. 0 \in 0 .. 2 /\ 1 \in 0 .. 2 /\ 2 \in 0 .. 2
  OBVIOUS
<1> QED BY <1>3, <1>4, <1>5, Stages DEF Ring

LEMMA OneCommand ==
  ASSUME NEW c, NEW op, cmds' = Append(<< >>, c), c.op = op, Only(events', "command", {})
  PROVE  OneFlight(op)'
<1>1. cmds' = <<c>> /\ Len(cmds') = 1 /\ Head(cmds') = c
  OBVIOUS
<1>2. Sole(events', "command") /\ Only(events', "command", To(op))
  BY DEF Only, Sole
<1> QED BY <1>1, <1>2 DEF OneFlight, To

\* A completion is taken.
LEMMA CommandStages ==
  ASSUME Account, Stage, PollCommand
  PROVE  Stage'
<1> DEFINE e == Head(events)
           s == e.slot
           good == e.code = 1 /\ s > 0
<1>0. Traffic /\ CallsOK
  BY DEF Account
<1>1. /\ events # << >> /\ events' = Tail(events) /\ e.type = "command" /\ UNCHANGED slot
      /\ events \in Seq(Events)
  BY <1>0 DEF PollCommand, Traffic
<1>2. Replied(e) /\ e \in Events
  BY <1>0, <1>1, TakeEvent
<1>3. /\ ~ Only(events, "command", {})
      /\ Sole(events, "command") => Only(events', "command", {})
      /\ \A T : Only(events, "command", T) => e \in T
      /\ \A T : Only(events, "transfer", T) => Only(events', "transfer", T)
  <2>1. /\ \A T : Only(events, "command", T) => e \in T
        /\ Sole(events, "command") => Only(events', "command", {})
    BY <1>1, QueueTake
  <2>2. \A T : Only(events, "transfer", T) => Only(events', "transfer", T)
    BY <1>1, QueueTake
  <2>3. Only(events, "command", {}) => e \in {}
    BY <2>1
  <2> QED BY <2>1, <2>2, <2>3
<1>4. ~ Idling
  BY <1>3 DEF Idling
<1>5. ASSUME NEW op, OneFlight(op) PROVE cmds = << >> /\ e.of = op /\ Only(events', "command", {})
  BY <1>3, <1>5 DEF OneFlight, To
<1>6. good => Answered(e) /\ s \in Slots
  BY <1>1, <1>2 DEF Replied, Answered
<1>7. ~ good => UNCHANGED <<bells, cmds, ep0Ring, buffer, pending_port_id, configuring_slot, ep0, sent>>
  BY DEF PollCommand
<1>8. ASSUME NEW op, OneFlight(op), cmds' = cmds PROVE OneFlight(op)'
  <2>1. cmds = << >> /\ Only(events', "command", {})
    BY <1>5, <1>8
  <2>2. Sole(events', "command") /\ Only(events', "command", To(op))
    BY <2>1 DEF Only, Sole
  <2> QED BY <1>8, <2>1, <2>2 DEF OneFlight, To
<1>9. CASE ~ good
  <2>1. (Unused => Unused') /\ (Blank => Blank') /\ (Ring => Ring')
    BY <1>1, <1>3, <1>7, <1>9 DEF Unused, Blank, Ring
  <2>2. Enabling => Enabling'
    BY <1>1, <1>7, <1>8, <1>9, <2>1 DEF Enabling
  <2>3. Addressing => Addressing'
    BY <1>7, <1>8, <1>9, <2>1 DEF Addressing
  <2>4. Configuring => Configuring'
    BY <1>1, <1>3, <1>7, <1>8, <1>9, <2>1 DEF Configuring
  <2> QED BY <1>4, <2>2, <2>3, <2>4 DEF Stage, Untouched, Describing, Streaming
<1>10. CASE good /\ Enabling
  <2>1. cmds = << >> /\ Only(events', "command", {})
    BY <1>5, <1>10 DEF Enabling
  <2>2. pending_port_id' = 0 /\ address_device(s, pending_port_id) /\ UNCHANGED configuring_slot
    BY <1>10 DEF PollCommand, Enabling
  <2>3. /\ cmds' = Append(<< >>, Command("address", s)) /\ sent' = 2
        /\ ep0Ring' = [i \in Cells |-> Zeroed] /\ UNCHANGED <<bells, ep0>>
    BY <1>10, <2>1, <2>2 DEF address_device, send_command, Enabling
  <2>4. OneFlight("address")'
    <3>1. Command("address", s).op = "address"
      BY DEF Command
    <3> QED BY <2>1, <2>3, <3>1, OneCommand
  <2>5. Unused' /\ Blank'
    BY <1>1, <1>3, <1>10, <2>2, <2>3 DEF Enabling, Unused, Blank
  <2>6. Addressing'
    BY <2>2, <2>3, <2>4, <2>5 DEF Addressing
  <2> QED BY <2>6 DEF Stage
<1>11. CASE good /\ Addressing
  <2>1. cmds = << >> /\ Only(events', "command", {}) /\ e.of = "address"
    BY <1>5, <1>11 DEF Addressing
  <2>2. s = 1
    BY <1>2, <1>6, <1>11, <2>1 DEF Replied, InUse, Addressing, Unused
  <2>3. request_device_descriptor(1) /\ UNCHANGED <<pending_port_id, configuring_slot>>
    BY <1>11, <2>2 DEF PollCommand, Addressing, Blank
  <2>4. bells' = bells \cup {<<1, 1>>} /\ UNCHANGED <<cmds, sent>>
    BY <2>3 DEF request_device_descriptor
  <2>5. Ring'
    BY <1>0, <1>11, <2>3, Numbers, FirstRequest DEF Addressing, Blank
  <2>6. Unused' /\ Only(events', "transfer", {}) /\ slot'[1].deq = 0
    BY <1>1, <1>3, <1>11 DEF Addressing, Unused, Blank
  <2>7. Sole(events', "transfer") /\ Only(events', "transfer", {Classified})
    BY <2>6 DEF Only, Sole
  <2>8. bells' \subseteq {<<1, 1>>} /\ Idling' /\ sent' = 2 /\ pending_port_id' = 0 /\ configuring_slot' = 0
    BY <1>11, <2>1, <2>3, <2>4 DEF Addressing, Blank, Idling
  <2>9. Describing'
    BY <2>5, <2>6, <2>7, <2>8 DEF Describing
  <2> QED BY <2>9 DEF Stage
<1>12. CASE good /\ Configuring
  <2>1. cmds = << >> /\ Only(events', "command", {}) /\ e.of = "configure"
    BY <1>5, <1>12 DEF Configuring
  <2>2. s = 1
    BY <1>2, <1>6, <2>1, <1>12 DEF Replied
  <2>3. send_scsi_read(s)
    BY <1>12, <2>2 DEF PollCommand, Configuring
  <2>4. buffer' = CBW /\ UNCHANGED <<ep0Ring, cmds, sent>>
    BY <2>3 DEF send_scsi_read
  <2>5. Only(events', "transfer", Bulk)
    BY <1>3, <1>12 DEF Configuring, Only
  <2>6. Unused' /\ Ring' /\ Idling'
    BY <1>1, <1>12, <2>1, <2>4 DEF Configuring, Unused, Ring, Idling
  <2>7. Streaming'
    BY <1>1, <1>12, <2>4, <2>5, <2>6 DEF Configuring, Streaming, Bulk
  <2> QED BY <2>7 DEF Stage
<1> QED BY <1>4, <1>9, <1>10, <1>11, <1>12 DEF Stage, Untouched, Describing, Streaming

\* A transfer event is taken.
LEMMA TransferStages ==
  ASSUME Account, Stage, PollTransfer
  PROVE  Stage'
<1> DEFINE e == Head(events)
<1>0. Traffic /\ CallsOK
  BY DEF Account
<1>1. /\ events # << >> /\ events' = Tail(events) /\ e \in Events
      /\ e.type = "transfer" /\ UNCHANGED <<slot, bells>>
      /\ \/ e = Classified /\ buffer \in Storage /\ Configure
         \/ /\ ~ (e = Classified /\ buffer \in Storage)
            /\ UNCHANGED <<cmds, ep0Ring, buffer, pending_port_id, configuring_slot, sent>>
  BY <1>0, PollTransferSteps
<1>2. events \in Seq(Events)
  BY <1>0 DEF Traffic
<1>3. /\ ~ Only(events, "transfer", {})
      /\ Sole(events, "transfer") => Only(events', "transfer", {})
      /\ \A T : Only(events, "transfer", T) => e \in T /\ Only(events', "transfer", T)
      /\ \A T : Only(events, "command", T) => Only(events', "command", T)
  <2>1. /\ \A T : Only(events, "transfer", T) => e \in T /\ Only(events', "transfer", T)
        /\ Sole(events, "transfer") => Only(events', "transfer", {})
    BY <1>1, <1>2, QueueTake
  <2>2. \A T : Only(events, "command", T) => Only(events', "command", T)
    BY <1>1, <1>2, QueueTake
  <2>3. Only(events, "transfer", {}) => e \in {}
    BY <2>1
  <2> QED BY <2>1, <2>2, <2>3
<1>4. ~ Blank /\ ~ Configuring
  BY <1>3 DEF Blank, Configuring
<1>5. CASE Describing /\ Configure
  <2>1. /\ configuring_slot' = 1 /\ cmds' = Append(cmds, Command("configure", 1)) /\ sent' = sent + 1
        /\ UNCHANGED <<ep0Ring, pending_port_id>>
    BY <1>5 DEF Configure, configure_endpoints, send_command
  <2>2. cmds' = Append(<< >>, Command("configure", 1)) /\ sent' = 3 /\ pending_port_id' = 0
    BY <1>5, <2>1 DEF Describing, Idling
  <2>3. Only(events', "command", {}) /\ Only(events', "transfer", {}) /\ slot'[1].deq = 3
    BY <1>1, <1>3, <1>5 DEF Describing, Idling
  <2>4. OneFlight("configure")'
    <3>1. Command("configure", 1).op = "configure"
      BY DEF Command
    <3> QED BY <2>2, <2>3, <3>1, OneCommand
  <2>5. Unused' /\ Ring' /\ bells' \subseteq {<<1, 1>>}
    BY <1>1, <1>5, <2>1 DEF Describing, Unused, Ring
  <2>6. Configuring'
    BY <2>1, <2>2, <2>3, <2>4, <2>5 DEF Configuring
  <2> QED BY <2>6 DEF Stage
<1>6. ASSUME UNCHANGED <<slot, bells, cmds, ep0Ring, buffer, pending_port_id, configuring_slot, sent>>
      PROVE  (Describing \/ Streaming) => Stage'
  <2>1. (Unused => Unused') /\ (Ring => Ring') /\ (Idling => Idling')
    BY <1>3, <1>6 DEF Unused, Ring, Idling
  <2>2. CASE Describing
    <3>1. Only(events', "transfer", {})
      BY <1>3, <2>2 DEF Describing
    <3>2. Sole(events', "transfer") /\ Only(events', "transfer", {Classified})
      BY <3>1 DEF Only, Sole
    <3>3. Describing'
      BY <1>6, <2>1, <2>2, <3>1, <3>2 DEF Describing
    <3> QED BY <3>3 DEF Stage
  <2>3. CASE Streaming
    <3>1. Streaming'
      BY <1>3, <1>6, <2>1, <2>3 DEF Streaming, Bulk
    <3> QED BY <3>1 DEF Stage
  <2> QED BY <2>2, <2>3
<1>7. CASE Streaming
  <2>1. e # Classified
    <3>1. e \in Bulk /\ Classified.ep = 1
      BY <1>3, <1>7 DEF Streaming, Classified, Transfer
    <3> QED BY <3>1 DEF Bulk
  <2> QED BY <1>1, <1>6, <1>7, <2>1
<1> QED BY <1>1, <1>4, <1>5, <1>6, <1>7 DEF Stage, Untouched, Enabling, Addressing

LEMMA StagedInit == Init => Staged
<1> SUFFICES ASSUME Init PROVE Staged
  OBVIOUS
<1>1. Account
  BY AccountInit
<1>2. cmds = << >> /\ events = << >> /\ sent = 0 /\ slot = [s \in Slots |-> Disabled] /\ bells = {}
      /\ ep0Ring = [i \in Cells |-> Zeroed] /\ ep0 = [index |-> 0, cycle |-> TRUE]
      /\ pending_port_id = 0 /\ configuring_slot = 0
  BY DEF Init, reset, Statics, new, init_pointers, init_interrupter
<1>3. Idling /\ Only(events, "transfer", {})
  BY <1>2 DEF Idling, Only
<1>4. Unused /\ slot[1].state = "disabled" /\ slot[1].deq = 0
  BY <1>2, Numbers DEF Unused, Disabled
<1>5. Untouched
  BY <1>2, <1>3, <1>4 DEF Untouched, Blank
<1> QED BY <1>1, <1>5 DEF Staged, Stage

LEMMA StagedStep == Staged /\ [Next]_vars => Staged'
<1> SUFFICES ASSUME Staged, [Next]_vars PROVE Staged'
  OBVIOUS
<1>1. Account /\ Account' /\ Traffic /\ MaxPlugs \in Nat
  BY AccountStep, XhciAssumption DEF Staged, Account
<1>2. plugs \in Nat /\ (plugs' = plugs \/ plugs' = plugs + 1)
  <2>1. plugs \in Nat
    BY <1>1 DEF Traffic
  <2>2. \/ \E p \in Ports : Connect(p)
        \/ plugs' = plugs
    BY DEF Next, vars, hw, Disconnect, ResetDone, Execute, Serve, Control, BulkOut, BulkIn, ScanRead,
           ScanWrite, Handle, AckReset, ReadChange, AckConnect, ResetPort, Poll, PollPort,
           PollCommand, PollTransfer
  <2> QED BY <2>1, <2>2 DEF Connect
<1>3. Alone' => Alone
  BY <1>2 DEF Alone
<1> SUFFICES ASSUME Alone' PROVE Stage'
  BY <1>1 DEF Staged
<1>4. Alone /\ Stage
  BY <1>3 DEF Staged
<1>5. ASSUME Calm PROVE Stage'
  BY <1>1, <1>4, <1>5, CalmStages
<1>6. ASSUME NEW p \in Ports, Connect(p) \/ Disconnect(p) \/ ResetDone(p) PROVE Stage'
  BY <1>1, <1>5, <1>6, PortStepsAreCalm
<1>7. CASE Execute
  BY <1>1, <1>4, <1>7, ExecuteStages
<1>8. ASSUME NEW s \in Slots, Serve(s) PROVE Stage'
  BY <1>1, <1>4, <1>8, ControlStages, BulkStages DEF Serve
<1>9. CASE ScanRead \/ ScanWrite \/ ReadChange \/ AckConnect \/ ResetPort \/ PollPort
  BY <1>1, <1>5, <1>9, PortStepsAreCalm
<1>10. CASE AckReset
  BY <1>1, <1>4, <1>5, <1>10, PortStepsAreCalm, AskStages
<1>11. CASE PollCommand
  BY <1>1, <1>4, <1>11, CommandStages
<1>12. CASE PollTransfer
  BY <1>1, <1>4, <1>12, TransferStages
<1>13. CASE UNCHANGED vars
  BY <1>1, <1>5, <1>13 DEF vars, hw, soft, Calm, Traffic
<1> QED BY <1>6, <1>7, <1>8, <1>9, <1>10, <1>11, <1>12, <1>13 DEF Next, Handle, Poll

\* One device goes through the stages in order, in whatever order its events come and
\* whether it stays or not.
THEOREM XhciStages == Spec => []Staged
<1>1. Init => Staged
  BY StagedInit
<1>2. Staged /\ [Next]_vars => Staged'
  BY StagedStep
<1> QED BY <1>1, <1>2, PTL DEF Spec

LEMMA InFlight ==
  ASSUME Traffic, NEW op, Idling \/ OneFlight(op)
  PROVE  CommandsInFlight <= 1 /\ Outstanding \subseteq {op}
<1> DEFINE R == {i \in DOMAIN events : events[i].type = "command"}
<1>1. \A i, j \in R : i = j
  BY DEF Idling, OneFlight, Only, Sole
<1>2. Cardinality(R) \in Nat /\ Cardinality(R) <= 1
  BY <1>1, AtMostOne
<1>3. CASE cmds = << >>
  <2>1. Len(cmds) = 0 /\ DOMAIN cmds = {}
    BY <1>3
  <2>2. CommandsInFlight <= 1
    BY <1>2, <2>1 DEF CommandsInFlight
  <2>3. \A i \in R : events[i].of = op
    BY DEF Idling, OneFlight, Only, To
  <2> QED BY <2>1, <2>2, <2>3 DEF Outstanding
<1>4. CASE Len(cmds) = 1 /\ Head(cmds).op = op /\ Only(events, "command", {})
  <2>1. R = {}
    BY <1>4 DEF Only
  <2>2. Cardinality(R) = 0
    BY <2>1, FS_EmptySet
  <2>3. CommandsInFlight <= 1
    BY <1>4, <2>2 DEF CommandsInFlight
  <2>4. \A i \in DOMAIN cmds : cmds[i].op = op
    <3>1. cmds \in Seq(Commands)
      BY DEF Traffic
    <3>2. DOMAIN cmds = {1} /\ Head(cmds) = cmds[1]
      BY <1>4, <3>1
    <3> QED BY <1>4, <3>2
  <2> QED BY <2>1, <2>3, <2>4 DEF Outstanding
<1> QED BY <1>3, <1>4 DEF Idling, OneFlight

\* The driver gives a completion to what it waits for, without looking at which command it
\* completes; with one device, plugged in once, that is the command it completes, and there
\* is no other.
THEOREM XhciAttribution == Spec => []Attribution
<1>1. Staged => Attribution
  <2> SUFFICES ASSUME Staged, Alone
               PROVE  /\ CommandsInFlight <= 1
                      /\ "enable" \in Outstanding => pending_port_id > 0
                      /\ "address" \in Outstanding => pending_port_id = 0 /\ configuring_slot = 0
                      /\ "configure" \in Outstanding => pending_port_id = 0 /\ configuring_slot = 1
    BY DEF Attribution
  <2>1. Traffic /\ Stage
    BY DEF Staged, Account
  <2>2. ASSUME Idling PROVE CommandsInFlight <= 1 /\ Outstanding \subseteq {"none"}
    BY <2>1, <2>2, InFlight
  <2>3. CASE Untouched \/ Describing \/ Streaming
    BY <2>2, <2>3 DEF Untouched, Describing, Streaming
  <2>4. CASE Enabling
    <3>1. CommandsInFlight <= 1 /\ Outstanding \subseteq {"enable"}
      BY <2>1, <2>4, InFlight DEF Enabling
    <3> QED BY <2>4, <3>1 DEF Enabling
  <2>5. CASE Addressing
    <3>1. CommandsInFlight <= 1 /\ Outstanding \subseteq {"address"}
      BY <2>1, <2>5, InFlight DEF Addressing
    <3> QED BY <2>5, <3>1 DEF Addressing, Blank
  <2>6. CASE Configuring
    <3>1. CommandsInFlight <= 1 /\ Outstanding \subseteq {"configure"}
      BY <2>1, <2>6, InFlight DEF Configuring
    <3> QED BY <2>6, <3>1 DEF Configuring
  <2> QED BY <2>1, <2>3, <2>4, <2>5, <2>6 DEF Stage
<1> QED BY <1>1, XhciStages, PTL

\* What the driver takes for a descriptor, and what the controller takes for a command
\* block, is one: with one device DESCRIPTOR_BUFFER is not rewritten before it is read.
THEOREM XhciBufferIsCurrent == Spec => []BufferIsCurrent
<1>1. Staged => BufferIsCurrent
  <2> SUFFICES ASSUME Staged, Alone, NEW i \in DOMAIN events, events[i].type = "transfer"
               PROVE  buffer = IF events[i].ep = 1 THEN slot[events[i].slot].port ELSE CBW
    BY DEF BufferIsCurrent
  <2>1. Stage
    BY DEF Staged
  <2>2. ~ Only(events, "transfer", {})
    BY DEF Only
  <2>3. Describing \/ Streaming
    BY <2>1, <2>2 DEF Stage, Untouched, Enabling, Addressing, Configuring, Blank
  <2>4. CASE Describing
    <3>1. events[i] = Classified /\ slot[1].deq = 3
      BY <2>2, <2>4 DEF Describing, Only
    <3>2. events[i].ep = 1 /\ events[i].slot = 1
      BY <3>1 DEF Classified, Transfer
    <3> QED BY <2>4, <3>1, <3>2 DEF Describing
  <2>5. CASE Streaming
    BY <2>5 DEF Streaming, Only, Bulk
  <2> QED BY <2>3, <2>4, <2>5
<1> QED BY <1>1, XhciStages, PTL
================================================================================
