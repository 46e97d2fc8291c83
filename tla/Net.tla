--------------------------------- MODULE Net ---------------------------------
(***************************************************************************)
(* The packets of the network crate (crates/net/src): the ARP machine and  *)
(* IPv4 headers.  A packet is a record of the fields its parser reads, and *)
(* the number of bytes there are of it.  An operator that may return       *)
(* nothing returns a set.  The crate's ingress hands a frame's payload to  *)
(* these and returns nothing: it drops the reply process_packet makes, and *)
(* a header it accepts goes no further (nobody calls payload yet).         *)
(***************************************************************************)
EXTENDS Integers, Sequences

None == {}

ArpOperation(raw) == CASE raw = 1 -> "request" [] raw = 2 -> "reply" [] OTHER -> "unknown"

\* process_packet of a machine with address ip and hardware address mac.  Mutant:
\* a reply is taken for a request.
process_packet_any(ip, mac, p) ==
  IF p.len < 28 \/ p.hardware_type # 1 \/ p.protocol_type # 2048 \/ p.target_ip # ip THEN None
  ELSE {[len |-> 28, hardware_type |-> 1, protocol_type |-> 2048, operation |-> 2,
        sender_mac |-> mac, sender_ip |-> ip, target_mac |-> p.sender_mac, target_ip |-> p.sender_ip]}
process_packet(ip, mac, p) ==
  IF \/ p.len < 28 \/ p.hardware_type # 1 \/ p.protocol_type # 2048
     \/ ArpOperation(p.operation) # "request" \/ p.target_ip # ip
  THEN None
  ELSE {[len |-> 28, hardware_type |-> 1, protocol_type |-> 2048, operation |-> 2,
        sender_mac |-> mac, sender_ip |-> ip, target_mac |-> p.sender_mac, target_ip |-> p.sender_ip]}

\* An IPv4 header is its words of 16 bits; the bytes there are, and the fields of
\* its first two words, come with it.
HeaderLength(h) == h.ihl * 4
Accepts(h) == h.len >= 20 /\ h.version = 4 /\ h.len >= HeaderLength(h)

Words(h) == SubSeq(h.words, 1, HeaderLength(h) \div 2)
Sum(words) ==
  LET sum[n \in 0 .. Len(words)] == IF n = 0 THEN 0 ELSE sum[n - 1] + words[n]
  IN sum[Len(words)]

\* The carries are added back until there are none; of at most 30 words, twice.
\* Mutant: they are dropped.
FoldDropped(sum) == sum % 65536
Fold(sum) == LET once == (sum % 65536) + (sum \div 65536)
             IN (once % 65536) + (once \div 65536)

verify_checksum(h) == Fold(Sum(Words(h))) = 65535

\* The bytes of the payload: from the first up to before the second.
payload(h) ==
  LET end == IF h.total_length < h.len THEN h.total_length ELSE h.len
  IN IF HeaderLength(h) > end THEN <<0, 0>> ELSE <<HeaderLength(h), end>>

--------------------------------------------------------------------------------
\* process_packet makes a reply exactly for a request for the machine's address; the
\* reply goes back to whoever asked, and is itself answered by no machine with the
\* address asked for or the asker's.
ArpConverses(asked, ip, mac) ==
  LET replies == process_packet(ip, mac, asked)
  IN /\ replies # None <=> /\ asked.len >= 28 /\ asked.hardware_type = 1 /\ asked.protocol_type = 2048
                           /\ asked.operation = 1 /\ asked.target_ip = ip
     /\ \A reply \in replies :
          /\ reply.target_mac = asked.sender_mac
          /\ <<reply.sender_mac, reply.sender_ip>> = <<mac, ip>>
          /\ \A other \in {ip, asked.sender_ip} : process_packet(other, mac, reply) = None

\* The checksum of RFC 1071: a header is right when its words, as numbers in one's
\* complement, sum to zero and not all are zero; and what payload would return lies
\* within the packet and the buffer.
ChecksumIsExact(h) ==
  Accepts(h) =>
    /\ verify_checksum(h) <=> Sum(Words(h)) > 0 /\ Sum(Words(h)) % 65535 = 0
    /\ payload(h)[1] <= payload(h)[2] /\ payload(h)[2] <= h.len
================================================================================
