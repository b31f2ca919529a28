---------------------------- MODULE PacketFraming ----------------------------
(***************************************************************************)
(* How Mysql_stream::append finds MySQL packets in the data of TCP         *)
(* segments.  Wire is the data of one connection in capture order: packets *)
(* of a four-byte header (length in three bytes, sequence number) and a    *)
(* body.  A segment is any stretch of it that goes one way.  One round of  *)
(* the loop in append is one step.  Of the list only the last packet       *)
(* matters here: once it is complete the next round starts another one,    *)
(* unlinked or not.                                                        *)
(***************************************************************************)
EXTENDS Integers, Sequences

CONSTANTS
  Wire,         \* the bytes: [pkt, off, len, in, val], see WireAssumption
  SplitHeaders  \* BOOLEAN: may a segment end inside a packet header?

PktHdrLen == 4
get_cur_pkt_len(h) == h[0] + 256 * h[1] + 65536 * h[2]
ByteType == [pkt : Nat, off : Nat, len : Nat, in : BOOLEAN, val : 0 .. 255]

(* Byte i is byte off of packet number pkt: pkt, len and in are those of   *)
(* its packet, and the first three bytes of a packet hold its length.  The *)
(* capture may stop anywhere.                                              *)
ASSUME WireAssumption ==
  /\ SplitHeaders \in BOOLEAN
  /\ Wire \in Seq(ByteType)
  /\ Wire # <<>> => Wire[1].off = 0 /\ Wire[1].pkt = 1
  /\ \A i \in DOMAIN Wire : Wire[i].off = 0 =>
       LET p == Wire[i]
           end == i + PktHdrLen + p.len
       IN /\ i + 3 <= Len(Wire) =>
               p.len = get_cur_pkt_len([j \in 0 .. 3 |-> Wire[i + j].val])
          /\ \A j \in 0 .. (PktHdrLen + p.len - 1) : i + j <= Len(Wire) =>
               /\ Wire[i + j].pkt = p.pkt /\ Wire[i + j].off = j
               /\ Wire[i + j].len = p.len /\ Wire[i + j].in = p.in
          /\ end <= Len(Wire) => Wire[end].off = 0 /\ Wire[end].pkt = p.pkt + 1

VARIABLES
  pos,              \* bytes consumed
  seg,              \* bytes left in the segment append is called with
  pkt_hdr,          \* header bytes received
  cur_pkt_hdr_len,  \* how many of them
  pkts,             \* packets created; from is where the body begins in Wire
  handled           \* packets handle_packet_complete was called for, in order

vars == <<pos, seg, pkt_hdr, cur_pkt_hdr_len, pkts, handled>>

PktType == [len : Nat, cur_len : Nat, in : BOOLEAN, from : Nat]
is_complete(p) == p.len = p.cur_len
Filling == pkts # <<>> /\ ~is_complete(pkts[Len(pkts)])

Init ==
  /\ pos = 0 /\ seg = 0
  /\ pkt_hdr = [i \in 0 .. 3 |-> 0] /\ cur_pkt_hdr_len = 0
  /\ pkts = <<>> /\ handled = <<>>

-----------------------------------------------------------------------------
(* Where segments may end.                                                 *)
MayCutAt(i) == ~SplitHeaders /\ i < Len(Wire)
                 => Wire[i + 1].off \notin 1 .. (PktHdrLen - 1)

(* The next n bytes arrive in a segment: append is called.                 *)
Segment(n) ==
  /\ seg = 0 /\ pos + n <= Len(Wire) /\ MayCutAt(pos + n)
  /\ \A i \in (pos + 1) .. (pos + n) : Wire[i].in = Wire[pos + 1].in
  /\ seg' = n
  /\ UNCHANGED <<pos, pkt_hdr, cur_pkt_hdr_len, pkts, handled>>

(* create_new_packet copies k header bytes; to the start of pkt_hdr, also  *)
(* when some are already there.                                            *)
CopyHeaderShifted(k) == [i \in 0 .. 3 |-> IF i + 1 < k THEN Wire[pos + i + 2].val
                                                       ELSE pkt_hdr[i]]
CopyHeader(k) == [i \in 0 .. 3 |-> IF i < k THEN Wire[pos + i + 1].val
                                            ELSE pkt_hdr[i]]

PartialHeader ==
  /\ seg > 0 /\ ~Filling
  /\ cur_pkt_hdr_len + seg < PktHdrLen
  /\ pkt_hdr' = CopyHeader(seg)
  /\ cur_pkt_hdr_len' = cur_pkt_hdr_len + seg
  /\ pos' = pos + seg /\ seg' = 0
  /\ UNCHANGED <<pkts, handled>>

(* Mysql_packet::append: how many of n bytes go into packet p.             *)
TryAppendAll(p, n) == n
TryAppendWhole(p, n) == IF p.cur_len + n > p.len THEN p.len - p.cur_len ELSE 0
TryAppend(p, n) == IF p.cur_len + n > p.len THEN p.len - p.cur_len ELSE n

(* The rest of a round: n bytes at pos at + 1 are there for the last of ps.*)
AppendToUnhandled(ps, at, n) ==
  LET p == ps[Len(ps)]
      m == TryAppend(p, n)
  IN /\ pkts' = [ps EXCEPT ![Len(ps)].cur_len = p.cur_len + m]
     /\ pos' = at + m /\ seg' = n - m
     /\ handled' = IF p.cur_len + m = p.len /\ m = n
                   THEN Append(handled, Len(ps)) ELSE handled

AppendTo(ps, at, n) ==
  LET p == ps[Len(ps)]
      m == TryAppend(p, n)
  IN /\ pkts' = [ps EXCEPT ![Len(ps)].cur_len = p.cur_len + m]
     /\ pos' = at + m /\ seg' = n - m
     /\ handled' = IF p.cur_len + m = p.len
                   THEN Append(handled, Len(ps)) ELSE handled

(* A packet is created.  When the segment ends with its header the round   *)
(* ends, also for a packet of length zero, which is never handled then.    *)
WholeHeader ==
  /\ seg > 0 /\ ~Filling
  /\ LET k  == PktHdrLen - cur_pkt_hdr_len
         h  == CopyHeader(k)
         ps == Append(pkts, [len |-> get_cur_pkt_len(h), cur_len |-> 0,
                             in |-> Wire[pos + 1].in, from |-> pos + k + 1])
     IN /\ k <= seg
        /\ pkt_hdr' = h /\ cur_pkt_hdr_len' = 0
        /\ IF k = seg
           THEN pkts' = ps /\ pos' = pos + k /\ seg' = 0 /\ UNCHANGED handled
           ELSE AppendTo(ps, pos + k, seg - k)

Body ==
  /\ seg > 0 /\ Filling
  /\ AppendTo(pkts, pos, seg)
  /\ UNCHANGED <<pkt_hdr, cur_pkt_hdr_len>>

Round == PartialHeader \/ WholeHeader \/ Body
Next == (\E n \in 1 .. (Len(Wire) - pos) : Segment(n)) \/ Round

(* append runs to its end: weak fairness of its rounds.                    *)
Spec == Init /\ [][Next]_vars /\ WF_vars(Round)

-----------------------------------------------------------------------------
(* Types and ranges; no packet takes more bytes than it was allocated for  *)
(* (Mysql_packet::append copies into data).                                *)
TypeOK ==
  /\ pos \in 0 .. Len(Wire) /\ seg \in 0 .. (Len(Wire) - pos)
  /\ pkt_hdr \in [0 .. 3 -> 0 .. 255]
  /\ cur_pkt_hdr_len \in 0 .. 3
  /\ pkts \in Seq(PktType)
  /\ \A i \in DOMAIN pkts : pkts[i].cur_len <= pkts[i].len
  /\ handled \in Seq(DOMAIN pkts)

(* The packets created are those that were sent, in order, with their      *)
(* lengths, directions and bodies, however the data were cut: the i-th has *)
(* the header of packet i of the wire in front of its body, and no byte    *)
(* between its body and the bytes consumed is left out.                    *)
FramedExactly ==
  \A i \in DOMAIN pkts :
    /\ \E j \in DOMAIN Wire :
         /\ Wire[j].pkt = i /\ Wire[j].off = 0
         /\ pkts[i].from = j + PktHdrLen
         /\ pkts[i].len = Wire[j].len /\ pkts[i].in = Wire[j].in
    /\ ~is_complete(pkts[i]) => i = Len(pkts) /\ pkts[i].from + pkts[i].cur_len = pos + 1

(* handle_packet_complete is called once for each packet that became       *)
(* complete, in order; an empty packet may be passed over.                 *)
HandledOnce ==
  /\ \A i, j \in DOMAIN handled : i < j => handled[i] < handled[j]
  /\ \A i \in DOMAIN pkts :
       /\ (\E j \in DOMAIN handled : handled[j] = i) => is_complete(pkts[i])
       /\ is_complete(pkts[i]) /\ pkts[i].len > 0
            => \E j \in DOMAIN handled : handled[j] = i

(* append returns: each segment is used up, also when it holds empty       *)
(* packets or ends with one (while (len) in append).                       *)
AppendReturns == seg > 0 ~> seg = 0
=============================================================================
