------------------------- MODULE PacketFramingProofs -------------------------
(* Proofs about PacketFraming, for every wire.  TypeOK and HandledOnce hold *)
(* wherever segments end; FramedExactly needs headers in one piece.        *)
EXTENDS PacketFraming, SequenceTheorems, TLAPS

USE DEF PktHdrLen

(* The types of the wire's bytes.                                          *)
LEMMA WireType ==
  /\ Wire \in Seq(ByteType) /\ Len(Wire) \in Nat /\ DOMAIN Wire = 1 .. Len(Wire)
  /\ \A i \in 1 .. Len(Wire) : Wire[i] \in ByteType
  /\ \A i \in 1 .. Len(Wire) : Wire[i].val \in 0 .. 255 /\ Wire[i].in \in BOOLEAN
<1>1. Wire \in Seq(ByteType)
  BY WireAssumption
<1>2. Len(Wire) \in Nat /\ DOMAIN Wire = 1 .. Len(Wire)
  BY <1>1
<1>3. \A i \in 1 .. Len(Wire) : Wire[i] \in ByteType
  BY <1>1
<1> QED BY <1>1, <1>2, <1>3 DEF ByteType

(* What create_new_packet makes of the header bytes has the types of a     *)
(* packet.                                                                 *)
LEMMA HeaderType ==
  ASSUME TypeOK, NEW k \in 0 .. 4, pos + k <= Len(Wire)
  PROVE  /\ CopyHeader(k) \in [0 .. 3 -> 0 .. 255]
         /\ get_cur_pkt_len(CopyHeader(k)) \in Nat
<1>1. pos \in Nat /\ pkt_hdr \in [0 .. 3 -> 0 .. 255]
  BY DEF TypeOK
<1>2. \A i \in 0 .. 3 : i < k => Wire[pos + i + 1].val \in 0 .. 255
  <2> SUFFICES ASSUME NEW i \in 0 .. 3, i < k PROVE Wire[pos + i + 1].val \in 0 .. 255
    OBVIOUS
  <2>1. pos + i + 1 \in 1 .. Len(Wire)
    BY <1>1, WireType
  <2> QED BY <2>1, WireType
<1>3. CopyHeader(k) \in [0 .. 3 -> 0 .. 255]
  BY <1>1, <1>2 DEF CopyHeader
<1>4. ASSUME NEW h \in [0 .. 3 -> 0 .. 255] PROVE get_cur_pkt_len(h) \in Nat
  <2>1. h[0] \in 0 .. 255 /\ h[1] \in 0 .. 255 /\ h[2] \in 0 .. 255
    OBVIOUS
  <2> DEFINE x == h[0]
             y == h[1]
             z == h[2]
  <2>2. get_cur_pkt_len(h) = x + 256 * y + 65536 * z
    BY DEF get_cur_pkt_len
  <2>3. x \in 0 .. 255 /\ y \in 0 .. 255 /\ z \in 0 .. 255
    BY <2>1
  <2> HIDE DEF x, y, z
  <2> QED BY <2>2, <2>3
<1> QED BY <1>3, <1>4

(* Mysql_packet::append takes at most what is there and at most what fits. *)
LEMMA TryAppendBound ==
  ASSUME NEW p \in PktType, p.cur_len <= p.len, NEW n \in Nat
  PROVE  /\ TryAppend(p, n) \in 0 .. n
         /\ p.cur_len + TryAppend(p, n) <= p.len
         /\ p.cur_len + TryAppend(p, n) < p.len => TryAppend(p, n) = n
BY DEF TryAppend, PktType

(* The end of a round keeps the types and the order of handled packets.    *)
LEMMA AppendKeeps ==
  ASSUME NEW ps \in Seq(PktType), ps # <<>>,
         \A i \in DOMAIN ps : ps[i].cur_len <= ps[i].len,
         \A i \in DOMAIN ps : i < Len(ps) => is_complete(ps[i]),
         NEW at \in Nat, NEW n \in Nat, at + n <= Len(Wire),
         handled \in Seq(1 .. Len(ps)),
         \A i, j \in DOMAIN handled : i < j => handled[i] < handled[j],
         \A i \in DOMAIN handled : handled[i] < Len(ps),
         \A i \in DOMAIN ps : i < Len(ps) /\ ps[i].len > 0
            => \E j \in DOMAIN handled : handled[j] = i,
         AppendTo(ps, at, n)
  PROVE  /\ pos' \in 0 .. Len(Wire) /\ seg' \in 0 .. (Len(Wire) - pos')
         /\ pos' + seg' = at + n
         /\ pkts' \in Seq(PktType)
         /\ \A i \in DOMAIN pkts' : pkts'[i].cur_len <= pkts'[i].len
         /\ handled' \in Seq(DOMAIN pkts')
         /\ HandledOnce'
         /\ \A i \in DOMAIN pkts' : i < Len(pkts') => is_complete(pkts'[i])
<1> DEFINE L == Len(ps)
           p == ps[L]
           m == TryAppend(p, n)
<1>a. /\ L \in Nat \ {0} /\ DOMAIN ps = 1 .. L /\ L \in 1 .. L
      /\ \A i \in 1 .. L : i # L => i < L /\ i \in 1 .. (L - 1)
  OBVIOUS
<1>b. \A i \in 1 .. L : ps[i] \in PktType /\ ps[i].cur_len <= ps[i].len
  BY <1>a, ElementOfSeq
<1>c. p \in PktType /\ p.cur_len <= p.len
  BY <1>a, <1>b
<1>d. p.cur_len \in Nat /\ p.len \in Nat
  BY <1>c DEF PktType
<1>m. m \in 0 .. n /\ p.cur_len + m <= p.len
  BY <1>c, TryAppendBound
<1>1. /\ pos' = at + m /\ seg' = n - m /\ pkts' = [ps EXCEPT ![L].cur_len = p.cur_len + m]
      /\ handled' = IF p.cur_len + m = p.len THEN Append(handled, L) ELSE handled
  BY DEF AppendTo
<1>2. pos' \in 0 .. Len(Wire) /\ seg' \in 0 .. (Len(Wire) - pos') /\ pos' + seg' = at + n
  BY SMTT(30), <1>1, <1>m, WireType
<1>3. [p EXCEPT !.cur_len = p.cur_len + m] \in PktType
  <2>1. p.cur_len + m \in Nat
    BY <1>d, <1>m
  <2> HIDE DEF m, p
  <2> QED BY <1>c, <2>1 DEF PktType
<1>4. /\ pkts' \in Seq(PktType) /\ Len(pkts') = L /\ DOMAIN pkts' = 1 .. L
      /\ \A i \in 1 .. L : i # L => pkts'[i] = ps[i]
      /\ pkts'[L] = [p EXCEPT !.cur_len = p.cur_len + m]
  <2> HIDE DEF m
  <2> QED BY <1>1, <1>a, <1>3
<1>5. pkts'[L].cur_len = p.cur_len + m /\ pkts'[L].len = p.len
  <2> HIDE DEF m, p
  <2> QED BY <1>4, <1>c DEF PktType
<1>o. \A i \in 1 .. L : i # L => is_complete(ps[i]) /\ pkts'[i] = ps[i]
  BY <1>a, <1>4
<1>h. /\ \A i \in DOMAIN handled : handled[i] < L
      /\ \A i \in 1 .. L : i # L /\ ps[i].len > 0 => \E j \in DOMAIN handled : handled[j] = i
  BY <1>a
<1> HIDE DEF m, p, L
<1>6. \A i \in DOMAIN pkts' : pkts'[i].cur_len <= pkts'[i].len
  BY ZenonT(30), <1>4, <1>5, <1>m, <1>b
<1>7. \A i \in DOMAIN pkts' : i < Len(pkts') => is_complete(pkts'[i])
  BY SMTT(30), <1>4, <1>o, <1>a
<1>8. CASE p.cur_len + m = p.len
  <2>1. handled' = Append(handled, L)
    BY <1>8, <1>1
  <2>0. handled \in Seq(1 .. L)
    BY DEF L
  <2>2. /\ handled' \in Seq(1 .. L) /\ DOMAIN handled' = 1 .. (Len(handled) + 1)
        /\ handled'[Len(handled) + 1] = L /\ Len(handled) \in Nat
        /\ DOMAIN handled = 1 .. Len(handled)
        /\ \A i \in 1 .. Len(handled) : handled'[i] = handled[i] /\ handled[i] \in 1 .. L
    BY <2>0, <2>1, <1>a
  <2>3. ASSUME NEW i \in DOMAIN handled', NEW j \in DOMAIN handled', i < j
        PROVE  handled'[i] < handled'[j]
    <3>1. i \in 1 .. Len(handled)
      BY <2>2, <2>3
    <3>2. CASE j = Len(handled) + 1
      BY <3>1, <3>2, <2>2, <1>h
    <3>3. CASE j # Len(handled) + 1
      <4>1. j \in 1 .. Len(handled)
        BY <3>3, <2>2
      <4> QED BY <4>1, <3>1, <2>2, <2>3
    <3> QED BY <3>2, <3>3
  <2>4. \A i \in DOMAIN pkts' : is_complete(pkts'[i])
    BY <1>4, <1>5, <1>8, <1>o DEF is_complete
  <2>5. ASSUME NEW i \in DOMAIN pkts', pkts'[i].len > 0
        PROVE  \E j \in DOMAIN handled' : handled'[j] = i
    <3>1. CASE i = L
      <4>1. Len(handled) + 1 \in DOMAIN handled'
        BY <2>2
      <4> QED BY <3>1, <4>1, <2>2
    <3>2. CASE i # L
      <4>1. PICK j \in DOMAIN handled : handled[j] = i
        BY <3>2, <2>5, <1>h, <1>4
      <4>2. j \in DOMAIN handled' /\ handled'[j] = i
        BY <4>1, <2>2
      <4> QED BY <4>2
    <3> QED BY <3>1, <3>2
  <2>6. HandledOnce'
    BY <2>3, <2>4, <2>5 DEF HandledOnce
  <2> QED BY <1>2, <1>4, <1>6, <1>7, <2>2, <2>6
<1>9. CASE p.cur_len + m # p.len
  <2>1. handled' = handled
    BY <1>9, <1>1
  <2>2. ~is_complete(pkts'[L])
    BY <1>5, <1>9 DEF is_complete
  <2>0. handled \in Seq(1 .. L)
    BY DEF L
  <2>3. \A j \in DOMAIN handled : handled[j] # L
    <3>0. DOMAIN handled = 1 .. Len(handled)
      BY <2>0
    <3>1. \A j \in DOMAIN handled : handled[j] \in 1 .. L
      BY <2>0, <3>0, ElementOfSeq
    <3> QED BY <3>1, <1>h, <1>a
  <2>4. ASSUME NEW i \in DOMAIN pkts'
        PROVE  /\ (\E j \in DOMAIN handled' : handled'[j] = i) => is_complete(pkts'[i])
               /\ is_complete(pkts'[i]) /\ pkts'[i].len > 0
                    => \E j \in DOMAIN handled' : handled'[j] = i
    <3>1. CASE i = L
      BY <3>1, <2>1, <2>2, <2>3
    <3>2. CASE i # L
      BY <3>2, <2>1, <1>o, <1>h, <1>4
    <3> QED BY <3>1, <3>2
  <2>5. HandledOnce'
    BY <2>1, <2>4 DEF HandledOnce
  <2> QED BY <1>2, <1>4, <1>6, <1>7, <2>0, <2>1, <2>5
<1> QED BY <1>8, <1>9

HInv == /\ TypeOK /\ HandledOnce
        /\ \A i \in DOMAIN pkts : i < Len(pkts) => is_complete(pkts[i])

LEMMA HInvInit == Init => HInv
BY WireType DEF Init, HInv, TypeOK, HandledOnce

LEMMA HInvStep == HInv /\ [Next]_vars => HInv'
<1> SUFFICES ASSUME HInv, [Next]_vars PROVE HInv'
  OBVIOUS
<1>w. Len(Wire) \in Nat
  BY WireType
<1>1. CASE \E n \in 1 .. (Len(Wire) - pos) : Segment(n)
  BY <1>1, <1>w DEF Segment, HInv, TypeOK, HandledOnce
<1>2. CASE PartialHeader
  <2>1. seg \in 0 .. 4 /\ pos + seg <= Len(Wire) /\ cur_pkt_hdr_len + seg \in 0 .. 3
        /\ pos + seg \in 0 .. Len(Wire)
    BY <1>2, <1>w DEF PartialHeader, HInv, TypeOK
  <2>2. CopyHeader(seg) \in [0 .. 3 -> 0 .. 255]
    BY <2>1, HeaderType DEF HInv
  <2> QED BY <1>2, <2>1, <2>2, <1>w DEF PartialHeader, HInv, TypeOK, HandledOnce
<1>3. CASE WholeHeader
  <2> DEFINE k  == PktHdrLen - cur_pkt_hdr_len
             h  == CopyHeader(k)
             q  == [len |-> get_cur_pkt_len(h), cur_len |-> 0,
                    in |-> Wire[pos + 1].in, from |-> pos + k + 1]
             ps == Append(pkts, q)
  <2>1. /\ k \in 1 .. 4 /\ k <= seg /\ pos + k \in Nat /\ pos + k <= Len(Wire)
        /\ seg - k \in Nat /\ pos + k + (seg - k) <= Len(Wire)
    BY <1>3, <1>w DEF WholeHeader, HInv, TypeOK
  <2>2. h \in [0 .. 3 -> 0 .. 255] /\ get_cur_pkt_len(h) \in Nat
    <3>1. k \in 0 .. 4
      BY <2>1
    <3> HIDE DEF k
    <3> QED BY <2>1, <3>1, HeaderType DEF HInv
  <2>3. q \in PktType
    <3>1. pos + 1 \in 1 .. Len(Wire)
      BY <2>1, <1>w DEF HInv, TypeOK
    <3>2. Wire[pos + 1].in \in BOOLEAN
      BY <3>1, WireType
    <3> QED BY <2>1, <2>2, <3>2 DEF PktType
  <2>4. /\ pkt_hdr' = h /\ cur_pkt_hdr_len' = 0
        /\ IF k = seg
           THEN pkts' = ps /\ pos' = pos + k /\ seg' = 0 /\ UNCHANGED handled
           ELSE AppendTo(ps, pos + k, seg - k)
    BY <1>3 DEF WholeHeader
  <2> HIDE DEF k, h
  <2>5. /\ ps \in Seq(PktType) /\ ps # <<>> /\ Len(ps) = Len(pkts) + 1
        /\ \A i \in DOMAIN pkts : ps[i] = pkts[i]
        /\ ps[Len(ps)] = q /\ DOMAIN ps = 1 .. (Len(pkts) + 1)
        /\ DOMAIN pkts = 1 .. Len(pkts) /\ Len(pkts) \in Nat
    <3> HIDE DEF q
    <3>1. pkts \in Seq(PktType)
      BY DEF HInv, TypeOK
    <3>2. Len(pkts) \in Nat /\ DOMAIN pkts = 1 .. Len(pkts)
      BY <3>1
    <3> QED BY <2>3, <3>1, <3>2
  <2>6. q.cur_len = 0 /\ q.len = get_cur_pkt_len(h)
    OBVIOUS
  <2> HIDE DEF q, ps
  <2>7. \A i \in DOMAIN pkts : is_complete(pkts[i])
    BY <1>3, <2>5 DEF WholeHeader, Filling, HInv, TypeOK
  <2>8. /\ \A i \in DOMAIN ps : ps[i].cur_len <= ps[i].len
        /\ \A i \in DOMAIN ps : i < Len(ps) => is_complete(ps[i])
    <3>1. \A i \in DOMAIN ps : i # Len(ps) => i \in DOMAIN pkts
      BY <2>5
    <3>2. \A i \in DOMAIN pkts : pkts[i].cur_len <= pkts[i].len
      BY DEF HInv, TypeOK
    <3>3. q.cur_len <= q.len
      BY <2>2, <2>6
    <3> QED BY <3>1, <3>2, <3>3, <2>5, <2>7
  <2>9. /\ handled \in Seq(1 .. Len(ps))
        /\ \A i, j \in DOMAIN handled : i < j => handled[i] < handled[j]
        /\ \A i \in DOMAIN handled : handled[i] < Len(ps)
        /\ \A i \in DOMAIN ps : i < Len(ps) /\ ps[i].len > 0
             => \E j \in DOMAIN handled : handled[j] = i
    <3>1. handled \in Seq(1 .. Len(pkts))
      BY <2>5 DEF HInv, TypeOK
    <3>2. \A i \in DOMAIN handled : handled[i] \in 1 .. Len(pkts)
      BY <3>1
    <3>3. handled \in Seq(1 .. Len(ps))
      BY <3>1, <3>2, <2>5
    <3>4. \A i, j \in DOMAIN handled : i < j => handled[i] < handled[j]
      BY DEF HInv, HandledOnce
    <3>5. \A i \in DOMAIN pkts : pkts[i].len > 0 => \E j \in DOMAIN handled : handled[j] = i
      BY <2>7 DEF HInv, HandledOnce
    <3>6. \A i \in DOMAIN handled : handled[i] < Len(ps)
      BY <3>2, <2>5
    <3>7. \A i \in DOMAIN ps : i < Len(ps) => i \in DOMAIN pkts /\ ps[i] = pkts[i]
      BY <2>5
    <3> QED BY <3>3, <3>4, <3>5, <3>6, <3>7
  <2>10. CASE k = seg
    <3>1. pkts' = ps /\ pos' = pos + k /\ seg' = 0 /\ handled' = handled
      BY <2>4, <2>10
    <3>2. TypeOK'
      BY <3>1, <2>1, <2>2, <2>4, <2>5, <2>8, <2>9, <1>w DEF TypeOK
    <3>3. \A i \in DOMAIN ps : (\E j \in DOMAIN handled : handled[j] = i)
                                 => i < Len(ps)
      BY <2>9
    <3>4. is_complete(q) => q.len = 0
      BY <2>6 DEF is_complete
    <3>5. HandledOnce'
      BY <3>1, <3>3, <3>4, <2>5, <2>8, <2>9 DEF HandledOnce
    <3> QED BY <3>1, <3>2, <3>5, <2>8 DEF HInv
  <2>11. CASE k # seg
    <3>1. AppendTo(ps, pos + k, seg - k)
      BY <2>4, <2>11
    <3>2. /\ pos' \in 0 .. Len(Wire) /\ seg' \in 0 .. (Len(Wire) - pos')
          /\ pkts' \in Seq(PktType)
          /\ \A i \in DOMAIN pkts' : pkts'[i].cur_len <= pkts'[i].len
          /\ handled' \in Seq(DOMAIN pkts')
          /\ HandledOnce'
          /\ \A i \in DOMAIN pkts' : i < Len(pkts') => is_complete(pkts'[i])
      BY <3>1, <2>1, <2>5, <2>8, <2>9, AppendKeeps
    <3> QED BY <3>2, <2>2, <2>4 DEF HInv, TypeOK
  <2> QED BY <2>10, <2>11
<1>4. CASE Body
  <2>1. /\ AppendTo(pkts, pos, seg) /\ pkts # <<>> /\ ~is_complete(pkts[Len(pkts)])
        /\ UNCHANGED <<pkt_hdr, cur_pkt_hdr_len>>
    BY <1>4 DEF Body, Filling
  <2>2. /\ pkts \in Seq(PktType) /\ DOMAIN pkts = 1 .. Len(pkts) /\ Len(pkts) \in Nat \ {0}
        /\ pos \in Nat /\ seg \in Nat /\ pos + seg <= Len(Wire)
        /\ handled \in Seq(1 .. Len(pkts))
    BY <2>1, <1>w DEF HInv, TypeOK
  <2>3. \A i \in DOMAIN handled : handled[i] \in 1 .. Len(pkts) /\ handled[i] # Len(pkts)
    BY <2>1, <2>2 DEF HInv, HandledOnce
  <2>4. /\ \A i \in DOMAIN handled : handled[i] < Len(pkts)
        /\ \A i \in DOMAIN pkts : i < Len(pkts) /\ pkts[i].len > 0
             => \E j \in DOMAIN handled : handled[j] = i
    BY <2>2, <2>3 DEF HInv, HandledOnce
  <2>5. /\ pos' \in 0 .. Len(Wire) /\ seg' \in 0 .. (Len(Wire) - pos')
        /\ pkts' \in Seq(PktType)
        /\ \A i \in DOMAIN pkts' : pkts'[i].cur_len <= pkts'[i].len
        /\ handled' \in Seq(DOMAIN pkts')
        /\ HandledOnce'
        /\ \A i \in DOMAIN pkts' : i < Len(pkts') => is_complete(pkts'[i])
    BY <2>1, <2>2, <2>4, AppendKeeps DEF HInv, TypeOK, HandledOnce
  <2> QED BY <2>1, <2>5 DEF HInv, TypeOK
<1>5. CASE UNCHANGED vars
  BY <1>5 DEF vars, HInv, TypeOK, HandledOnce
<1> QED BY <1>1, <1>2, <1>3, <1>4, <1>5 DEF Next, Round

LEMMA HInvAlways == Spec => []HInv
BY HInvInit, HInvStep, PTL DEF Spec

(* For every wire and wherever segments end: append stays within the bytes *)
(* it is given and within each packet.                                     *)
THEOREM FramingTypes == Spec => []TypeOK
BY HInvAlways, PTL DEF HInv

(* handle_packet_complete is called once for every packet that holds data. *)
THEOREM FramingHandledOnce == Spec => []HandledOnce
BY HInvAlways, PTL DEF HInv

-----------------------------------------------------------------------------
(* Packet p is packet i of the wire.                                       *)
Anchored(p, i) ==
  LET j == p.from - PktHdrLen
  IN /\ j \in 1 .. Len(Wire) /\ Wire[j].off = 0 /\ Wire[j].pkt = i
     /\ p.len = Wire[j].len /\ p.in = Wire[j].in

(* A packet of the wire begins at byte j + 1, and k packets came before.   *)
AtPacket(j, k) == j < Len(Wire) => Wire[j + 1].off = 0 /\ Wire[j + 1].pkt = k + 1

FInv ==
  /\ HInv
  /\ cur_pkt_hdr_len > 0 => pos = Len(Wire)
  /\ seg > 0 => MayCutAt(pos + seg)
  /\ ~Filling => AtPacket(pos, Len(pkts))
  /\ Filling => pkts[Len(pkts)].from + pkts[Len(pkts)].cur_len = pos + 1
  /\ \A i \in DOMAIN pkts : Anchored(pkts[i], i)

(* What the assumption on the wire says about the packet that begins at j. *)
LEMMA WirePacket ==
  ASSUME NEW j \in 1 .. Len(Wire), Wire[j].off = 0
  PROVE  /\ Wire[j].len \in Nat
         /\ j + 3 <= Len(Wire) =>
              Wire[j].len = get_cur_pkt_len([i \in 0 .. 3 |-> Wire[j + i].val])
         /\ \A i \in 0 .. 3 : j + i <= Len(Wire) => Wire[j + i].off = i
         /\ AtPacket(j + 3 + Wire[j].len, Wire[j].pkt)
<1>1. Wire[j].len \in Nat /\ j \in DOMAIN Wire
  BY WireType DEF ByteType
<1>2. /\ j + 3 <= Len(Wire) =>
           Wire[j].len = get_cur_pkt_len([i \in 0 .. 3 |-> Wire[j + i].val])
      /\ \A i \in 0 .. (PktHdrLen + Wire[j].len - 1) : j + i <= Len(Wire) => Wire[j + i].off = i
      /\ j + PktHdrLen + Wire[j].len <= Len(Wire)
           => /\ Wire[j + PktHdrLen + Wire[j].len].off = 0
              /\ Wire[j + PktHdrLen + Wire[j].len].pkt = Wire[j].pkt + 1
  BY <1>1, WireAssumption
<1>3. j + PktHdrLen + Wire[j].len = j + 3 + Wire[j].len + 1 /\ Len(Wire) \in Nat
  <2>1. \A n \in Nat : j + PktHdrLen + n = j + 3 + n + 1
    OBVIOUS
  <2> QED BY <2>1, <1>1, WireType
<1>4. \A i \in 0 .. 3 : i \in 0 .. (PktHdrLen + Wire[j].len - 1)
  BY <1>1
<1>5. AtPacket(j + 3 + Wire[j].len, Wire[j].pkt)
  BY <1>1, <1>2, <1>3 DEF AtPacket
<1> QED BY <1>1, <1>2, <1>4, <1>5

(* A round that fills the last packet up to byte pos' keeps it in place.   *)
LEMMA AppendFrames ==
  ASSUME NEW ps \in Seq(PktType), ps # <<>>,
         \A i \in DOMAIN ps : ps[i].cur_len <= ps[i].len,
         \A i \in DOMAIN ps : Anchored(ps[i], i),
         NEW at \in Nat, NEW n \in Nat,
         ps[Len(ps)].from + ps[Len(ps)].cur_len = at + 1,
         AppendTo(ps, at, n)
  PROVE  /\ \A i \in DOMAIN pkts' : Anchored(pkts'[i], i)
         /\ ~Filling' => AtPacket(pos', Len(pkts'))
         /\ Filling' => pkts'[Len(pkts')].from + pkts'[Len(pkts')].cur_len = pos' + 1
<1> DEFINE L == Len(ps)
           p == ps[L]
           m == TryAppend(p, n)
           q == pkts'[L]
           j == p.from - 4
<1>a. L \in Nat \ {0} /\ DOMAIN ps = 1 .. L /\ L \in 1 .. L
  OBVIOUS
<1>b. \A i \in 1 .. L : ps[i] \in PktType
  BY <1>a, ElementOfSeq
<1>c. p \in PktType /\ p.cur_len <= p.len /\ Anchored(p, L) /\ p.from + p.cur_len = at + 1
  BY <1>a, <1>b
<1>d. p.cur_len \in Nat /\ p.len \in Nat /\ p.from \in Nat
  BY <1>c DEF PktType
<1>m. m \in 0 .. n
  BY <1>c, TryAppendBound
<1>1. pos' = at + m /\ pkts' = [ps EXCEPT ![L].cur_len = p.cur_len + m]
  BY DEF AppendTo
<1>2. /\ Len(pkts') = L /\ DOMAIN pkts' = 1 .. L /\ pkts' # <<>>
      /\ \A i \in 1 .. L : i # L => pkts'[i] = ps[i]
      /\ q = [p EXCEPT !.cur_len = p.cur_len + m]
  <2>1. p.cur_len + m \in Nat
    BY <1>d, <1>m
  <2>2. [p EXCEPT !.cur_len = p.cur_len + m] \in PktType
    <3> HIDE DEF m, p
    <3> QED BY <1>c, <2>1 DEF PktType
  <2> HIDE DEF m
  <2> QED BY <1>1, <1>a, <2>2
<1>3. q.cur_len = p.cur_len + m /\ q.len = p.len /\ q.from = p.from /\ q.in = p.in
  <2> HIDE DEF m, p, q
  <2> QED BY <1>2, <1>c DEF PktType
<1>j. /\ j \in 1 .. Len(Wire) /\ Wire[j].off = 0 /\ Wire[j].pkt = L /\ p.len = Wire[j].len
      /\ j + 4 = p.from
  BY <1>c, <1>d DEF Anchored
<1> HIDE DEF m, p, q, L, j
<1>4. \A i \in DOMAIN pkts' : Anchored(pkts'[i], i)
  <2>1. Anchored(q, L)
    BY <1>3, <1>c DEF Anchored
  <2> QED BY <1>2, <1>a, <2>1 DEF q
<1>5. Filling' <=> ~is_complete(q)
  BY <1>2 DEF Filling, q
<1>e. p.from + p.cur_len = at + 1 /\ at \in Nat /\ n \in Nat /\ m \in Nat
  BY <1>c, <1>m
<1>6. q.from + q.cur_len = pos' + 1
  <2>1. p.from + (p.cur_len + m) = at + m + 1
    <3>1. \A a, b, c, d \in Nat : a + b = d + 1 => a + (b + c) = d + c + 1
      OBVIOUS
    <3> QED BY SMTT(30), <3>1, <1>d, <1>e
  <2> QED BY <2>1, <1>1, <1>3
<1>7. ASSUME is_complete(q) PROVE AtPacket(pos', L)
  <2>1. p.len = p.cur_len + m
    BY <1>7, <1>3 DEF is_complete
  <2>2. pos' = j + 3 + Wire[j].len
    <3>1. j \in Nat /\ j + 4 + p.cur_len = at + 1 /\ p.len = Wire[j].len
      BY <1>j, <1>e, WireType
    <3>2. at + m = j + 3 + (p.cur_len + m)
      <4>2. j \in Nat /\ p.cur_len \in Nat /\ at \in Nat /\ m \in Nat
        BY <3>1, <1>d, <1>e
      <4>3. j + 4 + p.cur_len = at + 1
        BY <3>1
      <4> DEFINE c == p.cur_len
      <4>4. c \in Nat /\ j + 4 + c = at + 1
        BY <4>2, <4>3
      <4> HIDE DEF c
      <4>5. at + m = j + 3 + (c + m)
        BY <4>2, <4>4
      <4> QED BY <4>5 DEF c
    <3> QED BY <3>1, <3>2, <2>1, <1>1
  <2>3. AtPacket(j + 3 + Wire[j].len, Wire[j].pkt)
    BY <1>j, WirePacket
  <2> QED BY <1>j, <2>2, <2>3
<1> QED BY <1>2, <1>4, <1>5, <1>6, <1>7 DEF q

LEMMA FInvInit == Init => FInv
<1> SUFFICES ASSUME Init PROVE FInv
  OBVIOUS
<1>1. ~Filling
  BY DEF Init, Filling
<1>2. AtPacket(pos, Len(pkts))
  <2>1. 0 < Len(Wire) => Wire[1].off = 0 /\ Wire[1].pkt = 1
    <3>1. 0 < Len(Wire) => Wire # <<>>
      OBVIOUS
    <3> QED BY <3>1, WireAssumption
  <2>2. pos = 0 /\ Len(pkts) = 0
    BY DEF Init
  <2> QED BY <2>1, <2>2 DEF AtPacket
<1> QED BY <1>1, <1>2, HInvInit DEF Init, FInv

LEMMA FInvStep ==
  ASSUME ~SplitHeaders
  PROVE  FInv /\ [Next]_vars => FInv'
<1> SUFFICES ASSUME FInv, [Next]_vars PROVE FInv'
  OBVIOUS
<1>h. HInv'
  BY HInvStep DEF FInv
<1>t. /\ pos \in 0 .. Len(Wire) /\ seg \in 0 .. (Len(Wire) - pos) /\ pkts \in Seq(PktType)
      /\ cur_pkt_hdr_len \in 0 .. 3 /\ pos + seg <= Len(Wire) /\ Len(Wire) \in Nat
      /\ DOMAIN pkts = 1 .. Len(pkts) /\ Len(pkts) \in Nat
      /\ \A i \in DOMAIN pkts : pkts[i].cur_len <= pkts[i].len
  <2>1. /\ pos \in 0 .. Len(Wire) /\ seg \in 0 .. (Len(Wire) - pos) /\ pkts \in Seq(PktType)
        /\ cur_pkt_hdr_len \in 0 .. 3
        /\ \A i \in DOMAIN pkts : pkts[i].cur_len <= pkts[i].len
    BY DEF FInv, HInv, TypeOK
  <2>2. Len(Wire) \in Nat
    BY WireType
  <2>3. pos + seg <= Len(Wire)
    BY <2>1, <2>2
  <2>4. DOMAIN pkts = 1 .. Len(pkts) /\ Len(pkts) \in Nat
    BY <2>1
  <2> QED BY <2>1, <2>2, <2>3, <2>4
<1>1. CASE \E n \in 1 .. (Len(Wire) - pos) : Segment(n)
  BY <1>1, <1>h, <1>t DEF Segment, FInv, AtPacket, Anchored, Filling
<1>s. ASSUME seg > 0, ~Filling
      PROVE  /\ cur_pkt_hdr_len = 0 /\ pos + 1 \in 1 .. Len(Wire)
             /\ Wire[pos + 1].off = 0 /\ Wire[pos + 1].pkt = Len(pkts) + 1
             /\ seg < 4 => pos + seg = Len(Wire)
  <2>1. pos + 1 \in 1 .. Len(Wire) /\ cur_pkt_hdr_len = 0
    BY <1>s, <1>t DEF FInv
  <2>2. Wire[pos + 1].off = 0 /\ Wire[pos + 1].pkt = Len(pkts) + 1
    BY <1>s, <1>t DEF FInv, AtPacket
  <2>3. ASSUME seg < 4, pos + seg < Len(Wire) PROVE FALSE
    <3>1. seg \in 1 .. 3 /\ pos + 1 + seg = pos + seg + 1
      BY <2>3, <1>s, <1>t
    <3>2. Wire[pos + seg + 1].off = seg
      <4>1. seg \in 0 .. 3 /\ pos + 1 + seg <= Len(Wire)
        BY <2>3, <3>1, <1>t
      <4>2. Wire[(pos + 1) + seg].off = seg
        BY <2>1, <2>2, <4>1, WirePacket
      <4> QED BY <4>2, <3>1
    <3> QED BY <3>1, <3>2, <1>s, <2>3 DEF FInv, MayCutAt
  <2> QED BY <2>1, <2>2, <2>3, <1>t
<1>2. CASE PartialHeader
  <2>1. seg > 0 /\ ~Filling /\ seg < 4
    BY <1>2, <1>s, <1>t DEF PartialHeader
  <2>2. pos' = Len(Wire) /\ seg' = 0 /\ pkts' = pkts
    BY <1>2, <2>1, <1>s DEF PartialHeader
  <2>3. ~Filling'
    BY <2>1, <2>2 DEF Filling
  <2>4. AtPacket(pos', Len(pkts'))
    BY <2>2, <1>t DEF AtPacket
  <2> QED BY <2>2, <2>3, <2>4, <1>h DEF FInv, Anchored
<1>3. CASE WholeHeader
  <2> DEFINE k  == PktHdrLen - cur_pkt_hdr_len
             h  == CopyHeader(k)
             q  == [len |-> get_cur_pkt_len(h), cur_len |-> 0,
                    in |-> Wire[pos + 1].in, from |-> pos + k + 1]
             ps == Append(pkts, q)
             j  == pos + 1
  <2>1. seg > 0 /\ ~Filling /\ k <= seg
    BY <1>3 DEF WholeHeader
  <2>2. /\ k = 4 /\ j \in 1 .. Len(Wire) /\ Wire[j].off = 0 /\ Wire[j].pkt = Len(pkts) + 1
        /\ pos + 4 <= Len(Wire) /\ pos + 4 \in Nat /\ seg - 4 \in Nat /\ cur_pkt_hdr_len = 0
    BY <2>1, <1>s, <1>t
  <2>3. get_cur_pkt_len(h) = Wire[j].len
    <3>1. h = [i \in 0 .. 3 |-> Wire[pos + i + 1].val]
      BY <2>2 DEF CopyHeader
    <3>2. \A i \in 0 .. 3 : pos + i + 1 = j + i
      BY <1>t
    <3>3. h = [i \in 0 .. 3 |-> Wire[j + i].val]
      BY <3>1, <3>2
    <3>4. j + 3 <= Len(Wire)
      BY <2>2, <1>t
    <3> HIDE DEF h, j
    <3> QED BY <3>3, <3>4, <2>2, WirePacket
  <2>4. /\ cur_pkt_hdr_len' = 0
        /\ IF k = seg
           THEN pkts' = ps /\ pos' = pos + k /\ seg' = 0 /\ UNCHANGED handled
           ELSE AppendTo(ps, pos + k, seg - k)
    BY <1>3 DEF WholeHeader
  <2>5. q \in PktType /\ Anchored(q, Len(pkts) + 1)
    <3>1. Wire[j].in \in BOOLEAN /\ Wire[j].len \in Nat
      BY <2>2, WireType, WirePacket
    <3>2. q = [len |-> Wire[j].len, cur_len |-> 0, in |-> Wire[j].in, from |-> pos + 5]
      <4>1. pos + k + 1 = pos + 5
        BY <2>2, <1>t
      <4> QED BY <2>3, <4>1
    <3>3. pos + 5 \in Nat /\ pos + 5 - PktHdrLen = j
      BY <1>t
    <3> HIDE DEF q, j
    <3>4. q \in PktType
      BY <3>1, <3>2, <3>3 DEF PktType
    <3>5. q.from - PktHdrLen = j /\ q.len = Wire[j].len /\ q.in = Wire[j].in
      <4>1. q.from = pos + 5 /\ q.len = Wire[j].len /\ q.in = Wire[j].in
        BY <3>2
      <4> QED BY <4>1, <3>3, <1>t
    <3>6. Anchored(q, Len(pkts) + 1)
      BY <3>5, <2>2 DEF Anchored
    <3> QED BY <3>4, <3>6
  <2>f. q.from + q.cur_len = pos + k + 1 /\ q.cur_len = 0 /\ q.len = get_cur_pkt_len(h)
    BY <2>2, <1>t
  <2>g. q.len \in Nat
    BY <2>5 DEF PktType
  <2> HIDE DEF q
  <2>6. /\ ps \in Seq(PktType) /\ ps # <<>> /\ Len(ps) = Len(pkts) + 1
        /\ DOMAIN ps = 1 .. (Len(pkts) + 1)
        /\ \A i \in DOMAIN pkts : ps[i] = pkts[i]
        /\ ps[Len(ps)] = q
    BY <2>5, <1>t
  <2>7. /\ \A i \in DOMAIN ps : Anchored(ps[i], i)
        /\ \A i \in DOMAIN ps : ps[i].cur_len <= ps[i].len
    <3>1. \A i \in DOMAIN ps : i # Len(ps) => i \in DOMAIN pkts
      BY <2>6, <1>t
    <3>2. \A i \in DOMAIN pkts : Anchored(pkts[i], i)
      BY DEF FInv
    <3>3. q.cur_len <= q.len
      BY <2>f, <2>g
    <3> HIDE DEF ps
    <3> QED BY <3>1, <3>2, <3>3, <2>5, <2>6, <1>t
  <2> HIDE DEF ps, h, j
  <2>c. MayCutAt(pos + seg)
    BY <2>1 DEF FInv
  <2>8. CASE k = seg
    <3>1. pkts' = ps /\ pos' = pos + 4 /\ seg' = 0
      BY <2>4, <2>8, <2>2
    <3>2. Filling' <=> ~is_complete(q)
      BY <3>1, <2>6 DEF Filling
    <3>3. ASSUME is_complete(q) PROVE AtPacket(pos', Len(pkts'))
      <4>1. q.len = 0 /\ Wire[j].len = 0
        BY <3>3, <2>f, <2>3 DEF is_complete
      <4>2. j + 3 + Wire[j].len = pos + 4
        BY <4>1, <1>t DEF j
      <4>3. AtPacket(j + 3 + Wire[j].len, Wire[j].pkt)
        BY <2>2, WirePacket
      <4> QED BY <4>2, <4>3, <2>2, <2>6, <3>1
    <3>4. q.from + q.cur_len = pos' + 1
      BY <3>1, <2>f, <2>2, <1>t
    <3> QED BY <3>1, <3>2, <3>3, <3>4, <2>4, <2>6, <2>7, <1>h DEF FInv
  <2>9. CASE k # seg
    <3>1. AppendTo(ps, pos + k, seg - k)
      BY <2>4, <2>9
    <3>2. pos + k \in Nat /\ seg - k \in Nat
      BY <2>2
    <3>3. /\ \A i \in DOMAIN pkts' : Anchored(pkts'[i], i)
          /\ ~Filling' => AtPacket(pos', Len(pkts'))
          /\ Filling' => pkts'[Len(pkts')].from + pkts'[Len(pkts')].cur_len = pos' + 1
      BY <3>1, <3>2, <2>6, <2>7, <2>f, AppendFrames
    <3>4. pos' + seg' = pos + seg
      <4> DEFINE m == TryAppend(ps[Len(ps)], seg - k)
      <4>1. pos' = pos + k + m /\ seg' = seg - k - m
        BY <3>1 DEF AppendTo
      <4>2. ps[Len(ps)] \in PktType /\ ps[Len(ps)].cur_len <= ps[Len(ps)].len
        BY <2>5, <2>6, <2>f, <2>g
      <4>3. m \in 0 .. (seg - k)
        BY <4>2, <3>2, TryAppendBound
      <4> HIDE DEF m
      <4> QED BY <4>1, <4>3, <2>2, <1>t
    <3> QED BY <3>3, <3>4, <2>4, <2>c, <1>h DEF FInv, MayCutAt
  <2> QED BY <2>8, <2>9
<1>4. CASE Body
  <2> DEFINE p == pkts[Len(pkts)]
             m == TryAppend(p, seg)
  <2>1. seg > 0 /\ Filling /\ AppendTo(pkts, pos, seg) /\ cur_pkt_hdr_len' = cur_pkt_hdr_len
    BY <1>4 DEF Body
  <2>2. pkts # <<>> /\ Len(pkts) \in 1 .. Len(pkts)
    BY <2>1, <1>t DEF Filling
  <2>3. p.from + p.cur_len = pos + 1 /\ \A i \in DOMAIN pkts : Anchored(pkts[i], i)
    BY <2>1 DEF FInv
  <2>4. /\ \A i \in DOMAIN pkts' : Anchored(pkts'[i], i)
        /\ ~Filling' => AtPacket(pos', Len(pkts'))
        /\ Filling' => pkts'[Len(pkts')].from + pkts'[Len(pkts')].cur_len = pos' + 1
    BY SMTT(30), <2>1, <2>2, <2>3, <1>t, AppendFrames
  <2>5. p \in PktType /\ p.cur_len <= p.len
    BY <2>2, <1>t, ElementOfSeq
  <2>6. pos' = pos + m /\ seg' = seg - m /\ m \in 0 .. seg
    BY SMTT(30), <2>1, <2>5, <1>t, TryAppendBound DEF AppendTo
  <2> HIDE DEF m
  <2>7. pos' + seg' = pos + seg /\ cur_pkt_hdr_len' = 0
    BY <2>1, <2>6, <1>t DEF FInv
  <2>8. MayCutAt(pos + seg)
    BY <2>1 DEF FInv
  <2> QED BY <2>4, <2>7, <2>8, <1>h DEF FInv, MayCutAt
<1>5. CASE UNCHANGED vars
  BY <1>5, <1>h DEF vars, FInv, AtPacket, Anchored, Filling
<1> QED BY <1>1, <1>2, <1>3, <1>4, <1>5 DEF Next, Round

LEMMA FInvFrames == FInv => FramedExactly
<1> SUFFICES ASSUME FInv, NEW i \in DOMAIN pkts
             PROVE  /\ \E j \in DOMAIN Wire :
                          /\ Wire[j].pkt = i /\ Wire[j].off = 0
                          /\ pkts[i].from = j + PktHdrLen
                          /\ pkts[i].len = Wire[j].len /\ pkts[i].in = Wire[j].in
                    /\ ~is_complete(pkts[i])
                         => i = Len(pkts) /\ pkts[i].from + pkts[i].cur_len = pos + 1
  BY DEF FramedExactly
<1>1. pkts \in Seq(PktType)
  BY DEF FInv, HInv, TypeOK
<1>2. DOMAIN pkts = 1 .. Len(pkts) /\ Len(pkts) \in Nat /\ pkts[i] \in PktType
  BY <1>1, ElementOfSeq
<1>3. pkts[i].from \in Nat
  BY <1>2 DEF PktType
<1>4. Anchored(pkts[i], i)
  BY DEF FInv
<1>5. pkts[i].from - 4 \in DOMAIN Wire /\ pkts[i].from = pkts[i].from - 4 + PktHdrLen
  BY <1>3, <1>4, WireType DEF Anchored
<1>6. ~is_complete(pkts[i]) => i = Len(pkts) /\ Filling
  BY <1>2 DEF FInv, HInv, Filling
<1> QED BY <1>4, <1>5, <1>6 DEF FInv, Anchored

(* The packets found are those that were sent, for every wire and however  *)
(* it is cut, as long as no segment ends inside a packet header: append,   *)
(* create_new_packet and Mysql_packet::append implement the framing.       *)
THEOREM FramingExact == ~SplitHeaders /\ Spec => []FramedExactly
<1>1. CASE ~SplitHeaders
  <2>1. Init => FInv
    BY FInvInit
  <2>2. FInv /\ [Next]_vars => FInv'
    BY <1>1, FInvStep
  <2> QED BY <2>1, <2>2, FInvFrames, PTL DEF Spec
<1>2. CASE SplitHeaders
  BY <1>2
<1> QED BY <1>1, <1>2
=============================================================================
