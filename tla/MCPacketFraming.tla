--------------------------- MODULE MCPacketFraming ---------------------------
(* PacketFraming on the bytes of a few packets: a query and its empty      *)
(* continuation, an answer of four packets, another query, and a packet    *)
(* of which the capture holds a part of the header only.                   *)
EXTENDS PacketFraming, SequencesExt

(* A packet of length n with sequence number s, as bytes.                  *)
Bytes(k, n, in, s) ==
  [i \in 1 .. (PktHdrLen + n) |->
     [pkt |-> k, off |-> i - 1, len |-> n, in |-> in,
      val |-> CASE i = 1 -> n % 256 [] i = 2 -> n \div 256 [] i = 4 -> s
                [] OTHER -> 0]]

MCWire == FlattenSeq(<<Bytes(1, 5, TRUE, 0), Bytes(2, 0, TRUE, 1),
                       Bytes(3, 1, FALSE, 2), Bytes(4, 4, FALSE, 3),
                       Bytes(5, 0, FALSE, 4), Bytes(6, 2, FALSE, 5),
                       Bytes(7, 3, TRUE, 0),
                       SubSeq(Bytes(8, 1, FALSE, 1), 1, 3)>>)
=============================================================================
