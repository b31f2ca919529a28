------------------------------ MODULE MCCapture ------------------------------
(* Capture on conversations of two clients with the server, with what else *)
(* is on the network, cut into IP fragments, captured in part, and with a  *)
(* disk that is full at any record.                                        *)
EXTENDS Capture

M(conn, kind, units) == [conn |-> conn, kind |-> kind, units |-> units]
MCMsgs ==
  << (* 1 to 7: from the start of a connection *)
     M(1, "Reply", 1), M(1, "Login", 1), M(1, "Reply", 1),
     M(1, "Query", 1), M(1, "Reply", 1), M(1, "EOF", 1), M(1, "EOF", 1),
     (* 8 to 10: a query in two segments, a packet behind it *)
     M(1, "Query", 2), M(1, "More", 1), M(1, "EOF", 1),
     (* 11 to 17: from a query on *)
     M(2, "Query", 2), M(2, "Reply", 2), M(2, "EOF", 1),
     M(2, "Insert", 1), M(2, "EOF", 1), M(2, "Query", 1), M(2, "EOF", 1),
     (* 18 to 22: two commands in one segment *)
     M(2, "Query", 1), M(2, "Insert", 1), M(2, "EOF", 1),
     M(2, "Login", 1), M(2, "Query", 1),
     (* 23, 24: the port is used again *)
     M(1, "Query", 1), M(1, "EOF", 1) >>

U(m, i) == <<m, i>>
IpOf(c) == IF c = 1 THEN "a" ELSE "b"
Tcp_(in, flags, seq) ==
  [th_sport |-> IF in THEN 1000 ELSE MysqlPort, th_dport |-> IF in THEN MysqlPort ELSE 1000,
   th_flags |-> flags, th_seq |-> seq]
(* A frame of client c, to the server (in) or from it.                     *)
F(c, in, flags, seq, data) ==
  [ip_id |-> IF in THEN c ELSE c + 2, off |-> 0, mf |-> FALSE, proto |-> "tcp",
   ip_len |-> 40 + 60 * Len(data), caplen |-> 40 + 60 * Len(data),
   ip_src |-> IF in THEN IpOf(c) ELSE MysqlIp, ip_dst |-> IF in THEN MysqlIp ELSE IpOf(c),
   tcp |-> Tcp_(in, flags, seq), data |-> data]
C(c, seq, data) == F(c, TRUE, "", seq, data)
S(c, seq, data) == F(c, FALSE, "", seq, data)

Whole1 ==
  << F(1, TRUE, "SYN", 100, <<>>), F(1, FALSE, "SYN", 500, <<>>),
     S(1, 501, <<U(1,1)>>), C(1, 101, <<U(2,1)>>), S(1, 502, <<U(3,1)>>),
     C(1, 102, <<U(4,1)>>), C(1, 102, <<U(4,1)>>), C(1, 103, <<>>),
     S(1, 503, <<U(5,1), U(6,1), U(7,1)>>),
     C(1, 103, <<U(8,1)>>), C(1, 104, <<U(8,2), U(9,1)>>), S(1, 506, <<U(10,1)>>),
     F(1, FALSE, "FIN", 507, <<>>), F(1, TRUE, "FIN", 106, <<>>) >>
Joined2 ==
  << S(2, 700, <<>>), C(2, 200, <<U(11,1)>>), C(2, 201, <<U(11,2)>>),
     S(2, 701, <<U(12,1)>>), S(2, 702, <<U(12,2), U(13,1)>>),
     C(2, 202, <<U(14,1)>>), S(2, 704, <<U(15,1)>>),
     C(2, 203, <<U(16,1)>>), S(2, 705, <<U(17,1)>>), F(2, TRUE, "FIN", 204, <<>>) >>
Start1 == SubSeq(Whole1, 1, 9) \o <<F(1, TRUE, "FIN", 103, <<>>)>>
Join2 == Tail(Joined2)

Again1 ==
  Start1 \o << F(1, FALSE, "FIN", 600, <<>>), F(1, TRUE, "FIN", 103, <<>>),
               F(1, TRUE, "SYN", 800, <<>>), C(1, 801, <<U(23,1)>>), S(1, 901, <<U(24,1)>>) >>
Together2 ==
  << C(2, 200, <<U(18,1), U(19,1)>>), S(2, 700, <<U(20,1)>>), C(2, 202, <<U(21,1), U(22,1)>>),
     F(2, FALSE, "FIN", 701, <<>>), C(2, 204, <<>>), F(2, TRUE, "FIN", 204, <<>>) >>
(* The second segment of a query is missing.                               *)
Lost1 ==
  << F(1, TRUE, "SYN", 100, <<>>), C(1, 103, <<U(8,1)>>), S(1, 506, <<U(10,1)>>),
     C(1, 106, <<U(23,1)>>), S(1, 507, <<U(24,1)>>) >>

(* Not of the connection: another protocol, another port, another server,  *)
(* no IP, a header cut off.                                                *)
Base == C(1, 100, <<>>)
Noise ==
  << [Base EXCEPT !.proto = "udp"], [Base EXCEPT !.tcp.th_dport = 80],
     [Base EXCEPT !.tcp = Short], [S(1, 900, <<U(5,1)>>) EXCEPT !.ip_src = "t"],
     [Base EXCEPT !.proto = "none"] >>

(* A query cut into fragments, each n units of eight bytes long but for    *)
(* the last, in the order of the permutation p; then another datagram of   *)
(* the same ip_id.                                                         *)
Cut(p, n) ==
  LET frag == [i \in 1 .. 4 |->
        [C(1, 100, <<>>) EXCEPT !.off = (i - 1) * n, !.mf = i < 4,
           !.tcp = IF i = 1 THEN Tcp_(TRUE, "", 100) ELSE IF i = 4 THEN Short ELSE Garbage,
           !.data = IF i = 1 THEN <<U(4,1)>> ELSE <<>>]]
  IN [i \in DOMAIN p |-> frag[p[i]]]
Reuse == <<C(1, 120, <<U(8,1)>>), C(1, 121, <<U(8,2)>>)>>

In(scripts, little, e, size, tci, room, record) ==
  [scripts |-> scripts, little |-> little, ether |-> e, size |-> size,
   tci |-> tci, room |-> room, record |-> record]
Lots == 100

MCInputs ==
     << In(<<Whole1, Join2>>, TRUE, 0, 14, 0, Lots, TRUE),
        In(<<Whole1, Joined2>>, TRUE, 14, 14, 0, Lots, FALSE),
        In(<<Noise, Start1>>, TRUE, 0, 14, 0, Lots, TRUE),
        In(<<Again1, Together2>>, TRUE, 0, 14, 0, Lots, TRUE),
        In(<<Lost1, Together2>>, TRUE, 0, 14, 0, Lots, TRUE),
        In(<<<<Noise[5]>>, Start1>>, TRUE, 0, 14, 0, Lots, TRUE) >>
  \o [i \in 1 .. 7 |-> In(<<Start1, Join2>>, TRUE, 0, 14, 0, i - 1, TRUE)]
  \o [i \in 1 .. 9 |-> In(<<Start1>>, TRUE, <<0, 14, 18>>[1 + (i % 3)], 18,
                          <<1, 69, 17664>>[1 + ((i - 1) \div 3)], Lots, TRUE)]
  \o [i \in 1 .. 3 |-> In(<<<<C(1, 102, <<U(4,1)>>)>>>>, TRUE, 0, 18,
                          <<1, 69, 17664>>[i], Lots, TRUE)]
  \o [i \in 1 .. 20 |-> In(<<Cut(<< <<1,2,3,4>>, <<1,3,2,4>>, <<3,1,2,4>>, <<2,3,1>>,
                                    <<3,2,1,1,4>> >>[1 + (i % 5)],
                                 <<32, 185>>[1 + ((i \div 5) % 2)]) \o Reuse, Join2>>,
                           i > 10, 0, 14, 0, Lots, TRUE)]
=============================================================================
