------------------------------- MODULE Capture -------------------------------
(***************************************************************************)
(* Mysql_stream_manager::process_pkt: from the frames of a capture to the  *)
(* records of a replay file, and back from the file to streams.            *)
(* The program reads a capture with -r and, in a later run, the file it    *)
(* wrote.  Frames of several conversations are interleaved; a conversation *)
(* is a sequence of frames as they were captured, with what was captured   *)
(* twice, and what was not, in it.                                         *)
(* Data are units <<m, i>>: part i of MySQL packet m; part 1 has the       *)
(* header and the command byte.  (PacketFraming has the bytes.)            *)
(***************************************************************************)
EXTENDS IpFragments, EthDetect, ReplayFile, SequencesExt, FiniteSetsExt

CONSTANTS
  MysqlIp, MysqlPort,  \* the server that is traced (-i, -p)
  Msgs,                \* MySQL packets: [conn, kind, units], see MsgType
  Inputs               \* what the program is run on, a sequence

MsgKind == {"Login", "Query", "Insert", "More", "Reply", "EOF"}
MsgType == [conn : Nat, kind : MsgKind, units : Nat \ {0}]

(* What stands where a TCP header should be in a fragment that is not the  *)
(* first: text, which names no port of the server, or too few bytes.       *)
Garbage == [th_sport |-> 0, th_dport |-> 0, th_flags |-> "Garbage", th_seq |-> 0]
Short == [Garbage EXCEPT !.th_flags = "Short"]

(* ip_len is the length of the datagram and caplen how much of it (and of  *)
(* padding) was captured; proto is "tcp", "udp" or, with no IPv4 header in *)
(* the frame, "none".  ether is option -e (0: not given); size and tci are *)
(* those of the link header; room is how many records fit on the disk.     *)
Units == UNION {{m} \X (1 .. Msgs[m].units) : m \in DOMAIN Msgs}
Offsets == 0 .. 8191
Tags == 0 .. 65535
IsFrame(f) ==
  /\ f.ip_len \in Nat /\ f.caplen \in Nat /\ f.proto \in {"tcp", "udp", "none"}
  /\ f.mf \in BOOLEAN /\ f.off \in Offsets
  /\ f.data \in Seq(Units)
IsInput(in) ==
  /\ in.little \in BOOLEAN /\ in.record \in BOOLEAN
  /\ in.ether \in {0, 14, 18} /\ in.size \in {14, 18} /\ in.tci \in Tags
  /\ in.room \in Nat
  /\ \A c \in DOMAIN in.scripts :
       /\ in.scripts[c] \in Seq(Range(in.scripts[c]))
       /\ \A i \in DOMAIN in.scripts[c] : IsFrame(in.scripts[c][i])

ASSUME CaptureAssumption ==
  /\ Msgs \in Seq(MsgType)
  /\ \A n \in DOMAIN Inputs : IsInput(Inputs[n])

(* The constants under names that TLC evaluates once.                      *)
Runs == Inputs
Messages == Msgs

VARIABLES
  run,         \* which of Inputs
  pos,         \* frames read of each conversation
  ether,       \* info.ethernet_header_size
  packet_map,  \* IP_stream: the fragment lists
  lookup,      \* streams by key, see NewStream
  appended,    \* history: the units appended for each key
  phase        \* "capture", "undetected", "aborted", "failed", "reading", "done"

captureVars == <<pos, ether, packet_map, lookup, appended, file>>
vars == <<run, captureVars, phase, readVars>>

input == Runs[run]
NoSeq == -1
NoPacket == [in |-> FALSE, units |-> 0, got |-> <<>>]
NoQuery == <<>>

Init ==
  /\ run \in DOMAIN Runs
  /\ pos = [c \in DOMAIN input.scripts |-> 0]
  /\ ether = input.ether
  /\ packet_map = EmptyMap /\ lookup = EmptyMap /\ appended = EmptyMap
  /\ file = <<>> /\ phase = "capture"
  /\ ReadInit

-----------------------------------------------------------------------------
(* The frame and what process_pkt reads from it.                           *)

(* An IPv4 header is read at the end of the link header; with a VLAN tag   *)
(* the tag and the types around it are read at offsets 14 and 15.          *)
NoHeader == [version |-> 0, ihl |-> 0, total |-> 0]
Views(f) ==
  [o \in ETH_MIN .. ETH_MAX |->
     IF o = input.size /\ f.proto # "none" THEN [version |-> 4, ihl |-> 5, total |-> f.ip_len]
     ELSE IF input.size = 18 /\ o = 14
     THEN [version |-> input.tci \div 4096, ihl |-> (input.tci \div 256) % 16, total |-> 2048]
     ELSE IF input.size = 18 /\ o = 15 /\ f.proto # "none"
     THEN [version |-> (input.tci % 256) \div 16, ihl |-> input.tci % 16, total |-> 69]
     ELSE NoHeader]

EtherAfter(f) ==
  IF ether # 0 THEN ether ELSE detect_eth_header_size(Views(f), input.size + f.caplen)

(* With a wrong header size the bytes read are not an IP header of TCP.    *)
IsTcp(f) == EtherAfter(f) = input.size /\ f.proto = "tcp" /\ f.caplen >= MIN_IP_HEADER_LEN

Raw(f) == ip_off(f, input.little)
IsFragment(f) == IsTcp(f) /\ HasFlagMF(Raw(f))
Payload(f) == [tcp |-> f.tcp, data |-> f.data]

(* The TCP header and data that stand for the datagram: those of the first *)
(* fragment enqueued under its ip_id when there is one.                    *)
HeadOf(f) ==
  IF has_fragments(packet_map, f.ip_id) THEN get_first_fragment(packet_map[f.ip_id]).payload
  ELSE Payload(f)
Tcp(f) == HeadOf(f).tcp

(* All the data that go to append: of a fragmented datagram not those of   *)
(* its last fragment, the frame at hand.                                   *)
DataOf(f) ==
  IF has_fragments(packet_map, f.ip_id)
  THEN FlattenSeq(<<HeadOf(f).data>>
         \o [i \in DOMAIN RemainingFragments(packet_map[f.ip_id]) |->
               RemainingFragments(packet_map[f.ip_id])[i].payload.data])
  ELSE f.data

IsIn(f) == f.ip_dst = MysqlIp /\ Tcp(f).th_dport = MysqlPort
KeyOfSource(f) == <<f.ip_src, IF IsIn(f) THEN Tcp(f).th_sport ELSE Tcp(f).th_dport>>
KeyOf(f) == IF IsIn(f) THEN <<f.ip_src, Tcp(f).th_sport>> ELSE <<f.ip_dst, Tcp(f).th_dport>>

(* The data begin with a command of which the text has one of the words    *)
(* select, update, delete, alter, call and show.                           *)
could_be_query(data) ==
  data # <<>> /\ data[1][2] = 1 /\ Messages[data[1][1]].kind = "Query"

-----------------------------------------------------------------------------
(* Streams.  open is the last packet while bytes of it are missing, query  *)
(* the packet last_query points to, more the client packets on the list    *)
(* behind it.                                                              *)
NewStream(f) ==
  [src |-> <<f.ip_src, Tcp(f).th_sport>>, dst |-> <<f.ip_dst, Tcp(f).th_dport>>,
   last_tcp_seq |-> NoSeq, open |-> NoPacket, query |-> NoQuery, more |-> <<>>]
StreamFor(f) ==
  IF KeyOf(f) \in DOMAIN lookup THEN lookup[KeyOf(f)] ELSE NewStream(f)

starting_packet(s) == s.open = NoPacket

(* seq - last_tcp_seq > 0, the difference being unsigned.                  *)
SeqAlwaysNew(s, seq) == TRUE
SeqIsNew(s, seq) == s.last_tcp_seq = NoSeq \/ seq # s.last_tcp_seq

is_query(p) == p.in /\ Messages[p.got[1][1]].kind \in {"Query", "Insert"}
is_eof(p) == ~p.in /\ Messages[p.got[1][1]].kind = "EOF"

(* Mysql_stream::get_key.                                                  *)
get_key(s, in) == IF in THEN s.dst ELSE s.src
Record(s, k, p) == [key |-> get_key(s, p.in), in |-> p.in, data |-> p.got, of |-> k]

(* handle_packet_complete for packet p of stream s with lookup key k: the  *)
(* stream after it and the records it writes.                              *)
EofKeepsQuery(s, k, p) ==
  [s |-> [s EXCEPT !.more = <<>>],
   out |-> <<Record(s, k, p)>> \o [i \in DOMAIN s.more |-> Record(s, k, s.more[i])]]
EofKeepsMore(s, k, p) ==
  [s |-> [s EXCEPT !.query = NoQuery],
   out |-> <<Record(s, k, p)>> \o [i \in DOMAIN s.more |-> Record(s, k, s.more[i])]]
EofOfQuery(s, k, p) ==
  [s |-> [s EXCEPT !.query = NoQuery, !.more = <<>>],
   out |-> <<Record(s, k, p)>> \o [i \in DOMAIN s.more |-> Record(s, k, s.more[i])]]
PacketComplete(s, k, p) ==
  IF is_query(p)
  THEN [s |-> [s EXCEPT !.query = p.got, !.more = <<>>], out |-> <<Record(s, k, p)>>]
  ELSE IF s.query # NoQuery /\ is_eof(p) THEN EofOfQuery(s, k, p)
  ELSE [s |-> IF p.in /\ s.query # NoQuery THEN [s EXCEPT !.more = Append(@, p)] ELSE s,
        out |-> <<>>]

(* One unit of append: it goes into the open packet, or a packet begins    *)
(* with it.  A unit that is not the first of its packet is text that is    *)
(* taken for a header: its third byte makes the length 2 MB at least, and  *)
(* the packet does not become complete within the capture (see README).    *)
Endless == 1000
Opened(s, u, in) ==
  IF starting_packet(s)
  THEN [in |-> in, units |-> IF u[2] = 1 THEN Messages[u[1]].units ELSE Endless, got |-> <<u>>]
  ELSE [s.open EXCEPT !.got = Append(@, u)]

AppendUnit(acc, u, k, in) ==
  LET p == Opened(acc.s, u, in)
  IN IF Len(p.got) < p.units THEN [acc EXCEPT !.s.open = p]
     ELSE LET c == PacketComplete([acc.s EXCEPT !.open = NoPacket], k, p)
          IN [s |-> c.s, out |-> acc.out \o c.out]

AppendData(s, k, data, in) ==
  LET after[i \in 0 .. Len(data)] ==
        IF i = 0 THEN [s |-> s, out |-> <<>>] ELSE AppendUnit(after[i - 1], data[i], k, in)
  IN after[Len(data)]

(* Records written, until the disk is full: replay_write then reports an   *)
(* error, the exception ends the program and a part of the record is left. *)
DiskHolds(rs) == ~input.record \/ Len(file) + Len(rs) <= input.room
Write(rs) ==
  /\ file' = IF ~input.record THEN file
             ELSE IF DiskHolds(rs) THEN file \o rs
             ELSE Append(file \o SubSeq(rs, 1, input.room - Len(file)), Torn)
  /\ phase' = IF DiskHolds(rs) THEN phase ELSE "failed"

-----------------------------------------------------------------------------
(* process_pcap_file: one frame is read and handled.                       *)

ReadFrame(c) ==
  /\ phase = "capture"
  /\ pos[c] < Len(input.scripts[c])
  /\ pos' = [pos EXCEPT ![c] = @ + 1]
Frame(c) == input.scripts[c][pos[c] + 1]

Handled(c) == ReadFrame(c) /\ EtherAfter(Frame(c)) # 0 /\ ether' = EtherAfter(Frame(c))

Undetected(c) ==
  /\ ReadFrame(c) /\ EtherAfter(Frame(c)) = 0
  /\ phase' = "undetected"
  /\ UNCHANGED <<run, ether, packet_map, lookup, appended, file, readVars>>

EnqueueFragment(c) ==
  LET f == Frame(c)
  IN /\ Handled(c) /\ IsFragment(f)
     /\ packet_map' = enqueue(packet_map, f.ip_id, [offset |-> Raw(f), payload |-> Payload(f)])
     /\ UNCHANGED <<run, lookup, appended, file, phase, readVars>>

(* assert(0): a first fragment that is too short for a TCP header.         *)
ShortFragment(c) ==
  LET f == Frame(c)
  IN /\ Handled(c) /\ IsTcp(f) /\ ~IsFragment(f)
     /\ has_fragments(packet_map, f.ip_id) /\ Tcp(f) = Short
     /\ phase' = "aborted"
     /\ UNCHANGED <<run, packet_map, lookup, appended, file, readVars>>

(* The frames that come as far as a TCP header with a port of the server.  *)
HasPort(f) ==
  /\ IsTcp(f) /\ ~IsFragment(f) /\ Tcp(f) # Short
  /\ MysqlPort \in {Tcp(f).th_sport, Tcp(f).th_dport}

(* A conversation is joined by a SYN, by any frame of the client, and by   *)
(* what looks like a query.                                                *)
Joins(f) ==
  KeyOf(f) \in DOMAIN lookup \/ Tcp(f).th_flags = "SYN" \/ IsIn(f) \/ could_be_query(HeadOf(f).data)

Ignored(c) ==
  LET f == Frame(c)
  IN /\ Handled(c) /\ ~IsFragment(f)
     /\ IsTcp(f) /\ has_fragments(packet_map, f.ip_id) => Tcp(f) # Short
     /\ HasPort(f) => ~Joins(f)
     /\ UNCHANGED <<run, packet_map, lookup, appended, file, phase, readVars>>

(* FIN or RST on a known stream.  Data in the frame are not looked at.     *)
StreamEnd(c) ==
  LET f == Frame(c)
      k == KeyOf(f)
  IN /\ Handled(c) /\ HasPort(f)
     /\ k \in DOMAIN lookup /\ Tcp(f).th_flags = "FIN"
     /\ Write(<<[key |-> get_key(lookup[k], TRUE), in |-> TRUE, data |-> <<>>, of |-> k]>>)
     /\ lookup' = [x \in DOMAIN lookup \ {k} |-> lookup[x]]
     /\ UNCHANGED <<run, packet_map, appended, readVars>>

(* Any other frame of a stream, made now if need be: without data nothing  *)
(* else happens, a repeated sequence number is dropped, and so is what the *)
(* client sends where a packet starts, unless it looks like a query.       *)
PassesIfQuery(f, s) ==
  /\ SeqIsNew(s, Tcp(f).th_seq)
  /\ IsIn(f) => could_be_query(HeadOf(f).data)
Passes(f, s) ==
  /\ SeqIsNew(s, Tcp(f).th_seq)
  /\ IsIn(f) /\ starting_packet(s) => could_be_query(HeadOf(f).data)

Data(c) ==
  LET f == Frame(c)
      k == KeyOf(f)
      s == StreamFor(f)
      seen == IF HeadOf(f).data = <<>> THEN s ELSE [s EXCEPT !.last_tcp_seq = Tcp(f).th_seq]
      done == AppendData(seen, k, DataOf(f), IsIn(f))
      put(x) == [y \in DOMAIN lookup \cup {k} |-> IF y = k THEN x ELSE lookup[y]]
  IN /\ Handled(c) /\ HasPort(f) /\ Joins(f)
     /\ k \in DOMAIN lookup => Tcp(f).th_flags # "FIN"
     /\ IF HeadOf(f).data # <<>> /\ Passes(f, s)
        THEN /\ lookup' = put(done.s) /\ Write(done.out)
             /\ appended' = [y \in DOMAIN appended \cup {k} |->
                               (IF y \in DOMAIN appended THEN appended[y] ELSE <<>>)
                                 \o (IF y = k THEN DataOf(f) ELSE <<>>)]
        ELSE /\ lookup' = put(seen)
             /\ UNCHANGED <<appended, file, phase>>
     /\ UNCHANGED <<run, packet_map, readVars>>

-----------------------------------------------------------------------------
(* A later run reads the file: process_replay_file, find_or_make_stream.   *)

Reopen ==
  /\ \/ phase = "capture" /\ \A c \in DOMAIN pos : pos[c] = Len(input.scripts[c])
     \/ phase \in {"undetected", "aborted", "failed"}
  /\ input.record
  /\ phase' = "reading"
  /\ UNCHANGED <<run, captureVars, readVars>>

ReadBack ==
  /\ phase = "reading" /\ ReadNext
  /\ UNCHANGED <<run, pos, ether, packet_map, lookup, appended, phase>>

(* The end of the file or a record that is cut off.                        *)
FileEnd ==
  /\ phase = "reading" /\ ~Readable
  /\ phase' = "done"
  /\ UNCHANGED <<run, captureVars, readVars>>

Next ==
  \/ \E c \in DOMAIN pos :
       \/ Undetected(c) \/ EnqueueFragment(c) \/ ShortFragment(c)
       \/ Ignored(c) \/ StreamEnd(c) \/ Data(c)
  \/ Reopen \/ ReadBack \/ FileEnd

Spec == Init /\ [][Next]_vars

-----------------------------------------------------------------------------
(* Each variable in its range; a fragment list is never empty.             *)
TypeOK ==
  /\ phase \in {"capture", "undetected", "aborted", "failed", "reading", "done"}
  /\ ether \in {0} \cup ETH_MIN .. ETH_MAX
  /\ \A id \in DOMAIN packet_map : packet_map[id].frag # <<>>
  /\ \A k \in DOMAIN lookup :
       /\ k \in {lookup[k].src, lookup[k].dst}
       /\ ~starting_packet(lookup[k]) => Len(lookup[k].open.got) < lookup[k].open.units
       /\ lookup[k].query = NoQuery => lookup[k].more = <<>>
  /\ rpos \in 0 .. Len(file)
  /\ \A k \in DOMAIN rlookup : rlookup[k] \in DOMAIN rstreams

(* Once the first frame of a conversation was read and holds a whole       *)
(* datagram, the size of the link header is the right one, whatever VLAN   *)
(* it names, if no byte of the tag looks like the first of an IP header    *)
(* (version 4, five words or more).  Nothing is claimed of a frame without *)
(* a whole datagram: detect_eth_header_size returns 0 for it and the       *)
(* program ends, while its doc and its test want 14 (pcap_detect.cc:93,    *)
(* 193).                                                                   *)
TagLooksLikeIp ==
  input.size = 18 /\ (69 .. 79) \cap {input.tci % 256, input.tci \div 256} # {}
WholeDatagram(f) == f.proto # "none" /\ f.ip_len \in MIN_IP_HEADER_LEN .. f.caplen
DetectsLink ==
  input.ether = 0 /\ ~TagLooksLikeIp =>
    \A c \in DOMAIN pos :
      pos[c] > 0 /\ WholeDatagram(input.scripts[c][1]) => ether = input.size

(* All fragments enqueued under an ip_id are on their list, once each, and *)
(* last is its end; up to three of them are in order of the offset as it   *)
(* is read (IP_stream::enqueue).                                           *)
FragmentsReachable ==
  \A id \in DOMAIN packet_map :
    LET l == packet_map[id]
        c == Chain(l)
    IN /\ IsInjective(c) /\ Len(c) = Len(l.frag) /\ c[Len(c)] = l.last
       /\ Len(c) <= 3 =>
            \A i, j \in DOMAIN c : i < j => l.frag[c[i]].offset <= l.frag[c[j]].offset

FramesOf(c) == input.scripts[c]
IdsOf(frames) == {frames[i].ip_id : i \in DOMAIN frames}

IdsApart ==
  {n \in DOMAIN Runs :
     \A c, d \in DOMAIN Runs[n].scripts :
       IdsOf(Runs[n].scripts[c]) \cap IdsOf(Runs[n].scripts[d]) # {} => c = d}
ConnOf(u) == Messages[u[1]].conn

(* Conversations with the same client, by address and port, are of one     *)
(* connection.  The frames of one ip_id stand for one datagram.            *)
FramesOfId(frames, id) == {f \in Range(frames) : f.ip_id = id}
EndsOf(frames) ==
  UNION {{<<f.ip_src, g.tcp.th_sport>> : f, g \in FramesOfId(frames, id)} \cup
         {<<f.ip_dst, g.tcp.th_dport>> : f, g \in FramesOfId(frames, id)} : id \in IdsOf(frames)}
ConnsOf(frames) == UNION {{ConnOf(frames[i].data[j]) : j \in DOMAIN frames[i].data} : i \in DOMAIN frames}
EndsApart ==
  {n \in DOMAIN Runs :
     \A c, d \in DOMAIN Runs[n].scripts :
       (\E k \in EndsOf(Runs[n].scripts[c]) \cap EndsOf(Runs[n].scripts[d]) : k[2] # MysqlPort) =>
         \A x \in ConnsOf(Runs[n].scripts[c]), y \in ConnsOf(Runs[n].scripts[d]) : x = y}

(* A stream of a client of the server gets bytes of no other connection    *)
(* (the lookup key in process_pkt).                                        *)
NoMixing ==
  run \in IdsApart \cap EndsApart =>
    \A k \in DOMAIN appended : k[2] # MysqlPort =>
      \A i, j \in DOMAIN appended[k] : ConnOf(appended[k][i]) = ConnOf(appended[k][j])

(* What the properties below say something about: a conversation with the  *)
(* server that shares no ip_id, client end or connection with another one, *)
(* each segment in one datagram, that was captured from a SYN or a query   *)
(* on, its packets in order and to their ends; only before other data and  *)
(* before a FIN a segment may be captured again.                           *)
ToServer(f) == f.ip_dst = MysqlIp /\ f.tcp.th_dport = MysqlPort
ClientEnd(f) ==
  IF ToServer(f) THEN <<f.ip_src, f.tcp.th_sport>> ELSE <<f.ip_dst, f.tcp.th_dport>>
WholeFrame(f) ==
  /\ f.proto = "tcp" /\ f.tcp # Short /\ WholeDatagram(f) /\ ~f.mf /\ f.off = 0
  /\ ToServer(f) \/ (f.ip_src = MysqlIp /\ f.tcp.th_sport = MysqlPort)
  /\ f.tcp.th_seq \in Nat /\ (f.tcp.th_flags = "FIN" => f.data = <<>>)
  /\ \A j \in DOMAIN f.data :
       Messages[f.data[j][1]].kind \in {"Reply", "EOF"} <=> ~ToServer(f)

NoFin(frames, i, j) == \A h \in i .. j : frames[h].tcp.th_flags # "FIN"
Starts(f) == f.tcp.th_flags = "SYN" \/ could_be_query(f.data)
IsEnd(u) == u[2] = Messages[u[1]].units
Follows(u, v) == IF IsEnd(u) THEN u[1] < v[1] /\ v[2] = 1 ELSE v = <<u[1], u[2] + 1>>
NextData(frames, i, j) ==
  /\ i < j /\ frames[i].data # <<>> /\ frames[j].data # <<>>
  /\ \A h \in i + 1 .. j - 1 : frames[h].data = <<>>
FirstData(frames, j) ==
  frames[j].data # <<>> /\ \A h \in 1 .. j - 1 : frames[h].data = <<>>
Again(frames, i, j) ==
  /\ frames[j].tcp.th_seq = frames[i].tcp.th_seq /\ frames[j].data = frames[i].data
  /\ NoFin(frames, i, j)
Further(frames, i, j) ==
  /\ frames[j].tcp.th_seq # frames[i].tcp.th_seq
  /\ Follows(Last(frames[i].data), frames[j].data[1])
  /\ NoFin(frames, i, j) \/ IsEnd(Last(frames[i].data))
InOrder(frames) ==
  /\ \A i \in DOMAIN frames : \A a \in 2 .. Len(frames[i].data) :
       Follows(frames[i].data[a - 1], frames[i].data[a])
  /\ \A j \in DOMAIN frames : FirstData(frames, j) => frames[j].data[1][2] = 1
  /\ \A i, j \in DOMAIN frames :
       NextData(frames, i, j) => Again(frames, i, j) \/ Further(frames, i, j)
  /\ \A i \in DOMAIN frames : frames[i].data # <<>> =>
       \E h \in 1 .. i : Starts(frames[h]) /\ NoFin(frames, h, i)
OwnConversation(scripts, c) ==
  \A d \in DOMAIN scripts \ {c} :
    /\ ClientEnd(scripts[c][1]) \notin EndsOf(scripts[d])
    /\ ConnsOf(scripts[c]) \cap ConnsOf(scripts[d]) = {}

TidyIn ==
  [n \in DOMAIN Runs |->
     {c \in DOMAIN Runs[n].scripts :
        \A scripts \in {Runs[n].scripts} : \A frames \in {scripts[c]} :
          /\ n \in IdsApart /\ frames # <<>> /\ OwnConversation(scripts, c)
          /\ \A i \in DOMAIN frames :
               WholeFrame(frames[i]) /\ ClientEnd(frames[i]) = ClientEnd(frames[1])
          /\ InOrder(frames)}]
Tidy == TidyIn[run]
ClientOf(c) == ClientEnd(FramesOf(c)[1])

(* No part of such a conversation is appended twice (register_tcp_seq).    *)
NotAppendedTwice ==
  \A c \in Tidy : ClientOf(c) \in DOMAIN appended => IsInjective(appended[ClientOf(c)])

(* Every query that begins its segment, holds one of the words that are    *)
(* looked for and was captured to its end is in the file, once and whole   *)
(* (process_pkt, append, register_replay_packet).                          *)
PartsOf(m) == [i \in 1 .. Messages[m].units |-> <<m, i>>]
CapturedWhole(m, c) ==
  /\ Messages[m].kind = "Query"
  /\ \E i \in 1 .. pos[c] : FramesOf(c)[i].data # <<>> /\ FramesOf(c)[i].data[1] = <<m, 1>>
  /\ \E i \in 1 .. pos[c] : \E j \in DOMAIN FramesOf(c)[i].data :
       FramesOf(c)[i].data[j] = <<m, Messages[m].units>>
QueriesRecorded ==
  input.record /\ ether = input.size /\ Torn \notin Range(file) =>
    \A c \in Tidy, m \in DOMAIN Messages :
      CapturedWhole(m, c) =>
        \E i \in DOMAIN file : \A j \in DOMAIN file : file[j].data = PartsOf(m) <=> j = i

(* The file has the queries of a conversation in the order they were sent, *)
(* one EOF for a query at most, directly after it, and the other packets   *)
(* of the query only after that EOF: not in capture order.  None of this   *)
(* is put behind the record of an end (handle_packet_complete,             *)
(* register_stream_end).                                                   *)
KindOf(r) == IF r.data = <<>> THEN "End" ELSE Messages[r.data[1][1]].kind
IsQueryRecord(r) == KindOf(r) \in {"Query", "Insert"}
RecordsOf(k) == {i \in DOMAIN file : file[i].of = k}
JustBefore(k, i, j) == j \in RecordsOf(k) /\ j < i /\ \A h \in RecordsOf(k) : h <= j \/ i <= h
RecordsInOrder ==
  \A c \in Tidy : \A i \in RecordsOf(ClientOf(c)) :
    /\ IsQueryRecord(file[i]) =>
         \A j \in RecordsOf(ClientOf(c)) :
           IsQueryRecord(file[j]) /\ i < j => file[i].data[1][1] < file[j].data[1][1]
    /\ KindOf(file[i]) = "EOF" =>
         \E j \in RecordsOf(ClientOf(c)) :
           JustBefore(ClientOf(c), i, j) /\ IsQueryRecord(file[j])
    /\ KindOf(file[i]) \in {"Login", "More"} =>
         \E j \in RecordsOf(ClientOf(c)) :
           JustBefore(ClientOf(c), i, j) /\ KindOf(file[j]) \in {"EOF", "Login", "More"}
    /\ KindOf(file[i]) # "Reply"

(* A stream that is read back holds the packets of one captured stream.    *)
OneStreamEach ==
  \A n \in DOMAIN rstreams : \A i, j \in DOMAIN rstreams[n] :
    file[rstreams[n][i]].of = file[rstreams[n][j]].of
=============================================================================
