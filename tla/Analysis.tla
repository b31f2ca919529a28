------------------------------- MODULE Analysis -------------------------------
(***************************************************************************)
(* mysqlpcap without --run: the packets of several connections, in capture *)
(* order, as handle_packet_complete gets them.  A query is paired with the *)
(* EOF that follows it, registered with the manager (slow queries and      *)
(* statistics) and taken off its stream's list.  Packets and streams are   *)
(* numbered in the order they are made; a list is the set of its packets,  *)
(* in the order of their numbers (see PacketList).                         *)
(***************************************************************************)
EXTENDS QueryStats, SequencesExt

CONSTANTS
  Keys,     \* connections (lookup keys)
  Inputs,   \* what the program is run on: [n_slow, script, free], see below
  Kinds,    \* the packets a capture may go on with: [key, kind, text]
  MaxTime   \* bound on the time stamps of those

PacketKind == [key : Keys, text : Texts, kind : {"Query", "ClientMore", "Reply", "EOF"}]

(* An input is a slow-query limit and a capture: the packets of script,    *)
(* each gap later than the one before it, then up to free more packets and *)
(* stream ends.                                                            *)
ASSUME AnalysisAssumption ==
  /\ Kinds \subseteq PacketKind
  /\ Inputs \subseteq [n_slow : Nat, script : Seq([pkt : PacketKind, gap : Nat]), free : Nat]
  /\ MaxTime \in Nat

VARIABLES
  todo,          \* the rest of the input
  time,          \* the last time stamp
  pkts,          \* packets: [s, kind, text, ts]
  ref,           \* ref_count of each
  freed,         \* deleted packets
  linked,        \* packets on the list of their stream
  lookup,        \* the stream of each key, 0 when there is none
  streams,       \* streams made so far: last_query of each
  reg,           \* queries registered, in order: [pkt, eof, exec]
  slow,          \* slow_queries: positions in reg
  q_stats, table_stats,
  printed,       \* what print_slow_queries and Query_stats::print wrote
  phase          \* "read", "print", "stats", "cleanup", "streams", "done";
                 \* "died" (exception) and "overrun" (lookup_key) stop the program

packetVars == <<pkts, ref, freed, linked>>
statVars == <<q_stats, table_stats>>
vars == <<todo, time, packetVars, lookup, streams, reg, slow, statVars, printed, phase>>

Init ==
  /\ todo \in Inputs /\ time = 0
  /\ pkts = <<>> /\ ref = <<>> /\ freed = {} /\ linked = {}
  /\ lookup = [k \in Keys |-> 0] /\ streams = <<>>
  /\ reg = <<>> /\ slow = {}
  /\ q_stats = EmptyFun /\ table_stats = EmptyFun
  /\ printed = [slow |-> <<>>, stats |-> EmptyFun]
  /\ phase = "read"

-----------------------------------------------------------------------------
(* The packets that may come next, with their times.                       *)
PacketsNow == IF todo.script = <<>> THEN Kinds \X (time .. MaxTime)
              ELSE {<<todo.script[1].pkt, time + todo.script[1].gap>>}

NextIs(ts) ==
  /\ phase = "read" /\ time' = ts
  /\ IF todo.script # <<>> THEN todo' = [todo EXCEPT !.script = Tail(@)]
                           ELSE todo.free > 0 /\ todo' = [todo EXCEPT !.free = @ - 1]

(* The stream of a key; it is made when the key has none.                  *)
StreamOf(key) == IF lookup[key] = 0 THEN Len(streams) + 1 ELSE lookup[key]
WithStream(key) == IF lookup[key] = 0 THEN Append(streams, 0) ELSE streams
LastQuery(key) == IF lookup[key] = 0 THEN 0 ELSE streams[lookup[key]]

(* ref_count after one reference to each packet of S is dropped; those     *)
(* whose count becomes 0 are deleted.                                      *)
Unmark(r, S) == [i \in DOMAIN r |-> IF i \in S THEN r[i] - 1 ELSE r[i]]
Dead(r) == {i \in DOMAIN r : r[i] = 0}

(* The new packet on its list, with its list's reference.                  *)
New == Len(pkts) + 1
NewPacket(k, ts) ==
  /\ pkts' = Append(pkts, [s |-> StreamOf(k.key), kind |-> k.kind, text |-> k.text, ts |-> ts])
  /\ lookup' = [lookup EXCEPT ![k.key] = StreamOf(k.key)]

SetLastQueryOnce(key) ==
  [WithStream(key) EXCEPT ![StreamOf(key)] = IF @ = 0 THEN New ELSE @]
SetLastQuery(key) == [WithStream(key) EXCEPT ![StreamOf(key)] = New]

Query(k, ts) ==
  /\ k.kind = "Query" /\ NextIs(ts) /\ NewPacket(k, ts)
  /\ ref' = Append(ref, 1) /\ linked' = linked \cup {New}
  /\ streams' = SetLastQuery(k.key)
  /\ UNCHANGED <<freed, reg, slow, statVars, printed, phase>>

(* A client packet that is no query, or an EOF that no query waits for: it *)
(* stays on the list.                                                      *)
KeptPacket(k, ts) ==
  /\ \/ k.kind = "ClientMore"
     \/ k.kind = "EOF" /\ LastQuery(k.key) = 0
  /\ NextIs(ts) /\ NewPacket(k, ts)
  /\ ref' = Append(ref, 1) /\ linked' = linked \cup {New}
  /\ streams' = WithStream(k.key)
  /\ UNCHANGED <<freed, reg, slow, statVars, printed, phase>>

(* Any other packet of the server is unlinked at once.                     *)
Reply(k, ts) ==
  /\ k.kind = "Reply" /\ NextIs(ts) /\ NewPacket(k, ts)
  /\ ref' = Append(ref, 0) /\ freed' = freed \cup {New}
  /\ streams' = WithStream(k.key)
  /\ UNCHANGED <<linked, reg, slow, statVars, printed, phase>>

-----------------------------------------------------------------------------
(* slow_queries is ordered by falling time; equal times stay in the order  *)
(* they were inserted in.                                                  *)
Before(r, i, j) == r[i].exec > r[j].exec \/ (r[i].exec = r[j].exec /\ i < j)

(* What register_query erases after it has inserted all of S.              *)
EvictedByAge(r, S) ==
  IF Cardinality(S) <= todo.n_slow THEN {}
  ELSE {e \in S : \A i \in S : e <= i}
Evicted(r, S) ==
  IF Cardinality(S) <= todo.n_slow THEN {}
  ELSE {e \in S : \A i \in S \ {e} : Before(r, i, e)}

(* register_query takes a reference to the query; the queries it erases    *)
(* (gone) lose theirs in consider_unlink_pkt.                              *)
RegisteredUnmarked(q, gone) == Unmark(Append(ref, 1), gone)
RegisteredKept(q, gone) == [Append(ref, 1) EXCEPT ![q] = @ + 1]
Registered(q, gone) == Unmark([Append(ref, 1) EXCEPT ![q] = @ + 1], gone)

(* The packets from last_query->next to the end of the list, the EOF last. *)
ListAfterEof(q) == {New}
ListAfter(q) == {i \in linked : pkts[i].s = pkts[q].s /\ i > q} \cup {New}

ClearLastQueryNot(key) == streams
ClearLastQuery(key) == [streams EXCEPT ![lookup[key]] = 0]

(* handle_packet_complete for the EOF a query waits for.                   *)
AnsweredQuery(k, ts) ==
  /\ k.kind = "EOF" /\ LastQuery(k.key) # 0
  /\ NextIs(ts) /\ NewPacket(k, ts)
  /\ LET q == LastQuery(k.key)
         text == pkts[q].text
         exec_time == ts - pkts[q].ts
         r == Append(reg, [pkt |-> q, eof |-> New, exec |-> exec_time])
         gone == Evicted(r, slow \cup {Len(r)})
         off == {r[e].pkt : e \in gone}
         left == Unmark(Registered(q, off), {q} \cup ListAfter(q))
     IN /\ reg' = r /\ slow' = (slow \cup {Len(r)}) \ gone
        /\ IF KeyFails(text) # {}
           THEN /\ phase' \in KeyFails(text)
                /\ ref' = Registered(q, off) /\ freed' = Dead(ref')
                /\ linked' = (linked \cup {New}) \ off
                /\ UNCHANGED <<statVars, streams>>
           ELSE /\ q_stats' = record_query(q_stats, get_query_key(text), exec_time)
                /\ table_stats' = update_from_query(table_stats, text, exec_time)
                /\ ref' = left /\ freed' = Dead(left)
                /\ linked' = linked \ ({q} \cup ListAfter(q))
                /\ streams' = ClearLastQuery(k.key)
                /\ UNCHANGED phase
  /\ UNCHANGED printed

-----------------------------------------------------------------------------
(* Unlinking a whole list, as ~Mysql_stream does.                          *)
Unlinked(S) == LET refs == Unmark(ref, S)
               IN /\ ref' = refs /\ freed' = freed \cup Dead(refs)
                  /\ linked' = linked \ S

(* FIN or RST: the stream is deleted, answered or not.                     *)
StreamEnd(key) ==
  /\ phase = "read" /\ lookup[key] # 0
  /\ todo.script = <<>> /\ todo.free > 0
  /\ todo' = [todo EXCEPT !.free = @ - 1]
  /\ Unlinked({i \in linked : pkts[i].s = lookup[key]})
  /\ lookup' = [lookup EXCEPT ![key] = 0]
  /\ UNCHANGED <<time, pkts, streams, reg, slow, statVars, printed, phase>>

EndOfFile ==
  /\ phase = "read" /\ todo.script = <<>> /\ phase' = "print"
  /\ UNCHANGED <<todo, time, packetVars, lookup, streams, reg, slow, statVars, printed>>

print_slow_queries ==
  /\ phase = "print" /\ phase' = "stats"
  /\ printed' = [printed EXCEPT !.slow = SetToSortSeq(slow, LAMBDA i, j : Before(reg, i, j))]
  /\ UNCHANGED <<todo, time, packetVars, lookup, streams, reg, slow, statVars>>

print_query_stats ==
  /\ phase = "stats" /\ phase' = "cleanup"
  /\ printed' = [printed EXCEPT !.stats = [k \in DOMAIN q_stats |-> PrintedStats(q_stats[k])]]
  /\ UNCHANGED <<todo, time, packetVars, lookup, streams, reg, slow, statVars>>

(* Mysql_stream_manager::cleanup: the slow queries lose their reference    *)
(* and are deleted whatever is left of it; then the streams are deleted.   *)
DeleteSlow ==
  /\ phase = "cleanup" /\ phase' = "streams"
  /\ LET S == {reg[i].pkt : i \in slow}
     IN ref' = Unmark(ref, S) /\ freed' = freed \cup S
  /\ slow' = {}
  /\ UNCHANGED <<todo, time, pkts, linked, lookup, streams, reg, statVars, printed>>

DeleteStreams ==
  /\ phase = "streams" /\ phase' = "done"
  /\ Unlinked(linked) /\ lookup' = [k \in Keys |-> 0]
  /\ UNCHANGED <<todo, time, pkts, streams, reg, slow, statVars, printed>>

(* The program was stopped in get_query_key.  What it does with an overrun *)
(* stack is undefined; nothing is said of it.                              *)
Stopped == phase \in {"died", "overrun"}

Exited == (phase = "done" \/ Stopped) /\ UNCHANGED vars

Next ==
  \/ \E x \in PacketsNow : \/ Query(x[1], x[2]) \/ KeptPacket(x[1], x[2])
                            \/ Reply(x[1], x[2]) \/ AnsweredQuery(x[1], x[2])
  \/ \E key \in Keys : StreamEnd(key)
  \/ EndOfFile
  \/ print_slow_queries \/ print_query_stats \/ DeleteSlow \/ DeleteStreams
  \/ Exited

Spec == Init /\ [][Next]_vars

-----------------------------------------------------------------------------
(* Types; the counts of deleted packets are 0 and no others are.           *)
Phases == {"read", "print", "stats", "cleanup", "streams", "done", "died", "overrun"}
PacketType == [s : Nat \ {0}, kind : {"Query", "ClientMore", "Reply", "EOF"}, text : Texts, ts : Nat]
TypeOK ==
  /\ time \in Nat /\ pkts \in Seq(PacketType)
  /\ ref \in Seq(0 .. 2) /\ Len(ref) = Len(pkts)
  /\ freed = Dead(ref)
  /\ linked \subseteq DOMAIN pkts
  /\ streams \in Seq(0 .. Len(pkts)) /\ lookup \in [Keys -> 0 .. Len(streams)]
  /\ reg \in Seq([pkt : DOMAIN pkts, eof : DOMAIN pkts, exec : Nat])
  /\ slow \subseteq DOMAIN reg
  /\ phase \in Phases

(* ref_count is the number of places a packet is in: its stream's list and *)
(* the slow queries.                                                       *)
RefExact ==
  ~Stopped =>
    \A i \in DOMAIN pkts :
      ref[i] = (IF i \in linked THEN 1 ELSE 0) + (IF \E j \in slow : reg[j].pkt = i THEN 1 ELSE 0)

(* What the lists, the slow queries (print_slow_queries) and last_query    *)
(* (handle_packet_complete) point to has not been deleted, and last_query  *)
(* is on the list, so that the EOF that comes follows it.                  *)
NoUseAfterFree ==
  /\ linked \cap freed = {} /\ \A j \in slow : reg[j].pkt \notin freed
  /\ ~Stopped /\ phase # "done" =>
       \A key \in Keys : LastQuery(key) # 0 => LastQuery(key) \in linked

(* slow_queries holds the n_slow longest of all queries registered, of     *)
(* equal ones the earlier (register_query).                                *)
SlowestKept ==
  phase \notin {"streams", "done"} =>
    /\ Cardinality(slow) = Min({todo.n_slow, Len(reg)})
    /\ \A i \in slow, j \in DOMAIN reg \ slow : Before(reg, i, j)

(* A query is registered with the EOF that follows it in its stream, with  *)
(* no other query or EOF between them, and every such pair is registered   *)
(* once; its time is the time between the two (handle_packet_complete).    *)
FollowsQuery(q, e) ==
  /\ pkts[q].kind = "Query" /\ pkts[e].kind = "EOF" /\ pkts[q].s = pkts[e].s /\ q < e
  /\ \A i \in (q + 1) .. (e - 1) : pkts[i].s = pkts[q].s => pkts[i].kind \notin {"Query", "EOF"}
PairedWithOwnEof ==
  /\ \A i \in DOMAIN reg : /\ FollowsQuery(reg[i].pkt, reg[i].eof)
                           /\ reg[i].exec = pkts[reg[i].eof].ts - pkts[reg[i].pkt].ts
  /\ \A q, e \in DOMAIN pkts : FollowsQuery(q, e) =>
       Cardinality({i \in DOMAIN reg : reg[i].pkt = q /\ reg[i].eof = e}) = 1

(* What stays in memory while the capture is read: of each stream that has *)
(* not ended all but the server's replies and what lies between a query    *)
(* and its EOF.  The second EOF of a result set is kept to the end.        *)
KeptUntilEnd ==
  phase = "read" =>
    linked = {i \in DOMAIN pkts :
                /\ pkts[i].kind # "Reply" /\ \E key \in Keys : lookup[key] = pkts[i].s
                /\ \A j \in DOMAIN reg : pkts[reg[j].pkt].s = pkts[i].s
                                         => i \notin reg[j].pkt .. reg[j].eof}

(* Every packet is deleted by the end (the packet counters of progress     *)
(* agree then).                                                            *)
NoLeakAtExit == phase = "done" => freed = DOMAIN pkts

-----------------------------------------------------------------------------
(* The statistics are those of the queries registered: per key the times   *)
(* of its queries in order, their number, extremes and sum; per table and  *)
(* type of statement one count for each mention in a registered query.     *)
KeyAt(i) == get_query_key(pkts[reg[i].pkt].text)
TimesInOrder(times, I) ==
  /\ Len(times) = Cardinality(I)
  /\ \A i \in I : times[Cardinality({j \in I : j <= i})] = reg[i].exec
SumOf(times) ==
  LET sum[i \in 0 .. Len(times)] == IF i = 0 THEN 0 ELSE sum[i - 1] + times[i]
  IN sum[Len(times)]
StatsOf(s, I) ==
  /\ s.n = Len(s.times) /\ TimesInOrder(s.times, I)
  /\ s.min = Min({reg[i].exec : i \in I}) /\ s.max = Max({reg[i].exec : i \in I})
  /\ s.total = SumOf(s.times)
MentionKey(m) == <<TableName(m.token), m.type>>
MentionsAt(i) == Mentions[pkts[reg[i].pkt].text]
MentionsOf(k) ==
  UNION {{<<i, j>> : j \in {n \in DOMAIN MentionsAt(i) : MentionKey(MentionsAt(i)[n]) = k}} : i \in DOMAIN reg}
StatsMatchHistory ==
  ~Stopped =>
    /\ DOMAIN q_stats = {KeyAt(i) : i \in DOMAIN reg}
    /\ \A key \in DOMAIN q_stats : StatsOf(q_stats[key], {i \in DOMAIN reg : KeyAt(i) = key})
    /\ \A i \in DOMAIN reg : \A j \in DOMAIN MentionsAt(i) :
         MentionKey(MentionsAt(i)[j]) \in DOMAIN table_stats
    /\ \A k \in DOMAIN table_stats : table_stats[k].n = Cardinality(MentionsOf(k))

(* Each registered query is counted under the key of the first pattern     *)
(* that matches it, under the empty key when none does: its time is in its *)
(* place among those of that key.  The key must fit in what an earlier     *)
(* pattern left of the length they share (get_query_key).                  *)
CountedUnder(i, key) ==
  /\ KeyAt(i) = key /\ key \in DOMAIN q_stats
  /\ q_stats[key].times[Cardinality({j \in DOMAIN reg : KeyAt(j) = key /\ j <= i})] = reg[i].exec
KeyOfFirstMatch ==
  ~Stopped =>
    \A i \in DOMAIN reg :
      LET t == pkts[reg[i].pkt].text
          matching == {p \in DOMAIN Patterns : Patterns[p][t].out = "match"}
          p == Min(matching)
      IN IF matching = {} THEN CountedUnder(i, "")
         ELSE Patterns[p][t].len < (IF p = 1 THEN BufLen ELSE TextLen[t])
                => CountedUnder(i, Patterns[p][t].key)

(* The 95th percentile printed lies between the median and the longest     *)
(* time, is not above the nearest-rank percentile and less than one sample *)
(* below it.  Of two samples the shorter is printed, below the median.     *)
PercentileReported ==
  \A key \in DOMAIN printed.stats :
    LET p == printed.stats[key]
        AtMost(v) == Cardinality({i \in DOMAIN q_stats[key].times : q_stats[key].times[i] <= v})
    IN /\ p.n # 2 => p.median2 <= 2 * p.pct95
       /\ p.pct95 <= p.max
       /\ 100 * (AtMost(p.pct95) + 1) > 95 * p.n
       /\ 100 * AtMost(p.pct95 - 1) < 95 * p.n
=============================================================================
