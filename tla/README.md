# A verification of mysqlpcap

mysqlpcap reads a packet capture of MySQL traffic (pcap) or a replay file it
recorded earlier (mcap).  It puts the TCP segments of each connection together
into MySQL packets, pairs each query with the EOF that ends its result, keeps
the N slowest queries and per-pattern statistics, can record the queries to a
replay file, and can run them again against a server, one thread per
connection.

This directory holds TLA+ modules that model its parts, TLC configurations that
check them on small instances, and proofs that TLAPS checks.

## 1. Inventory

| part | source | state | operations |
|---|---|---|---|
| driver | `mysqlpcap.cc` | options, one `Mysql_stream_manager` | `process_pcap_file`, `process_replay_file`: feed, `print_slow_queries`, `finish_replay`, destroy |
| stream manager | `mysql_stream_manager.cc/h` | `lookup` (key to stream), `slow_queries`, `q_stats`, replay file, first time stamp | `process_pkt`, `find_or_make_stream`, `register_query`, `cleanup` |
| stream | `mysql_stream.cc/h` | packet list `first`/`last`, `last_query`, header bytes, `lock`, `eof_lock`, `reached_eof`, connection | `append`, `append_packet`, `handle_packet_complete`, `unlink_pkt`, `end_replay`, `run_replay`, `db_query` |
| packet | `mysql_packet.cc/h` | `ref_count`, length, bytes, list pointers | `mark_ref`, `unmark_ref`, `append`, `replay_write`, `replay_read` |
| IP fragments | `ip_stream.cc/h` | a list of fragments per `ip_id` | `enqueue`, `get_first_fragment`, `append_remaining_packets` |
| statistics | `mysql_stream_manager.*`, `query_pattern.cc` | times per query key | `record_query`, `finalize`, percentiles, `get_query_key` |
| table statistics, SQL parser | `table_stats.*`, `sql_parser.yy` | counters per table | `update_from_query` |
| header detection | `pcap_detect.cc` | none | `detect_eth_header_size` |

How they interact.  The main thread is the only one that reads input.  It calls
the manager, the manager finds or makes a stream, the stream appends packets
and calls back into the manager (`register_query`) when a query is complete.
In run mode each stream has a thread of its own that walks the same packet
list, runs the queries and unlinks what it has passed.  Main thread and replay
thread share the list (mutex `lock`), the end-of-stream flag with a condition
variable (mutex `eof_lock`), and, unprotected, the pointer `p->next` read under
the other mutex.  Packets can be on a stream's list and in the manager's slow
list at once; `ref_count` says how many hold them.

What is hard, and the properties that make each part correct:

* **Replay** (two threads, two mutexes, a condition variable): no thread uses a
  deleted packet; reference counts are exact; queries run once, in order, none
  skipped; nobody sleeps through a packet; the join returns; everything
  captured is replayed; a failed query stops the program when asked to.
* **Packet list**: the pointers always form the list of linked packets in
  append order, whatever is unlinked from the head, middle or tail.
* **Analysis mode**: each query gets the EOF that follows it; the slow list
  is the N slowest; every packet is freed exactly once.
* **Framing**: the packets found do not depend on where segments are cut.
* **Manager**: one stream per connection, no stream after its end,
  retransmissions not appended twice.
* **Replay file**: what is read back is what was captured, in order, per
  connection.
* **Fragments**: data come out complete and in order, and only for their
  datagram.
* **Statistics**: positions stay in range and agree with the definition of a
  percentile; the key is that of the first pattern that applies.

PROJECT.json lists each hazard with its line and the properties for it.

## 2. Plan

The modules, in the order they were written:

1. `ReplayStream`: feeder and replay thread of one key; `MCReplayStream` for
   TLC, `ReplayStreamProofs` for TLAPS.
2. `PacketList`: the pointer list, shown to implement `PacketSet`, the ordered
   set of linked packets that `ReplayStream` and `Analysis` use;
   `PacketListProofs`.
3. `PacketFraming`: `append` and `create_new_packet` over every way to cut a
   byte stream; `PacketFramingProofs`.
4. `QueryStats` and `Analysis`: several streams without `--run`, slow queries,
   statistics, the life of packets; `AnalysisProofs` and `StatsProofs`.
5. `IpFragments`, `EthDetect` (pure operators), `ReplayFile` (reading a replay
   file) and `Capture`, which composes them with `process_pkt` and the recording
   part of `handle_packet_complete`; `CaptureProofs`, and `ConversationProofs` for
   what is said of single conversations.

`InductionLemmas` has the lemmas about least elements, induction and recursive
functions that `AnalysisProofs`, `StatsProofs` and `CaptureProofs` cite.

How they fit.  `Capture` turns frames into MySQL packets in units too coarse for
cuts inside a header; `PacketFraming` has those bytes.  `Analysis` starts where
`handle_packet_complete` gets a packet, and the records `ReplayFile` reads are
what `ReplayStream` is fed with: per key, packets and end marks in order.

Left for later: the text `db_query` assembles and the schedule of a replay, if
their bytes and times are ever modelled (section 9).

## 3. ReplayStream

One `Mysql_stream` in run mode.  The feeder is the main thread
(`process_replay_file`), the reader is `run_replay`.

*State.*  Packets are numbered in append order.  The list is the set `linked`;
`p->next` is the smallest larger member (`Follows`).  `ref` and `freed` are
`ref_count` and deletion.  `lock` and `eof_lock` have an owner.  `mpc` and `rpc`
are the control of the two threads; `p`, `tmp`, `cur` are the pointers the
replay thread keeps over its steps.  `born`, `tried`, `failed` and `evicted` are
history, only read by properties.  A packet's data is its kind: a query, a
query of maximal length (which continues in the next packet), a continuation,
an EOF, another server packet.

*Steps.*  A critical section is one step unless it blocks or the other thread
can see its middle.  So `append_packet` is `AppendPacket` (take `lock`, link),
`Notify` (needs `eof_lock`) and `Complete...` (the rest, drop `lock`): the
replay thread, which reads `p->next` under `eof_lock` only, may see the packet
before it is complete.  A wait on the condition variable is `TakeEofLock`,
`CheckParks` (test), `Park` (sleep and release); between the test and the sleep
the mutex is held, which is what makes `Notify` safe.  `end_replay` is
`EndLock`, `EndFlag` and a join.  An end-of-stream record deletes the stream,
and the next packet of the key makes a new one.

A failed `assert(last_query->next)` would stop the program: it is a guard, and
deadlock checking shows that it is never the reason to stop.  Failed queries
under `assert_on_query_error` set `aborted`.

*Capture or replay file.*  The same handlers run when `--run` is given a
capture.  There the list also gets the server's other packets (`"Reply"`); that
is run `replay_direct`.  A replay file holds only queries, continuations and
EOFs.

*Fairness.*  Weak fairness of the replay thread: it is a thread the operating
system schedules, and its waits for a mutex end because the feeder holds
`lock` only for a few steps.  Strong fairness of the main thread: the replay
thread could otherwise wake for no reason for ever and always be found holding
`eof_lock`; a mutex that is released again and again is got in the end.
Spurious wake-ups may happen and are not owed.

*Bounds.*  Four packets (`MaxPkts`).  Two queries, an EOF and one more packet
make the list grow, shrink to its last element and grow again, and let a stream
end and start again; a query of three packets with one to follow fills it too.
`NSlow` is 1 in `replay_queries`: a query is kept and another evicted.

| run | shows |
|---|---|
| `replay_queries` | queries and EOFs, connection failures, several lives of the stream: all safety and liveness properties |
| `replay_large` | queries of up to four packets and `assert_on_query_error`: the gathering wait, incomplete queries, stopping |
| `replay_start` | violated: a new thread can end before its first packet |
| `replay_drain` | violated: the end of the stream overtakes queued packets |
| `replay_direct` | violated: `assert(last_query->next)` when a capture is replayed |
| `replay_shutdown` | violated: slow queries are deleted while linked |

*Properties.*  `RefCountAccounts` relates `ref_count` to the list and the slow
list; `NoUseAfterFree` speaks of the pointers that the two threads keep over their steps
(`p`, `tmp`, `cur_pkt`, the packets `db_query` copies from, `last` and `last_query`),
not of the lists as the destructors walk them at the exit: those can lead to
deleted slow queries, which is what `replay_shutdown` shows;
`ConsumedAreUnlinked` and `OnlyEvictedLeak` say what stays in memory while the
program runs and when it ends: queries evicted from the slow list in run mode
are never deleted, and nothing else is kept.  `ReplaysInOrder` and
`NoQuerySkipped` say that the queries tried are a prefix of those fed, each
once.  `NoLostWakeup` says that the replay thread sleeps only when there is nothing
to do.  `ReplayEnds`, that no join waits for ever, is the liveness property.

*Proofs* (`ReplayStreamProofs`).  The theorems hold for every `MaxPkts`,
`NSlow`, and any behaviour of the server, under `SafeKinds`: no `"Reply"`, and
no EOF in a stream that has continuation packets.  Without it the feeder unlinks
packets the replay thread may be at, and `replay_direct` shows the failure.
No safety property is inductive by itself.  `IInv` adds:

* `IPointers`: everything from the replay thread's packet to the end of the
  list is linked, without a gap, so following `next` cannot leave it;
* `ILastQuery`: while a query waits for its EOF it is the last packet of the
  list, so the replay thread, which unlinks a packet only when there is a
  next one, does not unlink it;
* `IRefs`: with the exact counts, that the kept and the evicted queries are
  disjoint and that `last_query` is not registered yet, so that `register_query`
  marks a query once;
* `IControl`: which thread can be where while `lock` is held and when the
  stream is gone; `IAlive`: every appended packet is deleted or held.

`TypeCorrect`, `RefCounts`, `MemorySafe`, `AssertHolds`, `SlowListSafe` and
`LeakBound` follow from `IInv`.  One lemma per action shows that it keeps
`IInv`; `PacketsFrame` and `UnlinkKeepsCount` are what the actions share.

The second part of the module goes on from `IInv` with `IOrder`:

* `ITried`: where the thread has not looked at its packet yet, everything tried
  lies before it; afterwards, nothing tried lies beyond it;
* `IPassed`: every query before its packet was tried;
* `ISite`, `IGather`: db_query's wait is only left for the query's execution,
  and what was gathered so far has maximal length.

A step that tries a packet is at one that is not tried (`RunsInOrder`), and a step
to the next packet goes exactly one further, because the list has no gap ahead
of the thread (`AdvanceKeeps`): so `NoneSkipped`.  `PassedAreUnlinked` needs only
`IInv`.  `WakeupsKept` and `StopsOnFailure` need neither it nor `SafeKinds`: the
first follows from who holds `eof_lock` (`IWait`).  Liveness and the violations
are TLC's.

## 4. PacketList

The list of one stream, pointer by pointer: `first`, `last`, `next`, `prev`.
`Append` is the end of `create_new_packet` and of `append_packet`, `Remove` is
`unlink_pkt`.  The two loops that unlink while they walk (`cleanup` from `first`,
`handle_packet_complete` from `last_query->next`) are a start (`StartCleanup`,
`StartAfter`) and one step per round (`Walk`, or `KeepLast` for the EOF that run
mode keeps).  `Unlink` of any packet covers the single calls, those of
`consider_unlink_pkt` in either mode.  In analysis mode the packet may be off the
list already (a query that is evicted after it was answered, or one that was
evicted by its own registration and is then unlinked with its list): its pointers
are NULL and it is neither end, so the call changes no pointer.  A loop holds `lock`, so nothing else steps
meanwhile.  In analysis mode there is only one thread.

`PacketSet` is what `ReplayStream` assumes of the list: a set that grows at its
end and loses any member.  Run `packet_list` checks, on up to seven packets,
that the pointers are those of the ordered set (`ListWellFormed`), that the loops
stand on the first packet not yet unlinked and leave nothing (`WalkIsNext`,
`WalkClears`), and that the list implements `PacketSet`
(`ImplementsPacketSet`).  Seven packets leave room for a removal in the middle of
two others on either side of a walk.  The run has no deadlock check: when every
packet was appended and unlinked nothing is left to do.

`PacketListProofs` shows `ListCorrect`, `WalkCorrect`, `LoopsClear` (`WalkClears`)
and `ListRefinement` for lists of any length.  `ListInv` is the four parts of
`ListWellFormed`, that numbers on the list do not exceed `n`, and `WalkIsNext`.
The work is in `RemoveFromList`: whoever pointed at the packet that leaves is its
neighbour, and the neighbours fit together; `RemoveOffList` is the case of a packet
that is off the list.  A loop ends at the last packet of the
list, and what is before that packet and not unlinked lies before the loop's start
(`WalkStep`).

## 5. PacketFraming

The bytes of one connection (`Wire`) reach `append` in segments: `Segment` picks
the next stretch that goes one way, and each round of the loop in `append` is a
step.  A round takes part of a header and returns (`PartialHeader`), takes the
rest of a header, makes the packet and fills it (`WholeHeader`), or fills the
packet at hand (`Body`).  Of the list only its last packet matters.

*State.*  `pos`, `seg`: consumed bytes and what is left of the segment;
`pkt_hdr`, `cur_pkt_hdr_len`: as in the class; `pkts`: the packets made, with the
place their body begins; `handled`: the calls of `handle_packet_complete`.

*Fairness.*  Weak fairness of the rounds: `append` is a loop of the only thread
and nothing in it waits.  None of `Segment`: a capture may stop anywhere.

*Bounds.*  Eight packets: an empty continuation packet, an answer of four
packets with an empty one inside, and at the end a packet of which only three
header bytes were captured.  Every cut is tried.  The run has no deadlock check,
since the capture ends.

| run | shows |
|---|---|
| `framing` | cuts anywhere but inside a header: the packets are those sent (`FramedExactly`), each completed once and in order (`HandledOnce`), and `append` returns (`AppendReturns`) |
| `framing_header` | violated: with a cut inside a header the packet's length is wrong |

An empty packet that ends its segment is made but never handled, because the
loop returns before it looks (`if (len == 0)`): `HandledOnce` says so.

*Proofs* (`PacketFramingProofs`).  For every wire that satisfies
`WireAssumption`, `FramingTypes` and `FramingHandledOnce` hold wherever segments
end: also after a header was put together wrongly, no packet takes more bytes
than it was allocated for.  Their invariant adds that every packet but the last
is complete and handled (if not empty).  `FramingExact` needs `~SplitHeaders`.
`FInv` says that between rounds `pos` is at the beginning of a packet of the
wire or inside the one that is being filled, that no header is half there, and
that every packet made so far is `Anchored` in the wire; `WirePacket` is what the
assumption gives for one packet of the wire.

## 6. Analysis and QueryStats

mysqlpcap without `--run`, from the complete packet on, for several connections.
One thread runs, so a handler is one step: `Query`, `KeptPacket`, `Reply` and
`AnsweredQuery` are the four ways through `handle_packet_complete`, the last with
`register_query` in it; `StreamEnd` is a FIN.  Then come the steps of the exit:
`print_slow_queries`, `print_query_stats`, `DeleteSlow` and `DeleteStreams`.

*State.*  `pkts` grows; `ref`, `freed`, `linked` are `ref_count`, deletion and
being on a list; `lookup`, `streams` the streams and their `last_query`; `slow` the
slow queries, as positions in `reg`, the history of `register_query`.
`q_stats` and `table_stats` are the maps of `Query_stats` and `Table_stats`,
`printed` what is written of them.

*Statistics* (`QueryStats`).  What a pattern does to a text is an input; what the
program makes of it is not.  `get_query_key` hands one length to all patterns: a
call leaves the length of what it wrote there, a call that had too little room
leaves `PCRE2_UNSET`, the largest number there is.  The next call then takes the
1024 bytes of `lookup_key` for unlimited (`Room`), and when the text or the key is
longer it writes beyond their end (`Overruns`).  The model has this as an outcome,
phase `"overrun"`, behind which the program is undefined and nothing more is modelled
or claimed.  A pattern that throws ends the program (`"died"`).  `Stopped` is either.
`KeyOfFirstMatch` states, for a program that was not stopped, what is left of "the
first pattern that matches": each query has its time in its place under the key of
that pattern if the key is shorter than the text (for the very first pattern: than
the buffer), and under the empty key if no pattern matches.
Times are whole microseconds; the median is doubled.

*Bounds.*  Two keys and five packets or stream ends at two times, with one slow
query kept: pairs interleave, streams end unanswered and start again, a query is
evicted by another's and by its own registration, and times tie.  Three with a
limit of 0.  Scripts of up to 21 queries with rising times, the sizes 2, 3, 19,
20 and 21 where the 95th percentile changes its position, and two with
the other texts, of which one ends with a text that makes a pattern throw and one with
a text that overruns `lookup_key`.  The state space is finite by the length of the input, and
deadlock is checked: the program always gets to its exit.

| run | shows |
|---|---|
| `analysis` | see below |

*Properties.*  `RefExact`, `NoUseAfterFree` and `NoLeakAtExit`: counts are exact
over list and slow list, nothing deleted is pointed to, everything is deleted in
the end.  `PairedWithOwnEof`: the queries registered are exactly the pairs of a
query and the next EOF of its stream with no query in between.  `SlowestKept`:
the list has the N slowest, of equal ones the earlier.  `KeptUntilEnd` says
exactly what a stream keeps in memory: a result set has two EOFs, and the second
finds no query and stays until the stream ends, as do client packets outside a
query.  `StatsMatchHistory` compares the statistics with a recount of the history.
`PercentileReported` bounds the 95th percentile by the definition (nearest
rank): the code may be one sample low, and of two samples it prints the smaller
one, less than the median.

*Proofs* (`AnalysisProofs`).  All of these but the three about statistics follow
from `IInv`, for every set of inputs and any number of streams, packets and slow
queries.  The properties are in it themselves, since each needs the others:

* a count can only be exact (`RefExact`) if a query is registered once, which is
  what `PairedWithOwnEof` says, and only goes down at the right time if the slow
  list holds what `SlowestKept` says; `NoUseAfterFree` then follows from the counts;
* `LastQueryOK` relates `last_query` to the packets: while a query is open, no
  query or EOF of its stream has come since (`Since`); if none is open, one has,
  after every query of the stream.  This makes the next EOF the query's own, and is
  what `PairedWithOwnEof` needs to be inductive;
* `StreamsOK`: no two keys have the same stream, no packet belongs to a stream
  that is not there yet, and a packet on a list belongs to one that a key has;
  `RegisteredOK`: a query is registered once and is then on no stream's list;
  `InputOK`, `EndOK`: what is left to read, and what the exit has let go of.

The case that takes work is `AnsweredQuery`: a query is registered, the last of
the slow list is evicted, which may be the query itself, and the EOF's packet is
deleted.  `SlowestStep` is about the list alone (that a set of N longest stays
one); `Registered`, `Dead` and the lemmas on them say what becomes of the counts.

*Proofs* (`StatsProofs`).  `StatsInv` adds to `IInv` that the statistics are a
recount of the history (`HistoryOK`) and that what was printed is computed from
them (`PrintedOK`).  `Recount` is `StatsMatchHistory`.  `FirstMatchCounts` is
`KeyOfFirstMatch`: the length left by one pattern for the next is followed along
the list of patterns by induction.  `OverrunOnlyThen` says when `lookup_key` is
overrun: only behind a pattern that was short of room, so never with a single one.  `PercentileBounds` is `PercentileReported` for
any number of samples: a sorted sequence is described by how many samples are
at most each value (`NotAbove`), and `Position95` is the arithmetic of the position
the code reads.

## 7. Capture, IpFragments, EthDetect, ReplayFile

`process_pkt` on frames, and a later run that reads the file it recorded.  An
input is a set of conversations, each a sequence of frames in capture order;
TLC interleaves them.  Data are units `<<m, i>>`, part `i` of MySQL packet `m`.

*Steps.*  One frame is one step, by what becomes of it: `Undetected` (no link
header found; the program ends), `EnqueueFragment`, `ShortFragment` (`assert(0)`),
`Ignored`, `StreamEnd`, `Data`.  `Data` holds everything from the lookup on:
making the stream, the sequence number, the filter, `append` of all data with
`handle_packet_complete` and its records.  A full disk ends the program with a
part of a record in the file (`Torn`).  However the capture ended, `Reopen` reads
the file from its start: `ReadEnd`, `ReadKnown`, `ReadNew`.

*Fragments* (`IpFragments`).  Lists with their pointers as `enqueue` leaves them:
the node after one inserted in the middle keeps its old `prev`.  `ip_off` is read
without `ntohs`, so on a little-endian machine the test for "more fragments" looks
at a bit of the offset; both byte orders are inputs.  The frame at hand, the last
fragment, gives only its addresses; its data are not used.

*Link header* (`EthDetect`).  The first offset from 14 to 22 whose bytes look like
an IPv4 header.  With a VLAN tag bytes of the tag are seen at offsets 14 and 15.

*Abstractions.*
* A unit that does not begin a packet but is met at a packet boundary (after a
  lost segment) is text taken for a header; its third byte is printable, so the
  length is above 2 MB and the packet does not end in the capture (`Endless`).
* What is read as a TCP header in a later fragment (`Garbage`) is text that does
  not name the server's port.
* `could_be_query`: a `Query` has one of its six words in its first unit, other
  commands have none.  The bytes of a segment are searched; words in other units
  are not modelled.
* Recording starts with an empty file (the program does not truncate an old one).
* No packet is empty.  (An empty continuation packet would be recorded with length
  zero, the mark of an end; that is a hazard in PROJECT.json without a property.)

*Bounds.*  45 inputs of up to 24 frames: a connection from its SYN to both FINs
with a retransmission, a login, a result set, a query in two segments and its
continuation; one that is joined in the middle; a port that is used again; two
commands in one segment; a lost segment; frames of other hosts, ports and
protocols; a disk for 0 to 6 records; link headers of 14 and 18 bytes with tags
1, 69 and 17664; a query in four fragments in five orders (with a duplicate) and
two sizes, in both byte orders, followed by a datagram of the same `ip_id`.  The
run has no deadlock check: an input without recording, or a program that died,
just ends.

| run | shows |
|---|---|
| `capture` | `DetectsLink`, `FragmentsReachable`, `NoMixing`, `NotAppendedTwice`, `QueriesRecorded`, `RecordsInOrder`, `ReadBackWhole` |
| `record_keys` | violated: what is read back as one stream was several |

*Properties.*  `Tidy` names the conversations that properties can promise
something about:

* no other conversation of the input has their `ip_id`s, their client's address and
  port, or their connection (`IdsApart`, `OwnConversation`);
* each segment is one whole datagram to or from the traced server, a server sends
  replies and a client does not (`WholeFrame`);
* the packets come in order and each to its end before the next begins, though a
  segment may be captured again as long as no other data and no FIN were captured
  since (`InOrder`, with `Again` and `Further`);
* before all data, and with no FIN between, there was a SYN or a segment with one
  of the six words (`Starts`).

What falls outside goes wrong in the code: a FIN between a segment and its
repetition makes a new stream, which does not know the sequence number; a query
whose middle segment was lost takes the query behind it for its own text; data
behind a FIN may make a stream that begins inside a packet.  The inputs of the
run have untidy conversations too (a lost segment, fragments), for the other
properties.

For tidy conversations `QueriesRecorded` says that a query that begins its segment
and has one of the six words is in the file once and whole, whatever its neighbours are; an INSERT,
or a query behind another command in the same segment, need not be.
`RecordsInOrder` has the order of the records of a connection, with the EOF
before the continuation packets of its query.  `NoMixing` is about the lookup key
and holds for clients of the traced server: traffic with other servers on the
same port shares a key.  `FragmentsReachable` promises the order of up to three
fragments, since from four on the stale `prev` can hide the place.
`DetectsLink` excludes tags with a byte from 0x45 to 0x4f (VLAN 69 and others),
which pass for the first byte of an IP header of five words or more.  It speaks of
conversations whose first frame holds a whole datagram (`WholeDatagram`) and claims
nothing of other first frames (cut off, or no IP): for those the code returns 0 and
the program ends (`Undetected`), against its own documentation (section 8).  `NoMixing` holds for inputs where a datagram has
its `ip_id` for itself (`IdsApart`) and where conversations with the same client
address and port are of one connection (`EndsApart`); these are hypotheses about
the capture, since the code keys streams by the client's end alone.

*Proofs* (`CaptureProofs`).  `ReadBackCorrect` is `ReadBackWhole` for every
sequence of records, whole or torn: in `ReadSpec` the file does not change.
`ReadBackWhole` is not inductive: `Current` adds what the key table stands for
(the stream a key has now holds exactly the key's packets since its last end),
and `ReadTypes` that two keys never share a stream.  `PacketStep` is what adding
to a known and to a new stream have in common.

For the capture, `CaptureInv` says where everything comes from, for any inputs
that `CaptureAssumption` allows (which is what frames and link headers are, and
nothing about what they contain):

* `HeaderFound`: the header's size is what `DetectsLink` says, and no wrong one is
  ever taken, for all 65536 tags;
* `FragmentsKnown`: each fragment list is `ListOK`, that is, there is an order of
  its fragments (`IsOrder`) that `first`, `next` and `last` go by.  Up to three
  fragments it is the order of the offsets, and up to two `prev` is right too, which
  is why a third goes to its place and a fourth may not (`PlaceIs`, `LinkedIs`).
  Their payloads are those of frames with that `ip_id` (`Heads`);
* `StreamsKnown`: a stream is what `NewStream` and `append` can make of it, under a
  key that is one of its two ends;
* `AppendedKnown`: what was appended under a key came in a conversation with
  that end (`FromConversation`); `NoMixing` follows from it;
* `ReadingKnown`: nothing is read before the file is closed, and from then on the
  invariant of `ReadBackCorrect` holds, so `ReadBackWhole` does.

*Proofs* (`ConversationProofs`).  `AppendedOnce`, `QueriesInFile` and `FileInOrder`
are `NotAppendedTwice`, `QueriesRecorded` and `RecordsInOrder` for any number of
conversations, messages, segments and repetitions.  None is inductive: whether the
next segment is appended depends on what the stream remembers of those before, and
what is written on what it keeps of the packet it is in and of the query before.
`TidyInv` says, for each tidy conversation, how far all of this is when `p` of its
frames were read (`OwnTidy`):

* `StreamTidy`: the stream is there if a SYN or a query came and no FIN since; it
  remembers the sequence number of the last segment with data and holds exactly
  the part of its packet that has come, unless the filter kept that packet out;
* `AppendedTidy`: what was appended is part of what was captured, without
  repetition, and nothing captured lies beyond the last segment (`InSequence`), so
  that the next one is new;
* `QueriesTidy`: of a query that began its segment everything that came was
  appended;
* `RecordsTidy`: with `n` a bound on the messages complete so far, the records of
  the key are in order and of messages below `n` (`Sound`), and what the stream
  keeps back until the EOF fits behind them (`Pending`).

`ApartTidy` is the other half: streams of other keys, and their records, have
nothing of this conversation, and its `ip_id`s are in no fragment list.  It makes a
frame of another conversation keep `OwnTidy` (`ForeignStep`), and says that a query
in the file under another key is another query.

A frame of the conversation itself is without data (`OwnQuietStep`) or has some
(`OwnDataStep`).  Data either repeat the last ones (`OwnRepeatStep`) or come next
(`NextIs`), and are then dropped by the filter (`OwnDropStep`) or appended
(`OwnAppendStep`).  For data that are appended `UnitStep` follows one part through `append`
and `handle_packet_complete`, and `RunStep` all parts of the segment.  While the
size of the link header is unknown nothing has happened (`NothingYet`), and
`BeforeFrame` lets the first frame begin from there.  A full disk cuts the records
of a step anywhere; `GrownSound` shows that what got through is in order.

The recursive definitions (`append`'s data, `Chain`, the walk of `enqueue`) are
functions on an interval of numbers, so that what they compute could be proved.

## 8. Proved and only checked

Proved for all values of the constants: every safety property that a passing run
checks, and the refinement of `PacketSet` by `PacketList`.  The hypotheses are
`SafeKinds` for `ReplayStream`, `~SplitHeaders` for `FramingExact`, the assumptions
on the constants, and those that are part of the properties (`Tidy`, `IdsApart`,
`EndsApart`).  Where a definition is recursive, the proof is by induction over a set
of numbers (`InductionLemmas`, from the library's theorem on minimal elements): the
library's induction theorems take an operator, which the provers cannot instantiate.

Only model-checked:

* `ReplayEnds` and `AppendReturns`: liveness under fairness is outside what the
  prover does;
* the violations.

Two more disagreements were met.  No run shows them as a violation: the first is a
state the run `analysis` reaches, the second a step the run `capture` takes, and both
are left out of the properties by a hypothesis that names them.

* `query_pattern.cc:48` takes `PCRE2_ERROR_NOMEMORY` for "likely no match thus no
  replacement and the query is bigger than output_buf" and goes on.  The length is
  `PCRE2_UNSET` by then, and the next pattern writes a text or a key of 1024 bytes or
  more beyond `lookup_key` (`mysql_stream_manager.cc:465`, `502`; `db_query` has the same
  buffer and call at `mysql_stream.cc:273`).  In the model: phase `"overrun"`.
* The doc of `detect_eth_header_size` promises "14 as a fallback" (`pcap_detect.cc:93`)
  and its test case 4 expects 14 for a frame of 10 bytes (`pcap_detect.cc:193`).  The
  function returns 0, as the comment at its end says, and `process_pcap_file` ends the
  program (`mysqlpcap.cc:369`).  In the model: `Undetected`.

## 9. What is not modelled

* Regular expressions (pcre2) and the SQL grammar: their results are inputs.
* The text `db_query` assembles from several packets (that they are all there is
  `GatheredWhole`), and a packet that the replay thread reaches while its bytes
  are still arriving, which needs `--run` on a capture.
* The schedule (`replay_speed`): a sleep before a query delays the replay thread
  between two steps and needs no step of its own.  The computation of the
  delay is not modelled.
* Printing, CSV and table output, progress, EXPLAIN, option parsing.
* The MySQL client library beyond the outcomes `db_connect` and
  `mysql_real_query` can have; memory exhaustion.
* Scripts, build files and packaging.
