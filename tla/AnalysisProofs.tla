--------------------------- MODULE AnalysisProofs ---------------------------
(***************************************************************************)
(* Proofs about Analysis, for any connections, packets, slow-query limit   *)
(* and length of the capture: the reference counts are exact, nothing is   *)
(* used after it was deleted or left at exit, each query is registered     *)
(* once with its own EOF, and the slow-query list is right.                *)
(***************************************************************************)
EXTENDS Analysis, InductionLemmas, FiniteSetTheorems, SequenceTheorems, TLAPS

(***************************************************************************)
(* The inductive invariant.                                                *)
(***************************************************************************)

(* The rest of the input is one; no packet is later than the clock.        *)
InputOK ==
  /\ todo \in [n_slow : Nat, script : Seq([pkt : PacketKind, gap : Nat]), free : Nat]
  /\ \A i \in DOMAIN pkts : pkts[i].ts <= time

(* Streams are numbered; no two keys have the same one; the packets on a   *)
(* list are of a stream that a key has.                                    *)
Live(s) == \E key \in Keys : lookup[key] = s
StreamsOK ==
  /\ \A i \in DOMAIN pkts : pkts[i].s <= Len(streams)
  /\ \A k, l \in Keys : lookup[k] = lookup[l] /\ lookup[k] # 0 => k = l
  /\ \A i \in linked : Live(pkts[i].s)

(* A registered query is registered once and not on a list any more.       *)
RegisteredOK ==
  /\ \A i, j \in DOMAIN reg : reg[i].pkt = reg[j].pkt => i = j
  /\ ~Stopped => \A j \in DOMAIN reg : reg[j].pkt \notin linked

(* last_query of a stream is its last query, on the list, and nothing that *)
(* would answer it came since; without a last_query every query of the     *)
(* stream is answered or overtaken by another one.                         *)
Since(q) == {i \in DOMAIN pkts : i > q /\ pkts[i].s = pkts[q].s /\ pkts[i].kind \in {"Query", "EOF"}}
OpenQuery(key) ==
  LastQuery(key) # 0 =>
    /\ LastQuery(key) \in linked /\ pkts[LastQuery(key)].kind = "Query"
    /\ pkts[LastQuery(key)].s = lookup[key] /\ Since(LastQuery(key)) = {}
NoOpenQuery(key) ==
  lookup[key] # 0 /\ LastQuery(key) = 0 =>
    \A q \in DOMAIN pkts : pkts[q].s = lookup[key] /\ pkts[q].kind = "Query" => Since(q) # {}
LastQueryOK ==
  ~Stopped /\ phase # "done" => \A key \in Keys : OpenQuery(key) /\ NoOpenQuery(key)

(* What the phases of the end have emptied.                                *)
EndOK ==
  /\ phase \in {"streams", "done"} => slow = {}
  /\ phase = "done" => linked = {}

IInv ==
  /\ TypeOK /\ InputOK /\ StreamsOK /\ RegisteredOK /\ LastQueryOK /\ EndOK
  /\ RefExact /\ SlowestKept /\ PairedWithOwnEof /\ KeptUntilEnd
  /\ NoUseAfterFree

-----------------------------------------------------------------------------
(* What a packet's arrival does to the packets and the streams, whatever   *)
(* its kind: it is appended, and last becomes last_query of its stream.    *)
Inputs1 == [n_slow : Nat, script : Seq([pkt : PacketKind, gap : Nat]), free : Nat]

Arrived(k, ts, last) ==
  /\ pkts' \in Seq(PacketType) /\ Len(pkts') = New
  /\ \A i \in 1 .. Len(pkts) : pkts'[i] = pkts[i]
  /\ pkts'[New] = [s |-> StreamOf(k.key), kind |-> k.kind, text |-> k.text, ts |-> ts]
  /\ time' = ts /\ ts \in Nat /\ time <= ts
  /\ todo' \in Inputs1 /\ todo'.n_slow = todo.n_slow
  /\ streams' \in Seq(0 .. New) /\ Len(streams) <= Len(streams')
  /\ StreamOf(k.key) \in 1 .. Len(streams')
  /\ lookup[k.key] = 0 => StreamOf(k.key) > Len(streams)
  /\ lookup[k.key] # 0 => StreamOf(k.key) = lookup[k.key]
  /\ lookup' \in [Keys -> 0 .. Len(streams')]
  /\ lookup'[k.key] = StreamOf(k.key) /\ LastQuery(k.key)' = last
  /\ \A l \in Keys \ {k.key} : lookup'[l] = lookup[l] /\ LastQuery(l)' = LastQuery(l)

(* The packet that comes next is one of a connection of Keys, not earlier  *)
(* than the clock.                                                         *)
LEMMA NextPacket ==
  ASSUME TypeOK, InputOK, NEW x \in PacketsNow, NextIs(x[2])
  PROVE  /\ x[1] \in PacketKind /\ x[2] \in Nat /\ time <= x[2] /\ time' = x[2]
         /\ todo' \in Inputs1 /\ todo'.n_slow = todo.n_slow
<1>1. todo \in Inputs1 /\ time \in Nat /\ time' = x[2]
  BY DEF InputOK, TypeOK, Inputs1, NextIs
<1>2. CASE todo.script = <<>>
  <2>1. x \in Kinds \X (time .. MaxTime)
    BY <1>2 DEF PacketsNow
  <2>2. x[1] \in PacketKind /\ x[2] \in time .. MaxTime
    BY <2>1, AnalysisAssumption
  <2>3. todo.free > 0 /\ todo' = [todo EXCEPT !.free = @ - 1]
    BY <1>2 DEF NextIs
  <2>4. x[2] \in Nat /\ time <= x[2]
    BY <1>1, <2>2, AnalysisAssumption
  <2>5. todo' \in Inputs1 /\ todo'.n_slow = todo.n_slow
    BY SMTT(30), <1>1, <2>3 DEF Inputs1
  <2> QED BY <1>1, <2>2, <2>4, <2>5
<1>3. CASE todo.script # <<>>
  <2>1. x = <<todo.script[1].pkt, time + todo.script[1].gap>>
    BY <1>3 DEF PacketsNow
  <2>2. todo' = [todo EXCEPT !.script = Tail(@)]
    BY <1>3 DEF NextIs
  <2>3. todo.script \in Seq([pkt : PacketKind, gap : Nat])
    BY <1>1 DEF Inputs1
  <2>4. todo.script[1] \in [pkt : PacketKind, gap : Nat] /\ Tail(todo.script) \in Seq([pkt : PacketKind, gap : Nat])
    <3> DEFINE E == [pkt : PacketKind, gap : Nat]
    <3>1. todo.script \in Seq(E) /\ todo.script # <<>>
      BY <1>3, <2>3
    <3> HIDE DEF E
    <3>2. Tail(todo.script) \in Seq(E) /\ 1 \in 1 .. Len(todo.script)
      BY <3>1, HeadTailProperties, EmptySeq
    <3>3. todo.script[1] \in E
      BY <3>1, <3>2, ElementOfSeq
    <3> QED BY <3>2, <3>3 DEF E
  <2>5. todo' \in Inputs1 /\ todo'.n_slow = todo.n_slow
    BY <1>1, <2>2, <2>4 DEF Inputs1
  <2>6. x[1] \in PacketKind /\ x[2] \in Nat /\ time <= x[2]
    BY <1>1, <2>1, <2>4
  <2> QED BY <1>1, <2>5, <2>6
<1> QED BY <1>2, <1>3

(* The stream of a new packet's key.                                       *)
LEMMA StreamLemma ==
  ASSUME TypeOK, StreamsOK, NEW key \in Keys, NEW last \in 0 .. New
  PROVE  LET T == [WithStream(key) EXCEPT ![StreamOf(key)] = last]
         IN
         /\ T \in Seq(0 .. New) /\ Len(streams) <= Len(T)
         /\ StreamOf(key) \in 1 .. Len(T) /\ T[StreamOf(key)] = last
         /\ \A s \in 1 .. Len(streams) : s # StreamOf(key) => T[s] = streams[s]
<1>1. streams \in Seq(0 .. New) /\ Len(pkts) \in Nat /\ lookup[key] \in 0 .. Len(streams)
  <2>1. streams \in Seq(0 .. Len(pkts)) /\ Len(pkts) \in Nat /\ lookup[key] \in 0 .. Len(streams)
    BY DEF TypeOK
  <2> QED BY <2>1, SeqMonotonic DEF New
<1>2. /\ WithStream(key) \in Seq(0 .. New)
      /\ Len(WithStream(key)) = IF lookup[key] = 0 THEN Len(streams) + 1 ELSE Len(streams)
      /\ \A s \in 1 .. Len(streams) : WithStream(key)[s] = streams[s]
  <2>1. CASE lookup[key] = 0
    <3>1. WithStream(key) = Append(streams, 0) /\ 0 \in 0 .. New
      BY <1>1, <2>1 DEF WithStream, New
    <3> QED BY <1>1, <2>1, <3>1, AppendProperties
  <2>2. CASE lookup[key] # 0
    BY <1>1, <2>2 DEF WithStream
  <2> QED BY <2>1, <2>2
<1>3. StreamOf(key) \in 1 .. Len(WithStream(key))
  BY <1>1, <1>2 DEF StreamOf
<1> QED BY <1>2, <1>3, ExceptSeq

LEMMA ArrivedLemma ==
  ASSUME TypeOK, InputOK, StreamsOK, NEW x \in PacketsNow, NextIs(x[2]), NewPacket(x[1], x[2]),
         NEW last \in 0 .. New,
         streams' = [WithStream(x[1].key) EXCEPT ![StreamOf(x[1].key)] = last]
  PROVE  Arrived(x[1], x[2], last)
<1> DEFINE k == x[1]  ts == x[2]
<1>1. k \in PacketKind /\ ts \in Nat /\ time <= ts /\ time' = ts /\ todo' \in Inputs1 /\ todo'.n_slow = todo.n_slow
  BY NextPacket
<1>2. k.key \in Keys /\ k.kind \in {"Query", "ClientMore", "Reply", "EOF"} /\ k.text \in Texts
  BY <1>1 DEF PacketKind
<1>3. /\ streams' \in Seq(0 .. New) /\ Len(streams) <= Len(streams')
      /\ StreamOf(k.key) \in 1 .. Len(streams') /\ streams'[StreamOf(k.key)] = last
      /\ \A s \in 1 .. Len(streams) : s # StreamOf(k.key) => streams'[s] = streams[s]
  BY <1>2, StreamLemma
<1>4. lookup \in [Keys -> 0 .. Len(streams)] /\ Len(streams) \in Nat /\ Len(streams') \in Nat
  BY <1>3 DEF TypeOK
<1>5. lookup' = [lookup EXCEPT ![k.key] = StreamOf(k.key)]
  BY DEF NewPacket
<1>6. /\ lookup[k.key] = 0 => StreamOf(k.key) > Len(streams)
      /\ lookup[k.key] # 0 => StreamOf(k.key) = lookup[k.key]
      /\ StreamOf(k.key) # 0
  BY <1>2, <1>4 DEF StreamOf
<1>7. lookup' \in [Keys -> 0 .. Len(streams')] /\ lookup'[k.key] = StreamOf(k.key)
  BY <1>2, <1>3, <1>4, <1>5
<1>8. LastQuery(k.key)' = last
  BY <1>3, <1>6, <1>7 DEF LastQuery
<1>9. ASSUME NEW l \in Keys \ {k.key}
      PROVE  lookup'[l] = lookup[l] /\ LastQuery(l)' = LastQuery(l)
  <2>1. lookup'[l] = lookup[l] /\ lookup[l] \in 0 .. Len(streams)
    BY <1>4, <1>5
  <2>2. lookup[l] # 0 => lookup[l] # StreamOf(k.key)
    BY <1>2, <1>4, <1>6, <2>1 DEF StreamsOK
  <2> QED BY <1>3, <1>4, <2>1, <2>2 DEF LastQuery
<1>10. [s |-> StreamOf(k.key), kind |-> k.kind, text |-> k.text, ts |-> ts] \in PacketType
  BY <1>1, <1>2, <1>3, <1>4 DEF PacketType
<1>11. pkts \in Seq(PacketType) /\ pkts' = Append(pkts, [s |-> StreamOf(k.key), kind |-> k.kind, text |-> k.text, ts |-> ts])
  BY DEF TypeOK, NewPacket
<1>12. /\ pkts' \in Seq(PacketType) /\ Len(pkts') = New
       /\ \A i \in 1 .. Len(pkts) : pkts'[i] = pkts[i]
       /\ pkts'[New] = [s |-> StreamOf(k.key), kind |-> k.kind, text |-> k.text, ts |-> ts]
  BY <1>10, <1>11, AppendProperties DEF New
<1> QED BY <1>1, <1>3, <1>6, <1>7, <1>8, <1>9, <1>12 DEF Arrived
-----------------------------------------------------------------------------
(* The types, in the form the provers use.                                 *)
LEMMA PacketFacts ==
  ASSUME TypeOK
  PROVE  /\ Len(pkts) \in Nat /\ DOMAIN pkts = 1 .. Len(pkts)
         /\ \A i \in DOMAIN pkts : pkts[i] \in PacketType
         /\ \A i \in DOMAIN pkts : pkts[i].s \in Nat /\ pkts[i].s # 0 /\ pkts[i].ts \in Nat
         /\ New \in Nat /\ New \notin DOMAIN pkts /\ 1 .. New = DOMAIN pkts \cup {New}
         /\ linked \subseteq DOMAIN pkts /\ New \notin linked
<1>1. pkts \in Seq(PacketType) /\ linked \subseteq DOMAIN pkts
  BY DEF TypeOK
<1>2. Len(pkts) \in Nat /\ DOMAIN pkts = 1 .. Len(pkts) /\ \A i \in DOMAIN pkts : pkts[i] \in PacketType
  <2> HIDE DEF PacketType
  <2> QED BY <1>1, LenProperties, ElementOfSeq
<1>3. \A i \in DOMAIN pkts : pkts[i].s \in Nat /\ pkts[i].s # 0 /\ pkts[i].ts \in Nat
  BY <1>2 DEF PacketType
<1> QED BY <1>1, <1>2, <1>3 DEF New

LEMMA StreamFacts ==
  ASSUME TypeOK
  PROVE  /\ Len(streams) \in Nat /\ lookup \in [Keys -> 0 .. Len(streams)]
         /\ \A key \in Keys : lookup[key] \in Nat /\ LastQuery(key) \in 0 .. Len(pkts)
         /\ \A key \in Keys : LastQuery(key) # 0 => lookup[key] # 0
<1>1. streams \in Seq(0 .. Len(pkts)) /\ lookup \in [Keys -> 0 .. Len(streams)]
  BY DEF TypeOK
<1>2. Len(streams) \in Nat /\ \A s \in 1 .. Len(streams) : streams[s] \in 0 .. Len(pkts)
  BY <1>1, LenProperties, ElementOfSeq
<1> QED BY <1>1, <1>2, PacketFacts DEF LastQuery

LEMMA ArrivedFacts ==
  ASSUME TypeOK, NEW k \in PacketKind, NEW ts, NEW last, Arrived(k, ts, last)
  PROVE  /\ DOMAIN pkts' = DOMAIN pkts \cup {New}
         /\ \A i \in DOMAIN pkts : pkts'[i] = pkts[i]
         /\ pkts'[New].s = StreamOf(k.key) /\ pkts'[New].kind = k.kind
         /\ pkts'[New].text = k.text /\ pkts'[New].ts = ts
         /\ k.key \in Keys /\ Len(streams') \in Nat
<1>1. pkts' \in Seq(PacketType) /\ Len(pkts') = New /\ streams' \in Seq(0 .. New)
  BY DEF Arrived
<1>2. DOMAIN pkts' = 1 .. New /\ Len(streams') \in Nat
  <2> HIDE DEF PacketType
  <2> QED BY <1>1, LenProperties
<1> QED BY <1>2, PacketFacts DEF Arrived, PacketKind

LEMMA OtherStream ==
  ASSUME TypeOK, StreamsOK, NEW k \in PacketKind, NEW ts, NEW last, Arrived(k, ts, last),
         NEW l \in Keys, l # k.key, lookup[l] # 0
  PROVE  lookup[l] # StreamOf(k.key)
<1>1. k.key \in Keys /\ lookup[l] \in 0 .. Len(streams) /\ Len(streams) \in Nat
  BY StreamFacts, ArrivedFacts
<1>2. CASE lookup[k.key] = 0
  BY <1>1, <1>2 DEF Arrived
<1>3. CASE lookup[k.key] # 0
  <2>1. StreamOf(k.key) = lookup[k.key]
    BY <1>3 DEF Arrived
  <2> QED BY <1>1, <2>1 DEF StreamsOK
<1> QED BY <1>2, <1>3

(* The parts of the invariant that hold after an arrival of any kind.      *)
LEMMA ArrivalStreams ==
  ASSUME TypeOK, InputOK, StreamsOK, NEW k \in PacketKind, NEW ts, NEW last, Arrived(k, ts, last),
         linked' \subseteq linked \cup {New}
  PROVE  InputOK' /\ StreamsOK'
<1>1. InputOK'
  <2>1. ASSUME NEW i \in DOMAIN pkts'
        PROVE  pkts'[i].ts <= time'
    <3>1. time' = ts /\ time <= ts /\ time \in Nat /\ ts \in Nat
      BY DEF Arrived, TypeOK
    <3>2. CASE i = New
      BY <3>1, <3>2, ArrivedFacts
    <3>3. CASE i \in DOMAIN pkts
      BY <3>1, <3>3, PacketFacts, ArrivedFacts DEF InputOK
    <3> QED BY <2>1, <3>2, <3>3, ArrivedFacts
  <2> QED BY <2>1 DEF InputOK, Arrived, Inputs1
<1>2. ASSUME NEW i \in DOMAIN pkts'
      PROVE  pkts'[i].s <= Len(streams')
  <2>1. StreamOf(k.key) \in 1 .. Len(streams') /\ Len(streams) <= Len(streams')
    BY DEF Arrived
  <2> QED BY <2>1, PacketFacts, StreamFacts, ArrivedFacts DEF StreamsOK
<1>3. ASSUME NEW a \in Keys, NEW b \in Keys, lookup'[a] = lookup'[b], lookup'[a] # 0
      PROVE  a = b
  <2>1. ASSUME NEW l \in Keys, l # k.key, lookup'[l] = lookup'[k.key], lookup'[l] # 0
        PROVE  FALSE
    <3>1. lookup'[l] = lookup[l] /\ lookup'[k.key] = StreamOf(k.key)
      BY <2>1 DEF Arrived
    <3> QED BY <2>1, <3>1, OtherStream
  <2>2. CASE a # k.key /\ b # k.key
    BY <1>3, <2>2 DEF StreamsOK, Arrived
  <2> QED BY <1>3, <2>1, <2>2
<1>4. ASSUME NEW i \in linked'
      PROVE  Live(pkts[i].s)'
  <2>1. CASE i = New
    <3>1. k.key \in Keys /\ lookup'[k.key] = pkts'[i].s
      BY <2>1, ArrivedFacts DEF Arrived
    <3> QED BY <3>1 DEF Live
  <2>2. CASE i # New
    <3>1. i \in linked /\ i \in DOMAIN pkts /\ pkts'[i] = pkts[i]
      BY <1>4, <2>2, PacketFacts, ArrivedFacts
    <3>2. PICK key \in Keys : lookup[key] = pkts[i].s
      BY <3>1 DEF StreamsOK, Live
    <3>3. lookup[key] # 0
      BY <3>1, <3>2, PacketFacts
    <3>4. lookup'[key] = lookup[key]
      BY <3>3 DEF Arrived
    <3>5. lookup'[key] = pkts'[i].s
      BY <3>1, <3>2, <3>4
    <3> QED BY <3>5 DEF Live
  <2> QED BY <2>1, <2>2
<1> QED BY <1>1, <1>2, <1>3, <1>4 DEF StreamsOK

(* A packet of one connection is nothing to the others.                    *)
LEMMA ArrivalOtherKeys ==
  ASSUME TypeOK, StreamsOK, NEW k \in PacketKind, NEW ts, NEW last, Arrived(k, ts, last),
         NEW l \in Keys, l # k.key, OpenQuery(l), NoOpenQuery(l),
         \A i \in linked : pkts[i].s # StreamOf(k.key) => i \in linked'
  PROVE  OpenQuery(l)' /\ NoOpenQuery(l)'
<1>1. lookup'[l] = lookup[l] /\ LastQuery(l)' = LastQuery(l)
  BY DEF Arrived
<1>2. lookup[l] # 0 => lookup[l] # StreamOf(k.key)
  BY OtherStream
<1>3. ASSUME NEW q \in DOMAIN pkts, pkts[q].s = lookup[l], lookup[l] # 0
      PROVE  pkts'[q] = pkts[q] /\ q \in DOMAIN pkts' /\ Since(q)' = Since(q)
  BY <1>2, <1>3, PacketFacts, ArrivedFacts DEF Since
<1>4. OpenQuery(l)'
  <2>1. SUFFICES ASSUME NEW q, q = LastQuery(l), q = LastQuery(l)', q # 0
                 PROVE  /\ q \in linked' /\ pkts'[q].kind = "Query"
                        /\ pkts'[q].s = lookup[l] /\ Since(q)' = {}
    BY <1>1 DEF OpenQuery, Since
  <2>2. /\ q \in linked /\ pkts[q].kind = "Query"
        /\ pkts[q].s = lookup[l] /\ Since(q) = {}
    BY <2>1 DEF OpenQuery
  <2>3. q \in DOMAIN pkts /\ lookup[l] # 0
    BY <2>1, <2>2, StreamFacts, PacketFacts
  <2>4. pkts'[q] = pkts[q] /\ Since(q)' = Since(q)
    BY <1>3, <2>2, <2>3
  <2>5. q \in linked'
    BY <1>2, <2>2, <2>3
  <2> QED BY <2>2, <2>4, <2>5
<1>5. NoOpenQuery(l)'
  <2>1. SUFFICES ASSUME lookup[l] # 0, LastQuery(l) = 0,
                        NEW q \in DOMAIN pkts', pkts'[q].s = lookup[l], pkts'[q].kind = "Query"
                 PROVE  Since(q)' # {}
    BY <1>1 DEF NoOpenQuery
  <2>2. q \in DOMAIN pkts /\ pkts'[q] = pkts[q]
    BY <1>2, <2>1, ArrivedFacts
  <2> QED BY <1>3, <2>1, <2>2 DEF NoOpenQuery
<1> QED BY <1>4, <1>5
-----------------------------------------------------------------------------
(* Packets that answer no query: Query, KeptPacket and Reply.              *)
Quiet(k, ts) ==
  /\ Arrived(k, ts, IF k.kind = "Query" THEN New ELSE LastQuery(k.key))
  /\ phase = "read" /\ UNCHANGED <<reg, slow, phase>>
  /\ k.kind = "EOF" => LastQuery(k.key) = 0
  /\ IF k.kind = "Reply"
     THEN ref' = Append(ref, 0) /\ linked' = linked /\ freed' = freed \cup {New}
     ELSE ref' = Append(ref, 1) /\ linked' = linked \cup {New} /\ freed' = freed

LEMMA RefFacts ==
  ASSUME TypeOK
  PROVE  /\ ref \in Seq(0 .. 2) /\ Len(ref) = Len(pkts) /\ DOMAIN ref = DOMAIN pkts
         /\ \A i \in DOMAIN pkts : ref[i] \in 0 .. 2
         /\ freed = {i \in DOMAIN pkts : ref[i] = 0}
<1>1. ref \in Seq(0 .. 2) /\ Len(ref) = Len(pkts) /\ freed = Dead(ref)
  BY DEF TypeOK
<1>2. DOMAIN ref = DOMAIN pkts /\ \A i \in DOMAIN pkts : ref[i] \in 0 .. 2
  BY <1>1, PacketFacts, LenProperties, ElementOfSeq
<1> QED BY <1>1, <1>2 DEF Dead

LEMMA RegFacts ==
  ASSUME TypeOK
  PROVE  /\ Len(reg) \in Nat /\ DOMAIN reg = 1 .. Len(reg)
         /\ \A j \in DOMAIN reg : /\ reg[j].pkt \in DOMAIN pkts /\ reg[j].eof \in DOMAIN pkts
                                  /\ reg[j].exec \in Nat
         /\ slow \subseteq DOMAIN reg
<1> DEFINE R == [pkt : DOMAIN pkts, eof : DOMAIN pkts, exec : Nat]
<1>1. reg \in Seq(R) /\ slow \subseteq DOMAIN reg
  BY DEF TypeOK
<1>2. Len(reg) \in Nat /\ DOMAIN reg = 1 .. Len(reg) /\ \A j \in DOMAIN reg : reg[j] \in R
  <2> HIDE DEF R
  <2> QED BY <1>1, LenProperties, ElementOfSeq
<1> QED BY <1>1, <1>2

LEMMA SameStreams ==
  ASSUME TypeOK, StreamsOK, NEW key \in Keys
  PROVE  WithStream(key) = [WithStream(key) EXCEPT ![StreamOf(key)] = LastQuery(key)]
<1>1. streams \in Seq(0 .. Len(pkts)) /\ Len(streams) \in Nat /\ lookup[key] \in 0 .. Len(streams)
  BY StreamFacts DEF TypeOK
<1>2. CASE lookup[key] = 0
  <2>1. 0 \in 0 .. Len(pkts) /\ WithStream(key) = Append(streams, 0) /\ StreamOf(key) = Len(streams) + 1
        /\ LastQuery(key) = 0
    BY <1>2, PacketFacts DEF WithStream, StreamOf, LastQuery
  <2>2. WithStream(key) \in Seq(0 .. Len(pkts)) /\ WithStream(key)[StreamOf(key)] = LastQuery(key)
    BY <1>1, <2>1, AppendProperties
  <2> QED BY <2>2
<1>3. CASE lookup[key] # 0
  BY <1>1, <1>3 DEF WithStream, StreamOf, LastQuery
<1> QED BY <1>2, <1>3

LEMMA QuietStep ==
  ASSUME IInv, NEW x \in PacketsNow,
         Query(x[1], x[2]) \/ KeptPacket(x[1], x[2]) \/ Reply(x[1], x[2])
  PROVE  Quiet(x[1], x[2]) /\ x[1] \in PacketKind
<1> DEFINE k == x[1]  ts == x[2]
<1>1. TypeOK /\ InputOK /\ StreamsOK
  BY DEF IInv
<1>2. NextIs(ts) /\ NewPacket(k, ts) /\ phase = "read" /\ UNCHANGED <<reg, slow, phase>>
  BY DEF Query, KeptPacket, Reply, NextIs
<1>3. k \in PacketKind /\ k.key \in Keys
  BY <1>1, <1>2, NextPacket DEF PacketKind
<1>4. LastQuery(k.key) \in 0 .. New /\ New \in 0 .. New
  BY <1>1, <1>3, PacketFacts, StreamFacts DEF New
<1>5. CASE Query(k, ts)
  <2>1. k.kind = "Query" /\ streams' = [WithStream(k.key) EXCEPT ![StreamOf(k.key)] = New]
    BY <1>5 DEF Query, SetLastQuery
  <2>2. Arrived(k, ts, New)
    BY <1>1, <1>2, <1>4, <2>1, ArrivedLemma
  <2> QED BY <1>2, <1>3, <1>5, <2>1, <2>2 DEF Query, Quiet
<1>6. CASE KeptPacket(k, ts) \/ Reply(k, ts)
  <2>1. streams' = [WithStream(k.key) EXCEPT ![StreamOf(k.key)] = LastQuery(k.key)]
    BY <1>1, <1>3, <1>6, SameStreams DEF KeptPacket, Reply
  <2>2. Arrived(k, ts, LastQuery(k.key))
    BY <1>1, <1>2, <1>4, <2>1, ArrivedLemma
  <2> QED BY <1>2, <1>3, <1>6, <2>1, <2>2 DEF KeptPacket, Reply, Quiet
<1> QED BY <1>5, <1>6

LEMMA QuietTypes ==
  ASSUME IInv, NEW k \in PacketKind, NEW ts, Quiet(k, ts)
  PROVE  TypeOK'
<1>1. TypeOK
  BY DEF IInv
<1>2. time' \in Nat /\ pkts' \in Seq(PacketType) /\ Len(pkts') = New
      /\ streams' \in Seq(0 .. Len(pkts')) /\ lookup' \in [Keys -> 0 .. Len(streams')]
  BY DEF Quiet, Arrived
<1>3. PICK v \in 0 .. 2 : /\ ref' = Append(ref, v)
                          /\ freed' = IF v = 0 THEN freed \cup {New} ELSE freed
  <2>1. CASE k.kind = "Reply"
    BY <2>1 DEF Quiet
  <2>2. CASE k.kind # "Reply"
    BY <2>2 DEF Quiet
  <2> QED BY <2>1, <2>2
<1>4. ref' \in Seq(0 .. 2) /\ Len(ref') = Len(pkts')
      /\ ref'[New] = v /\ \A i \in DOMAIN pkts : ref'[i] = ref[i]
  BY <1>1, <1>2, <1>3, RefFacts, PacketFacts, AppendProperties DEF New
<1>5. DOMAIN ref' = DOMAIN pkts \cup {New}
  BY <1>1, <1>2, <1>4, PacketFacts, LenProperties
<1>6. freed' = Dead(ref')
  BY <1>1, <1>3, <1>4, <1>5, RefFacts, PacketFacts DEF Dead
<1>7. linked' \subseteq DOMAIN pkts'
  BY <1>1, PacketFacts, ArrivedFacts DEF Quiet
<1>8. reg' \in Seq([pkt : DOMAIN pkts', eof : DOMAIN pkts', exec : Nat])
  <2>1. [pkt : DOMAIN pkts, eof : DOMAIN pkts, exec : Nat] \subseteq [pkt : DOMAIN pkts', eof : DOMAIN pkts', exec : Nat]
    BY <1>1, ArrivedFacts DEF Quiet
  <2>2. reg \in Seq([pkt : DOMAIN pkts, eof : DOMAIN pkts, exec : Nat])
    BY <1>1 DEF TypeOK
  <2>3. reg \in Seq([pkt : DOMAIN pkts', eof : DOMAIN pkts', exec : Nat])
    BY <2>1, <2>2, SeqMonotonic
  <2> QED BY <2>3 DEF Quiet
<1>9. slow' \subseteq DOMAIN reg' /\ phase' \in Phases
  BY <1>1 DEF Quiet, TypeOK
<1> QED BY <1>2, <1>4, <1>6, <1>7, <1>8, <1>9 DEF TypeOK
(* The counts, the registered queries and what the phases of the end have  *)
(* emptied.                                                                *)
LEMMA QuietCounts ==
  ASSUME IInv, NEW k \in PacketKind, NEW ts, Quiet(k, ts)
  PROVE  RefExact' /\ RegisteredOK' /\ EndOK' /\ SlowestKept'
<1>1. TypeOK /\ phase = "read" /\ reg' = reg /\ slow' = slow /\ phase' = phase
  BY DEF IInv, Quiet
<1>2. \A j \in DOMAIN reg : reg[j].pkt \in DOMAIN pkts /\ reg[j].pkt # New
  BY <1>1, RegFacts, PacketFacts
<1>3. linked' \subseteq linked \cup {New}
  BY DEF Quiet
<1>4. RegisteredOK'
  <2>1. \A i, j \in DOMAIN reg : reg[i].pkt = reg[j].pkt => i = j
    BY DEF IInv, RegisteredOK
  <2>2. \A j \in DOMAIN reg : reg[j].pkt \notin linked'
    BY <1>1, <1>2, <1>3 DEF IInv, RegisteredOK, Stopped
  <2> QED BY <1>1, <2>1, <2>2 DEF RegisteredOK
<1>5. EndOK'
  BY <1>1 DEF EndOK
<1>6. RefExact'
  <2>1. PICK v \in {0, 1} : /\ ref' = Append(ref, v) /\ v = (IF New \in linked' THEN 1 ELSE 0)
                            /\ linked' = IF v = 1 THEN linked \cup {New} ELSE linked
    <3>1. CASE k.kind = "Reply"
      BY <1>1, <3>1, PacketFacts DEF Quiet
    <3>2. CASE k.kind # "Reply"
      BY <3>2 DEF Quiet
    <3> QED BY <3>1, <3>2
  <2>2. ref'[New] = v /\ \A i \in DOMAIN pkts : ref'[i] = ref[i]
    BY <1>1, <2>1, RefFacts, PacketFacts, AppendProperties DEF New
  <2>3. \A i \in DOMAIN pkts : i \in linked' <=> i \in linked
    BY <1>1, <2>1, PacketFacts
  <2>4. ASSUME NEW i \in DOMAIN pkts'
        PROVE  ref'[i] = (IF i \in linked' THEN 1 ELSE 0)
                         + (IF \E j \in slow : reg[j].pkt = i THEN 1 ELSE 0)
    <3>1. CASE i = New
      <4>1. ~ \E j \in slow : reg[j].pkt = New
        BY <1>1, <1>2, RegFacts
      <4>2. ref'[i] = v
        BY <2>2, <3>1
      <4>3. v \in Int
        BY <2>1
      <4>4. v = (IF i \in linked' THEN 1 ELSE 0)
        BY <2>1, <3>1
      <4>5. (IF \E j \in slow : reg[j].pkt = i THEN 1 ELSE 0) = 0
        BY <3>1, <4>1
      <4> QED BY <4>2, <4>5, <4>3, <4>4
    <3>2. CASE i \in DOMAIN pkts
      BY <1>1, <2>2, <2>3, <3>2 DEF IInv, RefExact, Stopped
    <3> QED BY <1>1, <2>4, <3>1, <3>2, ArrivedFacts DEF Quiet
  <2> QED BY <1>1, <2>4 DEF RefExact
<1>7. SlowestKept'
  BY <1>1 DEF IInv, SlowestKept, Quiet, Arrived, Before
<1> QED BY <1>4, <1>5, <1>6, <1>7

LEMMA QuietLastQuery ==
  ASSUME IInv, NEW k \in PacketKind, NEW ts, Quiet(k, ts)
  PROVE  LastQueryOK'
<1> DEFINE last == IF k.kind = "Query" THEN New ELSE LastQuery(k.key)
<1>1. TypeOK /\ StreamsOK /\ phase = "read" /\ phase' = phase /\ k.key \in Keys
  BY DEF IInv, Quiet, PacketKind
<1>2. Arrived(k, ts, last)
  BY DEF Quiet
<1>3. \A key \in Keys : OpenQuery(key) /\ NoOpenQuery(key)
  BY <1>1 DEF IInv, LastQueryOK, Stopped
<1>4. linked \subseteq linked' /\ (k.kind # "Reply" => New \in linked')
  BY DEF Quiet
<1>5. \A l \in Keys \ {k.key} : OpenQuery(l)' /\ NoOpenQuery(l)'
  BY <1>1, <1>2, <1>3, <1>4, ArrivalOtherKeys
<1>6. /\ LastQuery(k.key)' = last /\ lookup'[k.key] = StreamOf(k.key)
      /\ k.kind # "Query" => last = LastQuery(k.key)
      /\ LastQuery(k.key) # 0 => StreamOf(k.key) = lookup[k.key]
      /\ k.kind = "EOF" => LastQuery(k.key) = 0
  BY <1>1, StreamFacts DEF Quiet, Arrived
<1>7. ASSUME NEW q \in DOMAIN pkts, k.kind # "Query", k.kind # "EOF" \/ pkts[q].s # StreamOf(k.key)
      PROVE  Since(q)' = Since(q)
  BY <1>1, <1>2, <1>7, PacketFacts, ArrivedFacts DEF Since
<1>8. OpenQuery(k.key)'
  <2>1. SUFFICES ASSUME NEW q, q = LastQuery(k.key)', q # 0
                 PROVE  /\ q \in linked' /\ pkts'[q].kind = "Query"
                        /\ pkts'[q].s = lookup'[k.key] /\ Since(q)' = {}
    BY DEF OpenQuery, Since
  <2>2. CASE k.kind = "Query"
    <3>1. q = New
      BY <1>6, <2>1, <2>2
    <3>2. Since(q)' = {}
      BY <1>1, <1>2, <3>1, PacketFacts, ArrivedFacts DEF Since
    <3> QED BY <1>1, <1>2, <1>4, <1>6, <2>2, <3>1, <3>2, ArrivedFacts
  <2>3. CASE k.kind # "Query"
    <3>1. q = LastQuery(k.key) /\ k.kind # "EOF"
      BY <1>6, <2>1, <2>3
    <3>2. /\ q \in linked /\ pkts[q].kind = "Query"
          /\ pkts[q].s = lookup[k.key] /\ Since(q) = {} /\ q \in DOMAIN pkts
      BY <1>1, <1>3, <2>1, <3>1, PacketFacts DEF OpenQuery
    <3>3. Since(q)' = {} /\ pkts'[q] = pkts[q]
      BY <1>1, <1>2, <1>7, <2>3, <3>1, <3>2, ArrivedFacts
    <3> QED BY <1>4, <1>6, <2>1, <3>1, <3>2, <3>3
  <2> QED BY <2>2, <2>3
<1>9. NoOpenQuery(k.key)'
  <2>1. SUFFICES ASSUME LastQuery(k.key)' = 0,
                        NEW q \in DOMAIN pkts', pkts'[q].s = lookup'[k.key], pkts'[q].kind = "Query"
                 PROVE  Since(q)' # {}
    BY DEF NoOpenQuery
  <2>2. k.kind # "Query" /\ LastQuery(k.key) = 0
    BY <1>1, <1>6, <2>1, PacketFacts DEF New
  <2>3. q \in DOMAIN pkts /\ pkts'[q] = pkts[q]
    BY <1>1, <1>2, <2>1, <2>2, ArrivedFacts
  <2>4. lookup[k.key] # 0 /\ pkts[q].s = lookup[k.key]
    <3>1. pkts[q].s = StreamOf(k.key)
      BY <1>6, <2>1, <2>3
    <3>2. CASE lookup[k.key] = 0
      BY <1>1, <1>2, <2>3, <3>1, <3>2, PacketFacts, StreamFacts DEF Arrived, StreamsOK
    <3> QED BY <1>2, <3>1, <3>2 DEF Arrived
  <2>5. Since(q) # {}
    BY <1>1, <1>3, <2>1, <2>2, <2>3, <2>4 DEF NoOpenQuery
  <2>6. Since(q) \subseteq Since(q)'
    BY <1>1, <1>2, <2>3, PacketFacts, ArrivedFacts DEF Since
  <2> QED BY <2>5, <2>6
<1> QED BY <1>5, <1>8, <1>9 DEF LastQueryOK
(* Pairs: no query waits for a new EOF that is Quiet.                      *)
LEMMA OldPairs ==
  ASSUME TypeOK, NEW k \in PacketKind, NEW ts, NEW last, Arrived(k, ts, last),
         NEW q \in DOMAIN pkts, NEW e \in DOMAIN pkts
  PROVE  FollowsQuery(q, e)' <=> FollowsQuery(q, e)
<1>1. \A i \in (q + 1) .. (e - 1) : i \in DOMAIN pkts
  BY PacketFacts
<1> QED BY <1>1, ArrivedFacts DEF FollowsQuery

LEMMA QuietPairs ==
  ASSUME IInv, NEW k \in PacketKind, NEW ts, Quiet(k, ts)
  PROVE  PairedWithOwnEof'
<1> DEFINE last == IF k.kind = "Query" THEN New ELSE LastQuery(k.key)
<1>1. TypeOK /\ StreamsOK /\ phase = "read" /\ reg' = reg /\ k.key \in Keys
  BY DEF IInv, Quiet, PacketKind
<1>2. Arrived(k, ts, last)
  BY DEF Quiet
<1>3. \A i \in DOMAIN reg : /\ FollowsQuery(reg[i].pkt, reg[i].eof)
                            /\ reg[i].exec = pkts[reg[i].eof].ts - pkts[reg[i].pkt].ts
                            /\ reg[i].pkt \in DOMAIN pkts /\ reg[i].eof \in DOMAIN pkts
  BY <1>1, RegFacts DEF IInv, PairedWithOwnEof
<1>4. ASSUME NEW i \in DOMAIN reg
      PROVE  /\ FollowsQuery(reg[i].pkt, reg[i].eof)'
             /\ reg[i].exec = pkts'[reg[i].eof].ts - pkts'[reg[i].pkt].ts
  <2> DEFINE q == reg[i].pkt  e == reg[i].eof
  <2>1. q' = q /\ e' = e /\ q \in DOMAIN pkts /\ e \in DOMAIN pkts
    BY <1>1, <1>3
  <2>2. FollowsQuery(q, e)
    BY <1>3
  <2> QED BY <1>1, <1>2, <1>3, <2>1, <2>2, OldPairs, ArrivedFacts
<1>5. ASSUME NEW q \in DOMAIN pkts', NEW e \in DOMAIN pkts', FollowsQuery(q, e)'
      PROVE  Cardinality({i \in DOMAIN reg : reg[i].pkt = q /\ reg[i].eof = e}) = 1
  <2>1. CASE e = New
    <3>1. k.kind = "EOF" /\ LastQuery(k.key) = 0 /\ q \in DOMAIN pkts
      BY <1>1, <1>2, <1>5, <2>1, ArrivedFacts, PacketFacts DEF FollowsQuery, Quiet
    <3>2. pkts[q].kind = "Query" /\ pkts[q].s = StreamOf(k.key)
      BY <1>1, <1>2, <1>5, <2>1, <3>1, ArrivedFacts DEF FollowsQuery
    <3>3. lookup[k.key] # 0 /\ pkts[q].s = lookup[k.key]
      BY SMTT(30), <1>1, <1>2, <3>1, <3>2, PacketFacts, StreamFacts DEF Arrived, StreamsOK
    <3>4. Since(q) # {}
      BY <1>1, <3>1, <3>2, <3>3 DEF IInv, LastQueryOK, NoOpenQuery, Stopped
    <3>5. PICK i \in DOMAIN pkts : i > q /\ pkts[i].s = pkts[q].s /\ pkts[i].kind \in {"Query", "EOF"}
      BY <3>4 DEF Since
    <3>6. i \in (q + 1) .. (e - 1)
      BY <1>1, <2>1, <3>1, <3>5, PacketFacts DEF New
    <3> QED BY <1>1, <1>2, <1>5, <3>1, <3>5, <3>6, ArrivedFacts DEF FollowsQuery
  <2>2. CASE e # New
    <3>1. q \in DOMAIN pkts /\ e \in DOMAIN pkts
      BY <1>1, <1>2, <1>5, <2>2, ArrivedFacts, PacketFacts DEF FollowsQuery, New
    <3>2. FollowsQuery(q, e)
      BY <1>1, <1>2, <1>5, <3>1, OldPairs
    <3> QED BY <3>1, <3>2 DEF IInv, PairedWithOwnEof
  <2> QED BY <2>1, <2>2
<1> QED BY <1>1, <1>4, <1>5 DEF PairedWithOwnEof

LEMMA QuietKept ==
  ASSUME IInv, NEW k \in PacketKind, NEW ts, Quiet(k, ts)
  PROVE  KeptUntilEnd'
<1> DEFINE last == IF k.kind = "Query" THEN New ELSE LastQuery(k.key)
           Between(i, p) == \E j \in DOMAIN reg : p[reg[j].pkt].s = p[i].s /\ i \in reg[j].pkt .. reg[j].eof
<1>1. TypeOK /\ StreamsOK /\ phase = "read" /\ phase' = phase /\ reg' = reg /\ k.key \in Keys
  BY DEF IInv, Quiet, PacketKind
<1>2. Arrived(k, ts, last)
  BY DEF Quiet
<1>3. \A i \in DOMAIN pkts : i \in linked <=> pkts[i].kind # "Reply" /\ Live(pkts[i].s) /\ ~ Between(i, pkts)
  BY <1>1 DEF IInv, KeptUntilEnd, Live
<1>4. ASSUME NEW i \in DOMAIN pkts'
      PROVE  i \in linked' <=> pkts'[i].kind # "Reply" /\ Live(pkts[i].s)' /\ ~ Between(i, pkts')
  <2>1. CASE i = New
    <3>1. ~ Between(i, pkts')
      BY <1>1, <2>1, RegFacts, PacketFacts DEF New
    <3>2. Live(pkts[i].s)'
      BY <1>1, <1>2, <2>1, ArrivedFacts DEF Live, Arrived
    <3>3. i \in linked' <=> pkts'[i].kind # "Reply"
      BY <1>1, <1>2, <2>1, ArrivedFacts, PacketFacts DEF Quiet
    <3> QED BY <3>1, <3>2, <3>3
  <2>2. CASE i \in DOMAIN pkts
    <3>1. pkts'[i] = pkts[i] /\ (i \in linked' <=> i \in linked)
      BY <1>1, <1>2, <2>2, ArrivedFacts, PacketFacts DEF Quiet
    <3>2. Between(i, pkts') <=> Between(i, pkts)
      BY <1>1, <1>2, <2>2, <3>1, RegFacts, ArrivedFacts
    <3>3. Live(pkts[i].s)' <=> Live(pkts[i].s)
      <4>1. \A l \in Keys \ {k.key} : lookup'[l] = lookup[l]
        BY <1>2 DEF Arrived
      <4>2. pkts[i].s # 0 /\ pkts[i].s <= Len(streams) /\ pkts[i].s \in Nat
        BY <1>1, <2>2, PacketFacts DEF StreamsOK
      <4>3. lookup'[k.key] = pkts[i].s <=> lookup[k.key] = pkts[i].s
        BY SMTT(30), <1>1, <1>2, <4>2, StreamFacts DEF Arrived
      <4> QED BY <3>1, <4>1, <4>3 DEF Live
    <3> QED BY <1>3, <2>2, <3>1, <3>2, <3>3
  <2> QED BY <1>1, <1>2, <2>1, <2>2, ArrivedFacts
<1>5. linked' \subseteq DOMAIN pkts'
  BY <1>1, <1>2, PacketFacts, ArrivedFacts DEF Quiet
<1>6. \A i \in DOMAIN pkts' : i \in linked' <=>
          /\ pkts'[i].kind # "Reply" /\ \E key \in Keys : lookup'[key] = pkts'[i].s
          /\ \A j \in DOMAIN reg : pkts'[reg[j].pkt].s = pkts'[i].s => i \notin reg[j].pkt .. reg[j].eof
  BY <1>4 DEF Live
<1> QED BY <1>1, <1>5, <1>6 DEF KeptUntilEnd

LEMMA QuietNoUse ==
  ASSUME IInv, NEW k \in PacketKind, NEW ts, Quiet(k, ts)
  PROVE  NoUseAfterFree'
<1>1. TypeOK /\ phase = "read" /\ phase' = phase /\ reg' = reg /\ slow' = slow
  BY DEF IInv, Quiet
<1>2. linked' \cap freed' = {}
  BY <1>1, PacketFacts, RefFacts DEF IInv, NoUseAfterFree, Quiet
<1>3. \A j \in slow : reg[j].pkt \notin freed'
  BY <1>1, PacketFacts, RegFacts DEF IInv, NoUseAfterFree, Quiet
<1>4. \A key \in Keys : LastQuery(key)' # 0 => LastQuery(key)' \in linked'
  BY <1>1, QuietLastQuery DEF LastQueryOK, OpenQuery, Stopped
<1> QED BY <1>1, <1>2, <1>3, <1>4 DEF NoUseAfterFree
-----------------------------------------------------------------------------
(* A list, or all of them, is unlinked: StreamEnd and DeleteStreams.       *)
LEMMA UnmarkLemma ==
  ASSUME NEW r, NEW n \in Nat, DOMAIN r = 1 .. n, NEW S,
         \A i \in 1 .. n : (IF i \in S THEN r[i] - 1 ELSE r[i]) \in 0 .. 2
  PROVE  /\ Unmark(r, S) \in Seq(0 .. 2) /\ Len(Unmark(r, S)) = n /\ DOMAIN Unmark(r, S) = 1 .. n
         /\ \A i \in 1 .. n : Unmark(r, S)[i] = IF i \in S THEN r[i] - 1 ELSE r[i]
<1> DEFINE u == Unmark(r, S)
<1>1. u \in [1 .. n -> 0 .. 2] /\ \A i \in 1 .. n : u[i] = IF i \in S THEN r[i] - 1 ELSE r[i]
  BY DEF Unmark
<1>2. u \in Seq(0 .. 2)
  <2> HIDE DEF u
  <2> QED BY <1>1, SeqDef
<1>3. Len(u) = n
  <2> HIDE DEF u
  <2>1. DOMAIN u = 1 .. n /\ DOMAIN u = 1 .. Len(u) /\ Len(u) \in Nat
    BY <1>1, <1>2, LenProperties
  <2> QED BY <2>1
<1> QED BY <1>1, <1>2, <1>3

LEMMA UnlinkedLemma ==
  ASSUME IInv, ~Stopped, NEW S \in SUBSET linked, Unlinked(S),
         UNCHANGED <<pkts, reg, slow>>
  PROVE  /\ ref' \in Seq(0 .. 2) /\ Len(ref') = Len(pkts') /\ freed' = Dead(ref')
         /\ linked' = linked \ S /\ linked' \subseteq DOMAIN pkts'
         /\ RefExact'
         /\ linked' \cap freed' = {} /\ \A j \in slow : reg[j].pkt \notin freed'
<1> DEFINE sl(i) == IF \E j \in slow : reg[j].pkt = i THEN 1 ELSE 0
<1>1. TypeOK /\ linked' = linked \ S /\ ref' = Unmark(ref, S) /\ freed' = freed \cup Dead(ref')
  BY DEF IInv, Unlinked
<1>2. \A i \in DOMAIN pkts : ref[i] = (IF i \in linked THEN 1 ELSE 0) + sl(i)
  BY DEF IInv, RefExact
<1>3. \A i \in DOMAIN pkts : (IF i \in S THEN ref[i] - 1 ELSE ref[i]) = (IF i \in linked' THEN 1 ELSE 0) + sl(i)
  BY <1>1, <1>2
<1>4. Len(pkts) \in Nat /\ DOMAIN pkts = 1 .. Len(pkts) /\ DOMAIN ref = 1 .. Len(pkts)
  BY <1>1, PacketFacts, RefFacts
<1>5. \A i \in 1 .. Len(pkts) : (IF i \in S THEN ref[i] - 1 ELSE ref[i]) \in 0 .. 2
  <2>1. ASSUME NEW i \in DOMAIN pkts
        PROVE  (IF i \in linked' THEN 1 ELSE 0) + sl(i) \in 0 .. 2
    <3>1. sl(i) \in {0, 1}
      OBVIOUS
    <3> HIDE DEF sl
    <3> QED BY <3>1
  <2> HIDE DEF sl
  <2> QED BY <1>3, <1>4, <2>1
<1>6. /\ ref' \in Seq(0 .. 2) /\ Len(ref') = Len(pkts) /\ DOMAIN ref' = DOMAIN pkts
      /\ \A i \in DOMAIN pkts : ref'[i] = IF i \in S THEN ref[i] - 1 ELSE ref[i]
  BY <1>1, <1>4, <1>5, UnmarkLemma
<1>7. \A i \in DOMAIN pkts : ref'[i] = (IF i \in linked' THEN 1 ELSE 0) + sl(i)
  BY <1>3, <1>6
<1>8. freed' = Dead(ref')
  <2>1. ASSUME NEW i \in freed
        PROVE  i \in Dead(ref')
    <3>1. i \in DOMAIN pkts /\ ref[i] = 0 /\ i \notin linked
      BY <1>1, <2>1, RefFacts DEF IInv, NoUseAfterFree
    <3>2. ref'[i] = 0
      BY <1>6, <3>1
    <3> QED BY <1>6, <3>1, <3>2 DEF Dead
  <2> QED BY <1>1, <2>1
<1>9. \A i \in freed' : i \in DOMAIN pkts /\ ref'[i] = 0
  BY <1>6, <1>8 DEF Dead
<1>10. linked' \cap freed' = {} /\ \A j \in slow : reg[j].pkt \notin freed'
  BY <1>7, <1>9
<1>11. linked' \subseteq DOMAIN pkts
  BY <1>1, PacketFacts
<1> QED BY <1>1, <1>6, <1>7, <1>8, <1>10, <1>11 DEF RefExact

(* FIN or RST.                                                             *)
LEMMA StreamEndStep ==
  ASSUME IInv, NEW key \in Keys, StreamEnd(key)
  PROVE  IInv'
<1> DEFINE S == {i \in linked : pkts[i].s = lookup[key]}
<1>1. /\ TypeOK /\ InputOK /\ StreamsOK /\ phase = "read" /\ phase' = phase /\ lookup[key] # 0
      /\ UNCHANGED <<time, pkts, streams, reg, slow>>
      /\ lookup' = [lookup EXCEPT ![key] = 0]
      /\ todo' = [todo EXCEPT !.free = @ - 1] /\ todo.free > 0
  BY DEF IInv, StreamEnd
<1>2. /\ ref' \in Seq(0 .. 2) /\ Len(ref') = Len(pkts') /\ freed' = Dead(ref')
      /\ linked' = linked \ S /\ linked' \subseteq DOMAIN pkts'
      /\ RefExact'
      /\ linked' \cap freed' = {} /\ \A j \in slow : reg[j].pkt \notin freed'
  BY <1>1, UnlinkedLemma DEF StreamEnd, Stopped
<1>3. /\ lookup' \in [Keys -> 0 .. Len(streams)] /\ lookup'[key] = 0
      /\ \A l \in Keys \ {key} : lookup'[l] = lookup[l] /\ LastQuery(l)' = LastQuery(l)
      /\ LastQuery(key)' = 0
  BY <1>1, StreamFacts DEF LastQuery
<1>4. TypeOK'
  BY <1>1, <1>2, <1>3 DEF TypeOK
<1>5. InputOK'
  BY <1>1 DEF InputOK
<1>6. StreamsOK'
  <2>1. \A k, l \in Keys : lookup'[k] = lookup'[l] /\ lookup'[k] # 0 => k = l
    BY <1>1, <1>3 DEF StreamsOK
  <2>2. ASSUME NEW i \in linked'
        PROVE  Live(pkts[i].s)'
    <3>1. i \in linked /\ pkts[i].s # lookup[key]
      BY <1>2, <2>2
    <3>2. PICK l \in Keys : lookup[l] = pkts[i].s
      BY <1>1, <3>1 DEF StreamsOK, Live
    <3> QED BY <1>1, <1>3, <3>1, <3>2 DEF Live
  <2> QED BY <1>1, <2>1, <2>2 DEF StreamsOK
<1>7. RegisteredOK' /\ EndOK' /\ SlowestKept' /\ PairedWithOwnEof'
  <2>1. RegisteredOK'
    BY <1>1, <1>2 DEF IInv, RegisteredOK, Stopped
  <2>2. EndOK'
    BY <1>1 DEF EndOK
  <2>3. SlowestKept'
    BY <1>1 DEF IInv, SlowestKept, Before, InputOK
  <2>4. PairedWithOwnEof'
    BY <1>1 DEF IInv, PairedWithOwnEof, FollowsQuery
  <2> QED BY <2>1, <2>2, <2>3, <2>4
<1>8. LastQueryOK'
  <2>1. ASSUME NEW l \in Keys \ {key}
        PROVE  OpenQuery(l)' /\ NoOpenQuery(l)'
    <3>1. OpenQuery(l) /\ NoOpenQuery(l)
      BY <1>1 DEF IInv, LastQueryOK, Stopped
    <3>2. OpenQuery(l)'
      <4>1. SUFFICES ASSUME NEW q, q = LastQuery(l), q = LastQuery(l)', q # 0
                     PROVE  /\ q \in linked' /\ pkts'[q].kind = "Query"
                            /\ pkts'[q].s = lookup'[l] /\ Since(q)' = {}
        BY <1>3, <2>1 DEF OpenQuery, Since
      <4>2. /\ q \in linked /\ pkts[q].kind = "Query" /\ pkts[q].s = lookup[l] /\ Since(q) = {}
        BY <3>1, <4>1 DEF OpenQuery
      <4>3. lookup[l] # lookup[key]
        BY <1>1, <2>1 DEF StreamsOK
      <4> QED BY <1>1, <1>2, <1>3, <2>1, <4>2, <4>3 DEF Since
    <3>3. NoOpenQuery(l)'
      BY <1>1, <1>3, <2>1, <3>1 DEF NoOpenQuery, Since
    <3> QED BY <3>2, <3>3
  <2>2. OpenQuery(key)' /\ NoOpenQuery(key)'
    BY <1>3 DEF OpenQuery, NoOpenQuery
  <2> QED BY <2>1, <2>2 DEF LastQueryOK
<1>9. KeptUntilEnd'
  <2>1. ASSUME NEW i \in DOMAIN pkts
        PROVE  Live(pkts[i].s)' <=> Live(pkts[i].s) /\ pkts[i].s # lookup[key]
    <3>1. pkts[i].s # 0
      BY <1>1, PacketFacts
    <3> QED BY <1>1, <1>3, <3>1 DEF Live, StreamsOK
  <2>2. \A i \in DOMAIN pkts : i \in linked <=>
          /\ pkts[i].kind # "Reply" /\ Live(pkts[i].s)
          /\ \A j \in DOMAIN reg : pkts[reg[j].pkt].s = pkts[i].s => i \notin reg[j].pkt .. reg[j].eof
    BY <1>1 DEF IInv, KeptUntilEnd, Live
  <2>3. \A i \in DOMAIN pkts : i \in linked' <=>
          /\ pkts[i].kind # "Reply" /\ Live(pkts[i].s)'
          /\ \A j \in DOMAIN reg : pkts[reg[j].pkt].s = pkts[i].s => i \notin reg[j].pkt .. reg[j].eof
    BY <1>2, <2>1, <2>2
  <2>4. \A i \in DOMAIN pkts : Live(pkts[i].s)' <=> \E l \in Keys : lookup'[l] = pkts[i].s
    BY <1>1 DEF Live
  <2> QED BY <1>1, <1>2, <2>3, <2>4 DEF KeptUntilEnd
<1>10. NoUseAfterFree'
  BY <1>1, <1>2, <1>8 DEF NoUseAfterFree, LastQueryOK, OpenQuery
<1> QED BY <1>2, <1>4, <1>5, <1>6, <1>7, <1>8, <1>9, <1>10 DEF IInv
-----------------------------------------------------------------------------
(* The end of the run.                                                     *)
SameState == UNCHANGED <<todo, time, packetVars, lookup, streams, reg, slow>>

(* The phases change nothing the invariant is about but what it says of    *)
(* the phase itself.                                                       *)
LEMMA PhaseStep ==
  ASSUME IInv, SameState,
         phase' = phase \/ (phase = "read" /\ phase' = "print")
         \/ (phase = "print" /\ phase' = "stats") \/ (phase = "stats" /\ phase' = "cleanup")
  PROVE  IInv'
<1>1. UNCHANGED <<todo, time, pkts, ref, freed, linked, lookup, streams, reg, slow>>
  BY DEF SameState, packetVars
<1>2. /\ phase' \in Phases /\ (Stopped' <=> Stopped)
      /\ (phase' \in {"streams", "done"} <=> phase \in {"streams", "done"})
      /\ (phase' = "done" <=> phase = "done") /\ (phase' = "read" => phase = "read")
  BY DEF IInv, TypeOK, Phases, Stopped
<1>3. TypeOK'
  BY <1>1, <1>2 DEF IInv, TypeOK, Dead
<1>4. InputOK' /\ StreamsOK' /\ RegisteredOK' /\ EndOK'
  BY <1>1, <1>2 DEF IInv, InputOK, StreamsOK, Live, RegisteredOK, EndOK
<1>5. LastQueryOK'
  BY <1>1, <1>2 DEF IInv, LastQueryOK, OpenQuery, NoOpenQuery, Since, LastQuery
<1>6. RefExact' /\ PairedWithOwnEof' /\ KeptUntilEnd'
  BY <1>1, <1>2 DEF IInv, RefExact, PairedWithOwnEof, FollowsQuery, KeptUntilEnd
<1>7. SlowestKept'
  BY <1>1, <1>2 DEF IInv, SlowestKept, Before
<1>8. NoUseAfterFree'
  BY <1>1, <1>2 DEF IInv, NoUseAfterFree, LastQuery
<1> QED BY <1>3, <1>4, <1>5, <1>6, <1>7, <1>8 DEF IInv

LEMMA DeleteSlowStep ==
  ASSUME IInv, DeleteSlow
  PROVE  IInv'
<1> DEFINE S == {reg[i].pkt : i \in slow}
<1>1. /\ TypeOK /\ phase = "cleanup" /\ phase' = "streams" /\ slow' = {}
      /\ ref' = Unmark(ref, S) /\ freed' = freed \cup S
      /\ UNCHANGED <<todo, time, pkts, linked, lookup, streams, reg>>
  BY DEF IInv, DeleteSlow
<1>2. S \subseteq DOMAIN pkts /\ S \cap linked = {}
  BY <1>1, RegFacts DEF IInv, RegisteredOK, Stopped
<1>3. \A i \in DOMAIN pkts : ref[i] = (IF i \in linked THEN 1 ELSE 0) + (IF i \in S THEN 1 ELSE 0)
  BY <1>1 DEF IInv, RefExact, Stopped
<1>4. \A i \in DOMAIN pkts : (IF i \in S THEN ref[i] - 1 ELSE ref[i]) = IF i \in linked THEN 1 ELSE 0
  <2> HIDE DEF S
  <2> QED BY <1>3
<1>5. Len(pkts) \in Nat /\ DOMAIN pkts = 1 .. Len(pkts) /\ DOMAIN ref = 1 .. Len(pkts)
  BY <1>1, PacketFacts, RefFacts
<1>6. \A i \in 1 .. Len(pkts) : (IF i \in S THEN ref[i] - 1 ELSE ref[i]) \in 0 .. 2
  <2> HIDE DEF S
  <2>1. \A i \in DOMAIN pkts : (IF i \in linked THEN 1 ELSE 0) \in 0 .. 2
    OBVIOUS
  <2> QED BY <1>4, <1>5, <2>1
<1>7. /\ ref' \in Seq(0 .. 2) /\ Len(ref') = Len(pkts) /\ DOMAIN ref' = DOMAIN pkts
      /\ \A i \in DOMAIN pkts : ref'[i] = IF i \in linked THEN 1 ELSE 0
  <2> HIDE DEF S
  <2> QED BY <1>1, <1>4, <1>5, <1>6, UnmarkLemma
<1>8. freed' = Dead(ref')
  <2>1. \A i \in DOMAIN pkts : i \in freed <=> ref[i] = 0
    BY <1>1, RefFacts
  <2>2. freed \subseteq DOMAIN pkts
    BY <1>1, RefFacts
  <2>3. \A i \in DOMAIN pkts : i \in freed \cup S <=> i \notin linked
    BY <1>2, <1>3, <2>1
  <2>4. \A i : i \in freed' <=> i \in DOMAIN pkts /\ i \notin linked
    BY <1>1, <1>2, <2>2, <2>3
  <2>5. \A i : i \in Dead(ref') <=> i \in DOMAIN pkts /\ i \notin linked
    BY <1>7 DEF Dead
  <2> HIDE DEF S
  <2> QED BY <2>4, <2>5
<1>9. TypeOK'
  <2>1. linked' \subseteq DOMAIN pkts' /\ slow' \subseteq DOMAIN reg' /\ phase' \in Phases
    BY <1>1, PacketFacts DEF Phases
  <2> QED BY <1>1, <1>7, <1>8, <2>1 DEF TypeOK
<1>10. InputOK' /\ StreamsOK' /\ RegisteredOK' /\ EndOK' /\ SlowestKept'
  BY <1>1 DEF IInv, InputOK, StreamsOK, Live, RegisteredOK, EndOK, SlowestKept, Stopped
<1>11. LastQueryOK'
  BY <1>1 DEF IInv, LastQueryOK, OpenQuery, NoOpenQuery, Since, LastQuery, Stopped
<1>12. PairedWithOwnEof' /\ KeptUntilEnd'
  BY <1>1 DEF IInv, PairedWithOwnEof, FollowsQuery, KeptUntilEnd
<1>13. RefExact'
  BY <1>1, <1>7 DEF RefExact
<1>14. NoUseAfterFree'
  <2>1. linked' \cap freed' = {}
    <3>1. \A i \in freed' : i \in DOMAIN pkts /\ ref'[i] = 0
      BY <1>7, <1>8 DEF Dead
    <3>2. \A i \in DOMAIN pkts : i \in linked => ref'[i] = 1
      BY <1>7
    <3> QED BY <1>1, <3>1, <3>2
  <2>2. \A key \in Keys : LastQuery(key)' # 0 => LastQuery(key)' \in linked'
    BY <1>1 DEF IInv, NoUseAfterFree, LastQuery, Stopped
  <2> QED BY <1>1, <2>1, <2>2 DEF NoUseAfterFree
<1> QED BY <1>9, <1>10, <1>11, <1>12, <1>13, <1>14 DEF IInv

LEMMA DeleteStreamsStep ==
  ASSUME IInv, DeleteStreams
  PROVE  IInv'
<1>1. /\ TypeOK /\ phase = "streams" /\ phase' = "done" /\ slow = {} /\ Unlinked(linked)
      /\ lookup' = [k \in Keys |-> 0]
      /\ UNCHANGED <<todo, time, pkts, streams, reg, slow>>
  BY DEF IInv, EndOK, DeleteStreams
<1>2. /\ ref' \in Seq(0 .. 2) /\ Len(ref') = Len(pkts') /\ freed' = Dead(ref')
      /\ linked' = {} /\ RefExact'
  BY <1>1, UnlinkedLemma DEF Stopped
<1>3. lookup' \in [Keys -> 0 .. Len(streams)] /\ \A key \in Keys : lookup'[key] = 0
  BY <1>1, StreamFacts
<1>4. TypeOK'
  <2>1. linked' \subseteq DOMAIN pkts' /\ slow' \subseteq DOMAIN reg' /\ phase' \in Phases
    BY <1>1, <1>2 DEF Phases
  <2> QED BY <1>1, <1>2, <1>3, <2>1 DEF TypeOK
<1>5. InputOK' /\ StreamsOK' /\ RegisteredOK' /\ EndOK' /\ SlowestKept' /\ LastQueryOK'
  BY <1>1, <1>2, <1>3 DEF IInv, InputOK, StreamsOK, RegisteredOK, EndOK, SlowestKept, LastQueryOK
<1>6. PairedWithOwnEof' /\ KeptUntilEnd'
  BY <1>1 DEF IInv, PairedWithOwnEof, FollowsQuery, KeptUntilEnd
<1>7. NoUseAfterFree'
  BY <1>1, <1>2 DEF NoUseAfterFree
<1> QED BY <1>2, <1>4, <1>5, <1>6, <1>7 DEF IInv
-----------------------------------------------------------------------------
(* A bounded set of numbers has a greatest element.                        *)
LEMMA NatMax ==
  ASSUME NEW n \in Nat, NEW T \in SUBSET (1 .. n), T # {}
  PROVE  \E x \in T : \A y \in T : y <= x
<1> DEFINE D == {n - i : i \in T}
<1>1. D \in SUBSET Nat /\ D # {}
  <2>1. \A i \in T : n - i \in Nat
    OBVIOUS
  <2>2. PICK i \in T : TRUE
    OBVIOUS
  <2>3. n - i \in D
    OBVIOUS
  <2> QED BY <2>1, <2>3
<1>2. PICK d \in D : \A y \in D : d <= y
  <2> HIDE DEF D
  <2> QED BY <1>1, NatMin
<1>3. PICK x \in T : d = n - x
  BY <1>2
<1>4. \A y \in T : n - x <= n - y
  BY <1>2, <1>3
<1>5. \A y \in T : y <= x
  BY <1>4
<1> QED BY <1>5

LEMMA MinOfTwo ==
  ASSUME NEW a \in Nat, NEW b \in Nat
  PROVE  Min({a, b}) = IF a <= b THEN a ELSE b
<1>1. PICK m \in {a, b} : m = (IF a <= b THEN a ELSE b) /\ \A y \in {a, b} : m <= y
  OBVIOUS
<1>2. \A x \in {a, b} : (\A y \in {a, b} : x <= y) => x = m
  BY <1>1
<1> QED BY <1>1, <1>2 DEF Min

(* Of any queries registered one is the last in the order of slow_queries. *)
LastOf(r, S, e) == e \in S /\ \A x \in S : (\A i \in S \ {x} : Before(r, i, x)) <=> x = e

LEMMA LastOfSlow ==
  ASSUME NEW n \in Nat, NEW r, NEW S, S # {},
         \A i \in S : i \in 1 .. n /\ r[i].exec \in Nat
  PROVE  \E e : LastOf(r, S, e)
<1> DEFINE T == {r[i].exec : i \in S}
<1>1. T \in SUBSET Nat /\ T # {}
  OBVIOUS
<1>2. PICK m \in T : \A y \in T : m <= y
  <2> HIDE DEF T
  <2> QED BY <1>1, NatMin
<1> DEFINE U == {i \in S : r[i].exec = m}
<1>3. U \in SUBSET (1 .. n) /\ U # {}
  BY <1>2
<1>4. PICK e \in U : \A y \in U : y <= e
  <2> HIDE DEF U
  <2> QED BY <1>3, NatMax
<1>5. e \in S /\ e \in Nat /\ r[e].exec = m /\ m \in Nat
  BY <1>1, <1>2, <1>4
<1>6. ASSUME NEW i \in S, i # e
      PROVE  Before(r, i, e) /\ ~ Before(r, e, i)
  <2>1. r[i].exec \in Nat /\ m <= r[i].exec /\ i \in Nat
    BY <1>2, <1>6
  <2>2. r[i].exec = m => i < e
    BY <1>4, <1>5, <1>6, <2>1
  <2> QED BY <1>5, <2>1, <2>2 DEF Before
<1>7. \A x \in S : (\A i \in S \ {x} : Before(r, i, x)) <=> x = e
  BY <1>5, <1>6
<1> QED BY <1>5, <1>7 DEF LastOf

(* The slow queries stay the longest when one more is registered.          *)
Ordered(r, S, n) == \A i \in S, j \in (1 .. n) \ S : Before(r, i, j)
Slowest(r, S, n, m) == Cardinality(S) = Min({m, n}) /\ Ordered(r, S, n)

LEMMA SlowestStep ==
  ASSUME NEW n \in Nat, NEW m \in Nat, m = todo.n_slow,
         NEW r, \A i \in 1 .. n + 1 : r[i].exec \in Nat,
         slow \in SUBSET (1 .. n), Slowest(r, slow, n, m),
         NEW S, S = slow \cup {n + 1}
  PROVE  Slowest(r, S \ Evicted(r, S), n + 1, m)
<1> DEFINE new == S \ Evicted(r, S)
<1> HIDE DEF new
<1> SUFFICES Slowest(r, new, n + 1, m)
  BY DEF new
<1>1. Cardinality(slow) = Min({m, n}) /\ Ordered(r, slow, n)
  BY DEF Slowest
<1>2. PICK c \in Nat : /\ c = Cardinality(slow) /\ c <= n /\ (c = n => slow = 1 .. n)
                      /\ IsFiniteSet(S) /\ Cardinality(S) = c + 1
  <2>1. IsFiniteSet(1 .. n) /\ Cardinality(1 .. n) = n
    BY FS_Interval
  <2>2. IsFiniteSet(slow) /\ Cardinality(slow) <= n /\ (Cardinality(1 .. n) = Cardinality(slow) => 1 .. n = slow)
    BY <2>1, FS_Subset
  <2>3. n + 1 \notin slow
    OBVIOUS
  <2>4. Cardinality(slow) \in Nat
    BY <2>2, FS_CardinalityType
  <2>5. IsFiniteSet(S) /\ Cardinality(S) = Cardinality(slow) + 1
    BY <2>2, <2>3, FS_AddElement
  <2> QED BY <2>1, <2>2, <2>4, <2>5
<1>3. /\ c = (IF m <= n THEN m ELSE n)
      /\ Min({m, n + 1}) = IF m <= n + 1 THEN m ELSE n + 1
  BY <1>1, <1>2, MinOfTwo
<1>4. S \subseteq 1 .. n + 1 /\ n + 1 \in S /\ n + 1 \notin slow
  OBVIOUS
<1>5. CASE c + 1 <= m
  <2>1. c = n /\ m >= n + 1
    BY <1>3, <1>5
  <2>2. new = S
    BY <1>2, <1>5 DEF Evicted, new
  <2>3. S = 1 .. n + 1
    BY <1>2, <2>1
  <2>4. Min({m, n + 1}) = n + 1
    BY <1>3, <2>1
  <2> QED BY <1>2, <2>1, <2>2, <2>3, <2>4 DEF Ordered, Slowest
<1>6. CASE ~ (c + 1 <= m)
  <2>1. PICK e \in S : \A x \in S : (\A i \in S \ {x} : Before(r, i, x)) <=> x = e
    <3>1. n + 1 \in Nat /\ S # {} /\ \A i \in S : i \in 1 .. n + 1 /\ r[i].exec \in Nat
      BY <1>4
    <3>2. \E e : LastOf(r, S, e)
      BY <3>1, LastOfSlow
    <3> QED BY <3>2 DEF LastOf
  <2>2. new = S \ {e}
    BY <1>2, <1>6, <2>1 DEF Evicted, new
  <2>3. Cardinality(new) = c
    <3>1. Cardinality(S \ {e}) = Cardinality(S) - 1
      BY <1>2, <2>1, FS_RemoveElement
    <3>2. Cardinality(S) = c + 1 /\ c \in Nat
      BY <1>2
    <3>3. Cardinality(S) - 1 = c
      BY <3>2
    <3> QED BY <2>2, <3>1, <3>3
  <2>4. c = m /\ m <= n
    <3>1. c \in Nat /\ ~ (c + 1 <= m) /\ c = (IF m <= n THEN m ELSE n)
      BY <1>3, <1>6
    <3> QED BY <3>1
  <2>5. Cardinality(new) = Min({m, n + 1})
    BY <1>3, <2>3, <2>4
  <2>6. \A i \in new : Before(r, i, e)
    BY <2>1, <2>2
  <2>7. ASSUME NEW i \in new, NEW j \in (1 .. n + 1) \ new
        PROVE  Before(r, i, j)
    <3>1. CASE j = e
      BY <2>6, <3>1
    <3>2. CASE j # e
      <4>1. j \in (1 .. n) \ slow
        BY <1>4, <2>2, <2>7, <3>2
      <4>2. CASE i \in slow
        BY <1>1, <4>1, <4>2 DEF Ordered
      <4>3. CASE i = n + 1
        <5>1. e \in slow /\ Before(r, i, e)
          BY <2>1, <2>2, <2>6, <4>3
        <5>2. Before(r, e, j)
          BY <1>1, <4>1, <5>1 DEF Ordered
        <5>3. i \in 1 .. n + 1 /\ e \in 1 .. n + 1 /\ j \in 1 .. n + 1
          <6>1. \A x \in 1 .. n : x \in 1 .. n + 1
            OBVIOUS
          <6>2. e \in 1 .. n /\ j \in 1 .. n /\ n + 1 \in 1 .. n + 1
            BY <4>1, <5>1
          <6> QED BY <4>3, <6>1, <6>2
        <5>4. r[i].exec \in Nat /\ r[e].exec \in Nat /\ r[j].exec \in Nat
          BY <5>3
        <5> QED BY <5>1, <5>2, <5>3, <5>4 DEF Before
      <4> QED BY <2>2, <2>7, <4>2, <4>3
    <3> QED BY <3>1, <3>2
  <2> QED BY <2>5, <2>7 DEF Ordered, Slowest
<1> QED BY <1>5, <1>6 DEF Slowest
-----------------------------------------------------------------------------
(* The EOF a query waits for.  q is the query, r the registered queries    *)
(* with it, gone those of them that are erased, off their packets.         *)
Answer(k, ts, q, r, gone, off) ==
  /\ k.kind = "EOF" /\ phase = "read" /\ q = LastQuery(k.key) /\ q # 0
  /\ r = Append(reg, [pkt |-> q, eof |-> New, exec |-> ts - pkts[q].ts])
  /\ gone = Evicted(r, slow \cup {Len(r)}) /\ off = {r[e].pkt : e \in gone}
  /\ reg' = r /\ slow' = (slow \cup {Len(r)}) \ gone
Died(k, ts, q, off) ==
  /\ Arrived(k, ts, q) /\ Stopped'
  /\ ref' = Registered(q, off) /\ freed' = Dead(ref') /\ linked' = (linked \cup {New}) \ off
Finished(k, ts, q, off) ==
  /\ Arrived(k, ts, 0) /\ phase' = "read"
  /\ ref' = Unmark(Registered(q, off), {q} \cup ListAfter(q)) /\ freed' = Dead(ref')
  /\ linked' = linked \ ({q} \cup ListAfter(q))

LEMMA AnswerStep ==
  ASSUME IInv, NEW x \in PacketsNow, AnsweredQuery(x[1], x[2])
  PROVE  /\ x[1] \in PacketKind
         /\ \E q, r, gone, off : /\ Answer(x[1], x[2], q, r, gone, off)
                                 /\ Died(x[1], x[2], q, off) \/ Finished(x[1], x[2], q, off)
<1> DEFINE k == x[1]  ts == x[2]
<1>1. TypeOK /\ InputOK /\ StreamsOK /\ NextIs(ts) /\ NewPacket(k, ts) /\ phase = "read"
  BY DEF IInv, AnsweredQuery, NextIs
<1>2. k \in PacketKind /\ k.key \in Keys
  BY <1>1, NextPacket DEF PacketKind
<1> DEFINE q == LastQuery(k.key)
           r == Append(reg, [pkt |-> q, eof |-> New, exec |-> ts - pkts[q].ts])
           gone == Evicted(r, slow \cup {Len(r)})
           off == {r[e].pkt : e \in gone}
<1>3. q \in 0 .. New /\ q # 0 /\ 0 \in 0 .. New /\ k.kind = "EOF" /\ lookup[k.key] # 0
  BY SMTT(30), <1>1, <1>2, PacketFacts, StreamFacts DEF AnsweredQuery, New
<1>4. reg' = r /\ slow' = (slow \cup {Len(r)}) \ gone
  BY DEF AnsweredQuery
<1>5. \/ /\ Stopped' /\ UNCHANGED streams
         /\ ref' = Registered(q, off) /\ freed' = Dead(ref') /\ linked' = (linked \cup {New}) \ off
      \/ /\ UNCHANGED phase /\ streams' = ClearLastQuery(k.key)
         /\ ref' = Unmark(Registered(q, off), {q} \cup ListAfter(q)) /\ freed' = Dead(ref')
         /\ linked' = linked \ ({q} \cup ListAfter(q))
  <2>1. \A t : KeyFails(t) \subseteq {"died", "overrun"}
    BY DEF KeyFails
  <2>2. phase' \in KeyFails(pkts[q].text) => Stopped'
    BY <2>1 DEF Stopped
  <2> QED BY <2>2, Zenon DEF AnsweredQuery
<1>6. WithStream(k.key) = streams /\ StreamOf(k.key) = lookup[k.key]
  BY <1>3 DEF WithStream, StreamOf
<1>7. ASSUME streams' = streams
      PROVE  Arrived(k, ts, q)
  <2>1. streams' = [WithStream(k.key) EXCEPT ![StreamOf(k.key)] = q]
    BY <1>1, <1>2, <1>6, <1>7, SameStreams
  <2> HIDE DEF q
  <2> QED BY <1>1, <1>3, <2>1, ArrivedLemma
<1>8. ASSUME streams' = ClearLastQuery(k.key)
      PROVE  Arrived(k, ts, 0)
  <2>1. streams' = [WithStream(k.key) EXCEPT ![StreamOf(k.key)] = 0]
    BY <1>6, <1>8 DEF ClearLastQuery
  <2> QED BY <1>1, <1>3, <2>1, ArrivedLemma
<1>9. Answer(k, ts, q, r, gone, off)
  <2> HIDE DEF k, ts
  <2> QED BY <1>1, <1>3, <1>4, Zenon DEF Answer
<1> HIDE DEF k, ts, q, r, gone, off
<1>10. Died(k, ts, q, off) \/ Finished(k, ts, q, off)
  BY <1>1, <1>5, <1>7, <1>8 DEF Died, Finished
<1>11. \E v, w, y, z : Answer(k, ts, v, w, y, z) /\ (Died(k, ts, v, z) \/ Finished(k, ts, v, z))
  BY <1>9, <1>10
<1> QED BY <1>2, <1>11 DEF k, ts

(* The query that is answered, the registered queries, and the erased.     *)
Answered(k, ts, q, r, gone) ==
  /\ q \in linked /\ q \in DOMAIN pkts /\ pkts[q].kind = "Query" /\ Since(q) = {}
  /\ lookup[k.key] # 0 /\ pkts[q].s = lookup[k.key] /\ StreamOf(k.key) = lookup[k.key]
  /\ \A j \in DOMAIN reg : reg[j].pkt # q
  /\ r \in Seq([pkt : DOMAIN pkts', eof : DOMAIN pkts', exec : Nat])
  /\ Len(r) = Len(reg) + 1 /\ DOMAIN r = DOMAIN reg \cup {Len(r)} /\ Len(r) \notin DOMAIN reg
  /\ \A j \in DOMAIN reg : r[j] = reg[j]
  /\ r[Len(r)] = [pkt |-> q, eof |-> New, exec |-> ts - pkts[q].ts]
  /\ gone \subseteq slow \cup {Len(r)}

LEMMA AnswerFacts ==
  ASSUME IInv, NEW k \in PacketKind, NEW ts, NEW last, Arrived(k, ts, last),
         NEW q, NEW r, NEW gone, NEW off, Answer(k, ts, q, r, gone, off)
  PROVE  Answered(k, ts, q, r, gone)
<1>1. TypeOK /\ InputOK /\ phase = "read" /\ k.key \in Keys /\ q = LastQuery(k.key) /\ q # 0
      /\ r = Append(reg, [pkt |-> q, eof |-> New, exec |-> ts - pkts[q].ts])
  BY DEF IInv, Answer, PacketKind
<1>2. /\ q \in linked /\ q \in DOMAIN pkts /\ pkts[q].kind = "Query" /\ Since(q) = {}
      /\ lookup[k.key] # 0 /\ pkts[q].s = lookup[k.key]
  BY <1>1, PacketFacts, StreamFacts DEF IInv, LastQueryOK, OpenQuery, Stopped
<1>3. StreamOf(k.key) = lookup[k.key]
  BY <1>2 DEF Arrived
<1>4. \A j \in DOMAIN reg : reg[j].pkt # q
  BY <1>1, <1>2 DEF IInv, RegisteredOK, Stopped
<1>5. [pkt |-> q, eof |-> New, exec |-> ts - pkts[q].ts] \in [pkt : DOMAIN pkts', eof : DOMAIN pkts', exec : Nat]
  <2>1. pkts[q].ts \in Nat /\ pkts[q].ts <= time /\ time <= ts /\ ts \in Nat /\ time \in Nat
    BY <1>1, <1>2, PacketFacts DEF InputOK, Arrived, TypeOK
  <2>2. q \in DOMAIN pkts' /\ New \in DOMAIN pkts'
    BY <1>1, <1>2, ArrivedFacts
  <2> QED BY <2>1, <2>2
<1>6. reg \in Seq([pkt : DOMAIN pkts', eof : DOMAIN pkts', exec : Nat])
  <2>1. [pkt : DOMAIN pkts, eof : DOMAIN pkts, exec : Nat] \subseteq [pkt : DOMAIN pkts', eof : DOMAIN pkts', exec : Nat]
    BY <1>1, ArrivedFacts
  <2>2. reg \in Seq([pkt : DOMAIN pkts, eof : DOMAIN pkts, exec : Nat])
    BY <1>1 DEF TypeOK
  <2> QED BY <2>1, <2>2, SeqMonotonic
<1>7. /\ r \in Seq([pkt : DOMAIN pkts', eof : DOMAIN pkts', exec : Nat])
      /\ Len(r) = Len(reg) + 1 /\ DOMAIN r = 1 .. Len(r)
      /\ \A j \in 1 .. Len(reg) : r[j] = reg[j]
      /\ r[Len(r)] = [pkt |-> q, eof |-> New, exec |-> ts - pkts[q].ts]
  <2> DEFINE R == [pkt : DOMAIN pkts', eof : DOMAIN pkts', exec : Nat]
             new == [pkt |-> q, eof |-> New, exec |-> ts - pkts[q].ts]
  <2>1. reg \in Seq(R) /\ new \in R /\ r = Append(reg, new)
    BY <1>1, <1>5, <1>6
  <2> HIDE DEF R, new
  <2>2. r \in Seq(R) /\ Len(r) = Len(reg) + 1 /\ r[Len(r)] = new /\ \A j \in 1 .. Len(reg) : r[j] = reg[j]
    BY <2>1, AppendProperties, LenProperties
  <2>3. DOMAIN r = 1 .. Len(r)
    BY <2>2, LenProperties
  <2> USE DEF R, new
  <2> QED BY <2>2, <2>3
<1>8. DOMAIN reg = 1 .. Len(reg) /\ Len(reg) \in Nat
  BY <1>1, RegFacts
<1>9. DOMAIN r = DOMAIN reg \cup {Len(r)} /\ Len(r) \notin DOMAIN reg
  BY <1>7, <1>8
<1>10. gone \subseteq slow \cup {Len(r)}
  BY DEF Answer, Evicted
<1> QED BY <1>2, <1>3, <1>4, <1>7, <1>8, <1>9, <1>10 DEF Answered
(* What is left in the slow queries of each packet, and what of those that *)
(* are erased.                                                             *)
LEMMA AnswerSlow ==
  ASSUME IInv, NEW k \in PacketKind, NEW ts, NEW last, Arrived(k, ts, last),
         NEW q, NEW r, NEW gone, NEW off, Answer(k, ts, q, r, gone, off)
  PROVE  /\ \A i \in off : i = q \/ (i \in DOMAIN pkts /\ i \notin linked /\ \E j \in slow : reg[j].pkt = i)
         /\ (\E j \in slow' : r[j].pkt = q) <=> q \notin off
         /\ \A i \in DOMAIN pkts : i # q =>
              ((\E j \in slow' : r[j].pkt = i) <=> (\E j \in slow : reg[j].pkt = i) /\ i \notin off)
         /\ \A j \in slow' : r[j].pkt \in DOMAIN pkts
<1> DEFINE n == Len(r)
<1>1. Answered(k, ts, q, r, gone)
  BY AnswerFacts
<1>2. /\ TypeOK /\ phase = "read" /\ slow' = (slow \cup {n}) \ gone /\ off = {r[e].pkt : e \in gone}
      /\ gone \subseteq slow \cup {n} /\ slow \subseteq DOMAIN reg /\ n \notin DOMAIN reg
      /\ q \in DOMAIN pkts
      /\ \A j \in DOMAIN reg : r[j] = reg[j] /\ reg[j].pkt \in DOMAIN pkts /\ reg[j].pkt # q
      /\ r[n].pkt = q
  <2>1. TypeOK /\ phase = "read" /\ slow' = (slow \cup {n}) \ gone /\ off = {r[e].pkt : e \in gone}
    BY DEF IInv, Answer
  <2>2. /\ q \in DOMAIN pkts /\ \A j \in DOMAIN reg : reg[j].pkt # q
        /\ n \notin DOMAIN reg /\ \A j \in DOMAIN reg : r[j] = reg[j]
        /\ r[n] = [pkt |-> q, eof |-> New, exec |-> ts - pkts[q].ts]
        /\ gone \subseteq slow \cup {n}
    BY <1>1 DEF Answered
  <2>3. slow \subseteq DOMAIN reg /\ \A j \in DOMAIN reg : reg[j].pkt \in DOMAIN pkts
    BY <2>1, RegFacts
  <2>4. r[n].pkt = q
    BY <2>2
  <2> HIDE DEF n
  <2> QED BY <2>1, <2>2, <2>3, <2>4
<1>3. /\ \A i, j \in DOMAIN reg : reg[i].pkt = reg[j].pkt => i = j
      /\ \A j \in DOMAIN reg : reg[j].pkt \notin linked
  BY <1>2 DEF IInv, RegisteredOK, Stopped
<1> HIDE DEF n
<1>4. \A i \in off : i = q \/ (i \in DOMAIN pkts /\ i \notin linked /\ \E j \in slow : reg[j].pkt = i)
  BY <1>2, <1>3
<1>5. (\E j \in slow' : r[j].pkt = q) <=> q \notin off
  BY <1>2
<1>6. ASSUME NEW i \in DOMAIN pkts, i # q
      PROVE  (\E j \in slow' : r[j].pkt = i) <=> (\E j \in slow : reg[j].pkt = i) /\ i \notin off
  BY <1>2, <1>3, <1>6
<1>7. \A j \in slow' : r[j].pkt \in DOMAIN pkts
  BY <1>2
<1> QED BY <1>4, <1>5, <1>6, <1>7

(* register_query's references, before and after handle_packet_complete    *)
(* unlinks the query and what follows it.                                  *)
Held(r, i) == IF \E j \in slow' : r[j].pkt = i THEN 1 ELSE 0
Counted(r, refs, L) ==
  /\ refs \in Seq(0 .. 2) /\ Len(refs) = New
  /\ \A i \in DOMAIN pkts' :
       /\ refs[i] = Held(r, i) + (IF i \in linked \cup {New} THEN 1 ELSE 0)
       /\ (IF i \in L THEN refs[i] - 1 ELSE refs[i]) = Held(r, i) + (IF i \in linked \ L THEN 1 ELSE 0)

LEMMA AnswerCounts ==
  ASSUME IInv, NEW k \in PacketKind, NEW ts, NEW last, Arrived(k, ts, last),
         NEW q, NEW r, NEW gone, NEW off, Answer(k, ts, q, r, gone, off),
         NEW L, L = {q} \cup ListAfter(q)
  PROVE  Counted(r, Registered(q, off), L)
<1> DEFINE held(i) == Held(r, i)
           a == [Append(ref, 1) EXCEPT ![q] = @ + 1]
           refs == Registered(q, off)
<1>1. TypeOK /\ phase = "read" /\ q \in linked /\ q \in DOMAIN pkts /\ q # New
      /\ \A j \in DOMAIN reg : reg[j].pkt # q
  <2>1. q \in linked /\ q \in DOMAIN pkts /\ \A j \in DOMAIN reg : reg[j].pkt # q
    <3>1. Answered(k, ts, q, r, gone)
      BY AnswerFacts
    <3> QED BY <3>1 DEF Answered
  <2> QED BY <2>1, PacketFacts DEF IInv, Answer
<1>2. ref \in Seq(0 .. 2) /\ Len(ref) = Len(pkts) /\ Len(pkts) \in Nat /\ New = Len(pkts) + 1
      /\ DOMAIN pkts = 1 .. Len(pkts) /\ DOMAIN pkts' = 1 .. New /\ New \notin linked /\ linked \subseteq DOMAIN pkts
  BY <1>1, RefFacts, PacketFacts, ArrivedFacts DEF New
<1>3. \A i \in DOMAIN pkts : ref[i] = (IF i \in linked THEN 1 ELSE 0)
                                      + (IF \E j \in slow : reg[j].pkt = i THEN 1 ELSE 0)
  BY <1>1 DEF IInv, RefExact, Stopped
<1>4. /\ Append(ref, 1) \in Seq(0 .. 2) /\ Len(Append(ref, 1)) = New
      /\ Append(ref, 1)[New] = 1 /\ \A i \in DOMAIN pkts : Append(ref, 1)[i] = ref[i]
      /\ DOMAIN Append(ref, 1) = 1 .. New
  BY <1>2, AppendProperties, LenProperties
<1>5. /\ DOMAIN a = 1 .. New /\ a[q] = ref[q] + 1 /\ a[New] = 1
      /\ \A i \in DOMAIN pkts : i # q => a[i] = ref[i]
  <2> DEFINE b == Append(ref, 1)
  <2>1. /\ b[New] = 1 /\ DOMAIN b = 1 .. New /\ a = [b EXCEPT ![q] = @ + 1]
        /\ \A i \in DOMAIN pkts : b[i] = ref[i]
    BY <1>4
  <2>2. q \in DOMAIN b /\ New \in DOMAIN b /\ \A i \in DOMAIN pkts : i \in DOMAIN b
    BY <1>1, <1>2, <1>4
  <2> HIDE DEF a, b
  <2> QED BY <1>1, <2>1, <2>2
<1>6. ref[q] = 1 /\ held(New) = 0 /\ New \notin off
  <2>1. slow \subseteq DOMAIN reg
    BY <1>1, RegFacts
  <2> QED BY <1>1, <1>2, <1>3, <2>1, AnswerSlow DEF Held
<1>7. ASSUME NEW i \in DOMAIN pkts'
      PROVE  /\ (IF i \in off THEN a[i] - 1 ELSE a[i]) = held(i) + (IF i \in linked \cup {New} THEN 1 ELSE 0)
             /\ held(i) \in {0, 1} /\ (i \in linked => i = q \/ i \notin off)
             /\ i \in L => held(i) = 0 \/ i = q
  <2>1. CASE i = q
    BY <1>1, <1>5, <1>6, <2>1, AnswerSlow DEF Held
  <2>2. CASE i = New
    BY <1>1, <1>5, <1>6, <2>2 DEF Held
  <2>3. CASE i \in DOMAIN pkts /\ i # q
    <3>1. i \in off => i \notin linked /\ \E j \in slow : reg[j].pkt = i
      BY <2>3, AnswerSlow
    <3>2. (\E j \in slow' : r[j].pkt = i) <=> (\E j \in slow : reg[j].pkt = i) /\ i \notin off
      BY <2>3, AnswerSlow
    <3>3. i \in linked => ~ \E j \in slow : reg[j].pkt = i
      BY <1>1, RegFacts DEF IInv, RegisteredOK, Stopped
    <3>4. a[i] = ref[i] /\ i \notin {New}
      BY <1>2, <1>5, <2>3
    <3>5. i \in L => i \in linked
      BY <2>3, <3>4 DEF ListAfter
    <3> QED BY <1>3, <2>3, <3>1, <3>2, <3>3, <3>4, <3>5 DEF Held
  <2> QED BY <1>2, <1>7, <2>1, <2>2, <2>3
<1>8. refs = Unmark(a, off)
  BY DEF Registered
<1>9. New \in L /\ q \in L /\ L \subseteq linked \cup {New}
  BY <1>1 DEF ListAfter
<1> HIDE DEF held, a, refs
<1>10. \A i \in 1 .. New : (IF i \in off THEN a[i] - 1 ELSE a[i]) \in 0 .. 2
  <2>1. ASSUME NEW i \in DOMAIN pkts'
        PROVE  held(i) + (IF i \in linked \cup {New} THEN 1 ELSE 0) \in 0 .. 2
    BY <1>7, <2>1
  <2>2. \A i \in DOMAIN pkts' : (IF i \in off THEN a[i] - 1 ELSE a[i]) \in 0 .. 2
    BY <1>7, <2>1
  <2> QED BY <1>2, <2>2
<1>11. /\ refs \in Seq(0 .. 2) /\ Len(refs) = New
       /\ \A i \in 1 .. New : refs[i] = IF i \in off THEN a[i] - 1 ELSE a[i]
  BY <1>2, <1>5, <1>8, <1>10, UnmarkLemma
<1>12. \A i \in DOMAIN pkts' : refs[i] = held(i) + (IF i \in linked \cup {New} THEN 1 ELSE 0)
  BY <1>2, <1>7, <1>11
<1>13. ASSUME NEW i \in DOMAIN pkts'
       PROVE  (IF i \in L THEN refs[i] - 1 ELSE refs[i]) = held(i) + (IF i \in linked \ L THEN 1 ELSE 0)
  BY <1>2, <1>7, <1>9, <1>12
<1> QED BY <1>11, <1>12, <1>13 DEF held, refs, Counted
(* What both ends of an answered query leave as it should be: the pairs    *)
(* and the slow queries.                                                   *)
LEMMA AnswerRegistered ==
  ASSUME IInv, NEW k \in PacketKind, NEW ts, NEW last, Arrived(k, ts, last),
         NEW q, NEW r, NEW gone, NEW off, Answer(k, ts, q, r, gone, off)
  PROVE  /\ reg' \in Seq([pkt : DOMAIN pkts', eof : DOMAIN pkts', exec : Nat])
         /\ slow' \subseteq DOMAIN reg'
         /\ \A i, j \in DOMAIN reg' : reg'[i].pkt = reg'[j].pkt => i = j
         /\ SlowestKept'
<1>1. Answered(k, ts, q, r, gone)
  BY AnswerFacts
<1>2. TypeOK /\ phase = "read" /\ reg' = r /\ slow' = (slow \cup {Len(r)}) \ gone
      /\ gone = Evicted(r, slow \cup {Len(r)})
  BY DEF IInv, Answer
<1>3. reg' \in Seq([pkt : DOMAIN pkts', eof : DOMAIN pkts', exec : Nat])
  BY <1>1, <1>2 DEF Answered
<1>4. slow \subseteq DOMAIN reg
  BY <1>2, RegFacts
<1>5. slow' \subseteq DOMAIN reg'
  BY <1>1, <1>2, <1>4 DEF Answered
<1>6. \A i, j \in DOMAIN reg' : reg'[i].pkt = reg'[j].pkt => i = j
  <2>1. \A i, j \in DOMAIN reg : reg[i].pkt = reg[j].pkt => i = j
    BY DEF IInv, RegisteredOK
  <2>2. \A i \in DOMAIN r : \/ i = Len(r) /\ r[i].pkt = q
                            \/ i \in DOMAIN reg /\ r[i].pkt = reg[i].pkt /\ reg[i].pkt # q
    BY <1>1 DEF Answered
  <2> QED BY <1>2, <2>1, <2>2
<1>7. SlowestKept'
  <2>1. PICK n \in Nat : n = Len(reg) /\ DOMAIN reg = 1 .. n /\ Len(r) = n + 1 /\ DOMAIN r = 1 .. n + 1
    <3>1. Len(reg) \in Nat /\ DOMAIN reg = 1 .. Len(reg) /\ Len(r) = Len(reg) + 1
          /\ DOMAIN r = DOMAIN reg \cup {Len(r)}
      BY <1>1, <1>2, RegFacts DEF Answered
    <3>2. DOMAIN r = 1 .. Len(reg) + 1
      BY <3>1
    <3> QED BY <3>1, <3>2
  <2>2. PICK m \in Nat : m = todo.n_slow /\ m = todo'.n_slow
    <3>1. todo \in Inputs1 /\ todo'.n_slow = todo.n_slow
      BY DEF IInv, InputOK, Inputs1, Arrived
    <3> QED BY <3>1 DEF Inputs1
  <2>3. \A i \in 1 .. n + 1 : r[i].exec \in Nat
    <3> DEFINE R == [pkt : DOMAIN pkts', eof : DOMAIN pkts', exec : Nat]
    <3>1. r \in Seq(R)
      BY <1>1 DEF Answered
    <3> HIDE DEF R
    <3>2. \A i \in 1 .. n + 1 : r[i] \in R
      BY <2>1, <3>1, ElementOfSeq
    <3> QED BY <3>2 DEF R
  <2>4. slow \in SUBSET (1 .. n) /\ Cardinality(slow) = Min({m, n})
        /\ \A i \in slow, j \in (1 .. n) \ slow : Before(reg, i, j)
    BY <1>2, <1>4, <2>1, <2>2 DEF IInv, SlowestKept
  <2>5. Ordered(r, slow, n)
    <3>1. \A i \in 1 .. n : r[i] = reg[i]
      BY <1>1, <2>1 DEF Answered
    <3> QED BY <2>4, <3>1 DEF Before, Ordered
  <2>6. PICK S : S = slow \cup {n + 1}
    OBVIOUS
  <2>7. slow' = S \ Evicted(r, S)
    BY <1>2, <2>1, <2>6
  <2>8. Cardinality(slow') = Min({m, n + 1}) /\ Ordered(r, slow', n + 1)
    <3>1. Slowest(r, slow, n, m) /\ n \in Nat
      BY <2>1, <2>4, <2>5 DEF Slowest
    <3>2. Slowest(r, S \ Evicted(r, S), n + 1, m)
      BY <2>2, <2>3, <2>4, <2>6, <3>1, SlowestStep
    <3> QED BY <2>7, <3>2 DEF Slowest
  <2>9. Cardinality(slow') = Min({todo'.n_slow, Len(reg')})
    BY <1>2, <2>1, <2>2, <2>8
  <2>10. \A i \in slow', j \in DOMAIN reg' \ slow' : Before(reg', i, j)
    BY <1>2, <2>1, <2>8 DEF Ordered
  <2> QED BY <2>9, <2>10 DEF SlowestKept, Before
<1> QED BY <1>3, <1>5, <1>6, <1>7

LEMMA AnswerPairs ==
  ASSUME IInv, NEW k \in PacketKind, NEW ts, NEW last, Arrived(k, ts, last),
         NEW q, NEW r, NEW gone, NEW off, Answer(k, ts, q, r, gone, off)
  PROVE  PairedWithOwnEof'
<1>1. Answered(k, ts, q, r, gone)
  BY AnswerFacts
<1>2. TypeOK /\ phase = "read" /\ reg' = r /\ k.kind = "EOF"
  BY DEF IInv, Answer
<1>3. q \in DOMAIN pkts /\ pkts'[q] = pkts[q] /\ q < New /\ pkts'[New].s = pkts'[q].s /\ New \in Nat
  BY <1>1, <1>2, ArrivedFacts, PacketFacts DEF Answered, New
<1>4. PICK e : e = New
  OBVIOUS
<1>5. FollowsQuery(q, e)'
  <2>1. ASSUME NEW i \in (q + 1) .. (e - 1), pkts'[i].s = pkts'[q].s
        PROVE  pkts'[i].kind \notin {"Query", "EOF"}
    <3>1. i \in DOMAIN pkts /\ i > q /\ pkts'[i] = pkts[i]
      BY <1>2, <1>3, <1>4, <2>1, ArrivedFacts, PacketFacts DEF New
    <3> QED BY <1>1, <1>3, <2>1, <3>1 DEF Answered, Since
  <2> QED BY <1>1, <1>2, <1>3, <1>4, <2>1, ArrivedFacts DEF FollowsQuery, Answered
<1>6. r[Len(r)].pkt = q /\ r[Len(r)].eof = e /\ r[Len(r)].exec = pkts'[e].ts - pkts'[q].ts
  BY <1>1, <1>2, <1>3, <1>4, ArrivedFacts DEF Answered
<1>7. ASSUME NEW i \in DOMAIN reg
      PROVE  /\ FollowsQuery(r[i].pkt, r[i].eof)'
             /\ r[i].exec = pkts'[r[i].eof].ts - pkts'[r[i].pkt].ts
             /\ r[i].pkt \in DOMAIN pkts /\ r[i].eof \in DOMAIN pkts
  <2>1. PICK v \in DOMAIN pkts, w \in DOMAIN pkts : v = reg[i].pkt /\ w = reg[i].eof
    BY <1>2, RegFacts
  <2>2. r[i] = reg[i]
    BY <1>1 DEF Answered
  <2>3. FollowsQuery(v, w) /\ reg[i].exec = pkts[w].ts - pkts[v].ts
    BY <2>1 DEF IInv, PairedWithOwnEof
  <2>4. FollowsQuery(v, w)' /\ pkts'[v] = pkts[v] /\ pkts'[w] = pkts[w]
    BY <1>2, <2>3, OldPairs, ArrivedFacts
  <2> QED BY <2>1, <2>2, <2>3, <2>4
<1>8. ASSUME NEW v \in DOMAIN pkts', NEW w \in DOMAIN pkts', FollowsQuery(v, w)'
      PROVE  Cardinality({i \in DOMAIN r : r[i].pkt = v /\ r[i].eof = w}) = 1
  <2>1. CASE w = e
    <3>1. v \in DOMAIN pkts /\ pkts'[v] = pkts[v] /\ pkts[v].kind = "Query" /\ pkts[v].s = pkts[q].s
          /\ v \in Nat /\ q \in Nat /\ e \in Nat
      BY <1>2, <1>3, <1>4, <1>8, <2>1, ArrivedFacts, PacketFacts DEF FollowsQuery
    <3>2. ~ (v < q)
      <4>1. SUFFICES ASSUME v < q PROVE FALSE
        OBVIOUS
      <4>2. q \in (v + 1) .. (e - 1)
        BY <1>3, <1>4, <3>1, <4>1
      <4>3. pkts'[q].kind # "Query"
        BY <1>3, <1>8, <2>1, <3>1, <4>2 DEF FollowsQuery
      <4> QED BY <1>1, <1>3, <4>3 DEF Answered
    <3>3. ~ (v > q)
      BY <1>1, <3>1 DEF Answered, Since
    <3>4. v = q
      BY <3>1, <3>2, <3>3
    <3>5. {i \in DOMAIN r : r[i].pkt = v /\ r[i].eof = w} = {Len(r)}
      <4>1. DOMAIN r = DOMAIN reg \cup {Len(r)}
        BY <1>1 DEF Answered
      <4>2. \A i \in DOMAIN reg : r[i].eof # e
        BY <1>2, <1>4, <1>7, PacketFacts
      <4> QED BY <1>6, <2>1, <3>4, <4>1, <4>2
    <3> QED BY <3>5, FS_Singleton
  <2>2. CASE w # e
    <3>1. v \in DOMAIN pkts /\ w \in DOMAIN pkts
      BY <1>2, <1>4, <1>8, <2>2, ArrivedFacts, PacketFacts DEF FollowsQuery, New
    <3>2. FollowsQuery(v, w)
      BY <1>2, <1>8, <3>1, OldPairs
    <3>3. Cardinality({i \in DOMAIN reg : reg[i].pkt = v /\ reg[i].eof = w}) = 1
      BY <3>1, <3>2 DEF IInv, PairedWithOwnEof
    <3>4. {i \in DOMAIN r : r[i].pkt = v /\ r[i].eof = w} = {i \in DOMAIN reg : reg[i].pkt = v /\ reg[i].eof = w}
      BY <1>1, <1>6, <2>2 DEF Answered
    <3> QED BY <3>3, <3>4
  <2> QED BY <2>1, <2>2
<1>9. \A i \in DOMAIN r : FollowsQuery(r[i].pkt, r[i].eof)' /\ r[i].exec = pkts'[r[i].eof].ts - pkts'[r[i].pkt].ts
  <2>1. DOMAIN r = DOMAIN reg \cup {Len(r)}
    BY <1>1 DEF Answered
  <2> QED BY <1>5, <1>6, <1>7, <2>1
<1> QED BY <1>2, <1>8, <1>9 DEF PairedWithOwnEof, FollowsQuery
(* The program that get_query_key ends.                                    *)
LEMMA DiedStep ==
  ASSUME IInv, NEW k \in PacketKind, NEW ts, NEW q, NEW r, NEW gone, NEW off,
         Answer(k, ts, q, r, gone, off), Died(k, ts, q, off)
  PROVE  IInv'
<1>1. /\ Arrived(k, ts, q) /\ Stopped' /\ TypeOK /\ InputOK /\ StreamsOK
      /\ reg' = r /\ ref' = Registered(q, off) /\ freed' = Dead(ref') /\ linked' = (linked \cup {New}) \ off
  BY DEF IInv, Answer, Died
<1>2. Answered(k, ts, q, r, gone)
  BY <1>1, AnswerFacts
<1>3. InputOK' /\ StreamsOK'
  BY <1>1, ArrivalStreams
<1>4. /\ reg' \in Seq([pkt : DOMAIN pkts', eof : DOMAIN pkts', exec : Nat])
      /\ slow' \subseteq DOMAIN reg'
      /\ \A i, j \in DOMAIN reg' : reg'[i].pkt = reg'[j].pkt => i = j
      /\ SlowestKept' /\ PairedWithOwnEof'
  BY <1>1, AnswerRegistered, AnswerPairs
<1>5. PICK L : L = {q} \cup ListAfter(q)
  OBVIOUS
<1>6. /\ ref' \in Seq(0 .. 2) /\ Len(ref') = New
      /\ \A i \in DOMAIN pkts' :
           ref'[i] = (IF \E j \in slow' : r[j].pkt = i THEN 1 ELSE 0) + (IF i \in linked \cup {New} THEN 1 ELSE 0)
  <2>1. Counted(r, Registered(q, off), L)
    BY <1>1, <1>5, AnswerCounts
  <2> QED BY <1>1, <2>1 DEF Counted, Held
<1>7. linked' \subseteq DOMAIN pkts' /\ linked' \subseteq linked \cup {New}
  BY <1>1, ArrivedFacts, PacketFacts
<1>8. TypeOK'
  BY <1>1, <1>4, <1>6, <1>7 DEF TypeOK, Arrived, Phases, Stopped
<1>9. \A i \in freed' : i \in DOMAIN pkts' /\ ref'[i] = 0
  <2>1. DOMAIN ref' = DOMAIN pkts'
    <3>1. pkts' \in Seq(PacketType) /\ Len(pkts') = New
      BY <1>1 DEF Arrived
    <3> HIDE DEF PacketType
    <3> QED BY <1>6, <3>1, LenProperties
  <2> QED BY <1>1, <2>1 DEF Dead
<1>10. NoUseAfterFree'
  <2>1. linked' \cap freed' = {}
    BY <1>6, <1>7, <1>9
  <2>2. \A j \in slow' : reg'[j].pkt \notin freed'
    BY <1>1, <1>6, <1>9
  <2> QED BY <1>1, <2>1, <2>2 DEF NoUseAfterFree
<1>11. RegisteredOK' /\ LastQueryOK' /\ EndOK' /\ RefExact' /\ KeptUntilEnd'
  BY <1>1, <1>4 DEF RegisteredOK, LastQueryOK, EndOK, RefExact, KeptUntilEnd, Stopped
<1> QED BY <1>3, <1>4, <1>8, <1>10, <1>11 DEF IInv

(* The query, its EOF and what lies between them are unlinked.             *)
LEMMA FinishedStep ==
  ASSUME IInv, NEW k \in PacketKind, NEW ts, NEW q, NEW r, NEW gone, NEW off,
         Answer(k, ts, q, r, gone, off), Finished(k, ts, q, off)
  PROVE  IInv'
<1>1. PICK L : L = {q} \cup ListAfter(q)
  OBVIOUS
<1>2. /\ Arrived(k, ts, 0) /\ phase' = "read" /\ phase = "read" /\ TypeOK /\ InputOK /\ StreamsOK
      /\ reg' = r /\ ref' = Unmark(Registered(q, off), L) /\ freed' = Dead(ref') /\ linked' = linked \ L
      /\ k.key \in Keys
  BY <1>1 DEF IInv, Answer, Finished, PacketKind
<1>3. Answered(k, ts, q, r, gone)
  BY <1>2, AnswerFacts
<1>4. InputOK' /\ StreamsOK'
  BY <1>2, ArrivalStreams
<1>5. /\ reg' \in Seq([pkt : DOMAIN pkts', eof : DOMAIN pkts', exec : Nat])
      /\ slow' \subseteq DOMAIN reg'
      /\ \A i, j \in DOMAIN reg' : reg'[i].pkt = reg'[j].pkt => i = j
      /\ SlowestKept' /\ PairedWithOwnEof'
  BY <1>2, AnswerRegistered, AnswerPairs
<1>6. /\ DOMAIN pkts' = DOMAIN pkts \cup {New} /\ New \notin DOMAIN pkts /\ New \notin linked /\ New \in Nat
      /\ DOMAIN pkts = 1 .. Len(pkts) /\ Len(pkts) \in Nat /\ New = Len(pkts) + 1
      /\ linked \subseteq DOMAIN pkts /\ \A i \in DOMAIN pkts : pkts'[i] = pkts[i]
      /\ pkts'[New].s = lookup[k.key] /\ pkts'[New].kind = "EOF"
      /\ q \in DOMAIN pkts /\ pkts[q].s = lookup[k.key] /\ lookup[k.key] # 0
  BY <1>2, <1>3, ArrivedFacts, PacketFacts DEF Answered, Answer, New
<1>7. \A i : i \in L <=> i = q \/ i = New \/ (i \in linked /\ pkts[i].s = pkts[q].s /\ i > q)
  BY <1>1 DEF ListAfter
<1>8. linked' \subseteq DOMAIN pkts' /\ linked' \subseteq linked \cup {New}
  BY <1>2, <1>6
<1>9. PICK refs : refs = Registered(q, off)
  OBVIOUS
<1>10. /\ refs \in Seq(0 .. 2) /\ Len(refs) = New
       /\ \A i \in DOMAIN pkts' :
            (IF i \in L THEN refs[i] - 1 ELSE refs[i])
               = (IF \E j \in slow' : r[j].pkt = i THEN 1 ELSE 0) + (IF i \in linked' THEN 1 ELSE 0)
  <2>1. Counted(r, Registered(q, off), L)
    BY <1>1, <1>2, AnswerCounts
  <2> QED BY <1>2, <1>9, <2>1 DEF Counted, Held
<1>11. /\ ref' \in Seq(0 .. 2) /\ Len(ref') = New /\ DOMAIN ref' = 1 .. New
       /\ \A i \in DOMAIN pkts' : ref'[i] = (IF \E j \in slow' : r[j].pkt = i THEN 1 ELSE 0)
                                             + (IF i \in linked' THEN 1 ELSE 0)
  <2>1. DOMAIN refs = 1 .. New /\ DOMAIN pkts' = 1 .. New
    BY <1>6, <1>10, LenProperties
  <2>2. \A i \in 1 .. New : (IF i \in L THEN refs[i] - 1 ELSE refs[i]) \in 0 .. 2
    <3>1. ASSUME NEW i \in DOMAIN pkts'
          PROVE  (IF i \in L THEN refs[i] - 1 ELSE refs[i]) \in 0 .. 2
      <4>1. (IF \E j \in slow' : r[j].pkt = i THEN 1 ELSE 0) + (IF i \in linked' THEN 1 ELSE 0) \in 0 .. 2
        OBVIOUS
      <4>2. PICK v : v = (IF \E j \in slow' : r[j].pkt = i THEN 1 ELSE 0) + (IF i \in linked' THEN 1 ELSE 0)
        OBVIOUS
      <4>3. v \in 0 .. 2
        BY <4>1, <4>2
      <4>4. (IF i \in L THEN refs[i] - 1 ELSE refs[i]) = v
        BY <1>10, <4>2, <3>1
      <4> QED BY <4>3, <4>4
    <3> QED BY <2>1, <3>1
  <2>3. ref' = Unmark(refs, L)
    BY <1>2, <1>9
  <2>4. /\ ref' \in Seq(0 .. 2) /\ Len(ref') = New /\ DOMAIN ref' = 1 .. New
        /\ \A i \in 1 .. New : ref'[i] = IF i \in L THEN refs[i] - 1 ELSE refs[i]
    BY <1>6, <2>1, <2>2, <2>3, UnmarkLemma
  <2> QED BY <1>10, <2>1, <2>4
<1>12. TypeOK'
  BY <1>2, <1>5, <1>8, <1>11 DEF TypeOK, Arrived, Phases
<1>13. RefExact'
  BY <1>2, <1>11 DEF RefExact
<1>14. RegisteredOK'
  <2>1. ASSUME NEW j \in DOMAIN r
        PROVE  r[j].pkt \notin linked'
    <3>1. CASE j = Len(r)
      BY <1>2, <1>3, <1>7, <3>1 DEF Answered
    <3>2. CASE j \in DOMAIN reg
      BY <1>2, <1>3, <3>2 DEF Answered, IInv, RegisteredOK, Stopped
    <3> QED BY <1>3, <2>1, <3>1, <3>2 DEF Answered
  <2> QED BY <1>2, <1>5, <2>1 DEF RegisteredOK
<1>15. LastQueryOK'
  <2>1. ASSUME NEW l \in Keys \ {k.key}
        PROVE  OpenQuery(l)' /\ NoOpenQuery(l)'
    <3>1. \A i \in linked : pkts[i].s # StreamOf(k.key) => i \in linked'
      BY <1>2, <1>3, <1>6, <1>7 DEF Answered
    <3>2. OpenQuery(l) /\ NoOpenQuery(l)
      BY <1>2 DEF IInv, LastQueryOK, Stopped
    <3> QED BY <1>2, <3>1, <3>2, ArrivalOtherKeys
  <2>2. OpenQuery(k.key)'
    BY <1>2 DEF OpenQuery, Arrived
  <2>3. NoOpenQuery(k.key)'
    <3>1. SUFFICES ASSUME NEW v \in DOMAIN pkts', pkts'[v].s = lookup'[k.key], pkts'[v].kind = "Query"
                   PROVE  Since(v)' # {}
      BY DEF NoOpenQuery
    <3>2. v \in DOMAIN pkts /\ pkts'[v].s = lookup[k.key]
      <4>1. lookup'[k.key] = lookup[k.key]
        BY <1>2, <1>3 DEF Arrived, Answered
      <4> QED BY <1>6, <3>1, <4>1
    <3>3. PICK e : e = New
      OBVIOUS
    <3>4. e \in DOMAIN pkts' /\ e > v /\ pkts'[e].s = pkts'[v].s /\ pkts'[e].kind \in {"Query", "EOF"}
      BY <1>6, <3>2, <3>3
    <3>5. e \in Since(v)'
      BY <3>4 DEF Since
    <3> QED BY <3>5
  <2> QED BY <2>1, <2>2, <2>3 DEF LastQueryOK
<1>16. KeptUntilEnd'
  <2> DEFINE Between(i) == \E j \in DOMAIN reg : pkts[reg[j].pkt].s = pkts[i].s /\ i \in reg[j].pkt .. reg[j].eof
  <2>1. \A i \in DOMAIN pkts : i \in linked <=> pkts[i].kind # "Reply" /\ Live(pkts[i].s) /\ ~ Between(i)
    BY <1>2 DEF IInv, KeptUntilEnd, Live
  <2>2. \A l \in Keys : lookup'[l] = lookup[l]
    BY <1>2, <1>3 DEF Arrived, Answered
  <2>3. \A j \in DOMAIN reg : r[j] = reg[j] /\ reg[j].pkt \in DOMAIN pkts /\ reg[j].eof \in DOMAIN pkts
    BY <1>2, <1>3, RegFacts DEF Answered
  <2>4. DOMAIN r = DOMAIN reg \cup {Len(r)} /\ r[Len(r)].pkt = q /\ r[Len(r)].eof = New
    BY <1>3 DEF Answered
  <2>5. ASSUME NEW i \in DOMAIN pkts'
        PROVE  i \in linked' <=>
                 /\ pkts'[i].kind # "Reply" /\ \E key \in Keys : lookup'[key] = pkts'[i].s
                 /\ \A j \in DOMAIN r : pkts'[r[j].pkt].s = pkts'[i].s => i \notin r[j].pkt .. r[j].eof
    <3>1. CASE i = New
      <4>1. New \in q .. New /\ i \notin linked' /\ pkts'[q].s = pkts'[i].s
        BY <1>2, <1>6, <1>7, <3>1
      <4> QED BY <2>4, <3>1, <4>1
    <3>2. CASE i \in DOMAIN pkts
      <4>1. pkts'[i] = pkts[i] /\ (Live(pkts[i].s) <=> \E key \in Keys : lookup'[key] = pkts'[i].s)
        BY <1>6, <2>2, <3>2 DEF Live
      <4>2. (\A j \in DOMAIN r : pkts'[r[j].pkt].s = pkts'[i].s => i \notin r[j].pkt .. r[j].eof)
            <=> ~ Between(i) /\ ~ (pkts[q].s = pkts[i].s /\ i \in q .. New)
        <5>1. \A j \in DOMAIN reg : pkts'[r[j].pkt].s = pkts[reg[j].pkt].s /\ r[j].pkt = reg[j].pkt /\ r[j].eof = reg[j].eof
          BY <1>6, <2>3
        <5>2. pkts'[r[Len(r)].pkt].s = pkts[q].s
          BY <1>6, <2>4
        <5> QED BY <2>4, <4>1, <5>1, <5>2
      <4>3. i \in linked => (i \in L <=> pkts[q].s = pkts[i].s /\ i \in q .. New)
        BY <1>6, <1>7, <3>2
      <4>4. i \in linked' <=> i \in linked /\ ~ (pkts[q].s = pkts[i].s /\ i \in q .. New)
        BY <1>2, <4>3
      <4> HIDE DEF Between
      <4> QED BY <2>1, <3>2, <4>1, <4>2, <4>4
    <3> QED BY <1>6, <2>5, <3>1, <3>2
  <2> QED BY <1>2, <1>8, <2>5 DEF KeptUntilEnd
<1>17. NoUseAfterFree'
  <2>1. \A i \in freed' : i \in DOMAIN pkts' /\ ref'[i] = 0
    BY <1>2, <1>6, <1>11 DEF Dead
  <2>2. linked' \cap freed' = {}
    BY <1>8, <1>11, <2>1
  <2>3. \A j \in slow' : reg'[j].pkt \notin freed'
    BY <1>2, <1>11, <2>1
  <2>4. \A key \in Keys : LastQuery(key)' # 0 => LastQuery(key)' \in linked'
    BY <1>2, <1>15 DEF LastQueryOK, OpenQuery, Stopped
  <2> QED BY <1>2, <2>2, <2>3, <2>4 DEF NoUseAfterFree
<1>18. EndOK'
  BY <1>2 DEF EndOK
<1> QED BY <1>4, <1>5, <1>12, <1>13, <1>14, <1>15, <1>16, <1>17, <1>18 DEF IInv
-----------------------------------------------------------------------------
LEMMA InitIInv == Init => IInv
<1> SUFFICES ASSUME Init PROVE IInv
  OBVIOUS
<1>1. /\ todo \in Inputs1 /\ time = 0 /\ pkts = <<>> /\ ref = <<>> /\ freed = {} /\ linked = {}
      /\ lookup = [k \in Keys |-> 0] /\ streams = <<>> /\ reg = <<>> /\ slow = {} /\ phase = "read"
  BY AnalysisAssumption DEF Init, Inputs1
<1>2. /\ \A S : <<>> \in Seq(S)
      /\ DOMAIN pkts = {} /\ DOMAIN ref = {} /\ DOMAIN reg = {}
      /\ Len(pkts) = 0 /\ Len(ref) = 0 /\ Len(reg) = 0 /\ Len(streams) = 0
  BY <1>1, EmptySeq
<1>3. TypeOK
  <2>1. freed = Dead(ref)
    BY <1>1, <1>2 DEF Dead
  <2>2. /\ pkts \in Seq(PacketType) /\ ref \in Seq(0 .. 2) /\ streams \in Seq(0 .. Len(pkts))
        /\ reg \in Seq([pkt : DOMAIN pkts, eof : DOMAIN pkts, exec : Nat])
    BY <1>1, <1>2
  <2>3. lookup \in [Keys -> 0 .. Len(streams)]
    BY <1>1, <1>2
  <2> QED BY <1>1, <1>2, <2>1, <2>2, <2>3 DEF TypeOK, Phases
<1>4. InputOK /\ StreamsOK /\ RegisteredOK /\ EndOK /\ RefExact /\ PairedWithOwnEof
  BY <1>1, <1>2 DEF InputOK, Inputs1, StreamsOK, RegisteredOK, EndOK, RefExact, PairedWithOwnEof
<1>5. \A key \in Keys : lookup[key] = 0 /\ LastQuery(key) = 0
  BY <1>1 DEF LastQuery
<1>6. LastQueryOK /\ NoUseAfterFree /\ KeptUntilEnd
  BY <1>1, <1>2, <1>5 DEF LastQueryOK, OpenQuery, NoOpenQuery, NoUseAfterFree, KeptUntilEnd
<1>7. SlowestKept
  <2>1. todo.n_slow \in Nat
    BY <1>1 DEF Inputs1
  <2>2. Min({todo.n_slow, 0}) = 0
    BY <2>1, MinOfTwo
  <2> QED BY <1>1, <1>2, <2>2, FS_EmptySet DEF SlowestKept
<1> QED BY <1>3, <1>4, <1>6, <1>7 DEF IInv

LEMMA NextIInv == IInv /\ [Next]_vars => IInv'
<1> SUFFICES ASSUME IInv, [Next]_vars PROVE IInv'
  OBVIOUS
<1>1. ASSUME NEW x \in PacketsNow,
             Query(x[1], x[2]) \/ KeptPacket(x[1], x[2]) \/ Reply(x[1], x[2])
      PROVE  IInv'
  <2>1. Quiet(x[1], x[2]) /\ x[1] \in PacketKind
    BY <1>1, QuietStep
  <2>2. PICK k, ts : k \in PacketKind /\ k = x[1] /\ ts = x[2] /\ Quiet(k, ts)
    BY <2>1
  <2>3. linked' \subseteq linked \cup {New}
    BY <2>2 DEF Quiet
  <2>4. InputOK' /\ StreamsOK'
    BY <2>2, <2>3, ArrivalStreams DEF IInv, Quiet
  <2> QED BY <2>2, <2>4, QuietTypes, QuietCounts, QuietLastQuery, QuietPairs, QuietKept, QuietNoUse DEF IInv
<1>2. ASSUME NEW x \in PacketsNow, AnsweredQuery(x[1], x[2])
      PROVE  IInv'
  <2>1. x[1] \in PacketKind /\
        \E q, r, gone, off : /\ Answer(x[1], x[2], q, r, gone, off)
                             /\ Died(x[1], x[2], q, off) \/ Finished(x[1], x[2], q, off)
    BY <1>2, AnswerStep
  <2>2. PICK k \in PacketKind : k = x[1]
    BY <2>1
  <2>3. PICK q, r, gone, off : /\ Answer(k, x[2], q, r, gone, off)
                               /\ Died(k, x[2], q, off) \/ Finished(k, x[2], q, off)
    BY <2>1, <2>2
  <2>4. CASE Died(k, x[2], q, off)
    BY <2>3, <2>4, DiedStep
  <2>5. CASE Finished(k, x[2], q, off)
    BY <2>3, <2>5, FinishedStep
  <2> QED BY <2>3, <2>4, <2>5
<1>3. ASSUME NEW key \in Keys, StreamEnd(key)
      PROVE  IInv'
  BY <1>3, StreamEndStep
<1>4. CASE EndOfFile \/ print_slow_queries \/ print_query_stats
  <2>1. SameState
    BY <1>4 DEF EndOfFile, print_slow_queries, print_query_stats, SameState
  <2>2. \/ (phase = "read" /\ phase' = "print") \/ (phase = "print" /\ phase' = "stats")
        \/ (phase = "stats" /\ phase' = "cleanup")
    BY <1>4 DEF EndOfFile, print_slow_queries, print_query_stats
  <2> QED BY <2>1, <2>2, PhaseStep
<1>5. CASE DeleteSlow
  BY <1>5, DeleteSlowStep
<1>6. CASE DeleteStreams
  BY <1>6, DeleteStreamsStep
<1>7. CASE Exited \/ UNCHANGED vars
  <2>1. SameState /\ phase' = phase
    BY <1>7 DEF Exited, vars, SameState
  <2> QED BY <2>1, PhaseStep
<1> QED BY <1>1, <1>2, <1>3, <1>4, <1>5, <1>6, <1>7 DEF Next

(* Whatever handle_packet_complete, the end of a stream, the printing and  *)
(* cleanup do, the inductive invariant holds.                              *)
THEOREM Invariant == Spec => []IInv
BY InitIInv, NextIInv, PTL DEF Spec

(* The counts of a packet stay between 0 and 2, what is linked,            *)
(* registered or in slow_queries is a packet that was made, and exactly    *)
(* the packets with a count of 0 have been deleted (Mysql_packet's         *)
(* ref_count).                                                             *)
THEOREM AnalysisTypes == Spec => []TypeOK
<1>1. IInv => TypeOK
  BY DEF IInv
<1> QED BY <1>1, Invariant, PTL

(* ref_count is the number of places that point to the packet, the list    *)
(* of its stream and slow_queries, after every call of mark_ref,           *)
(* unmark_ref, consider_unlink_pkt and unlink_pkt.                         *)
THEOREM CountsExact == Spec => []RefExact
<1>1. IInv => RefExact
  BY DEF IInv
<1> QED BY <1>1, Invariant, PTL

(* The lists of the streams, slow_queries and last_query never point to a  *)
(* deleted packet, however packets of several streams, their ends and the  *)
(* erasing of slow queries follow each other.                              *)
THEOREM NothingUsedAfterFree == Spec => []NoUseAfterFree
<1>1. IInv => NoUseAfterFree
  BY DEF IInv
<1> QED BY <1>1, Invariant, PTL

(* After each register_query slow_queries holds the n_slow longest         *)
(* queries so far, of equal ones the earlier, whatever n_slow is, 0        *)
(* included.                                                               *)
THEOREM LongestKept == Spec => []SlowestKept
<1>1. IInv => SlowestKept
  BY DEF IInv
<1> QED BY <1>1, Invariant, PTL

(* handle_packet_complete registers each query that an EOF follows in its  *)
(* stream once, with that EOF and the time between the two.                *)
THEOREM PairsRegistered == Spec => []PairedWithOwnEof
<1>1. IInv => PairedWithOwnEof
  BY DEF IInv
<1> QED BY <1>1, Invariant, PTL

(* While the capture is read, the lists keep of each stream that has not   *)
(* ended all but the server's replies and what lies between a query and    *)
(* its EOF.                                                                *)
THEOREM MemoryWhileReading == Spec => []KeptUntilEnd
<1>1. IInv => KeptUntilEnd
  BY DEF IInv
<1> QED BY <1>1, Invariant, PTL

(* When Mysql_stream_manager::cleanup has deleted the slow queries and     *)
(* the streams, every packet has been deleted.                             *)
THEOREM NothingLeaks == Spec => []NoLeakAtExit
<1>1. IInv => NoLeakAtExit
  <2>1. SUFFICES ASSUME IInv, phase = "done" PROVE freed = DOMAIN pkts
    BY DEF NoLeakAtExit
  <2>2. linked = {} /\ slow = {} /\ TypeOK
    BY <2>1 DEF IInv, EndOK
  <2>3. \A i \in DOMAIN pkts : ref[i] = 0
    BY <2>1, <2>2 DEF IInv, RefExact, Stopped
  <2> QED BY <2>2, <2>3, RefFacts
<1> QED BY <1>1, Invariant, PTL
=============================================================================
