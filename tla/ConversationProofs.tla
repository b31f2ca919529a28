-------------------------- MODULE ConversationProofs --------------------------
(***************************************************************************)
(* Proofs about one tidy conversation, with any others around it: no part  *)
(* of it is appended twice, each of its queries is recorded once, and its  *)
(* records are in the order the file promises.                             *)
(***************************************************************************)
EXTENDS CaptureProofs

(***************************************************************************)
(* Parts of packets, and the packet a stream builds of them.               *)
(***************************************************************************)
AtMost(u, v) == u[1] < v[1] \/ (u[1] = v[1] /\ u[2] <= v[2])
Precedes(u, v) == u[1] < v[1] \/ (u[1] = v[1] /\ u[2] < v[2])
Kind(u) == Messages[u[1]].kind
Partial(u, in) ==
  [in |-> in, units |-> Messages[u[1]].units, got |-> [a \in 1 .. u[2] |-> <<u[1], a>>]]
OpenAfter(u, in) == IF IsEnd(u) THEN NoPacket ELSE Partial(u, in)

(* Messages with numbers below that bound have been captured to their ends.*)
Below(u) == IF IsEnd(u) THEN u[1] + 1 ELSE u[1]

(* Which side sends a part.                                                *)
SentBy(u, in) == Kind(u) \in {"Reply", "EOF"} <=> ~in

(***************************************************************************)
(* The records of key k in a file, all of messages below n, in order.      *)
(***************************************************************************)
Own(recs, k) == {i \in DOMAIN recs : recs[i].of = k}
Just(recs, k, i, j) == j \in Own(recs, k) /\ j < i /\ \A h \in Own(recs, k) : h <= j \/ i <= h
AfterQuery(recs, k, i) == \E j \in Own(recs, k) : Just(recs, k, i, j) /\ IsQueryRecord(recs[j])
AfterMore(recs, k, i) ==
  \E j \in Own(recs, k) : Just(recs, k, i, j) /\ KindOf(recs[j]) \in {"EOF", "Login", "More"}
WholeBelow(data, n) == \E m \in DOMAIN Messages : data = PartsOf(m) /\ m < n
RecordAt(recs, k, n, i) ==
  /\ recs[i].data = <<>> \/ WholeBelow(recs[i].data, n)
  /\ KindOf(recs[i]) = "EOF" => AfterQuery(recs, k, i)
  /\ KindOf(recs[i]) \in {"Login", "More"} => AfterMore(recs, k, i)
  /\ KindOf(recs[i]) # "Reply"
Rises(recs, k) ==
  \A i, j \in Own(recs, k) :
    IsQueryRecord(recs[i]) /\ IsQueryRecord(recs[j]) /\ i < j
      => recs[i].data[1][1] < recs[j].data[1][1]
Sound(recs, k, n) == (\A i \in Own(recs, k) : RecordAt(recs, k, n, i)) /\ Rises(recs, k)

(* What stream s waits for, with the records so far.                       *)
Pending(recs, k, s, n) ==
  /\ s.query # NoQuery => AfterQuery(recs, k, Len(recs) + 1)
  /\ \A i \in DOMAIN s.more :
       /\ WholeBelow(s.more[i].got, n)
       /\ Messages[s.more[i].got[1][1]].kind \in {"Login", "More"}
RecordedIn(recs, k, m) == \E i \in Own(recs, k) : recs[i].data = PartsOf(m)

(* Messages have numbers.                                                  *)
LEMMA NumberIs == \A m \in DOMAIN Msgs : m \in Nat
<1>1. Msgs \in Seq(MsgType)
  BY CaptureAssumption
<1> QED BY <1>1

(* A part is one of a message.                                             *)
LEMMA UnitIs ==
  ASSUME NEW u \in Units
  PROVE  /\ u = <<u[1], u[2]>> /\ u[1] \in DOMAIN Messages /\ u[1] \in Nat
         /\ Messages[u[1]].units \in Nat \ {0} /\ u[2] \in 1 .. Messages[u[1]].units
         /\ Kind(u) \in MsgKind
<1>1. PICK m, i : m \in DOMAIN Msgs /\ i \in 1 .. Msgs[m].units /\ u = <<m, i>>
  BY DEF Units
<1>2. Msgs[m] \in MsgType /\ m \in Nat
  BY <1>1, MessageIs, NumberIs
<1> QED BY <1>1, <1>2 DEF MsgType, Messages, Kind

(* The parts of a message.                                                 *)
LEMMA PartsAre ==
  ASSUME NEW m \in DOMAIN Messages
  PROVE  /\ m \in Nat /\ PartsOf(m) \in Seq(Units) /\ PartsOf(m) # <<>>
         /\ PartsOf(m)[1] = <<m, 1>> /\ <<m, Messages[m].units>> \in Units
<1>1. Messages[m] \in MsgType /\ m \in Nat /\ m \in DOMAIN Msgs /\ Messages = Msgs
  BY MessageIs, NumberIs DEF Messages
<1>2. PICK n \in Nat \ {0} : n = Messages[m].units
  BY <1>1 DEF MsgType
<1>3. \A i \in 1 .. n : <<m, i>> \in Units
  BY <1>1, <1>2 DEF Units
<1>4. PICK d : d = [i \in 1 .. n |-> <<m, i>>]
  OBVIOUS
<1>5. d \in Seq(Units) /\ d # <<>> /\ d[1] = <<m, 1>>
  <2>1. d \in [1 .. n -> Units] /\ 1 \in 1 .. n
    BY <1>2, <1>3, <1>4
  <2>2. d \in Seq(Units)
    BY <1>2, <2>1
  <2>3. d[1] = <<m, 1>>
    BY <1>4, <2>1
  <2>4. d # <<>>
    BY <2>1
  <2> QED BY <2>2, <2>3, <2>4
<1>6. PartsOf(m) = d
  BY <1>2, <1>4 DEF PartsOf
<1>7. <<m, n>> \in Units
  BY <1>2, <1>3
<1> QED BY <1>1, <1>2, <1>5, <1>6, <1>7

(* A message whose end has come.                                           *)
LEMMA EndIs ==
  ASSUME NEW u \in Units, IsEnd(u), NEW in
  PROVE  Partial(u, in).got = PartsOf(u[1]) /\ Partial(u, in).in = in
BY DEF IsEnd, Partial, PartsOf

(* recs is the beginning of big: how the file grows.                       *)
Prefix(recs, big) ==
  /\ DOMAIN recs = 1 .. Len(recs) /\ DOMAIN big = 1 .. Len(big)
  /\ Len(recs) \in Nat /\ Len(big) \in Nat /\ Len(recs) <= Len(big)
  /\ \A i \in 1 .. Len(recs) : big[i] = recs[i]

(* The records a key has in the beginning of a file are those it has in    *)
(* the file, as far as the beginning goes.                                 *)
LEMMA OwnPrefix ==
  ASSUME NEW recs, NEW big, Prefix(recs, big), NEW k
  PROVE  /\ \A i \in 1 .. Len(recs) : i \in Own(big, k) <=> i \in Own(recs, k)
         /\ \A i \in Own(big, k) : i \in Own(recs, k) \/ i > Len(recs)
         /\ Own(recs, k) \subseteq Own(big, k) /\ Own(recs, k) \subseteq 1 .. Len(recs)
         /\ \A i \in 1 .. Len(recs) + 1 : \A j :
              Just(big, k, i, j) <=> Just(recs, k, i, j)
<1>1. /\ \A i \in 1 .. Len(recs) : i \in Own(big, k) <=> i \in Own(recs, k)
      /\ \A i \in Own(big, k) : i \in Own(recs, k) \/ i > Len(recs)
      /\ Own(recs, k) \subseteq Own(big, k) /\ Own(recs, k) \subseteq 1 .. Len(recs)
      /\ Own(big, k) \subseteq Nat
  BY DEF Prefix, Own
<1>2. Len(recs) \in Nat
  BY DEF Prefix
<1>3. \A i \in 1 .. Len(recs) + 1 : \A j : Just(big, k, i, j) <=> Just(recs, k, i, j)
  BY <1>1, <1>2 DEF Just
<1> QED BY <1>1, <1>3

(* What comes right after what, in a longer file.                          *)
LEMMA FollowPrefix ==
  ASSUME NEW recs, NEW big, Prefix(recs, big), NEW k, NEW i \in 1 .. Len(recs) + 1
  PROVE  /\ AfterQuery(big, k, i) <=> AfterQuery(recs, k, i)
         /\ AfterMore(big, k, i) <=> AfterMore(recs, k, i)
<1>1. \A j : Just(big, k, i, j) <=> Just(recs, k, i, j)
  BY OwnPrefix
<1>2. \A j : Just(recs, k, i, j) => j \in Own(recs, k) /\ j \in Own(big, k)
  BY OwnPrefix DEF Just
<1>3. \A j : Just(big, k, i, j) => j \in Own(big, k)
  BY DEF Just
<1>4. \A j \in Own(recs, k) : big[j] = recs[j]
  BY OwnPrefix DEF Prefix
<1> QED BY <1>1, <1>2, <1>3, <1>4 DEF AfterQuery, AfterMore

(* The number of the message of a record.                                  *)
LEMMA QueryNumber ==
  ASSUME NEW r, NEW n \in Nat, WholeBelow(r.data, n)
  PROVE  r.data # <<>> /\ r.data[1][1] \in Nat /\ r.data[1][1] < n
         /\ r.data[1][1] \in DOMAIN Messages /\ r.data = PartsOf(r.data[1][1])
         /\ KindOf(r) = Messages[r.data[1][1]].kind
<1>1. PICK m \in DOMAIN Messages : r.data = PartsOf(m) /\ m < n
  BY DEF WholeBelow
<1>2. m \in Nat /\ r.data # <<>> /\ r.data[1] = <<m, 1>>
  BY <1>1, PartsAre
<1>3. r.data[1][1] = m
  BY <1>2
<1>4. KindOf(r) = Messages[r.data[1][1]].kind
  BY <1>2 DEF KindOf
<1> QED BY <1>1, <1>2, <1>3, <1>4

(* Records stay right when the bound grows and the file does.              *)
LEMMA SoundExtends ==
  ASSUME NEW recs, NEW big, Prefix(recs, big), NEW k, NEW n \in Nat, NEW n2 \in Nat, n <= n2,
         Sound(recs, k, n),
         \A i \in Own(big, k) : i > Len(recs) =>
           /\ RecordAt(big, k, n2, i)
           /\ IsQueryRecord(big[i]) =>
                /\ n <= big[i].data[1][1]
                /\ \A j \in Own(big, k) : j > Len(recs) /\ IsQueryRecord(big[j]) => j = i
  PROVE  Sound(big, k, n2)
<1>1. /\ \A i \in 1 .. Len(recs) : i \in Own(big, k) <=> i \in Own(recs, k)
      /\ \A i \in Own(big, k) : i \in Own(recs, k) \/ i > Len(recs)
      /\ Own(recs, k) \subseteq Own(big, k) /\ Own(recs, k) \subseteq 1 .. Len(recs)
  BY OwnPrefix
<1>2. \A i \in Own(recs, k) : big[i] = recs[i] /\ RecordAt(recs, k, n, i)
  BY <1>1 DEF Prefix, Sound
<1>3. Len(recs) \in Nat /\ Own(big, k) \subseteq Nat
  BY DEF Prefix, Own
<1>4. ASSUME NEW i \in Own(recs, k)
      PROVE  RecordAt(big, k, n2, i)
  <2>1. i \in 1 .. Len(recs) + 1
    BY <1>1, <1>3
  <2>2. AfterQuery(big, k, i) <=> AfterQuery(recs, k, i)
    BY <2>1, FollowPrefix
  <2>3. AfterMore(big, k, i) <=> AfterMore(recs, k, i)
    BY <2>1, FollowPrefix
  <2>4. WholeBelow(recs[i].data, n) => WholeBelow(recs[i].data, n2)
    <3>1. ASSUME NEW m \in DOMAIN Messages, m < n
          PROVE  m < n2
      BY <3>1, PartsAre
    <3> QED BY <3>1 DEF WholeBelow
  <2> QED BY <1>2, <2>2, <2>3, <2>4 DEF RecordAt
<1>5. \A i \in Own(big, k) : RecordAt(big, k, n2, i)
  BY <1>1, <1>4
<1>6. ASSUME NEW i \in Own(recs, k), IsQueryRecord(recs[i])
      PROVE  recs[i].data[1][1] \in Nat /\ recs[i].data[1][1] < n
  <2>1. recs[i].data # <<>>
    BY <1>6 DEF IsQueryRecord, KindOf
  <2>2. WholeBelow(recs[i].data, n)
    BY <1>2, <2>1 DEF RecordAt
  <2> QED BY <2>2, QueryNumber
<1>7. ASSUME NEW i \in Own(big, k), i \notin Own(recs, k), IsQueryRecord(big[i])
      PROVE  big[i].data[1][1] \in Nat /\ n <= big[i].data[1][1]
  <2>1. RecordAt(big, k, n2, i) /\ n <= big[i].data[1][1] /\ big[i].data # <<>>
    BY <1>1, <1>7 DEF IsQueryRecord, KindOf
  <2>2. WholeBelow(big[i].data, n2)
    BY <2>1 DEF RecordAt
  <2> QED BY <2>1, <2>2, QueryNumber
<1>8. ASSUME NEW i \in Own(big, k), NEW j \in Own(big, k),
             IsQueryRecord(big[i]), IsQueryRecord(big[j]), i < j
      PROVE  big[i].data[1][1] < big[j].data[1][1]
  <2>1. CASE j \in Own(recs, k)
    <3>1. i \in Own(recs, k)
      BY <1>1, <1>3, <1>8, <2>1
    <3>2. big[i] = recs[i] /\ big[j] = recs[j]
      BY <1>2, <2>1, <3>1
    <3> QED BY <1>8, <2>1, <3>1, <3>2 DEF Sound, Rises
  <2>2. CASE j \notin Own(recs, k) /\ i \in Own(recs, k)
    <3>1. big[i] = recs[i]
      BY <1>2, <2>2
    <3>2. big[i].data[1][1] \in Nat /\ big[i].data[1][1] < n
      BY <1>6, <1>8, <2>2, <3>1
    <3>3. big[j].data[1][1] \in Nat /\ n <= big[j].data[1][1]
      BY <1>7, <1>8, <2>2
    <3> QED BY <3>2, <3>3
  <2>3. CASE j \notin Own(recs, k) /\ i \notin Own(recs, k)
    <3>1. i > Len(recs) /\ j > Len(recs)
      BY <1>1, <2>3
    <3>2. i = j
      BY <1>8, <3>1
    <3> QED BY <1>3, <1>8, <3>2
  <2> QED BY <2>1, <2>2, <2>3
<1> QED BY <1>5, <1>8 DEF Sound, Rises

(* The beginning of a file is right when the file is.                      *)
LEMMA SoundPrefix ==
  ASSUME NEW recs, NEW big, Prefix(recs, big), NEW k, NEW n, Sound(big, k, n)
  PROVE  Sound(recs, k, n)
<1>1. Own(recs, k) \subseteq Own(big, k) /\ Own(recs, k) \subseteq 1 .. Len(recs) /\ Len(recs) \in Nat
  BY OwnPrefix DEF Prefix
<1>2. \A i \in Own(recs, k) : big[i] = recs[i]
  BY <1>1 DEF Prefix
<1>3. ASSUME NEW i \in Own(recs, k)
      PROVE  RecordAt(recs, k, n, i)
  <2>1. i \in 1 .. Len(recs) + 1
    BY <1>1
  <2>2. AfterQuery(big, k, i) <=> AfterQuery(recs, k, i)
    BY <2>1, FollowPrefix
  <2>3. AfterMore(big, k, i) <=> AfterMore(recs, k, i)
    BY <2>1, FollowPrefix
  <2>4. RecordAt(big, k, n, i)
    BY <1>1 DEF Sound
  <2> QED BY <1>2, <2>2, <2>3, <2>4 DEF RecordAt
<1>4. Rises(recs, k)
  <2>1. Rises(big, k)
    BY DEF Sound
  <2> QED BY <1>1, <1>2, <2>1 DEF Rises
<1> QED BY <1>3, <1>4 DEF Sound

(* The bound may grow.                                                     *)
LEMMA SoundMore ==
  ASSUME NEW R, NEW recs \in Seq(R), NEW k, NEW n \in Nat, NEW n2 \in Nat, n <= n2, Sound(recs, k, n)
  PROVE  Sound(recs, k, n2)
<1>1. Prefix(recs, recs) /\ \A i \in Own(recs, k) : ~(i > Len(recs))
  BY DEF Prefix, Own
<1> QED BY <1>1, SoundExtends

(* The records behind a file.                                              *)
LEMMA BehindFile ==
  ASSUME NEW R, NEW recs \in Seq(R), NEW out \in Seq(R)
  PROVE  /\ Prefix(recs, recs \o out) /\ recs \o out \in Seq(R)
         /\ Len(recs \o out) = Len(recs) + Len(out) /\ Len(recs) \in Nat /\ Len(out) \in Nat
         /\ \A i \in DOMAIN (recs \o out) : i > Len(recs) =>
              i - Len(recs) \in DOMAIN out /\ (recs \o out)[i] = out[i - Len(recs)]
         /\ \A i \in DOMAIN out :
              Len(recs) + i \in DOMAIN (recs \o out) /\ (recs \o out)[Len(recs) + i] = out[i]
<1>1. PICK big : big = recs \o out
  OBVIOUS
<1>2. PICK a \in Nat, b \in Nat : a = Len(recs) /\ b = Len(out)
  BY LenProperties
<1>3. DOMAIN recs = 1 .. a /\ DOMAIN out = 1 .. b
  BY <1>2, LenProperties
<1>4. /\ big \in Seq(R) /\ Len(big) = a + b
      /\ \A i \in 1 .. a + b : big[i] = IF i <= a THEN recs[i] ELSE out[i - a]
  BY <1>1, <1>2, <1>3, ConcatProperties
<1>5. DOMAIN big = 1 .. a + b
  BY <1>4, LenProperties
<1>6. Prefix(recs, big)
  BY <1>2, <1>3, <1>4, <1>5 DEF Prefix
<1>7. \A i \in DOMAIN big : i > a => i - a \in DOMAIN out /\ big[i] = out[i - a]
  BY <1>2, <1>3, <1>4, <1>5
<1>8. ASSUME NEW i \in DOMAIN out
      PROVE  a + i \in DOMAIN big /\ big[a + i] = out[i]
  <2>1. i \in 1 .. b
    BY <1>3
  <2>2. a + i \in 1 .. a + b /\ ~(a + i <= a) /\ (a + i) - a = i
    BY <1>2, <2>1
  <2> QED BY <1>4, <1>5, <2>2
<1> QED BY <1>1, <1>2, <1>4, <1>6, <1>7, <1>8

(* What may be written behind right records: an end, a query of a later    *)
(* message, an EOF behind a query, and then more.                          *)
MayFollow(recs, k, n, n2, out) ==
  \A i \in DOMAIN out :
    /\ out[i].of = k
    /\ out[i].data = <<>> \/ WholeBelow(out[i].data, n2)
    /\ KindOf(out[i]) # "Reply"
    /\ IsQueryRecord(out[i]) => i = 1 /\ n <= out[i].data[1][1]
    /\ KindOf(out[i]) = "EOF" => i = 1 /\ AfterQuery(recs, k, Len(recs) + 1)
    /\ KindOf(out[i]) \in {"Login", "More"} =>
         i - 1 \in DOMAIN out /\ KindOf(out[i - 1]) \in {"EOF", "Login", "More"}

(* Records behind which these may follow stay right with them.             *)
LEMMA SoundAppend ==
  ASSUME NEW R, NEW recs \in Seq(R), NEW out \in Seq(R), NEW k, NEW n \in Nat, NEW n2 \in Nat,
         n <= n2, Sound(recs, k, n), MayFollow(recs, k, n, n2, out)
  PROVE  Sound(recs \o out, k, n2)
<1>1. PICK big : big = recs \o out
  OBVIOUS
<1>2. PICK a \in Nat : a = Len(recs)
  BY LenProperties
<1>3. /\ Prefix(recs, big) /\ big \in Seq(R)
      /\ \A i \in DOMAIN big : i > a => i - a \in DOMAIN out /\ big[i] = out[i - a]
      /\ \A i \in DOMAIN out : a + i \in DOMAIN big /\ big[a + i] = out[i]
  BY <1>1, <1>2, BehindFile
<1>4. DOMAIN big = 1 .. Len(big) /\ Len(big) \in Nat /\ DOMAIN out = 1 .. Len(out) /\ Len(out) \in Nat
  BY <1>3, LenProperties
<1>5. ASSUME NEW i \in Own(big, k), i > a
      PROVE  /\ RecordAt(big, k, n2, i)
             /\ IsQueryRecord(big[i]) =>
                  /\ n <= big[i].data[1][1]
                  /\ \A j \in Own(big, k) : j > a /\ IsQueryRecord(big[j]) => j = i
  <2>1. PICK x : x = i - a
    OBVIOUS
  <2>2. i \in DOMAIN big /\ i \in Nat /\ x \in Int /\ i = a + x
    BY <1>2, <1>4, <2>1 DEF Own
  <2>3. x \in DOMAIN out /\ big[i] = out[x]
    BY <1>3, <1>5, <2>1, <2>2
  <2>4. KindOf(big[i]) = "EOF" => AfterQuery(big, k, i)
    <3>1. ASSUME KindOf(big[i]) = "EOF"
          PROVE  AfterQuery(big, k, i)
      <4>1. x = 1 /\ AfterQuery(recs, k, a + 1)
        BY <1>2, <2>3, <3>1 DEF MayFollow
      <4>2. i = a + 1 /\ i \in 1 .. Len(recs) + 1
        BY <1>2, <2>2, <4>1
      <4> QED BY <1>3, <4>1, <4>2, FollowPrefix
    <3> QED BY <3>1
  <2>5. KindOf(big[i]) \in {"Login", "More"} => AfterMore(big, k, i)
    <3>1. ASSUME KindOf(big[i]) \in {"Login", "More"}
          PROVE  AfterMore(big, k, i)
      <4>1. x - 1 \in DOMAIN out /\ KindOf(out[x - 1]) \in {"EOF", "Login", "More"}
        BY <2>3, <3>1 DEF MayFollow
      <4>2. PICK j : j = i - 1
        OBVIOUS
      <4>3. j \in DOMAIN big /\ big[j] = out[x - 1] /\ j \in Nat /\ j < i
        <5>1. j = a + (x - 1)
          BY <1>2, <2>2, <4>2
        <5>2. PICK z : z = x - 1
          OBVIOUS
        <5>3. z \in DOMAIN out /\ j = a + z
          BY <4>1, <5>1, <5>2
        <5>4. j \in DOMAIN big /\ big[j] = out[z]
          BY <1>3, <5>3
        <5>5. j \in Nat
          BY <1>4, <5>4
        <5>6. j < i
          BY <2>2, <4>2
        <5> QED BY <5>2, <5>4, <5>5, <5>6
      <4>4. j \in Own(big, k)
        BY <4>1, <4>3 DEF MayFollow, Own
      <4>5. Just(big, k, i, j)
        <5>1. \A h \in Own(big, k) : h \in Nat
          BY <1>4 DEF Own
        <5>2. \A h \in Nat : h <= j \/ i <= h
          BY <2>2, <4>2
        <5> QED BY <4>3, <4>4, <5>1, <5>2 DEF Just
      <4> QED BY <4>1, <4>3, <4>4, <4>5 DEF AfterMore
    <3> QED BY <3>1
  <2>6. RecordAt(big, k, n2, i)
    BY <2>3, <2>4, <2>5 DEF RecordAt, MayFollow
  <2>7. ASSUME IsQueryRecord(big[i])
        PROVE  /\ n <= big[i].data[1][1]
               /\ \A j \in Own(big, k) : j > a /\ IsQueryRecord(big[j]) => j = i
    <3>1. n <= big[i].data[1][1] /\ x = 1
      BY <2>3, <2>7 DEF MayFollow
    <3>2. ASSUME NEW j \in Own(big, k), j > a, IsQueryRecord(big[j])
          PROVE  j = i
      <4>1. j \in DOMAIN big /\ j \in Nat
        BY <1>4 DEF Own
      <4>2. j - a \in DOMAIN out /\ big[j] = out[j - a]
        BY <1>3, <3>2, <4>1
      <4>3. j - a = 1
        BY <3>2, <4>2 DEF MayFollow
      <4> QED BY <1>2, <2>2, <3>1, <4>1, <4>3
    <3> QED BY <3>1, <3>2
  <2> QED BY <2>6, <2>7
<1> QED BY <1>1, <1>2, <1>3, <1>5, SoundExtends

(* Records of other keys, or a torn one, change nothing.                   *)
LEMMA SoundOther ==
  ASSUME NEW R, NEW recs \in Seq(R), NEW out \in Seq(R), NEW k, NEW n \in Nat,
         \A i \in DOMAIN out : out[i].of # k
  PROVE  /\ Sound(recs, k, n) => Sound(recs \o out, k, n)
         /\ \A s : Pending(recs, k, s, n) => Pending(recs \o out, k, s, n)
         /\ \A m : RecordedIn(recs, k, m) => RecordedIn(recs \o out, k, m)
<1>1. PICK big : big = recs \o out
  OBVIOUS
<1>2. PICK a \in Nat : a = Len(recs)
  BY LenProperties
<1>3. /\ Prefix(recs, big) /\ big \in Seq(R)
      /\ \A i \in DOMAIN big : i > a => i - a \in DOMAIN out /\ big[i] = out[i - a]
  BY <1>1, <1>2, BehindFile
<1>4. \A i \in Own(big, k) : ~(i > a)
  BY <1>3 DEF Own
<1>5. Sound(recs, k, n) => Sound(big, k, n)
  <2>1. n <= n
    OBVIOUS
  <2> QED BY <1>2, <1>3, <1>4, <2>1, SoundExtends
<1>6. Own(big, k) = Own(recs, k) /\ \A i \in Own(recs, k) : big[i] = recs[i]
  <2>1. /\ \A i \in Own(big, k) : i \in Own(recs, k) \/ i > a
        /\ Own(recs, k) \subseteq Own(big, k) /\ Own(recs, k) \subseteq 1 .. a
    BY <1>2, <1>3, OwnPrefix
  <2>2. \A i \in 1 .. a : big[i] = recs[i]
    BY <1>2, <1>3 DEF Prefix
  <2> QED BY <1>4, <2>1, <2>2
<1>7. AfterQuery(recs, k, a + 1) => AfterQuery(big, k, Len(big) + 1)
  <2>1. Own(recs, k) \subseteq 1 .. a /\ Len(big) \in Nat /\ a <= Len(big)
    BY <1>2, <1>3, OwnPrefix DEF Prefix
  <2>2. \A j : Just(recs, k, a + 1, j) => Just(big, k, Len(big) + 1, j)
    BY <1>2, <1>6, <2>1 DEF Just
  <2> QED BY <1>6, <2>2 DEF AfterQuery
<1>8. \A s : Pending(recs, k, s, n) => Pending(big, k, s, n)
  BY <1>2, <1>7 DEF Pending
<1>9. \A m : RecordedIn(recs, k, m) => RecordedIn(big, k, m)
  BY <1>6 DEF RecordedIn
<1> QED BY <1>1, <1>5, <1>8, <1>9

(* The last record of a key.                                               *)
LEMMA LastOwn ==
  ASSUME NEW R, NEW recs \in Seq(R), NEW r \in R, NEW k, r.of = k, IsQueryRecord(r)
  PROVE  AfterQuery(recs \o <<r>>, k, Len(recs \o <<r>>) + 1)
<1>1. PICK out \in Seq(R) : out = <<r>> /\ Len(out) = 1 /\ 1 \in DOMAIN out /\ out[1] = r
  <2>1. <<r>> \in Seq(R) /\ Len(<<r>>) = 1 /\ <<r>>[1] = r
    OBVIOUS
  <2>2. 1 \in DOMAIN <<r>>
    OBVIOUS
  <2> QED BY <2>1, <2>2
<1>2. PICK big : big = recs \o out
  OBVIOUS
<1>3. PICK a \in Nat : a = Len(recs) /\ Len(big) = a + 1 /\ big[a + 1] = r /\ a + 1 \in DOMAIN big
  <2>1. /\ Len(big) = Len(recs) + Len(out) /\ Len(recs) \in Nat
        /\ Len(recs) + 1 \in DOMAIN big /\ big[Len(recs) + 1] = out[1]
    BY <1>1, <1>2, BehindFile
  <2> QED BY <1>1, <2>1
<1>4. DOMAIN big = 1 .. (a + 1)
  <2>1. big \in Seq(R)
    BY <1>2, BehindFile
  <2> QED BY <1>3, <2>1, LenProperties
<1>5. a + 1 \in Own(big, k)
  BY <1>3 DEF Own
<1>6. Just(big, k, a + 2, a + 1)
  <2>1. \A h \in Own(big, k) : h <= a + 1
    BY <1>4 DEF Own
  <2> QED BY <1>5, <2>1 DEF Just
<1>7. AfterQuery(big, k, a + 2)
  BY <1>3, <1>5, <1>6 DEF AfterQuery
<1> QED BY <1>1, <1>2, <1>3, <1>7

(* What was recorded stays.                                                *)
LEMMA RecordedStays ==
  ASSUME NEW R, NEW recs \in Seq(R), NEW out \in Seq(R), NEW k
  PROVE  /\ \A m : RecordedIn(recs, k, m) => RecordedIn(recs \o out, k, m)
         /\ \A m, i : i \in DOMAIN out /\ out[i].of = k /\ out[i].data = PartsOf(m)
                        => RecordedIn(recs \o out, k, m)
<1>1. PICK big : big = recs \o out
  OBVIOUS
<1>2. Prefix(recs, big) /\ \A i \in DOMAIN out : Len(recs) + i \in DOMAIN big /\ big[Len(recs) + i] = out[i]
  BY <1>1, BehindFile
<1>3. \A i \in Own(recs, k) : i \in Own(big, k) /\ big[i] = recs[i]
  BY <1>2, OwnPrefix DEF Prefix
<1>4. \A m : RecordedIn(recs, k, m) => RecordedIn(big, k, m)
  BY <1>3 DEF RecordedIn
<1>5. \A m, i : i \in DOMAIN out /\ out[i].of = k /\ out[i].data = PartsOf(m) => RecordedIn(big, k, m)
  BY <1>2 DEF RecordedIn, Own
<1> QED BY <1>1, <1>4, <1>5

(***************************************************************************)
(* What appending does to a stream and its records.                        *)
(***************************************************************************)

(* What waits may wait on while the bound grows.                           *)
LEMMA PendingMore ==
  ASSUME NEW recs, NEW k, NEW s, NEW n \in Nat, NEW n2 \in Nat, n <= n2, Pending(recs, k, s, n)
  PROVE  Pending(recs, k, s, n2)
<1>1. \A m \in DOMAIN Messages : m < n => m < n2
  <2>1. \A m \in DOMAIN Messages : m \in Nat
    BY PartsAre
  <2> QED BY <2>1
<1>2. \A data : WholeBelow(data, n) => WholeBelow(data, n2)
  BY <1>1 DEF WholeBelow
<1> QED BY <1>2 DEF Pending

(* Message m, complete, has left stream t and written out behind recs.     *)
After(recs, k, t, out, m) ==
  /\ Sound(recs \o out, k, m + 1) /\ Pending(recs \o out, k, t, m + 1)
  /\ Messages[m].kind = "Query" => RecordedIn(recs \o out, k, m)

(* The last part of a packet has come.                                     *)
LEMMA CompleteStep ==
  ASSUME NEW k, NEW s, StreamOK(k, s), NEW recs \in Seq(RecordType), NEW n \in Nat,
         NEW v \in Units, IsEnd(v), n <= v[1], NEW in \in BOOLEAN, SentBy(v, in),
         Sound(recs, k, n), Pending(recs, k, s, n),
         NEW p \in Part, p = Partial(v, in)
  PROVE  After(recs, k, PacketComplete(s, k, p).s, PacketComplete(s, k, p).out, v[1])
<1>1. PICK m \in DOMAIN Messages : m = v[1] /\ m \in Nat /\ n <= m /\ m + 1 \in Nat /\ n <= m + 1 /\ m < m + 1
  BY UnitIs
<1>2. p.got = PartsOf(m) /\ p.in = in /\ p.got # <<>> /\ p.got[1] = <<m, 1>> /\ p.got[1][1] = m
  <2>1. p.got = PartsOf(m) /\ p.in = in
    BY <1>1, EndIs
  <2>2. PartsOf(m) # <<>> /\ PartsOf(m)[1] = <<m, 1>>
    BY <1>1, PartsAre
  <2>3. <<m, 1>>[1] = m
    OBVIOUS
  <2> QED BY <2>1, <2>2, <2>3
<1>3. PICK r \in RecordType : r = Record(s, k, p)
  BY RecordIs
<1>4. r.of = k /\ r.data = PartsOf(m) /\ r.in = in /\ KindOf(r) = Messages[m].kind
  BY <1>2, <1>3 DEF Record, KindOf
<1>5. Messages[m].kind \in MsgKind /\ (Messages[m].kind \in {"Reply", "EOF"} <=> ~in)
  BY <1>1, UnitIs DEF SentBy, Kind
<1>6. WholeBelow(r.data, m + 1)
  BY <1>1, <1>4 DEF WholeBelow
<1>7. s \in StreamType /\ s.more \in Seq(Part)
  BY DEF StreamOK, StreamType
<1>8. CASE is_query(p)
  <2>1. PICK t, out : t = [s EXCEPT !.query = p.got, !.more = <<>>] /\ out = <<r>>
    OBVIOUS
  <2>2. PacketComplete(s, k, p) = [s |-> t, out |-> out]
    BY <1>3, <1>8, <2>1 DEF PacketComplete
  <2>3. IsQueryRecord(r)
    BY <1>2, <1>4, <1>8 DEF is_query, IsQueryRecord
  <2>4. out \in Seq(RecordType) /\ \A i \in DOMAIN out : i = 1 /\ out[i] = r
    BY <2>1
  <2>5. MayFollow(recs, k, n, m + 1, out)
    <3>1. r.data[1][1] = m
      BY <1>2, <1>4
    <3> QED BY <1>1, <1>4, <1>6, <2>3, <2>4, <3>1 DEF MayFollow, IsQueryRecord
  <2>6. Sound(recs \o out, k, m + 1)
    BY <1>1, <2>4, <2>5, SoundAppend
  <2>7. Pending(recs \o out, k, t, m + 1)
    <3>1. AfterQuery(recs \o out, k, Len(recs \o out) + 1)
      BY <1>4, <2>1, <2>3, LastOwn
    <3>2. t.more = <<>>
      BY <1>7, <2>1 DEF StreamType
    <3> QED BY <3>1, <3>2 DEF Pending
  <2>8. RecordedIn(recs \o out, k, m)
    <3>1. 1 \in DOMAIN out
      BY <2>1
    <3> QED BY <1>4, <2>4, <3>1, RecordedStays
  <2> QED BY <1>1, <2>2, <2>6, <2>7, <2>8 DEF After
<1>9. CASE ~is_query(p) /\ s.query # NoQuery /\ is_eof(p)
  <2> DEFINE mores == [i \in DOMAIN s.more |-> Record(s, k, s.more[i])]
  <2>1. PICK b \in Nat : DOMAIN s.more = 1 .. b /\ \A i \in 1 .. b : s.more[i] \in Part
    BY <1>7
  <2>2. mores \in Seq(RecordType)
    <3>1. \A i \in 1 .. b : Record(s, k, s.more[i]) \in RecordType
      BY <2>1, RecordIs
    <3> QED BY <2>1, <3>1
  <2>3. \A i \in 1 .. b : /\ mores[i].of = k /\ mores[i].data = s.more[i].got
                          /\ WholeBelow(mores[i].data, n)
                          /\ KindOf(mores[i]) \in {"Login", "More"}
    <3>1. \A i \in 1 .. b : mores[i].of = k /\ mores[i].data = s.more[i].got
      BY <2>1 DEF Record
    <3>2. \A i \in 1 .. b : /\ WholeBelow(s.more[i].got, n)
                            /\ Messages[s.more[i].got[1][1]].kind \in {"Login", "More"}
      BY <2>1 DEF Pending
    <3>3. \A i \in 1 .. b : KindOf(mores[i]) = Messages[mores[i].data[1][1]].kind
      BY <3>1, <3>2, QueryNumber
    <3> HIDE DEF mores
    <3> QED BY <3>1, <3>2, <3>3
  <2>4. DOMAIN mores = 1 .. b
    BY <2>1
  <2>5. PICK t, out : t = [s EXCEPT !.query = NoQuery, !.more = <<>>] /\ out = <<r>> \o mores
    OBVIOUS
  <2>6. PacketComplete(s, k, p) = [s |-> t, out |-> out]
    BY <1>3, <1>9, <2>5 DEF PacketComplete, EofOfQuery
  <2> HIDE DEF mores
  <2>7. /\ out \in Seq(RecordType) /\ DOMAIN out = 1 .. b + 1
        /\ out[1] = r /\ \A i \in 2 .. b + 1 : out[i] = mores[i - 1]
    <3>1. PICK one \in Seq(RecordType) : one = <<r>>
      <4>1. <<r>> \in Seq(RecordType)
        OBVIOUS
      <4> QED BY <4>1
    <3>2. Len(one) = 1 /\ one[1] = r /\ Len(mores) = b
      BY <2>1, <2>2, <2>4, <3>1
    <3>3. /\ out \in Seq(RecordType) /\ Len(out) = 1 + b
          /\ \A i \in 1 .. 1 + b : out[i] = IF i <= 1 THEN one[i] ELSE mores[i - 1]
      BY <2>2, <2>5, <3>1, <3>2, ConcatProperties
    <3>4. DOMAIN out = 1 .. b + 1
      BY <3>3, LenProperties
    <3> QED BY <2>1, <3>2, <3>3, <3>4
  <2>8. KindOf(r) = "EOF" /\ ~in /\ AfterQuery(recs, k, Len(recs) + 1)
    BY <1>2, <1>4, <1>9 DEF is_eof, Pending
  <2>9. MayFollow(recs, k, n, m + 1, out)
    <3>1. ASSUME NEW i \in DOMAIN out
          PROVE  i = 1 \/ (i \in 2 .. b + 1 /\ i - 1 \in 1 .. b /\ i - 1 \in DOMAIN out)
      BY <2>1, <2>7
    <3>2. ASSUME NEW i \in 2 .. b + 1, i - 1 \in 1 .. b
          PROVE  /\ out[i].of = k /\ WholeBelow(out[i].data, n) /\ KindOf(out[i]) \in {"Login", "More"}
                 /\ KindOf(out[i - 1]) \in {"EOF", "Login", "More"}
      <4>1. out[i] = mores[i - 1]
        BY <2>7
      <4>2. CASE i - 1 = 1
        BY <2>3, <2>7, <2>8, <3>2, <4>1, <4>2
      <4>3. CASE i - 1 # 1
        <5>1. i - 1 \in 2 .. b + 1 /\ (i - 1) - 1 \in 1 .. b
          BY <2>1, <3>2, <4>3
        <5>2. out[i - 1] = mores[(i - 1) - 1]
          BY <2>7, <5>1
        <5> QED BY <2>3, <3>2, <4>1, <5>1, <5>2
      <4> QED BY <4>2, <4>3
    <3>3. \A data : WholeBelow(data, n) => WholeBelow(data, m + 1)
      <4>1. \A x \in DOMAIN Messages : x < n => x < m + 1
        <5>1. \A x \in DOMAIN Messages : x \in Nat
          BY PartsAre
        <5> QED BY <1>1, <5>1
      <4> QED BY <4>1 DEF WholeBelow
    <3>4. ASSUME NEW i \in DOMAIN out
          PROVE  /\ out[i].of = k
                 /\ WholeBelow(out[i].data, m + 1)
                 /\ KindOf(out[i]) # "Reply"
                 /\ ~IsQueryRecord(out[i])
                 /\ KindOf(out[i]) = "EOF" => i = 1
                 /\ KindOf(out[i]) \in {"Login", "More"} =>
                      i - 1 \in DOMAIN out /\ KindOf(out[i - 1]) \in {"EOF", "Login", "More"}
      <4>1. CASE i = 1
        BY <1>4, <1>6, <2>7, <2>8, <4>1 DEF IsQueryRecord
      <4>2. CASE i \in 2 .. b + 1 /\ i - 1 \in 1 .. b /\ i - 1 \in DOMAIN out
        BY <3>2, <3>3, <4>2 DEF IsQueryRecord
      <4> QED BY <3>1, <4>1, <4>2
    <3> QED BY <2>8, <3>4 DEF MayFollow
  <2>10. Sound(recs \o out, k, m + 1)
    BY <1>1, <2>7, <2>9, SoundAppend
  <2>11. t.query = NoQuery /\ t.more = <<>>
    BY <1>7, <2>5 DEF StreamType
  <2>12. Pending(recs \o out, k, t, m + 1)
    BY <2>11 DEF Pending
  <2>13. Messages[m].kind # "Query"
    BY <1>4, <2>8
  <2> QED BY <1>1, <2>6, <2>10, <2>12, <2>13 DEF After
<1>10. CASE ~is_query(p) /\ ~(s.query # NoQuery /\ is_eof(p))
  <2>1. PICK t : t = IF p.in /\ s.query # NoQuery THEN [s EXCEPT !.more = Append(@, p)] ELSE s
    OBVIOUS
  <2>2. PacketComplete(s, k, p) = [s |-> t, out |-> <<>>]
    BY <1>10, <2>1 DEF PacketComplete
  <2>3. recs \o <<>> = recs
    BY ConcatEmptySeq
  <2>4. Sound(recs, k, m + 1)
    BY <1>1, SoundMore
  <2>5. Pending(recs, k, s, m + 1)
    BY <1>1, PendingMore
  <2>6. Messages[m].kind # "Query"
    <3>1. Messages[m].kind = "Query" => in
      BY <1>5
    <3> QED BY <1>2, <1>10, <3>1 DEF is_query
  <2>7. t.query = s.query
    BY <1>7, <2>1 DEF StreamType
  <2>8. Pending(recs, k, t, m + 1)
    <3>1. CASE p.in /\ s.query # NoQuery
      <4>1. t.more = Append(s.more, p)
        BY <1>7, <2>1, <3>1 DEF StreamType
      <4>2. Messages[m].kind \in {"Login", "More"}
        BY <1>2, <1>5, <1>10, <3>1 DEF is_query, MsgKind
      <4>3. ASSUME NEW i \in DOMAIN t.more
            PROVE  /\ WholeBelow(t.more[i].got, m + 1)
                   /\ Messages[t.more[i].got[1][1]].kind \in {"Login", "More"}
        <5>1. (i \in DOMAIN s.more /\ t.more[i] = s.more[i]) \/ t.more[i] = p
          BY <1>7, <4>1, <4>3, AppendProperties
        <5>2. CASE i \in DOMAIN s.more /\ t.more[i] = s.more[i]
          BY <2>5, <5>2 DEF Pending
        <5>3. CASE t.more[i] = p
          BY <1>2, <1>4, <1>6, <4>2, <5>3
        <5> QED BY <5>1, <5>2, <5>3
      <4> QED BY <2>5, <2>7, <4>3 DEF Pending
    <3>2. CASE ~(p.in /\ s.query # NoQuery)
      BY <2>1, <2>5, <3>2
    <3> QED BY <3>1, <3>2
  <2> QED BY <1>1, <2>2, <2>3, <2>4, <2>6, <2>8 DEF After
<1> QED BY <1>8, <1>9, <1>10

(* Nothing else of the stream changes, and the records are of its key.     *)
Keeps(k, s, t, out) ==
  /\ t.open = s.open /\ t.last_tcp_seq = s.last_tcp_seq
  /\ \A i \in DOMAIN out : out[i].of = k

(* A complete packet changes the last query, the packets after it and the  *)
(* file, and nothing else.                                                 *)
LEMMA CompleteKeeps ==
  ASSUME NEW k, NEW s, StreamOK(k, s), NEW p \in Part, NEW r, r = PacketComplete(s, k, p)
  PROVE  Keeps(k, s, r.s, r.out)
<1>1. s \in StreamType /\ s.more \in Seq(Part)
  BY DEF StreamOK, StreamType
<1>2. CASE is_query(p)
  <2>1. PICK t : t = [s EXCEPT !.query = p.got, !.more = <<>>]
    OBVIOUS
  <2>2. r = [s |-> t, out |-> <<Record(s, k, p)>>]
    BY <1>2, <2>1 DEF PacketComplete
  <2>3. t.open = s.open /\ t.last_tcp_seq = s.last_tcp_seq
    BY <1>1, <2>1 DEF StreamType
  <2>4. Record(s, k, p).of = k
    BY DEF Record
  <2> QED BY <2>2, <2>3, <2>4 DEF Keeps
<1>3. CASE ~is_query(p) /\ s.query # NoQuery /\ is_eof(p)
  <2> DEFINE mores == [i \in DOMAIN s.more |-> Record(s, k, s.more[i])]
  <2>1. PICK t : t = [s EXCEPT !.query = NoQuery, !.more = <<>>]
    OBVIOUS
  <2>2. r = [s |-> t, out |-> <<Record(s, k, p)>> \o mores]
    BY <1>3, <2>1 DEF PacketComplete, EofOfQuery
  <2>3. t.open = s.open /\ t.last_tcp_seq = s.last_tcp_seq
    BY <1>1, <2>1 DEF StreamType
  <2>4. PICK b \in Nat : DOMAIN s.more = 1 .. b
    BY <1>1
  <2>5. PICK R : R = {x \in {Record(s, k, p)} \cup {Record(s, k, s.more[i]) : i \in 1 .. b} : TRUE}
    OBVIOUS
  <2>6. <<Record(s, k, p)>> \in Seq(R) /\ mores \in Seq(R)
    BY <2>4, <2>5
  <2>7. \A x \in R : x.of = k
    BY <2>5 DEF Record
  <2> HIDE DEF mores
  <2>8. r.out \in Seq(R)
    BY <2>2, <2>6, ConcatProperties
  <2>9. \A i \in DOMAIN r.out : r.out[i].of = k
    BY <2>7, <2>8
  <2> QED BY <2>2, <2>9, <2>3 DEF Keeps
<1>4. CASE ~is_query(p) /\ ~(s.query # NoQuery /\ is_eof(p))
  <2>1. PICK t : t = IF p.in /\ s.query # NoQuery THEN [s EXCEPT !.more = Append(@, p)] ELSE s
    OBVIOUS
  <2>2. r = [s |-> t, out |-> <<>>]
    BY <1>4, <2>1 DEF PacketComplete
  <2>3. t.open = s.open /\ t.last_tcp_seq = s.last_tcp_seq
    BY <1>1, <2>1 DEF StreamType
  <2> QED BY <2>2, <2>3 DEF Keeps
<1> QED BY <1>2, <1>3, <1>4

(* What the stream has is what comes before the next part.                 *)
Ready(s, v, in) ==
  \/ s.open = NoPacket /\ v[2] = 1
  \/ \E u \in Units : s.open = Partial(u, in) /\ ~IsEnd(u) /\ v = <<u[1], u[2] + 1>>

(* A packet of the stream.                                                 *)
LEMMA PartialIs ==
  ASSUME NEW u \in Units, NEW in \in BOOLEAN
  PROVE  /\ Partial(u, in) \in Part /\ Partial(u, in) # NoPacket /\ Partial(u, in).in = in
         /\ Partial(u, in).units = Messages[u[1]].units
         /\ Partial(u, in).got \in Seq(Units) /\ Len(Partial(u, in).got) = u[2] /\ u[2] \in Nat \ {0}
         /\ Partial(u, in).got[1] = <<u[1], 1>>
<1>1. PICK m, b : m = u[1] /\ b = u[2] /\ m \in DOMAIN Messages /\ b \in Nat \ {0}
                  /\ Messages[m].units \in Nat \ {0} /\ b <= Messages[m].units
  BY UnitIs
<1>2. PICK d : d = [a \in 1 .. b |-> <<m, a>>]
  OBVIOUS
<1>3. \A a \in 1 .. b : <<m, a>> \in Units
  <2>1. \A a \in 1 .. b : a \in 1 .. Messages[m].units
    BY <1>1
  <2> QED BY <1>1, <2>1 DEF Units, Messages
<1>4. d \in Seq(Units) /\ Len(d) = b
  BY <1>1, <1>2, <1>3
<1>5. d[1] = <<m, 1>>
  BY <1>1, <1>2
<1>6. Partial(u, in) = [in |-> in, units |-> Messages[m].units, got |-> d]
  BY <1>1, <1>2 DEF Partial
<1> QED BY <1>1, <1>4, <1>5, <1>6 DEF Part, NoPacket

(* The next part makes the next beginning of its packet.                   *)
LEMMA OpenedIs ==
  ASSUME NEW s, NEW v \in Units, NEW in \in BOOLEAN, Ready(s, v, in)
  PROVE  Opened(s, v, in) = Partial(v, in)
<1>1. CASE s.open = NoPacket /\ v[2] = 1
  <2>1. Opened(s, v, in) = [in |-> in, units |-> Messages[v[1]].units, got |-> <<v>>]
    BY <1>1 DEF Opened, starting_packet
  <2>2. v = <<v[1], 1>>
    BY <1>1, UnitIs
  <2>3. PICK m : m = v[1]
    OBVIOUS
  <2>4. <<<<m, 1>>>> = [a \in 1 .. 1 |-> <<m, a>>]
    OBVIOUS
  <2> QED BY <1>1, <2>1, <2>2, <2>3, <2>4 DEF Partial
<1>2. CASE \E u \in Units : s.open = Partial(u, in) /\ ~IsEnd(u) /\ v = <<u[1], u[2] + 1>>
  <2>1. PICK u \in Units : s.open = Partial(u, in) /\ v = <<u[1], u[2] + 1>>
    BY <1>2
  <2>2. PICK m, b \in Nat : m = u[1] /\ b = u[2] /\ v[1] = m /\ v[2] = b + 1 /\ v = <<m, b + 1>>
    BY <2>1, UnitIs
  <2>3. s.open # NoPacket
    BY <2>1, PartialIs
  <2>4. PICK d : d = [a \in 1 .. b |-> <<m, a>>]
    OBVIOUS
  <2>5. Partial(u, in) = [in |-> in, units |-> Messages[m].units, got |-> d]
    BY <2>2, <2>4 DEF Partial
  <2>6. Opened(s, v, in) = [in |-> in, units |-> Messages[m].units, got |-> Append(d, v)]
    <3>1. PICK o : o = s.open /\ o = [in |-> in, units |-> Messages[m].units, got |-> d]
      BY <2>1, <2>5
    <3>2. PICK e : e = Append(d, v)
      OBVIOUS
    <3>3. o.got = d
      BY <3>1
    <3>4. Opened(s, v, in) = [o EXCEPT !.got = e]
      BY <2>3, <3>1, <3>2, <3>3 DEF Opened, starting_packet
    <3>5. [o EXCEPT !.got = e] = [in |-> in, units |-> Messages[m].units, got |-> e]
      BY <3>1
    <3> QED BY <3>2, <3>4, <3>5
  <2>7. Append(d, v) = [a \in 1 .. b + 1 |-> <<m, a>>]
    <3>1. Len(d) = b /\ DOMAIN d = 1 .. b
      BY <2>4
    <3> QED BY <2>2, <2>4, <3>1
  <2> QED BY <2>2, <2>6, <2>7 DEF Partial
<1> QED BY <1>1, <1>2 DEF Ready

(* So it goes on from part to part.                                        *)
LEMMA ReadyNext ==
  ASSUME NEW s, NEW u \in Units, NEW v \in Units, NEW in, s.open = OpenAfter(u, in), Follows(u, v)
  PROVE  Ready(s, v, in)
BY DEF Ready, OpenAfter, Follows

(* After part v: the open packet, and records that may be behind recs.     *)
Good(recs, k, s, n) == Sound(recs, k, n) /\ Pending(recs, k, s, n)
UnitDone(recs, k, acc, r, v, in, n) ==
  /\ r.s.open = OpenAfter(v, in) /\ r.s.last_tcp_seq = acc.s.last_tcp_seq
  /\ (\A i \in DOMAIN acc.out : acc.out[i].of = k) => \A i \in DOMAIN r.out : r.out[i].of = k
  /\ \A m : RecordedIn(recs \o acc.out, k, m) => RecordedIn(recs \o r.out, k, m)
  /\ Good(recs \o acc.out, k, acc.s, n) =>
       /\ Good(recs \o r.out, k, r.s, Below(v))
       /\ IsEnd(v) /\ Kind(v) = "Query" => RecordedIn(recs \o r.out, k, v[1])

(* A part that is the next one opens, continues or completes a packet, and *)
(* what was right of stream and file stays so.                             *)
LEMMA UnitStep ==
  ASSUME NEW k, NEW acc \in Result(k), NEW recs \in Seq(RecordType), NEW n \in Nat,
         NEW v \in Units, n <= v[1], NEW in \in BOOLEAN, SentBy(v, in), Ready(acc.s, v, in),
         NEW r, r = AppendUnit(acc, v, k, in)
  PROVE  UnitDone(recs, k, acc, r, v, in, n)
<1>1. PICK s, out : s = acc.s /\ out = acc.out /\ acc = [s |-> s, out |-> out]
  BY DEF Result
<1>2. StreamOK(k, s) /\ s \in StreamType /\ out \in Seq(RecordType)
  BY <1>1 DEF Result
<1>3. PICK p \in Part : p = Partial(v, in) /\ p = Opened(s, v, in) /\ Len(p.got) = v[2] /\ p.units = Messages[v[1]].units
  BY <1>1, OpenedIs, PartialIs
<1>4. v[2] \in 1 .. Messages[v[1]].units /\ Messages[v[1]].units \in Nat /\ v[1] \in Nat /\ v[1] + 1 \in Nat
  BY UnitIs
<1>5. recs \o out \in Seq(RecordType)
  BY <1>2, ConcatProperties
<1>6. CASE ~IsEnd(v)
  <2>1. Len(p.got) < p.units
    BY <1>3, <1>4, <1>6 DEF IsEnd
  <2>2. PICK t : t = [s EXCEPT !.open = p]
    OBVIOUS
  <2>3. r = [s |-> t, out |-> out]
    <3>1. r = [acc EXCEPT !.s.open = p]
      BY <1>1, <1>3, <2>1 DEF AppendUnit
    <3> QED BY <1>1, <2>2, <3>1
  <2>4. t.open = p /\ t.last_tcp_seq = s.last_tcp_seq /\ t.query = s.query /\ t.more = s.more
    BY <1>2, <2>2 DEF StreamType
  <2>5. OpenAfter(v, in) = p /\ Below(v) = v[1]
    BY <1>3, <1>6 DEF OpenAfter, Below
  <2>6. Good(recs \o out, k, s, n) => Good(recs \o out, k, t, v[1])
    <3>1. ASSUME Good(recs \o out, k, s, n)
          PROVE  Good(recs \o out, k, t, v[1])
      <4>1. Sound(recs \o out, k, v[1])
        BY <1>4, <1>5, <3>1, SoundMore DEF Good
      <4>2. Pending(recs \o out, k, s, v[1])
        BY <1>4, <3>1, PendingMore DEF Good
      <4>3. Pending(recs \o out, k, t, v[1])
        BY <2>4, <4>2 DEF Pending
      <4> QED BY <4>1, <4>3 DEF Good
    <3> QED BY <3>1
  <2>7. r.s = t /\ r.out = out
    BY <2>3
  <2> QED BY <1>1, <1>6, <2>4, <2>5, <2>6, <2>7 DEF UnitDone
<1>7. CASE IsEnd(v)
  <2>1. ~(Len(p.got) < p.units)
    BY <1>3, <1>4, <1>7 DEF IsEnd
  <2>2. PICK t : t = [s EXCEPT !.open = NoPacket]
    OBVIOUS
  <2>3. t.open = NoPacket /\ t.last_tcp_seq = s.last_tcp_seq /\ t.query = s.query /\ t.more = s.more
    BY <1>2, <2>2 DEF StreamType
  <2>4. StreamOK(k, t)
    BY <1>2, <2>2, NoPacketIs DEF StreamOK, StreamType, starting_packet
  <2>5. PICK c : c = PacketComplete(t, k, p)
    OBVIOUS
  <2>6. r.s = c.s /\ r.out = out \o c.out
    BY <1>1, <1>3, <2>1, <2>2, <2>5 DEF AppendUnit
  <2>7. Keeps(k, t, c.s, c.out)
    BY <2>4, <2>5, CompleteKeeps
  <2>8. c.out \in Seq(RecordType)
    <3>1. p.got # <<>>
      BY <1>3, <1>4
    <3> QED BY <2>4, <2>5, <3>1, CompleteOK
  <2>9. recs \o r.out = (recs \o out) \o c.out
    <3>1. PICK e \in Seq(RecordType) : e = c.out
      BY <2>8
    <3>2. (recs \o out) \o e = recs \o (out \o e)
      <4>1. out \in Seq(RecordType)
        BY <1>2
      <4> QED BY SMTT(30), <4>1, ConcatAssociative
    <3> QED BY <2>6, <3>1, <3>2
  <2>10. OpenAfter(v, in) = NoPacket /\ Below(v) = v[1] + 1
    BY <1>7 DEF OpenAfter, Below
  <2>11. (\A i \in DOMAIN out : out[i].of = k) => \A i \in DOMAIN r.out : r.out[i].of = k
    <3>1. ASSUME \A i \in DOMAIN out : out[i].of = k, NEW i \in DOMAIN (out \o c.out)
          PROVE  (out \o c.out)[i].of = k
      <4>1. \/ i \in DOMAIN out /\ (out \o c.out)[i] = out[i]
            \/ i - Len(out) \in DOMAIN c.out /\ (out \o c.out)[i] = c.out[i - Len(out)]
        BY <1>2, <2>8, ConcatProperties
      <4> QED BY <2>7, <3>1, <4>1 DEF Keeps
    <3> QED BY <2>6, <3>1
  <2>12. \A m : RecordedIn(recs \o out, k, m) => RecordedIn(recs \o r.out, k, m)
    BY <1>5, <2>8, <2>9, RecordedStays
  <2>13. ASSUME Good(recs \o out, k, s, n)
         PROVE  /\ Good(recs \o r.out, k, r.s, Below(v))
                /\ Kind(v) = "Query" => RecordedIn(recs \o r.out, k, v[1])
    <3>1. Sound(recs \o out, k, n) /\ Pending(recs \o out, k, t, n)
      BY <2>3, <2>13 DEF Good, Pending
    <3>2. After(recs \o out, k, c.s, c.out, v[1])
      BY <1>3, <1>5, <1>7, <2>4, <2>5, <3>1, CompleteStep
    <3> QED BY <2>6, <2>9, <2>10, <3>2 DEF After, Good, Kind
  <2> QED BY <1>1, <2>3, <2>6, <2>7, <2>10, <2>11, <2>12, <2>13 DEF UnitDone, Keeps
<1> QED BY <1>6, <1>7

(* What one side sends in a segment: parts in order.                       *)
PartsRun(data, in) ==
  /\ data \in Seq(Units) /\ data # <<>>
  /\ \A a \in 2 .. Len(data) : Follows(data[a - 1], data[a])
  /\ \A a \in DOMAIN data : SentBy(data[a], in)

(* The bound after a part is not above the next one.                       *)
LEMMA BelowIs ==
  ASSUME NEW u \in Units
  PROVE  Below(u) \in Nat /\ \A v \in Units : Follows(u, v) => Below(u) <= v[1]
<1>1. u[1] \in Nat /\ u[1] + 1 \in Nat
  BY UnitIs
<1>2. \A v \in Units : v[1] \in Nat
  BY UnitIs
<1>3. Below(u) \in Nat
  BY <1>1 DEF Below
<1>4. ASSUME NEW v \in Units, Follows(u, v)
      PROVE  Below(u) <= v[1]
  <2>1. CASE IsEnd(u)
    BY <1>1, <1>2, <1>4, <2>1 DEF Below, Follows
  <2>2. CASE ~IsEnd(u)
    <3>1. v = <<u[1], u[2] + 1>>
      BY <1>4, <2>2 DEF Follows
    <3>2. v[1] = u[1] /\ Below(u) = u[1]
      BY <2>2, <3>1 DEF Below
    <3> QED BY <1>1, <3>2
  <2> QED BY <2>1, <2>2
<1> QED BY <1>3, <1>4

(* After part i of the data, with d the data, b the bound.                 *)
RunUpTo(recs, k, s, r, data, in, n, b, i) ==
  /\ i # 0 => r.s.open = OpenAfter(data[i], in)
  /\ r.s.last_tcp_seq = s.last_tcp_seq
  /\ \A x \in DOMAIN r.out : r.out[x].of = k
  /\ \A m : RecordedIn(recs, k, m) => RecordedIn(recs \o r.out, k, m)
  /\ Good(recs, k, s, n) =>
       /\ Good(recs \o r.out, k, r.s, b)
       /\ \A j \in 1 .. i : IsEnd(data[j]) /\ Kind(data[j]) = "Query"
            => RecordedIn(recs \o r.out, k, data[j][1])
RunDone(recs, k, s, r, data, in, n) ==
  r \in Result(k) /\ RunUpTo(recs, k, s, r, data, in, n, Below(data[Len(data)]), Len(data))

(* The same for all parts of a segment, one after the other.               *)
LEMMA RunStep ==
  ASSUME NEW k, NEW s, StreamOK(k, s), NEW in \in BOOLEAN, NEW data, PartsRun(data, in),
         Ready(s, data[1], in), NEW recs \in Seq(RecordType), NEW n \in Nat, n <= data[1][1]
  PROVE  RunDone(recs, k, s, AppendData(s, k, data, in), data, in, n)
<1>1. PICK l \in Nat : l = Len(data) /\ l # 0 /\ DOMAIN data = 1 .. l /\ \A i \in 1 .. l : data[i] \in Units
  <2>1. data \in Seq(Units) /\ data # <<>>
    BY DEF PartsRun
  <2> QED BY <2>1
<1>2. PICK u : Appends(u, s, k, data, in) /\ \A i \in 0 .. l : u[i] \in Result(k)
  BY <1>1, AppendDataIs DEF PartsRun
<1>3. u[0] = [s |-> s, out |-> <<>>] /\ \A i \in 1 .. l : u[i] = AppendUnit(u[i - 1], data[i], k, in)
  BY <1>1, <1>2 DEF Appends
<1> DEFINE b(i) == IF i = 0 THEN n ELSE Below(data[i])
           P == {i \in 0 .. l : RunUpTo(recs, k, s, u[i], data, in, n, b(i), i)}
<1>4. 0 \in P
  <2>1. recs \o <<>> = recs
    BY ConcatEmptySeq
  <2>2. RunUpTo(recs, k, s, u[0], data, in, n, n, 0)
    BY <1>3, <2>1 DEF RunUpTo
  <2> QED BY <1>1, <2>2
<1>5. \A i \in 1 .. l : b(i - 1) \in Nat /\ b(i - 1) <= data[i][1]
  <2>1. ASSUME NEW i \in 1 .. l
        PROVE  b(i - 1) \in Nat /\ b(i - 1) <= data[i][1]
    <3>1. CASE i = 1
      BY <3>1
    <3>2. CASE i # 1
      <4>1. i \in 2 .. l /\ i - 1 \in 1 .. l /\ i - 1 # 0
        BY <1>1, <3>2
      <4>2. Follows(data[i - 1], data[i]) /\ data[i - 1] \in Units /\ data[i] \in Units
        BY <1>1, <4>1 DEF PartsRun
      <4> QED BY <4>1, <4>2, BelowIs
    <3> QED BY <3>1, <3>2
  <2> QED BY <2>1
<1>6. ASSUME NEW i \in 1 .. l, i - 1 \in P
      PROVE  i \in P
  <2>1. PICK acc \in Result(k) : acc = u[i - 1]
    BY <1>1, <1>2
  <2>2. PICK v \in Units : v = data[i] /\ SentBy(v, in)
    BY <1>1 DEF PartsRun
  <2>3. PICK bi \in Nat : bi = b(i - 1) /\ bi <= v[1]
    BY <1>5, <2>2
  <2>4. RunUpTo(recs, k, s, acc, data, in, n, bi, i - 1)
    BY <1>6, <2>1, <2>3
  <2>5. Ready(acc.s, v, in)
    <3>1. CASE i = 1
      <4>1. acc = [s |-> s, out |-> <<>>]
        BY <1>3, <2>1, <3>1
      <4> QED BY <2>2, <3>1, <4>1
    <3>2. CASE i # 1
      <4>1. i \in 2 .. l /\ i - 1 \in 1 .. l /\ i - 1 # 0
        BY <1>1, <3>2
      <4>2. Follows(data[i - 1], v) /\ data[i - 1] \in Units
        BY <1>1, <2>2, <4>1 DEF PartsRun
      <4>3. acc.s.open = OpenAfter(data[i - 1], in)
        BY <2>4, <4>1 DEF RunUpTo
      <4> QED BY <4>2, <4>3, ReadyNext
    <3> QED BY <3>1, <3>2
  <2>6. PICK r : r = u[i] /\ r = AppendUnit(acc, v, k, in)
    BY <1>3, <2>1, <2>2
  <2>7. UnitDone(recs, k, acc, r, v, in, bi)
    BY <2>2, <2>3, <2>5, <2>6, UnitStep
  <2>8. ASSUME Good(recs, k, s, n)
        PROVE  /\ Good(recs \o r.out, k, r.s, Below(v))
               /\ \A j \in 1 .. i : IsEnd(data[j]) /\ Kind(data[j]) = "Query"
                    => RecordedIn(recs \o r.out, k, data[j][1])
    <3>1. Good(recs \o acc.out, k, acc.s, bi)
      BY <2>4, <2>8 DEF RunUpTo
    <3>2. Good(recs \o r.out, k, r.s, Below(v))
      BY <2>7, <3>1 DEF UnitDone
    <3>3. ASSUME NEW j \in 1 .. i, IsEnd(data[j]), Kind(data[j]) = "Query"
          PROVE  RecordedIn(recs \o r.out, k, data[j][1])
      <4>1. CASE j = i
        BY <2>2, <2>7, <3>1, <3>3, <4>1 DEF UnitDone
      <4>2. CASE j # i
        <5>1. j \in 1 .. i - 1
          BY <4>2
        <5>2. RecordedIn(recs \o acc.out, k, data[j][1])
          BY <2>4, <2>8, <3>3, <5>1 DEF RunUpTo
        <5> QED BY <2>7, <5>2 DEF UnitDone
      <4> QED BY <4>1, <4>2
    <3> QED BY <3>2, <3>3
  <2>9. RunUpTo(recs, k, s, r, data, in, n, Below(v), i)
    <3>1. /\ r.s.open = OpenAfter(v, in) /\ r.s.last_tcp_seq = s.last_tcp_seq
          /\ \A x \in DOMAIN r.out : r.out[x].of = k
          /\ \A m : RecordedIn(recs, k, m) => RecordedIn(recs \o r.out, k, m)
      BY <2>4, <2>7 DEF RunUpTo, UnitDone
    <3> QED BY <2>2, <2>8, <3>1 DEF RunUpTo
  <2>10. b(i) = Below(v) /\ i \in 0 .. l
    BY <1>1, <2>2
  <2>11. RunUpTo(recs, k, s, u[i], data, in, n, b(i), i)
    BY <2>6, <2>9, <2>10
  <2> QED BY <2>10, <2>11
<1>7. l \in P
  <2>1. \A i \in 1 .. l : i - 1 \in P => i \in P
    BY <1>6
  <2> HIDE DEF P
  <2>2. \A i \in 0 .. l : i \in P
    BY <1>4, <2>1, Induction
  <2> QED BY <1>1, <2>2
<1>8. AppendData(s, k, data, in) = u[l] /\ u[l] \in Result(k)
  BY <1>1, <1>2 DEF Appends
<1> QED BY <1>1, <1>7, <1>8 DEF RunDone

(***************************************************************************)
(* Streams that get only parts of a set U, and what they write.            *)
(***************************************************************************)
StreamIn(U, s) == s.open.got \in Seq(U) /\ \A i \in DOMAIN s.more : s.more[i].got \in Seq(U)
RecordsIn(U, k, out) == \A i \in DOMAIN out : out[i].of = k /\ out[i].data \in Seq(U)

(* A packet of parts of U leaves a stream of such packets, and records of  *)
(* them.                                                                   *)
LEMMA CompleteIn ==
  ASSUME NEW U, NEW k, NEW s, StreamOK(k, s), StreamIn(U, s), NEW p \in Part, p.got \in Seq(U),
         NEW r, r = PacketComplete(s, k, p)
  PROVE  StreamIn(U, r.s) /\ RecordsIn(U, k, r.out)
<1>1. s \in StreamType /\ s.more \in Seq(Part)
  BY DEF StreamOK, StreamType
<1>2. Record(s, k, p).of = k /\ Record(s, k, p).data \in Seq(U)
  BY DEF Record
<1>3. CASE is_query(p)
  <2>1. PICK t : t = [s EXCEPT !.query = p.got, !.more = <<>>]
    OBVIOUS
  <2>2. r = [s |-> t, out |-> <<Record(s, k, p)>>]
    BY <1>3, <2>1 DEF PacketComplete
  <2>3. t.open = s.open /\ t.more = <<>>
    BY <1>1, <2>1 DEF StreamType
  <2>4. RecordsIn(U, k, <<Record(s, k, p)>>)
    BY <1>2 DEF RecordsIn
  <2> QED BY <2>2, <2>3, <2>4 DEF StreamIn
<1>4. CASE ~is_query(p) /\ s.query # NoQuery /\ is_eof(p)
  <2> DEFINE mores == [i \in DOMAIN s.more |-> Record(s, k, s.more[i])]
  <2>1. PICK t : t = [s EXCEPT !.query = NoQuery, !.more = <<>>]
    OBVIOUS
  <2>2. r = [s |-> t, out |-> <<Record(s, k, p)>> \o mores]
    BY <1>4, <2>1 DEF PacketComplete, EofOfQuery
  <2>3. t.open = s.open /\ t.more = <<>>
    BY <1>1, <2>1 DEF StreamType
  <2>4. PICK b \in Nat : DOMAIN s.more = 1 .. b
    BY <1>1
  <2>5. PICK R : R = {Record(s, k, p)} \cup {Record(s, k, s.more[i]) : i \in 1 .. b}
    OBVIOUS
  <2>6. <<Record(s, k, p)>> \in Seq(R) /\ mores \in Seq(R)
    BY <2>4, <2>5
  <2>7. \A x \in R : x.of = k /\ x.data \in Seq(U)
    <3>1. \A i \in 1 .. b : Record(s, k, s.more[i]).of = k /\ Record(s, k, s.more[i]).data \in Seq(U)
      BY <2>4 DEF Record, StreamIn
    <3> QED BY <1>2, <2>5, <3>1
  <2> HIDE DEF mores
  <2>8. r.out \in Seq(R)
    BY <2>2, <2>6, ConcatProperties
  <2>9. RecordsIn(U, k, r.out)
    BY <2>7, <2>8 DEF RecordsIn
  <2> QED BY <2>2, <2>3, <2>9 DEF StreamIn
<1>5. CASE ~is_query(p) /\ ~(s.query # NoQuery /\ is_eof(p))
  <2>1. PICK t : t = IF p.in /\ s.query # NoQuery THEN [s EXCEPT !.more = Append(@, p)] ELSE s
    OBVIOUS
  <2>2. r = [s |-> t, out |-> <<>>]
    BY <1>5, <2>1 DEF PacketComplete
  <2>3. t.open = s.open /\ t.more \in {s.more, Append(s.more, p)}
    BY <1>1, <2>1 DEF StreamType
  <2>4. ASSUME NEW i \in DOMAIN Append(s.more, p)
        PROVE  Append(s.more, p)[i].got \in Seq(U)
    <3>1. (i \in DOMAIN s.more /\ Append(s.more, p)[i] = s.more[i]) \/ Append(s.more, p)[i] = p
      BY <1>1, <2>4, AppendProperties
    <3> QED BY <3>1 DEF StreamIn
  <2>5. StreamIn(U, t)
    BY <2>3, <2>4 DEF StreamIn
  <2> QED BY <2>2, <2>5 DEF RecordsIn
<1> QED BY <1>3, <1>4, <1>5

(* So does a part of U.                                                    *)
LEMMA AppendUnitIn ==
  ASSUME NEW U \in SUBSET Units, NEW k, NEW acc \in Result(k), NEW v \in U, NEW in \in BOOLEAN,
         StreamIn(U, acc.s), RecordsIn(U, k, acc.out), NEW r, r = AppendUnit(acc, v, k, in)
  PROVE  StreamIn(U, r.s) /\ RecordsIn(U, k, r.out)
<1>1. PICK s, out : s = acc.s /\ out = acc.out /\ acc = [s |-> s, out |-> out]
  BY DEF Result
<1>2. StreamOK(k, s) /\ s \in StreamType /\ out \in Seq(RecordType) /\ s.open \in Part
  BY <1>1 DEF Result, StreamType
<1>3. PICK p : p = Opened(s, v, in)
  OBVIOUS
<1>4. p \in Part /\ p.got \in Seq(U)
  <2>1. CASE starting_packet(s)
    <3>1. Messages[v[1]].units \in Nat
      BY UnitIs
    <3>2. <<v>> \in Seq(U) /\ <<v>> \in Seq(Units)
      OBVIOUS
    <3> QED BY <1>3, <2>1, <3>1, <3>2 DEF Opened, Part, Endless
  <2>2. CASE ~starting_packet(s)
    <3>1. s.open.got \in Seq(U) /\ s.open.got \in Seq(Units)
      BY <1>1, <1>2 DEF StreamIn, Part
    <3>2. PICK e : e = Append(s.open.got, v)
      OBVIOUS
    <3>3. e \in Seq(U) /\ e \in Seq(Units)
      BY <3>1, <3>2
    <3>4. p = [s.open EXCEPT !.got = e]
      BY <1>3, <2>2, <3>2 DEF Opened
    <3> QED BY <1>2, <3>3, <3>4 DEF Part
  <2> QED BY <2>1, <2>2
<1>5. CASE Len(p.got) < p.units
  <2>1. PICK t : t = [s EXCEPT !.open = p]
    OBVIOUS
  <2>2. r = [s |-> t, out |-> out]
    <3>1. r = [acc EXCEPT !.s.open = p]
      BY <1>1, <1>3, <1>5 DEF AppendUnit
    <3> QED BY <1>1, <2>1, <3>1
  <2>3. t.open = p /\ t.more = s.more
    BY <1>2, <2>1 DEF StreamType
  <2> QED BY <1>1, <1>4, <2>2, <2>3 DEF StreamIn
<1>6. CASE ~(Len(p.got) < p.units)
  <2>1. PICK t : t = [s EXCEPT !.open = NoPacket]
    OBVIOUS
  <2>2. t.open = NoPacket /\ t.more = s.more
    BY <1>2, <2>1 DEF StreamType
  <2>3. StreamOK(k, t)
    BY <1>2, <2>1, NoPacketIs DEF StreamOK, StreamType, starting_packet
  <2>4. StreamIn(U, t)
    BY <1>1, <2>2 DEF StreamIn, NoPacket
  <2>5. PICK c : c = PacketComplete(t, k, p)
    OBVIOUS
  <2>6. r = [s |-> c.s, out |-> out \o c.out]
    BY <1>1, <1>3, <1>6, <2>1, <2>5 DEF AppendUnit
  <2>7. StreamIn(U, c.s) /\ RecordsIn(U, k, c.out)
    BY <1>4, <2>3, <2>4, <2>5, CompleteIn
  <2>8. c.out \in Seq(RecordType) \/ p.got = <<>>
    BY <1>4, <2>3, <2>5, CompleteOK
  <2>9. p.got # <<>>
    <3>1. CASE starting_packet(s)
      BY <1>3, <3>1 DEF Opened
    <3>2. CASE ~starting_packet(s)
      <4>1. PICK g \in Seq(Units) : g = s.open.got
        BY <1>2 DEF Part
      <4>2. Append(g, v) # <<>>
        OBVIOUS
      <4>3. s.open \in Part /\ p = [s.open EXCEPT !.got = Append(g, v)]
        BY <1>2, <1>3, <3>2, <4>1 DEF Opened
      <4> QED BY <4>2, <4>3 DEF Part
    <3> QED BY <3>1, <3>2
  <2>10. RecordsIn(U, k, out \o c.out)
    <3>1. ASSUME NEW i \in DOMAIN (out \o c.out)
          PROVE  (out \o c.out)[i].of = k /\ (out \o c.out)[i].data \in Seq(U)
      <4>1. \/ i \in DOMAIN out /\ (out \o c.out)[i] = out[i]
            \/ i - Len(out) \in DOMAIN c.out /\ (out \o c.out)[i] = c.out[i - Len(out)]
        BY <1>2, <2>8, <2>9, ConcatProperties
      <4> QED BY <1>1, <2>7, <4>1 DEF RecordsIn
    <3> QED BY <3>1 DEF RecordsIn
  <2> QED BY <2>6, <2>7, <2>10
<1> QED BY <1>5, <1>6

(* So do the parts of a segment, if all are in U.                          *)
LEMMA AppendDataIn ==
  ASSUME NEW U \in SUBSET Units, NEW k, NEW s, StreamOK(k, s), StreamIn(U, s),
         NEW data \in Seq(U), NEW in \in BOOLEAN, NEW r, r = AppendData(s, k, data, in)
  PROVE  StreamIn(U, r.s) /\ RecordsIn(U, k, r.out)
<1>1. data \in Seq(Units)
  OBVIOUS
<1>2. PICK l \in Nat : l = Len(data) /\ \A i \in 1 .. l : data[i] \in U
  OBVIOUS
<1>3. PICK u : Appends(u, s, k, data, in) /\ \A i \in 0 .. l : u[i] \in Result(k)
  BY <1>1, <1>2, AppendDataIs
<1>4. u[0] = [s |-> s, out |-> <<>>] /\ \A i \in 1 .. l : u[i] = AppendUnit(u[i - 1], data[i], k, in)
  BY <1>2, <1>3 DEF Appends
<1> DEFINE P == {i \in 0 .. l : StreamIn(U, u[i].s) /\ RecordsIn(U, k, u[i].out)}
<1>5. 0 \in P
  BY <1>2, <1>4 DEF RecordsIn
<1>6. ASSUME NEW i \in 1 .. l, i - 1 \in P
      PROVE  i \in P
  <2>1. u[i - 1] \in Result(k) /\ i \in 0 .. l
    BY <1>2, <1>3
  <2> QED BY <1>2, <1>4, <1>6, <2>1, AppendUnitIn
<1>7. l \in P
  <2>1. \A i \in 1 .. l : i - 1 \in P => i \in P
    BY <1>6
  <2> HIDE DEF P
  <2>2. \A i \in 0 .. l : i \in P
    BY <1>5, <2>1, Induction
  <2> QED BY <1>2, <2>2
<1> QED BY <1>2, <1>3, <1>7 DEF Appends

(***************************************************************************)
(* The frames of a tidy conversation whose client end is k, p of them read.*)
(***************************************************************************)
OwnFrames(fr, k) ==
  /\ fr \in Seq(Range(fr)) /\ fr # <<>>
  /\ \A i \in DOMAIN fr : IsFrame(fr[i]) /\ WholeFrame(fr[i]) /\ ClientEnd(fr[i]) = k
  /\ InOrder(fr)
Captured(fr, p) == UNION {Range(fr[i].data) : i \in 1 .. p}

(* The last frame with data, and its last part.                            *)
LastData(fr, p, d) ==
  /\ d \in 1 .. p /\ fr[d].data # <<>>
  /\ \A h \in d + 1 .. p : fr[h].data = <<>>
NoData(fr, p) == \A h \in 1 .. p : fr[h].data = <<>>
LastUnit(fr, d) == Last(fr[d].data)
InSequence(fr, p) ==
  \A d \in 1 .. p : LastData(fr, p, d) => \A u \in Captured(fr, p) : AtMost(u, LastUnit(fr, d))
Bounded(fr, p, n) ==
  /\ n \in Nat /\ (NoData(fr, p) => n = 0)
  /\ \A d \in 1 .. p : LastData(fr, p, d) => n <= Below(LastUnit(fr, d))

(* The stream: it was not there or is new since the last data were sent,   *)
(* or it is at the last data, which it has or has dropped.                 *)
Fresh(s) == s.last_tcp_seq = NoSeq /\ s.open = NoPacket /\ s.query = NoQuery /\ s.more = <<>>
OpenIs(s, u, in) ==
  IF s.open = NoPacket THEN IsEnd(u) \/ in ELSE ~IsEnd(u) /\ s.open = Partial(u, in)
Within(fr, p, d, s) ==
  /\ LastData(fr, p, d) /\ NoFin(fr, d, p)
  /\ s.last_tcp_seq = fr[d].tcp.th_seq
  /\ OpenIs(s, LastUnit(fr, d), ToServer(fr[d]))
EndedSince(fr, p) == \A d \in 1 .. p : LastData(fr, p, d) => ~NoFin(fr, d, p)
StreamTidy(fr, p, k, look) ==
  /\ \A h \in 1 .. p : Starts(fr[h]) /\ NoFin(fr, h, p) => k \in DOMAIN look
  /\ k \in DOMAIN look =>
       (Fresh(look[k]) /\ EndedSince(fr, p)) \/ \E d \in 1 .. p : Within(fr, p, d, look[k])

(* A frame of such a conversation.                                         *)
LEMMA OwnFrame ==
  ASSUME NEW fr, NEW k, OwnFrames(fr, k), NEW i \in DOMAIN fr
  PROVE  /\ DOMAIN fr = 1 .. Len(fr) /\ Len(fr) \in Nat /\ i \in Nat
         /\ fr[i].data \in Seq(Units)
         /\ fr[i].data # <<>> =>
              /\ PartsRun(fr[i].data, ToServer(fr[i])) /\ fr[i].tcp.th_flags # "FIN"
              /\ 1 \in DOMAIN fr[i].data /\ fr[i].data[1] \in Units /\ LastUnit(fr, i) \in Units
              /\ LastUnit(fr, i) = fr[i].data[Len(fr[i].data)]
              /\ SentBy(fr[i].data[1], ToServer(fr[i])) /\ SentBy(LastUnit(fr, i), ToServer(fr[i]))
<1>1. DOMAIN fr = 1 .. Len(fr) /\ Len(fr) \in Nat
  BY LenProperties DEF OwnFrames
<1>2. IsFrame(fr[i]) /\ WholeFrame(fr[i]) /\ InOrder(fr)
  BY DEF OwnFrames
<1>3. PICK data : data = fr[i].data
  OBVIOUS
<1>4. data \in Seq(Units)
  BY <1>2, <1>3, Zenon DEF IsFrame
<1>5. ASSUME data # <<>>
      PROVE  /\ PartsRun(data, ToServer(fr[i])) /\ fr[i].tcp.th_flags # "FIN"
             /\ 1 \in DOMAIN data /\ Len(data) \in DOMAIN data
  <2>1. fr[i].tcp.th_flags # "FIN"
    BY <1>2, <1>3, <1>5 DEF WholeFrame
  <2>2. \A a \in DOMAIN data : SentBy(data[a], ToServer(fr[i]))
    BY <1>2, <1>3 DEF WholeFrame, SentBy, Kind
  <2>3. \A a \in 2 .. Len(data) : Follows(data[a - 1], data[a])
    BY <1>2, <1>3 DEF InOrder
  <2>4. 1 \in DOMAIN data /\ Len(data) \in DOMAIN data
    BY <1>4, <1>5
  <2> QED BY <1>4, <1>5, <2>1, <2>2, <2>3, <2>4 DEF PartsRun
<1>6. LastUnit(fr, i) = data[Len(data)]
  BY <1>3 DEF LastUnit, Last
<1>7. ASSUME data # <<>>
      PROVE  /\ data[1] \in Units /\ data[Len(data)] \in Units
             /\ SentBy(data[1], ToServer(fr[i])) /\ SentBy(data[Len(data)], ToServer(fr[i]))
  BY <1>4, <1>5, <1>7 DEF PartsRun
<1> QED BY <1>1, <1>3, <1>4, <1>5, <1>6, <1>7

(* There is a last frame with data or none.                                *)
LEMMA LastExists ==
  ASSUME NEW fr, NEW p \in Nat
  PROVE  NoData(fr, p) \/ \E d \in 1 .. p : LastData(fr, p, d)
<1> DEFINE P == {i \in 0 .. p : NoData(fr, i) \/ \E d \in 1 .. i : LastData(fr, i, d)}
<1>1. 0 \in P
  BY DEF NoData
<1>2. ASSUME NEW i \in 1 .. p, i - 1 \in P
      PROVE  i \in P
  <2>1. CASE fr[i].data = <<>> /\ NoData(fr, i - 1)
    <3>1. NoData(fr, i)
      BY <2>1 DEF NoData
    <3> QED BY <3>1
  <2>2. CASE fr[i].data = <<>> /\ \E d \in 1 .. i - 1 : LastData(fr, i - 1, d)
    <3>1. PICK d \in 1 .. i - 1 : LastData(fr, i - 1, d)
      BY <2>2
    <3>2. d \in 1 .. i /\ LastData(fr, i, d)
      BY <2>2, <3>1 DEF LastData
    <3> QED BY <3>2
  <2>3. CASE fr[i].data # <<>>
    <3>1. LastData(fr, i, i)
      BY <2>3 DEF LastData
    <3> QED BY <3>1
  <2> QED BY <1>2, <2>1, <2>2, <2>3
<1>3. p \in P
  <2>1. \A i \in 1 .. p : i - 1 \in P => i \in P
    BY <1>2
  <2> HIDE DEF P
  <2>2. \A i \in 0 .. p : i \in P
    BY <1>1, <2>1, Induction
  <2> QED BY <2>2
<1> QED BY <1>3

(* There is no other.                                                      *)
LEMMA LastUnique ==
  ASSUME NEW fr, NEW p \in Nat, NEW d, NEW e, LastData(fr, p, d), LastData(fr, p, e)
  PROVE  d = e
<1>1. d \in 1 .. p /\ e \in 1 .. p /\ fr[d].data # <<>> /\ fr[e].data # <<>>
  BY DEF LastData
<1>2. ~(e \in d + 1 .. p) /\ ~(d \in e + 1 .. p)
  BY <1>1 DEF LastData
<1> QED BY <1>1, <1>2

(* Ends do not go away.                                                    *)
LEMMA NoFinLess ==
  ASSUME NEW fr, NEW i \in Nat, NEW j \in Nat, NEW l \in Nat, j <= l
  PROVE  /\ NoFin(fr, i, l) => NoFin(fr, i, j)
         /\ \A h \in Nat : h <= i /\ i <= j /\ NoFin(fr, h, i) /\ NoFin(fr, i, j) => NoFin(fr, h, j)
BY DEF NoFin

(* The order of parts.                                                     *)
LEMMA PartOrder ==
  /\ \A u, v \in Units : AtMost(u, v) <=> Precedes(u, v) \/ u = v
  /\ \A u, v \in Units : Precedes(u, v) => ~AtMost(v, u) /\ u # v
  /\ \A u, v, w \in Units : AtMost(u, v) /\ Precedes(v, w) => Precedes(u, w)
  /\ \A u, v, w \in Units : Precedes(u, v) /\ AtMost(v, w) => Precedes(u, w)
  /\ \A u, v, w \in Units : AtMost(u, v) /\ AtMost(v, w) => AtMost(u, w)
  /\ \A u, v \in Units : Follows(u, v) => Precedes(u, v)
<1>1. \A u \in Units : u[1] \in Nat /\ u[2] \in Nat /\ u = <<u[1], u[2]>>
  BY UnitIs
<1>2. \A u, v \in Units : AtMost(u, v) <=> Precedes(u, v) \/ u = v
  <2>1. \A u, v \in Units : u[1] = v[1] /\ u[2] = v[2] => u = v
    BY <1>1
  <2> QED BY <1>1, <2>1 DEF AtMost, Precedes
<1>3. \A u, v \in Units : Precedes(u, v) => ~AtMost(v, u) /\ u # v
  BY <1>1 DEF AtMost, Precedes
<1>4. \A u, v, w \in Units : AtMost(u, v) /\ Precedes(v, w) => Precedes(u, w)
  BY <1>1 DEF AtMost, Precedes
<1>5. \A u, v, w \in Units : Precedes(u, v) /\ AtMost(v, w) => Precedes(u, w)
  BY <1>1 DEF AtMost, Precedes
<1>6. \A u, v, w \in Units : AtMost(u, v) /\ AtMost(v, w) => AtMost(u, w)
  BY <1>1 DEF AtMost
<1>7. ASSUME NEW u \in Units, NEW v \in Units, Follows(u, v)
      PROVE  Precedes(u, v)
  <2>1. CASE IsEnd(u)
    BY <1>7, <2>1 DEF Follows, Precedes
  <2>2. CASE ~IsEnd(u)
    <3>1. v = <<u[1], u[2] + 1>>
      BY <1>7, <2>2 DEF Follows
    <3>2. v[1] = u[1] /\ v[2] = u[2] + 1
      BY <3>1
    <3> QED BY <1>1, <3>2 DEF Precedes
  <2> QED BY <2>1, <2>2
<1> QED BY <1>2, <1>3, <1>4, <1>5, <1>6, <1>7

(* The parts in a segment rise.                                            *)
LEMMA RunRises ==
  ASSUME NEW data, NEW in, PartsRun(data, in)
  PROVE  /\ \A i, j \in DOMAIN data : i < j => Precedes(data[i], data[j])
         /\ IsInjective(data)
         /\ \A u \in Range(data) : u \in Units /\ AtMost(data[1], u) /\ AtMost(u, data[Len(data)])
<1>1. PICK l \in Nat : l = Len(data) /\ l # 0 /\ DOMAIN data = 1 .. l /\ \A i \in 1 .. l : data[i] \in Units
  <2>1. data \in Seq(Units) /\ data # <<>>
    BY DEF PartsRun
  <2> QED BY <2>1
<1> DEFINE P == {j \in 0 .. l : \A i \in 1 .. l : i < j => Precedes(data[i], data[j])}
<1>2. 0 \in P
  BY <1>1
<1>3. ASSUME NEW j \in 1 .. l, j - 1 \in P
      PROVE  j \in P
  <2>1. ASSUME NEW i \in 1 .. l, i < j
        PROVE  Precedes(data[i], data[j])
    <3>1. j \in 2 .. l /\ j - 1 \in 1 .. l
      BY <1>1, <2>1
    <3>2. Follows(data[j - 1], data[j]) /\ data[j - 1] \in Units /\ data[j] \in Units /\ data[i] \in Units
      BY <1>1, <3>1 DEF PartsRun
    <3>3. Precedes(data[j - 1], data[j])
      BY <3>2, PartOrder
    <3>4. CASE i = j - 1
      BY <3>3, <3>4
    <3>5. CASE i # j - 1
      <4>1. i < j - 1
        BY <1>1, <2>1, <3>5
      <4>2. Precedes(data[i], data[j - 1])
        BY <1>3, <2>1, <4>1
      <4>3. AtMost(data[i], data[j - 1])
        BY <3>2, <4>2, PartOrder
      <4> QED BY <3>2, <3>3, <4>3, PartOrder
    <3> QED BY <3>4, <3>5
  <2> QED BY <1>1, <2>1
<1>4. \A i, j \in 1 .. l : i < j => Precedes(data[i], data[j])
  <2>1. \A j \in 1 .. l : j - 1 \in P => j \in P
    BY <1>3
  <2>2. \A j \in 0 .. l : j \in P
    <3> HIDE DEF P
    <3> QED BY <1>2, <2>1, Induction
  <2> QED BY <1>1, <2>2
<1>5. IsInjective(data)
  <2>1. \A i, j \in 1 .. l : data[i] = data[j] => ~(i < j) /\ ~(j < i)
    BY <1>1, <1>4, PartOrder
  <2>2. \A i, j \in 1 .. l : data[i] = data[j] => i = j
    BY <1>1, <2>1
  <2> QED BY <1>1, <2>2 DEF IsInjective
<1>6. ASSUME NEW u \in Range(data)
      PROVE  u \in Units /\ AtMost(data[1], u) /\ AtMost(u, data[l])
  <2>1. PICK i \in 1 .. l : u = data[i]
    BY <1>1, <1>6 DEF Range
  <2>2. 1 \in 1 .. l /\ l \in 1 .. l
    BY <1>1
  <2>3. data[1] \in Units /\ data[l] \in Units /\ u \in Units
    BY <1>1, <2>1, <2>2
  <2>4. AtMost(data[1], u)
    <3>1. i = 1 \/ 1 < i
      BY <1>1, <2>1
    <3>2. i = 1 \/ Precedes(data[1], u)
      BY <1>4, <2>1, <2>2, <3>1
    <3> QED BY <2>1, <2>3, <3>2, PartOrder
  <2>5. AtMost(u, data[l])
    <3>1. i = l \/ i < l
      BY <1>1, <2>1
    <3>2. i = l \/ Precedes(u, data[l])
      BY <1>4, <2>1, <2>2, <3>1
    <3> QED BY <2>1, <2>3, <3>2, PartOrder
  <2> QED BY <2>3, <2>4, <2>5
<1> QED BY <1>1, <1>4, <1>5, <1>6

(* A frame without data leaves the last data where they were.              *)
LEMMA QuietFrame ==
  ASSUME NEW fr, NEW p \in Nat, fr[p + 1].data = <<>>
  PROVE  /\ \A d : LastData(fr, p + 1, d) <=> LastData(fr, p, d)
         /\ Captured(fr, p + 1) = Captured(fr, p)
         /\ NoData(fr, p + 1) <=> NoData(fr, p)
         /\ \A n : Bounded(fr, p + 1, n) <=> Bounded(fr, p, n)
         /\ InSequence(fr, p + 1) <=> InSequence(fr, p)
<1>1. 1 .. p + 1 = (1 .. p) \cup {p + 1}
  OBVIOUS
<1>2. \A d : LastData(fr, p + 1, d) <=> LastData(fr, p, d)
  <2>1. ASSUME NEW d, LastData(fr, p, d)
        PROVE  LastData(fr, p + 1, d)
    <3>1. d \in 1 .. p
      BY <2>1 DEF LastData
    <3>2. \A h \in d + 1 .. p + 1 : h \in d + 1 .. p \/ h = p + 1
      BY <3>1
    <3> QED BY <2>1, <3>1, <3>2 DEF LastData
  <2>2. ASSUME NEW d, LastData(fr, p + 1, d)
        PROVE  LastData(fr, p, d)
    <3>1. d \in 1 .. p + 1 /\ d # p + 1
      BY <2>2 DEF LastData
    <3>2. d \in 1 .. p /\ \A h \in d + 1 .. p : h \in d + 1 .. p + 1
      BY <3>1
    <3> QED BY <2>2, <3>2 DEF LastData
  <2> QED BY <2>1, <2>2
<1>3. Captured(fr, p + 1) = Captured(fr, p)
  <2>1. Range(fr[p + 1].data) = {}
    BY DEF Range
  <2>2. Captured(fr, p + 1) = Captured(fr, p) \cup Range(fr[p + 1].data)
    BY <1>1 DEF Captured
  <2> QED BY <2>1, <2>2
<1>4. NoData(fr, p + 1) <=> NoData(fr, p)
  BY <1>1 DEF NoData
<1>5. \A d : LastData(fr, p, d) => d \in 1 .. p /\ d \in 1 .. p + 1
  BY DEF LastData
<1>6. \A n : Bounded(fr, p + 1, n) <=> Bounded(fr, p, n)
  BY <1>2, <1>4, <1>5 DEF Bounded
<1>7. InSequence(fr, p + 1) <=> InSequence(fr, p)
  BY <1>2, <1>3, <1>5 DEF InSequence
<1> QED BY <1>2, <1>3, <1>4, <1>6, <1>7

(* A frame with data has the last of them.                                 *)
LEMMA DataFrame ==
  ASSUME NEW fr, NEW p \in Nat, fr[p + 1].data # <<>>
  PROVE  /\ \A d : LastData(fr, p + 1, d) <=> d = p + 1
         /\ Captured(fr, p + 1) = Captured(fr, p) \cup Range(fr[p + 1].data)
         /\ ~NoData(fr, p + 1)
<1>1. 1 .. p + 1 = (1 .. p) \cup {p + 1}
  OBVIOUS
<1>2. LastData(fr, p + 1, p + 1)
  BY DEF LastData
<1>3. \A d : LastData(fr, p + 1, d) => d = p + 1
  <2>1. p + 1 \in Nat
    OBVIOUS
  <2> QED BY <1>2, <2>1, LastUnique
<1>4. Captured(fr, p + 1) = Captured(fr, p) \cup Range(fr[p + 1].data)
  BY <1>1 DEF Captured
<1>5. ~NoData(fr, p + 1)
  BY <1>1 DEF NoData
<1> QED BY <1>2, <1>3, <1>4, <1>5

(* The data of the next frame are the last ones again, or the next ones.   *)
Repeats(fr, p, k, look, s) ==
  /\ k \in DOMAIN look
  /\ \E d \in 1 .. p : Within(fr, p, d, s) /\ Again(fr, d, p + 1)
Continues(fr, p, m) ==
  \E d \in 1 .. p : /\ LastData(fr, p, d) /\ LastUnit(fr, d)[1] = m /\ ~IsEnd(LastUnit(fr, d))
                    /\ NoFin(fr, d, p)
Comes(fr, p, s, f, v) ==
  /\ SeqIsNew(s, f.tcp.th_seq)
  /\ \A u \in Captured(fr, p) : Precedes(u, v) /\ (u[1] = v[1] => Continues(fr, p, v[1]))
  /\ \A n : Bounded(fr, p, n) => n <= v[1]
  /\ Ready(s, v, ToServer(f)) \/ (s.open = NoPacket /\ ToServer(f))

(* What was captured is parts of messages.                                 *)
LEMMA CapturedUnits ==
  ASSUME NEW fr, NEW k, OwnFrames(fr, k), NEW p \in 0 .. Len(fr)
  PROVE  Captured(fr, p) \subseteq Units
<1>1. ASSUME NEW u \in Captured(fr, p)
      PROVE  u \in Units
  <2>1. PICK i \in 1 .. p : u \in Range(fr[i].data)
    BY <1>1 DEF Captured
  <2>2. Len(fr) \in Nat /\ DOMAIN fr = 1 .. Len(fr)
    BY LenProperties DEF OwnFrames
  <2>3. i \in DOMAIN fr
    BY <2>2
  <2>4. PICK data \in Seq(Units) : data = fr[i].data
    BY <2>3, OwnFrame
  <2> QED BY <2>1, <2>4 DEF Range
<1> QED BY <1>1

(* A stream is there when data come after others without an end between.   *)
LEMMA StreamThere ==
  ASSUME NEW fr, NEW k, OwnFrames(fr, k), NEW p \in 0 .. Len(fr), NEW look, StreamTidy(fr, p, k, look),
         NEW i \in 1 .. p, fr[i].data # <<>>, NoFin(fr, i, p)
  PROVE  k \in DOMAIN look
<1>1. Len(fr) \in Nat /\ DOMAIN fr = 1 .. Len(fr)
  BY LenProperties DEF OwnFrames
<1>2. i \in DOMAIN fr
  BY <1>1
<1>3. PICK h \in 1 .. i : Starts(fr[h]) /\ NoFin(fr, h, i)
  BY <1>2 DEF OwnFrames, InOrder
<1>4. h \in 1 .. p /\ h <= i /\ i <= p /\ h \in Nat /\ i \in Nat /\ p \in Nat /\ p <= p
  BY <1>1
<1>5. NoFin(fr, h, p)
  BY <1>3, <1>4, NoFinLess
<1> QED BY <1>3, <1>4, <1>5 DEF StreamTidy

(* A frame with data either repeats the last data or goes on after them.   *)
LEMMA NextIs ==
  ASSUME NEW fr, NEW k, OwnFrames(fr, k), NEW p \in 0 .. Len(fr), p < Len(fr),
         NEW look, StreamTidy(fr, p, k, look), InSequence(fr, p),
         NEW f, f = fr[p + 1], f.data # <<>>, NEW v, v = f.data[1],
         NEW s, IF k \in DOMAIN look THEN s = look[k] ELSE Fresh(s)
  PROVE  Repeats(fr, p, k, look, s) \/ Comes(fr, p, s, f, v)
<1>1. Len(fr) \in Nat /\ p \in Nat /\ DOMAIN fr = 1 .. Len(fr) /\ p + 1 \in DOMAIN fr
      /\ \A i \in 1 .. p : i \in DOMAIN fr /\ i < p + 1
  <2>1. Len(fr) \in Nat /\ DOMAIN fr = 1 .. Len(fr)
    BY LenProperties DEF OwnFrames
  <2> QED BY <2>1
<1>2. v \in Units /\ v[1] \in Nat /\ SentBy(v, ToServer(f)) /\ f.tcp.th_flags # "FIN"
  BY <1>1, OwnFrame, UnitIs
<1>3. Captured(fr, p) \subseteq Units
  BY CapturedUnits
<1>4. InOrder(fr)
  BY DEF OwnFrames
<1>5. Fresh(s) /\ v[2] = 1 => Ready(s, v, ToServer(f)) /\ SeqIsNew(s, f.tcp.th_seq)
  BY DEF Fresh, Ready, SeqIsNew
<1>6. CASE NoData(fr, p)
  <2>1. v[2] = 1
    <3>1. \A h \in 1 .. (p + 1) - 1 : fr[h].data = <<>>
      BY <1>1, <1>6 DEF NoData
    <3>2. FirstData(fr, p + 1)
      BY <3>1 DEF FirstData
    <3> QED BY <1>1, <1>4, <3>2 DEF InOrder
  <2>2. Fresh(s)
    BY <1>6 DEF StreamTidy, Within, LastData, NoData
  <2>3. Captured(fr, p) = {}
    <3>1. \A i \in 1 .. p : Range(fr[i].data) = {}
      BY <1>6 DEF NoData, Range
    <3> QED BY <3>1 DEF Captured
  <2>4. \A n : Bounded(fr, p, n) => n <= v[1]
    BY <1>2, <1>6 DEF Bounded
  <2> QED BY <1>5, <2>1, <2>2, <2>3, <2>4 DEF Comes
<1>7. ASSUME NEW d \in 1 .. p, LastData(fr, p, d)
      PROVE  Repeats(fr, p, k, look, s) \/ Comes(fr, p, s, f, v)
  <2>1. d \in DOMAIN fr /\ d \in Nat /\ fr[d].data # <<>>
    BY <1>1, <1>7 DEF LastData
  <2>2. PICK u \in Units : u = LastUnit(fr, d) /\ SentBy(u, ToServer(fr[d]))
    BY <2>1, OwnFrame
  <2>3. Again(fr, d, p + 1) \/ Further(fr, d, p + 1)
    <3>1. \A h \in d + 1 .. (p + 1) - 1 : fr[h].data = <<>>
      BY <1>1, <1>7 DEF LastData
    <3>2. NextData(fr, d, p + 1)
      BY <1>1, <2>1, <3>1 DEF NextData
    <3> QED BY <1>1, <1>4, <2>1, <3>2 DEF InOrder
  <2>4. NoFin(fr, d, p + 1) => NoFin(fr, d, p)
    BY <1>1, <2>1 DEF NoFin
  <2>5. NoFin(fr, d, p) => k \in DOMAIN look /\ Within(fr, p, d, s)
    <3>1. ASSUME NoFin(fr, d, p)
          PROVE  k \in DOMAIN look /\ Within(fr, p, d, s)
      <4>1. k \in DOMAIN look
        BY <2>1, <3>1, StreamThere
      <4>2. PICK e \in 1 .. p : Within(fr, p, e, s)
        BY <1>7, <3>1, <4>1 DEF StreamTidy, EndedSince
      <4>3. e = d
        BY <1>1, <1>7, <4>2, LastUnique DEF Within
      <4> QED BY <4>1, <4>2, <4>3
    <3> QED BY <3>1
  <2>6. CASE Again(fr, d, p + 1)
    <3>1. NoFin(fr, d, p)
      BY <2>4, <2>6 DEF Again
    <3> QED BY <2>5, <2>6, <3>1 DEF Repeats
  <2>7. CASE Further(fr, d, p + 1)
    <3>1. /\ f.tcp.th_seq # fr[d].tcp.th_seq /\ Follows(u, v)
          /\ NoFin(fr, d, p) \/ IsEnd(u)
      BY <2>2, <2>4, <2>7 DEF Further, LastUnit
    <3>2. ASSUME NEW x \in Captured(fr, p)
          PROVE  Precedes(x, v) /\ (x[1] = v[1] => Continues(fr, p, v[1]))
      <4>1. x \in Units /\ AtMost(x, u)
        BY <1>3, <1>7, <2>2 DEF InSequence
      <4>2. Precedes(u, v)
        BY <1>2, <3>1, PartOrder
      <4>3. Precedes(x, v)
        BY <1>2, <4>1, <4>2, PartOrder
      <4>4. ASSUME x[1] = v[1]
            PROVE  Continues(fr, p, v[1])
        <5>1. u[1] \in Nat /\ x[1] \in Nat /\ u[1] <= v[1] /\ x[1] <= u[1]
          BY <1>2, <4>1, <4>2, UnitIs DEF AtMost, Precedes
        <5>2. u[1] = v[1]
          BY <1>2, <4>4, <5>1
        <5>3. ~IsEnd(u)
          BY <1>2, <3>1, <5>2 DEF Follows
        <5> QED BY <1>7, <2>2, <3>1, <5>2, <5>3 DEF Continues
      <4> QED BY <4>3, <4>4
    <3>3. ASSUME NEW n, Bounded(fr, p, n)
          PROVE  n <= v[1]
      <4>1. n <= Below(u) /\ n \in Nat
        BY <1>7, <2>2, <3>3 DEF Bounded
      <4>2. Below(u) \in Nat /\ Below(u) <= v[1]
        BY <1>2, <3>1, BelowIs
      <4> QED BY <1>2, <4>1, <4>2
    <3>4. SeqIsNew(s, f.tcp.th_seq) /\ (Ready(s, v, ToServer(f)) \/ (s.open = NoPacket /\ ToServer(f)))
      <4>1. CASE NoFin(fr, d, p)
        <5>1. s.last_tcp_seq = fr[d].tcp.th_seq /\ OpenIs(s, u, ToServer(fr[d]))
          BY <2>2, <2>5, <4>1 DEF Within
        <5>2. SeqIsNew(s, f.tcp.th_seq)
          BY <3>1, <5>1 DEF SeqIsNew
        <5>3. CASE IsEnd(u)
          BY <3>1, <5>1, <5>2, <5>3 DEF OpenIs, Follows, Ready
        <5>4. CASE ~IsEnd(u)
          <6>1. v = <<u[1], u[2] + 1>>
            BY <3>1, <5>4 DEF Follows
          <6>2. v[1] = u[1]
            BY <6>1
          <6>3. ToServer(f) <=> ToServer(fr[d])
            BY <1>2, <2>2, <6>2 DEF SentBy, Kind
          <6>4. ToServer(f) \in BOOLEAN /\ ToServer(fr[d]) \in BOOLEAN
            BY DEF ToServer
          <6>5. CASE s.open = NoPacket
            BY <5>1, <5>2, <5>4, <6>3, <6>5 DEF OpenIs
          <6>6. CASE s.open # NoPacket
            <7>1. s.open = Partial(u, ToServer(f))
              <8>1. ToServer(f) = ToServer(fr[d])
                BY <6>3, <6>4
              <8> QED BY <5>1, <6>6, <8>1 DEF OpenIs
            <7> QED BY <5>2, <5>4, <6>1, <7>1 DEF Ready
          <6> QED BY <6>5, <6>6
        <5> QED BY <5>3, <5>4
      <4>2. CASE ~NoFin(fr, d, p)
        <5>1. Fresh(s)
          <6>1. ASSUME NEW e \in 1 .. p, Within(fr, p, e, s)
                PROVE  FALSE
            <7>1. e = d
              BY <1>1, <1>7, <6>1, LastUnique DEF Within
            <7> QED BY <4>2, <6>1, <7>1 DEF Within
          <6> QED BY <6>1 DEF StreamTidy
        <5>2. v[2] = 1
          BY <3>1, <4>2 DEF Follows
        <5> QED BY <1>5, <5>1, <5>2
      <4> QED BY <4>1, <4>2
    <3> QED BY <3>2, <3>3, <3>4 DEF Comes
  <2> QED BY <2>3, <2>6, <2>7
<1> QED BY <1>1, <1>6, <1>7, LastExists

(***************************************************************************)
(* What holds for a tidy conversation when p of its frames were read: look *)
(* are the streams, app what was appended for k, recs the file, and all    *)
(* says that nothing was kept out of it.                                   *)
(***************************************************************************)
AppendedTidy(fr, p, app) ==
  /\ InSequence(fr, p)
  /\ app \in Seq(Units) /\ IsInjective(app) /\ Range(app) \subseteq Captured(fr, p)
Begun(fr, p, m) ==
  /\ Messages[m].kind = "Query"
  /\ \E i \in 1 .. p : fr[i].data # <<>> /\ fr[i].data[1] = <<m, 1>>
QueriesTidy(fr, p, k, look, app) ==
  \A m \in DOMAIN Messages : Begun(fr, p, m) =>
    /\ \A u \in Captured(fr, p) : u[1] = m => u \in Range(app)
    /\ Continues(fr, p, m) => k \in DOMAIN look /\ look[k].open # NoPacket
AllRecorded(recs, k, app) ==
  \A m \in DOMAIN Messages :
    Messages[m].kind = "Query" /\ <<m, Messages[m].units>> \in Range(app) => RecordedIn(recs, k, m)
RecordsTidy(fr, p, k, look, app, recs, all) ==
  \E n \in Nat :
    /\ Bounded(fr, p, n) /\ Sound(recs, k, n)
    /\ all => AllRecorded(recs, k, app) /\ (k \in DOMAIN look => Pending(recs, k, look[k], n))
OwnTidy(fr, p, k, look, app, recs, all) ==
  /\ StreamTidy(fr, p, k, look) /\ AppendedTidy(fr, p, app) /\ QueriesTidy(fr, p, k, look, app)
  /\ RecordsTidy(fr, p, k, look, app, recs, all)

(* Writing, if the program records, while there is room.                   *)
Grown(recs, out, recs2, record) ==
  \/ ~record /\ recs2 = recs
  \/ record /\ recs2 = recs \o out
  \/ record /\ \E m \in Int : m < Len(out) /\ recs2 = Append(recs \o SubSeq(out, 1, m), Torn)

(* What is written is right as far as it is written.                       *)
StaysSound(recs, out, recs2, record, k, n, n2) ==
  /\ Sound(recs2, k, IF record THEN n2 ELSE n)
  /\ record /\ Torn \notin Range(recs2) => recs2 = recs \o out

(* However much of the new records a full disk lets through, the file      *)
(* stays right.                                                            *)
LEMMA GrownSound ==
  ASSUME NEW recs \in Seq(RecordType), NEW out \in Seq(RecordType), NEW k, k # <<>>,
         NEW record, NEW recs2, Grown(recs, out, recs2, record),
         NEW n \in Nat, NEW n2 \in Nat, Sound(recs, k, n), record => Sound(recs \o out, k, n2)
  PROVE  StaysSound(recs, out, recs2, record, k, n, n2)
<1>1. CASE record /\ \E m \in Int : m < Len(out) /\ recs2 = Append(recs \o SubSeq(out, 1, m), Torn)
  <2>1. PICK m \in Int : m < Len(out) /\ recs2 = Append(recs \o SubSeq(out, 1, m), Torn)
    BY <1>1
  <2>2. PICK part \in Seq(RecordType) : /\ part = SubSeq(out, 1, m) /\ Len(part) <= Len(out)
                                        /\ \A i \in 1 .. Len(part) : part[i] = out[i]
    <3>1. \A i \in 1 .. m : i \in 1 .. Len(out) /\ out[i] \in RecordType
      <4>1. Len(out) \in Nat
        BY LenProperties
      <4> QED BY <2>1, <4>1
    <3>2. SubSeq(out, 1, m) \in Seq(RecordType)
      BY <3>1, SubSeqProperties
    <3>3. /\ Len(SubSeq(out, 1, m)) = (IF 1 <= m THEN m ELSE 0)
          /\ \A i \in 1 .. m : SubSeq(out, 1, m)[i] = out[i]
      BY <2>1, <3>1, SubSeqProperties
    <3>4. Len(out) \in Nat
      BY LenProperties
    <3>5. PICK e \in Seq(RecordType) : e = SubSeq(out, 1, m)
      BY <3>2
    <3>6. Len(e) = (IF 1 <= m THEN m ELSE 0) /\ \A i \in 1 .. m : e[i] = out[i]
      BY <3>3, <3>5
    <3>7. Len(e) <= Len(out) /\ \A i \in 1 .. Len(e) : i \in 1 .. m
      BY <2>1, <3>4, <3>6
    <3> QED BY <3>5, <3>6, <3>7
  <2>3. PICK most, big : most = recs \o part /\ big = recs \o out
    OBVIOUS
  <2>4. most \in Seq(RecordType) /\ big \in Seq(RecordType)
    BY <2>3, ConcatProperties
  <2>5. Prefix(most, big)
    <3>1. PICK a \in Nat, b \in Nat, l \in Nat : a = Len(recs) /\ b = Len(part) /\ l = Len(out) /\ b <= l
      BY <2>2, LenProperties
    <3>2. Len(most) = a + b /\ \A i \in 1 .. a + b : most[i] = IF i <= a THEN recs[i] ELSE part[i - a]
      BY <2>3, <3>1, ConcatProperties
    <3>3. Len(big) = a + l /\ \A i \in 1 .. a + l : big[i] = IF i <= a THEN recs[i] ELSE out[i - a]
      BY <2>3, <3>1, ConcatProperties
    <3>4. DOMAIN most = 1 .. a + b /\ DOMAIN big = 1 .. a + l
      BY <2>4, <3>2, <3>3, LenProperties
    <3>5. ASSUME NEW i \in 1 .. a + b
          PROVE  big[i] = most[i]
      <4>1. i \in 1 .. a + l /\ (i <= a \/ i - a \in 1 .. b)
        BY <3>1
      <4> QED BY <2>2, <3>1, <3>2, <3>3, <4>1
    <3>6. a + b <= a + l /\ a + b \in Nat /\ a + l \in Nat
      BY <3>1
    <3> QED BY <3>2, <3>3, <3>4, <3>5, <3>6 DEF Prefix
  <2>6. Sound(most, k, n2)
    BY <1>1, <2>3, <2>5, SoundPrefix
  <2>7. recs2 = most \o <<Torn>>
    <3>1. Torn \in RecordType
      BY DEF RecordType
    <3> QED BY <2>1, <2>2, <2>3, <2>4, <3>1, AppendIsConcat
  <2>8. <<Torn>> \in Seq(RecordType) /\ \A i \in DOMAIN <<Torn>> : <<Torn>>[i] = Torn
    BY DEF RecordType
  <2>9. Sound(recs2, k, n2)
    <3>1. Torn.of # k
      BY DEF Torn
    <3> QED BY <2>4, <2>6, <2>7, <2>8, <3>1, SoundOther
  <2>10. Torn \in Range(recs2)
    <3>1. Len(<<Torn>>) = 1 /\ 1 \in DOMAIN <<Torn>>
      OBVIOUS
    <3>2. Len(most) + 1 \in DOMAIN recs2 /\ recs2[Len(most) + 1] = Torn
      BY <2>4, <2>7, <2>8, <3>1, BehindFile
    <3> QED BY <3>2 DEF Range
  <2> QED BY <1>1, <2>9, <2>10 DEF StaysSound
<1>2. CASE record /\ recs2 = recs \o out
  BY <1>2 DEF StaysSound
<1>3. CASE ~record /\ recs2 = recs
  BY <1>3 DEF StaysSound
<1> QED BY <1>1, <1>2, <1>3 DEF Grown

(* A frame without data, of which the streams do not hear (A), that ends   *)
(* the stream (B) or finds or makes it (C).                                *)
Unheard(k, look, look2, f) == k \notin DOMAIN look /\ k \notin DOMAIN look2 /\ ~Starts(f)
Ended(k, look2, f) == k \notin DOMAIN look2 /\ f.tcp.th_flags = "FIN"
Found(k, look, look2, f) ==
  /\ k \in DOMAIN look2
  /\ IF k \in DOMAIN look THEN look2[k] = look[k] /\ f.tcp.th_flags # "FIN" ELSE Fresh(look2[k])
EndOf(r, k) == r.of = k /\ r.data = <<>>

(* A frame without data keeps the conversation tidy.                       *)
LEMMA OwnQuietStep ==
  ASSUME NEW fr, NEW k, OwnFrames(fr, k), k # <<>>, NEW p \in 0 .. Len(fr), p < Len(fr),
         NEW look, NEW app, NEW recs \in Seq(RecordType), NEW record \in BOOLEAN,
         OwnTidy(fr, p, k, look, app, recs, record),
         NEW f, f = fr[p + 1], f.data = <<>>, NEW look2, NEW recs2,
         \/ (Unheard(k, look, look2, f) \/ Found(k, look, look2, f)) /\ recs2 = recs
         \/ Ended(k, look2, f) /\ \E r \in RecordType : EndOf(r, k) /\ Grown(recs, <<r>>, recs2, record),
         NEW all, all => record /\ Torn \notin Range(recs2)
  PROVE  OwnTidy(fr, p + 1, k, look2, app, recs2, all)
<1>1. Len(fr) \in Nat /\ p \in Nat /\ p + 1 \in Nat /\ p <= p + 1 /\ p + 1 \in 1 .. p + 1
      /\ 1 .. p + 1 = (1 .. p) \cup {p + 1} /\ p + 1 \in 0 .. Len(fr)
  BY LenProperties DEF OwnFrames
<1>2. /\ \A d : LastData(fr, p + 1, d) <=> LastData(fr, p, d)
      /\ Captured(fr, p + 1) = Captured(fr, p)
      /\ \A n : Bounded(fr, p + 1, n) <=> Bounded(fr, p, n)
      /\ InSequence(fr, p + 1) <=> InSequence(fr, p)
  BY <1>1, QuietFrame
<1>3. \A h \in 1 .. p + 1 : NoFin(fr, h, p + 1) => f.tcp.th_flags # "FIN"
  BY <1>1 DEF NoFin
<1>4. \A h \in 1 .. p : NoFin(fr, h, p + 1) => NoFin(fr, h, p)
  BY <1>1, NoFinLess
<1>5. \A h \in 1 .. p : NoFin(fr, h, p) /\ f.tcp.th_flags # "FIN" => NoFin(fr, h, p + 1)
  BY <1>1 DEF NoFin
<1>6. Unheard(k, look, look2, f) \/ Found(k, look, look2, f) \/ Ended(k, look2, f)
  OBVIOUS
<1>7. k \notin DOMAIN look => EndedSince(fr, p)
  BY StreamThere DEF OwnTidy, EndedSince, LastData
<1>8. EndedSince(fr, p) => EndedSince(fr, p + 1)
  BY <1>2, <1>4 DEF EndedSince, LastData
<1>9. StreamTidy(fr, p + 1, k, look2)
  <2>1. StreamTidy(fr, p, k, look)
    BY DEF OwnTidy
  <2>2. CASE Unheard(k, look, look2, f)
    <3>1. ASSUME NEW h \in 1 .. p + 1, Starts(fr[h]), NoFin(fr, h, p + 1)
          PROVE  FALSE
      <4>1. h \in 1 .. p
        BY <1>1, <2>2, <3>1 DEF Unheard
      <4> QED BY <1>4, <2>1, <2>2, <3>1, <4>1 DEF StreamTidy, Unheard
    <3> QED BY <2>2, <3>1 DEF StreamTidy, Unheard
  <2>3. CASE Ended(k, look2, f)
    BY <1>3, <2>3 DEF StreamTidy, Ended
  <2>4. CASE Found(k, look, look2, f) /\ k \in DOMAIN look
    <3>1. k \in DOMAIN look2 /\ look2[k] = look[k] /\ f.tcp.th_flags # "FIN"
      BY <2>4 DEF Found
    <3>2. ASSUME NEW d \in 1 .. p, Within(fr, p, d, look[k])
          PROVE  d \in 1 .. p + 1 /\ Within(fr, p + 1, d, look2[k])
      BY <1>1, <1>2, <1>5, <3>1, <3>2 DEF Within
    <3> QED BY <1>8, <2>1, <2>4, <3>1, <3>2 DEF StreamTidy
  <2>5. CASE Found(k, look, look2, f) /\ k \notin DOMAIN look
    BY <1>7, <1>8, <2>5 DEF StreamTidy, Found
  <2> QED BY <1>6, <2>2, <2>3, <2>4, <2>5
<1>10. AppendedTidy(fr, p + 1, app)
  BY <1>2 DEF OwnTidy, AppendedTidy
<1>11. QueriesTidy(fr, p + 1, k, look2, app)
  <2>1. QueriesTidy(fr, p, k, look, app)
    BY DEF OwnTidy
  <2>2. \A m : Begun(fr, p + 1, m) <=> Begun(fr, p, m)
    BY <1>1 DEF Begun
  <2>3. ASSUME NEW m, Continues(fr, p + 1, m)
        PROVE  Continues(fr, p, m) /\ Found(k, look, look2, f) /\ k \in DOMAIN look
    <3>1. PICK d \in 1 .. p + 1 : /\ LastData(fr, p + 1, d) /\ LastUnit(fr, d)[1] = m
                                  /\ ~IsEnd(LastUnit(fr, d)) /\ NoFin(fr, d, p + 1)
      BY <2>3 DEF Continues
    <3>2. d \in 1 .. p /\ LastData(fr, p, d) /\ NoFin(fr, d, p)
      BY <1>2, <1>4, <3>1 DEF LastData
    <3>3. k \in DOMAIN look
      BY <1>7, <3>2 DEF EndedSince
    <3>4. f.tcp.th_flags # "FIN"
      BY <1>3, <3>1
    <3>5. Found(k, look, look2, f)
      BY <1>6, <3>3, <3>4 DEF Unheard, Ended
    <3> QED BY <3>1, <3>2, <3>3, <3>5 DEF Continues
  <2> QED BY <1>2, <2>1, <2>2, <2>3 DEF QueriesTidy, Found
<1>12. RecordsTidy(fr, p + 1, k, look2, app, recs2, all)
  <2>1. PICK n \in Nat :
          /\ Bounded(fr, p, n) /\ Sound(recs, k, n)
          /\ record => AllRecorded(recs, k, app) /\ (k \in DOMAIN look => Pending(recs, k, look[k], n))
    BY DEF OwnTidy, RecordsTidy
  <2>2. Bounded(fr, p + 1, n)
    BY <1>2, <2>1
  <2>3. CASE (Unheard(k, look, look2, f) \/ Found(k, look, look2, f)) /\ recs2 = recs
    <3>1. record /\ k \in DOMAIN look2 => Pending(recs, k, look2[k], n)
      <4>1. \A s : Fresh(s) => Pending(recs, k, s, n)
        BY DEF Fresh, Pending
      <4> QED BY <2>1, <2>3, <4>1 DEF Unheard, Found
    <3> QED BY <2>1, <2>2, <2>3, <3>1 DEF RecordsTidy
  <2>4. CASE Ended(k, look2, f) /\ \E r \in RecordType : EndOf(r, k) /\ Grown(recs, <<r>>, recs2, record)
    <3>1. PICK r \in RecordType : EndOf(r, k) /\ Grown(recs, <<r>>, recs2, record)
      BY <2>4
    <3>2. PICK out \in Seq(RecordType) : out = <<r>> /\ \A i \in DOMAIN out : out[i] = r
      <4>1. <<r>> \in Seq(RecordType) /\ \A i \in DOMAIN <<r>> : <<r>>[i] = r
        OBVIOUS
      <4> QED BY <4>1
    <3>3. MayFollow(recs, k, n, n, out)
      BY <3>1, <3>2 DEF MayFollow, EndOf, KindOf, IsQueryRecord
    <3>4. n <= n
      OBVIOUS
    <3>5. Sound(recs \o out, k, n)
      BY <2>1, <3>3, <3>4, SoundAppend
    <3>6. /\ Sound(recs2, k, n)
          /\ record /\ Torn \notin Range(recs2) => recs2 = recs \o out
      <4>1. Grown(recs, out, recs2, record)
        BY <3>1, <3>2
      <4>2. Sound(recs, k, n) /\ (record => Sound(recs \o out, k, n))
        BY <2>1, <3>5
      <4>3. StaysSound(recs, out, recs2, record, k, n, n)
        BY <4>1, <4>2, GrownSound
      <4> QED BY <4>3 DEF StaysSound
    <3>7. record /\ Torn \notin Range(recs2) => AllRecorded(recs2, k, app)
      BY <2>1, <3>6, RecordedStays DEF AllRecorded
    <3> QED BY <2>2, <2>4, <3>6, <3>7 DEF RecordsTidy, Ended
  <2> QED BY <2>3, <2>4
<1> QED BY <1>9, <1>10, <1>11, <1>12 DEF OwnTidy

(* A frame with data is the last with them now.                            *)
LastNow(fr, p, f, u, v) ==
  /\ v = f.data[1] /\ u = LastUnit(fr, p + 1) /\ u = f.data[Len(f.data)]
  /\ v \in Units /\ u \in Units /\ v \in Range(f.data) /\ u \in Range(f.data)
  /\ PartsRun(f.data, ToServer(f)) /\ f.tcp.th_seq \in Nat /\ NoFin(fr, p + 1, p + 1)
  /\ \A x \in Range(f.data) : x \in Units /\ AtMost(v, x) /\ AtMost(x, u)
  /\ v[1] \in Nat /\ Below(u) \in Nat /\ v[1] <= Below(u)
  /\ \A d : LastData(fr, p + 1, d) <=> d = p + 1
  /\ Captured(fr, p + 1) = Captured(fr, p) \cup Range(f.data)
  /\ ~NoData(fr, p + 1)
  /\ p \in Nat /\ p + 1 \in 1 .. p + 1 /\ 1 .. p + 1 = (1 .. p) \cup {p + 1}

(* Its parts are in order.                                                 *)
LEMMA LastNowIs ==
  ASSUME NEW fr, NEW k, OwnFrames(fr, k), NEW p \in 0 .. Len(fr), p < Len(fr),
         NEW f, f = fr[p + 1], f.data # <<>>
  PROVE  \E u, v : LastNow(fr, p, f, u, v)
<1>1. Len(fr) \in Nat /\ DOMAIN fr = 1 .. Len(fr) /\ p \in Nat
  BY LenProperties DEF OwnFrames
<1>2. p + 1 \in DOMAIN fr /\ p + 1 \in 1 .. p + 1 /\ 1 .. p + 1 = (1 .. p) \cup {p + 1}
  BY <1>1
<1>3. PICK u \in Units, v \in Units, data \in Seq(Units) :
        /\ u = LastUnit(fr, p + 1) /\ v = f.data[1] /\ data = f.data /\ u = data[Len(data)]
        /\ 1 \in DOMAIN data
  BY <1>2, OwnFrame
<1>4. PartsRun(data, ToServer(f)) /\ f.tcp.th_flags # "FIN"
  BY <1>2, <1>3, OwnFrame
<1>5. Len(data) \in DOMAIN data
  BY <1>3
<1>6. u \in Range(data) /\ v \in Range(data)
  BY <1>3, <1>5 DEF Range
<1>7. \A x \in Range(data) : x \in Units /\ AtMost(v, x) /\ AtMost(x, u)
  BY <1>3, <1>4, RunRises
<1>8. v[1] \in Nat /\ Below(u) \in Nat /\ v[1] <= Below(u)
  <2>1. u[1] \in Nat /\ v[1] \in Nat /\ u[1] + 1 \in Nat
    BY <1>3, UnitIs
  <2>2. v[1] <= u[1]
    BY <1>6, <1>7, <2>1 DEF AtMost
  <2> QED BY <2>1, <2>2 DEF Below
<1>9. f.tcp.th_seq \in Nat
  BY <1>2 DEF OwnFrames, WholeFrame
<1>10. NoFin(fr, p + 1, p + 1)
  BY <1>1, <1>4 DEF NoFin
<1>11. /\ \A d : LastData(fr, p + 1, d) <=> d = p + 1
       /\ Captured(fr, p + 1) = Captured(fr, p) \cup Range(f.data)
       /\ ~NoData(fr, p + 1)
  BY <1>1, DataFrame
<1>12. LastNow(fr, p, f, u, v)
  BY <1>1, <1>2, <1>3, <1>4, <1>6, <1>7, <1>8, <1>9, <1>10, <1>11 DEF LastNow
<1> QED BY <1>12

(* The stream a frame finds or makes, what it then remembers, and whether  *)
(* the frame's data go on.                                                 *)
StreamOf(k, look, s) == IF k \in DOMAIN look THEN s = look[k] ELSE Fresh(s)
SeenBy(f, s, seen) ==
  /\ seen.last_tcp_seq = f.tcp.th_seq
  /\ seen.open = s.open /\ seen.query = s.query /\ seen.more = s.more
Lets(f, s) ==
  SeqIsNew(s, f.tcp.th_seq) /\ (ToServer(f) /\ s.open = NoPacket => could_be_query(f.data))

(* Data that were captured again are dropped, and nothing is new.          *)
LEMMA OwnRepeatStep ==
  ASSUME NEW fr, NEW k, OwnFrames(fr, k), NEW p \in 0 .. Len(fr), p < Len(fr),
         NEW look, NEW app, NEW recs, NEW record, OwnTidy(fr, p, k, look, app, recs, record),
         NEW f, f = fr[p + 1], f.data # <<>>, NEW u, NEW v, LastNow(fr, p, f, u, v),
         NEW s, s = look[k], Repeats(fr, p, k, look, s),
         NEW look2, k \in DOMAIN look2, SeenBy(f, s, look2[k]),
         NEW all, all => record
  PROVE  OwnTidy(fr, p + 1, k, look2, app, recs, all)
<1>1. PICK d \in 1 .. p : Within(fr, p, d, s) /\ Again(fr, d, p + 1) /\ k \in DOMAIN look
  BY DEF Repeats
<1>2. fr[d].data = f.data /\ fr[d].tcp.th_seq = f.tcp.th_seq /\ LastUnit(fr, d) = u
      /\ LastData(fr, p, d) /\ fr[d].data # <<>> /\ NoFin(fr, d, p)
  BY <1>1 DEF Again, Within, LastUnit, LastData, LastNow
<1>3. Captured(fr, p + 1) = Captured(fr, p)
  <2>1. Range(f.data) \subseteq Captured(fr, p)
    BY <1>2 DEF Captured
  <2> QED BY <2>1 DEF LastNow
<1>4. ToServer(fr[d]) = ToServer(f)
  <2>1. p \in Nat /\ Len(fr) \in Nat
    BY LenProperties DEF OwnFrames, LastNow
  <2>2. d \in DOMAIN fr /\ p + 1 \in DOMAIN fr
    <3>1. DOMAIN fr = 1 .. Len(fr)
      BY LenProperties DEF OwnFrames
    <3> QED BY <2>1, <3>1
  <2>3. SentBy(v, ToServer(fr[d])) /\ SentBy(v, ToServer(f))
    BY <1>2, <2>2, OwnFrame DEF LastNow
  <2>4. ToServer(f) \in BOOLEAN /\ ToServer(fr[d]) \in BOOLEAN
    BY DEF ToServer
  <2>5. ToServer(f) <=> ToServer(fr[d])
    BY <2>3 DEF SentBy
  <2> QED BY <2>4, <2>5
<1>5. \A e \in 1 .. p : LastData(fr, p, e) => e = d
  BY <1>2, LastUnique DEF LastNow
<1>6. StreamTidy(fr, p + 1, k, look2)
  <2>1. OpenIs(look2[k], u, ToServer(f))
    BY <1>1, <1>2, <1>4 DEF Within, OpenIs, SeenBy
  <2>2. Within(fr, p + 1, p + 1, look2[k])
    BY <2>1 DEF Within, LastNow, SeenBy
  <2>3. p + 1 \in 1 .. p + 1
    BY DEF LastNow
  <2> QED BY <2>2, <2>3 DEF StreamTidy
<1>7. AppendedTidy(fr, p + 1, app)
  <2>1. InSequence(fr, p + 1)
    <3>1. \A x \in Captured(fr, p) : AtMost(x, u)
      BY <1>2 DEF OwnTidy, AppendedTidy, InSequence
    <3> QED BY <1>3, <3>1 DEF InSequence, LastNow
  <2> QED BY <1>3, <2>1 DEF OwnTidy, AppendedTidy
<1>8. QueriesTidy(fr, p + 1, k, look2, app)
  <2>1. QueriesTidy(fr, p, k, look, app)
    BY DEF OwnTidy
  <2>2. ASSUME NEW m, Begun(fr, p + 1, m)
        PROVE  Begun(fr, p, m)
    <3>1. PICK i \in 1 .. p + 1 : fr[i].data # <<>> /\ fr[i].data[1] = <<m, 1>>
      BY <2>2 DEF Begun
    <3>2. i \in 1 .. p \/ fr[d].data[1] = <<m, 1>>
      BY <1>2, <3>1 DEF LastNow
    <3> QED BY <1>2, <2>2, <3>1, <3>2 DEF Begun
  <2>3. \A m : Continues(fr, p + 1, m) => Continues(fr, p, m)
    BY <1>2 DEF Continues, LastNow
  <2>4. look2[k].open = look[k].open
    BY DEF SeenBy
  <2> QED BY <1>3, <2>1, <2>2, <2>3, <2>4 DEF QueriesTidy
<1>9. RecordsTidy(fr, p + 1, k, look2, app, recs, all)
  <2>1. PICK n \in Nat :
          /\ Bounded(fr, p, n) /\ Sound(recs, k, n)
          /\ record => AllRecorded(recs, k, app) /\ (k \in DOMAIN look => Pending(recs, k, look[k], n))
    BY DEF OwnTidy, RecordsTidy
  <2>2. Bounded(fr, p + 1, n)
    <3>1. n <= Below(u)
      BY <1>2, <2>1 DEF Bounded
    <3> QED BY <3>1 DEF Bounded, LastNow
  <2>3. record => Pending(recs, k, look2[k], n)
    BY <1>1, <2>1 DEF Pending, SeenBy
  <2> QED BY <2>1, <2>2, <2>3 DEF RecordsTidy
<1> QED BY <1>6, <1>7, <1>8, <1>9 DEF OwnTidy

(* What comes next in the conversation: the order of all that was captured *)
(* and the number of a message it may belong to.                           *)
LEMMA ComesAfter ==
  ASSUME NEW fr, NEW k, OwnFrames(fr, k), NEW p \in 0 .. Len(fr),
         NEW f, NEW u, NEW v, LastNow(fr, p, f, u, v), NEW s, Comes(fr, p, s, f, v)
  PROVE  /\ \A x \in Captured(fr, p) : x \in Units /\ Precedes(x, v) /\ AtMost(x, u)
         /\ InSequence(fr, p + 1)
         /\ \A n \in Nat : Bounded(fr, p, n) => n <= v[1] /\ Bounded(fr, p + 1, n)
         /\ Bounded(fr, p + 1, Below(u))
         /\ \A m, x : m \in Nat /\ <<m, 1>> \in Captured(fr, p) /\ x \in Range(f.data) /\ x[1] = m
              => Continues(fr, p, m)
<1>1. ASSUME NEW x \in Captured(fr, p)
      PROVE  x \in Units /\ Precedes(x, v) /\ AtMost(x, u)
  <2>1. x \in Units /\ Precedes(x, v)
    BY CapturedUnits DEF Comes
  <2>2. AtMost(v, u)
    BY DEF LastNow
  <2>3. Precedes(x, u)
    BY <2>1, <2>2, PartOrder DEF LastNow
  <2> QED BY <2>1, <2>3, PartOrder DEF LastNow
<1>2. InSequence(fr, p + 1)
  BY <1>1 DEF InSequence, LastNow
<1>3. ASSUME NEW n \in Nat, Bounded(fr, p, n)
      PROVE  n <= v[1] /\ Bounded(fr, p + 1, n)
  <2>1. n <= v[1]
    BY <1>3 DEF Comes
  <2>2. n <= Below(u)
    BY <2>1 DEF LastNow
  <2> QED BY <2>1, <2>2 DEF Bounded, LastNow
<1>4. Bounded(fr, p + 1, Below(u))
  BY DEF Bounded, LastNow
<1>5. ASSUME NEW m \in Nat, <<m, 1>> \in Captured(fr, p), NEW x \in Range(f.data), x[1] = m
      PROVE  Continues(fr, p, m)
  <2>1. PICK w : w = <<m, 1>> /\ w[1] = m /\ w \in Captured(fr, p)
    BY <1>5
  <2>2. Precedes(w, v) /\ (w[1] = v[1] => Continues(fr, p, v[1]))
    BY <2>1 DEF Comes
  <2>3. AtMost(v, x) /\ v[1] \in Nat
    BY DEF LastNow
  <2>4. v[1] = m
    BY <1>5, <2>1, <2>2, <2>3 DEF AtMost, Precedes
  <2> QED BY <2>1, <2>2, <2>4
<1> QED BY <1>1, <1>2, <1>3, <1>4, <1>5

(* Data of the client that do not look like a query where a packet starts  *)
(* are dropped: no query that begins a segment is among them.              *)
LEMMA OwnDropStep ==
  ASSUME NEW fr, NEW k, OwnFrames(fr, k), NEW p \in 0 .. Len(fr), p < Len(fr),
         NEW look, NEW app, NEW recs, NEW record, OwnTidy(fr, p, k, look, app, recs, record),
         NEW f, f = fr[p + 1], f.data # <<>>, NEW u, NEW v, LastNow(fr, p, f, u, v),
         NEW s, StreamOf(k, look, s), Comes(fr, p, s, f, v), ~Lets(f, s),
         NEW look2, k \in DOMAIN look2, SeenBy(f, s, look2[k]),
         NEW all, all => record
  PROVE  OwnTidy(fr, p + 1, k, look2, app, recs, all)
<1>1. ToServer(f) /\ s.open = NoPacket /\ ~could_be_query(f.data) /\ look2[k].open = NoPacket
  BY DEF Lets, Comes, SeenBy
<1>2. InSequence(fr, p + 1)
  BY ComesAfter
<1>3. StreamTidy(fr, p + 1, k, look2)
  <2>1. Within(fr, p + 1, p + 1, look2[k])
    BY <1>1 DEF Within, LastNow, SeenBy, OpenIs
  <2>2. p + 1 \in 1 .. p + 1
    BY DEF LastNow
  <2> QED BY <2>1, <2>2 DEF StreamTidy
<1>4. AppendedTidy(fr, p + 1, app)
  BY <1>2 DEF OwnTidy, AppendedTidy, LastNow
<1>5. QueriesTidy(fr, p + 1, k, look2, app)
  <2>1. QueriesTidy(fr, p, k, look, app)
    BY DEF OwnTidy
  <2>2. ASSUME NEW m \in DOMAIN Messages, Begun(fr, p + 1, m)
        PROVE  Begun(fr, p, m) /\ <<m, 1>> \in Captured(fr, p)
    <3>1. PICK i \in 1 .. p + 1 : fr[i].data # <<>> /\ fr[i].data[1] = <<m, 1>>
      BY <2>2 DEF Begun
    <3>2. ~(f.data[1] = <<m, 1>>)
      <4>1. ASSUME f.data[1] = <<m, 1>>
            PROVE  could_be_query(f.data)
        <5>1. f.data[1][1] = m /\ f.data[1][2] = 1
          BY <4>1
        <5> QED BY <2>2, <5>1 DEF could_be_query, Begun
      <4> QED BY <1>1, <4>1
    <3>3. i \in 1 .. p
      BY <3>1, <3>2 DEF LastNow
    <3>4. 1 \in DOMAIN fr[i].data
      <4>1. i \in DOMAIN fr
        <5>1. DOMAIN fr = 1 .. Len(fr) /\ Len(fr) \in Nat
          BY LenProperties DEF OwnFrames
        <5> QED BY <3>3, <5>1
      <4> QED BY <3>1, <4>1, OwnFrame
    <3>5. <<m, 1>> \in Captured(fr, p)
      BY <3>1, <3>3, <3>4 DEF Captured, Range
    <3> QED BY <2>2, <3>1, <3>3, <3>5 DEF Begun
  <2>3. ASSUME NEW m \in DOMAIN Messages, Begun(fr, p + 1, m), NEW x \in Range(f.data), x[1] = m
        PROVE  FALSE
    <3>1. Continues(fr, p, m)
      <4>1. m \in Nat /\ <<m, 1>> \in Captured(fr, p)
        BY <2>2, <2>3, PartsAre
      <4> QED BY <2>3, <4>1, ComesAfter
    <3>2. k \in DOMAIN look /\ look[k].open # NoPacket
      BY <2>1, <2>2, <2>3, <3>1 DEF QueriesTidy
    <3> QED BY <1>1, <3>2 DEF StreamOf
  <2>4. \A m : Continues(fr, p + 1, m) => \E x \in Range(f.data) : x[1] = m
    BY DEF Continues, LastNow
  <2>5. ASSUME NEW m \in DOMAIN Messages, Begun(fr, p + 1, m)
        PROVE  /\ \A x \in Captured(fr, p + 1) : x[1] = m => x \in Range(app)
               /\ ~Continues(fr, p + 1, m)
    <3>1. \A x \in Captured(fr, p) : x[1] = m => x \in Range(app)
      BY <2>1, <2>2, <2>5 DEF QueriesTidy
    <3>2. \A x \in Range(f.data) : x[1] # m
      BY <2>3, <2>5
    <3>3. ~Continues(fr, p + 1, m)
      BY <2>4, <3>2
    <3> QED BY <3>1, <3>2, <3>3 DEF LastNow
  <2> QED BY <2>5 DEF QueriesTidy
<1>6. RecordsTidy(fr, p + 1, k, look2, app, recs, all)
  <2>1. PICK n \in Nat :
          /\ Bounded(fr, p, n) /\ Sound(recs, k, n)
          /\ record => AllRecorded(recs, k, app) /\ (k \in DOMAIN look => Pending(recs, k, look[k], n))
    BY DEF OwnTidy, RecordsTidy
  <2>2. Bounded(fr, p + 1, n)
    BY <2>1, ComesAfter
  <2>3. record => Pending(recs, k, look2[k], n)
    <3>1. record => Pending(recs, k, s, n)
      <4>1. CASE k \in DOMAIN look
        BY <2>1, <4>1 DEF StreamOf
      <4>2. CASE k \notin DOMAIN look
        BY <4>2 DEF StreamOf, Fresh, Pending
      <4> QED BY <4>1, <4>2
    <3> QED BY <3>1 DEF Pending, SeenBy
  <2> QED BY <2>1, <2>2, <2>3 DEF RecordsTidy
<1> QED BY <1>3, <1>4, <1>5, <1>6 DEF OwnTidy

(* Frame f, the next of fr, goes on with data that pass: seen is the       *)
(* stream they are appended to.                                            *)
Passing(fr, k, p, look, f, u, v, s, seen, in) ==
  /\ OwnFrames(fr, k) /\ k # <<>> /\ p \in 0 .. Len(fr) /\ p < Len(fr)
  /\ f = fr[p + 1] /\ f.data # <<>> /\ LastNow(fr, p, f, u, v)
  /\ StreamOf(k, look, s) /\ Comes(fr, p, s, f, v)
  /\ SeenBy(f, s, seen) /\ StreamOK(k, seen)
  /\ in \in BOOLEAN /\ in = ToServer(f) /\ Ready(seen, v, in)

(* Data that go on: all of them are appended, once.                        *)
LEMMA OwnAppended ==
  ASSUME NEW fr, NEW k, NEW p, NEW look, NEW f, NEW u, NEW v, NEW s, NEW seen, NEW in,
         Passing(fr, k, p, look, f, u, v, s, seen, in),
         NEW app, AppendedTidy(fr, p, app), QueriesTidy(fr, p, k, look, app),
         NEW look2, k \in DOMAIN look2, look2[k].open = OpenAfter(u, in)
  PROVE  /\ AppendedTidy(fr, p + 1, app \o f.data) /\ QueriesTidy(fr, p + 1, k, look2, app \o f.data)
         /\ Range(app \o f.data) = Range(app) \cup Range(f.data)
<1>1. /\ OwnFrames(fr, k) /\ k # <<>> /\ p \in 0 .. Len(fr) /\ p < Len(fr)
      /\ f = fr[p + 1] /\ f.data # <<>> /\ LastNow(fr, p, f, u, v)
      /\ StreamOf(k, look, s) /\ Comes(fr, p, s, f, v)
      /\ SeenBy(f, s, seen) /\ StreamOK(k, seen)
      /\ in \in BOOLEAN /\ in = ToServer(f) /\ Ready(seen, v, in)
  BY DEF Passing
<1> USE <1>1
<1>2. app \in Seq(Units) /\ IsInjective(app) /\ Range(app) \subseteq Captured(fr, p)
  BY DEF AppendedTidy
<1>3. PICK data \in Seq(Units) : data = f.data /\ IsInjective(data)
  BY RunRises DEF LastNow, PartsRun
<1> DEFINE app2 == app \o data
<1>4. PICK a \in Nat, b \in Nat :
        /\ a = Len(app) /\ b = Len(data)
        /\ DOMAIN app = 1 .. a /\ DOMAIN data = 1 .. b /\ DOMAIN app2 = 1 .. a + b
        /\ app2 \in Seq(Units)
        /\ \A i \in 1 .. a + b : app2[i] = IF i <= a THEN app[i] ELSE data[i - a]
  <2>1. PICK a \in Nat, b \in Nat : a = Len(app) /\ b = Len(data)
    BY <1>2, <1>3, LenProperties
  <2>2. /\ app2 \in Seq(Units) /\ Len(app2) = a + b
        /\ \A i \in 1 .. a + b : app2[i] = IF i <= a THEN app[i] ELSE data[i - a]
    BY <1>2, <1>3, <2>1, ConcatProperties
  <2> HIDE DEF app2
  <2>3. DOMAIN app = 1 .. a /\ DOMAIN data = 1 .. b /\ DOMAIN app2 = 1 .. a + b
    BY <1>2, <1>3, <2>1, <2>2, LenProperties
  <2> QED BY <2>1, <2>2, <2>3
<1> HIDE DEF app2
<1>5. \A i \in 1 .. a + b : IF i <= a THEN i \in 1 .. a ELSE i - a \in 1 .. b
  BY <1>4
<1>6. Range(app2) = Range(app) \cup Range(data)
  <2>1. ASSUME NEW i \in 1 .. a
        PROVE  i \in 1 .. a + b /\ i <= a
    BY <1>4
  <2>2. ASSUME NEW i \in 1 .. b
        PROVE  a + i \in 1 .. a + b /\ ~(a + i <= a) /\ (a + i) - a = i
    BY <1>4
  <2>3. \A i \in 1 .. a : app[i] \in Range(app2)
    BY <1>4, <2>1 DEF Range
  <2>4. \A i \in 1 .. b : data[i] \in Range(app2)
    <3>1. \A i \in 1 .. b : a + i \in DOMAIN app2 /\ app2[a + i] = data[i]
      BY <1>4, <2>2
    <3> QED BY <3>1 DEF Range
  <2>5. \A i \in 1 .. a + b : app2[i] \in Range(app) \/ app2[i] \in Range(data)
    BY <1>4, <1>5 DEF Range
  <2>6. \A x \in Range(app2) : x \in Range(app) \cup Range(data)
    BY <1>4, <2>5 DEF Range
  <2>7. \A x \in Range(app) \cup Range(data) : x \in Range(app2)
    <3>1. \A x \in Range(app) : \E i \in 1 .. a : x = app[i]
      BY <1>4 DEF Range
    <3>2. \A x \in Range(data) : \E i \in 1 .. b : x = data[i]
      BY <1>4 DEF Range
    <3> QED BY <2>3, <2>4, <3>1, <3>2
  <2> QED BY <2>6, <2>7
<1>7. \A x \in Captured(fr, p) : x \in Units /\ Precedes(x, v)
  BY ComesAfter
<1>8. \A x \in Range(app) : x \notin Range(data)
  <2>1. ASSUME NEW x \in Range(app), x \in Range(data)
        PROVE  FALSE
    <3>1. x \in Units /\ Precedes(x, v) /\ AtMost(v, x) /\ v \in Units
      BY <1>2, <1>3, <1>7, <2>1 DEF LastNow
    <3> QED BY <3>1, PartOrder
  <2> QED BY <2>1
<1>9. IsInjective(app2)
  <2>1. ASSUME NEW i \in 1 .. a + b, NEW j \in 1 .. a + b, app2[i] = app2[j]
        PROVE  i = j
    <3>1. CASE i <= a /\ j <= a
      <4>1. i \in DOMAIN app /\ j \in DOMAIN app /\ app[i] = app[j]
        BY <1>4, <1>5, <2>1, <3>1
      <4> QED BY <1>2, <4>1 DEF IsInjective
    <3>2. CASE ~(i <= a) /\ ~(j <= a)
      <4>1. i - a \in DOMAIN data /\ j - a \in DOMAIN data /\ data[i - a] = data[j - a]
        BY <1>4, <1>5, <2>1, <3>2
      <4>2. i - a = j - a
        BY <1>3, <4>1 DEF IsInjective
      <4> QED BY <1>4, <4>2
    <3>3. CASE i <= a /\ ~(j <= a)
      <4>1. i \in DOMAIN app /\ j - a \in DOMAIN data /\ app[i] = data[j - a]
        BY <1>4, <1>5, <2>1, <3>3
      <4> QED BY <1>8, <4>1 DEF Range
    <3>4. CASE ~(i <= a) /\ j <= a
      <4>1. j \in DOMAIN app /\ i - a \in DOMAIN data /\ app[j] = data[i - a]
        BY <1>4, <1>5, <2>1, <3>4
      <4> QED BY <1>8, <4>1 DEF Range
    <3> QED BY <3>1, <3>2, <3>3, <3>4
  <2> QED BY <1>4, <2>1 DEF IsInjective
<1>10. AppendedTidy(fr, p + 1, app2)
  <2>1. InSequence(fr, p + 1)
    BY ComesAfter
  <2>2. Captured(fr, p + 1) = Captured(fr, p) \cup Range(data)
    BY <1>3 DEF LastNow
  <2> QED BY <1>2, <1>4, <1>6, <1>9, <2>1, <2>2 DEF AppendedTidy
<1>11. QueriesTidy(fr, p + 1, k, look2, app2)
  <2>1. ASSUME NEW m \in DOMAIN Messages, Begun(fr, p + 1, m), NEW x \in Captured(fr, p), x[1] = m
        PROVE  x \in Range(app)
    <3>1. PICK i \in 1 .. p + 1 : fr[i].data # <<>> /\ fr[i].data[1] = <<m, 1>>
      BY <2>1 DEF Begun
    <3>2. CASE i \in 1 .. p
      BY <2>1, <3>1, <3>2 DEF Begun, QueriesTidy
    <3>3. CASE i \notin 1 .. p
      <4>1. v = <<m, 1>>
        BY <3>1, <3>3 DEF LastNow
      <4>2. v[1] = m /\ v[2] = 1
        BY <4>1
      <4>3. x[1] \in Nat /\ x[2] \in Nat \ {0}
        BY <1>7, <2>1, UnitIs
      <4>4. Precedes(x, v)
        BY <1>7, <2>1
      <4> QED BY <2>1, <4>2, <4>3, <4>4 DEF Precedes
    <3> QED BY <3>2, <3>3
  <2>2. ASSUME NEW m, Continues(fr, p + 1, m)
        PROVE  look2[k].open # NoPacket
    <3>1. ~IsEnd(u)
      BY <2>2 DEF Continues, LastNow
    <3>2. u \in Units
      BY DEF LastNow
    <3> QED BY <3>1, <3>2, PartialIs DEF OpenAfter
  <2>3. Captured(fr, p + 1) = Captured(fr, p) \cup Range(data)
    BY <1>3 DEF LastNow
  <2> QED BY <1>6, <2>1, <2>2, <2>3 DEF QueriesTidy
<1> QED BY <1>3, <1>6, <1>10, <1>11 DEF app2

(* The stream has the data.                                                *)
DataDone(f, u, in, r) == r.s.open = OpenAfter(u, in) /\ r.s.last_tcp_seq = f.tcp.th_seq

(* The data are appended to the stream, and what that gives to the file.   *)
Writing(k, data, seen, in, app, recs, record, r, look2, recs2, app2, all) ==
  /\ app \in Seq(Units) /\ recs \in Seq(RecordType) /\ record \in BOOLEAN
  /\ r = AppendData(seen, k, data, in) /\ look2[k] = r.s
  /\ Grown(recs, r.out, recs2, record)
  /\ Range(app2) = Range(app) \cup Range(data)
  /\ all => record /\ Torn \notin Range(recs2)

(* The records the data give are written behind those there are.           *)
LEMMA OwnRecorded ==
  ASSUME NEW fr, NEW k, NEW p, NEW look, NEW f, NEW u, NEW v, NEW s, NEW seen, NEW in,
         Passing(fr, k, p, look, f, u, v, s, seen, in),
         NEW app, NEW recs, NEW record, RecordsTidy(fr, p, k, look, app, recs, record),
         NEW r, NEW look2, NEW recs2, NEW app2, NEW all,
         Writing(k, f.data, seen, in, app, recs, record, r, look2, recs2, app2, all)
  PROVE  RecordsTidy(fr, p + 1, k, look2, app2, recs2, all) /\ DataDone(f, u, in, r)
<1>1. /\ OwnFrames(fr, k) /\ k # <<>> /\ p \in 0 .. Len(fr) /\ p < Len(fr)
      /\ f = fr[p + 1] /\ f.data # <<>> /\ LastNow(fr, p, f, u, v)
      /\ StreamOf(k, look, s) /\ Comes(fr, p, s, f, v)
      /\ SeenBy(f, s, seen) /\ StreamOK(k, seen)
      /\ in \in BOOLEAN /\ in = ToServer(f) /\ Ready(seen, v, in)
  BY DEF Passing
<1>2. app \in Seq(Units) /\ recs \in Seq(RecordType) /\ record \in BOOLEAN
  BY DEF Writing
<1>3. r = AppendData(seen, k, f.data, in) /\ look2[k] = r.s
  BY DEF Writing
<1>4. Grown(recs, r.out, recs2, record)
  BY DEF Writing
<1>5. Range(app2) = Range(app) \cup Range(f.data)
  BY DEF Writing
<1>6. all => record /\ Torn \notin Range(recs2)
  BY DEF Writing
<1>7. PICK n \in Nat :
        /\ Bounded(fr, p, n) /\ Sound(recs, k, n)
        /\ record => AllRecorded(recs, k, app) /\ (k \in DOMAIN look => Pending(recs, k, look[k], n))
  BY DEF RecordsTidy
<1>8. PICK nb \in Nat : nb = Below(u)
  BY <1>1 DEF LastNow
<1>9. n <= v[1] /\ Bounded(fr, p + 1, n) /\ Bounded(fr, p + 1, nb)
  BY <1>1, <1>7, <1>8, ComesAfter
<1>10. PICK data \in Seq(Units), b \in Nat \ {0} :
        /\ data = f.data /\ b = Len(data) /\ DOMAIN data = 1 .. b /\ u = data[b] /\ v = data[1]
        /\ PartsRun(data, in)
  <2>1. PICK data \in Seq(Units) :
          /\ data = f.data /\ data # <<>> /\ u = data[Len(data)] /\ v = data[1]
          /\ PartsRun(data, in)
    BY <1>1 DEF LastNow, PartsRun
  <2>2. Len(data) \in Nat \ {0} /\ DOMAIN data = 1 .. Len(data)
    BY <2>1
  <2> QED BY <2>1, <2>2
<1>11. RunDone(recs, k, seen, r, data, in, n)
  <2>1. r = AppendData(seen, k, data, in) /\ recs \in Seq(RecordType)
    BY <1>2, <1>10, <1>3
  <2>2. Ready(seen, data[1], in) /\ n <= data[1][1] /\ StreamOK(k, seen) /\ in \in BOOLEAN
    BY <1>1, <1>9, <1>10
  <2>3. RunDone(recs, k, seen, AppendData(seen, k, data, in), data, in, n)
    BY <1>10, <2>1, <2>2, RunStep
  <2> QED BY <2>1, <2>3
<1>12. r \in Result(k) /\ r.out \in Seq(RecordType)
  BY <1>11 DEF RunDone, Result
<1>13. RunUpTo(recs, k, seen, r, data, in, n, nb, b)
  BY <1>8, <1>10, <1>11 DEF RunDone
<1>14. DataDone(f, u, in, r)
  <2>1. r.s.open = OpenAfter(u, in) /\ r.s.last_tcp_seq = seen.last_tcp_seq
    BY <1>10, <1>13 DEF RunUpTo
  <2>2. seen.last_tcp_seq = f.tcp.th_seq
    BY <1>1 DEF SeenBy
  <2> QED BY <2>1, <2>2 DEF DataDone
<1>15. PICK big : big = recs \o r.out
  OBVIOUS
<1>16. \A m : RecordedIn(recs, k, m) => RecordedIn(big, k, m)
  BY <1>13, <1>15 DEF RunUpTo
<1>17. ASSUME record
       PROVE  /\ Sound(big, k, nb) /\ Pending(big, k, r.s, nb)
              /\ \A j \in 1 .. b : IsEnd(data[j]) /\ Kind(data[j]) = "Query"
                   => RecordedIn(big, k, data[j][1])
  <2>1. Pending(recs, k, s, n)
    <3>1. CASE k \in DOMAIN look
      BY <1>1, <1>7, <1>17, <3>1 DEF StreamOf
    <3>2. CASE k \notin DOMAIN look
      BY <1>1, <3>2 DEF StreamOf, Fresh, Pending
    <3> QED BY <3>1, <3>2
  <2>2. seen.query = s.query /\ seen.more = s.more
    BY <1>1 DEF SeenBy
  <2>3. Pending(recs, k, seen, n)
    BY <2>1, <2>2 DEF Pending
  <2>4. Good(recs, k, seen, n)
    BY <1>7, <2>3 DEF Good
  <2> QED BY <1>13, <1>15, <2>4 DEF RunUpTo, Good
<1>18. PICK n2 \in Nat : n2 = (IF record THEN nb ELSE n) /\ Bounded(fr, p + 1, n2)
  BY <1>8, <1>9
<1>19. StaysSound(recs, r.out, recs2, record, k, n, nb)
  <2>1. record => Sound(recs \o r.out, k, nb)
    BY <1>15, <1>17
  <2>2. recs \in Seq(RecordType) /\ Grown(recs, r.out, recs2, record) /\ k # <<>>
    BY <1>1, <1>2, <1>4
  <2> QED BY <1>7, <1>8, <1>12, <2>1, <2>2, GrownSound
<1>20. Sound(recs2, k, n2)
  BY <1>18, <1>19 DEF StaysSound
<1>21. all => record /\ recs2 = big
  BY <1>15, <1>19, <1>6 DEF StaysSound
<1>22. ASSUME all
       PROVE  AllRecorded(recs2, k, app2) /\ Pending(recs2, k, look2[k], n2)
  <2>1. record /\ recs2 = big /\ n2 = nb /\ look2[k] = r.s
    BY <1>18, <1>21, <1>22, <1>3
  <2>2. Pending(recs2, k, look2[k], n2)
    BY <1>17, <2>1
  <2>3. ASSUME NEW m \in DOMAIN Messages, Messages[m].kind = "Query",
               <<m, Messages[m].units>> \in Range(app2)
        PROVE  RecordedIn(recs2, k, m)
    <3>1. <<m, Messages[m].units>> \in Range(app) \/ <<m, Messages[m].units>> \in Range(data)
      BY <1>10, <1>5, <2>3
    <3>2. CASE <<m, Messages[m].units>> \in Range(app)
      <4>1. RecordedIn(recs, k, m)
        BY <1>7, <2>1, <2>3, <3>2 DEF AllRecorded
      <4> QED BY <1>16, <2>1, <4>1
    <3>3. CASE <<m, Messages[m].units>> \in Range(data)
      <4>1. PICK j \in 1 .. b : data[j] = <<m, Messages[m].units>>
        BY <1>10, <3>3 DEF Range
      <4>2. data[j][1] = m /\ data[j][2] = Messages[m].units
        BY <4>1
      <4>3. IsEnd(data[j]) /\ Kind(data[j]) = "Query"
        BY <2>3, <4>2 DEF IsEnd, Kind
      <4> QED BY <1>17, <2>1, <4>2, <4>3
    <3> QED BY <3>1, <3>2, <3>3
  <2> QED BY <2>2, <2>3 DEF AllRecorded
<1>23. RecordsTidy(fr, p + 1, k, look2, app2, recs2, all)
  BY <1>18, <1>20, <1>22 DEF RecordsTidy
<1> QED BY <1>14, <1>23

(* Data that go on, and pass.                                              *)
LEMMA PassingIs ==
  ASSUME NEW fr, NEW k, OwnFrames(fr, k), k # <<>>, NEW p \in 0 .. Len(fr), p < Len(fr), NEW look,
         NEW f, f = fr[p + 1], f.data # <<>>, NEW u, NEW v, LastNow(fr, p, f, u, v),
         NEW s, StreamOf(k, look, s), Comes(fr, p, s, f, v), Lets(f, s),
         NEW seen, SeenBy(f, s, seen), StreamOK(k, seen), NEW in \in BOOLEAN, in = ToServer(f)
  PROVE  Passing(fr, k, p, look, f, u, v, s, seen, in)
<1>1. Ready(s, v, in) \/ (s.open = NoPacket /\ ToServer(f))
  BY DEF Comes
<1>2. s.open = NoPacket /\ ToServer(f) => v[2] = 1
  BY DEF Lets, could_be_query, LastNow
<1>3. Ready(seen, v, in)
  BY <1>1, <1>2 DEF Ready, SeenBy
<1> QED BY <1>3 DEF Passing

(* They are appended and recorded.                                         *)
LEMMA OwnAppendStep ==
  ASSUME NEW fr, NEW k, NEW p, NEW look, NEW f, NEW u, NEW v, NEW s, NEW seen, NEW in,
         Passing(fr, k, p, look, f, u, v, s, seen, in),
         NEW app, NEW recs \in Seq(RecordType), NEW record \in BOOLEAN,
         OwnTidy(fr, p, k, look, app, recs, record),
         NEW r, r = AppendData(seen, k, f.data, in),
         NEW look2, k \in DOMAIN look2, look2[k] = r.s,
         NEW recs2, Grown(recs, r.out, recs2, record),
         NEW all, all => record /\ Torn \notin Range(recs2)
  PROVE  OwnTidy(fr, p + 1, k, look2, app \o f.data, recs2, all)
<1>1. app \in Seq(Units) /\ AppendedTidy(fr, p, app) /\ QueriesTidy(fr, p, k, look, app)
      /\ RecordsTidy(fr, p, k, look, app, recs, record)
  BY DEF OwnTidy, AppendedTidy
<1>2. PICK app2 : app2 = app \o f.data
  OBVIOUS
<1>3. r.s.open = OpenAfter(u, in) /\ r.s.last_tcp_seq = f.tcp.th_seq
  <2>1. PICK app3 : Range(app3) = Range(app) \cup Range(f.data)
    <3>1. PICK U : U = Range(app) \cup Range(f.data)
      OBVIOUS
    <3>2. Range([x \in U |-> x]) = U
      BY DEF Range
    <3> QED BY <3>1, <3>2
  <2>2. Writing(k, f.data, seen, in, app, recs, record, r, look2, recs2, app3, all)
    BY <1>1, <2>1 DEF Writing
  <2>3. DataDone(f, u, in, r)
    BY ZenonT(30), <1>1, <2>2, OwnRecorded
  <2> QED BY <2>3 DEF DataDone
<1>4. look2[k].open = OpenAfter(u, in)
  BY <1>3
<1>5. /\ AppendedTidy(fr, p + 1, app2) /\ QueriesTidy(fr, p + 1, k, look2, app2)
      /\ Range(app2) = Range(app) \cup Range(f.data)
  BY <1>1, <1>2, <1>4, OwnAppended
<1>6. RecordsTidy(fr, p + 1, k, look2, app2, recs2, all)
  <2>1. Writing(k, f.data, seen, in, app, recs, record, r, look2, recs2, app2, all)
    BY <1>1, <1>5 DEF Writing
  <2> QED BY <1>1, <2>1, OwnRecorded
<1>7. StreamTidy(fr, p + 1, k, look2)
  <2>1. OpenIs(look2[k], u, in)
    <3>1. u \in Units /\ in \in BOOLEAN
      BY DEF LastNow, Passing
    <3>2. Partial(u, in) # NoPacket
      BY <3>1, PartialIs
    <3> QED BY <1>4, <3>2 DEF OpenIs, OpenAfter
  <2>2. Within(fr, p + 1, p + 1, look2[k])
    BY <1>3, <2>1 DEF Within, LastNow, Passing
  <2>3. p + 1 \in 1 .. p + 1
    BY DEF LastNow, Passing
  <2> QED BY <2>2, <2>3 DEF StreamTidy
<1> QED BY <1>2, <1>5, <1>6, <1>7 DEF OwnTidy

(* The next frame has data, and finds or makes stream s.                   *)
HasData(fr, k, p, look, f, s) ==
  /\ OwnFrames(fr, k) /\ k # <<>> /\ p \in 0 .. Len(fr) /\ p < Len(fr)
  /\ f = fr[p + 1] /\ f.data # <<>> /\ StreamOf(k, look, s)

(* It has its last parts, and comes again or next; what comes again does   *)
(* not pass.                                                               *)
LEMMA DataComes ==
  ASSUME NEW fr, NEW k, NEW p, NEW look, NEW f, NEW s, HasData(fr, k, p, look, f, s),
         StreamTidy(fr, p, k, look), NEW app, AppendedTidy(fr, p, app)
  PROVE  \E u, v :
           /\ LastNow(fr, p, f, u, v)
           /\ (s = look[k] /\ Repeats(fr, p, k, look, s) /\ ~Lets(f, s)) \/ Comes(fr, p, s, f, v)
<1>1. PICK u, v : LastNow(fr, p, f, u, v)
  BY LastNowIs DEF HasData
<1>2. v = f.data[1]
  BY <1>1 DEF LastNow
<1>3. IF k \in DOMAIN look THEN s = look[k] ELSE Fresh(s)
  BY DEF HasData, StreamOf
<1>4. InSequence(fr, p)
  BY DEF AppendedTidy
<1>5. Repeats(fr, p, k, look, s) \/ Comes(fr, p, s, f, v)
  BY <1>2, <1>3, <1>4, NextIs DEF HasData
<1>6. ASSUME Repeats(fr, p, k, look, s)
      PROVE  s = look[k] /\ ~Lets(f, s)
  <2>1. PICK d \in 1 .. p : k \in DOMAIN look /\ Within(fr, p, d, s) /\ Again(fr, d, p + 1)
    BY <1>6 DEF Repeats
  <2>2. s.last_tcp_seq = f.tcp.th_seq
    BY <2>1 DEF Within, Again, HasData
  <2>3. f.tcp.th_seq \in Nat
    BY <1>1 DEF LastNow
  <2>4. f.tcp.th_seq # NoSeq
    BY <2>3 DEF NoSeq
  <2> QED BY <1>3, <2>1, <2>2, <2>4 DEF Lets, SeqIsNew
<1> QED BY <1>1, <1>5, <1>6

(* What becomes of the data of a frame.                                    *)
Goes(k, look, app, recs, record, f, s, seen, in, look2, app2, recs2) ==
  \E r :
    /\ r = AppendData(seen, k, f.data, in) /\ k \in DOMAIN look2
    /\ IF Lets(f, s)
       THEN look2[k] = r.s /\ app2 = app \o f.data /\ Grown(recs, r.out, recs2, record)
       ELSE SeenBy(f, s, look2[k]) /\ app2 = app /\ recs2 = recs

(* A frame with data, as a whole.                                          *)
LEMMA OwnDataStep ==
  ASSUME NEW fr, NEW k, NEW p, NEW look, NEW f, NEW s, HasData(fr, k, p, look, f, s),
         NEW app, NEW recs \in Seq(RecordType), NEW record \in BOOLEAN,
         OwnTidy(fr, p, k, look, app, recs, record),
         NEW seen, SeenBy(f, s, seen), StreamOK(k, seen), NEW in \in BOOLEAN, in = ToServer(f),
         NEW look2, NEW app2, NEW recs2,
         Goes(k, look, app, recs, record, f, s, seen, in, look2, app2, recs2),
         NEW all, all => record /\ Torn \notin Range(recs2)
  PROVE  OwnTidy(fr, p + 1, k, look2, app2, recs2, all)
<1>1. PICK u, v :
        /\ LastNow(fr, p, f, u, v)
        /\ (s = look[k] /\ Repeats(fr, p, k, look, s) /\ ~Lets(f, s)) \/ Comes(fr, p, s, f, v)
  BY DataComes DEF OwnTidy
<1>2. PICK r :
        /\ r = AppendData(seen, k, f.data, in) /\ k \in DOMAIN look2
        /\ IF Lets(f, s)
           THEN look2[k] = r.s /\ app2 = app \o f.data /\ Grown(recs, r.out, recs2, record)
           ELSE SeenBy(f, s, look2[k]) /\ app2 = app /\ recs2 = recs
  BY DEF Goes
<1>3. CASE Repeats(fr, p, k, look, s) /\ s = look[k] /\ ~Lets(f, s)
  <2>1. SeenBy(f, s, look2[k]) /\ k \in DOMAIN look2 /\ app2 = app /\ recs2 = recs /\ (all => record)
    BY <1>2, <1>3
  <2> QED BY <1>1, <1>3, <2>1, OwnRepeatStep DEF HasData
<1>4. CASE Comes(fr, p, s, f, v) /\ ~Lets(f, s)
  <2>1. SeenBy(f, s, look2[k]) /\ k \in DOMAIN look2 /\ app2 = app /\ recs2 = recs /\ (all => record)
    BY <1>2, <1>4
  <2> QED BY <1>1, <1>4, <2>1, OwnDropStep DEF HasData
<1>5. CASE Comes(fr, p, s, f, v) /\ Lets(f, s)
  <2>1. Passing(fr, k, p, look, f, u, v, s, seen, in)
    BY <1>1, <1>5, PassingIs DEF HasData
  <2>2. look2[k] = r.s /\ app2 = app \o f.data /\ Grown(recs, r.out, recs2, record) /\ k \in DOMAIN look2
        /\ r = AppendData(seen, k, f.data, in)
    BY <1>2, <1>5
  <2>3. OwnTidy(fr, p + 1, k, look2, app \o f.data, recs2, all)
    BY <2>1, <2>2, OwnAppendStep
  <2> QED BY <2>2, <2>3
<1> QED BY <1>1, <1>3, <1>4, <1>5

(***************************************************************************)
(* Frames of other conversations: stream kk may change, and gets records   *)
(* out.                                                                    *)
(***************************************************************************)
Changes(kk, look, look2, recs, out, recs2, record) ==
  /\ \A x : x # kk => (x \in DOMAIN look2 <=> x \in DOMAIN look)
  /\ \A x \in DOMAIN look : x # kk => look2[x] = look[x]
  /\ out \in Seq(RecordType) /\ \A i \in DOMAIN out : out[i].of = kk
  /\ Grown(recs, out, recs2, record)

(* A record of the grown file was there, is one of the new or torn.        *)
LEMMA GrownRecords ==
  ASSUME NEW recs \in Seq(RecordType), NEW out \in Seq(RecordType), NEW record, NEW recs2,
         Grown(recs, out, recs2, record), NEW i \in DOMAIN recs2
  PROVE  \/ \E j \in DOMAIN recs : recs2[i] = recs[j]
         \/ \E j \in DOMAIN out : recs2[i] = out[j]
         \/ recs2[i] = Torn
<1>1. ASSUME NEW part \in Seq(RecordType), NEW x \in DOMAIN (recs \o part)
      PROVE  \/ \E j \in DOMAIN recs : (recs \o part)[x] = recs[j]
             \/ \E j \in DOMAIN part : (recs \o part)[x] = part[j]
  <2>1. PICK a \in Nat, b \in Nat : a = Len(recs) /\ b = Len(part)
    BY <1>1, LenProperties
  <2>2. PICK big \in Seq(RecordType) : big = recs \o part
    BY <1>1, ConcatProperties
  <2>3. Len(big) = a + b /\ \A y \in 1 .. a + b : big[y] = IF y <= a THEN recs[y] ELSE part[y - a]
    BY <1>1, <2>1, <2>2, ConcatProperties
  <2>4. DOMAIN recs = 1 .. a /\ DOMAIN part = 1 .. b /\ x \in 1 .. a + b
    BY <1>1, <2>1, <2>2, <2>3, LenProperties
  <2>5. x <= a => x \in 1 .. a
    BY <2>4
  <2>6. ~(x <= a) => x - a \in 1 .. b
    BY <2>1, <2>4
  <2> QED BY <2>2, <2>3, <2>4, <2>5, <2>6
<1>2. CASE record /\ recs2 = recs \o out
  BY <1>1, <1>2
<1>3. CASE record /\ \E m \in Int : m < Len(out) /\ recs2 = Append(recs \o SubSeq(out, 1, m), Torn)
  <2>1. PICK m \in Int : m < Len(out) /\ recs2 = Append(recs \o SubSeq(out, 1, m), Torn)
    BY <1>3
  <2>2. Len(out) \in Nat
    BY LenProperties
  <2>3. PICK part : part = SubSeq(out, 1, m)
    OBVIOUS
  <2>4. part \in Seq(RecordType) /\ \A j \in DOMAIN part : j \in DOMAIN out /\ part[j] = out[j]
    <3>1. \A j \in 1 .. m : j \in 1 .. Len(out) /\ out[j] \in RecordType
      BY <2>1, <2>2
    <3>2. part \in Seq(RecordType)
      BY <2>3, <3>1, SubSeqProperties
    <3>3. Len(part) = (IF 1 <= m THEN m ELSE 0) /\ \A j \in 1 .. m : part[j] = out[j]
      BY <2>1, <2>3, <3>1, SubSeqProperties
    <3>4. DOMAIN part = 1 .. Len(part) /\ DOMAIN out = 1 .. Len(out)
      BY <3>2, LenProperties
    <3> QED BY <2>1, <2>2, <3>1, <3>2, <3>3, <3>4
  <2>5. PICK big : big = recs \o part
    OBVIOUS
  <2>6. big \in Seq(RecordType) /\ recs2 = Append(big, Torn)
    BY <2>1, <2>3, <2>4, <2>5, ConcatProperties
  <2>7. (i \in DOMAIN big /\ recs2[i] = big[i]) \/ recs2[i] = Torn
    <3>1. /\ Len(recs2) = Len(big) + 1 /\ recs2[Len(big) + 1] = Torn
          /\ \A x \in 1 .. Len(big) : recs2[x] = big[x]
          /\ Len(big) \in Nat /\ DOMAIN big = 1 .. Len(big) /\ DOMAIN recs2 = 1 .. Len(recs2)
      <4>1. PICK S : S = RecordType \cup {Torn}
        OBVIOUS
      <4>2. big \in Seq(S) /\ Torn \in S
        BY <2>6, <4>1
      <4> QED BY <2>6, <4>2, AppendProperties, LenProperties
    <3> QED BY <3>1
  <2> QED BY <1>1, <2>4, <2>5, <2>7
<1> QED BY <1>2, <1>3 DEF Grown

(* The conversation does not hear of them.                                 *)
LEMMA OwnOtherStep ==
  ASSUME NEW fr, NEW p, NEW k, k # <<>>, NEW look, NEW app, NEW recs \in Seq(RecordType), NEW record,
         OwnTidy(fr, p, k, look, app, recs, record),
         NEW kk, kk # k, NEW look2, NEW out, NEW recs2,
         Changes(kk, look, look2, recs, out, recs2, record),
         NEW all, all => record /\ Torn \notin Range(recs2)
  PROVE  OwnTidy(fr, p, k, look2, app, recs2, all)
<1>1. (k \in DOMAIN look2 <=> k \in DOMAIN look) /\ (k \in DOMAIN look => look2[k] = look[k])
  BY DEF Changes
<1>2. out \in Seq(RecordType) /\ \A i \in DOMAIN out : out[i].of # k
  BY DEF Changes
<1>3. StreamTidy(fr, p, k, look2) /\ QueriesTidy(fr, p, k, look2, app)
  <2>1. StreamTidy(fr, p, k, look) /\ QueriesTidy(fr, p, k, look, app)
    BY DEF OwnTidy
  <2>2. StreamTidy(fr, p, k, look2)
    BY <1>1, <2>1 DEF StreamTidy
  <2>3. QueriesTidy(fr, p, k, look2, app)
    BY <1>1, <2>1 DEF QueriesTidy
  <2> QED BY <2>2, <2>3
<1>4. PICK n \in Nat :
        /\ Bounded(fr, p, n) /\ Sound(recs, k, n)
        /\ record => AllRecorded(recs, k, app) /\ (k \in DOMAIN look => Pending(recs, k, look[k], n))
  BY DEF OwnTidy, RecordsTidy
<1>5. /\ Sound(recs \o out, k, n)
      /\ \A s : Pending(recs, k, s, n) => Pending(recs \o out, k, s, n)
      /\ \A m : RecordedIn(recs, k, m) => RecordedIn(recs \o out, k, m)
  BY <1>2, <1>4, SoundOther
<1>6. PICK b \in BOOLEAN : b <=> record
  OBVIOUS
<1>7. StaysSound(recs, out, recs2, b, k, n, n)
  <2>1. Grown(recs, out, recs2, b)
    BY <1>6 DEF Changes, Grown
  <2> QED BY <1>2, <1>4, <1>5, <2>1, GrownSound
<1>8. Sound(recs2, k, n) /\ (all => record /\ recs2 = recs \o out)
  BY <1>6, <1>7 DEF StaysSound
<1>9. ASSUME all
      PROVE  AllRecorded(recs2, k, app) /\ (k \in DOMAIN look2 => Pending(recs2, k, look2[k], n))
  <2>1. AllRecorded(recs, k, app) /\ (k \in DOMAIN look => Pending(recs, k, look[k], n))
    BY <1>4, <1>9
  <2>2. recs2 = recs \o out
    BY <1>8, <1>9
  <2>3. AllRecorded(recs2, k, app)
    BY <1>5, <2>1, <2>2 DEF AllRecorded
  <2>4. k \in DOMAIN look2 => Pending(recs2, k, look2[k], n)
    BY <1>1, <1>5, <2>1, <2>2
  <2> QED BY <2>3, <2>4
<1>10. RecordsTidy(fr, p, k, look2, app, recs2, all)
  BY <1>4, <1>8, <1>9 DEF RecordsTidy
<1> QED BY <1>3, <1>10 DEF OwnTidy

(* Conversations that are not the one of frames fr, with key k: nothing of *)
(* that is in their streams and records.                                   *)
Foreign(fr) == {u \in Units : ConnOf(u) \notin ConnsOf(fr)}
ApartTidy(fr, k, map, look, recs) ==
  /\ IdsOf(fr) \cap DOMAIN map = {}
  /\ \A x \in DOMAIN look \ {k} : StreamIn(Foreign(fr), look[x])
  /\ \A i \in DOMAIN recs : recs[i].of # k => recs[i].data \in Seq(Foreign(fr))

(* That stays so with a step of any frame.                                 *)
LEMMA ApartStep ==
  ASSUME NEW fr, NEW k, NEW map, NEW look, NEW recs \in Seq(RecordType), ApartTidy(fr, k, map, look, recs),
         NEW kk, NEW look2, NEW out, NEW recs2, NEW record,
         Changes(kk, look, look2, recs, out, recs2, record),
         kk # k => /\ kk \in DOMAIN look2 => StreamIn(Foreign(fr), look2[kk])
                   /\ RecordsIn(Foreign(fr), kk, out),
         NEW map2, IdsOf(fr) \cap DOMAIN map2 = {}
  PROVE  ApartTidy(fr, k, map2, look2, recs2)
<1>1. ASSUME NEW x \in DOMAIN look2 \ {k}
      PROVE  StreamIn(Foreign(fr), look2[x])
  <2>1. CASE x = kk
    BY <2>1
  <2>2. CASE x # kk
    <3>1. x \in DOMAIN look \ {k} /\ look2[x] = look[x]
      BY <2>2 DEF Changes
    <3> QED BY <3>1 DEF ApartTidy
  <2> QED BY <2>1, <2>2
<1>2. ASSUME NEW i \in DOMAIN recs2, recs2[i].of # k
      PROVE  recs2[i].data \in Seq(Foreign(fr))
  <2>1. \/ \E j \in DOMAIN recs : recs2[i] = recs[j]
        \/ \E j \in DOMAIN out : recs2[i] = out[j]
        \/ recs2[i] = Torn
    BY GrownRecords DEF Changes
  <2>2. CASE \E j \in DOMAIN recs : recs2[i] = recs[j]
    BY <1>2, <2>2 DEF ApartTidy
  <2>3. CASE \E j \in DOMAIN out : recs2[i] = out[j]
    BY <1>2, <2>3 DEF Changes, RecordsIn
  <2>4. CASE recs2[i] = Torn
    BY <2>4 DEF Torn
  <2> QED BY <2>1, <2>2, <2>3, <2>4
<1> QED BY <1>1, <1>2 DEF ApartTidy

(* Before the first frame.                                                 *)
LEMMA OwnStart ==
  ASSUME NEW fr, NEW k, OwnFrames(fr, k), NEW look, DOMAIN look = {}, NEW all
  PROVE  OwnTidy(fr, 0, k, look, <<>>, <<>>, all)
<1>1. 1 .. 0 = {} /\ Captured(fr, 0) = {} /\ DOMAIN (<<>>) = {} /\ Range(<<>>) = {}
  <2>1. 1 .. 0 = {}
    OBVIOUS
  <2>2. \A x : x \notin Captured(fr, 0)
    BY <2>1 DEF Captured
  <2>3. DOMAIN (<<>>) = {}
    OBVIOUS
  <2>4. Range(<<>>) = {}
    BY <2>3 DEF Range
  <2> QED BY <2>1, <2>2, <2>3, <2>4
<1>2. StreamTidy(fr, 0, k, look)
  BY <1>1 DEF StreamTidy
<1>3. AppendedTidy(fr, 0, <<>>)
  <2>1. <<>> \in Seq(Units) /\ IsInjective(<<>>)
    BY <1>1 DEF IsInjective
  <2> QED BY <1>1, <2>1 DEF AppendedTidy, InSequence
<1>4. QueriesTidy(fr, 0, k, look, <<>>)
  BY <1>1 DEF QueriesTidy, Begun
<1>5. RecordsTidy(fr, 0, k, look, <<>>, <<>>, all)
  <2>1. Bounded(fr, 0, 0)
    BY <1>1 DEF Bounded
  <2>2. Own(<<>>, k) = {}
    BY <1>1 DEF Own
  <2>3. Sound(<<>>, k, 0)
    BY <2>2 DEF Sound, Rises
  <2>4. AllRecorded(<<>>, k, <<>>)
    BY <1>1 DEF AllRecorded
  <2> QED BY <2>1, <2>3, <2>4 DEF RecordsTidy
<1> QED BY <1>2, <1>3, <1>4, <1>5 DEF OwnTidy

(***************************************************************************)
(* The invariant: nothing happens before the link header has its size, the *)
(* file is whole while frames are read, and each tidy conversation is as   *)
(* far as its frames were read.                                            *)
(***************************************************************************)
Appended(k) == IF k \in DOMAIN appended THEN appended[k] ELSE <<>>
NothingYet == DOMAIN packet_map = {} /\ DOMAIN lookup = {} /\ DOMAIN appended = {} /\ file = <<>>
ConversationTidy(c) ==
  /\ OwnTidy(FramesOf(c), pos[c], ClientOf(c), lookup, Appended(ClientOf(c)), file,
             input.record /\ Torn \notin Range(file))
  /\ ApartTidy(FramesOf(c), ClientOf(c), packet_map, lookup, file)
TidyInv ==
  /\ ether # input.size => NothingYet
  /\ phase = "capture" => Torn \notin Range(file)
  /\ ether = input.size => \A c \in Tidy : ConversationTidy(c)

(* What Tidy says of a conversation.                                       *)
TidyFacts(c) ==
  /\ c \in DOMAIN input.scripts /\ run \in IdsApart
  /\ OwnFrames(FramesOf(c), ClientOf(c)) /\ ClientOf(c) # <<>>
  /\ OwnConversation(input.scripts, c)

(* The frames of a tidy conversation are as the lemmas above want them.    *)
LEMMA TidyIs == ASSUME CaptureTypes, NEW c \in Tidy PROVE TidyFacts(c)
<1>1. run \in DOMAIN Runs
  BY DEF CaptureTypes
<1>2. PICK fr : fr = FramesOf(c)
  OBVIOUS
<1>3. /\ c \in DOMAIN input.scripts /\ run \in IdsApart /\ fr # <<>> /\ OwnConversation(input.scripts, c)
      /\ \A i \in DOMAIN fr : WholeFrame(fr[i]) /\ ClientEnd(fr[i]) = ClientEnd(fr[1])
      /\ InOrder(fr)
  BY <1>1, <1>2, Zenon DEF Tidy, TidyIn, input, FramesOf
<1>4. fr \in Seq(Range(fr)) /\ \A i \in DOMAIN fr : IsFrame(fr[i])
  BY <1>1, <1>2, <1>3, InputFacts DEF FramesOf
<1>5. PICK k : k = ClientOf(c) /\ k = ClientEnd(fr[1])
  BY <1>2 DEF ClientOf
<1>6. OwnFrames(fr, k)
  BY <1>3, <1>4, <1>5 DEF OwnFrames
<1>7. k # <<>>
  <2>1. PICK f : f = fr[1]
    OBVIOUS
  <2>2. \A x, y : <<x, y>> # <<>>
    OBVIOUS
  <2> QED BY <1>5, <2>1, <2>2 DEF ClientEnd
<1> QED BY <1>2, <1>3, <1>5, <1>6, <1>7 DEF TidyFacts

(* With the size of the link header a frame of a tidy conversation is read *)
(* as it was sent.                                                         *)
ReadAsSent(f, k) ==
  /\ IsTcp(f) /\ ~IsFragment(f) /\ ~has_fragments(packet_map, f.ip_id) /\ HasPort(f)
  /\ HeadOf(f).data = f.data /\ Tcp(f) = f.tcp /\ DataOf(f) = f.data
  /\ IsIn(f) = ToServer(f) /\ KeyOf(f) = k
  /\ f.data \in Seq(Units) /\ (f.tcp.th_flags = "FIN" => f.data = <<>>)

(* A datagram that was sent whole has no fragment flag set when it is      *)
(* read, in either byte order.                                             *)
LEMMA NoFragmentIs ==
  ASSUME NEW d, ~d.mf, d.off = 0, NEW little \in BOOLEAN
  PROVE  ~HasFlagMF(ip_off(d, little))
<1>1. 0 \div 256 = 0 /\ 0 % 256 = 0 /\ 256 * 0 + (0 + 0) = 0 /\ 256 * (0 + 0) + 0 = 0
  OBVIOUS
<1>2. ip_off(d, little) = 0
  BY <1>1 DEF ip_off
<1>3. (0 \div 8192) % 2 = 0
  BY SMT
<1> QED BY <1>2, <1>3, SMT DEF HasFlagMF, IP_MF

(* A frame of such a conversation is read as it was sent.                  *)
LEMMA ReadsAsSent ==
  ASSUME CaptureTypes, NEW c \in Tidy, c \in DOMAIN pos, ReadFrame(c), NEW f, f = Frame(c),
         EtherAfter(f) = input.size, IdsOf(FramesOf(c)) \cap DOMAIN packet_map = {}
  PROVE  ReadAsSent(f, ClientOf(c))
<1>1. PICK fr, k : fr = FramesOf(c) /\ k = ClientOf(c) /\ OwnFrames(fr, k)
  BY TidyIs DEF TidyFacts
<1>2. FrameFacts(f, c) /\ f \in Range(fr)
  BY <1>1, FrameIs DEF FrameFacts, FramesOf
<1>3. IsFrame(f) /\ WholeFrame(f) /\ ClientEnd(f) = k
  BY <1>1, <1>2 DEF OwnFrames, Range
<1>4. f.ip_id \notin DOMAIN packet_map
  BY <1>1, <1>2 DEF IdsOf, Range
<1>5. ~has_fragments(packet_map, f.ip_id)
  BY <1>4 DEF has_fragments
<1>6. HeadOf(f) = Payload(f) /\ DataOf(f) = f.data
  BY <1>5 DEF HeadOf, DataOf
<1>7. HeadOf(f).data = f.data /\ Tcp(f) = f.tcp
  BY <1>6 DEF Payload, Tcp
<1>8. f.proto = "tcp" /\ ~f.mf /\ f.off = 0 /\ f.tcp # Short
      /\ (ToServer(f) \/ (f.ip_src = MysqlIp /\ f.tcp.th_sport = MysqlPort))
      /\ WholeDatagram(f)
  BY <1>3 DEF WholeFrame
<1>9. f.caplen >= MIN_IP_HEADER_LEN
  BY <1>3, <1>8 DEF WholeDatagram, IsFrame, MIN_IP_HEADER_LEN
<1>10. IsTcp(f)
  BY <1>8, <1>9 DEF IsTcp
<1>11. ~IsFragment(f)
  <2>1. input.little \in BOOLEAN
    BY InputFacts DEF CaptureTypes
  <2> QED BY <1>8, <2>1, NoFragmentIs DEF IsFragment, Raw
<1>12. HasPort(f)
  BY <1>7, <1>8, <1>10, <1>11 DEF HasPort, ToServer
<1>13. IsIn(f) = ToServer(f)
  BY <1>7 DEF IsIn, ToServer
<1>14. KeyOf(f) = k
  BY <1>3, <1>7, <1>13 DEF KeyOf, ClientEnd
<1>15. f.data \in Seq(Units)
  BY <1>3, Zenon DEF IsFrame
<1>16. f.tcp.th_flags = "FIN" => f.data = <<>>
  BY <1>3 DEF WholeFrame
<1> QED BY <1>1, <1>5, <1>7, <1>6, <1>10, <1>11, <1>12, <1>13, <1>14, <1>15, <1>16 DEF ReadAsSent

(* A tidy conversation when the next frame of the capture is read.         *)
Before(c) ==
  /\ OwnTidy(FramesOf(c), pos[c], ClientOf(c), lookup, Appended(ClientOf(c)), file, input.record)
  /\ ApartTidy(FramesOf(c), ClientOf(c), packet_map, lookup, file)

(* A frame that is read with the right size finds each tidy conversation   *)
(* as the invariant says, the first frame too.                             *)
LEMMA BeforeFrame ==
  ASSUME CaptureInv, TidyInv, phase = "capture", NEW f, EtherAfter(f) = input.size, NEW c \in Tidy
  PROVE  Before(c) /\ Torn \notin Range(file)
<1>1. Torn \notin Range(file)
  BY DEF TidyInv
<1>2. CASE ether = input.size
  <2>1. ConversationTidy(c)
    BY <1>2 DEF TidyInv
  <2> QED BY <1>1, <2>1 DEF ConversationTidy, Before, OwnTidy, RecordsTidy
<1>3. CASE ether # input.size
  <2>1. ether = 0 /\ NothingYet
    BY <1>3 DEF EtherAfter, TidyInv
  <2>2. CaptureTypes /\ \A d \in DOMAIN pos : pos[d] = 0
    BY <2>1 DEF CaptureInv, HeaderFound
  <2>3. TidyFacts(c)
    BY <2>2, TidyIs
  <2>4. pos[c] = 0
    BY <2>2, <2>3 DEF TidyFacts, CaptureTypes
  <2>5. DOMAIN lookup = {} /\ file = <<>> /\ DOMAIN packet_map = {} /\ Appended(ClientOf(c)) = <<>>
    BY <2>1 DEF NothingYet, Appended
  <2>6. OwnTidy(FramesOf(c), pos[c], ClientOf(c), lookup, Appended(ClientOf(c)), file, input.record)
    BY <2>3, <2>4, <2>5, OwnStart DEF TidyFacts
  <2>7. ApartTidy(FramesOf(c), ClientOf(c), packet_map, lookup, file)
    <3>1. DOMAIN (<<>>) = {}
      OBVIOUS
    <3> QED BY <2>5, <3>1 DEF ApartTidy
  <2> QED BY <1>1, <2>6, <2>7 DEF Before
<1> QED BY <1>2, <1>3

(* After the frame it is so again.                                         *)
LEMMA AfterFrame ==
  ASSUME UNCHANGED run, NEW c, NEW app2,
         app2 = IF ClientOf(c) \in DOMAIN appended' THEN appended'[ClientOf(c)] ELSE <<>>,
         OwnTidy(FramesOf(c), pos'[c], ClientOf(c), lookup', app2, file', input.record /\ Torn \notin Range(file')),
         ApartTidy(FramesOf(c), ClientOf(c), packet_map', lookup', file')
  PROVE  ConversationTidy(c)'
<1>1. input' = input /\ FramesOf(c)' = FramesOf(c) /\ ClientOf(c)' = ClientOf(c)
  BY DEF input, FramesOf, ClientOf
<1>2. Appended(ClientOf(c))' = app2
  BY <1>1 DEF Appended
<1> QED BY <1>1, <1>2 DEF ConversationTidy

(* A frame of another conversation.                                        *)
LEMMA ForeignFrame ==
  ASSUME CaptureTypes, FragmentsKnown, NEW c \in Tidy, NEW d, d # c, NEW f, FrameFacts(f, d)
  PROVE  /\ f.ip_id \notin IdsOf(FramesOf(c)) /\ KeyOf(f) # ClientOf(c)
         /\ DataOf(f) \in Seq(Foreign(FramesOf(c)))
<1>1. TidyFacts(c)
  BY TidyIs
<1>2. d \in DOMAIN input.scripts
  BY DEF FrameFacts
<1>3. /\ f.ip_id \in IdsOf(input.scripts[d]) /\ KeyOf(f) \in EndsOf(input.scripts[d])
      /\ \A u \in UnitsOfId(f.ip_id) : ConnOf(u) \in ConnsOf(input.scripts[d])
  BY <1>1, OfConversation DEF TidyFacts
<1>4. ClientOf(c) \notin EndsOf(input.scripts[d]) /\ ConnsOf(FramesOf(c)) \cap ConnsOf(input.scripts[d]) = {}
  BY <1>1, <1>2 DEF TidyFacts, OwnConversation, ClientOf, FramesOf
<1>5. f.ip_id \notin IdsOf(FramesOf(c))
  BY <1>1, <1>2, <1>3 DEF TidyFacts, IdsApart, input, FramesOf
<1>6. PICK U, data : U = UnitsOfId(f.ip_id) /\ data = DataOf(f)
  OBVIOUS
<1>7. data \in Seq(U) /\ U \subseteq Units
  <2>1. f \in Heads(f.ip_id)
    BY DEF FrameFacts
  <2> QED BY <1>6, <2>1, DataIs, HeadsAre
<1>8. \A u \in U : u \in Foreign(FramesOf(c))
  BY <1>3, <1>4, <1>6, <1>7 DEF Foreign
<1>9. data \in Seq(Foreign(FramesOf(c)))
  BY <1>7, <1>8
<1> QED BY <1>3, <1>4, <1>5, <1>6, <1>9

(* A frame of another conversation keeps a tidy one as it is.              *)
LEMMA ForeignStep ==
  ASSUME CaptureInv, NEW c \in Tidy, Before(c), UNCHANGED run,
         NEW d \in DOMAIN pos, d # c, pos' = [pos EXCEPT ![d] = @ + 1],
         NEW kk, kk # ClientOf(c), NEW out, Changes(kk, lookup, lookup', file, out, file', input.record),
         kk \in DOMAIN lookup' => StreamIn(Foreign(FramesOf(c)), lookup'[kk]),
         RecordsIn(Foreign(FramesOf(c)), kk, out),
         IdsOf(FramesOf(c)) \cap DOMAIN packet_map' = {},
         Appended(ClientOf(c)) =
           IF ClientOf(c) \in DOMAIN appended' THEN appended'[ClientOf(c)] ELSE <<>>
  PROVE  ConversationTidy(c)'
<1>1. CaptureTypes /\ file \in Seq(RecordType) /\ TidyFacts(c) /\ c \in DOMAIN pos
  BY TidyIs DEF CaptureInv, CaptureTypes, TidyFacts
<1>2. PICK fr, k, p, app, record, look2, recs2, map2 :
        /\ fr = FramesOf(c) /\ k = ClientOf(c) /\ p = pos[c] /\ p = pos'[c] /\ app = Appended(ClientOf(c))
        /\ record = input.record /\ look2 = lookup' /\ recs2 = file' /\ map2 = packet_map'
  BY <1>1
<1>3. OwnTidy(fr, p, k, lookup, app, file, record) /\ ApartTidy(fr, k, packet_map, lookup, file)
  BY <1>2 DEF Before
<1>4. PICK all : all = (record /\ Torn \notin Range(recs2))
  OBVIOUS
<1>5. Changes(kk, lookup, look2, file, out, recs2, record) /\ kk # k /\ k # <<>>
  BY <1>1, <1>2 DEF TidyFacts
<1>6. OwnTidy(fr, p, k, look2, app, recs2, all)
  BY <1>1, <1>3, <1>4, <1>5, OwnOtherStep
<1>7. ApartTidy(fr, k, map2, look2, recs2)
  <2>1. kk \in DOMAIN look2 => StreamIn(Foreign(fr), look2[kk])
    BY <1>2
  <2>2. RecordsIn(Foreign(fr), kk, out) /\ IdsOf(fr) \cap DOMAIN map2 = {}
    BY <1>2
  <2> QED BY <1>1, <1>3, <1>5, <2>1, <2>2, ApartStep
<1> QED BY <1>2, <1>4, <1>6, <1>7, AfterFrame

(* Its own frame.                                                          *)
LEMMA OwnStep ==
  ASSUME CaptureInv, NEW c \in Tidy, Before(c), UNCHANGED <<run, packet_map>>,
         NEW out, Changes(ClientOf(c), lookup, lookup', file, out, file', input.record),
         NEW app2, app2 = IF ClientOf(c) \in DOMAIN appended' THEN appended'[ClientOf(c)] ELSE <<>>,
         OwnTidy(FramesOf(c), pos[c] + 1, ClientOf(c), lookup', app2, file',
                 input.record /\ Torn \notin Range(file')),
         c \in DOMAIN pos, pos' = [pos EXCEPT ![c] = @ + 1]
  PROVE  ConversationTidy(c)'
<1>1. CaptureTypes /\ file \in Seq(RecordType)
  BY DEF CaptureInv, CaptureTypes
<1>2. PICK fr, k, record, look2, recs2, map2 :
        /\ fr = FramesOf(c) /\ k = ClientOf(c) /\ pos'[c] = pos[c] + 1
        /\ record = input.record /\ look2 = lookup' /\ recs2 = file' /\ map2 = packet_map'
  OBVIOUS
<1>3. ApartTidy(fr, k, packet_map, lookup, file)
  BY <1>2 DEF Before
<1>4. IdsOf(fr) \cap DOMAIN map2 = {}
  BY <1>2, <1>3 DEF ApartTidy
<1>5. Changes(k, lookup, look2, file, out, recs2, record)
  BY <1>2
<1>6. ApartTidy(fr, k, map2, look2, recs2)
  BY <1>1, <1>3, <1>4, <1>5, ApartStep
<1> QED BY <1>2, <1>6, AfterFrame

(* What is written is what the records are, while the disk has room.       *)
LEMMA WriteGrows ==
  ASSUME CaptureTypes, phase = "capture", NEW rs \in Seq(RecordType), Write(rs),
         Torn \notin Range(file), \A i \in DOMAIN rs : rs[i].of # <<>>
  PROVE  /\ Grown(file, rs, file', input.record)
         /\ phase' = "capture" => Torn \notin Range(file')
<1>1. file \in Seq(RecordType) /\ Len(file) \in Nat /\ Len(rs) \in Nat /\ input.room \in Nat
      /\ input.record \in BOOLEAN
  <2>1. run \in DOMAIN Runs /\ file \in Seq(RecordType)
    BY DEF CaptureTypes
  <2> QED BY <2>1, InputFacts
<1>2. CASE ~input.record
  <2>1. file' = file
    BY <1>2 DEF Write
  <2> QED BY <1>2, <2>1 DEF Grown
<1>3. CASE input.record /\ DiskHolds(rs)
  <2>1. file' = file \o rs
    BY <1>3 DEF Write
  <2>2. Torn \notin Range(file \o rs)
    <3>1. \A x \in DOMAIN (file \o rs) :
            \/ \E j \in DOMAIN file : (file \o rs)[x] = file[j]
            \/ \E j \in DOMAIN rs : (file \o rs)[x] = rs[j]
      BY <1>1, ConcatProperties
    <3>2. \A j \in DOMAIN file : file[j] # Torn
      BY DEF Range
    <3>3. \A j \in DOMAIN rs : rs[j] # Torn
      BY DEF Torn
    <3> QED BY <3>1, <3>2, <3>3 DEF Range
  <2> QED BY <1>3, <2>1, <2>2 DEF Grown
<1>4. CASE input.record /\ ~DiskHolds(rs)
  <2>1. PICK m \in Int : m = input.room - Len(file)
    BY <1>1
  <2>2. m < Len(rs)
    BY <1>1, <1>4, <2>1 DEF DiskHolds
  <2>3. file' = Append(file \o SubSeq(rs, 1, m), Torn) /\ phase' = "failed"
    BY <1>4, <2>1 DEF Write
  <2> QED BY <1>4, <2>2, <2>3 DEF Grown
<1> QED BY <1>1, <1>2, <1>3, <1>4

(* Nothing written.                                                        *)
LEMMA GrownNot ==
  ASSUME NEW recs \in Seq(RecordType), NEW record \in BOOLEAN
  PROVE  Grown(recs, <<>>, recs, record)
<1>1. recs \o <<>> = recs
  OBVIOUS
<1> QED BY <1>1 DEF Grown

(* A step in which the streams, the file and what was appended stay as     *)
(* they are, of a frame that tidy conversations do not hear of.            *)
LEMMA UnheardStep ==
  ASSUME CaptureInv, NEW c \in Tidy, Before(c), UNCHANGED <<run, lookup, appended, file>>,
         NEW d \in DOMAIN pos, d # c, pos' = [pos EXCEPT ![d] = @ + 1],
         NEW f, FrameFacts(f, d),
         DOMAIN packet_map' \subseteq DOMAIN packet_map \cup {f.ip_id}
  PROVE  ConversationTidy(c)'
<1>1. CaptureTypes /\ FragmentsKnown /\ file \in Seq(RecordType) /\ input.record \in BOOLEAN
  <2>1. CaptureTypes /\ FragmentsKnown /\ file \in Seq(RecordType) /\ run \in DOMAIN Runs
    BY DEF CaptureInv, CaptureTypes
  <2> QED BY <2>1, InputFacts
<1>2. PICK kk : kk = KeyOf(f) /\ kk # ClientOf(c)
  BY <1>1, ForeignFrame
<1>3. ApartTidy(FramesOf(c), ClientOf(c), packet_map, lookup, file)
  BY DEF Before
<1>4. IdsOf(FramesOf(c)) \cap DOMAIN packet_map' = {}
  <2>1. f.ip_id \notin IdsOf(FramesOf(c))
    BY <1>1, ForeignFrame
  <2> QED BY <1>3, <2>1 DEF ApartTidy
<1>5. Changes(kk, lookup, lookup', file, <<>>, file', input.record)
  <2>1. <<>> \in Seq(RecordType) /\ DOMAIN (<<>>) = {}
    OBVIOUS
  <2>2. Grown(file, <<>>, file', input.record)
    BY <1>1, GrownNot
  <2> QED BY <2>1, <2>2 DEF Changes
<1>6. kk \in DOMAIN lookup' => StreamIn(Foreign(FramesOf(c)), lookup'[kk])
  BY <1>2, <1>3 DEF ApartTidy
<1>7. RecordsIn(Foreign(FramesOf(c)), kk, <<>>)
  <2>1. DOMAIN (<<>>) = {}
    OBVIOUS
  <2> QED BY <2>1 DEF RecordsIn
<1>8. Appended(ClientOf(c)) = IF ClientOf(c) \in DOMAIN appended' THEN appended'[ClientOf(c)] ELSE <<>>
  BY DEF Appended
<1> QED BY <1>2, <1>4, <1>5, <1>6, <1>7, <1>8, ForeignStep

(* A first fragment, a short one, and what is ignored.                     *)
LEMMA QuietTidy ==
  ASSUME CaptureInv, TidyInv, NEW d \in DOMAIN pos, EtherAfter(Frame(d)) = input.size,
         EnqueueFragment(d) \/ ShortFragment(d) \/ Ignored(d), NEW c \in Tidy
  PROVE  ConversationTidy(c)'
<1>1. PICK f : f = Frame(d)
  OBVIOUS
<1>2. /\ ReadFrame(d) /\ phase = "capture" /\ pos' = [pos EXCEPT ![d] = @ + 1]
      /\ UNCHANGED <<run, lookup, appended, file>>
  BY DEF EnqueueFragment, ShortFragment, Ignored, Handled, ReadFrame
<1>3. CaptureTypes /\ FragmentsKnown /\ FrameFacts(f, d) /\ Before(c)
  BY <1>1, <1>2, FrameIs, BeforeFrame DEF CaptureInv
<1>4. CASE d # c
  <2>1. DOMAIN packet_map' \subseteq DOMAIN packet_map \cup {f.ip_id}
    BY <1>1 DEF EnqueueFragment, ShortFragment, Ignored, enqueue
  <2> QED BY <1>2, <1>3, <1>4, <2>1, UnheardStep
<1>5. CASE d = c
  <2>1. ReadAsSent(f, ClientOf(c))
    <3>1. IdsOf(FramesOf(c)) \cap DOMAIN packet_map = {}
      BY <1>3 DEF Before, ApartTidy
    <3> QED BY <1>1, <1>2, <1>3, <1>5, <3>1, ReadsAsSent
  <2>2. Ignored(c) /\ ~Joins(f)
    BY <1>1, <1>5, <2>1 DEF ReadAsSent, EnqueueFragment, ShortFragment, Ignored
  <2>3. UNCHANGED packet_map
    BY <2>2 DEF Ignored
  <2>4. PICK fr, k, p, app, record :
          /\ fr = FramesOf(c) /\ k = ClientOf(c) /\ p = pos[c] /\ app = Appended(ClientOf(c))
          /\ record = input.record
    OBVIOUS
  <2>5. /\ OwnFrames(fr, k) /\ k # <<>> /\ p \in 0 .. Len(fr) /\ p < Len(fr) /\ f = fr[p + 1]
        /\ OwnTidy(fr, p, k, lookup, app, file, record)
        /\ file \in Seq(RecordType) /\ record \in BOOLEAN
    <3>1. TidyFacts(c) /\ run \in DOMAIN Runs
      BY <1>3, TidyIs DEF CaptureTypes
    <3> QED BY <1>1, <1>2, <1>3, <1>5, <2>4, <3>1, InputFacts
        DEF TidyFacts, CaptureTypes, Before, ReadFrame, Frame, FramesOf
  <2>6. k \notin DOMAIN lookup /\ ~Starts(f) /\ ~ToServer(f)
    BY <2>1, <2>2, <2>4 DEF Joins, ReadAsSent, Starts
  <2>7. f.data = <<>>
    <3>1. PICK l \in Nat : l = Len(fr) /\ DOMAIN fr = 1 .. l
      BY <2>5, LenProperties DEF OwnFrames
    <3>2. p \in Nat /\ p + 1 \in DOMAIN fr
      BY <2>5, <3>1
    <3>3. ASSUME f.data # <<>>
          PROVE  FALSE
      <4>1. PICK h \in 1 .. p + 1 : Starts(fr[h]) /\ NoFin(fr, h, p + 1)
        BY <2>5, <3>2, <3>3 DEF OwnFrames, InOrder
      <4>2. h # p + 1
        BY <2>5, <2>6, <4>1
      <4>3. h \in 1 .. p /\ h <= p /\ p <= p + 1 /\ h \in Nat
        BY <3>2, <4>1, <4>2
      <4>4. NoFin(fr, h, p)
        BY <3>2, <4>1, <4>3 DEF NoFin
      <4> QED BY <2>5, <2>6, <4>1, <4>3, <4>4 DEF OwnTidy, StreamTidy
    <3> QED BY <3>3
  <2>8. Unheard(k, lookup, lookup', f) /\ file' = file
    BY <1>2, <2>6 DEF Unheard
  <2>9. PICK all : all = (record /\ Torn \notin Range(file'))
    OBVIOUS
  <2>10. OwnTidy(fr, p + 1, k, lookup', app, file', all)
    BY <2>5, <2>7, <2>8, <2>9, OwnQuietStep
  <2>11. Changes(k, lookup, lookup', file, <<>>, file', record)
    <3>1. <<>> \in Seq(RecordType) /\ DOMAIN (<<>>) = {}
      OBVIOUS
    <3>2. Grown(file, <<>>, file', record)
      BY <1>2, <2>5, GrownNot
    <3> QED BY <1>2, <3>1, <3>2 DEF Changes
  <2>12. app = IF ClientOf(c) \in DOMAIN appended' THEN appended'[ClientOf(c)] ELSE <<>>
    BY <1>2, <2>4 DEF Appended
  <2> QED BY <1>2, <1>3, <1>5, <2>3, <2>4, <2>9, <2>10, <2>11, <2>12, OwnStep
<1> QED BY <1>4, <1>5

(* FIN and RST.                                                            *)
LEMMA StreamEndTidy ==
  ASSUME CaptureInv, TidyInv, NEW d \in DOMAIN pos, EtherAfter(Frame(d)) = input.size, StreamEnd(d)
  PROVE  /\ \A c \in Tidy : ConversationTidy(c)'
         /\ phase' = "capture" => Torn \notin Range(file')
<1>1. PICK f, kk : f = Frame(d) /\ kk = KeyOf(f)
  OBVIOUS
<1>2. PICK r : r = [key |-> get_key(lookup[kk], TRUE), in |-> TRUE, data |-> <<>>, of |-> kk]
  OBVIOUS
<1>3. /\ ReadFrame(d) /\ phase = "capture" /\ pos' = [pos EXCEPT ![d] = @ + 1]
      /\ kk \in DOMAIN lookup /\ Tcp(f).th_flags = "FIN" /\ Write(<<r>>)
      /\ lookup' = [x \in DOMAIN lookup \ {kk} |-> lookup[x]]
      /\ UNCHANGED <<run, packet_map, appended>>
  BY <1>1, <1>2 DEF StreamEnd, Handled, ReadFrame
<1>4. CaptureTypes /\ FragmentsKnown /\ StreamsKnown /\ FrameFacts(f, d) /\ file \in Seq(RecordType)
      /\ input.record \in BOOLEAN /\ Torn \notin Range(file)
  <2>1. CaptureTypes /\ run \in DOMAIN Runs
    BY DEF CaptureInv, CaptureTypes
  <2> QED BY <1>1, <1>3, <2>1, FrameIs, InputFacts DEF CaptureInv, CaptureTypes, TidyInv
<1>5. r \in RecordType /\ r.of = kk /\ r.data = <<>> /\ kk # <<>>
  <2>1. kk \in Ends /\ lookup[kk] \in StreamType
    BY <1>3, <1>4 DEF StreamsKnown, StreamOK
  <2>2. PICK e \in Ends : e = get_key(lookup[kk], TRUE)
    BY <2>1 DEF get_key, StreamType
  <2>3. TRUE \in BOOLEAN /\ <<>> \in Seq(Units)
    OBVIOUS
  <2>4. r \in [key : Ends, in : BOOLEAN, data : Seq(Units), of : Ends]
    BY <1>2, <2>1, <2>2, <2>3
  <2>5. kk # <<>>
    BY <2>1 DEF Ends
  <2> QED BY <1>2, <2>4, <2>5 DEF RecordType
<1>6. PICK out \in Seq(RecordType) : out = <<r>> /\ \A i \in DOMAIN out : out[i] = r
  <2>1. <<r>> \in Seq(RecordType) /\ \A i \in DOMAIN <<r>> : <<r>>[i] = r
    BY <1>5
  <2> QED BY <2>1
<1>7. Grown(file, out, file', input.record) /\ (phase' = "capture" => Torn \notin Range(file'))
  BY <1>3, <1>4, <1>5, <1>6, WriteGrows
<1>8. Changes(kk, lookup, lookup', file, out, file', input.record)
  BY <1>3, <1>5, <1>6, <1>7 DEF Changes
<1>9. ASSUME NEW c \in Tidy
      PROVE  ConversationTidy(c)'
  <2>1. Before(c)
    BY <1>1, <1>3, BeforeFrame
  <2>2. ApartTidy(FramesOf(c), ClientOf(c), packet_map, lookup, file)
    BY <2>1 DEF Before
  <2>3. IdsOf(FramesOf(c)) \cap DOMAIN packet_map' = {}
    BY <1>3, <2>2 DEF ApartTidy
  <2>4. Appended(ClientOf(c)) = IF ClientOf(c) \in DOMAIN appended' THEN appended'[ClientOf(c)] ELSE <<>>
    BY <1>3 DEF Appended
  <2>5. CASE d # c
    <3>1. kk # ClientOf(c)
      BY <1>1, <1>4, <2>5, ForeignFrame
    <3>2. kk \notin DOMAIN lookup'
      BY <1>3
    <3>3. RecordsIn(Foreign(FramesOf(c)), kk, out)
      <4>1. <<>> \in Seq(Foreign(FramesOf(c)))
        OBVIOUS
      <4> QED BY <1>5, <1>6, <4>1 DEF RecordsIn
    <3> QED BY <1>3, <1>8, <2>1, <2>3, <2>4, <2>5, <3>1, <3>2, <3>3, ForeignStep
  <2>6. CASE d = c
    <3>1. ReadAsSent(f, ClientOf(c))
      BY <1>1, <1>3, <1>4, <2>3, <2>6, ReadsAsSent
    <3>2. PICK fr, k, p, app, record :
            /\ fr = FramesOf(c) /\ k = ClientOf(c) /\ p = pos[c] /\ app = Appended(ClientOf(c))
            /\ record = input.record
      OBVIOUS
    <3>3. /\ OwnFrames(fr, k) /\ k # <<>> /\ p \in 0 .. Len(fr) /\ p < Len(fr) /\ f = fr[p + 1]
          /\ OwnTidy(fr, p, k, lookup, app, file, record)
          /\ record \in BOOLEAN
      <4>1. TidyFacts(c)
        BY <1>4, TidyIs
      <4> QED BY <1>1, <1>3, <1>4, <2>1, <2>6, <3>2, <4>1
          DEF TidyFacts, CaptureTypes, Before, ReadFrame, Frame, FramesOf
    <3>4. kk = k /\ f.data = <<>> /\ f.tcp.th_flags = "FIN"
      BY <1>1, <1>3, <3>1, <3>2 DEF ReadAsSent
    <3>5. Ended(k, lookup', f)
      BY <1>3, <3>4 DEF Ended
    <3>6. EndOf(r, k) /\ Grown(file, <<r>>, file', record)
      BY <1>5, <1>6, <1>7, <3>2, <3>4 DEF EndOf
    <3>7. PICK all : all = (record /\ Torn \notin Range(file'))
      OBVIOUS
    <3>8. OwnTidy(fr, p + 1, k, lookup', app, file', all)
      BY <1>4, <1>5, <3>3, <3>4, <3>5, <3>6, <3>7, OwnQuietStep
    <3> QED BY <1>3, <1>8, <2>1, <2>4, <2>6, <3>2, <3>4, <3>7, <3>8, OwnStep
  <2> QED BY <2>5, <2>6
<1> QED BY <1>7, <1>9

(* Everything else of a stream.                                            *)
LEMMA DataTidy ==
  ASSUME CaptureInv, TidyInv, NEW d \in DOMAIN pos, EtherAfter(Frame(d)) = input.size, Data(d)
  PROVE  /\ \A c \in Tidy : ConversationTidy(c)'
         /\ phase' = "capture" => Torn \notin Range(file')
<1>1. PICK f, kk, s : f = Frame(d) /\ kk = KeyOf(f) /\ s = StreamFor(f)
  OBVIOUS
<1>2. PICK seen : seen = IF HeadOf(f).data = <<>> THEN s ELSE [s EXCEPT !.last_tcp_seq = Tcp(f).th_seq]
  OBVIOUS
<1>3. PICK done : done = AppendData(seen, kk, DataOf(f), IsIn(f))
  OBVIOUS
<1>4. PICK goes \in BOOLEAN : goes <=> (HeadOf(f).data # <<>> /\ Passes(f, s))
  OBVIOUS
<1>5. PICK t, out : /\ t = IF goes THEN done.s ELSE seen
                    /\ out = IF goes THEN done.out ELSE <<>>
  OBVIOUS
<1>6. /\ ReadFrame(d) /\ phase = "capture" /\ pos' = [pos EXCEPT ![d] = @ + 1]
      /\ kk \in DOMAIN lookup => Tcp(f).th_flags # "FIN"
      /\ lookup' = [y \in DOMAIN lookup \cup {kk} |-> IF y = kk THEN t ELSE lookup[y]]
      /\ IF goes
         THEN /\ Write(out)
              /\ appended' = [y \in DOMAIN appended \cup {kk} |->
                               (IF y \in DOMAIN appended THEN appended[y] ELSE <<>>)
                                 \o (IF y = kk THEN DataOf(f) ELSE <<>>)]
         ELSE UNCHANGED <<appended, file, phase>>
      /\ UNCHANGED <<run, packet_map>>
  BY <1>1, <1>2, <1>3, <1>4, <1>5 DEF Data, Handled, ReadFrame
<1>7. CaptureTypes /\ FragmentsKnown /\ StreamsKnown /\ AppendedKnown /\ FrameFacts(f, d)
      /\ file \in Seq(RecordType) /\ input.record \in BOOLEAN /\ Torn \notin Range(file)
  <2>1. CaptureTypes /\ run \in DOMAIN Runs
    BY DEF CaptureInv, CaptureTypes
  <2> QED BY <1>1, <1>6, <2>1, FrameIs, InputFacts DEF CaptureInv, CaptureTypes, TidyInv
<1>8. HeaderFacts(f) /\ IsIn(f) \in BOOLEAN /\ kk # <<>>
  <2>1. HeaderFacts(f)
    BY <1>7, HeaderIs
  <2>2. KeyOf(f) # <<>>
    BY <2>1 DEF HeaderFacts, Ends
  <2> QED BY <1>1, <2>1, <2>2 DEF HeaderFacts
<1>9. StreamOK(kk, s) /\ StreamOK(kk, seen) /\ seen.open = s.open /\ seen.query = s.query /\ seen.more = s.more
      /\ (HeadOf(f).data = <<>> => seen = s)
      /\ (HeadOf(f).data # <<>> => seen.last_tcp_seq = Tcp(f).th_seq)
  <2>1. StreamOK(kk, s)
    BY <1>1, <1>7, StreamForOK
  <2> QED BY <1>2, <1>8, <2>1 DEF StreamOK, StreamType, HeaderFacts, starting_packet
<1>10. DataOf(f) \in Seq(Units)
  <2>1. PICK U, data : U = UnitsOfId(f.ip_id) /\ data = DataOf(f)
    OBVIOUS
  <2>2. data \in Seq(U) /\ U \subseteq Units
    BY <1>7, <2>1, DataIs, HeadsAre DEF FrameFacts
  <2>3. data \in Seq(Units)
    BY <2>2
  <2> QED BY <2>1, <2>3
<1>11. done.out \in Seq(RecordType)
  BY <1>3, <1>8, <1>9, <1>10, AppendDataOK DEF Result
<1>12. ASSUME NEW U \in SUBSET Units, DataOf(f) \in Seq(U), StreamIn(U, seen)
       PROVE  StreamIn(U, t) /\ RecordsIn(U, kk, out)
  <2>1. StreamIn(U, done.s) /\ RecordsIn(U, kk, done.out)
    BY <1>3, <1>8, <1>9, <1>12, AppendDataIn
  <2>2. DOMAIN (<<>>) = {}
    OBVIOUS
  <2> QED BY <1>5, <1>12, <2>1, <2>2 DEF RecordsIn
<1>13. out \in Seq(RecordType) /\ \A i \in DOMAIN out : out[i].of = kk
  <2>1. StreamIn(Units, seen)
    <3>1. PICK m \in Seq(Part) : m = seen.more
      BY <1>9 DEF StreamOK, StreamType
    <3>2. \A i \in DOMAIN m : m[i] \in Part
      OBVIOUS
    <3>3. \A i \in DOMAIN m : m[i].got \in Seq(Units)
      BY <3>2, Zenon DEF Part
    <3>4. seen.open \in Part
      BY <1>9 DEF StreamOK, StreamType
    <3>5. seen.open.got \in Seq(Units)
      BY <3>4 DEF Part
    <3> QED BY <3>1, <3>3, <3>5 DEF StreamIn
  <2>2. RecordsIn(Units, kk, out)
    BY <1>10, <1>12, <2>1
  <2>3. out \in Seq(RecordType)
    BY <1>5, <1>11
  <2> QED BY <2>2, <2>3 DEF RecordsIn
<1>14. Grown(file, out, file', input.record) /\ (phase' = "capture" => Torn \notin Range(file'))
  <2>1. CASE goes
    <3>1. Write(out) /\ \A i \in DOMAIN out : out[i].of # <<>>
      BY <1>6, <1>8, <1>13, <2>1
    <3> QED BY <1>6, <1>7, <1>13, <3>1, WriteGrows
  <2>2. CASE ~goes
    <3>1. out = <<>> /\ file' = file
      BY <1>5, <1>6, <2>2
    <3> QED BY <1>7, <3>1, GrownNot
  <2> QED BY <2>1, <2>2
<1>15. Changes(kk, lookup, lookup', file, out, file', input.record)
  BY <1>6, <1>13, <1>14 DEF Changes
<1>16. ASSUME NEW c \in Tidy
       PROVE  ConversationTidy(c)'
  <2>1. Before(c)
    BY <1>1, <1>6, BeforeFrame
  <2>2. ApartTidy(FramesOf(c), ClientOf(c), packet_map, lookup, file)
    BY <2>1 DEF Before
  <2>3. IdsOf(FramesOf(c)) \cap DOMAIN packet_map' = {}
    BY <1>6, <2>2 DEF ApartTidy
  <2>4. CASE d # c
    <3>1. kk # ClientOf(c) /\ DataOf(f) \in Seq(Foreign(FramesOf(c)))
      BY <1>1, <1>7, <2>4, ForeignFrame
    <3>2. PICK U \in SUBSET Units : U = Foreign(FramesOf(c))
      BY DEF Foreign
    <3>3. StreamIn(U, s)
      <4>1. CASE kk \in DOMAIN lookup
        BY <1>1, <2>2, <3>1, <3>2, <4>1 DEF StreamFor, ApartTidy
      <4>2. CASE kk \notin DOMAIN lookup
        <5>1. s = NewStream(f)
          BY <1>1, <4>2 DEF StreamFor
        <5>2. s.open.got = <<>> /\ s.more = <<>>
          BY <5>1 DEF NewStream, NoPacket
        <5> QED BY <5>2 DEF StreamIn
      <4> QED BY <4>1, <4>2
    <3>4. StreamIn(U, seen)
      BY <1>9, <3>3 DEF StreamIn
    <3>5. StreamIn(U, t) /\ RecordsIn(U, kk, out)
      BY <1>12, <3>1, <3>2, <3>4
    <3>6. kk \in DOMAIN lookup' => StreamIn(Foreign(FramesOf(c)), lookup'[kk])
      BY <1>6, <3>2, <3>5
    <3>7. Appended(ClientOf(c)) = IF ClientOf(c) \in DOMAIN appended' THEN appended'[ClientOf(c)] ELSE <<>>
      <4>1. CASE goes
        <5>1. PICK k : k = ClientOf(c) /\ k # kk
          BY <3>1
        <5>2. \A a \in Seq(Units) : a \o <<>> = a
          OBVIOUS
        <5>3. k \in DOMAIN appended' <=> k \in DOMAIN appended
          BY <1>6, <4>1, <5>1
        <5>4. k \in DOMAIN appended => appended'[k] = appended[k] \o <<>> /\ appended[k] \in Seq(Units)
          BY <1>6, <1>7, <4>1, <5>1 DEF AppendedKnown
        <5> QED BY <5>1, <5>2, <5>3, <5>4 DEF Appended
      <4>2. CASE ~goes
        BY <1>6, <4>2 DEF Appended
      <4> QED BY <4>1, <4>2
    <3> QED BY <1>6, <1>15, <2>1, <2>3, <2>4, <3>1, <3>2, <3>5, <3>6, <3>7, ForeignStep
  <2>5. CASE d = c
    <3>1. ReadAsSent(f, ClientOf(c))
      BY <1>1, <1>6, <1>7, <2>3, <2>5, ReadsAsSent
    <3>2. PICK fr, k, p, app, record :
            /\ fr = FramesOf(c) /\ k = ClientOf(c) /\ p = pos[c] /\ app = Appended(ClientOf(c))
            /\ record = input.record
      OBVIOUS
    <3>3. /\ OwnFrames(fr, k) /\ k # <<>> /\ p \in 0 .. Len(fr) /\ p < Len(fr) /\ f = fr[p + 1]
          /\ OwnTidy(fr, p, k, lookup, app, file, record)
          /\ record \in BOOLEAN
      <4>1. TidyFacts(c)
        BY <1>7, TidyIs
      <4> QED BY <1>1, <1>6, <1>7, <2>1, <2>5, <3>2, <4>1
          DEF TidyFacts, CaptureTypes, Before, ReadFrame, Frame, FramesOf
    <3>4. /\ kk = k /\ HeadOf(f).data = f.data /\ DataOf(f) = f.data /\ Tcp(f) = f.tcp
          /\ IsIn(f) = ToServer(f) /\ (f.tcp.th_flags = "FIN" => f.data = <<>>)
          /\ f.data \in Seq(Units)
      BY <1>1, <3>1, <3>2 DEF ReadAsSent
    <3>5. StreamOf(k, lookup, s)
      <4>1. CASE k \in DOMAIN lookup
        BY <1>1, <3>4, <4>1 DEF StreamFor, StreamOf
      <4>2. CASE k \notin DOMAIN lookup
        BY <1>1, <3>4, <4>2 DEF StreamFor, StreamOf, NewStream, Fresh
      <4> QED BY <4>1, <4>2
    <3>6. PICK all : all = (record /\ Torn \notin Range(file'))
      OBVIOUS
    <3>7. PICK app2 : app2 = IF ClientOf(c) \in DOMAIN appended' THEN appended'[ClientOf(c)] ELSE <<>>
      OBVIOUS
    <3>8. app2 = IF goes THEN app \o f.data ELSE app
      BY <1>6, <3>2, <3>4, <3>7 DEF Appended
    <3>9. k \in DOMAIN lookup' /\ lookup'[k] = t
      BY <1>6, <3>4
    <3>10. CASE f.data = <<>>
      <4>1. ~goes /\ t = s /\ app2 = app /\ file' = file
        BY <1>4, <1>5, <1>6, <1>9, <3>4, <3>8, <3>10
      <4>2. Found(k, lookup, lookup', f)
        BY <1>6, <3>4, <3>5, <3>9, <4>1 DEF Found, StreamOf
      <4>3. OwnTidy(fr, p + 1, k, lookup', app, file', all)
        BY <1>7, <3>3, <3>6, <3>10, <4>1, <4>2, OwnQuietStep
      <4> QED BY <1>6, <1>15, <2>1, <2>5, <3>2, <3>4, <3>6, <3>7, <4>1, <4>3, OwnStep
    <3>11. CASE f.data # <<>>
      <4>1. HasData(fr, k, p, lookup, f, s)
        BY <3>3, <3>5, <3>11 DEF HasData
      <4>2. SeenBy(f, s, seen) /\ StreamOK(k, seen)
        BY <1>9, <3>4, <3>11 DEF SeenBy
      <4>3. PICK in \in BOOLEAN : in = ToServer(f) /\ in = IsIn(f)
        BY <1>8, <3>4
      <4>4. goes <=> Lets(f, s)
        BY <1>4, <3>4, <3>11 DEF Passes, Lets, starting_packet
      <4>5. Goes(k, lookup, app, file, record, f, s, seen, in, lookup', app2, file')
        <5>1. done = AppendData(seen, k, f.data, in)
          BY <1>3, <3>4, <4>3
        <5>2. CASE goes
          BY <1>5, <1>14, <3>2, <3>8, <3>9, <4>4, <5>1, <5>2 DEF Goes
        <5>3. CASE ~goes
          BY <1>5, <1>6, <3>8, <3>9, <4>2, <4>4, <5>1, <5>3 DEF Goes
        <5> QED BY <5>2, <5>3
      <4>6. OwnTidy(fr, p, k, lookup, app, file, record) /\ record \in BOOLEAN
        BY <3>3
      <4>7. in = ToServer(f)
        BY <4>3
      <4>8. OwnTidy(fr, p + 1, k, lookup', app2, file', all)
        <5>1. PICK look2, recs2 : look2 = lookup' /\ recs2 = file'
          OBVIOUS
        <5>2. all => record /\ Torn \notin Range(recs2)
          BY <3>6, <5>1
        <5>3. Goes(k, lookup, app, file, record, f, s, seen, in, look2, app2, recs2)
          BY <4>5, <5>1
        <5>4. file \in Seq(RecordType)
          BY <1>7
        <5>5. OwnTidy(fr, p + 1, k, look2, app2, recs2, all)
          BY <4>1, <4>2, <4>6, <4>7, <5>2, <5>3, <5>4, OwnDataStep
        <5> QED BY <5>1, <5>5
      <4> QED BY <1>6, <1>15, <2>1, <2>5, <3>2, <3>4, <3>6, <3>7, <4>8, OwnStep
    <3> QED BY <3>10, <3>11
  <2> QED BY <2>4, <2>5
<1> QED BY <1>14, <1>16

(* Before the first frame.                                                 *)
LEMMA TidyInvInit == ASSUME Init PROVE TidyInv
<1>1. /\ phase = "capture" /\ file = <<>> /\ lookup = EmptyMap /\ packet_map = EmptyMap
      /\ appended = EmptyMap /\ pos = [c \in DOMAIN input.scripts |-> 0]
  BY DEF Init
<1>2. DOMAIN EmptyMap = {} /\ DOMAIN (<<>>) = {}
  BY DEF EmptyMap
<1>3. NothingYet
  BY <1>1, <1>2 DEF NothingYet
<1>4. Torn \notin Range(file)
  BY <1>1, <1>2 DEF Range
<1>5. ASSUME NEW c \in Tidy
      PROVE  ConversationTidy(c)
  <2>1. CaptureTypes
    BY CaptureInvInit DEF CaptureInv
  <2>2. TidyFacts(c) /\ pos[c] = 0
    BY <1>1, <2>1, TidyIs DEF TidyFacts
  <2>3. Appended(ClientOf(c)) = <<>> /\ DOMAIN lookup = {} /\ DOMAIN packet_map = {}
    BY <1>1, <1>2 DEF Appended
  <2>4. OwnTidy(FramesOf(c), pos[c], ClientOf(c), lookup, Appended(ClientOf(c)), file,
                input.record /\ Torn \notin Range(file))
    BY <1>1, <2>2, <2>3, OwnStart DEF TidyFacts
  <2>5. ApartTidy(FramesOf(c), ClientOf(c), packet_map, lookup, file)
    BY <1>1, <1>2, <2>3 DEF ApartTidy
  <2> QED BY <2>4, <2>5 DEF ConversationTidy
<1> QED BY <1>3, <1>4, <1>5 DEF TidyInv

(* With another size of the link header nothing is read.                   *)
LEMMA WrongSizeStep ==
  ASSUME CaptureInv, TidyInv, NEW d \in DOMAIN pos, EtherAfter(Frame(d)) # input.size,
         \/ Undetected(d) \/ EnqueueFragment(d) \/ ShortFragment(d)
         \/ Ignored(d) \/ StreamEnd(d) \/ Data(d)
  PROVE  TidyInv'
<1>1. ~IsTcp(Frame(d))
  BY DEF IsTcp
<1>2. Undetected(d) \/ Ignored(d)
  BY <1>1 DEF EnqueueFragment, IsFragment, ShortFragment, StreamEnd, Data, HasPort
<1>3. ether # input.size
  <2>1. run \in DOMAIN Runs
    BY DEF CaptureInv, CaptureTypes
  <2>2. input.size # 0
    BY <2>1, InputFacts
  <2> QED BY <2>2 DEF EtherAfter
<1>4. NothingYet /\ (phase = "capture" => Torn \notin Range(file))
  BY <1>3 DEF TidyInv
<1>5. ether' # input.size /\ UNCHANGED <<run, packet_map, lookup, appended, file>> /\ phase = "capture"
  BY <1>2, <1>3 DEF Undetected, Ignored, Handled, ReadFrame
<1>6. input' = input
  BY <1>5 DEF input
<1>7. NothingYet'
  BY <1>4, <1>5 DEF NothingYet
<1> QED BY <1>4, <1>5, <1>6, <1>7 DEF TidyInv

(* Every step.                                                             *)
LEMMA TidyInvStep == ASSUME CaptureInv, TidyInv, [Next]_vars PROVE TidyInv'
<1>1. ASSUME NEW d \in DOMAIN pos,
             \/ Undetected(d) \/ EnqueueFragment(d) \/ ShortFragment(d)
             \/ Ignored(d) \/ StreamEnd(d) \/ Data(d)
      PROVE  TidyInv'
  <2>1. CASE EtherAfter(Frame(d)) # input.size
    BY <1>1, <2>1, WrongSizeStep
  <2>2. CASE EtherAfter(Frame(d)) = input.size
    <3>1. input.size # 0
      BY InputFacts DEF CaptureInv, CaptureTypes
    <3>2. EnqueueFragment(d) \/ ShortFragment(d) \/ Ignored(d) \/ StreamEnd(d) \/ Data(d)
      BY <1>1, <2>2, <3>1 DEF Undetected
    <3>3. run' = run /\ ether' = input.size /\ phase = "capture"
      BY <2>2, <3>2 DEF EnqueueFragment, ShortFragment, Ignored, StreamEnd, Data, Handled, ReadFrame
    <3>4. input' = input /\ Tidy' = Tidy
      BY <3>3 DEF input, Tidy
    <3>5. (\A c \in Tidy : ConversationTidy(c)') /\ (phase' = "capture" => Torn \notin Range(file'))
      <4>1. CASE EnqueueFragment(d) \/ ShortFragment(d) \/ Ignored(d)
        <5>1. file' = file /\ Torn \notin Range(file)
          BY <3>3, <4>1 DEF EnqueueFragment, ShortFragment, Ignored, TidyInv
        <5> QED BY <2>2, <4>1, <5>1, QuietTidy
      <4>2. CASE StreamEnd(d)
        BY <2>2, <4>2, StreamEndTidy
      <4>3. CASE Data(d)
        BY <2>2, <4>3, DataTidy
      <4> QED BY <3>2, <4>1, <4>2, <4>3
    <3> QED BY <3>3, <3>4, <3>5 DEF TidyInv
  <2> QED BY <2>1, <2>2
<1>2. CASE Reopen \/ ReadBack \/ FileEnd \/ UNCHANGED vars
  <2>1. UNCHANGED <<run, pos, ether, packet_map, lookup, appended, file>>
    BY <1>2 DEF Reopen, ReadBack, FileEnd, vars, captureVars, ReadNext, ReadEnd, ReadKnown, ReadNew
  <2>2. phase' = "capture" => phase = "capture"
    BY <1>2 DEF Reopen, ReadBack, FileEnd, vars
  <2>3. input' = input /\ Tidy' = Tidy /\ (NothingYet' <=> NothingYet)
    BY <2>1 DEF input, Tidy, NothingYet
  <2>4. \A c : ConversationTidy(c)' <=> ConversationTidy(c)
    BY <2>1, <2>3 DEF ConversationTidy, FramesOf, ClientOf, Appended
  <2> QED BY <2>1, <2>2, <2>3, <2>4 DEF TidyInv
<1> QED BY <1>1, <1>2 DEF Next

(* The invariant holds throughout.                                         *)
THEOREM TidyInvariant == Spec => [](CaptureInv /\ TidyInv)
<1>1. Init => CaptureInv /\ TidyInv
  BY CaptureInvInit, TidyInvInit
<1>2. CaptureInv /\ TidyInv /\ [Next]_vars => (CaptureInv /\ TidyInv)'
  BY CaptureInvStep, TidyInvStep
<1> QED BY <1>1, <1>2, PTL DEF Spec

(* A tidy conversation, once the size of the link header is known.         *)
LEMMA TidyNow ==
  ASSUME CaptureInv, TidyInv, ether = input.size, NEW c \in Tidy
  PROVE  TidyFacts(c) /\ ConversationTidy(c)
BY TidyIs DEF TidyInv, CaptureInv

(* However often and in whatever order its segments are captured again,    *)
(* no part of a tidy conversation is appended twice: register_tcp_seq      *)
(* drops what was seen last, and data come again only before others.       *)
THEOREM AppendedOnce == Spec => []NotAppendedTwice
<1>1. ASSUME CaptureInv, TidyInv PROVE NotAppendedTwice
  <2>1. ASSUME NEW c \in Tidy, ClientOf(c) \in DOMAIN appended
        PROVE  IsInjective(appended[ClientOf(c)])
    <3>1. ether = input.size
      BY <1>1, <2>1 DEF TidyInv, NothingYet
    <3>2. ConversationTidy(c)
      BY <1>1, <2>1, <3>1, TidyNow
    <3> QED BY <2>1, <3>2 DEF ConversationTidy, OwnTidy, AppendedTidy, Appended
  <2> QED BY <2>1 DEF NotAppendedTwice
<1> QED BY <1>1, TidyInvariant, PTL

(* The records of a tidy conversation, as far as the disk holds them, are  *)
(* its queries in order, each followed by one EOF at most, and the other   *)
(* packets of the query behind that (handle_packet_complete).              *)
THEOREM FileInOrder == Spec => []RecordsInOrder
<1>1. ASSUME CaptureInv, TidyInv PROVE RecordsInOrder
  <2>1. ASSUME NEW c \in Tidy, NEW k, k = ClientOf(c)
        PROVE  /\ \A i \in Own(file, k) :
                    /\ KindOf(file[i]) = "EOF" => AfterQuery(file, k, i)
                    /\ KindOf(file[i]) \in {"Login", "More"} => AfterMore(file, k, i)
                    /\ KindOf(file[i]) # "Reply"
               /\ Rises(file, k)
    <3>1. CASE ether = input.size
      <4>1. ConversationTidy(c)
        BY <1>1, <3>1, TidyNow
      <4>2. PICK n \in Nat : Sound(file, k, n)
        BY <2>1, <4>1 DEF ConversationTidy, OwnTidy, RecordsTidy
      <4> QED BY <4>2 DEF Sound, RecordAt
    <3>2. CASE ether # input.size
      <4>1. file = <<>>
        BY <1>1, <3>2 DEF TidyInv, NothingYet
      <4>2. Own(file, k) = {}
        BY <4>1 DEF Own
      <4> QED BY <4>2 DEF Rises
    <3> QED BY <3>1, <3>2
  <2>2. \A k : RecordsOf(k) = Own(file, k) /\ \A i, j : JustBefore(k, i, j) <=> Just(file, k, i, j)
    BY DEF RecordsOf, Own, JustBefore, Just
  <2> QED BY <2>1, <2>2 DEF RecordsInOrder, Rises, AfterQuery, AfterMore
<1> QED BY <1>1, TidyInvariant, PTL

(* Every query of a tidy conversation that begins its segment, holds one   *)
(* of the words and was captured to its end is in the file, whole and once,*)
(* while nothing was cut off by a full disk.                               *)
THEOREM QueriesInFile == Spec => []QueriesRecorded
<1>1. ASSUME CaptureInv, TidyInv PROVE QueriesRecorded
  <2>1. ASSUME input.record, ether = input.size, Torn \notin Range(file),
               NEW c \in Tidy, NEW m \in DOMAIN Messages, CapturedWhole(m, c)
        PROVE  \E i \in DOMAIN file : \A j \in DOMAIN file : file[j].data = PartsOf(m) <=> j = i
    <3>1. PICK fr, k, p, app : fr = FramesOf(c) /\ k = ClientOf(c) /\ p = pos[c] /\ app = Appended(k)
      OBVIOUS
    <3>2. TidyFacts(c) /\ ConversationTidy(c)
      BY <1>1, <2>1, TidyNow
    <3>3. PICK n \in Nat : Sound(file, k, n) /\ AllRecorded(file, k, app)
      BY <2>1, <3>1, <3>2 DEF ConversationTidy, OwnTidy, RecordsTidy
    <3>4. Begun(fr, p, m) /\ Messages[m].kind = "Query"
      BY <2>1, <3>1 DEF CapturedWhole, Begun
    <3>5. <<m, Messages[m].units>> \in Captured(fr, p)
      BY <2>1, <3>1 DEF CapturedWhole, Captured, Range
    <3>6. <<m, Messages[m].units>> \in Range(app)
      <4>1. QueriesTidy(fr, p, k, lookup, app)
        BY <3>1, <3>2 DEF ConversationTidy, OwnTidy
      <4>2. PICK u : u = <<m, Messages[m].units>>
        OBVIOUS
      <4>3. u[1] = m
        BY <4>2
      <4> QED BY <3>4, <3>5, <4>1, <4>2, <4>3 DEF QueriesTidy
    <3>7. PICK i \in Own(file, k) : file[i].data = PartsOf(m)
      BY <3>3, <3>4, <3>6 DEF AllRecorded, RecordedIn
    <3>8. PartsOf(m)[1] = <<m, 1>> /\ PartsOf(m) # <<>> /\ m \in Nat
      BY PartsAre
    <3>9. ASSUME NEW j \in DOMAIN file, file[j].data = PartsOf(m)
          PROVE  j = i
      <4>1. CASE file[j].of = k
        <5>1. j \in Own(file, k) /\ i \in Own(file, k) /\ i \in Nat /\ j \in Nat
          <6>1. file \in Seq(RecordType)
            BY <1>1 DEF CaptureInv, CaptureTypes
          <6>2. DOMAIN file = 1 .. Len(file) /\ Len(file) \in Nat
            BY <6>1, LenProperties
          <6> QED BY <3>9, <4>1, <6>2 DEF Own
        <5>2. IsQueryRecord(file[i]) /\ IsQueryRecord(file[j])
          BY <3>4, <3>7, <3>8, <3>9 DEF IsQueryRecord, KindOf
        <5>3. file[i].data[1][1] = m /\ file[j].data[1][1] = m
          BY <3>7, <3>8, <3>9
        <5>4. ~(i < j) /\ ~(j < i)
          BY <3>3, <3>8, <5>1, <5>2, <5>3 DEF Sound, Rises
        <5> QED BY <5>1, <5>4
      <4>2. CASE file[j].of # k
        <5>1. PICK data \in Seq(Foreign(fr)) : data = file[j].data
          BY <3>1, <3>2, <3>9, <4>2 DEF ConversationTidy, ApartTidy
        <5>2. 1 \in DOMAIN data
          BY <3>8, <3>9, <5>1
        <5>3. <<m, 1>> \in Foreign(fr)
          BY <3>8, <3>9, <5>1, <5>2
        <5>4. PICK h \in 1 .. p : fr[h].data # <<>> /\ fr[h].data[1] = <<m, 1>>
          BY <3>4 DEF Begun
        <5>5. h \in DOMAIN fr /\ 1 \in DOMAIN fr[h].data
          <6>1. PICK l \in Nat : l = Len(fr) /\ DOMAIN fr = 1 .. l /\ p \in 0 .. l
            <7>1. CaptureTypes
              BY <1>1 DEF CaptureInv
            <7> QED BY <3>1, <3>2, <7>1, LenProperties DEF TidyFacts, OwnFrames, CaptureTypes, FramesOf
          <6>2. h \in DOMAIN fr
            BY <6>1
          <6>3. PICK d \in Seq(Units) : d = fr[h].data
            BY <3>1, <3>2, <6>2, Zenon DEF TidyFacts, OwnFrames, IsFrame
          <6>4. 1 \in DOMAIN d
            BY <5>4, <6>3
          <6> QED BY <6>2, <6>3, <6>4
        <5>6. ConnOf(<<m, 1>>) \in ConnsOf(fr)
          BY <5>4, <5>5 DEF ConnsOf
        <5> QED BY <5>3, <5>6 DEF Foreign
      <4> QED BY <4>1, <4>2
    <3> QED BY <3>7, <3>9 DEF Own
  <2> QED BY <2>1 DEF QueriesRecorded
<1> QED BY <1>1, TidyInvariant, PTL
=============================================================================
