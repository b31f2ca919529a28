---------------------------- MODULE CaptureProofs ----------------------------
(***************************************************************************)
(* Proofs about Capture, for any conversations, cut into any fragments,    *)
(* captured in any part and interleaved in any way, and any disk: what is  *)
(* read back from a replay file, the size of the link header, the          *)
(* fragment lists, and that no two connections are mixed.                  *)
(***************************************************************************)
EXTENDS Capture, InductionLemmas, SequenceTheorems

(***************************************************************************)
(* Reading a replay file back.  ReadInv says in addition to ReadBackWhole  *)
(* what the table of streams stands for: the stream a key has now holds    *)
(* the packets of that key since its last end, and a key without a stream  *)
(* has none since then.                                                    *)
(***************************************************************************)

Whole == {i \in 1 .. rpos : file[i].data # <<>>}
Of(i, k) == file[i].key = k /\ ~EndBetween(i, rpos)

ReadTypes(R) ==
  /\ file \in Seq(R) /\ rpos \in 0 .. Len(file)
  /\ rstreams \in Seq(Seq(Nat))
  /\ \A k \in DOMAIN rlookup :
       /\ rlookup[k] \in DOMAIN rstreams
       /\ \A l \in DOMAIN rlookup : rlookup[k] = rlookup[l] => k = l
Ascending ==
  \A n \in DOMAIN rstreams : \A x, y \in DOMAIN rstreams[n] :
    /\ rstreams[n][x] \in Whole
    /\ x < y => rstreams[n][x] < rstreams[n][y]
Current ==
  /\ \A k \in DOMAIN rlookup : \A i \in Whole : InStream(rlookup[k], i) <=> Of(i, k)
  /\ \A i \in Whole : file[i].key \notin DOMAIN rlookup => EndBetween(i, rpos)
Together ==
  \A i, j \in Whole : i <= j =>
    ((\E n \in DOMAIN rstreams : InStream(n, i) /\ InStream(n, j))
       <=> (file[i].key = file[j].key /\ ~EndBetween(i, j)))
ReadInv(R) == ReadTypes(R) /\ Ascending /\ Current /\ Together

(* What one record does to the positions read.                             *)
LEMMA WholeGrows ==
  ASSUME NEW R, ReadInv(R), rpos' = rpos + 1, UNCHANGED file
  PROVE  /\ file[rpos + 1].data # <<>> => Whole' = Whole \cup {rpos + 1}
         /\ file[rpos + 1].data = <<>> => Whole' = Whole
BY DEF ReadInv, ReadTypes, Whole

(* An end comes in between exactly if it is this record.                   *)
LEMMA EndGrows ==
  ASSUME NEW R, ReadInv(R), rpos' = rpos + 1, UNCHANGED file, NEW i \in 1 .. rpos
  PROVE  EndBetween(i, rpos)' <=>
           (EndBetween(i, rpos) \/ (file[rpos + 1].data = <<>> /\ file[rpos + 1].key = file[i].key))
<1>1. i \in Int /\ rpos \in Int /\ i .. rpos' = (i .. rpos) \cup {rpos + 1}
  BY DEF ReadInv, ReadTypes
<1> QED
  BY <1>1 DEF EndBetween

(* Nothing is read at first.                                               *)
LEMMA ReadInvInit == ASSUME NEW R, file \in Seq(R), ReadInit PROVE ReadInv(R)
BY DEF ReadInit, ReadInv, ReadTypes, Ascending, Current, Together, Whole, EmptyMap

(* An end takes away the stream of its key.                                *)
LEMMA ReadEndStep == ASSUME NEW R, ReadInv(R), ReadEnd PROVE ReadInv(R)'
<1> USE DEF ReadEnd
<1> DEFINE k0 == file[rpos + 1].key
<1>1. /\ rpos' = rpos + 1 /\ file' = file /\ rstreams' = rstreams
      /\ rlookup' = [x \in DOMAIN rlookup \ {k0} |-> rlookup[x]]
      /\ file[rpos + 1].data = <<>> /\ rpos < Len(file)
  BY DEF NextRecord, Readable, Forget
<1>2. Whole' = Whole
  BY <1>1, WholeGrows
<1>3. ReadTypes(R)'
  BY <1>1 DEF ReadInv, ReadTypes
<1>4. Ascending'
  BY <1>1, <1>2 DEF ReadInv, Ascending
<1>5. ASSUME NEW i \in Whole
      PROVE EndBetween(i, rpos)' <=> (EndBetween(i, rpos) \/ file[i].key = k0)
  BY <1>1, EndGrows DEF Whole
<1>6. Current'
  <2>1. ASSUME NEW k \in DOMAIN rlookup', NEW i \in Whole
        PROVE InStream(rlookup[k], i)' <=> Of(i, k)'
    <3>1. k \in DOMAIN rlookup /\ k # k0 /\ rlookup'[k] = rlookup[k]
      BY <1>1
    <3>2. InStream(rlookup[k], i) <=> Of(i, k)
      BY <3>1 DEF ReadInv, Current
    <3> QED
      BY <3>1, <3>2, <1>1, <1>5 DEF InStream, Of
  <2>2. ASSUME NEW i \in Whole, file[i].key \notin DOMAIN rlookup'
        PROVE EndBetween(i, rpos)'
    BY <2>2, <1>1, <1>5 DEF ReadInv, Current
  <2> QED
    BY <2>1, <2>2, <1>1, <1>2 DEF Current
<1>7. Together'
  BY <1>1, <1>2 DEF ReadInv, Together, InStream, EndBetween
<1> QED
  BY <1>3, <1>4, <1>6, <1>7 DEF ReadInv

(* The steps that put a packet into stream n0: in each, the position of    *)
(* the packet is in no other stream and comes last in this one.            *)
LEMMA PacketStep ==
  ASSUME NEW R, ReadInv(R), NEW n0 \in Nat, NEW k0, NEW p \in Nat,
         p = rpos + 1, rpos' = p, file' = file, rpos < Len(file),
         file[p].data # <<>>, k0 = file[p].key,
         DOMAIN rlookup' = DOMAIN rlookup \cup {k0}, rlookup'[k0] = n0,
         \A k \in DOMAIN rlookup : k # k0 => rlookup'[k] = rlookup[k] /\ rlookup[k] # n0,
         \A n \in DOMAIN rstreams', i \in Nat :
           InStream(n, i)' <=> ((n \in DOMAIN rstreams /\ InStream(n, i)) \/ (n = n0 /\ i = p)),
         n0 \in DOMAIN rstreams', DOMAIN rstreams \subseteq DOMAIN rstreams',
         \A i \in Whole : (n0 \in DOMAIN rstreams /\ InStream(n0, i)) <=> Of(i, k0)
  PROVE  Current' /\ Together'
<1>1. /\ Whole' = Whole \cup {p} /\ p \in Nat /\ \A i \in Whole : i \in Nat /\ i \in 1 .. rpos /\ i < p
  BY WholeGrows DEF ReadInv, ReadTypes, Whole
<1>2. ASSUME NEW i \in Whole PROVE EndBetween(i, rpos)' <=> EndBetween(i, rpos)
  BY <1>1, EndGrows
<1>3. ~EndBetween(p, rpos)' /\ ~EndBetween(p, p) /\ ~EndBetween(p, p)'
  <2>1. p .. p = {p} /\ p .. rpos' = {p}
    BY <1>1
  <2> QED
    BY <2>1 DEF EndBetween
<1>4. ASSUME NEW i \in Whole PROVE EndBetween(i, p)' <=> EndBetween(i, rpos)
  <2>1. i .. p = (i .. rpos) \cup {p}
    BY <1>1 DEF ReadInv, ReadTypes
  <2> QED
    BY <2>1 DEF EndBetween
<1>5. ASSUME NEW n \in DOMAIN rstreams, InStream(n, p) PROVE FALSE
  BY <1>1, <1>5 DEF ReadInv, Ascending, InStream
<1>6. Current'
  <2>1. ASSUME NEW k \in DOMAIN rlookup', NEW i \in Whole'
        PROVE InStream(rlookup[k], i)' <=> Of(i, k)'
    <3>1. CASE k = k0 /\ i = p
      BY <3>1, <1>1, <1>3 DEF Of
    <3>2. CASE k = k0 /\ i \in Whole
      <4>1. InStream(n0, i)' <=> Of(i, k0)
        BY <3>2, <1>1
      <4> QED
        BY <4>1, <3>2, <1>2 DEF Of, InStream
    <3>3. CASE k # k0
      <4>1. k \in DOMAIN rlookup /\ rlookup'[k] = rlookup[k] /\ rlookup[k] # n0
        BY <3>3
      <4>2. rlookup[k] \in DOMAIN rstreams /\ rlookup[k] \in DOMAIN rstreams'
        BY <4>1 DEF ReadInv, ReadTypes
      <4>3. InStream(rlookup[k], i)' <=> InStream(rlookup[k], i)
        <5>1. i \in Nat
          BY <1>1
        <5>2. \A n \in DOMAIN rstreams' : n # n0 /\ n \in DOMAIN rstreams =>
                (InStream(n, i)' <=> InStream(n, i))
          BY <5>1
        <5> QED
          BY <5>2, <4>1, <4>2 DEF InStream
      <4>4. CASE i = p
        BY <4>4, <4>3, <4>2, <1>5, <3>3 DEF Of
      <4>5. CASE i \in Whole
        BY <4>5, <4>1, <4>3, <1>2 DEF Of, ReadInv, Current
      <4> QED
        BY <4>4, <4>5, <1>1
    <3> QED
      BY <3>1, <3>2, <3>3, <1>1
  <2>2. ASSUME NEW i \in Whole', file'[i].key \notin DOMAIN rlookup'
        PROVE EndBetween(i, rpos)'
    BY <2>2, <1>1, <1>2 DEF ReadInv, Current
  <2> QED
    BY <2>1, <2>2 DEF Current
<1>7. Together'
  <2> SUFFICES ASSUME NEW i \in Whole', NEW j \in Whole', i <= j
               PROVE (\E n \in DOMAIN rstreams' : InStream(n, i)' /\ InStream(n, j)')
                       <=> (file[i].key = file[j].key /\ ~EndBetween(i, j)')
    BY DEF Together
  <2>1. CASE i \in Whole /\ j \in Whole
    <3>1. \A n \in DOMAIN rstreams' : (InStream(n, i)' /\ InStream(n, j)')
            <=> (n \in DOMAIN rstreams /\ InStream(n, i) /\ InStream(n, j))
      BY <2>1, <1>1
    <3>2. EndBetween(i, j)' <=> EndBetween(i, j)
      BY DEF EndBetween
    <3> QED
      BY <2>1, <3>1, <3>2 DEF ReadInv, Together
  <2>2. CASE i \in Whole /\ j = p
    <3>1. \A n \in DOMAIN rstreams' : InStream(n, p)' <=> n = n0
      BY <1>1, <1>5
    <3>2. InStream(n0, i)' <=> Of(i, k0)
      BY <2>2, <1>1
    <3> QED
      BY <2>2, <3>1, <3>2, <1>4 DEF Of
  <2>3. CASE i = p /\ j = p
    BY <2>3, <1>1, <1>3
  <2> QED
    BY <2>1, <2>2, <2>3, <1>1
<1> QED
  BY <1>6, <1>7

(* A packet of a key with a stream.                                        *)
LEMMA ReadKnownStep == ASSUME NEW R, ReadInv(R), ReadKnown PROVE ReadInv(R)'
<1> USE DEF ReadKnown
<1>1. PICK p, k0 : p \in Nat /\ p = rpos + 1 /\ k0 = file[p].key
  BY DEF ReadInv, ReadTypes
<1>2. PICK n0 : n0 = rlookup[k0]
  OBVIOUS
<1>3. /\ rpos' = p /\ file' = file /\ rlookup' = rlookup
      /\ rpos < Len(file) /\ file[p].data # <<>> /\ k0 \in DOMAIN rlookup
      /\ rstreams' = [rstreams EXCEPT ![n0] = Append(@, p)]
  BY <1>1, <1>2 DEF NextRecord, Readable
<1>4. /\ n0 \in DOMAIN rstreams /\ n0 \in Nat /\ DOMAIN rstreams' = DOMAIN rstreams
      /\ rstreams[n0] \in Seq(Nat)
      /\ DOMAIN rstreams'[n0] = DOMAIN rstreams[n0] \cup {Len(rstreams[n0]) + 1}
      /\ rstreams'[n0][Len(rstreams[n0]) + 1] = p
      /\ \A x \in DOMAIN rstreams[n0] : rstreams'[n0][x] = rstreams[n0][x]
      /\ \A n \in DOMAIN rstreams : n # n0 => rstreams'[n] = rstreams[n]
  <2>1. n0 \in DOMAIN rstreams /\ n0 \in Nat /\ rstreams[n0] \in Seq(Nat)
    BY SMTT(30), <1>2, <1>3 DEF ReadInv, ReadTypes
  <2>2. /\ DOMAIN rstreams' = DOMAIN rstreams /\ rstreams'[n0] = Append(rstreams[n0], p)
        /\ \A n \in DOMAIN rstreams : n # n0 => rstreams'[n] = rstreams[n]
    BY <2>1, <1>3 DEF ReadInv, ReadTypes
  <2>3. PICK s : s = rstreams[n0] /\ s \in Seq(Nat) /\ rstreams'[n0] = Append(s, p)
    BY <2>1, <2>2
  <2>4. /\ DOMAIN Append(s, p) = DOMAIN s \cup {Len(s) + 1} /\ Append(s, p)[Len(s) + 1] = p
        /\ \A x \in DOMAIN s : Append(s, p)[x] = s[x]
    BY <2>3, <1>1
  <2> QED
    BY <2>1, <2>2, <2>3, <2>4
<1>5. Whole' = Whole \cup {p} /\ \A i \in Whole : i \in Nat /\ i < p
  BY <1>1, <1>3, WholeGrows DEF ReadInv, ReadTypes, Whole
<1>6. ReadTypes(R)'
  <2>1. rstreams' \in Seq(Seq(Nat))
    <3>1. Append(rstreams[n0], p) \in Seq(Nat)
      BY <1>1, <1>4
    <3>2. rstreams \in Seq(Seq(Nat)) /\ rstreams' = [rstreams EXCEPT ![n0] = Append(rstreams[n0], p)]
      BY <1>3 DEF ReadInv, ReadTypes
    <3> QED
      BY <3>1, <3>2, <1>4
  <2> QED
    BY <2>1, <1>1, <1>3, <1>4 DEF ReadInv, ReadTypes
<1>7. Ascending'
  <2> SUFFICES ASSUME NEW n \in DOMAIN rstreams', NEW x \in DOMAIN rstreams'[n],
                      NEW y \in DOMAIN rstreams'[n]
               PROVE  rstreams'[n][x] \in Whole' /\ (x < y => rstreams'[n][x] < rstreams'[n][y])
    BY DEF Ascending
  <2>1. CASE n # n0
    BY <2>1, <1>4, <1>5 DEF ReadInv, Ascending
  <2>2. CASE n = n0
    <3>1. \A z \in DOMAIN rstreams[n0] :
            z \in 1 .. Len(rstreams[n0]) /\ rstreams[n0][z] \in Whole
      BY <1>4 DEF ReadInv, Ascending
    <3>2. \A z, w \in DOMAIN rstreams[n0] : z < w => rstreams[n0][z] < rstreams[n0][w]
      BY <1>4 DEF ReadInv, Ascending
    <3>3. Len(rstreams[n0]) \in Nat
      BY <1>4
    <3>4. x \in DOMAIN rstreams[n0] \/ x = Len(rstreams[n0]) + 1
      BY <2>2, <1>4
    <3>5. y \in DOMAIN rstreams[n0] \/ y = Len(rstreams[n0]) + 1
      BY <2>2, <1>4
    <3> QED
      BY SMTT(30), <3>1, <3>2, <3>3, <3>4, <3>5, <2>2, <1>4, <1>5
  <2> QED
    BY <2>1, <2>2
<1>8. Current' /\ Together'
  <2>1. \A n \in DOMAIN rstreams', i \in Nat :
          InStream(n, i)' <=> ((n \in DOMAIN rstreams /\ InStream(n, i)) \/ (n = n0 /\ i = p))
    <3> SUFFICES ASSUME NEW n \in DOMAIN rstreams, NEW i \in Nat
                 PROVE  InStream(n, i)' <=> (InStream(n, i) \/ (n = n0 /\ i = p))
      BY <1>4
    <3>1. CASE n # n0
      BY <3>1, <1>4 DEF InStream
    <3>2. CASE n = n0
      BY <3>2, <1>4 DEF InStream
    <3> QED
      BY <3>1, <3>2
  <2>2. \A k \in DOMAIN rlookup : k # k0 => rlookup'[k] = rlookup[k] /\ rlookup[k] # n0
    BY <1>2, <1>3 DEF ReadInv, ReadTypes
  <2>3. \A i \in Whole : (n0 \in DOMAIN rstreams /\ InStream(n0, i)) <=> Of(i, k0)
    BY <1>2, <1>3, <1>4 DEF ReadInv, Current
  <2>4. DOMAIN rlookup' = DOMAIN rlookup \cup {k0} /\ rlookup'[k0] = n0
    BY ZenonT(30), <1>2, <1>3
  <2> QED
    BY SMTT(30), <2>1, <2>2, <2>3, <2>4, <1>1, <1>3, <1>4, PacketStep
<1> QED
  BY <1>6, <1>7, <1>8 DEF ReadInv

(* A packet of a key without one.                                          *)
LEMMA ReadNewStep == ASSUME NEW R, ReadInv(R), ReadNew PROVE ReadInv(R)'
<1> USE DEF ReadNew
<1>1. PICK p, k0 : p \in Nat /\ p = rpos + 1 /\ k0 = file[p].key
  BY DEF ReadInv, ReadTypes
<1>2. PICK n0 \in Nat : n0 = Len(rstreams) + 1
  BY DEF ReadInv, ReadTypes
<1>3. /\ rpos' = p /\ file' = file
      /\ rpos < Len(file) /\ file[p].data # <<>> /\ k0 \notin DOMAIN rlookup
      /\ rstreams' = Append(rstreams, <<p>>)
      /\ rlookup' = [x \in DOMAIN rlookup \cup {k0} |-> IF x = k0 THEN n0 ELSE rlookup[x]]
  BY <1>1, <1>2 DEF NextRecord, Readable
<1>4. /\ n0 \notin DOMAIN rstreams /\ DOMAIN rstreams' = DOMAIN rstreams \cup {n0}
      /\ rstreams'[n0] = <<p>>
      /\ \A n \in DOMAIN rstreams : rstreams'[n] = rstreams[n]
  BY <1>2, <1>3 DEF ReadInv, ReadTypes
<1>5. Whole' = Whole \cup {p} /\ \A i \in Whole : i \in Nat /\ i < p
  BY <1>1, <1>3, WholeGrows DEF ReadInv, ReadTypes, Whole
<1>6. ReadTypes(R)'
  <2>1. rstreams' \in Seq(Seq(Nat))
    BY <1>1, <1>3 DEF ReadInv, ReadTypes
  <2>2. \A k \in DOMAIN rlookup' :
          /\ rlookup'[k] \in DOMAIN rstreams'
          /\ \A l \in DOMAIN rlookup' : rlookup'[k] = rlookup'[l] => k = l
    BY <1>3, <1>4 DEF ReadInv, ReadTypes
  <2> QED
    BY <2>1, <2>2, <1>1, <1>3 DEF ReadInv, ReadTypes
<1>7. Ascending'
  BY <1>4, <1>5 DEF ReadInv, Ascending
<1>8. Current' /\ Together'
  <2>1. \A n \in DOMAIN rstreams', i \in Nat :
          InStream(n, i)' <=> ((n \in DOMAIN rstreams /\ InStream(n, i)) \/ (n = n0 /\ i = p))
    BY <1>4 DEF InStream
  <2>2. \A k \in DOMAIN rlookup : k # k0 => rlookup'[k] = rlookup[k] /\ rlookup[k] # n0
    BY <1>3, <1>4 DEF ReadInv, ReadTypes
  <2>3. \A i \in Whole : (n0 \in DOMAIN rstreams /\ InStream(n0, i)) <=> Of(i, k0)
    BY <1>3, <1>4 DEF ReadInv, Current, Of
  <2>4. DOMAIN rlookup' = DOMAIN rlookup \cup {k0} /\ rlookup'[k0] = n0
    BY <1>3
  <2>5. n0 \in DOMAIN rstreams' /\ DOMAIN rstreams \subseteq DOMAIN rstreams'
    BY <1>4
  <2>6. rpos' = p /\ file' = file /\ rpos < Len(file) /\ file[p].data # <<>>
    BY <1>3
  <2> HIDE DEF ReadNew
  <2> QED
    BY <2>1, <2>2, <2>3, <2>4, <2>5, <2>6, <1>1, PacketStep
<1> QED
  BY <1>6, <1>7, <1>8 DEF ReadInv

(* Every record.                                                           *)
LEMMA ReadInvStep == ASSUME NEW R, ReadInv(R), [ReadNext]_<<file, readVars>> PROVE ReadInv(R)'
<1>1. CASE UNCHANGED <<file, readVars>>
  <2>1. file' = file /\ rpos' = rpos /\ rlookup' = rlookup /\ rstreams' = rstreams
    BY <1>1 DEF readVars
  <2>2. ReadTypes(R)'
    BY <2>1 DEF ReadInv, ReadTypes
  <2>3. Whole' = Whole
    BY <2>1 DEF Whole
  <2>4. Ascending'
    BY <2>1, <2>3 DEF ReadInv, Ascending
  <2>5. Current'
    BY <2>1, <2>3 DEF ReadInv, Current, Of, InStream, EndBetween
  <2>6. Together'
    BY <2>1, <2>3 DEF ReadInv, Together, InStream, EndBetween
  <2> QED
    BY <2>2, <2>4, <2>5, <2>6 DEF ReadInv
<1> QED
  BY <1>1, ReadEndStep, ReadKnownStep, ReadNewStep DEF ReadNext

(* The invariant says what the property does.                              *)
LEMMA ReadInvImplies == ASSUME NEW R, ReadInv(R) PROVE ReadBackWhole
<1>1. ASSUME ~Readable, NEW i \in DOMAIN file \ Whole
      PROVE  file[i].data = <<>> \/ \E t \in 1 .. i : file[t] = Torn
  <2>1. i \in Nat /\ i \in 1 .. Len(file) /\ rpos \in 0 .. Len(file)
    BY DEF ReadInv, ReadTypes
  <2>2. CASE i <= rpos
    BY <2>1, <2>2 DEF Whole
  <2>3. CASE i > rpos
    <3>1. rpos < Len(file) /\ rpos + 1 \in 1 .. i
      BY <2>1, <2>3
    <3>2. file[rpos + 1] = Torn
      BY <1>1, <3>1 DEF Readable, NextRecord
    <3> QED
      BY <3>1, <3>2
  <2> QED
    BY <2>1, <2>2, <2>3
<1> QED
  BY <1>1 DEF ReadBackWhole, ReadInv, Ascending, Together, Whole

(* Whatever the records of a file are, and wherever it is cut off, reading *)
(* it back gives each packet to one stream, in order, and parts the        *)
(* packets into streams by key and by the ends of streams and by nothing   *)
(* else (process_replay_file, find_or_make_stream).                        *)
THEOREM ReadBackCorrect ==
  ASSUME NEW R PROVE file \in Seq(R) /\ ReadSpec => []ReadBackWhole
<1>1. file \in Seq(R) /\ ReadInit => ReadInv(R)
  BY ReadInvInit
<1>2. ReadInv(R) /\ [ReadNext]_<<file, readVars>> => ReadInv(R)'
  BY ReadInvStep
<1>3. ReadInv(R) => ReadBackWhole
  BY ReadInvImplies
<1> QED
  BY <1>1, <1>2, <1>3, PTL DEF ReadSpec

(***************************************************************************)
(* Fragment lists.  A list is right when the nodes can be put in an order  *)
(* that first, next and last go by; up to three nodes it is that of the    *)
(* offsets, and up to two prev goes back by it.                            *)
(***************************************************************************)
Frames == UNION {UNION {Range(Runs[n].scripts[c]) : c \in DOMAIN Runs[n].scripts} : n \in DOMAIN Runs}
Payloads == {Payload(f) : f \in Frames}
Fragment == [offset : Nat, payload : Payloads]
Rising(frag, c) ==
  \A i, j \in DOMAIN c : i < j => frag[c[i]].offset <= frag[c[j]].offset
IsOrder(l, c, n) ==
  /\ c \in [1 .. n -> 1 .. n] /\ IsInjective(c)
  /\ \A x \in 1 .. n : \E i \in 1 .. n : c[i] = x
  /\ c[1] = l.first /\ c[n] = l.last
  /\ \A i \in 1 .. n : l.next[c[i]] = IF i = n THEN 0 ELSE c[i + 1]
  /\ n <= 3 => Rising(l.frag, c)
  /\ n <= 2 => \A i \in 1 .. n : l.prev[c[i]] = IF i = 1 THEN 0 ELSE c[i - 1]
ListOf(l, n) ==
  /\ n \in Nat \ {0} /\ l.frag \in Seq(Fragment) /\ Len(l.frag) = n
  /\ l.next \in [1 .. n -> 0 .. n] /\ l.prev \in [1 .. n -> 0 .. n]
  /\ \E c : IsOrder(l, c, n)
ListOK(l) == ListOf(l, Len(l.frag))

(* Chain gives the order.                                                  *)
LEMMA ChainIs ==
  ASSUME NEW l, NEW n, ListOf(l, n), NEW c, IsOrder(l, c, n)
  PROVE  Chain(l) = c
<1> DEFINE Upto(k) == [i \in 1 .. (IF k < n THEN k + 1 ELSE n) |-> c[i]]
           On(s) == IF l.next[s[Len(s)]] = 0 THEN s ELSE Append(s, l.next[s[Len(s)]])
           After(g) == [k \in 0 .. n |-> IF k = 0 THEN <<l.first>> ELSE On(g[k - 1])]
<1>1. n \in Nat \ {0} /\ Len(l.frag) = n /\ c \in [1 .. n -> 1 .. n] /\ c[1] = l.first
      /\ \A i \in 1 .. n : l.next[c[i]] = IF i = n THEN 0 ELSE c[i + 1]
  BY DEF ListOf, IsOrder
<1>2. \A k \in 0 .. (n - 1) : /\ Upto(k) \in Seq(1 .. n) /\ Len(Upto(k)) = k + 1
                              /\ \A i \in 1 .. (k + 1) : Upto(k)[i] = c[i]
  <2>1. ASSUME NEW k \in 0 .. (n - 1)
        PROVE  /\ Upto(k) \in Seq(1 .. n) /\ Len(Upto(k)) = k + 1
               /\ \A i \in 1 .. (k + 1) : Upto(k)[i] = c[i]
    <3>1. Upto(k) = [i \in 1 .. (k + 1) |-> c[i]] /\ k + 1 \in Nat
      BY <1>1
    <3>2. \A i \in 1 .. (k + 1) : c[i] \in 1 .. n
      BY <1>1
    <3> HIDE DEF Upto
    <3> QED BY <3>1, <3>2
  <2> QED BY <2>1
<1>3. Upto(n) = c /\ c \in Seq(1 .. n) /\ Len(c) = n
  <2>1. Upto(n) = [i \in 1 .. n |-> c[i]]
    BY <1>1
  <2>2. c = [i \in 1 .. n |-> c[i]] /\ \A i \in 1 .. n : c[i] \in 1 .. n
    BY <1>1
  <2> HIDE DEF Upto
  <2> QED BY <1>1, <2>1, <2>2
<1>4. Upto(0) = <<l.first>>
  <2>1. Upto(0) \in Seq(1 .. n) /\ Len(Upto(0)) = 1 /\ Upto(0)[1] = c[1]
    BY <1>1, <1>2
  <2> HIDE DEF Upto
  <2> QED BY <1>1, <2>1
<1>5. ASSUME NEW k \in 1 .. n
      PROVE  On(Upto(k - 1)) = Upto(k)
  <2>1. PICK m, p : m = k - 1 /\ p = Upto(m)
    OBVIOUS
  <2>2. m \in 0 .. (n - 1) /\ k = m + 1
    BY <1>1, <2>1
  <2>3. p \in Seq(1 .. n) /\ Len(p) = k /\ \A i \in 1 .. k : p[i] = c[i]
    <3> HIDE DEF Upto
    <3> QED BY <1>2, <2>1, <2>2
  <2>4. l.next[p[Len(p)]] = IF k = n THEN 0 ELSE c[k + 1]
    <3>1. p[Len(p)] = c[k]
      BY <2>2, <2>3
    <3> QED BY <1>1, <3>1
  <2>5. CASE k = n
    <3>1. p = c
      BY <1>3, <2>3, <2>5, SeqEqual
    <3> HIDE DEF Upto
    <3> QED BY <1>3, <2>1, <2>4, <2>5, <3>1
  <2>6. CASE k # n
    <3>1. c[k + 1] \in 1 .. n /\ k \in 0 .. (n - 1)
      BY <1>1, <2>2, <2>6
    <3>2. On(p) = Append(p, c[k + 1])
      BY <2>4, <2>6, <3>1
    <3>3. Append(p, c[k + 1]) \in Seq(1 .. n) /\ Len(Append(p, c[k + 1])) = k + 1
          /\ \A i \in 1 .. (k + 1) : Append(p, c[k + 1])[i] = c[i]
      BY <2>3, <3>1
    <3>4. Upto(k) = Append(p, c[k + 1])
      <4>1. Upto(k) \in Seq(1 .. n) /\ Len(Upto(k)) = k + 1 /\ \A i \in 1 .. (k + 1) : Upto(k)[i] = c[i]
        <5> HIDE DEF Upto
        <5> QED BY <1>2, <3>1
      <4> HIDE DEF Upto
      <4> QED BY <3>3, <4>1
    <3> HIDE DEF Upto, On
    <3> QED BY <2>1, <3>2, <3>4
  <2> QED BY <2>5, <2>6
<1> DEFINE f == [k \in 0 .. n |-> Upto(k)]
<1>6. f = After(f)
  <2>1. \A k \in 0 .. n : f[k] = IF k = 0 THEN <<l.first>> ELSE On(f[k - 1])
    <3> HIDE DEF Upto, On
    <3> QED BY <1>1, <1>4, <1>5
  <2> HIDE DEF Upto, On
  <2> QED BY <2>1
<1> DEFINE u == CHOOSE g : g = After(g)
<1>7. Chain(l) = u[n]
  BY <1>1 DEF Chain
<1>8. u = After(u)
  <2> HIDE DEF After, f
  <2> QED BY <1>6
<1>9. \A k \in 0 .. n : u[k] = Upto(k)
  <2> DEFINE P == {k \in 0 .. n : u[k] = Upto(k)}
  <2> HIDE DEF u, Upto, On
  <2>1. 0 \in P
    BY <1>1, <1>4, <1>8
  <2>2. \A k \in 1 .. n : k - 1 \in P => k \in P
    <3>1. ASSUME NEW k \in 1 .. n, u[k - 1] = Upto(k - 1)
          PROVE  u[k] = Upto(k)
      <4>1. k \in 0 .. n /\ k # 0
        BY <1>1
      <4>2. u[k] = On(u[k - 1])
        BY <1>8, <4>1
      <4> QED BY <1>5, <3>1, <4>2
    <3> QED BY SMTT(30), <1>1, <3>1
  <2>3. \A k \in 0 .. n : k \in P
    <3> HIDE DEF P, After
    <3> QED BY <1>1, <2>1, <2>2, Induction
  <2> QED BY <2>3
<1> HIDE DEF Upto, u
<1> QED BY <1>1, <1>7, <1>9, <1>3

(* The walk of enqueue: from last back along prev.                         *)
Back(l, f, x) == IF x = 0 THEN 0 ELSE IF l.frag[x].offset < f.offset THEN x ELSE l.prev[x]

(* The walk as a function of the steps taken.                              *)
LEMMA WalkIs ==
  ASSUME NEW l, NEW n, ListOf(l, n), NEW f
  PROVE  \E w \in [0 .. n -> 0 .. n] :
           /\ w[0] = l.last /\ \A k \in 1 .. n : w[k] = Back(l, f, w[k - 1])
           /\ InsertAfter(l, f) = w[n]
<1>1. n \in Nat \ {0} /\ Len(l.frag) = n /\ l.prev \in [1 .. n -> 0 .. n] /\ l.last \in 0 .. n
  <2>1. n \in Nat \ {0} /\ Len(l.frag) = n /\ l.prev \in [1 .. n -> 0 .. n]
    BY DEF ListOf
  <2>2. PICK c : c \in [1 .. n -> 1 .. n] /\ c[n] = l.last
    BY DEF ListOf, IsOrder
  <2>3. n \in 1 .. n /\ c[n] \in 0 .. n
    BY <2>1, <2>2
  <2> QED BY <2>1, <2>2, <2>3
<1> DEFINE step == [k \in 1 .. n |-> [x \in 0 .. n |-> Back(l, f, x)]]
           Walk(g) == [k \in 0 .. n |-> IF k = 0 THEN l.last ELSE Back(l, f, g[k - 1])]
<1>2. \A x \in 0 .. n : Back(l, f, x) \in 0 .. n
  BY <1>1 DEF Back
<1>3. PICK w \in [0 .. n -> 0 .. n] : Iterates(w, n, l.last, step)
  <2>1. step \in [1 .. n -> [0 .. n -> 0 .. n]]
    BY <1>2
  <2> HIDE DEF step
  <2> QED BY <1>1, <2>1, Recursion
<1>4. w[0] = l.last /\ \A k \in 1 .. n : w[k] = Back(l, f, w[k - 1])
  <2>1. \A k \in 1 .. n : k - 1 \in 0 .. n
    BY <1>1
  <2> QED BY <1>3, <2>1 DEF Iterates
<1>5. w = Walk(w)
  <2>1. \A k \in 0 .. n : w[k] = Walk(w)[k]
    BY <1>1, <1>4
  <2> QED BY <1>3, <2>1
<1> DEFINE u == CHOOSE g : g = Walk(g)
<1>6. InsertAfter(l, f) = u[n]
  BY <1>1 DEF InsertAfter, Back
<1>7. u = Walk(u)
  <2> HIDE DEF Walk
  <2> QED BY <1>5
<1>8. \A k \in 0 .. n : u[k] = w[k]
  <2> DEFINE P == {k \in 0 .. n : u[k] = w[k]}
  <2> HIDE DEF u
  <2>1. 0 \in P
    BY <1>1, <1>4, <1>7
  <2>2. \A k \in 1 .. n : k - 1 \in P => k \in P
    <3>1. ASSUME NEW k \in 1 .. n, u[k - 1] = w[k - 1]
          PROVE  u[k] = w[k]
      <4>1. k \in 0 .. n /\ k # 0
        BY <1>1
      <4>2. u[k] = Back(l, f, u[k - 1])
        BY <1>7, <4>1
      <4> QED BY <1>4, <3>1, <4>2
    <3> QED BY <1>1, <3>1
  <2>3. \A k \in 0 .. n : k \in P
    <3> HIDE DEF P, Walk
    <3> QED BY <1>1, <2>1, <2>2, Induction
  <2> QED BY <2>3
<1>9. InsertAfter(l, f) = w[n]
  <2> HIDE DEF u
  <2> QED BY <1>1, <1>6, <1>8
<1> QED BY <1>4, <1>9

(* Where the new fragment is put: behind the p-th of the order, and in a   *)
(* list of one or two between the smaller and the larger offsets.          *)
Place(l, f, c, n, p) ==
  /\ p \in 0 .. n /\ InsertAfter(l, f) = IF p = 0 THEN 0 ELSE c[p]
  /\ n <= 2 => /\ \A i \in 1 .. p : l.frag[c[i]].offset <= f.offset
               /\ \A i \in (p + 1) .. n : f.offset <= l.frag[c[i]].offset

(* The walk stops at such a place.                                         *)
LEMMA PlaceIs ==
  ASSUME NEW l, NEW n, ListOf(l, n), NEW c, IsOrder(l, c, n), NEW f \in Fragment
  PROVE  \E p : Place(l, f, c, n, p)
<1>1. PICK w \in [0 .. n -> 0 .. n] :
        /\ w[0] = l.last /\ \A k \in 1 .. n : w[k] = Back(l, f, w[k - 1])
        /\ InsertAfter(l, f) = w[n]
  BY WalkIs
<1>2. /\ n \in Nat \ {0} /\ c \in [1 .. n -> 1 .. n] /\ c[n] = l.last
      /\ \A x \in 1 .. n : \E i \in 1 .. n : c[i] = x
      /\ f.offset \in Nat /\ \A i \in 1 .. n : l.frag[i].offset \in Nat
  <2>1. \A i \in 1 .. n : l.frag[i] \in Fragment
    BY ElementOfSeq DEF ListOf
  <2> QED BY <2>1 DEF ListOf, IsOrder, Fragment
<1>3. PICK x \in 0 .. n : x = InsertAfter(l, f) /\ x = w[n]
  BY SMTT(30), <1>1, <1>2
<1>4. CASE n > 2
  <2>1. PICK p \in 0 .. n : x = IF p = 0 THEN 0 ELSE c[p]
    <3>1. CASE x = 0
      BY <1>2, <3>1
    <3>2. CASE x # 0
      <4>1. PICK i \in 1 .. n : c[i] = x
        BY <1>2, <3>2
      <4> QED BY <1>2, <4>1
    <3> QED BY <3>1, <3>2
  <2>2. ~(n <= 2) /\ InsertAfter(l, f) = IF p = 0 THEN 0 ELSE c[p]
    BY <1>2, <1>3, <1>4, <2>1
  <2> QED BY <2>1, <2>2 DEF Place
<1>5. CASE n = 1
  <2>1. l.prev[c[1]] = 0 /\ w[1] = Back(l, f, c[1]) /\ c[1] # 0
    BY <1>1, <1>2, <1>5 DEF IsOrder
  <2>2. CASE l.frag[c[1]].offset < f.offset
    <3>1. x = c[1]
      BY <1>3, <1>5, <2>1, <2>2 DEF Back
    <3> QED BY <1>2, <1>3, <1>5, <2>2, <3>1 DEF Place
  <2>3. CASE ~(l.frag[c[1]].offset < f.offset)
    <3>1. x = 0
      BY <1>3, <1>5, <2>1, <2>3 DEF Back
    <3> QED BY <1>2, <1>3, <1>5, <2>3, <3>1 DEF Place
  <2> QED BY <2>2, <2>3
<1>6. CASE n = 2
  <2>1. /\ l.prev[c[1]] = 0 /\ l.prev[c[2]] = c[1] /\ c[1] # 0 /\ c[2] # 0
        /\ w[1] = Back(l, f, c[2]) /\ w[2] = Back(l, f, w[1])
    BY <1>1, <1>2, <1>6 DEF IsOrder
  <2>2. l.frag[c[1]].offset <= l.frag[c[2]].offset
    BY <1>2, <1>6 DEF IsOrder, Rising
  <2>3. CASE l.frag[c[2]].offset < f.offset
    <3>1. x = c[2]
      BY <1>3, <1>6, <2>1, <2>3 DEF Back
    <3>2. \A i \in 1 .. 2 : l.frag[c[i]].offset <= f.offset
      BY <1>2, <1>6, <2>2, <2>3
    <3> QED BY <1>2, <1>3, <1>6, <3>1, <3>2 DEF Place
  <2>4. CASE ~(l.frag[c[2]].offset < f.offset) /\ l.frag[c[1]].offset < f.offset
    <3>1. x = c[1]
      BY <1>3, <1>6, <2>1, <2>4 DEF Back
    <3>2. l.frag[c[1]].offset <= f.offset /\ f.offset <= l.frag[c[2]].offset
      BY <1>2, <1>6, <2>4
    <3> QED BY <1>2, <1>3, <1>6, <3>1, <3>2 DEF Place
  <2>5. CASE ~(l.frag[c[2]].offset < f.offset) /\ ~(l.frag[c[1]].offset < f.offset)
    <3>1. x = 0
      BY <1>3, <1>6, <2>1, <2>5 DEF Back
    <3>2. \A i \in 1 .. 2 : f.offset <= l.frag[c[i]].offset
      BY <1>2, <1>6, <2>5
    <3> QED BY <1>2, <1>3, <1>6, <3>1, <3>2 DEF Place
  <2> QED BY <2>3, <2>4, <2>5
<1> QED BY <1>2, <1>4, <1>5, <1>6

Extended(h, n, S, g, e) ==
  h \in [1 .. (n + 1) -> S] /\ h[n + 1] = e /\ \A i \in 1 .. n : h[i] = g[i]

(* Append as a function on one number more.                                *)
LEMMA AppendTo ==
  ASSUME NEW n \in Nat, NEW S, NEW g \in [1 .. n -> S], NEW e \in S
  PROVE  Extended(Append(g, e), n, S, g, e)
<1>1. g \in Seq(S) /\ Len(g) = n
  OBVIOUS
<1>2. Append(g, e) \in Seq(S) /\ Len(Append(g, e)) = n + 1 /\ Append(g, e)[n + 1] = e
      /\ \A i \in 1 .. n : Append(g, e)[i] = g[i]
  BY <1>1, AppendProperties
<1>3. Append(g, e) \in [1 .. (n + 1) -> S]
  BY <1>2, SeqDef, LenProperties
<1> QED BY <1>2, <1>3 DEF Extended

(* What enqueue does to the pointers: x is the node before the new one.    *)
Linked(l, n, f, x, m) ==
  /\ m.frag \in Seq(Fragment) /\ Len(m.frag) = n + 1 /\ m.frag[n + 1] = f
  /\ \A i \in 1 .. n : m.frag[i] = l.frag[i]
  /\ m.next \in [1 .. (n + 1) -> 0 .. (n + 1)] /\ m.prev \in [1 .. (n + 1) -> 0 .. (n + 1)]
  /\ m.prev[n + 1] = x /\ m.next[n + 1] = IF x = 0 THEN l.first ELSE l.next[x]
  /\ \A i \in 1 .. n : /\ m.next[i] = IF i = x THEN n + 1 ELSE l.next[i]
                       /\ m.prev[i] = IF x = 0 /\ i = l.first THEN n + 1 ELSE l.prev[i]
  /\ m.first = IF x = 0 THEN n + 1 ELSE l.first
  /\ m.last = IF x # 0 /\ l.last = x THEN n + 1 ELSE l.last

(* The definition of enqueue, pointer by pointer.                          *)
LEMMA LinkedIs ==
  ASSUME NEW l, NEW n, ListOf(l, n), NEW f \in Fragment
  PROVE  Linked(l, n, f, InsertAfter(l, f), EnqueueIn(l, f))
<1>1. /\ n \in Nat \ {0} /\ l.frag \in Seq(Fragment) /\ Len(l.frag) = n
      /\ l.next \in [1 .. n -> 0 .. n] /\ l.prev \in [1 .. n -> 0 .. n]
  BY DEF ListOf
<1>2. l.first \in 1 .. n
  <2>1. PICK c : c \in [1 .. n -> 1 .. n] /\ c[1] = l.first
    BY DEF ListOf, IsOrder
  <2>2. 1 \in 1 .. n /\ c[1] \in 1 .. n
    BY <1>1, <2>1
  <2> QED BY <2>1, <2>2
<1>3. InsertAfter(l, f) \in 0 .. n
  <2>1. PICK w \in [0 .. n -> 0 .. n] : InsertAfter(l, f) = w[n]
    BY WalkIs
  <2> QED BY <1>1, <2>1
<1>4. PICK x \in 0 .. n : x = InsertAfter(l, f)
  BY <1>3
<1>5. PICK m : m = EnqueueIn(l, f)
  OBVIOUS
<1>6. Append(l.frag, f) \in Seq(Fragment) /\ Len(Append(l.frag, f)) = n + 1 /\ Append(l.frag, f)[n + 1] = f
      /\ \A i \in 1 .. n : Append(l.frag, f)[i] = l.frag[i]
  BY <1>1, AppendProperties
<1>7. CASE x = 0
  <2>1. m = LinkFirst(l, f)
    BY <1>4, <1>5, <1>7 DEF EnqueueIn
  <2> DEFINE p == [l.prev EXCEPT ![l.first] = n + 1]
  <2>2. /\ m.frag = Append(l.frag, f) /\ m.next = Append(l.next, l.first) /\ m.prev = Append(p, 0)
        /\ m.first = n + 1 /\ m.last = l.last
    BY <1>1, <2>1 DEF LinkFirst
  <2>3. /\ p \in [1 .. n -> 0 .. (n + 1)] /\ l.next \in [1 .. n -> 0 .. (n + 1)]
        /\ 0 \in 0 .. (n + 1) /\ l.first \in 0 .. (n + 1)
        /\ \A i \in 1 .. n : p[i] = IF i = l.first THEN n + 1 ELSE l.prev[i]
    BY SMTT(30), <1>1, <1>2
  <2> HIDE DEF p
  <2>4. PICK S : S = 0 .. (n + 1)
    OBVIOUS
  <2>5. p \in [1 .. n -> S] /\ l.next \in [1 .. n -> S] /\ 0 \in S /\ l.first \in S /\ n \in Nat
    BY <1>1, <2>3, <2>4
  <2>6. /\ m.prev \in [1 .. (n + 1) -> 0 .. (n + 1)] /\ m.prev[n + 1] = 0
        /\ \A i \in 1 .. n : m.prev[i] = p[i]
    <3>1. Extended(Append(p, 0), n, S, p, 0)
      BY <2>5, AppendTo
    <3> QED BY <2>2, <2>4, <3>1 DEF Extended
  <2>7. /\ m.next \in [1 .. (n + 1) -> 0 .. (n + 1)] /\ m.next[n + 1] = l.first
        /\ \A i \in 1 .. n : m.next[i] = l.next[i]
    <3>1. Extended(Append(l.next, l.first), n, S, l.next, l.first)
      BY <2>5, AppendTo
    <3> QED BY <2>2, <2>4, <3>1 DEF Extended
  <2>8. \A i \in 1 .. n : i # 0
    OBVIOUS
  <2>9. Linked(l, n, f, x, m)
    BY <1>6, <1>7, <2>2, <2>3, <2>6, <2>7, <2>8 DEF Linked
  <2> QED BY <1>4, <1>5, <2>9
<1>8. CASE x # 0
  <2>1. m = LinkAfter(l, f, x) /\ x \in 1 .. n
    BY <1>4, <1>5, <1>8 DEF EnqueueIn
  <2> DEFINE p == [l.next EXCEPT ![x] = n + 1]
  <2>2. /\ m.frag = Append(l.frag, f) /\ m.next = Append(p, l.next[x]) /\ m.prev = Append(l.prev, x)
        /\ m.first = l.first /\ m.last = IF l.last = x THEN n + 1 ELSE l.last
    BY <1>1, <2>1 DEF LinkAfter
  <2>3. /\ p \in [1 .. n -> 0 .. (n + 1)] /\ l.prev \in [1 .. n -> 0 .. (n + 1)]
        /\ x \in 0 .. (n + 1) /\ l.next[x] \in 0 .. (n + 1)
        /\ \A i \in 1 .. n : p[i] = IF i = x THEN n + 1 ELSE l.next[i]
    BY SMTT(30), <1>1, <2>1
  <2> HIDE DEF p
  <2>4. PICK S : S = 0 .. (n + 1)
    OBVIOUS
  <2>5. p \in [1 .. n -> S] /\ l.prev \in [1 .. n -> S] /\ x \in S /\ l.next[x] \in S /\ n \in Nat
    BY <1>1, <2>3, <2>4
  <2>6. /\ m.next \in [1 .. (n + 1) -> 0 .. (n + 1)] /\ m.next[n + 1] = l.next[x]
        /\ \A i \in 1 .. n : m.next[i] = p[i]
    <3>1. Extended(Append(p, l.next[x]), n, S, p, l.next[x])
      BY <2>5, AppendTo
    <3> QED BY <2>2, <2>4, <3>1 DEF Extended
  <2>7. /\ m.prev \in [1 .. (n + 1) -> 0 .. (n + 1)] /\ m.prev[n + 1] = x
        /\ \A i \in 1 .. n : m.prev[i] = l.prev[i]
    <3>1. Extended(Append(l.prev, x), n, S, l.prev, x)
      BY <2>5, AppendTo
    <3> QED BY <2>2, <2>4, <3>1 DEF Extended
  <2>8. Linked(l, n, f, x, m)
    BY <1>6, <1>8, <2>2, <2>3, <2>6, <2>7 DEF Linked
  <2> QED BY <1>4, <1>5, <2>8
<1> QED BY <1>7, <1>8

(* The order after enqueue: the new node behind the p-th.                  *)
LEMMA OrderGrows ==
  ASSUME NEW l, NEW n, ListOf(l, n), NEW c, IsOrder(l, c, n), NEW f \in Fragment,
         NEW p, Place(l, f, c, n, p), NEW x, x = InsertAfter(l, f), NEW m, Linked(l, n, f, x, m)
  PROVE  IsOrder(m, [i \in 1 .. (n + 1) |-> IF i <= p THEN c[i] ELSE IF i = p + 1 THEN n + 1 ELSE c[i - 1]],
                 n + 1)
<1> DEFINE d == [i \in 1 .. (n + 1) |-> IF i <= p THEN c[i] ELSE IF i = p + 1 THEN n + 1 ELSE c[i - 1]]
<1>1. n \in Nat /\ n >= 1 /\ p \in Nat /\ p <= n
  BY DEF ListOf, Place
<1>2. /\ \A i \in 1 .. n : c[i] \in 1 .. n
      /\ \A i, j \in 1 .. n : c[i] = c[j] => i = j
      /\ \A y \in 1 .. n : \E i \in 1 .. n : c[i] = y
      /\ c[1] = l.first /\ c[n] = l.last
      /\ \A i \in 1 .. n : l.next[c[i]] = IF i = n THEN 0 ELSE c[i + 1]
      /\ x = IF p = 0 THEN 0 ELSE c[p]
  <2>1. c \in [1 .. n -> 1 .. n]
    BY DEF IsOrder
  <2>2. DOMAIN c = 1 .. n /\ \A i \in 1 .. n : c[i] \in 1 .. n
    BY <2>1
  <2> QED BY <2>2 DEF IsOrder, Place, IsInjective
<1>3. /\ \A i \in 1 .. p : d[i] = c[i]
      /\ d[p + 1] = n + 1
      /\ \A i \in (p + 2) .. (n + 1) : d[i] = c[i - 1]
  BY <1>1
<1>4. d \in [1 .. (n + 1) -> 1 .. (n + 1)]
  <2>1. \A i \in 1 .. (n + 1) : d[i] \in 1 .. (n + 1)
    <3> SUFFICES ASSUME NEW i \in 1 .. (n + 1) PROVE d[i] \in 1 .. (n + 1)
      OBVIOUS
    <3>1. i \in 1 .. p => d[i] = c[i] /\ i \in 1 .. n
      BY <1>1, <1>3
    <3>2. i \in (p + 2) .. (n + 1) => d[i] = c[i - 1] /\ i - 1 \in 1 .. n
      BY <1>1, <1>3
    <3>3. i \in 1 .. p \/ i = p + 1 \/ i \in (p + 2) .. (n + 1)
      BY <1>1
    <3>4. \A j \in 1 .. n : c[j] \in 1 .. (n + 1)
      BY <1>1, <1>2
    <3> HIDE DEF d
    <3> QED BY <1>1, <1>3, <3>1, <3>2, <3>3, <3>4
  <2> QED BY <2>1
<1> HIDE DEF d
<1>5. ASSUME NEW i \in 1 .. (n + 1)
       PROVE  i # p + 1 => \E k \in 1 .. n : /\ d[i] = c[k] /\ c[k] \in 1 .. n
                                             /\ i = IF k <= p THEN k ELSE k + 1
  <2>1. CASE i \in 1 .. p
    <3>1. i \in 1 .. n /\ i <= p
      BY <1>1, <2>1
    <3> QED BY <1>2, <1>3, <2>1, <3>1
  <2>2. CASE i \in (p + 2) .. (n + 1)
    <3>1. PICK k : k = i - 1
      OBVIOUS
    <3>2. k \in 1 .. n /\ ~(k <= p) /\ i = k + 1
      BY <1>1, <2>2, <3>1
    <3> QED BY <1>2, <1>3, <2>2, <3>1, <3>2
  <2> QED BY <1>1, <2>1, <2>2
<1>6. \A i, j \in 1 .. (n + 1) : d[i] = d[j] => i = j
  <2> SUFFICES ASSUME NEW i \in 1 .. (n + 1), NEW j \in 1 .. (n + 1), d[i] = d[j]
               PROVE  i = j
    OBVIOUS
  <2>1. \A k \in 1 .. n : c[k] # n + 1
    BY <1>1, <1>2
  <2>2. CASE i = p + 1 \/ j = p + 1
    BY <1>3, <1>5, <2>1, <2>2
  <2>3. CASE i # p + 1 /\ j # p + 1
    BY <1>2, <1>5, <2>3
  <2> QED BY <2>2, <2>3
<1>7. \A y \in 1 .. (n + 1) : \E i \in 1 .. (n + 1) : d[i] = y
  <2>1. ASSUME NEW y \in 1 .. n
        PROVE  \E i \in 1 .. (n + 1) : d[i] = y
    <3>1. PICK i \in 1 .. n : c[i] = y
      BY <1>2
    <3>2. CASE i <= p
      <4>1. i \in 1 .. p /\ i \in 1 .. (n + 1)
        BY <1>1, <3>2
      <4> QED BY <1>3, <3>1, <4>1
    <3>3. CASE i > p
      <4>1. i + 1 \in (p + 2) .. (n + 1) /\ i + 1 - 1 = i
        BY <1>1, <3>1, <3>3
      <4>2. d[i + 1] = c[i]
        BY <1>3, <4>1
      <4>3. i + 1 \in 1 .. (n + 1)
        BY <1>1
      <4> QED BY <3>1, <4>2, <4>3
    <3> QED BY <1>1, <3>1, <3>2, <3>3
  <2>2. n + 1 \in 1 .. (n + 1) /\ p + 1 \in 1 .. (n + 1) /\ \A y \in 1 .. (n + 1) : y \in 1 .. n \/ y = n + 1
    BY <1>1
  <2> QED BY <1>3, <2>1, <2>2
<1>8. d[1] = m.first /\ d[n + 1] = m.last
  <2>1. CASE p = 0
    <3>1. n + 1 \in (p + 2) .. (n + 1) /\ n + 1 - 1 = n
      BY <1>1, <2>1
    <3>2. d[1] = n + 1 /\ d[n + 1] = c[n] /\ x = 0
      BY <1>1, <1>2, <1>3, <2>1, <3>1
    <3> QED BY <1>2, <3>2 DEF Linked
  <2>2. CASE p # 0
    <3>1. 1 \in 1 .. p /\ p \in 1 .. n /\ n \in 1 .. n /\ 0 \notin 1 .. n
      BY <1>1, <2>2
    <3>2. d[1] = c[1] /\ x = c[p] /\ x # 0 /\ (x = c[n] <=> p = n)
      BY <1>2, <1>3, <2>2, <3>1
    <3>3. p # n => n + 1 \in (p + 2) .. (n + 1) /\ n + 1 - 1 = n
      BY <1>1
    <3>4. d[n + 1] = IF p = n THEN n + 1 ELSE c[n]
      BY <1>1, <1>3, <3>3
    <3> QED BY <1>2, <3>2, <3>4 DEF Linked
  <2> QED BY <2>1, <2>2
<1>9. ASSUME NEW i \in 1 .. (n + 1)
      PROVE  m.next[d[i]] = IF i = n + 1 THEN 0 ELSE d[i + 1]
  <2>1. CASE i = p + 1
    <3>1. d[i] = n + 1 /\ m.next[n + 1] = IF x = 0 THEN l.first ELSE l.next[x]
      BY <1>3, <2>1 DEF Linked
    <3>2. CASE p = 0
      <4>1. i + 1 \in (p + 2) .. (n + 1) /\ i + 1 - 1 = 1 /\ i # n + 1
        BY <1>1, <2>1, <3>2
      <4>2. d[i + 1] = c[1]
        BY <1>3, <4>1
      <4> QED BY <1>2, <3>1, <3>2, <4>1, <4>2
    <3>3. CASE p # 0
      <4>1. p \in 1 .. n /\ 0 \notin 1 .. n
        BY <1>1, <3>3
      <4>2. x = c[p] /\ x # 0 /\ l.next[x] = IF p = n THEN 0 ELSE c[p + 1]
        BY <1>2, <3>3, <4>1
      <4>3. i # n + 1 => i + 1 \in (p + 2) .. (n + 1) /\ i + 1 - 1 = p + 1
        BY <1>1, <2>1
      <4>4. i # n + 1 => d[i + 1] = c[p + 1]
        BY <1>3, <4>3
      <4>5. i = n + 1 <=> p = n
        BY <1>1, <2>1
      <4> QED BY <3>1, <4>2, <4>4, <4>5
    <3> QED BY <3>2, <3>3
  <2>2. CASE i # p + 1
    <3>1. PICK k \in 1 .. n : d[i] = c[k] /\ c[k] \in 1 .. n /\ i = IF k <= p THEN k ELSE k + 1
      BY <1>5, <2>2
    <3>2. l.next[c[k]] = IF k = n THEN 0 ELSE c[k + 1]
      BY <1>2
    <3>3. CASE k = p
      <4>1. p # 0 /\ i = p /\ i # n + 1 /\ p \in 1 .. n
        BY <1>1, <3>1, <3>3
      <4>2. x = c[k] /\ d[i + 1] = n + 1
        BY <1>2, <1>3, <3>3, <4>1
      <4> QED BY <3>1, <4>1, <4>2 DEF Linked
    <3>4. CASE k # p
      <4>1. c[k] # x
        <5>1. p # 0 => p \in 1 .. n
          BY <1>1
        <5>2. 0 \notin 1 .. n
          BY <1>1
        <5> QED BY <1>2, <3>1, <3>4, <5>1, <5>2
      <4>2. m.next[d[i]] = IF k = n THEN 0 ELSE c[k + 1]
        BY <3>1, <3>2, <4>1 DEF Linked
      <4>3. CASE k < p
        <5>1. i = k /\ i + 1 = k + 1 /\ k + 1 \in 1 .. p /\ k # n /\ i # n + 1
          BY <1>1, <3>1, <4>3
        <5>2. d[i + 1] = c[k + 1]
          BY <1>3, <5>1
        <5> QED BY <4>2, <5>1, <5>2
      <4>4. CASE k > p
        <5>1. i = k + 1 /\ (i = n + 1 <=> k = n)
          BY <1>1, <3>1, <4>4
        <5>2. k # n => i + 1 \in (p + 2) .. (n + 1) /\ i + 1 - 1 = k + 1
          BY <1>1, <4>4, <5>1
        <5>3. k # n => d[i + 1] = c[k + 1]
          BY <1>3, <5>2
        <5> QED BY <4>2, <5>1, <5>3
      <4> QED BY <1>1, <3>4, <4>3, <4>4
    <3> QED BY <3>3, <3>4
  <2> QED BY <2>1, <2>2
<1>10. n + 1 <= 3 => Rising(m.frag, d)
  <2> SUFFICES ASSUME n + 1 <= 3, NEW i \in 1 .. (n + 1), NEW j \in 1 .. (n + 1), i < j
               PROVE  m.frag[d[i]].offset <= m.frag[d[j]].offset
    BY <1>4 DEF Rising
  <2>1. n <= 2 /\ n <= 3 /\ DOMAIN c = 1 .. n
    BY <1>1 DEF IsOrder
  <2>2. /\ \A y \in 1 .. p : l.frag[c[y]].offset <= f.offset
        /\ \A y \in (p + 1) .. n : f.offset <= l.frag[c[y]].offset
        /\ \A y, z \in 1 .. n : y < z => l.frag[c[y]].offset <= l.frag[c[z]].offset
    BY <2>1 DEF Place, IsOrder, Rising
  <2>3. \A y \in 1 .. n : m.frag[c[y]] = l.frag[c[y]]
    BY <1>2 DEF Linked
  <2>4. m.frag[n + 1] = f
    BY DEF Linked
  <2>5. CASE i = p + 1
    <3>1. j \in (p + 2) .. (n + 1) /\ j - 1 \in (p + 1) .. n /\ j - 1 \in 1 .. n
      BY <1>1, <2>5
    <3>2. d[j] = c[j - 1] /\ d[i] = n + 1
      BY <1>3, <2>5, <3>1
    <3> QED BY <2>2, <2>3, <2>4, <3>1, <3>2
  <2>6. CASE j = p + 1
    <3>1. i \in 1 .. p /\ i \in 1 .. n
      BY <1>1, <2>6
    <3>2. d[i] = c[i] /\ d[j] = n + 1
      BY <1>3, <2>6, <3>1
    <3> QED BY <2>2, <2>3, <2>4, <3>1, <3>2
  <2>7. CASE i # p + 1 /\ j # p + 1
    <3>1. PICK y \in 1 .. n : d[i] = c[y] /\ i = IF y <= p THEN y ELSE y + 1
      BY <1>5, <2>7
    <3>2. PICK z \in 1 .. n : d[j] = c[z] /\ j = IF z <= p THEN z ELSE z + 1
      BY <1>5, <2>7
    <3>3. y < z
      BY <1>1, <3>1, <3>2
    <3> QED BY <2>2, <2>3, <3>1, <3>2, <3>3
  <2> QED BY <2>5, <2>6, <2>7
<1>11. n + 1 <= 2 => \A i \in 1 .. (n + 1) : m.prev[d[i]] = IF i = 1 THEN 0 ELSE d[i - 1]
  <2> SUFFICES ASSUME n + 1 <= 2
               PROVE  m.prev[d[1]] = 0 /\ m.prev[d[2]] = d[1]
    BY <1>1
  <2>1. n = 1 /\ c[1] = 1 /\ l.first = 1 /\ l.prev[1] = 0
    BY <1>1, <1>2 DEF IsOrder
  <2>2. CASE p = 0
    <3>1. d[1] = 2 /\ d[2] = 1 /\ x = 0
      BY <1>2, <1>3, <2>1, <2>2
    <3> QED BY <2>1, <3>1 DEF Linked
  <2>3. CASE p = 1
    <3>1. d[1] = 1 /\ d[2] = 2 /\ x = 1
      BY <1>2, <1>3, <2>1, <2>3
    <3> QED BY <2>1, <3>1 DEF Linked
  <2> QED BY <1>1, <2>1, <2>2, <2>3
<1>12. IsOrder(m, d, n + 1)
  BY <1>4, <1>6, <1>7, <1>8, <1>9, <1>10, <1>11 DEF IsOrder, IsInjective
<1> QED BY <1>12 DEF d

(* A right list stays right, and holds nothing but what was put into it.   *)
LEMMA EnqueueInOK ==
  ASSUME NEW l, ListOK(l), NEW f \in Fragment
  PROVE  /\ ListOK(EnqueueIn(l, f))
         /\ \A i \in DOMAIN EnqueueIn(l, f).frag :
              EnqueueIn(l, f).frag[i] = f \/ \E j \in DOMAIN l.frag : EnqueueIn(l, f).frag[i] = l.frag[j]
<1>1. PICK n : n = Len(l.frag) /\ ListOf(l, n)
  BY DEF ListOK
<1>2. PICK c : IsOrder(l, c, n)
  BY <1>1 DEF ListOf
<1>3. PICK p : Place(l, f, c, n, p)
  BY <1>1, <1>2, PlaceIs
<1>4. PICK x : x = InsertAfter(l, f)
  OBVIOUS
<1>5. PICK m : m = EnqueueIn(l, f)
  OBVIOUS
<1>6. Linked(l, n, f, x, m)
  BY <1>1, <1>4, <1>5, LinkedIs
<1>7. \E d : IsOrder(m, d, n + 1)
  BY <1>1, <1>2, <1>3, <1>4, <1>6, OrderGrows
<1>8. n \in Nat \ {0} /\ DOMAIN l.frag = 1 .. n
  BY <1>1, LenProperties DEF ListOf
<1>9. ListOK(m)
  <2>1. n + 1 \in Nat \ {0} /\ Len(m.frag) = n + 1
    BY <1>6, <1>8 DEF Linked
  <2>2. ListOf(m, n + 1)
    BY <1>6, <1>7, <2>1 DEF Linked, ListOf
  <2> QED BY <2>1, <2>2 DEF ListOK
<1>10. \A i \in DOMAIN m.frag : m.frag[i] = f \/ \E j \in DOMAIN l.frag : m.frag[i] = l.frag[j]
  <2>1. DOMAIN m.frag = 1 .. (n + 1)
    BY <1>6, LenProperties DEF Linked
  <2>2. \A i \in 1 .. (n + 1) : i = n + 1 \/ i \in 1 .. n
    BY <1>8
  <2> QED BY <1>6, <1>8, <2>1, <2>2 DEF Linked
<1> QED BY <1>5, <1>9, <1>10

(* So is a new one.                                                        *)
LEMMA NewListOK ==
  ASSUME NEW f \in Fragment
  PROVE  ListOK(NewList(f)) /\ \A i \in DOMAIN NewList(f).frag : NewList(f).frag[i] = f
<1>1. PICK l : l = NewList(f)
  OBVIOUS
<1>2. /\ l.frag = <<f>> /\ l.next = <<0>> /\ l.prev = <<0>> /\ l.first = 1 /\ l.last = 1
  BY <1>1 DEF NewList
<1>3. /\ l.frag \in Seq(Fragment) /\ Len(l.frag) = 1 /\ DOMAIN l.frag = {1} /\ l.frag[1] = f
      /\ l.next \in [1 .. 1 -> 0 .. 1] /\ l.prev \in [1 .. 1 -> 0 .. 1] /\ l.next[1] = 0 /\ l.prev[1] = 0
  BY <1>2
<1>4. PICK c : c = [i \in 1 .. 1 |-> 1]
  OBVIOUS
<1>5. IsOrder(l, c, 1)
  <2>1. c \in [1 .. 1 -> 1 .. 1] /\ c[1] = 1 /\ \A i \in 1 .. 1 : i = 1
    BY <1>4
  <2>2. IsInjective(c) /\ Rising(l.frag, c)
    BY <2>1 DEF IsInjective, Rising
  <2> QED BY <1>2, <1>3, <2>1, <2>2 DEF IsOrder
<1>6. ListOK(l)
  BY <1>3, <1>5 DEF ListOK, ListOf
<1> QED BY <1>1, <1>3, <1>6

(* What enqueue_remaining, get_first_fragment and FragmentsReachable see.  *)
LEMMA ListFacts ==
  ASSUME NEW l, ListOK(l)
  PROVE  /\ l.frag # <<>> /\ l.first \in DOMAIN l.frag
         /\ IsInjective(Chain(l)) /\ Len(Chain(l)) = Len(l.frag) /\ Chain(l)[Len(Chain(l))] = l.last
         /\ Len(Chain(l)) <= 3 => Rising(l.frag, Chain(l))
         /\ RemainingFragments(l) \in Seq({l.frag[i] : i \in DOMAIN l.frag})
<1>1. PICK n : n = Len(l.frag) /\ ListOf(l, n)
  BY DEF ListOK
<1>2. PICK c : IsOrder(l, c, n)
  BY <1>1 DEF ListOf
<1>3. Chain(l) = c
  BY <1>1, <1>2, ChainIs
<1>4. /\ n \in Nat /\ n >= 1 /\ l.frag \in Seq(Fragment) /\ c \in [1 .. n -> 1 .. n] /\ c[1] = l.first
      /\ IsInjective(c) /\ c[n] = l.last /\ (n <= 3 => Rising(l.frag, c))
  <2>1. n \in Nat \ {0} /\ l.frag \in Seq(Fragment)
    BY <1>1 DEF ListOf
  <2>2. n \in Nat /\ n >= 1
    BY <2>1
  <2> QED BY <1>2, <2>1, <2>2 DEF IsOrder
<1>5. c \in Seq(1 .. n) /\ Len(c) = n /\ DOMAIN l.frag = 1 .. n
  BY <1>1, <1>4, LenProperties
<1>6. l.frag # <<>> /\ l.first \in DOMAIN l.frag
  <2>1. 1 \in 1 .. n
    BY <1>4
  <2>2. c[1] \in 1 .. n
    BY <1>4, <2>1
  <2>3. Len(l.frag) # Len(<<>>)
    BY <1>1, <1>4
  <2> QED BY <1>4, <1>5, <2>2, <2>3
<1>7. RemainingFragments(l) \in Seq({l.frag[i] : i \in DOMAIN l.frag})
  <2>1. RemainingFragments(l) = [i \in 1 .. (n - 1) |-> l.frag[c[i + 1]]]
    BY <1>3, <1>5 DEF RemainingFragments
  <2>2. PICK S : S = {l.frag[i] : i \in 1 .. n}
    OBVIOUS
  <2>3. \A i \in 1 .. (n - 1) : l.frag[c[i + 1]] \in S
    BY SMTT(30), <1>4, <2>2
  <2>4. n - 1 \in Nat
    BY <1>4
  <2>5. [i \in 1 .. (n - 1) |-> l.frag[c[i + 1]]] \in Seq(S)
    BY <2>3, <2>4
  <2>6. S = {l.frag[i] : i \in DOMAIN l.frag}
    BY <1>5, <2>2
  <2> QED BY <2>1, <2>5, <2>6
<1> QED BY <1>1, <1>3, <1>4, <1>5, <1>6, <1>7

(* Flattening keeps to the elements.                                       *)
LEMMA FlattenIn ==
  ASSUME NEW S, NEW ss \in Seq(Seq(S))
  PROVE  FlattenSeq(ss) \in Seq(S)
<1>1. PICK n \in Nat : n = Len(ss)
  OBVIOUS
<1>2. \A i \in 1 .. n : ss[i] \in Seq(S)
  BY <1>1
<1>3. CASE n = 0
  <2>1. ss = <<>>
    BY <1>1, <1>3, EmptySeq
  <2> QED BY <1>1, <1>3, <2>1 DEF FlattenSeq
<1>4. CASE n # 0
  <2> DEFINE step == [i \in 1 .. n |-> [s \in Seq(S) |-> IF i = 1 THEN ss[i] ELSE s \o ss[i]]]
             Next1(g) == [i \in 1 .. n |-> IF i = 1 THEN ss[i] ELSE g[i - 1] \o ss[i]]
  <2>1. step \in [1 .. n -> [Seq(S) -> Seq(S)]]
    <3>1. \A i \in 1 .. n, s \in Seq(S) : s \o ss[i] \in Seq(S)
      BY <1>2, ConcatProperties
    <3> QED BY <1>2, <3>1
  <2>2. PICK f \in [0 .. n -> Seq(S)] : Iterates(f, n, <<>>, step)
    <3>1. <<>> \in Seq(S)
      OBVIOUS
    <3> HIDE DEF step
    <3> QED BY <2>1, <3>1, Recursion
  <2> DEFINE g == [i \in 1 .. n |-> f[i]]
  <2>3. ASSUME NEW i \in 1 .. n
        PROVE  g[i] \in Seq(S) /\ g[i] = IF i = 1 THEN ss[i] ELSE g[i - 1] \o ss[i]
    <3>1. i \in 0 .. n /\ i - 1 \in 0 .. n /\ (i # 1 => i - 1 \in 1 .. n)
      BY <1>1
    <3>2. f[i] = step[i][f[i - 1]] /\ f[i - 1] \in Seq(S) /\ f[i] \in Seq(S)
      <4> HIDE DEF step
      <4> QED BY <2>2, <3>1 DEF Iterates
    <3>3. f[i] = IF i = 1 THEN ss[i] ELSE f[i - 1] \o ss[i]
      BY <3>2
    <3> QED BY <3>1, <3>2, <3>3
  <2>4. g = Next1(g)
    <3>1. \A i \in 1 .. n : g[i] = Next1(g)[i]
      BY <2>3
    <3> QED BY <3>1
  <2> DEFINE u == CHOOSE h : h = Next1(h)
  <2>5. FlattenSeq(ss) = u[n]
    BY <1>1, <1>4 DEF FlattenSeq
  <2>6. u = Next1(u)
    <3> HIDE DEF Next1, g
    <3> QED BY <2>4
  <2>7. \A i \in 1 .. n : u[i] = IF i = 1 THEN ss[i] ELSE u[i - 1] \o ss[i]
    <3> HIDE DEF u
    <3> QED BY <2>6
  <2>8. \A i \in 0 .. n : i \in {j \in 0 .. n : j # 0 => u[j] \in Seq(S)}
    <3> DEFINE P == {j \in 0 .. n : j # 0 => u[j] \in Seq(S)}
    <3> HIDE DEF u
    <3>1. 0 \in P
      BY <1>1
    <3>2. ASSUME NEW i \in 1 .. n, i - 1 \in P
          PROVE  i \in P
      <4>1. CASE i = 1
        <5>1. u[i] = ss[i] /\ i \in 0 .. n
          BY <2>7, <4>1
        <5>2. u[i] \in Seq(S)
          BY <1>2, <5>1
        <5> QED BY <5>1, <5>2
      <4>2. CASE i # 1
        <5>1. i - 1 # 0 /\ u[i - 1] \in Seq(S) /\ ss[i] \in Seq(S) /\ i \in 0 .. n
          BY <1>2, <3>2, <4>2
        <5>2. u[i] = u[i - 1] \o ss[i]
          BY <2>7, <4>2
        <5>3. u[i] \in Seq(S)
          BY <5>1, <5>2, ConcatProperties
        <5> QED BY <5>1, <5>3
      <4> QED BY <4>1, <4>2
    <3>3. \A i \in 1 .. n : i - 1 \in P => i \in P
      BY <3>2
    <3> HIDE DEF P
    <3>4. \A i \in 0 .. n : i \in P
      BY <1>1, <3>1, <3>3, Induction
    <3> QED BY <3>4 DEF P
  <2>9. n \in 0 .. n
    BY <1>1
  <2> HIDE DEF u
  <2> QED BY <1>4, <2>5, <2>8, <2>9
<1> QED BY <1>3, <1>4

(***************************************************************************)
(* Streams.  Ends are the addresses and ports that may be read from frames.*)
(***************************************************************************)
Ends == ({f.ip_src : f \in Frames} \cup {f.ip_dst : f \in Frames})
          \X ({f.tcp.th_sport : f \in Frames} \cup {f.tcp.th_dport : f \in Frames})
Seqs == {NoSeq} \cup {f.tcp.th_seq : f \in Frames}
Part == [in : BOOLEAN, units : Nat, got : Seq(Units)]
StreamType ==
  [src : Ends, dst : Ends, last_tcp_seq : Seqs, open : Part, query : Seq(Units), more : Seq(Part)]
RecordType == [key : Ends, in : BOOLEAN, data : Seq(Units), of : Ends] \cup {Torn}

StreamOK(k, s) ==
  /\ s \in StreamType /\ k \in Ends /\ k \in {s.src, s.dst}
  /\ ~starting_packet(s) => Len(s.open.got) < s.open.units
  /\ s.query = NoQuery => s.more = <<>>

(* The packets of the capture, by the assumption on the constants.         *)
LEMMA MessageIs == \A m \in DOMAIN Msgs : Msgs[m] \in MsgType
BY CaptureAssumption

(* The empty values have the types of what they stand for.                 *)
LEMMA NoPacketIs == NoPacket \in Part /\ NoQuery \in Seq(Units)
BY DEF NoPacket, NoQuery, Part

(* A record of a packet.                                                   *)
LEMMA RecordIs ==
  ASSUME NEW k, NEW s, StreamOK(k, s), NEW p \in Part
  PROVE  Record(s, k, p) \in RecordType
BY DEF Record, get_key, RecordType, StreamOK, StreamType, Part

(* handle_packet_complete leaves a right stream and writes records.        *)
LEMMA CompleteOK ==
  ASSUME NEW k, NEW s, StreamOK(k, s), NEW p \in Part, p.got # <<>>
  PROVE  StreamOK(k, PacketComplete(s, k, p).s) /\ PacketComplete(s, k, p).out \in Seq(RecordType)
<1>1. s \in StreamType /\ s.query \in Seq(Units) /\ s.more \in Seq(Part) /\ <<>> \in Seq(Part)
      /\ p.got \in Seq(Units) /\ Record(s, k, p) \in RecordType /\ NoQuery \in Seq(Units)
  <2>1. s \in StreamType /\ p.got \in Seq(Units)
    BY DEF StreamOK, Part
  <2>2. s.query \in Seq(Units) /\ s.more \in Seq(Part) /\ <<>> \in Seq(Part)
    BY <2>1 DEF StreamType
  <2> QED BY <2>1, <2>2, NoPacketIs, RecordIs
<1>2. CASE is_query(p)
  <2>1. PacketComplete(s, k, p) = [s |-> [s EXCEPT !.query = p.got, !.more = <<>>], out |-> <<Record(s, k, p)>>]
    BY <1>2 DEF PacketComplete
  <2>2. StreamOK(k, [s EXCEPT !.query = p.got, !.more = <<>>])
    BY <1>1 DEF StreamOK, StreamType, starting_packet
  <2>3. <<Record(s, k, p)>> \in Seq(RecordType)
    BY <1>1
  <2> QED BY <2>1, <2>2, <2>3
<1>3. CASE ~is_query(p) /\ s.query # NoQuery /\ is_eof(p)
  <2> DEFINE mores == [i \in DOMAIN s.more |-> Record(s, k, s.more[i])]
  <2>1. PacketComplete(s, k, p) = [s |-> [s EXCEPT !.query = NoQuery, !.more = <<>>],
                                   out |-> <<Record(s, k, p)>> \o mores]
    BY <1>3 DEF PacketComplete, EofOfQuery
  <2>2. StreamOK(k, [s EXCEPT !.query = NoQuery, !.more = <<>>])
    BY <1>1 DEF StreamOK, StreamType, starting_packet
  <2>3. mores \in Seq(RecordType)
    <3>1. PICK n \in Nat : DOMAIN s.more = 1 .. n /\ \A i \in 1 .. n : s.more[i] \in Part
      BY <1>1
    <3>2. \A i \in 1 .. n : Record(s, k, s.more[i]) \in RecordType
      BY <3>1, RecordIs
    <3> QED BY <3>1, <3>2
  <2>4. <<Record(s, k, p)>> \in Seq(RecordType)
    BY <1>1
  <2> HIDE DEF mores
  <2>5. <<Record(s, k, p)>> \o mores \in Seq(RecordType)
    BY <2>3, <2>4, ConcatProperties
  <2> QED BY <2>1, <2>2, <2>5
<1>4. CASE ~is_query(p) /\ ~(s.query # NoQuery /\ is_eof(p))
  <2>1. PICK t : t = IF p.in /\ s.query # NoQuery THEN [s EXCEPT !.more = Append(@, p)] ELSE s
    OBVIOUS
  <2>2. PacketComplete(s, k, p) = [s |-> t, out |-> <<>>]
    BY <1>4, <2>1 DEF PacketComplete
  <2>3. StreamOK(k, t)
    <3>1. CASE p.in /\ s.query # NoQuery
      <4>1. Append(s.more, p) \in Seq(Part)
        BY <1>1
      <4>2. t = [s EXCEPT !.more = Append(s.more, p)]
        BY <2>1, <3>1
      <4> QED BY <1>1, <3>1, <4>1, <4>2 DEF StreamOK, StreamType, starting_packet
    <3>2. CASE ~(p.in /\ s.query # NoQuery)
      BY <2>1, <3>2
    <3> QED BY <3>1, <3>2
  <2> QED BY <2>2, <2>3
<1> QED BY <1>2, <1>3, <1>4

(* What appending gives: a stream and records.                             *)
Result(k) == {r \in [s : StreamType, out : Seq(RecordType)] : StreamOK(k, r.s)}

(* One unit.                                                               *)
LEMMA AppendUnitOK ==
  ASSUME NEW k, NEW acc \in Result(k), NEW u \in Units, NEW in \in BOOLEAN
  PROVE  AppendUnit(acc, u, k, in) \in Result(k)
<1>1. acc \in [s : StreamType, out : Seq(RecordType)] /\ StreamOK(k, acc.s)
  BY DEF Result
<1>2. PICK s : s = acc.s
  OBVIOUS
<1>3. s \in StreamType /\ StreamOK(k, s) /\ acc.out \in Seq(RecordType) /\ s.open \in Part
  BY <1>1, <1>2 DEF StreamType
<1>4. PICK p : p = Opened(s, u, in)
  OBVIOUS
<1>5. p \in Part /\ p.got # <<>>
  <2>1. CASE starting_packet(s)
    <3>1. PICK m, i : u = <<m, i>> /\ m \in DOMAIN Msgs
      BY DEF Units
    <3>2. Messages[u[1]].units \in Nat
      <4>1. u[1] = m /\ Msgs[m] \in MsgType
        BY <3>1, MessageIs
      <4> QED BY <4>1 DEF MsgType, Messages
    <3>3. <<u>> \in Seq(Units) /\ <<u>> # <<>>
      OBVIOUS
    <3> QED BY <1>4, <2>1, <3>2, <3>3 DEF Opened, Part, Endless
  <2>2. CASE ~starting_packet(s)
    <3>1. p = [s.open EXCEPT !.got = Append(s.open.got, u)]
      BY <1>4, <2>2 DEF Opened
    <3>2. s.open.got \in Seq(Units)
      BY <1>3 DEF Part
    <3>3. Append(s.open.got, u) \in Seq(Units) /\ Append(s.open.got, u) # <<>>
      BY <3>2
    <3> QED BY <1>3, <3>1, <3>3 DEF Part
  <2> QED BY <2>1, <2>2
<1>6. CASE Len(p.got) < p.units
  <2>1. AppendUnit(acc, u, k, in) = [acc EXCEPT !.s.open = p]
    BY <1>2, <1>4, <1>6 DEF AppendUnit
  <2>2. PICK t : t = [s EXCEPT !.open = p]
    OBVIOUS
  <2>3. [acc EXCEPT !.s.open = p] = [acc EXCEPT !.s = t]
    BY <1>1, <1>2, <2>2
  <2>4. StreamOK(k, t)
    BY <1>3, <1>5, <1>6, <2>2 DEF StreamOK, StreamType, starting_packet
  <2>5. t \in StreamType
    BY <2>4 DEF StreamOK
  <2> QED BY <1>1, <2>1, <2>3, <2>4, <2>5 DEF Result
<1>7. CASE ~(Len(p.got) < p.units)
  <2>1. PICK t : t = [s EXCEPT !.open = NoPacket]
    OBVIOUS
  <2>2. PICK c : c = PacketComplete(t, k, p)
    OBVIOUS
  <2>3. AppendUnit(acc, u, k, in) = [s |-> c.s, out |-> acc.out \o c.out]
    BY <1>2, <1>4, <1>7, <2>1, <2>2 DEF AppendUnit
  <2>4. StreamOK(k, t)
    BY <1>3, <2>1, NoPacketIs DEF StreamOK, StreamType, starting_packet
  <2>5. StreamOK(k, c.s) /\ c.out \in Seq(RecordType)
    BY <1>5, <2>2, <2>4, CompleteOK
  <2>6. acc.out \o c.out \in Seq(RecordType)
    BY <1>3, <2>5, ConcatProperties
  <2>7. c.s \in StreamType
    BY <2>5 DEF StreamOK
  <2> QED BY <2>3, <2>5, <2>6, <2>7 DEF Result
<1> QED BY <1>6, <1>7

(* All the data of a frame, unit by unit.                                  *)
Appends(u, s, k, data, in) ==
  /\ u[0] = [s |-> s, out |-> <<>>]
  /\ \A i \in 1 .. Len(data) : u[i] = AppendUnit(u[i - 1], data[i], k, in)
  /\ AppendData(s, k, data, in) = u[Len(data)]

LEMMA AppendDataIs ==
  ASSUME NEW k, NEW s, StreamOK(k, s), NEW data \in Seq(Units), NEW in \in BOOLEAN
  PROVE  \E u : /\ Appends(u, s, k, data, in)
                /\ \A i \in 0 .. Len(data) : u[i] \in Result(k)
<1>1. PICK n \in Nat : n = Len(data) /\ \A i \in 1 .. n : data[i] \in Units
  OBVIOUS
<1>2. PICK base : base = [s |-> s, out |-> <<>>]
  OBVIOUS
<1>3. base \in Result(k)
  BY <1>2 DEF Result, StreamOK
<1> DEFINE step == [i \in 1 .. n |-> [acc \in Result(k) |-> AppendUnit(acc, data[i], k, in)]]
           After(g) == [i \in 0 .. n |-> IF i = 0 THEN base ELSE AppendUnit(g[i - 1], data[i], k, in)]
<1>4. step \in [1 .. n -> [Result(k) -> Result(k)]]
  BY <1>1, AppendUnitOK
<1>5. PICK f \in [0 .. n -> Result(k)] : Iterates(f, n, base, step)
  <2> HIDE DEF step
  <2> QED BY <1>3, <1>4, Recursion
<1>6. f[0] = base /\ \A i \in 1 .. n : f[i] = AppendUnit(f[i - 1], data[i], k, in)
  <2>1. \A i \in 1 .. n : i - 1 \in 0 .. n /\ f[i - 1] \in Result(k)
    BY <1>5
  <2> QED BY <1>5, <2>1 DEF Iterates
<1>7. f = After(f)
  <2>1. \A i \in 0 .. n : f[i] = After(f)[i]
    BY <1>6
  <2> QED BY <1>5, <2>1
<1> DEFINE u == CHOOSE h : h = After(h)
<1>8. AppendData(s, k, data, in) = u[n]
  BY <1>1, <1>2 DEF AppendData
<1>9. u = After(u)
  <2> HIDE DEF After
  <2> QED BY <1>7
<1>10. u[0] = base /\ \A i \in 1 .. n : u[i] = AppendUnit(u[i - 1], data[i], k, in)
  <2>1. \A i \in 0 .. n : u[i] = IF i = 0 THEN base ELSE AppendUnit(u[i - 1], data[i], k, in)
    <3> HIDE DEF u
    <3> QED BY <1>9
  <2> HIDE DEF u
  <2> QED BY <2>1
<1> DEFINE P == {i \in 0 .. n : u[i] \in Result(k)}
<1> HIDE DEF u
<1>11. 0 \in P
  BY <1>1, <1>3, <1>10
<1>12. ASSUME NEW i \in 1 .. n, i - 1 \in P
       PROVE  i \in P
  <2>1. u[i] \in Result(k)
    BY <1>1, <1>10, <1>12, AppendUnitOK
  <2> QED BY <2>1
<1>13. \A i \in 0 .. n : i \in P
  <2>1. \A i \in 1 .. n : i - 1 \in P => i \in P
    BY <1>12
  <2> HIDE DEF P
  <2> QED BY <1>11, <2>1, Induction
<1>14. Appends(u, s, k, data, in)
  BY <1>1, <1>2, <1>8, <1>10 DEF Appends
<1> QED BY <1>1, <1>13, <1>14

LEMMA AppendDataOK ==
  ASSUME NEW k, NEW s, StreamOK(k, s), NEW data \in Seq(Units), NEW in \in BOOLEAN
  PROVE  AppendData(s, k, data, in) \in Result(k)
<1>1. PICK u : Appends(u, s, k, data, in) /\ \A i \in 0 .. Len(data) : u[i] \in Result(k)
  BY AppendDataIs
<1>2. Len(data) \in 0 .. Len(data)
  BY LenProperties
<1> QED BY <1>1, <1>2 DEF Appends

(***************************************************************************)
(* The size of the link header.                                            *)
(***************************************************************************)
LEMMA InputIs == ASSUME run \in DOMAIN Runs PROVE IsInput(input)
BY CaptureAssumption DEF input, Runs

(* The input and its frames, by the assumption on the constants.           *)
LEMMA InputFacts ==
  ASSUME run \in DOMAIN Runs
  PROVE  /\ input.little \in BOOLEAN /\ input.record \in BOOLEAN /\ input.room \in Nat
         /\ input.ether \in {0, 14, 18} /\ input.size \in {14, 18} /\ input.tci \in Tags
         /\ \A c \in DOMAIN input.scripts :
              /\ input.scripts[c] \in Seq(Range(input.scripts[c]))
              /\ \A i \in DOMAIN input.scripts[c] : IsFrame(input.scripts[c][i])
<1>1. PICK in : in = input /\ IsInput(in)
  BY InputIs
<1>2. /\ in.little \in BOOLEAN /\ in.record \in BOOLEAN /\ in.room \in Nat
      /\ in.ether \in {0, 14, 18} /\ in.size \in {14, 18} /\ in.tci \in Tags
      /\ \A c \in DOMAIN in.scripts :
           /\ in.scripts[c] \in Seq(Range(in.scripts[c]))
           /\ \A i \in DOMAIN in.scripts[c] : IsFrame(in.scripts[c][i])
  BY <1>1, Zenon DEF IsInput
<1> QED BY <1>1, <1>2, Zenon

(* The offset chosen is one that passes, and 0 only if none does.          *)
LEMMA DetectIs ==
  ASSUME NEW views, NEW caplen, NEW r, r = detect_eth_header_size(views, caplen)
  PROVE  \/ r = 0 /\ \A o \in ETH_MIN .. ETH_MAX : ~is_valid_ip_header(views[o], o, caplen)
         \/ r \in ETH_MIN .. ETH_MAX /\ is_valid_ip_header(views[r], r, caplen)
<1> DEFINE good == {o \in ETH_MIN .. ETH_MAX : is_valid_ip_header(views[o], o, caplen)}
<1>1. CASE good = {}
  BY <1>1 DEF detect_eth_header_size
<1>2. CASE good # {}
  <2>1. good \in SUBSET Nat
    BY DEF ETH_MIN, ETH_MAX
  <2>2. \E o \in good : \A o2 \in good : o <= o2
    <3> HIDE DEF good
    <3> QED BY <1>2, <2>1, NatMin
  <2>3. r = CHOOSE o \in good : \A o2 \in good : o <= o2
    BY <1>2 DEF detect_eth_header_size
  <2>4. r \in good
    <3> HIDE DEF good
    <3> QED BY <2>2, <2>3
  <2> QED BY <2>4
<1> QED BY <1>1, <1>2

(* A byte that is 4 above and 5 or more below.                             *)
LEMMA HalfBytes ==
  ASSUME NEW b \in Nat, b \div 16 = 4, b % 16 >= 5
  PROVE  b \in 69 .. 79
OBVIOUS

(* The halves of the two bytes of a tag.                                   *)
LEMMA TagBytes ==
  ASSUME NEW t \in Nat
  PROVE  /\ t \div 256 \in Nat /\ t % 256 \in Nat
         /\ t \div 4096 = (t \div 256) \div 16 /\ t % 16 = (t % 256) % 16
OBVIOUS

LEMMA TagsNat == \A t \in Tags : t \in Nat
<1>1. ASSUME NEW n, NEW t \in 0 .. n
      PROVE  t \in Nat
  OBVIOUS
<1> QED BY SMTT(60), <1>1 DEF Tags

(* No offset passes but that of the IP header.                             *)
LEMMA OnlyAtSize ==
  ASSUME run \in DOMAIN Runs, ~TagLooksLikeIp, NEW f, NEW caplen, NEW o \in ETH_MIN .. ETH_MAX,
         is_valid_ip_header(Views(f)[o], o, caplen)
  PROVE  o = input.size
<1>1. input.tci \in Tags /\ input.size \in {14, 18}
  BY InputFacts
<1>2. PICK t \in Nat : t = input.tci
  <2>1. input.tci \in Nat
    BY <1>1, TagsNat
  <2> QED BY <2>1
<1>3. /\ t \div 256 \in Nat /\ t % 256 \in Nat /\ t \div 4096 = (t \div 256) \div 16
      /\ t % 16 = (t % 256) % 16
  BY <1>2, TagBytes
<1>4. PICK h : h = Views(f)[o]
  OBVIOUS
<1>5. h.version = 4 /\ h.ihl >= 5
  BY <1>4 DEF is_valid_ip_header
<1>6. SUFFICES ASSUME o # input.size PROVE FALSE
  OBVIOUS
<1>7. CASE input.size = 18 /\ o = 14
  <2>1. h = [version |-> t \div 4096, ihl |-> (t \div 256) % 16, total |-> 2048]
    BY <1>2, <1>4, <1>6, <1>7 DEF Views, ETH_MIN, ETH_MAX
  <2>2. t \div 256 \in 69 .. 79
    BY <1>3, <1>5, <2>1, HalfBytes
  <2> QED BY <1>2, <1>7, <2>2 DEF TagLooksLikeIp
<1>8. CASE input.size = 18 /\ o = 15 /\ f.proto # "none"
  <2>1. h = [version |-> (t % 256) \div 16, ihl |-> t % 16, total |-> 69]
    BY <1>2, <1>4, <1>6, <1>8 DEF Views, ETH_MIN, ETH_MAX
  <2>2. t % 256 \in 69 .. 79
    BY <1>3, <1>5, <2>1, HalfBytes
  <2> QED BY ZenonT(30), <1>2, <1>8, <2>2 DEF TagLooksLikeIp
<1>9. CASE ~(input.size = 18 /\ o = 14) /\ ~(input.size = 18 /\ o = 15 /\ f.proto # "none")
  <2>1. h = NoHeader
    BY <1>4, <1>6, <1>9 DEF Views
  <2> QED BY <1>5, <2>1 DEF NoHeader
<1> QED BY <1>7, <1>8, <1>9

(* And that one passes, if a whole datagram follows.                       *)
LEMMA SizeFound ==
  ASSUME run \in DOMAIN Runs, ~TagLooksLikeIp, NEW f, IsFrame(f)
  PROVE  /\ detect_eth_header_size(Views(f), input.size + f.caplen) \in {0, input.size}
         /\ WholeDatagram(f) => detect_eth_header_size(Views(f), input.size + f.caplen) # 0
<1>1. PICK r, caplen : r = detect_eth_header_size(Views(f), caplen) /\ caplen = input.size + f.caplen
  OBVIOUS
<1>2. \/ r = 0 /\ \A o \in ETH_MIN .. ETH_MAX : ~is_valid_ip_header(Views(f)[o], o, caplen)
      \/ r \in ETH_MIN .. ETH_MAX /\ is_valid_ip_header(Views(f)[r], r, caplen)
  BY <1>1, DetectIs
<1>3. r \in {0, input.size}
  BY <1>2, OnlyAtSize
<1>4. ASSUME WholeDatagram(f)
      PROVE  r # 0
  <2>1. PICK size \in {14, 18} : size = input.size
    BY InputFacts
  <2>2. f.proto # "none" /\ f.ip_len \in 20 .. f.caplen /\ f.ip_len \in Nat /\ f.caplen \in Nat
    BY <1>4 DEF WholeDatagram, MIN_IP_HEADER_LEN, IsFrame
  <2>3. size \in ETH_MIN .. ETH_MAX
    BY DEF ETH_MIN, ETH_MAX
  <2>4. Views(f)[size] = [version |-> 4, ihl |-> 5, total |-> f.ip_len]
    BY <2>1, <2>2, <2>3 DEF Views
  <2>5. PICK len \in Nat, cap \in Nat : len = f.ip_len /\ cap = f.caplen
    BY <2>2
  <2>6. size + 20 <= caplen /\ len >= 20 /\ len <= caplen - size /\ caplen = size + cap
    BY <1>1, <2>1, <2>2, <2>5
  <2>7. is_valid_ip_header(Views(f)[size], size, caplen)
    BY <2>4, <2>5, <2>6 DEF is_valid_ip_header, MIN_IP_HEADER_LEN
  <2> QED BY <1>2, <2>3, <2>7 DEF ETH_MIN, ETH_MAX
<1> QED BY <1>1, <1>3, <1>4

(***************************************************************************)
(* The inductive invariant of Capture.  What a fragment list, a stream and *)
(* the appended data hold comes from frames of the input; Heads are those  *)
(* the header and data of a datagram may have been read from.              *)
(***************************************************************************)
Heads(id) == UNION {FramesOfId(input.scripts[c], id) : c \in DOMAIN input.scripts}
UnitsOfId(id) == UNION {Range(g.data) : g \in Heads(id)}

CaptureTypes ==
  /\ run \in DOMAIN Runs /\ DOMAIN pos = DOMAIN input.scripts
  /\ \A c \in DOMAIN pos : pos[c] \in 0 .. Len(input.scripts[c])
  /\ phase \in {"capture", "undetected", "aborted", "failed", "reading", "done"}
  /\ ether \in {0} \cup ETH_MIN .. ETH_MAX
  /\ file \in Seq(RecordType)

(* No wrong size is ever taken, and only the first frame can fail to show  *)
(* the size.                                                               *)
HeaderFound ==
  /\ DetectsLink
  /\ input.ether = 0 /\ ~TagLooksLikeIp => ether \in {0, input.size}
  /\ ether = 0 /\ phase = "capture" => \A c \in DOMAIN pos : pos[c] = 0

(* What is enqueued under an ip_id was read from frames of that ip_id.     *)
FragmentsKnown ==
  \A id \in DOMAIN packet_map :
    /\ ListOK(packet_map[id])
    /\ \A i \in DOMAIN packet_map[id].frag :
         \E g \in Heads(id) : packet_map[id].frag[i].payload = Payload(g)

StreamsKnown == \A k \in DOMAIN lookup : StreamOK(k, lookup[k])

(* What is appended for a key is of a conversation that has this key.      *)
FromConversation(k, u) ==
  \E c \in DOMAIN input.scripts :
    k \in EndsOf(input.scripts[c]) /\ ConnOf(u) \in ConnsOf(input.scripts[c])
AppendedKnown ==
  \A k \in DOMAIN appended :
    /\ appended[k] \in Seq(Units)
    /\ run \in IdsApart => \A i \in DOMAIN appended[k] : FromConversation(k, appended[k][i])

(* Nothing is read before the file is closed.                              *)
ReadingKnown ==
  /\ ReadInv(RecordType)
  /\ phase \notin {"reading", "done"} => ReadInit

CaptureInv ==
  /\ CaptureTypes /\ HeaderFound /\ FragmentsKnown /\ StreamsKnown /\ AppendedKnown
  /\ ReadingKnown

(* The invariant holds before the first frame.                             *)
LEMMA CaptureInvInit == ASSUME Init PROVE CaptureInv
<1>1. run \in DOMAIN Runs /\ ether = input.ether /\ phase = "capture" /\ file = <<>> /\ ReadInit
      /\ packet_map = EmptyMap /\ lookup = EmptyMap /\ appended = EmptyMap
      /\ pos = [c \in DOMAIN input.scripts |-> 0]
  BY DEF Init
<1>2. DOMAIN EmptyMap = {}
  BY DEF EmptyMap
<1>3. file \in Seq(RecordType)
  BY <1>1
<1>4. CaptureTypes
  <2>1. \A c \in DOMAIN pos : pos[c] \in 0 .. Len(input.scripts[c])
    <3>1. ASSUME NEW c \in DOMAIN input.scripts
          PROVE  0 \in 0 .. Len(input.scripts[c])
      <4>1. input.scripts[c] \in Seq(Range(input.scripts[c]))
        BY <1>1, InputFacts
      <4>2. Len(input.scripts[c]) \in Nat
        BY <4>1, LenProperties
      <4> QED BY <4>2
    <3> QED BY <1>1, <3>1
  <2>2. ether \in {0} \cup ETH_MIN .. ETH_MAX
    <3>1. ether \in {0, 14, 18}
      BY <1>1, InputFacts
    <3> QED BY <3>1 DEF ETH_MIN, ETH_MAX
  <2> QED BY <1>1, <1>3, <2>1, <2>2 DEF CaptureTypes
<1>5. HeaderFound
  <2>1. \A c \in DOMAIN pos : pos[c] = 0
    BY <1>1
  <2> QED BY <1>1, <2>1 DEF HeaderFound, DetectsLink
<1>6. FragmentsKnown /\ StreamsKnown /\ AppendedKnown
  BY <1>1, <1>2 DEF FragmentsKnown, StreamsKnown, AppendedKnown
<1>7. ReadingKnown
  BY <1>1, <1>3, ReadInvInit DEF ReadingKnown
<1> QED BY <1>4, <1>5, <1>6, <1>7 DEF CaptureInv

(* The frame that is read.                                                 *)
FrameFacts(f, c) ==
  /\ c \in DOMAIN input.scripts /\ IsFrame(f) /\ f \in Frames
  /\ f \in Range(input.scripts[c]) /\ f \in Heads(f.ip_id)

(* The input has this frame.                                               *)
LEMMA FrameIs ==
  ASSUME CaptureTypes, NEW c \in DOMAIN pos, ReadFrame(c)
  PROVE  FrameFacts(Frame(c), c)
<1>1. run \in DOMAIN Runs /\ c \in DOMAIN input.scripts /\ pos[c] \in 0 .. Len(input.scripts[c])
      /\ pos[c] < Len(input.scripts[c])
  BY DEF CaptureTypes, ReadFrame
<1>2. PICK s : s = input.scripts[c]
  OBVIOUS
<1>3. s \in Seq(Range(s)) /\ \A i \in DOMAIN s : IsFrame(s[i])
  BY <1>1, <1>2, InputFacts
<1>4. PICK i : i = pos[c] + 1
  OBVIOUS
<1>5. Len(s) \in Nat /\ DOMAIN s = 1 .. Len(s)
  BY <1>3, LenProperties
<1>6. i \in DOMAIN s
  BY <1>1, <1>2, <1>4, <1>5
<1>7. PICK f : f = Frame(c) /\ f = s[i]
  BY <1>2, <1>4 DEF Frame
<1>8. IsFrame(f) /\ f \in Range(s)
  BY <1>3, <1>6, <1>7 DEF Range
<1>9. f \in Frames
  BY <1>1, <1>2, <1>8 DEF Frames, input
<1>10. f \in Heads(f.ip_id)
  BY <1>1, <1>2, <1>8 DEF Heads, FramesOfId
<1> QED BY <1>1, <1>2, <1>7, <1>8, <1>9, <1>10 DEF FrameFacts

(* Frames that may stand for the datagram.                                 *)
LEMMA HeadsAre ==
  ASSUME CaptureTypes, NEW id, NEW g \in Heads(id)
  PROVE  g \in Frames /\ IsFrame(g) /\ g.data \in Seq(UnitsOfId(id)) /\ UnitsOfId(id) \subseteq Units
<1>1. run \in DOMAIN Runs
  BY DEF CaptureTypes
<1>2. ASSUME NEW h \in Heads(id)
      PROVE  h \in Frames /\ IsFrame(h)
  <2>1. PICK c \in DOMAIN input.scripts : h \in Range(input.scripts[c])
    BY DEF Heads, FramesOfId
  <2>2. PICK i \in DOMAIN input.scripts[c] : h = input.scripts[c][i]
    BY <2>1 DEF Range
  <2>3. IsFrame(h)
    BY <1>1, <2>2, InputFacts
  <2>4. h \in Frames
    BY <1>1, <2>1 DEF Frames, input
  <2> QED BY <2>3, <2>4
<1>3. \A h \in Heads(id) : h.data \in Seq(Units)
  BY <1>2, Zenon DEF IsFrame
<1>4. UnitsOfId(id) \subseteq Units
  <2>1. ASSUME NEW u \in UnitsOfId(id)
        PROVE  u \in Units
    <3>1. PICK h \in Heads(id) : u \in Range(h.data)
      BY DEF UnitsOfId
    <3>2. PICK d \in Seq(Units) : d = h.data
      BY <1>3
    <3>3. PICK i \in DOMAIN d : u = d[i]
      BY <3>1, <3>2 DEF Range
    <3> QED BY <3>3
  <2> QED BY <2>1
<1>5. g.data \in Seq(UnitsOfId(id))
  <2>1. PICK d \in Seq(Units) : d = g.data
    BY <1>3
  <2>2. Range(d) \subseteq UnitsOfId(id)
    BY <2>1 DEF UnitsOfId
  <2>3. \A i \in DOMAIN d : d[i] \in UnitsOfId(id)
    BY <2>2 DEF Range
  <2>4. d \in Seq(UnitsOfId(id))
    BY <2>3
  <2> QED BY <2>1, <2>4
<1> QED BY <1>2, <1>4, <1>5

(* The header that stands for a datagram, and all its data.                *)
LEMMA HeadIs ==
  ASSUME CaptureTypes, FragmentsKnown, NEW c, NEW f, FrameFacts(f, c)
  PROVE  \E g \in Heads(f.ip_id) : HeadOf(f) = Payload(g)
<1>1. CASE has_fragments(packet_map, f.ip_id)
  <2>1. PICK l : l = packet_map[f.ip_id]
    OBVIOUS
  <2>2. ListOK(l) /\ \A i \in DOMAIN l.frag : \E g \in Heads(f.ip_id) : l.frag[i].payload = Payload(g)
    BY <1>1, <2>1 DEF FragmentsKnown, has_fragments
  <2>3. l.first \in DOMAIN l.frag
    BY <2>2, ListFacts
  <2>4. HeadOf(f) = l.frag[l.first].payload
    BY <1>1, <2>1 DEF HeadOf, get_first_fragment
  <2> QED BY <2>2, <2>3, <2>4
<1>2. CASE ~has_fragments(packet_map, f.ip_id)
  BY <1>2 DEF HeadOf, FrameFacts
<1> QED BY <1>1, <1>2

(* The data are those of frames with the ip_id.                            *)
LEMMA DataIs ==
  ASSUME CaptureTypes, FragmentsKnown, NEW c, NEW f, FrameFacts(f, c)
  PROVE  DataOf(f) \in Seq(UnitsOfId(f.ip_id))
<1>1. PICK U : U = UnitsOfId(f.ip_id)
  OBVIOUS
<1>2. ASSUME NEW g \in Heads(f.ip_id)
      PROVE  Payload(g).data \in Seq(U)
  <2>1. g.data \in Seq(U)
    BY <1>1, HeadsAre
  <2> QED BY <2>1 DEF Payload
<1>3. CASE has_fragments(packet_map, f.ip_id)
  <2>1. PICK l : l = packet_map[f.ip_id]
    OBVIOUS
  <2>2. ListOK(l) /\ \A i \in DOMAIN l.frag : \E g \in Heads(f.ip_id) : l.frag[i].payload = Payload(g)
    BY <1>3, <2>1 DEF FragmentsKnown, has_fragments
  <2>3. PICK r : r = RemainingFragments(l)
    OBVIOUS
  <2>4. r \in Seq({l.frag[i] : i \in DOMAIN l.frag})
    BY <2>2, <2>3, ListFacts
  <2>5. PICK n \in Nat : DOMAIN r = 1 .. n /\ \A i \in 1 .. n : \E j \in DOMAIN l.frag : r[i] = l.frag[j]
    BY <2>4
  <2>6. PICK d : d = [i \in DOMAIN r |-> r[i].payload.data]
    OBVIOUS
  <2>7. d \in Seq(Seq(U))
    <3>1. \A i \in 1 .. n : r[i].payload.data \in Seq(U)
      BY <1>2, <2>2, <2>5
    <3> QED BY <2>5, <2>6, <3>1
  <2>8. HeadOf(f).data \in Seq(U)
    BY <1>2, HeadIs
  <2>9. <<HeadOf(f).data>> \o d \in Seq(Seq(U))
    <3>1. <<HeadOf(f).data>> \in Seq(Seq(U))
      BY <2>8
    <3> QED BY <2>7, <3>1, ConcatProperties
  <2>10. DataOf(f) = FlattenSeq(<<HeadOf(f).data>> \o d)
    BY <1>3, <2>1, <2>3, <2>6 DEF DataOf
  <2> QED BY <1>1, <2>9, <2>10, FlattenIn
<1>4. CASE ~has_fragments(packet_map, f.ip_id)
  <2>1. f.data \in Seq(U)
    BY <1>1, HeadsAre DEF FrameFacts
  <2> QED BY <1>1, <1>4, <2>1 DEF DataOf
<1> QED BY <1>3, <1>4

(* What the header names.                                                  *)
HeaderFacts(f) ==
  /\ Tcp(f) \in {g.tcp : g \in Heads(f.ip_id)}
  /\ <<f.ip_src, Tcp(f).th_sport>> \in Ends /\ <<f.ip_dst, Tcp(f).th_dport>> \in Ends
  /\ Tcp(f).th_seq \in Seqs /\ KeyOf(f) \in Ends /\ IsIn(f) \in BOOLEAN
  /\ KeyOf(f) \in {<<f.ip_src, Tcp(f).th_sport>>, <<f.ip_dst, Tcp(f).th_dport>>}

(* Addresses, ports and key are of this input.                             *)
LEMMA HeaderIs ==
  ASSUME CaptureTypes, FragmentsKnown, NEW c, NEW f, FrameFacts(f, c)
  PROVE  HeaderFacts(f)
<1>1. PICK g \in Heads(f.ip_id) : HeadOf(f) = Payload(g)
  BY HeadIs
<1>2. PICK t : t = Tcp(f) /\ t = g.tcp
  BY <1>1 DEF Tcp, Payload
<1>3. g \in Frames /\ f \in Frames
  BY HeadsAre DEF FrameFacts
<1>4. PICK p1, p2, a1, a2 : p1 = t.th_sport /\ p2 = t.th_dport /\ a1 = f.ip_src /\ a2 = f.ip_dst
  OBVIOUS
<1>5. <<a1, p1>> \in Ends /\ <<a2, p2>> \in Ends
  BY <1>2, <1>3, <1>4 DEF Ends
<1>6. t.th_seq \in Seqs
  BY <1>2, <1>3 DEF Seqs
<1>7. KeyOf(f) \in {<<a1, p1>>, <<a2, p2>>}
  BY <1>2, <1>4 DEF KeyOf
<1>8. IsIn(f) \in BOOLEAN
  BY DEF IsIn
<1> QED BY <1>2, <1>4, <1>5, <1>6, <1>7, <1>8 DEF HeaderFacts

(* The stream of the frame, found or new.                                  *)
LEMMA StreamForOK ==
  ASSUME CaptureTypes, FragmentsKnown, StreamsKnown, NEW c, NEW f, FrameFacts(f, c)
  PROVE  StreamOK(KeyOf(f), StreamFor(f))
<1>1. HeaderFacts(f)
  BY HeaderIs
<1>2. CASE KeyOf(f) \in DOMAIN lookup
  BY <1>2 DEF StreamFor, StreamsKnown
<1>3. CASE KeyOf(f) \notin DOMAIN lookup
  <2>1. PICK s : s = NewStream(f) /\ s = StreamFor(f)
    BY <1>3 DEF StreamFor
  <2>2. s \in StreamType
    <3>1. NoPacket \in Part /\ NoQuery \in Seq(Units) /\ <<>> \in Seq(Part) /\ NoSeq \in Seqs
      BY NoPacketIs DEF Seqs
    <3> QED BY <1>1, <2>1, <3>1 DEF NewStream, HeaderFacts, StreamType
  <2>3. KeyOf(f) \in {s.src, s.dst}
    BY <1>1, <2>1 DEF NewStream, HeaderFacts
  <2>4. starting_packet(s) /\ s.more = <<>>
    BY <2>1 DEF NewStream, starting_packet
  <2> QED BY <1>1, <2>1, <2>2, <2>3, <2>4 DEF StreamOK, HeaderFacts
<1> QED BY <1>2, <1>3

(* Writing records.                                                        *)
LEMMA WriteOK ==
  ASSUME CaptureTypes, phase = "capture", NEW rs \in Seq(RecordType), Write(rs)
  PROVE  file' \in Seq(RecordType) /\ phase' \in {"capture", "failed"}
<1>1. phase' \in {"capture", "failed"}
  BY DEF Write
<1>2. file \in Seq(RecordType) /\ Len(file) \in Nat /\ Len(rs) \in Nat /\ input.room \in Nat /\ Torn \in RecordType
  <2>1. run \in DOMAIN Runs /\ file \in Seq(RecordType) /\ Torn \in RecordType
    BY DEF CaptureTypes, RecordType
  <2> QED BY <2>1, InputFacts
<1>3. CASE ~input.record
  BY <1>2, <1>3 DEF Write
<1>4. CASE input.record /\ DiskHolds(rs)
  <2>1. file \o rs \in Seq(RecordType)
    BY <1>2, ConcatProperties
  <2> QED BY <1>4, <2>1, <1>1 DEF Write
<1>5. CASE input.record /\ ~DiskHolds(rs)
  <2>1. PICK m \in Int : m = input.room - Len(file)
    BY <1>2
  <2>2. m < Len(rs)
    BY <1>2, <1>5, <2>1 DEF DiskHolds
  <2>3. SubSeq(rs, 1, m) \in Seq(RecordType)
    <3>1. \A i \in 1 .. m : i \in 1 .. Len(rs)
      BY <1>2, <2>2
    <3>2. \A i \in 1 .. m : rs[i] \in RecordType
      BY <3>1
    <3> QED BY <3>1, <3>2, SubSeqProperties
  <2>4. Append(file \o SubSeq(rs, 1, m), Torn) \in Seq(RecordType)
    BY <1>2, <2>3, ConcatProperties, AppendProperties
  <2> QED BY <1>1, <1>5, <2>1, <2>4 DEF Write
<1> QED BY <1>1, <1>3, <1>4, <1>5

(* What the steps that read a frame have in common.                        *)
LEMMA EtherIs ==
  ASSUME CaptureTypes, NEW f
  PROVE  EtherAfter(f) \in {0} \cup ETH_MIN .. ETH_MAX
<1>1. PICK r : r = detect_eth_header_size(Views(f), input.size + f.caplen)
  OBVIOUS
<1>2. r \in {0} \cup ETH_MIN .. ETH_MAX
  BY <1>1, DetectIs
<1>3. ether \in {0} \cup ETH_MIN .. ETH_MAX
  BY DEF CaptureTypes
<1> QED BY <1>1, <1>2, <1>3 DEF EtherAfter

(* The position and the types.                                             *)
LEMMA TypesStep ==
  ASSUME CaptureTypes, NEW c \in DOMAIN pos, ReadFrame(c), UNCHANGED run,
         ether' \in {0} \cup ETH_MIN .. ETH_MAX, file' \in Seq(RecordType),
         phase' \in {"capture", "undetected", "aborted", "failed"}
  PROVE  CaptureTypes'
<1>1. run' \in DOMAIN Runs /\ input' = input
  BY DEF CaptureTypes, input
<1>2. DOMAIN pos' = DOMAIN input.scripts /\ \A d \in DOMAIN pos : pos'[d] = IF d = c THEN pos[c] + 1 ELSE pos[d]
  BY DEF CaptureTypes, ReadFrame
<1>3. ASSUME NEW d \in DOMAIN input.scripts
      PROVE  pos'[d] \in 0 .. Len(input.scripts[d])
  <2>1. pos[d] \in 0 .. Len(input.scripts[d])
    BY DEF CaptureTypes
  <2>2. Len(input.scripts[d]) \in Nat
    <3>1. input.scripts[d] \in Seq(Range(input.scripts[d]))
      BY InputFacts DEF CaptureTypes
    <3> QED BY <3>1, LenProperties
  <2>3. CASE d = c
    <3>1. pos'[d] = pos[d] + 1 /\ pos[d] < Len(input.scripts[d])
      BY <1>2, <2>3 DEF ReadFrame
    <3> QED BY <2>1, <2>2, <3>1
  <2>4. CASE d # c
    <3>1. pos'[d] = pos[d]
      BY <1>2, <2>4 DEF CaptureTypes
    <3> QED BY <2>1, <3>1
  <2> QED BY <2>3, <2>4
<1>4. \A d \in DOMAIN pos' : pos'[d] \in 0 .. Len(input'.scripts[d])
  BY <1>1, <1>2, <1>3
<1>5. DOMAIN pos' = DOMAIN input'.scripts
  BY <1>1, <1>2
<1> QED BY <1>1, <1>4, <1>5 DEF CaptureTypes

(* The size that is found is that of the link header.                      *)
LEMMA HandledStep ==
  ASSUME CaptureTypes, HeaderFound, NEW c \in DOMAIN pos, Handled(c), UNCHANGED run,
         phase' \in {"capture", "aborted", "failed"}
  PROVE  HeaderFound'
<1>1. ReadFrame(c) /\ ether' = EtherAfter(Frame(c)) /\ ether' # 0
  BY DEF Handled
<1>2. input' = input /\ (TagLooksLikeIp' <=> TagLooksLikeIp)
  BY DEF input, TagLooksLikeIp
<1>3. ASSUME input.ether = 0, ~TagLooksLikeIp
      PROVE  ether' \in {0, input.size}
  <2>1. PICK f : f = Frame(c) /\ IsFrame(f)
    BY <1>1, FrameIs DEF FrameFacts
  <2>2. ether \in {0, input.size}
    BY <1>3 DEF HeaderFound
  <2>3. CASE ether = 0
    <3>1. ether' = detect_eth_header_size(Views(f), input.size + f.caplen)
      BY <1>1, <2>1, <2>3 DEF EtherAfter
    <3> QED BY <1>3, <2>1, <3>1, SizeFound DEF CaptureTypes
  <2>4. CASE ether # 0
    BY <1>1, <2>2, <2>4 DEF EtherAfter
  <2> QED BY <2>3, <2>4
<1>4. DetectsLink'
  BY <1>1, <1>2, <1>3 DEF DetectsLink
<1> QED BY <1>1, <1>2, <1>3, <1>4 DEF HeaderFound

(* Parts of the invariant that a step does not touch.                      *)
LEMMA FragmentsSame ==
  ASSUME FragmentsKnown, UNCHANGED <<run, packet_map>> PROVE FragmentsKnown'
BY DEF FragmentsKnown, Heads, input

(* The streams are not touched.                                            *)
LEMMA StreamsSame ==
  ASSUME StreamsKnown, UNCHANGED lookup PROVE StreamsKnown'
BY DEF StreamsKnown

(* Nothing is appended.                                                    *)
LEMMA AppendedSame ==
  ASSUME AppendedKnown, UNCHANGED <<run, appended>> PROVE AppendedKnown'
BY DEF AppendedKnown, FromConversation, input

(* The file may grow while nothing has been read of it.                    *)
LEMMA ReadingNotBegun ==
  ASSUME ReadingKnown, phase \notin {"reading", "done"}, UNCHANGED readVars, file' \in Seq(RecordType)
  PROVE  ReadingKnown'
<1>1. ReadInit'
  BY DEF ReadingKnown, ReadInit, readVars
<1>2. ReadInv(RecordType)'
  BY <1>1 DEF ReadInit, ReadInv, ReadTypes, Ascending, Current, Together, Whole, EmptyMap
<1> QED BY <1>1, <1>2 DEF ReadingKnown

(* A frame that shows no size is the first.                                *)
LEMMA UndetectedStep ==
  ASSUME CaptureInv, NEW c \in DOMAIN pos, Undetected(c)
  PROVE  CaptureInv'
<1>1. /\ ReadFrame(c) /\ EtherAfter(Frame(c)) = 0 /\ phase = "capture" /\ phase' = "undetected"
      /\ UNCHANGED <<run, ether, packet_map, lookup, appended, file, readVars>>
  BY DEF Undetected, ReadFrame
<1>2. CaptureTypes /\ HeaderFound /\ FragmentsKnown /\ StreamsKnown /\ AppendedKnown /\ ReadingKnown
  BY DEF CaptureInv
<1>3. file' \in Seq(RecordType)
  BY <1>1, <1>2 DEF CaptureTypes
<1>4. CaptureTypes'
  <2>1. ether' \in {0} \cup ETH_MIN .. ETH_MAX
    BY <1>1, <1>2 DEF CaptureTypes
  <2> QED BY <1>1, <1>2, <1>3, <2>1, TypesStep
<1>5. HeaderFound'
  <2>1. ether = 0
    BY <1>1 DEF EtherAfter
  <2>2. pos[c] = 0 /\ pos' = [pos EXCEPT ![c] = @ + 1]
    BY <1>1, <1>2, <2>1 DEF HeaderFound, ReadFrame
  <2>3. Frame(c) = input.scripts[c][1] /\ IsFrame(Frame(c)) /\ pos'[c] = 1 /\ c \in DOMAIN pos'
    <3>1. pos[c] + 1 = 1
      BY <2>2
    <3> QED BY <1>1, <1>2, <2>2, <3>1, FrameIs DEF Frame, FrameFacts
  <2>4. ASSUME input.ether = 0, ~TagLooksLikeIp
        PROVE  ~WholeDatagram(Frame(c))
    <3>1. detect_eth_header_size(Views(Frame(c)), input.size + Frame(c).caplen) = 0
      BY <1>1, <2>1 DEF EtherAfter
    <3> QED BY <1>2, <2>3, <2>4, <3>1, SizeFound DEF CaptureTypes
  <2>5. input' = input /\ (TagLooksLikeIp' <=> TagLooksLikeIp) /\ ether' = 0 /\ phase' # "capture"
    BY <1>1, <2>1 DEF input, TagLooksLikeIp
  <2>6. ASSUME NEW d \in DOMAIN pos', pos'[d] > 0
        PROVE  d = c
    BY <1>1, <1>2, <2>1, <2>2, <2>6 DEF HeaderFound
  <2>7. DetectsLink'
    BY <2>3, <2>4, <2>5, <2>6 DEF DetectsLink, WholeDatagram
  <2> QED BY <2>5, <2>7 DEF HeaderFound
<1> QED BY <1>1, <1>2, <1>3, <1>4, <1>5, FragmentsSame, StreamsSame, AppendedSame, ReadingNotBegun
    DEF CaptureInv

(* ip_off is read as a number, in whichever byte order.                    *)
LEMMA OffsetIs ==
  ASSUME NEW d, NEW o \in Nat, d.off = o, NEW little \in BOOLEAN
  PROVE  ip_off(d, little) \in Nat
<1>1. PICK h, l \in Nat : h = o \div 256 /\ l = o % 256
  OBVIOUS
<1>2. PICK m \in Nat : m = IF d.mf THEN 32 ELSE 0
  OBVIOUS
<1>3. ip_off(d, little) = IF little THEN 256 * l + (m + h) ELSE 256 * (m + h) + l
  BY <1>1, <1>2 DEF ip_off
<1> QED BY <1>1, <1>2, <1>3

(* A fragment of a datagram that is not the last.                          *)
LEMMA EnqueueFragmentStep ==
  ASSUME CaptureInv, NEW c \in DOMAIN pos, EnqueueFragment(c)
  PROVE  CaptureInv'
<1>1. PICK f : f = Frame(c)
  OBVIOUS
<1>2. PICK fr : fr = [offset |-> Raw(f), payload |-> Payload(f)]
  OBVIOUS
<1>3. PICK id0 : id0 = f.ip_id
  OBVIOUS
<1>4. /\ Handled(c) /\ ReadFrame(c) /\ phase = "capture"
      /\ packet_map' = enqueue(packet_map, id0, fr)
      /\ ether' = EtherAfter(f)
      /\ UNCHANGED <<run, lookup, appended, file, phase, readVars>>
  BY <1>1, <1>2, <1>3 DEF EnqueueFragment, Handled, ReadFrame
<1>5. CaptureTypes /\ HeaderFound /\ FragmentsKnown /\ StreamsKnown /\ AppendedKnown /\ ReadingKnown
  BY DEF CaptureInv
<1>6. FrameFacts(f, c)
  BY <1>1, <1>4, <1>5, FrameIs
<1>7. file' \in Seq(RecordType)
  BY <1>4, <1>5 DEF CaptureTypes
<1>8. CaptureTypes'
  BY <1>4, <1>5, <1>7, EtherIs, TypesStep
<1>9. HeaderFound'
  BY <1>4, <1>5, HandledStep
<1>10. fr \in Fragment /\ fr.payload = Payload(f)
  <2>1. Raw(f) \in Nat
    <3>1. f.off \in Offsets /\ input.little \in BOOLEAN
      BY <1>5, <1>6, InputFacts DEF FrameFacts, IsFrame, CaptureTypes
    <3>2. \A o \in Offsets : o \in Nat
      BY SMT DEF Offsets
    <3> QED BY <3>1, <3>2, OffsetIs DEF Raw
  <2>2. Payload(f) \in Payloads
    BY <1>6 DEF FrameFacts, Payloads
  <2> QED BY <1>2, <2>1, <2>2 DEF Fragment
<1>11. FragmentsKnown'
  <2>1. \A id : Heads(id)' = Heads(id)
    BY <1>4 DEF Heads, input
  <2>2. DOMAIN packet_map' = DOMAIN packet_map \cup {id0}
    BY <1>4 DEF enqueue
  <2>3. ASSUME NEW id \in DOMAIN packet_map'
        PROVE  /\ ListOK(packet_map'[id])
               /\ \A i \in DOMAIN packet_map'[id].frag :
                    \E g \in Heads(id) : packet_map'[id].frag[i].payload = Payload(g)
    <3>1. CASE id # id0
      <4>1. packet_map'[id] = packet_map[id] /\ id \in DOMAIN packet_map
        BY <1>4, <2>2, <3>1 DEF enqueue
      <4> QED BY <1>5, <4>1 DEF FragmentsKnown
    <3>2. CASE id = id0 /\ id \in DOMAIN packet_map
      <4>1. packet_map'[id] = EnqueueIn(packet_map[id], fr)
        BY <1>4, <2>2, <3>2 DEF enqueue
      <4>2. PICK l : l = packet_map[id]
        OBVIOUS
      <4>3. ListOK(l) /\ \A i \in DOMAIN l.frag : \E g \in Heads(id) : l.frag[i].payload = Payload(g)
        BY <1>5, <3>2, <4>2 DEF FragmentsKnown
      <4>4. PICK m : m = EnqueueIn(l, fr)
        OBVIOUS
      <4>5. ListOK(m) /\ \A i \in DOMAIN m.frag : m.frag[i] = fr \/ \E j \in DOMAIN l.frag : m.frag[i] = l.frag[j]
        BY <1>10, <4>3, <4>4, EnqueueInOK
      <4>6. f \in Heads(id)
        BY <1>3, <1>6, <3>2 DEF FrameFacts
      <4> QED BY <1>10, <4>1, <4>2, <4>3, <4>4, <4>5, <4>6
    <3>3. CASE id = id0 /\ id \notin DOMAIN packet_map
      <4>1. packet_map'[id] = NewList(fr)
        BY <1>4, <2>2, <3>3 DEF enqueue
      <4>2. f \in Heads(id)
        BY <1>3, <1>6, <3>3 DEF FrameFacts
      <4> QED BY <1>10, <4>1, <4>2, NewListOK
    <3> QED BY <3>1, <3>2, <3>3
  <2> QED BY <2>1, <2>3 DEF FragmentsKnown
<1> QED BY <1>4, <1>5, <1>7, <1>8, <1>9, <1>11, StreamsSame, AppendedSame, ReadingNotBegun DEF CaptureInv

(* Frames that only ether or phase hear of.                                *)
LEMMA QuietStep ==
  ASSUME CaptureInv, NEW c \in DOMAIN pos, ShortFragment(c) \/ Ignored(c)
  PROVE  CaptureInv'
<1>1. /\ Handled(c) /\ ReadFrame(c) /\ phase = "capture" /\ ether' = EtherAfter(Frame(c))
      /\ phase' \in {"capture", "aborted"}
      /\ UNCHANGED <<run, packet_map, lookup, appended, file, readVars>>
  BY DEF ShortFragment, Ignored, Handled, ReadFrame
<1>2. CaptureTypes /\ HeaderFound /\ FragmentsKnown /\ StreamsKnown /\ AppendedKnown /\ ReadingKnown
  BY DEF CaptureInv
<1>3. file' \in Seq(RecordType)
  BY <1>1, <1>2 DEF CaptureTypes
<1>4. CaptureTypes'
  BY <1>1, <1>2, <1>3, EtherIs, TypesStep
<1>5. HeaderFound'
  BY <1>1, <1>2, HandledStep
<1> QED BY <1>1, <1>2, <1>3, <1>4, <1>5, FragmentsSame, StreamsSame, AppendedSame, ReadingNotBegun
    DEF CaptureInv

(* FIN and RST.                                                            *)
LEMMA StreamEndStep ==
  ASSUME CaptureInv, NEW c \in DOMAIN pos, StreamEnd(c)
  PROVE  CaptureInv'
<1>1. PICK k : k = KeyOf(Frame(c))
  OBVIOUS
<1>2. PICK r : r = [key |-> get_key(lookup[k], TRUE), in |-> TRUE, data |-> <<>>, of |-> k]
  OBVIOUS
<1>3. /\ Handled(c) /\ ReadFrame(c) /\ phase = "capture" /\ ether' = EtherAfter(Frame(c))
      /\ k \in DOMAIN lookup /\ Write(<<r>>)
      /\ lookup' = [x \in DOMAIN lookup \ {k} |-> lookup[x]]
      /\ UNCHANGED <<run, packet_map, appended, readVars>>
  BY <1>1, <1>2 DEF StreamEnd, Handled, ReadFrame
<1>4. CaptureTypes /\ HeaderFound /\ FragmentsKnown /\ StreamsKnown /\ AppendedKnown /\ ReadingKnown
  BY DEF CaptureInv
<1>5. r \in RecordType
  <2>1. k \in Ends /\ lookup[k] \in StreamType
    BY <1>3, <1>4 DEF StreamsKnown, StreamOK
  <2>2. PICK e \in Ends : e = get_key(lookup[k], TRUE)
    BY <2>1 DEF get_key, StreamType
  <2>3. TRUE \in BOOLEAN /\ <<>> \in Seq(Units)
    OBVIOUS
  <2>4. r \in [key : Ends, in : BOOLEAN, data : Seq(Units), of : Ends]
    BY <1>2, <2>1, <2>2, <2>3
  <2> QED BY <2>4 DEF RecordType
<1>6. file' \in Seq(RecordType) /\ phase' \in {"capture", "failed"}
  <2>1. <<r>> \in Seq(RecordType)
    BY <1>5
  <2> QED BY <1>3, <1>4, <2>1, WriteOK
<1>7. CaptureTypes'
  BY <1>3, <1>4, <1>6, EtherIs, TypesStep
<1>8. HeaderFound'
  BY <1>3, <1>4, <1>6, HandledStep
<1>9. StreamsKnown'
  BY <1>3, <1>4 DEF StreamsKnown
<1> QED BY <1>3, <1>4, <1>6, <1>7, <1>8, <1>9, FragmentsSame, AppendedSame, ReadingNotBegun
    DEF CaptureInv

(* If no two conversations have an ip_id in common, the key and the data   *)
(* of a datagram are of its own conversation.                              *)
LEMMA OfConversation ==
  ASSUME CaptureTypes, FragmentsKnown, run \in IdsApart, NEW c, NEW f, FrameFacts(f, c)
  PROVE  /\ f.ip_id \in IdsOf(input.scripts[c]) /\ KeyOf(f) \in EndsOf(input.scripts[c])
         /\ \A u \in UnitsOfId(f.ip_id) : ConnOf(u) \in ConnsOf(input.scripts[c])
<1>1. PICK id, fs : id = f.ip_id /\ fs = input.scripts[c]
  OBVIOUS
<1>2. c \in DOMAIN input.scripts /\ f \in Range(fs) /\ f \in FramesOfId(fs, id)
  BY <1>1 DEF FrameFacts, FramesOfId
<1>3. ASSUME NEW g \in Heads(id)
      PROVE  g \in FramesOfId(fs, id)
  <2>1. PICK d \in DOMAIN input.scripts : g \in FramesOfId(input.scripts[d], id)
    BY DEF Heads
  <2>2. \A e \in DOMAIN input.scripts : \A h : h \in FramesOfId(input.scripts[e], id) => id \in IdsOf(input.scripts[e])
    BY DEF FramesOfId, IdsOf, Range
  <2>3. id \in IdsOf(input.scripts[c]) /\ id \in IdsOf(input.scripts[d])
    BY <1>1, <1>2, <2>1, <2>2
  <2>4. c = d
    <3>1. \A a, b \in DOMAIN input.scripts :
            IdsOf(input.scripts[a]) \cap IdsOf(input.scripts[b]) # {} => a = b
      BY DEF IdsApart, input
    <3> QED BY <1>2, <2>1, <2>3, <3>1
  <2> QED BY <1>1, <2>1, <2>4
<1>4. PICK g \in Heads(id) : Tcp(f) = g.tcp
  BY <1>1, HeaderIs DEF HeaderFacts
<1>5. id \in IdsOf(fs) /\ KeyOf(f) \in EndsOf(fs)
  <2>1. id \in IdsOf(fs)
    BY <1>1, <1>2 DEF FramesOfId, IdsOf, Range
  <2>2. KeyOf(f) \in {<<f.ip_src, g.tcp.th_sport>>, <<f.ip_dst, g.tcp.th_dport>>}
    BY <1>4, HeaderIs DEF HeaderFacts
  <2>3. g \in FramesOfId(fs, id)
    BY <1>3
  <2> QED BY <1>2, <2>1, <2>2, <2>3 DEF EndsOf
<1>6. ASSUME NEW u \in UnitsOfId(id)
      PROVE  ConnOf(u) \in ConnsOf(fs)
  <2>1. PICK h \in Heads(id) : u \in Range(h.data)
    BY DEF UnitsOfId
  <2>2. PICK i \in DOMAIN fs : h = fs[i]
    BY <1>3, <2>1 DEF FramesOfId, Range
  <2>3. PICK j \in DOMAIN h.data : u = h.data[j]
    BY <2>1 DEF Range
  <2> QED BY <2>2, <2>3 DEF ConnsOf
<1> QED BY <1>1, <1>5, <1>6

(* They are appended for an end of it.                                     *)
LEMMA DataFrom ==
  ASSUME CaptureTypes, FragmentsKnown, run \in IdsApart, NEW c, NEW f, FrameFacts(f, c),
         NEW u \in UnitsOfId(f.ip_id)
  PROVE  FromConversation(KeyOf(f), u)
<1>1. c \in DOMAIN input.scripts
  BY DEF FrameFacts
<1> QED BY <1>1, OfConversation DEF FromConversation

(* A frame of a stream: everything but the fragments may change.           *)
LEMMA DataStep ==
  ASSUME CaptureInv, NEW c \in DOMAIN pos, Data(c)
  PROVE  CaptureInv'
<1>1. PICK f, k, s : f = Frame(c) /\ k = KeyOf(f) /\ s = StreamFor(f)
  OBVIOUS
<1>2. PICK seen : seen = IF HeadOf(f).data = <<>> THEN s ELSE [s EXCEPT !.last_tcp_seq = Tcp(f).th_seq]
  OBVIOUS
<1>3. PICK done : done = AppendData(seen, k, DataOf(f), IsIn(f))
  OBVIOUS
<1> DEFINE put(x) == [y \in DOMAIN lookup \cup {k} |-> IF y = k THEN x ELSE lookup[y]]
<1>4. /\ Handled(c) /\ ReadFrame(c) /\ phase = "capture" /\ ether' = EtherAfter(f)
      /\ UNCHANGED <<run, packet_map, readVars>>
      /\ \/ /\ lookup' = put(done.s) /\ Write(done.out)
            /\ appended' = [y \in DOMAIN appended \cup {k} |->
                               (IF y \in DOMAIN appended THEN appended[y] ELSE <<>>)
                                 \o (IF y = k THEN DataOf(f) ELSE <<>>)]
         \/ lookup' = put(seen) /\ UNCHANGED <<appended, file, phase>>
  BY <1>1, <1>2, <1>3 DEF Data, Handled, ReadFrame
<1>5. CaptureTypes /\ HeaderFound /\ FragmentsKnown /\ StreamsKnown /\ AppendedKnown /\ ReadingKnown
  BY DEF CaptureInv
<1>6. FrameFacts(f, c)
  BY <1>1, <1>4, <1>5, FrameIs
<1>7. HeaderFacts(f)
  BY <1>5, <1>6, HeaderIs
<1>8. StreamOK(k, seen)
  <2>1. StreamOK(k, s)
    BY <1>1, <1>5, <1>6, StreamForOK
  <2> QED BY <1>2, <1>7, <2>1 DEF StreamOK, StreamType, HeaderFacts, starting_packet
<1>9. DataOf(f) \in Seq(UnitsOfId(f.ip_id)) /\ DataOf(f) \in Seq(Units)
  <2>1. PICK U, d : U = UnitsOfId(f.ip_id) /\ d = DataOf(f)
    OBVIOUS
  <2>2. d \in Seq(U)
    BY <1>5, <1>6, <2>1, DataIs
  <2>3. U \subseteq Units
    BY <1>5, <1>6, <2>1, HeadsAre DEF FrameFacts
  <2>4. d \in Seq(Units)
    BY <2>2, <2>3
  <2> QED BY <2>1, <2>2, <2>4
<1>10. StreamOK(k, done.s) /\ done.out \in Seq(RecordType)
  BY <1>3, <1>7, <1>8, <1>9, AppendDataOK DEF Result, HeaderFacts
<1>11. file' \in Seq(RecordType) /\ phase' \in {"capture", "failed"}
  BY <1>4, <1>5, <1>10, WriteOK DEF CaptureTypes
<1>12. CaptureTypes'
  BY <1>4, <1>5, <1>11, EtherIs, TypesStep
<1>13. HeaderFound'
  BY <1>4, <1>5, <1>11, HandledStep
<1>14. StreamsKnown'
  BY ZenonT(30), <1>4, <1>5, <1>8, <1>10 DEF StreamsKnown
<1>15. AppendedKnown'
  <2>1. CASE UNCHANGED appended
    BY <1>4, <1>5, <2>1, AppendedSame
  <2>2. CASE appended' = [y \in DOMAIN appended \cup {k} |->
                            (IF y \in DOMAIN appended THEN appended[y] ELSE <<>>)
                              \o (IF y = k THEN DataOf(f) ELSE <<>>)]
    <3>1. \A x, u : FromConversation(x, u)' <=> FromConversation(x, u)
      BY <1>4 DEF FromConversation, input
    <3>2. ASSUME NEW y \in DOMAIN appended'
          PROVE  /\ appended'[y] \in Seq(Units)
                 /\ run \in IdsApart => \A i \in DOMAIN appended'[y] : FromConversation(y, appended'[y][i])
      <4>1. PICK a, b : /\ a = IF y \in DOMAIN appended THEN appended[y] ELSE <<>>
                        /\ b = IF y = k THEN DataOf(f) ELSE <<>>
        OBVIOUS
      <4>2. appended'[y] = a \o b
        BY <2>2, <4>1
      <4>3. a \in Seq(Units) /\ b \in Seq(Units)
        BY <1>5, <1>9, <4>1 DEF AppendedKnown
      <4>4. a \o b \in Seq(Units)
        BY <4>3, ConcatProperties
      <4>5. ASSUME run \in IdsApart, NEW i \in DOMAIN (a \o b)
            PROVE  FromConversation(y, (a \o b)[i])
        <5>1. ASSUME NEW j \in DOMAIN a
              PROVE  FromConversation(y, a[j])
          BY <1>5, <4>1, <4>5, <5>1 DEF AppendedKnown
        <5>2. ASSUME NEW j \in DOMAIN b
              PROVE  FromConversation(y, b[j])
          <6>1. y = k /\ b = DataOf(f)
            BY <4>1, <5>2
          <6>2. b[j] \in UnitsOfId(f.ip_id)
            BY <1>9, <5>2, <6>1
          <6> QED BY <1>1, <1>5, <1>6, <4>5, <6>1, <6>2, DataFrom
        <5>3. \/ i \in DOMAIN a /\ (a \o b)[i] = a[i]
              \/ i - Len(a) \in DOMAIN b /\ (a \o b)[i] = b[i - Len(a)]
          BY <4>3, ConcatProperties
        <5> QED BY <5>1, <5>2, <5>3
      <4> QED BY <4>2, <4>4, <4>5
    <3> QED BY <1>4, <3>1, <3>2 DEF AppendedKnown
  <2> QED BY <1>4, <2>1, <2>2
<1> QED BY <1>4, <1>5, <1>11, <1>12, <1>13, <1>14, <1>15, FragmentsSame, ReadingNotBegun DEF CaptureInv

(* The file is opened again and read.                                      *)
LEMMA ReadingStep ==
  ASSUME CaptureInv, Reopen \/ ReadBack \/ FileEnd \/ UNCHANGED vars
  PROVE  CaptureInv'
<1>1. CaptureTypes /\ HeaderFound /\ FragmentsKnown /\ StreamsKnown /\ AppendedKnown /\ ReadingKnown
  BY DEF CaptureInv
<1>2. UNCHANGED <<run, pos, ether, packet_map, lookup, appended, file>>
  BY DEF Reopen, ReadBack, FileEnd, vars, captureVars, ReadNext, ReadEnd, ReadKnown, ReadNew
<1>3. phase' = phase \/ phase' \in {"reading", "done"}
  BY DEF Reopen, ReadBack, FileEnd, vars
<1>4. [ReadNext]_<<file, readVars>>
  BY <1>2 DEF Reopen, ReadBack, FileEnd, vars, captureVars
<1>5. UNCHANGED readVars \/ phase \in {"reading", "done"}
  BY DEF Reopen, ReadBack, FileEnd, vars
<1>6. CaptureTypes'
  BY <1>1, <1>2, <1>3 DEF CaptureTypes, input
<1>7. HeaderFound'
  <2>1. input' = input /\ (TagLooksLikeIp' <=> TagLooksLikeIp)
    BY <1>2 DEF input, TagLooksLikeIp
  <2> QED BY <1>1, <1>2, <1>3, <2>1 DEF HeaderFound, DetectsLink
<1>8. ReadingKnown'
  <2>1. ReadInv(RecordType)'
    BY <1>1, <1>4, ReadInvStep DEF ReadingKnown
  <2>2. phase' \notin {"reading", "done"} => ReadInit'
    <3>1. ASSUME phase' \notin {"reading", "done"}
          PROVE  ReadInit'
      <4>1. UNCHANGED readVars /\ phase \notin {"reading", "done"}
        BY <1>3, <1>5, <3>1
      <4> QED BY <1>1, <4>1 DEF ReadingKnown, ReadInit, readVars
    <3> QED BY <3>1
  <2> QED BY <2>1, <2>2 DEF ReadingKnown
<1> QED BY <1>1, <1>2, <1>6, <1>7, <1>8, FragmentsSame, StreamsSame, AppendedSame DEF CaptureInv

(* Every step.                                                             *)
LEMMA CaptureInvStep == ASSUME CaptureInv, [Next]_vars PROVE CaptureInv'
<1>1. ASSUME NEW c \in DOMAIN pos,
             \/ Undetected(c) \/ EnqueueFragment(c) \/ ShortFragment(c)
             \/ Ignored(c) \/ StreamEnd(c) \/ Data(c)
      PROVE  CaptureInv'
  BY <1>1, UndetectedStep, EnqueueFragmentStep, QuietStep, StreamEndStep, DataStep
<1>2. CASE Reopen \/ ReadBack \/ FileEnd \/ UNCHANGED vars
  BY <1>2, ReadingStep
<1> QED BY <1>1, <1>2 DEF Next

(* The invariant holds throughout.                                         *)
THEOREM CaptureInvariant == Spec => []CaptureInv
<1>1. Init => CaptureInv
  BY CaptureInvInit
<1>2. CaptureInv /\ [Next]_vars => CaptureInv'
  BY CaptureInvStep
<1> QED BY <1>1, <1>2, PTL DEF Spec

(* Every variable of process_pkt is in its range: a stream is found under  *)
(* one of its ends, an open packet lacks bytes, packets are kept only      *)
(* behind a query, and a list that is in the map has a fragment.           *)
THEOREM CaptureTypeOK == Spec => []TypeOK
<1>1. ASSUME CaptureInv PROVE TypeOK
  <2>1. CaptureTypes /\ FragmentsKnown /\ StreamsKnown /\ ReadingKnown
    BY <1>1 DEF CaptureInv
  <2>2. \A id \in DOMAIN packet_map : packet_map[id].frag # <<>>
    BY <2>1, ListFacts DEF FragmentsKnown
  <2>3. \A k \in DOMAIN lookup :
          /\ k \in {lookup[k].src, lookup[k].dst}
          /\ ~starting_packet(lookup[k]) => Len(lookup[k].open.got) < lookup[k].open.units
          /\ lookup[k].query = NoQuery => lookup[k].more = <<>>
    BY <2>1 DEF StreamsKnown, StreamOK
  <2>4. rpos \in 0 .. Len(file) /\ \A k \in DOMAIN rlookup : rlookup[k] \in DOMAIN rstreams
    BY <2>1 DEF ReadingKnown, ReadInv, ReadTypes
  <2> QED BY <2>1, <2>2, <2>3, <2>4 DEF TypeOK, CaptureTypes
<1> QED BY <1>1, CaptureInvariant, PTL

(* Whatever VLAN a frame names, as long as no byte of the tag can be taken *)
(* for the first of an IP header, the size of the link header is right as  *)
(* soon as a frame with a whole datagram was read that begins a            *)
(* conversation, whatever is in it (detect_eth_header_size).  What the     *)
(* code does without a whole datagram is left out.                         *)
THEOREM LinkDetected == Spec => []DetectsLink
<1>1. CaptureInv => DetectsLink
  BY DEF CaptureInv, HeaderFound
<1> QED BY <1>1, CaptureInvariant, PTL

(* However many fragments arrive in whatever order, each is reached once   *)
(* along next and last is the end, although prev is left wrong in lists of *)
(* three and more; up to three are in order (IP_stream::enqueue).          *)
THEOREM FragmentsKept == Spec => []FragmentsReachable
<1>1. ASSUME CaptureInv PROVE FragmentsReachable
  <2>1. ASSUME NEW id \in DOMAIN packet_map, NEW l, l = packet_map[id]
        PROVE  /\ IsInjective(Chain(l)) /\ Len(Chain(l)) = Len(l.frag) /\ Chain(l)[Len(Chain(l))] = l.last
               /\ Len(Chain(l)) <= 3 => Rising(l.frag, Chain(l))
    <3>1. ListOK(l)
      BY <1>1, <2>1 DEF CaptureInv, FragmentsKnown
    <3> QED BY <3>1, ListFacts
  <2> QED BY <2>1 DEF FragmentsReachable, Rising
<1> QED BY <1>1, CaptureInvariant, PTL

(* However the frames of two connections are interleaved, cut into IP      *)
(* fragments or captured twice, no stream gets bytes of both, if no ip_id  *)
(* and no client end is shared by them: the lookup key of process_pkt      *)
(* tells connections apart.                                                *)
THEOREM ConnectionsApart == Spec => []NoMixing
<1>1. ASSUME CaptureInv PROVE NoMixing
  <2>1. ASSUME run \in IdsApart, run \in EndsApart, NEW k \in DOMAIN appended, k[2] # MysqlPort,
               NEW i \in DOMAIN appended[k], NEW j \in DOMAIN appended[k]
        PROVE  ConnOf(appended[k][i]) = ConnOf(appended[k][j])
    <3>1. PICK x, y : x = ConnOf(appended[k][i]) /\ y = ConnOf(appended[k][j])
      OBVIOUS
    <3>2. PICK c \in DOMAIN input.scripts : k \in EndsOf(input.scripts[c]) /\ x \in ConnsOf(input.scripts[c])
      BY <1>1, <2>1, <3>1 DEF CaptureInv, AppendedKnown, FromConversation
    <3>3. PICK d \in DOMAIN input.scripts : k \in EndsOf(input.scripts[d]) /\ y \in ConnsOf(input.scripts[d])
      BY <1>1, <2>1, <3>1 DEF CaptureInv, AppendedKnown, FromConversation
    <3>4. x = y
      BY <2>1, <3>2, <3>3 DEF EndsApart, input
    <3> QED BY <3>1, <3>4
  <2> QED BY <2>1 DEF NoMixing
<1> QED BY <1>1, CaptureInvariant, PTL

(* The file a capture has left behind, whatever it recorded and wherever   *)
(* the disk was full, is read back whole.                                  *)
THEOREM CapturedReadBack == Spec => []ReadBackWhole
<1>1. CaptureInv => ReadBackWhole
  BY ReadInvImplies DEF CaptureInv, ReadingKnown
<1> QED BY <1>1, CaptureInvariant, PTL
=============================================================================
