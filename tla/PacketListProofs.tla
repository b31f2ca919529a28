-------------------------- MODULE PacketListProofs --------------------------
(***************************************************************************)
(* Proofs about PacketList for lists of any length: the pointers always    *)
(* form the list of the linked packets in append order, and so implement   *)
(* the ordered set of PacketSet.                                           *)
(***************************************************************************)
EXTENDS PacketList, TLAPS

(* Only appended packets are on the list.                                  *)
InRange == \A i \in Linked : i <= n

ListInv == TypeOK /\ ListWellFormed /\ InRange /\ WalkIsNext

(* What unlink_pkt does to a well-formed list: the packet leaves, the rest *)
(* stays linked, and the pointers fit again.                               *)
LEMMA RemoveFromList ==
  ASSUME TypeOK, ListWellFormed, NEW i \in Linked, Remove(i)
  PROVE  /\ Linked' = Linked \ {i}
         /\ next' \in [Pkt -> Pkt \cup {NULL}] /\ prev' \in [Pkt -> Pkt \cup {NULL}]
         /\ first' \in Pkt \cup {NULL} /\ last' \in Pkt \cup {NULL}
         /\ ListWellFormed'
<1>1. /\ next' \in [Pkt -> Pkt \cup {NULL}] /\ prev' \in [Pkt -> Pkt \cup {NULL}]
      /\ first' \in Pkt \cup {NULL} /\ last' \in Pkt \cup {NULL}
  BY DEF TypeOK, Remove, Linked
<1>2. i \in Pkt /\ \A j \in Linked : j \in Pkt /\ j \in Int
  BY DEF Linked, Pkt
<1>3. Linked' = Linked \ {i}
  <2>1. SUFFICES ASSUME NEW j \in Pkt
                 PROVE  j \in Linked' <=> j \in Linked /\ j # i
    BY DEF Linked
  <2>2. CASE j = i
    <3>1. prev'[i] = NULL BY <1>2 DEF Remove
    <3>2. first' # i
      BY <1>2 DEF Remove, ListWellFormed, NextIsSuccessor, NULL, Pkt
    <3>3. QED BY <2>2, <3>1, <3>2 DEF Linked
  <2>3. CASE j # i /\ j = next[i]
    <3>1. j \in Linked /\ prev'[j] = prev[i]
      BY <2>3 DEF Remove, ListWellFormed, NextIsSuccessor, NULL, Pkt
    <3>2. CASE prev[i] = NULL
      <4>1. i = first BY <3>2 DEF Linked
      <4>2. QED BY <2>3, <3>1, <4>1 DEF Remove, Linked
    <3>3. CASE prev[i] # NULL
      BY <2>3, <3>1, <3>3 DEF Linked
    <3>4. QED BY <3>2, <3>3
  <2>4. CASE j # i /\ j # next[i]
    <3>1. prev'[j] = prev[j] BY <2>4 DEF Remove
    <3>2. first' = j <=> first = j
      <4>1. CASE i = first
        BY <2>4, <4>1 DEF Remove
      <4>2. CASE i # first
        BY <4>2 DEF Remove
      <4>3. QED BY <4>1, <4>2
    <3>3. QED BY <2>4, <3>1, <3>2 DEF Linked
  <2>5. QED BY <2>2, <2>3, <2>4
<1>4. \A j \in Pkt : /\ next'[j] = IF j = i THEN NULL
                                   ELSE IF j = prev[i] THEN next[i] ELSE next[j]
                     /\ prev'[j] = IF j = i THEN NULL
                                   ELSE IF j = next[i] THEN prev[i] ELSE prev[j]
  BY DEF Remove
<1>5. /\ \A j \in Linked : \/ next[j] = NULL /\ \A k \in Linked : k <= j
                           \/ /\ next[j] \in Linked /\ j < next[j]
                              /\ \A k \in Linked : j < k => next[j] <= k
      /\ \A j \in Linked : \/ prev[j] = NULL /\ \A k \in Linked : j <= k
                           \/ /\ prev[j] \in Linked /\ prev[j] < j
                              /\ \A k \in Linked : k < j => k <= prev[j]
      /\ \A j \in Linked : j # NULL
  <2>1. NextIsSuccessor /\ PrevIsPredecessor BY DEF ListWellFormed
  <2>2. \A j \in Linked : j # NULL BY <1>2 DEF NULL, Pkt
  <2>3. QED BY <2>1, <2>2 DEF NextIsSuccessor, PrevIsPredecessor
<1>6. NextIsSuccessor'
  <2>1. SUFFICES ASSUME NEW j \in Linked, j # i
                 PROVE  \/ next'[j] = NULL /\ \A k \in Linked \ {i} : k <= j
                        \/ /\ next'[j] \in Linked \ {i} /\ j < next'[j]
                           /\ \A k \in Linked \ {i} : j < k => next'[j] <= k
    BY <1>3 DEF NextIsSuccessor
  <2>2. CASE j = prev[i]
    <3>1. next'[j] = next[i] /\ j < i /\ \A k \in Linked : k < i => k <= j
      BY <1>2, <1>4, <1>5, <2>1, <2>2
    <3>2. CASE next[i] = NULL
      <4>1. \A k \in Linked : k <= i BY <1>2, <1>5, <3>2
      <4>2. QED BY <1>2, <3>1, <3>2, <4>1
    <3>3. CASE next[i] # NULL
      <4>1. /\ next[i] \in Linked /\ i < next[i]
            /\ \A k \in Linked : i < k => next[i] <= k
        BY <1>2, <1>5, <3>3
      <4>2. j < next[i] /\ next[i] # i BY <1>2, <3>1, <4>1
      <4>3. \A k \in Linked \ {i} : j < k => i < k BY <1>2, <3>1
      <4>4. QED BY <3>1, <4>1, <4>2, <4>3
    <3>4. QED BY <3>2, <3>3
  <2>3. CASE j # prev[i]
    <3>1. next'[j] = next[j] BY <1>2, <1>4, <2>1, <2>3
    <3>2. next[j] # i
      <4>1. SUFFICES ASSUME next[j] = i PROVE FALSE OBVIOUS
      <4>2. j < i /\ \A k \in Linked : j < k => i <= k
        BY <1>2, <1>5, <4>1
      <4>3. prev[i] \in Linked /\ prev[i] < i /\ j <= prev[i]
        BY <1>2, <1>5, <4>2
      <4>4. j < prev[i] BY <1>2, <2>3, <4>3
      <4>5. QED BY <1>2, <4>2, <4>3, <4>4
    <3>3. QED BY <1>5, <2>1, <3>1, <3>2
  <2>4. QED BY <2>2, <2>3
<1>7. PrevIsPredecessor'
  <2>1. SUFFICES ASSUME NEW j \in Linked, j # i
                 PROVE  \/ prev'[j] = NULL /\ \A k \in Linked \ {i} : j <= k
                        \/ /\ prev'[j] \in Linked \ {i} /\ prev'[j] < j
                           /\ \A k \in Linked \ {i} : k < j => k <= prev'[j]
    BY <1>3 DEF PrevIsPredecessor
  <2>2. CASE j = next[i]
    <3>1. prev'[j] = prev[i] /\ i < j /\ \A k \in Linked : i < k => j <= k
      BY <1>2, <1>4, <1>5, <2>1, <2>2
    <3>2. CASE prev[i] = NULL
      <4>1. \A k \in Linked : i <= k BY <1>2, <1>5, <3>2
      <4>2. QED BY <1>2, <3>1, <3>2, <4>1
    <3>3. CASE prev[i] # NULL
      <4>1. /\ prev[i] \in Linked /\ prev[i] < i
            /\ \A k \in Linked : k < i => k <= prev[i]
        BY <1>2, <1>5, <3>3
      <4>2. prev[i] < j /\ prev[i] # i BY <1>2, <3>1, <4>1
      <4>3. \A k \in Linked \ {i} : k < j => k < i BY <1>2, <3>1
      <4>4. QED BY <3>1, <4>1, <4>2, <4>3
    <3>4. QED BY <3>2, <3>3
  <2>3. CASE j # next[i]
    <3>1. prev'[j] = prev[j] BY <1>2, <1>4, <2>1, <2>3
    <3>2. prev[j] # i
      <4>1. SUFFICES ASSUME prev[j] = i PROVE FALSE OBVIOUS
      <4>2. i < j /\ \A k \in Linked : k < j => k <= i
        BY <1>2, <1>5, <4>1
      <4>3. next[i] \in Linked /\ i < next[i] /\ next[i] <= j
        BY <1>2, <1>5, <4>2
      <4>4. next[i] < j BY <1>2, <2>3, <4>3
      <4>5. QED BY <1>2, <4>2, <4>3, <4>4
    <3>3. QED BY <1>5, <2>1, <3>1, <3>2
  <2>4. QED BY <2>2, <2>3
<1>8. EndsMatch'
  <2>1. /\ first \in Linked /\ \A j \in Linked : first <= j
        /\ last \in Linked /\ \A j \in Linked : j <= last
    BY DEF ListWellFormed, EndsMatch
  <2>2. /\ first' = IF i = first THEN next[i] ELSE first
        /\ last' = IF i = last THEN prev[i] ELSE last
    BY DEF Remove
  <2>3. \/ first' = NULL /\ Linked' = {}
        \/ first' \in Linked' /\ \A j \in Linked' : first' <= j
    <3>1. CASE i # first
      BY <1>3, <2>1, <2>2, <3>1
    <3>2. CASE i = first /\ next[i] = NULL
      <4>1. \A j \in Linked : j = i BY <1>2, <1>5, <2>1, <3>2
      <4>2. QED BY <1>3, <2>2, <3>2, <4>1
    <3>3. CASE i = first /\ next[i] # NULL
      <4>1. /\ next[i] \in Linked /\ i < next[i]
            /\ \A k \in Linked : i < k => next[i] <= k
        BY <1>2, <1>5, <3>3
      <4>2. \A k \in Linked \ {i} : i < k BY <1>2, <2>1, <3>3
      <4>3. next[i] # i BY <1>2, <4>1
      <4>4. QED BY <1>3, <2>2, <3>3, <4>1, <4>2, <4>3
    <3>4. QED BY <3>1, <3>2, <3>3
  <2>4. \/ last' = NULL /\ Linked' = {}
        \/ last' \in Linked' /\ \A j \in Linked' : j <= last'
    <3>1. CASE i # last
      BY <1>3, <2>1, <2>2, <3>1
    <3>2. CASE i = last /\ prev[i] = NULL
      <4>1. \A j \in Linked : j = i BY <1>2, <1>5, <2>1, <3>2
      <4>2. QED BY <1>3, <2>2, <3>2, <4>1
    <3>3. CASE i = last /\ prev[i] # NULL
      <4>1. /\ prev[i] \in Linked /\ prev[i] < i
            /\ \A k \in Linked : k < i => k <= prev[i]
        BY <1>2, <1>5, <3>3
      <4>2. \A k \in Linked \ {i} : k < i BY <1>2, <2>1, <3>3
      <4>3. prev[i] # i BY <1>2, <4>1
      <4>4. QED BY <1>3, <2>2, <3>3, <4>1, <4>2, <4>3
    <3>4. QED BY <3>1, <3>2, <3>3
  <2>5. \A j \in Linked' : j # NULL BY <1>3, <1>5
  <2>6. QED BY <2>3, <2>4, <2>5 DEF EndsMatch
<1>9. OffListIsClear'
  <2>1. SUFFICES ASSUME NEW j \in Pkt, j \notin Linked \/ j = i
                 PROVE  next'[j] = NULL /\ prev'[j] = NULL
    BY <1>3 DEF OffListIsClear
  <2>2. j # i => j # next[i] /\ j # prev[i]
    BY <2>1 DEF ListWellFormed, NextIsSuccessor, PrevIsPredecessor, NULL, Pkt
  <2>3. QED
    BY <1>4, <2>1, <2>2 DEF ListWellFormed, OffListIsClear
<1>10. QED BY <1>1, <1>3, <1>6, <1>7, <1>8, <1>9 DEF ListWellFormed

(* unlink_pkt of a packet that is not on the list changes nothing.         *)
LEMMA RemoveOffList ==
  ASSUME TypeOK, ListWellFormed, NEW i \in Pkt, i \notin Linked, Remove(i)
  PROVE  UNCHANGED <<first, last, next, prev>>
<1>1. next[i] = NULL /\ prev[i] = NULL
  BY DEF ListWellFormed, OffListIsClear
<1>2. i # first /\ i # last /\ \A j \in Pkt : j # NULL
  BY DEF Linked, ListWellFormed, EndsMatch, Pkt, NULL
<1>3. first' = first /\ last' = last
  BY <1>2 DEF Remove
<1>4. next' = next /\ prev' = prev
  BY <1>1, <1>2 DEF Remove, TypeOK
<1>5. QED BY <1>3, <1>4

(* Appending puts the next packet at the end of a well-formed list.        *)
LEMMA AppendToList ==
  ASSUME ListInv, Append
  PROVE  /\ Linked' = Linked \cup {n + 1}
         /\ TypeOK' /\ ListWellFormed' /\ InRange' /\ WalkIsNext'
<1>1. n + 1 \in Pkt /\ n' = n + 1 /\ last' = n + 1 /\ n \in Int
  BY ListAssumption DEF ListInv, TypeOK, Append, Pkt
<1>2. /\ \A j \in Linked : j \in Pkt /\ j \in Int /\ j <= n
      /\ n + 1 \notin Linked
      /\ next[n + 1] = NULL /\ prev[n + 1] = NULL
  BY <1>1 DEF ListInv, InRange, Linked, Pkt, ListWellFormed, OffListIsClear
<1>3. CASE first = NULL
  <2>1. Linked = {} /\ next' = next /\ prev' = prev /\ first' = n + 1
    BY <1>3 DEF ListInv, ListWellFormed, EndsMatch, Append
  <2>2. \A j \in Pkt : next[j] = NULL /\ prev[j] = NULL
    BY <2>1 DEF ListInv, ListWellFormed, OffListIsClear
  <2>3. Linked' = {n + 1}
    BY <1>1, <2>1, <2>2 DEF Linked
  <2>4. TypeOK'
    BY <1>1, <2>1 DEF ListInv, TypeOK, Append, Pkt
  <2>5. ListWellFormed'
    BY <1>1, <2>1, <2>2, <2>3
    DEF ListWellFormed, NextIsSuccessor, PrevIsPredecessor, EndsMatch,
        OffListIsClear, NULL, Pkt
  <2>6. InRange' /\ WalkIsNext'
    BY <1>1, <2>3 DEF InRange, WalkIsNext, Append
  <2>7. QED BY <2>1, <2>3, <2>4, <2>5, <2>6
<1>4. CASE first # NULL
  <2>1. /\ last \in Linked /\ \A j \in Linked : j <= last
        /\ first' = first /\ first \in Linked
        /\ next' = [next EXCEPT ![last] = n + 1]
        /\ prev' = [prev EXCEPT ![n + 1] = last]
    BY <1>4 DEF ListInv, ListWellFormed, EndsMatch, Append
  <2>2. /\ \A j \in Pkt : next'[j] = IF j = last THEN n + 1 ELSE next[j]
        /\ \A j \in Pkt : prev'[j] = IF j = n + 1 THEN last ELSE prev[j]
    BY <1>1, <1>2, <2>1 DEF ListInv, TypeOK
  <2>3. last # NULL /\ last \in Pkt
    BY <1>2, <2>1 DEF NULL, Pkt
  <2>4. Linked' = Linked \cup {n + 1}
    BY <1>1, <2>1, <2>2, <2>3 DEF Linked
  <2>5. TypeOK'
    <3>1. next' \in [Pkt -> Pkt \cup {NULL}] /\ prev' \in [Pkt -> Pkt \cup {NULL}]
      BY <1>1, <2>1, <2>3 DEF ListInv, TypeOK
    <3>2. QED BY <1>1, <2>1, <3>1 DEF ListInv, TypeOK, Append, Pkt
  <2>6. NextIsSuccessor'
    <3>1. SUFFICES ASSUME NEW j \in Linked \cup {n + 1}
                   PROVE  \/ /\ next'[j] = NULL
                             /\ \A k \in Linked \cup {n + 1} : k <= j
                          \/ /\ next'[j] \in Linked \cup {n + 1} /\ j < next'[j]
                             /\ \A k \in Linked \cup {n + 1} : j < k => next'[j] <= k
      BY <2>4 DEF NextIsSuccessor
    <3>2. CASE j = n + 1
      <4>1. next'[j] = NULL BY <1>1, <1>2, <2>1, <2>2, <3>2
      <4>2. QED BY <1>1, <1>2, <3>2, <4>1
    <3>3. CASE j = last
      <4>1. next'[j] = n + 1 BY <2>2, <2>3, <3>3
      <4>2. \A k \in Linked : ~(j < k) BY <1>2, <2>1, <3>3
      <4>3. QED BY <1>1, <1>2, <2>1, <3>3, <4>1, <4>2
    <3>4. CASE j # n + 1 /\ j # last
      <4>1. j \in Linked /\ next'[j] = next[j] /\ j < last
        BY <1>2, <2>1, <2>2, <3>1, <3>4
      <4>2. /\ next[j] \in Linked
            /\ j < next[j] /\ \A k \in Linked : j < k => next[j] <= k
        <5>1. ~ \A k \in Linked : k <= j BY <1>2, <2>1, <4>1
        <5>2. QED BY <4>1, <5>1 DEF ListInv, ListWellFormed, NextIsSuccessor
      <4>3. next[j] <= n + 1 BY <1>1, <1>2, <4>2
      <4>4. QED BY <4>1, <4>2, <4>3
    <3>5. QED BY <3>2, <3>3, <3>4
  <2>7. PrevIsPredecessor'
    BY <1>1, <1>2, <2>1, <2>2, <2>3, <2>4
    DEF ListInv, ListWellFormed, PrevIsPredecessor, NULL, Pkt
  <2>8. EndsMatch' /\ OffListIsClear'
    BY <1>1, <1>2, <2>1, <2>2, <2>3, <2>4
    DEF ListInv, ListWellFormed, EndsMatch, OffListIsClear, NULL, Pkt
  <2>9. InRange' /\ WalkIsNext'
    BY <1>1, <1>2, <2>4 DEF InRange, WalkIsNext, Append
  <2>10. QED BY <2>4, <2>5, <2>6, <2>7, <2>8, <2>9 DEF ListWellFormed
<1>5. QED BY <1>3, <1>4

(* A step that changes nothing.                                            *)
LEMMA ListStutters ==
  ASSUME ListInv, UNCHANGED vars
  PROVE  ListInv' /\ UNCHANGED <<n, Linked>>
BY DEF ListInv, vars, TypeOK, ListWellFormed, NextIsSuccessor, PrevIsPredecessor,
       EndsMatch, OffListIsClear, InRange, WalkIsNext, Linked

(* Each step keeps the invariant and is a step of PacketSet or a stutter.  *)
LEMMA ListStep ==
  ASSUME ListInv, [Next]_vars
  PROVE  ListInv' /\ [Abstract!SetNext]_<<n, Linked>>
<1>1. CASE Append
  BY <1>1, AppendToList DEF ListInv, Abstract!SetNext, Abstract!SetAppend, Append
<1>2. CASE \E i \in Pkt : Unlink(i)
  <2>1. PICK i \in Pkt : Unlink(i) BY <1>2
  <2>2. CASE i \in Linked
    <3>1. Linked' = Linked \ {i} /\ TypeOK' /\ ListWellFormed'
      BY <2>1, <2>2, RemoveFromList DEF ListInv, TypeOK, Unlink
    <3>2. QED
      BY <2>1, <2>2, <3>1
      DEF ListInv, InRange, WalkIsNext, Unlink, Abstract!SetNext, Abstract!SetUnlink
  <2>3. CASE i \notin Linked
    <3>1. UNCHANGED vars
      BY <2>1, <2>3, RemoveOffList DEF ListInv, Unlink, vars
    <3>2. QED BY <3>1, ListStutters
  <2>4. QED BY <2>2, <2>3
<1>3. CASE \E i \in Pkt : StartAfter(i)
  <2>1. PICK i \in Pkt : StartAfter(i) BY <1>3
  <2>2. /\ i \in Linked /\ next[i] \in Linked /\ i < next[i]
        /\ \A j \in Linked : i < j => next[i] <= j
    BY <2>1 DEF ListInv, ListWellFormed, NextIsSuccessor, StartAfter
  <2>3. CASE Remove(i)
    <3>1. Linked' = Linked \ {i} /\ TypeOK' /\ ListWellFormed'
      BY <2>1, <2>2, <2>3, RemoveFromList DEF ListInv, TypeOK, StartAfter
    <3>2. next[i] # i BY <2>2 DEF Linked, Pkt
    <3>3. WalkIsNext'
      BY <2>1, <2>2, <3>1, <3>2 DEF WalkIsNext, StartAfter
    <3>4. QED
      BY <2>1, <2>2, <3>1, <3>3
      DEF ListInv, InRange, StartAfter, Abstract!SetNext, Abstract!SetUnlink
  <2>4. CASE UNCHANGED <<first, last, next, prev>>
    <3>1. Linked' = Linked BY <2>4 DEF Linked
    <3>2. ListWellFormed'
      BY <2>4, <3>1
      DEF ListInv, ListWellFormed, NextIsSuccessor, PrevIsPredecessor, EndsMatch,
          OffListIsClear
    <3>3. TypeOK' /\ InRange'
      BY <2>1, <2>2, <2>4, <3>1 DEF ListInv, TypeOK, InRange, StartAfter, Linked
    <3>4. WalkIsNext'
      BY <2>1, <2>2, <3>1 DEF WalkIsNext, StartAfter
    <3>5. QED BY <2>1, <3>1, <3>2, <3>3, <3>4 DEF ListInv, StartAfter
  <2>5. QED BY <2>1, <2>3, <2>4 DEF StartAfter
<1>4. CASE StartCleanup
  <2>1. Linked' = Linked BY <1>4 DEF StartCleanup, Linked
  <2>2. ListWellFormed'
    BY <1>4, <2>1
    DEF ListInv, ListWellFormed, NextIsSuccessor, PrevIsPredecessor, EndsMatch,
        OffListIsClear, StartCleanup
  <2>3. TypeOK' /\ InRange'
    BY <1>4, <2>1 DEF ListInv, TypeOK, InRange, StartCleanup
  <2>4. WalkIsNext'
    BY <1>4, <2>1
    DEF ListInv, ListWellFormed, EndsMatch, WalkIsNext, StartCleanup, Linked, NULL, Pkt
  <2>5. QED BY <1>4, <2>1, <2>2, <2>3, <2>4 DEF ListInv, StartCleanup
<1>5. CASE Walk
  <2>1. walk \in Linked
    BY <1>5 DEF ListInv, WalkIsNext, Walk
  <2>2. Linked' = Linked \ {walk} /\ ListWellFormed' /\ TypeOK'
    BY <1>5, <2>1, RemoveFromList DEF ListInv, TypeOK, Walk
  <2>3. WalkIsNext'
    BY SMTT(30), <1>5, <2>1, <2>2
    DEF ListInv, TypeOK, ListWellFormed, NextIsSuccessor, WalkIsNext, Walk, Linked, NULL, Pkt
  <2>4. QED
    BY <1>5, <2>1, <2>2, <2>3
    DEF ListInv, InRange, Walk, Abstract!SetNext, Abstract!SetUnlink
<1>6. CASE KeepLast
  <2>1. Linked' = Linked BY <1>6 DEF KeepLast, Linked
  <2>2. ListWellFormed'
    BY <1>6, <2>1
    DEF ListInv, ListWellFormed, NextIsSuccessor, PrevIsPredecessor, EndsMatch,
        OffListIsClear, KeepLast
  <2>3. TypeOK' /\ InRange' /\ WalkIsNext'
    BY <1>6, <2>1 DEF ListInv, TypeOK, InRange, WalkIsNext, KeepLast
  <2>4. QED BY <1>6, <2>1, <2>2, <2>3 DEF ListInv, KeepLast
<1>7. CASE UNCHANGED vars
  BY <1>7, ListStutters
<1>8. QED BY <1>1, <1>2, <1>3, <1>4, <1>5, <1>6, <1>7 DEF Next

LEMMA ListInit == ASSUME Init PROVE ListInv /\ Abstract!SetInit
<1>1. Linked = {} BY DEF Init, Linked, NULL, Pkt
<1>2. QED
  BY <1>1, ListAssumption
  DEF Init, ListInv, TypeOK, ListWellFormed, NextIsSuccessor, PrevIsPredecessor,
      EndsMatch, OffListIsClear, InRange, WalkIsNext, Abstract!SetInit

(* The pointers of a stream's list are right after every append, unlink    *)
(* and round of an unlinking loop.                                         *)
THEOREM ListCorrect == Spec => []ListWellFormed
<1>1. ListInv /\ [Next]_vars => ListInv' BY ListStep
<1>2. Init => ListInv BY ListInit
<1>3. ListInv => ListWellFormed BY DEF ListInv
<1>4. QED BY <1>1, <1>2, <1>3, PTL DEF Spec

(* cleanup and handle_packet_complete never stand on an unlinked packet    *)
(* and pass none over.                                                     *)
THEOREM WalkCorrect == Spec => []WalkIsNext
<1>1. ListInv /\ [Next]_vars => ListInv' BY ListStep
<1>2. Init => ListInv BY ListInit
<1>3. ListInv => WalkIsNext BY DEF ListInv
<1>4. QED BY <1>1, <1>2, <1>3, PTL DEF Spec

(* The pointer list implements the ordered set of packets.                 *)
THEOREM ListRefinement == Spec => ImplementsPacketSet
<1>1. ListInv /\ [Next]_vars => ListInv' /\ [Abstract!SetNext]_<<n, Linked>>
  BY ListStep
<1>2. Init => ListInv /\ Abstract!SetInit BY ListInit
<1>3. QED BY <1>1, <1>2, PTL DEF Spec, ImplementsPacketSet, Abstract!SetSpec
(* An unlinking loop has unlinked all it was to when it ends: its packet   *)
(* then is the last of the list, and no packet before it was passed over.  *)
LEMMA WalkStep ==
  ASSUME ListInv, [Next]_vars, walk # NULL, walk' = NULL, NEW i \in Linked'
  PROVE  i <= from \/ (from # NULL /\ i = last)
<1>1. /\ walk \in Linked /\ from < walk /\ \A j \in Linked : from < j => walk <= j
      /\ walk \in Int /\ from \in Int /\ \A j \in Linked : j \in Int
  BY DEF ListInv, TypeOK, WalkIsNext, Linked, Pkt, NULL
<1>2. CASE Walk
  <2>1. Linked' = Linked \ {walk}
    BY <1>1, <1>2, RemoveFromList DEF ListInv, Walk
  <2>2. \A j \in Linked : j <= walk
    BY <1>1, <1>2 DEF ListInv, ListWellFormed, NextIsSuccessor, Walk, Linked, Pkt, NULL
  <2>3. i \in Linked /\ i # walk
    BY <2>1
  <2>4. QED BY <1>1, <2>2, <2>3
<1>3. CASE KeepLast
  <2>1. i \in Linked /\ walk = last /\ from # NULL
    BY <1>3 DEF KeepLast, Linked
  <2>2. i <= last
    BY <2>1 DEF ListInv, ListWellFormed, EndsMatch
  <2>3. QED BY <1>1, <2>1, <2>2
<1>4. Walk \/ KeepLast
  BY DEF Next, vars, Append, Unlink, StartAfter, StartCleanup
<1>5. QED BY <1>2, <1>3, <1>4

(* Nothing is left of what an unlinking loop was to unlink when it ends,   *)
(* except the EOF that run mode keeps (cleanup, handle_packet_complete).   *)
THEOREM LoopsClear == Spec => WalkClears
<1>1. ListInv /\ [Next]_vars =>
        [walk # NULL /\ walk' = NULL =>
           \A i \in Linked' : i <= from \/ (from # NULL /\ i = last)]_vars
  BY WalkStep
<1>2. ListInv /\ [Next]_vars => ListInv' BY ListStep
<1>3. Init => ListInv BY ListInit
<1>4. QED BY <1>1, <1>2, <1>3, PTL DEF Spec, WalkClears
=============================================================================
