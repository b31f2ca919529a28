----------------------------- MODULE PacketList -----------------------------
(***************************************************************************)
(* The doubly linked packet list of a Mysql_stream, pointer by pointer:    *)
(* first and last of the stream, next and prev of each packet.  The loops  *)
(* that unlink while they walk (cleanup, and the end of a query in         *)
(* handle_packet_complete) are one step per packet; they hold lock, so     *)
(* nothing else touches the list meanwhile.                                *)
(***************************************************************************)
EXTENDS Integers

CONSTANT MaxPkts  \* bound: packets appended

ASSUME ListAssumption == MaxPkts \in Nat

Pkt  == 1 .. MaxPkts
NULL == 0

VARIABLES
  n,       \* packets appended so far
  first,   \* Mysql_stream::first
  last,    \* Mysql_stream::last
  next,    \* Mysql_packet::next of each packet
  prev,    \* Mysql_packet::prev of each packet
  walk,    \* the loop variable of an unlinking loop, NULL outside
  from     \* history: the loop unlinks what comes after this packet

vars == <<n, first, last, next, prev, walk, from>>

Init ==
  /\ n = 0 /\ first = NULL /\ last = NULL
  /\ next = [i \in Pkt |-> NULL] /\ prev = [i \in Pkt |-> NULL]
  /\ walk = NULL /\ from = NULL

(* The packets on the list: those with a neighbour in front, and the first.*)
Linked == {i \in Pkt : i = first \/ prev[i] # NULL}

-----------------------------------------------------------------------------
(* append_packet and create_new_packet put packet n + 1 at the end.        *)
AppendOneWay ==
  /\ walk = NULL /\ n < MaxPkts
  /\ n' = n + 1 /\ last' = n + 1
  /\ first' = IF first = NULL THEN n + 1 ELSE first
  /\ next' = IF first = NULL THEN next ELSE [next EXCEPT ![last] = n + 1]
  /\ UNCHANGED <<prev, walk, from>>

Append ==
  /\ walk = NULL /\ n < MaxPkts
  /\ n' = n + 1 /\ last' = n + 1
  /\ IF first = NULL
     THEN first' = n + 1 /\ UNCHANGED <<next, prev>>
     ELSE /\ next' = [next EXCEPT ![last] = n + 1]
          /\ prev' = [prev EXCEPT ![n + 1] = last]
          /\ UNCHANGED first
  /\ UNCHANGED <<walk, from>>

(* unlink_pkt: the neighbours are joined, first and last move on, and the  *)
(* packet's own pointers are cleared.                                      *)
RemoveKeepsFirst(i) ==
  /\ next' = [j \in Pkt |-> IF j = i THEN NULL
                            ELSE IF j = prev[i] THEN next[i] ELSE next[j]]
  /\ prev' = [j \in Pkt |-> IF j = i THEN NULL
                            ELSE IF j = next[i] THEN prev[i] ELSE prev[j]]
  /\ first' = first
  /\ last' = IF i = last THEN prev[i] ELSE last

Remove(i) ==
  /\ next' = [j \in Pkt |-> IF j = i THEN NULL
                            ELSE IF j = prev[i] THEN next[i] ELSE next[j]]
  /\ prev' = [j \in Pkt |-> IF j = i THEN NULL
                            ELSE IF j = next[i] THEN prev[i] ELSE prev[j]]
  /\ first' = IF i = first THEN next[i] ELSE first
  /\ last' = IF i = last THEN prev[i] ELSE last

(* A single unlinking, of any packet.  Analysis mode also unlinks packets  *)
(* that left the list before (an evicted query): nothing points to them,   *)
(* and they point to nothing.                                              *)
Unlink(i) ==
  /\ walk = NULL /\ i <= n
  /\ Remove(i)
  /\ UNCHANGED <<n, walk, from>>

(* cleanup walks from first.  handle_packet_complete walks from            *)
(* last_query->next, which it reads before last_query itself is unlinked   *)
(* (analysis mode) or kept (run mode, consider_unlink_pkt).                *)
StartCleanup ==
  /\ walk = NULL /\ first # NULL
  /\ walk' = first /\ from' = NULL
  /\ UNCHANGED <<n, first, last, next, prev>>

StartAt(q) ==
  /\ walk = NULL /\ q \in Linked /\ next[q] # NULL
  /\ walk' = q /\ from' = q
  /\ Remove(q) \/ UNCHANGED <<first, last, next, prev>>
  /\ UNCHANGED n

StartAfter(q) ==
  /\ walk = NULL /\ q \in Linked /\ next[q] # NULL
  /\ walk' = next[q] /\ from' = q
  /\ Remove(q) \/ UNCHANGED <<first, last, next, prev>>
  /\ UNCHANGED n

(* One round: next is read before the packet is unlinked.                  *)
WalkReadsLate ==
  /\ walk # NULL
  /\ Remove(walk)
  /\ walk' = next'[walk]
  /\ UNCHANGED <<n, from>>

Walk ==
  /\ walk # NULL
  /\ walk' = next[walk]
  /\ Remove(walk)
  /\ UNCHANGED <<n, from>>

(* The last round of handle_packet_complete leaves the EOF in run mode.    *)
KeepLast ==
  /\ walk # NULL /\ walk = last /\ from # NULL
  /\ walk' = NULL
  /\ UNCHANGED <<n, first, last, next, prev, from>>

Next == \/ Append
        \/ \E i \in Pkt : Unlink(i) \/ StartAfter(i)
        \/ StartCleanup \/ Walk \/ KeepLast

Spec == Init /\ [][Next]_vars

-----------------------------------------------------------------------------
TypeOK ==
  /\ n \in 0 .. MaxPkts
  /\ first \in Pkt \cup {NULL} /\ last \in Pkt \cup {NULL}
  /\ next \in [Pkt -> Pkt \cup {NULL}] /\ prev \in [Pkt -> Pkt \cup {NULL}]
  /\ walk \in Pkt \cup {NULL} /\ from \in Pkt \cup {NULL}

(* The pointers are those of the linked packets in append order: next is   *)
(* the smallest larger one, prev the largest smaller one, first and last   *)
(* are the two ends, and a packet off the list points nowhere.             *)
NextIsSuccessor ==
  \A i \in Linked :
     \/ next[i] = NULL /\ \A j \in Linked : j <= i
     \/ /\ next[i] \in Linked /\ i < next[i]
        /\ \A j \in Linked : i < j => next[i] <= j

PrevIsPredecessor ==
  \A i \in Linked :
     \/ prev[i] = NULL /\ \A j \in Linked : i <= j
     \/ /\ prev[i] \in Linked /\ prev[i] < i
        /\ \A j \in Linked : j < i => j <= prev[i]

EndsMatch ==
  /\ first = NULL <=> Linked = {}
  /\ last = NULL <=> Linked = {}
  /\ Linked # {} => /\ first \in Linked /\ \A j \in Linked : first <= j
                    /\ last \in Linked /\ \A j \in Linked : j <= last

OffListIsClear == \A i \in Pkt \ Linked : next[i] = NULL /\ prev[i] = NULL

ListWellFormed ==
  NextIsSuccessor /\ PrevIsPredecessor /\ EndsMatch /\ OffListIsClear

(* An unlinking loop is always at the first packet it has not unlinked, so *)
(* none is passed over and none visited after it was unlinked.             *)
WalkIsNext ==
  walk # NULL => /\ walk \in Linked /\ from < walk
                 /\ \A j \in Linked : from < j => walk <= j

(* When the loop ends, nothing is left of what it was to unlink, except    *)
(* the EOF that run mode keeps.                                            *)
WalkClears ==
  [][walk # NULL /\ walk' = NULL =>
        \A i \in Linked' : i <= from \/ (from # NULL /\ i = last)]_vars

(* The list implements the ordered set of linked packets.                  *)
Abstract == INSTANCE PacketSet WITH linked <- Linked

ImplementsPacketSet == Abstract!SetSpec
=============================================================================
