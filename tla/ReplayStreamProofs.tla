------------------------- MODULE ReplayStreamProofs -------------------------
(***************************************************************************)
(* Proofs about ReplayStream for every number of packets, every length of  *)
(* the slow-query list and every outcome of the server, for the kinds of   *)
(* packet with which the two threads do not get in each other's way.       *)
(***************************************************************************)
EXTENDS ReplayStream, TLAPS

(* A server packet that is no EOF, or an EOF after continuation packets,   *)
(* makes the main thread unlink packets the replay thread may be at: then  *)
(* the theorems below do not hold (run replay_direct shows how).           *)
SafeKinds == /\ "Reply" \notin Kinds
             /\ "Eof" \in Kinds => "Cont" \notin Kinds /\ "BigCont" \notin Kinds

-----------------------------------------------------------------------------
(* The inductive invariant.                                                *)

Appending == mpc \in {"append", "notify", "complete"}

(* The last packet on the list, and the last one that is completed.        *)
Latest == IF mpc = "append" THEN n - 1 ELSE n
LastDone == IF Appending THEN n - 1 ELSE n

IPkts ==
  /\ n \in 0 .. MaxPkts
  /\ kind \in [Pkt -> Kinds \cup {"none"}]
  /\ linked \subseteq Pkt /\ freed \subseteq Pkt
  /\ ref \in [Pkt -> Nat]
  /\ last_query \in Pkt \cup {NULL}
  /\ slow_queries \subseteq Pkt /\ evicted \subseteq Pkt
  /\ born \in 1 .. MaxPkts + 1

IModes ==
  /\ lock \in {"free", "main"} /\ eof_lock \in {"free", "replay"}
  /\ reached_eof \in BOOLEAN /\ closing \in BOOLEAN
  /\ mpc \in {"read", "append", "notify", "complete", "end", "flag", "join",
              "print", "destroy", "unmap", "exit"}
  /\ rpc \in {"none", "start", "query", "exec", "scan", "wait", "check",
              "park", "sleep", "awake", "relink", "relock", "done"}
  /\ site \in {"loop", "gather"}
  /\ con \in {"null", "unconnected", "connected"}
  /\ failed \in BOOLEAN /\ aborted \in BOOLEAN

ILocals ==
  /\ p \in Pkt \cup {NULL} /\ tmp \in Pkt \cup {NULL} /\ cur \in Pkt \cup {NULL}
  /\ tried \in [Pkt -> Nat]

IRefs ==
  /\ RefCountAccounts
  /\ slow_queries \cap evicted = {}
  /\ \A i \in slow_queries \cup evicted : i <= LastDone
  /\ last_query # NULL => /\ last_query \notin slow_queries \cup evicted
                          /\ last_query <= LastDone

IRange ==
  /\ \A i \in linked \cup freed : i <= Latest
  /\ \A i \in 1 .. n : kind[i] \in Kinds

IFreed ==
  mpc \notin {"unmap", "exit"} =>
     freed \cap (linked \cup slow_queries \cup evicted) = {}

IControl ==
  /\ lock = "main" <=> mpc \in {"notify", "complete", "flag"}
  /\ mpc \in {"append", "notify", "complete", "end", "flag", "join"} => rpc # "none"
  /\ mpc \in {"destroy", "unmap"} => rpc \in {"none", "done"}
  /\ mpc = "exit" => rpc = "none"
  /\ mpc \in {"unmap", "exit"} => slow_queries = {}
  /\ mpc \in {"notify", "complete"} => n \in linked
  /\ rpc = "none" => linked = {}
  /\ rpc # "none" => born <= n /\ \A i \in linked : born <= i

Active == rpc \notin {"none", "start", "done"}

(* What lies ahead of the replay thread is never unlinked.                 *)
IPointers ==
  /\ rpc = "start" => born .. Latest \subseteq linked
  /\ Active => p \in linked /\ p .. Latest \subseteq linked
  /\ rpc = "relink" => tmp \in linked /\ tmp < p
  /\ rpc \in Waiting \cup {"exec"} => cur \in p .. Latest
  /\ rpc \in Waiting /\ site = "loop" => cur = p

(* While a query waits for its EOF it is the last packet on the list.      *)
ILastQuery ==
  "Eof" \in Kinds /\ last_query # NULL /\ rpc # "none"
    => last_query = LastDone /\ last_query \in linked

IAlive ==
  \A i \in 1 .. Latest : i \in freed \cup linked \cup slow_queries \cup evicted

IInv == /\ IPkts /\ IModes /\ ILocals /\ IRefs /\ IRange /\ IFreed
        /\ IControl /\ IPointers /\ ILastQuery /\ IAlive

-----------------------------------------------------------------------------
(* Facts several actions share.                                            *)

(* A step that leaves the packets alone keeps what is said of them.        *)
LEMMA PacketsFrame ==
  ASSUME IInv, UNCHANGED packets, UNCHANGED born,
         Latest' = Latest, LastDone' = LastDone,
         mpc \in {"unmap", "exit"} => mpc' \in {"unmap", "exit"}
  PROVE  IPkts' /\ IRefs' /\ IRange' /\ IFreed' /\ IAlive'
<1>1. IPkts' BY DEF IInv, IPkts, packets, NULL, Pkt
<1>2. IRefs' BY DEF IInv, IRefs, RefCountAccounts, Counted, packets, NULL, Pkt
<1>3. IRange' BY DEF IInv, IRange, packets
<1>4. IFreed' BY DEF IInv, IFreed, packets
<1>5. IAlive' BY DEF IInv, IAlive, packets
<1>6. QED BY <1>1, <1>2, <1>3, <1>4, <1>5

(* unlink_pkt gives back exactly the reference the list had.               *)
LEMMA UnlinkKeepsCount ==
  ASSUME IPkts, RefCountAccounts, NEW S \in SUBSET linked, UnlinkPkts(S),
         UNCHANGED <<slow_queries, evicted>>
  PROVE  /\ linked' \subseteq linked /\ linked' \subseteq Pkt
         /\ ref' \in [Pkt -> Nat] /\ RefCountAccounts'
         /\ freed \subseteq freed' /\ freed' \subseteq freed \cup linked
         /\ \A i \in linked : i \in linked' \cup freed' \cup slow_queries \cup evicted
         /\ \A i \in freed' : i \in freed \/ i \notin linked' \cup slow_queries \cup evicted
<1>1. \A i \in S : i \in Pkt /\ ref[i] \in Nat /\ ref[i] >= 1
  BY DEF IPkts, RefCountAccounts, Counted
<1>2. ref' \in [Pkt -> Nat]
  BY <1>1 DEF UnlinkPkts, IPkts
<1>3. RefCountAccounts'
  <2>1. \A i \in Pkt : ref'[i] = IF i \in S THEN ref[i] - 1 ELSE ref[i]
    BY DEF UnlinkPkts
  <2>2. linked' = linked \ S BY DEF UnlinkPkts
  <2>3. QED BY <1>1, <2>1, <2>2 DEF RefCountAccounts, Counted, IPkts
<1>4. \A i \in S : ref[i] = 1 <=> i \notin slow_queries \cup evicted
  BY <1>1 DEF RefCountAccounts, Counted
<1>5. QED BY <1>1, <1>2, <1>3, <1>4 DEF UnlinkPkts, IPkts

LEMMA ReadEndKeeps ==
  ASSUME SafeKinds, IInv, ReadEnd
  PROVE  IInv'
<1>1. IPkts' /\ IRefs' /\ IRange' /\ IFreed' /\ IAlive'
  BY PacketsFrame DEF ReadEnd, packets, locks, replayer, results, Latest,
       LastDone, Appending
<1>2. IModes' /\ ILocals'
  BY DEF IInv, ReadEnd, packets, locks, replayer, results, IModes, ILocals, Pkt,
       NULL
<1>3. IControl'
  BY DEF IInv, ReadEnd, packets, locks, replayer, results, IModes, IControl
<1>4. IPointers'
  BY DEF IInv, ReadEnd, packets, locks, replayer, results, IPkts, IModes,
       IControl, IPointers, Pkt, NULL, Latest, Active, Waiting
<1>5. ILastQuery'
  BY DEF IInv, ReadEnd, packets, locks, replayer, results, IControl, ILastQuery,
       IPkts, NULL, LastDone, Pkt, Appending
<1>6. QED BY <1>1, <1>2, <1>3, <1>4, <1>5 DEF IInv

LEMMA ReadEofKeeps ==
  ASSUME SafeKinds, IInv, ReadEof
  PROVE  IInv'
<1>1. IPkts' /\ IRefs' /\ IRange' /\ IFreed' /\ IAlive'
  BY PacketsFrame DEF ReadEof, packets, locks, replayer, results, Latest,
       LastDone, Appending
<1>2. IModes' /\ ILocals'
  BY DEF IInv, ReadEof, packets, locks, replayer, results, IModes, ILocals, Pkt,
       NULL
<1>3. IControl'
  BY DEF IInv, ReadEof, packets, locks, replayer, results, IModes, IControl
<1>4. IPointers'
  BY DEF IInv, ReadEof, packets, locks, replayer, results, IPkts, IModes,
       IControl, IPointers, Pkt, NULL, Latest, Active, Waiting
<1>5. ILastQuery'
  BY DEF IInv, ReadEof, packets, locks, replayer, results, IControl, ILastQuery,
       IPkts, NULL, LastDone, Pkt, Appending
<1>6. QED BY <1>1, <1>2, <1>3, <1>4, <1>5 DEF IInv

LEMMA NotifyKeeps ==
  ASSUME SafeKinds, IInv, Notify
  PROVE  IInv'
<1>1. IPkts' /\ IRefs' /\ IRange' /\ IFreed' /\ IAlive'
  BY PacketsFrame DEF Notify, Notified, packets, locks, replayer, results,
       Latest, LastDone, Appending
<1>2. IModes' /\ ILocals'
  BY DEF IInv, Notify, Notified, packets, locks, replayer, results, IModes,
       ILocals, Pkt, NULL
<1>3. IControl'
  BY DEF IInv, Notify, Notified, packets, locks, replayer, results, IModes,
       IControl
<1>4. IPointers'
  BY DEF IInv, Notify, Notified, packets, locks, replayer, results, IPkts,
       IModes, IControl, IPointers, Pkt, NULL, Latest, Active, Waiting
<1>5. ILastQuery'
  BY DEF IInv, Notify, Notified, packets, locks, replayer, results, IControl,
       ILastQuery, IPkts, NULL, LastDone, Pkt, Appending
<1>6. QED BY <1>1, <1>2, <1>3, <1>4, <1>5 DEF IInv

LEMMA EndLockKeeps ==
  ASSUME SafeKinds, IInv, EndLock
  PROVE  IInv'
<1>1. IPkts' /\ IRefs' /\ IRange' /\ IFreed' /\ IAlive'
  BY PacketsFrame DEF EndLock, packets, replayer, results, Latest, LastDone,
       Appending
<1>2. IModes' /\ ILocals'
  BY DEF IInv, EndLock, packets, replayer, results, IModes, ILocals, Pkt, NULL
<1>3. IControl'
  BY DEF IInv, EndLock, packets, replayer, results, IModes, IControl
<1>4. IPointers'
  BY DEF IInv, EndLock, packets, replayer, results, IPkts, IModes, IControl,
       IPointers, Pkt, NULL, Latest, Active, Waiting
<1>5. ILastQuery'
  BY DEF IInv, EndLock, packets, replayer, results, IControl, ILastQuery, IPkts,
       NULL, LastDone, Pkt, Appending
<1>6. QED BY <1>1, <1>2, <1>3, <1>4, <1>5 DEF IInv

LEMMA EndFlagKeeps ==
  ASSUME SafeKinds, IInv, EndFlag
  PROVE  IInv'
<1>1. IPkts' /\ IRefs' /\ IRange' /\ IFreed' /\ IAlive'
  BY PacketsFrame DEF EndFlag, Notified, packets, replayer, results, Latest,
       LastDone, Appending
<1>2. IModes' /\ ILocals'
  BY DEF IInv, EndFlag, Notified, packets, replayer, results, IModes, ILocals,
       Pkt, NULL
<1>3. IControl'
  BY DEF IInv, EndFlag, Notified, packets, replayer, results, IModes, IControl
<1>4. IPointers'
  BY DEF IInv, EndFlag, Notified, packets, replayer, results, IPkts, IModes,
       IControl, IPointers, Pkt, NULL, Latest, Active, Waiting
<1>5. ILastQuery'
  BY DEF IInv, EndFlag, Notified, packets, replayer, results, IControl,
       ILastQuery, IPkts, NULL, LastDone, Pkt, Appending
<1>6. QED BY <1>1, <1>2, <1>3, <1>4, <1>5 DEF IInv

LEMMA JoinAtFinishKeeps ==
  ASSUME SafeKinds, IInv, JoinAtFinish
  PROVE  IInv'
<1>1. IPkts' /\ IRefs' /\ IRange' /\ IFreed' /\ IAlive'
  BY PacketsFrame DEF JoinAtFinish, packets, locks, replayer, results, Latest,
       LastDone, Appending
<1>2. IModes' /\ ILocals'
  BY DEF IInv, JoinAtFinish, packets, locks, replayer, results, IModes, ILocals,
       Pkt, NULL
<1>3. IControl'
  BY DEF IInv, JoinAtFinish, packets, locks, replayer, results, IModes, IControl
<1>4. IPointers'
  BY DEF IInv, JoinAtFinish, packets, locks, replayer, results, IPkts, IModes,
       IControl, IPointers, Pkt, NULL, Latest, Active, Waiting
<1>5. ILastQuery'
  BY DEF IInv, JoinAtFinish, packets, locks, replayer, results, IControl,
       ILastQuery, IPkts, NULL, LastDone, Pkt, Appending
<1>6. QED BY <1>1, <1>2, <1>3, <1>4, <1>5 DEF IInv

LEMMA PrintSlowQueriesKeeps ==
  ASSUME SafeKinds, IInv, PrintSlowQueries
  PROVE  IInv'
<1>1. IPkts' /\ IRefs' /\ IRange' /\ IFreed' /\ IAlive'
  BY PacketsFrame DEF PrintSlowQueries, packets, locks, replayer, results,
       Latest, LastDone, Appending
<1>2. IModes' /\ ILocals'
  BY DEF IInv, PrintSlowQueries, packets, locks, replayer, results, IModes,
       ILocals, Pkt, NULL
<1>3. IControl'
  BY DEF IInv, PrintSlowQueries, packets, locks, replayer, results, IModes,
       IControl
<1>4. IPointers'
  BY DEF IInv, PrintSlowQueries, packets, locks, replayer, results, IPkts,
       IModes, IControl, IPointers, Pkt, NULL, Latest, Active, Waiting
<1>5. ILastQuery'
  BY DEF IInv, PrintSlowQueries, packets, locks, replayer, results, IControl,
       ILastQuery, IPkts, NULL, LastDone, Pkt, Appending
<1>6. QED BY <1>1, <1>2, <1>3, <1>4, <1>5 DEF IInv

LEMMA StartKeeps ==
  ASSUME SafeKinds, IInv, Start
  PROVE  IInv'
<1>1. IPkts' /\ IRefs' /\ IRange' /\ IFreed' /\ IAlive'
  BY PacketsFrame DEF Start, IsFirst, packets, locks, results, Latest, LastDone,
       Appending
<1>2. IModes' /\ ILocals'
  <2>1. IModes' BY DEF IInv, Start, IModes, packets, locks, replayer, results
  <2>2. linked = {} \/ \E i \in linked : p' = i
    BY DEF Start
  <2>3. p' \in Pkt \cup {NULL} BY <2>2 DEF IInv, Start, IPkts, ILocals
  <2>4. QED BY <2>1, <2>3 DEF IInv, Start, ILocals, results
<1>3. IControl'
  BY DEF IInv, Start, IsFirst, packets, locks, results, IModes, IControl
<1>4. IPointers'
  BY DEF IInv, Start, IsFirst, packets, locks, results, IPkts, IModes, IControl,
       IPointers, Pkt, NULL, Latest, Active, Waiting
<1>5. ILastQuery'
  BY DEF IInv, Start, IsFirst, packets, locks, results, IControl, ILastQuery,
       IPkts, NULL, LastDone, Pkt, Appending
<1>6. QED BY <1>1, <1>2, <1>3, <1>4, <1>5 DEF IInv

LEMMA LookKeeps ==
  ASSUME SafeKinds, IInv, Look
  PROVE  IInv'
<1>1. IPkts' /\ IRefs' /\ IRange' /\ IFreed' /\ IAlive'
  BY PacketsFrame DEF Look, QueryKinds, NULL, packets, locks, results, Latest,
       LastDone, Appending
<1>2. IModes' /\ ILocals'
  BY DEF IInv, Look, QueryKinds, NULL, packets, locks, results, IModes, ILocals,
       Pkt
<1>3. IControl'
  BY DEF IInv, Look, QueryKinds, NULL, packets, locks, results, IModes, IControl
<1>4. IPointers'
  <2>1. p \in linked /\ p .. Latest \subseteq linked /\ p <= Latest
    BY DEF IInv, IPointers, IRange, Active, Look
  <2>2. p \in p .. Latest
    BY <2>1 DEF IInv, IPkts, Latest, Pkt
  <2>3. rpc' \in {"wait", "exec"} => cur' = p
    BY DEF Look, QueryKinds
  <2>4. rpc' = "wait" => site' = "gather"
    BY DEF Look
  <2>5. rpc' \in {"wait", "exec", "scan"}
    BY DEF Look
  <2>6. QED
    BY <2>1, <2>2, <2>3, <2>4, <2>5
    DEF Look, IPointers, Latest, Active, Waiting, packets
<1>5. ILastQuery'
  BY DEF IInv, Look, QueryKinds, NULL, packets, locks, results, IControl,
       ILastQuery, IPkts, LastDone, Pkt, Appending
<1>6. QED BY <1>1, <1>2, <1>3, <1>4, <1>5 DEF IInv

LEMMA ConnectFailsKeeps ==
  ASSUME SafeKinds, IInv, ConnectFails
  PROVE  IInv'
<1>1. IPkts' /\ IRefs' /\ IRange' /\ IFreed' /\ IAlive'
  BY PacketsFrame DEF ConnectFails, Count, NULL, packets, locks, Latest,
       LastDone, Appending
<1>2. IModes' /\ ILocals'
  <2>1. IModes' BY DEF IInv, ConnectFails, IModes, locks
  <2>2. tried' \in [Pkt -> Nat]
    <3>1. p \in Pkt
      BY DEF IInv, IPointers, Active, IPkts, ConnectFails
    <3>2. QED
      BY <3>1 DEF IInv, ConnectFails, Count, ILocals
  <2>3. QED BY <2>1, <2>2 DEF IInv, ConnectFails, ILocals, NULL
<1>3. IControl'
  BY DEF IInv, ConnectFails, Count, NULL, packets, locks, IModes, IControl
<1>4. IPointers'
  BY DEF IInv, ConnectFails, Count, NULL, packets, locks, IPkts, IModes,
       IControl, IPointers, Pkt, Latest, Active, Waiting
<1>5. ILastQuery'
  BY DEF IInv, ConnectFails, Count, NULL, packets, locks, IControl, ILastQuery,
       IPkts, LastDone, Pkt, Appending
<1>6. QED BY <1>1, <1>2, <1>3, <1>4, <1>5 DEF IInv

LEMMA RunQueryKeeps ==
  ASSUME SafeKinds, IInv, RunQuery
  PROVE  IInv'
<1>1. IPkts' /\ IRefs' /\ IRange' /\ IFreed' /\ IAlive'
  BY PacketsFrame DEF RunQuery, IsFailure, Dies, Count, NULL, packets, locks,
       Latest, LastDone, Appending
<1>2. IModes' /\ ILocals'
  <2>1. failed' \in BOOLEAN /\ aborted' \in BOOLEAN
    BY Zenon DEF RunQuery, Dies, IsFailure
  <2>2. IModes' BY <2>1 DEF IInv, RunQuery, IModes, locks
  <2>3. tried' \in [Pkt -> Nat]
    <3>1. p \in Pkt
      BY DEF IInv, IPointers, Active, IPkts, RunQuery
    <3>2. QED
      BY <3>1 DEF IInv, RunQuery, Count, ILocals
  <2>4. QED BY <2>2, <2>3 DEF IInv, RunQuery, ILocals, NULL
<1>3. IControl'
  BY DEF IInv, RunQuery, IsFailure, Dies, Count, NULL, packets, locks, IModes,
       IControl
<1>4. IPointers'
  BY DEF IInv, RunQuery, IsFailure, Dies, Count, NULL, packets, locks, IPkts,
       IModes, IControl, IPointers, Pkt, Latest, Active, Waiting
<1>5. ILastQuery'
  BY DEF IInv, RunQuery, IsFailure, Dies, Count, NULL, packets, locks, IControl,
       ILastQuery, IPkts, LastDone, Pkt, Appending
<1>6. QED BY <1>1, <1>2, <1>3, <1>4, <1>5 DEF IInv

LEMMA ScanEmptyKeeps ==
  ASSUME SafeKinds, IInv, ScanEmpty
  PROVE  IInv'
<1>1. IPkts' /\ IRefs' /\ IRange' /\ IFreed' /\ IAlive'
  BY PacketsFrame DEF ScanEmpty, HasNext, packets, locks, results, Latest,
       LastDone, Appending
<1>2. IModes' /\ ILocals'
  BY DEF IInv, ScanEmpty, HasNext, packets, locks, results, IModes, ILocals,
       Pkt, NULL
<1>3. IControl'
  BY DEF IInv, ScanEmpty, HasNext, packets, locks, results, IModes, IControl
<1>4. IPointers'
  <2>1. p \in linked /\ p .. Latest \subseteq linked /\ p <= Latest
    BY DEF IInv, IPointers, IRange, Active, ScanEmpty
  <2>2. p \in p .. Latest
    BY <2>1 DEF IInv, IPkts, Latest, Pkt
  <2>3. QED
    BY <2>1, <2>2 DEF ScanEmpty, IPointers, Latest, Active, Waiting, packets
<1>5. ILastQuery'
  BY DEF IInv, ScanEmpty, HasNext, packets, locks, results, IControl,
       ILastQuery, IPkts, NULL, LastDone, Pkt, Appending
<1>6. QED BY <1>1, <1>2, <1>3, <1>4, <1>5 DEF IInv

LEMMA TakeEofLockKeeps ==
  ASSUME SafeKinds, IInv, TakeEofLock
  PROVE  IInv'
<1>1. IPkts' /\ IRefs' /\ IRange' /\ IFreed' /\ IAlive'
  BY PacketsFrame DEF TakeEofLock, packets, replayer, results, Latest, LastDone,
       Appending
<1>2. IModes' /\ ILocals'
  BY DEF IInv, TakeEofLock, packets, replayer, results, IModes, ILocals, Pkt,
       NULL
<1>3. IControl'
  BY DEF IInv, TakeEofLock, packets, replayer, results, IModes, IControl
<1>4. IPointers'
  BY DEF IInv, TakeEofLock, packets, replayer, results, IPkts, IModes, IControl,
       IPointers, Pkt, NULL, Latest, Active, Waiting
<1>5. ILastQuery'
  BY DEF IInv, TakeEofLock, packets, replayer, results, IControl, ILastQuery,
       IPkts, NULL, LastDone, Pkt, Appending
<1>6. QED BY <1>1, <1>2, <1>3, <1>4, <1>5 DEF IInv

LEMMA CheckParksKeeps ==
  ASSUME SafeKinds, IInv, CheckParks
  PROVE  IInv'
<1>1. IPkts' /\ IRefs' /\ IRange' /\ IFreed' /\ IAlive'
  BY PacketsFrame DEF CheckParks, HasNext, packets, locks, replayer, results,
       Latest, LastDone, Appending
<1>2. IModes' /\ ILocals'
  BY DEF IInv, CheckParks, HasNext, packets, locks, replayer, results, IModes,
       ILocals, Pkt, NULL
<1>3. IControl'
  BY DEF IInv, CheckParks, HasNext, packets, locks, replayer, results, IModes,
       IControl
<1>4. IPointers'
  BY DEF IInv, CheckParks, HasNext, packets, locks, replayer, results, IPkts,
       IModes, IControl, IPointers, Pkt, NULL, Latest, Active, Waiting
<1>5. ILastQuery'
  BY DEF IInv, CheckParks, HasNext, packets, locks, replayer, results, IControl,
       ILastQuery, IPkts, NULL, LastDone, Pkt, Appending
<1>6. QED BY <1>1, <1>2, <1>3, <1>4, <1>5 DEF IInv

LEMMA ParkKeeps ==
  ASSUME SafeKinds, IInv, Park
  PROVE  IInv'
<1>1. IPkts' /\ IRefs' /\ IRange' /\ IFreed' /\ IAlive'
  BY PacketsFrame DEF Park, packets, replayer, results, Latest, LastDone,
       Appending
<1>2. IModes' /\ ILocals'
  BY DEF IInv, Park, packets, replayer, results, IModes, ILocals, Pkt, NULL
<1>3. IControl'
  BY DEF IInv, Park, packets, replayer, results, IModes, IControl
<1>4. IPointers'
  BY DEF IInv, Park, packets, replayer, results, IPkts, IModes, IControl,
       IPointers, Pkt, NULL, Latest, Active, Waiting
<1>5. ILastQuery'
  BY DEF IInv, Park, packets, replayer, results, IControl, ILastQuery, IPkts,
       NULL, LastDone, Pkt, Appending
<1>6. QED BY <1>1, <1>2, <1>3, <1>4, <1>5 DEF IInv

LEMMA SpuriousWakeKeeps ==
  ASSUME SafeKinds, IInv, SpuriousWake
  PROVE  IInv'
<1>1. IPkts' /\ IRefs' /\ IRange' /\ IFreed' /\ IAlive'
  BY PacketsFrame DEF SpuriousWake, packets, locks, replayer, results, Latest,
       LastDone, Appending
<1>2. IModes' /\ ILocals'
  BY DEF IInv, SpuriousWake, packets, locks, replayer, results, IModes, ILocals,
       Pkt, NULL
<1>3. IControl'
  BY DEF IInv, SpuriousWake, packets, locks, replayer, results, IModes, IControl
<1>4. IPointers'
  BY DEF IInv, SpuriousWake, packets, locks, replayer, results, IPkts, IModes,
       IControl, IPointers, Pkt, NULL, Latest, Active, Waiting
<1>5. ILastQuery'
  BY DEF IInv, SpuriousWake, packets, locks, replayer, results, IControl,
       ILastQuery, IPkts, NULL, LastDone, Pkt, Appending
<1>6. QED BY <1>1, <1>2, <1>3, <1>4, <1>5 DEF IInv

LEMMA GatherNextKeeps ==
  ASSUME SafeKinds, IInv, GatherNext
  PROVE  IInv'
<1>1. IPkts' /\ IRefs' /\ IRange' /\ IFreed' /\ IAlive'
  BY PacketsFrame DEF GatherNext, HasNext, Follows, Big, packets, results,
       Latest, LastDone, Appending
<1>2. IModes' /\ ILocals'
  <2>1. IModes'
    <3>1. rpc' \in {"wait", "exec"} BY DEF GatherNext
    <3>2. QED BY <3>1 DEF IInv, GatherNext, IModes, results
  <2>2. cur' \in Pkt BY DEF IInv, GatherNext, Follows, IPkts
  <2>3. QED BY <2>1, <2>2 DEF IInv, GatherNext, ILocals, results
<1>3. IControl'
  BY DEF IInv, GatherNext, HasNext, Follows, Big, packets, results, IModes,
       IControl
<1>4. IPointers'
  <2>1. p \in linked /\ p .. Latest \subseteq linked /\ cur \in p .. Latest
    BY DEF IInv, IPointers, Active, Waiting, GatherNext
  <2>2. PICK j \in linked : cur < j /\ cur' = j
    BY DEF GatherNext, Follows
  <2>3. j \in Pkt /\ j <= Latest
    BY DEF IInv, IPkts, IRange
  <2>4. cur' \in p .. Latest
    BY <2>1, <2>2, <2>3 DEF IInv, IPkts, Pkt, Latest
  <2>5. rpc' \in {"wait", "exec"} /\ site' = "gather"
    BY DEF GatherNext
  <2>6. QED
    BY <2>1, <2>4, <2>5 DEF GatherNext, IPointers, Latest, Active, Waiting, packets
<1>5. ILastQuery'
  BY DEF IInv, GatherNext, HasNext, Follows, Big, packets, results, IControl,
       ILastQuery, IPkts, NULL, LastDone, Pkt, Appending
<1>6. QED BY <1>1, <1>2, <1>3, <1>4, <1>5 DEF IInv

LEMMA GatherGivesUpKeeps ==
  ASSUME SafeKinds, IInv, GatherGivesUp
  PROVE  IInv'
<1>1. IPkts' /\ IRefs' /\ IRange' /\ IFreed' /\ IAlive'
  BY PacketsFrame DEF GatherGivesUp, HasNext, NULL, Count, packets, Latest,
       LastDone, Appending
<1>2. IModes' /\ ILocals'
  <2>1. IModes' BY DEF IInv, GatherGivesUp, IModes
  <2>2. tried' \in [Pkt -> Nat]
    <3>1. p \in Pkt
      BY DEF IInv, IPointers, Active, IPkts, GatherGivesUp
    <3>2. QED
      BY <3>1 DEF IInv, GatherGivesUp, Count, ILocals
  <2>3. QED BY <2>1, <2>2 DEF IInv, GatherGivesUp, ILocals, NULL
<1>3. IControl'
  BY DEF IInv, GatherGivesUp, HasNext, NULL, Count, packets, IModes, IControl
<1>4. IPointers'
  BY DEF IInv, GatherGivesUp, HasNext, NULL, Count, packets, IPkts, IModes,
       IControl, IPointers, Pkt, Latest, Active, Waiting
<1>5. ILastQuery'
  BY DEF IInv, GatherGivesUp, HasNext, NULL, Count, packets, IControl,
       ILastQuery, IPkts, LastDone, Pkt, Appending
<1>6. QED BY <1>1, <1>2, <1>3, <1>4, <1>5 DEF IInv

LEMMA LoopEndsKeeps ==
  ASSUME SafeKinds, IInv, LoopEnds
  PROVE  IInv'
<1>1. IPkts' /\ IRefs' /\ IRange' /\ IFreed' /\ IAlive'
  BY PacketsFrame DEF LoopEnds, NULL, packets, results, Latest, LastDone,
       Appending
<1>2. IModes' /\ ILocals'
  BY DEF IInv, LoopEnds, NULL, packets, results, IModes, ILocals, Pkt
<1>3. IControl'
  BY DEF IInv, LoopEnds, NULL, packets, results, IModes, IControl
<1>4. IPointers'
  BY DEF IInv, LoopEnds, NULL, packets, results, IPkts, IModes, IControl,
       IPointers, Pkt, Latest, Active, Waiting
<1>5. ILastQuery'
  BY DEF IInv, LoopEnds, NULL, packets, results, IControl, ILastQuery, IPkts,
       LastDone, Pkt, Appending
<1>6. QED BY <1>1, <1>2, <1>3, <1>4, <1>5 DEF IInv

LEMMA LoopAdvancesKeeps ==
  ASSUME SafeKinds, IInv, LoopAdvances
  PROVE  IInv'
<1>1. IPkts' /\ IRefs' /\ IRange' /\ IFreed' /\ IAlive'
  BY PacketsFrame DEF LoopAdvances, HasNext, NULL, Follows, packets, results,
       Latest, LastDone, Appending
<1>2. IModes' /\ ILocals'
  <2>1. IModes' BY DEF IInv, LoopAdvances, IModes, results
  <2>2. p' \in Pkt BY DEF IInv, LoopAdvances, Follows, IPkts
  <2>3. QED BY <2>1, <2>2 DEF IInv, LoopAdvances, ILocals, NULL, results
<1>3. IControl'
  BY DEF IInv, LoopAdvances, HasNext, NULL, Follows, packets, results, IModes,
       IControl
<1>4. IPointers'
  BY DEF IInv, LoopAdvances, HasNext, NULL, Follows, packets, results, IPkts,
       IModes, IControl, IPointers, Pkt, Latest, Active, Waiting
<1>5. ILastQuery'
  BY DEF IInv, LoopAdvances, HasNext, NULL, Follows, packets, results, IControl,
       ILastQuery, IPkts, LastDone, Pkt, Appending
<1>6. QED BY <1>1, <1>2, <1>3, <1>4, <1>5 DEF IInv

LEMMA RelockKeeps ==
  ASSUME SafeKinds, IInv, Relock
  PROVE  IInv'
<1>1. IPkts' /\ IRefs' /\ IRange' /\ IFreed' /\ IAlive'
  BY PacketsFrame DEF Relock, packets, locks, replayer, results, Latest,
       LastDone, Appending
<1>2. IModes' /\ ILocals'
  BY DEF IInv, Relock, packets, locks, replayer, results, IModes, ILocals, Pkt,
       NULL
<1>3. IControl'
  BY DEF IInv, Relock, packets, locks, replayer, results, IModes, IControl
<1>4. IPointers'
  BY DEF IInv, Relock, packets, locks, replayer, results, IPkts, IModes,
       IControl, IPointers, Pkt, NULL, Latest, Active, Waiting
<1>5. ILastQuery'
  BY DEF IInv, Relock, packets, locks, replayer, results, IControl, ILastQuery,
       IPkts, NULL, LastDone, Pkt, Appending
<1>6. QED BY <1>1, <1>2, <1>3, <1>4, <1>5 DEF IInv

LEMMA ReadPacketKeeps ==
  ASSUME SafeKinds, IInv, NEW k \in Kinds, ReadPacket(k)
  PROVE  IInv'
<1>1. IPkts'
  <2>1. n + 1 \in Pkt /\ n' = n + 1
    BY ReplayAssumption DEF IInv, IPkts, ReadPacket, Pkt
  <2>2. kind' \in [Pkt -> Kinds \cup {"none"}]
    BY DEF IInv, IPkts, ReadPacket
  <2>3. born' \in 1 .. MaxPkts + 1 /\ last_query' \in Pkt \cup {NULL}
    BY <2>1, ReplayAssumption DEF IInv, IPkts, ReadPacket, NewStream, Pkt, NULL
  <2>4. QED
    BY <2>1, <2>2, <2>3 DEF IInv, IPkts, ReadPacket, Pkt
<1>2. IModes'
  <2>1. mpc' = "append" /\ rpc' \in {rpc, "start"} /\ con' \in {con, "null"}
        /\ reached_eof' \in {reached_eof, FALSE}
    BY DEF ReadPacket, NewStream
  <2>2. QED
    BY <2>1 DEF IInv, IModes, ReadPacket, results
<1>3. ILocals'
  BY DEF IInv, ReadPacket, NewStream, results, NULL, ILocals, IPkts, Pkt
<1>4. IRefs'
  BY DEF IInv, ReadPacket, NewStream, results, NULL, IRefs, IPkts, IControl,
       IModes, IRange, RefCountAccounts, LastDone, Pkt, Latest, Counted,
       Appending
<1>5. IRange'
  <2>1. n + 1 \in Pkt /\ n' = n + 1 /\ kind' = [kind EXCEPT ![n + 1] = k]
    BY ReplayAssumption DEF IInv, IPkts, ReadPacket, Pkt
  <2>2. \A i \in 1 .. n + 1 : kind'[i] \in Kinds
    BY <2>1 DEF IInv, IRange, IPkts, Pkt
  <2>3. \A i \in linked' \cup freed' : i <= Latest'
    BY <2>1 DEF IInv, IRange, ReadPacket, Latest, IPkts
  <2>4. QED BY <2>1, <2>2, <2>3 DEF IRange
<1>6. IFreed'
  BY DEF IInv, ReadPacket, NewStream, results, NULL, IFreed, IPkts, IRefs,
       IRange, ILastQuery, Pkt, RefCountAccounts, LastDone, Latest, Counted,
       Appending
<1>7. IControl'
  BY DEF IInv, ReadPacket, NewStream, results, NULL, IControl, IModes, IPkts,
       IRange, Pkt, Latest
<1>8. IPointers'
  BY DEF IInv, ReadPacket, NewStream, results, NULL, IPointers, IPkts, IModes,
       IControl, IRange, Latest, Active, Waiting, Pkt
<1>9. ILastQuery'
  BY DEF IInv, ReadPacket, NewStream, results, NULL, ILastQuery, IPkts,
       IControl, IPointers, IRange, LastDone, Pkt, Latest, Active, Waiting,
       Appending
<1>10. IAlive'
  BY DEF IInv, ReadPacket, NewStream, results, NULL, IAlive, IPkts, IRefs,
       IRange, Latest, Pkt, RefCountAccounts, LastDone, Counted, Appending
<1>11. QED BY <1>1, <1>2, <1>3, <1>4, <1>5, <1>6, <1>7, <1>8, <1>9, <1>10 DEF IInv

LEMMA AppendPacketKeeps ==
  ASSUME SafeKinds, IInv, AppendPacket
  PROVE  IInv'
<1>1. IPkts'
  <2>1. n \in Pkt
    BY DEF IInv, IPkts, IControl, AppendPacket, Pkt
  <2>2. ref' \in [Pkt -> Nat]
    BY <2>1 DEF IInv, IPkts, AppendPacket
  <2>3. QED
    BY <2>1, <2>2 DEF IInv, IPkts, AppendPacket
<1>2. IModes'
  BY DEF IInv, AppendPacket, replayer, results, IModes
<1>3. ILocals'
  BY DEF IInv, AppendPacket, replayer, results, ILocals, IPkts, Pkt, NULL
<1>4. IRefs'
  BY DEF IInv, AppendPacket, replayer, results, IRefs, IPkts, IControl, IModes,
       IRange, RefCountAccounts, LastDone, NULL, Pkt, Latest, Counted,
       Appending
<1>5. IRange'
  BY DEF IInv, AppendPacket, replayer, results, IRange, IPkts, IControl, Latest,
       Pkt, NULL
<1>6. IFreed'
  BY DEF IInv, AppendPacket, replayer, results, IFreed, IPkts, IRefs, IRange,
       ILastQuery, Pkt, NULL, RefCountAccounts, LastDone, Latest, Counted,
       Appending
<1>7. IControl'
  BY DEF IInv, AppendPacket, replayer, results, IControl, IModes, IPkts, IRange,
       Pkt, NULL, Latest
<1>8. IPointers'
  BY DEF IInv, AppendPacket, replayer, results, IPointers, IPkts, IModes,
       IControl, IRange, Latest, Active, Waiting, Pkt, NULL
<1>9. ILastQuery'
  BY DEF IInv, AppendPacket, replayer, results, ILastQuery, IPkts, IControl,
       IPointers, IRange, NULL, LastDone, Pkt, Latest, Active, Waiting,
       Appending
<1>10. IAlive'
  BY DEF IInv, AppendPacket, replayer, results, IAlive, IPkts, IRefs, IRange,
       Latest, Pkt, NULL, RefCountAccounts, LastDone, Counted, Appending
<1>11. QED BY <1>1, <1>2, <1>3, <1>4, <1>5, <1>6, <1>7, <1>8, <1>9, <1>10 DEF IInv

LEMMA CompleteQueryKeeps ==
  ASSUME SafeKinds, IInv, CompleteQuery
  PROVE  IInv'
<1>1. IPkts'
  BY DEF IInv, CompleteQuery, QueryKinds, Completed, replayer, results, IPkts,
       IRefs, SafeKinds, IRange, IControl, Pkt, NULL, RefCountAccounts,
       LastDone, Latest, Counted, Appending
<1>2. IModes'
  BY DEF IInv, CompleteQuery, QueryKinds, Completed, replayer, results, IModes,
       SafeKinds, IRange, IControl, Latest
<1>3. ILocals'
  BY DEF IInv, CompleteQuery, QueryKinds, Completed, replayer, results, ILocals,
       IPkts, SafeKinds, IRange, IControl, Pkt, NULL, Latest
<1>4. IRefs'
  BY DEF IInv, CompleteQuery, QueryKinds, Completed, replayer, results, IRefs,
       IPkts, IControl, IModes, IRange, SafeKinds, RefCountAccounts, LastDone,
       NULL, Pkt, Latest, Counted, Appending
<1>5. IRange'
  BY DEF IInv, CompleteQuery, QueryKinds, Completed, replayer, results, IRange,
       IPkts, IControl, SafeKinds, Latest, Pkt, NULL
<1>6. IFreed'
  BY DEF IInv, CompleteQuery, QueryKinds, Completed, replayer, results, IFreed,
       IPkts, IRefs, IRange, ILastQuery, SafeKinds, IControl, Pkt, NULL,
       RefCountAccounts, LastDone, Latest, Counted, Appending
<1>7. IControl'
  BY DEF IInv, CompleteQuery, QueryKinds, Completed, replayer, results,
       IControl, IModes, IPkts, IRange, SafeKinds, Pkt, NULL, Latest
<1>8. IPointers'
  BY DEF IInv, CompleteQuery, QueryKinds, Completed, replayer, results,
       IPointers, IPkts, IModes, IControl, IRange, SafeKinds, Latest, Active,
       Waiting, Pkt, NULL
<1>9. ILastQuery'
  BY DEF IInv, CompleteQuery, QueryKinds, Completed, replayer, results,
       ILastQuery, IPkts, IControl, IPointers, IRange, SafeKinds, NULL,
       LastDone, Pkt, Latest, Active, Waiting, Appending
<1>10. IAlive'
  BY DEF IInv, CompleteQuery, QueryKinds, Completed, replayer, results, IAlive,
       IPkts, IRefs, IRange, SafeKinds, IControl, Latest, Pkt, NULL,
       RefCountAccounts, LastDone, Counted, Appending
<1>11. QED BY <1>1, <1>2, <1>3, <1>4, <1>5, <1>6, <1>7, <1>8, <1>9, <1>10 DEF IInv

LEMMA CompleteEofKeeps ==
  ASSUME SafeKinds, IInv, CompleteEof
  PROVE  IInv'
<1>1. /\ linked' = linked /\ freed' = freed /\ last_query \in linked
      /\ last_query = n - 1 /\ n \in Pkt
      /\ ref' = [i \in Pkt |-> IF i = last_query THEN ref[i] + 1 ELSE ref[i]]
  <2>1. rpc # "none" /\ n \in linked
    BY DEF IInv, IControl, CompleteEof
  <2>2. "Eof" \in Kinds
    BY <2>1 DEF IInv, IRange, CompleteEof, IPkts, Pkt
  <2>3. last_query = n - 1 /\ last_query \in linked
    BY <2>1, <2>2 DEF IInv, ILastQuery, CompleteEof, LastDone, Appending
  <2>4. n \in Int /\ \A i \in linked : i \in Int
    BY DEF IInv, IPkts, Pkt
  <2>5. {i \in linked : last_query < i /\ i < n} = {}
    <3>1. \A i \in linked : ~(n - 1 < i /\ i < n)
      BY <2>4
    <3>2. QED BY <2>3, <3>1
  <2>6. QED
    BY <2>1, <2>3, <2>5 DEF CompleteEof, IInv, IPkts
<1>2. \E e \in slow_queries \cup {last_query} :
         \/ slow_queries' = (slow_queries \cup {last_query}) \ {e}
            /\ evicted' = evicted \cup {e}
         \/ slow_queries' = slow_queries \cup {last_query} /\ evicted' = evicted
  BY DEF CompleteEof, RegisterQuery
<1>3. /\ last_query \notin slow_queries \cup evicted
      /\ slow_queries' \cup evicted' = slow_queries \cup evicted \cup {last_query}
      /\ slow_queries' \cap evicted' = {}
  BY <1>2 DEF IInv, IRefs, CompleteEof, NULL
<1>4. IPkts'
  <2>1. ref' \in [Pkt -> Nat]
    BY <1>1 DEF IInv, IPkts
  <2>2. slow_queries' \subseteq Pkt /\ evicted' \subseteq Pkt
    BY <1>1, <1>3 DEF IInv, IPkts
  <2>3. QED
    BY <1>1, <2>1, <2>2 DEF IInv, IPkts, CompleteEof, Completed
<1>5. IModes' /\ ILocals'
  BY DEF IInv, IModes, ILocals, CompleteEof, Completed, replayer, results
<1>6. IRefs'
  <2>1. RefCountAccounts'
    BY <1>1, <1>3 DEF IInv, IPkts, IRefs, RefCountAccounts, Counted, Pkt
  <2>2. LastDone' = n /\ LastDone = n - 1 /\ last_query' = NULL
    BY DEF CompleteEof, Completed, LastDone, Appending
  <2>3. \A i \in slow_queries' \cup evicted' : i \in Int /\ i <= n
    <3>1. n \in Int /\ \A i \in slow_queries \cup evicted \cup {last_query} : i \in Int
      BY <1>1 DEF IInv, IPkts, Pkt
    <3>2. \A i \in slow_queries \cup evicted \cup {last_query} : i <= n - 1
      BY <1>1, <2>2, <3>1 DEF IInv, IRefs
    <3>3. QED BY <1>3, <3>1, <3>2
  <2>4. QED
    BY <1>3, <2>1, <2>2, <2>3 DEF IRefs
<1>7. IRange'
  BY <1>1 DEF IInv, IRange, Latest, CompleteEof, Completed
<1>8. IFreed'
  <2>1. last_query \notin freed
    BY <1>1 DEF IInv, IFreed, CompleteEof
  <2>2. QED
    BY <1>1, <1>3, <2>1 DEF IInv, IFreed, CompleteEof, Completed
<1>9. IControl'
  BY <1>1 DEF IInv, IControl, CompleteEof, Completed
<1>10. IPointers' /\ ILastQuery'
  BY <1>1 DEF IInv, IPointers, ILastQuery, Latest, Active, CompleteEof,
     Completed, replayer
<1>11. IAlive'
  BY <1>1, <1>3 DEF IInv, IAlive, Latest, CompleteEof, Completed
<1>12. QED BY <1>4, <1>5, <1>6, <1>7, <1>8, <1>9, <1>10, <1>11 DEF IInv

LEMMA CompleteOtherKeeps ==
  ASSUME SafeKinds, IInv, CompleteOther
  PROVE  IInv'
<1>1. n \in Pkt /\ n \in linked /\ rpc # "none"
  BY DEF IInv, IControl, IPkts, CompleteOther
<1>2. kind[n] \in Kinds
  BY <1>1 DEF IInv, IRange, IPkts, Pkt
<1>3. linked' = linked /\ freed' = freed /\ ref' = ref
  <2>1. {i \in {n} : kind[i] = "Reply"} = {}
    BY <1>2 DEF SafeKinds
  <2>2. QED
    BY <2>1 DEF CompleteOther, UnlinkPkts, IInv, IPkts
<1>4. IPkts'
  BY <1>3 DEF IInv, IPkts, CompleteOther, Completed
<1>5. IModes' /\ ILocals'
  BY DEF IInv, IModes, ILocals, CompleteOther, Completed, replayer, results
<1>6. IRefs'
  <2>1. LastDone' = n /\ LastDone = n - 1
    BY DEF CompleteOther, Completed, LastDone, Appending
  <2>2. \A i \in slow_queries \cup evicted \cup {last_query, n} : i \in Int
    BY <1>1 DEF IInv, IPkts, Pkt, NULL
  <2>3. QED
    BY <1>3, <2>1, <2>2
    DEF IInv, IRefs, RefCountAccounts, Counted, CompleteOther, Completed
<1>7. IRange'
  BY <1>3 DEF IInv, IRange, Latest, CompleteOther, Completed
<1>8. IFreed'
  BY <1>3 DEF IInv, IFreed, CompleteOther, Completed
<1>9. IControl'
  BY <1>3 DEF IInv, IControl, CompleteOther, Completed
<1>10. IPointers'
  BY <1>3 DEF IInv, IPointers, Latest, Active, CompleteOther, Completed, replayer
<1>11. ILastQuery'
  <2>1. "Eof" \in Kinds => last_query = NULL
    BY <1>2, ReplayAssumption DEF SafeKinds, CompleteOther, AllKinds, QueryKinds
  <2>2. QED
    BY <2>1 DEF ILastQuery, CompleteOther, Completed
<1>12. IAlive'
  BY <1>3 DEF IInv, IAlive, Latest, CompleteOther, Completed
<1>13. QED BY <1>4, <1>5, <1>6, <1>7, <1>8, <1>9, <1>10, <1>11, <1>12 DEF IInv

LEMMA JoinAndDeleteKeeps ==
  ASSUME SafeKinds, IInv, JoinAndDelete
  PROVE  IInv'
<1>1. /\ linked' \subseteq linked /\ linked' \subseteq Pkt
      /\ ref' \in [Pkt -> Nat] /\ RefCountAccounts'
      /\ freed \subseteq freed' /\ freed' \subseteq freed \cup linked
      /\ \A i \in linked : i \in linked' \cup freed' \cup slow_queries \cup evicted
      /\ \A i \in freed' : i \in freed \/ i \notin linked' \cup slow_queries \cup evicted
  BY UnlinkKeepsCount DEF IInv, IRefs, JoinAndDelete, StreamCleanup
<1>2. linked' = {}
  BY DEF JoinAndDelete, StreamCleanup, UnlinkPkts
<1>3. IPkts'
  BY <1>1 DEF IInv, IPkts, JoinAndDelete
<1>4. IModes' /\ ILocals'
  BY DEF IInv, IModes, ILocals, JoinAndDelete, locks, replayer, results
<1>5. IRefs'
  BY <1>1 DEF IInv, IRefs, LastDone, Appending, JoinAndDelete
<1>6. IRange'
  BY <1>1 DEF IInv, IRange, Latest, JoinAndDelete
<1>7. IFreed'
  BY <1>1 DEF IInv, IFreed, JoinAndDelete
<1>8. IControl'
  BY <1>2 DEF IInv, IControl, JoinAndDelete, locks
<1>9. IPointers' /\ ILastQuery'
  BY DEF IPointers, ILastQuery, Active, Waiting, JoinAndDelete
<1>10. IAlive'
  BY <1>1 DEF IInv, IAlive, Latest, JoinAndDelete
<1>11. QED BY <1>3, <1>4, <1>5, <1>6, <1>7, <1>8, <1>9, <1>10 DEF IInv

LEMMA DestroySlowQueriesKeeps ==
  ASSUME SafeKinds, IInv, DestroySlowQueries
  PROVE  IInv'
<1>1. IPkts'
  BY SMTT(30) DEF IInv, DestroySlowQueries, Pkt, locks, replayer, results, IPkts, IRefs,
       NULL, RefCountAccounts, LastDone, Counted, Appending
<1>2. IModes'
  BY DEF IInv, DestroySlowQueries, Pkt, locks, replayer, results, IModes
<1>3. ILocals'
  BY DEF IInv, DestroySlowQueries, Pkt, locks, replayer, results, ILocals,
       IPkts, NULL
<1>4. IRefs'
  <2>1. RefCountAccounts'
    <3>1. SUFFICES ASSUME NEW i \in Pkt
                   PROVE  ref'[i] = Counted(i \in linked) + Counted(i \in evicted)
      BY DEF RefCountAccounts, DestroySlowQueries
    <3>2. ref'[i] = IF i \in slow_queries THEN ref[i] - 1 ELSE ref[i]
      BY DEF DestroySlowQueries
    <3>3. i \in slow_queries => i \notin evicted
      BY DEF IInv, IRefs
    <3>4. QED
      BY <3>2, <3>3 DEF IInv, IRefs, RefCountAccounts, Counted
  <2>2. QED
    BY <2>1 DEF IInv, IRefs, LastDone, Appending, DestroySlowQueries
<1>5. IRange'
  BY DEF IInv, IRange, IRefs, IPkts, Latest, LastDone, Appending, DestroySlowQueries
<1>6. IFreed'
  BY DEF IInv, DestroySlowQueries, Pkt, locks, replayer, results, IFreed, IPkts,
       IRefs, IRange, ILastQuery, NULL, RefCountAccounts, LastDone, Latest,
       Counted, Appending
<1>7. IControl'
  BY DEF IInv, DestroySlowQueries, Pkt, locks, replayer, results, IControl,
       IModes, IPkts, IRange, NULL, Latest
<1>8. IPointers'
  BY DEF IInv, DestroySlowQueries, Pkt, locks, replayer, results, IPointers,
       IPkts, IModes, IControl, IRange, Latest, Active, Waiting, NULL
<1>9. ILastQuery'
  BY DEF IInv, DestroySlowQueries, Pkt, locks, replayer, results, ILastQuery,
       IPkts, IControl, IPointers, IRange, NULL, LastDone, Latest, Active,
       Waiting, Appending
<1>10. IAlive'
  BY DEF IInv, DestroySlowQueries, Pkt, locks, replayer, results, IAlive, IPkts,
       IRefs, IRange, Latest, NULL, RefCountAccounts, LastDone, Counted,
       Appending
<1>11. QED BY <1>1, <1>2, <1>3, <1>4, <1>5, <1>6, <1>7, <1>8, <1>9, <1>10 DEF IInv

LEMMA DestroyStreamsKeeps ==
  ASSUME SafeKinds, IInv, DestroyStreams
  PROVE  IInv'
<1>1. /\ linked' \subseteq linked /\ linked' \subseteq Pkt
      /\ ref' \in [Pkt -> Nat] /\ RefCountAccounts'
      /\ freed \subseteq freed' /\ freed' \subseteq freed \cup linked
      /\ \A i \in linked : i \in linked' \cup freed' \cup slow_queries \cup evicted
      /\ \A i \in freed' : i \in freed \/ i \notin linked' \cup slow_queries \cup evicted
  BY UnlinkKeepsCount DEF IInv, IRefs, DestroyStreams, StreamCleanup
<1>2. linked' = {}
  BY DEF DestroyStreams, StreamCleanup, UnlinkPkts
<1>3. IPkts'
  BY <1>1 DEF IInv, IPkts, DestroyStreams
<1>4. IModes' /\ ILocals'
  BY DEF IInv, IModes, ILocals, DestroyStreams, locks, replayer, results
<1>5. IRefs'
  BY <1>1 DEF IInv, IRefs, LastDone, Appending, DestroyStreams
<1>6. IRange'
  BY <1>1 DEF IInv, IRange, Latest, DestroyStreams
<1>7. IFreed'
  BY <1>1 DEF IInv, IFreed, DestroyStreams
<1>8. IControl'
  BY <1>2 DEF IInv, IControl, DestroyStreams, locks
<1>9. IPointers' /\ ILastQuery'
  BY DEF IPointers, ILastQuery, Active, Waiting, DestroyStreams
<1>10. IAlive'
  BY <1>1 DEF IInv, IAlive, Latest, DestroyStreams
<1>11. QED BY <1>3, <1>4, <1>5, <1>6, <1>7, <1>8, <1>9, <1>10 DEF IInv

LEMMA ScanNextKeeps ==
  ASSUME SafeKinds, IInv, ScanNext
  PROVE  IInv'
<1>1. /\ linked' \subseteq linked /\ linked' \subseteq Pkt
      /\ ref' \in [Pkt -> Nat] /\ RefCountAccounts'
      /\ freed \subseteq freed' /\ freed' \subseteq freed \cup linked
      /\ \A i \in linked : i \in linked' \cup freed' \cup slow_queries \cup evicted
      /\ \A i \in freed' : i \in freed \/ i \notin linked' \cup slow_queries \cup evicted
  <2>1. UnlinkPkts({j \in {p} : ref[j] = 1}) /\ p \in linked
    BY DEF IInv, ScanNext, ConsiderUnlink, IPointers, Active
  <2>2. QED
    BY <2>1, UnlinkKeepsCount DEF IInv, IRefs, ScanNext
<1>2. p \in linked /\ \A i \in linked : i # p => i \in linked'
  BY DEF IInv, ScanNext, ConsiderUnlink, UnlinkPkts, IPointers, Active
<1>3. /\ mpc' = mpc /\ n' = n /\ Latest' = Latest /\ LastDone' = LastDone
      /\ lock = "free" /\ mpc \notin {"notify", "complete", "unmap", "exit"}
  BY DEF IInv, IControl, IModes, ScanNext, Latest, LastDone, Appending, locks
<1>4. p' \in linked /\ p < p' /\ p' <= Latest /\ p' .. Latest \subseteq linked
  <2>1. p' \in linked /\ p < p'
    BY DEF ScanNext, Follows
  <2>2. p' <= Latest /\ p .. Latest \subseteq linked
    BY <2>1 DEF IInv, IRange, IPointers, Active, ScanNext
  <2>3. p \in Int /\ p' \in Int /\ Latest \in Int
    BY <1>2, <2>1 DEF IInv, IPkts, Pkt, Latest
  <2>4. QED BY <2>1, <2>2, <2>3
<1>5. IPkts'
  BY <1>1 DEF IInv, IPkts, ScanNext
<1>6. IModes' /\ ILocals'
  BY <1>4 DEF IInv, IModes, ILocals, IPkts, ScanNext, locks, replayer, results, NULL
<1>7. IRefs'
  BY <1>1, <1>3 DEF IInv, IRefs, ScanNext
<1>8. IRange'
  BY <1>1, <1>3 DEF IInv, IRange, ScanNext
<1>9. IFreed'
  BY <1>1, <1>3 DEF IInv, IFreed, ScanNext
<1>10. IControl'
  BY <1>1, <1>3 DEF IInv, IControl, ScanNext, locks
<1>11. IPointers'
  BY <1>2, <1>3, <1>4 DEF IInv, IPointers, IPkts, Pkt, Active, Waiting, ScanNext, replayer
<1>12. ILastQuery'
  <2>1. "Eof" \in Kinds /\ last_query # NULL => last_query # p
    BY <1>3, <1>4 DEF IInv, ILastQuery, LastDone, Appending, Latest, IPkts, Pkt, ScanNext
  <2>2. QED
    BY <1>2, <1>3, <2>1 DEF IInv, ILastQuery, ScanNext
<1>13. IAlive'
  BY <1>1, <1>3 DEF IInv, IAlive, ScanNext
<1>14. QED
  BY <1>5, <1>6, <1>7, <1>8, <1>9, <1>10, <1>11, <1>12, <1>13 DEF IInv

LEMMA RelinkKeeps ==
  ASSUME SafeKinds, IInv, Relink
  PROVE  IInv'
<1>1. /\ linked' \subseteq linked /\ linked' \subseteq Pkt
      /\ ref' \in [Pkt -> Nat] /\ RefCountAccounts'
      /\ freed \subseteq freed' /\ freed' \subseteq freed \cup linked
      /\ \A i \in linked : i \in linked' \cup freed' \cup slow_queries \cup evicted
      /\ \A i \in freed' : i \in freed \/ i \notin linked' \cup slow_queries \cup evicted
  <2>1. UnlinkPkts({j \in {tmp} : ref[j] = 1}) /\ tmp \in linked
    BY DEF IInv, Relink, ConsiderUnlink, IPointers, Active
  <2>2. QED
    BY <2>1, UnlinkKeepsCount DEF IInv, IRefs, Relink
<1>2. tmp \in linked /\ \A i \in linked : i # tmp => i \in linked'
  BY DEF IInv, Relink, ConsiderUnlink, UnlinkPkts, IPointers, Active
<1>3. /\ mpc' = mpc /\ n' = n /\ Latest' = Latest /\ LastDone' = LastDone
      /\ lock = "free" /\ mpc \notin {"notify", "complete", "unmap", "exit"}
  BY DEF IInv, IControl, IModes, Relink, Latest, LastDone, Appending, locks
<1>4. p' = p /\ p \in linked /\ tmp < p /\ p <= Latest /\ p .. Latest \subseteq linked
  BY DEF IInv, IRange, IPointers, Active, Relink
<1>5. IPkts'
  BY <1>1 DEF IInv, IPkts, Relink
<1>6. IModes' /\ ILocals'
  BY <1>4 DEF IInv, IModes, ILocals, IPkts, Relink, locks, replayer, results, NULL
<1>7. IRefs'
  BY <1>1, <1>3 DEF IInv, IRefs, Relink
<1>8. IRange'
  BY <1>1, <1>3 DEF IInv, IRange, Relink
<1>9. IFreed'
  BY <1>1, <1>3 DEF IInv, IFreed, Relink
<1>10. IControl'
  BY <1>1, <1>3 DEF IInv, IControl, Relink, locks
<1>11. IPointers'
  BY <1>2, <1>3, <1>4 DEF IInv, IPointers, IPkts, Pkt, Active, Waiting, Relink, replayer
<1>12. ILastQuery'
  <2>1. "Eof" \in Kinds /\ last_query # NULL => last_query # tmp
    BY <1>3, <1>4 DEF IInv, ILastQuery, LastDone, Appending, Latest, IPkts, Pkt, Relink
  <2>2. QED
    BY <1>2, <1>3, <2>1 DEF IInv, ILastQuery, Relink
<1>13. IAlive'
  BY <1>1, <1>3 DEF IInv, IAlive, Relink
<1>14. QED
  BY <1>5, <1>6, <1>7, <1>8, <1>9, <1>10, <1>11, <1>12, <1>13 DEF IInv

-----------------------------------------------------------------------------
(* The invariant holds of the first state and is kept by every step.       *)
LEMMA InitHolds == ASSUME Init PROVE IInv
<1>1. IPkts BY ReplayAssumption DEF Init, IPkts, Pkt, NULL
<1>2. IModes BY DEF Init, IModes
<1>3. ILocals BY DEF Init, ILocals
<1>4. IRefs BY DEF Init, IRefs, RefCountAccounts, Counted
<1>5. IRange BY DEF Init, IRange
<1>6. IFreed /\ IControl BY DEF Init, IFreed, IControl
<1>7. IPointers /\ ILastQuery
  BY DEF Init, IPointers, ILastQuery, Active, Waiting
<1>8. IAlive BY DEF Init, IAlive, Latest
<1>9. QED BY <1>1, <1>2, <1>3, <1>4, <1>5, <1>6, <1>7, <1>8 DEF IInv

LEMMA StutterKeeps == ASSUME IInv, UNCHANGED vars PROVE IInv'
<1>1. IPkts' /\ IRefs' /\ IRange' /\ IFreed' /\ IAlive'
  BY PacketsFrame DEF vars, packets, Latest, LastDone, Appending
<1>2. IModes' /\ ILocals'
  BY DEF IInv, IModes, ILocals, vars, packets, locks, replayer, results
<1>3. IControl' /\ IPointers' /\ ILastQuery'
  BY DEF IInv, IControl, IPointers, ILastQuery, Latest, LastDone, Appending,
     Active, vars, packets, locks, replayer
<1>4. QED BY <1>1, <1>2, <1>3 DEF IInv

LEMMA StepKeeps == ASSUME SafeKinds, IInv, [Next]_vars PROVE IInv'
<1>1. CASE MainStep
  <2>1. ASSUME NEW k \in Kinds, ReadPacket(k) PROVE IInv'
    BY <2>1, ReadPacketKeeps
  <2>2. QED
    BY <1>1, <2>1, ReadEndKeeps, ReadEofKeeps, AppendPacketKeeps, NotifyKeeps,
       CompleteQueryKeeps, CompleteEofKeeps, CompleteOtherKeeps,
       EndLockKeeps, EndFlagKeeps, JoinAndDeleteKeeps, JoinAtFinishKeeps,
       PrintSlowQueriesKeeps, DestroySlowQueriesKeeps, DestroyStreamsKeeps
    DEF MainStep, MainActions
<1>2. CASE ReplayStep
  BY <1>2, StartKeeps, LookKeeps, ConnectFailsKeeps, RunQueryKeeps, ScanNextKeeps,
     ScanEmptyKeeps, TakeEofLockKeeps, CheckParksKeeps, ParkKeeps,
     GatherNextKeeps, GatherGivesUpKeeps, LoopEndsKeeps, LoopAdvancesKeeps,
     RelinkKeeps, RelockKeeps
  DEF ReplayStep, ReplayActions
<1>3. CASE SpuriousWake
  BY <1>3, SpuriousWakeKeeps
<1>4. CASE UNCHANGED vars
  BY <1>4, StutterKeeps
<1>5. QED BY <1>1, <1>2, <1>3, <1>4 DEF Next, Terminated

THEOREM Invariance == ASSUME SafeKinds PROVE Spec => []IInv
<1>1. Init => IInv BY InitHolds
<1>2. IInv /\ [Next]_vars => IInv' BY StepKeeps
<1>3. QED BY <1>1, <1>2, PTL DEF Spec

-----------------------------------------------------------------------------
(* What follows from it.                                                   *)

(* Every variable keeps to its range; in particular no reference count     *)
(* leaves what the assertion in mark_ref allows.                           *)
THEOREM TypeCorrect == ASSUME SafeKinds PROVE Spec => []TypeOK
<1>1. IInv => TypeOK
  <2>1. SUFFICES ASSUME IInv PROVE TypeOK
    OBVIOUS
  <2>2. ref \in [Pkt -> 0 .. 3]
    BY <2>1 DEF IInv, IPkts, IRefs, RefCountAccounts, Counted
  <2>3. QED
    BY <2>1, <2>2 DEF IInv, IPkts, IModes, ILocals, TypeOK
<1>2. QED BY <1>1, Invariance, PTL

(* ref_count counts the holders of a packet exactly.                       *)
THEOREM RefCounts == ASSUME SafeKinds PROVE Spec => []RefCountAccounts
<1>1. IInv => RefCountAccounts BY DEF IInv, IRefs
<1>2. QED BY <1>1, Invariance, PTL

(* No pointer a thread keeps over its steps leads it to a packet the other *)
(* has deleted.                                                            *)
THEOREM MemorySafe == ASSUME SafeKinds PROVE Spec => []NoUseAfterFree
<1>1. IInv => NoUseAfterFree
  <2>1. SUFFICES ASSUME IInv PROVE NoUseAfterFree
    OBVIOUS
  <2>2. rpc \notin {"none", "start", "done"} \/ mpc \in {"notify", "complete"}
           => freed \cap linked = {}
    BY <2>1 DEF IInv, IControl, IFreed
  <2>3. Active => p \in linked /\ p .. Latest \subseteq linked
    BY <2>1 DEF IInv, IPointers
  <2>4. rpc \in Waiting \cup {"exec"} => cur \in linked
    BY <2>1, <2>3 DEF IInv, IPointers, Active, Waiting
  <2>5. rpc = "exec" => \A i \in linked \cup freed : p <= i /\ i <= cur => i \in linked
    <3>1. SUFFICES ASSUME rpc = "exec", NEW i \in linked \cup freed, p <= i, i <= cur
                   PROVE  i \in linked
      OBVIOUS
    <3>2. i \in Int /\ i <= Latest
      BY <2>1 DEF IInv, IPkts, IRange, Pkt
    <3>3. i \in p .. Latest
      BY <3>1, <3>2
    <3>4. QED BY <2>3, <3>1, <3>3 DEF Active
  <2>6. mpc \in {"notify", "complete"} => n \in linked
    BY <2>1 DEF IInv, IControl
  <2>7. mpc = "complete" /\ kind[n] = "Eof" => last_query \notin freed
    <3>1. SUFFICES ASSUME mpc = "complete", kind[n] = "Eof"
                   PROVE  last_query \notin freed
      OBVIOUS
    <3>2. rpc # "none" /\ "Eof" \in Kinds
      BY <2>1, <2>6, <3>1 DEF IInv, IControl, IRange, IPkts, Pkt
    <3>3. CASE last_query = NULL
      BY <2>1, <3>3 DEF IInv, IPkts, Pkt, NULL
    <3>4. CASE last_query # NULL
      BY <2>1, <2>2, <3>1, <3>2, <3>4 DEF IInv, ILastQuery
    <3>5. QED BY <3>3, <3>4
  <2>8. rpc = "relink" => tmp \in linked
    BY <2>1 DEF IInv, IPointers
  <2>9. QED
    BY <2>2, <2>3, <2>4, <2>5, <2>6, <2>7, <2>8
    DEF NoUseAfterFree, Active, Waiting
<1>2. QED BY <1>1, Invariance, PTL

(* The assertion in handle_packet_complete never fails.                    *)
THEOREM AssertHolds == ASSUME SafeKinds PROVE Spec => []LastQueryHasNext
<1>1. IInv => LastQueryHasNext
  <2>1. SUFFICES ASSUME IInv, mpc = "complete", kind[n] = "Eof", last_query # NULL
                 PROVE  last_query \notin freed /\ HasNext(last_query)
    BY DEF LastQueryHasNext
  <2>2. n \in linked /\ rpc # "none"
    BY <2>1 DEF IInv, IControl
  <2>3. "Eof" \in Kinds /\ n \in Int
    BY <2>1, <2>2 DEF IInv, IRange, IPkts, Pkt
  <2>4. last_query = n - 1 /\ last_query \in linked
    BY <2>1, <2>2, <2>3 DEF IInv, ILastQuery, LastDone, Appending
  <2>5. QED
    BY <2>1, <2>2, <2>3, <2>4 DEF IInv, IFreed, HasNext
<1>2. QED BY <1>1, Invariance, PTL

(* The slow queries are there when print_slow_queries reads them, although *)
(* the replay thread is still unlinking packets.                           *)
THEOREM SlowListSafe == ASSUME SafeKinds PROVE Spec => []SlowQueriesAlive
<1>1. IInv => SlowQueriesAlive
  BY DEF IInv, IFreed, IControl, SlowQueriesAlive
<1>2. QED BY <1>1, Invariance, PTL

(* At exit only the evicted queries are left in memory.                    *)
THEOREM LeakBound == ASSUME SafeKinds PROVE Spec => []OnlyEvictedLeak
<1>1. IInv => OnlyEvictedLeak
  BY DEF IInv, IAlive, IControl, Latest, OnlyEvictedLeak
<1>2. QED BY <1>1, Invariance, PTL

(***************************************************************************)
(* What the replay thread does with the packets, for every number of them: *)
(* no query is skipped, none is run twice or out of order, a long query is *)
(* complete when it is sent, the thread sleeps only when there is nothing  *)
(* to do, a failure stops it, and what it has passed leaves the list.      *)
(***************************************************************************)

(* The replay thread has not yet tried the packet it is at, or has.        *)
AtNew  == \/ rpc \in {"query", "exec", "relink", "relock"}
          \/ rpc \in Waiting /\ site = "gather"
AtDone == rpc = "scan" \/ (rpc \in Waiting /\ site = "loop")

ITried ==
  /\ \A i \in Pkt : Tried(i) => i <= Latest
  /\ rpc = "start" => \A i \in Pkt : Tried(i) => i < born
  /\ AtNew => \A i \in Pkt : Tried(i) => i < p
  /\ AtDone => \A i \in Pkt : Tried(i) => i <= p

IPassed ==
  /\ Active => \A j \in born .. p - 1 : kind[j] \in QueryKinds => Tried(j)
  /\ AtDone /\ kind[p] \in QueryKinds => Tried(p)
  /\ NoQuerySkipped

ISite == rpc \notin Waiting \cup {"exec"} => site = "loop"

IGather ==
  /\ rpc \in Waiting /\ site = "gather" =>
        kind[p] = "BigQuery" /\ \A i \in p .. cur : kind[i] \in Big
  /\ rpc = "exec" /\ kind[p] = "BigQuery" =>
        /\ p < cur /\ kind[cur] \notin Big
        /\ \A i \in p .. cur - 1 : kind[i] \in Big

IOrder == ITried /\ IPassed /\ ISite /\ IGather

(* The mutex of the wait, and what is known while it is held.              *)
IWait ==
  /\ eof_lock = "replay" <=> rpc \in {"check", "park"}
  /\ rpc \in {"park", "sleep"} =>
        ~reached_eof /\ (HasNext(cur) => mpc = "notify")
  /\ mpc \in {"destroy", "unmap"} => rpc \in {"none", "done"}

-----------------------------------------------------------------------------
(* Facts several actions share.                                            *)

(* A step of which the replay thread's packets and pointers are no part.   *)
LEMMA OrderFrame ==
  ASSUME IInv, IOrder, UNCHANGED <<kind, tried, born, p, cur>>,
         \A i \in Pkt : i <= Latest => i <= Latest',
         AtNew' => AtNew, AtDone' => AtDone, Active' => Active,
         rpc' = "start" => rpc = "start", rpc' = "exec" => rpc = "exec",
         rpc' \in Waiting /\ site' = "gather" => rpc \in Waiting /\ site = "gather",
         ISite'
  PROVE  IOrder'
<1>1. ITried'
  BY DEF IOrder, ITried, Tried
<1>2. IPassed'
  BY DEF IOrder, IPassed, Tried, NoQuerySkipped
<1>3. IGather'
  BY DEF IOrder, IGather
<1>4. QED BY <1>1, <1>2, <1>3 DEF IOrder

(* db_query is called for the packet the thread is at.                     *)
LEMMA TryKeeps ==
  ASSUME IInv, IOrder, AtNew, Active, Count(p),
         UNCHANGED <<n, kind, born, p, mpc>>, rpc' = "scan", site' = "loop"
  PROVE  IOrder'
<1>1. p \in Pkt /\ p <= Latest /\ \A i \in Pkt : i \in Int
  <2>1. p \in linked BY DEF IInv, IPointers
  <2>2. QED BY <2>1 DEF IInv, IPkts, IRange, Pkt
<1>2. \A i \in Pkt : Tried(i)' <=> Tried(i) \/ i = p
  BY <1>1 DEF IInv, ILocals, Count, Tried
<1>3. \A i \in Pkt : Tried(i) => i < p
  BY DEF IOrder, ITried
<1>4. ~AtNew' /\ AtDone' /\ Active' /\ rpc' \notin Waiting \cup {"start", "exec"}
  BY DEF AtNew, AtDone, Active, Waiting
<1>5. ITried'
  <2>1. Latest' = Latest BY DEF Latest
  <2>2. \A i \in Pkt : Tried(i)' => i <= Latest'
    BY <1>1, <1>2, <2>1 DEF IOrder, ITried
  <2>3. \A i \in Pkt : Tried(i)' => i <= p
    BY <1>1, <1>2, <1>3
  <2>4. QED BY <1>4, <2>2, <2>3 DEF ITried
<1>6. IPassed'
  <2>1. \A j \in born .. p - 1 : j \in Pkt
    BY <1>1, ReplayAssumption DEF IInv, IPkts, Pkt
  <2>2. \A j \in born .. p - 1 : kind[j] \in QueryKinds => Tried(j)'
    BY <1>2, <2>1 DEF IOrder, IPassed
  <2>3. Tried(p)' BY <1>1, <1>2
  <2>4. NoQuerySkipped'
    <3>1. SUFFICES ASSUME NEW i \in Pkt, Tried(i)', born <= i,
                          NEW j \in born .. i - 1, kind[j] \in QueryKinds
                   PROVE  Tried(j)'
      BY DEF NoQuerySkipped
    <3>2. CASE i = p BY <2>2, <3>1, <3>2
    <3>3. CASE i # p
      <4>1. Tried(i) BY <1>2, <3>1, <3>3
      <4>2. Tried(j) BY <3>1, <4>1 DEF IOrder, IPassed, NoQuerySkipped
      <4>3. j \in Pkt BY <3>1, ReplayAssumption DEF IInv, IPkts, Pkt
      <4>4. QED BY <1>2, <4>2, <4>3
    <3>4. QED BY <3>2, <3>3
  <2>5. QED BY <2>2, <2>3, <2>4 DEF IPassed
<1>7. ISite' /\ IGather' BY <1>4 DEF ISite, IGather
<1>8. QED BY <1>5, <1>6, <1>7 DEF IOrder

(* The thread goes from a packet it is done with to the next one.          *)
LEMMA AdvanceKeeps ==
  ASSUME IInv, IOrder, AtDone, Active,
         NEW j \in linked, Follows(p, j), p' = j,
         UNCHANGED <<n, kind, born, tried, mpc>>,
         rpc' \in {"query", "relink"}, site' = "loop"
  PROVE  IOrder'
<1>1. /\ p \in Pkt /\ j \in Pkt /\ j <= Latest /\ p < j
      /\ \A k \in linked : p < k => j <= k
      /\ p .. Latest \subseteq linked
      /\ \A i \in Pkt : i \in Int
  BY DEF IInv, IPkts, IPointers, IRange, Pkt, Follows
<1>2. j = p + 1
  <2>1. p + 1 \in p .. Latest
    BY <1>1 DEF IInv, IPkts, Latest
  <2>2. QED BY <1>1, <2>1
<1>3. \A i \in Pkt : Tried(i)' <=> Tried(i) BY DEF Tried
<1>4. AtNew' /\ ~AtDone' /\ rpc' \notin Waiting \cup {"start", "exec"}
  BY DEF AtNew, AtDone, Waiting
<1>5. ITried'
  <2>1. Latest' = Latest BY DEF Latest
  <2>2. \A i \in Pkt : Tried(i)' => i < p'
    BY <1>1, <1>2, <1>3 DEF IOrder, ITried
  <2>3. \A i \in Pkt : Tried(i)' => i <= Latest'
    BY <1>3, <2>1 DEF IOrder, ITried
  <2>4. QED BY <1>4, <2>2, <2>3 DEF ITried
<1>6. IPassed'
  <2>1. \A i \in born .. p' - 1 : kind[i] \in QueryKinds => Tried(i)'
    <3>1. SUFFICES ASSUME NEW i \in born .. p, kind[i] \in QueryKinds
                   PROVE  Tried(i)'
      BY <1>1, <1>2
    <3>2. i \in Pkt BY <1>1, ReplayAssumption DEF IInv, IPkts, Pkt
    <3>3. CASE i = p BY <1>3, <3>1, <3>2, <3>3 DEF IOrder, IPassed
    <3>4. CASE i # p
      <4>1. i \in born .. p - 1 BY <1>1, <3>1, <3>4 DEF IInv, IPkts, Pkt
      <4>2. QED BY <1>3, <3>1, <3>2, <4>1 DEF IOrder, IPassed
    <3>5. QED BY <3>3, <3>4
  <2>2. NoQuerySkipped' BY DEF IOrder, IPassed, NoQuerySkipped, Tried
  <2>3. QED BY <1>4, <2>1, <2>2 DEF IPassed
<1>7. ISite' /\ IGather' BY <1>4 DEF ISite, IGather
<1>8. QED BY <1>5, <1>6, <1>7 DEF IOrder

-----------------------------------------------------------------------------
(* One lemma per action or group of actions.                               *)

(* The main thread, except where it reads a packet: it may wake the replay *)
(* thread, or end its stream.                                              *)
LEMMA MainOrderFrame ==
  ASSUME IInv, IOrder, UNCHANGED <<n, kind, tried, born, p, cur, site>>,
         mpc' # "append",
         rpc' = rpc \/ (rpc = "sleep" /\ rpc' = "awake")
           \/ (rpc \in {"none", "done"} /\ rpc' = "none")
  PROVE  IOrder'
<1>1. \A i \in Pkt : i <= Latest => i <= Latest'
  BY DEF IInv, IPkts, Latest, Pkt
<1>2. ISite' BY DEF IOrder, ISite, Waiting
<1>3. /\ AtNew' => AtNew
      /\ AtDone' => AtDone
      /\ Active' => Active
      /\ rpc' = "start" => rpc = "start"
      /\ rpc' = "exec" => rpc = "exec"
  BY DEF AtNew, AtDone, Active, Waiting
<1>4. rpc' \in Waiting /\ site' = "gather" => rpc \in Waiting /\ site = "gather"
  BY DEF Waiting
<1>5. QED BY <1>1, <1>2, <1>3, <1>4, OrderFrame

(* A new packet is not tried yet, and is behind everything else.           *)
LEMMA ReadPacketOrder ==
  ASSUME IInv, IOrder, NEW k \in Kinds, ReadPacket(k)
  PROVE  IOrder'
<1>1. /\ n \in 0 .. MaxPkts /\ n < MaxPkts /\ n' = n + 1
      /\ Latest = n /\ Latest' = n /\ UNCHANGED <<p, cur, site, tried>>
  BY DEF ReadPacket, results, Latest, IInv, IPkts
<1>2. \A i \in Pkt : i <= n => kind'[i] = kind[i]
  BY <1>1, ReplayAssumption DEF ReadPacket, IInv, IPkts, Pkt
<1>3. \A i \in Pkt : Tried(i)' <=> Tried(i) BY <1>1 DEF Tried
<1>4. \A i \in Pkt : Tried(i) => i <= n
  BY <1>1 DEF IOrder, ITried
<1>5. CASE rpc = "none"
  <2>1. rpc' = "start" /\ born' = n + 1 BY <1>5 DEF ReadPacket, NewStream
  <2>2. ~AtNew' /\ ~AtDone' /\ ~Active' /\ rpc' \notin Waiting \cup {"exec"}
    BY <2>1 DEF AtNew, AtDone, Active, Waiting
  <2>3. ITried'
    BY <1>1, <1>3, <1>4, <2>1, <2>2 DEF ITried, Pkt
  <2>4. NoQuerySkipped'
    <3>1. \A i \in Pkt : Tried(i)' => ~(born' <= i)
      BY <1>1, <1>3, <1>4, <2>1 DEF Pkt
    <3>2. QED BY <3>1 DEF NoQuerySkipped
  <2>5. ISite'
    <3>1. site = "loop" BY <1>5 DEF IOrder, ISite, Waiting
    <3>2. QED BY <1>1, <3>1 DEF ISite
  <2>6. QED BY <2>2, <2>3, <2>4, <2>5 DEF IOrder, IPassed, IGather
<1>6. CASE rpc # "none"
  <2>1. UNCHANGED <<rpc, born>> BY <1>6 DEF ReadPacket
  <2>2. ITried'
    BY <1>1, <1>3, <2>1 DEF IOrder, ITried, AtNew, AtDone
  <2>3. Active => p \in Pkt /\ p <= n
    BY <1>1 DEF IInv, IPkts, IPointers, IRange
  <2>4. IPassed'
    <3>1. Active => \A j \in born .. p - 1 : j \in Pkt /\ j <= n
      BY <1>1, <2>3, ReplayAssumption DEF IInv, IPkts, Pkt
    <3>2. Active' => \A j \in born' .. p' - 1 : kind'[j] \in QueryKinds => Tried(j)'
      BY <1>1, <1>2, <1>3, <2>1, <3>1 DEF IOrder, IPassed, Active
    <3>3. AtDone => Active BY DEF AtDone, Active, Waiting
    <3>4. AtDone' /\ kind'[p'] \in QueryKinds => Tried(p)'
      <4>1. SUFFICES ASSUME AtDone', kind'[p] \in QueryKinds PROVE Tried(p)'
        BY <1>1
      <4>2. AtDone BY <1>1, <2>1, <4>1 DEF AtDone
      <4>3. p \in Pkt /\ p <= n BY <2>3, <3>3, <4>2
      <4>4. QED BY <1>1, <1>2, <4>1, <4>2, <4>3 DEF IOrder, IPassed, Tried
    <3>5. NoQuerySkipped'
      <4>1. SUFFICES ASSUME NEW i \in Pkt, Tried(i), born <= i,
                            NEW j \in born .. i - 1, kind'[j] \in QueryKinds
                     PROVE  Tried(j)'
        BY <1>3, <2>1 DEF NoQuerySkipped
      <4>2. j \in Pkt /\ j <= n
        BY <1>1, <1>4, <4>1, ReplayAssumption DEF IInv, IPkts, Pkt
      <4>3. Tried(j) BY <1>2, <4>1, <4>2 DEF IOrder, IPassed, NoQuerySkipped
      <4>4. QED BY <1>3, <4>2, <4>3
    <3>6. QED BY <1>1, <3>2, <3>4, <3>5 DEF IPassed
  <2>5. ISite' BY <1>1, <2>1 DEF IOrder, ISite
  <2>6. IGather'
    <3>1. rpc \in Waiting \cup {"exec"} =>
             /\ p \in Pkt /\ p <= n /\ cur \in Pkt /\ cur <= n
             /\ \A i \in p .. cur : i \in Pkt /\ i <= n
      <4>1. SUFFICES ASSUME rpc \in Waiting \cup {"exec"}
                     PROVE  /\ p \in Pkt /\ p <= n /\ cur \in Pkt /\ cur <= n
                            /\ \A i \in p .. cur : i \in Pkt /\ i <= n
        OBVIOUS
      <4>2. p \in Pkt /\ p <= n BY <2>3, <4>1 DEF Active, Waiting
      <4>3. cur \in p .. n BY <1>1, <4>1 DEF IInv, IPointers
      <4>4. QED BY <1>1, <4>2, <4>3, ReplayAssumption DEF Pkt
    <3>2. rpc \in Waiting \cup {"exec"} =>
             /\ kind'[p] = kind[p] /\ kind'[cur] = kind[cur]
             /\ \A i \in p .. cur : kind'[i] = kind[i]
      BY <1>2, <3>1
    <3>3. rpc \in Waiting \cup {"exec"} =>
             \A i \in p .. cur - 1 : i \in p .. cur
      BY <3>1 DEF Pkt
    <3>4. QED BY <1>1, <2>1, <3>2, <3>3 DEF IOrder, IGather
  <2>7. QED BY <2>2, <2>4, <2>5, <2>6 DEF IOrder
<1>7. QED BY <1>5, <1>6

LEMMA MainKeepsOrder ==
  ASSUME SafeKinds, IInv, IOrder, MainActions
  PROVE  IOrder'
<1>1. ASSUME NEW k \in Kinds, ReadPacket(k) PROVE IOrder'
  BY <1>1, ReadPacketOrder
<1>2. CASE ReadEnd
  BY <1>2, MainOrderFrame DEF ReadEnd, packets, replayer, results
<1>3. CASE ReadEof
  BY <1>3, MainOrderFrame DEF ReadEof, packets, replayer, results
<1>4. CASE AppendPacket
  BY <1>4, MainOrderFrame DEF AppendPacket, replayer, results
<1>5. CASE Notify
  BY <1>5, MainOrderFrame DEF Notify, Notified, packets, replayer, results
<1>6. CASE CompleteQuery
  BY <1>6, MainOrderFrame DEF CompleteQuery, Completed, replayer, results
<1>7. CASE CompleteEof
  BY <1>7, MainOrderFrame DEF CompleteEof, Completed, replayer, results
<1>8. CASE CompleteOther
  BY <1>8, MainOrderFrame DEF CompleteOther, Completed, replayer, results
<1>9. CASE EndLock
  BY <1>9, MainOrderFrame DEF EndLock, packets, replayer, results
<1>10. CASE EndFlag
  BY <1>10, MainOrderFrame DEF EndFlag, Notified, packets, replayer, results
<1>11. CASE JoinAndDelete
  BY <1>11, MainOrderFrame DEF JoinAndDelete, replayer, results
<1>12. CASE JoinAtFinish
  BY <1>12, MainOrderFrame DEF JoinAtFinish, packets, replayer, results
<1>13. CASE PrintSlowQueries
  BY <1>13, MainOrderFrame DEF PrintSlowQueries, packets, replayer, results
<1>14. CASE DestroySlowQueries
  BY <1>14, MainOrderFrame DEF DestroySlowQueries, replayer, results
<1>15. CASE DestroyStreams
  <2>1. rpc \in {"none", "done"}
    BY <1>15 DEF IInv, IControl, DestroyStreams
  <2>2. QED BY <1>15, <2>1, MainOrderFrame DEF DestroyStreams, replayer, results
<1>16. QED
  BY <1>1, <1>2, <1>3, <1>4, <1>5, <1>6, <1>7, <1>8, <1>9, <1>10, <1>11, <1>12,
     <1>13, <1>14, <1>15 DEF MainActions

(* A thread that finds its first packet is at the first one of the stream. *)
LEMMA StartOrder ==
  ASSUME IInv, IOrder, Start
  PROVE  IOrder'
<1>1. /\ UNCHANGED <<n, kind, born, tried, mpc, site>> /\ rpc = "start"
      /\ rpc' \in {"done", "query"}
  BY DEF Start, packets, results
<1>2. Latest' = Latest BY <1>1 DEF Latest
<1>3. \A i \in Pkt : Tried(i)' <=> Tried(i) BY <1>1 DEF Tried
<1>4. site' = "loop" BY <1>1 DEF IOrder, ISite, Waiting
<1>5. /\ ~AtDone' /\ rpc' # "start" /\ rpc' \notin Waiting \cup {"exec"}
      /\ AtNew' => rpc' = "query"
      /\ Active' => rpc' = "query"
  BY <1>1 DEF AtDone, AtNew, Active, Waiting
<1>6. rpc' = "query" => p' = born
  <2>1. SUFFICES ASSUME rpc' = "query" PROVE p' = born
    OBVIOUS
  <2>2. PICK i \in linked : IsFirst(i) /\ p' = i BY <2>1 DEF Start
  <2>3. /\ i \in Int /\ i <= Latest /\ born <= i /\ born \in Int /\ Latest \in Int
        /\ born .. Latest \subseteq linked
    BY <1>1, <2>2 DEF IInv, IPkts, IRange, IControl, IPointers, Latest, Pkt
  <2>4. born \in linked BY <2>3
  <2>5. QED BY <2>2, <2>3, <2>4 DEF IsFirst
<1>7. ITried'
  BY <1>1, <1>2, <1>3, <1>5, <1>6 DEF IOrder, ITried
<1>8. NoQuerySkipped'
  BY <1>1 DEF IOrder, IPassed, NoQuerySkipped, Tried
<1>9. IPassed'
  <2>1. Active' => \A j \in born' .. p' - 1 : FALSE
    BY <1>1, <1>5, <1>6 DEF IInv, IPkts
  <2>2. QED BY <1>5, <1>8, <2>1 DEF IPassed
<1>10. ISite' /\ IGather' BY <1>4, <1>5 DEF ISite, IGather
<1>11. QED BY <1>7, <1>9, <1>10 DEF IOrder

LEMMA LookOrder ==
  ASSUME IInv, IOrder, Look
  PROVE  IOrder'
<1>1. /\ UNCHANGED <<n, kind, born, tried, mpc, p>> /\ rpc = "query"
      /\ p \in Pkt
  BY DEF Look, packets, results, IInv, IPkts, IPointers, Active
<1>2. Latest' = Latest BY <1>1 DEF Latest
<1>3. \A i \in Pkt : Tried(i)' <=> Tried(i) BY <1>1 DEF Tried
<1>4. AtNew /\ Active BY <1>1 DEF AtNew, Active
<1>5. /\ \A i \in Pkt : Tried(i) => i <= Latest /\ i < p
      /\ \A j \in born .. p - 1 : kind[j] \in QueryKinds => Tried(j)
  BY <1>4 DEF IOrder, ITried, IPassed
<1>6. \/ rpc' = "wait" /\ site' = "gather" /\ cur' = p /\ kind[p] = "BigQuery"
      \/ rpc' = "exec" /\ site' = "loop" /\ cur' = p /\ kind[p] = "Query"
      \/ rpc' = "scan" /\ site' = "loop" /\ kind[p] \notin QueryKinds
  BY DEF Look, QueryKinds
<1>7. ITried'
  <2>1. \A i \in Pkt : Tried(i)' => i < p' /\ i <= p'
    BY <1>1, <1>3, <1>5 DEF Pkt
  <2>2. \A i \in Pkt : Tried(i)' => i <= Latest'
    BY <1>2, <1>3, <1>5
  <2>3. QED BY <1>6, <2>1, <2>2 DEF ITried
<1>8. IPassed'
  <2>1. NoQuerySkipped' BY <1>1 DEF IOrder, IPassed, NoQuerySkipped, Tried
  <2>2. AtDone' => kind[p] \notin QueryKinds BY <1>6 DEF AtDone, Waiting
  <2>3. \A j \in born' .. p' - 1 : kind'[j] \in QueryKinds => Tried(j)'
    BY <1>1, <1>5 DEF Tried
  <2>4. QED BY <1>1, <2>1, <2>2, <2>3 DEF IPassed
<1>9. ISite' BY <1>6 DEF ISite, Waiting
<1>10. IGather'
  <2>1. \A i \in p .. p : i = p BY <1>1 DEF Pkt
  <2>2. QED BY <1>1, <1>6, <2>1 DEF IGather, Waiting, Big, QueryKinds
<1>11. QED BY <1>7, <1>8, <1>9, <1>10 DEF IOrder

(* Another packet of a long query.                                         *)
LEMMA GatherNextOrder ==
  ASSUME IInv, IOrder, GatherNext
  PROVE  IOrder'
<1>1. /\ UNCHANGED <<n, kind, born, tried, mpc, p, site>>
      /\ rpc = "check" /\ site = "gather" /\ AtNew /\ ~AtDone /\ Active
  BY DEF GatherNext, packets, results, AtNew, AtDone, Active, Waiting
<1>2. PICK j \in linked : Follows(cur, j) /\ cur' = j
                          /\ rpc' = IF kind[j] \in Big THEN "wait" ELSE "exec"
  BY DEF GatherNext
<1>3. /\ p \in Pkt /\ cur \in Pkt /\ j \in Pkt /\ Latest \in Int
      /\ cur \in p .. Latest /\ j <= Latest /\ p .. Latest \subseteq linked
  <2>1. cur \in p .. Latest /\ p \in linked /\ p .. Latest \subseteq linked
    BY <1>1 DEF IInv, IPointers, Waiting
  <2>2. QED BY <2>1, <1>2 DEF IInv, IPkts, IRange, Latest
<1>4. j = cur + 1
  <2>1. cur < j /\ \A k \in linked : cur < k => j <= k BY <1>2 DEF Follows
  <2>2. cur + 1 \in p .. Latest BY <1>3, <2>1 DEF Pkt
  <2>3. cur + 1 \in linked BY <1>3, <2>2
  <2>4. QED BY <1>3, <2>1, <2>3 DEF Pkt
<1>5. kind[p] = "BigQuery" /\ \A i \in p .. cur : kind[i] \in Big
  BY <1>1 DEF IOrder, IGather, Waiting
<1>6. rpc' \in {"wait", "exec"} /\ AtNew' /\ ~AtDone' /\ Active'
  BY <1>1, <1>2 DEF AtNew, AtDone, Active, Waiting
<1>7. Latest' = Latest BY <1>1 DEF Latest
<1>8. ITried'
  BY <1>1, <1>6, <1>7 DEF IOrder, ITried, Tried
<1>9. IPassed'
  <2>1. NoQuerySkipped' BY <1>1 DEF IOrder, IPassed, NoQuerySkipped, Tried
  <2>2. \A i \in born' .. p' - 1 : kind'[i] \in QueryKinds => Tried(i)'
    BY <1>1 DEF IOrder, IPassed, Tried
  <2>3. QED BY <1>6, <2>1, <2>2 DEF IPassed
<1>10. ISite' BY <1>6 DEF ISite, Waiting
<1>11. IGather'
  <2>1. CASE kind[j] \in Big
    <3>1. rpc' = "wait" BY <1>2, <2>1
    <3>2. \A i \in p .. j : i = j \/ i \in p .. cur
      BY <1>3, <1>4 DEF Pkt
    <3>3. \A i \in p .. j : kind[i] \in Big BY <1>5, <2>1, <3>2
    <3>4. QED BY <1>1, <1>2, <1>5, <3>1, <3>3 DEF IGather
  <2>2. CASE kind[j] \notin Big
    <3>1. rpc' = "exec" BY <1>2, <2>2
    <3>2. \A i \in p .. j - 1 : i \in p .. cur
      BY <1>3, <1>4 DEF Pkt
    <3>3. \A i \in p .. j - 1 : kind[i] \in Big BY <1>5, <3>2
    <3>4. p < j BY <1>3, <1>4 DEF Pkt
    <3>5. QED BY <1>1, <1>2, <2>2, <3>1, <3>3, <3>4 DEF IGather, Waiting
  <2>3. QED BY <2>1, <2>2
<1>12. QED BY <1>8, <1>9, <1>10, <1>11 DEF IOrder

LEMMA ScanEmptyOrder ==
  ASSUME IInv, IOrder, ScanEmpty
  PROVE  IOrder'
<1>1. /\ UNCHANGED <<n, kind, born, tried, mpc, p, site>>
      /\ rpc = "scan" /\ rpc' = "wait" /\ site = "loop"
  BY DEF ScanEmpty, packets, results, IOrder, ISite, Waiting
<1>2. AtDone /\ AtDone' /\ ~AtNew' /\ Active
  BY <1>1 DEF AtDone, AtNew, Active, Waiting
<1>3. Latest' = Latest BY <1>1 DEF Latest
<1>4. ITried' BY <1>1, <1>2, <1>3 DEF IOrder, ITried, Tried
<1>5. IPassed' BY <1>1, <1>2 DEF IOrder, IPassed, NoQuerySkipped, Tried
<1>6. ISite' /\ IGather' BY <1>1 DEF ISite, IGather
<1>7. QED BY <1>4, <1>5, <1>6 DEF IOrder

LEMMA LoopEndsOrder ==
  ASSUME IInv, IOrder, LoopEnds
  PROVE  IOrder'
<1>1. /\ UNCHANGED <<n, kind, born, tried, mpc, site>>
      /\ rpc' = "done" /\ site = "loop"
  BY DEF LoopEnds, packets, results
<1>2. ~AtDone' /\ ~AtNew' /\ ~Active' /\ rpc' \notin Waiting
  BY <1>1 DEF AtDone, AtNew, Active, Waiting
<1>3. Latest' = Latest BY <1>1 DEF Latest
<1>4. ITried' BY <1>1, <1>2, <1>3 DEF IOrder, ITried, Tried
<1>5. IPassed' BY <1>1, <1>2 DEF IOrder, IPassed, NoQuerySkipped, Tried
<1>6. ISite' /\ IGather' BY <1>1, <1>2 DEF ISite, IGather
<1>7. QED BY <1>4, <1>5, <1>6 DEF IOrder

(* Waiting, waking and unlinking leave the thread at its packet.           *)
LEMMA WaitingKeepsOrder ==
  ASSUME IInv, IOrder, UNCHANGED <<n, kind, tried, born, p, cur, site, mpc>>,
         \/ rpc \in Waiting /\ rpc' \in Waiting
         \/ rpc = "relink" /\ rpc' = "relock"
         \/ rpc = "relock" /\ rpc' = "query"
         \/ rpc' = rpc
  PROVE  IOrder'
<1>1. Latest' = Latest BY DEF Latest
<1>2. /\ AtNew' => AtNew
      /\ AtDone' => AtDone
      /\ Active' => Active
      /\ rpc' = "start" => rpc = "start"
      /\ rpc' = "exec" => rpc = "exec"
  BY DEF AtNew, AtDone, Active, Waiting
<1>3. rpc' \in Waiting /\ site' = "gather" => rpc \in Waiting /\ site = "gather"
  BY DEF Waiting
<1>4. ISite' BY DEF IOrder, ISite, Waiting
<1>5. QED BY <1>1, <1>2, <1>3, <1>4, OrderFrame

LEMMA ReplayKeepsOrder ==
  ASSUME IInv, IOrder, ReplayActions
  PROVE  IOrder'
<1>1. CASE ConnectFails
  BY <1>1, TryKeeps DEF ConnectFails, packets, AtNew, Active
<1>2. CASE RunQuery
  BY <1>2, TryKeeps DEF RunQuery, packets, AtNew, Active
<1>3. CASE GatherGivesUp
  BY <1>3, TryKeeps DEF GatherGivesUp, packets, AtNew, Active, Waiting
<1>4. CASE ScanNext
  <2>1. site = "loop" /\ AtDone /\ Active
    BY <1>4 DEF ScanNext, IOrder, ISite, Waiting, AtDone, Active
  <2>2. QED BY <1>4, <2>1, AdvanceKeeps DEF ScanNext, results
<1>5. CASE LoopAdvances
  <2>1. AtDone /\ Active
    BY <1>5 DEF LoopAdvances, Waiting, AtDone, Active
  <2>2. QED BY <1>5, <2>1, AdvanceKeeps DEF LoopAdvances, packets, results
<1>6. CASE TakeEofLock
  BY <1>6, WaitingKeepsOrder DEF TakeEofLock, packets, replayer, results, Waiting
<1>7. CASE CheckParks
  BY <1>7, WaitingKeepsOrder DEF CheckParks, packets, replayer, results, Waiting
<1>8. CASE Park
  BY <1>8, WaitingKeepsOrder DEF Park, packets, replayer, results, Waiting
<1>9. CASE Relink
  BY <1>9, WaitingKeepsOrder DEF Relink, results
<1>10. CASE Relock
  BY <1>10, WaitingKeepsOrder DEF Relock, packets, replayer, results
<1>11. QED
  BY <1>1, <1>2, <1>3, <1>4, <1>5, <1>6, <1>7, <1>8, <1>9, <1>10,
     StartOrder, LookOrder, GatherNextOrder, ScanEmptyOrder, LoopEndsOrder
  DEF ReplayActions

LEMMA StepKeepsOrder ==
  ASSUME SafeKinds, IInv, IOrder, [Next]_vars
  PROVE  IOrder'
<1>1. CASE SpuriousWake
  BY <1>1, WaitingKeepsOrder DEF SpuriousWake, packets, replayer, results, Waiting
<1>2. CASE UNCHANGED vars
  BY <1>2, WaitingKeepsOrder DEF vars, packets, replayer, results
<1>3. QED
  BY <1>1, <1>2, MainKeepsOrder, ReplayKeepsOrder
  DEF Next, Terminated, MainStep, ReplayStep

LEMMA InitOrder == ASSUME Init PROVE IOrder
  BY DEF Init, IOrder, ITried, IPassed, ISite, IGather, AtNew, AtDone, Active,
         Waiting, Tried, NoQuerySkipped

LEMMA OrderInvariance == ASSUME SafeKinds PROVE Spec => [](IInv /\ IOrder)
<1>1. Init => IInv /\ IOrder BY InitHolds, InitOrder
<1>2. IInv /\ IOrder /\ [Next]_vars => (IInv /\ IOrder)'
  BY StepKeeps, StepKeepsOrder
<1>3. QED BY <1>1, <1>2, PTL DEF Spec

-----------------------------------------------------------------------------
(* What follows.                                                           *)

(* No query packet of a stream is passed over: run_replay calls db_query   *)
(* for every query before the last one it called it for.                   *)
THEOREM NoneSkipped == ASSUME SafeKinds PROVE Spec => []NoQuerySkipped
<1>1. IOrder => NoQuerySkipped BY DEF IOrder, IPassed
<1>2. QED BY <1>1, OrderInvariance, PTL

(* A query is sent only with all its packets, and they are all on the list.*)
THEOREM LargeWhole == ASSUME SafeKinds PROVE Spec => []GatheredWhole
<1>1. IInv /\ IOrder => GatheredWhole
  <2>1. SUFFICES ASSUME IInv, IOrder, rpc = "exec", kind[p] = "BigQuery"
                 PROVE  /\ cur \in linked /\ p < cur /\ kind[cur] \notin Big
                        /\ \A i \in p .. cur - 1 : i \in linked /\ kind[i] \in Big
    BY DEF GatheredWhole
  <2>2. /\ p \in linked /\ p .. Latest \subseteq linked /\ cur \in p .. Latest
        /\ p \in Int /\ Latest \in Int
    <3>1. p \in linked /\ p .. Latest \subseteq linked /\ cur \in p .. Latest
      BY <2>1 DEF IInv, IPointers, Active
    <3>2. QED BY <2>1, <3>1 DEF IInv, IPkts, Latest, Pkt
  <2>3. \A i \in p .. cur - 1 : i \in p .. Latest BY <2>2
  <2>4. QED BY <2>1, <2>2, <2>3 DEF IOrder, IGather
<1>2. QED BY <1>1, OrderInvariance, PTL

(* db_query is called for a packet once, and later for later packets.      *)
THEOREM RunsInOrder == ASSUME SafeKinds PROVE Spec => ReplaysInOrder
<1>1. IInv /\ IOrder /\ [Next]_vars =>
        [\A i \in Pkt : tried'[i] # tried[i] => \A j \in Pkt : Tried(j) => j < i]_vars
  <2>1. SUFFICES ASSUME IInv, IOrder, [Next]_vars,
                        NEW i \in Pkt, tried'[i] # tried[i], NEW j \in Pkt, Tried(j)
                 PROVE  j < i
    OBVIOUS
  <2>2. AtNew /\ i = p
    <3>1. CASE MainStep
      BY <2>1, <3>1
      DEF MainStep, MainActions, ReadPacket, ReadEnd, ReadEof, AppendPacket, Notify,
          CompleteQuery, CompleteEof, CompleteOther, Completed, EndLock, EndFlag,
          JoinAndDelete, JoinAtFinish, PrintSlowQueries, DestroySlowQueries,
          DestroyStreams, replayer, results
    <3>2. CASE ConnectFails \/ RunQuery \/ GatherGivesUp
      BY <2>1, <3>2
      DEF ConnectFails, RunQuery, GatherGivesUp, Count, AtNew, Waiting, IInv, ILocals
    <3>3. CASE Start \/ Look \/ ScanNext \/ ScanEmpty \/ TakeEofLock \/ CheckParks
               \/ Park \/ GatherNext \/ LoopEnds \/ LoopAdvances \/ Relink \/ Relock
      BY <2>1, <3>3
      DEF Start, Look, ScanNext, ScanEmpty, TakeEofLock, CheckParks, Park, GatherNext,
          LoopEnds, LoopAdvances, Relink, Relock, replayer, results
    <3>4. CASE SpuriousWake \/ UNCHANGED vars
      BY <2>1, <3>4 DEF SpuriousWake, vars, replayer, results
    <3>5. QED
      BY <2>1, <3>1, <3>2, <3>3, <3>4 DEF Next, Terminated, ReplayStep, ReplayActions
  <2>3. QED BY <2>1, <2>2 DEF IOrder, ITried
<1>2. QED BY <1>1, OrderInvariance, PTL DEF Spec, ReplaysInOrder

-----------------------------------------------------------------------------
(* The wait and the stop, which need no assumption on the kinds of packet. *)

(* The main thread's part of the handshake: it notifies after it linked a  *)
(* packet or set the flag, and no packet is linked otherwise.              *)
LEMMA MainKeepsWait ==
  ASSUME IWait, MainActions
  PROVE  IWait'
<1>1. ASSUME NEW k \in Kinds, ReadPacket(k) PROVE IWait'
  BY <1>1 DEF ReadPacket, NewStream, IWait, HasNext
<1>2. CASE ReadEnd \/ ReadEof \/ EndLock \/ JoinAtFinish \/ PrintSlowQueries
  BY <1>2
  DEF ReadEnd, ReadEof, EndLock, JoinAtFinish, PrintSlowQueries, packets, locks,
      replayer, IWait, HasNext
<1>3. CASE AppendPacket
  BY <1>3 DEF AppendPacket, replayer, IWait
<1>4. CASE Notify
  BY <1>4 DEF Notify, Notified, locks, IWait
<1>5. CASE CompleteQuery \/ CompleteEof \/ CompleteOther
  <2>1. /\ linked' \subseteq linked /\ mpc # "notify" /\ mpc' = "read"
        /\ UNCHANGED <<eof_lock, reached_eof, rpc, cur>>
    BY <1>5
    DEF CompleteQuery, CompleteEof, CompleteOther, Completed, UnlinkPkts, replayer
  <2>2. QED BY <2>1 DEF IWait, HasNext
<1>6. CASE EndFlag
  BY <1>6 DEF EndFlag, Notified, IWait
<1>7. CASE JoinAndDelete \/ DestroyStreams
  BY <1>7 DEF JoinAndDelete, DestroyStreams, locks, IWait
<1>8. CASE DestroySlowQueries
  BY <1>8 DEF DestroySlowQueries, locks, replayer, IWait, HasNext
<1>9. QED
  BY <1>1, <1>2, <1>3, <1>4, <1>5, <1>6, <1>7, <1>8 DEF MainActions

LEMMA ReplayKeepsWait ==
  ASSUME IWait, ReplayActions \/ SpuriousWake
  PROVE  IWait'
<1>1. CASE Start \/ Look \/ ConnectFails \/ RunQuery \/ ScanNext \/ ScanEmpty
           \/ Relink \/ Relock \/ SpuriousWake
  <2>1. Look => rpc' \in {"wait", "exec", "scan"} BY DEF Look
  <2>2. /\ UNCHANGED <<eof_lock, mpc>>
        /\ rpc \notin {"none", "done", "check", "park"}
        /\ rpc' \notin {"check", "park", "sleep"}
    BY <1>1, <2>1
    DEF Start, Look, ConnectFails, RunQuery, ScanNext, ScanEmpty, Relink, Relock,
        SpuriousWake, locks
  <2>3. QED BY <2>2 DEF IWait
<1>2. CASE TakeEofLock \/ GatherGivesUp \/ LoopEnds \/ LoopAdvances
  BY <1>2 DEF TakeEofLock, GatherGivesUp, LoopEnds, LoopAdvances, IWait
<1>3. CASE CheckParks
  BY <1>3 DEF CheckParks, packets, locks, replayer, IWait, HasNext
<1>4. CASE Park
  BY <1>4 DEF Park, packets, replayer, IWait, HasNext
<1>5. CASE GatherNext
  <2>1. rpc' \in {"wait", "exec"} BY <1>5 DEF GatherNext
  <2>2. QED BY <1>5, <2>1 DEF GatherNext, IWait
<1>6. QED BY <1>1, <1>2, <1>3, <1>4, <1>5 DEF ReplayActions

(* The replay thread never sleeps on a packet that has a next one, or past *)
(* the end of its stream, without a notify to come.                        *)
THEOREM WakeupsKept == Spec => []NoLostWakeup
<1>1. Init => IWait BY DEF Init, IWait
<1>2. IWait /\ [Next]_vars => IWait'
  <2>1. SUFFICES ASSUME IWait, [Next]_vars PROVE IWait' OBVIOUS
  <2>2. CASE UNCHANGED vars
    BY <2>1, <2>2 DEF vars, packets, locks, replayer, results, IWait, HasNext
  <2>3. QED
    BY <2>1, <2>2, MainKeepsWait, ReplayKeepsWait
    DEF Next, Terminated, MainStep, ReplayStep
<1>3. IWait => NoLostWakeup BY DEF IWait, NoLostWakeup
<1>4. QED BY <1>1, <1>2, <1>3, PTL DEF Spec

(* With assert_on_query_error the process is stopped with the first query  *)
(* that fails, and tries no other.                                         *)
IStop == AssertOnError /\ failed => aborted

THEOREM StopsOnFailure == Spec => FailStop
<1>1. Init => IStop BY DEF Init, IStop
<1>2. IStop /\ [Next]_vars => IStop' /\ [AssertOnError /\ failed => tried' = tried]_vars
  <2>1. SUFFICES ASSUME IStop, [Next]_vars
                 PROVE  IStop' /\ (AssertOnError /\ failed => tried' = tried)
    OBVIOUS
  <2>2. CASE MainStep
    <3>1. UNCHANGED results
      BY <2>2
      DEF MainStep, MainActions, ReadPacket, ReadEnd, ReadEof, AppendPacket, Notify,
          CompleteQuery, CompleteEof, CompleteOther, Completed, EndLock, EndFlag,
          JoinAndDelete, JoinAtFinish, PrintSlowQueries, DestroySlowQueries,
          DestroyStreams, replayer
    <3>2. QED BY <2>1, <3>1 DEF IStop, results
  <2>3. CASE ReplayStep /\ RunQuery
    BY <2>1, <2>3 DEF ReplayStep, RunQuery, Dies, IStop
  <2>4. CASE ReplayStep /\ ~RunQuery
    <3>1. UNCHANGED <<failed, aborted>> /\ ~aborted
      BY <2>4
      DEF ReplayStep, ReplayActions, Start, Look, ConnectFails, ScanNext, ScanEmpty,
          TakeEofLock, CheckParks, Park, GatherNext, GatherGivesUp, LoopEnds,
          LoopAdvances, Relink, Relock, replayer, results
    <3>2. QED BY <2>1, <3>1 DEF IStop
  <2>5. CASE SpuriousWake \/ UNCHANGED vars
    BY <2>1, <2>5 DEF SpuriousWake, vars, replayer, results, IStop
  <2>6. QED BY <2>1, <2>2, <2>3, <2>4, <2>5 DEF Next, Terminated
<1>3. QED BY <1>1, <1>2, PTL DEF Spec, FailStop

-----------------------------------------------------------------------------
(* The memory of the list.                                                 *)

(* A packet on the list has one reference, or two when it was registered.  *)
LEMMA LinkedRef ==
  ASSUME IInv, NEW i \in linked
  PROVE  /\ i \in Pkt /\ ref[i] \in {1, 2}
         /\ ref[i] = 2 <=> i \in slow_queries \cup evicted
  BY DEF IInv, IPkts, IRefs, RefCountAccounts, Counted

LEMMA ConsumedFrame ==
  ASSUME IInv, ConsumedAreUnlinked, UNCHANGED <<p, tmp>>,
         \A i \in linked' : i < p => i \in linked /\ (ref[i] = 2 => ref'[i] = 2),
         Active' => Active, rpc = "relink" => rpc' = "relink"
  PROVE  ConsumedAreUnlinked'
<1>1. SUFFICES ASSUME Active', NEW i \in linked', i < p
               PROVE  ref'[i] = 2 \/ (rpc' = "relink" /\ i = tmp)
  BY DEF ConsumedAreUnlinked, Active
<1>2. i \in linked /\ (ref[i] = 2 => ref'[i] = 2) BY <1>1
<1>3. ref[i] = 2 \/ (rpc = "relink" /\ i = tmp)
  BY <1>1, <1>2 DEF ConsumedAreUnlinked, Active
<1>4. QED BY <1>2, <1>3

LEMMA MainKeepsConsumed ==
  ASSUME SafeKinds, IInv, ConsumedAreUnlinked, MainActions
  PROVE  ConsumedAreUnlinked'
<1>1. CASE \E k \in Kinds : ReadPacket(k)
  BY <1>1 DEF ReadPacket, NewStream, results, ConsumedAreUnlinked
<1>2. CASE ReadEnd \/ ReadEof \/ EndLock \/ JoinAtFinish \/ PrintSlowQueries
  BY <1>2
  DEF ReadEnd, ReadEof, EndLock, JoinAtFinish, PrintSlowQueries, packets, replayer,
      ConsumedAreUnlinked
<1>3. CASE Notify \/ EndFlag
  BY <1>3 DEF Notify, EndFlag, Notified, packets, replayer, ConsumedAreUnlinked
<1>4. CASE AppendPacket
  <2>1. /\ UNCHANGED <<p, tmp, rpc>> /\ linked' = linked \cup {n}
        /\ ref' = [ref EXCEPT ![n] = @ + 1]
    BY <1>4 DEF AppendPacket, replayer
  <2>2. \A i \in linked : i \in Pkt /\ i <= n - 1
    BY <1>4 DEF AppendPacket, IInv, IPkts, IRange, Latest
  <2>3. Active => p \in linked BY DEF IInv, IPointers
  <2>4. Active => \A i \in linked' : i < p => i \in linked /\ i # n
    <3>1. SUFFICES ASSUME Active, NEW i \in linked', i < p
                   PROVE  i \in linked /\ i # n
      OBVIOUS
    <3>2. n \in Int /\ p \in Int /\ p <= n - 1
      <4>1. p \in linked BY <2>3, <3>1
      <4>2. p \in Pkt /\ p <= n - 1 BY <2>2, <4>1
      <4>3. n \in 0 .. MaxPkts BY DEF IInv, IPkts
      <4>4. QED BY <4>2, <4>3 DEF Pkt
    <3>3. i # n BY <3>1, <3>2
    <3>4. QED BY <2>1, <3>3
  <2>5. \A i \in linked : i # n => ref'[i] = ref[i]
    BY <2>1, <2>2 DEF IInv, IPkts
  <2>6. QED BY <2>1, <2>4, <2>5 DEF ConsumedAreUnlinked, Active
<1>5. CASE CompleteQuery
  BY <1>5 DEF CompleteQuery, Completed, replayer, ConsumedAreUnlinked
<1>6. CASE CompleteEof
  <2>1. /\ UNCHANGED <<p, tmp, rpc>> /\ linked' \subseteq linked
        /\ last_query # NULL
        /\ \A i \in Pkt : i \in linked' /\ i # last_query => ref'[i] = ref[i]
    BY <1>6 DEF CompleteEof, Completed, replayer
  <2>2. \A i \in linked' : ref[i] = 2 => i # last_query
    BY <2>1, LinkedRef DEF IInv, IRefs
  <2>3. \A i \in linked' : i \in Pkt /\ i \in linked
    BY <2>1 DEF IInv, IPkts
  <2>4. QED BY <2>1, <2>2, <2>3, ConsumedFrame DEF Active
<1>7. CASE CompleteOther
  <2>1. /\ UNCHANGED <<p, tmp, rpc>> /\ linked' \subseteq linked
        /\ \A i \in Pkt : i \in linked' => ref'[i] = ref[i]
    BY <1>7 DEF CompleteOther, UnlinkPkts, Completed, replayer
  <2>2. \A i \in linked' : i \in Pkt /\ i \in linked
    BY <2>1 DEF IInv, IPkts
  <2>3. QED BY <2>1, <2>2, ConsumedFrame DEF Active
<1>8. CASE JoinAndDelete \/ DestroyStreams
  BY <1>8 DEF JoinAndDelete, DestroyStreams, ConsumedAreUnlinked
<1>9. CASE DestroySlowQueries
  <2>1. rpc' \in {"none", "done"}
    BY <1>9 DEF DestroySlowQueries, IInv, IControl
  <2>2. QED BY <2>1 DEF ConsumedAreUnlinked
<1>10. QED
  BY <1>1, <1>2, <1>3, <1>4, <1>5, <1>6, <1>7, <1>8, <1>9 DEF MainActions

LEMMA ReplayKeepsConsumed ==
  ASSUME SafeKinds, IInv, ConsumedAreUnlinked, ReplayActions \/ SpuriousWake
  PROVE  ConsumedAreUnlinked'
<1>1. CASE Start
  <2>1. SUFFICES ASSUME Active', NEW i \in linked', i < p'
                 PROVE  FALSE
    BY DEF ConsumedAreUnlinked, Active
  <2>2. linked' = linked /\ \E k \in linked : IsFirst(k) /\ p' = k
    BY <1>1, <2>1 DEF Start, packets, Active
  <2>3. i \in Int /\ p' \in Int /\ p' <= i
    BY <2>1, <2>2 DEF IsFirst, IInv, IPkts, Pkt
  <2>4. QED BY <2>1, <2>3
<1>2. CASE Look \/ ConnectFails \/ RunQuery \/ ScanEmpty \/ TakeEofLock
           \/ CheckParks \/ Park \/ GatherNext \/ GatherGivesUp \/ Relock
           \/ SpuriousWake
  <2>1. /\ UNCHANGED <<p, linked, ref>> /\ Active /\ rpc # "relink"
    BY <1>2
    DEF Look, ConnectFails, RunQuery, ScanEmpty, TakeEofLock, CheckParks, Park,
        GatherNext, GatherGivesUp, Relock, SpuriousWake, packets, replayer, Active
  <2>2. QED BY <2>1 DEF ConsumedAreUnlinked, Active
<1>3. CASE ScanNext
  <2>1. PICK j \in linked : Follows(p, j) /\ p' = j
    BY <1>3 DEF ScanNext
  <2>2. ConsiderUnlink(p) /\ rpc = "scan" /\ p \in linked
    BY <1>3 DEF ScanNext, IInv, IPointers, Active
  <2>3. SUFFICES ASSUME NEW i \in linked', i < j PROVE ref'[i] = 2
    BY <2>1 DEF ConsumedAreUnlinked
  <2>4. i \in linked /\ (i = p => ref[p] # 1) /\ ref'[i] = ref[i]
    BY <2>2 DEF ConsiderUnlink, UnlinkPkts, IInv, IPkts
  <2>5. i = p \/ i < p
    BY <2>1, <2>2, <2>3, <2>4 DEF Follows, IInv, IPkts, Pkt
  <2>6. ref[i] \in {1, 2} BY <2>4, LinkedRef
  <2>7. CASE i = p BY <2>4, <2>6, <2>7
  <2>8. CASE i < p BY <2>2, <2>4, <2>8 DEF ConsumedAreUnlinked
  <2>9. QED BY <2>5, <2>7, <2>8
<1>4. CASE LoopEnds
  BY <1>4 DEF LoopEnds, ConsumedAreUnlinked
<1>5. CASE LoopAdvances
  <2>1. PICK j \in linked : Follows(p, j) /\ p' = j
    BY <1>5 DEF LoopAdvances
  <2>2. /\ rpc = "check" /\ rpc' = "relink" /\ tmp' = p /\ p \in linked
        /\ UNCHANGED <<linked, ref>>
    BY <1>5 DEF LoopAdvances, packets, IInv, IPointers, Active
  <2>3. SUFFICES ASSUME NEW i \in linked, i < j PROVE ref[i] = 2 \/ i = p
    BY <2>1, <2>2 DEF ConsumedAreUnlinked
  <2>4. i = p \/ i < p
    BY <2>1, <2>2, <2>3 DEF Follows, IInv, IPkts, Pkt
  <2>5. QED BY <2>2, <2>3, <2>4 DEF ConsumedAreUnlinked
<1>6. CASE Relink
  <2>1. ConsiderUnlink(tmp) /\ rpc = "relink" /\ rpc' = "relock" /\ p' = p
    BY <1>6 DEF Relink
  <2>2. SUFFICES ASSUME NEW i \in linked', i < p PROVE ref'[i] = 2
    BY <2>1 DEF ConsumedAreUnlinked
  <2>3. i \in linked /\ (i = tmp => ref[i] # 1) /\ ref'[i] = ref[i]
    BY <2>1 DEF ConsiderUnlink, UnlinkPkts, IInv, IPkts
  <2>4. ref[i] \in {1, 2} BY <2>3, LinkedRef
  <2>5. ref[i] = 2 \/ i = tmp
    BY <2>1, <2>2, <2>3 DEF ConsumedAreUnlinked
  <2>6. QED BY <2>3, <2>4, <2>5
<1>7. QED BY <1>1, <1>2, <1>3, <1>4, <1>5, <1>6 DEF ReplayActions

(* Behind the replay thread only packets the slow-query list marked stay   *)
(* on the list.                                                            *)
THEOREM PassedAreUnlinked == ASSUME SafeKinds PROVE Spec => []ConsumedAreUnlinked
<1>1. Init => IInv /\ ConsumedAreUnlinked
  BY InitHolds DEF Init, ConsumedAreUnlinked
<1>2. IInv /\ ConsumedAreUnlinked /\ [Next]_vars => (IInv /\ ConsumedAreUnlinked)'
  <2>1. SUFFICES ASSUME IInv, ConsumedAreUnlinked, [Next]_vars
                 PROVE  ConsumedAreUnlinked'
    BY StepKeeps
  <2>2. CASE UNCHANGED vars
    BY <2>1, <2>2 DEF vars, packets, replayer, results, ConsumedAreUnlinked
  <2>3. QED
    BY <2>1, <2>2, MainKeepsConsumed, ReplayKeepsConsumed
    DEF Next, Terminated, MainStep, ReplayStep
<1>3. QED BY <1>1, <1>2, PTL DEF Spec
=============================================================================
