---------------------------- MODULE ReplayStream ----------------------------
(***************************************************************************)
(* One Mysql_stream in run mode (info->do_run): the main thread feeds the  *)
(* packets of one key to the stream (process_replay_file,                  *)
(* find_or_make_stream, append_packet, end_replay) while the stream's own  *)
(* thread runs the queries (run_replay, db_query).                         *)
(*                                                                         *)
(* Packets are numbered in the order they are appended.  The stream's      *)
(* doubly linked list is the set linked: it is always in append order, so  *)
(* p->next is the smallest larger member (module PacketList shows that the *)
(* pointers of the code implement this).  lock and eof_lock are the two    *)
(* mutexes; a critical section that blocks on nothing and reads nothing    *)
(* the other thread writes outside the same mutex is one step.             *)
(***************************************************************************)
EXTENDS Integers, FiniteSets

CONSTANTS
  MaxPkts,       \* bound: packets in the replay file for this key
  Kinds,         \* the kinds of packet the file holds
  NSlow,         \* info->n_slow_queries
  Connect,       \* what db_connect may come to
  Results,       \* what mysql_real_query may come to
  AssertOnError, \* info->assert_on_query_error
  IgnoreDup      \* info->ignore_dup_key_errors

Big        == {"BigQuery", "BigCont"}       \* len == PACKET_OVERFLOW_LEN
QueryKinds == {"Query", "BigQuery"}         \* Mysql_packet::is_query
AllKinds   == QueryKinds \cup {"Cont", "BigCont", "Eof", "Reply"}

ASSUME ReplayAssumption ==
  /\ MaxPkts \in Nat
  /\ Kinds \subseteq AllKinds
  /\ NSlow \in Nat
  /\ Connect \subseteq {"ok", "init", "ssl", "refused"} /\ Connect # {}
  /\ Results \subseteq {"ok", "error", "dup"} /\ "error" \in Results
  /\ AssertOnError \in BOOLEAN /\ IgnoreDup \in BOOLEAN

Pkt == 1 .. MaxPkts
NULL == 0

VARIABLES
  n,            \* packets read so far; packet n is the latest
  kind,         \* kind[i], the data of packet i the code looks at
  linked,       \* the packets on the stream's list
  ref,          \* ref_count of each packet
  freed,        \* packets that were deleted
  last_query,   \* Mysql_stream::last_query, or NULL
  slow_queries, \* Mysql_stream_manager::slow_queries
  evicted,      \* history: packets register_query dropped from slow_queries
  lock,         \* the stream's mutex: "free" or "main"
  eof_lock,     \* the second mutex: "free" or "replay"
  reached_eof,  \* set by end_replay
  mpc,          \* control of the main thread
  closing,      \* the main thread is in finish_replay
  rpc,          \* control of the replay thread, "none" when there is no stream
  site,         \* which wait on eof_cond: run_replay's or db_query's
  p, tmp, cur,  \* local pointers p and tmp of run_replay, cur_pkt of db_query
  con,          \* the MYSQL handle
  born,         \* history: first packet of the current stream object
  tried,        \* history: how often db_query was called for each packet
  failed,       \* history: the server refused a query with a real error
  aborted       \* the process was stopped by an assertion

packets  == <<n, kind, linked, ref, freed, last_query, slow_queries, evicted>>
locks    == <<lock, eof_lock, reached_eof>>
results  == <<tried, failed, aborted>>
replayer == <<site, p, tmp, cur, con, results>>
vars     == <<packets, locks, mpc, closing, rpc, replayer, born>>

-----------------------------------------------------------------------------
(* The list.  HasNext(i): i->next is not null.  Follows(i, j): i->next = j.*)

FollowsAny(i, j) == i \in linked /\ j \in linked /\ i < j

Follows(i, j) == /\ i \in linked /\ j \in linked /\ i < j
                 /\ \A k \in linked : i < k => j <= k

HasNext(i) == i \in linked /\ \E j \in linked : i < j

IsFirst(i) == i \in linked /\ \A j \in linked : i <= j

(* unlink_pkt of every packet of S: off the list, one reference less, and  *)
(* deleted when that was the last one.                                     *)
UnlinkPkts(S) == /\ linked' = linked \ S
                 /\ ref' = [i \in Pkt |-> IF i \in S THEN ref[i] - 1 ELSE ref[i]]
                 /\ freed' = freed \cup {i \in S : ref[i] = 1}

(* consider_unlink_pkt(tmp, true): in run mode a packet that someone else  *)
(* references stays on the list.                                           *)
ConsiderKeep(i) == UnlinkPkts({})

ConsiderUnlink(i) == UnlinkPkts({j \in {i} : ref[j] = 1})

(* eof_cond.notify_one(): the replay thread is the only waiter.            *)
Notified == IF rpc = "sleep" THEN "awake" ELSE rpc

Init ==
  /\ n = 0 /\ kind = [i \in Pkt |-> "none"]
  /\ linked = {} /\ ref = [i \in Pkt |-> 0] /\ freed = {}
  /\ last_query = NULL /\ slow_queries = {} /\ evicted = {}
  /\ lock = "free" /\ eof_lock = "free" /\ reached_eof = FALSE
  /\ mpc = "read" /\ closing = FALSE
  /\ rpc = "none" /\ site = "loop" /\ p = NULL /\ tmp = NULL /\ cur = NULL
  /\ con = "null"
  /\ born = 1 /\ tried = [i \in Pkt |-> 0] /\ failed = FALSE /\ aborted = FALSE

-----------------------------------------------------------------------------
(* The main thread.                                                        *)

(* The constructor, then start_replay.                                     *)
NewStreamDangling ==
  /\ rpc' = "start" /\ born' = n + 1
  /\ reached_eof' = FALSE /\ con' = "null" /\ UNCHANGED last_query

NewStream ==
  /\ rpc' = "start" /\ born' = n + 1
  /\ last_query' = NULL /\ reached_eof' = FALSE /\ con' = "null"

(* process_replay_file reads a record with data; find_or_make_stream finds *)
(* the stream or makes it and starts its thread.                           *)
ReadPacket(k) ==
  /\ mpc = "read" /\ n < MaxPkts
  /\ n' = n + 1 /\ kind' = [kind EXCEPT ![n + 1] = k]
  /\ mpc' = "append"
  /\ IF rpc = "none"
     THEN NewStream
     ELSE UNCHANGED <<rpc, born, last_query, reached_eof, con>>
  /\ UNCHANGED <<linked, ref, freed, slow_queries, evicted, lock, eof_lock,
                 closing, site, p, tmp, cur, results>>

(* An end-of-stream record.  (One for a key without a stream is skipped.)  *)
ReadEnd ==
  /\ mpc = "read" /\ rpc # "none"
  /\ mpc' = "end"
  /\ UNCHANGED <<packets, locks, closing, rpc, replayer, born>>

(* The end of the file, or a record cut short.                             *)
ReadEof ==
  /\ mpc = "read"
  /\ mpc' = "print"
  /\ UNCHANGED <<packets, locks, closing, rpc, replayer, born>>

(* append_packet takes lock, marks the reference and links the packet.     *)
AppendUncounted ==
  /\ mpc = "append" /\ lock = "free"
  /\ lock' = "main" /\ linked' = linked \cup {n}
  /\ mpc' = "notify"
  /\ UNCHANGED <<n, kind, ref, freed, last_query, slow_queries, evicted,
                 eof_lock, reached_eof, closing, rpc, replayer, born>>

AppendPacket ==
  /\ mpc = "append" /\ lock = "free"
  /\ lock' = "main"
  /\ linked' = linked \cup {n}
  /\ ref' = [ref EXCEPT ![n] = @ + 1]
  /\ mpc' = "notify"
  /\ UNCHANGED <<n, kind, freed, last_query, slow_queries, evicted,
                 eof_lock, reached_eof, closing, rpc, replayer, born>>

(* handle_packet_complete first wakes the replay thread under eof_lock.    *)
NotifyUnlocked ==
  /\ mpc = "notify"
  /\ rpc' = Notified /\ mpc' = "complete"
  /\ UNCHANGED <<packets, locks, closing, replayer, born>>

Notify ==
  /\ mpc = "notify" /\ eof_lock = "free"
  /\ rpc' = Notified
  /\ mpc' = "complete"
  /\ UNCHANGED <<packets, locks, closing, replayer, born>>

(* The rest of handle_packet_complete; append_packet then drops lock.      *)
Completed == /\ mpc' = "read" /\ lock' = "free"
             /\ UNCHANGED <<n, kind, eof_lock, reached_eof, closing, rpc,
                            replayer, born>>

CompleteQuery ==
  /\ mpc = "complete" /\ kind[n] \in QueryKinds
  /\ last_query' = n
  /\ UNCHANGED <<linked, ref, freed, slow_queries, evicted>>
  /\ Completed

(* register_query: the query joins the slow list, and when the list is now *)
(* too long its last element leaves it.  Which one that is depends on the  *)
(* recorded times, so it may be any.  consider_unlink_pkt does nothing for *)
(* it in run mode: its reference is not given back.                        *)
RegisterQuery ==
  LET slow == slow_queries \cup {last_query}
  IN IF Cardinality(slow) > NSlow
     THEN \E e \in slow : /\ slow_queries' = slow \ {e}
                          /\ evicted' = evicted \cup {e}
     ELSE slow_queries' = slow /\ UNCHANGED evicted

(* The EOF of the query's result.  assert(last_query->next) is a guard: the*)
(* program stops where it fails.  Everything between the query and this    *)
(* packet is unlinked; the query and the EOF stay (run mode).              *)
CompleteEofUncounted ==
  /\ mpc = "complete" /\ kind[n] = "Eof" /\ last_query # NULL
  /\ HasNext(last_query)
  /\ RegisterQuery
  /\ UnlinkPkts({i \in linked : last_query < i /\ i < n})
  /\ last_query' = NULL
  /\ Completed

CompleteEof ==
  /\ mpc = "complete" /\ kind[n] = "Eof" /\ last_query # NULL
  /\ HasNext(last_query)
  /\ RegisterQuery
  /\ LET S == {i \in linked : last_query < i /\ i < n}
     IN /\ linked' = linked \ S
        /\ ref' = [i \in Pkt |-> IF i = last_query THEN ref[i] + 1
                                 ELSE IF i \in S THEN ref[i] - 1 ELSE ref[i]]
        /\ freed' = freed \cup {i \in S : ref[i] = 1}
  /\ last_query' = NULL
  /\ Completed

(* Any other packet: a server packet that is no EOF is unlinked, the rest  *)
(* stays.                                                                  *)
CompleteOther ==
  /\ mpc = "complete" /\ kind[n] \notin QueryKinds
  /\ kind[n] = "Eof" => last_query = NULL
  /\ UnlinkPkts({i \in {n} : kind[i] = "Reply"})
  /\ UNCHANGED <<last_query, slow_queries, evicted>>
  /\ Completed

(* end_replay: lock, then eof_lock, set the flag, wake, drop both, join.   *)
EndLock ==
  /\ mpc = "end" /\ lock = "free"
  /\ lock' = "main" /\ mpc' = "flag"
  /\ UNCHANGED <<packets, eof_lock, reached_eof, closing, rpc, replayer, born>>

EndFlagSilently ==
  /\ mpc = "flag" /\ eof_lock = "free"
  /\ reached_eof' = TRUE /\ lock' = "free" /\ mpc' = "join"
  /\ UNCHANGED <<packets, eof_lock, closing, rpc, replayer, born>>

EndFlag ==
  /\ mpc = "flag" /\ eof_lock = "free"
  /\ reached_eof' = TRUE /\ rpc' = Notified
  /\ lock' = "free" /\ mpc' = "join"
  /\ UNCHANGED <<packets, eof_lock, closing, replayer, born>>

(* The join returns.  For an end record the stream is deleted with all its *)
(* packets; finish_replay leaves the stream to the manager's cleanup.      *)
CleanupForgets == linked' = {} /\ UNCHANGED <<ref, freed>>

StreamCleanup == UnlinkPkts(linked)

JoinAndDelete ==
  /\ mpc = "join" /\ rpc = "done" /\ ~closing
  /\ StreamCleanup
  /\ rpc' = "none" /\ mpc' = "read"
  /\ UNCHANGED <<n, kind, last_query, slow_queries, evicted, locks, closing,
                 replayer, born>>

JoinAtFinish ==
  /\ mpc = "join" /\ rpc = "done" /\ closing
  /\ mpc' = "destroy"
  /\ UNCHANGED <<packets, locks, closing, rpc, replayer, born>>

(* print_slow_queries reads the slow queries while the thread still runs;  *)
(* then finish_replay ends the stream that is left.                        *)
PrintSlowQueries ==
  /\ mpc = "print"
  /\ closing' = TRUE
  /\ mpc' = IF rpc = "none" THEN "destroy" ELSE "end"
  /\ UNCHANGED <<packets, locks, rpc, replayer, born>>

(* ~Mysql_stream_manager: the slow queries are deleted whatever their      *)
(* ref_count, then the streams are deleted.                                *)
DestroySlowQueries ==
  /\ mpc = "destroy"
  /\ ref' = [i \in Pkt |-> IF i \in slow_queries THEN ref[i] - 1 ELSE ref[i]]
  /\ freed' = freed \cup slow_queries
  /\ slow_queries' = {}
  /\ mpc' = "unmap"
  /\ UNCHANGED <<n, kind, linked, last_query, evicted, locks, closing, rpc,
                 replayer, born>>

DestroyStreams ==
  /\ mpc = "unmap"
  /\ StreamCleanup
  /\ rpc' = "none" /\ mpc' = "exit"
  /\ UNCHANGED <<n, kind, last_query, slow_queries, evicted, locks, closing,
                 replayer, born>>

MainActions ==
  \/ \E k \in Kinds : ReadPacket(k)
  \/ ReadEnd \/ ReadEof
  \/ AppendPacket \/ Notify
  \/ CompleteQuery \/ CompleteEof \/ CompleteOther
  \/ EndLock \/ EndFlag \/ JoinAndDelete \/ JoinAtFinish
  \/ PrintSlowQueries \/ DestroySlowQueries \/ DestroyStreams

MainStep == ~aborted /\ MainActions

-----------------------------------------------------------------------------
(* The replay thread.  A local pointer that is not read again is NULL.     *)

(* run_replay reads first; a thread that finds no packet yet ends.         *)
Start ==
  /\ rpc = "start" /\ lock = "free"
  /\ IF linked = {}
     THEN rpc' = "done" /\ con' = "null" /\ UNCHANGED p
     ELSE /\ \E i \in linked : IsFirst(i) /\ p' = i
          /\ rpc' = "query" /\ UNCHANGED con
  /\ UNCHANGED <<packets, locks, mpc, closing, site, tmp, cur, born, results>>

(* A query goes to db_query, which gathers the packets that continue one   *)
(* of maximal length; anything else is passed over.                        *)
Look ==
  /\ rpc = "query"
  /\ cur' = IF kind[p] \in QueryKinds THEN p ELSE NULL
  /\ rpc' = CASE kind[p] = "BigQuery" -> "wait"
              [] kind[p] = "Query" -> "exec"
              [] OTHER -> "scan"
  /\ site' = IF kind[p] = "BigQuery" THEN "gather" ELSE "loop"
  /\ UNCHANGED <<packets, locks, mpc, closing, p, tmp, con, born, results>>

(* A failed query ends the program when the options say so; a duplicate    *)
(* key can be tolerated.                                                   *)
IsFailure(r) == r = "error" \/ (r = "dup" /\ ~IgnoreDup)

DiesLate(r) == AssertOnError /\ IsFailure(r) /\ failed

Dies(r) == AssertOnError /\ IsFailure(r)

Count(i) == tried' = [tried EXCEPT ![i] = @ + 1]

(* db_ensure_connected fails: db_query returns at once.  An SSL error      *)
(* leaves a handle that was never connected.                               *)
ConnectFails ==
  /\ rpc = "exec" /\ con = "null"
  /\ \E c \in Connect \ {"ok"} :
        con' = IF c = "ssl" THEN "unconnected" ELSE "null"
  /\ Count(p) /\ UNCHANGED <<failed, aborted>>
  /\ rpc' = "scan" /\ cur' = NULL /\ site' = "loop"
  /\ UNCHANGED <<packets, locks, mpc, closing, p, tmp, born>>

(* The query is sent; a handle that was never connected only gives errors. *)
RunQuery ==
  /\ rpc = "exec"
  /\ con = "null" => "ok" \in Connect
  /\ \E r \in Results :
        /\ con = "unconnected" => r = "error"
        /\ failed' = (failed \/ IsFailure(r))
        /\ aborted' = Dies(r)
  /\ con' = IF con = "null" THEN "connected" ELSE con
  /\ Count(p)
  /\ rpc' = "scan" /\ cur' = NULL /\ site' = "loop"
  /\ UNCHANGED <<packets, locks, mpc, closing, p, tmp, born>>

(* run_replay, under lock: go on to the next packet if there is one.       *)
ScanUnlinksNext ==
  /\ rpc = "scan" /\ lock = "free" /\ HasNext(p)
  /\ \E j \in linked : Follows(p, j) /\ p' = j /\ ConsiderUnlink(j)
  /\ rpc' = "query"
  /\ UNCHANGED <<n, kind, last_query, slow_queries, evicted, locks, mpc,
                 closing, site, tmp, cur, con, born, results>>

ScanNext ==
  /\ rpc = "scan" /\ lock = "free" /\ HasNext(p)
  /\ \E j \in linked : Follows(p, j) /\ p' = j
  /\ ConsiderUnlink(p)
  /\ rpc' = "query"
  /\ UNCHANGED <<n, kind, last_query, slow_queries, evicted, locks, mpc,
                 closing, site, tmp, cur, con, born, results>>

ScanEmpty ==
  /\ rpc = "scan" /\ lock = "free" /\ ~HasNext(p)
  /\ rpc' = "wait" /\ cur' = p
  /\ UNCHANGED <<packets, locks, mpc, closing, site, p, tmp, con, born, results>>

(* Both waits: take eof_lock, test, sleep while there is neither a next    *)
(* packet nor an end.  Between the test and the sleep eof_lock is held.    *)
TakeEofLock ==
  /\ rpc \in {"wait", "awake"} /\ eof_lock = "free"
  /\ eof_lock' = "replay" /\ rpc' = "check"
  /\ UNCHANGED <<packets, lock, reached_eof, mpc, closing, replayer, born>>

CheckParks ==
  /\ rpc = "check" /\ ~HasNext(cur) /\ ~reached_eof
  /\ rpc' = "park"
  /\ UNCHANGED <<packets, locks, mpc, closing, replayer, born>>

Park ==
  /\ rpc = "park"
  /\ eof_lock' = "free" /\ rpc' = "sleep"
  /\ UNCHANGED <<packets, lock, reached_eof, mpc, closing, replayer, born>>

(* A condition variable may wake its waiter for no reason.                 *)
SpuriousWake ==
  /\ rpc = "sleep"
  /\ rpc' = "awake"
  /\ UNCHANGED <<packets, locks, mpc, closing, replayer, born>>

(* db_query's wait is over with a next packet: it is part of the query.    *)
GatherNextShort ==
  /\ rpc = "check" /\ site = "gather" /\ HasNext(cur)
  /\ \E j \in linked : Follows(cur, j) /\ cur' = j
  /\ eof_lock' = "free" /\ rpc' = "exec"
  /\ UNCHANGED <<packets, lock, reached_eof, mpc, closing, site, p, tmp, con,
                 born, results>>

GatherNext ==
  /\ rpc = "check" /\ site = "gather" /\ HasNext(cur)
  /\ \E j \in linked : /\ Follows(cur, j) /\ cur' = j
                       /\ rpc' = IF kind[j] \in Big THEN "wait" ELSE "exec"
  /\ eof_lock' = "free"
  /\ UNCHANGED <<packets, lock, reached_eof, mpc, closing, site, p, tmp, con,
                 born, results>>

(* ... or without one: the query is incomplete and is given up.            *)
GatherGivesUp ==
  /\ rpc = "check" /\ site = "gather"
  /\ ~HasNext(cur) /\ reached_eof
  /\ eof_lock' = "free" /\ cur' = NULL /\ site' = "loop" /\ rpc' = "scan"
  /\ Count(p)
  /\ UNCHANGED <<packets, lock, reached_eof, mpc, closing, p, tmp, con, born,
                 failed, aborted>>

(* run_replay's wait is over.  The end of the stream is looked at first,   *)
(* whether or not there is a next packet.                                  *)
LoopEnds ==
  /\ rpc = "check" /\ site = "loop" /\ reached_eof
  /\ eof_lock' = "free" /\ con' = "null" /\ rpc' = "done"
  /\ p' = NULL /\ cur' = NULL
  /\ UNCHANGED <<packets, lock, reached_eof, mpc, closing, site, tmp, born,
                 results>>

LoopStays ==
  /\ rpc = "check" /\ site = "loop" /\ HasNext(p) /\ ~reached_eof
  /\ tmp' = p /\ cur' = NULL
  /\ eof_lock' = "free" /\ rpc' = "relink"
  /\ UNCHANGED <<packets, lock, reached_eof, mpc, closing, site, p, con, born,
                 results>>

LoopAdvances ==
  /\ rpc = "check" /\ site = "loop" /\ HasNext(p) /\ ~reached_eof
  /\ tmp' = p /\ cur' = NULL
  /\ \E j \in linked : Follows(p, j) /\ p' = j
  /\ eof_lock' = "free" /\ rpc' = "relink"
  /\ UNCHANGED <<packets, lock, reached_eof, mpc, closing, site, con, born,
                 results>>

(* The packet left behind is unlinked under lock, with eof_lock released.  *)
Relink ==
  /\ rpc = "relink" /\ lock = "free"
  /\ ConsiderUnlink(tmp) /\ tmp' = NULL
  /\ rpc' = "relock"
  /\ UNCHANGED <<n, kind, last_query, slow_queries, evicted, locks, mpc,
                 closing, site, p, cur, con, results, born>>

(* eof_lock is taken again only for the unique_lock to release it.         *)
Relock ==
  /\ rpc = "relock" /\ eof_lock = "free"
  /\ rpc' = "query"
  /\ UNCHANGED <<packets, locks, mpc, closing, replayer, born>>

ReplayActions ==
  \/ Start \/ Look \/ ConnectFails \/ RunQuery \/ ScanNext \/ ScanEmpty
  \/ TakeEofLock \/ CheckParks \/ Park \/ GatherNext \/ GatherGivesUp
  \/ LoopEnds \/ LoopAdvances \/ Relink \/ Relock

ReplayStep == ~aborted /\ ReplayActions

-----------------------------------------------------------------------------
Ended == mpc = "exit" \/ aborted

Terminated == Ended /\ UNCHANGED vars

Next == MainStep \/ ReplayStep \/ (~aborted /\ SpuriousWake) \/ Terminated

(* Both threads are scheduled, and the main thread gets a mutex that is    *)
(* free again and again (it could otherwise lose it for ever to a replay   *)
(* thread that keeps waking for no reason).  No spurious wake-up is owed.  *)
Fairness == SF_vars(MainStep) /\ WF_vars(ReplayStep)

Spec == Init /\ [][Next]_vars /\ Fairness

-----------------------------------------------------------------------------
(* Every variable stays in its range; mark_ref's own assertion bounds the  *)
(* reference count (mysql_packet.h:28).                                    *)
TypeOK ==
  /\ n \in 0 .. MaxPkts
  /\ kind \in [Pkt -> Kinds \cup {"none"}]
  /\ linked \subseteq Pkt /\ freed \subseteq Pkt
  /\ ref \in [Pkt -> 0 .. 3]
  /\ last_query \in Pkt \cup {NULL}
  /\ slow_queries \subseteq Pkt /\ evicted \subseteq Pkt
  /\ lock \in {"free", "main"} /\ eof_lock \in {"free", "replay"}
  /\ reached_eof \in BOOLEAN /\ closing \in BOOLEAN
  /\ mpc \in {"read", "append", "notify", "complete", "end", "flag", "join",
              "print", "destroy", "unmap", "exit"}
  /\ rpc \in {"none", "start", "query", "exec", "scan", "wait", "check",
              "park", "sleep", "awake", "relink", "relock", "done"}
  /\ site \in {"loop", "gather"}
  /\ p \in Pkt \cup {NULL} /\ tmp \in Pkt \cup {NULL} /\ cur \in Pkt \cup {NULL}
  /\ con \in {"null", "unconnected", "connected"}
  /\ born \in 1 .. MaxPkts + 1
  /\ tried \in [Pkt -> Nat] /\ failed \in BOOLEAN /\ aborted \in BOOLEAN

Counted(b) == IF b THEN 1 ELSE 0

(* ref_count is the number of structures that hold the packet: the list,   *)
(* and register_query's mark, which an evicted query never loses.          *)
RefCountAccounts ==
  \A i \in Pkt : ref[i] = Counted(i \in linked)
                          + Counted(i \in slow_queries \cup evicted)

Waiting == {"wait", "check", "park", "sleep", "awake"}

(* Neither thread follows a pointer to a deleted packet: not the replay    *)
(* thread's p, tmp and cur_pkt, not the packets db_query copies from, and  *)
(* not last and last_query while the main thread completes a packet.  The  *)
(* walks of the destructors at the exit are not part of it (see            *)
(* FreedIsUnreferenced).                                                   *)
NoUseAfterFree ==
  /\ rpc \in Waiting \cup {"query", "exec", "scan", "relock"} => p \notin freed
  /\ rpc \in Waiting => cur \notin freed
  /\ rpc = "relink" => tmp \notin freed /\ p \notin freed
  /\ rpc = "exec" => \A i \in linked \cup freed : p <= i /\ i <= cur => i \notin freed
  /\ mpc \in {"notify", "complete"} => n \notin freed
  /\ mpc = "complete" /\ kind[n] = "Eof" => last_query \notin freed

(* A query of several packets is sent only once all of them are there: from*)
(* the query on, every packet but the last has maximal length, and all of  *)
(* them are still on the list to be copied.                                *)
GatheredWhole ==
  rpc = "exec" /\ kind[p] = "BigQuery" =>
     /\ cur \in linked /\ p < cur /\ kind[cur] \notin Big
     /\ \A i \in p .. cur - 1 : i \in linked /\ kind[i] \in Big

(* assert(last_query->next) in handle_packet_complete (mysql_stream.cc:435)*)
(* never fails: the EOF being completed comes after the query it answers,  *)
(* and the query is still there.                                           *)
LastQueryHasNext ==
  mpc = "complete" /\ kind[n] = "Eof" /\ last_query # NULL
    => last_query \notin freed /\ HasNext(last_query)

(* What print_slow_queries will read has not been deleted by the replay    *)
(* thread, which is still running when it reads it.                        *)
SlowQueriesAlive == slow_queries \cap freed = {}

(* The replay thread keeps memory bounded: a packet it has passed is off   *)
(* the list unless the slow-query list marked it (or its unlinking is the  *)
(* very next step).                                                        *)
ConsumedAreUnlinked ==
  rpc \notin {"none", "start", "done"} =>
     \A i \in linked : i < p => ref[i] = 2 \/ (rpc = "relink" /\ i = tmp)

(* A query the feeder put between two replayed ones is not skipped: every  *)
(* earlier query packet of the stream was tried before a later one.        *)
Tried(i) == tried[i] # 0

NoQuerySkipped ==
  \A i \in Pkt : Tried(i) /\ born <= i =>
     \A j \in born .. i - 1 : kind[j] \in QueryKinds => Tried(j)

(* Queries run at most once each and in capture order, across all streams  *)
(* the key ever had.                                                       *)
ReplaysInOrder ==
  [][\A i \in Pkt : tried'[i] # tried[i] =>
        \A j \in Pkt : Tried(j) => j < i]_vars

(* With assert_on_query_error no further query is tried after a failure.   *)
FailStop ==
  [][AssertOnError /\ failed => tried' = tried]_vars

(* At a normal exit every packet has been deleted, except the queries      *)
(* register_query evicted from the slow list: their mark is never undone.  *)
OnlyEvictedLeak ==
  mpc = "exit" => \A i \in 1 .. n : i \in freed \/ i \in evicted

(* The program ends: no join waits for ever, whatever the interleaving.    *)
ReplayEnds == <>Ended

(* A sleeping replay thread has nothing to do, unless the notify for the   *)
(* packet just linked is still to come: no wake-up falls between its test  *)
(* and its sleep.                                                          *)
NoLostWakeup ==
  rpc = "sleep" => ~reached_eof /\ (HasNext(cur) => mpc = "notify")

-----------------------------------------------------------------------------
(* Claims the code does not keep.                                          *)

(* "Run or Replay the captured queries" (mysqlpcap.cc:125): a replay thread*)
(* does not end before the feeder has said that its stream ends.           *)
EndsOnlyAtEof == rpc = "done" => reached_eof

(* The same promise at the other end: a thread that began to replay has    *)
(* tried every query on its stream's list when it ends.                    *)
EndDrainsQueue ==
  rpc = "done" /\ (\E i \in linked : Tried(i))
    => \A i \in linked : kind[i] \in QueryKinds => Tried(i)

(* ref_count is there "to prevent from freeing if referenced in another    *)
(* structer" (mysql_packet.h:11): a deleted packet is on no list.          *)
FreedIsUnreferenced == freed \cap (linked \cup slow_queries) = {}
=============================================================================
