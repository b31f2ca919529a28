------------------------------ MODULE QueryStats ------------------------------
(***************************************************************************)
(* The statistics of analysis mode: the key a query is counted under       *)
(* (get_query_key and Query_pattern::apply), the times per key             *)
(* (Query_stats, Query_pattern_stats) and per table (Table_stats).  Only   *)
(* operators; module Analysis holds the state.  Times are microseconds.    *)
(***************************************************************************)
EXTENDS Integers, Sequences, FiniteSetsExt

CONSTANTS
  Texts,     \* query texts
  TextLen,   \* [Texts -> Nat], query_len()
  Patterns,  \* a pattern is [Texts -> [out, key, len]]: what a substitution does
  Mentions   \* [Texts -> Seq([token, type])]: the parser's calls of handle_table

(* out is "match", "none" or "error"; key and len are those of the string  *)
(* a match makes.                                                          *)
KeyBuf == 1024      \* sizeof(lookup_key) in register_query
BufLen == KeyBuf - 1
Unset == 2147483647 \* PCRE2_UNSET, more than any length
DblMax == -1        \* DBL_MAX, more than any time

ASSUME StatsAssumption ==
  /\ TextLen \in [Texts -> 0 .. (Unset - 1)]
  /\ Patterns \in Seq([Texts -> [out : {"match", "none", "error"}, key : STRING, len : 0 .. (Unset - 1)]])
  /\ Mentions \in [Texts -> Seq([token : Seq(STRING), type : STRING])]

-----------------------------------------------------------------------------
(* pcre2_substitute writes the string it made, a copy of the text when     *)
(* nothing matches, and a zero after it.                                   *)
Needs(i, t) == 1 + IF Patterns[i][t].out = "match" THEN Patterns[i][t].len ELSE TextLen[t]

(* The length pattern i is called with.  A call sets it: to the length of  *)
(* what it wrote, or to PCRE2_UNSET when that did not fit.                 *)
Room(t) ==
  LET room[i \in 1 .. Len(Patterns)] ==
        IF i = 1 THEN BufLen
        ELSE IF Needs(i - 1, t) > room[i - 1] THEN Unset ELSE Needs(i - 1, t) - 1
  IN room

Fits(i, t) == Needs(i, t) <= Room(t)[i]
Throws(i, t) == Patterns[i][t].out = "error"

(* With PCRE2_UNSET everything fits, also what is longer than lookup_key:  *)
(* that is written beyond its end.                                         *)
Overruns(i, t) == Fits(i, t) /\ Needs(i, t) > KeyBuf
apply(i, t) == ~Throws(i, t) /\ Fits(i, t) /\ Patterns[i][t].out = "match"

(* The search ends at the first pattern that applies, throws or overruns   *)
(* lookup_key; the latter two end the program.  (A pattern that fails may  *)
(* have written before.)                                                   *)
Stops(t) == {i \in DOMAIN Patterns : apply(i, t) \/ Throws(i, t) \/ Overruns(i, t)}
KeyFails(t) ==
  {f \in {"died", "overrun"} :
     \E i \in Stops(t) : /\ \A j \in Stops(t) : i <= j
                        /\ IF f = "died" THEN Throws(i, t) ELSE Overruns(i, t)}

(* Otherwise the key is that of the first pattern that applies.            *)
Applying(t) == {i \in DOMAIN Patterns : apply(i, t)}
get_query_key_last(t) ==
  IF Applying(t) = {} THEN "" ELSE Patterns[Max(Applying(t))][t].key
get_query_key(t) ==
  IF Applying(t) = {} THEN "" ELSE Patterns[Min(Applying(t))][t].key

-----------------------------------------------------------------------------
EmptyFun == [k \in {} |-> 0]
NewStats == [n |-> 0, min |-> DblMax, max |-> 0, total |-> 0, times |-> <<>>]

(* A map with a value put under a key.                                     *)
Put(f, key, v) == [k \in DOMAIN f \cup {key} |-> IF k = key THEN v ELSE f[k]]

(* Query_pattern_stats::record_query                                       *)
IsLess(t, min) == min = DblMax \/ t < min
RecordTimeElse(s, t) ==
  [n |-> s.n + 1, min |-> IF IsLess(t, s.min) THEN t ELSE s.min,
   max |-> IF ~IsLess(t, s.min) /\ t > s.max THEN t ELSE s.max,
   total |-> s.total + t, times |-> Append(s.times, t)]
RecordTime(s, t) ==
  [n |-> s.n + 1, min |-> IF IsLess(t, s.min) THEN t ELSE s.min,
   max |-> IF t > s.max THEN t ELSE s.max,
   total |-> s.total + t, times |-> Append(s.times, t)]

(* Query_stats::record_query, on the map of its lookup.                    *)
record_query(lookup, key, t) ==
  Put(lookup, key, RecordTime(IF key \in DOMAIN lookup THEN lookup[key] ELSE NewStats, t))

(* std::sort: the time at position i is one that fewer than i are below    *)
(* and at least i are not above.                                           *)
NotAbove(times, v) == Cardinality({j \in DOMAIN times : times[j] <= v})
Sorted(times) ==
  [i \in DOMAIN times |->
     CHOOSE v \in {times[j] : j \in DOMAIN times} : NotAbove(times, v - 1) < i /\ i <= NotAbove(times, v)]

(* get_pct_exec_time and get_median_exec_time on sorted times: positions   *)
(* from 0.  The median is doubled, it may lie between two times.           *)
PctPosNoMinusOne(n, pct) ==
  LET p == (n * pct) \div 100
  IN IF p <= 0 THEN 0 ELSE IF p >= n THEN n - 1 ELSE p
PctPos(n, pct) ==
  LET p == (n * pct) \div 100 - 1
  IN IF p <= 0 THEN 0 ELSE IF p >= n THEN n - 1 ELSE p
get_pct_exec_time(times, pct) == times[PctPos(Len(times), pct) + 1]
Median2(times) ==
  LET h == Len(times) \div 2
  IN IF Len(times) % 2 = 1 THEN 2 * times[h + 1] ELSE times[h + 1] + times[h]

(* What print writes for a key, after finalize has sorted the times.       *)
PrintedStats(s) ==
  LET sorted == Sorted(s.times)
  IN [n |-> s.n, min |-> s.min, max |-> s.max, total |-> s.total,
      median2 |-> Median2(sorted), pct95 |-> get_pct_exec_time(sorted, 95)]

-----------------------------------------------------------------------------
(* A token is a sequence of parts: a word of table characters that starts  *)
(* with a letter, or "-" for characters no name starts with.  update_table *)
(* takes the first word.                                                   *)
TableName(token) ==
  LET words == SelectSeq(token, LAMBDA part : part # "-")
  IN IF words = <<>> THEN "" ELSE words[1]

(* Table_query_info::register_query and Table_query_entry::update.         *)
UpdateEntry(e, t) ==
  [n |-> e.n + 1, min |-> IF t < e.min THEN t ELSE e.min, max |-> IF t > e.max THEN t ELSE e.max,
   total |-> e.total + t]
UpdateTable(stats, m, t) ==
  LET k == <<TableName(m.token), m.type>>
  IN Put(stats, k, IF k \in DOMAIN stats THEN UpdateEntry(stats[k], t)
                   ELSE [n |-> 1, min |-> t, max |-> t, total |-> t])

(* update_from_query: one update per call of the parser, also when the     *)
(* text does not parse to its end.                                         *)
update_from_query(stats, text, t) ==
  LET done[i \in 0 .. Len(Mentions[text])] ==
        IF i = 0 THEN stats ELSE UpdateTable(done[i - 1], Mentions[text][i], t)
  IN done[Len(Mentions[text])]
=============================================================================
