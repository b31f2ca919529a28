----------------------------- MODULE StatsProofs -----------------------------
(***************************************************************************)
(* Proofs about the statistics of analysis mode: q_stats and table_stats   *)
(* are a recount of the queries registered, a query is counted under the   *)
(* key of the first pattern that matches it, and what is printed as the    *)
(* 95th percentile is one, for any patterns, texts, times and captures.    *)
(***************************************************************************)
EXTENDS AnalysisProofs, FunctionTheorems

-----------------------------------------------------------------------------
(* The lengths that a key is measured against are numbers.                 *)
LEMMA Lengths == Unset \in Nat /\ BufLen \in Nat
BY SMT DEF Unset, BufLen, KeyBuf

(* The pattern's results and lengths.                                      *)
LEMMA PatternFacts ==
  /\ Len(Patterns) \in Nat /\ DOMAIN Patterns = 1 .. Len(Patterns)
  /\ \A i \in DOMAIN Patterns, t \in Texts :
       /\ Patterns[i][t].out \in {"match", "none", "error"} /\ Patterns[i][t].len \in 0 .. (Unset - 1)
       /\ TextLen[t] \in 0 .. (Unset - 1) /\ Needs(i, t) \in 1 .. Unset
<1>1. Len(Patterns) \in Nat /\ DOMAIN Patterns = 1 .. Len(Patterns)
  BY StatsAssumption
<1>2. ASSUME NEW i \in DOMAIN Patterns, NEW t \in Texts
      PROVE  /\ Patterns[i][t].out \in {"match", "none", "error"} /\ Patterns[i][t].len \in 0 .. (Unset - 1)
             /\ TextLen[t] \in 0 .. (Unset - 1)
  BY <1>1, StatsAssumption
<1>3. ASSUME NEW i \in DOMAIN Patterns, NEW t \in Texts
      PROVE  Needs(i, t) \in 1 .. Unset
  BY <1>2, Lengths DEF Needs
<1> QED BY <1>1, <1>2, <1>3

(* The room that each pattern is called with is what the one before it     *)
(* left (get_query_key, Query_pattern::apply).                             *)
LEMMA RoomIs ==
  ASSUME NEW t \in Texts
  PROVE  /\ DOMAIN Room(t) = DOMAIN Patterns
         /\ \A i \in DOMAIN Patterns :
              Room(t)[i] = IF i = 1 THEN BufLen
                           ELSE IF Needs(i - 1, t) > Room(t)[i - 1] THEN Unset ELSE Needs(i - 1, t) - 1
<1> DEFINE n == Len(Patterns)
           After(i, v) == IF i = 1 THEN BufLen
                          ELSE IF Needs(i - 1, t) > v THEN Unset ELSE Needs(i - 1, t) - 1
           step == [i \in 1 .. n |-> [v \in Int |-> After(i, v)]]
<1>1. n \in Nat /\ DOMAIN Patterns = 1 .. n /\ 0 \in Int
  BY PatternFacts
<1>2. ASSUME NEW i \in 1 .. n, NEW v \in Int
      PROVE  After(i, v) \in Int
  <2>1. i # 1 => i - 1 \in DOMAIN Patterns
    BY <1>1
  <2>2. ASSUME i # 1
        PROVE  Needs(i - 1, t) \in Int
    <3>1. Needs(i - 1, t) \in 1 .. Unset
      BY <2>1, <2>2, PatternFacts
    <3> QED BY <3>1, Lengths
  <2> QED BY <2>2, Lengths
<1>3. step \in [1 .. n -> [Int -> Int]]
  <2> HIDE DEF n, After
  <2> QED BY <1>2
<1>4. PICK f \in [0 .. n -> Int] : Iterates(f, n, 0, step)
  <2>1. n \in Nat /\ 0 \in Int /\ step \in [1 .. n -> [Int -> Int]]
    BY <1>1, <1>3
  <2> HIDE DEF n, step
  <2> QED BY <2>1, Recursion
<1> DEFINE g == [i \in 1 .. n |-> f[i]]
<1>5. ASSUME NEW i \in 1 .. n
      PROVE  g[i] = After(i, g[i - 1])
  <2> HIDE DEF After
  <2>1. i - 1 \in 0 .. n /\ f[i - 1] \in Int
    BY SMTT(30), <1>1, <1>4
  <2>2. g[i] = After(i, f[i - 1])
    BY <2>1, <1>4 DEF Iterates
  <2>3. CASE i = 1
    BY <2>2, <2>3 DEF After
  <2>4. CASE i # 1
    <3>1. i - 1 \in 1 .. n
      BY <2>4, <1>1
    <3> QED BY <2>2, <3>1
  <2> QED BY <2>3, <2>4
<1>6. g = [i \in 1 .. n |-> After(i, g[i - 1])]
  <2> HIDE DEF After
  <2> QED BY <1>5
<1>7. Room(t) = CHOOSE room : room = [i \in 1 .. n |-> After(i, room[i - 1])]
  BY DEF Room
<1>8. Room(t) = [i \in 1 .. n |-> After(i, Room(t)[i - 1])]
  <2> HIDE DEF After, g
  <2> QED BY <1>6, <1>7
<1> HIDE DEF n
<1> QED BY <1>1, <1>8

(* A pattern that matches, after patterns that do not, and whose key is    *)
(* shorter than the text, gives the key (get_query_key).                   *)
FirstMatch(p, t) ==
  /\ p \in DOMAIN Patterns /\ Patterns[p][t].out = "match"
  /\ \A i \in DOMAIN Patterns : i < p => Patterns[i][t].out # "match"

LEMMA KeyOfFirst ==
  ASSUME NEW t \in Texts, NEW p, FirstMatch(p, t),
         Patterns[p][t].len < (IF p = 1 THEN BufLen ELSE TextLen[t])
  PROVE  get_query_key(t) = Patterns[p][t].key
<1>1. p \in 1 .. Len(Patterns) /\ Len(Patterns) \in Nat /\ p \in Nat
  BY PatternFacts DEF FirstMatch
<1>2. Needs(p, t) = 1 + Patterns[p][t].len
  BY DEF Needs, FirstMatch
<1>3. Patterns[p][t].len \in Nat /\ TextLen[t] \in 0 .. (Unset - 1)
  BY PatternFacts, Lengths DEF FirstMatch
<1>4. Fits(p, t)
  <2>1. CASE p = 1
    BY <1>2, <1>3, <2>1, RoomIs, Lengths DEF Fits, FirstMatch
  <2>2. CASE p # 1
    <3>1. p - 1 \in DOMAIN Patterns /\ p - 1 < p
      BY <1>1, <2>2, PatternFacts
    <3>2. Needs(p - 1, t) = 1 + TextLen[t]
      BY <3>1 DEF FirstMatch, Needs
    <3>3. Room(t)[p] = IF Needs(p - 1, t) > Room(t)[p - 1] THEN Unset ELSE Needs(p - 1, t) - 1
      BY <2>2, RoomIs DEF FirstMatch
    <3> QED BY <1>2, <1>3, <2>2, <3>2, <3>3, Lengths DEF Fits
  <2> QED BY <2>1, <2>2
<1>5. p \in Applying(t)
  BY <1>4 DEF Applying, apply, Throws, FirstMatch
<1>6. \A i \in Applying(t) : p <= i
  BY <1>1, PatternFacts DEF Applying, apply, FirstMatch
<1>7. \A x \in Applying(t) : x \in Nat
  BY PatternFacts DEF Applying
<1>8. \A x \in Applying(t) : (\A y \in Applying(t) : x <= y) => x = p
  BY <1>1, <1>5, <1>6, <1>7
<1>9. Min(Applying(t)) = p
  BY <1>5, <1>6, <1>8 DEF Min
<1> QED BY <1>5, <1>9 DEF get_query_key

(* A pattern is given more room than lookup_key has only when one before   *)
(* it was short of room (get_query_key, PCRE2_UNSET).                      *)
LEMMA OverrunIsLate ==
  ASSUME NEW t \in Texts, NEW i \in DOMAIN Patterns, Overruns(i, t)
  PROVE  \E j \in DOMAIN Patterns : j < i /\ ~Fits(j, t)
<1> DEFINE Late == {k \in DOMAIN Patterns : Overruns(k, t)}
<1>1. Late \in SUBSET Nat /\ Late # {}
  BY PatternFacts
<1>2. PICK m \in Late : \A k \in Late : m <= k
  BY <1>1, NatMin
<1>3. m \in DOMAIN Patterns /\ m \in 1 .. Len(Patterns) /\ Overruns(m, t) /\ m <= i
  BY <1>2, PatternFacts
<1>4. PICK need, room : need = Needs(m, t) /\ room = Room(t)[m] /\ need \in Nat
  BY <1>3, PatternFacts, Lengths
<1>5. need <= room /\ need > BufLen + 1
  BY <1>3, <1>4 DEF Overruns, Fits, BufLen, KeyBuf
<1>6. m # 1
  BY <1>3, <1>4, <1>5, RoomIs, Lengths
<1>7. m - 1 \in DOMAIN Patterns /\ m - 1 < m /\ i \in Nat
  BY <1>3, <1>6, PatternFacts
<1>8. ~Fits(m - 1, t)
  <2> SUFFICES ASSUME Fits(m - 1, t) PROVE FALSE
    OBVIOUS
  <2>1. PICK before, given : before = Needs(m - 1, t) /\ given = Room(t)[m - 1] /\ before \in Nat
    BY <1>7, PatternFacts, Lengths
  <2>2. room = IF before > given THEN Unset ELSE before - 1
    BY <1>3, <1>4, <1>6, <2>1, RoomIs
  <2>3. before <= given
    BY <2>1 DEF Fits
  <2>4. given \in Int
    <3>1. CASE m - 1 = 1
      BY <1>7, <2>1, <3>1, RoomIs, Lengths
    <3>2. CASE m - 1 # 1
      <4>1. m - 2 \in DOMAIN Patterns
        BY <1>3, <1>7, <3>2, PatternFacts
      <4>2. given = Unset \/ given = Needs(m - 2, t) - 1
        <5>1. m - 1 - 1 = m - 2
          BY <1>3
        <5> QED BY <1>7, <2>1, <3>2, <5>1, RoomIs
      <4> QED BY <4>1, <4>2, PatternFacts, Lengths
    <3> QED BY <3>1, <3>2
  <2>5. room = before - 1
    <3>1. ~(before > given)
      BY <2>1, <2>3, <2>4
    <3> QED BY <2>2, <3>1
  <2>6. Overruns(m - 1, t)
    <3>1. before > BufLen + 1
      <4>1. PICK b \in Nat, len \in Nat : b = before /\ len = BufLen
        BY <2>1, Lengths
      <4>2. need <= b - 1 /\ need > len + 1 /\ need \in Nat
        BY <1>4, <1>5, <2>5, <4>1
      <4> QED BY <4>1, <4>2
    <3> QED BY <2>1, <3>1 DEF Overruns, BufLen, KeyBuf
  <2>7. m <= m - 1
    BY <1>2, <1>7, <2>6
  <2> QED BY <1>3, <2>7
<1>9. m - 1 < i
  BY <1>3, <1>7
<1> QED BY <1>7, <1>8, <1>9
-----------------------------------------------------------------------------
(* The total of the times is a sum that grows by each time recorded.       *)
LEMMA SumIs ==
  ASSUME NEW times \in Seq(Nat)
  PROVE  \E f \in [0 .. Len(times) -> Nat] :
           /\ f[0] = 0 /\ \A i \in 1 .. Len(times) : f[i] = f[i - 1] + times[i]
           /\ SumOf(times) = f[Len(times)]
<1> DEFINE n == Len(times)
           step == [i \in 1 .. n |-> [v \in Nat |-> v + times[i]]]
           After(f) == [i \in 0 .. n |-> IF i = 0 THEN 0 ELSE f[i - 1] + times[i]]
<1>1. n \in Nat /\ 0 \in Nat /\ \A i \in 1 .. n : times[i] \in Nat
  OBVIOUS
<1>2. step \in [1 .. n -> [Nat -> Nat]]
  <2> HIDE DEF n
  <2> QED BY <1>1
<1>3. PICK f \in [0 .. n -> Nat] : Iterates(f, n, 0, step)
  <2> HIDE DEF n, step
  <2> QED BY <1>1, <1>2, Recursion
<1>4. f[0] = 0 /\ \A i \in 1 .. n : f[i] = f[i - 1] + times[i]
  <2>1. f[0] = 0 /\ \A i \in 1 .. n : f[i] = step[i][f[i - 1]] /\ f[i - 1] \in Nat
    <3> HIDE DEF step, n
    <3> QED BY <1>1, <1>3 DEF Iterates
  <2> HIDE DEF n
  <2> QED BY <1>1, <2>1
<1>5. f = After(f)
  <2> HIDE DEF n
  <2>1. \A i \in 0 .. n : f[i] = After(f)[i]
    BY <1>1, <1>4
  <2> QED BY <1>3, <2>1
<1>6. SumOf(times) = (CHOOSE g : g = After(g))[n]
  BY DEF SumOf
<1> DEFINE c == CHOOSE g : g = After(g)
<1>7. c = After(c)
  <2> HIDE DEF After
  <2> QED BY <1>5
<1>8. c[0] = 0 /\ \A i \in 1 .. n : c[i] = c[i - 1] + times[i]
  <2> HIDE DEF n, c
  <2>1. \A i \in 0 .. n : c[i] = IF i = 0 THEN 0 ELSE c[i - 1] + times[i]
    BY <1>7
  <2> QED BY <1>1, <2>1
<1>9. \A i \in 0 .. n : c[i] = f[i]
  <2> DEFINE P == {i \in 0 .. n : c[i] = f[i]}
  <2> HIDE DEF n, c
  <2>1. 0 \in P
    BY <1>1, <1>4, <1>8
  <2>2. \A i \in 1 .. n : i - 1 \in P => i \in P
    BY <1>1, <1>4, <1>8
  <2>3. \A i \in 0 .. n : i \in P
    <3> HIDE DEF P
    <3> QED BY <1>1, <2>1, <2>2, Induction
  <2> QED BY <2>3
<1>10. SumOf(times) = f[n]
  <2> HIDE DEF After
  <2> QED BY <1>1, <1>6, <1>9
<1> QED BY <1>3, <1>4, <1>10

LEMMA SumGrows ==
  ASSUME NEW times \in Seq(Nat), NEW t \in Nat
  PROVE  SumOf(Append(times, t)) = SumOf(times) + t
<1>1. PICK n \in Nat : n = Len(times)
  OBVIOUS
<1>2. PICK f \in [0 .. n -> Nat] :
        /\ f[0] = 0 /\ \A i \in 1 .. n : f[i] = f[i - 1] + times[i]
        /\ SumOf(times) = f[n]
  BY <1>1, SumIs
<1>3. PICK longer : longer = Append(times, t)
  OBVIOUS
<1>4. /\ longer \in Seq(Nat) /\ Len(longer) = n + 1 /\ longer[n + 1] = t
      /\ \A i \in 1 .. n : longer[i] = times[i]
  BY <1>1, <1>3
<1>5. PICK g \in [0 .. n + 1 -> Nat] :
        /\ g[0] = 0 /\ \A i \in 1 .. n + 1 : g[i] = g[i - 1] + longer[i]
        /\ SumOf(longer) = g[n + 1]
  BY <1>4, SumIs
<1>6. \A i \in 0 .. n : g[i] = f[i]
  <2> DEFINE P == {i \in 0 .. n : g[i] = f[i]}
  <2>1. 0 \in P
    BY <1>2, <1>5
  <2>2. \A i \in 1 .. n : i - 1 \in P => i \in P
    BY <1>2, <1>4, <1>5
  <2>3. \A i \in 0 .. n : i \in P
    <3> HIDE DEF P
    <3> QED BY <2>1, <2>2, Induction
  <2> QED BY <2>3
<1> QED BY <1>2, <1>3, <1>4, <1>5, <1>6

LEMMA SumOfNone == SumOf(<<>>) = 0
<1>1. <<>> \in Seq(Nat) /\ Len(<<>>) = 0
  OBVIOUS
<1> QED BY <1>1, SumIs
-----------------------------------------------------------------------------
(* The table statistics: a query counts once for each of its mentions.     *)
Entry == [n : Nat, min : Nat, max : Nat, total : Nat]
CountOf(stats, k) == IF k \in DOMAIN stats THEN stats[k].n ELSE 0
Updated(stats, R, m) ==
  /\ R \in [DOMAIN stats \cup {MentionKey(m)} -> Entry]
  /\ \A k \in DOMAIN R : R[k].n = CountOf(stats, k) + (IF k = MentionKey(m) THEN 1 ELSE 0)

LEMMA UpdateOne ==
  ASSUME NEW stats, stats \in [DOMAIN stats -> Entry], NEW m, NEW t \in Nat
  PROVE  Updated(stats, UpdateTable(stats, m, t), m)
<1>1. PICK k : k = MentionKey(m)
  OBVIOUS
<1>2. PICK e : e = IF k \in DOMAIN stats THEN UpdateEntry(stats[k], t)
                   ELSE [n |-> 1, min |-> t, max |-> t, total |-> t]
  OBVIOUS
<1>3. UpdateTable(stats, m, t) = Put(stats, k, e)
  BY <1>1, <1>2 DEF UpdateTable, MentionKey
<1>4. e \in Entry /\ e.n = CountOf(stats, k) + 1
  <2>1. CASE k \in DOMAIN stats
    <3>1. stats[k] \in Entry
      BY <2>1
    <3> QED BY <1>2, <2>1, <3>1 DEF UpdateEntry, Entry, CountOf
  <2>2. CASE k \notin DOMAIN stats
    BY <1>2, <2>2 DEF Entry, CountOf
  <2> QED BY <2>1, <2>2
<1>5. PICK R : R = Put(stats, k, e)
  OBVIOUS
<1>6. R \in [DOMAIN stats \cup {k} -> Entry] /\ R[k] = e /\ \A x \in DOMAIN stats \ {k} : R[x] = stats[x]
  BY <1>4, <1>5 DEF Put
<1>7. ASSUME NEW x \in DOMAIN R
      PROVE  R[x].n = CountOf(stats, x) + (IF x = k THEN 1 ELSE 0)
  <2>1. CASE x = k
    BY <1>4, <1>6, <2>1
  <2>2. CASE x # k
    <3>1. x \in DOMAIN stats /\ stats[x] \in Entry
      BY <1>6, <2>2
    <3> QED BY <1>6, <2>2, <3>1 DEF CountOf, Entry
  <2> QED BY <2>1, <2>2
<1> QED BY <1>1, <1>3, <1>5, <1>6, <1>7 DEF Updated

LEMMA UpdatesExist ==
  ASSUME NEW stats, stats \in [DOMAIN stats -> Entry], NEW text \in Texts, NEW t \in Nat
  PROVE  \E f : /\ f[0] = stats /\ f[Len(Mentions[text])] = update_from_query(stats, text, t)
                /\ \A i \in 1 .. Len(Mentions[text]) : f[i] = UpdateTable(f[i - 1], Mentions[text][i], t)
<1> DEFINE ms == Mentions[text]
           n == Len(ms)
           K == DOMAIN stats \cup {MentionKey(ms[j]) : j \in 1 .. n}
           Maps == UNION {[D -> Entry] : D \in SUBSET K}
           step == [i \in 1 .. n |-> [v \in Maps |-> UpdateTable(v, ms[i], t)]]
           After(f) == [i \in 0 .. n |-> IF i = 0 THEN stats ELSE UpdateTable(f[i - 1], ms[i], t)]
<1>1. n \in Nat
  BY StatsAssumption
<1>2. stats \in Maps
  BY DEF Entry
<1>3. ASSUME NEW i \in 1 .. n, NEW v \in Maps
      PROVE  UpdateTable(v, ms[i], t) \in Maps
  <2>1. PICK D \in SUBSET K : v \in [D -> Entry]
    BY <1>3
  <2>2. Updated(v, UpdateTable(v, ms[i], t), ms[i])
    BY <2>1, UpdateOne
  <2>3. D \cup {MentionKey(ms[i])} \in SUBSET K
    OBVIOUS
  <2> HIDE DEF K, ms
  <2> QED BY <2>1, <2>2, <2>3 DEF Updated
<1>4. step \in [1 .. n -> [Maps -> Maps]]
  <2> HIDE DEF Maps, n, ms
  <2> QED BY <1>3
<1>5. PICK f \in [0 .. n -> Maps] : Iterates(f, n, stats, step)
  <2> HIDE DEF Maps, n, step
  <2> QED BY <1>1, <1>2, <1>4, Recursion
<1>6. f = After(f)
  <2> HIDE DEF Maps, n, ms
  <2>1. \A i \in 1 .. n : i - 1 \in 0 .. n /\ f[i - 1] \in Maps
    BY <1>1, <1>5
  <2>2. \A i \in 1 .. n : f[i] = UpdateTable(f[i - 1], ms[i], t)
    BY <1>5, <2>1 DEF Iterates
  <2>3. f[0] = stats
    BY <1>5 DEF Iterates
  <2>4. \A i \in 0 .. n : f[i] = After(f)[i]
    BY <1>1, <2>2, <2>3
  <2> QED BY <1>5, <2>4
<1> DEFINE c == CHOOSE g : g = After(g)
<1>7. c = After(c)
  <2> HIDE DEF After
  <2> QED BY <1>6
<1>8. update_from_query(stats, text, t) = c[n]
  BY DEF update_from_query
<1>9. c[0] = stats /\ \A i \in 1 .. n : c[i] = UpdateTable(c[i - 1], ms[i], t)
  <2> HIDE DEF n, c, ms
  <2>1. \A i \in 0 .. n : c[i] = IF i = 0 THEN stats ELSE UpdateTable(c[i - 1], ms[i], t)
    BY <1>7
  <2> QED BY <1>1, <2>1
<1> HIDE DEF c
<1> QED BY <1>8, <1>9

(* The mentions of table and type k among the first i of a text.           *)
MentionsTo(text, k, i) == {j \in 1 .. i : MentionKey(Mentions[text][j]) = k}

CountsMore(stats, R, text, n) ==
  /\ R \in [DOMAIN R -> Entry]
  /\ DOMAIN R = DOMAIN stats \cup {MentionKey(Mentions[text][j]) : j \in 1 .. n}
  /\ \A k \in DOMAIN R : R[k].n = CountOf(stats, k) + Cardinality(MentionsTo(text, k, n))

LEMMA MentionsCounted ==
  ASSUME NEW stats, stats \in [DOMAIN stats -> Entry], NEW text \in Texts, NEW t \in Nat,
         NEW R, R = update_from_query(stats, text, t)
  PROVE  CountsMore(stats, R, text, Len(Mentions[text]))
<1>1. PICK n, ms : ms = Mentions[text] /\ n = Len(ms) /\ n \in Nat
  <2>1. Len(Mentions[text]) \in Nat
    BY StatsAssumption
  <2> QED BY <2>1
<1>2. PICK f : /\ f[0] = stats /\ f[n] = R
               /\ \A i \in 1 .. n : f[i] = UpdateTable(f[i - 1], ms[i], t)
  BY <1>1, UpdatesExist
<1> DEFINE Is(i) == /\ f[i] \in [DOMAIN f[i] -> Entry]
                    /\ DOMAIN f[i] = DOMAIN stats \cup {MentionKey(ms[j]) : j \in 1 .. i}
                    /\ \A k \in DOMAIN f[i] :
                         f[i][k].n = CountOf(stats, k) + Cardinality(MentionsTo(text, k, i))
           P == {i \in 0 .. n : Is(i)}
<1>3. 0 \in P
  <2>1. \A k : MentionsTo(text, k, 0) = {}
    BY DEF MentionsTo
  <2>2. \A k \in DOMAIN stats : stats[k].n \in Nat /\ stats[k].n = CountOf(stats, k)
    BY DEF Entry, CountOf
  <2>3. \A k : Cardinality(MentionsTo(text, k, 0)) = 0
    BY <2>1, FS_EmptySet
  <2>4. {MentionKey(ms[j]) : j \in 1 .. 0} = {}
    OBVIOUS
  <2>5. Is(0)
    <3>1. f[0] \in [DOMAIN f[0] -> Entry]
      BY <1>2
    <3>2. DOMAIN f[0] = DOMAIN stats \cup {MentionKey(ms[j]) : j \in 1 .. 0}
      BY <1>2, <2>4
    <3>3. \A k \in DOMAIN f[0] : f[0][k].n = CountOf(stats, k) + Cardinality(MentionsTo(text, k, 0))
      <4> SUFFICES ASSUME NEW k \in DOMAIN stats
                   PROVE  stats[k].n = CountOf(stats, k) + Cardinality(MentionsTo(text, k, 0))
        BY <1>2
      <4> QED BY <2>2, <2>3
    <3> QED BY <3>1, <3>2, <3>3
  <2> HIDE DEF Is
  <2> QED BY <1>1, <2>5
<1>4. ASSUME NEW i \in 1 .. n, i - 1 \in P
      PROVE  i \in P
  <2>1. PICK a, b, k0 : a = f[i - 1] /\ b = f[i] /\ k0 = MentionKey(ms[i])
    OBVIOUS
  <2>2. a \in [DOMAIN a -> Entry]
    BY <1>4, <2>1
  <2>3. Updated(a, b, ms[i])
    BY <1>2, <2>1, <2>2, UpdateOne
  <2>4. /\ b \in [DOMAIN a \cup {k0} -> Entry] /\ DOMAIN b = DOMAIN a \cup {k0}
        /\ \A k \in DOMAIN b : b[k].n = CountOf(a, k) + (IF k = k0 THEN 1 ELSE 0)
    BY <2>1, <2>3 DEF Updated
  <2>5. 1 .. i = (1 .. (i - 1)) \cup {i} /\ i \notin 1 .. (i - 1)
    OBVIOUS
  <2>6. DOMAIN b = DOMAIN stats \cup {MentionKey(ms[j]) : j \in 1 .. i}
    BY <1>4, <2>1, <2>4, <2>5
  <2>7. ASSUME NEW k
        PROVE  /\ MentionsTo(text, k, i) = MentionsTo(text, k, i - 1) \cup (IF k = k0 THEN {i} ELSE {})
               /\ IsFiniteSet(MentionsTo(text, k, i - 1)) /\ i \notin MentionsTo(text, k, i - 1)
    <3>1. IsFiniteSet(1 .. (i - 1)) /\ MentionsTo(text, k, i - 1) \subseteq 1 .. (i - 1)
      BY FS_Interval DEF MentionsTo
    <3> QED BY <1>1, <2>1, <2>5, <3>1, FS_Subset DEF MentionsTo
  <2>8. ASSUME NEW k
        PROVE  /\ Cardinality(MentionsTo(text, k, i - 1)) \in Nat
               /\ Cardinality(MentionsTo(text, k, i)) =
                    Cardinality(MentionsTo(text, k, i - 1)) + (IF k = k0 THEN 1 ELSE 0)
    <3>1. CASE k = k0
      BY <2>7, <3>1, FS_AddElement, FS_CardinalityType
    <3>2. CASE k # k0
      <4>1. MentionsTo(text, k, i) = MentionsTo(text, k, i - 1)
        BY <2>7, <3>2
      <4> QED BY <2>7, <3>2, <4>1, FS_CardinalityType
    <3> QED BY <3>1, <3>2
  <2>9. ASSUME NEW k \in DOMAIN b
        PROVE  b[k].n = CountOf(stats, k) + Cardinality(MentionsTo(text, k, i))
    <3>1. CountOf(a, k) = CountOf(stats, k) + Cardinality(MentionsTo(text, k, i - 1))
      <4>1. CASE k \in DOMAIN a
        BY <1>4, <2>1, <4>1 DEF CountOf
      <4>2. CASE k \notin DOMAIN a
        <5>1. k \notin DOMAIN stats /\ MentionsTo(text, k, i - 1) = {}
          BY <1>1, <1>4, <2>1, <4>2 DEF MentionsTo
        <5>2. Cardinality(MentionsTo(text, k, i - 1)) = 0
          BY <5>1, FS_EmptySet
        <5> QED BY <4>2, <5>1, <5>2 DEF CountOf
      <4> QED BY <4>1, <4>2
    <3>2. CountOf(stats, k) \in Nat
      BY DEF CountOf, Entry
    <3> QED BY <2>4, <2>8, <3>1, <3>2
  <2>10. Is(i)
    BY <2>1, <2>4, <2>6, <2>9
  <2> HIDE DEF Is
  <2> QED BY <2>10
<1>5. \A i \in 0 .. n : i \in P
  <2>1. \A i \in 1 .. n : i - 1 \in P => i \in P
    BY <1>4
  <2> HIDE DEF P
  <2> QED BY <1>1, <1>3, <2>1, Induction
<1>6. Is(n)
  <2> HIDE DEF Is
  <2> QED BY <1>1, <1>5
<1> QED BY <1>1, <1>2, <1>6 DEF CountsMore
-----------------------------------------------------------------------------
(* The sorted times, and the percentile and median taken from them.        *)
LEMMA NotAboveFacts ==
  ASSUME NEW times \in Seq(Nat), NEW v \in Int
  PROVE  /\ NotAbove(times, v) \in 0 .. Len(times)
         /\ \A w \in Int : v <= w => NotAbove(times, v) <= NotAbove(times, w)
         /\ (\A j \in DOMAIN times : times[j] <= v) => NotAbove(times, v) = Len(times)
         /\ (\A j \in DOMAIN times : times[j] > v) => NotAbove(times, v) = 0
<1> DEFINE S(u) == {j \in DOMAIN times : times[j] <= u}
<1>1. Len(times) \in Nat /\ DOMAIN times = 1 .. Len(times) /\ \A j \in DOMAIN times : times[j] \in Nat
  OBVIOUS
<1>2. IsFiniteSet(DOMAIN times) /\ Cardinality(DOMAIN times) = Len(times)
  <2>1. PICK n \in Nat : n = Len(times)
    OBVIOUS
  <2>2. IsFiniteSet(1 .. n) /\ Cardinality(1 .. n) = n
    BY FS_Interval
  <2> QED BY <1>1, <2>1, <2>2
<1>3. \A u : S(u) \subseteq DOMAIN times /\ IsFiniteSet(S(u)) /\ Cardinality(S(u)) \in Nat
             /\ Cardinality(S(u)) <= Len(times)
  BY <1>2, FS_Subset, FS_CardinalityType
<1>4. ASSUME NEW w \in Int, v <= w
      PROVE  Cardinality(S(v)) <= Cardinality(S(w))
  <2>1. S(v) \subseteq S(w)
    BY <1>1, <1>4
  <2> QED BY <1>3, <2>1, FS_Subset
<1>5. ASSUME \A j \in DOMAIN times : times[j] <= v
      PROVE  S(v) = DOMAIN times
  BY <1>5
<1>6. ASSUME \A j \in DOMAIN times : times[j] > v
      PROVE  S(v) = {}
  BY <1>1, <1>6
<1>7. Cardinality({}) = 0
  BY FS_EmptySet
<1>8. \A u : NotAbove(times, u) = Cardinality(S(u))
  BY DEF NotAbove
<1> HIDE DEF S
<1>9. NotAbove(times, v) \in 0 .. Len(times)
  <2>1. NotAbove(times, v) = Cardinality(S(v)) /\ Cardinality(S(v)) \in Nat /\ Cardinality(S(v)) <= Len(times)
    BY <1>3, <1>8
  <2> QED BY <1>1, <2>1
<1>10. \A w \in Int : v <= w => NotAbove(times, v) <= NotAbove(times, w)
  BY <1>4, <1>8
<1>11. (\A j \in DOMAIN times : times[j] <= v) => NotAbove(times, v) = Len(times)
  BY <1>2, <1>5, <1>8
<1>12. (\A j \in DOMAIN times : times[j] > v) => NotAbove(times, v) = 0
  BY <1>6, <1>7, <1>8
<1> QED BY <1>9, <1>10, <1>11, <1>12

SortedAt(times, i, v) ==
  /\ v \in Nat /\ (\E j \in DOMAIN times : times[j] = v)
  /\ NotAbove(times, v - 1) < i /\ i <= NotAbove(times, v)

LEMMA SortedIs ==
  ASSUME NEW times \in Seq(Nat), NEW i \in 1 .. Len(times)
  PROVE  SortedAt(times, i, Sorted(times)[i])
<1>1. PICK n \in Nat : n = Len(times) /\ DOMAIN times = 1 .. n /\ \A j \in 1 .. n : times[j] \in Nat
  BY SMTT(30)
<1>2. \E b \in Nat : \A j \in 1 .. n : times[j] <= b
  <2> DEFINE P == {m \in 0 .. n : \E b \in Nat : \A j \in 1 .. m : times[j] <= b}
  <2>1. 0 \in P
    <3>1. \A j \in 1 .. 0 : times[j] <= 0
      OBVIOUS
    <3> QED BY <3>1
  <2>2. ASSUME NEW m \in 1 .. n, m - 1 \in P
        PROVE  m \in P
    <3>1. PICK b \in Nat : \A j \in 1 .. (m - 1) : times[j] <= b
      BY <2>2
    <3>2. PICK d \in Nat : d = IF times[m] <= b THEN b ELSE times[m]
      BY <1>1
    <3>3. \A j \in 1 .. m : times[j] <= d
      BY SMTT(30), <1>1, <3>1, <3>2
    <3>4. \E e \in Nat : \A j \in 1 .. m : times[j] <= e
      BY <3>3
    <3>5. m \in 0 .. n
      OBVIOUS
    <3> QED BY <3>4, <3>5
  <2>3. \A m \in 1 .. n : m - 1 \in P => m \in P
    BY <2>2
  <2>4. \A m \in 0 .. n : m \in P
    <3> HIDE DEF P
    <3> QED BY <2>1, <2>3, Induction
  <2>5. n \in P
    <3> HIDE DEF P
    <3> QED BY <2>4
  <2> QED BY <2>5
<1> DEFINE V == {v \in Nat : i <= NotAbove(times, v)}
<1>3. V # {}
  <2>1. PICK b \in Nat : \A j \in 1 .. n : times[j] <= b
    BY <1>2
  <2>2. NotAbove(times, b) = n
    BY SMTT(30), <1>1, <2>1, NotAboveFacts
  <2> QED BY <1>1, <2>2
<1>4. PICK v \in V : \A w \in V : v <= w
  <2>1. V \in SUBSET Nat /\ V # {}
    BY <1>3
  <2> HIDE DEF V
  <2> QED BY <2>1, NatMin
<1>5. NotAbove(times, v - 1) < i
  <2>1. v - 1 \in Int /\ NotAbove(times, v - 1) \in 0 .. n
    <3>1. v - 1 \in Int
      OBVIOUS
    <3> QED BY <1>1, <3>1, NotAboveFacts
  <2>2. CASE v = 0
    <3>1. \A j \in DOMAIN times : times[j] > v - 1
      BY <1>1, <2>2
    <3>2. NotAbove(times, v - 1) = 0
      BY <2>1, <3>1, NotAboveFacts
    <3> QED BY <3>2
  <2>3. CASE v # 0
    BY <1>4, <2>1, <2>3
  <2> QED BY <2>2, <2>3
<1>6. \E j \in DOMAIN times : times[j] = v
  <2> SUFFICES ASSUME \A j \in DOMAIN times : times[j] # v
               PROVE  FALSE
    OBVIOUS
  <2>1. \A j \in DOMAIN times : times[j] <= v <=> times[j] <= v - 1
    BY <1>1
  <2>2. NotAbove(times, v) = NotAbove(times, v - 1)
    BY <2>1 DEF NotAbove
  <2> QED BY <1>1, <1>4, <1>5, <2>2, NotAboveFacts
<1>7. \E w \in {times[j] : j \in DOMAIN times} : NotAbove(times, w - 1) < i /\ i <= NotAbove(times, w)
  BY <1>4, <1>5, <1>6
<1>8. PICK w : w = Sorted(times)[i]
  OBVIOUS
<1>9. w = CHOOSE u \in {times[j] : j \in DOMAIN times} : NotAbove(times, u - 1) < i /\ i <= NotAbove(times, u)
  BY <1>1, <1>8 DEF Sorted
<1>10. /\ w \in {times[j] : j \in DOMAIN times}
       /\ NotAbove(times, w - 1) < i /\ i <= NotAbove(times, w)
  BY <1>7, <1>9
<1> QED BY <1>1, <1>8, <1>10 DEF SortedAt

LEMMA SortedRises ==
  ASSUME NEW times \in Seq(Nat), NEW i \in 1 .. Len(times), NEW j \in i .. Len(times)
  PROVE  Sorted(times)[i] <= Sorted(times)[j]
<1>1. PICK v, w : v = Sorted(times)[i] /\ w = Sorted(times)[j]
  OBVIOUS
<1>2. SortedAt(times, i, v) /\ SortedAt(times, j, w)
  BY <1>1, SortedIs
<1>3. w <= v - 1 => NotAbove(times, w) <= NotAbove(times, v - 1)
  BY <1>2, NotAboveFacts DEF SortedAt
<1>4. NotAbove(times, w) \in Int /\ NotAbove(times, v - 1) \in Int /\ v \in Nat /\ w \in Nat
  BY <1>2, NotAboveFacts DEF SortedAt
<1> QED BY SMTT(30), <1>1, <1>2, <1>3, <1>4 DEF SortedAt

LEMMA Position95 ==
  ASSUME NEW n \in Nat, n > 0
  PROVE  /\ PctPos(n, 95) \in 0 .. (n - 1)
         /\ 100 * (PctPos(n, 95) + 2) > 95 * n /\ 100 * PctPos(n, 95) < 95 * n
         /\ n # 2 => n \div 2 <= PctPos(n, 95)
BY DEF PctPos

LEMMA Halves ==
  ASSUME NEW n \in Nat, n > 0
  PROVE  n \div 2 \in Nat /\ (n % 2 # 1 => n \div 2 > 0)
<1>1. n = 1 => n % 2 = 1
  OBVIOUS
<1>2. n > 1 => n \div 2 > 0
  OBVIOUS
<1> QED BY <1>1, <1>2

(* get_pct_exec_time(95), get_median_exec_time and max_exec_time.          *)
Printed(s) ==
  /\ s.times \in Seq(Nat) /\ Len(s.times) > 0 /\ s.n = Len(s.times)
  /\ s.max \in Nat /\ \A j \in DOMAIN s.times : s.times[j] <= s.max

LEMMA PercentileOf ==
  ASSUME NEW s, Printed(s), NEW p, p = PrintedStats(s)
  PROVE  /\ p.n # 2 => p.median2 <= 2 * p.pct95
         /\ p.pct95 <= p.max
         /\ 100 * (NotAbove(s.times, p.pct95) + 1) > 95 * p.n
         /\ 100 * NotAbove(s.times, p.pct95 - 1) < 95 * p.n
<1>1. PICK times, n : times = s.times /\ n = Len(times) /\ n \in Nat /\ n > 0 /\ times \in Seq(Nat)
                      /\ s.n = n /\ s.max \in Nat /\ \A j \in 1 .. n : times[j] <= s.max
  BY DEF Printed
<1>2. PICK pos \in 0 .. (n - 1) : pos = PctPos(n, 95) /\ 100 * (pos + 2) > 95 * n /\ 100 * pos < 95 * n
                                  /\ (n # 2 => n \div 2 <= pos)
  BY <1>1, Position95
<1>3. pos \in Nat /\ pos + 1 <= n /\ 100 * (pos + 2) > 95 * n /\ 100 * pos < 95 * n
  BY SMTT(30), <1>1, <1>2
<1>4. PICK sorted : sorted = Sorted(times)
  OBVIOUS
<1>5. Len(sorted) = n
  BY <1>1, <1>4 DEF Sorted
<1>6. p.n = n /\ p.max = s.max /\ p.pct95 = sorted[pos + 1] /\ p.median2 = Median2(sorted)
  BY <1>1, <1>2, <1>4, <1>5 DEF PrintedStats, get_pct_exec_time
<1>7. PICK v : v = sorted[pos + 1]
  OBVIOUS
<1>8. SortedAt(times, pos + 1, v)
  <2>1. pos + 1 \in 1 .. Len(times)
    BY <1>1
  <2> QED BY <1>1, <1>4, <1>7, <2>1, SortedIs
<1>9. \A i \in 1 .. (pos + 1) : sorted[i] <= v /\ sorted[i] \in Nat
  <2> SUFFICES ASSUME NEW i \in 1 .. (pos + 1)
               PROVE  sorted[i] <= v /\ sorted[i] \in Nat
    OBVIOUS
  <2>1. i \in 1 .. Len(times) /\ pos + 1 \in i .. Len(times)
    BY <1>1, <1>3
  <2> QED BY <1>1, <1>4, <1>7, <2>1, SortedRises, SortedIs DEF SortedAt
<1>10. n # 2 => p.median2 <= 2 * v
  <2>1. SUFFICES ASSUME n # 2
                 PROVE  Median2(sorted) <= 2 * v
    BY <1>6
  <2>2. PICK h : h = n \div 2 /\ h \in Nat /\ h <= pos /\ (n % 2 # 1 => h > 0)
    <3>1. PICK h : h = n \div 2
      OBVIOUS
    <3>2. h \in Nat /\ (n % 2 # 1 => h > 0)
      BY <1>1, <3>1, Halves
    <3>3. h <= pos
      BY <1>2, <2>1, <3>1
    <3> QED BY <3>1, <3>2, <3>3
  <2>3. CASE n % 2 = 1
    <3>1. Median2(sorted) = 2 * sorted[h + 1]
      BY <1>5, <2>2, <2>3 DEF Median2
    <3>2. sorted[h + 1] <= v /\ sorted[h + 1] \in Nat
      BY <1>2, <1>9, <2>2
    <3> QED BY <1>8, <3>1, <3>2 DEF SortedAt
  <2>4. CASE n % 2 # 1
    <3>1. Median2(sorted) = sorted[h + 1] + sorted[h]
      BY <1>5, <2>2, <2>4 DEF Median2
    <3>2. sorted[h + 1] <= v /\ sorted[h + 1] \in Nat /\ sorted[h] <= v /\ sorted[h] \in Nat
      BY <1>2, <1>9, <2>2, <2>4
    <3> QED BY <1>8, <3>1, <3>2 DEF SortedAt
  <2> QED BY <2>3, <2>4
<1>11. v <= s.max
  <2>1. PICK j \in DOMAIN times : times[j] = v
    BY <1>8 DEF SortedAt
  <2> QED BY <1>1, <2>1
<1>12. PICK x, y : x = NotAbove(times, v) /\ y = NotAbove(times, v - 1) /\ x \in Nat /\ y \in Nat
  BY <1>1, <1>8, NotAboveFacts DEF SortedAt
<1>13. 100 * (x + 1) > 95 * n /\ 100 * y < 95 * n
  <2>1. pos + 1 <= x /\ y < pos + 1
    BY <1>8, <1>12 DEF SortedAt
  <2>2. n \in Nat /\ x \in Nat /\ y \in Nat
    BY <1>1, <1>12
  <2> QED BY <1>3, <2>1, <2>2
<1> QED BY <1>1, <1>6, <1>7, <1>10, <1>11, <1>12, <1>13
-----------------------------------------------------------------------------
(* What q_stats has for a key is a recount of the positions I of the       *)
(* registered queries r that have it.                                      *)
StatsType == [n : Nat, min : Int, max : Nat, total : Nat, times : Seq(Nat)]
Rank(I, i) == Cardinality({j \in I : j <= i})
Extremes(r, s, I) ==
  IF I = {} THEN s.min = DblMax /\ s.max = 0
  ELSE /\ (\E i \in I : r[i].exec = s.min) /\ \A i \in I : s.min <= r[i].exec
       /\ (\E i \in I : r[i].exec = s.max) /\ \A i \in I : r[i].exec <= s.max
Ranked(r, s, I) ==
  /\ Len(s.times) = Cardinality(I)
  /\ \A i \in I : s.times[Rank(I, i)] = r[i].exec
Recorded(r, s, I) ==
  /\ s \in StatsType /\ s.n = Len(s.times) /\ s.total = SumOf(s.times)
  /\ \A j \in DOMAIN s.times : s.times[j] <= s.max
  /\ Ranked(r, s, I) /\ Extremes(r, s, I)

LEMMA NothingRecorded == ASSUME NEW r PROVE Recorded(r, NewStats, {})
<1>1. PICK none : none = <<>> /\ none \in Seq(Nat) /\ Len(none) = 0 /\ SumOf(none) = 0 /\ DOMAIN none = {}
  <2>1. <<>> \in Seq(Nat) /\ Len(<<>>) = 0 /\ DOMAIN <<>> = {}
    OBVIOUS
  <2>2. PICK none : none = <<>>
    OBVIOUS
  <2> QED BY <2>1, <2>2, SumOfNone
<1>2. PICK s : s = NewStats
  OBVIOUS
<1>3. s.n = 0 /\ s.min = DblMax /\ s.max = 0 /\ s.total = 0 /\ s.times = none /\ s \in StatsType
  BY <1>1, <1>2 DEF NewStats, StatsType, DblMax
<1>4. Ranked(r, s, {}) /\ Extremes(r, s, {})
  BY <1>1, <1>3, FS_EmptySet DEF Ranked, Extremes
<1> QED BY <1>1, <1>2, <1>3, <1>4 DEF Recorded

(* Adding the last of the positions.                                       *)
LEMMA RankGrows ==
  ASSUME NEW n \in Nat, NEW I \in SUBSET (1 .. n), NEW J, J = I \cup {n + 1}
  PROVE  /\ IsFiniteSet(I) /\ Cardinality(I) \in Nat /\ Cardinality(J) = Cardinality(I) + 1
         /\ \A i \in I : Rank(I, i) \in 1 .. Cardinality(I) /\ Rank(J, i) = Rank(I, i)
         /\ Rank(J, n + 1) = Cardinality(I) + 1
<1>1. IsFiniteSet(I) /\ Cardinality(I) \in Nat
  <2>1. IsFiniteSet(1 .. n)
    BY FS_Interval
  <2> QED BY <2>1, FS_Subset, FS_CardinalityType
<1>2. Cardinality(J) = Cardinality(I) + 1
  <2>1. n + 1 \notin I
    OBVIOUS
  <2> QED BY <1>1, <2>1, FS_AddElement
<1>3. ASSUME NEW i \in I
      PROVE  Rank(I, i) \in 1 .. Cardinality(I) /\ Rank(J, i) = Rank(I, i)
  <2> DEFINE T == {j \in I : j <= i}
  <2>1. T \in SUBSET I /\ T # {} /\ T = {j \in J : j <= i}
    BY <1>3
  <2>2. Rank(I, i) = Cardinality(T) /\ Rank(J, i) = Cardinality(T)
    BY <2>1 DEF Rank
  <2> HIDE DEF T
  <2>3. IsFiniteSet(T) /\ Cardinality(T) <= Cardinality(I) /\ Cardinality(T) # 0 /\ Cardinality(T) \in Nat
    BY <1>1, <2>1, FS_Subset, FS_CardinalityType, FS_EmptySet
  <2> QED BY <1>1, <2>2, <2>3
<1>4. Rank(J, n + 1) = Cardinality(I) + 1
  <2>1. \A j \in J : j <= n + 1
    OBVIOUS
  <2>2. {j \in J : j <= n + 1} = J
    BY <2>1
  <2> QED BY <1>2, <2>2 DEF Rank
<1> QED BY <1>1, <1>2, <1>3, <1>4

(* Query_pattern_stats::record_query.                                      *)
LEMMA RecordOne ==
  ASSUME NEW r, NEW r2, NEW n \in Nat, NEW I \in SUBSET (1 .. n), NEW s, NEW t \in Nat,
         Recorded(r, s, I), \A i \in I : r2[i] = r[i] /\ r[i].exec \in Nat, r2[n + 1].exec = t
  PROVE  Recorded(r2, RecordTime(s, t), I \cup {n + 1})
<1>1. PICK J : J = I \cup {n + 1}
  OBVIOUS
<1>2. PICK u : u = RecordTime(s, t)
  OBVIOUS
<1>3. s \in StatsType /\ s.times \in Seq(Nat) /\ s.max \in Nat /\ s.min \in Int
  BY DEF Recorded, StatsType
<1>4. /\ u.n = s.n + 1 /\ u.min = (IF IsLess(t, s.min) THEN t ELSE s.min)
      /\ u.max = (IF t > s.max THEN t ELSE s.max) /\ u.total = s.total + t
      /\ u.times = Append(s.times, t)
  BY <1>2 DEF RecordTime
<1>5. PICK len \in Nat : len = Len(s.times)
  BY <1>3
<1>6. /\ u.times \in Seq(Nat) /\ Len(u.times) = len + 1 /\ DOMAIN u.times = 1 .. (len + 1)
      /\ u.times[len + 1] = t /\ \A j \in 1 .. len : u.times[j] = s.times[j]
  BY <1>3, <1>4, <1>5
<1>7. u \in StatsType
  <2>1. u.min \in Int /\ u.max \in Nat
    BY <1>3, <1>4
  <2> QED BY <1>2, <1>3, <1>4, <1>6, <2>1 DEF RecordTime, StatsType
<1>8. u.n = Len(u.times) /\ u.total = SumOf(u.times)
  BY <1>3, <1>4, <1>5, <1>6, SumGrows DEF Recorded
<1>9. \A j \in DOMAIN u.times : u.times[j] <= u.max
  <2> SUFFICES ASSUME NEW j \in 1 .. (len + 1)
               PROVE  u.times[j] <= u.max
    BY <1>6
  <2>1. CASE j = len + 1
    BY <1>3, <1>4, <1>6, <2>1
  <2>2. CASE j # len + 1
    <3>1. j \in 1 .. len /\ u.times[j] = s.times[j] /\ j \in DOMAIN s.times /\ s.times[j] \in Nat
      BY SMTT(30), <1>3, <1>5, <1>6, <2>2
    <3>2. s.times[j] <= s.max
      BY <3>1 DEF Recorded
    <3> QED BY <1>3, <1>4, <3>1, <3>2
  <2> QED BY <2>1, <2>2
<1>10. Ranked(r2, u, J)
  <2>1. len = Cardinality(I)
    BY <1>5 DEF Recorded, Ranked
  <2>2. /\ Cardinality(J) = len + 1 /\ Rank(J, n + 1) = len + 1
        /\ \A i \in I : Rank(I, i) \in 1 .. len /\ Rank(J, i) = Rank(I, i)
    BY <1>1, <2>1, RankGrows
  <2>3. \A i \in I : u.times[Rank(J, i)] = r2[i].exec
    BY <1>6, <2>2 DEF Recorded, Ranked
  <2>4. u.times[Rank(J, n + 1)] = r2[n + 1].exec
    BY <1>6, <2>2
  <2> QED BY <1>1, <1>6, <2>2, <2>3, <2>4 DEF Ranked
<1>11. Extremes(r2, u, J)
  <2>1. J # {} /\ r2[n + 1].exec = t /\ n + 1 \in J
    BY <1>1
  <2>2. CASE I = {}
    <3>1. s.min = DblMax /\ s.max = 0 /\ J = {n + 1}
      BY <1>1, <2>2 DEF Recorded, Extremes
    <3>2. u.min = t /\ u.max = t
      BY <1>4, <3>1 DEF IsLess
    <3> QED BY <2>1, <3>1, <3>2 DEF Extremes
  <2>3. CASE I # {}
    <3>1. /\ (\E i \in I : r[i].exec = s.min) /\ \A i \in I : s.min <= r[i].exec
          /\ (\E i \in I : r[i].exec = s.max) /\ \A i \in I : r[i].exec <= s.max
      BY <2>3 DEF Recorded, Extremes
    <3>2. s.min \in Nat /\ s.min # DblMax
      BY <3>1 DEF DblMax
    <3>3. u.min = (IF t < s.min THEN t ELSE s.min) /\ u.max = (IF t > s.max THEN t ELSE s.max)
      BY <1>4, <3>2 DEF IsLess
    <3>4. \A i \in J : i = n + 1 \/ (i \in I /\ r2[i].exec = r[i].exec)
      BY <1>1
    <3>5. (\E i \in J : r2[i].exec = u.min) /\ (\E i \in J : r2[i].exec = u.max)
      BY <1>1, <2>1, <3>1, <3>3
    <3>6. \A i \in J : u.min <= r2[i].exec /\ r2[i].exec <= u.max
      <4> SUFFICES ASSUME NEW i \in J
                   PROVE  u.min <= r2[i].exec /\ r2[i].exec <= u.max
        OBVIOUS
      <4>1. CASE i = n + 1
        BY <1>3, <2>1, <3>2, <3>3, <4>1
      <4>2. CASE i \in I
        <5>1. r2[i].exec = r[i].exec /\ r[i].exec \in Nat /\ s.min <= r[i].exec /\ r[i].exec <= s.max
          BY <3>1, <4>2
        <5> QED BY <1>3, <3>2, <3>3, <5>1
      <4> QED BY <1>1, <4>1, <4>2
    <3> QED BY <2>1, <3>5, <3>6 DEF Extremes
  <2> QED BY <2>2, <2>3
<1> QED BY <1>1, <1>2, <1>7, <1>8, <1>9, <1>10, <1>11 DEF Recorded
-----------------------------------------------------------------------------
(* The inductive invariant: what the lists hold (IInv of AnalysisProofs),  *)
(* the statistics as a recount with types, and what was printed.           *)
PositionsOf(key) == {i \in DOMAIN reg : KeyAt(i) = key}
HistoryOK ==
  ~Stopped =>
    /\ DOMAIN q_stats = {KeyAt(i) : i \in DOMAIN reg}
    /\ \A key \in DOMAIN q_stats : Recorded(reg, q_stats[key], PositionsOf(key))
    /\ table_stats \in [DOMAIN table_stats -> Entry]
    /\ \A i \in DOMAIN reg : \A j \in DOMAIN MentionsAt(i) :
         MentionKey(MentionsAt(i)[j]) \in DOMAIN table_stats
    /\ \A k : IsFiniteSet(MentionsOf(k)) /\ CountOf(table_stats, k) = Cardinality(MentionsOf(k))
PrintedOK ==
  /\ DOMAIN printed = {"slow", "stats"}
  /\ \A key \in DOMAIN printed.stats :
       /\ phase \in {"cleanup", "streams", "done"} /\ key \in DOMAIN q_stats
       /\ printed.stats[key] = PrintedStats(q_stats[key])
StatsInv == IInv /\ HistoryOK /\ PrintedOK

(* A step that registers nothing.                                          *)
Unregistered ==
  /\ reg' = reg /\ q_stats' = q_stats /\ table_stats' = table_stats
  /\ Stopped => Stopped'
  /\ \A i \in DOMAIN reg : pkts'[reg[i].pkt] = pkts[reg[i].pkt]

LEMMA UnregisteredStep ==
  ASSUME HistoryOK, Unregistered PROVE HistoryOK'
<1> SUFFICES ASSUME ~Stopped' PROVE HistoryOK'
  BY DEF HistoryOK
<1>1. ~Stopped /\ reg' = reg /\ q_stats' = q_stats /\ table_stats' = table_stats
  BY DEF Unregistered
<1>2. ASSUME NEW i \in DOMAIN reg
      PROVE  KeyAt(i)' = KeyAt(i) /\ MentionsAt(i)' = MentionsAt(i)
  BY <1>1 DEF Unregistered, KeyAt, MentionsAt
<1>3. {KeyAt(i) : i \in DOMAIN reg}' = {KeyAt(i) : i \in DOMAIN reg}
  BY <1>1, <1>2
<1>4. ASSUME NEW key
      PROVE  PositionsOf(key)' = PositionsOf(key)
  BY <1>1, <1>2 DEF PositionsOf
<1>5. ASSUME NEW k
      PROVE  MentionsOf(k)' = MentionsOf(k)
  BY <1>1, <1>2 DEF MentionsOf
<1>6. DOMAIN q_stats' = {KeyAt(i) : i \in DOMAIN reg}'
  BY <1>1, <1>3 DEF HistoryOK
<1>7. \A key \in DOMAIN q_stats' : Recorded(reg', q_stats'[key], PositionsOf(key)')
  BY <1>1, <1>4 DEF HistoryOK
<1>8. table_stats' \in [DOMAIN table_stats' -> Entry]
  BY <1>1 DEF HistoryOK
<1>9. \A i \in DOMAIN reg' : \A j \in DOMAIN MentionsAt(i)' : MentionKey(MentionsAt(i)'[j]) \in DOMAIN table_stats'
  BY <1>1, <1>2 DEF HistoryOK
<1>10. \A k : IsFiniteSet(MentionsOf(k)') /\ CountOf(table_stats', k) = Cardinality(MentionsOf(k)')
  BY <1>1, <1>5 DEF HistoryOK
<1> QED BY <1>6, <1>7, <1>8, <1>9, <1>10 DEF HistoryOK

(* A step that registers a query of a text that took t.                    *)
Registration(text, t) ==
  /\ text \in Texts /\ t \in Nat /\ ~Stopped /\ ~Stopped'
  /\ DOMAIN reg' = DOMAIN reg \cup {Len(reg) + 1}
  /\ \A i \in DOMAIN reg : reg'[i] = reg[i] /\ pkts'[reg[i].pkt] = pkts[reg[i].pkt]
  /\ reg'[Len(reg) + 1].exec = t /\ pkts'[reg'[Len(reg) + 1].pkt].text = text
  /\ q_stats' = record_query(q_stats, get_query_key(text), t)
  /\ table_stats' = update_from_query(table_stats, text, t)

LEMMA RegistrationStep ==
  ASSUME TypeOK, HistoryOK, NEW text, NEW t, Registration(text, t)
  PROVE  HistoryOK'
<1>1. PICK n \in Nat : n = Len(reg) /\ DOMAIN reg = 1 .. n /\ \A i \in 1 .. n : reg[i].exec \in Nat
  BY RegFacts
<1>2. PICK key0 : key0 = get_query_key(text)
  OBVIOUS
<1>3. PICK r2 : r2 = reg'
  OBVIOUS
<1>4. /\ text \in Texts /\ t \in Nat /\ ~Stopped /\ DOMAIN r2 = 1 .. n + 1
      /\ \A i \in 1 .. n : r2[i] = reg[i] /\ pkts'[reg[i].pkt] = pkts[reg[i].pkt]
      /\ r2[n + 1].exec = t /\ pkts'[r2[n + 1].pkt].text = text
      /\ q_stats' = record_query(q_stats, key0, t)
      /\ table_stats' = update_from_query(table_stats, text, t)
  BY <1>1, <1>2, <1>3 DEF Registration
<1>5. ASSUME NEW i \in 1 .. n
      PROVE  KeyAt(i)' = KeyAt(i) /\ MentionsAt(i)' = MentionsAt(i)
  BY <1>3, <1>4 DEF KeyAt, MentionsAt
<1>6. PICK e : e = n + 1
  OBVIOUS
<1>7. KeyAt(e)' = key0 /\ MentionsAt(e)' = Mentions[text]
  BY <1>2, <1>3, <1>4, <1>6 DEF KeyAt, MentionsAt
<1>8. DOMAIN r2 = (1 .. n) \cup {e} /\ e \notin 1 .. n
  BY <1>4, <1>6
<1>9. DOMAIN q_stats' = {KeyAt(i) : i \in DOMAIN reg}'
  <2>1. DOMAIN q_stats' = DOMAIN q_stats \cup {key0}
    BY <1>4 DEF record_query, Put
  <2>2. DOMAIN q_stats = {KeyAt(i) : i \in 1 .. n}
    BY <1>1, <1>4 DEF HistoryOK
  <2>3. {KeyAt(i) : i \in DOMAIN reg}' = {KeyAt(i)' : i \in DOMAIN r2}
    BY <1>3
  <2> QED BY <1>5, <1>7, <1>8, <2>1, <2>2, <2>3
<1>10. ASSUME NEW key \in DOMAIN q_stats'
       PROVE  Recorded(r2, q_stats'[key], PositionsOf(key)')
  <2>1. PositionsOf(key) \in SUBSET (1 .. n)
    BY <1>1 DEF PositionsOf
  <2>2. PositionsOf(key)' = IF key = key0 THEN PositionsOf(key) \cup {e} ELSE PositionsOf(key)
    BY <1>1, <1>3, <1>5, <1>7, <1>8 DEF PositionsOf
  <2>3. PICK s : s = IF key \in DOMAIN q_stats THEN q_stats[key] ELSE NewStats
    OBVIOUS
  <2>4. Recorded(reg, s, PositionsOf(key))
    <3>1. CASE key \in DOMAIN q_stats
      BY <1>4, <2>3, <3>1 DEF HistoryOK
    <3>2. CASE key \notin DOMAIN q_stats
      <4>1. PositionsOf(key) = {}
        BY <1>4, <3>2 DEF HistoryOK, PositionsOf
      <4> QED BY <2>3, <3>2, <4>1, NothingRecorded
    <3> QED BY <3>1, <3>2
  <2>5. CASE key = key0
    <3>1. q_stats'[key] = RecordTime(s, t)
      BY <1>4, <2>3, <2>5 DEF record_query, Put
    <3>2. \A i \in PositionsOf(key) : r2[i] = reg[i] /\ reg[i].exec \in Nat
      BY <1>1, <1>4, <2>1
    <3>3. PICK I : I = PositionsOf(key)
      OBVIOUS
    <3>4. Recorded(r2, RecordTime(s, t), I \cup {n + 1})
      BY <1>4, <2>1, <2>4, <3>2, <3>3, RecordOne
    <3> QED BY <1>6, <2>2, <2>5, <3>1, <3>3, <3>4
  <2>6. CASE key # key0
    <3>1. q_stats'[key] = s
      BY <1>4, <2>3, <2>6 DEF record_query, Put
    <3>2. \A i \in PositionsOf(key) : r2[i] = reg[i]
      BY <1>4, <2>1
    <3>3. Recorded(r2, s, PositionsOf(key))
      BY <2>4, <3>2 DEF Recorded, Ranked, Extremes
    <3> QED BY <2>2, <2>6, <3>1, <3>3
  <2> QED BY <2>5, <2>6
<1>11. PICK tables : tables = table_stats'
  OBVIOUS
<1>12. PICK m \in Nat : m = Len(Mentions[text]) /\ DOMAIN Mentions[text] = 1 .. m
  BY <1>4, StatsAssumption
<1>13. /\ table_stats \in [DOMAIN table_stats -> Entry] /\ tables \in [DOMAIN tables -> Entry]
       /\ DOMAIN tables = DOMAIN table_stats \cup {MentionKey(Mentions[text][j]) : j \in 1 .. m}
       /\ \A k \in DOMAIN tables : tables[k].n = CountOf(table_stats, k) + Cardinality(MentionsTo(text, k, m))
  <2>1. table_stats \in [DOMAIN table_stats -> Entry]
    BY <1>4 DEF HistoryOK
  <2>2. CountsMore(table_stats, tables, text, m)
    BY <1>4, <1>11, <1>12, <2>1, MentionsCounted
  <2> QED BY <2>1, <2>2 DEF CountsMore
<1>14. ASSUME NEW i \in DOMAIN r2, NEW j \in DOMAIN MentionsAt(i)'
       PROVE  MentionKey(MentionsAt(i)'[j]) \in DOMAIN tables
  <2>1. CASE i \in 1 .. n
    BY <1>1, <1>4, <1>5, <1>13, <2>1 DEF HistoryOK
  <2>2. CASE i = e
    BY <1>7, <1>12, <1>13, <2>2
  <2> QED BY <1>8, <2>1, <2>2
<1>15. ASSUME NEW k
       PROVE  IsFiniteSet(MentionsOf(k)') /\ CountOf(tables, k) = Cardinality(MentionsOf(k)')
  <2> DEFINE T == MentionsTo(text, k, m)
             Pairs == {<<e, j>> : j \in T}
  <2>1. IsFiniteSet(T) /\ Cardinality(T) \in Nat
    <3>1. IsFiniteSet(1 .. m) /\ T \in SUBSET (1 .. m)
      BY FS_Interval DEF MentionsTo
    <3> QED BY <3>1, FS_Subset, FS_CardinalityType
  <2>2. IsFiniteSet(Pairs) /\ Cardinality(Pairs) = Cardinality(T)
    <3> HIDE DEF T
    <3> DEFINE f == [j \in T |-> <<e, j>>]
    <3>1. f \in [T -> Pairs] /\ (\A a, b \in T : f[a] = f[b] => a = b) /\ \A p \in Pairs : \E j \in T : f[j] = p
      OBVIOUS
    <3> HIDE DEF f, Pairs
    <3>2. f \in Bijection(T, Pairs)
      BY <3>1, Fun_IsBij
    <3>3. ExistsBijection(T, Pairs)
      BY <3>2 DEF ExistsBijection
    <3> QED BY <2>1, <3>3, FS_Bijection
  <2>3. MentionsOf(k)' = MentionsOf(k) \cup Pairs
    <3>1. MentionsOf(k)' = UNION {{<<i, j>> : j \in {x \in DOMAIN MentionsAt(i)' : MentionKey(MentionsAt(i)'[x]) = k}} : i \in DOMAIN r2}
      BY <1>3 DEF MentionsOf
    <3>2. Pairs = {<<e, j>> : j \in {x \in DOMAIN MentionsAt(e)' : MentionKey(MentionsAt(e)'[x]) = k}}
      BY <1>7, <1>12 DEF MentionsTo
    <3>3. MentionsOf(k) = UNION {{<<i, j>> : j \in {x \in DOMAIN MentionsAt(i)' : MentionKey(MentionsAt(i)'[x]) = k}} : i \in 1 .. n}
      BY <1>1, <1>5 DEF MentionsOf
    <3> HIDE DEF Pairs
    <3> QED BY <1>8, <3>1, <3>2, <3>3
  <2>4. MentionsOf(k) \cap Pairs = {}
    BY <1>1, <1>8 DEF MentionsOf
  <2>5. IsFiniteSet(MentionsOf(k)) /\ CountOf(table_stats, k) = Cardinality(MentionsOf(k))
    BY <1>4 DEF HistoryOK
  <2>6. Cardinality(MentionsOf(k)) \in Nat
    BY <2>5, FS_CardinalityType
  <2>7. IsFiniteSet(MentionsOf(k)') /\ Cardinality(MentionsOf(k)') = Cardinality(MentionsOf(k)) + Cardinality(T)
    <3> HIDE DEF Pairs, T
    <3>1. IsFiniteSet(MentionsOf(k) \cup Pairs)
          /\ Cardinality(MentionsOf(k) \cup Pairs)
               = Cardinality(MentionsOf(k)) + Cardinality(Pairs) - Cardinality(MentionsOf(k) \cap Pairs)
      BY <2>2, <2>5, FS_Union
    <3>2. Cardinality(MentionsOf(k) \cap Pairs) = 0
      BY <2>4, FS_EmptySet
    <3> QED BY <2>1, <2>2, <2>3, <2>6, <3>1, <3>2
  <2>8. CountOf(tables, k) = CountOf(table_stats, k) + Cardinality(T)
    <3>1. CASE k \in DOMAIN tables
      BY <1>13, <3>1 DEF CountOf
    <3>2. CASE k \notin DOMAIN tables
      <4>1. T = {} /\ k \notin DOMAIN table_stats
        BY <1>13, <3>2 DEF MentionsTo
      <4>2. Cardinality(T) = 0
        BY <4>1, FS_EmptySet
      <4> QED BY <3>2, <4>1, <4>2 DEF CountOf
    <3> QED BY <3>1, <3>2
  <2> QED BY <2>5, <2>7, <2>8
<1>16. \A key \in DOMAIN q_stats' : Recorded(reg', q_stats'[key], PositionsOf(key)')
  BY <1>3, <1>10
<1>17. table_stats' \in [DOMAIN table_stats' -> Entry]
  BY <1>11, <1>13
<1>18. \A i \in DOMAIN reg' : \A j \in DOMAIN MentionsAt(i)' : MentionKey(MentionsAt(i)'[j]) \in DOMAIN table_stats'
  BY <1>3, <1>11, <1>14
<1>19. \A k : IsFiniteSet(MentionsOf(k)') /\ CountOf(table_stats', k) = Cardinality(MentionsOf(k)')
  BY <1>11, <1>15
<1> QED BY <1>9, <1>16, <1>17, <1>18, <1>19 DEF HistoryOK
-----------------------------------------------------------------------------
(* What each step is for the statistics.                                   *)
LEMMA AnswerRegisters ==
  ASSUME IInv, NEW x \in PacketsNow, AnsweredQuery(x[1], x[2])
  PROVE  Stopped' \/ \E text, t : Registration(text, t)
<1>1. x[1] \in PacketKind /\
      \E q, r, gone, off : /\ Answer(x[1], x[2], q, r, gone, off)
                           /\ Died(x[1], x[2], q, off) \/ Finished(x[1], x[2], q, off)
  BY AnswerStep
<1>2. PICK k, ts : k \in PacketKind /\ k = x[1] /\ ts = x[2]
  BY <1>1
<1>3. PICK q, r, gone, off : /\ Answer(k, ts, q, r, gone, off)
                             /\ Died(k, ts, q, off) \/ Finished(k, ts, q, off)
  BY <1>1, <1>2
<1>4. SUFFICES ASSUME ~Stopped'
               PROVE  \E text, t : Registration(text, t)
  OBVIOUS
<1>5. Finished(k, ts, q, off) /\ Arrived(k, ts, 0)
  BY <1>3, <1>4 DEF Died, Finished
<1>6. Answered(k, ts, q, r, gone) /\ TypeOK
  <2>1. k \in PacketKind
    BY <1>2
  <2>2. Answered(k, ts, q, r, gone)
    BY <1>3, <1>5, <2>1, AnswerFacts
  <2> QED BY <2>2 DEF IInv
<1>7. PICK text, t : text = pkts[q].text /\ t = ts - pkts[q].ts
  OBVIOUS
<1>8. q = LastQuery(k.key) /\ phase = "read" /\ reg' = r
  BY <1>3 DEF Answer
<1>9. /\ q_stats' = record_query(q_stats, get_query_key(text), t)
      /\ table_stats' = update_from_query(table_stats, text, t)
  <2>1. AnsweredQuery(k, ts)
    BY <1>2
  <2>2. \/ Stopped'
        \/ /\ q_stats' = record_query(q_stats, get_query_key(pkts[LastQuery(k.key)].text), ts - pkts[LastQuery(k.key)].ts)
           /\ table_stats' = update_from_query(table_stats, pkts[LastQuery(k.key)].text, ts - pkts[LastQuery(k.key)].ts)
    <3>1. \A txt : KeyFails(txt) \subseteq {"died", "overrun"}
      BY DEF KeyFails
    <3>2. phase' \in KeyFails(pkts[LastQuery(k.key)].text) => Stopped'
      BY <3>1 DEF Stopped
    <3> QED BY <2>1, <3>2, Zenon DEF AnsweredQuery
  <2> QED BY <1>4, <1>7, <1>8, <2>2
<1>10. text \in Texts /\ q \in DOMAIN pkts
  BY <1>6, <1>7, PacketFacts DEF Answered, PacketType
<1>11. t \in Nat
  <2>1. ts \in Nat /\ time <= ts /\ pkts[q].ts \in Nat
    BY <1>5, <1>6, <1>10, PacketFacts DEF Arrived, PacketType
  <2>2. pkts[q].ts <= time
    BY <1>10 DEF IInv, InputOK
  <2>3. PICK start \in Nat : start = pkts[q].ts
    BY <2>1
  <2>4. PICK now \in Nat : now = time
    BY <1>6 DEF TypeOK
  <2>5. start <= now /\ now <= ts /\ t = ts - start
    BY <1>7, <2>1, <2>2, <2>3, <2>4
  <2> QED BY <2>1, <2>5
<1>12. /\ DOMAIN r = DOMAIN reg \cup {Len(reg) + 1} /\ \A i \in DOMAIN reg : r[i] = reg[i]
       /\ r[Len(reg) + 1].pkt = q /\ r[Len(reg) + 1].exec = t
  BY <1>6, <1>7 DEF Answered
<1>13. \A i \in DOMAIN pkts : pkts'[i] = pkts[i]
  <2>1. k \in PacketKind
    BY <1>2
  <2> QED BY <1>5, <1>6, <2>1, ArrivedFacts
<1>14. \A i \in DOMAIN reg : pkts'[reg[i].pkt] = pkts[reg[i].pkt]
  BY <1>6, <1>13, RegFacts
<1>15. pkts'[q].text = text
  BY <1>7, <1>10, <1>13
<1> QED BY <1>4, <1>8, <1>9, <1>10, <1>11, <1>12, <1>14, <1>15 DEF Registration, Stopped

LEMMA StatsNext ==
  ASSUME IInv, [Next]_vars
  PROVE  Stopped' \/ Unregistered \/ \E text, t : Registration(text, t)
<1>1. TypeOK
  BY DEF IInv
<1>2. ASSUME NEW x \in PacketsNow,
             Query(x[1], x[2]) \/ KeptPacket(x[1], x[2]) \/ Reply(x[1], x[2])
      PROVE  Unregistered
  <2>1. Quiet(x[1], x[2]) /\ x[1] \in PacketKind
    BY <1>2, QuietStep
  <2>2. PICK k, ts, last : k \in PacketKind /\ Quiet(k, ts) /\ Arrived(k, ts, last) /\ k = x[1] /\ ts = x[2]
    BY <2>1 DEF Quiet
  <2>3. UNCHANGED <<reg, statVars, phase>>
    BY <1>2 DEF Query, KeptPacket, Reply
  <2>4. \A i \in DOMAIN reg : pkts'[reg[i].pkt] = pkts[reg[i].pkt]
    BY <1>1, <2>2, RegFacts, ArrivedFacts
  <2> QED BY <2>3, <2>4 DEF Unregistered, statVars, Stopped
<1>3. ASSUME NEW x \in PacketsNow, AnsweredQuery(x[1], x[2])
      PROVE  Stopped' \/ \E text, t : Registration(text, t)
  BY <1>3, AnswerRegisters
<1>4. CASE \E key \in Keys : StreamEnd(key)
  BY <1>4 DEF StreamEnd, Unregistered, statVars, Stopped
<1>5. CASE EndOfFile \/ print_slow_queries \/ print_query_stats \/ DeleteSlow \/ DeleteStreams
  BY <1>5 DEF EndOfFile, print_slow_queries, print_query_stats, DeleteSlow, DeleteStreams,
              Unregistered, statVars, packetVars, Stopped
<1>6. CASE Exited \/ UNCHANGED vars
  BY <1>6 DEF Exited, vars, Unregistered, statVars, packetVars, Stopped
<1> QED BY <1>2, <1>3, <1>4, <1>5, <1>6 DEF Next

LEMMA PrintedNext ==
  ASSUME PrintedOK, [Next]_vars
  PROVE  PrintedOK'
<1>1. CASE printed' = printed /\ phase = "read"
  BY <1>1 DEF PrintedOK
<1>2. CASE \E x \in PacketsNow : \/ Query(x[1], x[2]) \/ KeptPacket(x[1], x[2])
                                 \/ Reply(x[1], x[2]) \/ AnsweredQuery(x[1], x[2])
  BY <1>1, <1>2, Zenon DEF Query, KeptPacket, Reply, AnsweredQuery, NextIs
<1>3. CASE (\E key \in Keys : StreamEnd(key)) \/ EndOfFile
  BY <1>1, <1>3 DEF StreamEnd, EndOfFile
<1>4. CASE print_slow_queries
  BY <1>4 DEF print_slow_queries, PrintedOK
<1>5. CASE print_query_stats
  BY <1>5 DEF print_query_stats, PrintedOK, statVars
<1>6. CASE DeleteSlow \/ DeleteStreams
  BY <1>6 DEF DeleteSlow, DeleteStreams, PrintedOK, statVars
<1>7. CASE Exited \/ UNCHANGED vars
  BY <1>7 DEF Exited, vars, PrintedOK, statVars
<1> QED BY <1>2, <1>3, <1>4, <1>5, <1>6, <1>7 DEF Next

LEMMA InitStats == Init => StatsInv
<1> SUFFICES ASSUME Init PROVE StatsInv
  OBVIOUS
<1>1. /\ reg = <<>> /\ q_stats = EmptyFun /\ table_stats = EmptyFun /\ phase = "read"
      /\ printed = [slow |-> <<>>, stats |-> EmptyFun]
  BY DEF Init
<1>2. DOMAIN reg = {} /\ DOMAIN q_stats = {} /\ DOMAIN table_stats = {} /\ DOMAIN printed.stats = {}
  BY <1>1 DEF EmptyFun
<1>3. \A k : MentionsOf(k) = {} /\ CountOf(table_stats, k) = 0
  BY <1>2 DEF MentionsOf, CountOf
<1>4. table_stats \in [DOMAIN table_stats -> Entry]
  BY <1>1, <1>2 DEF EmptyFun
<1>5. HistoryOK
  BY <1>2, <1>3, <1>4, FS_EmptySet DEF HistoryOK
<1>6. PrintedOK
  BY <1>1, <1>2 DEF PrintedOK
<1> QED BY <1>5, <1>6, InitIInv DEF StatsInv

LEMMA NextStats == StatsInv /\ [Next]_vars => StatsInv'
<1> SUFFICES ASSUME StatsInv, [Next]_vars PROVE StatsInv'
  OBVIOUS
<1>1. IInv /\ HistoryOK /\ PrintedOK /\ TypeOK
  BY DEF StatsInv, IInv
<1>2. IInv'
  BY <1>1, NextIInv
<1>3. HistoryOK'
  <2>1. CASE Stopped'
    BY <2>1 DEF HistoryOK
  <2>2. CASE Unregistered
    BY <1>1, <2>2, UnregisteredStep
  <2>3. CASE \E text, t : Registration(text, t)
    BY <1>1, <2>3, RegistrationStep
  <2> QED BY <1>1, <2>1, <2>2, <2>3, StatsNext
<1>4. PrintedOK'
  BY <1>1, PrintedNext
<1> QED BY <1>2, <1>3, <1>4 DEF StatsInv

-----------------------------------------------------------------------------
(* What the extremes of a key are.                                         *)
LEMMA ExtremesOf ==
  ASSUME TypeOK, NEW s, NEW I \in SUBSET (DOMAIN reg), I # {}, Recorded(reg, s, I)
  PROVE  StatsOf(s, I) /\ Printed(s)
<1>1. \A i \in I : reg[i].exec \in Nat
  BY RegFacts
<1>2. /\ (\E i \in I : reg[i].exec = s.min) /\ \A i \in I : s.min <= reg[i].exec
      /\ (\E i \in I : reg[i].exec = s.max) /\ \A i \in I : reg[i].exec <= s.max
  BY DEF Recorded, Extremes
<1> DEFINE E == {reg[i].exec : i \in I}
<1>3. s.min \in E /\ s.max \in E /\ E \subseteq Nat /\ \A x \in E : s.min <= x /\ x <= s.max
  BY <1>1, <1>2
<1> HIDE DEF E
<1>4. Min(E) = s.min
  <2>1. ASSUME NEW x \in E, \A y \in E : x <= y PROVE x = s.min
    <3>1. x \in Nat /\ s.min \in Nat /\ x <= s.min /\ s.min <= x
      BY <1>3, <2>1
    <3> QED BY <3>1
  <2> QED BY <1>3, <2>1 DEF Min
<1>5. Max(E) = s.max
  <2>1. ASSUME NEW x \in E, \A y \in E : x >= y PROVE x = s.max
    <3>1. x \in Nat /\ s.max \in Nat /\ x <= s.max /\ s.max <= x
      BY <1>3, <2>1
    <3> QED BY <3>1
  <2>2. \A y \in E : s.max >= y
    BY <1>3
  <2> QED BY <1>3, <2>1, <2>2 DEF Max
<1>6. s.n = Len(s.times) /\ s.total = SumOf(s.times) /\ TimesInOrder(s.times, I)
  BY DEF Recorded, Ranked, Rank, TimesInOrder
<1>7. StatsOf(s, I)
  BY <1>4, <1>5, <1>6 DEF StatsOf, E
<1>8. IsFiniteSet(I) /\ Cardinality(I) \in Nat /\ Cardinality(I) # 0
  <2>1. IsFiniteSet(DOMAIN reg)
    <3>1. PICK n \in Nat : DOMAIN reg = 1 .. n
      BY RegFacts
    <3> QED BY <3>1, FS_Interval
  <2> QED BY <2>1, FS_Subset, FS_CardinalityType, FS_EmptySet
<1>9. Printed(s)
  <2>1. Len(s.times) = Cardinality(I)
    BY DEF Recorded, Ranked
  <2> QED BY <1>6, <1>8, <2>1 DEF Recorded, StatsType, Printed
<1> QED BY <1>7, <1>9

(* q_stats and table_stats after each register_query are a recount of all  *)
(* queries registered so far: the keys are those that get_query_key gives  *)
(* for them, the times of a key stand in the order of the capture with     *)
(* their number, extremes and sum, and each table and type of statement    *)
(* counts every mention in their texts once.                               *)
THEOREM Recount == Spec => []StatsMatchHistory
<1>1. StatsInv => StatsMatchHistory
  <2> SUFFICES ASSUME StatsInv, ~Stopped PROVE StatsMatchHistory
    BY DEF StatsMatchHistory
  <2>1. HistoryOK /\ TypeOK
    BY DEF StatsInv, IInv
  <2>2. ASSUME NEW key \in DOMAIN q_stats
        PROVE  StatsOf(q_stats[key], {i \in DOMAIN reg : KeyAt(i) = key})
    <3>1. PositionsOf(key) # {} /\ PositionsOf(key) \in SUBSET (DOMAIN reg)
      BY <2>1 DEF HistoryOK, PositionsOf
    <3>2. Recorded(reg, q_stats[key], PositionsOf(key))
      BY <2>1 DEF HistoryOK
    <3>3. StatsOf(q_stats[key], PositionsOf(key))
      BY <2>1, <3>1, <3>2, ExtremesOf
    <3> QED BY <3>3 DEF PositionsOf
  <2>3. \A k \in DOMAIN table_stats : table_stats[k].n = Cardinality(MentionsOf(k))
    BY <2>1 DEF HistoryOK, CountOf
  <2> QED BY <2>1, <2>2, <2>3 DEF HistoryOK, StatsMatchHistory
<1> QED BY <1>1, InitStats, NextStats, PTL DEF Spec

LEMMA LowestMatches ==
  ASSUME NEW t, NEW matching, matching = {p \in DOMAIN Patterns : Patterns[p][t].out = "match"},
         matching # {}
  PROVE  FirstMatch(Min(matching), t)
<1>1. matching \in SUBSET Nat
  <2>1. PICK n \in Nat : DOMAIN Patterns = 1 .. n
    BY PatternFacts
  <2>2. \A p \in 1 .. n : p \in Nat
    OBVIOUS
  <2> QED BY <2>1, <2>2
<1>2. \E x \in matching : \A y \in matching : x <= y
  BY <1>1, NatMin
<1>3. PICK p : p = Min(matching)
  OBVIOUS
<1>4. p \in matching /\ \A y \in matching : p <= y
  BY <1>2, <1>3 DEF Min
<1>5. ASSUME NEW y \in matching, y < p PROVE FALSE
  <2>1. y \in Nat /\ p \in Nat /\ p <= y
    BY <1>1, <1>4
  <2> QED BY <1>5, <2>1
<1>6. \A y \in DOMAIN Patterns : y < p => Patterns[y][t].out # "match"
  BY <1>5
<1> QED BY <1>3, <1>4, <1>6 DEF FirstMatch

(* A query stands under its key, at its place among the queries of it.     *)
LEMMA CountedUnderKey ==
  ASSUME StatsInv, ~Stopped, NEW i \in DOMAIN reg, NEW key, KeyAt(i) = key
  PROVE  CountedUnder(i, key)
<1>1. HistoryOK /\ TypeOK
  BY DEF StatsInv, IInv
<1>2. key \in DOMAIN q_stats
  BY <1>1 DEF HistoryOK
<1>3. Recorded(reg, q_stats[key], PositionsOf(key))
  BY <1>1, <1>2 DEF HistoryOK
<1>4. i \in PositionsOf(key)
  BY DEF PositionsOf
<1>5. PICK times : times = q_stats[key].times
  OBVIOUS
<1>6. times[Cardinality({j \in PositionsOf(key) : j <= i})] = reg[i].exec
  BY <1>3, <1>4, <1>5 DEF Recorded, Ranked, Rank
<1>7. {j \in PositionsOf(key) : j <= i} = {j \in DOMAIN reg : KeyAt(j) = key /\ j <= i}
  BY DEF PositionsOf
<1> QED BY <1>2, <1>5, <1>6, <1>7 DEF CountedUnder

(* A text that no pattern matches has the empty key.                       *)
LEMMA KeyOfNone ==
  ASSUME NEW t, \A p \in DOMAIN Patterns : Patterns[p][t].out # "match"
  PROVE  get_query_key(t) = ""
BY DEF get_query_key, Applying, apply

(* As long as the program was not stopped in get_query_key, each query is  *)
(* counted under the key of the first pattern that matches it whenever     *)
(* that key is shorter than the text, whatever the patterns before it did  *)
(* to the length they share, and under the empty key when none matches     *)
(* (get_query_key, Query_pattern::apply).                                  *)
THEOREM FirstMatchCounts == Spec => []KeyOfFirstMatch
<1>1. StatsInv => KeyOfFirstMatch
  <2> SUFFICES ASSUME StatsInv, ~Stopped, NEW i \in DOMAIN reg, NEW t, t = pkts[reg[i].pkt].text,
                      NEW matching, matching = {p \in DOMAIN Patterns : Patterns[p][t].out = "match"}
               PROVE  IF matching = {} THEN CountedUnder(i, "")
                      ELSE Patterns[Min(matching)][t].len
                             < (IF Min(matching) = 1 THEN BufLen ELSE TextLen[t])
                             => CountedUnder(i, Patterns[Min(matching)][t].key)
    BY DEF KeyOfFirstMatch
  <2>1. t \in Texts
    <3>1. HistoryOK /\ TypeOK
      BY DEF StatsInv, IInv
    <3> QED BY <3>1, RegFacts, PacketFacts DEF PacketType
  <2>2. CASE matching = {}
    <3>1. KeyAt(i) = ""
      BY <2>2, KeyOfNone DEF KeyAt
    <3> QED BY <2>2, <3>1, CountedUnderKey
  <2>3. ASSUME matching # {}, NEW p, p = Min(matching),
               Patterns[p][t].len < (IF p = 1 THEN BufLen ELSE TextLen[t])
        PROVE  CountedUnder(i, Patterns[p][t].key)
    <3>1. FirstMatch(p, t)
      BY <2>3, LowestMatches
    <3>2. KeyAt(i) = Patterns[p][t].key
      BY <2>1, <2>3, <3>1, KeyOfFirst DEF KeyAt
    <3> QED BY <3>2, CountedUnderKey
  <2> QED BY <2>2, <2>3
<1> QED BY <1>1, InitStats, NextStats, PTL DEF Spec

(* Only the registration of a query can run over lookup_key.               *)
LEMMA OverrunStep ==
  ASSUME IInv, [Next]_vars, phase # "overrun", phase' = "overrun"
  PROVE  \E text \in Texts : "overrun" \in KeyFails(text)
<1>1. PICK x \in PacketsNow : AnsweredQuery(x[1], x[2])
  <2>1. Next
    BY DEF vars
  <2>2. ASSUME NEW x \in PacketsNow, Query(x[1], x[2]) \/ KeptPacket(x[1], x[2]) \/ Reply(x[1], x[2])
        PROVE  FALSE
    BY <2>2 DEF Query, KeptPacket, Reply
  <2>3. ASSUME NEW key \in Keys, StreamEnd(key) PROVE FALSE
    BY <2>3 DEF StreamEnd
  <2>4. ~EndOfFile /\ ~print_slow_queries /\ ~print_query_stats /\ ~DeleteSlow /\ ~DeleteStreams /\ ~Exited
    BY DEF EndOfFile, print_slow_queries, print_query_stats, DeleteSlow, DeleteStreams, Exited, vars
  <2> QED BY <2>1, <2>2, <2>3, <2>4 DEF Next
<1>2. x[1] \in PacketKind /\
      \E q, r, gone, off : /\ Answer(x[1], x[2], q, r, gone, off)
                           /\ Died(x[1], x[2], q, off) \/ Finished(x[1], x[2], q, off)
  BY <1>1, AnswerStep
<1>3. PICK k, ts : k \in PacketKind /\ k = x[1] /\ ts = x[2]
  BY <1>2
<1>4. PICK q, r, gone, off : /\ Answer(k, ts, q, r, gone, off)
                             /\ Died(k, ts, q, off) \/ Finished(k, ts, q, off)
  BY <1>2, <1>3
<1>5. PICK last : Arrived(k, ts, last)
  BY <1>4 DEF Died, Finished
<1>6. Answered(k, ts, q, r, gone) /\ TypeOK /\ q = LastQuery(k.key)
  <2>1. Answered(k, ts, q, r, gone)
    BY <1>3, <1>4, <1>5, AnswerFacts
  <2> QED BY <1>4, <2>1 DEF Answer, IInv
<1>7. "overrun" \in KeyFails(pkts[q].text)
  <2>1. AnsweredQuery(k, ts)
    BY <1>1, <1>3
  <2> QED BY <1>6, <2>1, Zenon DEF AnsweredQuery
<1> QED BY <1>6, <1>7, PacketFacts DEF Answered, PacketType

(* The program runs over lookup_key only behind a pattern that was short   *)
(* of room and left PCRE2_UNSET for its successors, never in the first     *)
(* one, for any list of patterns and any texts (get_query_key,             *)
(* Query_pattern::apply).                                                  *)
OverrunBehindNoMemory ==
  phase = "overrun" =>
    \E t \in Texts, i \in DOMAIN Patterns, j \in DOMAIN Patterns :
      Overruns(i, t) /\ j < i /\ ~Fits(j, t)

THEOREM OverrunOnlyThen == Spec => []OverrunBehindNoMemory
<1>1. Init => OverrunBehindNoMemory
  BY DEF Init, OverrunBehindNoMemory
<1>2. ASSUME StatsInv, OverrunBehindNoMemory, [Next]_vars PROVE OverrunBehindNoMemory'
  <2> SUFFICES ASSUME phase' = "overrun"
               PROVE  \E t \in Texts, i \in DOMAIN Patterns, j \in DOMAIN Patterns :
                        Overruns(i, t) /\ j < i /\ ~Fits(j, t)
    BY DEF OverrunBehindNoMemory
  <2>1. CASE phase = "overrun"
    BY <1>2, <2>1 DEF OverrunBehindNoMemory
  <2>2. CASE phase # "overrun"
    <3>1. IInv
      BY <1>2 DEF StatsInv
    <3>2. PICK text \in Texts : "overrun" \in KeyFails(text)
      BY <1>2, <2>2, <3>1, OverrunStep
    <3>3. PICK i \in DOMAIN Patterns : Overruns(i, text)
      <4>1. PICK i \in Stops(text) : Overruns(i, text)
        BY <3>2 DEF KeyFails
      <4> QED BY <4>1 DEF Stops
    <3> QED BY <3>3, OverrunIsLate
  <2> QED BY <2>1, <2>2
<1> QED BY <1>1, <1>2, InitStats, NextStats, PTL DEF Spec

(* The 95th percentile that Query_stats::print writes is not above the     *)
(* longest time nor, except for two samples, below the median, and is at   *)
(* most one sample below the nearest-rank percentile, for any times.       *)
THEOREM PercentileBounds == Spec => []PercentileReported
<1>1. StatsInv => PercentileReported
  <2> SUFFICES ASSUME StatsInv, NEW key \in DOMAIN printed.stats, NEW p, p = printed.stats[key]
               PROVE  /\ p.n # 2 => p.median2 <= 2 * p.pct95
                      /\ p.pct95 <= p.max
                      /\ 100 * (NotAbove(q_stats[key].times, p.pct95) + 1) > 95 * p.n
                      /\ 100 * NotAbove(q_stats[key].times, p.pct95 - 1) < 95 * p.n
    BY DEF PercentileReported, NotAbove
  <2>1. ~Stopped /\ key \in DOMAIN q_stats /\ p = PrintedStats(q_stats[key])
    BY DEF StatsInv, PrintedOK, Stopped
  <2>2. PICK s : s = q_stats[key]
    OBVIOUS
  <2>3. Printed(s)
    <3>1. HistoryOK /\ TypeOK
      BY DEF StatsInv, IInv
    <3>2. PositionsOf(key) # {} /\ PositionsOf(key) \in SUBSET (DOMAIN reg)
      BY <2>1, <3>1 DEF HistoryOK, PositionsOf
    <3>3. Recorded(reg, s, PositionsOf(key))
      BY <2>1, <2>2, <3>1 DEF HistoryOK
    <3> QED BY <3>1, <3>2, <3>3, ExtremesOf
  <2> QED BY <2>1, <2>2, <2>3, PercentileOf
<1> QED BY <1>1, InitStats, NextStats, PTL DEF Spec
=============================================================================
