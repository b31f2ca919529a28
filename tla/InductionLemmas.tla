--------------------------- MODULE InductionLemmas ---------------------------
(***************************************************************************)
(* What the proofs about recursive functions rest on, over sets instead of *)
(* the predicates that the library's theorems take: every set of numbers   *)
(* has a least one, induction, and the existence of a function that is     *)
(* defined from its value at the number before.                            *)
(***************************************************************************)
EXTENDS Integers, WellFoundedInduction, TLAPS

(* A set of numbers has a least element.                                   *)
LEMMA NatMin ==
  ASSUME NEW T \in SUBSET Nat, T # {}
  PROVE  \E x \in T : \A y \in T : x <= y
<1> DEFINE R == {ss \in Nat \X Nat : ss[1] < ss[2]}
<1>1. IsWellFoundedOn(R, Nat)
  BY NatLessThanWellFounded DEF OpToRel
<1>2. \E x \in T : \A y \in T : ~ (<<y, x>> \in R)
  <2> HIDE DEF R
  <2> QED BY <1>1, WFMin
<1>3. \A x, y \in T : ~ (<<y, x>> \in R) => x <= y
  OBVIOUS
<1> QED BY <1>2, <1>3

(* Induction up to n, on the set of the numbers that have a property.      *)
LEMMA Induction ==
  ASSUME NEW n \in Nat, NEW P, 0 \in P, \A i \in 1 .. n : i - 1 \in P => i \in P
  PROVE  \A i \in 0 .. n : i \in P
<1> SUFFICES ASSUME {i \in 0 .. n : i \notin P} # {}
             PROVE  FALSE
  OBVIOUS
<1> DEFINE Bad == {i \in 0 .. n : i \notin P}
<1>1. PICK m \in Bad : \A i \in Bad : m <= i
  <2>1. Bad \in SUBSET Nat /\ Bad # {}
    OBVIOUS
  <2> HIDE DEF Bad
  <2> QED BY <2>1, NatMin
<1>2. m \in 1 .. n /\ m - 1 \notin Bad
  BY <1>1
<1> QED BY <1>1, <1>2

(* A function on 0 .. n defined from its value at i - 1 exists.            *)
Iterates(f, n, base, step) == f[0] = base /\ \A i \in 1 .. n : f[i] = step[i][f[i - 1]]

LEMMA Recursion ==
  ASSUME NEW n \in Nat, NEW S, NEW base \in S, NEW step \in [1 .. n -> [S -> S]]
  PROVE  \E f \in [0 .. n -> S] : Iterates(f, n, base, step)
<1> DEFINE Good(f, m) == /\ f \in [0 .. m -> S] /\ f[0] = base
                         /\ \A i \in 1 .. m : f[i] = step[i][f[i - 1]]
           P == {m \in 0 .. n : \E f : Good(f, m)}
<1>1. 0 \in P
  <2>1. Good([i \in 0 .. 0 |-> base], 0)
    OBVIOUS
  <2>2. 0 \in 0 .. n
    OBVIOUS
  <2> HIDE DEF Good
  <2> QED BY <2>1, <2>2
<1>2. ASSUME NEW m \in 1 .. n, m - 1 \in P
      PROVE  m \in P
  <2>1. PICK f : Good(f, m - 1)
    BY <1>2
  <2> DEFINE g == [i \in 0 .. m |-> IF i = m THEN step[m][f[m - 1]] ELSE f[i]]
  <2>2. \A i \in 0 .. m : i # m => i \in 0 .. (m - 1) /\ f[i] \in S
    BY <2>1
  <2>3. f[m - 1] \in S /\ step[m] \in [S -> S]
    BY <2>1
  <2>4. step[m][f[m - 1]] \in S
    BY <2>3
  <2>5. g \in [0 .. m -> S] /\ g[0] = base
    BY <2>1, <2>2, <2>4
  <2>6. ASSUME NEW i \in 1 .. m
        PROVE  g[i] = step[i][g[i - 1]]
    <3>1. i - 1 \in 0 .. m /\ i - 1 # m /\ g[i - 1] = f[i - 1]
      OBVIOUS
    <3>2. CASE i = m
      BY <3>1, <3>2
    <3>3. CASE i # m
      BY <2>1, <3>1, <3>3
    <3> QED BY <3>2, <3>3
  <2> HIDE DEF g
  <2>7. Good(g, m)
    BY <2>5, <2>6
  <2>8. m \in 0 .. n
    OBVIOUS
  <2> HIDE DEF Good
  <2> QED BY <2>7, <2>8
<1>3. n \in P
  <2>1. \A m \in 1 .. n : m - 1 \in P => m \in P
    BY <1>2
  <2> HIDE DEF P
  <2>2. \A i \in 0 .. n : i \in P
    BY <1>1, <2>1, Induction
  <2> QED BY <2>2
<1>4. PICK f : Good(f, n)
  BY <1>3
<1> QED BY <1>4 DEF Iterates
=============================================================================
