---------------------------- MODULE LoopTheorems ----------------------------
(***************************************************************************)
(* Facts about numbers and loops that the proofs share.  A loop of the     *)
(* code that a model writes as a recursive function over 1..n is reasoned  *)
(* about through the list of its states, Run, and by UpTo, which stands    *)
(* for induction on the number of turns.                                   *)
(***************************************************************************)
EXTENDS Integers, FiniteSetsExt, WellFoundedInduction, TLAPS

(* A set of naturals that is not empty has a least element.                *)
LEMMA Least ==
  ASSUME NEW S \in SUBSET Nat, S # {}
  PROVE  \E m \in S : \A k \in S : m <= k
<1>1. IsWellFoundedOn(OpToRel(<, Nat), Nat)
  BY NatLessThanWellFounded
<1>2. PICK m \in S : \A k \in S : <<k, m>> \notin OpToRel(<, Nat)
  BY <1>1, WFMin
<1>3. \A k \in S : ~(k < m)
  BY <1>2 DEF OpToRel
<1>4. ASSUME NEW k \in S PROVE m <= k
  <2>1. ~(k < m) /\ k \in Nat /\ m \in Nat
    BY <1>3
  <2> QED BY <2>1
<1> QED BY <1>4

(* What holds at 0, and at i + 1 where it holds at i, holds up to n.       *)
LEMMA UpTo ==
  ASSUME NEW n \in Nat, NEW S, 0 \in S, \A i \in 1..n : i - 1 \in S => i \in S
  PROVE  0..n \subseteq S
<1> SUFFICES ASSUME 0..n \ S # {} PROVE FALSE
  OBVIOUS
<1>1. PICK m \in 0..n \ S : \A k \in 0..n \ S : m <= k
  <2>1. 0..n \ S \in SUBSET Nat
    OBVIOUS
  <2> QED BY <2>1, Least
<1>2. m \in 1..n /\ m - 1 \in S
  BY <1>1
<1> QED BY <1>1, <1>2

(* A bounded set of naturals has one greatest element, which Max returns.  *)
LEMMA MaxOf ==
  ASSUME NEW n \in Nat, NEW S \in SUBSET (1..n), S # {}
  PROVE  Max(S) \in S /\ \A k \in S : k <= Max(S)
<1>1. PICK g \in S : \A k \in S : k <= g
  <2> DEFINE T == {n - k : k \in S}
  <2>1. PICK t \in T : \A k \in T : t <= k
    <3>1. \A k \in S : n - k \in Nat
      OBVIOUS
    <3>2. T \in SUBSET Nat /\ T # {}
      BY <3>1
    <3> HIDE DEF T
    <3> QED BY <3>2, Least
  <2>2. PICK h \in S : t = n - h
    BY <2>1
  <2>3. \A k \in S : n - h <= n - k
    BY <2>1, <2>2
  <2>4. \A k \in S : k <= h
    BY <2>3
  <2> QED BY <2>4
<1> QED BY <1>1 DEF Max

(* A natural is even or odd. *)
LEMMA Halves == \A k \in Nat : \E j \in Nat : k = 2 * j \/ k = 2 * j + 1
<1> SUFFICES ASSUME NEW k \in Nat PROVE \E j \in Nat : k = 2 * j \/ k = 2 * j + 1
  OBVIOUS
<1>1. k \div 2 \in Nat /\ (k = 2 * (k \div 2) \/ k = 2 * (k \div 2) + 1)
  OBVIOUS
<1> QED BY <1>1

(* f lists the states, all in X, of a loop over 1..n that begins with x    *)
(* and whose turn i is g[i].                                               *)
Run(f, n, X, x, g) ==
    f \in [0..n -> X] /\ f[0] = x /\ \A i \in 1..n : f[i] = g[i][f[i - 1]]

(* Such a loop has a state after every turn. *)
LEMMA Iterates ==
  ASSUME NEW n \in Nat, NEW X, NEW x \in X, NEW g \in [1..n -> [X -> X]]
  PROVE  \E f : Run(f, n, X, x, g)
<1> DEFINE Good(m) == \E f \in [0..m -> X] : f[0] = x /\ \A i \in 1..m : f[i] = g[i][f[i - 1]]
           S == {m \in 0..n : Good(m)}
<1>1. Good(0)
  <2> DEFINE f == [i \in 0..0 |-> x]
  <2>1. f \in [0..0 -> X] /\ f[0] = x /\ \A i \in 1..0 : f[i] = g[i][f[i - 1]]
    OBVIOUS
  <2> QED BY <2>1
<1>2. ASSUME NEW m \in 1..n, Good(m - 1) PROVE Good(m)
  <2>1. PICK f \in [0..m - 1 -> X] : f[0] = x /\ \A i \in 1..m - 1 : f[i] = g[i][f[i - 1]]
    BY <1>2
  <2> DEFINE h == [i \in 0..m |-> IF i = m THEN g[m][f[m - 1]] ELSE f[i]]
  <2>2. h \in [0..m -> X]
    OBVIOUS
  <2>3. h[0] = x
    BY <2>1
  <2>4. ASSUME NEW i \in 1..m PROVE h[i] = g[i][h[i - 1]]
    <3>1. h[i - 1] = f[i - 1]
      OBVIOUS
    <3>2. CASE i = m
      <4>1. h[i] = g[m][f[m - 1]]
        BY <3>2
      <4> QED BY <3>1, <3>2, <4>1
    <3>3. CASE i # m
      <4>1. i \in 1..m - 1 /\ h[i] = f[i]
        BY <3>3
      <4> QED BY <2>1, <3>1, <4>1
    <3> QED BY <3>2, <3>3
  <2> QED BY <2>2, <2>3, <2>4
<1>3. 0..n \subseteq S
  <2>1. 0 \in S
    BY <1>1
  <2>2. \A i \in 1..n : i - 1 \in S => i \in S
    <3> HIDE DEF Good
    <3> QED BY <1>2
  <2> HIDE DEF S
  <2> QED BY <2>1, <2>2, UpTo
<1> QED BY <1>3 DEF Run
=============================================================================
