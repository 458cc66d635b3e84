---------------------------- MODULE FoldTheorems ----------------------------
(***************************************************************************)
(* Facts about FoldLeft.  A model that folds an operator over a sequence   *)
(* is reasoned about through an instance of this module for that operator: *)
(* the states the fold goes through, and what one more entry does.         *)
(***************************************************************************)
EXTENDS LoopTheorems, SequencesExt

CONSTANT Op(_, _)

Folded(base, es) == FoldLeft(Op, base, es)

(* Every entry of es leads from X to X. *)
Steps(X, es) == \A i \in 1..Len(es) : \A x \in X : Op(x, es[i]) \in X

(* f lists the states of the fold. *)
Turns(f, X, base, es) ==
    /\ f \in [0..Len(es) -> X]
    /\ f[0] = base /\ f[Len(es)] = Folded(base, es)
    /\ \A i \in 1..Len(es) : f[i] = Op(f[i - 1], es[i])

(* h is what a fold makes of each set of indices of a sequence, the last   *)
(* of which is taken at the end.                                           *)
FoldOver(h, n, X, x, g) ==
    /\ h \in [SUBSET (1..n) -> X] /\ h[{}] = x
    /\ \A s \in SUBSET (1..n) : s # {} => h[s] = g[Max(s)][h[s \ {Max(s)}]]

(* Such a fold exists over the indices up to n. *)
LEMMA FoldsOver ==
  ASSUME NEW n \in Nat, NEW X, NEW x \in X, NEW g \in [1..n -> [X -> X]]
  PROVE  \E h : FoldOver(h, n, X, x, g)
<1> DEFINE S == {m \in 0..n : \E h : FoldOver(h, m, X, x, g)}
<1>1. 0 \in S
  <2> DEFINE h == [s \in SUBSET (1..0) |-> x]
  <2>1. SUBSET (1..0) = {{}}
    OBVIOUS
  <2>2. FoldOver(h, 0, X, x, g)
    BY <2>1 DEF FoldOver
  <2> QED BY <2>2
<1>2. ASSUME NEW m \in 1..n, m - 1 \in S PROVE m \in S
  <2>1. PICK f : FoldOver(f, m - 1, X, x, g)
    BY <1>2
  <2> DEFINE h == [s \in SUBSET (1..m) |-> IF m \in s THEN g[m][f[s \ {m}]] ELSE f[s]]
  <2>2. ASSUME NEW s \in SUBSET (1..m)
        PROVE  /\ s \ {m} \in SUBSET (1..m - 1) /\ m \notin s => s \in SUBSET (1..m - 1)
               /\ s # {} => Max(s) \in s /\ \A k \in s : k <= Max(s)
    <3>1. \A k \in 1..m : k # m => k \in 1..m - 1
      OBVIOUS
    <3>2. m \in Nat
      OBVIOUS
    <3>3. s # {} => Max(s) \in s /\ \A k \in s : k <= Max(s)
      BY <3>2, MaxOf
    <3> QED BY <3>1, <3>3
  <2>3. h \in [SUBSET (1..m) -> X]
    BY <2>1, <2>2 DEF FoldOver
  <2>4. h[{}] = x
    BY <2>1 DEF FoldOver
  <2>5. ASSUME NEW s \in SUBSET (1..m), s # {} PROVE h[s] = g[Max(s)][h[s \ {Max(s)}]]
    <3>0. Max(s) \in 1..m /\ m \in Nat /\ s \ {Max(s)} \in SUBSET (1..m)
      <4>1. Max(s) \in s /\ s \subseteq 1..m
        BY <2>2, <2>5
      <4> HIDE DEF h
      <4>2. Max(s) \in 1..m
        BY <4>1
      <4>3. m \in Nat
        OBVIOUS
      <4>4. s \ {Max(s)} \in SUBSET (1..m)
        BY <4>1
      <4> QED BY <4>2, <4>3, <4>4
    <3>1. CASE m \in s
      <4>1. Max(s) = m
        <5>1. Max(s) <= m /\ m <= Max(s) /\ Max(s) \in Nat /\ m \in Nat
          BY <2>2, <2>5, <3>0, <3>1
        <5> HIDE DEF h
        <5> QED BY <5>1
      <4>2. h[s] = g[m][f[s \ {m}]] /\ h[s \ {m}] = f[s \ {m}]
        BY <3>0, <3>1, <4>1
      <4> QED BY <4>1, <4>2
    <3>2. CASE m \notin s
      <4>1. h[s] = f[s] /\ h[s \ {Max(s)}] = f[s \ {Max(s)}]
        BY <3>0, <3>2
      <4>2. f[s] = g[Max(s)][f[s \ {Max(s)}]]
        <5>1. s \in SUBSET (1..m - 1)
          BY <2>2, <3>2
        <5> HIDE DEF h
        <5> QED BY <2>1, <2>5, <5>1 DEF FoldOver
      <4> QED BY <4>1, <4>2
    <3> QED BY <3>1, <3>2
  <2> HIDE DEF h
  <2>6. FoldOver(h, m, X, x, g)
    BY <2>3, <2>4, <2>5 DEF FoldOver
  <2> QED BY <2>6
<1>3. 0..n \subseteq S
  <2> HIDE DEF S
  <2> QED BY <1>1, <1>2, UpTo
<1> QED BY <1>3

(* A fold that stays in X has a state in X after every entry. *)
LEMMA FoldTurns ==
  ASSUME NEW X, NEW base \in X, NEW es, Len(es) \in Nat, DOMAIN es = 1..Len(es), Steps(X, es)
  PROVE  \E f : Turns(f, X, base, es)
<1> DEFINE n == Len(es)
<1>0. n \in Nat /\ DOMAIN es = 1..n /\ \A i \in 1..n : \A x \in X : Op(x, es[i]) \in X
  BY DEF Steps
<1> HIDE DEF n
<1> DEFINE g == [i \in 1..n |-> [x \in X |-> Op(x, es[i])]]
           Iter(h) == h = [s \in SUBSET (1..n) |->
                        IF s = {} THEN base ELSE LET x == Max(s) IN Op(h[s \ {x}], es[x])]
           iter == CHOOSE h : Iter(h)
<1>1. Folded(base, es) = iter[1..n]
  BY <1>0 DEF Folded, FoldLeft, MapThenFoldSet
<1>2. PICK h : FoldOver(h, n, X, base, g)
  <2>1. g \in [1..n -> [X -> X]]
    BY <1>0
  <2> HIDE DEF g
  <2> QED BY <1>0, <2>1, FoldsOver
<1>3. h \in [SUBSET (1..n) -> X] /\ h[{}] = base
  BY <1>2 DEF FoldOver
<1>4. ASSUME NEW s \in SUBSET (1..n), s # {}
      PROVE  Max(s) \in s /\ h[s] = Op(h[s \ {Max(s)}], es[Max(s)])
  <2>1. Max(s) \in s
    BY <1>0, <1>4, MaxOf
  <2>2. h[s] = g[Max(s)][h[s \ {Max(s)}]]
    BY <1>2, <1>4 DEF FoldOver
  <2>3. h[s \ {Max(s)}] \in X
    BY <1>3
  <2> QED BY <2>1, <2>2, <2>3
<1>5. Iter(h)
  <2> HIDE DEF g
  <2> QED BY <1>3, <1>4
<1>6. Iter(iter)
  <2> HIDE DEF Iter, g
  <2> QED BY <1>5
<1> DEFINE f == [i \in 0..n |-> iter[1..i]]
<1> HIDE DEF iter, g
<1>7. ASSUME NEW i \in 1..n
      PROVE  /\ 1..i \in SUBSET (1..n) /\ 1..i # {} /\ (1..i) \ {Max(1..i)} = 1..i - 1
             /\ Max(1..i) = i
  <2>0. i \in Nat /\ i \in 1..i /\ 1..i \in SUBSET (1..i) /\ 1..i \in SUBSET (1..n)
    BY <1>0
  <2>1. Max(1..i) \in 1..i /\ \A k \in 1..i : k <= Max(1..i)
    BY <2>0, MaxOf
  <2>2. Max(1..i) = i
    <3>1. Max(1..i) \in Nat /\ Max(1..i) <= i /\ i <= Max(1..i)
      BY <2>0, <2>1
    <3> QED BY <2>0, <3>1
  <2>3. (1..i) \ {i} = 1..i - 1
    BY <2>0
  <2> QED BY <2>0, <2>2, <2>3
<1>8. ASSUME NEW i \in 1..n PROVE f[i] = Op(f[i - 1], es[i])
  <2>1. f[i] = iter[1..i] /\ f[i - 1] = iter[1..i - 1]
    BY <1>0
  <2>2. iter[1..i] = Op(iter[(1..i) \ {Max(1..i)}], es[Max(1..i)])
    <3>1. 1..i \in SUBSET (1..n) /\ 1..i # {}
      BY <1>7
    <3> QED BY <1>6, <3>1
  <2> HIDE DEF f, Iter
  <2> QED BY <1>7, <2>1, <2>2
<1>9. f[0] = base
  <2>1. 1..0 = {} /\ {} \in SUBSET (1..n) /\ 0 \in 0..n
    BY <1>0
  <2>2. iter[{}] = base
    BY <1>6, <2>1
  <2> QED BY <2>1, <2>2
<1>10. \A i \in 0..n : f[i] \in X
  <2> DEFINE S == {i \in 0..n : f[i] \in X}
  <2>1. 0 \in S
    BY <1>0, <1>9
  <2>2. ASSUME NEW i \in 1..n, i - 1 \in S PROVE i \in S
    <3>1. f[i - 1] \in X /\ i \in 0..n
      BY <2>2
    <3> HIDE DEF f
    <3> QED BY <1>0, <1>8, <3>1
  <2>3. 0..n \subseteq S
    <3> HIDE DEF S
    <3> QED BY <1>0, <2>1, <2>2, UpTo
  <2> QED BY <2>3
<1>11. f \in [0..n -> X]
  BY <1>10
<1>12. f[n] = Folded(base, es)
  BY <1>0, <1>1
<1> HIDE DEF f
<1> QED BY <1>8, <1>9, <1>11, <1>12 DEF Turns, n

(* A fold over nothing returns what it began with. *)
LEMMA FoldOfNone ==
  ASSUME NEW base
  PROVE  Folded(base, <<>>) = base
<1>1. Steps({base}, <<>>) /\ Len(<<>>) = 0 /\ DOMAIN <<>> = 1..0
  BY DEF Steps
<1>2. PICK f : Turns(f, {base}, base, <<>>)
  BY <1>1, FoldTurns
<1> QED BY <1>1, <1>2 DEF Turns

(* One more entry is one more turn. *)
LEMMA FoldOfOneMore ==
  ASSUME NEW X, NEW base \in X, NEW S, NEW es \in Seq(S), NEW e \in S, Steps(X, Append(es, e))
  PROVE  Folded(base, Append(es, e)) = Op(Folded(base, es), e)
<1> DEFINE n == Len(es)
           ee == Append(es, e)
<1>1. /\ n \in Nat /\ DOMAIN es = 1..n /\ Len(ee) = n + 1 /\ DOMAIN ee = 1..n + 1
      /\ ee[n + 1] = e /\ \A i \in 1..n : ee[i] = es[i]
  OBVIOUS
<1> HIDE DEF n, ee
<1>2. PICK f : Turns(f, X, base, ee)
  BY <1>1, FoldTurns DEF ee
<1>3. PICK g : Turns(g, X, base, es)
  <2>1. Steps(X, es)
    BY <1>1 DEF Steps, n, ee
  <2> QED BY <1>1, <2>1, FoldTurns DEF n
<1>4. /\ f[0] = base /\ f[n + 1] = Folded(base, ee) /\ \A i \in 1..n + 1 : f[i] = Op(f[i - 1], ee[i])
      /\ g[0] = base /\ g[n] = Folded(base, es) /\ \A i \in 1..n : g[i] = Op(g[i - 1], es[i])
  BY <1>1, <1>2, <1>3 DEF Turns, n
<1> DEFINE T == {i \in 0..n : f[i] = g[i]}
<1>5. n \in T
  <2>1. 0 \in T
    BY <1>1, <1>4
  <2>2. ASSUME NEW i \in 1..n, i - 1 \in T PROVE i \in T
    <3>1. i \in 0..n /\ i \in 1..n + 1
      BY <1>1
    <3>2. f[i - 1] = g[i - 1] /\ ee[i] = es[i]
      BY <1>1, <2>2
    <3>3. f[i] = g[i]
      BY <1>4, <3>1, <3>2
    <3> QED BY <3>1, <3>3
  <2>3. 0..n \subseteq T
    <3> HIDE DEF T
    <3> QED BY <1>1, <2>1, <2>2, UpTo
  <2> QED BY <1>1, <2>3
<1>6. f[n + 1] = Op(f[n], e)
  <2>1. n + 1 \in 1..n + 1 /\ n + 1 - 1 = n
    BY <1>1
  <2> QED BY <1>1, <1>4, <2>1
<1> QED BY <1>4, <1>5, <1>6 DEF ee
=============================================================================
