--------------------------- MODULE ReadWriteProofs ---------------------------
(***************************************************************************)
(* Reading and writing are inverse to each other and a write changes what  *)
(* it names, proved for words of any width, any devices, any contents of   *)
(* the PLC and any requests.                                               *)
(*                                                                         *)
(* From the bottom up: the powers of two, by their doubling; a number and  *)
(* its bits, each from the other; truncation and sign extension, inverse   *)
(* at every width; the halves of a double word; then the four kinds of     *)
(* addresses, a write followed by its read (WriteThenRead) and a read      *)
(* followed by its write (ReadThenWrite).                                  *)
(***************************************************************************)
EXTENDS ReadWrite, LoopTheorems

-----------------------------------------------------------------------------
(* Arithmetic. *)

(* The quotient and the remainder by b.  The solver does not find this     *)
(* where b is a term: the proofs below hide it behind a name first.        *)
LEMMA DivMod ==
  \A v \in Int : \A b \in Nat \ {0} :
      v \div b \in Int /\ v % b \in Nat /\ v % b < b /\ v = b * (v \div b) + (v % b)
  OBVIOUS

(* They are unique. *)
LEMMA DivModIs ==
  ASSUME NEW b \in Nat \ {0}, NEW q \in Int, NEW r \in Nat, r < b
  PROVE  (b * q + r) \div b = q /\ (b * q + r) % b = r
  OBVIOUS

(* A product of naturals that are not 0. *)
LEMMA Product ==
  ASSUME NEW a \in Nat \ {0}, NEW b \in Nat \ {0}
  PROVE  a * b \in Nat \ {0}
  OBVIOUS

(* The doubling of one factor doubles the product. *)
LEMMA Times2 ==
  ASSUME NEW a \in Nat, NEW b \in Nat
  PROVE  2 * (a * b) = a * (2 * b)
  OBVIOUS

(* The width of a double word, the widest there is. *)
Top == 2 * WordBits

(* A word has bits, and Top is a natural. *)
LEMMA TopNat == WordBits \in Nat \ {0} /\ Top \in Nat /\ WordBits \in 0..Top
  BY ReadWriteAssumption DEF Top

(* Pow2 doubles from 1. *)
LEMMA Pow2Is ==
  /\ Pow2 \in [0..Top -> Nat \ {0}]
  /\ Pow2[0] = 1
  /\ \A i \in 1..Top : Pow2[i] = 2 * Pow2[i - 1]
<1> DEFINE X == Nat \ {0}
           g == [i \in 1..Top |-> [x \in X |-> 2 * x]]
           Is(f) == f = [n \in 0..Top |-> IF n = 0 THEN 1 ELSE 2 * f[n - 1]]
<1>1. Top \in Nat /\ 1 \in X /\ g \in [1..Top -> [X -> X]]
  BY ReadWriteAssumption DEF Top
<1>2. PICK f : Run(f, Top, X, 1, g)
  <2> HIDE DEF X, g
  <2> QED BY <1>1, Iterates
<1>3. f \in [0..Top -> X] /\ f[0] = 1 /\ \A i \in 1..Top : f[i] = 2 * f[i - 1]
  <2>1. f \in [0..Top -> X] /\ f[0] = 1 /\ \A i \in 1..Top : f[i] = g[i][f[i - 1]]
    BY <1>2 DEF Run
  <2>2. \A i \in 1..Top : f[i - 1] \in X
    BY <1>1, <2>1
  <2> QED BY <2>1, <2>2
<1>4. Is(f)
  BY <1>1, <1>3
<1>5. Is(Pow2)
  <2>1. Pow2 = CHOOSE f1 : Is(f1)
    BY DEF Pow2, Top
  <2> HIDE DEF Is
  <2> QED BY <1>4, <2>1
<1>6. Pow2[0] = 1 /\ \A i \in 1..Top : Pow2[i] = 2 * Pow2[i - 1]
  <2>1. \A i \in 0..Top : Pow2[i] = IF i = 0 THEN 1 ELSE 2 * Pow2[i - 1]
    BY <1>5
  <2> QED BY <1>1, <2>1
<1>7. \A i \in 0..Top : Pow2[i] \in X
  <2> DEFINE S == {i \in 0..Top : Pow2[i] \in X}
  <2>1. 0 \in S
    BY <1>1, <1>6
  <2>2. \A i \in 1..Top : i - 1 \in S => i \in S
    BY <1>1, <1>6
  <2>3. 0..Top \subseteq S
    <3> HIDE DEF S
    <3> QED BY <1>1, <2>1, <2>2, UpTo
  <2> QED BY <2>3
<1>8. Pow2 = [i \in 0..Top |-> Pow2[i]]
  BY <1>5
<1> QED BY <1>6, <1>7, <1>8

(* A power of two is the product of two. *)
LEMMA Pow2Sum ==
  ASSUME NEW a \in 0..Top, NEW b \in 0..Top, a + b \in 0..Top
  PROVE  Pow2[a + b] = Pow2[a] * Pow2[b]
<1>0. Top \in Nat /\ \A i \in 0..Top : Pow2[i] \in Nat \ {0}
  BY TopNat, Pow2Is
<1> DEFINE S == {j \in 0..b : Pow2[a + j] = Pow2[a] * Pow2[j]}
<1>1. 0 \in S
  BY <1>0, Pow2Is
<1>2. ASSUME NEW j \in 1..b, j - 1 \in S PROVE j \in S
  <2>1. a + j \in 1..Top /\ a + (j - 1) = (a + j) - 1 /\ j \in 1..Top /\ j - 1 \in 0..Top
    BY <1>0
  <2>2. Pow2[a + j] = 2 * Pow2[a + (j - 1)] /\ Pow2[j] = 2 * Pow2[j - 1]
    BY <2>1, Pow2Is
  <2>3. Pow2[a + (j - 1)] = Pow2[a] * Pow2[j - 1]
    BY <1>2
  <2>4. 2 * (Pow2[a] * Pow2[j - 1]) = Pow2[a] * (2 * Pow2[j - 1])
    BY <1>0, <2>1, Times2
  <2> QED BY <2>2, <2>3, <2>4
<1>3. 0..b \subseteq S
  <2> HIDE DEF S
  <2> QED BY <1>1, <1>2, UpTo
<1> QED BY <1>0, <1>3

-----------------------------------------------------------------------------
(* Numbers and their bits. *)

(* The loop of Number: what the bits below i are worth. *)
LEMMA NumberIs ==
  ASSUME NEW w \in 0..Top, NEW bs \in [0..w - 1 -> BOOLEAN]
  PROVE  \E low \in [0..w -> Nat] :
            /\ low[0] = 0 /\ low[w] = Number(bs, w)
            /\ \A i \in 1..w : low[i] = low[i - 1] + (IF bs[i - 1] THEN Pow2[i - 1] ELSE 0)
            /\ \A i \in 0..w : low[i] < Pow2[i]
<1> DEFINE add(i) == IF bs[i - 1] THEN Pow2[i - 1] ELSE 0
           g == [i \in 1..w |-> [x \in Nat |-> x + add(i)]]
           Is(f) == f = [i \in 0..w |-> IF i = 0 THEN 0 ELSE f[i - 1] + add(i)]
           low == CHOOSE f : Is(f)
<1>1. w \in Nat /\ \A i \in 1..w : add(i) \in Nat
  <2>1. w \in Nat /\ \A i \in 1..w : i - 1 \in 0..Top
    BY TopNat
  <2> QED BY <2>1, Pow2Is
<1>2. Number(bs, w) = low[w]
  BY DEF Number
<1> HIDE DEF add
<1>3. PICK f : Run(f, w, Nat, 0, g)
  <2>1. g \in [1..w -> [Nat -> Nat]]
    BY <1>1
  <2> HIDE DEF g
  <2> QED BY <1>1, <2>1, Iterates
<1>4. f \in [0..w -> Nat] /\ f[0] = 0 /\ \A i \in 1..w : f[i] = f[i - 1] + add(i)
  <2>1. f \in [0..w -> Nat] /\ f[0] = 0 /\ \A i \in 1..w : f[i] = g[i][f[i - 1]]
    BY <1>3 DEF Run
  <2>2. \A i \in 1..w : f[i - 1] \in Nat
    BY <1>1, <2>1
  <2> QED BY <2>1, <2>2
<1>5. Is(f)
  BY <1>1, <1>4
<1>6. Is(low)
  <2> HIDE DEF Is
  <2> QED BY <1>5
<1>7. low[0] = 0 /\ \A i \in 1..w : low[i] = low[i - 1] + add(i)
  <2>1. \A i \in 0..w : low[i] = IF i = 0 THEN 0 ELSE low[i - 1] + add(i)
    BY <1>6
  <2> QED BY <1>1, <2>1
<1>8. low \in [0..w -> Nat]
  <2> DEFINE S == {i \in 0..w : low[i] \in Nat}
  <2>1. 0 \in S
    BY <1>1, <1>7
  <2>2. \A i \in 1..w : i - 1 \in S => i \in S
    BY <1>1, <1>7
  <2>3. 0..w \subseteq S
    <3> HIDE DEF S
    <3> QED BY <1>1, <2>1, <2>2, UpTo
  <2>4. low = [i \in 0..w |-> low[i]]
    BY <1>6
  <2> QED BY <2>3, <2>4
<1>9. \A i \in 0..w : low[i] < Pow2[i]
  <2> DEFINE S == {i \in 0..w : low[i] < Pow2[i]}
  <2> HIDE DEF low
  <2>1. 0 \in S
    BY <1>1, <1>7, Pow2Is
  <2>2. ASSUME NEW i \in 1..w, i - 1 \in S PROVE i \in S
    <3>1. i \in 1..Top /\ i - 1 \in 0..Top /\ i - 1 \in 0..w /\ i \in 0..w
      BY TopNat
    <3>2. Pow2[i] = 2 * Pow2[i - 1] /\ Pow2[i - 1] \in Nat /\ low[i - 1] \in Nat
      BY <1>8, <3>1, Pow2Is
    <3>3. low[i - 1] < Pow2[i - 1] /\ low[i] = low[i - 1] + add(i)
      BY <1>7, <2>2
    <3>4. add(i) = Pow2[i - 1] \/ add(i) = 0
      BY DEF add
    <3>5. low[i] < Pow2[i]
      BY <3>2, <3>3, <3>4
    <3> QED BY <3>1, <3>5
  <2>3. 0..w \subseteq S
    <3> HIDE DEF S
    <3> QED BY <1>1, <2>1, <2>2, UpTo
  <2> QED BY <2>3
<1> HIDE DEF low
<1> QED BY <1>2, <1>7, <1>8, <1>9 DEF add

(* A number of w bits is one. *)
LEMMA NumberFits ==
  ASSUME NEW w \in 0..Top, NEW bs \in [0..w - 1 -> BOOLEAN]
  PROVE  Number(bs, w) \in Uint(w)
<1>1. PICK low \in [0..w -> Nat] : low[w] = Number(bs, w) /\ \A i \in 0..w : low[i] < Pow2[i]
  BY NumberIs
<1>2. w \in 0..w /\ Pow2[w] \in Nat
  BY TopNat, Pow2Is
<1>3. low[w] < Pow2[w] /\ low[w] \in Nat
  BY <1>1, <1>2
<1> QED BY <1>1, <1>2, <1>3 DEF Uint

(* Two sums with products, sorted: the one step the solver cannot do       *)
(* inside a larger proof.                                                  *)
LEMMA Spread ==
  \A a, p, m, k \in Nat : a + p * m + p * k = a + p * (m + k)
  OBVIOUS

(* The bit b above the remainder r and below the rest m, put in front. *)
LEMMA Regroup ==
  \A r, p, b, m \in Nat : (r + p * b) + (2 * p) * m = p * (b + 2 * m) + r
  OBVIOUS

(* Its bits are those it is made of. *)
LEMMA NumberBits ==
  ASSUME NEW w \in 0..Top, NEW bs \in [0..w - 1 -> BOOLEAN], NEW i \in 0..w - 1
  PROVE  BitOf(Number(bs, w), i) = bs[i]
<1>1. PICK low \in [0..w -> Nat] :
         /\ low[0] = 0 /\ low[w] = Number(bs, w)
         /\ \A k \in 1..w : low[k] = low[k - 1] + (IF bs[k - 1] THEN Pow2[k - 1] ELSE 0)
         /\ \A k \in 0..w : low[k] < Pow2[k]
  BY NumberIs
<1>2. w \in Nat /\ i \in 0..Top /\ i + 1 \in 1..Top /\ i + 1 \in 1..w /\ i \in 0..w /\ Top \in Nat
  BY TopNat
<1> DEFINE base == low[i + 1]
           step == Pow2[i + 1]
           n    == w - (i + 1)
           S    == {k \in 0..n : \E m \in Nat : low[i + 1 + k] = base + step * m}
<1>3. n \in Nat /\ base \in Nat /\ step \in Nat /\ Pow2[i] \in Nat \ {0} /\ low[i] \in Nat
  BY <1>1, <1>2, Pow2Is
<1>4. n \in S
  <2>1. 0 \in S
    <3>1. low[i + 1 + 0] = base + step * 0
      BY <1>3
    <3> QED BY <1>3, <3>1
  <2>2. ASSUME NEW k \in 1..n, k - 1 \in S PROVE k \in S
    <3>1. PICK m \in Nat : low[i + 1 + (k - 1)] = base + step * m
      BY <2>2
    <3>2. /\ i + 1 + k \in 1..w /\ (i + 1 + k) - 1 = i + 1 + (k - 1) /\ k - 1 \in 0..Top
          /\ i + 1 \in 0..Top /\ (i + 1) + (k - 1) \in 0..Top
      BY <1>2, <1>3
    <3>3. Pow2[i + 1 + (k - 1)] = step * Pow2[k - 1] /\ Pow2[k - 1] \in Nat
      BY <3>2, Pow2Sum, Pow2Is
    <3>4. \/ low[i + 1 + k] = low[i + 1 + (k - 1)]
          \/ low[i + 1 + k] = low[i + 1 + (k - 1)] + step * Pow2[k - 1]
      <4>1. low[i + 1 + k] = low[i + 1 + (k - 1)]
                               + (IF bs[i + 1 + (k - 1)] THEN Pow2[i + 1 + (k - 1)] ELSE 0)
        BY <1>1, <3>2
      <4>2. low[i + 1 + (k - 1)] \in Nat
        BY <1>1, <3>2, <1>2, <1>3
      <4> HIDE DEF step, base
      <4> QED BY <3>3, <4>1, <4>2
    <3>5. \E q \in Nat : low[i + 1 + k] = base + step * q
      <4> HIDE DEF step, base, n
      <4>1. CASE low[i + 1 + k] = low[i + 1 + (k - 1)]
        BY <3>1, <4>1
      <4>2. CASE low[i + 1 + k] = low[i + 1 + (k - 1)] + step * Pow2[k - 1]
        <5>1. base + step * m + step * Pow2[k - 1] = base + step * (m + Pow2[k - 1])
          BY <1>3, <3>3, Spread
        <5>2. low[i + 1 + k] = base + step * (m + Pow2[k - 1]) /\ m + Pow2[k - 1] \in Nat
          BY <3>1, <3>3, <4>2, <5>1
        <5> QED BY <5>2
      <4> QED BY <3>4, <4>1, <4>2
    <3>6. k \in 0..n
      BY <1>3
    <3> QED BY <3>5, <3>6
  <2>3. 0..n \subseteq S
    <3> HIDE DEF S, n
    <3> QED BY <1>3, <2>1, <2>2, UpTo
  <2> HIDE DEF S, n
  <2> QED BY <1>3, <2>3
<1>5. PICK m \in Nat : low[w] = base + step * m
  <2>1. i + 1 + n = w
    BY <1>2
  <2> QED BY <1>4, <2>1
<1> DEFINE b == IF bs[i] THEN 1 ELSE 0
<1>6. b \in Nat /\ (b = 1 <=> bs[i] = TRUE) /\ (b = 0 <=> bs[i] = FALSE)
  BY <1>2
<1>7. base = low[i] + Pow2[i] * b /\ step = 2 * Pow2[i]
  <2>1. (i + 1) - 1 = i
    BY <1>2
  <2>2. base = low[i] + (IF bs[i] THEN Pow2[i] ELSE 0)
    BY <1>1, <1>2, <2>1
  <2>3. (IF bs[i] THEN Pow2[i] ELSE 0) = Pow2[i] * b
    BY <1>3
  <2> QED BY <1>2, <2>1, <2>2, <2>3, Pow2Is
<1>8. low[i] < Pow2[i]
  BY <1>1, <1>2
<1> HIDE DEF base, step, b
<1>9. low[w] = Pow2[i] * (b + 2 * m) + low[i]
  <2>1. low[i] \in Nat /\ Pow2[i] \in Nat /\ b \in Nat /\ m \in Nat
    BY <1>3, <1>6
  <2>2. (low[i] + Pow2[i] * b) + (2 * Pow2[i]) * m = Pow2[i] * (b + 2 * m) + low[i]
    BY <2>1, Regroup
  <2> QED BY <1>5, <1>7, <2>2
<1>10. low[w] \div Pow2[i] = b + 2 * m
  <2>1. b + 2 * m \in Int
    BY <1>6
  <2> QED BY <1>3, <1>8, <1>9, <2>1, DivModIs
<1>11. (b + 2 * m) % 2 = b
  <2>1. b = 0 \/ b = 1
    BY <1>6, <1>2
  <2>2. CASE b = 0
    BY <2>2
  <2>3. CASE b = 1
    BY <2>3
  <2> QED BY <2>1, <2>2, <2>3
<1> QED BY <1>1, <1>6, <1>10, <1>11 DEF BitOf

(* The same regrouping, from the quotient's side. *)
LEMMA Split ==
  \A p, q \in Int : \A b, r \in Nat : p * (2 * q + b) + r = (2 * p) * q + (r + p * b)
  OBVIOUS

(* The low k + 1 bits of a number are its low k bits and bit k. *)
LEMMA OneBitMore ==
  ASSUME NEW v \in Int, NEW k \in 0..Top, k + 1 \in 0..Top
  PROVE  v % Pow2[k + 1] = (v % Pow2[k]) + (IF BitOf(v, k) THEN Pow2[k] ELSE 0)
<1> DEFINE p == Pow2[k]
           a == v \div p
           r == v % p
           b == a % 2
           q == a \div 2
<1>1. p \in Nat \ {0} /\ Pow2[k + 1] = 2 * p
  <2>1. k + 1 \in 1..Top /\ (k + 1) - 1 = k
    BY TopNat
  <2> QED BY <2>1, Pow2Is
<1>2. a \in Int /\ r \in Nat /\ r < p /\ v = p * a + r
  <2> HIDE DEF p
  <2> QED BY <1>1, DivMod
<1>3. BitOf(v, k) <=> b = 1
  BY DEF BitOf
<1> HIDE DEF p, a, r
<1>4. b \in Nat /\ b < 2 /\ q \in Int /\ a = 2 * q + b
  BY <1>2, DivMod
<1> HIDE DEF b, q
<1>5. v = (2 * p) * q + (r + p * b)
  BY <1>1, <1>2, <1>4, Split
<1>6. b = 0 \/ b = 1
  BY <1>4
<1>7. r + p * b = r + (IF BitOf(v, k) THEN p ELSE 0)
  BY <1>1, <1>2, <1>3, <1>6
<1>8. r + p * b \in Nat /\ r + p * b < 2 * p
  BY <1>1, <1>2, <1>6
<1>9. v % (2 * p) = r + p * b
  <2>1. 2 * p \in Nat \ {0}
    BY <1>1
  <2> HIDE DEF p
  <2> QED BY <1>4, <1>5, <1>8, <2>1, DivModIs
<1> QED BY <1>1, <1>7, <1>9 DEF p, r

(* The number of the low bits of v is what v is truncated to. *)
LEMMA NumberOfBits ==
  ASSUME NEW w \in 0..Top, NEW v \in Int, NEW bs \in [0..w - 1 -> BOOLEAN],
         \A i \in 0..w - 1 : bs[i] = BitOf(v, i)
  PROVE  Number(bs, w) = v % Pow2[w]
<1>1. PICK low \in [0..w -> Nat] :
         /\ low[0] = 0 /\ low[w] = Number(bs, w)
         /\ \A i \in 1..w : low[i] = low[i - 1] + (IF bs[i - 1] THEN Pow2[i - 1] ELSE 0)
  BY NumberIs
<1> DEFINE S == {i \in 0..w : low[i] = v % Pow2[i]}
<1>2. w \in Nat
  BY TopNat
<1>3. 0 \in S
  <2>1. v % 1 = 0
    OBVIOUS
  <2> QED BY <1>1, <1>2, <2>1, Pow2Is
<1>4. ASSUME NEW i \in 1..w, i - 1 \in S PROVE i \in S
  <2>1. i - 1 \in 0..Top /\ (i - 1) + 1 = i /\ i \in 0..Top /\ i - 1 \in 0..w - 1 /\ i \in 0..w
    BY TopNat
  <2>2. v % Pow2[i] = (v % Pow2[i - 1]) + (IF BitOf(v, i - 1) THEN Pow2[i - 1] ELSE 0)
    BY <2>1, OneBitMore
  <2>3. low[i] = low[i - 1] + (IF BitOf(v, i - 1) THEN Pow2[i - 1] ELSE 0)
    BY <1>1, <2>1
  <2>4. low[i - 1] = v % Pow2[i - 1]
    BY <1>4
  <2> QED BY <2>1, <2>2, <2>3, <2>4
<1>5. 0..w \subseteq S
  <2> HIDE DEF S
  <2> QED BY <1>2, <1>3, <1>4, UpTo
<1>6. w \in S
  <2> HIDE DEF S
  <2> QED BY <1>2, <1>5
<1> QED BY <1>1, <1>6

(* Truncation keeps the bits it does not cut off. *)
LEMMA TruncatedBits ==
  ASSUME NEW w \in 0..Top, NEW v \in Int, NEW i \in 0..w - 1
  PROVE  BitOf(Truncate(v, w), i) = BitOf(v, i)
<1> DEFINE bs == [k \in 0..w - 1 |-> BitOf(v, k)]
<1>1. bs \in [0..w - 1 -> BOOLEAN] /\ \A k \in 0..w - 1 : bs[k] = BitOf(v, k)
  BY DEF BitOf
<1> HIDE DEF bs
<1>2. Number(bs, w) = Truncate(v, w)
  BY <1>1, NumberOfBits DEF Truncate
<1>3. BitOf(Number(bs, w), i) = bs[i]
  BY <1>1, NumberBits
<1> QED BY <1>1, <1>2, <1>3

(* Truncation to w bits gives a number of w bits, and is the identity on   *)
(* those.                                                                  *)
LEMMA TruncateFits ==
  ASSUME NEW w \in 0..Top, NEW v \in Int
  PROVE  /\ Truncate(v, w) \in Uint(w)
         /\ v \in Uint(w) => Truncate(v, w) = v
<1>1. Pow2[w] \in Nat \ {0}
  BY Pow2Is
<1>2. v % Pow2[w] \in Nat /\ v % Pow2[w] < Pow2[w]
  BY <1>1, DivMod
<1>3. v \in Uint(w) => v \in Nat /\ v < Pow2[w]
  BY <1>1 DEF Uint
<1>4. v \in Nat /\ v < Pow2[w] => v % Pow2[w] = v
  BY <1>1
<1> QED BY <1>1, <1>2, <1>3, <1>4 DEF Uint, Truncate

-----------------------------------------------------------------------------
(* Signed values. *)

(* The integer that width bits stand for. *)
Signed(v, width, sint) == IF sint THEN SignExtend(v, width) ELSE v

(* The sign bit is set in the upper half. *)
LEMMA SignBit ==
  ASSUME NEW w \in 1..Top, NEW v \in Uint(w)
  PROVE  BitOf(v, w - 1) <=> v >= Pow2[w - 1]
<1> DEFINE p == Pow2[w - 1]
<1>1. p \in Nat \ {0} /\ v \in Nat /\ v < 2 * p
  <2>1. w - 1 \in 0..Top /\ w \in 0..Top
    BY TopNat
  <2> QED BY <2>1, Pow2Is DEF Uint
<1> HIDE DEF p
<1>2. CASE v >= p
  <2>1. v - p \in Nat /\ v - p < p /\ v = p * 1 + (v - p)
    BY <1>1, <1>2
  <2>2. v \div p = 1
    BY <1>1, <2>1, DivModIs
  <2> QED BY <1>2, <2>2 DEF BitOf, p
<1>3. CASE ~(v >= p)
  <2>1. v < p /\ v = p * 0 + v
    BY <1>1, <1>3
  <2>2. v \div p = 0
    BY <1>1, <2>1, DivModIs
  <2> QED BY <1>3, <2>2 DEF BitOf, p
<1> QED BY <1>2, <1>3 DEF p

(* What FitsInBits accepts, signed or not, comes back from its bits. *)
LEMMA SignedOfTruncated ==
  ASSUME NEW w \in 1..Top, NEW s \in BOOLEAN, NEW x \in Int, FitsInBits(x, w, s)
  PROVE  Signed(Truncate(x, w), w, s) = x
<1> DEFINE p == Pow2[w - 1]
           t == Truncate(x, w)
<1>1. p \in Nat \ {0} /\ Pow2[w] = 2 * p /\ w \in 0..Top
  <2>1. w - 1 \in 0..Top /\ w \in 0..Top
    BY TopNat
  <2> QED BY <2>1, Pow2Is
<1>2. t \in Uint(w) /\ (x \in Uint(w) => t = x)
  BY <1>1, TruncateFits
<1>3. CASE ~s
  BY <1>2, <1>3 DEF Signed, FitsInBits
<1>4. CASE s
  <2>1. -p <= x /\ x <= p - 1
    BY <1>1, <1>4 DEF FitsInBits
  <2>2. t = IF x < 0 THEN x + 2 * p ELSE x
    <3>1. CASE x < 0
      <4>1. x + 2 * p \in Nat /\ x + 2 * p < 2 * p /\ x = (2 * p) * (-1) + (x + 2 * p) /\ 2 * p \in Nat \ {0}
        BY <1>1, <2>1, <3>1
      <4>2. x % (2 * p) = x + 2 * p
        <5> DEFINE r == x + 2 * p
                   b == 2 * p
        <5>1. r \in Nat /\ r < b /\ x = b * (-1) + r /\ b \in Nat \ {0} /\ -1 \in Int
          BY <4>1
        <5> HIDE DEF r, b
        <5>2. x % b = r
          BY <5>1, DivModIs
        <5> QED BY <5>2 DEF r, b
      <4> QED BY <1>1, <3>1, <4>2 DEF Truncate
    <3>2. CASE ~(x < 0)
      <4>1. x \in Uint(w)
        BY <1>1, <2>1, <3>2 DEF Uint
      <4> QED BY <1>2, <3>2, <4>1
    <3> QED BY <3>1, <3>2
  <2>3. BitOf(t, w - 1) <=> t >= p
    BY <1>2, SignBit
  <2> HIDE DEF t, p
  <2>4. BitOf(t, w - 1) <=> x < 0
    BY <1>1, <2>1, <2>2, <2>3
  <2>5. Signed(t, w, s) = IF x < 0 THEN t - 2 * p ELSE t
    BY <1>1, <1>4, <2>4 DEF Signed, SignExtend
  <2>6. Signed(t, w, s) = x
    BY <1>1, <2>2, <2>5
  <2> QED BY <2>6 DEF t
<1> QED BY <1>3, <1>4

(* What the bits stand for, FitsInBits accepts and its bits are the same. *)
LEMMA TruncatedOfSigned ==
  ASSUME NEW w \in 1..Top, NEW s \in BOOLEAN, NEW v \in Uint(w)
  PROVE  /\ Signed(v, w, s) \in Int /\ FitsInBits(Signed(v, w, s), w, s)
         /\ Truncate(Signed(v, w, s), w) = v
<1> DEFINE p == Pow2[w - 1]
<1>1. p \in Nat \ {0} /\ Pow2[w] = 2 * p /\ w \in 0..Top
  <2>1. w - 1 \in 0..Top /\ w \in 0..Top
    BY TopNat
  <2> QED BY <2>1, Pow2Is
<1>2. v \in Nat /\ v < 2 * p
  BY <1>1 DEF Uint
<1>3. BitOf(v, w - 1) <=> v >= p
  BY SignBit
<1>4. CASE s /\ v >= p
  <2>1. Signed(v, w, s) = v - 2 * p
    BY <1>1, <1>3, <1>4 DEF Signed, SignExtend
  <2> HIDE DEF p
  <2>2. v - 2 * p \in Int /\ -p <= v - 2 * p /\ v - 2 * p <= p - 1
    BY <1>1, <1>2, <1>4
  <2>3. (v - 2 * p) % (2 * p) = v
    <3> DEFINE x == v - 2 * p
               b == 2 * p
    <3>1. x = b * (-1) + v /\ b \in Nat \ {0} /\ v < b /\ -1 \in Int
      BY <1>1, <1>2
    <3> HIDE DEF x, b
    <3>2. x % b = v
      BY <1>2, <3>1, DivModIs
    <3> QED BY <3>2 DEF x, b
  <2>4. FitsInBits(v - 2 * p, w, s)
    BY <1>1, <1>4, <2>2 DEF FitsInBits, p
  <2>5. Truncate(v - 2 * p, w) = v
    BY <1>1, <2>3 DEF Truncate
  <2> QED BY <2>1, <2>2, <2>4, <2>5
<1>5. CASE ~(s /\ v >= p)
  <2>1. Signed(v, w, s) = v
    BY <1>3, <1>5 DEF Signed, SignExtend
  <2>2. FitsInBits(v, w, s)
    BY <1>1, <1>2, <1>5 DEF FitsInBits, Uint
  <2>3. Truncate(v, w) = v
    BY <1>1, <1>2, TruncateFits
  <2> QED BY <1>2, <2>1, <2>2, <2>3
<1> QED BY <1>4, <1>5

-----------------------------------------------------------------------------
(* Double words. *)

(* A quotient that is divided again, and its two remainders. *)
LEMMA Twice ==
  \A b, q, h, l \in Int : b * (b * q + h) + l = (b * b) * q + (l + b * h)
  OBVIOUS

(* Two digits to the base b are below the square of b. *)
LEMMA BelowSquare ==
  ASSUME NEW b \in Nat, NEW h \in Nat, NEW l \in Nat, h < b, l < b
  PROVE  l + b * h \in Nat /\ l + b * h < b * b
<1>1. PICK k \in Nat : b = h + 1 + k
  <2>1. b - h - 1 \in Nat /\ b = h + 1 + (b - h - 1)
    OBVIOUS
  <2> QED BY <2>1
<1>2. b * b = b * h + b + b * k
  BY <1>1
<1>3. b * k \in Nat /\ b * h \in Nat
  BY <1>1
<1> QED BY <1>2, <1>3

(* A double word has the values of two words. *)
LEMMA Square == Pow2[Top] = Pow2[WordBits] * Pow2[WordBits]
<1>1. WordBits + WordBits = Top /\ WordBits \in 0..Top /\ WordBits + WordBits \in 0..Top
  BY TopNat DEF Top
<1> QED BY <1>1, Pow2Sum

(* The low and the high half of an integer make up its low double word. *)
LEMMA DwordOfHalves ==
  ASSUME NEW x \in Int
  PROVE  Truncate(x, WordBits) + Pow2[WordBits] * Truncate(x \div Pow2[WordBits], WordBits)
           = Truncate(x, Top)
<1> DEFINE b == Pow2[WordBits]
           y == x \div b
           l == x % b
           h == y % b
           q == y \div b
<1>1. b \in Nat \ {0} /\ Pow2[Top] = b * b
  BY TopNat, Pow2Is, Square
<1> HIDE DEF b
<1>2. y \in Int /\ l \in Nat /\ l < b /\ x = b * y + l
  BY <1>1, DivMod
<1> HIDE DEF y, l
<1>3. q \in Int /\ h \in Nat /\ h < b /\ y = b * q + h
  BY <1>1, <1>2, DivMod
<1> HIDE DEF q, h
<1>4. x = (b * b) * q + (l + b * h)
  <2>1. b \in Int /\ l \in Int /\ h \in Int
    BY <1>1, <1>2, <1>3
  <2> QED BY <1>2, <1>3, <2>1, Twice
<1>5. l + b * h \in Nat /\ l + b * h < b * b /\ b * b \in Nat \ {0}
  BY <1>1, <1>2, <1>3, BelowSquare, Product
<1>6. x % (b * b) = l + b * h
  BY <1>3, <1>4, <1>5, DivModIs
<1> QED BY <1>1, <1>6 DEF Truncate, b, y, l, h

(* And a double word's halves are those it is made of. *)
LEMMA HalvesOfDword ==
  ASSUME NEW lo \in Uint(WordBits), NEW hi \in Uint(WordBits)
  PROVE  /\ lo + Pow2[WordBits] * hi \in Uint(Top)
         /\ \A x \in Int : Truncate(x, Top) = lo + Pow2[WordBits] * hi =>
               Truncate(x, WordBits) = lo /\ Truncate(x \div Pow2[WordBits], WordBits) = hi
<1> DEFINE b == Pow2[WordBits]
<1>1. b \in Nat \ {0} /\ Pow2[Top] = b * b /\ WordBits \in 0..Top
  BY TopNat, Pow2Is, Square
<1>2. \A v \in Uint(WordBits) : v \in Nat /\ v < b
  BY <1>1 DEF Uint
<1>3. lo + b * hi \in Uint(Top)
  <2>1. lo + b * hi \in Nat /\ lo + b * hi < b * b
    BY <1>1, <1>2, BelowSquare
  <2> HIDE DEF b
  <2>2. b * b \in Nat
    BY <1>1
  <2> QED BY <1>1, <2>1, <2>2 DEF Uint
<1>4. ASSUME NEW x \in Int, Truncate(x, Top) = lo + b * hi
      PROVE  Truncate(x, WordBits) = lo /\ Truncate(x \div b, WordBits) = hi
  <2> DEFINE l == Truncate(x, WordBits)
             h == Truncate(x \div b, WordBits)
  <2>1. l \in Nat /\ l < b /\ h \in Nat /\ h < b
    <3>1. x \div b \in Int
      BY <1>1, DivMod
    <3>2. l \in Uint(WordBits) /\ h \in Uint(WordBits)
      BY <1>1, <3>1, TruncateFits
    <3> QED BY <1>2, <3>2
  <2>2. l + b * h = lo + b * hi
    BY <1>4, DwordOfHalves
  <2>3. lo \in Nat /\ lo < b /\ hi \in Int
    <3>1. hi \in Nat
      BY <1>2
    <3> QED BY <1>2, <3>1
  <2> HIDE DEF l, h, b
  <2>4. b * h + l = b * hi + lo
    BY <1>1, <2>1, <2>2, <2>3
  <2>5. (b * h + l) \div b = h /\ (b * h + l) % b = l
    BY <1>1, <2>1, DivModIs
  <2>6. (b * hi + lo) \div b = hi /\ (b * hi + lo) % b = lo
    BY <1>1, <2>3, DivModIs
  <2>7. l = lo /\ h = hi
    BY <2>4, <2>5, <2>6
  <2> QED BY <2>7 DEF l, h
<1> QED BY <1>3, <1>4

-----------------------------------------------------------------------------
(* Requests. *)

(* The memory of the PLC: words of WordBits bits, and bits. *)
MemoryOK ==
    /\ words \in [0..WordCount - 1 -> Uint(WordBits)]
    /\ bits \in [0..BitCount - 1 -> BOOLEAN]

(* An address is of one of four kinds. *)
LEMMA Kinds ==
  ASSUME NEW at \in Addresses
  PROVE  /\ at.addr \in Nat /\ at.nibbles \in 0..8 /\ at.bit \in -1..WordBits - 1
         /\ \/ IsK(at) /\ ~IsWordBit(at) /\ ~IsBits(at) /\ ~IsWord(at) /\ at.device = "bit"
            \/ ~IsK(at) /\ IsWordBit(at) /\ ~IsBits(at) /\ ~IsWord(at) /\ at.device = "word"
            \/ ~IsK(at) /\ ~IsWordBit(at) /\ IsBits(at) /\ ~IsWord(at) /\ at.device = "bit"
            \/ ~IsK(at) /\ ~IsWordBit(at) /\ ~IsBits(at) /\ IsWord(at) /\ at.device = "word"
<1>1. /\ at \in [device : {"word", "bit"}, addr : Nat, bit : -1..WordBits - 1, nibbles : 0..8]
      /\ at.bit >= 0 => at.device = "word"
      /\ at.nibbles > 0 => at.device = "bit"
  BY ReadWriteAssumption
<1>2. at.addr \in Nat /\ at.nibbles \in 0..8 /\ at.bit \in -1..WordBits - 1 /\ at.device \in {"word", "bit"}
  BY <1>1
<1>3. "word" # "bit"
  OBVIOUS
<1> QED BY <1>1, <1>2, <1>3 DEF IsK, IsWordBit, IsBits, IsWord

(* The K notation is at most a double word wide. *)
LEMMA Widths ==
  ASSUME NEW r, r.at \in Addresses, r.dword \in BOOLEAN
  PROVE  /\ Width(r) \in 1..Top
         /\ ~IsK(r.at) => Width(r) = IF r.dword THEN Top ELSE WordBits
<1>1. NibbleBits \in Nat /\ WordBits = 4 * NibbleBits /\ NibbleBits > 0
  BY ReadWriteAssumption DEF NibbleBits
<1>2. r.at.nibbles \in 0..8
  BY Kinds
<1>3. IsK(r.at) => Width(r) \in 1..Top
  <2> SUFFICES ASSUME IsK(r.at) PROVE r.at.nibbles * NibbleBits \in 1..2 * (4 * NibbleBits)
    BY <1>1 DEF Top, Width
  <2>1. r.at.nibbles \in 1..8
    BY <1>2 DEF IsK
  <2> DEFINE k == r.at.nibbles
             m == NibbleBits
  <2>2. \A i \in 1..8 : i * m \in 1..2 * (4 * m)
    <3>1. m \in Nat /\ m > 0
      BY <1>1
    <3> HIDE DEF m
    <3>2. \A i \in 1..8 : i = 1 \/ i = 2 \/ i = 3 \/ i = 4 \/ i = 5 \/ i = 6 \/ i = 7 \/ i = 8
      OBVIOUS
    <3> QED BY <3>1, <3>2
  <2> QED BY <2>1, <2>2
<1>4. ~IsK(r.at) => Width(r) = IF r.dword THEN Top ELSE WordBits
  BY DEF Width, Top
<1>5. WordBits \in 1..Top /\ Top \in 1..Top
  BY TopNat DEF Top
<1> QED BY <1>3, <1>4, <1>5

(* What a write that is accepted is about. *)
LEMMA Accepted ==
  ASSUME NEW r \in WriteRequests, ~WriteRefused(r)
  PROVE  /\ r.op = "write" /\ r.at \in Addresses /\ r.dword \in BOOLEAN /\ r.sint \in BOOLEAN
         /\ ~FlagsRefused(r)
         /\ Len(r.body.values) \in 1..maxReadCount
         /\ r.dword => Len(r.body.values) <= maxReadCount \div 2
         /\ IsK(r.at) => Len(r.body.values) = 1
         /\ IsWordBit(r.at) => r.at.bit + Len(r.body.values) <= WordBits
         /\ IF IsK(r.at) \/ IsWord(r.at)
            THEN /\ r.body.values \in Seq(Int)
                 /\ \A i \in 1..Len(r.body.values) : FitsInBits(r.body.values[i], Width(r), r.sint)
            ELSE r.body.values \in Seq(BOOLEAN)
<1> DEFINE vals == r.body.values
           len  == Len(vals)
<1>1. r.op = "write" /\ r.at \in Addresses /\ r.body \in Bodies /\ r.dword \in BOOLEAN /\ r.sint \in BOOLEAN
  BY DEF WriteRequests
<1>2. /\ ~FlagsRefused(r) /\ len # 0
      /\ r.body.type = IF IsK(r.at) \/ IsWord(r.at) THEN "integers" ELSE "booleans"
      /\ IsK(r.at) => len = 1
      /\ IsWordBit(r.at) => ~(r.at.bit + len > WordBits)
      /\ IsWord(r.at) \/ IsBits(r.at) => ~(len > maxWriteValues)
      /\ r.dword => ~(len > maxWriteValues \div 2)
      /\ IsK(r.at) \/ IsWord(r.at) => \A i \in DOMAIN vals : FitsInBits(vals[i], Width(r), r.sint)
  BY DEF WriteRefused
<1>3. \/ r.body.type = "integers" /\ vals \in Seq(Int)
      \/ r.body.type = "booleans" /\ vals \in Seq(BOOLEAN)
  <2>1. \/ r.body \in [type : {"integers"}, values : Seq(Int)]
        \/ r.body \in [type : {"booleans"}, values : Seq(BOOLEAN)]
    BY <1>1, ReadWriteAssumption
  <2> QED BY <2>1
<1>4. len \in Nat /\ DOMAIN vals = 1..len
  BY <1>3
<1>5. "integers" # "booleans"
  OBVIOUS
<1>6. IF IsK(r.at) \/ IsWord(r.at) THEN vals \in Seq(Int) ELSE vals \in Seq(BOOLEAN)
  BY <1>2, <1>3, <1>5
<1> HIDE DEF vals, len
<1>7. /\ maxReadCount \in Nat /\ maxWriteValues = maxReadCount /\ WordBits <= maxReadCount
      /\ WordBits \in Nat \ {0}
  BY ReadWriteAssumption
<1>8. len \in 1..maxReadCount
  <2>1. CASE IsK(r.at)
    BY <1>2, <1>7, <2>1
  <2>2. CASE IsWordBit(r.at)
    <3>1. r.at.bit \in Nat
      BY <1>1, <2>2, Kinds DEF IsWordBit
    <3> QED BY <1>2, <1>4, <1>7, <2>2, <3>1
  <2>3. CASE IsWord(r.at) \/ IsBits(r.at)
    BY <1>2, <1>4, <1>7, <2>3
  <2> QED BY <1>1, <2>1, <2>2, <2>3, Kinds
<1>9. r.dword => len <= maxReadCount \div 2
  BY <1>2, <1>4, <1>7
<1>10. IsWordBit(r.at) => r.at.bit + len <= WordBits
  <2>1. r.at.bit \in Int
    BY <1>1, <1>7, Kinds
  <2> QED BY <1>2, <1>4, <1>7, <2>1
<1> QED BY <1>1, <1>2, <1>4, <1>6, <1>8, <1>9, <1>10 DEF vals, len

(* What a read that is accepted is about. *)
LEMMA AcceptedRead ==
  ASSUME NEW r \in ReadRequests, ~ReadRefused(r)
  PROVE  /\ r.op = "read" /\ r.at \in Addresses /\ r.dword \in BOOLEAN /\ r.sint \in BOOLEAN
         /\ ~FlagsRefused(r)
         /\ r.count \in 1..maxReadCount
         /\ r.dword => r.count <= maxReadCount \div 2
         /\ IsK(r.at) => r.count = 1
         /\ IsWordBit(r.at) => r.at.bit + r.count <= WordBits
<1>1. /\ r.op = "read" /\ r.at \in Addresses /\ r.count \in Counts
      /\ r.dword \in BOOLEAN /\ r.sint \in BOOLEAN
  BY DEF ReadRequests
<1>2. r.count \in Int /\ maxReadCount \in Nat /\ WordBits \in Nat /\ r.at.bit \in Int
  <2>1. r.count \in Int /\ maxReadCount \in Nat /\ WordBits \in Nat
    BY <1>1, ReadWriteAssumption
  <2> QED BY <1>1, <2>1, Kinds
<1>3. /\ ~FlagsRefused(r) /\ ~(r.count < 1) /\ ~(r.count > maxReadCount)
      /\ r.dword => ~(r.count > maxReadCount \div 2)
      /\ IsK(r.at) => r.count = 1
      /\ IsWordBit(r.at) => ~(r.at.bit + r.count > WordBits)
  BY DEF ReadRefused
<1>4. r.dword => r.count <= maxReadCount \div 2
  BY <1>2, <1>3
<1>5. IsWordBit(r.at) => r.at.bit + r.count <= WordBits
  BY <1>2, <1>3
<1>6. r.count \in 1..maxReadCount
  BY <1>2, <1>3
<1> QED BY <1>1, <1>3, <1>4, <1>5, <1>6

(* Within the devices. *)
LEMMA InRange ==
  ASSUME MemoryOK, NEW r, NEW len \in Nat, r.at \in Addresses, r.dword \in BOOLEAN,
         ~OutOfRange(r, len)
  PROVE  LET n == r.at.addr
         IN  /\ IsK(r.at) => \A i \in 0..Width(r) - 1 : n + i \in 0..BitCount - 1
             /\ IsWordBit(r.at) => n \in 0..WordCount - 1
             /\ IsBits(r.at) => \A i \in 0..len - 1 : n + i \in 0..BitCount - 1
             /\ IsWord(r.at) => \A i \in 0..(IF r.dword THEN 2 * len ELSE len) - 1 :
                                   n + i \in 0..WordCount - 1
<1> DEFINE n == r.at.addr
           m == IF r.dword THEN 2 * len ELSE len
<1>1. n \in Nat /\ m \in Nat /\ WordCount \in Nat /\ BitCount \in Nat
  <2>1. n \in Nat
    BY Kinds
  <2> QED BY <2>1, ReadWriteAssumption
<1>2. Span(r, len) \subseteq IF r.at.device = "word" THEN 0..WordCount - 1 ELSE 0..BitCount - 1
  <2>1. DOMAIN words = 0..WordCount - 1 /\ DOMAIN bits = 0..BitCount - 1
    BY DEF MemoryOK
  <2> QED BY <2>1 DEF OutOfRange
<1>3. CASE IsK(r.at)
  <2>1. n..n + Width(r) - 1 \subseteq 0..BitCount - 1
    BY <1>2, <1>3, Kinds DEF Span
  <2>2. \A i \in 0..Width(r) - 1 : n + i \in n..n + Width(r) - 1
    BY <1>1, Widths, TopNat
  <2> QED BY <1>3, <2>1, <2>2, Kinds
<1>4. CASE IsWordBit(r.at)
  <2>1. {n} \subseteq 0..WordCount - 1
    BY <1>2, <1>4, Kinds DEF Span
  <2> QED BY <1>4, <2>1, Kinds
<1>5. CASE IsBits(r.at)
  <2>1. r.dword = FALSE \/ r.dword = TRUE
    OBVIOUS
  <2>2. n..n + m - 1 \subseteq 0..BitCount - 1
    BY <1>2, <1>5, Kinds DEF Span
  <2>3. \A i \in 0..len - 1 : n + i \in n..n + m - 1
    BY <1>1, <2>1
  <2> QED BY <1>5, <2>2, <2>3, Kinds
<1>6. CASE IsWord(r.at)
  <2>1. n..n + m - 1 \subseteq 0..WordCount - 1
    BY <1>2, <1>6, Kinds DEF Span
  <2>2. \A i \in 0..m - 1 : n + i \in n..n + m - 1
    BY <1>1
  <2> QED BY <1>6, <2>1, <2>2, Kinds
<1> QED BY <1>3, <1>4, <1>5, <1>6, Kinds

(* The number of the bits that x was written as. *)
LEMMA KRoundTrip ==
  ASSUME NEW w \in 1..Top, NEW s \in BOOLEAN, NEW x \in Int, FitsInBits(x, w, s),
         NEW bs \in [0..w - 1 -> BOOLEAN],
         \A i \in 0..w - 1 : bs[i] = BitOf(Truncate(x, Top), i)
  PROVE  Signed(Number(bs, w), w, s) = x
<1>1. w \in 0..Top /\ Top \in 0..Top /\ \A i \in 0..w - 1 : i \in 0..Top - 1
  BY TopNat
<1>2. \A i \in 0..w - 1 : bs[i] = BitOf(x, i)
  BY <1>1, TruncatedBits
<1>3. Number(bs, w) = Truncate(x, w)
  BY <1>1, <1>2, NumberOfBits DEF Truncate
<1> QED BY <1>3, SignedOfTruncated

(* The bits of the number that bs was read as. *)
LEMMA KBits ==
  ASSUME NEW w \in 1..Top, NEW s \in BOOLEAN, NEW bs \in [0..w - 1 -> BOOLEAN]
  PROVE  LET x == Signed(Number(bs, w), w, s)
         IN  /\ x \in Int /\ FitsInBits(x, w, s)
             /\ \A i \in 0..w - 1 : BitOf(Truncate(x, Top), i) = bs[i]
<1> DEFINE x == Signed(Number(bs, w), w, s)
<1>1. w \in 0..Top /\ Top \in 0..Top /\ \A i \in 0..w - 1 : i \in 0..Top - 1
  BY TopNat
<1>2. Number(bs, w) \in Uint(w)
  BY <1>1, NumberFits
<1>3. x \in Int /\ FitsInBits(x, w, s) /\ Truncate(x, w) = Number(bs, w)
  BY <1>2, TruncatedOfSigned
<1> HIDE DEF x
<1>4. ASSUME NEW i \in 0..w - 1 PROVE BitOf(Truncate(x, Top), i) = bs[i]
  <2>1. BitOf(Truncate(x, Top), i) = BitOf(x, i)
    BY <1>1, <1>3, TruncatedBits
  <2>2. BitOf(Truncate(x, w), i) = BitOf(x, i)
    BY <1>1, <1>3, TruncatedBits
  <2>3. BitOf(Number(bs, w), i) = bs[i]
    BY <1>1, NumberBits
  <2> QED BY <1>3, <2>1, <2>2, <2>3
<1> QED BY <1>3, <1>4 DEF x

(* WriteWordBits sets the bits it names and keeps the others. *)
LEMMA SetWordBitsIs ==
  ASSUME NEW v \in Uint(WordBits), NEW vals \in Seq(BOOLEAN), NEW bit \in Nat,
         bit + Len(vals) <= WordBits
  PROVE  /\ SetWordBits(v, bit, vals) \in Uint(WordBits)
         /\ \A i \in 0..WordBits - 1 :
               BitOf(SetWordBits(v, bit, vals), i) =
                 IF i \in bit..bit + Len(vals) - 1 THEN vals[i - bit + 1] ELSE BitOf(v, i)
<1> DEFINE bs == [i \in 0..WordBits - 1 |->
                    IF i \in bit..bit + Len(vals) - 1 THEN vals[i - bit + 1] ELSE BitOf(v, i)]
<1>1. bs \in [0..WordBits - 1 -> BOOLEAN]
  <2>1. \A i \in bit..bit + Len(vals) - 1 : vals[i - bit + 1] \in BOOLEAN
    <3>1. Len(vals) \in Nat /\ \A k \in 1..Len(vals) : vals[k] \in BOOLEAN
      OBVIOUS
    <3>2. \A i \in bit..bit + Len(vals) - 1 : i - bit + 1 \in 1..Len(vals)
      BY <3>1
    <3> QED BY <3>1, <3>2
  <2>2. \A i \in 0..WordBits - 1 : BitOf(v, i) \in BOOLEAN
    BY DEF BitOf
  <2> QED BY <2>1, <2>2
<1>2. SetWordBits(v, bit, vals) = Number(bs, WordBits)
  BY DEF SetWordBits
<1>3. \A i \in 0..WordBits - 1 :
         bs[i] = IF i \in bit..bit + Len(vals) - 1 THEN vals[i - bit + 1] ELSE BitOf(v, i)
  OBVIOUS
<1> HIDE DEF bs
<1>4. \A i \in 0..WordBits - 1 : BitOf(Number(bs, WordBits), i) = bs[i]
  BY <1>1, TopNat, NumberBits
<1>5. Number(bs, WordBits) \in Uint(WordBits)
  BY <1>1, TopNat, NumberFits
<1> QED BY <1>2, <1>3, <1>4, <1>5

(* Setting bits to what they are changes nothing. *)
LEMMA SetSameBits ==
  ASSUME NEW v \in Uint(WordBits), NEW vals \in Seq(BOOLEAN), NEW bit \in Nat,
         bit + Len(vals) <= WordBits,
         \A i \in 1..Len(vals) : vals[i] = BitOf(v, bit + i - 1)
  PROVE  SetWordBits(v, bit, vals) = v
<1> DEFINE bs == [i \in 0..WordBits - 1 |->
                    IF i \in bit..bit + Len(vals) - 1 THEN vals[i - bit + 1] ELSE BitOf(v, i)]
<1>1. ASSUME NEW i \in bit..bit + Len(vals) - 1 PROVE vals[i - bit + 1] = BitOf(v, i)
  <2>1. i - bit + 1 \in 1..Len(vals) /\ bit + (i - bit + 1) - 1 = i
    OBVIOUS
  <2> QED BY <2>1
<1>2. bs \in [0..WordBits - 1 -> BOOLEAN] /\ \A i \in 0..WordBits - 1 : bs[i] = BitOf(v, i)
  <2>1. \A i \in 0..WordBits - 1 : BitOf(v, i) \in BOOLEAN
    BY DEF BitOf
  <2> QED BY <1>1, <2>1
<1>3. SetWordBits(v, bit, vals) = Number(bs, WordBits)
  BY DEF SetWordBits
<1> HIDE DEF bs
<1>4. v \in Int
  BY TopNat, Pow2Is DEF Uint
<1>5. Number(bs, WordBits) = v % Pow2[WordBits]
  BY <1>2, <1>4, TopNat, NumberOfBits
<1>6. v % Pow2[WordBits] = v
  BY <1>4, TopNat, TruncateFits DEF Truncate
<1> QED BY <1>3, <1>5, <1>6

(* The words that integers are sent as. *)
LEMMA WordsOfIs ==
  ASSUME NEW vals \in Seq(Int), NEW dword \in BOOLEAN
  PROVE  LET new == WordsOf(vals, dword)
             len == Len(vals)
         IN  /\ DOMAIN new = 1..(IF dword THEN 2 * len ELSE len)
             /\ \A j \in DOMAIN new : new[j] \in Uint(WordBits)
             /\ ~dword => \A i \in 0..len - 1 : new[i + 1] = Truncate(vals[i + 1], WordBits)
             /\ dword => \A i \in 0..len - 1 :
                   /\ new[2 * i + 1] = Truncate(vals[i + 1], WordBits)
                   /\ new[2 * i + 1 + 1] = Truncate(vals[i + 1] \div Pow2[WordBits], WordBits)
<1> DEFINE new == WordsOf(vals, dword)
           len == Len(vals)
           word(j) == LET v == vals[(j + 1) \div 2]
                      IN  Truncate(IF j % 2 = 1 THEN v ELSE v \div Pow2[WordBits], WordBits)
<1>1. len \in Nat /\ DOMAIN vals = 1..len /\ \A i \in 1..len : vals[i] \in Int
  OBVIOUS
<1>2. Pow2[WordBits] \in Nat \ {0} /\ WordBits \in 0..Top
  BY TopNat, Pow2Is
<1>3. \A v \in Int : v \div Pow2[WordBits] \in Int
  BY <1>2, DivMod
<1>4. CASE ~dword
  <2>1. new = [i \in 1..len |-> Truncate(vals[i], WordBits)]
    BY <1>1, <1>4 DEF WordsOf
  <2>2. \A i \in 1..len : new[i] \in Uint(WordBits)
    BY <1>1, <1>2, <2>1, TruncateFits
  <2>3. \A i \in 0..len - 1 : i + 1 \in 1..len
    BY <1>1
  <2>4. DOMAIN new = 1..len /\ \A i \in 0..len - 1 : new[i + 1] = Truncate(vals[i + 1], WordBits)
    <3> HIDE DEF len
    <3> QED BY <2>1, <2>3
  <2> HIDE DEF new, len
  <2> QED BY <1>4, <2>2, <2>4 DEF new, len
<1>5. CASE dword
  <2>1. new = [j \in 1..2 * len |-> word(j)]
    BY <1>5 DEF WordsOf
  <2>2. ASSUME NEW j \in 1..2 * len PROVE new[j] \in Uint(WordBits)
    <3> DEFINE v == vals[(j + 1) \div 2]
               u == IF j % 2 = 1 THEN v ELSE v \div Pow2[WordBits]
    <3>1. (j + 1) \div 2 \in 1..len
      BY <1>1
    <3>2. v \in Int
      BY <1>1, <3>1
    <3> HIDE DEF v
    <3>3. u \in Int
      BY <1>3, <3>2
    <3>4. new[j] = Truncate(u, WordBits)
      BY <2>1 DEF v
    <3> HIDE DEF u, new
    <3> QED BY <1>2, <3>3, <3>4, TruncateFits
  <2>3. ASSUME NEW i \in 0..len - 1
        PROVE  /\ new[2 * i + 1] = Truncate(vals[i + 1], WordBits)
               /\ new[2 * i + 1 + 1] = Truncate(vals[i + 1] \div Pow2[WordBits], WordBits)
    <3> DEFINE a == 2 * i + 1
               b == 2 * i + 1 + 1
    <3>1. /\ a \in 1..2 * len /\ a % 2 = 1 /\ (a + 1) \div 2 = i + 1
          /\ b \in 1..2 * len /\ b % 2 = 0 /\ (b + 1) \div 2 = i + 1
      BY <1>1
    <3> HIDE DEF a, b
    <3>2. new[a] = word(a) /\ new[b] = word(b)
      BY <2>1, <3>1
    <3>3. word(a) = Truncate(vals[i + 1], WordBits)
      BY <3>1
    <3>4. word(b) = Truncate(vals[i + 1] \div Pow2[WordBits], WordBits)
      BY <3>1
    <3> HIDE DEF new, word
    <3> QED BY <3>2, <3>3, <3>4 DEF a, b
  <2> HIDE DEF word
  <2>4. DOMAIN new = 1..2 * len
    BY <2>1
  <2> HIDE DEF new, len
  <2> QED BY <1>5, <2>2, <2>3, <2>4 DEF new, len
<1> QED BY <1>4, <1>5

(* Where they are afterwards. *)
LEMMA WordsStored ==
  ASSUME MemoryOK, NEW r \in WriteRequests, ~WriteRefused(r), IsWord(r.at),
         ~OutOfRange(r, Len(r.body.values))
  PROVE  LET new == WordsOf(r.body.values, r.dword)
         IN  \A i \in 0..(IF r.dword THEN 2 * Len(r.body.values) ELSE Len(r.body.values)) - 1 :
                WordsAfter(r)[r.at.addr + i] = new[i + 1]
<1> DEFINE new == WordsOf(r.body.values, r.dword)
           n == r.at.addr
           m == IF r.dword THEN 2 * Len(r.body.values) ELSE Len(r.body.values)
<1>1. /\ n \in Nat /\ r.dword \in BOOLEAN /\ r.at \in Addresses /\ Len(r.body.values) \in Nat
      /\ m \in Nat /\ DOMAIN new = 1..m /\ ~IsWordBit(r.at) /\ DOMAIN words = 0..WordCount - 1
  <2>1. /\ r.at \in Addresses /\ r.dword \in BOOLEAN /\ r.body.values \in Seq(Int)
        /\ Len(r.body.values) \in Nat
    BY Accepted
  <2>2. DOMAIN new = 1..m
    BY <2>1, WordsOfIs
  <2>3. n \in Nat /\ ~IsWordBit(r.at)
    BY <2>1, Kinds
  <2>4. m \in Nat
    BY <2>1
  <2>5. DOMAIN words = 0..WordCount - 1
    BY DEF MemoryOK
  <2> QED BY <2>1, <2>2, <2>3, <2>4, <2>5
<1>2. WordsAfter(r) = [w \in DOMAIN words |-> IF w - n + 1 \in DOMAIN new THEN new[w - n + 1] ELSE words[w]]
  BY <1>1 DEF WordsAfter
<1>3. \A i \in 0..m - 1 : n + i \in DOMAIN words
  BY <1>1, InRange
<1> HIDE DEF new, n, m
<1>4. \A i \in 0..m - 1 : (n + i) - n + 1 = i + 1 /\ i + 1 \in 1..m
  BY <1>1
<1>5. \A i \in 0..m - 1 : WordsAfter(r)[n + i] = new[i + 1]
  BY <1>1, <1>2, <1>3, <1>4
<1> QED BY <1>5 DEF new, n, m

(* A write leaves the memory what it was built as. *)
LEMMA WriteKeepsMemory ==
  ASSUME MemoryOK, NEW r \in WriteRequests, ~WriteRefused(r),
         ~OutOfRange(r, Len(r.body.values))
  PROVE  /\ WordsAfter(r) \in [0..WordCount - 1 -> Uint(WordBits)]
         /\ BitsAfter(r) \in [0..BitCount - 1 -> BOOLEAN]
<1> DEFINE vals == r.body.values
           n == r.at.addr
<1>1. words \in [0..WordCount - 1 -> Uint(WordBits)] /\ bits \in [0..BitCount - 1 -> BOOLEAN]
  BY DEF MemoryOK
<1>2. /\ r.at \in Addresses /\ r.dword \in BOOLEAN
      /\ IF IsK(r.at) \/ IsWord(r.at) THEN vals \in Seq(Int) ELSE vals \in Seq(BOOLEAN)
      /\ Len(vals) \in Nat
      /\ IsWordBit(r.at) => r.at.bit + Len(vals) <= WordBits
  BY Accepted
<1> HIDE DEF vals
<1>3. WordsAfter(r) \in [0..WordCount - 1 -> Uint(WordBits)]
  <2>1. CASE IsWordBit(r.at)
    <3>1. n \in 0..WordCount - 1
      BY <1>2, <2>1, InRange DEF vals
    <3>2. words[n] \in Uint(WordBits) /\ vals \in Seq(BOOLEAN) /\ r.at.bit \in Nat
      BY <1>1, <1>2, <2>1, <3>1, Kinds DEF IsWordBit
    <3>3. SetWordBits(words[n], r.at.bit, vals) \in Uint(WordBits)
      BY <1>2, <2>1, <3>2, SetWordBitsIs
    <3>4. WordsAfter(r) = [words EXCEPT ![n] = SetWordBits(words[n], r.at.bit, vals)]
      BY <2>1 DEF WordsAfter, vals
    <3> HIDE DEF n
    <3> QED BY <1>1, <3>3, <3>4
  <2>2. CASE IsWord(r.at)
    <3> DEFINE new == WordsOf(vals, r.dword)
    <3>1. \A j \in DOMAIN new : new[j] \in Uint(WordBits)
      BY <1>2, <2>2, WordsOfIs
    <3>2. WordsAfter(r) = [w \in DOMAIN words |->
                             IF w - n + 1 \in DOMAIN new THEN new[w - n + 1] ELSE words[w]]
      BY <1>2, <2>2, Kinds DEF WordsAfter, vals
    <3> HIDE DEF new, n
    <3> QED BY <1>1, <3>1, <3>2
  <2>3. CASE ~IsWordBit(r.at) /\ ~IsWord(r.at)
    BY <1>1, <2>3 DEF WordsAfter
  <2> QED BY <2>1, <2>2, <2>3
<1>4. BitsAfter(r) \in [0..BitCount - 1 -> BOOLEAN]
  <2> DEFINE new == IF IsK(r.at)
                    THEN [i \in 1..Width(r) |-> BitOf(Truncate(vals[1], Top), i - 1)]
                    ELSE vals
  <2>1. CASE r.at.device = "word"
    BY <1>1, <2>1 DEF BitsAfter
  <2>2. CASE r.at.device # "word"
    <3>1. \A j \in DOMAIN new : new[j] \in BOOLEAN
      <4>1. CASE IsK(r.at)
        BY <4>1 DEF BitOf
      <4>2. CASE ~IsK(r.at)
        <5>1. vals \in Seq(BOOLEAN)
          BY <1>2, <2>2, <4>2, Kinds
        <5> QED BY <4>2, <5>1
      <4> QED BY <4>1, <4>2
    <3>2. BitsAfter(r) = [d \in DOMAIN bits |->
                            IF d - n + 1 \in DOMAIN new THEN new[d - n + 1] ELSE bits[d]]
      BY <2>2 DEF BitsAfter, vals, Top
    <3> HIDE DEF new, n
    <3> QED BY <1>1, <3>1, <3>2
  <2> QED BY <2>1, <2>2
<1> QED BY <1>3, <1>4

(* The bits of a write are afterwards where they were sent. *)
LEMMA BitsStored ==
  ASSUME MemoryOK, NEW r \in WriteRequests, ~WriteRefused(r),
         ~OutOfRange(r, Len(r.body.values))
  PROVE  /\ IsK(r.at) => \A i \in 0..Width(r) - 1 :
               BitsAfter(r)[r.at.addr + i] = BitOf(Truncate(r.body.values[1], Top), i)
         /\ IsBits(r.at) => \A i \in 0..Len(r.body.values) - 1 :
               BitsAfter(r)[r.at.addr + i] = r.body.values[i + 1]
<1> DEFINE vals == r.body.values
           n == r.at.addr
           len == Len(vals)
<1>1. /\ n \in Nat /\ r.at \in Addresses /\ r.dword \in BOOLEAN /\ len \in Nat
      /\ DOMAIN bits = 0..BitCount - 1
  <2>1. r.at \in Addresses /\ r.dword \in BOOLEAN /\ len \in Nat
    BY Accepted
  <2>2. DOMAIN bits = 0..BitCount - 1
    BY DEF MemoryOK
  <2> QED BY <2>1, <2>2, Kinds
<1>2. CASE IsK(r.at)
  <2> DEFINE w == Width(r)
             new == [i \in 1..w |-> BitOf(Truncate(vals[1], Top), i - 1)]
  <2>1. w \in Nat
    BY <1>1, Widths, TopNat
  <2>2. \A i \in 0..w - 1 : n + i \in DOMAIN bits
    BY <1>1, <1>2, InRange
  <2>3. BitsAfter(r) = [d \in DOMAIN bits |->
                          IF d - n + 1 \in DOMAIN new THEN new[d - n + 1] ELSE bits[d]]
    BY <1>1, <1>2, Kinds DEF BitsAfter, Top
  <2> HIDE DEF n, w, vals, len
  <2>4. ASSUME NEW i \in 0..w - 1 PROVE BitsAfter(r)[n + i] = BitOf(Truncate(vals[1], Top), i)
    <3>1. (n + i) - n + 1 = i + 1 /\ i + 1 \in 1..w /\ (i + 1) - 1 = i
      BY <1>1, <2>1
    <3>2. new[i + 1] = BitOf(Truncate(vals[1], Top), i) /\ DOMAIN new = 1..w
      BY <3>1
    <3> HIDE DEF new
    <3> QED BY <2>2, <2>3, <3>1, <3>2
  <2> QED BY <1>1, <1>2, <2>4, Kinds DEF n, w, vals
<1>3. CASE IsBits(r.at)
  <2>1. vals \in Seq(BOOLEAN)
    BY <1>1, <1>3, Accepted, Kinds
  <2>2. \A i \in 0..len - 1 : n + i \in DOMAIN bits
    BY <1>1, <1>3, InRange
  <2>3. BitsAfter(r) = [d \in DOMAIN bits |->
                          IF d - n + 1 \in DOMAIN vals THEN vals[d - n + 1] ELSE bits[d]]
    BY <1>1, <1>3, Kinds DEF BitsAfter
  <2>4. DOMAIN vals = 1..len
    BY <2>1
  <2> HIDE DEF n, vals, len
  <2>5. ASSUME NEW i \in 0..len - 1 PROVE BitsAfter(r)[n + i] = vals[i + 1]
    <3>1. (n + i) - n + 1 = i + 1 /\ i + 1 \in 1..len
      BY <1>1
    <3> QED BY <2>2, <2>3, <2>4, <3>1
  <2> QED BY <1>1, <1>3, <2>5, Kinds DEF n, vals, len
<1> QED BY <1>2, <1>3

(* The read of what was written is accepted. *)
LEMMA ReadAccepted ==
  ASSUME NEW r \in WriteRequests, ~WriteRefused(r)
  PROVE  ~ReadRefused(AsRead(r))
<1> DEFINE a == AsRead(r)
           len == Len(r.body.values)
<1>1. /\ a.at = r.at /\ a.dword = r.dword /\ a.sint = r.sint /\ a.count = len
      /\ a.op = "read"
  BY DEF AsRead
<1>2. /\ ~FlagsRefused(r) /\ len \in 1..maxReadCount /\ r.at \in Addresses
      /\ r.dword => len <= maxReadCount \div 2
      /\ IsK(r.at) => len = 1
      /\ IsWordBit(r.at) => r.at.bit + len <= WordBits
  BY Accepted
<1> HIDE DEF a, len
<1>3. ~FlagsRefused(a)
  BY <1>1, <1>2 DEF FlagsRefused
<1>4. maxReadCount \in Nat /\ WordBits \in Nat /\ maxReadCount \div 2 \in Nat /\ r.at.bit \in Int
  <2>1. maxReadCount \in Nat /\ WordBits \in Nat
    BY ReadWriteAssumption
  <2>2. r.at.bit \in Int
    BY <1>2, <2>1, Kinds
  <2> QED BY <2>1, <2>2
<1>5. /\ ~(len < 1) /\ ~(len > maxReadCount)
      /\ r.dword => ~(len > maxReadCount \div 2)
      /\ IsWordBit(r.at) => ~(r.at.bit + len > WordBits)
  BY <1>2, <1>4
<1>6. ~ReadRefused(a)
  BY <1>1, <1>2, <1>3, <1>5 DEF ReadRefused
<1> QED BY <1>6 DEF a

(* What is read is what was written. *)
LEMMA WriteThenRead ==
  ASSUME MemoryOK, NEW r \in WriteRequests, ~WriteRefused(r),
         ~OutOfRange(r, Len(r.body.values)),
         words' = WordsAfter(r), bits' = BitsAfter(r)
  PROVE  ValuesOf(AsRead(r))' = r.body.values
<1> DEFINE a == AsRead(r)
           vals == r.body.values
           n == r.at.addr
           len == Len(vals)
           w == Width(r)
<1>1. a.at = r.at /\ a.dword = r.dword /\ a.sint = r.sint /\ a.count = len /\ Width(a) = w
  BY DEF AsRead, Width
<1>2. /\ r.at \in Addresses /\ r.dword \in BOOLEAN /\ r.sint \in BOOLEAN /\ len \in Nat
      /\ n \in Nat /\ w \in 1..Top /\ ~FlagsRefused(r)
      /\ IsK(r.at) \/ IsWord(r.at) => vals \in Seq(Int)
      /\ IsBits(r.at) \/ IsWordBit(r.at) => vals \in Seq(BOOLEAN)
      /\ IsK(r.at) \/ IsWord(r.at) => \A i \in 1..len : FitsInBits(vals[i], w, r.sint)
  <2>1. /\ r.at \in Addresses /\ r.dword \in BOOLEAN /\ r.sint \in BOOLEAN /\ len \in Nat
        /\ ~FlagsRefused(r)
        /\ IF IsK(r.at) \/ IsWord(r.at)
           THEN vals \in Seq(Int) /\ \A i \in 1..len : FitsInBits(vals[i], w, r.sint)
           ELSE vals \in Seq(BOOLEAN)
    BY Accepted
  <2> HIDE DEF vals, len, w
  <2> QED BY <2>1, Kinds, Widths DEF w
<1>3. /\ WordsAfter(r) \in [0..WordCount - 1 -> Uint(WordBits)]
      /\ BitsAfter(r) \in [0..BitCount - 1 -> BOOLEAN]
  BY WriteKeepsMemory
<1>4. CASE IsK(r.at)
  <2> DEFINE bs == [i \in 0..w - 1 |-> bits'[n + i]]
             x == vals[1]
  <2>1. len = 1 /\ x \in Int /\ FitsInBits(x, w, r.sint) /\ vals = <<x>>
    <3>1. len = 1
      BY <1>4, Accepted
    <3>2. vals \in Seq(Int) /\ FitsInBits(x, w, r.sint)
      BY <1>2, <1>4, <3>1
    <3> QED BY <3>1, <3>2
  <2>2. \A i \in 0..w - 1 : n + i \in 0..BitCount - 1
    BY <1>2, <1>4, InRange
  <2>3. \A i \in 0..w - 1 : bs[i] = BitOf(Truncate(x, Top), i)
    BY <1>4, BitsStored
  <2>4. bs \in [0..w - 1 -> BOOLEAN]
    BY <1>3, <2>2
  <2>5. ValuesOf(a)' = <<Signed(Number(bs, w), w, r.sint)>>
    BY <1>1, <1>4 DEF ValuesOf, Pack, Signed
  <2> HIDE DEF a, vals, n, w, bs
  <2>6. Signed(Number(bs, w), w, r.sint) = x
    BY <1>2, <2>1, <2>3, <2>4, KRoundTrip
  <2> QED BY <2>1, <2>5, <2>6 DEF a, vals
<1>5. CASE IsWordBit(r.at)
  <2> DEFINE bit == r.at.bit
  <2>1. n \in 0..WordCount - 1
    BY <1>2, <1>5, InRange
  <2>2. words[n] \in Uint(WordBits) /\ vals \in Seq(BOOLEAN) /\ bit \in Nat /\ bit + len <= WordBits
    <3>1. vals \in Seq(BOOLEAN) /\ bit \in Nat
      BY <1>2, <1>5, Kinds DEF IsWordBit
    <3>2. bit + len <= WordBits
      BY <1>5, Accepted
    <3> QED BY <2>1, <3>1, <3>2 DEF MemoryOK
  <2>3. words'[n] = SetWordBits(words[n], bit, vals)
    BY <1>5, <2>1 DEF WordsAfter, MemoryOK
  <2>4. ValuesOf(a)' = [i \in 1..len |-> BitOf(words'[n], bit + i - 1)]
    <3>1. ~IsK(r.at)
      BY <1>2, <1>5, Kinds
    <3> QED BY <1>1, <1>5, <3>1 DEF ValuesOf
  <2> HIDE DEF a, vals, n, len, bit
  <2>5. ASSUME NEW i \in 1..len PROVE BitOf(words'[n], bit + i - 1) = vals[i]
    <3>1. WordBits \in Nat
      BY ReadWriteAssumption
    <3>2. /\ bit + i - 1 \in 0..WordBits - 1 /\ bit + i - 1 \in bit..bit + len - 1
          /\ (bit + i - 1) - bit + 1 = i
      BY <1>2, <2>2, <3>1
    <3>3. BitOf(SetWordBits(words[n], bit, vals), bit + i - 1) = vals[(bit + i - 1) - bit + 1]
      BY <2>2, <3>2, SetWordBitsIs DEF len
    <3> QED BY <2>3, <3>2, <3>3
  <2>6. vals = [i \in 1..len |-> vals[i]]
    BY <2>2 DEF len
  <2>7. ValuesOf(a)' = vals
    BY <2>4, <2>5, <2>6
  <2> QED BY <2>7 DEF a, vals
<1>6. CASE IsBits(r.at)
  <2>1. \A i \in 0..len - 1 : bits'[n + i] = vals[i + 1]
    BY <1>6, BitsStored
  <2>2. ValuesOf(a)' = [i \in 1..len |-> bits'[n + i - 1]]
    <3>1. ~IsK(r.at) /\ ~IsWordBit(r.at)
      BY <1>2, <1>6, Kinds
    <3> QED BY <1>1, <1>6, <3>1 DEF ValuesOf
  <2>3. vals = [i \in 1..len |-> vals[i]]
    BY <1>2, <1>6
  <2> HIDE DEF a, vals, n, len
  <2>4. ASSUME NEW i \in 1..len PROVE bits'[n + i - 1] = vals[i]
    <3>1. i - 1 \in 0..len - 1 /\ n + i - 1 = n + (i - 1) /\ (i - 1) + 1 = i
      BY <1>2
    <3> QED BY <2>1, <3>1
  <2>5. ValuesOf(a)' = vals
    BY <2>2, <2>3, <2>4
  <2> QED BY <2>5 DEF a, vals
<1>7. CASE IsWord(r.at)
  <2> DEFINE new == WordsOf(vals, r.dword)
  <2>1. vals = [i \in 1..len |-> vals[i]] /\ \A i \in 1..len : vals[i] \in Int
    <3>1. vals \in Seq(Int)
      BY <1>2, <1>7
    <3> HIDE DEF vals
    <3> QED BY <3>1 DEF len
  <2>2. ~IsK(r.at) /\ ~IsWordBit(r.at) /\ ~IsBits(r.at)
    BY <1>2, <1>7, Kinds
  <2>3. CASE ~r.dword
    <3>1. \A i \in 0..len - 1 : words'[n + i] = new[i + 1]
      BY <1>7, <2>3, WordsStored
    <3>2. \A i \in 0..len - 1 : new[i + 1] = Truncate(vals[i + 1], WordBits)
      BY <1>2, <1>7, <2>3, WordsOfIs
    <3>3. ValuesOf(a)' = [i \in 1..len |-> Signed(words'[n + i - 1], w, r.sint)]
      BY <1>1, <2>2, <2>3 DEF ValuesOf, Signed
    <3>4. w = WordBits
      BY <1>2, <2>2, <2>3, Widths
    <3> HIDE DEF a, vals, n, len, w, new
    <3>5. ASSUME NEW i \in 1..len PROVE Signed(words'[n + i - 1], w, r.sint) = vals[i]
      <4>1. i - 1 \in 0..len - 1 /\ n + i - 1 = n + (i - 1) /\ (i - 1) + 1 = i
        BY <1>2
      <4>2. words'[n + i - 1] = Truncate(vals[i], w)
        BY <3>1, <3>2, <3>4, <4>1
      <4>3. vals[i] \in Int /\ FitsInBits(vals[i], w, r.sint)
        BY <1>2, <1>7, <2>1
      <4> QED BY <1>2, <4>2, <4>3, SignedOfTruncated
    <3>6. ValuesOf(a)' = vals
      BY <2>1, <3>3, <3>5
    <3> QED BY <3>6 DEF a, vals
  <2>4. CASE r.dword
    <3> DEFINE dw(i) == words'[n + 2 * i] + Pow2[WordBits] * words'[n + 2 * i + 1]
    <3>1. \A i \in 0..2 * len - 1 : words'[n + i] = new[i + 1]
      BY <1>7, <2>4, WordsStored
    <3>2. \A i \in 0..len - 1 :
             /\ new[2 * i + 1] = Truncate(vals[i + 1], WordBits)
             /\ new[2 * i + 1 + 1] = Truncate(vals[i + 1] \div Pow2[WordBits], WordBits)
      BY <1>2, <1>7, <2>4, WordsOfIs
    <3>3. ValuesOf(a)' = [i \in 1..len |-> Signed(dw(i - 1), w, r.sint)]
      BY <1>1, <2>2, <2>4 DEF ValuesOf, Signed
    <3>4. w = Top
      BY <1>2, <2>2, <2>4, Widths
    <3> HIDE DEF a, vals, n, len, w, new
    <3>5. ASSUME NEW i \in 1..len PROVE Signed(dw(i - 1), w, r.sint) = vals[i]
      <4> DEFINE k == i - 1
      <4>1. /\ k \in 0..len - 1 /\ k + 1 = i /\ 2 * k \in 0..2 * len - 1
            /\ 2 * k + 1 \in 0..2 * len - 1 /\ n + 2 * k + 1 = n + (2 * k + 1)
        BY <1>2
      <4> HIDE DEF k
      <4>2. /\ words'[n + 2 * k] = Truncate(vals[i], WordBits)
            /\ words'[n + 2 * k + 1] = Truncate(vals[i] \div Pow2[WordBits], WordBits)
        BY <3>1, <3>2, <4>1
      <4>3. vals[i] \in Int /\ FitsInBits(vals[i], w, r.sint)
        BY <1>2, <1>7, <2>1
      <4>4. dw(k) = Truncate(vals[i], w)
        BY <3>4, <4>2, <4>3, DwordOfHalves
      <4>5. Signed(dw(k), w, r.sint) = vals[i]
        BY <1>2, <4>3, <4>4, SignedOfTruncated
      <4> QED BY <4>5 DEF k
    <3>6. ValuesOf(a)' = vals
      <4> HIDE DEF dw
      <4> QED BY <2>1, <3>3, <3>5
    <3> QED BY <3>6 DEF a, vals
  <2> QED BY <1>2, <2>3, <2>4
<1> QED BY <1>2, <1>4, <1>5, <1>6, <1>7, Kinds

(* The write of what was read is accepted. *)
LEMMA WriteAccepted ==
  ASSUME NEW r \in ReadRequests, ~ReadRefused(r), NEW v, Len(v) = r.count, DOMAIN v = 1..r.count,
         IsK(r.at) \/ IsWord(r.at) => \A i \in 1..r.count : FitsInBits(v[i], Width(r), r.sint)
  PROVE  ~WriteRefused(AsWrite(r, v))
<1> DEFINE a == AsWrite(r, v)
<1>1. /\ a.at = r.at /\ a.dword = r.dword /\ a.sint = r.sint /\ a.body.values = v
      /\ a.body.type = IF IsK(r.at) \/ IsWord(r.at) THEN "integers" ELSE "booleans"
      /\ Width(a) = Width(r)
  BY DEF AsWrite, Width
<1>2. /\ ~FlagsRefused(r) /\ r.count \in 1..maxReadCount /\ r.at \in Addresses
      /\ r.dword => r.count <= maxReadCount \div 2
      /\ IsK(r.at) => r.count = 1
      /\ IsWordBit(r.at) => r.at.bit + r.count <= WordBits
  BY AcceptedRead
<1> HIDE DEF a
<1>3. ~FlagsRefused(a)
  BY <1>1, <1>2 DEF FlagsRefused
<1>4. /\ maxReadCount \in Nat /\ WordBits \in Nat /\ maxReadCount \div 2 \in Nat
      /\ r.at.bit \in Int /\ maxWriteValues = maxReadCount
  <2>1. maxReadCount \in Nat /\ WordBits \in Nat /\ maxWriteValues = maxReadCount
    BY ReadWriteAssumption
  <2>2. r.at.bit \in Int
    BY <1>2, <2>1, Kinds
  <2> QED BY <2>1, <2>2
<1>5. /\ r.count # 0 /\ ~(r.count > maxWriteValues)
      /\ r.dword => ~(r.count > maxWriteValues \div 2)
      /\ IsWordBit(r.at) => ~(r.at.bit + r.count > WordBits)
  BY <1>2, <1>4
<1>6. ~WriteRefused(a)
  BY <1>1, <1>2, <1>3, <1>5 DEF WriteRefused
<1> QED BY <1>6 DEF a

(* g with the entries of new in place of those from n on. *)
Overwritten(g, n, new) ==
    [d \in DOMAIN g |-> IF d - n + 1 \in DOMAIN new THEN new[d - n + 1] ELSE g[d]]

(* A function that is overwritten with what it holds is the same. *)
LEMMA SameStored ==
  \A g, n, m, h :
      /\ DOMAIN g \subseteq Nat /\ g = [d \in DOMAIN g |-> g[d]]
      /\ n \in Nat /\ m \in Nat /\ DOMAIN h = 1..m
      /\ \A i \in 0..m - 1 : h[i + 1] = g[n + i]
      => Overwritten(g, n, h) = g
<1> TAKE g, n, m, h
<1> HAVE /\ DOMAIN g \subseteq Nat /\ g = [d \in DOMAIN g |-> g[d]]
         /\ n \in Nat /\ m \in Nat /\ DOMAIN h = 1..m
         /\ \A i \in 0..m - 1 : h[i + 1] = g[n + i]
<1>1. ASSUME NEW d \in DOMAIN g, d - n + 1 \in 1..m PROVE h[d - n + 1] = g[d]
  <2>1. d - n \in 0..m - 1 /\ n + (d - n) = d /\ (d - n) + 1 = d - n + 1
    BY <1>1
  <2> QED BY <2>1
<1> QED BY <1>1 DEF Overwritten

(* Writing what was read changes nothing. *)
LEMMA ReadThenWrite ==
  ASSUME MemoryOK, NEW r \in ReadRequests, ~ReadRefused(r), ~OutOfRange(r, r.count),
         NEW v, v = ValuesOf(r)
  PROVE  /\ v \in Seq(Int) \cup Seq(BOOLEAN) /\ ~WriteRefused(AsWrite(r, v))
         /\ WordsAfter(AsWrite(r, v)) = words /\ BitsAfter(AsWrite(r, v)) = bits
<1> DEFINE a == AsWrite(r, v)
           n == r.at.addr
           len == r.count
           w == Width(r)
           fits == \A i \in 1..len : FitsInBits(v[i], w, r.sint)
<1>1. /\ a.at = r.at /\ a.dword = r.dword /\ a.sint = r.sint /\ a.body.values = v
      /\ Width(a) = w
  BY DEF AsWrite, Width
<1>2. /\ r.at \in Addresses /\ r.dword \in BOOLEAN /\ r.sint \in BOOLEAN /\ len \in Nat
      /\ n \in Nat /\ w \in 1..Top /\ ~FlagsRefused(r) /\ len \in Nat \ {0}
      /\ IsK(r.at) => len = 1
      /\ IsWordBit(r.at) => r.at.bit + len <= WordBits
  <2>1. maxReadCount \in Nat
    BY ReadWriteAssumption
  <2> QED BY <2>1, AcceptedRead, Kinds, Widths
<1>3. /\ words \in [0..WordCount - 1 -> Uint(WordBits)] /\ bits \in [0..BitCount - 1 -> BOOLEAN]
      /\ WordCount \in Nat /\ BitCount \in Nat
  BY ReadWriteAssumption DEF MemoryOK
<1>9. /\ DOMAIN words \subseteq Nat /\ words = [d \in DOMAIN words |-> words[d]]
      /\ DOMAIN bits \subseteq Nat /\ bits = [d \in DOMAIN bits |-> bits[d]]
  BY <1>3
<1>4. Len(v) = len /\ DOMAIN v = 1..len /\ (IsK(r.at) \/ IsWord(r.at) => fits)
         => ~WriteRefused(a)
  BY WriteAccepted
<1> HIDE DEF a
<1>5. CASE IsK(r.at)
  <2> DEFINE bs == [i \in 0..w - 1 |-> bits[n + i]]
             x == Signed(Number(bs, w), w, r.sint)
             new == [i \in 1..w |-> BitOf(Truncate(x, Top), i - 1)]
  <2>1. \A i \in 0..w - 1 : n + i \in 0..BitCount - 1
    BY <1>2, <1>5, InRange
  <2>2. bs \in [0..w - 1 -> BOOLEAN] /\ \A i \in 0..w - 1 : bs[i] = bits[n + i]
    BY <1>3, <2>1
  <2>3. v = <<x>>
    BY <1>5 DEF ValuesOf, Pack, Signed
  <2> HIDE DEF w, n, len
  <2>4. BitsAfter(a) = Overwritten(bits, n, new)
    <3>1. v[1] = x /\ r.at.device # "word"
      BY <1>2, <1>5, <2>3, Kinds
    <3> HIDE DEF x
    <3> QED BY <1>1, <1>5, <3>1 DEF BitsAfter, Overwritten, Top, n
  <2>5. /\ x \in Int /\ FitsInBits(x, w, r.sint)
        /\ \A i \in 0..w - 1 : BitOf(Truncate(x, Top), i) = bs[i]
    <3> HIDE DEF bs
    <3> QED BY <1>2, <2>2, KBits
  <2> HIDE DEF bs, x
  <2>6. v \in Seq(Int) /\ Len(v) = len /\ DOMAIN v = 1..len /\ fits
    <3>1. len = 1 /\ v \in Seq(Int) /\ Len(v) = 1 /\ DOMAIN v = 1..1 /\ v[1] = x
      BY <1>2, <1>5, <2>3, <2>5
    <3> QED BY <2>5, <3>1
  <2>7. \A i \in 0..w - 1 : new[i + 1] = bits[n + i]
    <3>1. \A i \in 0..w - 1 : i + 1 \in 1..w /\ (i + 1) - 1 = i
      BY <1>2, TopNat
    <3> QED BY <2>2, <2>5, <3>1
  <2>8. BitsAfter(a) = bits
    <3>1. DOMAIN new = 1..w /\ w \in Nat
      BY <1>2, TopNat
    <3>2. n \in Nat
      BY <1>2
    <3>3. Overwritten(bits, n, new) = bits
      <4> HIDE DEF new
      <4> QED BY <1>9, <2>7, <3>1, <3>2, SameStored
    <3> QED BY <2>4, <3>3
  <2>9. WordsAfter(a) = words
    BY <1>1, <1>2, <1>5, Kinds DEF WordsAfter
  <2> QED BY <1>4, <2>6, <2>8, <2>9 DEF a
<1>6. CASE IsWordBit(r.at)
  <2> DEFINE bit == r.at.bit
  <2>1. n \in 0..WordCount - 1
    BY <1>2, <1>6, InRange
  <2>2. v = [i \in 1..len |-> BitOf(words[n], bit + i - 1)]
    BY <1>2, <1>6, Kinds DEF ValuesOf
  <2>3. bit \in Nat /\ ~IsK(r.at) /\ ~IsWord(r.at) /\ r.at.device = "word"
    BY <1>2, <1>6, Kinds DEF IsWordBit
  <2> HIDE DEF w, len, bit
  <2>4. v \in Seq(BOOLEAN) /\ Len(v) = len /\ DOMAIN v = 1..len
    <3>1. \A i \in 1..len : BitOf(words[n], bit + i - 1) \in BOOLEAN
      BY DEF BitOf
    <3> QED BY <1>2, <2>2, <3>1
  <2>5. SetWordBits(words[n], bit, v) = words[n]
    <3>1. words[n] \in Uint(WordBits)
      BY <1>3, <2>1
    <3>2. bit + Len(v) <= WordBits
      BY <1>2, <1>6, <2>4 DEF bit
    <3>3. \A i \in 1..Len(v) : v[i] = BitOf(words[n], bit + i - 1)
      BY <2>2, <2>4
    <3> QED BY <2>3, <2>4, <3>1, <3>2, <3>3, SetSameBits
  <2>6. WordsAfter(a) = [words EXCEPT ![n] = SetWordBits(words[n], bit, v)]
    BY <1>1, <1>6 DEF WordsAfter, bit
  <2>7. WordsAfter(a) = words
    <3> HIDE DEF n
    <3> QED BY <1>3, <2>1, <2>5, <2>6
  <2>8. BitsAfter(a) = bits
    BY <1>1, <2>3 DEF BitsAfter
  <2> QED BY <1>4, <2>3, <2>4, <2>7, <2>8 DEF a
<1>7. CASE IsBits(r.at)
  <2>1. v = [i \in 1..len |-> bits[n + i - 1]]
    BY <1>2, <1>7, Kinds DEF ValuesOf
  <2>2. ~IsK(r.at) /\ ~IsWordBit(r.at) /\ ~IsWord(r.at) /\ r.at.device # "word"
    BY <1>2, <1>7, Kinds
  <2> HIDE DEF w, len
  <2>3. v \in Seq(BOOLEAN) /\ Len(v) = len /\ DOMAIN v = 1..len
    <3>1. ASSUME NEW i \in 1..len PROVE bits[n + i - 1] \in BOOLEAN
      <4>1. i - 1 \in 0..len - 1 /\ n + i - 1 = n + (i - 1)
        BY <1>2
      <4>2. n + (i - 1) \in 0..BitCount - 1
        BY <1>2, <1>7, <4>1, InRange DEF len
      <4> QED BY <1>3, <4>1, <4>2
    <3>2. v \in [1..len -> BOOLEAN] /\ len \in Nat
      <4>1. len \in Nat
        BY <1>2
      <4> QED BY <2>1, <3>1, <4>1
    <3> QED BY <3>2
  <2>4. BitsAfter(a) = Overwritten(bits, n, v)
    BY <1>1, <2>2 DEF BitsAfter, Overwritten
  <2> HIDE DEF n
  <2>5. \A i \in 0..len - 1 : v[i + 1] = bits[n + i]
    <3>1. \A i \in 0..len - 1 : i + 1 \in 1..len /\ n + (i + 1) - 1 = n + i
      BY <1>2
    <3> QED BY <2>1, <3>1
  <2>6. BitsAfter(a) = bits
    BY <1>2, <1>9, <2>3, <2>4, <2>5, SameStored
  <2>7. WordsAfter(a) = words
    BY <1>1, <2>2 DEF WordsAfter
  <2> QED BY <1>4, <2>2, <2>3, <2>6, <2>7 DEF a
<1>8. CASE IsWord(r.at)
  <2> DEFINE new == WordsOf(v, r.dword)
             m == IF r.dword THEN 2 * len ELSE len
  <2>1. ~IsK(r.at) /\ ~IsWordBit(r.at) /\ ~IsBits(r.at) /\ r.at.device = "word"
    BY <1>2, <1>8, Kinds
  <2>2. \A i \in 0..m - 1 : n + i \in 0..WordCount - 1
    BY <1>2, <1>8, InRange
  <2>3. \A i \in 0..m - 1 : words[n + i] \in Uint(WordBits)
    BY <1>3, <2>2
  <2>4. WordsAfter(a) = Overwritten(words, n, new)
    BY <1>1, <1>8, <2>1 DEF WordsAfter, Overwritten
  <2>5. BitsAfter(a) = bits
    BY <1>1, <2>1 DEF BitsAfter
  <2>6. /\ v \in Seq(Int) /\ Len(v) = len /\ DOMAIN v = 1..len /\ fits
        /\ \A i \in 0..m - 1 : new[i + 1] = words[n + i]
    <3>1. CASE ~r.dword
      <4>1. v = [i \in 1..len |-> Signed(words[n + i - 1], w, r.sint)]
        BY <2>1, <3>1 DEF ValuesOf, Signed
      <4>2. w = WordBits
        BY <1>2, <2>1, <3>1, Widths
      <4> HIDE DEF w, n, len
      <4>3. ASSUME NEW i \in 1..len
            PROVE  /\ v[i] \in Int /\ FitsInBits(v[i], w, r.sint)
                   /\ Truncate(v[i], WordBits) = words[n + (i - 1)]
        <5>1. i - 1 \in 0..m - 1 /\ n + i - 1 = n + (i - 1)
          BY <1>2, <3>1
        <5>2. words[n + (i - 1)] \in Uint(w)
          BY <2>3, <4>2, <5>1
        <5>3. v[i] = Signed(words[n + (i - 1)], w, r.sint)
          BY <4>1, <5>1
        <5> QED BY <1>2, <4>2, <5>2, <5>3, TruncatedOfSigned
      <4>4. v \in Seq(Int) /\ Len(v) = len /\ DOMAIN v = 1..len
        <5>1. \A i \in 1..len : Signed(words[n + i - 1], w, r.sint) \in Int
          BY <4>1, <4>3
        <5> QED BY <1>2, <4>1, <5>1
      <4>5. \A i \in 0..len - 1 : new[i + 1] = Truncate(v[i + 1], WordBits)
        BY <1>2, <3>1, <4>4, WordsOfIs
      <4> HIDE DEF new
      <4>6. \A i \in 0..len - 1 : new[i + 1] = words[n + i]
        <5>1. \A i \in 0..len - 1 : i + 1 \in 1..len /\ (i + 1) - 1 = i
          BY <1>2
        <5> QED BY <4>3, <4>5, <5>1
      <4> QED BY <3>1, <4>3, <4>4, <4>6
    <3>2. CASE r.dword
      <4> DEFINE dw(k) == words[n + 2 * k] + Pow2[WordBits] * words[n + 2 * k + 1]
      <4>1. v = [i \in 1..len |-> Signed(dw(i - 1), w, r.sint)]
        BY <2>1, <3>2 DEF ValuesOf, Signed
      <4>2. w = Top
        BY <1>2, <2>1, <3>2, Widths
      <4> HIDE DEF w, n, len
      <4>3. ASSUME NEW k \in 0..len - 1
            PROVE  /\ v[k + 1] \in Int /\ FitsInBits(v[k + 1], w, r.sint)
                   /\ Truncate(v[k + 1], WordBits) = words[n + 2 * k]
                   /\ Truncate(v[k + 1] \div Pow2[WordBits], WordBits) = words[n + (2 * k + 1)]
        <5>1. /\ 2 * k \in 0..m - 1 /\ 2 * k + 1 \in 0..m - 1 /\ k + 1 \in 1..len
              /\ (k + 1) - 1 = k /\ n + 2 * k + 1 = n + (2 * k + 1)
          BY <1>2, <3>2
        <5>2. words[n + 2 * k] \in Uint(WordBits) /\ words[n + (2 * k + 1)] \in Uint(WordBits)
          BY <2>3, <5>1
        <5>3. v[k + 1] = Signed(dw(k), w, r.sint)
          BY <4>1, <5>1
        <5>4. dw(k) = words[n + 2 * k] + Pow2[WordBits] * words[n + (2 * k + 1)]
          BY <5>1
        <5>5. /\ dw(k) \in Uint(Top)
              /\ \A x \in Int : Truncate(x, Top) = dw(k) =>
                    /\ Truncate(x, WordBits) = words[n + 2 * k]
                    /\ Truncate(x \div Pow2[WordBits], WordBits) = words[n + (2 * k + 1)]
          BY <5>2, <5>4, HalvesOfDword
        <5> HIDE DEF dw
        <5>6. v[k + 1] \in Int /\ FitsInBits(v[k + 1], w, r.sint) /\ Truncate(v[k + 1], w) = dw(k)
          BY <1>2, <4>2, <5>3, <5>5, TruncatedOfSigned
        <5> QED BY <4>2, <5>5, <5>6
      <4>4. \A i \in 1..len : v[i] \in Int /\ FitsInBits(v[i], w, r.sint)
        <5>1. \A i \in 1..len : i - 1 \in 0..len - 1 /\ (i - 1) + 1 = i
          BY <1>2
        <5> QED BY <4>3, <5>1
      <4>5. v \in Seq(Int) /\ Len(v) = len /\ DOMAIN v = 1..len
        <5> HIDE DEF dw
        <5>1. \A i \in 1..len : Signed(dw(i - 1), w, r.sint) \in Int
          BY <4>1, <4>4
        <5> QED BY <1>2, <4>1, <5>1
      <4>6. \A k \in 0..len - 1 :
               /\ new[2 * k + 1] = Truncate(v[k + 1], WordBits)
               /\ new[2 * k + 1 + 1] = Truncate(v[k + 1] \div Pow2[WordBits], WordBits)
        BY <1>2, <3>2, <4>5, WordsOfIs
      <4> HIDE DEF new
      <4>7. ASSUME NEW i \in 0..m - 1 PROVE new[i + 1] = words[n + i]
        <5>1. i \in Nat
          BY <1>2, <3>2
        <5>2. PICK k \in Nat : i = 2 * k \/ i = 2 * k + 1
          BY <5>1, Halves
        <5>3. k \in 0..len - 1
          BY <1>2, <3>2, <5>2
        <5> QED BY <4>3, <4>6, <5>2, <5>3
      <4> QED BY <4>4, <4>5, <4>7
    <3> QED BY <1>2, <3>1, <3>2
  <2>7. WordsAfter(a) = words
    <3>1. DOMAIN new = 1..m /\ m \in Nat
      <4>1. DOMAIN new = 1..m
        BY <1>2, <2>6, WordsOfIs
      <4> QED BY <1>2, <4>1
    <3>2. n \in Nat /\ \A i \in 0..m - 1 : new[i + 1] = words[n + i]
      BY <1>2, <2>6
    <3>3. Overwritten(words, n, new) = words
      <4> HIDE DEF new, m, n
      <4> QED BY <1>9, <3>1, <3>2, SameStored
    <3> QED BY <2>4, <3>3
  <2> QED BY <1>4, <2>5, <2>6, <2>7 DEF a
<1> QED BY <1>2, <1>5, <1>6, <1>7, <1>8, Kinds

(* A write names what it changes. *)
LEMMA WriteNames ==
  ASSUME MemoryOK, NEW r \in WriteRequests, ~WriteRefused(r),
         ~OutOfRange(r, Len(r.body.values))
  PROVE  LET span == Span(r, Len(r.body.values))
             bit  == r.at.bit
         IN  /\ \A w \in DOMAIN words : WordsAfter(r)[w] # words[w] =>
                   /\ r.at.device = "word" /\ w \in span
                   /\ IsWordBit(r.at) => \A i \in 0..WordBits - 1 :
                         BitOf(WordsAfter(r)[w], i) # BitOf(words[w], i) =>
                             i \in bit..bit + Len(r.body.values) - 1
             /\ \A d \in DOMAIN bits : BitsAfter(r)[d] # bits[d] =>
                   r.at.device = "bit" /\ d \in span
<1> DEFINE vals == r.body.values
           len == Len(vals)
           n == r.at.addr
           bit == r.at.bit
           span == Span(r, len)
<1>1. /\ r.at \in Addresses /\ r.dword \in BOOLEAN /\ len \in Nat /\ n \in Nat
      /\ IF IsK(r.at) \/ IsWord(r.at) THEN vals \in Seq(Int) ELSE vals \in Seq(BOOLEAN)
      /\ IsWordBit(r.at) => bit + len <= WordBits
      /\ ~FlagsRefused(r)
  <2>1. r.at \in Addresses
    BY Accepted
  <2> QED BY <2>1, Accepted, Kinds
<1>2. DOMAIN words = 0..WordCount - 1 /\ DOMAIN bits = 0..BitCount - 1
  BY DEF MemoryOK
<1>3. ASSUME NEW w \in DOMAIN words, WordsAfter(r)[w] # words[w]
      PROVE  /\ r.at.device = "word" /\ w \in span
             /\ IsWordBit(r.at) => \A i \in 0..WordBits - 1 :
                   BitOf(WordsAfter(r)[w], i) # BitOf(words[w], i) => i \in bit..bit + len - 1
  <2>1. CASE IsWordBit(r.at)
    <3>1. WordsAfter(r) = [words EXCEPT ![n] = SetWordBits(words[n], bit, vals)]
      BY <2>1 DEF WordsAfter
    <3>2. w = n
      <4> HIDE DEF n
      <4> QED BY <1>3, <3>1
    <3>3. r.at.device = "word" /\ span = {n} /\ vals \in Seq(BOOLEAN) /\ bit \in Nat
      BY <1>1, <2>1, Kinds DEF Span, IsWordBit
    <3>4. words[n] \in Uint(WordBits)
      BY <1>2, <3>2 DEF MemoryOK
    <3>5. WordsAfter(r)[w] = SetWordBits(words[n], bit, vals)
      <4> HIDE DEF n
      <4> QED BY <3>1, <3>2
    <3>6. ASSUME NEW i \in 0..WordBits - 1, i \notin bit..bit + len - 1
          PROVE  BitOf(WordsAfter(r)[w], i) = BitOf(words[w], i)
      <4>1. bit \in Nat /\ vals \in Seq(BOOLEAN) /\ bit + len <= WordBits
        BY <1>1, <2>1, <3>3
      <4>2. BitOf(SetWordBits(words[n], bit, vals), i) =
              IF i \in bit..bit + len - 1 THEN vals[i - bit + 1] ELSE BitOf(words[n], i)
        BY <3>4, <4>1, SetWordBitsIs
      <4> HIDE DEF n, bit, len, vals
      <4> QED BY <3>2, <3>5, <3>6, <4>2
    <3> HIDE DEF span, len, bit, n
    <3> QED BY <3>2, <3>3, <3>6
  <2>2. CASE IsWord(r.at)
    <3> DEFINE new == WordsOf(vals, r.dword)
               m == IF r.dword THEN 2 * len ELSE len
    <3>1. WordsAfter(r)[w] = IF w - n + 1 \in DOMAIN new THEN new[w - n + 1] ELSE words[w]
      BY <1>1, <2>2, Kinds DEF WordsAfter
    <3>2. DOMAIN new = 1..m /\ m \in Nat
      <4>1. DOMAIN new = 1..m
        BY <1>1, <2>2, WordsOfIs
      <4> QED BY <1>1, <4>1
    <3>3. span = n..n + m - 1 /\ r.at.device = "word" /\ ~IsWordBit(r.at)
      BY <1>1, <2>2, Kinds DEF Span
    <3> HIDE DEF new, m, n, span, vals
    <3>4. w - n + 1 \in 1..m
      BY <1>3, <3>1, <3>2
    <3>5. w \in n..n + m - 1
      BY <1>1, <1>2, <3>2, <3>4
    <3> QED BY <3>3, <3>5
  <2>3. CASE ~IsWordBit(r.at) /\ ~IsWord(r.at)
    BY <1>3, <2>3 DEF WordsAfter
  <2> QED BY <2>1, <2>2, <2>3
<1>4. ASSUME NEW d \in DOMAIN bits, BitsAfter(r)[d] # bits[d]
      PROVE  r.at.device = "bit" /\ d \in span
  <2>1. r.at.device = "bit" /\ (IsK(r.at) \/ IsBits(r.at))
    <3>1. r.at.device # "word"
      BY <1>4 DEF BitsAfter
    <3> QED BY <1>1, <3>1, Kinds
  <2>2. CASE IsK(r.at)
    <3> DEFINE w == Width(r)
               new == [i \in 1..w |-> BitOf(Truncate(vals[1], Top), i - 1)]
    <3>1. BitsAfter(r)[d] = IF d - n + 1 \in DOMAIN new THEN new[d - n + 1] ELSE bits[d]
      BY <2>1, <2>2 DEF BitsAfter, Top
    <3>2. DOMAIN new = 1..w /\ w \in Nat
      BY <1>1, Widths, TopNat
    <3>3. span = n..n + w - 1
      BY <2>2 DEF Span
    <3> HIDE DEF new, w, n, span
    <3>4. d - n + 1 \in 1..w
      BY <1>4, <3>1, <3>2
    <3>5. d \in n..n + w - 1
      BY <1>1, <1>2, <3>2, <3>4
    <3> QED BY <2>1, <3>3, <3>5
  <2>3. CASE IsBits(r.at)
    <3>1. ~IsK(r.at) /\ ~IsWordBit(r.at) /\ ~r.dword /\ vals \in Seq(BOOLEAN)
      BY <1>1, <2>3, Kinds DEF FlagsRefused
    <3>2. BitsAfter(r)[d] = IF d - n + 1 \in DOMAIN vals THEN vals[d - n + 1] ELSE bits[d]
      BY <2>1, <3>1 DEF BitsAfter
    <3>3. span = n..n + len - 1 /\ DOMAIN vals = 1..len
      BY <3>1 DEF Span
    <3> HIDE DEF vals, len, n, span
    <3>4. d - n + 1 \in 1..len
      BY <1>4, <3>2, <3>3
    <3>5. d \in n..n + len - 1
      BY <1>1, <1>2, <3>4
    <3> QED BY <2>1, <3>3, <3>5
  <2> QED BY <2>1, <2>2, <2>3
<1> HIDE DEF span
<1> QED BY <1>3, <1>4 DEF span

-----------------------------------------------------------------------------
(* The specification. *)

(* What the handlers reply. *)
Answers == [status : Statuses \cup {0}, values : Seq(Int) \cup Seq(BOOLEAN)]

TypeOK ==
    /\ MemoryOK
    /\ request \in {None} \cup ReadRequests \cup WriteRequests
    /\ reply \in Answers

(* RoundTrips is about the last request and the memory it left: every      *)
(* request makes it true anew from the memory having its type.             *)
IInv == TypeOK /\ RoundTrips

(* A reply without values is a reply. *)
LEMMA WithoutValues ==
  ASSUME NEW s \in Statuses \cup {0}
  PROVE  [status |-> s, values |-> <<>>] \in Answers
<1>1. <<>> \in Seq(Int)
  OBVIOUS
<1> QED BY <1>1 DEF Answers

(* At the start no request is answered, and the PLC holds words and bits. *)
LEMMA InitIInv == ReadWriteInit => IInv
<1> SUFFICES ASSUME ReadWriteInit PROVE IInv
  OBVIOUS
<1>1. PICK m \in Memories : words = m.words /\ bits = m.bits
  BY DEF ReadWriteInit
<1>2. MemoryOK
  <2>1. m \in [words : [0..WordCount - 1 -> Uint(WordBits)], bits : [0..BitCount - 1 -> BOOLEAN]]
    BY ReadWriteAssumption
  <2> QED BY <1>1, <2>1 DEF MemoryOK
<1>3. request = None /\ reply = NoAnswer
  BY DEF ReadWriteInit
<1>4. reply \in Answers
  BY <1>3, WithoutValues DEF NoAnswer
<1>5. RoundTrips
  BY <1>3 DEF NoAnswer, RoundTrips, WrittenIsReadBack, ReadIsWrittenBack, Done
<1> QED BY <1>2, <1>3, <1>4, <1>5 DEF IInv, TypeOK

(* A read, handleRead of handler.go: refused by the handler, refused by    *)
(* the PLC, or answered with values that ReadThenWrite is about.           *)
LEMMA ReadIInv ==
  ASSUME IInv, NEW r \in ReadRequests, Read(r)
  PROVE  IInv'
<1>1. request' = r /\ words' = words /\ bits' = bits /\ MemoryOK
  BY DEF Read, memory, IInv, TypeOK
<1>2. MemoryOK'
  BY <1>1 DEF MemoryOK
<1>3. CASE ReadRefused(r) \/ OutOfRange(r, r.count)
  <2>1. reply' = [status |-> 400, values |-> <<>>] \/ reply' = [status |-> 502, values |-> <<>>]
    BY <1>3 DEF Read, Reply
  <2>2. reply'.status # 200 /\ reply' \in Answers
    BY <2>1, WithoutValues DEF Statuses
  <2>3. RoundTrips'
    BY <2>2 DEF RoundTrips, WrittenIsReadBack, ReadIsWrittenBack, Done
  <2> QED BY <1>1, <1>2, <2>2, <2>3 DEF IInv, TypeOK
<1>4. CASE ~ReadRefused(r) /\ ~OutOfRange(r, r.count)
  <2>1. PICK v : v = ValuesOf(r)
    OBVIOUS
  <2>2. reply' = [status |-> 200, values |-> v]
    BY <1>4, <2>1 DEF Read, Reply
  <2>3. /\ v \in Seq(Int) \cup Seq(BOOLEAN) /\ ~WriteRefused(AsWrite(r, v))
        /\ WordsAfter(AsWrite(r, v)) = words /\ BitsAfter(AsWrite(r, v)) = bits
    BY <1>1, <1>4, <2>1, ReadThenWrite
  <2>4. AsWrite(request, reply.values)' = AsWrite(r, v)
    BY <1>1, <2>2 DEF AsWrite
  <2>5. WordsAfter(AsWrite(r, v))' = words' /\ BitsAfter(AsWrite(r, v))' = bits'
    BY <1>1, <2>3 DEF WordsAfter, BitsAfter
  <2>6. ReadIsWrittenBack'
    BY <2>3, <2>4, <2>5 DEF ReadIsWrittenBack
  <2>7. r.op = "read"
    BY DEF ReadRequests
  <2>8. WrittenIsReadBack'
    BY <1>1, <2>7 DEF WrittenIsReadBack, Done
  <2>9. reply' \in Answers
    BY <2>2, <2>3 DEF Statuses, Answers
  <2> QED BY <1>1, <1>2, <2>6, <2>8, <2>9 DEF IInv, TypeOK, RoundTrips
<1> QED BY <1>3, <1>4

(* A write, handleWrite of handler.go: likewise, with WriteThenRead. *)
LEMMA WriteIInv ==
  ASSUME IInv, NEW r \in WriteRequests, Write(r)
  PROVE  IInv'
<1>1. request' = r /\ MemoryOK
  BY DEF Write, IInv, TypeOK
<1>2. CASE WriteRefused(r) \/ OutOfRange(r, Len(r.body.values))
  <2>1. reply' = [status |-> 400, values |-> <<>>] \/ reply' = [status |-> 502, values |-> <<>>]
    BY <1>2 DEF Write, Reply
  <2>2. reply'.status # 200 /\ reply' \in Answers
    BY <2>1, WithoutValues DEF Statuses
  <2>3. RoundTrips'
    BY <2>2 DEF RoundTrips, WrittenIsReadBack, ReadIsWrittenBack, Done
  <2>4. MemoryOK'
    <3>1. words' = words /\ bits' = bits
      BY <1>2 DEF Write, memory
    <3> QED BY <1>1, <3>1 DEF MemoryOK
  <2> QED BY <1>1, <2>2, <2>3, <2>4 DEF IInv, TypeOK
<1>3. CASE ~WriteRefused(r) /\ ~OutOfRange(r, Len(r.body.values))
  <2>1. /\ reply' = [status |-> 200, values |-> <<>>]
        /\ words' = WordsAfter(r) /\ bits' = BitsAfter(r)
    BY <1>3 DEF Write, Reply
  <2>2. MemoryOK'
    BY <1>1, <1>3, <2>1, WriteKeepsMemory DEF MemoryOK
  <2>3. ~ReadRefused(AsRead(r)) /\ ValuesOf(AsRead(r))' = r.body.values
    BY <1>1, <1>3, <2>1, ReadAccepted, WriteThenRead
  <2>4. AsRead(request)' = AsRead(r)
    BY <1>1 DEF AsRead
  <2>5. ValuesOf(AsRead(request))' = ValuesOf(AsRead(r))'
    BY <2>4 DEF ValuesOf, Pack, Width
  <2>6. WrittenIsReadBack'
    BY <1>1, <2>3, <2>4, <2>5 DEF WrittenIsReadBack
  <2>7. r.op = "write"
    BY DEF WriteRequests
  <2>8. ReadIsWrittenBack'
    BY <1>1, <2>7 DEF ReadIsWrittenBack, Done
  <2>9. reply' \in Answers
    BY <2>1, WithoutValues DEF Statuses
  <2> QED BY <1>1, <2>2, <2>6, <2>8, <2>9 DEF IInv, TypeOK, RoundTrips
<1> QED BY <1>2, <1>3

(* Each step keeps the invariant. *)
LEMMA NextIInv == IInv /\ [ReadWriteNext]_readWriteVars => IInv'
<1> SUFFICES ASSUME IInv, [ReadWriteNext]_readWriteVars PROVE IInv'
  OBVIOUS
<1>1. ASSUME NEW r \in ReadRequests, Read(r) PROVE IInv'
  BY <1>1, ReadIInv
<1>2. ASSUME NEW r \in WriteRequests, Write(r) PROVE IInv'
  BY <1>2, WriteIInv
<1>3. CASE Replied
  <2>1. words' = words /\ bits' = bits /\ request' = None /\ reply' = NoAnswer
    BY <1>3 DEF Replied, memory
  <2>2. MemoryOK'
    BY <2>1 DEF IInv, TypeOK, MemoryOK
  <2>3. RoundTrips'
    BY <2>1 DEF RoundTrips, WrittenIsReadBack, ReadIsWrittenBack, Done, NoAnswer
  <2>4. reply' \in Answers
    BY <2>1, WithoutValues DEF NoAnswer
  <2> QED BY <2>1, <2>2, <2>3, <2>4 DEF IInv, TypeOK
<1>4. CASE UNCHANGED readWriteVars
  <2>1. words' = words /\ bits' = bits /\ request' = request /\ reply' = reply
    BY <1>4 DEF readWriteVars, memory
  <2>2. TypeOK'
    BY <2>1 DEF IInv, TypeOK, MemoryOK
  <2>3. ASSUME NEW q PROVE ValuesOf(q)' = ValuesOf(q)
    BY <2>1 DEF ValuesOf, Pack
  <2>4. ASSUME NEW q PROVE WordsAfter(q)' = WordsAfter(q) /\ BitsAfter(q)' = BitsAfter(q)
    BY <2>1 DEF WordsAfter, BitsAfter
  <2>5. PICK q, z : q = request /\ z = reply
    OBVIOUS
  <2>6. request' = q /\ reply' = z
    BY <2>1, <2>5
  <2>7. WrittenIsReadBack'
    <3>1. WrittenIsReadBack
      BY DEF IInv, RoundTrips
    <3> QED BY <2>3, <2>5, <2>6, <3>1 DEF WrittenIsReadBack, Done
  <2>8. ReadIsWrittenBack'
    <3>1. ReadIsWrittenBack
      BY DEF IInv, RoundTrips
    <3> QED BY <2>1, <2>4, <2>5, <2>6, <3>1 DEF ReadIsWrittenBack, Done
  <2> QED BY <2>2, <2>7, <2>8 DEF IInv, RoundTrips
<1> QED BY <1>1, <1>2, <1>3, <1>4 DEF ReadWriteNext

(* So it holds in every state of every behaviour. *)
LEMMA Invariance == ReadWriteSpec => []IInv
<1>1. ReadWriteInit => IInv
  BY InitIInv
<1>2. IInv /\ [ReadWriteNext]_readWriteVars => IInv'
  BY NextIInv
<1> QED BY <1>1, <1>2, PTL DEF ReadWriteSpec

(* The memory of the PLC keeps its type through every write: what the      *)
(* handler sends are words of WordBits bits and bits (handler.go:51-68,    *)
(* 533-764), and the answers are lists of integers or of booleans.         *)
THEOREM ReadWriteTypes == ReadWriteSpec => []TypeOK
<1>1. IInv => TypeOK
  BY DEF IInv
<1> QED BY <1>1, Invariance, PTL

(* What /write was given, /read gives back, and what /read answers, /write *)
(* accepts and stores without a change, at every width, signed or not, for *)
(* words, double words, bits, bits of words and the K notation             *)
(* (handler.go:51-68, 358-764).                                            *)
THEOREM ReadingInvertsWriting == ReadWriteSpec => []RoundTrips
<1>1. IInv => RoundTrips
  BY DEF IInv
<1> QED BY <1>1, Invariance, PTL

(* A write changes the devices it names, of a word with bit access only    *)
(* the bits it names, and a request that is refused changes nothing        *)
(* (queue.go:296-319, 355-373; handler.go:509-764).                        *)
THEOREM WritesChangeOnlyWhatTheyName == ReadWriteSpec => OnlyWhatIsNamed
<1> DEFINE Named ==
      LET r == request'
      IN  memory' # memory =>
             /\ r.op = "write" /\ reply'.status = 200
             /\ LET span == Span(r, Len(r.body.values))
                    bit  == r.at.bit
                IN  /\ \A w \in DOMAIN words : words'[w] # words[w] =>
                          /\ r.at.device = "word" /\ w \in span
                          /\ IsWordBit(r.at) => \A i \in 0..WordBits - 1 :
                                BitOf(words'[w], i) # BitOf(words[w], i) =>
                                    i \in bit..bit + Len(r.body.values) - 1
                    /\ \A d \in DOMAIN bits : bits'[d] # bits[d] =>
                          r.at.device = "bit" /\ d \in span
<1>1. ASSUME IInv, [ReadWriteNext]_readWriteVars PROVE [Named]_readWriteVars
  <2>1. ASSUME NEW r \in ReadRequests, Read(r) PROVE memory' = memory
    BY <2>1 DEF Read
  <2>2. ASSUME NEW r \in WriteRequests, Write(r), memory' # memory PROVE Named
    <3>1. /\ ~WriteRefused(r) /\ ~OutOfRange(r, Len(r.body.values)) /\ request' = r
          /\ reply'.status = 200 /\ words' = WordsAfter(r) /\ bits' = BitsAfter(r)
      BY <2>2 DEF Write, Reply
    <3>2. MemoryOK /\ r.op = "write"
      BY <1>1 DEF IInv, TypeOK, WriteRequests
    <3> QED BY <3>1, <3>2, WriteNames
  <2>3. ASSUME Replied PROVE memory' = memory
    BY <2>3 DEF Replied
  <2>4. memory' # memory /\ ReadWriteNext => Named
    <3> HIDE DEF Named
    <3> QED BY <2>1, <2>2, <2>3 DEF ReadWriteNext
  <2>5. memory' = memory => Named
    OBVIOUS
  <2> HIDE DEF Named
  <2> QED BY <1>1, <2>4, <2>5
<1>2. OnlyWhatIsNamed <=> [][Named]_readWriteVars
  BY DEF OnlyWhatIsNamed
<1> HIDE DEF Named
<1> QED BY <1>1, <1>2, Invariance, PTL DEF ReadWriteSpec
=============================================================================
