-------------------------- MODULE DeviceOpsProofs ---------------------------
(***************************************************************************)
(* What an operation of several commands does to the memory of the PLC,    *)
(* proved for any requests, any words and devices, and any ladder program. *)
(***************************************************************************)
EXTENDS DeviceOps, LoopTheorems, SequenceTheorems, TLAPS

-----------------------------------------------------------------------------
(* Storing entries. *)

(* f lists what the loop of Store makes of m, turn by turn. *)
StoreRun(f, D, V, m, es, I) ==
    /\ f \in [0..Len(es) -> [D -> V]]
    /\ f[0] = m /\ Store(m, es, I) = f[Len(es)]
    /\ \A i \in 1..Len(es) :
          f[i] = IF i \in I THEN [f[i - 1] EXCEPT ![es[i].on] = es[i].value] ELSE f[i - 1]

(* The recursive function in Store exists. *)
LEMMA StoreTurns ==
  ASSUME NEW D, NEW V, NEW m \in [D -> V], NEW I,
         NEW es, Len(es) \in Nat, \A i \in 1..Len(es) : es[i].value \in V
  PROVE  \E f : StoreRun(f, D, V, m, es, I)
<1> DEFINE n == Len(es)
           X == [D -> V]
           G(y, i) == IF i \in I THEN [y EXCEPT ![es[i].on] = es[i].value] ELSE y
           g == [i \in 1..n |-> [y \in X |-> G(y, i)]]
           Turns(f) == f = [i \in 0..n |->
                              IF i = 0 THEN m
                              ELSE IF i \in I THEN [f[i - 1] EXCEPT ![es[i].on] = es[i].value]
                              ELSE f[i - 1]]
           after == CHOOSE f : Turns(f)
<1>0. n \in Nat
  OBVIOUS
<1>1. \A y \in X, i \in 1..n : G(y, i) \in X
  OBVIOUS
<1>2. g \in [1..n -> [X -> X]] /\ \A y \in X, i \in 1..n : g[i][y] = G(y, i)
  <2> HIDE DEF G, X, n
  <2> QED BY <1>1
<1>3. PICK f \in [0..n -> X] : f[0] = m /\ \A i \in 1..n : f[i] = g[i][f[i - 1]]
  <2>1. m \in X /\ g \in [1..n -> [X -> X]]
    BY <1>2
  <2> HIDE DEF g, X, n
  <2>2. PICK f : Run(f, n, X, m, g)
    BY <1>0, <2>1, Iterates
  <2> QED BY <2>2 DEF Run
<1>4. \A i \in 1..n : f[i] = G(f[i - 1], i)
  <2> SUFFICES ASSUME NEW i \in 1..n PROVE f[i] = G(f[i - 1], i)
    OBVIOUS
  <2>1. f[i - 1] \in X
    BY <1>0
  <2> HIDE DEF G, g, X
  <2> QED BY <1>2, <1>3, <2>1
<1>5. Turns(f)
  <2> SUFFICES ASSUME NEW i \in 0..n
               PROVE  f[i] = IF i = 0 THEN m
                              ELSE IF i \in I THEN [f[i - 1] EXCEPT ![es[i].on] = es[i].value]
                              ELSE f[i - 1]
    BY <1>3
  <2>1. CASE i = 0
    BY <1>3, <2>1
  <2>2. CASE i # 0
    <3>1. i \in 1..n
      BY <1>0, <2>2
    <3> QED BY <1>4, <2>2, <3>1
  <2> QED BY <2>1, <2>2
<1>6. Turns(after)
  <2> HIDE DEF Turns
  <2> QED BY <1>5
<1>7. after = f
  <2> DEFINE S == {i \in 0..n : after[i] = f[i]}
  <2> HIDE DEF after
  <2>1. 0 \in S
    BY <1>0, <1>3, <1>6
  <2>2. ASSUME NEW i \in 1..n, i - 1 \in S PROVE i \in S
    <3>1. i \in 0..n /\ i # 0 /\ i - 1 \in 0..n /\ after[i - 1] = f[i - 1]
      BY <1>0, <2>2
    <3>2. after[i] = G(after[i - 1], i) /\ f[i] = G(f[i - 1], i)
      BY <1>4, <1>6, <3>1
    <3> HIDE DEF G, Turns
    <3> QED BY <3>1, <3>2
  <2>3. 0..n \subseteq S
    <3> HIDE DEF S
    <3> QED BY <1>0, <2>1, <2>2, UpTo
  <2> QED BY <1>3, <1>6, <2>3
<1>8. Store(m, es, I) = after[n]
  BY DEF Store
<1> QED BY <1>3, <1>4, <1>7, <1>8 DEF StoreRun

(* The first n entries, of those numbered I, that are on d. *)
Mine(es, I, n, d) == {j \in 1..n : j \in I /\ es[j].on = d}

(* st is m with the entries I of es: at every place the value of the last  *)
(* of them that is on it, and what was there if none is.                   *)
Stored(st, D, V, m, es, I) ==
    /\ st \in [D -> V]
    /\ \A d \in D : st[d] = LastOf(es, Mine(es, I, Len(es), d), m[d])

(* This is what Store makes of m. *)
LEMMA StoreIs ==
  ASSUME NEW D, NEW V, NEW m \in [D -> V], NEW I,
         NEW es, Len(es) \in Nat, \A i \in 1..Len(es) : es[i].value \in V
  PROVE  Stored(Store(m, es, I), D, V, m, es, I)
<1> DEFINE n == Len(es)
<1>1. PICK f \in [0..n -> [D -> V]] :
         /\ f[0] = m /\ Store(m, es, I) = f[n]
         /\ \A i \in 1..n :
               f[i] = IF i \in I THEN [f[i - 1] EXCEPT ![es[i].on] = es[i].value] ELSE f[i - 1]
  <2>1. PICK f : StoreRun(f, D, V, m, es, I)
    BY StoreTurns
  <2> QED BY <2>1 DEF StoreRun
<1> DEFINE S == {i \in 0..n : \A d \in D : f[i][d] = LastOf(es, Mine(es, I, i, d), m[d])}
<1>2. 0 \in S
  BY <1>1 DEF LastOf, Mine
<1>3. ASSUME NEW i \in 1..n, i - 1 \in S PROVE i \in S
  <2> SUFFICES ASSUME NEW d \in D PROVE f[i][d] = LastOf(es, Mine(es, I, i, d), m[d])
    OBVIOUS
  <2>1. f[i - 1][d] = LastOf(es, Mine(es, I, i - 1, d), m[d]) /\ f[i - 1] \in [D -> V]
    BY <1>3
  <2>2. CASE i \in I /\ es[i].on = d
    <3>1. f[i][d] = es[i].value
      BY <1>1, <2>1, <2>2
    <3>2. i \in Mine(es, I, i, d) /\ Mine(es, I, i, d) \in SUBSET (1..i) /\ i \in Nat
      BY <2>2 DEF Mine
    <3>3. Max(Mine(es, I, i, d)) \in 1..i /\ i <= Max(Mine(es, I, i, d))
      BY <3>2, MaxOf
    <3>4. Max(Mine(es, I, i, d)) = i /\ Mine(es, I, i, d) # {}
      BY <3>2, <3>3
    <3> QED BY <3>1, <3>4 DEF LastOf
  <2>3. CASE ~(i \in I /\ es[i].on = d)
    <3>1. f[i][d] = f[i - 1][d]
      BY <1>1, <2>1, <2>3
    <3>2. Mine(es, I, i, d) = Mine(es, I, i - 1, d)
      BY <2>3 DEF Mine
    <3> QED BY <2>1, <3>1, <3>2
  <2> QED BY <2>2, <2>3
<1>4. n \in S
  <2>1. n \in Nat
    OBVIOUS
  <2> HIDE DEF S, n
  <2>2. 0..n \subseteq S
    BY <1>2, <1>3, <2>1, UpTo
  <2> QED BY <2>1, <2>2
<1> QED BY <1>1, <1>4 DEF Stored

(* A sequence of entries is a function of their numbers. *)
LEMMA EntriesOf ==
  ASSUME NEW R, NEW es \in Seq(R)
  PROVE  /\ Len(es) \in Nat /\ DOMAIN es = 1..Len(es)
         /\ \A i \in 1..Len(es) : es[i] \in R
OBVIOUS

(* st is m with all of the entries es. *)
StoredAll(st, D, V, m, es) ==
    /\ st \in [D -> V]
    /\ \A d \in D : st[d] = LastOf(es, {i \in DOMAIN es : es[i].on = d}, m[d])

(* Storing a list of words or bits, entry by entry (queue.go:508-527). *)
LEMMA StoreAllIs ==
  ASSUME NEW D, NEW V, NEW m \in [D -> V], NEW es \in Seq([on : D, value : V])
  PROVE  StoredAll(StoreAll(m, es), D, V, m, es)
<1>1. Len(es) \in Nat /\ DOMAIN es = 1..Len(es) /\ \A i \in 1..Len(es) : es[i].value \in V
  <2>1. \A e \in [on : D, value : V] : e.value \in V
    OBVIOUS
  <2> QED BY <2>1, EntriesOf
<1>2. \A d \in D : Mine(es, DOMAIN es, Len(es), d) = {i \in DOMAIN es : es[i].on = d}
  BY <1>1 DEF Mine
<1>3. Stored(StoreAll(m, es), D, V, m, es, DOMAIN es)
  BY <1>1, StoreIs DEF StoreAll
<1> QED BY <1>2, <1>3 DEF Stored, StoredAll

WordBitEntry == [word : Word, on : Bit, value : BOOLEAN]

(* st is the word m with those of the entries es that are for word w. *)
StoredGroup(st, m, es, w) ==
    /\ st \in Contents
    /\ \A n \in Bit : st[n] = LastOf(es, {i \in DOMAIN es : es[i].word = w /\ es[i].on = n}, m[n])

(* Storing the bits of one word, one after the other, leaves its other     *)
(* bits and the other words alone (queue.go:551-557).                      *)
LEMMA StoreGroupIs ==
  ASSUME NEW m \in Contents, NEW es \in Seq(WordBitEntry), NEW w
  PROVE  StoredGroup(Store(m, es, Group(es, w)), m, es, w)
<1>1. Len(es) \in Nat /\ DOMAIN es = 1..Len(es) /\ \A i \in 1..Len(es) : es[i].value \in BOOLEAN
  <2>1. \A e \in WordBitEntry : e.value \in BOOLEAN
    BY DEF WordBitEntry
  <2> QED BY <2>1, EntriesOf
<1>2. \A n \in Bit : Mine(es, Group(es, w), Len(es), n)
                        = {i \in DOMAIN es : es[i].word = w /\ es[i].on = n}
  BY <1>1 DEF Group, Mine
<1>3. Stored(Store(m, es, Group(es, w)), Bit, BOOLEAN, m, es, Group(es, w))
  <2>1. m \in [Bit -> BOOLEAN]
    BY DEF Contents
  <2> QED BY <1>1, <2>1, StoreIs
<1> QED BY <1>2, <1>3 DEF Stored, StoredGroup, Contents

(* The value of the last entry is that of some entry. *)
LEMMA LastOfType ==
  ASSUME NEW V, NEW es, DOMAIN es = 1..Len(es), Len(es) \in Nat,
         \A i \in DOMAIN es : es[i].value \in V, NEW S \in SUBSET DOMAIN es, NEW v \in V
  PROVE  LastOf(es, S, v) \in V
BY MaxOf DEF LastOf

-----------------------------------------------------------------------------
(* The commands of an operation. *)

(* The order of the words: each word that an entry is for, once. *)
LEMMA GroupOrderIs ==
  ASSUME NEW es \in Seq(WordBitEntry)
  PROVE  LET order == GroupOrder(es)
         IN  /\ order \in Seq(Word)
             /\ \A i, j \in 1..Len(order) : order[i] = order[j] => i = j
             /\ \A w : (\E i \in 1..Len(order) : order[i] = w) <=> Group(es, w) # {}
<1> DEFINE n == Len(es)
           X == Seq(Word)
           G(y, i) == IF es[i].word \in ToSet(y) THEN y ELSE Append(y, es[i].word)
           g == [i \in 1..n |-> [y \in X |-> G(y, i)]]
           Turns(f) == f = [i \in 0..n |->
                              IF i = 0 THEN <<>>
                              ELSE IF es[i].word \in ToSet(f[i - 1]) THEN f[i - 1]
                              ELSE Append(f[i - 1], es[i].word)]
           after == CHOOSE f : Turns(f)
<1>0. n \in Nat /\ DOMAIN es = 1..n /\ \A i \in 1..n : es[i].word \in Word
  <2>1. \A e \in WordBitEntry : e.word \in Word
    BY DEF WordBitEntry
  <2> QED BY <2>1, EntriesOf
<1>1. \A y \in X, i \in 1..n : G(y, i) \in X
  BY <1>0
<1>2. g \in [1..n -> [X -> X]] /\ \A y \in X, i \in 1..n : g[i][y] = G(y, i)
  <2> HIDE DEF G, X, n
  <2> QED BY <1>1
<1>3. PICK f \in [0..n -> X] : f[0] = <<>> /\ \A i \in 1..n : f[i] = g[i][f[i - 1]]
  <2>1. <<>> \in X /\ g \in [1..n -> [X -> X]]
    BY <1>2
  <2> HIDE DEF g, X, n
  <2>2. PICK f : Run(f, n, X, <<>>, g)
    BY <1>0, <2>1, Iterates
  <2> QED BY <2>2 DEF Run
<1>4. \A i \in 1..n : f[i - 1] \in X /\ f[i] = G(f[i - 1], i)
  <2> SUFFICES ASSUME NEW i \in 1..n PROVE f[i - 1] \in X /\ f[i] = G(f[i - 1], i)
    OBVIOUS
  <2>1. f[i - 1] \in X
    BY <1>0
  <2> HIDE DEF G, g, X
  <2> QED BY <1>2, <1>3, <2>1
<1>5. Turns(f)
  <2> SUFFICES ASSUME NEW i \in 0..n
               PROVE  f[i] = IF i = 0 THEN <<>>
                              ELSE IF es[i].word \in ToSet(f[i - 1]) THEN f[i - 1]
                              ELSE Append(f[i - 1], es[i].word)
    BY <1>3
  <2>1. CASE i = 0
    BY <1>3, <2>1
  <2>2. CASE i # 0
    <3>1. i \in 1..n
      BY <1>0, <2>2
    <3> QED BY <1>4, <2>2, <3>1
  <2> QED BY <2>1, <2>2
<1>6. Turns(after)
  <2> HIDE DEF Turns
  <2> QED BY <1>5
<1>7. after = f
  <2> DEFINE S == {i \in 0..n : after[i] = f[i]}
  <2> HIDE DEF after
  <2>1. 0 \in S
    BY <1>0, <1>3, <1>6
  <2>2. ASSUME NEW i \in 1..n, i - 1 \in S PROVE i \in S
    <3>1. i \in 0..n /\ i # 0 /\ i - 1 \in 0..n /\ after[i - 1] = f[i - 1]
      BY <1>0, <2>2
    <3>2. after[i] = G(after[i - 1], i) /\ f[i] = G(f[i - 1], i)
      BY <1>4, <1>6, <3>1
    <3> HIDE DEF G, Turns
    <3> QED BY <3>1, <3>2
  <2>3. 0..n \subseteq S
    <3> HIDE DEF S
    <3> QED BY <1>0, <2>1, <2>2, UpTo
  <2> QED BY <1>3, <1>6, <2>3
<1>8. GroupOrder(es) = f[n]
  BY <1>7 DEF GroupOrder
<1> HIDE DEF after, Turns, g
<1> DEFINE Ordered(s, i) ==
              /\ \A j, k \in 1..Len(s) : s[j] = s[k] => j = k
              /\ \A w : (\E j \in 1..Len(s) : s[j] = w) <=> (\E k \in 1..i : es[k].word = w)
           S == {i \in 0..n : Ordered(f[i], i)}
<1>9. 0 \in S
  BY <1>0, <1>3
<1>10. ASSUME NEW i \in 1..n, i - 1 \in S PROVE i \in S
  <2> DEFINE s == f[i - 1]
  <2>1. s \in Seq(Word) /\ Len(s) \in Nat /\ f[i] = G(s, i) /\ Ordered(s, i - 1)
    BY <1>4, <1>10
  <2>2. ToSet(s) = {s[j] : j \in 1..Len(s)}
    BY <2>1 DEF ToSet
  <2>3. \A k \in 1..i : k = i \/ k \in 1..i - 1
    OBVIOUS
  <2> HIDE DEF s
  <2>4. CASE es[i].word \in ToSet(s)
    <3>1. f[i] = s
      BY <2>1, <2>4
    <3>2. \E j \in 1..Len(s) : s[j] = es[i].word
      BY <2>2, <2>4
    <3>3. Ordered(s, i)
      <4>1. \A w : (\E k \in 1..i : es[k].word = w)
                    <=> (es[i].word = w \/ \E k \in 1..i - 1 : es[k].word = w)
        BY <2>3
      <4> QED BY <2>1, <3>2, <4>1
    <3> HIDE DEF Ordered
    <3> QED BY <1>0, <3>1, <3>3
  <2>5. CASE es[i].word \notin ToSet(s)
    <3> DEFINE t == Append(s, es[i].word)
    <3>1. f[i] = t
      BY <2>1, <2>5
    <3>2. /\ Len(t) = Len(s) + 1 /\ t[Len(s) + 1] = es[i].word
          /\ \A j \in 1..Len(s) : t[j] = s[j] /\ s[j] # es[i].word
      BY <1>0, <2>1, <2>2, <2>5
    <3> HIDE DEF t
    <3>3. \A j, k \in 1..Len(t) : t[j] = t[k] => j = k
      BY <2>1, <3>2
    <3>4. ASSUME NEW w
          PROVE  (\E j \in 1..Len(t) : t[j] = w) <=> (\E k \in 1..i : es[k].word = w)
      <4>1. (\E j \in 1..Len(t) : t[j] = w) <=> (es[i].word = w \/ \E j \in 1..Len(s) : s[j] = w)
        <5>1. 1..Len(t) = 1..Len(s) \cup {Len(s) + 1}
          BY <2>1, <3>2
        <5> QED BY <3>2, <5>1
      <4>2. (\E k \in 1..i : es[k].word = w) <=> (es[i].word = w \/ \E k \in 1..i - 1 : es[k].word = w)
        BY <2>3
      <4> QED BY <2>1, <4>1, <4>2
    <3>5. Ordered(t, i)
      BY <3>3, <3>4
    <3> HIDE DEF Ordered
    <3> QED BY <1>0, <3>1, <3>5
  <2> QED BY <2>4, <2>5
<1>11. n \in S
  <2> HIDE DEF S, n
  <2>1. 0..n \subseteq S
    BY <1>0, <1>9, <1>10, UpTo
  <2> QED BY <1>0, <2>1
<1>12. f[n] \in Seq(Word)
  BY <1>0
<1> QED BY <1>0, <1>8, <1>11, <1>12 DEF Group

(* How many commands come before the bit devices, and before the words of  *)
(* the word-bit entries; and the order of these.                           *)
ForWords(b)   == IF b.words = <<>> THEN 0 ELSE 1
ForDevices(b) == ForWords(b) + (IF b.bits = <<>> THEN 0 ELSE 1)
Order(b)      == GroupOrder(b.wordBits)

Commands == [cmd : {"RandomWrite", "RandomWriteBits", "ReadWords", "WriteWords",
                    "RandomRead", "ReadBits"},
             on  : Word \cup BitDevice \cup {None}]

(* u is s and then t. *)
Joins(u, s, t) ==
    /\ Len(u) = Len(s) + Len(t)
    /\ \A i \in 1..Len(s) : u[i] = s[i]
    /\ \A i \in 1..Len(t) : u[Len(s) + i] = t[i]

(* This is what \o makes. *)
LEMMA Joined ==
  ASSUME NEW S, NEW s \in Seq(S), NEW t \in Seq(S)
  PROVE  s \o t \in Seq(S) /\ Joins(s \o t, s, t)
<1>1. Len(s) \in Nat /\ Len(t) \in Nat
  OBVIOUS
<1>2. /\ s \o t \in Seq(S) /\ Len(s \o t) = Len(s) + Len(t)
      /\ \A i \in 1..Len(s) + Len(t) :
            (s \o t)[i] = IF i <= Len(s) THEN s[i] ELSE t[i - Len(s)]
  BY ConcatProperties
<1>3. ASSUME NEW i \in 1..Len(t) PROVE (s \o t)[Len(s) + i] = t[i]
  <2>1. /\ Len(s) + i \in 1..Len(s) + Len(t) /\ ~(Len(s) + i <= Len(s))
        /\ Len(s) + i - Len(s) = i
    BY <1>1
  <2> QED BY <1>2, <2>1
<1>4. \A i \in 1..Len(s) : (s \o t)[i] = s[i]
  BY <1>1, <1>2
<1> QED BY <1>2, <1>3, <1>4 DEF Joins

(* A command that names no word. *)
LEMMA CommandIs ==
  \A c \in {"RandomWrite", "RandomWriteBits", "RandomRead"} :
     /\ Command(c, None) \in Seq(Commands)
     /\ Len(Command(c, None)) = 1 /\ Command(c, None)[1].cmd = c
<1> SUFFICES ASSUME NEW c \in {"RandomWrite", "RandomWriteBits", "RandomRead"}
             PROVE  /\ Command(c, None) \in Seq(Commands)
                    /\ Len(Command(c, None)) = 1 /\ Command(c, None)[1].cmd = c
  OBVIOUS
<1>1. [cmd |-> c, on |-> None] \in Commands
  BY DEF Commands
<1> QED BY <1>1 DEF Command

(* What the body of a request is made of. *)
LEMMA BodyTypes ==
  /\ \A b \in WriteBodies : /\ b.kind = "write"
                            /\ b.words \in Seq([on : Word, value : Contents])
                            /\ b.bits \in Seq([on : BitDevice, value : BOOLEAN])
                            /\ b.wordBits \in Seq(WordBitEntry)
  /\ \A b \in ReadBodies : /\ b.kind = "read"
                           /\ b.words \in Seq([on : Word])
                           /\ b.bits \in Seq([on : BitDevice])
BY DEF WriteBodies, ReadBodies, WordBitEntry

(* The commands of a read-modify-write of each word, in order.             *)
LEMMA ReadModifyWritesIs ==
  ASSUME NEW order \in Seq(Word)
  PROVE  LET p == ReadModifyWrites(order)
         IN  /\ p \in Seq(Commands) /\ Len(p) = 2 * Len(order)
             /\ \A i \in 1..Len(order) :
                   /\ p[2 * i - 1] = [cmd |-> "ReadWords", on |-> order[i]]
                   /\ p[2 * i] = [cmd |-> "WriteWords", on |-> order[i]]
<1> DEFINE L == Len(order)
           p == ReadModifyWrites(order)
<1>1. L \in Nat /\ 2 * L \in Nat /\ \A i \in 1..L : order[i] \in Word
  OBVIOUS
<1>2. ASSUME NEW j \in 1..2 * L
      PROVE  [cmd |-> IF j % 2 = 1 THEN "ReadWords" ELSE "WriteWords", on |-> order[(j + 1) \div 2]]
                \in Commands
  <2>1. (j + 1) \div 2 \in 1..L
    BY <1>1
  <2> QED BY <1>1, <2>1 DEF Commands
<1>3. p \in [1..2 * L -> Commands]
  BY <1>2 DEF ReadModifyWrites
<1>4. p \in Seq(Commands) /\ Len(p) = 2 * L
  BY <1>1, <1>3
<1>5. ASSUME NEW i \in 1..L
      PROVE  /\ p[2 * i - 1] = [cmd |-> "ReadWords", on |-> order[i]]
             /\ p[2 * i] = [cmd |-> "WriteWords", on |-> order[i]]
  <2>1. /\ 2 * i - 1 \in 1..2 * L /\ (2 * i - 1) % 2 = 1 /\ ((2 * i - 1) + 1) \div 2 = i
        /\ 2 * i \in 1..2 * L /\ (2 * i) % 2 # 1 /\ (2 * i + 1) \div 2 = i
    BY <1>1
  <2> QED BY <2>1 DEF ReadModifyWrites
<1> QED BY <1>4, <1>5

(* The commands of a write. *)
LEMMA WritePlanIs ==
  ASSUME NEW b \in WriteBodies
  PROVE  LET p == WritePlan(b)
             n == ForDevices(b)
         IN  /\ Order(b) \in Seq(Word) /\ Len(p) = n + 2 * Len(Order(b))
             /\ ForWords(b) = 1 => p[1].cmd = "RandomWrite"
             /\ n > ForWords(b) => p[n].cmd = "RandomWriteBits"
             /\ \A i \in 1..Len(Order(b)) :
                   /\ p[n + 2 * i - 1] = [cmd |-> "ReadWords", on |-> Order(b)[i]]
                   /\ p[n + 2 * i] = [cmd |-> "WriteWords", on |-> Order(b)[i]]
<1> DEFINE s == IF b.words = <<>> THEN <<>> ELSE Command("RandomWrite", None)
           t == IF b.bits = <<>> THEN <<>> ELSE Command("RandomWriteBits", None)
           q == ReadModifyWrites(Order(b))
           L == Len(Order(b))
<1>1. Order(b) \in Seq(Word) /\ L \in Nat
  BY BodyTypes, GroupOrderIs DEF Order
<1>2. /\ q \in Seq(Commands) /\ Len(q) = 2 * L
      /\ \A i \in 1..L : /\ q[2 * i - 1] = [cmd |-> "ReadWords", on |-> Order(b)[i]]
                         /\ q[2 * i] = [cmd |-> "WriteWords", on |-> Order(b)[i]]
  BY <1>1, ReadModifyWritesIs
<1>3. /\ s \in Seq(Commands) /\ Len(s) = ForWords(b) /\ ForWords(b) \in {0, 1}
      /\ (ForWords(b) = 1 => s[1].cmd = "RandomWrite")
  <2>1. CASE b.words = <<>>
    BY <2>1 DEF ForWords
  <2>2. CASE b.words # <<>>
    <3>1. s = Command("RandomWrite", None) /\ ForWords(b) = 1
      BY <2>2 DEF ForWords
    <3> HIDE DEF Command, s
    <3> QED BY <3>1, CommandIs
  <2> QED BY <2>1, <2>2
<1>4. /\ t \in Seq(Commands) /\ ForDevices(b) = ForWords(b) + Len(t) /\ Len(t) \in {0, 1}
      /\ (Len(t) = 1 => t[1].cmd = "RandomWriteBits")
  <2>1. CASE b.bits = <<>>
    BY <1>3, <2>1 DEF ForDevices
  <2>2. CASE b.bits # <<>>
    <3>1. t = Command("RandomWriteBits", None) /\ ForDevices(b) = ForWords(b) + 1
      BY <2>2 DEF ForDevices
    <3> HIDE DEF Command, t
    <3> QED BY <3>1, CommandIs
  <2> QED BY <2>1, <2>2
<1>5. WritePlan(b) = (s \o t) \o q
  BY DEF WritePlan, Order
<1> DEFINE u == s \o t
<1> HIDE DEF s, t, q
<1>6. /\ u \in Seq(Commands) /\ Len(u) = ForDevices(b) /\ Len(u) \in Nat
      /\ \A i \in 1..Len(s) : u[i] = s[i]
      /\ \A i \in 1..Len(t) : u[Len(s) + i] = t[i]
  <2>1. u \in Seq(Commands) /\ Joins(u, s, t)
    BY <1>3, <1>4, Joined
  <2> HIDE DEF u
  <2> QED BY <1>3, <1>4, <2>1 DEF Joins
<1> HIDE DEF u
<1>7. /\ (ForWords(b) = 1 => 1 \in 1..Len(u) /\ u[1].cmd = "RandomWrite")
      /\ (ForDevices(b) > ForWords(b) => /\ ForDevices(b) \in 1..Len(u)
                                         /\ u[ForDevices(b)].cmd = "RandomWriteBits")
  BY <1>3, <1>4, <1>6
<1>8. /\ Len(u \o q) = ForDevices(b) + 2 * L
      /\ \A i \in 1..Len(u) : (u \o q)[i] = u[i]
      /\ \A i \in 1..Len(q) : (u \o q)[ForDevices(b) + i] = q[i]
  <2>1. Joins(u \o q, u, q)
    BY <1>2, <1>6, Joined
  <2> QED BY <1>2, <1>6, <2>1 DEF Joins
<1>9. ASSUME NEW i \in 1..L
      PROVE  /\ (u \o q)[ForDevices(b) + 2 * i - 1] = [cmd |-> "ReadWords", on |-> Order(b)[i]]
             /\ (u \o q)[ForDevices(b) + 2 * i] = [cmd |-> "WriteWords", on |-> Order(b)[i]]
  <2>1. /\ 2 * i - 1 \in 1..Len(q) /\ 2 * i \in 1..Len(q)
        /\ ForDevices(b) + (2 * i - 1) = ForDevices(b) + 2 * i - 1
    BY <1>1, <1>2, <1>6
  <2> QED BY <1>2, <1>8, <2>1
<1> QED BY <1>1, <1>5, <1>7, <1>8, <1>9 DEF u

(* The commands of a read. *)
LEMMA ReadPlanIs ==
  ASSUME NEW b \in ReadBodies
  PROVE  LET p == ReadPlan(b)
         IN  /\ Len(p) = ForWords(b) + Len(b.bits) /\ ForWords(b) \in {0, 1}
             /\ ForWords(b) = 1 => p[1].cmd = "RandomRead"
             /\ \A i \in 1..Len(b.bits) :
                   p[ForWords(b) + i] = [cmd |-> "ReadBits", on |-> b.bits[i].on]
<1> DEFINE s == IF b.words = <<>> THEN <<>> ELSE Command("RandomRead", None)
           q == [i \in 1..Len(b.bits) |-> [cmd |-> "ReadBits", on |-> b.bits[i].on]]
<1>1. /\ s \in Seq(Commands) /\ Len(s) = ForWords(b) /\ ForWords(b) \in {0, 1}
      /\ (ForWords(b) = 1 => s[1].cmd = "RandomRead")
  <2>1. CASE b.words = <<>>
    BY <2>1 DEF ForWords
  <2>2. CASE b.words # <<>>
    <3>1. s = Command("RandomRead", None) /\ ForWords(b) = 1
      BY <2>2 DEF ForWords
    <3> HIDE DEF Command, s
    <3> QED BY <3>1, CommandIs
  <2> QED BY <2>1, <2>2
<1>2. q \in Seq(Commands) /\ Len(q) = Len(b.bits) /\ Len(q) \in Nat
  <2>1. /\ Len(b.bits) \in Nat
        /\ \A i \in 1..Len(b.bits) : b.bits[i] \in [on : BitDevice]
    BY BodyTypes, EntriesOf
  <2>2. \A i \in 1..Len(b.bits) : [cmd |-> "ReadBits", on |-> b.bits[i].on] \in Commands
    BY <2>1 DEF Commands
  <2> QED BY <2>1, <2>2
<1>3. ReadPlan(b) = s \o q /\ \A i \in 1..Len(q) : q[i] = [cmd |-> "ReadBits", on |-> b.bits[i].on]
  BY <1>2 DEF ReadPlan
<1> HIDE DEF s, q
<1>4. Joins(s \o q, s, q)
  BY <1>1, <1>2, Joined
<1> DEFINE u == s \o q
<1> HIDE DEF u
<1>5. /\ Len(u) = ForWords(b) + Len(b.bits)
      /\ \A i \in 1..Len(s) : u[i] = s[i]
      /\ \A i \in 1..Len(b.bits) : u[ForWords(b) + i] = [cmd |-> "ReadBits", on |-> b.bits[i].on]
  BY <1>1, <1>2, <1>3, <1>4 DEF Joins, u
<1>6. ForWords(b) = 1 => u[1].cmd = "RandomRead"
  BY <1>1, <1>5
<1> QED BY <1>1, <1>3, <1>5, <1>6 DEF u

-----------------------------------------------------------------------------
(* What the commands of one operation make of memory. *)

Memories == [words : [Word -> Contents], bits : [BitDevice -> BOOLEAN]]
Answers  == [words : Seq(Contents), bits : Seq(BOOLEAN)]

(* The command c of b, with h held, turns ws and bs into us and vs. *)
Does(b, c, h, ws, bs, us, vs) ==
    \/ c.cmd = "RandomWrite" /\ us = StoreAll(ws, b.words) /\ vs = bs
    \/ c.cmd = "RandomWriteBits" /\ us = ws /\ vs = StoreAll(bs, b.bits)
    \/ /\ c.cmd = "WriteWords" /\ vs = bs
       /\ us = [ws EXCEPT ![c.on] = Store(h, b.wordBits, Group(b.wordBits, c.on))]
    \/ c.cmd \in {"ReadWords", "RandomRead", "ReadBits"} /\ us = ws /\ vs = bs

(* What the first s commands of the write b make of the memory m, where    *)
(* the ladder program leaves it alone: the words, the bit devices, then    *)
(* word by word the word bits.                                             *)
Written(b, m, s, ws, bs) ==
    /\ \A w \in QuietWords :
          ws[w] = IF s < ForWords(b) THEN m.words[w]
                  ELSE IF \E i \in 1..Len(Order(b)) :
                             Order(b)[i] = w /\ ForDevices(b) + 2 * i <= s
                  THEN Expected(b, m, w) ELSE AsWritten(b, m, w)
    /\ \A d \in QuietDevices :
          bs[d] = IF s < ForDevices(b) THEN m.bits[d] ELSE ExpectedOn(b, m, d)

(* Between the read and the write of a word its contents are held. *)
Holds(b, s, h, ws) ==
    \A i \in 1..Len(Order(b)) :
       s = ForDevices(b) + 2 * i - 1 /\ Order(b)[i] \in QuietWords => h = ws[Order(b)[i]]

(* Memory is what it was, and a is that much of it that the first s        *)
(* commands of the read b ask for.                                         *)
Seen(b, m, s, a, ws, bs) ==
    /\ \A w \in QuietWords : ws[w] = m.words[w]
    /\ \A d \in QuietDevices : bs[d] = m.bits[d]
    /\ Len(a.words) = IF s < ForWords(b) THEN 0 ELSE Len(b.words)
    /\ \A i \in 1..Len(a.words) :
          b.words[i].on \in QuietWords => a.words[i] = m.words[b.words[i].on]
    /\ Len(a.bits) = IF s < ForWords(b) THEN 0 ELSE s - ForWords(b)
    /\ \A i \in 1..Len(a.bits) :
          b.bits[i].on \in QuietDevices => a.bits[i] = m.bits[b.bits[i].on]

(* What is expected of a word is a word, and of a word or device that the  *)
(* request does not name it is what was there.                             *)
LEMMA ExpectedTypes ==
  ASSUME NEW b \in WriteBodies, NEW m \in Memories, NEW w \in Word
  PROVE  /\ AsWritten(b, m, w) \in Contents /\ Expected(b, m, w) \in Contents
         /\ b.words = <<>> => AsWritten(b, m, w) = m.words[w]
         /\ b.bits = <<>> => \A d : ExpectedOn(b, m, d) = m.bits[d]
         /\ Group(b.wordBits, w) = {} => Expected(b, m, w) = AsWritten(b, m, w)
<1>1. m.words[w] \in Contents
  BY DEF Memories
<1>2. AsWritten(b, m, w) \in Contents
  <2> DEFINE S == {i \in DOMAIN b.words : b.words[i].on = w}
  <2>1. /\ DOMAIN b.words = 1..Len(b.words) /\ Len(b.words) \in Nat
        /\ \A i \in DOMAIN b.words : b.words[i].value \in Contents
    <3>1. \A e \in [on : Word, value : Contents] : e.value \in Contents
      OBVIOUS
    <3>2. b.words \in Seq([on : Word, value : Contents])
      BY BodyTypes
    <3>3. /\ Len(b.words) \in Nat /\ DOMAIN b.words = 1..Len(b.words)
          /\ \A i \in 1..Len(b.words) : b.words[i] \in [on : Word, value : Contents]
      BY <3>2, EntriesOf
    <3> QED BY <3>1, <3>3
  <2>2. S \in SUBSET DOMAIN b.words
    OBVIOUS
  <2> HIDE DEF S
  <2>3. LastOf(b.words, S, m.words[w]) \in Contents
    BY <1>1, <2>1, <2>2, LastOfType
  <2> QED BY <2>3 DEF AsWritten, S
<1>3. ASSUME NEW n \in Bit
      PROVE  LastOf(b.wordBits,
                    {i \in DOMAIN b.wordBits : b.wordBits[i].word = w /\ b.wordBits[i].on = n},
                    AsWritten(b, m, w)[n]) \in BOOLEAN
  <2> DEFINE S == {i \in DOMAIN b.wordBits : b.wordBits[i].word = w /\ b.wordBits[i].on = n}
  <2>1. /\ DOMAIN b.wordBits = 1..Len(b.wordBits) /\ Len(b.wordBits) \in Nat
        /\ \A i \in DOMAIN b.wordBits : b.wordBits[i].value \in BOOLEAN
    <3>1. \A e \in WordBitEntry : e.value \in BOOLEAN
      BY DEF WordBitEntry
    <3> QED BY <3>1, BodyTypes, EntriesOf
  <2>2. S \in SUBSET DOMAIN b.wordBits /\ AsWritten(b, m, w)[n] \in BOOLEAN
    BY <1>2 DEF Contents
  <2> HIDE DEF S
  <2>3. LastOf(b.wordBits, S, AsWritten(b, m, w)[n]) \in BOOLEAN
    BY <2>1, <2>2, LastOfType
  <2> QED BY <2>3 DEF S
<1>4. Expected(b, m, w) \in Contents
  BY <1>3 DEF Expected, Contents
<1>5. b.words = <<>> => AsWritten(b, m, w) = m.words[w]
  BY DEF AsWritten, LastOf
<1>6. b.bits = <<>> => \A d : ExpectedOn(b, m, d) = m.bits[d]
  BY DEF ExpectedOn, LastOf
<1>7. ASSUME Group(b.wordBits, w) = {} PROVE Expected(b, m, w) = AsWritten(b, m, w)
  <2>1. \A n \in Bit : {i \in DOMAIN b.wordBits : b.wordBits[i].word = w /\ b.wordBits[i].on = n} = {}
    BY <1>7 DEF Group
  <2>2. \A n \in Bit : Expected(b, m, w)[n] = AsWritten(b, m, w)[n]
    BY <2>1 DEF Expected, LastOf
  <2> QED BY <1>2, <1>4, <2>2 DEF Contents
<1> QED BY <1>2, <1>4, <1>5, <1>6, <1>7

(* The next command of a write. *)
LEMMA NextOfWrite ==
  ASSUME NEW b \in WriteBodies, NEW s \in Nat, s < Len(WritePlan(b))
  PROVE  LET n == ForDevices(b)
             c == WritePlan(b)[s + 1]
         IN  \/ s < ForWords(b) /\ s = 0 /\ c.cmd = "RandomWrite"
             \/ s = ForWords(b) /\ n = s + 1 /\ c.cmd = "RandomWriteBits"
             \/ \E i \in 1..Len(Order(b)) :
                   s = n + 2 * i - 2 /\ c = [cmd |-> "ReadWords", on |-> Order(b)[i]]
             \/ \E i \in 1..Len(Order(b)) :
                   s = n + 2 * i - 1 /\ c = [cmd |-> "WriteWords", on |-> Order(b)[i]]
<1> DEFINE n == ForDevices(b)
           L == Len(Order(b))
           p == WritePlan(b)
<1>2. /\ Order(b) \in Seq(Word) /\ Len(p) = n + 2 * L
      /\ ForWords(b) = 1 => p[1].cmd = "RandomWrite"
      /\ n > ForWords(b) => p[n].cmd = "RandomWriteBits"
      /\ \A i \in 1..L : /\ p[n + 2 * i - 1] = [cmd |-> "ReadWords", on |-> Order(b)[i]]
                         /\ p[n + 2 * i] = [cmd |-> "WriteWords", on |-> Order(b)[i]]
  BY WritePlanIs
<1>3. L \in Nat /\ ForWords(b) \in {0, 1} /\ n \in {ForWords(b), ForWords(b) + 1}
  BY <1>2 DEF ForWords, ForDevices
<1>0. s < Len(p)
  OBVIOUS
<1> HIDE DEF n, L, p
<1>4. CASE s < n
  <2>1. CASE s < ForWords(b)
    <3>1. ForWords(b) = 1 /\ s = 0 /\ s + 1 = 1
      BY <1>3, <2>1
    <3> QED BY <1>2, <2>1, <3>1 DEF n, L, p
  <2>2. CASE ~(s < ForWords(b))
    <3>1. s = ForWords(b) /\ n = s + 1 /\ n > ForWords(b)
      BY <1>3, <1>4, <2>2
    <3> QED BY <1>2, <3>1 DEF n, L, p
  <2> QED BY <2>1, <2>2
<1>5. CASE s >= n
  <2>1. PICK j \in Nat : s - n = 2 * j \/ s - n = 2 * j + 1
    <3>1. s - n \in Nat
      BY <1>3, <1>5
    <3> QED BY <3>1, Halves
  <2>2. j + 1 \in 1..L
    BY <1>0, <1>2, <1>3, <2>1
  <2>3. CASE s - n = 2 * j
    <3>1. s = n + 2 * (j + 1) - 2 /\ s + 1 = n + 2 * (j + 1) - 1
      BY <1>3, <2>3
    <3>2. p[s + 1] = [cmd |-> "ReadWords", on |-> Order(b)[j + 1]]
      BY <1>2, <2>2, <3>1
    <3> QED BY <2>2, <3>1, <3>2 DEF n, L, p
  <2>4. CASE s - n = 2 * j + 1
    <3>1. s = n + 2 * (j + 1) - 1 /\ s + 1 = n + 2 * (j + 1)
      BY <1>3, <2>4
    <3>2. p[s + 1] = [cmd |-> "WriteWords", on |-> Order(b)[j + 1]]
      BY <1>2, <2>2, <3>1
    <3> QED BY <2>2, <3>1, <3>2 DEF n, L, p
  <2> QED BY <2>1, <2>3, <2>4
<1>6. s < n \/ s >= n
  BY <1>3
<1> QED BY <1>4, <1>5, <1>6

(* The next command of a read. *)
LEMMA NextOfRead ==
  ASSUME NEW b \in ReadBodies, NEW s \in Nat, s < Len(ReadPlan(b))
  PROVE  LET c == ReadPlan(b)[s + 1]
         IN  \/ s < ForWords(b) /\ s = 0 /\ c.cmd = "RandomRead"
             \/ /\ s >= ForWords(b) /\ s - ForWords(b) + 1 \in 1..Len(b.bits)
                /\ c = [cmd |-> "ReadBits", on |-> b.bits[s - ForWords(b) + 1].on]
<1> DEFINE L == Len(b.bits)
           n == ForWords(b)
           p == ReadPlan(b)
<1>1. L \in Nat /\ s < Len(p)
  BY BodyTypes, EntriesOf
<1>2. /\ Len(p) = n + L /\ n \in {0, 1}
      /\ n = 1 => p[1].cmd = "RandomRead"
      /\ \A i \in 1..L : p[n + i] = [cmd |-> "ReadBits", on |-> b.bits[i].on]
  BY <1>1, ReadPlanIs
<1> HIDE DEF n, L, p
<1>3. CASE s < n
  BY <1>1, <1>2, <1>3 DEF n, p
<1>4. CASE s >= n
  <2>1. s - n + 1 \in 1..L /\ n + (s - n + 1) = s + 1
    BY <1>1, <1>2, <1>4
  <2>2. p[s + 1] = [cmd |-> "ReadBits", on |-> b.bits[s - n + 1].on]
    BY <1>2, <2>1
  <2> QED BY <1>4, <2>1, <2>2 DEF n, p, L
<1> QED BY <1>1, <1>2, <1>3, <1>4

(* The shape of a write: at most one command for the words and one for the *)
(* bit devices, then two for each word of the order, which names none      *)
(* twice.                                                                  *)
LEMMA WriteShape ==
  ASSUME NEW b \in WriteBodies
  PROVE  /\ Len(Order(b)) \in Nat /\ \A i \in 1..Len(Order(b)) : Order(b)[i] \in Word
         /\ \A i, j \in 1..Len(Order(b)) : Order(b)[i] = Order(b)[j] => i = j
         /\ \A w : (\E i \in 1..Len(Order(b)) : Order(b)[i] = w) <=> Group(b.wordBits, w) # {}
         /\ ForWords(b) \in {0, 1} /\ ForDevices(b) \in {ForWords(b), ForWords(b) + 1}
         /\ ForWords(b) = 0 => b.words = <<>>
         /\ ForDevices(b) = ForWords(b) => b.bits = <<>>
<1>1. /\ Order(b) \in Seq(Word)
      /\ \A i, j \in 1..Len(Order(b)) : Order(b)[i] = Order(b)[j] => i = j
      /\ \A w : (\E i \in 1..Len(Order(b)) : Order(b)[i] = w) <=> Group(b.wordBits, w) # {}
  <2>1. b.wordBits \in Seq(WordBitEntry)
    BY BodyTypes
  <2> QED BY <2>1, GroupOrderIs DEF Order
<1>2. Len(Order(b)) \in Nat /\ \A i \in 1..Len(Order(b)) : Order(b)[i] \in Word
  BY <1>1
<1>3. ForWords(b) \in {0, 1} /\ (ForWords(b) = 0 => b.words = <<>>)
  BY DEF ForWords
<1>4. ForDevices(b) \in {ForWords(b), ForWords(b) + 1} /\ (ForDevices(b) = ForWords(b) => b.bits = <<>>)
  BY <1>3 DEF ForDevices
<1> QED BY <1>1, <1>2, <1>3, <1>4

(* A command of a write that is carried out makes of memory what one       *)
(* command more makes of it.                                               *)
LEMMA WriteCarries ==
  ASSUME NEW b \in WriteBodies, NEW m \in Memories, NEW s \in Nat, s < Len(WritePlan(b)),
         NEW h \in Contents, NEW ws \in [Word -> Contents], NEW bs \in [BitDevice -> BOOLEAN],
         Written(b, m, s, ws, bs), Holds(b, s, h, ws),
         NEW us, NEW vs, Does(b, WritePlan(b)[s + 1], h, ws, bs, us, vs)
  PROVE  /\ us \in [Word -> Contents] /\ vs \in [BitDevice -> BOOLEAN]
         /\ Written(b, m, s + 1, us, vs)
<1> DEFINE n == ForDevices(b)
           L == Len(Order(b))
           c == WritePlan(b)[s + 1]
           Past(t, w) == \E i \in 1..L : Order(b)[i] = w /\ n + 2 * i <= t
<1>1. /\ L \in Nat /\ \A i \in 1..L : Order(b)[i] \in Word
      /\ \A i, j \in 1..L : Order(b)[i] = Order(b)[j] => i = j
      /\ ForWords(b) \in {0, 1} /\ n \in {ForWords(b), ForWords(b) + 1}
      /\ ForWords(b) = 0 => b.words = <<>>
      /\ n = ForWords(b) => b.bits = <<>>
  BY WriteShape
<1>2. m.words \in [Word -> Contents] /\ m.bits \in [BitDevice -> BOOLEAN]
  BY DEF Memories
<1>3. /\ \A w \in QuietWords : ws[w] = IF s < ForWords(b) THEN m.words[w]
                                       ELSE IF Past(s, w) THEN Expected(b, m, w) ELSE AsWritten(b, m, w)
      /\ \A d \in QuietDevices : bs[d] = IF s < n THEN m.bits[d] ELSE ExpectedOn(b, m, d)
  BY DEF Written
<1> DEFINE Goal == /\ us \in [Word -> Contents] /\ vs \in [BitDevice -> BOOLEAN]
                   /\ Written(b, m, s + 1, us, vs)
<1>4. ASSUME us \in [Word -> Contents], vs \in [BitDevice -> BOOLEAN],
             \A w \in QuietWords : us[w] = IF s + 1 < ForWords(b) THEN m.words[w]
                                     ELSE IF Past(s + 1, w) THEN Expected(b, m, w) ELSE AsWritten(b, m, w),
             \A d \in QuietDevices : vs[d] = IF s + 1 < n THEN m.bits[d] ELSE ExpectedOn(b, m, d)
      PROVE  Goal
  BY <1>4 DEF Written
<1>5. QuietWords \subseteq Word /\ QuietDevices \subseteq BitDevice
  BY DEF QuietWords, QuietDevices
<1>6. /\ b.words \in Seq([on : Word, value : Contents])
      /\ b.bits \in Seq([on : BitDevice, value : BOOLEAN])
      /\ b.wordBits \in Seq(WordBitEntry)
  BY BodyTypes
<1>7. \/ s < ForWords(b) /\ s = 0 /\ c.cmd = "RandomWrite"
      \/ s = ForWords(b) /\ n = s + 1 /\ c.cmd = "RandomWriteBits"
      \/ \E i \in 1..L : s = n + 2 * i - 2 /\ c = [cmd |-> "ReadWords", on |-> Order(b)[i]]
      \/ \E i \in 1..L : s = n + 2 * i - 1 /\ c = [cmd |-> "WriteWords", on |-> Order(b)[i]]
  BY NextOfWrite
<1>12. Does(b, c, h, ws, bs, us, vs)
  OBVIOUS
<1> HIDE DEF c, Goal
<1>8. ASSUME s < ForWords(b) /\ s = 0 /\ c.cmd = "RandomWrite"
      PROVE  Goal
  <2>1. us = StoreAll(ws, b.words) /\ vs = bs
    BY <1>8, <1>12 DEF Does
  <2>2. /\ us \in [Word -> Contents]
        /\ \A w \in Word : us[w] = LastOf(b.words, {i \in DOMAIN b.words : b.words[i].on = w}, ws[w])
    <3>1. StoredAll(StoreAll(ws, b.words), Word, Contents, ws, b.words)
      BY <1>6, StoreAllIs
    <3> QED BY <2>1, <3>1 DEF StoredAll
  <2>3. \A w \in QuietWords : us[w] = AsWritten(b, m, w)
    BY <1>3, <1>5, <1>8, <2>2 DEF AsWritten
  <2>4. ~(s + 1 < ForWords(b)) /\ \A w : ~Past(s + 1, w)
    BY <1>1, <1>8
  <2>5. \A d \in QuietDevices : vs[d] = IF s + 1 < n THEN m.bits[d] ELSE ExpectedOn(b, m, d)
    <3>1. b.bits = <<>> => \A d : ExpectedOn(b, m, d) = m.bits[d]
      BY DEF ExpectedOn, LastOf
    <3> QED BY <1>1, <1>3, <1>8, <2>1, <3>1
  <2> HIDE DEF Past, n
  <2> QED BY <1>2, <1>4, <2>1, <2>2, <2>3, <2>4, <2>5
<1>9. ASSUME s = ForWords(b) /\ n = s + 1 /\ c.cmd = "RandomWriteBits"
      PROVE  Goal
  <2>1. vs = StoreAll(bs, b.bits) /\ us = ws
    BY <1>9, <1>12 DEF Does
  <2>2. /\ vs \in [BitDevice -> BOOLEAN]
        /\ \A d \in BitDevice : vs[d] = LastOf(b.bits, {i \in DOMAIN b.bits : b.bits[i].on = d}, bs[d])
    <3>1. StoredAll(StoreAll(bs, b.bits), BitDevice, BOOLEAN, bs, b.bits)
      BY <1>6, StoreAllIs
    <3> QED BY <2>1, <3>1 DEF StoredAll
  <2>3. \A d \in QuietDevices : bs[d] = m.bits[d]
    BY <1>1, <1>3, <1>9
  <2>4. \A d \in QuietDevices : vs[d] = ExpectedOn(b, m, d)
    BY <1>5, <2>2, <2>3 DEF ExpectedOn
  <2>5. /\ ~(s < ForWords(b)) /\ ~(s + 1 < ForWords(b)) /\ ~(s + 1 < n)
        /\ \A w : ~Past(s, w) /\ ~Past(s + 1, w)
    BY <1>1, <1>2, <1>9
  <2> HIDE DEF Past, n
  <2> QED BY <1>2, <1>3, <1>4, <2>1, <2>2, <2>4, <2>5
<1>10. ASSUME NEW i \in 1..L, s = n + 2 * i - 2, c = [cmd |-> "ReadWords", on |-> Order(b)[i]]
       PROVE  Goal
  <2>1. us = ws /\ vs = bs
    BY <1>10, <1>12 DEF Does
  <2>2. /\ ~(s < ForWords(b)) /\ ~(s + 1 < ForWords(b)) /\ ~(s < n) /\ ~(s + 1 < n)
        /\ \A j \in 1..L : n + 2 * j <= s <=> n + 2 * j <= s + 1
    BY <1>1, <1>2, <1>10
  <2>3. \A w : Past(s, w) <=> Past(s + 1, w)
    BY <2>2
  <2> HIDE DEF Past, n
  <2> QED BY <1>2, <1>3, <1>4, <2>1, <2>2, <2>3
<1>11. ASSUME NEW i \in 1..L, s = n + 2 * i - 1, c = [cmd |-> "WriteWords", on |-> Order(b)[i]]
       PROVE  Goal
  <2> DEFINE wd == Order(b)[i]
             new == Store(h, b.wordBits, Group(b.wordBits, wd))
  <2>1. us = [ws EXCEPT ![wd] = new] /\ vs = bs /\ wd \in Word
    BY <1>1, <1>11, <1>12 DEF Does
  <2>2. /\ new \in Contents
        /\ \A k \in Bit : new[k] = LastOf(b.wordBits,
                             {j \in DOMAIN b.wordBits : b.wordBits[j].word = wd /\ b.wordBits[j].on = k},
                             h[k])
    <3>1. StoredGroup(new, h, b.wordBits, wd)
      <4> HIDE DEF wd
      <4> QED BY <1>2, <1>6, StoreGroupIs
    <3> HIDE DEF new
    <3> QED BY <3>1 DEF StoredGroup
  <2>3. /\ ~(s < ForWords(b)) /\ ~(s + 1 < ForWords(b)) /\ ~(s < n) /\ ~(s + 1 < n)
        /\ \A j \in 1..L : n + 2 * j <= s + 1 <=> (n + 2 * j <= s \/ j = i)
        /\ ~(n + 2 * i <= s)
    <3>1. i \in Nat \ {0} /\ s = n + 2 * i - 1 /\ n \in Nat /\ s \in Nat /\ ForWords(b) <= n
          /\ ForWords(b) \in Nat /\ \A j \in 1..L : j \in Nat
      BY <1>1, <1>2, <1>11
    <3> HIDE DEF n, L
    <3> QED BY <3>1
  <2>4. /\ \A w : w # wd => (Past(s, w) <=> Past(s + 1, w))
        /\ Past(s + 1, wd) /\ ~Past(s, wd)
    BY <1>1, <2>3
  <2>5. ASSUME wd \in QuietWords PROVE new = Expected(b, m, wd)
    <3>1. h = ws[wd]
      BY <1>11, <2>5 DEF Holds
    <3>2. h = AsWritten(b, m, wd)
      <4> HIDE DEF Past, n, wd
      <4> QED BY <1>3, <2>3, <2>4, <2>5, <3>1
    <3>3. Expected(b, m, wd) \in Contents
      BY <2>1, ExpectedTypes
    <3>4. \A k \in Bit : new[k] = Expected(b, m, wd)[k]
      BY <2>2, <3>2 DEF Expected
    <3> HIDE DEF new, wd
    <3> QED BY <2>2, <3>3, <3>4 DEF Contents
  <2> HIDE DEF new, wd, Past, n
  <2>6. ASSUME NEW w \in QuietWords
        PROVE  us[w] = IF s + 1 < ForWords(b) THEN m.words[w]
                           ELSE IF Past(s + 1, w) THEN Expected(b, m, w) ELSE AsWritten(b, m, w)
    BY <1>2, <1>3, <1>5, <2>1, <2>3, <2>4, <2>5
  <2>7. us \in [Word -> Contents]
    BY <1>2, <2>1, <2>2
  <2> QED BY <1>2, <1>3, <1>4, <2>1, <2>3, <2>6, <2>7
<1> HIDE DEF n, L
<1>13. Goal
  BY <1>7, <1>8, <1>9, <1>10, <1>11
<1> QED BY <1>13 DEF Goal

(* After the command that reads a word, what it brought back is held. *)
LEMMA WriteHolds ==
  ASSUME NEW b \in WriteBodies, NEW s \in Nat, s < Len(WritePlan(b)),
         NEW h \in Contents, NEW ws \in [Word -> Contents],
         NEW g, g = IF WritePlan(b)[s + 1].cmd = "ReadWords" THEN ws[WritePlan(b)[s + 1].on] ELSE h,
         NEW us, WritePlan(b)[s + 1].cmd = "ReadWords" => us = ws
  PROVE  /\ g \in Contents /\ Holds(b, s + 1, g, us)
         /\ WritePlan(b)[s + 1].cmd \in {"RandomWrite", "RandomWriteBits", "ReadWords", "WriteWords"}
<1> DEFINE n == ForDevices(b)
           L == Len(Order(b))
           c == WritePlan(b)[s + 1]
<1>4. /\ L \in Nat /\ \A i \in 1..L : Order(b)[i] \in Word
      /\ ForWords(b) \in {0, 1} /\ n \in {ForWords(b), ForWords(b) + 1}
  BY WriteShape
<1>6. \/ s < ForWords(b) /\ s = 0 /\ c.cmd = "RandomWrite"
      \/ s = ForWords(b) /\ n = s + 1 /\ c.cmd = "RandomWriteBits"
      \/ \E i \in 1..L : s = n + 2 * i - 2 /\ c = [cmd |-> "ReadWords", on |-> Order(b)[i]]
      \/ \E i \in 1..L : s = n + 2 * i - 1 /\ c = [cmd |-> "WriteWords", on |-> Order(b)[i]]
  BY NextOfWrite
<1>5. /\ g = IF c.cmd = "ReadWords" THEN ws[c.on] ELSE h
      /\ c.cmd = "ReadWords" => us = ws
  OBVIOUS
<1> HIDE DEF n, L, c
<1>7. c.cmd \in {"RandomWrite", "RandomWriteBits", "ReadWords", "WriteWords"}
  <2>1. \A w : /\ c = [cmd |-> "ReadWords", on |-> w] => c.cmd = "ReadWords"
               /\ c = [cmd |-> "WriteWords", on |-> w] => c.cmd = "WriteWords"
    OBVIOUS
  <2> QED BY <1>6, <2>1
<1>9. CASE ~ \E i \in 1..L : s = n + 2 * i - 2
  <2>1. c.cmd # "ReadWords"
    <3>1. \A w : c = [cmd |-> "WriteWords", on |-> w] => c.cmd = "WriteWords"
      OBVIOUS
    <3> QED BY <1>6, <1>9, <3>1
  <2>3. \A i \in 1..L : s + 1 # n + 2 * i - 1
    <3>1. \A i \in 1..L : s # n + 2 * i - 2
      BY <1>9
    <3> QED BY <1>4, <3>1
  <2> QED BY <1>5, <1>7, <2>1, <2>3 DEF n, L, c, Holds
<1>10. ASSUME NEW i \in 1..L, s = n + 2 * i - 2
       PROVE  /\ g \in Contents
              /\ \A j \in 1..L : s + 1 = n + 2 * j - 1 => g = us[Order(b)[j]]
  <2>1. c = [cmd |-> "ReadWords", on |-> Order(b)[i]]
    <3>1. ~(s < ForWords(b)) /\ n # s + 1 /\ \A j \in 1..L : s # n + 2 * j - 1
      BY <1>4, <1>10
    <3>2. \A j \in 1..L : s = n + 2 * j - 2 => j = i
      BY <1>4, <1>10
    <3> QED BY <1>6, <3>1, <3>2
  <2>2. g = ws[Order(b)[i]] /\ us = ws
    BY <1>5, <2>1
  <2>3. \A j \in 1..L : s + 1 = n + 2 * j - 1 => j = i
    BY <1>4, <1>10
  <2> QED BY <1>4, <2>2, <2>3
<1>11. CASE \E i \in 1..L : s = n + 2 * i - 2
  BY <1>7, <1>10, <1>11 DEF n, L, c, Holds
<1> QED BY <1>9, <1>11

LEMMA SeenIs ==
  ASSUME NEW b, NEW m, NEW s \in Nat, NEW a, NEW ws, NEW bs,
         \A w \in QuietWords : ws[w] = m.words[w],
         \A d \in QuietDevices : bs[d] = m.bits[d],
         /\ Len(a.words) = IF s < ForWords(b) THEN 0 ELSE Len(b.words)
         /\ Len(a.bits) = IF s < ForWords(b) THEN 0 ELSE s - ForWords(b),
         \A i \in 1..Len(a.words) :
            b.words[i].on \in QuietWords => a.words[i] = m.words[b.words[i].on],
         \A i \in 1..Len(a.bits) :
            b.bits[i].on \in QuietDevices => a.bits[i] = m.bits[b.bits[i].on]
  PROVE  Seen(b, m, s, a, ws, bs)
<1> QED BY DEF Seen

(* What a command of a read brings back is what was in memory at first. *)
LEMMA ReadSees ==
  ASSUME NEW b \in ReadBodies, NEW m \in Memories, NEW s \in Nat, s < Len(ReadPlan(b)),
         NEW a \in Answers, NEW ws \in [Word -> Contents], NEW bs \in [BitDevice -> BOOLEAN],
         Seen(b, m, s, a, ws, bs),
         NEW e, \/ /\ ReadPlan(b)[s + 1].cmd = "RandomRead"
                   /\ e = [a EXCEPT !.words = [i \in DOMAIN b.words |-> ws[b.words[i].on]]]
                \/ /\ ReadPlan(b)[s + 1].cmd = "ReadBits"
                   /\ e = [a EXCEPT !.bits = Append(@, bs[ReadPlan(b)[s + 1].on])]
  PROVE  e \in Answers /\ Seen(b, m, s + 1, e, ws, bs)
<1> DEFINE n == ForWords(b)
           L == Len(b.bits)
           c == ReadPlan(b)[s + 1]
<1>2. /\ a.words \in Seq(Contents) /\ a.bits \in Seq(BOOLEAN)
      /\ a = [words |-> a.words, bits |-> a.bits]
  BY DEF Answers
<1>3. /\ Len(b.words) \in Nat /\ DOMAIN b.words = 1..Len(b.words) /\ L \in Nat
      /\ \A i \in 1..Len(b.words) : b.words[i].on \in Word
      /\ \A i \in 1..L : b.bits[i].on \in BitDevice
      /\ n \in {0, 1}
  <2>1. /\ \A x \in [on : Word] : x.on \in Word
        /\ \A x \in [on : BitDevice] : x.on \in BitDevice
    OBVIOUS
  <2>2. b.words \in Seq([on : Word]) /\ b.bits \in Seq([on : BitDevice])
    BY BodyTypes
  <2>3. n \in {0, 1}
    BY DEF ForWords
  <2> QED BY <2>1, <2>2, <2>3, EntriesOf
<1>4. \/ s < n /\ s = 0 /\ c.cmd = "RandomRead"
      \/ /\ s >= n /\ s - n + 1 \in 1..L
         /\ c = [cmd |-> "ReadBits", on |-> b.bits[s - n + 1].on]
  BY NextOfRead
<1>5. \/ c.cmd = "RandomRead" /\ e = [a EXCEPT !.words = [i \in DOMAIN b.words |-> ws[b.words[i].on]]]
      \/ c.cmd = "ReadBits" /\ e = [a EXCEPT !.bits = Append(@, bs[c.on])]
  OBVIOUS
<1> HIDE DEF c
<1>6. CASE s < n /\ s = 0 /\ c.cmd = "RandomRead"
  <2> DEFINE seen == [i \in DOMAIN b.words |-> ws[b.words[i].on]]
  <2>1. e = [a EXCEPT !.words = seen]
    BY <1>5, <1>6
  <2>2. /\ seen \in Seq(Contents) /\ Len(seen) = Len(b.words)
        /\ \A i \in 1..Len(b.words) : seen[i] = ws[b.words[i].on]
    BY <1>2, <1>3
  <2> HIDE DEF seen
  <2>3. e.words = seen /\ e.bits = a.bits /\ e \in Answers
    BY <1>2, <2>1, <2>2 DEF Answers
  <2>4. Len(a.bits) = 0 /\ n = 1
    BY <1>2, <1>3, <1>6 DEF Seen
  <2>5. Seen(b, m, s + 1, e, ws, bs)
    BY <1>2, <1>3, <1>6, <2>2, <2>3, <2>4 DEF Seen
  <2> QED BY <2>3, <2>5
<1>7. CASE /\ s >= n /\ s - n + 1 \in 1..L
           /\ c = [cmd |-> "ReadBits", on |-> b.bits[s - n + 1].on]
  <2> DEFINE d == b.bits[s - n + 1].on
             more == Append(a.bits, bs[d])
  <2>1. e = [a EXCEPT !.bits = more]
    BY <1>5, <1>7
  <2>2. d \in BitDevice /\ bs[d] \in BOOLEAN /\ (d \in QuietDevices => bs[d] = m.bits[d])
    BY <1>2, <1>3, <1>7 DEF Seen
  <2>3. /\ Len(a.bits) = s - n
        /\ \A i \in 1..Len(a.bits) : b.bits[i].on \in QuietDevices => a.bits[i] = m.bits[b.bits[i].on]
    BY <1>2, <1>3, <1>7 DEF Seen
  <2>4. a.bits \in Seq(BOOLEAN)
    BY <1>2
  <2>5. /\ more \in Seq(BOOLEAN) /\ Len(more) = s - n + 1
        /\ \A i \in 1..s - n : more[i] = a.bits[i]
        /\ more[s - n + 1] = bs[d]
    <3> HIDE DEF d
    <3> QED BY <2>2, <2>3, <2>4
  <2>6. \A i \in 1..Len(more) : b.bits[i].on \in QuietDevices => more[i] = m.bits[b.bits[i].on]
    <3> SUFFICES ASSUME NEW i \in 1..Len(more), b.bits[i].on \in QuietDevices
                 PROVE  more[i] = m.bits[b.bits[i].on]
      OBVIOUS
    <3>1. CASE i = s - n + 1
      BY <2>2, <2>5, <3>1
    <3>2. CASE i # s - n + 1
      <4>1. i \in 1..s - n /\ i \in 1..Len(a.bits)
        BY <1>2, <1>3, <2>3, <2>5, <3>2
      <4> QED BY <2>3, <2>5, <4>1
    <3> QED BY <3>1, <3>2
  <2> HIDE DEF more
  <2>7. e.bits = more /\ e.words = a.words /\ e \in Answers
    BY <1>2, <2>1, <2>5 DEF Answers
  <2>8. Seen(b, m, s + 1, e, ws, bs)
    <3>1. ~(s < n) /\ ~(s + 1 < n)
      BY <1>2, <1>3, <1>7
    <3>2. Len(e.bits) = s + 1 - n
      BY <1>2, <1>3, <2>5, <2>7
    <3>3. \A i \in 1..Len(e.bits) : b.bits[i].on \in QuietDevices => e.bits[i] = m.bits[b.bits[i].on]
      BY <2>6, <2>7
    <3>4. /\ Len(e.words) = Len(b.words)
          /\ \A i \in 1..Len(e.words) :
                b.words[i].on \in QuietWords => e.words[i] = m.words[b.words[i].on]
      BY <1>2, <2>7, <3>1 DEF Seen
    <3>5. (\A w \in QuietWords : ws[w] = m.words[w]) /\ \A k \in QuietDevices : bs[k] = m.bits[k]
      BY DEF Seen
    <3>6. /\ Len(e.words) = IF s + 1 < n THEN 0 ELSE Len(b.words)
          /\ Len(e.bits) = IF s + 1 < n THEN 0 ELSE (s + 1) - n
      BY <1>3, <3>1, <3>2, <3>4
    <3>7. s + 1 \in Nat
      OBVIOUS
    <3> HIDE DEF more
    <3> QED BY <3>3, <3>4, <3>5, <3>6, <3>7, SeenIs
  <2> QED BY <2>7, <2>8
<1> QED BY <1>4, <1>6, <1>7

-----------------------------------------------------------------------------
(* What holds of an operation under way. *)

(* The operation of b, which found the memory m, has had s commands carried *)
(* out, holds h and has been given a.                                      *)
Underway(b, m, s, h, a, ws, bs) ==
    /\ s <= Len(PlanOf(b))
    /\ b \in WriteBodies => Written(b, m, s, ws, bs) /\ Holds(b, s, h, ws)
    /\ b \in ReadBodies => Seen(b, m, s, a, ws, bs)

OpsTypeOK ==
    /\ words \in [Word -> Contents] /\ bits \in [BitDevice -> BOOLEAN]
    /\ effect \in [Jobs -> {"pending", "running", "ok", "failed"}]
    /\ sent \in [Requests -> Nat] /\ held \in [Requests -> Contents]
    /\ got \in [Requests -> Answers] /\ before \in [Requests -> Memories]

(* The call of exec that a request makes is one job, and no two of them    *)
(* run at a time.                                                          *)
JobInv ==
    /\ \A r, q \in Requests : Running(r, 1) /\ Running(q, 1) => r = q
    /\ \A r \in Requests : ~Running(r, 1) => sent[r] = 0 /\ got[r] = NoAnswer

OpsInv ==
    /\ OpsTypeOK /\ JobInv
    /\ \A r \in Requests :
          Running(r, 1) => Underway(Body[r], before[r], sent[r], held[r], got[r], words, bits)

(* An operation calls exec once. *)
LEMMA JobsAre ==
  /\ \A r \in Requests : /\ DOMAIN Calls[r] = {1} /\ Len(Calls[r]) = 1
                          /\ Calls[r][1] = PlanOf(Body[r]) /\ <<r, 1>> \in Jobs
  /\ \A j \in Jobs : \E r \in Requests : j = <<r, 1>>
<1>1. ASSUME NEW r \in Requests
      PROVE  /\ DOMAIN Calls[r] = {1} /\ Len(Calls[r]) = 1 /\ Calls[r][1] = PlanOf(Body[r])
             /\ {r} \X DOMAIN Calls[r] = {<<r, 1>>}
  <2>1. Calls[r] = <<PlanOf(Body[r])>>
    BY DEF Calls, ExecCalls
  <2>2. DOMAIN Calls[r] = {1} /\ Len(Calls[r]) = 1 /\ Calls[r][1] = PlanOf(Body[r])
    BY <2>1
  <2> QED BY <2>2
<1> QED BY <1>1 DEF Jobs

(* What a kind of request is, and how many commands it takes. *)
LEMMA KindIs ==
  ASSUME NEW r \in Requests
  PROVE  /\ Len(PlanOf(Body[r])) \in Nat
         /\ Body[r] \in WriteBodies \/ Body[r] \in ReadBodies
         /\ ~(Body[r] \in WriteBodies /\ Body[r] \in ReadBodies)
         /\ Body[r] \in WriteBodies => PlanOf(Body[r]) = WritePlan(Body[r])
         /\ Body[r] \in ReadBodies => PlanOf(Body[r]) = ReadPlan(Body[r])
         /\ Body[r].kind = "write" =>
               /\ Body[r] \in WriteBodies
               /\ Len(PlanOf(Body[r])) = ForDevices(Body[r]) + 2 * Len(Order(Body[r]))
         /\ Body[r].kind = "read" =>
               /\ Body[r] \in ReadBodies
               /\ Len(PlanOf(Body[r])) = ForWords(Body[r]) + Len(Body[r].bits)
<1>1. Body[r] \in WriteBodies \/ Body[r] \in ReadBodies
  BY OpsAssumption
<1>2. CASE Body[r] \in WriteBodies
  <2> DEFINE b == Body[r]
  <2>1. PlanOf(b) = WritePlan(b) /\ b.kind = "write" /\ b \notin ReadBodies
    BY <1>2, BodyTypes DEF PlanOf
  <2> HIDE DEF b
  <2>2. /\ Len(WritePlan(b)) = ForDevices(b) + 2 * Len(Order(b)) /\ Len(Order(b)) \in Nat
        /\ ForDevices(b) \in {0, 1, 2}
    BY <1>2, WritePlanIs, WriteShape DEF b
  <2> QED BY <1>2, <2>1, <2>2 DEF b
<1>3. CASE Body[r] \in ReadBodies
  <2> DEFINE b == Body[r]
  <2>1. PlanOf(b) = ReadPlan(b) /\ b.kind = "read" /\ Len(b.bits) \in Nat /\ b \notin WriteBodies
    BY <1>3, BodyTypes, EntriesOf DEF PlanOf
  <2> HIDE DEF b
  <2>2. Len(ReadPlan(b)) = ForWords(b) + Len(b.bits) /\ ForWords(b) \in {0, 1}
    BY <1>3, ReadPlanIs DEF b
  <2> QED BY <1>3, <2>1, <2>2 DEF b
<1> QED BY <1>1, <1>2, <1>3

(* An operation that begins has carried out nothing yet. *)
LEMMA UnderwayAtFirst ==
  ASSUME NEW b, NEW m \in Memories, NEW h, Len(PlanOf(b)) \in Nat
  PROVE  Underway(b, m, 0, h, NoAnswer, m.words, m.bits)
<1>1. m.words \in [Word -> Contents] /\ m.bits \in [BitDevice -> BOOLEAN]
  BY DEF Memories
<1>2. ASSUME b \in WriteBodies
      PROVE  Written(b, m, 0, m.words, m.bits) /\ Holds(b, 0, h, m.words)
  <2>1. /\ Len(Order(b)) \in Nat
        /\ ForWords(b) \in {0, 1} /\ ForDevices(b) \in {ForWords(b), ForWords(b) + 1}
        /\ ForWords(b) = 0 => b.words = <<>>
        /\ ForDevices(b) = ForWords(b) => b.bits = <<>>
    BY <1>2, WriteShape
  <2>2. /\ b.words = <<>> => \A w \in QuietWords : AsWritten(b, m, w) = m.words[w]
        /\ b.bits = <<>> => \A d \in QuietDevices : ExpectedOn(b, m, d) = m.bits[d]
    BY DEF AsWritten, ExpectedOn, LastOf
  <2>3. /\ \A i \in 1..Len(Order(b)) : ~(ForDevices(b) + 2 * i <= 0) /\ ForDevices(b) + 2 * i - 1 # 0
        /\ 0 < ForWords(b) \/ ForWords(b) = 0
        /\ 0 < ForDevices(b) \/ ForDevices(b) = ForWords(b)
    BY <2>1
  <2>4. Written(b, m, 0, m.words, m.bits)
    BY <2>1, <2>2, <2>3 DEF Written
  <2>5. Holds(b, 0, h, m.words)
    BY <2>3 DEF Holds
  <2> QED BY <2>4, <2>5
<1>3. ASSUME b \in ReadBodies
      PROVE  Seen(b, m, 0, NoAnswer, m.words, m.bits)
  <2>1. ForWords(b) \in {0, 1} /\ Len(NoAnswer.words) = 0 /\ Len(NoAnswer.bits) = 0
    BY DEF ForWords, NoAnswer
  <2>2. ForWords(b) = 0 => Len(b.words) = 0
    BY DEF ForWords
  <2> QED BY <2>1, <2>2 DEF Seen
<1> QED BY <1>2, <1>3 DEF Underway

(* What a command that is carried out does. *)
LEMMA CarryDoes ==
  ASSUME NEW r \in Requests, Carry(r, 1)
  PROVE  /\ Running(r, 1) /\ sent[r] < Len(PlanOf(Body[r]))
         /\ Does(Body[r], PlanOf(Body[r])[sent[r] + 1], held[r], words, bits, words', bits')
<1>1. Calls[r][1] = PlanOf(Body[r])
  BY JobsAre
<1> QED BY <1>1 DEF Carry, Sending, Does, memory

(* The commands of a read read. *)
LEMMA ReadCommands ==
  ASSUME NEW b \in ReadBodies, NEW s \in Nat, s < Len(ReadPlan(b))
  PROVE  ReadPlan(b)[s + 1].cmd \in {"RandomRead", "ReadBits"}
<1> DEFINE c == ReadPlan(b)[s + 1]
<1>1. \A d : c = [cmd |-> "ReadBits", on |-> d] => c.cmd = "ReadBits"
  OBVIOUS
<1>2. c.cmd = "RandomRead" \/ \E d : c = [cmd |-> "ReadBits", on |-> d]
  BY NextOfRead
<1> HIDE DEF c
<1>3. c.cmd \in {"RandomRead", "ReadBits"}
  BY <1>1, <1>2
<1> QED BY <1>3 DEF c

(* A command that is answered takes the operation one command further. *)
LEMMA UnderwayNext ==
  ASSUME NEW b, b \in WriteBodies \/ b \in ReadBodies, ~(b \in WriteBodies /\ b \in ReadBodies),
         b \in WriteBodies => PlanOf(b) = WritePlan(b),
         b \in ReadBodies => PlanOf(b) = ReadPlan(b),
         NEW m \in Memories, NEW s \in Nat, NEW h \in Contents, NEW a \in Answers,
         NEW ws \in [Word -> Contents], NEW bs \in [BitDevice -> BOOLEAN],
         Len(PlanOf(b)) \in Nat, s < Len(PlanOf(b)), Underway(b, m, s, h, a, ws, bs),
         NEW us, NEW vs, Does(b, PlanOf(b)[s + 1], h, ws, bs, us, vs),
         NEW g, g = IF PlanOf(b)[s + 1].cmd = "ReadWords" THEN ws[PlanOf(b)[s + 1].on] ELSE h,
         NEW e, \/ /\ PlanOf(b)[s + 1].cmd = "RandomRead"
                   /\ e = [a EXCEPT !.words = [i \in DOMAIN b.words |-> ws[b.words[i].on]]]
                \/ /\ PlanOf(b)[s + 1].cmd = "ReadBits"
                   /\ e = [a EXCEPT !.bits = Append(@, bs[PlanOf(b)[s + 1].on])]
                \/ /\ PlanOf(b)[s + 1].cmd \notin {"RandomRead", "ReadBits"}
                   /\ e = a
  PROVE  /\ us \in [Word -> Contents] /\ vs \in [BitDevice -> BOOLEAN]
         /\ g \in Contents /\ e \in Answers
         /\ Underway(b, m, s + 1, g, e, us, vs)
<1>1. s + 1 <= Len(PlanOf(b)) /\ s + 1 \in Nat
  OBVIOUS
<1>2. ASSUME NEW w \in WriteBodies, w = b
      PROVE  /\ us \in [Word -> Contents] /\ vs \in [BitDevice -> BOOLEAN]
             /\ g \in Contents /\ e \in Answers
             /\ Underway(b, m, s + 1, g, e, us, vs)
  <2>1. PlanOf(b) = WritePlan(w) /\ s < Len(WritePlan(w)) /\ b \notin ReadBodies
    BY <1>2
  <2>2. Written(w, m, s, ws, bs) /\ Holds(w, s, h, ws)
    BY <1>2 DEF Underway
  <2>3. Does(w, WritePlan(w)[s + 1], h, ws, bs, us, vs)
    BY <1>2, <2>1
  <2>4. us \in [Word -> Contents] /\ vs \in [BitDevice -> BOOLEAN] /\ Written(w, m, s + 1, us, vs)
    BY <2>1, <2>2, <2>3, WriteCarries
  <2>5. /\ g = IF WritePlan(w)[s + 1].cmd = "ReadWords" THEN ws[WritePlan(w)[s + 1].on] ELSE h
        /\ WritePlan(w)[s + 1].cmd = "ReadWords" => us = ws
    BY <2>1, <2>3 DEF Does
  <2>6. /\ g \in Contents /\ Holds(w, s + 1, g, us)
        /\ WritePlan(w)[s + 1].cmd \in {"RandomWrite", "RandomWriteBits", "ReadWords", "WriteWords"}
    BY <2>1, <2>5, WriteHolds
  <2>7. e \in Answers
    BY <2>1, <2>6
  <2>8. Underway(b, m, s + 1, g, e, us, vs)
    BY <1>1, <1>2, <2>1, <2>4, <2>6 DEF Underway
  <2> QED BY <2>4, <2>6, <2>7, <2>8
<1>3. ASSUME NEW q \in ReadBodies, q = b
      PROVE  /\ us \in [Word -> Contents] /\ vs \in [BitDevice -> BOOLEAN]
             /\ g \in Contents /\ e \in Answers
             /\ Underway(b, m, s + 1, g, e, us, vs)
  <2>1. PlanOf(b) = ReadPlan(q) /\ s < Len(ReadPlan(q)) /\ b \notin WriteBodies
    BY <1>3
  <2>2. Seen(q, m, s, a, ws, bs)
    BY <1>3 DEF Underway
  <2>3. ReadPlan(q)[s + 1].cmd \in {"RandomRead", "ReadBits"}
    BY <2>1, ReadCommands
  <2>4. us = ws /\ vs = bs /\ g = h
    BY <2>1, <2>3 DEF Does
  <2>5. e \in Answers /\ Seen(q, m, s + 1, e, ws, bs)
    <3>1. \/ /\ ReadPlan(q)[s + 1].cmd = "RandomRead"
             /\ e = [a EXCEPT !.words = [i \in DOMAIN q.words |-> ws[q.words[i].on]]]
          \/ /\ ReadPlan(q)[s + 1].cmd = "ReadBits"
             /\ e = [a EXCEPT !.bits = Append(@, bs[ReadPlan(q)[s + 1].on])]
      BY <1>3, <2>1, <2>3
    <3> QED BY <2>1, <2>2, <3>1, ReadSees
  <2>6. Underway(b, m, s + 1, g, e, us, vs)
    BY <1>1, <1>3, <2>1, <2>4, <2>5 DEF Underway
  <2> QED BY <2>4, <2>5, <2>6
<1> QED BY <1>2, <1>3

-----------------------------------------------------------------------------
(* The invariant. *)

(* Nothing is under way at first. *)
LEMMA InitOpsInv == Init => OpsInv
<1> SUFFICES ASSUME Init PROVE OpsInv
  OBVIOUS
<1>1. NoContents \in Contents /\ NoMemory \in Memories /\ NoAnswer \in Answers
  BY DEF NoContents, NoMemory, NoAnswer, Contents, Memories, Answers
<1>2. OpsTypeOK
  BY <1>1 DEF Init, OpsTypeOK
<1>3. \A r \in Requests : ~Running(r, 1)
  BY JobsAre DEF Init, Running
<1>4. JobInv
  BY <1>3 DEF Init, JobInv
<1> QED BY <1>2, <1>3, <1>4 DEF OpsInv

(* The states of the calls of exec, when one of them moves. *)
LEMMA OneJobMoves ==
  ASSUME OpsTypeOK, NEW r \in Requests, NEW x, effect' = [effect EXCEPT ![<<r, 1>>] = x]
  PROVE  /\ effect'[<<r, 1>>] = x
         /\ \A q \in Requests : q # r => (Running(q, 1)' <=> Running(q, 1))
<1>1. \A q \in Requests : q # r => <<q, 1>> # <<r, 1>>
  OBVIOUS
<1> QED BY <1>1, JobsAre DEF OpsTypeOK, Running

(* A job that begins is the only one, and has carried out nothing yet. *)
LEMMA StartOpsInv ==
  ASSUME OpsInv, NEW r \in Requests, Start(r, 1)
  PROVE  OpsInv'
<1>1. /\ effect' = [effect EXCEPT ![<<r, 1>>] = "running"]
      /\ \A q \in Requests : ~Running(q, 1)
  BY JobsAre DEF Start, Executor!Start, Running
<1>2. /\ before' = [before EXCEPT ![r] = [words |-> words, bits |-> bits]]
      /\ words' = words /\ bits' = bits /\ sent' = sent /\ held' = held /\ got' = got
  BY DEF Start, memory
<1>3. [words |-> words, bits |-> bits] \in Memories
  BY DEF OpsInv, OpsTypeOK, Memories
<1>4. OpsTypeOK'
  <2>1. before' \in [Requests -> Memories]
    BY <1>2, <1>3 DEF OpsInv, OpsTypeOK
  <2>2. effect' \in [Jobs -> {"pending", "running", "ok", "failed"}]
    BY <1>1 DEF OpsInv, OpsTypeOK
  <2> QED BY <1>2, <2>1, <2>2 DEF OpsInv, OpsTypeOK
<1>5. \A q \in Requests : Running(q, 1)' <=> q = r
  BY <1>1, OneJobMoves DEF OpsInv, Running
<1>6. /\ sent[r] = 0 /\ got[r] = NoAnswer
      /\ \A q \in Requests : sent[q] = 0 /\ got[q] = NoAnswer
  BY <1>1 DEF OpsInv, JobInv
<1>7. JobInv'
  BY <1>2, <1>5, <1>6 DEF JobInv
<1>8. Underway(Body[r], before'[r], sent'[r], held'[r], got'[r], words', bits')
  <2> DEFINE m == [words |-> words, bits |-> bits]
  <2>1. before'[r] = m /\ m.words = words /\ m.bits = bits
    BY <1>2 DEF OpsInv, OpsTypeOK
  <2>2. Underway(Body[r], m, 0, held[r], NoAnswer, m.words, m.bits)
    <3> HIDE DEF m
    <3> QED BY <1>3, KindIs, UnderwayAtFirst DEF m
  <2> HIDE DEF m
  <2> QED BY <1>2, <1>6, <2>1, <2>2
<1> QED BY <1>4, <1>5, <1>7, <1>8 DEF OpsInv

(* A command that succeeds takes its operation one command further, and no *)
(* other is under way.                                                     *)
LEMMA CommandDoneOpsInv ==
  ASSUME OpsInv, NEW r \in Requests, CommandDone(r, 1)
  PROVE  OpsInv'
<1> DEFINE b == Body[r]
           c == PlanOf(b)[sent[r] + 1]
<1>1. /\ Running(r, 1) /\ sent[r] < Len(PlanOf(b))
      /\ Does(b, c, held[r], words, bits, words', bits')
  BY CarryDoes DEF CommandDone
<1>2. /\ effect' = effect /\ before' = before
      /\ sent' = [sent EXCEPT ![r] = @ + 1] /\ sent \in [Requests -> Nat]
      /\ words \in [Word -> Contents] /\ bits \in [BitDevice -> BOOLEAN]
      /\ held \in [Requests -> Contents] /\ got \in [Requests -> Answers]
      /\ before \in [Requests -> Memories]
  BY DEF CommandDone, OpsInv, OpsTypeOK
<1>3. \A k \in {"ReadWords", "RandomRead", "ReadBits"} : Sending(r, 1, k) <=> c.cmd = k
  BY <1>1, JobsAre DEF Sending
<1>4. held' = [held EXCEPT ![r] = IF c.cmd = "ReadWords" THEN words[c.on] ELSE @]
  <2>1. held' = IF c.cmd = "ReadWords" THEN [held EXCEPT ![r] = words[c.on]] ELSE held
    BY <1>3, JobsAre DEF CommandDone, Receive
  <2> HIDE DEF c
  <2> QED BY <1>2, <2>1
<1> DEFINE e == CASE c.cmd = "RandomRead" ->
                       [got[r] EXCEPT !.words = [i \in DOMAIN b.words |-> words[b.words[i].on]]]
                  [] c.cmd = "ReadBits" -> [got[r] EXCEPT !.bits = Append(@, bits[c.on])]
                  [] OTHER -> got[r]
<1>5. got' = [got EXCEPT ![r] = e]
  <2>1. c.cmd = "RandomRead" => got' = [got EXCEPT ![r].words =
                                           [i \in DOMAIN b.words |-> words[b.words[i].on]]]
    BY <1>3, JobsAre DEF CommandDone, Receive
  <2>2. c.cmd = "ReadBits" => got' = [got EXCEPT ![r].bits = Append(@, bits[c.on])]
    BY <1>3, JobsAre DEF CommandDone, Receive
  <2>3. c.cmd \notin {"RandomRead", "ReadBits"} => got' = got
    BY <1>3, JobsAre DEF CommandDone, Receive
  <2> HIDE DEF c, b
  <2> QED BY <1>2, <2>1, <2>2, <2>3
<1>6. /\ words' \in [Word -> Contents] /\ bits' \in [BitDevice -> BOOLEAN]
      /\ held'[r] \in Contents /\ e \in Answers
      /\ Underway(b, before[r], sent[r] + 1, held'[r], e, words', bits')
  <2>1. Underway(b, before[r], sent[r], held[r], got[r], words, bits)
    BY <1>1 DEF OpsInv
  <2>2. held'[r] = IF c.cmd = "ReadWords" THEN words[c.on] ELSE held[r]
    BY <1>2, <1>4
  <2>3. \/ /\ c.cmd = "RandomRead"
           /\ e = [got[r] EXCEPT !.words = [i \in DOMAIN b.words |-> words[b.words[i].on]]]
        \/ /\ c.cmd = "ReadBits"
           /\ e = [got[r] EXCEPT !.bits = Append(@, bits[c.on])]
        \/ c.cmd \notin {"RandomRead", "ReadBits"} /\ e = got[r]
    OBVIOUS
  <2> HIDE DEF e
  <2>4. /\ b \in WriteBodies \/ b \in ReadBodies
        /\ ~(b \in WriteBodies /\ b \in ReadBodies)
        /\ b \in WriteBodies => PlanOf(b) = WritePlan(b)
        /\ b \in ReadBodies => PlanOf(b) = ReadPlan(b)
        /\ Len(PlanOf(b)) \in Nat
    BY KindIs
  <2>5. /\ before[r] \in Memories /\ sent[r] \in Nat /\ held[r] \in Contents /\ got[r] \in Answers
    BY <1>2
  <2> HIDE DEF b
  <2> QED BY <1>1, <1>2, <2>1, <2>2, <2>3, <2>4, <2>5, UnderwayNext
<1> HIDE DEF e, c
<1>7. OpsTypeOK'
  <2>1. /\ held' \in [Requests -> Contents] /\ got' \in [Requests -> Answers]
        /\ sent' \in [Requests -> Nat]
    BY <1>2, <1>4, <1>5, <1>6
  <2> QED BY <1>2, <1>6, <2>1 DEF OpsInv, OpsTypeOK
<1>8. \A q \in Requests : (Running(q, 1)' <=> Running(q, 1)) /\ (Running(q, 1) => q = r)
  BY <1>1, <1>2 DEF OpsInv, JobInv, Running
<1>9. JobInv'
  BY <1>1, <1>2, <1>5, <1>8 DEF OpsInv, JobInv
<1>10. Underway(b, before'[r], sent'[r], held'[r], got'[r], words', bits')
  BY <1>2, <1>5, <1>6
<1> QED BY <1>7, <1>8, <1>9, <1>10 DEF OpsInv

(* The end of a job leaves none under way, and memory is memory. *)
LEMMA JobOverOpsInv ==
  ASSUME OpsInv, NEW r \in Requests, CommandFailed(r, 1) \/ Finish(r, 1)
  PROVE  OpsInv'
<1>1. PICK x \in {"ok", "failed"} : JobOver(r, 1, x)
  BY DEF CommandFailed, Finish
<1>2. Return(r) /\ Running(r, 1)
  BY JobsAre DEF CommandFailed, Finish
<1>3. effect' = [effect EXCEPT ![<<r, 1>>] = x] /\ sent' = [sent EXCEPT ![r] = 0]
  <2>1. PICK o \in {"ok", "failed"} : effect' = [effect EXCEPT ![<<r, 1>>] = o]
    BY <1>1 DEF JobOver, Executor!Finish, Executor!Outcomes
  <2>2. effect'[<<r, 1>>] = o
    BY <2>1, OneJobMoves DEF OpsInv
  <2> QED BY <1>1, <2>1, <2>2 DEF JobOver
<1>4. words' \in [Word -> Contents] /\ bits' \in [BitDevice -> BOOLEAN]
  <2>1. CASE words' = words /\ bits' = bits
    BY <2>1 DEF OpsInv, OpsTypeOK
  <2>2. CASE Carry(r, 1)
    <3> DEFINE b == Body[r]
               h == held[r]
               m == before[r]
               a == got[r]
    <3>1. /\ Running(r, 1) /\ sent[r] < Len(PlanOf(b)) /\ sent[r] \in Nat
          /\ Does(b, PlanOf(b)[sent[r] + 1], h, words, bits, words', bits')
      BY <2>2, CarryDoes DEF OpsInv, OpsTypeOK
    <3>2. CASE b \in WriteBodies
      <4>1. /\ Written(b, m, sent[r], words, bits) /\ Holds(b, sent[r], h, words)
            /\ m \in Memories /\ h \in Contents
            /\ words \in [Word -> Contents] /\ bits \in [BitDevice -> BOOLEAN]
            /\ PlanOf(b) = WritePlan(b)
        BY <3>1, <3>2, KindIs DEF OpsInv, OpsTypeOK, Underway
      <4> HIDE DEF b, h, m
      <4> QED BY <3>1, <3>2, <4>1, WriteCarries
    <3>3. CASE b \in ReadBodies
      <4>1. PlanOf(b) = ReadPlan(b)
        BY <3>3, KindIs
      <4>2. PlanOf(b)[sent[r] + 1].cmd \in {"RandomRead", "ReadBits"}
        BY <3>1, <3>3, <4>1, ReadCommands
      <4>3. words' = words /\ bits' = bits
        BY <3>1, <4>2 DEF Does
      <4> QED BY <2>1, <4>3
    <3> QED BY <3>2, <3>3, KindIs
  <2> QED BY <2>1, <2>2 DEF CommandFailed, Finish, memory
<1>5. NoContents \in Contents /\ NoMemory \in Memories /\ NoAnswer \in Answers
  BY DEF NoContents, NoMemory, NoAnswer, Contents, Memories, Answers
<1>6. OpsTypeOK'
  BY <1>2, <1>3, <1>4, <1>5 DEF Return, OpsInv, OpsTypeOK
<1>7. \A q \in Requests : ~Running(q, 1)'
  <2>1. ~Running(r, 1)'
    BY <1>3, OneJobMoves DEF OpsInv, Running
  <2>2. \A q \in Requests : q # r => (Running(q, 1)' <=> Running(q, 1)) /\ ~Running(q, 1)
    BY <1>2, <1>3, OneJobMoves DEF OpsInv, JobInv
  <2> QED BY <2>1, <2>2
<1>8. JobInv'
  <2>1. \A q \in Requests : sent'[q] = 0 /\ got'[q] = NoAnswer
    BY <1>2, <1>3 DEF Return, OpsInv, OpsTypeOK, JobInv
  <2> QED BY <1>7, <2>1 DEF JobInv
<1> QED BY <1>6, <1>7, <1>8 DEF OpsInv

(* The ladder program disturbs only what the invariant leaves out. *)
LEMMA LadderOpsInv ==
  ASSUME OpsInv, LadderWrites
  PROVE  OpsInv'
<1>1. /\ effect' = effect /\ sent' = sent /\ before' = before /\ held' = held /\ got' = got
  BY DEF LadderWrites, locals
<1>2. /\ words' \in [Word -> Contents] /\ bits' \in [BitDevice -> BOOLEAN]
      /\ \A w \in QuietWords : words'[w] = words[w]
      /\ \A d \in QuietDevices : bits'[d] = bits[d]
  BY DEF LadderWrites, OpsInv, OpsTypeOK, QuietWords, QuietDevices
<1>3. OpsTypeOK' /\ JobInv' /\ \A q \in Requests : Running(q, 1)' <=> Running(q, 1)
  BY <1>1, <1>2 DEF OpsInv, OpsTypeOK, JobInv, Running
<1>4. ASSUME NEW b, NEW m, NEW s, NEW h, NEW a, Underway(b, m, s, h, a, words, bits)
      PROVE  Underway(b, m, s, h, a, words', bits')
  <2>1. Written(b, m, s, words, bits) => Written(b, m, s, words', bits')
    BY <1>2 DEF Written
  <2>2. Holds(b, s, h, words) => Holds(b, s, h, words')
    BY <1>2 DEF Holds
  <2>3. Seen(b, m, s, a, words, bits) => Seen(b, m, s, a, words', bits')
    BY <1>2 DEF Seen
  <2> QED BY <1>4, <2>1, <2>2, <2>3 DEF Underway
<1> QED BY <1>1, <1>3, <1>4 DEF OpsInv

(* Every step keeps the invariant. *)
LEMMA NextOpsInv == OpsInv /\ [Next]_vars => OpsInv'
<1> SUFFICES ASSUME OpsInv, [Next]_vars PROVE OpsInv'
  OBVIOUS
<1>1. CASE UNCHANGED vars
  <2>1. /\ words' = words /\ bits' = bits /\ effect' = effect /\ sent' = sent
        /\ before' = before /\ held' = held /\ got' = got
    BY <1>1 DEF vars, memory, locals
  <2> QED BY <2>1 DEF OpsInv, OpsTypeOK, JobInv, Running
<1>2. ASSUME NEW r \in Requests, Operation(r) PROVE OpsInv'
  <2>1. Start(r, 1) \/ CommandDone(r, 1) \/ CommandFailed(r, 1) \/ Finish(r, 1)
    BY <1>2, JobsAre DEF Operation
  <2> QED BY <2>1, StartOpsInv, CommandDoneOpsInv, JobOverOpsInv
<1>3. CASE LadderWrites
  BY <1>3, LadderOpsInv
<1> QED BY <1>1, <1>2, <1>3 DEF Next

(* Memory is, at any moment of a write, what the commands sent so far make *)
(* of it, and a read has been given what was there when it began.          *)
THEOREM OpsInvariance == Spec => []OpsInv
<1> QED BY InitOpsInv, NextOpsInv, PTL DEF Spec

-----------------------------------------------------------------------------
(* The properties. *)

(* An operation succeeds when its plan is done, and fails when a command   *)
(* of it does.                                                             *)
LEMMA Ending ==
  ASSUME OpsInv, [Next]_vars, NEW r \in Requests
  PROVE  /\ Succeeds(r) => Running(r, 1) /\ Finish(r, 1)
         /\ Fails(r) => Running(r, 1) /\ CommandFailed(r, 1)
<1> SUFFICES ASSUME NEW x \in {"ok", "failed"},
                    effect[<<r, 1>>] = "running", effect'[<<r, 1>>] = x
             PROVE  (x = "ok" => Finish(r, 1)) /\ (x = "failed" => CommandFailed(r, 1))
  BY JobsAre DEF Succeeds, Fails, Running
<1>1. effect' # effect /\ Running(r, 1)
  BY DEF Running
<1>2. ~LadderWrites /\ ~UNCHANGED vars
  BY <1>1 DEF LadderWrites, vars
<1>3. ASSUME NEW q \in Requests, Operation(q)
      PROVE  q = r /\ (Finish(r, 1) \/ CommandFailed(r, 1))
  <2>1. Start(q, 1) \/ CommandDone(q, 1) \/ CommandFailed(q, 1) \/ Finish(q, 1)
    BY <1>3, JobsAre DEF Operation
  <2>2. ~Start(q, 1)
    BY <1>1, JobsAre DEF Start, Executor!Start, Running
  <2>3. ~CommandDone(q, 1)
    BY <1>1 DEF CommandDone
  <2>4. Running(q, 1)
    BY <2>1, <2>2, <2>3 DEF CommandFailed, Finish
  <2>5. q = r
    BY <1>1, <2>4 DEF OpsInv, JobInv
  <2> QED BY <2>1, <2>2, <2>3, <2>5
<1>4. (Finish(r, 1) => x = "ok") /\ (CommandFailed(r, 1) => x = "failed")
  BY DEF Finish, CommandFailed, JobOver
<1> QED BY <1>2, <1>3, <1>4 DEF Next

(* A write that succeeds has set everything it names, to the last value    *)
(* its entries give, and nothing else, except where the ladder program     *)
(* writes too (queue.go:501-563).                                          *)
THEOREM WritesAreExact == Spec => SuccessIsExact
<1>1. ASSUME OpsInv, [Next]_vars, NEW r \in Requests, Body[r].kind = "write", Succeeds(r)
      PROVE  /\ \A w \in QuietWords : words'[w] = Expected(Body[r], before[r], w)
             /\ \A d \in QuietDevices : bits'[d] = ExpectedOn(Body[r], before[r], d)
  <2> DEFINE b == Body[r]
             m == before[r]
             n == ForDevices(b)
             L == Len(Order(b))
             s == sent[r]
  <2>1. /\ Running(r, 1) /\ s = Len(PlanOf(b)) /\ words' = words /\ bits' = bits
        /\ m \in Memories
    BY <1>1, Ending, JobsAre DEF Finish, memory, OpsInv, OpsTypeOK
  <2>2. b \in WriteBodies /\ s = n + 2 * L
    BY <1>1, <2>1, KindIs
  <2>3. /\ L \in Nat /\ ForWords(b) \in {0, 1} /\ n \in {ForWords(b), ForWords(b) + 1}
        /\ \A w : (\E i \in 1..L : Order(b)[i] = w) <=> Group(b.wordBits, w) # {}
    BY <2>2, WriteShape
  <2>4. Written(b, m, s, words, bits)
    BY <1>1, <2>1, <2>2 DEF OpsInv, Underway
  <2> HIDE DEF b, m, s
  <2>5. /\ \A w \in QuietWords : words[w] = IF s < ForWords(b) THEN m.words[w]
                                            ELSE IF \E i \in 1..L : Order(b)[i] = w /\ n + 2 * i <= s
                                            THEN Expected(b, m, w) ELSE AsWritten(b, m, w)
        /\ \A d \in QuietDevices : bits[d] = IF s < n THEN m.bits[d] ELSE ExpectedOn(b, m, d)
    BY <2>4 DEF Written
  <2>6. ~(s < ForWords(b)) /\ ~(s < n) /\ \A i \in 1..L : n + 2 * i <= s
    BY <2>2, <2>3
  <2>7. ASSUME NEW w \in QuietWords PROVE words[w] = Expected(b, m, w)
    <3>1. CASE \E i \in 1..L : Order(b)[i] = w
      BY <2>5, <2>6, <3>1
    <3>2. CASE ~ \E i \in 1..L : Order(b)[i] = w
      <4>1. Group(b.wordBits, w) = {} /\ words[w] = AsWritten(b, m, w)
        BY <2>3, <2>5, <2>6, <3>2
      <4>2. w \in Word
        BY DEF QuietWords
      <4> QED BY <2>1, <2>2, <4>1, <4>2, ExpectedTypes
    <3> QED BY <3>1, <3>2
  <2>8. /\ \A w \in QuietWords : words'[w] = Expected(b, m, w)
        /\ \A d \in QuietDevices : bits'[d] = ExpectedOn(b, m, d)
    BY <2>1, <2>5, <2>6, <2>7
  <2> QED BY <2>8 DEF b, m
<1>2. OpsInv /\ [Next]_vars =>
        [\A r \in Requests : Body[r].kind = "write" /\ Succeeds(r) =>
            /\ \A w \in QuietWords : words'[w] = Expected(Body[r], before[r], w)
            /\ \A d \in QuietDevices : bits'[d] = ExpectedOn(Body[r], before[r], d)]_vars
  BY <1>1
<1> QED BY <1>2, OpsInvariance, PTL DEF Spec, SuccessIsExact

(* Memory is what the first k parts of the write b make of m: its words,   *)
(* its bit devices, and its word bits word by word.                        *)
Prefix(b, m, k, ws, bs) ==
    /\ \A w \in QuietWords :
          ws[w] = IF k = 0 THEN m.words[w]
                  ELSE IF w \in {GroupOrder(b.wordBits)[i] : i \in 1..k - 2} THEN Expected(b, m, w)
                  ELSE AsWritten(b, m, w)
    /\ \A d \in QuietDevices : bs[d] = IF k <= 1 THEN m.bits[d] ELSE ExpectedOn(b, m, d)

(* Any number of its commands carry out some of its parts. *)
LEMMA WrittenIsPrefix ==
  ASSUME NEW b \in WriteBodies, NEW m, NEW s \in Nat, s <= ForDevices(b) + 2 * Len(Order(b)),
         NEW ws, NEW bs, Written(b, m, s, ws, bs)
  PROVE  \E k \in 0..2 + Len(GroupOrder(b.wordBits)) : Prefix(b, m, k, ws, bs)
<1> DEFINE n == ForDevices(b)
           L == Len(Order(b))
           o == Order(b)
<1>1. L \in Nat /\ ForWords(b) \in {0, 1} /\ n \in {ForWords(b), ForWords(b) + 1}
  BY WriteShape
<1>2. /\ \A w \in QuietWords : ws[w] = IF s < ForWords(b) THEN m.words[w]
                                       ELSE IF \E i \in 1..L : o[i] = w /\ n + 2 * i <= s
                                       THEN Expected(b, m, w) ELSE AsWritten(b, m, w)
      /\ \A d \in QuietDevices : bs[d] = IF s < n THEN m.bits[d] ELSE ExpectedOn(b, m, d)
  BY DEF Written
<1>3. ASSUME NEW k \in 0..2 + L,
             \A w \in QuietWords : ws[w] = IF k = 0 THEN m.words[w]
                                           ELSE IF \E i \in 1..k - 2 : o[i] = w
                                           THEN Expected(b, m, w) ELSE AsWritten(b, m, w),
             \A d \in QuietDevices : bs[d] = IF k <= 1 THEN m.bits[d] ELSE ExpectedOn(b, m, d)
      PROVE  \E j \in 0..2 + Len(GroupOrder(b.wordBits)) : Prefix(b, m, j, ws, bs)
  <2>1. Prefix(b, m, k, ws, bs)
    BY <1>3 DEF Prefix, Order
  <2> QED BY <1>3, <2>1 DEF Order
<1> HIDE DEF n, L, o
<1>4. CASE s < ForWords(b)
  <2>1. s < n /\ 0 \in 0..2 + L
    BY <1>1, <1>4
  <2> QED BY <1>2, <1>3, <1>4, <2>1
<1>5. CASE ~(s < ForWords(b)) /\ s < n
  <2>1. 1 \in 0..2 + L /\ (\A i \in 1..L : ~(n + 2 * i <= s)) /\ 1..1 - 2 = {}
    BY <1>1, <1>5
  <2> QED BY <1>2, <1>3, <1>5, <2>1
<1>6. CASE ~(s < n)
  <2>1. PICK j \in Nat : s - n = 2 * j \/ s - n = 2 * j + 1
    <3>1. s - n \in Nat
      BY <1>1, <1>6
    <3> QED BY <3>1, Halves
  <2> DEFINE k == 2 + j
  <2>2. /\ k \in 0..2 + L /\ k # 0 /\ ~(k <= 1) /\ k - 2 = j /\ j <= L
        /\ ~(s < ForWords(b))
        /\ \A i \in 1..L : n + 2 * i <= s <=> i <= j
    BY <1>1, <1>6, <2>1 DEF n, L
  <2>3. \A w : (\E i \in 1..L : o[i] = w /\ n + 2 * i <= s) <=> (\E i \in 1..k - 2 : o[i] = w)
    BY <1>1, <2>2
  <2> HIDE DEF k
  <2> QED BY <1>2, <1>3, <1>6, <2>2, <2>3
<1> QED BY <1>4, <1>5, <1>6

(* A write that fails has been carried out up to some part of it           *)
(* (queue.go:512-522, 546-561).                                            *)
THEOREM FailedWritesArePrefixes == Spec => FailureIsPrefix
<1>1. ASSUME OpsInv, [Next]_vars, NEW r \in Requests, Body[r].kind = "write", Fails(r)
      PROVE  \E k \in 0..2 + Len(GroupOrder(Body[r].wordBits)) :
                Prefix(Body[r], before[r], k, words', bits')
  <2> DEFINE b == Body[r]
             m == before[r]
             h == held[r]
             s == sent[r]
  <2>1. /\ Running(r, 1) /\ s < Len(PlanOf(b)) /\ s \in Nat /\ m \in Memories /\ h \in Contents
        /\ Carry(r, 1) \/ (words' = words /\ bits' = bits)
        /\ words \in [Word -> Contents] /\ bits \in [BitDevice -> BOOLEAN]
    BY <1>1, Ending, JobsAre DEF CommandFailed, memory, OpsInv, OpsTypeOK
  <2>2. /\ b \in WriteBodies /\ Len(PlanOf(b)) = ForDevices(b) + 2 * Len(Order(b))
        /\ PlanOf(b) = WritePlan(b)
    BY <1>1, KindIs
  <2>3. Len(Order(b)) \in Nat /\ ForDevices(b) \in Nat
    BY <2>2, WriteShape
  <2>4. Written(b, m, s, words, bits) /\ Holds(b, s, h, words)
    BY <1>1, <2>1, <2>2 DEF OpsInv, Underway
  <2>5. Carry(r, 1) => Does(b, PlanOf(b)[s + 1], h, words, bits, words', bits')
    BY CarryDoes
  <2> HIDE DEF b, m, h, s
  <2>6. Carry(r, 1) => Written(b, m, s + 1, words', bits')
    BY <2>1, <2>2, <2>4, <2>5, WriteCarries
  <2>7. PICK t \in {s, s + 1} : Written(b, m, t, words', bits')
    BY <2>1, <2>4, <2>6
  <2>8. t \in Nat /\ t <= ForDevices(b) + 2 * Len(Order(b))
    BY <2>1, <2>2, <2>3
  <2> QED BY <2>2, <2>7, <2>8, WrittenIsPrefix DEF b, m
<1>2. OpsInv /\ [Next]_vars =>
        [\A r \in Requests : Body[r].kind = "write" /\ Fails(r) =>
            LET b == Body[r]
                m == before[r]
                order == GroupOrder(b.wordBits)
            IN  \E k \in 0..2 + Len(order) :
                  /\ \A w \in QuietWords :
                        words'[w] = IF k = 0 THEN m.words[w]
                                    ELSE IF w \in {order[i] : i \in 1..k - 2} THEN Expected(b, m, w)
                                    ELSE AsWritten(b, m, w)
                  /\ \A d \in QuietDevices :
                        bits'[d] = IF k <= 1 THEN m.bits[d] ELSE ExpectedOn(b, m, d)]_vars
  BY <1>1 DEF Prefix
<1> QED BY <1>2, OpsInvariance, PTL DEF Spec, FailureIsPrefix

(* A read of several commands sees the memory of one instant, wherever the *)
(* ladder program does not write: all its commands are sent by one call of *)
(* exec (queue.go:450-482), and those exclude each other.                  *)
THEOREM ReadsSeeOneInstant == Spec => ReadsOneInstant
<1>1. ASSUME OpsInv, [Next]_vars, NEW r \in Requests, Body[r].kind = "read", Succeeds(r)
      PROVE  LET b == Body[r]
                 a == got[r]
             IN  /\ Len(a.words) = Len(b.words) /\ Len(a.bits) = Len(b.bits)
                 /\ \A i \in DOMAIN a.words : b.words[i].on \in QuietWords =>
                       a.words[i] = before[r].words[b.words[i].on]
                 /\ \A i \in DOMAIN a.bits : b.bits[i].on \in QuietDevices =>
                       a.bits[i] = before[r].bits[b.bits[i].on]
  <2> DEFINE b == Body[r]
             n == ForWords(b)
             a == got[r]
             m == before[r]
             s == sent[r]
  <2>1. Running(r, 1) /\ s = Len(PlanOf(b)) /\ a \in Answers
    BY <1>1, Ending, JobsAre DEF Finish, OpsInv, OpsTypeOK
  <2>2. b \in ReadBodies /\ s = n + Len(b.bits)
    BY <1>1, <2>1, KindIs
  <2>3. n \in {0, 1} /\ Len(b.bits) \in Nat
    BY <2>2, BodyTypes, EntriesOf DEF ForWords
  <2>4. Seen(b, m, s, a, words, bits)
    BY <1>1, <2>1, <2>2 DEF OpsInv, Underway
  <2> HIDE DEF b, a, m, s, n
  <2>5. DOMAIN a.words = 1..Len(a.words) /\ DOMAIN a.bits = 1..Len(a.bits)
    <3>1. a.words \in Seq(Contents) /\ a.bits \in Seq(BOOLEAN)
      BY <2>1 DEF Answers
    <3> QED BY <3>1, EntriesOf
  <2>6. ~(s < n) /\ s - n = Len(b.bits)
    BY <2>2, <2>3
  <2>7. /\ Len(a.words) = Len(b.words) /\ Len(a.bits) = Len(b.bits)
        /\ \A i \in DOMAIN a.words : b.words[i].on \in QuietWords =>
              a.words[i] = m.words[b.words[i].on]
        /\ \A i \in DOMAIN a.bits : b.bits[i].on \in QuietDevices =>
              a.bits[i] = m.bits[b.bits[i].on]
    BY <2>4, <2>5, <2>6 DEF Seen, n
  <2> QED BY <2>7 DEF b, a, m
<1>2. OpsInv /\ [Next]_vars =>
        [\A r \in Requests : Body[r].kind = "read" /\ Succeeds(r) =>
            LET b == Body[r]
                a == got[r]
            IN  /\ Len(a.words) = Len(b.words) /\ Len(a.bits) = Len(b.bits)
                /\ \A i \in DOMAIN a.words : b.words[i].on \in QuietWords =>
                      a.words[i] = before[r].words[b.words[i].on]
                /\ \A i \in DOMAIN a.bits : b.bits[i].on \in QuietDevices =>
                      a.bits[i] = before[r].bits[b.bits[i].on]]_vars
  BY <1>1
<1> QED BY <1>2, OpsInvariance, PTL DEF Spec, ReadsOneInstant

(* What the command c of b changes, with h held, it names or races for. *)
Changes(b, c, h, ws, bs, us, vs) ==
    /\ \A w \in Word, k \in Bit :
          us[w][k] # ws[w][k] /\ ~Named(b, w, k) =>
             c.cmd = "WriteWords" /\ c.on = w /\ w \in Ladder /\ ws[w] # h
    /\ \A d \in BitDevice : vs[d] # bs[d] => \E i \in DOMAIN b.bits : b.bits[i].on = d

(* A command of a write changes a bit that the write does not name only by *)
(* writing back a word that the ladder program has written since it was    *)
(* read, and only the bit devices that it names.                           *)
LEMMA CarryChanges ==
  ASSUME NEW b \in WriteBodies, NEW s \in Nat, s < Len(WritePlan(b)), NEW h \in Contents,
         NEW ws \in [Word -> Contents], NEW bs \in [BitDevice -> BOOLEAN], Holds(b, s, h, ws),
         NEW us, NEW vs, Does(b, WritePlan(b)[s + 1], h, ws, bs, us, vs)
  PROVE  Changes(b, WritePlan(b)[s + 1], h, ws, bs, us, vs)
<1> DEFINE n == ForDevices(b)
           L == Len(Order(b))
           c == WritePlan(b)[s + 1]
<1>1. /\ b.words \in Seq([on : Word, value : Contents])
      /\ b.bits \in Seq([on : BitDevice, value : BOOLEAN])
      /\ b.wordBits \in Seq(WordBitEntry)
  BY BodyTypes
<1>2. /\ StoredAll(StoreAll(ws, b.words), Word, Contents, ws, b.words)
      /\ StoredAll(StoreAll(bs, b.bits), BitDevice, BOOLEAN, bs, b.bits)
  BY <1>1, StoreAllIs
<1>3. Does(b, c, h, ws, bs, us, vs)
  OBVIOUS
<1>4. \/ s < ForWords(b) /\ s = 0 /\ c.cmd = "RandomWrite"
      \/ s = ForWords(b) /\ n = s + 1 /\ c.cmd = "RandomWriteBits"
      \/ \E i \in 1..L : s = n + 2 * i - 2 /\ c = [cmd |-> "ReadWords", on |-> Order(b)[i]]
      \/ \E i \in 1..L : s = n + 2 * i - 1 /\ c = [cmd |-> "WriteWords", on |-> Order(b)[i]]
  BY NextOfWrite
<1> HIDE DEF c, n, L
<1>5. ASSUME NEW d \in BitDevice, vs[d] # bs[d]
      PROVE  \E i \in DOMAIN b.bits : b.bits[i].on = d
  <2>1. vs = StoreAll(bs, b.bits)
    BY <1>3, <1>5 DEF Does
  <2> QED BY <1>2, <1>5, <2>1 DEF StoredAll, LastOf
<1>6. ASSUME NEW w \in Word, NEW k \in Bit, us[w][k] # ws[w][k], ~Named(b, w, k)
      PROVE  c.cmd = "WriteWords" /\ c.on = w /\ w \in Ladder /\ ws[w] # h
  <2>1. /\ \A i \in DOMAIN b.words : b.words[i].on # w
        /\ \A i \in DOMAIN b.wordBits : ~(b.wordBits[i].word = w /\ b.wordBits[i].on = k)
    BY <1>6 DEF Named
  <2>2. c.cmd # "RandomWrite"
    <3> SUFFICES ASSUME c.cmd = "RandomWrite" PROVE FALSE
      OBVIOUS
    <3>1. us = StoreAll(ws, b.words)
      BY <1>3 DEF Does
    <3>2. us[w] = ws[w]
      BY <1>2, <2>1, <3>1 DEF StoredAll, LastOf
    <3> QED BY <1>6, <3>2
  <2>3. c.cmd = "WriteWords" /\ us = [ws EXCEPT ![c.on] = Store(h, b.wordBits, Group(b.wordBits, c.on))]
    BY <1>3, <1>6, <2>2 DEF Does
  <2>4. PICK i \in 1..L : s = n + 2 * i - 1 /\ c.on = Order(b)[i]
    <3>1. \A q : /\ c = [cmd |-> "ReadWords", on |-> q] => c.cmd = "ReadWords"
                 /\ c = [cmd |-> "WriteWords", on |-> q] => c.on = q
      OBVIOUS
    <3> QED BY <1>4, <2>3, <3>1
  <2> DEFINE wd == c.on
             new == Store(h, b.wordBits, Group(b.wordBits, wd))
  <2>5. wd \in Word
    BY <2>4, WriteShape DEF L
  <2>6. w = wd /\ new[k] # ws[w][k]
    <3>1. us = [ws EXCEPT ![wd] = new]
      BY <2>3
    <3> HIDE DEF new, wd
    <3> QED BY <1>6, <2>5, <3>1
  <2>7. new[k] = h[k]
    <3>1. StoredGroup(new, h, b.wordBits, wd)
      <4> HIDE DEF wd
      <4> QED BY <1>1, StoreGroupIs
    <3>2. {j \in DOMAIN b.wordBits : b.wordBits[j].word = wd /\ b.wordBits[j].on = k} = {}
      <4> HIDE DEF wd
      <4> QED BY <2>1, <2>6
    <3> HIDE DEF new, wd
    <3> QED BY <3>1, <3>2 DEF StoredGroup, LastOf
  <2>8. ws[w] # h
    <3> HIDE DEF new
    <3> QED BY <2>6, <2>7
  <2>9. w \in QuietWords => h = ws[w]
    <3> HIDE DEF new
    <3> QED BY <2>4, <2>6 DEF Holds, n, L
  <2>10. w \in Ladder
    BY <2>8, <2>9 DEF QuietWords
  <2> QED BY <2>3, <2>6, <2>8, <2>10
<1> QED BY <1>5, <1>6 DEF c, Changes

(* What the ladder program writes is never lost to a write that does not   *)
(* name it, unless it falls between the reading and the writing back of a  *)
(* word (queue.go:512-522, 546-561).                                       *)
THEOREM LadderWritesSurvive == Spec => OnlyRacingWritesLost
<1>1. ASSUME OpsInv, [Next]_vars, <<effect', sent'>> # <<effect, sent>>,
             words' # words \/ bits' # bits
      PROVE  \E r \in Requests :
                /\ Running(r, 1)
                /\ \A w \in Word, n \in Bit : words'[w][n] # words[w][n] =>
                      Named(Body[r], w, n) \/ Racing(r, 1, w)
                /\ \A d \in BitDevice : bits'[d] # bits[d] =>
                      \E i \in DOMAIN Body[r].bits : Body[r].bits[i].on = d
  <2>1. ~LadderWrites /\ ~UNCHANGED vars
    BY <1>1 DEF LadderWrites, vars
  <2>2. PICK r \in Requests : Operation(r)
    BY <1>1, <2>1 DEF Next
  <2>3. Carry(r, 1)
    <3>1. Start(r, 1) \/ CommandDone(r, 1) \/ CommandFailed(r, 1) \/ Finish(r, 1)
      BY <2>2, JobsAre DEF Operation
    <3> QED BY <1>1, <3>1 DEF Start, CommandDone, CommandFailed, Finish, memory
  <2> DEFINE b == Body[r]
             s == sent[r]
             h == held[r]
             c == PlanOf(b)[s + 1]
  <2>4. Running(r, 1) /\ s < Len(PlanOf(b)) /\ Does(b, c, h, words, bits, words', bits')
    BY <2>3, CarryDoes
  <2>5. /\ s \in Nat /\ h \in Contents
        /\ words \in [Word -> Contents] /\ bits \in [BitDevice -> BOOLEAN]
        /\ b \in WriteBodies => Holds(b, s, h, words)
    BY <1>1, <2>4 DEF OpsInv, OpsTypeOK, Underway
  <2>6. ASSUME NEW w, c.cmd = "WriteWords", c.on = w, w \in Ladder, words[w] # h
        PROVE  Racing(r, 1, w)
    BY <2>4, <2>6, JobsAre DEF Racing, Sending
  <2> HIDE DEF s, h, c
  <2>7. b \in WriteBodies
    <3> SUFFICES ASSUME b \in ReadBodies PROVE FALSE
      BY KindIs
    <3>1. c.cmd \in {"RandomRead", "ReadBits"}
      BY <2>4, <2>5, KindIs, ReadCommands DEF c
    <3> QED BY <1>1, <2>4, <3>1 DEF Does
  <2>8. PlanOf(b) = WritePlan(b)
    BY <2>7, KindIs
  <2> HIDE DEF b
  <2>9. Changes(b, c, h, words, bits, words', bits')
    <3>1. /\ c = WritePlan(b)[s + 1] /\ s < Len(WritePlan(b)) /\ Holds(b, s, h, words)
          /\ Does(b, WritePlan(b)[s + 1], h, words, bits, words', bits')
      BY <2>4, <2>5, <2>7, <2>8 DEF c
    <3> QED BY <2>5, <2>7, <3>1, CarryChanges
  <2> QED BY <2>4, <2>6, <2>9 DEF b, Changes
<1>2. OpsInv /\ [Next]_vars =>
        [<<effect', sent'>> # <<effect, sent>> =>
          /\ \A w \in Word, n \in Bit : words'[w][n] # words[w][n] =>
                \E r \in Requests : \E k \in DOMAIN Calls[r] :
                   Running(r, k) /\ (Named(Body[r], w, n) \/ Racing(r, k, w))
          /\ \A d \in BitDevice : bits'[d] # bits[d] =>
                \E r \in Requests : \E k \in DOMAIN Calls[r] :
                   Running(r, k) /\ \E i \in DOMAIN Body[r].bits : Body[r].bits[i].on = d]_vars
  <2> SUFFICES ASSUME OpsInv, [Next]_vars, <<effect', sent'>> # <<effect, sent>>,
                      words' # words \/ bits' # bits
               PROVE  /\ \A w \in Word, n \in Bit : words'[w][n] # words[w][n] =>
                            \E r \in Requests : \E k \in DOMAIN Calls[r] :
                               Running(r, k) /\ (Named(Body[r], w, n) \/ Racing(r, k, w))
                      /\ \A d \in BitDevice : bits'[d] # bits[d] =>
                            \E r \in Requests : \E k \in DOMAIN Calls[r] :
                               Running(r, k) /\ \E i \in DOMAIN Body[r].bits : Body[r].bits[i].on = d
    OBVIOUS
  <2>1. \A r \in Requests : 1 \in DOMAIN Calls[r]
    BY JobsAre
  <2> QED BY <1>1, <2>1
<1> QED BY <1>2, OpsInvariance, PTL DEF Spec, OnlyRacingWritesLost
=============================================================================
