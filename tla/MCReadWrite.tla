---------------------------- MODULE MCReadWrite -----------------------------
(* An instance of ReadWrite for TLC, words of four bits and nibbles of one, *)
(* that MCHandlers runs: any reads, and as many writes as MaxWrites.       *)
EXTENDS ReadWrite

At(device, addr, bit, nibbles) ==
    [device |-> device, addr |-> addr, bit |-> bit, nibbles |-> nibbles]

MCAddresses ==
    {At("word", n, -1, 0) : n \in {0, 1, WordCount - 1}}
    \cup {At("word", 1, b, 0) : b \in 0..WordBits - 1}
    \cup {At("bit", n, -1, 0) : n \in {0, BitCount - 2}}
    \cup {At("bit", 1, -1, k) : k \in 1..8}
    \cup {At("bit", BitCount - 2, -1, 3)}

MCCounts == {0, 1, 2, 3, maxReadCount + 1}

(* One below, at and above every bound of every width. *)
Edges == {m * Pow2[k] + d : m \in {-1, 1}, k \in 0..8, d \in {-1, 0, 1}}
Few   == {-128, -9, -1, 0, 7, 15, 200}
Integers1 == {<<v>> : v \in Edges}
Integers2 == {<<v, w>> : v, w \in Few}
Booleans  == UNION {[1..n -> BOOLEAN] : n \in 1..3}
Zeros(n)  == [i \in 1..n |-> 0]
Falses(n) == [i \in 1..n |-> FALSE]

MCBodies ==
    {[type |-> "integers", values |-> s] :
        s \in Integers1 \cup Integers2
              \cup {<<>>, <<5, 6, 7>>, Zeros(maxWriteValues), Zeros(maxWriteValues + 1)}}
    \cup {[type |-> "booleans", values |-> s] :
        s \in Booleans \cup {Falses(maxWriteValues), Falses(maxWriteValues + 1)}}

MCMemories ==
    {[words |-> [w \in 0..WordCount - 1 |-> 0], bits |-> [d \in 0..BitCount - 1 |-> FALSE]],
     [words |-> [w \in 0..WordCount - 1 |-> Pow2[WordBits] - 1],
      bits |-> [d \in 0..BitCount - 1 |-> TRUE]],
     [words |-> [w \in 0..WordCount - 1 |-> (5 + 3 * w) % Pow2[WordBits]],
      bits |-> [d \in 0..BitCount - 1 |-> d % 3 = 0]]}

(* The writes a behaviour may hold. *)
CONSTANT MaxWrites
VARIABLE writes

MCInit == ReadWriteInit /\ writes = 0
MCNext ==
    \/ (\E r \in ReadRequests : Read(r)) /\ UNCHANGED writes
    \/ /\ writes < MaxWrites
       /\ \E r \in WriteRequests : Write(r)
       /\ writes' = IF reply'.status = 200 THEN writes + 1 ELSE writes
    \/ Replied /\ UNCHANGED writes
=============================================================================
