--------------------------- MODULE MCRandomAccess ---------------------------
(* Instances of RandomAccess for TLC. *)
EXTENDS RandomAccess

D(n)       == [device |-> "word", addr |-> n, bit |-> -1, nibbles |-> 0]
DBit(n, b) == [device |-> "word", addr |-> n, bit |-> b, nibbles |-> 0]
M(n)       == [device |-> "bit", addr |-> n, bit |-> -1, nibbles |-> 0]
KM(k, n)   == [device |-> "bit", addr |-> n, bit |-> -1, nibbles |-> k]

To(a, v)      == [at |-> a, value |-> v]
UpTo(n, S)    == UNION {[1..k -> S] : k \in 0..n}

WordEntries == {D(0), D(1)}
BadWords    == {DBit(0, 1), M(0), KM(2, 0)}
BitEntries  == {DBit(0, 0), DBit(1, 1), M(0), M(1)}
BadBits     == {D(0), KM(2, 0)}

MCReads ==
    [op : {"read"}, words : UpTo(2, WordEntries), dwords : UpTo(1, WordEntries),
     bits : UpTo(4, BitEntries)]
    \cup [op : {"read"}, words : UpTo(3, {D(0)}), dwords : UpTo(1, {D(1)} \cup BadWords),
          bits : UpTo(1, BitEntries \cup BadBits)]
    \cup [op : {"read"}, words : UpTo(1, BadWords), dwords : {<<>>}, bits : {<<>>}]

WordWrites == {To(D(0), {0}), To(D(1), {1})}
BitWrites  == {To(a, v) : a \in {DBit(0, 0), DBit(0, 1), DBit(2, 1), M(0)}, v \in BOOLEAN}
MCWrites ==
    [op : {"write"}, words : UpTo(1, WordWrites), dwords : {<<>>, <<To(D(1), <<{0}, {}>>)>>},
     bits : UpTo(3, BitWrites)]
    \cup [op : {"write"}, words : UpTo(1, {To(a, {}) : a \in BadWords}),
          dwords : UpTo(1, {To(a, <<{}, {}>>) : a \in BadWords}),
          bits : UpTo(1, {To(a, TRUE) : a \in BadBits}) \cup {[i \in 1..4 |-> To(M(0), TRUE)]}]

MCRequests == MCReads \cup MCWrites

MCMemories ==
    {[words |-> [w \in 0..2 |-> {}], bits |-> [d \in 0..1 |-> FALSE]],
     [words |-> [w \in 0..2 |-> IF w = 0 THEN {0} ELSE {0, 1}], bits |-> [d \in 0..1 |-> d = 0]]}
=============================================================================
