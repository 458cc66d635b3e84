----------------------------- MODULE ReadWrite ------------------------------
(***************************************************************************)
(* GET /read and POST /write (handler.go): what they accept, how values    *)
(* travel between JSON and the words and bits of the PLC, and what a       *)
(* request changes there.  A request is one step: the queue runs its one   *)
(* command, or its read-modify-write, as one job (WorkQueue, DeviceOps).   *)
(*                                                                         *)
(* An address is what parseAddr returns: [device, addr, bit, nibbles].     *)
(* The word has WordBits bits, where the code has 16; the nibble and the   *)
(* double word keep their proportion to it.  All refusals of a handler     *)
(* are one answer, 400, so their order is left out.                        *)
(***************************************************************************)
EXTENDS Integers, Sequences

CONSTANTS WordBits,                  \* 16 in the code
          WordCount, BitCount,       \* the devices of the PLC
          maxReadCount, maxWriteValues,
          Addresses, Counts, Bodies, \* what requests are made of
          Memories                   \* the contents the PLC may start with

VARIABLES words,   \* the word devices of the PLC
          bits,    \* its bit devices
          request, \* the request being answered, or None
          reply    \* [status, values]

memory == <<words, bits>>
readWriteVars == <<memory, request, reply>>

NibbleBits == WordBits \div 4
Pow2[n \in 0..2 * WordBits] == IF n = 0 THEN 1 ELSE 2 * Pow2[n - 1]
Uint(n)    == 0..Pow2[n] - 1

(* The address is one that parseAddr returns: bit access is to words, the  *)
(* K notation to bits, of a double word's width at most.  The code reads   *)
(* as many values as it writes, a word's bits among them (1024 and 16).    *)
ASSUME ReadWriteAssumption ==
    /\ WordBits \in Nat \ {0} /\ WordBits % 4 = 0
    /\ WordCount \in Nat /\ BitCount \in Nat
    /\ maxReadCount \in Nat /\ maxWriteValues = maxReadCount /\ WordBits <= maxReadCount
    /\ \A at \in Addresses :
          /\ at \in [device : {"word", "bit"}, addr : Nat, bit : -1..WordBits - 1, nibbles : 0..8]
          /\ at.bit >= 0 => at.device = "word"
          /\ at.nibbles > 0 => at.device = "bit"
    /\ Counts \subseteq Int
    /\ \A b \in Bodies : \/ b \in [type : {"integers"}, values : Seq(Int)]
                         \/ b \in [type : {"booleans"}, values : Seq(BOOLEAN)]
    /\ Memories \subseteq [words : [0..WordCount - 1 -> Uint(WordBits)],
                           bits : [0..BitCount - 1 -> BOOLEAN]]

None     == [op |-> "none"]
NoAnswer == [status |-> 0, values |-> <<>>]

ReadRequests ==
    [op : {"read"}, at : Addresses, count : Counts, dword : BOOLEAN, sint : BOOLEAN]
WriteRequests ==
    [op : {"write"}, at : Addresses, body : Bodies, dword : BOOLEAN, sint : BOOLEAN]

Statuses == {200, 400, 502}

-----------------------------------------------------------------------------
(* Conversions. *)

BitOf(v, i) == (v \div Pow2[i]) % 2 = 1

(* Mutant: the sign bit is looked for one bit too high. *)
SignExtend_OneBitOff(v, width) == IF BitOf(v, width) THEN v - Pow2[width] ELSE v

(* signExtend, and the conversions int16(v) and int32(v) of unsigned values. *)
SignExtend(v, width) == IF BitOf(v, width - 1) THEN v - Pow2[width] ELSE v

(* The conversion of an integer to an unsigned type. *)
Truncate(v, width) == v % Pow2[width]

(* Mutant: the lower bound of signed values is exclusive. *)
FitsInBits_Symmetric(v, width, signed) ==
    IF signed THEN v \in 1 - Pow2[width - 1]..Pow2[width - 1] - 1
              ELSE v \in Uint(width)

FitsInBits(v, width, signed) ==
    IF signed THEN v \in -Pow2[width - 1]..Pow2[width - 1] - 1
              ELSE v \in Uint(width)

(* The number of width bits of which bit i is bs[i]: a loop over the bits. *)
Number(bs, width) ==
    LET low[i \in 0..width] ==
            IF i = 0 THEN 0
            ELSE low[i - 1] + (IF bs[i - 1] THEN Pow2[i - 1] ELSE 0)
    IN  low[width]

(* The K notation: bit i of the value is device addr + i. *)
Pack(n, width) == Number([i \in 0..width - 1 |-> bits[n + i]], width)

IsK(at)       == at.nibbles > 0
IsWordBit(at) == at.bit >= 0
IsWord(at)    == at.device = "word" /\ ~IsWordBit(at)
IsBits(at)    == at.device = "bit" /\ ~IsK(at)
Width(r)      == IF IsK(r.at) THEN r.at.nibbles * NibbleBits
                 ELSE IF r.dword THEN 2 * WordBits ELSE WordBits

(* The words a write of integers sends: a double word is its low half and  *)
(* its high half.                                                          *)
WordsOf(values, dword) ==
    IF dword
    THEN [i \in 1..2 * Len(values) |->
             LET v == values[(i + 1) \div 2]
             IN  Truncate(IF i % 2 = 1 THEN v ELSE v \div Pow2[WordBits], WordBits)]
    ELSE [i \in DOMAIN values |-> Truncate(values[i], WordBits)]

-----------------------------------------------------------------------------
(* The devices a request is about, when it is about len values. *)
Span(r, len) ==
    LET n == r.at.addr
    IN  IF IsK(r.at) THEN n..n + Width(r) - 1
        ELSE IF IsWordBit(r.at) THEN {n}
        ELSE IF r.dword THEN n..n + 2 * len - 1
        ELSE n..n + len - 1

(* The PLC refuses what lies beyond its devices. *)
OutOfRange(r, len) ==
    ~(Span(r, len) \subseteq IF r.at.device = "word" THEN DOMAIN words ELSE DOMAIN bits)

FlagsRefused(r) ==
    \/ IsK(r.at) /\ r.dword
    \/ IsWordBit(r.at) /\ (r.dword \/ r.sint)
    \/ IsBits(r.at) /\ (r.dword \/ r.sint)

ReadRefused(r) ==
    \/ FlagsRefused(r)
    \/ r.count < 1 \/ r.count > maxReadCount
    \/ r.dword /\ r.count > maxReadCount \div 2
    \/ IsK(r.at) /\ r.count # 1
    \/ IsWordBit(r.at) /\ r.at.bit + r.count > WordBits

WriteRefused(r) ==
    LET vals == r.body.values
        len  == Len(vals)
    IN  \/ FlagsRefused(r)
        \/ len = 0
        \/ r.body.type # (IF IsK(r.at) \/ IsWord(r.at) THEN "integers" ELSE "booleans")
        \/ IsK(r.at) /\ len # 1
        \/ IsWordBit(r.at) /\ r.at.bit + len > WordBits
        \/ (IsWord(r.at) \/ IsBits(r.at)) /\ len > maxWriteValues
        \/ r.dword /\ len > maxWriteValues \div 2
        \/ /\ IsK(r.at) \/ IsWord(r.at)
           /\ \E i \in DOMAIN vals : ~FitsInBits(vals[i], Width(r), r.sint)

(* What a read answers. *)
ValuesOf(r) ==
    LET n == r.at.addr
        Signed(v)  == IF r.sint THEN SignExtend(v, Width(r)) ELSE v
        Dword(i)   == words[n + 2 * i] + Pow2[WordBits] * words[n + 2 * i + 1]
    IN  IF IsK(r.at) THEN <<Signed(Pack(n, Width(r)))>>
        ELSE IF IsWordBit(r.at) THEN [i \in 1..r.count |-> BitOf(words[n], r.at.bit + i - 1)]
        ELSE IF IsBits(r.at) THEN [i \in 1..r.count |-> bits[n + i - 1]]
        ELSE [i \in 1..r.count |-> Signed(IF r.dword THEN Dword(i - 1) ELSE words[n + i - 1])]

(* Mutant: the bits are set in an empty word. *)
SetWordBits_FromZero(v, bit, values) ==
    Number([i \in 0..WordBits - 1 |->
        i \in bit..bit + Len(values) - 1 /\ values[i - bit + 1]], WordBits)

(* WriteWordBits: the word v with the bits from bit on set to values. *)
SetWordBits(v, bit, values) ==
    Number([i \in 0..WordBits - 1 |->
        IF i \in bit..bit + Len(values) - 1 THEN values[i - bit + 1] ELSE BitOf(v, i)], WordBits)

(* What a write makes of the devices. *)
WordsAfter(r) ==
    LET n   == r.at.addr
        new == WordsOf(r.body.values, r.dword)
    IN  IF IsWordBit(r.at) THEN [words EXCEPT ![n] = SetWordBits(@, r.at.bit, r.body.values)]
        ELSE IF IsWord(r.at)
        THEN [w \in DOMAIN words |-> IF w - n + 1 \in DOMAIN new THEN new[w - n + 1] ELSE words[w]]
        ELSE words

BitsAfter(r) ==
    LET n   == r.at.addr
        new == IF IsK(r.at)
               THEN [i \in 1..Width(r) |->
                        BitOf(Truncate(r.body.values[1], 2 * WordBits), i - 1)]
               ELSE r.body.values
    IN  IF r.at.device = "word" THEN bits
        ELSE [d \in DOMAIN bits |-> IF d - n + 1 \in DOMAIN new THEN new[d - n + 1] ELSE bits[d]]

-----------------------------------------------------------------------------
ReadWriteInit ==
    /\ \E m \in Memories : words = m.words /\ bits = m.bits
    /\ request = None
    /\ reply = NoAnswer

Reply(status, values) == reply' = [status |-> status, values |-> values]

Read(r) ==
    /\ request = None
    /\ request' = r
    /\ IF ReadRefused(r) THEN Reply(400, <<>>)
       ELSE IF OutOfRange(r, r.count) THEN Reply(502, <<>>)
       ELSE Reply(200, ValuesOf(r))
    /\ UNCHANGED memory

Write(r) ==
    /\ request = None
    /\ request' = r
    /\ IF WriteRefused(r) THEN Reply(400, <<>>) /\ UNCHANGED memory
       ELSE IF OutOfRange(r, Len(r.body.values)) THEN Reply(502, <<>>) /\ UNCHANGED memory
       ELSE /\ Reply(200, <<>>)
            /\ words' = WordsAfter(r)
            /\ bits' = BitsAfter(r)

(* The answer is sent, and another request may come. *)
Replied ==
    /\ request # None
    /\ request' = None
    /\ reply' = NoAnswer
    /\ UNCHANGED memory

ReadWriteNext ==
    \/ \E r \in ReadRequests : Read(r)
    \/ \E r \in WriteRequests : Write(r)
    \/ Replied

ReadWriteSpec == ReadWriteInit /\ [][ReadWriteNext]_readWriteVars

-----------------------------------------------------------------------------
(* Properties. *)

Done(op) == request.op = op /\ reply.status = 200

AsRead(r) ==
    [op |-> "read", at |-> r.at, count |-> Len(r.body.values), dword |-> r.dword, sint |-> r.sint]
AsWrite(r, values) ==
    [op |-> "write", at |-> r.at, dword |-> r.dword, sint |-> r.sint,
     body |-> [type |-> IF IsK(r.at) \/ IsWord(r.at) THEN "integers" ELSE "booleans",
               values |-> values]]

(* What a write was given, the read with the same address and flags        *)
(* accepts to read, and gives back: values at the edges of every width,    *)
(* signed and unsigned, one or several (handler.go:358-764).               *)
WrittenIsReadBack ==
    Done("write") =>
        /\ ~ReadRefused(AsRead(request))
        /\ ValuesOf(AsRead(request)) = request.body.values

(* What a read answers, a write with the same address and flags accepts,   *)
(* and it changes nothing: no view of the memory shows a value that it     *)
(* cannot express (handler.go:51-68, 426-429, 472-494, 676-692).           *)
ReadIsWrittenBack ==
    Done("read") =>
        LET w == AsWrite(request, reply.values)
        IN  /\ ~WriteRefused(w)
            /\ WordsAfter(w) = words /\ BitsAfter(w) = bits

(* Both: reading and writing are inverse to each other, whatever the kind  *)
(* of address, the flags and the values (handler.go:51-68, 358-764).       *)
RoundTrips == WrittenIsReadBack /\ ReadIsWrittenBack

(* A write changes the devices it names and no others, bit access only the *)
(* bits it names; a request that is not answered 200 changes nothing       *)
(* (queue.go:296-319, 355-373; handler.go:509-764).                        *)
OnlyWhatIsNamed ==
    [][LET r == request'
       IN  memory' # memory =>
              /\ r.op = "write" /\ reply'.status = 200
              /\ LET span == Span(r, Len(r.body.values))
                     bit  == r.at.bit
                 IN  /\ \A w \in DOMAIN words : words'[w] # words[w] =>
                           /\ r.at.device = "word" /\ w \in span
                           /\ IsWordBit(r.at) => \A i \in 0..WordBits - 1 :
                                 BitOf(words'[w], i) # BitOf(words[w], i) =>
                                     i \in bit..bit + Len(r.body.values) - 1
                     /\ \A d \in DOMAIN bits : bits'[d] # bits[d] =>
                           r.at.device = "bit" /\ d \in span]_readWriteVars
=============================================================================
