---------------------------- MODULE RandomAccess ----------------------------
(***************************************************************************)
(* POST /random-read and POST /random-write (handler.go): how the entries  *)
(* of a request become the arguments of PLCQueue.RandomRead and            *)
(* RandomWrite, and how what comes back becomes the answer.  An accepted   *)
(* request is one job of the queue and its commands succeed (DeviceOps     *)
(* models the commands, and their failures, one by one).                   *)
(*                                                                         *)
(* An address is what parseAddr returns: [device, addr, bit, nibbles].  A  *)
(* word is the set of its bits that are 1, a dword a pair of words.  The   *)
(* entries of a read are addresses, those of a write [at, value].  All     *)
(* refusals are one answer, 400, so their order is left out.               *)
(***************************************************************************)
EXTENDS Integers, SequencesExt

CONSTANTS WordCount, BitCount, WordBits,     \* the devices of the PLC
          maxRandomCount, maxRandomBitReads,
          Requests,     \* [op, words, dwords, bits], three sequences of entries
          Memories      \* the contents the PLC may have

VARIABLES words, bits, \* the devices of the PLC
          request,     \* the request in the handler, or None
          call,        \* the arguments of RandomRead or RandomWrite
          answer       \* [status, words, dwords, bits]

memory == <<words, bits>>
vars   == <<memory, request, call, answer>>

None     == [op |-> "none"]
NoCall   == [op |-> "none"]
NoAnswer == [status |-> 0, words |-> <<>>, dwords |-> <<>>, bits |-> <<>>]

-----------------------------------------------------------------------------
(* What requests are made of. *)

IsWordDevice(a) == a.device = "word"
IsWordBit(a)    == a.bit >= 0
IsK(a)          == a.nibbles > 0

(* parseAddr takes a bit suffix only behind a word device and K only in    *)
(* front of a bit device.                                                  *)
Address == {a \in [device : {"word", "bit"}, addr : Nat, bit : -1..WordBits - 1, nibbles : Nat] :
               IF IsWordDevice(a) THEN ~IsK(a) ELSE ~IsWordBit(a)}

Word == SUBSET (0..WordBits - 1)

Entry(V) == [at : Address, value : V]

RandomReads  == [op : {"read"}, words : Seq(Address), dwords : Seq(Address), bits : Seq(Address)]
RandomWrites == [op : {"write"}, words : Seq(Entry(Word)), dwords : Seq(Entry(Word \X Word)),
                 bits : Seq(Entry(BOOLEAN))]

WordDevices == [0..WordCount - 1 -> Word]
BitDevices  == [0..BitCount - 1 -> BOOLEAN]

ASSUME RandomAssumption ==
    /\ {WordCount, BitCount, WordBits, maxRandomCount, maxRandomBitReads} \subseteq Nat
    /\ Requests \subseteq RandomReads \cup RandomWrites
    /\ Memories \subseteq [words : WordDevices, bits : BitDevices]

-----------------------------------------------------------------------------
(* The handler, before the job. *)

(* parseWordAddr, and its likes in handleRandomWrite. *)
WordAddrRefused(a) == IsWordBit(a) \/ ~IsWordDevice(a)
BitAddrRefused(a)  == IsK(a) \/ (IsWordDevice(a) /\ ~IsWordBit(a))

Addr(r, e) == IF r.op = "read" THEN e ELSE e.at

Malformed(r) ==
    \/ Len(r.words) + Len(r.dwords) + Len(r.bits) = 0
    \/ \E e \in ToSet(r.words) : WordAddrRefused(Addr(r, e))
    \/ \E e \in ToSet(r.dwords) : WordAddrRefused(Addr(r, e))
    \/ \E e \in ToSet(r.bits) : BitAddrRefused(Addr(r, e))

(* Where the value of each bit entry will be: in the word folded into the  *)
(* random read that has been added for it, or among the native bits.       *)
NoSources == [srcs |-> <<>>, bitWords |-> <<>>, natives |-> <<>>]
AddSource(s, a) ==
    IF IsWordBit(a)
    THEN [s EXCEPT !.srcs = Append(@, [native |-> FALSE, idx |-> Len(s.bitWords),
                                       offset |-> a.bit]),
                   !.bitWords = Append(@, a.addr)]
    ELSE [s EXCEPT !.srcs = Append(@, [native |-> TRUE, idx |-> Len(s.natives), offset |-> 0]),
                   !.natives = Append(@, a.addr)]
BitSources(r) == FoldLeft(AddSource, NoSources, r.bits)

TooMany(r) ==
    \/ Len(r.words) > maxRandomCount
    \/ Len(r.dwords) > maxRandomCount
    \/ Len(r.bits) > maxRandomCount
    \/ r.op = "read" /\ LET s == BitSources(r)
                        IN  \/ Len(s.natives) > maxRandomBitReads
                            \/ Len(r.words) + Len(s.bitWords) > maxRandomCount

Addrs(entries) == [i \in DOMAIN entries |-> entries[i].addr]

ReadCall(r) ==
    LET s == BitSources(r)
    IN  [op |-> "read", words |-> Addrs(r.words) \o s.bitWords, dwords |-> Addrs(r.dwords),
         bits |-> s.natives]

Write(e) == [addr |-> e.at.addr, bit |-> e.at.bit, value |-> e.value]
WriteArgs(entries) == [i \in DOMAIN entries |-> Write(entries[i])]

(* The bits of a write, sorted into bits of words and bit devices.         *)
NoBits == [bits |-> <<>>, wordBits |-> <<>>]
AddBit(s, e) == IF IsWordBit(e.at) THEN [s EXCEPT !.wordBits = Append(@, Write(e))]
                ELSE [s EXCEPT !.bits = Append(@, Write(e))]
SortedBits(r) == FoldLeft(AddBit, NoBits, r.bits)

(* Mutant: the word bits are collected last to first. *)
WriteCall_Reversed(r) ==
    LET s == SortedBits(r)
    IN  [op |-> "write", words |-> WriteArgs(r.words), dwords |-> WriteArgs(r.dwords),
         bits |-> s.bits, wordBits |-> Reverse(s.wordBits)]

WriteCall(r) ==
    LET s == SortedBits(r)
    IN  [op |-> "write", words |-> WriteArgs(r.words), dwords |-> WriteArgs(r.dwords),
         bits |-> s.bits, wordBits |-> s.wordBits]

-----------------------------------------------------------------------------
(* What the job brings back, or makes of the devices. *)

WordVals(c)   == [i \in DOMAIN c.words |-> words[c.words[i]]]
DwordVals(c)  == [i \in DOMAIN c.dwords |-> <<words[c.dwords[i]], words[c.dwords[i] + 1]>>]
NativeVals(c) == [i \in DOMAIN c.bits |-> bits[c.bits[i]]]

SetWord(ws, e)  == [ws EXCEPT ![e.addr] = e.value]
SetDword(ws, e) == [ws EXCEPT ![e.addr] = e.value[1], ![e.addr + 1] = e.value[2]]

SetBit(ws, e) == [ws EXCEPT ![e.addr] = IF e.value THEN @ \cup {e.bit} ELSE @ \ {e.bit}]
SetNative(bs, e) == [bs EXCEPT ![e.addr] = e.value]

WordsAfter(c) ==
    FoldLeft(SetBit, FoldLeft(SetDword, FoldLeft(SetWord, words, c.words), c.dwords), c.wordBits)
BitsAfter(c) == FoldLeft(SetNative, bits, c.bits)

(* Mutant: the words before the folded ones are not skipped. *)
FoldedWord_NotSkipping(r, vals, src) == vals[src.idx + 1]

(* The word folded in for a bit entry comes after the words asked for. *)
FoldedWord(r, vals, src) == vals[Len(r.words) + src.idx + 1]

(* The answer to a read, from the values that came back. *)
ReadAnswer(r, c) ==
    LET vals == WordVals(c)
        srcs == BitSources(r).srcs
    IN  [status |-> 200,
         words  |-> SubSeq(vals, 1, Len(r.words)),
         dwords |-> DwordVals(c),
         bits   |-> [i \in DOMAIN srcs |->
                        IF srcs[i].native THEN NativeVals(c)[srcs[i].idx + 1]
                        ELSE srcs[i].offset \in FoldedWord(r, vals, srcs[i])]]

-----------------------------------------------------------------------------
Init ==
    /\ \E m \in Memories : words = m.words /\ bits = m.bits
    /\ request = None
    /\ call = NoCall
    /\ answer = NoAnswer

HandleRandom(r) ==
    /\ request = None
    /\ request' = r
    /\ IF Malformed(r) \/ TooMany(r)
       THEN answer' = [NoAnswer EXCEPT !.status = 400] /\ UNCHANGED call
       ELSE /\ call' = IF r.op = "read" THEN ReadCall(r) ELSE WriteCall(r)
            /\ UNCHANGED answer
    /\ UNCHANGED memory

RandomRead ==
    /\ call.op = "read"
    /\ call' = NoCall
    /\ answer' = ReadAnswer(request, call)
    /\ UNCHANGED <<memory, request>>

RandomWrite ==
    /\ call.op = "write"
    /\ call' = NoCall
    /\ words' = WordsAfter(call)
    /\ bits' = BitsAfter(call)
    /\ answer' = [NoAnswer EXCEPT !.status = 200]
    /\ UNCHANGED request

(* While the request waits in the queue, the PLC goes on. *)
MemoryChanges ==
    /\ call # NoCall
    /\ \E m \in Memories : words' = m.words /\ bits' = m.bits
    /\ UNCHANGED <<request, call, answer>>

Next == (\E r \in Requests : HandleRandom(r)) \/ RandomRead \/ RandomWrite \/ MemoryChanges

Spec == Init /\ [][Next]_vars

-----------------------------------------------------------------------------
(* Properties. *)

(* Every entry of a read is answered, in its place, with what its address  *)
(* held when the job ran, however word bits and bit devices are mixed, and *)
(* no K address is read as the device it is based on                       *)
(* (handler.go:955-1017; README.md:268, 327).                              *)
AnsweredInRequestOrder ==
    request.op = "read" /\ answer.status = 200 =>
        /\ answer.words = [i \in DOMAIN request.words |-> words[request.words[i].addr]]
        /\ answer.dwords = [i \in DOMAIN request.dwords |->
               <<words[request.dwords[i].addr], words[request.dwords[i].addr + 1]>>]
        /\ answer.bits = [i \in DOMAIN request.bits |->
               LET a == request.bits[i]
               IN  IF IsWordBit(a) THEN a.bit \in words[a.addr] ELSE bits[a.addr]]
        /\ \A e \in ToSet(request.words) \cup ToSet(request.dwords) \cup ToSet(request.bits) : ~IsK(e)

(* What an entry of a write says, alone.                                   *)
PutWord(m, e)  == [m EXCEPT !.words[e.at.addr] = e.value]
PutDword(m, e) == [m EXCEPT !.words[e.at.addr] = e.value[1], !.words[e.at.addr + 1] = e.value[2]]
PutBit(m, e)   ==
    IF IsWordBit(e.at)
    THEN [m EXCEPT !.words[e.at.addr] = IF e.value THEN @ \cup {e.at.bit} ELSE @ \ {e.at.bit}]
    ELSE [m EXCEPT !.bits[e.at.addr] = e.value]

AsAsked(r, m) ==
    FoldLeft(PutBit, FoldLeft(PutDword, FoldLeft(PutWord, m, r.words), r.dwords), r.bits)

(* A write does what its three arrays say one entry after another, although*)
(* its bits are sorted into two kinds first: of two entries for the same   *)
(* bit the later one wins (handler.go:1118-1144).                          *)
SortingKeepsMeaning ==
    [][request.op = "write" /\ answer.status = 0 /\ answer'.status = 200 =>
          [words |-> words', bits |-> bits'] =
              AsAsked(request, [words |-> words, bits |-> bits])]_vars

(* openapi.yaml:547: "Maximum 255 addresses per category", and 16 of them  *)
(* bit devices: a read within these limits is not refused.                 *)
DocumentedLimitsSuffice ==
    request.op = "read" /\ answer.status = 400 =>
        \/ Malformed(request)
        \/ \E a \in {request.words, request.dwords, request.bits} : Len(a) > maxRandomCount
        \/ Len(BitSources(request).natives) > maxRandomBitReads
=============================================================================
