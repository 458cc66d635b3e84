----------------------------- MODULE DeviceOps ------------------------------
(***************************************************************************)
(* What the operations of PLCQueue (queue.go) do to the memory of the PLC. *)
(* An operation calls exec with functions that send commands; exec runs    *)
(* them as SerialExecutor says (WorkQueue implements it), so that other    *)
(* requests move whenever no function of this one is running.  Between any *)
(* two commands the ladder program of the PLC runs, and any command may    *)
(* fail, with or without having been carried out.                          *)
(*                                                                         *)
(* A word is a function from its bits to BOOLEAN; a dword is two words.  A *)
(* request is [kind, words, bits, wordBits]: its entries say which word or *)
(* bit device they are on, or on which bit of which word, and those of a   *)
(* write carry a value.  The requests of /write are the writes of one      *)
(* array, WriteWordBits the write of one word's wordBits.                  *)
(***************************************************************************)
EXTENDS Naturals, SequencesExt

CONSTANTS Word, Bit, BitDevice,
          Ladder,     \* the words and bit devices the ladder program writes
          Requests,   \* the requests
          Body        \* Body[r]: what request r asks for

None == "none"

Contents == [Bit -> BOOLEAN]

WriteBodies == [kind     : {"write"},
                words    : Seq([on : Word, value : Contents]),
                bits     : Seq([on : BitDevice, value : BOOLEAN]),
                wordBits : Seq([word : Word, on : Bit, value : BOOLEAN])]
ReadBodies  == [kind : {"read"}, words : Seq([on : Word]), bits : Seq([on : BitDevice])]

ASSUME OpsAssumption == /\ Ladder \subseteq Word \cup BitDevice
                        /\ \A r \in Requests : Body[r] \in WriteBodies \/ Body[r] \in ReadBodies

VARIABLES
    words,     \* words[w]: the contents of word w
    bits,      \* bits[d]: whether bit device d is on
    effect,    \* effect[j]: what became of job j, see SerialExecutor
    sent,      \* sent[r]: how many commands of r's running job have succeeded
    held,      \* held[r]: words[0] of a read-modify-write
    got,       \* got[r]: what a read has been given so far
    before     \* before[r]: memory when r's first job began

memory == <<words, bits>>
locals == <<held, got, before>>
vars   == <<memory, effect, sent, locals>>

-----------------------------------------------------------------------------
(* The commands of an operation. *)

Command(c, on) == <<[cmd |-> c, on |-> on]>>

(* The words of word-bit entries, each once, in the order of their first   *)
(* entries; and the entries of one word.                                   *)
GroupOrder(wordBits) ==
    LET order[i \in 0..Len(wordBits)] ==
            IF i = 0 THEN <<>>
            ELSE IF wordBits[i].word \in ToSet(order[i - 1]) THEN order[i - 1]
            ELSE Append(order[i - 1], wordBits[i].word)
    IN  order[Len(wordBits)]

(* Mutant: the entries are not split by word. *)
Group_All(wordBits, w) == DOMAIN wordBits

Group(wordBits, w) == {i \in DOMAIN wordBits : wordBits[i].word = w}

(* Mutant: all words are read before the first is written. *)
ReadModifyWrites_ReadsFirst(order) ==
    [j \in 1..2 * Len(order) |->
        IF j <= Len(order) THEN [cmd |-> "ReadWords", on |-> order[j]]
        ELSE [cmd |-> "WriteWords", on |-> order[j - Len(order)]]]

ReadModifyWrites(order) ==
    [j \in 1..2 * Len(order) |->
        [cmd |-> IF j % 2 = 1 THEN "ReadWords" ELSE "WriteWords", on |-> order[(j + 1) \div 2]]]

(* Mutant: the word bits are written before the words. *)
WritePlan_WordBitsFirst(b) ==
    ReadModifyWrites(GroupOrder(b.wordBits))
    \o (IF b.words = <<>> THEN <<>> ELSE Command("RandomWrite", None))
    \o (IF b.bits = <<>> THEN <<>> ELSE Command("RandomWriteBits", None))

WritePlan(b) ==
    (IF b.words = <<>> THEN <<>> ELSE Command("RandomWrite", None))
    \o (IF b.bits = <<>> THEN <<>> ELSE Command("RandomWriteBits", None))
    \o ReadModifyWrites(GroupOrder(b.wordBits))

ReadPlan(b) ==
    (IF b.words = <<>> THEN <<>> ELSE Command("RandomRead", None))
    \o [i \in 1..Len(b.bits) |-> [cmd |-> "ReadBits", on |-> b.bits[i].on]]

PlanOf(b) == IF b.kind = "write" THEN WritePlan(b) ELSE ReadPlan(b)

(* Mutant: a read of several devices calls exec for each of its commands. *)
ExecCalls_ReadsApart(b) ==
    IF b.kind = "write" THEN <<PlanOf(b)>> ELSE [i \in DOMAIN PlanOf(b) |-> <<PlanOf(b)[i]>>]

(* The commands sent by the function of each call of exec that the         *)
(* operation makes: it makes one, and that function sends them all.        *)
ExecCalls(b) == <<PlanOf(b)>>

Calls == [r \in Requests |-> ExecCalls(Body[r])]

(* Job <<r, k>> is the k-th call of exec that the operation of r makes.    *)
Jobs == UNION {{r} \X DOMAIN Calls[r] : r \in Requests}

(* Nobody here looks at the answers.  That a request may also be refused   *)
(* is left out: it is as if it had never come.                             *)
Executor == INSTANCE SerialExecutor WITH Callers <- Jobs, CtxErrs <- {},
                                         answer <- [j \in Jobs |-> "none"]

(* What m becomes when the entries with the numbers in I are stored in it, *)
(* in order: the bits of a word, the words, or the bit devices.            *)
Store(m, entries, I) ==
    LET after[i \in 0..Len(entries)] ==
            IF i = 0 THEN m
            ELSE IF i \in I THEN [after[i - 1] EXCEPT ![entries[i].on] = entries[i].value]
            ELSE after[i - 1]
    IN  after[Len(entries)]

StoreAll(m, entries) == Store(m, entries, DOMAIN entries)

-----------------------------------------------------------------------------
NoAnswer   == [words |-> <<>>, bits |-> <<>>]
NoContents == [n \in Bit |-> FALSE]
NoMemory   == [words |-> [w \in Word |-> NoContents], bits |-> [d \in BitDevice |-> FALSE]]

Init ==
    /\ words \in [Word -> Contents]
    /\ bits \in [BitDevice -> BOOLEAN]
    /\ effect = [j \in Jobs |-> "pending"]
    /\ sent = [r \in Requests |-> 0]
    /\ held = [r \in Requests |-> NoContents]
    /\ got = [r \in Requests |-> NoAnswer]
    /\ before = [r \in Requests |-> NoMemory]

(* The worker begins a job; the operation asks for it when its earlier     *)
(* jobs have succeeded.                                                    *)
Start(r, k) ==
    /\ \A i \in 1..k - 1 : effect[<<r, i>>] = "ok"
    /\ Executor!Start(<<r, k>>)
    /\ before' = IF k = 1 THEN [before EXCEPT ![r] = [words |-> words, bits |-> bits]] ELSE before
    /\ UNCHANGED <<memory, sent, held, got>>

Running(r, k) == effect[<<r, k>>] = "running"

Sending(r, k, c) == /\ Running(r, k) /\ sent[r] < Len(Calls[r][k])
                    /\ Calls[r][k][sent[r] + 1].cmd = c

(* The effect a command that is carried out has in the PLC. *)
Carry(r, k) ==
    LET b  == Body[r]
        on == Calls[r][k][sent[r] + 1].on
    IN  \/ /\ Sending(r, k, "RandomWrite")
           /\ words' = StoreAll(words, b.words)
           /\ UNCHANGED bits
        \/ /\ Sending(r, k, "RandomWriteBits")
           /\ bits' = StoreAll(bits, b.bits)
           /\ UNCHANGED words
        \/ /\ Sending(r, k, "WriteWords")
           /\ words' = [words EXCEPT ![on] = Store(held[r], b.wordBits, Group(b.wordBits, on))]
           /\ UNCHANGED bits
        \/ /\ \/ Sending(r, k, "ReadWords") \/ Sending(r, k, "RandomRead")
              \/ Sending(r, k, "ReadBits")
           /\ UNCHANGED memory

(* The answer the command brings back. *)
Receive(r, k) ==
    LET on == Calls[r][k][sent[r] + 1].on
    IN  /\ held' = IF Sending(r, k, "ReadWords") THEN [held EXCEPT ![r] = words[on]] ELSE held
        /\ got' = CASE Sending(r, k, "RandomRead") ->
                         [got EXCEPT ![r].words = [i \in DOMAIN Body[r].words |->
                                                      words[Body[r].words[i].on]]]
                    [] Sending(r, k, "ReadBits") ->
                         [got EXCEPT ![r].bits = Append(@, bits[on])]
                    [] OTHER -> got

CommandDone(r, k) ==
    /\ Carry(r, k)
    /\ Receive(r, k)
    /\ sent' = [sent EXCEPT ![r] = @ + 1]
    /\ UNCHANGED <<effect, before>>

(* The operation returns; its variables are gone. *)
Return(r) ==
    /\ held' = [held EXCEPT ![r] = NoContents]
    /\ got' = [got EXCEPT ![r] = NoAnswer]
    /\ before' = [before EXCEPT ![r] = NoMemory]

JobOver(r, k, outcome) ==
    /\ Executor!Finish(<<r, k>>) /\ effect'[<<r, k>>] = outcome
    /\ sent' = [sent EXCEPT ![r] = 0]

(* A command fails, refused or unanswered, and the operation with it.      *)
CommandFailed(r, k) ==
    /\ Running(r, k) /\ sent[r] < Len(Calls[r][k])
    /\ Carry(r, k) \/ UNCHANGED memory
    /\ JobOver(r, k, "failed")
    /\ Return(r)

Finish(r, k) ==
    /\ Running(r, k) /\ sent[r] = Len(Calls[r][k])
    /\ JobOver(r, k, "ok")
    /\ IF k = Len(Calls[r]) THEN Return(r) ELSE UNCHANGED locals
    /\ UNCHANGED memory

(* The ladder program writes one of its words or bit devices. *)
LadderWrites ==
    /\ \/ /\ \E w \in Ladder \cap Word, v \in Contents : words' = [words EXCEPT ![w] = v]
          /\ UNCHANGED bits
       \/ /\ \E d \in Ladder \cap BitDevice, v \in BOOLEAN : bits' = [bits EXCEPT ![d] = v]
          /\ UNCHANGED words
    /\ UNCHANGED <<effect, sent, locals>>

Operation(r) == \E k \in DOMAIN Calls[r] :
                   Start(r, k) \/ CommandDone(r, k) \/ CommandFailed(r, k) \/ Finish(r, k)

Next == (\E r \in Requests : Operation(r)) \/ LadderWrites

Spec == Init /\ [][Next]_vars

-----------------------------------------------------------------------------
(* Properties. *)

(* What is stored where the last of the entries numbered mine says so. *)
LastOf(entries, mine, otherwise) ==
    IF mine = {} THEN otherwise ELSE entries[Max(mine)].value

(* The contents the words array of b asks for where m was before, and then *)
(* the wordBits entries: bit by bit the last entry that names it wins,     *)
(* whatever else it names; and the bit devices.                            *)
AsWritten(b, m, w) ==
    LastOf(b.words, {i \in DOMAIN b.words : b.words[i].on = w}, m.words[w])
Expected(b, m, w) ==
    [n \in Bit |->
        LastOf(b.wordBits, {i \in DOMAIN b.wordBits : b.wordBits[i].word = w /\ b.wordBits[i].on = n},
               AsWritten(b, m, w)[n])]
ExpectedOn(b, m, d) ==
    LastOf(b.bits, {i \in DOMAIN b.bits : b.bits[i].on = d}, m.bits[d])

(* What the ladder program leaves alone. *)
QuietWords   == Word \ Ladder
QuietDevices == BitDevice \ Ladder

(* The operation of r returns, without an error or with one. *)
Succeeds(r) == LET last == <<r, Len(Calls[r])>>
               IN  effect[last] = "running" /\ effect'[last] = "ok"
Fails(r) == \E k \in DOMAIN Calls[r] : Running(r, k) /\ effect'[<<r, k>>] = "failed"

(* A write that succeeds has set everything it names, to the last value it *)
(* gives, and nothing else, however its entries share words, except where  *)
(* the ladder program writes too (queue.go:501-563; README.md:269).        *)
SuccessIsExact ==
    [][\A r \in Requests : Body[r].kind = "write" /\ Succeeds(r) =>
          /\ \A w \in QuietWords : words'[w] = Expected(Body[r], before[r], w)
          /\ \A d \in QuietDevices : bits'[d] = ExpectedOn(Body[r], before[r], d)]_vars

(* A write that fails has been carried out up to some command: the words,  *)
(* then the bit devices, then the word bits word by word, and each word    *)
(* that was read and written holds all of its bits or none                 *)
(* (queue.go:512-522, 546-561).                                            *)
FailureIsPrefix ==
    [][\A r \in Requests : Body[r].kind = "write" /\ Fails(r) =>
          LET b == Body[r]
              m == before[r]
              order == GroupOrder(b.wordBits)
          IN  \E k \in 0..2 + Len(order) :
                /\ \A w \in QuietWords :
                      words'[w] = IF k = 0 THEN m.words[w]
                                  ELSE IF w \in {order[i] : i \in 1..k - 2} THEN Expected(b, m, w)
                                  ELSE AsWritten(b, m, w)
                /\ \A d \in QuietDevices :
                      bits'[d] = IF k <= 1 THEN m.bits[d] ELSE ExpectedOn(b, m, d)]_vars

(* A read of several commands sees the memory of one instant, wherever the *)
(* ladder program does not write: no write of another request falls        *)
(* between its commands, because all of them are sent by the function of   *)
(* one call of exec (queue.go:450-482).                                    *)
ReadsOneInstant ==
    [][\A r \in Requests : Body[r].kind = "read" /\ Succeeds(r) =>
          LET b == Body[r]
              a == got[r]
          IN  /\ Len(a.words) = Len(b.words) /\ Len(a.bits) = Len(b.bits)
              /\ \A i \in DOMAIN a.words : b.words[i].on \in QuietWords =>
                    a.words[i] = before[r].words[b.words[i].on]
              /\ \A i \in DOMAIN a.bits : b.bits[i].on \in QuietDevices =>
                    a.bits[i] = before[r].bits[b.bits[i].on]]_vars

Named(b, w, n) == \/ \E i \in DOMAIN b.words : b.words[i].on = w
                  \/ \E i \in DOMAIN b.wordBits : b.wordBits[i].word = w /\ b.wordBits[i].on = n

(* The read-modify-write of w that r sends next is about to write back     *)
(* what is no longer there.                                                *)
Racing(r, k, w) == /\ Sending(r, k, "WriteWords") /\ Calls[r][k][sent[r] + 1].on = w
                   /\ w \in Ladder /\ words[w] # held[r]

(* A bit that a request does not name is changed by it only when the       *)
(* ladder program has written the word since it was read: what the ladder  *)
(* wrote before the read, in a word that is not read, or in a bit device,  *)
(* is never lost, whether the request succeeds or fails                    *)
(* (queue.go:512-522, 546-561).                                            *)
OnlyRacingWritesLost ==
    [][<<effect', sent'>> # <<effect, sent>> =>
          /\ \A w \in Word, n \in Bit : words'[w][n] # words[w][n] =>
                \E r \in Requests : \E k \in DOMAIN Calls[r] :
                   Running(r, k) /\ (Named(Body[r], w, n) \/ Racing(r, k, w))
          /\ \A d \in BitDevice : bits'[d] # bits[d] =>
                \E r \in Requests : \E k \in DOMAIN Calls[r] :
                   Running(r, k) /\ \E i \in DOMAIN Body[r].bits : Body[r].bits[i].on = d]_vars
=============================================================================
