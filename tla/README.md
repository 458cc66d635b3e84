# gomc-rest: models, checks and proofs

gomc-rest is an HTTP gateway to a Mitsubishi PLC. Every PLC operation goes through a bounded
queue to one worker goroutine, which runs it on one connection. This directory models the program
in TLA+, checks the models with TLC and proves with TLAPS, for instances of any size, all that the
passing runs check of safety: the queue and its refinement, the client, the process, the operations on
the PLC's memory, the requests, the conversions of values and addresses, the counters, the logs and
the configuration. Liveness is checked with TLC alone.

    tlc -config WorkQueue_safety.cfg MCCallOrder     one run (the configs name the instances)
    tlapm WorkQueueProofs.tla                        one module of proofs; the others are
                                                     GatewayProofs, RequestsProofs, DeviceOpsProofs,
                                                     ReadWriteProofs, PartsProofs, LoopTheorems and
                                                     FoldTheorems

## The system

| part | source | state | operations |
|---|---|---|---|
| work queue | queue.go 14-151 | read-write lock, `closed`, channel `jobs`, one result channel per job, channels `done`, `workerDone` | `Do`, `Shutdown`, `run` (one goroutine) |
| PLC client | plc.go | mutex, `conn`, counters | `initialConnect`, `do`, `doReset`, `isConnectedSafe`, `close` |
| PLC operations | queue.go 153-563 | the PLC's memory (outside) | 15 methods of `PLCQueue`, each one job |
| metrics | metrics.go, queue.go 165-179, 565-601 | atomic counters, a ring under a mutex | `recordLatency`, `exec`, `Metrics` |
| process | main.go | where the main goroutine is, the HTTP server, the shutdown context | connect, serve, drain, stop, close |
| HTTP handlers | handler.go | none of their own | the routes of main.go 57-71, with the conversions between JSON and PLC values |
| token check, gates | auth.go, handler.go 151-182 | the configuration | what every request passes before its handler does anything |
| device addresses | device.go | tables | `parseAddr` |
| configuration | config.go, plc.go 88-100 | none; its outcome is set once | `parseConfig` |
| logging | logging.go, handler.go 38-112, main.go 33-51 | levels, a holder in each request's context | a tee of two handlers, state events, the entries of operations and requests |
| version, API description | version.go, openapi.yaml | none | constant answers |

How they interact. A handler goroutine checks its request and calls a `PLCQueue` method. The method
calls `exec`, which counts and calls `WorkQueue.Do` with a closure; the worker runs the closure,
which calls `PLCClient.do` with an operation; `do` dials if it must and runs the operation with the
mutex held. `/health` alone goes to the client directly (`isConnectedSafe`). The main goroutine
connects through the queue before the routes exist, and on a signal drains the HTTP server, shuts
the queue down, both within one context of five seconds, and closes the client whatever came of it.

What is hard here:

- the race of `Do` with `Shutdown`: the closed check and the send are one critical section of a
  read-write lock that the worker takes as well, and a waiting writer bars new readers;
- channels whose cases are ready together: `select` picks at random between a result and an ended
  context, between `done` and a job;
- contexts that end at any moment, before, in or after the queue, and results nobody awaits any more;
- a connection that fails under an operation while a probe or the shutdown waits for its mutex;
- a shutdown that runs out of time at any point;
- requests of several commands, any of which can fail after those before it took effect;
- counters read one at a time while others add to them;
- values whose width and sign are checked, truncated and extended in separate places, for words,
  double words and K addresses;
- entries of a request that are split by kind, sent as different commands and put together again;
- one error classified in three places, and an answer that decides whether a client tries again;
- a write sent after another that was canceled but may still be on its way;
- settings that come from flags, variables and defaults, where protection may be switched off by mistake;
- records that must reach a log file its level would keep them out of.

What makes each part correct: the queue loses no accepted call, runs no refused one, runs one at a
time, answers truthfully, and stops; the client has exactly one socket or none, never uses a dead
one, is never left locked; the process serializes the wire and leaves nothing open; an operation
does what it says or a prefix of it; what a route writes is what the same route reads; nothing runs
that the configuration forbids, and the answer, the counters and the logs agree with what happened;
an address and a command line mean what they say. The hazards behind
these properties are listed, with their lines, in PROJECT.json.

## The modules

**SerialExecutor** is what a caller may rely on, without queue, lock or goroutine: each call has an
effect that is none, pending, running, ok, failed or never; at most one runs; an answer `ok` or
`failed` is that of the effect, `busy` and `closed` mean that there is and will be none, a context
error says nothing. It is the abstract specification of the queue.

**WorkQueue** models queue.go 31-151. A caller is one goroutine calling `Do` (`pc`), a stopper one
calling `Shutdown` (`spc`), `wpc` is the worker in `run`. A step is what a goroutine does between
two points where another can tell the difference: lock, closed check, `select` with its ready cases,
`select` on the result, and for the worker: take, `isClosed`, the context check with the start of
`execute`, its end, `finishJob`, each round of the drain. `readers` and `writerWaiting` are the
`sync.RWMutex` with writer preference, `once` is `stopOnce`. `done` is `closed`: they are set under
the lock in one critical section; the worker may see `done` closed before the unlock, which
differs from the model in nothing anyone can observe. The refinement mapping `Effect` reads the effect of a
call off `exec`, `jobs`, `job` and `pc`.

**CallOrder** watches WorkQueue and remembers for each call which others had returned when it began:
those its client may have known about. It adds a history variable and no step.

**PLCClient** models plc.go. Every method call is a goroutine; a step is taking the mutex up to the
dial or the operation, the end of a dial, the end of an operation with what `do` or `doReset` makes
of its error. A socket is named by the call that dialled it, so `OneSocket` sees a leak. A failed
dial leaves `conn` alone, as connect does (it assigns only on success).

**Gateway** composes the two and adds main.go. A worker executing the job of `c` takes the steps of
client call `c`; probes and main's close are client calls of goroutines of their own. The close is
two steps, its begin and the close itself under the mutex, and the end of the process is another:
after a Shutdown that ran out of time the worker may take the mutex behind the close and dial again
before main returns, and it does in the instance. `CleanExitLeavesNoSocket` says that it does not
after a Shutdown in time, from the close to the end of the process. net/http is external: `Server.Shutdown` returns when no handler is active or its context ends. The run of
`ListenAndServe` may fail, and `os.Exit` then stops everything. `DrivesClient` says that the composed system takes no step that the
client's own specification `ClientNext` does not allow: the assumption `Connected` under which
`OneSocket` was checked there is met.

**DeviceOps** models what the operations of queue.go 200-563 do to the memory of the PLC: commands
that take effect one by one, any of which fails with or without effect, and a ladder program that
writes words and bit devices between them. A word is a function from its bits to their values. A
request is a list of entries for words, bit devices and word bits; `PlanOf` is the list of the
commands it becomes, with the grouping of `writeWordBits` as it is written (first occurrence order,
one read and one write per word), and `ExecCalls` says which of them the function of each call of
`exec` sends. Each such call is a job, and jobs begin and end as SerialExecutor says, of which the
module is an instance (`Executor`) and which WorkQueue is proved to implement: the jobs of other
requests run between any two jobs of an operation. That a read of several commands sees one instant
rests on all of them being sent by one call; the mutant of `ReadsOneInstant` has one call for each.
`sent` says how many commands of the running job are over. `Store` is a loop over entries: each sets what it names. The MC protocol's
commands are external: entries of one random write take effect in order. The code cannot keep the
ladder from writing between the read and the write of a read-modify-write; `OnlyRacingWritesLost`
says that this is all it can lose: a ladder's write outlives every request that neither names the bit
nor was between its read and its write of that word.

**Metrics** models the counters: `exec` as separate additions, a scrape as separate loads. The ring
and its position are one step because they are guarded. `plcMetrics` is the same code; what it
counts is checked in PLCClient (`CountersExact`).

**ReadWrite** models `/read` and `/write` (handler.go 344-764 and what they call in queue.go): what
is refused, the conversions (`SignExtend`, `FitsInBits`, `WordsOf`, `Pack`, `SetWordBits`) and what
changes in the PLC. A request is one step, since the queue runs its one command or its
read-modify-write as one job, and DeviceOps takes that apart. An address is the result of
`parseAddr`; the word has `WordBits` bits, of which a nibble is a quarter and a double word twice as
many. `Number` is the loop that puts bits together, of `ReadBitsAsWord` and of the words a write of bits
sends; `Pow2` are the powers of two, by doubling. Every refusal is a 400 without effect, so their order is left out; so are the gates before
them (method, read-only mode), the syntax of query and body and the limit on the body's length. A
device beyond the end is refused by the PLC, which answers 502.

**RandomAccess** models `/random-read` and `/random-write` (handler.go 895-1145): how entries become
the arguments of one call (word bits folded into the words of the random read, bit devices read one
by one, bits of a write sorted into two lists), and how the values that come back become the
answer. The memory may change while the job waits. Its commands succeed here and fail in DeviceOps.

**Requests** follows a request through the middleware to its line in the log: the gates in their
order (token, mux, method, read-only, remote control, input), the call of the queue, the operation,
and its error as exec, logPLCOp and writePLCErr each see it. The queue is an instance of
SerialExecutor, of which it uses the actions; WorkQueue is checked to implement it. An error is the
set of what `errors.Is` and `errors.As` find in its chain, so that the order of the cases of a
`switch` matters as it does in the code. The errors a connection can return are an assumption:
in Go's net package a dial that timed out is `context.DeadlineExceeded` and a read or write that timed
out is not, and gomcprotocol, which is not in the repository, may wrap or hide either. The
latency holder is written by the worker and read by the request's log entry without anything between
them but an atomic, and the handler may be gone first. The remote routes are here with all they do:
a gate, one command, an outcome.

**Addresses** is `parseAddr` (device.go) over sequences of characters, with the tables as they are and
numbers up to 255 standing for those up to the largest integer. `Cuts` is the reference: every way to cut the
text into K prefix, device, number and bit that the README's grammar allows; `Readings` are the
addresses they spell.

**Config** is `parseConfig` (config.go): the flag package's reading of the words of the command line,
what each setting is taken from, and what is refused. Numbers, durations, booleans and bare ports
stand for themselves by tables of the texts an instance uses. The package stops at the first word
that is no flag and nothing looks at the rest. `Asked` is what a command line asks for, the flags
behind such words included; `ReadToTheEnd` says that the package got there. `StartsAsAsked` promises
of the lines where it did that the flags are in force, and `FlagsTakePriority`, which promises it of every
command line, is violated (see below). That the usage does not show the token
is said of what is shown: it is the same as with no token in the environment.

**Logging** is the chain of slog handlers (logging.go 48-142): the level is asked for by the logger,
the tee and stateEventHandler, each write may fail, and goroutines interleave between the two writes.

**LogQuery** is the cutting of queries (handler.go 38-112), with a text represented by the
positions its characters have in the uncut text. `LoggedStandsForBody` says exactly where the dots
are and where they are missing; `CutEndsWithDots`, that every cut has them, is violated (see below).

The MC modules hold the instances. Operators named `X_Y` with the comment "Mutant" are plausible
bugs of the definition `X`; no specification uses them, they document which bug each property finds
(PROJECT.json, "mutants").

## The runs

| run | module | instance | what it shows |
|---|---|---|---|
| WorkQueue_safety | MCCallOrder | 3 calls (one with a background context, as the initial connect), 1 Shutdown, capacity 1 | `TypeOK`, `NoStrandedJob`, `RefusedNeverRuns`, `AnswerMatchesExecution`, `QuietAfterCleanShutdown`, `NoEffectAfterSuccessor`, and the refinement `ImplementsSerialExecutor` |
| WorkQueue_liveness | MCWorkQueue | 2 calls, 2 Shutdowns, capacity 1 | `EveryCallReturns`, `EveryAcceptedCallSettles`, `LeftInQueueNeverRuns` |
| PLCClient | MCPLCClient | each method once, `do` twice | `ClientTypeOK`, `OneSocket`, `WireExclusive`, `CountersExact`, `NoOpOnDeadSocket`, `EveryMethodReturns` |
| Gateway_safety | MCGateway | 2 requests (an operation, a reset), 1 probe, 1 signal | `WireSerialized`, `CleanExitLeavesNoSocket`, `ClosedOnlyAfterTimeout`, `DrivesClient` |
| Gateway_liveness | MCGateway | 1 request, 1 probe, 1 signal | `EveryRequestAnswered`, `SignalEndsProcess` |
| DeviceOps | MCDeviceOps | 2 writes and a read, 3 words of 2 bits, 2 bit devices, the ladder on one of each, all initial memories | `SuccessIsExact`, `FailureIsPrefix`, `ReadsOneInstant`, `OnlyRacingWritesLost` |
| Handlers | MCHandlers | either of two views of a request, see the next table | `OnlyPermittedRuns`, `AnswerTellsEffect`, `RecordsAgree`, `RoundTrips`, `OnlyWhatIsNamed` |
| Requests_timeout | MCRequests | the first view of Handlers | violated, see below |
| Parts | MCParts | each of six parts by itself, see the next table | `ReadsAsWritten`, `StartsAsAsked`, `LoggedStandsForBody`, `EachSinkGetsItsRecords`, `BusySeenWithinRequests`, `RecentIsTail`, `IdleCountersAgree`, `AnsweredInRequestOrder`, `SortingKeepsMeaning` |
| RandomAccess_limits | MCRandomAccess | the random requests of Parts | violated, see below |
| Parts_strayword | MCParts | the same as Parts | violated, see below |
| Parts_dots | MCParts | the same as Parts | violated, see below |

The parts that need none of the others share a run, and so do the two views of a request: the
behaviours are those of one part each, chosen at the start.

| part | instance | what it shows |
|---|---|---|
| Requests (Handlers) | every request (path, method, token, input) beside a read or a reset, every configuration | `OnlyPermittedRuns`, `AnswerTellsEffect`, `RecordsAgree` |
| ReadWrite (Handlers) | words of 4 bits, 7 of them, 10 bit devices, 3 initial memories, one write and any reads | `RoundTrips`, `OnlyWhatIsNamed` |
| RandomAccess | up to 3 entries per array (4 bits in reads), 3 words of 2 bits, 2 bit devices | `AnsweredInRequestOrder`, `SortingKeepsMeaning` |
| Addresses | every text of up to 4 of 15 characters, and every device with 7 prefixes and 15 tails | `ReadsAsWritten` |
| Config | up to 3 words of 16, 36 environments | `StartsAsAsked` |
| LogQuery | 3 keys with up to 2 addresses of up to 4 characters, a limit of 12 | `LoggedStandsForBody` |
| Logging | 2 goroutines, 2 records each, all levels, with and without a file | `EachSinkGetsItsRecords` |
| Metrics | 3 requests, a ring of 2 | `BusySeenWithinRequests`, `RecentIsTail`, `IdleCountersAgree` |

A property that says one thing about several cases is a conjunction with named parts: `RoundTrips`
of writing then reading and reading then writing, `RecordsAgree` of the status, the log entry and
the wire time of a request, `StartsAsAsked` of flags against words and variables, misspelt switches, the
connection dialled and the token in the usage. Type invariants are checked for the
queue and the client, where several modules rest on them; the other proof modules state their own
(`GatewayTypeOK`, `RequestsTypeOK`, `OpsTypeOK`, `LoggingTypeOK`, `MetricsTypeOK`).

Bounds. Capacity 1 with three callers has a job in the worker's hands, one in the channel and one
refused at the same time; a larger channel adds only more of the middle. Two Shutdowns are the
first instance in which `stopOnce` matters. Two operations, a reset, a probe and a close are the
least with which a call can find the socket another found dead while a third waits. A ring of two
wraps with three requests. Two bits per word are enough to clobber one with the other; three words give two
groups that alternate and one word that the ladder writes, as it writes one of the two bit devices. Words of
four bits are the least that have a nibble, and the values written lie one below, at and above every
power of two up to the double word, of both signs; seven words let a write of three double words
exceed the limit on values before it exceeds the devices. One write per behaviour is enough because its properties relate
one request to the memory, which starts in three patterns. In
RandomAccess, three entries per array reach the limit, and every mix of two kinds of bit entries
occurs in every order. With three calls, one runs or
waits, canceled and answered, while the next begins, which is what `NoEffectAfterSuccessor` is about. In Requests, a second request is enough to fill or close the
queue for the first and to stand in its place at the worker. In Addresses, the characters are those that devices, numbers, signs and suffixes share,
and four of them make the shortest text of every form but the longest, which the second set has. In
Config, three words are a switch, a stray value and a flag behind it. In LogQuery the limit falls in
every piece, with every number of characters left. Contexts end with one error value: no request context of this program has a
deadline, only the shutdown context, for which it makes no difference.

Fairness. Weak fairness on each goroutine once it is started: the Go scheduler runs what can run,
and a goroutine that waits for a lock or a channel is woken. `execute`, a dial and an
operation end, because the connection has a timeout (plc.go 75); the shutdown context ends after its five
seconds. Nothing forces a request, a cancellation, a Shutdown or a signal. The read-write lock needs
no strong fairness: a caller passes it once, and the one writer is never overtaken because a
waiting writer bars readers. The mutex of the client needs none in these
instances, because every call passes once; under an endless stream of operations
`sync.Mutex` prevents starvation by its starvation mode, which is not modelled.

Deadlock is checked, except in PLCClient and Gateway_liveness, where the system stops when every
call has returned or the process has ended, as liveness properties of the same runs show, and in
Handlers, Requests_timeout and the runs of MCParts, where a behaviour ends with what it is about:
one call, or every request answered and every record written.

## What the violated runs show

- **RandomAccess_limits.** openapi.yaml 547 and README.md 268 allow 255 entries in each array of a
  random read. The handler folds a word into the read for every word bit and refuses more than 255
  of both together (handler.go 992), so 200 words and 100 word bits, each within its limit, are refused.
- **Requests_timeout.** openapi.yaml 144 describes the 504 as the PLC not responding within the
  configured timeout. That timeout belongs to the connection, whose I/O timeout is not
  `context.DeadlineExceeded` (handler.go 196), and no request has a deadline: the answer is 503
  `connection_error`. 504 is left to a dial that timed out.
- **Parts_strayword.** README.md 173 says that flags take priority over variables, 199 that the flag of
  the token wins. `-readonly true -token secret` ends the flags at `true`, nothing looks at what is
  left (config.go 72), and the environment's token, or none, is in force; `true -readonly` starts a
  server that writes. A stray word is not refused as a misspelt
  switch is.
- **Parts_dots.** The comment at handler.go 76 says that what does not fit is cut with dots, and the
  message of the test at handler_test.go 1846 that a query that is cut ends with them. It does not
  where three characters or fewer were left, or none (handler.go 87-92); the test's addresses leave
  more.

Met while modelling, in the models as in the code, without a run of their own:

- README.md 351 says that handlers do not call the PLC client directly; `handleHealth` does
  (handler.go 343, plc.go 118-122), and waits for the mutex while a dial or an operation holds it.
- openapi.yaml 313 calls `client_avg_latency_ms` the average latency; requests under way are in the
  divisor but not in the sum (queue.go 166, 173, 582), so it can lie below every latency measured.
- README.md 333 says that every error response has a code in its body; a path that does not exist is
  answered by the mux itself (main.go 57), with plain text.

## The proofs

Everything here holds for every value of the constants that satisfies the assumption of the module
(`QueueAssumption`, `ClientAssumption`, `GatewayAssumption`, `OpsAssumption`, `RequestsAssumption`,
`MetricsAssumption`, ...): any number of goroutines, requests, entries and devices, any capacity, any lengths.
`ReadWriteAssumption` asks of addresses what `parseAddr` returns, which `ParsedAddressesAreAddresses`
proves of it, of a word that it has a whole number of nibbles, and of the limits that a read may
be as long as a write (both are 1024) and no shorter than a word has bits (16).
TLC evaluates the assumptions on its instances. An invariant a run checks is seldom inductive; for
each the list below says what had to be added. Each proof of invariance goes by the actions, with a
lemma for each that disturbs much.

| module | theorem | property |
|---|---|---|
| WorkQueueProofs | TypeCorrect, NothingStranded, RefusalIsFinal, AnswersAreTrue | `TypeOK`, `NoStrandedJob`, `RefusedNeverRuns`, `AnswerMatchesExecution` |
| | QuietAfterShutdown, LeftBehindNeverRuns | `QuietAfterCleanShutdown`, `LeftInQueueNeverRuns` |
| | Refinement | `ImplementsSerialExecutor` |
| | AnsweredCallsStaySettled | `NoEffectAfterSuccessor` |
| GatewayProofs | ClientTypeCorrect, NoSocketLeaks, OneOnTheWire, DeadSocketsStayUnused, CountersAgree | `ClientTypeOK`, `OneSocket`, `WireExclusive`, `NoOpOnDeadSocket`, `CountersExact` |
| | WireIsSerialized, ExitLeavesNoSocket, DrainRefusesNobody, ProcessDrivesClient | `WireSerialized`, `CleanExitLeavesNoSocket`, `ClosedOnlyAfterTimeout`, `DrivesClient` |
| | ComponentsHold | the process implements the queue and the client |
| RequestsProofs | NothingForbiddenRuns, AnswersTellEffect, RecordsTrue | `OnlyPermittedRuns`, `AnswerTellsEffect`, `RecordsAgree` |
| DeviceOpsProofs | WritesAreExact, FailedWritesArePrefixes, ReadsSeeOneInstant, LadderWritesSurvive | `SuccessIsExact`, `FailureIsPrefix`, `ReadsOneInstant`, `OnlyRacingWritesLost` |
| ReadWriteProofs | ReadingInvertsWriting, WritesChangeOnlyWhatTheyName | `RoundTrips`, `OnlyWhatIsNamed` |
| | ReadWriteTypes | the memory and the answers have their types |
| PartsProofs | RecordsReachTheirSinks | `EachSinkGetsItsRecords` |
| | ScrapeCountsFit, RingIsRecent, CountsAddUp | `BusySeenWithinRequests`, `RecentIsTail`, `IdleCountersAgree` |
| | ReadsAnsweredInOrder, WritesKeepTheirOrder | `AnsweredInRequestOrder`, `SortingKeepsMeaning` |
| | LogsStandForBodies | `LoggedStandsForBody` |
| | StartsAreAsAsked | `StartsAsAsked` |
| | AddressesReadAsWritten | `ReadsAsWritten` |
| | ParsedAddressesAreAddresses | what `parseAddr` returns is an address as the other modules take it |

**The queue.** Beside its type nothing that is checked is inductive. `IInv` adds what it rests on: a caller holds
the read lock exactly while it is between its lock and its send, and while it does and the queue is
closed it has not yet passed the closed check; a writer waits only on the way to the close; a worker
that rejects or has stopped does so on a closed queue; a job is in the channel or in the worker's
hands only if its caller has submitted it and it has neither run nor been answered, and it is there
only once; a result is in its channel only if it is the truth about its job; a worker that has
stopped left an empty channel. One lemma per group of actions (EndCtxIInv, DoIInv, ShutdownIInv,
RunIInv) shows that it is preserved, with the append, head and tail of a channel without duplicates
as lemmas of their own. TLC agrees that `IInv` is an invariant of the instance of WorkQueue_safety.
The two action properties follow from `IInv` and, for the clean shutdown, from `StopInv`: a
Shutdown that has returned found the worker gone or its context ended.

**The refinement.** `Init` maps to the initial state of SerialExecutor and each step to one of its
actions or a stutter. `Effect` is a function; `EffectMoves` and `EffectStays` say when a step of
the queue changes it at one caller or nowhere. The steps that map to an action are the closed
check, the send and the end of the context in `Do`, the start, end and refusal of a job in `run`; all others
stutter. This covers safety; what fairness adds is liveness and stays with TLC.

**The order of calls.** `OrderInv` says of a call `d` that had returned when `c` began: as long as
both are in the channel `d` is in front, and when `c` is in the worker's hands or has started, `d` is
settled. That jobs are taken from the front and sent to the back is all it needs of the queue beyond `IInv`.

**The client.** `OneSocket` is not inductive: a second dial over a living connection would leak it.
`ClientInv` says who dials (`DialInv`: whoever does has found no connection, and before the initial
connect is over nobody else has begun), that the mutex is held by exactly the call on the wire
(`HolderInv`), that an operation runs on `conn` (`OpInv`), and that every socket used so far was
dialled by a call that is past its dial, with the dead ones no longer in `conn` (`SocketInv`), which makes a
fresh dial differ from all of them (DialledClientInv). The counters are compared with cardinalities
of sets of calls; `CountedInv` says that these sets are finite and have the sizes of the counters in each state, so
that `CountersExact` holds of infinitely many calls as well, of which finitely many have begun.

**The process.** `GatewayInv` is `IInv` and `ClientInv` with what ties them: the client call of a job
is as far as the job's execution (`HandInv`); main closes the queue after the drain or its timeout,
and the connection only at the end (`MainInv`); while main connects it is alone and the queue is
open, so that the initial connect comes back with an outcome (`ConnectInv`); nobody is told that the
queue is closed before it is, nor after a drain (`RefusalInv`). When main goes on to the close, the
worker has gone or the context has ended (`ExitInv`, from the `StopInv` of the queue), and in the first
case nothing dials behind the close: a dial belongs to a job in the worker's hands (WireBelongsToJob),
and a worker that has gone takes no other. StepOfQueue and StepOfClient show that each step
of the process is one of the components or leaves them alone, which gives `IInv` and `ClientInv`
without a second proof; `ComponentsHold` says it of the specifications.

**Requests.** `RequestsInv` ties the stage of a request to its call (`CallInv`: only a request no gate
stopped has made one, and the answer is the promise of SerialExecutor), the error and the wire time
to the effect (`OperationInv`), and status, code and record to the error that `Do` returned
(`AnswerInv`). PLCAnswers works out what `writePLCErr` makes of each chain of errors, and DeadlineIs504 that
`exec` counts as a timeout what the client is told is one.

**Operations.** That an operation has the PLC to itself comes from SerialExecutor, whose steps begin
and end a job, and from an operation being one job (JobsAre): at most one is running (`JobInv`), and
requests that are not have nothing sent. `OpsInv` adds what holds of the one that runs (`Underway`),
the memory in the middle of a request: after `n` commands of a write
a word that the ladder leaves alone is as expected if its read-modify-write is over, as the words
of the request left it if not (`Written`); between the read and the write the worker holds its
contents (`Holds`); a read has seen memory as it was before the request (`Seen`). WritePlanIs and
ReadPlanIs say which command is at which position of a plan of any length, StoreAllIs and StoreGroupIs what a
loop over entries leaves: the last entry for a device counts.

**Reading and writing.** `RoundTrips` is about the request just answered and the memory it left, so with
the type of the memory it is inductive, and its proof is about values. Z3 knows nothing of `2^n` for a variable
`n`: Pow2Is and Pow2Sum say that the powers double and multiply, and all else is division with a
remainder, in small lemmas with the divisor behind a name. NumberBits and NumberOfBits take a number apart
into its bits and put it together again, along the turns of the loop in `Number`; from there
truncation keeps the bits it does not cut off (TruncatedBits), `SignExtend` inverts it on what
`FitsInBits` accepts and the other way round (SignedOfTruncated, TruncatedOfSigned, at every width), and
a double word is its halves (DwordOfHalves, HalvesOfDword). Then each kind of address has its case:
WriteThenRead shows that the read returns what was written, ReadThenWrite that what was read
fits and puts back what was there, WriteNames that all else stays. For bit access the last is why the
bits of the word around those named must be read first. That the read of a write is not refused
(ReadAccepted), and the write of a read not either (WriteAccepted), ties the limits of the two handlers together.

**Logging.** `LoggingInv` counts: a sink has one write of each record whose turn is over and for which it
is, none of any other. **Metrics.** `CountInv` compares each counter with the set of requests that
have passed its addition, `ScrapeInv` says that what a scrape has loaded was loaded in the order
in which it only grows, `RingInv` ties the position in the ring, modulo its length, to the number of
latencies recorded, and `SumInv` says that the sum of the ring is that of the last ones, and
`totalNs` that of all recorded and of those whose requests are on their way to the ring. SumAppend,
SumChanged and SumShifted are what the proofs need of sums.

**Random requests.** `RandomInv` ties the arguments of a job to the request it was made of. For a read
`Sorted` says of the entries handled so far where the value of each will be (`Located`), and one more
entry leaves those before it where they are (AddKeepsSorted). For a write
SortingKeepsBits shows that one fold over all bits does what a fold over each kind does, one after the other:
a bit of a word and a bit device have no place in common, and each kind keeps its order.

**Queries.** BuiltIs and WholeIs say what is built of any pieces, RoomLeftIs where the piece that is cut
begins, which decides about the dots; cutting it again does no harm. **Configuration.** `parseConfig`
is a function; the theorem goes through where each setting comes from (SettingsAre, FlagsHide). What the
flag package reads and what the command line asks for are two folds over its words; AllRead shows, turn
by turn, that they are the same where the package reads to the end.

**Addresses.** CutIsFound shows that a cut the grammar allows is the one `parseAddr` makes: no
device begins with K; a longer name that the text also begins with would put one of its letters where the number
has a sign or a digit (NamesApart, the one fact about the tables that the order of the prefixes rests
on); a number has no dot, so the first dot is behind it. FoundIsCut shows that what `parseAddr` then refuses is what
the grammar refuses. The value of the digits plays no part in this. It does in `ParsedAddressesAreAddresses`:
the number is a fold over the digits, in base 10 or 16, and what a minus stands before is refused
unless it is 0 (NumberIsNat, AddressNumber). AddressesAreTaken leads from there to the `Address` of RandomAccess.

**Loops.** A loop over data is a recursive function in the models, and induction over data is out of
the prover's reach. LoopTheorems goes around it for bounded loops: a set of naturals that is not empty
has a least element (Least, from the well-foundedness of the naturals), so that what holds at 0 and
passes from `i - 1` to `i` holds up to `n` (UpTo), and the list of the states of a loop exists
(Iterates). The sets that UpTo is applied to are written out at each use. FoldTheorems does the same for `FoldLeft`, with
the operator as a constant of the module: an instance of it says of one operator that a fold
goes through states (FoldTurns), and that one entry more is one turn more (FoldOfOneMore).

Only model-checked is liveness, which is out of the prover's reach: `EveryCallReturns`,
`EveryAcceptedCallSettles`, `EveryMethodReturns`, `EveryRequestAnswered`, `SignalEndsProcess`. So are the four
violated runs, each a counterexample on its instance.

## What is not modelled, and the plan

Left out for good: wording and layout of logs and answers; the version and the API description, which
are constants; the wire format of gomcprotocol (it is not in the repository); which network
interfaces `/info` lists (handler.go 287-331, a reading of the host); `recoverPanic` (logging.go
185-197), because no handler is seen to panic; `WithAttrs` and `WithGroup` of the log handlers, which nothing calls;
opening the log file; the letters of addresses outside ASCII. Three hazards have no property: an answer of
gomcprotocol that is shorter than asked for (queue.go 283), which only gomcprotocol can rule out; a
dial behind the close after a Shutdown that ran out of time (main.go 115), of which the code promises
nothing; and the limit on words and word bits together (handler.go 992), one comparison whose reason
lies in the protocol.

Nothing that the passing runs check of safety is left to prove. What a later change of the code asks for first:
a new kind of address or a new flag is a case of Kinds, WriteThenRead and ReadThenWrite; a deadline on
requests changes `Do` in WorkQueue and the errors in Requests, and Requests_timeout would then be a
passing run.
