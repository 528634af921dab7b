# Verification of goblockchain

TLA+ models of a small blockchain server written in Go: the chain a node keeps,
the pool of transactions a validating node makes blocks of, the way blocks
travel between servers, the goroutines of a server and its shutdown, the two
transports, and the stack machine that runs transactions. TLC checks the models
on small instances. TLAPS proves every safety property that the runs find to
hold, and the refinement, for every value of the constants, two of them under a
hypothesis that a violated run shows to be needed (`Exclusive`, `Star`). Liveness
is model-checked.

## The system

| Part | State | Operations |
|---|---|---|
| Chain (`core/blockchain.go`, `core/validator.go`) | header store (list and hash index, one lock), block store, transaction store, contract state | `NewBlockchain`, `AddBlock`, and the reads `Height`, `GetHeader`, `GetBlockAt`, `GetBlockHash`, `GetTransaction` |
| Store (`core/storage.go`) | a map owned by one goroutine, reached by two channels | `Put`, `Get` |
| Virtual machine (`vm/`) | typed stack of 1024 slots, instruction pointer; the contract state is shared and its lock is commented out | `Run`, `Exec` |
| Pool (`server/txpool.go`, `types/list.go`) | two ordered maps (`all`, `pending`), each with a lock of its own | `Add`, `Pending`, `ClearPending` |
| Server (`server/`) | chain, pool, `Peers`, channels for rpcs, api transactions and errors | the rpc loop (`processChannels`), the validator loop (`runValidator`), one goroutine per broadcast, `Connect`, `Subscribe`, `Join` |
| Local transport (`network/local_transport.go`) | map of peers under a read-write lock, receive channel of 1024 | `Connect` (both directions), `Send`, `Broadcast` |
| TCP transport (`network/tcp_transport.go`, `network/tcp_envelope.go`) | table of connections, a reader goroutine with a buffer of 64 KiB each, a listener, receive channel of 1024 | the same interface, length-prefixed frames |
| API (`api/server.go`) | none | reads of the chain; a put that hands a transaction to the rpc loop |

How they interact. A transaction reaches `handleTransaction` by rpc or from the
API, is put into the pool and relayed. On a server with a private key the block
ticker calls `createNewBlock`: last header, `Pending()`, a signed block,
`AddBlock`, a broadcast goroutine, `ClearPending()`. A server that receives a
block calls `AddBlock` and relays it; if the block is too high it broadcasts a
`GetBlocksRequest`, and a peer that knows the requestor answers with its blocks
from that height on. So on a validating server two goroutines use the chain and
the pool.

What is hard. `AddBlock` holds no lock over its check, its run of the
transactions and its append; the header is visible before the block is stored;
the contract state is changed before the block is accepted; the pool is read and
cleared in two steps; broadcasts overtake each other; requests may come before
the subscription that allows them. A broadcast takes the transport's read lock
twice and waits for a channel with it held; errors go through a channel of one,
which nobody reads after the context is cancelled. A TCP reader shares its
buffer with the messages it has handed over and panics on every error. Operands
are executed as instructions before they are used. Nothing is persisted, so
crashes lose everything and there is no recovery to model. `PROJECT.json` lists
each of these places with the property that watches it.

What makes the parts correct. Chain: each header has the height of its position
and points at the one below, only verified and executed blocks are in, the
index agrees, what was added can be read. Pool: capped, no duplicates, first in
first out, nothing lost, drained. Network: no two servers disagree about a
height, nothing is announced that cannot be served, gaps close, gossip ends.
Server: calls and loops come back, `Start` returns and leaves the chain at rest.
Transports: locks are given back, framing keeps order, what is sent is decoded
as it was sent. Virtual machine: a program does what its text says.

## Modules

**`Blockchain`** is one node's chain. `data`, `idx`, `stored` and `txStore` are
the header list, its index, the headers that are keys of the block store, and
the keys of the transaction store. Each calling goroutine has a program counter
`pc` in `AddBlock`, its argument `blk`, the loop index `next`, the virtual
machine's `ip`, the position `at` it appended at and its result `ret`. A step
is what one lock, one channel operation or one instruction covers:
`ValidateNew` and `ValidateHeight` (two reads of the height), `ValidatePrevious`
(header read, hash comparison, `Verify`), `Exec` and `NextTransaction` (the
virtual machine), `CheckHeader` and `PutHeader` (the two critical sections of
`headerStore.put`), `PutBlock`, `PutTransaction`. `Panic` stands for what ends
the process: a panicking instruction, the nil hasher of a decoded transaction
in the error path, and Go's detection of concurrent map access
(`ConcurrentMapAccess`). Abstracted: hashes are free of collisions, signatures
are a flag, and of the byte code only what touches the contract state, fails or
panics is kept.

**`Ledger`** is what `AddBlock` promises to callers that do not overlap: a call
is opened, the block's stores take effect one by one, and at one instant the
block is appended or refused; the block the chain waits for is refused only if
one of its transactions may fail. `Blockchain!Atomic` instantiates it: the chain
is `data`, a call is `blk` with a phase read off `pc` (`Phase`), and the errors
are one answer (`Answer`). The block counts as accepted from `PutHeader` on.

**`TxPool`** is the pool of a validating server between the rpc loop (`rpc`,
`tx`) and the validator loop (`validator`, `txns`). `Add` is cut where its locks
are: `CheckSpace`, `CheckContains`, `AddToAll`, `AddToPending`, `AppendPending`.
`Pending` reads the slice without a lock, so during an append it may see the old
slice, the new one, or a nil element, on which the process ends. `AddBlock`
fails when a pending transaction is in `Refused`. `accepted` and `mined` are
history variables.

**`BlockSync`** is a network of servers of which one validates. `chain[n]` is the
chain of server `n`; `storing` says that the validator is between
`headerStore.put` and `store.Put`. `relay[n]` holds blocks whose broadcast
goroutine has not started, `sends[n]` the sends these goroutines have left,
`out[n]` the sends of the message the rpc loop handles, `inbox[n]` the receive
channel and `applying[n]` the rest of a `GetBlocksResponse`. There is one action
per handler, one for each half of `Connect` and one for `Subscribe`, which may
all happen while blocks are made. `AddBlock` is abstracted to `Fits`,
`OutOfSync` or neither; that this is what it does on a chain with a single
caller is the subject of `Blockchain`. Blocks in flight come from the validator
alone, so they verify. A broadcast's recipients are those of its start; in the
code `Connect` has to wait for a broadcast to end, so the model allows a little
more than the code does.

**`LocalTransport`** is one local transport: its table `peers`, Go's RWMutex
(`readers`, and `writer`, who has called `Lock` and keeps new readers out), the
fill of its peers' channels (`full`), the peers that have stopped (`gone`), those
whose transport hangs (`jammed`) and the call each goroutine is in (`call`). A
step is one lock or channel operation: `Range_` (the outer read lock of
`Broadcast`), `EnterSend` and `Put` (the inner one, and the channel),
`CheckConnected`, `Lock` and `AddPeer` (`Connect` up to its unlock) and
`ConnectPeer` (its last line, the peer's `Connect`). The latter takes the peer's
lock, with none of our own held, and calls this `Connect` again, so it ends either
at once or after another `CheckConnected`; it does not end when the peer's lock is
not to be had, because the peer's transport hangs in one of the ways this one may
(`Jam`). `Hung` names the three ways in which a call never ends: `ChannelStuck`,
`LockStuck`, and `PeerStuck`, which is not of this transport's making.

**`Server`** extends it with the goroutines of one server: the rpc loop `rpc`, the
validator loop `val`, `Start` and its error loop `start`, the fill of `errChan`
`errs`, the context `done`, broadcasts `Cast`, and the program around the server,
which makes the calls of `Script`. Its peers may send anything at any time, so
`Handle` picks a message, and where a handler depends on the pool, the chain or
`s.Peers`, each outcome is possible. A handler is one step up to the first call
that can block; `GetPipe`, `ReportRpc` and the steps of the transport follow.

**`TcpTransport`** is several processes joined by TCP. `Connect`, `Dial`,
`Register` and `Accept` fill the tables `connections`; `Send`, `Broadcast` and
`BroadcastSend` write frames; a reader goes through `ReadLength`, `ReadBody` and
`Put`, and the consumer through `Take`, `ReadByte` and `Decoded`. A byte is known
by the message it belongs to, so `buf`, the reader's buffer, shows whose bytes a
slice of it holds. The kernel's and bufio's part is external: `Fetch` hands over
any part of what has arrived, up to `Chunk`. A prefix that comes in parts makes
the reader lose step (`Lost`); the garbage it may deliver from then on is left
out. Writes of two goroutines to one connection do not mix, as net.Conn
promises. Faults come from outside: at any moment a process exits or is killed
(`Exit`) or a connection is reset (`Break`); `faults` remembers both. Where a
connection no longer leads to a process (`Severed`), a reader that has used up
its bytes gets an error and panics (`ReadError`), which ends its process, and a
write may fail, which ends nothing (`WriteError`). A write that waits for room in
the kernel's buffers is left out.

**`VM`** is the virtual machine on bytes. `Start` and `NewVM` begin a program,
`Exec` has one action per instruction, and `Skip` stands for the bytes that are
none. A slot is a value with its dynamic type; a pop of the empty stack or a
push on the full one is an error, a wrong type or a missing operand a panic.
Ints wrap at `MaxInt` (`Wrapped`), and `Pack` panics, as `make` does, for a length
that is negative or beyond `MaxLen` (`PackBytes`).
`Compile` builds programs from statements the way `transactionAdder` of `main.go`
does. The reference is `Meaning`: `Meanings` gives, by a recursive function over
the text, the contract state and the stack after each of its statements, and
whether they are reached.

**`MCBlockchain`, `MCTxPool`, `MCBlockSync`, `MCServer`, `MCTcpTransport`, `MCVM`**
give the constants their values.
**`Blockchain_proofs`, `Ledger_proofs`, `TxPool_proofs`, `BlockSync_proofs`,
`CatchUp_proofs`, `Server_proofs`, `TcpTransport_proofs`, `VM_proofs`** hold the
theorems. `Ledger_proofs` extends `Blockchain_proofs`, and `CatchUp_proofs`
extends `BlockSync_proofs`.

Definitions called "Mutant of ..." are deliberate errors: each replaces the
definition after it, and TLC must then see the named property fail.

## Runs

| Run | Result | Question |
|---|---|---|
| `chain_one_caller` | holds | One caller: `TypeOK`, `ChainWellFormed`, `CallReturns` under fairness, and the refinement `ImplementsLedger` |
| `chain_two_callers` | holds | Two callers: `OnChainVerified`, `IndexAgrees`, `BlockReadable`, `TxReadable`, `EffectsApplied`, `AddedIsReadable` |
| `chain_race` | violated | `ChainWellFormed` with two callers |
| `chain_replay` | violated | `ContractStateIsReplay`: is the contract state what the blocks of the chain make it? |
| `pool_safety` | holds | `TypeOK`, `PendingCapped`, `PendingUnique`, `FirstInFirstOut`, `HistoryIsNewest`, and `PoolDrains` under fairness |
| `pool_lost` | violated | `NoTxLost`: is every accepted transaction pending or mined? |
| `sync_late` | holds | One server joins up to three blocks late: `TypeOK`, `PrefixOfValidator`, `InFlightStored`, `ResponseApplies`, `SettledEqual`, and `GossipEnds` under fairness |
| `sync_mesh` | holds | Three servers that all know each other: `SettledEqual` |
| `sync_line` | violated | `SettledInDelta` on a line: do the heights of a network at rest differ by at most one? |
| `server_loops` | holds | A server, its loops and its transport: `TypeOK`, `LocksBalanced`, `HungForGood`, `QuietAfterReturn`, and under fairness `CallsReturn`, `StartReturns`, `BlockTimeReliable`, `RpcLoopComesBack` |
| `tcp_transport` | holds | Two processes and racing dials: `TypeOK`, `InOrder`, `OverwrittenByLaterFrame`, `CanAnswer`, `FailuresHaveOrigin`, and `Delivered` under fairness |
| `vm_programs` | holds | Compiled programs and arbitrary bytes: `TypeOK`, `CompiledRuns`, `PackNeverDrops` |

The violated ones are disagreements between the code and a comment, a note or a
test of the repository; `findings` in `PROJECT.json` quotes both sides. In short:
two concurrent `AddBlock`s break the chain; a refused block leaves its effects
in the contract state; a transaction that arrives between `Pending()` and
`ClearPending()` is lost; a server that catches up does not pass on what it got.

Some of the runs that hold say where the code stops being right. `CallsReturn`,
`StartReturns` and `RpcLoopComesBack` hold except in the states `Hung`, `RpcHung`
and `ErrHung`: a send to a peer that no longer receives, with the read lock
held; a `Connect` between the two read locks of a broadcast; a `Connect` to a
peer whose transport hangs in such a way, which waits inside the peer's `Connect`
although nothing is wrong with its own transport; an error after the cancel that
finds `errChan` full. TLC reaches all of them, `HungForGood` says there is no way
out of the transport's three, and the properties say that there are no others.

In the same way `OverwrittenByLaterFrame` and `Delivered` fence in the shared
read buffer and the cut length prefix of the TCP transport, and
`FailuresHaveOrigin` says how far the end of a process spreads. Every error of a
connection is a panic, the end of the stream after a partner's ordinary exit
too, so one process that ends takes along those it is connected to, and these
theirs; the property says that it starts only at an exit, a broken connection, a
cut prefix or a message longer than the buffer, and spreads only from partner to
partner.

`CompiledRuns` is about programs whose operands are no instructions.
`HistoryIsNewest` is about hashes that arrive once: `notes.md:173` says that the
history is capped as well, but after a mined transaction is added again, one
lookup entry stands for two entries of the list, pruning may find nothing to
remove, and the cap is not kept.

Bounds. `MCBlockchain` has ten blocks: rivals at heights 1 and 2, a successor,
an unsigned one, one with a wrong data hash, ones that fail, fail after decoding
and panic. Two callers suffice, since the program has two. `MCTxPool` has three
hashes, `max = 2` and `MaxClock` arrivals: enough to fill the pool, roll the
history over and bring a mined hash back. `MCBlockSync` has two servers and
`MaxHeight` 3, so that a request may come while a further block is being stored,
or three servers and `MaxHeight` 2: a gap, which needs a block two above the
chain, occurs, and so do overtaking, duplicate delivery and answers to stale
requests. Hashes other than the genesis hash are interchangeable, so the safety
runs of `MCBlockSync` use them symmetrically; `sync_late`, which checks a
liveness property, does not. `MCServer` has two peers, one of which may stop
(`Stops`), channels of one (`Cap`), one broadcast goroutine (`Cast`) besides the
rpc loop, which broadcasts as well, and a `Script` that sends before it is
connected, connects and subscribes to the first peer and connects to the second
while the first is sent to: this is what the lock's recursion needs. The peer that
may stop is also the one whose transport may hang, and it does so only once a
`Connect` waits for it: before that nobody can tell.
`MCTcpTransport` has two connections between two processes, dialed by two
goroutines, and two events (`MaxEvents`), each of them one of three messages that
is sent or a fault; the messages are shorter than the buffer, as long as it and
too long; with `LenSize` and `Chunk` 2
every prefix and every frame is cut in every way. `MCVM` has a stack of three
slots, keys of up to three bytes, all programs of two statements and all byte
strings of up to three instructions, two programs in a row; `MaxInt` and `MaxLen`
are small enough for a sum of two bytes to wrap and for a key to be too long. The runs of
`MCBlockSync`, `MCServer`, `MCTcpTransport` and `MCVM` do not check for deadlock:
at their bounds the systems come to rest by design, and how a server may be
stuck is what the properties of `Server` are about.

Fairness. `Blockchain!FairSpec`: a goroutine inside `AddBlock` keeps being
scheduled. `TxPool!FairSpec`: both loops are scheduled and the block ticker
keeps firing. `BlockSync!FairSpec`: goroutines that can run do run; whether a
server joins or another block is made is left open. `TcpTransport!FairSpec`: the
same for dialers, listeners, readers and consumers, and bytes arrive.
`Server!FairSpec` is strong for what waits in competition with others: a case of
a select (chosen at random among the ready ones), a send into `errChan` (blocked
senders are served in turn) and a call of the transport (the RWMutex starves
neither readers nor writers); the error loop, `Start` and peers that have not
stopped are weakly fair. The four steps of `Shutdown` are under one condition,
which makes each of them happen, as each happens at most once. Nobody has to send a message, make a block or cancel
the context. Go's scheduler gives each
runnable goroutine a turn, and no fairness is assumed of the environment.

## Proofs

`Blockchain_proofs`, from `BlocksAssumption` (the blocks are blocks) and
`GenesisAssumption` (height 0, no transactions), for any set of callers:

* `TypeCorrect` - `TypeOK` is inductive as it stands.
* `VerifiedOnChain` - `OnChainVerified` needs to know that a goroutine past
  `ValidatePrevious` carries a verified block, which in turn needs that the
  header below its block exists when it is looked up (`Progress`): the chain
  only grows, so the height seen before is still there, and the path on which
  `ValidateBlock` answers nil is never taken.
* `IndexCorrect` - `IndexAgrees`; two goroutines may append the same header, and
  the index then points at the later one.
* `ExclusiveChain` - under `[]Exclusive`, what a lock around `AddBlock` would
  guarantee, the chain is well formed (`NextOnChain`: the one goroutine past the
  height check carries the next block). `SingleCallerChain` is the case of one
  caller. `chain_race` shows that the hypothesis cannot be dropped.
* `BlocksReadable`, `TransactionsReadable`, `AddedReadable` - from `Persisting`:
  a goroutine in `persistBlock` owns the position it appended at, and has put
  the transactions before its loop index.
* `EffectsOnChain` - from `Ran`: all instructions before a goroutine's loop index
  and instruction pointer have been executed, and no key ever leaves the
  contract state.

`Ledger_proofs`, in addition from `HashAssumption` (equal hashes, equal heights,
as the hash covers the header): `ExclusiveImplementsLedger` is the refinement
`ImplementsLedger` under `[]Exclusive`, `SingleCallerImplementsLedger` the same
for one caller with no further condition. `RefinementInv` collects the
invariants above and `Given` (every block the node holds was handed to it). Each
action has a lemma that names its image: `PutHeader` is the ledger's acceptance,
an error that ends a call its refusal, an instruction that writes its store, and
the rest stutters. That the awaited block is never refused by mistake needs
`IndexAgrees` (it is not in the index, as it is above all that are) and
`NextOnChain`.

`TxPool_proofs`, from `PoolAssumption`, for any hashes, any `max` and any number
of arrivals; the model takes the time stamps of arrivals to be distinct.
`TypeCorrect` adds `Stamped` (the transaction in hand has the
latest stamp). `CapacityHolds` (`PendingCapped`) needs `RoomLeft`, and
`NoDuplicatePending` (`PendingUnique`) needs `NotYetPending`: what `CheckSpace`
and `CheckContains` saw is still so when the append comes, because the validator
loop only empties the list. `FirstInFirstOutHolds` goes through `OrderInv`: what
is in blocks comes before what is pending or being appended (`Coming`), and the
slice the validator took is a beginning of it, however the append interleaved.
`HistoryHolds` (`HistoryIsNewest`) says so at each step of `Add` for `Taken`. The
lemmas `LeastIndex`, `RemoveHead` and `NewestAppend` say what `List.Delete` and
the pruning leave.

`BlockSync_proofs`, from `NodeAssumption`, for any servers and topology and
chains of any length:

* `TypeCorrect` - `TypeOK` with `Rooted` (no chain is empty).
* `ServersAgree` - `PrefixOfValidator` - and `SentIsStored` - `InFlightStored`.
  Neither is inductive alone. `AgreementInv` joins them with `Numbered` (heights
  number the validator's chain) and `Behind` (while the validator stores a
  block, all others are shorter). The core is `FitsIsNext`: a published block
  that fits a chain is the next block of the validator's chain, and so the
  validator never adds a block it was sent; `PublishedStable` says that what is
  published stays so.

`CatchUp_proofs`, on top of `AgreementInv`:

* `ResponsesApply` - `ResponseApplies` - from `Answered`: a request under way
  asks for nothing above what its sender lacks, and a response under way begins
  at or below its receiver's next height and has no gap, which stays so as
  chains grow.
* `EverybodySettles` - `SettledEqual` - under `Star`: every server is linked with
  the validator, whatever other links there are. The invariant `NobodyLeft` says
  that once all have joined and a block has been made, each server has the
  validator's height or something is under way that brings it there
  (`CatchingUp`): the last block, a request to the validator, or its answer. It
  rests on `Linked` (hashes link the validator's chain, so a block is refused
  only for its height) and on `Joining` (each half of a subscription follows
  the other, so whoever sends a request is known to the validator). Where `Star`
  fails the property fails as well: a server does not pass on what it got by
  catching up, which is what `sync_line` shows.

`Server_proofs`, from `TransportAssumption` and `ServerAssumption`, for any peers,
any finite set of goroutines, channels of any capacity and any script:

* `TypeCorrect` and `LocksAreBalanced` (`LocksBalanced`) - by `IInv`, which joins
  `LocksBalanced` with `WellMade` and `Known` (a `Send` inside a broadcast is to
  a peer of the table, as nobody ever leaves it) and `LoopInv` (where the loops
  and `Start` may be). The counter of the read locks is the cardinality of the
  locks that the calls hold; `LocksCounted` says how one call's change moves it.
* `HungStaysHung` (`HungForGood`) - a full channel of a stopped peer stays full
  (`FullStaysFull`), so a goroutine that waits for it keeps its read lock, and so
  does one that waits behind it; a peer whose transport hangs does so for good.
* `ReturnedIsQuiet` (`QuietAfterReturn`).

`TcpTransport_proofs`, from `SizeAssumption` and `AddressAssumption` (addresses of
listeners and of connections differ), for messages, prefixes, buffers and chunks
of any length: `TypeCorrect`, `FramesInOrder` (`InOrder`),
`OnlyLaterFramesOverwrite` (`OverwrittenByLaterFrame`), `AnswerReachesPeer`
(`CanAnswer`) and `NoFailureWithoutOrigin` (`FailuresHaveOrigin`), all from one
inductive invariant `IInv`. `SetUp` follows the making of a connection. `Framing` says
that, until a reader has lost step, there are boundaries (`Cut`) at which the
bytes in its bufio.Reader and on the wire fall into the rest of its message and
whole frames of the messages still to come; being quantified, they can be moved
by each `Fetch` and extended by each write. `Filled` says what the reader's
buffer holds, and `Queued` what the messages handed over owe to it. For
`FailuresHaveOrigin`, `HowProcessesEnd` lists why a process ends: an exit, an
error of a connection that broke or whose other end had gone before, a cut
prefix, a message too long. `Placed` says that a reader at work belongs to an end
of its connection, so that the process at the other end is a partner;
`OriginStays` and `JoinsStays` say that neither an origin nor a connection is ever
taken back, so that what was said of the processes that had ended stays true when
another one does.

`VM_proofs`, from `DepthAssumption`, `WidthAssumption` (bytes are ints and
lengths), `SourceAssumption` (texts of bytes, a length of a key is one byte, a
"set" has an int) and `SumAssumption` (the sum of a "set" is an int), for any
texts, any depth, any width of the ints and any number of programs:

* `TypeCorrect` and `PackHasRoom` (`PackNeverDrops`) - for whatever bytes.
  `CompileType` says that the compiler makes bytes of every text.
* `ProgramsDoWhatTheySay` - `CompiledRuns`. `TextInv` says that Run is between two
  statements, with what the ones before mean on the stack and in the contract
  state, or within one, in one of six phases (`InCode`, `InKey`, `AtPack`,
  `InInts`, `InAdds`, `AtGet`) that fix what lies above that on the stack; or
  that it has failed where the meaning does. There is a lemma for each phase,
  `PhaseStep` joins them, and `Advance` finds the next statement that has
  bytes. `FlattenLayout` says where the statements lie in the bytes.

The prover has no induction over data that it could be given an operator for.
What `VM_proofs` and `TxPool_proofs` need of it they get from the least
counterexample (`LeastElement`, `LeastIndex`), and the recursive functions `Sums`
and `Meanings` from the existence of their approximations (`SumsDef`,
`MeaningsDef`).

Only model-checked: all liveness (`CallReturns`, `PoolDrains`, `GossipEnds`,
`CallsReturn`, `StartReturns`, `BlockTimeReliable`, `RpcLoopComesBack`,
`Delivered`), since the prover handles neither fairness nor ENABLED.

## Not modelled

* The wait of a TCP write for room in the kernel's buffers.
* Keys and hashes, gob's bytes, and the API's reads, which change nothing.
* Several validators in one network (`runValidator` says "need to call consensus
  logic here"): `BlockSync` has one. What two block producers do to one chain is
  `chain_race`.
* The two channels of the in-memory store: its goroutine serves one request at a
  time, so a `Put` is one step.
* The way of a transaction through the pools of several servers.
* Log entries, among them those of the local transport that read its map
  without the lock.

## Plan

1. That what liveness excepts is reached only as described: a `Hung` goroutine
   needs a stopped peer, a `Connect` between the two read locks, or a peer that
   hangs.
2. The store's channels, with `Put` and `Get` as requests to its goroutine.
3. Transaction gossip: every server's pool takes a transaction in once.
