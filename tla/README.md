# PyChain: a TLA+ verification project

PyChain is an educational blockchain written in Python: a UTXO ledger with
proof of work, a bounded mempool, SQLite persistence, a peer-to-peer node on
asyncio, an HTTP/WebSocket API with wallets and a mining service, and a web
front end.  This directory holds TLA+ specifications of it, the TLC
configurations that check them and the TLAPS proofs about them.  `PROJECT.json`
lists components, runs, mutants, hazards, theorems and, for every definition
that models code, the source lines it stands for.

## 1. Inventory

| part | state | operations | talks to |
|---|---|---|---|
| ledger rules (`transaction/`, `mining/coinbase.py`, `blockchain/validation.py`, `blockchain/chainstate.py`) | none: pure functions on a UTXO set, a set of txids and blocks | validate and apply a transaction, a block, a chain; build a template | everyone |
| mempool (`transaction/mempool.py`) | confirmed view, working UTXOs (reservations), entries in insertion order, byte total | add, remove with descendants, revalidate after a block, select for a block | `Blockchain` |
| `Blockchain` (`blockchain/blockchain.py`) | blocks, confirmed state, mempool, closed / failed flags, revision | submit, remove, add block, templates, queries | mempool, store |
| chain store (`storage/`) | SQLite rows: blocks, txids, UTXOs, mempool, one metadata row | create, load with full replay, append block, replace mempool | SQLite |
| node dispatcher (`network/node.py`) | one queue of network events and local commands, reservations, sessions, lifecycle phase | start, stop, submit, accept block, dispatch, timers | `Blockchain`, peers, sync |
| handshake and peers (`network/node.py`, `peer.py`, `peer_manager.py`) | pending dials, sessions, candidates with backoff, send queues | dial, accept, hello/verack, duplicate resolution, disconnect | sockets |
| peer connection (`network/peer.py`) | reader and writer tasks, a bounded send queue, one cleanup | start, send, close | sockets, node |
| sync (`network/sync.py`) | one block download, one mempool export per peer, one mempool import, request ids and deadlines | tick, serve and receive blocks and mempool pages, time out | node, peers |
| wire codec (`network/protocol.py`, `messages.py`, `storage/codec.py`) | none | encode / decode with bounds | peers, store |
| mining service (`api/services/mining_service.py`, `mining/miner.py`) | jobs, active job, worker task, cancel event | create, run, cancel, close | node, WebSocket |
| wallet (`wallet/`, `appdb/`) | idempotency records, per-user locks, tracked tasks | summary, send with retries | node, app database |
| explorer (`api/services/explorer_service.py`) | one cached view of the chain and the lock under which it is rebuilt | statistics, blocks, transactions, addresses, search | node |
| accounts (`auth/`, `appdb/`) | users, sessions, login guard | register, login, CSRF | app database |
| API shell (`api/`) | WebSocket slots and queues, rate-limit windows | HTTP routes, broadcast, quotas | services |
| web front end (`web/`) | view state | pages | API |

What is hard in it:

* **Storage.** A COMMIT may take effect although the writer is told it failed;
  the process may die on either side of it; two instances may have the file
  open; a reload must replay everything to exactly what was saved, at whatever
  time the clock then shows.
* **Ledger and mempool.** Reservations, parent-before-child order, conflicts
  with blocks mined elsewhere, capacity limits, coinbase txids that collide
  when timestamp, miner and reward are equal.
* **Node.** All network events and local calls share one bounded queue; calls
  race with shutdown; two nodes dial each other at once; downloads race with
  locally mined blocks; answers arrive after their timeout.
* **Pending transactions.** A pool is copied page by page while blocks change it
  on both sides, exports expire, requests time out and announcements are lost.
* **Queries.** The explorer reads the node several times for one answer, with
  blocks arriving in between, and shares one cache among its queries.
* **Services.** A mining job whose block is being accepted while another one
  starts; cancellation against a block just found; a wallet send retried after
  a crash; one WebSocket slot released exactly once.

What makes each part correct is stated as properties below for the parts that
are modelled; section 7 says why the others are not.  `PROJECT.json` lists
the hazards at their source lines, with the properties that would show them
going wrong.

## 2. Modules

| module | models |
|---|---|
| `Transactions` | the pure rules: UTXO sets, fees, coinbase, block validity, replay of a chain, block template |
| `Mempool` | the pool as operators on a record |
| `BlockRules` | `add_block`'s decision, the candidate blocks and the bounds shared by the ledger specifications |
| `Blockchain` | one `Blockchain` object without a store; the atomic ledger |
| `ChainView` | the queries that derive something from the blocks: the wallet's history, and the explorer's index, fees and address histories |
| `PersistentBlockchain` | several `Blockchain` objects over one SQLite file, with crashes and uncertain commits |
| `SequenceLemmas` | induction over the natural numbers and the facts about sequences, removals and sums that the proofs share |
| `LedgerLemmas` | what the operators of `Transactions`, `Mempool` and `BlockRules` compute, round by round |
| `BlockchainProofs` | the theorems about `Blockchain` |
| `PersistentBlockchainProofs` | the theorems about `PersistentBlockchain` |
| `BlockSync` | announcement and download of blocks between nodes |
| `MempoolSync` | relay of pending transactions, and the download of a peer's pool by pages of a snapshot |
| `WalletSend` | `WalletService.send` with idempotency keys, over the application database and a node |
| `WalletSendProofs`, `MiningServiceProofs` | the theorems about the module of that name |
| `NodeProofs` | the theorems about `NodeDispatcher` and `PeerSessions` |
| `ApiProofs` | the theorems about `ExplorerService` and `WebSocketManager` |
| `PeerConnection` | one connection as operators on a record: reader, writer, bounded send queue, cleanup |
| `NodeDispatcher` | a node's life: start, the bounded queue of calls, frames and ticks, failure, stop, with its peer connections |
| `PeerState` | what nodes know of their connections and candidates, and the invariants on it |
| `PeerSessions` | its steps: dialling, handshake and duplicate connections between nodes, with their books of candidates |
| `MiningService` | mining jobs: requests, worker tasks, threads, cancellation, close |
| `WebSocketState` | the state of the WebSocket manager, and the invariants on it |
| `WebSocketManager` | its steps: slots, handlers, writers, broadcasts, stop |
| `ExplorerService` | concurrent explorer queries over the cached view and its lock |
| `MC<module>` | the instances for TLC of the module of that name |

`Transactions` <- `Mempool` <- `BlockRules` <- `Blockchain` and
`PersistentBlockchain` (EXTENDS); `ChainView` EXTENDS `Blockchain` and
`NodeDispatcher` EXTENDS `PeerConnection`, `PeerSessions` EXTENDS `PeerState`,
`WebSocketManager` EXTENDS `WebSocketState`.  `PersistentBlockchain` INSTANCEs
`Blockchain` to state what it implements.  A module of
proofs EXTENDS the module it is about, and `LedgerLemmas` or `SequenceLemmas`;
`LedgerLemmas` EXTENDS `BlockRules` and `SequenceLemmas`.  The others stand
on their own: each keeps of its neighbours what its protocol tells apart.
`BlockSync` and `MempoolSync` begin where `PeerSessions` ends, with an
established session; `WalletSend` and
`MiningService` take from the node what `NodeDispatcher` promises its callers: a
command is executed and answered, or answered with an error and executed or not,
or dropped with an error when the node stops.

## 3. How state and actions correspond to the code

### Ledger and storage

A transaction is a record with its txid, inputs, outputs and size; `verified`
and `address` of an input stand for the signature check and the key's address.
A regular txid is a name, while a coinbase txid is computed from miner, time and
reward, because the code's collisions come from there.  A block's hash is the
block itself, and `header_ok` stands for proof of work and Merkle root.  The
UTXO set is a function from outpoints to outputs; `ApplyTransactions`,
`RebuildChainState` and `SelectTransactions` fold over sequences as the loops of
the code do.

`Blockchain` has one action per operation that changes the object:
`SubmitTransaction`, `RemovePendingTransaction`, `AddBlock`.  A block is offered
with any parent on the chain, any body and any timestamp, so that the early
returns of `add_block` are exercised and not assumed.

`ChainView` has no state of its own.  `GetWalletHistory` is what the wallet shows
of an address, `AddressHistory` and `PendingRecords` what the explorer shows of
it; both are computed from the blocks and the pool by different code, and
`QueriesAgree` compares them with each other and with the UTXO set.

`PersistentBlockchain` has the file (`absent`, `empty`, `ready`), the committed
rows `db` and the instances.  `Commit` is `Blockchain._commit` around one
`BEGIN IMMEDIATE` transaction: rows and object change, or the rows only (COMMIT
took effect and raised, or the process died), or neither; unless both changed,
the instance is `failed` or `down` and never serves again.  `CreateFile` and
`Initialize` are separate steps, as the exclusive creation of the file and the
transaction that fills it are.  `Load` replays everything with the clock of that
moment.

### Block synchronisation

A block hash commits to the whole history, so a block is represented by the
sequence of the nodes that mined it and its ancestors; `(height, hash)` is then
one value and `previous_block_hash` is `Front(block)`.  Every handler is an
operator on a *turn* (the node's state and the messages it sends), because one
turn of the dispatcher may run several of them: an answer with two blocks
accepts, announces and reports each of them and may end in a failed request or
a `ProtocolError`.  `Finish` ends the turn.

| code | definition |
|---|---|
| `_remote`, one message type each | `ServeStatus`, `ServeBlocks`, `RefuseBlocks`, `ReceiveBlock`, `ReceiveStatus`, `ReceiveError`, `ReceiveBlocks` |
| `_tick` and `SyncManager.tick` | `Tick`, and `Timeout` for a request past its deadline |
| `accept_block` by a local miner | `Mine` |
| `_reap_peers`, `disconnected`, dial and handshake | `Disconnect`, `Connect` |
| `sync_after` reached | `RetryDue` |

`ServeBlocks` may send fewer blocks than asked for, which is what the frame limit
does.  `Connect` gives each side any earlier tip of the other: VERSION is sent
when the socket is attached, and blocks accepted until the session is
established are not announced on it.

Simplifications: connections are FIFO, as TCP is.  An expired request id is kept
until its answer arrives; the code keeps it 60 s, and PING/PONG on the same
connection closes it after 40 s of silence.  A block too large for any frame
(`POLICY_LIMIT`) does not occur.  The requests for the mempool, and the changes
of `sync_state` they cause, are in `MempoolSync`.

### Pending transactions between nodes

`MempoolSync` has the same turns as `BlockSync`.  Here a chain is the sequence of
the sets of transactions its blocks confirm, and only one node mines, so that the
block part of the protocol is reduced to what moves the tip.  `exports[m]` is
the snapshot a node serves to peer `m`, `downloads[m]` what it has of the pool it
reads from `m`, and `snapshot_bytes` the bytes all its exports have reserved.  `ServeMempool` has the early returns of the code in their
order: stale tip, busy or cooling, too many, no room, too large, expired token,
wrong cursor; `Page`
is the next slice and ends the export with the last one.  `ExpireIdle`,
`ExpireInUse`, `RefreshDue` and `CooldownOver` are the moments at which the
clock passes a deadline; no times are kept.  `Import` admits what the page holds
and the pool takes.  Polls of peers that have nothing new are left out.

### Wallet

`task[c].pc` names the await in which a call of `_send` is suspended; what runs
between two awaits is one action.  `Enter` is the part up to the first await,
with the four outcomes of the row and a failing INSERT.  `GiveUp` is the
`except BaseException` block, whose DELETE may itself fail.  `SubmitRaises` is a
node that commits a submission and then fails, so that the caller is told of an
error.  `Raise` is any other error after the row is prepared, the failing final
UPDATE included.  `Confirm` is a block, mined by any node that was told of the
transaction; `Crash` restarts the process on both databases.  `submitted` is a
history variable: which key has sent which transaction to the node.  A
transaction is what it pays, the coin it spends and the second it was built in,
so that two keys may build the same one, as in the code.

### Node dispatcher

`phase` is `Node.state`; `starter`, `loop` and `cleaner` say where the startup
task, the dispatcher with the maintenance loop, and the cleanup task are.  The
startup task has one action per await, and so has the cleanup; `stop()`, a failure
or a cancelled `start()` may come between any two of them.  `PeerConnection` is
the connection itself: the reader reserves room when the length of a frame has
come and hands the reservation over when the body has, or gives it back when it
is cancelled or the body does not come in time (`body_timeout`); `Send` takes
outbound room or closes the connection when there is none, the writer gives it
back when a frame is written or it is cancelled with one in its hands, and
`Discarded` when the cleanup finds frames nobody will write.  `Dispatch` is one turn:
the event is taken, handled and its room given back.  What a command or a message
does to the chain is left open: it works, is refused, or fails the node.

### Peer sessions

`end[c][n]` is what node `n` knows of connection `c` together with the messages on
their way to it, `dial[n][e]` the task of `_dial`, `book[n][e]` the candidate.
`Deliver` is a turn of the dispatcher: `_reap_peers`, then `_remote`.  `Tick` is
the part of `_tick` that reaps and dials.  A node's id stands for its endpoint too;
the connection's number stands for the pair of nonces that breaks ties.  Time is
abstract: a backoff that was set may be over whenever it is looked at, and a
candidate never expires, as a seed does not.  Faults (a failed dial, a lost
connection, a handshake that takes too long) are bounded by `MaxFaults`.

### Mining service

`jobs[j].pc` names the await in which the worker task of job `j` is suspended,
`client[c].pc` that of a request, `queue` the holder of `_lock` and those who wait
for it in order.  The mining thread runs beside the event loop; it may find its
block when it has already been told to stop.  `CancelTask` is what a cancellation
does at each await: in the `try` block the `finally` still waits for the lock,
before it the task just ends.  Broadcasts are taken as awaits that may suspend,
although today's manager never does.  A client that disconnects during
`create_job` is left out.

A thread may not be startable, neither for mining nor for a join
(`asyncio.to_thread` needs one of the executor).  `StartThreadFails` and
`HaltRaises` (the join after the time limit) end the worker with an exception that
nobody handles: the job stays MINING until it is cancelled.  `JoinRaises` is the
`except Exception` around the first join: the worker goes on to evaluate, and sets
FAILED while the mining thread runs on with its stop event not set.
`CancelRaises` and `CloseRaises` are the joins of `cancel_job` and `close`: the stop
event is set, and nothing after it is done.  `born` is history: where `close()` was
when the job was created.  `close()` awaits the worker task it found (`Awaited`),
which a request that was past the closed check may have replaced since.

### WebSocket manager

No code awaits while it holds `_lock`, so each section is part of one step.
`ws[s].pc` is where a handler is suspended; `Leave` is every way out of the
receive loop.  The order of `clients` matters, because `broadcast` is a loop that
an exception may leave.  `got` and `missed` are history: the critical messages
that were broadcast before a client joined or that it was sent since, and those
whose broadcast raised at this client or before it came to it; both are forgotten
once the client is to be disconnected.  Critical messages are
numbered; status and progress messages are one value.  Sockets are alike, so a new
connection takes the first free name (`FreeName`).  The server may cancel a
handler (`Cancel`), in its cleanup too: the first cancellation only unshields the
cleanup, the next one ends the closing of the transport.  A handler cancelled
again, by the server or by `stop()`, while its cleanup still joins the writer ends
there, before the slot is released (`LostStep`): the code then counts the client
until it is restarted, and `SlotsMatch` says that this is the only way.

### Explorer

A chain only grows, so a view is the height of its tip and a transaction is in a
block, pending or unknown (`where`).  `req[r].pc` is the await a query is in:
`tip`, `lock`, `fetch` (one per batch of blocks), `pending`, `find`, `latest`,
`info`, `status`.  `GetChainView`, `ReadTip`, `Acquire` and `Fetch` are
`get_chain_view` with its test before and under the lock; the other operators
are what each query does with the view.  `Fail` is a call to the node that
raises, at any of these awaits.

## 4. Runs

| run | instance | checks | shows |
|---|---|---|---|
| `ledger` | 6 transactions (a payment, its rival, its child, a theft, one with two signers, one spending a second coinbase), heights up to 3, pool of 2 entries / 3 bytes | `NoDoubleSpend`, `StateIsHistory`, `QueriesAgree`, `PoolFollowsLedger`, `TemplateAcceptable`, `PoolKeepsTheRest` | the cached state is the history, wallet and explorer tell the same story of it, no value is created, the pool follows the ledger, and what it selects can be mined |
| `storage` | 2 instances, 2 conflicting transactions, height 2, 4 writes | `Agreement`, `AcknowledgedIsDurable`, `AlwaysRecoverable`, `WritesAreSerial`, `ImplementsBlockchain` | the committed rows behave as one ledger and reload to what was saved |
| `sync` | 2 nodes that both mine, up to heights 2 and 1, the second with a late clock, batches of 2, 1 fault | `NeverAccused`, `SessionsAreTrue`, `NothingGoesBack`, `Converges` | honest nodes do not cut each other off, see no forks that are not there, keep the download slot straight, and end equal or with their fork reported |
| `mempool_sync` | a node with a parent and its child, a reader, a rival of the child, pages of 1, a block, 1 fault | `NeverRejected`, `SnapshotsAccounted`, `PoolsConverge` | nobody is cut off, no snapshot bytes leak, and the reader ends with every pending transaction its pool admits |
| `wallet_send` | 2 callers, 2 keys, 2 requests, 2 coins, a pool of 1, 2 seconds, 1 crash | `CallsMatchRows`, `RejectedNotPaid`, `AcceptedNotLost`, `ReceiptsAreFinal`, `EveryCallEnds` | one key pays once and its receipt is true |
| `mining` | a client that creates and one that cancels, 2 jobs, height 1 | `OneMining`, `StatusIsTrue`, `FinalIsFinal`, `EverythingEnds` | one job at a time, statuses that are true; jobs, requests and `close` end; threads may fail to start at any point |
| `websocket` | 3 sockets for 2 slots, queues of 2, 3 critical messages | `Delivery`, `SlotsMatch`, `EndsInTime` | critical messages arrive once, in order; slots are given back once; `stop` and disconnections end |
| `websocket_pong` | 2 sockets, queues of 2 | `ClientsAreIsolated` | **violated**: finding 1 |
| `sessions` | 2 nodes that dial on their ticks, one also by `connect`, 2 connections, 1 fault | `HandshakesAgree`, `BooksAgree`, `Reconnects` | no node has two sessions with one peer or breaks the handshake, simultaneous dials settle on one connection, and after a failure the nodes find each other again |
| `sessions_dials` | 2 nodes, no faults | `DialsSucceed` | **violated**: finding 2 |
| `dispatcher` | 1 call, 1 peer, sizes 1 and 2, budgets of 2 events or frames / 3 bytes | `BudgetExact`, `AnswersAreTrue`, `StopEnds` | both budgets are exact, callers are told the truth and always answered, a stop ends and leaves nothing |
| `explorer` | 2 queries of any kind, 1 transaction, batches of 1, heights up to 2, 1 failing call | `ViewsAreFresh`, `TransactionsAreFound`, `QueriesEnd` | a view is as new as the query, a transaction known throughout is found, no query waits for ever |

Every property of a passing run has a mutant in `PROJECT.json`, a plausible bug
in the code, that violates it.  Deadlock is checked except where the system may
really stop: the dispatcher, mining and WebSocket runs end with a stopped node or
service, and the explorer run with every query answered.

**Findings.**  Two runs show behaviour that a test or a docstring excludes.
(1) `broadcast` assumes that queued entries are dicts, but `pong` is queued as a
text: a critical message that meets a full queue beginning with one raises, and
the clients after it do not get the message (`api/websocket/manager.py:275`).  In
the run, one client's queue holds the first status and a pong; a critical message
takes the place of the status; a second client joins; the next critical message
raises at the first client, and the second, whose queue has room, is not offered it.
(2) A dial that loses against a simultaneous one looks for an *established*
winner; when the winner's VERACK is still on its way, `connect` raises although
the nodes end connected (`network/node.py:400`).  In the run, the node whose
connection loses has VERSION on both and takes VERACK on its own; it closes this
one in favour of the other, which is not established yet, and the dial ends.

**Bounds.**  Ledger: three blocks are needed to fund a payment, confirm it and
confirm its child or a conflict; both pool limits are smaller than the set of
transactions, so they are reached.  Coinbase amounts of 50 and 55 are the fair
ones with and without the fee of 5, and too much where there is no such fee.
Storage: two instances suffice for one to be stale; the properties relate an
instance to the rows, never three instances; four writes allow a block, a pool
change by the other instance, a block and one more.  `MAX_FUTURE_BLOCK_TIME`
is 0 or 1, with times 0 to 2, so the clock can be before, at and after the limit.
Sync: heights of 2 and 1 give a fork with and without a difference in height, and
a batch that ends and one that does not; one fault is one timeout, BUSY answer or
lost connection anywhere.  With one peer the download slot is only ever wanted by
that peer; that two compete for it is not in a run.  Pending transactions: a
snapshot of two entries takes two pages, with a block, an expiry or the fault
before, between and after them; the budget of snapshot bytes is just one
snapshot, so that one leak blocks the next.  Wallet: two callers with the same or different keys, a
pool that the first payment fills, one restart at any await.  Dispatcher: either
limit can be reached first, inbound by the call and frames together, outbound by
frames of size 1 or 2.  Sessions: both nodes
dial, so two connections exist at once, and the numbers are used again after a
loss; `max_peers` is as large as the set of connections.  Mining: one client
creates and the other cancels, at any time and again, and two jobs suffice to
have one being cancelled or accepted while the next one starts.  WebSocket: the third socket is
refused; a queue of two can be put back in another order, and three critical
messages are one more than it holds, with a fourth place in the writer's hands.  Explorer: batches of 1 and two blocks give a fetch that is
overtaken, and a second query that waits for the lock or replaces the cache.

**Fairness.**  None in the ledger and storage runs, whose properties are safety.
`BlockSync`: the dispatcher takes queued events in order and ticks are queued
every `maintenance_interval`, so each delivery, the polling tick, each elapsed
timer, the dialling of a missing connection and the correction of a late clock
are weakly fair.  Faults, refusals and mining are not.  `MempoolSync`: the same
tasks, each for some node or pair of nodes: in the instance only one reads, so
that nobody is overtaken for ever.  `WalletSend`: every await
ends, in an answer or an error, because each is a queued command of the node (or
the node's failure) or a bounded worker; nothing makes clients call.
`NodeDispatcher`: the startup, the dispatcher, the cleanup, the tick and the tasks
of a connection that is closed run; callers and the network promise nothing, but
a body that does not come ends in `body_timeout`.
`PeerSessions`: ticks come, backoffs end, dials and closings proceed and what is
sent arrives.  `MiningService`: every await ends and a time limit cuts the thread
off.  `WebSocketManager`: sends and closings have time-outs of 2 s, and a handler
looks at its `done_event`.  `ExplorerService`: the node answers every call, as
`NodeDispatcher` shows; nothing makes clients ask.

## 5. What the properties mean

* `AlwaysRecoverable` is an equivalence: a committed database opens exactly when
  the clock is not too early for a timestamp in it.  The refusal after the clock
  was set back is intended (the error says so), and is the only one.
* `TemplateAcceptable`: a template made from the pool at a time the rules allow
  is accepted by `add_block`, colliding coinbase txids included.
* `SessionsAreTrue` and `Converges` hold the two halves of what a user reads from
  `sync_state`: DIVERGED means a fork, and a fork is reported.  A report may
  vanish for a while: an answer that was on its way resets it, hence "again and
  again".  `SessionsAreTrue` also says that the download slot is taken exactly
  while a request is outstanding.
* `PoolFollowsLedger` holds the pool's accounting too (byte total, limits,
  reservations), and `AlwaysRecoverable` that a reload gives exactly what was
  saved.
* `QueriesAgree`: what an address mined and received, less what it sent and paid in
  fees, is its balance in the UTXO set; the explorer and the wallet list the same
  transactions with the same amounts; and no more coins exist than were rewarded.
  Balances are compared for addresses that sign all inputs of what they send,
  because a record shows the whole amount and fee to every signer.  For
  pending transactions the two are compared where every input is confirmed: the
  explorer does not look up the owner of an output that is itself pending, so it
  may show the child of a pending payment as received, or not at all, where the
  wallet shows it as sent.
* `ViewsAreFresh` allows what the code does not exclude: `get_address_detail`
  reads again once, so two blocks during one query may leave balance and history
  of different tips.  A slow query may also replace the cached view by an older
  one; the next query then rebuilds it.
* `TransactionsAreFound` has an exception for `search`, which looks at the pool
  after the chain and not again at the chain.
* `PoolsConverge` is stated for what the reader's pool admits, and needs that no
  pending transaction is too large for a page: one such transaction in a snapshot
  makes every export of it be refused (`POLICY_LIMIT`).
* `OneMining` has two exceptions, which the code has.  A job that FAILED because
  its worker could not wait for its thread leaves this thread mining beside the
  next job, and past `close()`.  A request that was past the closed check when
  `close()` came starts its job afterwards; there is at most one such job.
* `EverythingEnds` leaves out a job whose worker died of an exception because a
  thread could not be started; it says that such a job can be cancelled.
* `Delivery` leaves out, for each client, the messages whose broadcast raised too
  early; that there are any is finding 1.
* `SlotsMatch` counts the slots of handlers that were cancelled twice in their
  cleanup as taken (`LostStep`).
* `RejectedNotPaid` is stated up to a second key that asked for the very same
  transaction.  The exception is real, but takes three keys: the first fills the
  pool, the second is rejected for that, and the third asks for the second's
  payment in the same second, when there is room again.

## 6. What is proved

TLAPS proves these for every value of the constants, under the assumptions stated
with them, which TLC evaluates in each run: bounds and limits are natural numbers,
times, rewards and coins sets of them (`TimesAssumption`, `RewardsAssumption`,
`BodyAssumption`, `HeightAssumption`, `RevisionAssumption`, `MempoolLimits`,
`FutureAssumption`, `WalletAssumption`, `ExplorerAssumption`); txids do not collide
except where coinbases are equal (`TxidNamesContent`, `TxidNotCoinbase`);
transactions have passed the type checks of their constructors
(`TransactionShape`); a frame or a command has at least one byte, there are
finitely many peers and names of peers, calls, clients and jobs are different
(`ConnectionAssumption`, `DispatcherAssumption`, `MiningAssumption`).

**Data.**  The ledger rules are folds over sequences, and many properties are about
sums.  The library's induction theorems take a predicate as a parameter, which the
installed provers cannot instantiate; `SequenceLemmas` therefore derives induction
over the natural numbers as a fact about a *set* (`NatInductive`, from the
well-foundedness of <).  A fold is first shown to be a sequence of rounds
(`ApplySteps`, `ReplaySteps`, `RebuildSteps`, `SelectSteps`: there is a function `h` with `h[0]` the
start, `h[k]` one round from `h[k - 1]` and `h[n]` the result); what the fold
keeps is then shown round by round.  `SumFunction` is treated the same way
(`SumSteps`, `AnyOrder`), which gives how a sum changes when a term is added,
removed or changed.

`BlockchainProofs`: `NoDoubleSpendTheorem`, `StateIsHistoryTheorem`, `PoolTheorem`,
`SupplyTheorem`, `TemplateTheorem`, `KeepsTheRestTheorem`.  Neither of the first two is inductive: that a new block spends nothing twice
depends on the cached state, and the cached state is right because of the blocks.
`IInv` has both: `History` (the UTXO set is what was created and not spent, the
seen txids are those of the chain, everything spent was created before, once) and
`Replayed` (there is a sequence of states, one per block, each the next block
applied to the one before it, every header check included but the clock's).
`PoolIInv` adds that amounts are integers (`Sound`) and `Follows`, what
`PoolFollowsLedger` says of the pool; the rebuilding of a pool keeps it whatever is
passed over, so that removals and blocks are one argument.

`TemplateIInv` adds `Stamped` (no block is younger than the last one, and a coinbase
has the second of its block) and that the pool is `Payable`: there is one UTXO set
with everything confirmed or pending, spent or not, against which each entry is valid.
A selection repeats nothing and has parents before children (`Chosen`), which `SelectNext`
keeps because a best entry exists among those that are ready (`BestIsReady`; fee rates
are compared by cross-multiplication, an order because no transaction has size 0).
Such a selection applies to the confirmed state (`ChoiceApplies`): each input is
confirmed or made by a parent selected before, and has the amount it had at admission.
The template's coinbase is new since the default timestamp is later than any in the
chain (`FreshCoinbase`).

`SupplyBounded` is a conjunct of `BooksBalance`; it is proved with `PoolIInv`, because
a batch loses exactly its fees (`BatchConserves`) and the coinbase adds at most the
fees and a subsidy (`BlockConserves`).  For `PoolKeepsTheRest`, `Separates` says when a set
is the right one to drop: each of its members is passed over or has an input that
is neither confirmed nor made by what stays, and nobody else has.  Then a rebuild
refuses exactly that set (`RebuildKeeps`): what stays is valid with the amounts of its
first admission, and the limits cannot bind, since there is less in the new pool
than there was in the old one.  That a removal and a block leave such a set
follows from `Orphaned` being the least closed set (`OrphanFacts`), and for a block
from the histories before and after it (`BlockSeparates`).

`PersistentBlockchainProofs`: `TypeCorrect`, `MetadataTheorem`,
`AgreementTheorem`, `DurabilityTheorem`, `SerialWritesTheorem`,
`RecoverableTheorem`, `LedgerTheorem`.  The inductive
invariant of the first five is

    IInv == TypeOK /\ MetadataMatches /\ Agreement /\ AcknowledgedIsDurable

None of the last three is inductive alone.  A write replaces the rows from the
writer's memory, so the chain is only kept because the writer's chain *is* the
committed one; that follows from `Agreement`, but only once `_check_expected`
has compared the revision (`ExpectedAgrees`).  `Agreement` in turn needs that no
live instance is ahead of the rows, and a reload needs `MetadataMatches`.
`SaveIInv` says that any write that takes the next revision and publishes what it
saved keeps `IInv`; the two kinds of write are instances of it.  This part does
not depend on what a valid block or transaction is.

The last two theorems do depend on the rules.  `Kept` adds that the committed
blocks replay to the committed state and that the saved rows, re-admitted in
order, give the pool object that every up-to-date instance serves (`SavedPool`).
It holds because a pool is its entries' transactions admitted one after the other
(`Reloads`), which each operation on a pool keeps.  `AlwaysRecoverable` follows with
`ReplayReproduces`.  For `ImplementsBlockchain` the refinement maps the rows, and
`SavedPool` for the pool; the lemmas `Same...` say that the operators of the instance
are those of the module.

`WalletSendProofs`: `TypeCorrect`, `RowsTheorem`, `PaidOnceTheorem`,
`ReceiptsTheorem`, `AcceptedTheorem`, `RejectedTheorem`.  The inductive invariant is
`Inv == TypeOK /\ CallsMatchRows`.  Its core is that only the head of the lock's
queue is past the lock (`OnlyOneInside`), so no other call can touch the row a
suspended call relies on, and that a key's submitted transactions are in its row,
which has exactly one.  `PaidOnce` follows at once.  `AcceptedTheorem` needs
`AcceptInv`, which adds the calls that are about to record "accepted", and
`CoinInv`: no two transactions the wallet has announced spend the same coin, so
that what a block confirms evicts none of the others.  `RejectedTheorem` needs the
same for calls about to record "rejected" (`RejectInv`): such a transaction was
never announced, unless another key sent it.

`NodeProofs`: `BudgetTheorem`, `AnswersTheorem`, `BooksTheorem`, `HandshakeTheorem`.  `BudgetExact` counts what
readers and writers hold, and what they give back depends on the await they are in:
`ConnInv` says of each connection that a reader has a reservation only while it
waits for a body or was cancelled there, a writer a frame only while it drains or
was cancelled there, a connection that is being closed takes no more frames, and the
socket is closed after both tasks have ended and the queue was discarded.  `IInv`
adds the two sums, that `ticking` tells whether a tick is queued, and that a queued
call is queued once and not yet answered (`CallInv`).

The last two theorems are about `PeerSessions`, for any number of nodes and
connections and any limits.  `SessionsInv` says of each session that its flags are
set in the order of the handshake and that its inbox continues what it has taken
(`EndFits`); of the two ends of a connection, that what is on the way is what one
side has sent and the other has not taken (`InTransit`); of a node, that it has one
established session with a peer at most (`OneLink`); and of each candidate, that
`connected` and `dialing` follow the sessions and the dial tasks (`BookFits`).  That
no frame is unexpected needs the first two together: a VERACK is only on the way to
a session that has had the VERSION.  `OneLink` needs that a session is established in
the step that closes its rivals (`RestFacts`), and not which of them is kept.
`BooksAgree` rests on the reaping: it takes back `connected` only for an endpoint that
no other established session leads to (`Reaping`).  The proof module extends
`PeerState`, which has the state and the invariants, and instantiates the steps;
`SameState` says that both speak of the same things.

`MiningServiceProofs`: `OneMiningTheorem`, `StatusTheorem`, `FinalTheorem`.  The
invariant says which statuses and verdicts a job may have at each await of its
worker (`Sound`), how its block relates to the chain (`ChainFits`), and that a busy
job is the active one (`ServiceFits`).  The last part rests on the lock: only its
holder is between the busy check and the new job (`ClientFits`).  That only one job
is born after `close()` was called follows from it too (`LateFits`): such a
job is the last one created, and no request is past the check of `_closed` any more.

`ApiProofs`: `FreshTheorem`, `FoundTheorem`, `SlotsTheorem`, `DeliveryTheorem`.  For the
explorer the invariant says for
each await how the local variables of a query compare with the chain as it has
become: the view and the tip it read are not older than the query (`ViewFits`), an
address is read again only when a block came (`AddressFits`), and a transaction found
neither pending nor in the chain was unknown at some moment or is in a block that the
second look at the chain includes (`TransactionFits`).

For the WebSocket manager `SlotsInv` says what a session holds at each await of its
handler and its writer (`SessionFits`), what `stop()` has already taken from it in each
of its phases (`StopFits`), when a socket is in the list of clients (`Listed`), and that
the counters are cardinalities.  `SlotsMatch` needs all of it: that a slot is given
back once depends on the handler's place, and that nobody is left after `stop()` on
the phases before.  `StreamsInv` adds what a client was told (`Told`): its stream of
sent, outgoing and queued messages is lengthened by broadcasts only, shortened only
at places that hold no critical message, and lacks exactly what the client has
missed.  Here too the state is extended
(`WebSocketState`) and the steps are instantiated (`SameSockets`).

The type invariants are proved with the rest, as conjuncts of each inductive
invariant.

## 7. What is only model-checked, and what is not modelled

Only model-checked:

* `QueriesAgree` of the ledger run, but for the bound on the supply: its folds sort
  and filter sequences with `SelectSeq`, of which the prover knows nothing;
* the invariants of `BlockSync` and `MempoolSync`, whose statements depend on what
  each side may still have on the way to the other in several overlapping exchanges;
* that the two ends of a pair keep the *same* connection (`SameSurvivor`, a part of
  `Reconnects`): it compares decisions of two nodes, is stated for states at rest
  only, and holds when no node refuses a connection for want of slots;
* liveness (`Converges`, `PoolsConverge`, `EveryCallEnds`, `EverythingEnds`,
  `EndsInTime`, `Reconnects`, `StopEnds`, `QueriesEnd`), which the prover does not
  handle.

Not modelled, and why:

* bytes: codecs, framing, hashing, the Merkle tree, signatures, proof of work and
  key encryption.  Where a limit on sizes decides something, the model keeps the
  decision (`Encodable`, `Full`, `Oversized`, how many blocks fit a frame);
* accounts: registration and login each change their rows in one transaction with
  no await in it, and the login guard's and the rate limiter's windows are changed
  by functions that do not await, so that no order of steps is left to explore;
  what they compute is arithmetic on the clock;
* expiry, capacity and the length of a backoff in `peer_manager.py`, for the same
  reason; `PeerSessions` has the rest of it;
* coin selection: in `WalletSend` a payment takes one coin, the smallest one free;
* `mine.py`, which without a node is a template and an `add_block` of
  `PersistentBlockchain`, HTTP routing, configuration, start and stop of the API
  process, and the web pages.

Limits of the models: a node without a chain database forgets its pool when it
restarts, so that a key retried after a restart may be told "rejected" and still
be confirmed; `WalletSend` describes a node with one.  The limit on peers is
compared when a dial begins and when a socket is accepted; no run has more peers
than slots.  `connect()` that finds an open session waits for it and is left out
of `PeerSessions`: it changes no state, but its loop over the live dict of
sessions may raise `RuntimeError` when one is reaped meanwhile
(`network/node.py:356`).  In `ExplorerService` the branch for an incomplete
snapshot is never taken, because the chain does not shrink.

## 8. Plan

Done: ledger, mempool, storage, wallet send, node dispatcher with its connections,
handshake and sessions, mining service, WebSocket manager and explorer, all with
proofs of their safety properties; block synchronisation and pending transactions,
model-checked.  Next:

1. The other two conjuncts of `BooksBalance`, from `History`.
2. The download slot in `SessionsAreTrue` of `BlockSync`, then `NeverAccused`.
