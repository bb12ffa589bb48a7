# A TLA+ model of qitmeer

qitmeer is a node of a cryptocurrency whose blocks form a DAG: a block names
several parents, and every node computes from the DAG a total order of the
blocks, which is the ledger. This directory models the parts of the node on which
the agreement about that order and what is stored of it rest, checks them with TLC
on small instances and proves some of what they promise with TLAPS. All paths are relative to the
repository (`src/`).

## The parts of the system

| part | state | operations | what is hard |
|---|---|---|---|
| block DAG, `core/blockdag` | blocks with parents, children, layer, colours, order; tips; main chain; commit sets | `AddBlock`, `Commit`, `Load`, `rollback` | every node computes incrementally, along its own order of arrival, what must come out the same everywhere |
| chain, `core/blockchain` | UTXO set, spend journal, best state, orphan blocks, notification cache | `ProcessBlock`, `maybeAcceptBlock`, `connectDagChain`, `reorganizeChain`, `RefreshOrphans` | reorganisations; goroutines; locks released half way; several database transactions per block |
| token state, `core/blockchain/token` | balances per block | `updateTokenState` | must follow reorganisations |
| memory pool, `services/mempool` | `pool`, `outpoints`, `orphans`, `orphansByPrev` | `ProcessTransaction`, `RemoveTransaction`, `RemoveDoubleSpends`, `RemoveOrphan`, `ProcessOrphans`, `PruneExpiredTx` | the chain moves while the pool looks at it |
| block manager, `services/blkmgr` | notifications, mined blocks | `handleNotifyMsg`, `blockHandler` | keeps the pool in step, one lock at a time |
| indexes, `services/index` | tips per index | connect, disconnect, catch up | restart between two steps |
| mining, `services/mining`, `services/miner` | template | new template, submit | stale templates |
| peer synchronisation, `p2p/synch` | sync peer, graph states | peer update, get blocks | the sync peer changes between a check and its use |
| peers, discovery, `p2p/peers`, `p2p/discover` | connections, node table | connect, ping, find node | timeouts |
| database, `database/ffldb` | block files, metadata, cache | transactions, flush, reconcile | crash between file and metadata |
| event feed, `core/event` | subscribers, send lock | `Send`, `Subscribe`, `Unsubscribe` | unsubscribing during a send |
| rule changes, difficulty, median time | caches | threshold states | boundaries |
| scripts, cryptography, serialisation, RPC, tools | - | - | computation or I/O |

They interact so: a block comes from the miner or a peer into `ProcessBlock`,
waits as an orphan or goes through `maybeAcceptBlock` into the DAG; the DAG
answers with the blocks whose order changed; the chain disconnects and connects
them, writes what changed to the database in many transactions, and caches
notifications; these are sent through the event feed after the lock is released,
and the block manager updates the memory pool from them. After a crash the node
starts from whatever transactions the database kept.

## Modules

| module | models |
|---|---|
| `PhantomRules` | the pure functions of the PHANTOM instance: who is bluer, which parents are allowed, the diff anticone, colours, the order of a diff anticone |
| `Phantom` | one node's DAG: `AddBlock` with all it calls in memory, and the chain of blocks that `connectDagChain` keeps connected |
| `PhantomNodes` | two nodes, the second receiving the first one's blocks in any order with parents first |
| `DagLedger` | abstract: a growing DAG and a ledger that linearises the past of its last block |
| `ChainState` | functions on what the chain stores: UTXO set, spend journal, transaction index, token states, block status; connecting, disconnecting, and the check of coinbase maturity |
| `ChainStore` | `Phantom` and `ChainState` composed: a node that takes blocks in through all its database transactions, crashes between any two and starts again |
| `TxPool` | the memory pool, the handler of block notifications, and which transactions the chain has confirmed |
| `BlockProcess` | `ProcessBlock`, the orphan blocks, `RefreshOrphans` and the notification cache, run by several goroutines |
| `EventFeed` | `core/event/feed.go`: sending, subscribing and unsubscribing goroutines |
| `FlatFileDb` | `database/ffldb`: block files, leveldb, the cache between them, failing I/O, crashes, opening |
| `DurableStore` | abstract: transactions that are atomic, and crashes that leave a prefix of them |
| `MC...` | instances for TLC |
| `...Proof`, `PhantomLists`, `PhantomOrder`, `PhantomLedger` | theorems and their lemmas |

**Phantom.** A block record has the fields of `Block` and `PhantomBlock` that
decide anything; a hash is a number, since hashes are only compared. `AddBlock` is
one action (it holds `stateLock`); it either keeps the main tip (`KeepMainTip`) or
moves it (`MoveMainTip`), the two paths of `updateMainChain`. `Next` lets a new
block name any antichain, which is what a miner's tips are; `NextAnyParents` lets
it name whatever `isDAG` accepts.

**ChainState, ChainStore.** A block's body is a sequence of transactions, a
transaction spends outputs of transactions or coinbases, amounts are left out.
`ChainState` is a set of functions from a store to a store, one per database
transaction of `connectDagChain`. `ChainStore` lists those transactions
(`chainSteps`) for the change of order that `Phantom` computed, followed by the
best state, the order index, the changed blocks and the ids of the main chain.
`AcceptBlock` performs all of them; `CrashInBlock` stops after any number, and
within the last group after any subset, since that loop ranges over a map. `Start`
is `BlockChain.New`: `Load` with its consistency checks, then the roll-back and
catch-up of the index. That a crash leaves a prefix of the transactions is what
`DurableStore` promises and `FlatFileDb` is shown to keep. Memory that is rebuilt
at start (`tokenTip`, `invalid`) is read from the best state and the stored blocks.

**TxPool.** Each operation of the pool is one action, as each holds `mp.mtx`,
except `ProcessTransaction`: it reads the chain in `BeginProcess` and acts in
`AcceptProcessed` or `OrphanProcessed`, and the chain may move in between. A block
holds one transaction; a reorganisation is a run of `DisconnectBlock` and
`ConnectBlock`. The four calls of the handler of `BlockConnected` are four actions.
Checks that only refuse (fees, scripts, standardness) and token transactions are
left out. `gone` is a history variable.

**BlockProcess.** A step is a stretch of code under one lock or one access to what
no lock protects. Sanity and context checks are constant sets (`Insane`,
`Refused`). Expiry and `IsOrphanOK` may drop any orphans, and the oldest orphan is
any of them when the pointer is nil, which is more than the code does. `ready` and
`overlap` are history variables; `overlap` says that some call began while another
was under way.

**EventFeed.** Channels are unbuffered, as the node's are. `cases` is the length of
the prefix of `sendCases` that `Send` still has to serve, and `deactivate` and
`delete` permute and shorten the sequence as the slices of the code do.
A subscriber that quits no longer receives; its `remove` looks into the inbox and
then either takes the send lock or hands its channel to the running `Send`.

**FlatFileDb.** A file is a sequence of pieces, `Units` to a record, so that a
write can fail or a crash come inside a record. `ldb` is leveldb, whose
transactions are atomic and durable; `cache` is the pair of treaps; `pend` those of
the transaction. A step of `writeBlock`, `handleRollback`, `flush` and `Snapshot`
ends wherever a reader can look or a fault can hit. `faults` bounds the failing
operations, `crashes` the crashes; with `PowerLoss` a crash also cuts files back to
any length at least what was synced. `dropped` and `torn` are history variables:
files whose write handle was closed before a sync, and those of them a power loss
cut. The window of a snapshot between its two reads is modelled by two actions.

## Runs

| run | bounds | shows |
|---|---|---|
| `phantom` | 6 blocks, every assignment of hashes, anticone size 0, gap 1 | links, diff anticone, order, main chain and connected chain stay consistent; building on the main tip only appends |
| `phantom_nodes` | 6 blocks, falling hashes, size 0, gap 1 | the nodes agree on every block and connect the same chain; a block one accepted the other accepts |
| `wide_gap` | one DAG of 36 blocks, anticone size 4, gap 10 | violation |
| `chain_state` | 6 blocks, 4 transactions (a double spend, a chain of spends, a token), maturity 1, 1 crash | the store is the replay of the order; the database has what memory has; a start has a block wholly or not; maturity is exact; the node implements `DagLedger`, crashes included |
| `chain_blue` | 7 blocks, the last spends a coinbase | violation |
| `chain_crash` | as `chain_state` | violation |
| `txpool` | 4 transactions with a chain of spends and a double spend, 2 notifications waiting, 2 undone blocks | the indexes are exact; a quiet pool can be mined; stale transactions leave |
| `block_process` | 2 goroutines, 4 blocks of which two are refused, 1 orphan | orphans and DAG are disjoint, no refresh passes over a ready orphan, every call returns; while calls do not overlap no duplicates, one announcement each, and a ready orphan is left only if a parent is as high as it is |
| `block_process_duplicate` | 2 goroutines, 4 blocks | violation |
| `event_feed` | 2 senders, 3 subscribers | each subscriber is in one list once; a `Send` reaches everyone who stays, once; `Send` and `Unsubscribe` return |
| `ffldb` | genesis and 2 blocks, records of 2 pieces, 2 records to a file, 1 reader, 1 fault, 1 crash or power loss | committed blocks can be read, by old snapshots too; the metadata is never ahead of the files; the next write is behind all records; `DurableStore` is implemented |
| `ffldb_snapshot` | the same | violation |

Six blocks with a gap of 1 hold a fork, a merge, a merge of merges and parents
refused for their layers, and reorganisations of several blocks. They do not hold
what needs long chains, as `wide_gap` shows: `DiffAnticoneExact` and
`FutureKeepsPast` hold in `phantom` at its bounds and fail with the constants of
the code on a longer DAG. With falling hashes, combinations of hashes that agree
with no order of creation do not occur, so the runs that use them cover fewer
hash assignments than `phantom`.

In `chain_state` a block is connected, disconnected and connected again in another
place; it is valid in one place and invalid in the other; and a transaction is in
two blocks of one order. Transactions spend the genesis coinbase only, since
`chain_blue` shows what happens with others. After a crash between two steps of
the chain the store and the DAG disagree (`chain_crash`), so what such a node does
with further blocks is not followed. One crash is enough for every set of
transactions a crash can leave; a second crash, during a start, is not followed.

In `block_process` a height is one above that of the main parent, and no more: the
genesis block stands for all the node has already, the main parent of `d` is
there, and `d` is no higher than its other parent `b`. With both in the pool the
sweep may leave `d` behind, ready; `c`, which is higher than `b`, it never leaves.
Three blocks would hold one of the two only. With one fault and
one crash `ffldb` reaches a failed write that is rolled back before a crash, a
crash whose repair at the next open fails to delete or truncate a file and is
followed by new writes, and a flush that fails after a file was completed. A failed
write whose rollback fails as well takes two faults: the same configuration with
`MaxFaults = 2` has 6,893,174 states, takes TLC 17 minutes and shows the same, so
it is not kept as a run.

Runs of `Phantom`, `ChainStore` and `TxPool` end when their bounds are used up, and
a database reported corrupt stays closed, so deadlock is not checked in them.

Three more configurations are not part of the list of runs and show the
disagreements below: `MCTxPoolDependents.cfg`, `MCTxPoolOrphans.cfg` and
`MCFlatFilePower.cfg`.

**Fairness.** `TxPool!FairSpec`: the goroutine of the handler runs, and a waiting
`Lock` gets its turn (Go's mutexes hand over to a starved waiter), hence strong
fairness of `Handle`; a call holding the lock ends. `BlockProcess!FairSpec`:
goroutines run (weak fairness of each step), and `ChainLock` is strongly fair, as
`sync.RWMutex` admits no new reader while a writer waits. `EventFeed!FairSpec`:
goroutines run, a subscriber returns from its handler, and whoever receives from
`sendLock` gets its turn, as a Go channel serves its receivers first come, first
served. Nothing is assumed of when, or whether, a subscriber quits.

## Disagreements between the code and its comments

Shown by runs (PROJECT.json quotes the comments):

- `wide_gap`: "the future can not affect the past". `getDiffAnticone` follows the
  main parent a fixed number of generations; a block that the other parent reaches
  in few steps and the main parent in many is ordered a second time.
- `chain_blue`: during a reorganisation `MainChain.Has` answers from the database,
  where the abandoned main chain still is, and maturity is checked against both.
- `chain_crash`: the UTXO set is written before the best state, and a start after a
  crash in between does not bring it back.
- `block_process_duplicate`: the check for duplicates is not repeated after the
  lock was released.
- `ffldb_snapshot`: `Snapshot` reads leveldb and then the cache, and a flush in
  between hides what was committed. Write transactions hold the write lock from
  before their snapshot and are not affected.

Seen in the code and not kept as runs:

- "because they are still valid" (`services/blkmgr/blkmgr.go:218`): a block that
  failed to connect is announced like one that connected, and the pool keeps the
  dependents of its transactions (`MCTxPoolDependents.cfg`).
- "Accept any orphan transactions that depend on this transaction"
  (`services/mempool/mempool.go:613`): an orphan is refused as a duplicate of
  itself (`MCTxPoolOrphans.cfg`).
- "Since sync is called after each block is written and before the metadata is
  updated" (`database/ffldb/reconcile.go:101`): `writeBlock` closes a full file
  without a sync, and a flush syncs the current file only; after a power loss
  the metadata may name blocks that are gone (`MCFlatFilePower.cfg`).
- `flushNotifications` empties the cache without a lock
  (`core/blockchain/notifications.go:112`): when calls overlap, a notification may
  be dropped or sent twice. `AcceptedAnnounced` and `AnnouncedOnce` are therefore
  stated for calls that do not overlap.
- `IsDAG` never refuses a block with several parents, because the diff anticone
  always holds all parents but the main one; `checkLegality` refuses direct links
  only. A block on the main tip and on an older ancestor of it is accepted, and
  the ancestor gets a second order.
- `addOrphan` (memory pool) evicts nothing, though the comment at
  `services/mempool/mempool.go:663` speaks of a limit.
- `oldestOrphan` outlives its orphan, and `addOrphanBlock` may then exceed its
  limit (`core/blockchain/orphan.go:162`).
- "until there are no more" (`core/blockchain/orphan.go:182`): `processOrphans` sweeps
  once by height, and a height is above that of the main parent only. A block no
  higher than another of its parents may be passed over and stay, ready, until the
  next refresh. `ReadyLeftOvertaken` says that the sweep leaves no others.
- An orphan that one goroutine adds after another has made its queue, and before its
  parent is accepted from that queue, stays until the next refresh as well.
  `ReadyLeftOvertaken` is therefore stated for calls that do not overlap.
- Nothing puts the transactions of a disconnected block back into the pool.
- The token updates of a block that failed `checkConnectBlock` are applied all the
  same, and blocks in the common start of an old and a new order are not validated
  again when a reorganisation changes what is blue.

## Proofs

For all values of the constants that satisfy the named assumptions
(`RuleAssumption`, `BlockAssumption`, `TxAssumption`, `ProcessAssumption`,
`FeedAssumption`, `DbAssumption`):

- `PhantomProof`: `LinksConsistent`, for `Spec` and for `SpecAnyParents`. The
  inductive invariant `LinkInv` adds that ids have no gaps, parents are older, and
  a layer is at most the id: without the last, `maxLayer` need not exist. The other
  functions of `AddBlock` are shown to leave the link fields alone.
  Then `MainChainFromBluest`, for both. The tips alone are compared in the code;
  that the main tip is bluer than every block follows because a step only ever
  moves it to the new block. The main chain is cut and prolonged by walks, which are
  recursive functions: the module proves a recursion theorem (`RecursionExists`, for
  any well-founded order) and with it that `getDiffAnticone` ends and finds blocks
  of the DAG, that the path to the main chain has one block for each height, and
  that a rollback takes off what is higher than the intersection. `MainInv` adds
  that every block is one higher than its main parent, an older block, and that
  hashes differ. The last part is about the past of a block and about what the walk
  of `getDiffAnticone` finds: `DiffAnticoneFound` says that it is the diff anticone
  when the links are short enough for the walk (`WalkCase`).
- `PhantomLists`: what the functions that list blocks return. `getDiffAnticoneOrder`
  drains a stack; its result has every block of the diff anticone once and parents
  first, which is proved along the number of blocks not yet placed. `updateMainOrder`
  numbers the lists along the main chain, and `connectDagChain` turns the connected
  chain into the new order by disconnecting down to the common start.
- `PhantomOrder`: one step keeps `OrderInv`, if the walk for the new block was wide
  enough. `OrderInv` is `MainInv` with: every block's list is right; the blocks
  along the main chain with their lists, one after the other, are a list in
  topological order of the main tip and its past; blocks and database number that
  list, the blocks outside of it have no order, and the connected chain is the list.
  The hard step is a reorganisation, where the list below the intersection stays.
- `PhantomLedger`: the theorems about the order. That the walk was wide enough for
  every block (`WalkExact`) does not hold with the constants of the code, as
  `wide_gap` shows, so it is a hypothesis of the first group, which is about whatever
  parents `isDAG` accepts: `DiffAnticoneExact`, `OrderCoversPast`, `OrderTopological`,
  `ChainMatchesOrder`, `FutureKeepsPast` and the refinement of `DagLedger` follow
  from it. The second group says when the walk is wide enough. `ShortLinks` is a
  condition on the DAG alone: a block that is merged in other than by the main
  parent has no parent more than one layer below it, unless that parent is at most
  `MaxTipLayerGap` + 3 layers below the main parent of the merging block. Where it
  holds, `WalkExact` and all the rest hold for any number of blocks
  (`WalkAlwaysExact`, `DiffAnticoneAlwaysExact`, `OrderAlwaysHolds`). A DAG of at
  most `MaxTipLayerGap` + 5 blocks cannot break it, so for those nothing is assumed
  (`YoungDagOrdered`): this takes in the run `phantom`, and every DAG of up to 15
  blocks with the layer gap of the code. The block in `wide_gap` that is ordered a
  second time is reached over a longer link.
- `TxPoolProof`: `TypeOK`, `SpentIndexExact`, `OrphanIndexExact`, from `PoolInv`;
  and `QuietPoolSpendable`, which is about a quiet pool and rests on what is true
  while notifications wait (`SpendInv`): the blocks the pool has not heard of are
  the last ones of the chain and are announced in order; a pool transaction is in
  none of the others; and each of its inputs is unspent, made in the pool, lost
  with a dropped transaction, or spent by a block still to be announced or by the
  one whose handler has yet to call `RemoveDoubleSpends`. It needs that every
  transaction has an input, which `CheckTransactionSanity` sees to
  (`ErrNoTxInputs`, part of `TxAssumption`): one without could enter the pool again
  after its block.
- `BlockProcessProof`: `TypeOK`, `OrphansOutsideDag`, `SweepTakesReady`, for any
  number of goroutines. `ProcInv` adds that the DAG is closed under parents, what
  each goroutine has in hand, and that ready orphans have their parents.
  Then, while calls come in turn, for any number of
  goroutines: `NoDuplicatesInTurn`, `AcceptedAnnounced` and `AnnouncedOnce` follow
  from `TurnInv`: the block in hand is not in the DAG, and a block of the DAG has
  been announced or is in the cache, never both. `ReadyLeftOvertaken` follows
  from `SweepInv`: an orphan the sweep has passed over waits for a parent and is not
  higher than any block left in the queue, so if its last parent is accepted from
  there, that parent is as high as it is, or higher. Nothing is assumed of the
  heights; where they grow along every link, no ready orphan is left at all.
- `EventFeedProof`: `TypeOK`, `SubscribedOnce`, `DeliveredToAll`, for any number of
  senders and subscribers. `FeedInv` adds that a running `Send` knows every
  subscriber in `sendCases` and that its locals are reset when it returns. The
  lemmas say what `find`, `delete` and `append` do to a list without repetitions.
- `FlatFileDbProof`: `ImplementsDurable`, the refinement of `DurableStore`. The
  abstract current state is what leveldb with the cache on top shows, the durable
  one leveldb alone, and the transaction what the pending changes and the blocks
  still to be written make of the current one. `DbInv` adds what the steps of a
  flush rely on: when the cache is cleared leveldb has all of it, when a
  transaction goes to leveldb directly the cache is empty, and the cache is empty
  whenever the database is not open. Each action is then a step of `DurableStore`
  or leaves the three alone.
  Then `TypeOK`, `CommittedReadable`, `CursorNeverAhead` and `CursorPastRecords`, for
  any blocks, record and file sizes, readers, faults, crashes and losses of power.
  None is inductive. `FileInv` is about positions in the files: every key of the
  metadata reaches to one (the end of a record, or the cursor); leveldb reaches no
  further than its own cursor, a view no further than where a rollback of the
  transaction goes back to; the files hold all of these positions, and hold them
  synced as far as leveldb is concerned, except in files that were closed without a
  sync. The lemmas say that truncating, writing at the cursor and cutting off what
  was not synced leave alone what is before the position they work at; each step of
  the metadata has a lemma.

Only model-checked: liveness (out of reach of the prover); `TypeOK` of `Phantom`;
agreement of nodes (`BlocksAgree`, `NodesConverge`, `NeverRefused`), which compares
two histories; and the chain state (`StoreIsReplay`, `DiskMatchesMemory`,
`LoadAllOrNothing`, `MaturityExact`, the refinement of `DagLedger` by `ChainStore`),
where a replay is a fold of functions on the store over an order, an induction over
data. Without a condition on the links there is nothing to prove about orders:
`wide_gap` refutes it.

## Not modelled

- Peer synchronisation beyond its calls into the chain, peer management and
  discovery: timeouts and bookkeeping around network I/O.
- Weights, confirmations, threshold states and difficulty: functions of the chain
  of main parents; difficulty is arithmetic on 256-bit integers.
- A database that fails under the running chain: the chain panics on most errors
  and logs the others.
- ffldb's buckets, cursors, iterators and pool of read handles; files that a power
  loss makes disappear or come back whole (directory entries).
- Amounts and fees, the address and existence indexes, mining templates.
- Scripts, cryptography, serialisation, RPC and the command-line tools:
  computation or I/O without state of their own. Validation rules of a single
  block or transaction enter the models as their verdict.
- The alternatives to phantom (`--dagtype`).
