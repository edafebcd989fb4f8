# bitmarkd in TLA+

This directory holds TLA+ models of bitmarkd (the Go node of the Bitmark property
system), the TLC configurations that check them and proofs that TLAPS checks. All
source paths are relative to the repository. `PROJECT.json` maps every definition
to the lines it models and lists components, runs, mutants, findings, hazards and
theorems.

## 1. The system

A node keeps a chain of blocks in LevelDB with an index of who owns what
(`storage`, `ownership`, `block`, `blockheader`), a memory pool of transactions
that wait for payment or for a block (`reservoir`, `asset`, `payment`), a
proofer that offers blocks to miners (`proof`, `command/recorderd`), and peers it
exchanges blocks and transactions with (`peer`, `announce`, `publish`,
`messagebus`). Clients talk to it by RPC (`rpc`, `command/bitmark-cli`).

| part | source | state | module |
|---|---|---|---|
| database transaction | `storage/access.go`, `cache.go`, `transaction.go` | batch, cache, in-use flag | `Storage`, `AtomicStore` |
| pools, ownership index | `storage/handle.go`, `ownership/transfer.go` | 12 key spaces | `Ownership` |
| block store, delete, startup | `block/store.go`, `delete.go`, `setup.go` | database, header | `Ledger` |
| memory pool | `reservoir/*.go` | 6 pools, 2 indexes, links, counters, orphan payments | `Reservoir` |
| digest cache | `blockheader/get.go` | ring of digests | planned |
| asset cache, load/save, fetch | `asset`, `reservoir/loadsave.go`, `fetch.go` | cache, file | planned |
| synchronisation | `peer/connector.go`, `voting`, `upstream`, `block/blockstore.go` | state machine, votes, caches per peer | `Connector` |
| announcements, AVL tree | `announce`, `avl` | tree, expiry | planned |
| payments | `payment` | discovery, tracking | planned |
| proofer, miners | `proof`, `command/recorderd` | published jobs | planned |
| message bus | `messagebus` | bounded queues, cache | planned |
| pure algorithms | `merkle`, `difficulty`, `util`, `blockrecord` | none | planned |
| codecs | `transactionrecord`, `account`, `currency` | none | partly planned; cryptography is left out |
| user interfaces and tools | `command/*`, `rpc/*` | none of their own | mostly pure I/O, not modelled |

The parts interact through two locks. Package block holds its own lock while it
stores or deletes blocks and, for every record, calls the reservoir, which takes
its lock for each call separately. Everybody else (RPC goroutines, the cleaner of
expired items, the payment checkers) runs between those calls and reads the
database through the cache of the transaction that is open.

## 2. Modules

**AtomicStore** is what a database transaction promises: the operations of one
holder reach the database all together or not at all. **Storage** is how
`AccessData`, `dbCache` and `TransactionData` do it: a batch, a cache of
operations and the in-use flag. A commit may fail and returns before the reset,
so that the transaction stays in use until the process restarts; the cache of an
open transaction may expire; a read takes a cached delete for a cache miss and
returns the committed value. `Storage` implements `AtomicStore` under the mapping
in `Storage` (property `AtomicCommit`).

**Ownership** has the pools and the functions of `ownership/transfer.go` as
operators on a transaction value (`db`, `batch`, `panic`). Its `Get` is the read of
`Storage`: the operators see committed values through deletes. The expiry of the
cache of an open transaction, two minutes after a put, is left to `Storage`. Values
are records with the fields the code packs; the list position of a record is the
only encoded number that is kept.

**Ledger** composes them: `StoreIncoming` validates a block and applies its
records in one transaction, so it is one action, with a second action for a
commit that fails. `DeleteDownToBlock` commits once per record, so it is one
action per record (`DeleteRecord`, `DeleteBlock`, and the two that fail to
commit), and the process may end between any two (`Crash`). `Initialise`
validates the index as `block/setup.go` does, with its unsigned arithmetic
(`% Wrap`), and refuses to start on a mismatch. A panic is a state; a restart
follows it. Asset, issue, transfer, block owner transfer, share, grant and swap
records are covered. The foundation record comes first in a block and is stored
last (`StoreFoundation`), so it is kept apart from the list of the others.
Assumptions:

- the blocks offered are those that validation accepts or panics on, among those
  that miners running this code assemble: no transaction and no link twice.
  `StoreIncoming` compares each record with the committed index and would store two
  transfers of one link; the reservoir of the miner (`NoDoubleTransfer`) keeps them
  out of a block. A grant or swap that is confirmed may be offered again, since
  neither validation nor the reservoir (`reservoir_grant`) rules it out;
- `Version` is the header version of all blocks. The runs use 2; on version 1 chains
  assets and issues may be repeated (`suppressDuplicateRecordChecks`), and the runs
  say nothing of them;
- the panic of `OwnerOf` on a link without an owner is modelled (`PanickingList`),
  but no run has a record with such a link.

**Reservoir** has one action per call that takes the reservoir lock.
`storeTransfer`, `storeGrant` and `storeSwap` run under the lock from end to end
(`storePrepaid`, `storeUnpaid`). `storeIssues` checks under read locks and
inserts later, so each concurrent call has two steps. A stored block is a series
of steps: remove a record by id, remove what else spends its link, put it in the
database, commit, rescan item by item, enable. After deleted blocks the reservoir
is enabled without a rescan, as in `delete.go`. So it is after a commit that fails
(phase "wedged"): the transaction stays in use, what it put is visible until the
cache expires, and no block is stored or deleted any more. Abstractions:

- the `spend` map feeds only the Remaining and Available figures of replies (the
  balance check does not subtract it) and is left out;
- the read-locked checks of one `storeIssues` call are one step;
- Rescan visits items in any order, which includes the order of the code;
- whether balances cover a grant or a swap is chosen anew at every put and commit
  (`funded`), which includes whatever the shares moved by the block leave;
- whether the `BeforeBlock` of a grant or a swap has been reached (`timely`) is
  chosen when the height changes: it only ceases to be timely when a block is
  stored, and may be so again after a deletion. Rescan does not ask;
- a deletion that ends early for another reason than a failed commit leaves the
  reservoir as one that ends;
- the pay id of an item is the item itself (a hash in the code).

**Connector** is the synchronisation of a node with its peers. A block is its
digest, a tuple of bytes; a peer is the block at its tip, which may change between
any two requests. There is one action per state of `runStateMachine`, with the two
loops cut at every request to a peer (`CheckDigests`; `FetchBlocks`, `TestBlock`,
`FetchNext`, `StoreBlock`), since the peer and the block store act in between. The
election is a set of operators, `ElectedCandidates` being every client that some
order of the votes elects; `ElectionFails` also covers a client whose socket is gone
when its address is asked for. The runner of a client refreshes its cached height and
digest (`runner`), or one of them (`runnerFails`). `blockstoreProcess` stores
blocks that were queued in normal mode, whatever the mode is by then.
Abstractions:

- every block is valid on top of its parent, and also a second time at its own
  height, as a block with only its foundation record is; transactions are the
  business of `Ledger`. Stores and deletions are atomic, as both hold the lock of
  package block. A deletion may fail (`DeleteFails`) before it has deleted a block;
  one that fails half-way is left to `Ledger`;
- what a state reads without a request in between is read in one step;
- a client that is given to another peer is a peer whose chain changes;
- the digest cache of `blockheader` is left out: `DigestForBlock` reads the pool;
- `unchecked` (the numbers stored by fast sync) is not in the code; properties
  refer to it;
- `Settle` is the environment's promise that no more faults happen and that all
  peers have one chain, longer than any other.

`MCStorage`, `MCLedger`, `MCReservoir` and `MCConnector` give the constants their values.

## 3. Runs

| run | configuration | shows |
|---|---|---|
| `storage` | 2 keys, 2 values | `AtomicCommit`, `CleanWhenFree`, `ReadsPutOrCommitted`, `TypeOK` |
| `ledger_ownership` | an asset, an issue, 2 transfers in a chain, a share, 2 block transfers in a chain, 2 competing digests, height 4, 2 records per block | the index of a running node is that of its stored chain, through reorganisations, failed commits, crashes and restarts; no "database corrupt" panic |
| `ledger_shares` | 2 issues made shares, 3 grants, a swap, height 5, 2 records per block | balances are what the chain says, over blocks that move shares in turn; no panic |
| `ledger_conservation` | 3 grants, 2 movements of one balance per block | violation, see below |
| `ledger_undo` | 4 grants, 3 records per block, 3 movements of one balance per block | violation, see below |
| `ledger_restart` | asset, issue, share | violation, see below |
| `reservoir_transfers` | 2 transfers of one record, a transfer of a transfer, a grant | `NoDoubleTransfer`, `LinksExact`, `SinglesIndexed`, `PoolValidAfterRescan`, `VerifiedStay` |
| `reservoir_issues` | 2 callers, a free and a paid bundle that share an issue, a transfer of it | `PendingWithinLimits`, `PaidNeverWaits`, `TypeOK` |
| `reservoir_grant` | one grant | violation, see below |
| `connector` | 2 clients, tree of 6 blocks with a fork, fast sync on and off, 1 fault | `ChainLinked`, `FetchInSequence`, `RebuiltCaughtUp`, `PanicsOnlyInFastSync`, `ForkProtected`, and the liveness property `CatchesUp`, through elections with stale, differing and drawn votes |
| `connector_fork` | 1 client, the same tree, no fast sync | violation, see below |
| `connector_fastsync` | 1 client, fast sync on | violation, see below |

Every property of a passing run is broken by a mutant of the code it is about
(`PROJECT.json`, "mutants").

Bounds. `MaxHeight`, `MaxTxs` and `MaxCount` stop the chain; 3 blocks above the
genesis with 2 records each allow a chain of provenance to be stored, undone from
the middle and stored again on another branch. In `ledger_shares` a fourth block
lets two blocks in succession move shares, in either direction or by a swap, and
be replaced; `MaxCount` allows one block more to be stored than the chain is long.
`BlockValidationCounts` is 4 in `ledger_ownership`, so that the startup validation
meets chains of its own length, where it covers every stored block, and shorter ones,
where the unsigned difference wraps and only the last block is validated; in the
other runs it is 2. `Wrap` stands for 2^64: it is above every number that occurs
except the differences that are meant to wrap.

`MaxMoves` is more than a bound: it is the condition of `ledger_shares`. With one
movement of a balance per block the balances are right and nothing panics. With two
the code does not keep the balances, and with three the deletion of a block may panic
(`ledger_conservation`, `ledger_undo`).

`MaxOrphans` bounds payments kept for items that are not there; the code has no
bound. In `reservoir_issues` both limits of pending issues are met: the free bundle
counted twice reaches its limit, and the paid bundle counted twice would reach the
limit that paid issues have to stay below.

`MaxFaults` counts changes of a peer's chain, lost clients and half-failed refreshes;
requests, elections and deletions of the connector itself may fail any number of
times before the network settles. One fault is enough since peers start on different
chains and each fault can fall between any two requests. `Tips` is the set of tips
that peers have, one on the shorter branch and the end of the longer; `Broadcast` is
the set of blocks that reach the block store, one on each branch. The tree is high
enough for a fast cycle, a slow cycle and the test of a random block, and its fork
deep enough to meet `forkProtection`. With two clients one vote is enough
((1 + 2) / 2), so an election with voters but too few votes is not reached.

Deadlock is not checked in the Ledger runs, where "refused" is a final state, nor in
the `connector` runs with fast sync, where a panic is.

Fairness is assumed in the Connector runs only: weak fairness of the state machine
and of each client's runner, which timers drive, and of the registration of a
client, which the socket events and the announcer's reconnections drive. The block
store needs none: its queue is empty when the network settles. `CatchesUp` claims
something only after `Settle`: before it peers may come, go and change for ever. It
excepts a fork as deep as `forkProtection`, which the code refuses to leave, and a
node that has panicked.

### Disagreements between the code and what it says

- `ledger_conservation`: a balance emptied and then credited in one block is
  credited on top of its old value, since a read of a deleted key falls through
  to the committed database (`storage/cache.go:52`). The total that
  `storage/doc.go:62` calls "share total value (constant)" is exceeded.
- `ledger_undo`: a block is undone in the order in which it was applied. If A grants
  to B and B passes everything on in the same block, the first grant undone finds no
  balance of B, which "cannot be zero" (`block/delete.go:273`), and the node panics
  on a sound database.
- `ledger_restart`: the startup validation does not remember the links of share
  records, and refuses an index that agrees with its blocks.
- `reservoir_grant`: a grant resubmitted between `DeleteByTxId`
  (`block/store.go:509`) and the put in the database is stored again, and Rescan,
  which looks only at balances, leaves the confirmed grant in the pools.
- `connector_fork`: the code refuses a fork of exactly `forkProtection` blocks
  (`peer/connector.go:428`), the comment on the constant (`peer/connector.go:45`)
  only one whose "height difference is greater than this".
- `connector_fastsync`: a node in normal mode, two blocks behind, fetches a block and
  its successor; the block store stores the same block from a broadcast; the
  height check accepts the number (`blockrecord/validator.go:94`), fast sync skips
  the linkage check, and StoreIncoming panics (`block/store.go:646`).

## 4. Proofs

`StorageProofs` proves, for any keys and values: `TypeCorrect`,
`AlwaysCleanWhenFree`, `AlwaysReadsPutOrCommitted` and `Refinement`
(`Spec => AtomicCommit`). The inductive invariant is the type invariant with
three facts: a held transaction is in use, a transaction that is not in use has an
empty batch and an empty cache, and a cached operation is the one in the batch. The
last is needed for both reads and refinement: a read looks at the cache, the
commit writes the batch.

`ReservoirProofs` proves, for any transactions, bundles, links, callers and
limits satisfying `ReservoirAssumption` (issues and single transactions are
different, no transfer spends itself): `NeverDoubleTransfer`, `AlwaysLinksExact`,
`AlwaysSinglesIndexed`, `AlwaysValidAfterRescan`, `PaidTransactionsStay` and
`PaidItemsNeverWait`.
The argument:

- `PoolInv` is `Types`, `SinglesIndexed`, `LinksExact` and `NoDoubleTransfer`.
  `LinksExact` is not inductive alone: a removal clears the entry of its link,
  and leaves no other transfer without one only because no two transfers share a
  link. One lemma per kind of step (removal by pay ids, by transaction id, a store,
  a payment of a single, of issues) shows that it is kept.
- `RescanProgress` says that during a Rescan every single transaction that has
  been visited is valid, and after it, until the next deletion, all are. It needs
  that the database does not change while the lock is held (`SteadyChain`) and
  that removing a stale transaction removes it from both pools (`DeleteRemoves`).
- `PaidTransactionsStay` is an action property from `PoolInv`: an expired item is
  pending and hence not verified (`SinglesIndexed`).
- `PaidItemsNeverWait` is inductive with the type of `orphanPayments`: an item is
  made to wait only if no sufficient payment is kept for it, and a sufficient payment
  is kept only if its item does not wait.

Only model-checked: all of `Connector` (safety is to be proved, see the plan), all
of `Ledger` (its invariants are stated with folds and
recursive functions over the chain; induction over data is outside TLAPS),
`TypeOK` and `PendingWithinLimits` of `Reservoir` (sums over sets). Liveness under
fairness, ENABLED and what RECURSIVE operators compute are outside TLAPS too.

## 5. Plan

Next modules, most important first:

1. `HeaderCache`: the digest cache of `blockheader` against stored and deleted
   blocks, readers racing `ClearCache`.
2. An abstract specification of synchronisation that `Connector` implements; the
   election with three and more voters, and `SmallerDigestThan`, which is no order
   (each of two digests can be smaller than the other), against their reference
   definitions.
3. `Assets` and load/save of the reservoir: what survives a restart.
4. `Payment`: discovery, confirmation counting, delivery to the reservoir.
5. `Proofer` and recorder: jobs published, submissions matched, stale jobs.
6. `Announce` with its tree of peers, `MessageBus`, RPC connection counting.
7. Algorithms: AVL tree, merkle tree, difficulty, varint, provenance walk.

Theorems after that: `PendingWithinLimits` with the sum lemmas it needs, the
type invariant of `Reservoir`, safety of the connector (`ChainLinked`, `FetchInSequence`, `ForkProtected`), the
header cache, and the parts of `Ledger` that do not need induction over the
chain (header and cursor).

Left out for good: cryptography and address formats (`account`, `currency`), file
and socket I/O, command-line tools, the text of messages and logs.
