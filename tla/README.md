# Formal models of go-avalanria

This directory holds TLA+ models of go-avalanria, the Go implementation of an
Avalanria node, together with the TLC configurations that check them on small
instances and the TLAPS proofs of the properties that hold for every instance.
Five subsystems are covered, chosen because a mistake in them is costly and hard to
reach with tests: the **clique** proof-of-authority engine, which decides who may
produce blocks; the **transaction pool**, where callers, the chain and background
goroutines meet; the **chain database**, which moves old blocks from the key-value store
to the files of the freezer and has to survive a crash at any point; the **event feed**,
over which all the others talk; and the **transaction fetcher**, which turns what peers
announce into requests.

`PROJECT.json` lists every part of the repository with its status, every run, the
source lines each definition models, the hazards the models were built around and
the disagreements between code and comments that came up.

## 1. Inventory

| Part | Where | Status |
|---|---|---|
| clique snapshots and voting | `consensus/clique/snapshot.go` | modelled, checked, proved |
| clique engine | `consensus/clique/clique.go`, `api.go` | partly: one node, without times, gas and signatures; checked, proved for a chain from its genesis |
| transaction pool: lists, price heaps, nonces | `core/tx_pool.go`, `tx_list.go`, `tx_noncer.go` | partly: without gas and fork rules and dynamic-fee pricing |
| transaction journal | `core/tx_journal.go` | partly: without file errors |
| freezer table | `core/rawdb/freezer_table.go` | checked, proved to implement an append-only list; without the creation of its files |
| freezer, opening the database, lookups | `core/rawdb/freezer.go`, `database.go`, `accessors_chain.go` | partly: full sync only; checked, proved while SetHead and the freezer take turns |
| blockchain, header chain | `core/blockchain.go`, `headerchain.go` | partly: fork choice, index, SetHead, start of the node; no processing of blocks |
| event feed | `event/feed.go` | checked, proved to implement an ordered broadcast; without type checks |
| transaction fetcher | `avn/fetcher/tx_fetcher.go` | partly: the whole loop, without the filters in front of it |
| miner | `miner/` | partly: sealed results |
| block fetcher, downloader queue | `avn/fetcher/`, `avn/downloader/` | candidates |
| state database, snapshots, trie reference counts | `core/state/`, `trie/` | candidates |
| dial scheduler, rpc client, light protocol, node lifecycle, filters, indexers, discovery | `p2p/`, `rpc/`, `les/`, `node/`, `avn/filters/`, `core/chain_indexer.go` | candidates |
| EVM, encoding, cryptography, ABI, wallets, commands, console, mobile, metrics | | not modelled: data transformations, devices, wiring |

How the covered parts meet: the engine is asked by block import and by the miner;
import moves the head, of which the pool hears over a feed; the freezer goroutine reads
the head from the store and moves what is deep below it; the fetcher fills the pool.
`Freezer` is built from `AncientTable`, which `FreezerTable` implements, so that the
crash behaviour the first relies on is the one shown of the files, as long as these are not
damaged in one of the four ways named there.

## 2. Modules

    CliqueSnapshot          Snapshot.apply, step by step (operators)
      CliqueVoting          one chain, one header at a time
        MCCliqueVoting      instances for TLC
      Clique                engine, chain and miner of one node
        MCClique            instances for TLC
      CliqueSnapshotProofs  lemmas on the steps of apply
        CliqueVotingProofs  theorems about CliqueVoting
        CliqueProofs        theorems about Clique
    TxPricedList            the price heaps (operators)
      TxPool                every change made under the pool's lock (operators)
        TxPoolLoop          goroutines, chain, journal
          MCTxPool          instances for TLC
    AncientTable            what one table of the freezer promises
      FreezerTable          its files, which implement that
        MCFreezerTable      instance for TLC
        FreezerTableProofs  theorems
      Freezer               tables, key-value store, import, SetHead, start
        MCFreezer           instance for TLC
        FreezerInvariant    the inductive invariant; import, lookups, crash
          FreezerProofs     freezer, SetHead, start; theorems
    Broadcast               what a feed promises
      Feed                  the feed, which implements that
        FeedProofs          theorems
    TxFetcher               the loop of the transaction fetcher
      TxFetcherProofs       theorems

Some modules contain, just before a definition, a variant marked `Mutant:` that
makes a plausible mistake in it. It is not used by the specification; `PROJECT.json`
pairs it with the property that fails when it takes the definition's place.

### Clique

A clique chain is signed by an authorised set of signers that votes on its own
members in the headers. `CliqueSnapshot` translates `Snapshot.apply`: reset of the
votes on checkpoints (`ResetVotes`), the shift of the recent list (`DropRecent`),
the author's authorisation (`Authorized`), discarding and casting its vote
(`DiscardVote`, `CastVote`), and concluding a vote that passed (`ConcludeVote`, with
`DiscardVotesOf` and `DiscardVotesOn`), in the code's order. Votes are a set instead of a
slice because a block casts one vote at most; the tally is total, with `NoTally` for a
missing key.

`CliqueVoting` applies accepted headers to one chain. Its state is the snapshot and the
headers applied so far.

`Clique` is one node: blocks in the database (`known`), the head, the batch being
verified, the ARC cache and the database of snapshots, the operator's proposals and key,
and the block being prepared or waiting for its time. `snapshot` is
`Clique.snapshot` as a function from the request to the result and to what may be left
in cache and database: the walk back over the headers, the cache, the disk, trusted
checkpoints, replay, and the two writes, which may fail (`writes`). Headers of a batch are
verified ahead of their insertion (`Verify`, `Insert`) as `insertChain` and `VerifyHeaders`
do it. `Prepare`, `Seal`, `Deliver` and `Interrupt` are the miner; `Propose`, `Discard` and
`Authorize` the operator; `Query` anything else that asks for a snapshot; `Restart` loses
the memory and, if the database is rebuilt from the freezer, the stored snapshots.

A block is the sequence of its headers, so equal blocks have equal hashes. Unsigned
subtraction is taken modulo `Uint64`, since one of the rules wraps around. The ARC cache
forgets an arbitrary entry. What arrives from others (`Received`) has any author among `Others`, either
difficulty, any of the `Ballots`, and on a checkpoint any of the `SignerLists`, right for its parent or not;
headers that list signers elsewhere are refused at once (`verifyHeader`), and not offered. Times, gas and
fork rules of `verifyHeader` are left out: they only make it reject more.

### Transaction pool

A pool is a record: `pending` and `queue` (all account lists as sets), the lookup table
(`remotes`, `locs`), the local accounts, the pending nonces, the chain state in use,
heartbeats in order of age, the minimum price, the two price heaps as bags with the
counter of stale entries, the journal file, and the events queued by replacements.
The operators of `TxPool` have the names of the methods they model (`add`,
`enqueueTx`, `promoteTx`, `removeTx`, `promoteExecutables`, `demoteUnexecutables`,
`truncatePending`, `truncateQueue`); those of `TxPricedList` likewise (`Put`, `Removed`,
`Underpriced`, `Discard`, `Reheap`).

`TxPoolLoop` puts the goroutines around it:

| Action | Code |
|---|---|
| `AddTx` | `addTxs` up to the release of the lock; `local` for `AddLocal` |
| `RequestPromote` | the caller's `requestPromoteExecutables`, received by the scheduler |
| `SetGasPrice` | `SetGasPrice` |
| `NewHead`, `SetHead` | the chain: `insertChain` with its one event, and the silent rewind |
| `RequestReset` | `loop` receives a head event and asks for a reset |
| `Launch` | `scheduleReorgLoop` starts a run when none is active |
| `Reorg` | `runReorg` while it holds the lock, `reset` included |
| `Announce` | `runReorg` after the lock: the event is sent, the run is done |
| `Evict`, `RotateJournal` | the tickers of `loop` |
| `Restart` | a stop or crash at any point, then `NewTxPool` |

Orders that come from Go maps are existentially quantified, ties in the heaps are broken
arbitrarily. A block is the sequence of bodies from the genesis block on; a body has
transactions and the accounts it leaves poor. A transaction has one price, as a
legacy transaction does, so fee cap and tip coincide and both heaps have the same order.
Gas limits are left out, as they work like cost against balance, and so are the cost and
gas caps a list caches to save work. No account is configured as local; accounts become local through
`AddLocal`. `Restart` is one step; what was appended to the journal file survives.
`SetHead` stops at the number asked for and does not rewind further for want of state.

### Chain database

`FreezerTable` is one table on disk: an index file of entries and numbered data files, of
which the last one is the head. `AppendHere` and `AppendNext` are `append` with and without
room in the head file, `Truncate` and `Sync` the operations of those names. `Crash` lets
every file come back with any length between what was synced and what was written, and then
runs `repair`: the loop that cuts the index and the head file in turn until they agree, as
the last entry that points within its file. `Retrieve` with `StartOffset` is reading
(`getBounds`). Bytes are values, so that reading can be compared with what was appended.
The two overflow tests of `append` (of `uint32` and of the file size) are one comparison
of natural numbers. File numbers are cut to what an entry can hold (`marshallBinary`, a `uint16`).

A write may fail: that to the data file after any number of bytes, with which `append` returns
(`WriteFails`), and that to the index, which `append` does not notice (`EntryFails`). What is
assumed of the file system: a file keeps a prefix that includes what was synced;
truncations and removals are not undone and happen in order. A part-written entry of the index
(it would shift every later one) and errors of fsync, truncate and open are not modelled.

Four things happen to the files that the code does not mend. From then on `damaged` is true, the
table goes on as the code does, and the properties say nothing more than types:

- a crash takes bytes of a data file that was full and closed: `append` does not sync it (line 523),
  and `Sync` syncs only the index and the head file;
- a blob is appended behind bytes that a failed write left: `headBytes` does not count them, and
  `truncate` does nothing when the items have not changed (line 338). A truncation to fewer items and the
  repair after a crash do remove them;
- the entry of a blob is lost, as the error of the write is ignored (line 540);
- the number of a data file does not fit into 16 bits.

`AncientTable` is what the rest of the code may rely on: a list, and how many of its items
survive a crash. `ImplementsAncientTable` maps the files to the list of what `Retrieve` returns.

`Freezer` puts two such tables (the hashes, and one that stands for the other four) beside the
key-value store:

| Action | Code |
|---|---|
| `Import` | `writeBlockWithState` with `reorg` and `writeHeadBlock`, under `chainmu`: `Added` is what `writeHeadBlock` is called for, `Dropped` what `reorg` deletes from the index, `Changed` where the header markers follow |
| `FreezeStart` ... `FreezeDangling` | one round of `freeze`: limit, appends, sync, wipe, side chains, descendants of side chains; `FreezeFail` an append that is rolled back (the failing table wrote nothing; what a failed write leaves behind is in `FreezerTable`) |
| `SetHead`, `RewindMark`, `RewindDelete`, `RewindFlush` | `SetHead` and the loop of `HeaderChain.SetHead`: markers first, then the tables, the store at the end in one batch |
| `Crash` | the node dies; `newFreezer` with `repair`, and the checks of `NewDatabaseWithFreezer` |
| `StartLoad`, `StartRepair`, `StartTruncate` | `NewBlockChain`: `loadLastState`, a missing state, extra ancients |
| `ReadTables`, `ReadStore`, `ReadAgain` | a lookup: tables, store, tables again |

A block is the sequence of branch choices from genesis, so its ancestors are its prefixes.
Abstractions: all blocks have the same difficulty; a batch of the key-value store is atomic and
durable; import is one step; the network does not abandon what was `threshold` deep
(`params.FullImmutabilityThreshold` is defined as that depth) unless the node was rewound, and
does not send known blocks again; after a crash either every state or the genesis state and one
other are there; a node without a fast-sync pivot. Not modelled: fast sync, which
writes to the tables directly, and the hash-to-number index.

### Event feed

`Feed` has a variable for each field that matters: `inbox`, `sendCases` with the prefix
`cases` (its length is `active`), the step of whoever holds `sendLock`. One `TrySend` is one step,
and so is each choice of the select, with a receiver or with `removeSub`. `Remove` is
`Unsubscribe` up to its select; `RemoveLocked` and `SelectRemove` are its two ways out. A
channel has a buffer of `capacity` values and belongs to one subscription. The type check and
the count that `Send` returns are left out.

`Broadcast` is the promise: a value goes to the members there are when it is published, once,
and before the next one; a member that leaves gets nothing more.

### Transaction fetcher

`TxFetcher` has one action per case of the loop: `Notify`, `WaitExpires`, `RequestsExpire`,
`CleanupOnly` and `CleanupReply`, `Drop`; each includes the `scheduleFetches` it ends with, in
which the order of peers and hashes is any (Go's maps). Peers are free: they announce, answer a
part, answer late, answer what others were asked, disconnect and come back. A request that
cannot be sent ends in `Drop`, as in the code. Time is reduced to which waits and requests a
trigger finds expired. A request that timed out stays open and empty, as the code wants it.
`Notify` and `Enqueue` as the handler calls them filter known and underpriced transactions
before the loop sees them; they only take input away and are not modelled.

## 3. Runs

Every run is one question; the bounds are those of its `.cfg`. TLC explores all states
within them. The invariants that say a component's pieces fit together
(`SnapshotsCoherent`, `PoolIsCoherent`, `TableIsConsistent`, `ChainIsReadable`, `FeedIsCoherent`)
include the type invariant of their module; for `CliqueVoting` and `TxFetcher` it is proved.

**Clique**

| Run | Shows | Bounds |
|---|---|---|
| `clique_voting` | tally = votes, one vote per signer and account, recent list = window of the chain, nobody signs twice in it, somebody may always sign, only majorities decide, checkpoints keep the signers | 3 signers, an outsider, the zero address, 6 blocks, a checkpoint at 5; symmetric |
| `clique_node` | snapshots in cache and on disk are those of the whole chain; stored blocks are authorised; a turn has one author; what the miner seals is valid for others, and may be stored unverified | 2 signers: the node's own, which the operator unlocks and which may propose 1 account, and another, whose headers come in batches of 3, verified ahead past bad ones; forks of 3 stored blocks after the genesis, a checkpoint at 3 with right and wrong lists, cache of one, every third snapshot stored, no faults |
| `clique_trust` | a snapshot rebuilt from a buried checkpoint has the votes and signers of the whole chain, no recent signer too many, and near the tip none too few; any stored block's snapshot can be rebuilt | 1 signer that votes a second one in, votes to drop it, checkpoints at 2 and 4, threshold 2, 6 blocks after the genesis in chains of up to 5, every second snapshot stored, one fault (restart, lost snapshots or failed write) |

Six blocks are enough to drop a signer, then another before the checkpoint, which
shortens the window, and to go on after the checkpoint. A cache of one entry makes every
path of `snapshot` occur. `clique_node` has no faults and the other signer votes on nobody; faults and
votes of others are in `clique_trust`, which depends on its fault: without one every
checkpoint's snapshot is on disk before a block is built on it, and nothing above the
genesis is ever trusted. That the case is reached can be seen by adding
`SnapshotsCoherent` to its configuration: it fails there, on a snapshot whose recent list
is still incomplete. `TrustIsHealed` makes one exception. Once the zero
address has been voted in, `apply` counts the blank vote of a checkpoint as one to drop it, and a trusted
checkpoint counts no vote; chains that vote for it are left out.

`CliqueVoting` stops at its bound, so its run does not check deadlock (that a signer may
always go on is `SomeSignerMaySign`). In `Clique` queries are always possible.

**Transaction pool**

| Run | Shows | Bounds |
|---|---|---|
| `txpool_content` | lookup, lists, heaps and heartbeats agree; the limits hold; local transactions are kept, over a restart too | 2 accounts, 2 nonces, 2 prices, room for 2, 3 additions, price changes, 1 eviction, 1 restart, no heads |
| `txpool_reorg` | with heads arriving at any time: the state is the last head's, nonces follow pending, everything pending is announced, no request is lost (liveness) | 1 account, 3 nonces and a replacement, 3 additions, 2 heads, forks of depth 1, 1 restart |
| `txpool_rewind` | pending is one run of nonces, with poor accounts, SetHead and missing states | 1 account, 3 transactions, 2 heads in batches of up to 2 blocks, 1 SetHead, 1 missing state, no forks, before London |
| `txpool_merge` | violated, see below | 2 additions, 1 head |

The pool's limits are set just below what the transactions of the instance need, so that
eviction, truncation and re-heaping happen. Deadlock is not checked: the bounds on
additions and heads end, and an idle pool may rest. Two more configurations of `MCTxPool` pass:
`TxPoolLimits.cfg` (lists of 3 nonces, so that pending lists are cut evenly among several offenders; `LimitsHold`)
and `TxPoolProgress.cfg` (a head and a restart with two accounts).

**Chain database**

| Run | Shows | Bounds |
|---|---|---|
| `freezer_table` | index, data files and counters agree, every item can be read, and the files implement an append-only list of which a crash takes an unsynced tail and which a failed write leaves alone, until the table is damaged | blobs of 1 and 2 bytes, files of 3, 4 items in up to 4 files, of which an entry can name 3, 2 crashes or failed writes |
| `freezer` | the chain of the head can be read by number and by hash; the node starts after a crash at any point but within SetHead; frozen blocks are final and on the chain of the head; a lookup misses no block that is there; the freezer catches up (liveness) | a main chain of 4 blocks, a fork that is frozen out with its child and one that overtakes, threshold 1, rounds of 1 block, 1 SetHead, 1 crash or failed append |
| `freezer_rewind` | violated, see below | as above, rounds of 2 blocks, a crash within SetHead |

Four items of one or two bytes fill several files, so a cut or a crash can go back over
several of them, into a file that is shorter than its last entry says. The second fault meets
what a failed write, or the repair after the first crash, left. In `freezer` rounds of one block let a
fork be imported between any two rounds. The bounds on blocks end, hence
deadlock is not checked in `freezer`; a table can always be synced.

**Feed and fetcher**

| Run | Shows | Bounds |
|---|---|---|
| `feed` | inbox and case list hold each live subscription once; every value is delivered once and in order to those subscribed; Unsubscribe returns even if nobody reads, and Send returns if everybody reads or leaves (liveness) | 3 subscriptions, 2 senders, 2 values, buffers of 1 |
| `tx_fetcher` | a hash is in one stage; requests, fetching hashes and accounts of peers agree; no hash waits or stays with a silent peer for ever, no idle peer is left with work (liveness); no deadlock | 2 peers, 2 hashes, limits of 2 |

Three subscriptions are the smallest number at which swapping a served case to the end of the
active prefix, and removing one meanwhile, can move the wrong case. The safety
properties of the fetcher were also explored with 3 peers and 2 hashes (1.4 million states),
its liveness with 3 peers and one hash, and with one transaction per request.

**Disagreements.** Two runs are expected to be violated. In `freezer_rewind`, `NewBlockChain` means to "ensure that
a previous crash in SetHead doesn't leave extra ancients" (`blockchain.go:310`) by calling SetHead again.
When the crash came after the markers were moved and before the tables were cut, that call
finds the header at its target and its loop does not run: the tables keep blocks beyond the head. In `txpool_merge`, `runReorg` leaves out the accounts that asked for promotion because
"for resets, all addresses in the tx queue will be promoted" (`tx_pool.go:1122`). But `reset` has just set the pending nonces back,
so what is next in line behind pending transactions is not ready then (line 1145), stays queued, and
nothing asks for it again.

Two more come from comments. `CliqueWrap.cfg` violates `StoredIsAuthorized`: `verifySeal` (`clique.go:486`) subtracts without
the guard the other two places have, and with 4 signers, on a chain shorter than the limit, admits what `apply` refuses. And `Sync` of
a table "pushes any pending data from memory out to disk" (`freezer_table.go:654`), but not that of a data file closed since the last one.

### Where the properties stop holding

Several passing runs leave out an event on purpose, because with it the property is
false of the code. Except for the first four these were found with TLC on
instances that are not kept:

| Property | Does not hold with | Why |
|---|---|---|
| `NoExtraAncients`, `AncientsAreFinal` | a crash within SetHead (`CrashInRewind`) | the tables are cut after the markers were moved, and the start does not make up for it |
| `StoredIsAuthorized`, and with it `SnapshotAvailable` | 4 or more signers in the genesis, on a chain shorter than the limit | the unsigned subtraction of `verifySeal` wraps |
| `NothingReadyIsQueued` | a new head beside an addition | nonces are set back before the promotion (`tx_pool.go:1145`) |
| `TableIsConsistent`, `ImplementsAncientTable` | a table that is damaged (excluded in the property) | the four ways in section 2, of which every one happens in the run |
| `TrustIsHealed` | the zero address voted in (excluded in the property) | `apply` takes the blank vote of a checkpoint for one to drop it, `newSnapshot` does not |
| `NoExtraAncients` | SetHead during a round of the freezer (`RewindWhileFreezing`) | the round goes on with the limit it computed from the old head |
| `StoredIsAuthorized` | a node that starts at a checkpoint (`StartNumber` > 0) | it has no recent signers, and stores a block that others refuse |
| `PendingIsExecutable` | a fork whose abandoned transactions are only partly taken back, the price having been raised meanwhile | `demoteUnexecutables` looks for a gap in front only |
| `StateIsCurrent` | SetHead followed by another block of the same height | `reset` takes it for an ordinary reorganisation and returns |
| `SealedIsValid` | a key changed between Prepare and Seal (excluded in the property) | the difficulty is that of the other signer |

Some further steps and facts are in the models and in no property.

- Clique: the sole signer may drop itself, after which `Prepare` divides by zero. This and
  `reset`'s use of a new head that SetHead deleted before it got there set `panicked`, which ends the
  behaviour, so the other properties say nothing about what would follow.
- Pool: replaced local transactions are counted as stale heap entries; a transaction that was
  evicted and sent again can be in the heaps twice, and `Discard` then counts its slots twice; a
  local replacement of a pending remote transaction does not make its sender local.
- Fetcher: a peer over its limit gets as many announcements kept as exceed the limit, instead of as many
  as there is room for (`tx_fetcher.go:373`), so the limit is no property. A dropped peer stays among the
  alternates of hashes fetched from others, although a comment (line 616) speaks of removing "all
  traces"; `Accounted` is stated one way round for that reason.
- Comments: the difficulties in the comment of `CalcDifficulty` are swapped; that of
  `truncateQueue` speaks of the oldest transactions, while the loop starts with the account of the latest
  heartbeat; and that of `demoteUnexecutables` relies on a re-heap that only happens once London is active.

## 4. Fairness

Go schedules every runnable goroutine, a `select` picks among ready cases at random, a
channel serves those who wait for it in order, and a timer that is set goes off. Each assumption
below is one of these. Callers, peers, the chain, tickers, subscribers, faults and restarts are
never assumed fair.

| Run | Fair | Because |
|---|---|---|
| `txpool_reorg` | `RequestReset`, `RequestPromote` of each set of accounts, `Launch`, `Announce` weakly; `[]<>(run.stage # "launched" \/ panicked)` | requests stay ready until received; a launched run gets the lock, as every holder releases it. The formula is weak fairness of `Reorg` without asking TLC for ENABLED |
| `freezer` | the steps of the freezer, of SetHead and of the start weakly | one goroutine each, none waits for another for ever |
| `feed` | the holder of `sendLock`, and each `Unsubscribe`, weakly | `sendLock` and `removeSub` are channels, whose waiters are served in order |
| `tx_fetcher` | each timer weakly; an expiry of each hash and of each peer strongly | a timer is set for the oldest wait or request, so one that stays becomes the oldest and is found expired, although other triggers come first |

`SendReturns` has as its premise that subscribers read or leave; the code promises nothing otherwise.

## 5. Proofs

The theorems hold for every value of the constants that satisfies the named assumptions. The bounds
(on blocks, items, crashes, values) are constants too, and may be any number. Where a theorem needs more than the
assumptions of its module, that is a hypothesis in its statement (`Orderly`, `FromGenesis`,
`FewSigners`): it names an event with which the property is false of the code, or a case left to TLC.

**`CliqueVotingProofs`**: any set of addresses, any genesis signers, any epoch and
chains of any length. Assumptions: the zero address is an address and no genesis signer, there are
finitely many genesis signers, the epoch is positive (`CliqueAssumption`). The inductive invariant is

    IInv == TypeOK /\ TallyMatchesVotes /\ OneVotePerSigner /\ RecentsAreWindow

`TallyMatchesVotes` alone is not inductive: uncasting one vote takes one off the tally
only if the signer has just one vote on the account, which is `OneVotePerSigner`, and
that in turn needs dropped signers' votes to be gone. Both need the votes still to make
sense (`validVote`) when the signer set changes, since otherwise a tally could hold
votes of two directions. Every step of `apply` has a lemma saying which fields it
changes and that it keeps votes and tally in order (`Good`); `ApplyShape` strings them
together. `RecentsAreWindow` needs that the limit moves by at most one with a signer
(`LimitMoves`), so that one deletion is enough. The lemmas on the steps of `apply` are in
`CliqueSnapshotProofs`, as the engine's proofs use them too.

**`CliqueProofs`**: the engine, for any addresses, genesis, epoch, cache size, ballots, signer lists, keys and faults. Assumptions:
addresses are finitely many numbers, and the modulus of unsigned numbers is larger than any block number and signer count
the chain can have (`EngineAssumption`). All theorems have the hypothesis

    FromGenesis == StartNumber = 0 /\ MaxNumber <= FullImmutabilityThreshold

under which no checkpoint but the genesis is trusted. The threshold is 90000 in the code, so this is the first 90000 blocks of a chain;
beyond, a checkpoint may be trusted, snapshots lack recent signers for a while, and what holds is `TrustIsHealed`, which
is only checked. The inductive invariant is

    IInv == ChainInv /\ BatchInv /\ Coherent(cache) /\ Coherent(disk) /\ MinerInv /\ OneAccount
            /\ (FewSigners => StoredIsAuthorized)

The database has the whole chain of every block (`ChainInv`); what the batch may insert was verified on top of it (`BatchInv`);
every snapshot in memory and on disk is the replay of its chain from the genesis (`Coherent`); a prepared header and a
sealed block are right for their parent, whatever was stored since (`MinerInv`). None of these stands alone: a replay from
a cached snapshot is right because the cache is, the verification of a header because the replay is, and
what enters the cache was verified or sealed. `Replay` is a recursive function; that it exists, is unique, and can be cut in two
(`ReplayTail`: from the genesis to a snapshot, and from there on) is proved with the least counterexample of a set of numbers
(`LeastNumber`). `Sound` says of a replayed snapshot what is proved of `CliqueVoting`, and that a chain gains at most one
signer per block. That is what `FewSigners`, at most three in the genesis, is for: then the limit exceeds a block's number only where
nobody is recent, and the unsigned subtraction of `verifySeal` does no harm (`LimitWithinChain`). The bound is exact,
`CliqueWrap.cfg` has four. `OneAuthorPerTurn` is for a node that seals nothing (`Keys = {}`): a node that changes
its key after `Prepare` stores a block of its own whose difficulty is another's.

**`FreezerTableProofs`**: any blobs, file size, file numbers, items, files, crashes and failed writes (`TableAssumption`); the
theorems have no other hypothesis. Types hold always (`StepKeepsTypes`), and damage stays (`DamageStays`). `Sound` is what holds until then: counters
name the last entry or a new head file whose first write failed, the head file is longer than they say by just what failed writes left, entries grow by
file and offset, every entry lies within its file, and the files on disk cover what counts as durable. Truncation and repair
keep a prefix of the table, so they share one lemma (`CutIsSound`); that the repair loop ends on such a prefix, leaving out what failed writes
left, is `RepairCuts`, and that a crash which takes nothing of a closed file leaves the durable items is `CrashCuts`. An append keeps `Sound` if it writes behind no leftover and to a file whose number fits
(`AppendIsSound`), which is all that a step without damage does. For the refinement, `RetrieveIsBytes` says where an item's bytes are, `CutCutsList`,
`AppendExtendsList` and `FailureKeepsList` what the operations do to the list that is read, and `StepImplements` that each step is one of
`AncientTable`.

**`FreezerInvariant`, `FreezerProofs`**: the chain database, for any tree of blocks, any threshold, batch, number of SetHeads and number of
crashes (`FreezerAssumption`: blocks come with their ancestors). The hypothesis is

    Orderly == ~ RewindWhileFreezing /\ ~ CrashInRewind

since `NoExtraAncients` and `AncientsAreFinal` are false otherwise (section 3). The inductive invariant says:

- `Types`: with all tables of one length, which a crash breaks and `repair` restores within one step;
- `OneChain`: the markers name one chain, which agrees with the final one. `Tip` is the longer of block and header;
- `ChainIsStored`: the tables hold that chain from genesis on, and the store all of it that a crash could take from the tables. This is the
  core: a block may leave the store only when every table has it durably;
- `IndexIsUnique`: one block for a number in the index;
- `NotFarBeyond`, `LaggingHeader`, `LeftInIndex`: how chain, final chain, tables and index lie to each other. A header marker may stay
  behind the block, because `writeHeadBlock` leaves it alone when the index already has the block. And where the block marker
  was set back for want of a state, another child of that block takes over while the entries of the old chain above it stay. Both must lie
  beyond the final chain, and such entries leave no gap, or `reorg`, which deletes up to the first gap, would leave some behind;
- `Round`: what a round has appended so far, and that its limit is still below the head by the threshold, although blocks are imported
  meanwhile;
- `Rewind`, `Thorough`: while SetHead is under way, the markers are below what is yet to be cut, and all that the index has above
  the header is going to be deleted;
- `Reader`: where a lookup under way will find its block.

`ChainIsReadable` alone is not inductive, as it does not say that the store has what the tables may lose. Every action has a lemma, named after
it. Those that wipe the store share `WipesKeeps`, those that start SetHead `BeginBelow` and `BeginAtHead`. Import has one lemma for the case
in which the index already has the new head (`AdoptKnown`), and one for the other (`AdoptNew`). The mapping of the
tables to files is not repeated: `AncientTable`, in which the crash is stated, is what `TableImplementsAncientTable` proves of the files.

**`FeedProofs`**: any subscriptions and senders, any buffer of at least one value (`FeedAssumption`). `FeedIsCoherent` is inductive: no
subscription occurs twice in inbox and case list, and those that occur are the live ones. The work is in four lemmas on sequences:
appending, concatenating, deleting a case (the order of the others stays) and deactivating one (a swap keeps
the cases, and shortens the active prefix by just that one). The refinement maps a subscription to a member,
and the active prefix to those still owed the current value (`Owed`).

**`TxFetcherProofs`**: any peers and hashes, positive limits (`FetcherAssumption`). The inductive invariant is

    Coherent == Waits /\ Tracked(...) /\ Apart(...) /\ TimerTypes

`OneStage` alone is not inductive: whether a hash may leave the fetching stage depends on the request it
is in (`RequestsMatch`), and whether scheduling may take it depends on the accounts of its peers. `Tracked` is stated over
values instead of variables, since a handler changes the maps first and then schedules on the result: each handler has a lemma that
its own changes keep `Tracked`, and `scheduleFetches` has one for all of them.

| Theorem | States |
|---|---|
| `Inductive` | `Spec => []IInv` |
| `TypeCorrect`, `TallyCorrect`, `VotesCorrect`, `WindowCorrect` | its four parts |
| `SpamProtected` | no signer has two of any `Limit` consecutive blocks |
| `SomeSignerFree` | while there are signers, one of them may sign the next block |
| `CheckpointsStable` | a checkpoint leaves the signers as they were, and no vote survives it but on the zero address |
| `MajorityRules` | only a strict majority of distinct signers changes the signers |
| `EngineInvariance` | `FromGenesis => (Spec => []IInv)` for the engine |
| `SnapshotsStayCoherent` | the snapshots in memory and on disk are those of the whole chain |
| `SealedBlocksAreValid` | what Seal hands over passes everyone's verification, if signed with the key it was prepared for |
| `StoredBlocksAreAuthorized`, `SnapshotsAreAvailable` | with at most three genesis signers: no stored block is refused by `apply`, and a snapshot can be built on each |
| `OneAuthorPerTurn` | on a node that seals nothing, blocks in turn on one parent have one author |
| `TableStaysConsistent` | until the table is damaged, index, data files and counters agree, and every item can be read |
| `TableImplementsAncientTable` | until the table is damaged, the files implement an append-only list that loses at most unsynced items |
| `FreezerInvariance` | `Orderly => (Spec => []IInv)` for the chain database |
| `ChainStaysReadable` | every ancestor of the head is found, by number and by hash |
| `NodeAlwaysStarts` | the checks at the start pass after every crash |
| `FrozenIsFinal`, `TablesEndAtHead` | only final blocks are frozen, and none beyond the head |
| `LookupsSucceed` | a lookup misses no block that is there |
| `FeedStaysCoherent` | inbox and case list hold each live subscription once |
| `FeedImplementsBroadcast` | the feed implements `Broadcast` |
| `FeedKeepsOrder` | a channel holds consecutive values |
| `HashesKeepOneStage` | a hash is in one stage, and the panics of the loop are not reached |
| `RequestsStayMatched` | a hash is fetched from a peer exactly if its request asks for it |
| `AnnouncementsStayAccounted` | what is accounted to a peer lists it as an origin |
| `TimersStaySet` | a timer runs, or has gone off, while something waits or is requested |

Only model-checked: the transaction pool, of which nothing has been proved yet; `TrustIsHealed`, and
`SnapshotAvailable` where a checkpoint above the genesis is trusted (the run `clique_trust` has a threshold of 2, the theorem is about chains below
it); and all liveness, which like ENABLED is out of the prover's reach.

## 6. Not modelled, and what would come next

go-avalanria is large, and most of it computes rather than coordinates: the EVM, precompiles, RLP and ABI
encoding, tries, cryptography, wallets, command lines, generated bindings. A state machine of them
would be a transcription, and TLC could not explore it. Of the parts with state that is shared or
survives a crash, these are missing; `PROJECT.json` has the reason for each:

1. Inside what is modelled: fast sync and the pivot (`writeAncient`, the other half of `SetHead`); the
   creation of a table's files, where a torn first index entry is refused on the next start
   (`freezer_table.go:302`); errors of fsync, truncate and open, and index entries written in part; `HasHeader`, `HasBody` and their
   like, which look into the tables and then into the store only (`accessors_chain.go:298`); errors of the journal file while it is rotated (`tx_journal.go:158`); the window between the
   first reset and the subscription in `NewTxPool` (`tx_pool.go:314`).
2. `BlockFetcher` and the download queue: like the transaction fetcher, with blocks that have to be
   imported in order.
3. Block insertion with crash points inside `reorg`, composed with the pool in place of the chain
   `TxPoolLoop` has now; a network of clique nodes with the fork choice by total difficulty.
4. The dial scheduler, the rpc client, the chain indexer, the journal of the state database, the snapshot tree.
5. Proofs: the lookup table against the lists and the heaps against the lookup table
   (`ListsMatchLookup`, `RemotesArePriced`) for the operators of `TxPool`, whose loops are folds and recursive functions;
   `TrustIsHealed` for chains beyond the threshold.
