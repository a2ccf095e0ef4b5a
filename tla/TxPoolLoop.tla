----------------------------- MODULE TxPoolLoop -----------------------------
(***************************************************************************)
(* The goroutines around the transaction pool (core/tx_pool.go): callers   *)
(* that add transactions, loop() that follows the chain and evicts and     *)
(* journals, scheduleReorgLoop() that collects requests, and the runReorg  *)
(* goroutine it starts.  The chain they follow and the journal file        *)
(* (tx_journal.go) are part of the model.                                  *)
(*                                                                         *)
(* A block is the sequence of the block bodies from the genesis block on,  *)
(* so its parent and its number can be read off it.                        *)
(***************************************************************************)
EXTENDS TxPool, SequencesExt

CONSTANTS
  Txs,               \* transactions anyone may send
  Bodies,            \* block bodies: the transactions, and the accounts left poor
  Prices,            \* minimum prices an operator may set
  Submitters,        \* accounts that use AddLocal
  Sync,              \* callers wait for the run they ask for (AddLocals, AddRemotesSync)
  London,            \* EIP-1559 is active: every reset rebuilds the price heaps
  MaxReorgDepth,     \* 64 in the code
  chainHeadChanSize, \* 10 in the code
  RichBalance, PoorBalance,
  MaxBatch,          \* bound: blocks inserted by one call
  MaxHeads,          \* bound: changes of the head of the chain
  MaxDepth,          \* bound: blocks abandoned by one reorganisation
  MaxNumber,         \* bound: chain length
  MaxAdds,           \* bound: calls that add a transaction
  MaxSetHeads, MaxEvicts, MaxRestarts, MaxMissing   \* bounds on the rarer events

ASSUME LoopAssumption ==
  /\ {MaxReorgDepth, chainHeadChanSize, MaxBatch} \subseteq Nat \ {0}
  /\ {MaxHeads, MaxDepth, MaxNumber, MaxAdds, MaxSetHeads, MaxEvicts, MaxRestarts,
      MaxMissing} \subseteq Nat
  /\ London \in BOOLEAN /\ Sync \in BOOLEAN
  /\ Submitters \subseteq Accounts
  /\ \A t \in Txs : /\ t.from \in Accounts
                    /\ t.slots \in Nat \ {0}
                    /\ {t.nonce, t.price, t.cost} \subseteq Nat

VARIABLES
  pool,
  known,       \* the blocks in the database
  head,        \* the current block of the chain
  heads,       \* chainHeadCh
  loopHead,    \* loop(): the last block it was told of
  callers,     \* calls of addTxs that still have to hand over their accounts
  reset,       \* scheduler: the pending reset request, if any
  dirty,       \* scheduler: accounts to promote
  launch,      \* scheduler: launchNextRun
  run,         \* the runReorg goroutine
  announced,   \* transactions sent to the subscribers
  panicked,
  adds, moves, rare   \* the counters the bounds are about

vars == <<pool, known, head, heads, loopHead, callers, reset, dirty, launch, run,
          announced, panicked, adds, moves, rare>>

-----------------------------------------------------------------------------
(* The chain *)

\* Nonces and balances after a block.
StateAt(block) ==
  [nonce |-> [a \in Accounts |->
       MapThenSumSet(LAMBDA i : Cardinality(Of(block[i].txs, a)), DOMAIN block)],
   balance |-> [a \in Accounts |->
       IF block # <<>> /\ a \in Last(block).poor THEN PoorBalance ELSE RichBalance]]

\* A body the state processor accepts on top of a block.
Executable(block, body) ==
  LET state == StateAt(block)
  IN \A a \in Accounts :
       LET list == Of(body.txs, a)
       IN /\ Nonces(list) = state.nonce[a] .. state.nonce[a] + Cardinality(list) - 1
          /\ \A t \in list : t.cost <= state.balance[a]

\* Chains of up to n bodies on top of a block.
Extensions(block, n) ==
  LET grow[k \in 0 .. n] ==
        IF k = 0 THEN {block}
        ELSE {Append(b, body) : <<b, body>> \in
                {x \in grow[k - 1] \X Bodies : Executable(x[1], x[2])}}
  IN UNION {grow[k] : k \in 1 .. n}

\* The transactions of a block above a given number, newest block first.
TxsAbove(block, number) ==
  LET list[i \in number .. Len(block)] ==
        IF i = number THEN <<>>
        ELSE SetToSortSeq(block[i].txs, LAMBDA t, u : t.nonce < u.nonce) \o list[i - 1]
  IN list[Len(block)]

\* The number of the last block two blocks have in common.
ForkNumber(b, c) ==
  Max({n \in 0 .. Len(b) : n <= Len(c) /\ SubSeq(b, 1, n) = SubSeq(c, 1, n)})

-----------------------------------------------------------------------------
(* reset and runReorg *)

Far(old, new) == Len(old) - Len(new) > MaxReorgDepth \/ Len(new) - Len(old) > MaxReorgDepth

\* The walk over both chains is needed.
Reorged(old, new) == new # <<>> /\ old # Front(new) /\ ~ Far(old, new)

\* TxDifference of the abandoned and the new blocks, if the old head is still there.
Reinject(old, new) ==
  IF Reorged(old, new) /\ old \in known
  THEN LET n == ForkNumber(old, new)
           included == ToSet(TxsAbove(new, n))
       IN SelectSeq(TxsAbove(old, n), LAMBDA t : t \notin included)
  ELSE <<>>

\* The old head is gone although the chain is not shorter: reset gives up.
GivesUp(old, new) == Reorged(old, new) /\ old \notin known /\ Len(new) >= Len(old)

\* The new head is gone: the walk dereferences a nil block.
Dereferences(old, new) == Reorged(old, new) /\ old \in known /\ new \notin known

\* reset; missing: the state of the new head cannot be opened.
resetPool(p, old, new, missing) ==
  LET state == StateAt(new)
      q == [p EXCEPT !.state = state, !.nonces = state.nonce]
  IN IF GivesUp(old, new) \/ missing THEN p
     ELSE addTxsLocked(q, Reinject(old, new), FALSE).pool

\* The accounts of order that are in a set.
Within(order, S) == SelectSeq(order, LAMBDA a : a \in S)

Resets(r) == r.reset # <<>>

\* After a reset, pending transactions that no longer fit are demoted, and the heaps
\* rebuilt for the new base fee.
AfterPromotion(p, r, order) ==
  LET demoted == demoteUnexecutables(p, order)
  IN IF ~ Resets(r) THEN p ELSE IF London THEN Reheap(demoted) ELSE demoted

\* The transactions to tell the subscribers of: what was promoted, and the events queued
\* since the last run but for those a reset made old.
Told(fresh, news, r) ==
  LET events == {t \in r.events : Resets(r) => t.nonce >= fresh.nonces[t.from]}
  IN {t \in events : At(news, t) = {}} \cup news

\* runReorg, given the pool before and after the promotion.
Finished(fresh, promoted, r, order) ==
  [pool |-> SettleNonces(truncateQueue(truncatePending(AfterPromotion(promoted, r, order), order))),
   txs |-> Told(fresh, promoted.pending \ fresh.pending, r)]

\* runReorg, once the reset is done.
AfterReset(fresh, r, order) ==
  LET addrs == IF Resets(r) THEN {t.from : t \in fresh.queue} ELSE r.dirty
  IN Finished(fresh, promoteExecutables(fresh, Within(order, addrs)), r, order)

\* Everything runReorg does under the lock: the pool, and what to tell the subscribers.
runReorg(p, r, order, missing) ==
  AfterReset(IF Resets(r) THEN resetPool(p, r.reset[1].old, r.reset[1].new, missing) ELSE p,
             r, order)

-----------------------------------------------------------------------------
(* Callers *)

NoRun == [stage |-> "none"]

Called(d) == callers' = BagAdd(callers, d)

\* Nothing is requested, running or on its way.
Rest ==
  /\ callers = EmptyBag /\ heads = <<>>
  /\ reset = <<>> /\ dirty = {} /\ ~ launch
  /\ run = NoRun

\* addTxs with one transaction: the accounts to look at are handed over later.
AddTx(tx, local) ==
  /\ adds < MaxAdds
  /\ Sync => Rest
  /\ tx \notin All(pool)
  /\ local => tx.from \in Submitters
  /\ \E r \in {add(pool, tx, local)} : pool' = r.pool /\ Called(r.dirty)
  /\ adds' = adds + 1
  /\ UNCHANGED <<known, head, heads, loopHead, reset, dirty, launch, run, announced,
                 panicked, moves, rare>>

\* SetGasPrice drops in the order of a map.
SetGasPrice(price) ==
  LET below == {t \in pool.remotes : t.price < price}
      set == [pool EXCEPT !.gasPrice = price]
  IN /\ price # pool.gasPrice
     /\ IF price > pool.gasPrice
        THEN \E drop \in SetToSeqs(below) :
               pool' = Removed(RemoveAll(set, drop, FALSE), Cardinality(below))
        ELSE pool' = set
     /\ UNCHANGED <<known, head, heads, loopHead, callers, reset, dirty, launch, run,
                    announced, panicked, adds, moves, rare>>

-----------------------------------------------------------------------------
(* The chain moves *)

\* insertChain: one event for all the blocks of a call.  A reorganisation abandons
\* up to MaxDepth blocks.
NewHead(depth) ==
  /\ moves < MaxHeads
  /\ depth <= Len(head)
  /\ Len(heads) < chainHeadChanSize
  /\ \E block \in Extensions(SubSeq(head, 1, Len(head) - depth), MaxBatch) :
       /\ Len(block) <= MaxNumber
       /\ ~ IsPrefix(block, head)
       /\ ForkNumber(block, head) = Len(head) - depth
       /\ head' = block
       /\ heads' = Append(heads, block)
       /\ known' = known \cup {SubSeq(block, 1, n) : n \in 1 .. Len(block)}
  /\ moves' = moves + 1
  /\ UNCHANGED <<pool, loopHead, callers, reset, dirty, launch, run, announced, panicked,
                 adds, rare>>

\* SetHead deletes everything above a number and tells nobody.
SetHead(number) ==
  /\ rare.setHeads < MaxSetHeads
  /\ number < Len(head)
  /\ head' = SubSeq(head, 1, number)
  /\ known' = {b \in known : Len(b) <= number}
  /\ rare' = [rare EXCEPT !.setHeads = @ + 1]
  /\ UNCHANGED <<pool, heads, loopHead, callers, reset, dirty, launch, run, announced,
                 panicked, adds, moves>>

-----------------------------------------------------------------------------
(* loop() and scheduleReorgLoop() *)

\* Mutant: the head of a pending request is not brought up to date.
NewerNever(requested, new) ==
  IF requested = <<>> THEN <<[old |-> loopHead, new |-> new]>> ELSE requested

\* A reset that is already asked for only gets the newer head.
Newer(requested, new) ==
  IF requested = <<>> THEN <<[old |-> loopHead, new |-> new]>>
  ELSE [requested EXCEPT ![1].new = new]

\* loop() hears of a new head and asks for a reset.
RequestReset ==
  /\ heads # <<>>
  /\ LET new == Head(heads)
     IN /\ reset' = Newer(reset, new)
        /\ loopHead' = new
  /\ heads' = Tail(heads)
  /\ launch' = TRUE
  /\ UNCHANGED <<pool, known, head, callers, dirty, run, announced, panicked, adds, moves,
                 rare>>

\* Mutant: a request that comes in during a run does not schedule another.
RequestPromoteIfIdle(d) ==
  /\ BagIn(d, callers)
  /\ callers' = BagRemove(callers, d)
  /\ dirty' = dirty \cup d
  /\ launch' = (launch \/ run = NoRun)
  /\ UNCHANGED <<pool, known, head, heads, loopHead, reset, run, announced, panicked, adds,
                 moves, rare>>

\* A caller of addTxs hands over the accounts it made dirty.
RequestPromote(d) ==
  /\ BagIn(d, callers)
  /\ callers' = BagRemove(callers, d)
  /\ dirty' = dirty \cup d
  /\ launch' = TRUE
  /\ UNCHANGED <<pool, known, head, heads, loopHead, reset, run, announced, panicked, adds,
                 moves, rare>>

\* Mutant: a launch forgets the events queued for it.
LaunchWithoutEvents ==
  /\ run = NoRun
  /\ launch
  /\ run' = [stage |-> "launched", reset |-> reset, dirty |-> dirty, events |-> {}]
  /\ launch' = FALSE
  /\ reset' = <<>>
  /\ dirty' = {}
  /\ pool' = [pool EXCEPT !.events = {}]
  /\ UNCHANGED <<known, head, heads, loopHead, callers, announced, panicked, adds, moves, rare>>

\* At most one run at a time; what comes in from now on is for the next one.
Launch ==
  /\ run = NoRun
  /\ launch
  /\ run' = [stage |-> "launched", reset |-> reset, dirty |-> dirty, events |-> pool.events]
  /\ launch' = FALSE
  /\ reset' = <<>>
  /\ dirty' = {}
  /\ pool' = [pool EXCEPT !.events = {}]
  /\ UNCHANGED <<known, head, heads, loopHead, callers, announced, panicked, adds, moves, rare>>

\* runReorg holds the lock.
Reorg ==
  /\ run.stage = "launched"
  /\ IF run.reset # <<>> /\ Dereferences(run.reset[1].old, run.reset[1].new)
     THEN panicked' = TRUE /\ UNCHANGED <<pool, run, rare>>
     ELSE \E order \in SetToSeqs(Accounts) :
          \E missing \in {m \in BOOLEAN : m => run.reset # <<>> /\ rare.missing < MaxMissing} :
            \E r \in {runReorg(pool, run, order, missing)} :
               /\ pool' = r.pool
               /\ run' = [stage |-> "sending", txs |-> r.txs]
               /\ rare' = IF missing THEN [rare EXCEPT !.missing = @ + 1] ELSE rare
               /\ UNCHANGED panicked
  /\ UNCHANGED <<known, head, heads, loopHead, callers, reset, dirty, launch, announced, adds,
                 moves>>

\* runReorg has released the lock, sends its event and is done.
Announce ==
  /\ run.stage = "sending"
  /\ announced' = announced \cup run.txs
  /\ run' = NoRun
  /\ UNCHANGED <<pool, known, head, heads, loopHead, callers, reset, dirty, launch, panicked,
                 adds, moves, rare>>

\* Mutant: local accounts are evicted too.
SilentAnyone(n) == {pool.beats[i] : i \in 1 .. n}

\* The remote accounts among the n that have been silent for longest.
Silent(n) == {pool.beats[i] : i \in 1 .. n} \ pool.locals

\* The eviction ticker: the queues of the remote accounts that have been silent for
\* longest, walked in some order.
Evict(n) ==
  /\ rare.evicts < MaxEvicts
  /\ n \in 1 .. Len(pool.beats)
  /\ LET old == Silent(n)
         cut(p, a) == InOrder(LAMBDA t, q : removeTx(q, t, TRUE), p, Of(p.queue, a))
     IN /\ \E a \in old : Of(pool.queue, a) # {}
        /\ \E order \in SetToSeqs(old) : pool' = ForAccounts(cut, pool, order)
  /\ rare' = [rare EXCEPT !.evicts = @ + 1]
  /\ UNCHANGED <<known, head, heads, loopHead, callers, reset, dirty, launch, run, announced,
                 panicked, adds, moves>>

-----------------------------------------------------------------------------
(* The journal *)

\* local(): the transactions of the local accounts, grouped by account.
LocalTxs(p, order) ==
  LET sorted(list) == SetToSortSeq(list, LAMBDA t, u : t.nonce < u.nonce)
      group[n \in 0 .. Len(order)] ==
        IF n = 0 THEN <<>>
        ELSE group[n - 1] \o sorted(Of(p.pending, order[n])) \o sorted(Of(p.queue, order[n]))
  IN group[Len(order)]

\* The journal ticker: rewrite the file from the pool.
RotateJournal ==
  /\ \E order \in SetToSeqs(pool.locals) :
       pool' = [pool EXCEPT !.journal = LocalTxs(pool, order)]
  /\ pool' # pool
  /\ UNCHANGED <<known, head, heads, loopHead, callers, reset, dirty, launch, run, announced,
                 panicked, adds, moves, rare>>

\* Mutant: the entries are loaded like those of peers.
LoadAsRemote(journal) == addTxsLocked(NewPool(StateAt(head), Min(Prices)), journal, FALSE)

\* A new pool with the entries of the journal.
Load(journal) == addTxsLocked(NewPool(StateAt(head), Min(Prices)), journal, TRUE)

\* NewTxPool after a stop or a crash: load the journal with AddLocals, which waits for
\* the run it asks for, and rotate it.  No entry is journaled again while loading.
Restart ==
  /\ rare.restarts < MaxRestarts
  /\ \E order \in SetToSeqs(Accounts), r \in {Load(pool.journal)} :
     \E q \in {runReorg([r.pool EXCEPT !.events = {}],
                        [reset |-> <<>>, dirty |-> r.dirty, events |-> r.pool.events],
                        order, FALSE)} :
          /\ pool' = [q.pool EXCEPT !.journal = LocalTxs(q.pool, Within(order, q.pool.locals))]
          /\ announced' = announced \cup q.txs
  /\ heads' = <<>>
  /\ loopHead' = head
  /\ callers' = EmptyBag
  /\ reset' = <<>>
  /\ dirty' = {}
  /\ launch' = FALSE
  /\ run' = NoRun
  /\ rare' = [rare EXCEPT !.restarts = @ + 1]
  /\ UNCHANGED <<known, head, panicked, adds, moves>>

-----------------------------------------------------------------------------
Init ==
  /\ pool = NewPool(StateAt(<<>>), Min(Prices))
  /\ known = {<<>>}
  /\ head = <<>>
  /\ heads = <<>>
  /\ loopHead = <<>>
  /\ callers = EmptyBag
  /\ reset = <<>>
  /\ dirty = {}
  /\ launch = FALSE
  /\ run = NoRun
  /\ announced = {}
  /\ panicked = FALSE
  /\ adds = 0
  /\ moves = 0
  /\ rare = [setHeads |-> 0, evicts |-> 0, restarts |-> 0, missing |-> 0]

Alive == ~ panicked

Next ==
  \/ Alive /\ \E tx \in Txs, local \in BOOLEAN : AddTx(tx, local)
  \/ Alive /\ \E price \in Prices : SetGasPrice(price)
  \/ Alive /\ \E depth \in 0 .. MaxDepth : NewHead(depth)
  \/ Alive /\ \E number \in 0 .. MaxNumber : SetHead(number)
  \/ Alive /\ RequestReset
  \/ Alive /\ \E d \in SUBSET Accounts : RequestPromote(d)
  \/ Alive /\ Launch
  \/ Alive /\ Reorg
  \/ Alive /\ Announce
  \/ Alive /\ \E n \in 1 .. Cardinality(Accounts) : Evict(n)
  \/ Alive /\ RotateJournal
  \/ Alive /\ Restart

Spec == Init /\ [][Next]_vars

\* The goroutines are scheduled: a request that can be received is, a launched run gets
\* the lock and returns.  Weak fairness of Reorg is written without ENABLED: Reorg is
\* possible while a run is launched, and only it or a restart ends that.
Fairness ==
  /\ WF_vars(RequestReset)
  /\ \A d \in SUBSET Accounts : WF_vars(RequestPromote(d))
  /\ WF_vars(Launch)
  /\ []<>(run.stage # "launched" \/ panicked)
  /\ WF_vars(Announce)

FairSpec == Spec /\ Fairness

-----------------------------------------------------------------------------
(* Properties *)

\* Every field of the pool and of the scheduler has its type, the counters are
\* natural numbers and an account has at most one heartbeat.
TypeOK ==
  /\ pool.pending \subseteq Txs /\ pool.queue \subseteq Txs
  /\ pool.remotes \subseteq Txs /\ pool.locs \subseteq Txs
  /\ pool.locals \subseteq Accounts
  /\ pool.nonces \in [Accounts -> Nat]
  /\ IsInjective(pool.beats) /\ ToSet(pool.beats) \subseteq Accounts
  /\ IsABag(pool.urgent) /\ IsABag(pool.floating) /\ pool.stales \in Int
  /\ head \in known
  /\ dirty \subseteq Accounts /\ launch \in BOOLEAN
  /\ run.stage \in {"none", "launched", "sending"}
  /\ announced \subseteq Txs

\* The lookup table and the account lists agree whenever the lock is free: every known
\* transaction is in one list, and no nonce of an account is taken twice, in one list
\* or over both.  (enqueueTx of a demoted transaction ignores that it may fail.)
ListsMatchLookup ==
  /\ All(pool) = pool.pending \cup pool.queue
  /\ pool.remotes \cap pool.locs = {}
  /\ pool.pending \cap pool.queue = {}
  /\ \A t, u \in All(pool) : Same(t, u) => t = u

\* What is pending for an account can be executed on the state the pool knows: its nonces
\* follow the account's without a gap, up to the next nonce that Nonce() promises.
PendingIsExecutable ==
  \A a \in Accounts :
    Nonces(Of(pool.pending, a)) = pool.state.nonce[a] .. pool.nonces[a] - 1

\* The next nonce of an account, as Nonce() promises it, follows its last pending
\* transaction, and its first pending transaction has the account's nonce.
NonceIsNext ==
  \A a \in Accounts :
    LET list == Of(pool.pending, a)
    IN IF list = {} THEN pool.nonces[a] = pool.state.nonce[a]
       ELSE /\ Min(Nonces(list)) = pool.state.nonce[a]
            /\ pool.nonces[a] = Max(Nonces(list)) + 1

\* Every remote transaction is in a price heap: otherwise a full pool could never evict it
\* (Put, Removed, Reheap and the pops of Underpriced and Discard).
RemotesArePriced ==
  pool.remotes \subseteq BagToSet(pool.urgent) \cup BagToSet(pool.floating)

\* Every account with queued transactions has a heartbeat, or the eviction ticker would
\* take them at once (the deletions of beats in promoteExecutables and removeTx).
QueueHasHeartbeat == \A t \in pool.queue : HasBeat(pool, t.from)

\* Lists, lookup table, price heaps and heartbeats are four views of the same
\* transactions that the code keeps in step by hand, and they are whenever the lock
\* is free.
PoolIsCoherent ==
  /\ TypeOK
  /\ ListsMatchLookup
  /\ RemotesArePriced
  /\ QueueHasHeartbeat

\* When everything has been handled, the pool works on the state of the last head it was
\* told of, which is the chain's unless that was rewound.
StateIsCurrent ==
  Rest => pool.state = StateAt(loopHead) /\ (rare.setHeads = 0 => loopHead = head)

\* When everything has been handled, the subscribers were told of all that is pending.
PendingIsAnnounced == Rest => pool.pending \subseteq announced

\* When everything has been handled, no transaction waits in the queue that is next in
\* line for its account, since runReorg promotes the accounts that asked for it or, on a
\* reset, every address in the queue.
NothingReadyIsQueued ==
  Rest => \A t \in pool.queue :
            ~ (t.nonce = pool.nonces[t.from] /\ t.cost <= pool.state.balance[t.from])

\* When everything has been handled, the limits hold: what exceeds them belongs to local
\* accounts, or to accounts within their guaranteed slots.
LimitsHold ==
  Rest =>
    /\ \/ Cardinality(pool.pending) <= GlobalSlots
       \/ \A a \in Accounts \ pool.locals : Cardinality(Of(pool.pending, a)) <= AccountSlots
    /\ \/ Cardinality(pool.queue) <= GlobalQueue
       \/ \A t \in pool.queue : t.from \in pool.locals

\* A transaction of a local account leaves the pool only because its nonce was used or
\* replaced or its sender cannot pay for it: not for its price, for the limits or for its age.
LocalsAreKept ==
  [][\A t \in All(pool) :
        t.from \in pool.locals /\ t \notin All(pool') =>
          \/ t.nonce < pool'.state.nonce[t.from]
          \/ t.cost > pool'.state.balance[t.from]
          \/ At(All(pool'), t) # {}
          \/ rare'.restarts # rare.restarts]_vars

\* A restart keeps the transactions that the pool had journaled, but for those that the chain
\* no longer allows and those whose nonce another journaled transaction takes.
RestartKeepsLocals ==
  [][rare'.restarts # rare.restarts =>
       \A t \in All(pool) \cap ToSet(pool.journal) :
         \/ At(All(pool'), t) # {}
         \/ t.nonce < pool'.state.nonce[t.from]
         \/ t.cost > pool'.state.balance[t.from]]_vars

\* Requests do not get lost: again and again everything has been handled.
Settles == []<>Rest
=============================================================================
