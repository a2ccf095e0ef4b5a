------------------------------- MODULE TxPool -------------------------------
(***************************************************************************)
(* The content of the transaction pool (core/tx_pool.go, tx_list.go and    *)
(* tx_noncer.go): every change the code makes under the pool's lock, as an *)
(* operator from pool to pool.                                             *)
(*                                                                         *)
(* A pool is a record.  pending and queue are the sets of transactions of  *)
(* all the account lists; a list that becomes empty is deleted, so an      *)
(* account has one iff it has a transaction there.  The cost and gas caps  *)
(* that a list caches only save work and are left out; gas limits and      *)
(* block gas behave like cost and balance.  beats, a map to times, is the  *)
(* sequence of its accounts, oldest heartbeat first.                       *)
(***************************************************************************)
EXTENDS TxPricedList

CONSTANTS
  Accounts,
  GlobalSlots, GlobalQueue, AccountSlots, AccountQueue,
  PriceBump          \* percentage by which a replacement must be better

ASSUME TxPoolAssumption ==
  /\ {GlobalSlots, GlobalQueue, AccountSlots, AccountQueue, PriceBump} \subseteq Nat \ {0}
  /\ IsFiniteSet(Accounts)

\* NewTxPool, on a chain state: nonces and balances of the accounts.
NewPool(state, price) ==
  [pending |-> {}, queue |-> {}, remotes |-> {}, locs |-> {}, locals |-> {},
   nonces |-> state.nonce, state |-> state, beats |-> <<>>, gasPrice |-> price,
   urgent |-> EmptyBag, floating |-> EmptyBag, stales |-> 0,
   journal |-> <<>>, events |-> {}]

All(p) == p.remotes \cup p.locs
Slots(S) == MapThenSumSet(LAMBDA t : t.slots, S)
Of(list, a) == {t \in list : t.from = a}
Nonces(list) == {t.nonce : t \in list}
Same(t, u) == t.from = u.from /\ t.nonce = u.nonce
At(list, tx) == {t \in list : Same(t, tx)}

\* Apply op to the transactions of a list in the order of their nonces.
InOrder(op(_, _), p, list) ==
  MapThenFoldSet(op, p, LAMBDA t : t,
                 LAMBDA S : CHOOSE t \in S : \A u \in S : t.nonce >= u.nonce, list)

InReverse(op(_, _), p, list) ==
  MapThenFoldSet(op, p, LAMBDA t : t,
                 LAMBDA S : CHOOSE t \in S : \A u \in S : t.nonce <= u.nonce, list)

\* The n transactions of a list with the highest nonces.
Highest(list, n) == {t \in list : Cardinality({u \in list : u.nonce > t.nonce}) < n}

\* Forget a transaction in txLookup; record one.
Unlisted(p, S) == [p EXCEPT !.remotes = @ \ S, !.locs = @ \ S]

Listed(p, tx, local) ==
  IF local THEN [p EXCEPT !.locs = @ \cup {tx}] ELSE [p EXCEPT !.remotes = @ \cup {tx}]

Beat(p, a) == [p EXCEPT !.beats = Append(SelectSeq(@, LAMBDA b : b # a), a)]
NoBeat(p, a) == [p EXCEPT !.beats = SelectSeq(@, LAMBDA b : b # a)]
HasBeat(p, a) == \E i \in DOMAIN p.beats : p.beats[i] = a
BeatIfNone(p, a) == IF HasBeat(p, a) THEN p ELSE Beat(p, a)

\* Mutant: the heartbeat goes whatever is left in the queue.
EmptiedAlways(p, a) == NoBeat(p, a)

\* An empty queue is deleted together with the heartbeat.
Emptied(p, a) == IF Of(p.queue, a) = {} THEN NoBeat(p, a) ELSE p

setIfLower(p, a, nonce) == [p EXCEPT !.nonces[a] = IF @ > nonce THEN nonce ELSE @]

-----------------------------------------------------------------------------
(* txList *)

\* Add: a new transaction replaces one of the same nonce at a higher price only.
Bumps(old, tx) ==
  /\ tx.price > old.price
  /\ tx.price >= (old.price * (100 + PriceBump)) \div 100

Insertable(list, tx) == \A old \in At(list, tx) : Bumps(old, tx)
Inserted(list, tx) == (list \ At(list, tx)) \cup {tx}

\* The run of consecutive nonces at the front of a list, if it starts in time.
Ready(list, start) ==
  IF list = {} \/ Min(Nonces(list)) > start THEN {}
  ELSE {t \in list : \A n \in Min(Nonces(list)) .. t.nonce : n \in Nonces(list)}

-----------------------------------------------------------------------------
(* Adding and removing single transactions *)

journalTx(p, tx) ==
  IF tx.from \in p.locals THEN [p EXCEPT !.journal = Append(@, tx)] ELSE p

\* Mutant: a replaced transaction stays in the lookup table.
ReplacedKept(p, old) == IF old = {} THEN p ELSE Removed(p, 1)

\* A list lost a transaction to a better one.
Replaced(p, old) == IF old = {} THEN p ELSE Removed(Unlisted(p, old), 1)

\* Enter a transaction into the lookup table and the price heaps.
Recorded(p, tx, local) == Put(Listed(p, tx, local), tx, local)

\* The pool if the future queue takes the transaction, p if an older one is better.
enqueueTx(p, tx, local, addAll) ==
  LET taken == Replaced([p EXCEPT !.queue = Inserted(@, tx)], At(p.queue, tx))
  IN IF ~ Insertable(p.queue, tx) THEN p
     ELSE BeatIfNone(IF addAll THEN Recorded(taken, tx, local) ELSE taken, tx.from)

\* Put transactions that left the pending list back into the queue.
Requeued(p, list) == InOrder(LAMBDA t, q : enqueueTx(q, t, FALSE, FALSE), p, list)

\* Take a transaction out of its list.  Later pending ones of the account are postponed.
Unlinked(p, tx) ==
  LET a == tx.from
      invalids == {t \in Of(p.pending, a) : t.nonce > tx.nonce}
  IN IF At(p.pending, tx) # {}
     THEN setIfLower(Requeued([p EXCEPT !.pending = @ \ (At(@, tx) \cup invalids)], invalids),
                     a, tx.nonce)
     ELSE IF Of(p.queue, a) # {} THEN Emptied([p EXCEPT !.queue = @ \ At(@, tx)], a) ELSE p

\* outofbound: the price heaps are told.
removeTx(p, tx, outofbound) ==
  LET gone == Unlisted(p, {tx})
  IN IF tx \notin All(p) THEN p
     ELSE Unlinked(IF outofbound THEN Removed(gone, 1) ELSE gone, tx)

\* validateTx: price floor for remotes, nonce, funds.
Valid(p, tx, local) ==
  /\ local \/ tx.price >= p.gasPrice
  /\ tx.nonce >= p.state.nonce[tx.from]
  /\ tx.cost <= p.state.balance[tx.from]

\* Slots the pool is short of for one more transaction.
Shortage(p, tx) == Slots(All(p)) + tx.slots - (GlobalSlots + GlobalQueue)

\* The account of the first local transaction becomes local with all it has.
MarkLocal(p, a) ==
  LET moved == Of(p.remotes, a)
  IN IF a \in p.locals THEN p
     ELSE Removed([p EXCEPT !.locals = @ \cup {a}, !.remotes = @ \ moved,
                            !.locs = @ \cup moved], Cardinality(moved))

\* Drop transactions one after the other.
RemoveAll(p, drop, outofbound) ==
  LET q[n \in 0 .. Len(drop)] ==
        IF n = 0 THEN p ELSE removeTx(q[n - 1], drop[n], outofbound)
  IN q[Len(drop)]

\* add, when a pending transaction has the nonce: replace it if the price is right.
ReplacePending(p, tx, isLocal) ==
  LET rid == Replaced([p EXCEPT !.pending = Inserted(@, tx)], At(p.pending, tx))
      told == [journalTx(Recorded(rid, tx, isLocal), tx) EXCEPT !.events = Inserted(@, tx)]
  IN IF Insertable(p.pending, tx) THEN Beat(told, tx.from) ELSE p

\* add, after enqueueTx, if that took the transaction.
AfterEnqueue(p, tx, local) ==
  IF tx \notin All(p) THEN p
  ELSE journalTx(IF local THEN MarkLocal(p, tx.from) ELSE p, tx)

\* add, from the point where there is room: replace a pending transaction or go
\* to the queue.  Only the queue's path marks a new local account.
AddWithRoom(p, tx, local, isLocal) ==
  IF At(p.pending, tx) # {} THEN ReplacePending(p, tx, isLocal)
  ELSE AfterEnqueue(enqueueTx(p, tx, isLocal, TRUE), tx, local)

\* Special case, there is still no room for a remote transaction.
NoRoom(isLocal, d) == ~ isLocal /\ d.slots > 0

\* Drop what Discard chose, if that is enough.
DropChosen(d, isLocal) ==
  IF NoRoom(isLocal, d) THEN [ok |-> FALSE, pool |-> d.pool]
  ELSE [ok |-> TRUE, pool |-> RemoveAll(d.pool, d.drop, FALSE)]

\* Reject an underpriced remote transaction, or drop others for it.
OutbidOthers(p, tx, isLocal) ==
  IF ~ isLocal /\ Underpriced(p, tx) THEN [ok |-> FALSE, pool |-> p]
  ELSE DropChosen(Discard(p, Shortage(p, tx), isLocal), isLocal)

\* The pool with room for the transaction, and whether there is any.
MakeRoom(p, tx, isLocal) ==
  IF Shortage(p, tx) <= 0 THEN [ok |-> TRUE, pool |-> p]
  ELSE OutbidOthers(IF isLocal THEN p ELSE AfterUnderpriced(p, tx), tx, isLocal)

\* The result of adding: the pool after, and the account to look at if the transaction
\* is new to its list in the pool before.
Result(before, after, tx) ==
  LET replaced == At(before.pending \cup before.queue, tx) # {}
  IN [pool |-> after, dirty |-> IF tx \in All(after) /\ ~ replaced THEN {tx.from} ELSE {}]

AddToRoom(room, tx, local, isLocal) ==
  IF ~ room.ok THEN [pool |-> room.pool, dirty |-> {}]
  ELSE Result(room.pool, AddWithRoom(room.pool, tx, local, isLocal), tx)

\* add: a full pool makes room before it is known whether the transaction can replace
\* the one of its nonce.
add(p, tx, local) ==
  LET isLocal == local \/ tx.from \in p.locals
  IN IF tx \in All(p) \/ ~ Valid(p, tx, isLocal) THEN [pool |-> p, dirty |-> {}]
     ELSE AddToRoom(MakeRoom(p, tx, isLocal), tx, local, isLocal)

\* add for one more transaction of a list.
AddNext(r, one) == [pool |-> one.pool, dirty |-> r.dirty \cup one.dirty]

addTxsLocked(p, txs, local) ==
  LET r[n \in 0 .. Len(txs)] ==
        IF n = 0 THEN [pool |-> p, dirty |-> {}]
        ELSE AddNext(r[n - 1], add(r[n - 1].pool, txs[n], local))
  IN r[Len(txs)]

-----------------------------------------------------------------------------
(* The parts of runReorg.  order is the order in which the maps of accounts    *)
(* are walked.                                                                 *)

ForAccounts(op(_, _), p, order) ==
  LET q[n \in 0 .. Len(order)] == IF n = 0 THEN p ELSE op(q[n - 1], order[n])
  IN q[Len(order)]

promoteTx(p, tx) ==
  LET old == At(p.pending, tx)
      rid == Replaced([p EXCEPT !.pending = Inserted(@, tx)], old)
  IN IF ~ Insertable(p.pending, tx) THEN Removed(Unlisted(p, {tx}), 1)
     ELSE Beat([rid EXCEPT !.nonces[tx.from] = tx.nonce + 1], tx.from)

\* What exceeds the queue of an account that is not local.
OverAccountQueue(p, a, list) ==
  IF a \in p.locals THEN {} ELSE Highest(list, Cardinality(list) - AccountQueue)

\* promoteExecutables, for one account with a queue.
Promote(p, a) ==
  LET list == Of(p.queue, a)
      unfit == {t \in list : t.nonce < p.state.nonce[a] \/ t.cost > p.state.balance[a]}
      readies == Ready(list \ unfit, p.nonces[a])
      rest == (list \ unfit) \ readies
      caps == OverAccountQueue(p, a, rest)
      fit == Unlisted([p EXCEPT !.queue = @ \ (unfit \cup readies)], unfit)
      q == InOrder(LAMBDA t, r : promoteTx(r, t), fit, readies)
      capped == Removed(Unlisted([q EXCEPT !.queue = @ \ caps], caps),
                        Cardinality(unfit) + Cardinality(caps))
  IN IF list = {} THEN p ELSE Emptied(capped, a)

promoteExecutables(p, order) == ForAccounts(Promote, p, order)

\* Mutant: a gap in front goes unnoticed.
GappedNever(list, nonce) == {}

\* All of a list that does not start with the account's nonce.
Gapped(list, nonce) == IF nonce \in Nonces(list) THEN {} ELSE list

\* demoteUnexecutables, for one account with pending transactions.
Demote(p, a) ==
  LET list == Of(p.pending, a)
      nonce == p.state.nonce[a]
      olds == {t \in list : t.nonce < nonce}
      drops == {t \in list \ olds : t.cost > p.state.balance[a]}
      invalids == {t \in (list \ olds) \ drops : \E d \in drops : t.nonce > d.nonce}
      rest == ((list \ olds) \ drops) \ invalids
      gapped == Gapped(rest, nonce)
      out == Unlisted([p EXCEPT !.pending = (@ \ list) \cup (rest \ gapped)], olds \cup drops)
  IN Requeued(Requeued(out, invalids), gapped)

demoteUnexecutables(p, order) == ForAccounts(Demote, p, order)

\* Drop the last pending transaction of an account.
CapLast(p, a) ==
  LET last == Highest(Of(p.pending, a), 1)
  IN Removed(setIfLower(Unlisted([p EXCEPT !.pending = @ \ last], last), a, Max(Nonces(last))), 1)

\* One turn of the loops of truncatePending.  s is the pool and its offenders, the
\* largest first: all but the last are brought down to its size, then the next
\* one is picked, and when there is none all are brought down to their allowance.
TruncateStep(s, order) ==
  LET n == Len(s.offenders)
      size(a) == Cardinality(Of(s.pool.pending, a))
      spammers == {i \in DOMAIN order : /\ order[i] \notin s.pool.locals
                                        /\ size(order[i]) > AccountSlots
                                        /\ \A k \in 1 .. n : s.offenders[k] # order[i]}
      next == CHOOSE i \in spammers :
                \A j \in spammers : \/ size(order[i]) > size(order[j])
                                    \/ size(order[i]) = size(order[j]) /\ i <= j
  IN IF Cardinality(s.pool.pending) <= GlobalSlots THEN s
     ELSE IF n > 1 /\ size(s.offenders[n - 1]) > size(s.offenders[n])
     THEN [s EXCEPT !.pool = ForAccounts(CapLast, @, SubSeq(s.offenders, 1, n - 1))]
     ELSE IF spammers # {} THEN [s EXCEPT !.offenders = Append(@, order[next])]
     ELSE IF n > 0 /\ size(s.offenders[n]) > AccountSlots
     THEN [s EXCEPT !.pool = ForAccounts(CapLast, @, s.offenders)]
     ELSE s

truncatePending(p, order) ==
  LET turns == Cardinality(p.pending) + Len(order)
      s[n \in 0 .. turns] == IF n = 0 THEN [pool |-> p, offenders |-> <<>>]
                             ELSE TruncateStep(s[n - 1], order)
  IN s[turns].pool

\* Mutant: one transaction too many may stay.
QueueOverLimitByOne(p) == Cardinality(p.queue) - GlobalQueue - 1

QueueOverLimit(p) == Cardinality(p.queue) - GlobalQueue

\* Drop what is over the limit, from the account that was active last.  Every
\* account with a queue has a heartbeat.
truncateQueue(p) ==
  LET addresses == SelectSeq(p.beats, LAMBDA a : a \notin p.locals /\ Of(p.queue, a) # {})
      cut(t, q) == removeTx(q, t, TRUE)
      s[n \in 0 .. Len(addresses)] ==
        IF n = 0 THEN [pool |-> p, drop |-> QueueOverLimit(p)]
        ELSE LET list == Of(p.queue, addresses[Len(addresses) + 1 - n])
                 drops == Highest(list, s[n - 1].drop)
             IN [pool |-> IF drops = list THEN InOrder(cut, s[n - 1].pool, drops)
                          ELSE InReverse(cut, s[n - 1].pool, drops),
                 drop |-> s[n - 1].drop - Cardinality(drops)]
  IN s[Len(addresses)].pool

\* Mutant: only promotions move the pending nonces.
SettleNoncesNever(p) == p

\* Update all accounts to the latest known pending nonce.
SettleNonces(p) ==
  [p EXCEPT !.nonces = [a \in Accounts |-> IF Of(p.pending, a) = {} THEN @[a]
                                           ELSE Max(Nonces(Of(p.pending, a))) + 1]]
=============================================================================
