---------------------------- MODULE TxPricedList ----------------------------
(***************************************************************************)
(* The price-sorted index of the remote transactions of the pool           *)
(* (txPricedList in core/tx_list.go): two heaps and a counter of entries   *)
(* that no longer stand for a pooled remote transaction.                   *)
(*                                                                         *)
(* A pool is a record; this module reads its field remotes and changes     *)
(* urgent, floating and stales.  The heaps are bags, because a transaction *)
(* that left the pool and came back is in them twice.  A transaction has   *)
(* one price (its fee cap and its tip are equal, as in a legacy            *)
(* transaction), so both heaps have the same order.                        *)
(***************************************************************************)
EXTENDS Integers, FiniteSets, Sequences, Bags, BagsExt, FiniteSetsExt, Folds

urgentRatio == 4
floatingRatio == 1

\* The order of the heaps: cheaper first, then the higher nonce.
Worse(t, u) == t.price < u.price \/ (t.price = u.price /\ t.nonce > u.nonce)

\* heap[0].  Ties, which the heap breaks by its layout, are broken arbitrarily.
Cheapest(S) == CHOOSE t \in S : \A u \in S : ~ Worse(u, t)

Tracked(p) == BagCardinality(p.urgent) + BagCardinality(p.floating)

\* Entries that were removed from the pool or migrated to the locals.
Stale(p, heap) == BagToSet(heap) \ p.remotes

-----------------------------------------------------------------------------
Put(p, tx, local) == IF local THEN p ELSE [p EXCEPT !.urgent = BagAdd(@, tx)]

\* The n cheapest of a set of transactions.
CheapestOf(S, n) ==
  LET pick[k \in 0 .. n] ==
        IF k = 0 THEN {} ELSE pick[k - 1] \cup {Cheapest(S \ pick[k - 1])}
  IN pick[n]

\* Both heaps hold the remote transactions once, the given ones in floating.
Split(p, worst) ==
  [p EXCEPT !.stales = 0, !.urgent = SetToBag(p.remotes \ worst),
            !.floating = SetToBag(worst)]

\* Rebuild both heaps from the remote transactions, the worst fifth in floating.
Reheap(p) ==
  LET count == (Cardinality(p.remotes) * floatingRatio) \div (urgentRatio + floatingRatio)
  IN Split(p, CheapestOf(p.remotes, count))

\* Rebuild when more than a quarter of the entries is stale.
ReheapIfStale(p) == IF p.stales <= Tracked(p) \div 4 THEN p ELSE Reheap(p)

\* count entries went stale.
Removed(p, count) == ReheapIfStale([p EXCEPT !.stales = @ + count])

-----------------------------------------------------------------------------
(* Underpriced *)

\* Mutant: the first live entry is popped too.
CleanedTooMuch(p, heap) ==
  LET live == BagToSet(heap) \cap p.remotes
      gone == {t \in BagToSet(heap) : live = {} \/ ~ Worse(Cheapest(live), t)}
  IN [t \in BagToSet(heap) \ gone |-> heap[t]]

\* A heap without the stale entries that stand before its first live one.
Cleaned(p, heap) ==
  LET live == BagToSet(heap) \cap p.remotes
      gone == {t \in Stale(p, heap) : live = {} \/ Worse(t, Cheapest(live))}
  IN [t \in BagToSet(heap) \ gone |-> heap[t]]

\* The pool after underpricedFor looked at one of its heaps.
PopUrgent(p, h) ==
  [p EXCEPT !.urgent = h, !.stales = @ - (BagCardinality(p.urgent) - BagCardinality(h))]

PopFloating(p, h) ==
  [p EXCEPT !.floating = h, !.stales = @ - (BagCardinality(p.floating) - BagCardinality(h))]

\* The transaction is no better than the worst of a cleaned heap, or there is none.
NoBetter(heap, tx) == heap = EmptyBag \/ Cheapest(BagToSet(heap)).price >= tx.price

\* The floating heap is looked at only if the urgent one does not decide.
LookFurther(p, tx) ==
  IF NoBetter(p.urgent, tx) THEN PopFloating(p, Cleaned(p, p.floating)) ELSE p

AfterUnderpriced(p, tx) == LookFurther(PopUrgent(p, Cleaned(p, p.urgent)), tx)

\* What Underpriced returns, given the pool it leaves behind.
Underpriced(p, tx) ==
  NoBetter(p.urgent, tx) /\ NoBetter(p.floating, tx) /\ Tracked(p) > 0

-----------------------------------------------------------------------------
(* Discard *)

\* One turn of the loop.  d is the pool, the slots still needed, the dropped
\* transactions and whether the heaps ran out.
DiscardStep(d) ==
  LET p == d.pool
      top(heap) == Cheapest(BagToSet(heap))
      u == top(p.urgent)
      f == top(p.floating)
      unstale == [p EXCEPT !.stales = @ - 1]
  IN IF d.slots <= 0 \/ d.out THEN d
     ELSE IF BagCardinality(p.urgent) * floatingRatio > BagCardinality(p.floating) * urgentRatio
     THEN IF u \notin p.remotes
          THEN [d EXCEPT !.pool = [unstale EXCEPT !.urgent = BagRemove(@, u)]]
          ELSE [d EXCEPT !.pool.urgent = BagRemove(@, u), !.pool.floating = BagAdd(@, u)]
     ELSE IF p.floating = EmptyBag THEN [d EXCEPT !.out = TRUE]
     ELSE IF f \notin p.remotes
     THEN [d EXCEPT !.pool = [unstale EXCEPT !.floating = BagRemove(@, f)]]
     ELSE [d EXCEPT !.pool.floating = BagRemove(@, f), !.drop = Append(@, f),
                    !.slots = @ - f.slots]

\* Each turn moves an entry from urgent to floating or takes one out.
DiscardLoop(p, slots) ==
  LET turn[n \in 0 .. 2 * Tracked(p) + 1] ==
        IF n = 0 THEN [pool |-> p, slots |-> slots, drop |-> <<>>, out |-> FALSE]
        ELSE DiscardStep(turn[n - 1])
  IN turn[2 * Tracked(p) + 1]

\* If the dropped do not make enough room they go back, unless forced: then slots
\* stays positive.
PutBack(d, force) ==
  LET back[n \in 0 .. Len(d.drop)] ==
        IF n = 0 THEN d.pool.urgent ELSE BagAdd(back[n - 1], d.drop[n])
  IN IF d.slots > 0 /\ ~ force
     THEN [d EXCEPT !.pool.urgent = back[Len(d.drop)], !.drop = <<>>]
     ELSE d

\* The transactions to drop for a number of slots.
Discard(p, slots, force) == PutBack(DiscardLoop(p, slots), force)
=============================================================================
