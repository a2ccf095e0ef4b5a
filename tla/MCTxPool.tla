------------------------------ MODULE MCTxPool ------------------------------
(* Instances of TxPoolLoop for TLC. *)
EXTENDS TxPoolLoop

Tx(from, nonce, price, cost) ==
  [from |-> from, nonce |-> nonce, price |-> price, cost |-> cost, slots |-> 1]

Body(txs, poor) == [txs |-> txs, poor |-> poor]

MCOne == {"a"}
MCTwo == {"a", "b"}
MCNothing == {}

\* Two accounts, two nonces, two prices.
MCTxs == {Tx(a, n, p, 1) : a \in MCTwo, n \in 0 .. 1, p \in 1 .. 2}

\* Blocks that use the first nonce of account b.
MCTxsBodies == {Body({Tx("b", 0, p, 1)}, {}) : p \in 1 .. 2}

\* Two accounts with three nonces each.
MCLong == {Tx(a, n, 1, 1) : a \in MCTwo, n \in 0 .. 2}

\* One account with three nonces and a replacement for the second.
MCRun == {Tx("a", n, 1, 1) : n \in 0 .. 2} \cup {Tx("a", 1, 2, 1)}

\* Blocks with none, one or two of them.
MCRunBodies == {Body(txs, {}) : txs \in {{}, {Tx("a", 0, 1, 1)}, {Tx("a", 1, 1, 1)},
                                         {Tx("a", 0, 1, 1), Tx("a", 1, 2, 1)}}}

\* One of three transactions costs more than a poor account has; the blocks change that.
MCCostly == {Tx("a", 0, 1, 1), Tx("a", 1, 1, 2), Tx("a", 2, 1, 1)}
MCCostlyBodies == {Body({}, {}), Body({Tx("a", 0, 1, 1)}, {"a"}),
                   Body({Tx("a", 0, 1, 1), Tx("a", 1, 1, 2)}, {})}
=============================================================================
