---------------------------- MODULE AncientTable ----------------------------
(***************************************************************************)
(* What one table of the chain freezer promises to the code above it: an   *)
(* append-only list of blobs that can be cut back, and of which a crash    *)
(* loses at most a suffix, never an item that was there at the last Sync   *)
(* and has not been cut since.                                             *)
(*                                                                         *)
(* A table is a record: the list of its items and the number of them that  *)
(* survive a crash.  The operations are operators on such records, so that *)
(* module Freezer can keep one record per table; module FreezerTable, the  *)
(* files of one table, is shown to implement Spec.                         *)
(***************************************************************************)
EXTENDS Naturals, Sequences

CONSTANT Blobs  \* what can be stored in the table

Least(m, n) == IF m <= n THEN m ELSE n

\* The table that newTable creates.
EmptyTable == [list |-> <<>>, durable |-> 0]

\* Append: nothing is promised about the new item until the next Sync.
WithItem(t, blob) == [t EXCEPT !.list = Append(@, blob)]

\* truncate: does nothing when the table is not longer than asked.
CutTo(t, items) == IF Len(t.list) <= items
                   THEN t
                   ELSE [list |-> SubSeq(t.list, 1, items),
                         durable |-> Least(t.durable, items)]

\* Sync: everything there is survives a crash from now on.
Synced(t) == [t EXCEPT !.durable = Len(t.list)]

\* What the table may hold once it is opened again after a crash.
AfterCrash(t) == {[list |-> SubSeq(t.list, 1, n), durable |-> n] :
                     n \in t.durable .. Len(t.list)}
-----------------------------------------------------------------------------
VARIABLE table

Init == table = EmptyTable

Next == \/ \E blob \in Blobs : table' = WithItem(table, blob)
        \/ \E items \in 0 .. Len(table.list) : table' = CutTo(table, items)
        \/ table' = Synced(table)
        \/ table' \in AfterCrash(table)

Spec == Init /\ [][Next]_table
=============================================================================
