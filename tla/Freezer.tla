------------------------------ MODULE Freezer ------------------------------
(***************************************************************************)
(* The chain database: a key-value store for the recent blocks, the tables *)
(* of the freezer for the old ones, the goroutine that moves blocks from   *)
(* one to the other (core/rawdb/freezer.go), and what reads and changes    *)
(* both: block import and SetHead (core/blockchain.go, core/headerchain.go)*)
(* the lookups (core/rawdb/accessors_chain.go), and the start of the node  *)
(* after a crash (core/rawdb/database.go, NewBlockChain).                  *)
(*                                                                         *)
(* A block is the sequence of branch choices that leads to it from the     *)
(* genesis block <<>>: its number is its length, and its parent is all but *)
(* the last choice.  Every block has the same difficulty.  A batch of the  *)
(* key-value store is atomic and durable.  A table is a record of module   *)
(* AncientTable, which module FreezerTable implements with files.          *)
(***************************************************************************)
EXTENDS Naturals, Sequences, FiniteSets, FiniteSetsExt

CONSTANTS
    Blocks,               \* blocks there can be, with all their ancestors
    threshold,            \* freezer.threshold
    freezerBatchLimit,    \* blocks to freeze in one round
    RewindWhileFreezing,  \* SetHead may run during a round of the freezer
    CrashInRewind,        \* the node may die within SetHead
    MaxRewinds,           \* bound on the calls of SetHead
    MaxFaults             \* bound on the number of faults

ASSUME FreezerAssumption ==
    /\ <<>> \in Blocks
    /\ \A b \in Blocks : b \in Seq(Nat)
    /\ \A b \in Blocks : \A n \in 0 .. Len(b) : SubSeq(b, 1, n) \in Blocks
    /\ threshold \in Nat /\ freezerBatchLimit \in Nat \ {0}
    /\ RewindWhileFreezing \in BOOLEAN /\ CrashInRewind \in BOOLEAN
    /\ MaxRewinds \in Nat /\ MaxFaults \in Nat

VARIABLES
    tables,   \* kind of data -> the table of the freezer, and freezer.frozen
    kv,       \* blocks in the key-value store (header, body, receipts, td)
    canon,    \* blocks that the store's number-to-hash index names
    states,   \* blocks whose state can be opened
    head,     \* the last block, last fast block and last header markers
    freezing, \* the freezer goroutine: step, first, limit, ancients, dangling
    rewind,   \* SetHead in progress, or Idle
    node,     \* "running", at a step of its start, "refused" or "reset"
    reader,   \* a lookup of a block in progress
    final,    \* history: the chain that will not be reorganised any more
    rewinds,  \* number of calls of SetHead so far
    faults    \* number of faults so far

vars == <<tables, kv, canon, states, head, freezing, rewind, node, reader,
          final, rewinds, faults>>

\* Two tables stand for the five: the hashes and everything else.
Kinds == {"hashes", "rest"}

Ancient == INSTANCE AncientTable WITH Blobs <- Blocks, table <- tables

Genesis == <<>>
Prefix(b, n) == SubSeq(b, 1, n)
Parent(b) == Prefix(b, Len(b) - 1)

\* a is b or one of its ancestors.
IsAncestor(a, b) == Len(a) <= Len(b) /\ a = Prefix(b, Len(a))

Numbers == {Len(b) : b \in Blocks}
Frozen == Len(tables["hashes"].list)

Idle == [step |-> "idle"]

Init ==
    /\ tables = [k \in Kinds |-> Ancient!EmptyTable]
    /\ kv = {Genesis}
    /\ canon = {Genesis}
    /\ states = {Genesis}
    /\ head = [block |-> Genesis, fast |-> Genesis, header |-> Genesis]
    /\ freezing = Idle
    /\ rewind = Idle
    /\ node = "running"
    /\ reader = Idle
    /\ final = Genesis
    /\ rewinds = 0
    /\ faults = 0
-----------------------------------------------------------------------------
\* ReadHeaderRLP, ReadBodyRLP: from the tables, if they have this very block at
\* its number, or from the store.
InTables(b) == \A k \in Kinds : /\ Len(b) < Len(tables[k].list)
                                /\ tables[k].list[Len(b) + 1] = b
Readable(b) == InTables(b) \/ b \in kv

\* ReadCanonicalHash: from the tables first.  At most one block.
Canonical(n) == IF n < Frozen
                THEN {tables["hashes"].list[n + 1]}
                ELSE {b \in canon : Len(b) = n}

\* WriteCanonicalHash and DeleteCanonicalHash, for several numbers.
Without(index, numbers) == {b \in index : Len(b) \notin numbers}

\* Two chains of which one continues the other.
Agree(a, b) == IsAncestor(a, b) \/ IsAncestor(b, a)
-----------------------------------------------------------------------------
(***************************************************************************)
(* Import of a block (writeBlockWithState, reorg, writeHeadBlock).  The    *)
(* network is taken not to abandon a block that was threshold deep, as     *)
(* params.FullImmutabilityThreshold says, unless the node is rewound, and  *)
(* not to send blocks again that the chain already has.                    *)
(***************************************************************************)

\* The numbers at which Adopt writes the index: that of b, and those at which
\* the chain of b is not the one of the head.
Added(b) == {n \in 1 .. Len(b) : n = Len(b) \/ ~ IsAncestor(Prefix(b, n), head.block)}

\* reorg finds the blocks before those it has to drop and to add.
ReorgFinds(b) ==
    /\ \A n \in Added(b) : Readable(Prefix(b, n - 1))
    /\ \A n \in 1 .. Len(head.block) :
          IsAncestor(Prefix(head.block, n), b) \/ Readable(Prefix(head.block, n - 1))

\* The index entries above the given number, up to a gap.
Above(number) == {n \in Numbers : /\ n > number
                                  /\ \A m \in number + 1 .. n : Canonical(m) # {}}

\* The index entries that reorg deletes: those above the block that it has made
\* the head, which is the parent, or still the old head when b is the only block
\* to be added.
Dropped(b) == CASE Parent(b) = head.block -> {}
                [] IsAncestor(Parent(b), head.block) /\ Parent(b) # head.block ->
                     Above(Len(head.block))
                [] ~ IsAncestor(Parent(b), head.block) -> Above(Len(b) - 1)

\* The numbers at which the index does not have the new block when its turn
\* comes.  The entry of b itself may just have been deleted.
Changed(b) == {n \in Added(b) : \/ Canonical(n) # {Prefix(b, n)}
                                \/ n \in Dropped(b) /\ n >= Frozen}

\* Makes b the head: the blocks after the fork are written to the index one by
\* one, and the header markers follow to the last one it did not have.
Adopt(b) ==
    /\ canon' = Without(canon, Added(b) \union Dropped(b))
                \union {Prefix(b, n) : n \in Added(b)}
    /\ \/ /\ Changed(b) = {}
          /\ head' = [head EXCEPT !.block = b]
       \/ \E n \in Changed(b) :
             /\ \A m \in Changed(b) : m <= n
             /\ head' = [block |-> b, fast |-> Prefix(b, n), header |-> Prefix(b, n)]
    /\ final' = IF Len(b) > threshold + Len(final)
                THEN Prefix(b, Len(b) - threshold) ELSE final

Import(b) ==
    /\ node = "running" /\ rewind = Idle
    /\ b # Genesis
    /\ Agree(b, final)
    /\ ~ (Readable(b) /\ b \in states)
    /\ Readable(b) => Len(b) > Len(head.block)
    /\ Readable(Parent(b)) /\ Parent(b) \in states
    /\ kv' = kv \union {b}
    /\ states' = states \union {b}
    /\ \/ /\ Len(b) >= Len(head.block) /\ ReorgFinds(b)
          /\ Adopt(b)
       \/ /\ Len(b) <= Len(head.block) \/ ~ ReorgFinds(b)
          /\ UNCHANGED <<canon, head, final>>
    /\ UNCHANGED <<tables, freezing, rewind, node, reader, rewinds, faults>>
-----------------------------------------------------------------------------
(***************************************************************************)
(* The freezer goroutine (freeze).                                         *)
(***************************************************************************)

MayFreeze == node \notin {"refused", "reset"}
             /\ (rewind = Idle \/ RewindWhileFreezing)

\* Mutant: the blocks that may still be reorganised are not kept out.
FreezeStartRecent ==
    /\ freezing = Idle /\ MayFreeze
    /\ Len(head.block) > Frozen
    /\ head.block \in kv
    /\ freezing' = [step |-> "append", first |-> Frozen,
                    limit |-> Min({Len(head.block), Frozen + freezerBatchLimit}),
                    ancients |-> <<>>, dangling |-> {}]
    /\ UNCHANGED <<tables, kv, canon, states, head, rewind, node, reader,
                   final, rewinds, faults>>

\* Mutant: the batch is counted from genesis instead of from the last round.
FreezeStartOnce ==
    /\ freezing = Idle /\ MayFreeze
    /\ Len(head.block) > threshold + Frozen
    /\ head.block \in kv
    /\ freezing' = [step |-> "append", first |-> Frozen,
                    limit |-> Min({Len(head.block) - threshold,
                                   freezerBatchLimit}),
                    ancients |-> <<>>, dangling |-> {}]
    /\ UNCHANGED <<tables, kv, canon, states, head, rewind, node, reader,
                   final, rewinds, faults>>

\* A round starts when there are blocks to freeze, and the head is in the store.
FreezeStart ==
    /\ freezing = Idle /\ MayFreeze
    /\ Len(head.block) > threshold + Frozen
    /\ head.block \in kv
    /\ freezing' = [step |-> "append", first |-> Frozen,
                    limit |-> Min({Len(head.block) - threshold,
                                   Frozen + freezerBatchLimit}),
                    ancients |-> <<>>, dangling |-> {}]
    /\ UNCHANGED <<tables, kv, canon, states, head, rewind, node, reader,
                   final, rewinds, faults>>

\* The canonical block that is to be frozen next, from the store only.
NextAncient == {b \in canon \intersect kv : Len(b) = Frozen}

\* AppendAncient: the block's data go to all the tables.
FreezeBlock ==
    /\ freezing.step = "append"
    /\ Frozen <= freezing.limit
    /\ \E b \in NextAncient :
        /\ tables' = [k \in Kinds |-> Ancient!WithItem(tables[k], b)]
        /\ freezing' = [freezing EXCEPT !.ancients = Append(@, b)]
    /\ UNCHANGED <<kv, canon, states, head, rewind, node, reader, final,
                   rewinds, faults>>

\* Mutant: the store is wiped although the tables were not synced.
SyncTablesLater ==
    /\ freezing' = [freezing EXCEPT !.step = "wipe"]
    /\ UNCHANGED <<tables, kv, canon, states, head, rewind, node, reader, final,
                   rewinds>>

\* After the last append the tables are synced.
SyncTables ==
    /\ tables' = [k \in Kinds |-> Ancient!Synced(tables[k])]
    /\ freezing' = [freezing EXCEPT !.step = "wipe"]
    /\ UNCHANGED <<kv, canon, states, head, rewind, node, reader, final, rewinds>>

\* The limit is reached, or the next block is missing.
FreezeSync ==
    /\ freezing.step = "append"
    /\ Frozen > freezing.limit \/ NextAncient = {}
    /\ SyncTables
    /\ UNCHANGED faults

\* An append fails and is rolled back (repair): the round ends early.  The table
\* that failed has written nothing: truncate leaves it alone, as its items have
\* not changed, and with it any bytes of the failed write (see FreezerTable).
FreezeFail ==
    /\ freezing.step = "append"
    /\ Frozen <= freezing.limit /\ NextAncient # {}
    /\ faults < MaxFaults
    /\ SyncTables
    /\ faults' = faults + 1

\* The numbers of the round, by which its blocks are deleted; never genesis.
RoundNumbers == freezing.first .. freezing.first + Len(freezing.ancients) - 1
Numbered == {n \in RoundNumbers : n # 0}

\* The frozen blocks are deleted from the store, in one batch.
FreezeWipe ==
    /\ freezing.step = "wipe"
    /\ kv' = kv \ {freezing.ancients[n - freezing.first + 1] : n \in Numbered}
    /\ canon' = Without(canon, Numbered)
    /\ freezing' = [freezing EXCEPT !.step = "sides"]
    /\ UNCHANGED <<tables, states, head, rewind, node, reader, final, rewinds,
                   faults>>

\* Mutant: the loop over the numbers runs one too far.
FreezeSidesOneMore ==
    /\ freezing.step = "sides"
    /\ LET numbers == (freezing.first .. Frozen) \ {0}
           sides == {b \in kv : Len(b) \in numbers}
       IN
       /\ kv' = kv \ sides
       /\ freezing' = [freezing EXCEPT !.step = "dangling",
                         !.dangling = {b \in sides : Len(b) = Frozen - 1}]
    /\ UNCHANGED <<tables, canon, states, head, rewind, node, reader, final,
                   rewinds, faults>>

\* Then what is left at their numbers: side chains.  Those of the last number
\* may have descendants.
FreezeSides ==
    /\ freezing.step = "sides"
    /\ LET numbers == (freezing.first .. Frozen - 1) \ {0}
           sides == {b \in kv : Len(b) \in numbers}
       IN
       /\ kv' = kv \ sides
       /\ freezing' = [freezing EXCEPT !.step = "dangling",
                         !.dangling = {b \in sides : Len(b) = Frozen - 1}]
    /\ UNCHANGED <<tables, canon, states, head, rewind, node, reader, final,
                   rewinds, faults>>

\* Then the descendants, number by number.
FreezeDangling ==
    /\ freezing.step = "dangling"
    /\ kv' = {b \in kv : ~ \E d \in freezing.dangling :
                  /\ d # b /\ IsAncestor(d, b)
                  /\ \A n \in Len(d) + 1 .. Len(b) : Prefix(b, n) \in kv}
    /\ freezing' = Idle
    /\ UNCHANGED <<tables, canon, states, head, rewind, node, reader, final,
                   rewinds, faults>>
-----------------------------------------------------------------------------
(***************************************************************************)
(* SetHead (SetHeadBeyondRoot without a root, HeaderChain.SetHead).        *)
(***************************************************************************)

\* The last ancestor with a state, or genesis when a block is missing before.
WithState(b) ==
    LET found == {n \in 0 .. Len(b) :
                     /\ Prefix(b, n) \in states
                     /\ \A m \in n + 1 .. Len(b) : Prefix(b, m) \notin states
                     /\ \A m \in n .. Len(b) : Readable(Prefix(b, m))}
    IN IF found = {} THEN Genesis ELSE Prefix(b, CHOOSE n \in found : TRUE)

\* updateFn: the markers, when the chain is rewound to the given header.
Lowered(to) ==
    [head EXCEPT
       !.block = IF Len(to) <= Len(@) THEN WithState(to) ELSE @,
       !.fast = IF Len(to) < Len(@)
                THEN IF Readable(to) THEN to ELSE Genesis ELSE @]

\* Mutant: SetHead does not look at the tables.
MustForceNever(block, frozen) == FALSE

\* updateFn: the rest of the frozen chain has to go as well.
MustForce(block, frozen) == Len(block) + 1 < frozen

\* HeaderChain.SetHead, from its start.
Rewinding(to, frozen) ==
    [step |-> "mark", to |-> to, frozen |-> frozen, origin |-> TRUE,
     number |-> 0, doomed |-> {}]

\* SetHead(n), up to the loop.  The head itself as the target repairs the chain
\* without deleting anything, unless the freezer reaches beyond the new head.
BeginRewind(n) ==
    IF n = Len(head.block)
    THEN /\ head' = Lowered(head.block)
         /\ rewind' = IF MustForce(head'.block, Frozen)
                      THEN Rewinding(Len(head'.block), Frozen)
                      ELSE Idle
    ELSE /\ rewind' = Rewinding(n, Frozen)
         /\ UNCHANGED head

\* A call of SetHead.  A lookup in progress may miss its block.  When the head
\* is lowered, what the network will agree on above n is open again; SetHead to
\* the head itself, after which the header chain is still there, opens nothing.
SetHead(n) ==
    /\ node = "running" /\ rewind = Idle
    /\ freezing = Idle \/ RewindWhileFreezing
    /\ rewinds < MaxRewinds
    /\ n <= Len(head.block)
    /\ BeginRewind(n)
    /\ final' = IF n < Len(head.block) /\ n < Len(final)
                THEN Prefix(final, n) ELSE final
    /\ rewinds' = rewinds + 1
    /\ reader' = Idle
    /\ UNCHANGED <<tables, kv, canon, states, freezing, node, faults>>

\* One iteration of the loop first moves the markers to the parent.
RewindMark ==
    /\ rewind.step = "mark"
    /\ Len(head.header) > rewind.to
    /\ LET parent == IF Readable(Parent(head.header)) THEN Parent(head.header)
                     ELSE Genesis
           lowered == Lowered(parent)
       IN
       /\ head' = [lowered EXCEPT !.header = parent]
       /\ rewind' = [rewind EXCEPT
                       !.step = "delete",
                       !.number = Len(head.header),
                       !.to = IF MustForce(lowered.block, rewind.frozen)
                              THEN Min({@, Len(lowered.block)}) ELSE @]
    /\ UNCHANGED <<tables, kv, canon, states, freezing, node, reader, final,
                   rewinds, faults>>

\* The numbers an iteration deletes: its own, and the first one everything
\* above it up to a gap.
Doomed(number) ==
    {number} \union
    IF ~ rewind.origin THEN {}
    ELSE {n \in Numbers : /\ n > number
                          /\ \A m \in number + 1 .. n : \E b \in kv : Len(b) = m}

\* Then it cuts the tables, or notes the blocks for the final batch.
RewindDelete ==
    /\ rewind.step = "delete"
    /\ tables' = [k \in Kinds |->
                    IF rewind.number < Frozen
                    THEN Ancient!CutTo(tables[k], rewind.number)
                    ELSE tables[k]]
    /\ rewind' = [rewind EXCEPT !.step = "mark", !.origin = FALSE,
                    !.doomed = @ \union Doomed(rewind.number)]
    /\ UNCHANGED <<kv, canon, states, head, freezing, node, reader, final,
                   rewinds, faults>>

\* The batch is written.
RewindFlush ==
    /\ rewind.step = "mark"
    /\ Len(head.header) <= rewind.to
    /\ kv' = Without(kv, rewind.doomed)
    /\ canon' = Without(canon, rewind.doomed)
    /\ rewind' = Idle
    /\ UNCHANGED <<tables, states, head, freezing, node, reader, final,
                   rewinds, faults>>
-----------------------------------------------------------------------------
(***************************************************************************)
(* Crash and start.                                                        *)
(***************************************************************************)

\* Mutant: a cut that forgets how much of the table is on disk.
RepairedLists(opened) ==
    LET min == Min({Len(opened[k].list) : k \in Kinds})
    IN [k \in Kinds |-> [opened[k] EXCEPT !.list = Prefix(@, min)]]

\* freezer.repair: all the tables are cut to the shortest.
Repaired(opened) ==
    LET min == Min({Len(opened[k].list) : k \in Kinds})
    IN [k \in Kinds |-> Ancient!CutTo(opened[k], min)]

\* NewDatabaseWithFreezer finds a gap between the tables and the store.
Gap(frozen) ==
    IF frozen > 0
    THEN /\ ~ \E b \in canon : Len(b) = frozen
         /\ Len(head.header) > frozen - 1
    ELSE /\ head.header # Genesis
         /\ ~ \E b \in canon : Len(b) = 1

\* What is left of the states: all of them (an archive node), or that of the
\* genesis block and the last one that was flushed.
StatesAfterCrash ==
    {states} \union {{Genesis, b} : b \in {c \in states : IsAncestor(c, head.block)}}

\* The node dies.  The tables lose what was not synced, each for itself, and
\* are opened and repaired; goroutines and states in memory are gone.
Crash ==
    /\ node \notin {"refused", "reset"}
    /\ rewind = Idle \/ CrashInRewind
    /\ faults < MaxFaults
    /\ \E h \in Ancient!AfterCrash(tables["hashes"]),
          r \in Ancient!AfterCrash(tables["rest"]) :
        /\ tables' = Repaired([k \in Kinds |-> IF k = "hashes" THEN h ELSE r])
        /\ node' = IF Gap(Len(tables'["hashes"].list)) THEN "refused"
                   ELSE "opened"
    /\ states' \in StatesAfterCrash
    /\ freezing' = Idle
    /\ rewind' = Idle
    /\ reader' = Idle
    /\ faults' = faults + 1
    /\ UNCHANGED <<kv, canon, head, final, rewinds>>

\* loadLastState: a header or fast block that is missing is replaced by the last
\* block.
Loaded(markers) ==
    [markers EXCEPT !.fast = IF Readable(@) THEN @ ELSE markers.block,
                    !.header = IF Readable(@) THEN @ ELSE markers.block]

\* NewBlockChain, on a store that holds nothing but genesis: the header markers
\* are set to the end of the tables.  Then loadLastState, which starts from
\* scratch when the last block is missing.
StartLoad ==
    /\ node = "opened"
    /\ LET empty == head = [block |-> Genesis, fast |-> Genesis, header |-> Genesis]
           top == tables["hashes"].list[Frozen]
       IN head' = Loaded(IF empty /\ Frozen > 0
                         THEN [head EXCEPT !.fast = top, !.header = top] ELSE head)
    /\ node' = IF Readable(head.block) THEN "loaded" ELSE "reset"
    /\ UNCHANGED <<tables, kv, canon, states, freezing, rewind, reader, final,
                   rewinds, faults>>

\* NewBlockChain, when the state of the head is missing.
StartRepair ==
    /\ node = "loaded" /\ rewind = Idle
    /\ freezing = Idle \/ RewindWhileFreezing
    /\ IF head.block \in states THEN UNCHANGED <<head, rewind>>
       ELSE BeginRewind(Len(head.block))
    /\ node' = "repaired"
    /\ UNCHANGED <<tables, kv, canon, states, freezing, reader, final, rewinds,
                   faults>>

\* NewBlockChain, when the tables reach beyond the last block or fast block.
StartTruncate ==
    /\ node = "repaired" /\ rewind = Idle
    /\ freezing = Idle \/ RewindWhileFreezing
    /\ LET full == head.block # Genesis /\ Len(head.block) + 1 < Frozen
           fast == Len(head.fast) + 1 < Frozen
           low == Min((IF full THEN {Len(head.block)} ELSE {}) \union
                      (IF fast THEN {Len(head.fast)} ELSE {}))
       IN IF full \/ fast THEN BeginRewind(low) ELSE UNCHANGED <<head, rewind>>
    /\ node' = "running"
    /\ UNCHANGED <<tables, kv, canon, states, freezing, reader, final, rewinds,
                   faults>>
-----------------------------------------------------------------------------
(***************************************************************************)
(* A lookup by number and hash (ReadHeaderRLP and the like): the tables,   *)
(* the store, and the tables again, since the freezer may have moved the   *)
(* block in between.                                                       *)
(***************************************************************************)

ReadTables(n) ==
    /\ node = "running" /\ rewind = Idle
    /\ reader = Idle
    /\ n <= Len(head.block)
    /\ ~ InTables(Prefix(head.block, n))
    /\ reader' = [step |-> "store", block |-> Prefix(head.block, n)]
    /\ UNCHANGED <<tables, kv, canon, states, head, freezing, rewind, node,
                   final, rewinds, faults>>

\* Mutant: the tables are not read again.
ReadStoreLast ==
    /\ reader.step = "store"
    /\ reader' = IF reader.block \in kv THEN Idle
                 ELSE [reader EXCEPT !.step = "missed"]
    /\ UNCHANGED <<tables, kv, canon, states, head, freezing, rewind, node,
                   final, rewinds, faults>>

ReadStore ==
    /\ reader.step = "store"
    /\ reader' = IF reader.block \in kv THEN Idle
                 ELSE [reader EXCEPT !.step = "again"]
    /\ UNCHANGED <<tables, kv, canon, states, head, freezing, rewind, node,
                   final, rewinds, faults>>

\* A block that was rewound in the meantime may be gone.
ReadAgain ==
    /\ reader.step = "again"
    /\ reader' = IF InTables(reader.block) \/ ~ IsAncestor(reader.block, head.block)
                 THEN Idle ELSE [reader EXCEPT !.step = "missed"]
    /\ UNCHANGED <<tables, kv, canon, states, head, freezing, rewind, node,
                   final, rewinds, faults>>
-----------------------------------------------------------------------------
FreezeStep == FreezeStart \/ FreezeBlock \/ FreezeSync \/ FreezeWipe
              \/ FreezeSides \/ FreezeDangling

RewindStep == RewindMark \/ RewindDelete \/ RewindFlush

StartStep == StartLoad \/ StartRepair \/ StartTruncate

Next ==
    \/ \E b \in Blocks : Import(b)
    \/ FreezeStep
    \/ FreezeFail
    \/ \E n \in Numbers : SetHead(n)
    \/ RewindStep
    \/ Crash
    \/ StartStep
    \/ \E n \in Numbers : ReadTables(n)
    \/ ReadStore
    \/ ReadAgain

Spec == Init /\ [][Next]_vars

\* The freezer goroutine, SetHead and the start of the node take their steps.
FairSpec == /\ Spec
            /\ WF_vars(FreezeStep)
            /\ WF_vars(RewindStep)
            /\ WF_vars(StartStep)
-----------------------------------------------------------------------------
TypeOK ==
    /\ \A k \in Kinds : /\ tables[k].list \in Seq(Blocks)
                        /\ tables[k].durable \in 0 .. Len(tables[k].list)
    /\ kv \subseteq Blocks
    /\ canon \subseteq Blocks
    /\ states \subseteq Blocks
    /\ DOMAIN head = {"block", "fast", "header"}
    /\ freezing.step \in {"idle", "append", "wipe", "sides", "dangling"}
    /\ rewind.step \in {"idle", "mark", "delete"}
    /\ node \in {"opened", "loaded", "repaired", "running", "refused", "reset"}
    /\ reader.step \in {"idle", "store", "again", "missed"}
    /\ final \in Blocks /\ rewinds \in 0 .. MaxRewinds
    /\ faults \in 0 .. MaxFaults

\* Whatever was frozen, wiped, lost in a crash and repaired, the chain of the
\* head is complete: by number and by hash, a lookup finds the head's ancestor.
ChainIsReadable ==
    /\ TypeOK
    /\ \A n \in 0 .. Len(head.block) :
          /\ Canonical(n) = {Prefix(head.block, n)}
          /\ Readable(Prefix(head.block, n))

\* The node always starts again: the tables and the store never have a gap
\* between them, and the head is never missing.
NodeStarts == node \notin {"refused", "reset"}

\* Only blocks that will not be reorganised are in the tables, although the
\* limit of a round is computed before its blocks are read.
AncientsAreFinal ==
    node = "running" /\ rewind = Idle =>
        \A n \in 0 .. Frozen - 1 :
            n <= Len(final) /\ tables["hashes"].list[n + 1] = Prefix(final, n)

\* Once SetHead has returned or the node has started, the tables do not reach
\* beyond the head.
NoExtraAncients ==
    node = "running" /\ rewind = Idle => Frozen <= Len(head.block) + 1

\* What NewBlockChain says of its last check: a crash in SetHead does not leave
\* extra ancients.  A head at genesis is left alone on purpose (fast sync).
CrashLeavesNoExtraAncients ==
    node = "running" /\ rewind = Idle /\ head.block # Genesis =>
        Frozen <= Len(head.block) + 1

\* A lookup of a block of the chain finds it while the freezer moves it.
NoMissedRead == reader.step # "missed"

\* The freezer catches up with the chain.
FreezerCatchesUp == <>[](Len(head.block) <= threshold + Frozen)
=============================================================================
