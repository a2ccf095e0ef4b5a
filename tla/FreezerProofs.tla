--------------------------- MODULE FreezerProofs ---------------------------
(***************************************************************************)
(* Proofs about module Freezer, for a node in which SetHead does not run   *)
(* during a round of the freezer and does not die within SetHead: the      *)
(* chain of the head can be read, the node starts again after a crash,     *)
(* only final blocks are frozen, the tables do not reach beyond the head,  *)
(* and no lookup misses a block that the freezer moves.                    *)
(***************************************************************************)
EXTENDS FreezerInvariant

\* Each leaf is tried by Zenon for a moment, then with more time than by default.
USE ZenonT(2), SMTT(120), ZenonT(60)

(***************************************************************************)
(* The freezer.                                                            *)
(***************************************************************************)

FreezingTypes == [step : {"append", "wipe", "sides", "dangling"},
                  first : Nat, limit : Nat, ancients : Seq(Blocks),
                  dangling : SUBSET Blocks]

\* A round starts.
LEMMA FreezeStartKeeps ==
    ASSUME IInv, Orderly, FreezeStart
    PROVE  IInv'
<1> USE DEF IInv
<1> DEFINE end == Len(head.block) - threshold
           limit == Min({end, Frozen + freezerBatchLimit})
<1>1. /\ rewind = Idle /\ Len(head.block) > threshold + Frozen
      /\ freezing' = [step |-> "append", first |-> Frozen, limit |-> limit,
                      ancients |-> <<>>, dangling |-> {}]
      /\ UNCHANGED <<tables, kv, canon, states, head, rewind, node, reader,
                     final, rewinds, faults>>
  BY DEF FreezeStart, MayFreeze, Orderly
<1>2. end \in Nat /\ Frozen + freezerBatchLimit \in Nat /\ Frozen \in Nat
  <2>1. /\ Len(head.block) > threshold + Frozen
        /\ Len(head.block) \in Nat /\ threshold \in Nat /\ Frozen \in Nat
        /\ freezerBatchLimit \in Nat
    BY <1>1, NumberFacts
  <2> QED
    BY <2>1
<1>3. limit \in Nat /\ limit <= end
  <2> HIDE DEF end
  <2> QED
    BY <1>2, MinOfTwo
<1>4. limit + threshold <= Len(head.block)
  BY <1>2, <1>3, NumberFacts
<1> HIDE DEF limit
<1>5. freezing' \in FreezingTypes
  BY <1>1, <1>2, <1>3 DEF FreezingTypes
<1>6. /\ Tip' = Tip /\ Frozen' = Frozen /\ Ancients' = Ancients /\ Durable' = Durable
      /\ Untouched' = Untouched /\ Reopened' = Reopened
  BY <1>1 DEF Tip, Frozen, Ancients, Durable, Untouched, Reopened
<1>7. Types'
  BY <1>1, <1>5, <1>6 DEF Types, FreezingTypes
<1>8. OneChain' /\ ChainIsStored' /\ IndexIsUnique'
  BY <1>1, <1>6 DEF OneChain, ChainIsStored, IndexIsUnique
<1>9. NotFarBeyond' /\ LaggingHeader' /\ LeftInIndex'
  BY <1>1, <1>6 DEF NotFarBeyond, LaggingHeader, LeftInIndex
<1>10. Round'
  BY <1>1, <1>2, <1>4, <1>6 DEF Round
<1>11. Rewind' /\ Thorough' /\ Reader'
  BY <1>1, <1>6 DEF Rewind, Thorough, Reader, InTables, Lost
<1> QED
  BY <1>7, <1>8, <1>9, <1>10, <1>11

\* The round goes on: SetHead is not running.
LEMMA RoundFacts ==
    ASSUME IInv, freezing # Idle
    PROVE  /\ freezing \in FreezingTypes
           /\ rewind = Idle /\ Untouched /\ ~ Reopened
           /\ freezing.first \in Nat /\ Len(freezing.ancients) \in Nat
           /\ freezing.first + Len(freezing.ancients) = Frozen
           /\ \A i \in 1 .. Len(freezing.ancients) :
                 freezing.ancients[i] = Ancients[freezing.first + i]
  BY DEF IInv, Types, FreezingTypes, Round, Untouched, Reopened

\* A block is appended to the tables: the one of the chain, and a final one.
LEMMA FreezeBlockKeeps ==
    ASSUME IInv, FreezeBlock
    PROVE  IInv'
<1> USE DEF IInv
<1>1. freezing # Idle /\ freezing.step = "append" /\ Frozen <= freezing.limit
  BY DEF FreezeBlock, Idle
<1>2. PICK b \in NextAncient :
        /\ tables' = [k \in Kinds |-> Ancient!WithItem(tables[k], b)]
        /\ freezing' = [freezing EXCEPT !.ancients = Append(@, b)]
  BY DEF FreezeBlock
<1>3. UNCHANGED <<kv, canon, states, head, rewind, node, reader, final, rewinds,
                  faults>>
  BY DEF FreezeBlock
<1>4. /\ freezing \in FreezingTypes /\ rewind = Idle /\ Untouched /\ ~ Reopened
      /\ freezing.limit \in Nat
      /\ freezing.first + Len(freezing.ancients) = Frozen
  BY <1>1, RoundFacts DEF FreezingTypes
<1>5. b \in Blocks /\ Len(b) = Frozen /\ b \in canon /\ b \in kv
  BY TypeFacts DEF NextAncient
<1>6. /\ tables'["hashes"] = [list |-> Append(Ancients, b), durable |-> Durable]
      /\ tables'["rest"] = tables'["hashes"]
      /\ tables' \in [Kinds -> [list : Seq(Blocks), durable : Nat]]
  <2>1. \A k \in Kinds : tables[k] = tables["hashes"]
    BY DEF Types, Kinds
  <2>2. tables["hashes"] = [list |-> Ancients, durable |-> Durable]
    BY DEF Types, Ancients, Durable, Kinds
  <2>3. ASSUME NEW k \in Kinds
        PROVE  Ancient!WithItem(tables[k], b) = [list |-> Append(Ancients, b), durable |-> Durable]
    <3>1. tables[k] = [list |-> Ancients, durable |-> Durable]
      BY <2>1, <2>2
    <3> QED
      BY <3>1 DEF Ancient!WithItem
  <2>4. Append(Ancients, b) \in Seq(Blocks) /\ Durable \in Nat
    BY <1>5, TypeFacts
  <2> QED
    BY <1>2, <2>3, <2>4 DEF Kinds
<1>7. /\ Ancients' = Append(Ancients, b) /\ Durable' = Durable /\ Frozen' = Frozen + 1
      /\ \A i \in 1 .. Frozen : Ancients'[i] = Ancients[i]
      /\ Ancients'[Frozen + 1] = b
  <2>1. /\ Len(Append(Ancients, b)) = Frozen + 1
        /\ \A i \in 1 .. Frozen : Append(Ancients, b)[i] = Ancients[i]
        /\ Append(Ancients, b)[Frozen + 1] = b
    BY <1>5, TypeFacts
  <2> QED
    BY <1>6, <2>1 DEF Ancients, Durable, Frozen
<1>8. Tip' = Tip /\ Untouched' = Untouched /\ Reopened' = Reopened
  BY <1>3 DEF Tip, Untouched, Reopened
<1>9. /\ Frozen + threshold <= Len(head.block)
      /\ Frozen <= Len(final) /\ Frozen \in 0 .. Len(Tip) /\ Frozen <= Len(head.block)
  <2>1. freezing.limit + threshold <= Len(head.block)
    BY <1>1 DEF Round
  <2> QED
    <3>1. Len(Tip) <= Len(final) + threshold /\ Len(head.block) <= Len(Tip)
      BY <1>4, IdleFacts, TipFacts
    <3>2. Frozen <= freezing.limit /\ freezing.limit \in Nat
      BY <1>1, <1>4
    <3> QED
      BY <2>1, <3>1, <3>2, NumberFacts
<1>10. b = Prefix(Tip, Frozen)
  <2>1. Frozen >= Durable
    BY TypeFacts
  <2>2. Prefix(Tip, Frozen) \in canon /\ Len(Prefix(Tip, Frozen)) = Frozen
    BY <1>9, <2>1, TipFacts, PrefixFacts DEF ChainIsStored
  <2> QED
    BY <1>5, <2>2 DEF IndexIsUnique
<1>11. freezing' \in FreezingTypes
  <2>1. freezing.ancients \in Seq(Blocks)
    BY <1>4 DEF FreezingTypes
  <2>2. Append(freezing.ancients, b) \in Seq(Blocks)
    BY <1>5, <2>1
  <2> QED
    BY <1>2, <1>4, <2>2, ZenonT(60) DEF FreezingTypes
<1>12. Types'
  <2>1. Durable' <= Frozen'
    BY <1>7, TypeFacts
  <2> QED
    BY <1>3, <1>6, <1>11, <2>1 DEF Types, FreezingTypes
<1>13. OneChain' /\ IndexIsUnique' /\ LaggingHeader' /\ LeftInIndex' /\ Thorough'
  BY <1>3, <1>4, <1>8
  DEF OneChain, IndexIsUnique, LaggingHeader, LeftInIndex, Thorough
<1>14. ChainIsStored'
  <2> SUFFICES ASSUME NEW n \in 0 .. Len(Tip)
               PROVE  /\ n < Frozen + 1 => Ancients'[n + 1] = Prefix(Tip, n)
                      /\ n = 0 \/ n >= Durable => Prefix(Tip, n) \in kv \intersect canon
    BY <1>3, <1>7, <1>8, ZenonT(60) DEF ChainIsStored
  <2>1. n \in Nat /\ Frozen \in Nat
    BY TipFacts, TypeFacts
  <2>2. n < Frozen => Ancients'[n + 1] = Prefix(Tip, n)
    <3>1. n < Frozen => n + 1 \in 1 .. Frozen /\ Ancients[n + 1] = Prefix(Tip, n)
      BY <2>1 DEF ChainIsStored
    <3> QED
      BY <1>7, <3>1, ZenonT(60)
  <2>3. n = Frozen => Ancients'[n + 1] = Prefix(Tip, n)
    BY <1>7, <1>10, ZenonT(60)
  <2>4. n < Frozen + 1 => n < Frozen \/ n = Frozen
    BY <2>1
  <2> QED
    BY <2>2, <2>3, <2>4 DEF ChainIsStored
<1>15. NotFarBeyond'
  BY <1>3, <1>4, <1>7, <1>8, <1>9, IdleFacts, TypeFacts DEF NotFarBeyond
<1>16. Rewind'
  BY <1>3, <1>4, <1>7, <1>9, TypeFacts DEF Rewind
<1>17. Round'
  <2> DEFINE old == freezing.ancients
  <2>1. /\ freezing'.first = freezing.first /\ freezing'.step = "append"
        /\ freezing'.limit = freezing.limit /\ freezing'.ancients = Append(old, b)
    BY <1>1, <1>2, <1>4 DEF FreezingTypes
  <2>2. old \in Seq(Blocks) /\ freezing.first \in Nat
    BY <1>4 DEF FreezingTypes
  <2>3. /\ Len(Append(old, b)) = Len(old) + 1 /\ Len(old) \in Nat
        /\ \A i \in 1 .. Len(old) : Append(old, b)[i] = old[i]
        /\ Append(old, b)[Len(old) + 1] = b
    BY <1>5, <2>2
  <2>4. freezing.first + Len(Append(old, b)) = Frozen'
    <3>1. freezing.first + Len(old) = Frozen
      BY <1>4
    <3>2. Frozen' = Frozen + 1
      BY <1>7
    <3>3. freezing.first \in Nat /\ Len(old) \in Nat /\ Len(Append(old, b)) = Len(old) + 1
      BY <2>2, <2>3
    <3> QED
      BY <3>1, <3>2, <3>3
  <2>5. ASSUME NEW i \in 1 .. Len(old) + 1
        PROVE  Append(old, b)[i] = Ancients'[freezing.first + i]
    <3>1. CASE i = Len(old) + 1
      <4>1. freezing.first + i = Frozen + 1
        <5>1. Frozen \in Nat /\ Len(old) \in Nat
          BY <2>3, NumberFacts
        <5> QED
          BY <3>1, <1>4, <2>2, <5>1
      <4> QED
        BY <3>1, <4>1, <1>7, <2>3, ZenonT(60)
    <3>2. CASE i # Len(old) + 1
      <4>1. i \in 1 .. Len(old) /\ freezing.first + i \in 1 .. Frozen
        BY <3>2, <1>4, <2>2, <2>3
      <4>2. old[i] = Ancients[freezing.first + i]
        BY <4>1, <1>1, RoundFacts
      <4> QED
        BY <4>1, <4>2, <1>7, <2>3, ZenonT(60)
    <3> QED
      BY <3>1, <3>2
  <2>6. freezing.limit + threshold <= Len(head.block)
    BY <1>1 DEF Round
  <2> QED
    BY <1>3, <1>4, <2>1, <2>3, <2>4, <2>5, <2>6 DEF Round
<1>18. Reader'
  <2>1. ASSUME NEW c \in Blocks, InTables(c) PROVE InTables(c)'
    <3>1. Len(c) < Frozen /\ Ancients[Len(c) + 1] = c /\ Len(c) \in Nat
      BY <2>1, TypeFacts, BlockLen
    <3>2. Len(c) < Frozen' /\ Ancients'[Len(c) + 1] = c
      BY <3>1, <1>7, TypeFacts
    <3> QED
      BY <3>2, <1>6 DEF InTables, Kinds, Frozen, Ancients
  <2>2. ASSUME NEW c \in Blocks, Lost(c) PROVE Lost(c)'
    <3>1. PICK n \in 0 .. Len(c) : n < Frozen /\ Ancients[n + 1] # Prefix(c, n)
      BY <2>2 DEF Lost
    <3>2. n < Frozen' /\ Ancients'[n + 1] # Prefix(c, n)
      BY <3>1, <1>7, TypeFacts, BlockLen
    <3> QED
      BY <3>2 DEF Lost
  <2>3. reader # Idle => reader.block \in Blocks
    BY DEF Types
  <2> QED
    BY <1>3, <2>1, <2>2, <2>3 DEF Reader
<1> QED
  BY <1>12, <1>13, <1>14, <1>15, <1>16, <1>17, <1>18

\* The tables are synced, after the last append or after one that failed.
LEMMA SyncTablesKeeps ==
    ASSUME IInv, freezing.step = "append", SyncTables, faults' \in 0 .. MaxFaults
    PROVE  IInv'
<1> USE DEF IInv
<1>1. freezing # Idle
  BY DEF Idle
<1>2. /\ freezing \in FreezingTypes /\ rewind = Idle
      /\ freezing.first + Len(freezing.ancients) = Frozen
      /\ \A i \in 1 .. Len(freezing.ancients) :
           freezing.ancients[i] = Ancients[freezing.first + i]
  BY <1>1, RoundFacts
<1>3. /\ freezing' = [freezing EXCEPT !.step = "wipe"]
      /\ UNCHANGED <<kv, canon, states, head, rewind, node, reader, final, rewinds>>
  BY DEF SyncTables
<1>4. /\ tables'["hashes"] = [list |-> Ancients, durable |-> Frozen]
      /\ tables'["rest"] = tables'["hashes"]
      /\ tables' \in [Kinds -> [list : Seq(Blocks), durable : Nat]]
  <2>1. \A k \in Kinds : tables[k] = [list |-> Ancients, durable |-> Durable]
    BY DEF Types, Ancients, Durable, Kinds
  <2>2. ASSUME NEW k \in Kinds
        PROVE  Ancient!Synced(tables[k]) = [list |-> Ancients, durable |-> Frozen]
    <3>1. tables[k] = [list |-> Ancients, durable |-> Durable] /\ Frozen = Len(Ancients)
      BY <2>1, TypeFacts
    <3> QED
      BY <3>1 DEF Ancient!Synced
  <2>3. Ancients \in Seq(Blocks) /\ Frozen \in Nat
    BY TypeFacts
  <2>4. tables' = [k \in Kinds |-> Ancient!Synced(tables[k])]
    BY DEF SyncTables
  <2> QED
    BY <2>2, <2>3, <2>4 DEF Kinds
<1>5. /\ Ancients' = Ancients /\ Frozen' = Frozen /\ Durable' = Frozen
      /\ Tip' = Tip /\ Untouched' = Untouched /\ Reopened' = Reopened
  BY <1>3, <1>4, TypeFacts DEF Ancients, Frozen, Durable, Tip, Untouched, Reopened
<1>6. freezing' \in FreezingTypes
  BY <1>2, <1>3 DEF FreezingTypes
<1>7. Types'
  <2>1. Durable' <= Frozen'
    BY <1>5, NumberFacts
  <2> QED
    BY <1>3, <1>4, <1>6, <2>1, ZenonT(60) DEF Types, FreezingTypes
<1>8. OneChain' /\ IndexIsUnique' /\ NotFarBeyond' /\ LaggingHeader' /\ LeftInIndex'
  BY <1>3, <1>5
  DEF OneChain, IndexIsUnique, NotFarBeyond, LaggingHeader, LeftInIndex
<1>9. ChainIsStored'
  <2>1. \A n \in 0 .. Len(Tip) : n >= Frozen => n >= Durable
    BY NumberFacts
  <2> QED
    BY <1>3, <1>5, <2>1 DEF ChainIsStored
<1>10. Round'
  <2>1. /\ freezing'.step = "wipe" /\ freezing'.first = freezing.first
        /\ freezing'.ancients = freezing.ancients
    BY <1>2, <1>3 DEF FreezingTypes
  <2> QED
    BY <1>2, <1>3, <1>5, <2>1 DEF Round
<1>11. Rewind' /\ Thorough'
  BY <1>2, <1>3, <1>5 DEF Rewind, Thorough
<1>12. Reader'
  <2>1. \A b : InTables(b) => InTables(b)'
    BY <1>4, TypeFacts DEF InTables, Kinds
  <2>2. \A b : Lost(b) => Lost(b)'
    BY <1>5 DEF Lost
  <2> QED
    BY <1>3, <2>1, <2>2 DEF Reader
<1> QED
  BY <1>7, <1>8, <1>9, <1>10, <1>11, <1>12

\* The store loses blocks, but none that only it holds.
Wipes(wiped, unlisted) ==
    /\ kv' = kv \ wiped /\ canon' = canon \ unlisted
    /\ \A n \in 0 .. Len(Tip) : n = 0 \/ n >= Frozen =>
          Prefix(Tip, n) \notin wiped /\ Prefix(Tip, n) \notin unlisted
    /\ \A c \in canon : Len(c) > Len(Tip) =>
          \A k \in Len(final) + 1 .. Len(c) : Prefix(c, k) \notin wiped
    /\ \A b \in wiped : InTables(b) \/ Lost(b)
    /\ \A b \in unlisted : Len(b) <= Len(Tip)

\* The steps that wipe the store keep the invariant.
LEMMA WipesKeeps ==
    ASSUME IInv, freezing # Idle, freezing.step # "append",
           UNCHANGED <<tables, states, head, rewind, node, reader, final, rewinds, faults>>,
           NEW wiped, NEW unlisted, Wipes(wiped, unlisted),
           freezing' = Idle \/ freezing' \in FreezingTypes,
           Round'
    PROVE  IInv'
<1> USE DEF IInv
<1>1. rewind = Idle /\ Untouched /\ ~ Reopened /\ Durable = Frozen
  BY RoundFacts DEF Round
<1>2. /\ Tip' = Tip /\ Frozen' = Frozen /\ Ancients' = Ancients /\ Durable' = Durable
      /\ Untouched' = Untouched /\ Reopened' = Reopened
  BY DEF Tip, Frozen, Ancients, Durable, Untouched, Reopened
<1>3. kv' \subseteq kv /\ canon' \subseteq canon
  BY DEF Wipes
<1>4. Types'
  BY <1>2, <1>3 DEF Types, FreezingTypes
<1>5. OneChain' /\ IndexIsUnique' /\ NotFarBeyond' /\ LaggingHeader'
  BY <1>2, <1>3 DEF OneChain, IndexIsUnique, NotFarBeyond, LaggingHeader
<1>6. ChainIsStored'
  <2> SUFFICES ASSUME NEW n \in 0 .. Len(Tip)
               PROVE  /\ n < Frozen => Ancients[n + 1] = Prefix(Tip, n)
                      /\ n = 0 \/ n >= Frozen => Prefix(Tip, n) \in kv' \intersect canon'
    BY <1>1, <1>2 DEF ChainIsStored
  <2> QED
    BY <1>1 DEF ChainIsStored, Wipes
<1>7. LeftInIndex'
  <2> SUFFICES ASSUME NEW c \in canon', Len(c) > Len(Tip)
               PROVE  /\ Len(final) < Len(head.header)
                      /\ IsAncestor(final, c)
                      /\ Len(c) <= Len(final) + threshold
                      /\ \A k \in Len(final) + 1 .. Len(c) : Prefix(c, k) \in kv'
                      /\ \A k \in Len(Tip) + 1 .. Len(c) : \E d \in canon' : Len(d) = k
    BY <1>2 DEF LeftInIndex
  <2>1. c \in canon
    BY <1>3
  <2>2. ASSUME NEW k \in Len(Tip) + 1 .. Len(c) PROVE \E d \in canon' : Len(d) = k
    <3>1. PICK d \in canon : Len(d) = k
      BY <1>1, <2>1 DEF LeftInIndex
    <3>2. ~ (Len(d) <= Len(Tip))
      BY <3>1, TipFacts
    <3> QED
      BY <3>1, <3>2 DEF Wipes
  <2> QED
    BY <1>1, <2>1, <2>2 DEF LeftInIndex, Wipes
<1>8. Rewind' /\ Thorough'
  BY <1>1, <1>2, ZenonT(60) DEF Rewind, Thorough
<1>9. Reader'
  <2>1. \A b : InTables(b) => InTables(b)'
    BY DEF InTables
  <2>2. \A b : Lost(b) => Lost(b)'
    BY <1>2 DEF Lost
  <2>3. reader # Idle /\ reader.step = "store" /\ reader.block \in kv =>
           reader.block \in kv' \/ InTables(reader.block) \/ Lost(reader.block)
    BY ZenonT(60) DEF Wipes
  <2> QED
    BY <2>1, <2>2, <2>3 DEF Reader
<1> QED
  BY <1>4, <1>5, <1>6, <1>7, <1>8, <1>9

\* What the index names above the tip is beyond the final chain, and so beyond
\* the tables.
LEMMA LeftIsBeyond ==
    ASSUME IInv, rewind = Idle, NEW c \in canon, Len(c) > Len(Tip),
           NEW k \in Len(final) + 1 .. Len(c)
    PROVE  /\ c \in Blocks /\ k \in Nat /\ k >= Frozen /\ k # 0
           /\ Len(final) <= Len(c) /\ final = Prefix(c, Len(final))
           /\ Prefix(c, k) \in Blocks /\ Len(Prefix(c, k)) = k
           /\ Prefix(c, k) \in kv
<1> USE DEF IInv
<1>1. c \in Blocks /\ Len(c) \in Nat /\ final \in Blocks /\ Len(final) \in Nat /\ Frozen \in Nat
  BY TypeFacts
<1>2. Frozen <= Len(final) + 1
  BY IdleFacts
<1>3. IsAncestor(final, c) /\ Prefix(c, k) \in kv
  BY DEF LeftInIndex, Untouched, Reopened
<1>4. k \in 0 .. Len(c) /\ k \in Nat /\ k >= Frozen /\ k # 0
  BY <1>1, <1>2
<1>5. Len(final) <= Len(c) /\ final = Prefix(c, Len(final))
  BY <1>1, <1>3 DEF IsAncestor
<1> QED
  BY <1>1, <1>3, <1>4, <1>5, PrefixFacts

\* The round's blocks leave the store: they are in the tables.
LEMMA FreezeWipeKeeps ==
    ASSUME IInv, FreezeWipe
    PROVE  IInv'
<1> USE DEF IInv
<1> DEFINE wiped == {freezing.ancients[n - freezing.first + 1] : n \in Numbered}
           unlisted == {b \in canon : Len(b) \in Numbered}
<1>1. freezing # Idle /\ freezing.step = "wipe"
  BY DEF FreezeWipe, Idle
<1>2. /\ kv' = kv \ wiped /\ canon' = canon \ unlisted
      /\ freezing' = [freezing EXCEPT !.step = "sides"]
      /\ UNCHANGED <<tables, states, head, rewind, node, reader, final, rewinds, faults>>
  BY DEF FreezeWipe, Without
<1>3. /\ freezing \in FreezingTypes /\ rewind = Idle /\ Durable = Frozen
      /\ freezing.first \in Nat /\ Len(freezing.ancients) \in Nat
      /\ freezing.first + Len(freezing.ancients) = Frozen /\ Frozen \in Nat
      /\ \A i \in 1 .. Len(freezing.ancients) :
           freezing.ancients[i] = Ancients[freezing.first + i]
  BY <1>1, RoundFacts, NumberFacts DEF Round
<1>4. Numbered = {n \in Nat : freezing.first <= n /\ n < Frozen /\ n # 0}
  BY <1>3 DEF Numbered, RoundNumbers
<1>5. ASSUME NEW n \in Numbered
      PROVE  freezing.ancients[n - freezing.first + 1] = Ancients[n + 1]
  <2>1. n - freezing.first + 1 \in 1 .. Len(freezing.ancients)
    BY <1>3, <1>4
  <2>2. freezing.first + (n - freezing.first + 1) = n + 1
    BY <1>3, <1>4
  <2> QED
    BY <1>3, <2>1, <2>2
<1>6. ASSUME NEW b \in wiped
      PROVE  Len(b) \in Numbered /\ b = Ancients[Len(b) + 1] /\ InTables(b)
  <2>1. PICK n \in Numbered : b = freezing.ancients[n - freezing.first + 1]
    OBVIOUS
  <2>2. n \in Nat /\ n < Frozen /\ b = Ancients[n + 1]
    BY <1>4, <1>5, <2>1
  <2>3. Len(b) = n
    BY <1>3, <2>2, IdleFacts
  <2> QED
    BY <2>1, <2>2, <2>3, TypeFacts
<1>7. Wipes(wiped, unlisted)
  <2>1. ASSUME NEW n \in 0 .. Len(Tip), n = 0 \/ n >= Frozen
        PROVE  Prefix(Tip, n) \notin wiped /\ Prefix(Tip, n) \notin unlisted
    <3>1. Len(Prefix(Tip, n)) = n /\ n \in Nat
      BY TipFacts, PrefixFacts
    <3>2. n \notin Numbered
      BY <1>3, <1>4, <2>1, <3>1
    <3> QED
      BY <1>6, <3>1, <3>2
  <2>2. ASSUME NEW c \in canon, Len(c) > Len(Tip), NEW k \in Len(final) + 1 .. Len(c)
        PROVE  Prefix(c, k) \notin wiped
    <3>1. Len(Prefix(c, k)) = k /\ k \in Nat /\ k >= Frozen
      BY <1>3, <2>2, LeftIsBeyond
    <3>2. k \notin Numbered
      BY <1>3, <1>4, <3>1
    <3> QED
      BY <1>6, <3>1, <3>2
  <2>3. ASSUME NEW c \in unlisted PROVE Len(c) <= Len(Tip)
    <3>1. Len(c) \in Nat /\ Len(c) < Frozen /\ Len(Tip) \in Nat /\ Frozen <= Len(Tip) + 1
      BY <1>3, <1>4, IdleFacts, TipFacts
    <3> QED
      BY <1>3, <3>1
  <2> HIDE DEF wiped, unlisted
  <2> QED
    BY <1>2, <1>6, <2>1, <2>2, <2>3 DEF Wipes
<1>8. /\ freezing' \in FreezingTypes /\ freezing'.step = "sides"
      /\ freezing'.first = freezing.first /\ freezing'.ancients = freezing.ancients
  BY <1>2, <1>3, ZenonT(60) DEF FreezingTypes
<1>9. Round'
  <2>1. Frozen' = Frozen /\ Ancients' = Ancients /\ Durable' = Durable
    BY <1>2 DEF Frozen, Ancients, Durable
  <2>2. ASSUME NEW n \in freezing.first .. Frozen - 1, n # 0
        PROVE  Ancients[n + 1] \notin kv'
    <3>1. n \in Numbered
      BY <1>3, <1>4, <2>2
    <3>2. Ancients[n + 1] \in wiped
      BY <1>5, <3>1
    <3> QED
      BY <1>2, <3>2
  <2> QED
    BY <1>2, <1>3, <1>8, <2>1, <2>2 DEF Round
<1> QED
  BY <1>1, <1>2, <1>7, <1>8, <1>9, WipesKeeps

\* Then the side chains: blocks that are not in the tables at their numbers.
LEMMA FreezeSidesKeeps ==
    ASSUME IInv, FreezeSides
    PROVE  IInv'
<1> USE DEF IInv
<1> DEFINE numbers == (freezing.first .. Frozen - 1) \ {0}
           sides == {b \in kv : Len(b) \in numbers}
<1>1. freezing # Idle /\ freezing.step = "sides"
  BY DEF FreezeSides, Idle
<1>2. /\ kv' = kv \ sides /\ canon' = canon
      /\ freezing' = [freezing EXCEPT !.step = "dangling",
                        !.dangling = {b \in sides : Len(b) = Frozen - 1}]
      /\ UNCHANGED <<tables, states, head, rewind, node, reader, final, rewinds, faults>>
  BY DEF FreezeSides
<1>3. /\ freezing \in FreezingTypes /\ rewind = Idle /\ Durable = Frozen
      /\ freezing.first \in Nat /\ Frozen \in Nat
      /\ freezing.first + Len(freezing.ancients) = Frozen
      /\ \A i \in 1 .. Len(freezing.ancients) :
           freezing.ancients[i] = Ancients[freezing.first + i]
  BY <1>1, RoundFacts, NumberFacts DEF Round
<1>4. \A n \in numbers : Ancients[n + 1] \notin kv
  BY <1>1 DEF Round
<1>5. ASSUME NEW b \in sides
      PROVE  /\ b \in Blocks /\ Len(b) \in Nat /\ Len(b) < Frozen /\ Len(b) # 0
             /\ b # Ancients[Len(b) + 1] /\ Lost(b)
  <2>1. b \in Blocks /\ Len(b) \in Nat /\ Len(b) < Frozen /\ Len(b) # 0
    BY <1>3, TypeFacts
  <2>2. b # Ancients[Len(b) + 1]
    BY <1>4
  <2>3. Len(b) \in 0 .. Len(b) /\ Prefix(b, Len(b)) = b
    BY <2>1, WholePrefix
  <2> QED
    BY <2>1, <2>2, <2>3 DEF Lost
<1>6. Wipes(sides, {})
  <2>1. ASSUME NEW n \in 0 .. Len(Tip), n = 0 \/ n >= Frozen
        PROVE  Prefix(Tip, n) \notin sides
    <3>1. Len(Prefix(Tip, n)) = n /\ n \in Nat
      BY TipFacts, PrefixFacts
    <3> QED
      BY <1>3, <1>5, <2>1, <3>1
  <2>2. ASSUME NEW c \in canon, Len(c) > Len(Tip), NEW k \in Len(final) + 1 .. Len(c)
        PROVE  Prefix(c, k) \notin sides
    <3>1. Len(Prefix(c, k)) = k /\ k \in Nat /\ k >= Frozen
      BY <1>3, <2>2, LeftIsBeyond
    <3> QED
      BY <1>3, <1>5, <3>1
  <2> HIDE DEF sides
  <2> QED
    BY <1>2, <1>5, <2>1, <2>2 DEF Wipes
<1> DEFINE dangling == {b \in sides : Len(b) = Frozen - 1}
<1>7. dangling \subseteq Blocks /\ \A d \in dangling : Len(d) = Frozen - 1 /\ d # Ancients[Frozen]
  <2>1. dangling \subseteq Blocks
    BY <1>5
  <2>2. ASSUME NEW d \in dangling PROVE Len(d) = Frozen - 1 /\ d # Ancients[Frozen]
    <3>1. d \in sides /\ Len(d) = Frozen - 1
      OBVIOUS
    <3>2. Len(d) + 1 = Frozen
      BY <3>1, <1>3
    <3> QED
      BY <1>5, <3>1, <3>2
  <2> QED
    BY <2>1, <2>2
<1>8. /\ freezing' \in FreezingTypes /\ freezing'.step = "dangling"
      /\ freezing'.first = freezing.first /\ freezing'.ancients = freezing.ancients
      /\ freezing'.dangling = dangling
  <2>1. freezing' = [freezing EXCEPT !.step = "dangling", !.dangling = dangling]
    BY <1>2
  <2> HIDE DEF dangling
  <2> QED
    BY <1>3, <1>7, <2>1, ZenonT(60) DEF FreezingTypes
<1>9. Round'
  <2>1. Frozen' = Frozen /\ Ancients' = Ancients /\ Durable' = Durable
    BY <1>2 DEF Frozen, Ancients, Durable
  <2> HIDE DEF dangling
  <2> QED
    BY <1>2, <1>3, <1>7, <1>8, <2>1 DEF Round
<1> QED
  <2> HIDE DEF sides
  <2> QED
    BY <1>1, <1>2, <1>6, <1>8, <1>9, WipesKeeps, ZenonT(60)

\* Then what descends from the side blocks of the last number: neither on the
\* chain nor a continuation of the final one.
LEMMA FreezeDanglingKeeps ==
    ASSUME IInv, FreezeDangling
    PROVE  IInv'
<1> USE DEF IInv
<1> DEFINE wiped == {b \in kv : \E d \in freezing.dangling :
                        /\ d # b /\ IsAncestor(d, b)
                        /\ \A n \in Len(d) + 1 .. Len(b) : Prefix(b, n) \in kv}
<1>1. freezing # Idle /\ freezing.step = "dangling"
  BY DEF FreezeDangling, Idle
<1>2. /\ kv' = kv \ wiped /\ canon' = canon /\ freezing' = Idle
      /\ UNCHANGED <<tables, states, head, rewind, node, reader, final, rewinds, faults>>
  BY DEF FreezeDangling
<1>3. freezing \in FreezingTypes /\ rewind = Idle /\ Frozen \in Nat
  BY <1>1, RoundFacts, NumberFacts
<1>4. ASSUME NEW b \in wiped
      PROVE  /\ b \in Blocks /\ Len(b) \in Nat /\ Frozen > 0
             /\ Len(b) >= Frozen
             /\ Ancients[Frozen] # Prefix(b, Frozen - 1)
  <2>1. PICK d \in freezing.dangling : IsAncestor(d, b) /\ d # b
    OBVIOUS
  <2>2. b \in Blocks /\ d \in Blocks /\ Len(b) \in Nat /\ Len(d) \in Nat
    BY <1>3, <2>1, TypeFacts, BlockLen DEF FreezingTypes
  <2>3. Len(d) = Frozen - 1 /\ d # Ancients[Frozen]
    BY <1>1, <2>1 DEF Round
  <2>4. Len(d) <= Len(b) /\ d = Prefix(b, Len(d))
    BY <2>1, <2>2 DEF IsAncestor
  <2>5. Len(d) # Len(b)
    BY <2>1, <2>2, <2>4, WholePrefix
  <2> QED
    BY <1>3, <2>2, <2>3, <2>4, <2>5
<1>5. Wipes(wiped, {})
  <2>1. ASSUME NEW n \in 0 .. Len(Tip), n = 0 \/ n >= Frozen, Prefix(Tip, n) \in wiped
        PROVE  FALSE
    <3>1. Len(Prefix(Tip, n)) = n /\ n \in Nat /\ Tip \in Blocks
      BY TipFacts, PrefixFacts
    <3>2. n >= Frozen /\ Frozen > 0 /\ Ancients[Frozen] # Prefix(Prefix(Tip, n), Frozen - 1)
      BY <1>4, <2>1, <3>1
    <3>3. Frozen - 1 \in 0 .. n /\ Frozen - 1 \in Nat /\ Frozen - 1 < Frozen
          /\ Frozen - 1 + 1 = Frozen
      BY <1>3, <3>1, <3>2
    <3>4. Prefix(Prefix(Tip, n), Frozen - 1) = Prefix(Tip, Frozen - 1)
      BY <3>1, <3>3, PrefixOfPrefix
    <3>5. Ancients[Frozen] = Prefix(Tip, Frozen - 1)
      BY <1>3, <3>3, IdleFacts
    <3> QED
      BY <3>2, <3>4, <3>5
  <2>2. ASSUME NEW c \in canon, Len(c) > Len(Tip), NEW k \in Len(final) + 1 .. Len(c),
               Prefix(c, k) \in wiped
        PROVE  FALSE
    <3>1. /\ c \in Blocks /\ k \in Nat /\ k >= Frozen /\ Len(final) <= Len(c)
          /\ final = Prefix(c, Len(final))
      BY <1>3, <2>2, LeftIsBeyond
    <3>2. Frozen > 0 /\ Ancients[Frozen] # Prefix(Prefix(c, k), Frozen - 1)
      BY <1>4, <2>2
    <3>3. Frozen <= Len(final) + 1 /\ Len(final) \in Nat /\ Len(c) \in Nat
      BY <1>3, IdleFacts, TypeFacts
    <3>4. /\ Frozen - 1 \in 0 .. k /\ Frozen - 1 \in Nat /\ Frozen - 1 < Frozen
          /\ Frozen - 1 + 1 = Frozen /\ Frozen - 1 \in 0 .. Len(final)
          /\ k \in 0 .. Len(c) /\ Len(final) \in 0 .. Len(c)
      BY <1>3, <3>1, <3>2, <3>3
    <3>5. Prefix(Prefix(c, k), Frozen - 1) = Prefix(c, Frozen - 1)
      BY <3>1, <3>4, PrefixOfPrefix
    <3>6. Prefix(Prefix(c, Len(final)), Frozen - 1) = Prefix(c, Frozen - 1)
      BY <3>1, <3>4, PrefixOfPrefix
    <3>7. Ancients[Frozen] = Prefix(final, Frozen - 1)
      BY <1>3, <3>4, IdleFacts
    <3> QED
      BY <3>1, <3>2, <3>5, <3>6, <3>7
  <2>3. ASSUME NEW b \in wiped PROVE Lost(b)
    <3>1. Frozen - 1 \in 0 .. Len(b) /\ Frozen - 1 < Frozen /\ Frozen - 1 + 1 = Frozen
      BY <1>3, <1>4
    <3> QED
      BY <1>4, <3>1 DEF Lost
  <2> HIDE DEF wiped
  <2> QED
    BY <1>2, <2>1, <2>2, <2>3 DEF Wipes
<1>6. Round'
  BY <1>2 DEF Round
<1> QED
  <2> HIDE DEF wiped
  <2>1. freezing.step # "append"
    BY <1>1
  <2> QED
    BY <1>1, <1>2, <1>5, <1>6, <2>1, WipesKeeps
-----------------------------------------------------------------------------
(***************************************************************************)
(* SetHead.                                                                *)
(***************************************************************************)

\* The ancestor whose state is there is an ancestor.
LEMMA WithStateFacts ==
    ASSUME NEW b \in Blocks
    PROVE  \E k \in 0 .. Len(b) : WithState(b) = Prefix(b, k)
<1> DEFINE found == {n \in 0 .. Len(b) :
                       /\ Prefix(b, n) \in states
                       /\ \A m \in n + 1 .. Len(b) : Prefix(b, m) \notin states
                       /\ \A m \in n .. Len(b) : Readable(Prefix(b, m))}
<1>1. Len(b) \in Nat /\ 0 \in 0 .. Len(b)
  BY BlockLen
<1>2. CASE found = {}
  <2>1. Prefix(b, 0) = Genesis
    <3>1. Prefix(b, 0) \in Seq(Nat) /\ Len(Prefix(b, 0)) = 0
      BY <1>1, PrefixFacts, BlockLen
    <3> QED
      BY <3>1 DEF Genesis
  <2> QED
    BY <1>1, <1>2, <2>1 DEF WithState
<1>3. CASE found # {}
  <2>1. (CHOOSE n \in found : TRUE) \in found
    BY <1>3, ZenonT(60)
  <2>2. WithState(b) = Prefix(b, CHOOSE n \in found : TRUE)
    BY <1>3 DEF WithState
  <2> QED
    BY <2>1, <2>2, ZenonT(60)
<1> QED
  BY <1>2, <1>3

\* A prefix of a chain agrees with what the chain agrees with.
LEMMA AgreePrefix ==
    ASSUME NEW b \in Blocks, NEW c \in Blocks, Agree(b, c),
           NEW i \in 0 .. Len(b), NEW j \in 0 .. Len(c)
    PROVE  Agree(Prefix(b, i), Prefix(c, j))
<1>1. /\ Prefix(b, i) \in Blocks /\ Len(Prefix(b, i)) = i /\ i \in Nat
      /\ Prefix(c, j) \in Blocks /\ Len(Prefix(c, j)) = j /\ j \in Nat
      /\ Len(b) \in Nat /\ Len(c) \in Nat
  BY PrefixFacts
<1>2. CASE i <= j
  <2>1. i \in 0 .. j /\ i <= Len(c)
    BY <1>1, <1>2
  <2>2. Prefix(Prefix(c, j), i) = Prefix(c, i) /\ Prefix(b, i) = Prefix(c, i)
    BY <2>1, PrefixOfPrefix, AgreeFacts
  <2> QED
    BY <1>1, <1>2, <2>2, AgreeFacts
<1>3. CASE j <= i
  <2>1. j \in 0 .. i /\ j \in 0 .. Len(b) /\ j <= Len(c)
    BY <1>1, <1>3
  <2>2. Prefix(Prefix(b, i), j) = Prefix(b, j) /\ Prefix(b, j) = Prefix(c, j)
    BY <2>1, PrefixOfPrefix, AgreeFacts
  <2>3. Agree(Prefix(c, j), Prefix(b, i))
    BY <1>1, <1>3, <2>2, AgreeFacts
  <2> QED
    BY <1>1, <2>3, AgreeFacts
<1> QED
  BY <1>1, <1>2, <1>3

\* The markers move down the chain, and the final chain may be shortened.
LEMMA MarkersMoveDown ==
    ASSUME Types, OneChain, ChainIsStored,
           UNCHANGED <<tables, kv, canon>>,
           NEW i \in 0 .. Len(Tip), head'.header = Prefix(Tip, i),
           NEW j \in 0 .. Len(Tip), head'.block = Prefix(Tip, j),
           NEW f \in 0 .. Len(final), final' = Prefix(final, f)
    PROVE  /\ OneChain' /\ ChainIsStored'
           /\ Len(head'.header) = i /\ Len(head'.block) = j /\ Len(final') = f
           /\ head'.header \in Blocks /\ head'.block \in Blocks /\ final' \in Blocks
           /\ Tip' = Prefix(Tip, IF i >= j THEN i ELSE j)
           /\ Len(Tip') = IF i >= j THEN i ELSE j
<1> DEFINE t == IF i >= j THEN i ELSE j
<1>1. /\ Tip \in Blocks /\ final \in Blocks /\ i \in Nat /\ j \in Nat
      /\ t \in 0 .. Len(Tip) /\ i \in 0 .. t /\ j \in 0 .. t /\ Len(Tip) \in Nat
  BY TypeFacts, TipFacts
<1>2. /\ Len(head'.header) = i /\ Len(head'.block) = j /\ Len(final') = f
      /\ head'.header \in Blocks /\ head'.block \in Blocks /\ final' \in Blocks
      /\ Prefix(Tip, t) \in Blocks /\ Len(Prefix(Tip, t)) = t
  BY <1>1, PrefixFacts
<1>3. Tip' = Prefix(Tip, t)
  BY <1>1, <1>2 DEF Tip
<1>4. OneChain'
  <2>1. Agree(Tip, Tip)
    BY <1>1, WholePrefix, AgreeFacts
  <2>2. Agree(head'.header, head'.block)
    BY <1>1, <2>1, AgreePrefix
  <2>3. Agree(Prefix(Tip, t), final')
    BY <1>1, AgreePrefix DEF OneChain
  <2> QED
    BY <1>3, <2>2, <2>3 DEF OneChain
<1>5. ChainIsStored'
  <2>1. Frozen' = Frozen /\ Ancients' = Ancients /\ Durable' = Durable
    BY DEF Frozen, Ancients, Durable
  <2> HIDE DEF t
  <2> SUFFICES ASSUME NEW n \in 0 .. t
               PROVE  /\ n < Frozen => Ancients[n + 1] = Prefix(Prefix(Tip, t), n)
                      /\ n = 0 \/ n >= Durable =>
                            Prefix(Prefix(Tip, t), n) \in kv \intersect canon
    BY <1>2, <1>3, <2>1 DEF ChainIsStored
  <2>2. n \in 0 .. Len(Tip) /\ Prefix(Prefix(Tip, t), n) = Prefix(Tip, n)
    BY <1>1, PrefixOfPrefix
  <2> QED
    BY <2>2 DEF ChainIsStored
<1> QED
  BY <1>2, <1>3, <1>4, <1>5

\* Above the last header, what the index names can be followed in the store.
LEMMA StoreReachesUp ==
    ASSUME IInv, rewind = Idle, NEW c \in canon, NEW k \in Len(head.header) + 1 .. Len(c)
    PROVE  \E b \in kv : Len(b) = k
<1> USE DEF IInv
<1>1. /\ c \in Blocks /\ Len(c) \in Nat /\ k \in Nat /\ Len(head.header) \in Nat
      /\ Len(Tip) \in Nat /\ Frozen \in Nat /\ Durable <= Frozen /\ Durable \in Nat
      /\ Len(final) \in Nat
  BY TypeFacts, NumberFacts
<1>2. Frozen <= Len(head.header) + 1
  BY IdleFacts
<1>3. CASE k <= Len(Tip)
  <2>1. k \in 0 .. Len(Tip) /\ k >= Durable
    BY <1>1, <1>2, <1>3
  <2> QED
    BY <2>1, TipIsReadable
<1>4. CASE k > Len(Tip)
  <2>1. Len(c) > Len(Tip)
    BY <1>1, <1>4
  <2>2. Len(final) < Len(head.header)
    BY <2>1 DEF LeftInIndex, Untouched, Reopened
  <2>3. k \in Len(final) + 1 .. Len(c)
    BY <1>1, <2>2
  <2> QED
    BY <2>1, <2>3, LeftIsBeyond
<1> QED
  BY <1>1, <1>3, <1>4

\* What a call of SetHead, or the start of the node, leaves alone.
Begins == /\ rewind = Idle /\ freezing = Idle
          /\ UNCHANGED <<tables, kv, canon, states, freezing, faults>>
          /\ reader' = Idle /\ node' \in {"repaired", "running"}
          /\ rewinds' \in 0 .. MaxRewinds

RewindTypes == [step : {"mark", "delete"}, to : Nat, frozen : Nat,
                origin : BOOLEAN, number : Nat, doomed : SUBSET Nat]

\* SetHead to a number below the head: nothing moves yet.
LEMMA BeginBelow ==
    ASSUME IInv, Begins, NEW n \in Nat, n < Len(head.block),
           rewind' = Rewinding(n, Frozen), head' = head,
           final' = final \/ (n < Len(final) /\ final' = Prefix(final, n))
    PROVE  IInv'
<1> USE DEF IInv
<1>1. /\ Frozen \in Nat /\ Durable <= Frozen /\ Durable \in Nat
      /\ Len(head.block) \in Nat /\ Len(head.header) \in Nat /\ Len(Tip) \in Nat
      /\ Len(final) \in Nat /\ final \in Blocks /\ threshold \in Nat
  BY TypeFacts, NumberFacts
<1>2. /\ Tip' = Tip /\ Frozen' = Frozen /\ Ancients' = Ancients /\ Durable' = Durable
  BY DEF Begins, Tip, Frozen, Ancients, Durable
<1>3. /\ rewind' \in RewindTypes /\ rewind'.step = "mark" /\ rewind'.origin = TRUE
      /\ rewind'.to = n /\ rewind'.frozen = Frozen /\ rewind'.doomed = {}
      /\ rewind' # Idle
  BY <1>1 DEF Rewinding, RewindTypes, Idle
<1>4. PICK f \in 0 .. Len(final) : final' = Prefix(final, f)
  BY <1>1, WholePrefix
<1>5. /\ OneChain' /\ ChainIsStored' /\ final' \in Blocks
  <2>1. /\ Len(head.header) \in 0 .. Len(Tip) /\ head'.header = Prefix(Tip, Len(head.header))
        /\ Len(head.block) \in 0 .. Len(Tip) /\ head'.block = Prefix(Tip, Len(head.block))
    BY <1>1, TipFacts
  <2> QED
    BY <1>4, <2>1, MarkersMoveDown DEF Begins
<1>6. Types'
  BY <1>2, <1>3, <1>5 DEF Types, Begins, RewindTypes
<1>7. IndexIsUnique'
  BY DEF IndexIsUnique, Begins
<1>8. Untouched'
  BY <1>3 DEF Untouched
<1>9. Untouched /\ ~ Reopened
  BY DEF Begins, Untouched, Reopened
<1>10. final' = final \/ Reopened'
  <2> SUFFICES ASSUME n < Len(final), final' = Prefix(final, n)
               PROVE  Reopened'
    OBVIOUS
  <2>1. Len(final') = n
    <3>1. n \in 0 .. Len(final)
      BY <1>1
    <3> QED
      BY <1>1, <3>1, PrefixFacts
  <2>2. Len(head.header) > n
    BY <1>1, <1>9 DEF LaggingHeader
  <2> QED
    BY <1>3, <2>1, <2>2 DEF Reopened
<1>11. NotFarBeyond' /\ LaggingHeader' /\ LeftInIndex'
  BY <1>2, <1>9, <1>10 DEF NotFarBeyond, LaggingHeader, LeftInIndex, Begins
<1>12. Round'
  BY DEF Round, Begins
<1>13. Rewind'
  <2>1. Frozen <= Len(head.block) + 1 /\ Frozen <= Len(head.header) + 1
    BY IdleFacts DEF Begins
  <2> QED
    BY <1>1, <1>2, <1>3, <1>8, <2>1 DEF Rewind, Begins
<1>14. Thorough'
  <2>1. \A c \in canon : \A k \in Len(head.header) + 1 .. Len(c) : \E b \in kv : Len(b) = k
    BY StoreReachesUp DEF Begins
  <2> QED
    BY <1>3, <2>1 DEF Thorough, Begins
<1>15. Reader'
  BY DEF Reader, Begins
<1> QED
  BY <1>5, <1>6, <1>7, <1>11, <1>12, <1>13, <1>14, <1>15

\* SetHead to the number of the head: the block and fast markers are repaired,
\* and SetHead goes on only when the tables reach beyond the new head.
LEMMA BeginAtHead ==
    ASSUME IInv, Begins, BeginRewind(Len(head.block)), final' = final
    PROVE  IInv'
<1> USE DEF IInv
<1>1. /\ Frozen \in Nat /\ Durable <= Frozen /\ Durable \in Nat
      /\ Len(head.block) \in Nat /\ Len(head.header) \in Nat /\ Len(Tip) \in Nat
      /\ Len(final) \in Nat /\ threshold \in Nat
      /\ final \in Blocks /\ head.block \in Blocks /\ head.header \in Blocks
      /\ Tip \in Blocks
  BY TypeFacts, NumberFacts, TipFacts
<1>2. /\ Frozen' = Frozen /\ Ancients' = Ancients /\ Durable' = Durable
  BY DEF Begins, Frozen, Ancients, Durable
<1>3. /\ head' = Lowered(head.block)
      /\ rewind' = IF MustForce(head'.block, Frozen)
                   THEN Rewinding(Len(head'.block), Frozen) ELSE Idle
  BY DEF BeginRewind
<1>4. PICK k \in 0 .. Len(head.block) : WithState(head.block) = Prefix(head.block, k)
  BY <1>1, WithStateFacts
<1>5. /\ head' \in [block : Blocks, fast : Blocks, header : Blocks]
      /\ head'.header = head.header /\ head'.block = Prefix(head.block, k)
  <2>1. Genesis \in Blocks
    <3>1. 0 \in 0 .. Len(head.block)
      BY <1>1
    <3>2. Prefix(head.block, 0) \in Blocks /\ Len(Prefix(head.block, 0)) = 0
      BY <1>1, <3>1, PrefixFacts
    <3> QED
      BY <3>2, BlockLen DEF Genesis
  <2>2. Prefix(head.block, k) \in Blocks
    BY <1>1, PrefixFacts
  <2>3. head \in [block : Blocks, fast : Blocks, header : Blocks]
    BY DEF Types
  <2> DEFINE fast == IF Len(head.block) < Len(head.fast)
                     THEN IF Readable(head.block) THEN head.block ELSE Genesis
                     ELSE head.fast
  <2>4. fast \in Blocks
    BY <1>1, <2>1, <2>3
  <2>5. head' = [block |-> Prefix(head.block, k), fast |-> fast, header |-> head.header]
    <3>1. Len(head.block) <= Len(head.block)
      BY <1>1
    <3>2. head' = [head EXCEPT !.block = WithState(head.block), !.fast = fast]
      BY <1>3, <3>1 DEF Lowered
    <3> QED
      BY <1>4, <2>3, <3>2, ZenonT(60)
  <2> HIDE DEF fast
  <2> QED
    BY <1>1, <2>2, <2>4, <2>5
<1>0. /\ k \in Nat /\ k \in 0 .. Len(Tip) /\ k <= Len(Tip)
      /\ Len(head.header) \in 0 .. Len(Tip) /\ Len(head.header) <= Len(Tip)
      /\ Len(final) \in 0 .. Len(final)
  BY <1>1, TipFacts
<1>6. /\ head'.block = Prefix(Tip, k) /\ head'.header = Prefix(Tip, Len(head.header))
      /\ final' = Prefix(final, Len(final))
  BY <1>1, <1>5, TipFacts, WholePrefix
<1> DEFINE t == IF Len(head.header) >= k THEN Len(head.header) ELSE k
<1>7. /\ OneChain' /\ ChainIsStored' /\ Len(head'.block) = k
      /\ Tip' = Prefix(Tip, t) /\ Len(Tip') = t
  BY <1>0, <1>6, MarkersMoveDown DEF Begins
<1>8. t \in Nat /\ t <= Len(Tip) /\ Len(head.header) <= t /\ k <= t
  BY <1>0, <1>1
<1>9. Untouched /\ ~ Reopened
  BY DEF Begins, Untouched, Reopened
<1>10. /\ Frozen <= Len(head.block) + 1 /\ Frozen <= Len(head.header) + 1
       /\ Frozen <= Len(final) + 1 /\ Len(Tip) <= Len(final) + threshold
  BY IdleFacts DEF Begins
<1>11. NotFarBeyond'
  <2> HIDE DEF t
  <2> QED
    BY <1>1, <1>2, <1>7, <1>8, <1>10 DEF NotFarBeyond
<1>12. LaggingHeader'
  <2> SUFFICES ASSUME Len(head.header) < k
               PROVE  Len(final) < Len(head.header) /\ IsAncestor(final, Prefix(head.block, k))
    BY <1>5, <1>7 DEF LaggingHeader
  <2>1. Len(final) < Len(head.header) /\ IsAncestor(final, head.block)
    BY <1>1, <1>9 DEF LaggingHeader
  <2>2. final = Prefix(head.block, Len(final)) /\ Len(final) \in 0 .. k
    BY <1>1, <2>1 DEF IsAncestor
  <2>3. Prefix(Prefix(head.block, k), Len(final)) = final
    BY <1>1, <2>2, PrefixOfPrefix
  <2>4. Prefix(head.block, k) \in Blocks /\ Len(Prefix(head.block, k)) = k
    BY <1>1, PrefixFacts
  <2> QED
    BY <1>1, <2>1, <2>2, <2>3, <2>4 DEF IsAncestor
<1>13. LeftInIndex'
  <2> SUFFICES ASSUME NEW c \in canon, Len(c) > t
               PROVE  /\ Len(final) < Len(head.header)
                      /\ IsAncestor(final, c)
                      /\ Len(c) <= Len(final) + threshold
                      /\ \A q \in Len(final) + 1 .. Len(c) : Prefix(c, q) \in kv
                      /\ \A q \in t + 1 .. Len(c) : \E d \in canon : Len(d) = q
    BY <1>5, <1>7 DEF LeftInIndex, Begins
  <2>0. ASSUME NEW q \in t + 1 .. Len(c) PROVE \E d \in canon : Len(d) = q
    <3>1. Len(c) \in Nat
      BY TypeFacts
    <3>2. q \in Nat /\ q >= Frozen /\ q <= Len(c)
      BY <1>1, <1>8, <1>10, <3>1
    <3> QED
      BY <3>2, NoGapInIndex DEF Begins
  <2>1. CASE Len(c) > Len(Tip)
    BY <1>9, <2>0, <2>1 DEF LeftInIndex
  <2>2. CASE ~ (Len(c) > Len(Tip))
    <3>1. c \in Blocks /\ Len(c) \in 0 .. Len(Tip) /\ Len(c) > Len(head.header)
      BY <1>1, <1>8, <2>2, TypeFacts
    <3>2. Tip = head.block /\ Len(final) < Len(head.header) /\ IsAncestor(final, head.block)
      <4>1. Len(head.header) < Len(Tip)
        BY <1>1, <3>1
      <4>2. Tip = head.block
        BY <4>1, <1>1, TipFacts
      <4> QED
        BY <4>1, <4>2, <1>9 DEF LaggingHeader
    <3>3. Len(c) >= Durable
      BY <1>1, <1>10, <3>1
    <3>4. c = Prefix(Tip, Len(c))
      <4>1. Prefix(Tip, Len(c)) \in canon /\ Len(Prefix(Tip, Len(c))) = Len(c)
        BY <1>1, <3>1, <3>3, PrefixFacts DEF ChainIsStored
      <4> QED
        BY <4>1 DEF IndexIsUnique
    <3>5. Len(final) \in 0 .. Len(c) /\ Len(final) \in 0 .. Len(Tip)
      BY <1>1, <3>1, <3>2
    <3>6. final = Prefix(Tip, Len(final))
      BY <1>1, <3>2 DEF IsAncestor
    <3>7. IsAncestor(final, c)
      <4>1. Prefix(Prefix(Tip, Len(c)), Len(final)) = Prefix(Tip, Len(final))
        BY <1>1, <3>1, <3>5, PrefixOfPrefix
      <4> QED
        BY <1>1, <3>1, <3>4, <3>5, <3>6, <4>1 DEF IsAncestor
    <3>8. ASSUME NEW q \in Len(final) + 1 .. Len(c) PROVE Prefix(c, q) \in kv
      <4>1. q \in 0 .. Len(c) /\ q \in 0 .. Len(Tip) /\ q >= Durable
        BY <1>1, <1>10, <3>1
      <4>2. Prefix(Prefix(Tip, Len(c)), q) = Prefix(Tip, q)
        BY <1>1, <3>1, <4>1, PrefixOfPrefix
      <4>3. Prefix(Tip, q) \in kv
        BY <4>1 DEF ChainIsStored
      <4> QED
        BY <3>4, <4>2, <4>3
    <3>9. Len(c) <= Len(final) + threshold
      BY <1>1, <1>10, <3>1
    <3> QED
      BY <2>0, <3>2, <3>7, <3>8, <3>9
  <2> QED
    BY <2>1, <2>2
<1>14. CASE ~ MustForce(head'.block, Frozen)
  <2>1. rewind' = Idle /\ Frozen <= k + 1
    <3>1. Len(head'.block) = k /\ k \in Nat /\ Frozen \in Nat
      BY <1>0, <1>1, <1>7
    <3> QED
      BY <1>3, <1>14, <3>1 DEF MustForce
  <2>2. Types'
    BY <1>2, <1>5, <2>1 DEF Types, Begins
  <2>3. IndexIsUnique' /\ Round' /\ Rewind' /\ Thorough' /\ Reader'
    BY <1>2, <1>7, <2>1 DEF IndexIsUnique, Round, Rewind, Thorough, Reader, Begins
  <2> QED
    BY <1>7, <1>11, <1>12, <1>13, <2>2, <2>3
<1>15. CASE MustForce(head'.block, Frozen)
  <2>1. /\ rewind' \in RewindTypes /\ rewind'.step = "mark" /\ rewind'.origin = TRUE
        /\ rewind'.to = k /\ rewind'.frozen = Frozen /\ rewind'.doomed = {}
        /\ rewind' # Idle
    BY <1>0, <1>1, <1>3, <1>7, <1>15 DEF Rewinding, RewindTypes, Idle
  <2>2. Types'
    BY <1>2, <1>5, <2>1 DEF Types, Begins, RewindTypes
  <2>3. IndexIsUnique' /\ Round' /\ Reader'
    BY DEF IndexIsUnique, Round, Reader, Begins
  <2>4. Untouched'
    BY <2>1 DEF Untouched
  <2>5. Rewind'
    <3>1. /\ Frozen' = Frozen /\ Len(head'.block) = k /\ k \in Nat /\ k <= k
          /\ head'.header = head.header /\ Frozen <= Len(head.header) + 1
          /\ Frozen \in Nat /\ Frozen <= Frozen
      BY <1>0, <1>1, <1>2, <1>5, <1>7, <1>10
    <3> QED
      BY <2>1, <2>4, <3>1 DEF Rewind, Begins
  <2>6. Thorough'
    <3>1. \A c \in canon : \A q \in Len(head.header) + 1 .. Len(c) : \E b \in kv : Len(b) = q
      BY StoreReachesUp DEF Begins
    <3> QED
      BY <1>5, <2>1, <3>1 DEF Thorough, Begins
  <2> QED
    BY <1>7, <1>11, <1>12, <1>13, <2>2, <2>3, <2>5, <2>6
<1> QED
  BY <1>14, <1>15

\* SetHead is called.
LEMMA SetHeadKeeps ==
    ASSUME IInv, Orderly, NEW n \in Numbers, SetHead(n)
    PROVE  IInv'
<1> USE DEF IInv
<1>1. n \in Nat /\ n <= Len(head.block) /\ Len(head.block) \in Nat
  BY BlockLen, TypeFacts DEF Numbers, SetHead
<1>2. Begins
  BY NumberFacts DEF SetHead, Begins, Orderly, Types
<1>3. BeginRewind(n) /\ (final' = IF n < Len(head.block) /\ n < Len(final)
                                 THEN Prefix(final, n) ELSE final)
  BY DEF SetHead
<1>4. CASE n = Len(head.block)
  BY <1>1, <1>2, <1>3, <1>4, BeginAtHead
<1>5. CASE n # Len(head.block)
  <2>1. n < Len(head.block) /\ rewind' = Rewinding(n, Frozen) /\ head' = head
    BY <1>1, <1>3, <1>5 DEF BeginRewind
  <2> QED
    BY <1>1, <1>2, <1>3, <2>1, BeginBelow
<1> QED
  BY <1>4, <1>5

\* The node repairs its head when it starts.
LEMMA StartRepairKeeps ==
    ASSUME IInv, Orderly, StartRepair
    PROVE  IInv'
<1> USE DEF IInv
<1>1. /\ node = "loaded" /\ rewind = Idle /\ freezing = Idle /\ node' = "repaired"
      /\ UNCHANGED <<tables, kv, canon, states, freezing, reader, final, rewinds, faults>>
  BY DEF StartRepair, Orderly
<1>2. reader = Idle
  BY <1>1 DEF Reader
<1>3. CASE head.block \in states
  <2>1. head' = head /\ rewind' = rewind
    BY <1>3 DEF StartRepair
  <2>2. /\ Tip' = Tip /\ Frozen' = Frozen /\ Ancients' = Ancients /\ Durable' = Durable
        /\ Untouched' = Untouched /\ Reopened' = Reopened
    BY <1>1, <2>1 DEF Tip, Frozen, Ancients, Durable, Untouched, Reopened
  <2>3. Types' /\ OneChain' /\ ChainIsStored' /\ IndexIsUnique'
    BY <1>1, <2>1, <2>2 DEF Types, OneChain, ChainIsStored, IndexIsUnique
  <2>4. NotFarBeyond' /\ LaggingHeader' /\ LeftInIndex'
    BY <1>1, <2>1, <2>2 DEF NotFarBeyond, LaggingHeader, LeftInIndex
  <2>5. Round' /\ Rewind' /\ Thorough' /\ Reader'
    BY <1>1, <1>2, <2>1, <2>2 DEF Round, Rewind, Thorough, Reader
  <2> QED
    BY <2>3, <2>4, <2>5
<1>4. CASE head.block \notin states
  <2>1. BeginRewind(Len(head.block))
    BY <1>4 DEF StartRepair
  <2>2. Begins
    BY <1>1, <1>2 DEF Begins, Types
  <2> QED
    BY <1>1, <2>1, <2>2, BeginAtHead
<1> QED
  BY <1>3, <1>4

\* The tables never reach beyond the last block when the node starts; when they
\* reach beyond the last fast block the chain is rewound.
LEMMA StartTruncateKeeps ==
    ASSUME IInv, Orderly, StartTruncate
    PROVE  IInv'
<1> USE DEF IInv
<1> DEFINE full == head.block # Genesis /\ Len(head.block) + 1 < Frozen
           fast == Len(head.fast) + 1 < Frozen
           low == Min((IF full THEN {Len(head.block)} ELSE {}) \union
                      (IF fast THEN {Len(head.fast)} ELSE {}))
<1>1. /\ node = "repaired" /\ rewind = Idle /\ freezing = Idle /\ node' = "running"
      /\ UNCHANGED <<tables, kv, canon, states, freezing, reader, final, rewinds, faults>>
      /\ IF full \/ fast THEN BeginRewind(low) ELSE UNCHANGED <<head, rewind>>
  BY DEF StartTruncate, Orderly
<1>2. reader = Idle
  BY <1>1 DEF Reader
<1>3. Frozen <= Len(head.block) + 1 /\ Len(head.block) \in Nat /\ Frozen \in Nat
      /\ Len(head.fast) \in Nat
  BY <1>1, IdleFacts, NumberFacts
<1>4. ~ full
  BY <1>3
<1>5. CASE ~ fast
  <2>1. head' = head /\ rewind' = rewind
    BY <1>1, <1>4, <1>5
  <2>2. /\ Tip' = Tip /\ Frozen' = Frozen /\ Ancients' = Ancients /\ Durable' = Durable
        /\ Untouched' = Untouched /\ Reopened' = Reopened
    BY <1>1, <2>1 DEF Tip, Frozen, Ancients, Durable, Untouched, Reopened
  <2>3. Types' /\ OneChain' /\ ChainIsStored' /\ IndexIsUnique'
    BY <1>1, <2>1, <2>2 DEF Types, OneChain, ChainIsStored, IndexIsUnique
  <2>4. NotFarBeyond' /\ LaggingHeader' /\ LeftInIndex'
    BY <1>1, <2>1, <2>2 DEF NotFarBeyond, LaggingHeader, LeftInIndex
  <2>5. Round' /\ Rewind' /\ Thorough' /\ Reader'
    BY <1>1, <1>2, <2>1, <2>2 DEF Round, Rewind, Thorough, Reader
  <2> QED
    BY <2>3, <2>4, <2>5
<1>6. CASE fast
  <2>1. low = Len(head.fast)
    <3>1. low = Min({Len(head.fast)})
      BY <1>4, <1>6, ZenonT(60)
    <3>2. Min({Len(head.fast)}) \in {Len(head.fast)}
      <4>1. \E m \in {Len(head.fast)} : \A n \in {Len(head.fast)} : m <= n
        BY <1>3
      <4> QED
        BY <4>1 DEF Min
    <3> QED
      BY <3>1, <3>2
  <2>2. Len(head.fast) < Len(head.block)
    BY <1>3, <1>6
  <2>3. BeginRewind(Len(head.fast))
    <3> HIDE DEF full, fast, low
    <3> QED
      BY <1>1, <1>6, <2>1
  <2>4. rewind' = Rewinding(Len(head.fast), Frozen) /\ head' = head
    BY <1>3, <2>2, <2>3 DEF BeginRewind
  <2>5. Begins
    BY <1>1, <1>2 DEF Begins, Types
  <2> QED
    BY <1>1, <1>3, <2>2, <2>4, <2>5, BeginBelow
<1> QED
  BY <1>5, <1>6

\* SetHead in progress: the freezer and the lookups wait.
LEMMA RewindFacts ==
    ASSUME IInv, rewind # Idle
    PROVE  /\ rewind \in RewindTypes /\ freezing = Idle /\ reader = Idle
           /\ node \in {"repaired", "running"}
           /\ rewind.to \in Nat /\ rewind.frozen \in Nat /\ rewind.number \in Nat
           /\ rewind.origin \in BOOLEAN /\ rewind.doomed \subseteq Nat
           /\ rewind.step \in {"mark", "delete"}
  BY DEF IInv, Types, Round, Rewind, RewindTypes

\* The markers move to the parent of the last header, which is always there.
LEMMA RewindMarkKeeps ==
    ASSUME IInv, RewindMark
    PROVE  IInv'
<1> USE DEF IInv
<1> DEFINE h == Len(head.header)
           parent == Prefix(Tip, h - 1)
<1>1. rewind # Idle /\ rewind.step = "mark" /\ h > rewind.to
  BY DEF RewindMark, Idle
<1>2. /\ rewind \in RewindTypes /\ freezing = Idle /\ reader = Idle
      /\ rewind.to \in Nat /\ rewind.frozen \in Nat
      /\ node \in {"repaired", "running"}
  BY <1>1, RewindFacts
<1>3. /\ Frozen \in Nat /\ Len(head.block) \in Nat /\ h \in Nat /\ Len(Tip) \in Nat
      /\ Len(final) \in Nat /\ threshold \in Nat /\ Tip \in Blocks /\ head.header \in Blocks
      /\ h <= Len(Tip) /\ final \in Blocks
  BY TypeFacts, NumberFacts, TipFacts
<1>4. h - 1 \in Nat /\ h - 1 \in 0 .. h /\ h - 1 \in 0 .. Len(Tip) /\ h > 0
  BY <1>1, <1>2, <1>3
<1>5. Parent(head.header) = parent /\ Readable(parent) /\ parent \in Blocks /\ Len(parent) = h - 1
  <2>1. Parent(head.header) = Prefix(head.header, h - 1)
    BY DEF Parent
  <2>2. Prefix(head.header, h - 1) = parent
    BY <1>4, TipFacts
  <2> QED
    BY <1>4, <2>1, <2>2, TipIsReadable
<1> DEFINE lowered == Lowered(parent)
<1>6. /\ head' = [lowered EXCEPT !.header = parent]
      /\ rewind' = [rewind EXCEPT !.step = "delete", !.number = h,
                      !.to = IF MustForce(lowered.block, rewind.frozen)
                             THEN Min({@, Len(lowered.block)}) ELSE @]
      /\ UNCHANGED <<tables, kv, canon, states, freezing, node, reader, final,
                     rewinds, faults>>
  <2> HIDE DEF parent
  <2> QED
    BY <1>5 DEF RewindMark
<1>7. PICK j \in 0 .. h - 1 :
        /\ lowered.block = Prefix(Tip, j) /\ head'.block = lowered.block
        /\ head'.header = parent /\ head'.fast \in Blocks /\ DOMAIN head' = {"block", "fast", "header"}
        /\ head' = [block |-> lowered.block, fast |-> head'.fast, header |-> parent]
  <2>1. PICK k \in 0 .. h - 1 : WithState(parent) = Prefix(parent, k)
    BY <1>5, WithStateFacts
  <2>2. k \in 0 .. h - 1 /\ Prefix(parent, k) = Prefix(Tip, k)
    BY <1>3, <1>4, PrefixOfPrefix
  <2>3. head \in [block : Blocks, fast : Blocks, header : Blocks]
    BY DEF Types
  <2> DEFINE fast == IF Len(parent) < Len(head.fast)
                     THEN IF Readable(parent) THEN parent ELSE Genesis
                     ELSE head.fast
             block == IF Len(parent) <= Len(head.block) THEN WithState(parent) ELSE head.block
  <2>4. lowered = [head EXCEPT !.block = block, !.fast = fast]
    BY DEF Lowered
  <2>5. fast \in Blocks
    BY <1>5, <2>3
  <2>6. \E j \in 0 .. h - 1 : block = Prefix(Tip, j)
    <3>1. CASE Len(parent) <= Len(head.block)
      BY <2>1, <2>2, <3>1
    <3>2. CASE ~ (Len(parent) <= Len(head.block))
      <4>1. Len(head.block) \in 0 .. h - 1
        BY <1>3, <1>4, <1>5, <3>2
      <4>2. head.block = Prefix(Tip, Len(head.block))
        BY TipFacts
      <4> QED
        BY <3>2, <4>1, <4>2
    <3> QED
      BY <3>1, <3>2
  <2> HIDE DEF block, fast, parent
  <2>7. lowered = [block |-> block, fast |-> fast, header |-> head.header]
    BY <2>3, <2>4, ZenonT(60)
  <2> HIDE DEF lowered
  <2>8. head' = [block |-> block, fast |-> fast, header |-> parent]
    BY <1>6, <2>7
  <2> QED
    BY <2>5, <2>6, <2>7, <2>8
<1> HIDE DEF lowered, parent
<1>8. j \in Nat /\ j <= h - 1 /\ j \in 0 .. Len(Tip)
  BY <1>3, <1>4
<1>9. /\ OneChain' /\ ChainIsStored' /\ Len(head'.header) = h - 1 /\ Len(head'.block) = j
      /\ head'.header \in Blocks /\ head'.block \in Blocks /\ Len(Tip') = h - 1
  <2>1. h - 1 >= j
    BY <1>4, <1>8
  <2>2. Len(final) \in 0 .. Len(final) /\ final' = Prefix(final, Len(final))
    BY <1>3, <1>6, WholePrefix
  <2>3. head'.header = Prefix(Tip, h - 1)
    BY <1>7 DEF parent
  <2>4. head'.block = Prefix(Tip, j)
    BY <1>7
  <2>5. UNCHANGED <<tables, kv, canon>>
    BY <1>6
  <2> QED
    BY <1>4, <1>8, <2>1, <2>2, <2>3, <2>4, <2>5, MarkersMoveDown
<1>10. Len(lowered.block) = j
  BY <1>7, <1>9
<1> DEFINE to == IF MustForce(lowered.block, rewind.frozen)
                 THEN Min({rewind.to, j}) ELSE rewind.to
<1>11. to \in Nat /\ to <= rewind.to /\ (Frozen <= j + 1 \/ to <= j)
  <2>1. Frozen <= rewind.frozen
    BY <1>1 DEF Rewind
  <2>2. /\ Min({rewind.to, j}) \in Nat /\ Min({rewind.to, j}) <= rewind.to
        /\ Min({rewind.to, j}) <= j
    BY <1>2, <1>8, MinOfTwo
  <2>3. ~ MustForce(lowered.block, rewind.frozen) => Frozen <= j + 1
    BY <1>2, <1>3, <1>8, <1>10, <2>1 DEF MustForce
  <2> QED
    BY <1>2, <2>2, <2>3
<1>12. /\ rewind' \in RewindTypes /\ rewind'.step = "delete" /\ rewind'.number = h
       /\ rewind'.to = to /\ rewind'.frozen = rewind.frozen /\ rewind' # Idle
       /\ rewind'.origin = rewind.origin /\ rewind'.doomed = rewind.doomed
  <2>1. rewind' = [rewind EXCEPT !.step = "delete", !.number = h, !.to = to]
    BY <1>6, <1>10
  <2> HIDE DEF to
  <2> QED
    BY <1>2, <1>3, <1>11, <2>1, ZenonT(60) DEF RewindTypes, Idle
<1> HIDE DEF to
<1>13. Types'
  <2>1. head' \in [block : Blocks, fast : Blocks, header : Blocks]
    BY <1>7, <1>9
  <2>2. Frozen' = Frozen /\ Durable' = Durable
    BY <1>6 DEF Frozen, Durable
  <2> QED
    BY <1>6, <1>12, <2>1, <2>2 DEF Types, RewindTypes
<1>14. IndexIsUnique' /\ Round' /\ Reader'
  BY <1>2, <1>6 DEF IndexIsUnique, Round, Reader
<1>15. ~ Untouched' /\ (Reopened' <=> to <= Len(final))
  BY <1>6, <1>12 DEF Untouched, Reopened
<1>16. Frozen' = Frozen
  BY <1>6 DEF Frozen
<1>17. NotFarBeyond'
  <2> SUFFICES ASSUME ~ (to <= Len(final))
               PROVE  h - 1 <= Len(final) + threshold /\ Frozen <= Len(final) + 1
    BY <1>6, <1>9, <1>15, <1>16 DEF NotFarBeyond
  <2>1. ~ Reopened
    BY <1>2, <1>3, <1>11 DEF Reopened
  <2>2. Len(Tip) <= Len(final) + threshold /\ Frozen <= Len(final) + 1
    BY <2>1 DEF NotFarBeyond
  <2> QED
    BY <1>3, <2>2
<1>18. LaggingHeader' /\ LeftInIndex'
  BY <1>15 DEF LaggingHeader, LeftInIndex
<1>19. Rewind'
  <2>1. Frozen <= h + 1 /\ Frozen <= rewind.frozen /\ \A n \in rewind.doomed : n > h
    BY <1>1 DEF Rewind
  <2>2. \A n \in rewind.doomed : n > h - 1
    BY <1>2, <1>3, <2>1 DEF RewindTypes
  <2>3. h = h - 1 + 1 /\ j <= h - 1
    BY <1>3, <1>8
  <2> QED
    BY <1>2, <1>6, <1>9, <1>11, <1>12, <1>15, <1>16, <2>1, <2>2, <2>3 DEF Rewind
<1>20. Thorough'
  <2>1. /\ rewind.origin => \A c \in canon : \A k \in h + 1 .. Len(c) : \E b \in kv : Len(b) = k
        /\ ~ rewind.origin => \A c \in canon : Len(c) > h => Len(c) \in rewind.doomed
    BY <1>1 DEF Thorough
  <2> QED
    BY <1>6, <1>12, <2>1 DEF Thorough
<1> QED
  BY <1>9, <1>13, <1>14, <1>17, <1>18, <1>19, <1>20

\* The tables are cut, or the number is noted; the first time, with all that
\* follows it in the store.
LEMMA RewindDeleteKeeps ==
    ASSUME IInv, RewindDelete
    PROVE  IInv'
<1> USE DEF IInv
<1> DEFINE number == rewind.number
<1>1. rewind # Idle /\ rewind.step = "delete"
  BY DEF RewindDelete, Idle
<1>2. /\ rewind \in RewindTypes /\ freezing = Idle /\ reader = Idle
      /\ rewind.to \in Nat /\ rewind.frozen \in Nat /\ number \in Nat
      /\ rewind.doomed \subseteq Nat /\ rewind.origin \in BOOLEAN
      /\ node \in {"repaired", "running"}
  BY <1>1, RewindFacts
<1>3. /\ Frozen \in Nat /\ Durable \in Nat /\ Durable <= Frozen
      /\ Len(head.block) \in Nat /\ Len(head.header) \in Nat
      /\ Len(Tip) \in Nat /\ Len(final) \in Nat /\ threshold \in Nat
      /\ Ancients \in Seq(Blocks) /\ Frozen = Len(Ancients)
  BY TypeFacts, NumberFacts
<1>4. ~ Untouched
  BY <1>1 DEF Untouched, Idle
<1>5. /\ Frozen <= rewind.frozen
      /\ Frozen <= Len(head.block) + 1 \/ rewind.to <= Len(head.block)
      /\ Frozen <= number + 1 /\ number = Len(head.header) + 1
      /\ Len(head.block) <= Len(head.header)
      /\ \A n \in rewind.doomed : n > Len(head.header)
  BY <1>1, <1>4 DEF Rewind
<1>6. Len(Tip) = Len(head.header) /\ Len(Tip) < number
  BY <1>3, <1>5, TipFacts
<1>7. /\ rewind' = [rewind EXCEPT !.step = "mark", !.origin = FALSE,
                       !.doomed = @ \union Doomed(number)]
      /\ tables' = [k \in Kinds |-> IF number < Frozen THEN Ancient!CutTo(tables[k], number)
                                     ELSE tables[k]]
      /\ UNCHANGED <<kv, canon, states, head, freezing, node, reader, final,
                     rewinds, faults>>
  BY DEF RewindDelete
<1> DEFINE frozen == IF number < Frozen THEN number ELSE Frozen
           durable == IF number < Frozen /\ number < Durable THEN number ELSE Durable
<1>8. ASSUME NEW k \in Kinds
      PROVE  tables'[k] = [list |-> SubSeq(Ancients, 1, frozen), durable |-> durable]
  <2>1. tables[k] = [list |-> Ancients, durable |-> Durable]
    BY DEF Types, Ancients, Durable, Kinds
  <2>2. SubSeq(Ancients, 1, Frozen) = Ancients
    BY <1>3
  <2>3. CASE number < Frozen
    <3>1. ~ (Len(Ancients) <= number)
      BY <1>2, <1>3, <2>3
    <3>2. Ancient!Least(Durable, number) = durable
      BY <1>2, <1>3, <2>3 DEF Ancient!Least
    <3> HIDE DEF durable, number
    <3>3. Ancient!CutTo(tables[k], number)
            = [list |-> SubSeq(Ancients, 1, number), durable |-> durable]
      BY <2>1, <3>1, <3>2 DEF Ancient!CutTo
    <3> QED
      BY <1>7, <2>3, <3>3
  <2>4. CASE ~ (number < Frozen)
    BY <1>7, <2>1, <2>2, <2>4, ZenonT(60)
  <2> QED
    BY <2>3, <2>4
<1>9. /\ frozen \in Nat /\ frozen <= Frozen /\ frozen <= number
      /\ durable \in Nat /\ durable <= frozen
      /\ \A n \in Nat : n < number /\ n >= durable => n >= Durable
  BY <1>2, <1>3, <1>5
<1> HIDE DEF frozen, durable
<1>10. /\ SubSeq(Ancients, 1, frozen) \in Seq(Blocks) /\ Len(SubSeq(Ancients, 1, frozen)) = frozen
       /\ \A i \in 1 .. frozen : SubSeq(Ancients, 1, frozen)[i] = Ancients[i]
  BY <1>3, <1>9
<1>11. /\ Ancients' = SubSeq(Ancients, 1, frozen) /\ Frozen' = frozen /\ Durable' = durable
       /\ Tip' = Tip
  BY <1>7, <1>8, <1>10 DEF Ancients, Frozen, Durable, Tip, Kinds
<1>12. Doomed(number) \subseteq Nat /\ number \in Doomed(number)
       /\ \A n \in Doomed(number) : n >= number
  <2>1. Numbers \subseteq Nat
    BY BlockLen DEF Numbers
  <2>2. /\ number \in Doomed(number)
        /\ \A n \in Doomed(number) : n = number \/ (n \in Numbers /\ n > number)
    BY DEF Doomed
  <2>3. /\ Doomed(number) \subseteq Nat
        /\ \A n \in Doomed(number) : n >= number
    <3> SUFFICES ASSUME NEW n \in Doomed(number)
                 PROVE  n \in Nat /\ n >= number
      OBVIOUS
    <3>1. n = number \/ (n \in Nat /\ n > number)
      BY <2>1, <2>2
    <3>2. number \in Nat
      BY <1>2
    <3> HIDE DEF number
    <3> QED
      BY <3>1, <3>2
  <2> QED
    BY <2>2, <2>3
<1>13. /\ rewind' \in RewindTypes /\ rewind'.step = "mark" /\ ~ rewind'.origin
       /\ rewind'.to = rewind.to /\ rewind'.frozen = rewind.frozen /\ rewind' # Idle
       /\ rewind'.doomed = rewind.doomed \union Doomed(number)
  <2>1. rewind.doomed \union Doomed(number) \in SUBSET Nat
    BY <1>2, <1>12
  <2> QED
    BY <1>2, <1>7, <2>1, ZenonT(60) DEF RewindTypes, Idle
<1>14. Types'
  <2>1. tables' \in [Kinds -> [list : Seq(Blocks), durable : Nat]]
    <3> DEFINE cut == [list |-> SubSeq(Ancients, 1, frozen), durable |-> durable]
    <3>1. cut \in [list : Seq(Blocks), durable : Nat]
      BY <1>9, <1>10
    <3>2. tables' = [k \in Kinds |-> cut]
      BY <1>7, <1>8, ZenonT(60)
    <3> HIDE DEF cut
    <3> QED
      BY <3>1, <3>2
  <2>2. tables'["rest"] = tables'["hashes"]
    BY <1>8 DEF Kinds
  <2> QED
    BY <1>7, <1>9, <1>11, <1>13, <2>1, <2>2 DEF Types, RewindTypes
<1>15. OneChain' /\ IndexIsUnique' /\ Round' /\ Reader'
  BY <1>2, <1>7, <1>11 DEF OneChain, IndexIsUnique, Round, Reader
<1>16. ChainIsStored'
  <2> SUFFICES ASSUME NEW n \in 0 .. Len(Tip)
               PROVE  /\ n < frozen => Ancients'[n + 1] = Prefix(Tip, n)
                      /\ n = 0 \/ n >= durable => Prefix(Tip, n) \in kv \intersect canon
    BY <1>7, <1>11, ZenonT(60) DEF ChainIsStored
  <2>1. n \in Nat /\ n < number
    BY <1>2, <1>3, <1>6
  <2>2. n < frozen => n + 1 \in 1 .. frozen /\ n < Frozen
    BY <1>3, <1>9, <2>1
  <2> QED
    BY <1>9, <1>10, <1>11, <2>1, <2>2 DEF ChainIsStored
<1>17. ~ Untouched' /\ Reopened' = Reopened
  <2>1. ~ Untouched'
    BY <1>13 DEF Untouched
  <2> QED
    BY <1>1, <1>4, <1>7, <1>13, <2>1 DEF Reopened
<1>18. NotFarBeyond' /\ LaggingHeader' /\ LeftInIndex'
  <2>1. NotFarBeyond'
    BY <1>3, <1>7, <1>9, <1>11, <1>17 DEF NotFarBeyond
  <2> QED
    BY <1>17, <2>1 DEF LaggingHeader, LeftInIndex
<1>19. Rewind'
  <2>1. /\ frozen <= rewind.frozen /\ frozen <= Len(head.header) + 1
        /\ frozen <= Len(head.block) + 1 \/ rewind.to <= Len(head.block)
    BY <1>2, <1>3, <1>5, <1>9
  <2>2. \A n \in rewind.doomed \union Doomed(number) : n > Len(head.header)
    BY <1>2, <1>3, <1>5, <1>12
  <2> QED
    BY <1>2, <1>5, <1>7, <1>11, <1>13, <1>17, <2>1, <2>2 DEF Rewind
<1>20. Thorough'
  <2> SUFFICES ASSUME NEW c \in canon, Len(c) > Len(head.header)
               PROVE  Len(c) \in rewind.doomed \union Doomed(number)
    BY <1>7, <1>13 DEF Thorough
  <2>1. c \in Blocks /\ Len(c) \in Nat /\ Len(c) \in Numbers
    BY TypeFacts DEF Numbers
  <2>2. CASE Len(c) = number
    BY <1>12, <2>2
  <2>3. CASE Len(c) # number
    <3>1. Len(c) > number
      BY <1>3, <1>5, <2>1, <2>3
    <3>2. CASE rewind.origin
      <4>1. \A k \in number + 1 .. Len(c) : \E b \in kv : Len(b) = k
        BY <1>1, <3>2 DEF Thorough
      <4> QED
        BY <2>1, <3>1, <3>2, <4>1 DEF Doomed
    <3>3. CASE ~ rewind.origin
      BY <1>1, <3>1, <3>3 DEF Thorough
    <3> QED
      BY <3>2, <3>3
  <2> QED
    BY <2>2, <2>3
<1> QED
  BY <1>14, <1>15, <1>16, <1>18, <1>19, <1>20

\* The batch is written: nothing of the chain is in it, and nothing is left in
\* the index above the header.
LEMMA RewindFlushKeeps ==
    ASSUME IInv, RewindFlush
    PROVE  IInv'
<1> USE DEF IInv
<1>1. rewind # Idle /\ rewind.step = "mark" /\ Len(head.header) <= rewind.to
  BY DEF RewindFlush, Idle
<1>2. /\ rewind \in RewindTypes /\ freezing = Idle /\ reader = Idle
      /\ rewind.to \in Nat /\ rewind.doomed \subseteq Nat
  BY <1>1, RewindFacts
<1>3. /\ Frozen \in Nat /\ Len(head.block) \in Nat /\ Len(head.header) \in Nat
      /\ Len(Tip) \in Nat /\ Len(final) \in Nat /\ threshold \in Nat
  BY NumberFacts
<1>4. /\ kv' = Without(kv, rewind.doomed) /\ canon' = Without(canon, rewind.doomed)
      /\ rewind' = Idle
      /\ UNCHANGED <<tables, states, head, freezing, node, reader, final, rewinds, faults>>
  BY DEF RewindFlush
<1>5. /\ Tip' = Tip /\ Frozen' = Frozen /\ Ancients' = Ancients /\ Durable' = Durable
      /\ Untouched' /\ ~ Reopened'
  BY <1>4 DEF Tip, Frozen, Ancients, Durable, Untouched, Reopened
<1>6. kv' \subseteq kv /\ canon' \subseteq canon
  BY <1>4 DEF Without
<1>7. Types' /\ OneChain' /\ IndexIsUnique' /\ Round' /\ Thorough' /\ Reader'
  BY <1>2, <1>4, <1>5, <1>6
  DEF Types, OneChain, IndexIsUnique, Round, Thorough, Reader
<1>8. /\ Frozen <= Len(head.block) + 1 \/ rewind.to <= Len(head.block)
      /\ Frozen <= Len(head.header) + 1
      /\ ~ Untouched => Len(head.block) <= Len(head.header)
      /\ \A n \in rewind.doomed : n > Len(head.header)
      /\ Untouched => rewind.doomed = {}
  BY <1>1 DEF Rewind
<1>9. Rewind'
  <2>1. Frozen <= Len(head.block) + 1
    BY <1>1, <1>2, <1>3, <1>8
  <2> QED
    BY <1>4, <1>5, <2>1 DEF Rewind
<1>10. CASE Untouched
  <2>1. kv' = kv /\ canon' = canon
    BY <1>4, <1>8, <1>10 DEF Without
  <2>2. ~ Reopened
    BY <1>1, <1>2, <1>3, <1>10 DEF Reopened
  <2>3. ChainIsStored' /\ NotFarBeyond' /\ LaggingHeader' /\ LeftInIndex'
    BY <1>4, <1>5, <1>10, <2>1, <2>2
    DEF ChainIsStored, NotFarBeyond, LaggingHeader, LeftInIndex
  <2> QED
    BY <1>7, <1>9, <2>3
<1>11. CASE ~ Untouched
  <2>1. Len(Tip) = Len(head.header)
    BY <1>3, <1>8, <1>11, TipFacts
  <2>2. ChainIsStored'
    <3> SUFFICES ASSUME NEW n \in 0 .. Len(Tip)
                 PROVE  /\ n < Frozen => Ancients[n + 1] = Prefix(Tip, n)
                        /\ n = 0 \/ n >= Durable => Prefix(Tip, n) \in kv' \intersect canon'
      BY <1>5 DEF ChainIsStored
    <3>1. Len(Prefix(Tip, n)) = n /\ n \in Nat
      BY TipFacts, PrefixFacts, ZenonT(60)
    <3>2. n \notin rewind.doomed
      BY <1>3, <1>8, <2>1, <3>1
    <3> QED
      BY <1>4, <3>1, <3>2 DEF ChainIsStored, Without
  <2>3. NotFarBeyond'
    <3>1. Len(Tip) <= Len(final) + threshold /\ Frozen <= Len(final) + 1
      <4>1. CASE Reopened
        <5>1. rewind.to <= Len(final)
          BY <4>1 DEF Reopened
        <5> QED
          BY <1>1, <1>2, <1>3, <1>8, <2>1, <5>1
      <4>2. CASE ~ Reopened
        BY <4>2 DEF NotFarBeyond
      <4> QED
        BY <4>1, <4>2
    <3> QED
      BY <1>4, <1>5, <3>1 DEF NotFarBeyond
  <2>4. LaggingHeader'
    BY <1>3, <1>4, <1>8, <1>11 DEF LaggingHeader
  <2>5. LeftInIndex'
    <3>1. ASSUME NEW c \in canon', Len(c) > Len(head.header) PROVE FALSE
      <4>1. c \in canon /\ Len(c) \notin rewind.doomed
        BY <1>4 DEF Without
      <4>2. ~ rewind.origin
        BY <1>1, <1>11 DEF Untouched
      <4>3. Len(c) \in rewind.doomed
        BY <1>1, <3>1, <4>1, <4>2 DEF Thorough
      <4> QED
        BY <4>1, <4>3
    <3> QED
      BY <1>5, <2>1, <3>1 DEF LeftInIndex
  <2> QED
    BY <1>7, <1>9, <2>2, <2>3, <2>4, <2>5
<1> QED
  BY <1>10, <1>11
-----------------------------------------------------------------------------
(***************************************************************************)
(* The theorems.                                                           *)
(***************************************************************************)

\* Every step keeps the invariant.
LEMMA NextKeeps ==
    ASSUME Orderly, IInv, [Next]_vars
    PROVE  IInv'
<1>1. ASSUME NEW b \in Blocks, Import(b) PROVE IInv'
  BY <1>1, ImportKeeps
<1>2. CASE FreezeStart
  BY <1>2, FreezeStartKeeps
<1>3. CASE FreezeBlock
  BY <1>3, FreezeBlockKeeps
<1>4. CASE FreezeSync \/ FreezeFail
  <2>1. /\ freezing.step = "append" /\ SyncTables
        /\ faults' = faults \/ (faults < MaxFaults /\ faults' = faults + 1)
    BY <1>4 DEF FreezeSync, FreezeFail
  <2>2. faults \in 0 .. MaxFaults /\ MaxFaults \in Nat
    BY ConstantFacts DEF IInv, Types
  <2>3. faults' \in 0 .. MaxFaults
    BY <2>1, <2>2
  <2> QED
    BY <2>1, <2>3, SyncTablesKeeps
<1>5. CASE FreezeWipe
  BY <1>5, FreezeWipeKeeps
<1>6. CASE FreezeSides
  BY <1>6, FreezeSidesKeeps
<1>7. CASE FreezeDangling
  BY <1>7, FreezeDanglingKeeps
<1>8. ASSUME NEW n \in Numbers, SetHead(n) PROVE IInv'
  BY <1>8, SetHeadKeeps
<1>9. CASE RewindMark
  BY <1>9, RewindMarkKeeps
<1>10. CASE RewindDelete
  BY <1>10, RewindDeleteKeeps
<1>11. CASE RewindFlush
  BY <1>11, RewindFlushKeeps
<1>12. CASE Crash
  BY <1>12, CrashKeeps
<1>13. CASE StartLoad
  BY <1>13, StartLoadKeeps
<1>14. CASE StartRepair
  BY <1>14, StartRepairKeeps
<1>15. CASE StartTruncate
  BY <1>15, StartTruncateKeeps
<1>16. ASSUME NEW n \in Numbers, ReadTables(n) PROVE IInv'
  BY <1>16, ReadTablesKeeps
<1>17. CASE ReadStore
  BY <1>17, ReadStoreKeeps
<1>18. CASE ReadAgain
  BY <1>18, ReadAgainKeeps
<1>19. CASE UNCHANGED vars
  <2>1. ReadOnly /\ reader' = reader
    BY <1>19 DEF vars, ReadOnly
  <2>2. Reader'
    BY <2>1 DEF IInv, Reader, ReadOnly, InTables, Lost, Frozen, Ancients
  <2>3. /\ reader = Idle \/ reader \in [step : {"store", "again"}, block : Blocks]
        /\ rewind # Idle => reader = Idle
    BY DEF IInv, Types, Rewind
  <2> QED
    BY <2>1, <2>2, <2>3, ReadOnlyKeeps
<1> QED
  BY <1>1, <1>2, <1>3, <1>4, <1>5, <1>6, <1>7, <1>8, <1>9, <1>10, <1>11, <1>12,
     <1>13, <1>14, <1>15, <1>16, <1>17, <1>18, <1>19
  DEF Next, FreezeStep, RewindStep, StartStep

\* The invariant always holds in a node in which SetHead and the freezer take
\* turns and which does not die within SetHead.
THEOREM FreezerInvariance == Orderly => (Spec => []IInv)
<1> SUFFICES ASSUME Orderly PROVE Spec => []IInv
  OBVIOUS
<1>1. IInv /\ [Next]_vars => IInv'
  BY NextKeeps
<1> QED
  BY <1>1, InitInv, PTL DEF Spec

\* Whatever was frozen, wiped, lost in a crash and repaired, the chain of the
\* head is complete: a lookup by number or by hash (ReadCanonicalHash,
\* ReadHeaderRLP) finds the head's ancestor.
THEOREM ChainStaysReadable == Orderly => (Spec => []ChainIsReadable)
<1>1. IInv => ChainIsReadable
  BY InvImpliesSafety
<1> QED
  BY <1>1, FreezerInvariance, PTL

\* After any number of crashes NewDatabaseWithFreezer finds no gap between the
\* tables and the store, and loadLastState finds the head.
THEOREM NodeAlwaysStarts == Orderly => (Spec => []NodeStarts)
<1>1. IInv => NodeStarts
  BY InvImpliesSafety
<1> QED
  BY <1>1, FreezerInvariance, PTL

\* The tables hold only blocks that will not be reorganised, although freeze
\* computes the limit of a round before it reads the blocks.
THEOREM FrozenIsFinal == Orderly => (Spec => []AncientsAreFinal)
<1>1. IInv => AncientsAreFinal
  BY InvImpliesSafety
<1> QED
  BY <1>1, FreezerInvariance, PTL

\* When SetHead has returned, or NewBlockChain has, the tables do not reach
\* beyond the head.
THEOREM TablesEndAtHead == Orderly => (Spec => []NoExtraAncients)
<1>1. IInv => NoExtraAncients
  BY InvImpliesSafety
<1> QED
  BY <1>1, FreezerInvariance, PTL

\* A lookup that reads the tables, the store and the tables again finds its block
\* wherever the freezer is.
THEOREM LookupsSucceed == Orderly => (Spec => []NoMissedRead)
<1>1. IInv => NoMissedRead
  BY InvImpliesSafety
<1> QED
  BY <1>1, FreezerInvariance, PTL
=============================================================================
