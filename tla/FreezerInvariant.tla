-------------------------- MODULE FreezerInvariant --------------------------
(***************************************************************************)
(* The inductive invariant of module Freezer, for a node in which SetHead  *)
(* does not run during a round of the freezer and does not die within      *)
(* SetHead; what it implies; and that it holds at the start and is kept by *)
(* Import, by the lookups, by a crash and by the first step of the start.  *)
(* Module FreezerProofs does the same for the freezer, SetHead and the     *)
(* rest of the start, and has the theorems.                                *)
(***************************************************************************)
EXTENDS Freezer, Integers, TLAPS

\* Min of two numbers.
LEMMA MinOfTwo ==
    ASSUME NEW m \in Nat, NEW n \in Nat
    PROVE  /\ Min({m, n}) \in Nat
           /\ Min({m, n}) = IF m <= n THEN m ELSE n
<1>1. Min({m, n}) \in {m, n} /\ Min({m, n}) <= m /\ Min({m, n}) <= n
  <2>1. \E k \in {m, n} : \A i \in {m, n} : k <= i
    OBVIOUS
  <2> QED
    BY <2>1 DEF Min
<1> QED
  BY <1>1
-----------------------------------------------------------------------------
\* Each leaf is tried by Zenon for a moment, then with more time than by default.
USE ZenonT(2), SMTT(120), ZenonT(60)

\* What the theorems are about: SetHead and the freezer take turns, and the
\* node does not die within SetHead.
Orderly == ~ RewindWhileFreezing /\ ~ CrashInRewind

Ancients == tables["hashes"].list
Durable == tables["hashes"].durable

\* The longer of the two chains that the markers name.
Tip == IF Len(head.header) >= Len(head.block) THEN head.header ELSE head.block

-----------------------------------------------------------------------------
(***************************************************************************)
(* The inductive invariant.                                                *)
(***************************************************************************)

Types ==
    /\ tables \in [Kinds -> [list : Seq(Blocks), durable : Nat]]
    /\ tables["rest"] = tables["hashes"]
    /\ Durable <= Frozen
    /\ kv \subseteq Blocks /\ canon \subseteq Blocks /\ states \subseteq Blocks
    /\ head \in [block : Blocks, fast : Blocks, header : Blocks]
    /\ \/ freezing = Idle
       \/ freezing \in [step : {"append", "wipe", "sides", "dangling"},
                        first : Nat, limit : Nat, ancients : Seq(Blocks),
                        dangling : SUBSET Blocks]
    /\ \/ rewind = Idle
       \/ rewind \in [step : {"mark", "delete"}, to : Nat, frozen : Nat,
                      origin : BOOLEAN, number : Nat, doomed : SUBSET Nat]
    /\ node \in {"opened", "loaded", "repaired", "running"}
    /\ \/ reader = Idle
       \/ reader \in [step : {"store", "again"}, block : Blocks]
    /\ final \in Blocks
    /\ rewinds \in 0 .. MaxRewinds /\ faults \in 0 .. MaxFaults

\* The markers name one chain, which agrees with the final one.
OneChain == Agree(head.header, head.block) /\ Agree(Tip, final)

\* The tables hold that chain from genesis on, and the store holds what the
\* tables may lose in a crash, and genesis.
ChainIsStored ==
    \A n \in 0 .. Len(Tip) :
        /\ n < Frozen => Ancients[n + 1] = Prefix(Tip, n)
        /\ n = 0 \/ n >= Durable => Prefix(Tip, n) \in kv \intersect canon

\* The index has one block for a number.
IndexIsUnique == \A b, c \in canon : Len(b) = Len(c) => b = c

\* Nothing of SetHead's work was done yet.
Untouched == rewind = Idle \/ (rewind.step = "mark" /\ rewind.origin)

\* SetHead is going to cut what is not final.
Reopened == /\ rewind # Idle /\ rewind.to <= Len(final)
            /\ Untouched => Len(head.header) > rewind.to

\* The chain is at most threshold longer than the final one, and no more than
\* the final one is in the tables.
NotFarBeyond ==
    ~ Reopened => /\ Len(Tip) <= Len(final) + threshold
                  /\ Frozen <= Len(final) + 1

\* A last header that is behind the last block is still beyond the final chain.
LaggingHeader ==
    Untouched /\ ~ Reopened /\ Len(head.header) < Len(head.block) =>
        Len(final) < Len(head.header) /\ IsAncestor(final, head.block)

\* What the index still has above the chain was reorganised out of it.
LeftInIndex ==
    Untouched /\ ~ Reopened =>
        \A c \in canon : Len(c) > Len(Tip) =>
            /\ Len(final) < Len(head.header)
            /\ IsAncestor(final, c)
            /\ Len(c) <= Len(final) + threshold
            /\ \A k \in Len(final) + 1 .. Len(c) : Prefix(c, k) \in kv
            /\ \A k \in Len(Tip) + 1 .. Len(c) : \E d \in canon : Len(d) = k

\* A round of the freezer.
Lost(b) == \E n \in 0 .. Len(b) : n < Frozen /\ Ancients[n + 1] # Prefix(b, n)

Round ==
    freezing # Idle =>
        /\ rewind = Idle
        /\ freezing.first + Len(freezing.ancients) = Frozen
        /\ \A i \in 1 .. Len(freezing.ancients) :
              freezing.ancients[i] = Ancients[freezing.first + i]
        /\ freezing.step = "append" => freezing.limit + threshold <= Len(head.block)
        /\ freezing.step # "append" => Durable = Frozen
        /\ freezing.step = "sides" =>
              \A n \in freezing.first .. Frozen - 1 : n # 0 => Ancients[n + 1] \notin kv
        /\ freezing.step = "dangling" =>
              \A d \in freezing.dangling : Len(d) = Frozen - 1 /\ d # Ancients[Frozen]

\* SetHead in progress.
Rewind ==
    /\ rewind = Idle => Frozen <= Len(head.block) + 1
    /\ rewind # Idle =>
        /\ reader = Idle /\ node \in {"repaired", "running"}
        /\ Frozen <= rewind.frozen
        /\ Frozen <= Len(head.block) + 1 \/ rewind.to <= Len(head.block)
        /\ rewind.step = "mark" => Frozen <= Len(head.header) + 1
        /\ rewind.step = "delete" => /\ Frozen <= rewind.number + 1
                                     /\ rewind.number = Len(head.header) + 1
        /\ ~ Untouched => Len(head.block) <= Len(head.header)
        /\ \A n \in rewind.doomed : n > Len(head.header)
        /\ Untouched => rewind.doomed = {}

\* All that SetHead has to delete is going to be deleted: once the first number
\* is, what the index has above the header, and before, it follows in the store.
Thorough ==
    rewind # Idle =>
        LET top == IF rewind.step = "mark" THEN Len(head.header) ELSE rewind.number
        IN IF rewind.origin
           THEN \A c \in canon : \A k \in top + 1 .. Len(c) : \E b \in kv : Len(b) = k
           ELSE \A c \in canon : Len(c) > top => Len(c) \in rewind.doomed

\* A lookup finds its block unless the block's chain was abandoned.
Reader ==
    /\ node # "running" => reader = Idle
    /\ reader # Idle =>
        \/ reader.step = "store" /\ reader.block \in kv
        \/ InTables(reader.block)
        \/ Lost(reader.block)

IInv == /\ Types /\ OneChain /\ ChainIsStored /\ IndexIsUnique /\ NotFarBeyond
        /\ LaggingHeader /\ LeftInIndex /\ Round /\ Rewind /\ Thorough /\ Reader
-----------------------------------------------------------------------------
(***************************************************************************)
(* Blocks and their prefixes.                                              *)
(***************************************************************************)

\* Sequences of one length are the same when they agree everywhere.
LEMMA SameSequence ==
    ASSUME NEW S, NEW s \in Seq(S), NEW t \in Seq(S), Len(s) = Len(t),
           \A i \in 1 .. Len(s) : s[i] = t[i]
    PROVE  s = t
  OBVIOUS

\* A block is a sequence, and its prefixes are blocks.
LEMMA PrefixFacts ==
    ASSUME NEW b \in Blocks, NEW n \in 0 .. Len(b)
    PROVE  /\ b \in Seq(Nat) /\ Len(b) \in Nat /\ n \in Nat
           /\ Prefix(b, n) \in Blocks /\ Len(Prefix(b, n)) = n
           /\ \A i \in 1 .. n : Prefix(b, n)[i] = b[i]
<1>1. b \in Seq(Nat)
  BY FreezerAssumption
<1> QED
  BY <1>1, FreezerAssumption DEF Prefix

\* The types of the numeric constants.
LEMMA ConstantFacts ==
    /\ threshold \in Nat /\ freezerBatchLimit \in Nat
    /\ MaxRewinds \in Nat /\ MaxFaults \in Nat
  BY FreezerAssumption

\* The number of a block is its length.
LEMMA BlockLen == \A b \in Blocks : b \in Seq(Nat) /\ Len(b) \in Nat
  BY FreezerAssumption

\* Two blocks of one length are the same when they agree everywhere.
LEMMA SameBlock ==
    ASSUME NEW b \in Blocks, NEW c \in Blocks, Len(b) = Len(c),
           \A i \in 1 .. Len(b) : b[i] = c[i]
    PROVE  b = c
<1>1. b \in Seq(Nat) /\ c \in Seq(Nat)
  BY BlockLen
<1> QED
  BY <1>1, SameSequence

\* A block is its own longest prefix.
LEMMA WholePrefix == \A b \in Blocks : Prefix(b, Len(b)) = b
<1> SUFFICES ASSUME NEW b \in Blocks PROVE Prefix(b, Len(b)) = b
  BY Zenon
<1>1. Len(b) \in 0 .. Len(b)
  BY BlockLen
<1> QED
  BY <1>1, PrefixFacts, SameBlock

\* The prefix of a prefix.
LEMMA PrefixOfPrefix ==
    ASSUME NEW b \in Blocks, NEW n \in 0 .. Len(b), NEW m \in 0 .. n
    PROVE  Prefix(Prefix(b, n), m) = Prefix(b, m)
<1>1. n \in Nat /\ m \in 0 .. Len(b) /\ Prefix(b, n) \in Blocks /\ Len(Prefix(b, n)) = n
  BY PrefixFacts, BlockLen
<1>2. /\ Prefix(Prefix(b, n), m) \in Blocks /\ Len(Prefix(Prefix(b, n), m)) = m
      /\ \A i \in 1 .. m : Prefix(Prefix(b, n), m)[i] = Prefix(b, n)[i]
  BY <1>1, PrefixFacts
<1>3. /\ Prefix(b, m) \in Blocks /\ Len(Prefix(b, m)) = m
      /\ \A i \in 1 .. m : Prefix(b, m)[i] = b[i]
  BY <1>1, PrefixFacts
<1>4. \A i \in 1 .. n : Prefix(b, n)[i] = b[i]
  BY PrefixFacts
<1> QED
  BY <1>1, <1>2, <1>3, <1>4, SameBlock

\* Chains that share a prefix share every shorter one.
LEMMA ShorterPrefix ==
    ASSUME NEW b \in Blocks, NEW c \in Blocks, NEW n \in 0 .. Len(b), n <= Len(c),
           Prefix(b, n) = Prefix(c, n), NEW m \in 0 .. n
    PROVE  Prefix(b, m) = Prefix(c, m)
<1>1. n \in 0 .. Len(c)
  BY BlockLen
<1> QED
  BY <1>1, PrefixOfPrefix

\* Chains agree when they are the same up to the end of the shorter one.
LEMMA AgreeFacts ==
    ASSUME NEW b \in Blocks, NEW c \in Blocks
    PROVE  /\ Agree(b, c) <=> Agree(c, b)
           /\ Agree(b, c) => \A n \in 0 .. Len(b) : n <= Len(c) => Prefix(b, n) = Prefix(c, n)
           /\ Len(b) <= Len(c) /\ b = Prefix(c, Len(b)) => Agree(b, c)
           /\ Agree(b, c) /\ Len(b) <= Len(c) => b = Prefix(c, Len(b)) /\ IsAncestor(b, c)
<1>1. Len(b) \in Nat /\ Len(c) \in Nat /\ Prefix(b, Len(b)) = b /\ Prefix(c, Len(c)) = c
  BY BlockLen, WholePrefix
<1>2. ASSUME Agree(b, c), NEW n \in 0 .. Len(b), n <= Len(c)
      PROVE  Prefix(b, n) = Prefix(c, n)
  <2>1. CASE IsAncestor(b, c)
    <3>1. Len(b) <= Len(c) /\ b = Prefix(c, Len(b))
      BY <2>1 DEF IsAncestor
    <3> QED
      BY <1>1, <1>2, <3>1, PrefixOfPrefix
  <2>2. CASE IsAncestor(c, b)
    <3>1. Len(c) <= Len(b) /\ c = Prefix(b, Len(c))
      BY <2>2 DEF IsAncestor
    <3>2. n \in 0 .. Len(c)
      BY <1>1, <1>2
    <3> QED
      BY <1>1, <3>1, <3>2, PrefixOfPrefix
  <2> QED
    BY <1>2, <2>1, <2>2 DEF Agree
<1>3. ASSUME Agree(b, c), Len(b) <= Len(c) PROVE b = Prefix(c, Len(b)) /\ IsAncestor(b, c)
  <2>1. b = Prefix(c, Len(b))
    BY <1>1, <1>2, <1>3
  <2> QED
    BY <2>1, <1>3 DEF IsAncestor
<1> QED
  BY <1>2, <1>3 DEF IsAncestor, Agree
-----------------------------------------------------------------------------
(***************************************************************************)
(* What the invariant says about the chain.                                *)
(***************************************************************************)

\* The types in the form that the provers use.
LEMMA TypeFacts ==
    ASSUME Types
    PROVE  /\ Ancients \in Seq(Blocks) /\ Frozen \in Nat /\ Frozen = Len(Ancients)
           /\ Durable \in Nat /\ Durable <= Frozen
           /\ \A n \in Nat : n < Frozen => Ancients[n + 1] \in Blocks
           /\ head.block \in Blocks /\ head.header \in Blocks /\ head.fast \in Blocks
           /\ final \in Blocks
           /\ Len(head.block) \in Nat /\ Len(head.header) \in Nat /\ Len(head.fast) \in Nat
           /\ Len(final) \in Nat
           /\ \A b \in canon : b \in Blocks /\ Len(b) \in Nat
           /\ \A b \in kv : b \in Blocks /\ Len(b) \in Nat
           /\ \A b : InTables(b) <=> Len(b) < Frozen /\ Ancients[Len(b) + 1] = b
<1>1. Ancients \in Seq(Blocks) /\ Frozen = Len(Ancients) /\ Durable \in Nat
  BY DEF Types, Ancients, Frozen, Durable, Kinds
<1>2. Frozen \in Nat /\ \A n \in Nat : n < Frozen => Ancients[n + 1] \in Blocks
  BY <1>1
<1>3. /\ head.block \in Blocks /\ head.header \in Blocks /\ head.fast \in Blocks
      /\ final \in Blocks /\ Durable <= Frozen
      /\ kv \subseteq Blocks /\ canon \subseteq Blocks
  BY DEF Types
<1>4. \A b : InTables(b) <=> Len(b) < Frozen /\ Ancients[Len(b) + 1] = b
  BY DEF Types, InTables, Kinds, Frozen, Ancients
<1> QED
  BY <1>1, <1>2, <1>3, <1>4, BlockLen

\* The numbers among them.
LEMMA NumberFacts ==
    ASSUME Types
    PROVE  /\ Frozen \in Nat /\ Durable \in Nat /\ Durable <= Frozen
           /\ Len(head.block) \in Nat /\ Len(head.header) \in Nat /\ Len(head.fast) \in Nat
           /\ Len(final) \in Nat /\ Len(Tip) \in Nat
           /\ threshold \in Nat /\ freezerBatchLimit \in Nat
           /\ MaxRewinds \in Nat /\ MaxFaults \in Nat
  BY TypeFacts, ConstantFacts DEF Tip

\* Both markers, and the final chain, are on the chain of the tip.
LEMMA TipFacts ==
    ASSUME Types, OneChain
    PROVE  /\ Tip \in Blocks /\ Len(Tip) \in Nat
           /\ Len(head.header) <= Len(Tip) /\ Len(head.block) <= Len(Tip)
           /\ Tip = head.header \/ Tip = head.block
           /\ head.header = Prefix(Tip, Len(head.header))
           /\ head.block = Prefix(Tip, Len(head.block))
           /\ \A n \in 0 .. Len(head.block) : Prefix(head.block, n) = Prefix(Tip, n)
           /\ \A n \in 0 .. Len(head.header) : Prefix(head.header, n) = Prefix(Tip, n)
           /\ \A n \in 0 .. Len(final) : n <= Len(Tip) => Prefix(final, n) = Prefix(Tip, n)
<1>1. /\ head.block \in Blocks /\ head.header \in Blocks /\ final \in Blocks
      /\ Len(head.block) \in Nat /\ Len(head.header) \in Nat /\ Len(final) \in Nat
  BY TypeFacts
<1>2. /\ Tip \in Blocks /\ Len(Tip) \in Nat
      /\ Len(head.header) <= Len(Tip) /\ Len(head.block) <= Len(Tip)
      /\ Tip = head.header \/ Tip = head.block
  BY <1>1 DEF Tip
<1>3. Agree(head.header, head.block) /\ Agree(head.block, head.header) /\ Agree(Tip, final)
  BY <1>1, AgreeFacts DEF OneChain
<1>4. Agree(head.header, Tip) /\ Agree(head.block, Tip) /\ Agree(final, Tip)
  <2>1. \A b \in Blocks : Agree(b, b)
    BY BlockLen, WholePrefix, AgreeFacts
  <2> QED
    BY <1>1, <1>2, <1>3, <2>1, AgreeFacts
<1>5. head.header = Prefix(Tip, Len(head.header)) /\ head.block = Prefix(Tip, Len(head.block))
  BY <1>1, <1>2, <1>4, AgreeFacts
<1>6. /\ \A n \in 0 .. Len(head.block) : Prefix(head.block, n) = Prefix(Tip, n)
      /\ \A n \in 0 .. Len(head.header) : Prefix(head.header, n) = Prefix(Tip, n)
      /\ \A n \in 0 .. Len(final) : n <= Len(Tip) => Prefix(final, n) = Prefix(Tip, n)
  <2>1. \A n \in 0 .. Len(head.block) : n <= Len(Tip)
    BY <1>1, <1>2
  <2>2. \A n \in 0 .. Len(head.header) : n <= Len(Tip)
    BY <1>1, <1>2
  <2> QED
    BY <1>1, <1>2, <1>4, <2>1, <2>2, AgreeFacts
<1> QED
  BY <1>2, <1>5, <1>6

\* The chain of the tip can be read, by number and by hash.
LEMMA TipIsReadable ==
    ASSUME Types, OneChain, ChainIsStored, IndexIsUnique, NEW n \in 0 .. Len(Tip)
    PROVE  /\ Prefix(Tip, n) \in Blocks /\ Len(Prefix(Tip, n)) = n
           /\ Canonical(n) = {Prefix(Tip, n)}
           /\ Readable(Prefix(Tip, n))
           /\ n < Frozen => InTables(Prefix(Tip, n))
           /\ n >= Durable => Prefix(Tip, n) \in kv
<1>1. Prefix(Tip, n) \in Blocks /\ Len(Prefix(Tip, n)) = n /\ n \in Nat
  BY TipFacts, PrefixFacts
<1>2. /\ n < Frozen => Ancients[n + 1] = Prefix(Tip, n)
      /\ n >= Durable => Prefix(Tip, n) \in kv \intersect canon
  BY DEF ChainIsStored
<1>3. CASE n < Frozen
  <2>1. InTables(Prefix(Tip, n))
    BY <1>1, <1>2, <1>3, TypeFacts
  <2>2. Canonical(n) = {Prefix(Tip, n)}
    BY <1>2, <1>3 DEF Canonical, Ancients
  <2> QED
    BY <1>1, <1>2, <2>1, <2>2 DEF Readable
<1>4. CASE ~ (n < Frozen)
  <2>1. n >= Durable
    BY <1>1, <1>4, TypeFacts
  <2>2. Prefix(Tip, n) \in kv /\ Prefix(Tip, n) \in canon
    BY <1>2, <2>1
  <2>3. \A b \in canon : Len(b) = n => b = Prefix(Tip, n)
    BY <1>1, <2>2 DEF IndexIsUnique
  <2>4. {b \in canon : Len(b) = n} = {Prefix(Tip, n)}
    BY <1>1, <2>2, <2>3
  <2> QED
    BY <1>1, <1>4, <2>2, <2>4 DEF Readable, Canonical
<1> QED
  BY <1>3, <1>4

\* When SetHead is not running, the tables are a prefix of the head's chain and
\* of the final one, and the header is not behind them.
LEMMA IdleFacts ==
    ASSUME IInv, rewind = Idle
    PROVE  /\ Frozen <= Len(head.block) + 1 /\ Frozen <= Len(final) + 1
           /\ Frozen <= Len(head.header) + 1 /\ Frozen <= Len(Tip) + 1
           /\ Len(Tip) <= Len(final) + threshold
           /\ \A n \in Nat : n < Frozen => /\ Ancients[n + 1] = Prefix(Tip, n)
                                          /\ Ancients[n + 1] = Prefix(head.block, n)
                                          /\ Ancients[n + 1] = Prefix(final, n)
                                          /\ Len(Ancients[n + 1]) = n
<1> USE DEF IInv
<1>1. ~ Reopened /\ Untouched
  BY DEF Reopened, Untouched
<1>2. /\ Frozen <= Len(head.block) + 1 /\ Frozen <= Len(final) + 1
      /\ Len(Tip) <= Len(final) + threshold
  BY <1>1 DEF Rewind, NotFarBeyond
<1>3. Frozen <= Len(head.header) + 1
  <2>1. CASE Len(head.header) < Len(head.block)
    BY <1>1, <1>2, <2>1, TypeFacts DEF LaggingHeader
  <2>2. CASE ~ (Len(head.header) < Len(head.block))
    BY <1>2, <2>2, TypeFacts
  <2> QED
    BY <2>1, <2>2
<1>4. Frozen <= Len(Tip) + 1
  BY <1>2, TypeFacts, TipFacts
<1>5. ASSUME NEW n \in Nat, n < Frozen
      PROVE  /\ Ancients[n + 1] = Prefix(Tip, n)
             /\ Ancients[n + 1] = Prefix(head.block, n)
             /\ Ancients[n + 1] = Prefix(final, n)
             /\ Len(Ancients[n + 1]) = n
  <2>1. n \in 0 .. Len(Tip) /\ n \in 0 .. Len(head.block) /\ n \in 0 .. Len(final)
    BY <1>2, <1>4, <1>5, TypeFacts, TipFacts
  <2>2. Ancients[n + 1] = Prefix(Tip, n) /\ Len(Prefix(Tip, n)) = n
    BY <1>5, <2>1, TipFacts, PrefixFacts DEF ChainIsStored
  <2> QED
    BY <2>1, <2>2, TipFacts
<1> QED
  BY <1>2, <1>3, <1>4, <1>5

\* The index has a block for every number from the tables up to the last one.
LEMMA NoGapInIndex ==
    ASSUME IInv, rewind = Idle, NEW c \in canon, NEW k \in Nat, k >= Frozen, k <= Len(c)
    PROVE  \E d \in canon : Len(d) = k
<1> USE DEF IInv
<1>1. /\ Frozen \in Nat /\ Durable \in Nat /\ Durable <= Frozen /\ Len(c) \in Nat
      /\ Tip \in Blocks /\ Len(Tip) \in Nat
  BY TypeFacts, TipFacts
<1>2. CASE k <= Len(Tip)
  <2>1. k \in 0 .. Len(Tip) /\ k >= Durable
    BY <1>1, <1>2
  <2>2. Prefix(Tip, k) \in canon /\ Len(Prefix(Tip, k)) = k
    BY <1>1, <2>1, PrefixFacts DEF ChainIsStored
  <2> QED
    BY <2>2
<1>3. CASE k > Len(Tip)
  <2>1. k \in Len(Tip) + 1 .. Len(c) /\ Len(c) > Len(Tip)
    BY <1>1, <1>3
  <2> QED
    BY <2>1 DEF LeftInIndex, Untouched, Reopened
<1> QED
  BY <1>1, <1>2, <1>3
-----------------------------------------------------------------------------
(***************************************************************************)
(* Import.                                                                 *)
(***************************************************************************)

\* How the new chain, the old one, the final one and the tables compare.
LEMMA AdoptFacts ==
    ASSUME IInv, rewind = Idle, NEW b \in Blocks, b # Genesis, Agree(b, final),
           Len(b) >= Len(head.block), Readable(b) => Len(b) > Len(head.block)
    PROVE  /\ Len(b) \in Added(b) /\ \A n \in Added(b) : n \in 1 .. Len(b)
           /\ \A n \in 0 .. Len(b) : n \notin Added(b) =>
                 n < Len(b) /\ n <= Len(head.block) /\ Prefix(b, n) = Prefix(Tip, n)
           /\ \A n \in Dropped(b) : n \in Nat /\ n >= Len(b)
           /\ \A n \in 0 .. Len(b) : n < Frozen => Ancients[n + 1] = Prefix(b, n)
           /\ Parent(b) = head.block =>
                 Added(b) = {Len(b)} /\ Dropped(b) = {} /\ Len(b) = Len(head.block) + 1
           /\ Len(b) \notin Changed(b) => /\ Changed(b) = {} /\ Parent(b) = head.block
                                          /\ {c \in canon : Len(c) = Len(b)} = {b}
<1> USE DEF IInv
<1>1. /\ Frozen \in Nat /\ Len(head.block) \in Nat /\ Len(Tip) \in Nat /\ Len(final) \in Nat
      /\ head.block \in Blocks /\ Tip \in Blocks /\ final \in Blocks
      /\ Len(head.block) <= Len(Tip) /\ head.block = Prefix(Tip, Len(head.block))
  BY TypeFacts, TipFacts
<1>2. /\ Len(b) \in Nat /\ Len(b) # 0 /\ Len(b) - 1 \in 0 .. Len(b)
      /\ Parent(b) \in Blocks /\ Len(Parent(b)) = Len(b) - 1 /\ Prefix(b, Len(b)) = b
  <2>1. b \in Seq(Nat) /\ Len(b) \in Nat
    BY BlockLen
  <2>2. Len(b) # 0
    BY <2>1 DEF Genesis
  <2>3. Len(b) - 1 \in 0 .. Len(b)
    BY <2>1, <2>2
  <2> QED
    BY <2>1, <2>2, <2>3, PrefixFacts, WholePrefix DEF Parent
<1>3. \A n \in 0 .. Len(b) : IsAncestor(Prefix(b, n), head.block) <=>
                                 n <= Len(head.block) /\ Prefix(b, n) = Prefix(head.block, n)
  BY PrefixFacts DEF IsAncestor
<1>4. /\ Len(b) \in Added(b)
      /\ \A n \in Added(b) : n \in 1 .. Len(b) /\ n \in 0 .. Len(b)
  BY <1>2 DEF Added
<1>5. ASSUME NEW n \in 0 .. Len(b), n \notin Added(b)
      PROVE  n < Len(b) /\ n <= Len(head.block) /\ Prefix(b, n) = Prefix(Tip, n)
  <2>1. n < Len(b) /\ n \in Nat
    BY <1>2, <1>4, <1>5
  <2>2. n <= Len(head.block) /\ Prefix(b, n) = Prefix(head.block, n)
    <3>1. CASE n = 0
      <4>1. 0 \in 0 .. Len(b) /\ 0 \in 0 .. Len(head.block)
        BY <1>1, <1>2
      <4>2. /\ Prefix(b, 0) \in Blocks /\ Len(Prefix(b, 0)) = 0
            /\ Prefix(head.block, 0) \in Blocks /\ Len(Prefix(head.block, 0)) = 0
        BY <1>1, <4>1, PrefixFacts
      <4> QED
        BY <1>1, <3>1, <4>2, SameBlock
    <3>2. CASE n # 0
      <4>1. n \in 1 .. Len(b)
        BY <2>1, <3>2
      <4> QED
        BY <1>3, <1>5, <4>1 DEF Added
    <3> QED
      BY <3>1, <3>2
  <2>3. n \in 0 .. Len(head.block)
    BY <1>1, <2>1, <2>2
  <2> QED
    BY <2>1, <2>2, <2>3, TipFacts
<1>6. Readable(head.block) /\ b # head.block /\ Canonical(Len(head.block)) = {head.block}
  <2>1. Len(head.block) \in 0 .. Len(Tip)
    BY <1>1
  <2>2. Readable(head.block) /\ Canonical(Len(head.block)) = {head.block}
    BY <1>1, <2>1, TipIsReadable
  <2> QED
    BY <1>1, <2>2
<1>7. /\ Parent(b) = head.block => Dropped(b) = {}
      /\ IsAncestor(Parent(b), head.block) /\ Parent(b) # head.block =>
            Len(b) = Len(head.block) /\ Dropped(b) = Above(Len(b))
      /\ ~ IsAncestor(Parent(b), head.block) => Dropped(b) = Above(Len(b) - 1)
  <2>1. ASSUME Parent(b) = head.block PROVE IsAncestor(Parent(b), head.block)
    BY <1>1, <2>1, WholePrefix DEF IsAncestor
  <2>2. ASSUME IsAncestor(Parent(b), head.block), Parent(b) # head.block
        PROVE  Len(b) = Len(head.block)
    <3>1. Len(b) - 1 <= Len(head.block) /\ Parent(b) = Prefix(head.block, Len(b) - 1)
      BY <1>2, <2>2 DEF IsAncestor
    <3>2. Len(b) - 1 # Len(head.block)
      BY <1>1, <2>2, <3>1, WholePrefix
    <3> QED
      BY <1>1, <1>2, <3>1, <3>2
  <2> QED
    BY <2>1, <2>2 DEF Dropped
<1>8. ASSUME NEW n \in Dropped(b) PROVE n \in Nat /\ n >= Len(b)
  <2>1. \A k \in Nat : \A i \in Above(k) : i \in Nat /\ i > k
    BY BlockLen DEF Above, Numbers
  <2>2. Dropped(b) = {} \/ Dropped(b) = Above(Len(b)) \/ Dropped(b) = Above(Len(b) - 1)
    BY <1>7
  <2> QED
    BY <1>2, <2>1, <2>2
<1>9. ASSUME NEW n \in 0 .. Len(b), n < Frozen PROVE Ancients[n + 1] = Prefix(b, n)
  <2>1. Frozen <= Len(final) + 1
    BY IdleFacts
  <2>2. n \in Nat /\ n <= Len(final)
    BY <1>1, <1>9, <2>1
  <2>3. Ancients[n + 1] = Prefix(final, n)
    BY <1>9, <2>2, IdleFacts
  <2> QED
    BY <1>1, <2>2, <2>3, AgreeFacts
<1>10. ASSUME Parent(b) = head.block
       PROVE  Added(b) = {Len(b)} /\ Dropped(b) = {} /\ Len(b) = Len(head.block) + 1
  <2>1. ASSUME NEW n \in Added(b) PROVE n = Len(b)
    <3> SUFFICES ASSUME n # Len(b) PROVE FALSE
      OBVIOUS
    <3>1. n \in 0 .. Len(b) - 1 /\ n \in 0 .. Len(b) /\ n <= Len(head.block)
      BY <1>2, <1>4, <1>10
    <3>2. Prefix(head.block, n) = Prefix(b, n)
      BY <1>2, <1>10, <3>1, PrefixOfPrefix DEF Parent
    <3> QED
      BY <1>3, <3>1, <3>2 DEF Added
  <2> QED
    BY <1>1, <1>2, <1>4, <1>7, <1>10, <2>1
<1>11. ASSUME Len(b) \notin Changed(b)
       PROVE  Changed(b) = {} /\ Parent(b) = head.block /\ {c \in canon : Len(c) = Len(b)} = {b}
  <2>1. Canonical(Len(b)) = {b} /\ (Len(b) < Frozen \/ Len(b) \notin Dropped(b))
    BY <1>1, <1>2, <1>4, <1>11 DEF Changed
  <2>2. Len(b) # Len(head.block)
    BY <1>6, <2>1
  <2>3. Frozen <= Len(head.block) + 1 /\ ~ (Len(b) < Frozen)
    BY <1>1, <1>2, <2>2, IdleFacts
  <2>4. Parent(b) = head.block
    <3> SUFFICES ASSUME Parent(b) # head.block PROVE FALSE
      OBVIOUS
    <3>1. Dropped(b) = Above(Len(b) - 1)
      BY <1>7, <2>2
    <3>2. Len(b) \in Above(Len(b) - 1)
      <4>1. \A k \in Len(b) - 1 + 1 .. Len(b) : k = Len(b)
        BY <1>2
      <4>2. Len(b) \in Numbers /\ Len(b) > Len(b) - 1
        BY <1>2 DEF Numbers
      <4> QED
        BY <2>1, <4>1, <4>2 DEF Above
    <3> QED
      BY <2>1, <2>3, <3>1, <3>2
  <2>5. Changed(b) = {}
    BY <1>10, <1>11, <2>4 DEF Changed
  <2> QED
    BY <2>1, <2>3, <2>4, <2>5 DEF Canonical
<1> QED
  BY <1>4, <1>5, <1>8, <1>9, <1>10, <1>11

\* What Import has to establish anew.
Chains == /\ OneChain /\ ChainIsStored /\ IndexIsUnique /\ NotFarBeyond
          /\ LaggingHeader /\ LeftInIndex

\* The index has the new block already: only the block marker moves.
LEMMA AdoptKnown ==
    ASSUME IInv, rewind = Idle, rewind' = Idle, tables' = tables,
           NEW b \in Blocks, b # Genesis, Agree(b, final),
           Len(b) >= Len(head.block), Readable(b) => Len(b) > Len(head.block),
           Len(b) \notin Changed(b), kv' = kv \union {b}, Adopt(b)
    PROVE  /\ canon' = canon /\ final' = final /\ Chains'
           /\ head' = [block |-> b, fast |-> head.fast, header |-> head.header]
<1> USE DEF IInv
<1>1. /\ Frozen \in Nat /\ Len(head.block) \in Nat /\ Len(head.header) \in Nat
      /\ Len(Tip) \in Nat /\ Len(final) \in Nat /\ threshold \in Nat
      /\ head.block \in Blocks /\ head.header \in Blocks /\ Tip \in Blocks
      /\ Len(head.block) <= Len(Tip) /\ Len(head.header) <= Len(Tip)
      /\ Tip = head.header \/ Tip = head.block
      /\ head.header = Prefix(Tip, Len(head.header))
      /\ Len(b) \in Nat /\ Prefix(b, Len(b)) = b /\ Len(b) \in 0 .. Len(b)
  BY TypeFacts, NumberFacts, TipFacts, BlockLen, WholePrefix
<1>2. /\ Added(b) = {Len(b)} /\ Dropped(b) = {} /\ Changed(b) = {}
      /\ Len(b) = Len(head.block) + 1 /\ b \in canon
      /\ {c \in canon : Len(c) = Len(b)} = {b}
  BY AdoptFacts
<1>3. \A n \in 0 .. Len(b) : n <= Len(Tip) => Prefix(b, n) = Prefix(Tip, n)
  <2> SUFFICES ASSUME NEW n \in 0 .. Len(b), n <= Len(Tip) PROVE Prefix(b, n) = Prefix(Tip, n)
    OBVIOUS
  <2>1. CASE n \notin Added(b)
    BY <2>1, AdoptFacts
  <2>2. CASE n \in Added(b)
    <3>1. n = Len(b) /\ n \in 0 .. Len(Tip)
      BY <1>1, <1>2, <2>2
    <3>2. ~ (n < Frozen)
      BY <1>1, <1>2, <3>1, IdleFacts
    <3>3. Canonical(n) = {b}
      BY <1>2, <3>1, <3>2 DEF Canonical
    <3>4. Canonical(n) = {Prefix(Tip, n)}
      BY <3>1, TipIsReadable
    <3> QED
      BY <1>1, <3>1, <3>3, <3>4
  <2> QED
    BY <2>1, <2>2
<1>4. canon' = canon
  <2>1. {Prefix(b, n) : n \in Added(b)} = {b}
    BY <1>1, <1>2
  <2>2. canon' = Without(canon, {Len(b)}) \union {b}
    BY <1>2, <2>1 DEF Adopt
  <2>3. \A c \in canon : Len(c) = Len(b) => c = b
    BY <1>2
  <2> QED
    BY <1>2, <2>2, <2>3 DEF Without
<1>5. head' = [block |-> b, fast |-> head.fast, header |-> head.header]
  <2>1. head' = [head EXCEPT !.block = b]
    BY <1>2 DEF Adopt
  <2> QED
    BY <2>1 DEF Types
<1>6. Frozen' = Frozen /\ Ancients' = Ancients /\ Durable' = Durable
  BY DEF Frozen, Ancients, Durable
<1>7. Tip' = IF Len(head.header) >= Len(b) THEN head.header ELSE b
  BY <1>5 DEF Tip
<1>8. ~ Reopened /\ Untouched /\ ~ Reopened' /\ Untouched'
  BY DEF Reopened, Untouched
<1>9. Agree(head.header, b) /\ Agree(b, head.header)
  <2>1. CASE Len(head.header) <= Len(b)
    <3>1. Len(head.header) \in 0 .. Len(b)
      BY <1>1, <2>1
    <3>2. head.header = Prefix(b, Len(head.header))
      BY <1>1, <1>3, <3>1
    <3> QED
      BY <1>1, <2>1, <3>2, AgreeFacts
  <2>2. CASE Len(head.header) > Len(b)
    <3>1. Len(b) <= Len(Tip) /\ Len(b) \in 0 .. Len(head.header)
      BY <1>1, <2>2
    <3>2. b = Prefix(Tip, Len(b)) /\ Prefix(head.header, Len(b)) = Prefix(Tip, Len(b))
      BY <1>1, <1>3, <3>1, TipFacts
    <3> QED
      BY <1>1, <2>2, <3>2, AgreeFacts
  <2> QED
    BY <1>1, <2>1, <2>2
<1>10. IndexIsUnique'
  BY <1>4 DEF IndexIsUnique
<1>11. CASE Len(b) <= Len(head.header)
  <2>1. Tip = head.header /\ Tip' = head.header
    BY <1>1, <1>2, <1>7, <1>11 DEF Tip
  <2>2. Len(Tip) <= Len(final) + threshold
    BY IdleFacts
  <2>3. final' = final
    BY <1>1, <1>11, <2>1, <2>2 DEF Adopt
  <2>4. OneChain'
    BY <1>5, <1>9, <2>1, <2>3 DEF OneChain
  <2>5. ChainIsStored'
    BY <1>4, <1>6, <2>1 DEF ChainIsStored
  <2>6. NotFarBeyond'
    BY <1>6, <1>8, <2>1, <2>3 DEF NotFarBeyond
  <2>7. LaggingHeader'
    BY <1>1, <1>5, <1>11 DEF LaggingHeader
  <2>8. LeftInIndex'
    BY <1>4, <1>5, <1>8, <2>1, <2>3 DEF LeftInIndex
  <2> QED
    BY <1>4, <1>5, <1>10, <2>3, <2>4, <2>5, <2>6, <2>7, <2>8 DEF Chains
<1>12. CASE Len(b) > Len(head.header)
  <2>1. Tip' = b /\ Len(b) > Len(Tip) /\ Len(b) = Len(Tip) + 1
    BY <1>1, <1>2, <1>7, <1>12 DEF Tip
  <2>2. /\ Len(final) < Len(head.header) /\ IsAncestor(final, b)
        /\ Len(b) <= Len(final) + threshold
        /\ \A k \in Len(final) + 1 .. Len(b) : Prefix(b, k) \in kv
    BY <1>2, <1>8, <2>1 DEF LeftInIndex
  <2>3. final' = final
    BY <1>1, <2>2 DEF Adopt
  <2>4. OneChain'
    BY <1>5, <1>9, <2>1, <2>3 DEF OneChain
  <2>5. ChainIsStored'
    <3> SUFFICES ASSUME NEW n \in 0 .. Len(b)
                 PROVE  /\ n < Frozen => Ancients[n + 1] = Prefix(b, n)
                        /\ n = 0 \/ n >= Durable => Prefix(b, n) \in kv' \intersect canon
      BY <1>4, <1>6, <2>1 DEF ChainIsStored
    <3>1. n < Frozen => Ancients[n + 1] = Prefix(b, n)
      BY AdoptFacts
    <3>2. CASE n <= Len(Tip)
      <4>1. n \in 0 .. Len(Tip)
        BY <1>1, <3>2
      <4> QED
        BY <1>3, <3>1, <3>2, <4>1 DEF ChainIsStored
    <3>3. CASE n > Len(Tip)
      <4>1. n = Len(b) /\ n # 0
        BY <1>1, <2>1, <3>3
      <4> QED
        BY <1>1, <1>2, <3>1, <4>1
    <3> QED
      BY <1>1, <3>2, <3>3
  <2>6. NotFarBeyond'
    <3>1. Frozen <= Len(final) + 1
      BY IdleFacts
    <3> QED
      BY <1>6, <2>1, <2>2, <2>3, <3>1 DEF NotFarBeyond
  <2>7. LaggingHeader'
    BY <1>5, <2>2, <2>3 DEF LaggingHeader
  <2>8. LeftInIndex'
    <3> SUFFICES ASSUME NEW c \in canon, Len(c) > Len(b)
                 PROVE  /\ Len(final) < Len(head.header) /\ IsAncestor(final, c)
                        /\ Len(c) <= Len(final) + threshold
                        /\ \A k \in Len(final) + 1 .. Len(c) : Prefix(c, k) \in kv
                        /\ \A k \in Len(b) + 1 .. Len(c) : \E d \in canon : Len(d) = k
      BY <1>4, <1>5, <2>1, <2>3 DEF LeftInIndex
    <3>1. Len(c) \in Nat /\ Len(c) > Len(Tip)
      BY <1>1, <2>1, TypeFacts
    <3>2. \A k \in Len(b) + 1 .. Len(c) : k \in Len(Tip) + 1 .. Len(c)
      BY <1>1, <2>1, <3>1
    <3> QED
      BY <1>8, <3>1, <3>2 DEF LeftInIndex
  <2> QED
    BY <1>4, <1>5, <1>10, <2>3, <2>4, <2>5, <2>6, <2>7, <2>8 DEF Chains
<1> QED
  BY <1>1, <1>11, <1>12

\* What is left in the index above the new block when it follows the old head.
LEMMA AdoptLeaves ==
    ASSUME IInv, rewind = Idle, NEW b \in Blocks, Agree(b, final),
           Canonical(Len(b)) # {b}, Len(b) = Len(head.block) + 1,
           NEW c \in canon, Len(c) > Len(b)
    PROVE  /\ Len(final) < Len(b) /\ IsAncestor(final, c)
           /\ Len(c) <= Len(final) + threshold
           /\ \A k \in Len(final) + 1 .. Len(c) : Prefix(c, k) \in kv
           /\ \A k \in Len(b) + 1 .. Len(c) : \E d \in canon : Len(d) = k
<1> USE DEF IInv
<1>1. /\ Frozen \in Nat /\ Durable \in Nat /\ Durable <= Frozen
      /\ Len(head.block) \in Nat /\ Len(head.header) \in Nat
      /\ Len(Tip) \in Nat /\ Len(final) \in Nat /\ threshold \in Nat
      /\ Tip \in Blocks /\ final \in Blocks /\ Len(head.header) <= Len(Tip)
      /\ Len(b) \in Nat /\ c \in Blocks /\ Len(c) \in Nat
  BY TypeFacts, NumberFacts, TipFacts, BlockLen
<1>2. /\ Frozen <= Len(head.block) + 1 /\ Frozen <= Len(final) + 1
      /\ Len(Tip) <= Len(final) + threshold /\ ~ Reopened /\ Untouched
  BY IdleFacts DEF Reopened, Untouched
<1>3. Len(b) <= Len(Tip) => Len(final) < Len(b)
  <2> SUFFICES ASSUME Len(b) <= Len(Tip), Len(b) <= Len(final) PROVE FALSE
    BY <1>1
  <2>1. Len(b) \in 0 .. Len(b) /\ Len(b) \in 0 .. Len(final) /\ Len(b) \in 0 .. Len(Tip)
    BY <1>1
  <2>2. b = Prefix(final, Len(b)) /\ Prefix(final, Len(b)) = Prefix(Tip, Len(b))
    BY <1>1, <2>1, AgreeFacts, TipFacts
  <2> QED
    BY <2>1, <2>2, TipIsReadable
<1>4. ASSUME NEW k \in Len(b) + 1 .. Len(c) PROVE \E d \in canon : Len(d) = k
  <2>1. k \in Nat /\ k >= Frozen /\ k <= Len(c)
    BY <1>1, <1>2
  <2> QED
    BY <2>1, NoGapInIndex
<1>5. CASE Len(c) > Len(Tip)
  <2>1. /\ Len(final) < Len(head.header) /\ IsAncestor(final, c)
        /\ Len(c) <= Len(final) + threshold
        /\ \A k \in Len(final) + 1 .. Len(c) : Prefix(c, k) \in kv
    BY <1>2, <1>5 DEF LeftInIndex
  <2>2. Len(final) < Len(b)
    BY <1>1, <1>3, <2>1
  <2> QED
    BY <1>4, <2>1, <2>2
<1>6. CASE Len(c) <= Len(Tip)
  <2>1. /\ Len(b) <= Len(Tip) /\ Len(final) < Len(b) /\ ~ (Len(c) < Frozen)
        /\ Len(c) <= Len(final) + threshold
    BY <1>1, <1>2, <1>3, <1>6
  <2>2. /\ Len(final) \in 0 .. Len(final) /\ Len(final) <= Len(c) /\ Len(final) <= Len(Tip)
        /\ Len(c) \in 0 .. Len(Tip) /\ Len(final) \in 0 .. Len(c)
    BY <1>1, <1>6, <2>1
  <2>3. c = Prefix(Tip, Len(c))
    <3>1. Canonical(Len(c)) = {Prefix(Tip, Len(c))}
      BY <2>2, TipIsReadable
    <3> QED
      BY <2>1, <3>1 DEF Canonical
  <2>4. \A k \in 0 .. Len(c) : Prefix(c, k) = Prefix(Tip, k)
    BY <1>1, <2>2, <2>3, PrefixOfPrefix
  <2>5. IsAncestor(final, c)
    <3>1. final = Prefix(final, Len(final)) /\ Prefix(final, Len(final)) = Prefix(Tip, Len(final))
      BY <1>1, <2>2, WholePrefix, TipFacts
    <3> QED
      BY <2>2, <2>4, <3>1 DEF IsAncestor
  <2>6. ASSUME NEW k \in Len(final) + 1 .. Len(c) PROVE Prefix(c, k) \in kv
    <3>1. k \in 0 .. Len(c) /\ k \in 0 .. Len(Tip) /\ k >= Durable
      BY <1>1, <1>2, <1>6
    <3> QED
      BY <2>4, <3>1, TipIsReadable
  <2> QED
    BY <1>4, <2>1, <2>5, <2>6
<1> QED
  BY <1>1, <1>5, <1>6

\* Unless it follows the old head, nothing is left above the new block.
LEMMA AdoptClears ==
    ASSUME IInv, rewind = Idle, NEW b \in Blocks, b # Genesis,
           Len(b) >= Len(head.block), Parent(b) # head.block,
           NEW c \in canon, Len(c) > Len(b)
    PROVE  Len(c) \in Dropped(b)
<1> USE DEF IInv
<1>1. /\ Frozen \in Nat /\ Len(head.block) \in Nat /\ Len(b) \in Nat
      /\ c \in Blocks /\ Len(c) \in Nat
  BY TypeFacts, BlockLen
<1>2. Len(b) - 1 \in Nat
  <2>1. b \in Seq(Nat)
    BY BlockLen
  <2>2. Len(b) # 0
    BY <2>1 DEF Genesis
  <2> QED
    BY <1>1, <2>2
<1>3. ASSUME NEW k \in Nat, k <= Len(c) PROVE Canonical(k) # {}
  <2>1. CASE k < Frozen
    BY <2>1 DEF Canonical
  <2>2. CASE ~ (k < Frozen)
    <3>1. \E d \in canon : Len(d) = k
      BY <1>1, <1>3, <2>2, NoGapInIndex
    <3> QED
      BY <2>2, <3>1 DEF Canonical
  <2> QED
    BY <2>1, <2>2
<1>4. ASSUME NEW n \in Nat, n <= Len(b) PROVE Len(c) \in Above(n)
  <2>1. Len(c) \in Numbers /\ Len(c) > n
    BY <1>1, <1>4 DEF Numbers
  <2>2. \A m \in n + 1 .. Len(c) : m \in Nat /\ m <= Len(c)
    BY <1>1, <1>4
  <2> QED
    BY <1>3, <2>1, <2>2 DEF Above
<1>5. Dropped(b) = Above(Len(head.block)) \/ Dropped(b) = Above(Len(b) - 1)
  BY DEF Dropped
<1> QED
  BY <1>1, <1>2, <1>4, <1>5

\* Otherwise the header marker moves to the new block too.
LEMMA AdoptNew ==
    ASSUME IInv, rewind = Idle, rewind' = Idle, tables' = tables,
           NEW b \in Blocks, b # Genesis, Agree(b, final),
           Len(b) >= Len(head.block), Readable(b) => Len(b) > Len(head.block),
           ReorgFinds(b), Len(b) \in Changed(b), kv' = kv \union {b}, Adopt(b)
    PROVE  /\ canon' \subseteq Blocks /\ final' \in Blocks /\ Chains'
           /\ head' = [block |-> b, fast |-> b, header |-> b]
<1> USE DEF IInv
<1>1. /\ Frozen \in Nat /\ Len(head.block) \in Nat /\ Len(Tip) \in Nat /\ Len(final) \in Nat
      /\ threshold \in Nat /\ Len(b) \in Nat /\ final \in Blocks /\ Tip \in Blocks
      /\ Len(head.block) <= Len(Tip) /\ Prefix(b, Len(b)) = b
  BY TypeFacts, NumberFacts, TipFacts, BlockLen, WholePrefix
<1>2. /\ Len(b) \in Added(b) /\ \A n \in Added(b) : n \in 1 .. Len(b)
      /\ \A n \in 0 .. Len(b) : n \notin Added(b) =>
            n < Len(b) /\ n <= Len(head.block) /\ Prefix(b, n) = Prefix(Tip, n)
      /\ \A n \in Dropped(b) : n \in Nat /\ n >= Len(b)
  BY AdoptFacts
<1>3. head' = [block |-> b, fast |-> b, header |-> b]
  <2>1. PICK n \in Changed(b) :
             /\ \A m \in Changed(b) : m <= n
             /\ head' = [block |-> b, fast |-> Prefix(b, n), header |-> Prefix(b, n)]
    BY DEF Adopt
  <2>2. n \in 1 .. Len(b) /\ Len(b) <= n
    BY <1>2, <2>1 DEF Changed
  <2>3. n = Len(b)
    BY <1>1, <2>2
  <2> QED
    BY <1>1, <2>1, <2>3
<1>4. Tip' = b /\ Frozen' = Frozen /\ Ancients' = Ancients /\ Durable' = Durable
  BY <1>3 DEF Tip, Frozen, Ancients, Durable
<1>5. ~ Reopened /\ Untouched /\ ~ Reopened' /\ Untouched'
  BY DEF Reopened, Untouched
<1>6. \A n \in 0 .. Len(b) : Prefix(b, n) \in Blocks /\ Len(Prefix(b, n)) = n
  BY PrefixFacts
<1>7. /\ \A c \in canon' : /\ Len(c) \notin Added(b) => c \in canon /\ Len(c) \notin Dropped(b)
                           /\ Len(c) \in Added(b) => c = Prefix(b, Len(c))
                           /\ c \in Blocks
      /\ \A n \in Added(b) : Prefix(b, n) \in canon'
      /\ \A c \in canon : Len(c) \notin Added(b) \union Dropped(b) => c \in canon'
  <2>1. canon' = Without(canon, Added(b) \union Dropped(b)) \union {Prefix(b, n) : n \in Added(b)}
    BY DEF Adopt
  <2>2. \A n \in Added(b) : Prefix(b, n) \in Blocks /\ Len(Prefix(b, n)) = n
    BY <1>1, <1>2, <1>6
  <2>3. canon \subseteq Blocks
    BY DEF Types
  <2> QED
    BY <2>1, <2>2, <2>3 DEF Without
<1>8. /\ final' \in Blocks /\ Agree(b, final') /\ Len(final') \in Nat
      /\ Len(final') >= Len(final) /\ Len(b) <= Len(final') + threshold
      /\ Len(b) <= Len(final) + threshold => final' = final
  <2>1. CASE Len(b) > threshold + Len(final)
    <3>1. Len(b) - threshold \in 0 .. Len(b) /\ Len(b) - threshold >= Len(final)
      BY <1>1, <2>1
    <3>2. final' = Prefix(b, Len(b) - threshold)
      BY <2>1 DEF Adopt
    <3>3. final' \in Blocks /\ Len(final') = Len(b) - threshold
      BY <1>6, <3>1, <3>2
    <3>4. Len(final') <= Len(b) /\ final' = Prefix(b, Len(final'))
      BY <1>1, <3>1, <3>2, <3>3
    <3>5. Agree(b, final')
      BY <3>3, <3>4, AgreeFacts
    <3> QED
      BY <1>1, <2>1, <3>1, <3>3, <3>5
  <2>2. CASE ~ (Len(b) > threshold + Len(final))
    BY <1>1, <2>2 DEF Adopt
  <2> QED
    BY <2>1, <2>2
<1>9. OneChain'
  <2>1. Agree(b, b)
    BY <1>1, AgreeFacts
  <2> QED
    BY <1>3, <1>4, <1>8, <2>1 DEF OneChain
<1>10. ChainIsStored'
  <2> SUFFICES ASSUME NEW n \in 0 .. Len(b)
               PROVE  /\ n < Frozen => Ancients[n + 1] = Prefix(b, n)
                      /\ n = 0 \/ n >= Durable => Prefix(b, n) \in kv' \intersect canon'
    BY <1>4 DEF ChainIsStored
  <2>1. n < Frozen => Ancients[n + 1] = Prefix(b, n)
    BY AdoptFacts
  <2>2. CASE n \notin Added(b)
    <3>1. n \in 0 .. Len(Tip) /\ Prefix(b, n) = Prefix(Tip, n) /\ Len(Prefix(b, n)) = n
      BY <1>1, <1>2, <1>6, <2>2
    <3>2. n \notin Dropped(b)
      BY <1>1, <1>2, <2>2
    <3>3. n = 0 \/ n >= Durable => Prefix(b, n) \in kv \intersect canon
      BY <3>1 DEF ChainIsStored
    <3> QED
      BY <1>7, <2>1, <2>2, <3>1, <3>2, <3>3
  <2>3. CASE n \in Added(b)
    <3>1. n # 0
      BY <1>2, <2>3
    <3>2. ASSUME n >= Durable PROVE Prefix(b, n) \in kv'
      <4>1. CASE n = Len(b)
        BY <1>1, <4>1
      <4>2. CASE n # Len(b)
        <5>1. Readable(Prefix(b, n))
          <6>1. n + 1 \in 0 .. Len(b) /\ n \in 0 .. n + 1 /\ n + 1 - 1 = n
            BY <1>1, <4>2
          <6>2. CASE n + 1 \in Added(b)
            BY <6>1, <6>2 DEF ReorgFinds
          <6>3. CASE n + 1 \notin Added(b)
            <7>1. n + 1 <= Len(Tip) /\ n \in 0 .. Len(Tip)
              BY <1>1, <1>2, <6>1, <6>3
            <7>2. Prefix(b, n) = Prefix(Tip, n)
              BY <1>1, <1>2, <6>1, <6>3, <7>1, ShorterPrefix
            <7> QED
              BY <7>1, <7>2, TipIsReadable
          <6> QED
            BY <6>2, <6>3
        <5>2. CASE InTables(Prefix(b, n))
          <6>1. n < Frozen
            BY <1>6, <5>2, TypeFacts
          <6>2. n \in Nat /\ n \in 0 .. Len(Tip)
            BY <1>1, <6>1, IdleFacts
          <6>3. Prefix(b, n) = Prefix(Tip, n)
            BY <2>1, <6>1, <6>2, IdleFacts
          <6> QED
            BY <3>2, <6>2, <6>3, TipIsReadable
        <5> QED
          BY <5>1, <5>2 DEF Readable
      <4> QED
        BY <4>1, <4>2
    <3> QED
      BY <1>7, <2>1, <2>3, <3>1, <3>2
  <2> QED
    BY <2>2, <2>3
<1>11. IndexIsUnique'
  <2> SUFFICES ASSUME NEW c \in canon', NEW d \in canon', Len(c) = Len(d) PROVE c = d
    BY DEF IndexIsUnique
  <2>1. CASE Len(c) \in Added(b)
    BY <1>7, <2>1
  <2>2. CASE Len(c) \notin Added(b)
    BY <1>7, <2>2 DEF IndexIsUnique
  <2> QED
    BY <2>1, <2>2
<1>12. NotFarBeyond'
  <2>1. Frozen <= Len(final) + 1
    BY IdleFacts
  <2>2. Frozen <= Len(final') + 1
    BY <1>1, <1>8, <2>1
  <2> QED
    BY <1>4, <1>8, <2>2 DEF NotFarBeyond
<1>13. LaggingHeader'
  BY <1>1, <1>3 DEF LaggingHeader
<1>14. LeftInIndex'
  <2> SUFFICES ASSUME NEW c \in canon', Len(c) > Len(b)
               PROVE  /\ Len(final') < Len(b) /\ IsAncestor(final', c)
                      /\ Len(c) <= Len(final') + threshold
                      /\ \A k \in Len(final') + 1 .. Len(c) : Prefix(c, k) \in kv
                      /\ \A k \in Len(b) + 1 .. Len(c) : \E d \in canon' : Len(d) = k
    BY <1>3, <1>4 DEF LeftInIndex
  <2>1. c \in Blocks /\ Len(c) \in Nat
    BY <1>7, BlockLen
  <2>2. Len(c) \notin Added(b)
    BY <1>1, <1>2, <2>1
  <2>3. c \in canon /\ Len(c) \notin Dropped(b)
    BY <1>7, <2>2
  <2>4. Parent(b) = head.block
    BY <2>3, AdoptClears
  <2>5. Added(b) = {Len(b)} /\ Dropped(b) = {} /\ Len(b) = Len(head.block) + 1
    BY <2>4, AdoptFacts
  <2>6. Canonical(Len(b)) # {b}
    BY <1>1, <2>5 DEF Changed
  <2>7. /\ Len(final) < Len(b) /\ IsAncestor(final, c)
        /\ Len(c) <= Len(final) + threshold
        /\ \A k \in Len(final) + 1 .. Len(c) : Prefix(c, k) \in kv
        /\ \A k \in Len(b) + 1 .. Len(c) : \E d \in canon : Len(d) = k
    BY <2>3, <2>5, <2>6, AdoptLeaves
  <2>8. final' = final
    BY <1>1, <1>8, <2>1, <2>7
  <2>9. ASSUME NEW k \in Len(b) + 1 .. Len(c) PROVE \E d \in canon' : Len(d) = k
    <3>1. PICK d \in canon : Len(d) = k
      BY <2>7
    <3>2. k # Len(b)
      BY <1>1
    <3> QED
      BY <1>7, <2>5, <3>1, <3>2
  <2> QED
    BY <2>7, <2>8, <2>9
<1>15. Chains'
  BY <1>9, <1>10, <1>11, <1>12, <1>13, <1>14 DEF Chains
<1> QED
  BY <1>3, <1>7, <1>8, <1>15

\* What Import leaves alone keeps the rest of the invariant, whatever becomes of
\* the index and the markers.
LEMMA ImportFrame ==
    ASSUME IInv, rewind = Idle, NEW b \in Blocks, Readable(b) => Len(b) > Len(head.block),
           kv' = kv \union {b}, states' = states \union {b},
           UNCHANGED <<tables, freezing, rewind, node, reader, rewinds, faults>>,
           canon' \subseteq Blocks, final' \in Blocks,
           head' \in [block : Blocks, fast : Blocks, header : Blocks],
           Len(head'.block) >= Len(head.block), Chains'
    PROVE  IInv'
<1> USE DEF IInv
<1>1. /\ Frozen \in Nat /\ Len(head.block) \in Nat /\ Len(b) \in Nat /\ threshold \in Nat
      /\ Frozen <= Len(head.block) + 1
  BY NumberFacts, BlockLen, IdleFacts
<1>2. Len(head'.block) \in Nat
  <2>1. head'.block \in Blocks
    OBVIOUS
  <2> QED
    BY <2>1, BlockLen
<1>3. Frozen' = Frozen /\ Ancients' = Ancients /\ Durable' = Durable
  BY DEF Frozen, Ancients, Durable
<1>4. Types'
  BY <1>3 DEF Types
<1>5. ASSUME NEW n \in Nat, n < Frozen PROVE Ancients[n + 1] # b
  <2> SUFFICES ASSUME Ancients[n + 1] = b PROVE FALSE
    OBVIOUS
  <2>1. Len(b) = n
    BY <1>5, IdleFacts
  <2>2. InTables(b)
    BY <1>5, <2>1, TypeFacts
  <2>3. Len(b) > Len(head.block)
    BY <2>2 DEF Readable
  <2> QED
    BY <1>1, <1>5, <2>1, <2>3
<1>6. Round'
  <2> SUFFICES ASSUME freezing # Idle PROVE Round'
    BY DEF Round
  <2>1. /\ freezing.first \in Nat /\ freezing.limit \in Nat
    BY DEF Types
  <2>2. freezing.step = "append" => freezing.limit + threshold <= Len(head'.block)
    <3>1. freezing.step = "append" => freezing.limit + threshold <= Len(head.block)
      BY DEF Round
    <3> QED
      BY <1>1, <1>2, <2>1, <3>1
  <2>3. ASSUME freezing.step = "sides", NEW n \in freezing.first .. Frozen - 1, n # 0
        PROVE  Ancients[n + 1] \notin kv'
    <3>1. n \in Nat /\ n < Frozen
      BY <1>1, <2>1
    <3>2. Ancients[n + 1] \notin kv
      BY <2>3 DEF Round
    <3> QED
      BY <1>5, <3>1, <3>2
  <2> QED
    BY <1>3, <2>2, <2>3 DEF Round
<1>7. Rewind'
  BY <1>1, <1>2, <1>3 DEF Rewind
<1>8. Thorough'
  BY DEF Thorough
<1>9. Reader'
  <2>1. InTables(reader.block)' <=> InTables(reader.block)
    BY DEF InTables
  <2>2. Lost(reader.block)' <=> Lost(reader.block)
    BY <1>3 DEF Lost
  <2> QED
    BY <2>1, <2>2 DEF Reader
<1> QED
  BY <1>4, <1>6, <1>7, <1>8, <1>9 DEF Chains

\* The import of a block keeps the invariant.
LEMMA ImportKeeps ==
    ASSUME IInv, NEW b \in Blocks, Import(b)
    PROVE  IInv'
<1> USE DEF IInv
<1>1. /\ rewind = Idle /\ rewind' = Idle /\ tables' = tables
      /\ b # Genesis /\ Agree(b, final)
      /\ Readable(b) => Len(b) > Len(head.block)
      /\ kv' = kv \union {b} /\ states' = states \union {b}
      /\ UNCHANGED <<tables, freezing, rewind, node, reader, rewinds, faults>>
  BY DEF Import
<1>2. /\ Len(head.block) \in Nat /\ Len(b) \in Nat
      /\ head \in [block : Blocks, fast : Blocks, header : Blocks]
      /\ canon \subseteq Blocks /\ final \in Blocks
  BY NumberFacts, BlockLen DEF Types
<1>3. CASE Len(b) >= Len(head.block) /\ ReorgFinds(b) /\ Adopt(b)
  <2>1. CASE Len(b) \notin Changed(b)
    <3>1. /\ canon' = canon /\ final' = final /\ Chains'
          /\ head' = [block |-> b, fast |-> head.fast, header |-> head.header]
      BY <1>1, <1>3, <2>1, AdoptKnown
    <3>2. head' \in [block : Blocks, fast : Blocks, header : Blocks] /\ head'.block = b
      BY <1>2, <3>1
    <3> QED
      BY <1>1, <1>2, <1>3, <3>1, <3>2, ImportFrame
  <2>2. CASE Len(b) \in Changed(b)
    <3>1. /\ canon' \subseteq Blocks /\ final' \in Blocks /\ Chains'
          /\ head' = [block |-> b, fast |-> b, header |-> b]
      BY <1>1, <1>3, <2>2, AdoptNew
    <3>2. head' \in [block : Blocks, fast : Blocks, header : Blocks] /\ head'.block = b
      BY <3>1
    <3> QED
      BY <1>1, <1>2, <1>3, <3>1, <3>2, ImportFrame
  <2> QED
    BY <2>1, <2>2
<1>4. CASE UNCHANGED <<canon, head, final>>
  <2>1. /\ Tip' = Tip /\ Frozen' = Frozen /\ Ancients' = Ancients /\ Durable' = Durable
        /\ Untouched' = Untouched /\ Reopened' = Reopened
    BY <1>1, <1>4 DEF Tip, Frozen, Ancients, Durable, Untouched, Reopened
  <2>2. ChainIsStored' /\ LeftInIndex'
    BY <1>1, <1>4, <2>1 DEF ChainIsStored, LeftInIndex
  <2>3. OneChain' /\ IndexIsUnique' /\ NotFarBeyond' /\ LaggingHeader'
    BY <1>4, <2>1 DEF OneChain, IndexIsUnique, NotFarBeyond, LaggingHeader
  <2>4. Chains'
    BY <2>2, <2>3 DEF Chains
  <2> QED
    BY <1>1, <1>2, <1>4, <2>4, ImportFrame
<1> QED
  BY <1>3, <1>4 DEF Import
-----------------------------------------------------------------------------
(***************************************************************************)
(* What the invariant implies, and the fresh node.                         *)
(***************************************************************************)

\* The invariant implies what the runs check.
LEMMA InvImpliesSafety ==
    ASSUME IInv
    PROVE  ChainIsReadable /\ NodeStarts /\ AncientsAreFinal /\ NoExtraAncients
           /\ NoMissedRead
<1> USE DEF IInv
<1>1. TypeOK
  <2>1. \A k \in Kinds : /\ tables[k].list \in Seq(Blocks)
                        /\ tables[k].durable \in 0 .. Len(tables[k].list)
    BY TypeFacts DEF Types, Kinds, Ancients, Durable, Frozen
  <2>2. DOMAIN head = {"block", "fast", "header"}
    BY DEF Types
  <2>3. /\ freezing.step \in {"idle", "append", "wipe", "sides", "dangling"}
        /\ rewind.step \in {"idle", "mark", "delete"}
        /\ reader.step \in {"idle", "store", "again", "missed"}
    BY DEF Types, Idle
  <2> QED
    BY <2>1, <2>2, <2>3 DEF Types, TypeOK
<1>2. ChainIsReadable
  <2>1. ASSUME NEW n \in 0 .. Len(head.block)
        PROVE  Canonical(n) = {Prefix(head.block, n)} /\ Readable(Prefix(head.block, n))
    <3>1. n \in 0 .. Len(Tip) /\ Prefix(head.block, n) = Prefix(Tip, n)
      BY TypeFacts, TipFacts
    <3> QED
      BY <3>1, TipIsReadable
  <2> QED
    BY <1>1, <2>1 DEF ChainIsReadable
<1>3. NodeStarts
  BY DEF NodeStarts, Types
<1>4. AncientsAreFinal /\ NoExtraAncients
  <2> SUFFICES ASSUME rewind = Idle
               PROVE  /\ Frozen <= Len(head.block) + 1
                      /\ \A n \in 0 .. Frozen - 1 :
                            n <= Len(final) /\ tables["hashes"].list[n + 1] = Prefix(final, n)
    BY DEF AncientsAreFinal, NoExtraAncients
  <2>1. Frozen <= Len(head.block) + 1 /\ Frozen <= Len(final) + 1
        /\ \A n \in Nat : n < Frozen => Ancients[n + 1] = Prefix(final, n)
    BY IdleFacts
  <2>2. Frozen \in Nat /\ Len(final) \in Nat
    BY TypeFacts
  <2> QED
    BY <2>1, <2>2 DEF Ancients
<1>5. NoMissedRead
  BY DEF NoMissedRead, Types, Idle
<1> QED
  BY <1>2, <1>3, <1>4, <1>5

\* A fresh node.
LEMMA InitInv == Init => IInv
<1> SUFFICES ASSUME Init PROVE IInv
  OBVIOUS
<1> USE DEF Init
<1>1. <<>> \in Blocks /\ Len(<<>>) = 0
  BY FreezerAssumption
<1>2. /\ tables["hashes"] = [list |-> <<>>, durable |-> 0]
      /\ tables["rest"] = [list |-> <<>>, durable |-> 0]
  BY DEF Ancient!EmptyTable, Kinds
<1>3. Frozen = 0 /\ Durable = 0 /\ Tip = <<>> /\ Len(head.block) = 0 /\ Len(head.header) = 0
  BY <1>1, <1>2 DEF Frozen, Durable, Tip, Genesis
<1>4. Types
  BY <1>1, <1>2, <1>3, FreezerAssumption DEF Types, Kinds, Ancient!EmptyTable, Genesis
<1>5. Agree(<<>>, <<>>)
  BY <1>1, AgreeFacts, WholePrefix
<1>6. OneChain
  BY <1>3, <1>5 DEF OneChain, Genesis
<1>7. ChainIsStored
  BY <1>1, <1>3, WholePrefix DEF ChainIsStored, Genesis
<1>8. IndexIsUnique
  BY DEF IndexIsUnique
<1>9. Untouched /\ ~ Reopened
  BY DEF Untouched, Reopened
<1>10. NotFarBeyond /\ LaggingHeader /\ LeftInIndex
  BY <1>1, <1>3, <1>9, FreezerAssumption
  DEF NotFarBeyond, LaggingHeader, LeftInIndex, Genesis
<1>11. Round /\ Rewind /\ Thorough /\ Reader
  BY <1>1, <1>3 DEF Round, Rewind, Thorough, Reader
<1> QED
  BY <1>4, <1>6, <1>7, <1>8, <1>10, <1>11 DEF IInv
-----------------------------------------------------------------------------
(***************************************************************************)
(* The lookups.                                                            *)
(***************************************************************************)

\* Only the lookup moves.
ReadOnly == UNCHANGED <<tables, kv, canon, states, head, freezing, rewind, node,
                        final, rewinds, faults>>

\* A step of a lookup leaves everything else as it is.
LEMMA ReadOnlyKeeps ==
    ASSUME IInv, ReadOnly,
           reader' = Idle \/ reader' \in [step : {"store", "again"}, block : Blocks],
           rewind # Idle => reader' = Idle,
           Reader'
    PROVE  IInv'
<1> USE DEF IInv, ReadOnly
<1>1. /\ Tip' = Tip /\ Frozen' = Frozen /\ Ancients' = Ancients /\ Durable' = Durable
      /\ Untouched' = Untouched /\ Reopened' = Reopened
  BY DEF Tip, Frozen, Ancients, Durable, Untouched, Reopened
<1>2. Types'
  BY <1>1 DEF Types
<1>3. OneChain' /\ ChainIsStored' /\ IndexIsUnique'
  BY <1>1 DEF OneChain, ChainIsStored, IndexIsUnique
<1>4. NotFarBeyond' /\ LaggingHeader' /\ LeftInIndex'
  BY <1>1 DEF NotFarBeyond, LaggingHeader, LeftInIndex
<1>5. Round' /\ Rewind' /\ Thorough'
  BY <1>1 DEF Round, Rewind, Thorough
<1> QED
  BY <1>2, <1>3, <1>4, <1>5

\* A lookup that does not find its block in the tables finds it in the store,
\* unless it is moved in between.
LEMMA ReadTablesKeeps ==
    ASSUME IInv, NEW n \in Numbers, ReadTables(n)
    PROVE  IInv'
<1> USE DEF IInv
<1> DEFINE b == Prefix(head.block, n)
<1>1. n \in Nat /\ n \in 0 .. Len(head.block) /\ n \in 0 .. Len(Tip)
  BY TypeFacts, TipFacts, BlockLen DEF Numbers, ReadTables
<1>2. b = Prefix(Tip, n) /\ b \in Blocks
  BY <1>1, TypeFacts, TipFacts, PrefixFacts
<1>3. b \in kv
  <2>1. ~ (n < Frozen)
    BY <1>1, <1>2, TipIsReadable DEF ReadTables
  <2> QED
    BY <1>1, <1>2, <2>1, TypeFacts, TipIsReadable
<1>4. /\ ReadOnly /\ rewind = Idle /\ node = "running"
      /\ reader' = [step |-> "store", block |-> b]
  BY DEF ReadTables, ReadOnly
<1>5. Reader'
  BY <1>3, <1>4 DEF Reader, ReadOnly
<1> QED
  BY <1>2, <1>4, <1>5, ReadOnlyKeeps

\* A lookup that does not find its block in the store finds it in the tables.
LEMMA ReadStoreKeeps ==
    ASSUME IInv, ReadStore
    PROVE  IInv'
<1> USE DEF IInv
<1>1. /\ ReadOnly /\ reader.step = "store" /\ reader # Idle
      /\ reader \in [step : {"store", "again"}, block : Blocks]
  BY DEF ReadStore, ReadOnly, Types, Idle
<1>2. rewind = Idle /\ node = "running"
  BY <1>1 DEF Rewind, Reader
<1>3. CASE reader.block \in kv
  <2>1. reader' = Idle
    BY <1>3 DEF ReadStore
  <2> QED
    BY <1>1, <1>2, <2>1, ReadOnlyKeeps DEF Reader
<1>4. CASE reader.block \notin kv
  <2>1. reader' = [reader EXCEPT !.step = "again"]
    BY <1>4 DEF ReadStore
  <2>2. /\ reader' \in [step : {"store", "again"}, block : Blocks]
        /\ reader'.block = reader.block
    BY <1>1, <2>1
  <2>3. InTables(reader.block) \/ Lost(reader.block)
    BY <1>1, <1>4 DEF Reader
  <2>4. InTables(reader.block)' \/ Lost(reader.block)'
    BY <1>1, <2>2, <2>3 DEF InTables, Lost, ReadOnly, Frozen, Ancients
  <2>5. Reader'
    BY <1>1, <1>2, <2>2, <2>4 DEF Reader, ReadOnly
  <2> QED
    BY <1>1, <1>2, <2>2, <2>5, ReadOnlyKeeps
<1> QED
  BY <1>3, <1>4

\* The second look at the tables never misses a block of the chain.
LEMMA ReadAgainKeeps ==
    ASSUME IInv, ReadAgain
    PROVE  IInv'
<1> USE DEF IInv
<1>1. /\ ReadOnly /\ reader.step = "again" /\ reader # Idle
      /\ reader \in [step : {"store", "again"}, block : Blocks]
  BY DEF ReadAgain, ReadOnly, Types, Idle
<1>2. rewind = Idle
  BY <1>1 DEF Rewind
<1>3. InTables(reader.block) \/ Lost(reader.block)
  BY <1>1 DEF Reader
<1>4. ASSUME Lost(reader.block), IsAncestor(reader.block, head.block)
      PROVE  FALSE
  <2> DEFINE b == reader.block
  <2>1. b \in Blocks /\ head.block \in Blocks /\ Len(b) \in Nat /\ Len(head.block) \in Nat
    BY <1>1, TypeFacts, BlockLen
  <2>2. PICK n \in 0 .. Len(b) : n < Frozen /\ Ancients[n + 1] # Prefix(b, n)
    BY <1>4 DEF Lost
  <2>3. Ancients[n + 1] = Prefix(head.block, n)
    BY <1>2, <2>1, <2>2, IdleFacts
  <2>4. Len(b) \in 0 .. Len(head.block) /\ b = Prefix(head.block, Len(b))
    BY <1>4, <2>1 DEF IsAncestor
  <2>5. Prefix(b, n) = Prefix(head.block, n)
    BY <2>1, <2>2, <2>4, PrefixOfPrefix
  <2> QED
    BY <2>2, <2>3, <2>5
<1>5. reader' = Idle
  BY <1>3, <1>4 DEF ReadAgain
<1> QED
  BY <1>1, <1>2, <1>5, ReadOnlyKeeps DEF Reader
-----------------------------------------------------------------------------
(***************************************************************************)
(* Crash and start.                                                        *)
(***************************************************************************)

\* Whatever the two tables lose, repair leaves both with the same items, not
\* fewer than were synced.
LEMMA RepairedTables ==
    ASSUME Types,
           NEW h \in Ancient!AfterCrash(tables["hashes"]),
           NEW r \in Ancient!AfterCrash(tables["rest"])
    PROVE  LET repaired == Repaired([k \in Kinds |-> IF k = "hashes" THEN h ELSE r])
           IN \E m \in Nat :
                /\ Durable <= m /\ m <= Frozen
                /\ repaired = [k \in Kinds |-> [list |-> SubSeq(Ancients, 1, m),
                                               durable |-> m]]
<1> DEFINE opened == [k \in Kinds |-> IF k = "hashes" THEN h ELSE r]
           lost(m) == [list |-> SubSeq(Ancients, 1, m), durable |-> m]
           lens == {Len(opened[k].list) : k \in Kinds}
<1>1. /\ Ancients \in Seq(Blocks) /\ Frozen \in Nat /\ Frozen = Len(Ancients)
      /\ Durable \in Nat /\ Durable <= Frozen
  BY TypeFacts
<1>2. PICK i \in Durable .. Frozen : h = lost(i)
  BY DEF Ancient!AfterCrash, Ancients, Durable, Frozen
<1>3. PICK j \in Durable .. Frozen : r = lost(j)
  BY DEF Ancient!AfterCrash, Ancients, Durable, Frozen, Types
<1>4. ASSUME NEW m \in Durable .. Frozen
      PROVE  /\ m \in Nat /\ SubSeq(Ancients, 1, m) \in Seq(Blocks)
             /\ Len(SubSeq(Ancients, 1, m)) = m
             /\ \A n \in 0 .. m : SubSeq(SubSeq(Ancients, 1, m), 1, n) = SubSeq(Ancients, 1, n)
  <2>1. /\ m \in Nat /\ SubSeq(Ancients, 1, m) \in Seq(Blocks)
        /\ Len(SubSeq(Ancients, 1, m)) = m
        /\ \A q \in 1 .. m : SubSeq(Ancients, 1, m)[q] = Ancients[q]
    BY <1>1
  <2>2. ASSUME NEW n \in 0 .. m
        PROVE  SubSeq(SubSeq(Ancients, 1, m), 1, n) = SubSeq(Ancients, 1, n)
    <3>1. /\ SubSeq(SubSeq(Ancients, 1, m), 1, n) \in Seq(Blocks)
          /\ Len(SubSeq(SubSeq(Ancients, 1, m), 1, n)) = n
          /\ \A q \in 1 .. n : SubSeq(SubSeq(Ancients, 1, m), 1, n)[q] = SubSeq(Ancients, 1, m)[q]
      BY <2>1
    <3>2. /\ SubSeq(Ancients, 1, n) \in Seq(Blocks) /\ Len(SubSeq(Ancients, 1, n)) = n
          /\ \A q \in 1 .. n : SubSeq(Ancients, 1, n)[q] = Ancients[q]
      BY <1>1, <2>1
    <3>3. \A q \in 1 .. n : SubSeq(SubSeq(Ancients, 1, m), 1, n)[q] = SubSeq(Ancients, 1, n)[q]
      BY <2>1, <3>1, <3>2
    <3> QED
      BY <3>1, <3>2, <3>3, SameSequence
  <2> QED
    BY <2>1, <2>2
<1>5. /\ opened["hashes"] = lost(i) /\ opened["rest"] = lost(j) /\ DOMAIN opened = Kinds
      /\ Len(opened["hashes"].list) = i /\ Len(opened["rest"].list) = j
  BY <1>2, <1>3, <1>4 DEF Kinds
<1>6. lens = {i, j}
  BY <1>5 DEF Kinds
<1> DEFINE m == IF i <= j THEN i ELSE j
<1>7. Min(lens) = m
  BY <1>4, <1>6, MinOfTwo
<1>8. m \in Nat /\ Durable <= m /\ m <= Frozen /\ m \in 0 .. i /\ m \in 0 .. j
  BY <1>1
<1>9. ASSUME NEW x \in Durable .. Frozen, m \in 0 .. x
      PROVE  Ancient!CutTo(lost(x), m) = lost(m)
  <2>1. CASE x = m
    BY <1>4, <1>8, <2>1 DEF Ancient!CutTo
  <2>2. CASE x # m
    <3>1. ~ (Len(lost(x).list) <= m) /\ lost(x).durable = x
      BY <1>4, <1>8, <1>9, <2>2
    <3>2. Ancient!Least(x, m) = m
      BY <1>4, <1>8, <1>9, <2>2 DEF Ancient!Least
    <3>3. SubSeq(lost(x).list, 1, m) = SubSeq(Ancients, 1, m)
      BY <1>4, <1>9
    <3> QED
      BY <3>1, <3>2, <3>3, ZenonT(60) DEF Ancient!CutTo
  <2> QED
    BY <2>1, <2>2
<1>10. \A k \in Kinds : Ancient!CutTo(opened[k], m) = lost(m)
  BY <1>5, <1>8, <1>9 DEF Kinds
<1>11. Repaired(opened) = [k \in Kinds |-> lost(m)]
  BY <1>7, <1>10, ZenonT(60) DEF Repaired
<1> QED
  BY <1>8, <1>11, ZenonT(60)

\* After a crash there is no gap between the tables and the store.
LEMMA CrashKeeps ==
    ASSUME IInv, Orderly, Crash
    PROVE  IInv'
<1> USE DEF IInv
<1>1. PICK m \in Nat :
        /\ Durable <= m /\ m <= Frozen
        /\ tables' = [k \in Kinds |-> [list |-> SubSeq(Ancients, 1, m), durable |-> m]]
  BY RepairedTables DEF Crash
<1>2. node' = IF Gap(Len(tables'["hashes"].list)) THEN "refused" ELSE "opened"
  BY DEF Crash
<1>3. /\ rewind = Idle /\ rewind' = Idle /\ freezing' = Idle /\ reader' = Idle
      /\ faults' \in 0 .. MaxFaults
      /\ UNCHANGED <<kv, canon, head, final, rewinds>>
  BY FreezerAssumption DEF Crash, Orderly, Types
<1>4. /\ SubSeq(Ancients, 1, m) \in Seq(Blocks) /\ Len(SubSeq(Ancients, 1, m)) = m
      /\ \A q \in 1 .. m : SubSeq(Ancients, 1, m)[q] = Ancients[q]
  BY <1>1, TypeFacts
<1>5. /\ tables'["hashes"] = [list |-> SubSeq(Ancients, 1, m), durable |-> m]
      /\ tables'["rest"] = tables'["hashes"]
  BY <1>1 DEF Kinds
<1>6. /\ Ancients' = SubSeq(Ancients, 1, m) /\ Frozen' = m /\ Durable' = m
      /\ Tip' = Tip /\ Untouched' /\ ~ Reopened' /\ Untouched /\ ~ Reopened
  BY <1>3, <1>4, <1>5 DEF Ancients, Frozen, Durable, Tip, Untouched, Reopened
<1>7. ~ Gap(m)
  <2>1. CASE m > 0
    <3> SUFFICES ASSUME Len(head.header) > m - 1 PROVE \E b \in canon : Len(b) = m
      BY <2>1 DEF Gap
    <3>1. m \in 0 .. Len(Tip) /\ m >= Durable
      BY <1>1, TypeFacts, TipFacts
    <3> QED
      BY <3>1, TipFacts, PrefixFacts DEF ChainIsStored
  <2>2. CASE m = 0
    <3> SUFFICES ASSUME head.header # Genesis PROVE \E b \in canon : Len(b) = 1
      BY <2>2 DEF Gap
    <3>1. Len(head.header) # 0
      BY TypeFacts, BlockLen DEF Genesis
    <3>2. 1 \in 0 .. Len(Tip) /\ 1 >= Durable
      BY <1>1, <2>2, <3>1, TypeFacts, TipFacts
    <3> QED
      BY <3>2, TipFacts, PrefixFacts, ZenonT(60) DEF ChainIsStored
  <2> QED
    BY <2>1, <2>2
<1>8. node' = "opened"
  BY <1>2, <1>4, <1>5, <1>7
<1>9. states' \subseteq Blocks
  <2>1. states' \in StatesAfterCrash
    BY DEF Crash
  <2>2. states \subseteq Blocks /\ Genesis \in Blocks
    <3>1. 0 \in 0 .. Len(head.block) /\ head.block \in Blocks
      BY TypeFacts
    <3>2. Prefix(head.block, 0) \in Blocks /\ Len(Prefix(head.block, 0)) = 0
      BY <3>1, PrefixFacts
    <3> QED
      BY <3>2, BlockLen DEF Genesis, Types
  <2> QED
    BY <2>1, <2>2 DEF StatesAfterCrash
<1>10. Types'
  <2>1. tables' \in [Kinds -> [list : Seq(Blocks), durable : Nat]]
    BY <1>1, <1>4
  <2> QED
    BY <1>3, <1>5, <1>6, <1>8, <1>9, <2>1 DEF Types
<1>11. OneChain' /\ IndexIsUnique'
  BY <1>3, <1>6 DEF OneChain, IndexIsUnique
<1>12. ChainIsStored'
  <2> SUFFICES ASSUME NEW n \in 0 .. Len(Tip)
               PROVE  /\ n < m => Ancients'[n + 1] = Prefix(Tip, n)
                      /\ n = 0 \/ n >= m => Prefix(Tip, n) \in kv \intersect canon
    BY <1>3, <1>6 DEF ChainIsStored
  <2>1. n \in Nat
    BY TipFacts
  <2>2. ASSUME n < m PROVE Ancients'[n + 1] = Prefix(Tip, n)
    <3>1. n + 1 \in 1 .. m /\ n < Frozen
      BY <1>1, <2>1, <2>2, TypeFacts
    <3> QED
      BY <1>4, <1>6, <3>1 DEF ChainIsStored
  <2>3. n >= m => n >= Durable
    BY <1>1, <2>1, TypeFacts
  <2> QED
    BY <2>2, <2>3 DEF ChainIsStored
<1>13. NotFarBeyond' /\ LaggingHeader' /\ LeftInIndex'
  <2>1. Frozen' <= Len(final) + 1 /\ Len(Tip) <= Len(final) + threshold
    BY <1>1, <1>3, <1>6, IdleFacts, TypeFacts
  <2> QED
    BY <1>3, <1>6, <2>1 DEF NotFarBeyond, LaggingHeader, LeftInIndex
<1>14. Round' /\ Rewind' /\ Thorough' /\ Reader'
  <2>1. Frozen' <= Len(head.block) + 1
    BY <1>1, <1>3, <1>6, IdleFacts, TypeFacts
  <2> QED
    BY <1>3, <2>1 DEF Round, Rewind, Thorough, Reader
<1> QED
  BY <1>10, <1>11, <1>12, <1>13, <1>14

\* The head is there, and loadLastState keeps both markers.
LEMMA StartLoadKeeps ==
    ASSUME IInv, StartLoad
    PROVE  IInv'
<1> USE DEF IInv
<1> DEFINE top == tables["hashes"].list[Frozen]
           empty == head = [block |-> Genesis, fast |-> Genesis, header |-> Genesis]
           markers == IF empty /\ Frozen > 0
                      THEN [head EXCEPT !.fast = top, !.header = top] ELSE head
<1>1. /\ head' = Loaded(markers)
      /\ node' = IF Readable(head.block) THEN "loaded" ELSE "reset"
      /\ node = "opened"
      /\ UNCHANGED <<tables, kv, canon, states, freezing, rewind, reader, final,
                     rewinds, faults>>
  BY DEF StartLoad
<1>2. Readable(head.block) /\ Readable(head.header)
  <2>1. Len(head.block) \in 0 .. Len(Tip) /\ Len(head.header) \in 0 .. Len(Tip)
    BY TypeFacts, TipFacts
  <2> QED
    BY <2>1, TipFacts, TipIsReadable
<1>3. /\ markers \in [block : Blocks, fast : Blocks, header : Blocks]
      /\ markers.block = head.block /\ markers.header = head.header
  <2>1. CASE empty /\ Frozen > 0
    <3>1. head.header = Genesis /\ head.block = Genesis /\ Len(head.header) = 0
      BY <2>1 DEF Genesis
    <3>2. Frozen = 1
      <4>1. Frozen <= Len(head.block) + 1
        BY <1>1 DEF Rewind
      <4> QED
        BY <2>1, <3>1, <4>1, TypeFacts DEF Genesis
    <3>3. top = Prefix(Tip, 0) /\ Len(top) = 0
      <4>1. 0 \in 0 .. Len(Tip) /\ 0 < Frozen
        BY <3>2, TipFacts
      <4> QED
        BY <3>2, <4>1, TipFacts, PrefixFacts DEF ChainIsStored, Ancients
    <3>4. top = Genesis
      <4>1. top \in Blocks
        BY <3>2, TypeFacts DEF Ancients
      <4> QED
        BY <3>3, <4>1, BlockLen DEF Genesis
    <3> QED
      BY <2>1, <3>1, <3>4, TypeFacts, ZenonT(60) DEF Types
  <2>2. CASE ~ (empty /\ Frozen > 0)
    BY <2>2 DEF Types
  <2> QED
    BY <2>1, <2>2
<1>4. /\ head' \in [block : Blocks, fast : Blocks, header : Blocks]
      /\ head'.block = head.block /\ head'.header = head.header
  <2> HIDE DEF markers
  <2> QED
    BY <1>1, <1>2, <1>3, ZenonT(60) DEF Loaded
<1>5. node' = "loaded"
  BY <1>1, <1>2
<1>6. /\ Tip' = Tip /\ Frozen' = Frozen /\ Ancients' = Ancients /\ Durable' = Durable
      /\ Untouched' = Untouched /\ Reopened' = Reopened
  BY <1>1, <1>4 DEF Tip, Frozen, Ancients, Durable, Untouched, Reopened
<1>7. Types'
  BY <1>1, <1>4, <1>5, <1>6 DEF Types
<1>8. OneChain' /\ ChainIsStored' /\ IndexIsUnique'
  BY <1>1, <1>4, <1>6 DEF OneChain, ChainIsStored, IndexIsUnique
<1>9. NotFarBeyond' /\ LaggingHeader' /\ LeftInIndex'
  BY <1>1, <1>4, <1>6 DEF NotFarBeyond, LaggingHeader, LeftInIndex
<1>10. Round' /\ Rewind' /\ Thorough' /\ Reader'
  BY <1>1, <1>4, <1>6 DEF Round, Rewind, Thorough, Reader
<1> QED
  BY <1>7, <1>8, <1>9, <1>10
=============================================================================
