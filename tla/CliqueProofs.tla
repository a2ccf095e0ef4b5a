---------------------------- MODULE CliqueProofs ----------------------------
(***************************************************************************)
(* Proofs about module Clique.  For a node that has the chain from its     *)
(* genesis and whose chain is not longer than FullImmutabilityThreshold:   *)
(* the snapshots in memory and on disk are those of the whole chain, the   *)
(* miner seals only blocks that everyone accepts, and, if the genesis has  *)
(* at most three signers, a snapshot can be built on every stored block.   *)
(***************************************************************************)
EXTENDS Clique, CliqueSnapshotProofs, WellFoundedInduction

\* Each leaf is tried by Zenon for a moment, then with more time than by default.
USE ZenonT(2), SMTT(120), ZenonT(60)

\* No checkpoint but the genesis is ever trusted.
FromGenesis == StartNumber = 0 /\ MaxNumber <= FullImmutabilityThreshold

-----------------------------------------------------------------------------
(***************************************************************************)
(* Numbers and sequences.                                                  *)
(***************************************************************************)

\* Every non-empty set of natural numbers has a least element.
LEMMA LeastNumber ==
  ASSUME NEW S, S \subseteq Nat, S # {}
  PROVE  \E m \in S : \A n \in S : m <= n
<1> DEFINE Less == OpToRel(<, Nat)
<1>1. IsWellFoundedOn(Less, Nat)
  BY NatLessThanWellFounded, ZenonT(60)
<1> HIDE DEF Less
<1>2. PICK m \in S : \A n \in S : ~ (<<n, m>> \in Less)
  BY <1>1, WFMin, ZenonT(60)
<1>3. \A n \in S : ~ (n < m)
  BY <1>2, ZenonT(60) DEF Less, OpToRel
<1> QED
  BY <1>2, <1>3

\* Max finds the greatest number of a bounded set.
LEMMA MaxNumberOf ==
  ASSUME NEW S, S # {}, NEW k \in Nat, S \subseteq 0 .. k
  PROVE  Max(S) \in S /\ \A n \in S : n <= Max(S)
<1> DEFINE Bounds == {n \in Nat : \A i \in S : i <= n}
<1>1. k \in Bounds /\ S \subseteq Nat
  OBVIOUS
<1>2. PICK m \in Bounds : \A n \in Bounds : m <= n
  BY <1>1, LeastNumber, ZenonT(60)
<1>3. m \in S
  <2> SUFFICES ASSUME m \notin S PROVE FALSE
    OBVIOUS
  <2>1. \A i \in S : i \in Nat /\ i <= m /\ i # m
    BY <1>1, <1>2
  <2>2. PICK i \in S : TRUE
    BY ZenonT(60)
  <2>3. m \in Nat /\ m # 0
    BY <1>2, <2>1, <2>2
  <2>4. m - 1 \in Bounds
    BY <2>1, <2>3
  <2> QED
    BY <1>2, <2>3, <2>4
<1>4. \E x \in S : \A y \in S : x >= y
  BY <1>1, <1>2, <1>3
<1>5. Max(S) \in S /\ \A n \in S : Max(S) >= n
  BY <1>4, ZenonT(60) DEF Max
<1> QED
  BY <1>1, <1>5

\* Sequences of one length are the same when they agree everywhere.
LEMMA SameSequence ==
  ASSUME NEW S, NEW b \in Seq(S), NEW c \in Seq(S), Len(b) = Len(c),
         \A i \in 1 .. Len(b) : b[i] = c[i]
  PROVE  b = c
  OBVIOUS

\* What SubSeq returns.
LEMMA UptoFacts ==
  ASSUME NEW S, NEW b \in Seq(S), NEW n \in 0 .. Len(b)
  PROVE  /\ Len(b) \in Nat /\ n \in Nat
         /\ Upto(b, n) \in Seq(S) /\ Len(Upto(b, n)) = n
         /\ \A i \in 1 .. n : Upto(b, n)[i] = b[i]
  BY DEF Upto

\* A chain is its own longest prefix, and has no header before its first.
LEMMA UptoEnds ==
  ASSUME NEW S, NEW b \in Seq(S)
  PROVE  Upto(b, Len(b)) = b /\ Upto(b, 0) = <<>>
<1>1. Len(b) \in 0 .. Len(b) /\ 0 \in 0 .. Len(b)
  OBVIOUS
<1>2. /\ Upto(b, Len(b)) \in Seq(S) /\ Len(Upto(b, Len(b))) = Len(b)
      /\ \A i \in 1 .. Len(b) : Upto(b, Len(b))[i] = b[i]
  BY <1>1, UptoFacts
<1>3. Upto(b, 0) \in Seq(S) /\ Len(Upto(b, 0)) = 0
  BY <1>1, UptoFacts
<1>4. <<>> \in Seq(S) /\ Len(<<>>) = 0
  OBVIOUS
<1>5. Upto(b, Len(b)) = b
  BY <1>2, SameSequence
<1>6. Upto(b, 0) = <<>>
  BY <1>3, <1>4, SameSequence
<1> QED
  BY <1>5, <1>6

\* The prefix of a prefix.
LEMMA UptoUpto ==
  ASSUME NEW S, NEW b \in Seq(S), NEW n \in 0 .. Len(b), NEW m \in 0 .. n
  PROVE  Upto(Upto(b, n), m) = Upto(b, m)
<1>1. m \in 0 .. Len(b) /\ Upto(b, n) \in Seq(S) /\ Len(Upto(b, n)) = n
      /\ \A i \in 1 .. n : Upto(b, n)[i] = b[i]
  BY UptoFacts
<1>2. /\ Upto(Upto(b, n), m) \in Seq(S) /\ Len(Upto(Upto(b, n), m)) = m
      /\ \A i \in 1 .. m : Upto(Upto(b, n), m)[i] = Upto(b, n)[i]
  BY <1>1, UptoFacts
<1>3. /\ Upto(b, m) \in Seq(S) /\ Len(Upto(b, m)) = m
      /\ \A i \in 1 .. m : Upto(b, m)[i] = b[i]
  BY <1>1, UptoFacts
<1>4. \A i \in 1 .. m : i \in 1 .. n
  OBVIOUS
<1> QED
  BY <1>1, <1>2, <1>3, <1>4, SameSequence

\* The parent of a block is the block before it.
LEMMA ParentFacts ==
  ASSUME NEW S, NEW b \in Seq(S), b # <<>>
  PROVE  /\ Len(b) \in Nat /\ Len(b) >= 1
         /\ Parent(b) \in Seq(S) /\ Len(Parent(b)) = Len(b) - 1
         /\ b[Len(b)] \in S
         /\ \A m \in 0 .. Len(b) - 1 : Upto(Parent(b), m) = Upto(b, m)
<1>1. Len(b) \in Nat /\ Len(b) >= 1 /\ Len(b) - 1 \in 0 .. Len(b) /\ b[Len(b)] \in S
  OBVIOUS
<1>2. Parent(b) = Upto(b, Len(b) - 1)
  BY DEF Parent
<1> QED
  BY <1>1, <1>2, UptoFacts, UptoUpto

\* A header on top of a block makes a block whose parent is that block.
LEMMA AppendFacts ==
  ASSUME NEW S, NEW p \in Seq(S), NEW h \in S
  PROVE  LET b == Append(p, h) IN
         /\ b \in Seq(S) /\ b # <<>> /\ Len(b) = Len(p) + 1 /\ b[Len(b)] = h
         /\ Parent(b) = p
         /\ \A m \in 0 .. Len(p) : Upto(b, m) = Upto(p, m)
<1> DEFINE b == Append(p, h)
<1>1. /\ b \in Seq(S) /\ Len(b) = Len(p) + 1 /\ b[Len(b)] = h /\ Len(p) \in Nat
      /\ \A i \in 1 .. Len(p) : b[i] = p[i]
  OBVIOUS
<1>2. b # <<>>
  BY <1>1
<1> HIDE DEF b
<1>3. /\ Parent(b) \in Seq(S) /\ Len(Parent(b)) = Len(p)
      /\ \A i \in 1 .. Len(p) : Parent(b)[i] = b[i]
  <2>1. Len(b) - 1 = Len(p) /\ Len(p) \in 0 .. Len(b) /\ b \in Seq(S)
    BY <1>1
  <2>2. Parent(b) = Upto(b, Len(p))
    BY <2>1 DEF Parent
  <2> QED
    BY <2>1, <2>2, UptoFacts, ZenonT(60)
<1>4. Parent(b) = p
  BY <1>1, <1>3, SameSequence
<1>5. \A m \in 0 .. Len(p) : Upto(b, m) = Upto(p, m)
  BY <1>1, <1>2, <1>4, ParentFacts
<1> QED
  BY <1>1, <1>2, <1>4, <1>5 DEF b

-----------------------------------------------------------------------------
(***************************************************************************)
(* Replay.  It is defined by a recursive function, so it has to be shown   *)
(* that the function exists before anything can be said of its values.     *)
(***************************************************************************)

\* The snapshot after one more header.
Step(s, h) == IF s = Failed \/ ~ Accepts(s, h) THEN Failed ELSE apply(s, h)

\* f[n] is the snapshot of block n of chain b, for every n from base up to m.
IsReplay(f, base, b, m) ==
  f = [n \in base.number .. m |-> IF n = base.number THEN base ELSE Step(f[n - 1], b[n])]

\* Replay returns the last value of such a function.
LEMMA ReplayChoice ==
  ASSUME NEW base, NEW b
  PROVE  Replay(base, b) = (CHOOSE f : IsReplay(f, base, b, Len(b)))[Len(b)]
  BY ZenonT(60) DEF Replay, IsReplay, Step

\* The function can be extended by one block.
LEMMA ReplayExtends ==
  ASSUME NEW base, base.number \in Nat, NEW b, NEW m \in Nat, base.number <= m,
         NEW g, IsReplay(g, base, b, m)
  PROVE  \E f : IsReplay(f, base, b, m + 1)
<1> DEFINE k == base.number
           value == Step(g[m], b[m + 1])
           f == [n \in k .. m + 1 |-> IF n = m + 1 THEN value ELSE g[n]]
<1>1. g = [n \in k .. m |-> IF n = k THEN base ELSE Step(g[n - 1], b[n])]
  BY DEF IsReplay
<1>2. \A n \in k .. m : g[n] = IF n = k THEN base ELSE Step(g[n - 1], b[n])
  BY <1>1, ZenonT(60)
<1>3. \A n \in k .. m + 1 : f[n] = IF n = k THEN base ELSE Step(f[n - 1], b[n])
  <2> SUFFICES ASSUME NEW n \in k .. m + 1
               PROVE  f[n] = IF n = k THEN base ELSE Step(f[n - 1], b[n])
    BY ZenonT(60)
  <2>1. CASE n = m + 1
    <3>1. n # k /\ n - 1 = m /\ m \in k .. m + 1 /\ m # m + 1
      BY <2>1
    <3> HIDE DEF value
    <3>2. f[n] = value /\ f[n - 1] = g[m]
      BY <2>1, <3>1
    <3> QED
      BY <2>1, <3>1, <3>2 DEF value
  <2>2. CASE n = k /\ n # m + 1
    BY <1>2, <2>2
  <2>3. CASE n # k /\ n # m + 1
    <3>1. n \in k .. m /\ n - 1 \in k .. m + 1 /\ n - 1 # m + 1
      BY <2>3
    <3>2. f[n] = g[n] /\ f[n - 1] = g[n - 1]
      BY <2>3, <3>1
    <3> QED
      BY <1>2, <2>3, <3>1, <3>2
  <2> QED
    BY <2>1, <2>2, <2>3
<1>4. f = [n \in k .. m + 1 |-> f[n]]
  OBVIOUS
<1>5. f = [n \in k .. m + 1 |-> IF n = k THEN base ELSE Step(f[n - 1], b[n])]
  <2> HIDE DEF f
  <2> QED
    BY <1>3, <1>4, ZenonT(60)
<1>6. IsReplay(f, base, b, m + 1)
  BY <1>5, ZenonT(60) DEF IsReplay
<1> QED
  BY <1>6, ZenonT(60)

\* The function exists for every chain.
LEMMA ReplayExists ==
  ASSUME NEW base, base.number \in Nat, NEW b, NEW m \in Nat, base.number <= m
  PROVE  \E f : IsReplay(f, base, b, m)
<1> DEFINE k == base.number
           Bad == {i \in Nat : k <= i /\ ~ \E f : IsReplay(f, base, b, i)}
<1> SUFFICES Bad = {}
  BY ZenonT(60)
<1> SUFFICES ASSUME Bad # {} PROVE FALSE
  OBVIOUS
<1>1. PICK i \in Bad : \A j \in Bad : i <= j
  BY LeastNumber, ZenonT(60)
<1>2. i \in Nat /\ k <= i /\ ~ \E f : IsReplay(f, base, b, i)
  BY <1>1, ZenonT(60)
<1>3. CASE i = k
  <2> DEFINE f == [n \in k .. k |-> base]
  <2>1. \A n \in k .. k : n = k
    OBVIOUS
  <2>2. f = [n \in k .. k |-> IF n = k THEN base ELSE Step(f[n - 1], b[n])]
    BY <2>1, ZenonT(60)
  <2>3. IsReplay(f, base, b, i)
    BY <1>3, <2>2, ZenonT(60) DEF IsReplay
  <2> QED
    BY <1>2, <2>3, ZenonT(60)
<1>4. CASE i # k
  <2>1. i - 1 \in Nat /\ k <= i - 1 /\ ~ (i <= i - 1) /\ (i - 1) + 1 = i
    BY <1>2, <1>4
  <2>2. i - 1 \notin Bad
    BY <1>1, <2>1, ZenonT(60)
  <2>3. PICK g : IsReplay(g, base, b, i - 1)
    BY <2>1, <2>2, ZenonT(60)
  <2>4. \E f : IsReplay(f, base, b, (i - 1) + 1)
    BY <2>1, <2>3, ReplayExtends, ZenonT(60)
  <2> QED
    BY <1>2, <2>1, <2>4, ZenonT(60)
<1> QED
  BY <1>3, <1>4

\* What the function computes, from one block to the next.
LEMMA ReplayValues ==
  \A base, b, m, f :
    base.number \in Nat /\ m \in Nat /\ base.number <= m /\ IsReplay(f, base, b, m)
    => /\ f[base.number] = base
       /\ \A n \in base.number + 1 .. m : f[n] = Step(f[n - 1], b[n])
<1> SUFFICES ASSUME NEW base, NEW b, NEW m, NEW f, base.number \in Nat, m \in Nat,
                    base.number <= m, IsReplay(f, base, b, m)
             PROVE  /\ f[base.number] = base
                    /\ \A n \in base.number + 1 .. m : f[n] = Step(f[n - 1], b[n])
  OBVIOUS
<1> DEFINE k == base.number
<1>1. f = [n \in k .. m |-> IF n = k THEN base ELSE Step(f[n - 1], b[n])]
  BY DEF IsReplay
<1>2. \A n \in k .. m : f[n] = IF n = k THEN base ELSE Step(f[n - 1], b[n])
  BY <1>1, ZenonT(60)
<1>3. k \in k .. m /\ \A n \in k + 1 .. m : n \in k .. m /\ n # k
  OBVIOUS
<1> QED
  BY <1>2, <1>3, ZenonT(60)

\* Two chains with the same headers up to block j have the same snapshots there.
LEMMA ReplayAgree ==
  \A base, b, c, j, m, f, g :
    /\ base.number \in Nat /\ j \in Nat /\ m \in Nat /\ base.number <= j /\ j <= m
    /\ IsReplay(f, base, b, m) /\ IsReplay(g, base, c, j)
    /\ \A n \in base.number + 1 .. j : b[n] = c[n]
    => f[j] = g[j]
<1> SUFFICES ASSUME NEW base, NEW b, NEW c, NEW j, NEW m, NEW f, NEW g,
                    base.number \in Nat, j \in Nat, m \in Nat, base.number <= j, j <= m,
                    IsReplay(f, base, b, m), IsReplay(g, base, c, j),
                    \A n \in base.number + 1 .. j : b[n] = c[n]
             PROVE  f[j] = g[j]
  OBVIOUS
<1> DEFINE k == base.number
           Bad == {i \in Nat : k <= i /\ i <= j /\ f[i] # g[i]}
<1>1. /\ f[k] = base /\ g[k] = base
      /\ \A n \in k + 1 .. m : f[n] = Step(f[n - 1], b[n])
      /\ \A n \in k + 1 .. j : g[n] = Step(g[n - 1], c[n])
  <2>1. base.number <= m
    OBVIOUS
  <2>2. f[k] = base /\ \A n \in k + 1 .. m : f[n] = Step(f[n - 1], b[n])
    BY <2>1, ReplayValues
  <2>3. g[k] = base /\ \A n \in k + 1 .. j : g[n] = Step(g[n - 1], c[n])
    BY ReplayValues
  <2> QED
    BY <2>2, <2>3
<1> SUFFICES ASSUME f[j] # g[j] PROVE FALSE
  BY ZenonT(60)
<1>0. j <= j
  OBVIOUS
<1>2. PICK i \in Bad : \A n \in Bad : i <= n
  <2>1. Bad # {} /\ Bad \subseteq Nat
    BY <1>0, ZenonT(60)
  <2> QED
    BY <2>1, LeastNumber, ZenonT(60)
<1>3. i \in Nat /\ k <= i /\ i <= j /\ f[i] # g[i]
  BY <1>2, ZenonT(60)
<1>4. i # k
  BY <1>1, <1>3, ZenonT(60)
<1>5. /\ i \in k + 1 .. m /\ i \in k + 1 .. j
      /\ i - 1 \in Nat /\ k <= i - 1 /\ i - 1 <= j /\ ~ (i <= i - 1)
  BY <1>3, <1>4
<1>6. f[i - 1] = g[i - 1]
  BY <1>2, <1>5, ZenonT(60)
<1> QED
  BY <1>1, <1>3, <1>5, <1>6, ZenonT(60)

\* The function Replay chooses.
LEMMA ReplayOf ==
  ASSUME NEW base, base.number \in Nat, NEW b, Len(b) \in Nat, base.number <= Len(b)
  PROVE  \E f : IsReplay(f, base, b, Len(b)) /\ Replay(base, b) = f[Len(b)]
<1> DEFINE f == CHOOSE f : IsReplay(f, base, b, Len(b))
<1>1. \E g : IsReplay(g, base, b, Len(b))
  BY ReplayExists, ZenonT(60)
<1>2. IsReplay(f, base, b, Len(b))
  BY <1>1, ZenonT(60)
<1>3. Replay(base, b) = f[Len(b)]
  BY ReplayChoice, ZenonT(60)
<1> QED
  BY <1>2, <1>3, ZenonT(60)

\* A snapshot is its own replay up to its block.
LEMMA ReplayBase ==
  ASSUME NEW base, base.number \in Nat, NEW b, Len(b) = base.number
  PROVE  Replay(base, b) = base
<1>1. Len(b) \in Nat /\ base.number <= Len(b)
  OBVIOUS
<1>2. PICK f : IsReplay(f, base, b, Len(b)) /\ Replay(base, b) = f[Len(b)]
  BY <1>1, ReplayOf, ZenonT(60)
<1>3. f[base.number] = base
  BY <1>1, <1>2, ReplayValues
<1> QED
  BY <1>2, <1>3, ZenonT(60)

\* Replaying one more header.
LEMMA ReplayStep ==
  ASSUME NEW base, base.number \in Nat, NEW S, NEW b \in Seq(S), b # <<>>,
         base.number < Len(b)
  PROVE  Replay(base, b) = Step(Replay(base, Parent(b)), b[Len(b)])
<1> DEFINE p == Parent(b)
           k == base.number
<1>1. /\ Len(b) \in Nat /\ Len(p) = Len(b) - 1 /\ Len(p) \in Nat
      /\ k <= Len(b) /\ k <= Len(p) /\ Len(p) <= Len(b)
      /\ Len(b) \in k + 1 .. Len(b)
  BY ParentFacts
<1>2. \A n \in k + 1 .. Len(p) : b[n] = p[n]
  <2>1. Len(b) - 1 \in 0 .. Len(b)
    BY <1>1
  <2>2. \A n \in 1 .. Len(b) - 1 : p[n] = b[n]
    BY <2>1, UptoFacts, ZenonT(60) DEF Parent
  <2>3. \A n \in k + 1 .. Len(p) : n \in 1 .. Len(b) - 1
    BY <1>1
  <2> QED
    BY <2>2, <2>3, ZenonT(60)
<1> HIDE DEF p
<1>3. PICK f : IsReplay(f, base, b, Len(b)) /\ Replay(base, b) = f[Len(b)]
  BY <1>1, ReplayOf, ZenonT(60)
<1>4. PICK g : IsReplay(g, base, p, Len(p)) /\ Replay(base, p) = g[Len(p)]
  BY <1>1, ReplayOf, ZenonT(60)
<1>5. f[Len(p)] = g[Len(p)]
  BY <1>1, <1>2, <1>3, <1>4, ReplayAgree
<1>6. f[Len(b)] = Step(f[Len(b) - 1], b[Len(b)])
  <2>1. \A n \in k + 1 .. Len(b) : f[n] = Step(f[n - 1], b[n])
    BY <1>1, <1>3, ReplayValues, SMTT(60)
  <2> QED
    BY <1>1, <2>1, ZenonT(60)
<1> QED
  BY <1>1, <1>3, <1>4, <1>5, <1>6, ZenonT(60) DEF p

\* The snapshot of a chain starts from the genesis and takes its headers one by one.
LEMMA TruthFollows ==
  /\ Genesis.number = 0 /\ Truth(<<>>) = Genesis
  /\ \A S : \A b \in Seq(S) :
       b # <<>> => Truth(b) = Step(Truth(Parent(b)), b[Len(b)])
<1>1. Genesis.number = 0 /\ 0 \in Nat
  BY DEF Genesis, newSnapshot
<1>2. Len(<<>>) = 0
  OBVIOUS
<1>3. Truth(<<>>) = Genesis
  BY <1>1, <1>2, ReplayBase, ZenonT(60) DEF Truth
<1>4. ASSUME NEW S, NEW b \in Seq(S), b # <<>>
      PROVE  Truth(b) = Step(Truth(Parent(b)), b[Len(b)])
  <2>1. Genesis.number < Len(b) /\ Genesis.number \in Nat
    BY <1>1, <1>4, ParentFacts
  <2> QED
    BY <1>4, <2>1, ReplayStep, ZenonT(60) DEF Truth
<1> QED
  BY <1>1, <1>3, <1>4, ZenonT(60)

\* Replaying from the right snapshot of an ancestor gives the right snapshot.
LEMMA ReplayTail ==
  ASSUME NEW S, NEW b \in Seq(S), NEW n \in 0 .. Len(b), NEW base,
         base = Truth(Upto(b, n)), base.number = n
  PROVE  Replay(base, b) = Truth(b)
<1> DEFINE Bad == {i \in Nat : n <= i /\ i <= Len(b) /\ Replay(base, Upto(b, i)) # Truth(Upto(b, i))}
<1>0. Len(b) \in Nat /\ n \in Nat /\ n <= Len(b) /\ Len(b) <= Len(b)
  OBVIOUS
<1> SUFFICES ASSUME Replay(base, b) # Truth(b) PROVE FALSE
  BY ZenonT(60)
<1>1. Upto(b, Len(b)) = b
  BY UptoEnds
<1>2. PICK i \in Bad : \A j \in Bad : i <= j
  <2>1. Len(b) \in Bad /\ Bad \subseteq Nat
    BY <1>0, <1>1, ZenonT(60)
  <2> QED
    BY <2>1, LeastNumber, ZenonT(60)
<1>3. i \in Nat /\ n <= i /\ i <= Len(b) /\ Replay(base, Upto(b, i)) # Truth(Upto(b, i))
  BY <1>2, ZenonT(60)
<1>4. i \in 0 .. Len(b) /\ base.number \in Nat
  BY <1>0, <1>3
<1>5. Upto(b, i) \in Seq(S) /\ Len(Upto(b, i)) = i
  BY <1>4, UptoFacts
<1>6. CASE i = n
  BY <1>3, <1>4, <1>5, <1>6, ReplayBase, ZenonT(60)
<1>7. CASE i # n
  <2> DEFINE c == Upto(b, i)
  <2>1. /\ i - 1 \in Nat /\ n <= i - 1 /\ i - 1 <= Len(b) /\ ~ (i <= i - 1)
        /\ base.number < Len(c) /\ i - 1 \in 0 .. i
    BY <1>0, <1>3, <1>5, <1>7
  <2>2. c # <<>>
    BY <1>5, <2>1
  <2>3. Parent(c) = Upto(b, i - 1)
    BY <1>4, <1>5, <2>1, UptoUpto, ZenonT(60) DEF Parent
  <2>4. Replay(base, Upto(b, i - 1)) = Truth(Upto(b, i - 1))
    BY <1>2, <2>1, ZenonT(60)
  <2>5. Replay(base, c) = Step(Replay(base, Parent(c)), c[Len(c)])
    BY <1>4, <1>5, <2>1, <2>2, ReplayStep, ZenonT(60)
  <2>6. Truth(c) = Step(Truth(Parent(c)), c[Len(c)])
    BY <1>5, <2>2, TruthFollows, ZenonT(60)
  <2> QED
    BY <1>3, <2>3, <2>4, <2>5, <2>6, ZenonT(60)
<1> QED
  BY <1>6, <1>7

-----------------------------------------------------------------------------
(***************************************************************************)
(* What the snapshot of a chain of acceptable headers is like.             *)
(***************************************************************************)

\* The headers a node meets, and the blocks it may store.
Headers == [signer : Addr, coinbase : Addr, nonce : {"auth", "drop"},
            difficulty : {diffInTurn, diffNoTurn}, extra : SUBSET Addr]

Block == {b \in Seq(Headers) : Len(b) <= MaxNumber}

\* A snapshot is not an error.
LEMMA SoundIsReal ==
  \A s : Sound(s) => s # Failed
  BY DEF Sound, Good, Typed, Snapshot, Failed

\* The snapshot of a chain, if every header was acceptable, is sound and has the
\* number of its block.
LEMMA TruthFacts ==
  ASSUME NEW b \in Block, Truth(b) # Failed
  PROVE  Sound(Truth(b)) /\ Truth(b).number = Len(b)
<1> DEFINE P(c) == Truth(c) = Failed \/ (Sound(Truth(c)) /\ Truth(c).number = Len(c))
           Bad == {i \in Nat : i <= Len(b) /\ ~ P(Upto(b, i))}
<1>1. b \in Seq(Headers) /\ Len(b) \in Nat /\ Len(b) <= Len(b) /\ Upto(b, Len(b)) = b
  BY UptoEnds DEF Block
<1> SUFFICES ASSUME ~ P(b) PROVE FALSE
  BY ZenonT(60)
<1> HIDE DEF P
<1>2. PICK i \in Bad : \A j \in Bad : i <= j
  <2>1. Len(b) \in Bad /\ Bad \subseteq Nat
    BY <1>1, ZenonT(60)
  <2> QED
    BY <2>1, LeastNumber, ZenonT(60)
<1>3. i \in Nat /\ i <= Len(b) /\ ~ P(Upto(b, i))
  BY <1>2, ZenonT(60)
<1> DEFINE c == Upto(b, i)
<1>4. i \in 0 .. Len(b) /\ c \in Seq(Headers) /\ Len(c) = i
  BY <1>1, <1>3, UptoFacts
<1>5. CASE i = 0
  <2>1. c = <<>>
    BY <1>1, <1>5, UptoEnds
  <2> QED
    BY <1>3, <1>4, <1>5, <2>1, TruthFollows, GenesisSound, ZenonT(60) DEF P
<1>6. CASE i # 0
  <2> DEFINE p == Parent(c)
             h == c[Len(c)]
  <2>1. i - 1 \in Nat /\ i - 1 <= Len(b) /\ ~ (i <= i - 1) /\ i - 1 \in 0 .. i
        /\ (i - 1) + 1 = i
    BY <1>1, <1>3, <1>6
  <2>2. c # <<>>
    BY <1>4, <1>6
  <2>3. p = Upto(b, i - 1) /\ Len(p) = i - 1 /\ h \in Headers
    <3>1. Len(p) = Len(c) - 1 /\ h \in Headers
      BY <1>4, <2>2, ParentFacts
    <3>2. p = Upto(b, i - 1)
      BY <1>1, <1>4, <2>1, UptoUpto, ZenonT(60) DEF Parent
    <3> QED
      BY <1>4, <3>1, <3>2
  <2> HIDE DEF c
  <2>4. P(p)
    BY <1>2, <2>1, <2>3, ZenonT(60)
  <2>5. Truth(c) = Step(Truth(p), h)
    BY <1>4, <2>2, TruthFollows, ZenonT(60)
  <2>6. Addressed(h)
    BY <2>3 DEF Headers, Addressed
  <2> HIDE DEF p, h
  <2>7. CASE Truth(p) = Failed \/ ~ Accepts(Truth(p), h)
    <3>1. Truth(c) = Failed
      BY <2>5, <2>7 DEF Step
    <3> QED
      BY <1>3, <3>1, ZenonT(60) DEF P, c
  <2>8. CASE Truth(p) # Failed /\ Accepts(Truth(p), h)
    <3> DEFINE s == Truth(p)
    <3>1. Truth(c) = apply(s, h)
      BY <2>5, <2>8 DEF Step
    <3>2. Sound(s) /\ s.number = i - 1
      BY <2>3, <2>4, <2>8 DEF P
    <3>3. Sound(apply(s, h)) /\ apply(s, h).number = s.number + 1
      BY <2>6, <2>8, <3>2, ApplySound
    <3>4. Truth(c).number = Len(c)
      BY <1>4, <2>1, <3>1, <3>2, <3>3, ZenonT(60)
    <3> QED
      BY <1>3, <3>1, <3>3, <3>4, ZenonT(60) DEF P, c
  <2> QED
    BY <2>7, <2>8
<1> QED
  BY <1>5, <1>6

\* The blocks of a batch or of a chain, and their parents, are blocks.
LEMMA BlockFacts ==
  ASSUME NEW b \in Block
  PROVE  /\ b \in Seq(Headers) /\ Len(b) \in Nat /\ Len(b) <= MaxNumber
         /\ \A n \in 0 .. Len(b) : Upto(b, n) \in Block /\ Len(Upto(b, n)) = n
         /\ b # <<>> => /\ Parent(b) \in Block /\ Len(b) >= 1
                        /\ Len(Parent(b)) = Len(b) - 1 /\ b[Len(b)] \in Headers
<1>1. b \in Seq(Headers) /\ Len(b) \in Nat /\ Len(b) <= MaxNumber /\ MaxNumber \in Nat
  BY EngineAssumption DEF Block
<1>2. ASSUME NEW n \in 0 .. Len(b) PROVE Upto(b, n) \in Block /\ Len(Upto(b, n)) = n
  <2>1. Upto(b, n) \in Seq(Headers) /\ Len(Upto(b, n)) = n
    BY <1>1, UptoFacts
  <2> QED
    BY <1>1, <2>1 DEF Block
<1>3. ASSUME b # <<>>
      PROVE  /\ Parent(b) \in Block /\ Len(b) >= 1
             /\ Len(Parent(b)) = Len(b) - 1 /\ b[Len(b)] \in Headers
  <2>1. /\ Parent(b) \in Seq(Headers) /\ Len(b) >= 1
        /\ Len(Parent(b)) = Len(b) - 1 /\ b[Len(b)] \in Headers
    BY <1>1, <1>3, ParentFacts
  <2> QED
    BY <1>1, <2>1 DEF Block
<1> QED
  BY <1>1, <1>2, <1>3

-----------------------------------------------------------------------------
(***************************************************************************)
(* Three ways to say who may sign: apply, verifySeal and Seal.             *)
(***************************************************************************)

\* An unsigned subtraction that does not wrap is a subtraction.
LEMMA MinusExact ==
  ASSUME NEW x \in Nat, NEW y \in Nat, y <= x, x < Uint64
  PROVE  Minus(x, y) = x - y
<1>1. Uint64 \in Nat /\ Uint64 > 0 /\ x - y \in 0 .. Uint64 - 1
  BY EngineAssumption
<1> QED
  BY <1>1 DEF Minus

\* Block numbers are far from the largest unsigned number.
LEMMA UintIsLarge == MaxNumber \in Nat /\ Uint64 \in Nat /\ MaxNumber < Uint64
<1>1. Cardinality(Addr) \in Nat
  BY EngineAssumption, FS_CardinalityType
<1> QED
  BY <1>1, EngineAssumption

\* The limit, for a chain that started with few signers, does not reach below the
\* genesis once a block bars its author.
LEMMA LimitWithinChain ==
  ASSUME FewSigners, NEW s, Sound(s), s.recents # {}
  PROVE  Limit(s) <= s.number + 1
<1>1. s.number \in Nat /\ IsFiniteSet(s.signers) /\ Cardinality(s.signers) \in Nat
  BY FS_CardinalityType DEF Sound, Good, Typed, Snapshot
<1>2. s.number >= 1
  <2>1. PICK r \in s.recents : TRUE
    BY ZenonT(60)
  <2>2. r.number \in 1 .. s.number
    BY <2>1 DEF Sound
  <2> QED
    BY <1>1, <2>2
<1>3. Cardinality(s.signers) <= s.number + 2
  BY <1>2 DEF Sound
<1> DEFINE k == Cardinality(s.signers)
<1> HIDE DEF k
<1>4. k \in Nat /\ k <= s.number + 2
  BY <1>1, <1>3 DEF k
<1>5. k \div 2 <= s.number
  BY <1>1, <1>2, <1>4
<1>6. Limit(s) = k \div 2 + 1 /\ k \div 2 \in Nat
  BY <1>4 DEF Limit, k
<1> QED
  BY <1>1, <1>5, <1>6

\* An author none of whose blocks is inside the window is accepted: apply shifts
\* the one block out that is at its edge.
LEMMA OutsideWindow ==
  ASSUME NEW s, Sound(s), NEW h, h.signer \in s.signers, h.nonce # "other",
         \A r \in s.recents : r.signer = h.signer => r.number + Limit(s) <= s.number + 1
  PROVE  Accepts(s, h)
<1>1. Typed(s) /\ s.number \in Nat /\ Limit(s) \in Nat
  BY LimitType DEF Sound, Good, Typed, Snapshot
<1>2. /\ Shifted(s).signers = s.signers
      /\ Shifted(s).recents = {r \in s.recents : r.number + Limit(s) # s.number + 1}
  BY <1>1, ShiftedShape
<1>3. ASSUME NEW r \in Shifted(s).recents PROVE r.signer # h.signer
  <2>1. r \in s.recents /\ r.number + Limit(s) # s.number + 1
    BY <1>2, <1>3
  <2>2. r.number \in 1 .. s.number /\ r.number + Limit(s) > s.number
    BY <2>1 DEF Sound
  <2> QED
    BY <1>1, <2>1, <2>2
<1> QED
  BY <1>2, <1>3 DEF Accepts, Authorized

\* What verifyHeader accepts, apply accepts, for few signers.
LEMMA VerifiedAccepted ==
  ASSUME FewSigners, NEW s, Sound(s), s.number + 1 <= MaxNumber, NEW h,
         verifyHeader(s, s.number + 1, h)
  PROVE  Accepts(s, h)
<1> DEFINE number == s.number + 1
           L == Limit(s)
<1>1. s.number \in Nat /\ L \in Nat /\ number \in Nat
  BY LimitType DEF Sound, Good, Typed, Snapshot
<1>2. h.signer \in s.signers /\ ~ RecentlySigned(s, number, h.signer) /\ h.nonce # "other"
  BY DEF verifyHeader, verifySeal, WellFormed
<1>3. ASSUME NEW r \in s.recents, r.signer = h.signer
      PROVE  r.number + L <= number
  <2>1. L <= number
    BY <1>3, LimitWithinChain
  <2>2. number < Uint64
    BY <1>1, UintIsLarge
  <2>3. Minus(number, L) = number - L
    BY <1>1, <2>1, <2>2, MinusExact
  <2>4. ~ (r.number > number - L)
    BY <1>2, <1>3, <2>3 DEF RecentlySigned
  <2>5. r.number \in Nat
    BY <1>1, <1>3 DEF Sound
  <2> QED
    BY <1>1, <2>4, <2>5
<1> QED
  BY <1>2, <1>3, OutsideWindow

\* What Seal signs, apply accepts and verifySeal finds outside the window.
LEMMA SealAccepted ==
  ASSUME NEW s, Sound(s), s.number + 1 <= MaxNumber, NEW a, MaySeal(s, s.number + 1, a)
  PROVE  /\ ~ RecentlySigned(s, s.number + 1, a)
         /\ \A h : h.signer = a /\ h.nonce # "other" => Accepts(s, h)
<1> DEFINE number == s.number + 1
           L == Limit(s)
<1>1. s.number \in Nat /\ L \in Nat /\ number \in Nat /\ number < Uint64
  BY LimitType, UintIsLarge DEF Sound, Good, Typed, Snapshot
<1>2. a \in s.signers
  BY DEF MaySeal
<1>3. ASSUME NEW r \in s.recents, r.signer = a
      PROVE  r.number + L <= number /\ ~ (r.number > Minus(number, L))
  <2>1. number >= L /\ r.number <= number - L /\ r.number \in Nat
    BY <1>1, <1>3 DEF MaySeal, Sound
  <2>2. Minus(number, L) = number - L
    BY <1>1, <2>1, MinusExact
  <2> QED
    BY <1>1, <2>1, <2>2
<1>4. ASSUME NEW h, h.signer = a, h.nonce # "other" PROVE Accepts(s, h)
  BY <1>2, <1>3, <1>4, OutsideWindow
<1> QED
  BY <1>3, <1>4 DEF RecentlySigned

\* A turn is one signer's.
LEMMA TurnIsUnique ==
  ASSUME NEW s, Typed(s), NEW n, NEW a \in s.signers, NEW b \in s.signers,
         inturn(s, n, a), inturn(s, n, b)
  PROVE  a = b
<1> DEFINE Below(x) == {y \in s.signers : y < x}
<1>1. s.signers \subseteq Nat /\ IsFiniteSet(s.signers)
  BY EngineAssumption, ZenonT(60) DEF Typed, Snapshot
<1>2. Cardinality(Below(a)) = Cardinality(Below(b))
  BY DEF inturn, Offset
<1>3. ASSUME NEW x \in s.signers, NEW y \in s.signers, x < y
      PROVE  Cardinality(Below(x)) < Cardinality(Below(y))
  <2>1. Below(x) \subseteq Below(y) /\ x \in Below(y) /\ x \notin Below(x)
    BY <1>1, <1>3
  <2>2. IsFiniteSet(Below(y))
    BY <1>1, FS_Subset
  <2> HIDE DEF Below
  <2>3. Below(x) # Below(y)
    BY <2>1, ZenonT(60)
  <2>4. /\ Cardinality(Below(x)) <= Cardinality(Below(y))
        /\ Cardinality(Below(x)) = Cardinality(Below(y)) => Below(x) = Below(y)
        /\ IsFiniteSet(Below(x))
    BY <2>1, <2>2, FS_Subset, ZenonT(60)
  <2>5. Cardinality(Below(x)) \in Nat /\ Cardinality(Below(y)) \in Nat
    BY <2>2, <2>4, FS_CardinalityType, ZenonT(60)
  <2> QED
    BY <2>3, <2>4, <2>5
<1>4. \A x \in s.signers : Cardinality(Below(x)) \in Nat
  BY <1>1, FS_Subset, FS_CardinalityType
<1> HIDE DEF Below
<1>5. ~ (a < b) /\ ~ (b < a)
  BY <1>2, <1>3, <1>4
<1> QED
  BY <1>1, <1>5

-----------------------------------------------------------------------------
(***************************************************************************)
(* The inductive invariant.                                                *)
(***************************************************************************)

\* The last header of b passes verification on top of its parent.
Verified(b) == verifyHeader(Truth(Parent(b)), Len(b), b[Len(b)])

\* A store of snapshots holds the right ones.
Coherent(kept) ==
  DOMAIN kept \subseteq Block /\ \A b \in DOMAIN kept : kept[b] = Truth(b) /\ Truth(b) # Failed

\* The database has the whole chain of every block.
ChainInv ==
  /\ known \subseteq Block /\ <<>> \in known /\ head \in known
  /\ \A b \in known : \A n \in 0 .. Len(b) : Upto(b, n) \in known

\* The blocks that may be inserted were verified, on top of a stored one.
BatchInv ==
  batch # None =>
    /\ batch.block \in Block /\ batch.from \in Nat /\ batch.good \in Nat
    /\ batch.from <= batch.good /\ batch.good <= Len(batch.block)
    /\ Upto(batch.block, batch.from) \in known
    /\ \A n \in batch.from + 1 .. batch.good : Verified(Upto(batch.block, n))

\* A prepared header is right for its parent, whatever was stored since.
Prepared(w) ==
  LET s == Truth(w.parent)
      checkpoint == (Len(w.parent) + 1) % Epoch = 0
  IN /\ w.parent \in known /\ Len(w.parent) < MaxNumber /\ s # Failed
     /\ w.coinbase \in Addr /\ w.nonce \in {"auth", "drop"}
     /\ checkpoint => w.coinbase = ZeroAddress /\ w.nonce = "drop"
     /\ w.difficulty = calcDifficulty(s, w.by)
     /\ w.extra = IF checkpoint THEN s.signers ELSE {}

\* A sealed block is acceptable, and in order if its key was not changed.
SealedInv(x) ==
  /\ x.block \in Block /\ x.block # <<>> /\ Parent(x.block) \in known
  /\ Truth(x.block) # Failed
  /\ x.by = x.block[Len(x.block)].signer => Verified(x.block)

MinerInv ==
  /\ signer \in Addr /\ DOMAIN proposals \subseteq Addr
  /\ work # None => Prepared(work)
  /\ \A x \in sealed : SealedInv(x)

\* Without keys, the node only stores blocks that it verified or that it sealed
\* with the account they were prepared for.
OneAccount ==
  Keys = {} =>
    /\ signer = ZeroAddress
    /\ work # None => work.by = ZeroAddress
    /\ \A x \in sealed : x.by = x.block[Len(x.block)].signer
    /\ \A b \in known : b # <<>> => Verified(b)

IInv ==
  /\ ChainInv /\ BatchInv /\ Coherent(cache) /\ Coherent(disk) /\ MinerInv /\ OneAccount
  /\ FewSigners => StoredIsAuthorized

-----------------------------------------------------------------------------
(***************************************************************************)
(* Clique.snapshot.                                                        *)
(***************************************************************************)

\* A block signed over a prepared header is acceptable and, for the account it was
\* prepared for, in order.
LEMMA SignedBlock ==
  ASSUME ChainInv, NEW w, Prepared(w), NEW a, MaySeal(Truth(w.parent), Len(w.parent) + 1, a)
  PROVE  LET h == [signer |-> a, coinbase |-> w.coinbase, nonce |-> w.nonce,
                   difficulty |-> w.difficulty, extra |-> w.extra]
             b == Append(w.parent, h)
         IN /\ b \in Block /\ b # <<>> /\ Parent(b) = w.parent
            /\ b[Len(b)].signer = a /\ Truth(b) # Failed
            /\ w.by = a => Verified(b)
<1> DEFINE p == w.parent
           s == Truth(p)
           number == Len(p) + 1
           h == [signer |-> a, coinbase |-> w.coinbase, nonce |-> w.nonce,
                 difficulty |-> w.difficulty, extra |-> w.extra]
           b == Append(p, h)
<1>1. /\ p \in known /\ Len(p) < MaxNumber /\ s # Failed
      /\ w.coinbase \in Addr /\ w.nonce \in {"auth", "drop"}
      /\ number % Epoch = 0 => w.coinbase = ZeroAddress /\ w.nonce = "drop"
      /\ w.difficulty = calcDifficulty(s, w.by)
      /\ w.extra = IF number % Epoch = 0 THEN s.signers ELSE {}
  BY DEF Prepared
<1>2. p \in Block /\ p \in Seq(Headers) /\ Len(p) \in Nat /\ MaxNumber \in Nat
  BY <1>1, BlockFacts, EngineAssumption DEF ChainInv
<1> HIDE DEF p, s
<1>3. Sound(s) /\ s.number = Len(p)
  BY <1>1, <1>2, TruthFacts DEF s
<1>4. s.signers \subseteq Addr /\ a \in s.signers /\ a \in Addr
  BY <1>3 DEF Sound, Good, Typed, Snapshot, MaySeal, s, p
<1>5. /\ h.signer = a /\ h.coinbase = w.coinbase /\ h.nonce = w.nonce
      /\ h.difficulty = w.difficulty /\ h.extra = w.extra
  OBVIOUS
<1>6. w.difficulty \in {diffInTurn, diffNoTurn}
  BY <1>1 DEF calcDifficulty
<1>7. h \in Headers
  BY <1>1, <1>4, <1>6 DEF Headers
<1> HIDE DEF h
<1>8. b \in Seq(Headers) /\ b # <<>> /\ Len(b) = number /\ b[Len(b)] = h /\ Parent(b) = p
  BY <1>2, <1>7, AppendFacts, ZenonT(60)
<1> HIDE DEF b
<1>9. b \in Block
  BY <1>1, <1>2, <1>8 DEF Block
<1>10. s.number + 1 = number /\ number <= MaxNumber /\ MaySeal(s, number, a)
  BY <1>1, <1>2, <1>3 DEF s, p
<1>11. /\ ~ RecentlySigned(s, number, a)
       /\ \A x : x.signer = a /\ x.nonce # "other" => Accepts(s, x)
  BY <1>3, <1>10, SealAccepted
<1>12. h.nonce # "other" /\ Addressed(h)
  BY <1>1, <1>4, <1>5 DEF Addressed
<1>13. Accepts(s, h)
  BY <1>5, <1>11, <1>12, ZenonT(60)
<1>14. apply(s, h) # Failed
  BY <1>3, <1>12, <1>13, ApplySound, SoundIsReal
<1>15. Truth(b) = Step(s, h)
  BY <1>8, TruthFollows, ZenonT(60) DEF s
<1>16. Truth(b) # Failed
  BY <1>1, <1>13, <1>14, <1>15 DEF Step
<1>17. ASSUME w.by = a PROVE Verified(b)
  <2>1. WellFormed(number, h)
    BY <1>1, <1>5, <1>12 DEF WellFormed
  <2>2. h.difficulty = IF inturn(s, number, h.signer) THEN diffInTurn ELSE diffNoTurn
    BY <1>1, <1>5, <1>10, <1>17 DEF calcDifficulty
  <2>3. verifySeal(s, number, h)
    BY <1>4, <1>5, <1>11, <2>2 DEF verifySeal
  <2>4. verifyHeader(s, number, h)
    BY <1>1, <1>5, <1>6, <2>1, <2>3 DEF verifyHeader
  <2> QED
    BY <1>8, <2>4 DEF Verified, s
<1>18. b[Len(b)].signer = a
  BY <1>5, <1>8
<1> QED
  BY <1>8, <1>9, <1>16, <1>17, <1>18, ZenonT(60) DEF b, h, p

\* Adding a right snapshot.
LEMMA PutCoherent ==
  ASSUME NEW kept, Coherent(kept), NEW b \in Block, Truth(b) # Failed
  PROVE  Coherent(Put(kept, b, Truth(b)))
<1>1. DOMAIN Put(kept, b, Truth(b)) = DOMAIN kept \cup {b}
  BY DEF Put
<1>2. \A x \in DOMAIN kept \cup {b} :
        Put(kept, b, Truth(b))[x] = IF x = b THEN Truth(b) ELSE kept[x]
  BY DEF Put
<1> QED
  BY <1>1, <1>2 DEF Coherent

\* Forgetting a snapshot.
LEMMA DeleteCoherent ==
  ASSUME NEW kept, Coherent(kept), NEW c
  PROVE  Coherent(Delete(kept, c))
<1>1. DOMAIN Delete(kept, c) = DOMAIN kept \ {c}
  BY DEF Delete
<1>2. \A x \in DOMAIN kept \ {c} : Delete(kept, c)[x] = kept[x]
  BY DEF Delete
<1> QED
  BY <1>1, <1>2 DEF Coherent

\* Adding to the cache, which may have to forget another snapshot.
LEMMA AddedCoherent ==
  ASSUME Coherent(cache), NEW b \in Block, Truth(b) # Failed
  PROVE  \A c \in Added(b, Truth(b)) : Coherent(c)
<1>1. Coherent(Put(cache, b, Truth(b)))
  BY PutCoherent
<1>2. ASSUME NEW c \in DOMAIN cache PROVE Coherent(Put(Delete(cache, c), b, Truth(b)))
  <2>1. Coherent(Delete(cache, c))
    BY DeleteCoherent
  <2> QED
    BY <2>1, PutCoherent
<1> QED
  BY <1>1, <1>2 DEF Added

\* Only the genesis is ever trusted: no checkpoint is without its parent or below
\* too many headers.
LEMMA OnlyGenesisTrusted ==
  ASSUME FromGenesis, ChainInv, NEW b \in Block, NEW n \in 0 .. Len(b), Trusted(b, n)
  PROVE  n = 0 /\ TrustedSnapshot(n) = Genesis
<1>1. /\ Len(b) \in Nat /\ Len(b) <= MaxNumber /\ MaxNumber \in Nat /\ n \in Nat
      /\ MaxNumber <= FullImmutabilityThreshold /\ FullImmutabilityThreshold \in Nat
  BY BlockFacts, EngineAssumption DEF FromGenesis
<1>2. head \in Block /\ head \in known /\ Len(head) \in Nat
  BY BlockFacts DEF ChainInv
<1>3. n = 0
  <2> SUFFICES ASSUME n # 0 PROVE FALSE
    OBVIOUS
  <2>1. ~ HasHeaderByNumber(n - 1) /\ HasHeaderByNumber(n)
    BY <1>1 DEF Trusted
  <2>2. n - 1 \in 0 .. Len(head) /\ n - 1 <= Len(head)
    BY <1>1, <1>2, <2>1 DEF HasHeaderByNumber
  <2> QED
    BY <1>2, <2>1, <2>2 DEF HasHeaderByNumber, ChainInv
<1> QED
  BY <1>3 DEF TrustedSnapshot, Genesis

\* Where the walk towards the genesis stops.
LEMMA StopFacts ==
  ASSUME NEW b \in Block, NEW available
  PROVE  LET n == StopsAt(b, available) IN
         \/ n = -1
         \/ n \in 0 .. Len(b) /\ (InMemory(b, n) \/ OnDisk(b, n) \/ Trusted(b, n))
<1> DEFINE stops == {n \in 0 .. Len(b) : InMemory(b, n) \/ OnDisk(b, n) \/ Trusted(b, n)}
           n == IF stops = {} THEN -1 ELSE Max(stops)
<1>1. StopsAt(b, available) \in {n, -1}
  BY DEF StopsAt
<1>2. Len(b) \in Nat /\ stops \subseteq 0 .. Len(b)
  BY BlockFacts
<1>3. stops # {} => Max(stops) \in stops
  BY <1>2, MaxNumberOf, ZenonT(60)
<1> QED
  BY <1>1, <1>3, ZenonT(60)

\* The snapshot a walk starts from is the right one for where it stopped.
LEMMA BaseFacts ==
  ASSUME FromGenesis, ChainInv, Coherent(cache), Coherent(disk), NEW b \in Block,
         NEW n \in 0 .. Len(b), InMemory(b, n) \/ OnDisk(b, n) \/ Trusted(b, n)
  PROVE  LET base == IF InMemory(b, n) THEN cache[Upto(b, n)]
                     ELSE IF OnDisk(b, n) THEN disk[Upto(b, n)] ELSE TrustedSnapshot(n)
         IN /\ Replay(base, b) = Truth(b)
            /\ ~ InMemory(b, n) /\ ~ OnDisk(b, n) =>
                 n = 0 /\ base = Truth(<<>>) /\ Upto(head, n) = <<>> /\ Truth(<<>>) # Failed
<1> DEFINE base == IF InMemory(b, n) THEN cache[Upto(b, n)]
                   ELSE IF OnDisk(b, n) THEN disk[Upto(b, n)] ELSE TrustedSnapshot(n)
           c == Upto(b, n)
<1>1. b \in Seq(Headers) /\ c \in Block /\ Len(c) = n
  BY BlockFacts
<1>2. CASE InMemory(b, n) \/ OnDisk(b, n)
  <2>1. base = Truth(c) /\ Truth(c) # Failed
    BY <1>2 DEF InMemory, OnDisk, Coherent
  <2>2. base.number = n
    BY <1>1, <2>1, TruthFacts, ZenonT(60)
  <2>3. Replay(base, b) = Truth(b)
    BY <1>1, <2>1, <2>2, ReplayTail, ZenonT(60)
  <2> QED
    BY <1>2, <2>3, ZenonT(60)
<1>3. CASE ~ InMemory(b, n) /\ ~ OnDisk(b, n)
  <2>1. n = 0 /\ base = Genesis
    BY <1>3, OnlyGenesisTrusted
  <2>2. Truth(<<>>) = Genesis /\ Genesis # Failed
    BY TruthFollows, GenesisSound, SoundIsReal
  <2>3. Upto(head, n) = <<>> /\ head \in Seq(Headers)
    <3>1. head \in Seq(Headers)
      BY BlockFacts DEF ChainInv
    <3> QED
      BY <2>1, <3>1, UptoEnds
  <2>4. Replay(base, b) = Truth(b)
    BY <2>1, ZenonT(60) DEF Truth
  <2> QED
    BY <2>1, <2>2, <2>3, <2>4, ZenonT(60)
<1> QED
  BY <1>2, <1>3, ZenonT(60)

\* A call of snapshot returns the right snapshot of its block or fails, and leaves
\* only right ones in memory and on disk.
LEMMA SnapshotFacts ==
  ASSUME FromGenesis, ChainInv, Coherent(cache), Coherent(disk), NEW b \in Block,
         NEW available, NEW writes
  PROVE  LET outcome == snapshot(b, available, writes) IN
         /\ outcome.snap \in {Failed, Truth(b)}
         /\ \A c \in outcome.caches : Coherent(c)
         /\ Coherent(outcome.disk)
<1> DEFINE n == StopsAt(b, available)
           trusts == ~ InMemory(b, n) /\ ~ OnDisk(b, n)
           base == IF InMemory(b, n) THEN cache[Upto(b, n)]
                   ELSE IF OnDisk(b, n) THEN disk[Upto(b, n)] ELSE TrustedSnapshot(n)
           stored == IF trusts THEN Put(disk, Upto(head, n), base) ELSE disk
           result == Replay(base, b)
           hash == IF trusts /\ n = Len(b) THEN Upto(head, n) ELSE b
           saves == Len(b) % checkpointInterval = 0 /\ n < Len(b)
           Outcome(s, c, d) == [snap |-> s, caches |-> c, disk |-> d]
           outcome == snapshot(b, available, writes)
           Right == /\ outcome.snap \in {Failed, Truth(b)}
                    /\ \A c \in outcome.caches : Coherent(c)
                    /\ Coherent(outcome.disk)
<1>1. \/ outcome = Outcome(Failed, {cache}, disk)
      \/ n # -1 /\ result = Failed /\ outcome = Outcome(Failed, {cache}, stored)
      \/ /\ n # -1 /\ result # Failed
         /\ \/ outcome = Outcome(result, Added(hash, result), stored)
            \/ outcome = Outcome(Failed, Added(hash, result), stored)
            \/ outcome = Outcome(result, Added(hash, result), Put(stored, b, result))
  BY ZenonT(60) DEF snapshot
<1> HIDE DEF outcome
<1>2. ASSUME outcome = Outcome(Failed, {cache}, disk) PROVE Right
  BY <1>2
<1>3. ASSUME n # -1
      PROVE  result = Truth(b) /\ Coherent(stored) /\ hash = b
  <2> HIDE DEF n
  <2>1. n \in 0 .. Len(b) /\ (InMemory(b, n) \/ OnDisk(b, n) \/ Trusted(b, n))
    BY <1>3, StopFacts, ZenonT(60) DEF n
  <2>2. /\ Replay(base, b) = Truth(b)
        /\ trusts => n = 0 /\ base = Truth(<<>>) /\ Upto(head, n) = <<>> /\ Truth(<<>>) # Failed
    BY <2>1, BaseFacts, ZenonT(60)
  <2> HIDE DEF base
  <2>3. Coherent(stored)
    <3>1. <<>> \in Block
      BY DEF ChainInv
    <3> QED
      BY <2>2, <3>1, PutCoherent, ZenonT(60)
  <2>4. hash = b
    <3>1. trusts /\ n = Len(b) => b = <<>>
      <4>1. b \in Seq(Headers)
        BY BlockFacts
      <4> QED
        BY <2>2, <4>1
    <3> QED
      BY <2>2, <3>1, ZenonT(60)
  <2> QED
    BY <2>2, <2>3, <2>4, ZenonT(60)
<1> HIDE DEF result, stored, hash, n
<1>4. ASSUME n # -1 /\ result = Failed /\ outcome = Outcome(Failed, {cache}, stored)
      PROVE  Right
  BY <1>3, <1>4
<1>5. ASSUME /\ n # -1 /\ result # Failed
             /\ \/ outcome = Outcome(result, Added(hash, result), stored)
                \/ outcome = Outcome(Failed, Added(hash, result), stored)
                \/ outcome = Outcome(result, Added(hash, result), Put(stored, b, result))
      PROVE  Right
  <2>1. result = Truth(b) /\ Truth(b) # Failed /\ Coherent(stored) /\ hash = b
    BY <1>3, <1>5
  <2>2. Coherent(Put(stored, b, Truth(b))) /\ \A c \in Added(b, Truth(b)) : Coherent(c)
    BY <2>1, PutCoherent, AddedCoherent, ZenonT(60)
  <2>3. Coherent(Put(stored, b, result)) /\ \A c \in Added(hash, result) : Coherent(c)
    BY <2>1, <2>2, ZenonT(60)
  <2> QED
    BY <1>5, <2>1, <2>3
<1> QED
  BY <1>1, <1>2, <1>4, <1>5, ZenonT(60) DEF outcome

-----------------------------------------------------------------------------
(***************************************************************************)
(* Every step keeps the invariant.                                         *)
(***************************************************************************)

\* The node starts with its genesis and nothing else.
LEMMA InitIInv ==
  ASSUME FromGenesis, Init
  PROVE  IInv
<1>1. head = <<>>
  <2>1. head \in [1 .. 0 -> UNION {Received(n) : n \in 1 .. StartNumber}]
    BY DEF Init, FromGenesis
  <2> QED
    BY <2>1
<1>2. known = {<<>>} /\ head \in known
  BY <1>1 DEF Init
<1>3. <<>> \in Block /\ <<>> \in Seq(Headers) /\ Len(<<>>) = 0
  BY EngineAssumption DEF Block
<1>4. ChainInv
  <2>1. Upto(<<>>, 0) = <<>>
    BY <1>3, UptoEnds, ZenonT(60)
  <2>2. \A n \in 0 .. Len(<<>>) : n = 0
    BY <1>3
  <2> QED
    BY <1>2, <1>3, <2>1, <2>2, ZenonT(60) DEF ChainInv
<1>5. BatchInv
  BY DEF Init, BatchInv
<1>6. Coherent(cache) /\ Coherent(disk)
  BY DEF Init, NoEntry, Coherent
<1>7. MinerInv
  BY CliqueAssumption DEF Init, MinerInv, NoEntry
<1>8. OneAccount
  BY <1>2 DEF Init, OneAccount
<1>9. StoredIsAuthorized
  BY <1>2, TruthFollows, GenesisSound, SoundIsReal DEF StoredIsAuthorized
<1> QED
  BY <1>4, <1>5, <1>6, <1>7, <1>8, <1>9 DEF IInv

\* Steps that only call snapshot keep everything else.
LEMMA TakesCoherent ==
  ASSUME FromGenesis, IInv, NEW b \in Block, NEW available, NEW writes,
         Takes(snapshot(b, available, writes), writes)
  PROVE  Coherent(cache') /\ Coherent(disk')
<1>1. ChainInv /\ Coherent(cache) /\ Coherent(disk)
  BY DEF IInv
<1> DEFINE outcome == snapshot(b, available, writes)
<1>2. (\A c \in outcome.caches : Coherent(c)) /\ Coherent(outcome.disk)
  BY <1>1, SnapshotFacts
<1> HIDE DEF outcome
<1>3. cache' \in outcome.caches /\ disk' = outcome.disk
  BY DEF Takes, outcome
<1> QED
  BY <1>2, <1>3

\* Steps that store no block keep the chain in order.
LEMMA ChainKept ==
  ASSUME IInv, UNCHANGED <<known, head>>
  PROVE  ChainInv' /\ (FewSigners => StoredIsAuthorized')
  BY DEF IInv, ChainInv, StoredIsAuthorized

\* What does not depend on the miner's own state survives more stored blocks.
LEMMA BatchKept ==
  ASSUME BatchInv, known \subseteq known', batch' = batch \/ batch' = None
  PROVE  BatchInv'
  BY DEF BatchInv

\* A header stays prepared, and a block sealed, when more blocks are stored.
LEMMA MinerKept ==
  ASSUME MinerInv, known \subseteq known', UNCHANGED <<signer, proposals>>,
         work' = work \/ work' = None, sealed' \subseteq sealed
  PROVE  MinerInv'
<1>1. ASSUME work' # None PROVE Prepared(work)'
  BY <1>1 DEF MinerInv, Prepared
<1>2. ASSUME NEW x \in sealed' PROVE SealedInv(x)'
  BY <1>2 DEF MinerInv, SealedInv
<1> QED
  BY <1>1, <1>2 DEF MinerInv

\* Storing a block whose parent is stored.
LEMMA WriteKeeps ==
  ASSUME IInv, NEW b \in Block, b # <<>>, Parent(b) \in known,
         FewSigners => Truth(b) # Failed, Keys = {} => Verified(b),
         writeBlockWithState(b)
  PROVE  /\ ChainInv' /\ known \subseteq known'
         /\ FewSigners => StoredIsAuthorized'
         /\ Keys = {} => \A c \in known' : c # <<>> => Verified(c)
<1>1. known' = known \cup {b} /\ head' \in {b, head}
  BY DEF writeBlockWithState, ForkChoice
<1>2. ChainInv
  BY DEF IInv
<1>3. ASSUME NEW n \in 0 .. Len(b) PROVE Upto(b, n) \in known'
  <2>1. b \in Seq(Headers) /\ Len(b) \in Nat /\ Len(Parent(b)) = Len(b) - 1
    BY BlockFacts
  <2>2. CASE n = Len(b)
    BY <1>1, <2>1, <2>2, UptoEnds
  <2>3. CASE n # Len(b)
    <3>1. n \in 0 .. Len(b) - 1 /\ n \in 0 .. Len(Parent(b))
      BY <2>1, <2>3
    <3>2. Upto(Parent(b), n) = Upto(b, n)
      BY <2>1, <3>1, ParentFacts
    <3> QED
      BY <1>1, <1>2, <3>1, <3>2 DEF ChainInv
  <2> QED
    BY <2>2, <2>3
<1>4. ChainInv'
  BY <1>1, <1>2, <1>3 DEF ChainInv
<1>5. FewSigners => StoredIsAuthorized'
  BY <1>1 DEF IInv, StoredIsAuthorized
<1>6. Keys = {} => \A c \in known' : c # <<>> => Verified(c)
  BY <1>1 DEF IInv, OneAccount
<1> QED
  BY <1>1, <1>4, <1>5, <1>6

\* Received headers are headers.
LEMMA ReceivedHeaders ==
  ASSUME NEW n, NEW h \in Received(n)
  PROVE  h \in Headers
<1>1. PICK a \in Others, v \in Ballots, d \in {diffInTurn, diffNoTurn},
           e \in IF n % Epoch = 0 THEN SignerLists ELSE {{}} :
        h = [signer |-> a, coinbase |-> v.coinbase, nonce |-> v.nonce, difficulty |-> d,
             extra |-> e]
  BY DEF Received
<1>2. a \in Addr /\ v.coinbase \in Addr /\ v.nonce \in {"auth", "drop"}
  BY EngineAssumption
<1>3. e \in SUBSET Addr
  BY EngineAssumption
<1> QED
  BY <1>1, <1>2, <1>3 DEF Headers

\* Verifying the next header of a batch.
LEMMA VerifyNextKeeps ==
  ASSUME FromGenesis, IInv, NEW p \in Block, NEW from \in Nat, NEW good \in Nat,
         from <= good, good <= Len(p), Upto(p, from) \in known,
         \A n \in from + 1 .. good : Verified(Upto(p, n)),
         NEW writes, VerifyNext(p, from, good, writes)
  PROVE  IInv'
<1> DEFINE number == Len(p) + 1
           parents == {Upto(p, n) : n \in from + 1 .. Len(p)}
           outcome == snapshot(p, known \cup parents, writes)
<1>1. PICK h \in Received(number) :
        /\ IF WellFormed(number, h) /\ (number % Epoch # 0 => h.extra = {})
           THEN Takes(outcome, writes) ELSE UNCHANGED <<snapVars, faults>>
        /\ batch' = [block |-> Append(p, h), from |-> from,
                     good |-> IF verifyHeader(outcome.snap, number, h) /\ good = Len(p)
                              THEN number ELSE good]
  BY ZenonT(60) DEF VerifyNext
<1>2. number <= MaxNumber /\ UNCHANGED <<known, head, mineVars, panicked>>
  BY DEF VerifyNext
<1>3. p \in Seq(Headers) /\ Len(p) \in Nat /\ h \in Headers
  BY BlockFacts, ReceivedHeaders
<1> DEFINE b == Append(p, h)
<1>4. /\ b \in Seq(Headers) /\ b # <<>> /\ Len(b) = number /\ b[Len(b)] = h
      /\ Parent(b) = p
      /\ \A m \in 0 .. Len(p) : Upto(b, m) = Upto(p, m)
      /\ Upto(b, Len(b)) = b
  <2>1. /\ b \in Seq(Headers) /\ b # <<>> /\ Len(b) = number /\ b[Len(b)] = h
        /\ Parent(b) = p
        /\ \A m \in 0 .. Len(p) : Upto(b, m) = Upto(p, m)
    BY <1>3, AppendFacts, ZenonT(60)
  <2> HIDE DEF b
  <2> QED
    BY <2>1, UptoEnds, ZenonT(60)
<1> HIDE DEF b
<1>5. b \in Block
  BY <1>2, <1>4 DEF Block
<1>6. outcome.snap \in {Failed, Truth(p)}
  <2>1. ChainInv /\ Coherent(cache) /\ Coherent(disk)
    BY DEF IInv
  <2> QED
    BY <2>1, SnapshotFacts
<1>7. Coherent(cache') /\ Coherent(disk')
  <2>1. CASE Takes(outcome, writes)
    BY <2>1, TakesCoherent
  <2>2. CASE UNCHANGED <<snapVars, faults>>
    BY <2>2 DEF snapVars, IInv
  <2> QED
    BY <1>1, <2>1, <2>2, ZenonT(60)
<1> HIDE DEF outcome
<1> DEFINE top == IF verifyHeader(outcome.snap, number, h) /\ good = Len(p)
                  THEN number ELSE good
<1>8. batch' = [block |-> b, from |-> from, good |-> top]
  BY <1>1, ZenonT(60) DEF b
<1>9. verifyHeader(outcome.snap, number, h) => Verified(b)
  BY <1>4, <1>6, ZenonT(60) DEF verifyHeader, Verified
<1>10. /\ top \in Nat /\ from <= top /\ top <= Len(b)
       /\ \A n \in from + 1 .. top : Verified(Upto(b, n))
  <2>1. ASSUME NEW n \in from + 1 .. good PROVE Verified(Upto(b, n))
    <3>1. n \in 0 .. Len(p)
      BY <1>3
    <3> QED
      BY <1>4, <3>1
  <2>2. CASE top = good
    BY <1>3, <1>4, <2>1, <2>2
  <2>3. CASE top = number /\ good = Len(p) /\ verifyHeader(outcome.snap, number, h)
    <3>1. Verified(Upto(b, number))
      BY <1>4, <1>9, <2>3
    <3>2. \A n \in from + 1 .. number : n \in from + 1 .. good \/ n = number
      BY <1>3, <2>3
    <3> QED
      BY <1>3, <1>4, <2>1, <2>3, <3>1, <3>2
  <2> QED
    BY <2>2, <2>3
<1> HIDE DEF top
<1>11. Upto(b, from) \in known
  <2>1. from \in 0 .. Len(p)
    BY <1>3
  <2> QED
    BY <1>4, <2>1
<1>12. BatchInv'
  <2>1. batch'.block = b /\ batch'.from = from /\ batch'.good = top
    BY <1>8
  <2> QED
    BY <1>2, <1>5, <1>10, <1>11, <2>1 DEF BatchInv
<1>13. ChainInv' /\ (FewSigners => StoredIsAuthorized')
  BY <1>2, ChainKept
<1>14. MinerInv'
  BY <1>2, MinerKept DEF IInv, mineVars
<1>15. OneAccount'
  BY <1>2 DEF IInv, OneAccount, mineVars
<1> QED
  BY <1>7, <1>12, <1>13, <1>14, <1>15 DEF IInv

\* A verified block on an acceptable chain is acceptable, for few signers.
LEMMA VerifiedBlock ==
  ASSUME FewSigners, NEW b \in Block, b # <<>>, Verified(b)
  PROVE  Truth(b) # Failed
<1> DEFINE p == Parent(b)
           s == Truth(p)
           h == b[Len(b)]
<1>1. /\ b \in Seq(Headers) /\ p \in Block /\ Len(b) \in Nat /\ Len(b) <= MaxNumber
      /\ Len(p) = Len(b) - 1 /\ h \in Headers
  BY BlockFacts
<1>2. verifyHeader(s, Len(b), h)
  BY DEF Verified
<1>3. s # Failed
  BY <1>2 DEF verifyHeader
<1>4. Sound(s) /\ s.number = Len(p)
  BY <1>1, <1>3, TruthFacts
<1>5. Truth(b) = Step(s, h)
  BY <1>1, TruthFollows, ZenonT(60)
<1> HIDE DEF s, h, p
<1>6. s.number + 1 = Len(b)
  BY <1>1, <1>4
<1>7. Accepts(s, h)
  BY <1>1, <1>2, <1>4, <1>6, VerifiedAccepted
<1>8. Addressed(h)
  BY <1>1 DEF Headers, Addressed
<1>9. apply(s, h) # Failed
  BY <1>4, <1>7, <1>8, ApplySound, SoundIsReal
<1> QED
  BY <1>3, <1>5, <1>7, <1>9 DEF Step

\* Import starts a batch on a stored block.
LEMMA ImportKeeps ==
  ASSUME FromGenesis, IInv, NEW p \in known, NEW writes, Import(p, writes)
  PROVE  IInv'
<1>1. p \in Block
  BY DEF IInv, ChainInv
<1>2. p \in Seq(Headers) /\ Len(p) \in Nat /\ Len(p) <= Len(p)
  BY <1>1, BlockFacts
<1>3. Upto(p, Len(p)) = p
  BY <1>2, UptoEnds
<1>4. \A n \in Len(p) + 1 .. Len(p) : FALSE
  BY <1>2
<1>5. VerifyNext(p, Len(p), Len(p), writes)
  BY DEF Import
<1> QED
  BY <1>1, <1>2, <1>3, <1>4, <1>5, VerifyNextKeeps, ZenonT(60)

\* Verify goes on with the batch.
LEMMA VerifyKeeps ==
  ASSUME FromGenesis, IInv, NEW writes, Verify(writes)
  PROVE  IInv'
<1>1. batch # None /\ VerifyNext(batch.block, batch.from, batch.good, writes)
  BY DEF Verify
<1>2. /\ batch.block \in Block /\ batch.from \in Nat /\ batch.good \in Nat
      /\ batch.from <= batch.good /\ batch.good <= Len(batch.block)
      /\ Upto(batch.block, batch.from) \in known
      /\ \A n \in batch.from + 1 .. batch.good : Verified(Upto(batch.block, n))
  BY <1>1 DEF IInv, BatchInv
<1> QED
  BY <1>1, <1>2, VerifyNextKeeps, ZenonT(60)

\* Insert stores the next verified block: its parent is stored already.
LEMMA InsertKeeps ==
  ASSUME FromGenesis, IInv, Insert
  PROVE  IInv'
<1> DEFINE waiting == {n \in batch.from + 1 .. batch.good : Upto(batch.block, n) \notin known}
           n == Min(waiting)
           b == Upto(batch.block, n)
<1>1. /\ batch # None /\ waiting # {} /\ writeBlockWithState(b)
      /\ UNCHANGED <<batch, snapVars, mineVars, faults, panicked>>
  BY DEF Insert
<1>2. /\ batch.block \in Block /\ batch.from \in Nat /\ batch.good \in Nat
      /\ batch.from <= batch.good /\ batch.good <= Len(batch.block)
      /\ Upto(batch.block, batch.from) \in known
      /\ \A m \in batch.from + 1 .. batch.good : Verified(Upto(batch.block, m))
  BY <1>1 DEF IInv, BatchInv
<1>3. n \in waiting /\ \A m \in waiting : n <= m
  <2>1. \A m \in waiting : m \in Nat
    BY <1>2
  <2>2. PICK k \in waiting : \A m \in waiting : k <= m
    <3>1. waiting \subseteq Nat
      BY <2>1
    <3> QED
      BY <1>1, <3>1, LeastNumber, ZenonT(60)
  <2> HIDE DEF waiting
  <2>3. n \in waiting /\ \A m \in waiting : n <= m
    BY <2>2, ZenonT(60) DEF Min
  <2> QED
    BY <2>3
<1> HIDE DEF n
<1>4. /\ n \in Nat /\ n \in batch.from + 1 .. batch.good /\ n - 1 \in Nat
      /\ Len(batch.block) \in Nat /\ n \in 0 .. Len(batch.block) /\ n - 1 \in 0 .. n
      /\ n >= 1 /\ ~ (n <= n - 1)
  <2>1. n \in batch.from + 1 .. batch.good
    BY <1>3
  <2>2. Len(batch.block) \in Nat
    BY <1>2, BlockFacts
  <2>3. batch.from \in Nat /\ batch.good \in Nat /\ batch.good <= Len(batch.block)
    BY <1>2
  <2> QED
    BY <2>1, <2>2, <2>3
<1>5. /\ b \in Block /\ Len(b) = n /\ b # <<>> /\ Verified(b)
      /\ batch.block \in Seq(Headers)
  <2>1. b \in Block /\ Len(b) = n /\ batch.block \in Seq(Headers)
    BY <1>2, <1>4, BlockFacts
  <2>2. b # <<>>
    BY <1>4, <2>1
  <2> QED
    BY <1>2, <1>4, <2>1, <2>2
<1>6. Parent(b) = Upto(batch.block, n - 1)
  BY <1>4, <1>5, UptoUpto, ZenonT(60) DEF Parent
<1>7. Parent(b) \in known
  <2>1. CASE n - 1 = batch.from
    BY <1>2, <1>6, <2>1
  <2>2. CASE n - 1 # batch.from
    <3>1. n - 1 \in batch.from + 1 .. batch.good
      BY <1>2, <1>4, <2>2
    <3> QED
      BY <1>3, <1>4, <1>6, <3>1
  <2> QED
    BY <2>1, <2>2
<1> HIDE DEF waiting, b
<1>8. ASSUME FewSigners PROVE Truth(b) # Failed
  BY <1>5, <1>7, <1>8, VerifiedBlock
<1>9. /\ ChainInv' /\ known \subseteq known'
      /\ FewSigners => StoredIsAuthorized'
      /\ Keys = {} => \A c \in known' : c # <<>> => Verified(c)
  BY <1>1, <1>5, <1>7, <1>8, WriteKeeps
<1>10. BatchInv'
  BY <1>1, <1>9, BatchKept DEF IInv
<1>11. MinerInv'
  BY <1>1, <1>9, MinerKept DEF IInv, mineVars
<1>12. OneAccount'
  BY <1>1, <1>9 DEF IInv, OneAccount, mineVars
<1>13. Coherent(cache') /\ Coherent(disk')
  BY <1>1 DEF IInv, snapVars
<1> QED
  BY <1>9, <1>10, <1>11, <1>12, <1>13 DEF IInv

\* Nothing else changes when a batch ends.
LEMMA EndBatchKeeps ==
  ASSUME IInv, EndBatch
  PROVE  IInv'
<1>1. batch' = None /\ UNCHANGED <<known, head, snapVars, mineVars>>
  BY DEF EndBatch
<1>2. ChainInv' /\ (FewSigners => StoredIsAuthorized')
  BY <1>1, ChainKept
<1>3. BatchInv'
  BY <1>1 DEF BatchInv
<1>4. MinerInv'
  BY <1>1, MinerKept DEF IInv, mineVars
<1>5. OneAccount' /\ Coherent(cache') /\ Coherent(disk')
  BY <1>1 DEF IInv, OneAccount, mineVars, snapVars
<1> QED
  BY <1>2, <1>3, <1>4, <1>5 DEF IInv

\* Asking for a snapshot changes only what is kept.
LEMMA QueryKeeps ==
  ASSUME FromGenesis, IInv, NEW b \in known, NEW writes, Query(b, writes)
  PROVE  IInv'
<1>1. UNCHANGED <<chainVars, mineVars>> /\ Takes(snapshot(b, known, writes), writes)
  BY DEF Query
<1>2. Coherent(cache') /\ Coherent(disk')
  BY <1>1, TakesCoherent DEF IInv, ChainInv
<1>3. ChainInv' /\ (FewSigners => StoredIsAuthorized')
  BY <1>1, ChainKept DEF chainVars
<1>4. BatchInv'
  BY <1>1, BatchKept DEF IInv, chainVars
<1>5. MinerInv'
  BY <1>1, MinerKept DEF IInv, chainVars, mineVars
<1>6. OneAccount'
  BY <1>1 DEF IInv, OneAccount, mineVars, chainVars
<1> QED
  BY <1>2, <1>3, <1>4, <1>5, <1>6 DEF IInv

\* The operator changes proposals or the key.
LEMMA OperatorKeeps ==
  ASSUME IInv,
         \/ \E a \in Proposable, auth \in BOOLEAN : Propose(a, auth)
         \/ \E a \in Proposable : Discard(a)
         \/ \E a \in Keys : Authorize(a)
  PROVE  IInv'
<1>1. /\ UNCHANGED <<chainVars, snapVars, work, sealed>>
      /\ DOMAIN proposals' \subseteq DOMAIN proposals \cup Proposable
      /\ signer' = signer \/ signer' \in Keys
  <2>1. CASE \E a \in Proposable, auth \in BOOLEAN : Propose(a, auth)
    BY <2>1 DEF Propose, Put
  <2>2. CASE \E a \in Proposable : Discard(a)
    BY <2>2 DEF Discard, Delete
  <2>3. CASE \E a \in Keys : Authorize(a)
    BY <2>3 DEF Authorize
  <2> QED
    BY <2>1, <2>2, <2>3
<1>2. signer' \in Addr /\ DOMAIN proposals' \subseteq Addr
  BY <1>1, EngineAssumption, ZenonT(60) DEF IInv, MinerInv
<1>3. ChainInv' /\ (FewSigners => StoredIsAuthorized')
  BY <1>1, ChainKept DEF chainVars
<1>4. BatchInv'
  BY <1>1, BatchKept DEF IInv, chainVars
<1>5. MinerInv'
  BY <1>1, <1>2 DEF IInv, MinerInv, Prepared, SealedInv, chainVars
<1>6. OneAccount'
  BY <1>1 DEF IInv, OneAccount, chainVars
<1>7. Coherent(cache') /\ Coherent(disk')
  BY <1>1 DEF IInv, snapVars
<1> QED
  BY <1>3, <1>4, <1>5, <1>6, <1>7 DEF IInv

\* Prepare makes a header that is right for the head.
LEMMA PrepareKeeps ==
  ASSUME FromGenesis, IInv, NEW writes, Prepare(writes)
  PROVE  IInv'
<1> DEFINE outcome == snapshot(head, known, writes)
           s == outcome.snap
<1>1. /\ Len(head) < MaxNumber /\ Takes(outcome, writes)
      /\ UNCHANGED <<chainVars, proposals, signer, sealed>>
  BY DEF Prepare
<1>2. \/ work' = work
      \/ /\ s # Failed
         /\ \E vote \in VotesToCast(s) :
               work' = [parent |-> head, by |-> signer, coinbase |-> vote.coinbase,
                        nonce |-> vote.nonce, difficulty |-> calcDifficulty(s, signer),
                        extra |-> IF (s.number + 1) % Epoch = 0 THEN s.signers ELSE {}]
  BY ZenonT(60) DEF Prepare
<1>3. head \in Block /\ head \in known /\ ChainInv /\ Coherent(cache) /\ Coherent(disk)
  BY DEF IInv, ChainInv
<1>4. s \in {Failed, Truth(head)}
  BY <1>3, SnapshotFacts
<1>5. Coherent(cache') /\ Coherent(disk')
  BY <1>1, <1>3, TakesCoherent
<1> HIDE DEF outcome, s
<1>6. ChainInv' /\ (FewSigners => StoredIsAuthorized')
  BY <1>1, ChainKept DEF chainVars
<1>7. BatchInv'
  BY <1>1, BatchKept DEF IInv, chainVars
<1>8. CASE work' = work
  <2>1. MinerInv'
    BY <1>1, <1>8, MinerKept DEF IInv, chainVars
  <2>2. OneAccount'
    BY <1>1, <1>8 DEF IInv, OneAccount, chainVars
  <2> QED
    BY <1>5, <1>6, <1>7, <2>1, <2>2 DEF IInv
<1>9. CASE s # Failed /\ work' # work
  <2>1. PICK vote \in VotesToCast(s) :
          work' = [parent |-> head, by |-> signer, coinbase |-> vote.coinbase,
                   nonce |-> vote.nonce, difficulty |-> calcDifficulty(s, signer),
                   extra |-> IF (s.number + 1) % Epoch = 0 THEN s.signers ELSE {}]
    BY <1>2, <1>9
  <2>2. s = Truth(head) /\ Truth(head) # Failed /\ s.number = Len(head)
    BY <1>3, <1>4, <1>9, TruthFacts
  <2>3. /\ vote.coinbase \in Addr /\ vote.nonce \in {"auth", "drop"}
        /\ (s.number + 1) % Epoch = 0 => vote.coinbase = ZeroAddress /\ vote.nonce = "drop"
    <3>1. DOMAIN proposals \subseteq Addr /\ ZeroAddress \in Addr
      BY CliqueAssumption DEF IInv, MinerInv
    <3> QED
      BY <3>1 DEF VotesToCast
  <2>4. /\ work'.parent = head /\ work'.by = signer /\ work'.coinbase = vote.coinbase
        /\ work'.nonce = vote.nonce /\ work'.difficulty = calcDifficulty(s, signer)
        /\ work'.extra = IF (s.number + 1) % Epoch = 0 THEN s.signers ELSE {}
    BY <2>1
  <2>5. Prepared(work)'
    <3>1. known' = known
      BY <1>1 DEF chainVars
    <3> QED
      BY <1>1, <1>3, <2>2, <2>3, <2>4, <3>1 DEF Prepared
  <2>6. MinerInv'
    BY <1>1, <2>5 DEF IInv, MinerInv, SealedInv, chainVars
  <2>7. OneAccount'
    BY <1>1, <2>4 DEF IInv, OneAccount, chainVars
  <2> QED
    BY <1>5, <1>6, <1>7, <2>6, <2>7 DEF IInv
<1> QED
  BY <1>2, <1>8, <1>9

\* Seal signs the prepared header with the key of the moment.
LEMMA SealKeeps ==
  ASSUME FromGenesis, IInv, NEW writes, Seal(writes)
  PROVE  IInv'
<1> DEFINE p == work.parent
           outcome == snapshot(p, known, writes)
           number == Len(p) + 1
           b == Append(p, [signer |-> signer, coinbase |-> work.coinbase, nonce |-> work.nonce,
                           difficulty |-> work.difficulty, extra |-> work.extra])
<1>1. /\ work # None /\ work' = None /\ Takes(outcome, writes)
      /\ UNCHANGED <<chainVars, proposals, signer>>
  BY DEF Seal
<1>2. \/ sealed' = sealed
      \/ /\ outcome.snap # Failed /\ MaySeal(outcome.snap, number, signer)
         /\ sealed' = sealed \cup {[by |-> work.by, block |-> b]}
  BY ZenonT(60) DEF Seal
<1>3. Prepared(work) /\ ChainInv /\ Coherent(cache) /\ Coherent(disk)
  BY <1>1 DEF IInv, MinerInv
<1>4. p \in known /\ p \in Block /\ Truth(p) # Failed
  BY <1>3 DEF Prepared, ChainInv
<1>5. outcome.snap \in {Failed, Truth(p)}
  BY <1>3, <1>4, SnapshotFacts
<1>6. Coherent(cache') /\ Coherent(disk')
  BY <1>1, <1>4, TakesCoherent
<1> HIDE DEF outcome
<1>7. ChainInv' /\ (FewSigners => StoredIsAuthorized')
  BY <1>1, ChainKept DEF chainVars
<1>8. BatchInv'
  BY <1>1, BatchKept DEF IInv, chainVars
<1>9. CASE sealed' = sealed
  <2>1. MinerInv'
    BY <1>1, <1>9, MinerKept DEF IInv, chainVars
  <2>2. OneAccount'
    BY <1>1, <1>9 DEF IInv, OneAccount, chainVars
  <2> QED
    BY <1>6, <1>7, <1>8, <2>1, <2>2 DEF IInv
<1>10. CASE /\ outcome.snap # Failed /\ MaySeal(outcome.snap, number, signer)
            /\ sealed' = sealed \cup {[by |-> work.by, block |-> b]}
  <2>1. MaySeal(Truth(p), number, signer)
    BY <1>5, <1>10
  <2>2. /\ b \in Block /\ b # <<>> /\ Parent(b) = p
        /\ b[Len(b)].signer = signer /\ Truth(b) # Failed
        /\ work.by = signer => Verified(b)
    BY <1>3, <2>1, SignedBlock, ZenonT(60)
  <2> HIDE DEF b
  <2> DEFINE new == [by |-> work.by, block |-> b]
  <2>3. new.by = work.by /\ new.block = b
    OBVIOUS
  <2> HIDE DEF new
  <2>4. sealed' = sealed \cup {new}
    BY <1>10 DEF new
  <2>5. SealedInv(new)
    BY <1>4, <2>2, <2>3 DEF SealedInv
  <2>6. known' = known /\ signer' = signer /\ proposals' = proposals
    BY <1>1 DEF chainVars
  <2>7. MinerInv'
    BY <1>1, <2>4, <2>5, <2>6 DEF IInv, MinerInv, SealedInv
  <2>8. ASSUME Keys = {} PROVE new.by = new.block[Len(new.block)].signer
    BY <1>1, <2>2, <2>3, <2>8 DEF IInv, OneAccount
  <2>9. OneAccount'
    BY <1>1, <2>4, <2>6, <2>8 DEF IInv, OneAccount
  <2> QED
    BY <1>6, <1>7, <1>8, <2>7, <2>9 DEF IInv
<1> QED
  BY <1>2, <1>9, <1>10

\* The sealed block is stored, or given up.
LEMMA DeliverKeeps ==
  ASSUME IInv, NEW x \in sealed, Deliver(x)
  PROVE  IInv'
<1>1. /\ sealed' = sealed \ {x}
      /\ UNCHANGED <<batch, snapVars, proposals, signer, work>>
      /\ UNCHANGED <<known, head>> \/ writeBlockWithState(x.block)
  BY DEF Deliver
<1>2. SealedInv(x) /\ (Keys = {} => Verified(x.block))
  BY DEF IInv, MinerInv, OneAccount, SealedInv
<1>3. /\ ChainInv' /\ known \subseteq known'
      /\ FewSigners => StoredIsAuthorized'
      /\ Keys = {} => \A c \in known' : c # <<>> => Verified(c)
  <2>1. CASE UNCHANGED <<known, head>>
    BY <2>1, ChainKept DEF IInv, OneAccount
  <2>2. CASE writeBlockWithState(x.block)
    BY <1>2, <2>2, WriteKeeps DEF SealedInv
  <2> QED
    BY <1>1, <2>1, <2>2
<1>4. BatchInv'
  BY <1>1, <1>3, BatchKept DEF IInv
<1>5. MinerInv'
  BY <1>1, <1>3, MinerKept DEF IInv
<1>6. OneAccount'
  BY <1>1, <1>3 DEF IInv, OneAccount
<1>7. Coherent(cache') /\ Coherent(disk')
  BY <1>1 DEF IInv, snapVars
<1> QED
  BY <1>3, <1>4, <1>5, <1>6, <1>7 DEF IInv

\* A sealed block that is given up changes nothing else.
LEMMA InterruptKeeps ==
  ASSUME IInv, NEW x \in sealed, Interrupt(x)
  PROVE  IInv'
<1>1. /\ sealed' = sealed \ {x}
      /\ UNCHANGED <<chainVars, snapVars, proposals, signer, work>>
  BY DEF Interrupt
<1>2. ChainInv' /\ (FewSigners => StoredIsAuthorized')
  BY <1>1, ChainKept DEF chainVars
<1>3. BatchInv'
  BY <1>1, BatchKept DEF IInv, chainVars
<1>4. MinerInv'
  BY <1>1, MinerKept DEF IInv, chainVars
<1>5. OneAccount' /\ Coherent(cache') /\ Coherent(disk')
  BY <1>1 DEF IInv, OneAccount, chainVars, snapVars
<1> QED
  BY <1>2, <1>3, <1>4, <1>5 DEF IInv

\* A restart forgets; it makes nothing wrong.
LEMMA RestartKeeps ==
  ASSUME IInv, NEW keeps, Restart(keeps)
  PROVE  IInv'
<1>1. /\ batch' = None /\ cache' = NoEntry /\ disk' \in {disk, NoEntry}
      /\ proposals' = NoEntry /\ signer' = ZeroAddress /\ work' = None /\ sealed' = {}
      /\ UNCHANGED <<known, head>>
  BY DEF Restart
<1>2. ChainInv' /\ (FewSigners => StoredIsAuthorized')
  BY <1>1, ChainKept
<1>3. BatchInv'
  BY <1>1 DEF BatchInv
<1>4. DOMAIN NoEntry = {} /\ Coherent(NoEntry)
  BY DEF NoEntry, Coherent
<1>5. MinerInv'
  BY <1>1, <1>4, CliqueAssumption DEF MinerInv
<1>6. OneAccount'
  BY <1>1 DEF IInv, OneAccount
<1>7. Coherent(cache') /\ Coherent(disk')
  BY <1>1, <1>4 DEF IInv
<1> QED
  BY <1>2, <1>3, <1>5, <1>6, <1>7 DEF IInv

\* Every step keeps the invariant.
LEMMA NextIInv ==
  ASSUME FromGenesis, IInv, [Next]_vars
  PROVE  IInv'
<1>1. CASE \E p \in known, writes \in BOOLEAN : Import(p, writes)
  BY <1>1, ImportKeeps, ZenonT(60)
<1>2. CASE \E writes \in BOOLEAN : Verify(writes)
  BY <1>2, VerifyKeeps, ZenonT(60)
<1>3. CASE Insert
  BY <1>3, InsertKeeps, ZenonT(60)
<1>4. CASE EndBatch
  BY <1>4, EndBatchKeeps, ZenonT(60)
<1>5. CASE \/ \E a \in Proposable, auth \in BOOLEAN : Propose(a, auth)
           \/ \E a \in Proposable : Discard(a)
           \/ \E a \in Keys : Authorize(a)
  BY <1>5, OperatorKeeps, ZenonT(60)
<1>6. CASE \E writes \in BOOLEAN : Prepare(writes)
  BY <1>6, PrepareKeeps, ZenonT(60)
<1>7. CASE \E writes \in BOOLEAN : Seal(writes)
  BY <1>7, SealKeeps, ZenonT(60)
<1>8. CASE \E x \in sealed : Deliver(x)
  BY <1>8, DeliverKeeps, ZenonT(60)
<1>9. CASE \E x \in sealed : Interrupt(x)
  BY <1>9, InterruptKeeps, ZenonT(60)
<1>10. CASE \E b \in known, writes \in BOOLEAN : Query(b, writes)
  BY <1>10, QueryKeeps, ZenonT(60)
<1>11. CASE \E keeps \in BOOLEAN : Restart(keeps)
  BY <1>11, RestartKeeps, ZenonT(60)
<1>12. CASE UNCHANGED vars
  <2>1. UNCHANGED <<chainVars, snapVars, mineVars>>
    BY <1>12 DEF vars
  <2>2. ChainInv' /\ (FewSigners => StoredIsAuthorized')
    BY <2>1, ChainKept DEF chainVars
  <2>3. BatchInv'
    BY <2>1, BatchKept DEF IInv, chainVars
  <2>4. MinerInv'
    BY <2>1, MinerKept DEF IInv, chainVars, mineVars
  <2>5. OneAccount' /\ Coherent(cache') /\ Coherent(disk')
    BY <2>1 DEF IInv, OneAccount, chainVars, mineVars, snapVars
  <2> QED
    BY <2>2, <2>3, <2>4, <2>5 DEF IInv
<1> QED
  BY <1>1, <1>2, <1>3, <1>4, <1>5, <1>6, <1>7, <1>8, <1>9, <1>10, <1>11, <1>12,
     ZenonT(60) DEF Next

-----------------------------------------------------------------------------
(***************************************************************************)
(* What follows.                                                           *)
(***************************************************************************)

\* The invariant holds at all times on a node that has the chain from its genesis.
THEOREM EngineInvariance == FromGenesis => (Spec => []IInv)
<1> SUFFICES ASSUME FromGenesis PROVE Spec => []IInv
  OBVIOUS
<1>1. Init => IInv
  BY InitIInv
<1>2. IInv /\ [Next]_vars => IInv'
  BY NextIInv
<1> QED
  BY <1>1, <1>2, PTL DEF Spec

\* Whatever was verified, sealed, evicted, lost or failed to be written, the
\* snapshots in Clique.recents and in the database are those of the whole chain.
THEOREM SnapshotsStayCoherent == FromGenesis => (Spec => []SnapshotsCoherent)
<1>1. ASSUME IInv, FromGenesis PROVE SnapshotsCoherent
  <2>1. ASSUME NEW b \in known, Len(b) > StartNumber PROVE Parent(b) \in known
    <3>1. b \in Block
      BY <1>1 DEF IInv, ChainInv
    <3>2. Len(b) \in Nat /\ Len(b) - 1 \in 0 .. Len(b)
      BY <1>1, <2>1, <3>1, BlockFacts DEF FromGenesis
    <3> QED
      BY <1>1, <3>2 DEF IInv, ChainInv, Parent
  <2>2. ASSUME NEW kept, Coherent(kept), NEW b \in DOMAIN kept
        PROVE  kept[b] = Truth(b) /\ kept[b] \in Snapshot /\ kept[b].number = Len(b)
    <3>1. b \in Block /\ kept[b] = Truth(b) /\ Truth(b) # Failed
      BY <2>2 DEF Coherent
    <3> QED
      BY <3>1, TruthFacts DEF Sound, Good, Typed
  <2>3. head \in known
    BY <1>1 DEF IInv, ChainInv
  <2>4. batch # None => batch.from <= batch.good /\ batch.good <= Len(batch.block)
    BY <1>1 DEF IInv, BatchInv
  <2>5. Coherent(cache) /\ Coherent(disk)
    BY <1>1 DEF IInv
  <2>6. TypeOK
    BY <2>1, <2>2, <2>3, <2>4, <2>5 DEF TypeOK
  <2> QED
    BY <2>2, <2>5, <2>6 DEF SnapshotsCoherent
<1> SUFFICES ASSUME FromGenesis PROVE Spec => []SnapshotsCoherent
  OBVIOUS
<1>2. IInv => SnapshotsCoherent
  BY <1>1
<1>3. Spec => []IInv
  BY EngineInvariance
<1> QED
  BY <1>2, <1>3, PTL

\* A block that Seal hands over, signed with the key it was prepared for, passes
\* verifyHeader on every node that has its chain.
THEOREM SealedBlocksAreValid == FromGenesis => (Spec => []SealedIsValid)
<1>1. IInv => SealedIsValid
  BY DEF IInv, MinerInv, SealedInv, SealedIsValid, Verified
<1> SUFFICES ASSUME FromGenesis PROVE Spec => []SealedIsValid
  OBVIOUS
<1>2. Spec => []IInv
  BY EngineInvariance
<1> QED
  BY <1>1, <1>2, PTL

\* With at most three signers in the genesis, the unsigned subtraction of verifySeal
\* never wraps where a block bars its author, so the node stores no block that
\* apply refuses.
THEOREM StoredBlocksAreAuthorized == FromGenesis /\ FewSigners => (Spec => []StoredIsAuthorized)
<1> SUFFICES ASSUME FromGenesis, FewSigners PROVE Spec => []StoredIsAuthorized
  OBVIOUS
<1>1. IInv => StoredIsAuthorized
  BY DEF IInv
<1>2. Spec => []IInv
  BY EngineInvariance
<1> QED
  BY <1>1, <1>2, PTL

\* Under the same conditions Clique.snapshot succeeds on every stored block.
THEOREM SnapshotsAreAvailable == FromGenesis /\ FewSigners => (Spec => []SnapshotAvailable)
<1>1. ASSUME FromGenesis, FewSigners, IInv, NEW b \in known
      PROVE  snapshot(b, known, TRUE).snap # Failed
  <2> DEFINE stops == {n \in 0 .. Len(b) : InMemory(b, n) \/ OnDisk(b, n) \/ Trusted(b, n)}
             n == StopsAt(b, known)
             base == IF InMemory(b, n) THEN cache[Upto(b, n)]
                     ELSE IF OnDisk(b, n) THEN disk[Upto(b, n)] ELSE TrustedSnapshot(n)
             result == Replay(base, b)
             outcome == snapshot(b, known, TRUE)
  <2>1. /\ ChainInv /\ Coherent(cache) /\ Coherent(disk) /\ Truth(b) # Failed
        /\ b \in Block /\ head \in Seq(Headers) /\ Len(b) \in Nat
    BY <1>1, BlockFacts DEF IInv, ChainInv, StoredIsAuthorized
  <2>2. 0 \in stops
    <3>1. Upto(head, 0) = <<>> /\ 0 <= Len(head)
      BY <2>1, UptoEnds
    <3>2. Trusted(b, 0)
      BY <2>1, <3>1 DEF Trusted, HasHeaderByNumber, ChainInv
    <3> QED
      BY <2>1, <3>2
  <2>3. Max(stops) \in stops
    <3>1. stops # {} /\ stops \subseteq 0 .. Len(b)
      BY <2>2
    <3> QED
      BY <2>1, <3>1, MaxNumberOf, ZenonT(60)
  <2>4. n = Max(stops)
    <3>1. Max(stops) \in 0 .. Len(b)
      BY <2>3, ZenonT(60)
    <3>2. \A m \in Max(stops) + 1 .. Len(b) : m \in 0 .. Len(b)
      <4> HIDE DEF stops
      <4> QED
        BY <2>1, <3>1
    <3>3. \A m \in Max(stops) + 1 .. Len(b) : Upto(b, m) \in known
      BY <2>1, <3>2, ZenonT(60) DEF ChainInv
    <3> QED
      BY <2>2, <3>3, ZenonT(60) DEF StopsAt
  <2>5. n \in 0 .. Len(b) /\ (InMemory(b, n) \/ OnDisk(b, n) \/ Trusted(b, n))
    BY <2>3, <2>4, ZenonT(60)
  <2> HIDE DEF n
  <2>6. result = Truth(b)
    BY <1>1, <2>1, <2>5, BaseFacts, ZenonT(60)
  <2>7. n # -1
    BY <2>5
  <2> HIDE DEF result
  <2>8. result # Failed => outcome.snap = result
    <3> SUFFICES ASSUME result # Failed PROVE outcome.snap = result
      BY ZenonT(60)
    <3>1. \E c, d : outcome = [snap |-> result, caches |-> c, disk |-> d]
      BY <2>7, ZenonT(60) DEF snapshot, n, result
    <3> HIDE DEF outcome
    <3> QED
      BY <3>1
  <2> QED
    BY <2>1, <2>6, <2>8, ZenonT(60)
<1> SUFFICES ASSUME FromGenesis, FewSigners PROVE Spec => []SnapshotAvailable
  OBVIOUS
<1>2. IInv => SnapshotAvailable
  BY <1>1, ZenonT(60) DEF SnapshotAvailable
<1>3. Spec => []IInv
  BY EngineInvariance
<1> QED
  BY <1>2, <1>3, PTL

\* On a node that seals with no account of its own, and so stores what it has
\* verified, calcDifficulty gives a turn to one signer.
THEOREM OneAuthorPerTurn == FromGenesis /\ Keys = {} => (Spec => []OneInTurnAuthor)
<1>1. ASSUME IInv, Keys = {}, NEW b \in known, NEW c \in known, b # <<>>, c # <<>>,
             Parent(b) = Parent(c),
             b[Len(b)].difficulty = diffInTurn, c[Len(c)].difficulty = diffInTurn
      PROVE  b[Len(b)].signer = c[Len(c)].signer
  <2> DEFINE s == Truth(Parent(b))
  <2>1. b \in Block /\ c \in Block /\ Verified(b) /\ Verified(c)
    BY <1>1 DEF IInv, ChainInv, OneAccount
  <2>2. Parent(b) \in Block /\ Len(b) = Len(c)
    BY <1>1, <2>1, BlockFacts
  <2>3. /\ verifyHeader(s, Len(b), b[Len(b)]) /\ verifyHeader(s, Len(b), c[Len(c)])
    BY <1>1, <2>1, <2>2, ZenonT(60) DEF Verified
  <2> HIDE DEF s
  <2>4. /\ s # Failed
        /\ b[Len(b)].signer \in s.signers /\ inturn(s, Len(b), b[Len(b)].signer)
        /\ c[Len(c)].signer \in s.signers /\ inturn(s, Len(b), c[Len(c)].signer)
    BY <1>1, <2>3 DEF verifyHeader, verifySeal, diffInTurn, diffNoTurn
  <2>5. Typed(s)
    BY <2>2, <2>4, TruthFacts DEF s, Sound, Good
  <2> QED
    BY <2>4, <2>5, TurnIsUnique, ZenonT(60)
<1> SUFFICES ASSUME FromGenesis, Keys = {} PROVE Spec => []OneInTurnAuthor
  OBVIOUS
<1>2. IInv => OneInTurnAuthor
  BY <1>1 DEF OneInTurnAuthor
<1>3. Spec => []IInv
  BY EngineInvariance
<1> QED
  BY <1>2, <1>3, PTL
=============================================================================
