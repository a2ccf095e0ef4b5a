------------------------------- MODULE Clique -------------------------------
(***************************************************************************)
(* The clique engine of one node (consensus/clique/clique.go, api.go) and  *)
(* the chain it serves: batches of headers are verified ahead of their     *)
(* insertion, blocks are inserted by total difficulty, the miner prepares  *)
(* and seals blocks of its own, and the snapshot of a block is rebuilt     *)
(* from the cache, from the snapshots on disk or from a checkpoint.        *)
(*                                                                         *)
(* A block is the sequence of headers from block 1 up to it, which is what *)
(* its hash identifies; the empty sequence is the genesis.  Addresses are  *)
(* numbers because the engine sorts them.  Times, gas and the fork rules   *)
(* are left out: they make verifyHeader reject more, as does a batch that  *)
(* never arrives.                                                          *)
(***************************************************************************)
EXTENDS CliqueSnapshot, Sequences, FiniteSetsExt

CONSTANTS
  inmemorySnapshots,          \* capacity of the cache of snapshots
  checkpointInterval,         \* blocks between two snapshots saved to disk
  FullImmutabilityThreshold,  \* headers on top that make a checkpoint trusted
  Uint64,                     \* modulus of the unsigned subtraction
  Others,                     \* authors of the headers of others
  Ballots,                    \* coinbases and nonces of the headers of others
  SignerLists,                \* signers listed in the checkpoints of others
  Keys,                       \* accounts the operator may unlock for sealing
  Proposable,                 \* accounts the operator may propose
  StartNumber,                \* the node has no header below this checkpoint
  MaxNumber,                  \* bound: longest chain
  MaxBlocks,                  \* bound: blocks the node stores
  MaxBatch,                   \* bound: headers verified at once
  MaxSealed,                  \* bound: sealed blocks waiting for their time
  MaxFaults                   \* bound: restarts, lost snapshots, failed writes

ASSUME EngineAssumption ==
  /\ Addr \subseteq Nat /\ IsFiniteSet(Addr)
  /\ Ballots \subseteq [coinbase : Addr, nonce : {"auth", "drop"}]
  /\ SignerLists \subseteq SUBSET Addr
  /\ Keys \cup Others \subseteq Addr \ {ZeroAddress} /\ Proposable \subseteq Addr
  /\ {inmemorySnapshots, checkpointInterval} \subseteq Nat \ {0}
  /\ FullImmutabilityThreshold \in Nat
  /\ {StartNumber, MaxNumber, MaxBlocks, MaxBatch, MaxSealed, MaxFaults} \subseteq Nat
  /\ StartNumber % Epoch = 0
  /\ Uint64 \in Nat /\ Uint64 > MaxNumber + Cardinality(Addr)

diffInTurn == 2
diffNoTurn == 1

VARIABLES
  known,      \* blocks in the database
  head,       \* the canonical head block
  batch,      \* headers being verified while their blocks are inserted
  cache,      \* Clique.recents: snapshots in memory, by block
  disk,       \* snapshots in the database, by block
  proposals,  \* Clique.proposals
  signer,     \* Clique.signer
  work,       \* the header Prepare made and the block it extends
  sealed,     \* the block Seal hands over when its delay is up
  faults,
  panicked    \* the program has crashed

chainVars == <<known, head, batch>>
snapVars == <<cache, disk>>
mineVars == <<proposals, signer, work, sealed>>
vars == <<chainVars, snapVars, mineVars, faults, panicked>>

None == [none |-> TRUE]
NoEntry == [x \in {} |-> x]
Put(f, k, v) == [x \in DOMAIN f \cup {k} |-> IF x = k THEN v ELSE f[x]]
Delete(f, k) == [x \in DOMAIN f \ {k} |-> f[x]]

Upto(b, n) == SubSeq(b, 1, n)
Parent(b) == Upto(b, Len(b) - 1)

\* chain.GetHeaderByNumber finds a header
HasHeaderByNumber(n) == n <= Len(head) /\ Upto(head, n) \in known

-----------------------------------------------------------------------------
(* Clique.snapshot *)

Failed == [number |-> -1]

\* apply for a list of headers: the snapshot of b from that of an ancestor.
Replay(base, b) ==
  LET snapAt[n \in base.number .. Len(b)] ==
        IF n = base.number THEN base
        ELSE LET s == snapAt[n - 1]
             IN IF s = Failed \/ ~ Accepts(s, b[n]) THEN Failed ELSE apply(s, b[n])
  IN snapAt[Len(b)]

InMemory(b, n) == Upto(b, n) \in DOMAIN cache

OnDisk(b, n) == n % checkpointInterval = 0 /\ Upto(b, n) \in DOMAIN disk

\* Mutant: any checkpoint is trusted.
TrustedAtOnce(b, n) == n % Epoch = 0 /\ HasHeaderByNumber(n)

\* The genesis, or a checkpoint without a parent or under too many headers.
Trusted(b, n) ==
  /\ \/ n = 0
     \/ /\ n % Epoch = 0
        /\ Len(b) - n > FullImmutabilityThreshold \/ ~ HasHeaderByNumber(n - 1)
  /\ HasHeaderByNumber(n)

\* Mutant: the signers are those of the genesis.
TrustedFromGenesis(n) == newSnapshot(n, GenesisSigners)

\* The checkpoint is looked up by its number, on the canonical chain.
TrustedSnapshot(n) == newSnapshot(n, IF n = 0 THEN GenesisSigners ELSE head[n].extra)

\* The walk from b towards the genesis, given the headers it may read: the
\* number it stops at, or -1 if a header was missing first.
StopsAt(b, available) ==
  LET stops == {n \in 0 .. Len(b) : InMemory(b, n) \/ OnDisk(b, n) \/ Trusted(b, n)}
      n == IF stops = {} THEN -1 ELSE Max(stops)
  IN IF \A m \in n + 1 .. Len(b) : Upto(b, m) \in available THEN n ELSE -1

\* Mutant: the snapshot is kept under the parent's hash.
AddedToParent(b, s) == {Put(cache, IF b = <<>> THEN b ELSE Parent(b), s)}

\* The caches after Add: a full one forgets any other snapshot.
Added(b, s) ==
  IF b \in DOMAIN cache \/ Cardinality(DOMAIN cache) < inmemorySnapshots
  THEN {Put(cache, b, s)}
  ELSE {Put(Delete(cache, c), b, s) : c \in DOMAIN cache}

\* What a call of snapshot for block b returns and what it may leave in the cache
\* and on disk.  A trusted checkpoint is stored first; the result is cached before it
\* is stored.  writes is FALSE if the database refuses.
snapshot(b, available, writes) ==
  LET n == StopsAt(b, available)
      trusts == ~ InMemory(b, n) /\ ~ OnDisk(b, n)
      base == IF InMemory(b, n) THEN cache[Upto(b, n)]
              ELSE IF OnDisk(b, n) THEN disk[Upto(b, n)] ELSE TrustedSnapshot(n)
      stored == IF trusts THEN Put(disk, Upto(head, n), base) ELSE disk
      result == Replay(base, b)
      hash == IF trusts /\ n = Len(b) THEN Upto(head, n) ELSE b
      saves == Len(b) % checkpointInterval = 0 /\ n < Len(b)
      Outcome(s, c, d) == [snap |-> s, caches |-> c, disk |-> d]
  IN CASE n = -1 \/ (trusts /\ ~ writes) -> Outcome(Failed, {cache}, disk)
       [] OTHER ->
            IF result = Failed THEN Outcome(Failed, {cache}, stored)
            ELSE IF ~ saves THEN Outcome(result, Added(hash, result), stored)
            ELSE IF ~ writes THEN Outcome(Failed, Added(hash, result), stored)
            ELSE Outcome(result, Added(hash, result), Put(stored, b, result))

\* A step that calls snapshot: its effect, and the fault if a write failed.
Takes(outcome, writes) ==
  /\ ~ writes => faults < MaxFaults
  /\ cache' \in outcome.caches /\ disk' = outcome.disk
  /\ faults' = IF writes THEN faults ELSE faults + 1

-----------------------------------------------------------------------------
(* Turns, seals and headers *)

\* The place of a signer in the ascending list: the list's length for others.
Offset(s, a) ==
  IF a \in s.signers THEN Cardinality({x \in s.signers : x < a})
  ELSE Cardinality(s.signers)

\* Mutant: several signers share a turn.
inturnAtLeast(s, number, a) == number % Cardinality(s.signers) >= Offset(s, a)

inturn(s, number, a) == number % Cardinality(s.signers) = Offset(s, a)

calcDifficulty(s, a) == IF inturn(s, s.number + 1, a) THEN diffInTurn ELSE diffNoTurn

Minus(x, y) == (x - y) % Uint64

\* Mutant: the window is one block short.
RecentlySignedShort(s, number, a) ==
  \E r \in s.recents : r.signer = a /\ r.number > Minus(number, Limit(s)) + 1

\* The block does not shift the signer out of the recent list.
RecentlySigned(s, number, a) ==
  \E r \in s.recents : r.signer = a /\ r.number > Minus(number, Limit(s))

verifySeal(s, number, h) ==
  /\ h.signer \in s.signers
  /\ ~ RecentlySigned(s, number, h.signer)
  /\ h.difficulty = IF inturn(s, number, h.signer) THEN diffInTurn ELSE diffNoTurn

\* The checks on a header, given the snapshot of its parent.
verifyHeader(s, number, h) ==
  /\ WellFormed(number, h)
  /\ number % Epoch # 0 => h.extra = {}
  /\ h.difficulty \in {diffInTurn, diffNoTurn}
  /\ s # Failed
  /\ number % Epoch = 0 => h.extra = s.signers
  /\ verifySeal(s, number, h)

-----------------------------------------------------------------------------
(* The chain: headers are verified in order, each with the ones before it in
   the batch as parents, while blocks are inserted behind them. *)

TotalDifficulty(b) == MapThenSumSet(LAMBDA i : b[i].difficulty, DOMAIN b)

\* The canonical head after block b was written: by total difficulty, then the
\* shorter chain, then a coin (clique preserves no local blocks).
ForkChoice(b) ==
  LET extern == TotalDifficulty(b)
      local == TotalDifficulty(head)
  IN IF extern > local \/ (extern = local /\ Len(b) < Len(head)) THEN {b}
     ELSE IF extern = local /\ Len(b) = Len(head) THEN {b, head}
     ELSE {head}

writeBlockWithState(b) ==
  /\ Cardinality(known) < MaxBlocks
  /\ known' = known \cup {b}
  /\ head' \in ForkChoice(b)

\* Headers of a number as others may send them: right or wrong author, vote, turn
\* and, on checkpoints, list of signers.
Received(number) ==
  {[signer |-> a, coinbase |-> v.coinbase, nonce |-> v.nonce, difficulty |-> d, extra |-> e] :
     a \in Others, v \in Ballots, d \in {diffInTurn, diffNoTurn},
     e \in IF number % Epoch = 0 THEN SignerLists ELSE {{}}}

\* VerifyHeaders takes the next header of the batch, after block p.  It goes on
\* after a bad header; blocks are inserted up to the first bad one.
VerifyNext(p, from, good, writes) ==
  LET number == Len(p) + 1
      parents == {Upto(p, n) : n \in from + 1 .. Len(p)}
      outcome == snapshot(p, known \cup parents, writes)
      Basic(h) == WellFormed(number, h) /\ (number % Epoch # 0 => h.extra = {})
      Ok(h) == verifyHeader(outcome.snap, number, h)
  IN /\ number <= MaxNumber
     /\ \E h \in Received(number) :
          /\ IF Basic(h) THEN Takes(outcome, writes) ELSE UNCHANGED <<snapVars, faults>>
          /\ batch' = [block |-> Append(p, h), from |-> from,
                       good |-> IF Ok(h) /\ good = Len(p) THEN number ELSE good]
     /\ UNCHANGED <<known, head, mineVars, panicked>>

\* The downloader refuses a common ancestor that is too deep.
WithinAncestry(p) ==
  Len(head) >= FullImmutabilityThreshold => Len(p) > Len(head) - FullImmutabilityThreshold

Import(p, writes) ==
  /\ batch = None /\ WithinAncestry(p)
  /\ VerifyNext(p, Len(p), Len(p), writes)

Verify(writes) ==
  /\ batch # None
  /\ Len(batch.block) < batch.from + MaxBatch
  /\ VerifyNext(batch.block, batch.from, batch.good, writes)

\* Insert the first block of the batch that is verified and not yet known.
Insert ==
  /\ batch # None
  /\ LET waiting == {n \in batch.from + 1 .. batch.good : Upto(batch.block, n) \notin known}
     IN waiting # {} /\ writeBlockWithState(Upto(batch.block, Min(waiting)))
  /\ UNCHANGED <<batch, snapVars, mineVars, faults, panicked>>

\* insertChain is done, met an error or was interrupted.
EndBatch ==
  /\ batch # None
  /\ batch' = None
  /\ UNCHANGED <<known, head, snapVars, mineVars, faults, panicked>>

-----------------------------------------------------------------------------
(* The operator and the miner *)

Propose(a, auth) ==
  /\ proposals' = Put(proposals, a, auth)
  /\ UNCHANGED <<chainVars, snapVars, signer, work, sealed, faults, panicked>>

Discard(a) ==
  /\ a \in DOMAIN proposals
  /\ proposals' = Delete(proposals, a)
  /\ UNCHANGED <<chainVars, snapVars, signer, work, sealed, faults, panicked>>

Authorize(a) ==
  /\ signer' = a
  /\ UNCHANGED <<chainVars, snapVars, proposals, work, sealed, faults, panicked>>

\* The votes Prepare may cast on top of snapshot s: one at random of those that
\* make sense, none on a checkpoint.
VotesToCast(s) ==
  LET useful == {a \in DOMAIN proposals : validVote(s, a, proposals[a])}
  IN IF (s.number + 1) % Epoch = 0 \/ useful = {}
     THEN {[coinbase |-> ZeroAddress, nonce |-> "drop"]}
     ELSE {[coinbase |-> a, nonce |-> IF proposals[a] THEN "auth" ELSE "drop"] : a \in useful}

\* A header for the block after the head.  Without signers there is no turn to
\* compute: inturn divides by zero.  A node that unlocks no key does not mine, and
\* prepares for the pending block only, which is never sealed.
Prepare(writes) ==
  LET outcome == snapshot(head, known, writes)
      s == outcome.snap
  IN /\ Len(head) < MaxNumber
     /\ Takes(outcome, writes)
     /\ panicked' = (s # Failed /\ s.signers = {})
     /\ IF s = Failed \/ s.signers = {} \/ Keys = {} THEN work' = work
        ELSE \E vote \in VotesToCast(s) :
               work' = [parent |-> head, by |-> signer, coinbase |-> vote.coinbase,
                        nonce |-> vote.nonce, difficulty |-> calcDifficulty(s, signer),
                        extra |-> IF (s.number + 1) % Epoch = 0 THEN s.signers ELSE {}]
     /\ UNCHANGED <<chainVars, proposals, signer, sealed>>

\* Mutant: a signer does not wait for its recent block to be shifted out.
MaySealAlways(s, number, a) == a \in s.signers

MaySeal(s, number, a) ==
  /\ a \in s.signers
  /\ \A r \in s.recents : r.signer = a => number >= Limit(s) /\ r.number <= number - Limit(s)

\* Sign the prepared header with the key that is unlocked now.
Seal(writes) ==
  LET outcome == snapshot(work.parent, known, writes)
      number == Len(work.parent) + 1
  IN /\ work # None /\ Cardinality(sealed) < MaxSealed
     /\ Takes(outcome, writes)
     /\ IF outcome.snap = Failed \/ ~ MaySeal(outcome.snap, number, signer)
        THEN sealed' = sealed
        ELSE sealed' = sealed \cup
               {[by |-> work.by,
                 block |-> Append(work.parent,
                   [signer |-> signer, coinbase |-> work.coinbase, nonce |-> work.nonce,
                    difficulty |-> work.difficulty, extra |-> work.extra])]}
     /\ work' = None
     /\ UNCHANGED <<chainVars, proposals, signer, panicked>>

\* The delay is over: the miner writes its block, which is not verified again.
Deliver(x) ==
  /\ batch = None                     \* insertion holds the chain lock
  /\ sealed' = sealed \ {x}
  /\ IF x.block \in known THEN UNCHANGED <<known, head>> ELSE writeBlockWithState(x.block)
  /\ UNCHANGED <<batch, snapVars, proposals, signer, work, faults, panicked>>

\* New work arrived first: sealing is stopped.
Interrupt(x) ==
  /\ sealed' = sealed \ {x}
  /\ UNCHANGED <<chainVars, snapVars, proposals, signer, work, faults, panicked>>

-----------------------------------------------------------------------------
(* Queries, the cache and restarts *)

\* CalcDifficulty and the API ask for the snapshot of a block.
Query(b, writes) ==
  /\ Takes(snapshot(b, known, writes), writes)
  /\ UNCHANGED <<chainVars, mineVars, panicked>>

\* The process restarts: the chain is on disk, and the snapshots too unless the
\* database was rebuilt from the freezer.
Restart(keeps) ==
  /\ faults < MaxFaults
  /\ faults' = faults + 1
  /\ batch' = None /\ cache' = NoEntry
  /\ disk' = IF keeps THEN disk ELSE NoEntry
  /\ proposals' = NoEntry /\ signer' = ZeroAddress /\ work' = None /\ sealed' = {}
  /\ UNCHANGED <<known, head, panicked>>

\* A chain that follows the protocol, of headers that others may send.
Follows(b) ==
  \A n \in 1 .. Len(b) :
    b[n] \in Received(n) /\ verifyHeader(Replay(Genesis, Upto(b, n - 1)), n, b[n])

\* The node starts with a block of such a chain: the genesis, or a checkpoint.
Init ==
  /\ head \in {b \in [1 .. StartNumber -> UNION {Received(n) : n \in 1 .. StartNumber}] :
                 Follows(b)}
  /\ known = {head}
  /\ batch = None
  /\ cache = NoEntry /\ disk = NoEntry
  /\ proposals = NoEntry /\ signer = ZeroAddress /\ work = None /\ sealed = {}
  /\ faults = 0 /\ panicked = FALSE

Alive == ~ panicked

Next ==
  \/ Alive /\ \E p \in known, writes \in BOOLEAN : Import(p, writes)
  \/ Alive /\ \E writes \in BOOLEAN : Verify(writes)
  \/ Alive /\ Insert
  \/ Alive /\ EndBatch
  \/ Alive /\ \E a \in Proposable, auth \in BOOLEAN : Propose(a, auth)
  \/ Alive /\ \E a \in Proposable : Discard(a)
  \/ Alive /\ \E a \in Keys : Authorize(a)
  \/ Alive /\ \E writes \in BOOLEAN : Prepare(writes)
  \/ Alive /\ \E writes \in BOOLEAN : Seal(writes)
  \/ Alive /\ \E x \in sealed : Deliver(x)
  \/ Alive /\ \E x \in sealed : Interrupt(x)
  \/ Alive /\ \E b \in known, writes \in BOOLEAN : Query(b, writes)
  \/ Alive /\ \E keeps \in BOOLEAN : Restart(keeps)

Spec == Init /\ [][Next]_vars

-----------------------------------------------------------------------------
Truth(b) == Replay(Genesis, b)

\* Blocks are known from the start number on, without gaps; a snapshot is one, of
\* the block it is kept under.
TypeOK ==
  /\ head \in known
  /\ \A b \in known : Len(b) > StartNumber => Parent(b) \in known
  /\ \A kept \in {cache, disk} : \A b \in DOMAIN kept :
       kept[b] \in Snapshot /\ kept[b].number = Len(b)
  /\ batch # None => batch.from <= batch.good /\ batch.good <= Len(batch.block)

\* Whatever was verified, sealed, evicted, lost or failed to be written, a snapshot
\* in memory or on disk is the one the whole chain of its block gives.
SnapshotsCoherent ==
  /\ TypeOK
  /\ \A b \in DOMAIN cache : cache[b] = Truth(b)
  /\ \A b \in DOMAIN disk : disk[b] = Truth(b)

\* Every block the node has stored follows the signing rules that apply enforces
\* on the next header: verifySeal and Seal, which compute them in another way,
\* never admit a block on which no snapshot can be built.
StoredIsAuthorized == \A b \in known : Truth(b) # Failed

\* The snapshot of a stored block can be had at any time: it never takes a header
\* that is missing, and headers that were accepted once are accepted again.
SnapshotAvailable == \A b \in known : snapshot(b, known, TRUE).snap # Failed

\* A turn belongs to one signer: two blocks with the in-turn difficulty on the
\* same parent have the same author, so the heaviest chain names its authors.
OneInTurnAuthor ==
  \A b, c \in known :
    /\ b # <<>> /\ c # <<>> /\ Parent(b) = Parent(c)
    /\ b[Len(b)].difficulty = diffInTurn /\ c[Len(c)].difficulty = diffInTurn
    => b[Len(b)].signer = c[Len(c)].signer

\* A block the miner hands over passes the verification of every other node, if
\* the key that signed it is the one it was prepared for.
SealedIsValid ==
  \A x \in sealed :
    LET b == x.block
    IN x.by = b[Len(b)].signer => verifyHeader(Truth(Parent(b)), Len(b), b[Len(b)])

Longest == Max({Len(b) : b \in known})

\* The same signers and pending votes.
SameVoting(s, t) == s.signers = t.signers /\ s.votes = t.votes /\ s.tally = t.tally

\* A header of the chain votes for the zero address.
ZeroIsVotedFor(b) == \E n \in DOMAIN b : b[n].coinbase = ZeroAddress /\ b[n].nonce = "auth"

\* Trusting a checkpoint under FullImmutabilityThreshold headers costs nothing
\* where it matters, whatever was voted before and since: signers, votes and tally
\* are those of the whole chain, nobody is barred who should not be, and near the
\* tip, where blocks are still made, the recent list is complete again although
\* newSnapshot started it empty.  Chains that vote for the zero address are left
\* out: once it is a signer, apply counts the blank vote of a checkpoint as one to
\* drop it, and newSnapshot does not.
TrustIsHealed ==
  \A kept \in {cache, disk} : \A b \in DOMAIN kept :
    LET t == Truth(b)
    IN ZeroIsVotedFor(b) \/
       /\ t # Failed /\ SameVoting(kept[b], t) /\ kept[b].recents \subseteq t.recents
       /\ Len(b) + FullImmutabilityThreshold >= Longest + Limit(t) - 1 => kept[b] = t
=============================================================================
