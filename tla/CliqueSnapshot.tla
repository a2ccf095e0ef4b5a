--------------------------- MODULE CliqueSnapshot ---------------------------
(***************************************************************************)
(* The authorization snapshot of the clique proof-of-authority engine      *)
(* (consensus/clique/snapshot.go): who may sign, who signed recently and   *)
(* which votes are pending, after every header of one chain.               *)
(*                                                                         *)
(* A Snapshot is a record.  Three of its Go containers are represented by  *)
(* what distinguishes their contents:                                      *)
(*   - Votes, a slice in chronological order, is a set of votes: a block   *)
(*     casts at most one vote, so Vote.Block is its position;              *)
(*   - Recents, a map from block numbers to signers, is a set of entries;  *)
(*   - Tally, a map whose entries always hold at least one vote, is a      *)
(*     total function in which NoTally stands for a missing key.           *)
(* Each operator below is one step of Snapshot.apply, in the code's order. *)
(***************************************************************************)
EXTENDS Integers, FiniteSets

CONSTANTS
  Addr,            \* addresses that appear in headers
  ZeroAddress,     \* common.Address{}, the coinbase of a block without a vote
  GenesisSigners,  \* signers listed in the genesis extra-data
  Epoch            \* config.Epoch, blocks between two checkpoints

ASSUME CliqueAssumption ==
  /\ ZeroAddress \in Addr
  /\ GenesisSigners \subseteq Addr \ {ZeroAddress}
  /\ IsFiniteSet(GenesisSigners)
  /\ Epoch \in Nat \ {0}

NoTally == [authorize |-> FALSE, votes |-> 0]

Vote == [signer : Addr, block : Nat, address : Addr, authorize : BOOLEAN]

Recent == [number : Nat, signer : Addr]

Snapshot == [number : Nat, signers : SUBSET Addr, recents : SUBSET Recent,
             votes : SUBSET Vote, tally : [Addr -> [authorize : BOOLEAN, votes : Nat]]]

\* The header fields a snapshot reads.  A nonce is one of the two magic values
\* or anything else.
Header == [signer : Addr, coinbase : Addr, nonce : {"auth", "drop", "other"}]

-----------------------------------------------------------------------------
newSnapshot(n, addrs) ==
  [number |-> n, signers |-> addrs, recents |-> {}, votes |-> {},
   tally |-> [a \in Addr |-> NoTally]]

Genesis == newSnapshot(0, GenesisSigners)

\* Blocks a signer must let pass before it may sign again, itself included.
Limit(s) == Cardinality(s.signers) \div 2 + 1

validVote(s, address, authorize) == (address \in s.signers) # authorize

\* The tally after uncast was called for k votes of the same direction.
uncastTally(tally, authorize, k) ==
  IF tally.authorize # authorize THEN tally
  ELSE IF tally.votes > k THEN [tally EXCEPT !.votes = @ - k] ELSE NoTally

castTally(tally, authorize) ==
  IF tally.votes > 0 THEN [tally EXCEPT !.votes = @ + 1]
  ELSE [authorize |-> authorize, votes |-> 1]

-----------------------------------------------------------------------------
(* The steps of apply for one header. *)

\* Mutant: votes outlive the checkpoint.
ResetVotesNever(s) == s

\* Checkpoint blocks drop all votes.
ResetVotes(s) ==
  IF (s.number + 1) % Epoch = 0
  THEN [s EXCEPT !.votes = {}, !.tally = [a \in Addr |-> NoTally]]
  ELSE s

\* Mutants: the window of the recent list is one block too long, or too short.
DropRecentLate(s, number) ==
  [s EXCEPT !.recents = {r \in @ : r.number + Limit(s) + 1 # number}]

DropRecentEarly(s, number) ==
  [s EXCEPT !.recents = {r \in @ : r.number + Limit(s) # number + 1}]

\* delete(Recents, number-limit), for the block that is being applied.  An entry
\* can only match when number >= limit, the guard of the code.
DropRecent(s, number) ==
  [s EXCEPT !.recents = {r \in @ : r.number + Limit(s) # number}]

\* The header's author is a signer that is not in the recent list.
Authorized(s, signer) ==
  /\ signer \in s.signers
  /\ \A r \in s.recents : r.signer # signer

AddRecent(s, number, signer) ==
  [s EXCEPT !.recents = @ \cup {[number |-> number, signer |-> signer]}]

\* Discard the signer's previous vote on the same account: only the first match
\* of the chronological list is removed.
PreviousVotes(s, h) ==
  {v \in s.votes : v.signer = h.signer /\ v.address = h.coinbase}

\* Mutant: the tally is corrected, the list is not.
DiscardVoteFromTally(s, h) ==
  IF PreviousVotes(s, h) = {} THEN s
  ELSE [s EXCEPT !.tally[h.coinbase] =
          uncastTally(@, (CHOOSE v \in PreviousVotes(s, h) : TRUE).authorize, 1)]

DiscardVote(s, h) ==
  IF PreviousVotes(s, h) = {} THEN s
  ELSE LET vote == CHOOSE v \in PreviousVotes(s, h) :
                     \A w \in PreviousVotes(s, h) : v.block <= w.block
       IN [s EXCEPT !.votes = @ \ {vote},
                    !.tally[h.coinbase] = uncastTally(@, vote.authorize, 1)]

CastVote(s, h, number) ==
  LET authorize == h.nonce = "auth" IN
  IF ~ validVote(s, h.coinbase, authorize) THEN s
  ELSE [s EXCEPT
          !.tally[h.coinbase] = castTally(@, authorize),
          !.votes = @ \cup {[signer |-> h.signer, block |-> number,
                             address |-> h.coinbase, authorize |-> authorize]}]

\* Mutant: the dropped signer's votes leave the list and stay in the tally.
DiscardVotesOfFromList(s, addr) ==
  [s EXCEPT !.votes = {v \in @ : v.signer # addr}]

\* A deauthorized signer's votes are uncast one by one and dropped.
DiscardVotesOf(s, addr) ==
  LET counted(a) == {v \in s.votes : /\ v.signer = addr /\ v.address = a
                                     /\ v.authorize = s.tally[a].authorize}
  IN [s EXCEPT
        !.votes = {v \in @ : v.signer # addr},
        !.tally = [a \in Addr |-> uncastTally(s.tally[a], s.tally[a].authorize,
                                              Cardinality(counted(a)))]]

\* Votes about an account whose status just changed are void.
DiscardVotesOn(s, addr) ==
  [s EXCEPT !.votes = {v \in @ : v.address # addr}, !.tally[addr] = NoTally]

\* Mutant: half of the signers are enough.
PassedByHalf(s, addr) ==
  /\ s.tally[addr].votes > 0
  /\ s.tally[addr].votes >= Cardinality(s.signers) \div 2

Passed(s, addr) == s.tally[addr].votes > Cardinality(s.signers) \div 2

\* Mutant: the recent list is not shortened when the signers shrink.
ConcludeVoteKeepRecents(s, addr, number) ==
  IF ~ Passed(s, addr) THEN s
  ELSE IF s.tally[addr].authorize
  THEN DiscardVotesOn([s EXCEPT !.signers = @ \cup {addr}], addr)
  ELSE DiscardVotesOn(DiscardVotesOf([s EXCEPT !.signers = @ \ {addr}], addr), addr)

\* If the vote passed, update the list of signers.
ConcludeVote(s, addr, number) ==
  IF ~ Passed(s, addr) THEN s
  ELSE IF s.tally[addr].authorize
  THEN DiscardVotesOn([s EXCEPT !.signers = @ \cup {addr}], addr)
  ELSE LET shrunk == DropRecent([s EXCEPT !.signers = @ \ {addr}], number)
       IN DiscardVotesOn(DiscardVotesOf(shrunk, addr), addr)

\* What apply looks at before it accepts the author of the next header.
Shifted(s) == DropRecent(ResetVotes(s), s.number + 1)

Accepts(s, h) == Authorized(Shifted(s), h.signer) /\ h.nonce # "other"

\* The snapshot with the author recorded and its vote counted.
Counted(s, h) ==
  LET number == s.number + 1
  IN CastVote(DiscardVote(AddRecent(Shifted(s), number, h.signer), h), h, number)

apply(s, h) ==
  LET number == s.number + 1
  IN [ConcludeVote(Counted(s, h), h.coinbase, number) EXCEPT !.number = number]

-----------------------------------------------------------------------------
\* verifyHeader admits one of the two magic nonces, and on checkpoints only a
\* zero coinbase and the drop nonce.
WellFormed(number, h) ==
  /\ h.nonce # "other"
  /\ number % Epoch = 0 => h.coinbase = ZeroAddress /\ h.nonce = "drop"

-----------------------------------------------------------------------------
(* What is said about a snapshot. *)

Typed(s) == s \in Snapshot /\ IsFiniteSet(s.signers) /\ IsFiniteSet(s.votes)

VotesOn(s, a) == {v \in s.votes : v.address = a}

TalliedOn(s, a) ==
  /\ s.tally[a].votes = Cardinality(VotesOn(s, a))
  /\ \A v \in VotesOn(s, a) :
       v.authorize = s.tally[a].authorize /\ validVote(s, a, v.authorize)

DistinctVotes(s) ==
  \A v, w \in s.votes :
    v.block = w.block \/ (v.signer = w.signer /\ v.address = w.address) => v = w
=============================================================================
