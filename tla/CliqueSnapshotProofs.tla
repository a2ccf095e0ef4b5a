------------------------ MODULE CliqueSnapshotProofs ------------------------
(***************************************************************************)
(* Facts about CliqueSnapshot.  Each step of Snapshot.apply has a lemma    *)
(* that says which fields it changes and that it keeps the votes and the   *)
(* tally in order (Good); together they say what apply does to a snapshot. *)
(* The proofs about the voting (CliqueVotingProofs) and about the engine   *)
(* (CliqueProofs) rest on them.                                            *)
(***************************************************************************)
EXTENDS CliqueSnapshot, FiniteSetTheorems, TLAPS

USE ZenonT(2), SMTT(120), ZenonT(60)

\* What holds between any two steps of apply for block n.
Good(s, n) ==
  /\ Typed(s)
  /\ \A a \in Addr : TalliedOn(s, a)
  /\ DistinctVotes(s)
  /\ \A v \in s.votes : v.signer \in s.signers /\ v.block <= n

\* What the lemmas need to know of a header.
Addressed(h) == h.signer \in Addr /\ h.coinbase \in Addr

-----------------------------------------------------------------------------
\* The limit is a positive number, and so is the majority it comes from.
LEMMA LimitType ==
  ASSUME NEW s, IsFiniteSet(s.signers)
  PROVE  /\ Cardinality(s.signers) \in Nat
         /\ Limit(s) \in Nat
         /\ Limit(s) >= 1
  BY FS_CardinalityType DEF Limit

\* Resetting votes at a checkpoint and shifting the recent list.
LEMMA ShiftedShape ==
  ASSUME NEW s, Typed(s)
  PROVE  LET t == Shifted(s) IN
         /\ Typed(t)
         /\ t.number = s.number
         /\ t.signers = s.signers
         /\ t.recents = {r \in s.recents : r.number + Limit(s) # s.number + 1}
         /\ \/ (s.number + 1) % Epoch # 0 /\ t.votes = s.votes /\ t.tally = s.tally
            \/ (s.number + 1) % Epoch = 0 /\ t.votes = {} /\ t.tally = [a \in Addr |-> NoTally]
<1> DEFINE u == ResetVotes(s)
<1>1. /\ u \in Snapshot /\ u.number = s.number /\ u.signers = s.signers
      /\ u.recents = s.recents
      /\ \/ (s.number + 1) % Epoch # 0 /\ u.votes = s.votes /\ u.tally = s.tally
         \/ (s.number + 1) % Epoch = 0 /\ u.votes = {} /\ u.tally = [a \in Addr |-> NoTally]
  BY Zenon DEF Typed, Snapshot, ResetVotes, NoTally
<1>2. IsFiniteSet(u.votes)
  BY <1>1, FS_EmptySet DEF Typed
<1>3. Limit(u) = Limit(s)
  BY <1>1 DEF Limit
<1> HIDE DEF u
<1>4. Shifted(s) = DropRecent(u, s.number + 1)
  BY DEF Shifted, u
<1> QED
  BY <1>1, <1>2, <1>3, <1>4 DEF DropRecent, Typed, Snapshot

\* Recording the author of block n touches the recent list only.
LEMMA AddRecentShape ==
  ASSUME NEW s, Typed(s), NEW n \in Nat, NEW signer \in Addr
  PROVE  LET t == AddRecent(s, n, signer) IN
         /\ Typed(t)
         /\ t.number = s.number
         /\ t.signers = s.signers
         /\ t.recents = s.recents \cup {[number |-> n, signer |-> signer]}
         /\ t.votes = s.votes
         /\ t.tally = s.tally
  BY DEF AddRecent, Typed, Snapshot, Recent

\* Steps that leave votes, tally and signers alone keep them in order.
LEMMA GoodFrame ==
  ASSUME NEW s, NEW t, NEW n \in Nat, Good(s, n), Typed(t), t.signers = s.signers,
         t.votes = s.votes, t.tally = s.tally
  PROVE  Good(t, n)
  BY DEF Good, TalliedOn, VotesOn, DistinctVotes, validVote

\* Neither a checkpoint nor the shift of the recent list disturbs votes and tally.
LEMMA ShiftedGood ==
  ASSUME NEW s, NEW n \in Nat, Good(s, n)
  PROVE  Good(Shifted(s), n)
<1> DEFINE t == Shifted(s)
<1>1. Typed(s)
  BY DEF Good
<1>2. CASE t.votes = s.votes /\ t.tally = s.tally
  BY <1>1, <1>2, ShiftedShape, GoodFrame
<1>3. CASE t.votes = {} /\ t.tally = [a \in Addr |-> NoTally]
  <2>1. \A a \in Addr : VotesOn(t, a) = {} /\ t.tally[a].votes = 0
    BY <1>3 DEF VotesOn, NoTally
  <2>2. \A a \in Addr : TalliedOn(t, a)
    BY <2>1, FS_EmptySet DEF TalliedOn
  <2> QED
    BY <1>1, <1>3, <2>2, ShiftedShape DEF Good, DistinctVotes
<1> QED
  BY <1>1, <1>2, <1>3, ShiftedShape

Tally == [authorize : BOOLEAN, votes : Nat]

\* A tally is a direction and a number.
LEMMA TallyType ==
  ASSUME NEW b \in BOOLEAN, NEW n \in Nat
  PROVE  [authorize |-> b, votes |-> n] \in Tally
  BY DEF Tally

\* Uncasting k counted votes takes k off, and never below none.
LEMMA UncastTally ==
  ASSUME NEW q \in Tally, NEW k \in Nat, NEW r, r = uncastTally(q, q.authorize, k)
  PROVE  /\ r \in Tally
         /\ r.votes = IF q.votes > k THEN q.votes - k ELSE 0
         /\ q.votes > k => r.authorize = q.authorize
<1>1. q.votes > k => r = [q EXCEPT !.votes = q.votes - k]
  BY DEF uncastTally
<1>2. ~ (q.votes > k) => r = [authorize |-> FALSE, votes |-> 0]
  BY DEF uncastTally, NoTally
<1>3. /\ q = [authorize |-> q.authorize, votes |-> q.votes]
      /\ q.votes \in Nat
      /\ q.authorize \in BOOLEAN
  BY DEF Tally
<1>4. q.votes > k => r = [authorize |-> q.authorize, votes |-> q.votes - k]
  BY <1>1, <1>3
<1>5. r \in Tally
  <2>1. CASE q.votes > k
    <3>1. q.votes - k \in Nat
      BY <1>3, <2>1
    <3> QED
      BY <1>3, <1>4, <2>1, <3>1, TallyType, Zenon
  <2>2. CASE ~ (q.votes > k)
    <3>1. FALSE \in BOOLEAN /\ 0 \in Nat
      OBVIOUS
    <3> QED
      BY <1>2, <2>2, <3>1, TallyType, Zenon
  <2> QED
    BY <2>1, <2>2
<1>6. r.votes = IF q.votes > k THEN q.votes - k ELSE 0
  BY <1>2, <1>4
<1>7. q.votes > k => r.authorize = q.authorize
  BY <1>4
<1> QED
  BY <1>5, <1>6, <1>7

\* Uncasting the signer's previous vote on the account leaves none behind.
LEMMA DiscardVoteGood ==
  ASSUME NEW s, NEW n \in Nat, Good(s, n), NEW h, Addressed(h)
  PROVE  LET t == DiscardVote(s, h) IN
         /\ Good(t, n)
         /\ t.number = s.number /\ t.signers = s.signers /\ t.recents = s.recents
         /\ t.votes \subseteq s.votes
         /\ \A v \in t.votes : ~ (v.signer = h.signer /\ v.address = h.coinbase)
<1> DEFINE t == DiscardVote(s, h)
           c == h.coinbase
           P == PreviousVotes(s, h)
           vote == CHOOSE v \in P : \A w \in P : v.block <= w.block
<1>0. Typed(s) /\ DistinctVotes(s) /\ c \in Addr
  BY DEF Good, Addressed
<1>1. CASE P = {}
  <2>1. t = s
    BY <1>1 DEF DiscardVote
  <2> QED
    BY <1>1, <2>1 DEF PreviousVotes
<1>2. CASE P # {}
  <2>1. PICK v \in P : TRUE
    BY <1>2
  <2>2. \A w \in P : w = v /\ w.block \in Nat
    BY <1>0, <2>1 DEF PreviousVotes, DistinctVotes, Typed, Snapshot, Vote
  <2>3. vote = v
    BY <2>1, <2>2
  <2>4. /\ v \in s.votes /\ v.address = c /\ v.signer = h.signer
        /\ s.tally[c].authorize = v.authorize
        /\ s.tally[c].votes = Cardinality(VotesOn(s, c))
    BY <1>0, <2>1 DEF PreviousVotes, Good, TalliedOn, VotesOn
  <2>5. t = [s EXCEPT !.votes = @ \ {v}, !.tally[c] = uncastTally(@, v.authorize, 1)]
    BY <1>2, <2>3, Zenon DEF DiscardVote
  <2> HIDE DEF t, vote, P
  <2>6. s.tally[c] \in Tally
    BY <1>0 DEF Typed, Snapshot, Tally
  <2> DEFINE q == uncastTally(s.tally[c], v.authorize, 1)
  <2>7. /\ q \in Tally
        /\ s.tally[c].votes >= 1 => q.votes = s.tally[c].votes - 1
        /\ s.tally[c].votes > 1 => q.authorize = s.tally[c].authorize
    <3>1. q = uncastTally(s.tally[c], s.tally[c].authorize, 1)
      BY <2>4
    <3>2. s.tally[c].votes \in Nat
      BY <2>6 DEF Tally
    <3>3. /\ q \in Tally
          /\ q.votes = IF s.tally[c].votes > 1 THEN s.tally[c].votes - 1 ELSE 0
          /\ s.tally[c].votes > 1 => q.authorize = s.tally[c].authorize
      BY <2>6, <3>1, UncastTally, Zenon
    <3> QED
      BY <3>2, <3>3
  <2> HIDE DEF q
  <2>8. /\ t.number = s.number /\ t.signers = s.signers /\ t.recents = s.recents
        /\ t.votes = s.votes \ {v}
        /\ t.tally = [s.tally EXCEPT ![c] = q]
        /\ t \in Snapshot
    <3>1. s = [number |-> s.number, signers |-> s.signers, recents |-> s.recents,
               votes |-> s.votes, tally |-> s.tally]
      BY <1>0 DEF Typed, Snapshot
    <3>2. t = [number |-> s.number, signers |-> s.signers, recents |-> s.recents,
               votes |-> s.votes \ {v}, tally |-> [s.tally EXCEPT ![c] = q]]
      BY <2>5, <3>1, Zenon DEF q
    <3>3. [s.tally EXCEPT ![c] = q] \in [Addr -> [authorize : BOOLEAN, votes : Nat]]
      BY <1>0, <2>7 DEF Typed, Snapshot, Tally
    <3>4. s \in Snapshot
      BY <1>0 DEF Typed
    <3> DEFINE tally == [s.tally EXCEPT ![c] = q]
               votes == s.votes \ {v}
    <3>5. votes \in SUBSET Vote
      BY <3>4 DEF Snapshot
    <3>6. /\ t = [number |-> s.number, signers |-> s.signers, recents |-> s.recents,
                  votes |-> votes, tally |-> tally]
          /\ tally \in [Addr -> [authorize : BOOLEAN, votes : Nat]]
      BY <3>2, <3>3
    <3>7. t \in Snapshot
      <4> HIDE DEF tally, votes
      <4> QED
        BY <3>4, <3>5, <3>6 DEF Snapshot
    <3> QED
      BY <3>2, <3>7
  <2>9. Typed(t)
    <3>1. IsFiniteSet(s.votes) /\ IsFiniteSet(s.signers)
      BY <1>0 DEF Typed
    <3>2. IsFiniteSet(s.votes \ {v})
      BY <3>1, FS_RemoveElement
    <3> QED
      BY <2>8, <3>1, <3>2, Zenon DEF Typed
  <2>10. VotesOn(t, c) = VotesOn(s, c) \ {v} /\ v \in VotesOn(s, c)
    BY <2>4, <2>8 DEF VotesOn
  <2>11. IsFiniteSet(VotesOn(s, c))
    BY <1>0, FS_Subset DEF VotesOn, Typed
  <2>12. Cardinality(VotesOn(t, c)) = Cardinality(VotesOn(s, c)) - 1
    <3> DEFINE S == VotesOn(s, c)
    <3> HIDE DEF S
    <3>1. v \in S /\ IsFiniteSet(S)
      BY <2>10, <2>11 DEF S
    <3>2. Cardinality(S \ {v}) = Cardinality(S) - 1
      BY <3>1, FS_RemoveElement, Zenon
    <3> QED
      BY <2>10, <3>2 DEF S
  <2>13. s.tally[c].votes >= 1 /\ (VotesOn(t, c) # {} => s.tally[c].votes > 1)
    BY <2>4, <2>10, <2>11, <2>12, FS_CardinalityType, FS_EmptySet, FS_RemoveElement
  <2>14. t.tally[c] = q
    BY <1>0, <2>8 DEF Typed, Snapshot
  <2>15. TalliedOn(t, c)
    BY <1>0, <2>4, <2>7, <2>8, <2>10, <2>12, <2>13, <2>14
       DEF TalliedOn, Good, validVote, VotesOn
  <2>16. ASSUME NEW a \in Addr, a # c PROVE TalliedOn(t, a)
    <3>1. VotesOn(t, a) = VotesOn(s, a)
      BY <2>4, <2>8, <2>16 DEF VotesOn
    <3>2. t.tally[a] = s.tally[a]
      BY <1>0, <2>8, <2>16 DEF Typed, Snapshot
    <3> QED
      BY <2>8, <3>1, <3>2 DEF TalliedOn, Good, validVote
  <2>17. Good(t, n)
    BY <2>8, <2>9, <2>15, <2>16 DEF Good, DistinctVotes
  <2>18. \A w \in t.votes : ~ (w.signer = h.signer /\ w.address = h.coinbase)
    BY <2>1, <2>2, <2>8 DEF PreviousVotes, P
  <2> QED
    BY <2>8, <2>17, <2>18 DEF t
<1> QED
  BY <1>1, <1>2

\* Casting adds one vote; only a new tally takes the direction of the vote.
LEMMA CastTally ==
  ASSUME NEW q \in Tally, NEW b \in BOOLEAN, NEW r, r = castTally(q, b)
  PROVE  /\ r \in Tally
         /\ r.votes = q.votes + 1
         /\ q.votes > 0 => r.authorize = q.authorize
         /\ ~ (q.votes > 0) => r.authorize = b
<1>1. /\ q = [authorize |-> q.authorize, votes |-> q.votes]
      /\ q.votes \in Nat
      /\ q.authorize \in BOOLEAN
  BY DEF Tally
<1>2. CASE q.votes > 0
  <2>1. r = [q EXCEPT !.votes = q.votes + 1]
    BY <1>2 DEF castTally
  <2>2. r = [authorize |-> q.authorize, votes |-> q.votes + 1] /\ q.votes + 1 \in Nat
    BY <1>1, <2>1
  <2>3. r \in Tally
    BY <1>1, <2>2, TallyType, Zenon
  <2> QED
    BY <1>2, <2>2, <2>3
<1>3. CASE ~ (q.votes > 0)
  <2>1. r = [authorize |-> b, votes |-> 1] /\ 1 \in Nat /\ q.votes = 0
    BY <1>1, <1>3 DEF castTally
  <2>2. r \in Tally
    BY <2>1, TallyType, Zenon
  <2> QED
    BY <1>3, <2>1, <2>2
<1> QED
  BY <1>2, <1>3

\* Only one direction of vote on an account makes sense at a time.
LEMMA ValidVoteUnique ==
  ASSUME NEW s, NEW a, NEW b \in BOOLEAN, NEW d \in BOOLEAN,
         validVote(s, a, b), validVote(s, a, d)
  PROVE  b = d
<1> DEFINE member == a \in s.signers
<1>1. member \in BOOLEAN /\ member # b /\ member # d
  BY DEF validVote
<1> HIDE DEF member
<1>2. b = TRUE \/ b = FALSE
  OBVIOUS
<1>3. d = TRUE \/ d = FALSE
  OBVIOUS
<1>4. member = TRUE \/ member = FALSE
  BY <1>1
<1> QED
  BY <1>1, <1>2, <1>3, <1>4

\* The vote that header h casts.
VoteOf(v, h) ==
  v.signer = h.signer /\ v.address = h.coinbase /\ v.authorize = (h.nonce = "auth")

\* Counting the signer's vote, once its previous one on the account is gone.
LEMMA CastVoteGood ==
  ASSUME NEW s, NEW n \in Nat, Good(s, n), NEW h, Addressed(h), h.signer \in s.signers,
         \A v \in s.votes : ~ (v.signer = h.signer /\ v.address = h.coinbase)
  PROVE  LET t == CastVote(s, h, n + 1) IN
         /\ Good(t, n + 1)
         /\ t.number = s.number /\ t.signers = s.signers /\ t.recents = s.recents
         /\ \A v \in t.votes : v \in s.votes \/ VoteOf(v, h)
<1> DEFINE t == CastVote(s, h, n + 1)
           c == h.coinbase
           b == h.nonce = "auth"
           new == [signer |-> h.signer, block |-> n + 1, address |-> c, authorize |-> b]
           q == castTally(s.tally[c], b)
<1>0. /\ Typed(s) /\ DistinctVotes(s) /\ c \in Addr /\ b \in BOOLEAN
      /\ \A v \in s.votes : v.block \in Nat /\ v.block <= n /\ v.authorize \in BOOLEAN
  BY DEF Good, Addressed, Typed, Snapshot, Vote
<1> HIDE DEF b
<1>1. CASE ~ validVote(s, c, b)
  <2>1. t = s
    BY <1>1 DEF CastVote, b
  <2>2. \A v \in s.votes : v.block <= n + 1
    BY <1>0
  <2> QED
    BY <2>1, <2>2 DEF Good
<1>2. CASE validVote(s, c, b)
  <2>1. t = [s EXCEPT !.tally[c] = castTally(@, b), !.votes = @ \cup {new}]
    BY <1>2 DEF CastVote, b
  <2>2. s.tally[c] \in Tally
    BY <1>0 DEF Typed, Snapshot, Tally
  <2>3. /\ q \in Tally
        /\ q.votes = s.tally[c].votes + 1
        /\ s.tally[c].votes > 0 => q.authorize = s.tally[c].authorize
        /\ ~ (s.tally[c].votes > 0) => q.authorize = b
    BY <1>0, <2>2, CastTally
  <2>4. /\ t.number = s.number /\ t.signers = s.signers /\ t.recents = s.recents
        /\ t.votes = s.votes \cup {new}
        /\ t.tally = [s.tally EXCEPT ![c] = q]
        /\ t \in Snapshot
    <3>1. s = [number |-> s.number, signers |-> s.signers, recents |-> s.recents,
               votes |-> s.votes, tally |-> s.tally]
      BY <1>0 DEF Typed, Snapshot
    <3>2. t = [number |-> s.number, signers |-> s.signers, recents |-> s.recents,
               votes |-> s.votes \cup {new}, tally |-> [s.tally EXCEPT ![c] = q]]
      BY <2>1, <3>1, Zenon
    <3>3. [s.tally EXCEPT ![c] = q] \in [Addr -> [authorize : BOOLEAN, votes : Nat]]
      BY <1>0, <2>3 DEF Typed, Snapshot, Tally
    <3>4. new \in Vote
      BY <1>0 DEF Vote, Addressed
    <3> QED
      BY <1>0, <3>2, <3>3, <3>4 DEF Typed, Snapshot
  <2>5. new.signer = h.signer /\ new.block = n + 1 /\ new.address = c /\ new.authorize = b
    OBVIOUS
  <2> HIDE DEF t, new, q
  <2>6. Typed(t)
    <3>1. IsFiniteSet(s.votes \cup {new})
      BY <1>0, FS_AddElement DEF Typed
    <3> QED
      BY <1>0, <2>4, <3>1 DEF Typed
  <2>7. VotesOn(t, c) = VotesOn(s, c) \cup {new} /\ new \notin VotesOn(s, c)
    BY <1>0, <2>4, <2>5 DEF VotesOn
  <2>8. IsFiniteSet(VotesOn(s, c))
    BY <1>0, FS_Subset DEF VotesOn, Typed
  <2>9. Cardinality(VotesOn(t, c)) = Cardinality(VotesOn(s, c)) + 1
    <3> DEFINE S == VotesOn(s, c)
    <3> HIDE DEF S
    <3>1. Cardinality(S \cup {new}) = Cardinality(S) + 1
      BY <2>7, <2>8, FS_AddElement, Zenon DEF S
    <3> QED
      BY <2>7, <3>1 DEF S
  <2>10. TalliedOn(s, c)
    BY <1>0 DEF Good
  <2>11. t.tally[c] = q
    BY <1>0, <2>4 DEF Typed, Snapshot
  <2>12. \A v \in VotesOn(s, c) : v.authorize = b
    BY <1>0, <1>2, <2>10, ValidVoteUnique DEF TalliedOn, VotesOn
  <2>13. q.authorize = b
    <3>1. CASE s.tally[c].votes > 0
      <4>1. PICK v \in VotesOn(s, c) : TRUE
        BY <2>8, <2>10, <3>1, FS_EmptySet DEF TalliedOn
      <4>2. v.authorize = s.tally[c].authorize
        BY <2>10, <4>1 DEF TalliedOn
      <4> QED
        BY <2>3, <2>12, <3>1, <4>1, <4>2
    <3> QED
      BY <2>3, <3>1
  <2>14. t.tally[c].votes = Cardinality(VotesOn(t, c))
    BY <2>3, <2>9, <2>10, <2>11 DEF TalliedOn
  <2>15. \A v \in VotesOn(t, c) : v.authorize = t.tally[c].authorize
                                 /\ validVote(t, c, v.authorize)
    <3>1. \A v \in VotesOn(t, c) : v.authorize = b
      BY <2>5, <2>7, <2>12
    <3>2. validVote(t, c, b)
      BY <1>2, <2>4 DEF validVote
    <3> QED
      BY <2>11, <2>13, <3>1, <3>2, Zenon
  <2>16. ASSUME NEW a \in Addr, a # c PROVE TalliedOn(t, a)
    <3>1. VotesOn(t, a) = VotesOn(s, a)
      BY <2>4, <2>5, <2>16 DEF VotesOn
    <3>2. t.tally[a] = s.tally[a]
      BY <1>0, <2>4, <2>16 DEF Typed, Snapshot
    <3> QED
      BY <2>4, <3>1, <3>2 DEF TalliedOn, Good, validVote
  <2>17. DistinctVotes(t)
    BY <1>0, <2>4, <2>5 DEF DistinctVotes
  <2>18. \A v \in t.votes : v.signer \in t.signers /\ v.block <= n + 1
    BY <1>0, <2>4, <2>5 DEF Good
  <2>19. Good(t, n + 1)
    BY <2>6, <2>14, <2>15, <2>16, <2>17, <2>18 DEF Good, TalliedOn
  <2> QED
    BY <2>4, <2>5, <2>19 DEF t, VoteOf, b
<1> QED
  BY <1>1, <1>2

\* Dropping the votes on an account that changed status.
LEMMA DiscardVotesOnShape ==
  ASSUME NEW s, Typed(s), NEW addr \in Addr
  PROVE  LET t == DiscardVotesOn(s, addr) IN
         /\ Typed(t)
         /\ t.number = s.number /\ t.signers = s.signers /\ t.recents = s.recents
         /\ t.votes = {v \in s.votes : v.address # addr}
         /\ t.tally = [s.tally EXCEPT ![addr] = NoTally]
<1> DEFINE t == DiscardVotesOn(s, addr)
           kept == {v \in s.votes : v.address # addr}
<1>1. s = [number |-> s.number, signers |-> s.signers, recents |-> s.recents,
           votes |-> s.votes, tally |-> s.tally]
  BY DEF Typed, Snapshot
<1>2. t = [number |-> s.number, signers |-> s.signers, recents |-> s.recents,
           votes |-> kept, tally |-> [s.tally EXCEPT ![addr] = NoTally]]
  <2>1. t = [s EXCEPT !.votes = kept, !.tally[addr] = NoTally]
    BY DEF DiscardVotesOn
  <2> HIDE DEF kept, t
  <2> QED
    BY <1>1, <2>1, Zenon
<1>3. NoTally \in Tally
  BY TallyType, Zenon DEF NoTally
<1>4. [s.tally EXCEPT ![addr] = NoTally] \in [Addr -> [authorize : BOOLEAN, votes : Nat]]
  BY <1>3 DEF Typed, Snapshot, Tally
<1>5. IsFiniteSet(kept)
  BY FS_Subset DEF Typed
<1> QED
  BY <1>2, <1>4, <1>5 DEF Typed, Snapshot

\* Votes that dropped addr cast.
CountedOf(s, addr, a) ==
  {v \in s.votes : v.signer = addr /\ v.address = a /\ v.authorize = s.tally[a].authorize}

\* Uncasting the votes of a signer that was dropped.
LEMMA DiscardVotesOfShape ==
  ASSUME NEW s, Typed(s), NEW addr \in Addr
  PROVE  LET t == DiscardVotesOf(s, addr) IN
         /\ Typed(t)
         /\ t.number = s.number /\ t.signers = s.signers /\ t.recents = s.recents
         /\ t.votes = {v \in s.votes : v.signer # addr}
         /\ \A a \in Addr : t.tally[a] = uncastTally(s.tally[a], s.tally[a].authorize,
                                            Cardinality(CountedOf(s, addr, a)))
<1> DEFINE t == DiscardVotesOf(s, addr)
           kept == {v \in s.votes : v.signer # addr}
           f == [a \in Addr |-> uncastTally(s.tally[a], s.tally[a].authorize,
                                            Cardinality(CountedOf(s, addr, a)))]
<1>1. s = [number |-> s.number, signers |-> s.signers, recents |-> s.recents,
           votes |-> s.votes, tally |-> s.tally]
  BY DEF Typed, Snapshot
<1>2. t = [s EXCEPT !.votes = kept, !.tally = f]
  BY DEF DiscardVotesOf, CountedOf
<1>3. ASSUME NEW a \in Addr PROVE f[a] \in Tally
  <2>1. IsFiniteSet(CountedOf(s, addr, a))
    BY FS_Subset DEF Typed, CountedOf
  <2>2. Cardinality(CountedOf(s, addr, a)) \in Nat
    BY <2>1, FS_CardinalityType
  <2>3. s.tally[a] \in Tally
    BY DEF Typed, Snapshot, Tally
  <2> QED
    BY <2>2, <2>3, UncastTally
<1>4. IsFiniteSet(kept)
  BY FS_Subset DEF Typed
<1>5. f \in [Addr -> [authorize : BOOLEAN, votes : Nat]]
  BY <1>3 DEF Tally
<1>6. \A a \in Addr : f[a] = uncastTally(s.tally[a], s.tally[a].authorize,
                                        Cardinality(CountedOf(s, addr, a)))
  OBVIOUS
<1> HIDE DEF f
<1>7. t = [number |-> s.number, signers |-> s.signers, recents |-> s.recents,
           votes |-> kept, tally |-> f]
  BY <1>1, <1>2, Zenon
<1> QED
  BY <1>4, <1>5, <1>6, <1>7 DEF Typed, Snapshot

\* Concluding a vote that passed: what becomes of every field.
LEMMA AuthorizeShape ==
  ASSUME NEW s, Typed(s), NEW addr \in Addr, NEW n \in Nat, Passed(s, addr),
         s.tally[addr].authorize
  PROVE  LET t == ConcludeVote(s, addr, n) IN
         /\ Typed(t)
         /\ t.number = s.number /\ t.recents = s.recents
         /\ t.signers = s.signers \cup {addr}
         /\ t.votes = {v \in s.votes : v.address # addr}
         /\ t.tally = [s.tally EXCEPT ![addr] = NoTally]
<1> DEFINE u == [s EXCEPT !.signers = @ \cup {addr}]
<1>1. /\ u \in Snapshot /\ u.signers = s.signers \cup {addr} /\ u.number = s.number
      /\ u.recents = s.recents /\ u.votes = s.votes /\ u.tally = s.tally
  BY DEF Typed, Snapshot
<1>2. ConcludeVote(s, addr, n) = DiscardVotesOn(u, addr)
  BY DEF ConcludeVote
<1> HIDE DEF u
<1>3. IsFiniteSet(s.signers \cup {addr})
  BY FS_AddElement DEF Typed
<1>4. Typed(u)
  BY <1>1, <1>3 DEF Typed
<1> QED
  BY <1>1, <1>2, <1>4, DiscardVotesOnShape

\* The same for a vote that drops a signer: its own votes go as well, and the recent
\* list loses the entry the smaller limit shifts out.
LEMMA DropShape ==
  ASSUME NEW s, Typed(s), NEW addr \in Addr, NEW n \in Nat, Passed(s, addr),
         ~ s.tally[addr].authorize
  PROVE  LET t == ConcludeVote(s, addr, n) IN
         /\ Typed(t)
         /\ t.number = s.number
         /\ t.signers = s.signers \ {addr}
         /\ t.recents = {r \in s.recents : r.number + Limit(t) # n}
         /\ t.votes = {v \in s.votes : v.signer # addr /\ v.address # addr}
         /\ \A a \in Addr \ {addr} :
              t.tally[a] = uncastTally(s.tally[a], s.tally[a].authorize,
                                       Cardinality(CountedOf(s, addr, a)))
         /\ t.tally[addr] = NoTally
<1> DEFINE u == [s EXCEPT !.signers = @ \ {addr}]
           w == DropRecent(u, n)
           x == DiscardVotesOf(w, addr)
           t == ConcludeVote(s, addr, n)
<1>1. /\ u \in Snapshot /\ u.signers = s.signers \ {addr} /\ u.number = s.number
      /\ u.recents = s.recents /\ u.votes = s.votes /\ u.tally = s.tally
  BY DEF Typed, Snapshot
<1>2. t = DiscardVotesOn(x, addr)
  BY DEF ConcludeVote
<1> HIDE DEF u
<1>3. /\ w \in Snapshot /\ w.signers = u.signers /\ w.number = u.number
      /\ w.recents = {r \in u.recents : r.number + Limit(u) # n}
      /\ w.votes = u.votes /\ w.tally = u.tally
  BY <1>1 DEF DropRecent, Snapshot
<1> HIDE DEF w, t
<1>4. IsFiniteSet(s.signers \ {addr})
  BY FS_RemoveElement DEF Typed
<1>5. Typed(w)
  BY <1>1, <1>3, <1>4 DEF Typed
<1>6. \A a \in Addr : CountedOf(w, addr, a) = CountedOf(s, addr, a)
  BY <1>1, <1>3 DEF CountedOf
<1>7. /\ Typed(x)
      /\ x.number = s.number /\ x.signers = s.signers \ {addr} /\ x.recents = w.recents
      /\ x.votes = {v \in s.votes : v.signer # addr}
      /\ \A a \in Addr : x.tally[a] = uncastTally(s.tally[a], s.tally[a].authorize,
                                         Cardinality(CountedOf(s, addr, a)))
  <2>1. /\ Typed(x)
        /\ x.number = w.number /\ x.signers = w.signers /\ x.recents = w.recents
        /\ x.votes = {v \in w.votes : v.signer # addr}
        /\ \A a \in Addr : x.tally[a] = uncastTally(w.tally[a], w.tally[a].authorize,
                                           Cardinality(CountedOf(w, addr, a)))
    BY <1>5, DiscardVotesOfShape
  <2> HIDE DEF x
  <2> QED
    BY <1>1, <1>3, <1>6, <2>1
<1> HIDE DEF x
<1>8. /\ Typed(t)
      /\ t.number = x.number /\ t.signers = x.signers /\ t.recents = x.recents
      /\ t.votes = {v \in x.votes : v.address # addr}
      /\ t.tally = [x.tally EXCEPT ![addr] = NoTally]
  BY <1>2, <1>7, DiscardVotesOnShape
<1>9. Limit(t) = Limit(u)
  BY <1>1, <1>7, <1>8 DEF Limit
<1>10. DOMAIN x.tally = Addr
  BY <1>7 DEF Typed, Snapshot
<1> QED
  BY <1>1, <1>3, <1>7, <1>8, <1>9, <1>10 DEF t

\* Removing part of a finite set takes its size off.
LEMMA DifferenceCardinality ==
  ASSUME NEW S, IsFiniteSet(S), NEW K \in SUBSET S
  PROVE  /\ Cardinality(S) \in Nat /\ Cardinality(K) \in Nat
         /\ IsFiniteSet(S \ K)
         /\ Cardinality(K) <= Cardinality(S)
         /\ Cardinality(S \ K) = Cardinality(S) - Cardinality(K)
<1> DEFINE D == S \ K
<1>1. IsFiniteSet(K) /\ IsFiniteSet(D) /\ Cardinality(K) <= Cardinality(S)
  BY FS_Subset
<1>2. S = D \cup K /\ D \cap K = {}
  OBVIOUS
<1> HIDE DEF D
<1>3. Cardinality(S) \in Nat /\ Cardinality(K) \in Nat /\ Cardinality(D) \in Nat
  BY <1>1, FS_CardinalityType
<1>4. Cardinality(D \cup K) = Cardinality(D) + Cardinality(K) - Cardinality(D \cap K)
  BY <1>1, FS_Union
<1>5. Cardinality(D \cap K) = 0
  BY <1>2, FS_EmptySet
<1>6. Cardinality(D \cup K) = Cardinality(S)
  BY <1>2
<1>7. Cardinality(D) = Cardinality(S) - Cardinality(K)
  BY <1>3, <1>4, <1>5, <1>6
<1> QED
  BY <1>1, <1>3, <1>7 DEF D

\* Concluding a vote, in either direction, keeps votes and tally in order.
LEMMA ConcludeVoteGood ==
  ASSUME NEW s, NEW n \in Nat, Good(s, n), NEW addr \in Addr
  PROVE  Good(ConcludeVote(s, addr, n), n)
<1> DEFINE t == ConcludeVote(s, addr, n)
<1>0. Typed(s) /\ DistinctVotes(s)
  BY DEF Good
<1>1. CASE ~ Passed(s, addr)
  BY <1>1 DEF ConcludeVote
<1>2. CASE Passed(s, addr) /\ s.tally[addr].authorize
  <2>1. /\ Typed(t)
        /\ t.signers = s.signers \cup {addr}
        /\ t.votes = {v \in s.votes : v.address # addr}
        /\ t.tally = [s.tally EXCEPT ![addr] = NoTally]
    BY <1>0, <1>2, AuthorizeShape
  <2> HIDE DEF t
  <2>2. TalliedOn(t, addr)
    <3>1. VotesOn(t, addr) = {} /\ t.tally[addr].votes = 0
      BY <1>0, <2>1 DEF VotesOn, NoTally, Typed, Snapshot
    <3> QED
      BY <3>1, FS_EmptySet DEF TalliedOn
  <2>3. ASSUME NEW a \in Addr, a # addr PROVE TalliedOn(t, a)
    <3>1. VotesOn(t, a) = VotesOn(s, a)
      BY <2>1, <2>3 DEF VotesOn
    <3>2. t.tally[a] = s.tally[a] /\ (a \in t.signers <=> a \in s.signers)
      BY <1>0, <2>1, <2>3 DEF Typed, Snapshot
    <3> QED
      BY <3>1, <3>2 DEF TalliedOn, Good, validVote
  <2> QED
    BY <2>1, <2>2, <2>3 DEF Good, DistinctVotes, t
<1>3. CASE Passed(s, addr) /\ ~ s.tally[addr].authorize
  <2>1. /\ Typed(t)
        /\ t.signers = s.signers \ {addr}
        /\ t.votes = {v \in s.votes : v.signer # addr /\ v.address # addr}
        /\ \A a \in Addr \ {addr} :
             t.tally[a] = uncastTally(s.tally[a], s.tally[a].authorize,
                                      Cardinality(CountedOf(s, addr, a)))
        /\ t.tally[addr] = NoTally
    BY <1>0, <1>3, DropShape
  <2> HIDE DEF t
  <2>2. TalliedOn(t, addr)
    <3>1. VotesOn(t, addr) = {} /\ t.tally[addr].votes = 0
      BY <2>1 DEF VotesOn, NoTally
    <3> QED
      BY <3>1, FS_EmptySet DEF TalliedOn
  <2>3. ASSUME NEW a \in Addr, a # addr PROVE TalliedOn(t, a)
    <3> DEFINE S == VotesOn(s, a)
               K == CountedOf(s, addr, a)
               q == s.tally[a]
    <3>1. TalliedOn(s, a)
      BY DEF Good
    <3>2. K \in SUBSET S /\ VotesOn(t, a) = S \ K
      BY <2>1, <2>3, <3>1 DEF VotesOn, CountedOf, TalliedOn
    <3>3. IsFiniteSet(S)
      BY <1>0, FS_Subset DEF VotesOn, Typed
    <3>4. q \in Tally /\ q.votes = Cardinality(S)
      BY <1>0, <3>1 DEF TalliedOn, Typed, Snapshot, Tally
    <3>5. t.tally[a] = uncastTally(q, q.authorize, Cardinality(K))
      BY <2>1, <2>3
    <3>6. \A v \in S : v.authorize = q.authorize /\ validVote(t, a, v.authorize)
      <4>1. a \in t.signers <=> a \in s.signers
        BY <2>1, <2>3
      <4> QED
        BY <3>1, <4>1 DEF TalliedOn, validVote
    <3> HIDE DEF S, K, q
    <3>7. /\ Cardinality(S) \in Nat /\ Cardinality(K) \in Nat
          /\ IsFiniteSet(S \ K)
          /\ Cardinality(K) <= Cardinality(S)
          /\ Cardinality(S \ K) = Cardinality(S) - Cardinality(K)
      BY <3>2, <3>3, DifferenceCardinality
    <3>8. /\ t.tally[a].votes = IF q.votes > Cardinality(K) THEN q.votes - Cardinality(K) ELSE 0
          /\ q.votes > Cardinality(K) => t.tally[a].authorize = q.authorize
      BY <3>4, <3>5, <3>7, UncastTally, Zenon
    <3>9. t.tally[a].votes = Cardinality(VotesOn(t, a))
      BY <3>2, <3>4, <3>7, <3>8
    <3>10. S \ K # {} => Cardinality(S) > Cardinality(K)
      BY <3>7, FS_EmptySet
    <3> QED
      BY <3>2, <3>4, <3>6, <3>8, <3>9, <3>10 DEF TalliedOn
  <2> QED
    BY <2>1, <2>2, <2>3 DEF Good, DistinctVotes, t
<1> QED
  BY <1>1, <1>2, <1>3

\* The snapshot before the vote is concluded.
LEMMA CountedShape ==
  ASSUME NEW s, Good(s, s.number), NEW h, Addressed(h), h.signer \in s.signers
  PROVE  LET t == Counted(s, h) IN
         /\ Good(t, s.number + 1)
         /\ t.number = s.number /\ t.signers = s.signers
         /\ t.recents = {r \in s.recents : r.number + Limit(s) # s.number + 1}
                          \cup {[number |-> s.number + 1, signer |-> h.signer]}
         /\ (s.number + 1) % Epoch = 0 => \A v \in t.votes : VoteOf(v, h)
         /\ s.votes = {} => \A v \in t.votes : VoteOf(v, h)
<1> DEFINE n == s.number + 1
           u == Shifted(s)
           w == AddRecent(u, n, h.signer)
           x == DiscardVote(w, h)
           t == Counted(s, h)
<1>0. Typed(s) /\ s.number \in Nat /\ n \in Nat /\ h.signer \in Addr
  BY DEF Good, Typed, Snapshot, Addressed
<1>1. t = CastVote(x, h, s.number + 1)
  BY DEF Counted
<1>2. /\ Typed(u) /\ Good(u, s.number)
      /\ u.number = s.number /\ u.signers = s.signers
      /\ u.recents = {r \in s.recents : r.number + Limit(s) # s.number + 1}
      /\ (s.number + 1) % Epoch = 0 \/ s.votes = {} => u.votes = {}
  BY <1>0, ShiftedShape, ShiftedGood
<1> HIDE DEF u, t
<1>3. /\ Typed(w)
      /\ w.number = u.number /\ w.signers = u.signers
      /\ w.recents = u.recents \cup {[number |-> n, signer |-> h.signer]}
      /\ w.votes = u.votes /\ w.tally = u.tally
  BY <1>0, <1>2, AddRecentShape
<1> HIDE DEF w
<1>4. Good(w, s.number)
  BY <1>0, <1>2, <1>3, GoodFrame
<1>5. /\ Good(x, s.number)
      /\ x.number = w.number /\ x.signers = w.signers /\ x.recents = w.recents
      /\ x.votes \subseteq w.votes
      /\ \A v \in x.votes : ~ (v.signer = h.signer /\ v.address = h.coinbase)
  BY <1>0, <1>4, DiscardVoteGood
<1> HIDE DEF x
<1>6. h.signer \in x.signers
  BY <1>2, <1>3, <1>5
<1>7. /\ Good(t, s.number + 1)
      /\ t.number = x.number /\ t.signers = x.signers /\ t.recents = x.recents
      /\ \A v \in t.votes : v \in x.votes \/ VoteOf(v, h)
  BY <1>0, <1>1, <1>5, <1>6, CastVoteGood
<1>8. (s.number + 1) % Epoch = 0 \/ s.votes = {} => \A v \in t.votes : VoteOf(v, h)
  BY <1>2, <1>3, <1>5, <1>7
<1>9. /\ t.number = s.number /\ t.signers = s.signers
      /\ t.recents = u.recents \cup {[number |-> n, signer |-> h.signer]}
  BY <1>2, <1>3, <1>5, <1>7
<1> QED
  BY <1>2, <1>7, <1>8, <1>9 DEF t

\* The limit moves by at most one with the signer a vote adds or removes.
LEMMA LimitMoves ==
  ASSUME NEW s, NEW t, NEW x, IsFiniteSet(s.signers)
  PROVE  /\ t.signers = s.signers => Limit(t) = Limit(s)
         /\ t.signers = s.signers \cup {x} => Limit(t) \in {Limit(s), Limit(s) + 1}
         /\ t.signers = s.signers \ {x} => Limit(s) \in {Limit(t), Limit(t) + 1}
<1> DEFINE S == s.signers
<1>1. Cardinality(S) \in Nat
  BY FS_CardinalityType
<1>2. Cardinality(S \cup {x}) \in {Cardinality(S), Cardinality(S) + 1}
  BY FS_AddElement
<1>3. /\ Cardinality(S \ {x}) \in {Cardinality(S), Cardinality(S) - 1}
      /\ Cardinality(S \ {x}) \in Nat
  BY FS_RemoveElement, FS_CardinalityType, Zenon
<1>4. t.signers = S => Limit(t) = Limit(s)
  BY DEF Limit
<1>5. ASSUME t.signers = S \cup {x} PROVE Limit(t) \in {Limit(s), Limit(s) + 1}
  <2>1. Cardinality(t.signers) \in {Cardinality(S), Cardinality(S) + 1}
    BY <1>2, <1>5
  <2> QED
    BY <1>1, <2>1 DEF Limit
<1>6. ASSUME t.signers = S \ {x} PROVE Limit(s) \in {Limit(t), Limit(t) + 1}
  <2>1. /\ Cardinality(t.signers) \in {Cardinality(S), Cardinality(S) - 1}
        /\ Cardinality(t.signers) \in Nat
    BY <1>3, <1>6
  <2> QED
    BY <1>1, <2>1 DEF Limit
<1> QED
  BY <1>4, <1>5, <1>6

\* Concluding a vote: the signers, the limit and the recent list move together.
LEMMA ConcludeRecents ==
  ASSUME NEW s, Typed(s), NEW n \in Nat, NEW addr \in Addr
  PROVE  LET t == ConcludeVote(s, addr, n) IN
         /\ Limit(t) \in Nat /\ t.number = s.number
         /\ \/ t.recents = s.recents /\ Limit(t) \in {Limit(s), Limit(s) + 1}
            \/ /\ t.recents = {r \in s.recents : r.number + Limit(t) # n}
               /\ Limit(s) \in {Limit(t), Limit(t) + 1}
<1> DEFINE t == ConcludeVote(s, addr, n)
<1>0. IsFiniteSet(s.signers)
  BY DEF Typed
<1>1. CASE ~ Passed(s, addr)
  <2>1. t = s
    BY <1>1 DEF ConcludeVote
  <2> QED
    BY <1>0, <2>1, LimitType
<1>2. CASE Passed(s, addr) /\ s.tally[addr].authorize
  <2>1. /\ Typed(t)
        /\ t.number = s.number /\ t.recents = s.recents
        /\ t.signers = s.signers \cup {addr}
        /\ t.votes = {v \in s.votes : v.address # addr}
        /\ t.tally = [s.tally EXCEPT ![addr] = NoTally]
    BY <1>2, AuthorizeShape
  <2> HIDE DEF t
  <2>2. Limit(t) \in Nat /\ Limit(t) \in {Limit(s), Limit(s) + 1}
    BY <1>0, <2>1, LimitMoves, LimitType, Zenon DEF Typed
  <2> QED
    BY <2>1, <2>2 DEF t
<1>3. CASE Passed(s, addr) /\ ~ s.tally[addr].authorize
  <2>1. /\ Typed(t) /\ t.number = s.number /\ t.signers = s.signers \ {addr}
        /\ t.recents = {r \in s.recents : r.number + Limit(t) # n}
    BY <1>3, DropShape
  <2> HIDE DEF t
  <2>2. Limit(t) \in Nat /\ Limit(s) \in {Limit(t), Limit(t) + 1}
    BY <1>0, <2>1, LimitMoves, LimitType, Zenon DEF Typed
  <2> QED
    BY <2>1, <2>2 DEF t
<1> QED
  BY <1>1, <1>2, <1>3

\* A header whose author is a signer, taken apart into counting and concluding its
\* vote.
LEMMA ApplyGood ==
  ASSUME NEW s, Good(s, s.number), NEW h, Addressed(h), h.signer \in s.signers
  PROVE  LET n == s.number + 1
             t == ConcludeVote(Counted(s, h), h.coinbase, n)
             a == apply(s, h)
         IN /\ n \in Nat /\ Good(Counted(s, h), n) /\ Good(t, n) /\ Good(a, n)
            /\ a.number = n /\ a.signers = t.signers /\ a.recents = t.recents
            /\ a.votes = t.votes
<1> DEFINE n == s.number + 1
           c == Counted(s, h)
           t == ConcludeVote(c, h.coinbase, n)
           a == apply(s, h)
<1>1. s.number \in Nat /\ n \in Nat /\ h.coinbase \in Addr
  BY DEF Good, Typed, Snapshot, Addressed
<1>2. Good(c, n)
  BY CountedShape
<1>3. Good(t, n)
  BY <1>1, <1>2, ConcludeVoteGood
<1>4. a = [t EXCEPT !.number = n]
  BY DEF apply
<1> HIDE DEF t, c, a
<1>5. /\ a \in Snapshot /\ a.number = n
      /\ a.signers = t.signers /\ a.recents = t.recents
      /\ a.votes = t.votes /\ a.tally = t.tally
  BY <1>1, <1>3, <1>4 DEF Good, Typed, Snapshot
<1>6. Typed(a)
  BY <1>3, <1>5 DEF Typed, Good
<1>7. Good(a, n)
  BY <1>1, <1>3, <1>5, <1>6, GoodFrame
<1> QED
  BY <1>1, <1>2, <1>3, <1>5, <1>7 DEF t, c, a

\* The signers a passed vote leaves behind, and the votes that survive it.
LEMMA ConcludeSigners ==
  ASSUME NEW s, Typed(s), NEW n \in Nat, NEW addr \in Addr
  PROVE  LET t == ConcludeVote(s, addr, n) IN
         /\ t.votes \subseteq s.votes
         /\ \/ t.signers = s.signers
            \/ /\ Passed(s, addr) /\ s.tally[addr].authorize
               /\ t.signers = s.signers \cup {addr}
            \/ /\ Passed(s, addr) /\ ~ s.tally[addr].authorize
               /\ t.signers = s.signers \ {addr}
<1> DEFINE t == ConcludeVote(s, addr, n)
<1>1. CASE ~ Passed(s, addr)
  BY <1>1 DEF ConcludeVote
<1>2. CASE Passed(s, addr) /\ s.tally[addr].authorize
  <2>1. /\ Typed(t)
        /\ t.number = s.number /\ t.recents = s.recents
        /\ t.signers = s.signers \cup {addr}
        /\ t.votes = {v \in s.votes : v.address # addr}
        /\ t.tally = [s.tally EXCEPT ![addr] = NoTally]
    BY <1>2, AuthorizeShape
  <2> HIDE DEF t
  <2> QED
    BY <1>2, <2>1 DEF t
<1>3. CASE Passed(s, addr) /\ ~ s.tally[addr].authorize
  <2>1. /\ t.signers = s.signers \ {addr}
        /\ t.votes = {v \in s.votes : v.signer # addr /\ v.address # addr}
    BY <1>3, DropShape
  <2> HIDE DEF t
  <2> QED
    BY <1>3, <2>1 DEF t
<1> QED
  BY <1>1, <1>2, <1>3

\* The first vote on an empty list is the only one.
LEMMA FirstVote ==
  ASSUME NEW s, Good(s, s.number), s.votes = {}, NEW h, Addressed(h),
         h.signer \in s.signers
  PROVE  Counted(s, h).tally[h.coinbase].votes <= 1
<1> DEFINE c == Counted(s, h)
           V == VotesOn(c, h.coinbase)
<1>1. Good(c, s.number + 1) /\ \A v \in c.votes : VoteOf(v, h)
  BY CountedShape
<1> HIDE DEF c
<1>2. c.tally[h.coinbase].votes = Cardinality(V) /\ V \subseteq c.votes
  BY <1>1 DEF Good, TalliedOn, VotesOn, Addressed
<1>3. \A v, w \in V : v = w
  BY <1>1, <1>2 DEF Good, DistinctVotes, VoteOf
<1>4. V = {} \/ \E v : V = {v}
  BY <1>3, ZenonT(60)
<1>5. Cardinality({}) = 0 /\ \A v : Cardinality({v}) = 1
  BY FS_EmptySet, FS_Singleton, ZenonT(60)
<1> HIDE DEF V
<1>6. Cardinality(V) \in {0, 1}
  BY <1>4, <1>5, ZenonT(60)
<1> QED
  BY <1>2, <1>6 DEF c
-----------------------------------------------------------------------------
(***************************************************************************)
(* Snapshots of a chain of acceptable headers.                             *)
(***************************************************************************)

\* The genesis lists so few signers that the recent list never reaches below it.
FewSigners == Cardinality(GenesisSigners) <= 3

\* Votes and tally agree, the recent list holds only blocks that still bar their
\* author, and a chain gains at most one signer per block.
Sound(s) ==
  /\ Good(s, s.number)
  /\ \A r \in s.recents : r.number \in 1 .. s.number /\ r.number + Limit(s) > s.number
  /\ s.number = 0 => s = Genesis
  /\ FewSigners /\ s.number >= 1 => Cardinality(s.signers) <= s.number + 2

\* The snapshot made from the genesis.
LEMMA GenesisSound ==
  Sound(Genesis)
<1>1. /\ Genesis.number = 0 /\ Genesis.signers = GenesisSigners
      /\ Genesis.recents = {} /\ Genesis.votes = {}
      /\ Genesis.tally = [a \in Addr |-> NoTally]
  BY DEF Genesis, newSnapshot
<1>2. Genesis \in Snapshot
  BY CliqueAssumption DEF Genesis, newSnapshot, Snapshot, NoTally
<1>3. Typed(Genesis)
  BY <1>1, <1>2, CliqueAssumption, FS_EmptySet DEF Typed
<1>4. \A a \in Addr : TalliedOn(Genesis, a)
  <2> SUFFICES ASSUME NEW a \in Addr PROVE TalliedOn(Genesis, a)
    OBVIOUS
  <2>1. VotesOn(Genesis, a) = {}
    BY <1>1 DEF VotesOn
  <2>2. Genesis.tally[a].votes = 0
    BY <1>1 DEF NoTally
  <2> QED
    BY <2>1, <2>2, FS_EmptySet DEF TalliedOn
<1>5. Good(Genesis, 0)
  BY <1>1, <1>3, <1>4 DEF Good, DistinctVotes
<1> QED
  BY <1>1, <1>5 DEF Sound

\* Accepting a header keeps it so.
LEMMA ApplySound ==
  ASSUME NEW s, Sound(s), NEW h, Addressed(h), Accepts(s, h)
  PROVE  LET t == apply(s, h) IN
         Sound(t) /\ t.number = s.number + 1
<1> DEFINE n == s.number + 1
           c == Counted(s, h)
           t == ConcludeVote(c, h.coinbase, n)
           a == apply(s, h)
           L == Limit(s)
           M == Limit(t)
<1>1. Good(s, s.number) /\ Typed(s) /\ s.number \in Nat /\ n \in Nat
  BY DEF Sound, Good, Typed, Snapshot
<1>2. h.signer \in s.signers /\ h.coinbase \in Addr
  <2>1. Shifted(s).signers = s.signers
    BY <1>1, ShiftedShape
  <2> QED
    BY <2>1 DEF Accepts, Authorized, Addressed
<1>3. /\ Good(c, n) /\ Good(t, n) /\ Good(a, n) /\ a.number = n
      /\ a.signers = t.signers /\ a.recents = t.recents
  BY <1>1, <1>2, ApplyGood
<1>4. /\ c.signers = s.signers
      /\ c.recents = {r \in s.recents : r.number + L # n}
                       \cup {[number |-> n, signer |-> h.signer]}
  BY <1>1, <1>2, CountedShape
<1>5. Typed(c) /\ Typed(t)
  BY <1>3 DEF Good
<1>6. /\ M \in Nat
      /\ \/ t.recents = c.recents /\ M \in {Limit(c), Limit(c) + 1}
         \/ /\ t.recents = {r \in c.recents : r.number + M # n}
            /\ Limit(c) \in {M, M + 1}
  BY <1>1, <1>2, <1>5, ConcludeRecents
<1>7. L \in Nat /\ L >= 1 /\ Limit(c) = L /\ Limit(a) = M
  <2>1. Limit(c) = L /\ Limit(a) = M
    BY <1>3, <1>4 DEF Limit
  <2> QED
    BY <1>1, <2>1, LimitType DEF Typed
<1>8. \A r \in c.recents : r.number \in 1 .. n /\ r.number + L > n
  <2> SUFFICES ASSUME NEW r \in c.recents
               PROVE  r.number \in 1 .. n /\ r.number + L > n
    BY ZenonT(60)
  <2> HIDE DEF c
  <2>1. CASE r = [number |-> n, signer |-> h.signer]
    BY <1>1, <1>7, <2>1
  <2>2. CASE r \in s.recents /\ r.number + L # n
    <3>1. r.number \in 1 .. s.number /\ r.number + L > s.number
      BY <2>2 DEF Sound
    <3> QED
      BY <1>1, <1>7, <2>2, <3>1
  <2> QED
    BY <1>4, <2>1, <2>2
<1> HIDE DEF c, t, a
<1>9. \A r \in a.recents : r.number \in 1 .. n /\ r.number + M > n
  <2> SUFFICES ASSUME NEW r \in t.recents
               PROVE  r.number \in 1 .. n /\ r.number + M > n
    BY <1>3
  <2> HIDE DEF L, M
  <2>1. r \in c.recents
    BY <1>6
  <2>2. r.number \in 1 .. n /\ r.number + L > n
    BY <1>8, <2>1
  <2>3. CASE M \in {L, L + 1}
    BY <1>1, <1>6, <1>7, <2>2, <2>3
  <2>4. CASE r.number + M # n /\ L \in {M, M + 1}
    BY <1>1, <1>6, <1>7, <2>2, <2>4
  <2> QED
    BY <1>6, <1>7, <2>3, <2>4
<1>10. ASSUME FewSigners PROVE Cardinality(a.signers) <= n + 2
  <2> DEFINE S == s.signers
             addr == h.coinbase
  <2>1. IsFiniteSet(S) /\ Cardinality(S) \in Nat
    BY <1>1, FS_CardinalityType DEF Typed
  <2>2. \/ t.signers = c.signers
        \/ /\ Passed(c, addr)
           /\ t.signers = c.signers \cup {addr} \/ t.signers = c.signers \ {addr}
    BY <1>1, <1>2, <1>5, ConcludeSigners DEF t
  <2>3. Cardinality(S \cup {addr}) \in {Cardinality(S), Cardinality(S) + 1}
    BY <2>1, FS_AddElement, ZenonT(60)
  <2>4. Cardinality(S \ {addr}) \in {Cardinality(S), Cardinality(S) - 1}
    BY <2>1, FS_RemoveElement, ZenonT(60)
  <2>5. \/ Cardinality(a.signers) = Cardinality(S)
        \/ Passed(c, addr) /\ Cardinality(a.signers) \in
             {Cardinality(S) - 1, Cardinality(S), Cardinality(S) + 1}
    <3> HIDE DEF S
    <3>1. c.signers = S
      BY <1>4 DEF S
    <3> QED
      BY <1>3, <2>2, <2>3, <2>4, <3>1, ZenonT(60)
  <2>6. CASE s.number >= 1
    <3>1. Cardinality(S) <= s.number + 2
      BY <1>10, <2>6 DEF Sound
    <3> QED
      BY <1>1, <2>1, <2>5, <3>1
  <2>7. CASE ~ (s.number >= 1)
    <3>1. s.number = 0 /\ s = Genesis
      BY <1>1, <2>7 DEF Sound
    <3>2. S = GenesisSigners /\ s.votes = {}
      BY <3>1 DEF Genesis, newSnapshot
    <3>3. c.tally[addr].votes <= 1
      BY <1>1, <1>2, <3>2, FirstVote DEF c
    <3>4. Passed(c, addr) => c.tally[addr].votes > Cardinality(S) \div 2
      BY <1>4 DEF Passed
    <3>5. c.tally[addr].votes \in Nat
      BY <1>2, <1>5 DEF Typed, Snapshot
    <3>6. Passed(c, addr) => Cardinality(S) <= 1
      <4> DEFINE k == Cardinality(S)
                 v == c.tally[addr].votes
      <4> HIDE DEF k, v
      <4>1. k \in Nat /\ v \in Nat /\ v <= 1 /\ (Passed(c, addr) => v > k \div 2)
        BY <2>1, <3>3, <3>4, <3>5 DEF k, v
      <4> QED
        BY <4>1 DEF k
    <3>7. Cardinality(S) <= 3
      BY <1>10, <3>2 DEF FewSigners
    <3> HIDE DEF S
    <3> QED
      BY <2>1, <2>5, <3>1, <3>6, <3>7
  <2> QED
    BY <2>6, <2>7
<1>11. Sound(a)
  BY <1>1, <1>3, <1>7, <1>9, <1>10 DEF Sound
<1> QED
  BY <1>3, <1>11 DEF a
=============================================================================
