------------------------- MODULE CliqueVotingProofs -------------------------
(***************************************************************************)
(* Proofs about CliqueVoting, for any set of addresses, any genesis, any   *)
(* epoch length and chains of any length.  The inductive step strings the  *)
(* lemmas of CliqueSnapshotProofs together in the order of the code.       *)
(***************************************************************************)
EXTENDS CliqueVoting, CliqueSnapshotProofs

\* The inductive invariant: the invariants of CliqueVoting are inductive together.
\* The tally needs the votes to be distinct, and the window of the recent list is
\* independent of the votes.
IInv == TypeOK /\ TallyMatchesVotes /\ OneVotePerSigner /\ RecentsAreWindow

\* The genesis snapshot satisfies the invariant.
LEMMA InitIInv == Init => IInv
<1> SUFFICES ASSUME Init PROVE IInv
  OBVIOUS
<1>1. snap = [number |-> 0, signers |-> GenesisSigners, recents |-> {}, votes |-> {},
              tally |-> [a \in Addr |-> NoTally]]
  BY DEF Init, Genesis, newSnapshot
<1>2. NoTally \in Tally /\ NoTally.votes = 0
  BY TallyType, Zenon DEF NoTally
<1>3. snap \in Snapshot
  BY <1>1, <1>2, CliqueAssumption DEF Snapshot, Tally
<1>4. IsFiniteSet(snap.signers) /\ IsFiniteSet(snap.votes)
  BY <1>1, CliqueAssumption, FS_EmptySet
<1>5. headers \in [1 .. snap.number -> Header]
  BY <1>1 DEF Init
<1>6. \A a \in Addr : VotesOn(snap, a) = {} /\ snap.tally[a].votes = 0
  BY <1>1, <1>2 DEF VotesOn
<1>7. TallyMatchesVotes
  BY <1>6, FS_EmptySet DEF TallyMatchesVotes, TalliedOn
<1>8. OneVotePerSigner /\ RecentsAreWindow
  BY <1>1 DEF OneVotePerSigner, DistinctVotes, RecentsAreWindow
<1> QED
  BY <1>3, <1>4, <1>5, <1>7, <1>8 DEF IInv, TypeOK, Typed

\* What the invariant says of the snapshot alone.
LEMMA IInvGood == IInv => Good(snap, snap.number) /\ snap.number \in Nat
  BY DEF IInv, TypeOK, Typed, Snapshot, TallyMatchesVotes, OneVotePerSigner, Good

\* One accepted header, taken apart into counting and concluding its vote.
LEMMA ApplyShape ==
  ASSUME IInv, NEW h \in Header, Apply(h)
  PROVE  /\ h.signer \in snap.signers /\ h.coinbase \in Addr /\ Addressed(h)
         /\ Good(Counted(snap, h), snap.number + 1)
         /\ snap'.number = snap.number + 1
         /\ LET t == ConcludeVote(Counted(snap, h), h.coinbase, snap.number + 1) IN
            /\ Good(t, snap.number + 1)
            /\ Good(snap', snap.number + 1)
            /\ snap'.signers = t.signers /\ snap'.recents = t.recents
            /\ snap'.votes = t.votes
         /\ headers' \in [1 .. snap.number + 1 -> Header]
         /\ headers'[snap.number + 1] = h
         /\ \A i \in 1 .. snap.number : headers'[i] = headers[i]
<1> DEFINE n == snap.number + 1
<1>1. Good(snap, snap.number) /\ snap.number \in Nat /\ n \in Nat
  BY IInvGood
<1>2. h.signer \in snap.signers /\ Addressed(h)
  <2>1. h.signer \in Shifted(snap).signers
    BY DEF Apply, Accepts, Authorized
  <2>2. Shifted(snap).signers = snap.signers
    BY <1>1, ShiftedShape DEF Good
  <2> QED
    BY <2>1, <2>2 DEF Header, Addressed
<1>3. snap' = apply(snap, h)
  BY DEF Apply
<1>4. headers' = [i \in 1 .. n |-> IF i = n THEN h ELSE headers[i]]
  BY DEF Apply
<1>5. headers \in [1 .. snap.number -> Header]
  BY DEF IInv, TypeOK
<1>6. headers' \in [1 .. n -> Header] /\ headers'[n] = h
      /\ \A i \in 1 .. snap.number : headers'[i] = headers[i]
  BY <1>1, <1>4, <1>5
<1> QED
  BY <1>1, <1>2, <1>3, <1>6, ApplyGood DEF Addressed

\* The recent list stays the tail of the chain when a header is applied.
LEMMA WindowStep ==
  ASSUME IInv, NEW h \in Header, Apply(h)
  PROVE  RecentsAreWindow'
<1> DEFINE n == snap.number + 1
           c == Counted(snap, h)
           t == ConcludeVote(c, h.coinbase, n)
           L == Limit(snap)
           M == Limit(t)
<1>1. Good(snap, snap.number) /\ snap.number \in Nat /\ n \in Nat
  BY IInvGood
<1>2. /\ h.signer \in snap.signers /\ h.coinbase \in Addr /\ Addressed(h)
      /\ Good(c, n) /\ snap'.number = n
      /\ snap'.signers = t.signers /\ snap'.recents = t.recents
      /\ headers'[n] = h
      /\ \A i \in 1 .. snap.number : headers'[i] = headers[i]
  BY ApplyShape
<1>3. /\ c.signers = snap.signers
      /\ c.recents = {r \in snap.recents : r.number + L # n}
                       \cup {[number |-> n, signer |-> h.signer]}
  BY <1>1, <1>2, CountedShape
<1>4. Typed(c)
  BY <1>2 DEF Good
<1>5. /\ M \in Nat
      /\ \/ t.recents = c.recents /\ M \in {Limit(c), Limit(c) + 1}
         \/ /\ t.recents = {r \in c.recents : r.number + M # n}
            /\ Limit(c) \in {M, M + 1}
  BY <1>1, <1>2, <1>4, ConcludeRecents
<1>6. Limit(c) = L /\ Limit(snap') = M
  BY <1>2, <1>3 DEF Limit
<1>7. L \in Nat /\ L >= 1
  BY <1>1, LimitType DEF Good, Typed
<1> DEFINE SR(i) == [number |-> i, signer |-> headers'[i].signer]
<1>8. RecentsAreWindow
  BY DEF IInv
<1>9. /\ \A i \in 1 .. n : i + L > n => SR(i) \in c.recents
      /\ \A r \in c.recents : r.number \in 1 .. n /\ r = SR(r.number) /\ r.number + L > n
  <2>1. ASSUME NEW i \in 1 .. n, i + L > n PROVE SR(i) \in c.recents
    BY <1>1, <1>2, <1>3, <1>7, <1>8, <2>1 DEF RecentsAreWindow, SignedRecently
  <2>2. ASSUME NEW r \in c.recents
        PROVE  r.number \in 1 .. n /\ r = SR(r.number) /\ r.number + L > n
    <3>1. CASE r = [number |-> n, signer |-> h.signer]
      BY <1>1, <1>2, <1>7, <3>1
    <3>2. CASE r \in snap.recents /\ r.number + L # n
      <4>1. r.number \in 1 .. snap.number /\ r.number + L > snap.number
            /\ r = [number |-> r.number, signer |-> headers[r.number].signer]
        BY <1>8, <3>2 DEF RecentsAreWindow, SignedRecently
      <4> QED
        BY <1>1, <1>2, <1>7, <3>2, <4>1
    <3> QED
      BY <1>3, <2>2, <3>1, <3>2
  <2> QED
    BY <2>1, <2>2
<1> HIDE DEF c, t, L, M
<1>10. /\ \A i \in 1 .. n : i + M > n + 1 => SR(i) \in t.recents
       /\ \A r \in t.recents : r.number \in 1 .. n /\ r = SR(r.number) /\ r.number + M > n
  <2>1. CASE t.recents = c.recents /\ M \in {L, L + 1}
    BY <1>1, <1>5, <1>7, <1>9, <2>1
  <2>2. CASE /\ t.recents = {r \in c.recents : r.number + M # n}
             /\ L \in {M, M + 1}
    BY <1>1, <1>5, <1>7, <1>9, <2>2
  <2> QED
    BY <1>5, <1>6, <2>1, <2>2
<1> QED
  BY <1>2, <1>6, <1>10 DEF RecentsAreWindow, SignedRecently

\* Every step of the chain keeps the invariant.
LEMMA NextIInv == IInv /\ [Next]_vars => IInv'
<1> SUFFICES ASSUME IInv, [Next]_vars PROVE IInv'
  OBVIOUS
<1>1. ASSUME NEW h \in Header, Apply(h) PROVE IInv'
  <2>1. /\ Good(snap', snap.number + 1) /\ snap'.number = snap.number + 1
        /\ headers' \in [1 .. snap.number + 1 -> Header]
    BY <1>1, ApplyShape
  <2>2. RecentsAreWindow'
    BY <1>1, WindowStep
  <2> QED
    BY <2>1, <2>2 DEF IInv, TypeOK, TallyMatchesVotes, OneVotePerSigner, Good
<1>2. CASE UNCHANGED vars
  BY <1>2 DEF vars, IInv, TypeOK, TallyMatchesVotes, OneVotePerSigner,
              RecentsAreWindow, SignedRecently
<1> QED
  BY <1>1, <1>2 DEF Next

\* The invariant holds along every chain of accepted headers.
THEOREM Inductive == Spec => []IInv
  BY InitIInv, NextIInv, PTL DEF Spec

\* Snapshots keep their types however long headers are applied.
THEOREM TypeCorrect == Spec => []TypeOK
<1>1. IInv => TypeOK
  BY DEF IInv
<1> QED
  BY <1>1, Inductive, PTL

\* The tally cached by cast and uncast is always the count of the listed votes.
THEOREM TallyCorrect == Spec => []TallyMatchesVotes
<1>1. IInv => TallyMatchesVotes
  BY DEF IInv
<1> QED
  BY <1>1, Inductive, PTL

\* Signers have at most one pending vote per account, and only signers have any.
THEOREM VotesCorrect == Spec => []OneVotePerSigner
<1>1. IInv => OneVotePerSigner
  BY DEF IInv
<1> QED
  BY <1>1, Inductive, PTL

\* The recent list is exactly the barring tail of the chain.
THEOREM WindowCorrect == Spec => []RecentsAreWindow
<1>1. IInv => RecentsAreWindow
  BY DEF IInv
<1> QED
  BY <1>1, Inductive, PTL

\* No accepted header is signed by one of the last Limit-1 signers.
THEOREM SpamProtected == Spec => SpamProtection
<1> DEFINE A == \A i \in 1 .. snap.number :
                  i + Limit(snap) > snap.number + 1 =>
                    headers[i].signer # headers'[snap.number + 1].signer
<1>1. IInv /\ [Next]_vars => [A]_vars
  <2> SUFFICES ASSUME IInv, NEW h \in Header, Apply(h) PROVE A
    BY DEF Next
  <2>1. headers'[snap.number + 1] = h
    BY ApplyShape
  <2>2. Good(snap, snap.number) /\ snap.number \in Nat /\ Limit(snap) \in Nat
    BY IInvGood, LimitType DEF Good, Typed
  <2>3. Shifted(snap).recents = {r \in snap.recents : r.number + Limit(snap) # snap.number + 1}
    BY <2>2, ShiftedShape DEF Good
  <2>4. \A r \in Shifted(snap).recents : r.signer # h.signer
    BY DEF Apply, Accepts, Authorized
  <2>5. ASSUME NEW i \in 1 .. snap.number, i + Limit(snap) > snap.number + 1
        PROVE  headers[i].signer # h.signer
    <3>1. SignedRecently(i) \in snap.recents
      BY <2>5 DEF IInv, RecentsAreWindow
    <3>2. SignedRecently(i).number = i /\ SignedRecently(i).signer = headers[i].signer
      BY DEF SignedRecently
    <3>3. SignedRecently(i) \in Shifted(snap).recents
      BY <2>2, <2>3, <2>5, <3>1, <3>2
    <3> QED
      BY <2>4, <3>2, <3>3
  <2> QED
    BY <2>1, <2>5
<1>2. Spec => [][Next]_vars
  BY DEF Spec
<1> QED
  BY <1>1, <1>2, Inductive, PTL DEF SpamProtection

\* The recent list never bars every signer from the next block: it is shorter
\* than half of the signers, rounded up.
THEOREM SomeSignerFree == Spec => []SomeSignerMaySign
<1>1. IInv => SomeSignerMaySign
  <2> SUFFICES ASSUME IInv, snap.signers # {}
               PROVE  \E s \in snap.signers : Authorized(Shifted(snap), s)
    BY DEF SomeSignerMaySign
  <2> DEFINE n == snap.number + 1
             N == Cardinality(snap.signers)
             L == Limit(snap)
             I == n - L + 1 .. n - 1
             R == Shifted(snap).recents
             T == {r.signer : r \in R}
  <2>1. /\ Good(snap, snap.number) /\ snap.number \in Nat /\ n \in Nat
        /\ IsFiniteSet(snap.signers)
    BY IInvGood DEF Good, Typed
  <2>2. N \in Nat /\ N # 0 /\ L \in Nat /\ L >= 1 /\ L = N \div 2 + 1
    BY <2>1, LimitType, FS_EmptySet DEF Limit
  <2>3. /\ R = {r \in snap.recents : r.number + L # n}
        /\ Shifted(snap).signers = snap.signers
    BY <2>1, ShiftedShape DEF Good
  <2> HIDE DEF R, L
  <2>4. \A r \in R : r.number \in I
    <3>1. \A r \in snap.recents : r.number \in 1 .. snap.number /\ r.number + L > snap.number
      BY DEF IInv, RecentsAreWindow, L
    <3> QED
      BY <2>1, <2>2, <2>3, <3>1
  <2>5. \A r \in R, q \in R : r.number = q.number => r = q
    BY <2>3 DEF IInv, RecentsAreWindow
  <2> DEFINE J == {r.number : r \in R}
             f == [i \in J |-> (CHOOSE r \in R : r.number = i).signer]
  <2>6. IsFiniteSet(I) /\ Cardinality(I) = L - 1
    <3>1. /\ n - L + 1 \in Int /\ n - 1 \in Int
          /\ (n - 1) - (n - L + 1) + 1 = L - 1
          /\ n - L + 1 > n - 1 => L - 1 = 0
      BY <2>1, <2>2
    <3> DEFINE lo == n - L + 1
               hi == n - 1
    <3> HIDE DEF lo, hi
    <3>2. /\ IsFiniteSet(lo .. hi)
          /\ Cardinality(lo .. hi) = IF lo > hi THEN 0 ELSE hi - lo + 1
      BY <3>1, FS_Interval DEF lo, hi
    <3> QED
      BY <3>1, <3>2 DEF lo, hi
  <2>7. J \in SUBSET I
    BY <2>4
  <2>8. IsFiniteSet(J) /\ Cardinality(J) <= L - 1 /\ Cardinality(J) \in Nat
    BY <2>6, <2>7, FS_Subset, FS_CardinalityType, Zenon
  <2>9. \A r \in R : f[r.number] = r.signer
    BY <2>5
  <2>10. f \in Surjection(J, T)
    <3>1. f \in [J -> T]
      BY <2>9, Zenon
    <3>2. ASSUME NEW x \in T PROVE \E i \in J : f[i] = x
      <4>1. PICK r \in R : r.signer = x
        OBVIOUS
      <4>2. r.number \in J /\ f[r.number] = x
        BY <2>9, <4>1
      <4> QED
        BY <4>2, Zenon
    <3> HIDE DEF f, J, T
    <3> QED
      BY <3>1, <3>2 DEF Surjection
  <2> HIDE DEF f, I, J, N, T
  <2>11. IsFiniteSet(T) /\ Cardinality(T) <= Cardinality(J)
    BY <2>8, <2>10, FS_Surjection
  <2>12. Cardinality(T) \in Nat /\ Cardinality(T) < N
    BY <2>2, <2>8, <2>11, FS_CardinalityType
  <2>13. ~ (snap.signers \subseteq T)
    BY <2>2, <2>11, <2>12, FS_Subset DEF N
  <2>14. PICK s \in snap.signers : s \notin T
    BY <2>13
  <2> QED
    BY <2>3, <2>14 DEF Authorized, R, T
<1> QED
  BY <1>1, Inductive, PTL

\* A checkpoint keeps the signers its header lists, and only a vote about the zero
\* address, cast by the checkpoint itself, can be pending after it.
THEOREM CheckpointsStable == Spec => CheckpointKeepsSigners
<1> DEFINE A == snap'.number % Epoch = 0 =>
                  /\ snap'.signers = snap.signers
                  /\ \A v \in snap'.votes : v.address = ZeroAddress
<1>1. IInv /\ [Next]_vars => [A]_vars
  <2> SUFFICES ASSUME IInv, NEW h \in Header, Apply(h), snap'.number % Epoch = 0
               PROVE  /\ snap'.signers = snap.signers
                      /\ \A v \in snap'.votes : v.address = ZeroAddress
    BY DEF Next
  <2> DEFINE n == snap.number + 1
             c == Counted(snap, h)
             t == ConcludeVote(c, ZeroAddress, n)
  <2>1. Good(snap, snap.number) /\ snap.number \in Nat /\ n \in Nat
    BY IInvGood
  <2>2. /\ h.signer \in snap.signers /\ h.coinbase \in Addr /\ Addressed(h)
        /\ Good(c, n) /\ snap'.number = n
    BY ApplyShape
  <2>3. h.coinbase = ZeroAddress /\ h.nonce = "drop" /\ h.signer # ZeroAddress
    BY <2>2 DEF Apply, WellFormed
  <2>4. snap'.signers = t.signers /\ snap'.votes = t.votes
    BY <2>3, ApplyShape
  <2>5. /\ c.signers = snap.signers
        /\ \A v \in c.votes : VoteOf(v, h)
    BY <2>1, <2>2, CountedShape
  <2> HIDE DEF c
  <2>6. /\ t.votes \subseteq c.votes
        /\ \/ t.signers = c.signers
           \/ Passed(c, ZeroAddress)
    BY <2>1, <2>2, <2>3, ConcludeSigners DEF Good
  <2>7. ASSUME Passed(c, ZeroAddress) PROVE FALSE
    <3> DEFINE S == VotesOn(c, ZeroAddress)
    <3>1. /\ ZeroAddress \in Addr /\ TalliedOn(c, ZeroAddress)
          /\ IsFiniteSet(c.signers) /\ IsFiniteSet(c.votes) /\ DistinctVotes(c)
      BY <2>2, CliqueAssumption DEF Good, Typed
    <3>2. IsFiniteSet(S) /\ \A v, w \in S : v = w
      BY <2>5, <3>1, FS_Subset DEF VotesOn, VoteOf, DistinctVotes
    <3>3. Cardinality(S) > Cardinality(c.signers) \div 2
      BY <2>7, <3>1 DEF Passed, TalliedOn
    <3>4. Cardinality(c.signers) \in Nat /\ Cardinality(S) \in Nat
      BY <3>1, <3>2, FS_CardinalityType
    <3>5. S # {}
      BY <3>3, <3>4, FS_EmptySet
    <3>6. PICK v \in S : S = {v}
      BY <3>2, <3>5
    <3>7. Cardinality(S) = 1
      BY <3>6, FS_Singleton, Zenon
    <3>8. ZeroAddress \in c.signers
      <4>1. v.authorize = FALSE
        BY <2>3, <2>5, <3>6, Zenon DEF VotesOn, VoteOf
      <4>2. validVote(c, ZeroAddress, v.authorize)
        BY <3>1, <3>6 DEF TalliedOn
      <4> DEFINE member == ZeroAddress \in c.signers
      <4>3. member \in BOOLEAN /\ member # v.authorize
        BY <4>2 DEF validVote
      <4> HIDE DEF member
      <4>4. member
        BY <4>1, <4>3, Zenon
      <4> QED
        BY <4>4 DEF member
    <3>9. Cardinality({h.signer, ZeroAddress}) = 2
      <4>1. Cardinality({h.signer}) = 1 /\ IsFiniteSet({h.signer})
        BY FS_Singleton, Zenon
      <4> DEFINE S1 == {h.signer}
      <4>a. ZeroAddress \notin S1
        BY <2>3
      <4> HIDE DEF S1
      <4>b. Cardinality(S1) = 1 /\ IsFiniteSet(S1)
        BY <4>1 DEF S1
      <4>c. Cardinality(S1 \cup {ZeroAddress}) = Cardinality(S1) + 1
        BY <4>a, <4>b, FS_AddElement, Zenon
      <4>2. Cardinality({h.signer} \cup {ZeroAddress}) = 2
        BY <4>b, <4>c DEF S1
      <4>3. {h.signer} \cup {ZeroAddress} = {h.signer, ZeroAddress}
        OBVIOUS
      <4> QED
        BY <4>2, <4>3
    <3>10. {h.signer, ZeroAddress} \in SUBSET c.signers
      BY <2>2, <2>5, <3>8
    <3>11. 2 <= Cardinality(c.signers)
      BY <3>1, <3>9, <3>10, FS_Subset
    <3> QED
      BY <3>3, <3>4, <3>7, <3>11
  <2>8. \A v \in t.votes : v.address = ZeroAddress
    BY <2>3, <2>5, <2>6 DEF VoteOf
  <2> QED
    BY <2>4, <2>5, <2>6, <2>7, <2>8
<1>2. Spec => [][Next]_vars
  BY DEF Spec
<1> QED
  BY <1>1, <1>2, Inductive, PTL DEF CheckpointKeepsSigners

\* The signers behind the votes on one account are as many as the votes.
LEMMA VotersCardinality ==
  ASSUME NEW s, Typed(s), DistinctVotes(s), NEW a
  PROVE  Cardinality({v.signer : v \in VotesOn(s, a)}) = Cardinality(VotesOn(s, a))
<1> DEFINE S == VotesOn(s, a)
           T == {v.signer : v \in S}
           f == [v \in S |-> v.signer]
<1>1. IsFiniteSet(S)
  BY FS_Subset DEF VotesOn, Typed
<1>2. \A v, w \in S : v.signer = w.signer => v = w
  BY DEF VotesOn, DistinctVotes
<1> HIDE DEF S
<1>3. f \in [S -> T] /\ \A v \in S : f[v] = v.signer
  OBVIOUS
<1>4. ASSUME NEW x \in T PROVE \E v \in S : f[v] = x
  <2>1. PICK v \in S : v.signer = x
    OBVIOUS
  <2> QED
    BY <1>3, <2>1
<1>5. \A v, w \in S : f[v] = f[w] => v = w
  BY <1>2, <1>3
<1> HIDE DEF f, T
<1>6. f \in Bijection(S, T)
  <2>1. f \in Injection(S, T)
    BY <1>3, <1>5 DEF Injection, IsInjective
  <2>2. f \in Surjection(S, T)
    BY <1>3, <1>4 DEF Surjection
  <2> QED
    BY <2>1, <2>2 DEF Bijection
<1>7. ExistsBijection(S, T)
  BY <1>6 DEF ExistsBijection
<1> QED
  BY <1>1, <1>7, FS_Bijection DEF S, T

\* Only a strict majority of distinct signers changes the set of signers.
THEOREM MajorityRules == Spec => MajorityDecides
<1> DEFINE ayes(h, a) == {v.signer : v \in {w \in Counted(snap, h).votes :
                              /\ w.address = a
                              /\ w.authorize = (a \in snap'.signers)}}
           A == LET h == headers'[snap.number + 1]
                IN \A a \in Addr : (a \in snap.signers) # (a \in snap'.signers) =>
                     /\ ayes(h, a) \subseteq snap.signers
                     /\ 2 * Cardinality(ayes(h, a)) > Cardinality(snap.signers)
<1>1. IInv /\ [Next]_vars => [A]_vars
  <2> SUFFICES ASSUME IInv, NEW h \in Header, Apply(h), NEW a \in Addr,
                      (a \in snap.signers) # (a \in snap'.signers)
               PROVE  /\ ayes(h, a) \subseteq snap.signers
                      /\ 2 * Cardinality(ayes(h, a)) > Cardinality(snap.signers)
    BY ApplyShape, Zenon DEF Next
  <2> HIDE DEF A
  <2> DEFINE n == snap.number + 1
             c == Counted(snap, h)
             t == ConcludeVote(c, h.coinbase, n)
             S == VotesOn(c, a)
  <2>1. Good(snap, snap.number) /\ snap.number \in Nat /\ n \in Nat
    BY IInvGood
  <2>2. /\ h.signer \in snap.signers /\ h.coinbase \in Addr /\ Addressed(h)
        /\ Good(c, n) /\ snap'.signers = t.signers
    BY ApplyShape
  <2>3. c.signers = snap.signers
    BY <2>1, <2>2, CountedShape
  <2>4. \/ t.signers = c.signers
        \/ /\ Passed(c, h.coinbase) /\ c.tally[h.coinbase].authorize
           /\ t.signers = c.signers \cup {h.coinbase}
        \/ /\ Passed(c, h.coinbase) /\ ~ c.tally[h.coinbase].authorize
           /\ t.signers = c.signers \ {h.coinbase}
    <3> HIDE DEF c, n, S
    <3> QED
      BY <2>1, <2>2, ConcludeSigners, SMTT(60) DEF Good
  <2> HIDE DEF t
  <2>5. /\ a = h.coinbase /\ Passed(c, a)
        /\ (a \in snap'.signers) <=> c.tally[a].authorize
    BY <2>2, <2>3, <2>4
  <2>6. Typed(c) /\ DistinctVotes(c) /\ TalliedOn(c, a)
        /\ \A v \in c.votes : v.signer \in c.signers
    BY <2>2 DEF Good
  <2>7. c.tally[a].authorize \in BOOLEAN /\ \A v \in S : v.authorize = c.tally[a].authorize
    BY <2>6 DEF Typed, Snapshot, TalliedOn
  <2>8. (a \in snap'.signers) = c.tally[a].authorize
    <3> DEFINE x == c.tally[a].authorize
               y == a \in snap'.signers
    <3>1. x \in BOOLEAN /\ y \in BOOLEAN /\ (y <=> x)
      BY <2>5, <2>7
    <3> HIDE DEF x, y
    <3>2. y = x
      BY <3>1
    <3> QED
      BY <3>2 DEF x, y
  <2>9. {w \in c.votes : w.address = a /\ w.authorize = (a \in snap'.signers)} = S
    BY <2>7, <2>8 DEF VotesOn
  <2>10. ayes(h, a) = {v.signer : v \in S}
    BY <2>9
  <2>11. ayes(h, a) \subseteq snap.signers
    BY <2>3, <2>6, <2>10 DEF VotesOn
  <2>12. Cardinality(ayes(h, a)) = Cardinality(S)
    BY <2>6, <2>10, VotersCardinality
  <2>13. Cardinality(S) > Cardinality(snap.signers) \div 2
    BY <2>3, <2>5, <2>6 DEF Passed, TalliedOn
  <2>14. Cardinality(snap.signers) \in Nat /\ Cardinality(S) \in Nat
    BY <2>1, <2>6, FS_CardinalityType, FS_Subset DEF Good, Typed, VotesOn
  <2>15. 2 * Cardinality(S) > Cardinality(snap.signers)
    BY <2>13, <2>14
  <2> QED
    BY <2>11, <2>12, <2>15
<1>2. Spec => [][Next]_vars
  BY DEF Spec
<1> QED
  BY <1>1, <1>2, Inductive, PTL DEF MajorityDecides
=============================================================================
