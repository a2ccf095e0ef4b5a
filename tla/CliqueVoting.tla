---------------------------- MODULE CliqueVoting ----------------------------
(***************************************************************************)
(* Voting along one clique chain: the snapshot at its head while headers   *)
(* that pass verifyHeader are applied one after the other, and what the    *)
(* voting protocol promises about it.                                      *)
(***************************************************************************)
EXTENDS CliqueSnapshot

CONSTANT MaxNumber  \* bound: the longest chain explored

ASSUME MaxNumberAssumption == MaxNumber \in Nat

(* The chain grows by one accepted header at a time: applying a batch is the
   same as applying its headers in order.  A rejected header changes nothing. *)
VARIABLES
  snap,     \* the snapshot at the head of the chain
  headers   \* the headers of the chain, by block number

vars == <<snap, headers>>

Init ==
  /\ snap = Genesis
  /\ headers = [i \in {} |-> 0]

Apply(h) ==
  /\ snap.number < MaxNumber
  /\ h.signer # ZeroAddress           \* no key recovers to the zero address
  /\ WellFormed(snap.number + 1, h)
  /\ Accepts(snap, h)
  /\ snap' = apply(snap, h)
  /\ headers' = [i \in 1 .. snap.number + 1 |->
                   IF i = snap.number + 1 THEN h ELSE headers[i]]

Next == \E h \in Header : Apply(h)

Spec == Init /\ [][Next]_vars

-----------------------------------------------------------------------------
\* The snapshot has the fields newSnapshot gives it, with finitely many signers and
\* votes, and the chain has one header per block it counts.
TypeOK == Typed(snap) /\ headers \in [1 .. snap.number -> Header]

\* The cached tally is the vote list: cast and uncast never drift from the
\* slice apply edits beside them, and every pending vote still makes sense (it
\* would change its account's status), whatever was authorized or dropped since.
TallyMatchesVotes == \A a \in Addr : TalliedOn(snap, a)

\* Pending votes belong to current signers, each has at most one per account and
\* each block cast at most one: a dropped signer's votes went with it.
OneVotePerSigner ==
  /\ \A v \in snap.votes : v.signer \in snap.signers /\ v.block <= snap.number
  /\ DistinctVotes(snap)

SignedRecently(i) == [number |-> i, signer |-> headers[i].signer]

\* The recent list is the tail of the chain it must be, although the limit
\* changes with the signers: it holds every block that still bars its signer
\* from the next block, and nothing that has left the window.
RecentsAreWindow ==
  /\ \A i \in 1 .. snap.number :
       i + Limit(snap) > snap.number + 1 => SignedRecently(i) \in snap.recents
  /\ \A r \in snap.recents :
       /\ r.number \in 1 .. snap.number
       /\ r = SignedRecently(r.number)
       /\ r.number + Limit(snap) > snap.number

\* The recent list never bars everyone: while there are signers, one of them may
\* sign the next block.
SomeSignerMaySign ==
  snap.signers # {} => \E s \in snap.signers : Authorized(Shifted(snap), s)

\* A signer never has two of any Limit consecutive blocks: its next block is
\* accepted only when Limit-1 others have passed (errRecentlySigned).
SpamProtection ==
  [][\A i \in 1 .. snap.number :
       i + Limit(snap) > snap.number + 1 =>
         headers[i].signer # headers'[snap.number + 1].signer]_vars

\* An account is authorized or dropped only when more than half of the signers
\* of the parent, each counted once, have a pending vote for just that.
MajorityDecides ==
  [][LET h == headers'[snap.number + 1]
         ayes(a) == {v.signer : v \in {w \in Counted(snap, h).votes :
                          /\ w.address = a
                          /\ w.authorize = (a \in snap'.signers)}}
     IN \A a \in Addr : (a \in snap.signers) # (a \in snap'.signers) =>
          /\ ayes(a) \subseteq snap.signers
          /\ 2 * Cardinality(ayes(a)) > Cardinality(snap.signers)]_vars

\* A checkpoint block leaves the signers as its header lists them (the signers of
\* its parent), and no vote about another account than the zero address survives
\* it.  A node that trusts the checkpoint relies on this.
CheckpointKeepsSigners ==
  [][snap'.number % Epoch = 0 =>
       /\ snap'.signers = snap.signers
       /\ \A v \in snap'.votes : v.address = ZeroAddress]_vars
=============================================================================
