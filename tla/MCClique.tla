------------------------------ MODULE MCClique ------------------------------
(***************************************************************************)
(* Model checking of Clique.  Addresses are 1, 2, ... and 0 is the zero    *)
(* address; they are ordered, so there is no symmetry to use.              *)
(***************************************************************************)
EXTENDS Clique

NoVote == [coinbase |-> 0, nonce |-> "drop"]
MCVoteless == {NoVote}
MCBallots == {NoVote} \cup [coinbase : {2}, nonce : {"auth", "drop"}]
MCLists == {{1, 2}}
MCMoreLists == {{1, 2}, {1, 2, 3}}
=============================================================================
