-------------------------- MODULE MCCliqueVoting ----------------------------
(***************************************************************************)
(* Model checking of CliqueVoting: a few signers and one outsider vote     *)
(* in every possible way.  Addresses are interchangeable, except that the  *)
(* genesis tells its signers from the others.                              *)
(***************************************************************************)
EXTENDS CliqueVoting, TLC

Symmetry ==
  Permutations(GenesisSigners)
    \cup Permutations(Addr \ (GenesisSigners \cup {ZeroAddress}))
=============================================================================
