----------------------------- MODULE MCFreezer -----------------------------
(***************************************************************************)
(* Instances of module Freezer for TLC.                                    *)
(***************************************************************************)
EXTENDS Freezer

\* A main chain of four blocks, and two forks: one that is frozen out together
\* with its child, and one that can overtake the main chain.
MCBlocks == {<<>>, <<1>>, <<1, 1>>, <<1, 1, 1>>, <<1, 1, 1, 1>>,
             <<2>>, <<2, 1>>, <<1, 1, 2>>, <<1, 1, 2, 1>>}
=============================================================================
