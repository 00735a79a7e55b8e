----------------------------- MODULE MCGameLog ------------------------------
(***************************************************************************)
(* GameLog and its refinement for TLC: workers are interchangeable.        *)
(***************************************************************************)
EXTENDS GameLogRefinement, TLC

Symmetry == Permutations(Workers)
=============================================================================
