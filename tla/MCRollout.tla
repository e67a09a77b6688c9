----------------------------- MODULE MCRollout -----------------------------
(* An instance of Rollout for TLC: two versions of every asset.             *)
EXTENDS RolloutRegistry, TLC

CONSTANTS v1, v2

(* Nothing tells the two versions apart.                                    *)
Symmetry == Permutations({v1, v2})
=============================================================================
