----------------------------- MODULE MCSecrets -----------------------------
(* Instances of Secrets for TLC.                                            *)
EXTENDS SecretsOverlap, TLC

CONSTANTS p1, p2, n1, n2, v1, v2, vol, other

(* The second name, "other", contains the first - or does not.              *)
ExactMatches == {<<vol, vol>>, <<other, other>>}
PartMatches == ExactMatches \cup {<<vol, other>>}

AllCommands == Command

(* No definition tells one operator from another.                           *)
Operators == Permutations(Procs)

(* All commands on one secret; the lists may hold another.                  *)
OverlapCommands ==
    { [action |-> a, name |-> n1, value |-> v1] : a \in {"set", "remove", "show", "list"} }
    \cup { [action |-> "set", name |-> n1, value |-> v2] }
=============================================================================
