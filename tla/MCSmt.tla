------------------------------- MODULE MCSmt -------------------------------
(* An instance of Smt for TLC: one operator of secrets, one deployer.       *)
EXTENDS Smt, TLC

CONSTANTS n1, v1, s1, d1, vol, other, a1, none, c1

MCMatches == {<<vol, vol>>, <<other, other>>}

MCDefaultPath == s1 :> d1

MCVersions == {[assets |-> a1, config |-> c1]}

MCHandRegistries == {s1 :> d1}

MCCommands == [action : {"list", "set", "remove", "show"}, name : {n1}, value : {v1}]

(* Deploys of this project and of one with the other volume.                *)
MCServerCommands ==
    [kind : {"deploy"}, name : {s1}, vol : {vol, other}, version : MCVersions,
     show : {FALSE}, dryRun : BOOLEAN]
    \cup { [kind |-> "install", force |-> TRUE],
           [kind |-> "service", name |-> s1, action |-> "status"] }
=============================================================================
