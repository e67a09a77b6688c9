-------------------------- MODULE RolloutRegistry --------------------------
(***************************************************************************)
(* How Rollout refines the shipping of ServiceRegistry: one operator's     *)
(* deploy of one service to its directory, from the first asset to where   *)
(* the registry is about to be saved.                                      *)
(***************************************************************************)
EXTENDS Rollout

Operator == "operator"

(* What a version brings besides its config.json, and what the tool itself *)
(* never looks at.                                                         *)
Shipped == Assets \ {"config", "extra"}

(* Where the deploy is in the eyes of the registry.                        *)
Phase == IF pc = "idle" THEN IF result = "ok" THEN "save" ELSE "idle"
         ELSE IF pc = "config" THEN "put"
         ELSE IF pc = "extra" THEN "rest"
         ELSE "ship"

Outcome == CASE pc = "idle" /\ result = "error" -> "ship-error"
             [] pc = "idle" /\ result = "killed" -> "killed"
             [] OTHER -> "none"

Deployment == [kind |-> "deploy", name |-> "service", vol |-> "volume",
               version |-> [assets |-> [a \in Shipped |-> local[a]],
                            config |-> local["config"]],
               show |-> FALSE, dryRun |-> FALSE]

Registered == [s \in {"service"} |-> "directory"]

R == INSTANCE ServiceRegistry
     WITH Procs <- {Operator}, Services <- {"service"}, Paths <- {"directory"},
          DefaultPath <- Registered, NoPath <- "nowhere",
          Contents <- [Shipped -> Contents], NoAssets <- [a \in Shipped |-> None],
          Configs <- Versions, NoConfig <- None, Cut <- Cut,
          Versions <- [assets : [Shipped -> Versions], config : Versions],
          Commands <- {}, HandRegistries <- {Registered},
          Volumes <- {"volume"}, Matches <- {<<"volume", "volume">>},
          bindir <- TRUE, binary <- "whole", etc <- TRUE,
          reg <- [state |-> "ok", data |-> Registered],
          svc <- [x \in {"directory"} |-> remote["config"]],
          live <- [x \in {"directory"} |-> [a \in Shipped |-> remote[a]]],
          volumes <- {"volume"},
          pc <- [p \in {Operator} |-> Phase],
          cmd <- [p \in {Operator} |-> Deployment],
          mem <- [p \in {Operator} |->
                    IF Phase = "idle" THEN [s \in {"service"} |-> "nowhere"]
                    ELSE Registered],
          path <- [p \in {Operator} |->
                    IF Phase = "idle" THEN "nowhere" ELSE "directory"],
          result <- [p \in {Operator} |-> Outcome]

(* Every step of a deploy from one asset or command to the next, however   *)
(* it fails or dies, is one that ServiceRegistry knows of (deploy.go 177): *)
(* the assets are only there as a whole when config.json goes to the       *)
(* server, and config.json is there before the registry is saved.          *)
DeploysShip ==
    [][pc # "idle" =>
         \/ UNCHANGED R!vars
         \/ R!Shipping(Operator) \/ R!Crash(Operator)]_vars
=============================================================================
