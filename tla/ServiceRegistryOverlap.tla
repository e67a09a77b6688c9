----------------------- MODULE ServiceRegistryOverlap -----------------------
(***************************************************************************)
(* ServiceRegistry with a history variable: which services have moved      *)
(* since an operator's deploy loaded the registry.  The history reads the  *)
(* steps and restricts none, so every behaviour of ServiceRegistry is one  *)
(* here.                                                                   *)
(***************************************************************************)
EXTENDS ServiceRegistry

VARIABLE overtaken  \* overtaken[p]: the services p's copy is out of date on

HoldsCopy(p) == pc[p] \in {"find", "ship", "put", "rest", "save", "saving"}

Moved == {s \in Services : reg'.data[s] # reg.data[s]}

Note == overtaken' = [p \in Procs |-> IF HoldsCopy(p) /\ HoldsCopy(p)'
                                      THEN overtaken[p] \cup Moved ELSE {}]

OverlapInit == Init /\ overtaken = [p \in Procs |-> {}]

OverlapNext == Next /\ Note

OverlapSpec == OverlapInit /\ [][OverlapNext]_<<vars, overtaken>>
-----------------------------------------------------------------------------
(* A registered path changes only where a deploy records it: one of that   *)
(* service, or one that had loaded the registry before another deploy      *)
(* changed that path (deploy.go 142) and now writes its stale copy (187).  *)
(* Deploys of different services that do not overlap never undo each       *)
(* other, and overlapping ones no more than what they overlapped with.     *)
SavesUndoOverlapsOnly ==
    [][\A s \in Moved : \E p \in Procs :
         /\ pc[p] = "saving" /\ pc'[p] = "idle"
         /\ s = cmd[p].name \/ s \in overtaken[p]]_<<vars, overtaken>>
=============================================================================
