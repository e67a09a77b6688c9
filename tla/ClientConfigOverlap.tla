------------------------ MODULE ClientConfigOverlap ------------------------
(***************************************************************************)
(* ClientConfig with a history variable: on which servers' entries is the  *)
(* config that a command has loaded out of date.  The history reads the    *)
(* steps and restricts none, so every behaviour of ClientConfig is one     *)
(* here.                                                                   *)
(***************************************************************************)
EXTENDS ClientConfig

VARIABLE overtaken  \* overtaken[p]: the servers p's copy is out of date on

HoldsCopy(p) == pc[p] \notin {"idle", "load"}

Moved == {s \in Servers : file'.data.servers[s] # file.data.servers[s]}

Note == overtaken' = [p \in Procs |-> IF HoldsCopy(p) /\ HoldsCopy(p)'
                                      THEN overtaken[p] \cup Moved ELSE {}]

OverlapInit == Init /\ overtaken = [p \in Procs |-> {}]

OverlapNext == Next /\ Note

OverlapSpec == OverlapInit /\ [][OverlapNext]_<<vars, overtaken>>
-----------------------------------------------------------------------------
(* An entry changes only where a "set" or "delete" of that server writes   *)
(* it, or a command that had loaded the config before another one changed  *)
(* that entry (config.go 155) writes its stale copy: the whole config, or  *)
(* the empty one of a -force that found no file.  Commands that do not     *)
(* overlap never undo each other, and overlapping ones no more than what   *)
(* they overlapped with.                                                   *)
WritesUndoOverlapsOnly ==
    [][\A s \in Moved : \E p \in Procs :
         /\ pc[p] \in {"creating", "saving"} /\ pc'[p] # pc[p]
         /\ \/ pc[p] = "saving" /\ s = NamedServer(cmd[p])
            \/ s \in overtaken[p]]_<<vars, overtaken>>
=============================================================================
