--------------------------- MODULE SecretsOverlap ---------------------------
(***************************************************************************)
(* Secrets with a history variable: whose secret has another operator      *)
(* changed in the volume.  The history reads the steps and restricts none, *)
(* so every behaviour of Secrets is one here.                              *)
(***************************************************************************)
EXTENDS Secrets

VARIABLE overtaken  \* operators whose secret another one has changed since
                    \* their command began

Begins(p) == pc[p] = "idle" /\ pc'[p] # "idle"

ChangedByAnother(p) == pc'[p] = pc[p] /\ stored'[cmd[p].name] # stored[cmd[p].name]

Note == overtaken' = {p \in Procs : ~Begins(p) /\ (p \in overtaken \/ ChangedByAnother(p))}

OverlapInit == Init /\ overtaken = {}

OverlapNext == Next /\ Note

OverlapSpec == OverlapInit /\ [][OverlapNext]_<<vars, overtaken>>
-----------------------------------------------------------------------------
(* After a successful "set" the name is listed and the volume holds the    *)
(* value; after a successful "remove" both are gone, also when an earlier  *)
(* removal died between the two, or the name was never listed - unless     *)
(* another operator has changed this very secret since the command began.  *)
(* The listing that "remove" decides on (secrets.go 289) and the look-up   *)
(* before the question (205) may be out of date in every other way.        *)
OkIsDone ==
    \A p \in Procs : pc[p] = "idle" /\ result[p] = "ok" /\ p \notin overtaken =>
        LET n == cmd[p].name IN
        /\ Does(p, "set") => /\ local[p].state = "ok" /\ n \in local[p].data
                             /\ stored[n] = Holding(cmd[p].value)
        /\ Does(p, "remove") => /\ local[p].state = "ok" /\ n \notin local[p].data
                                /\ n \notin Present
=============================================================================
