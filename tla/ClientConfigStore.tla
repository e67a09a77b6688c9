------------------------- MODULE ClientConfigStore -------------------------
(***************************************************************************)
(* One operator at a time, smt.config implements ConfigStore: each command *)
(* changes one entry in one step, at its write, or loses the whole store.  *)
(***************************************************************************)
EXTENDS ClientConfig

Writing(l) == \E p \in Procs : pc[p] = l

(* A file that is empty because a write is under way is still what it was. *)
StoreStatus ==
    IF file.state = "ok" THEN "present"
    ELSE IF file.state = "absent" \/ Writing("creating") THEN "absent"
    ELSE IF Writing("saving") THEN "present"
    ELSE "lost"

Store == INSTANCE ConfigStore WITH status  <- StoreStatus,
                                   default <- file.data.default,
                                   servers <- file.data.servers

(* Every step of a single operator's commands is a step of the store, or   *)
(* changes nothing of it: no command touches an entry it was not given,    *)
(* "set" keeps the pass phrase it never asks for (config.go 221-261), the  *)
(* default moves only as documented, and nothing is half written but lost. *)
ImplementsStore == Store!Spec
=============================================================================
