-------------------------------- MODULE Smt --------------------------------
(***************************************************************************)
(* Secrets and ServiceRegistry on one server.  "smt secrets" and "smt      *)
(* deploy" meet in the Docker volumes alone; each module describes what    *)
(* the other does there in one action (Elsewhere, SecretsElsewhere), and   *)
(* here both sides are the real thing.                                     *)
(***************************************************************************)
EXTENDS Secrets

CONSTANTS Deployers,       \* operators that deploy, install and query
          Services, Paths, DefaultPath, NoPath, Contents, NoAssets, Configs,
          NoConfig, Cut, Versions, ServerCommands, HandRegistries

VARIABLES bindir, binary, etc, reg, svc, live,  \* the server's files
          spc, scmd, smem, path, sresult        \* the deployers

R == INSTANCE ServiceRegistry
     WITH Procs <- Deployers, Commands <- ServerCommands,
          pc <- spc, cmd <- scmd, mem <- smem, result <- sresult

(* Deployers know the volumes, and deploy.                                 *)
ASSUME SmtAssumption ==
    /\ ServerCommands \subseteq R!Command
    /\ NoConfig \notin Configs /\ Cut \notin Configs \cup {NoConfig}

own == <<local, stored, unlinked, pc, cmd, mem, entries, result>>
others == <<bindir, binary, etc, reg, svc, live, spc, scmd, smem, path, sresult>>
smt == <<volumes, own, others>>
-----------------------------------------------------------------------------
SmtInit == Init /\ R!Init

SmtNext == \/ Own /\ UNCHANGED others
           \/ R!Own /\ UNCHANGED own

SmtSpec == SmtInit /\ [][SmtNext]_smt
-----------------------------------------------------------------------------
(* Together, each does what it does alone: no deploy disturbs a secrets    *)
(* command, nor a secrets command a deploy, beyond what the module of the  *)
(* other allows for; so what is shown of each holds of both.               *)
ComponentsAsSpecified == Spec /\ R!Spec

(* The project's volume comes into being only where an operator wanted it: *)
(* one who was asked by a secrets command and said yes, or one who deploys *)
(* a project with this volume, and not as a dry run (deploy.go 137,        *)
(* secrets.go 205) - where no other volume's name contains its.            *)
VolumeOnPurpose ==
    [][(Volume \in volumes' \ volumes) =>
         \/ \E p \in Procs : pc[p] = "ensure" /\ pc'[p] = "act"
         \/ \E d \in Deployers : /\ spc[d] = "ensure" /\ spc'[d] = "test"
                                 /\ ~scmd[d].dryRun /\ scmd[d].vol = Volume]_smt
=============================================================================
