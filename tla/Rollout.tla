------------------------------ MODULE Rollout ------------------------------
(***************************************************************************)
(* What "smt deploy" does between finding the service's directory and      *)
(* saving the registry: the manifest of deploy.go 215-317, asset by asset, *)
(* with the commands that follow an asset when it was changed or created.  *)
(* ServiceRegistry has it as Ship and PutConfig.  One operator deploys one *)
(* service again and again and edits the project in between; a deploy may  *)
(* fail or die anywhere, and its commands are not made up for.             *)
(***************************************************************************)
CONSTANTS Versions,   \* contents an asset may have
          None,       \* not there
          Cut,        \* what a transfer that broke off leaves
          WithSite,   \* the project has an nginx directory
          WithExtra,  \* the project has additional assets
          Edited      \* the assets the operator edits between deploys

ASSUME ConstantsAssumption ==
    /\ Versions # {} /\ None \notin Versions
    /\ Cut \notin Versions \cup {None}
    /\ WithSite \in BOOLEAN /\ WithExtra \in BOOLEAN
    /\ Edited \subseteq {"compose", "units", "images", "config", "site", "extra"}

Assets == {"compose", "units", "images", "config"}
          \cup (IF WithSite THEN {"site"} ELSE {})
          \cup (IF WithExtra THEN {"extra"} ELSE {})

AllAssets == {"compose", "units", "images", "config", "site", "extra"}

PostCommands == {"enable", "restart", "link", "reload"}

Contents == Versions \cup {None, Cut}

VARIABLES local,    \* the project's assets, in the operator's checkout
          remote,   \* the same on the server
          dir,      \* the service's directory exists
          enabled,  \* systemd knows the service's unit
          running,  \* the compose file and images the service runs with
          linked,   \* the site is linked into sites-enabled
          serving,  \* the site configuration nginx has loaded
          pc,       \* the asset being shipped, or the command being run
          force,    \* -force
          result,   \* how the last deploy ended, "none" while one runs
          lost      \* commands a change called for that no deploy has run

server == <<remote, dir, enabled, running, linked, serving>>
vars == <<local, remote, dir, enabled, running, linked, serving, pc, force,
          result, lost>>

PCs == {"idle"} \cup AllAssets \cup PostCommands

ImagesFirst(a) ==
    CASE a = "compose" -> "images"
      [] a = "images" -> "units"
      [] a = "units" -> IF WithSite THEN "site" ELSE "config"
      [] a = "site" -> "config"
      [] a = "config" -> IF WithExtra THEN "extra" ELSE "idle"
      [] a = "extra" -> "idle"

ConfigBeforeSite(a) ==
    CASE a = "compose" -> "units"
      [] a = "units" -> "images"
      [] a = "images" -> "config"
      [] a = "config" -> IF WithSite THEN "site" ELSE "extra"
      [] a = "site" -> IF WithExtra THEN "extra" ELSE "idle"
      [] a = "extra" -> "idle"

(* The asset, or the end, that comes after a.                              *)
Following(a) ==
    CASE a = "compose" -> "units"
      [] a = "units" -> "images"
      [] a = "images" -> IF WithSite THEN "site" ELSE "config"
      [] a = "site" -> "config"
      [] a = "config" -> IF WithExtra THEN "extra" ELSE "idle"
      [] a = "extra" -> "idle"

(* The commands that follow a's asset when it has changed; the last two    *)
(* belong to the site, the link to one that was created.                   *)
Owed(a, created) ==
    CASE a = "units" -> {"enable"}
      [] a = "images" -> {"restart"}
      [] a = "site" -> IF created THEN {"link", "reload"} ELSE {"reload"}
      [] OTHER -> {}

RestartOnCreated(a, created) ==
    CASE a = "units" -> "enable"
      [] a = "images" -> IF created THEN "restart" ELSE Following(a)
      [] a = "site" -> IF created THEN "link" ELSE "reload"
      [] OTHER -> Following(a)

LinkOnChanged(a, created) ==
    CASE a = "units" -> "enable"
      [] a = "images" -> "restart"
      [] a = "site" -> "link"
      [] OTHER -> Following(a)

RestartOnCompose(a, created) ==
    CASE a \in {"compose", "images"} -> "restart"
      [] a = "units" -> "enable"
      [] a = "site" -> IF created THEN "link" ELSE "reload"
      [] OTHER -> Following(a)

(* The first of them.                                                      *)
Trigger(a, created) ==
    CASE a = "units" -> "enable"
      [] a = "images" -> "restart"
      [] a = "site" -> IF created THEN "link" ELSE "reload"
      [] OTHER -> Following(a)

(* What is still owed when a deploy stops before the command l.            *)
Left(l) == IF l = "link" THEN {"link", "reload"} ELSE {l} \cap PostCommands

Started == [a \in {"compose", "images"} |-> remote[a]]

Goto(l) == /\ pc' = l
           /\ result' = IF l = "idle" THEN "ok" ELSE "none"

End(r) == pc' = "idle" /\ result' = r
-----------------------------------------------------------------------------
(* A server that has never seen the service, its directory made or not.    *)
Init ==
    /\ \E v \in Versions : local = [a \in AllAssets |-> v]
    /\ remote = [a \in AllAssets |-> None]
    /\ dir \in BOOLEAN
    /\ enabled = FALSE
    /\ running = [a \in {"compose", "images"} |-> None]
    /\ linked = FALSE
    /\ serving = None
    /\ pc = "idle"
    /\ force = FALSE
    /\ result = "none"
    /\ lost = {}

(* The operator changes the project, between deploys.                      *)
Edit(a, v) ==
    /\ pc = "idle"
    /\ local' = [local EXCEPT ![a] = v]
    /\ UNCHANGED <<server, pc, force, result, lost>>

(* A config.json cut short is found first, and ends every later deploy.    *)
Deploy(f) ==
    /\ pc = "idle"
    /\ IF remote["config"] = Cut THEN End("error") ELSE Goto("compose")
    /\ force' = f
    /\ UNCHANGED <<local, server, lost>>

(* Files are put below the service's directory; only -force makes it.      *)
HasPlace(a) == dir \/ force \/ a \notin {"compose", "units"}

EnableAlways(a) ==
    /\ pc = a
    /\ HasPlace(a)
    /\ dir' = (dir \/ (force /\ a \in {"compose", "units"}))
    /\ remote' = [remote EXCEPT ![a] = local[a]]
    /\ Goto(IF remote[a] = local[a] /\ a # "units" THEN Following(a)
            ELSE Trigger(a, remote[a] = None))
    /\ UNCHANGED <<local, enabled, running, linked, serving, force, lost>>

(* An asset that differs is transferred, and calls for its commands.       *)
ShipAsset(a) ==
    /\ pc = a
    /\ HasPlace(a)
    /\ dir' = (dir \/ (force /\ a \in {"compose", "units"}))
    /\ remote' = [remote EXCEPT ![a] = local[a]]
    /\ Goto(IF remote[a] = local[a] THEN Following(a)
            ELSE Trigger(a, remote[a] = None))
    /\ UNCHANGED <<local, enabled, running, linked, serving, force, lost>>

(* systemctl enable --now: links the unit, starts a service that is not    *)
(* running, and leaves one that is alone.                                  *)
Enable ==
    /\ pc = "enable"
    /\ enabled' = TRUE
    /\ running' = IF running["compose"] = None THEN Started ELSE running
    /\ lost' = lost \ {"enable"}
    /\ Goto(Following("units"))
    /\ UNCHANGED <<local, remote, dir, linked, serving, force>>

(* systemctl restart, of a unit systemd knows.                             *)
Restart ==
    /\ pc = "restart"
    /\ enabled
    /\ running' = Started
    /\ lost' = lost \ {"restart"}
    /\ Goto(Following("images"))
    /\ UNCHANGED <<local, remote, dir, enabled, linked, serving, force>>

(* ln -s, which fails when the link is there.                              *)
Link ==
    /\ pc = "link"
    /\ ~linked
    /\ linked' = TRUE
    /\ lost' = lost \ {"link"}
    /\ Goto("reload")
    /\ UNCHANGED <<local, remote, dir, enabled, running, serving, force>>

(* nginx -t && nginx -s reload: all the sites that are linked.             *)
Reload ==
    /\ pc = "reload"
    /\ serving' = IF linked THEN remote["site"] ELSE None
    /\ lost' = lost \ {"reload"}
    /\ Goto(Following("site"))
    /\ UNCHANGED <<local, remote, dir, enabled, running, linked, force>>

(* An asset or a command fails, or the deploy is killed: what was being    *)
(* transferred is there, or not, or broken off.                            *)
Stop ==
    /\ pc # "idle"
    /\ \E r \in {"error", "killed"} : End(r)
    /\ \/ /\ UNCHANGED remote
          /\ lost' = lost \cup Left(pc)
       \/ /\ pc \in AllAssets /\ HasPlace(pc) /\ remote[pc] # local[pc]
          /\ \E c \in {local[pc], Cut} : remote' = [remote EXCEPT ![pc] = c]
          /\ lost' = lost \cup Owed(pc, remote[pc] = None)
    /\ dir' \in {dir, dir \/ force}
    /\ UNCHANGED <<local, enabled, running, linked, serving, force>>

(* The server boots, or systemd restarts a service that has exited.        *)
Boot ==
    /\ running' = IF enabled THEN Started ELSE [a \in {"compose", "images"} |-> None]
    /\ serving' = IF linked THEN remote["site"] ELSE None
    /\ UNCHANGED <<local, remote, dir, enabled, linked, pc, force, result, lost>>

Next == \/ \E a \in Edited, v \in Versions : Edit(a, v)
        \/ \E f \in BOOLEAN : Deploy(f)
        \/ \E a \in Assets : ShipAsset(a)
        \/ Enable \/ Restart \/ Link \/ Reload
        \/ Stop \/ Boot

Spec == Init /\ [][Next]_vars
-----------------------------------------------------------------------------
TypeOK ==
    /\ local \in [AllAssets -> Versions]
    /\ remote \in [AllAssets -> Contents]
    /\ dir \in BOOLEAN /\ enabled \in BOOLEAN /\ linked \in BOOLEAN
    /\ running \in [{"compose", "images"} -> Contents]
    /\ serving \in Contents
    /\ pc \in PCs
    /\ force \in BOOLEAN
    /\ result \in {"none", "ok", "error", "killed"}
    /\ lost \subseteq PostCommands

(* Whatever earlier deploys left half done: one that succeeds has brought  *)
(* every asset of the manifest to the server.                              *)
SuccessShips ==
    [][pc # "idle" /\ result' = "ok" =>
         \A a \in Assets : remote'[a] = local[a]]_vars

(* The service is only ever restarted (deploy.go 250-262) once the compose *)
(* file, the unit files and the images of this deploy are all in place:    *)
(* new images never meet an old compose file.                              *)
RestartSeesNewFiles ==
    [][pc = "restart" /\ pc' \notin {"restart", "idle"} =>
         /\ \A a \in {"compose", "units", "images"} : remote[a] = local[a]
         /\ running' = [a \in {"compose", "images"} |-> local[a]]]_vars

(* Between deploys the server does what was shipped to it - the unit is    *)
(* enabled, the images shipped are the ones that run, the site is linked   *)
(* and loaded - except for commands that a deploy stopped before, and that *)
(* no later change called for again (deploy.go 239, 259, 283, 287).        *)
OnlyLostCommandsAreMissing ==
    pc = "idle" =>
        /\ remote["units"] # None /\ "enable" \notin lost => enabled
        /\ enabled /\ "restart" \notin lost => running["images"] = remote["images"]
        /\ remote["site"] # None /\ "link" \notin lost => linked
        /\ linked /\ "reload" \notin lost => serving = remote["site"]

(* The service runs with a compose file that has changed since, with the   *)
(* images that are still current.                                          *)
Outdated == /\ pc # "restart"
            /\ remote["images"] = local["images"]
            /\ running["compose"] \notin {None, local["compose"]}

(* No asset calls for a restart but the images (deploy.go 224): until they *)
(* change, or the server boots, deploys leave the service running with the *)
(* old compose file, however often one succeeds.                           *)
ComposeStaysOutdated ==
    [][Outdated /\ UNCHANGED local /\ pc' # pc => Outdated']_vars

(* The unit files are there, unchanged, and were never enabled.            *)
Disabled == /\ pc # "enable"
            /\ remote["units"] = local["units"]
            /\ ~enabled

(* A deploy that stops between the unit files and systemctl enable: until  *)
(* somebody edits the unit files, no later deploy enables the service,     *)
(* however often one succeeds (deploy.go 239, on_changed).                 *)
LostEnableIsPermanent ==
    [][Disabled /\ local'["units"] = local["units"] => Disabled']_vars

(* The site's configuration is there and was not linked.                   *)
Unlinked == pc # "link" /\ remote["site"] # None /\ ~linked

(* The same between a site's configuration and its link (deploy.go 283,    *)
(* on_created), for good: not even an edit of the configuration helps.     *)
LostLinkIsPermanent == [][Unlinked => Unlinked']_vars
=============================================================================
