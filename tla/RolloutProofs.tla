--------------------------- MODULE RolloutProofs ---------------------------
(***************************************************************************)
(* Rollout for every set of versions, with or without a site and           *)
(* additional assets.                                                      *)
(***************************************************************************)
EXTENDS RolloutRegistry, TLAPS

(* The assets that are in place when a deploy has come to l.               *)
Before(l) ==
    CASE l \in {"idle", "compose"} -> {}
      [] l = "units" -> {"compose"}
      [] l \in {"enable", "images"} -> {"compose", "units"}
      [] l \in {"restart", "site"} -> {"compose", "units", "images"}
      [] l \in {"link", "reload"} -> {"compose", "units", "images", "site"}
      [] l = "config" -> Assets \ {"config", "extra"}
      [] l = "extra" -> Assets \ {"extra"}

(* A deploy is only at what its project has, and shows no result yet.      *)
OnItsWay == /\ pc \in {"site", "link", "reload"} => WithSite
            /\ pc = "extra" => WithExtra
            /\ pc # "idle" => result = "none"

InPlace == \A a \in Before(pc) : remote[a] = local[a]

(* Nothing runs without its unit, and what the server lacks is a command   *)
(* that was lost or that this deploy is about to run.                      *)
Excused ==
    LET excuse == lost \cup Left(pc) IN
    /\ ~enabled => running["compose"] = None
    /\ remote["units"] # None /\ "enable" \notin excuse => enabled
    /\ enabled /\ "restart" \notin excuse => running["images"] = remote["images"]
    /\ remote["site"] # None /\ "link" \notin excuse => linked
    /\ linked /\ "reload" \notin excuse => serving = remote["site"]

IInv == TypeOK /\ OnItsWay /\ InPlace /\ Excused

(* A version is something, and not a piece of something.                   *)
LEMMA VersionTypes ==
    ASSUME TypeOK, NEW a \in AllAssets
    PROVE  local[a] \in Contents /\ local[a] # None /\ local[a] # Cut
BY ConstantsAssumption DEF TypeOK, Contents

LEMMA StartedType ==
    ASSUME TypeOK
    PROVE  /\ Started \in [{"compose", "images"} -> Contents]
           /\ Started["images"] = remote["images"]
BY DEF TypeOK, Started, AllAssets

LEMMA FollowingType ==
    ASSUME NEW a \in Assets
    PROVE  /\ Following(a) \in {"idle"} \cup Assets
           /\ Before(Following(a)) \subseteq Before(a) \cup {a}
           /\ Following(a) = "idle" => Assets \subseteq Before(a) \cup {a}
           /\ Left(Following(a)) = {}
           /\ Left(a) = {}
BY DEF Assets, Following, Before, Left, PostCommands

LEMMA TriggerType ==
    ASSUME NEW a \in Assets, NEW c \in BOOLEAN
    PROVE  LET l == Trigger(a, c) IN
           /\ l \in PCs
           /\ Before(l) \subseteq Before(a) \cup {a}
           /\ l = "idle" => Assets \subseteq Before(a) \cup {a}
           /\ l = "extra" => WithExtra
           /\ l \in {"site", "link", "reload"} => WithSite
           /\ a = "units" => Left(l) = {"enable"}
           /\ a = "images" => Left(l) = {"restart"}
           /\ a = "site" => "reload" \in Left(l) /\ (c => "link" \in Left(l))
<1> DEFINE l == Trigger(a, c)
<1>1. CASE a = "units"
  BY <1>1 DEF Trigger, Left, Before, PCs, PostCommands
<1>2. CASE a = "images"
  BY <1>2 DEF Trigger, Left, Before, PCs, PostCommands
<1>3. CASE a = "site"
  <2>1. l \in {"link", "reload"} /\ (c => l = "link") /\ WithSite
    BY <1>3 DEF Trigger, Assets
  <2> QED BY <1>3, <2>1 DEF Left, Before, PCs, PostCommands
<1>4. CASE a \notin {"units", "images", "site"}
  <2>1. l = Following(a)
    BY <1>4 DEF Trigger
  <2> QED BY <1>4, <2>1, FollowingType DEF Assets, AllAssets, PCs
<1> QED BY <1>1, <1>2, <1>3, <1>4

LEMMA InitIInv == Init => IInv
BY ConstantsAssumption
DEF Init, IInv, TypeOK, OnItsWay, InPlace, Excused, Before, Left, Contents,
    PCs, PostCommands, AllAssets

LEMMA ShipKeeps ==
    ASSUME IInv, NEW a \in Assets, ShipAsset(a)
    PROVE  IInv'
<1> DEFINE l == IF remote[a] = local[a] THEN Following(a)
                ELSE Trigger(a, remote[a] = None)
<1>1. /\ a \in AllAssets
      /\ pc = a
      /\ remote' = [remote EXCEPT ![a] = local[a]]
      /\ pc' = l
      /\ result' = IF l = "idle" THEN "ok" ELSE "none"
      /\ dir' \in BOOLEAN
      /\ UNCHANGED <<local, enabled, running, linked, serving, force, lost>>
  BY DEF ShipAsset, Goto, Assets, AllAssets, IInv, TypeOK
<1>2. /\ l \in PCs
      /\ Before(l) \subseteq Before(a) \cup {a}
      /\ l = "extra" => WithExtra
      /\ l \in {"site", "link", "reload"} => WithSite
  <2>1. CASE remote[a] = local[a]
    BY <2>1, FollowingType DEF Assets, AllAssets, PCs
  <2>2. CASE remote[a] # local[a]
    BY <2>2, TriggerType
  <2> QED BY <2>1, <2>2
<1>3. TypeOK'
  BY <1>1, <1>2, VersionTypes DEF IInv, TypeOK
<1>4. OnItsWay'
  BY <1>1, <1>2 DEF OnItsWay
<1>5. InPlace'
  BY <1>1, <1>2 DEF IInv, TypeOK, InPlace
<1>6. Excused'
  <2>1. Left(pc) = {}
    BY <1>1, FollowingType
  <2>2. CASE remote[a] = local[a]
    <3>1. remote' = remote /\ Left(pc') = {}
      BY <1>1, <2>2, FollowingType DEF IInv, TypeOK
    <3> QED BY <1>1, <2>1, <3>1 DEF IInv, Excused
  <2>3. CASE remote[a] # local[a]
    <3>1. /\ a = "units" => "enable" \in Left(pc')
          /\ a = "images" => "restart" \in Left(pc')
          /\ a = "site" => "reload" \in Left(pc')
                           /\ (remote[a] = None => "link" \in Left(pc'))
      <4> DEFINE c == remote[a] = None
      <4>1. c \in BOOLEAN /\ pc' = Trigger(a, c)
        BY <1>1, <2>3
      <4> HIDE DEF c
      <4>2. /\ a = "units" => Left(pc') = {"enable"}
            /\ a = "images" => Left(pc') = {"restart"}
            /\ a = "site" => "reload" \in Left(pc') /\ (c => "link" \in Left(pc'))
        BY <4>1, TriggerType
      <4> QED BY <4>2 DEF c
    <3>2. \A b \in AllAssets : b # a => remote'[b] = remote[b]
      BY <1>1 DEF IInv, TypeOK
    <3>3. "units" \in AllAssets /\ "images" \in AllAssets /\ "site" \in AllAssets
      BY DEF AllAssets
    <3> QED BY <1>1, <2>1, <3>1, <3>2, <3>3 DEF IInv, Excused
  <2> QED BY <2>2, <2>3
<1> QED BY <1>3, <1>4, <1>5, <1>6 DEF IInv

LEMMA NextIInv == IInv /\ [Next]_vars => IInv'
<1> SUFFICES ASSUME IInv, [Next]_vars PROVE IInv'
  OBVIOUS
<1>1. CASE UNCHANGED vars
  BY <1>1 DEF vars, server, IInv, TypeOK, OnItsWay, InPlace, Excused
<1>2. ASSUME NEW a \in Edited, NEW v \in Versions, Edit(a, v) PROVE IInv'
  <2>1. local' \in [AllAssets -> Versions]
    BY <1>2, ConstantsAssumption DEF Edit, IInv, TypeOK, AllAssets
  <2>2. Before(pc') = {}
    BY <1>2 DEF Edit, Before
  <2> QED
    BY <1>2, <2>1, <2>2 DEF Edit, server, IInv, TypeOK, OnItsWay, InPlace, Excused
<1>3. ASSUME NEW f \in BOOLEAN, Deploy(f) PROVE IInv'
  <2>1. /\ pc = "idle" /\ pc' \in {"idle", "compose"}
        /\ pc' # "idle" => result' = "none"
        /\ result' \in {"none", "error"}
    BY <1>3 DEF Deploy, Goto, End
  <2>2. Before(pc') = {} /\ Left(pc) = {} /\ Left(pc') = {} /\ pc' \in PCs
    BY <2>1 DEF Before, Left, PostCommands, PCs, AllAssets
  <2> QED
    BY <1>3, <2>1, <2>2
    DEF Deploy, server, IInv, TypeOK, OnItsWay, InPlace, Excused
<1>4. ASSUME NEW a \in Assets, ShipAsset(a) PROVE IInv'
  BY <1>4, ShipKeeps
<1>5. CASE Enable
  <2>1. pc = "enable" /\ pc' = "images" /\ result' = "none"
    BY <1>5 DEF Enable, Goto, Following
  <2>2. /\ Left("enable") = {"enable"} /\ Left("images") = {}
        /\ Before("images") = Before("enable") /\ "images" \in PCs
    BY DEF Left, Before, PostCommands, PCs, AllAssets
  <2> QED
    BY <1>5, <2>1, <2>2, StartedType
    DEF Enable, IInv, TypeOK, OnItsWay, InPlace, Excused
<1>6. CASE Restart
  <2>1. /\ "images" \in Assets /\ pc' = Following("images")
        /\ pc' # "idle" /\ result' = "none"
    BY <1>6 DEF Restart, Goto, Following, Assets
  <2>2. /\ pc = "restart" /\ Left("restart") = {"restart"} /\ Left(pc') = {}
        /\ Before(pc') \subseteq Before("restart") /\ pc' \in PCs
        /\ pc' \notin {"extra", "link", "reload"} /\ (pc' = "site" => WithSite)
    BY <1>6, <2>1, FollowingType
    DEF Restart, Following, Left, Before, Assets, PostCommands, PCs, AllAssets
  <2> QED
    BY <1>6, <2>1, <2>2, StartedType
    DEF Restart, IInv, TypeOK, OnItsWay, InPlace, Excused
<1>7. CASE Link
  <2>1. pc = "link" /\ pc' = "reload" /\ result' = "none"
    BY <1>7 DEF Link, Goto
  <2>2. /\ Left("link") = {"link", "reload"} /\ Left("reload") = {"reload"}
        /\ Before("reload") = Before("link") /\ "reload" \in PCs
    BY DEF Left, Before, PostCommands, PCs
  <2> QED
    BY <1>7, <2>1, <2>2 DEF Link, IInv, TypeOK, OnItsWay, InPlace, Excused
<1>8. CASE Reload
  <2>1. pc = "reload" /\ pc' = "config" /\ result' = "none" /\ WithSite
    BY <1>8 DEF Reload, Goto, Following, IInv, OnItsWay
  <2>2. /\ Left("reload") = {"reload"} /\ Left("config") = {}
        /\ Before("config") \subseteq Before("reload") /\ "config" \in PCs
    BY DEF Left, Before, Assets, PostCommands, PCs, AllAssets
  <2>3. remote["site"] \in Contents /\ None \in Contents
    BY DEF IInv, TypeOK, AllAssets, Contents
  <2> QED
    BY <1>8, <2>1, <2>2, <2>3
    DEF Reload, IInv, TypeOK, OnItsWay, InPlace, Excused
<1>9. CASE Stop
  <2>1. /\ pc # "idle" /\ pc' = "idle" /\ result' \in {"error", "killed"}
        /\ dir' \in BOOLEAN
        /\ UNCHANGED <<local, enabled, running, linked, serving, force>>
    BY <1>9 DEF Stop, End, IInv, TypeOK
  <2>2. Left("idle") = {} /\ Before("idle") = {} /\ "idle" \in PCs
    BY DEF Left, Before, PostCommands, PCs
  <2>3. CASE UNCHANGED remote /\ lost' = lost \cup Left(pc)
    <3>1. Left(pc) \subseteq PostCommands
      BY DEF Left, PostCommands
    <3> QED
      BY <2>1, <2>2, <2>3, <3>1
      DEF IInv, TypeOK, OnItsWay, InPlace, Excused
  <2>4. ASSUME pc \in AllAssets, remote[pc] # local[pc],
               NEW c \in {local[pc], Cut}, remote' = [remote EXCEPT ![pc] = c],
               lost' = lost \cup Owed(pc, remote[pc] = None)
        PROVE  IInv'
    <3>1. c \in Contents /\ c # None
      <4>1. local[pc] \in Contents /\ local[pc] # None
        BY <2>4, VersionTypes DEF IInv
      <4> QED BY <2>4, <4>1, ConstantsAssumption DEF Contents
    <3>2. /\ Owed(pc, remote[pc] = None) \subseteq PostCommands
          /\ pc = "units" => "enable" \in Owed(pc, remote[pc] = None)
          /\ pc = "images" => "restart" \in Owed(pc, remote[pc] = None)
          /\ pc = "site" =>
               /\ "reload" \in Owed(pc, remote[pc] = None)
               /\ remote[pc] = None => "link" \in Owed(pc, remote[pc] = None)
      BY DEF Owed, PostCommands
    <3>3. Left(pc) = {}
      BY <2>4 DEF Left, AllAssets, PostCommands
    <3>4. \A b \in AllAssets : b # pc => remote'[b] = remote[b]
      BY <2>4 DEF IInv, TypeOK
    <3>5. TypeOK' /\ OnItsWay' /\ InPlace'
      BY <2>1, <2>2, <2>4, <3>1, <3>2 DEF IInv, TypeOK, OnItsWay, InPlace
    <3>6. Excused'
      <4>1. "units" \in AllAssets /\ "images" \in AllAssets /\ "site" \in AllAssets
        BY DEF AllAssets
      <4> QED BY <2>1, <2>2, <2>4, <3>2, <3>3, <3>4, <4>1 DEF IInv, Excused
    <3> QED BY <3>5, <3>6 DEF IInv
  <2> QED BY <1>9, <2>3, <2>4 DEF Stop
<1>10. CASE Boot
  <2>1. /\ running' \in [{"compose", "images"} -> Contents]
        /\ serving' \in Contents
        /\ ~enabled => running'["compose"] = None
        /\ enabled => running'["images"] = remote["images"]
        /\ linked => serving' = remote["site"]
    BY <1>10, StartedType DEF Boot, IInv, TypeOK, AllAssets, Contents
  <2> QED BY <1>10, <2>1 DEF Boot, IInv, TypeOK, OnItsWay, InPlace, Excused
<1> QED
  BY <1>1, <1>2, <1>3, <1>4, <1>5, <1>6, <1>7, <1>8, <1>9, <1>10 DEF Next

LEMMA AlwaysIInv == Spec => []IInv
BY InitIInv, NextIInv, PTL DEF Spec

(* Every variable keeps its type.                                          *)
THEOREM TypeCorrect == Spec => []TypeOK
<1>1. IInv => TypeOK
  BY DEF IInv
<1> QED BY <1>1, AlwaysIInv, PTL

(* What the server does not do between deploys is a lost command.          *)
THEOREM LostCommandsOnly == Spec => []OnlyLostCommandsAreMissing
<1>1. IInv => OnlyLostCommandsAreMissing
  BY DEF IInv, Excused, OnlyLostCommandsAreMissing, Left, PostCommands
<1> QED BY <1>1, AlwaysIInv, PTL

(* A deploy that succeeds has shipped the whole manifest.                  *)
THEOREM SuccessIsWhole == Spec => SuccessShips
<1> DEFINE P == pc # "idle" /\ result' = "ok" =>
                  \A a \in Assets : remote'[a] = local[a]
<1>1. ASSUME IInv, [Next]_vars PROVE P
  <2> SUFFICES ASSUME pc # "idle", result' = "ok"
               PROVE  \A a \in Assets : remote'[a] = local[a]
    OBVIOUS
  <2>1. result = "none"
    BY <1>1 DEF IInv, OnItsWay
  <2>2. PICK a \in Assets : ShipAsset(a)
    BY <1>1, <2>1
    DEF Next, vars, Edit, Deploy, Enable, Restart, Link, Reload, Stop, Boot,
        End, Goto, Following
  <2>3. pc = a /\ remote' = [remote EXCEPT ![a] = local[a]] /\ a \in AllAssets
    BY <2>2 DEF ShipAsset, Assets, AllAssets
  <2>4. Assets \subseteq Before(a) \cup {a}
    BY <2>2, FollowingType, TriggerType DEF ShipAsset, Goto
  <2>5. Assets \subseteq AllAssets
    BY DEF Assets, AllAssets
  <2> QED BY <1>1, <2>3, <2>4, <2>5 DEF IInv, InPlace, TypeOK
<1> QED BY <1>1, AlwaysIInv, PTL DEF Spec, SuccessShips

(* A restart meets the compose file, units and images of its deploy.       *)
THEOREM RestartsAreLast == Spec => RestartSeesNewFiles
<1> DEFINE P == pc = "restart" /\ pc' \notin {"restart", "idle"} =>
                  /\ \A a \in {"compose", "units", "images"} : remote[a] = local[a]
                  /\ running' = [a \in {"compose", "images"} |-> local[a]]
<1>1. ASSUME IInv, [Next]_vars PROVE P
  <2> SUFFICES ASSUME pc = "restart", pc' \notin {"restart", "idle"} PROVE P
    OBVIOUS
  <2>1. Restart
    BY <1>1 DEF Next, vars, Edit, Deploy, ShipAsset, Assets, Enable, Link, Reload,
                Stop, Boot, End
  <2>2. \A a \in {"compose", "units", "images"} : remote[a] = local[a]
    BY <1>1 DEF IInv, InPlace, Before
  <2> QED BY <2>1, <2>2 DEF Restart, Started
<1> QED BY <1>1, AlwaysIInv, PTL DEF Spec, RestartSeesNewFiles

(* A lost systemctl enable is not made up for.                             *)
THEOREM LostEnable == Spec => LostEnableIsPermanent
<1> DEFINE P == Disabled /\ local'["units"] = local["units"] => Disabled'
<1>1. ASSUME IInv, [Next]_vars PROVE P
  <2> SUFFICES ASSUME Disabled, local'["units"] = local["units"] PROVE Disabled'
    OBVIOUS
  <2>1. ASSUME NEW a \in Assets, ShipAsset(a) PROVE Disabled'
    <3>1. a = "units" => pc' = Following(a)
      BY <2>1 DEF ShipAsset, Goto, Disabled
    <3>2. pc' # "enable"
      BY <2>1, <3>1 DEF ShipAsset, Goto, Following, Trigger, Assets
    <3> QED BY <1>1, <2>1, <3>2
            DEF ShipAsset, Disabled, IInv, TypeOK, Assets, AllAssets
  <2>2. CASE Stop
    <3>1. pc' = "idle" /\ UNCHANGED <<local, enabled>>
      BY <2>2 DEF Stop, End
    <3>2. remote'["units"] = remote["units"]
      BY <1>1, <2>2 DEF Stop, Disabled, IInv, TypeOK, AllAssets
    <3> QED BY <3>1, <3>2 DEF Disabled
  <2>3. ASSUME UNCHANGED <<remote, enabled>>, pc' # "enable" PROVE Disabled'
    BY <2>3 DEF Disabled
  <2> QED
    BY <1>1, <2>1, <2>2, <2>3
    DEF Next, vars, server, Disabled, Edit, Deploy, Enable, Restart, Link,
        Reload, Boot, End, Goto, Following
<1> QED BY <1>1, AlwaysIInv, PTL DEF Spec, LostEnableIsPermanent

(* Nor is a lost link.                                                     *)
THEOREM LostLink == Spec => LostLinkIsPermanent
<1>1. ASSUME IInv, [Next]_vars, Unlinked PROVE Unlinked'
  <2>1. ASSUME NEW a \in Assets, ShipAsset(a) PROVE Unlinked'
    <3>1. a \in AllAssets /\ "site" \in AllAssets /\ local[a] # None
      BY <1>1, VersionTypes DEF IInv, Assets, AllAssets
    <3>2. pc' # "link"
      BY <1>1, <2>1 DEF ShipAsset, Goto, Following, Trigger, Assets, Unlinked
    <3> QED BY <1>1, <2>1, <3>1, <3>2 DEF ShipAsset, Unlinked, IInv, TypeOK
  <2>2. CASE Stop
    <3>1. \A a \in AllAssets : local[a] # None /\ Cut # None
      BY <1>1, VersionTypes, ConstantsAssumption DEF IInv
    <3> QED BY <1>1, <2>2, <3>1 DEF Stop, End, Unlinked, IInv, TypeOK, AllAssets
  <2>3. ASSUME UNCHANGED <<remote, linked>>, pc' # "link" PROVE Unlinked'
    BY <1>1, <2>3 DEF Unlinked
  <2> QED
    BY <1>1, <2>1, <2>2, <2>3
    DEF Next, vars, server, Unlinked, Edit, Deploy, Enable, Restart, Link,
        Reload, Boot, End, Goto, Following
<1> QED BY <1>1, AlwaysIInv, PTL DEF Spec, LostLinkIsPermanent
(* An outdated compose file is not made up for either: only a changed      *)
(* image leads to a restart, and enabling leaves what runs alone.          *)
THEOREM ComposeOutdated == Spec => ComposeStaysOutdated
<1> DEFINE P == Outdated /\ UNCHANGED local /\ pc' # pc => Outdated'
<1>1. ASSUME IInv, [Next]_vars PROVE P
  <2> SUFFICES ASSUME Outdated, UNCHANGED local, pc' # pc PROVE Outdated'
    OBVIOUS
  <2>1. ASSUME NEW a \in Assets, ShipAsset(a) PROVE Outdated'
    <3>1. pc' # "restart"
      BY <2>1 DEF ShipAsset, Goto, Following, Trigger, Assets, Outdated
    <3> QED BY <1>1, <2>1, <3>1
            DEF ShipAsset, Outdated, IInv, TypeOK, Assets, AllAssets
  <2>2. CASE Enable
    BY <2>2 DEF Enable, Goto, Following, Outdated
  <2>3. CASE Stop
    <3>1. pc' = "idle" /\ running' = running
      BY <2>3 DEF Stop, End
    <3>2. remote'["images"] = remote["images"]
      BY <1>1, <2>3 DEF Stop, Outdated, IInv, TypeOK, AllAssets
    <3> QED BY <3>1, <3>2 DEF Outdated
  <2>4. ASSUME UNCHANGED <<remote, running>>, pc' # "restart" PROVE Outdated'
    BY <2>4 DEF Outdated
  <2> QED
    BY <1>1, <2>1, <2>2, <2>3, <2>4
    DEF Next, vars, server, Outdated, Edit, Deploy, Restart, Link, Reload,
        Boot, End, Goto, Following
<1> QED BY <1>1, AlwaysIInv, PTL DEF Spec, ComposeStaysOutdated
-----------------------------------------------------------------------------
(* The steps of a deploy as steps of ServiceRegistry.                      *)

LEMMA ShippedAssets ==
    /\ Shipped \subseteq AllAssets /\ "config" \in AllAssets
    /\ "config" \notin Shipped /\ "extra" \notin Shipped
    /\ "compose" \in Shipped
BY DEF Shipped, Assets, AllAssets

LEMMA StutterMaps ==
    ASSUME Phase' = Phase, Outcome' = Outcome, UNCHANGED local,
           \A a \in Shipped \cup {"config"} : remote'[a] = remote[a]
    PROVE  UNCHANGED R!vars
<1>1. Deployment' = Deployment
  BY DEF Deployment
<1>2. [a \in Shipped |-> remote'[a]] = [a \in Shipped |-> remote[a]]
  OBVIOUS
<1> QED BY <1>1, <1>2 DEF R!vars

LEMMA SomeMaps ==
    ASSUME IInv, IInv', Phase = "ship", Phase' = "ship", Outcome' = Outcome,
           UNCHANGED local, NEW a \in Shipped, remote'[a] # None,
           remote'["config"] = remote["config"]
    PROVE  R!ShipSome(Operator)
<1> DEFINE l == [b \in Shipped |-> remote[b]]
           n == [b \in Shipped |-> None]
<1>1. Deployment' = Deployment
  BY DEF Deployment
<1>2. l' \in [Shipped -> Contents] /\ l' # n
  <2>1. l' \in [Shipped -> Contents]
    BY ShippedAssets DEF IInv, TypeOK
  <2>2. l'[a] # n[a]
    OBVIOUS
  <2> QED BY <2>1, <2>2
<1>3. ~Deployment.show /\ ~Deployment.dryRun
  BY DEF Deployment
<1> HIDE DEF l, n
<1> QED BY <1>1, <1>2, <1>3 DEF R!ShipSome, R!Shipped, R!Preview, Operator, l, n

LEMMA AllMaps ==
    ASSUME IInv, IInv', Phase = "ship", Phase' = "put", Outcome' = Outcome,
           UNCHANGED local, \A a \in Shipped : remote'[a] = local[a],
           remote'["config"] = remote["config"]
    PROVE  R!Ship(Operator)
<1> DEFINE l == [b \in Shipped |-> remote[b]]
           v == [b \in Shipped |-> local[b]]
<1>1. Deployment' = Deployment
  BY DEF Deployment
<1>2. l' \in [Shipped -> Contents] /\ l' = v
  BY ShippedAssets DEF IInv, TypeOK
<1>3. ~Deployment.show /\ ~Deployment.dryRun /\ Deployment.version.assets = v
  BY DEF Deployment
<1> HIDE DEF l, v
<1> QED BY <1>1, <1>2, <1>3
        DEF R!Ship, R!Shipped, R!Preview, R!Continue, R!Goto, Operator, l, v

LEMMA ConfigMaps ==
    ASSUME Phase = "put", Phase' \in {"rest", "save"}, Outcome' = Outcome,
           UNCHANGED local, \A a \in Shipped : remote'[a] = remote[a],
           remote'["config"] = local["config"]
    PROVE  R!PutConfig(Operator)
<1>1. Deployment' = Deployment /\ Deployment.version.config = local["config"]
  BY DEF Deployment
<1>2. [a \in Shipped |-> remote'[a]] = [a \in Shipped |-> remote[a]]
  OBVIOUS
<1> QED BY <1>1, <1>2 DEF R!PutConfig, R!Continue, R!Goto, Operator

LEMMA RestMaps ==
    ASSUME Phase = "rest", Phase' = "save", Outcome' = Outcome, UNCHANGED local,
           \A a \in Shipped \cup {"config"} : remote'[a] = remote[a]
    PROVE  R!ShipRest(Operator)
<1>1. Deployment' = Deployment
  BY DEF Deployment
<1>2. [a \in Shipped |-> remote'[a]] = [a \in Shipped |-> remote[a]]
  OBVIOUS
<1> QED BY <1>1, <1>2 DEF R!ShipRest, R!Continue, R!Goto, R!server, Operator

LEMMA StopMaps ==
    ASSUME IInv, IInv', Stop
    PROVE  R!ShipFails(Operator) \/ R!Crash(Operator)
<1> DEFINE l == [b \in Shipped |-> remote[b]]
           n == [b \in Shipped |-> None]
<1>1. /\ Deployment' = Deployment
      /\ ~Deployment.show /\ ~Deployment.dryRun
      /\ Deployment.version.config = local["config"]
  BY DEF Deployment, Stop
<1>2. /\ pc # "idle" /\ Phase \in {"ship", "put", "rest"} /\ Phase' = "idle"
      /\ Outcome' \in {"ship-error", "killed"}
      /\ pc \in Shipped => Phase = "ship"
      /\ pc = "config" => Phase = "put"
  BY ShippedAssets DEF Stop, End, Phase, Outcome
<1>3. R!HalfShipped(Operator)
  <2>1. CASE UNCHANGED remote \/ pc \notin Shipped \cup {"config"}
    <3>1. l' = l /\ remote'["config"] = remote["config"]
      BY <2>1 DEF Stop, IInv, TypeOK, Shipped, Assets, AllAssets
    <3> HIDE DEF l
    <3> QED BY <3>1 DEF R!HalfShipped, l
  <2>2. CASE pc \in Shipped /\ ~UNCHANGED remote
    <3>1. remote'[pc] \in {local[pc], Cut} /\ remote'["config"] = remote["config"]
      BY <2>2, ShippedAssets DEF Stop, IInv, TypeOK
    <3>2. remote'[pc] # None
      BY <2>2, <3>1, ShippedAssets, VersionTypes, ConstantsAssumption DEF IInv
    <3>3. l' \in [Shipped -> Contents] /\ l' # n
      <4>1. l' \in [Shipped -> Contents]
        BY ShippedAssets DEF IInv, TypeOK
      <4>2. l'[pc] # n[pc]
        BY <2>2, <3>2
      <4> QED BY <4>1, <4>2
    <3> HIDE DEF l, n
    <3> QED BY <1>1, <1>2, <2>2, <3>1, <3>3
            DEF R!HalfShipped, R!Shipped, R!Preview, Operator, l, n
  <2>3. CASE pc = "config" /\ ~UNCHANGED remote
    <3>1. remote'["config"] \in {local["config"], Cut} /\ l' = l
      BY <2>3, ShippedAssets DEF Stop, IInv, TypeOK
    <3> HIDE DEF l
    <3> QED BY <1>1, <1>2, <2>3, <3>1 DEF R!HalfShipped, Operator, l
  <2> QED BY <2>1, <2>2, <2>3
<1>4. CASE Outcome' = "ship-error"
  BY <1>1, <1>2, <1>3, <1>4
  DEF R!ShipFails, R!End, R!EmptyRegistry, R!Preview, Operator
<1>5. CASE Outcome' = "killed"
  BY <1>1, <1>2, <1>3, <1>5 DEF R!Crash, R!End, R!EmptyRegistry, Operator
<1> QED BY <1>2, <1>4, <1>5

(* Rollout's deploys ship the way ServiceRegistry says.                    *)
THEOREM RolloutsShip == Spec => DeploysShip
<1> DEFINE P == pc # "idle" =>
                  \/ UNCHANGED R!vars
                  \/ R!Shipping(Operator) \/ R!Crash(Operator)
<1>1. ASSUME IInv, IInv', [Next]_vars PROVE P
  <2> SUFFICES ASSUME pc # "idle"
               PROVE  \/ UNCHANGED R!vars
                      \/ R!Shipping(Operator) \/ R!Crash(Operator)
    OBVIOUS
  <2>0. Outcome = "none" /\ result = "none"
    BY <1>1 DEF Outcome, IInv, OnItsWay
  <2>1. CASE UNCHANGED vars \/ Boot
    BY <2>1, StutterMaps DEF vars, server, Boot, Phase, Outcome
  <2>2. CASE Stop
    BY <1>1, <2>2, StopMaps DEF R!Shipping
  <2>3. ASSUME UNCHANGED <<local, remote>>, Phase = "ship", pc' # "idle",
               pc' \notin {"config", "extra"}
        PROVE  UNCHANGED R!vars
    <3>1. Phase' = Phase /\ Outcome' = Outcome
      BY <2>0, <2>3 DEF Phase, Outcome
    <3> QED BY <2>3, <3>1, StutterMaps
  <2>4. ASSUME UNCHANGED local, Phase = "ship", pc' = "config",
               remote'["config"] = remote["config"]
        PROVE  R!Ship(Operator)
    <3>1. Phase' = "put" /\ Outcome' = Outcome
      BY <2>0, <2>4 DEF Phase, Outcome
    <3>2. \A a \in Shipped : remote'[a] = local[a]
      BY <1>1, <2>4 DEF IInv, InPlace, Before, Shipped
    <3> QED BY <1>1, <2>4, <3>1, <3>2, AllMaps
  <2>5. CASE Enable \/ Restart \/ Link \/ Reload
    <3>1. UNCHANGED <<local, remote>> /\ Phase = "ship"
      BY <2>5 DEF Enable, Restart, Link, Reload, Phase
    <3>2. pc' \in {"images", "site", "config", "reload"}
      BY <2>5 DEF Enable, Restart, Link, Reload, Goto, Following
    <3> QED BY <2>3, <2>4, <3>1, <3>2 DEF R!Shipping
  <2>6. ASSUME NEW a \in Assets, ShipAsset(a)
        PROVE  UNCHANGED R!vars \/ R!Shipping(Operator)
    <3>1. /\ pc = a /\ a \in AllAssets /\ local' = local
          /\ remote' = [remote EXCEPT ![a] = local[a]]
          /\ pc' = "idle" => result' = "ok"
          /\ \A b \in AllAssets : b # a => remote'[b] = remote[b]
          /\ remote'[a] = local[a] /\ local[a] # None
      BY <1>1, <2>6, VersionTypes DEF ShipAsset, Goto, Assets, AllAssets, IInv, TypeOK
    <3>2. Outcome' = Outcome
      BY <2>0, <2>6, <3>1 DEF Outcome
    <3>3. CASE a \in Shipped
      <4>1. Phase = "ship" /\ remote'["config"] = remote["config"]
        BY <3>1, <3>3, ShippedAssets DEF Phase
      <4>2. pc' \notin {"idle", "extra"}
        BY <2>6, <3>3 DEF ShipAsset, Goto, Following, Trigger, Shipped, Assets
      <4>3. CASE pc' = "config"
        BY <2>4, <3>1, <4>1, <4>3 DEF R!Shipping
      <4>4. CASE pc' # "config"
        <5>1. Phase' = "ship"
          BY <4>2, <4>4 DEF Phase
        <5> QED BY <1>1, <3>1, <3>2, <3>3, <4>1, <5>1, SomeMaps DEF R!Shipping
      <4> QED BY <4>3, <4>4
    <3>4. CASE a = "config"
      <4>1. Phase = "put" /\ Phase' \in {"rest", "save"}
        BY <2>6, <3>1, <3>4 DEF Phase, ShipAsset, Goto, Following, Trigger
      <4>2. \A b \in Shipped : remote'[b] = remote[b]
        BY <3>1, <3>4, ShippedAssets
      <4> QED BY <3>1, <3>2, <3>4, <4>1, <4>2, ConfigMaps DEF R!Shipping
    <3>5. CASE a = "extra"
      <4>1. Phase = "rest" /\ Phase' = "save"
        BY <2>6, <3>1, <3>5 DEF Phase, ShipAsset, Goto, Following, Trigger
      <4>2. \A b \in Shipped \cup {"config"} : remote'[b] = remote[b]
        BY <3>1, <3>5, ShippedAssets
      <4> QED BY <3>1, <3>2, <4>1, <4>2, RestMaps DEF R!Shipping
    <3> QED BY <3>3, <3>4, <3>5 DEF Shipped
  <2> QED
    BY <1>1, <2>1, <2>2, <2>5, <2>6 DEF Next, Edit, Deploy
<1> QED BY <1>1, AlwaysIInv, PTL DEF Spec, DeploysShip
=============================================================================
