-------------------------- MODULE ServiceRegistry --------------------------
(***************************************************************************)
(* One server and what "smt install", "smt deploy" and "smt service" do to *)
(* it over SSH: the smt binary, the registry /etc/smt/smt.config (service  *)
(* name -> directory), each service's config.json and running assets, and  *)
(* the secrets volumes a deploy makes sure of.  Each process of Procs is   *)
(* an operator running one command after another; nothing on the server    *)
(* keeps two of them apart, and each remote shell command is a step.       *)
(***************************************************************************)
EXTENDS InPlaceFile, DockerVolumes, Naturals

CONSTANTS Procs,        \* operators
          Services,     \* service names
          Paths,        \* directories of services
          DefaultPath,  \* [Services -> Paths]: /etc/smt/<name>
          NoPath,       \* a service that is not registered
          Contents,     \* what a directory may hold of a service's assets
          NoAssets,     \* nothing of them
          Configs,      \* contents of a config.json
          NoConfig,     \* no config.json
          Cut,          \* one that a transfer left broken off
          Versions,     \* deployable versions: their assets and config.json
          Commands,     \* the command lines the operators may give
          HandRegistries \* registries an administrator may have written

ServiceActions == {"list", "start", "stop", "restart", "status", "remove"}

(* Every project has a volume: LoadProjectConfig refuses an empty name.    *)
DeployCommand == [kind : {"deploy"}, name : Services, vol : Volumes,
                  version : Versions, show : BOOLEAN, dryRun : BOOLEAN]

ServiceCommand == [kind : {"service"}, name : Services, action : ServiceActions]

InstallCommand == [kind : {"install"}, force : BOOLEAN]

Command == DeployCommand \cup ServiceCommand \cup InstallCommand

Registry == [Services -> Paths \cup {NoPath}]

Registered(r) == {s \in Services : r[s] # NoPath}

(* The nil map that json.Unmarshal leaves for {}, without the make().      *)
NilRegistry == [s \in {} |-> NoPath]

EmptyRegistry == [s \in Services |-> NoPath]

ASSUME ConstantsAssumption ==
    /\ DefaultPath \in [Services -> Paths]
    /\ NoPath \notin Paths
    /\ NoAssets \in Contents
    /\ NoConfig \notin Configs /\ Cut \notin Configs \cup {NoConfig}
    /\ Versions \subseteq [assets : Contents, config : Configs]
    /\ Services # {} /\ Versions # {}
    /\ Commands \subseteq Command
    /\ HandRegistries \subseteq Registry

VARIABLES bindir,   \* the install directory exists
          binary,   \* smt on the server: "absent", "partial" or "whole"
          etc,      \* /etc/smt exists
          reg,      \* /etc/smt/smt.config
          svc,      \* svc[x]: config.json in the directory x
          live,     \* live[x]: the other assets in x, units and site included
          volumes,  \* Docker volumes
          pc,       \* where each operator's command is
          cmd,      \* the command it runs
          mem,      \* the registry it has loaded
          path,     \* the directory it deploys to
          result    \* how its last command ended, "none" while one runs

server == <<bindir, binary, etc, reg, svc, live, volumes>>
vars == <<bindir, binary, etc, reg, svc, live, volumes, pc, cmd, mem, path, result>>

PCs == {"idle", "ensure", "test", "init", "initing", "read", "find", "ship",
        "put", "rest", "save", "saving", "act", "instdir", "instbin", "send",
        "transfer", "mkdir"}

Results == {"none", "ok", "no-dir", "transfer-error", "init-error",
            "unreadable", "unparsable", "unregistered", "no-config",
            "ship-error", "write-error", "command-error", "killed"}

Goto(p, l) == pc' = [pc EXCEPT ![p] = l] /\ UNCHANGED result

(* The process exits, and what it had loaded goes with it.                 *)
End(p, r) == /\ pc' = [pc EXCEPT ![p] = "idle"]
             /\ result' = [result EXCEPT ![p] = r]
             /\ mem' = [mem EXCEPT ![p] = EmptyRegistry]
             /\ path' = [path EXCEPT ![p] = NoPath]

Continue(p, l) == Goto(p, l) /\ UNCHANGED <<mem, path>>

Is(p, kind) == cmd[p].kind = kind

Preview(p) == cmd[p].show \/ cmd[p].dryRun
-----------------------------------------------------------------------------
(* A server no one has installed smt on, or one with a registry to which   *)
(* an administrator has added services, with or without a config.json.     *)
Init ==
    /\ bindir \in BOOLEAN
    /\ binary = "absent"
    /\ volumes \in SUBSET Volumes
    /\ live = [x \in Paths |-> NoAssets]
    /\ \/ /\ etc = FALSE
          /\ reg = Absent(EmptyRegistry)
          /\ svc = [x \in Paths |-> NoConfig]
       \/ /\ etc = TRUE
          /\ \E r \in HandRegistries : reg = Holding(r)
          /\ svc \in [Paths -> {NoConfig} \cup {v.config : v \in Versions}]
    /\ pc = [p \in Procs |-> "idle"]
    /\ cmd = [p \in Procs |-> [kind |-> "install", force |-> FALSE]]
    /\ mem = [p \in Procs |-> EmptyRegistry]
    /\ path = [p \in Procs |-> NoPath]
    /\ result = [p \in Procs |-> "none"]

Begin(p, c) ==
    /\ pc[p] = "idle"
    /\ cmd' = [cmd EXCEPT ![p] = c]
    /\ pc' = [pc EXCEPT ![p] = CASE c.kind = "install" -> "instdir"
                                 [] c.kind = "service" -> "read"
                                 [] c.kind = "deploy"  -> "ensure"]
    /\ result' = [result EXCEPT ![p] = "none"]
    /\ UNCHANGED <<server, mem, path>>

(* -dry-run not passed on.                                                 *)
EnsureOnDryRuns(p) ==
    /\ pc[p] = "ensure"
    /\ volumes' = Ensured(volumes, cmd[p].vol)
    /\ Continue(p, "test")
    /\ UNCHANGED <<bindir, binary, etc, reg, svc, live, cmd>>

(* Deploying makes sure of the project's secrets volume first; only        *)
(* -dry-run, not -show, keeps it from being created.                       *)
EnsureVolume(p) ==
    /\ pc[p] = "ensure"
    /\ volumes' = IF cmd[p].dryRun THEN volumes ELSE Ensured(volumes, cmd[p].vol)
    /\ Continue(p, "test")
    /\ UNCHANGED <<bindir, binary, etc, reg, svc, live, cmd>>

(* Without the test.                                                       *)
InitAlways(p) ==
    /\ pc[p] = "test"
    /\ Continue(p, "init")
    /\ UNCHANGED <<server, cmd>>

(* test -s instead of test -f: an empty file counts as missing.            *)
TestNonEmpty(p) ==
    /\ pc[p] = "test"
    /\ IF reg.state \in {"absent", "empty"} THEN Continue(p, "init")
       ELSE IF Is(p, "install") THEN End(p, "ok") ELSE Continue(p, "read")
    /\ UNCHANGED <<server, cmd>>

(* test -f smt.config || (echo '{}' > smt.config)                          *)
TestRegistry(p) ==
    /\ pc[p] = "test"
    /\ IF reg.state = "absent" THEN Continue(p, "init")
       ELSE IF Is(p, "install") THEN End(p, "ok") ELSE Continue(p, "read")
    /\ UNCHANGED <<server, cmd>>

InitRegistry(p) ==
    /\ pc[p] = "init"
    /\ IF etc THEN reg' = Truncated(reg) /\ Continue(p, "initing")
       ELSE End(p, "init-error") /\ UNCHANGED reg
    /\ UNCHANGED <<bindir, binary, etc, svc, live, volumes, cmd>>

WriteEmptyRegistry(p) ==
    /\ pc[p] = "initing"
    /\ reg' \in Overwrites(reg, EmptyRegistry)
    /\ IF Is(p, "install") THEN End(p, "ok") ELSE Continue(p, "read")
    /\ UNCHANGED <<bindir, binary, etc, svc, live, volumes, cmd>>

ReadRegistry(p) ==
    /\ pc[p] = "read"
    /\ \/ /\ reg.state = "ok"
          /\ mem' = [mem EXCEPT ![p] = reg.data]
          /\ Goto(p, IF Is(p, "deploy") THEN "find" ELSE "act")
          /\ UNCHANGED path
       \/ Broken(reg) /\ End(p, "unparsable")
       \/ reg.state = "absent" /\ End(p, "unreadable")
    /\ UNCHANGED <<server, cmd>>

(* A config.json that cannot be parsed taken for a missing one.            *)
FindLeniently(p) ==
    /\ pc[p] = "find"
    /\ LET x == mem[p][cmd[p].name] IN
       \/ x = NoPath /\ End(p, "unregistered")
       \/ /\ x # NoPath
          /\ path' = [path EXCEPT ![p] = IF svc[x] \in {NoConfig, Cut}
                                         THEN DefaultPath[cmd[p].name] ELSE x]
          /\ Goto(p, "ship")
          /\ UNCHANGED mem
    /\ UNCHANGED <<server, cmd>>

(* LoadServiceDefinition with ignoreIfMissing: a registered service whose  *)
(* config.json is missing goes to the default path instead.                *)
FindService(p) ==
    /\ pc[p] = "find"
    /\ LET x == mem[p][cmd[p].name] IN
       \/ x = NoPath /\ End(p, "unregistered")
       \/ x # NoPath /\ svc[x] = Cut /\ End(p, "unparsable")
       \/ /\ x # NoPath /\ svc[x] # Cut
          /\ path' = [path EXCEPT ![p] = IF svc[x] = NoConfig
                                         THEN DefaultPath[cmd[p].name] ELSE x]
          /\ Goto(p, "ship")
          /\ UNCHANGED mem
    /\ UNCHANGED <<server, cmd>>

(* The assets everywhere, where those in x have become one of S.           *)
Shipped(x, S) == {l \in [Paths -> Contents] :
                    l[x] \in S /\ \A y \in Paths \ {x} : l[y] = live[y]}

(* Compose file, unit files, images, nginx sites, one after the other.     *)
ShipSome(p) ==
    /\ pc[p] = "ship" /\ ~Preview(p)
    /\ live' \in Shipped(path[p], Contents \ {NoAssets})
    /\ UNCHANGED <<bindir, binary, etc, reg, svc, volumes, pc, cmd, mem, path, result>>

(* -dry-run not passed on to the runner.                                   *)
ShipDryRuns(p) ==
    /\ pc[p] = "ship"
    /\ \/ cmd[p].show /\ End(p, "ok") /\ UNCHANGED live
       \/ /\ ~cmd[p].show
          /\ live' = [live EXCEPT ![path[p]] = cmd[p].version.assets]
          /\ Continue(p, "put")
    /\ UNCHANGED <<bindir, binary, etc, reg, svc, volumes, cmd>>

(* All of them are there, those that another operator has replaced in the  *)
(* meantime excepted.  A preview ends here.                                *)
Ship(p) ==
    /\ pc[p] = "ship"
    /\ \/ Preview(p) /\ End(p, "ok") /\ UNCHANGED live
       \/ /\ ~Preview(p)
          /\ live' \in Shipped(path[p], IF Procs = {p} THEN {cmd[p].version.assets}
                                        ELSE Contents \ {NoAssets})
          /\ Continue(p, "put")
    /\ UNCHANGED <<bindir, binary, etc, reg, svc, volumes, cmd>>

(* The service-config-json asset, the last of the manifest the tool itself *)
(* relies on; additional assets may follow it.                             *)
PutConfig(p) ==
    /\ pc[p] = "put"
    /\ svc' = [svc EXCEPT ![path[p]] = cmd[p].version.config]
    /\ Continue(p, "rest") \/ Continue(p, "save")
    /\ UNCHANGED <<bindir, binary, etc, reg, live, volumes, cmd>>

ShipRest(p) ==
    /\ pc[p] = "rest"
    /\ Continue(p, "save")
    /\ UNCHANGED <<server, cmd>>

(* What a deploy that stops at pc[p] leaves of what it was shipping.       *)
HalfShipped(p) ==
    \/ UNCHANGED <<live, svc>>
    \/ /\ pc[p] = "ship" /\ ~Preview(p)
       /\ live' \in Shipped(path[p], Contents \ {NoAssets})
       /\ UNCHANGED svc
    \/ /\ pc[p] = "put"
       /\ \E c \in {cmd[p].version.config, Cut} : svc' = [svc EXCEPT ![path[p]] = c]
       /\ UNCHANGED live

ShipFails(p) ==
    /\ pc[p] \in {"ship", "put", "rest"} /\ ~Preview(p)
    /\ HalfShipped(p)
    /\ End(p, "ship-error")
    /\ UNCHANGED <<bindir, binary, etc, reg, volumes, cmd>>

(* The path that was found is not the one that is recorded.                *)
SaveAsLoaded(p) ==
    /\ pc[p] = "save"
    /\ reg' = Truncated(reg)
    /\ Continue(p, "saving")
    /\ UNCHANGED <<bindir, binary, etc, svc, live, volumes, cmd>>

(* The path recorded under some registered name, not this service's.       *)
SaveAnyName(p) ==
    /\ pc[p] = "save"
    /\ \E s \in Registered(mem[p]) : mem' = [mem EXCEPT ![p][s] = path[p]]
    /\ reg' = Truncated(reg)
    /\ Goto(p, "saving")
    /\ UNCHANGED <<bindir, binary, etc, svc, live, volumes, cmd, path>>

(* The whole registry, as loaded, with this service's path.                *)
SaveRegistry(p) ==
    /\ pc[p] = "save"
    /\ mem' = [mem EXCEPT ![p][cmd[p].name] = path[p]]
    /\ reg' = Truncated(reg)
    /\ Goto(p, "saving")
    /\ UNCHANGED <<bindir, binary, etc, svc, live, volumes, cmd, path>>

WriteRegistry(p) ==
    /\ pc[p] = "saving"
    /\ reg' \in Overwrites(reg, mem[p])
    /\ End(p, "ok")
    /\ UNCHANGED <<bindir, binary, etc, svc, live, volumes, cmd>>

WriteFails(p) ==
    /\ pc[p] \in {"initing", "saving"}
    /\ reg' \in FailedWrites(reg)
    /\ End(p, IF pc[p] = "saving" THEN "write-error" ELSE "init-error")
    /\ UNCHANGED <<bindir, binary, etc, svc, live, volumes, cmd>>

(* "smt service".  Go's switch does not fall through: -start, -stop and    *)
(* -restart are empty cases, and -remove prints that it is not supported.  *)
ServiceAction(p) ==
    /\ pc[p] = "act"
    /\ LET x == mem[p][cmd[p].name] IN
       IF cmd[p].action # "status" THEN End(p, "ok")
       ELSE IF x = NoPath THEN End(p, "unregistered")
       ELSE IF svc[x] = NoConfig THEN End(p, "no-config")
       ELSE IF svc[x] = Cut THEN End(p, "unparsable")
       ELSE \E r \in {"ok", "command-error"} : End(p, r)
    /\ UNCHANGED <<server, cmd>>

(* test -d, or mkdir -p with -force.                                       *)
InstallDir(p) ==
    /\ pc[p] = "instdir"
    /\ bindir' = (bindir \/ cmd[p].force)
    /\ IF bindir' THEN Continue(p, "instbin") ELSE End(p, "no-dir")
    /\ UNCHANGED <<binary, etc, reg, svc, live, volumes, cmd>>

(* -force forgotten.                                                       *)
TestAbsent(p) ==
    /\ pc[p] = "instbin"
    /\ Continue(p, IF binary = "absent" THEN "send" ELSE "mkdir")
    /\ UNCHANGED <<server, cmd>>

(* Transferred whatever the test says.                                     *)
TestIgnored(p) ==
    /\ pc[p] = "instbin"
    /\ Continue(p, "send")
    /\ UNCHANGED <<server, cmd>>

(* test -e: what is there may be half a binary.                            *)
TestBinary(p) ==
    /\ pc[p] = "instbin"
    /\ Continue(p, IF binary = "absent" \/ cmd[p].force THEN "send" ELSE "mkdir")
    /\ UNCHANGED <<server, cmd>>

StartTransfer(p) ==
    /\ pc[p] = "send"
    /\ \/ binary' = "partial" /\ Continue(p, "transfer")
       \/ End(p, "transfer-error") /\ UNCHANGED binary
    /\ UNCHANGED <<bindir, etc, reg, svc, live, volumes, cmd>>

Transfer(p) ==
    /\ pc[p] = "transfer"
    /\ \/ binary' = "whole" /\ Continue(p, "mkdir")
       \/ End(p, "transfer-error") /\ UNCHANGED binary
    /\ UNCHANGED <<bindir, etc, reg, svc, live, volumes, cmd>>

MakeEtc(p) ==
    /\ pc[p] = "mkdir"
    /\ etc' = TRUE
    /\ Continue(p, "test")
    /\ UNCHANGED <<bindir, binary, reg, svc, live, volumes, cmd>>

(* The command dies.                                                       *)
Crash(p) ==
    /\ pc[p] # "idle"
    /\ HalfShipped(p)
    /\ End(p, "killed")
    /\ UNCHANGED <<bindir, binary, etc, reg, volumes, cmd>>

(* Somebody's secrets command on this server makes a volume.               *)
SecretsElsewhere ==
    /\ \E v \in Volumes : volumes' \in {Ensured(volumes, v), Mounted(volumes, v)}
    /\ UNCHANGED <<bindir, binary, etc, reg, svc, live, pc, cmd, mem, path, result>>

Shipping(p) == ShipSome(p) \/ Ship(p) \/ PutConfig(p) \/ ShipRest(p) \/ ShipFails(p)

DeployStep(p) == \/ EnsureVolume(p) \/ FindService(p) \/ Shipping(p)
                 \/ SaveRegistry(p) \/ WriteRegistry(p)

InstallStep(p) == \/ InstallDir(p) \/ TestBinary(p) \/ StartTransfer(p)
                  \/ Transfer(p) \/ MakeEtc(p)

RegistryStep(p) == \/ TestRegistry(p) \/ InitRegistry(p) \/ WriteEmptyRegistry(p)
                   \/ ReadRegistry(p) \/ WriteFails(p)

Step(p) == DeployStep(p) \/ InstallStep(p) \/ RegistryStep(p) \/ ServiceAction(p)

Own == \E p \in Procs : (\E c \in Commands : Begin(p, c)) \/ Step(p) \/ Crash(p)

Next == Own \/ SecretsElsewhere

Spec == Init /\ [][Next]_vars
-----------------------------------------------------------------------------
TypeOK ==
    /\ bindir \in BOOLEAN /\ etc \in BOOLEAN
    /\ binary \in {"absent", "partial", "whole"}
    /\ reg \in File(Registry)
    /\ svc \in [Paths -> Configs \cup {NoConfig, Cut}]
    /\ live \in [Paths -> Contents]
    /\ volumes \subseteq Volumes
    /\ pc \in [Procs -> PCs]
    /\ cmd \in [Procs -> Command]
    /\ mem \in [Procs -> Registry]
    /\ path \in [Procs -> Paths \cup {NoPath}]
    /\ result \in [Procs -> Results]

(* Two deploys may each save the registry the other has not seen           *)
(* (deploy.go 142 and 187), and two first commands may each find it        *)
(* missing (server.go 20): a service's path may go back, but no registered *)
(* service is ever forgotten - and none is ever added, deploys included.   *)
ServicesStay == [][Registered(reg'.data) = Registered(reg.data)]_vars

(* However deploys overlap, each service is where an administrator put it  *)
(* or in its own default directory, as the same administrator left it: no  *)
(* save of a stale copy gives a service a directory of another (deploy.go  *)
(* 152 and 185).                                                           *)
PathsAreKnown ==
    \E h \in HandRegistries \cup {EmptyRegistry} : \A s \in Services :
        reg.data[s] \in {h[s]} \cup (IF h[s] = NoPath THEN {} ELSE {DefaultPath[s]})

(* What a preview does on the server, at most: no asset, no config.json    *)
(* and no registration - from -dry-run not even a volume.                  *)
PreviewsShipNothing ==
    [][\A p \in Procs :
         /\ pc[p] # "idle" /\ pc'[p] # pc[p]
         /\ Is(p, "deploy") /\ Preview(p)
         => /\ UNCHANGED <<live, svc>>
            /\ reg.state # "absent" => reg'.data = reg.data
            /\ cmd[p].dryRun => UNCHANGED volumes]_vars

(* The registry cannot be parsed, and no command holds a copy or is about  *)
(* to write one.                                                           *)
Wedged ==
    /\ Broken(reg)
    /\ \A p \in Procs : pc[p] \notin {"init", "initing", "find", "ship", "put",
                                      "rest", "save", "saving"}

(* A registry save cut between the shell's truncation and base64's output  *)
(* (server.go 44) ends every deploy and service command on the server, and *)
(* neither -force nor another install repairs it: test -f is satisfied.    *)
WedgeIsPermanent == [][Wedged => Wedged']_vars

(* No deploy can put a config.json in x: the one that is there was cut     *)
(* off, x is the directory of every service that has it as its default     *)
(* one - in the registry and in the copies the operators hold - and no     *)
(* deploy is past the look-up that would have failed.                      *)
Blocked(x) ==
    /\ svc[x] = Cut
    /\ \A s \in Services : DefaultPath[s] = x =>
         /\ reg.data[s] \in {x, NoPath}
         /\ \A p \in Procs : mem[p][s] \in {x, NoPath}
    /\ \A p \in Procs : pc[p] \in {"ship", "put", "rest", "save", "saving"} =>
                          path[p] # x

(* A config.json cut off in a transfer (server.go 71) ends every later     *)
(* deploy of its service at the look-up, and so the deploy that would have *)
(* replaced it: no sequence of commands, of one operator or of several,    *)
(* mends it.                                                               *)
CutConfigBlocks == [][\A x \in Paths : Blocked(x) => Blocked(x)']_vars

(* Half a binary, and nobody about to replace it.                          *)
HalfBinary ==
    /\ binary = "partial"
    /\ \A p \in Procs : /\ pc[p] \notin {"send", "transfer"}
                        /\ pc[p] \in {"instdir", "instbin"} => ~cmd[p].force

(* What an interrupted transfer leaves is taken for an installed binary by *)
(* every install (install.go 44), until one is run with -force.            *)
HalfBinaryIsKept ==
    [][HalfBinary =>
         \/ HalfBinary'
         \/ \E p \in Procs : pc[p] = "idle" /\ pc'[p] = "instdir" /\ cmd'[p].force]_vars

(* After a deploy that succeeded, with no other operator: the registry     *)
(* leads from the service to the directory that holds this version, its    *)
(* config.json included, also when the path moved to the default one and   *)
(* whatever earlier commands left half done; and the project's volume is   *)
(* there, if no other volume's name contains its.                          *)
DeployOkIsUsable ==
    \A p \in Procs :
        pc[p] = "idle" /\ result[p] = "ok" /\ Is(p, "deploy") /\ ~Preview(p) =>
            LET x == reg.data[cmd[p].name] IN
            /\ reg.state = "ok"
            /\ x # NoPath
            /\ svc[x] = cmd[p].version.config
            /\ live[x] = cmd[p].version.assets
            /\ cmd[p].vol \in volumes

(* After an install that succeeded, with no other operator: there is an    *)
(* smt.config for the other commands, and with -force the binary is whole, *)
(* even if an earlier install broke off while it transferred one.          *)
InstallOkIsComplete ==
    \A p \in Procs :
        pc[p] = "idle" /\ result[p] = "ok" /\ Is(p, "install") =>
            /\ bindir /\ etc /\ reg.state # "absent"
            /\ binary # "absent"
            /\ cmd[p].force => binary = "whole"
=============================================================================
