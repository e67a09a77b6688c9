----------------------- MODULE ServiceRegistryProofs -----------------------
(***************************************************************************)
(* ServiceRegistry for every number of operators, services, directories    *)
(* and volumes.                                                            *)
(***************************************************************************)
EXTENDS ServiceRegistryOverlap, TLAPS

USE DEF ServiceActions

(* The kind of command c that can be at l.                                 *)
KindFits(l, c) ==
    /\ l \in {"ensure", "find", "ship", "put", "rest", "save", "saving"} =>
         c.kind = "deploy"
    /\ l = "act" => c.kind = "service"
    /\ l \in {"instdir", "instbin", "send", "transfer", "mkdir"} =>
         c.kind = "install"
    /\ l \in {"test", "init", "initing"} => c.kind # "service"
    /\ l = "read" => c.kind # "install"

(* A deploy that has found its service has a directory to put it in.       *)
PathFits(l, c, m, x) ==
    l \in {"ship", "put", "rest", "save", "saving"} => x \in Paths /\ m[c.name] # NoPath

(* A registry is initialised only while no service is registered.          *)
FreshFits(l) == l \in {"init", "initing"} => Registered(reg.data) = {}

(* Every copy under way registers what the registry does: commands move    *)
(* services, none adds or removes one.                                     *)
CopyFits(l, m) ==
    l \in {"act", "find", "ship", "put", "rest", "save", "saving"} =>
        Registered(m) = Registered(reg.data)

Fits(l, c, m, x) ==
    KindFits(l, c) /\ PathFits(l, c, m, x) /\ FreshFits(l) /\ CopyFits(l, m)

IInv == /\ TypeOK
        /\ reg.state = "absent" => Registered(reg.data) = {}
        /\ \A p \in Procs : Fits(pc[p], cmd[p], mem[p], path[p])

ServerOK ==
    /\ bindir \in BOOLEAN /\ etc \in BOOLEAN
    /\ binary \in {"absent", "partial", "whole"}
    /\ reg \in File(Registry)
    /\ svc \in [Paths -> Configs \cup {NoConfig, Cut}]
    /\ live \in [Paths -> Contents]
    /\ volumes \subseteq Volumes

(* What every step does to the registry, at most.                          *)
RegistryKept == /\ Registered(reg'.data) = Registered(reg.data)
                /\ reg'.state = "absent" => reg.state = "absent"

ServerKept == ServerOK' /\ RegistryKept
-----------------------------------------------------------------------------
LEMMA KindTypes ==
    ASSUME NEW c \in Command
    PROVE  /\ c.kind \in {"deploy", "service", "install"}
           /\ c.kind = "deploy" => c \in DeployCommand
           /\ c.kind = "service" => c \in ServiceCommand
           /\ c.kind = "install" => c \in InstallCommand
BY DEF Command, DeployCommand, ServiceCommand, InstallCommand

LEMMA EmptyRegistryOK == EmptyRegistry \in Registry /\ Registered(EmptyRegistry) = {}
BY DEF EmptyRegistry, Registry, Registered

(* A registry that registers nothing is the empty one.                     *)
LEMMA NothingRegistered ==
    ASSUME NEW r \in Registry, Registered(r) = {} PROVE r = EmptyRegistry
BY DEF Registry, Registered, EmptyRegistry

(* A write leaves either the last good contents or the new ones.           *)
LEMMA FileWrites ==
    ASSUME NEW D, NEW f \in File(D), NEW d \in D,
           NEW g \in Overwrites(f, d) \cup FailedWrites(f) \cup {Truncated(f)}
    PROVE  /\ g \in File(D) /\ g.data \in {f.data, d}
           /\ g.state = "absent" => f.state = "absent"
BY DEF File, FileStates, Overwrites, FailedWrites, Truncated, Garbled, Holding

LEMMA InitIInv == Init => IInv
<1> SUFFICES ASSUME Init PROVE IInv
  OBVIOUS
<1>1. reg \in File(Registry) /\ (reg.state = "absent" => Registered(reg.data) = {})
  BY EmptyRegistryOK, ConstantsAssumption
  DEF Init, File, FileStates, Absent, Holding
<1>2. svc \in [Paths -> Configs \cup {NoConfig, Cut}] /\ live \in [Paths -> Contents]
  BY ConstantsAssumption DEF Init
<1>3. [kind |-> "install", force |-> FALSE] \in Command
  BY DEF Command, InstallCommand
<1> QED
  BY <1>1, <1>2, <1>3, EmptyRegistryOK
  DEF Init, IInv, TypeOK, Fits, KindFits, PathFits, FreshFits, CopyFits, PCs, Results
-----------------------------------------------------------------------------
(* A step that takes one operator's command to l, with the copy m and the  *)
(* directory x, and leaves the server in order.                            *)
LEMMA MoveKeeps ==
    ASSUME IInv, ServerKept, NEW p \in Procs, NEW l \in PCs, NEW m \in Registry,
           NEW x \in Paths \cup {NoPath}, NEW r \in Results,
           pc' = [pc EXCEPT ![p] = l], mem' = [mem EXCEPT ![p] = m],
           path' = [path EXCEPT ![p] = x], result' = [result EXCEPT ![p] = r],
           cmd' = cmd, Fits(l, cmd[p], m, x)
    PROVE  IInv'
<1>1. TypeOK'
  BY DEF IInv, TypeOK, ServerKept, ServerOK
<1>2. (reg.state = "absent" => Registered(reg.data) = {})'
  BY DEF IInv, ServerKept, RegistryKept
<1>3. ASSUME NEW q \in Procs PROVE Fits(pc[q], cmd[q], mem[q], path[q])'
  <2>1. CASE q = p
    BY <2>1 DEF IInv, TypeOK, ServerKept, RegistryKept, Fits, KindFits, PathFits,
                FreshFits, CopyFits
  <2>2. CASE q # p
    BY <2>2 DEF IInv, TypeOK, ServerKept, RegistryKept, Fits, KindFits, PathFits,
                FreshFits, CopyFits
  <2> QED BY <2>1, <2>2
<1> QED BY <1>1, <1>2, <1>3 DEF IInv

LEMMA EndKeeps ==
    ASSUME IInv, ServerKept, NEW p \in Procs, NEW r \in Results,
           End(p, r), cmd' = cmd
    PROVE  IInv'
<1>1. Fits("idle", cmd[p], EmptyRegistry, NoPath)
  BY DEF Fits, KindFits, PathFits, FreshFits, CopyFits
<1>2. "idle" \in PCs
  BY DEF PCs
<1> QED BY <1>1, <1>2, EmptyRegistryOK, MoveKeeps DEF End

LEMMA ContinueKeeps ==
    ASSUME IInv, ServerKept, NEW p \in Procs, NEW l \in PCs,
           Continue(p, l), cmd' = cmd, Fits(l, cmd[p], mem[p], path[p])
    PROVE  IInv'
<1>1. /\ mem' = [mem EXCEPT ![p] = mem[p]] /\ mem[p] \in Registry
      /\ path' = [path EXCEPT ![p] = path[p]] /\ path[p] \in Paths \cup {NoPath}
      /\ result' = [result EXCEPT ![p] = result[p]] /\ result[p] \in Results
      /\ pc' = [pc EXCEPT ![p] = l]
  BY DEF IInv, TypeOK, Continue, Goto
<1> QED BY <1>1, MoveKeeps

LEMMA StayKeeps ==
    ASSUME IInv, ServerKept, UNCHANGED <<pc, cmd, mem, path, result>>
    PROVE  IInv'
BY DEF IInv, TypeOK, ServerKept, ServerOK, RegistryKept, Fits, KindFits, PathFits,
       FreshFits, CopyFits

(* Steps that leave the server alone.                                      *)
LEMMA QuietKeeps == ASSUME IInv, UNCHANGED server PROVE ServerKept
BY DEF IInv, TypeOK, server, ServerKept, ServerOK, RegistryKept

LEMMA BeginKeeps ==
    ASSUME IInv, NEW p \in Procs, NEW c \in Commands, Begin(p, c) PROVE IInv'
<1>1. c \in Command /\ c.kind \in {"deploy", "service", "install"}
  BY ConstantsAssumption, KindTypes
<1>2. ServerKept
  BY QuietKeeps DEF Begin
<1>3. TypeOK'
  BY <1>1, <1>2 DEF Begin, IInv, TypeOK, ServerKept, ServerOK, PCs, Results
<1>4. ASSUME NEW q \in Procs PROVE Fits(pc[q], cmd[q], mem[q], path[q])'
  BY <1>1, <1>2 DEF Begin, IInv, TypeOK, ServerKept, RegistryKept, Fits, KindFits,
                    PathFits, FreshFits, CopyFits
<1> QED BY <1>2, <1>3, <1>4 DEF IInv, ServerKept, RegistryKept

(* What a shipping deploy leaves of its assets and config.json.            *)
LEMMA ShippedTypes ==
    ASSUME IInv, NEW p \in Procs,
           ShipSome(p) \/ Ship(p) \/ PutConfig(p) \/ ShipRest(p) \/ HalfShipped(p)
    PROVE  /\ svc' \in [Paths -> Configs \cup {NoConfig, Cut}]
           /\ live' \in [Paths -> Contents]
<1>1. /\ svc \in [Paths -> Configs \cup {NoConfig, Cut}]
      /\ live \in [Paths -> Contents]
  BY DEF IInv, TypeOK
<1>2. ASSUME pc[p] = "put" PROVE cmd[p].version.config \in Configs
  <2>1. cmd[p] \in DeployCommand
    BY <1>2, KindTypes DEF IInv, TypeOK, Fits, KindFits
  <2> QED BY <2>1, ConstantsAssumption DEF DeployCommand
<1>3. CASE ShipSome(p)
  BY <1>1, <1>3 DEF ShipSome, Shipped
<1>4. CASE Ship(p)
  BY <1>1, <1>4 DEF Ship, Shipped
<1>5. CASE PutConfig(p)
  BY <1>1, <1>2, <1>5 DEF PutConfig
<1>6. CASE ShipRest(p)
  BY <1>1, <1>6 DEF ShipRest, server
<1>7. CASE HalfShipped(p)
  BY <1>1, <1>2, <1>7 DEF HalfShipped, Shipped
<1> QED BY <1>3, <1>4, <1>5, <1>6, <1>7

LEMMA ShippingKeeps ==
    ASSUME IInv, NEW p \in Procs, Shipping(p) PROVE IInv'
<1> USE DEF Fits, KindFits, PathFits, FreshFits, CopyFits
<1>0. Fits(pc[p], cmd[p], mem[p], path[p])
  BY DEF IInv
<1>1. ServerKept
  <2>1. /\ svc' \in [Paths -> Configs \cup {NoConfig, Cut}]
        /\ live' \in [Paths -> Contents]
    BY ShippedTypes DEF Shipping, ShipFails
  <2>2. UNCHANGED <<bindir, binary, etc, reg, volumes>>
    BY DEF Shipping, ShipSome, Ship, PutConfig, ShipRest, ShipFails, server
  <2> QED BY <2>1, <2>2 DEF IInv, TypeOK, ServerKept, ServerOK, RegistryKept
<1>2. CASE ShipSome(p)
  BY <1>1, <1>2, StayKeeps DEF ShipSome
<1>3. CASE Ship(p)
  BY <1>0, <1>1, <1>3, EndKeeps, ContinueKeeps DEF Ship, PCs, Results
<1>4. CASE PutConfig(p)
  BY <1>0, <1>1, <1>4, ContinueKeeps DEF PutConfig, PCs
<1>5. CASE ShipRest(p)
  BY <1>0, <1>1, <1>5, ContinueKeeps DEF ShipRest, PCs
<1>6. CASE ShipFails(p)
  BY <1>1, <1>6, EndKeeps DEF ShipFails, Results
<1> QED BY <1>2, <1>3, <1>4, <1>5, <1>6 DEF Shipping

LEMMA DeployKeeps ==
    ASSUME IInv, NEW p \in Procs, DeployStep(p) PROVE IInv'
<1> USE DEF Fits, KindFits, PathFits, FreshFits, CopyFits
<1>0. Fits(pc[p], cmd[p], mem[p], path[p]) /\ cmd[p] \in Command
  BY DEF IInv, TypeOK
<1>1. ASSUME pc[p] \in {"ensure", "find", "ship", "put", "rest", "save", "saving"}
      PROVE  /\ cmd[p].name \in Services /\ cmd[p].vol \in Volumes
             /\ cmd[p].version \in Versions
  BY <1>0, <1>1, KindTypes DEF DeployCommand
<1>2. CASE EnsureVolume(p)
  <2>1. ServerKept
    BY <1>1, <1>2 DEF EnsureVolume, Ensured, IInv, TypeOK, ServerKept, ServerOK,
                      RegistryKept
  <2> QED BY <1>0, <1>2, <2>1, ContinueKeeps DEF EnsureVolume, PCs
<1>3. CASE FindService(p)
  <2> DEFINE x == mem[p][cmd[p].name]
  <2>1. ServerKept /\ x \in Paths \cup {NoPath}
        /\ DefaultPath[cmd[p].name] \in Paths
    <3>1. ServerKept
      BY <1>3, QuietKeeps DEF FindService
    <3>2. cmd[p].name \in Services
      BY <1>1, <1>3 DEF FindService
    <3> QED BY <3>1, <3>2, ConstantsAssumption DEF IInv, TypeOK, Registry
  <2>2. CASE \E r \in Results : End(p, r)
    BY <1>3, <2>1, <2>2, EndKeeps DEF FindService
  <2>3. ASSUME NEW y \in Paths, x # NoPath, path' = [path EXCEPT ![p] = y],
               Goto(p, "ship"), UNCHANGED mem
        PROVE  IInv'
    <3>1. /\ mem' = [mem EXCEPT ![p] = mem[p]] /\ mem[p] \in Registry
          /\ result' = [result EXCEPT ![p] = result[p]] /\ result[p] \in Results
          /\ pc' = [pc EXCEPT ![p] = "ship"] /\ "ship" \in PCs
          /\ cmd' = cmd
      BY <1>3, <2>3 DEF FindService, IInv, TypeOK, Goto, PCs
    <3>2. Fits("ship", cmd[p], mem[p], y)
      BY <1>0, <1>3, <2>3 DEF FindService
    <3> QED BY <2>1, <2>3, <3>1, <3>2, MoveKeeps
  <2> QED BY <1>3, <2>1, <2>2, <2>3 DEF FindService, Results
<1>4. CASE Shipping(p)
  BY <1>4, ShippingKeeps
<1>6. CASE SaveRegistry(p)
  <2> DEFINE m == [mem[p] EXCEPT ![cmd[p].name] = path[p]]
  <2>1. reg' \in File(Registry) /\ reg'.data = reg.data /\ reg'.state # "absent"
    BY <1>6 DEF SaveRegistry, Truncated, IInv, TypeOK, File, FileStates
  <2>2. ServerKept
    BY <1>6, <2>1 DEF SaveRegistry, IInv, TypeOK, ServerKept, ServerOK, RegistryKept
  <2>3. m \in Registry /\ m[cmd[p].name] # NoPath /\ Registered(m) = Registered(mem[p])
    BY <1>0, <1>1, <1>6, ConstantsAssumption
    DEF SaveRegistry, IInv, TypeOK, Registry, Registered
  <2>4. /\ pc' = [pc EXCEPT ![p] = "saving"] /\ "saving" \in PCs
        /\ mem' = [mem EXCEPT ![p] = m]
        /\ path' = [path EXCEPT ![p] = path[p]] /\ path[p] \in Paths \cup {NoPath}
        /\ result' = [result EXCEPT ![p] = result[p]] /\ result[p] \in Results
        /\ cmd' = cmd
    BY <1>6 DEF SaveRegistry, Goto, IInv, TypeOK, PCs
  <2>5. Fits("saving", cmd[p], m, path[p])
    BY <1>0, <1>6, <2>3 DEF SaveRegistry
  <2> HIDE DEF m
  <2> QED BY <2>2, <2>3, <2>4, <2>5, MoveKeeps
<1>7. CASE WriteRegistry(p)
  <2>1. /\ reg' \in File(Registry) /\ reg'.data \in {reg.data, mem[p]}
        /\ reg'.state = "absent" => reg.state = "absent"
    BY <1>7, FileWrites DEF WriteRegistry, IInv, TypeOK
  <2>2. ServerKept
    BY <1>0, <1>7, <2>1
    DEF WriteRegistry, IInv, TypeOK, ServerKept, ServerOK, RegistryKept
  <2> QED BY <1>7, <2>2, EndKeeps DEF WriteRegistry, Results
<1> QED BY <1>2, <1>3, <1>4, <1>6, <1>7 DEF DeployStep

LEMMA InstallKeeps ==
    ASSUME IInv, NEW p \in Procs, InstallStep(p) PROVE IInv'
<1> USE DEF Fits, KindFits, PathFits, FreshFits, CopyFits
<1>0. Fits(pc[p], cmd[p], mem[p], path[p])
  BY DEF IInv
<1>1. CASE InstallDir(p)
  <2>1. bindir' \in BOOLEAN
    BY <1>1, KindTypes, <1>0
    DEF InstallDir, IInv, TypeOK, InstallCommand
  <2>2. ServerKept
    BY <1>1, <2>1 DEF InstallDir, IInv, TypeOK, ServerKept, ServerOK, RegistryKept
  <2> QED BY <1>0, <1>1, <2>2, EndKeeps, ContinueKeeps DEF InstallDir, PCs, Results
<1>2. CASE TestBinary(p)
  <2>1. ServerKept
    BY <1>2, QuietKeeps DEF TestBinary
  <2> QED BY <1>0, <1>2, <2>1, ContinueKeeps DEF TestBinary, PCs
<1>5. CASE StartTransfer(p)
  <2>1. ServerKept
    BY <1>5 DEF StartTransfer, IInv, TypeOK, ServerKept, ServerOK, RegistryKept
  <2> QED BY <1>0, <1>5, <2>1, EndKeeps, ContinueKeeps DEF StartTransfer, PCs, Results
<1>3. CASE Transfer(p)
  <2>1. ServerKept
    BY <1>3 DEF Transfer, IInv, TypeOK, ServerKept, ServerOK, RegistryKept
  <2> QED BY <1>0, <1>3, <2>1, EndKeeps, ContinueKeeps DEF Transfer, PCs, Results
<1>4. CASE MakeEtc(p)
  <2>1. ServerKept
    BY <1>4 DEF MakeEtc, IInv, TypeOK, ServerKept, ServerOK, RegistryKept
  <2> QED BY <1>0, <1>4, <2>1, ContinueKeeps DEF MakeEtc, PCs
<1> QED BY <1>1, <1>2, <1>3, <1>4, <1>5 DEF InstallStep

LEMMA RegistryKeeps ==
    ASSUME IInv, NEW p \in Procs, RegistryStep(p) PROVE IInv'
<1> USE DEF Fits, KindFits, PathFits, FreshFits, CopyFits
<1>0. /\ Fits(pc[p], cmd[p], mem[p], path[p])
      /\ cmd[p].kind \in {"deploy", "service", "install"}
  BY KindTypes DEF IInv, TypeOK
<1>1. CASE TestRegistry(p)
  <2>1. ServerKept
    BY <1>1, QuietKeeps DEF TestRegistry
  <2>2. reg.state = "absent" => Registered(reg.data) = {}
    BY DEF IInv
  <2> QED BY <1>0, <1>1, <2>1, <2>2, EndKeeps, ContinueKeeps
          DEF TestRegistry, Is, PCs, Results
<1>2. CASE InitRegistry(p)
  <2>1. /\ reg' \in File(Registry) /\ reg'.data = reg.data
        /\ reg'.state = "absent" => reg.state = "absent"
    BY <1>2 DEF InitRegistry, Truncated, IInv, TypeOK, File, FileStates
  <2>2. ServerKept
    BY <1>2, <2>1 DEF InitRegistry, IInv, TypeOK, ServerKept, ServerOK, RegistryKept
  <2> QED BY <1>0, <1>2, <2>2, EndKeeps, ContinueKeeps DEF InitRegistry, PCs, Results
<1>3. CASE WriteEmptyRegistry(p)
  <2>1. /\ reg' \in File(Registry) /\ reg'.data \in {reg.data, EmptyRegistry}
        /\ reg'.state = "absent" => reg.state = "absent"
    BY <1>3, FileWrites, EmptyRegistryOK DEF WriteEmptyRegistry, IInv, TypeOK
  <2>2. Registered(reg.data) = {} /\ Registered(EmptyRegistry) = {}
    BY <1>0, <1>3, EmptyRegistryOK DEF WriteEmptyRegistry
  <2>3. ServerKept
    BY <1>3, <2>1, <2>2
    DEF WriteEmptyRegistry, IInv, TypeOK, ServerKept, ServerOK, RegistryKept
  <2> QED BY <1>0, <1>3, <2>3, EndKeeps, ContinueKeeps
          DEF WriteEmptyRegistry, Is, PCs, Results
<1>4. CASE ReadRegistry(p)
  <2>1. ServerKept
    BY <1>4, QuietKeeps DEF ReadRegistry
  <2>2. CASE \E r \in Results : End(p, r)
    BY <1>4, <2>1, <2>2, EndKeeps DEF ReadRegistry
  <2>3. ASSUME NEW l \in {"find", "act"}, l = IF Is(p, "deploy") THEN "find" ELSE "act",
               mem' = [mem EXCEPT ![p] = reg.data], Goto(p, l), UNCHANGED path
        PROVE  IInv'
    <3>1. /\ pc' = [pc EXCEPT ![p] = l] /\ l \in PCs
          /\ reg.data \in Registry
          /\ path' = [path EXCEPT ![p] = path[p]] /\ path[p] \in Paths \cup {NoPath}
          /\ result' = [result EXCEPT ![p] = result[p]] /\ result[p] \in Results
          /\ cmd' = cmd
      BY <1>4, <2>3 DEF ReadRegistry, Goto, IInv, TypeOK, PCs, File
    <3>2. Fits(l, cmd[p], reg.data, path[p])
      BY <1>0, <1>4, <2>3 DEF ReadRegistry, Is
    <3> QED BY <2>1, <2>3, <3>1, <3>2, MoveKeeps
  <2> QED BY <1>4, <2>2, <2>3 DEF ReadRegistry, Results
<1>5. CASE WriteFails(p)
  <2>1. /\ reg' \in File(Registry) /\ reg'.data = reg.data
        /\ reg'.state = "absent" => reg.state = "absent"
    BY <1>5 DEF WriteFails, FailedWrites, Garbled, IInv, TypeOK, File, FileStates
  <2>2. ServerKept
    BY <1>5, <2>1 DEF WriteFails, IInv, TypeOK, ServerKept, ServerOK, RegistryKept
  <2> QED BY <1>5, <2>2, EndKeeps DEF WriteFails, Results
<1> QED BY <1>1, <1>2, <1>3, <1>4, <1>5 DEF RegistryStep

LEMMA OtherKeeps ==
    ASSUME IInv, NEW p \in Procs, ServiceAction(p) \/ Crash(p) PROVE IInv'
<1>1. CASE ServiceAction(p)
  <2>1. ServerKept
    BY <1>1, QuietKeeps DEF ServiceAction
  <2>2. \E r \in Results : End(p, r)
    BY <1>1 DEF ServiceAction, Results
  <2> QED BY <1>1, <2>1, <2>2, EndKeeps DEF ServiceAction
<1>2. CASE Crash(p)
  <2>1. svc' \in [Paths -> Configs \cup {NoConfig, Cut}] /\ live' \in [Paths -> Contents]
    BY <1>2, ShippedTypes DEF Crash
  <2>2. ServerKept
    BY <1>2, <2>1 DEF Crash, IInv, TypeOK, ServerKept, ServerOK, RegistryKept
  <2> QED BY <1>2, <2>2, EndKeeps DEF Crash, Results
<1> QED BY <1>1, <1>2

LEMMA ElsewhereKeeps == ASSUME IInv, SecretsElsewhere PROVE IInv'
<1>1. ServerKept
  BY DEF SecretsElsewhere, Ensured, Mounted, IInv, TypeOK, ServerKept, ServerOK,
         RegistryKept
<1> QED BY <1>1, StayKeeps DEF SecretsElsewhere

LEMMA NextIInv == IInv /\ [Next]_vars => IInv'
<1> SUFFICES ASSUME IInv, [Next]_vars PROVE IInv'
  OBVIOUS
<1>1. CASE UNCHANGED vars
  BY <1>1 DEF vars, IInv, TypeOK, Fits, KindFits, PathFits, FreshFits, CopyFits
<1> QED
  BY <1>1, BeginKeeps, DeployKeeps, InstallKeeps, RegistryKeeps, OtherKeeps,
     ElsewhereKeeps
  DEF Next, Own, Step

LEMMA AlwaysIInv == Spec => []IInv
BY InitIInv, NextIInv, PTL DEF Spec
-----------------------------------------------------------------------------
(* Every variable keeps its type.                                          *)
THEOREM TypeCorrect == Spec => []TypeOK
<1>1. IInv => TypeOK
  BY DEF IInv
<1> QED BY <1>1, AlwaysIInv, PTL

(* What a command writes when it dies, fails or ships is never the         *)
(* registry.                                                               *)
LEMMA ShippingAside ==
    ASSUME NEW p \in Procs, Shipping(p) \/ Crash(p)
    PROVE  UNCHANGED <<reg, volumes, bindir, binary, etc>>
BY DEF Shipping, ShipSome, Ship, PutConfig, ShipRest, ShipFails, Crash, server

(* Only a deploy that saves changes the paths of the registry.             *)
LEMMA RegistryWrites ==
    ASSUME IInv, [Next]_vars
    PROVE  \/ reg'.data = reg.data
           \/ \E p \in Procs : WriteRegistry(p) /\ reg'.data = mem[p]
<1> USE DEF IInv, Fits
<1>1. CASE UNCHANGED vars
  BY <1>1 DEF vars
<1>2. ASSUME NEW p \in Procs, WriteRegistry(p)
      PROVE  reg'.data \in {reg.data, mem[p]}
  BY <1>2, FileWrites DEF WriteRegistry, TypeOK
<1>3. ASSUME NEW p \in Procs, WriteEmptyRegistry(p) PROVE reg'.data = reg.data
  <2>1. reg'.data \in {reg.data, EmptyRegistry}
    BY <1>3, FileWrites, EmptyRegistryOK DEF WriteEmptyRegistry, TypeOK
  <2>2. reg.data = EmptyRegistry
    BY <1>3, NothingRegistered DEF WriteEmptyRegistry, FreshFits, TypeOK, File
  <2> QED BY <2>1, <2>2
<1>4. ASSUME NEW p \in Procs, InitRegistry(p) \/ SaveRegistry(p) \/ WriteFails(p)
      PROVE  reg'.data = reg.data
  BY <1>4 DEF InitRegistry, SaveRegistry, WriteFails, Truncated, FailedWrites,
              Garbled, TypeOK, File
<1>5. ASSUME NEW p \in Procs, NEW c \in Commands, Begin(p, c) PROVE reg' = reg
  BY <1>5 DEF Begin, server
<1>6. ASSUME NEW p \in Procs,
             EnsureVolume(p) \/ FindService(p) \/ InstallStep(p)
               \/ TestRegistry(p) \/ ReadRegistry(p) \/ ServiceAction(p)
      PROVE  reg' = reg
  BY <1>6 DEF EnsureVolume, FindService, InstallStep, InstallDir, TestBinary,
              StartTransfer, Transfer, MakeEtc, TestRegistry, ReadRegistry,
              ServiceAction, server
<1>7. ASSUME NEW p \in Procs, Shipping(p) \/ Crash(p) PROVE reg' = reg
  BY <1>7, ShippingAside
<1>8. CASE SecretsElsewhere
  BY <1>8 DEF SecretsElsewhere
<1> QED
  BY <1>1, <1>2, <1>3, <1>4, <1>5, <1>6, <1>7, <1>8
  DEF Next, Own, Step, DeployStep, RegistryStep

(* Whatever the operators do at the same time, and wherever they die, the  *)
(* set of registered services is the one an administrator made: a save     *)
(* that overwrites another's changes paths only, and the registry is       *)
(* initialised only before anyone registered a service.                    *)
THEOREM ServicesKept == Spec => ServicesStay
<1>1. ASSUME IInv, [Next]_vars
      PROVE  Registered(reg'.data) = Registered(reg.data)
  BY <1>1, RegistryWrites DEF IInv, Fits, CopyFits, WriteRegistry
<1> QED BY <1>1, AlwaysIInv, PTL DEF Spec, ServicesStay

(* Once no one holds a copy to write, a registry that cannot be parsed is  *)
(* beyond repair by any command of the tool.                               *)
THEOREM WedgePermanent == Spec => WedgeIsPermanent
<1>1. ASSUME IInv, [Next]_vars, Wedged PROVE Wedged'
  <2> USE DEF Wedged, IInv, TypeOK
  <2>1. CASE UNCHANGED vars
    BY <1>1, <2>1 DEF vars
  <2>2. ASSUME NEW p \in Procs, NEW c \in Commands, Begin(p, c) PROVE Wedged'
    <3>1. c.kind \in {"deploy", "service", "install"}
      BY ConstantsAssumption, KindTypes
    <3> QED BY <1>1, <2>2, <3>1 DEF Begin, server
  <2>3. ASSUME NEW p \in Procs, FindService(p) \/ Shipping(p) \/ SaveRegistry(p)
                 \/ WriteRegistry(p) \/ InitRegistry(p) \/ WriteEmptyRegistry(p)
                 \/ WriteFails(p)
        PROVE  FALSE
    BY <1>1, <2>3 DEF FindService, Shipping, ShipSome, Ship, PutConfig, ShipRest,
       ShipFails, SaveRegistry, WriteRegistry, InitRegistry, WriteEmptyRegistry,
       WriteFails
  <2>4. ASSUME NEW p \in Procs, ReadRegistry(p) PROVE Wedged'
    BY <1>1, <2>4 DEF ReadRegistry, Goto, End, server, Broken
  <2>5. ASSUME NEW p \in Procs, TestRegistry(p) PROVE Wedged'
    BY <1>1, <2>5 DEF TestRegistry, Goto, Continue, End, server, Broken
  <2>6. ASSUME NEW p \in Procs,
               EnsureVolume(p) \/ ServiceAction(p) \/ InstallStep(p) \/ Crash(p)
        PROVE  Wedged'
    BY <1>1, <2>6 DEF EnsureVolume, ServiceAction, InstallStep, InstallDir,
       TestBinary, StartTransfer, Transfer, MakeEtc, Crash, Goto, Continue, End, server
  <2>7. CASE SecretsElsewhere
    BY <1>1, <2>7 DEF SecretsElsewhere
  <2> QED
    BY <1>1, <2>1, <2>2, <2>3, <2>4, <2>5, <2>6, <2>7
    DEF Next, Own, Step, DeployStep, RegistryStep
<1> QED BY <1>1, AlwaysIInv, PTL DEF Spec, WedgeIsPermanent
-----------------------------------------------------------------------------
(* Previews stop where a real deploy ships.                                *)
PreviewsStop ==
    \A p \in Procs : Is(p, "deploy") /\ Preview(p) =>
        pc[p] \notin {"put", "rest", "save", "saving"}

LEMMA AlwaysPreviewsStop == Spec => []PreviewsStop
<1>1. Init => PreviewsStop
  BY DEF Init, PreviewsStop
<1>2. IInv /\ PreviewsStop /\ [Next]_vars => PreviewsStop'
  <2> SUFFICES ASSUME IInv, PreviewsStop, [Next]_vars PROVE PreviewsStop'
    OBVIOUS
  <2> USE DEF PreviewsStop, Is, Preview, IInv, TypeOK
  <2>1. CASE UNCHANGED vars
    BY <2>1 DEF vars
  <2>2. ASSUME NEW p \in Procs, NEW c \in Commands, Begin(p, c) PROVE PreviewsStop'
    <3>1. c.kind \in {"deploy", "service", "install"}
      BY ConstantsAssumption, KindTypes
    <3> QED BY <2>2, <3>1 DEF Begin
  <2>3. ASSUME NEW p \in Procs, DeployStep(p) PROVE PreviewsStop'
    BY <2>3 DEF DeployStep, EnsureVolume, FindService, Shipping, ShipSome, Ship,
                PutConfig, ShipRest, ShipFails, SaveRegistry, WriteRegistry,
                Goto, Continue, End
  <2>4. ASSUME NEW p \in Procs, InstallStep(p) PROVE PreviewsStop'
    BY <2>4 DEF InstallStep, InstallDir, TestBinary, StartTransfer, Transfer,
                MakeEtc, Goto, Continue, End
  <2>5. ASSUME NEW p \in Procs, RegistryStep(p) PROVE PreviewsStop'
    BY <2>5 DEF RegistryStep, TestRegistry, InitRegistry, WriteEmptyRegistry,
                ReadRegistry, WriteFails, Goto, Continue, End
  <2>6. ASSUME NEW p \in Procs, ServiceAction(p) \/ Crash(p) PROVE PreviewsStop'
    BY <2>6 DEF ServiceAction, Crash, End
  <2>7. CASE SecretsElsewhere
    BY <2>7 DEF SecretsElsewhere
  <2> QED BY <2>1, <2>2, <2>3, <2>4, <2>5, <2>6, <2>7 DEF Next, Own, Step
<1> QED BY <1>1, <1>2, AlwaysIInv, PTL DEF Spec

(* A step that moves p's command is a step of p.                           *)
LEMMA OwnStep ==
    ASSUME IInv, [Next]_vars, NEW p \in Procs, pc'[p] # pc[p], pc[p] # "idle"
    PROVE  Step(p) \/ Crash(p)
<1> USE DEF IInv, TypeOK
<1>1. ~UNCHANGED vars
  BY DEF vars
<1>2. ASSUME NEW q \in Procs, NEW c \in Commands, Begin(q, c) PROVE FALSE
  BY <1>2 DEF Begin
<1>3. ASSUME NEW q \in Procs, DeployStep(q) PROVE q = p
  BY <1>3 DEF DeployStep, EnsureVolume, FindService, Shipping, ShipSome, Ship,
              PutConfig, ShipRest, ShipFails, SaveRegistry, WriteRegistry, Goto,
              Continue, End
<1>4. ASSUME NEW q \in Procs, InstallStep(q) PROVE q = p
  BY <1>4 DEF InstallStep, InstallDir, TestBinary, StartTransfer, Transfer, MakeEtc,
              Goto, Continue, End
<1>5. ASSUME NEW q \in Procs, RegistryStep(q) PROVE q = p
  BY <1>5 DEF RegistryStep, TestRegistry, InitRegistry, WriteEmptyRegistry,
              ReadRegistry, WriteFails, Goto, Continue, End
<1>6. ASSUME NEW q \in Procs, ServiceAction(q) \/ Crash(q) PROVE q = p
  BY <1>6 DEF ServiceAction, Crash, End
<1>7. ~SecretsElsewhere
  BY DEF SecretsElsewhere
<1> QED BY <1>1, <1>2, <1>3, <1>4, <1>5, <1>6, <1>7 DEF Next, Own, Step

(* A deploy with -show or -dry-run ships no asset, writes no config.json,  *)
(* registers nothing and, with -dry-run, creates no volume: it ends before *)
(* the first step that would.                                              *)
THEOREM PreviewsAreHarmless == Spec => PreviewsShipNothing
<1>1. ASSUME IInv, PreviewsStop, [Next]_vars, NEW p \in Procs,
             pc[p] # "idle", pc'[p] # pc[p], Is(p, "deploy"), Preview(p)
      PROVE  /\ UNCHANGED <<live, svc>>
             /\ reg.state # "absent" => reg'.data = reg.data
             /\ cmd[p].dryRun => UNCHANGED volumes
  <2> USE DEF IInv, TypeOK, Is, Fits
  <2>1. ~InstallStep(p) /\ ~ServiceAction(p)
    BY <1>1 DEF InstallStep, InstallDir, TestBinary, StartTransfer, Transfer, MakeEtc,
                ServiceAction, KindFits
  <2>2. /\ ~PutConfig(p) /\ ~ShipRest(p) /\ ~ShipSome(p) /\ ~ShipFails(p)
        /\ ~SaveRegistry(p) /\ ~WriteRegistry(p)
    BY <1>1 DEF PutConfig, ShipRest, ShipSome, ShipFails, SaveRegistry,
                WriteRegistry, PreviewsStop
  <2>3. CASE EnsureVolume(p) \/ FindService(p) \/ TestRegistry(p) \/ ReadRegistry(p)
    BY <2>3 DEF EnsureVolume, FindService, TestRegistry, ReadRegistry, server
  <2>4. CASE Ship(p) \/ Crash(p)
    BY <1>1, <2>4 DEF Ship, Crash, HalfShipped, PreviewsStop
  <2>5. CASE InitRegistry(p) \/ WriteFails(p)
    BY <1>1, <2>5 DEF InitRegistry, WriteFails, Truncated, FailedWrites, Garbled, File, FileStates
  <2>6. CASE WriteEmptyRegistry(p)
    <3>1. reg.data = EmptyRegistry
      BY <1>1, <2>6, NothingRegistered DEF WriteEmptyRegistry, FreshFits, File
    <3>2. reg'.data \in {reg.data, EmptyRegistry}
      BY <2>6, <1>1, FileWrites, EmptyRegistryOK DEF WriteEmptyRegistry
    <3> QED BY <2>6, <3>1, <3>2 DEF WriteEmptyRegistry
  <2> QED BY <1>1, <2>1, <2>2, <2>3, <2>4, <2>5, <2>6, OwnStep
          DEF Step, DeployStep, Shipping, RegistryStep
<1>2. IInv /\ PreviewsStop /\ [Next]_vars =>
        \A p \in Procs :
          /\ pc[p] # "idle" /\ pc'[p] # pc[p]
          /\ Is(p, "deploy") /\ Preview(p)
          => /\ UNCHANGED <<live, svc>>
             /\ reg.state # "absent" => reg'.data = reg.data
             /\ cmd[p].dryRun => UNCHANGED volumes
  BY <1>1
<1> QED BY <1>2, AlwaysIInv, AlwaysPreviewsStop, PTL DEF Spec, PreviewsShipNothing
-----------------------------------------------------------------------------
(* A path of the service s that an administrator's registry h accounts for.*)
Known(h, s, x) == x \in {h[s]} \cup (IF h[s] = NoPath THEN {} ELSE {DefaultPath[s]})

AllKnown(h, m) == \A s \in Services : Known(h, s, m[s])

(* So are those of the copies under way, and where a deploy ships to.      *)
PathKnown(h, l, c, m, x) ==
    /\ l \in {"act", "find", "ship", "put", "rest", "save", "saving"} => AllKnown(h, m)
    /\ l \in {"ship", "put", "rest", "save", "saving"} => Known(h, c.name, x)

PathsFrom(h) ==
    /\ AllKnown(h, reg.data)
    /\ \A p \in Procs : PathKnown(h, pc[p], cmd[p], mem[p], path[p])

PathsInv == \E h \in HandRegistries \cup {EmptyRegistry} : PathsFrom(h)

LEMMA InitPaths == Init => PathsInv
<1> SUFFICES ASSUME Init PROVE PathsInv
  OBVIOUS
<1>1. PICK h \in HandRegistries \cup {EmptyRegistry} : reg.data = h
  BY DEF Init, Absent, Holding
<1> QED BY <1>1 DEF Init, PathsInv, PathsFrom, AllKnown, Known, PathKnown

(* A step of one operator, who has the copy m and the directory x at l,    *)
(* and leaves known paths in the registry.                                 *)
LEMMA MoveKnown ==
    ASSUME IInv, NEW h \in HandRegistries \cup {EmptyRegistry}, PathsFrom(h),
           NEW p \in Procs, NEW l, NEW m, NEW x,
           pc' = [pc EXCEPT ![p] = l], mem' = [mem EXCEPT ![p] = m],
           path' = [path EXCEPT ![p] = x], cmd' = cmd,
           AllKnown(h, reg'.data), PathKnown(h, l, cmd[p], m, x)
    PROVE  PathsFrom(h)'
<1>1. ASSUME NEW q \in Procs PROVE PathKnown(h, pc[q], cmd[q], mem[q], path[q])'
  BY DEF PathsFrom, PathKnown, AllKnown, Known, IInv, TypeOK
<1>2. AllKnown(h, reg.data)'
  BY DEF AllKnown, Known
<1> QED BY <1>1, <1>2 DEF PathsFrom

LEMMA EndKnown ==
    ASSUME IInv, NEW h \in HandRegistries \cup {EmptyRegistry}, PathsFrom(h),
           NEW p \in Procs, NEW r, End(p, r), cmd' = cmd, AllKnown(h, reg'.data)
    PROVE  PathsFrom(h)'
<1>1. PathKnown(h, "idle", cmd[p], EmptyRegistry, NoPath)
  BY DEF PathKnown
<1> QED BY <1>1, MoveKnown DEF End

LEMMA ContinueKnown ==
    ASSUME IInv, NEW h \in HandRegistries \cup {EmptyRegistry}, PathsFrom(h),
           NEW p \in Procs, NEW l, Continue(p, l), cmd' = cmd,
           AllKnown(h, reg'.data), PathKnown(h, l, cmd[p], mem[p], path[p])
    PROVE  PathsFrom(h)'
<1>1. /\ pc' = [pc EXCEPT ![p] = l] /\ mem' = [mem EXCEPT ![p] = mem[p]]
      /\ path' = [path EXCEPT ![p] = path[p]]
  BY DEF Continue, Goto, IInv, TypeOK
<1> QED BY <1>1, MoveKnown

LEMMA NextPaths ==
    ASSUME IInv, NEW h \in HandRegistries \cup {EmptyRegistry}, PathsFrom(h), [Next]_vars
    PROVE  PathsFrom(h)'
<1>0. AllKnown(h, reg.data)
  BY DEF PathsFrom
<1>1. CASE UNCHANGED vars
  BY <1>1 DEF vars, PathsFrom, AllKnown, PathKnown, Known
<1>2. ASSUME NEW p \in Procs, NEW c \in Commands, Begin(p, c) PROVE PathsFrom(h)'
  <2>1. c.kind \in {"deploy", "service", "install"}
    BY ConstantsAssumption, KindTypes
  <2>2. \A q \in Procs : PathKnown(h, pc[q], cmd[q], mem[q], path[q])'
    BY <1>2, <2>1 DEF Begin, PathsFrom, PathKnown, AllKnown, Known, IInv, TypeOK
  <2> QED BY <1>0, <1>2, <2>2 DEF Begin, server, PathsFrom, AllKnown, Known
<1>3. ASSUME NEW p \in Procs, Step(p) \/ Crash(p) PROVE PathsFrom(h)'
  <2>0. PathKnown(h, pc[p], cmd[p], mem[p], path[p]) /\ KindFits(pc[p], cmd[p])
        /\ cmd[p] \in Command
    BY DEF PathsFrom, IInv, Fits, TypeOK
  <2>1. CASE EnsureVolume(p) \/ InstallStep(p) \/ TestRegistry(p) \/ ServiceAction(p)
             \/ Crash(p)
    <3>1. reg' = reg /\ cmd' = cmd
      BY <2>1, ShippingAside
      DEF EnsureVolume, InstallStep, InstallDir, TestBinary, StartTransfer, Transfer,
          MakeEtc, TestRegistry, ServiceAction, Crash, server
    <3>2. \/ \E r : End(p, r)
          \/ \E l \in {"test", "instbin", "send", "transfer", "mkdir", "init", "read"} :
               Continue(p, l)
      BY <2>1 DEF EnsureVolume, InstallStep, InstallDir, TestBinary, StartTransfer, Transfer,
                  MakeEtc, TestRegistry, ServiceAction, Crash
    <3>3. \A l \in {"test", "instbin", "send", "transfer", "mkdir", "init", "read"} :
            PathKnown(h, l, cmd[p], mem[p], path[p])
      BY DEF PathKnown
    <3> QED BY <1>0, <3>1, <3>2, <3>3, EndKnown, ContinueKnown
  <2>2. CASE InitRegistry(p) \/ WriteEmptyRegistry(p) \/ WriteFails(p)
    <3>1. cmd' = cmd /\ reg'.data = reg.data
      <4>1. CASE WriteEmptyRegistry(p)
        <5>1. reg.data = EmptyRegistry
          BY <4>1, NothingRegistered DEF WriteEmptyRegistry, IInv, TypeOK, Fits, FreshFits, File
        <5>2. reg'.data \in {reg.data, EmptyRegistry}
          BY <4>1, FileWrites, EmptyRegistryOK DEF WriteEmptyRegistry, IInv, TypeOK
        <5> QED BY <4>1, <5>1, <5>2 DEF WriteEmptyRegistry
      <4>2. CASE InitRegistry(p) \/ WriteFails(p)
        BY <4>2 DEF InitRegistry, WriteFails, Truncated, FailedWrites, Garbled,
                    IInv, TypeOK, File
      <4> QED BY <2>2, <4>1, <4>2
    <3>2. (\E r : End(p, r)) \/ (\E l \in {"initing", "read"} : Continue(p, l))
      BY <2>2 DEF InitRegistry, WriteEmptyRegistry, WriteFails
    <3>3. \A l \in {"initing", "read"} : PathKnown(h, l, cmd[p], mem[p], path[p])
      BY DEF PathKnown
    <3> QED BY <1>0, <3>1, <3>2, <3>3, EndKnown, ContinueKnown
  <2>3. CASE ReadRegistry(p)
    <3>1. reg' = reg /\ cmd' = cmd
      BY <2>3 DEF ReadRegistry, server
    <3>2. ASSUME NEW l \in {"find", "act"}, mem' = [mem EXCEPT ![p] = reg.data],
                 Goto(p, l), UNCHANGED path
          PROVE  PathsFrom(h)'
      <4>1. pc' = [pc EXCEPT ![p] = l] /\ path' = [path EXCEPT ![p] = path[p]]
        BY <3>2 DEF Goto, IInv, TypeOK
      <4>2. PathKnown(h, l, cmd[p], reg.data, path[p])
        BY <1>0, <3>2 DEF PathKnown
      <4> QED BY <1>0, <3>1, <3>2, <4>1, <4>2, MoveKnown
    <3> QED BY <1>0, <2>3, <3>1, <3>2, EndKnown DEF ReadRegistry
  <2>4. CASE FindService(p)
    <3> DEFINE x == mem[p][cmd[p].name]
    <3>1. reg' = reg /\ cmd' = cmd /\ cmd[p].name \in Services
      BY <2>0, <2>4, KindTypes DEF FindService, server, KindFits, DeployCommand
    <3>2. ASSUME NEW y \in {x, DefaultPath[cmd[p].name]}, x # NoPath,
                 path' = [path EXCEPT ![p] = y], Goto(p, "ship"), UNCHANGED mem
          PROVE  PathsFrom(h)'
      <4>1. AllKnown(h, mem[p]) /\ Known(h, cmd[p].name, y)
        BY <2>0, <2>4, <3>1, <3>2 DEF FindService, PathKnown, AllKnown, Known
      <4>2. PathKnown(h, "ship", cmd[p], mem[p], y)
        BY <4>1 DEF PathKnown
      <4>3. pc' = [pc EXCEPT ![p] = "ship"] /\ mem' = [mem EXCEPT ![p] = mem[p]]
        BY <3>2 DEF Goto, IInv, TypeOK
      <4> QED BY <1>0, <3>1, <3>2, <4>2, <4>3, MoveKnown
    <3> QED BY <1>0, <2>4, <3>1, <3>2, EndKnown DEF FindService
  <2>5. CASE Shipping(p)
    <3>1. reg' = reg /\ cmd' = cmd
      BY <2>5, ShippingAside
      DEF Shipping, ShipSome, Ship, PutConfig, ShipRest, ShipFails
    <3>2. \/ \E r : End(p, r)
          \/ /\ \E l \in {"put", "rest", "save"} : Continue(p, l)
             /\ pc[p] \in {"ship", "put", "rest"}
          \/ UNCHANGED <<pc, mem, path>>
      BY <2>5 DEF Shipping, ShipSome, Ship, PutConfig, ShipRest, ShipFails
    <3>3. ASSUME pc[p] \in {"ship", "put", "rest"}, NEW l \in {"put", "rest", "save"}
          PROVE  PathKnown(h, l, cmd[p], mem[p], path[p])
      BY <2>0, <3>3 DEF PathKnown
    <3>4. CASE UNCHANGED <<pc, mem, path>>
      BY <3>1, <3>4 DEF PathsFrom, AllKnown, PathKnown, Known
    <3> QED BY <1>0, <3>1, <3>2, <3>3, <3>4, EndKnown, ContinueKnown
  <2>6. CASE SaveRegistry(p)
    <3> DEFINE m == [mem[p] EXCEPT ![cmd[p].name] = path[p]]
    <3>1. /\ cmd' = cmd /\ reg'.data = reg.data
          /\ pc' = [pc EXCEPT ![p] = "saving"]
          /\ mem' = [mem EXCEPT ![p] = m]
          /\ path' = [path EXCEPT ![p] = path[p]]
      BY <2>6 DEF SaveRegistry, Truncated, Goto, IInv, TypeOK, File
    <3>2. AllKnown(h, mem[p]) /\ Known(h, cmd[p].name, path[p]) /\ mem[p] \in Registry
      BY <2>0, <2>6 DEF SaveRegistry, PathKnown, IInv, TypeOK
    <3>3. AllKnown(h, m)
      BY <3>2 DEF AllKnown, Known, Registry
    <3>4. PathKnown(h, "saving", cmd[p], m, path[p])
      BY <3>2, <3>3 DEF PathKnown
    <3> HIDE DEF m
    <3> QED BY <1>0, <3>1, <3>4, MoveKnown
  <2>7. CASE WriteRegistry(p)
    <3>1. reg'.data \in {reg.data, mem[p]} /\ cmd' = cmd
      BY <2>7, FileWrites DEF WriteRegistry, IInv, TypeOK
    <3>2. AllKnown(h, mem[p])
      BY <2>0, <2>7 DEF WriteRegistry, PathKnown
    <3> QED BY <1>0, <2>7, <3>1, <3>2, EndKnown DEF WriteRegistry
  <2> QED BY <1>3, <2>1, <2>2, <2>3, <2>4, <2>5, <2>6, <2>7
          DEF Step, DeployStep, RegistryStep
<1>4. CASE SecretsElsewhere
  BY <1>4 DEF SecretsElsewhere, PathsFrom, AllKnown, PathKnown, Known
<1> QED BY <1>1, <1>2, <1>3, <1>4 DEF Next, Own

(* A deploy ships to, and records, the service's own path or its default   *)
(* one, so whichever stale copy is saved last tells of known paths only.   *)
THEOREM PathsKnown == Spec => []PathsAreKnown
<1>1. IInv /\ PathsInv /\ [Next]_vars => PathsInv'
  BY NextPaths DEF PathsInv
<1>2. PathsInv => PathsAreKnown
  BY DEF PathsInv, PathsFrom, AllKnown, Known, PathsAreKnown
<1> QED BY <1>1, <1>2, InitPaths, AlwaysIInv, PTL DEF Spec
-----------------------------------------------------------------------------
(* How far one operator's command gets in a step: nowhere, to its end, to  *)
(* its start, through a copy of the registry, or outside of any.           *)
Copying == {"act", "find", "ship", "put", "rest", "save", "saving"}

Stays(p) == pc'[p] = pc[p] /\ mem'[p] = mem[p] /\ path'[p] = path[p] /\ cmd'[p] = cmd[p]

Ends(p) == pc'[p] = "idle" /\ mem'[p] = EmptyRegistry

GoesOn(p, from, to) ==
    /\ pc[p] \in from /\ pc'[p] \in to
    /\ mem'[p] = mem[p] /\ path'[p] = path[p] /\ cmd'[p] = cmd[p]

Reads(p) == /\ pc[p] = "read" /\ pc'[p] \in {"find", "act"}
            /\ mem'[p] = reg.data /\ reg' = reg

Finds(p) == /\ pc[p] = "find" /\ pc'[p] = "ship"
            /\ mem'[p] = mem[p] /\ cmd'[p] = cmd[p]
            /\ LET x == mem[p][cmd[p].name] IN
               /\ x # NoPath /\ svc[x] # Cut
               /\ path'[p] \in {x, DefaultPath[cmd[p].name]}

Saves(p) == /\ pc[p] = "save" /\ pc'[p] = "saving"
            /\ mem'[p] = [mem[p] EXCEPT ![cmd[p].name] = path[p]]
            /\ path'[p] = path[p] /\ cmd'[p] = cmd[p]

Starts(p) == /\ pc[p] = "idle" /\ pc'[p] \in {"instdir", "read", "ensure"}
             /\ mem'[p] = mem[p]

LEMMA Evolves ==
    ASSUME IInv, [Next]_vars, NEW p \in Procs
    PROVE  \/ Stays(p) \/ Ends(p) \/ Starts(p) \/ Reads(p) \/ Finds(p) \/ Saves(p)
           \/ GoesOn(p, {"ship", "put", "rest"}, {"put", "rest", "save"})
           \/ GoesOn(p, PCs \ (Copying \cup {"read"}), PCs \ Copying)
<1> USE DEF IInv, TypeOK, Stays, Ends, GoesOn, Reads, Finds, Saves, Starts, Copying,
            PCs, Goto, Continue, End
<1>1. CASE UNCHANGED vars
  BY <1>1 DEF vars
<1>2. ASSUME NEW q \in Procs, NEW c \in Commands, Begin(q, c)
      PROVE  Stays(p) \/ Starts(p)
  <2>1. c.kind \in {"deploy", "service", "install"}
    BY ConstantsAssumption, KindTypes
  <2> QED BY <1>2, <2>1 DEF Begin
<1>3. ASSUME NEW q \in Procs, EnsureVolume(q) \/ InstallStep(q)
      PROVE  Stays(p) \/ Ends(p) \/ GoesOn(p, PCs \ (Copying \cup {"read"}), PCs \ Copying)
  BY <1>3 DEF EnsureVolume, InstallStep, InstallDir, TestBinary, StartTransfer,
              Transfer, MakeEtc
<1>4. ASSUME NEW q \in Procs, TestRegistry(q) \/ InitRegistry(q) \/ WriteEmptyRegistry(q)
      PROVE  Stays(p) \/ Ends(p) \/ GoesOn(p, PCs \ (Copying \cup {"read"}), PCs \ Copying)
  BY <1>4 DEF TestRegistry, InitRegistry, WriteEmptyRegistry
<1>5. ASSUME NEW q \in Procs, ReadRegistry(q)
      PROVE  Stays(p) \/ Ends(p) \/ Reads(p)
  BY <1>5 DEF ReadRegistry, server
<1>6. ASSUME NEW q \in Procs, FindService(q)
      PROVE  Stays(p) \/ Ends(p) \/ Finds(p)
  BY <1>6 DEF FindService
<1>7. ASSUME NEW q \in Procs, Shipping(q)
      PROVE  \/ Stays(p) \/ Ends(p)
             \/ GoesOn(p, {"ship", "put", "rest"}, {"put", "rest", "save"})
  BY <1>7 DEF Shipping, ShipSome, Ship, PutConfig, ShipRest, ShipFails
<1>8. ASSUME NEW q \in Procs, SaveRegistry(q) PROVE Stays(p) \/ Saves(p)
  BY <1>8 DEF SaveRegistry
<1>9. ASSUME NEW q \in Procs,
             WriteRegistry(q) \/ WriteFails(q) \/ ServiceAction(q) \/ Crash(q)
      PROVE  Stays(p) \/ Ends(p)
  BY <1>9 DEF WriteRegistry, WriteFails, ServiceAction, Crash
<1>10. CASE SecretsElsewhere
  BY <1>10 DEF SecretsElsewhere
<1> QED BY <1>1, <1>2, <1>3, <1>4, <1>5, <1>6, <1>7, <1>8, <1>9, <1>10
        DEF Next, Own, Step, DeployStep, RegistryStep

(* A copy differs from the registry on services that have moved since it   *)
(* was loaded, and on the one that is being saved.                         *)
CopyAgrees(p) ==
    HoldsCopy(p) => \A s \in Services \ overtaken[p] :
                      \/ mem[p][s] = reg.data[s]
                      \/ pc[p] = "saving" /\ s = cmd[p].name

CopiesAgree == \A p \in Procs : CopyAgrees(p)

LEMMA NextCopiesAgree ==
    ASSUME IInv, CopiesAgree, [Next /\ Note]_<<vars, overtaken>> PROVE CopiesAgree'
<1>1. CASE UNCHANGED <<vars, overtaken>>
  BY <1>1 DEF vars, CopiesAgree, CopyAgrees, HoldsCopy
<1>2. CASE Next /\ Note
  <2> SUFFICES ASSUME NEW p \in Procs, HoldsCopy(p)', NEW s \in Services \ overtaken'[p]
               PROVE  mem'[p][s] = reg'.data[s] \/ (pc'[p] = "saving" /\ s = cmd'[p].name)
    BY DEF CopiesAgree, CopyAgrees
  <2>1. CASE Reads(p)
    BY <2>1 DEF Reads
  <2>2. CASE HoldsCopy(p)
    <3>1. s \notin overtaken[p] /\ reg'.data[s] = reg.data[s]
      BY <1>2, <2>2 DEF Note, Moved
    <3>2. mem[p][s] = reg.data[s] \/ (pc[p] = "saving" /\ s = cmd[p].name)
      BY <2>2, <3>1 DEF CopiesAgree, CopyAgrees
    <3>3. mem[p] \in Registry
      BY DEF IInv, TypeOK
    <3>4. \/ Stays(p) \/ Finds(p) \/ Saves(p)
          \/ GoesOn(p, {"ship", "put", "rest"}, {"put", "rest", "save"})
      BY <1>2, <2>2, Evolves DEF HoldsCopy, Ends, Starts, Reads, GoesOn, Copying, PCs
    <3> QED BY <3>1, <3>2, <3>3, <3>4 DEF Stays, Finds, Saves, GoesOn, Registry
  <2>3. CASE ~HoldsCopy(p) /\ ~Reads(p)
    BY <1>2, <2>3, Evolves DEF HoldsCopy, Stays, Ends, Starts, Finds, Saves,
                               GoesOn, Copying, PCs
  <2> QED BY <2>1, <2>2, <2>3
<1> QED BY <1>1, <1>2

(* For any number of operators: a path changes only where a deploy of the  *)
(* service records it, or where a stale copy of it is written back.        *)
THEOREM OverlapsOnly == OverlapSpec => SavesUndoOverlapsOnly
<1>1. Init => CopiesAgree
  BY DEF Init, CopiesAgree, CopyAgrees, HoldsCopy
<1>2. IInv /\ [Next /\ Note]_<<vars, overtaken>> => IInv'
  <2>1. [Next /\ Note]_<<vars, overtaken>> => [Next]_vars
    BY DEF vars
  <2> QED BY <2>1, NextIInv
<1>3. IInv /\ CopiesAgree /\ [Next /\ Note]_<<vars, overtaken>> => CopiesAgree'
  BY NextCopiesAgree
<1>4. ASSUME IInv, CopiesAgree, [Next /\ Note]_<<vars, overtaken>>, NEW s \in Moved
      PROVE  \E p \in Procs : /\ pc[p] = "saving" /\ pc'[p] = "idle"
                              /\ s = cmd[p].name \/ s \in overtaken[p]
  <2>1. PICK p \in Procs : WriteRegistry(p) /\ reg'.data = mem[p]
    <3>1. [Next]_vars /\ reg'.data # reg.data
      BY <1>4 DEF vars, Moved
    <3> QED BY <1>4, <3>1, RegistryWrites
  <2>2. pc[p] = "saving" /\ pc'[p] = "idle"
    BY <1>4, <2>1 DEF WriteRegistry, End, IInv, TypeOK
  <2>3. s = cmd[p].name \/ s \in overtaken[p]
    BY <1>4, <2>1, <2>2 DEF CopiesAgree, CopyAgrees, HoldsCopy, Moved
  <2> QED BY <2>2, <2>3
<1>5. IInv /\ CopiesAgree /\ [Next /\ Note]_<<vars, overtaken>> =>
        \A s \in Moved : \E p \in Procs :
          /\ pc[p] = "saving" /\ pc'[p] = "idle"
          /\ s = cmd[p].name \/ s \in overtaken[p]
  BY <1>4
<1> QED BY <1>1, <1>2, <1>3, <1>5, InitIInv, PTL
        DEF OverlapSpec, OverlapInit, OverlapNext, SavesUndoOverlapsOnly
-----------------------------------------------------------------------------
(* A deploy that ships does so where it found the service, or to its       *)
(* default directory.                                                      *)
PlacesFound ==
    \A p \in Procs : pc[p] \in {"ship", "put", "rest", "save"} =>
        path[p] \in {mem[p][cmd[p].name], DefaultPath[cmd[p].name]}

LEMMA NextPlacesFound == IInv /\ PlacesFound /\ [Next]_vars => PlacesFound'
<1> SUFFICES ASSUME IInv, PlacesFound, [Next]_vars, NEW p \in Procs,
                    pc'[p] \in {"ship", "put", "rest", "save"}
             PROVE  path'[p] \in {mem'[p][cmd'[p].name], DefaultPath[cmd'[p].name]}
  BY DEF PlacesFound
<1> QED BY Evolves DEF PlacesFound, Stays, Ends, Starts, Reads, Finds, Saves, GoesOn,
                       Copying, PCs

(* A config.json is written only in the directory that a deploy ships to.  *)
LEMMA ConfigWrites ==
    ASSUME IInv, [Next]_vars, NEW x \in Paths, svc'[x] # svc[x]
    PROVE  \E p \in Procs : pc[p] = "put" /\ path[p] = x
<1> USE DEF IInv, TypeOK
<1>1. ~UNCHANGED vars /\ ~SecretsElsewhere
  BY DEF vars, SecretsElsewhere
<1>2. ASSUME NEW p \in Procs,
             Begin(p, cmd'[p]) \/ EnsureVolume(p) \/ FindService(p) \/ ShipSome(p)
               \/ Ship(p) \/ ShipRest(p) \/ SaveRegistry(p) \/ WriteRegistry(p)
      PROVE  FALSE
  BY <1>2 DEF Begin, EnsureVolume, FindService, ShipSome, Ship, ShipRest,
              SaveRegistry, WriteRegistry, server
<1>3. ASSUME NEW p \in Procs, InstallStep(p) \/ RegistryStep(p) \/ ServiceAction(p)
      PROVE  FALSE
  BY <1>3 DEF InstallStep, InstallDir, TestBinary, StartTransfer, Transfer,
              MakeEtc, RegistryStep, TestRegistry, InitRegistry,
              WriteEmptyRegistry, ReadRegistry, WriteFails, ServiceAction, server
<1>4. ASSUME NEW p \in Procs, PutConfig(p) \/ ShipFails(p) \/ Crash(p)
      PROVE  pc[p] = "put" /\ path[p] = x
  BY <1>4 DEF PutConfig, ShipFails, Crash, HalfShipped
<1>5. ASSUME NEW p \in Procs, NEW c \in Commands, Begin(p, c) PROVE FALSE
  BY <1>5 DEF Begin, server
<1> QED BY <1>1, <1>2, <1>3, <1>4, <1>5 DEF Next, Own, Step, DeployStep, Shipping

(* For any number of operators, a config.json that was cut off where only  *)
(* its own service's deploys go keeps all of them out for good.            *)
THEOREM CutConfigsBlock == Spec => CutConfigBlocks
<1>1. Init => PlacesFound
  BY DEF Init, PlacesFound
<1>2. ASSUME IInv, PlacesFound, [Next]_vars, NEW x \in Paths, Blocked(x)
      PROVE  Blocked(x)'
  <2> USE DEF Blocked
  <2>0. NoPath \notin Paths /\ DefaultPath \in [Services -> Paths]
    BY ConstantsAssumption
  <2>1. svc'[x] = Cut
    BY <1>2, ConfigWrites
  <2>2. ASSUME NEW s \in Services, DefaultPath[s] = x
        PROVE  reg'.data[s] \in {x, NoPath}
    BY <1>2, <2>2, RegistryWrites
  <2>3. ASSUME NEW s \in Services, DefaultPath[s] = x, NEW p \in Procs
        PROVE  mem'[p][s] \in {x, NoPath}
    <3>1. CASE Saves(p)
      <4>1. mem[p] \in Registry /\ path[p] # x
        BY <1>2, <3>1 DEF Saves, IInv, TypeOK
      <4>2. path[p] \in Paths /\ path[p] \in {mem[p][cmd[p].name], DefaultPath[cmd[p].name]}
        BY <1>2, <3>1 DEF Saves, PlacesFound, IInv, Fits, PathFits
      <4>3. s # cmd[p].name
        BY <1>2, <2>0, <2>3, <4>1, <4>2
      <4> QED BY <1>2, <2>3, <3>1, <4>1, <4>3 DEF Saves, Registry
    <3>2. CASE Ends(p)
      BY <3>2 DEF Ends, EmptyRegistry
    <3>3. CASE ~Saves(p) /\ ~Ends(p)
      BY <1>2, <2>3, <3>3, Evolves DEF Stays, Starts, Reads, Finds, GoesOn
    <3> QED BY <3>1, <3>2, <3>3
  <2>4. ASSUME NEW p \in Procs, pc'[p] \in {"ship", "put", "rest", "save", "saving"}
        PROVE  path'[p] # x
    <3>1. CASE Finds(p)
      <4>1. cmd[p].name \in Services
        BY <1>2, <3>1, KindTypes DEF Finds, IInv, TypeOK, Fits, KindFits, DeployCommand
      <4> QED BY <1>2, <3>1, <4>1 DEF Finds
    <3>2. CASE ~Finds(p)
      BY <1>2, <2>4, <3>2, Evolves DEF Stays, Ends, Starts, Reads, Saves, GoesOn,
                                       Copying, PCs
    <3> QED BY <3>1, <3>2
  <2> QED BY <2>1, <2>2, <2>3, <2>4
<1>3. IInv /\ PlacesFound /\ [Next]_vars => \A x \in Paths : Blocked(x) => Blocked(x)'
  BY <1>2
<1> QED BY <1>1, <1>3, NextPlacesFound, AlwaysIInv, PTL DEF Spec, CutConfigBlocks

(* Nor does any command but an install with -force replace half a binary.  *)
THEOREM HalfBinaryKept == Spec => HalfBinaryIsKept
<1>1. ASSUME IInv, [Next]_vars, HalfBinary,
             ~ \E p \in Procs : pc[p] = "idle" /\ pc'[p] = "instdir" /\ cmd'[p].force
      PROVE  HalfBinary'
  <2> USE DEF IInv, TypeOK, HalfBinary, Goto, Continue, End
  <2>1. CASE UNCHANGED vars \/ SecretsElsewhere
    BY <1>1, <2>1 DEF vars, SecretsElsewhere
  <2>2. ASSUME NEW p \in Procs, NEW c \in Commands, Begin(p, c) PROVE HalfBinary'
    <3>1. c.kind \in {"deploy", "service", "install"}
      BY ConstantsAssumption, KindTypes
    <3> QED BY <1>1, <2>2, <3>1 DEF Begin, server
  <2>3. ASSUME NEW p \in Procs, InstallStep(p) PROVE HalfBinary'
    BY <1>1, <2>3 DEF InstallStep, InstallDir, TestBinary, StartTransfer, Transfer,
                      MakeEtc, server
  <2>4. ASSUME NEW p \in Procs, RegistryStep(p) PROVE HalfBinary'
    BY <1>1, <2>4 DEF RegistryStep, TestRegistry, InitRegistry, WriteEmptyRegistry,
                      ReadRegistry, WriteFails, server
  <2>5. ASSUME NEW p \in Procs, EnsureVolume(p) \/ FindService(p) \/ SaveRegistry(p)
                 \/ WriteRegistry(p) \/ ServiceAction(p)
        PROVE  HalfBinary'
    BY <1>1, <2>5 DEF EnsureVolume, FindService, SaveRegistry, WriteRegistry,
                      ServiceAction, server
  <2>6. ASSUME NEW p \in Procs, Shipping(p) \/ Crash(p) PROVE HalfBinary'
    BY <1>1, <2>6, ShippingAside DEF Shipping, ShipSome, Ship, PutConfig, ShipRest,
                                     ShipFails, Crash
  <2> QED BY <1>1, <2>1, <2>2, <2>3, <2>4, <2>5, <2>6 DEF Next, Own, Step, DeployStep
<1>2. IInv /\ [Next]_vars =>
        (HalfBinary =>
           \/ HalfBinary'
           \/ \E p \in Procs : pc[p] = "idle" /\ pc'[p] = "instdir" /\ cmd'[p].force)
  BY <1>1
<1> QED BY <1>2, AlwaysIInv, PTL DEF Spec, HalfBinaryIsKept
-----------------------------------------------------------------------------
(* What success means when one operator at a time uses the server, after   *)
(* any history of commands that were killed or failed half way.            *)
OneOperator == \A p, q \in Procs : p = q

(* No volume's name contains another's.                                    *)
ExactMatches == \A v, w \in Volumes : <<v, w>> \in Matches => v = w

(* What a deploy has achieved by the time it is at pc[p].                  *)
DeployDone(p) ==
    Is(p, "deploy") =>
        /\ ~cmd[p].dryRun /\ pc[p] \notin {"idle", "ensure"} => cmd[p].vol \in volumes
        /\ pc[p] \in {"put", "rest", "save", "saving"} =>
             ~Preview(p) /\ live[path[p]] = cmd[p].version.assets
        /\ pc[p] \in {"rest", "save", "saving"} =>
             svc[path[p]] = cmd[p].version.config
        /\ pc[p] = "saving" => reg.state = "empty" /\ mem[p][cmd[p].name] = path[p]

(* What an install has achieved.                                           *)
InstallDone(p) ==
    Is(p, "install") =>
        /\ pc[p] \in {"instbin", "send", "transfer", "mkdir", "test", "init",
                      "initing"} =>
             bindir
        /\ pc[p] = "transfer" => binary = "partial"
        /\ pc[p] \in {"mkdir", "test", "init", "initing"} =>
             binary # "absent" /\ (cmd[p].force => binary = "whole")
        /\ pc[p] \in {"test", "init", "initing"} => etc
        /\ pc[p] = "initing" => reg.state # "absent"

Done == /\ \A p \in Procs : DeployDone(p) /\ InstallDone(p)
        /\ DeployOkIsUsable
        /\ InstallOkIsComplete

(* It is enough to look at the one operator.                               *)
DeployUsable(p) ==
    pc[p] = "idle" /\ result[p] = "ok" /\ Is(p, "deploy") /\ ~Preview(p) =>
        LET x == reg.data[cmd[p].name] IN
        /\ reg.state = "ok"
        /\ x # NoPath
        /\ svc[x] = cmd[p].version.config
        /\ live[x] = cmd[p].version.assets
        /\ cmd[p].vol \in volumes

InstallComplete(p) ==
    pc[p] = "idle" /\ result[p] = "ok" /\ Is(p, "install") =>
        /\ bindir /\ etc /\ reg.state # "absent"
        /\ binary # "absent"
        /\ cmd[p].force => binary = "whole"

DoneBy(p) ==
    DeployDone(p) /\ InstallDone(p) /\ DeployUsable(p) /\ InstallComplete(p)

LEMMA DoneByAll == Done <=> \A p \in Procs : DoneBy(p)
BY DEF Done, DoneBy, DeployUsable, InstallComplete, DeployOkIsUsable,
       InstallOkIsComplete

LEMMA InitDone == Init => Done
BY DEF Init, Done, DeployDone, InstallDone, DeployOkIsUsable, InstallOkIsComplete, Is

(* A listed volume is the project's own.                                   *)
LEMMA EnsuredExact ==
    ASSUME ExactMatches, NEW V \in SUBSET Volumes, NEW v \in Volumes
    PROVE  v \in Ensured(V, v)
BY VolumesAssumption DEF ExactMatches, Ensured, Listed

LEMMA DeployStepDone ==
    ASSUME IInv, IInv', OneOperator, ExactMatches, NEW p \in Procs, DoneBy(p),
           DeployStep(p)
    PROVE  DoneBy(p)'
<1> USE DEF Is, Preview, DoneBy, DeployDone, InstallDone, DeployUsable,
            InstallComplete, Goto, Continue, End
<1>1. /\ cmd[p] \in Command /\ Fits(pc[p], cmd[p], mem[p], path[p])
      /\ pc \in [Procs -> PCs] /\ result \in [Procs -> Results]
      /\ path \in [Procs -> Paths \cup {NoPath}] /\ mem \in [Procs -> Registry]
      /\ live \in [Paths -> Contents]
      /\ svc \in [Paths -> Configs \cup {NoConfig, Cut}]
      /\ reg \in File(Registry) /\ volumes \in SUBSET Volumes
  BY DEF IInv, TypeOK
<1>2. ASSUME pc[p] \in {"ensure", "find", "ship", "put", "rest", "save", "saving"}
      PROVE  /\ cmd[p].kind = "deploy"
             /\ cmd[p].name \in Services /\ cmd[p].vol \in Volumes
             /\ cmd[p].version \in Versions
             /\ cmd[p].show \in BOOLEAN /\ cmd[p].dryRun \in BOOLEAN
  BY <1>1, <1>2, KindTypes DEF DeployCommand, Fits, KindFits
<1>3. CASE EnsureVolume(p)
  BY <1>1, <1>2, <1>3, EnsuredExact DEF EnsureVolume
<1>4. CASE FindService(p)
  BY <1>1, <1>2, <1>4 DEF FindService, server
<1>5. CASE Ship(p)
  <2>1. Procs = {p}
    BY DEF OneOperator
  <2> QED BY <1>1, <1>2, <1>5, <2>1 DEF Ship, Shipped, Fits, PathFits
<1>6. CASE PutConfig(p)
  BY <1>1, <1>2, <1>6 DEF PutConfig, Fits, PathFits
<1>9. CASE ShipSome(p) \/ ShipRest(p)
  BY <1>1, <1>2, <1>9 DEF ShipSome, ShipRest, server
<1>10. CASE ShipFails(p)
  BY <1>1, <1>2, <1>10 DEF ShipFails
<1>7. CASE SaveRegistry(p)
  BY <1>1, <1>2, <1>7 DEF SaveRegistry, Truncated, Registry, File
<1>8. CASE WriteRegistry(p)
  <2>1. reg' = Holding(mem[p])
    BY <1>2, <1>8 DEF WriteRegistry, Overwrites
  <2>2. path[p] # NoPath
    BY <1>1, <1>8, ConstantsAssumption DEF WriteRegistry, Fits, PathFits
  <2> QED BY <1>1, <1>2, <1>8, <2>1, <2>2 DEF WriteRegistry, Holding
<1> QED BY <1>3, <1>4, <1>5, <1>6, <1>7, <1>8, <1>9, <1>10 DEF DeployStep, Shipping

LEMMA InstallStepDone ==
    ASSUME IInv, NEW p \in Procs, DoneBy(p), InstallStep(p) PROVE DoneBy(p)'
<1> USE DEF Is, Preview, DoneBy, DeployDone, InstallDone, DeployUsable,
            InstallComplete, Goto, Continue, End
<1>1. /\ pc[p] \in {"instdir", "instbin", "send", "transfer", "mkdir"} =>
           cmd[p].kind = "install" /\ cmd[p].force \in BOOLEAN
      /\ pc \in [Procs -> PCs] /\ result \in [Procs -> Results]
      /\ bindir \in BOOLEAN
  BY KindTypes DEF IInv, TypeOK, Fits, KindFits, InstallCommand
<1>2. CASE InstallDir(p)
  BY <1>1, <1>2 DEF InstallDir
<1>3. CASE TestBinary(p)
  BY <1>1, <1>3 DEF TestBinary, server
<1>6. CASE StartTransfer(p)
  BY <1>1, <1>6 DEF StartTransfer
<1>4. CASE Transfer(p)
  BY <1>1, <1>4 DEF Transfer
<1>5. CASE MakeEtc(p)
  BY <1>1, <1>5 DEF MakeEtc
<1> QED BY <1>2, <1>3, <1>4, <1>5, <1>6 DEF InstallStep

LEMMA RegistryStepDone ==
    ASSUME IInv, NEW p \in Procs, DoneBy(p), RegistryStep(p) PROVE DoneBy(p)'
<1> USE DEF Is, Preview, DoneBy, DeployDone, InstallDone, DeployUsable,
            InstallComplete, Goto, Continue, End
<1>1. /\ cmd[p].kind \in {"deploy", "service", "install"}
      /\ KindFits(pc[p], cmd[p])
      /\ pc \in [Procs -> PCs] /\ result \in [Procs -> Results]
      /\ mem \in [Procs -> Registry] /\ reg \in File(Registry)
  BY KindTypes DEF IInv, TypeOK, Fits
<1>2. CASE TestRegistry(p)
  BY <1>1, <1>2 DEF TestRegistry, server, KindFits
<1>3. CASE InitRegistry(p)
  BY <1>1, <1>3 DEF InitRegistry, Truncated, KindFits, File
<1>4. CASE WriteEmptyRegistry(p)
  <2>1. reg'.state # "absent" \/ Is(p, "deploy")
    BY <1>1, <1>4 DEF WriteEmptyRegistry, Overwrites, Holding, Garbled, KindFits, File
  <2> QED BY <1>1, <1>4, <2>1 DEF WriteEmptyRegistry, KindFits
<1>5. CASE ReadRegistry(p)
  BY <1>1, <1>5 DEF ReadRegistry, server, KindFits
<1>6. CASE WriteFails(p)
  BY <1>1, <1>6 DEF WriteFails, KindFits
<1> QED BY <1>2, <1>3, <1>4, <1>5, <1>6 DEF RegistryStep

LEMMA OtherStepDone ==
    ASSUME IInv, NEW p \in Procs, DoneBy(p),
           ServiceAction(p) \/ Crash(p) \/ \E c \in Commands : Begin(p, c)
    PROVE  DoneBy(p)'
<1> USE DEF Is, Preview, DoneBy, DeployDone, InstallDone, DeployUsable,
            InstallComplete, Goto, Continue, End
<1>1. /\ KindFits(pc[p], cmd[p])
      /\ pc \in [Procs -> PCs] /\ result \in [Procs -> Results]
      /\ cmd \in [Procs -> Command]
  BY DEF IInv, TypeOK, Fits
<1>2. CASE ServiceAction(p)
  BY <1>1, <1>2 DEF ServiceAction, KindFits
<1>3. CASE Crash(p)
  BY <1>1, <1>3 DEF Crash
<1>4. ASSUME NEW c \in Commands, Begin(p, c) PROVE DoneBy(p)'
  <2>1. c.kind \in {"deploy", "service", "install"}
    BY ConstantsAssumption, KindTypes
  <2> QED BY <1>1, <1>4, <2>1 DEF Begin, server
<1> QED BY <1>2, <1>3, <1>4

LEMMA NextDone ==
    ASSUME OneOperator, ExactMatches
    PROVE  IInv /\ IInv' /\ Done /\ [Next]_vars => Done'
<1> SUFFICES ASSUME IInv, IInv', Done, [Next]_vars PROVE Done'
  OBVIOUS
<1>1. CASE UNCHANGED vars
  BY <1>1 DEF vars, Done, DeployDone, InstallDone, DeployOkIsUsable,
              InstallOkIsComplete, Is, Preview
<1>2. ASSUME NEW p \in Procs,
             Step(p) \/ Crash(p) \/ \E c \in Commands : Begin(p, c)
      PROVE  DoneBy(p)'
  <2>1. DoneBy(p)
    BY DoneByAll
  <2> QED BY <1>2, <2>1, DeployStepDone, InstallStepDone, RegistryStepDone,
             OtherStepDone DEF Step
<1>4. CASE SecretsElsewhere
  <2>1. volumes \subseteq volumes'
    BY <1>4 DEF SecretsElsewhere, Ensured, Mounted
  <2> QED BY <1>4, <2>1 DEF SecretsElsewhere, Done, DeployDone, InstallDone,
             DeployOkIsUsable, InstallOkIsComplete, Is, Preview
<1>3. ASSUME \A p \in Procs : DoneBy(p)' PROVE Done'
  BY <1>3 DEF Done, DoneBy, DeployUsable, InstallComplete, DeployOkIsUsable,
              InstallOkIsComplete, Is, Preview, DeployDone, InstallDone
<1> QED BY <1>1, <1>2, <1>3, <1>4 DEF Next, Own, OneOperator

LEMMA AlwaysDone ==
    ASSUME OneOperator, ExactMatches PROVE Spec => []Done
<1>1. IInv /\ IInv' /\ Done /\ [Next]_vars => Done'
  BY NextDone
<1> QED BY <1>1, InitDone, AlwaysIInv, PTL DEF Spec
-----------------------------------------------------------------------------
(* A deploy that reports success has registered the service at the         *)
(* directory that runs the version and holds its config.json, and its      *)
(* volume exists.                                                          *)
THEOREM DeploySuccess ==
    ASSUME OneOperator, ExactMatches PROVE Spec => []DeployOkIsUsable
<1>1. Done => DeployOkIsUsable
  BY DEF Done
<1> QED BY <1>1, AlwaysDone, PTL

(* An install that reports success has left a registry for the other       *)
(* commands, and with -force a whole binary.                               *)
THEOREM InstallSuccess ==
    ASSUME OneOperator, ExactMatches PROVE Spec => []InstallOkIsComplete
<1>1. Done => InstallOkIsComplete
  BY DEF Done
<1> QED BY <1>1, AlwaysDone, PTL
============================================================================
