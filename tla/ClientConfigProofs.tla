------------------------- MODULE ClientConfigProofs -------------------------
(***************************************************************************)
(* ClientConfig for every number of operators, servers and values, and the *)
(* refinement of ConfigStore.                                              *)
(***************************************************************************)
EXTENDS ClientConfigStore, ClientConfigOverlap, TLAPS

USE DEF Text, Actions

(* Deleting an entry keeps a config's shape, and the default configured.   *)
LEMMA WithoutKeeps ==
    ASSUME NEW c \in Config, WellFormed(c), NEW s \in Servers
    PROVE  Without(c, s) \in Config /\ WellFormed(Without(c, s))
BY ConstantsAssumption DEF Config, WellFormed, Configured, Without

(* Writing a complete entry keeps every entry complete, and the default it *)
(* may become is configured.                                               *)
LEMMA WithKeeps ==
    ASSUME NEW c \in Config, WellFormed(c), ~c.nilMap, NEW s \in Servers,
           NEW e \in Entry, Complete(e), NEW k \in BOOLEAN
    PROVE  With(c, s, e, k) \in Config /\ WellFormed(With(c, s, e, k))
<1>1. NoEntry # e /\ None \notin Servers
  BY ConstantsAssumption
<1>2. With(c, s, e, k) \in Config
  BY DEF Config, With
<1>3. WellFormed(With(c, s, e, k))
  BY <1>1 DEF Config, WellFormed, Configured, With
<1> QED BY <1>2, <1>3

LEMMA EmptyConfigOK == EmptyConfig \in Config /\ WellFormed(EmptyConfig)
BY ConstantsAssumption DEF EmptyConfig, Config, WellFormed, Configured

(* The server a command means is one.                                      *)
LEMMA NamedServerType ==
    ASSUME NEW c \in Command PROVE NamedServer(c) \in Servers
BY ConstantsAssumption DEF Command, NamedServer

(* Prompts show a complete entry, or blanks; answers are never blank.      *)
LEMMA PromptTypes ==
    ASSUME TypeOK, NEW p \in Procs, NEW flag \in Text, NEW v \in Text
    PROVE  /\ Current(p) \in Entry
           /\ Input(flag, v) \subseteq Values
<1>1. Input(flag, v) \subseteq Values
  BY DEF Input
<1>2. Current(p) \in Entry
  BY NamedServerType DEF TypeOK, Config, Current, Entry
<1> QED BY <1>1, <1>2

(* The properties "set" writes are typed and complete.                     *)
LEMMA SetTypes ==
    ASSUME TypeOK, NEW p \in Procs,
           NEW h \in Input(cmd[p].host, Current(p).host),
           NEW u \in Input(cmd[p].user, Current(p).user),
           NEW k \in Input(cmd[p].key, Current(p).key)
    PROVE  LET e == [host |-> h, user |-> u, key |-> k, pass |-> Current(p).pass]
           IN  e \in Entry /\ Complete(e)
<1>1. /\ cmd[p].host \in Text /\ cmd[p].user \in Text /\ cmd[p].key \in Text
  BY DEF TypeOK, Command
<1>2. Current(p) \in Entry
  BY <1>1, PromptTypes
<1>3. h \in Values /\ u \in Values /\ k \in Values
  <2>1. Input(cmd[p].host, Current(p).host) \subseteq Values
    BY <1>1, <1>2, PromptTypes DEF Entry
  <2>2. Input(cmd[p].user, Current(p).user) \subseteq Values
    BY <1>1, <1>2, PromptTypes DEF Entry
  <2>3. Input(cmd[p].key, Current(p).key) \subseteq Values
    BY <1>1, <1>2, PromptTypes DEF Entry
  <2> QED BY <2>1, <2>2, <2>3
<1> QED BY <1>2, <1>3, ConstantsAssumption DEF Entry, Complete

(* What a command line resolves to is one of four results.                 *)
LEMMA ResolutionType ==
    ASSUME NEW c, NEW config
    PROVE  Resolution(c, config) \in {"ok", "no-default", "unknown", "incomplete"}
BY DEF Resolution

(* A deletion names a server: Build refuses it otherwise.                  *)
DeletesNameServers ==
    \A p \in Procs : pc[p] # "idle" => ~Usage(cmd[p])

IInv == TypeOK /\ DeletesNameServers /\ ConfigsWellFormed

LEMMA InitIInv == Init => IInv
<1> SUFFICES ASSUME Init PROVE IInv
  OBVIOUS
<1>1. file \in File(Config) /\ WellFormed(file.data)
  BY EmptyConfigOK, ConstantsAssumption
  DEF Init, File, FileStates, Absent, Holding
<1>2. NoFlags \in Command
  BY DEF NoFlags, Command
<1> QED
  BY <1>1, <1>2, EmptyConfigOK
  DEF Init, IInv, TypeOK, DeletesNameServers, ConfigsWellFormed, PCs, Results

(* Every outcome of writing d keeps the file's type and, if both texts are *)
(* well-formed, its last good contents well-formed.                        *)
LEMMA FileWrites ==
    ASSUME NEW f \in File(Config), NEW d \in Config, NEW g
    PROVE  /\ g \in Overwrites(f, d) \cup FailedWrites(f) \cup {Truncated(f)}
                => /\ g \in File(Config)
                   /\ g.data \in {f.data, d}
BY DEF File, FileStates, Overwrites, FailedWrites, Truncated, Garbled, Holding

LEMMA NextIInv == IInv /\ [Next]_vars => IInv'
<1> SUFFICES ASSUME IInv, [Next]_vars PROVE IInv'
  OBVIOUS
<1> USE DEF IInv
<1>1. CASE UNCHANGED vars
  BY <1>1 DEF vars, TypeOK, DeletesNameServers, ConfigsWellFormed
<1>2. ASSUME NEW p \in Procs, NEW c \in Commands, Begin(p, c) PROVE IInv'
  <2>1. c \in Command
    BY ConstantsAssumption
  <2> QED
    BY <1>2, <2>1, EmptyConfigOK
    DEF Begin, Goto, End, TypeOK, DeletesNameServers, ConfigsWellFormed, PCs, Results
<1>3. ASSUME NEW p \in Procs, LoadFails(p) PROVE IInv'
  BY <1>3, EmptyConfigOK
  DEF LoadFails, Goto, End, TypeOK, DeletesNameServers, ConfigsWellFormed, PCs, Results
<1>4. ASSUME NEW p \in Procs, Load(p) PROVE IInv'
  BY <1>4, EmptyConfigOK
  DEF Load, Goto, TypeOK, DeletesNameServers, ConfigsWellFormed, PCs, File
<1>5. ASSUME NEW p \in Procs, OpenFile(p) PROVE IInv'
  <2>1. file' \in File(Config) /\ file'.data = file.data
    BY <1>5 DEF OpenFile, Truncated, TypeOK, File, FileStates
  <2> QED
    BY <1>5, <2>1
    DEF OpenFile, Goto, TypeOK, DeletesNameServers, ConfigsWellFormed, PCs
<1>6. ASSUME NEW p \in Procs, WriteFile(p) PROVE IInv'
  <2>1. file' \in File(Config) /\ file'.data \in {file.data, mem[p]}
    BY <1>6, FileWrites DEF WriteFile, TypeOK
  <2> QED
    BY <1>6, <2>1, EmptyConfigOK
    DEF WriteFile, Goto, End, TypeOK, DeletesNameServers, ConfigsWellFormed, PCs, Results
<1>7. ASSUME NEW p \in Procs, WriteFails(p) PROVE IInv'
  <2>1. file' \in File(Config) /\ file'.data \in {file.data, mem[p]}
    BY <1>7, FileWrites DEF WriteFails, TypeOK
  <2> QED
    BY <1>7, <2>1, EmptyConfigOK
    DEF WriteFails, Goto, End, TypeOK, DeletesNameServers, ConfigsWellFormed, PCs, Results
<1>8. ASSUME NEW p \in Procs, Show(p) PROVE IInv'
  BY <1>8, EmptyConfigOK
  DEF Show, Goto, End, TypeOK, DeletesNameServers, ConfigsWellFormed, PCs, Results
<1>9. ASSUME NEW p \in Procs, Delete(p) PROVE IInv'
  <2>1. cmd[p].server \in Servers
    BY <1>9 DEF Delete, Does, Usage, TypeOK, DeletesNameServers, Command
  <2>2. LET n == Without(mem[p], cmd[p].server) IN n \in Config /\ WellFormed(n)
    BY <2>1, WithoutKeeps DEF TypeOK, ConfigsWellFormed
  <2> QED
    BY <1>9, <2>2
    DEF Delete, Goto, TypeOK, DeletesNameServers, ConfigsWellFormed, PCs
<1>10. ASSUME NEW p \in Procs, Set(p) PROVE IInv'
  <2>1. PICK h \in Input(cmd[p].host, Current(p).host),
             u \in Input(cmd[p].user, Current(p).user),
             k \in Input(cmd[p].key, Current(p).key) :
          mem' = [mem EXCEPT ![p] =
                    With(@, NamedServer(cmd[p]),
                         [host |-> h, user |-> u, key |-> k, pass |-> Current(p).pass],
                         cmd[p].pick)]
    BY <1>10 DEF Set
  <2> DEFINE e == [host |-> h, user |-> u, key |-> k, pass |-> Current(p).pass]
             n == With(mem[p], NamedServer(cmd[p]), e, cmd[p].pick)
  <2>2. e \in Entry /\ Complete(e)
    BY SetTypes
  <2>3. NamedServer(cmd[p]) \in Servers /\ cmd[p].pick \in BOOLEAN
    BY NamedServerType DEF TypeOK, Command
  <2>4. n \in Config /\ WellFormed(n)
    <3> HIDE DEF e
    <3> QED BY <1>10, <2>2, <2>3, WithKeeps
            DEF Set, TypeOK, ConfigsWellFormed
  <2>5. mem' = [mem EXCEPT ![p] = n]
    BY <2>1
  <2> HIDE DEF n
  <2> QED
    BY <1>10, <2>4, <2>5
    DEF Set, Goto, TypeOK, DeletesNameServers, ConfigsWellFormed, PCs
<1>11. ASSUME NEW p \in Procs, SetFails(p) PROVE IInv'
  BY <1>11, EmptyConfigOK
  DEF SetFails, Goto, End, TypeOK, DeletesNameServers, ConfigsWellFormed, PCs, Results
<1>12. ASSUME NEW p \in Procs, Resolve(p) PROVE IInv'
  BY <1>12, EmptyConfigOK, ResolutionType
  DEF Resolve, Goto, End, TypeOK, DeletesNameServers, ConfigsWellFormed, PCs, Results
<1>13. ASSUME NEW p \in Procs, Crash(p) PROVE IInv'
  BY <1>13, EmptyConfigOK
  DEF Crash, Goto, End, TypeOK, DeletesNameServers, ConfigsWellFormed, PCs, Results
<1> QED
  BY <1>1, <1>2, <1>3, <1>4, <1>5, <1>6, <1>7, <1>8, <1>9, <1>10, <1>11, <1>12, <1>13
  DEF Next, Step

LEMMA AlwaysIInv == Spec => []IInv
BY InitIInv, NextIInv, PTL DEF Spec

(* Every variable keeps its type.                                          *)
THEOREM TypeCorrect == Spec => []TypeOK
<1>1. IInv => TypeOK
  BY DEF IInv
<1> QED BY <1>1, AlwaysIInv, PTL

(* No sequence of commands, overlapping or killed, writes a config whose   *)
(* default dangles or whose entries are incomplete.                        *)
THEOREM StaysWellFormed == Spec => []ConfigsWellFormed
<1>1. IInv => ConfigsWellFormed
  BY DEF IInv
<1> QED BY <1>1, AlwaysIInv, PTL

(* On a well-formed config the resolution fails on names only.             *)
LEMMA ResolutionOfWellFormed ==
    ASSUME NEW c \in Command, NEW config \in Config, WellFormed(config)
    PROVE  /\ Resolution(c, config) # "incomplete"
           /\ Resolution(c, config) = "unknown" => c.server # None
BY ConstantsAssumption
DEF Resolution, WellFormed, Configured, Complete, Config, Command

(* So a remote command is refused only for the name its operator gave.     *)
THEOREM RefusalsSound == Spec => []RefusalsAreTheOperators
<1>1. Init => RefusalsAreTheOperators
  BY DEF Init, RefusalsAreTheOperators
<1>2. IInv /\ RefusalsAreTheOperators /\ [Next]_vars => RefusalsAreTheOperators'
  <2> SUFFICES ASSUME IInv, RefusalsAreTheOperators, [Next]_vars
               PROVE  RefusalsAreTheOperators'
    OBVIOUS
  <2> USE DEF RefusalsAreTheOperators, Does, IInv, TypeOK
  <2>1. CASE UNCHANGED vars
    BY <2>1 DEF vars
  <2>2. ASSUME NEW p \in Procs, NEW c \in Commands, Begin(p, c)
        PROVE  RefusalsAreTheOperators'
    BY <2>2 DEF Begin, Goto, End
  <2>3. ASSUME NEW p \in Procs, Step(p) \/ Crash(p), ~Resolve(p)
        PROVE  RefusalsAreTheOperators'
    BY <2>3 DEF Step, Crash, LoadFails, Load, OpenFile, WriteFile, WriteFails,
                Show, Delete, Set, SetFails, Goto, End
  <2>4. ASSUME NEW p \in Procs, Resolve(p) PROVE RefusalsAreTheOperators'
    BY <2>4, ResolutionOfWellFormed DEF Resolve, Goto, End, ConfigsWellFormed
  <2> QED BY <2>1, <2>2, <2>3, <2>4 DEF Next
<1> QED BY <1>1, <1>2, AlwaysIInv, PTL DEF Spec

(* A file that nobody can parse, or find, stays so: every command that may *)
(* still run has yet to load it, and fails there.                          *)
THEOREM WedgePermanent == Spec => WedgeIsPermanent
<1>1. ASSUME IInv, [Next]_vars, Wedged PROVE Wedged'
  <2> USE DEF Wedged, IInv, TypeOK
  <2>1. CASE UNCHANGED vars
    BY <1>1, <2>1 DEF vars
  <2>2. ASSUME NEW p \in Procs, NEW c \in Commands, Begin(p, c) PROVE Wedged'
    BY <1>1, <2>2 DEF Begin, Goto, End
  <2>3. ASSUME NEW p \in Procs, LoadFails(p) \/ Crash(p) PROVE Wedged'
    BY <1>1, <2>3 DEF LoadFails, Crash, Goto, End
  <2>4. ASSUME NEW p \in Procs, Step(p), ~LoadFails(p) PROVE FALSE
    BY <1>1, <2>4 DEF Step, Load, OpenFile, WriteFile, WriteFails, Show, Delete,
                      Set, SetFails, Resolve, Broken
  <2> QED BY <1>1, <2>1, <2>2, <2>3, <2>4 DEF Next
<1> QED BY <1>1, AlwaysIInv, PTL DEF Spec, WedgeIsPermanent

(* A missing file holds nothing, and a command that has loaded or created  *)
(* the config holds one with a nil map exactly if the file does.           *)
NilFits ==
    /\ file.state = "absent" => file.data.nilMap = FALSE
    /\ \A p \in Procs : pc[p] \notin {"idle", "load"}
                          => mem[p].nilMap = file.data.nilMap

LEMMA InitNilFits == Init => NilFits
<1> SUFFICES ASSUME Init PROVE NilFits
  OBVIOUS
<1>1. \A c \in HandConfigs : Holding(c).state # "absent"
  BY DEF Holding
<1> QED BY <1>1 DEF Init, NilFits, Absent, EmptyConfig

(* A write of a copy that agrees with the file leaves it as it was.        *)
LEMMA WriteKeepsNil ==
    ASSUME NEW f \in File(Config), NEW d \in Config, d.nilMap = f.data.nilMap,
           NEW g \in Overwrites(f, d) \cup FailedWrites(f) \cup {Truncated(f)}
    PROVE  /\ g.data.nilMap = f.data.nilMap
           /\ g.state = "absent" => f.state = "absent"
BY DEF File, FileStates, Overwrites, FailedWrites, Truncated, Garbled, Holding

(* Neither "set" nor "delete" changes whether the map is nil.              *)
LEMMA EditKeepsNil ==
    ASSUME NEW c \in Config, NEW s, NEW e, NEW k
    PROVE  With(c, s, e, k).nilMap = c.nilMap /\ Without(c, s).nilMap = c.nilMap
BY DEF With, Without, Config

LEMMA NextNilFits ==
    ASSUME IInv, NilFits, [Next]_vars
    PROVE  NilFits' /\ file'.data.nilMap = file.data.nilMap
<1> USE DEF IInv, TypeOK
<1> DEFINE Goal == NilFits' /\ file'.data.nilMap = file.data.nilMap
<1> SUFFICES Goal
  OBVIOUS
<1>1. CASE UNCHANGED vars
  BY <1>1 DEF vars, NilFits
<1>2. ASSUME NEW p \in Procs, NEW c \in Commands, Begin(p, c) PROVE Goal
  BY <1>2 DEF Begin, Goto, End, NilFits
<1>3. ASSUME NEW p \in Procs,
             \/ LoadFails(p) \/ Show(p) \/ SetFails(p) \/ Resolve(p) \/ Crash(p)
      PROVE  Goal
  BY <1>3 DEF LoadFails, Show, SetFails, Resolve, Crash, Goto, End, NilFits
<1>4. ASSUME NEW p \in Procs, Load(p) PROVE Goal
  <2>1. EmptyConfig.nilMap = FALSE
    BY DEF EmptyConfig
  <2>2. /\ mem'[p].nilMap = file.data.nilMap /\ file' = file
        /\ \A q \in Procs : q # p => mem'[q] = mem[q] /\ pc'[q] = pc[q]
    <3>1. CASE file.state = "ok"
      BY <1>4, <3>1 DEF Load, Goto
    <3>2. CASE file.state = "absent"
      BY <1>4, <2>1, <3>2 DEF Load, Goto, NilFits
    <3> QED BY <1>4, <3>1, <3>2 DEF Load
  <2> QED BY <2>2 DEF NilFits
<1>5. ASSUME NEW p \in Procs, OpenFile(p) \/ WriteFile(p) \/ WriteFails(p)
      PROVE  Goal
  <2>1. mem[p].nilMap = file.data.nilMap /\ mem[p] \in Config
    BY <1>5 DEF OpenFile, WriteFile, WriteFails, NilFits
  <2>2. file' \in Overwrites(file, mem[p]) \cup FailedWrites(file) \cup {Truncated(file)}
    BY <1>5 DEF OpenFile, WriteFile, WriteFails
  <2>3. /\ file'.data.nilMap = file.data.nilMap
        /\ file'.state = "absent" => file.state = "absent"
    BY <2>1, <2>2, WriteKeepsNil
  <2>4. \A q \in Procs : pc'[q] \notin {"idle", "load"} =>
                            mem'[q] = mem[q] /\ pc[q] \notin {"idle", "load"}
    BY <1>5 DEF OpenFile, WriteFile, WriteFails, Goto, End
  <2> QED BY <2>3, <2>4 DEF NilFits
<1>6. ASSUME NEW p \in Procs, Delete(p) \/ Set(p) PROVE Goal
  <2>1. /\ mem'[p].nilMap = mem[p].nilMap /\ pc[p] = "act" /\ file' = file
        /\ \A q \in Procs : q # p => mem'[q] = mem[q] /\ pc'[q] = pc[q]
    <3>1. CASE Delete(p)
      BY <3>1, EditKeepsNil DEF Delete, Goto
    <3>2. CASE Set(p)
      <4>1. PICK e : mem' = [mem EXCEPT ![p] = With(@, NamedServer(cmd[p]), e, cmd[p].pick)]
        BY <3>2 DEF Set
      <4> QED BY <3>2, <4>1, EditKeepsNil DEF Set, Goto
    <3> QED BY <1>6, <3>1, <3>2
  <2> QED BY <2>1 DEF NilFits
<1> QED BY <1>1, <1>2, <1>3, <1>4, <1>5, <1>6 DEF Next, Step

(* The tool neither makes a config on which it panics nor mends one.       *)
THEOREM NilMapsStay == Spec => NilMapStays
<1>1. IInv /\ NilFits /\ [Next]_vars => NilFits'
  BY NextNilFits
<1>2. IInv /\ NilFits /\ [Next]_vars => [file'.data.nilMap = file.data.nilMap]_vars
  BY NextNilFits
<1> QED
  BY <1>1, <1>2, InitNilFits, AlwaysIInv, PTL DEF Spec, NilMapStays
-----------------------------------------------------------------------------
(* A missing file has no entries, and a copy differs from the file on      *)
(* entries that have changed since it was loaded, and on the edited one.   *)
CopyAgrees(p) ==
    HoldsCopy(p) => \A s \in Servers \ overtaken[p] :
                      \/ mem[p].servers[s] = file.data.servers[s]
                      \/ pc[p] \in {"save", "saving"} /\ s = NamedServer(cmd[p])

CopiesAgree == /\ file.state = "absent" => file.data.servers = EmptyConfig.servers
               /\ \A p \in Procs : CopyAgrees(p)

(* An edit leaves the entries of all other servers alone.                  *)
LEMMA EditKeepsOthers ==
    ASSUME NEW c \in Config, NEW s, NEW e, NEW k, NEW t \in Servers \ {s}
    PROVE  /\ With(c, s, e, k).servers[t] = c.servers[t]
           /\ Without(c, s).servers[t] = c.servers[t]
BY DEF With, Without, Config

(* What a step may do to the file.                                         *)
LEMMA FileMoves ==
    ASSUME IInv, [Next]_vars, file' # file
    PROVE  \E p \in Procs :
             /\ pc[p] \in {"create", "creating", "save", "saving"} /\ pc'[p] # pc[p]
             /\ file'.state # "absent"
             /\ \/ file'.data = file.data
                \/ pc[p] \in {"creating", "saving"} /\ file'.data = mem[p]
<1> USE DEF IInv, TypeOK, Goto, End
<1>1. PICK p \in Procs : OpenFile(p) \/ WriteFile(p) \/ WriteFails(p)
  BY DEF Next, Step, vars, Begin, LoadFails, Load, Show, Delete, Set, SetFails,
         Resolve, Crash
<1>2. pc'[p] # pc[p] /\ pc[p] \in {"create", "creating", "save", "saving"}
  BY <1>1 DEF OpenFile, WriteFile, WriteFails
<1>3. file' \in Overwrites(file, mem[p]) \cup FailedWrites(file) \cup {Truncated(file)}
  BY <1>1 DEF OpenFile, WriteFile, WriteFails
<1>4. file'.state # "absent"
  BY <1>3 DEF File, Overwrites, FailedWrites, Truncated, Garbled, Holding
<1>5. CASE OpenFile(p) \/ WriteFails(p)
  BY <1>2, <1>4, <1>5 DEF OpenFile, WriteFails, Truncated, FailedWrites, Garbled, File
<1>6. CASE WriteFile(p)
  BY <1>2, <1>4, <1>6 DEF WriteFile, Overwrites, Garbled, Holding, File
<1> QED BY <1>1, <1>5, <1>6

(* What a step may do to a copy.                                           *)
LEMMA CopyMoves ==
    ASSUME IInv, [Next]_vars, NEW p \in Procs, HoldsCopy(p)'
    PROVE  \/ HoldsCopy(p) /\ mem'[p] = mem[p] /\ cmd'[p] = cmd[p]
                /\ (pc[p] \in {"save", "saving"} => pc'[p] \in {"save", "saving"})
           \/ /\ pc[p] = "act" /\ pc'[p] = "save" /\ cmd'[p] = cmd[p]
              /\ \A t \in Servers \ {NamedServer(cmd[p])} :
                    mem'[p].servers[t] = mem[p].servers[t]
           \/ /\ ~HoldsCopy(p) /\ file' = file
              /\ \/ mem'[p] = file.data
                 \/ file.state = "absent" /\ mem'[p] = EmptyConfig
<1> USE DEF IInv, TypeOK, HoldsCopy, Goto, End
<1> DEFINE Goal == \/ HoldsCopy(p) /\ mem'[p] = mem[p] /\ cmd'[p] = cmd[p]
                        /\ (pc[p] \in {"save", "saving"} => pc'[p] \in {"save", "saving"})
                   \/ /\ pc[p] = "act" /\ pc'[p] = "save" /\ cmd'[p] = cmd[p]
                      /\ \A t \in Servers \ {NamedServer(cmd[p])} :
                            mem'[p].servers[t] = mem[p].servers[t]
                   \/ /\ ~HoldsCopy(p) /\ file' = file
                      /\ \/ mem'[p] = file.data
                         \/ file.state = "absent" /\ mem'[p] = EmptyConfig
<1> SUFFICES Goal
  OBVIOUS
<1>1. CASE UNCHANGED vars
  BY <1>1 DEF vars
<1>2. ASSUME NEW q \in Procs, NEW c \in Commands, Begin(q, c) PROVE Goal
  BY <1>2 DEF Begin
<1>3. ASSUME NEW q \in Procs,
             \/ LoadFails(q) \/ Show(q) \/ SetFails(q) \/ Resolve(q) \/ Crash(q)
      PROVE  Goal
  BY <1>3 DEF LoadFails, Show, SetFails, Resolve, Crash
<1>4. ASSUME NEW q \in Procs, Load(q) PROVE Goal
  BY <1>4 DEF Load
<1>5. ASSUME NEW q \in Procs, OpenFile(q) \/ WriteFile(q) \/ WriteFails(q) PROVE Goal
  BY <1>5 DEF OpenFile, WriteFile, WriteFails
<1>6. ASSUME NEW q \in Procs, Delete(q) \/ Set(q) PROVE Goal
  <2>1. CASE q # p
    BY <1>6, <2>1 DEF Delete, Set
  <2>2. CASE Delete(p)
    <3>1. cmd[p].server \in Servers
      BY <2>2 DEF Delete, Does, Usage, DeletesNameServers, Command
    <3>2. NamedServer(cmd[p]) = cmd[p].server
      BY <3>1, ConstantsAssumption DEF NamedServer
    <3>3. mem'[p] = Without(mem[p], cmd[p].server)
      BY <2>2 DEF Delete
    <3>4. \A t \in Servers \ {cmd[p].server} :
              Without(mem[p], cmd[p].server).servers[t] = mem[p].servers[t]
      BY EditKeepsOthers
    <3>5. pc[p] = "act" /\ pc'[p] = "save" /\ cmd'[p] = cmd[p]
      BY <2>2 DEF Delete
    <3> QED BY <3>2, <3>3, <3>4, <3>5
  <2>3. CASE Set(p)
    <3>1. PICK e : mem' = [mem EXCEPT ![p] = With(@, NamedServer(cmd[p]), e, cmd[p].pick)]
      BY <2>3 DEF Set
    <3>2. mem'[p] = With(mem[p], NamedServer(cmd[p]), e, cmd[p].pick)
      BY <3>1
    <3> QED BY <2>3, <3>2, EditKeepsOthers DEF Set
  <2> QED BY <1>6, <2>1, <2>2, <2>3
<1> QED BY <1>1, <1>2, <1>3, <1>4, <1>5, <1>6 DEF Next, Step

LEMMA NextCopiesAgree ==
    ASSUME IInv, CopiesAgree, [Next /\ Note]_<<vars, overtaken>> PROVE CopiesAgree'
<1>1. [Next]_vars
  BY DEF vars
<1>2. file'.state = "absent" => file'.data.servers = EmptyConfig.servers
  <2>1. CASE file' = file
    BY <2>1 DEF CopiesAgree
  <2>2. CASE file' # file
    BY <1>1, <2>2, FileMoves DEF CopiesAgree
  <2> QED BY <2>1, <2>2
<1>3. CASE UNCHANGED <<vars, overtaken>>
  BY <1>3 DEF vars, CopiesAgree, CopyAgrees, HoldsCopy
<1>4. CASE Next /\ Note
  <2> SUFFICES ASSUME NEW p \in Procs, HoldsCopy(p)', NEW s \in Servers \ overtaken'[p]
               PROVE  \/ mem'[p].servers[s] = file'.data.servers[s]
                      \/ pc'[p] \in {"save", "saving"} /\ s = NamedServer(cmd'[p])
    BY <1>2 DEF CopiesAgree, CopyAgrees
  <2>1. CASE HoldsCopy(p)
    <3>1. s \notin overtaken[p] /\ file'.data.servers[s] = file.data.servers[s]
      BY <1>4, <2>1 DEF Note, Moved
    <3>2. \/ mem[p].servers[s] = file.data.servers[s]
          \/ pc[p] \in {"save", "saving"} /\ s = NamedServer(cmd[p])
      BY <2>1, <3>1 DEF CopiesAgree, CopyAgrees
    <3> QED BY <1>1, <2>1, <3>1, <3>2, CopyMoves
  <2>2. CASE ~HoldsCopy(p)
    BY <1>1, <2>2, CopyMoves DEF CopiesAgree, HoldsCopy
  <2> QED BY <2>1, <2>2
<1> QED BY <1>3, <1>4

(* For any number of operators: an entry changes only where a command for  *)
(* its server writes it, or where a stale copy of it is written back.      *)
THEOREM OverlapsOnly == OverlapSpec => WritesUndoOverlapsOnly
<1>1. Init => CopiesAgree
  BY DEF Init, CopiesAgree, CopyAgrees, HoldsCopy, Absent, Holding
<1>2. IInv /\ [Next /\ Note]_<<vars, overtaken>> => IInv'
  BY NextIInv DEF vars
<1>3. IInv /\ CopiesAgree /\ [Next /\ Note]_<<vars, overtaken>> => CopiesAgree'
  BY NextCopiesAgree
<1>4. ASSUME IInv, CopiesAgree, [Next /\ Note]_<<vars, overtaken>>, NEW s \in Moved
      PROVE  \E p \in Procs : /\ pc[p] \in {"creating", "saving"} /\ pc'[p] # pc[p]
                              /\ \/ pc[p] = "saving" /\ s = NamedServer(cmd[p])
                                 \/ s \in overtaken[p]
  <2>1. PICK p \in Procs : /\ pc[p] \in {"creating", "saving"} /\ pc'[p] # pc[p]
                           /\ file'.data = mem[p]
    <3>1. [Next]_vars /\ file' # file /\ file'.data # file.data
      BY <1>4 DEF vars, Moved
    <3> QED BY <1>4, <3>1, FileMoves
  <2>2. \/ pc[p] = "saving" /\ s = NamedServer(cmd[p])
        \/ s \in overtaken[p]
    BY <1>4, <2>1 DEF CopiesAgree, CopyAgrees, HoldsCopy, Moved
  <2> QED BY <2>1, <2>2
<1>5. IInv /\ CopiesAgree /\ [Next /\ Note]_<<vars, overtaken>> =>
        \A s \in Moved : \E p \in Procs :
          /\ pc[p] \in {"creating", "saving"} /\ pc'[p] # pc[p]
          /\ \/ pc[p] = "saving" /\ s = NamedServer(cmd[p])
             \/ s \in overtaken[p]
  BY <1>4
<1> QED BY <1>1, <1>2, <1>3, <1>5, InitIInv, PTL
        DEF OverlapSpec, OverlapInit, OverlapNext, WritesUndoOverlapsOnly
-----------------------------------------------------------------------------
(* With one operator at a time, ClientConfig implements ConfigStore.       *)
OneOperator == \A p, q \in Procs : p = q

StoreEntry == [host : Values, user : Values, key : Values,
               pass : Values \cup {None}]

PassOf(c, s) == IF c.servers[s] = NoEntry THEN None ELSE c.servers[s].pass

(* n is c after one "set" or "delete".                                     *)
Edited(c, n) ==
    \E s \in Servers :
        \/ n = Without(c, s)
        \/ \E e \in StoreEntry, k \in BOOLEAN :
             e.pass = PassOf(c, s) /\ n = With(c, s, e, k)

(* The file as p's command has left it: nobody else touches it.            *)
FileFits(p) ==
    /\ pc[p] = "create" => file.state = "absent"
    /\ pc[p] = "creating" => file.state = "empty"
    /\ pc[p] \in {"create", "creating"} => mem[p] = EmptyConfig
    /\ pc[p] \in {"act", "save"} => file.state = "ok"
    /\ pc[p] = "act" => file.data = mem[p]
    /\ pc[p] = "saving" => file.state = "empty"
    /\ pc[p] \in {"save", "saving"} => Edited(file.data, mem[p])

FileInv == \A p \in Procs : FileFits(p)
-----------------------------------------------------------------------------
LEMMA CompleteIsStored ==
    ASSUME NEW e \in Entry, Complete(e) PROVE e \in StoreEntry
BY DEF StoreEntry, Entry, Complete, Text

LEMMA SetIsEdit ==
    ASSUME IInv, NEW p \in Procs, Set(p), file.data = mem[p]
    PROVE  Edited(file.data, mem'[p])
<1> USE DEF IInv, TypeOK
<1>1. PICK h \in Input(cmd[p].host, Current(p).host),
           u \in Input(cmd[p].user, Current(p).user),
           k \in Input(cmd[p].key, Current(p).key) :
        mem' = [mem EXCEPT ![p] =
                  With(@, NamedServer(cmd[p]),
                       [host |-> h, user |-> u, key |-> k, pass |-> Current(p).pass],
                       cmd[p].pick)]
  BY Zenon DEF Set
<1> DEFINE e == [host |-> h, user |-> u, key |-> k, pass |-> Current(p).pass]
           s == NamedServer(cmd[p])
<1>2. e \in Entry /\ Complete(e)
  BY SetTypes
<1>3. e \in StoreEntry
  BY <1>2, CompleteIsStored
<1>4. s \in Servers /\ cmd[p].pick \in BOOLEAN
  BY NamedServerType DEF Command
<1>5. Current(p).pass = PassOf(mem[p], s)
  BY DEF Current, PassOf
<1>6. e.pass = PassOf(mem[p], s)
  BY <1>5
<1>7. mem'[p] = With(mem[p], s, e, cmd[p].pick)
  <2>1. mem' = [mem EXCEPT ![p] = With(mem[p], s, e, cmd[p].pick)]
    BY <1>1
  <2> HIDE DEF e, s
  <2> QED BY <2>1
<1> HIDE DEF e, s
<1> QED BY <1>3, <1>4, <1>6, <1>7 DEF Edited

LEMMA NextFileInv ==
    ASSUME OneOperator PROVE IInv /\ FileInv /\ [Next]_vars => FileInv'
<1> SUFFICES ASSUME IInv, FileInv, [Next]_vars PROVE FileInv'
  OBVIOUS
<1>1. CASE UNCHANGED vars
  BY <1>1 DEF vars, FileInv, FileFits
<1>2. ASSUME NEW p \in Procs, (\E c \in Commands : Begin(p, c)) \/ Step(p) \/ Crash(p)
      PROVE  FileFits(p)'
  <2> USE DEF FileFits, Goto, End
  <2>0. /\ FileFits(p) /\ pc \in [Procs -> PCs] /\ mem \in [Procs -> Config]
        /\ cmd[p] \in Command /\ file \in File(Config)
    BY DEF FileInv, IInv, TypeOK
  <2>1. CASE \E c \in Commands : Begin(p, c)
    BY <2>0, <2>1 DEF Begin
  <2>2. CASE \/ LoadFails(p) \/ Show(p) \/ SetFails(p) \/ Resolve(p) \/ Crash(p)
             \/ WriteFails(p)
    BY <2>0, <2>2 DEF LoadFails, Show, SetFails, Resolve, Crash, WriteFails
  <2>3. CASE Load(p)
    BY <2>0, <2>3 DEF Load
  <2>4. CASE OpenFile(p)
    <3>1. file'.state = "empty" /\ file'.data = file.data
      BY <2>0, <2>4 DEF OpenFile, Truncated, File
    <3> QED BY <2>0, <2>4, <3>1 DEF OpenFile
  <2>5. CASE WriteFile(p)
    BY <2>0, <2>5 DEF WriteFile, Overwrites, Holding
  <2>6. CASE Delete(p)
    <3>1. cmd[p].server \in Servers
      BY <2>0, <2>6 DEF Delete, Does, Usage, IInv, DeletesNameServers, Command
    <3>2. Edited(file.data, mem'[p])
      BY <2>0, <2>6, <3>1 DEF Delete, Edited
    <3> QED BY <2>0, <2>6, <3>2 DEF Delete
  <2>7. CASE Set(p)
    <3>1. file.data = mem[p]
      BY <2>0, <2>7 DEF Set
    <3>2. Edited(file.data, mem'[p])
      BY <2>7, <3>1, SetIsEdit
    <3> QED BY <2>0, <2>7, <3>2 DEF Set
  <2> QED BY <1>2, <2>1, <2>2, <2>3, <2>4, <2>5, <2>6, <2>7 DEF Step
<1> QED BY <1>1, <1>2 DEF Next, FileInv, OneOperator

(* The files a session starts with are stores.                             *)
LEMMA InitStore == Init => Store!Init /\ FileInv
<1> SUFFICES ASSUME Init PROVE Store!Init /\ FileInv
  OBVIOUS
<1>1. file.state \in {"absent", "ok"} /\ file.data \in Config /\ WellFormed(file.data)
  BY EmptyConfigOK, ConstantsAssumption DEF Init, Absent, Holding
<1>2. StoreStatus \in {"absent", "present"}
  BY <1>1 DEF StoreStatus
<1>3. file.data.servers \in [Servers -> Store!Entry \cup {NoEntry}]
  <2>1. ASSUME NEW e \in Entry, Complete(e) PROVE e \in Store!Entry
    BY <2>1, CompleteIsStored DEF StoreEntry, Store!Entry
  <2>2. file.data.servers \in [Servers -> Entry \cup {NoEntry}]
    BY <1>1 DEF Config
  <2>3. ASSUME NEW s \in Servers
        PROVE  file.data.servers[s] \in Store!Entry \cup {NoEntry}
    <3> DEFINE e == file.data.servers[s]
    <3>1. e \in Entry \cup {NoEntry} /\ (e # NoEntry => Complete(e))
      BY <1>1, <2>2 DEF WellFormed, Configured
    <3> HIDE DEF e
    <3>2. e \in Store!Entry \cup {NoEntry}
      BY <2>1, <3>1
    <3> QED BY <3>2 DEF e
  <2> QED BY <2>2, <2>3
<1>4. file.data.default \in {None} \cup {s \in Servers : file.data.servers[s] # NoEntry}
  BY <1>1 DEF WellFormed, Configured
<1>5. FileInv
  BY DEF Init, FileInv, FileFits
<1> QED BY <1>2, <1>3, <1>4, <1>5 DEF Store!Init

LEMMA EditIsStep ==
    ASSUME NEW c \in Config, NEW n, Edited(c, n),
           StoreStatus = "present", StoreStatus' = "present",
           file.data = c, file'.data = n
    PROVE  Store!Next
<1>1. PICK s \in Servers :
        \/ n = Without(c, s)
        \/ \E e \in StoreEntry, k \in BOOLEAN :
             e.pass = PassOf(c, s) /\ n = With(c, s, e, k)
  BY DEF Edited
<1>2. CASE n = Without(c, s)
  <2>1. /\ n.servers = [c.servers EXCEPT ![s] = NoEntry]
        /\ n.default = IF c.default = s THEN None ELSE c.default
    BY <1>2 DEF Without, Config
  <2>2. Store!DeleteServer(s)
    BY <2>1 DEF Store!DeleteServer
  <2> QED BY <2>2 DEF Store!Next
<1>3. ASSUME NEW e \in StoreEntry, NEW k \in BOOLEAN,
             e.pass = PassOf(c, s), n = With(c, s, e, k)
      PROVE  Store!Next
  <2>1. /\ n.servers = [c.servers EXCEPT ![s] = e]
        /\ n.default = IF k \/ c.default = None THEN s ELSE c.default
    BY <1>3 DEF With, Config
  <2>2. n.default \in {c.default, s} /\ n.default # None
    BY <2>1, ConstantsAssumption
  <2>3. Store!SetServer(s, e)
    BY <1>3, <2>1, <2>2 DEF Store!SetServer, Store!Passphrase, PassOf
  <2>4. e \in Store!Entry
    BY DEF StoreEntry, Store!Entry
  <2> QED BY <2>3, <2>4 DEF Store!Next
<1> QED BY <1>1, <1>2, <1>3

(* Every step of the file is a step of the store or none.                  *)
LEMMA StepIsStep ==
    ASSUME OneOperator
    PROVE  IInv /\ FileInv /\ [Next]_vars => [Store!Next]_Store!vars
<1> SUFFICES ASSUME IInv, FileInv, [Next]_vars PROVE [Store!Next]_Store!vars
  OBVIOUS
<1> USE DEF Goto, End
<1>1. CASE UNCHANGED vars
  BY <1>1 DEF vars, StoreStatus, Writing, Store!vars
<1>2. ASSUME NEW p \in Procs, (\E c \in Commands : Begin(p, c)) \/ Step(p) \/ Crash(p)
      PROVE  [Store!Next]_Store!vars
  <2>1. \A l : Writing(l) <=> pc[p] = l
    BY DEF OneOperator, Writing
  <2>2. \A l : Writing(l)' <=> pc'[p] = l
    BY DEF OneOperator, Writing
  <2>3. /\ FileFits(p) /\ pc \in [Procs -> PCs] /\ mem[p] \in Config
        /\ file \in File(Config)
    BY DEF FileInv, IInv, TypeOK
  <2>4. /\ StoreStatus = IF file.state = "ok" THEN "present"
                         ELSE IF file.state = "absent" \/ pc[p] = "creating" THEN "absent"
                         ELSE IF pc[p] = "saving" THEN "present" ELSE "lost"
        /\ StoreStatus' = IF file'.state = "ok" THEN "present"
                          ELSE IF file'.state = "absent" \/ pc'[p] = "creating" THEN "absent"
                          ELSE IF pc'[p] = "saving" THEN "present" ELSE "lost"
    BY <2>1, <2>2 DEF StoreStatus
  <2>5. ASSUME StoreStatus' = StoreStatus, file'.data = file.data
        PROVE  [Store!Next]_Store!vars
    BY <2>5 DEF Store!vars
  <2>6. ASSUME StoreStatus' = "lost", file'.data = file.data
        PROVE  [Store!Next]_Store!vars
    <3>1. CASE StoreStatus = "lost"
      BY <2>5, <2>6, <3>1
    <3>2. CASE StoreStatus # "lost"
      BY <2>6, <3>2 DEF Store!Next, Store!Lose
    <3> QED BY <3>1, <3>2
  <2>7. CASE \/ \E c \in Commands : Begin(p, c)
             \/ LoadFails(p) \/ Load(p) \/ Show(p) \/ Delete(p) \/ Set(p)
             \/ SetFails(p) \/ Resolve(p)
    <3>1. file' = file /\ {pc[p], pc'[p]} \cap {"creating", "saving"} = {}
      BY <2>3, <2>7 DEF Begin, LoadFails, Load, Show, Delete, Set, SetFails, Resolve
    <3> QED BY <2>4, <2>5, <3>1
  <2>8. CASE OpenFile(p)
    <3>1. file'.state = "empty" /\ file'.data = file.data
      BY <2>3, <2>8 DEF OpenFile, Truncated, File
    <3> QED BY <2>3, <2>4, <2>5, <2>8, <3>1 DEF OpenFile, FileFits
  <2>9. CASE WriteFile(p)
    <3>1. file' = Holding(mem[p])
      BY <2>3, <2>9 DEF WriteFile, Overwrites, FileFits
    <3>2. StoreStatus' = "present" /\ file'.data = mem[p]
      BY <2>4, <3>1 DEF Holding
    <3>3. CASE pc[p] = "creating"
      <4>1. StoreStatus = "absent" /\ mem[p] = EmptyConfig
        BY <2>3, <2>4, <3>3 DEF FileFits
      <4>2. Store!Create
        BY <3>2, <4>1 DEF Store!Create, EmptyConfig
      <4> QED BY <4>2 DEF Store!Next
    <3>4. CASE pc[p] = "saving"
      <4>1. StoreStatus = "present" /\ Edited(file.data, mem[p]) /\ file.data \in Config
        BY <2>3, <2>4, <3>4 DEF FileFits, File
      <4> QED BY <3>2, <4>1, EditIsStep
    <3> QED BY <2>9, <3>3, <3>4 DEF WriteFile
  <2>10. CASE WriteFails(p)
    <3>1. file'.state \in {"empty", "garbled"} /\ file'.data = file.data
      BY <2>3, <2>10 DEF WriteFails, FailedWrites, Garbled, File, FileFits
    <3>2. StoreStatus' = "lost"
      BY <2>3, <2>4, <2>10, <3>1 DEF WriteFails
    <3> QED BY <2>6, <3>1, <3>2
  <2>11. CASE Crash(p)
    <3>1. file' = file /\ pc'[p] = "idle"
      BY <2>3, <2>11 DEF Crash
    <3>2. CASE pc[p] \in {"creating", "saving"}
      <4>1. StoreStatus' = "lost"
        BY <2>3, <2>4, <3>1, <3>2 DEF FileFits
      <4> QED BY <2>6, <3>1, <4>1
    <3>3. CASE pc[p] \notin {"creating", "saving"}
      BY <2>4, <2>5, <3>1, <3>3
    <3> QED BY <3>2, <3>3
  <2> QED BY <1>2, <2>7, <2>8, <2>9, <2>10, <2>11 DEF Step
<1> QED BY <1>1, <1>2 DEF Next

(* A single operator's commands, killed or failing anywhere, change one    *)
(* entry at a time in a single step, or lose the store as a whole.         *)
THEOREM Refinement == ASSUME OneOperator PROVE Spec => ImplementsStore
<1>1. IInv /\ FileInv /\ [Next]_vars => FileInv'
  BY NextFileInv
<1>2. IInv /\ FileInv /\ [Next]_vars => [Store!Next]_Store!vars
  BY StepIsStep
<1> QED BY <1>1, <1>2, InitStore, AlwaysIInv, PTL
        DEF Spec, ImplementsStore, Store!Spec
=============================================================================
