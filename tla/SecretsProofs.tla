--------------------------- MODULE SecretsProofs ---------------------------
(***************************************************************************)
(* Secrets for every number of operators, names, values and volumes, and   *)
(* Smt: secrets and deploys on one server, for every number of both.       *)
(***************************************************************************)
EXTENDS Smt, SecretsOverlap, TLAPS

(* How far smt.json, f, has got by the time the command c, with the names  *)
(* m in memory, is at l.                                                   *)
NamesFit(l, c, m, f) ==
    /\ l \in {"lookup", "ls", "ask", "ensure", "act", "save"} => f.state = "ok"
    /\ l \in {"lookup", "ls", "ask", "ensure", "act"} => f.data = m
    /\ l = "saving" => f.state = "empty"
    /\ l \in {"save", "saving"} => (c.name \in m) = (c.action = "set")
    /\ l \in {"saved", "put", "putting", "rm"} =>
         f.state = "ok" /\ (c.name \in f.data) = (c.action = "set")
    /\ l \in {"save", "saving", "saved"} => c.action \in {"set", "remove"}
    /\ l \in {"put", "putting"} => c.action = "set"
    /\ l = "rm" => c.action = "remove"
    /\ l = "cat" => c.action = "show"

IInv == TypeOK /\ \A p \in Procs : NamesFit(pc[p], cmd[p], mem[p], local[p])

VolumesOK == /\ volumes \subseteq Volumes /\ unlinked \subseteq Procs
             /\ stored \in [Names -> File(Values \cup {NoValue})]
-----------------------------------------------------------------------------
LEMMA FileWrites ==
    ASSUME NEW Data, NEW f \in File(Data), NEW d \in Data
    PROVE  /\ Overwrites(f, d) \subseteq File(Data)
           /\ FailedWrites(f) \subseteq File(Data)
           /\ f.state = "empty" => Overwrites(f, d) = {Holding(d)}
BY DEF File, FileStates, Overwrites, FailedWrites, Truncated, Garbled, Holding

LEMMA InitIInv == Init => IInv
<1> SUFFICES ASSUME Init PROVE IInv
  OBVIOUS
<1>1. local \in [Procs -> File(SUBSET Names)]
  BY ConstantsAssumption DEF Init, Holding, File, FileStates
<1>2. cmd \in [Procs -> Command]
  BY ConstantsAssumption DEF Init
<1>3. stored \in [Names -> File(Values \cup {NoValue})]
  BY DEF Init, Absent, File, FileStates
<1> QED BY <1>1, <1>2, <1>3 DEF Init, IInv, TypeOK, NamesFit, PCs, Results

(* A step of p that takes it to l, with smt.json as f and what it has      *)
(* loaded as m and e.                                                      *)
LEMMA MoveKeeps ==
    ASSUME IInv, VolumesOK', NEW p \in Procs, NEW l \in PCs, NEW r \in Results,
           NEW f \in File(SUBSET Names), NEW m \in SUBSET Names, NEW e \in SUBSET Names,
           pc' = [pc EXCEPT ![p] = l], local' = [local EXCEPT ![p] = f],
           mem' = [mem EXCEPT ![p] = m], entries' = [entries EXCEPT ![p] = e],
           result' = [result EXCEPT ![p] = r], cmd' = cmd,
           NamesFit(l, cmd[p], m, f)
    PROVE  IInv'
<1>1. TypeOK'
  BY DEF IInv, TypeOK, VolumesOK
<1>2. ASSUME NEW q \in Procs PROVE NamesFit(pc[q], cmd[q], mem[q], local[q])'
  <2>1. CASE q = p
    BY <2>1 DEF IInv, TypeOK, NamesFit
  <2>2. CASE q # p
    BY <2>2 DEF IInv, TypeOK, NamesFit
  <2> QED BY <2>1, <2>2
<1> QED BY <1>1, <1>2 DEF IInv

LEMMA EndKeeps ==
    ASSUME IInv, VolumesOK', NEW p \in Procs, NEW r \in Results, End(p, r), cmd' = cmd,
           NEW f \in File(SUBSET Names), local' = [local EXCEPT ![p] = f]
    PROVE  IInv'
<1>1. NamesFit("idle", cmd[p], {}, f) /\ "idle" \in PCs /\ {} \in SUBSET Names
  BY DEF NamesFit, PCs
<1>2. /\ pc' = [pc EXCEPT ![p] = "idle"] /\ result' = [result EXCEPT ![p] = r]
      /\ mem' = [mem EXCEPT ![p] = {}] /\ entries' = [entries EXCEPT ![p] = {}]
  BY DEF End
<1> QED BY <1>1, <1>2, MoveKeeps

LEMMA ContinueKeeps ==
    ASSUME IInv, VolumesOK', NEW p \in Procs, NEW l \in PCs, Continue(p, l), cmd' = cmd,
           NEW f \in File(SUBSET Names), local' = [local EXCEPT ![p] = f],
           NamesFit(l, cmd[p], mem[p], f)
    PROVE  IInv'
<1>1. /\ mem' = [mem EXCEPT ![p] = mem[p]] /\ mem[p] \in SUBSET Names
      /\ entries' = [entries EXCEPT ![p] = entries[p]] /\ entries[p] \in SUBSET Names
      /\ result' = [result EXCEPT ![p] = result[p]] /\ result[p] \in Results
      /\ pc' = [pc EXCEPT ![p] = l]
  BY DEF IInv, TypeOK, Continue, Goto
<1> QED BY <1>1, MoveKeeps

(* The same for a step that leaves smt.json alone.                         *)
LEMMA RemoteKeeps ==
    ASSUME IInv, VolumesOK', NEW p \in Procs, UNCHANGED <<local, cmd>>,
           \/ \E r \in Results : End(p, r)
           \/ \E l \in PCs : Continue(p, l) /\ NamesFit(l, cmd[p], mem[p], local[p])
    PROVE  IInv'
<1>1. local' = [local EXCEPT ![p] = local[p]] /\ local[p] \in File(SUBSET Names)
      /\ cmd' = cmd
  BY DEF IInv, TypeOK
<1>2. CASE \E r \in Results : End(p, r)
  BY <1>1, <1>2, EndKeeps
<1>3. CASE \E l \in PCs : Continue(p, l) /\ NamesFit(l, cmd[p], mem[p], local[p])
  BY <1>1, <1>3, ContinueKeeps
<1> QED BY <1>2, <1>3

(* What "set" and "remove" do to the files of the volume.                  *)
LEMMA SecretWrites ==
    ASSUME IInv, NEW p \in Procs,
           OpenSecret(p) \/ WriteSecret(p) \/ RemoveSecret(p)
    PROVE  /\ stored' \in [Names -> File(Values \cup {NoValue})]
           /\ unlinked' \subseteq Procs
           /\ \A n \in Names \ {cmd[p].name} : stored'[n] = stored[n]
<1> DEFINE F == File(Values \cup {NoValue})
           n == cmd[p].name
<1> USE DEF IInv, TypeOK
<1>1. n \in Names /\ cmd[p].value \in Values /\ stored[n] \in F
  BY DEF Command
<1>2. Absent(NoValue) \in F /\ Truncated(Absent(NoValue)) \in F
  BY DEF Absent, Truncated, File, FileStates
<1>3. Overwrites(stored[n], cmd[p].value) \subseteq F /\ FailedWrites(stored[n]) \subseteq F
  BY <1>1, FileWrites
<1> HIDE DEF F
<1>4. stored \in [Names -> F]
  BY DEF F
<1>5. CASE OpenSecret(p)
  BY <1>1, <1>2, <1>4, <1>5 DEF OpenSecret, F
<1>6. CASE WriteSecret(p)
  BY <1>1, <1>3, <1>4, <1>6 DEF WriteSecret, Puts, F
<1>7. CASE RemoveSecret(p)
  BY <1>1, <1>2, <1>4, <1>7 DEF RemoveSecret, F
<1> QED BY <1>5, <1>6, <1>7

LEMMA StepIInv ==
    ASSUME IInv, NEW p \in Procs, Step(p) \/ Crash(p) PROVE IInv'
<1>1. /\ cmd[p].name \in Names /\ cmd[p].value \in Values
      /\ cmd[p].action \in {"list", "set", "remove", "show"}
      /\ Volume \in Volumes /\ Present \in SUBSET Names
  BY ConstantsAssumption DEF Command, Present, IInv, TypeOK
<1>2. NamesFit(pc[p], cmd[p], mem[p], local[p]) /\ VolumesOK
  BY DEF IInv, TypeOK, VolumesOK
<1>3. CASE \/ LookupVolume(p) \/ Ask(p) \/ List(p) \/ Show(p) \/ PromptValue(p)
           \/ CheckEntry(p) \/ Crash(p)
  <2>1. VolumesOK' /\ UNCHANGED <<local, cmd>>
    BY <1>2, <1>3 DEF LookupVolume, Ask, List, Show, PromptValue, CheckEntry,
                      Crash, VolumesOK
  <2>2. \/ \E r \in Results : End(p, r)
        \/ \E l \in PCs : Continue(p, l) /\ NamesFit(l, cmd[p], mem[p], local[p])
    BY <1>2, <1>3 DEF LookupVolume, Ask, List, Show, PromptValue, CheckEntry,
                      Crash, NamesFit, PCs, Results, Does
  <2> QED BY <2>1, <2>2, RemoteKeeps
<1>4. CASE \/ EnsureVolume(p) \/ Cat(p) \/ OpenSecret(p) \/ WriteSecret(p)
           \/ RemoveSecret(p)
  <2>1. VolumesOK' /\ UNCHANGED <<local, cmd>>
    BY <1>1, <1>2, <1>4, SecretWrites
       DEF EnsureVolume, Cat, OpenSecret, WriteSecret, RemoveSecret, VolumesOK,
           Ensured, Mounted
  <2>2. \/ \E r \in Results : End(p, r)
        \/ \E l \in PCs : Continue(p, l) /\ NamesFit(l, cmd[p], mem[p], local[p])
    BY <1>2, <1>4 DEF EnsureVolume, Cat, OpenSecret, WriteSecret, RemoveSecret,
                      NamesFit, PCs, Results
  <2> QED BY <2>1, <2>2, RemoteKeeps
<1>5. CASE ListVolume(p)
  <2>1. VolumesOK'
    BY <1>1, <1>2, <1>5 DEF ListVolume, VolumesOK, Mounted
  <2>2. /\ local' = [local EXCEPT ![p] = local[p]] /\ local[p] \in File(SUBSET Names)
        /\ mem' = [mem EXCEPT ![p] = mem[p]] /\ mem[p] \in SUBSET Names
        /\ result' = [result EXCEPT ![p] = result[p]] /\ result[p] \in Results
        /\ pc' = [pc EXCEPT ![p] = "act"] /\ "act" \in PCs
        /\ entries' = [entries EXCEPT ![p] = Present] /\ cmd' = cmd
    BY <1>5 DEF ListVolume, Goto, IInv, TypeOK, PCs
  <2>3. NamesFit("act", cmd[p], mem[p], local[p])
    BY <1>2, <1>5 DEF ListVolume, NamesFit
  <2> QED BY <1>1, <2>1, <2>2, <2>3, MoveKeeps
<1>6. CASE EditNames(p)
  <2> DEFINE new == IF Does(p, "set") THEN mem[p] \cup {cmd[p].name}
                    ELSE mem[p] \ {cmd[p].name}
             l == IF new = mem[p] THEN "saved" ELSE "save"
  <2>1. VolumesOK'
    BY <1>2, <1>6 DEF EditNames, VolumesOK
  <2>2. new \in SUBSET Names /\ l \in PCs
    BY <1>1 DEF IInv, TypeOK, PCs
  <2>3. NamesFit(l, cmd[p], new, local[p])
    BY <1>1, <1>2, <1>6 DEF EditNames, NamesFit, Does
  <2>4. /\ pc' = [pc EXCEPT ![p] = l] /\ mem' = [mem EXCEPT ![p] = new] /\ cmd' = cmd
        /\ local' = [local EXCEPT ![p] = local[p]] /\ local[p] \in File(SUBSET Names)
        /\ result' = [result EXCEPT ![p] = result[p]] /\ result[p] \in Results
        /\ entries' = [entries EXCEPT ![p] = entries[p]] /\ entries[p] \in SUBSET Names
    BY <1>6 DEF EditNames, Goto, IInv, TypeOK
  <2> HIDE DEF new, l
  <2> QED BY <2>1, <2>2, <2>3, <2>4, MoveKeeps
<1>7. CASE OpenNames(p)
  <2>0. local[p] \in File(SUBSET Names)
    BY DEF IInv, TypeOK
  <2>1. Truncated(local[p]) \in File(SUBSET Names) /\ Truncated(local[p]).state = "empty"
    BY <2>0 DEF Truncated, File, FileStates
  <2>2. NamesFit("saving", cmd[p], mem[p], Truncated(local[p])) /\ "saving" \in PCs
    BY <1>2, <1>7, <2>1 DEF OpenNames, NamesFit, PCs
  <2>3. VolumesOK' /\ local' = [local EXCEPT ![p] = Truncated(local[p])]
    BY <1>2, <1>7 DEF OpenNames, VolumesOK
  <2> QED BY <1>7, <2>1, <2>2, <2>3, ContinueKeeps DEF OpenNames
<1>8. CASE WriteNames(p)
  <2>1. VolumesOK'
    BY <1>2, <1>8 DEF WriteNames, VolumesOK
  <2>2. local[p] \in File(SUBSET Names) /\ mem[p] \in SUBSET Names
    BY DEF IInv, TypeOK
  <2>3. /\ Overwrites(local[p], mem[p]) = {Holding(mem[p])}
        /\ Overwrites(local[p], mem[p]) \subseteq File(SUBSET Names)
        /\ FailedWrites(local[p]) \subseteq File(SUBSET Names)
    <3>1. local[p].state = "empty"
      BY <1>2, <1>8 DEF WriteNames, NamesFit
    <3> DEFINE Lists == SUBSET Names
    <3>2. local[p] \in File(Lists) /\ mem[p] \in Lists
      BY <2>2
    <3> HIDE DEF Lists
    <3>3. /\ Overwrites(local[p], mem[p]) = {Holding(mem[p])}
          /\ Overwrites(local[p], mem[p]) \subseteq File(Lists)
          /\ FailedWrites(local[p]) \subseteq File(Lists)
      BY <3>1, <3>2, FileWrites
    <3> QED BY <3>3 DEF Lists
  <2>4. NamesFit("saved", cmd[p], mem[p], Holding(mem[p])) /\ "saved" \in PCs
    BY <1>2, <1>8 DEF WriteNames, NamesFit, Holding, PCs
  <2>5. CASE Continue(p, "saved") /\ local' = [local EXCEPT ![p] = Holding(mem[p])]
    BY <1>8, <2>1, <2>3, <2>4, <2>5, ContinueKeeps DEF WriteNames
  <2>6. CASE /\ End(p, "write-error")
             /\ \E f \in FailedWrites(local[p]) : local' = [local EXCEPT ![p] = f]
    BY <1>8, <2>1, <2>3, <2>6, EndKeeps DEF WriteNames, Results
  <2> QED BY <1>8, <2>3, <2>5, <2>6 DEF WriteNames
<1> QED BY <1>3, <1>4, <1>5, <1>6, <1>7, <1>8 DEF Step

LEMMA NextIInv == IInv /\ [Next]_vars => IInv'
<1> SUFFICES ASSUME IInv, [Next]_vars PROVE IInv'
  OBVIOUS
<1>1. CASE UNCHANGED vars
  BY <1>1 DEF vars, IInv, TypeOK, NamesFit
<1>2. ASSUME NEW p \in Procs, NEW c \in Commands, Begin(p, c) PROVE IInv'
  <2>1. TypeOK'
    BY <1>2, ConstantsAssumption DEF Begin, End, IInv, TypeOK, PCs, Results,
                                     File
  <2>2. ASSUME NEW q \in Procs PROVE NamesFit(pc[q], cmd[q], mem[q], local[q])'
    BY <1>2 DEF Begin, End, IInv, TypeOK, NamesFit
  <2> QED BY <2>1, <2>2 DEF IInv
<1>3. CASE Elsewhere
  BY <1>3, ConstantsAssumption DEF Elsewhere, Ensured, Mounted, IInv, TypeOK,
                                   NamesFit
<1> QED BY <1>1, <1>2, <1>3, StepIInv DEF Next, Own

LEMMA AlwaysIInv == Spec => []IInv
BY InitIInv, NextIInv, PTL DEF Spec

(* Every variable keeps its type.                                          *)
THEOREM TypeCorrect == Spec => []TypeOK
<1>1. IInv => TypeOK
  BY DEF IInv
<1> QED BY <1>1, AlwaysIInv, PTL
-----------------------------------------------------------------------------
(* Write-ahead order: the volume changes only under a command whose own    *)
(* smt.json already says so.                                               *)
THEOREM WriteAhead == Spec => NamesGoFirst
<1>1. ASSUME IInv, [Next]_vars, NEW p \in Procs, pc[p] # pc'[p], stored' # stored
      PROVE  /\ pc[p] # "idle"
             /\ local[p].state = "ok"
             /\ (cmd[p].name \in local[p].data) = (stored'[cmd[p].name].state # "absent")
  <2> USE DEF IInv, TypeOK
  <2>1. PICK q \in Procs : OpenSecret(q) \/ WriteSecret(q) \/ RemoveSecret(q)
    BY <1>1 DEF Next, Own, Elsewhere, Step, vars, Begin, LookupVolume,
                ListVolume, Ask, EnsureVolume, List, Show, Cat, EditNames,
                OpenNames, WriteNames, PromptValue, CheckEntry, Crash
  <2>2. q = p
    BY <1>1, <2>1 DEF OpenSecret, WriteSecret, RemoveSecret, Continue, Goto, End
  <2>3. /\ cmd[p].name \in Names /\ cmd[p].value \in Values
        /\ NamesFit(pc[p], cmd[p], mem[p], local[p])
    BY <1>1 DEF Command
  <2>5. CASE OpenSecret(p)
    BY <1>1, <2>3, <2>5 DEF OpenSecret, NamesFit, Truncated, Absent
  <2>6. CASE WriteSecret(p)
    <3>1. \E f \in {Holding(cmd[p].value), Garbled(stored[cmd[p].name])} :
              stored' = [stored EXCEPT ![cmd[p].name] = f]
      BY <1>1, <2>3, <2>6 DEF WriteSecret, Puts, Overwrites, FailedWrites
    <3>2. stored'[cmd[p].name].state \in {"ok", "garbled"}
      BY <1>1, <2>3, <3>1 DEF Holding, Garbled, File
    <3> QED BY <2>3, <2>6, <3>2 DEF WriteSecret, NamesFit
  <2>7. CASE RemoveSecret(p)
    BY <1>1, <2>3, <2>7 DEF RemoveSecret, NamesFit, Absent
  <2> QED BY <2>1, <2>2, <2>5, <2>6, <2>7
<1>2. IInv /\ [Next]_vars =>
        \A p \in Procs : pc[p] # pc'[p] /\ stored' # stored =>
          /\ pc[p] # "idle"
          /\ local[p].state = "ok"
          /\ (cmd[p].name \in local[p].data) = (stored'[cmd[p].name].state # "absent")
  BY <1>1
<1> QED BY <1>2, AlwaysIInv, PTL DEF Spec, NamesGoFirst

(* What a step of q leaves alone of another operator, p.                   *)
LEMMA OthersKeep ==
    ASSUME IInv, NEW p \in Procs, NEW q \in Procs \ {p},
           Step(q) \/ Crash(q) \/ \E c \in Commands : Begin(q, c)
    PROVE  /\ pc'[p] = pc[p] /\ cmd'[p] = cmd[p] /\ local'[p] = local[p]
           /\ entries'[p] = entries[p] /\ result'[p] = result[p]
           /\ p \in unlinked' \ unlinked => stored'[cmd[p].name].state = "absent"
<1> USE DEF IInv, TypeOK, Goto, Continue, End
<1>1. CASE RemoveSecret(q)
  BY <1>1 DEF RemoveSecret, Putting, Absent, Command
<1>2. CASE OpenSecret(q) \/ WriteSecret(q) \/ Crash(q)
  BY <1>2 DEF OpenSecret, WriteSecret, Puts, Crash
<1>3. CASE \E c \in Commands : Begin(q, c)
  BY <1>3 DEF Begin
<1>4. CASE \/ LookupVolume(q) \/ ListVolume(q) \/ Ask(q) \/ EnsureVolume(q)
           \/ List(q) \/ Show(q) \/ Cat(q) \/ CheckEntry(q)
  BY <1>4 DEF LookupVolume, ListVolume, Ask, EnsureVolume, List, Show, Cat, CheckEntry
<1>5. CASE EditNames(q) \/ OpenNames(q) \/ WriteNames(q) \/ PromptValue(q)
  BY <1>5 DEF EditNames, OpenNames, WriteNames, PromptValue
<1> QED BY <1>1, <1>2, <1>3, <1>4, <1>5 DEF Step

(* An smt.json that was cut off ends the project's secrets commands for    *)
(* good: none gets as far as writing it again.                             *)
THEOREM CutNamesPermanent == Spec => CutNamesArePermanent
<1>1. ASSUME IInv, [Next]_vars, NEW p \in Procs, pc[p] = "idle", Broken(local[p])
      PROVE  pc'[p] = "idle" /\ local'[p] = local[p]
  <2>1. CASE \E c \in Commands : Begin(p, c)
    BY <1>1, <2>1 DEF Begin, Broken, End, IInv, TypeOK
  <2>2. ASSUME NEW q \in Procs \ {p},
               Step(q) \/ Crash(q) \/ \E c \in Commands : Begin(q, c)
        PROVE  pc'[p] = "idle" /\ local'[p] = local[p]
    BY <1>1, <2>2, OthersKeep
  <2>3. ~(Step(p) \/ Crash(p))
    BY <1>1 DEF Step, Crash, LookupVolume, ListVolume, Ask, EnsureVolume, List, Show,
                Cat, EditNames, OpenNames, WriteNames, PromptValue, OpenSecret,
                WriteSecret, CheckEntry, RemoveSecret
  <2>4. CASE Elsewhere \/ UNCHANGED vars
    BY <1>1, <2>4 DEF Elsewhere, vars
  <2> QED BY <1>1, <2>1, <2>2, <2>3, <2>4 DEF Next, Own
<1>2. IInv /\ [Next]_vars =>
        \A p \in Procs : pc[p] = "idle" /\ Broken(local[p]) =>
            pc'[p] = "idle" /\ Broken(local'[p])
  BY <1>1
<1> QED BY <1>2, AlwaysIInv, PTL DEF Spec, CutNamesArePermanent
-----------------------------------------------------------------------------
(* No volume's name contains another's.                                    *)
ExactMatches == \A v, w \in Volumes : <<v, w>> \in Matches => v = w

(* Past the look-up, and past the question, the volume exists.             *)
VolumeThere ==
    \A p \in Procs :
        pc[p] \notin {"idle", "lookup", "ask", "ensure"} => Volume \in volumes

(* No step removes a volume.                                               *)
LEMMA VolumesGrow == ASSUME [Next]_vars PROVE volumes \subseteq volumes'
BY DEF Next, Own, Elsewhere, Step, vars, Begin, LookupVolume, ListVolume, Ask,
       EnsureVolume, List, Show, Cat, EditNames, OpenNames, WriteNames, PromptValue, OpenSecret,
       WriteSecret, CheckEntry, RemoveSecret, Crash, Ensured, Mounted

LEMMA NextVolumeThere ==
    ASSUME ExactMatches PROVE IInv /\ VolumeThere /\ [Next]_vars => VolumeThere'
<1> SUFFICES ASSUME IInv, VolumeThere, [Next]_vars PROVE VolumeThere'
  OBVIOUS
<1> USE DEF IInv, TypeOK, VolumeThere, Goto, Continue, End
<1>1. volumes \subseteq volumes' /\ volumes \subseteq Volumes
  BY VolumesGrow
<1>2. Listed(volumes, Volume) => Volume \in volumes
  BY <1>1, ConstantsAssumption DEF ExactMatches, Listed
<1>3. CASE UNCHANGED vars
  BY <1>3 DEF vars
<1>4. ASSUME NEW p \in Procs, NEW c \in Commands, Begin(p, c) PROVE VolumeThere'
  BY <1>1, <1>4 DEF Begin
<1>5. ASSUME NEW p \in Procs, LookupVolume(p) PROVE VolumeThere'
  BY <1>1, <1>2, <1>5 DEF LookupVolume
<1>6. ASSUME NEW p \in Procs, EnsureVolume(p) PROVE VolumeThere'
  BY <1>1, <1>2, <1>6 DEF EnsureVolume, Ensured
<1>7. ASSUME NEW p \in Procs, Ask(p) \/ Crash(p) PROVE VolumeThere'
  BY <1>1, <1>7 DEF Ask, Crash
<1>8. ASSUME NEW p \in Procs,
             \/ ListVolume(p) \/ List(p) \/ Show(p) \/ Cat(p) \/ EditNames(p)
             \/ OpenNames(p) \/ WriteNames(p) \/ PromptValue(p) \/ OpenSecret(p)
             \/ WriteSecret(p) \/ CheckEntry(p) \/ RemoveSecret(p)
      PROVE  VolumeThere'
  <2>1. Volume \in volumes'
    BY <1>1, <1>8 DEF ListVolume, List, Show, Cat, EditNames, OpenNames,
                      WriteNames, PromptValue, OpenSecret, WriteSecret,
                      CheckEntry, RemoveSecret
  <2> QED BY <2>1
<1>9. CASE Elsewhere
  BY <1>1, <1>9 DEF Elsewhere
<1> QED BY <1>3, <1>4, <1>5, <1>6, <1>7, <1>8, <1>9 DEF Next, Own, Step

(* Where the volume exists before docker run does, only one step makes it. *)
LEMMA MadeByEnsure ==
    ASSUME VolumeThere, Own, Volume \in volumes' \ volumes
    PROVE  \E p \in Procs : EnsureVolume(p)
BY DEF Own, Step, VolumeThere, Begin, LookupVolume, ListVolume, Ask, List, Show,
       Cat, EditNames, OpenNames, WriteNames, PromptValue, OpenSecret,
       WriteSecret, CheckEntry, RemoveSecret, Crash

(* Where no name contains another, the project's volume comes into being   *)
(* only when an operator agreed to it: docker run, which would create it   *)
(* silently, only ever runs once it exists.                                *)
THEOREM Consent == ASSUME ExactMatches PROVE Spec => VolumesByConsent
<1>1. Init => VolumeThere
  BY DEF Init, VolumeThere
<1>2. IInv /\ VolumeThere /\ [Next]_vars => VolumeThere'
  BY NextVolumeThere
<1>3. ASSUME IInv, VolumeThere, [Next]_vars, Volume \in volumes' \ volumes,
             NEW p \in Procs, pc'[p] # pc[p]
      PROVE  pc[p] = "ensure" /\ pc'[p] = "act"
  <2>1. Own
    BY <1>3 DEF Next, Elsewhere, vars
  <2>2. PICK q \in Procs : EnsureVolume(q)
    BY <1>3, <2>1, MadeByEnsure
  <2> QED BY <1>3, <2>2 DEF EnsureVolume, Continue, Goto, IInv, TypeOK
<1>4. IInv /\ VolumeThere /\ [Next]_vars =>
        \A p \in Procs : pc'[p] # pc[p] /\ Volume \in volumes' \ volumes =>
            pc[p] = "ensure" /\ pc'[p] = "act"
  BY <1>3
<1> QED BY <1>1, <1>2, <1>4, AlwaysIInv, PTL DEF Spec, VolumesByConsent
-----------------------------------------------------------------------------
(* Nothing is stored while the volume does not exist, and a command has no *)
(* listing until it has made one.                                          *)
StoredInVolume ==
    /\ Volume \notin volumes => Present = {}
    /\ \A p \in Procs : pc[p] = "putting" => Volume \in volumes
    /\ \A p \in Procs : pc[p] \in {"idle", "lookup", "ls", "ask", "ensure"} =>
         entries[p] = {}

(* As long as nobody else has changed p's secret, its entry in the listing *)
(* is true when it is used, and the file that p opened is p's to write.    *)
ListingFits(p) ==
    LET n == cmd[p].name IN
    /\ pc[p] \in {"act", "save", "saving", "saved"} => (n \in entries[p]) = (n \in Present)
    /\ pc[p] \in {"ask", "ensure"} => n \notin Present
    /\ pc[p] = "putting" => p \notin unlinked /\ stored[n].state = "empty"

OkMeansDone(p) ==
    pc[p] = "idle" /\ result[p] = "ok" =>
        LET n == cmd[p].name IN
        /\ Does(p, "set") => /\ local[p].state = "ok" /\ n \in local[p].data
                             /\ stored[n] = Holding(cmd[p].value)
        /\ Does(p, "remove") => /\ local[p].state = "ok" /\ n \notin local[p].data
                                /\ n \notin Present

AInv == /\ StoredInVolume
        /\ \A p \in Procs \ overtaken : ListingFits(p) /\ OkMeansDone(p)

LEMMA InitAInv == Init => AInv
BY DEF Init, AInv, StoredInVolume, Present, ListingFits, OkMeansDone, Absent

LEMMA NextStoredInVolume ==
    IInv /\ StoredInVolume /\ [Next]_vars => StoredInVolume'
<1> SUFFICES ASSUME IInv, StoredInVolume, [Next]_vars PROVE StoredInVolume'
  OBVIOUS
<1> USE DEF IInv, TypeOK, StoredInVolume, Goto, Continue, End
<1>1. Volume \notin volumes' => Present' = {}
  <2>1. CASE stored' = stored
    BY <2>1, VolumesGrow DEF Present
  <2>2. CASE stored' # stored
    <3>1. PICK q \in Procs : OpenSecret(q) \/ WriteSecret(q) \/ RemoveSecret(q)
      BY <2>2 DEF Next, Own, Elsewhere, Step, vars, Begin, LookupVolume,
                  ListVolume, Ask, EnsureVolume, List, Show, Cat, EditNames,
                  OpenNames, WriteNames, PromptValue, CheckEntry, Crash
    <3>2. CASE OpenSecret(q) \/ RemoveSecret(q)
      BY <3>2 DEF OpenSecret, RemoveSecret, Mounted
    <3>3. CASE WriteSecret(q)
      BY <3>3, VolumesGrow DEF WriteSecret
    <3> QED BY <3>1, <3>2, <3>3
  <2> QED BY <2>1, <2>2
<1>2. ASSUME NEW p \in Procs PROVE pc'[p] = "putting" => Volume \in volumes'
  <2>1. CASE \E q \in Procs : OpenSecret(q)
    BY <2>1 DEF OpenSecret, Mounted
  <2>2. CASE ~ \E q \in Procs : OpenSecret(q)
    <3>1. ASSUME NEW q \in Procs, \E c \in Commands : Begin(q, c)
          PROVE  pc'[p] = "putting" => pc[p] = "putting"
      BY <3>1 DEF Begin
    <3>2. ASSUME NEW q \in Procs, LookupVolume(q) \/ ListVolume(q) \/ Ask(q)
                   \/ EnsureVolume(q) \/ List(q) \/ Show(q) \/ Cat(q) \/ Crash(q)
          PROVE  pc'[p] = "putting" => pc[p] = "putting"
      BY <3>2 DEF LookupVolume, ListVolume, Ask, EnsureVolume, List, Show, Cat,
                  Crash
    <3>3. ASSUME NEW q \in Procs, EditNames(q) \/ OpenNames(q) \/ WriteNames(q)
                   \/ PromptValue(q) \/ WriteSecret(q) \/ CheckEntry(q)
                   \/ RemoveSecret(q)
          PROVE  pc'[p] = "putting" => pc[p] = "putting"
      BY <3>3 DEF EditNames, OpenNames, WriteNames, PromptValue, WriteSecret,
                  CheckEntry, RemoveSecret
    <3>4. pc'[p] = "putting" => pc[p] = "putting"
      BY <2>2, <3>1, <3>2, <3>3 DEF Next, Own, Elsewhere, Step, vars
    <3> QED BY <3>4, VolumesGrow
  <2> QED BY <2>1, <2>2
<1>3. ASSUME NEW p \in Procs,
             pc'[p] \in {"idle", "lookup", "ls", "ask", "ensure"}
      PROVE  entries'[p] = {}
  <2>1. CASE UNCHANGED vars
    BY <1>3, <2>1 DEF vars
  <2>2. ASSUME NEW q \in Procs, \E c \in Commands : Begin(q, c) PROVE entries'[p] = {}
    BY <1>3, <2>2 DEF Begin
  <2>3. ASSUME NEW q \in Procs, LookupVolume(q) \/ Ask(q) PROVE entries'[p] = {}
    BY <1>3, <2>3 DEF LookupVolume, Ask
  <2>4. ASSUME NEW q \in Procs, ListVolume(q) \/ EnsureVolume(q) PROVE entries'[p] = {}
    BY <1>3, <2>4 DEF ListVolume, EnsureVolume
  <2>5. ASSUME NEW q \in Procs,
               List(q) \/ Show(q) \/ Cat(q) \/ EditNames(q) \/ OpenNames(q)
        PROVE  entries'[p] = {}
    BY <1>3, <2>5 DEF List, Show, Cat, EditNames, OpenNames
  <2>6. ASSUME NEW q \in Procs, WriteNames(q) \/ PromptValue(q) \/ OpenSecret(q)
        PROVE  entries'[p] = {}
    BY <1>3, <2>6 DEF WriteNames, PromptValue, OpenSecret
  <2>7. ASSUME NEW q \in Procs,
               WriteSecret(q) \/ CheckEntry(q) \/ RemoveSecret(q) \/ Crash(q)
        PROVE  entries'[p] = {}
    BY <1>3, <2>7 DEF WriteSecret, CheckEntry, RemoveSecret, Crash
  <2>8. CASE Elsewhere
    BY <1>3, <2>8 DEF Elsewhere
  <2> QED BY <2>1, <2>2, <2>3, <2>4, <2>5, <2>6, <2>7, <2>8 DEF Next, Own, Step
<1> QED BY <1>1, <1>2, <1>3

(* The steps of p keep its entry true and end well only when they are done.*)
LEMMA OwnKeeps ==
    ASSUME IInv, StoredInVolume, NEW p \in Procs, ListingFits(p), OkMeansDone(p),
           Step(p) \/ Crash(p) \/ \E c \in Commands : Begin(p, c)
    PROVE  (ListingFits(p) /\ OkMeansDone(p))'
<1> USE DEF IInv, TypeOK, ListingFits, OkMeansDone, Does, Goto, Continue, End
<1>1. /\ cmd[p].name \in Names /\ cmd[p].action \in {"list", "set", "remove", "show"}
      /\ NamesFit(pc[p], cmd[p], mem[p], local[p])
      /\ <<Volume, Volume>> \in Matches
  BY ConstantsAssumption, VolumesAssumption DEF Command
<1>2. CASE \E c \in Commands : Begin(p, c)
  BY <1>2 DEF Begin, Broken
<1>3. CASE LookupVolume(p)
  BY <1>1, <1>3 DEF LookupVolume, Listed, StoredInVolume, Present
<1>4. CASE ListVolume(p)
  BY <1>4 DEF ListVolume, Present
<1>5. CASE Ask(p)
  BY <1>1, <1>5 DEF Ask, Present
<1>6. CASE EnsureVolume(p)
  BY <1>6 DEF EnsureVolume, StoredInVolume, Present
<1>7. CASE List(p) \/ Show(p) \/ Cat(p) \/ Crash(p)
  BY <1>1, <1>7 DEF List, Show, Cat, Crash, NamesFit
<1>8. CASE EditNames(p) \/ OpenNames(p) \/ PromptValue(p)
  BY <1>8 DEF EditNames, OpenNames, PromptValue, Present
<1>9. CASE WriteNames(p)
  BY <1>9 DEF WriteNames, Present
<1>10. CASE OpenSecret(p)
  BY <1>1, <1>10 DEF OpenSecret, Truncated, Absent
<1>11. CASE WriteSecret(p)
  <2>1. CASE End(p, "command-error")
    BY <1>11, <2>1 DEF WriteSecret
  <2>2. CASE ~End(p, "command-error")
    <3>1. stored' = [stored EXCEPT ![cmd[p].name] = Holding(cmd[p].value)]
      BY <1>11, <2>2 DEF WriteSecret, Puts, Overwrites
    <3> QED BY <1>1, <1>11, <3>1 DEF WriteSecret, NamesFit
  <2> QED BY <2>1, <2>2
<1>12. CASE CheckEntry(p)
  BY <1>1, <1>12 DEF CheckEntry, NamesFit, Present
<1>13. CASE RemoveSecret(p)
  BY <1>1, <1>13 DEF RemoveSecret, NamesFit, Present, Absent
<1> QED BY <1>2, <1>3, <1>4, <1>5, <1>6, <1>7, <1>8, <1>9, <1>10, <1>11, <1>12,
           <1>13 DEF Step

LEMMA NextAInv ==
    ASSUME IInv, AInv, [Next /\ Note]_<<vars, overtaken>> PROVE AInv'
<1>1. StoredInVolume'
  BY NextStoredInVolume DEF AInv, vars
<1>2. CASE UNCHANGED <<vars, overtaken>>
  BY <1>1, <1>2 DEF AInv, vars, ListingFits, OkMeansDone, Does, Present
<1>3. CASE Next /\ Note
  <2> SUFFICES ASSUME NEW p \in Procs \ overtaken' PROVE (ListingFits(p) /\ OkMeansDone(p))'
    BY <1>1 DEF AInv
  <2>1. ~Begins(p) => p \notin overtaken /\ ~ChangedByAnother(p)
    BY <1>3 DEF Note
  <2>2. CASE Step(p) \/ Crash(p) \/ \E c \in Commands : Begin(p, c)
    <3>1. CASE Begins(p)
      BY <2>2, <3>1 DEF Begins, Begin, Step, Crash, LookupVolume, ListVolume, Ask,
                        EnsureVolume, List, Show, Cat, EditNames, OpenNames, WriteNames,
                        PromptValue, OpenSecret, WriteSecret, CheckEntry, RemoveSecret,
                        End, ListingFits, OkMeansDone, IInv, TypeOK
    <3>2. CASE ~Begins(p)
      BY <2>1, <2>2, <3>2, OwnKeeps DEF AInv
    <3> QED BY <3>1, <3>2
  <2>3. ASSUME NEW q \in Procs \ {p},
               Step(q) \/ Crash(q) \/ \E c \in Commands : Begin(q, c)
        PROVE  (ListingFits(p) /\ OkMeansDone(p))'
    <3>1. /\ pc'[p] = pc[p] /\ cmd'[p] = cmd[p] /\ local'[p] = local[p]
          /\ entries'[p] = entries[p] /\ result'[p] = result[p]
          /\ p \in unlinked' \ unlinked => stored'[cmd[p].name].state = "absent"
      BY <2>3, OthersKeep
    <3>2. p \notin overtaken /\ stored'[cmd[p].name] = stored[cmd[p].name]
      BY <2>1, <3>1 DEF Begins, ChangedByAnother
    <3>3. ListingFits(p) /\ OkMeansDone(p) /\ cmd[p].name \in Names
      BY <3>2 DEF AInv, IInv, TypeOK, Command
    <3> QED BY <3>1, <3>2, <3>3 DEF ListingFits, OkMeansDone, Does, Present
  <2>4. CASE Elsewhere
    BY <2>1, <2>4 DEF Elsewhere, Begins, AInv, ListingFits, OkMeansDone, Does, Present
  <2> QED BY <1>3, <2>2, <2>3, <2>4 DEF Next, Own
<1> QED BY <1>2, <1>3

(* For any number of operators: "set" and "remove" that report success are *)
(* done, whatever commands that died had left behind, unless another       *)
(* operator has changed the same secret since the command began.           *)
THEOREM SuccessIsDone == OverlapSpec => []OkIsDone
<1>1. AInv => OkIsDone
  BY DEF AInv, OkMeansDone, OkIsDone
<1>2. IInv /\ [Next /\ Note]_<<vars, overtaken>> => IInv'
  BY NextIInv DEF vars
<1>3. IInv /\ AInv /\ [Next /\ Note]_<<vars, overtaken>> => AInv'
  BY NextAInv
<1> QED BY <1>1, <1>2, <1>3, InitIInv, InitAInv, PTL
        DEF OverlapSpec, OverlapInit, OverlapNext
-----------------------------------------------------------------------------
(* Whoever makes sure of a volume deploys a project, which has one.        *)
SInv == /\ spc \in [Deployers -> R!PCs] /\ scmd \in [Deployers -> R!Command]
        /\ \A d \in Deployers : spc[d] = "ensure" => scmd[d] \in R!DeployCommand

LEMMA InitSInv == R!Init => SInv
BY DEF R!Init, SInv, R!PCs, R!Command, R!InstallCommand

LEMMA NextSInv == ASSUME SInv, [SmtNext]_smt PROVE SInv'
<1> USE DEF SInv, R!Goto, R!Continue, R!End, R!PCs
<1>1. CASE UNCHANGED <<spc, scmd>>
  BY <1>1
<1>2. ASSUME NEW d \in Deployers, NEW c \in ServerCommands, R!Begin(d, c) PROVE SInv'
  <2>1. c \in R!Command
    BY SmtAssumption
  <2>2. c.kind = "deploy" => c \in R!DeployCommand
    BY <2>1 DEF R!Command, R!ServiceCommand, R!InstallCommand
  <2>3. c.kind \in {"deploy", "service", "install"}
    BY <2>1 DEF R!Command, R!DeployCommand, R!ServiceCommand, R!InstallCommand
  <2> QED BY <1>2, <2>1, <2>2, <2>3 DEF R!Begin
<1>3. ASSUME NEW d \in Deployers, R!Step(d) \/ R!Crash(d)
      PROVE  /\ scmd' = scmd
             /\ \E l \in R!PCs \ {"ensure"} : spc' = [spc EXCEPT ![d] = l]
  <2>1. CASE R!DeployStep(d)
    BY <2>1 DEF R!DeployStep, R!Shipping, R!EnsureVolume, R!FindService,
                R!ShipSome, R!Ship, R!PutConfig, R!ShipRest, R!ShipFails,
                R!SaveRegistry, R!WriteRegistry
  <2>2. CASE R!InstallStep(d)
    BY <2>2 DEF R!InstallStep, R!InstallDir, R!TestBinary, R!StartTransfer, R!Transfer,
                R!MakeEtc
  <2>3. CASE R!RegistryStep(d)
    BY <2>3 DEF R!RegistryStep, R!TestRegistry, R!InitRegistry,
                R!WriteEmptyRegistry, R!ReadRegistry, R!WriteFails
  <2>4. CASE R!ServiceAction(d) \/ R!Crash(d)
    BY <2>4 DEF R!ServiceAction, R!Crash
  <2> QED BY <1>3, <2>1, <2>2, <2>3, <2>4 DEF R!Step
<1> QED BY <1>1, <1>2, <1>3 DEF SmtNext, smt, others, R!Own

(* What the secrets commands do to the volumes.                            *)
LEMMA SecretsVolumes ==
    ASSUME Own
    PROVE  volumes' \in {volumes, Ensured(volumes, Volume), Mounted(volumes, Volume)}
BY DEF Own, Step, Begin, LookupVolume, ListVolume, Ask, EnsureVolume, List,
       Show, Cat, EditNames, OpenNames, WriteNames, PromptValue, OpenSecret,
       WriteSecret, CheckEntry, RemoveSecret, Crash

(* What the deployers' commands do to them.                                *)
LEMMA DeployersVolumes ==
    ASSUME R!Own
    PROVE  \/ volumes' = volumes
           \/ \E d \in Deployers : R!EnsureVolume(d) /\ ~scmd[d].dryRun
                                   /\ volumes' = Ensured(volumes, scmd[d].vol)
<1>1. ASSUME NEW d \in Deployers, NEW c \in ServerCommands, R!Begin(d, c)
      PROVE  volumes' = volumes
  BY <1>1 DEF R!Begin, R!server
<1>2. ASSUME NEW d \in Deployers, R!EnsureVolume(d)
      PROVE  \/ volumes' = volumes
             \/ ~scmd[d].dryRun /\ volumes' = Ensured(volumes, scmd[d].vol)
  <2>1. CASE scmd[d].dryRun
    BY <1>2, <2>1 DEF R!EnsureVolume
  <2>2. CASE ~scmd[d].dryRun
    BY <1>2, <2>2 DEF R!EnsureVolume, R!Ensured, R!Listed, Ensured, Listed
  <2> QED BY <2>1, <2>2
<1>3. ASSUME NEW d \in Deployers,
             \/ R!FindService(d) \/ R!Shipping(d) \/ R!SaveRegistry(d)
             \/ R!WriteRegistry(d) \/ R!InstallStep(d) \/ R!RegistryStep(d)
             \/ R!ServiceAction(d) \/ R!Crash(d)
      PROVE  volumes' = volumes
  BY <1>3 DEF R!Shipping, R!FindService, R!ShipSome, R!Ship, R!PutConfig,
              R!ShipRest, R!ShipFails, R!SaveRegistry, R!WriteRegistry,
              R!InstallStep, R!InstallDir, R!TestBinary, R!StartTransfer, R!Transfer,
              R!MakeEtc, R!RegistryStep, R!TestRegistry, R!InitRegistry,
              R!WriteEmptyRegistry, R!ReadRegistry, R!WriteFails,
              R!ServiceAction, R!Crash, R!server
<1> QED BY <1>1, <1>2, <1>3 DEF R!Own, R!Step, R!DeployStep

(* On one server, with any number of either: secrets commands see from     *)
(* deploys nothing but volumes made, and the other way round.              *)
THEOREM Composition == SmtSpec => ComponentsAsSpecified
<1>1. SmtInit => Init /\ R!Init /\ SInv
  BY InitSInv DEF SmtInit
<1>2. SInv /\ [SmtNext]_smt => SInv'
  BY NextSInv
<1>3. ASSUME SInv, [SmtNext]_smt PROVE [Next]_vars
  <2>1. CASE UNCHANGED smt
    BY <2>1 DEF smt, own, vars
  <2>2. CASE Own
    BY <2>2 DEF Next
  <2>3. CASE R!Own /\ UNCHANGED own
    <3>1. CASE volumes' = volumes
      BY <2>3, <3>1 DEF own, vars
    <3>2. CASE volumes' # volumes
      <4>1. PICK d \in Deployers : R!EnsureVolume(d) /\ ~scmd[d].dryRun
                                   /\ volumes' = Ensured(volumes, scmd[d].vol)
        BY <2>3, <3>2, DeployersVolumes
      <4>2. scmd[d].vol \in Volumes
        BY <1>3, <4>1 DEF SInv, R!EnsureVolume, R!DeployCommand
      <4> QED BY <2>3, <4>1, <4>2 DEF Next, Elsewhere, own
    <3> QED BY <3>1, <3>2
  <2> QED BY <1>3, <2>1, <2>2, <2>3 DEF SmtNext
<1>4. ASSUME [SmtNext]_smt PROVE [R!Next]_(R!vars)
  <2>1. CASE UNCHANGED smt
    BY <2>1 DEF smt, others, R!vars
  <2>2. CASE R!Own
    BY <2>2 DEF R!Next
  <2>3. CASE Own /\ UNCHANGED others
    <3>1. CASE volumes' = volumes
      BY <2>3, <3>1 DEF others, R!vars
    <3>2. CASE volumes' # volumes
      <4>1. volumes' \in {R!Ensured(volumes, Volume), R!Mounted(volumes, Volume)}
        BY <2>3, <3>2, SecretsVolumes
        DEF Ensured, Mounted, Listed, R!Ensured, R!Mounted, R!Listed
      <4> QED BY <2>3, <4>1, ConstantsAssumption DEF others, R!Next,
                                                     R!SecretsElsewhere
    <3> QED BY <3>1, <3>2
  <2> QED BY <1>4, <2>1, <2>2, <2>3 DEF SmtNext
<1> QED BY <1>1, <1>2, <1>3, <1>4, PTL DEF SmtSpec, ComponentsAsSpecified, Spec,
                                           R!Spec

(* And where no name contains another, the volume is made for those who    *)
(* asked for it, whichever command of whichever operator makes it.         *)
THEOREM Purpose == ASSUME ExactMatches PROVE SmtSpec => VolumeOnPurpose
<1>1. SmtInit => SInv
  BY InitSInv DEF SmtInit
<1>2. SInv /\ [SmtNext]_smt => SInv'
  BY NextSInv
<1>3. Init => VolumeThere
  BY DEF Init, VolumeThere
<1>4. IInv /\ VolumeThere /\ [Next]_vars => VolumeThere'
  BY NextVolumeThere
<1>5. ASSUME SInv, IInv, VolumeThere, [SmtNext]_smt, Volume \in volumes' \ volumes
      PROVE  \/ \E p \in Procs : pc[p] = "ensure" /\ pc'[p] = "act"
             \/ \E d \in Deployers : /\ spc[d] = "ensure" /\ spc'[d] = "test"
                                     /\ ~scmd[d].dryRun /\ scmd[d].vol = Volume
  <2>1. CASE Own
    <3>1. PICK p \in Procs : EnsureVolume(p)
      BY <1>5, <2>1, MadeByEnsure
    <3> QED BY <1>5, <3>1 DEF EnsureVolume, Continue, Goto, IInv, TypeOK
  <2>2. CASE R!Own
    <3>1. PICK d \in Deployers : R!EnsureVolume(d) /\ ~scmd[d].dryRun
                                 /\ volumes' = Ensured(volumes, scmd[d].vol)
      BY <1>5, <2>2, DeployersVolumes
    <3>2. scmd[d].vol = Volume
      BY <1>5, <3>1 DEF Ensured
    <3> QED BY <1>5, <3>1, <3>2 DEF R!EnsureVolume, R!Continue, R!Goto, SInv
  <2> QED BY <1>5, <2>1, <2>2 DEF SmtNext, smt
<1>6. SInv /\ IInv /\ VolumeThere /\ [SmtNext]_smt =>
        ((Volume \in volumes' \ volumes) =>
           \/ \E p \in Procs : pc[p] = "ensure" /\ pc'[p] = "act"
           \/ \E d \in Deployers : /\ spc[d] = "ensure" /\ spc'[d] = "test"
                                   /\ ~scmd[d].dryRun /\ scmd[d].vol = Volume)
  BY <1>5
<1>7. SmtSpec => Spec
  BY Composition DEF ComponentsAsSpecified
<1> QED BY <1>1, <1>2, <1>3, <1>4, <1>6, <1>7, AlwaysIInv, PTL
        DEF SmtSpec, Spec, VolumeOnPurpose
=============================================================================
