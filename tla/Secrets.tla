------------------------------ MODULE Secrets ------------------------------
(***************************************************************************)
(* "smt secrets": the names of a project's secrets, kept in the smt.json   *)
(* of each operator's checkout, and their values, kept in a Docker volume  *)
(* on the server.  A command loads smt.json, lists the volume once, writes *)
(* the names first and the volume after (secrets.go 193-313).  Operators   *)
(* share the server, each has a checkout of their own.                     *)
(***************************************************************************)
EXTENDS InPlaceFile, DockerVolumes, Naturals

CONSTANTS Procs,     \* operators, each with one checkout
          Names,     \* secret names
          Values,    \* secret values
          NoValue,   \* what a secret file that was never written held
          Volume,    \* docker_secrets_volume of the project
          Commands,  \* the command lines the operators may give
          HandNames  \* lists of names a checkout may start with

Command == [action : {"list", "set", "remove", "show"}, name : Names,
            value : Values]

ASSUME ConstantsAssumption ==
    /\ Volume \in Volumes
    /\ Commands \subseteq Command /\ Commands # {}
    /\ HandNames \subseteq SUBSET Names
    /\ NoValue \notin Values

VARIABLES local,    \* each checkout's smt.json: the names it lists
          volumes,  \* Docker volumes on the server
          stored,   \* the project volume's files, one for each secret
          unlinked, \* operators who write to a file that was removed
          pc,       \* where each operator's command is
          cmd,      \* the command line it runs
          mem,      \* the names it has loaded and edited
          entries,  \* the files it saw in the volume
          result    \* how its last command ended, "none" while one runs

vars == <<local, volumes, stored, unlinked, pc, cmd, mem, entries, result>>

PCs == {"idle", "lookup", "ls", "ask", "ensure", "act", "save", "saving",
        "saved", "put", "putting", "rm", "cat"}

Results == {"none", "ok", "unparsable", "declined", "write-error", "no-input",
            "command-error", "not-registered", "not-deployed", "killed"}

Present == {n \in Names : stored[n].state # "absent"}

Does(p, a) == cmd[p].action = a

Putting(p, n) == pc[p] = "putting" /\ cmd[p].name = n

Goto(p, l) == pc' = [pc EXCEPT ![p] = l] /\ UNCHANGED result

(* The process exits, and what it had loaded goes with it.                 *)
End(p, r) == /\ pc' = [pc EXCEPT ![p] = "idle"]
             /\ result' = [result EXCEPT ![p] = r]
             /\ mem' = [mem EXCEPT ![p] = {}]
             /\ entries' = [entries EXCEPT ![p] = {}]

Continue(p, l) == Goto(p, l) /\ UNCHANGED <<mem, entries>>
-----------------------------------------------------------------------------
Init ==
    /\ local \in [Procs -> {Holding(N) : N \in HandNames}]
    /\ volumes \in SUBSET Volumes
    /\ stored = [n \in Names |-> Absent(NoValue)]
    /\ unlinked = {}
    /\ pc = [p \in Procs |-> "idle"]
    /\ cmd = [p \in Procs |-> CHOOSE c \in Commands : TRUE]
    /\ mem = [p \in Procs |-> {}]
    /\ entries = [p \in Procs |-> {}]
    /\ result = [p \in Procs |-> "none"]

(* An smt.json that cannot be parsed taken for one without secrets.        *)
BeginAnew(p, c) ==
    /\ pc[p] = "idle"
    /\ cmd' = [cmd EXCEPT ![p] = c]
    /\ mem' = [mem EXCEPT ![p] = IF Broken(local[p]) THEN {} ELSE local[p].data]
    /\ pc' = [pc EXCEPT ![p] = "lookup"]
    /\ result' = [result EXCEPT ![p] = "none"]
    /\ UNCHANGED <<local, volumes, stored, unlinked, entries>>

(* Build loads smt.json.                                                   *)
Begin(p, c) ==
    /\ pc[p] = "idle"
    /\ cmd' = [cmd EXCEPT ![p] = c]
    /\ \/ /\ local[p].state = "ok"
          /\ mem' = [mem EXCEPT ![p] = local[p].data]
          /\ pc' = [pc EXCEPT ![p] = "lookup"]
          /\ result' = [result EXCEPT ![p] = "none"]
          /\ UNCHANGED entries
       \/ Broken(local[p]) /\ End(p, "unparsable")
    /\ UNCHANGED <<local, volumes, stored, unlinked>>

(* Without the test for an empty listing.                                  *)
LookupUnchecked(p) ==
    /\ pc[p] = "lookup"
    /\ Continue(p, "ls")
    /\ UNCHANGED <<local, volumes, stored, unlinked, cmd>>

(* GetSecretsVolume: docker volume ls, then ls in a container with the     *)
(* volume mounted.                                                         *)
LookupVolume(p) ==
    /\ pc[p] = "lookup"
    /\ Continue(p, IF Listed(volumes, Volume) THEN "ls" ELSE "ask")
    /\ UNCHANGED <<local, volumes, stored, unlinked, cmd>>

(* The empty line after the last one kept as an entry.                     *)
ListBlank(p) ==
    /\ pc[p] = "ls"
    /\ volumes' = Mounted(volumes, Volume)
    /\ entries' = [entries EXCEPT ![p] = Present \cup {NoValue}]
    /\ Goto(p, "act")
    /\ UNCHANGED <<local, stored, unlinked, cmd, mem>>

ListVolume(p) ==
    /\ pc[p] = "ls"
    /\ volumes' = Mounted(volumes, Volume)
    /\ entries' = [entries EXCEPT ![p] = Present]
    /\ Goto(p, "act")
    /\ UNCHANGED <<local, stored, unlinked, cmd, mem>>

(* "Do you want to create it?"; the end of input counts as no.             *)
Ask(p) ==
    /\ pc[p] = "ask"
    /\ Continue(p, "ensure") \/ End(p, "declined")
    /\ UNCHANGED <<local, volumes, stored, unlinked, cmd>>

(* EnsureSecretsVolume returns an empty list, whatever the volume holds.   *)
EnsureVolume(p) ==
    /\ pc[p] = "ensure"
    /\ volumes' = Ensured(volumes, Volume)
    /\ Continue(p, "act")
    /\ UNCHANGED <<local, stored, unlinked, cmd>>

List(p) ==
    /\ pc[p] = "act" /\ Does(p, "list")
    /\ End(p, "ok")
    /\ UNCHANGED <<local, volumes, stored, unlinked, cmd>>

Show(p) ==
    /\ pc[p] = "act" /\ Does(p, "show")
    /\ IF cmd[p].name \notin mem[p] THEN End(p, "not-registered")
       ELSE IF cmd[p].name \notin entries[p] THEN End(p, "not-deployed")
       ELSE Continue(p, "cat")
    /\ UNCHANGED <<local, volumes, stored, unlinked, cmd>>

Cat(p) ==
    /\ pc[p] = "cat"
    /\ End(p, IF cmd[p].name \in Present THEN "ok" ELSE "command-error")
    /\ volumes' = Mounted(volumes, Volume)
    /\ UNCHANGED <<local, stored, unlinked, cmd>>

(* The names edited but not saved before the volume.                       *)
EditUnsaved(p) ==
    /\ pc[p] = "act"
    /\ Does(p, "set") \/ Does(p, "remove")
    /\ Continue(p, "saved")
    /\ UNCHANGED <<local, volumes, stored, unlinked, cmd>>

(* Both "set" and "remove" put the name in or out of smt.json before they  *)
(* look at the volume's entries, if it is not already.                     *)
EditNames(p) ==
    /\ pc[p] = "act"
    /\ LET new == IF Does(p, "set") THEN mem[p] \cup {cmd[p].name}
                  ELSE mem[p] \ {cmd[p].name}
       IN /\ Does(p, "set") \/ Does(p, "remove")
          /\ mem' = [mem EXCEPT ![p] = new]
          /\ Goto(p, IF new = mem[p] THEN "saved" ELSE "save")
    /\ UNCHANGED <<local, volumes, stored, unlinked, cmd, entries>>

OpenNames(p) ==
    /\ pc[p] = "save"
    /\ local' = [local EXCEPT ![p] = Truncated(@)]
    /\ Continue(p, "saving")
    /\ UNCHANGED <<volumes, stored, unlinked, cmd>>

WriteNames(p) ==
    /\ pc[p] = "saving"
    /\ \/ /\ \E f \in Overwrites(local[p], mem[p]) : local' = [local EXCEPT ![p] = f]
          /\ Continue(p, "saved")
       \/ /\ \E f \in FailedWrites(local[p]) : local' = [local EXCEPT ![p] = f]
          /\ End(p, "write-error")
    /\ UNCHANGED <<volumes, stored, unlinked, cmd>>

(* The value comes from -value or two equal prompts, which may be given up.*)
PromptValue(p) ==
    /\ pc[p] = "saved" /\ Does(p, "set")
    /\ Continue(p, "put") \/ End(p, "no-input")
    /\ UNCHANGED <<local, volumes, stored, unlinked, cmd>>

(* docker run -v ... sh -c "base64 -d > /secrets/NAME".  Nobody asks what  *)
(* the file held before.                                                   *)
OpenSecret(p) ==
    /\ pc[p] = "put"
    /\ volumes' = Mounted(volumes, Volume)
    /\ stored' = [stored EXCEPT ![cmd[p].name] = Truncated(Absent(NoValue))]
    /\ unlinked' = unlinked \ {p}
    /\ Continue(p, "putting")
    /\ UNCHANGED <<local, cmd>>

(* The file in the volume has become one of F - unless the one that p      *)
(* opened has been removed since, and no longer is in the volume.          *)
Puts(p, F) ==
    /\ IF p \in unlinked THEN UNCHANGED stored
       ELSE \E f \in F : stored' = [stored EXCEPT ![cmd[p].name] = f]
    /\ unlinked' = unlinked \ {p}

WriteSecret(p) ==
    /\ pc[p] = "putting"
    /\ \/ Puts(p, Overwrites(stored[cmd[p].name], cmd[p].value)) /\ End(p, "ok")
       \/ Puts(p, FailedWrites(stored[cmd[p].name])) /\ End(p, "command-error")
    /\ UNCHANGED <<local, volumes, cmd>>

(* The edited list of names taken for the list of entries.                 *)
CheckNames(p) ==
    /\ pc[p] = "saved" /\ Does(p, "remove")
    /\ IF cmd[p].name \in mem[p] THEN Continue(p, "rm") ELSE End(p, "ok")
    /\ UNCHANGED <<local, volumes, stored, unlinked, cmd>>

(* A secret that the listing did not show is not removed.                  *)
CheckEntry(p) ==
    /\ pc[p] = "saved" /\ Does(p, "remove")
    /\ IF cmd[p].name \in entries[p] THEN Continue(p, "rm") ELSE End(p, "ok")
    /\ UNCHANGED <<local, volumes, stored, unlinked, cmd>>

(* The volume goes with the last secret.                                   *)
RemoveLast(p) ==
    /\ pc[p] = "rm"
    /\ volumes' = IF Present \subseteq {cmd[p].name} THEN volumes \ {Volume} ELSE volumes
    /\ stored' = [stored EXCEPT ![cmd[p].name] = Absent(NoValue)]
    /\ unlinked' = unlinked \cup {q \in Procs : Putting(q, cmd[p].name)}
    /\ End(p, IF cmd[p].name \in Present THEN "ok" ELSE "command-error")
    /\ UNCHANGED <<local, cmd>>

(* rm, also while another operator has the file open.                      *)
RemoveSecret(p) ==
    /\ pc[p] = "rm"
    /\ volumes' = Mounted(volumes, Volume)
    /\ stored' = [stored EXCEPT ![cmd[p].name] = Absent(NoValue)]
    /\ unlinked' = unlinked \cup {q \in Procs : Putting(q, cmd[p].name)}
    /\ End(p, IF cmd[p].name \in Present THEN "ok" ELSE "command-error")
    /\ UNCHANGED <<local, cmd>>

Crash(p) ==
    /\ pc[p] # "idle"
    /\ unlinked' = unlinked \ {p}
    /\ End(p, "killed")
    /\ UNCHANGED <<local, volumes, stored, cmd>>

(* A deploy makes sure of some project's volume (deploy.go 137), or another *)
(* project's secrets command mounts its own.                               *)
Elsewhere ==
    /\ \E v \in Volumes : \/ volumes' = Ensured(volumes, v)
                          \/ v # Volume /\ volumes' = Mounted(volumes, v)
    /\ UNCHANGED <<local, stored, unlinked, pc, cmd, mem, entries, result>>

Step(p) == \/ LookupVolume(p) \/ ListVolume(p) \/ Ask(p) \/ EnsureVolume(p)
           \/ List(p) \/ Show(p) \/ Cat(p) \/ EditNames(p) \/ OpenNames(p)
           \/ WriteNames(p) \/ PromptValue(p) \/ OpenSecret(p) \/ WriteSecret(p)
           \/ CheckEntry(p) \/ RemoveSecret(p)

Own == \E p \in Procs : (\E c \in Commands : Begin(p, c)) \/ Step(p) \/ Crash(p)

Next == Own \/ Elsewhere

Spec == Init /\ [][Next]_vars
-----------------------------------------------------------------------------
TypeOK ==
    /\ local \in [Procs -> File(SUBSET Names)]
    /\ volumes \subseteq Volumes
    /\ stored \in [Names -> File(Values \cup {NoValue})]
    /\ unlinked \subseteq Procs
    /\ pc \in [Procs -> PCs]
    /\ cmd \in [Procs -> Command]
    /\ mem \in [Procs -> SUBSET Names]
    /\ entries \in [Procs -> SUBSET Names]
    /\ result \in [Procs -> Results]

(* Write-ahead order, with any number of operators and deaths: when an     *)
(* operator's command brings a secret to the volume, its own smt.json      *)
(* lists the name and can be read, and when it takes one away, no longer   *)
(* does.  What a death leaves behind is a listed name without a value, or  *)
(* a removal that has not happened; never an unlisted new secret.          *)
NamesGoFirst ==
    [][\A p \in Procs : pc[p] # pc'[p] /\ stored' # stored =>
         /\ pc[p] # "idle"
         /\ local[p].state = "ok"
         /\ (cmd[p].name \in local[p].data) =
              (stored'[cmd[p].name].state # "absent")]_vars

(* No secrets command brings the project's volume into being unless its    *)
(* operator said yes to that, also when a deploy makes the volume in the   *)
(* meantime - where no other volume's name contains its.                   *)
VolumesByConsent ==
    [][\A p \in Procs : pc'[p] # pc[p] /\ Volume \in volumes' \ volumes =>
           pc[p] = "ensure" /\ pc'[p] = "act"]_vars

(* An smt.json cut between truncation and bytes (project.go 103), which is *)
(* the whole configuration of the project: no command of its operator gets *)
(* past loading it, and so none writes it again.                           *)
CutNamesArePermanent ==
    [][\A p \in Procs : pc[p] = "idle" /\ Broken(local[p]) =>
           pc'[p] = "idle" /\ Broken(local'[p])]_vars
-----------------------------------------------------------------------------
(* secrets.go 18: "Returns a non-nil pointer to the volume if it exists, a *)
(* nil pointer if it does not".  docker's name filter matches parts of     *)
(* names.                                                                  *)
FoundVolumesExist == \A p \in Procs : pc[p] = "ls" => Volume \in volumes
=============================================================================
