----------------------------- MODULE NewProject -----------------------------
(***************************************************************************)
(* "smt new": the directory is chosen while the command line is parsed     *)
(* (file.go, ResolveProjectPath), then made, filled from the template,     *)
(* turned into a Go module and described by smt.json, which is written     *)
(* last (new.go).  Nothing is cleaned up when a step fails, so a second    *)
(* attempt meets what the first one left; several operators may work below *)
(* one directory.                                                          *)
(*                                                                         *)
(* A path is the sequence of its names below a directory that exists.      *)
(***************************************************************************)
EXTENDS InPlaceFile, Sequences, Integers

CONSTANTS Procs,     \* operators
          Paths,     \* the paths the commands can lead to
          Commands,  \* command lines: name, path, and the variables' values
          None,      \* no command, no file
          Files,     \* the template's files
          Packages   \* the packages to get

Below(path, name) == Append(path, name)

Parent(path) == SubSeq(path, 1, Len(path) - 1)

ASSUME ConstantsAssumption ==
    /\ None \notin Commands /\ None \notin Files
    /\ \A c \in Commands : c.path \in Paths /\ Below(c.path, c.name) \in Paths

VARIABLES node,    \* what is at a path: nothing, a directory or a file
          tmpl,    \* the files of the template, in each directory
          mod,     \* go.mod, in each directory
          smt,     \* smt.json, in each directory
          pc,      \* where each operator's command is
          cmd,     \* the command line it runs
          dest,    \* the directory it has chosen
          todo,    \* the files and packages it has still to bring
          cur,     \* the file it is writing
          users    \* the operators who ever worked in a directory

tree == <<node, tmpl, mod, smt>>
vars == <<node, tmpl, mod, smt, pc, cmd, dest, todo, cur, users>>

PCs == {"idle", "make", "copy", "copying", "init", "get",
        "save", "saving"}

Goto(p, l) == pc' = [pc EXCEPT ![p] = l]

(* The process exits, with or without success.                             *)
End(p) == /\ Goto(p, "idle")
          /\ cmd' = [cmd EXCEPT ![p] = None]
          /\ dest' = [dest EXCEPT ![p] = <<>>]
          /\ todo' = [todo EXCEPT ![p] = {}]
          /\ cur' = [cur EXCEPT ![p] = None]

IsDir(path) == path = <<>> \/ (path \in Paths /\ node[path] = "dir")
-----------------------------------------------------------------------------
(* Directories and files of other origin, and no project yet.              *)
Init ==
    /\ node \in {n \in [Paths -> {"none", "dir", "file"}] :
                   \A d \in Paths : n[d] # "none" /\ Parent(d) \in Paths
                                      => n[Parent(d)] = "dir"}
    /\ tmpl = [d \in Paths |-> [f \in Files |-> Absent(None)]]
    /\ mod = [d \in Paths |-> "absent"]
    /\ smt = [d \in Paths |-> Absent(None)]
    /\ pc = [p \in Procs |-> "idle"]
    /\ cmd = [p \in Procs |-> None]
    /\ dest = [p \in Procs |-> <<>>]
    /\ todo = [p \in Procs |-> {}]
    /\ cur = [p \in Procs |-> None]
    /\ users = [d \in Paths |-> {}]

ResolvedReusing(c, d) ==
    /\ IsDir(Parent(c.path))
    /\ \/ node[c.path] = "none" /\ d = c.path
       \/ node[c.path] = "dir" /\ d = Below(c.path, c.name)

(* The directory is the path itself if that is free, else one below it.    *)
Resolved(c, d) ==
    /\ IsDir(Parent(c.path))
    /\ \/ node[c.path] = "none" /\ d = c.path
       \/ node[c.path] = "dir" /\ d = Below(c.path, c.name) /\ node[d] = "none"

Begin(p, c) ==
    /\ pc[p] = "idle"
    /\ \E d \in Paths : Resolved(c, d) /\ dest' = [dest EXCEPT ![p] = d]
    /\ cmd' = [cmd EXCEPT ![p] = c]
    /\ Goto(p, "make")
    /\ UNCHANGED <<tree, todo, cur, users>>

(* Neither is free, or there is no directory to put it in.                 *)
Refuse(p, c) ==
    /\ pc[p] = "idle"
    /\ \A d \in Paths : ~Resolved(c, d)
    /\ UNCHANGED vars

(* MkdirAll is content with a directory that has come to be since.         *)
MakeDir(p) ==
    /\ pc[p] = "make"
    /\ node[dest[p]] # "file"
    /\ node' = [node EXCEPT ![dest[p]] = "dir"]
    /\ users' = [users EXCEPT ![dest[p]] = @ \cup {p}]
    /\ todo' = [todo EXCEPT ![p] = Files]
    /\ Goto(p, "copy")
    /\ UNCHANGED <<tmpl, mod, smt, cmd, dest, cur>>

CopyStarted(p) == pc[p] = "copy"

(* The walk over the template is over.                                     *)
CopyEnded(p) == pc[p] = "copy" /\ todo[p] = {}

OpenFile(p, f) ==
    /\ pc[p] = "copy"
    /\ f \in todo[p]
    /\ tmpl' = [tmpl EXCEPT ![dest[p]][f] = Truncated(@)]
    /\ todo' = [todo EXCEPT ![p] = @ \ {f}]
    /\ cur' = [cur EXCEPT ![p] = f]
    /\ Goto(p, "copying")
    /\ UNCHANGED <<node, mod, smt, cmd, dest, users>>

(* The file's text, with the command's values for the variables.           *)
WriteFile(p) ==
    /\ pc[p] = "copying"
    /\ \E w \in Overwrites(tmpl[dest[p]][cur[p]], cmd[p]) :
          tmpl' = [tmpl EXCEPT ![dest[p]][cur[p]] = w]
    /\ cur' = [cur EXCEPT ![p] = None]
    /\ Goto(p, "copy")
    /\ UNCHANGED <<node, mod, smt, cmd, dest, todo, users>>

(* go mod init looks for a go.mod, which it would not touch ...            *)
ModTest(p) ==
    /\ CopyEnded(p)
    /\ mod[dest[p]] = "absent"
    /\ Goto(p, "init")
    /\ UNCHANGED <<tree, cmd, dest, todo, cur, users>>

(* ... and then writes one.                                                *)
ModWrite(p) ==
    /\ pc[p] = "init"
    /\ mod' = [mod EXCEPT ![dest[p]] = "init"]
    /\ todo' = [todo EXCEPT ![p] = Packages]
    /\ Goto(p, "get")
    /\ UNCHANGED <<node, tmpl, smt, cmd, dest, cur, users>>

GetPackage(p, k) ==
    /\ pc[p] = "get"
    /\ k \in todo[p]
    /\ todo' = [todo EXCEPT ![p] = @ \ {k}]
    /\ UNCHANGED <<tree, pc, cmd, dest, cur, users>>

TidyUnsaved(p) ==
    /\ pc[p] = "get"
    /\ todo[p] = {}
    /\ Goto(p, "save")
    /\ UNCHANGED <<tree, cmd, dest, todo, cur, users>>

Tidy(p) ==
    /\ pc[p] = "get"
    /\ todo[p] = {}
    /\ mod' = [mod EXCEPT ![dest[p]] = "tidy"]
    /\ Goto(p, "save")
    /\ UNCHANGED <<node, tmpl, smt, cmd, dest, todo, cur, users>>

OpenConfig(p) ==
    /\ pc[p] = "save"
    /\ smt' = [smt EXCEPT ![dest[p]] = Truncated(@)]
    /\ Goto(p, "saving")
    /\ UNCHANGED <<node, tmpl, mod, cmd, dest, todo, cur, users>>

WriteConfig(p) ==
    /\ pc[p] = "saving"
    /\ \E w \in Overwrites(smt[dest[p]], cmd[p]) :
          smt' = [smt EXCEPT ![dest[p]] = w]
    /\ End(p)
    /\ UNCHANGED <<node, tmpl, mod, users>>

(* A step fails, a go.mod in the way among them, or the command is killed; *)
(* a write may have got as far as some of its bytes.                       *)
Stop(p) ==
    /\ pc[p] # "idle"
    /\ End(p)
    /\ \/ UNCHANGED <<tmpl, smt>>
       \/ /\ pc[p] = "copying"
          /\ \E w \in FailedWrites(tmpl[dest[p]][cur[p]]) :
                tmpl' = [tmpl EXCEPT ![dest[p]][cur[p]] = w]
          /\ UNCHANGED smt
       \/ /\ pc[p] = "saving"
          /\ \E w \in FailedWrites(smt[dest[p]]) : smt' = [smt EXCEPT ![dest[p]] = w]
          /\ UNCHANGED tmpl
    /\ UNCHANGED <<node, mod, users>>

Step(p) == \/ MakeDir(p)
           \/ \E f \in Files : OpenFile(p, f)
           \/ WriteFile(p) \/ ModTest(p) \/ ModWrite(p)
           \/ \E k \in Packages : GetPackage(p, k)
           \/ Tidy(p) \/ OpenConfig(p) \/ WriteConfig(p)

Next == \E p \in Procs : \/ \E c \in Commands : Begin(p, c) \/ Refuse(p, c)
                         \/ Step(p) \/ Stop(p)

Spec == Init /\ [][Next]_vars
-----------------------------------------------------------------------------
Contents == File(Commands \cup {None})

TypeOK ==
    /\ node \in [Paths -> {"none", "dir", "file"}]
    /\ tmpl \in [Paths -> [Files -> Contents]]
    /\ mod \in [Paths -> {"absent", "init", "tidy"}]
    /\ smt \in [Paths -> Contents]
    /\ pc \in [Procs -> PCs]
    /\ cmd \in [Procs -> Commands \cup {None}]
    /\ dest \in [Procs -> Paths \cup {<<>>}]
    /\ todo \in [Procs -> SUBSET (Files \cup Packages)]
    /\ cur \in [Procs -> Files \cup {None}]
    /\ users \in [Paths -> SUBSET Procs]

(* A directory's smt.json is what makes it a project to the other          *)
(* commands.  However many attempts met in it and wherever they stopped, a *)
(* directory with an smt.json has every file of the template and a go.mod. *)
ConfigComesLast ==
    \A d \in Paths : smt[d].state # "absent" =>
        /\ mod[d] # "absent"
        /\ \A f \in Files : tmpl[d][f].state # "absent"

(* The project that c asks for, all of it.                                 *)
Whole(d, c) == /\ smt[d] = Holding(c)
               /\ mod[d] = "tidy"
               /\ \A f \in Files : tmpl[d][f] = Holding(c)

(* Where only one command ever worked, a readable smt.json stands for a    *)
(* whole project with that command's values in every file (new.go 198).    *)
LoneProjectsAreWhole ==
    \A d \in Paths :
        (\A p, q \in users[d] : p = q) /\ smt[d].state = "ok"
            => Whole(d, smt[d].data)

(* Something is there, and no command is working in it or about to.        *)
Settled(d) == /\ node[d] # "none"
              /\ \A p \in Procs : pc[p] = "idle" \/ dest[p] # d

(* No later command touches what is there (file.go 87-91): a project is    *)
(* never overwritten, and one left half done is never completed by trying  *)
(* again - the second attempt is refused or nests a new one below it.      *)
SettledIsFinal ==
    [][\A d \in Paths : Settled(d) =>
         /\ Settled(d)'
         /\ UNCHANGED <<node[d], tmpl[d], mod[d], smt[d]>>]_vars
=============================================================================
