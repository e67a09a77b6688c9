---------------------------- MODULE ClientConfig ----------------------------
(***************************************************************************)
(* ~/.config/smt.config and the commands that read and write it: the five  *)
(* forms of "smt config" (config.go) and the flag resolution that every    *)
(* remote command does before it runs (flags.go).  Each process of Procs   *)
(* is an operator who runs one command after another; several share the    *)
(* one file, which is loaded whole, edited in memory and written back      *)
(* whole (client.go).                                                      *)
(***************************************************************************)
EXTENDS InPlaceFile, Naturals

CONSTANTS Procs,        \* operators
          Servers,      \* server names
          DefaultName,  \* the name "default" (DefaultServerName)
          Values,       \* non-empty hostnames, user names and key paths
          None,         \* the empty string
          NoEntry,      \* a server without an entry
          Commands,     \* the command lines the operators may give
          HandConfigs   \* config files that exist before the first command

Text == Values \cup {None}

Actions == {"set", "delete", "show", "validate"}

Command == [actions : (SUBSET Actions) \cup {{"resolve"}},
            server : Servers \cup {None},
            host : Text, user : Text, key : Text,
            pick : BOOLEAN,    \* -set-default
            force : BOOLEAN]   \* -force

Entry == [host : Text, user : Text, key : Text, pass : Text]

Complete(e) == None \notin {e.host, e.user, e.key}

(* A config: "nilMap" is a JSON document without "servers", whose map is   *)
(* nil after json.Unmarshal.                                               *)
Config == [default : Servers \cup {None},
           servers : [Servers -> Entry \cup {NoEntry}],
           nilMap : BOOLEAN]

Configured(c) == {s \in Servers : c.servers[s] # NoEntry}

WellFormed(c) == /\ c.default \in Configured(c) \cup {None}
                 /\ \A s \in Configured(c) : Complete(c.servers[s])
                 /\ c.nilMap => Configured(c) = {}

ASSUME ConstantsAssumption ==
    /\ DefaultName \in Servers
    /\ None \notin Servers
    /\ None \notin Values
    /\ NoEntry \notin Entry
    /\ Commands \subseteq Command
    /\ HandConfigs \subseteq {c \in Config : WellFormed(c)}

EmptyConfig == [default |-> None, servers |-> [s \in Servers |-> NoEntry],
                nilMap |-> FALSE]

NoFlags == [actions |-> {}, server |-> None, host |-> None, user |-> None,
            key |-> None, pick |-> FALSE, force |-> FALSE]

VARIABLES dir,    \* ~/.config: "missing", "ok", or "locked" (no permissions)
          file,   \* smt.config
          pc,     \* where each operator's command is
          cmd,    \* the command line it runs
          mem,    \* the config it has loaded and edited
          result  \* how the last command ended, "none" while one runs

vars == <<dir, file, pc, cmd, mem, result>>

PCs == {"idle", "load", "create", "creating", "act", "save", "saving"}

Results == {"none", "ok", "usage", "missing", "unreadable", "unparsable",
            "write-error", "not-found", "dial-error", "no-input", "panic",
            "no-default", "unknown", "incomplete", "killed"}

(* With no action flag the command shows.                                  *)
Does(p, a) == cmd[p].actions = {a} \/ (cmd[p].actions = {} /\ a = "show")

Usage(c) == \/ \E a, b \in c.actions : a # b
            \/ c.actions = {"delete"} /\ (c.server = None \/ c.pick)

Goto(p, l) == pc' = [pc EXCEPT ![p] = l]

(* The process exits, and what it had loaded goes with it.                 *)
End(p, r) == /\ Goto(p, "idle")
             /\ result' = [result EXCEPT ![p] = r]
             /\ mem' = [mem EXCEPT ![p] = EmptyConfig]

NamedServer(c) == IF c.server = None THEN DefaultName ELSE c.server
-----------------------------------------------------------------------------
Init ==
    /\ \/ dir \in {"missing", "ok"} /\ file = Absent(EmptyConfig)
       \/ dir = "ok" /\ \E c \in HandConfigs : file = Holding(c)
    /\ pc = [p \in Procs |-> "idle"]
    /\ cmd = [p \in Procs |-> NoFlags]
    /\ mem = [p \in Procs |-> EmptyConfig]
    /\ result = [p \in Procs |-> "none"]

(* The path is resolved first.  MkdirAll gets os.O_RDWR, which is 2, as    *)
(* its file mode: a directory it creates has no owner permissions.         *)
Begin(p, c) ==
    /\ pc[p] = "idle"
    /\ dir' = IF dir = "missing" THEN "locked" ELSE dir
    /\ cmd' = [cmd EXCEPT ![p] = c]
    /\ IF Usage(c) THEN End(p, "usage")
       ELSE /\ Goto(p, "load")
            /\ result' = [result EXCEPT ![p] = "none"]
            /\ UNCHANGED mem
    /\ UNCHANGED file

LoadFails(p) ==
    /\ pc[p] = "load"
    /\ \/ dir # "ok" /\ End(p, "unreadable")
       \/ dir = "ok" /\ Broken(file) /\ End(p, "unparsable")
       \/ /\ dir = "ok" /\ file.state = "absent"
          /\ ~cmd[p].force /\ ~Does(p, "resolve")
          /\ End(p, "missing")
    /\ UNCHANGED <<dir, file, cmd>>

LoadForcing(p) ==
    /\ pc[p] = "load"
    /\ dir = "ok"
    /\ \/ /\ file.state = "ok"
          /\ mem' = [mem EXCEPT ![p] = file.data]
          /\ Goto(p, "act")
       \/ /\ file.state # "ok"
          /\ cmd[p].force \/ Does(p, "resolve")
          /\ mem' = [mem EXCEPT ![p] = EmptyConfig]
          /\ Goto(p, "create")
    /\ UNCHANGED <<dir, file, cmd, result>>

(* -force starts from an empty config, whatever there is.                  *)
LoadAnew(p) ==
    /\ pc[p] = "load"
    /\ dir = "ok"
    /\ \/ /\ file.state = "ok" /\ ~cmd[p].force
          /\ mem' = [mem EXCEPT ![p] = file.data]
          /\ Goto(p, "act")
       \/ /\ \/ cmd[p].force /\ file.state \in {"ok", "absent"}
             \/ Does(p, "resolve") /\ file.state = "absent"
          /\ mem' = [mem EXCEPT ![p] = EmptyConfig]
          /\ Goto(p, "create")
    /\ UNCHANGED <<dir, file, cmd, result>>

LoadUnmade(p) ==
    /\ pc[p] = "load"
    /\ dir = "ok"
    /\ \/ /\ file.state = "ok"
          /\ mem' = [mem EXCEPT ![p] = file.data]
          /\ Goto(p, "act")
       \/ /\ file.state = "absent"
          /\ cmd[p].force \/ Does(p, "resolve")
          /\ mem' = [mem EXCEPT ![p] = [EmptyConfig EXCEPT !.nilMap = TRUE]]
          /\ Goto(p, "create")
    /\ UNCHANGED <<dir, file, cmd, result>>

Load(p) ==
    /\ pc[p] = "load"
    /\ dir = "ok"
    /\ \/ /\ file.state = "ok"
          /\ mem' = [mem EXCEPT ![p] = file.data]
          /\ Goto(p, "act")
       \/ /\ file.state = "absent"
          /\ cmd[p].force \/ Does(p, "resolve")
          /\ mem' = [mem EXCEPT ![p] = EmptyConfig]
          /\ Goto(p, "create")
    /\ UNCHANGED <<dir, file, cmd, result>>

OpenFile(p) ==
    /\ \/ pc[p] = "create" /\ Goto(p, "creating")
       \/ pc[p] = "save" /\ Goto(p, "saving")
    /\ file' = Truncated(file)
    /\ UNCHANGED <<dir, cmd, mem, result>>

WriteFile(p) ==
    /\ \/ pc[p] = "creating" /\ Goto(p, "act") /\ UNCHANGED <<mem, result>>
       \/ pc[p] = "saving" /\ End(p, "ok")
    /\ file' \in Overwrites(file, mem[p])
    /\ UNCHANGED <<dir, cmd>>

WriteFails(p) ==
    /\ pc[p] \in {"creating", "saving"}
    /\ file' \in FailedWrites(file)
    /\ End(p, "write-error")
    /\ UNCHANGED <<dir, cmd>>

(* "-show", and "-validate" up to its dial; "default" is a literal name    *)
(* here, not the config's default server.                                  *)
Show(p) ==
    /\ pc[p] = "act"
    /\ Does(p, "show") \/ Does(p, "validate")
    /\ LET found == NamedServer(cmd[p]) \in Configured(mem[p]) IN
       \/ ~found /\ End(p, "not-found")
       \/ found /\ End(p, "ok")
       \/ found /\ Does(p, "validate") /\ End(p, "dial-error")
    /\ UNCHANGED <<dir, file, cmd>>

DeleteKeepingDefault(c, s) == [c EXCEPT !.servers[s] = NoEntry]

DeleteToNoEntry(c, s) ==
    [c EXCEPT !.servers[s] = NoEntry,
              !.default = IF @ = s THEN NoEntry ELSE @]

(* Deleting the default server leaves no default.                          *)
Without(c, s) ==
    [c EXCEPT !.servers[s] = NoEntry,
              !.default = IF @ = s THEN None ELSE @]

Delete(p) ==
    /\ pc[p] = "act"
    /\ Does(p, "delete")
    /\ mem' = [mem EXCEPT ![p] = Without(@, cmd[p].server)]
    /\ Goto(p, "save")
    /\ UNCHANGED <<dir, file, cmd, result>>

CurrentNoPass(p) ==
    LET old == mem[p].servers[NamedServer(cmd[p])] IN
    IF old # NoEntry THEN [old EXCEPT !.pass = None]
    ELSE [host |-> None, user |-> None, key |-> None, pass |-> None]

(* What the prompts show as current.                                       *)
Current(p) ==
    LET old == mem[p].servers[NamedServer(cmd[p])] IN
    IF old # NoEntry THEN old
    ELSE [host |-> None, user |-> None, key |-> None, pass |-> None]

InputMayBeEmpty(flag, current) ==
    IF flag # None THEN {flag} ELSE Values \cup {current}

(* A property given as a flag, or what the operator types at the prompt:   *)
(* an empty line keeps the current value, and is asked again without one.  *)
Input(flag, current) ==
    IF flag # None THEN {flag} ELSE Values \cup ({current} \ {None})

With(c, s, e, pick) ==
    [c EXCEPT !.servers[s] = e,
              !.default = IF pick \/ @ = None THEN s ELSE @]

Set(p) ==
    /\ pc[p] = "act"
    /\ Does(p, "set")
    /\ ~mem[p].nilMap
    /\ LET c == cmd[p]
           old == Current(p)
       IN \E h \in Input(c.host, old.host), u \in Input(c.user, old.user),
             k \in Input(c.key, old.key) :
             mem' = [mem EXCEPT ![p] =
                       With(@, NamedServer(c),
                            [host |-> h, user |-> u, key |-> k, pass |-> old.pass],
                            c.pick)]
    /\ Goto(p, "save")
    /\ UNCHANGED <<dir, file, cmd, result>>

(* A write to the nil map panics; the end of standard input at a prompt is *)
(* an error.  Nothing has been saved in either case.                       *)
SetFails(p) ==
    /\ pc[p] = "act"
    /\ Does(p, "set")
    /\ \/ mem[p].nilMap /\ End(p, "panic")
       \/ /\ ~mem[p].nilMap
          /\ None \in {cmd[p].host, cmd[p].user, cmd[p].key}
          /\ End(p, "no-input")
    /\ UNCHANGED <<dir, file, cmd>>

(* The server and properties a remote command will connect with.           *)
Resolution(c, config) ==
    LET s == IF c.server = None THEN config.default ELSE c.server
        e == config.servers[s]
    IN IF s = None THEN "no-default"
       ELSE IF e = NoEntry THEN "unknown"
       ELSE IF \/ c.host = None /\ e.host = None
               \/ c.user = None /\ e.user = None
               \/ c.key = None /\ e.key = None THEN "incomplete"
       ELSE "ok"

Resolve(p) ==
    /\ pc[p] = "act"
    /\ Does(p, "resolve")
    /\ End(p, Resolution(cmd[p], mem[p]))
    /\ UNCHANGED <<dir, file, cmd>>

(* The operator interrupts the command, or the machine stops.              *)
Crash(p) ==
    /\ pc[p] # "idle"
    /\ End(p, "killed")
    /\ UNCHANGED <<dir, file, cmd>>

Step(p) == \/ LoadFails(p) \/ Load(p) \/ OpenFile(p) \/ WriteFile(p)
           \/ WriteFails(p) \/ Show(p) \/ Delete(p) \/ Set(p) \/ SetFails(p)
           \/ Resolve(p)

Next == \E p \in Procs : (\E c \in Commands : Begin(p, c)) \/ Step(p) \/ Crash(p)

Spec == Init /\ [][Next]_vars
-----------------------------------------------------------------------------
TypeOK ==
    /\ dir \in {"missing", "ok", "locked"}
    /\ file \in File(Config)
    /\ pc \in [Procs -> PCs]
    /\ cmd \in [Procs -> Command]
    /\ mem \in [Procs -> Config]
    /\ result \in [Procs -> Results]

(* The default server names an entry and every entry is complete, in the   *)
(* file and in every config that may yet be written to it, whatever        *)
(* commands overlap or die.  "set" (config.go 223-265) and "delete"        *)
(* (183-188) each keep it by hand; no check on loading does.               *)
ConfigsWellFormed ==
    /\ WellFormed(file.data)
    /\ \A p \in Procs : WellFormed(mem[p])

(* A remote command that reads a config refuses it for one of two reasons: *)
(* the operator named a server that has no entry, or named none and there  *)
(* is no default.  A default that dangles and an entry that lacks a        *)
(* property, both of which flags.go 81-119 tests for, never come from the  *)
(* tool's own writes.                                                      *)
RefusalsAreTheOperators ==
    \A p \in Procs : Does(p, "resolve") =>
        /\ result[p] # "incomplete"
        /\ result[p] = "unknown" => cmd[p].server # None

(* The config cannot be read, for what is in it or for the directory that  *)
(* it is in, and no command holds a copy of it.                            *)
Wedged == /\ Broken(file) \/ dir = "locked"
          /\ \A p \in Procs : pc[p] \in {"idle", "load"}

(* A write that stops between truncation and bytes (client.go 68) is for   *)
(* good: no command, -force or not, makes the file readable again, because *)
(* LoadClientConfig creates the file only when it is missing.  So is a     *)
(* directory that the tool made without permissions (client.go 30).        *)
WedgeIsPermanent == [][Wedged => Wedged']_vars

(* A config whose server map is nil, on which "set" panics (config.go      *)
(* 226), is one that was written by hand: no command makes one, and none   *)
(* mends it, since "set" is the only one that could.                       *)
NilMapStays == [][file'.data.nilMap = file.data.nilMap]_vars
=============================================================================
