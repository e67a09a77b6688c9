---------------------------- MODULE ConfigStore ----------------------------
(***************************************************************************)
(* What the client config file promises its user: a map from server names  *)
(* to connection properties with a default, that a command changes in one  *)
(* entry at a time - or loses as a whole, for good.                        *)
(***************************************************************************)
EXTENDS Naturals

CONSTANTS Servers,   \* server names
          Values,    \* non-empty property values
          None,      \* the empty string
          NoEntry    \* a server without an entry

VARIABLES status,    \* "absent", "present" or "lost"
          default,   \* the default server
          servers    \* the entries

vars == <<status, default, servers>>

Entry == [host : Values, user : Values, key : Values,
          pass : Values \cup {None}]

Passphrase(s) == IF servers[s] = NoEntry THEN None ELSE servers[s].pass

Create ==
    /\ status = "absent"
    /\ status' = "present"
    /\ default' = None
    /\ servers' = [s \in Servers |-> NoEntry]

(* "set" never touches another entry nor the entry's pass phrase, and the  *)
(* default moves only when asked to or when there was none.                *)
SetServer(s, e) ==
    /\ status = "present"
    /\ e.pass = Passphrase(s)
    /\ servers' = [servers EXCEPT ![s] = e]
    /\ default' \in {default, s}
    /\ default' # None
    /\ UNCHANGED status

DeleteServer(s) ==
    /\ status = "present"
    /\ servers' = [servers EXCEPT ![s] = NoEntry]
    /\ default' = IF default = s THEN None ELSE default
    /\ UNCHANGED status

Lose ==
    /\ status # "lost"
    /\ status' = "lost"
    /\ UNCHANGED <<default, servers>>

Next ==
    \/ Create
    \/ \E s \in Servers : (\E e \in Entry : SetServer(s, e)) \/ DeleteServer(s)
    \/ Lose

Init ==
    /\ status \in {"absent", "present"}
    /\ servers \in [Servers -> Entry \cup {NoEntry}]
    /\ default \in {None} \cup {s \in Servers : servers[s] # NoEntry}

Spec == Init /\ [][Next]_vars
=============================================================================
