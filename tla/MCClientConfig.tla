--------------------------- MODULE MCClientConfig ---------------------------
(* Instances of ClientConfig for TLC.                                       *)
EXTENDS ClientConfigStore, ClientConfigOverlap, TLC

CONSTANTS dflt, web, v1, v2, p1, p2

Cmd(actions, server, val, pick, force) ==
    [actions |-> actions, server |-> server, host |-> val, user |-> val,
     key |-> val, pick |-> pick, force |-> force]

E1 == [host |-> v1, user |-> v1, key |-> v1, pass |-> v2]

(* A default with a pass phrase next to a server that is not the default,  *)
(* and the document {}.                                                     *)
MCHandConfigs ==
    { [default |-> web, servers |-> (web :> E1) @@ (dflt :> NoEntry), nilMap |-> FALSE],
      [EmptyConfig EXCEPT !.nilMap = TRUE] }

(* Every form of the command, with and without -server, flags and -force.  *)
AllCommands ==
    { Cmd({"set"}, s, v, k, f) : s \in {None, web}, v \in {None, v1},
                                 k \in BOOLEAN, f \in BOOLEAN }
    \cup { Cmd(A, s, None, k, FALSE) :
             A \in {{}, {"show"}, {"delete"}, {"validate"}, {"set", "show"}},
             s \in {None, web}, k \in BOOLEAN }
    \cup { [Cmd({"resolve"}, s, v, FALSE, FALSE) EXCEPT !.host = h] :
             s \in {None, web, dflt}, v \in {None, v1}, h \in {None, v1} }

(* A smaller set for two operators at once.                                 *)
OverlapCommands ==
    { Cmd({"set"}, web, v1, FALSE, TRUE), [Cmd({"set"}, dflt, v1, TRUE, TRUE) EXCEPT !.key = None],
      Cmd({"delete"}, web, None, FALSE, FALSE),
      Cmd({"delete"}, dflt, None, FALSE, FALSE),
      Cmd({"resolve"}, None, None, FALSE, FALSE), Cmd({"resolve"}, web, v1, FALSE, FALSE),
      Cmd({"validate"}, None, None, FALSE, FALSE), Cmd({}, web, None, TRUE, FALSE) }
=============================================================================
