-------------------------- MODULE MCServiceRegistry --------------------------
(* Instances of ServiceRegistry for TLC.                                    *)
EXTENDS ServiceRegistryOverlap, TLC

CONSTANTS p1, p2, s1, s2, d1, d2, xdir, vol, a1, a2, mixed, none, c1, c2, cut

MCDefaultPath == (s1 :> d1) @@ (s2 :> d2)

(* Two versions; the assets of both may be mixed in one directory.          *)
v1 == [assets |-> a1, config |-> c1]
v2 == [assets |-> a2, config |-> c2]

TwoVersions == {v1, v2}
OneVersion == {v1}

(* Nothing tells two operators apart.                                       *)
Operators == Permutations({p1, p2})

MCMatches == {<<vol, vol>>}

(* s1 was given a directory of its own; s2 has the default one, or none.    *)
MCHandRegistries == { (s1 :> xdir) @@ (s2 :> d2), (s1 :> xdir) @@ (s2 :> NoPath) }

Deploy(s, v, show, dry) ==
    [kind |-> "deploy", name |-> s, vol |-> vol, version |-> v, show |-> show,
     dryRun |-> dry]

AllCommands ==
    { Deploy(s1, v, h, d) : v \in {v1, v2}, h \in BOOLEAN, d \in BOOLEAN }
    \cup { Deploy(s2, v1, FALSE, FALSE) }
    \cup { [kind |-> "service", name |-> s, action |-> a] :
             s \in {s1, s2}, a \in {"list", "start", "status"} }
    \cup { [kind |-> "install", force |-> f] : f \in BOOLEAN }

OverlapCommands ==
    { Deploy(s1, v1, FALSE, FALSE), Deploy(s2, v1, FALSE, FALSE),
      Deploy(s1, v1, TRUE, FALSE), Deploy(s2, v1, FALSE, TRUE),
      [kind |-> "install", force |-> FALSE],
      [kind |-> "service", name |-> s2, action |-> "status"] }
=============================================================================
