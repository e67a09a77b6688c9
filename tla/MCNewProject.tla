---------------------------- MODULE MCNewProject ----------------------------
(* An instance of NewProject for TLC: one path and the one below it, and    *)
(* two commands for them that differ in their variables.                    *)
EXTENDS NewProject, TLC

CONSTANTS p1, p2

MCPaths == {<<"a">>, <<"a", "a">>}

MCCommands == [name : {"a"}, path : {<<"a">>}, vars : {"8080", "9090"}]

(* Nothing tells the two operators apart.                                   *)
Symmetry == Permutations({p1, p2})
=============================================================================
