--------------------------- MODULE DockerVolumes ---------------------------
(***************************************************************************)
(* The Docker commands the tool gives the server, as secrets.go uses them. *)
(***************************************************************************)
CONSTANTS Volumes,  \* volume names
          Matches   \* pairs <<v, w>>: the name w contains the text v

ASSUME VolumesAssumption ==
    /\ Matches \subseteq Volumes \X Volumes
    /\ \A v \in Volumes : <<v, v>> \in Matches

(* docker volume ls --filter name=v: every volume with v in its name.      *)
Listed(existing, v) == \E w \in existing : <<v, w>> \in Matches

(* EnsureSecretsVolume: a volume is created when nothing is listed.        *)
Ensured(existing, v) == IF Listed(existing, v) THEN existing ELSE existing \cup {v}

(* docker run -v v:/secrets creates v when there is no such volume.        *)
Mounted(existing, v) == existing \cup {v}
=============================================================================
