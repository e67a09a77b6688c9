---------------------------- MODULE InPlaceFile ----------------------------
(***************************************************************************)
(* A JSON file that the tool rewrites in place: os.WriteFile and the       *)
(* shell's "> path" open the file with truncation and only then write the  *)
(* new contents, so every write is two steps with an empty file between    *)
(* them.  Two writers that both truncated leave the second one's bytes     *)
(* over the first one's: the file parses only if the second text is at     *)
(* least as long.                                                          *)
(*                                                                         *)
(* "data" is what the file last held in parseable form; it is what a       *)
(* reader gets when "state" is "ok" and a history value otherwise.         *)
(***************************************************************************)

FileStates == {"absent", "empty", "garbled", "ok"}

File(Data) == [state : FileStates, data : Data]

Holding(d) == [state |-> "ok", data |-> d]

Absent(d) == [state |-> "absent", data |-> d]

(* The file exists and json.Unmarshal rejects it.                          *)
Broken(f) == f.state \in {"empty", "garbled"}

(* open(O_WRONLY|O_CREATE|O_TRUNC)                                         *)
Truncated(f) == [f EXCEPT !.state = "empty"]

Garbled(f) == [f EXCEPT !.state = "garbled"]

(* The outcomes of writing the text of d at offset 0 of f.                 *)
Overwrites(f, d) ==
    {Holding(d)} \cup (IF f.state = "empty" \/ f = Holding(d) THEN {}
                       ELSE {Garbled(f)})

(* The outcomes of a write that fails: no byte written, or a prefix.       *)
FailedWrites(f) == {f, Garbled(f)}
=============================================================================
