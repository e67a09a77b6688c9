----------------------------- MODULE LocalProc -----------------------------
(***************************************************************************)
(* utils.execute: run a local command (go mod init, go get, ...) and       *)
(* return what it printed.  For each of stdout and stderr a copier inside  *)
(* os/exec reads the operating system's pipe and writes what it read to an *)
(* io.Pipe, whose write returns when a reader took it, and then to a       *)
(* strings.Builder; a goroutine scans the io.Pipe for lines to log.  The   *)
(* caller waits for the command and its copiers, closes the io.Pipes and   *)
(* receives one "done" from each goroutine.                                *)
(*                                                                         *)
(* Output is counted in pieces: "text" is a part of a line that fills one  *)
(* of MaxToken units of the scanner's buffer, "end" terminates a line.     *)
(***************************************************************************)
EXTENDS Naturals, Sequences

CONSTANTS MaxToken,  \* the scanner's buffer (bufio.MaxScanTokenSize)
          LineMax,   \* the longest line the command prints
          PipeCap,   \* what the operating system's pipe holds
          OutputMax  \* bound: pieces a command prints to one stream

ASSUME ConstantsAssumption ==
    /\ {MaxToken, LineMax, PipeCap, OutputMax} \subseteq Nat
    /\ MaxToken > 0 /\ PipeCap > 0

Streams == {"stdout", "stderr"}
Pieces == {"text", "end"}

VARIABLES child,     \* the command: "running" or "exited"
          printed,   \* what it wrote to each stream so far
          lineLen,   \* the length of each stream's unfinished line
          osPipe,    \* written and not yet read by the copier
          copier,    \* "reading", "writing", "building" or "done"
          hand,      \* the piece the copier has read
          builder,   \* what the caller will return
          scanner,   \* "scanning", "finished" (sends done) or "received"
          pending,   \* the scanner's buffer, in units
          closed,    \* the io.Pipes' write ends are closed
          caller     \* "waiting", "stdout", "stderr" or "returned"

vars == <<child, printed, lineLen, osPipe, copier, hand, builder, scanner,
          pending, closed, caller>>

Each(v) == [s \in Streams |-> v]
-----------------------------------------------------------------------------
(* command.Start() succeeded and both goroutines run.                      *)
Init ==
    /\ child = "running"
    /\ printed = Each(<<>>) /\ lineLen = Each(0) /\ osPipe = Each(<<>>)
    /\ copier = Each("reading") /\ hand = Each("end") /\ builder = Each(<<>>)
    /\ scanner = Each("scanning") /\ pending = Each(0)
    /\ closed = FALSE
    /\ caller = "waiting"

Prints(s, piece) ==
    /\ child = "running"
    /\ Len(printed[s]) < OutputMax
    /\ Len(osPipe[s]) < PipeCap
    /\ piece = "text" => lineLen[s] < LineMax
    /\ printed' = [printed EXCEPT ![s] = Append(@, piece)]
    /\ osPipe' = [osPipe EXCEPT ![s] = Append(@, piece)]
    /\ lineLen' = [lineLen EXCEPT ![s] = IF piece = "end" THEN 0 ELSE @ + 1]
    /\ UNCHANGED <<child, copier, hand, builder, scanner, pending, closed, caller>>

Exits ==
    /\ child = "running"
    /\ child' = "exited"
    /\ UNCHANGED <<printed, lineLen, osPipe, copier, hand, builder, scanner,
                   pending, closed, caller>>

(* The copier's Read: a piece, or the end of the stream.                   *)
CopierReads(s) ==
    /\ copier[s] = "reading"
    /\ \/ /\ osPipe[s] # <<>>
          /\ hand' = [hand EXCEPT ![s] = Head(osPipe[s])]
          /\ osPipe' = [osPipe EXCEPT ![s] = Tail(@)]
          /\ copier' = [copier EXCEPT ![s] = "writing"]
       \/ /\ osPipe[s] = <<>> /\ child = "exited"
          /\ copier' = [copier EXCEPT ![s] = "done"]
          /\ UNCHANGED <<hand, osPipe>>
    /\ UNCHANGED <<child, printed, lineLen, builder, scanner, pending, closed, caller>>

(* io.MultiWriter: the pipe first, the builder when that write returned.   *)
CopierBuilds(s) ==
    /\ copier[s] = "building"
    /\ builder' = [builder EXCEPT ![s] = Append(@, hand[s])]
    /\ copier' = [copier EXCEPT ![s] = "reading"]
    /\ UNCHANGED <<child, printed, lineLen, osPipe, hand, scanner, pending, closed, caller>>

(* The scanner reads what the copier writes into the rest of its buffer.   *)
Scans(s) ==
    /\ scanner[s] = "scanning"
    /\ pending[s] < MaxToken
    /\ copier[s] = "writing"
    /\ pending' = [pending EXCEPT ![s] = IF hand[s] = "end" THEN 0 ELSE @ + 1]
    /\ copier' = [copier EXCEPT ![s] = "building"]
    /\ UNCHANGED <<child, printed, lineLen, osPipe, hand, builder, scanner, closed, caller>>

(* Scan returns false at the end of the stream - or when the buffer is     *)
(* full of one line (ErrTooLong).  Nobody reads the io.Pipe from then on.  *)
ScanFinishes(s) ==
    /\ scanner[s] = "scanning"
    /\ closed \/ pending[s] = MaxToken
    /\ scanner' = [scanner EXCEPT ![s] = "finished"]
    /\ UNCHANGED <<child, printed, lineLen, osPipe, copier, hand, builder, pending, closed, caller>>

(* The exit status alone, without the copiers.                             *)
WaitsForExit ==
    /\ caller = "waiting"
    /\ child = "exited"
    /\ closed' = TRUE
    /\ caller' = "stdout"
    /\ UNCHANGED <<child, printed, lineLen, osPipe, copier, hand, builder, scanner, pending>>

(* The writers left open.                                                  *)
WaitsUnclosed ==
    /\ caller = "waiting"
    /\ child = "exited" /\ \A s \in Streams : copier[s] = "done"
    /\ caller' = "stdout"
    /\ UNCHANGED <<child, printed, lineLen, osPipe, copier, hand, builder, scanner, pending, closed>>

(* command.Wait() returns when the command exited and its copiers are      *)
(* done; then both writers are closed.                                     *)
Waits ==
    /\ caller = "waiting"
    /\ child = "exited" /\ \A s \in Streams : copier[s] = "done"
    /\ closed' = TRUE
    /\ caller' = "stdout"
    /\ UNCHANGED <<child, printed, lineLen, osPipe, copier, hand, builder, scanner, pending>>

(* <-stdoutDone, then <-stderrDone, then the builders' strings.            *)
Receives(s) ==
    /\ caller = s
    /\ scanner[s] = "finished"
    /\ scanner' = [scanner EXCEPT ![s] = "received"]
    /\ caller' = IF s = "stdout" THEN "stderr" ELSE "returned"
    /\ UNCHANGED <<child, printed, lineLen, osPipe, copier, hand, builder, pending, closed>>

(* The tool goes on to run its next command.                               *)
RunsNext ==
    /\ caller = "returned"
    /\ child' = "running"
    /\ printed' = Each(<<>>) /\ lineLen' = Each(0) /\ osPipe' = Each(<<>>)
    /\ copier' = Each("reading") /\ hand' = Each("end") /\ builder' = Each(<<>>)
    /\ scanner' = Each("scanning") /\ pending' = Each(0)
    /\ closed' = FALSE
    /\ caller' = "waiting"

(* The steps that are the tool's own, or the Go library's.                 *)
StreamStep(s) == \/ CopierReads(s) \/ CopierBuilds(s) \/ Scans(s)
                 \/ ScanFinishes(s) \/ Receives(s)

Next == \/ \E s \in Streams : \/ \E piece \in Pieces : Prints(s, piece)
                              \/ StreamStep(s)
        \/ Exits \/ Waits \/ RunsNext

(* Goroutines run, and the command terminates by itself.                   *)
Fairness == /\ \A s \in Streams : /\ WF_vars(CopierReads(s)) /\ WF_vars(CopierBuilds(s))
                                  /\ WF_vars(Scans(s)) /\ WF_vars(ScanFinishes(s))
                                  /\ WF_vars(Receives(s))
            /\ WF_vars(Exits) /\ WF_vars(Waits)

Spec == Init /\ [][Next]_vars

FairSpec == Spec /\ Fairness
-----------------------------------------------------------------------------
TypeOK ==
    /\ child \in {"running", "exited"}
    /\ printed \in [Streams -> Seq(Pieces)]
    /\ lineLen \in [Streams -> Nat]
    /\ osPipe \in [Streams -> Seq(Pieces)]
    /\ copier \in [Streams -> {"reading", "writing", "building", "done"}]
    /\ hand \in [Streams -> Pieces]
    /\ builder \in [Streams -> Seq(Pieces)]
    /\ scanner \in [Streams -> {"scanning", "finished", "received"}]
    /\ pending \in [Streams -> 0 .. MaxToken]
    /\ closed \in BOOLEAN
    /\ caller \in {"waiting", "returned"} \cup Streams

(* What execute returns is everything the command printed, in order, on    *)
(* both streams, though the strings are filled by goroutines the caller    *)
(* never joins (localproc.go 68-76).                                       *)
CaptureComplete ==
    caller = "returned" => builder = printed

(* A scanner has given up on a line with more output to come.              *)
Hung(s) == scanner[s] = "finished" /\ copier[s] = "writing"

(* Execute returns, whatever the command prints and however the pipes fill *)
(* up, unless a line did not fit into the scanner's buffer.                *)
ReturnsOrHangs ==
    (caller = "waiting") ~> (caller = "returned" \/ \E s \in Streams : Hung(s))

(* The command has exited, and no goroutine, nor the caller, can go on.    *)
AtRest ==
    /\ child = "exited"
    /\ \A s \in Streams :
          /\ copier[s] \notin {"reading", "building"}
          /\ scanner[s] = "scanning" =>
               ~closed /\ pending[s] < MaxToken /\ copier[s] # "writing"
          /\ caller = s => scanner[s] # "finished"
    /\ caller = "waiting" => \E s \in Streams : copier[s] # "done"

(* The only way for execute to come to rest before it returns is the hang: *)
(* the two receives, the close and the wait (localproc.go 68-73) never     *)
(* wait for one another in a circle.                                       *)
StopsOnlyHung == AtRest => caller = "returned" \/ \E s \in Streams : Hung(s)

(* A hung execute never returns (the TODO at localproc.go 48): the         *)
(* copier's write has no reader, Wait waits for the copier, and the reader *)
(* is closed by a deferred call only.                                      *)
HangIsPermanent == [][\A s \in Streams : Hung(s) => Hung(s)' /\ caller' = "waiting"]_vars
=============================================================================
