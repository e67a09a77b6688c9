------------------------------ MODULE Prompts ------------------------------
(***************************************************************************)
(* The prompts of "smt config -set" (config.go 271-305) and where their    *)
(* answers come from: each prompt makes a bufio.Scanner of its own on      *)
(* standard input, reads until it has a line, and takes what else it has   *)
(* read with it when it goes.                                              *)
(*                                                                         *)
(* A terminal gives one line to a read, a file everything, a pipe whatever *)
(* has been written to it so far.  A file is taken to be shorter than the  *)
(* 4096 bytes of a scanner's first read; of a longer one the next prompt   *)
(* would get what lies beyond them, from the middle of a line.             *)
(*                                                                         *)
(* Lines are told apart only by their places in the input, so an answer is *)
(* the pair of places it lies between.                                     *)
(***************************************************************************)
EXTENDS Sequences, Integers

CONSTANTS Texts,     \* what standard input may hold until it ends
          Newline,   \* the end of a line
          Questions  \* sequences of questions, TRUE for one without a
                     \* current value, which requires an answer

ASSUME ConstantsAssumption ==
    /\ Texts \subseteq Seq(STRING)
    /\ Newline \in STRING
    /\ Questions \subseteq Seq(BOOLEAN)

Sources == {"terminal", "file", "pipe"}

VARIABLES text,     \* the input, from its beginning to its end
          source,   \* what it comes from
          required, \* the questions to ask
          pc,       \* "ask", "scan", "saved" or "failed"
          read,     \* how much of the input has been read
          taken,    \* how much of that the scanner has given out or lost
          answers   \* the answers so far

vars == <<text, source, required, pc, read, taken, answers>>

Span == [from : Nat, to : Nat]

Ends(p) == text[p] = Newline

(* What one read can end at, in an input shorter than 4096 bytes.          *)
ReadsTo ==
    CASE source = "terminal" ->
           {p \in (read + 1)..Len(text) :
              /\ Ends(p) \/ p = Len(text)
              /\ \A o \in (read + 1)..(p - 1) : ~Ends(o)}
      [] source = "file" -> {Len(text)}
      [] source = "pipe" -> (read + 1)..Len(text)

(* The scanner has a whole line, which ends at p.                          *)
LineTo(p) == /\ p \in (taken + 1)..read
             /\ Ends(p)
             /\ \A o \in (taken + 1)..(p - 1) : ~Ends(o)

HasLine == \E p \in (taken + 1)..read : Ends(p)

AtEnd == read = Len(text)
-----------------------------------------------------------------------------
Init ==
    /\ text \in Texts /\ source \in Sources /\ required \in Questions
    /\ pc = "ask"
    /\ read = 0 /\ taken = 0
    /\ answers = <<>>

AskAgain ==
    /\ pc = "ask"
    /\ IF Len(answers) = Len(required) THEN pc' = "saved" ELSE pc' = "scan"
    /\ UNCHANGED <<text, source, required, read, taken, answers>>

(* A scanner for the next question; the last one's buffer is gone.         *)
Ask ==
    /\ pc = "ask"
    /\ IF Len(answers) = Len(required) THEN pc' = "saved" ELSE pc' = "scan"
    /\ taken' = read
    /\ UNCHANGED <<text, source, required, read, answers>>

Read ==
    /\ pc = "scan"
    /\ ~HasLine
    /\ ~AtEnd
    /\ read' \in ReadsTo
    /\ UNCHANGED <<text, source, required, pc, taken, answers>>

GiveChopped(from, to) ==
    IF from = to /\ required[Len(answers) + 1]
    THEN UNCHANGED <<pc, answers>>
    ELSE /\ answers' = Append(answers, [from |-> from,
                                       to |-> IF from = to THEN to ELSE to - 1])
         /\ pc' = "ask"

(* An empty line is no answer to a question that requires one.             *)
Give(from, to) ==
    IF from = to /\ required[Len(answers) + 1]
    THEN UNCHANGED <<pc, answers>>
    ELSE /\ answers' = Append(answers, [from |-> from, to |-> to])
         /\ pc' = "ask"

Line ==
    /\ pc = "scan"
    /\ \E p \in 1..read : LineTo(p) /\ Give(taken, p - 1) /\ taken' = p
    /\ UNCHANGED <<text, source, required, read>>

(* The input ends without a newline.                                       *)
LastLine ==
    /\ pc = "scan"
    /\ ~HasLine /\ AtEnd /\ taken < read
    /\ Give(taken, read)
    /\ taken' = read
    /\ UNCHANGED <<text, source, required, read>>

NoInputUnlessRequired ==
    /\ pc = "scan"
    /\ AtEnd /\ taken = read
    /\ ~required[Len(answers) + 1]
    /\ pc' = "failed"
    /\ UNCHANGED <<text, source, required, read, taken, answers>>

(* "no input given": the command returns without saving.                   *)
NoInput ==
    /\ pc = "scan"
    /\ AtEnd /\ taken = read
    /\ pc' = "failed"
    /\ UNCHANGED <<text, source, required, read, taken, answers>>

Next == Ask \/ Read \/ Line \/ LastLine \/ NoInput

(* The command runs on, and the input comes or ends.                       *)
Spec == Init /\ [][Next]_vars /\ WF_vars(Next)
-----------------------------------------------------------------------------
TypeOK ==
    /\ text \in Texts /\ source \in Sources /\ required \in Questions
    /\ pc \in {"ask", "scan", "saved", "failed"}
    /\ read \in 0..Len(text) /\ taken \in 0..read
    /\ answers \in Seq(Span)
    /\ Len(answers) <= Len(required)

(* A line, or the rest of the input after the last newline.                *)
WholeLine(a) == /\ a.from = 0 \/ Ends(a.from)
                /\ a.to = Len(text) \/ Ends(a.to + 1)
                /\ \A p \in (a.from + 1)..a.to : ~Ends(p)

Inside(p, a) == a.from < p /\ p <= a.to

(* At a terminal the prompts may well have a scanner each: an answer is    *)
(* what was typed on one line, all of it, and whatever was typed has been  *)
(* part of an answer when the next question is asked, or the input ends.   *)
TerminalIsHeard ==
    source = "terminal" =>
        /\ \A k \in 1..Len(answers) : WholeLine(answers[k])
        /\ pc # "scan" => \A p \in 1..read :
             Ends(p) \/ \E k \in 1..Len(answers) : Inside(p, answers[k])

(* From a file shorter than a scanner's first read there is an answer to   *)
(* one question and no more: the first scanner has read the others' lines  *)
(* (config.go 292), and a command that has two questions saves nothing.    *)
FileAnswersOne ==
    source = "file" => /\ Len(answers) <= 1
                       /\ pc = "saved" => Len(required) <= 1

(* The end of the input ends the questions, also one that requires an      *)
(* answer and is asked again after every empty line.                       *)
QuestionsEnd == <>(pc \in {"saved", "failed"})
=============================================================================
