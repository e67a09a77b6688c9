--------------------------- MODULE PromptsProofs ---------------------------
(***************************************************************************)
(* Prompts for every input and every sequence of questions.                *)
(***************************************************************************)
EXTENDS Prompts, TLAPS

(* The terminal gives a scanner no more than the line it asks for, so      *)
(* nothing is lost between two questions.                                  *)
AtTerminal ==
    source = "terminal" =>
        /\ \A k \in 1..Len(answers) : WholeLine(answers[k])
        /\ \A p \in 1..taken : Ends(p) \/ \E k \in 1..Len(answers) : Inside(p, answers[k])
        /\ pc # "scan" => taken = read
        /\ \A o \in (taken + 1)..(read - 1) : ~Ends(o)
        /\ taken = 0 \/ Ends(taken) \/ taken = Len(text)
        /\ taken < read => Ends(read) \/ read = Len(text)

(* The first scanner reads the file; the next has nothing left to scan.    *)
FromFile ==
    source = "file" =>
        /\ read \in {0, Len(text)}
        /\ Len(answers) <= 1
        /\ answers # <<>> => read = Len(text)
        /\ answers # <<>> /\ pc = "scan" => taken = Len(text)

Due == /\ pc = "scan" => Len(answers) < Len(required)
       /\ pc = "saved" => Len(answers) = Len(required)

IInv == TypeOK /\ Due /\ AtTerminal /\ FromFile

LEMMA InputTypes ==
    ASSUME TypeOK
    PROVE  Len(text) \in Nat /\ Len(required) \in Nat /\ Len(answers) \in Nat
BY ConstantsAssumption DEF TypeOK

(* A line is an answer, or it was empty and an answer is required.         *)
LEMMA Given ==
    ASSUME TypeOK, NEW from \in Nat, NEW to \in Nat, Give(from, to)
    PROVE  \/ from = to /\ UNCHANGED <<pc, answers>>
           \/ /\ pc' = "ask"
              /\ answers' \in Seq(Span)
              /\ Len(answers') = Len(answers) + 1
              /\ \A k \in 1..Len(answers) : answers'[k] = answers[k]
              /\ answers'[Len(answers) + 1] = [from |-> from, to |-> to]
<1> DEFINE a == [from |-> from, to |-> to]
<1>1. answers \in Seq(Span) /\ a \in Span
  BY DEF TypeOK, Span
<1>2. \/ from = to /\ UNCHANGED <<pc, answers>>
      \/ pc' = "ask" /\ answers' = Append(answers, a)
  BY DEF Give
<1> HIDE DEF a
<1>3. /\ Append(answers, a) \in Seq(Span)
      /\ Len(Append(answers, a)) = Len(answers) + 1
      /\ \A k \in 1..Len(answers) : Append(answers, a)[k] = answers[k]
      /\ Append(answers, a)[Len(answers) + 1] = a
  BY <1>1
<1> QED BY <1>2, <1>3 DEF a

LEMMA InitIInv == Init => IInv
BY ConstantsAssumption
   DEF Init, IInv, TypeOK, Due, AtTerminal, FromFile, Span, WholeLine, Inside, Ends

LEMMA AskKeeps == ASSUME IInv, Ask PROVE IInv'
<1>1. TypeOK' /\ Due'
  BY InputTypes DEF IInv, Ask, TypeOK, Due
<1>2. AtTerminal' /\ FromFile'
  BY InputTypes DEF IInv, Ask, TypeOK, AtTerminal, FromFile, WholeLine, Inside, Ends
<1> QED BY <1>1, <1>2 DEF IInv

LEMMA ReadKeeps == ASSUME IInv, Read PROVE IInv'
<1>1. /\ read' \in (read + 1)..Len(text)
      /\ source = "file" => read' = Len(text)
      /\ source = "terminal" => /\ Ends(read') \/ read' = Len(text)
                                /\ \A o \in (read + 1)..(read' - 1) : ~Ends(o)
  BY InputTypes DEF IInv, Read, TypeOK, ReadsTo, AtEnd, Sources
<1>2. TypeOK' /\ Due'
  BY <1>1, InputTypes DEF IInv, Read, TypeOK, Due
<1>3. AtTerminal'
  <2>1. source = "terminal" => taken = read
    BY InputTypes DEF IInv, Read, TypeOK, AtTerminal, HasLine, AtEnd
  <2> QED BY <1>1, <2>1, InputTypes
          DEF IInv, Read, TypeOK, AtTerminal, WholeLine, Inside, Ends
<1>4. FromFile'
  BY <1>1, InputTypes DEF IInv, Read, TypeOK, FromFile, AtEnd
<1> QED BY <1>2, <1>3, <1>4 DEF IInv

(* A scanner gives out what lies between "taken" and "to", and goes on     *)
(* from "next".                                                            *)
LEMMA GiveKeeps ==
    ASSUME IInv, pc = "scan", NEW to \in Nat, NEW next \in Nat,
           Give(taken, to), taken' = next,
           UNCHANGED <<text, source, required, read>>,
           taken < next, next <= read, to \in {next - 1, next},
           \A o \in (taken + 1)..to : ~Ends(o),
           \/ to = next - 1 /\ Ends(next)
           \/ to = next /\ next = Len(text)
    PROVE  IInv'
<1>0. TypeOK /\ Len(text) \in Nat /\ Len(required) \in Nat /\ Len(answers) \in Nat
  BY InputTypes DEF IInv
<1>1. taken \in Nat /\ read \in Nat /\ read <= Len(text)
  BY <1>0 DEF TypeOK
<1>2. CASE taken = to /\ UNCHANGED <<pc, answers>>
  <2>1. TypeOK' /\ Due'
    BY <1>0, <1>1, <1>2 DEF IInv, TypeOK, Due
  <2>2. AtTerminal'
    BY <1>0, <1>1, <1>2 DEF IInv, AtTerminal, WholeLine, Inside, Ends
  <2>3. FromFile'
    BY <1>0, <1>1, <1>2 DEF IInv, FromFile
  <2> QED BY <2>1, <2>2, <2>3 DEF IInv
<1>3. CASE /\ pc' = "ask"
           /\ answers' \in Seq(Span)
           /\ Len(answers') = Len(answers) + 1
           /\ \A k \in 1..Len(answers) : answers'[k] = answers[k]
           /\ answers'[Len(answers) + 1] = [from |-> taken, to |-> to]
  <2>1. TypeOK' /\ Due'
    BY <1>0, <1>1, <1>3 DEF IInv, TypeOK, Due
  <2>2. AtTerminal'
    <3> SUFFICES ASSUME source = "terminal" PROVE AtTerminal'
      BY DEF AtTerminal
    <3> DEFINE a == [from |-> taken, to |-> to]
               n == Len(answers)
    <3>1. next = read
      BY <1>0, <1>1 DEF IInv, AtTerminal, Ends
    <3>2. WholeLine(a)
      BY <1>0, <1>1 DEF IInv, AtTerminal, WholeLine, Ends
    <3>3. \A k \in 1..(n + 1) : WholeLine(answers'[k])
      BY <1>0, <1>3, <3>2 DEF IInv, AtTerminal
    <3>4. \A p \in 1..next : Ends(p) \/ \E k \in 1..(n + 1) : Inside(p, answers'[k])
      <4> SUFFICES ASSUME NEW p \in 1..next, ~Ends(p)
                   PROVE  \E k \in 1..(n + 1) : Inside(p, answers'[k])
        OBVIOUS
      <4>1. CASE p <= taken
        BY <1>0, <1>1, <1>3, <4>1 DEF IInv, AtTerminal
      <4>2. CASE p > taken
        BY <1>0, <1>1, <1>3, <4>2 DEF Inside
      <4> QED BY <1>1, <4>1, <4>2
    <3> HIDE DEF a, n
    <3> QED BY <1>0, <1>1, <1>3, <3>1, <3>3, <3>4 DEF AtTerminal, WholeLine, Inside, Ends, n
  <2>3. FromFile'
    BY <1>0, <1>1, <1>3 DEF IInv, FromFile
  <2> QED BY <2>1, <2>2, <2>3 DEF IInv
<1> QED BY <1>0, <1>1, <1>2, <1>3, Given

LEMMA LineKeeps == ASSUME IInv, Line PROVE IInv'
<1>1. PICK p \in 1..read : LineTo(p) /\ Give(taken, p - 1) /\ taken' = p
  BY DEF Line
<1>2. read \in Nat /\ taken \in Nat /\ p \in Nat /\ taken < p /\ p <= read /\ p - 1 \in Nat
  BY <1>1, InputTypes DEF IInv, TypeOK, LineTo
<1> QED BY <1>1, <1>2, GiveKeeps DEF Line, LineTo

LEMMA LastLineKeeps == ASSUME IInv, LastLine PROVE IInv'
<1>1. read \in Nat /\ taken \in Nat
  BY InputTypes DEF IInv, TypeOK
<1>2. \A o \in (taken + 1)..read : ~Ends(o)
  BY DEF LastLine, HasLine
<1> QED BY <1>1, <1>2, GiveKeeps DEF LastLine, AtEnd

LEMMA NoInputKeeps == ASSUME IInv, NoInput PROVE IInv'
BY DEF IInv, NoInput, TypeOK, Due, AtTerminal, FromFile, WholeLine, Inside, Ends

LEMMA NextIInv == IInv /\ [Next]_vars => IInv'
<1>1. IInv /\ UNCHANGED vars => IInv'
  BY DEF vars, IInv, TypeOK, Due, AtTerminal, FromFile, WholeLine, Inside, Ends
<1> QED BY <1>1, AskKeeps, ReadKeeps, LineKeeps, LastLineKeeps, NoInputKeeps DEF Next

THEOREM AlwaysIInv == Spec => []IInv
BY InitIInv, NextIInv, PTL DEF Spec

(* Every variable keeps its type (TypeOK), and there is never an answer    *)
(* too many.                                                               *)
THEOREM TypeCorrect == Spec => []TypeOK
<1>1. IInv => TypeOK
  BY DEF IInv
<1> QED BY <1>1, AlwaysIInv, PTL

(* Whatever is typed and whatever is asked, every line typed is an answer, *)
(* whole, or an empty line that was refused (config.go 271-305).           *)
THEOREM TerminalHeard == Spec => []TerminalIsHeard
<1>1. IInv => TerminalIsHeard
  BY InputTypes DEF IInv, TypeOK, AtTerminal, TerminalIsHeard
<1> QED BY <1>1, AlwaysIInv, PTL

(* No file shorter than a scanner's first read, which is 4096 bytes,       *)
(* answers two questions (config.go 292).                                  *)
THEOREM OneAnswer == Spec => []FileAnswersOne
<1>1. IInv => FileAnswersOne
  BY InputTypes DEF IInv, TypeOK, Due, FromFile, FileAnswersOne
<1> QED BY <1>1, AlwaysIInv, PTL
=============================================================================
