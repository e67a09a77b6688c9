-------------------------- MODULE LocalProcProofs --------------------------
(***************************************************************************)
(* LocalProc for every buffer size, line length, pipe capacity and amount  *)
(* of output.                                                              *)
(***************************************************************************)
EXTENDS LocalProc, SequenceTheorems, TLAPS

(* A piece travels from the operating system's pipe through the copier's   *)
(* hand to the builder; none is lost, doubled or overtaken on the way.     *)
InHand(s) == IF copier[s] \in {"writing", "building"} THEN <<hand[s]>> ELSE <<>>

Conserved(s) == printed[s] = (builder[s] \o InHand(s)) \o osPipe[s]

(* A copier ends when there is nothing left to copy, and the caller waits  *)
(* for both.                                                               *)
JoinOrder ==
    /\ \A s \in Streams : copier[s] = "done" => child = "exited" /\ osPipe[s] = <<>>
    /\ caller # "waiting" => \A s \in Streams : copier[s] = "done"

IInv == TypeOK /\ JoinOrder /\ \A s \in Streams : Conserved(s)
-----------------------------------------------------------------------------
LEMMA PrintOne ==
    ASSUME NEW b \in Seq(Pieces), NEW h \in Seq(Pieces), NEW q \in Seq(Pieces),
           NEW x \in Pieces
    PROVE  Append((b \o h) \o q, x) = (b \o h) \o Append(q, x)
<1>1. b \o h \in Seq(Pieces) /\ <<x>> \in Seq(Pieces)
  BY ConcatProperties
<1>2. (b \o h) \o q \in Seq(Pieces)
  BY <1>1, ConcatProperties
<1>3. Append((b \o h) \o q, x) = ((b \o h) \o q) \o <<x>> /\ Append(q, x) = q \o <<x>>
  BY <1>2, AppendIsConcat
<1> QED BY <1>1, <1>3, ConcatAssociative

LEMMA TakeOne ==
    ASSUME NEW b \in Seq(Pieces), NEW q \in Seq(Pieces), q # <<>>
    PROVE  /\ Head(q) \in Pieces /\ Tail(q) \in Seq(Pieces)
           /\ (b \o <<>>) \o q = (b \o <<Head(q)>>) \o Tail(q)
<1>1. Head(q) \in Pieces /\ Tail(q) \in Seq(Pieces) /\ q = <<Head(q)>> \o Tail(q)
  <2>1. Head(q) \in Pieces /\ Tail(q) \in Seq(Pieces)
    BY HeadTailProperties
  <2>2. Len(q) \in Nat /\ Len(q) \in 1 .. Len(q) /\ 1 \in 1 .. Len(q)
    BY EmptySeq, LenProperties
  <2>3. SubSeq(q, 1, Len(q)) = <<q[1]>> \o SubSeq(q, 1 + 1, Len(q))
    BY <2>2, SubSeqRecursiveFirst
  <2>4. SubSeq(q, 1, Len(q)) = q /\ Tail(q) = SubSeq(q, 2, Len(q)) /\ Head(q) = q[1]
    BY SubSeqFull, TailIsSubSeq
  <2> QED BY <2>1, <2>3, <2>4
<1>2. b \o <<>> = b /\ <<Head(q)>> \in Seq(Pieces)
  BY <1>1, ConcatEmptySeq
<1> QED BY <1>1, <1>2, ConcatAssociative

LEMMA BuildOne ==
    ASSUME NEW b \in Seq(Pieces), NEW x \in Pieces, NEW q \in Seq(Pieces)
    PROVE  /\ Append(b, x) \in Seq(Pieces)
           /\ (b \o <<x>>) \o q = (Append(b, x) \o <<>>) \o q
<1>1. Append(b, x) \in Seq(Pieces) /\ Append(b, x) = b \o <<x>>
  BY AppendProperties, AppendIsConcat
<1> QED BY <1>1, ConcatEmptySeq

LEMMA EmptyStreams == /\ <<>> \in Seq(Pieces)
                      /\ <<>> = (<<>> \o <<>>) \o <<>>
BY EmptySeq, ConcatEmptySeq

(* The values every stream starts with.                                    *)
LEMMA StartTypes ==
    /\ Each(<<>>) \in [Streams -> Seq(Pieces)]
    /\ Each(0) \in [Streams -> Nat] /\ Each(0) \in [Streams -> 0 .. MaxToken]
    /\ Each("reading") \in [Streams -> {"reading", "writing", "building", "done"}]
    /\ Each("end") \in [Streams -> Pieces]
    /\ Each("scanning") \in [Streams -> {"scanning", "finished", "received"}]
<1>1. 0 \in 0 .. MaxToken /\ 0 \in Nat
  BY ConstantsAssumption
<1>2. "end" \in Pieces
  BY DEF Pieces
<1> QED BY <1>1, <1>2, EmptyStreams DEF Each

LEMMA InitIInv == Init => IInv
<1> SUFFICES ASSUME Init PROVE IInv
  OBVIOUS
<1>1. TypeOK
  BY StartTypes DEF Init, TypeOK
<1>2. ASSUME NEW s \in Streams PROVE Conserved(s)
  <2>1. InHand(s) = <<>> /\ printed[s] = <<>> /\ builder[s] = <<>> /\ osPipe[s] = <<>>
    BY DEF Init, InHand, Each
  <2> QED BY <2>1, EmptyStreams, Zenon DEF Conserved
<1> QED BY <1>1, <1>2 DEF Init, IInv, JoinOrder, Each

(* Steps that touch neither the output nor its way to the builder.         *)
LEMMA OutputKept ==
    ASSUME IInv, UNCHANGED <<printed, builder, hand, osPipe>>,
           \A s \in Streams : copier'[s] = copier[s]
                              \/ (copier[s] = "writing" /\ copier'[s] = "building")
                              \/ (copier[s] = "reading" /\ copier'[s] = "done")
    PROVE  \A s \in Streams : Conserved(s)'
BY DEF IInv, TypeOK, Conserved, InHand

LEMMA NextIInv == IInv /\ [Next]_vars => IInv'
<1> SUFFICES ASSUME IInv, [Next]_vars PROVE IInv'
  OBVIOUS
<1>1. CASE UNCHANGED vars
  BY <1>1 DEF vars, IInv, TypeOK, JoinOrder, Conserved, InHand
<1>2. ASSUME NEW s \in Streams, NEW x \in Pieces, Prints(s, x) PROVE IInv'
  <2>1. /\ Append(printed[s], x) \in Seq(Pieces)
        /\ Append(osPipe[s], x) \in Seq(Pieces)
    BY AppendProperties DEF IInv, TypeOK
  <2>2. TypeOK' /\ JoinOrder'
    BY <1>2, <2>1 DEF Prints, IInv, TypeOK, JoinOrder
  <2>3. ASSUME NEW t \in Streams PROVE Conserved(t)'
    <3>1. InHand(t) \in Seq(Pieces) /\ InHand(t)' = InHand(t)
      BY <1>2, EmptyStreams DEF Prints, InHand, IInv, TypeOK
    <3>2. Append((builder[s] \o InHand(s)) \o osPipe[s], x)
            = (builder[s] \o InHand(s)) \o Append(osPipe[s], x)
      <4>1. InHand(s) \in Seq(Pieces)
        BY EmptyStreams DEF InHand, IInv, TypeOK
      <4>2. builder[s] \in Seq(Pieces) /\ osPipe[s] \in Seq(Pieces)
        BY DEF IInv, TypeOK
      <4> QED BY <4>1, <4>2, PrintOne
    <3>3. CASE t = s
      BY <1>2, <3>1, <3>2, <3>3 DEF Prints, IInv, TypeOK, Conserved
    <3>4. CASE t # s
      BY <1>2, <3>1, <3>4 DEF Prints, IInv, TypeOK, Conserved
    <3> QED BY <3>3, <3>4
  <2> QED BY <2>2, <2>3 DEF IInv
<1>3. CASE Exits
  BY <1>3, OutputKept DEF Exits, IInv, TypeOK, JoinOrder
<1>4. ASSUME NEW s \in Streams, CopierReads(s) PROVE IInv'
  <2>1. CASE osPipe[s] # <<>> /\ copier' = [copier EXCEPT ![s] = "writing"]
             /\ hand' = [hand EXCEPT ![s] = Head(osPipe[s])]
             /\ osPipe' = [osPipe EXCEPT ![s] = Tail(@)]
    <3>1. /\ Head(osPipe[s]) \in Pieces /\ Tail(osPipe[s]) \in Seq(Pieces)
          /\ (builder[s] \o <<>>) \o osPipe[s]
               = (builder[s] \o <<Head(osPipe[s])>>) \o Tail(osPipe[s])
      BY <2>1, TakeOne DEF IInv, TypeOK
    <3>2. TypeOK' /\ JoinOrder'
      BY <1>4, <2>1, <3>1 DEF CopierReads, IInv, TypeOK, JoinOrder
    <3>3. ASSUME NEW t \in Streams PROVE Conserved(t)'
      <4>1. CASE t = s
        BY <1>4, <2>1, <3>1, <4>1 DEF CopierReads, IInv, TypeOK, Conserved, InHand
      <4>2. CASE t # s
        BY <1>4, <2>1, <4>2 DEF CopierReads, IInv, TypeOK, Conserved, InHand
      <4> QED BY <4>1, <4>2
    <3> QED BY <3>2, <3>3 DEF IInv
  <2>2. CASE osPipe[s] = <<>> /\ child = "exited"
             /\ copier' = [copier EXCEPT ![s] = "done"] /\ UNCHANGED <<hand, osPipe>>
    <3>1. TypeOK' /\ JoinOrder'
      BY <1>4, <2>2 DEF CopierReads, IInv, TypeOK, JoinOrder
    <3> QED BY <1>4, <2>2, <3>1, OutputKept DEF CopierReads, IInv, TypeOK
  <2> QED BY <1>4, <2>1, <2>2 DEF CopierReads
<1>5. ASSUME NEW s \in Streams, CopierBuilds(s) PROVE IInv'
  <2>1. /\ Append(builder[s], hand[s]) \in Seq(Pieces)
        /\ (builder[s] \o <<hand[s]>>) \o osPipe[s]
             = (Append(builder[s], hand[s]) \o <<>>) \o osPipe[s]
    BY BuildOne DEF IInv, TypeOK
  <2>2. TypeOK' /\ JoinOrder'
    BY <1>5, <2>1 DEF CopierBuilds, IInv, TypeOK, JoinOrder
  <2>3. ASSUME NEW t \in Streams PROVE Conserved(t)'
    <3>1. CASE t = s
      BY <1>5, <2>1, <3>1 DEF CopierBuilds, IInv, TypeOK, Conserved, InHand
    <3>2. CASE t # s
      BY <1>5, <3>2 DEF CopierBuilds, IInv, TypeOK, Conserved, InHand
    <3> QED BY <3>1, <3>2
  <2> QED BY <2>2, <2>3 DEF IInv
<1>6. ASSUME NEW s \in Streams, Scans(s) PROVE IInv'
  <2>1. TypeOK' /\ JoinOrder'
    BY <1>6, ConstantsAssumption DEF Scans, IInv, TypeOK, JoinOrder
  <2> QED BY <1>6, <2>1, OutputKept DEF Scans, IInv, TypeOK
<1>7. ASSUME NEW s \in Streams, ScanFinishes(s) PROVE IInv'
  BY <1>7, OutputKept DEF ScanFinishes, IInv, TypeOK, JoinOrder
<1>8. CASE Waits
  BY <1>8, OutputKept DEF Waits, IInv, TypeOK, JoinOrder, Streams
<1>9. ASSUME NEW s \in Streams, Receives(s) PROVE IInv'
  BY <1>9, OutputKept DEF Receives, IInv, TypeOK, JoinOrder, Streams
<1>10. CASE RunsNext
  <2>1. TypeOK'
    BY <1>10, StartTypes DEF RunsNext, TypeOK
  <2>2. ASSUME NEW s \in Streams PROVE Conserved(s)'
    <3>1. /\ InHand(s)' = <<>> /\ printed'[s] = <<>> /\ builder'[s] = <<>>
          /\ osPipe'[s] = <<>>
      BY <1>10 DEF RunsNext, InHand, Each
    <3> QED BY <3>1, EmptyStreams, Zenon DEF Conserved
  <2> QED BY <1>10, <2>1, <2>2 DEF RunsNext, IInv, JoinOrder, Each
<1> QED BY <1>1, <1>2, <1>3, <1>4, <1>5, <1>6, <1>7, <1>8, <1>9, <1>10
        DEF Next, StreamStep

LEMMA AlwaysIInv == Spec => []IInv
BY InitIInv, NextIInv, PTL DEF Spec
-----------------------------------------------------------------------------
(* Every variable keeps its type.                                          *)
THEOREM TypeCorrect == Spec => []TypeOK
<1>1. IInv => TypeOK
  BY DEF IInv
<1> QED BY <1>1, AlwaysIInv, PTL

(* What execute returns is what the command printed: when the caller has   *)
(* waited for the copiers, hands and pipes are empty.                      *)
THEOREM NothingLost == Spec => []CaptureComplete
<1>1. ASSUME IInv, caller = "returned" PROVE builder = printed
  <2>1. ASSUME NEW s \in Streams PROVE printed[s] = builder[s]
    <3>1. InHand(s) = <<>> /\ osPipe[s] = <<>> /\ builder[s] \in Seq(Pieces)
      BY <1>1 DEF IInv, JoinOrder, InHand, TypeOK
    <3> QED BY <1>1, <3>1, ConcatEmptySeq DEF IInv, Conserved
  <2> QED BY <1>1, <2>1 DEF IInv, TypeOK
<1>2. IInv => CaptureComplete
  BY <1>1 DEF CaptureComplete
<1> QED BY <1>2, AlwaysIInv, PTL

(* A scanner that gave up with output to come blocks the caller for good.  *)
THEOREM HangPermanent == Spec => HangIsPermanent
<1>1. ASSUME IInv, [Next]_vars, NEW s \in Streams, Hung(s)
      PROVE  Hung(s)' /\ caller' = "waiting"
  <2>1. caller = "waiting" /\ copier[s] = "writing" /\ scanner[s] = "finished"
    BY <1>1 DEF IInv, JoinOrder, Hung
  <2> QED
    BY <1>1, <2>1 DEF Next, StreamStep, vars, Prints, Exits, CopierReads, CopierBuilds,
       Scans, ScanFinishes, Waits, Receives, RunsNext, Hung, IInv, TypeOK, Streams
<1>2. IInv /\ [Next]_vars =>
        \A s \in Streams : Hung(s) => Hung(s)' /\ caller' = "waiting"
  BY <1>1
<1> QED BY <1>2, AlwaysIInv, PTL DEF Spec, HangIsPermanent
-----------------------------------------------------------------------------
(* The receives come after the close, each takes its own "done", and in    *)
(* their order.                                                            *)
InTurn ==
    /\ closed = (caller # "waiting")
    /\ \A s \in Streams :
         (scanner[s] = "received") =
             (caller = "returned" \/ (s = "stdout" /\ caller = "stderr"))

LEMMA NextInTurn == ASSUME IInv, InTurn, [Next]_vars PROVE InTurn'
<1> USE DEF IInv, TypeOK, InTurn, Streams
<1>1. CASE UNCHANGED <<closed, caller, scanner>>
  BY <1>1
<1>2. ASSUME NEW s \in Streams, ScanFinishes(s) PROVE InTurn'
  BY <1>2 DEF ScanFinishes
<1>3. CASE Waits
  BY <1>3 DEF Waits
<1>4. ASSUME NEW s \in Streams, Receives(s) PROVE InTurn'
  BY <1>4 DEF Receives
<1>5. CASE RunsNext
  BY <1>5 DEF RunsNext, Each
<1> QED BY <1>1, <1>2, <1>3, <1>4, <1>5 DEF Next, StreamStep, vars, Prints, Exits,
           CopierReads, CopierBuilds, Scans

(* Whatever the command printed: where no goroutine can go on, execute has *)
(* returned, or a scanner gave up on a line too long for it.               *)
THEOREM OnlyHangsStop == Spec => []StopsOnlyHung
<1>1. Init => InTurn
  BY DEF Init, InTurn, Each, Streams
<1>2. IInv /\ InTurn /\ [Next]_vars => InTurn'
  BY NextInTurn
<1>3. ASSUME IInv, InTurn, AtRest, caller # "returned"
      PROVE  \E s \in Streams : Hung(s)
  <2>1. CASE caller = "waiting"
    <3>1. PICK s \in Streams : copier[s] # "done"
      BY <1>3, <2>1 DEF AtRest
    <3>2. copier[s] = "writing"
      BY <1>3, <3>1 DEF AtRest, IInv, TypeOK
    <3>3. scanner[s] # "scanning" /\ scanner[s] # "received"
      BY <1>3, <2>1, <3>2 DEF AtRest, InTurn
    <3> QED BY <1>3, <3>2, <3>3 DEF Hung, IInv, TypeOK
  <2>2. CASE caller # "waiting"
    <3>1. caller \in Streams
      BY <1>3, <2>2 DEF IInv, TypeOK
    <3>2. scanner[caller] \notin {"scanning", "finished", "received"}
      BY <1>3, <2>2, <3>1 DEF AtRest, InTurn, Streams
    <3> QED BY <1>3, <3>1, <3>2 DEF IInv, TypeOK
  <2> QED BY <2>1, <2>2
<1>4. IInv /\ InTurn => StopsOnlyHung
  BY <1>3 DEF StopsOnlyHung
<1> QED BY <1>1, <1>2, <1>4, AlwaysIInv, PTL DEF Spec
=============================================================================
