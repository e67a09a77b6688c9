-------------------------- MODULE NewProjectProofs --------------------------
(***************************************************************************)
(* NewProject for every number of operators, every set of paths, command   *)
(* lines, template files and packages.                                     *)
(***************************************************************************)
EXTENDS NewProject, TLAPS

Working(p) == pc[p] \notin {"idle", "make"}

(* The template's files that p has dealt with, the one being written left  *)
(* out.                                                                    *)
Copied(p) == CASE pc[p] = "copy" -> Files \ todo[p]
               [] pc[p] = "copying" -> (Files \ todo[p]) \ {cur[p]}
               [] OTHER -> Files

(* A command has a directory, and is one of its users once it has made it. *)
Placed(p) ==
    pc[p] # "idle" =>
        /\ cmd[p] \in Commands /\ dest[p] \in Paths
        /\ p \in users[dest[p]] <=> Working(p)
        /\ pc[p] = "copying" => cur[p] \in Files \ todo[p]

(* What it has dealt with is there, whoever else works there.              *)
Provided(p) ==
    Working(p) =>
        /\ \A f \in Copied(p) : tmpl[dest[p]][f].state # "absent"
        /\ pc[p] = "copying" => tmpl[dest[p]][cur[p]].state # "absent"
        /\ pc[p] \in {"get", "save", "saving"} => mod[dest[p]] # "absent"

Lone(d) == \A p, q \in users[d] : p = q

(* Where it is alone, all of that is its own.                              *)
Owned(p) ==
    Working(p) /\ Lone(dest[p]) =>
        /\ smt[dest[p]].state # "ok"
        /\ \A f \in Copied(p) : tmpl[dest[p]][f] = Holding(cmd[p])
        /\ pc[p] = "copying" => tmpl[dest[p]][cur[p]].state = "empty"
        /\ pc[p] \in {"save", "saving"} => mod[dest[p]] = "tidy"
        /\ pc[p] = "saving" => smt[dest[p]].state = "empty"

(* A place nobody has worked in holds nothing of the tool's, and one that  *)
(* is free has had nobody.                                                 *)
Untouched(d) ==
    /\ node[d] = "none" => users[d] = {}
    /\ users[d] = {} => smt[d].state = "absent"

Ordered(d) ==
    smt[d].state # "absent" => /\ mod[d] # "absent"
                               /\ \A f \in Files : tmpl[d][f].state # "absent"

Kept(d) == Lone(d) /\ smt[d].state = "ok" => Whole(d, smt[d].data)

Sound(d) == Untouched(d) /\ Ordered(d) /\ Kept(d)

Fits(p) == Placed(p) /\ Provided(p) /\ Owned(p)

IInv == /\ TypeOK
        /\ \A p \in Procs : Fits(p)
        /\ \A d \in Paths : Sound(d)

(* What a file may become.                                                 *)
LEMMA FileOutcomes ==
    ASSUME NEW f \in Contents, NEW c \in Commands
    PROVE  /\ Truncated(f) \in Contents /\ Truncated(f).state = "empty"
           /\ \A g \in Overwrites(f, c) :
                /\ g \in Contents /\ g.state \in {"ok", "garbled"}
                /\ f.state = "empty" => g = Holding(c)
BY DEF Contents, File, FileStates, Truncated, Overwrites, Garbled, Holding

LEMMA FailedOutcomes ==
    ASSUME NEW f \in Contents
    PROVE  \A g \in FailedWrites(f) :
              g \in Contents /\ (g = f \/ g.state = "garbled")
BY DEF Contents, File, FileStates, FailedWrites, Garbled

LEMMA HoldingOK ==
    ASSUME NEW c PROVE Holding(c).state = "ok" /\ Holding(c).data = c
BY DEF Holding

(* p's step leaves the other operators and the other directories alone.    *)
Frame(p) ==
    /\ \A q \in Procs : q # p => /\ pc'[q] = pc[q] /\ cmd'[q] = cmd[q]
                                 /\ dest'[q] = dest[q] /\ todo'[q] = todo[q]
                                 /\ cur'[q] = cur[q]
    /\ \A d \in Paths : d # dest[p] =>
          /\ node'[d] = node[d] /\ tmpl'[d] = tmpl[d] /\ mod'[d] = mod[d]
          /\ smt'[d] = smt[d] /\ users'[d] = users[d]

(* In its own directory nothing disappears, and it is among the users.     *)
Grows(p) ==
    LET d == dest[p] IN
    /\ users'[d] = users[d] \/ (pc[p] = "make" /\ users'[d] = users[d] \cup {p})
    /\ mod[d] # "absent" => mod'[d] # "absent"
    /\ \A f \in Files : tmpl[d][f].state # "absent" => tmpl'[d][f].state # "absent"

(* The others fit where they are: elsewhere nothing has changed, and where *)
(* p is they are not alone.                                                *)
LEMMA OthersFit ==
    ASSUME IInv, NEW p \in Procs, Frame(p), Grows(p), dest[p] \in Paths,
           users'[dest[p]] = users[dest[p]] => p \in users[dest[p]] \/ pc[p] = "make",
           pc[p] = "make" => UNCHANGED <<tmpl, mod, smt>>,
           NEW q \in Procs, q # p
    PROVE  Fits(q)'
<1>1. Fits(q) /\ TypeOK
  BY DEF IInv
<1>2. /\ pc'[q] = pc[q] /\ cmd'[q] = cmd[q] /\ dest'[q] = dest[q]
      /\ todo'[q] = todo[q] /\ cur'[q] = cur[q]
      /\ Working(q)' = Working(q) /\ Copied(q)' = Copied(q)
  BY DEF Frame, Working, Copied
<1>3. pc[q] # "idle" => (q \in users'[dest[q]] <=> q \in users[dest[q]])
  BY <1>1 DEF Frame, Grows, Fits, Placed
<1>4. CASE pc[q] = "idle"
  BY <1>2, <1>4 DEF Fits, Placed, Provided, Owned, Working
<1>5. CASE pc[q] # "idle" /\ dest[q] # dest[p]
  <2>1. dest[q] \in Paths
    BY <1>1, <1>5 DEF Fits, Placed
  <2>2. /\ tmpl'[dest[q]] = tmpl[dest[q]] /\ mod'[dest[q]] = mod[dest[q]]
        /\ smt'[dest[q]] = smt[dest[q]] /\ users'[dest[q]] = users[dest[q]]
    BY <1>5, <2>1 DEF Frame
  <2> QED
    BY <1>1, <1>2, <2>2 DEF Fits, Placed, Provided, Owned, Lone
<1>6. CASE pc[q] # "idle" /\ dest[q] = dest[p]
  <2>1. Placed(q)'
    BY <1>1, <1>2, <1>3, <1>6 DEF Fits, Placed
  <2>2. Provided(q)'
    <3>1. Copied(q) \subseteq Files /\ (pc[q] = "copying" => cur[q] \in Files)
      BY <1>1, <1>6 DEF Copied, Fits, Placed
    <3> QED BY <1>1, <1>2, <1>6, <3>1 DEF Fits, Provided, Grows
  <2>3. Owned(q)'
    <3>1. CASE ~Working(q)
      BY <1>2, <3>1 DEF Owned
    <3>2. CASE Working(q) /\ pc[p] = "make" /\ users'[dest[p]] = users[dest[p]]
      BY <1>1, <1>2, <1>6, <3>2 DEF Fits, Owned, Lone
    <3>3. CASE Working(q) /\ (pc[p] # "make" \/ users'[dest[p]] # users[dest[p]])
      <4>1. p \in users'[dest[p]] /\ q \in users'[dest[p]]
        <5>1. p \in users'[dest[p]]
          BY <3>3 DEF Grows
        <5>2. q \in users[dest[q]]
          BY <1>1, <1>6, <3>3 DEF Fits, Placed
        <5> QED BY <1>3, <1>6, <5>1, <5>2
      <4>2. ~Lone(dest[q])'
        BY <1>2, <1>6, <4>1 DEF Lone
      <4> QED BY <1>2, <4>2 DEF Owned
    <3> QED BY <3>1, <3>2, <3>3
  <2> QED BY <2>1, <2>2, <2>3 DEF Fits
<1> QED BY <1>4, <1>5, <1>6

LEMMA OtherPlacesSound ==
    ASSUME IInv, NEW p \in Procs, Frame(p), NEW d \in Paths, d # dest[p]
    PROVE  Sound(d)'
BY DEF IInv, Frame, Sound, Untouched, Ordered, Kept, Whole, Lone

(* So a step is sound if p fits and its directory is sound afterwards.     *)
LEMMA StepKeeps ==
    ASSUME IInv, NEW p \in Procs, TypeOK', Frame(p), Grows(p), NEW d \in Paths, d = dest[p],
           pc[p] # "idle", pc[p] = "make" => UNCHANGED <<tmpl, mod, smt>>,
           Fits(p)', Sound(d)'
    PROVE  IInv'
<1>1. users'[dest[p]] = users[dest[p]] => p \in users[dest[p]] \/ pc[p] = "make"
  BY DEF IInv, Fits, Placed, Working
<1>2. ASSUME NEW q \in Procs PROVE Fits(q)'
  BY <1>1, OthersFit
<1>3. ASSUME NEW e \in Paths PROVE Sound(e)'
  BY OtherPlacesSound
<1> QED BY <1>2, <1>3 DEF IInv

LEMMA Stutters == IInv /\ UNCHANGED vars => IInv'
BY DEF IInv, vars, TypeOK, Fits, Placed, Provided, Owned, Working, Copied, Lone,
       Sound, Untouched, Ordered, Kept, Whole

LEMMA InitIInv == Init => IInv
<1> SUFFICES ASSUME Init PROVE IInv
  OBVIOUS
<1>1. Absent(None) \in Contents /\ Absent(None).state = "absent"
  BY DEF Absent, Contents, File, FileStates
<1>2. TypeOK
  BY <1>1 DEF Init, TypeOK, PCs
<1>3. ASSUME NEW p \in Procs PROVE Fits(p)
  BY DEF Init, Fits, Placed, Provided, Owned, Working
<1>4. ASSUME NEW d \in Paths PROVE Sound(d)
  BY <1>1 DEF Init, Sound, Untouched, Ordered, Kept
<1> QED BY <1>2, <1>3, <1>4 DEF IInv

LEMMA BeginKeeps ==
    ASSUME IInv, NEW p \in Procs, NEW c \in Commands, Begin(p, c)
    PROVE  IInv'
<1>1. PICK d \in Paths : Resolved(c, d) /\ dest' = [dest EXCEPT ![p] = d]
  BY DEF Begin
<1>2. node[d] = "none" /\ users[d] = {}
  BY <1>1 DEF Resolved, IInv, Sound, Untouched
<1>3. TypeOK'
  BY <1>1 DEF Begin, Goto, tree, IInv, TypeOK, PCs
<1>4. ASSUME NEW q \in Procs, q # p PROVE Fits(q)'
  <2>1. /\ Fits(q)
        /\ pc'[q] = pc[q] /\ cmd'[q] = cmd[q] /\ dest'[q] = dest[q]
        /\ UNCHANGED <<tree, todo, cur, users>>
    BY <1>1, <1>4 DEF Begin, Goto, IInv, TypeOK
  <2> QED
    BY <2>1 DEF tree, Fits, Placed, Provided, Owned, Working, Copied, Lone
<1>5. Fits(p)'
  <2>1. pc'[p] = "make" /\ cmd'[p] = c /\ dest'[p] = d /\ users' = users
    BY <1>1 DEF Begin, Goto, IInv, TypeOK
  <2> QED BY <1>2, <2>1 DEF Fits, Placed, Provided, Owned, Working
<1>6. ASSUME NEW e \in Paths PROVE Sound(e)'
  BY DEF Begin, tree, IInv, Sound, Untouched, Ordered, Kept, Whole, Lone
<1> QED BY <1>3, <1>4, <1>5, <1>6 DEF IInv

(* The end of a command, with whatever it last did to a file.              *)
LEMMA EndFits ==
    ASSUME TypeOK, NEW p \in Procs, End(p) PROVE Fits(p)'
BY DEF TypeOK, End, Goto, Fits, Placed, Provided, Owned, Working

LEMMA MakeDirKeeps ==
    ASSUME IInv, NEW p \in Procs, MakeDir(p)
    PROVE  IInv'
<1>0. PICK d \in Paths : d = dest[p]
  BY DEF MakeDir, IInv, Fits, Placed
<1> USE <1>0
<1>1. /\ Fits(p) /\ TypeOK /\ d \in Paths /\ Sound(d) /\ cmd[p] \in Commands
      /\ p \notin users[d]
  BY DEF MakeDir, IInv, Fits, Placed, Working
<1>2. /\ pc[p] = "make" /\ pc'[p] = "copy" /\ todo'[p] = Files
      /\ cmd'[p] = cmd[p] /\ dest'[p] = d /\ cur'[p] = cur[p]
      /\ node'[d] = "dir" /\ users'[d] = users[d] \cup {p}
      /\ UNCHANGED <<tmpl, mod, smt>>
  BY <1>1 DEF MakeDir, Goto, TypeOK
<1>3. TypeOK'
  BY <1>1 DEF MakeDir, Goto, TypeOK, PCs
<1>4. Frame(p) /\ Grows(p)
  BY <1>1, <1>2 DEF MakeDir, Goto, TypeOK, Frame, Grows
<1>5. Fits(p)'
  <2>1. Copied(p)' = {}
    BY <1>2 DEF Copied
  <2>2. Lone(d)' => users[d] = {}
    BY <1>1, <1>2 DEF Lone, TypeOK
  <2>3. Lone(d)' => smt[d].state # "ok"
    BY <1>1, <2>2 DEF Sound, Untouched
  <2> QED BY <1>1, <1>2, <2>1, <2>3 DEF Fits, Placed, Provided, Owned, Working, Lone
<1>6. Sound(d)'
  <2>1. Lone(d)' => smt[d].state # "ok"
    BY <1>1, <1>2 DEF Lone, TypeOK, Sound, Untouched
  <2> QED BY <1>1, <1>2, <2>1 DEF Sound, Untouched, Ordered, Kept, Whole, Lone
<1> QED BY <1>1, <1>2, <1>3, <1>4, <1>5, <1>6, StepKeeps

LEMMA OpenFileKeeps ==
    ASSUME IInv, NEW p \in Procs, NEW f \in Files, OpenFile(p, f)
    PROVE  IInv'
<1>0. PICK d \in Paths : d = dest[p]
  BY DEF OpenFile, IInv, Fits, Placed
<1> USE <1>0
<1>1. /\ Fits(p) /\ TypeOK /\ d \in Paths /\ Sound(d) /\ cmd[p] \in Commands
      /\ p \in users[d]
  BY DEF OpenFile, IInv, Fits, Placed, Working
<1>2. /\ pc[p] = "copy" /\ pc'[p] = "copying" /\ todo'[p] = todo[p] \ {f}
      /\ cmd'[p] = cmd[p] /\ dest'[p] = d /\ cur'[p] = f
      /\ tmpl'[d] = [tmpl[d] EXCEPT ![f] = Truncated(@)]
      /\ UNCHANGED <<node, mod, smt, users>>
  BY <1>1 DEF OpenFile, Goto, TypeOK
<1>3. /\ tmpl[d] \in [Files -> Contents]
      /\ tmpl'[d] \in [Files -> Contents]
      /\ tmpl'[d][f].state = "empty"
      /\ \A g \in Files : g # f => tmpl'[d][g] = tmpl[d][g]
  BY <1>1, <1>2, FileOutcomes DEF TypeOK
<1>4. TypeOK'
  BY <1>1, <1>3 DEF OpenFile, Goto, TypeOK, PCs
<1>5. Frame(p) /\ Grows(p)
  BY <1>1, <1>2, <1>3 DEF OpenFile, Goto, TypeOK, Frame, Grows
<1>6. Fits(p)'
  <2>1. f \notin Copied(p)' /\ Copied(p)' \subseteq Copied(p) /\ Copied(p) \subseteq Files
    BY <1>2 DEF Copied
  <2>2. Lone(d)' = Lone(d)
    BY <1>2 DEF Lone
  <2>3. \A g \in Copied(p)' : tmpl'[d][g] = tmpl[d][g]
    BY <1>3, <2>1
  <2>4. Placed(p)' /\ Provided(p)'
    BY <1>1, <1>2, <1>3, <2>1, <2>3 DEF Fits, Placed, Provided, Working
  <2>5. Owned(p)'
    BY <1>1, <1>2, <1>3, <2>1, <2>2, <2>3 DEF Fits, Owned, Working, Lone
  <2> QED BY <2>4, <2>5 DEF Fits
<1>7. Sound(d)'
  <2>1. Lone(d)' => smt'[d].state # "ok"
    BY <1>1, <1>2 DEF Fits, Owned, Working, Lone
  <2> QED BY <1>1, <1>2, <1>3, <2>1 DEF Sound, Untouched, Ordered, Kept, Lone
<1> QED BY <1>1, <1>2, <1>4, <1>5, <1>6, <1>7, StepKeeps

LEMMA WriteFileKeeps ==
    ASSUME IInv, NEW p \in Procs, WriteFile(p)
    PROVE  IInv'
<1>0. PICK d \in Paths : d = dest[p]
  BY DEF WriteFile, IInv, Fits, Placed
<1> USE <1>0
<1> DEFINE f == cur[p]
<1>1. /\ Fits(p) /\ TypeOK /\ d \in Paths /\ Sound(d) /\ cmd[p] \in Commands
      /\ p \in users[d] /\ f \in Files \ todo[p]
  BY DEF WriteFile, IInv, Fits, Placed, Working
<1>2. PICK w \in Overwrites(tmpl[d][f], cmd[p]) : tmpl' = [tmpl EXCEPT ![d][f] = w]
  BY DEF WriteFile
<1>3. /\ pc[p] = "copying" /\ pc'[p] = "copy" /\ todo'[p] = todo[p]
      /\ cmd'[p] = cmd[p] /\ dest'[p] = d
      /\ UNCHANGED <<node, mod, smt, users>>
  BY <1>1 DEF WriteFile, Goto, TypeOK
<1>4. tmpl[d] \in [Files -> Contents] /\ tmpl[d][f] \in Contents
  BY <1>1 DEF TypeOK
<1>5. /\ w \in Contents /\ w.state # "absent"
      /\ tmpl[d][f].state = "empty" => w = Holding(cmd[p])
  <2> DEFINE t == tmpl[d][f]
             c == cmd[p]
  <2>1. t \in Contents /\ c \in Commands /\ w \in Overwrites(t, c)
    BY <1>1, <1>2, <1>4
  <2> HIDE DEF t, c
  <2>2. w \in Contents /\ w.state # "absent" /\ (t.state = "empty" => w = Holding(c))
    BY <2>1, FileOutcomes
  <2> QED BY <2>2 DEF t, c
<1>6. /\ tmpl'[d] \in [Files -> Contents]
      /\ tmpl'[d][f] = w
      /\ \A g \in Files : g # f => tmpl'[d][g] = tmpl[d][g]
  BY <1>1, <1>2, <1>4, <1>5 DEF TypeOK
<1>7. TypeOK'
  BY <1>1, <1>2, <1>4, <1>5 DEF WriteFile, Goto, TypeOK, PCs
<1>8. Frame(p) /\ Grows(p)
  BY <1>1, <1>2, <1>3, <1>5, <1>6 DEF WriteFile, Goto, TypeOK, Frame, Grows
<1>9. Fits(p)'
  <2>1. /\ Copied(p) = (Files \ todo[p]) \ {f} /\ Copied(p)' = Files \ todo[p]
        /\ Lone(d)' = Lone(d)
    BY <1>3 DEF Copied, Lone
  <2>2. \A g \in Copied(p)' : g = f \/ (g \in Copied(p) /\ tmpl'[d][g] = tmpl[d][g])
    BY <1>6, <2>1
  <2>3. Placed(p)' /\ Provided(p)'
    BY <1>1, <1>3, <1>5, <1>6, <2>2 DEF Fits, Placed, Provided, Working
  <2>4. Owned(p)'
    BY <1>1, <1>3, <1>5, <1>6, <2>1, <2>2 DEF Fits, Owned, Working, Lone
  <2> QED BY <2>3, <2>4 DEF Fits
<1>10. Sound(d)'
  <2>1. Lone(d)' => smt'[d].state # "ok"
    BY <1>1, <1>3 DEF Fits, Owned, Working, Lone
  <2> QED BY <1>1, <1>3, <1>5, <1>6, <2>1 DEF Sound, Untouched, Ordered, Kept, Lone
<1> QED BY <1>1, <1>3, <1>7, <1>8, <1>9, <1>10, StepKeeps

(* The commands of go, which touch go.mod alone.                           *)
LEMMA GoKeeps ==
    ASSUME IInv, NEW p \in Procs,
           \/ ModTest(p) \/ ModWrite(p) \/ Tidy(p)
           \/ \E k \in Packages : GetPackage(p, k)
    PROVE  IInv'
<1>0. PICK d \in Paths : d = dest[p]
  BY DEF ModTest, CopyEnded, ModWrite, Tidy, GetPackage, IInv, Fits, Placed
<1> USE <1>0
<1>1. /\ Fits(p) /\ TypeOK /\ d \in Paths /\ Sound(d) /\ cmd[p] \in Commands
      /\ p \in users[d]
  BY DEF ModTest, CopyEnded, ModWrite, Tidy, GetPackage, IInv, Fits, Placed, Working
<1>2. /\ Working(p) /\ Working(p)' /\ pc'[p] \in {"init", "get", "save"}
      /\ cmd'[p] = cmd[p] /\ dest'[p] = d
      /\ UNCHANGED <<node, tmpl, smt, users>>
      /\ pc[p] \notin {"copying", "saving"} /\ Copied(p) = Files
      /\ mod'[d] = mod[d] \/ mod'[d] # "absent"
      /\ pc'[p] \in {"get", "save"} => mod'[d] # "absent"
      /\ pc'[p] = "save" => mod'[d] = "tidy"
  <2>1. CASE ModTest(p)
    BY <1>1, <2>1 DEF ModTest, CopyEnded, Goto, tree, TypeOK, Working, Copied
  <2>2. CASE ModWrite(p)
    BY <1>1, <2>2 DEF ModWrite, Goto, TypeOK, Working, Copied
  <2>3. CASE Tidy(p)
    BY <1>1, <2>3 DEF Tidy, Goto, TypeOK, Working, Copied
  <2>4. ASSUME NEW k \in Packages, GetPackage(p, k)
        PROVE  /\ pc[p] = "get" /\ pc' = pc /\ mod' = mod /\ cmd' = cmd /\ dest' = dest
               /\ UNCHANGED <<node, tmpl, smt, users>>
    BY <2>4 DEF GetPackage, tree
  <2>5. CASE \E k \in Packages : GetPackage(p, k)
    BY <1>1, <2>4, <2>5 DEF Fits, Provided, Working, Copied
  <2> QED BY <2>1, <2>2, <2>3, <2>5
<1>3. TypeOK'
  <2>1. CASE ModTest(p)
    BY <1>1, <2>1 DEF ModTest, Goto, tree, TypeOK, PCs
  <2>2. CASE ModWrite(p)
    BY <1>1, <2>2 DEF ModWrite, Goto, TypeOK, PCs
  <2>3. CASE Tidy(p)
    BY <1>1, <2>3 DEF Tidy, Goto, TypeOK, PCs
  <2>4. CASE \E k \in Packages : GetPackage(p, k)
    BY <1>1, <2>4 DEF GetPackage, tree, TypeOK
  <2> QED BY <2>1, <2>2, <2>3, <2>4
<1>4. Frame(p) /\ Grows(p)
  <2>1. ASSUME NEW e \in Paths, e # d PROVE mod'[e] = mod[e]
    BY <1>1, <2>1 DEF ModTest, ModWrite, Tidy, GetPackage, tree, TypeOK
  <2>2. ASSUME NEW q \in Procs, q # p
        PROVE  /\ pc'[q] = pc[q] /\ cmd'[q] = cmd[q] /\ dest'[q] = dest[q]
               /\ todo'[q] = todo[q] /\ cur'[q] = cur[q]
    BY <1>1, <2>2 DEF ModTest, ModWrite, Tidy, GetPackage, Goto, TypeOK
  <2> QED BY <1>2, <2>1, <2>2 DEF Frame, Grows
<1>5. Fits(p)'
  <2>1. Copied(p)' = Files /\ Lone(d)' = Lone(d)
    BY <1>2 DEF Copied, Lone
  <2>2. Placed(p)' /\ Provided(p)'
    BY <1>1, <1>2, <2>1 DEF Fits, Placed, Provided, Working
  <2>3. Owned(p)'
    BY <1>1, <1>2, <2>1 DEF Fits, Owned, Working, Lone
  <2> QED BY <2>2, <2>3 DEF Fits
<1>6. Sound(d)'
  <2>1. Lone(d)' => smt'[d].state # "ok"
    BY <1>1, <1>2 DEF Fits, Owned, Lone
  <2> QED BY <1>1, <1>2, <2>1 DEF Sound, Untouched, Ordered, Kept, Lone
<1>7. pc[p] # "make" /\ pc[p] # "idle"
  BY <1>2 DEF Working
<1> QED BY <1>1, <1>3, <1>4, <1>5, <1>6, <1>7, StepKeeps

LEMMA OpenConfigKeeps ==
    ASSUME IInv, NEW p \in Procs, OpenConfig(p)
    PROVE  IInv'
<1>0. PICK d \in Paths : d = dest[p]
  BY DEF OpenConfig, IInv, Fits, Placed
<1> USE <1>0
<1>1. /\ Fits(p) /\ TypeOK /\ d \in Paths /\ Sound(d) /\ cmd[p] \in Commands
      /\ p \in users[d]
  BY DEF OpenConfig, IInv, Fits, Placed, Working
<1>2. /\ pc[p] = "save" /\ pc'[p] = "saving" /\ Working(p)
      /\ cmd'[p] = cmd[p] /\ dest'[p] = d
      /\ smt'[d].state = "empty" /\ smt'[d] \in Contents
      /\ UNCHANGED <<node, tmpl, mod, users>>
  BY <1>1, FileOutcomes DEF OpenConfig, Goto, TypeOK, Working
<1>3. TypeOK'
  BY <1>1, <1>2 DEF OpenConfig, Goto, TypeOK, PCs
<1>4. Frame(p) /\ Grows(p)
  BY <1>1, <1>2 DEF OpenConfig, Goto, TypeOK, Frame, Grows
<1>5. Copied(p) = Files /\ Copied(p)' = Files /\ Lone(d)' = Lone(d)
  BY <1>2 DEF Copied, Lone
<1>6. Fits(p)'
  <2>1. Placed(p)' /\ Provided(p)'
    BY <1>1, <1>2, <1>5 DEF Fits, Placed, Provided, Working
  <2>2. Owned(p)'
    BY <1>1, <1>2, <1>5 DEF Fits, Owned, Working, Lone
  <2> QED BY <2>1, <2>2 DEF Fits
<1>7. Sound(d)'
  BY <1>1, <1>2, <1>5 DEF Sound, Untouched, Ordered, Kept, Lone, Fits, Provided
<1> QED BY <1>1, <1>2, <1>3, <1>4, <1>6, <1>7, StepKeeps

LEMMA WriteConfigKeeps ==
    ASSUME IInv, NEW p \in Procs, WriteConfig(p)
    PROVE  IInv'
<1>0. PICK d \in Paths : d = dest[p]
  BY DEF WriteConfig, IInv, Fits, Placed
<1> USE <1>0
<1>1. /\ Fits(p) /\ TypeOK /\ d \in Paths /\ Sound(d) /\ cmd[p] \in Commands
      /\ p \in users[d] /\ pc[p] = "saving" /\ Working(p) /\ Copied(p) = Files
      /\ smt[d] \in Contents
  BY DEF WriteConfig, IInv, Fits, Placed, Working, Copied, TypeOK
<1>2. PICK w \in Overwrites(smt[d], cmd[p]) : smt' = [smt EXCEPT ![d] = w]
  BY DEF WriteConfig
<1>3. UNCHANGED <<node, tmpl, mod, users>> /\ End(p)
  BY DEF WriteConfig
<1>4. w \in Contents /\ (smt[d].state = "empty" => w = Holding(cmd[p]))
  BY <1>1, FileOutcomes
<1>5. smt'[d] = w
  BY <1>1, <1>2 DEF TypeOK
<1>6. TypeOK'
  BY <1>1, <1>2, <1>3, <1>4 DEF End, Goto, TypeOK, PCs
<1>7. Frame(p) /\ Grows(p)
  BY <1>1, <1>2, <1>3 DEF End, Goto, TypeOK, Frame, Grows
<1>8. Sound(d)'
  <2>1. Lone(d) => /\ w = Holding(cmd[p]) /\ mod[d] = "tidy"
                   /\ \A f \in Files : tmpl[d][f] = Holding(cmd[p])
    BY <1>1, <1>4 DEF Fits, Owned
  <2>2. Lone(d) => w.data = cmd[p]
    BY <2>1, HoldingOK
  <2>3. mod[d] # "absent" /\ \A f \in Files : tmpl[d][f].state # "absent"
    BY <1>1 DEF Fits, Provided
  <2>4. Untouched(d)' /\ Ordered(d)'
    BY <1>1, <1>3, <2>3 DEF Sound, Untouched, Ordered
  <2>5. Kept(d)'
    <3> SUFFICES ASSUME Lone(d) PROVE Whole(d, smt[d].data)'
      BY <1>3 DEF Kept, Lone
    <3> QED BY <1>3, <1>5, <2>1, <2>2 DEF Whole
  <2> QED BY <2>4, <2>5 DEF Sound
<1>9. Fits(p)'
  BY <1>1, <1>3, EndFits
<1> QED BY <1>1, <1>6, <1>7, <1>8, <1>9, StepKeeps

(* The last write, if any, may have come to nothing or to garbage.         *)
LEMMA StopKeeps ==
    ASSUME IInv, NEW p \in Procs, Stop(p)
    PROVE  IInv'
<1>0. CASE dest[p] \notin Paths
  BY <1>0 DEF Stop, IInv, Fits, Placed
<1>1. CASE dest[p] \in Paths
  <2>0. PICK d \in Paths : d = dest[p]
    BY <1>1
  <2> USE <2>0
  <2>1. /\ Fits(p) /\ TypeOK /\ Sound(d) /\ pc[p] # "idle"
        /\ pc[p] = "copying" => cur[p] \in Files
        /\ UNCHANGED <<node, mod, users>> /\ End(p)
    BY DEF Stop, IInv, Fits, Placed
  <2>2. CASE UNCHANGED <<tmpl, smt>>
    <3>1. TypeOK'
      BY <2>1, <2>2 DEF End, Goto, TypeOK, PCs
    <3>2. Frame(p) /\ Grows(p)
      BY <2>1, <2>2 DEF End, Goto, TypeOK, Frame, Grows
    <3>3. Fits(p)'
      BY <2>1, EndFits
    <3>4. Sound(d)'
      BY <2>1, <2>2 DEF Sound, Untouched, Ordered, Kept, Whole, Lone
    <3> QED BY <2>1, <2>2, <3>1, <3>2, <3>3, <3>4, StepKeeps
  <2>3. ASSUME pc[p] = "copying", UNCHANGED smt,
               NEW w \in FailedWrites(tmpl[d][cur[p]]),
               tmpl' = [tmpl EXCEPT ![d][cur[p]] = w]
        PROVE  IInv'
    <3> DEFINE f == cur[p]
    <3>1. tmpl[d] \in [Files -> Contents] /\ tmpl[d][f] \in Contents /\ f \in Files
      BY <2>1, <2>3 DEF TypeOK
    <3>2. tmpl[d][f].state # "absent"
      BY <2>1, <2>3 DEF Fits, Provided, Working
    <3>3. w \in Contents /\ w.state # "absent"
      <4> DEFINE t == tmpl[d][f]
      <4>1. t \in Contents /\ w \in FailedWrites(t) /\ t.state # "absent"
        BY <2>3, <3>1, <3>2
      <4> HIDE DEF t
      <4> QED BY <4>1, FailedOutcomes
    <3>4. /\ tmpl'[d] \in [Files -> Contents] /\ tmpl'[d][f] = w
          /\ \A g \in Files : g # f => tmpl'[d][g] = tmpl[d][g]
      BY <2>1, <2>3, <3>1, <3>3 DEF TypeOK
    <3>5. TypeOK'
      BY <2>1, <2>3, <3>1, <3>3 DEF End, Goto, TypeOK, PCs
    <3>6. Frame(p) /\ Grows(p)
      BY <2>1, <2>3, <3>3, <3>4 DEF End, Goto, TypeOK, Frame, Grows
    <3>7. Fits(p)'
      BY <2>1, EndFits
    <3>8. Sound(d)'
      <4>1. Lone(d) => smt[d].state # "ok"
        BY <2>1, <2>3 DEF Fits, Owned, Working
      <4> QED BY <2>1, <2>3, <3>3, <3>4, <4>1 DEF Sound, Untouched, Ordered, Kept, Lone
    <3> QED BY <2>1, <2>3, <3>5, <3>6, <3>7, <3>8, StepKeeps
  <2>4. ASSUME pc[p] = "saving", UNCHANGED tmpl,
               NEW w \in FailedWrites(smt[d]), smt' = [smt EXCEPT ![d] = w]
        PROVE  IInv'
    <3>1. smt[d] \in Contents /\ smt'[d] = w
      BY <2>1, <2>4 DEF TypeOK
    <3>2. w \in Contents /\ (w = smt[d] \/ w.state = "garbled")
      BY <2>4, <3>1, FailedOutcomes
    <3>3. TypeOK'
      BY <2>1, <2>4, <3>2 DEF End, Goto, TypeOK, PCs
    <3>4. Frame(p) /\ Grows(p)
      BY <2>1, <2>4 DEF End, Goto, TypeOK, Frame, Grows
    <3>5. Fits(p)'
      BY <2>1, EndFits
    <3>6. Sound(d)'
      <4>1. p \in users[d] /\ (Lone(d) => smt[d].state # "ok")
        BY <2>1, <2>4 DEF Fits, Placed, Owned, Working
      <4>2. mod[d] # "absent" /\ \A f \in Files : tmpl[d][f].state # "absent"
        BY <2>1, <2>4 DEF Fits, Provided, Working, Copied
      <4> QED BY <2>1, <2>4, <3>1, <3>2, <4>1, <4>2
              DEF Sound, Untouched, Ordered, Kept, Lone
    <3> QED BY <2>1, <2>4, <3>3, <3>4, <3>5, <3>6, StepKeeps
  <2> QED BY <2>2, <2>3, <2>4 DEF Stop
<1> QED BY <1>0, <1>1

LEMMA NextIInv == IInv /\ [Next]_vars => IInv'
<1>1. ASSUME IInv, Next PROVE IInv'
  <2>1. PICK p \in Procs : \/ \E c \in Commands : Begin(p, c) \/ Refuse(p, c)
                           \/ Step(p) \/ Stop(p)
    BY <1>1 DEF Next
  <2>2. ASSUME NEW c \in Commands, Begin(p, c) PROVE IInv'
    BY <1>1, <2>2, BeginKeeps
  <2>3. ASSUME NEW c \in Commands, Refuse(p, c) PROVE IInv'
    BY <1>1, <2>3, Stutters DEF Refuse
  <2>4. CASE Step(p)
    <3>1. ASSUME NEW f \in Files, OpenFile(p, f) PROVE IInv'
      BY <1>1, <3>1, OpenFileKeeps
    <3> QED BY <1>1, <2>4, <3>1, MakeDirKeeps, WriteFileKeeps, GoKeeps, OpenConfigKeeps,
               WriteConfigKeeps DEF Step
  <2>5. CASE Stop(p)
    BY <1>1, <2>5, StopKeeps
  <2> QED BY <2>1, <2>2, <2>3, <2>4, <2>5
<1> QED BY <1>1, Stutters

THEOREM AlwaysIInv == Spec => []IInv
BY InitIInv, NextIInv, PTL DEF Spec

(* Every variable keeps its type (TypeOK).                                 *)
THEOREM TypeCorrect == Spec => []TypeOK
<1>1. IInv => TypeOK
  BY DEF IInv
<1> QED BY <1>1, AlwaysIInv, PTL

(* However many commands met in a directory and wherever each of them      *)
(* stopped, its smt.json is never there before the rest (new.go 165-247).  *)
THEOREM ConfigLast == Spec => []ConfigComesLast
<1>1. IInv => ConfigComesLast
  BY DEF IInv, Sound, Ordered, ConfigComesLast
<1> QED BY <1>1, AlwaysIInv, PTL

(* A directory that one command alone worked in holds all of its project   *)
(* as soon as its smt.json can be read (new.go 165-247).                   *)
THEOREM LoneWhole == Spec => []LoneProjectsAreWhole
<1>1. IInv => LoneProjectsAreWhole
  BY DEF IInv, Sound, Kept, Lone, LoneProjectsAreWhole
<1> QED BY <1>1, AlwaysIInv, PTL
-----------------------------------------------------------------------------
(* A command at work touches its own directory, and keeps it to the end.   *)
LEMMA WorkStays ==
    ASSUME IInv, NEW p \in Procs, Step(p) \/ Stop(p)
    PROVE  /\ Frame(p) /\ pc[p] # "idle"
           /\ dest'[p] = dest[p] \/ pc'[p] = "idle"
<1>0. TypeOK /\ Fits(p)
  BY DEF IInv
<1>1. CASE MakeDir(p)
  BY <1>0, <1>1 DEF MakeDir, Goto, TypeOK, Frame
<1>2. ASSUME NEW f \in Files, OpenFile(p, f)
      PROVE  Frame(p) /\ pc[p] # "idle" /\ dest'[p] = dest[p]
  BY <1>0, <1>2 DEF OpenFile, Goto, TypeOK, Frame
<1>3. CASE WriteFile(p)
  <2>1. dest[p] \in Paths
    BY <1>0, <1>3 DEF WriteFile, Fits, Placed
  <2>2. PICK w : tmpl' = [tmpl EXCEPT ![dest[p]][cur[p]] = w]
    BY <1>3 DEF WriteFile
  <2> QED BY <1>0, <1>3, <2>1, <2>2 DEF WriteFile, Goto, TypeOK, Frame
<1>4. CASE ModTest(p) \/ ModWrite(p) \/ Tidy(p)
  BY <1>0, <1>4 DEF ModTest, CopyEnded, ModWrite, Tidy, Goto, tree, TypeOK, Frame
<1>5. ASSUME NEW k \in Packages, GetPackage(p, k)
      PROVE  Frame(p) /\ pc[p] # "idle" /\ dest'[p] = dest[p]
  BY <1>0, <1>5 DEF GetPackage, tree, TypeOK, Frame
<1>6. CASE OpenConfig(p)
  BY <1>0, <1>6 DEF OpenConfig, Goto, TypeOK, Frame
<1>7. CASE WriteConfig(p)
  BY <1>0, <1>7 DEF WriteConfig, End, Goto, TypeOK, Frame
<1>8. CASE Stop(p)
  <2>1. End(p) /\ UNCHANGED <<node, mod, users>> /\ pc[p] # "idle"
    BY <1>8 DEF Stop
  <2>2. ASSUME NEW d \in Paths, d # dest[p] PROVE tmpl'[d] = tmpl[d] /\ smt'[d] = smt[d]
    BY <1>0, <1>8, <2>2 DEF Stop, TypeOK
  <2> QED BY <1>0, <2>1, <2>2 DEF End, Goto, TypeOK, Frame
<1> QED BY <1>1, <1>2, <1>3, <1>4, <1>5, <1>6, <1>7, <1>8 DEF Step

(* What is settled is never touched again, and so never completed: a       *)
(* command starts where there is nothing (file.go 45-92).                  *)
THEOREM SettledFinal == Spec => SettledIsFinal
<1>1. ASSUME IInv, Next, NEW d \in Paths, Settled(d)
      PROVE  Settled(d)' /\ UNCHANGED <<node[d], tmpl[d], mod[d], smt[d]>>
  <2>0. TypeOK
    BY <1>1 DEF IInv
  <2>1. PICK p \in Procs : \/ \E c \in Commands : Begin(p, c) \/ Refuse(p, c)
                           \/ Step(p) \/ Stop(p)
    BY <1>1 DEF Next
  <2>2. ASSUME NEW c \in Commands, Begin(p, c)
        PROVE  Settled(d)' /\ UNCHANGED tree
    <3>1. PICK e \in Paths : node[e] = "none" /\ dest' = [dest EXCEPT ![p] = e]
      BY <2>2 DEF Begin, Resolved
    <3>2. e # d
      BY <1>1, <3>1 DEF Settled
    <3>3. UNCHANGED tree /\ \A q \in Procs : q # p => pc'[q] = pc[q]
      BY <2>0, <2>2 DEF Begin, Goto, TypeOK
    <3> QED BY <1>1, <2>0, <3>1, <3>2, <3>3 DEF Settled, tree, TypeOK
  <2>3. ASSUME NEW c \in Commands, Refuse(p, c) PROVE UNCHANGED vars
    BY <2>3 DEF Refuse
  <2>4. CASE UNCHANGED vars
    BY <1>1, <2>4 DEF vars, Settled
  <2>5. CASE Step(p) \/ Stop(p)
    <3>1. /\ Frame(p) /\ pc[p] # "idle"
          /\ dest'[p] = dest[p] \/ pc'[p] = "idle"
      BY <1>1, <2>5, WorkStays
    <3> QED BY <1>1, <3>1 DEF Frame, Settled
  <2> QED BY <2>1, <2>2, <2>3, <2>4, <2>5 DEF tree
<1>2. IInv /\ [Next]_vars
        => [\A d \in Paths : Settled(d) =>
              /\ Settled(d)'
              /\ UNCHANGED <<node[d], tmpl[d], mod[d], smt[d]>>]_vars
  BY <1>1
<1> QED BY <1>2, AlwaysIInv, PTL DEF Spec, SettledIsFinal
=============================================================================
