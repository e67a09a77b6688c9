---------------------------- MODULE TablesProofs ----------------------------
(***************************************************************************)
(* Tables for every two lists of names and every pair of headers.          *)
(***************************************************************************)
EXTENDS Tables, TLAPS, WellFoundedInduction

(* A list that is not empty has a longest name: what is left of MaxWidth   *)
(* has a least value.                                                      *)
LEMMA LongestIsLongest ==
    ASSUME NEW S \in SUBSET Names, S # {}
    PROVE  /\ Longest(S) \in Nat
           /\ \A n \in S : Width[n] <= Longest(S)
<1> DEFINE Left(n) == MaxWidth - Width[n]
           T == {Left(n) : n \in S}
<1>1. \A n \in S : n \in Names /\ Width[n] \in 0..MaxWidth /\ MaxWidth \in Nat
  BY ConstantsAssumption
<1>2. T \subseteq Nat /\ T # {}
  BY <1>1
<1>3. PICK x \in T : \A y \in T : ~(y < x)
  <2>1. PICK x \in T : \A y \in T : ~(<<y, x>> \in OpToRel(<, Nat))
    BY <1>2, WFMin, NatLessThanWellFounded
  <2>2. \A y \in T : y < x => <<y, x>> \in OpToRel(<, Nat)
    BY <1>2, <2>1 DEF OpToRel
  <2> QED BY <2>1, <2>2
<1>4. PICK m \in S : x = Left(m)
  OBVIOUS
<1>5. \A n \in S : Width[n] <= Width[m]
  <2> SUFFICES ASSUME NEW n \in S PROVE Width[n] <= Width[m]
    OBVIOUS
  <2>1. ~(Left(n) < Left(m))
    BY <1>3, <1>4
  <2> QED BY <1>1, <1>4, <2>1
<1>6. /\ Longest(S) \in {Width[n] : n \in S}
      /\ \A n \in S : Width[n] <= Longest(S)
  BY <1>4, <1>5 DEF Longest
<1> QED BY <1>1, <1>6

Row == [name : Names, x : Nat, y : Nat, len : Nat]

(* A line has its marks where the headers want them, and has them rightly. *)
Fits(l) ==
    LET xfrom == MaxNameLen + 2
        yfrom == xfrom + ColumnLen(xheader) + 1
    IN /\ l.x \in {0, MiddleOf(xfrom, xheader)}
       /\ l.y \in {0, MiddleOf(yfrom, yheader)}
       /\ l.len = yfrom + ColumnLen(yheader) - 1
       /\ l.x # 0 => l.name \in Elements(xs)
       /\ l.y # 0 => l.name \in Elements(ys)

HasX(n) == \E k \in 1..Len(rows) : rows[k].name = n /\ rows[k].x # 0

HasY(n) == \E k \in 1..Len(rows) : rows[k].name = n /\ rows[k].y # 0

(* The entries passed have their lines.                                    *)
Passed == /\ \A k \in 1..Len(rows) : Fits(rows[k])
          /\ \A a \in 1..(i - 1) : HasX(xs[a])
          /\ \A b \in 1..(j - 1) : HasY(ys[b])

Progress == /\ pc \in {"measure", "sort"} => rows = <<>> /\ i = 1 /\ j = 1
            /\ pc \notin {"measure", "sort"} => Ascending(xs) /\ Ascending(ys)
            /\ pc = "done" => i = Len(xs) + 1 /\ j = Len(ys) + 1
            /\ pc # "panic"

(* Without repeated names every name to come is after those printed.       *)
Ahead ==
    NoRepeats(xs) /\ NoRepeats(ys) =>
        /\ \A k, l \in 1..Len(rows) : k < l => rows[k].name < rows[l].name
        /\ i <= Len(xs) => \A k \in 1..Len(rows) : rows[k].name < xs[i]
        /\ j <= Len(ys) => \A k \in 1..Len(rows) : rows[k].name < ys[j]

IInv == TypeOK /\ Progress /\ Passed /\ Ahead

LEMMA EntriesAre ==
    ASSUME NEW s \in Seq(Names)
    PROVE  /\ Len(s) \in Nat
           /\ \A k \in 1..Len(s) : s[k] \in Int /\ s[k] \in Names /\ s[k] \in Elements(s)
<1>1. \A n \in Names : n \in Int
  BY ConstantsAssumption
<1>2. Len(s) \in Nat /\ \A k \in 1..Len(s) : s[k] \in Names
  OBVIOUS
<1>3. \A k \in 1..Len(s) : s[k] \in Elements(s)
  BY DEF Elements
<1> QED BY <1>1, <1>2, <1>3

LEMMA RowsAre ==
    ASSUME TypeOK
    PROVE  /\ Len(rows) \in Nat
           /\ \A k \in 1..Len(rows) : rows[k] \in Row /\ rows[k].name \in Int
<1>1. rows \in Seq(Row)
  BY DEF TypeOK, Row
<1>2. \A n \in Names : n \in Int
  BY ConstantsAssumption
<1>3. \A l \in Row : l.name \in Names
  BY DEF Row
<1>4. \A l \in Row : l.name \in Int
  BY <1>2, <1>3
<1>5. Len(rows) \in Nat /\ \A k \in 1..Len(rows) : rows[k] \in Row
  BY <1>1
<1> QED BY <1>4, <1>5

(* The names of both lists are measured, and no empty list is.             *)
LEMMA MeasuredAre ==
    ASSUME TypeOK
    PROVE  /\ <<>> \notin Measured
           /\ UNION {Elements(s) : s \in Measured} = Elements(xs) \cup Elements(ys)
           /\ Measured = {} <=> Elements(xs) \cup Elements(ys) = {}
<1>1. ASSUME NEW s \in Seq(Names) PROVE s = <<>> <=> Elements(s) = {}
  <2>1. s # <<>> => s[1] \in Elements(s)
    BY DEF Elements
  <2>2. s = <<>> => 1..Len(s) = {}
    OBVIOUS
  <2>3. s = <<>> => Elements(s) = {}
    BY <2>2 DEF Elements
  <2> QED BY <2>1, <2>3
<1>2. /\ xs = <<>> <=> Elements(xs) = {}
      /\ ys = <<>> <=> Elements(ys) = {}
  BY <1>1 DEF TypeOK
<1> QED BY <1>2 DEF Measured

LEMMA Widths ==
    ASSUME TypeOK
    PROVE  /\ MaxNameLen \in Nat
           /\ ColumnLen(xheader) \in Nat /\ ColumnLen(yheader) \in Nat
           /\ ColumnLen(xheader) >= 3 /\ ColumnLen(yheader) >= 3
           /\ \A n \in Elements(xs) \cup Elements(ys) :
                n \in Names /\ Width[n] \in Nat /\ Width[n] <= MaxNameLen
<1> DEFINE S == Elements(xs) \cup Elements(ys)
<1>1. S \in SUBSET Names
  BY DEF TypeOK, Elements
<1>2. \A n \in Names : Width[n] \in Nat
  BY ConstantsAssumption
<1>3. ColumnLen(xheader) \in Nat /\ ColumnLen(yheader) \in Nat
      /\ ColumnLen(xheader) >= 3 /\ ColumnLen(yheader) >= 3
  BY ConstantsAssumption DEF TypeOK, ColumnLen
<1>4. MaxNameLen = IF S = {} THEN 0 ELSE Longest(S)
  BY MeasuredAre DEF MaxNameLen
<1> HIDE DEF S
<1>5. MaxNameLen \in Nat /\ \A n \in S : Width[n] <= MaxNameLen
  BY <1>1, <1>4, LongestIsLongest
<1> QED BY <1>1, <1>2, <1>3, <1>5 DEF S

(* A line's marks are under the middles of the headers.                    *)
LEMMA LineOK ==
    ASSUME TypeOK, NEW n \in Elements(xs) \cup Elements(ys),
           NEW x \in BOOLEAN, NEW y \in BOOLEAN,
           x => n \in Elements(xs), y => n \in Elements(ys)
    PROVE  /\ Line(n, x, y) \in Row
           /\ Line(n, x, y).name = n
           /\ Fits(Line(n, x, y))
           /\ x => Line(n, x, y).x # 0
           /\ y => Line(n, x, y).y # 0
           /\ \A w \in Spaces(n) : ~(w < 0)
<1> DEFINE m == MaxNameLen
           cx == ColumnLen(xheader)
           cy == ColumnLen(yheader)
<1>1. /\ m \in Nat /\ cx \in Nat /\ cy \in Nat /\ cx >= 3 /\ cy >= 3
      /\ n \in Names /\ Width[n] \in Nat /\ Width[n] <= m
  BY Widths
<1>2. /\ cx \div 2 \in Nat /\ cy \div 2 \in Nat
      /\ cx \div 2 < cx /\ cy \div 2 < cy
  <2> HIDE DEF cx, cy
  <2> QED BY <1>1
<1> HIDE DEF m, cx, cy
<1>3. Line(n, x, y) = [name |-> n,
                       x |-> IF x THEN m + 1 + cx \div 2 + 1 ELSE 0,
                       y |-> IF y THEN m + 1 + cx \div 2 + 1
                                       + (cx - cx \div 2 - 1 + 1 + cy \div 2) + 1 ELSE 0,
                       len |-> m + 1 + cx \div 2 + 1 + (cx - cx \div 2 - 1 + 1 + cy \div 2)
                               + 1 + (cy - cy \div 2 - 1)]
  BY DEF Line, SpaceToXHeaderCenter, SpaceFromXToYHeaderCenter, SpaceFromYHeaderCenter,
         m, cx, cy
<1>4. Line(n, x, y) \in Row
  BY <1>1, <1>2, <1>3 DEF Row
<1>5. Fits(Line(n, x, y))
  <2>1. /\ Line(n, x, y).x \in {0, m + 2 + cx \div 2}
        /\ Line(n, x, y).y \in {0, m + 2 + cx + 1 + cy \div 2}
        /\ Line(n, x, y).len = m + 2 + cx + 1 + cy - 1
    BY <1>1, <1>2, <1>3
  <2>2. /\ Line(n, x, y).x # 0 => Line(n, x, y).name \in Elements(xs)
        /\ Line(n, x, y).y # 0 => Line(n, x, y).name \in Elements(ys)
    BY <1>3
  <2> QED BY <2>1, <2>2 DEF Fits, MiddleOf, m, cx, cy
<1>6. /\ x => Line(n, x, y).x # 0
      /\ y => Line(n, x, y).y # 0
      /\ Line(n, x, y).name = n
  BY <1>1, <1>2, <1>3
<1>7. \A w \in Spaces(n) : ~(w < 0)
  BY <1>1, <1>2
     DEF Spaces, SpaceToXHeaderCenter, SpaceFromXToYHeaderCenter, SpaceFromYHeaderCenter,
         m, cx, cy
<1> QED BY <1>4, <1>5, <1>6, <1>7

LEMMA InitIInv == Init => IInv
<1> SUFFICES ASSUME Init PROVE IInv
  OBVIOUS
<1>1. /\ xs \in Seq(Names) /\ ys \in Seq(Names)
      /\ rows = <<>> /\ i = 1 /\ j = 1 /\ pc = "measure"
  BY ConstantsAssumption DEF Init
<1>2. TypeOK
  BY <1>1 DEF Init, TypeOK
<1>3. Progress /\ Passed /\ Ahead
  BY <1>1 DEF Progress, Passed, Ahead
<1> QED BY <1>2, <1>3 DEF IInv

(* The first list, the second, and the headers stay once they are sorted.  *)
LEMMA FitsStays ==
    ASSUME UNCHANGED <<xs, ys, xheader, yheader>>, NEW k, rows'[k] = rows[k], Fits(rows[k])
    PROVE  Fits(rows[k])'
BY DEF Fits, MaxNameLen, Measured, ColumnLen, MiddleOf

LEMMA RearrangedType ==
    ASSUME NEW s \in Seq(Names), NEW t \in Rearranged(s)
    PROVE  t \in Seq(Names) /\ Len(t) = Len(s)
<1>1. PICK q \in [1..Len(s) -> 1..Len(s)] : t = [k \in 1..Len(s) |-> s[q[k]]]
  BY DEF Rearranged
<1>2. Len(s) \in Nat /\ \A k \in 1..Len(s) : s[q[k]] \in Names
  OBVIOUS
<1> QED BY <1>1, <1>2

LEMMA MeasureKeeps == ASSUME IInv, Measure PROVE IInv'
<1>1. /\ pc = "measure" /\ pc' = "sort" /\ UNCHANGED <<xs, ys, xheader, yheader, i, j, rows>>
  BY MeasuredAre DEF Measure, IInv
<1>2. TypeOK /\ rows = <<>> /\ i = 1 /\ j = 1
  BY <1>1 DEF IInv, Progress
<1>3. TypeOK'
  BY <1>1, <1>2 DEF TypeOK
<1>4. Progress' /\ Passed' /\ Ahead'
  BY <1>1, <1>2 DEF Progress, Passed, Ahead
<1> QED BY <1>3, <1>4 DEF IInv

LEMMA SortKeeps == ASSUME IInv, Sort PROVE IInv'
<1>1. /\ xs' \in Rearranged(xs) /\ ys' \in Rearranged(ys)
      /\ Ascending(xs)' /\ Ascending(ys)'
      /\ pc = "sort" /\ pc' = "merge" /\ UNCHANGED <<xheader, yheader, i, j, rows>>
  BY DEF Sort, Ascending
<1>2. TypeOK /\ rows = <<>> /\ i = 1 /\ j = 1
  BY <1>1 DEF IInv, Progress
<1>3. xs' \in Seq(Names) /\ ys' \in Seq(Names)
  BY <1>1, <1>2, RearrangedType DEF TypeOK
<1>4. TypeOK'
  BY <1>1, <1>2, <1>3 DEF TypeOK
<1>5. Progress' /\ Passed' /\ Ahead'
  BY <1>1, <1>2 DEF Progress, Passed, Ahead
<1> QED BY <1>4, <1>5 DEF IInv

(* A line for the next entry of one list or of both, whichever are first.  *)
LEMMA PrintKeeps ==
    ASSUME IInv, pc = "merge",
           NEW n, NEW x \in BOOLEAN, NEW y \in BOOLEAN, x \/ y, PrintRow(n, x, y),
           x => i <= Len(xs) /\ n = xs[i] /\ i' = i + 1,
           y => j <= Len(ys) /\ n = ys[j] /\ j' = j + 1,
           ~x => i' = i /\ (i <= Len(xs) => n < xs[i]),
           ~y => j' = j /\ (j <= Len(ys) => n < ys[j])
    PROVE  IInv'
<1> DEFINE l == Line(n, x, y)
<1>1. /\ TypeOK /\ xs \in Seq(Names) /\ ys \in Seq(Names)
      /\ i \in 1..(Len(xs) + 1) /\ j \in 1..(Len(ys) + 1)
  BY DEF IInv, TypeOK
<1>2. /\ Len(xs) \in Nat /\ Len(ys) \in Nat
      /\ \A k \in 1..Len(xs) : xs[k] \in Int /\ xs[k] \in Elements(xs)
      /\ \A k \in 1..Len(ys) : ys[k] \in Int /\ ys[k] \in Elements(ys)
  BY <1>1, EntriesAre
<1>3. /\ Len(rows) \in Nat
      /\ \A k \in 1..Len(rows) : rows[k].name \in Int
  BY <1>1, RowsAre
<1>4. /\ n \in Int
      /\ x => n \in Elements(xs)
      /\ y => n \in Elements(ys)
  BY <1>1, <1>2
<1>5. n \in Elements(xs) \cup Elements(ys)
  BY <1>4
<1>6. /\ l \in Row /\ l.name = n /\ Fits(l)
      /\ x => l.x # 0
      /\ y => l.y # 0
      /\ \A w \in Spaces(n) : ~(w < 0)
  BY <1>1, <1>4, <1>5, LineOK
<1>7. pc' = "merge" /\ rows' = Append(rows, l) /\ UNCHANGED <<xs, ys, xheader, yheader>>
  BY <1>6 DEF PrintRow
<1>8. Fits(l)'
  <2>1. Line(n, x, y)' = Line(n, x, y)
    BY <1>7 DEF Line, MaxNameLen, Measured, SpaceToXHeaderCenter, SpaceFromXToYHeaderCenter,
                SpaceFromYHeaderCenter, ColumnLen
  <2> QED BY <1>6, <1>7, <2>1 DEF Fits, MaxNameLen, Measured, ColumnLen, MiddleOf
<1>9. l' = l
  BY <1>7 DEF Line, MaxNameLen, Measured, SpaceToXHeaderCenter, SpaceFromXToYHeaderCenter,
              SpaceFromYHeaderCenter, ColumnLen
<1> HIDE DEF l
<1>10. /\ rows' \in Seq(Row)
       /\ Len(rows') = Len(rows) + 1
       /\ \A k \in 1..Len(rows) : rows'[k] = rows[k]
       /\ rows'[Len(rows) + 1] = l
  <2>1. rows \in Seq(Row)
    BY <1>1 DEF TypeOK, Row
  <2> QED BY <1>6, <1>7, <2>1
<1>11. i' \in 1..(Len(xs) + 1) /\ j' \in 1..(Len(ys) + 1)
  BY <1>1, <1>2
<1>12. TypeOK'
  BY <1>1, <1>7, <1>10, <1>11 DEF TypeOK, Row
<1>13. Progress'
  BY <1>7 DEF IInv, Progress, Ascending
<1>14. Passed'
  <2>1. ASSUME NEW k \in 1..Len(rows') PROVE Fits(rows[k])'
    <3>1. CASE k \in 1..Len(rows)
      BY <1>7, <1>10, <3>1, FitsStays DEF IInv, Passed
    <3>2. CASE k = Len(rows) + 1
      BY <1>8, <1>9, <1>10, <3>2 DEF Fits
    <3> QED BY <1>3, <1>10, <3>1, <3>2
  <2>2. ASSUME NEW a \in 1..(i' - 1) PROVE HasX(xs[a])'
    <3>1. CASE a \in 1..(i - 1)
      <4>1. PICK k \in 1..Len(rows) : rows[k].name = xs[a] /\ rows[k].x # 0
        BY <3>1 DEF IInv, Passed, HasX
      <4>2. k \in 1..Len(rows') /\ rows'[k] = rows[k] /\ xs' = xs
        BY <1>3, <1>7, <1>10
      <4> QED BY <4>1, <4>2 DEF HasX
    <3>2. CASE a = i /\ x
      <4>1. Len(rows) + 1 \in 1..Len(rows') /\ xs' = xs /\ l.name = xs[a] /\ l.x # 0
        BY <1>3, <1>6, <1>7, <1>10, <3>2
      <4> QED BY <1>10, <4>1 DEF HasX
    <3> QED BY <1>1, <1>2, <3>1, <3>2
  <2>3. ASSUME NEW b \in 1..(j' - 1) PROVE HasY(ys[b])'
    <3>1. CASE b \in 1..(j - 1)
      <4>1. PICK k \in 1..Len(rows) : rows[k].name = ys[b] /\ rows[k].y # 0
        BY <3>1 DEF IInv, Passed, HasY
      <4>2. k \in 1..Len(rows') /\ rows'[k] = rows[k] /\ ys' = ys
        BY <1>3, <1>7, <1>10
      <4> QED BY <4>1, <4>2 DEF HasY
    <3>2. CASE b = j /\ y
      <4>1. Len(rows) + 1 \in 1..Len(rows') /\ ys' = ys /\ l.name = ys[b] /\ l.y # 0
        BY <1>3, <1>6, <1>7, <1>10, <3>2
      <4> QED BY <1>10, <4>1 DEF HasY
    <3> QED BY <1>1, <1>2, <3>1, <3>2
  <2> QED BY <2>1, <2>2, <2>3 DEF Passed
<1>15. Ahead'
  <2> SUFFICES ASSUME NoRepeats(xs), NoRepeats(ys) PROVE Ahead'
    BY <1>7 DEF Ahead, NoRepeats
  <2>1. /\ \A k, m \in 1..Len(rows) : k < m => rows[k].name < rows[m].name
        /\ \A k \in 1..Len(rows) : rows[k].name < n
    <3>1. \A k, m \in 1..Len(rows) : k < m => rows[k].name < rows[m].name
      BY DEF IInv, Ahead
    <3>2. ASSUME NEW k \in 1..Len(rows) PROVE rows[k].name < n
      <4>1. i <= Len(xs) => rows[k].name < xs[i]
        BY <1>3 DEF IInv, Ahead
      <4>2. j <= Len(ys) => rows[k].name < ys[j]
        BY <1>3 DEF IInv, Ahead
      <4> QED BY <4>1, <4>2
    <3> QED BY <3>1, <3>2
  <2>2. Ascending(xs) /\ Ascending(ys)
    BY DEF IInv, Progress
  <2>3. i' <= Len(xs) => n < xs[i']
    <3>1. CASE x /\ i + 1 <= Len(xs)
      <4>1. i \in 1..Len(xs) /\ i + 1 \in 1..Len(xs) /\ i < i + 1 /\ i # i + 1
        BY <1>1, <1>2, <3>1
      <4>2. xs[i] <= xs[i + 1] /\ xs[i] # xs[i + 1]
        BY <2>2, <4>1 DEF Ascending, NoRepeats
      <4> QED BY <1>2, <3>1, <4>1, <4>2
    <3> QED BY <3>1
  <2>4. j' <= Len(ys) => n < ys[j']
    <3>1. CASE y /\ j + 1 <= Len(ys)
      <4>1. j \in 1..Len(ys) /\ j + 1 \in 1..Len(ys) /\ j < j + 1 /\ j # j + 1
        BY <1>1, <1>2, <3>1
      <4>2. ys[j] <= ys[j + 1] /\ ys[j] # ys[j + 1]
        BY <2>2, <4>1 DEF Ascending, NoRepeats
      <4> QED BY <1>2, <3>1, <4>1, <4>2
    <3> QED BY <3>1
  <2>5. ASSUME NEW k \in 1..Len(rows'), NEW m \in 1..Len(rows'), k < m
        PROVE  rows'[k].name < rows'[m].name
    <3>1. k \in 1..Len(rows) /\ (m \in 1..Len(rows) \/ m = Len(rows) + 1)
      BY <1>3, <1>10, <2>5
    <3> QED BY <1>6, <1>10, <2>1, <2>5, <3>1
  <2>6. ASSUME NEW k \in 1..Len(rows')
        PROVE  rows'[k].name \in Int /\ (rows'[k].name < n \/ rows'[k].name = n)
    <3>1. k \in 1..Len(rows) \/ k = Len(rows) + 1
      BY <1>3, <1>10
    <3> QED BY <1>3, <1>4, <1>6, <1>10, <2>1, <3>1
  <2>7. i' <= Len(xs) => xs[i'] \in Int
    BY <1>2, <1>11
  <2>8. j' <= Len(ys) => ys[j'] \in Int
    BY <1>2, <1>11
  <2>9. ASSUME NEW k \in 1..Len(rows')
        PROVE  /\ i' <= Len(xs) => rows'[k].name < xs[i']
               /\ j' <= Len(ys) => rows'[k].name < ys[j']
    <3> DEFINE r == rows'[k].name
               a == xs[i']
               b == ys[j']
    <3>1. r \in Int /\ (r < n \/ r = n)
      BY <2>6
    <3> HIDE DEF r, a, b
    <3>2. i' <= Len(xs) => r < a
      BY <1>4, <2>3, <2>7, <3>1 DEF a
    <3>3. j' <= Len(ys) => r < b
      BY <1>4, <2>4, <2>8, <3>1 DEF b
    <3> QED BY <3>2, <3>3 DEF r, a, b
  <2> QED BY <1>7, <2>5, <2>9 DEF Ahead
<1> QED BY <1>12, <1>13, <1>14, <1>15 DEF IInv

(* What the merge has done stays done.                                     *)
LEMMA DoneStays ==
    ASSUME IInv, UNCHANGED <<xs, ys, xheader, yheader, i, j, rows>>
    PROVE  Passed' /\ Ahead'
<1>1. \A k \in 1..Len(rows) : Fits(rows[k])'
  BY FitsStays DEF IInv, Passed
<1>2. Passed'
  BY <1>1 DEF IInv, Passed, HasX, HasY
<1>3. Ahead'
  BY DEF IInv, Ahead, NoRepeats
<1> QED BY <1>2, <1>3

LEMMA FinishKeeps == ASSUME IInv, Finish PROVE IInv'
<1>1. /\ pc = "merge" /\ pc' = "done" /\ i > Len(xs) /\ j > Len(ys)
      /\ UNCHANGED <<xs, ys, xheader, yheader, i, j, rows>>
  BY DEF Finish, AtTheEnds
<1>2. /\ TypeOK /\ Len(xs) \in Nat /\ Len(ys) \in Nat
      /\ i \in 1..(Len(xs) + 1) /\ j \in 1..(Len(ys) + 1)
  BY DEF IInv, TypeOK
<1>3. TypeOK'
  BY <1>1, <1>2 DEF TypeOK
<1>4. Progress'
  BY <1>1, <1>2 DEF IInv, Progress, Ascending
<1> QED BY <1>1, <1>3, <1>4, DoneStays DEF IInv

LEMMA NextIInv == IInv /\ [Next]_vars => IInv'
<1> SUFFICES ASSUME IInv, [Next]_vars PROVE IInv'
  OBVIOUS
<1>1. CASE UNCHANGED vars
  <2>1. TypeOK'
    BY <1>1 DEF vars, IInv, TypeOK
  <2>2. Progress'
    BY <1>1 DEF vars, IInv, Progress, Ascending
  <2> QED BY <1>1, <2>1, <2>2, DoneStays DEF vars, IInv
<1>2. CASE Both
  <2>1. pc = "merge" /\ PrintRow(xs[i], TRUE, TRUE) /\ i <= Len(xs) /\ j <= Len(ys)
        /\ xs[i] = ys[j] /\ i' = i + 1 /\ j' = j + 1
    BY <1>2 DEF Both, Merging
  <2> QED BY <2>1, PrintKeeps
<1>3. CASE OnlyX
  <2>1. /\ pc = "merge" /\ PrintRow(xs[i], TRUE, FALSE) /\ i <= Len(xs)
        /\ j <= Len(ys) => xs[i] < ys[j]
        /\ i' = i + 1 /\ j' = j
    BY <1>3 DEF OnlyX
  <2> QED BY <2>1, PrintKeeps
<1>4. CASE OnlyY
  <2>1. /\ pc = "merge" /\ PrintRow(ys[j], FALSE, TRUE) /\ j <= Len(ys)
        /\ i <= Len(xs) => ys[j] < xs[i]
        /\ j' = j + 1 /\ i' = i
    BY <1>4 DEF OnlyY
  <2> QED BY <2>1, PrintKeeps
<1> QED BY <1>1, <1>2, <1>3, <1>4, MeasureKeeps, SortKeeps, FinishKeeps DEF Next

THEOREM AlwaysIInv == Spec => []IInv
BY InitIInv, NextIInv, PTL DEF Spec

(* Every variable keeps its type (TypeOK).                                 *)
THEOREM TypeCorrect == Spec => []TypeOK
<1>1. IInv => TypeOK
  BY DEF IInv
<1> QED BY <1>1, AlwaysIInv, PTL

(* For lists of any length, empty ones among them, slices.Max is never     *)
(* given an empty list (table.go 86-97), and no line is made with a        *)
(* negative number of spaces (10, 131-136).                                *)
THEOREM Panicless == Spec => []NeverPanics
<1>1. IInv => NeverPanics
  BY DEF IInv, Progress, NeverPanics
<1> QED BY <1>1, AlwaysIInv, PTL

(* The marks in a column are its list, for lists of any length, with       *)
(* repeated names or without (table.go 119-181).                           *)
THEOREM MarksAreLists == Spec => []MarksAreTheLists
<1>1. ASSUME IInv PROVE MarksAreTheLists
  <2>1. ASSUME NEW k \in 1..Len(rows)
        PROVE  /\ rows[k].x # 0 => rows[k].name \in Elements(xs)
               /\ rows[k].y # 0 => rows[k].name \in Elements(ys)
    BY <1>1 DEF IInv, Passed, Fits
  <2>2. Len(xs) \in Nat /\ Len(ys) \in Nat
    BY <1>1 DEF IInv, TypeOK
  <2>3. ASSUME pc = "done", NEW n \in Elements(xs) PROVE HasX(n)
    <3>1. PICK a \in 1..Len(xs) : xs[a] = n
      BY DEF Elements
    <3>2. a \in 1..(i - 1)
      BY <1>1, <2>2, <2>3 DEF IInv, Progress
    <3> QED BY <1>1, <3>1, <3>2 DEF IInv, Passed
  <2>4. ASSUME pc = "done", NEW n \in Elements(ys) PROVE HasY(n)
    <3>1. PICK b \in 1..Len(ys) : ys[b] = n
      BY DEF Elements
    <3>2. b \in 1..(j - 1)
      BY <1>1, <2>2, <2>4 DEF IInv, Progress
    <3> QED BY <1>1, <3>1, <3>2 DEF IInv, Passed
  <2> QED BY <2>1, <2>3, <2>4 DEF MarksAreTheLists, HasX, HasY
<1>2. IInv => MarksAreTheLists
  BY <1>1
<1> QED BY <1>2, AlwaysIInv, PTL

(* So for lists of any length the table shows both, and without repeated   *)
(* names with one row to a name, in order, whichever list runs out first.  *)
THEOREM Shows == Spec => []ShowsTheLists
<1>1. IInv => OneRowPerName
  BY DEF IInv, Ahead, OneRowPerName
<1>2. MarksAreTheLists /\ OneRowPerName <=> ShowsTheLists
  BY DEF ShowsTheLists
<1> QED BY <1>1, <1>2, AlwaysIInv, MarksAreLists, PTL

(* For headers of every length, the marks are under the middles of their   *)
(* headers and the lines equally long (table.go 95-113).                   *)
THEOREM MarksUnder == Spec => []MarksUnderHeaders
<1>1. IInv => MarksUnderHeaders
  BY DEF IInv, Passed, Fits, MarksUnderHeaders
<1> QED BY <1>1, AlwaysIInv, PTL
=============================================================================
