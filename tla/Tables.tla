------------------------------- MODULE Tables -------------------------------
(***************************************************************************)
(* The table that "smt secrets -list" prints, names against the two places *)
(* that may have them (table.go, BuildComparisonTable): both lists are     *)
(* sorted and merged, a row for a name, an X below the header of a list    *)
(* that has it.  Names are numbers, in the order in which strings sort;    *)
(* a line is its name, the columns of its marks and its length.            *)
(***************************************************************************)
EXTENDS Sequences, Integers

CONSTANTS Names,     \* secret names
          MaxWidth,  \* no name is longer
          Width,     \* the length of each
          Lists,     \* the lists to compare
          Headers    \* lengths of the headers

ASSUME ConstantsAssumption ==
    /\ Names \subseteq Int
    /\ MaxWidth \in Nat /\ Width \in [Names -> 0..MaxWidth]
    /\ Lists \subseteq Seq(Names)
    /\ Headers \subseteq Nat

VARIABLES xs, ys,            \* the lists, in order once they are sorted
          xheader, yheader,  \* the lengths of their headers
          pc,                \* "measure", "sort", "merge" or "done"; "panic"
          i, j,              \* the entries of the lists to place next
          rows               \* the lines printed below the headers

vars == <<xs, ys, xheader, yheader, pc, i, j, rows>>

Elements(s) == {s[k] : k \in 1..Len(s)}

Ascending(s) == \A k, l \in 1..Len(s) : k < l => s[k] <= s[l]

(* The sequence s in another order.                                        *)
Rearranged(s) ==
    {[k \in 1..Len(s) |-> s[p[k]]] :
        p \in {q \in [1..Len(s) -> 1..Len(s)] : \A k, l \in 1..Len(s) :
                                                  k # l => q[k] # q[l]}}

Longest(S) == CHOOSE w \in {Width[n] : n \in S} : \A n \in S : Width[n] <= w

MeasuredAlike == IF xs = <<>> /\ ys = <<>> THEN {} ELSE {xs, ys}

(* The lists whose longest name is looked for: slices.Max panics on an     *)
(* empty one.                                                              *)
Measured ==
    IF xs = <<>> /\ ys = <<>> THEN {}
    ELSE IF xs = <<>> THEN {ys}
    ELSE IF ys = <<>> THEN {xs}
    ELSE {xs, ys}

(* The width of the column of names.                                       *)
MaxNameLen ==
    IF Measured = {} THEN 0 ELSE Longest(UNION {Elements(s) : s \in Measured})

(* The width of a header's column.                                         *)
ColumnLen(header) == IF header < 3 THEN 3 ELSE header

SpaceToXHeaderCenter == ColumnLen(xheader) \div 2

SpaceFromXToYHeaderCenter ==
    (ColumnLen(xheader) - SpaceToXHeaderCenter - 1) + 1 + ColumnLen(yheader) \div 2

SpaceFromYHeaderCenter == ColumnLen(yheader) - ColumnLen(yheader) \div 2 - 1

(* The counts of spaces a line is made with; strings.Repeat panics on a    *)
(* negative one.                                                           *)
Spaces(n) == {MaxNameLen - Width[n], SpaceToXHeaderCenter,
              SpaceFromXToYHeaderCenter, SpaceFromYHeaderCenter}

(* A line: a column that has no mark in it is 0, a space takes the place   *)
(* of a mark.                                                              *)
Line(n, x, y) ==
    LET xcol == MaxNameLen + 1 + SpaceToXHeaderCenter + 1
        ycol == xcol + SpaceFromXToYHeaderCenter + 1
    IN [name |-> n, x |-> IF x THEN xcol ELSE 0, y |-> IF y THEN ycol ELSE 0,
        len |-> ycol + SpaceFromYHeaderCenter]

-----------------------------------------------------------------------------
Init ==
    /\ xs \in Lists /\ ys \in Lists
    /\ xheader \in Headers /\ yheader \in Headers
    /\ pc = "measure"
    /\ i = 1 /\ j = 1
    /\ rows = <<>>

Measure ==
    /\ pc = "measure"
    /\ pc' = IF <<>> \in Measured THEN "panic" ELSE "sort"
    /\ UNCHANGED <<xs, ys, xheader, yheader, i, j, rows>>

SortXs ==
    /\ pc = "sort"
    /\ \E s \in Rearranged(xs) : Ascending(s) /\ xs' = s
    /\ pc' = "merge"
    /\ UNCHANGED <<ys, xheader, yheader, i, j, rows>>

Sort ==
    /\ pc = "sort"
    /\ \E s \in Rearranged(xs) : Ascending(s) /\ xs' = s
    /\ \E s \in Rearranged(ys) : Ascending(s) /\ ys' = s
    /\ pc' = "merge"
    /\ UNCHANGED <<xheader, yheader, i, j, rows>>

PrintRow(n, x, y) ==
    /\ IF \E w \in Spaces(n) : w < 0 THEN pc' = "panic" ELSE UNCHANGED pc
    /\ rows' = Append(rows, Line(n, x, y))
    /\ UNCHANGED <<xs, ys, xheader, yheader>>

Merging == pc = "merge" /\ i <= Len(xs) /\ j <= Len(ys)

Both ==
    /\ Merging
    /\ xs[i] = ys[j]
    /\ PrintRow(xs[i], TRUE, TRUE)
    /\ i' = i + 1 /\ j' = j + 1

OnlyX ==
    /\ pc = "merge"
    /\ i <= Len(xs)
    /\ j <= Len(ys) => xs[i] < ys[j]
    /\ PrintRow(xs[i], TRUE, FALSE)
    /\ i' = i + 1 /\ UNCHANGED j

OnlyY ==
    /\ pc = "merge"
    /\ j <= Len(ys)
    /\ i <= Len(xs) => ys[j] < xs[i]
    /\ PrintRow(ys[j], FALSE, TRUE)
    /\ j' = j + 1 /\ UNCHANGED i

(* Both lists are used up.                                                 *)
AtTheEnds == i > Len(xs) /\ j > Len(ys)

Finish ==
    /\ pc = "merge"
    /\ AtTheEnds
    /\ pc' = "done"
    /\ UNCHANGED <<xs, ys, xheader, yheader, i, j, rows>>

Next == Measure \/ Sort \/ Both \/ OnlyX \/ OnlyY \/ Finish

Spec == Init /\ [][Next]_vars
-----------------------------------------------------------------------------
TypeOK ==
    /\ xs \in Seq(Names) /\ ys \in Seq(Names)
    /\ xheader \in Headers /\ yheader \in Headers
    /\ pc \in {"measure", "sort", "merge", "done", "panic"}
    /\ i \in 1..(Len(xs) + 1) /\ j \in 1..(Len(ys) + 1)
    /\ rows \in Seq([name : Names, x : Nat, y : Nat, len : Nat])

(* Whatever the lists, repeated names and empty ones among them: an X in a *)
(* column says that its list has the name, and at the end every name of    *)
(* each list has an X in that list's column.                               *)
MarksAreTheLists ==
    /\ \A k \in 1..Len(rows) : /\ rows[k].x # 0 => rows[k].name \in Elements(xs)
                               /\ rows[k].y # 0 => rows[k].name \in Elements(ys)
    /\ pc = "done" =>
         /\ \A n \in Elements(xs) : \E k \in 1..Len(rows) :
                                       rows[k].name = n /\ rows[k].x # 0
         /\ \A n \in Elements(ys) : \E k \in 1..Len(rows) :
                                       rows[k].name = n /\ rows[k].y # 0

NoRepeats(s) == \A k, l \in 1..Len(s) : s[k] = s[l] => k = l

(* When neither list repeats a name, the rows are in order and no name has *)
(* two: one that both lists have is never shown as missing in one of them. *)
OneRowPerName ==
    NoRepeats(xs) /\ NoRepeats(ys) =>
        \A k, l \in 1..Len(rows) : k < l => rows[k].name < rows[l].name

(* The table shows the lists: every name once, and where it is.            *)
ShowsTheLists == MarksAreTheLists /\ OneRowPerName

(* The column at which the dashes from column "from" on have their middle. *)
MiddleOf(from, header) == from + ColumnLen(header) \div 2

(* Every mark is under the middle of its header's dashes (table.go         *)
(* 106-113), and every line is as long as the line of dashes.              *)
MarksUnderHeaders ==
    LET xfrom == MaxNameLen + 2
        yfrom == xfrom + ColumnLen(xheader) + 1
    IN \A k \in 1..Len(rows) :
           /\ rows[k].x \in {0, MiddleOf(xfrom, xheader)}
           /\ rows[k].y \in {0, MiddleOf(yfrom, yheader)}
           /\ rows[k].len = yfrom + ColumnLen(yheader) - 1

(* No longest name is asked of an empty list (table.go 86-97), and no line *)
(* asks for a negative number of spaces (table.go 10).                     *)
NeverPanics == pc # "panic"
=============================================================================
