------------------------ MODULE RulesAndLogsProofs ------------------------
(***************************************************************************)
(* Two computations over data of any size: where forwarding rules lead, and *)
(* what the pages of a service's log hold.  For each, the invariant that    *)
(* every step keeps and what follows from it.                               *)
(***************************************************************************)
EXTENDS Forwarding, LogFiles, FiniteSetTheorems, SequenceTheorems, WellFoundedInduction, TLAPS

-----------------------------------------------------------------------------
(*****************************************************************************)
(* Forwarding rules, of any number and any lengths up to the limits.  What    *)
(* the model computes step by step along a string or a list of rules is       *)
(* followed by smallest counterexamples on the number of steps.               *)
(*****************************************************************************)

(* A nonempty set of numbers has a least one. *)
LEMMA LeastOf ==
    ASSUME NEW T \in SUBSET Nat, T # {}
    PROVE  \E x \in T : \A y \in Nat : y < x => y \notin T
<1> DEFINE R == OpToRel(<, Nat)
<1>1. IsWellFoundedOn(R, Nat) BY NatLessThanWellFounded
<1>2. \A x, y \in Nat : x < y => <<x, y>> \in R BY DEF OpToRel
<1> HIDE DEF R
<1>3. \E x \in T : \A y \in T : ~(<<y, x>> \in R) BY <1>1, WFMin
<1>4. PICK x \in T : \A y \in T : ~(<<y, x>> \in R) BY <1>3
<1> QED BY <1>2, <1>4

(* What is in a set of numbers at 0, and at the successor of each that is in it below a bound. *)
LEMMA UpTo ==
    ASSUME NEW n \in Nat, NEW T, 0 \in T, \A k \in 0..n : k # n /\ k \in T => k + 1 \in T
    PROVE  \A k \in 0..n : k \in T
<1> DEFINE Missing == {k \in 0..n : k \notin T}
<1> SUFFICES ASSUME Missing # {} PROVE FALSE
  OBVIOUS
<1>1. Missing \in SUBSET Nat OBVIOUS
<1>2. PICK x \in Missing : \A y \in Nat : y < x => y \notin Missing
  <2> HIDE DEF Missing
  <2> QED BY <1>1, LeastOf
<1>3. x \in 1..n /\ x - 1 \in 0..n /\ x - 1 < x /\ x - 1 # n OBVIOUS
<1>4. x - 1 \in T BY <1>2, <1>3
<1> QED BY <1>3, <1>4

(* A function whose value at a number is computed from the value before it. *)
Iterates(g, n, base, step) == g = [k \in 0..n |-> IF k = 0 THEN base ELSE step[<<k, g[k - 1]>>]]

LEMMA IterationExists ==
    ASSUME NEW n \in Nat, NEW D, NEW base \in D, NEW step \in [(1..n) \X D -> D]
    PROVE  \E g \in [0..n -> D] : Iterates(g, n, base, step)
<1> DEFINE T == {m \in 0..n : \E g \in [0..m -> D] : Iterates(g, m, base, step)}
<1>1. 0 \in T
  <2> DEFINE g == [k \in 0..0 |-> base]
  <2>1. g \in [0..0 -> D] OBVIOUS
  <2>2. Iterates(g, 0, base, step) BY DEF Iterates
  <2> QED BY <2>1, <2>2
<1>2. ASSUME NEW m \in 0..n, m # n, m \in T PROVE m + 1 \in T
  <2>1. PICK g \in [0..m -> D] : Iterates(g, m, base, step) BY <1>2
  <2> DEFINE h == [k \in 0..(m + 1) |-> IF k = m + 1 THEN step[<<m + 1, g[m]>>] ELSE g[k]]
  <2>2. m + 1 \in 1..n /\ g[m] \in D BY <1>2
  <2>3. step[<<m + 1, g[m]>>] \in D BY <2>2
  <2>4. h \in [0..(m + 1) -> D] BY <2>3
  <2>5. ASSUME NEW k \in 0..(m + 1) PROVE h[k] = IF k = 0 THEN base ELSE step[<<k, h[k - 1]>>]
    <3>1. CASE k = m + 1
      <4>1. h[m + 1] = step[<<m + 1, g[m]>>] OBVIOUS
      <4>2. h[m] = g[m] /\ m + 1 # 0 /\ (m + 1) - 1 = m OBVIOUS
      <4> HIDE DEF h
      <4> QED BY <3>1, <4>1, <4>2
    <3>2. CASE k \in 0..m
      <4>1. h[k] = g[k] /\ (k # 0 => h[k - 1] = g[k - 1]) BY <3>2
      <4>2. g[k] = IF k = 0 THEN base ELSE step[<<k, g[k - 1]>>] BY <2>1, <3>2 DEF Iterates
      <4> HIDE DEF h
      <4> QED BY <4>1, <4>2
    <3> QED BY <3>1, <3>2
  <2>6. Iterates(h, m + 1, base, step)
    <3>1. h = [k \in 0..(m + 1) |-> h[k]] OBVIOUS
    <3> HIDE DEF h
    <3> QED BY <2>5, <3>1 DEF Iterates
  <2>7. m + 1 \in 0..n BY <1>2
  <2> HIDE DEF h
  <2> QED BY <2>4, <2>6, <2>7
<1>3. \A k \in 0..n : k \in T
  <2> HIDE DEF T
  <2> QED BY <1>1, <1>2, UpTo
<1>4. n \in T BY <1>3
<1> QED BY <1>4

(* One cell of the next row, of what is to its left and of the row above. *)
Cell(previous, ch, value, next, i) ==
    IF ch = "*" THEN (previous[i] \/ (i > 0 /\ next[i - 1]))
    ELSE i > 0 /\ previous[i - 1] /\ (ch = "?" \/ ch = value[i])
IsNextRow(next, previous, ch, value) == next = [i \in 0..Len(value) |-> Cell(previous, ch, value, next, i)]

LEMMA NextRowIsOne ==
    ASSUME NEW previous, NEW ch, NEW value, \E g : IsNextRow(g, previous, ch, value)
    PROVE  IsNextRow(NextRow(previous, ch, value), previous, ch, value)
<1>1. NextRow(previous, ch, value) = CHOOSE g : IsNextRow(g, previous, ch, value)
  BY DEF NextRow, IsNextRow, Cell
<1> QED BY <1>1

(* NextRow is defined, by the order in which it is filled. *)
LEMMA NextRowIsFilled ==
    ASSUME NEW value, Len(value) \in Nat, NEW previous \in [0..Len(value) -> BOOLEAN], NEW ch
    PROVE  /\ NextRow(previous, ch, value) \in [0..Len(value) -> BOOLEAN]
           /\ IsNextRow(NextRow(previous, ch, value), previous, ch, value)
<1> DEFINE n == Len(value)
           base == IF ch = "*" THEN previous[0] ELSE FALSE
           Fit(i) == ch = "?" \/ ch = value[i]
           Below(i, left) == IF ch = "*" THEN previous[i] \/ left ELSE previous[i - 1] /\ Fit(i)
           step == [x \in (1..n) \X BOOLEAN |-> Below(x[1], x[2])]
<1>1. base \in BOOLEAN
  <2>1. 0 \in 0..n OBVIOUS
  <2>2. previous[0] \in BOOLEAN BY <2>1, Zenon
  <2> QED BY <2>2, Zenon
<1>2. \A i \in 1..n, left \in BOOLEAN : Below(i, left) \in BOOLEAN
  <2> TAKE i \in 1..n, left \in BOOLEAN
  <2>1. Fit(i) \in BOOLEAN OBVIOUS
  <2>2. i \in 0..n /\ i - 1 \in 0..n OBVIOUS
  <2>3. previous[i] \in BOOLEAN /\ previous[i - 1] \in BOOLEAN BY <2>2
  <2> HIDE DEF Fit
  <2> QED BY <2>1, <2>3, Zenon
<1>3. step \in [(1..n) \X BOOLEAN -> BOOLEAN]
  <2> HIDE DEF Below
  <2> QED BY <1>2
<1>4. PICK g \in [0..n -> BOOLEAN] : Iterates(g, n, base, step)
  <2> HIDE DEF base, step
  <2> QED BY <1>1, <1>3, IterationExists
<1>5. ASSUME NEW i \in 0..n PROVE g[i] = Cell(previous, ch, value, g, i)
  <2>1. g[i] = IF i = 0 THEN base ELSE step[<<i, g[i - 1]>>] BY <1>4 DEF Iterates
  <2>2. CASE i = 0
    <3>1. g[0] = base BY <2>1, <2>2
    <3>2. ~(0 > 0) OBVIOUS
    <3> QED BY <2>2, <3>1, <3>2 DEF Cell
  <2>3. CASE i \in 1..n
    <3>1. g[i - 1] \in BOOLEAN BY <2>3
    <3>4. step[<<i, g[i - 1]>>] = Below(i, g[i - 1])
      <4> HIDE DEF Below
      <4> QED BY <2>3, <3>1
    <3>5. i # 0 BY <2>3
    <3>2. g[i] = Below(i, g[i - 1])
      <4> HIDE DEF Below, step, base
      <4> QED BY <2>1, <3>4, <3>5
    <3>3. i > 0 BY <2>3
    <3> QED BY <3>2, <3>3 DEF Cell
  <2> QED BY <2>2, <2>3
<1>6. IsNextRow(g, previous, ch, value)
  <2>1. g = [i \in 0..n |-> g[i]] BY <1>4
  <2> QED BY <1>5, <2>1, Zenon DEF IsNextRow
<1>7. IsNextRow(NextRow(previous, ch, value), previous, ch, value) BY <1>6, NextRowIsOne
<1>8. NextRow(previous, ch, value) \in [0..n -> BOOLEAN]
  <2> DEFINE next == NextRow(previous, ch, value)
  <2> HIDE DEF next
  <2>1. next = [i \in 0..n |-> Cell(previous, ch, value, next, i)] BY <1>7 DEF next, IsNextRow
  <2>2. ASSUME NEW i \in 0..n PROVE Cell(previous, ch, value, next, i) \in BOOLEAN
    <3>1. previous[i] \in BOOLEAN OBVIOUS
    <3> QED BY <3>1 DEF Cell
  <2>3. next \in [0..n -> BOOLEAN] BY <2>1, <2>2
  <2> QED BY <2>3 DEF next
<1> QED BY <1>7, <1>8

(* Below a star, a cell holds when one holds above it or above and to the left; below another *)
(* character, when it fits and the cell above and to the left holds.                         *)
LEMMA NextRowMeans ==
    ASSUME NEW value, Len(value) \in Nat, NEW previous \in [0..Len(value) -> BOOLEAN], NEW ch, NEW i \in 0..Len(value)
    PROVE  NextRow(previous, ch, value)[i] <=>
               IF ch = "*" THEN \E j \in 0..i : previous[j]
               ELSE i > 0 /\ previous[i - 1] /\ (ch = "?" \/ ch = value[i])
<1> DEFINE n == Len(value)
           next == NextRow(previous, ch, value)
<1>1. next \in [0..n -> BOOLEAN] /\ IsNextRow(next, previous, ch, value) BY NextRowIsFilled
<1> HIDE DEF next
<1>2. \A k \in 0..n : next[k] = Cell(previous, ch, value, next, k) BY <1>1 DEF IsNextRow
<1>3. CASE ch # "*" BY <1>2, <1>3 DEF next, Cell
<1>4. CASE ch = "*"
  <2> DEFINE Holds(k) == \E j \in 0..k : previous[j]
             T == {k \in 0..n : next[k] <=> Holds(k)}
  <2>1. \A k \in 0..n : next[k] <=> previous[k] \/ (k > 0 /\ next[k - 1]) BY <1>2, <1>4 DEF Cell
  <2>2. 0 \in T
    <3>1. next[0] <=> previous[0] BY <2>1
    <3>2. Holds(0) <=> previous[0] OBVIOUS
    <3> QED BY <3>1, <3>2
  <2>3. ASSUME NEW k \in 0..n, k # n, k \in T PROVE k + 1 \in T
    <3>1. k + 1 \in 0..n /\ (k + 1) - 1 = k /\ k + 1 > 0 BY <2>3
    <3>2. next[k + 1] <=> previous[k + 1] \/ next[k] BY <2>1, <3>1
    <3>3. next[k] <=> Holds(k) BY <2>3
    <3>4. 0..(k + 1) = 0..k \cup {k + 1} OBVIOUS
    <3>5. Holds(k + 1) <=> previous[k + 1] \/ Holds(k) BY <3>4, Zenon
    <3> HIDE DEF Holds
    <3> QED BY <3>1, <3>2, <3>3, <3>5
  <2>4. \A k \in 0..n : k \in T
    <3> HIDE DEF T
    <3> QED BY <2>2, <2>3, UpTo
  <2>5. next[i] <=> Holds(i) BY <2>4
  <2> QED BY <1>4, <2>5 DEF next
<1> QED BY <1>3, <1>4

(* The piece of the value that the m-th character of a pattern stands for, in a cut of the value. *)
Piece(pattern, value, cut, m) ==
    IF pattern[m] = "*" THEN cut[m - 1] <= cut[m]
    ELSE cut[m] = cut[m - 1] + 1 /\ (pattern[m] = "?" \/ pattern[m] = value[cut[m]])

(* The first k characters of a pattern match the first i of a value. *)
CutsInto(cut, pattern, value, k, i) ==
    /\ cut \in [0..k -> 0..Len(value)] /\ cut[0] = 0 /\ cut[k] = i
    /\ \A m \in 1..k : Piece(pattern, value, cut, m)
MatchesUpTo(pattern, value, k, i) == \E cut : CutsInto(cut, pattern, value, k, i)

(* One character more. *)
LEMMA CutExtended ==
    ASSUME NEW pattern, NEW value, Len(value) \in Nat, NEW k \in Nat, NEW i \in 0..Len(value), NEW j \in 0..Len(value),
           MatchesUpTo(pattern, value, k, j),
           IF pattern[k + 1] = "*" THEN j <= i
           ELSE i = j + 1 /\ (pattern[k + 1] = "?" \/ pattern[k + 1] = value[i])
    PROVE  MatchesUpTo(pattern, value, k + 1, i)
<1>1. PICK cut : CutsInto(cut, pattern, value, k, j) BY DEF MatchesUpTo
<1> DEFINE more == [m \in 0..(k + 1) |-> IF m = k + 1 THEN i ELSE cut[m]]
<1>2. more \in [0..(k + 1) -> 0..Len(value)] BY <1>1 DEF CutsInto
<1>3. more[0] = 0 /\ more[k + 1] = i /\ more[k] = j BY <1>1 DEF CutsInto
<1>4. \A m \in 0..k : more[m] = cut[m] OBVIOUS
<1> HIDE DEF more
<1>5. ASSUME NEW m \in 1..(k + 1) PROVE Piece(pattern, value, more, m)
  <2>1. CASE m = k + 1
    <3>1. m - 1 = k BY <2>1
    <3> QED BY <1>3, <2>1, <3>1 DEF Piece
  <2>2. CASE m \in 1..k
    <3>1. more[m] = cut[m] /\ more[m - 1] = cut[m - 1] BY <1>4, <2>2
    <3>2. Piece(pattern, value, cut, m) BY <1>1, <2>2 DEF CutsInto
    <3> QED BY <3>1, <3>2 DEF Piece
  <2> QED BY <2>1, <2>2
<1>6. CutsInto(more, pattern, value, k + 1, i) BY <1>2, <1>3, <1>5 DEF CutsInto
<1> QED BY <1>6 DEF MatchesUpTo

(* One character less. *)
LEMMA CutShortened ==
    ASSUME NEW pattern, NEW value, Len(value) \in Nat, NEW k \in Nat, NEW i \in 0..Len(value),
           MatchesUpTo(pattern, value, k + 1, i)
    PROVE  \E j \in 0..Len(value) :
             /\ MatchesUpTo(pattern, value, k, j)
             /\ IF pattern[k + 1] = "*" THEN j <= i
                ELSE i = j + 1 /\ (pattern[k + 1] = "?" \/ pattern[k + 1] = value[i])
<1>1. PICK cut : CutsInto(cut, pattern, value, k + 1, i) BY DEF MatchesUpTo
<1> DEFINE less == [m \in 0..k |-> cut[m]]
           j == cut[k]
<1>2. less \in [0..k -> 0..Len(value)] /\ j \in 0..Len(value) BY <1>1 DEF CutsInto
<1>3. less[0] = 0 /\ less[k] = j BY <1>1 DEF CutsInto
<1>4. \A m \in 0..k : less[m] = cut[m] OBVIOUS
<1> HIDE DEF less
<1>5. ASSUME NEW m \in 1..k PROVE Piece(pattern, value, less, m)
  <2>1. less[m] = cut[m] /\ less[m - 1] = cut[m - 1] BY <1>4
  <2>2. m \in 1..(k + 1) OBVIOUS
  <2>3. Piece(pattern, value, cut, m) BY <1>1, <2>2 DEF CutsInto
  <2> QED BY <2>1, <2>3 DEF Piece
<1>6. CutsInto(less, pattern, value, k, j) BY <1>2, <1>3, <1>5 DEF CutsInto
<1>7. MatchesUpTo(pattern, value, k, j) BY <1>6 DEF MatchesUpTo
<1>8. Piece(pattern, value, cut, k + 1) /\ cut[k + 1] = i /\ (k + 1) - 1 = k BY <1>1 DEF CutsInto
<1>9. IF pattern[k + 1] = "*" THEN j <= i
      ELSE i = j + 1 /\ (pattern[k + 1] = "?" \/ pattern[k + 1] = value[i])
  BY <1>8 DEF Piece
<1> HIDE DEF j
<1> QED BY <1>2, <1>7, <1>9

(* Nothing matches nothing. *)
LEMMA CutOfNothing ==
    ASSUME NEW pattern, NEW value, Len(value) \in Nat, NEW i \in 0..Len(value)
    PROVE  MatchesUpTo(pattern, value, 0, i) <=> i = 0
<1>1. ASSUME i = 0 PROVE MatchesUpTo(pattern, value, 0, i)
  <2> DEFINE cut == [m \in 0..0 |-> 0]
  <2>1. CutsInto(cut, pattern, value, 0, i) BY <1>1 DEF CutsInto
  <2> QED BY <2>1 DEF MatchesUpTo
<1> QED BY <1>1 DEF MatchesUpTo, CutsInto

(* The rows of forwarding_matches, one for each character of the pattern. *)
FirstRow(value) == [i \in 0..Len(value) |-> i = 0]
AreRows(row, pattern, value) ==
    row = [k \in 0..Len(pattern) |->
             IF k = 0 THEN FirstRow(value) ELSE NextRow(row[k - 1], pattern[k], value)]
RowsOf(pattern, value) == CHOOSE row : AreRows(row, pattern, value)

LEMMA RowsExist ==
    ASSUME NEW value, Len(value) \in Nat, NEW pattern, Len(pattern) \in Nat
    PROVE  /\ AreRows(RowsOf(pattern, value), pattern, value)
           /\ RowsOf(pattern, value) \in [0..Len(pattern) -> [0..Len(value) -> BOOLEAN]]
<1> DEFINE n == Len(value)
           m == Len(pattern)
           D == [0..n -> BOOLEAN]
           step == [x \in (1..m) \X D |-> NextRow(x[2], pattern[x[1]], value)]
<1>1. FirstRow(value) \in D BY DEF FirstRow
<1>2. ASSUME NEW x \in (1..m) \X D PROVE NextRow(x[2], pattern[x[1]], value) \in D
  <2>1. x[2] \in D OBVIOUS
  <2> QED BY <2>1, NextRowIsFilled
<1>3. step \in [(1..m) \X D -> D] BY <1>2
<1>4. \E g \in [0..m -> D] : Iterates(g, m, FirstRow(value), step)
  <2> HIDE DEF step, D
  <2> QED BY <1>1, <1>3, IterationExists
<1>5. ASSUME NEW g \in [0..m -> D], Iterates(g, m, FirstRow(value), step) PROVE AreRows(g, pattern, value)
  <2>1. ASSUME NEW k \in 0..m
        PROVE  g[k] = IF k = 0 THEN FirstRow(value) ELSE NextRow(g[k - 1], pattern[k], value)
    <3>1. g[k] = IF k = 0 THEN FirstRow(value) ELSE step[<<k, g[k - 1]>>] BY <1>5 DEF Iterates
    <3>2. CASE k = 0 BY <3>1, <3>2
    <3>3. CASE k \in 1..m
      <4>1. g[k - 1] \in D BY <3>3
      <4>2. <<k, g[k - 1]>> \in (1..m) \X D
        <5> HIDE DEF D
        <5> QED BY <3>3, <4>1
      <4>3. step[<<k, g[k - 1]>>] = NextRow(g[k - 1], pattern[k], value)
        <5> HIDE DEF D
        <5> QED BY <4>2
      <4>4. k # 0 BY <3>3
      <4> HIDE DEF step, D
      <4> QED BY <3>1, <4>3, <4>4
    <3> QED BY <3>2, <3>3
  <2>2. g = [k \in 0..m |-> g[k]] OBVIOUS
  <2> QED BY <2>1, <2>2, Zenon DEF AreRows
<1>6. AreRows(RowsOf(pattern, value), pattern, value) BY <1>4, <1>5, Zenon DEF RowsOf
<1> DEFINE row == RowsOf(pattern, value)
           T == {k \in 0..m : row[k] \in D}
<1>7. \A k \in 0..m : row[k] = IF k = 0 THEN FirstRow(value) ELSE NextRow(row[k - 1], pattern[k], value)
  <2> HIDE DEF row
  <2>1. AreRows(row, pattern, value) BY <1>6 DEF row
  <2> QED BY <2>1, Zenon DEF AreRows
<1>8. 0 \in T
  <2>1. row[0] = FirstRow(value) BY <1>7
  <2> QED BY <1>1, <2>1
<1>9. ASSUME NEW k \in 0..m, k # m, k \in T PROVE k + 1 \in T
  <2>1. k + 1 \in 0..m /\ k + 1 # 0 /\ (k + 1) - 1 = k BY <1>9
  <2>2. row[k + 1] = NextRow(row[k], pattern[k + 1], value)
    <3> HIDE DEF row
    <3> QED BY <1>7, <2>1
  <2>3. row[k] \in D BY <1>9
  <2>4. NextRow(row[k], pattern[k + 1], value) \in D
    <3> HIDE DEF row
    <3> QED BY <2>3, NextRowIsFilled
  <2> HIDE DEF row, D
  <2> QED BY <2>1, <2>2, <2>4
<1>10. \A k \in 0..m : k \in T
  <2> HIDE DEF T
  <2> QED BY <1>8, <1>9, UpTo
<1>11. row \in [0..m -> D]
  <2> HIDE DEF D
  <2>1. row = [k \in 0..m |-> row[k]] BY <1>6, Zenon DEF AreRows
  <2> HIDE DEF row
  <2> QED BY <1>10, <2>1
<1> QED BY <1>6, <1>11

(* A cell of a row tells whether that much of the pattern matches that much of the value. *)
LEMMA RowsMean ==
    ASSUME NEW value, Len(value) \in Nat, NEW pattern, Len(pattern) \in Nat, NEW k \in 0..Len(pattern),
           NEW i \in 0..Len(value)
    PROVE  RowsOf(pattern, value)[k][i] <=> MatchesUpTo(pattern, value, k, i)
<1> DEFINE n == Len(value)
           m == Len(pattern)
           row == RowsOf(pattern, value)
           Right(l) == \A j \in 0..n : row[l][j] <=> MatchesUpTo(pattern, value, l, j)
           T == {l \in 0..m : Right(l)}
<1>1. AreRows(row, pattern, value) /\ row \in [0..m -> [0..n -> BOOLEAN]] BY RowsExist
<1> HIDE DEF row
<1>2. \A l \in 0..m : row[l] = IF l = 0 THEN FirstRow(value) ELSE NextRow(row[l - 1], pattern[l], value)
  BY <1>1, Zenon DEF AreRows
<1>3. 0 \in T
  <2>1. row[0] = FirstRow(value) BY <1>2
  <2>2. ASSUME NEW j \in 0..n PROVE row[0][j] <=> MatchesUpTo(pattern, value, 0, j)
    <3>1. row[0][j] <=> j = 0 BY <2>1 DEF FirstRow
    <3> QED BY <3>1, CutOfNothing
  <2> QED BY <2>2
<1>4. ASSUME NEW l \in 0..m, l # m, l \in T PROVE l + 1 \in T
  <2>1. l + 1 \in 0..m /\ l + 1 # 0 /\ (l + 1) - 1 = l /\ l \in Nat BY <1>4
  <2>2. row[l + 1] = NextRow(row[l], pattern[l + 1], value) BY <1>2, <2>1
  <2>3. row[l] \in [0..n -> BOOLEAN] BY <1>1
  <2>4. ASSUME NEW j \in 0..n PROVE row[l + 1][j] <=> MatchesUpTo(pattern, value, l + 1, j)
    <3> DEFINE ch == pattern[l + 1]
    <3>1. row[l + 1][j] <=> IF ch = "*" THEN \E o \in 0..j : row[l][o]
                           ELSE j > 0 /\ row[l][j - 1] /\ (ch = "?" \/ ch = value[j])
      BY <2>2, <2>3, NextRowMeans
    <3>2. \A o \in 0..n : row[l][o] <=> MatchesUpTo(pattern, value, l, o) BY <1>4
    <3>3. ASSUME row[l + 1][j] PROVE MatchesUpTo(pattern, value, l + 1, j)
      <4>1. CASE ch = "*"
        <5>1. PICK o \in 0..j : row[l][o] BY <3>1, <3>3, <4>1
        <5>2. o \in 0..n /\ o <= j OBVIOUS
        <5>3. MatchesUpTo(pattern, value, l, o) BY <3>2, <5>1, <5>2
        <5> QED BY <2>1, <4>1, <5>2, <5>3, CutExtended
      <4>2. CASE ch # "*"
        <5>1. j > 0 /\ row[l][j - 1] /\ (ch = "?" \/ ch = value[j]) BY <3>1, <3>3, <4>2
        <5>2. j - 1 \in 0..n /\ j = (j - 1) + 1 BY <5>1
        <5>3. MatchesUpTo(pattern, value, l, j - 1) BY <3>2, <5>1, <5>2
        <5> QED BY <2>1, <4>2, <5>1, <5>2, <5>3, CutExtended
      <4> QED BY <4>1, <4>2
    <3>4. ASSUME MatchesUpTo(pattern, value, l + 1, j) PROVE row[l + 1][j]
      <4>1. PICK o \in 0..n : /\ MatchesUpTo(pattern, value, l, o)
                              /\ IF ch = "*" THEN o <= j ELSE j = o + 1 /\ (ch = "?" \/ ch = value[j])
        BY <2>1, <3>4, CutShortened
      <4>2. row[l][o] BY <3>2, <4>1
      <4>3. CASE ch = "*"
        <5>1. o \in 0..j BY <4>1, <4>3
        <5> QED BY <3>1, <4>2, <4>3, <5>1
      <4>4. CASE ch # "*"
        <5>1. j = o + 1 /\ j > 0 /\ j - 1 = o BY <4>1, <4>4
        <5>2. row[l][j - 1] BY <4>2, <5>1
        <5> QED BY <3>1, <4>1, <4>4, <5>1, <5>2
      <4> QED BY <4>3, <4>4
    <3> QED BY <3>3, <3>4
  <2> HIDE DEF row
  <2> QED BY <2>1, <2>4
<1>5. \A l \in 0..m : l \in T
  <2> HIDE DEF T
  <2> QED BY <1>3, <1>4, UpTo
<1>6. Right(k)
  <2> HIDE DEF Right
  <2> QED BY <1>5
<1> QED BY <1>6 DEF row

(* The dynamic programme of forwarding_matches finds whether the value can be cut along the pattern. *)
LEMMA MatchingIsRight ==
    ASSUME NEW pattern, NEW value, Len(pattern) \in 1..MaxLength, Len(value) \in 1..MaxLength
    PROVE  forwarding_matches(pattern, value) <=> Matches(pattern, value)
<1>1. Len(pattern) \in Nat /\ Len(value) \in Nat BY ForwardingAssumption
<1>2. forwarding_matches(pattern, value) <=> RowsOf(pattern, value)[Len(pattern)][Len(value)]
  <2>1. {Len(pattern), Len(value)} \subseteq 1..MaxLength OBVIOUS
  <2> QED BY <2>1, Zenon DEF forwarding_matches, RowsOf, AreRows, FirstRow
<1>3. Matches(pattern, value) <=> MatchesUpTo(pattern, value, Len(pattern), Len(value))
  BY DEF Matches, MatchesUpTo, CutsInto, Piece
<1>4. Len(pattern) \in 0..Len(pattern) /\ Len(value) \in 0..Len(value) BY <1>1
<1> QED BY <1>1, <1>2, <1>3, <1>4, RowsMean

Characters == PatternLetters \cup Wildcards

(* Patterns and local parts are sequences that forwarding_matches accepts. *)
LEMMA StringsAre ==
    ASSUME NEW C, NEW s \in Strings(C)
    PROVE  /\ s \in Seq(C) /\ Len(s) \in 1..MaxLength /\ DOMAIN s = 1..Len(s)
           /\ \A k \in 1..Len(s) : s[k] \in C
<1>1. PICK n \in 1..MaxLength : s \in [1..n -> C] BY Zenon DEF Strings
<1>2. n \in Nat BY ForwardingAssumption
<1>3. s \in Seq(C) /\ Len(s) = n BY <1>1, <1>2
<1> QED BY <1>1, <1>3

LEMMA SequencesAreStrings ==
    ASSUME NEW C, NEW s \in Seq(C), Len(s) \in 1..MaxLength
    PROVE  s \in Strings(C)
<1>1. s \in [1..Len(s) -> C] OBVIOUS
<1> QED BY <1>1, Zenon DEF Strings

(* Letters are no wildcards. *)
LEMMA KindsOfCharacters ==
    /\ \A ch \in Letters : ch # "*" /\ ch # "?"
    /\ \A ch \in Characters : ch # "*" /\ ch # "?" => ch \in Letters
BY ForwardingAssumption DEF Characters, Wildcards

(* A cut goes from left to right. *)
LEMMA CutsRise ==
    ASSUME NEW pattern, NEW value, Len(value) \in Nat, NEW n \in Nat, NEW i, NEW cut,
           CutsInto(cut, pattern, value, n, i)
    PROVE  \A k \in 0..n : \A j \in 0..k : cut[j] <= cut[k]
<1> DEFINE Rises(k) == \A j \in 0..k : cut[j] <= cut[k]
           T == {k \in 0..n : Rises(k)}
<1>1. \A k \in 0..n : cut[k] \in 0..Len(value) BY DEF CutsInto
<1>2. 0 \in T
  <2>1. cut[0] \in Nat BY <1>1
  <2> QED BY <2>1
<1>3. ASSUME NEW k \in 0..n, k # n, k \in T PROVE k + 1 \in T
  <2>1. k + 1 \in 1..n /\ (k + 1) - 1 = k BY <1>3
  <2>2. Piece(pattern, value, cut, k + 1) BY <2>1 DEF CutsInto
  <2>3. cut[k] \in Nat /\ cut[k + 1] \in Nat BY <1>1, <2>1
  <2>4. cut[k] <= cut[k + 1] BY <2>1, <2>2, <2>3 DEF Piece
  <2>5. ASSUME NEW j \in 0..(k + 1) PROVE cut[j] <= cut[k + 1]
    <3>1. CASE j = k + 1 BY <2>3, <3>1
    <3>2. CASE j \in 0..k
      <4>1. cut[j] <= cut[k] BY <1>3, <3>2
      <4>2. cut[j] \in Nat BY <1>1, <2>1
      <4> QED BY <2>3, <2>4, <4>1, <4>2
    <3> QED BY <3>1, <3>2
  <2> QED BY <2>1, <2>5
<1>4. \A k \in 0..n : k \in T
  <2> HIDE DEF T
  <2> QED BY <1>2, <1>3, UpTo
<1> QED BY <1>4

LEMMA MatchIsCut ==
    ASSUME NEW pattern, NEW value, Matches(pattern, value)
    PROVE  \E cut : CutsInto(cut, pattern, value, Len(pattern), Len(value))
BY DEF Matches, CutsInto, Piece

LEMMA FirstNumbers == ASSUME NEW n \in Nat PROVE IsFiniteSet(1..n) /\ Cardinality(1..n) = n
<1>1. 1 \in Int /\ n \in Int OBVIOUS
<1>2. IsFiniteSet(1..n) /\ Cardinality(1..n) = IF 1 > n THEN 0 ELSE n - 1 + 1 BY <1>1, FS_Interval, Zenon
<1> QED BY <1>2

(* Each count is a number of positions. *)
LEMMA CountsAreNumbers ==
    ASSUME NEW pattern \in Strings(Characters), NEW kinds
    PROVE  /\ Count(pattern, kinds) \in 0..Len(pattern)
           /\ Count(pattern, kinds) = 0 <=> \A k \in 1..Len(pattern) : pattern[k] \notin kinds
<1> DEFINE places == {k \in 1..Len(pattern) : pattern[k] \in kinds}
<1>1. Len(pattern) \in Nat /\ DOMAIN pattern = 1..Len(pattern) BY StringsAre, ForwardingAssumption
<1>2. Count(pattern, kinds) = Cardinality(places) BY <1>1, Zenon DEF Count
<1>3. IsFiniteSet(1..Len(pattern)) /\ Cardinality(1..Len(pattern)) = Len(pattern) BY <1>1, FirstNumbers
<1>4. places \in SUBSET (1..Len(pattern)) OBVIOUS
<1>5. IsFiniteSet(places) /\ Cardinality(places) <= Len(pattern)
  <2> HIDE DEF places
  <2> QED BY <1>3, <1>4, FS_Subset
<1>6. Cardinality(places) \in Nat /\ (Cardinality(places) = 0 <=> places = {})
  <2> HIDE DEF places
  <2> QED BY <1>5, FS_CardinalityType, FS_EmptySet
<1>7. Count(pattern, kinds) \in 0..Len(pattern)
  <2> HIDE DEF places
  <2> QED BY <1>1, <1>2, <1>5, <1>6
<1>8. places = {} <=> \A k \in 1..Len(pattern) : pattern[k] \notin kinds OBVIOUS
<1> HIDE DEF places
<1> QED BY <1>2, <1>6, <1>7, <1>8

(* A pattern that matches has no more letters than the value: each stands for a character of its own. *)
LEMMA LettersFit ==
    ASSUME NEW pattern \in Strings(Characters), NEW value \in Strings(Letters), Matches(pattern, value)
    PROVE  Count(pattern, Letters) <= Len(value)
<1> DEFINE m == Len(pattern)
           n == Len(value)
           places == {k \in 1..m : pattern[k] \in Letters}
<1>1. m \in Nat /\ n \in Nat /\ DOMAIN pattern = 1..m BY StringsAre, ForwardingAssumption
<1>2. PICK cut : CutsInto(cut, pattern, value, m, n) BY MatchIsCut
<1>3. \A k \in 0..m : \A j \in 0..k : cut[j] <= cut[k] BY <1>1, <1>2, CutsRise
<1>4. \A k \in 0..m : cut[k] \in 0..n BY <1>2 DEF CutsInto
<1>5. ASSUME NEW k \in places PROVE cut[k] = cut[k - 1] + 1
  <2>1. pattern[k] # "*" BY KindsOfCharacters
  <2>2. Piece(pattern, value, cut, k) BY <1>2 DEF CutsInto
  <2> QED BY <2>1, <2>2 DEF Piece
<1> DEFINE f == [k \in places |-> cut[k]]
<1>6. ASSUME NEW k \in places PROVE f[k] = cut[k] /\ cut[k] \in 1..n
  <2>1. k \in 0..m /\ k - 1 \in 0..m BY <1>1
  <2>2. cut[k] \in 0..n /\ cut[k - 1] \in 0..n BY <1>4, <2>1
  <2>3. cut[k] = cut[k - 1] + 1 BY <1>5
  <2> QED BY <1>1, <2>2, <2>3
<1>7. ASSUME NEW j \in places, NEW k \in places, j < k PROVE cut[j] < cut[k]
  <2>1. k - 1 \in 0..m /\ j \in 0..(k - 1) /\ j \in 0..m BY <1>1, <1>7
  <2>2. cut[j] <= cut[k - 1] BY <1>3, <2>1
  <2>3. cut[k] = cut[k - 1] + 1 BY <1>5
  <2>4. cut[j] \in 0..n /\ cut[k - 1] \in 0..n BY <1>4, <2>1
  <2> QED BY <1>1, <2>2, <2>3, <2>4
<1>8. f \in [places -> 1..n] BY <1>6
<1>9. ASSUME NEW j \in places, NEW k \in places, j # k PROVE f[j] # f[k]
  <2>1. j \in Nat /\ k \in Nat /\ cut[j] \in 1..n /\ cut[k] \in 1..n BY <1>1, <1>6
  <2>2. j < k \/ k < j BY <1>9, <2>1
  <2>3. cut[j] < cut[k] \/ cut[k] < cut[j] BY <1>7, <2>2
  <2>4. cut[j] # cut[k] BY <1>1, <2>1, <2>3
  <2> QED BY <1>6, <2>4
<1>10. f \in Injection(places, 1..n)
  <2>1. DOMAIN f = places OBVIOUS
  <2> HIDE DEF f, places
  <2> QED BY <1>8, <1>9, <2>1 DEF Injection, IsInjective
<1>11. IsFiniteSet(1..n) /\ Cardinality(1..n) = n BY <1>1, FirstNumbers
<1>12. Cardinality(places) <= Cardinality(1..n)
  <2> HIDE DEF f, places
  <2> QED BY <1>10, <1>11, FS_Injection
<1>13. Count(pattern, Letters) = Cardinality(places) BY <1>1, Zenon DEF Count
<1> QED BY <1>11, <1>12, <1>13

(* A pattern without wildcards matches only itself. *)
LEMMA PlainMatchesItself ==
    ASSUME NEW pattern \in Strings(Characters), NEW value \in Strings(Letters), Matches(pattern, value),
           \A k \in 1..Len(pattern) : pattern[k] \notin Wildcards
    PROVE  pattern = value
<1> DEFINE m == Len(pattern)
           n == Len(value)
<1>1. m \in Nat /\ n \in Nat BY StringsAre, ForwardingAssumption
<1>2. PICK cut : CutsInto(cut, pattern, value, m, n) BY MatchIsCut
<1>3. ASSUME NEW k \in 1..m PROVE cut[k] = cut[k - 1] + 1 /\ pattern[k] = value[cut[k]]
  <2>1. pattern[k] # "*" /\ pattern[k] # "?" BY DEF Wildcards
  <2>2. Piece(pattern, value, cut, k) BY <1>2 DEF CutsInto
  <2> QED BY <2>1, <2>2 DEF Piece
<1> DEFINE T == {k \in 0..m : cut[k] = k}
<1>4. 0 \in T BY <1>1, <1>2 DEF CutsInto
<1>5. ASSUME NEW k \in 0..m, k # m, k \in T PROVE k + 1 \in T
  <2>1. k + 1 \in 1..m /\ (k + 1) - 1 = k BY <1>1, <1>5
  <2>2. cut[k + 1] = cut[k] + 1 BY <1>3, <2>1
  <2> QED BY <1>5, <2>1, <2>2
<1>6. \A k \in 0..m : k \in T
  <2> HIDE DEF T
  <2> QED BY <1>1, <1>4, <1>5, UpTo
<1>7. \A k \in 0..m : cut[k] = k BY <1>6
<1>8. m = n BY <1>1, <1>2, <1>7 DEF CutsInto
<1>9. \A k \in 1..m : pattern[k] = value[k]
  <2> TAKE k \in 1..m
  <2>1. cut[k] = k BY <1>7
  <2> QED BY <1>3, <2>1
<1>10. pattern \in Seq(Characters) /\ value \in Seq(Letters) BY StringsAre
<1> HIDE DEF m, n
<1> QED BY <1>8, <1>9, <1>10 DEF m, n

(* The star that repeats the last character kept is not stored. *)
Stored(kept, ch) == IF ch = "*" /\ kept # <<>> /\ kept[Len(kept)] = "*" THEN kept ELSE Append(kept, ch)
AreKept(kept, input) == kept = [k \in 0..Len(input) |-> IF k = 0 THEN <<>> ELSE Stored(kept[k - 1], input[k])]

(* A pattern that was typed is stored as a pattern, no longer than it was typed. *)
LEMMA PatternIsString ==
    ASSUME NEW input \in Strings(Characters)
    PROVE  forwarding_pattern(input) \in Strings(Characters)
<1> DEFINE n == Len(input)
           D == Seq(Characters)
           step == [x \in (1..n) \X D |-> Stored(x[2], input[x[1]])]
           kept == CHOOSE g : AreKept(g, input)
<1>1. n \in Nat /\ n \in 1..MaxLength /\ \A k \in 1..n : input[k] \in Characters BY StringsAre, ForwardingAssumption
<1>2. ASSUME NEW s \in D, NEW k \in 1..n
      PROVE  /\ Stored(s, input[k]) \in D
             /\ Len(Stored(s, input[k])) <= Len(s) + 1 /\ Stored(s, input[k]) # <<>>
  <2>1. Append(s, input[k]) \in D /\ Len(Append(s, input[k])) = Len(s) + 1 /\ Append(s, input[k]) # <<>> BY <1>1
  <2> QED BY <2>1 DEF Stored
<1>3. <<>> \in D /\ step \in [(1..n) \X D -> D]
  <2> HIDE DEF D
  <2> QED BY <1>2 DEF D
<1>4. PICK g \in [0..n -> D] : Iterates(g, n, <<>>, step)
  <2> HIDE DEF step, D
  <2> QED BY <1>1, <1>3, IterationExists
<1>5. AreKept(g, input)
  <2>1. ASSUME NEW k \in 0..n PROVE g[k] = IF k = 0 THEN <<>> ELSE Stored(g[k - 1], input[k])
    <3>1. g[k] = IF k = 0 THEN <<>> ELSE step[<<k, g[k - 1]>>] BY <1>4 DEF Iterates
    <3>2. CASE k = 0 BY <3>1, <3>2
    <3>3. CASE k \in 1..n
      <4>1. g[k - 1] \in D /\ k # 0 BY <3>3
      <4>2. step[<<k, g[k - 1]>>] = Stored(g[k - 1], input[k])
        <5> HIDE DEF D
        <5> QED BY <3>3, <4>1
      <4> HIDE DEF step, D
      <4> QED BY <3>1, <4>1, <4>2
    <3> QED BY <3>2, <3>3
  <2>2. g = [k \in 0..n |-> g[k]] OBVIOUS
  <2> QED BY <2>1, <2>2, Zenon DEF AreKept
<1>6. AreKept(kept, input) BY <1>5, Zenon
<1>7. forwarding_pattern(input) = kept[n] BY Zenon DEF forwarding_pattern, AreKept, Stored
<1> HIDE DEF kept
<1>8. \A k \in 0..n : kept[k] = IF k = 0 THEN <<>> ELSE Stored(kept[k - 1], input[k]) BY <1>6, Zenon DEF AreKept
<1> DEFINE T == {k \in 0..n : kept[k] \in D /\ Len(kept[k]) <= k /\ (k # 0 => kept[k] # <<>>)}
<1>9. 0 \in T
  <2>1. kept[0] = <<>> /\ 0 \in 0..n BY <1>1, <1>8
  <2>2. <<>> \in D /\ Len(<<>>) = 0 OBVIOUS
  <2> HIDE DEF D
  <2> QED BY <2>1, <2>2
<1>10. ASSUME NEW k \in 0..n, k # n, k \in T PROVE k + 1 \in T
  <2>1. k + 1 \in 1..n /\ k + 1 \in 0..n /\ k + 1 # 0 /\ (k + 1) - 1 = k BY <1>1, <1>10
  <2>2. kept[k + 1] = Stored(kept[k], input[k + 1]) BY <1>8, <2>1
  <2>3. kept[k] \in D /\ Len(kept[k]) <= k BY <1>10
  <2>4. Len(kept[k]) \in Nat /\ k \in Nat BY <1>1, <2>3
  <2>5. kept[k + 1] \in D /\ Len(kept[k + 1]) <= Len(kept[k]) + 1 /\ kept[k + 1] # <<>> BY <1>2, <2>1, <2>2, <2>3
  <2>6. Len(kept[k + 1]) \in Nat BY <2>5
  <2>7. Len(kept[k + 1]) <= k + 1
    <3> HIDE DEF D
    <3> QED BY <2>3, <2>4, <2>5, <2>6
  <2> HIDE DEF D
  <2> QED BY <2>1, <2>5, <2>7
<1>11. \A k \in 0..n : k \in T
  <2> HIDE DEF T
  <2> QED BY <1>1, <1>9, <1>10, UpTo
<1>12. n \in 0..n /\ n # 0 BY <1>1, ForwardingAssumption
<1>13. kept[n] \in D /\ Len(kept[n]) <= n /\ kept[n] # <<>> BY <1>11, <1>12
<1>14. Len(kept[n]) \in 1..n BY <1>1, <1>13
<1>15. Len(kept[n]) \in 1..MaxLength BY <1>1, <1>14, ForwardingAssumption
<1> QED BY <1>7, <1>13, <1>15, SequencesAreStrings

-----------------------------------------------------------------------------
(* A rank is three counts, and ranks are ordered. *)
Ranks == Nat \X Nat \X Nat

LEMMA RanksAreCounts ==
    ASSUME NEW pattern \in Strings(Characters)
    PROVE  /\ forwarding_specificity(pattern) \in Ranks
           /\ forwarding_specificity(pattern)[1] = Count(pattern, Letters)
           /\ forwarding_specificity(pattern)[2] = Count(pattern, {"*"})
           /\ forwarding_specificity(pattern)[3] = Count(pattern, {"?"})
<1>1. Len(pattern) \in Nat BY StringsAre, ForwardingAssumption
<1>2. Count(pattern, Letters) \in Nat /\ Count(pattern, {"*"}) \in Nat /\ Count(pattern, {"?"}) \in Nat
  BY <1>1, CountsAreNumbers
<1> HIDE DEF Count
<1> QED BY <1>2 DEF forwarding_specificity, Ranks

LEMMA RankingIsAnOrder ==
    ASSUME NEW a \in Ranks, NEW b \in Ranks, NEW c \in Ranks
    PROVE  /\ ~ Outranks(a, a)
           /\ Outranks(b, a) /\ ~ Outranks(c, a) => ~ Outranks(c, b)
<1>1. /\ a[1] \in Nat /\ a[2] \in Nat /\ a[3] \in Nat /\ b[1] \in Nat /\ b[2] \in Nat /\ b[3] \in Nat
      /\ c[1] \in Nat /\ c[2] \in Nat /\ c[3] \in Nat
  BY DEF Ranks
<1>2. ~ Outranks(a, a) BY <1>1 DEF Outranks
<1>3. ASSUME Outranks(b, a), Outranks(c, b) PROVE Outranks(c, a) BY <1>1, <1>3 DEF Outranks
<1> QED BY <1>2, <1>3

(* A rule that is chosen among the first k: one of those that match, and no other outranks it. *)
RankOf(rule) == forwarding_specificity(rule.pattern)
BestOf(best, rules, recipient, k) ==
    IF \A j \in 1..k : ~ Matches(rules[j].pattern, recipient) THEN best = NoRule
    ELSE /\ \E j \in 1..k : best = rules[j] /\ Matches(rules[j].pattern, recipient)
         /\ \A j \in 1..k : Matches(rules[j].pattern, recipient) => ~ Outranks(RankOf(rules[j]), RankOf(best))

LEMMA RulesAre ==
    ASSUME NEW rules \in Seq(Rules), NEW k \in 1..Len(rules)
    PROVE  /\ rules[k] \in Rules /\ rules[k].pattern \in Strings(Characters) /\ rules[k].destination \in Mailboxes
           /\ rules[k] # NoRule /\ RankOf(rules[k]) \in Ranks
<1>1. rules[k] \in Rules OBVIOUS
<1>2. rules[k].pattern \in Strings(Characters) /\ rules[k].destination \in Mailboxes BY <1>1 DEF Rules, Characters
<1>3. rules[k].pattern # <<>>
  <2>1. Len(rules[k].pattern) \in 1..MaxLength BY <1>2, StringsAre
  <2>2. Len(<<>>) = 0 OBVIOUS
  <2> QED BY <2>1, <2>2, ForwardingAssumption
<1>4. rules[k] # NoRule BY <1>3 DEF NoRule
<1> QED BY <1>1, <1>2, <1>4, RanksAreCounts DEF RankOf

(* The choice among one rule more. *)
Chosen(best, rule, recipient) ==
    IF forwarding_matches(rule.pattern, recipient) /\ Better(rule, best) THEN rule ELSE best

LEMMA ChosenIsBest ==
    ASSUME NEW rules \in Seq(Rules), NEW recipient \in Strings(Letters), NEW k \in 0..Len(rules), k # Len(rules),
           NEW best, BestOf(best, rules, recipient, k)
    PROVE  BestOf(Chosen(best, rules[k + 1], recipient), rules, recipient, k + 1)
<1> DEFINE new == rules[k + 1]
           Fits(j) == Matches(rules[j].pattern, recipient)
<1>1. k + 1 \in 1..Len(rules) /\ 1..(k + 1) = 1..k \cup {k + 1} /\ 1..k \subseteq 1..Len(rules) OBVIOUS
<1>2. forwarding_matches(new.pattern, recipient) <=> Fits(k + 1)
  BY <1>1, RulesAre, StringsAre, MatchingIsRight
<1>3. RankOf(new) \in Ranks /\ new # NoRule BY <1>1, RulesAre
<1>4. \A j \in 1..(k + 1) : RankOf(rules[j]) \in Ranks /\ rules[j] # NoRule BY <1>1, RulesAre
<1> DEFINE next == Chosen(best, new, recipient)
<1> HIDE DEF new
<1>5. CASE ~ Fits(k + 1)
  <2>1. next = best BY <1>2, <1>5 DEF Chosen
  <2> HIDE DEF next
  <2> QED BY <1>1, <1>5, <2>1 DEF BestOf, next, new
<1>6. CASE Fits(k + 1) /\ \A j \in 1..k : ~ Fits(j)
  <2>1. best = NoRule BY <1>6, Zenon DEF BestOf
  <2>2. next = new BY <1>2, <1>6, <2>1 DEF Chosen, Better
  <2>3. ~ Outranks(RankOf(new), RankOf(new)) BY <1>3, RankingIsAnOrder
  <2> HIDE DEF next
  <2> QED BY <1>1, <1>6, <2>2, <2>3 DEF BestOf, next, new
<1>7. CASE Fits(k + 1) /\ \E j \in 1..k : Fits(j)
  <2>1. PICK i \in 1..k : best = rules[i] /\ Fits(i) BY <1>7, Zenon DEF BestOf
  <2>2. \A j \in 1..k : Fits(j) => ~ Outranks(RankOf(rules[j]), RankOf(best)) BY <1>7, Zenon DEF BestOf
  <2>3. RankOf(best) \in Ranks /\ best # NoRule BY <1>1, <1>4, <2>1
  <2>4. CASE Outranks(RankOf(new), RankOf(best))
    <3>1. next = new BY <1>2, <1>7, <2>4 DEF Chosen, Better, RankOf
    <3>2. \A j \in 1..k : Fits(j) => ~ Outranks(RankOf(rules[j]), RankOf(new))
      BY <1>1, <1>3, <1>4, <2>2, <2>3, <2>4, RankingIsAnOrder
    <3>3. ~ Outranks(RankOf(new), RankOf(new)) BY <1>3, RankingIsAnOrder
    <3> HIDE DEF next
    <3> QED BY <1>1, <1>7, <3>1, <3>2, <3>3 DEF BestOf, next, new
  <2>5. CASE ~ Outranks(RankOf(new), RankOf(best))
    <3>1. next = best BY <2>3, <2>5 DEF Chosen, Better, RankOf
    <3> HIDE DEF next
    <3> QED BY <1>1, <1>7, <2>1, <2>2, <2>5, <3>1 DEF BestOf, next, new
  <2> QED BY <2>4, <2>5
<1> QED BY <1>5, <1>6, <1>7

(* The rule that resolve_recipient selects. *)
AreChosen(best, recipient) ==
    best = [k \in 0..Len(fwRules) |-> IF k = 0 THEN NoRule ELSE Chosen(best[k - 1], fwRules[k], recipient)]

LEMMA SelectedIsBest ==
    ASSUME fwRules \in Seq(Rules), NEW recipient \in Strings(Letters)
    PROVE  BestOf(Selected(recipient), fwRules, recipient, Len(fwRules))
<1> DEFINE n == Len(fwRules)
           D == Rules \cup {NoRule}
           step == [x \in (1..n) \X D |-> Chosen(x[2], fwRules[x[1]], recipient)]
           best == CHOOSE g : AreChosen(g, recipient)
<1>1. n \in Nat /\ \A k \in 1..n : fwRules[k] \in Rules OBVIOUS
<1>2. ASSUME NEW b \in D, NEW k \in 1..n PROVE Chosen(b, fwRules[k], recipient) \in D
  BY <1>1, Zenon DEF Chosen
<1>3. NoRule \in D /\ step \in [(1..n) \X D -> D]
  <2>1. NoRule \in D OBVIOUS
  <2> HIDE DEF D
  <2> QED BY <1>2, <2>1
<1>4. PICK g \in [0..n -> D] : Iterates(g, n, NoRule, step)
  <2> HIDE DEF step, D
  <2> QED BY <1>1, <1>3, IterationExists
<1>5. AreChosen(g, recipient)
  <2>1. ASSUME NEW k \in 0..n PROVE g[k] = IF k = 0 THEN NoRule ELSE Chosen(g[k - 1], fwRules[k], recipient)
    <3>1. g[k] = IF k = 0 THEN NoRule ELSE step[<<k, g[k - 1]>>] BY <1>4 DEF Iterates
    <3>2. CASE k = 0 BY <3>1, <3>2
    <3>3. CASE k \in 1..n
      <4> HIDE DEF D
      <4>1. g[k - 1] \in D /\ k # 0 BY <3>3
      <4>2. step[<<k, g[k - 1]>>] = Chosen(g[k - 1], fwRules[k], recipient) BY <3>3, <4>1
      <4> HIDE DEF step
      <4> QED BY <3>1, <4>1, <4>2
    <3> QED BY <3>2, <3>3
  <2>2. g = [k \in 0..n |-> g[k]] OBVIOUS
  <2> QED BY <2>1, <2>2, Zenon DEF AreChosen
<1>6. AreChosen(best, recipient) BY <1>5, Zenon
<1>7. Selected(recipient) = best[n] BY Zenon DEF Selected, AreChosen, Chosen
<1> HIDE DEF best
<1>8. \A k \in 0..n : best[k] = IF k = 0 THEN NoRule ELSE Chosen(best[k - 1], fwRules[k], recipient)
  BY <1>6, Zenon DEF AreChosen
<1> DEFINE T == {k \in 0..n : BestOf(best[k], fwRules, recipient, k)}
<1>9. 0 \in T
  <2>1. best[0] = NoRule BY <1>1, <1>8
  <2> QED BY <1>1, <2>1 DEF BestOf
<1>10. ASSUME NEW k \in 0..n, k # n, k \in T PROVE k + 1 \in T
  <2>1. k + 1 \in 0..n /\ k + 1 # 0 /\ (k + 1) - 1 = k BY <1>1, <1>10
  <2>2. best[k + 1] = Chosen(best[k], fwRules[k + 1], recipient) BY <1>8, <2>1
  <2>3. BestOf(best[k], fwRules, recipient, k) BY <1>10
  <2>4. BestOf(best[k + 1], fwRules, recipient, k + 1) BY <1>10, <2>2, <2>3, ChosenIsBest
  <2> QED BY <2>1, <2>4
<1>11. \A k \in 0..n : k \in T
  <2> HIDE DEF T
  <2> QED BY <1>1, <1>9, <1>10, UpTo
<1>12. n \in 0..n BY <1>1
<1> QED BY <1>7, <1>11, <1>12

-----------------------------------------------------------------------------
(* A pattern has one rule, and each rule leads to an address that is still somebody's. *)
OneRuleEach(rules) == \A j, k \in 1..Len(rules) : rules[j].pattern = rules[k].pattern => j = k
IsHeld(accounts, u) == accounts[u] \in {"exists", "deleting"}
LeadToOwners(rules, accounts) == \A k \in 1..Len(rules) : IsHeld(accounts, rules[k].destination)
RulesFit(rules, accounts) == OneRuleEach(rules) /\ LeadToOwners(rules, accounts)

(* What RoutesFollowTheRules says of the rule of an answer, and of its destination. *)
AppliesTo(rules, recipient) == {k \in DOMAIN rules : Matches(rules[k].pattern, recipient)}
VerbatimTo(rules, recipient) == {k \in AppliesTo(rules, recipient) : rules[k].pattern = recipient}
IsRouted(rules, answer) ==
    LET applicable == AppliesTo(rules, answer.recipient)
        verbatim == VerbatimTo(rules, answer.recipient)
    IN  /\ verbatim # {} => \A k \in verbatim : answer.rule = rules[k]
        /\ verbatim = {} /\ (answer.inbox \/ applicable = {}) => answer.rule = NoRule
        /\ verbatim = {} /\ ~ answer.inbox /\ applicable # {} =>
              /\ \E k \in applicable : answer.rule = rules[k]
              /\ \A k \in applicable : ~ Outranks(RankOf(rules[k]), RankOf(answer.rule))

Reaches(accounts, answer) ==
    IF answer.rule = NoRule
    THEN IF answer.inbox THEN answer.destination = answer.recipient /\ IsHeld(accounts, answer.recipient)
         ELSE answer.destination = <<>>
    ELSE \/ answer.destination = answer.rule.destination /\ IsHeld(accounts, answer.rule.destination)
         \/ answer.destination = <<>> /\ accounts[answer.rule.destination] = "deleting"

(* A rule for the address itself is the only one that is not outranked. *)
LEMMA VerbatimIsBest ==
    ASSUME NEW rules \in Seq(Rules), OneRuleEach(rules), NEW recipient \in Strings(Letters),
           NEW best, BestOf(best, rules, recipient, Len(rules)), NEW k \in VerbatimTo(rules, recipient)
    PROVE  best = rules[k] /\ Exact(best)
<1>1. k \in 1..Len(rules) /\ Matches(rules[k].pattern, recipient) /\ rules[k].pattern = recipient
  BY DEF VerbatimTo, AppliesTo
<1>2. PICK j \in 1..Len(rules) : best = rules[j] /\ Matches(rules[j].pattern, recipient) BY <1>1, Zenon DEF BestOf
<1>3. ~ Outranks(RankOf(rules[k]), RankOf(best)) BY <1>1, Zenon DEF BestOf
<1> DEFINE p == best.pattern
           n == Len(recipient)
<1>4. p \in Strings(Characters) /\ recipient \in Strings(Characters) /\ best # NoRule
  BY <1>1, <1>2, RulesAre
<1>5. n \in Nat /\ \A i \in 1..n : recipient[i] \in Letters BY StringsAre, ForwardingAssumption
<1>6. Count(recipient, {"*"}) = 0 /\ Count(recipient, {"?"}) = 0 /\ Count(recipient, Wildcards) = 0
  <2>1. \A i \in 1..n : recipient[i] \notin {"*"} /\ recipient[i] \notin {"?"} /\ recipient[i] \notin Wildcards
    BY <1>5, KindsOfCharacters DEF Wildcards
  <2> QED BY <1>4, <2>1, CountsAreNumbers
<1>7. Count(recipient, Letters) = n
  <2>1. {i \in DOMAIN recipient : recipient[i] \in Letters} = 1..n BY <1>5, StringsAre
  <2>2. Cardinality(1..n) = n BY <1>5, FirstNumbers
  <2> QED BY <2>1, <2>2 DEF Count
<1>8. Count(p, Letters) <= n BY <1>2, <1>4, LettersFit
<1>9. Count(p, {"*"}) \in Nat /\ Count(p, {"?"}) \in Nat /\ Count(p, Letters) \in Nat
  <2>1. Len(p) \in Nat BY <1>4, StringsAre, ForwardingAssumption
  <2>2. Count(p, {"*"}) \in 0..Len(p) /\ Count(p, {"?"}) \in 0..Len(p) /\ Count(p, Letters) \in 0..Len(p)
    BY <1>4, CountsAreNumbers
  <2> QED BY <2>1, <2>2
<1>10. /\ RankOf(rules[k])[1] = n /\ RankOf(rules[k])[2] = 0 /\ RankOf(rules[k])[3] = 0
       /\ RankOf(best)[1] = Count(p, Letters) /\ RankOf(best)[2] = Count(p, {"*"})
       /\ RankOf(best)[3] = Count(p, {"?"})
  BY <1>1, <1>4, <1>6, <1>7, RanksAreCounts DEF RankOf
<1>11. Count(p, {"*"}) = 0 /\ Count(p, {"?"}) = 0
  <2> HIDE DEF p, n
  <2> QED BY <1>3, <1>5, <1>8, <1>9, <1>10 DEF Outranks
<1>12. \A i \in 1..Len(p) : p[i] \notin Wildcards
  <2>1. \A i \in 1..Len(p) : p[i] \notin {"*"} /\ p[i] \notin {"?"} BY <1>4, <1>11, CountsAreNumbers
  <2> QED BY <2>1 DEF Wildcards
<1>13. p = recipient BY <1>2, <1>4, <1>12, PlainMatchesItself
<1>14. best = rules[k] BY <1>1, <1>2, <1>13 DEF OneRuleEach
<1> QED BY <1>1, <1>4, <1>6, <1>14 DEF Exact

(* An exact rule that matches is one for the address itself. *)
LEMMA ExactIsVerbatim ==
    ASSUME NEW rules \in Seq(Rules), NEW recipient \in Strings(Letters),
           NEW best, BestOf(best, rules, recipient, Len(rules)), Exact(best)
    PROVE  VerbatimTo(rules, recipient) # {}
<1>1. best # NoRule /\ Count(best.pattern, Wildcards) = 0 BY DEF Exact
<1>2. PICK j \in 1..Len(rules) : best = rules[j] /\ Matches(rules[j].pattern, recipient) BY <1>1, Zenon DEF BestOf
<1>3. best.pattern \in Strings(Characters) BY <1>2, RulesAre
<1>4. \A i \in 1..Len(best.pattern) : best.pattern[i] \notin Wildcards BY <1>1, <1>3, CountsAreNumbers
<1>5. best.pattern = recipient BY <1>2, <1>3, <1>4, PlainMatchesItself
<1> QED BY <1>2, <1>5 DEF VerbatimTo, AppliesTo

(* The rule that resolve_recipient settles on, when inbox says whether the address has an account. *)
RuleFor(best, inbox) == IF ~ Exact(best) /\ inbox THEN NoRule ELSE best

LEMMA AnswersAreRouted ==
    ASSUME NEW rules \in Seq(Rules), OneRuleEach(rules), NEW answer, answer.recipient \in Strings(Letters),
           NEW best, BestOf(best, rules, answer.recipient, Len(rules)), answer.inbox \in BOOLEAN,
           answer.rule = RuleFor(best, answer.inbox)
    PROVE  IsRouted(rules, answer)
<1> DEFINE recipient == answer.recipient
           applicable == AppliesTo(rules, recipient)
           verbatim == VerbatimTo(rules, recipient)
<1>0. applicable = {k \in 1..Len(rules) : Matches(rules[k].pattern, recipient)} BY DEF AppliesTo
<1>2. \A k \in verbatim : best = rules[k] /\ Exact(best) BY VerbatimIsBest
<1>3. Exact(best) => verbatim # {} BY ExactIsVerbatim
<1>4. Exact(best) \/ ~ answer.inbox => answer.rule = best BY DEF RuleFor
<1>5. ~ Exact(best) /\ answer.inbox => answer.rule = NoRule BY DEF RuleFor
<1>6. applicable = {} => best = NoRule BY <1>0 DEF BestOf
<1>7. applicable # {} => /\ \E k \in applicable : best = rules[k]
                         /\ \A k \in applicable : ~ Outranks(RankOf(rules[k]), RankOf(best))
  BY <1>0 DEF BestOf
<1> HIDE DEF recipient, applicable, verbatim
<1>10. /\ verbatim # {} => \A k \in verbatim : answer.rule = rules[k]
       /\ verbatim = {} /\ (answer.inbox \/ applicable = {}) => answer.rule = NoRule
  BY <1>2, <1>3, <1>4, <1>5, <1>6
<1>11. ASSUME verbatim = {}, ~ answer.inbox, applicable # {}
       PROVE  /\ \E k \in applicable : answer.rule = rules[k]
              /\ \A k \in applicable : ~ Outranks(RankOf(rules[k]), RankOf(answer.rule))
  BY <1>4, <1>7, <1>11
<1> QED BY <1>10, <1>11, Zenon DEF IsRouted, recipient, applicable, verbatim

-----------------------------------------------------------------------------
(* Some of the rules, each of them once. *)
SomeOf(after, before) ==
    /\ after \in Seq(Rules) /\ Len(after) <= Len(before) /\ OneRuleEach(after)
    /\ \A k \in 1..Len(after) : \E j \in 1..Len(before) : after[k] = before[j]

(* A rule is removed. *)
LEMMA RemovalLeavesSome ==
    ASSUME NEW s \in Seq(Rules), OneRuleEach(s), NEW n \in 1..Len(s)
    PROVE  SomeOf(RemoveAt(s, n), s)
<1> DEFINE before == SubSeq(s, 1, n - 1)
           behind == SubSeq(s, n + 1, Len(s))
           after == before \o behind
<1>1. Len(s) \in Nat /\ n \in Nat /\ 1 <= n /\ n <= Len(s) /\ \A i \in 1..Len(s) : s[i] \in Rules OBVIOUS
<1>2. RemoveAt(s, n) = after BY Zenon DEF RemoveAt
<1>3. before \in Seq(Rules) /\ Len(before) = n - 1 /\ \A a \in 1..(n - 1) : before[a] = s[a]
  <2>1. 1 \in Int /\ n - 1 \in Int /\ \A i \in 1..(n - 1) : s[i] \in Rules BY <1>1
  <2>2. /\ before \in Seq(Rules)
        /\ Len(before) = IF 1 <= n - 1 THEN (n - 1) - 1 + 1 ELSE 0
        /\ \A i \in 1 .. (n - 1) - 1 + 1 : before[i] = s[1 + i - 1]
    BY <2>1, SubSeqProperties
  <2> HIDE DEF before
  <2> QED BY <1>1, <2>2
<1>4. behind \in Seq(Rules) /\ Len(behind) = Len(s) - n /\ \A a \in 1..(Len(s) - n) : behind[a] = s[n + a]
  <2>1. n + 1 \in Int /\ Len(s) \in Int /\ \A i \in (n + 1)..Len(s) : s[i] \in Rules BY <1>1
  <2>2. /\ behind \in Seq(Rules)
        /\ Len(behind) = IF n + 1 <= Len(s) THEN Len(s) - (n + 1) + 1 ELSE 0
        /\ \A i \in 1 .. Len(s) - (n + 1) + 1 : behind[i] = s[n + 1 + i - 1]
    BY <2>1, SubSeqProperties
  <2> HIDE DEF behind
  <2> QED BY <1>1, <2>2
<1> HIDE DEF before, behind
<1>5. /\ before \o behind \in Seq(Rules) /\ Len(before \o behind) = Len(before) + Len(behind)
      /\ \A i \in 1 .. Len(before) + Len(behind) :
            (before \o behind)[i] = IF i <= Len(before) THEN before[i] ELSE behind[i - Len(before)]
  BY <1>3, <1>4, ConcatProperties, Zenon
<1> DEFINE Place(a) == IF a < n THEN a ELSE a + 1
<1>6. ASSUME NEW a \in 1..(Len(s) - 1) PROVE after[a] = s[Place(a)] /\ Place(a) \in 1..Len(s)
  <2>1. a \in 1 .. Len(before) + Len(behind) BY <1>1, <1>3, <1>4
  <2>2. after[a] = IF a <= Len(before) THEN before[a] ELSE behind[a - Len(before)] BY <1>5, <2>1, Zenon
  <2>3. CASE a < n
    <3>1. a <= Len(before) /\ a \in 1..(n - 1) BY <1>1, <1>3, <2>3
    <3> QED BY <1>3, <2>2, <2>3, <3>1
  <2>4. CASE ~(a < n)
    <3>1. ~(a <= Len(before)) /\ a - Len(before) \in 1..(Len(s) - n) /\ n + (a - Len(before)) = a + 1
      BY <1>1, <1>3, <2>4
    <3>2. after[a] = behind[a - Len(before)]
      <4> HIDE DEF after
      <4> QED BY <2>2, <3>1
    <3>3. behind[a - Len(before)] = s[a + 1]
      <4> DEFINE b == a - Len(before)
      <4>1. behind[b] = s[n + b]
        <5> HIDE DEF b
        <5> QED BY <1>4, <3>1 DEF b
      <4> QED BY <3>1, <4>1
    <3>4. a + 1 \in 1..Len(s) BY <1>1
    <3> HIDE DEF after
    <3> QED BY <2>4, <3>2, <3>3, <3>4
  <2> QED BY <2>3, <2>4
<1>7. Len(after) = Len(s) - 1 /\ after \in Seq(Rules) BY <1>1, <1>3, <1>4, <1>5
<1> HIDE DEF after
<1>8. OneRuleEach(after)
  <2> SUFFICES ASSUME NEW a \in 1..(Len(s) - 1), NEW b \in 1..(Len(s) - 1), after[a].pattern = after[b].pattern
               PROVE  a = b
    BY <1>7, Zenon DEF OneRuleEach
  <2>1. Place(a) = Place(b)
    <3> HIDE DEF Place
    <3> QED BY <1>6 DEF OneRuleEach
  <2> QED BY <1>1, <2>1
<1>9. \A a \in 1..Len(after) : \E j \in 1..Len(s) : after[a] = s[j]
  <2> HIDE DEF Place
  <2> QED BY <1>6, <1>7
<1>10. Len(after) <= Len(s) BY <1>1, <1>7
<1> QED BY <1>2, <1>7, <1>8, <1>9, <1>10 DEF SomeOf

(* The rules that lead to an account are removed. *)
Kept(kept, rule, account) == IF rule.destination = account THEN kept ELSE Append(kept, rule)
AreLeft(kept, account) ==
    kept = [k \in 0..Len(fwRules) |-> IF k = 0 THEN <<>> ELSE Kept(kept[k - 1], fwRules[k], account)]

(* What is kept of the first k rules. *)
LeftOf(kept, rules, account, k) ==
    /\ kept \in Seq(Rules) /\ Len(kept) <= k /\ OneRuleEach(kept)
    /\ \A i \in 1..Len(kept) : kept[i].destination # account /\ \E j \in 1..k : kept[i] = rules[j]

LEMMA OneMoreIsKept ==
    ASSUME NEW rules \in Seq(Rules), OneRuleEach(rules), NEW account, NEW k \in 0..Len(rules), k # Len(rules),
           NEW kept, LeftOf(kept, rules, account, k)
    PROVE  LeftOf(Kept(kept, rules[k + 1], account), rules, account, k + 1)
<1> DEFINE rule == rules[k + 1]
<1>1. k \in Nat /\ k + 1 \in 1..Len(rules) /\ rule \in Rules /\ 1..k \subseteq 1..Len(rules) OBVIOUS
<1>2. 1..(k + 1) = 1..k \cup {k + 1} /\ k + 1 \notin 1..k BY <1>1
<1>3. kept \in Seq(Rules) /\ Len(kept) \in Nat /\ Len(kept) <= k BY DEF LeftOf
<1>4. \A i \in 1..Len(kept) : kept[i].destination # account /\ \E j \in 1..k : kept[i] = rules[j] BY DEF LeftOf
<1>5. OneRuleEach(kept) BY DEF LeftOf
<1>6. CASE rule.destination = account
  <2>1. Kept(kept, rule, account) = kept BY <1>6 DEF Kept
  <2>2. Len(kept) <= k + 1 BY <1>1, <1>3
  <2> HIDE DEF rule
  <2>3. LeftOf(kept, rules, account, k + 1) BY <1>2, <1>3, <1>4, <1>5, <2>2 DEF LeftOf
  <2> QED BY <2>1, <2>3 DEF rule
<1>7. CASE rule.destination # account
  <2> DEFINE more == Append(kept, rule)
             n == Len(kept)
  <2>1. Kept(kept, rule, account) = more BY <1>7 DEF Kept
  <2>2. /\ more \in Seq(Rules) /\ Len(more) = n + 1 /\ more[n + 1] = rule
        /\ \A i \in 1..n : more[i] = kept[i]
    BY <1>1, <1>3
  <2> HIDE DEF more
  <2>3. 1..Len(more) = 1..n \cup {n + 1} /\ Len(more) <= k + 1 /\ n + 1 \notin 1..n BY <1>1, <1>3, <2>2
  <2>4. \A i \in 1..n : more[i].pattern # rule.pattern
    <3> TAKE i \in 1..n
    <3>1. PICK j \in 1..k : kept[i] = rules[j] BY <1>4
    <3>2. j \in 1..Len(rules) /\ j # k + 1 BY <1>1, <1>2
    <3>3. rules[j].pattern # rules[k + 1].pattern BY <1>1, <3>2 DEF OneRuleEach
    <3> QED BY <2>2, <3>1, <3>3
  <2> HIDE DEF rule
  <2>5. OneRuleEach(more)
    <3> SUFFICES ASSUME NEW a \in 1..n \cup {n + 1}, NEW b \in 1..n \cup {n + 1}, more[a].pattern = more[b].pattern
                 PROVE  a = b
      BY <2>3, Zenon DEF OneRuleEach
    <3>1. CASE a = n + 1 BY <2>2, <2>4, <3>1
    <3>2. CASE b = n + 1 BY <2>2, <2>4, <3>2
    <3>3. CASE a \in 1..n /\ b \in 1..n BY <1>5, <2>2, <3>3 DEF OneRuleEach
    <3> QED BY <3>1, <3>2, <3>3
  <2>6. ASSUME NEW i \in 1..Len(more)
        PROVE  more[i].destination # account /\ \E j \in 1..(k + 1) : more[i] = rules[j]
    <3>1. CASE i = n + 1
      <4>1. more[i] = rule BY <2>2, <3>1
      <4> QED BY <1>2, <1>7, <4>1 DEF rule
    <3>2. CASE i \in 1..n
      <4>1. more[i] = kept[i] BY <2>2, <3>2
      <4> QED BY <1>2, <1>4, <3>2, <4>1
    <3> QED BY <2>3, <3>1, <3>2
  <2>7. LeftOf(more, rules, account, k + 1) BY <2>2, <2>3, <2>5, <2>6 DEF LeftOf
  <2> QED BY <2>1, <2>7 DEF rule
<1> QED BY <1>6, <1>7

LEMMA DeletionLeavesSome ==
    ASSUME fwRules \in Seq(Rules), OneRuleEach(fwRules), NEW account
    PROVE  /\ SomeOf(RulesWithout(account), fwRules)
           /\ \A k \in 1..Len(RulesWithout(account)) : RulesWithout(account)[k].destination # account
<1> DEFINE n == Len(fwRules)
           D == Seq(Rules)
           step == [x \in (1..n) \X D |-> Kept(x[2], fwRules[x[1]], account)]
           kept == CHOOSE g : AreLeft(g, account)
<1>1. n \in Nat /\ n \in 0..n /\ \A k \in 1..n : fwRules[k] \in Rules OBVIOUS
<1>2. ASSUME NEW s \in D, NEW k \in 1..n PROVE Kept(s, fwRules[k], account) \in D
  <2>1. Append(s, fwRules[k]) \in D BY <1>1
  <2> QED BY <2>1, Zenon DEF Kept
<1>3. <<>> \in D /\ step \in [(1..n) \X D -> D]
  <2>1. <<>> \in D OBVIOUS
  <2> HIDE DEF D
  <2> QED BY <1>2, <2>1
<1>4. PICK g \in [0..n -> D] : Iterates(g, n, <<>>, step)
  <2> HIDE DEF step, D
  <2> QED BY <1>1, <1>3, IterationExists
<1>5. AreLeft(g, account)
  <2>1. ASSUME NEW k \in 0..n PROVE g[k] = IF k = 0 THEN <<>> ELSE Kept(g[k - 1], fwRules[k], account)
    <3>1. g[k] = IF k = 0 THEN <<>> ELSE step[<<k, g[k - 1]>>] BY <1>4 DEF Iterates
    <3>2. CASE k = 0 BY <3>1, <3>2
    <3>3. CASE k \in 1..n
      <4> HIDE DEF D
      <4>1. g[k - 1] \in D /\ k # 0 BY <3>3
      <4>2. step[<<k, g[k - 1]>>] = Kept(g[k - 1], fwRules[k], account) BY <3>3, <4>1
      <4> HIDE DEF step
      <4> QED BY <3>1, <4>1, <4>2
    <3> QED BY <3>2, <3>3
  <2>2. g = [k \in 0..n |-> g[k]] OBVIOUS
  <2> QED BY <2>1, <2>2, Zenon DEF AreLeft
<1>6. AreLeft(kept, account) BY <1>5, Zenon
<1>7. RulesWithout(account) = kept[n] BY Zenon DEF RulesWithout, AreLeft, Kept
<1> HIDE DEF kept
<1>8. \A k \in 0..n : kept[k] = IF k = 0 THEN <<>> ELSE Kept(kept[k - 1], fwRules[k], account)
  BY <1>6, Zenon DEF AreLeft
<1> DEFINE T == {k \in 0..n : LeftOf(kept[k], fwRules, account, k)}
<1>9. 0 \in T
  <2>1. kept[0] = <<>> /\ 0 \in 0..n BY <1>1, <1>8
  <2>2. <<>> \in Seq(Rules) /\ Len(<<>>) = 0 /\ 1..0 = {} OBVIOUS
  <2>3. LeftOf(<<>>, fwRules, account, 0)
    <3>1. OneRuleEach(<<>>) BY <2>2 DEF OneRuleEach
    <3>2. \A i \in 1..Len(<<>>) :
            <<>>[i].destination # account /\ \E j \in 1..0 : <<>>[i] = fwRules[j]
      BY <2>2
    <3> QED BY <2>2, <3>1, <3>2 DEF LeftOf
  <2> QED BY <2>1, <2>3
<1>10. ASSUME NEW k \in 0..n, k # n, k \in T PROVE k + 1 \in T
  <2>1. k + 1 \in 0..n /\ k + 1 # 0 /\ (k + 1) - 1 = k BY <1>1, <1>10
  <2>2. kept[k + 1] = Kept(kept[k], fwRules[k + 1], account) BY <1>8, <2>1
  <2>3. LeftOf(kept[k], fwRules, account, k) BY <1>10
  <2>4. LeftOf(kept[k + 1], fwRules, account, k + 1) BY <1>10, <2>2, <2>3, OneMoreIsKept
  <2> QED BY <2>1, <2>4
<1>11. \A k \in 0..n : k \in T
  <2> HIDE DEF T
  <2> QED BY <1>1, <1>9, <1>10, UpTo
<1>12. LeftOf(kept[n], fwRules, account, n) BY <1>1, <1>11
<1> QED BY <1>7, <1>12 DEF LeftOf, SomeOf

-----------------------------------------------------------------------------
(* What every operation keeps: while storage asks for a destination it is that of one of the rules. *)
AnswerFits(step, rules, accounts, answer) ==
    /\ step # "idle" => IsRouted(rules, answer) /\ (answer.inbox => answer.recipient \in Mailboxes)
    /\ step = "asking" => answer.rule # NoRule /\ IsHeld(accounts, answer.rule.destination)
    /\ step = "answered" => Reaches(accounts, answer)
ForwardingInvariant ==
    ForwardingTypeOK /\ RulesFit(fwRules, fwAccount) /\ AnswerFits(fwStep, fwRules, fwAccount, fwAnswer)

AnswerRecord == [recipient : Strings(Letters) \cup {<<>>}, inbox : BOOLEAN,
                 destination : Mailboxes \cup {<<>>}, rule : Rules \cup {NoRule}]

LEMMA ForwardingInvariantInit == ForwardingInit => ForwardingInvariant
<1> SUFFICES ASSUME ForwardingInit PROVE ForwardingInvariant
  OBVIOUS
<1>1. fwRules = <<>> /\ Len(fwRules) = 0 /\ fwRules \in Seq(Rules) BY DEF ForwardingInit
<1>2. fwAccount \in [Mailboxes -> AddressStates] /\ fwStep = "idle" /\ fwAnswer = NoAnswer
  BY DEF ForwardingInit, AddressStates
<1>3. NoAnswer \in AnswerRecord BY DEF NoAnswer, AnswerRecord
<1>4. ForwardingTypeOK BY <1>1, <1>2, <1>3, ForwardingAssumption DEF ForwardingTypeOK, AnswerRecord
<1>5. RulesFit(fwRules, fwAccount)
  <2>1. 1..Len(fwRules) = {} BY <1>1
  <2> QED BY <2>1 DEF RulesFit, OneRuleEach, LeadToOwners
<1> QED BY <1>2, <1>4, <1>5 DEF ForwardingInvariant, AnswerFits

(* While no request is being answered, the rules and accounts may change. *)
LEMMA ChangedRulesFit ==
    ASSUME ForwardingInvariant, fwStep = "idle", UNCHANGED <<fwStep, fwAnswer>>, fwRules' \in Seq(Rules),
           Len(fwRules') <= MaxRules, fwAccount' \in [Mailboxes -> AddressStates], RulesFit(fwRules', fwAccount')
    PROVE  ForwardingInvariant'
<1>1. fwAnswer' \in AnswerRecord /\ fwStep' = "idle" BY DEF ForwardingInvariant, ForwardingTypeOK, AnswerRecord
<1>2. ForwardingTypeOK' BY <1>1 DEF ForwardingTypeOK, AnswerRecord
<1>3. AnswerFits(fwStep', fwRules', fwAccount', fwAnswer') BY <1>1 DEF AnswerFits
<1> QED BY <1>2, <1>3 DEF ForwardingInvariant

(* A rule is added for a pattern that had none, to an account that exists. *)
LEMMA CreateRuleKeeps == ForwardingInvariant /\ fwStep = "idle" /\ CreateRule => ForwardingInvariant'
<1> SUFFICES ASSUME ForwardingInvariant, fwStep = "idle", CreateRule PROVE ForwardingInvariant'
  OBVIOUS
<1>1. PICK input \in Strings(PatternLetters \cup Wildcards), destination \in Exist \cap ForwardTargets :
        /\ \A k \in DOMAIN fwRules : fwRules[k].pattern # forwarding_pattern(input)
        /\ Len(fwRules) < MaxRules
        /\ fwRules' = Append(fwRules, [pattern |-> forwarding_pattern(input), destination |-> destination])
        /\ UNCHANGED <<fwAccount, fwStep, fwAnswer>>
  BY Zenon DEF CreateRule
<1> DEFINE p == forwarding_pattern(input)
           rule == [pattern |-> p, destination |-> destination]
           n == Len(fwRules)
<1>2. p \in Strings(Characters) BY PatternIsString DEF Characters
<1>3. /\ fwRules \in Seq(Rules) /\ fwAccount \in [Mailboxes -> AddressStates] /\ OneRuleEach(fwRules)
      /\ LeadToOwners(fwRules, fwAccount)
  BY DEF ForwardingInvariant, ForwardingTypeOK, RulesFit
<1>4. /\ fwRules' = Append(fwRules, rule) /\ fwAccount' = fwAccount /\ UNCHANGED <<fwStep, fwAnswer>>
      /\ \A k \in 1..n : fwRules[k].pattern # p
  BY <1>1, <1>3
<1>5. n \in Nat /\ n < MaxRules BY <1>1, <1>3
<1> HIDE DEF p
<1>6. rule \in Rules /\ rule.pattern = p /\ IsHeld(fwAccount, rule.destination)
  BY <1>2, <1>3 DEF Rules, Characters, Exist, IsHeld
<1> HIDE DEF rule
<1>7. /\ fwRules' \in Seq(Rules) /\ Len(fwRules') = n + 1 /\ fwRules'[n + 1] = rule
      /\ \A k \in 1..n : fwRules'[k] = fwRules[k]
  BY <1>3, <1>4, <1>6
<1>8. 1..Len(fwRules') = 1..n \cup {n + 1} /\ Len(fwRules') <= MaxRules BY <1>5, <1>7, ForwardingAssumption
<1>9. OneRuleEach(fwRules')
  <2> SUFFICES ASSUME NEW a \in 1..n \cup {n + 1}, NEW b \in 1..n \cup {n + 1},
                      fwRules'[a].pattern = fwRules'[b].pattern
               PROVE  a = b
    BY <1>8, Zenon DEF OneRuleEach
  <2>1. CASE a \in 1..n /\ b \in 1..n
    <3>1. fwRules[a].pattern = fwRules[b].pattern BY <1>7, <2>1
    <3> QED BY <1>3, <2>1, <3>1, Zenon DEF OneRuleEach
  <2>2. CASE a \in 1..n /\ b = n + 1 BY <1>4, <1>6, <1>7, <2>2
  <2>3. CASE a = n + 1 /\ b \in 1..n BY <1>4, <1>6, <1>7, <2>3
  <2> QED BY <2>1, <2>2, <2>3
<1>10. LeadToOwners(fwRules', fwAccount')
  <2> SUFFICES ASSUME NEW a \in 1..n \cup {n + 1} PROVE IsHeld(fwAccount, fwRules'[a].destination)
    BY <1>4, <1>8, Zenon DEF LeadToOwners
  <2>1. CASE a \in 1..n BY <1>3, <1>7, <2>1 DEF LeadToOwners
  <2>2. CASE a = n + 1 BY <1>6, <1>7, <2>2
  <2> QED BY <2>1, <2>2
<1>11. RulesFit(fwRules', fwAccount') BY <1>9, <1>10 DEF RulesFit
<1>12. fwAccount' \in [Mailboxes -> AddressStates] BY <1>3, <1>4
<1> QED BY <1>4, <1>7, <1>8, <1>11, <1>12, ChangedRulesFit

(* Some of the rules still fit when the addresses they lead to stay somebody's. *)
LEMMA SomeStillFit ==
    ASSUME ForwardingInvariant, fwStep = "idle", UNCHANGED <<fwStep, fwAnswer>>, SomeOf(fwRules', fwRules),
           fwAccount' \in [Mailboxes -> AddressStates],
           \A k \in 1..Len(fwRules') :
              LET u == fwRules'[k].destination IN fwAccount'[u] = fwAccount[u]
    PROVE  ForwardingInvariant'
<1>1. fwRules \in Seq(Rules) /\ Len(fwRules) <= MaxRules /\ LeadToOwners(fwRules, fwAccount)
  BY DEF ForwardingInvariant, ForwardingTypeOK, RulesFit
<1>2. fwRules' \in Seq(Rules) /\ Len(fwRules') <= Len(fwRules) /\ OneRuleEach(fwRules') BY DEF SomeOf
<1>3. Len(fwRules') <= MaxRules
  <2>1. Len(fwRules') \in Nat /\ Len(fwRules) \in Nat BY <1>1, <1>2
  <2> QED BY <1>1, <1>2, <2>1, ForwardingAssumption
<1>4. LeadToOwners(fwRules', fwAccount')
  <2> SUFFICES ASSUME NEW k \in 1..Len(fwRules') PROVE IsHeld(fwAccount', fwRules'[k].destination)
    BY DEF LeadToOwners
  <2>1. PICK j \in 1..Len(fwRules) : fwRules'[k] = fwRules[j] BY DEF SomeOf
  <2>2. IsHeld(fwAccount, fwRules'[k].destination) BY <1>1, <2>1 DEF LeadToOwners
  <2> QED BY <2>2 DEF IsHeld
<1>5. RulesFit(fwRules', fwAccount') BY <1>2, <1>4 DEF RulesFit
<1> QED BY <1>2, <1>3, <1>5, ChangedRulesFit

LEMMA DeleteRuleKeeps == ForwardingInvariant /\ fwStep = "idle" /\ DeleteRule => ForwardingInvariant'
<1> SUFFICES ASSUME ForwardingInvariant, fwStep = "idle", DeleteRule PROVE ForwardingInvariant'
  OBVIOUS
<1>1. fwRules \in Seq(Rules) /\ OneRuleEach(fwRules) /\ fwAccount \in [Mailboxes -> AddressStates]
  BY DEF ForwardingInvariant, ForwardingTypeOK, RulesFit
<1>2. PICK k \in DOMAIN fwRules : fwRules' = RemoveAt(fwRules, k) /\ UNCHANGED <<fwAccount, fwStep, fwAnswer>>
  BY Zenon DEF DeleteRule
<1>3. k \in 1..Len(fwRules) BY <1>1
<1>4. SomeOf(fwRules', fwRules) BY <1>1, <1>2, <1>3, RemovalLeavesSome
<1>5. fwAccount' = fwAccount /\ fwAccount' \in [Mailboxes -> AddressStates] BY <1>1, <1>2
<1> QED BY <1>2, <1>4, <1>5, SomeStillFit

(* The address of the cleaned mailbox has no rule left; nothing becomes of the others. *)
LEMMA DeleteMailboxKeeps == ForwardingInvariant /\ fwStep = "idle" /\ DeleteMailbox => ForwardingInvariant'
<1> SUFFICES ASSUME ForwardingInvariant, fwStep = "idle", DeleteMailbox PROVE ForwardingInvariant'
  OBVIOUS
<1>1. fwRules \in Seq(Rules) /\ OneRuleEach(fwRules) /\ fwAccount \in [Mailboxes -> AddressStates]
  BY DEF ForwardingInvariant, ForwardingTypeOK, RulesFit
<1>2. PICK account \in Mailboxes \ Exist :
        /\ fwRules' = RulesWithout(account)
        /\ fwAccount' = [fwAccount EXCEPT ![account] = IF @ = "deleting" THEN "cleaned" ELSE @]
        /\ UNCHANGED <<fwStep, fwAnswer>>
  BY Zenon DEF DeleteMailbox
<1>3. SomeOf(fwRules', fwRules) /\ \A k \in 1..Len(fwRules') : fwRules'[k].destination # account
  BY <1>1, <1>2, DeletionLeavesSome
<1>4. fwAccount' \in [Mailboxes -> AddressStates] BY <1>1, <1>2 DEF AddressStates
<1>5. \A u : u # account => fwAccount'[u] = fwAccount[u]
  <2> SUFFICES ASSUME NEW u, u # account PROVE fwAccount'[u] = fwAccount[u]
    OBVIOUS
  <2>1. CASE u \in Mailboxes BY <1>1, <1>2, <2>1
  <2>2. CASE u \notin Mailboxes BY <1>1, <1>2, <2>2
  <2> QED BY <2>1, <2>2
<1>6. \A k \in 1..Len(fwRules') :
        LET u == fwRules'[k].destination IN fwAccount'[u] = fwAccount[u]
  BY <1>3, <1>5
<1> QED BY <1>2, <1>3, <1>4, <1>6, SomeStillFit

(* The rule is settled with the first question, and the own inbox is an answer. *)
LEMMA ResolveKeeps == ForwardingInvariant /\ fwStep = "idle" /\ resolve_recipient => ForwardingInvariant'
<1> SUFFICES ASSUME ForwardingInvariant, fwStep = "idle", resolve_recipient PROVE ForwardingInvariant'
  OBVIOUS
<1>1. /\ fwRules \in Seq(Rules) /\ Len(fwRules) <= MaxRules /\ fwAccount \in [Mailboxes -> AddressStates]
      /\ OneRuleEach(fwRules) /\ RulesFit(fwRules, fwAccount) /\ LeadToOwners(fwRules, fwAccount)
  BY DEF ForwardingInvariant, ForwardingTypeOK, RulesFit
<1>2. fwRules' = fwRules /\ fwAccount' = fwAccount BY DEF resolve_recipient
<1>3. PICK recipient \in Strings(Letters) :
        LET rule == Selected(recipient)
            own == ~Exact(rule) /\ recipient \in Exist
        IN  /\ fwAnswer' = [recipient |-> recipient, inbox |-> recipient \in Exist,
                            destination |-> IF own THEN recipient ELSE <<>>, rule |-> IF own THEN NoRule ELSE rule]
            /\ fwStep' = IF own \/ rule = NoRule THEN "answered" ELSE "asking"
  BY Zenon DEF resolve_recipient
<1> DEFINE best == Selected(recipient)
           own == ~Exact(best) /\ recipient \in Exist
<1>4. BestOf(best, fwRules, recipient, Len(fwRules)) BY <1>1, SelectedIsBest
<1>5. /\ fwAnswer' = [recipient |-> recipient, inbox |-> recipient \in Exist,
                      destination |-> IF own THEN recipient ELSE <<>>, rule |-> IF own THEN NoRule ELSE best]
      /\ fwStep' = IF own \/ best = NoRule THEN "answered" ELSE "asking"
  BY <1>3, Zenon
<1> HIDE DEF best
<1>6. /\ fwAnswer'.recipient = recipient /\ fwAnswer'.inbox = (recipient \in Exist)
      /\ fwAnswer'.destination = (IF own THEN recipient ELSE <<>>) /\ fwAnswer'.rule = RuleFor(best, fwAnswer'.inbox)
  BY <1>5 DEF RuleFor
<1>7. fwAnswer'.inbox \in BOOLEAN BY <1>6
<1>8. IsRouted(fwRules, fwAnswer')
  BY <1>1, <1>4, <1>6, <1>7, AnswersAreRouted
<1>9. best = NoRule \/ (\E j \in 1..Len(fwRules) : best = fwRules[j]) BY <1>4, Zenon DEF BestOf
<1>10. best \in Rules \cup {NoRule} BY <1>1, <1>9
<1>11. best # NoRule => IsHeld(fwAccount, best.destination) BY <1>1, <1>9 DEF LeadToOwners
<1>12. recipient \in Exist => recipient \in Mailboxes /\ IsHeld(fwAccount, recipient) BY DEF Exist, IsHeld
<1>13. fwAnswer' \in AnswerRecord
  <2>1. CASE own BY <1>5, <1>12, <2>1 DEF AnswerRecord
  <2>2. CASE ~own
    <3>1. fwAnswer' = [recipient |-> recipient, inbox |-> recipient \in Exist, destination |-> <<>>, rule |-> best]
      BY <1>5, <2>2
    <3> QED BY <1>10, <3>1 DEF AnswerRecord
  <2> QED BY <2>1, <2>2
<1>14. ~Exact(NoRule) BY DEF Exact
<1>15. AnswerFits(fwStep', fwRules, fwAccount, fwAnswer')
  <2>1. CASE own
    <3>1. fwStep' = "answered" /\ fwAnswer'.rule = NoRule /\ fwAnswer'.inbox /\ fwAnswer'.destination = recipient
      BY <1>5, <1>6, <2>1 DEF RuleFor
    <3>2. Reaches(fwAccount, fwAnswer') BY <1>6, <1>12, <2>1, <3>1 DEF Reaches
    <3> QED BY <1>6, <1>8, <1>12, <3>1, <3>2 DEF AnswerFits
  <2>2. CASE ~own /\ best = NoRule
    <3>1. fwStep' = "answered" /\ fwAnswer'.rule = NoRule /\ ~fwAnswer'.inbox /\ fwAnswer'.destination = <<>>
      BY <1>5, <1>6, <1>14, <2>2
    <3>2. Reaches(fwAccount, fwAnswer') BY <3>1 DEF Reaches
    <3> QED BY <1>8, <3>1, <3>2 DEF AnswerFits
  <2>3. CASE ~own /\ best # NoRule
    <3>1. fwStep' = "asking" /\ fwAnswer'.rule = best BY <1>5, <2>3
    <3> QED BY <1>6, <1>8, <1>11, <1>12, <2>3, <3>1 DEF AnswerFits
  <2> QED BY <2>1, <2>2, <2>3
<1>16. ForwardingTypeOK'
  <2>1. fwStep' \in {"idle", "asking", "answered"} BY <1>5
  <2> QED BY <1>1, <1>2, <1>13, <2>1 DEF ForwardingTypeOK, AnswerRecord
<1>17. RulesFit(fwRules', fwAccount') /\ AnswerFits(fwStep', fwRules', fwAccount', fwAnswer')
  BY <1>1, <1>2, <1>15
<1> QED BY <1>16, <1>17 DEF ForwardingInvariant

(* The destination is an account, or one that is being deleted: its rule is still there. *)
LEMMA AskDestinationKeeps == ForwardingInvariant /\ AskDestination => ForwardingInvariant'
<1> SUFFICES ASSUME ForwardingInvariant, AskDestination PROVE ForwardingInvariant'
  OBVIOUS
<1> DEFINE u == fwAnswer.rule.destination
<1>1. /\ fwStep = "asking" /\ fwStep' = "answered" /\ fwRules' = fwRules /\ fwAccount' = fwAccount
      /\ fwAnswer' = [fwAnswer EXCEPT !.destination = IF u \in Exist THEN u ELSE <<>>]
  BY DEF AskDestination
<1>2. fwAnswer \in AnswerRecord BY DEF ForwardingInvariant, ForwardingTypeOK, AnswerRecord
<1>3. IsRouted(fwRules, fwAnswer) /\ (fwAnswer.inbox => fwAnswer.recipient \in Mailboxes)
      /\ fwAnswer.rule # NoRule /\ IsHeld(fwAccount, u)
  BY <1>1 DEF ForwardingInvariant, AnswerFits
<1>4. fwAnswer.rule \in Rules BY <1>2, <1>3 DEF AnswerRecord
<1>5. u \in Mailboxes BY <1>4 DEF Rules
<1> HIDE DEF u
<1>6. /\ fwAnswer' \in AnswerRecord /\ fwAnswer'.recipient = fwAnswer.recipient /\ fwAnswer'.inbox = fwAnswer.inbox
      /\ fwAnswer'.rule = fwAnswer.rule /\ fwAnswer'.destination = (IF u \in Exist THEN u ELSE <<>>)
  BY <1>1, <1>2, <1>5 DEF AnswerRecord
<1>7. IsRouted(fwRules, fwAnswer') BY <1>3, <1>6, Zenon DEF IsRouted
<1>8. Reaches(fwAccount, fwAnswer')
  <2>1. u \in Exist \/ fwAccount[u] = "deleting" BY <1>3, <1>5 DEF IsHeld, Exist
  <2> QED BY <1>3, <1>6, <2>1 DEF Reaches, u
<1>9. AnswerFits(fwStep', fwRules', fwAccount', fwAnswer') BY <1>1, <1>3, <1>6, <1>7, <1>8 DEF AnswerFits
<1>10. ForwardingTypeOK' /\ RulesFit(fwRules', fwAccount')
  BY <1>1, <1>6 DEF ForwardingInvariant, ForwardingTypeOK, AnswerRecord
<1> QED BY <1>9, <1>10 DEF ForwardingInvariant

LEMMA AnswerGivenKeeps == ForwardingInvariant /\ AnswerGiven => ForwardingInvariant'
<1> SUFFICES ASSUME ForwardingInvariant, AnswerGiven PROVE ForwardingInvariant'
  OBVIOUS
<1>1. fwStep' = "idle" /\ fwAnswer' = NoAnswer /\ fwRules' = fwRules /\ fwAccount' = fwAccount BY DEF AnswerGiven
<1>2. NoAnswer \in AnswerRecord BY DEF NoAnswer, AnswerRecord
<1>3. ForwardingTypeOK' BY <1>1, <1>2 DEF ForwardingInvariant, ForwardingTypeOK, AnswerRecord
<1> QED BY <1>1, <1>3 DEF ForwardingInvariant, AnswerFits

(* Auth never takes an address from its owner: only the cleanup ends a deletion. *)
LEMMA AccountsTurn ==
    ASSUME ForwardingInvariant, DisableAccount \/ FinishDeletion \/ CreateAccount
    PROVE  ForwardingInvariant'
<1>1. PICK u \in Mailboxes, from \in AddressStates, to \in AddressStates :
        Turns(u, from, to) /\ <<from, to>> \in {<<"exists", "deleting">>, <<"cleaned", "free">>, <<"free", "exists">>}
  BY DEF DisableAccount, FinishDeletion, CreateAccount, AddressStates
<1>2. /\ fwAccount[u] = from /\ fwAccount' = [fwAccount EXCEPT ![u] = to]
      /\ fwRules' = fwRules /\ fwStep' = fwStep /\ fwAnswer' = fwAnswer
  BY <1>1 DEF Turns
<1>3. fwAccount \in [Mailboxes -> AddressStates] BY DEF ForwardingInvariant, ForwardingTypeOK
<1>4. fwAccount' \in [Mailboxes -> AddressStates] BY <1>2, <1>3
<1>5. ASSUME NEW m \in Mailboxes
      PROVE  /\ IsHeld(fwAccount, m) => IsHeld(fwAccount', m)
             /\ fwAccount[m] = "deleting" => fwAccount'[m] = "deleting"
  BY <1>1, <1>2, <1>3 DEF IsHeld
<1>6. fwRules \in Seq(Rules) /\ OneRuleEach(fwRules) /\ LeadToOwners(fwRules, fwAccount)
  BY DEF ForwardingInvariant, ForwardingTypeOK, RulesFit
<1>7. LeadToOwners(fwRules', fwAccount')
  <2> SUFFICES ASSUME NEW k \in 1..Len(fwRules) PROVE IsHeld(fwAccount', fwRules[k].destination)
    BY <1>2, Zenon DEF LeadToOwners
  <2>1. fwRules[k].destination \in Mailboxes
    <3>1. fwRules[k] \in Rules BY <1>6
    <3> QED BY <3>1 DEF Rules
  <2> QED BY <1>5, <1>6, <2>1 DEF LeadToOwners
<1>8. fwAnswer \in AnswerRecord BY DEF ForwardingInvariant, ForwardingTypeOK, AnswerRecord
<1>9. fwAnswer.rule # NoRule => fwAnswer.rule.destination \in Mailboxes
  <2>1. fwAnswer.rule # NoRule => fwAnswer.rule \in Rules BY <1>8 DEF AnswerRecord
  <2> QED BY <2>1 DEF Rules
<1>10. AnswerFits(fwStep, fwRules, fwAccount, fwAnswer) BY DEF ForwardingInvariant
<1>11. fwStep = "asking" => IsHeld(fwAccount', fwAnswer.rule.destination) BY <1>5, <1>9, <1>10 DEF AnswerFits
<1>12. ASSUME fwStep = "answered" PROVE Reaches(fwAccount', fwAnswer)
  <2>1. Reaches(fwAccount, fwAnswer) /\ (fwAnswer.inbox => fwAnswer.recipient \in Mailboxes)
    BY <1>10, <1>12 DEF AnswerFits
  <2> QED BY <1>5, <1>9, <2>1 DEF Reaches
<1>13. AnswerFits(fwStep', fwRules', fwAccount', fwAnswer') BY <1>2, <1>10, <1>11, <1>12 DEF AnswerFits
<1>14. RulesFit(fwRules', fwAccount') BY <1>2, <1>6, <1>7 DEF RulesFit
<1>15. ForwardingTypeOK' BY <1>2, <1>4 DEF ForwardingInvariant, ForwardingTypeOK
<1> QED BY <1>13, <1>14, <1>15 DEF ForwardingInvariant

LEMMA ForwardingKeeps == ForwardingInvariant /\ [ForwardingNext]_fwVars => ForwardingInvariant'
<1> SUFFICES ASSUME ForwardingInvariant, [ForwardingNext]_fwVars PROVE ForwardingInvariant'
  OBVIOUS
<1>1. CASE UNCHANGED fwVars
  BY <1>1 DEF fwVars, ForwardingInvariant, ForwardingTypeOK
<1>2. CASE ForwardingNext
  BY <1>2, CreateRuleKeeps, DeleteRuleKeeps, DeleteMailboxKeeps, ResolveKeeps, AskDestinationKeeps, AnswerGivenKeeps,
     AccountsTurn, Zenon
  DEF ForwardingNext
<1> QED BY <1>1, <1>2

(* The invariant states the property in other words. *)
LEMMA RoutedAnswersFollow == ForwardingInvariant => RoutesFollowTheRules
<1> SUFFICES ASSUME ForwardingInvariant PROVE RoutesFollowTheRules
  OBVIOUS
<1>1. \A k \in DOMAIN fwRules : Owned(fwRules[k].destination)
  <2>1. fwRules \in Seq(Rules) /\ LeadToOwners(fwRules, fwAccount)
    BY DEF ForwardingInvariant, ForwardingTypeOK, RulesFit
  <2>2. DOMAIN fwRules = 1..Len(fwRules) BY <2>1
  <2> QED BY <2>1, <2>2 DEF LeadToOwners, Owned, IsHeld
<1>2. ASSUME fwStep = "answered" PROVE RuleIsChosen
  <2> DEFINE recipient == fwAnswer.recipient
  <2>1. Applicable = AppliesTo(fwRules, recipient) BY DEF Applicable, AppliesTo
  <2>2. Verbatim = VerbatimTo(fwRules, recipient) BY <2>1, Zenon DEF Verbatim, VerbatimTo
  <2>3. /\ Verbatim # {} => \A k \in Verbatim : fwAnswer.rule = fwRules[k]
        /\ Verbatim = {} /\ (fwAnswer.inbox \/ Applicable = {}) => fwAnswer.rule = NoRule
        /\ Verbatim = {} /\ ~ fwAnswer.inbox /\ Applicable # {} =>
             /\ \E k \in Applicable : fwAnswer.rule = fwRules[k]
             /\ \A k \in Applicable : ~ Outranks(RankOf(fwRules[k]), RankOf(fwAnswer.rule))
    <3>1. fwStep # "idle" BY <1>2
    <3>2. IsRouted(fwRules, fwAnswer) BY <3>1, Zenon DEF ForwardingInvariant, AnswerFits
    <3> QED BY <2>1, <2>2, <3>2, Zenon DEF IsRouted
  <2>4. \A k \in Applicable : Outranks(RankOf(fwRules[k]), RankOf(fwAnswer.rule)) <=>
            Outranks(forwarding_specificity(fwRules[k].pattern), forwarding_specificity(fwAnswer.rule.pattern))
    BY DEF RankOf
  <2>5. CASE Verbatim # {} BY <2>3, <2>5 DEF RuleIsChosen
  <2>6. CASE Verbatim = {} /\ (fwAnswer.inbox \/ Applicable = {}) BY <2>3, <2>6 DEF RuleIsChosen
  <2>7. CASE Verbatim = {} /\ ~ (fwAnswer.inbox \/ Applicable = {}) BY <2>3, <2>4, <2>7 DEF RuleIsChosen
  <2> QED BY <2>5, <2>6, <2>7
<1>3. ASSUME fwStep = "answered" PROVE DestinationIsOwned
  <2>1. Reaches(fwAccount, fwAnswer) BY <1>3 DEF ForwardingInvariant, AnswerFits
  <2> QED BY <2>1 DEF Reaches, DestinationIsOwned, Owned, IsHeld
<1> QED BY <1>1, <1>2, <1>3 DEF RoutesFollowTheRules

(* Whatever rules there are and whenever accounts are deleted, cleaned up and registered again: mail   *)
(* for an address goes where its own exact rule says, then to its own inbox, and only then where the   *)
(* most specific wildcard leads (resolve_recipient); the dynamic programme of forwarding_matches        *)
(* decides which rules apply, of any lengths up to the limit.  Mail reaches the owner of an address or   *)
(* nobody, and no rule leads to an address once it was cleaned up (delete_mailbox).                     *)
THEOREM RoutesAreRight == ForwardingSpec => []RoutesFollowTheRules
<1>1. ForwardingInit => ForwardingInvariant BY ForwardingInvariantInit
<1>2. ForwardingInvariant /\ [ForwardingNext]_fwVars => ForwardingInvariant' BY ForwardingKeeps
<1>3. ForwardingInvariant => RoutesFollowTheRules BY RoutedAnswersFollow
<1> QED BY <1>1, <1>2, <1>3, PTL DEF ForwardingSpec

(* The rules, the accounts and the answer keep their types. *)
THEOREM ForwardingTypes == ForwardingSpec => []ForwardingTypeOK
<1>1. ForwardingInit => ForwardingInvariant BY ForwardingInvariantInit
<1>2. ForwardingInvariant /\ [ForwardingNext]_fwVars => ForwardingInvariant' BY ForwardingKeeps
<1>3. ForwardingInvariant => ForwardingTypeOK BY DEF ForwardingInvariant
<1> QED BY <1>1, <1>2, <1>3, PTL DEF ForwardingSpec

-----------------------------------------------------------------------------
(*****************************************************************************)
(* A log with any number of writers, files and entries, read page after      *)
(* page: a position in a file stands for its first entries, the cursor's     *)
(* positions are in different files, and what they stand for with what was   *)
(* returned is what there was when the reading began.                        *)
(*****************************************************************************)

(* The entries that a position still has before it. *)
Covers(pos, times) == IF pos.file = 0 THEN {} ELSE Earliest(times[pos.file], pos.left)

(* The files under their names. *)
TimesFit(times, clock) ==
    /\ \A f \in Files : times[f] \subseteq 1..clock /\ Cardinality(times[f]) <= Capacity
    /\ \A f \in Files : f > clock => times[f] = {}
    /\ \A f, g \in Files : f # g => times[f] \cap times[g] = {}
PartsApart(part) == \A p, q \in Parts : part[p] # 0 /\ part[p] = part[q] => p = q
PartsFit(part, clock) == PartsApart(part) /\ \A p \in Parts : part[p] <= clock

(* One process works, and has looked at the file that it will append to. *)
LoggersFit ==
    /\ \E w : lgLock \subseteq {w}
    /\ \A w \in Loggers : lgAt[w].at # "idle" => w \in lgLock /\ lgClock < MaxEntries
    /\ \A w \in Loggers : lgAt[w].at = "append" /\ lgPart[0] # 0 => Cardinality(lgTimes[lgPart[0]]) < Capacity

(* A position was taken in a file that has as many entries. *)
PositionFits(pos, times, clock) ==
    pos = Unopened \/ (pos.file \in 1..clock /\ pos.left <= Cardinality(times[pos.file]))
PositionsFit(positionsOf, times, clock) == \A p \in Parts : PositionFits(positionsOf[p], times, clock)

ApartFrom(positionsOf, named) == \A p, q \in named : positionsOf[p].file = positionsOf[q].file => p = q
OpenParts(readers) == {p \in Parts : readers[p].file # 0}

(* What has been returned is behind the cursor. *)
ReadFits(cursor, times, read) ==
    \A e \in Entries : read[e] <= 1 /\ \A p \in Parts : e \in Covers(cursor[p], times) => read[e] = 0

(* Without a race, the files opened so far are still where they were found. *)
OpenedInPlace(scan, readers, part) ==
    scan \in Parts => \A p \in Parts : p < scan /\ readers[p].file # 0 => readers[p].file = part[p]
NotYetOpened(scan, readers) == scan \in Parts => \A p \in Parts : p >= scan => readers[p] = Unopened

(* The next pages of a reading go on where the cursor stands. *)
FollowsCursor(readers, cursor, named) ==
    \A p \in Parts : readers[p].file # 0 => \E q \in named : readers[p] = cursor[q]

(* The first page of a reading finds all there is. *)
FindsAll(scan, readers, part, times, wanted) ==
    \A e \in wanted : \E p \in Parts :
        \/ e \in Covers(readers[p], times)
        \/ scan \in Parts /\ p >= scan /\ part[p] # 0 /\ e \in times[part[p]]
NothingMissed(cursor, times, read, wanted) ==
    \A e \in wanted : read[e] = 1 \/ \E p \in Parts : e \in Covers(cursor[p], times)

ReadingFits ==
    /\ ApartFrom(lgCursor, positions)
    /\ ReadFits(lgCursor, lgTimes, lgRead)
    /\ OpenedInPlace(lgScan, lgReaders, lgPart)
    /\ lgScan # Idle => ApartFrom(lgReaders, OpenParts(lgReaders))
    /\ lgScan # Idle /\ Continued => FollowsCursor(lgReaders, lgCursor, positions)
    /\ lgScan # Idle /\ ~Continued =>
          /\ \A e \in Entries : lgRead[e] = 0
          /\ ~lgTold
          /\ lgScan # 0 => FindsAll(lgScan, lgReaders, lgPart, lgTimes, lgWanted)
    /\ (lgScan = Idle \/ Continued) /\ ~lgTold => NothingMissed(lgCursor, lgTimes, lgRead, lgWanted)

FileState == TimesFit(lgTimes, lgClock) /\ PartsFit(lgPart, lgClock) /\ LoggersFit
LogInvariant ==
    /\ LogTypeOK /\ FileState
    /\ PositionsFit(lgReaders, lgTimes, lgClock) /\ PositionsFit(lgCursor, lgTimes, lgClock)
    /\ NotYetOpened(lgScan, lgReaders)
    /\ ~lgRaced => ReadingFits

-----------------------------------------------------------------------------
(* Sets of numbers: the first n of them. *)
DownIn(part, times) == part \subseteq times /\ \A t \in part, u \in times : u < t => u \in part

LEMMA PartsAreFinite ==
    ASSUME NEW times, IsFiniteSet(times), NEW part, part \subseteq times
    PROVE  IsFiniteSet(part) /\ Cardinality(part) \in Nat /\ Cardinality(part) <= Cardinality(times)
<1>1. part \in SUBSET times OBVIOUS
<1>2. IsFiniteSet(part) /\ Cardinality(part) <= Cardinality(times) BY <1>1, FS_Subset
<1> QED BY <1>2, FS_CardinalityType

(* A smaller part. *)
LEMMA FewerAreLess ==
    ASSUME NEW times, IsFiniteSet(times), NEW part, part \subseteq times, NEW t \in times, t \notin part
    PROVE  Cardinality(part) < Cardinality(times)
<1>1. part \in SUBSET times /\ part # times OBVIOUS
<1>2. Cardinality(part) <= Cardinality(times) /\ Cardinality(part) # Cardinality(times) BY <1>1, FS_Subset
<1>3. Cardinality(part) \in Nat /\ Cardinality(times) \in Nat BY PartsAreFinite, FS_CardinalityType
<1> QED BY <1>2, <1>3

(* The numbers below which no other of the set are left out are its first ones. *)
LEMMA DownIsEarliest ==
    ASSUME NEW times \in SUBSET Nat, IsFiniteSet(times), NEW part, DownIn(part, times)
    PROVE  Earliest(times, Cardinality(part)) = part
<1> DEFINE n == Cardinality(part)
           below(t) == {u \in times : u < t}
<1>1. part \subseteq times /\ IsFiniteSet(part) /\ n \in Nat BY PartsAreFinite DEF DownIn
<1>2. \A t \in times : IsFiniteSet(below(t)) /\ Cardinality(below(t)) \in Nat
  <2> TAKE t \in times
  <2>1. below(t) \subseteq times OBVIOUS
  <2> HIDE DEF below
  <2> QED BY <2>1, PartsAreFinite
<1>3. ASSUME NEW t \in part PROVE Cardinality(below(t)) < n
  <2>1. below(t) \subseteq part /\ t \notin below(t)
    <3>1. t \in Nat /\ ~(t < t) BY <1>1
    <3>2. \A u \in times : u < t => u \in part BY DEF DownIn
    <3> QED BY <3>1, <3>2
  <2> HIDE DEF below
  <2> QED BY <1>1, <2>1, FewerAreLess
<1>4. ASSUME NEW t \in times, t \notin part PROVE ~(Cardinality(below(t)) < n)
  <2>1. part \subseteq below(t)
    <3> SUFFICES ASSUME NEW r \in part PROVE r < t
      BY <1>1
    <3>1. r \in Nat /\ t \in Nat /\ r # t BY <1>1, <1>4
    <3>2. ~(t < r) BY <1>4 DEF DownIn
    <3> QED BY <3>1, <3>2
  <2>2. n <= Cardinality(below(t))
    <3> HIDE DEF below
    <3> QED BY <1>2, <2>1, PartsAreFinite
  <2> HIDE DEF below
  <2> QED BY <1>1, <1>2, <2>2
<1>5. Earliest(times, n) = {t \in times : Cardinality(below(t)) < n} BY DEF Earliest
<1> HIDE DEF below, n
<1>6. {t \in times : Cardinality(below(t)) < n} = part BY <1>1, <1>3, <1>4
<1> QED BY <1>5, <1>6 DEF n

LEMMA EarliestIsDown ==
    ASSUME NEW times \in SUBSET Nat, IsFiniteSet(times), NEW n \in Nat
    PROVE  DownIn(Earliest(times, n), times)
<1> DEFINE below(t) == {u \in times : u < t}
<1>1. Earliest(times, n) = {t \in times : Cardinality(below(t)) < n} BY DEF Earliest
<1>2. ASSUME NEW t \in times, NEW u \in times, u < t, Cardinality(below(t)) < n PROVE Cardinality(below(u)) < n
  <2>1. below(u) \subseteq below(t)
    <3> SUFFICES ASSUME NEW v \in times, v < u PROVE v < t
      OBVIOUS
    <3>1. t \in Nat /\ u \in Nat /\ v \in Nat OBVIOUS
    <3> QED BY <1>2, <3>1
  <2>2. below(t) \subseteq times /\ below(u) \subseteq times OBVIOUS
  <2> HIDE DEF below
  <2>3. IsFiniteSet(below(t)) /\ Cardinality(below(t)) \in Nat BY <2>2, PartsAreFinite
  <2>4. Cardinality(below(u)) \in Nat /\ Cardinality(below(u)) <= Cardinality(below(t)) BY <2>1, <2>3, PartsAreFinite
  <2> QED BY <1>2, <2>3, <2>4
<1> HIDE DEF below
<1> QED BY <1>1, <1>2 DEF DownIn

(* As many as are asked for, if there are. *)
LEMMA EarliestAreMany ==
    ASSUME NEW times \in SUBSET Nat, IsFiniteSet(times), NEW n \in Nat, n <= Cardinality(times)
    PROVE  Cardinality(Earliest(times, n)) = n
<1> DEFINE E(k) == Earliest(times, k)
           T == {k \in 0..n : Cardinality(E(k)) = k}
<1>1. Cardinality(times) \in Nat BY FS_CardinalityType
<1>2. 0 \in T
  <2>1. DownIn({}, times) BY DEF DownIn
  <2>2. Cardinality({}) = 0 BY FS_EmptySet
  <2>3. E(0) = {} BY <2>1, <2>2, DownIsEarliest
  <2> QED BY <2>2, <2>3
<1>3. ASSUME NEW k \in 0..n, k # n, k \in T PROVE k + 1 \in T
  <2>1. Cardinality(E(k)) = k /\ k \in Nat /\ k < Cardinality(times) BY <1>1, <1>3
  <2>2. DownIn(E(k), times) BY <2>1, EarliestIsDown
  <2> DEFINE rest == times \ E(k)
  <2> HIDE DEF E
  <2>3. rest # {}
    <3>1. E(k) # times BY <1>1, <2>1
    <3> QED BY <2>2, <3>1 DEF DownIn
  <2>4. PICK m \in rest : \A y \in Nat : y < m => y \notin rest
    <3>1. rest \in SUBSET Nat OBVIOUS
    <3> HIDE DEF rest
    <3> QED BY <2>3, <3>1, LeastOf
  <2> DEFINE more == E(k) \cup {m}
  <2>5. DownIn(more, times)
    <3>1. more \subseteq times BY <2>2 DEF DownIn
    <3>2. ASSUME NEW t \in more, NEW u \in times, u < t PROVE u \in more
      <4>1. CASE t \in E(k) BY <2>2, <3>2, <4>1 DEF DownIn
      <4>2. CASE t = m BY <2>4, <3>2, <4>2
      <4> QED BY <4>1, <4>2
    <3> QED BY <3>1, <3>2 DEF DownIn
  <2>6. Cardinality(more) = k + 1
    <3>1. IsFiniteSet(E(k)) BY <2>2, PartsAreFinite DEF DownIn
    <3>2. m \notin E(k) OBVIOUS
    <3> QED BY <2>1, <3>1, <3>2, FS_AddElement
  <2> HIDE DEF more
  <2>7. E(k + 1) = more BY <2>5, <2>6, DownIsEarliest DEF E
  <2> QED BY <1>3, <2>6, <2>7
<1>4. \A k \in 0..n : k \in T
  <2> HIDE DEF T
  <2> QED BY <1>2, <1>3, UpTo
<1> QED BY <1>4

(* All of them. *)
LEMMA AllAreEarliest ==
    ASSUME NEW times \in SUBSET Nat, IsFiniteSet(times)
    PROVE  Earliest(times, Cardinality(times)) = times
<1>1. DownIn(times, times) BY DEF DownIn
<1> QED BY <1>1, DownIsEarliest

(* Later entries do not change which were the first. *)
LEMMA EarliestStay ==
    ASSUME NEW times \in SUBSET Nat, IsFiniteSet(times), NEW n \in Nat, n <= Cardinality(times),
           NEW t \in Nat, \A u \in times : u < t
    PROVE  Earliest(times \cup {t}, n) = Earliest(times, n)
<1> DEFINE E == Earliest(times, n)
           more == times \cup {t}
<1>1. DownIn(E, times) /\ Cardinality(E) = n BY EarliestIsDown, EarliestAreMany
<1> HIDE DEF E
<1>2. DownIn(E, more)
  <2>1. E \subseteq more BY <1>1 DEF DownIn
  <2>2. ASSUME NEW v \in E, NEW u \in more, u < v PROVE u \in E
    <3>1. v \in times /\ v \in Nat /\ v < t BY <1>1 DEF DownIn
    <3>2. u # t BY <2>2, <3>1
    <3>3. u \in times BY <3>2
    <3> QED BY <1>1, <2>2, <3>3 DEF DownIn
  <2> QED BY <2>1, <2>2 DEF DownIn
<1>3. IsFiniteSet(more) /\ more \in SUBSET Nat BY FS_AddElement
<1> HIDE DEF more
<1>4. Earliest(more, Cardinality(E)) = E BY <1>2, <1>3, DownIsEarliest
<1> QED BY <1>1, <1>4 DEF E, more

(* When the last of the first n are taken away, the first of them remain. *)
LEMMA EarliestRemain ==
    ASSUME NEW times \in SUBSET Nat, IsFiniteSet(times), NEW n \in Nat, n <= Cardinality(times),
           NEW taken, taken \subseteq Earliest(times, n),
           \A x \in taken, y \in Earliest(times, n) \ taken : x >= y
    PROVE  /\ Cardinality(taken) \in 0..n
           /\ Earliest(times, n - Cardinality(taken)) = Earliest(times, n) \ taken
<1> DEFINE E == Earliest(times, n)
           left == E \ taken
<1>1. DownIn(E, times) /\ Cardinality(E) = n BY EarliestIsDown, EarliestAreMany
<1>2. \A x \in taken, y \in E \ taken : x >= y OBVIOUS
<1>3. taken \subseteq E OBVIOUS
<1> HIDE DEF E
<1>4. IsFiniteSet(E) BY <1>1, PartsAreFinite DEF DownIn
<1>5. IsFiniteSet(taken) /\ Cardinality(taken) \in Nat /\ Cardinality(taken) <= n BY <1>1, <1>3, <1>4, PartsAreFinite
<1>6. Cardinality(left) = n - Cardinality(taken)
  <2>1. E \cap taken = taken BY <1>3
  <2>2. Cardinality(E \ taken) = Cardinality(E) - Cardinality(E \cap taken) BY <1>4, FS_Difference
  <2> QED BY <1>1, <2>1, <2>2
<1>7. DownIn(left, times)
  <2>1. left \subseteq times BY <1>1 DEF DownIn
  <2>2. ASSUME NEW y \in left, NEW u \in times, u < y PROVE u \in left
    <3>1. u \in E BY <1>1, <2>2 DEF DownIn
    <3>2. u \in Nat /\ y \in Nat BY <2>1
    <3>3. u \notin taken BY <1>2, <2>2, <3>2
    <3> QED BY <3>1, <3>3
  <2> QED BY <2>1, <2>2 DEF DownIn
<1> HIDE DEF left
<1>8. Earliest(times, Cardinality(left)) = left BY <1>7, DownIsEarliest
<1> QED BY <1>5, <1>6, <1>8 DEF left, E

-----------------------------------------------------------------------------
(* Files and positions. *)
LEMMA TimesAreFinite ==
    ASSUME NEW times \in [Files -> SUBSET Entries], NEW clock \in Nat, TimesFit(times, clock), NEW f \in Files
    PROVE  /\ times[f] \in SUBSET Nat /\ IsFiniteSet(times[f]) /\ Cardinality(times[f]) \in Nat
           /\ \A u \in times[f] : u \in 1..clock
<1>1. times[f] \subseteq 1..clock BY DEF TimesFit
<1>2. 1 \in Int /\ clock \in Int OBVIOUS
<1>3. IsFiniteSet(1..clock) BY <1>2, FS_Interval
<1>4. IsFiniteSet(times[f]) /\ Cardinality(times[f]) \in Nat BY <1>1, <1>3, PartsAreFinite
<1>5. times[f] \in SUBSET Nat BY <1>1
<1> QED BY <1>1, <1>4, <1>5

(* An entry is appended, to a file that has room. *)
LEMMA TimesGrow ==
    ASSUME NEW times \in [Files -> SUBSET Entries], NEW clock \in Nat, clock < MaxEntries, TimesFit(times, clock),
           NEW f \in Files, f <= clock + 1, Cardinality(times[f]) < Capacity
    PROVE  LET more == [times EXCEPT ![f] = @ \cup {clock + 1}]
           IN  more \in [Files -> SUBSET Entries] /\ TimesFit(more, clock + 1)
<1> DEFINE t == clock + 1
           more == [times EXCEPT ![f] = @ \cup {t}]
<1>0. t \in Entries /\ t \in Nat BY LogAssumption DEF Entries
<1>1. more[f] = times[f] \cup {t} /\ \A g \in Files : g # f => more[g] = times[g] OBVIOUS
<1>2. more \in [Files -> SUBSET Entries] BY <1>0
<1>3. \A g \in Files : t \notin times[g]
  <2> TAKE g \in Files
  <2>1. times[g] \subseteq 1..clock BY DEF TimesFit
  <2> QED BY <2>1
<1> HIDE DEF more
<1>4. \A g \in Files : more[g] \subseteq 1..t /\ Cardinality(more[g]) <= Capacity
  <2> TAKE g \in Files
  <2>1. times[g] \subseteq 1..clock /\ Cardinality(times[g]) <= Capacity BY DEF TimesFit
  <2>2. 1..clock \subseteq 1..t /\ t \in 1..t OBVIOUS
  <2>3. CASE g = f
    <3>1. IsFiniteSet(times[f]) /\ Cardinality(times[f]) \in Nat BY TimesAreFinite
    <3>2. Cardinality(times[f] \cup {t}) = Cardinality(times[f]) + 1 BY <1>3, <3>1, FS_AddElement
    <3>3. Cardinality(more[f]) <= Capacity BY <1>1, <3>1, <3>2, LogAssumption
    <3> QED BY <1>1, <2>1, <2>2, <2>3, <3>3
  <2>4. CASE g # f BY <1>1, <2>1, <2>2, <2>4
  <2> QED BY <2>3, <2>4
<1>5. \A g \in Files : g > t => more[g] = {}
  <2> SUFFICES ASSUME NEW g \in Files, g > t PROVE more[g] = {}
    OBVIOUS
  <2>1. g > clock /\ g # f BY LogAssumption DEF Files
  <2> QED BY <1>1, <2>1 DEF TimesFit
<1>6. \A g, h \in Files : g # h => more[g] \cap more[h] = {}
  <2> SUFFICES ASSUME NEW g \in Files, NEW h \in Files, g # h PROVE more[g] \cap more[h] = {}
    OBVIOUS
  <2>1. times[g] \cap times[h] = {} BY DEF TimesFit
  <2>2. t \notin times[g] /\ t \notin times[h] BY <1>3
  <2>3. more[g] = times[g] \/ (g = f /\ more[g] = times[g] \cup {t}) BY <1>1
  <2>4. more[h] = times[h] \/ (h = f /\ more[h] = times[h] \cup {t}) BY <1>1
  <2> QED BY <2>1, <2>2, <2>3, <2>4
<1>7. TimesFit(more, t) BY <1>4, <1>5, <1>6, Zenon DEF TimesFit
<1> QED BY <1>2, <1>7 DEF more

(* What a position covers stays as it is. *)
LEMMA CoversStay ==
    ASSUME NEW times \in [Files -> SUBSET Entries], NEW clock \in Nat, clock < MaxEntries, TimesFit(times, clock),
           NEW f \in Files, NEW pos \in Position, PositionFits(pos, times, clock)
    PROVE  LET more == [times EXCEPT ![f] = @ \cup {clock + 1}]
           IN  Covers(pos, more) = Covers(pos, times) /\ PositionFits(pos, more, clock + 1)
<1> DEFINE t == clock + 1
           more == [times EXCEPT ![f] = @ \cup {t}]
           file == pos.file
<1>1. more[f] = times[f] \cup {t} /\ \A g \in Files : g # f => more[g] = times[g] OBVIOUS
<1> HIDE DEF more
<1>2. CASE pos = Unopened BY <1>2 DEF Covers, PositionFits, Unopened, more
<1>3. CASE pos # Unopened
  <2>1. file \in 1..clock /\ pos.left <= Cardinality(times[file]) BY <1>3 DEF PositionFits
  <2>2. file \in Files /\ file # 0 /\ pos.left \in Nat BY <2>1, LogAssumption DEF Files, Position
  <2>3. CASE file # f
    <3>1. more[file] = times[file] BY <1>1, <2>2, <2>3
    <3> QED BY <2>1, <3>1 DEF Covers, PositionFits, more
  <2>4. CASE file = f
    <3>1. times[f] \in SUBSET Nat /\ IsFiniteSet(times[f]) /\ Cardinality(times[f]) \in Nat
          /\ \A u \in times[f] : u \in 1..clock
      BY TimesAreFinite
    <3>2. \A u \in times[f] : u < t BY <3>1
    <3>3. Earliest(times[f] \cup {t}, pos.left) = Earliest(times[f], pos.left)
      BY <2>1, <2>2, <2>4, <3>1, <3>2, EarliestStay
    <3>4. Covers(pos, more) = Covers(pos, times) BY <1>1, <2>2, <2>4, <3>3 DEF Covers
    <3>5. t \notin times[f] BY <3>2, <3>1
    <3>6. Cardinality(times[f] \cup {t}) = Cardinality(times[f]) + 1 BY <3>1, <3>5, FS_AddElement
    <3>7. pos.left <= Cardinality(more[file])
      <4> HIDE DEF file
      <4> QED BY <1>1, <2>1, <2>2, <2>4, <3>1, <3>6
    <3>8. file \in 1..(clock + 1) BY <2>1
    <3> QED BY <3>4, <3>7, <3>8 DEF PositionFits, more
  <2> QED BY <2>3, <2>4
<1> QED BY <1>2, <1>3

(* Files apart share no entry. *)
LEMMA CoversAre ==
    ASSUME NEW times \in [Files -> SUBSET Entries], NEW clock \in Nat, clock <= MaxEntries, TimesFit(times, clock),
           NEW pos \in Position, PositionFits(pos, times, clock)
    PROVE  /\ Covers(pos, times) \subseteq Entries
           /\ pos.left = 0 => Covers(pos, times) = {}
           /\ pos.file # 0 => pos.file \in Files /\ Covers(pos, times) \subseteq times[pos.file]
                              /\ Cardinality(Covers(pos, times)) = pos.left
<1>1. CASE pos = Unopened BY <1>1 DEF Covers, Unopened
<1>2. CASE pos # Unopened
  <2> DEFINE file == pos.file
             n == pos.left
  <2>1. file \in 1..clock /\ n <= Cardinality(times[file]) BY <1>2 DEF PositionFits
  <2>2. file \in Files /\ file # 0 /\ n \in Nat BY <2>1, LogAssumption DEF Files, Position
  <2>3. times[file] \in SUBSET Nat /\ IsFiniteSet(times[file]) /\ Cardinality(times[file]) \in Nat
    BY <2>2, TimesAreFinite
  <2>4. Cardinality(Earliest(times[file], n)) = n /\ DownIn(Earliest(times[file], n), times[file])
    BY <2>1, <2>2, <2>3, EarliestAreMany, EarliestIsDown
  <2>5. Covers(pos, times) = Earliest(times[file], n) BY <2>2 DEF Covers
  <2>6. times[file] \subseteq Entries BY <2>2
  <2>7. IsFiniteSet(Covers(pos, times)) BY <2>3, <2>4, <2>5, PartsAreFinite DEF DownIn
  <2>8. n = 0 => Covers(pos, times) = {} BY <2>4, <2>5, <2>7, FS_EmptySet
  <2> QED BY <2>2, <2>4, <2>5, <2>6, <2>8 DEF DownIn
<1> QED BY <1>1, <1>2

LEMMA CoversApart ==
    ASSUME NEW times \in [Files -> SUBSET Entries], NEW clock \in Nat, clock <= MaxEntries, TimesFit(times, clock),
           NEW a \in Position, NEW b \in Position, PositionFits(a, times, clock), PositionFits(b, times, clock),
           NEW e, e \in Covers(a, times), e \in Covers(b, times)
    PROVE  a.file = b.file /\ a.file # 0 /\ a.left > 0 /\ b.left > 0
<1>1. a.file # 0 /\ b.file # 0 BY DEF Covers
<1>2. a.file \in Files /\ b.file \in Files /\ e \in times[a.file] /\ e \in times[b.file] BY <1>1, CoversAre
<1>3. a.file = b.file BY <1>2, Zenon DEF TimesFit
<1>4. a.left # 0 /\ b.left # 0 BY CoversAre
<1>5. a.left \in Nat /\ b.left \in Nat BY LogAssumption DEF Position
<1> QED BY <1>1, <1>3, <1>4, <1>5

-----------------------------------------------------------------------------
(* The processes that write the log. *)
LEMMA OnlyLoggersMove ==
    ASSUME LogInvariant, UNCHANGED <<lgPart, lgTimes, lgClock, lgRaced>>, ReaderUnchanged,
           lgLock' \subseteq Loggers, Cardinality(lgLock') <= 1, lgAt' \in [Loggers -> Steps], LoggersFit'
    PROVE  LogInvariant'
<1>1. /\ lgPart' = lgPart /\ lgTimes' = lgTimes /\ lgClock' = lgClock /\ lgRaced' = lgRaced
      /\ lgScan' = lgScan /\ lgReaders' = lgReaders /\ lgCursor' = lgCursor /\ lgChains' = lgChains
      /\ lgWanted' = lgWanted /\ lgRead' = lgRead /\ lgTold' = lgTold
  BY DEF ReaderUnchanged
<1>2. LogTypeOK' BY <1>1 DEF LogInvariant, LogTypeOK
<1>3. FileState' BY <1>1 DEF LogInvariant, FileState
<1>4. ~lgRaced => ReadingFits' BY <1>1 DEF LogInvariant, ReadingFits, positions, Continued
<1>5. /\ PositionsFit(lgReaders', lgTimes', lgClock') /\ PositionsFit(lgCursor', lgTimes', lgClock')
      /\ NotYetOpened(lgScan', lgReaders')
  BY <1>1 DEF LogInvariant
<1> QED BY <1>1, <1>2, <1>3, <1>4, <1>5 DEF LogInvariant

(* Who works holds the lock alone; when it gives up the lock, nobody works. *)
LEMMA OthersAreIdle ==
    ASSUME LogInvariant, NEW w \in Loggers, lgAt[w].at # "idle"
    PROVE  lgLock = {w} /\ lgClock < MaxEntries /\ \A v \in Loggers : v # w => lgAt[v].at = "idle"
BY DEF LogInvariant, FileState, LoggersFit

LEMMA LoggersRelease ==
    ASSUME LogInvariant, NEW w \in Loggers, lgAt[w].at # "idle", lgLock' = lgLock \ {w}, Continues(w, "idle", 0)
    PROVE  /\ lgLock' = {} /\ Cardinality(lgLock') <= 1 /\ lgAt' \in [Loggers -> Steps]
           /\ \A v \in Loggers : lgAt'[v].at = "idle"
<1>1. lgLock = {w} /\ \A v \in Loggers : v # w => lgAt[v].at = "idle" BY OthersAreIdle
<1>2. lgLock' = {} BY <1>1
<1>3. Cardinality({}) = 0 BY FS_EmptySet
<1>4. lgAt \in [Loggers -> Steps] BY DEF LogInvariant, LogTypeOK
<1>5. Step("idle", 0) \in Steps BY LogAssumption DEF Step, Steps, Parts
<1>6. lgAt' = [lgAt EXCEPT ![w] = Step("idle", 0)] BY DEF Continues
<1>7. lgAt' \in [Loggers -> Steps] BY <1>4, <1>5, <1>6
<1>8. \A v \in Loggers : lgAt'[v].at = "idle" BY <1>1, <1>4, <1>6 DEF Step
<1> QED BY <1>2, <1>3, <1>7, <1>8

LEMMA LockLogKeeps == \A w \in Loggers : LogInvariant /\ LockLog(w) => LogInvariant'
<1> SUFFICES ASSUME NEW w \in Loggers, LogInvariant, LockLog(w) PROVE LogInvariant'
  OBVIOUS
<1>1. lgAt \in [Loggers -> Steps] BY DEF LogInvariant, LogTypeOK
<1>2. lgLock = {} /\ lgLock' = {w} /\ lgAt' = [lgAt EXCEPT ![w] = Step("locked", 0)] /\ lgClock < MaxEntries
      /\ UNCHANGED <<lgPart, lgTimes, lgClock, lgRaced>> /\ ReaderUnchanged
  BY DEF LockLog, Continues
<1>3. Step("locked", 0) \in Steps BY LogAssumption DEF Step, Steps, Parts
<1>4. lgAt' \in [Loggers -> Steps] BY <1>1, <1>2, <1>3
<1>5. Cardinality({w}) = 1 BY FS_Singleton
<1>6. \A v \in Loggers : v # w => lgAt'[v].at = "idle"
  <2>1. \A v \in Loggers : lgAt[v].at = "idle" BY <1>2 DEF LogInvariant, FileState, LoggersFit
  <2> QED BY <1>1, <1>2, <2>1
<1>7. lgAt'[w].at = "locked" BY <1>1, <1>2 DEF Step
<1>8. LoggersFit'
  <2>1. \E x : lgLock' \subseteq {x} BY <1>2
  <2>2. lgClock' < MaxEntries BY <1>2
  <2>3. \A v \in Loggers : lgAt'[v].at # "idle" => v \in lgLock' /\ lgClock' < MaxEntries BY <1>2, <1>6, <2>2
  <2>4. \A v \in Loggers : ~(lgAt'[v].at = "append") BY <1>6, <1>7
  <2> QED BY <2>1, <2>3, <2>4 DEF LoggersFit
<1> QED BY <1>2, <1>4, <1>5, <1>8, OnlyLoggersMove

LEMMA MeasureKeeps == \A w \in Loggers : LogInvariant /\ Measure(w) => LogInvariant'
<1> SUFFICES ASSUME NEW w \in Loggers, LogInvariant, Measure(w) PROVE LogInvariant'
  OBVIOUS
<1>1. lgAt \in [Loggers -> Steps] /\ lgLock \subseteq Loggers /\ Cardinality(lgLock) <= 1 BY DEF LogInvariant, LogTypeOK
<1>2. /\ lgLock' = lgLock /\ lgClock' = lgClock /\ lgPart' = lgPart /\ lgTimes' = lgTimes
      /\ UNCHANGED <<lgPart, lgTimes, lgClock, lgRaced>> /\ ReaderUnchanged /\ lgAt[w].at = "locked"
  BY DEF Measure
<1>3. \/ Full /\ lgAt' = [lgAt EXCEPT ![w] = Step("rotate", Backups)]
      \/ ~Full /\ lgAt' = [lgAt EXCEPT ![w] = Step("append", 0)]
  BY DEF Measure, Continues
<1>4. Step("rotate", Backups) \in Steps /\ Step("append", 0) \in Steps BY LogAssumption DEF Step, Steps, Parts
<1>5. lgAt' \in [Loggers -> Steps] BY <1>1, <1>3, <1>4
<1>6. lgLock = {w} /\ lgClock < MaxEntries /\ \A v \in Loggers : v # w => lgAt[v].at = "idle" BY <1>2, OthersAreIdle
<1>7. \A v \in Loggers : v # w => lgAt'[v].at = "idle" BY <1>1, <1>3, <1>6
<1>8. lgAt'[w].at = "append" => ~Full BY <1>1, <1>3 DEF Step
<1>9. ~Full /\ lgPart[0] # 0 => Cardinality(lgTimes[lgPart[0]]) < Capacity
  <2> SUFFICES ASSUME ~Full, lgPart[0] # 0 PROVE Cardinality(lgTimes[lgPart[0]]) < Capacity
    OBVIOUS
  <2>1. lgPart[0] \in Files /\ lgTimes \in [Files -> SUBSET Entries] /\ lgClock \in Nat /\ TimesFit(lgTimes, lgClock)
    BY LogAssumption DEF LogInvariant, LogTypeOK, FileState, Parts
  <2>2. Cardinality(lgTimes[lgPart[0]]) \in Nat BY <2>1, TimesAreFinite
  <2> QED BY <2>2, LogAssumption DEF Full
<1>10. LoggersFit'
  <2>1. \E x : lgLock' \subseteq {x} BY <1>2, <1>6
  <2>2. \A v \in Loggers : lgAt'[v].at # "idle" => v \in lgLock' /\ lgClock' < MaxEntries BY <1>2, <1>6, <1>7
  <2>3. \A v \in Loggers : lgAt'[v].at = "append" /\ lgPart'[0] # 0 => Cardinality(lgTimes'[lgPart'[0]]) < Capacity
    BY <1>2, <1>7, <1>8, <1>9
  <2> QED BY <2>1, <2>2, <2>3 DEF LoggersFit
<1>11. lgLock' \subseteq Loggers /\ Cardinality(lgLock') <= 1 BY <1>1, <1>2
<1> QED BY <1>2, <1>5, <1>10, <1>11, OnlyLoggersMove

LEMMA LogFailsKeeps == \A w \in Loggers : LogInvariant /\ LogFails(w) => LogInvariant'
<1> SUFFICES ASSUME NEW w \in Loggers, LogInvariant, LogFails(w) PROVE LogInvariant'
  OBVIOUS
<1>1. lgAt[w].at # "idle" /\ lgLock' = lgLock \ {w} /\ Continues(w, "idle", 0)
      /\ UNCHANGED <<lgPart, lgTimes, lgClock, lgRaced>> /\ ReaderUnchanged
  BY DEF LogFails
<1>2. /\ lgLock' = {} /\ Cardinality(lgLock') <= 1 /\ lgAt' \in [Loggers -> Steps]
      /\ \A v \in Loggers : lgAt'[v].at = "idle"
  BY <1>1, LoggersRelease
<1>3. LoggersFit'
  <2>1. \E x : lgLock' \subseteq {x} BY <1>2
  <2>2. \A v \in Loggers : ~(lgAt'[v].at = "append") BY <1>2
  <2> QED BY <1>2, <2>1, <2>2 DEF LoggersFit
<1>4. lgLock' \subseteq Loggers BY <1>2
<1> QED BY <1>1, <1>2, <1>3, <1>4, OnlyLoggersMove

(* A file takes the name above it. *)
LEMMA RotationFits ==
    ASSUME NEW part \in [Parts -> Files \cup {0}], NEW clock \in Nat, PartsFit(part, clock), NEW i \in 1..Backups
    PROVE  LET moved == [part EXCEPT ![i] = part[i - 1], ![i - 1] = 0]
           IN  moved \in [Parts -> Files \cup {0}] /\ PartsFit(moved, clock) /\ (i = 1 => moved[0] = 0)
<1> DEFINE moved == [part EXCEPT ![i] = part[i - 1], ![i - 1] = 0]
<1>1. i \in Parts /\ i - 1 \in Parts /\ i # i - 1 /\ i \in Nat BY LogAssumption DEF Parts
<1>2. /\ moved[i] = part[i - 1] /\ moved[i - 1] = 0
      /\ \A p \in Parts : p # i /\ p # i - 1 => moved[p] = part[p]
  BY <1>1
<1>3. moved \in [Parts -> Files \cup {0}] BY <1>1
<1> HIDE DEF moved
<1>4. PartsApart(moved)
  <2> SUFFICES ASSUME NEW p \in Parts, NEW q \in Parts, moved[p] # 0, moved[p] = moved[q] PROVE p = q
    BY DEF PartsApart
  <2> DEFINE From(r) == IF r = i THEN i - 1 ELSE r
  <2>1. p # i - 1 /\ q # i - 1 BY <1>2
  <2>2. moved[p] = part[From(p)] /\ moved[q] = part[From(q)] /\ From(p) \in Parts /\ From(q) \in Parts BY <1>1, <1>2, <2>1
  <2>3. From(p) = From(q)
    <3> HIDE DEF From
    <3> QED BY <2>2 DEF PartsFit, PartsApart
  <2> QED BY <2>1, <2>3
<1>5. \A p \in Parts : moved[p] <= clock
  <2> TAKE p \in Parts
  <2>1. moved[p] = 0 \/ moved[p] = part[i - 1] \/ moved[p] = part[p] BY <1>2
  <2> QED BY <1>1, <2>1 DEF PartsFit
<1>6. i = 1 => moved[0] = 0 BY <1>2
<1> QED BY <1>3, <1>4, <1>5, <1>6 DEF PartsFit, moved

LEMMA RotateKeeps == \A w \in Loggers : LogInvariant /\ Rotate(w) => LogInvariant'
<1> SUFFICES ASSUME NEW w \in Loggers, LogInvariant, Rotate(w) PROVE LogInvariant'
  OBVIOUS
<1>1. PICK i \in 1..Backups :
        /\ lgAt[w] = Step("rotate", i)
        /\ lgPart' = [lgPart EXCEPT ![i] = lgPart[i - 1], ![i - 1] = 0]
        /\ lgRaced' = (lgRaced \/ Scanning)
        /\ (IF i = 1 THEN Continues(w, "append", 0) ELSE Continues(w, "rotate", i - 1))
        /\ UNCHANGED <<lgTimes, lgLock, lgClock>> /\ ReaderUnchanged
  BY Zenon DEF Rotate
<1>2. /\ lgTimes' = lgTimes /\ lgClock' = lgClock /\ lgLock' = lgLock
      /\ lgScan' = lgScan /\ lgReaders' = lgReaders /\ lgCursor' = lgCursor /\ lgChains' = lgChains
      /\ lgWanted' = lgWanted /\ lgRead' = lgRead /\ lgTold' = lgTold
  BY <1>1 DEF ReaderUnchanged
<1>3. /\ lgPart \in [Parts -> Files \cup {0}] /\ lgAt \in [Loggers -> Steps] /\ lgClock \in Nat
      /\ PartsFit(lgPart, lgClock) /\ TimesFit(lgTimes, lgClock) /\ lgScan \in 0..Backups + 2
  BY LogAssumption DEF LogInvariant, LogTypeOK, FileState
<1>4. lgPart' \in [Parts -> Files \cup {0}] /\ PartsFit(lgPart', lgClock') /\ (i = 1 => lgPart'[0] = 0)
  <2> DEFINE moved == [lgPart EXCEPT ![i] = lgPart[i - 1], ![i - 1] = 0]
  <2>1. moved \in [Parts -> Files \cup {0}] /\ PartsFit(moved, lgClock) /\ (i = 1 => moved[0] = 0)
    BY <1>3, RotationFits
  <2>2. lgPart' = moved BY <1>1
  <2> HIDE DEF moved
  <2> QED BY <1>2, <2>1, <2>2
<1>5. lgAt[w].at = "rotate" BY <1>1 DEF Step
<1>6. lgLock = {w} /\ lgClock < MaxEntries /\ \A v \in Loggers : v # w => lgAt[v].at = "idle" BY <1>5, OthersAreIdle
<1>7. \/ i = 1 /\ lgAt' = [lgAt EXCEPT ![w] = Step("append", 0)]
      \/ i # 1 /\ lgAt' = [lgAt EXCEPT ![w] = Step("rotate", i - 1)]
  BY <1>1 DEF Continues
<1>8. Step("append", 0) \in Steps /\ Step("rotate", i - 1) \in Steps BY LogAssumption DEF Step, Steps, Parts
<1>9. lgAt' \in [Loggers -> Steps] BY <1>3, <1>7, <1>8
<1>10. \A v \in Loggers : v # w => lgAt'[v].at = "idle" BY <1>3, <1>6, <1>7
<1>11. lgAt'[w].at = "append" => i = 1 BY <1>3, <1>7 DEF Step
<1>12. LoggersFit'
  <2>1. \E x : lgLock' \subseteq {x} BY <1>2, <1>6
  <2>2. \A v \in Loggers : lgAt'[v].at # "idle" => v \in lgLock' /\ lgClock' < MaxEntries BY <1>2, <1>6, <1>10
  <2>3. \A v \in Loggers : ~(lgAt'[v].at = "append" /\ lgPart'[0] # 0) BY <1>4, <1>10, <1>11
  <2> QED BY <2>1, <2>2, <2>3 DEF LoggersFit
<1>13. LogTypeOK'
  <2>1. lgRaced' \in BOOLEAN BY <1>1
  <2> QED BY <1>2, <1>4, <1>9, <2>1 DEF LogInvariant, LogTypeOK
<1>14. FileState' BY <1>2, <1>3, <1>4, <1>12 DEF FileState
<1>15. ~lgRaced' => ReadingFits'
  <2> SUFFICES ASSUME ~lgRaced' PROVE ReadingFits'
    OBVIOUS
  <2>1. ~lgRaced /\ ~Scanning BY <1>1
  <2>2. ReadingFits BY <2>1 DEF LogInvariant
  <2>3. lgScan = 0 \/ lgScan \notin Parts BY <1>3, <2>1 DEF Scanning, Parts
  <2>4. \A p \in Parts : ~(p < 0) BY LogAssumption DEF Parts
  <2>5. OpenedInPlace(lgScan', lgReaders', lgPart') BY <1>2, <2>3, <2>4 DEF OpenedInPlace
  <2>6. lgScan # 0 /\ FindsAll(lgScan, lgReaders, lgPart, lgTimes, lgWanted) =>
            FindsAll(lgScan', lgReaders', lgPart', lgTimes', lgWanted')
    BY <1>2, <2>3 DEF FindsAll
  <2> QED BY <1>2, <2>2, <2>5, <2>6 DEF ReadingFits, positions, Continued
<1>16. /\ PositionsFit(lgReaders', lgTimes', lgClock') /\ PositionsFit(lgCursor', lgTimes', lgClock')
       /\ NotYetOpened(lgScan', lgReaders')
  BY <1>2 DEF LogInvariant
<1> QED BY <1>13, <1>14, <1>15, <1>16 DEF LogInvariant

LEMMA AppendEntryKeeps == \A w \in Loggers : LogInvariant /\ AppendEntry(w) => LogInvariant'
<1> SUFFICES ASSUME NEW w \in Loggers, LogInvariant, AppendEntry(w) PROVE LogInvariant'
  OBVIOUS
<1> DEFINE file == IF lgPart[0] = 0 THEN lgClock + 1 ELSE lgPart[0]
           grown == [lgTimes EXCEPT ![file] = @ \cup {lgClock + 1}]
           named == [lgPart EXCEPT ![0] = file]
<1>1. /\ lgClock' = lgClock + 1 /\ lgPart' = named /\ lgTimes' = grown
      /\ lgLock' = lgLock \ {w} /\ Continues(w, "idle", 0) /\ lgAt[w].at = "append"
      /\ lgScan' = lgScan /\ lgReaders' = lgReaders /\ lgCursor' = lgCursor /\ lgChains' = lgChains
      /\ lgWanted' = lgWanted /\ lgRead' = lgRead /\ lgTold' = lgTold /\ lgRaced' = lgRaced
  BY DEF AppendEntry, ReaderUnchanged
<1>2. /\ lgPart \in [Parts -> Files \cup {0}] /\ lgTimes \in [Files -> SUBSET Entries] /\ lgClock \in Nat
      /\ lgReaders \in [Parts -> Position] /\ lgCursor \in [Parts -> Position] /\ lgScan \in 0..Backups + 2
      /\ TimesFit(lgTimes, lgClock) /\ PartsFit(lgPart, lgClock) /\ MaxEntries \in Nat
  BY LogAssumption DEF LogInvariant, LogTypeOK, FileState
<1>3. lgClock < MaxEntries BY <1>1, OthersAreIdle
<1>4. 0 \in Parts BY LogAssumption DEF Parts
<1>5. file \in Files /\ file <= lgClock + 1 /\ Cardinality(lgTimes[file]) < Capacity
  <2>1. CASE lgPart[0] = 0
    <3>1. file = lgClock + 1 BY <2>1
    <3>2. file \in Files /\ file > lgClock /\ file <= lgClock + 1 BY <1>2, <1>3, <3>1 DEF Files
    <3>3. lgTimes[file] = {} BY <1>2, <3>2 DEF TimesFit
    <3>4. Cardinality({}) = 0 BY FS_EmptySet
    <3>5. Cardinality(lgTimes[file]) < Capacity BY <3>3, <3>4, LogAssumption
    <3> QED BY <3>2, <3>5
  <2>2. CASE lgPart[0] # 0
    <3>1. file = lgPart[0] BY <2>2
    <3>2. file \in Files /\ file \in Nat BY <1>2, <1>4, <2>2, <3>1 DEF Files
    <3>3. file <= lgClock BY <1>2, <1>4, <3>1 DEF PartsFit
    <3>4. Cardinality(lgTimes[file]) < Capacity BY <1>1, <2>2, <3>1 DEF LogInvariant, FileState, LoggersFit
    <3>5. file <= lgClock + 1 BY <1>2, <3>2, <3>3
    <3> QED BY <3>2, <3>4, <3>5
  <2> QED BY <2>1, <2>2
<1>6. named \in [Parts -> Files \cup {0}] /\ PartsFit(named, lgClock + 1)
  <2>1. named[0] = file /\ (\A p \in Parts : p # 0 => named[p] = lgPart[p]) /\ named \in [Parts -> Files \cup {0}]
    BY <1>2, <1>4, <1>5
  <2>2. \A p \in Parts : lgPart[p] <= lgClock BY <1>2 DEF PartsFit
  <2>3. \A p \in Parts : lgPart[p] \in Nat BY <1>2 DEF Files
  <2>4. lgPart[0] = 0 => file = lgClock + 1 OBVIOUS
  <2>5. lgPart[0] # 0 => file = lgPart[0] OBVIOUS
  <2> HIDE DEF named, file
  <2>6. \A p \in Parts : named[p] <= lgClock + 1 BY <1>2, <1>5, <2>1, <2>2, <2>3
  <2>7. PartsApart(named)
    <3> SUFFICES ASSUME NEW p \in Parts, NEW q \in Parts, named[p] # 0, named[p] = named[q] PROVE p = q
      BY DEF PartsApart
    <3>1. \A r \in Parts : named[r] = lgPart[r] \/ (r = 0 /\ named[r] = lgClock + 1 /\ lgPart[0] = 0)
      BY <2>1, <2>4, <2>5
    <3>2. \A r \in Parts : lgPart[r] # lgClock + 1 BY <1>2, <2>2, <2>3
    <3>3. CASE named[p] = lgPart[p] /\ named[q] = lgPart[q] BY <1>2, <3>3 DEF PartsFit, PartsApart
    <3>4. CASE named[p] = lgClock + 1 BY <3>1, <3>2, <3>4
    <3>5. CASE named[q] = lgClock + 1 BY <3>1, <3>2, <3>5
    <3> QED BY <3>1, <3>3, <3>4, <3>5
  <2> QED BY <2>1, <2>6, <2>7 DEF PartsFit
<1>7. grown \in [Files -> SUBSET Entries] /\ TimesFit(grown, lgClock + 1)
  <2> HIDE DEF file
  <2> QED BY <1>2, <1>3, <1>5, TimesGrow
<1>8. \A f \in Files : lgTimes[f] \subseteq grown[f]
  <2> HIDE DEF file
  <2> QED BY <1>2, <1>5
<1>9. ASSUME NEW pos \in Position, PositionFits(pos, lgTimes, lgClock)
      PROVE  Covers(pos, grown) = Covers(pos, lgTimes) /\ PositionFits(pos, grown, lgClock + 1)
  <2> HIDE DEF file
  <2> QED BY <1>2, <1>3, <1>5, <1>9, CoversStay
<1>10. lgPart[0] # 0 => named = lgPart BY <1>2, <1>4
<1>11. \A p \in Parts : p # 0 => named[p] = lgPart[p] BY <1>2
<1> HIDE DEF file, grown, named
<1>12. /\ \A p \in Parts : Covers(lgReaders[p], grown) = Covers(lgReaders[p], lgTimes)
       /\ \A p \in Parts : Covers(lgCursor[p], grown) = Covers(lgCursor[p], lgTimes)
       /\ PositionsFit(lgReaders, grown, lgClock + 1) /\ PositionsFit(lgCursor, grown, lgClock + 1)
  <2>1. \A p \in Parts : PositionFits(lgReaders[p], lgTimes, lgClock) /\ PositionFits(lgCursor[p], lgTimes, lgClock)
    BY DEF LogInvariant, PositionsFit
  <2>2. \A p \in Parts : lgReaders[p] \in Position /\ lgCursor[p] \in Position BY <1>2
  <2> QED BY <1>9, <2>1, <2>2 DEF PositionsFit
<1>13. lgLock' = {} /\ Cardinality(lgLock') <= 1 /\ lgAt' \in [Loggers -> Steps] /\ \A v \in Loggers : lgAt'[v].at = "idle"
  <2>1. lgAt[w].at # "idle" BY <1>1
  <2> QED BY <1>1, <2>1, LoggersRelease
<1>14. LoggersFit'
  <2>1. \E x : lgLock' \subseteq {x} BY <1>13
  <2>2. \A v \in Loggers : ~(lgAt'[v].at = "append") BY <1>13
  <2> QED BY <1>13, <2>1, <2>2 DEF LoggersFit
<1>15. LogTypeOK'
  <2>1. lgClock' \in 0..MaxEntries BY <1>1, <1>2, <1>3
  <2>2. lgLock' \subseteq Loggers BY <1>13
  <2>3. lgPart' \in [Parts -> Files \cup {0}] /\ lgTimes' \in [Files -> SUBSET Entries] BY <1>1, <1>6, <1>7
  <2> QED BY <1>1, <1>13, <2>1, <2>2, <2>3 DEF LogInvariant, LogTypeOK
<1>16. FileState' BY <1>1, <1>6, <1>7, <1>14 DEF FileState
<1>17. /\ PositionsFit(lgReaders', lgTimes', lgClock') /\ PositionsFit(lgCursor', lgTimes', lgClock')
       /\ NotYetOpened(lgScan', lgReaders')
  BY <1>1, <1>12 DEF LogInvariant
<1>18. ~lgRaced' => ReadingFits'
  <2> SUFFICES ASSUME ~lgRaced' PROVE ReadingFits'
    OBVIOUS
  <2>1. ReadingFits BY <1>1 DEF LogInvariant
  <2>2. ReadFits(lgCursor', lgTimes', lgRead') BY <1>1, <1>12, <2>1 DEF ReadingFits, ReadFits
  <2>3. OpenedInPlace(lgScan', lgReaders', lgPart')
    <3> SUFFICES ASSUME lgScan \in Parts, NEW p \in Parts, p < lgScan, lgReaders[p].file # 0
                 PROVE  lgReaders[p].file = named[p]
      BY <1>1 DEF OpenedInPlace
    <3>1. lgReaders[p].file = lgPart[p] BY <2>1 DEF ReadingFits, OpenedInPlace
    <3>2. lgPart[p] # 0 BY <3>1
    <3> QED BY <1>10, <1>11, <3>1, <3>2
  <2>4. lgScan # 0 /\ FindsAll(lgScan, lgReaders, lgPart, lgTimes, lgWanted) =>
            FindsAll(lgScan', lgReaders', lgPart', lgTimes', lgWanted')
    <3> SUFFICES ASSUME lgScan # 0, FindsAll(lgScan, lgReaders, lgPart, lgTimes, lgWanted), NEW e \in lgWanted
                 PROVE  \E p \in Parts :
                          \/ e \in Covers(lgReaders[p], grown)
                          \/ lgScan \in Parts /\ p >= lgScan /\ named[p] # 0 /\ e \in grown[named[p]]
      BY <1>1 DEF FindsAll
    <3>1. PICK p \in Parts : \/ e \in Covers(lgReaders[p], lgTimes)
                             \/ lgScan \in Parts /\ p >= lgScan /\ lgPart[p] # 0 /\ e \in lgTimes[lgPart[p]]
      BY Zenon DEF FindsAll
    <3>2. CASE e \in Covers(lgReaders[p], lgTimes) BY <1>12, <3>2
    <3>3. CASE lgScan \in Parts /\ p >= lgScan /\ lgPart[p] # 0 /\ e \in lgTimes[lgPart[p]]
      <4>1. p # 0 BY <3>3, LogAssumption DEF Parts
      <4>2. named[p] = lgPart[p] /\ lgPart[p] \in Files BY <1>2, <1>11, <3>3, <4>1
      <4>3. e \in grown[named[p]] BY <1>8, <3>3, <4>2
      <4> QED BY <3>3, <4>2, <4>3
    <3> QED BY <3>1, <3>2, <3>3
  <2>5. NothingMissed(lgCursor, lgTimes, lgRead, lgWanted) => NothingMissed(lgCursor', lgTimes', lgRead', lgWanted')
    BY <1>1, <1>12 DEF NothingMissed
  <2> QED BY <1>1, <2>1, <2>2, <2>3, <2>4, <2>5 DEF ReadingFits, positions, Continued
<1> QED BY <1>15, <1>16, <1>17, <1>18 DEF LogInvariant

-----------------------------------------------------------------------------
(* A request begins with nothing opened. *)
LEMMA RequestPageKeeps == LogInvariant /\ RequestPage => LogInvariant'
<1> SUFFICES ASSUME LogInvariant, RequestPage PROVE LogInvariant'
  OBVIOUS
<1> DEFINE none == [p \in Parts |-> Unopened]
<1>1. /\ lgScan = Idle /\ lgScan' = 0 /\ lgReaders' = none
      /\ lgWanted' = lgWanted /\ lgPart' = lgPart /\ lgTimes' = lgTimes /\ lgLock' = lgLock /\ lgAt' = lgAt
      /\ lgClock' = lgClock
  BY DEF RequestPage, LoggersUnchanged
<1>2. \/ /\ Continued
         /\ lgCursor' = lgCursor /\ lgChains' = lgChains /\ lgRaced' = lgRaced /\ lgRead' = lgRead /\ lgTold' = lgTold
      \/ /\ lgChains < MaxChains /\ lgChains' = lgChains + 1
         /\ lgCursor' = none
         /\ lgRead' = [e \in Entries |-> 0]
         /\ lgRaced' = FALSE /\ lgTold' = FALSE
  BY DEF RequestPage
<1>3. Unopened \in Position /\ none \in [Parts -> Position] /\ \A p \in Parts : none[p] = Unopened
  BY LogAssumption DEF Position, Unopened
<1>4. \A p \in Parts : none[p].file = 0 /\ none[p].left = 0 /\ Covers(none[p], lgTimes) = {}
  BY <1>3 DEF Unopened, Covers
<1>5. PositionsFit(none, lgTimes, lgClock) BY <1>3 DEF PositionsFit, PositionFits
<1>6. NotYetOpened(0, none) BY <1>3 DEF NotYetOpened
<1>7. OpenedInPlace(0, none, lgPart) BY <1>4 DEF OpenedInPlace
<1>8. ApartFrom(none, OpenParts(none)) BY <1>4 DEF ApartFrom, OpenParts
<1> HIDE DEF none
<1>9. LogTypeOK'
  <2>1. lgScan' \in 0..Backups + 2 BY <1>1, LogAssumption
  <2>2. lgCursor' \in [Parts -> Position] /\ lgRaced' \in BOOLEAN /\ lgTold' \in BOOLEAN
    BY <1>2, <1>3 DEF LogInvariant, LogTypeOK
  <2>3. lgRead' \in [Entries -> Nat] BY <1>2 DEF LogInvariant, LogTypeOK
  <2>4. lgChains' \in 0..MaxChains
    <3>1. lgChains \in 0..MaxChains /\ MaxChains \in Nat BY LogAssumption DEF LogInvariant, LogTypeOK
    <3> QED BY <1>2, <3>1
  <2> QED BY <1>1, <1>3, <2>1, <2>2, <2>3, <2>4 DEF LogInvariant, LogTypeOK
<1>10. FileState' BY <1>1 DEF LogInvariant, FileState, LoggersFit
<1>11. PositionsFit(lgCursor', lgTimes', lgClock') BY <1>1, <1>2, <1>5 DEF LogInvariant
<1>12. ~lgRaced' => ReadingFits'
  <2> SUFFICES ASSUME ~lgRaced' PROVE ReadingFits'
    OBVIOUS
  <2>1. lgScan' = 0 /\ lgScan' # Idle BY <1>1, LogAssumption DEF Idle
  <2>2. OpenedInPlace(lgScan', lgReaders', lgPart') /\ ApartFrom(lgReaders', OpenParts(lgReaders')) BY <1>1, <1>7, <1>8
  <2>3. FollowsCursor(lgReaders', lgCursor', positions') BY <1>1, <1>4 DEF FollowsCursor
  <2>4. CASE /\ Continued
             /\ lgCursor' = lgCursor /\ lgRaced' = lgRaced /\ lgRead' = lgRead /\ lgTold' = lgTold
    <3>1. positions' = positions /\ Continued' BY <2>4 DEF positions, Continued
    <3>2. ReadingFits BY <2>4 DEF LogInvariant
    <3> QED BY <1>1, <2>1, <2>2, <2>3, <2>4, <3>1, <3>2 DEF ReadingFits
  <2>5. CASE lgCursor' = none /\ lgRead' = [e \in Entries |-> 0] /\ lgRaced' = FALSE /\ lgTold' = FALSE
    <3>1. positions' = {} /\ ~Continued'
      <4>1. \A p \in Parts : ~(lgCursor'[p].left > 0) BY <1>4, <2>5
      <4> QED BY <4>1 DEF positions, Continued
    <3>2. \A e \in Entries : lgRead'[e] = 0 BY <2>5
    <3>3. ReadFits(lgCursor', lgTimes', lgRead') BY <3>2 DEF ReadFits
    <3>4. ApartFrom(lgCursor', positions') BY <3>1 DEF ApartFrom
    <3> QED BY <2>1, <2>2, <2>3, <2>5, <3>1, <3>2, <3>3, <3>4 DEF ReadingFits
  <2> QED BY <1>2, <2>4, <2>5
<1>13. PositionsFit(lgReaders', lgTimes', lgClock') /\ NotYetOpened(lgScan', lgReaders') BY <1>1, <1>5, <1>6
<1> QED BY <1>9, <1>10, <1>11, <1>12, <1>13 DEF LogInvariant

(* What is opened under a name is that file, as far as the cursor goes, or all of it. *)
LEMMA OpenedIsThere ==
    ASSUME LogInvariant, NEW p \in Parts
    PROVE  /\ Opened(lgPart[p]) \in Position /\ PositionFits(Opened(lgPart[p]), lgTimes, lgClock)
           /\ Opened(lgPart[p]).file # 0 => Opened(lgPart[p]).file = lgPart[p]
           /\ Opened(lgPart[p]).file # 0 /\ Continued => \E q \in positions : Opened(lgPart[p]) = lgCursor[q]
           /\ lgPart[p] # 0 /\ ~Continued => Covers(Opened(lgPart[p]), lgTimes) = lgTimes[lgPart[p]]
<1> DEFINE f == lgPart[p]
           new == Opened(f)
<1>1. /\ lgPart \in [Parts -> Files \cup {0}] /\ lgTimes \in [Files -> SUBSET Entries] /\ lgClock \in Nat
      /\ lgCursor \in [Parts -> Position] /\ TimesFit(lgTimes, lgClock) /\ PartsFit(lgPart, lgClock)
      /\ PositionsFit(lgCursor, lgTimes, lgClock)
  BY LogAssumption DEF LogInvariant, LogTypeOK, FileState
<1>2. f \in Files \cup {0} BY <1>1
<1>3. Unopened \in Position /\ Unopened.file = 0 BY LogAssumption DEF Unopened, Position
<1>4. CASE new = Unopened /\ (f = 0 \/ Continued) BY <1>3, <1>4 DEF PositionFits
<1>5. CASE f # 0 /\ ~Continued
  <2>1. f \in Files /\ f \in 1..lgClock
    <3>1. f \in Files /\ f <= lgClock BY <1>1, <1>2, <1>5 DEF PartsFit
    <3> QED BY <1>1, <3>1, LogAssumption DEF Files
  <2>2. lgTimes[f] \in SUBSET Nat /\ IsFiniteSet(lgTimes[f]) /\ Cardinality(lgTimes[f]) \in Nat
    BY <1>1, <2>1, TimesAreFinite
  <2>3. Cardinality(lgTimes[f]) <= Capacity BY <1>1, <2>1 DEF TimesFit
  <2>4. Cardinality(lgTimes[f]) \in 0..Capacity BY <2>2, <2>3, LogAssumption
  <2>5. new = [file |-> f, left |-> Cardinality(lgTimes[f])] BY <1>5 DEF Opened
  <2> HIDE DEF new, f
  <2>6. new \in Position /\ new.file = f /\ new.left = Cardinality(lgTimes[f]) BY <2>1, <2>4, <2>5 DEF Position
  <2>7. PositionFits(new, lgTimes, lgClock) BY <2>1, <2>2, <2>6 DEF PositionFits
  <2>8. Covers(new, lgTimes) = lgTimes[f]
    <3>1. Earliest(lgTimes[f], Cardinality(lgTimes[f])) = lgTimes[f] BY <2>2, AllAreEarliest
    <3> QED BY <1>5, <2>6, <3>1 DEF Covers
  <2> QED BY <1>5, <2>6, <2>7, <2>8 DEF new, f
<1>6. CASE f # 0 /\ Continued /\ Saved(f) # {}
  <2>1. Saved(f) \subseteq positions /\ \A q \in Saved(f) : q \in Parts /\ lgCursor[q].file = f BY DEF Saved, positions
  <2>2. Min(Saved(f)) \in Saved(f)
    <3> DEFINE S == Saved(f)
    <3>1. S \in SUBSET Nat /\ S # {} BY <1>6, <2>1, LogAssumption DEF Parts
    <3> HIDE DEF S
    <3>2. PICK x \in S : \A y \in Nat : y < x => y \notin S BY <3>1, LeastOf
    <3>3. \A y \in S : x <= y
      <4> TAKE y \in S
      <4>1. x \in Nat /\ y \in Nat /\ ~(y < x) BY <3>1, <3>2
      <4> QED BY <4>1
    <3>4. \E z \in S : \A y \in S : z <= y BY <3>3
    <3>5. Min(S) \in S BY <3>4, Zenon DEF Min
    <3> QED BY <3>5 DEF S
  <2>3. new = lgCursor[Min(Saved(f))] BY <1>6 DEF Opened
  <2> DEFINE q == Min(Saved(f))
  <2> HIDE DEF q, new, f
  <2>4. q \in positions /\ q \in Parts /\ new = lgCursor[q] /\ lgCursor[q].file = f BY <2>1, <2>2, <2>3 DEF q
  <2>5. new \in Position /\ PositionFits(new, lgTimes, lgClock) BY <1>1, <2>4 DEF PositionsFit
  <2> QED BY <1>6, <2>4, <2>5 DEF new, f
<1>7. (f = 0 => new = Unopened) /\ (f # 0 /\ Continued /\ Saved(f) = {} => new = Unopened) BY DEF Opened
<1> QED BY <1>4, <1>5, <1>6, <1>7

LEMMA OpenPartKeeps == LogInvariant /\ OpenPart => LogInvariant'
<1> SUFFICES ASSUME LogInvariant, OpenPart PROVE LogInvariant'
  OBVIOUS
<1> DEFINE new == Opened(lgPart[lgScan])
           opened == [lgReaders EXCEPT ![lgScan] = new]
<1>1. /\ lgScan \in Parts /\ lgReaders' = opened
      /\ lgScan' = IF lgScan = Backups THEN Backups + 2 ELSE lgScan + 1
      /\ lgWanted' = IF lgScan = 0 /\ ~Continued THEN Logged ELSE lgWanted
      /\ lgCursor' = lgCursor /\ lgChains' = lgChains /\ lgRaced' = lgRaced /\ lgRead' = lgRead /\ lgTold' = lgTold
      /\ lgPart' = lgPart /\ lgTimes' = lgTimes /\ lgLock' = lgLock /\ lgAt' = lgAt /\ lgClock' = lgClock
  BY DEF OpenPart, LoggersUnchanged
<1>2. /\ lgPart \in [Parts -> Files \cup {0}] /\ lgTimes \in [Files -> SUBSET Entries]
      /\ lgReaders \in [Parts -> Position] /\ lgCursor \in [Parts -> Position] /\ lgWanted \subseteq Entries
      /\ PartsApart(lgPart) /\ PositionsFit(lgReaders, lgTimes, lgClock) /\ NotYetOpened(lgScan, lgReaders)
  BY DEF LogInvariant, LogTypeOK, FileState, PartsFit
<1>3. /\ new \in Position /\ PositionFits(new, lgTimes, lgClock)
      /\ new.file # 0 => new.file = lgPart[lgScan]
      /\ new.file # 0 /\ Continued => \E q \in positions : new = lgCursor[q]
      /\ lgPart[lgScan] # 0 /\ ~Continued => Covers(new, lgTimes) = lgTimes[lgPart[lgScan]]
  BY <1>1, OpenedIsThere
<1> HIDE DEF new
<1>4. opened \in [Parts -> Position] /\ opened[lgScan] = new /\ \A p \in Parts : p # lgScan => opened[p] = lgReaders[p]
  BY <1>1, <1>2, <1>3
<1> HIDE DEF opened
<1>5. lgScan \in Nat /\ Backups \in Nat /\ lgScan <= Backups /\ (\A p \in Parts : p \in Nat /\ p <= Backups)
      /\ 0 # Backups
  BY <1>1, LogAssumption DEF Parts
<1>6. lgScan' # 0 /\ lgScan' # Idle /\ lgScan' \in 0..Backups + 2 BY <1>1, <1>5 DEF Idle
<1>7. \A p \in Parts : p > lgScan => lgScan' \in Parts /\ p >= lgScan' BY <1>1, <1>5 DEF Parts
<1>8. lgScan' \in Parts => lgScan' = lgScan + 1 BY <1>1, <1>5 DEF Parts
<1>9. LogTypeOK'
  <2>1. Logged \subseteq Entries
    <3> SUFFICES ASSUME NEW p \in Parts, lgPart[p] # 0 PROVE lgTimes[lgPart[p]] \subseteq Entries
      BY DEF Logged
    <3>1. lgPart[p] \in Files BY <1>2
    <3> QED BY <1>2, <3>1
  <2>2. lgWanted' \subseteq Entries BY <1>1, <1>2, <2>1
  <2> QED BY <1>1, <1>4, <1>6, <2>2 DEF LogInvariant, LogTypeOK
<1>10. FileState' BY <1>1 DEF LogInvariant, FileState, LoggersFit
<1>11. PositionsFit(lgReaders', lgTimes', lgClock') /\ PositionsFit(lgCursor', lgTimes', lgClock')
  <2>1. \A p \in Parts : PositionFits(opened[p], lgTimes, lgClock) BY <1>2, <1>3, <1>4 DEF PositionsFit
  <2> QED BY <1>1, <2>1 DEF LogInvariant, PositionsFit
<1>12. NotYetOpened(lgScan', lgReaders')
  <2> SUFFICES ASSUME lgScan' \in Parts, NEW p \in Parts, p >= lgScan' PROVE opened[p] = Unopened
    BY <1>1 DEF NotYetOpened
  <2>1. p # lgScan /\ p >= lgScan BY <1>5, <1>8
  <2> QED BY <1>1, <1>2, <1>4, <2>1 DEF NotYetOpened
<1>13. ~lgRaced' => ReadingFits'
  <2> SUFFICES ASSUME ~lgRaced' PROVE ReadingFits'
    OBVIOUS
  <2>1. ReadingFits BY <1>1 DEF LogInvariant
  <2>2. lgScan # Idle BY <1>5 DEF Idle
  <2>3. \A p \in Parts : opened[p].file # 0 => p <= lgScan /\ opened[p].file = lgPart[p]
    <3> SUFFICES ASSUME NEW p \in Parts, opened[p].file # 0 PROVE p <= lgScan /\ opened[p].file = lgPart[p]
      OBVIOUS
    <3>1. CASE p = lgScan BY <1>3, <1>4, <1>5, <3>1
    <3>2. CASE p # lgScan
      <4>1. lgReaders[p].file # 0 BY <1>4, <3>2
      <4>2. lgReaders[p] # Unopened BY <4>1 DEF Unopened
      <4>3. ~(p >= lgScan) BY <1>1, <1>2, <4>2 DEF NotYetOpened
      <4>4. p < lgScan BY <1>5, <4>3
      <4>5. lgReaders[p].file = lgPart[p] BY <1>1, <2>1, <4>1, <4>4 DEF ReadingFits, OpenedInPlace
      <4> QED BY <1>4, <1>5, <3>2, <4>4, <4>5
    <3> QED BY <3>1, <3>2
  <2>4. OpenedInPlace(lgScan', lgReaders', lgPart') BY <1>1, <2>3 DEF OpenedInPlace
  <2>5. ApartFrom(lgReaders', OpenParts(lgReaders'))
    <3> SUFFICES ASSUME NEW p \in Parts, NEW q \in Parts, opened[p].file # 0, opened[q].file # 0,
                        opened[p].file = opened[q].file
                 PROVE  p = q
      BY <1>1 DEF ApartFrom, OpenParts
    <3>1. lgPart[p] # 0 /\ lgPart[p] = lgPart[q] BY <2>3
    <3> QED BY <1>2, <3>1 DEF PartsApart
  <2>6. positions' = positions /\ (Continued' <=> Continued) BY <1>1 DEF positions, Continued
  <2>7. Continued => FollowsCursor(lgReaders', lgCursor', positions')
    <3> SUFFICES ASSUME Continued, NEW p \in Parts, opened[p].file # 0 PROVE \E q \in positions : opened[p] = lgCursor[q]
      BY <1>1, <2>6 DEF FollowsCursor
    <3>1. CASE p = lgScan BY <1>3, <1>4, <3>1
    <3>2. CASE p # lgScan
      <4>1. lgReaders[p].file # 0 /\ opened[p] = lgReaders[p] BY <1>4, <3>2
      <4>2. FollowsCursor(lgReaders, lgCursor, positions) BY <2>1, <2>2 DEF ReadingFits
      <4> QED BY <4>1, <4>2 DEF FollowsCursor
    <3> QED BY <3>1, <3>2
  <2>8. ~Continued => FindsAll(lgScan', lgReaders', lgPart', lgTimes', lgWanted')
    <3> SUFFICES ASSUME ~Continued, NEW e \in lgWanted'
                 PROVE  \E p \in Parts :
                          \/ e \in Covers(opened[p], lgTimes)
                          \/ lgScan' \in Parts /\ p >= lgScan' /\ lgPart[p] # 0 /\ e \in lgTimes[lgPart[p]]
      BY <1>1 DEF FindsAll
    <3>1. ASSUME NEW p \in Parts, p >= lgScan, lgPart[p] # 0, e \in lgTimes[lgPart[p]]
          PROVE  \/ e \in Covers(opened[p], lgTimes)
                 \/ lgScan' \in Parts /\ p >= lgScan' /\ lgPart[p] # 0 /\ e \in lgTimes[lgPart[p]]
      <4>1. CASE p = lgScan BY <1>3, <1>4, <3>1, <4>1
      <4>2. CASE p # lgScan
        <5>1. p > lgScan BY <1>5, <3>1, <4>2
        <5> QED BY <1>7, <3>1, <5>1
      <4> QED BY <4>1, <4>2
    <3>2. CASE lgScan = 0
      <4>1. e \in Logged BY <1>1, <3>2
      <4>2. PICK p \in Parts : lgPart[p] # 0 /\ e \in lgTimes[lgPart[p]] BY <4>1 DEF Logged
      <4>3. p >= lgScan BY <1>5, <3>2
      <4> QED BY <3>1, <4>2, <4>3
    <3>3. CASE lgScan # 0
      <4>1. e \in lgWanted /\ FindsAll(lgScan, lgReaders, lgPart, lgTimes, lgWanted) BY <1>1, <2>1, <2>2, <3>3 DEF ReadingFits
      <4>2. PICK p \in Parts : \/ e \in Covers(lgReaders[p], lgTimes)
                               \/ lgScan \in Parts /\ p >= lgScan /\ lgPart[p] # 0 /\ e \in lgTimes[lgPart[p]]
        BY <4>1, Zenon DEF FindsAll
      <4>3. CASE e \in Covers(lgReaders[p], lgTimes)
        <5>1. p # lgScan
          <6>1. lgReaders[lgScan] = Unopened BY <1>1, <1>2, <1>5 DEF NotYetOpened
          <6>2. Covers(Unopened, lgTimes) = {} BY DEF Covers, Unopened
          <6> QED BY <4>3, <6>1, <6>2
        <5> QED BY <1>4, <4>3, <5>1
      <4>4. CASE lgScan \in Parts /\ p >= lgScan /\ lgPart[p] # 0 /\ e \in lgTimes[lgPart[p]] BY <3>1, <4>4
      <4> QED BY <4>2, <4>3, <4>4
    <3> QED BY <3>2, <3>3
  <2>9. ApartFrom(lgCursor', positions') /\ ReadFits(lgCursor', lgTimes', lgRead') BY <1>1, <2>1, <2>6 DEF ReadingFits
  <2>10. ~Continued => (\A e \in Entries : lgRead'[e] = 0) /\ ~lgTold' BY <1>1, <2>1, <2>2 DEF ReadingFits
  <2>11. Continued /\ ~lgTold' => NothingMissed(lgCursor', lgTimes', lgRead', lgWanted')
    <3> SUFFICES ASSUME Continued, ~lgTold PROVE NothingMissed(lgCursor', lgTimes', lgRead', lgWanted')
      BY <1>1
    <3>1. NothingMissed(lgCursor, lgTimes, lgRead, lgWanted) /\ lgWanted' = lgWanted BY <1>1, <2>1 DEF ReadingFits
    <3> QED BY <1>1, <3>1
  <2> QED BY <1>6, <2>4, <2>5, <2>6, <2>7, <2>8, <2>9, <2>10, <2>11 DEF ReadingFits
<1> QED BY <1>9, <1>10, <1>11, <1>12, <1>13 DEF LogInvariant

-----------------------------------------------------------------------------
(* What a page takes of the entries that were found. *)
LEMMA ReadingTypes ==
    ASSUME LogInvariant
    PROVE  /\ lgTimes \in [Files -> SUBSET Entries] /\ lgClock \in Nat /\ lgClock <= MaxEntries
           /\ TimesFit(lgTimes, lgClock)
           /\ lgReaders \in [Parts -> Position] /\ lgCursor \in [Parts -> Position] /\ lgRead \in [Entries -> Nat]
           /\ \A p \in Parts : PositionFits(lgReaders[p], lgTimes, lgClock) /\ PositionFits(lgCursor[p], lgTimes, lgClock)
           /\ \A p \in Parts : lgReaders[p].file = 0 => lgReaders[p] = Unopened
<1>1. /\ lgTimes \in [Files -> SUBSET Entries] /\ lgClock \in Nat /\ lgClock <= MaxEntries
      /\ TimesFit(lgTimes, lgClock)
      /\ lgReaders \in [Parts -> Position] /\ lgCursor \in [Parts -> Position] /\ lgRead \in [Entries -> Nat]
  BY LogAssumption DEF LogInvariant, LogTypeOK, FileState
<1>2. \A p \in Parts : PositionFits(lgReaders[p], lgTimes, lgClock) /\ PositionFits(lgCursor[p], lgTimes, lgClock)
  BY DEF LogInvariant, PositionsFit
<1>3. \A p \in Parts : lgReaders[p].file = 0 => lgReaders[p] = Unopened
  <2> TAKE p \in Parts
  <2>1. 0 \notin 1..lgClock BY <1>1
  <2> QED BY <1>2, <2>1 DEF PositionFits
<1> QED BY <1>1, <1>2, <1>3

LEMMA UnreadIs ==
    ASSUME LogInvariant
    PROVE  /\ IsFiniteSet(Unread)
           /\ \A p \in Parts : \A t : <<p, t>> \in Unread <=> t \in Covers(lgReaders[p], lgTimes)
           /\ \A x \in Unread : \E p \in Parts, t \in Entries : x = <<p, t>> /\ t \in Covers(lgReaders[p], lgTimes)
<1> DEFINE opened == {q \in Parts : lgReaders[q].file # 0}
           first(p) == Earliest(lgTimes[lgReaders[p].file], lgReaders[p].left)
<1>1. Unread = UNION {{p} \X first(p) : p \in opened} BY DEF Unread
<1>2. \A p \in Parts : Covers(lgReaders[p], lgTimes) = IF p \in opened THEN first(p) ELSE {} BY DEF Covers
<1>3. \A p \in Parts : Covers(lgReaders[p], lgTimes) \subseteq Entries BY ReadingTypes, CoversAre
<1>4. opened \subseteq Parts OBVIOUS
<1> HIDE DEF opened, first
<1>5. \A p \in Parts : \A t : <<p, t>> \in Unread <=> t \in Covers(lgReaders[p], lgTimes) BY <1>1, <1>2, <1>4
<1>6. ASSUME NEW x \in Unread
      PROVE  \E p \in Parts, t \in Entries : x = <<p, t>> /\ t \in Covers(lgReaders[p], lgTimes)
  <2>1. PICK p \in opened : x \in {p} \X first(p) BY <1>1
  <2>2. PICK t \in first(p) : x = <<p, t>> BY <2>1
  <2> QED BY <1>2, <1>3, <1>4, <2>2
<1>7. IsFiniteSet(Unread)
  <2>1. 0 \in Int /\ 1 \in Int /\ Backups \in Int /\ MaxEntries \in Int BY LogAssumption
  <2>2. IsFiniteSet(0..Backups) /\ IsFiniteSet(1..MaxEntries) BY <2>1, FS_Interval
  <2>3. IsFiniteSet(Parts \X Entries) BY <2>2, FS_Product DEF Parts, Entries
  <2>4. Unread \in SUBSET (Parts \X Entries) BY <1>6
  <2> QED BY <2>3, <2>4, FS_Subset
<1> QED BY <1>5, <1>6, <1>7

(* The position after a page covers what the page left. *)
LEMMA PageTakes ==
    ASSUME LogInvariant, NEW page \in SUBSET Unread, NewestFirst(page), NEW p \in Parts
    PROVE  LET next == [lgReaders[p] EXCEPT !.left = @ - Cardinality({x \in page : x[1] = p})]
           IN  /\ next \in Position /\ PositionFits(next, lgTimes, lgClock) /\ next.file = lgReaders[p].file
               /\ Covers(next, lgTimes) = {t \in Covers(lgReaders[p], lgTimes) : <<p, t>> \notin page}
<1> DEFINE pos == lgReaders[p]
           own == {x \in page : x[1] = p}
           next == [pos EXCEPT !.left = @ - Cardinality(own)]
           taken == {t \in Covers(pos, lgTimes) : <<p, t>> \in page}
<1>1. pos \in Position /\ PositionFits(pos, lgTimes, lgClock) /\ (pos.file = 0 => pos = Unopened) BY ReadingTypes
<1>2. next.file = pos.file /\ next.left = pos.left - Cardinality(own) /\ next = [file |-> pos.file, left |-> next.left]
  BY <1>1 DEF Position
<1>3. \A x \in own : \E t \in taken : x = <<p, t>>
  <2> SUFFICES ASSUME NEW x \in own PROVE \E t \in taken : x = <<p, t>>
    OBVIOUS
  <2>1. PICK q \in Parts, t \in Entries : x = <<q, t>> /\ t \in Covers(lgReaders[q], lgTimes) BY UnreadIs
  <2>2. q = p BY <2>1
  <2> QED BY <2>1, <2>2
<1>4. \A t \in taken : <<p, t>> \in own OBVIOUS
<1>5. CASE pos.file = 0
  <2>1. Covers(pos, lgTimes) = {} BY <1>5 DEF Covers
  <2>2. own = {} BY <1>3, <2>1
  <2>3. Cardinality(own) = 0 BY <2>2, FS_EmptySet
  <2> HIDE DEF own, next
  <2>4. next = Unopened /\ pos = Unopened BY <1>1, <1>2, <1>5, <2>3 DEF Unopened
  <2>5. Covers(next, lgTimes) = {t \in Covers(pos, lgTimes) : <<p, t>> \notin page} BY <2>1, <2>4
  <2> QED BY <1>1, <1>2, <2>4, <2>5 DEF next, own
<1>6. CASE pos.file # 0
  <2> DEFINE f == pos.file
             n == pos.left
  <2>1. f \in Files /\ f \in 1..lgClock /\ n \in 0..Capacity /\ n <= Cardinality(lgTimes[f])
    <3>1. pos # Unopened BY <1>6 DEF Unopened
    <3>2. f \in 1..lgClock /\ n <= Cardinality(lgTimes[f]) BY <1>1, <3>1 DEF PositionFits
    <3>3. f \in Files /\ n \in 0..Capacity BY <1>1, <1>6 DEF Position
    <3> QED BY <3>2, <3>3
  <2>2. lgTimes[f] \in SUBSET Nat /\ IsFiniteSet(lgTimes[f]) /\ Cardinality(lgTimes[f]) \in Nat
    BY <2>1, ReadingTypes, TimesAreFinite
  <2>3. Covers(pos, lgTimes) = Earliest(lgTimes[f], n) BY <1>6 DEF Covers
  <2>4. \A x \in taken, y \in Earliest(lgTimes[f], n) \ taken : x >= y
    <3> SUFFICES ASSUME NEW x \in taken, NEW y \in Earliest(lgTimes[f], n), y \notin taken PROVE x >= y
      OBVIOUS
    <3>1. <<p, x>> \in page OBVIOUS
    <3>2. y \in Covers(pos, lgTimes) BY <2>3
    <3>3. <<p, y>> \in Unread \ page BY <3>2, UnreadIs
    <3>4. <<p, x>>[2] >= <<p, y>>[2] BY <3>1, <3>3 DEF NewestFirst
    <3> QED BY <3>4
  <2>5. taken \subseteq Earliest(lgTimes[f], n) BY <2>3
  <2> HIDE DEF taken, f, n
  <2>6. /\ Cardinality(taken) \in 0..n
        /\ Earliest(lgTimes[f], n - Cardinality(taken)) = Earliest(lgTimes[f], n) \ taken
    <3>1. n \in Nat BY <2>1
    <3> QED BY <2>1, <2>2, <2>4, <2>5, <3>1, EarliestRemain
  <2>7. Cardinality(own) = Cardinality(taken)
    <3> DEFINE g == [t \in taken |-> <<p, t>>]
    <3>1. \A t \in taken : g[t] = <<p, t>> OBVIOUS
    <3>2. g \in [taken -> own] BY <1>4
    <3> HIDE DEF g, own
    <3>3. g \in Injection(taken, own) BY <3>1, <3>2 DEF Injection, IsInjective
    <3>4. g \in Surjection(taken, own) BY <1>3, <3>1, <3>2 DEF Surjection
    <3>5. ExistsBijection(taken, own) BY <3>3, <3>4 DEF ExistsBijection, Bijection
    <3>6. IsFiniteSet(taken)
      <4>1. Earliest(lgTimes[f], n) \subseteq lgTimes[f] BY DEF Earliest
      <4> QED BY <2>2, <2>5, <4>1, PartsAreFinite
    <3> QED BY <3>5, <3>6, FS_Bijection
  <2> HIDE DEF own, next
  <2>8. pos.file = f /\ pos.left = n BY DEF f, n
  <2>9. next.left = n - Cardinality(taken) /\ next.left \in 0..Capacity /\ next.left <= n /\ next.file = f
    BY <1>2, <2>1, <2>6, <2>7, <2>8, LogAssumption
  <2>10. next \in Position BY <1>2, <2>1, <2>8, <2>9 DEF Position
  <2>11. PositionFits(next, lgTimes, lgClock)
    <3>1. next.left <= Cardinality(lgTimes[f]) BY <2>1, <2>2, <2>9
    <3> QED BY <2>1, <2>9, <3>1 DEF PositionFits
  <2>12. Covers(next, lgTimes) = Covers(pos, lgTimes) \ taken
    <3>1. Covers(next, lgTimes) = Earliest(lgTimes[f], n - Cardinality(taken)) BY <1>6, <2>8, <2>9 DEF Covers
    <3> QED BY <2>3, <2>6, <3>1
  <2>13. Covers(pos, lgTimes) \ taken = {t \in Covers(pos, lgTimes) : <<p, t>> \notin page} BY DEF taken
  <2> QED BY <2>8, <2>9, <2>10, <2>11, <2>12, <2>13 DEF next, own
<1> QED BY <1>5, <1>6

(* An entry is at one place of a page. *)
LEMMA FoundOnce ==
    ASSUME LogInvariant, ~lgRaced, lgScan # Idle, NEW p \in Parts, NEW q \in Parts, NEW e,
           e \in Covers(lgReaders[p], lgTimes), e \in Covers(lgReaders[q], lgTimes)
    PROVE  p = q
<1>1. lgReaders[p].file = lgReaders[q].file /\ lgReaders[p].file # 0 BY ReadingTypes, CoversApart
<1>2. ApartFrom(lgReaders, OpenParts(lgReaders)) BY DEF LogInvariant, ReadingFits
<1> QED BY <1>1, <1>2 DEF ApartFrom, OpenParts

LEMMA PageCounts ==
    ASSUME LogInvariant, NEW page \in SUBSET Unread, NEW e \in Entries
    PROVE  /\ Cardinality({x \in page : x[2] = e}) \in Nat
           /\ ~lgRaced /\ lgScan # Idle =>
                Cardinality({x \in page : x[2] = e}) = IF \E p \in Parts : <<p, e>> \in page THEN 1 ELSE 0
<1> DEFINE own == {x \in page : x[2] = e}
<1>1. own \subseteq Unread OBVIOUS
<1>2. Cardinality(own) \in Nat BY <1>1, UnreadIs, PartsAreFinite
<1>3. \A x \in own : \E p \in Parts : x = <<p, e>> /\ <<p, e>> \in page
  <2> SUFFICES ASSUME NEW x \in own PROVE \E p \in Parts : x = <<p, e>> /\ <<p, e>> \in page
    OBVIOUS
  <2>1. PICK q \in Parts, t \in Entries : x = <<q, t>> /\ t \in Covers(lgReaders[q], lgTimes) BY UnreadIs
  <2>2. t = e BY <2>1
  <2> QED BY <2>1, <2>2
<1>4. ASSUME ~lgRaced, lgScan # Idle, NEW p \in Parts, <<p, e>> \in page PROVE Cardinality(own) = 1
  <2>1. own = {<<p, e>>}
    <3>1. ASSUME NEW q \in Parts, <<q, e>> \in page PROVE q = p
      <4>1. e \in Covers(lgReaders[p], lgTimes) /\ e \in Covers(lgReaders[q], lgTimes) BY <1>4, <3>1, UnreadIs
      <4> QED BY <1>4, <4>1, FoundOnce
    <3>2. <<p, e>> \in own BY <1>4
    <3> HIDE DEF own
    <3>3. \A x \in own : x = <<p, e>> BY <1>3, <3>1
    <3> QED BY <3>2, <3>3
  <2> HIDE DEF own
  <2> QED BY <2>1, FS_Singleton
<1>5. ASSUME ~\E p \in Parts : <<p, e>> \in page PROVE Cardinality(own) = 0
  <2>1. own = {} BY <1>3, <1>5
  <2> HIDE DEF own
  <2> QED BY <2>1, FS_EmptySet
<1> QED BY <1>2, <1>4, <1>5

(* What is found has not been returned. *)
LEMMA FoundIsUnread ==
    ASSUME LogInvariant, ~lgRaced, lgScan # Idle, NEW p \in Parts, NEW e, e \in Covers(lgReaders[p], lgTimes)
    PROVE  e \in Entries /\ lgRead[e] = 0
<1>1. e \in Entries /\ lgReaders[p].file # 0
  <2>1. Covers(lgReaders[p], lgTimes) \subseteq Entries BY ReadingTypes, CoversAre
  <2> QED BY <2>1 DEF Covers
<1>2. ReadingFits BY DEF LogInvariant
<1>3. CASE Continued
  <2>1. FollowsCursor(lgReaders, lgCursor, positions) BY <1>2, <1>3 DEF ReadingFits
  <2>2. PICK q \in positions : lgReaders[p] = lgCursor[q] BY <1>1, <2>1 DEF FollowsCursor
  <2>3. q \in Parts /\ e \in Covers(lgCursor[q], lgTimes) BY <2>2 DEF positions
  <2> QED BY <1>1, <1>2, <2>3 DEF ReadingFits, ReadFits
<1>4. CASE ~Continued BY <1>1, <1>2, <1>4 DEF ReadingFits
<1> QED BY <1>3, <1>4

(* As many files as the cursor names are all of them. *)
LEMMA NoneRotatedAway ==
    ASSUME LogInvariant, ~lgRaced, lgScan # Idle, Continued, ~files_rotated
    PROVE  \A q \in positions : \E p \in Parts : lgReaders[p] = lgCursor[q]
<1> DEFINE opened == {p \in Parts : lgReaders[p].file # 0}
           followed == {q \in positions : \E p \in opened : lgReaders[p] = lgCursor[q]}
           g == [p \in opened |-> CHOOSE q \in positions : lgReaders[p] = lgCursor[q]]
<1>1. FollowsCursor(lgReaders, lgCursor, positions) /\ ApartFrom(lgReaders, OpenParts(lgReaders))
  BY DEF LogInvariant, ReadingFits
<1>2. \A p \in opened : g[p] \in positions /\ lgReaders[p] = lgCursor[g[p]]
  <2> TAKE p \in opened
  <2>1. \E q \in positions : lgReaders[p] = lgCursor[q] BY <1>1 DEF FollowsCursor
  <2> DEFINE c == CHOOSE q \in positions : lgReaders[p] = lgCursor[q]
  <2>2. c \in positions /\ lgReaders[p] = lgCursor[c] BY <2>1
  <2>3. g[p] = c OBVIOUS
  <2> HIDE DEF g, c
  <2> QED BY <2>2, <2>3
<1>3. g \in [opened -> followed]
  <2>1. \A p \in opened : g[p] \in followed
    <3> HIDE DEF g
    <3> QED BY <1>2
  <2>2. g = [p \in opened |-> g[p]] OBVIOUS
  <2> HIDE DEF g, followed, opened
  <2> QED BY <2>1, <2>2
<1>4. \A p, q \in opened : g[p] = g[q] => p = q
  <2> SUFFICES ASSUME NEW p \in opened, NEW q \in opened, g[p] = g[q] PROVE p = q
    OBVIOUS
  <2> HIDE DEF g
  <2>1. lgReaders[p].file = lgReaders[q].file BY <1>2
  <2> QED BY <1>1, <2>1 DEF ApartFrom, OpenParts
<1>5. opened \subseteq Parts /\ followed \subseteq positions /\ positions \subseteq Parts BY DEF positions
<1>6. \A q \in followed : \E p \in Parts : lgReaders[p] = lgCursor[q] OBVIOUS
<1>7. ~(Cardinality(opened) < Cardinality(positions)) BY DEF files_rotated
<1> HIDE DEF g, opened, followed
<1>8. g \in Injection(opened, followed) BY <1>3, <1>4 DEF Injection, IsInjective
<1>9. IsFiniteSet(Parts)
  <2>1. 0 \in Int /\ Backups \in Int BY LogAssumption
  <2> QED BY <2>1, FS_Interval DEF Parts
<1>10. IsFiniteSet(positions) /\ Cardinality(positions) \in Nat /\ Cardinality(opened) \in Nat BY <1>5, <1>9, PartsAreFinite
<1>11. IsFiniteSet(followed) /\ Cardinality(followed) \in Nat /\ Cardinality(followed) <= Cardinality(positions)
  BY <1>5, <1>10, PartsAreFinite
<1>12. Cardinality(opened) <= Cardinality(followed) BY <1>8, <1>11, FS_Injection
<1>13. Cardinality(positions) = Cardinality(followed) BY <1>7, <1>10, <1>11, <1>12
<1>14. followed \in SUBSET positions BY <1>5
<1>15. positions = followed BY <1>10, <1>13, <1>14, FS_Subset
<1> QED BY <1>6, <1>15

LEMMA AnswerPageKeeps == LogInvariant /\ AnswerPage => LogInvariant'
<1> SUFFICES ASSUME LogInvariant, AnswerPage PROVE LogInvariant'
  OBVIOUS
<1>1. PICK page \in SUBSET Unread :
        /\ NewestFirst(page)
        /\ lgRead' = [e \in Entries |-> lgRead[e] + Cardinality({x \in page : x[2] = e})]
        /\ lgCursor' = [p \in Parts |->
             [lgReaders[p] EXCEPT !.left = @ - Cardinality({x \in page : x[1] = p})]]
  <2>1. \A n, S : kSubset(n, S) \subseteq SUBSET S BY DEF kSubset
  <2> QED BY <2>1 DEF AnswerPage
<1>2. /\ lgScan = Backups + 2 /\ lgScan' = Idle /\ lgTold' = (lgTold \/ files_rotated)
      /\ lgReaders' = lgReaders /\ lgChains' = lgChains /\ lgRaced' = lgRaced /\ lgWanted' = lgWanted
      /\ lgPart' = lgPart /\ lgTimes' = lgTimes /\ lgLock' = lgLock /\ lgAt' = lgAt /\ lgClock' = lgClock
  BY DEF AnswerPage, LoggersUnchanged
<1>3. \A p \in Parts :
        /\ lgCursor'[p] \in Position /\ PositionFits(lgCursor'[p], lgTimes, lgClock) /\ lgCursor'[p].file = lgReaders[p].file
        /\ Covers(lgCursor'[p], lgTimes) = {t \in Covers(lgReaders[p], lgTimes) : <<p, t>> \notin page}
  <2> TAKE p \in Parts
  <2> DEFINE next == [lgReaders[p] EXCEPT !.left = @ - Cardinality({x \in page : x[1] = p})]
  <2>1. /\ next \in Position /\ PositionFits(next, lgTimes, lgClock) /\ next.file = lgReaders[p].file
        /\ Covers(next, lgTimes) = {t \in Covers(lgReaders[p], lgTimes) : <<p, t>> \notin page}
    BY <1>1, PageTakes
  <2>2. lgCursor'[p] = next BY <1>1
  <2> HIDE DEF next
  <2> QED BY <2>1, <2>2
<1>4. lgCursor' \in [Parts -> Position]
  <2>1. lgCursor' = [p \in Parts |-> lgCursor'[p]] BY <1>1
  <2> QED BY <1>3, <2>1
<1>5. lgRead' \in [Entries -> Nat]
  <2>1. \A e \in Entries : Cardinality({x \in page : x[2] = e}) \in Nat BY PageCounts
  <2>2. lgRead \in [Entries -> Nat] BY ReadingTypes
  <2>3. \A e \in Entries : lgRead[e] + Cardinality({x \in page : x[2] = e}) \in Nat BY <2>1, <2>2
  <2> QED BY <1>1, <2>3
<1>6. lgScan # Idle /\ Idle \notin Parts /\ lgScan \notin Parts /\ lgScan # 0 /\ Idle \in 0..Backups + 2
  BY <1>2, LogAssumption DEF Idle, Parts
<1>7. LogTypeOK'
  <2>1. lgTold' \in BOOLEAN BY <1>2
  <2> QED BY <1>2, <1>4, <1>5, <1>6, <2>1 DEF LogInvariant, LogTypeOK
<1>8. FileState' BY <1>2 DEF LogInvariant, FileState, LoggersFit
<1>9. PositionsFit(lgReaders', lgTimes', lgClock') /\ PositionsFit(lgCursor', lgTimes', lgClock')
  BY <1>2, <1>3 DEF LogInvariant, PositionsFit
<1>10. NotYetOpened(lgScan', lgReaders') BY <1>2, <1>6 DEF NotYetOpened
<1>11. ~lgRaced' => ReadingFits'
  <2> SUFFICES ASSUME ~lgRaced' PROVE ReadingFits'
    OBVIOUS
  <2>1. ReadingFits /\ ~lgRaced BY <1>2 DEF LogInvariant
  <2>2. \A e \in Entries : lgRead'[e] = lgRead[e] + (IF \E p \in Parts : <<p, e>> \in page THEN 1 ELSE 0)
    <3> TAKE e \in Entries
    <3>1. Cardinality({x \in page : x[2] = e}) = IF \E p \in Parts : <<p, e>> \in page THEN 1 ELSE 0
      BY <1>6, <2>1, PageCounts
    <3>2. lgRead'[e] = lgRead[e] + Cardinality({x \in page : x[2] = e}) BY <1>1
    <3> QED BY <3>1, <3>2
  <2>3. \A p \in Parts : \A e : e \in Covers(lgReaders[p], lgTimes) => e \in Entries /\ lgRead[e] = 0
    BY <1>6, <2>1, FoundIsUnread
  <2>4. \A p \in Parts : \A e : <<p, e>> \in page => e \in Covers(lgReaders[p], lgTimes) BY UnreadIs
  <2>5. ReadFits(lgCursor', lgTimes', lgRead')
    <3> SUFFICES ASSUME NEW e \in Entries
                 PROVE  lgRead'[e] <= 1 /\ \A p \in Parts : e \in Covers(lgCursor'[p], lgTimes) => lgRead'[e] = 0
      BY <1>2 DEF ReadFits
    <3>1. CASE ~\E p \in Parts : <<p, e>> \in page
      <4>1. lgRead'[e] = lgRead[e]
        <5>1. lgRead[e] \in Nat BY ReadingTypes
        <5>2. lgRead'[e] = lgRead[e] + 0 BY <2>2, <3>1
        <5> QED BY <5>1, <5>2
      <4>2. lgRead[e] <= 1 BY <2>1 DEF ReadingFits, ReadFits
      <4> QED BY <1>3, <2>3, <4>1, <4>2
    <3>2. CASE \E p \in Parts : <<p, e>> \in page
      <4>1. PICK p \in Parts : <<p, e>> \in page BY <3>2
      <4>2. e \in Covers(lgReaders[p], lgTimes) /\ lgRead[e] = 0 BY <2>3, <2>4, <4>1
      <4>3. lgRead'[e] = 1 BY <2>2, <3>2, <4>2
      <4>4. ASSUME NEW q \in Parts, e \in Covers(lgCursor'[q], lgTimes) PROVE FALSE
        <5>1. e \in Covers(lgReaders[q], lgTimes) /\ <<q, e>> \notin page BY <1>3, <4>4
        <5>2. q = p BY <1>6, <2>1, <4>2, <5>1, FoundOnce
        <5> QED BY <4>1, <5>1, <5>2
      <4> QED BY <4>3, <4>4
    <3> QED BY <3>1, <3>2
  <2>6. ApartFrom(lgCursor', positions')
    <3> SUFFICES ASSUME NEW p \in Parts, NEW q \in Parts, lgCursor'[p].left > 0, lgCursor'[q].left > 0,
                        lgCursor'[p].file = lgCursor'[q].file
                 PROVE  p = q
      BY DEF ApartFrom, positions
    <3>1. \A r \in Parts : lgCursor'[r].left > 0 => lgReaders[r].file # 0
      <4> SUFFICES ASSUME NEW r \in Parts, lgReaders[r].file = 0 PROVE ~(lgCursor'[r].left > 0)
        OBVIOUS
      <4>1. lgCursor'[r].file = 0 /\ PositionFits(lgCursor'[r], lgTimes, lgClock) BY <1>3
      <4>2. 0 \notin 1..lgClock BY ReadingTypes
      <4>3. lgCursor'[r] = Unopened BY <4>1, <4>2 DEF PositionFits
      <4> QED BY <4>3 DEF Unopened
    <3>2. lgReaders[p].file # 0 /\ lgReaders[q].file # 0 /\ lgReaders[p].file = lgReaders[q].file BY <1>3, <3>1
    <3>3. ApartFrom(lgReaders, OpenParts(lgReaders)) BY <1>6, <2>1 DEF ReadingFits
    <3> QED BY <3>2, <3>3 DEF ApartFrom, OpenParts
  <2>7. OpenedInPlace(lgScan', lgReaders', lgPart') BY <1>2, <1>6 DEF OpenedInPlace
  <2>8. ~lgTold' => NothingMissed(lgCursor', lgTimes', lgRead', lgWanted')
    <3> SUFFICES ASSUME ~lgTold, ~files_rotated, NEW e \in lgWanted
                 PROVE  lgRead'[e] = 1 \/ \E p \in Parts : e \in Covers(lgCursor'[p], lgTimes)
      BY <1>2 DEF NothingMissed
    <3>1. e \in Entries BY DEF LogInvariant, LogTypeOK
    <3>2. lgRead[e] = 1 \/ \E p \in Parts : e \in Covers(lgReaders[p], lgTimes)
      <4>1. CASE Continued
        <5>1. NothingMissed(lgCursor, lgTimes, lgRead, lgWanted) BY <2>1, <4>1 DEF ReadingFits
        <5>2. CASE lgRead[e] = 1 BY <5>2
        <5>3. CASE \E q \in Parts : e \in Covers(lgCursor[q], lgTimes)
          <6>1. PICK q \in Parts : e \in Covers(lgCursor[q], lgTimes) BY <5>3
          <6>2. q \in positions
            <7>1. lgCursor[q].left # 0 BY <6>1, ReadingTypes, CoversAre
            <7>2. lgCursor[q].left \in Nat BY ReadingTypes, LogAssumption DEF Position
            <7>3. lgCursor[q].left > 0 BY <7>1, <7>2
            <7> QED BY <7>3 DEF positions
          <6>3. PICK p \in Parts : lgReaders[p] = lgCursor[q] BY <1>6, <2>1, <4>1, <6>2, NoneRotatedAway
          <6> QED BY <6>1, <6>3
        <5> QED BY <5>1, <5>2, <5>3 DEF NothingMissed
      <4>2. CASE ~Continued
        <5>1. FindsAll(lgScan, lgReaders, lgPart, lgTimes, lgWanted) BY <1>6, <2>1, <4>2 DEF ReadingFits
        <5> QED BY <1>6, <5>1 DEF FindsAll
      <4> QED BY <4>1, <4>2
    <3>3. CASE lgRead[e] = 1
      <4>1. ~\E p \in Parts : <<p, e>> \in page
        <5> SUFFICES ASSUME NEW p \in Parts, <<p, e>> \in page PROVE FALSE
          OBVIOUS
        <5>1. e \in Covers(lgReaders[p], lgTimes) BY <2>4
        <5>2. lgRead[e] = 0 BY <2>3, <5>1
        <5> QED BY <3>3, <5>2
      <4>2. lgRead'[e] = 1 BY <2>2, <3>1, <3>3, <4>1
      <4> QED BY <4>2
    <3>4. CASE \E p \in Parts : e \in Covers(lgReaders[p], lgTimes)
      <4>1. PICK p \in Parts : e \in Covers(lgReaders[p], lgTimes) BY <3>4
      <4>2. CASE <<p, e>> \in page
        <5>1. lgRead[e] = 0 BY <2>3, <4>1
        <5>2. lgRead'[e] = 1 BY <2>2, <3>1, <4>2, <5>1
        <5> QED BY <5>2
      <4>3. CASE <<p, e>> \notin page
        <5>1. e \in Covers(lgCursor'[p], lgTimes) BY <1>3, <4>1, <4>3
        <5> QED BY <5>1
      <4> QED BY <4>2, <4>3
    <3> QED BY <3>2, <3>3, <3>4
  <2> QED BY <1>2, <2>5, <2>6, <2>7, <2>8 DEF ReadingFits, Idle
<1> QED BY <1>2, <1>7, <1>8, <1>9, <1>10, <1>11 DEF LogInvariant

-----------------------------------------------------------------------------
LEMMA LogBegins == LogInit => LogInvariant
<1> SUFFICES ASSUME LogInit PROVE LogInvariant
  OBVIOUS
<1>1. /\ lgPart = [p \in Parts |-> 0] /\ lgTimes = [f \in Files |-> {}]
      /\ lgLock = {} /\ lgAt = [w \in Loggers |-> Step("idle", 0)] /\ lgScan = Idle
      /\ lgReaders = [p \in Parts |-> Unopened] /\ lgCursor = [p \in Parts |-> Unopened]
      /\ lgClock = 0 /\ lgChains = 0
      /\ lgRaced = FALSE /\ lgWanted = {} /\ lgRead = [e \in Entries |-> 0] /\ lgTold = FALSE
  BY DEF LogInit
<1>2. Unopened \in Position /\ Unopened.file = 0 /\ Unopened.left = 0 BY LogAssumption DEF Position, Unopened
<1>3. Step("idle", 0) \in Steps /\ Step("idle", 0).at = "idle" BY LogAssumption DEF Step, Steps, Parts
<1>4. Cardinality({}) = 0 BY FS_EmptySet
<1>5. Idle \in 0..Backups + 2 /\ Idle \notin Parts BY LogAssumption DEF Idle, Parts
<1>6. LogTypeOK
  <2>1. lgClock \in 0..MaxEntries /\ lgChains \in 0..MaxChains BY <1>1, LogAssumption
  <2>2. Cardinality(lgLock) <= 1 BY <1>1, <1>4
  <2>3. lgReaders \in [Parts -> Position] /\ lgCursor \in [Parts -> Position] /\ lgAt \in [Loggers -> Steps] BY <1>1, <1>2, <1>3
  <2>4. lgPart \in [Parts -> Files \cup {0}] /\ lgTimes \in [Files -> SUBSET Entries] /\ lgRead \in [Entries -> Nat] BY <1>1
  <2> QED BY <1>1, <1>5, <2>1, <2>2, <2>3, <2>4 DEF LogTypeOK
<1>7. FileState
  <2>1. TimesFit(lgTimes, lgClock)
    <3>1. \A f \in Files : lgTimes[f] = {} BY <1>1
    <3>2. 0 <= Capacity BY LogAssumption
    <3> QED BY <1>4, <3>1, <3>2 DEF TimesFit
  <2>2. PartsFit(lgPart, lgClock) BY <1>1 DEF PartsFit, PartsApart
  <2>3. LoggersFit
    <3>1. \A w \in Loggers : lgAt[w].at = "idle" BY <1>1, <1>3
    <3>2. \E w : lgLock \subseteq {w} BY <1>1
    <3>3. \A w \in Loggers : ~(lgAt[w].at = "append") BY <3>1
    <3> QED BY <3>1, <3>2, <3>3 DEF LoggersFit
  <2> QED BY <2>1, <2>2, <2>3 DEF FileState
<1>8. \A p \in Parts : lgReaders[p] = Unopened /\ lgCursor[p] = Unopened BY <1>1
<1>9. PositionsFit(lgReaders, lgTimes, lgClock) /\ PositionsFit(lgCursor, lgTimes, lgClock)
  BY <1>8 DEF PositionsFit, PositionFits
<1>10. NotYetOpened(lgScan, lgReaders) BY <1>8 DEF NotYetOpened
<1>11. ReadingFits
  <2>1. positions = {} /\ ~Continued
    <3>1. \A p \in Parts : ~(lgCursor[p].left > 0) BY <1>2, <1>8
    <3> QED BY <3>1 DEF positions, Continued
  <2>2. ApartFrom(lgCursor, positions) BY <2>1 DEF ApartFrom
  <2>3. ReadFits(lgCursor, lgTimes, lgRead) BY <1>1 DEF ReadFits
  <2>4. OpenedInPlace(lgScan, lgReaders, lgPart) BY <1>1, <1>5 DEF OpenedInPlace
  <2>5. NothingMissed(lgCursor, lgTimes, lgRead, lgWanted) BY <1>1 DEF NothingMissed
  <2> QED BY <1>1, <2>1, <2>2, <2>3, <2>4, <2>5 DEF ReadingFits
<1> QED BY <1>6, <1>7, <1>9, <1>10, <1>11 DEF LogInvariant

LEMMA LogStutters == LogInvariant /\ UNCHANGED lgVars => LogInvariant'
<1> SUFFICES ASSUME LogInvariant, UNCHANGED lgVars PROVE LogInvariant'
  OBVIOUS
<1>1. /\ lgPart' = lgPart /\ lgTimes' = lgTimes /\ lgLock' = lgLock /\ lgAt' = lgAt /\ lgScan' = lgScan
      /\ lgReaders' = lgReaders /\ lgCursor' = lgCursor /\ lgClock' = lgClock /\ lgChains' = lgChains
      /\ lgRaced' = lgRaced /\ lgWanted' = lgWanted /\ lgRead' = lgRead /\ lgTold' = lgTold
  BY DEF lgVars
<1>2. LogTypeOK' BY <1>1 DEF LogInvariant, LogTypeOK
<1>3. FileState' BY <1>1 DEF LogInvariant, FileState, LoggersFit
<1>4. ~lgRaced => ReadingFits' BY <1>1 DEF LogInvariant, ReadingFits, positions, Continued
<1> QED BY <1>1, <1>2, <1>3, <1>4 DEF LogInvariant

LEMMA LogStepKeeps == LogInvariant /\ [LogNext]_lgVars => LogInvariant'
<1> SUFFICES ASSUME LogInvariant, [LogNext]_lgVars PROVE LogInvariant'
  OBVIOUS
<1>1. CASE \E w \in Loggers : LockLog(w) \/ Measure(w) \/ Rotate(w) \/ AppendEntry(w) \/ LogFails(w)
  BY <1>1, LockLogKeeps, MeasureKeeps, RotateKeeps, AppendEntryKeeps, LogFailsKeeps
<1>2. CASE RequestPage BY <1>2, RequestPageKeeps
<1>3. CASE OpenPart BY <1>3, OpenPartKeeps
<1>4. CASE AnswerPage BY <1>4, AnswerPageKeeps
<1>5. CASE UNCHANGED lgVars BY <1>5, LogStutters
<1> QED BY <1>1, <1>2, <1>3, <1>4, <1>5 DEF LogNext

LEMMA LogHolds == LogSpec => []LogInvariant
<1> QED BY LogBegins, LogStepKeeps, PTL DEF LogSpec

(* The log's variables keep their types: read_logs and append_file. *)
THEOREM LogTypes == LogSpec => []LogTypeOK
<1>1. LogInvariant => LogTypeOK BY DEF LogInvariant
<1> QED BY <1>1, LogHolds, PTL

(* As long as no file is renamed while a request opens the files: the pages of one reading return no entry    *)
(* twice, and a reading that ends without word of rotated files has returned every entry there was when it    *)
(* began, however many files and entries there are and however they rotate between requests: read_logs.      *)
THEOREM PagesReturnTheLog == LogSpec => []PagesAreExact
<1>1. LogInvariant => PagesAreExact
  <2> SUFFICES ASSUME LogInvariant, ~lgRaced
               PROVE  /\ \A e \in Entries : lgRead[e] <= 1
                      /\ lgScan = Idle /\ ~Continued /\ ~lgTold => \A e \in lgWanted : lgRead[e] = 1
    BY DEF PagesAreExact
  <2>1. ReadingFits BY DEF LogInvariant
  <2>2. \A e \in Entries : lgRead[e] <= 1 BY <2>1 DEF ReadingFits, ReadFits
  <2>3. ASSUME lgScan = Idle, ~Continued, ~lgTold, NEW e \in lgWanted PROVE lgRead[e] = 1
    <3>1. NothingMissed(lgCursor, lgTimes, lgRead, lgWanted) BY <2>1, <2>3 DEF ReadingFits
    <3>2. ASSUME NEW p \in Parts, e \in Covers(lgCursor[p], lgTimes) PROVE FALSE
      <4>1. lgCursor[p].left # 0 BY <3>2, ReadingTypes, CoversAre
      <4>2. lgCursor[p].left \in Nat BY ReadingTypes, LogAssumption DEF Position
      <4>3. p \in positions BY <4>1, <4>2 DEF positions
      <4> QED BY <2>3, <4>3 DEF Continued
    <3> QED BY <2>3, <3>1, <3>2 DEF NothingMissed
  <2> QED BY <2>2, <2>3
<1> QED BY <1>1, LogHolds, PTL
=============================================================================
