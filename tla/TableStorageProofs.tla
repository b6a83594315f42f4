-------------------------- MODULE TableStorageProofs --------------------------
(***************************************************************************)
(* A table as it is laid out in memory is a map of row ids to cells        *)
(* (TableIsMap), and no search ever misleads a reader (NeverMisled), for   *)
(* all rows, columns, keys and merges, without a bound.                    *)
(*                                                                         *)
(* From the inside out: the binary search splits a range where it should,  *)
(* so a column in order is scoped to a value, ids to a run of a commit, an *)
(* index to a key; a place inserted or cut leaves columns and index in     *)
(* order and of the same rows (Layout; the rows are Stock).  A set of      *)
(* packed rows stands for a map (Shows), and rows put and dropped are      *)
(* those of the map.  Last the updates: what is staged can be applied one  *)
(* after the other (Staged), and the log leads back, row by row, to the    *)
(* rows of the snapshot, for which the dictionary up to the mark is enough *)
(* (Undoable).                                                             *)
(***************************************************************************)

EXTENDS TableStorage, SequenceTheorems, TLAPS

Interning == INSTANCE FoldLemmas WITH Op <- Intern
Joining == INSTANCE FoldLemmas WITH Op <- Then

-----------------------------------------------------------------------------
(* Binary search *)

\* The middle of a range that is not empty lies in it.
LEMMA MidWithin ==
  ASSUME NEW lo \in Nat, NEW hi \in Nat, lo < hi
  PROVE  /\ lo + (hi - lo) \div 2 \in Nat
         /\ lo <= lo + (hi - lo) \div 2
         /\ lo + (hi - lo) \div 2 < hi
<1>1. ASSUME NEW d \in Nat, d > 0
      PROVE  d \div 2 \in Nat /\ d \div 2 < d
  BY <1>1
<1>2. hi - lo \in Nat /\ hi - lo > 0
  OBVIOUS
<1>3. (hi - lo) \div 2 \in Nat /\ (hi - lo) \div 2 < hi - lo
  BY <1>1, <1>2
<1> QED
  BY <1>3

\* The ranges of a column of n cells
Ranges(n) == (0 .. n) \X (0 .. n)

\* One step of a search for the end of the cells at the places S
Halve(g, S, r) ==
  LET mid == r[1] + (r[2] - r[1]) \div 2
  IN  IF r[1] >= r[2] THEN r[1]
      ELSE IF mid + 1 \in S THEN g[<<mid + 1, r[2]>>]
      ELSE g[<<r[1], mid>>]

Bisects(g, n, S) == g = [r \in Ranges(n) |-> Halve(g, S, r)]

\* A step looks at a shorter range.
LEMMA HalveShorter ==
  ASSUME NEW n \in Nat, NEW S, NEW r \in Ranges(n), NEW g, NEW h,
         \A q \in Ranges(n) : q[2] - q[1] < r[2] - r[1] => g[q] = h[q]
  PROVE  Halve(g, S, r) = Halve(h, S, r)
<1>1. PICK lo \in 0 .. n, hi \in 0 .. n : r = <<lo, hi>>
  BY DEF Ranges
<1>2. CASE lo >= hi
  BY <1>1, <1>2 DEF Halve
<1>3. CASE lo < hi
  <2>1. PICK mid : mid = lo + (hi - lo) \div 2
    OBVIOUS
  <2>2. mid \in Nat /\ lo <= mid /\ mid < hi
    BY <1>3, <2>1, MidWithin
  <2>3. <<mid + 1, hi>> \in Ranges(n) /\ <<lo, mid>> \in Ranges(n)
    BY <2>2 DEF Ranges
  <2>4. g[<<mid + 1, hi>>] = h[<<mid + 1, hi>>] /\ g[<<lo, mid>>] = h[<<lo, mid>>]
    BY <1>1, <2>2, <2>3
  <2> QED
    BY <1>1, <1>3, <2>1, <2>4 DEF Halve
<1> QED
  BY <1>2, <1>3

\* The search exists.
LEMMA BisectExists ==
  ASSUME NEW n \in Nat, NEW S
  PROVE  \E g : Bisects(g, n, S)
<1> DEFINE Upto(d, g) == /\ g = [r \in Ranges(n) |-> g[r]]
                         /\ \A r \in Ranges(n) : r[2] - r[1] <= d => g[r] = Halve(g, S, r)
           T == {d \in Nat : \E g : Upto(d, g)}
<1>1. 0 \in T
  <2> DEFINE g == [r \in Ranges(n) |-> r[1]]
  <2>1. \A r \in Ranges(n) : r[2] - r[1] <= 0 => g[r] = Halve(g, S, r)
    BY DEF Ranges, Halve
  <2>2. Upto(0, g)
    BY <2>1
  <2> QED
    BY <2>2
<1>2. ASSUME NEW d \in Nat, d \in T PROVE d + 1 \in T
  <2>1. PICK g : Upto(d, g)
    BY <1>2
  <2> DEFINE h == [r \in Ranges(n) |-> IF r[2] - r[1] <= d THEN g[r] ELSE Halve(g, S, r)]
  <2>2. ASSUME NEW r \in Ranges(n), r[2] - r[1] <= d + 1
        PROVE  h[r] = Halve(h, S, r)
    <3>1. \A q \in Ranges(n) : q[2] - q[1] < r[2] - r[1] => g[q] = h[q]
      BY <2>2 DEF Ranges
    <3>2. Halve(g, S, r) = Halve(h, S, r)
      BY <3>1, HalveShorter
    <3>3. h[r] = Halve(g, S, r)
      BY <2>1
    <3> QED
      BY <3>2, <3>3
  <2>3. h = [r \in Ranges(n) |-> h[r]]
    OBVIOUS
  <2> HIDE DEF h
  <2>4. Upto(d + 1, h)
    BY <2>2, <2>3
  <2> QED
    BY <2>4
<1> HIDE DEF T
<1>3. n \in T
  BY <1>1, <1>2, Interning!NatInd
<1>4. PICK g : Upto(n, g)
  BY <1>3 DEF T
<1>5. \A r \in Ranges(n) : r[2] - r[1] <= n
  BY DEF Ranges
<1>6. Bisects(g, n, S)
  BY <1>4, <1>5 DEF Bisects
<1> QED
  BY <1>6

\* What it finds, if S is the first part of the range: where S ends.
Splits(k, lo, hi, S) ==
  /\ k \in lo .. hi
  /\ \A p \in lo+1 .. k : p \in S
  /\ \A p \in k+1 .. hi : p \notin S


\* Where g is the search of Bisect, it finds where S ends.
LEMMA BisectFinds ==
  ASSUME NEW n \in Nat, NEW S, NEW g, Bisects(g, n, S),
         NEW lo \in 0 .. n, NEW hi \in 0 .. n, lo <= hi,
         \A p, q \in lo+1 .. hi : p < q /\ q \in S => p \in S
  PROVE  Splits(g[<<lo, hi>>], lo, hi, S)
<1> DEFINE T == {d \in Nat : \A a, b \in lo .. hi : a <= b /\ b - a <= d =>
                   Splits(g[<<a, b>>], a, b, S)}
<1>0. ASSUME NEW a \in lo .. hi, NEW b \in lo .. hi
      PROVE  g[<<a, b>>] = Halve(g, S, <<a, b>>)
  <2>1. <<a, b>> \in Ranges(n)
    BY DEF Ranges
  <2> QED
    BY <2>1 DEF Bisects
<1>9. ASSUME NEW a \in lo .. hi PROVE g[<<a, a>>] = a
  <2>1. g[<<a, a>>] = Halve(g, S, <<a, a>>)
    BY <1>0
  <2>2. a >= a
    OBVIOUS
  <2> QED
    BY <2>1, <2>2 DEF Halve
<1>10. ASSUME NEW a \in lo .. hi, NEW b \in lo .. hi, a < b
      PROVE  \E mid \in Nat : /\ a <= mid /\ mid < b
                              /\ mid + 1 \in S => g[<<a, b>>] = g[<<mid + 1, b>>]
                              /\ mid + 1 \notin S => g[<<a, b>>] = g[<<a, mid>>]
  <2>1. PICK mid : mid = a + (b - a) \div 2
    OBVIOUS
  <2>2. mid \in Nat /\ a <= mid /\ mid < b
    BY <1>10, <2>1, MidWithin
  <2>3. g[<<a, b>>] = IF a >= b THEN a
                      ELSE IF mid + 1 \in S THEN g[<<mid + 1, b>>] ELSE g[<<a, mid>>]
    BY <1>0, <2>1 DEF Halve
  <2>4. ~ (a >= b)
    BY <1>10
  <2>5. /\ mid + 1 \in S => g[<<a, b>>] = g[<<mid + 1, b>>]
        /\ mid + 1 \notin S => g[<<a, b>>] = g[<<a, mid>>]
    BY <2>3, <2>4
  <2> QED
    BY <2>2, <2>5
<1>1. 0 \in T
  <2>1. ASSUME NEW a \in lo .. hi, NEW b \in lo .. hi, a <= b, b - a <= 0
        PROVE  Splits(g[<<a, b>>], a, b, S)
    <3>1. a = b /\ g[<<a, b>>] = a
      BY <1>9, <2>1
    <3> QED
      BY <3>1 DEF Splits
  <2> QED
    BY <2>1
<1>2. ASSUME NEW d \in Nat, d \in T PROVE d + 1 \in T
  <2>1. ASSUME NEW a \in lo .. hi, NEW b \in lo .. hi, a <= b, b - a <= d + 1
        PROVE  Splits(g[<<a, b>>], a, b, S)
    <3>1. CASE a = b
      <4>1. g[<<a, b>>] = a
        BY <1>9, <3>1
      <4> QED
        BY <3>1, <4>1 DEF Splits
    <3>2. CASE a < b
      <4>1. PICK mid \in Nat : /\ a <= mid /\ mid < b
                               /\ mid + 1 \in S => g[<<a, b>>] = g[<<mid + 1, b>>]
                               /\ mid + 1 \notin S => g[<<a, b>>] = g[<<a, mid>>]
        BY <1>10, <3>2
      <4>2. mid \in Nat /\ a <= mid /\ mid < b
        BY <4>1
      <4>3. CASE mid + 1 \in S
        <5>1. g[<<a, b>>] = g[<<mid + 1, b>>]
          BY <4>1, <4>3
        <5>2. Splits(g[<<mid + 1, b>>], mid + 1, b, S)
          BY <1>2, <2>1, <4>2
        <5>3. \A p \in a+1 .. mid+1 : p \in S
          BY <4>2, <4>3
        <5> QED
          BY <4>2, <5>1, <5>2, <5>3 DEF Splits
      <4>4. CASE mid + 1 \notin S
        <5>1. g[<<a, b>>] = g[<<a, mid>>]
          BY <4>1, <4>4
        <5>2. Splits(g[<<a, mid>>], a, mid, S)
          BY <1>2, <2>1, <4>2
        <5>3. \A p \in mid+1 .. b : p \notin S
          BY <4>2, <4>4
        <5> QED
          BY <4>2, <5>1, <5>2, <5>3 DEF Splits
      <4> QED
        BY <4>3, <4>4
    <3> QED
      BY <2>1, <3>1, <3>2
  <2> QED
    BY <2>1
<1> HIDE DEF T
<1>3. hi - lo \in T
  BY <1>1, <1>2, Interning!NatInd
<1> QED
  BY <1>3 DEF T

\* The search of the model is such a search.
LEMMA BisectSplits ==
  ASSUME NEW n \in Nat, NEW S, NEW lo \in 0 .. n, NEW hi \in 0 .. n, lo <= hi,
         \A p, q \in lo+1 .. hi : p < q /\ q \in S => p \in S
  PROVE  Splits(Bisect(n, S, <<lo, hi>>), lo, hi, S)
<1> DEFINE g == CHOOSE h : Bisects(h, n, S)
<1>1. Bisects(g, n, S)
  BY BisectExists
<1>2. Bisect(n, S, <<lo, hi>>) = g[<<lo, hi>>]
  BY DEF Bisect, Bisects, Ranges, Halve
<1> HIDE DEF g
<1>3. Splits(g[<<lo, hi>>], lo, hi, S)
  BY <1>1, BisectFinds
<1> QED
  BY <1>2, <1>3

\* The cells of a range do not descend.
Ascends(col, lo, hi) == \A p, q \in lo+1 .. hi : p < q => col[p] <= col[q]

\* The cells of the range <<lo, hi>> that are v are those of the range <<a, b>>.
Isolates(col, v, lo, hi, a, b) ==
  /\ a \in lo .. hi /\ b \in a .. hi
  /\ \A p \in lo+1 .. a : col[p] < v
  /\ \A p \in a+1 .. b : col[p] = v
  /\ \A p \in b+1 .. hi : v < col[p]

\* equal_range finds the cells that are v.
LEMMA ScopeFinds ==
  ASSUME NEW n \in Nat, NEW col \in [1 .. n -> Int], NEW v \in Int,
         NEW lo \in 0 .. n, NEW hi \in 0 .. n, lo <= hi, Ascends(col, lo, hi)
  PROVE  \E a, b : Scope(col, v, <<lo, hi>>) = <<a, b>> /\ Isolates(col, v, lo, hi, a, b)
<1> DEFINE low == {p \in 1 .. n : col[p] < v}
           upto == {p \in 1 .. n : col[p] <= v}
<1>1. Len(col) = n /\ DOMAIN col = 1 .. n
  OBVIOUS
<1>2. PICK a : a = Bisect(n, low, <<lo, hi>>)
  OBVIOUS
<1>3. \A p, q \in lo+1 .. hi : p < q /\ q \in low => p \in low
  BY DEF Ascends
<1>4. Splits(a, lo, hi, low)
  <2> HIDE DEF low
  <2> QED
    BY <1>2, <1>3, BisectSplits
<1>5. a \in lo .. hi /\ a \in 0 .. n /\ a <= hi
  BY <1>4 DEF Splits
<1>6. PICK b : b = Bisect(n, upto, <<a, hi>>)
  OBVIOUS
<1>7. \A p, q \in a+1 .. hi : p < q /\ q \in upto => p \in upto
  BY <1>5 DEF Ascends
<1>8. Splits(b, a, hi, upto)
  <2> HIDE DEF upto
  <2> QED
    BY <1>5, <1>6, <1>7, BisectSplits
<1>9. LowerBound(col, v, <<lo, hi>>) = a /\ UpperBound(col, v, <<a, hi>>) = b
  BY <1>1, <1>2, <1>6 DEF LowerBound, UpperBound
<1>10. Scope(col, v, <<lo, hi>>) = <<a, b>>
  BY <1>9 DEF Scope
<1>11. b \in a .. hi
  BY <1>8 DEF Splits
<1>12. ASSUME NEW p \in lo+1 .. a PROVE col[p] < v
  BY <1>4, <1>12 DEF Splits
<1>13. ASSUME NEW p \in a+1 .. b PROVE col[p] = v
  <2>1. p \in upto
    BY <1>8, <1>13 DEF Splits
  <2>2. p \in a+1 .. hi
    BY <1>11, <1>5
  <2>3. p \notin low
    BY <1>4, <2>2 DEF Splits
  <2> QED
    BY <2>1, <2>3
<1>14. ASSUME NEW p \in b+1 .. hi PROVE v < col[p]
  <2>1. p \notin upto
    BY <1>8, <1>14 DEF Splits
  <2>2. p \in 1 .. n
    BY <1>5, <1>11
  <2> QED
    BY <2>1, <2>2
<1> QED
  BY <1>5, <1>10, <1>11, <1>12, <1>13, <1>14 DEF Isolates

-----------------------------------------------------------------------------
(* Columns of ids *)

\* Ids of a range that do not descend
AscendsId(col, lo, hi) ==
  \A p, q \in lo+1 .. hi : p < q => ~SortedBefore(col[q], col[p])

\* The cells of the range <<lo, hi>> that are v are those of the range <<a, b>>.
IsolatesId(col, v, lo, hi, a, b) ==
  /\ a \in lo .. hi /\ b \in a .. hi
  /\ \A p \in lo+1 .. a : SortedBefore(col[p], v)
  /\ \A p \in a+1 .. b : col[p] = v
  /\ \A p \in b+1 .. hi : SortedBefore(v, col[p])

\* The commits of such a column do not descend, nor the counters of one commit.
LEMMA PartsAscend ==
  ASSUME NEW n \in Nat, NEW col \in [1 .. n -> PackedId],
         NEW lo \in 0 .. n, NEW hi \in 0 .. n, AscendsId(col, lo, hi)
  PROVE  /\ Part(col, 1) \in [1 .. n -> Int] /\ Part(col, 2) \in [1 .. n -> Int]
         /\ Ascends(Part(col, 1), lo, hi)
         /\ \A a \in lo .. hi, b \in lo .. hi :
              (\A p, q \in a+1 .. b : col[p][1] = col[q][1]) => Ascends(Part(col, 2), a, b)
<1>1. /\ Part(col, 1) \in [1 .. n -> Int] /\ Part(col, 2) \in [1 .. n -> Int]
      /\ \A p \in 1 .. n : Part(col, 1)[p] = col[p][1] /\ Part(col, 2)[p] = col[p][2]
      /\ \A p \in 1 .. n : col[p][1] \in Int /\ col[p][2] \in Int
  BY DEF Part, PackedId
<1>2. ASSUME NEW p \in lo+1 .. hi, NEW q \in lo+1 .. hi, p < q
      PROVE  /\ col[p][1] <= col[q][1]
             /\ col[p][1] = col[q][1] => col[p][2] <= col[q][2]
  <2>1. p \in 1 .. n /\ q \in 1 .. n
    OBVIOUS
  <2>2. ~SortedBefore(col[q], col[p])
    BY <1>2 DEF AscendsId
  <2> QED
    BY <1>1, <2>1, <2>2 DEF SortedBefore
<1>3. Ascends(Part(col, 1), lo, hi)
  BY <1>1, <1>2 DEF Ascends
<1>4. ASSUME NEW a \in lo .. hi, NEW b \in lo .. hi,
             \A p, q \in a+1 .. b : col[p][1] = col[q][1]
      PROVE  Ascends(Part(col, 2), a, b)
  <2> SUFFICES ASSUME NEW p \in a+1 .. b, NEW q \in a+1 .. b, p < q
               PROVE  Part(col, 2)[p] <= Part(col, 2)[q]
    BY DEF Ascends
  <2>1. p \in lo+1 .. hi /\ q \in lo+1 .. hi /\ p \in 1 .. n /\ q \in 1 .. n
    OBVIOUS
  <2>2. col[p][1] = col[q][1]
    BY <1>4
  <2> QED
    BY <1>1, <1>2, <2>1, <2>2
<1> QED
  BY <1>1, <1>3, <1>4

\* IdColumn::scope_to_value finds the places of an id.
LEMMA ScopeIdFinds ==
  ASSUME NEW n \in Nat, NEW col \in [1 .. n -> PackedId], NEW v \in PackedId,
         NEW lo \in 0 .. n, NEW hi \in 0 .. n, lo <= hi, AscendsId(col, lo, hi)
  PROVE  \E a, b : ScopeId(col, v, <<lo, hi>>) = <<a, b>> /\ IsolatesId(col, v, lo, hi, a, b)
<1>1. v[1] \in Int /\ v[2] \in Int /\ v = <<v[1], v[2]>>
      /\ \A p \in 1 .. n : col[p] = <<col[p][1], col[p][2]>>
  BY DEF PackedId
<1>2. /\ Part(col, 1) \in [1 .. n -> Int] /\ Part(col, 2) \in [1 .. n -> Int]
      /\ \A p \in 1 .. n : Part(col, 1)[p] = col[p][1] /\ Part(col, 2)[p] = col[p][2]
  BY PartsAscend DEF Part
<1>3. PICK c, d : Scope(Part(col, 1), v[1], <<lo, hi>>) = <<c, d>>
                  /\ Isolates(Part(col, 1), v[1], lo, hi, c, d)
  <2> DEFINE part == Part(col, 1)
  <2> DEFINE sought == v[1]
  <2>1. /\ n \in Nat /\ lo \in 0 .. n /\ hi \in 0 .. n /\ lo <= hi
        /\ part \in [1 .. n -> Int] /\ sought \in Int /\ Ascends(part, lo, hi)
    BY <1>1, <1>2, PartsAscend
  <2> HIDE DEF part, sought
  <2>2. \E x, y : Scope(part, sought, <<lo, hi>>) = <<x, y>>
                 /\ Isolates(part, sought, lo, hi, x, y)
    BY <2>1, ScopeFinds
  <2> QED
    BY <2>2 DEF part, sought
<1>4. c \in lo .. hi /\ d \in c .. hi /\ c \in 0 .. n /\ d \in 0 .. n /\ c <= d /\ d \in lo .. hi
  BY <1>3 DEF Isolates
<1>5. \A p \in c+1 .. d : p \in 1 .. n /\ col[p][1] = v[1]
  BY <1>2, <1>3, <1>4 DEF Isolates
<1>6. Ascends(Part(col, 2), c, d)
  <2>1. \A p, q \in c+1 .. d : col[p][1] = col[q][1]
    BY <1>5
  <2>2. \A x \in lo .. hi, y \in lo .. hi :
          (\A p, q \in x+1 .. y : col[p][1] = col[q][1]) => Ascends(Part(col, 2), x, y)
    BY PartsAscend
  <2>3. c \in lo .. hi /\ d \in lo .. hi
    BY <1>4
  <2> QED
    BY <2>1, <2>2, <2>3
<1>7. PICK a, b : Scope(Part(col, 2), v[2], <<c, d>>) = <<a, b>>
                  /\ Isolates(Part(col, 2), v[2], c, d, a, b)
  <2> DEFINE part == Part(col, 2)
  <2> DEFINE sought == v[2]
  <2>1. /\ n \in Nat /\ c \in 0 .. n /\ d \in 0 .. n /\ c <= d
        /\ part \in [1 .. n -> Int] /\ sought \in Int /\ Ascends(part, c, d)
    BY <1>1, <1>2, <1>4, <1>6
  <2> HIDE DEF part, sought
  <2>2. \E x, y : Scope(part, sought, <<c, d>>) = <<x, y>>
                 /\ Isolates(part, sought, c, d, x, y)
    BY <2>1, ScopeFinds
  <2> QED
    BY <2>2 DEF part, sought
<1>8. ScopeId(col, v, <<lo, hi>>) = <<a, b>>
  BY <1>3, <1>7 DEF ScopeId
<1>9. a \in c .. d /\ b \in a .. d /\ a \in lo .. hi /\ b \in a .. hi
  BY <1>4, <1>7 DEF Isolates
<1>10. ASSUME NEW p \in lo+1 .. a PROVE SortedBefore(col[p], v)
  <2>1. CASE p <= c
    <3>1. p \in lo+1 .. c /\ p \in 1 .. n
      BY <1>4, <1>9, <2>1
    <3>2. col[p][1] < v[1]
      BY <1>2, <1>3, <3>1 DEF Isolates
    <3> QED
      BY <3>2 DEF SortedBefore
  <2>2. CASE p > c
    <3>1. p \in c+1 .. a /\ p \in c+1 .. d /\ p \in 1 .. n
      BY <1>4, <1>9, <2>2
    <3>2. col[p][2] < v[2]
      BY <1>2, <1>7, <3>1 DEF Isolates
    <3>3. col[p][1] = v[1]
      BY <1>5, <3>1
    <3> QED
      BY <3>2, <3>3 DEF SortedBefore
  <2> QED
    BY <1>4, <2>1, <2>2
<1>11. ASSUME NEW p \in a+1 .. b PROVE col[p] = v
  <2>1. p \in c+1 .. d /\ p \in 1 .. n
    BY <1>4, <1>9
  <2>2. col[p][2] = v[2]
    BY <1>2, <1>7, <2>1 DEF Isolates
  <2> QED
    BY <1>1, <1>5, <2>1, <2>2
<1>12. ASSUME NEW p \in b+1 .. hi PROVE SortedBefore(v, col[p])
  <2>1. CASE p > d
    <3>1. p \in d+1 .. hi /\ p \in 1 .. n
      BY <1>4, <1>9, <2>1
    <3>2. v[1] < col[p][1]
      BY <1>2, <1>3, <3>1 DEF Isolates
    <3> QED
      BY <3>2 DEF SortedBefore
  <2>2. CASE p <= d
    <3>1. p \in b+1 .. d /\ p \in c+1 .. d /\ p \in 1 .. n
      BY <1>4, <1>9, <2>2
    <3>2. v[2] < col[p][2]
      BY <1>2, <1>7, <3>1 DEF Isolates
    <3>3. col[p][1] = v[1]
      BY <1>5, <3>1
    <3> QED
      BY <3>2, <3>3 DEF SortedBefore
  <2> QED
    BY <1>4, <1>9, <2>1, <2>2
<1> QED
  BY <1>8, <1>9, <1>10, <1>11, <1>12 DEF IsolatesId

\* Ids in order, each once
StrictId(col) == \A p, q \in DOMAIN col : p < q => SortedBefore(col[p], col[q])

\* IdColumn::position finds the id, or where it belongs.
Finds(r, id) ==
  /\ r.at \in 0 .. Len(ids)
  /\ r.found => r.at + 1 \in 1 .. Len(ids) /\ ids[r.at + 1] = id
  /\ ~r.found => /\ \A p \in 1 .. r.at : SortedBefore(ids[p], id)
                 /\ \A p \in r.at+1 .. Len(ids) : SortedBefore(id, ids[p])


\* It does while the column is in order.
LEMMA PositionFinds ==
  ASSUME ids \in Seq(PackedId), StrictId(ids), NEW id \in PackedId
  PROVE  Finds(Position(id), id)
<1> DEFINE n == Len(ids)
<1>1. n \in Nat /\ ids \in [1 .. n -> PackedId] /\ DOMAIN ids = 1 .. n
  OBVIOUS
<1> HIDE DEF n
<1>2. /\ id[1] \in Int /\ id[2] \in Int /\ id = <<id[1], id[2]>>
      /\ \A p \in 1 .. n : ids[p] = <<ids[p][1], ids[p][2]>>
      /\ \A p \in 1 .. n : ids[p][1] \in Int /\ ids[p][2] \in Int
  BY <1>1 DEF PackedId
<1>3. /\ Part(ids, 1) \in [1 .. n -> Int] /\ Part(ids, 2) \in [1 .. n -> Int]
      /\ \A p \in 1 .. n : Part(ids, 1)[p] = ids[p][1] /\ Part(ids, 2)[p] = ids[p][2]
  BY <1>1, <1>2 DEF Part
<1>4. AscendsId(ids, 0, n)
  <2>1. \A p, q \in 1 .. n : p < q => SortedBefore(ids[p], ids[q])
    BY <1>1 DEF StrictId
  <2>2. 0 + 1 .. n = 1 .. n
    OBVIOUS
  <2> QED
    BY <1>2, <2>1, <2>2 DEF AscendsId, SortedBefore
<1>5. Ascends(Part(ids, 1), 0, n)
  BY <1>1, <1>4, PartsAscend
<1>6. PICK c, d : Scope(Part(ids, 1), id[1], <<0, n>>) = <<c, d>>
                  /\ Isolates(Part(ids, 1), id[1], 0, n, c, d)
  <2> DEFINE part == Part(ids, 1)
  <2> DEFINE sought == id[1]
  <2>1. /\ n \in Nat /\ 0 \in 0 .. n /\ n \in 0 .. n /\ 0 <= n
        /\ part \in [1 .. n -> Int] /\ sought \in Int /\ Ascends(part, 0, n)
    BY <1>1, <1>2, <1>3, <1>5
  <2> HIDE DEF part, sought
  <2>2. \E x, y : Scope(part, sought, <<0, n>>) = <<x, y>>
                 /\ Isolates(part, sought, 0, n, x, y)
    BY <2>1, ScopeFinds
  <2> QED
    BY <2>2 DEF part, sought
<1>7. c \in 0 .. n /\ d \in c .. n /\ d \in 0 .. n /\ c <= d
  BY <1>1, <1>6 DEF Isolates
<1>8. \A p \in c+1 .. d : p \in 1 .. n /\ ids[p][1] = id[1]
  BY <1>1, <1>3, <1>6, <1>7 DEF Isolates
<1>9. Ascends(Part(ids, 2), c, d)
  <2>1. \A p, q \in c+1 .. d : ids[p][1] = ids[q][1]
    BY <1>8
  <2>2. \A x \in 0 .. n, y \in 0 .. n :
          (\A p, q \in x+1 .. y : ids[p][1] = ids[q][1]) => Ascends(Part(ids, 2), x, y)
    <3>1. 0 \in 0 .. n /\ n \in 0 .. n
      BY <1>1
    <3> QED
      BY <1>1, <1>4, <3>1, PartsAscend
  <2> QED
    BY <1>7, <2>1, <2>2
<1>10. PICK a, b : Scope(Part(ids, 2), id[2], <<c, d>>) = <<a, b>>
                   /\ Isolates(Part(ids, 2), id[2], c, d, a, b)
  <2> DEFINE part == Part(ids, 2)
  <2> DEFINE sought == id[2]
  <2>1. /\ n \in Nat /\ c \in 0 .. n /\ d \in 0 .. n /\ c <= d
        /\ part \in [1 .. n -> Int] /\ sought \in Int /\ Ascends(part, c, d)
    BY <1>1, <1>2, <1>3, <1>7, <1>9
  <2> HIDE DEF part, sought
  <2>2. \E x, y : Scope(part, sought, <<c, d>>) = <<x, y>>
                 /\ Isolates(part, sought, c, d, x, y)
    BY <2>1, ScopeFinds
  <2> QED
    BY <2>2 DEF part, sought
<1>11. a \in c .. d /\ b \in a .. d
  BY <1>10 DEF Isolates
<1>12. \A p \in 1 .. c : SortedBefore(ids[p], id)
  BY <1>1, <1>3, <1>6, <1>7 DEF Isolates, SortedBefore
<1>13. \A p \in d+1 .. n : SortedBefore(id, ids[p])
  BY <1>1, <1>3, <1>6, <1>7 DEF Isolates, SortedBefore
<1>14. Position(id) =
         IF c = d THEN [found |-> FALSE, at |-> c]
         ELSE IF ids[d][2] < id[2] THEN [found |-> FALSE, at |-> d]
         ELSE IF ids[d][2] = id[2] THEN [found |-> TRUE, at |-> d - 1]
         ELSE [found |-> a # b, at |-> a]
  <2>1. Scope(Part(ids, 1), id[1], <<0, Len(ids)>>) = <<c, d>>
    BY <1>6 DEF n
  <2>2. <<c, d>>[1] = c /\ <<c, d>>[2] = d /\ <<a, b>>[1] = a /\ <<a, b>>[2] = b
    OBVIOUS
  <2> QED
    BY <1>10, <2>1, <2>2 DEF Position
<1>15. CASE c = d
  <2>1. Position(id) = [found |-> FALSE, at |-> c]
    BY <1>14, <1>15
  <2> QED
    BY <1>7, <1>12, <1>13, <1>15, <2>1 DEF Finds, n
<1>16. CASE c # d /\ ids[d][2] < id[2]
  <2>1. Position(id) = [found |-> FALSE, at |-> d]
    BY <1>14, <1>16
  <2>2. ASSUME NEW p \in 1 .. d PROVE SortedBefore(ids[p], id)
    <3>1. CASE p <= c
      BY <1>7, <1>12, <3>1
    <3>2. CASE p > c
      <4>1. p \in c+1 .. d /\ d \in c+1 .. d /\ p \in 1 .. n /\ d \in 1 .. n
        BY <1>1, <1>7, <3>2
      <4>2. ids[p][1] = id[1]
        BY <1>8, <4>1
      <4>3. ids[p][2] <= ids[d][2]
        <5>1. p < d => Part(ids, 2)[p] <= Part(ids, 2)[d]
          BY <1>9, <4>1 DEF Ascends
        <5>2. p < d \/ p = d
          BY <1>7, <4>1
        <5> QED
          BY <1>2, <1>3, <4>1, <5>1, <5>2
      <4> QED
        BY <1>2, <1>16, <4>1, <4>2, <4>3 DEF SortedBefore
    <3> QED
      BY <1>7, <3>1, <3>2
  <2> QED
    BY <1>7, <1>13, <2>1, <2>2 DEF Finds, n
<1>17. CASE c # d /\ ids[d][2] = id[2]
  <2>1. Position(id) = [found |-> TRUE, at |-> d - 1]
    BY <1>14, <1>17, <1>2
  <2>2. d \in c+1 .. d /\ d \in 1 .. n /\ d - 1 \in 0 .. n /\ (d - 1) + 1 = d
    BY <1>1, <1>7, <1>17
  <2>3. ids[d] = id
    BY <1>2, <1>8, <1>17, <2>2
  <2> QED
    BY <2>1, <2>2, <2>3 DEF Finds, n
<1>18. CASE c # d /\ ~(ids[d][2] < id[2]) /\ ids[d][2] # id[2]
  <2>1. Position(id) = [found |-> a # b, at |-> a]
    BY <1>14, <1>18
  <2>2. CASE a # b
    <3>1. a + 1 \in a+1 .. b /\ a + 1 \in c+1 .. d /\ a + 1 \in 1 .. n /\ a \in 0 .. n
      BY <1>1, <1>7, <1>11, <2>2
    <3>2. ids[a+1][2] = id[2]
      BY <1>3, <1>10, <3>1 DEF Isolates
    <3>3. ids[a+1] = id
      BY <1>2, <1>8, <3>1, <3>2
    <3>4. Position(id) = [found |-> TRUE, at |-> a]
      BY <2>1, <2>2
    <3> QED
      BY <3>1, <3>3, <3>4 DEF Finds, n
  <2>3. CASE a = b
    <3>1. ASSUME NEW p \in 1 .. a PROVE SortedBefore(ids[p], id)
      <4>1. CASE p <= c
        BY <1>7, <1>11, <1>12, <4>1
      <4>2. CASE p > c
        <5>1. p \in c+1 .. a /\ p \in c+1 .. d /\ p \in 1 .. n
          BY <1>1, <1>7, <1>11, <4>2
        <5>2. ids[p][2] < id[2]
          BY <1>3, <1>10, <5>1 DEF Isolates
        <5>3. ids[p][1] = id[1]
          BY <1>8, <5>1
        <5> QED
          BY <5>2, <5>3 DEF SortedBefore
      <4> QED
        BY <1>7, <1>11, <4>1, <4>2
    <3>2. ASSUME NEW p \in a+1 .. n PROVE SortedBefore(id, ids[p])
      <4>1. CASE p > d
        BY <1>7, <1>11, <1>13, <4>1
      <4>2. CASE p <= d
        <5>1. p \in b+1 .. d /\ p \in c+1 .. d /\ p \in 1 .. n
          BY <1>1, <1>7, <1>11, <2>3, <4>2
        <5>2. id[2] < ids[p][2]
          BY <1>3, <1>10, <5>1 DEF Isolates
        <5>3. ids[p][1] = id[1]
          BY <1>8, <5>1
        <5> QED
          BY <5>2, <5>3 DEF SortedBefore
      <4> QED
        BY <1>7, <1>11, <4>1, <4>2
    <3>3. a \in 0 .. n
      BY <1>1, <1>7, <1>11
    <3>4. Position(id) = [found |-> FALSE, at |-> a]
      BY <2>1, <2>3
    <3> QED
      BY <3>1, <3>2, <3>3, <3>4 DEF Finds, n
  <2> QED
    BY <2>2, <2>3
<1> QED
  BY <1>15, <1>16, <1>17, <1>18

-----------------------------------------------------------------------------
(* The index *)

CellOf(i) == IF Kinds[i] = "id" THEN PackedId ELSE Int

Tuples == {c \in [DOMAIN Kinds -> PackedId \cup Int] : \A i \in DOMAIN Kinds : c[i] \in CellOf(i)}

Entries == [key: Tuples, id: PackedId]

\* There are some number of columns.
LEMMA Columns == Len(Kinds) \in Nat /\ DOMAIN Kinds = 1 .. Len(Kinds)
BY KindsAssumption

\* Cells of a column are in an order.
LEMMA CellOrder ==
  ASSUME NEW i, NEW x \in CellOf(i), NEW y \in CellOf(i)
  PROVE  ~(CellBefore(i, x, y) /\ CellBefore(i, y, x)) /\ ~CellBefore(i, x, x)
<1>1. CASE Kinds[i] = "id"
  <2>1. x[1] \in Int /\ x[2] \in Int /\ y[1] \in Int /\ y[2] \in Int
    BY <1>1 DEF CellOf, PackedId
  <2> QED
    BY <1>1, <2>1 DEF CellBefore, SortedBefore
<1>2. CASE Kinds[i] # "id"
  BY <1>2 DEF CellOf, CellBefore
<1> QED
  BY <1>1, <1>2

AscendsCell(i, col, lo, hi) ==
  \A p, q \in lo+1 .. hi : p < q => ~CellBefore(i, col[q], col[p])

IsolatesCell(i, col, v, lo, hi, a, b) ==
  /\ a \in lo .. hi /\ b \in a .. hi
  /\ \A p \in lo+1 .. a : CellBefore(i, col[p], v)
  /\ \A p \in a+1 .. b : col[p] = v
  /\ \A p \in b+1 .. hi : CellBefore(i, v, col[p])

\* Column::scope_to_value finds the places of a cell.
LEMMA ScopeCellFinds ==
  ASSUME NEW i, NEW n \in Nat, NEW col \in [1 .. n -> CellOf(i)], NEW v \in CellOf(i),
         NEW lo \in 0 .. n, NEW hi \in 0 .. n, lo <= hi, AscendsCell(i, col, lo, hi)
  PROVE  \E a, b : /\ ScopeCell(Kinds[i], col, v, <<lo, hi>>) = <<a, b>>
                  /\ IsolatesCell(i, col, v, lo, hi, a, b)
<1>1. CASE Kinds[i] = "id"
  <2>1. col \in [1 .. n -> PackedId] /\ v \in PackedId
    BY <1>1 DEF CellOf
  <2>2. AscendsId(col, lo, hi)
    BY <1>1 DEF AscendsCell, AscendsId, CellBefore
  <2>3. PICK a, b : ScopeId(col, v, <<lo, hi>>) = <<a, b>> /\ IsolatesId(col, v, lo, hi, a, b)
    BY <2>1, <2>2, ScopeIdFinds
  <2>4. IsolatesCell(i, col, v, lo, hi, a, b)
    BY <1>1, <2>3 DEF IsolatesId, IsolatesCell, CellBefore
  <2> QED
    BY <1>1, <2>3, <2>4 DEF ScopeCell
<1>2. CASE Kinds[i] # "id"
  <2>1. col \in [1 .. n -> Int] /\ v \in Int
    BY <1>2 DEF CellOf
  <2>2. Ascends(col, lo, hi)
    <3> SUFFICES ASSUME NEW p \in lo+1 .. hi, NEW q \in lo+1 .. hi, p < q
                 PROVE  col[p] <= col[q]
      BY DEF Ascends
    <3>1. ~(col[q] < col[p])
      BY <1>2 DEF AscendsCell, CellBefore
    <3>2. col[p] \in Int /\ col[q] \in Int
      BY <2>1
    <3> QED
      BY <3>1, <3>2
  <2>3. PICK a, b : Scope(col, v, <<lo, hi>>) = <<a, b>> /\ Isolates(col, v, lo, hi, a, b)
    BY <2>1, <2>2, ScopeFinds
  <2>4. IsolatesCell(i, col, v, lo, hi, a, b)
    BY <1>2, <2>3 DEF Isolates, IsolatesCell, CellBefore
  <2> QED
    BY <1>2, <2>3, <2>4 DEF ScopeCell
<1> QED
  BY <1>1, <1>2

\* x comes before y in the first n cells.
Precedes(x, y, n) ==
  \E j \in 1 .. n : CellBefore(j, x[j], y[j]) /\ \A l \in 1 .. j-1 : x[l] = y[l]

Agrees(x, y, n) == \A l \in 1 .. n : x[l] = y[l]

StrictIndex(x) == \A p, q \in DOMAIN x : p < q => EntryBefore(x[p], x[q])

\* A key of the first m columns
KeyOf(k, m) == m \in 0 .. Len(Kinds) /\ \A i \in 1 .. m : k[i] \in CellOf(i)

\* The entries whose first n cells are those of k are those of the range <<a, b>>.
KeyRange(k, n, a, b) ==
  /\ a \in 0 .. Len(index) /\ b \in a .. Len(index)
  /\ \A p \in 1 .. a : Precedes(index[p].key, k, n)
  /\ \A p \in a+1 .. b : Agrees(index[p].key, k, n)
  /\ \A p \in b+1 .. Len(index) : Precedes(k, index[p].key, n)

IndexOK == index \in Seq(Entries) /\ StrictIndex(index)

KeyColumn(i) == [p \in DOMAIN index |-> index[p].key[i]]

\* What the entries are made of
LEMMA IndexParts ==
  ASSUME IndexOK
  PROVE  /\ Len(index) \in Nat /\ DOMAIN index = 1 .. Len(index)
         /\ \A p \in 1 .. Len(index) :
              /\ index[p] \in Entries /\ index[p].id \in PackedId
              /\ index[p].key \in Tuples
              /\ \A i \in 1 .. Len(Kinds) : index[p].key[i] \in CellOf(i)
         /\ \A i \in 1 .. Len(Kinds) : KeyColumn(i) \in [1 .. Len(index) -> CellOf(i)]
<1>1. Len(index) \in Nat /\ DOMAIN index = 1 .. Len(index)
  BY DEF IndexOK
<1>2. ASSUME NEW p \in 1 .. Len(index)
      PROVE  /\ index[p] \in Entries /\ index[p].id \in PackedId
             /\ index[p].key \in Tuples
             /\ \A i \in 1 .. Len(Kinds) : index[p].key[i] \in CellOf(i)
  <2>1. index[p] \in Entries
    BY <1>1 DEF IndexOK
  <2> QED
    BY <2>1, Columns DEF Entries, Tuples
<1> QED
  BY <1>1, <1>2 DEF KeyColumn

\* In a range of entries that agree on the columns before, a column ascends.
LEMMA ColumnAscends ==
  ASSUME IndexOK, NEW i \in 1 .. Len(Kinds), NEW k, NEW a \in 0 .. Len(index),
         NEW b \in 0 .. Len(index),
         \A p \in a+1 .. b : Agrees(index[p].key, k, i - 1)
  PROVE  AscendsCell(i, KeyColumn(i), a, b)
<1> SUFFICES ASSUME NEW p \in a+1 .. b, NEW q \in a+1 .. b, p < q
             PROVE  ~CellBefore(i, KeyColumn(i)[q], KeyColumn(i)[p])
  BY DEF AscendsCell
<1>0. p \in 1 .. Len(index) /\ q \in 1 .. Len(index)
  BY IndexParts
<1>1. KeyColumn(i)[p] = index[p].key[i] /\ KeyColumn(i)[q] = index[q].key[i]
  BY <1>0, IndexParts DEF KeyColumn
<1>2. PICK x, y : x = index[p].key /\ y = index[q].key
  OBVIOUS
<1>3. Precedes(x, y, Len(Kinds)) \/ x = y
  <2>1. EntryBefore(index[p], index[q])
    BY <1>0, IndexParts DEF IndexOK, StrictIndex
  <2> QED
    BY <1>2, <2>1, Columns DEF EntryBefore, Precedes
<1>4. x[i] \in CellOf(i) /\ y[i] \in CellOf(i)
  BY <1>0, <1>2, IndexParts
<1>5. \A l \in 1 .. i-1 : x[l] = y[l]
  BY <1>2 DEF Agrees
<1>6. CASE x = y
  BY <1>1, <1>2, <1>4, <1>6, CellOrder
<1>7. CASE Precedes(x, y, Len(Kinds))
  <2>1. PICK j \in 1 .. Len(Kinds) :
               CellBefore(j, x[j], y[j]) /\ \A l \in 1 .. j-1 : x[l] = y[l]
    BY <1>7 DEF Precedes
  <2>2. x[j] \in CellOf(j) /\ y[j] \in CellOf(j)
    BY <1>0, <1>2, IndexParts
  <2>3. ~(j < i)
    <3> SUFFICES ASSUME j < i PROVE FALSE
      OBVIOUS
    <3>1. x[j] = y[j]
      BY <1>5
    <3> QED
      BY <2>1, <2>2, <3>1, CellOrder
  <2>4. CASE j = i
    BY <1>1, <1>2, <1>4, <2>1, <2>4, CellOrder
  <2>5. CASE j > i
    <3>1. x[i] = y[i]
      BY <2>1, <2>5
    <3> QED
      BY <1>1, <1>2, <1>4, <3>1, CellOrder
  <2> QED
    BY <2>3, <2>4, <2>5
<1> QED
  BY <1>3, <1>6, <1>7

\* One more column narrows the range.
LEMMA NarrowOne ==
  ASSUME IndexOK, NEW i \in 1 .. Len(Kinds), NEW k, k[i] \in CellOf(i),
         NEW a, NEW b, KeyRange(k, i - 1, a, b)
  PROVE  \E c, d : /\ ScopeCell(Kinds[i], KeyColumn(i), k[i], <<a, b>>) = <<c, d>>
                  /\ KeyRange(k, i, c, d)
<1> DEFINE n == Len(index)
<1>1. n \in Nat /\ KeyColumn(i) \in [1 .. n -> CellOf(i)]
  BY IndexParts
<1>2. a \in 0 .. n /\ b \in a .. n /\ b \in 0 .. n /\ a <= b
  BY <1>1 DEF KeyRange
<1>3. AscendsCell(i, KeyColumn(i), a, b)
  BY <1>2, ColumnAscends DEF KeyRange
<1>4. PICK c, d : /\ ScopeCell(Kinds[i], KeyColumn(i), k[i], <<a, b>>) = <<c, d>>
                  /\ IsolatesCell(i, KeyColumn(i), k[i], a, b, c, d)
  BY <1>1, <1>2, <1>3, ScopeCellFinds
<1>5. c \in a .. b /\ d \in c .. b
  BY <1>4 DEF IsolatesCell
<1>6. \A p \in 1 .. n : KeyColumn(i)[p] = index[p].key[i]
  BY IndexParts DEF KeyColumn
<1>7. ASSUME NEW p \in 1 .. n, NEW x, x = index[p].key
      PROVE  /\ p <= c => Precedes(x, k, i)
             /\ p > c /\ p <= d => Agrees(x, k, i)
             /\ p > d => Precedes(k, x, i)
  <2>1. CASE p <= a
    <3>1. Precedes(x, k, i - 1)
      BY <1>7, <2>1 DEF KeyRange
    <3>2. Precedes(x, k, i)
      BY <3>1 DEF Precedes
    <3> QED
      BY <1>2, <1>5, <2>1, <3>2
  <2>2. CASE p > b
    <3>1. Precedes(k, x, i - 1)
      BY <1>2, <1>7, <2>2 DEF KeyRange
    <3>2. Precedes(k, x, i)
      BY <3>1 DEF Precedes
    <3> QED
      BY <1>2, <1>5, <2>2, <3>2
  <2>3. CASE p > a /\ p <= b
    <3>1. Agrees(x, k, i - 1)
      BY <1>2, <1>7, <2>3 DEF KeyRange
    <3>2. KeyColumn(i)[p] = x[i]
      BY <1>6, <1>7
    <3>3. p <= c => CellBefore(i, x[i], k[i])
      BY <1>2, <1>4, <1>5, <2>3, <3>2 DEF IsolatesCell
    <3>4. p > c /\ p <= d => x[i] = k[i]
      BY <1>2, <1>4, <1>5, <2>3, <3>2 DEF IsolatesCell
    <3>5. p > d => CellBefore(i, k[i], x[i])
      BY <1>2, <1>4, <1>5, <2>3, <3>2 DEF IsolatesCell
    <3>6. i \in 1 .. i /\ \A l \in 1 .. i : l = i \/ l \in 1 .. i-1
      OBVIOUS
    <3>7. CellBefore(i, x[i], k[i]) => Precedes(x, k, i)
      BY <3>1, <3>6 DEF Agrees, Precedes
    <3>8. CellBefore(i, k[i], x[i]) => Precedes(k, x, i)
      BY <3>1, <3>6 DEF Agrees, Precedes
    <3>9. x[i] = k[i] => Agrees(x, k, i)
      BY <3>1, <3>6 DEF Agrees
    <3> QED
      BY <3>3, <3>4, <3>5, <3>7, <3>8, <3>9
  <2> QED
    BY <1>2, <2>1, <2>2, <2>3
<1>8. KeyRange(k, i, c, d)
  <2>1. c \in 0 .. n /\ d \in c .. n
    BY <1>1, <1>2, <1>5
  <2>2. ASSUME NEW p \in 1 .. c PROVE Precedes(index[p].key, k, i)
    BY <1>7, <2>1
  <2>3. ASSUME NEW p \in c+1 .. d PROVE Agrees(index[p].key, k, i)
    BY <1>7, <2>1
  <2>4. ASSUME NEW p \in d+1 .. n PROVE Precedes(k, index[p].key, i)
    BY <1>7, <2>1
  <2> QED
    BY <2>1, <2>2, <2>3, <2>4 DEF KeyRange
<1> QED
  BY <1>4, <1>8

\* Every key column narrows the range of the one before.
Narrow(g, k, i) ==
  IF i = 0 THEN <<0, Len(index)>>
  ELSE ScopeCell(Kinds[i], [p \in DOMAIN index |-> index[p].key[i]], k[i], g[i - 1])

Narrows(g, k, m) == g = [i \in 0 .. m |-> Narrow(g, k, i)]


\* The function that narrows column by column exists.
LEMMA NarrowsExist ==
  ASSUME NEW m \in Nat, NEW k
  PROVE  \E g : Narrows(g, k, m)
<1> DEFINE T == {j \in Nat : \E g : Narrows(g, k, j)}
<1>1. 0 \in T
  <2> DEFINE g == [i \in 0 .. 0 |-> <<0, Len(index)>>]
  <2>1. Narrows(g, k, 0)
    BY DEF Narrows, Narrow
  <2> QED
    BY <2>1
<1>2. ASSUME NEW j \in Nat, j \in T PROVE j + 1 \in T
  <2>1. PICK g : Narrows(g, k, j)
    BY <1>2
  <2> DEFINE h == [i \in 0 .. j+1 |-> IF i <= j THEN g[i] ELSE Narrow(g, k, i)]
  <2>2. ASSUME NEW i \in 0 .. j+1 PROVE h[i] = Narrow(h, k, i)
    <3>1. h[i] = Narrow(g, k, i)
      BY <2>1 DEF Narrows
    <3>2. i # 0 => h[i - 1] = g[i - 1]
      OBVIOUS
    <3> HIDE DEF h
    <3>3. Narrow(g, k, i) = Narrow(h, k, i)
      BY <3>2 DEF Narrow
    <3> QED
      BY <3>1, <3>3
  <2>3. h = [i \in 0 .. j+1 |-> h[i]]
    OBVIOUS
  <2> HIDE DEF h
  <2>4. Narrows(h, k, j + 1)
    BY <2>2, <2>3 DEF Narrows
  <2> QED
    BY <2>4
<1> HIDE DEF T
<1>3. m \in T
  BY <1>1, <1>2, Interning!NatInd
<1> QED
  BY <1>3 DEF T

\* TableIndex::scope_key finds the entries that begin with a key.
LEMMA ScopeKeyFinds ==
  ASSUME IndexOK, NEW k, KeyOf(k, Len(k))
  PROVE  \E a, b : ScopeKey(k) = <<a, b>> /\ KeyRange(k, Len(k), a, b)
<1>1. PICK m : m = Len(k)
  OBVIOUS
<1>2. m \in Nat /\ m <= Len(Kinds) /\ KeyOf(k, m)
  BY <1>1, Columns DEF KeyOf
<1> DEFINE it == CHOOSE g : Narrows(g, k, Len(k))
<1>3. Narrows(it, k, m)
  BY <1>1, <1>2, NarrowsExist
<1>4. ScopeKey(k) = it[m]
  BY <1>1 DEF ScopeKey, Narrows, Narrow
<1> HIDE DEF it
<1>5. \A i \in 0 .. m : it[i] = Narrow(it, k, i)
  BY <1>3 DEF Narrows
<1> DEFINE T == {j \in Nat : j <= m => \E a, b : it[j] = <<a, b>> /\ KeyRange(k, j, a, b)}
<1>6. 0 \in T
  <2>1. it[0] = <<0, Len(index)>>
    <3>1. 0 \in 0 .. m
      BY <1>2
    <3>2. it[0] = Narrow(it, k, 0)
      BY <1>5, <3>1
    <3> QED
      BY <3>2 DEF Narrow
  <2>2. KeyRange(k, 0, 0, Len(index))
    BY IndexParts DEF KeyRange, Agrees
  <2> QED
    BY <2>1, <2>2
<1>7. ASSUME NEW j \in Nat, j \in T PROVE j + 1 \in T
  <2> SUFFICES ASSUME j + 1 <= m
               PROVE  \E a, b : it[j+1] = <<a, b>> /\ KeyRange(k, j + 1, a, b)
    OBVIOUS
  <2>1. PICK a, b : it[j] = <<a, b>> /\ KeyRange(k, j, a, b)
    BY <1>2, <1>7

  <2>2. PICK i : i = j + 1
    OBVIOUS
  <2>3. i \in 1 .. Len(Kinds) /\ i \in 0 .. m /\ i # 0 /\ i - 1 = j /\ i \in 1 .. m
    BY <1>2, <2>2, Columns
  <2>4. k[i] \in CellOf(i)
    BY <1>2, <2>3 DEF KeyOf
  <2>5. KeyRange(k, i - 1, a, b)
    BY <2>1, <2>3
  <2>6. PICK c, d : /\ ScopeCell(Kinds[i], KeyColumn(i), k[i], <<a, b>>) = <<c, d>>
                    /\ KeyRange(k, i, c, d)
    BY <2>3, <2>4, <2>5, NarrowOne
  <2>7. it[i] = ScopeCell(Kinds[i], KeyColumn(i), k[i], it[i - 1])
    BY <1>5, <2>3 DEF Narrow, KeyColumn
  <2> QED
    BY <2>1, <2>2, <2>3, <2>6, <2>7
<1> HIDE DEF T
<1>8. m \in T
  BY <1>2, <1>6, <1>7, Interning!NatInd
<1> QED
  BY <1>1, <1>2, <1>4, <1>8 DEF T

\* A cell that comes before another differs from it.
LEMMA PrecedesDiffers ==
  ASSUME NEW n \in 0 .. Len(Kinds), NEW x, NEW y,
         \A i \in 1 .. n : x[i] \in CellOf(i) /\ y[i] \in CellOf(i),
         Precedes(x, y, n) \/ Precedes(y, x, n)
  PROVE  ~Agrees(x, y, n)
<1>1. CASE Precedes(x, y, n)
  BY <1>1, CellOrder DEF Precedes, Agrees
<1>2. CASE Precedes(y, x, n)
  BY <1>2, CellOrder DEF Precedes, Agrees
<1> QED
  BY <1>1, <1>2

\* TableIndex::get returns the ids of the entries that begin with the key.
LEMMA SeekFinds ==
  ASSUME IndexOK, NEW k, KeyOf(k, Len(k))
  PROVE  /\ Range(Seek(k)) = {index[p].id : p \in {q \in 1 .. Len(index) :
                                                     Agrees(index[q].key, k, Len(k))}}
         /\ Seek(k) = <<>> <=> \A p \in 1 .. Len(index) : ~Agrees(index[p].key, k, Len(k))
<1>1. PICK a, b : ScopeKey(k) = <<a, b>> /\ KeyRange(k, Len(k), a, b)
  BY ScopeKeyFinds
<1>2. PICK n : n = Len(index)
  OBVIOUS
<1>3. n \in Nat /\ a \in 0 .. n /\ b \in a .. n /\ b - a \in Nat
  BY <1>1, <1>2, IndexParts DEF KeyRange
<1>4. ASSUME NEW p \in 1 .. n
      PROVE  Agrees(index[p].key, k, Len(k)) <=> p \in a+1 .. b
  <2>1. PICK m \in 0 .. Len(Kinds) : m = Len(k)
    BY DEF KeyOf
  <2>2. PICK x : x = index[p].key
    OBVIOUS
  <2>3. \A i \in 1 .. m : x[i] \in CellOf(i) /\ k[i] \in CellOf(i)
    BY <1>2, <2>1, <2>2, IndexParts, Columns DEF KeyOf
  <2>4. CASE p \in a+1 .. b
    BY <1>1, <2>4 DEF KeyRange
  <2>5. CASE p <= a
    <3>1. Precedes(x, k, m)
      BY <1>1, <1>2, <2>1, <2>2, <2>5 DEF KeyRange
    <3>2. ~Agrees(x, k, m)
      BY <2>3, <3>1, PrecedesDiffers
    <3> QED
      BY <1>3, <2>1, <2>2, <2>5, <3>2
  <2>6. CASE p > b
    <3>1. Precedes(k, x, m)
      BY <1>1, <1>2, <1>3, <2>1, <2>2, <2>6 DEF KeyRange
    <3>2. ~Agrees(x, k, m)
      BY <2>3, <3>1, PrecedesDiffers
    <3> QED
      BY <1>3, <2>1, <2>2, <2>6, <3>2
  <2> QED
    BY <1>3, <2>4, <2>5, <2>6
<1>5. PICK found : found = Seek(k)
  OBVIOUS
<1>6. found = [i \in 1 .. b - a |-> index[a + i].id]
  BY <1>1, <1>5 DEF Seek
<1>7. Range(found) = {index[p].id : p \in a+1 .. b}
  <2>1. ASSUME NEW i \in 1 .. b - a PROVE a + i \in a+1 .. b
    BY <1>3
  <2>2. ASSUME NEW p \in a+1 .. b PROVE p - a \in 1 .. b - a /\ a + (p - a) = p
    BY <1>3
  <2> QED
    BY <1>6, <2>1, <2>2 DEF Range
<1>8. {q \in 1 .. n : Agrees(index[q].key, k, Len(k))} = a+1 .. b
  BY <1>3, <1>4
<1>9. found = <<>> <=> a = b
  <2>1. CASE a = b
    <3>1. 1 .. b - a = {}
      BY <1>3, <2>1
    <3> QED
      BY <1>6, <2>1, <3>1
  <2>2. CASE a # b
    <3>1. 1 \in DOMAIN found
      BY <1>3, <1>6, <2>2
    <3> QED
      BY <2>2, <3>1
  <2> QED
    BY <2>1, <2>2
<1>10. a = b <=> \A p \in 1 .. n : ~Agrees(index[p].key, k, Len(k))
  <2>1. a # b => a + 1 \in a+1 .. b /\ a + 1 \in 1 .. n
    BY <1>3
  <2> QED
    BY <1>3, <1>4, <2>1
<1> QED
  BY <1>2, <1>5, <1>7, <1>8, <1>9, <1>10


\* An entry comes before another by its cells or, if these are equal, by its id.
LEMMA EntryIs ==
  ASSUME NEW x, NEW y
  PROVE  EntryBefore(x, y) <=> \/ Precedes(x.key, y.key, Len(Kinds))
                               \/ x.key = y.key /\ SortedBefore(x.id, y.id)
<1>1. DOMAIN Kinds = 1 .. Len(Kinds)
  BY Columns
<1> QED
  BY <1>1, Zenon DEF EntryBefore, Precedes

\* Entries of one key are in the order of their ids.
LEMMA EntryOrder ==
  ASSUME NEW x \in Entries, NEW y \in Entries
  PROVE  ~(EntryBefore(x, y) /\ EntryBefore(y, x)) /\ ~EntryBefore(x, x)
<1>1. /\ \A i \in 1 .. Len(Kinds) : x.key[i] \in CellOf(i) /\ y.key[i] \in CellOf(i)
      /\ x.id[1] \in Int /\ x.id[2] \in Int /\ y.id[1] \in Int /\ y.id[2] \in Int
  BY Columns DEF Entries, Tuples, PackedId
<1>2. ASSUME NEW v, NEW w, EntryBefore(v, w)
      PROVE  Precedes(v.key, w.key, Len(Kinds)) \/ (v.key = w.key /\ SortedBefore(v.id, w.id))
  BY <1>2, EntryIs, Zenon
<1>3. ~Precedes(x.key, x.key, Len(Kinds))
  BY <1>1, CellOrder DEF Precedes
<1>4. ~(Precedes(x.key, y.key, Len(Kinds)) /\ Precedes(y.key, x.key, Len(Kinds)))
  <2> SUFFICES ASSUME NEW j \in 1 .. Len(Kinds), NEW l \in 1 .. Len(Kinds),
                      CellBefore(j, x.key[j], y.key[j]),
                      \A i \in 1 .. j-1 : x.key[i] = y.key[i],
                      CellBefore(l, y.key[l], x.key[l]),
                      \A i \in 1 .. l-1 : y.key[i] = x.key[i]
               PROVE  FALSE
    BY DEF Precedes
  <2>1. CASE j = l
    BY <1>1, <2>1, CellOrder
  <2>2. CASE j < l
    <3>1. y.key[j] = x.key[j]
      BY <2>2
    <3> QED
      BY <1>1, <3>1, CellOrder
  <2>3. CASE l < j
    <3>1. x.key[l] = y.key[l]
      BY <2>3
    <3> QED
      BY <1>1, <3>1, CellOrder
  <2> QED
    BY <2>1, <2>2, <2>3
<1>5. ~(SortedBefore(x.id, y.id) /\ SortedBefore(y.id, x.id)) /\ ~SortedBefore(x.id, x.id)
  BY <1>1 DEF SortedBefore
<1>6. x.key = y.key => ~Precedes(x.key, y.key, Len(Kinds)) /\ ~Precedes(y.key, x.key, Len(Kinds))
  BY <1>3
<1>7. ASSUME EntryBefore(x, y), EntryBefore(y, x) PROVE FALSE
  <2>1. Precedes(x.key, y.key, Len(Kinds)) \/ (x.key = y.key /\ SortedBefore(x.id, y.id))
    BY <1>2, <1>7
  <2>2. Precedes(y.key, x.key, Len(Kinds)) \/ (y.key = x.key /\ SortedBefore(y.id, x.id))

    BY <1>2, <1>7
  <2> QED
    BY <1>4, <1>5, <1>6, <2>1, <2>2
<1>8. ~EntryBefore(x, x)
  <2>1. EntryBefore(x, x) => Precedes(x.key, x.key, Len(Kinds)) \/ SortedBefore(x.id, x.id)
    BY <1>2
  <2> QED
    BY <1>3, <1>5, <2>1
<1> QED
  BY <1>7, <1>8

\* The entries before the range <<a, b>> come before e, those in it are e.
EntryRange(e, a, b) ==
  /\ a \in 0 .. Len(index) /\ b \in a .. Len(index)
  /\ \A p \in 1 .. a : EntryBefore(index[p], e)
  /\ \A p \in a+1 .. b : index[p] = e
  /\ \A p \in b+1 .. Len(index) : EntryBefore(e, index[p])

\* A search for an entry finds its place, or where it belongs.
LEMMA ScopeEntryFinds ==
  ASSUME IndexOK, NEW k \in Tuples, NEW id \in PackedId
  PROVE  \E a, b : ScopeEntry(k, id) = <<a, b>> /\ EntryRange([key |-> k, id |-> id], a, b)
<1>1. PICK e : e = [key |-> k, id |-> id]
  OBVIOUS
<1>2. e.key = k /\ e.id = id /\ e \in Entries
  BY <1>1 DEF Entries
<1>3. PICK n : n = Len(index)
  OBVIOUS
<1>4. Len(k) = Len(Kinds) /\ KeyOf(k, Len(k))
  <2>1. k \in [1 .. Len(Kinds) -> PackedId \cup Int]
    BY Columns DEF Tuples
  <2>2. Len(k) = Len(Kinds)
    BY <2>1, Columns
  <2> QED
    BY <2>2, Columns DEF KeyOf, Tuples
<1>5. PICK c, d : ScopeKey(k) = <<c, d>> /\ KeyRange(k, Len(k), c, d)
  BY <1>4, ScopeKeyFinds
<1>6. n \in Nat /\ c \in 0 .. n /\ d \in c .. n /\ d \in 0 .. n /\ c <= d
  BY <1>3, <1>5, IndexParts DEF KeyRange
<1>7. \A p \in 1 .. n : index[p] \in Entries /\ index[p].key \in Tuples /\ index[p].id \in PackedId
                        /\ index[p] = [key |-> index[p].key, id |-> index[p].id]
  BY <1>3, IndexParts DEF Entries
<1>8. ASSUME NEW p \in c+1 .. d PROVE p \in 1 .. n /\ index[p].key = k
  <2>1. p \in 1 .. n
    BY <1>6
  <2>2. PICK x : x = index[p].key
    OBVIOUS
  <2>3. Agrees(x, k, Len(Kinds))
    BY <1>4, <1>5, <2>2 DEF KeyRange
  <2>4. x \in [DOMAIN Kinds -> PackedId \cup Int] /\ k \in [DOMAIN Kinds -> PackedId \cup Int]
    BY <1>7, <2>1, <2>2 DEF Tuples
  <2>5. x = k
    BY <2>3, <2>4, Columns DEF Agrees
  <2> QED
    BY <2>1, <2>2, <2>5
<1>9. PICK col : col = [p \in DOMAIN index |-> index[p].id]
  OBVIOUS
<1>10. col \in [1 .. n -> PackedId] /\ \A p \in 1 .. n : col[p] = index[p].id
  BY <1>3, <1>7, <1>9, IndexParts
<1>11. AscendsId(col, c, d)
  <2> SUFFICES ASSUME NEW p \in c+1 .. d, NEW q \in c+1 .. d, p < q
               PROVE  ~SortedBefore(col[q], col[p])
    BY DEF AscendsId
  <2>1. p \in 1 .. n /\ q \in 1 .. n /\ index[p].key = index[q].key
    BY <1>8
  <2>2. EntryBefore(index[p], index[q])
    BY <1>3, <2>1, IndexParts DEF IndexOK, StrictIndex
  <2>3. SortedBefore(index[q].id, index[p].id) => EntryBefore(index[q], index[p])
    BY <2>1 DEF EntryBefore
  <2> QED
    BY <1>7, <1>10, <2>1, <2>2, <2>3, EntryOrder
<1>12. PICK a, b : ScopeId(col, id, <<c, d>>) = <<a, b>> /\ IsolatesId(col, id, c, d, a, b)
  BY <1>6, <1>10, <1>11, ScopeIdFinds
<1>13. ScopeEntry(k, id) = <<a, b>>
  BY <1>5, <1>9, <1>12 DEF ScopeEntry
<1>14. a \in c .. d /\ b \in a .. d /\ a \in 0 .. n /\ b \in a .. n
  BY <1>6, <1>12 DEF IsolatesId
<1>15. ASSUME NEW v, NEW w, Precedes(v.key, w.key, Len(Kinds)) PROVE EntryBefore(v, w)
  BY <1>15, EntryIs
<1>16. ASSUME NEW v, NEW w, v.key = w.key, SortedBefore(v.id, w.id) PROVE EntryBefore(v, w)
  BY <1>16, EntryIs
<1>17. ASSUME NEW p \in 1 .. n
       PROVE  /\ p <= a => EntryBefore(index[p], e)
              /\ p > a /\ p <= b => index[p] = e
              /\ p > b => EntryBefore(e, index[p])
  <2>1. CASE p <= c
    <3>1. Precedes(index[p].key, e.key, Len(Kinds))
      BY <1>2, <1>4, <1>5, <2>1 DEF KeyRange
    <3> QED
      BY <1>14, <1>6, <1>15, <2>1, <3>1
  <2>2. CASE p > d
    <3>1. p \in d+1 .. n
      BY <1>6, <2>2
    <3>2. Precedes(e.key, index[p].key, Len(Kinds))
      BY <1>2, <1>3, <1>4, <1>5, <3>1 DEF KeyRange
    <3> QED
      BY <1>14, <1>6, <1>15, <2>2, <3>2
  <2>3. CASE p > c /\ p <= d
    <3>1. p \in c+1 .. d
      BY <1>6, <2>3
    <3>2. index[p].key = e.key /\ col[p] = index[p].id
      BY <1>2, <1>8, <1>10, <3>1
    <3>3. p <= a => SortedBefore(index[p].id, e.id)
      BY <1>2, <1>12, <1>14, <3>1, <3>2 DEF IsolatesId
    <3>4. p > a /\ p <= b => index[p].id = e.id
      BY <1>2, <1>12, <1>14, <3>1, <3>2 DEF IsolatesId
    <3>5. p > b => SortedBefore(e.id, index[p].id)
      BY <1>2, <1>12, <1>14, <3>1, <3>2 DEF IsolatesId
    <3>6. p > a /\ p <= b => index[p] = e
      BY <1>1, <1>2, <1>7, <3>2, <3>4
    <3> QED
      BY <1>16, <3>2, <3>3, <3>5, <3>6
  <2> QED
    BY <1>6, <2>1, <2>2, <2>3
<1>18. EntryRange(e, a, b)
  <2>1. ASSUME NEW p \in 1 .. a PROVE EntryBefore(index[p], e)
    <3>1. p \in 1 .. n /\ p <= a
      BY <1>6, <1>14
    <3> QED
      BY <1>17, <3>1
  <2>2. ASSUME NEW p \in a+1 .. b PROVE index[p] = e
    <3>1. p \in 1 .. n /\ p > a /\ p <= b
      BY <1>6, <1>14
    <3> QED
      BY <1>17, <3>1
  <2>3. ASSUME NEW p \in b+1 .. n PROVE EntryBefore(e, index[p])
    <3>1. p \in 1 .. n /\ p > b
      BY <1>6, <1>14
    <3> QED
      BY <1>17, <3>1
  <2> QED
    BY <1>3, <1>14, <2>1, <2>2, <2>3 DEF EntryRange
<1> QED
  BY <1>1, <1>13, <1>18

-----------------------------------------------------------------------------
(* Insertion and removal *)

\* y is x with e at a place of its own, or without the places after a up to b.
Grown(x, y, n, at, e) ==
  \A p \in 1 .. n+1 : y[p] = IF p < at THEN x[p] ELSE IF p = at THEN e ELSE x[p - 1]

Cut(x, y, n, a, b) ==
  \A p \in 1 .. n - (b - a) : y[p] = IF p <= a THEN x[p] ELSE x[p + (b - a)]

Without(s, a, b) == SubSeq(s, 1, a) \o SubSeq(s, b + 1, Len(s))

\* A sequence without the places after a up to b
LEMMA CutIs ==
  ASSUME NEW S, NEW s \in Seq(S), NEW a \in 0 .. Len(s), NEW b \in a .. Len(s),
         NEW r, r = Without(s, a, b)
  PROVE  /\ r \in Seq(S) /\ Len(r) = Len(s) - (b - a)
         /\ DOMAIN r = 1 .. Len(s) - (b - a)
         /\ Cut(s, r, Len(s), a, b)
<1>1. PICK u, v : u = SubSeq(s, 1, a) /\ v = SubSeq(s, b + 1, Len(s))
  OBVIOUS
<1>2. Len(s) \in Nat /\ a \in Nat /\ b \in Nat /\ a <= b /\ b <= Len(s)
  OBVIOUS
<1>3. u \in Seq(S) /\ Len(u) = a /\ \A p \in 1 .. a : u[p] = s[p]
  BY <1>1, <1>2, SubSeqProperties
<1>4. v \in Seq(S) /\ Len(v) = Len(s) - b /\ \A p \in 1 .. Len(s) - b : v[p] = s[p + b]
  BY <1>1, <1>2, SubSeqProperties
<1>5. r \in Seq(S) /\ Len(r) = a + (Len(s) - b)
      /\ \A p \in 1 .. a + (Len(s) - b) : r[p] = IF p <= a THEN u[p] ELSE v[p - a]
  <2>1. r = u \o v
    BY <1>1 DEF Without
  <2>2. u \in Seq(S) /\ v \in Seq(S)
    BY <1>3, <1>4
  <2>3. /\ r \in Seq(S) /\ Len(r) = Len(u) + Len(v)
        /\ \A p \in 1 .. Len(u) + Len(v) : r[p] = IF p <= Len(u) THEN u[p] ELSE v[p - Len(u)]
    BY <2>1, <2>2, ConcatProperties
  <2> QED
    BY <1>3, <1>4, <2>3

<1>6. ASSUME NEW p \in 1 .. Len(s) - (b - a)
      PROVE  r[p] = IF p <= a THEN s[p] ELSE s[p + (b - a)]
  <2>1. p \in 1 .. a + (Len(s) - b)
    BY <1>2
  <2>2. CASE p <= a
    <3>1. p \in 1 .. a
      BY <1>2, <2>2
    <3>2. r[p] = u[p]
      BY <1>5, <2>1, <2>2
    <3> QED
      BY <1>3, <2>2, <3>1, <3>2
  <2>3. CASE ~(p <= a)
    <3>1. p - a \in 1 .. Len(s) - b /\ (p - a) + b = p + (b - a)
      BY <1>2, <2>3
    <3>2. r[p] = v[p - a]
      BY <1>5, <2>1, <2>3
    <3>3. v[p - a] = s[(p - a) + b]
      BY <1>4, <3>1
    <3> QED
      BY <2>3, <3>1, <3>2, <3>3
  <2> QED
    BY <2>2, <2>3
<1>7. Len(r) = Len(s) - (b - a) /\ DOMAIN r = 1 .. Len(s) - (b - a)
  BY <1>2, <1>5
<1> QED
  BY <1>5, <1>6, <1>7 DEF Cut

\* A sequence with one more element
LEMMA InsertIs ==
  ASSUME NEW S, NEW s \in Seq(S), NEW e \in S, NEW at \in 1 .. Len(s) + 1,
         NEW r, r = InsertAt(s, at, e)
  PROVE  /\ r \in Seq(S) /\ Len(r) = Len(s) + 1 /\ DOMAIN r = 1 .. Len(s) + 1
         /\ Grown(s, r, Len(s), at, e)
<1>1. PICK u, v : u = SubSeq(s, 1, at - 1) /\ v = SubSeq(s, at, Len(s))
  OBVIOUS
<1>2. Len(s) \in Nat /\ at \in Nat /\ 1 <= at /\ at <= Len(s) + 1
  OBVIOUS
<1>3. u \in Seq(S) /\ Len(u) = at - 1 /\ \A p \in 1 .. at - 1 : u[p] = s[p]
  BY <1>1, <1>2, SubSeqProperties
<1>4. v \in Seq(S) /\ Len(v) = Len(s) - at + 1
      /\ \A p \in 1 .. Len(s) - at + 1 : v[p] = s[p + at - 1]
  BY <1>1, <1>2, SubSeqProperties
<1>5. PICK w : w = Append(u, e)
  OBVIOUS
<1>6. w \in Seq(S) /\ Len(w) = at /\ w[at] = e /\ \A p \in 1 .. at - 1 : w[p] = s[p]
  BY <1>2, <1>3, <1>5
<1>7. w = u \o <<e>>
  BY <1>3, <1>5
<1>8. r = w \o v
  BY <1>1, <1>7 DEF InsertAt
<1>9. /\ r \in Seq(S) /\ Len(r) = Len(w) + Len(v)
      /\ \A p \in 1 .. Len(w) + Len(v) : r[p] = IF p <= Len(w) THEN w[p] ELSE v[p - Len(w)]
  <2>1. w \in Seq(S) /\ v \in Seq(S)
    BY <1>4, <1>6
  <2> QED
    BY <1>8, <2>1, ConcatProperties
<1>10. ASSUME NEW p \in 1 .. Len(s) + 1
       PROVE  r[p] = IF p < at THEN s[p] ELSE IF p = at THEN e ELSE s[p - 1]
  <2>1. p \in 1 .. Len(w) + Len(v)
    BY <1>2, <1>4, <1>6
  <2>2. CASE p < at
    <3>1. p \in 1 .. at - 1 /\ p <= Len(w)
      BY <1>2, <1>6, <2>2
    <3> QED
      BY <1>6, <1>9, <2>1, <2>2, <3>1
  <2>3. CASE p = at
    BY <1>2, <1>6, <1>9, <2>1, <2>3
  <2>4. CASE p > at
    <3>1. p - at \in 1 .. Len(s) - at + 1 /\ (p - at) + at - 1 = p - 1 /\ ~(p <= Len(w))
      BY <1>2, <1>6, <2>4
    <3>2. r[p] = v[p - at]
      BY <1>6, <1>9, <2>1, <3>1
    <3>3. v[p - at] = s[p - 1]
      BY <1>4, <3>1
    <3>4. ~(p < at) /\ p # at
      BY <1>2, <2>4
    <3> QED
      BY <3>2, <3>3, <3>4

  <2> QED
    BY <1>2, <2>2, <2>3, <2>4
<1> QED
  BY <1>2, <1>4, <1>6, <1>9, <1>10 DEF Grown

\* v is one of the first n elements of x.
Has(x, n, v) == \E p \in 1 .. n : x[p] = v

\* What is in a sequence with one more element
LEMMA GrownRange ==
  ASSUME NEW n \in Nat, NEW at \in 1 .. n+1, NEW x, NEW y, NEW e,
         Grown(x, y, n, at, e)
  PROVE  \A v : Has(y, n + 1, v) <=> Has(x, n, v) \/ v = e
<1>0. /\ \A p \in 1 .. n+1 : p < at => y[p] = x[p]
      /\ \A p \in 1 .. n+1 : ~(p < at) /\ p # at => y[p] = x[p - 1]
      /\ \A p \in 1 .. n+1 : p = at => y[p] = e
  BY DEF Grown
<1>1. ASSUME NEW p \in 1 .. n+1
      PROVE  y[p] \in {x[q] : q \in 1 .. n} \cup {e}
  <2>1. p < at => p \in 1 .. n
    OBVIOUS
  <2>2. ~(p < at) /\ p # at => p - 1 \in 1 .. n
    OBVIOUS
  <2> QED
    BY <1>0, <2>1, <2>2
<1>2. ASSUME NEW p \in 1 .. n PROVE x[p] \in {y[q] : q \in 1 .. n+1}
  <2>1. CASE p < at
    <3>1. p \in 1 .. n+1
      OBVIOUS
    <3>2. y[p] = x[p]
      BY <1>0, <2>1, <3>1
    <3> QED
      BY <3>1, <3>2
  <2>2. CASE ~(p < at)
    <3>1. p + 1 \in 1 .. n+1 /\ ~(p + 1 < at) /\ p + 1 # at /\ (p + 1) - 1 = p
      BY <2>2
    <3>2. y[p + 1] = x[p]
      BY <1>0, <3>1
    <3> QED
      BY <3>1, <3>2
  <2> QED
    BY <2>1, <2>2
<1>3. at \in 1 .. n+1 /\ y[at] = e
  BY <1>0
<1> QED
  BY <1>1, <1>2, <1>3 DEF Has

\* What is in a sequence without the places after a up to b
LEMMA CutRange ==
  ASSUME NEW n \in Nat, NEW a \in 0 .. n, NEW b \in a .. n, NEW x, NEW y,
         Cut(x, y, n, a, b)
  PROVE  \A v : Has(y, n - (b - a), v) <=> \E p \in 1 .. n : (p <= a \/ p > b) /\ x[p] = v
<1> DEFINE kept == {q \in 1 .. n : q <= a \/ q > b}
<1>1. ASSUME NEW p \in 1 .. n - (b - a) PROVE y[p] \in {x[q] : q \in kept}
  <2>1. p <= a => p \in kept
    OBVIOUS
  <2>2. ~(p <= a) => p + (b - a) \in kept
    OBVIOUS
  <2> QED
    BY <2>1, <2>2 DEF Cut
<1>2. ASSUME NEW p \in kept PROVE x[p] \in {y[q] : q \in 1 .. n - (b - a)}
  <2>1. CASE p <= a
    <3>1. p \in 1 .. n - (b - a)
      BY <2>1
    <3>2. y[p] = x[p]
      BY <2>1, <3>1 DEF Cut
    <3> QED
      BY <3>1, <3>2
  <2>2. CASE p > b
    <3>1. /\ p - (b - a) \in 1 .. n - (b - a)
          /\ ~(p - (b - a) <= a) /\ (p - (b - a)) + (b - a) = p
      BY <2>2
    <3>2. y[p - (b - a)] = x[p]
      BY <3>1 DEF Cut
    <3> QED
      BY <3>1, <3>2
  <2> QED
    BY <2>1, <2>2
<1>3. ASSUME NEW v
      PROVE  Has(y, n - (b - a), v) <=> \E p \in 1 .. n : (p <= a \/ p > b) /\ x[p] = v
  <2>1. ASSUME NEW p \in 1 .. n - (b - a), y[p] = v
        PROVE  \E q \in 1 .. n : (q <= a \/ q > b) /\ x[q] = v
    BY <1>1, <2>1
  <2>2. ASSUME NEW q \in 1 .. n, q <= a \/ q > b, x[q] = v
        PROVE  \E p \in 1 .. n - (b - a) : y[p] = v
    BY <1>2, <2>2
  <2> QED
    BY <2>1, <2>2 DEF Has
<1> QED
  BY <1>3

\* Two places of y hold two elements of x in their order there.
OldPair(x, y, n, p, q) == \E v, w \in 1 .. n : v < w /\ y[p] = x[v] /\ y[q] = x[w]

\* One of the places holds the new element e, the other one an old element.
NewPair(x, y, n, at, e, p, q) ==
  \/ y[q] = e /\ \E v \in 1 .. at - 1 : y[p] = x[v]
  \/ y[p] = e /\ \E w \in at .. n : y[q] = x[w]

\* Two places in order hold two elements in order, or the new one and one of them.
LEMMA GrownPairs ==
  ASSUME NEW n \in Nat, NEW at \in 1 .. n+1, NEW x, NEW y, NEW e,
         Grown(x, y, n, at, e)
  PROVE  \A p, q \in 1 .. n+1 :
           p < q => OldPair(x, y, n, p, q) \/ NewPair(x, y, n, at, e, p, q)
<1> SUFFICES ASSUME NEW p \in 1 .. n+1, NEW q \in 1 .. n+1, p < q
             PROVE  OldPair(x, y, n, p, q) \/ NewPair(x, y, n, at, e, p, q)
  OBVIOUS
<1> USE DEF OldPair, NewPair
<1>0. /\ \A v \in 1 .. n+1 : v < at => y[v] = x[v]
      /\ \A v \in 1 .. n+1 : ~(v < at) /\ v # at => y[v] = x[v - 1]
      /\ \A v \in 1 .. n+1 : v = at => y[v] = e
  BY DEF Grown
<1>1. CASE q < at
  <2>1. p \in 1 .. n /\ q \in 1 .. n /\ p < at
    BY <1>1
  <2> QED
    BY <1>0, <1>1, <2>1
<1>2. CASE q = at
  <2>1. p \in 1 .. at - 1 /\ p < at
    BY <1>2
  <2> QED
    BY <1>0, <1>2, <2>1
<1>3. CASE q > at /\ p < at
  <2>1. p \in 1 .. n /\ q - 1 \in 1 .. n /\ p < q - 1 /\ ~(q < at) /\ q # at
    BY <1>3
  <2>2. y[p] = x[p] /\ y[q] = x[q - 1]
    BY <1>0, <1>3, <2>1
  <2> QED
    BY <2>1, <2>2
<1>4. CASE p = at
  <2>1. q - 1 \in at .. n /\ ~(q < at) /\ q # at
    BY <1>4
  <2>2. y[p] = e /\ y[q] = x[q - 1]
    BY <1>0, <1>4, <2>1
  <2> QED
    BY <2>1, <2>2
<1>5. CASE p > at
  <2>1. /\ p - 1 \in 1 .. n /\ q - 1 \in 1 .. n /\ p - 1 < q - 1
        /\ ~(q < at) /\ q # at /\ ~(p < at) /\ p # at
    BY <1>5
  <2>2. y[p] = x[p - 1] /\ y[q] = x[q - 1]
    BY <1>0, <2>1
  <2> QED
    BY <2>1, <2>2
<1> QED
  BY <1>1, <1>2, <1>3, <1>4, <1>5

\* Two places in order hold two elements in order.
LEMMA CutPairs ==
  ASSUME NEW n \in Nat, NEW a \in 0 .. n, NEW b \in a .. n, NEW x, NEW y,
         Cut(x, y, n, a, b)
  PROVE  \A p, q \in 1 .. n - (b - a) : p < q => OldPair(x, y, n, p, q)
<1> SUFFICES ASSUME NEW p \in 1 .. n - (b - a), NEW q \in 1 .. n - (b - a), p < q
             PROVE  OldPair(x, y, n, p, q)
  OBVIOUS
<1>1. PICK v, w : /\ v = IF p <= a THEN p ELSE p + (b - a)
                  /\ w = IF q <= a THEN q ELSE q + (b - a)
  OBVIOUS
<1>2. v \in 1 .. n /\ w \in 1 .. n /\ v < w
  BY <1>1
<1>3. y[p] = x[v] /\ y[q] = x[w]
  BY <1>1 DEF Cut
<1> QED
  BY <1>2, <1>3 DEF OldPair

-----------------------------------------------------------------------------
(* The rows stored *)

\* Packed ids and cells of the rows, as they stand in the columns
Stock == {<<ids[p], [i \in DOMAIN Kinds |-> cols[i][p]]>> : p \in DOMAIN ids}

\* Columns and index are sorted and hold the same rows.
Layout ==
  /\ ids \in Seq(PackedId) /\ StrictId(ids)
  /\ DOMAIN cols = DOMAIN Kinds
  /\ \A i \in DOMAIN Kinds : cols[i] \in Seq(CellOf(i)) /\ Len(cols[i]) = Len(ids)
  /\ IndexOK
  /\ {<<index[p].id, index[p].key>> : p \in DOMAIN index} = Stock

\* The rows at the places of the columns
LEMMA Lines ==
  ASSUME Layout
  PROVE  /\ Len(ids) \in Nat /\ DOMAIN ids = 1 .. Len(ids)
         /\ \A p \in 1 .. Len(ids) :
              /\ ids[p] \in PackedId /\ RowAt(p - 1) \in Tuples
              /\ RowAt(p - 1) = [i \in DOMAIN Kinds |-> cols[i][p]]
         /\ Stock = {<<ids[p], RowAt(p - 1)>> : p \in 1 .. Len(ids)}
<1>1. Len(ids) \in Nat /\ DOMAIN ids = 1 .. Len(ids)
  BY DEF Layout
<1>2. ASSUME NEW p \in 1 .. Len(ids)
      PROVE  /\ ids[p] \in PackedId /\ RowAt(p - 1) \in Tuples
             /\ RowAt(p - 1) = [i \in DOMAIN Kinds |-> cols[i][p]]
  <2>1. ids[p] \in PackedId
    BY <1>1 DEF Layout
  <2>2. RowAt(p - 1) = [i \in DOMAIN Kinds |-> cols[i][p]]
    <3>1. (p - 1) + 1 = p
      OBVIOUS
    <3> QED
      BY <3>1 DEF RowAt, Layout
  <2>3. ASSUME NEW i \in DOMAIN Kinds PROVE cols[i][p] \in CellOf(i)
    <3>1. cols[i] \in Seq(CellOf(i)) /\ Len(cols[i]) = Len(ids)
      BY DEF Layout
    <3> QED
      BY <3>1
  <2>4. \A i \in DOMAIN Kinds : CellOf(i) \subseteq PackedId \cup Int
    BY DEF CellOf
  <2> QED
    BY <2>1, <2>2, <2>3, <2>4 DEF Tuples
<1>3. \A p \in DOMAIN ids : <<ids[p], [i \in DOMAIN Kinds |-> cols[i][p]]>>
                             = <<ids[p], RowAt(p - 1)>>
  BY <1>1, <1>2, Zenon
<1>4. Stock = {<<ids[p], RowAt(p - 1)>> : p \in DOMAIN ids}
  BY <1>3, Zenon DEF Stock
<1> QED
  BY <1>1, <1>2, <1>4

\* An id is stored once, and every row has an entry.
LEMMA StockIs ==
  ASSUME Layout
  PROVE  /\ \A x \in Stock : /\ x[1] \in PackedId /\ x[2] \in Tuples
                             /\ x = <<x[1], x[2]>>
         /\ \A x, y \in Stock : x[1] = y[1] => x = y
         /\ \A id \in PackedId : Stored(id) <=> \E x \in Stock : x[1] = id
         /\ \A x \in Stock : RowById(x[1]) = x[2]
<1>0. /\ Len(ids) \in Nat /\ DOMAIN ids = 1 .. Len(ids)
      /\ \A p \in 1 .. Len(ids) : ids[p] \in PackedId /\ RowAt(p - 1) \in Tuples
      /\ Stock = {<<ids[p], RowAt(p - 1)>> : p \in 1 .. Len(ids)}
  BY Lines
<1>1. ASSUME NEW p \in 1 .. Len(ids), NEW q \in 1 .. Len(ids), ids[p] = ids[q] PROVE p = q
  <2>1. ids[p][1] \in Int /\ ids[p][2] \in Int
    BY <1>0 DEF PackedId
  <2>2. ~SortedBefore(ids[p], ids[p])
    BY <2>1 DEF SortedBefore
  <2>3. ~(p < q) /\ ~(q < p)
    BY <1>0, <1>1, <2>2 DEF Layout, StrictId
  <2> QED
    BY <2>3
<1>2. \A x \in Stock : x[1] \in PackedId /\ x[2] \in Tuples /\ x = <<x[1], x[2]>>
  BY <1>0
<1>3. \A x, y \in Stock : x[1] = y[1] => x = y
  BY <1>0, <1>1
<1>4. ASSUME NEW id \in PackedId
      PROVE  /\ Stored(id) <=> \E x \in Stock : x[1] = id
             /\ \A p \in 1 .. Len(ids) : ids[p] = id => Position(id).at = p - 1
  <2>1. Finds(Position(id), id)
    BY PositionFinds DEF Layout
  <2>2. Stored(id) => Position(id).at + 1 \in 1 .. Len(ids) /\ ids[Position(id).at + 1] = id
    BY <2>1 DEF Finds, Stored
  <2>3. ASSUME Stored(id) PROVE \E x \in Stock : x[1] = id
    <3>1. PICK q \in 1 .. Len(ids) : ids[q] = id
      BY <2>2, <2>3
    <3>2. <<ids[q], RowAt(q - 1)>> \in Stock
      BY <1>0
    <3> QED
      BY <3>1, <3>2
  <2>4. ASSUME NEW p \in 1 .. Len(ids), ids[p] = id PROVE Stored(id)
    <3> SUFFICES ASSUME ~Stored(id) PROVE FALSE
      OBVIOUS
    <3>0. PICK at : at = Position(id).at
      OBVIOUS
    <3>1. /\ at \in 0 .. Len(ids)
          /\ \A q \in 1 .. at : SortedBefore(ids[q], id)
          /\ \A q \in at+1 .. Len(ids) : SortedBefore(id, ids[q])
      BY <2>1, <3>0 DEF Finds, Stored
    <3>2. p \in 1 .. at \/ p \in at+1 .. Len(ids)
      BY <1>0, <3>1
    <3>3. SortedBefore(id, id)
      BY <2>4, <3>1, <3>2
    <3>4. id[1] \in Int /\ id[2] \in Int
      BY DEF PackedId
    <3> QED
      BY <3>3, <3>4 DEF SortedBefore
  <2>5. ASSUME NEW p \in 1 .. Len(ids), ids[p] = id PROVE Position(id).at = p - 1
    <3>1. Stored(id)
      BY <2>4, <2>5
    <3>2. PICK at : at = Position(id).at
      OBVIOUS
    <3>3. at \in 0 .. Len(ids)
      BY <2>1, <3>2 DEF Finds
    <3>4. at + 1 = p
      <4>1. at + 1 \in 1 .. Len(ids) /\ ids[at + 1] = id
        BY <2>2, <3>1, <3>2, Zenon
      <4>2. ids[at + 1] = ids[p]
        BY <2>5, <4>1, Zenon
      <4> QED
        BY <1>1, <2>5, <4>1, <4>2, Zenon
    <3>5. at = p - 1
      BY ONLY <1>0, <3>3, <3>4
    <3> QED
      BY <3>2, <3>5, Zenon
  <2>6. (\E x \in Stock
 : x[1] = id) => Stored(id)
    BY <1>0, <2>4
  <2> QED
    BY <2>3, <2>5, <2>6
<1>5. ASSUME NEW x \in Stock PROVE RowById(x[1]) = x[2]
  <2>1. PICK p \in 1 .. Len(ids) : x = <<ids[p], RowAt(p - 1)>>
    BY <1>0
  <2>2. Position(ids[p]).at = p - 1
    BY <1>0, <1>4

  <2> QED
    BY <2>1, <2>2 DEF RowById
<1> QED
  BY <1>2, <1>3, <1>4, <1>5

\* Entries and rows are the same pairs.
LEMMA EntriesAre ==
  ASSUME Layout
  PROVE  \A k, id : <<id, k>> \in Stock
                      <=> \E p \in 1 .. Len(index) : index[p] = [key |-> k, id |-> id]
<1>1. DOMAIN index = 1 .. Len(index)
      /\ \A p \in 1 .. Len(index) : index[p] = [key |-> index[p].key, id |-> index[p].id]
  BY IndexParts DEF Layout, Entries
<1> SUFFICES ASSUME NEW k, NEW id
             PROVE  <<id, k>> \in Stock
                      <=> \E p \in 1 .. Len(index) : index[p] = [key |-> k, id |-> id]
  OBVIOUS
<1>2. <<id, k>> \in Stock <=> \E p \in 1 .. Len(index) : <<index[p].id, index[p].key>> = <<id, k>>
  BY <1>1 DEF Layout
<1>3. ASSUME NEW p \in 1 .. Len(index)
      PROVE  <<index[p].id, index[p].key>> = <<id, k>> <=> index[p] = [key |-> k, id |-> id]
  BY <1>1
<1> QED
  BY <1>2, <1>3

\* TableIndex::insert adds an entry that is not there, in order.
LEMMA IndexGrows ==
  ASSUME IndexOK, NEW k \in Tuples, NEW id \in PackedId,
         \A p \in 1 .. Len(index) : index[p] # [key |-> k, id |-> id],
         index' = IndexInsert(k, id)
  PROVE  /\ IndexOK'
         /\ \A v : Has(index', Len(index'), v)
                     <=> Has(index, Len(index), v) \/ v = [key |-> k, id |-> id]
<1>1. PICK e : e = [key |-> k, id |-> id]
  OBVIOUS
<1>2. e \in Entries
  BY <1>1 DEF Entries
<1>3. PICK n : n = Len(index)
  OBVIOUS
<1>4. n \in Nat /\ DOMAIN index = 1 .. n /\ index \in Seq(Entries)
  BY <1>3, IndexParts DEF IndexOK
<1>5. PICK a, b : ScopeEntry(k, id) = <<a, b>> /\ EntryRange(e, a, b)
  BY <1>1, ScopeEntryFinds
<1>6. a \in 0 .. n /\ b \in a .. n
  BY <1>3, <1>5 DEF EntryRange
<1>7. a = b
  <2> SUFFICES ASSUME a # b PROVE FALSE
    OBVIOUS
  <2>1. a + 1 \in a+1 .. b /\ a + 1 \in 1 .. n
    BY <1>4, <1>6
  <2>2. index[a + 1] = e
    BY <1>5, <2>1 DEF EntryRange
  <2> QED
    BY <1>1, <1>3, <2>1, <2>2
<1>8. PICK at : at = b + 1
  OBVIOUS
<1>9. at \in 1 .. n + 1
  BY <1>4, <1>6, <1>8
<1>10. index' = InsertAt(index, at, e)
  BY <1>1, <1>5, <1>8 DEF IndexInsert
<1>11. /\ index' \in Seq(Entries) /\ Len(index') = n + 1 /\ DOMAIN index' = 1 .. n + 1
       /\ Grown(index, index', n, at, e)
  BY <1>2, <1>3, <1>4, <1>9, <1>10, InsertIs
<1>12. \A v : Has(index', n + 1, v) <=> Has(index, n, v) \/ v = e
  BY <1>4, <1>9, <1>11, GrownRange
<1>13. /\ \A p \in 1 .. at - 1 : EntryBefore(index[p], e)
       /\ \A p \in at .. n : EntryBefore(e, index[p])
  <2>1. at - 1 = a /\ at = b + 1
    BY <1>4, <1>6, <1>7, <1>8
  <2> QED
    BY <1>3, <1>5, <2>1 DEF EntryRange
<1>14. ASSUME NEW p \in 1 .. n + 1, NEW q \in 1 .. n + 1, p < q
       PROVE  EntryBefore(index'[p], index'[q])
  <2>1. \A x, y \in 1 .. n : x < y => EntryBefore(index[x], index[y])
    BY <1>4 DEF IndexOK, StrictIndex
  <2>2. OldPair(index, index', n, p, q) \/ NewPair(index, index', n, at, e, p, q)
    BY <1>4, <1>9, <1>11, <1>14, GrownPairs
  <2>3. OldPair(index, index', n, p, q) => EntryBefore(index'[p], index'[q])
    BY <2>1, Zenon DEF OldPair
  <2>4. NewPair(index, index', n, at, e, p, q) => EntryBefore(index'[p], index'[q])
    BY <1>13, Zenon DEF NewPair
  <2> QED
    BY <2>2, <2>3, <2>4
<1>15. IndexOK'
  BY <1>11, <1>14 DEF IndexOK, StrictIndex
<1> QED
  BY <1>1, <1>3, <1>11, <1>12, <1>15

\* TableIndex::remove takes out the entry.
LEMMA IndexShrinks ==
  ASSUME IndexOK, NEW k \in Tuples, NEW id \in PackedId, index' = IndexRemove(k, id)
  PROVE  /\ IndexOK'
         /\ \A v : Has(index', Len(index'), v)
                     <=> Has(index, Len(index), v) /\ v # [key |-> k, id |-> id]
<1>1. PICK e : e = [key |-> k, id |-> id]
  OBVIOUS
<1>2. e \in Entries
  BY <1>1 DEF Entries
<1>3. PICK n : n = Len(index)
  OBVIOUS
<1>4. n \in Nat /\ DOMAIN index = 1 .. n /\ index \in Seq(Entries)
      /\ \A p \in 1 .. n : index[p] \in Entries
  BY <1>3, IndexParts DEF IndexOK
<1>5. PICK a, b : ScopeEntry(k, id) = <<a, b>> /\ EntryRange(e, a, b)
  BY <1>1, ScopeEntryFinds
<1>6. a \in 0 .. n /\ b \in a .. n
  BY <1>3, <1>5 DEF EntryRange
<1>7. index' = SubSeq(index, 1, a) \o SubSeq(index, b + 1, Len(index))
  <2>1. ScopeEntry(k, id)[1] = a /\ ScopeEntry(k, id)[2] = b
    BY <1>5
  <2> QED
    BY <2>1, Zenon DEF IndexRemove
<1>8. PICK m : m = n - (b - a)
  OBVIOUS
<1>9. /\ index' \in Seq(Entries) /\ Len(index') = m /\ DOMAIN index' = 1 .. m
      /\ Cut(index, index', n, a, b)
  <2>1. a \in 0 .. Len(index) /\ b \in a .. Len(index) /\ index \in Seq(Entries)
    BY <1>3, <1>4, <1>6
  <2>2. /\ index' \in Seq(Entries) /\ Len(index') = Len(index) - (b - a)
        /\ DOMAIN index' = 1 .. Len(index) - (b - a)
        /\ Cut(index, index', Len(index), a, b)
    BY <1>7, <2>1, CutIs DEF Without
  <2> QED
    BY <1>3, <1>8, <2>2

<1>10. \A v : Has(index', m, v) <=> \E p \in 1 .. n : (p <= a \/ p > b) /\ index[p] = v
  BY <1>4, <1>6, <1>8, <1>9, CutRange

<1>11. ASSUME NEW p \in 1 .. n PROVE index[p] = e <=> ~(p <= a \/ p > b)
  <2>1. CASE p <= a
    <3>1. EntryBefore(index[p], e)
      BY <1>5, <2>1 DEF EntryRange
    <3> QED
      BY <1>2, <2>1, <3>1, EntryOrder
  <2>2. CASE p > b
    <3>1. EntryBefore(e, index[p])
      BY <1>3, <1>4, <1>5, <1>6, <2>2 DEF EntryRange
    <3> QED
      BY <1>2, <2>2, <3>1, EntryOrder
  <2>3. CASE p > a /\ p <= b
    <3>1. p \in a+1 .. b
      BY <1>6, <2>3
    <3>2. index[p] = e
      BY <1>5, <3>1 DEF EntryRange
    <3> QED
      BY <1>6, <2>3, <3>2
  <2> QED
    BY <1>6, <2>1, <2>2, <2>3
<1>12. \A v : Has(index', m, v) <=> Has(index, n, v) /\ v # e
  BY <1>10, <1>11 DEF Has
<1>13. ASSUME NEW p \in 1 .. m, NEW q \in 1 .. m, p < q
       PROVE  EntryBefore(index'[p], index'[q])
  <2>1. \A x, y \in 1 .. n : x < y => EntryBefore(index[x], index[y])
    BY <1>4 DEF IndexOK, StrictIndex
  <2>2. OldPair(index, index', n, p, q)
    BY <1>4, <1>6, <1>8, <1>9, <1>13, CutPairs
  <2> QED
    BY <2>1, <2>2, Zenon DEF OldPair

<1>14. IndexOK'
  BY <1>9, <1>13 DEF IndexOK, StrictIndex
<1> QED
  BY <1>1, <1>3, <1>9, <1>12, <1>14

\* The rows as a sequence: the pair at every place
Pairs(i, c) == [p \in DOMAIN i |-> <<i[p], [j \in DOMAIN Kinds |-> c[j][p]]>>]


\* The rows stored are those in this sequence.
LEMMA StockHas ==
  ASSUME Len(ids) \in Nat, DOMAIN ids = 1 .. Len(ids)
  PROVE  \A x : x \in Stock <=> Has(Pairs(ids, cols), Len(ids), x)
<1>1. \A p \in 1 .. Len(ids) :
        Pairs(ids, cols)[p] = <<ids[p], [i \in DOMAIN Kinds |-> cols[i][p]]>>
  BY DEF Pairs
<1> QED
  BY <1>1 DEF Has, Stock

\* insert_packed adds a row whose id is not stored.
LEMMA StockGrows ==
  ASSUME Layout, NEW id \in PackedId, NEW cells \in Tuples,
         \A x \in Stock : x[1] # id, InsertPacked(id, cells)
  PROVE  Layout' /\ Stock' = Stock \cup {<<id, cells>>}
<1>1. PICK n, at : n = Len(ids) /\ at = Position(id).at + 1
  OBVIOUS
<1>2. n \in Nat /\ DOMAIN ids = 1 .. n /\ ids \in Seq(PackedId) /\ DOMAIN cols = DOMAIN Kinds
  BY <1>1 DEF Layout
<1>3. /\ at \in 1 .. n + 1
      /\ \A p \in 1 .. at - 1 : SortedBefore(ids[p], id)
      /\ \A p \in at .. n : SortedBefore(id, ids[p])
  <2>1. Finds(Position(id), id)
    BY PositionFinds DEF Layout
  <2>2. ~Position(id).found
    BY StockIs DEF Stored
  <2>3. PICK z : z = Position(id).at
    OBVIOUS
  <2>4. /\ z \in 0 .. n
        /\ \A p \in 1 .. z : SortedBefore(ids[p], id)
        /\ \A p \in z+1 .. n : SortedBefore(id, ids[p])
    BY <1>1, <2>1, <2>2, <2>3 DEF Finds
  <2>5. at = z + 1 /\ at - 1 = z
    BY <1>1, <2>3, <2>4
  <2> QED
    BY <1>2, <2>4, <2>5
<1>4. ids' = InsertAt(ids, at, id) /\ index' = IndexInsert(cells, id)
      /\ cols' = [i \in DOMAIN Kinds |-> InsertAt(cols[i], at, cells[i])]
  BY <1>1, <1>2 DEF InsertPacked, WithRow
<1>5. /\ ids' \in Seq(PackedId) /\ Len(ids') = n + 1 /\ DOMAIN ids' = 1 .. n + 1
      /\ Grown(ids, ids', n, at, id)
  BY <1>1, <1>2, <1>3, <1>4, InsertIs
<1>6. StrictId(ids')
  <2> SUFFICES ASSUME NEW p \in 1 .. n + 1, NEW q \in 1 .. n + 1, p < q
               PROVE  SortedBefore(ids'[p], ids'[q])
    BY <1>5 DEF StrictId
  <2>1. \A x, y \in 1 .. n : x < y => SortedBefore(ids[x], ids[y])
    BY <1>2 DEF Layout, StrictId
  <2>2. OldPair(ids, ids', n, p, q) \/ NewPair(ids, ids', n, at, id, p, q)
    BY <1>2, <1>3, <1>5, GrownPairs
  <2>3. OldPair(ids, ids', n, p, q) => SortedBefore(ids'[p], ids'[q])
    BY <2>1, Zenon DEF OldPair
  <2>4. NewPair(ids, ids', n, at, id, p, q) => SortedBefore(ids'[p], ids'[q])
    BY <1>3, Zenon DEF NewPair
  <2> QED
    BY <2>2, <2>3, <2>4
<1>7. ASSUME NEW i \in DOMAIN Kinds
      PROVE  /\ cols'[i] \in Seq(CellOf(i)) /\ Len(cols'[i]) = n + 1
             /\ Grown(cols[i], cols'[i], n, at, cells[i])
  <2>1. cols[i] \in Seq(CellOf(i)) /\ Len(cols[i]) = n /\ cells[i] \in CellOf(i)
    BY <1>1 DEF Layout, Tuples
  <2>2. cols'[i] = InsertAt(cols[i], at, cells[i])
    BY <1>4
  <2> QED
    BY <1>3, <2>1, <2>2, InsertIs
<1>8. Grown(Pairs(ids, cols), Pairs(ids', cols'), n, at, <<id, cells>>)
  <2> SUFFICES ASSUME NEW p \in 1 .. n + 1
               PROVE  Pairs(ids', cols')[p] = IF p < at THEN Pairs(ids, cols)[p]
                                              ELSE IF p = at THEN <<id, cells>>
                                              ELSE Pairs(ids, cols)[p - 1]
    BY DEF Grown
  <2>1. Pairs(ids', cols')[p] = <<ids'[p], [j \in DOMAIN Kinds |-> cols'[j][p]]>>
    BY <1>5 DEF Pairs
  <2>2. CASE p < at
    <3>1. p \in 1 .. n
      BY <1>2, <1>3, <2>2
    <3>2. Pairs(ids, cols)[p] = <<ids[p], [j \in DOMAIN Kinds |-> cols[j][p]]>>
      BY <1>2, <3>1 DEF Pairs
    <3>3. ids'[p] = ids[p] /\ \A j \in DOMAIN Kinds : cols'[j][p] = cols[j][p]
      BY <1>5, <1>7, <2>2 DEF Grown
    <3> QED
      BY <2>1, <2>2, <3>2, <3>3
  <2>3. CASE p = at
    <3>1. ids'[p] = id /\ \A j \in DOMAIN Kinds : cols'[j][p] = cells[j]
      BY <1>3, <1>5, <1>7, <2>3 DEF Grown
    <3>2. cells = [j \in DOMAIN Kinds |-> cells[j]]
      BY DEF Tuples
    <3>3. [j \in DOMAIN Kinds |-> cols'[j][p]] = cells
      BY <3>1, <3>2
    <3> QED
      BY <1>3, <2>1, <2>3, <3>1, <3>3
  <2>4. CASE ~(p < at) /\ p # at
    <3>1. p - 1 \in 1 .. n
      BY <1>2, <1>3, <2>4
    <3>2. Pairs(ids, cols)[p - 1] = <<ids[p - 1], [j \in DOMAIN Kinds |-> cols[j][p - 1]]>>
      BY <1>2, <3>1 DEF Pairs
    <3>3. ids'[p] = ids[p - 1] /\ \A j \in DOMAIN Kinds : cols'[j][p] = cols[j][p - 1]
      BY <1>5, <1>7, <2>4 DEF Grown
    <3> QED
      BY <2>1, <2>4, <3>2, <3>3
  <2> QED
    BY <2>2, <2>3, <2>4
<1>9. Stock' = Stock \cup {<<id, cells>>}
  <2>1. \A x : Has(Pairs(ids', cols'), n + 1, x)
                 <=> Has(Pairs(ids, cols), n, x) \/ x = <<id, cells>>
    BY <1>2, <1>3, <1>8, GrownRange
  <2>2. \A x : x \in Stock <=> Has(Pairs(ids, cols), n, x)
    BY <1>1, <1>2, StockHas
  <2>3. \A x : x \in Stock' <=> Has(Pairs(ids', cols'), n + 1, x)
    <3>1. \A p \in 1 .. n + 1 :
            Pairs(ids', cols')[p] = <<ids'[p], [i \in DOMAIN Kinds |-> cols'[i][p]]>>
      BY <1>5 DEF Pairs
    <3> QED
      BY <1>5, <3>1 DEF Has, Stock
  <2> QED
    BY <2>1, <2>2, <2>3
<1>10. /\ IndexOK'
       /\ \A v : Has(index', Len(index'), v)
                   <=> Has(index, Len(index), v) \/ v = [key |-> cells, id |-> id]
  <2>1. \A p \in 1 .. Len(index) : index[p] # [key |-> cells, id |-> id]
    BY EntriesAre
  <2> QED
    BY <1>4, <2>1, IndexGrows DEF Layout
<1>11. {<<index'[p].id, index'[p].key>> : p \in DOMAIN index'} = Stock'
  <2>1. DOMAIN index' = 1 .. Len(index')
        /\ \A p \in 1 .. Len(index') : index'[p] = [key |-> index'[p].key, id |-> index'[p].id]
    <3>1. index' \in Seq(Entries)
      BY <1>10 DEF IndexOK
    <3>2. ASSUME NEW p \in 1 .. Len(index')
          PROVE  index'[p] = [key |-> index'[p].key, id |-> index'[p].id]
      <4>1. index'[p] \in Entries
        BY <3>1
      <4> QED
        BY <4>1 DEF Entries
    <3> QED
      BY <3>1, <3>2
  <2>2. \A k, i : <<i, k>> \in Stock <=> Has(index, Len(index), [key |-> k, id |-> i])
    BY EntriesAre DEF Has
  <2>3. ASSUME NEW k, NEW i
        PROVE  <<i, k>> \in Stock' <=> Has(index', Len(index'), [key |-> k, id |-> i])
    BY <1>9, <1>10, <2>2
  <2>4. ASSUME NEW p \in DOMAIN index' PROVE <<index'[p].id, index'[p].key>> \in Stock'
    BY <2>1, <2>3 DEF Has
  <2>5. ASSUME NEW x \in Stock'
        PROVE  \E p \in DOMAIN index' : <<index'[p].id, index'[p].key>> = x
    <3>1. x = <<x[1], x[2]>>
      BY <1>9, StockIs
    <3>2. Has(index', Len(index'), [key |-> x[2], id |-> x[1]])
      BY <2>3, <3>1
    <3>3. PICK p \in 1 .. Len(index') : index'[p] = [key |-> x[2], id |-> x[1]]
      BY <3>2 DEF Has
    <3> QED
      BY <2>1, <3>1, <3>3
  <2> QED
    BY <2>4, <2>5
<1>12. DOMAIN cols' = DOMAIN Kinds
  BY <1>4
<1> QED
  BY <1>5, <1>6, <1>7, <1>9, <1>10, <1>11, <1>12 DEF Layout

\* remove_packed takes out the row of a stored id.
LEMMA StockShrinks ==
  ASSUME Layout, NEW row \in Stock, RemovePacked(row[1])
  PROVE  Layout' /\ Stock' = Stock \ {row}
<1>1. PICK id, cells, n, a, b :
           /\ id = row[1] /\ cells = row[2]
           /\ n = Len(ids) /\ a = Position(id).at /\ b = a + 1
  OBVIOUS
<1>2. n \in Nat /\ DOMAIN ids = 1 .. n /\ ids \in Seq(PackedId) /\ DOMAIN cols = DOMAIN Kinds
  BY <1>1 DEF Layout
<1>3. id \in PackedId /\ cells \in Tuples /\ row = <<id, cells>> /\ RowById(id) = cells
  BY <1>1, StockIs
<1>4. a \in 0 .. n /\ b \in a .. n /\ b = a + 1 /\ a + 1 \in 1 .. n /\ ids[a + 1] = id
  <2>1. Finds(Position(id), id)
    BY <1>3, PositionFinds DEF Layout
  <2>2. Position(id).found
    BY <1>1, <1>3, StockIs DEF Stored
  <2>3. a \in 0 .. n /\ a + 1 \in 1 .. n /\ ids[a + 1] = id
    BY <1>1, <2>1, <2>2 DEF Finds
  <2> QED
    BY <1>1, <1>2, <2>3
<1>5. PICK m : m = n - (b - a)
  OBVIOUS
<1>6. /\ ids' = RemoveAt(ids, a + 1) /\ index' = IndexRemove(cells, id)
      /\ cols' = [i \in DOMAIN Kinds |-> RemoveAt(cols[i], a + 1)]
  BY <1>1, <1>2, <1>3 DEF RemovePacked, WithoutRow
<1>7. ASSUME NEW S, NEW s \in Seq(S), Len(s) = n, NEW r, r = RemoveAt(s, a + 1)
      PROVE  r \in Seq(S) /\ Len(r) = m /\ DOMAIN r = 1 .. m /\ Cut(s, r, n, a, b)
  <2>1. (a + 1) - 1 = a /\ (a + 1) + 1 = b + 1
    BY <1>4
  <2>2. r = Without(s, a, b)
    BY <1>7, <2>1, Zenon DEF RemoveAt, Without
  <2>3. a \in 0 .. Len(s) /\ b \in a .. Len(s)
    BY <1>4, <1>7
  <2>4. r \in Seq(S) /\ Len(r) = Len(s) - (b - a) /\ DOMAIN r = 1 .. Len(s) - (b - a)
        /\ Cut(s, r, Len(s), a, b)
    BY <2>2, <2>3, CutIs
  <2> QED
    BY <1>5, <1>7, <2>4
<1>8. /\ ids' \in Seq(PackedId) /\ Len(ids') = m /\ DOMAIN ids' = 1 .. m
      /\ Cut(ids, ids', n, a, b)
  BY <1>1, <1>2, <1>6, <1>7
<1>9. StrictId(ids')
  <2> SUFFICES ASSUME NEW p \in 1 .. m, NEW q \in 1 .. m, p < q
               PROVE  SortedBefore(ids'[p], ids'[q])
    BY <1>8 DEF StrictId
  <2>1. \A x, y \in 1 .. n : x < y => SortedBefore(ids[x], ids[y])
    BY <1>2 DEF Layout, StrictId
  <2>2. OldPair(ids, ids', n, p, q)
    BY <1>2, <1>4, <1>5, <1>8, CutPairs
  <2> QED
    BY <2>1, <2>2, Zenon DEF OldPair
<1>10. ASSUME NEW i \in DOMAIN Kinds
       PROVE  /\ cols'[i] \in Seq(CellOf(i)) /\ Len(cols'[i]) = m
              /\ Cut(cols[i], cols'[i], n, a, b)
  <2>1. cols[i] \in Seq(CellOf(i)) /\ Len(cols[i]) = n
    BY <1>1 DEF Layout
  <2>2. cols'[i] = RemoveAt(cols[i], a + 1)
    BY <1>6
  <2> QED
    BY <1>7, <2>1, <2>2
<1>11. Cut(Pairs(ids, cols), Pairs(ids', cols'), n, a, b)
  <2> SUFFICES ASSUME NEW p \in 1 .. m
               PROVE  Pairs(ids', cols')[p] = IF p <= a THEN Pairs(ids, cols)[p]
                                              ELSE Pairs(ids, cols)[p + (b - a)]
    BY <1>5 DEF Cut
  <2>1. Pairs(ids', cols')[p] = <<ids'[p], [j \in DOMAIN Kinds |-> cols'[j][p]]>>
    BY <1>8 DEF Pairs
  <2>2. PICK q : q = IF p <= a THEN p ELSE p + (b - a)
    OBVIOUS
  <2>3. q \in 1 .. n
    BY <1>2, <1>4, <1>5, <2>2
  <2>4. Pairs(ids, cols)[q] = <<ids[q], [j \in DOMAIN Kinds |-> cols[j][q]]>>
    BY <1>2, <2>3 DEF Pairs
  <2>5. ids'[p] = ids[q] /\ \A j \in DOMAIN Kinds : cols'[j][p] = cols[j][q]
    BY <1>5, <1>8, <1>10, <2>2 DEF Cut
  <2>6. Pairs(ids', cols')[p] = Pairs(ids, cols)[q]
    BY <2>1, <2>4, <2>5
  <2> QED
    BY <2>2, <2>6
<1>12. Stock' = Stock \ {row}
  <2>1. \A x : Has(Pairs(ids', cols'), m, x)
                 <=> \E p \in 1 .. n : (p <= a \/ p > b) /\ Pairs(ids, cols)[p] = x
    BY <1>2, <1>4, <1>5, <1>11, CutRange
  <2>2. \A p \in 1 .. n : Pairs(ids, cols)[p] \in Stock /\ Pairs(ids, cols)[p][1] = ids[p]
    BY <1>2 DEF Pairs, Stock
  <2>3. ASSUME NEW p \in 1 .. n PROVE Pairs(ids, cols)[p] = row <=> ~(p <= a \/ p > b)
    <3>1. p = a + 1 <=> ~(p <= a \/ p > b)
      BY <1>4
    <3>2. ids[p] = id => p = a + 1
      <4>1. \A x, y \in 1 .. n : x < y => SortedBefore(ids[x], ids[y])
        BY <1>2 DEF Layout, StrictId
      <4>2. ~SortedBefore(id, id)
        BY <1>3 DEF PackedId, SortedBefore
      <4> QED
        BY <1>4, <4>1, <4>2
    <3>3. ids[p] = id => Pairs(ids, cols)[p] = row
      BY <1>1, <2>2, StockIs
    <3> QED
      BY <1>1, <1>4, <2>2, <3>1, <3>2, <3>3
  <2>4. \A x : x \in Stock <=> Has(Pairs(ids, cols), n, x)
    BY <1>1, <1>2, StockHas
  <2>5. \A x : Has(Pairs(ids', cols'), m, x) <=> x \in Stock /\ x # row
    BY <2>1, <2>3, <2>4 DEF Has
  <2>6. \A x : x \in Stock' <=> Has(Pairs(ids', cols'), m, x)
    <3>1. \A p \in 1 .. m :
            Pairs(ids', cols')[p] = <<ids'[p], [i \in DOMAIN Kinds |-> cols'[i][p]]>>
      BY <1>8 DEF Pairs
    <3>2. Stock' = {<<ids'[p], [i \in DOMAIN Kinds |-> cols'[i][p]]>> : p \in 1 .. m}
      BY <1>8 DEF Stock
    <3>3. Stock' = {Pairs(ids', cols')[p] : p \in 1 .. m}
      BY <3>1, <3>2
    <3> QED
      BY <3>3, Zenon DEF Has
  <2> QED
    BY <2>5, <2>6
<1>13. /\ IndexOK'
       /\ \A v : Has(index', Len(index'), v)
                   <=> Has(index, Len(index), v) /\ v # [key |-> cells, id |-> id]
  BY <1>3, <1>6, IndexShrinks DEF Layout
<1>14. {<<index'[p].id, index'[p].key>> : p \in DOMAIN index'} = Stock'
  <2>1. DOMAIN index' = 1 .. Len(index')
        /\ \A p \in 1 .. Len(index') : index'[p] = [key |-> index'[p].key, id |-> index'[p].id]
    <3>1. index' \in Seq(Entries)
      BY <1>13 DEF IndexOK
    <3>2. ASSUME NEW p \in 1 .. Len(index')
          PROVE  index'[p] = [key |-> index'[p].key, id |-> index'[p].id]
      <4>1. index'[p] \in Entries
        BY <3>1
      <4> QED
        BY <4>1 DEF Entries
    <3> QED
      BY <3>1, <3>2
  <2>2. \A k, i : <<i, k>> \in Stock <=> Has(index, Len(index), [key |-> k, id |-> i])
    BY EntriesAre DEF Has
  <2>3. ASSUME NEW k, NEW i
        PROVE  <<i, k>> \in Stock' <=> Has(index', Len(index'), [key |-> k, id |-> i])
    BY <1>3, <1>12, <1>13, <2>2
  <2>4. ASSUME NEW p \in DOMAIN index' PROVE <<index'[p].id, index'[p].key>> \in Stock'
    BY <2>1, <2>3 DEF Has
  <2>5. ASSUME NEW x \in Stock'
        PROVE  \E p \in DOMAIN index' : <<index'[p].id, index'[p].key>> = x
    <3>1. x = <<x[1], x[2]>>
      BY <1>12, StockIs
    <3>2. Has(index', Len(index'), [key |-> x[2], id |-> x[1]])
      BY <2>3, <3>1
    <3>3. PICK p \in 1 .. Len(index') : index'[p] = [key |-> x[2], id |-> x[1]]
      BY <3>2 DEF Has
    <3> QED
      BY <2>1, <3>1, <3>3
  <2> QED
    BY <2>4, <2>5
<1>15. DOMAIN cols' = DOMAIN Kinds
  BY <1>6
<1> QED
  BY <1>8, <1>9, <1>10, <1>12, <1>13, <1>14, <1>15 DEF Layout

\* The key of a table, if it has one, is a number of columns.
KeyOK(k) == k # NoKey => k \in 0 .. Len(Kinds)

\* insert_row's key check asks the index, and the index knows the rows.
LEMMA KeyTakenIs ==
  ASSUME Layout, KeyOK(key), NEW cells \in Tuples
  PROVE  KeyTaken(cells) <=> key # NoKey /\ \E x \in Stock : Agrees(x[2], cells, key)
<1>1. CASE key = NoKey
  BY <1>1 DEF KeyTaken
<1>2. CASE key # NoKey
  <2>1. key \in 0 .. Len(Kinds) /\ Len(Kinds) \in Nat
    BY <1>2, Columns DEF KeyOK
  <2>2. cells \in Seq(PackedId \cup Int) /\ Len(cells) = Len(Kinds)
        /\ \A i \in 1 .. Len(Kinds) : cells[i] \in CellOf(i)
    BY Columns DEF Tuples
  <2>3. PICK k : k = SubSeq(cells, 1, key)
    OBVIOUS
  <2>4. Len(k) = key /\ \A i \in 1 .. key : k[i] = cells[i]
    BY <2>1, <2>2, <2>3, SubSeqProperties
  <2>5. KeyOf(k, Len(k))
    BY <2>1, <2>2, <2>4 DEF KeyOf
  <2>6. Seek(k) = <<>> <=> \A p \in 1 .. Len(index) : ~Agrees(index[p].key, k, Len(k))
    BY <2>5, SeekFinds DEF Layout
  <2>7. \A c : Agrees(c, k, Len(k)) <=> Agrees(c, cells, key)
    BY <2>4 DEF Agrees
  <2>8. ASSUME NEW p \in 1 .. Len(index)
        PROVE  <<index[p].id, index[p].key>> \in Stock
    BY IndexParts DEF Layout
  <2>9. ASSUME NEW x \in Stock
        PROVE  \E p \in 1 .. Len(index) : index[p].key = x[2]
    <3>1. x = <<x[1], x[2]>>
      BY StockIs
    <3>2. PICK p \in 1 .. Len(index) : index[p] = [key |-> x[2], id |-> x[1]]
      BY <3>1, EntriesAre
    <3> QED
      BY <3>2
  <2>10. KeyTaken(cells) <=> Seek(k) # <<>>
    BY <1>2, <2>3 DEF KeyTaken
  <2>11. (\E p \in 1 .. Len(index) : Agrees(index[p].key, cells, key))
           <=> \E x \in Stock : Agrees(x[2], cells, key)
    <3>1. ASSUME NEW p \in 1 .. Len(index), Agrees(index[p].key, cells, key)
          PROVE  \E x \in Stock : Agrees(x[2], cells, key)
      BY <2>8, <3>1
    <3>2. ASSUME NEW x \in Stock, Agrees(x[2], cells, key)
          PROVE  \E p \in 1 .. Len(index) : Agrees(index[p].key, cells, key)
      BY <2>9, <3>2
    <3> QED
      BY <3>1, <3>2
  <2> QED
    BY <1>2, <2>6, <2>7, <2>10, <2>11
<1> QED
  BY <1>1, <1>2

-----------------------------------------------------------------------------
(* What rows mean *)

DictOK(d) == d \in Seq(Hash) /\ IsInjective(d)

\* e knows what d knows.
Grows(d, e) == \A n \in DOMAIN d : n \in DOMAIN e /\ d[n] = e[n]

\* A packed id of which the dictionary has the hash
Known(d, q) == q \in PackedId /\ q[1] \in DOMAIN d /\ Unpacked(d, q) \in RowIds

\* A packed row that can be unpacked to one of RowTuples
FineCells(d, c) ==
  /\ c \in Tuples
  /\ \E g \in Given : \A i \in DOMAIN Kinds :
       IF Kinds[i] = "id" THEN Known(d, c[i]) ELSE c[i] = g.cells[i]

Fine(d, x) == x = <<x[1], x[2]>> /\ Known(d, x[1]) /\ FineCells(d, x[2])

\* A set of packed rows that a table with the key k may hold
Sound(k, d, S) ==
  /\ \A x \in S : Fine(d, x)
  /\ \A x, y \in S : x[1] = y[1] => x = y
  /\ k # NoKey => \A x, y \in S : Agrees(x[2], y[2], k) => x = y

\* The map of row ids to cells that a set of packed rows stands for
Shows(d, S, m) ==
  /\ m = [r \in DOMAIN m |-> m[r]]
  /\ \A r : r \in DOMAIN m <=> \E x \in S : r = Unpacked(d, x[1])
  /\ \A x \in S : m[Unpacked(d, x[1])] = UnpackedCells(d, x[2])

\* Different packed ids stand for different ids.
LEMMA UnpackedDiffer ==
  ASSUME NEW d, DictOK(d), NEW p, NEW q, Known(d, p), Known(d, q),
         Unpacked(d, p) = Unpacked(d, q)
  PROVE  p = q
<1>1. d[p[1]] = d[q[1]] /\ p[2] = q[2]
  BY DEF Unpacked
<1>2. p[1] = q[1]
  BY <1>1 DEF DictOK, IsInjective, Known
<1> QED
  BY <1>1, <1>2 DEF Known, PackedId

\* and so do cells.
LEMMA UnpackedCellsIs ==
  ASSUME NEW d, NEW c, FineCells(d, c)
  PROVE  /\ UnpackedCells(d, c) = [i \in DOMAIN Kinds |-> UnpackedCells(d, c)[i]]
         /\ \A i \in DOMAIN Kinds :
              UnpackedCells(d, c)[i] = IF Kinds[i] = "id" THEN Unpacked(d, c[i]) ELSE c[i]
         /\ UnpackedCells(d, c) \in RowTuples
<1>1. DOMAIN c = DOMAIN Kinds
  BY DEF FineCells, Tuples
<1>2. PICK u : u = UnpackedCells(d, c)
  OBVIOUS
<1>3. u = [i \in DOMAIN Kinds |-> IF Kinds[i] = "id" THEN Unpacked(d, c[i]) ELSE c[i]]
  BY <1>1, <1>2 DEF UnpackedCells
<1>4. PICK g \in Given : \A i \in DOMAIN Kinds :
         IF Kinds[i] = "id" THEN Known(d, c[i]) ELSE c[i] = g.cells[i]
  BY DEF FineCells
<1>5. CASE \E i \in DOMAIN Kinds : Kinds[i] = "id"
  <2>1. PICK j \in DOMAIN Kinds : Kinds[j] = "id"
    BY <1>5
  <2> DEFINE pick == [i \in DOMAIN Kinds |-> IF Kinds[i] = "id" THEN u[i] ELSE u[j]]
  <2>2. \A i \in DOMAIN Kinds : Kinds[i] = "id" => u[i] \in RowIds
    BY <1>3, <1>4 DEF Known
  <2>3. pick \in [DOMAIN Kinds -> RowIds]
    BY <2>1, <2>2
  <2>4. u = [i \in DOMAIN Kinds |-> IF Kinds[i] = "id" THEN pick[i] ELSE g.cells[i]]
    BY <1>3, <1>4
  <2> HIDE DEF pick
  <2>5. u \in RowTuples
    BY <2>3, <2>4 DEF RowTuples
  <2> QED
    BY <1>2, <1>3, <2>5
<1>6. CASE ~\E i \in DOMAIN Kinds : Kinds[i] = "id"
  <2>1. g.id \in RowIds
    BY DEF RowIds
  <2> DEFINE pick == [i \in DOMAIN Kinds |-> g.id]
  <2>2. pick \in [DOMAIN Kinds -> RowIds]
    BY <2>1
  <2>3. u = [i \in DOMAIN Kinds |-> IF Kinds[i] = "id" THEN pick[i] ELSE g.cells[i]]
    BY <1>3, <1>4, <1>6
  <2> HIDE DEF pick
  <2>4. u \in RowTuples
    BY <2>2, <2>3 DEF RowTuples
  <2> QED
    BY <1>2, <1>3, <2>4
<1> QED
  BY <1>5, <1>6

\* Cells whose first k unpacked cells are the same agree on them.
LEMMA KeysDiffer ==
  ASSUME NEW d, DictOK(d), NEW c, NEW e, FineCells(d, c), FineCells(d, e),
         NEW k \in 0 .. Len(Kinds),
         SubSeq(UnpackedCells(d, c), 1, k) = SubSeq(UnpackedCells(d, e), 1, k)
  PROVE  Agrees(c, e, k)
<1>1. PICK u, v : u = UnpackedCells(d, c) /\ v = UnpackedCells(d, e)
  OBVIOUS
<1>2. /\ u = [i \in DOMAIN Kinds |-> u[i]] /\ v = [i \in DOMAIN Kinds |-> v[i]]
      /\ \A i \in DOMAIN Kinds :
           /\ u[i] = IF Kinds[i] = "id" THEN Unpacked(d, c[i]) ELSE c[i]
           /\ v[i] = IF Kinds[i] = "id" THEN Unpacked(d, e[i]) ELSE e[i]
  BY <1>1, UnpackedCellsIs
<1>3. PICK S : S = {u[i] : i \in DOMAIN Kinds} \cup {v[i] : i \in DOMAIN Kinds}
  OBVIOUS
<1>4. Len(Kinds) \in Nat /\ DOMAIN Kinds = 1 .. Len(Kinds)
  BY Columns
<1>5. u \in Seq(S) /\ v \in Seq(S) /\ Len(u) = Len(Kinds) /\ Len(v) = Len(Kinds)
  <2>1. u \in [1 .. Len(Kinds) -> S] /\ v \in [1 .. Len(Kinds) -> S]
    BY <1>2, <1>3, <1>4
  <2> QED
    BY <1>4, <2>1
<1>6. ASSUME NEW i \in 1 .. k PROVE u[i] = v[i]
  <2>1. SubSeq(u, 1, k)[i] = u[i] /\ SubSeq(v, 1, k)[i] = v[i]
    BY <1>4, <1>5, SubSeqProperties
  <2> QED
    BY <1>1, <2>1
<1>7. ASSUME NEW i \in 1 .. k PROVE c[i] = e[i]
  <2>1. i \in DOMAIN Kinds
    BY <1>4
  <2>2. CASE Kinds[i] = "id"
    <3>1. Known(d, c[i]) /\ Known(d, e[i])
      BY <2>1, <2>2 DEF FineCells
    <3>2. Unpacked(d, c[i]) = Unpacked(d, e[i])
      BY <1>2, <1>6, <2>1, <2>2
    <3> QED
      BY <3>1, <3>2, UnpackedDiffer
  <2>3. CASE Kinds[i] # "id"
    BY <1>2, <1>6, <2>1, <2>3
  <2> QED
    BY <2>2, <2>3
<1> QED
  BY <1>7 DEF Agrees

\* A dictionary that has grown unpacks as before.
LEMMA FineGrows ==
  ASSUME NEW d, NEW e, Grows(d, e)
  PROVE  /\ \A q : Known(d, q) => Known(e, q) /\ Unpacked(e, q) = Unpacked(d, q)
         /\ \A c : FineCells(d, c) =>
                     FineCells(e, c) /\ UnpackedCells(e, c) = UnpackedCells(d, c)
         /\ \A x : Fine(d, x) => Fine(e, x)
         /\ \A k, S : Sound(k, d, S) => Sound(k, e, S)
         /\ \A k, S, m : Sound(k, d, S) /\ Shows(d, S, m) => Shows(e, S, m)
<1>1. ASSUME NEW q, Known(d, q) PROVE Known(e, q) /\ Unpacked(e, q) = Unpacked(d, q)
  <2>1. q[1] \in DOMAIN e /\ d[q[1]] = e[q[1]]
    BY <1>1 DEF Grows, Known
  <2> QED
    BY <1>1, <2>1 DEF Known, Unpacked
<1>2. ASSUME NEW c, FineCells(d, c)
      PROVE  FineCells(e, c) /\ UnpackedCells(e, c) = UnpackedCells(d, c)
  <2>1. PICK g \in Given : \A i \in DOMAIN Kinds :
           IF Kinds[i] = "id" THEN Known(d, c[i]) ELSE c[i] = g.cells[i]
    BY <1>2 DEF FineCells
  <2>2. \A i \in DOMAIN Kinds :
           IF Kinds[i] = "id" THEN Known(e, c[i]) ELSE c[i] = g.cells[i]
    BY <1>1, <2>1
  <2>3. FineCells(e, c)
    BY <1>2, <2>2 DEF FineCells
  <2>4. DOMAIN c = DOMAIN Kinds
    BY <1>2 DEF FineCells, Tuples
  <2>5. \A i \in DOMAIN Kinds : Kinds[i] = "id" => Unpacked(e, c[i]) = Unpacked(d, c[i])
    BY <1>1, <2>1
  <2> QED
    BY <2>3, <2>4, <2>5 DEF UnpackedCells
<1>3. \A x : Fine(d, x) => Fine(e, x)
  BY <1>1, <1>2 DEF Fine
<1>4. \A k, S : Sound(k, d, S) => Sound(k, e, S)
  BY <1>3 DEF Sound
<1>5. ASSUME NEW k, NEW S, NEW m, Sound(k, d, S), Shows(d, S, m) PROVE Shows(e, S, m)
  <2>1. \A x \in S : /\ Unpacked(e, x[1]) = Unpacked(d, x[1])
                     /\ UnpackedCells(e, x[2]) = UnpackedCells(d, x[2])
    BY <1>1, <1>2, <1>5 DEF Sound, Fine
  <2> QED
    BY <1>5, <2>1 DEF Shows
<1> QED
  BY <1>1, <1>2, <1>3, <1>4, <1>5

\* A set of rows shows one map, of row ids to cells.
LEMMA ShowsOne ==
  ASSUME NEW d, NEW S, NEW m, NEW w, Shows(d, S, m), Shows(d, S, w)
  PROVE  m = w
<1>1. DOMAIN m = DOMAIN w
  BY DEF Shows
<1>2. \A r \in DOMAIN m : m[r] = w[r]
  BY DEF Shows
<1> QED
  BY <1>1, <1>2 DEF Shows


\* The map is one RowMap may hold.
LEMMA ShowsRange ==
  ASSUME NEW k, NEW d, NEW S, NEW m, Sound(k, d, S), Shows(d, S, m)
  PROVE  m \in [DOMAIN m -> RowTuples] /\ DOMAIN m \subseteq RowIds /\ m # NoMark
<1>1. ASSUME NEW r \in DOMAIN m PROVE r \in RowIds /\ m[r] \in RowTuples
  <2>1. PICK x \in S : r = Unpacked(d, x[1]) /\ m[r] = UnpackedCells(d, x[2])
    BY DEF Shows
  <2>2. Known(d, x[1]) /\ FineCells(d, x[2])
    BY DEF Sound, Fine
  <2> QED
    BY <2>1, <2>2, UnpackedCellsIs DEF Known
<1>2. m \in [DOMAIN m -> RowTuples]
  BY <1>1 DEF Shows
<1>3. DOMAIN m \in SUBSET RowIds
  BY <1>1
<1> QED
  BY <1>2, <1>3, MarkerAssumption

\* Rows is what the rows stored mean.
LEMMA RowsShow ==
  ASSUME Layout, DictOK(dict), Sound(key, dict, Stock)
  PROVE  Shows(dict, Stock, Rows)
<1>1. /\ DOMAIN ids = 1 .. Len(ids)
      /\ Stock = {<<ids[p], RowAt(p - 1)>> : p \in 1 .. Len(ids)}
  BY Lines
<1>2. \A p \in DOMAIN ids : <<ids[p], RowAt(p - 1)>> \in Stock
  BY <1>1
<1>3. \A x \in Stock : \E p \in DOMAIN ids : x = <<ids[p], RowAt(p - 1)>>
  BY <1>1
<1> DEFINE at(r) == CHOOSE p \in DOMAIN ids : Unpacked(dict, ids[p]) = r
<1>4. Rows = [r \in {Unpacked(dict, ids[p]) : p \in DOMAIN ids} |->
                UnpackedCells(dict, RowAt(at(r) - 1))]
  BY DEF Rows
<1>5. ASSUME NEW r PROVE r \in DOMAIN Rows <=> \E x \in Stock : r = Unpacked(dict, x[1])
  <2>1. r \in DOMAIN Rows <=> \E p \in DOMAIN ids : r = Unpacked(dict, ids[p])
    BY <1>4
  <2>2. ASSUME NEW p \in DOMAIN ids, r = Unpacked(dict, ids[p])
        PROVE  \E x \in Stock : r = Unpacked(dict, x[1])
    BY <1>2, <2>2
  <2>3. ASSUME NEW x \in Stock, r = Unpacked(dict, x[1])
        PROVE  \E p \in DOMAIN ids : r = Unpacked(dict, ids[p])
    <3>1. PICK p \in DOMAIN ids : x = <<ids[p], RowAt(p - 1)>>
      BY <1>3
    <3> QED
      BY <2>3, <3>1
  <2> QED
    BY <2>1, <2>2, <2>3
<1>6. ASSUME NEW x \in Stock PROVE Rows[Unpacked(dict, x[1])] = UnpackedCells(dict, x[2])
  <2>1. PICK r : r = Unpacked(dict, x[1])
    OBVIOUS
  <2>2. PICK q \in DOMAIN ids : x = <<ids[q], RowAt(q - 1)>>
    BY <1>3
  <2>3. at(r) \in DOMAIN ids /\ Unpacked(dict, ids[at(r)]) = r
    BY <2>1, <2>2
  <2>4. Rows[r] = UnpackedCells(dict, RowAt(at(r) - 1))
    BY <1>4, <2>3
  <2>5. PICK p \in DOMAIN ids : p = at(r)
    BY <2>3
  <2>6. PICK y \in Stock : y = <<ids[p], RowAt(p - 1)>>
    BY <1>2
  <2>7. Known(dict, x[1]) /\ Known(dict, y[1]) /\ y[1] = ids[p] /\ y[2] = RowAt(p - 1)
    BY <2>6 DEF Sound, Fine
  <2>8. Unpacked(dict, x[1]) = Unpacked(dict, y[1])
    BY <2>1, <2>3, <2>5, <2>7
  <2>9. x[1] = y[1]
    BY <2>7, <2>8, UnpackedDiffer
  <2>10. x = y
    BY <2>9 DEF Sound
  <2> QED
    BY <2>1, <2>4, <2>5, <2>7, <2>10
<1>7. Rows = [r \in DOMAIN Rows |-> Rows[r]]
  BY <1>4
<1> QED
  BY <1>5, <1>6, <1>7 DEF Shows

\* No row of a map has the key of these cells.
KeyFree(k, m, c) ==
  k # NoKey => \A r \in DOMAIN m : SubSeq(m[r], 1, k) # SubSeq(c, 1, k)

\* A row more is a row put,
LEMMA ShowsPut ==
  ASSUME NEW d, DictOK(d), NEW k, KeyOK(k), NEW S, NEW x, NEW m, NEW w,
         Sound(k, d, S \cup {x}), \A y \in S : y[1] # x[1],
         Shows(d, S, m), Shows(d, S \cup {x}, w)
  PROVE  /\ Unpacked(d, x[1]) \in RowIds /\ UnpackedCells(d, x[2]) \in RowTuples
         /\ Unpacked(d, x[1]) \notin DOMAIN m
         /\ KeyFree(k, m, UnpackedCells(d, x[2]))
         /\ w = Map!With(m, Unpacked(d, x[1]), UnpackedCells(d, x[2]))
<1>1. Fine(d, x) /\ \A y \in S : Fine(d, y)
  BY DEF Sound
<1>2. PICK r, c : r = Unpacked(d, x[1]) /\ c = UnpackedCells(d, x[2])
  OBVIOUS
<1>3. r \in RowIds /\ c \in RowTuples
  BY <1>1, <1>2, UnpackedCellsIs DEF Fine, Known
<1>4. r \notin DOMAIN m
  <2> SUFFICES ASSUME r \in DOMAIN m PROVE FALSE
    OBVIOUS
  <2>1. PICK y \in S : r = Unpacked(d, y[1])
    BY DEF Shows
  <2>2. y[1] = x[1]
    BY <1>1, <1>2, <2>1, UnpackedDiffer DEF Fine
  <2> QED
    BY <2>2
<1>5. ASSUME k # NoKey, NEW s \in DOMAIN m, SubSeq(m[s], 1, k) = SubSeq(c, 1, k) PROVE FALSE
  <2>1. PICK y \in S : m[s] = UnpackedCells(d, y[2])
    BY DEF Shows
  <2>2. k \in 0 .. Len(Kinds)
    BY <1>5 DEF KeyOK
  <2>3. FineCells(d, y[2]) /\ FineCells(d, x[2])
    BY <1>1 DEF Fine
  <2>4. Agrees(y[2], x[2], k)
    BY <1>2, <1>5, <2>1, <2>2, <2>3, KeysDiffer
  <2>5. y = x
    BY <1>5, <2>4 DEF Sound
  <2> QED
    BY <2>5
<1>6. w = [s \in DOMAIN m \cup {r} |-> IF s = r THEN c ELSE m[s]]
  <2>1. \A s : s \in DOMAIN w <=> s \in DOMAIN m \/ s = r
    BY <1>2 DEF Shows
  <2>2. w[r] = c
    BY <1>2 DEF Shows
  <2>3. ASSUME NEW s \in DOMAIN m PROVE w[s] = m[s] /\ s # r
    <3>1. PICK y \in S : s = Unpacked(d, y[1])
      BY DEF Shows
    <3> QED
      BY <1>4, <3>1 DEF Shows
  <2>4. w = [s \in DOMAIN w |-> w[s]]
    BY DEF Shows
  <2>5. DOMAIN w = DOMAIN m \cup {r}
    BY <2>1
  <2>6. \A s \in DOMAIN m \cup {r} : w[s] = IF s = r THEN c ELSE m[s]
    BY <2>2, <2>3
  <2> QED
    BY <2>4, <2>5, <2>6
<1>7. w = Map!With(m, r, c)
  BY <1>6 DEF Map!With
<1> QED
  BY <1>2, <1>3, <1>4, <1>5, <1>7 DEF KeyFree

\* and a row less is a row dropped.
LEMMA ShowsDrop ==
  ASSUME NEW d, DictOK(d), NEW k, NEW S, NEW x \in S, NEW m, NEW w,
         Sound(k, d, S), Shows(d, S, m), Shows(d, S \ {x}, w)
  PROVE  /\ Unpacked(d, x[1]) \in RowIds /\ Unpacked(d, x[1]) \in DOMAIN m
         /\ w = Map!Restrict(m, DOMAIN m \ {Unpacked(d, x[1])})
<1>1. \A y \in S : Fine(d, y)
  BY DEF Sound
<1>2. PICK r : r = Unpacked(d, x[1])
  OBVIOUS
<1>3. r \in RowIds /\ r \in DOMAIN m
  BY <1>1, <1>2 DEF Fine, Known, Shows
<1>4. ASSUME NEW y \in S, Unpacked(d, y[1]) = r PROVE y = x
  <2>1. y[1] = x[1]
    BY <1>1, <1>2, <1>4, UnpackedDiffer DEF Fine
  <2> QED
    BY <2>1 DEF Sound
<1>5. ASSUME NEW s PROVE s \in DOMAIN w <=> s \in DOMAIN m /\ s # r
  <2>1. ASSUME s \in DOMAIN w PROVE s \in DOMAIN m /\ s # r
    <3>1. PICK y \in S \ {x} : s = Unpacked(d, y[1])
      BY <2>1 DEF Shows
    <3> QED
      BY <1>4, <3>1 DEF Shows
  <2>2. ASSUME s \in DOMAIN m, s # r PROVE s \in DOMAIN w
    <3>1. PICK y \in S : s = Unpacked(d, y[1])
      BY <2>2 DEF Shows
    <3>2. y \in S \ {x}
      BY <1>2, <2>2, <3>1
    <3> QED
      BY <3>1, <3>2 DEF Shows
  <2> QED
    BY <2>1, <2>2
<1>6. ASSUME NEW s \in DOMAIN w PROVE w[s] = m[s]
  <2>1. PICK y \in S \ {x} : s = Unpacked(d, y[1])
    BY DEF Shows
  <2> QED
    BY <2>1 DEF Shows
<1>7. DOMAIN w = DOMAIN m \ {r}
  BY <1>5
<1>8. w = [s \in DOMAIN m \ {r} |-> m[s]]
  BY <1>6, <1>7 DEF Shows
<1>9. w = Map!Restrict(m, DOMAIN m \ {r})
  BY <1>8 DEF Map!Restrict
<1> QED
  BY <1>2, <1>3, <1>9

\* What is said of a set of rows holds of fewer of them.
LEMMA SoundLess ==
  ASSUME NEW k, NEW d, NEW S, NEW T, Sound(k, d, S), T \subseteq S
  PROVE  Sound(k, d, T)
BY DEF Sound

-----------------------------------------------------------------------------
(* Interning *)


\* A hash interned is known, and those known before keep their places.
LEMMA InternOne ==
  ASSUME NEW d, DictOK(d), NEW h \in Hash, NEW e, e = Intern(d, h)
  PROVE  DictOK(e) /\ Grows(d, e) /\ \E n \in DOMAIN e : e[n] = h
<1>1. CASE \E n \in DOMAIN d : d[n] = h
  BY <1>1 DEF Intern, Grows
<1>2. CASE ~\E n \in DOMAIN d : d[n] = h
  <2>1. e = Append(d, h)
    BY <1>2 DEF Intern
  <2>2. d \in Seq(Hash) /\ Len(d) \in Nat /\ DOMAIN d = 1 .. Len(d)
    BY DEF DictOK
  <2>3. /\ e \in Seq(Hash) /\ DOMAIN e = 1 .. Len(d) + 1 /\ e[Len(d) + 1] = h
        /\ \A n \in 1 .. Len(d) : e[n] = d[n]
    BY <2>1, <2>2
  <2>4. IsInjective(e)
    <3> SUFFICES ASSUME NEW p \in 1 .. Len(d) + 1, NEW q \in 1 .. Len(d) + 1, e[p] = e[q]
                 PROVE  p = q
      BY <2>3 DEF IsInjective
    <3>1. CASE p \in 1 .. Len(d) /\ q \in 1 .. Len(d)
      BY <2>2, <2>3, <3>1 DEF DictOK, IsInjective
    <3>2. CASE p = Len(d) + 1
      BY <1>2, <2>2, <2>3, <3>2
    <3>3. CASE q = Len(d) + 1
      BY <1>2, <2>2, <2>3, <3>3
    <3> QED
      BY <2>2, <3>1, <3>2, <3>3
  <2>5. Grows(d, e)
    BY <2>2, <2>3 DEF Grows
  <2>6. Len(d) + 1 \in DOMAIN e
    BY <2>2, <2>3
  <2> QED
    BY <2>3, <2>4, <2>5, <2>6 DEF DictOK
<1> QED
  BY <1>1, <1>2

\* FoldLeft is the fold of FoldLemmas.
LEMMA InternFold == \A x, s : FoldLeft(Intern, x, s) = Interning!Fold(x, s)
BY DEF Interning!Fold, FoldLeft, Interning!FoldLeft, MapThenFoldSet,
       Interning!MapThenFoldSet, Max, Interning!Max


\* The same for the hashes of a row, one after the other
LEMMA InternAll ==
  ASSUME NEW d, DictOK(d), NEW m \in Seq(Hash), NEW e, e = FoldLeft(Intern, d, m)
  PROVE  /\ DictOK(e) /\ Grows(d, e)
         /\ \A i \in 1 .. Len(m) : \E n \in DOMAIN e : e[n] = m[i]
<1> DEFINE Interned(s, h) == \E n \in DOMAIN s : s[n] = h
           T == {p \in Nat \X Seq(Hash) :
                   /\ DictOK(p[2]) /\ Grows(d, p[2])
                   /\ \A i \in 1 .. Len(m) : i <= p[1] => Interned(p[2], m[i])}
<1>0. d \in Seq(Hash) /\ Len(m) \in Nat
  BY DEF DictOK
<1>1. <<0, d>> \in T
  BY <1>0 DEF Grows
<1>2. ASSUME NEW n \in Nat, n < Len(m), NEW acc, <<n, acc>> \in T
      PROVE  <<n + 1, Intern(acc, m[n+1])>> \in T
  <2>1. /\ acc \in Seq(Hash) /\ DictOK(acc) /\ Grows(d, acc)
        /\ \A i \in 1 .. Len(m) : i <= n => Interned(acc, m[i])
    BY <1>2
  <2>2. n + 1 \in 1 .. Len(m) /\ m[n+1] \in Hash
    BY <1>0, <1>2
  <2>3. PICK f : f = Intern(acc, m[n+1])
    OBVIOUS
  <2>4. DictOK(f) /\ Grows(acc, f) /\ Interned(f, m[n+1])
    <3>1. PICK h : h = m[n+1]
      OBVIOUS
    <3>2. DictOK(f) /\ Grows(acc, f) /\ \E l \in DOMAIN f : f[l] = h
      <4>1. DictOK(acc) /\ h \in Hash /\ f = Intern(acc, h)
        BY <2>1, <2>2, <2>3, <3>1
      <4> QED
        BY ONLY <4>1, InternOne
    <3> QED
      BY <3>1, <3>2
  <2>5. \A h : Interned(acc, h) => Interned(f, h)
    BY <2>4 DEF Grows
  <2>6. Grows(d, f)
    BY <2>1, <2>4 DEF Grows
  <2> HIDE DEF Interned
  <2>7. \A i \in 1 .. Len(m) : i <= n + 1 => Interned(f, m[i])
    <3> SUFFICES ASSUME NEW i \in 1 .. Len(m), i <= n + 1 PROVE Interned(f, m[i])
      OBVIOUS
    <3>1. i <= n \/ i = n + 1
      OBVIOUS
    <3> QED
      BY <2>1, <2>4, <2>5, <3>1
  <2>8. f \in Seq(Hash)
    BY <2>4 DEF DictOK
  <2> QED
    BY <2>3, <2>4, <2>6, <2>7, <2>8
<1> HIDE DEF T
<1>3. <<Len(m), Interning!Fold(d, m)>> \in T
  BY <1>1, <1>2, Interning!FoldInduct
<1>4. <<Len(m), e>> \in T
  BY <1>3, InternFold
<1> QED
  BY <1>0, <1>4 DEF T

\* What is packed with a known hash is unpacked to what it was.
LEMMA PackedIs ==
  ASSUME NEW d, DictOK(d), NEW id \in Hash \X Nat, id \in RowIds,
         \E n \in DOMAIN d : d[n] = id[1]
  PROVE  Known(d, Packed(d, id)) /\ Unpacked(d, Packed(d, id)) = id
<1>1. PICK n \in DOMAIN d : n = IndexOf(d, id[1]) /\ d[n] = id[1]
  BY DEF IndexOf
<1>2. Packed(d, id) = <<n, id[2]>> /\ n \in Nat /\ id[2] \in Nat /\ id = <<id[1], id[2]>>
  BY <1>1 DEF Packed, DictOK
<1>3. Unpacked(d, Packed(d, id)) = id
  BY <1>1, <1>2 DEF Unpacked
<1> QED
  BY <1>1, <1>2, <1>3 DEF Known, PackedId

\* pack_op makes a row that means what was given.
LEMMA InternRowIs ==
  ASSUME NEW d, DictOK(d), NEW row \in Given, NEW e, e = InternRow(d, row)
  PROVE  /\ DictOK(e) /\ Grows(d, e)
         /\ Fine(e, <<Packed(e, row.id), PackedCells(e, row.cells)>>)
         /\ Unpacked(e, Packed(e, row.id)) = row.id
<1>1. row.id \in Hash \X Nat /\ Typed(Hash \X Nat, row.cells)
  BY GivenAssumption
<1> DEFINE m == [i \in DOMAIN Kinds |-> IF Kinds[i] = "id" THEN row.cells[i][1] ELSE row.id[1]]
<1>2. m \in Seq(Hash) /\ Len(m) = Len(Kinds)
  <2>1. m \in [1 .. Len(Kinds) -> Hash]
    BY <1>1, Columns DEF Typed
  <2> HIDE DEF m
  <2> QED
    BY <2>1, Columns
<1>3. \A i \in 1 .. Len(Kinds) : Kinds[i] = "id" => m[i] = row.cells[i][1]
  BY Columns
<1>4. e = FoldLeft(Intern, Intern(d, row.id[1]), m)
  BY DEF InternRow
<1> HIDE DEF m
<1>5. PICK f : f = Intern(d, row.id[1])
  OBVIOUS
<1>6. DictOK(f) /\ Grows(d, f) /\ \E n \in DOMAIN f : f[n] = row.id[1]
  BY <1>1, <1>5, InternOne
<1>7. DictOK(e) /\ Grows(f, e) /\ \A i \in 1 .. Len(m) : \E n \in DOMAIN e : e[n] = m[i]
  <2>1. PICK s : s = m
    OBVIOUS
  <2>2. s \in Seq(Hash) /\ e = FoldLeft(Intern, f, s)
    BY <1>2, <1>4, <1>5, <2>1
  <2>3. DictOK(e) /\ Grows(f, e) /\ \A i \in 1 .. Len(s) : \E n \in DOMAIN e : e[n] = s[i]
    BY <1>6, <2>2, InternAll
  <2> QED
    BY <2>1, <2>3

<1>8. Grows(d, e) /\ \E n \in DOMAIN e : e[n] = row.id[1]
  BY <1>6, <1>7 DEF Grows
<1>9. row.id \in RowIds /\ \A i \in DOMAIN Kinds : Kinds[i] = "id" => row.cells[i] \in RowIds
  <2>1. row.id \in RowIds
    BY DEF RowIds
  <2>2. ASSUME NEW i \in DOMAIN Kinds, Kinds[i] = "id" PROVE row.cells[i] \in RowIds
    <3>1. row.cells[i] \in IdCells(row)
      BY <2>2 DEF IdCells
    <3> QED
      BY <3>1 DEF RowIds

  <2> QED
    BY <2>1, <2>2
<1>10. Known(e, Packed(e, row.id)) /\ Unpacked(e, Packed(e, row.id)) = row.id
  <2>1. \E n \in DOMAIN e : e[n] = row.id[1]
    BY <1>8
  <2>2. row.id \in RowIds /\ row.id \in Hash \X Nat /\ DictOK(e)
    BY <1>1, <1>7, <1>9
  <2> QED
    BY <2>1, <2>2, PackedIs

<1>11. PICK c : c = PackedCells(e, row.cells)
  OBVIOUS
<1>12. c = [i \in DOMAIN Kinds |-> IF Kinds[i] = "id" THEN Packed(e, row.cells[i])
                                   ELSE row.cells[i]]
  BY <1>1, <1>11 DEF Typed, PackedCells
<1>13. ASSUME NEW i \in DOMAIN Kinds, Kinds[i] = "id" PROVE Known(e, c[i])
  <2>1. row.cells[i] \in Hash \X Nat
    BY <1>1, <1>13 DEF Typed
  <2>2. i \in 1 .. Len(m) /\ m[i] = row.cells[i][1]
    BY <1>2, <1>3, <1>13, Columns
  <2>3. Known(e, Packed(e, row.cells[i]))
    BY <1>7, <1>9, <1>13, <2>1, <2>2, PackedIs
  <2> QED
    BY <1>12, <1>13, <2>3
<1>14. ASSUME NEW i \in DOMAIN Kinds, Kinds[i] # "id" PROVE c[i] = row.cells[i] /\ c[i] \in Int
  BY <1>1, <1>12, <1>14 DEF Typed
<1>15. c \in Tuples
  BY <1>12, <1>13, <1>14 DEF Tuples, CellOf, Known
<1>16. FineCells(e, c)
  BY <1>13, <1>14, <1>15 DEF FineCells
<1> QED
  BY <1>7, <1>8, <1>10, <1>11, <1>16 DEF Fine

-----------------------------------------------------------------------------
(* Updates to come and updates to undo *)

Updates == [kind : {"add", "delete"}, id : PackedId, cells : Seq(PackedId \cup Int)]

IdsOf(S) == {x[1] : x \in S}

\* An update with ids that are known, a row to add being one the table may hold
FineUpdate(d, u) ==
  u \in Updates /\ Known(d, u.id) /\ (u.kind = "add" => Fine(d, <<u.id, u.cells>>))

\* An update takes the ids stored from I to J.
Applies(u, I, J) ==
  \/ u.kind = "add" /\ u.id \notin I /\ J = I \cup {u.id}
  \/ u.kind = "delete" /\ u.id \in I /\ J = I \ {u.id}

\* The updates can be applied one after the other, Y[n] being stored after n of them.
Runs(I, s, Y) == Y[0] = I /\ \A n \in 1 .. Len(s) : Applies(s[n], Y[n - 1], Y[n])

\* Updates that can be applied, and leave the ids J stored
Reaches(d, I, s, J) ==
  /\ s \in Seq(Updates) /\ \A n \in 1 .. Len(s) : FineUpdate(d, s[n])
  /\ \E Y : Runs(I, s, Y) /\ Y[Len(s)] = J

\* The ids J were stored before or are those of an update.
Covers(I, s, J) == \A i \in J : i \in I \/ \E n \in 1 .. Len(s) : s[n].id = i

\* Updates taken, and updates staged
Doing(d, I, s) == \E J : Reaches(d, I, s, J)
Staged(d, I, s) == \E J : Reaches(d, I, s, J) /\ Covers(I, s, J)

\* An undo entry takes the rows from S to T; undone, it takes them back.
Undoes(u, S, T) ==
  \/ u.kind = "add" /\ (\A x \in S : x[1] # u.id) /\ T = S \cup {<<u.id, u.cells>>}
  \/ u.kind = "delete" /\ <<u.id, u.cells>> \in S /\ T = S \ {<<u.id, u.cells>>}

\* past[n] were the rows when the log had n entries.
Logged(k, d, u, S, past) ==
  /\ past[Len(u)] = S
  /\ \A n \in 0 .. Len(u) : Sound(k, d, past[n])
  /\ \A n \in 1 .. Len(u) : Undoes(u[n], past[n - 1], past[n])

\* The log leads back from the rows S to those a snapshot showed as bf, for which
\* the first mk hashes suffice.
Undoable(k, d, u, S, mk, bf) ==
  /\ u \in Seq(Updates)
  /\ \E past : /\ Logged(k, d, u, S, past)
               /\ Sound(k, SubSeq(d, 1, mk), past[0])
               /\ Shows(SubSeq(d, 1, mk), past[0], bf)

\* What could be applied still can when the dictionary has grown.
LEMMA UpdatesGrow ==
  ASSUME NEW d, NEW e, Grows(d, e)
  PROVE  /\ \A u : FineUpdate(d, u) => FineUpdate(e, u)
         /\ \A I, s : Staged(d, I, s) => Staged(e, I, s)
         /\ \A I, s : Doing(d, I, s) => Doing(e, I, s)
<1>1. \A u : FineUpdate(d, u) => FineUpdate(e, u)
  BY FineGrows DEF FineUpdate
<1>2. \A I, s, J : Reaches(d, I, s, J) => Reaches(e, I, s, J)
  BY <1>1 DEF Reaches
<1> QED
  BY <1>1, <1>2 DEF Staged, Doing

\* No update can be applied, to any ids.
LEMMA NoUpdates ==
  ASSUME NEW d, NEW I
  PROVE  Staged(d, I, <<>>) /\ Doing(d, I, <<>>)
<1> DEFINE Y == [n \in {0} |-> I]
<1>1. Runs(I, <<>>, Y) /\ Len(<<>>) = 0 /\ Y[0] = I
  BY DEF Runs
<1>2. <<>> \in Seq(Updates) /\ \A n \in 1 .. Len(<<>>) : FineUpdate(d, <<>>[n])
  OBVIOUS
<1> HIDE DEF Y
<1>3. Reaches(d, I, <<>>, I) /\ Covers(I, <<>>, I)
  BY <1>1, <1>2 DEF Reaches, Covers
<1> QED
  BY <1>3 DEF Staged, Doing

\* What is staged can be taken.
LEMMA StagedDoing ==
  ASSUME NEW d, NEW I, NEW s, Staged(d, I, s)
  PROVE  Doing(d, I, s)
BY DEF Staged, Doing

\* An update more, if it applies to what the others leave
LEMMA ReachesMore ==
  ASSUME NEW d, NEW I, NEW s, NEW J, Reaches(d, I, s, J),
         NEW u, FineUpdate(d, u), NEW K, Applies(u, J, K)
  PROVE  /\ Reaches(d, I, Append(s, u), K)
         /\ \E n \in 1 .. Len(Append(s, u)) : Append(s, u)[n].id = u.id
         /\ \A n \in 1 .. Len(s) : \E q \in 1 .. Len(Append(s, u)) : Append(s, u)[q].id = s[n].id
<1>1. PICK t, m : t = Append(s, u) /\ m = Len(s)
  OBVIOUS
<1>2. /\ s \in Seq(Updates) /\ u \in Updates /\ m \in Nat
      /\ t \in Seq(Updates) /\ Len(t) = m + 1 /\ t[m + 1] = u
      /\ \A n \in 1 .. m : t[n] = s[n]
  BY <1>1 DEF Reaches, FineUpdate
<1>3. PICK Y : Runs(I, s, Y) /\ Y[m] = J
  BY <1>1 DEF Reaches
<1> DEFINE Z == [n \in 0 .. m+1 |-> IF n = m + 1 THEN K ELSE Y[n]]
<1>4. Z[m + 1] = K /\ \A n \in 0 .. m : Z[n] = Y[n]
  BY <1>2
<1> HIDE DEF Z
<1>5. \A n \in 1 .. m + 1 : FineUpdate(d, t[n])
  <2> SUFFICES ASSUME NEW n \in 1 .. m + 1 PROVE FineUpdate(d, t[n])
    OBVIOUS
  <2>1. n = m + 1 \/ n \in 1 .. m
    BY <1>2
  <2> QED
    BY <1>1, <1>2, <2>1 DEF Reaches
<1>6. Runs(I, t, Z)
  <2>1. Z[0] = I
    BY <1>2, <1>3, <1>4 DEF Runs
  <2>2. ASSUME NEW n \in 1 .. m + 1 PROVE Applies(t[n], Z[n - 1], Z[n])
    <3>1. CASE n = m + 1
      <4>1. n - 1 = m /\ Z[n - 1] = J /\ t[n] = u /\ Z[n] = K
        BY <1>2, <1>3, <1>4, <3>1
      <4> QED
        BY <4>1
    <3>2. CASE n \in 1 .. m
      <4>1. n - 1 \in 0 .. m /\ n \in 0 .. m
        BY <1>2, <3>2
      <4>2. Z[n - 1] = Y[n - 1] /\ Z[n] = Y[n] /\ t[n] = s[n]
        BY <1>2, <1>4, <3>2, <4>1
      <4>3. Applies(s[n], Y[n - 1], Y[n])
        BY <1>1, <1>3, <3>2 DEF Runs
      <4> QED
        BY <4>2, <4>3, Zenon
    <3>3. n = m + 1 \/ n \in 1 .. m
      BY <1>2
    <3> QED
      BY <3>1, <3>2, <3>3, Zenon
  <2> QED
    BY <1>2, <2>1, <2>2 DEF Runs
<1>7. Reaches(d, I, t, K)
  BY <1>2, <1>4, <1>5, <1>6 DEF Reaches
<1>8. m + 1 \in 1 .. m + 1 /\ 1 .. m \subseteq 1 .. m + 1
  BY <1>2
<1> QED
  BY <1>1, <1>2, <1>7, <1>8

\* A row more is staged, of an id that is neither stored nor staged.
LEMMA StagedMore ==
  ASSUME NEW d, NEW I, NEW s, Staged(d, I, s), NEW u, FineUpdate(d, u), u.kind = "add",
         u.id \notin I, \A n \in 1 .. Len(s) : s[n].id # u.id
  PROVE  Staged(d, I, Append(s, u))
<1>1. PICK J : Reaches(d, I, s, J) /\ Covers(I, s, J)
  BY DEF Staged
<1>2. Applies(u, J, J \cup {u.id})
  BY <1>1 DEF Applies, Covers
<1>3. PICK t : t = Append(s, u)
  OBVIOUS
<1>4. /\ Reaches(d, I, t, J \cup {u.id})
      /\ \E n \in 1 .. Len(t) : t[n].id = u.id
      /\ \A n \in 1 .. Len(s) : \E q \in 1 .. Len(t) : t[q].id = s[n].id
  BY <1>1, <1>2, <1>3, ReachesMore
<1>5. Covers(I, t, J \cup {u.id})
  <2> SUFFICES ASSUME NEW i \in J \cup {u.id}, i \notin I
               PROVE  \E n \in 1 .. Len(t) : t[n].id = i
    BY DEF Covers
  <2>1. CASE i = u.id
    BY <1>4, <2>1
  <2>2. CASE i \in J
    BY <1>1, <1>4, <2>2 DEF Covers
  <2> QED
    BY <2>1, <2>2
<1> QED
  BY <1>3, <1>4, <1>5 DEF Staged

\* The first update applies, and the others do after it.
LEMMA DoingStep ==
  ASSUME NEW d, NEW I, NEW s, Doing(d, I, s), s # <<>>
  PROVE  /\ FineUpdate(d, Head(s))
         /\ \E J : Applies(Head(s), I, J) /\ Doing(d, J, Tail(s))
<1>1. PICK t, m : t = Tail(s) /\ m = Len(s)
  OBVIOUS
<1>2. s \in Seq(Updates) /\ m \in Nat /\ m # 0
  BY <1>1 DEF Doing, Reaches
<1>3. /\ t \in Seq(Updates) /\ Len(t) = m - 1 /\ Head(s) = s[1]
      /\ \A n \in 1 .. m - 1 : t[n] = s[n + 1]
  BY <1>1, <1>2
<1>4. PICK Y : Runs(I, s, Y)
  BY DEF Doing, Reaches
<1> DEFINE Z == [n \in 0 .. m - 1 |-> Y[n + 1]]
<1>5. \A n \in 0 .. m - 1 : Z[n] = Y[n + 1]
  OBVIOUS
<1> HIDE DEF Z
<1>6. \A n \in 1 .. m : FineUpdate(d, s[n])
  BY <1>1 DEF Doing, Reaches
<1>7. Applies(s[1], Y[0], Y[1]) /\ Y[0] = I
  <2>1. 1 \in 1 .. Len(s) /\ 1 - 1 = 0
    BY <1>1, <1>2
  <2> QED
    BY <1>4, <2>1 DEF Runs
<1>8. Runs(Y[1], t, Z)
  <2>1. Z[0] = Y[1]
    BY <1>2, <1>5
  <2>2. ASSUME NEW n \in 1 .. m - 1 PROVE Applies(t[n], Z[n - 1], Z[n])
    <3>1. n + 1 \in 1 .. m /\ n - 1 \in 0 .. m - 1 /\ n \in 0 .. m - 1
      BY <1>2
    <3>2. (n + 1) - 1 = n /\ (n - 1) + 1 = n
      OBVIOUS
    <3>3. Applies(s[n + 1], Y[n], Y[n + 1])
      BY <1>1, <1>4, <3>1, <3>2 DEF Runs
    <3> QED
      BY <1>3, <1>5, <3>1, <3>2, <3>3
  <2> QED
    BY <1>3, <2>1, <2>2 DEF Runs
<1>9. \A n \in 1 .. m - 1 : FineUpdate(d, t[n])
  <2> SUFFICES ASSUME NEW n \in 1 .. m - 1 PROVE FineUpdate(d, t[n])
    OBVIOUS
  <2>1. n + 1 \in 1 .. m
    BY <1>2
  <2> QED
    BY <1>3, <1>6, <2>1
<1>10. Doing(d, Y[1], t)
  BY <1>3, <1>8, <1>9 DEF Doing, Reaches
<1>11. FineUpdate(d, s[1])
  BY <1>2, <1>6
<1> QED
  BY <1>1, <1>3, <1>7, <1>10, <1>11

\* A log grows by an entry,
LEMMA UndoableMore ==
  ASSUME NEW k, NEW d, NEW u, NEW S, NEW T, NEW mk, NEW bf, NEW v \in Updates,
         Undoable(k, d, u, S, mk, bf), Sound(k, d, T), Undoes(v, S, T)
  PROVE  Undoable(k, d, Append(u, v), T, mk, bf)
<1>1. PICK w, m : w = Append(u, v) /\ m = Len(u)
  OBVIOUS
<1>2. /\ u \in Seq(Updates) /\ m \in Nat
      /\ w \in Seq(Updates) /\ Len(w) = m + 1 /\ w[m + 1] = v
      /\ \A n \in 1 .. m : w[n] = u[n]
  BY <1>1 DEF Undoable
<1>3. PICK past : /\ Logged(k, d, u, S, past)
                  /\ Sound(k, SubSeq(d, 1, mk), past[0])
                  /\ Shows(SubSeq(d, 1, mk), past[0], bf)
  BY DEF Undoable
<1> DEFINE now == [n \in 0 .. m + 1 |-> IF n = m + 1 THEN T ELSE past[n]]
<1>4. now[m + 1] = T /\ \A n \in 0 .. m : now[n] = past[n]
  BY <1>2
<1> HIDE DEF now
<1>5. now[0] = past[0] /\ now[m] = past[m] /\ past[m] = S
  BY <1>1, <1>2, <1>3, <1>4 DEF Logged
<1>6. ASSUME NEW n \in 0 .. m + 1 PROVE Sound(k, d, now[n])
  <2>1. n = m + 1 \/ n \in 0 .. m
    BY <1>2
  <2> QED
    BY <1>1, <1>3, <1>4, <2>1 DEF Logged
<1>7. ASSUME NEW n \in 1 .. m + 1 PROVE Undoes(w[n], now[n - 1], now[n])
  <2>1. CASE n = m + 1
    <3>1. n - 1 = m
      BY <1>2, <2>1
    <3> QED
      BY <1>2, <1>4, <1>5, <2>1, <3>1
  <2>2. CASE n \in 1 .. m
    <3>1. n - 1 \in 0 .. m /\ n \in 0 .. m
      BY <1>2, <2>2
    <3>2. Undoes(u[n], past[n - 1], past[n])
      BY <1>1, <1>3, <2>2 DEF Logged
    <3>3. w[n] = u[n] /\ now[n - 1] = past[n - 1] /\ now[n] = past[n]
      BY <1>2, <1>4, <2>2, <3>1
    <3> QED
      BY <3>2, <3>3, Zenon
  <2>3. n = m + 1 \/ n \in 1 .. m
    BY <1>2
  <2> QED
    BY <2>1, <2>2, <2>3, Zenon
<1>8. Logged(k, d, w, T, now)

  BY <1>2, <1>4, <1>6, <1>7 DEF Logged
<1> QED
  BY <1>1, <1>2, <1>3, <1>5, <1>8 DEF Undoable

\* and shrinks by its last one.
LEMMA UndoableLess ==
  ASSUME NEW k, NEW d, NEW u, NEW S, NEW mk, NEW bf,
         Undoable(k, d, u, S, mk, bf), u # <<>>
  PROVE  /\ Last(u) \in Updates
         /\ \E R : Undoes(Last(u), R, S) /\ Sound(k, d, R) /\ Undoable(k, d, Front(u), R, mk, bf)
<1>1. PICK w, m : w = Front(u) /\ m = Len(u)
  OBVIOUS
<1>2. u \in Seq(Updates) /\ m \in Nat /\ m # 0
  BY <1>1 DEF Undoable
<1>3. /\ w \in Seq(Updates) /\ Len(w) = m - 1 /\ \A n \in 1 .. m - 1 : w[n] = u[n]
  <2>1. w = SubSeq(u, 1, m - 1)
    BY <1>1 DEF Front
  <2> QED
    BY <1>1, <1>2, <2>1, SubSeqProperties
<1>4. Last(u) = u[m] /\ u[m] \in Updates
  BY <1>1, <1>2 DEF Last
<1>5. PICK past : /\ Logged(k, d, u, S, past)
                  /\ Sound(k, SubSeq(d, 1, mk), past[0])
                  /\ Shows(SubSeq(d, 1, mk), past[0], bf)
  BY DEF Undoable
<1>6. PICK R : R = past[m - 1]
  OBVIOUS
<1>7. Undoes(u[m], R, S) /\ Sound(k, d, R)
  <2>1. m \in 1 .. m /\ m - 1 \in 0 .. m
    BY <1>2
  <2> QED
    BY <1>1, <1>5, <1>6, <2>1 DEF Logged
<1>8. Logged(k, d, w, R, past)
  <2>1. \A n \in 0 .. m - 1 : n \in 0 .. m
    BY <1>2
  <2>2. \A n \in 1 .. m - 1 : n \in 1 .. m
    BY <1>2
  <2> QED
    BY <1>1, <1>3, <1>5, <1>6, <2>1, <2>2 DEF Logged
<1>9. Undoable(k, d, w, R, mk, bf)
  BY <1>3, <1>5, <1>8 DEF Undoable
<1> QED
  BY <1>1, <1>4, <1>7, <1>9

\* An empty log means that the rows are those of the snapshot.
LEMMA UndoableNone ==
  ASSUME NEW k, NEW d, NEW S, NEW mk, NEW bf
  PROVE  /\ Undoable(k, d, <<>>, S, mk, bf)
              => Sound(k, SubSeq(d, 1, mk), S) /\ Shows(SubSeq(d, 1, mk), S, bf)
         /\ Sound(k, d, S) /\ Sound(k, SubSeq(d, 1, mk), S) /\ Shows(SubSeq(d, 1, mk), S, bf)
              => Undoable(k, d, <<>>, S, mk, bf)
<1>1. Len(<<>>) = 0 /\ <<>> \in Seq(Updates)
  OBVIOUS
<1>2. ASSUME Undoable(k, d, <<>>, S, mk, bf)
      PROVE  Sound(k, SubSeq(d, 1, mk), S) /\ Shows(SubSeq(d, 1, mk), S, bf)
  BY <1>1, <1>2 DEF Undoable, Logged
<1>3. ASSUME Sound(k, d, S), Sound(k, SubSeq(d, 1, mk), S), Shows(SubSeq(d, 1, mk), S, bf)
      PROVE  Undoable(k, d, <<>>, S, mk, bf)
  <2> DEFINE past == [n \in {0} |-> S]
  <2>1. past[0] = S
    OBVIOUS
  <2> HIDE DEF past
  <2>2. Logged(k, d, <<>>, S, past)
    BY <1>1, <1>3, <2>1 DEF Logged
  <2> QED
    BY <1>1, <1>3, <2>1, <2>2 DEF Undoable
<1> QED
  BY <1>2, <1>3

\* A dictionary that grows behind the mark changes nothing.
LEMMA UndoableGrows ==
  ASSUME NEW k, NEW d \in Seq(Hash), NEW e \in Seq(Hash), Grows(d, e),
         NEW mk \in 0 .. Len(d), NEW u, NEW S, NEW bf, Undoable(k, d, u, S, mk, bf)
  PROVE  Undoable(k, e, u, S, mk, bf)
<1>1. SubSeq(e, 1, mk) = SubSeq(d, 1, mk)
  <2>1. Len(e) >= Len(d)
    <3> SUFFICES ASSUME Len(d) > Len(e) PROVE FALSE
      OBVIOUS
    <3>1. Len(d) \in DOMAIN d /\ Len(d) \notin DOMAIN e
      OBVIOUS
    <3> QED
      BY <3>1 DEF Grows
  <2>2. \A n \in 1 .. mk : d[n] = e[n]
    BY DEF Grows
  <2>3. mk \in 0 .. Len(e)
    BY <2>1
  <2> QED
    BY <2>2, <2>3
<1>2. \A T : Sound(k, d, T) => Sound(k, e, T)

  BY FineGrows
<1>3. PICK past : /\ Logged(k, d, u, S, past)
                  /\ Sound(k, SubSeq(d, 1, mk), past[0])
                  /\ Shows(SubSeq(d, 1, mk), past[0], bf)
  BY DEF Undoable
<1>4. Logged(k, e, u, S, past)
  BY <1>2, <1>3 DEF Logged
<1> QED
  BY <1>1, <1>3, <1>4 DEF Undoable

-----------------------------------------------------------------------------
(* What a rebuild stages *)

\* FoldLeft is the fold of FoldLemmas.
LEMMA ThenFold == \A x, s : FoldLeft(Then, x, s) = Joining!Fold(x, s)
BY DEF Joining!Fold, FoldLeft, Joining!FoldLeft, MapThenFoldSet,
       Joining!MapThenFoldSet, Max, Joining!Max

\* A row rewritten is a row the table may hold.
LEMMA RewrittenFine ==
  ASSUME Layout, NEW d, NEW old, NEW new, Known(d, new), NEW p \in 1 .. Len(ids),
         Fine(d, <<ids[p], RowAt(p - 1)>>)
  PROVE  FineCells(d, Rewritten(old, new, p - 1))
<1>1. PICK c, w : c = RowAt(p - 1) /\ w = Rewritten(old, new, p - 1)
  OBVIOUS
<1>2. FineCells(d, c) /\ c \in Tuples
  BY <1>1 DEF Fine, FineCells
<1>3. w = [i \in DOMAIN Kinds |-> IF Kinds[i] = "id" THEN Canonical(old, new, c[i]) ELSE c[i]]
  BY <1>1 DEF Rewritten, Layout
<1>4. PICK g \in Given : \A i \in DOMAIN Kinds :
        IF Kinds[i] = "id" THEN Known(d, c[i]) ELSE c[i] = g.cells[i]
  BY <1>2 DEF FineCells
<1>5. ASSUME NEW i \in DOMAIN Kinds
      PROVE  /\ IF Kinds[i] = "id" THEN Known(d, w[i]) ELSE w[i] = g.cells[i]
             /\ w[i] \in CellOf(i)
  <2>1. CASE Kinds[i] = "id"
    <3>1. w[i] = Canonical(old, new, c[i])
      BY <1>3, <2>1
    <3>2. Known(d, w[i])
      BY <1>4, <2>1, <3>1 DEF Canonical
    <3> QED
      BY <2>1, <3>2 DEF Known, CellOf
  <2>2. CASE Kinds[i] # "id"
    <3>1. w[i] = c[i] /\ c[i] = g.cells[i]
      BY <1>3, <1>4, <2>2
    <3>2. c[i] \in CellOf(i)
      BY <1>2 DEF Tuples
    <3> QED
      BY <2>2, <3>1, <3>2
  <2> QED
    BY <2>1, <2>2
<1>6. w \in Tuples
  <2>1. w \in [DOMAIN Kinds -> PackedId \cup Int]
    BY <1>3, <1>5 DEF CellOf
  <2> QED
    BY <1>5, <2>1 DEF Tuples
<1> QED
  BY <1>1, <1>5, <1>6 DEF FineCells

\* The ids stored when the first n rows have been visited
Merged(old, new, I, n) == IF \E m \in 1 .. n : ids[m] = old THEN (I \ {old}) \cup {new} ELSE I

\* The updates for one more row apply after those for the rows before it.
LEMMA RebuildRowIs ==
  ASSUME Layout, NEW d, \A x \in Stock : Fine(d, x),
         NEW old \in PackedId, NEW new, Known(d, new), old # new, NEW I, I = IdsOf(Stock),
         NEW n \in Nat, n < Len(ids), NEW s,
         Reaches(d, I, s, Merged(old, new, I, n)), Covers(I, s, Merged(old, new, I, n))
  PROVE  LET t == s \o RebuildRow(old, new, n)
         IN  /\ Reaches(d, I, t, Merged(old, new, I, n + 1))
             /\ Covers(I, t, Merged(old, new, I, n + 1))
<1>1. PICK p : p = n + 1
  OBVIOUS
<1>2. p \in 1 .. Len(ids) /\ p - 1 = n /\ Len(ids) \in Nat
  BY <1>1, Lines
<1>3. PICK q, c, w, J, K :
          /\ q = ids[p] /\ c = RowAt(n) /\ w = Rewritten(old, new, n)
          /\ J = Merged(old, new, I, n) /\ K = Merged(old, new, I, p)
  OBVIOUS
<1>4. <<q, c>> \in Stock /\ Fine(d, <<q, c>>) /\ q \in PackedId /\ q \in I
  <2>1. <<q, c>> \in Stock
    BY <1>2, <1>3, Lines
  <2> QED
    BY <2>1, StockIs DEF IdsOf
<1>5. FineCells(d, w) /\ w \in Seq(PackedId \cup Int)
  <2>1. FineCells(d, w)
    BY <1>2, <1>3, <1>4, RewrittenFine
  <2>2. w \in [1 .. Len(Kinds) -> PackedId \cup Int] /\ Len(Kinds) \in Nat
    BY <2>1, Columns DEF FineCells, Tuples
  <2> QED
    BY <2>1, <2>2
<1>6. Known(d, q)
  BY <1>4 DEF Fine
<1>7. PICK u, v : u = Update("delete", q, <<>>) /\ v = Update("add", Canonical(old, new, q), w)
  OBVIOUS
<1>8. FineUpdate(d, u) /\ u.kind = "delete" /\ u.id = q
  BY <1>6, <1>7, <1>4 DEF FineUpdate, Update, Updates
<1>9. FineUpdate(d, v) /\ v.kind = "add" /\ v.id = Canonical(old, new, q)
  <2>1. Known(d, Canonical(old, new, q)) /\ Canonical(old, new, q) \in PackedId
    BY <1>6 DEF Canonical, Known
  <2> QED
    BY <1>5, <1>7, <2>1 DEF FineUpdate, Update, Updates, Fine
<1>10. Stored(new) <=> new \in I
  BY StockIs DEF IdsOf, Known
<1>11. \A m \in 1 .. n : ids[m] # q
  <2> SUFFICES ASSUME NEW m \in 1 .. n, ids[m] = q PROVE FALSE
    OBVIOUS
  <2>1. m \in 1 .. Len(ids) /\ m < p
    BY <1>2
  <2>2. SortedBefore(q, q)
    BY <1>2, <1>3, <2>1, Lines DEF Layout, StrictId
  <2> QED
    BY <1>4, <2>2 DEF SortedBefore, PackedId
<1>12. 1 .. p = 1 .. n \cup {p}
  BY <1>1
<1>13. q \in J
  BY <1>3, <1>4, <1>11 DEF Merged
<1>14. s \in Seq(Updates) /\ Reaches(d, I, s, J) /\ Covers(I, s, J)
  BY <1>3 DEF Reaches
<1>15. u \in Updates /\ v \in Updates
  BY <1>8, <1>9 DEF FineUpdate
<1>16. PICK r : r = Append(s, u)
  OBVIOUS
<1>17. /\ Reaches(d, I, r, J \ {q})
       /\ \A m \in 1 .. Len(s) : \E l \in 1 .. Len(r) : r[l].id = s[m].id
  <2>1. Applies(u, J, J \ {q})
    BY <1>8, <1>13 DEF Applies
  <2> QED
    BY <1>8, <1>14, <1>16, <2>1, ReachesMore
<1>18. PICK t : t = s \o RebuildRow(old, new, n)
  OBVIOUS
<1>19. CASE q # old /\ c = w
  <2>1. t = s
    BY <1>2, <1>3, <1>1, <1>14, <1>18, <1>19 DEF RebuildRow
  <2>2. K = J
    BY <1>3, <1>12, <1>19 DEF Merged
  <2> QED
    BY <1>1, <1>3, <1>14, <1>18, <2>1, <2>2
<1>20. CASE q = old /\ new \in I
  <2>1. RebuildRow(old, new, n) = <<u>>
    BY <1>1, <1>3, <1>7, <1>10, <1>20 DEF RebuildRow
  <2>2. t = r
    BY <1>14, <1>15, <1>16, <1>18, <2>1
  <2>3. J = I /\ K = (I \ {old}) \cup {new}
    BY <1>3, <1>11, <1>12, <1>20 DEF Merged
  <2>4. K = J \ {q}
    BY <1>20, <2>3
  <2>5. Covers(I, r, K)
    BY <2>3, <2>4 DEF Covers
  <2> QED
    BY <1>1, <1>3, <1>17, <1>18, <2>2, <2>4, <2>5
<1>21. CASE ~(q # old /\ c = w) /\ ~(q = old /\ new \in I)
  <2>1. RebuildRow(old, new, n) = <<u, v>>
    BY <1>1, <1>3, <1>7, <1>10, <1>21 DEF RebuildRow
  <2>2. t = Append(r, v)
    BY <1>14, <1>15, <1>16, <1>18, <2>1
  <2>3. PICK a : a = Canonical(old, new, q)
    OBVIOUS
  <2>4. a \notin J \ {q} /\ K = (J \ {q}) \cup {a}
    <3>1. CASE q = old
      <4>1. J = I /\ K = (I \ {old}) \cup {new} /\ a = new
        BY <1>3, <1>11, <1>12, <2>3, <3>1 DEF Merged, Canonical
      <4> QED
        BY <1>21, <3>1, <4>1
    <3>2. CASE q # old
      <4>1. a = q /\ K = J
        BY <1>3, <1>12, <2>3, <3>2 DEF Merged, Canonical
      <4> QED
        BY <1>13, <4>1
    <3> QED
      BY <3>1, <3>2
  <2>5. Applies(v, J \ {q}, K)
    BY <1>9, <2>3, <2>4 DEF Applies
  <2>6. /\ Reaches(d, I, t, K)
        /\ \E m \in 1 .. Len(t) : t[m].id = v.id
        /\ \A m \in 1 .. Len(r) : \E l \in 1 .. Len(t) : t[l].id = r[m].id
    BY <1>9, <1>17, <2>2, <2>5, ReachesMore
  <2>7. Covers(I, t, K)
    <3> SUFFICES ASSUME NEW i \in K, i \notin I PROVE \E m \in 1 .. Len(t) : t[m].id = i
      BY DEF Covers
    <3>1. CASE i = a
      BY <1>9, <2>3, <2>6, <3>1
    <3>2. CASE i # a
      <4>1. i \in J
        BY <2>4, <3>2
      <4>2. PICK m \in 1 .. Len(s) : s[m].id = i
        BY <1>14, <4>1 DEF Covers
      <4>3. PICK l \in 1 .. Len(r) : r[l].id = i
        BY <1>17, <4>2
      <4> QED
        BY <2>6, <4>3
    <3> QED
      BY <3>1, <3>2
  <2> QED
    BY <1>1, <1>3, <1>18, <2>6, <2>7
<1> QED
  BY <1>19, <1>20, <1>21

\* A rebuild stages updates that can be applied.
LEMMA RebuildStaged ==
  ASSUME Layout, NEW d, \A x \in Stock : Fine(d, x),
         NEW old \in PackedId, NEW new, Known(d, new), old # new
  PROVE  Staged(d, IdsOf(Stock), RebuildOps(old, new))
<1>1. PICK I, k : I = IdsOf(Stock) /\ k = [p \in DOMAIN ids |-> RebuildRow(old, new, p - 1)]
  OBVIOUS
<1>2. /\ Len(ids) \in Nat /\ DOMAIN ids = 1 .. Len(ids) /\ Len(k) = Len(ids)
      /\ k \in Seq({RebuildRow(old, new, p - 1) : p \in DOMAIN ids})
      /\ \A p \in 1 .. Len(ids) : k[p] = RebuildRow(old, new, p - 1)
  BY <1>1, Lines
<1> DEFINE Left(n, s) == /\ Reaches(d, I, s, Merged(old, new, I, n))
                         /\ Covers(I, s, Merged(old, new, I, n))
           T == {p \in Nat \X Seq(Updates) : Left(p[1], p[2])}
<1>3. <<0, <<>>>> \in T
  <2>1. Merged(old, new, I, 0) = I
    BY DEF Merged
  <2>2. PICK J : Reaches(d, I, <<>>, J)
    BY NoUpdates DEF Doing
  <2>3. PICK Y : Runs(I, <<>>, Y)
    BY <2>2 DEF Reaches
  <2>4. Len(<<>>) = 0 /\ Y[0] = I
    BY <2>3 DEF Runs
  <2>5. Reaches(d, I, <<>>, I)
    BY <2>2, <2>3, <2>4 DEF Reaches
  <2>6. Left(0, <<>>)
    BY <2>1, <2>5 DEF Covers
  <2>7. <<>> \in Seq(Updates) /\ 0 \in Nat
    OBVIOUS
  <2> HIDE DEF Left
  <2>8. \E a \in Nat \X Seq(Updates) : a = <<0, <<>>>> /\ Left(a[1], a[2])
    <3>1. PICK a : a = <<0, <<>>>>
      OBVIOUS
    <3>2. a[1] = 0 /\ a[2] = <<>>
      BY <3>1
    <3>3. Left(a[1], a[2])
      BY <2>6, <3>2
    <3>4. a \in Nat \X Seq(Updates)
      BY <2>7, <3>1
    <3> QED
      BY <3>1, <3>3, <3>4, Zenon
  <2> QED
    BY <2>8, Zenon
<1>4. ASSUME
 NEW n \in Nat, n < Len(k), NEW acc, <<n, acc>> \in T

      PROVE  <<n + 1, Then(acc, k[n + 1])>> \in T
  <2>1. Left(n, acc)
    BY <1>4
  <2>2. n + 1 \in 1 .. Len(ids) /\ (n + 1) - 1 = n /\ n < Len(ids)
    BY <1>2, <1>4
  <2>3. PICK t : t = acc \o RebuildRow(old, new, n)
    OBVIOUS
  <2>4. Left(n + 1, t)
    BY <1>1, <2>1, <2>2, <2>3, RebuildRowIs
  <2>5. Then(acc, k[n + 1]) = t
    BY <1>2, <2>2, <2>3 DEF Then
  <2>6. t \in Seq(Updates)
    BY <2>4 DEF Reaches
  <2> HIDE DEF Left
  <2> QED
    BY <1>4, <2>4, <2>5, <2>6
<1> HIDE DEF T
<1>5. <<Len(k), Joining!Fold(<<>>, k)>> \in T
  BY <1>2, <1>3, <1>4, Joining!FoldInduct
<1>6. RebuildOps(old, new) = Joining!Fold(<<>>, k)
  BY <1>1, ThenFold DEF RebuildOps
<1> HIDE DEF Left
<1>7. Left(Len(k), RebuildOps(old, new))
  BY <1>5, <1>6 DEF T
<1> QED
  BY <1>1, <1>7 DEF Left, Staged

-----------------------------------------------------------------------------
(* The invariant *)

\* Columns, index, dictionary and rows are as they should be.
Kept == KeyOK(key) /\ DictOK(dict) /\ Layout /\ Sound(key, dict, Stock)

\* What is staged or taken can be applied, and a failed transaction has neither.
Coming ==
  /\ failed \in BOOLEAN
  /\ Staged(dict, IdsOf(Stock), pending) /\ Doing(dict, IdsOf(Stock), ops)
  /\ ops = <<>> \/ pending = <<>>
  /\ failed => ops = <<>> /\ pending = <<>>

\* The log leads back to the snapshot.
Gone ==
  IF Open THEN /\ mark \in 0 .. Len(dict) /\ before # NoMark
               /\ Undoable(key, dict, undo, Stock, mark, before)
          ELSE before = NoMark /\ Quiet

Inv == Kept /\ Coming /\ Gone

\* Rows is what is stored, before a step and after it.
LEMMA RowsNow ==
  /\ Kept => Shows(dict, Stock, Rows) /\ Rows # NoMark
  /\ Kept' => Shows(dict', Stock', Rows') /\ Rows' # NoMark
<1>1. Kept => Shows(dict, Stock, Rows) /\ Rows # NoMark
  <2> SUFFICES ASSUME Kept PROVE Shows(dict, Stock, Rows) /\ Rows # NoMark
    OBVIOUS
  <2>1. Shows(dict, Stock, Rows)
    BY RowsShow DEF Kept
  <2> QED
    BY <2>1, ShowsRange DEF Kept
<1>2. (Kept => Shows(dict, Stock, Rows) /\ Rows # NoMark)'
  BY <1>1, PTL
<1> QED
  BY <1>1, <1>2

\* Where columns and index stay as they are, so do the rows.
LEMMA Steady ==
  ASSUME UNCHANGED layout
  PROVE  /\ Stock' = Stock /\ Layout' = Layout
         /\ dict' = dict => Rows' = Rows
<1>1. ids' = ids /\ cols' = cols /\ index' = index
  BY DEF layout
<1>2. Stock' = Stock
  BY <1>1 DEF Stock
<1>3. Layout' = Layout
  BY <1>1, <1>2 DEF Layout, IndexOK
<1>4. dict' = dict => Rows' = Rows
  BY <1>1 DEF Rows, RowAt
<1> QED
  BY <1>2, <1>3, <1>4

\* A log is open.
LEMMA LogOpen == NoLog \notin Seq(Updates) /\ <<>> \in Seq(Updates)
BY MarkerAssumption DEF Updates

\* A dictionary cut at the mark is one.
LEMMA DictCut ==
  ASSUME NEW d, DictOK(d), NEW n \in 0 .. Len(d)
  PROVE  DictOK(SubSeq(d, 1, n)) /\ SubSeq(d, 1, Len(d)) = d
<1>1. d \in Seq(Hash) /\ Len(d) \in Nat /\ DOMAIN d = 1 .. Len(d)
  BY DEF DictOK
<1>2. PICK e : e = SubSeq(d, 1, n)
  OBVIOUS
<1>3. e \in Seq(Hash) /\ DOMAIN e = 1 .. n /\ \A p \in 1 .. n : e[p] = d[p]
  BY <1>1, <1>2
<1>4. IsInjective(e)
  BY <1>1, <1>3 DEF DictOK, IsInjective
<1>5. SubSeq(d, 1, Len(d)) = d
  BY <1>1
<1> QED
  BY <1>2, <1>3, <1>4, <1>5 DEF DictOK

\* Snapshot marks the map.
LEMMA SnapshotMarks ==
  ASSUME Inv, Snapshot, key' = key
  PROVE  Inv' /\ Map!Mark
<1>1. /\ Stock' = Stock /\ Layout' /\ Rows' = Rows /\ dict' = dict
      /\ pending' = pending /\ ops' = ops /\ failed' = failed
      /\ undo' = <<>> /\ mark' = Len(dict) /\ before' = Rows
      /\ before = NoMark
  BY Steady DEF Inv, Kept, Gone, Snapshot
<1>2. Kept'
  BY <1>1 DEF Inv, Kept
<1>3. Coming'
  BY <1>1 DEF Inv, Coming
<1>4. SubSeq(dict, 1, Len(dict)) = dict /\ Len(dict) \in 0 .. Len(dict)
  <2>1. Len(dict) \in 0 .. Len(dict)
    BY DEF Inv, Kept, DictOK
  <2> QED
    BY <2>1, DictCut DEF Inv, Kept
<1>5. Shows(dict, Stock, Rows) /\ Rows # NoMark /\ Sound(key, dict, Stock)
  BY RowsNow DEF Inv, Kept
<1>6. Undoable(key, dict, <<>>, Stock, Len(dict), Rows)
  BY <1>4, <1>5, UndoableNone
<1>7. Gone'
  BY <1>1, <1>4, <1>5, <1>6, LogOpen DEF Gone, Open
<1>8. Map!Mark
  BY <1>1 DEF Map!Mark
<1> QED
  BY <1>2, <1>3, <1>7, <1>8 DEF Inv

\* Staging a row changes nothing that is stored.
LEMMA StageStutters ==
  ASSUME Inv, NEW row \in Given, Stage(row), key' = key
  PROVE  Inv' /\ Rows' = Rows /\ before' = before
<1> DEFINE u == [kind |-> "add", id |-> Packed(dict', row.id),
                 cells |-> PackedCells(dict', row.cells)]
<1>1. /\ Stock' = Stock /\ Layout' /\ dict' = InternRow(dict, row)
      /\ pending' = Append(pending, u) /\ ops' = ops /\ failed' = failed
      /\ undo' = undo /\ mark' = mark /\ before' = before
      /\ undo = <<>> /\ ops = <<>> /\ ~failed
      /\ row.id \notin DOMAIN Rows
      /\ \A i \in DOMAIN pending : Unpacked(dict, pending[i].id) # row.id
  BY Steady DEF Inv, Kept, Stage
<1>2. PICK e, q, c : /\ e = dict' /\ q = Packed(e, row.id)
                     /\ c = PackedCells(e, row.cells)
  OBVIOUS
<1>3. DictOK(e) /\ Grows(dict, e) /\ Fine(e, <<q, c>>) /\ Unpacked(e, q) = row.id
  BY <1>1, <1>2, InternRowIs DEF Inv, Kept
<1>4. u.kind = "add" /\ u.id = q /\ u.cells = c /\ u = [kind |-> "add", id |-> q, cells |-> c]
  BY <1>2
<1> HIDE DEF u
<1>5. FineUpdate(e, u)
  <2>1. c \in Seq(PackedId \cup Int)
    <3>1. c \in [1 .. Len(Kinds) -> PackedId \cup Int] /\ Len(Kinds) \in Nat
      BY <1>3, Columns DEF Fine, FineCells, Tuples
    <3> QED
      BY <3>1
  <2>2. q \in PackedId /\ Known(e, q)
    BY <1>3 DEF Fine, Known
  <2>3. u \in Updates
    BY <1>4, <2>1, <2>2 DEF Updates
  <2> QED
    BY <1>3, <1>4, <2>2, <2>3 DEF FineUpdate
<1>6. Kept'
  <2>1. Sound(key, e, Stock)
    BY <1>3, FineGrows DEF Inv, Kept
  <2> QED
    BY <1>1, <1>2, <1>3, <2>1 DEF Inv, Kept
<1>7. Shows(e, Stock, Rows) /\ Rows' = Rows
  <2>1. Shows(dict, Stock, Rows)
    BY RowsNow DEF Inv
  <2>2. Shows(e, Stock, Rows)
    BY <1>3, <2>1, FineGrows DEF Inv, Kept
  <2>3. Shows(e, Stock, Rows')
    BY <1>1, <1>2, <1>6, RowsNow
  <2> QED
    BY <2>2, <2>3, ShowsOne
<1>8. q \notin IdsOf(Stock)
  BY <1>1, <1>3, <1>7 DEF IdsOf, Shows
<1>9. ASSUME NEW n \in 1 .. Len(pending) PROVE pending[n].id # q
  <2>1. PICK J : Reaches(dict, IdsOf(Stock), pending, J)
    BY DEF Inv, Coming, Staged
  <2>2. FineUpdate(dict, pending[n]) /\ n \in DOMAIN pending
    BY <2>1 DEF Reaches
  <2>3. Unpacked(e, pending[n].id) = Unpacked(dict, pending[n].id)
    BY <1>3, <2>2, FineGrows DEF FineUpdate
  <2> QED
    BY <1>1, <1>3, <2>2, <2>3
<1>10. Coming'
  <2>1. Staged(e, IdsOf(Stock), pending) /\ Doing(e, IdsOf(Stock), ops)
    BY <1>3, UpdatesGrow DEF Inv, Coming
  <2>2. Staged(e, IdsOf(Stock), Append(pending, u))
    BY <1>4, <1>5, <1>8, <1>9, <2>1, StagedMore
  <2> QED
    BY <1>1, <1>2, <2>1, <2>2 DEF Inv, Coming
<1>11. Gone'
  <2>1. Open /\ undo' # NoLog
    BY <1>1, LogOpen DEF Open
  <2>2. /\ mark \in 0 .. Len(dict) /\ before # NoMark
        /\ Undoable(key, dict, undo, Stock, mark, before)
    BY <2>1 DEF Inv, Gone
  <2>3. dict \in Seq(Hash) /\ e \in Seq(Hash)
    BY <1>3 DEF Inv, Kept, DictOK
  <2>4. Undoable(key, e, undo, Stock, mark, before)
    BY <1>3, <2>2, <2>3, UndoableGrows
  <2>5. mark \in 0 .. Len(e)
    <3>1. /\ Len(dict) \in Nat /\ DOMAIN dict = 1 .. Len(dict)
          /\ Len(e) \in Nat /\ DOMAIN e = 1 .. Len(e)
      BY <2>3
    <3>2. Len(dict) <= Len(e)
      <4> SUFFICES ASSUME Len(dict) > Len(e) PROVE FALSE
        BY <3>1
      <4>1. Len(dict) \in DOMAIN dict /\ Len(dict) \notin DOMAIN e
        BY <3>1
      <4> QED
        BY <1>3, <4>1 DEF Grows
    <3> QED
      BY <2>2, <3>1, <3>2
  <2> QED
    BY <1>1, <1>2, <2>1, <2>2, <2>4, <2>5 DEF Gone, Open
<1> QED
  BY <1>1, <1>6, <1>7, <1>10, <1>11 DEF Inv

\* A row more is a row put,
LEMMA PutsRow ==
  ASSUME Kept, Kept', before # NoMark, dict' = dict, key' = key, before' = before,
         NEW x, \A y \in Stock : y[1] # x[1], Stock' = Stock \cup {x}
  PROVE  Map!Put(Unpacked(dict, x[1]), UnpackedCells(dict, x[2]))
         /\ Unpacked(dict, x[1]) \in RowIds /\ UnpackedCells(dict, x[2]) \in RowTuples
<1>1. PICK d, k, S, m, w, r, c :
          /\ d = dict /\ k = key /\ S = Stock /\ m = Rows /\ w = Rows'
          /\ r = Unpacked(d, x[1]) /\ c = UnpackedCells(d, x[2])
  OBVIOUS
<1>2. DictOK(d) /\ KeyOK(k) /\ Shows(d, S, m) /\ Shows(d, S \cup {x}, w)
      /\ Sound(k, d, S \cup {x}) /\ \A y \in S : y[1] # x[1]
  BY <1>1, RowsNow DEF Kept
<1>3. /\ r \in RowIds /\ c \in RowTuples /\ r \notin DOMAIN m
      /\ KeyFree(k, m, c) /\ w = Map!With(m, r, c)
  BY <1>1, <1>2, ShowsPut
<1>4. \A s \in DOMAIN Rows : ~Map!Clash(Rows[s], c)
  BY <1>1, <1>3 DEF Map!Clash, KeyFree

<1>5. Map!Put(r, c)
  BY <1>1, <1>3, <1>4 DEF Map!Put
<1> QED
  BY <1>1, <1>3, <1>5

\* and a row less is a row dropped.
LEMMA DropsRow ==
  ASSUME Kept, Kept', before # NoMark, dict' = dict, key' = key, before' = before,
         NEW x \in Stock, Stock' = Stock \ {x}
  PROVE  Map!Drop(Unpacked(dict, x[1])) /\ Unpacked(dict, x[1]) \in RowIds
<1>1. PICK d, k, S, m, w, r :
          /\ d = dict /\ k = key /\ S = Stock /\ m = Rows /\ w = Rows'
          /\ r = Unpacked(d, x[1])
  OBVIOUS
<1>2. DictOK(d) /\ Shows(d, S, m) /\ Shows(d, S \ {x}, w) /\ Sound(k, d, S) /\ x \in S
  BY <1>1, RowsNow DEF Kept
<1>3. r \in RowIds /\ r \in DOMAIN m /\ w = Map!Restrict(m, DOMAIN m \ {r})
  BY <1>1, <1>2, ShowsDrop
<1>4. Map!Drop(r)
  BY <1>1, <1>3 DEF Map!Drop
<1> QED
  BY <1>1, <1>3, <1>4


\* A rebuild only stages,
LEMMA RebuildStutters ==
  ASSUME Inv, NEW pair \in Merges, KnownHash(pair[1][1]), KnownHash(pair[2][1]),
         Rebuild(Packed(dict, pair[1]), Packed(dict, pair[2])), key' = key
  PROVE  Inv' /\ Rows' = Rows /\ before' = before
<1>1. PICK old, new : old = Packed(dict, pair[1]) /\ new = Packed(dict, pair[2])
  OBVIOUS
<1>2. /\ Stock' = Stock /\ Layout' /\ Rows' = Rows /\ dict' = dict
      /\ pending' = RebuildOps(old, new) /\ ops' = ops /\ failed' = failed
      /\ undo' = undo /\ mark' = mark /\ before' = before
      /\ Open /\ Quiet /\ old # new
  BY <1>1, Steady DEF Inv, Kept, Rebuild, Unified
<1>3. Known(dict, old) /\ Known(dict, new)
  <2>1. pair[1] \in Hash \X Nat /\ pair[2] \in Hash \X Nat
    BY GivenAssumption
  <2>2. pair[1] \in RowIds /\ pair[2] \in RowIds
    BY DEF RowIds
  <2> QED
    BY <1>1, <2>1, <2>2, PackedIs DEF Inv, Kept, KnownHash
<1>4. Staged(dict, IdsOf(Stock), RebuildOps(old, new))
  BY <1>2, <1>3, RebuildStaged DEF Inv, Kept, Sound, Known
<1>5. Kept'
  BY <1>2 DEF Inv, Kept
<1>6. Coming'
  BY <1>2, <1>4 DEF Inv, Coming, Quiet
<1>7. Gone'
  BY <1>2 DEF Inv, Gone, Open
<1> QED
  BY <1>2, <1>5, <1>6, <1>7 DEF Inv

\* and taking what is staged stores nothing.
LEMMA TakeStutters ==
  ASSUME Inv, Take, key' = key
  PROVE  Inv' /\ Rows' = Rows /\ before' = before
<1>1. /\ Stock' = Stock /\ Layout' /\ Rows' = Rows /\ dict' = dict
      /\ pending' = <<>> /\ ops' = pending /\ failed' = failed
      /\ undo' = undo /\ mark' = mark /\ before' = before
      /\ pending # <<>> /\ ~failed
  BY Steady DEF Inv, Kept, Take
<1>2. Kept'
  BY <1>1 DEF Inv, Kept
<1>3. Coming'
  BY <1>1, StagedDoing, NoUpdates DEF Inv, Coming
<1>4. Gone'
  BY <1>1 DEF Inv, Gone, Open, Quiet
<1> QED
  BY <1>1, <1>2, <1>3, <1>4 DEF Inv

\* The update to apply: the transaction is open, and nothing is staged.
LEMMA Applying ==
  ASSUME Inv, ops # <<>>
  PROVE  /\ Open /\ pending = <<>> /\ ~failed
         /\ mark \in 0 .. Len(dict) /\ before # NoMark
         /\ Undoable(key, dict, undo, Stock, mark, before)
         /\ FineUpdate(dict, Head(ops))
         /\ \E J : Applies(Head(ops), IdsOf(Stock), J) /\ Doing(dict, J, Tail(ops))
<1>1. Open /\ pending = <<>> /\ ~failed
  BY DEF Inv, Coming, Gone, Quiet
<1>2. Doing(dict, IdsOf(Stock), ops)
  BY DEF Inv, Coming
<1>3. /\ FineUpdate(dict, Head(ops))
      /\ \E J : Applies(Head(ops), IdsOf(Stock), J) /\ Doing(dict, J, Tail(ops))
  BY <1>2, DoingStep
<1> QED
  BY <1>1, <1>3 DEF Inv, Gone

\* After an update the log leads back from the rows there are now.
LEMMA Applied ==
  ASSUME Inv, ops # <<>>, NEW v \in Updates, undo' = Append(undo, v),
         Kept', Undoes(v, Stock, Stock'), Doing(dict, IdsOf(Stock'), Tail(ops)),
         ops' = Tail(ops),
         UNCHANGED <<key, dict, mark, pending, failed, before>>
  PROVE  Inv'
<1>1. /\ Open /\ pending = <<>> /\ ~failed
      /\ mark \in 0 .. Len(dict) /\ before # NoMark
      /\ Undoable(key, dict, undo, Stock, mark, before)
  BY Applying
<1>2. PICK T, w : T = Stock' /\ w = undo'
  OBVIOUS
<1>3. Sound(key, dict, T)
  BY <1>2 DEF Kept
<1>4. Undoable(key, dict, w, T, mark, before)
  BY <1>1, <1>2, <1>3, UndoableMore
<1>5. w # NoLog
  BY <1>4, LogOpen DEF Undoable
<1>6. Coming'
  BY <1>1, <1>2, NoUpdates DEF Coming, Inv
<1>7. Gone'
  BY <1>1, <1>2, <1>4, <1>5 DEF Gone, Open
<1> QED
  BY <1>6, <1>7 DEF Inv

\* A row added is put, unless its key is taken: then the transaction has failed.
LEMMA ApplyAddPuts ==
  ASSUME Inv, ApplyAdd, key' = key
  PROVE  /\ Inv'
         /\ \/ Rows' = Rows /\ before' = before
            \/ \E r \in RowIds, c \in RowTuples : Map!Put(r, c)
<1>1. PICK op, I, S : op = Head(ops) /\ I = IdsOf(Stock) /\ S = Stock
  OBVIOUS
<1>2. /\ ops # <<>> /\ op.kind = "add" /\ dict' = dict
      /\ mark' = mark /\ pending' = pending /\ before' = before
  BY <1>1 DEF ApplyAdd
<1>3. /\ Open /\ pending = <<>> /\ ~failed
      /\ mark \in 0 .. Len(dict) /\ before # NoMark
      /\ Undoable(key, dict, undo, Stock, mark, before)
      /\ FineUpdate(dict, op)
      /\ \E J : Applies(op, I, J) /\ Doing(dict, J, Tail(ops))
  BY <1>1, <1>2, Applying
<1>4. op.id \notin I /\ Doing(dict, I \cup {op.id}, Tail(ops))
  BY <1>2, <1>3 DEF Applies
<1>5. PICK x : x = <<op.id, op.cells>>
  OBVIOUS
<1>6. /\ x[1] = op.id /\ x[2] = op.cells /\ Fine(dict, x) /\ op \in Updates
      /\ op.id \in PackedId /\ op.cells \in Tuples
  BY <1>2, <1>3, <1>5 DEF FineUpdate, Fine, FineCells, Known
<1>7. \A y \in Stock : y[1] # op.id
  BY <1>1, <1>4 DEF IdsOf
<1>8. CASE KeyTaken(op.cells)
  <2>1. failed' = TRUE /\ ops' = <<>> /\ UNCHANGED <<layout, undo>>
    BY <1>1, <1>8 DEF ApplyAdd
  <2>2. Stock' = Stock /\ Layout' = Layout /\ Rows' = Rows
    BY <1>2, <2>1, Steady
  <2>3. Kept'
    BY <1>2, <2>2 DEF Inv, Kept
  <2>4. Coming'
    BY <1>2, <1>3, <2>1, <2>2, NoUpdates DEF Coming, Inv
  <2>5. Gone'
    BY <1>2, <1>3, <2>1, <2>2 DEF Gone, Open
  <2> QED
    BY <1>2, <2>2, <2>3, <2>4, <2>5 DEF Inv
<1>9. CASE ~KeyTaken(op.cells)
  <2>1. /\ InsertPacked(op.id, op.cells) /\ undo' = Append(undo, op)
        /\ ops' = Tail(ops) /\ failed' = failed
    BY <1>1, <1>9 DEF ApplyAdd
  <2>2. Layout' /\ Stock' = Stock \cup {x}
    BY <1>5, <1>6, <1>7, <2>1, StockGrows DEF Inv, Kept
  <2>3. PICK T : T = Stock \cup {x}
    OBVIOUS
  <2>4. key # NoKey => \A y \in Stock : ~Agrees(y[2], op.cells, key)
    BY <1>6, <1>9, KeyTakenIs DEF Inv, Kept
  <2>5. Sound(key, dict, T)
    <3>1. \A y \in T : Fine(dict, y)
      BY <1>6, <2>3 DEF Inv, Kept, Sound
    <3>2. \A y, z \in T : y[1] = z[1] => y = z
      BY <1>6, <1>7, <2>3 DEF Inv, Kept, Sound
    <3>3. ASSUME key # NoKey, NEW y \in T, NEW z \in T, Agrees(y[2], z[2], key)
          PROVE  y = z
      <4>1. Agrees(z[2], y[2], key)
        BY <3>3 DEF Agrees
      <4>2. CASE y \in Stock /\ z \in Stock
        BY <3>3, <4>2 DEF Inv, Kept, Sound
      <4>3. CASE y = x /\ z \in Stock
        BY <1>6, <2>4, <3>3, <4>1, <4>3
      <4>4. CASE y \in Stock /\ z = x
        BY <1>6, <2>4, <3>3, <4>4
      <4>5. CASE y = x /\ z = x
        BY <4>5
      <4> QED
        BY <2>3, <4>2, <4>3, <4>4, <4>5
    <3> QED
      BY <3>1, <3>2, <3>3 DEF Sound
  <2>6. Kept'
    BY <1>2, <2>2, <2>3, <2>5 DEF Inv, Kept
  <2>7. Undoes(op, Stock, Stock')
    BY <1>2, <1>5, <1>7, <2>2 DEF Undoes
  <2>8. IdsOf(T) = I \cup {op.id}
    BY <1>1, <1>6, <2>3 DEF IdsOf
  <2>9. IdsOf(Stock') = IdsOf(T)
    BY <2>2, <2>3
  <2>10. Inv'
    BY <1>2, <1>4, <1>6, <2>1, <2>6, <2>7, <2>8, <2>9, Applied
  <2>11. /\ Map!Put(Unpacked(dict, x[1]), UnpackedCells(dict, x[2]))
         /\ Unpacked(dict, x[1]) \in RowIds /\ UnpackedCells(dict, x[2]) \in RowTuples
    BY <1>2, <1>3, <1>6, <1>7, <2>2, <2>6, PutsRow DEF Inv
  <2> QED
    BY <2>10, <2>11
<1> QED
  BY <1>8, <1>9

\* A row deleted is dropped.
LEMMA ApplyDeleteDrops ==
  ASSUME Inv, ApplyDelete, key' = key
  PROVE  Inv' /\ \E r \in RowIds : Map!Drop(r)
<1>1. PICK op, I : op = Head(ops) /\ I = IdsOf(Stock)
  OBVIOUS
<1>2. /\ ops # <<>> /\ op.kind = "delete" /\ dict' = dict /\ failed' = failed
      /\ mark' = mark /\ pending' = pending /\ before' = before
      /\ RemovePacked(op.id) /\ ops' = Tail(ops)
      /\ undo' = Append(undo, Update("delete", op.id, RowById(op.id)))
  BY <1>1 DEF ApplyDelete
<1>3. /\ before # NoMark /\ FineUpdate(dict, op)
      /\ \E J : Applies(op, I, J) /\ Doing(dict, J, Tail(ops))
  BY <1>1, <1>2, Applying
<1>4. op.id \in I /\ Doing(dict, I \ {op.id}, Tail(ops))
  BY <1>2, <1>3 DEF Applies
<1>5. PICK x \in Stock : x[1] = op.id
  BY <1>1, <1>4 DEF IdsOf
<1>6. x = <<x[1], x[2]>> /\ x[1] \in PackedId /\ x[2] \in Tuples /\ RowById(op.id) = x[2]
  BY <1>5, StockIs DEF Inv, Kept
<1>7. Layout' /\ Stock' = Stock \ {x}
  BY <1>2, <1>5, StockShrinks DEF Inv, Kept
<1>8. Kept'
  <2>1. Sound(key, dict, Stock \ {x})
    BY SoundLess DEF Inv, Kept
  <2> QED
    BY <1>2, <1>7, <2>1 DEF Inv, Kept
<1>9. PICK v : v = Update("delete", op.id, RowById(op.id))
  OBVIOUS
<1>10. v \in Updates /\ v.kind = "delete" /\ v.id = x[1] /\ v.cells = x[2]
  <2>1. x[2] \in Seq(PackedId \cup Int)
    <3>1. x[2] \in [1 .. Len(Kinds) -> PackedId \cup Int] /\ Len(Kinds) \in Nat
      BY <1>6, Columns DEF Tuples
    <3> QED
      BY <3>1
  <2> QED
    BY <1>5, <1>6, <1>9, <2>1 DEF Update, Updates
<1>11. Undoes(v, Stock, Stock')
  BY <1>6, <1>7, <1>10 DEF Undoes
<1>12. IdsOf(Stock \ {x}) = I \ {op.id}
  <2>1. \A y \in Stock : y[1] = x[1] => y = x
    BY StockIs DEF Inv, Kept
  <2> QED
    BY <1>1, <1>5, <2>1 DEF IdsOf
<1>13. IdsOf(Stock') = IdsOf(Stock \ {x})
  BY <1>7
<1>14. Inv'
  BY <1>2, <1>4, <1>8, <1>9, <1>10, <1>11, <1>12, <1>13, Applied
<1>15. Map!Drop(Unpacked(dict, x[1])) /\ Unpacked(dict, x[1]) \in RowIds
  BY <1>2, <1>3, <1>7, <1>8, DropsRow DEF Inv
<1> QED
  BY <1>14, <1>15

\* Commit keeps the rows.
LEMMA CommitKeeps ==
  ASSUME Inv, Commit, key' = key
  PROVE  Inv' /\ Map!Keep
<1>1. /\ Stock' = Stock /\ Layout' /\ Rows' = Rows /\ dict' = dict
      /\ pending' = pending /\ ops' = ops /\ failed' = failed
      /\ undo' = NoLog /\ before' = NoMark /\ Quiet /\ before # NoMark
  BY Steady DEF Inv, Kept, Gone, Commit
<1>2. Kept' /\ Coming' /\ Gone'
  BY <1>1 DEF Inv, Kept, Coming, Gone, Open, Quiet
<1>3. Map!Keep
  BY <1>1 DEF Map!Keep
<1> QED
  BY <1>2, <1>3 DEF Inv

\* An undo step puts a row that was deleted, or drops one that was added.
LEMMA AbortUndoes ==
  ASSUME Inv, Abort, key' = key
  PROVE  /\ Inv'
         /\ \/ \E r \in RowIds : Map!Drop(r)
            \/ \E r \in RowIds, c \in RowTuples : Map!Put(r, c)
<1>1. PICK u, w, S : u = Last(undo) /\ w = Front(undo) /\ S = Stock
  OBVIOUS
<1>2. /\ Open /\ undo # <<>> /\ failed' = TRUE /\ ops' = <<>> /\ pending' = <<>>
      /\ undo' = w /\ dict' = dict /\ mark' = mark /\ before' = before
      /\ IF u.kind = "add" THEN RemovePacked(u.id) ELSE InsertPacked(u.id, u.cells)
  BY <1>1 DEF Abort
<1>3. /\ mark \in 0 .. Len(dict) /\ before # NoMark
      /\ Undoable(key, dict, undo, Stock, mark, before)
  BY <1>2 DEF Inv, Gone
<1>4. /\ u \in Updates
      /\ \E R : Undoes(u, R, S) /\ Sound(key, dict, R) /\ Undoable(key, dict, w, R, mark, before)
  BY <1>1, <1>2, <1>3, UndoableLess
<1>5. PICK R : Undoes(u, R, S) /\ Sound(key, dict, R) /\ Undoable(key, dict, w, R, mark, before)
  BY <1>4
<1>6. PICK x : x = <<u.id, u.cells>>
  OBVIOUS
<1>7. x[1] = u.id /\ x[2] = u.cells
  BY <1>6
<1>8. ASSUME Layout', Stock' = R PROVE Inv'
  <2>1. Kept'
    BY <1>2, <1>5, <1>8 DEF Inv, Kept
  <2>2. Coming'
    BY <1>2, NoUpdates DEF Coming
  <2>3. w # NoLog
    BY <1>5, LogOpen DEF Undoable
  <2>4. Gone'
    BY <1>2, <1>3, <1>5, <1>8, <2>3 DEF Gone, Open
  <2> QED
    BY <2>1, <2>2, <2>4 DEF Inv
<1>9. CASE u.kind = "add"
  <2>1. (\A y \in R : y[1] # x[1]) /\ S = R \cup {x}
    BY <1>5, <1>6, <1>7, <1>9 DEF Undoes
  <2>2. x \in Stock /\ RemovePacked(x[1])
    BY <1>1, <1>2, <1>7, <1>9, <2>1
  <2>3. Layout' /\ Stock' = Stock \ {x}
    BY <2>2, StockShrinks DEF Inv, Kept
  <2>4. Stock' = R
    BY <1>1, <2>1, <2>3
  <2>5. Inv'
    BY <1>8, <2>3, <2>4
  <2>6. Map!Drop(Unpacked(dict, x[1])) /\ Unpacked(dict, x[1]) \in RowIds
    BY <1>2, <1>3, <2>2, <2>3, <2>5, DropsRow DEF Inv
  <2> QED
    BY <2>5, <2>6
<1>10. CASE u.kind = "delete"
  <2>1. x \in R /\ S = R \ {x}
    BY <1>5, <1>6, <1>10 DEF Undoes
  <2>2. Fine(dict, x) /\ \A y \in Stock : y[1] # x[1]
    BY <1>1, <1>5, <2>1 DEF Sound
  <2>3. u.id \in PackedId /\ u.cells \in Tuples
    BY <1>7, <2>2 DEF Fine, FineCells, Known
  <2>4. InsertPacked(u.id, u.cells)
    BY <1>2, <1>10
  <2>5. Layout' /\ Stock' = Stock \cup {x}
    BY <1>6, <1>7, <2>2, <2>3, <2>4, StockGrows DEF Inv, Kept
  <2>6. Stock' = R
    BY <1>1, <2>1, <2>5
  <2>7. Inv'
    BY <1>8, <2>5, <2>6
  <2>8. /\ Map!Put(Unpacked(dict, x[1]), UnpackedCells(dict, x[2]))
        /\ Unpacked(dict, x[1]) \in RowIds /\ UnpackedCells(dict, x[2]) \in RowTuples
    BY <1>2, <1>3, <2>2, <2>5, <2>7, PutsRow DEF Inv
  <2> QED
    BY <2>7, <2>8
<1> QED
  BY <1>4, <1>9, <1>10 DEF Updates

\* When the log is used up the rows are those of the snapshot, and the
\* dictionary can be cut.
LEMMA AbortedTakesBack ==
  ASSUME Inv, Aborted, key' = key
  PROVE  Inv' /\ Map!TakeBack
<1>1. PICK e, S : e = SubSeq(dict, 1, mark) /\ S = Stock
  OBVIOUS
<1>2. /\ Stock' = S /\ Layout' /\ dict' = e
      /\ pending' = <<>> /\ ops' = <<>> /\ failed' = FALSE
      /\ undo' = NoLog /\ before' = NoMark /\ Open /\ undo = <<>>
  BY <1>1, Steady DEF Inv, Kept, Aborted, TruncateDict
<1>3. /\ mark \in 0 .. Len(dict) /\ before # NoMark
      /\ Undoable(key, dict, <<>>, S, mark, before)
  BY <1>1, <1>2 DEF Inv, Gone
<1>4. Sound(key, e, S) /\ Shows(e, S, before)
  BY <1>1, <1>3, UndoableNone
<1>5. Kept'
  <2>1. DictOK(e)
    BY <1>1, <1>3, DictCut DEF Inv, Kept
  <2> QED
    BY <1>2, <1>4, <2>1 DEF Inv, Kept
<1>6. Coming' /\ Gone'
  BY <1>2, NoUpdates DEF Coming, Gone, Open, Quiet
<1>7. Rows' = before
  <2>1. Shows(e, S, Rows')
    BY <1>2, <1>5, RowsNow
  <2> QED
    BY <1>4, <2>1, ShowsOne
<1>8. Map!TakeBack
  BY <1>2, <1>3, <1>7 DEF Map!TakeBack
<1> QED
  BY <1>5, <1>6, <1>8 DEF Inv

-----------------------------------------------------------------------------
(* Theorems *)

\* An empty table
LEMMA InitIs == Init => Inv /\ Map!Init
<1> SUFFICES ASSUME Init PROVE Inv /\ Map!Init
  OBVIOUS
<1>1. /\ key \in Keys /\ dict = <<>> /\ ids = <<>> /\ index = <<>>
      /\ cols = [i \in DOMAIN Kinds |-> <<>>] /\ ~Open /\ before = NoMark
      /\ pending = <<>> /\ ops = <<>> /\ failed = FALSE
  BY DEF Init, Open
<1>2. DOMAIN ids = {} /\ Stock = {} /\ DOMAIN index = {} /\ DOMAIN dict = {}
  BY <1>1 DEF Stock
<1>3. KeyOK(key)
  BY <1>1, KeysAssumption DEF KeyOK
<1>4. DictOK(dict)
  BY <1>1, <1>2 DEF DictOK, IsInjective
<1>5. Layout
  BY <1>1, <1>2 DEF Layout, StrictId, IndexOK, StrictIndex
<1>6. Sound(key, dict, Stock)
  BY <1>2 DEF Sound
<1>7. Inv
  BY <1>1, <1>3, <1>4, <1>5, <1>6, NoUpdates DEF Inv, Kept, Coming, Gone, Quiet
<1>8. Rows = <<>>
  <2>1. {Unpacked(dict, ids[p]) : p \in DOMAIN ids} = {}
    BY <1>2
  <2>2. Rows = [r \in {} |-> Rows[r]]
    BY <2>1 DEF Rows
  <2> QED
    BY <2>2
<1> QED
  BY <1>1, <1>7, <1>8 DEF Map!Init

\* Every step keeps the invariant and is a step of the map, or none.
LEMMA StepIs == Inv /\ [Next]_vars => Inv' /\ [Map!Next]_<<key, Rows, before>>
<1> SUFFICES ASSUME Inv, [Next]_vars PROVE Inv' /\ [Map!Next]_<<key, Rows, before>>
  OBVIOUS
<1>1. ASSUME NEW row \in Given, Stage(row), key' = key
      PROVE  Inv' /\ [Map!Next]_<<key, Rows, before>>
  BY <1>1, StageStutters
<1>2. ASSUME NEW pair \in Merges, KnownHash(pair[1][1]), KnownHash(pair[2][1]),
             Rebuild(Packed(dict, pair[1]), Packed(dict, pair[2])), key' = key
      PROVE  Inv' /\ [Map!Next]_<<key, Rows, before>>
  BY <1>2, RebuildStutters
<1>3. CASE Take /\ key' = key
  BY <1>3, TakeStutters
<1>4. CASE ApplyAdd /\ key' = key
  BY <1>4, ApplyAddPuts DEF Map!Next
<1>5. CASE ApplyDelete /\ key' = key
  BY <1>5, ApplyDeleteDrops DEF Map!Next
<1>6. CASE Commit /\ key' = key
  BY <1>6, CommitKeeps DEF Map!Next
<1>7. CASE Abort /\ key' = key
  BY <1>7, AbortUndoes DEF Map!Next
<1>8. CASE Aborted /\ key' = key
  BY <1>8, AbortedTakesBack DEF Map!Next
<1>9. CASE Snapshot /\ key' = key
  BY <1>9, SnapshotMarks DEF Map!Next
<1>10. CASE UNCHANGED <<key, dict, mark, layout, pending, undo, ops, failed, before>>
  <2>1. /\ Stock' = Stock /\ Layout' = Layout /\ Rows' = Rows
        /\ key' = key /\ dict' = dict /\ mark' = mark /\ pending' = pending
        /\ undo' = undo /\ ops' = ops /\ failed' = failed /\ before' = before
    BY <1>10, Steady
  <2>2. Inv'
    BY <2>1 DEF Inv, Kept, Coming, Gone, Open, Quiet
  <2> QED
    BY <2>1, <2>2
<1>11. CASE Rest /\ key' = key
  BY <1>10, <1>11 DEF Rest
<1>12. CASE UNCHANGED vars
  BY <1>10, <1>12 DEF vars, layout
<1> QED
  BY <1>1, <1>2, <1>3, <1>4, <1>5, <1>6, <1>7, <1>8, <1>9, <1>11, <1>12 DEF Next, Work

\* The first n cells of two rows are the same just when they agree on them.
LEMMA BeginsIs ==
  ASSUME NEW c \in Tuples, NEW e \in Tuples, NEW n \in 0 .. Len(Kinds)
  PROVE  /\ SubSeq(c, 1, n) = SubSeq(e, 1, n) <=> Agrees(c, e, n)
         /\ Len(SubSeq(c, 1, n)) = n /\ KeyOf(SubSeq(c, 1, n), n)
         /\ Agrees(e, SubSeq(c, 1, n), n) <=> Agrees(e, c, n)
<1>1. /\ Len(Kinds) \in Nat /\ DOMAIN Kinds = 1 .. Len(Kinds)
      /\ c \in Seq(PackedId \cup Int) /\ Len(c) = Len(Kinds)
      /\ e \in Seq(PackedId \cup Int) /\ Len(e) = Len(Kinds)
      /\ \A i \in 1 .. Len(Kinds) : c[i] \in CellOf(i)
  BY Columns DEF Tuples
<1>2. PICK u, v : u = SubSeq(c, 1, n) /\ v = SubSeq(e, 1, n)
  OBVIOUS
<1>3. /\ u \in Seq(PackedId \cup Int) /\ Len(u) = n /\ \A l \in 1 .. n : u[l] = c[l]
      /\ v \in Seq(PackedId \cup Int) /\ Len(v) = n /\ \A l \in 1 .. n : v[l] = e[l]
  BY <1>1, <1>2, SubSeqProperties
<1>4. (\A l \in 1 .. n : u[l] = v[l]) => u = v
  BY <1>3, SeqEqual
<1>5. u = v <=> Agrees(c, e, n)
  BY <1>3, <1>4 DEF Agrees
<1>6. KeyOf(u, n)
  BY <1>1, <1>3 DEF KeyOf
<1>7. Agrees(e, u, n) <=> Agrees(e, c, n)
  BY <1>3 DEF Agrees
<1> QED
  BY <1>2, <1>3, <1>5, <1>6, <1>7

\* Sorted columns and an index of the same rows, with ids the dictionary knows,
LEMMA KeptSound == Kept => LayoutSound
<1> SUFFICES ASSUME Kept PROVE LayoutSound
  OBVIOUS
<1>1. /\ DOMAIN ids = 1 .. Len(ids)
      /\ Stock = {<<ids[p], RowAt(p - 1)>> : p \in 1 .. Len(ids)}
  BY Lines DEF Kept
<1>2. \A p, q \in DOMAIN ids : p < q => SortedBefore(ids[p], ids[q])
  BY DEF Kept, Layout, StrictId
<1>3. \A i \in DOMAIN cols : Len(cols[i]) = Len(ids)
  BY DEF Kept, Layout
<1>4. \A p, q \in DOMAIN index : p < q => EntryBefore(index[p], index[q])
  BY DEF Kept, Layout, IndexOK, StrictIndex
<1>5. {<<index[p].id, index[p].key>> : p \in DOMAIN index}
        = {<<ids[p], RowAt(p - 1)>> : p \in DOMAIN ids}
  BY <1>1 DEF Kept, Layout
<1>6. IsInjective(dict)
  BY DEF Kept, DictOK
<1>7. ASSUME NEW p \in DOMAIN ids
      PROVE  /\ ids[p][1] \in DOMAIN dict
             /\ \A i \in DOMAIN Kinds :
                  Kinds[i] = "id" => RowAt(p - 1)[i][1] \in DOMAIN dict
  <2>1. PICK x : x = <<ids[p], RowAt(p - 1)>>
    OBVIOUS
  <2>2. x \in Stock /\ x[1] = ids[p] /\ x[2] = RowAt(p - 1)
    BY <1>1, <2>1
  <2>3. Fine(dict, x)
    BY <2>2 DEF Kept, Sound
  <2> QED
    BY <2>2, <2>3 DEF Fine, FineCells, Known
<1> QED
  BY <1>2, <1>3, <1>4, <1>5, <1>6, <1>7 DEF LayoutSound

\* are all the binary searches need.
LEMMA KeptFinds == Kept => SearchesFind
<1> SUFFICES ASSUME Kept PROVE SearchesFind
  OBVIOUS
<1>0. Layout
  BY DEF Kept
<1>1. /\ Len(ids) \in Nat /\ DOMAIN ids = 1 .. Len(ids)
      /\ \A p \in 1 .. Len(ids) : ids[p] \in PackedId /\ RowAt(p - 1) \in Tuples
      /\ Stock = {<<ids[p], RowAt(p - 1)>> : p \in 1 .. Len(ids)}
  BY <1>0, Lines
<1>2. ASSUME NEW id \in KnownIds
      PROVE  /\ Stored(id) <=> id \in Range(ids)
             /\ Stored(id) => ids[Position(id).at + 1] = id
  <2>1. PICK g \in Given : KnownHash(g.id[1]) /\ id = Packed(dict, g.id)
    BY DEF KnownIds
  <2>2. g.id \in Hash \X Nat /\ g.id \in RowIds
    <3>1. g.id \in {g.id} \cup IdCells(g)
      OBVIOUS
    <3>2. g.id \in RowIds
      BY <3>1 DEF RowIds
    <3> QED
      BY <3>2, GivenAssumption

  <2>3. id \in PackedId
    BY <2>1, <2>2, PackedIs DEF Kept, KnownHash, Known
  <2>4. Finds(Position(id), id)
    BY <1>0, <2>3, PositionFinds DEF Layout
  <2>5. Stored(id) <=> \E x \in Stock : x[1] = id
    BY <1>0, <2>3, StockIs
  <2>6. (\E x \in Stock : x[1] = id) <=> id \in Range(ids)
    <3>1. id \in Range(ids) <=> \E p \in 1 .. Len(ids) : ids[p] = id
      BY <1>1 DEF Range
    <3>2. ASSUME NEW p \in 1 .. Len(ids), ids[p] = id PROVE \E x \in Stock : x[1] = id
      <4>1. <<ids[p], RowAt(p - 1)>> \in Stock
        BY <1>1
      <4> QED
        BY <3>2, <4>1
    <3>3. ASSUME NEW x \in Stock, x[1] = id PROVE \E p \in 1 .. Len(ids) : ids[p] = id
      <4>1. PICK p \in 1 .. Len(ids) : x = <<ids[p], RowAt(p - 1)>>
        BY <1>1
      <4> QED
        BY <3>3, <4>1
    <3> QED
      BY <3>1, <3>2, <3>3

  <2> QED
    BY <2>4, <2>5, <2>6 DEF Finds, Stored
<1>3. ASSUME NEW p \in DOMAIN ids, NEW n \in 0 .. Len(Kinds)
      PROVE  Range(Seek(SubSeq(RowAt(p - 1), 1, n)))
               = {ids[q] : q \in {r \in DOMAIN ids :
                    SubSeq(RowAt(r - 1), 1, n) = SubSeq(RowAt(p - 1), 1, n)}}
  <2>1. PICK c, k : c = RowAt(p - 1) /\ k = SubSeq(c, 1, n)
    OBVIOUS
  <2>2. c \in Tuples
    BY <1>1, <2>1
  <2>3. Len(k) = n /\ KeyOf(k, n) /\ \A e \in Tuples : Agrees(e, k, n) <=> Agrees(e, c, n)
    BY <2>1, <2>2, BeginsIs
  <2>4. Range(Seek(k)) = {index[q].id : q \in {r \in 1 .. Len(index) :
                                                 Agrees(index[r].key, k, n)}}
    BY <1>0, <2>3, SeekFinds DEF Layout
  <2>5. ASSUME NEW i PROVE i \in Range(Seek(k)) <=> \E x \in Stock : x[1] = i /\ Agrees(x[2], c, n)
    <3>1. i \in Range(Seek(k)) <=> \E q \in 1 .. Len(index) :
                                     index[q].id = i /\ Agrees(index[q].key, k, n)
      BY <2>4
    <3>2. \A x \in Stock : x = <<x[1], x[2]>> /\ x[2] \in Tuples
      BY <1>0, StockIs
    <3>3. ASSUME NEW q \in 1 .. Len(index), index[q].id = i, Agrees(index[q].key, k, n)
          PROVE  \E x \in Stock : x[1] = i /\ Agrees(x[2], c, n)
      <4>1. <<i, index[q].key>> \in Stock
        BY <1>0, <3>3, IndexParts DEF Layout
      <4>2. index[q].key \in Tuples
        BY <3>2, <4>1
      <4> QED
        BY <2>3, <3>3, <4>1, <4>2
    <3>4. ASSUME NEW x \in Stock, x[1] = i, Agrees(x[2], c, n)
          PROVE  \E q \in 1 .. Len(index) : index[q].id = i /\ Agrees(index[q].key, k, n)
      <4>1. <<i, x[2]>> \in Stock /\ Agrees(x[2], k, n)
        BY <2>3, <3>2, <3>4
      <4>2. PICK q \in 1 .. Len(index) : index[q] = [key |-> x[2], id |-> i]
        BY <1>0, <4>1, EntriesAre
      <4> QED
        BY <4>1, <4>2
    <3> QED
      BY <3>1, <3>3, <3>4
  <2>6. ASSUME NEW i
        PROVE  (\E x \in Stock : x[1] = i /\ Agrees(x[2], c, n))
                 <=> \E q \in DOMAIN ids : ids[q] = i /\ SubSeq(RowAt(q - 1), 1, n) = k
    <3>1. \A q \in DOMAIN ids : SubSeq(RowAt(q - 1), 1, n) = k <=> Agrees(RowAt(q - 1), c, n)
      BY <1>1, <2>1, <2>2, BeginsIs
    <3>2. ASSUME NEW x \in Stock, x[1] = i, Agrees(x[2], c, n)
          PROVE  \E q \in DOMAIN ids : ids[q] = i /\ SubSeq(RowAt(q - 1), 1, n) = k
      <4>1. PICK q \in DOMAIN ids : x = <<ids[q], RowAt(q - 1)>>
        BY <1>1
      <4> QED
        BY <3>1, <3>2, <4>1
    <3>3. ASSUME NEW q \in DOMAIN ids, ids[q] = i, SubSeq(RowAt(q - 1), 1, n) = k
          PROVE  \E x \in Stock : x[1] = i /\ Agrees(x[2], c, n)
      <4>1. <<ids[q], RowAt(q - 1)>> \in Stock
        BY <1>1
      <4> QED
        BY <3>1, <3>3, <4>1
    <3> QED
      BY <3>2, <3>3
  <2> QED
    BY <2>1, <2>5, <2>6
<1> QED
  BY <1>2, <1>3 DEF SearchesFind

\* The invariant holds in every state: columns and index sorted and of the same
\* rows, the key unique, what is staged applicable and the log leading back, at
\* every step of apply_op and rollback_to (table/mod.rs).
THEOREM TableInv == Spec => []Inv
<1>1. Init => Inv
  BY InitIs
<1>2. Inv /\ [Next]_vars => Inv'
  BY StepIs
<1> QED
  BY <1>1, <1>2, PTL DEF Spec

\* No reader is ever misled by the layout, in the middle of a rebuild or of an
\* undo either: everything is sorted, and each binary search of IdColumn and
\* TableIndex (col.rs, index.rs) returns what a scan of the table would.
THEOREM NeverMisled == Spec => []ReadsAgree
<1>1. Inv => ReadsAgree
  BY KeptSound, KeptFinds DEF Inv, ReadsAgree
<1> QED
  BY <1>1, TableInv, PTL

\* Sorted columns, packed ids, staged updates and the undo log are a map of row
\* ids to cells that keeps its primary key and goes back to its mark.
THEOREM TableIsMap == Spec => Implements
<1>1. Init => Map!Init
  BY InitIs
<1>2. Inv /\ [Next]_vars => [Map!Next]_<<key, Rows, before>>
  BY StepIs
<1> QED
  BY <1>1, <1>2, TableInv, PTL DEF Spec, Implements, Map!Spec

\* Cells clash with a row of a map.
ClashesIn(k, map, cells) ==
  k # NoKey /\ \E s \in DOMAIN map : SubSeq(map[s], 1, k) = SubSeq(cells, 1, k)

\* A row that clashes with none can be put.
LEMMA PutKeeps ==
  ASSUME NEW k, NEW map, NEW r, NEW cells,
         Map!OnePerKey(k, map), r \notin DOMAIN map, ~ClashesIn(k, map, cells)
  PROVE  Map!OnePerKey(k, Map!With(map, r, cells))
<1> DEFINE grown == Map!With(map, r, cells)
<1>1. /\ DOMAIN grown = DOMAIN map \cup {r}
      /\ grown[r] = cells
      /\ \A s \in DOMAIN map : grown[s] = map[s]
  BY DEF Map!With
<1> HIDE DEF grown
<1>2. Map!OnePerKey(k, grown)
  BY <1>1 DEF Map!OnePerKey, ClashesIn
<1> QED
  BY <1>2 DEF grown

\* Fewer rows clash no more.
LEMMA DropKeeps ==
  ASSUME NEW map, NEW k, NEW r, Map!OnePerKey(k, map)
  PROVE  Map!OnePerKey(k, Map!Restrict(map, DOMAIN map \ {r}))
BY DEF Map!OnePerKey, Map!Restrict

\* However the rows of a map are put, dropped and taken back, a key is held by
\* one row, also among those of the mark.
THEOREM OneRowPerKey == Map!Spec => []Map!KeyHeld
<1>1. Map!Init => Map!KeyHeld
  BY DEF Map!Init, Map!KeyHeld, Map!OnePerKey
<1>2. Map!KeyHeld /\ [Map!Next]_<<key, Rows, before>> => Map!KeyHeld'
  <2> SUFFICES ASSUME Map!KeyHeld, [Map!Next]_<<key, Rows, before>>
               PROVE  Map!KeyHeld'
    OBVIOUS
  <2>1. CASE (Map!Mark \/ Map!Keep \/ Map!TakeBack) /\ UNCHANGED key
    BY <2>1 DEF Map!Mark, Map!Keep, Map!TakeBack, Map!KeyHeld
  <2>2. ASSUME NEW r \in RowIds, Map!Drop(r), UNCHANGED key PROVE Map!KeyHeld'
    <3>1. Map!OnePerKey(key, Rows')
      BY <2>2, DropKeeps DEF Map!Drop, Map!KeyHeld
    <3> QED
      BY <2>2, <3>1 DEF Map!Drop, Map!KeyHeld
  <2>3. ASSUME NEW r \in RowIds, NEW cells \in RowTuples, Map!Put(r, cells), UNCHANGED key
        PROVE  Map!KeyHeld'
    <3>1. r \notin DOMAIN Rows /\ Rows' = Map!With(Rows, r, cells)
      BY <2>3 DEF Map!Put
    <3>2. ~ClashesIn(key, Rows, cells)
      BY <2>3 DEF Map!Put, Map!Clash, ClashesIn
    <3>3. Map!OnePerKey(key, Rows')
      BY <3>1, <3>2, PutKeeps DEF Map!KeyHeld
    <3> QED
      BY <2>3, <3>3 DEF Map!Put, Map!KeyHeld
  <2>4. CASE UNCHANGED <<key, Rows, before>>
    BY <2>4 DEF Map!KeyHeld
  <2> QED
    BY <2>1, <2>2, <2>3, <2>4 DEF Map!Next
<1> QED
  BY <1>1, <1>2, PTL DEF Map!Spec

\* Two rows of a table never have the same primary key, nor do two rows of the
\* snapshot it can go back to (insert_row and rollback_to, table/mod.rs): the
\* sorted columns implement the map, and the map keeps its key.
THEOREM KeyIsHeld == Spec => []Map!KeyHeld
<1>1. Spec => Map!Spec
  BY TableIsMap DEF Implements
<1> QED
  BY <1>1, OneRowPerKey, PTL
=============================================================================
