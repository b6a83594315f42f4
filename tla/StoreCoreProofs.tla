-------------------------- MODULE StoreCoreProofs --------------------------
(***************************************************************************)
(* Theorems of StoreCore!Spec, for any commits, tables, rules and views.   *)
(*                                                                         *)
(* First what the operators of StoreCore return, whatever state they are   *)
(* applied in: sequences in order, the dictionary, undo logs, Z-sets, the  *)
(* union of two ids, the rewriting of a table.  The shapes (TableIn,       *)
(* StagedIn, CanonIn, ZsetIn, ...) take a set I of row ids: everything in  *)
(* the value mentions ids of I only.  With I all ids they are types; with  *)
(* I the ids the dictionary knows they say that ids resolve.               *)
(*                                                                         *)
(* The inductive invariant is Base: the shapes of the state and of the     *)
(* state to go back to, where a commit is and what it has still to do      *)
(* (Control), and that staged updates can be carried out (StagedFits).     *)
(* UndoRestores is inductive together with it.  The other theorems add a   *)
(* part each: KeysUnique; Synced, the account of what coln-query has been  *)
(* told; Home, the ids the dictionary knows; NoUnions, when merging is     *)
(* over; Merging, what rows of one class have in common.  StoreMeaning     *)
(* goes on from there.                                                     *)
(***************************************************************************)
EXTENDS StoreCore, SequenceTheorems, FiniteSetTheorems, TLAPS

\* The folds of StoreCore
Undoing == INSTANCE FoldLemmas WITH Op <- Undone
Joining == INSTANCE FoldLemmas WITH Op <- Concat
Interning == INSTANCE FoldLemmas WITH Op <- Intern
Uniting == INSTANCE FoldLemmas WITH Op <- Unite
Summing == INSTANCE FoldLemmas WITH Op <- ZSum

-----------------------------------------------------------------------------
(* Sequences and functions *)

IsSeq(s) == s \in Seq(Range(s))
IsFcn(f) == f = [x \in DOMAIN f |-> f[x]]

\* What is used of a sequence: its domain, its length and its range.
LEMMA SeqIs ==
  ASSUME NEW S, NEW s \in Seq(S)
  PROVE  IsSeq(s) /\ Range(s) \subseteq S /\ Len(s) \in Nat /\ DOMAIN s = 1 .. Len(s)
         /\ Range(s) = {s[i] : i \in 1 .. Len(s)}
BY SeqOfRange, RangeOfSeq, RangeEquality, LenProperties DEF IsSeq

\* The empty sequence has no places and no elements.
LEMMA EmptyIsSeq == IsSeq(<<>>) /\ Range(<<>>) = {} /\ DOMAIN <<>> = {}
<1>1. <<>> \in Seq({}) /\ Len(<<>>) = 0 /\ 1 .. 0 = {}
  OBVIOUS
<1>2. \A e \in Seq({}) : IsSeq(e) /\ Range(e) \subseteq {} /\ DOMAIN e = 1 .. Len(e)
  BY SeqIs
<1> QED
  BY <1>1, <1>2

\* A sequence of one element
LEMMA SingleIsSeq ==
  ASSUME NEW x
  PROVE  IsSeq(<<x>>) /\ Range(<<x>>) = {x} /\ DOMAIN <<x>> = {1} /\ <<x>>[1] = x
<1>1. <<x>> \in Seq({x}) /\ Len(<<x>>) = 1 /\ 1 .. 1 = {1} /\ <<x>>[1] = x
  OBVIOUS
<1>2. \A e \in Seq({x}) : IsSeq(e) /\ DOMAIN e = 1 .. Len(e)
                          /\ Range(e) = {e[i] : i \in 1 .. Len(e)}
  BY SeqIs
<1> QED
  BY <1>1, <1>2

\* Appending adds one element to the range.
LEMMA AppendIsSeq ==
  ASSUME NEW s, IsSeq(s), NEW e
  PROVE  IsSeq(Append(s, e)) /\ Range(Append(s, e)) = Range(s) \cup {e}
<1> DEFINE S == Range(s) \cup {e}
           u == Append(s, e)
<1>1. s \in Seq(S) /\ e \in S
  BY SeqMonotonic DEF IsSeq
<1>2. u \in Seq(S) /\ Len(u) = Len(s) + 1 /\ u[Len(s) + 1] = e
      /\ \A i \in 1 .. Len(s) : u[i] = s[i]
  BY <1>1
<1> HIDE DEF u
<1>3. Range(s) = {s[i] : i \in 1 .. Len(s)} /\ Len(s) \in Nat
  BY <1>1, SeqIs
<1>4. Range(u) = {u[i] : i \in 1 .. Len(u)} /\ IsSeq(u) /\ Range(u) \subseteq S
  BY <1>2, SeqIs
<1>5. S \subseteq Range(u)
  <2>1. e \in Range(u)
    <3>1. Len(s) + 1 \in 1 .. Len(u)
      BY <1>2, <1>3
    <3> QED
      BY <1>2, <1>4, <3>1
  <2>2. ASSUME NEW x \in Range(s) PROVE x \in Range(u)
    <3>1. PICK i \in 1 .. Len(s) : s[i] = x
      BY <1>3
    <3>2. i \in 1 .. Len(u) /\ u[i] = x
      BY <1>2, <1>3, <3>1
    <3> QED
      BY <1>4, <3>2
  <2> QED
    BY <2>1, <2>2
<1> QED
  BY <1>4, <1>5 DEF u

\* The tail has the other elements, one place earlier.
LEMMA TailIsSeq ==
  ASSUME NEW s, IsSeq(s), s # <<>>
  PROVE  /\ IsSeq(Tail(s)) /\ Range(Tail(s)) \subseteq Range(s)
         /\ Head(s) = s[1] /\ 1 \in DOMAIN s /\ s[1] \in Range(s)
         /\ DOMAIN s = 1 .. Len(s) /\ Len(s) \in Nat /\ DOMAIN Tail(s) = 1 .. Len(s) - 1
         /\ \A i \in DOMAIN Tail(s) : Tail(s)[i] = s[i+1] /\ i + 1 \in DOMAIN s
<1>1. s \in Seq(Range(s)) /\ Tail(s) \in Seq(Range(s)) /\ Len(s) \in Nat \ {0}
  BY DEF IsSeq
<1>2. Len(Tail(s)) = Len(s) - 1 /\ \A i \in 1 .. Len(s) - 1 : Tail(s)[i] = s[i+1]
  BY <1>1
<1>3. IsSeq(Tail(s)) /\ Range(Tail(s)) \subseteq Range(s) /\ DOMAIN Tail(s) = 1 .. Len(Tail(s))
  BY <1>1, SeqIs
<1>4. DOMAIN s = 1 .. Len(s) /\ Range(s) = {s[i] : i \in 1 .. Len(s)}
  BY <1>1, SeqIs
<1> QED
  BY <1>1, <1>2, <1>3, <1>4

\* A concatenation has the elements of both parts.
LEMMA ConcatIsSeq ==
  ASSUME NEW s, IsSeq(s), NEW u, IsSeq(u)
  PROVE  IsSeq(s \o u) /\ Range(s \o u) = Range(s) \cup Range(u)
<1> DEFINE S == Range(s) \cup Range(u)
<1>1. s \in Seq(S) /\ u \in Seq(S)
  BY SeqMonotonic DEF IsSeq
<1> HIDE DEF S
<1>2. s \o u \in Seq(S)
  BY <1>1
<1>3. IsSeq(s \o u)
  BY <1>2, SeqIs
<1> QED
  BY <1>1, <1>3, RangeConcatenation

\* A function on 1 .. n is a sequence.
LEMMA ListIsSeq ==
  ASSUME NEW n \in Nat, NEW S, NEW f \in [1 .. n -> S]
  PROVE  f \in Seq(S) /\ Len(f) = n /\ IsSeq(f) /\ Range(f) = {f[i] : i \in 1 .. n}
<1>1. f \in Seq(S) /\ Len(f) = n
  OBVIOUS
<1> QED
  BY <1>1, SeqIs

-----------------------------------------------------------------------------
(* The folds *)

\* Undoing an empty log leaves the table as it is.
LEMMA UndoEmpty == ASSUME NEW tbl PROVE UndoAll(tbl, <<>>) = tbl
<1>1. UndoAll(tbl, <<>>) = Undoing!FoldBack(tbl, <<>>)
  BY DEF UndoAll, Undoing!FoldBack, FoldRight, Undoing!FoldRight, MapThenFoldSet,
         Undoing!MapThenFoldSet, Min, Undoing!Min
<1> QED
  BY <1>1, Undoing!FoldBackEmpty

\* The entry logged last is undone first (Table::rollback_to).
LEMMA UndoAppend ==
  ASSUME NEW tbl, NEW log, IsSeq(log), NEW e
  PROVE  UndoAll(tbl, Append(log, e)) = UndoAll(Undone(tbl, e), log)
<1>1. \A u, v : UndoAll(u, v) = Undoing!FoldBack(u, v)
  BY DEF UndoAll, Undoing!FoldBack, FoldRight, Undoing!FoldRight, MapThenFoldSet,
         Undoing!MapThenFoldSet, Min, Undoing!Min
<1> QED
  BY <1>1, Undoing!FoldBackAppend DEF IsSeq

\* The four left folds of StoreCore are folds of FoldLemmas.
LEMMA JoinFold == \A x, s : FoldLeft(Concat, x, s) = Joining!Fold(x, s)
BY DEF Joining!Fold, FoldLeft, Joining!FoldLeft, MapThenFoldSet, Joining!MapThenFoldSet,
       Max, Joining!Max
LEMMA InternFold == \A x, s : FoldLeft(Intern, x, s) = Interning!Fold(x, s)
BY DEF Interning!Fold, FoldLeft, Interning!FoldLeft, MapThenFoldSet,
       Interning!MapThenFoldSet, Max, Interning!Max
LEMMA UniteFold == \A x, s : FoldLeft(Unite, x, s) = Uniting!Fold(x, s)
BY DEF Uniting!Fold, FoldLeft, Uniting!FoldLeft, MapThenFoldSet, Uniting!MapThenFoldSet,
       Max, Uniting!Max
LEMMA SumFold == \A x, s : FoldLeft(ZSum, x, s) = Summing!Fold(x, s)
BY DEF Summing!Fold, FoldLeft, Summing!FoldLeft, MapThenFoldSet, Summing!MapThenFoldSet,
       Max, Summing!Max

-----------------------------------------------------------------------------
(* Finite sets in order *)

\* R orders S strictly and totally.
Orders(R, S) ==
  /\ \A x \in S : <<x, x>> \notin R
  /\ \A x, y \in S : x = y \/ <<x, y>> \in R \/ <<y, x>> \in R
  /\ \A x, y, z \in S : <<x, y>> \in R /\ <<y, z>> \in R => <<x, z>> \in R

\* f lists S, which has n elements, in the order R.
Lists(f, n, S, R) ==
  /\ f \in [1 .. n -> S]
  /\ \A x \in S : \E i \in 1 .. n : f[i] = x
  /\ \A i, j \in 1 .. n : i < j => <<f[i], f[j]>> \in R

\* A list of all elements but the greatest goes on with the greatest.
LEMMA ListWithGreatest ==
  ASSUME NEW n \in Nat, NEW S, NEW R, NEW m \in S, NEW f,
         Lists(f, n, S \ {m}, R), \A x \in S \ {m} : <<x, m>> \in R
  PROVE  \E g : Lists(g, n + 1, S, R)
<1> DEFINE g == [i \in 1 .. n + 1 |-> IF i = n + 1 THEN m ELSE f[i]]
<1>1. /\ \A i \in 1 .. n : g[i] = f[i] /\ f[i] \in S \ {m}
      /\ g[n + 1] = m
      /\ g \in [1 .. n + 1 -> S]
  BY DEF Lists
<1>2. ASSUME NEW x \in S PROVE \E i \in 1 .. n + 1 : g[i] = x
  <2>1. CASE x = m
    BY <1>1, <2>1
  <2>2. CASE x # m
    <3>1. PICK i \in 1 .. n : f[i] = x
      BY <2>2 DEF Lists
    <3> QED
      BY <1>1, <3>1
  <2> QED
    BY <2>1, <2>2
<1> HIDE DEF g
<1>3. ASSUME NEW i \in 1 .. n + 1, NEW j \in 1 .. n + 1, i < j
      PROVE  <<g[i], g[j]>> \in R
  <2>1. CASE j = n + 1
    <3>1. i \in 1 .. n
      BY <1>3, <2>1
    <3> QED
      BY <1>1, <2>1, <3>1
  <2>2. CASE j # n + 1
    <3>1. i \in 1 .. n /\ j \in 1 .. n
      BY <1>3, <2>2
    <3> QED
      BY <1>1, <1>3, <3>1 DEF Lists
  <2> QED
    BY <2>1, <2>2
<1> QED
  BY <1>1, <1>2, <1>3 DEF Lists

\* Every finite ordered set can be listed in order.
THEOREM ListExists ==
  ASSUME NEW S, IsFiniteSet(S), NEW R, Orders(R, S)
  PROVE  \E f : Lists(f, Cardinality(S), S, R)
<1> DEFINE Listed(U) == \E f : Lists(f, Cardinality(U), U, R)
           T == {n \in Nat : \A U \in SUBSET S : Cardinality(U) = n => Listed(U)}
<1>0. \A U \in SUBSET S : IsFiniteSet(U) /\ Cardinality(U) \in Nat /\ Orders(R, U)
  BY FS_Subset, FS_CardinalityType DEF Orders
<1>1. 0 \in T
  <2> SUFFICES ASSUME NEW U \in SUBSET S, Cardinality(U) = 0 PROVE Listed(U)
    OBVIOUS
  <2>1. U = {}
    BY <1>0, FS_EmptySet
  <2>2. Lists(<<>>, 0, {}, R)
    BY DEF Lists
  <2> QED
    BY <2>1, <2>2
<1>2. ASSUME NEW n \in Nat, n \in T PROVE n + 1 \in T
  <2> SUFFICES ASSUME NEW U \in SUBSET S, Cardinality(U) = n + 1 PROVE Listed(U)
    OBVIOUS
  <2>a. ASSUME NEW x \in U
        PROVE  U \ {x} \in SUBSET S /\ Cardinality(U \ {x}) = n
    <3>1. IsFiniteSet(U) /\ (n + 1) - 1 = n
      BY <1>0
    <3>2. Cardinality(U \ {x}) = Cardinality(U) - 1
      BY <3>1, FS_RemoveElement
    <3> QED
      BY <3>1, <3>2
  <2>1. PICK x \in U : TRUE
    BY <1>0, FS_EmptySet
  <2>2. PICK f : Lists(f, n, U \ {x}, R)
    BY <1>2, <2>a
  <2>3. \E m \in U : \A y \in U \ {m} : <<y, m>> \in R
    <3>1. CASE n = 0
      <4>1. U \ {x} = {}
        BY <2>a, <3>1, <1>0, FS_EmptySet
      <4> QED
        BY <4>1
    <3>2. CASE n # 0
      <4> DEFINE m == f[n]
      <4>1. m \in U \ {x}
        BY <2>2, <3>2 DEF Lists
      <4>2. \A y \in U \ {x, m} : <<y, m>> \in R
        <5> SUFFICES ASSUME NEW y \in U \ {x, m} PROVE <<y, m>> \in R
          OBVIOUS
        <5>1. PICK i \in 1 .. n : f[i] = y
          BY <2>2 DEF Lists
        <5>2. i < n
          BY <5>1
        <5>3. n \in 1 .. n
          BY <3>2
        <5> QED
          BY <2>2, <5>1, <5>2, <5>3 DEF Lists
      <4> HIDE DEF m
      <4>3. <<x, m>> \in R \/ <<m, x>> \in R
        BY <1>0, <4>1 DEF Orders
      <4>4. CASE <<x, m>> \in R
        BY <4>1, <4>2, <4>4
      <4>5. CASE <<m, x>> \in R
        <5>1. \A y \in U \ {x, m} : <<y, x>> \in R
          BY <1>0, <4>1, <4>2, <4>5 DEF Orders
        <5> QED
          BY <4>5, <5>1
      <4> QED
        BY <4>3, <4>4, <4>5
    <3> QED
      BY <3>1, <3>2
  <2>4. PICK m \in U : \A y \in U \ {m} : <<y, m>> \in R
    BY <2>3
  <2>5. PICK g : Lists(g, n, U \ {m}, R)
    BY <1>2, <2>a
  <2> QED
    BY <2>4, <2>5, ListWithGreatest
<1> HIDE DEF T, Listed
<1>3. Cardinality(S) \in T
  BY <1>0, <1>1, <1>2, Joining!NatInd
<1> QED
  BY <1>3 DEF T, Listed

-----------------------------------------------------------------------------
(* Orders *)

\* Different hashes have different places in the order of hashes.
LEMMA RankInjective ==
  \A c, d \in Commit : Rank[c] \in Nat /\ (Rank[c] = Rank[d] => c = d)
BY RankAssumption DEF Injection, IsInjective

\* Hashes order the row ids strictly and totally.
LEMMA WireTotal ==
  ASSUME NEW r \in RowId, NEW s \in RowId, NEW u \in RowId
  PROVE  /\ ~WireBefore(r, r)
         /\ r = s \/ WireBefore(r, s) \/ WireBefore(s, r)
         /\ WireBefore(r, s) /\ WireBefore(s, u) => WireBefore(r, u)
<1>1. \A x \in {r, s, u} :
        x = <<x[1], x[2]>> /\ x[1] \in Commit /\ x[2] \in Nat /\ Rank[x[1]] \in Nat
  BY RankInjective DEF RowId
<1>2. \A x, y \in {r, s, u} : Rank[x[1]] = Rank[y[1]] => x[1] = y[1]
  BY <1>1, RankInjective
<1> QED
  BY <1>1, <1>2 DEF WireBefore

DictOK(d) == d \in Seq(Commit) /\ IsInjective(d)

\* Different hashes have different places in the dictionary.
LEMMA DictIndexInjective ==
  ASSUME DictOK(dict), NEW c \in Commit, NEW d \in Commit
  PROVE  DictIndex(c) \in Nat /\ (DictIndex(c) = DictIndex(d) => c = d)
<1>1. Len(dict) \in Nat /\ DOMAIN dict = 1 .. Len(dict)
  BY SeqIs DEF DictOK
<1>2. ASSUME NEW x \in Commit, x \in Range(dict)
      PROVE  DictIndex(x) \in 1 .. Len(dict) /\ dict[DictIndex(x)] = x
  BY <1>1, <1>2 DEF DictIndex, Range
<1>3. ASSUME NEW x \in Commit, x \notin Range(dict)
      PROVE  DictIndex(x) = Len(dict) + 1 + Rank[x]
  BY <1>3 DEF DictIndex
<1>4. Rank[c] \in Nat /\ Rank[d] \in Nat /\ (Rank[c] = Rank[d] => c = d)
  BY RankInjective
<1>5. CASE c \in Range(dict) /\ d \in Range(dict)
  BY <1>1, <1>2, <1>5
<1>6. CASE c \in Range(dict) /\ d \notin Range(dict)
  BY <1>1, <1>2, <1>3, <1>4, <1>6
<1>7. CASE c \notin Range(dict) /\ d \in Range(dict)
  BY <1>1, <1>2, <1>3, <1>4, <1>7
<1>8. CASE c \notin Range(dict) /\ d \notin Range(dict)
  BY <1>1, <1>3, <1>4, <1>8
<1> QED
  BY <1>5, <1>6, <1>7, <1>8

\* Packed ids are ordered strictly and totally.
LEMMA PackedTotal ==
  ASSUME DictOK(dict), NEW r \in RowId, NEW s \in RowId, NEW u \in RowId
  PROVE  /\ ~PackedBefore(r, r)
         /\ r = s \/ PackedBefore(r, s) \/ PackedBefore(s, r)
         /\ PackedBefore(r, s) /\ PackedBefore(s, u) => PackedBefore(r, u)
<1>1. \A x \in {r, s, u} :
        x = <<x[1], x[2]>> /\ x[1] \in Commit /\ x[2] \in Nat /\ DictIndex(x[1]) \in Nat
  BY DictIndexInjective DEF RowId
<1>2. \A x, y \in {r, s, u} : DictIndex(x[1]) = DictIndex(y[1]) => x[1] = y[1]
  BY <1>1, DictIndexInjective
<1> QED
  BY <1>1, <1>2 DEF PackedBefore

\* A list in strict order has no repetition, and so leaves nothing out.
LEMMA ListAscending ==
  ASSUME NEW S \in SUBSET Nat, IsFiniteSet(S)
  PROVE  LET f == Ascending(S) IN
         /\ Cardinality(S) \in Nat
         /\ f \in [1 .. Cardinality(S) -> S]
         /\ \A i, j \in 1 .. Cardinality(S) : i < j => f[i] < f[j]
         /\ \A x \in S : \E i \in 1 .. Cardinality(S) : f[i] = x
<1> DEFINE R == {p \in Nat \X Nat : p[1] < p[2]}
           n == Cardinality(S)
           f == Ascending(S)
<1>0. n \in Nat
  BY FS_CardinalityType
<1>1. \A x, y \in S : <<x, y>> \in R <=> x < y
  OBVIOUS
<1> HIDE DEF R
<1>2. Orders(R, S)
  BY <1>1 DEF Orders
<1>3. \E g : Lists(g, n, S, R)
  BY <1>2, ListExists
<1>4. \E g \in [1 .. n -> S] : \A i, j \in 1 .. n : i < j => g[i] < g[j]
  BY <1>1, <1>3 DEF Lists
<1>5. f \in [1 .. n -> S] /\ \A i, j \in 1 .. n : i < j => f[i] < f[j]
  BY <1>4 DEF Ascending
<1> HIDE DEF f
<1>6. \A i, j \in 1 .. n : f[i] = f[j] => i = j
  <2> SUFFICES ASSUME NEW i \in 1 .. n, NEW j \in 1 .. n, f[i] = f[j], i # j
               PROVE  FALSE
    OBVIOUS
  <2>1. f[i] \in Nat
    BY <1>5
  <2>2. i < j \/ j < i
    BY <1>0
  <2> QED
    BY <1>5, <2>1, <2>2
<1>7. f \in Injection(1 .. n, S)
  BY <1>5, <1>6 DEF Injection, IsInjective
<1>8. f \in Surjection(1 .. n, S)
  <2>1. Cardinality(1 .. n) = n
    BY <1>0, FS_Interval
  <2> QED
    BY <1>7, <2>1, FS_Injection
<1>9. \A x \in S : \E i \in 1 .. n : f[i] = x
  BY <1>8 DEF Surjection
<1> QED
  BY <1>0, <1>5, <1>9 DEF f

PackedOrder(S) == {p \in S \X S : PackedBefore(p[1], p[2])}

\* A finite set of row ids can be listed in packed order.
LEMMA PackedList ==
  ASSUME DictOK(dict), NEW S \in SUBSET RowId, IsFiniteSet(S)
  PROVE  \E g : Lists(g, Cardinality(S), S, PackedOrder(S))
<1>1. \A x, y \in S : <<x, y>> \in PackedOrder(S) <=> PackedBefore(x, y)
  BY DEF PackedOrder
<1>2. Orders(PackedOrder(S), S)
  BY <1>1, PackedTotal DEF Orders
<1> QED
  BY <1>2, ListExists

\* InPackedOrder lists each row id of a finite set once.
LEMMA ListInPackedOrder ==
  ASSUME DictOK(dict), NEW S \in SUBSET RowId, IsFiniteSet(S)
  PROVE  LET f == InPackedOrder(S) IN
         /\ Cardinality(S) \in Nat
         /\ f \in [1 .. Cardinality(S) -> S]
         /\ \A i, j \in 1 .. Cardinality(S) : f[i] = f[j] => i = j
         /\ \A x \in S : \E i \in 1 .. Cardinality(S) : f[i] = x
<1> DEFINE n == Cardinality(S)
           f == InPackedOrder(S)
<1>0. n \in Nat
  BY FS_CardinalityType
<1>1. \E g \in [1 .. n -> S] : \A i, j \in 1 .. n : i < j => PackedBefore(g[i], g[j])
  BY PackedList DEF Lists, PackedOrder
<1>2. f \in [1 .. n -> S] /\ \A i, j \in 1 .. n : i < j => PackedBefore(f[i], f[j])
  BY <1>1 DEF InPackedOrder
<1> HIDE DEF f
<1>3. ASSUME NEW i \in 1 .. n, NEW j \in 1 .. n, f[i] = f[j], i # j PROVE FALSE
  <2>1. f[i] \in RowId /\ (i < j \/ j < i)
    BY <1>0, <1>2, <1>3
  <2> QED
    BY <1>2, <1>3, <2>1, PackedTotal
<1>4. f \in Injection(1 .. n, S)
  BY <1>2, <1>3 DEF Injection, IsInjective
<1>5. f \in Surjection(1 .. n, S)
  <2>1. Cardinality(1 .. n) = n
    BY <1>0, FS_Interval
  <2> QED
    BY <1>4, <2>1, FS_Injection
<1>6. \A x \in S : \E i \in 1 .. n : f[i] = x
  BY <1>5 DEF Surjection
<1> QED
  BY <1>0, <1>2, <1>3, <1>6 DEF f

\* A finite set of row ids has a first in packed order.
LEMMA FirstInPackedOrder ==
  ASSUME DictOK(dict), NEW S \in SUBSET RowId, IsFiniteSet(S), S # {}
  PROVE  \E r \in S : \A s \in S \ {r} : PackedBefore(r, s)
<1> DEFINE n == Cardinality(S)
<1>0. n \in Nat /\ n # 0
  BY FS_CardinalityType, FS_EmptySet
<1>1. PICK g : Lists(g, n, S, PackedOrder(S))
  BY PackedList
<1>2. 1 \in 1 .. n
  BY <1>0
<1>3. ASSUME NEW s \in S, s # g[1] PROVE PackedBefore(g[1], s)
  <2>1. PICK i \in 1 .. n : g[i] = s
    BY <1>1 DEF Lists
  <2>2. 1 < i
    BY <1>0, <1>3, <2>1
  <2>3. <<g[1], g[i]>> \in PackedOrder(S)
    BY <1>1, <1>2, <2>2 DEF Lists
  <2> QED
    BY <2>1, <2>3 DEF PackedOrder
<1>4. g[1] \in S
  BY <1>1, <1>2 DEF Lists
<1> QED
  BY <1>3, <1>4

-----------------------------------------------------------------------------
(* Tables: I is a set of row ids that rows may mention. *)

CellsIn(t, cells, I) == \A k \in Schema[t].ids : k \in DOMAIN cells /\ cells[k] \in I

TableIn(t, tbl, I) ==
  /\ IsFcn(tbl) /\ DOMAIN tbl \subseteq I /\ IsFiniteSet(DOMAIN tbl)
  /\ \A r \in DOMAIN tbl : CellsIn(t, tbl[r], I)

PerTable(f) == IsFcn(f) /\ DOMAIN f = Table

TablesIn(tbls, I) == PerTable(tbls) /\ \A t \in Table : TableIn(t, tbls[t], I)

LogsOK(log) ==
  /\ PerTable(log)
  /\ \A t \in Table : IsSeq(log[t]) /\ \A e \in Range(log[t]) : UpdateType(e)

\* Table::apply_undo takes back one insertion and one removal.
LEMMA WithUndone ==
  ASSUME NEW tbl, IsFcn(tbl), NEW r, NEW cells
  PROVE  /\ r \notin DOMAIN tbl => Undone(With(tbl, r, cells), Add(r, cells)) = tbl
         /\ r \in DOMAIN tbl =>
              Undone(Restrict(tbl, DOMAIN tbl \ {r}),
                     [kind |-> "delete", id |-> r, cells |-> tbl[r]]) = tbl
<1>1. ASSUME r \notin DOMAIN tbl
      PROVE  Undone(With(tbl, r, cells), Add(r, cells)) = tbl
  <2> DEFINE w == With(tbl, r, cells)
  <2>1. DOMAIN w \ {r} = DOMAIN tbl /\ \A x \in DOMAIN tbl : w[x] = tbl[x]
    BY <1>1 DEF With
  <2>2. Undone(w, Add(r, cells)) = [x \in DOMAIN w \ {r} |-> w[x]]
    BY DEF Undone, Add, Restrict
  <2> HIDE DEF w
  <2>3. Undone(w, Add(r, cells)) = [x \in DOMAIN tbl |-> tbl[x]]
    BY <2>1, <2>2
  <2> QED
    BY <2>3 DEF IsFcn, w
<1>2. ASSUME r \in DOMAIN tbl
      PROVE  Undone(Restrict(tbl, DOMAIN tbl \ {r}),
                    [kind |-> "delete", id |-> r, cells |-> tbl[r]]) = tbl
  <2> DEFINE w == Restrict(tbl, DOMAIN tbl \ {r})
             e == [kind |-> "delete", id |-> r, cells |-> tbl[r]]
  <2>1. DOMAIN w = DOMAIN tbl \ {r} /\ \A x \in DOMAIN tbl \ {r} : w[x] = tbl[x]
    BY DEF Restrict
  <2>2. Undone(w, e) = With(w, r, tbl[r])
    BY DEF Undone
  <2> HIDE DEF w, e
  <2>3. With(w, r, tbl[r]) = [x \in DOMAIN tbl |-> tbl[x]]
    BY <1>2, <2>1 DEF With
  <2> QED
    BY <2>2, <2>3 DEF IsFcn, w, e
<1> QED
  BY <1>1, <1>2

\* A well-formed table stays so with one more well-formed row,
LEMMA WithIn ==
  ASSUME NEW t, NEW I, NEW tbl, TableIn(t, tbl, I), NEW r \in I, NEW cells,
         CellsIn(t, cells, I)
  PROVE  TableIn(t, With(tbl, r, cells), I)
<1> DEFINE w == With(tbl, r, cells)
<1>1. IsFcn(w) /\ DOMAIN w = DOMAIN tbl \cup {r}
      /\ \A x \in DOMAIN w : w[x] = IF x = r THEN cells ELSE tbl[x]
  BY DEF With, IsFcn
<1> HIDE DEF w
<1>2. IsFiniteSet(DOMAIN w)
  BY <1>1, FS_AddElement DEF TableIn
<1>3. \A x \in DOMAIN w : CellsIn(t, w[x], I)
  BY <1>1 DEF TableIn
<1> QED
  BY <1>1, <1>2, <1>3 DEF w, TableIn

\* and with one row less.
LEMMA WithoutIn ==
  ASSUME NEW t, NEW I, NEW tbl, TableIn(t, tbl, I), NEW r
  PROVE  TableIn(t, Restrict(tbl, DOMAIN tbl \ {r}), I)
<1> DEFINE w == Restrict(tbl, DOMAIN tbl \ {r})
<1>1. IsFcn(w) /\ DOMAIN w = DOMAIN tbl \ {r} /\ \A x \in DOMAIN w : w[x] = tbl[x]
  BY DEF Restrict, IsFcn
<1> HIDE DEF w
<1>2. IsFiniteSet(DOMAIN w)
  BY <1>1, FS_RemoveElement DEF TableIn
<1>3. \A x \in DOMAIN w : CellsIn(t, w[x], I)
  BY <1>1 DEF TableIn
<1> QED
  BY <1>1, <1>2, <1>3 DEF w, TableIn

\* If a row has twins, the first in packed order is one of them.
LEMMA TwinFound ==
  ASSUME DictOK(dict), NEW t \in Table, TablesIn(rows, RowId), NEW cells,
         Twins(t, cells) # {}
  PROVE  /\ FirstTwin(t, cells) \in DOMAIN rows[t]
         /\ rows[t][FirstTwin(t, cells)] = cells
<1> DEFINE S == Twins(t, cells)
<1>1. S \in SUBSET DOMAIN rows[t]
  BY DEF Twins
<1>2. S \in SUBSET RowId /\ IsFiniteSet(S)
  BY <1>1, FS_Subset DEF TablesIn, TableIn
<1>3. \E r \in S : \A s \in S \ {r} : PackedBefore(r, s)
  <2> HIDE DEF S
  <2>1. S # {}
    BY DEF S
  <2> QED
    BY <1>2, <2>1, FirstInPackedOrder
<1>4. FirstTwin(t, cells) \in S
  BY <1>3 DEF FirstTwin
<1>5. \A r \in S : rows[t][r] = cells
  BY DEF Twins
<1> QED
  BY <1>1, <1>4, <1>5

\* Inserting a row: what insert_row keeps
LEMMA InsertKeeps ==
  ASSUME NEW I \in SUBSET RowId, DictOK(dict), TablesIn(rows, I), LogsOK(undo),
         unions \in Seq(I \X I),
         NEW t \in Table, NEW r \in I, NEW cells, CellsIn(t, cells, I),
         InsertRow(t, r, cells)
  PROVE  /\ TablesIn(rows', I) /\ LogsOK(undo') /\ unions' \in Seq(I \X I)
         /\ pc' \in {pc, "failed", "panicked"}
         /\ \A u \in Table : UndoAll(rows'[u], undo'[u]) = UndoAll(rows[u], undo[u])
         /\ \A u \in Table : \A s \in DOMAIN rows[u] :
              s \in DOMAIN rows'[u] /\ rows'[u][s] = rows[u][s]
<1>1. CASE UNCHANGED <<rows, undo, unions>> /\ pc' \in {"failed", "panicked"}
  BY <1>1
<1>2. CASE ~(UNCHANGED <<rows, undo, unions>> /\ pc' \in {"failed", "panicked"})
  <2>1. /\ r \notin DOMAIN rows[t]
        /\ rows' = [rows EXCEPT ![t] = With(@, r, cells)]
        /\ undo' = [undo EXCEPT ![t] = Append(@, Add(r, cells))]
        /\ unions' = IF Twins(t, cells) = {} THEN unions
                     ELSE Append(unions, <<FirstTwin(t, cells), r>>)
        /\ pc' = pc
    BY <1>2 DEF InsertRow
  <2>2. /\ rows'[t] = With(rows[t], r, cells)
        /\ undo'[t] = Append(undo[t], Add(r, cells))
        /\ \A u \in Table \ {t} : rows'[u] = rows[u] /\ undo'[u] = undo[u]
        /\ PerTable(rows') /\ PerTable(undo')
    BY <2>1 DEF TablesIn, LogsOK, PerTable, IsFcn
  <2>3. TableIn(t, rows'[t], I)
    BY <2>2, WithIn DEF TablesIn
  <2>4. TablesIn(rows', I)
    BY <2>2, <2>3 DEF TablesIn
  <2>5. UpdateType(Add(r, cells))
    BY DEF UpdateType, Add
  <2>6. IsSeq(undo'[t]) /\ Range(undo'[t]) = Range(undo[t]) \cup {Add(r, cells)}
    BY <2>2, AppendIsSeq DEF LogsOK
  <2>7. LogsOK(undo')
    BY <2>2, <2>5, <2>6 DEF LogsOK
  <2>8. unions' \in Seq(I \X I)
    <3>1. CASE Twins(t, cells) = {}
      BY <2>1, <3>1
    <3>2. CASE Twins(t, cells) # {}
      <4>1. TablesIn(rows, RowId)
        BY DEF TablesIn, TableIn, CellsIn
      <4>2. FirstTwin(t, cells) \in I
        BY <3>2, <4>1, TwinFound DEF TablesIn, TableIn
      <4>3. unions' = Append(unions, <<FirstTwin(t, cells), r>>)
        BY <2>1, <3>2
      <4> QED
        BY <4>2, <4>3
    <3> QED
      BY <3>1, <3>2
  <2>9. UndoAll(rows'[t], undo'[t]) = UndoAll(rows[t], undo[t])
    <3>1. UndoAll(rows'[t], undo'[t]) = UndoAll(Undone(rows'[t], Add(r, cells)), undo[t])
      BY <2>2, UndoAppend DEF LogsOK
    <3>2. IsFcn(rows[t])
      BY DEF TablesIn, TableIn
    <3>3. Undone(With(rows[t], r, cells), Add(r, cells)) = rows[t]
      BY <2>1, <3>2, WithUndone
    <3> QED
      BY <2>2, <3>1, <3>3
  <2>10. \A s \in DOMAIN rows[t] : s \in DOMAIN rows'[t] /\ rows'[t][s] = rows[t][s]
    BY <2>1, <2>2 DEF With
  <2> QED
    BY <2>1, <2>2, <2>4, <2>7, <2>8, <2>9, <2>10
<1> QED
  BY <1>1, <1>2

\* Removing a row: what remove_packed keeps
LEMMA RemoveKeeps ==
  ASSUME NEW I \in SUBSET RowId, TablesIn(rows, I), LogsOK(undo),
         NEW t \in Table, NEW r, r \in DOMAIN rows[t], RemoveRow(t, r)
  PROVE  /\ TablesIn(rows', I) /\ LogsOK(undo') /\ UNCHANGED <<unions, pc>>
         /\ \A u \in Table : UndoAll(rows'[u], undo'[u]) = UndoAll(rows[u], undo[u])
         /\ DOMAIN rows'[t] = DOMAIN rows[t] \ {r}
         /\ \A s \in DOMAIN rows'[t] : rows'[t][s] = rows[t][s]
         /\ \A u \in Table \ {t} : rows'[u] = rows[u]
<1>1. PICK e : e = [kind |-> "delete", id |-> r, cells |-> rows[t][r]]
  OBVIOUS
<1>2. /\ rows'[t] = Restrict(rows[t], DOMAIN rows[t] \ {r})
      /\ undo'[t] = Append(undo[t], e)
      /\ \A u \in Table \ {t} : rows'[u] = rows[u] /\ undo'[u] = undo[u]
      /\ PerTable(rows') /\ PerTable(undo')
  BY <1>1 DEF RemoveRow, TablesIn, LogsOK, PerTable, IsFcn
<1>3. TableIn(t, rows'[t], I)
  <2>1. TableIn(t, rows[t], I)
    BY DEF TablesIn
  <2>2. TableIn(t, Restrict(rows[t], DOMAIN rows[t] \ {r}), I)
    BY <2>1, WithoutIn
  <2> QED
    BY <1>2, <2>2
<1>4. TablesIn(rows', I)
  BY <1>2, <1>3 DEF TablesIn
<1>5. UpdateType(e)
  BY <1>1 DEF UpdateType, TablesIn, TableIn
<1>6. UndoAll(rows'[t], undo'[t]) = UndoAll(rows[t], undo[t])
  <2>1. UndoAll(rows'[t], undo'[t]) = UndoAll(Undone(rows'[t], e), undo[t])
    BY <1>2, UndoAppend DEF LogsOK
  <2>2. Undone(rows'[t], e) = rows[t]
    BY <1>1, <1>2, WithUndone DEF TablesIn, TableIn
  <2> QED
    BY <2>1, <2>2
<1>7. IsSeq(undo'[t]) /\ Range(undo'[t]) = Range(undo[t]) \cup {e}
  BY <1>2, AppendIsSeq DEF LogsOK
<1>8. LogsOK(undo')
  BY <1>2, <1>5, <1>7 DEF LogsOK
<1>9. UNCHANGED <<unions, pc>>
  BY DEF RemoveRow
<1>10. DOMAIN rows'[t] = DOMAIN rows[t] \ {r}
       /\ \A s \in DOMAIN rows'[t] : rows'[t][s] = rows[t][s]
  BY <1>2 DEF Restrict
<1> QED
  BY <1>2, <1>4, <1>6, <1>8, <1>9, <1>10

-----------------------------------------------------------------------------
(* The dictionary *)

Extends(d, e) == Len(d) <= Len(e) /\ \A i \in 1 .. Len(d) : e[i] = d[i]

\* A longer dictionary has the hashes of its prefix, and gives the prefix back.
LEMMA RangeExtends ==
  ASSUME NEW d \in Seq(Commit), NEW e \in Seq(Commit), Extends(d, e)
  PROVE  Range(d) \subseteq Range(e) /\ SubSeq(e, 1, Len(d)) = d
<1>1. Len(d) \in Nat /\ Len(e) \in Nat
      /\ Range(d) = {d[i] : i \in 1 .. Len(d)} /\ Range(e) = {e[i] : i \in 1 .. Len(e)}
  BY SeqIs
<1>2. ASSUME NEW i \in 1 .. Len(d) PROVE i \in 1 .. Len(e) /\ e[i] = d[i]
  BY <1>1 DEF Extends
<1>3. SubSeq(e, 1, Len(d)) \in Seq(Commit) /\ Len(SubSeq(e, 1, Len(d))) = Len(d)
      /\ \A i \in 1 .. Len(d) : SubSeq(e, 1, Len(d))[i] = d[i]
  BY <1>1, <1>2 DEF Extends
<1>4. SubSeq(e, 1, Len(d)) = d
  BY <1>3, SeqEqual
<1> QED
  BY <1>1, <1>2, <1>4

\* Interning a hash keeps the places of the others,
LEMMA InternOne ==
  ASSUME NEW d, DictOK(d), NEW c \in Commit
  PROVE  DictOK(Intern(d, c)) /\ Extends(d, Intern(d, c)) /\ c \in Range(Intern(d, c))
<1>0. d \in Seq(Commit) /\ Len(d) \in Nat /\ DOMAIN d = 1 .. Len(d) /\ IsSeq(d)
      /\ \A i, j \in 1 .. Len(d) : d[i] = d[j] => i = j
  BY SeqIs DEF DictOK, IsInjective
<1>1. CASE c \in Range(d)
  <2>1. Intern(d, c) = d
    BY <1>1 DEF Intern
  <2> QED
    BY <1>0, <1>1, <2>1 DEF Extends
<1>2. CASE c \notin Range(d)
  <2>1. PICK e : e = Append(d, c)
    OBVIOUS
  <2>2. e \in Seq(Commit) /\ Len(e) = Len(d) + 1 /\ e[Len(d) + 1] = c
        /\ \A i \in 1 .. Len(d) : e[i] = d[i]
    BY <1>0, <2>1
  <2>3. DOMAIN e = 1 .. Len(d) + 1
    BY <2>2, SeqIs
  <2>4. \A i \in 1 .. Len(d) : d[i] # c
    BY <1>0, <1>2 DEF Range
  <2>5. IsInjective(e)
    <3> SUFFICES ASSUME NEW i \in 1 .. Len(d) + 1, NEW j \in 1 .. Len(d) + 1, e[i] = e[j]
                 PROVE  i = j
      BY <2>3 DEF IsInjective
    <3> QED
      BY <1>0, <2>2, <2>4
  <2>6. c \in Range(e)
    BY <1>0, <2>1, AppendIsSeq
  <2>7. Intern(d, c) = e
    BY <1>2, <2>1 DEF Intern
  <2> QED
    BY <1>0, <2>2, <2>5, <2>6, <2>7 DEF DictOK, Extends
<1> QED
  BY <1>1, <1>2

\* and so does interning all hashes of a commit.
LEMMA InternAll ==
  ASSUME NEW d, DictOK(d), NEW m \in Seq(Commit)
  PROVE  LET e == FoldLeft(Intern, d, m) IN
         DictOK(e) /\ Extends(d, e) /\ Range(d) \subseteq Range(e) /\ Range(m) \subseteq Range(e)
<1> DEFINE T == {p \in Nat \X Seq(Commit) :
                   /\ DictOK(p[2]) /\ Extends(d, p[2])
                   /\ \A i \in 1 .. Len(m) : i <= p[1] => m[i] \in Range(p[2])}
<1>0. d \in Seq(Commit) /\ Len(d) \in Nat /\ Len(m) \in Nat
  BY SeqIs DEF DictOK
<1>1. <<0, d>> \in T
  BY <1>0 DEF Extends
<1>2. ASSUME NEW n \in Nat, n < Len(m), NEW acc, <<n, acc>> \in T
      PROVE  <<n + 1, Intern(acc, m[n+1])>> \in T
  <2>1. /\ acc \in Seq(Commit) /\ DictOK(acc) /\ Extends(d, acc)
        /\ \A i \in 1 .. Len(m) : i <= n => m[i] \in Range(acc)
        /\ n + 1 \in 1 .. Len(m) /\ m[n+1] \in Commit
    BY <1>0, <1>2
  <2>2. PICK e : e = Intern(acc, m[n+1])
    OBVIOUS
  <2>3. DictOK(e) /\ Extends(acc, e) /\ m[n+1] \in Range(e) /\ e \in Seq(Commit)
    BY <2>1, <2>2, InternOne DEF DictOK
  <2>4. Range(acc) \subseteq Range(e)
    BY <2>1, <2>3, RangeExtends
  <2>5. Extends(d, e)
    <3>1. Len(acc) \in Nat /\ Len(e) \in Nat
      BY <2>1, <2>3, SeqIs
    <3> QED
      BY <1>0, <2>1, <2>3, <3>1 DEF Extends
  <2>6. \A i \in 1 .. Len(m) : i <= n + 1 => m[i] \in Range(e)
    BY <1>0, <2>1, <2>3, <2>4
  <2> QED
    BY <2>2, <2>3, <2>5, <2>6
<1> HIDE DEF T
<1>3. <<Len(m), Interning!Fold(d, m)>> \in T
  BY <1>1, <1>2, Interning!FoldInduct
<1>4. PICK e : e = FoldLeft(Intern, d, m)
  OBVIOUS
<1>5. <<Len(m), e>> \in T
  BY <1>3, <1>4, InternFold
<1>6. DictOK(e) /\ Extends(d, e) /\ \A i \in 1 .. Len(m) : m[i] \in Range(e)
  BY <1>0, <1>5 DEF T
<1>7. Range(m) \subseteq Range(e)
  BY <1>6, SeqIs
<1>8. Range(d) \subseteq Range(e)
  BY <1>0, <1>6, RangeExtends DEF DictOK
<1> QED
  BY <1>4, <1>6, <1>7, <1>8

\* A prefix of a dictionary is a dictionary: what IdPacker::rollback_to leaves.
LEMMA DictPrefix ==
  ASSUME NEW d, DictOK(d), NEW n \in Nat, n <= Len(d)
  PROVE  DictOK(SubSeq(d, 1, n)) /\ Range(SubSeq(d, 1, n)) \subseteq Range(d)
<1>0. d \in Seq(Commit) /\ Len(d) \in Nat /\ DOMAIN d = 1 .. Len(d)
  BY SeqIs DEF DictOK
<1>1. PICK e : e = SubSeq(d, 1, n)
  OBVIOUS
<1>2. e \in Seq(Commit) /\ Len(e) = n /\ \A i \in 1 .. n : e[i] = d[i]
  BY <1>0, <1>1
<1>3. DOMAIN e = 1 .. n /\ Range(e) = {e[i] : i \in 1 .. n}
  BY <1>2, SeqIs
<1>4. IsInjective(e)
  BY <1>0, <1>2, <1>3 DEF DictOK, IsInjective
<1>5. Range(e) \subseteq Range(d)
  BY <1>0, <1>2, <1>3 DEF Range
<1> QED
  BY <1>1, <1>2, <1>4, <1>5 DEF DictOK

-----------------------------------------------------------------------------
(* The commits *)

\* The ids a commit's rows mention, its own included
LEMMA IdCellsOf ==
  ASSUME NEW t \in Table, NEW I, NEW cells, CellsIn(t, cells, I)
  PROVE  LET s == IdCells(t, cells) IN
         /\ s \in Seq(I)
         /\ \A k \in Schema[t].ids : \E j \in DOMAIN s : s[j] = cells[k]
<1> DEFINE S == Schema[t].ids
           at == Ascending(S)
           n == Cardinality(S)
<1>1. S \in SUBSET Nat /\ IsFiniteSet(S) /\ S \cap DOMAIN cells = S
  BY SchemaAssumption DEF CellsIn
<1>2. n \in Nat /\ at \in [1 .. n -> S] /\ \A x \in S : \E i \in 1 .. n : at[i] = x
  BY <1>1, ListAscending
<1>3. IdCells(t, cells) = [i \in DOMAIN at |-> cells[at[i]]]
  BY <1>1 DEF IdCells
<1> HIDE DEF at, n
<1>4. PICK s : s = [i \in 1 .. n |-> cells[at[i]]]
  OBVIOUS
<1>5. s \in [1 .. n -> I]
  BY <1>2, <1>4 DEF CellsIn
<1>6. s \in Seq(I) /\ DOMAIN s = 1 .. n
  BY <1>2, <1>5, ListIsSeq
<1>7. \A k \in S : \E j \in DOMAIN s : s[j] = cells[k]
  BY <1>2, <1>4, <1>6
<1>8. IdCells(t, cells) = s
  BY <1>2, <1>3, <1>4
<1> QED
  BY <1>6, <1>7, <1>8

\* A commit's rows are numbered from 1 and mention row ids where the schema says so.
LEMMA OpsAre ==
  ASSUME NEW c \in Commit
  PROVE  /\ DOMAIN Ops[c] = 1 .. Len(Ops[c]) /\ Len(Ops[c]) \in Nat
         /\ \A i \in DOMAIN Ops[c] : /\ Ops[c][i].table \in Table
                                     /\ CellsIn(Ops[c][i].table, Ops[c][i].cells, RowId)
BY OpsAssumption DEF CellsIn

\* The row ids whose hash is in a dictionary
Known(d) == Range(d) \X Nat

\* Mentions lists every hash of a commit's rows, its own and those of their cells.
LEMMA MentionsAll ==
  ASSUME NEW c \in Commit
  PROVE  LET m == Mentions(c) IN
         /\ m \in Seq(Commit)
         /\ \A i \in DOMAIN Ops[c] : /\ c \in Range(m)
                                     /\ CellsIn(Ops[c][i].table, Ops[c][i].cells, Known(m))
<1> DEFINE hashes(ids) == [j \in DOMAIN ids |-> ids[j][1]]
           one(i) == <<c>> \o hashes(IdCells(Ops[c][i].table, Ops[c][i].cells))
           N == Len(Ops[c])
           s == [i \in 1 .. N |-> one(i)]
           Has(i, m) == /\ c \in Range(m)
                        /\ \A k \in Schema[Ops[c][i].table].ids :
                             Ops[c][i].cells[k][1] \in Range(m)
<1>0. N \in Nat /\ DOMAIN Ops[c] = 1 .. N
  BY OpsAre
<1>1. ASSUME NEW i \in 1 .. N PROVE one(i) \in Seq(Commit) /\ Has(i, one(i))
  <2>1. PICK t, cells : t = Ops[c][i].table /\ cells = Ops[c][i].cells
    OBVIOUS
  <2>2. t \in Table /\ CellsIn(t, cells, RowId)
    BY <1>0, <2>1, OpsAre
  <2>3. PICK q : q = IdCells(t, cells)
    OBVIOUS
  <2>4. q \in Seq(RowId) /\ \A k \in Schema[t].ids : \E j \in DOMAIN q : q[j] = cells[k]
    BY <2>2, <2>3, IdCellsOf
  <2>5. PICK h : h = [j \in DOMAIN q |-> q[j][1]]
    OBVIOUS
  <2>6. Len(q) \in Nat /\ DOMAIN q = 1 .. Len(q) /\ \A j \in 1 .. Len(q) : q[j] \in RowId
    BY <2>4, SeqIs
  <2>7. h \in [1 .. Len(q) -> Commit]
    BY <2>5, <2>6 DEF RowId
  <2>8. h \in Seq(Commit) /\ IsSeq(h) /\ Range(h) = {h[j] : j \in 1 .. Len(q)}
    BY <2>6, <2>7, ListIsSeq
  <2>9. <<c>> \in Seq(Commit) /\ IsSeq(<<c>>) /\ c \in Range(<<c>>)
    BY SingleIsSeq
  <2>10. <<c>> \o h \in Seq(Commit) /\ c \in Range(<<c>> \o h)
         /\ Range(h) \subseteq Range(<<c>> \o h)
    BY <2>8, <2>9, ConcatIsSeq
  <2>11. \A k \in Schema[t].ids : cells[k][1] \in Range(h)
    BY <2>4, <2>5, <2>6, <2>8
  <2>12. one(i) = <<c>> \o h
    BY <2>1, <2>3, <2>5
  <2> QED
    BY <2>1, <2>10, <2>11, <2>12
<1>2. Mentions(c) = FoldLeft(Concat, <<>>, s)
  BY <1>0 DEF Mentions
<1> HIDE DEF one
<1>3. s \in [1 .. N -> Seq(Commit)]
  BY <1>1
<1>4. s \in Seq(Seq(Commit)) /\ Len(s) = N /\ \A i \in 1 .. N : s[i] = one(i)
  BY <1>0, <1>3, ListIsSeq
<1> HIDE DEF s
<1> DEFINE T == {p \in Nat \X Seq(Commit) : \A i \in 1 .. N : i <= p[1] => Has(i, p[2])}
<1> HIDE DEF N, Has
<1>5. <<0, <<>> >> \in T
  <2>1. <<>> \in Seq(Commit) /\ \A i \in 1 .. N : ~(i <= 0)
    BY <1>0
  <2> QED
    BY <2>1
<1>6. ASSUME NEW n \in Nat, n < Len(s), NEW acc, <<n, acc>> \in T
      PROVE  <<n + 1, Concat(acc, s[n+1])>> \in T
  <2>1. acc \in Seq(Commit) /\ n + 1 \in 1 .. N /\ \A i \in 1 .. N : i <= n => Has(i, acc)
    BY <1>0, <1>4, <1>6
  <2>2. PICK u : u = s[n+1]
    OBVIOUS
  <2>3. u \in Seq(Commit) /\ Has(n + 1, u)
    BY <1>1, <1>4, <2>1, <2>2
  <2>4. acc \o u \in Seq(Commit) /\ Range(acc \o u) = Range(acc) \cup Range(u)
    BY <2>1, <2>3, SeqIs, ConcatIsSeq
  <2>5. ASSUME NEW i \in 1 .. N, i <= n + 1 PROVE Has(i, acc \o u)
    <3>1. CASE i <= n
      BY <2>1, <2>4, <3>1 DEF Has
    <3>2. CASE i = n + 1
      BY <2>3, <2>4, <3>2 DEF Has
    <3> QED
      BY <1>0, <2>5, <3>1, <3>2
  <2>6. Concat(acc, s[n+1]) = acc \o u
    BY <2>2 DEF Concat
  <2>7. PICK v : v = acc \o u
    OBVIOUS
  <2>8. v \in Seq(Commit) /\ \A i \in 1 .. N : i <= n + 1 => Has(i, v)
    BY <2>4, <2>5, <2>7
  <2>9. <<n + 1, v>> \in T
    BY <2>8
  <2> QED
    BY <2>6, <2>7, <2>9
<1> HIDE DEF T
<1>7. <<Len(s), Joining!Fold(<<>>, s)>> \in T
  BY <1>4, <1>5, <1>6, Joining!FoldInduct
<1>8. PICK m : m = Mentions(c)
  OBVIOUS
<1>9. <<N, m>> \in T
  BY <1>2, <1>4, <1>7, <1>8, JoinFold
<1>10. m \in Seq(Commit) /\ \A i \in 1 .. N : Has(i, m)
  BY <1>0, <1>9 DEF T
<1>11. ASSUME NEW i \in DOMAIN Ops[c]
       PROVE  CellsIn(Ops[c][i].table, Ops[c][i].cells, Known(m))
  BY <1>0, <1>10, OpsAre DEF CellsIn, Known, RowId, Has
<1> QED
  BY <1>0, <1>8, <1>10, <1>11 DEF Has

-----------------------------------------------------------------------------
(* The union-find *)

\* Every known id leads to the least of its class in one step.
Led(can) ==
  \A r \in DOMAIN can : /\ can[r] \in DOMAIN can /\ can[can[r]] = can[r]
                        /\ ~WireBefore(r, can[r])

CanonIn(can, I) == IsFcn(can) /\ DOMAIN can \subseteq I /\ Led(can)

\* One union leaves a union-find in which every id leads to the least of its class.
LEMMA UniteOne ==
  ASSUME NEW I \in SUBSET RowId, NEW s, CanonIn(s.canon, I), s.displaced \in Seq(I),
         NEW pair \in I \X I
  PROVE  LET v == Unite(s, pair) IN
         /\ v = [canon |-> v.canon, displaced |-> v.displaced]
         /\ CanonIn(v.canon, I) /\ v.displaced \in Seq(I)
<1> DEFINE can == s.canon
           a == pair[1]
           b == pair[2]
           one == Lookup(can, a)
           other == Lookup(can, b)
           low == IF WireBefore(one, other) THEN one ELSE other
           known == DOMAIN can \cup {a, b}
           new == [r \in known |-> IF Lookup(can, r) \in {one, other}
                                   THEN low ELSE Lookup(can, r)]
<1>1. Unite(s, pair) = [canon |-> new,
                        displaced |-> IF one = other THEN s.displaced
                          ELSE Append(s.displaced, IF low = one THEN other ELSE one)]
  BY DEF Unite
<1>2. a \in I /\ b \in I /\ known \subseteq I
  BY DEF CanonIn
<1>3. ASSUME NEW r \in known
      PROVE  /\ Lookup(can, r) \in known /\ Lookup(can, Lookup(can, r)) = Lookup(can, r)
             /\ ~WireBefore(r, Lookup(can, r))
  <2>1. r \in RowId
    BY <1>2
  <2>2. CASE r \in DOMAIN can
    BY <2>2 DEF Lookup, CanonIn, Led
  <2>3. CASE r \notin DOMAIN can
    BY <2>1, <2>3, WireTotal DEF Lookup
  <2> QED
    BY <2>2, <2>3
<1>4. /\ one \in known /\ other \in known /\ Lookup(can, one) = one
      /\ Lookup(can, other) = other /\ low \in {one, other}
      /\ ~WireBefore(one, low) /\ ~WireBefore(other, low)
  <2>1. a \in known /\ b \in known
    OBVIOUS
  <2>2. /\ one \in known /\ other \in known /\ Lookup(can, one) = one
        /\ Lookup(can, other) = other
    BY <1>3, <2>1
  <2>3. one \in RowId /\ other \in RowId
    BY <1>2, <2>2
  <2> QED
    BY <2>2, <2>3, WireTotal
<1> HIDE DEF one, other, low, known
<1>5. DOMAIN new = known /\ IsFcn(new)
      /\ \A r \in known : new[r] = IF Lookup(can, r) \in {one, other}
                                   THEN low ELSE Lookup(can, r)
  BY DEF IsFcn
<1> HIDE DEF new
<1>6. ASSUME NEW r \in known
      PROVE  new[r] \in known /\ new[new[r]] = new[r] /\ ~WireBefore(r, new[r])
  <2>1. CASE Lookup(can, r) \in {one, other}
    <3>1. new[r] = low /\ low \in known /\ Lookup(can, low) \in {one, other}
      BY <1>4, <1>5, <2>1
    <3>2. new[low] = low
      BY <1>5, <3>1
    <3>3. ~WireBefore(r, low)
      <4>1. PICK m : m = Lookup(can, r)
        OBVIOUS
      <4>2. m \in RowId /\ low \in RowId /\ r \in RowId
        BY <1>2, <1>3, <1>4, <4>1
      <4>3. ~WireBefore(r, m) /\ ~WireBefore(m, low)
        BY <1>3, <1>4, <2>1, <4>1
      <4> QED
        BY <4>2, <4>3, WireTotal
    <3> QED
      BY <3>1, <3>2, <3>3
  <2>2. CASE Lookup(can, r) \notin {one, other}
    <3>1. new[r] = Lookup(can, r) /\ Lookup(can, r) \in known
      BY <1>3, <1>5, <2>2
    <3> QED
      BY <1>3, <1>5, <2>2, <3>1
  <2> QED
    BY <2>1, <2>2
<1>7. CanonIn(new, I)
  BY <1>2, <1>5, <1>6 DEF CanonIn, Led
<1>8. one \in I /\ other \in I
  BY <1>2, <1>4
<1>9. PICK x : x = IF low = one THEN other ELSE one
  OBVIOUS
<1>10. x \in I /\ Append(s.displaced, x) \in Seq(I)
  BY <1>8, <1>9
<1>11. PICK q : q = IF one = other THEN s.displaced ELSE Append(s.displaced, x)
  OBVIOUS
<1>12. Unite(s, pair) = [canon |-> new, displaced |-> q] /\ q \in Seq(I)
  BY <1>1, <1>9, <1>10, <1>11
<1> QED
  BY <1>7, <1>12

Classing(I) == [canon : UNION {[D -> D] : D \in SUBSET I}, displaced : Seq(I)]

\* Such a union-find is a function on some set of row ids.
LEMMA CanonIsFcn ==
  ASSUME NEW I, NEW can, CanonIn(can, I)
  PROVE  can \in UNION {[D -> D] : D \in SUBSET I}
<1>1. can \in [DOMAIN can -> DOMAIN can] /\ DOMAIN can \in SUBSET I
  BY DEF CanonIn, Led, IsFcn
<1> QED
  BY <1>1

\* So do all pending unions, one after the other.
LEMMA UniteAll ==
  ASSUME NEW I \in SUBSET RowId, NEW can, CanonIn(can, I), NEW dis \in Seq(I),
         NEW pairs \in Seq(I \X I)
  PROVE  LET v == FoldLeft(Unite, [canon |-> can, displaced |-> dis], pairs) IN
         CanonIn(v.canon, I) /\ v.displaced \in Seq(I)
<1> DEFINE T == {p \in Nat \X Classing(I) : CanonIn(p[2].canon, I)}
           start == [canon |-> can, displaced |-> dis]
<1>0. Len(pairs) \in Nat
  BY SeqIs
<1>1. <<0, start>> \in T
  BY CanonIsFcn DEF Classing
<1>2. ASSUME NEW n \in Nat, n < Len(pairs), NEW acc, <<n, acc>> \in T
      PROVE  <<n + 1, Unite(acc, pairs[n+1])>> \in T
  <2>1. pairs[n+1] \in I \X I /\ CanonIn(acc.canon, I) /\ acc.displaced \in Seq(I)
    BY <1>0, <1>2 DEF Classing
  <2>2. PICK v : v = Unite(acc, pairs[n+1])
    OBVIOUS
  <2>3. /\ v = [canon |-> v.canon, displaced |-> v.displaced]
        /\ CanonIn(v.canon, I) /\ v.displaced \in Seq(I)
    BY <2>1, <2>2, UniteOne
  <2>4. v \in Classing(I)
    BY <2>3, CanonIsFcn DEF Classing
  <2> QED
    BY <2>2, <2>3, <2>4
<1> HIDE DEF T, start
<1>3. <<Len(pairs), Uniting!Fold(start, pairs)>> \in T
  BY <1>1, <1>2, Uniting!FoldInduct
<1>4. PICK v : v = FoldLeft(Unite, start, pairs)
  OBVIOUS
<1>5. <<Len(pairs), v>> \in T
  BY <1>3, <1>4, UniteFold
<1>6. CanonIn(v.canon, I) /\ v.displaced \in Seq(I)
  BY <1>5 DEF T, Classing
<1> QED
  BY <1>4, <1>6 DEF start

\* Canonical ids, and canonical cells, are in the set the ids were in.
LEMMA CanonicalIn ==
  ASSUME NEW I, CanonIn(canon, I), NEW r \in I
  PROVE  Canonical(r) \in I
BY DEF CanonIn, Led, Canonical, Lookup

\* The same of the cells of a row
LEMMA CanonicalCellsIn ==
  ASSUME NEW I, CanonIn(canon, I), NEW t \in Table, NEW cells, CellsIn(t, cells, I)
  PROVE  CellsIn(t, CanonicalCells(t, cells), I)
<1>1. ASSUME NEW k \in Schema[t].ids
      PROVE  k \in DOMAIN cells /\ cells[k] \in I /\ CanonicalCells(t, cells)[k] = Canonical(cells[k])
             /\ DOMAIN CanonicalCells(t, cells) = DOMAIN cells
  BY DEF CellsIn, CanonicalCells
<1>2. \A k \in Schema[t].ids : Canonical(cells[k]) \in I
  BY <1>1, CanonicalIn
<1> QED
  BY <1>1, <1>2 DEF CellsIn

\* w is s after the classes of one and other became one, represented by low.
Moves(s, w, one, other, low) ==
  /\ low \in {one, other} /\ Lookup(s.canon, one) = one /\ Lookup(s.canon, other) = other
  /\ \A r : Lookup(w.canon, r) =
              IF Lookup(s.canon, r) \in {one, other} THEN low ELSE Lookup(s.canon, r)
  /\ w.displaced = IF one = other THEN s.displaced
                   ELSE Append(s.displaced, IF low = one THEN other ELSE one)

\* What one union does to every id: those of the two classes lead to the lesser
\* representative, and the other representative is displaced.
LEMMA UniteMoves ==
  ASSUME NEW I \in SUBSET RowId, NEW s, CanonIn(s.canon, I), NEW pair \in I \X I,
         NEW one, one = Lookup(s.canon, pair[1]), NEW other, other = Lookup(s.canon, pair[2])
  PROVE  \E low : Moves(s, Unite(s, pair), one, other, low)
<1> DEFINE can == s.canon
           known == DOMAIN can \cup {pair[1], pair[2]}
<1>1. PICK low : low = IF WireBefore(one, other) THEN one ELSE other
  OBVIOUS
<1>2. PICK new : new = [r \in known |-> IF Lookup(can, r) \in {one, other}
                                        THEN low ELSE Lookup(can, r)]
  OBVIOUS
<1>3. Unite(s, pair) = [canon |-> new,
                        displaced |-> IF one = other THEN s.displaced
                          ELSE Append(s.displaced, IF low = one THEN other ELSE one)]
  BY <1>1, <1>2 DEF Unite
<1>4. one \in known /\ other \in known /\ Lookup(can, one) = one /\ Lookup(can, other) = other
  BY DEF Lookup, CanonIn, Led
<1>5. ASSUME NEW r
      PROVE  Lookup(new, r) = IF Lookup(can, r) \in {one, other} THEN low ELSE Lookup(can, r)
  <2>1. CASE r \in known
    BY <1>2, <2>1 DEF Lookup
  <2>2. CASE r \notin known
    <3>1. Lookup(new, r) = r /\ Lookup(can, r) = r /\ r \notin {one, other}
      BY <1>2, <1>4, <2>2 DEF Lookup
    <3> QED
      BY <3>1
  <2> QED
    BY <2>1, <2>2
<1>6. low \in {one, other}
  BY <1>1
<1>7. Unite(s, pair).canon = new
      /\ Unite(s, pair).displaced =
           IF one = other THEN s.displaced
           ELSE Append(s.displaced, IF low = one THEN other ELSE one)
  BY <1>3
<1> QED
  BY <1>4, <1>5, <1>6, <1>7 DEF Moves

\* A representative leads to itself.
LEMMA LookupTwice ==
  ASSUME NEW I, NEW can, CanonIn(can, I), NEW r
  PROVE  /\ Lookup(can, Lookup(can, r)) = Lookup(can, r)
         /\ r \in I => Lookup(can, r) \in I
BY DEF Lookup, CanonIn, Led

\* The ids named by staged unions
Ends(uns) == {p[1] : p \in Range(uns)} \cup {p[2] : p \in Range(uns)}

\* All pending unions together: a representative was one before, a former one that is
\* none any more is displaced, and no displaced id is a representative.
LEMMA UniteAllLooks ==
  ASSUME NEW I \in SUBSET RowId, NEW can, CanonIn(can, I), NEW pairs \in Seq(I \X I),
         NEW v, v = FoldLeft(Unite, [canon |-> can, displaced |-> <<>>], pairs)
  PROVE  /\ CanonIn(v.canon, I) /\ v.displaced \in Seq(I)
         /\ \A r \in DOMAIN v.canon :
              v.canon[r] \in {Lookup(can, q) : q \in DOMAIN can \cup Ends(pairs)}
         /\ \A r : Lookup(can, r) = r => Lookup(v.canon, r) = r \/ r \in Range(v.displaced)
         /\ \A r \in Range(v.displaced) : Lookup(v.canon, r) # r
<1> DEFINE reps == {Lookup(can, q) : q \in DOMAIN can \cup Ends(pairs)}
           Good(w) == /\ CanonIn(w.canon, I)
                      /\ \A r \in DOMAIN w.canon \cup Ends(pairs) : Lookup(w.canon, r) \in reps
                      /\ \A r : Lookup(can, r) = r =>
                           Lookup(w.canon, r) = r \/ r \in Range(w.displaced)
                      /\ \A r \in Range(w.displaced) : Lookup(w.canon, r) # r
           T == {p \in Nat \X Classing(I) : Good(p[2])}
           start == [canon |-> can, displaced |-> <<>>]
<1>0. Len(pairs) \in Nat /\ \A i \in 1 .. Len(pairs) : pairs[i] \in Range(pairs)
  BY SeqIs
<1>1. <<0, start>> \in T
  <2>1. start \in Classing(I)
    BY CanonIsFcn DEF Classing
  <2>2. Good(start)
    BY EmptyIsSeq DEF Lookup
  <2> HIDE DEF Good, start
  <2> QED
    BY <2>1, <2>2
<1>2. ASSUME NEW n \in Nat, n < Len(pairs), NEW acc, <<n, acc>> \in T
      PROVE  <<n + 1, Unite(acc, pairs[n+1])>> \in T
  <2>0. PICK pair : pair = pairs[n+1]
    OBVIOUS
  <2>1. /\ pair \in I \X I /\ pair \in Range(pairs)
        /\ Good(acc) /\ acc.displaced \in Seq(I) /\ CanonIn(acc.canon, I)
    <3>1. n + 1 \in 1 .. Len(pairs)
      BY <1>0, <1>2
    <3>2. acc \in Classing(I) /\ Good(acc)
      BY <1>2
    <3>3. pairs[n+1] \in I \X I
      BY <3>1
    <3> QED
      BY <1>0, <2>0, <3>1, <3>2, <3>3 DEF Classing
  <2>2. PICK w : w = Unite(acc, pair)
    OBVIOUS
  <2>3. PICK one, other : one = Lookup(acc.canon, pair[1])
                          /\ other = Lookup(acc.canon, pair[2])
    OBVIOUS
  <2>4. PICK low : Moves(acc, w, one, other, low)
    BY <2>1, <2>2, <2>3, UniteMoves
  <2>5. /\ w = [canon |-> w.canon, displaced |-> w.displaced]
        /\ CanonIn(w.canon, I) /\ w.displaced \in Seq(I)
    BY <2>1, <2>2, UniteOne
  <2>6. w \in Classing(I)
    BY <2>5, CanonIsFcn DEF Classing
  <2>7. DOMAIN w.canon \subseteq DOMAIN acc.canon \cup Ends(pairs)
        /\ one \in reps /\ other \in reps
    <3>1. pair[1] \in Ends(pairs) /\ pair[2] \in Ends(pairs)
      BY <2>1 DEF Ends
    <3>2. DOMAIN w.canon = DOMAIN acc.canon \cup {pair[1], pair[2]}
      BY <2>2 DEF Unite
    <3> QED
      BY <2>1, <2>3, <3>1, <3>2
  <2>8. \A r \in DOMAIN w.canon \cup Ends(pairs) : Lookup(w.canon, r) \in reps
    BY <2>1, <2>4, <2>7 DEF Moves
  <2>9. Range(w.displaced) = Range(acc.displaced)
                               \cup (IF one = other THEN {}
                                     ELSE {IF low = one THEN other ELSE one})
    <3>1. IsSeq(acc.displaced)
      BY <2>1, SeqIs
    <3>2. PICK x : x = IF low = one THEN other ELSE one
      OBVIOUS
    <3>3. w.displaced = IF one = other THEN acc.displaced ELSE Append(acc.displaced, x)
      BY <2>4, <3>2 DEF Moves
    <3> QED
      BY <3>1, <3>2, <3>3, AppendIsSeq
  <2>10. ASSUME NEW r, Lookup(can, r) = r
         PROVE  Lookup(w.canon, r) = r \/ r \in Range(w.displaced)
    <3>1. Lookup(acc.canon, r) = r \/ r \in Range(acc.displaced)
      BY <2>1, <2>10
    <3> QED
      BY <2>4, <2>9, <3>1 DEF Moves
  <2>11. ASSUME NEW r \in Range(w.displaced)
         PROVE  Lookup(w.canon, r) # r
    <3>1. CASE r \in Range(acc.displaced)
      BY <2>1, <2>4, <3>1 DEF Moves
    <3>2. CASE r \notin Range(acc.displaced)
      BY <2>4, <2>9, <2>11, <3>2 DEF Moves
    <3> QED
      BY <3>1, <3>2
  <2>12. Good(w)
    BY <2>5, <2>8, <2>10, <2>11
  <2> HIDE DEF Good
  <2> QED
    BY <2>0, <2>2, <2>6, <2>12
<1> HIDE DEF T, start
<1>3. <<Len(pairs), Uniting!Fold(start, pairs)>> \in T
  BY <1>1, <1>2, Uniting!FoldInduct
<1>4. v = FoldLeft(Unite, start, pairs)
  BY DEF start
<1>5. <<Len(pairs), v>> \in T
  BY <1>3, <1>4, UniteFold
<1>6. v \in Classing(I) /\ Good(v)
  BY <1>5 DEF T
<1>7. \A r \in DOMAIN v.canon : v.canon[r] \in reps
  BY <1>6 DEF Lookup
<1>8. v.displaced \in Seq(I)
  BY <1>6 DEF Classing
<1> QED
  BY <1>6, <1>7, <1>8

\* Unions forget no id.
LEMMA UniteAllKeeps ==
  ASSUME NEW I \in SUBSET RowId, NEW can, CanonIn(can, I), NEW pairs \in Seq(I \X I)
  PROVE  DOMAIN can
           \subseteq DOMAIN FoldLeft(Unite, [canon |-> can, displaced |-> <<>>], pairs).canon
<1> DEFINE start == [canon |-> can, displaced |-> <<>>]
           T == {p \in Nat \X Classing(I) :
                   CanonIn(p[2].canon, I) /\ DOMAIN can \subseteq DOMAIN p[2].canon}
<1>1. <<0, start>> \in T
  <2>1. start \in Classing(I) /\ start.canon = can
    BY CanonIsFcn DEF Classing
  <2> HIDE DEF start
  <2> QED
    BY <2>1
<1>2. ASSUME NEW n \in Nat, n < Len(pairs), NEW acc, <<n, acc>> \in T
      PROVE  <<n + 1, Unite(acc, pairs[n+1])>> \in T
  <2>0. PICK pair : pair = pairs[n+1]
    OBVIOUS
  <2>1. PICK w : w = Unite(acc, pair)
    OBVIOUS
  <2>2. /\ pair \in I \X I /\ acc.displaced \in Seq(I) /\ CanonIn(acc.canon, I)
        /\ DOMAIN can \subseteq DOMAIN acc.canon
    <3>1. Len(pairs) \in Nat /\ n + 1 \in 1 .. Len(pairs)
      BY <1>2
    <3>2. acc \in Classing(I) /\ CanonIn(acc.canon, I) /\ DOMAIN can \subseteq DOMAIN acc.canon
      BY <1>2
    <3> QED
      BY <2>0, <3>1, <3>2 DEF Classing
  <2>3. /\ w = [canon |-> w.canon, displaced |-> w.displaced]
        /\ CanonIn(w.canon, I) /\ w.displaced \in Seq(I)
    <3>1. I \in SUBSET RowId /\ pair \in I \X I
      BY <2>2
    <3> QED
      BY ONLY <2>1, <2>2, <3>1, UniteOne
  <2>4. w \in Classing(I)
    BY <2>3, CanonIsFcn DEF Classing
  <2>5. DOMAIN w.canon = DOMAIN acc.canon \cup {pair[1], pair[2]}
    BY <2>1 DEF Unite
  <2> QED
    BY <2>0, <2>1, <2>2, <2>3, <2>4, <2>5
<1> HIDE DEF T, start
<1>3. <<Len(pairs), Uniting!Fold(start, pairs)>> \in T
  BY <1>1, <1>2, Uniting!FoldInduct
<1>4. PICK v : v = FoldLeft(Unite, start, pairs)
  OBVIOUS
<1>5. <<Len(pairs), v>> \in T
  BY <1>3, <1>4, UniteFold
<1>6. DOMAIN can \subseteq DOMAIN v.canon
  BY <1>5 DEF T
<1> QED
  BY <1>4, <1>6 DEF start

-----------------------------------------------------------------------------
(* Staged updates *)

UpdateIn(t, op, I) ==
  /\ op.kind \in {"add", "delete"} /\ op.id \in I
  /\ op.kind = "add" => CellsIn(t, op.cells, I)

StagedIn(t, s, I) == IsSeq(s) /\ \A op \in Range(s) : UpdateIn(t, op, I)

\* Deletions are of different ids, all in D.
DeletesOnce(s, D) ==
  /\ \A i \in DOMAIN s : s[i].kind = "delete" => s[i].id \in D
  /\ \A i, j \in DOMAIN s :
       s[i].kind = "delete" /\ s[j].kind = "delete" /\ s[i].id = s[j].id => i = j

\* A commit stages insertions only.
LEMMA StagedOpsIn ==
  ASSUME NEW c \in Commit, NEW t \in Table, NEW I,
         \A i \in DOMAIN Ops[c] : /\ <<c, i>> \in I
                                  /\ CellsIn(Ops[c][i].table, Ops[c][i].cells, I)
  PROVE  LET s == StagedOps(c, t) IN
         /\ StagedIn(t, s, I) /\ \A i \in DOMAIN s : s[i].kind = "add"
         /\ s # <<>> => t \in {Ops[c][i].table : i \in DOMAIN Ops[c]}
<1> DEFINE S == {i \in DOMAIN Ops[c] : Ops[c][i].table = t}
           at == Ascending(S)
           n == Cardinality(S)
           U == {Add(<<c, i>>, Ops[c][i].cells) : i \in S}
<1>1. S \in SUBSET Nat /\ IsFiniteSet(S)
  <2>1. DOMAIN Ops[c] = 1 .. Len(Ops[c]) /\ Len(Ops[c]) \in Nat
    BY OpsAre
  <2>2. IsFiniteSet(1 .. Len(Ops[c]))
    BY <2>1, FS_Interval
  <2> QED
    BY <2>1, <2>2, FS_Subset
<1>2. n \in Nat /\ at \in [1 .. n -> S]
  BY <1>1, ListAscending
<1>3. PICK s : s = StagedOps(c, t)
  OBVIOUS
<1>4. s = [k \in DOMAIN at |-> Add(<<c, at[k]>>, Ops[c][at[k]].cells)]
  BY <1>3 DEF StagedOps
<1> HIDE DEF at, n
<1>5. s \in [1 .. n -> U]
  BY <1>2, <1>4
<1>6. s \in Seq(U) /\ IsSeq(s) /\ Range(s) \subseteq U /\ DOMAIN s = 1 .. n
  <2>1. s \in Seq(U) /\ DOMAIN s = 1 .. n
    BY <1>2, <1>5, ListIsSeq
  <2> HIDE DEF U
  <2> QED
    BY <2>1, SeqIs
<1>7. \A op \in U : op.kind = "add" /\ UpdateIn(t, op, I)
  BY DEF Add, UpdateIn
<1>8. \A i \in DOMAIN s : s[i].kind = "add"
  BY <1>5, <1>6, <1>7
<1>9. s # <<>> => t \in {Ops[c][i].table : i \in DOMAIN Ops[c]}
  <2>1. ASSUME S = {} PROVE s = <<>>
    <3>1. \A i \in 1 .. n : FALSE
      BY <1>5, <2>1
    <3>2. n = 0
      BY <1>2, <3>1
    <3>3. Len(s) = 0
      BY <1>2, <1>5, <3>2
    <3> QED
      BY <1>6, <3>3, EmptySeq
  <2> QED
    BY <2>1
<1> QED
  BY <1>3, <1>6, <1>7, <1>8, <1>9 DEF StagedIn

\* Deletions of different rows stay so in a concatenation.
LEMMA DeletesConcat ==
  ASSUME NEW s, IsSeq(s), NEW u, IsSeq(u), NEW D, NEW r, r \notin D,
         DeletesOnce(s, D), DeletesOnce(u, {r})
  PROVE  DeletesOnce(s \o u, D \cup {r})
<1>1. PICK v : v = s \o u
  OBVIOUS
<1>2. /\ Len(s) \in Nat /\ Len(u) \in Nat
      /\ DOMAIN s = 1 .. Len(s) /\ DOMAIN u = 1 .. Len(u)
  BY SeqIs DEF IsSeq
<1>3. IsSeq(v)
  BY <1>1, ConcatIsSeq
<1>4. /\ Len(v) = Len(s) + Len(u)
      /\ \A i \in 1 .. Len(v) : v[i] = IF i <= Len(s) THEN s[i] ELSE u[i - Len(s)]
  <2>1. s \in Seq(Range(s) \cup Range(u)) /\ u \in Seq(Range(s) \cup Range(u))
    BY SeqMonotonic DEF IsSeq
  <2> QED
    BY <1>1, <2>1, ConcatProperties
<1>5. DOMAIN v = 1 .. Len(s) + Len(u)
  BY <1>3, <1>4, SeqIs DEF IsSeq
<1>6. ASSUME NEW i \in DOMAIN v
      PROVE  \/ i \in DOMAIN s /\ v[i] = s[i]
             \/ i - Len(s) \in DOMAIN u /\ v[i] = u[i - Len(s)]
  BY <1>2, <1>4, <1>5
<1>7. ASSUME NEW i \in DOMAIN v, v[i].kind = "delete"
      PROVE  \/ i \in DOMAIN s /\ v[i] = s[i] /\ v[i].id \in D
             \/ i - Len(s) \in DOMAIN u /\ v[i] = u[i - Len(s)] /\ v[i].id = r
  BY <1>6, <1>7 DEF DeletesOnce
<1>8. ASSUME NEW i \in DOMAIN v, NEW j \in DOMAIN v,
             v[i].kind = "delete", v[j].kind = "delete", v[i].id = v[j].id
      PROVE  i = j
  <2>1. CASE i \in DOMAIN s /\ v[i] = s[i] /\ v[i].id \in D
    <3>1. j \in DOMAIN s /\ v[j] = s[j]
      BY <1>7, <1>8, <2>1
    <3> QED
      BY <1>8, <2>1, <3>1 DEF DeletesOnce
  <2>2. CASE i - Len(s) \in DOMAIN u /\ v[i] = u[i - Len(s)] /\ v[i].id = r
    <3>1. j - Len(s) \in DOMAIN u /\ v[j] = u[j - Len(s)]
      BY <1>7, <1>8, <2>2
    <3>2. i - Len(s) = j - Len(s)
      BY <1>8, <2>2, <3>1 DEF DeletesOnce
    <3> QED
      BY <1>2, <1>5, <3>2
  <2> QED
    BY <1>7, <1>8, <2>1, <2>2
<1> QED
  BY <1>1, <1>7, <1>8 DEF DeletesOnce

\* Rewriting one row deletes that row, once.
LEMMA RewriteIn ==
  ASSUME NEW I, NEW t \in Table, TableIn(t, rows[t], I), CanonIn(canon, I),
         NEW r, r \in DOMAIN rows[t]
  PROVE  StagedIn(t, Rewrite(t, r), I) /\ DeletesOnce(Rewrite(t, r), {r})
<1>1. PICK d : d = Delete(r)
  OBVIOUS
<1>2. PICK a : a = Add(Canonical(r), CanonicalCells(t, rows[t][r]))
  OBVIOUS
<1>3. d.kind = "delete" /\ d.id = r /\ UpdateIn(t, d, I)
  BY <1>1 DEF Delete, UpdateIn, TableIn
<1>4. a.kind = "add" /\ UpdateIn(t, a, I)
  <2>1. Canonical(r) \in I /\ CellsIn(t, CanonicalCells(t, rows[t][r]), I)
    BY CanonicalIn, CanonicalCellsIn DEF TableIn
  <2> QED
    BY <1>2, <2>1 DEF Add, UpdateIn
<1>5. CASE Rewrite(t, r) = <<d>>
  BY <1>3, <1>5, SingleIsSeq DEF StagedIn, DeletesOnce
<1>6. CASE Rewrite(t, r) = <<d, a>>
  <2>1. PICK s : s = <<d, a>>
    OBVIOUS
  <2>2. s \in Seq({d, a}) /\ Len(s) = 2 /\ s[1] = d /\ s[2] = a
    BY <2>1
  <2>3. IsSeq(s) /\ Range(s) \subseteq {d, a} /\ DOMAIN s = 1 .. 2
    BY <2>2, SeqIs
  <2>4. DeletesOnce(s, {r})
    <3>1. \A i \in DOMAIN s : s[i].kind = "delete" => i = 1
      BY <1>4, <2>2, <2>3
    <3> QED
      BY <1>3, <2>2, <3>1 DEF DeletesOnce
  <2> QED
    BY <1>3, <1>4, <1>6, <2>1, <2>3, <2>4 DEF StagedIn
<1>7. Rewrite(t, r) = <<d>> \/ Rewrite(t, r) = <<d, a>>
  BY <1>1, <1>2 DEF Rewrite
<1> QED
  BY <1>5, <1>6, <1>7

\* Rebuilding stages well-formed updates, and deletes each affected row once.
LEMMA RebuildIn ==
  ASSUME NEW I \in SUBSET RowId, DictOK(dict), CanonIn(canon, I),
         NEW t \in Table, TableIn(t, rows[t], I)
  PROVE  StagedIn(t, RebuildOps(t), I) /\ DeletesOnce(RebuildOps(t), DOMAIN rows[t])
<1> DEFINE S == Affected(t)
           order == InPackedOrder(S)
           n == Cardinality(S)
           s == [i \in 1 .. n |-> Rewrite(t, order[i])]
           U == UNION {Range(Rewrite(t, r)) : r \in S}
           Done(k) == {order[i] : i \in {j \in 1 .. n : j <= k}}
           T == {p \in Nat \X Seq(U) : DeletesOnce(p[2], Done(p[1]))}
<1>1. S \in SUBSET DOMAIN rows[t] /\ S \in SUBSET RowId /\ IsFiniteSet(S)
  <2>1. S \in SUBSET DOMAIN rows[t]
    BY DEF Affected
  <2> HIDE DEF S
  <2> QED
    BY <2>1, FS_Subset DEF TableIn
<1>2. n \in Nat /\ order \in [1 .. n -> S] /\ \A i, j \in 1 .. n : order[i] = order[j] => i = j
  <2> HIDE DEF S
  <2> QED
    BY <1>1, ListInPackedOrder
<1>3. RebuildOps(t) = FoldLeft(Concat, <<>>, s)
  BY <1>2 DEF RebuildOps
<1> HIDE DEF S, order, n
<1>4. ASSUME NEW r \in S
      PROVE  /\ StagedIn(t, Rewrite(t, r), I) /\ DeletesOnce(Rewrite(t, r), {r})
             /\ Rewrite(t, r) \in Seq(U)
  <2>1. StagedIn(t, Rewrite(t, r), I) /\ DeletesOnce(Rewrite(t, r), {r})
    BY <1>1, RewriteIn
  <2>2. Range(Rewrite(t, r)) \subseteq U
    OBVIOUS
  <2> HIDE DEF U
  <2> QED
    BY <2>1, <2>2, SeqMonotonic DEF StagedIn, IsSeq
<1>5. \A op \in U : UpdateIn(t, op, I)
  BY <1>4 DEF StagedIn
<1> HIDE DEF U
<1>6. s \in [1 .. n -> Seq(U)]
  BY <1>2, <1>4
<1>7. s \in Seq(Seq(U)) /\ Len(s) = n /\ \A i \in 1 .. n : s[i] = Rewrite(t, order[i])
  BY <1>2, <1>6, ListIsSeq
<1> HIDE DEF s, Done
<1>8. <<0, <<>> >> \in T
  <2>1. <<>> \in Seq(U) /\ DeletesOnce(<<>>, Done(0))
    BY EmptyIsSeq DEF DeletesOnce
  <2> QED
    BY <2>1
<1>9. ASSUME NEW k \in Nat, k < Len(s), NEW acc, <<k, acc>> \in T
      PROVE  <<k + 1, Concat(acc, s[k+1])>> \in T
  <2>1. acc \in Seq(U) /\ DeletesOnce(acc, Done(k)) /\ k + 1 \in 1 .. n
    BY <1>2, <1>7, <1>9
  <2>2. PICK r, u : r = order[k+1] /\ u = s[k+1]
    OBVIOUS
  <2>3. r \in S /\ u \in Seq(U) /\ DeletesOnce(u, {r})
    <3>1. r \in S /\ u = Rewrite(t, r)
      BY <1>2, <1>7, <2>1, <2>2
    <3> QED
      BY <1>4, <3>1
  <2>4. r \notin Done(k)
    BY <1>2, <2>1, <2>2 DEF Done
  <2>5. Done(k + 1) = Done(k) \cup {r}
    <3>1. ASSUME NEW j \in 1 .. n PROVE j <= k + 1 <=> j <= k \/ j = k + 1
      BY <1>2
    <3> QED
      BY <2>1, <2>2, <3>1 DEF Done
  <2>6. PICK v : v = acc \o u
    OBVIOUS
  <2>7. v \in Seq(U) /\ DeletesOnce(v, Done(k) \cup {r})
    <3>1. IsSeq(acc) /\ IsSeq(u)
      BY <2>1, <2>3, SeqIs
    <3>2. PICK D : D = Done(k)
      OBVIOUS
    <3>3. r \notin D /\ DeletesOnce(acc, D) /\ DeletesOnce(u, {r})
      BY <2>1, <2>3, <2>4, <3>2
    <3>4. DeletesOnce(acc \o u, D \cup {r})
      BY <3>1, <3>3, DeletesConcat
    <3>5. v \in Seq(U)
      BY <2>1, <2>3, <2>6
    <3> QED
      BY <2>6, <3>2, <3>4, <3>5
  <2>8. <<k + 1, v>> \in T
    <3>1. DeletesOnce(v, Done(k + 1)) /\ k + 1 \in Nat
      BY <2>5, <2>7 DEF DeletesOnce
    <3> QED
      BY <2>7, <3>1
  <2>9. Concat(acc, s[k+1]) = v
    BY <2>2, <2>6 DEF Concat
  <2> QED
    BY <2>8, <2>9
<1> HIDE DEF T
<1>10. <<Len(s), Joining!Fold(<<>>, s)>> \in T
  BY <1>7, <1>8, <1>9, Joining!FoldInduct
<1>11. PICK v : v = RebuildOps(t)
  OBVIOUS
<1>12. <<n, v>> \in T
  BY <1>3, <1>7, <1>10, <1>11, JoinFold
<1>13. v \in Seq(U) /\ DeletesOnce(v, Done(n))
  BY <1>12 DEF T
<1>14. Done(n) \subseteq DOMAIN rows[t]
  BY <1>1, <1>2 DEF Done
<1>15. DeletesOnce(v, DOMAIN rows[t])
  BY <1>13, <1>14 DEF DeletesOnce
<1>16. IsSeq(v) /\ Range(v) \subseteq U
  BY <1>13, SeqIs
<1> QED
  BY <1>5, <1>11, <1>15, <1>16 DEF StagedIn

\* Where the updates of a concatenation come from
LEMMA ConcatPlaces ==
  ASSUME NEW s, IsSeq(s), NEW u, IsSeq(u), NEW v, v = s \o u
  PROVE  /\ IsSeq(v) /\ Len(s) \in Nat
         /\ \A i \in DOMAIN s : i \in Int /\ i <= Len(s) /\ i \in DOMAIN v /\ v[i] = s[i]
         /\ \A i \in DOMAIN u :
              i \in Int /\ 1 <= i /\ Len(s) + i \in DOMAIN v /\ v[Len(s) + i] = u[i]
         /\ \A i \in DOMAIN v :
              i \in Int /\ (i \in DOMAIN s \/ (i > Len(s) /\ i - Len(s) \in DOMAIN u
                                                /\ v[i] = u[i - Len(s)]))
<1>2. /\ Len(s) \in Nat /\ Len(u) \in Nat
      /\ DOMAIN s = 1 .. Len(s) /\ DOMAIN u = 1 .. Len(u)
  BY SeqIs DEF IsSeq
<1>3. IsSeq(v)
  BY ConcatIsSeq
<1>4. /\ Len(v) = Len(s) + Len(u)
      /\ \A i \in 1 .. Len(v) : v[i] = IF i <= Len(s) THEN s[i] ELSE u[i - Len(s)]
  <2>1. s \in Seq(Range(s) \cup Range(u)) /\ u \in Seq(Range(s) \cup Range(u))
    BY SeqMonotonic DEF IsSeq
  <2> QED
    BY <2>1, ConcatProperties
<1>5. DOMAIN v = 1 .. Len(s) + Len(u)
  BY <1>3, <1>4, SeqIs DEF IsSeq
<1>6. ASSUME NEW i \in DOMAIN s PROVE i \in Int /\ i <= Len(s) /\ i \in DOMAIN v /\ v[i] = s[i]
  BY <1>2, <1>4, <1>5
<1>7. ASSUME NEW i \in DOMAIN u
      PROVE  i \in Int /\ 1 <= i /\ Len(s) + i \in DOMAIN v /\ v[Len(s) + i] = u[i]
  BY <1>2, <1>4, <1>5
<1>8. ASSUME NEW i \in DOMAIN v
      PROVE  i \in Int /\ (i \in DOMAIN s \/ (i > Len(s) /\ i - Len(s) \in DOMAIN u
                                               /\ v[i] = u[i - Len(s)]))
  BY <1>2, <1>4, <1>5
<1> QED
  BY <1>2, <1>3, <1>6, <1>7, <1>8

\* The rewriting s of the rows `held': a row whose id is canonical is deleted, then added
\* with canonical cells; any other is deleted only.
Rewrites(t, s, held) ==
  /\ \A i \in DOMAIN s : s[i].id \in held
  /\ \A i \in DOMAIN s : s[i].kind = "add" =>
       /\ Canonical(s[i].id) = s[i].id
       /\ s[i].cells = CanonicalCells(t, rows[t][s[i].id])
       /\ \E j \in DOMAIN s : j < i /\ s[j].kind = "delete" /\ s[j].id = s[i].id
  /\ \A i, j \in DOMAIN s : s[i].kind = "add" /\ s[j].kind = "add" /\ s[i].id = s[j].id => i = j
  /\ \A i \in DOMAIN s : s[i].kind = "delete" =>
       \/ Canonical(s[i].id) # s[i].id
       \/ \E j \in DOMAIN s : i < j /\ s[j].kind = "add" /\ s[j].id = s[i].id
  /\ \A r \in held : \E i \in DOMAIN s : s[i].kind = "delete" /\ s[i].id = r

\* Rewritings of different rows, one after the other
LEMMA RewritesConcat ==
  ASSUME NEW t, NEW s, IsSeq(s), NEW u, IsSeq(u), NEW held, NEW r, r \notin held,
         Rewrites(t, s, held), Rewrites(t, u, {r})
  PROVE  Rewrites(t, s \o u, held \cup {r})
<1>1. PICK v, n : v = s \o u /\ n = Len(s)
  OBVIOUS
<1>2. /\ n \in Nat
      /\ \A i \in DOMAIN s : i \in Int /\ i <= n /\ i \in DOMAIN v /\ v[i] = s[i]
      /\ \A i \in DOMAIN u : i \in Int /\ 1 <= i /\ n + i \in DOMAIN v /\ v[n + i] = u[i]
      /\ \A i \in DOMAIN v :
           i \in Int /\ (i \in DOMAIN s \/ (i > n /\ i - n \in DOMAIN u /\ v[i] = u[i - n]))
  BY <1>1, ConcatPlaces
<1>3. ASSUME NEW i \in DOMAIN v
      PROVE  \/ i \in DOMAIN s /\ v[i] = s[i] /\ v[i].id \in held
             \/ i - n \in DOMAIN u /\ v[i] = u[i - n] /\ v[i].id = r
  BY <1>2 DEF Rewrites
<1>4. ASSUME NEW i \in DOMAIN v, v[i].kind = "add"
      PROVE  /\ Canonical(v[i].id) = v[i].id
             /\ v[i].cells = CanonicalCells(t, rows[t][v[i].id])
             /\ \E j \in DOMAIN v : j < i /\ v[j].kind = "delete" /\ v[j].id = v[i].id
  <2>1. CASE i \in DOMAIN s /\ v[i] = s[i]
    <3>1. PICK j \in DOMAIN s : j < i /\ s[j].kind = "delete" /\ s[j].id = s[i].id
      BY <1>4, <2>1 DEF Rewrites
    <3>2. j \in DOMAIN v /\ v[j] = s[j]
      BY <1>2
    <3> QED
      BY <1>4, <2>1, <3>1, <3>2 DEF Rewrites
  <2>2. CASE i - n \in DOMAIN u /\ v[i] = u[i - n]
    <3>1. PICK j \in DOMAIN u : j < i - n /\ u[j].kind = "delete" /\ u[j].id = u[i - n].id
      BY <1>4, <2>2 DEF Rewrites
    <3>2. n + j \in DOMAIN v /\ v[n + j] = u[j] /\ n + j < i
      BY <1>2, <3>1
    <3>3. v[n + j].kind = "delete" /\ v[n + j].id = v[i].id
      BY <2>2, <3>1, <3>2
    <3> QED
      BY <1>4, <2>2, <3>2, <3>3 DEF Rewrites
  <2> QED
    BY <1>3, <2>1, <2>2
<1>5. ASSUME NEW i \in DOMAIN v, NEW j \in DOMAIN v,
             v[i].kind = "add", v[j].kind = "add", v[i].id = v[j].id
      PROVE  i = j
  <2>1. CASE i \in DOMAIN s /\ v[i] = s[i] /\ v[i].id \in held
    <3>1. j \in DOMAIN s /\ v[j] = s[j]
      BY <1>3, <1>5, <2>1
    <3> QED
      BY <1>5, <2>1, <3>1 DEF Rewrites
  <2>2. CASE i - n \in DOMAIN u /\ v[i] = u[i - n] /\ v[i].id = r
    <3>1. j - n \in DOMAIN u /\ v[j] = u[j - n]
      BY <1>3, <1>5, <2>2
    <3>2. i - n = j - n
      BY <1>5, <2>2, <3>1 DEF Rewrites
    <3> QED
      BY <1>2, <3>2
  <2> QED
    BY <1>3, <2>1, <2>2
<1>6. ASSUME NEW i \in DOMAIN v, v[i].kind = "delete"
      PROVE  \/ Canonical(v[i].id) # v[i].id
             \/ \E j \in DOMAIN v : i < j /\ v[j].kind = "add" /\ v[j].id = v[i].id
  <2> SUFFICES ASSUME Canonical(v[i].id) = v[i].id
               PROVE  \E j \in DOMAIN v : i < j /\ v[j].kind = "add" /\ v[j].id = v[i].id
    OBVIOUS
  <2>1. CASE i \in DOMAIN s /\ v[i] = s[i]
    <3>1. PICK j \in DOMAIN s : i < j /\ s[j].kind = "add" /\ s[j].id = s[i].id
      BY <1>6, <2>1 DEF Rewrites
    <3>2. j \in DOMAIN v /\ v[j] = s[j]
      BY <1>2
    <3> QED
      BY <2>1, <3>1, <3>2
  <2>2. CASE i - n \in DOMAIN u /\ v[i] = u[i - n]
    <3>1. PICK j \in DOMAIN u : i - n < j /\ u[j].kind = "add" /\ u[j].id = u[i - n].id
      BY <1>6, <2>2 DEF Rewrites
    <3>2. n + j \in DOMAIN v /\ v[n + j] = u[j] /\ i < n + j
      BY <1>2, <3>1
    <3> QED
      BY <2>2, <3>1, <3>2
  <2> QED
    BY <1>3, <2>1, <2>2
<1>7. ASSUME NEW q \in held \cup {r}
      PROVE  \E i \in DOMAIN v : v[i].kind = "delete" /\ v[i].id = q
  <2>1. CASE q \in held
    BY <1>2, <2>1 DEF Rewrites
  <2>2. CASE q = r
    <3>1. PICK i \in DOMAIN u : u[i].kind = "delete" /\ u[i].id = r
      BY DEF Rewrites
    <3>2. n + i \in DOMAIN v /\ v[n + i] = u[i]
      BY <1>2
    <3> QED
      BY <2>2, <3>1, <3>2
  <2> QED
    BY <2>1, <2>2
<1>8. \A i \in DOMAIN v : v[i].id \in held \cup {r}
  BY <1>3
<1>9. Rewrites(t, v, held \cup {r})
  BY <1>4, <1>5, <1>6, <1>7, <1>8 DEF Rewrites
<1> QED
  BY <1>1, <1>9

\* A row whose id is displaced moves onto a row that is stored.
MovesOnto(t) ==
  \A r \in DOMAIN rows[t] :
    /\ r \in Range(displaced) => Canonical(r) # r /\ Canonical(r) \in DOMAIN rows[t]
    /\ r \notin Range(displaced) => Canonical(r) = r

\* Rewriting one row
LEMMA RewriteRewrites ==
  ASSUME NEW t \in Table, MovesOnto(t), NEW r, r \in DOMAIN rows[t]
  PROVE  Rewrites(t, Rewrite(t, r), {r})
<1>1. PICK d, a : d = Delete(r) /\ a = Add(r, CanonicalCells(t, rows[t][r]))
  OBVIOUS
<1>2. d.kind = "delete" /\ d.id = r /\ a.kind = "add" /\ a.id = r
      /\ a.cells = CanonicalCells(t, rows[t][r])
  BY <1>1 DEF Delete, Add
<1>3. CASE r \in Range(displaced)
  <2>1. Rewrite(t, r) = <<d>> /\ Canonical(r) # r
    BY <1>1, <1>3 DEF Rewrite, MovesOnto
  <2>2. PICK s : s = <<d>>
    OBVIOUS
  <2>3. DOMAIN s = {1} /\ s[1] = d
    BY <2>2, SingleIsSeq
  <2>4. Rewrites(t, s, {r})
    BY <1>2, <2>1, <2>3 DEF Rewrites
  <2> QED
    BY <2>1, <2>2, <2>4
<1>4. CASE r \notin Range(displaced)
  <2>1. Rewrite(t, r) = <<d, a>> /\ Canonical(r) = r
    BY <1>1, <1>4 DEF Rewrite, MovesOnto
  <2>2. PICK s : s = <<d, a>>
    OBVIOUS
  <2>3. s[1] = d /\ s[2] = a /\ DOMAIN s = 1 .. 2
    BY <2>2
  <2>4. 1 \in DOMAIN s /\ 2 \in DOMAIN s /\ \A i \in DOMAIN s : i = 1 \/ i = 2
    BY <2>3
  <2>5. /\ \A i \in DOMAIN s : s[i].id = r
        /\ \A i \in DOMAIN s : s[i].kind = "add" => i = 2
        /\ \A i \in DOMAIN s : s[i].kind = "delete" => i = 1
    BY <1>2, <2>3, <2>4
  <2>6. 1 < 2
    OBVIOUS
  <2>7. Rewrites(t, s, {r})
    BY <1>2, <2>1, <2>3, <2>4, <2>5, <2>6 DEF Rewrites
  <2> QED
    BY <2>1, <2>2, <2>7
<1> QED
  BY <1>3, <1>4

\* Rebuilding rewrites the affected rows.
LEMMA RebuildRewrites ==
  ASSUME NEW I \in SUBSET RowId, DictOK(dict), CanonIn(canon, I),
         NEW t \in Table, TableIn(t, rows[t], I), MovesOnto(t)
  PROVE  Rewrites(t, RebuildOps(t), Affected(t))
<1> DEFINE S == Affected(t)
           order == InPackedOrder(S)
           n == Cardinality(S)
           s == [i \in 1 .. n |-> Rewrite(t, order[i])]
           U == UNION {Range(Rewrite(t, r)) : r \in S}
           Done(k) == {order[i] : i \in {j \in 1 .. n : j <= k}}
           T == {p \in Nat \X Seq(U) : Rewrites(t, p[2], Done(p[1]))}
<1>1. S \in SUBSET DOMAIN rows[t] /\ S \in SUBSET RowId /\ IsFiniteSet(S)
  <2>1. S \in SUBSET DOMAIN rows[t]
    BY DEF Affected
  <2> HIDE DEF S
  <2> QED
    BY <2>1, FS_Subset DEF TableIn
<1>2. n \in Nat /\ order \in [1 .. n -> S] /\ \A i, j \in 1 .. n : order[i] = order[j] => i = j
  <2> HIDE DEF S
  <2> QED
    BY <1>1, ListInPackedOrder
<1>3. RebuildOps(t) = FoldLeft(Concat, <<>>, s)
  BY <1>2 DEF RebuildOps
<1> HIDE DEF S, order, n
<1>4. ASSUME NEW r \in S
      PROVE  Rewrites(t, Rewrite(t, r), {r}) /\ Rewrite(t, r) \in Seq(U)
  <2>1. IsSeq(Rewrite(t, r)) /\ Rewrites(t, Rewrite(t, r), {r})
    BY <1>1, RewriteIn, RewriteRewrites DEF StagedIn
  <2>2. Range(Rewrite(t, r)) \subseteq U
    OBVIOUS
  <2> HIDE DEF U
  <2> QED
    BY <2>1, <2>2, SeqMonotonic DEF IsSeq
<1> HIDE DEF U
<1>6. s \in [1 .. n -> Seq(U)]
  BY <1>2, <1>4
<1>7. s \in Seq(Seq(U)) /\ Len(s) = n /\ \A i \in 1 .. n : s[i] = Rewrite(t, order[i])
  BY <1>2, <1>6, ListIsSeq
<1> HIDE DEF s, Done
<1>8. <<0, <<>> >> \in T
  <2>1. <<>> \in Seq(U) /\ Done(0) = {}
    BY <1>2 DEF Done
  <2>2. Rewrites(t, <<>>, {})
    BY EmptyIsSeq DEF Rewrites
  <2> QED
    BY <2>1, <2>2
<1>9. ASSUME NEW k \in Nat, k < Len(s), NEW acc, <<k, acc>> \in T
      PROVE  <<k + 1, Concat(acc, s[k+1])>> \in T
  <2>1. acc \in Seq(U) /\ Rewrites(t, acc, Done(k)) /\ k + 1 \in 1 .. n
    BY <1>2, <1>7, <1>9
  <2>2. PICK r, u : r = order[k+1] /\ u = s[k+1]
    OBVIOUS
  <2>3. r \in S /\ u \in Seq(U) /\ Rewrites(t, u, {r})
    <3>1. r \in S /\ u = Rewrite(t, r)
      BY <1>2, <1>7, <2>1, <2>2
    <3> QED
      BY <1>4, <3>1
  <2>4. r \notin Done(k)
    BY <1>2, <2>1, <2>2 DEF Done
  <2>5. Done(k + 1) = Done(k) \cup {r}
    <3>1. ASSUME NEW j \in 1 .. n PROVE j <= k + 1 <=> j <= k \/ j = k + 1
      BY <1>2
    <3> QED
      BY <2>1, <2>2, <3>1 DEF Done
  <2>6. PICK v : v = acc \o u
    OBVIOUS
  <2>7. v \in Seq(U) /\ Rewrites(t, v, Done(k) \cup {r})
    <3>1. IsSeq(acc) /\ IsSeq(u)
      BY <2>1, <2>3, SeqIs
    <3> QED
      BY <2>1, <2>3, <2>4, <2>6, <3>1, RewritesConcat
  <2>8. <<k + 1, v>> \in T
    <3>1. PICK m, H : m = k + 1 /\ H = Done(k) \cup {r}
      OBVIOUS
    <3>2. m \in Nat /\ Done(m) = H /\ Rewrites(t, v, H)
      BY <2>5, <2>7, <3>1
    <3>3. <<m, v>> \in T
      BY <2>7, <3>2
    <3> QED
      BY <3>1, <3>3
  <2>9. Concat(acc, s[k+1]) = v
    BY <2>2, <2>6 DEF Concat
  <2> QED
    BY <2>8, <2>9
<1> HIDE DEF T
<1>10. <<Len(s), Joining!Fold(<<>>, s)>> \in T
  BY <1>7, <1>8, <1>9, Joining!FoldInduct
<1>11. PICK v : v = RebuildOps(t)
  OBVIOUS
<1>12. <<n, v>> \in T
  BY <1>3, <1>7, <1>10, <1>11, JoinFold
<1>13. Rewrites(t, v, Done(n))
  BY <1>12 DEF T
<1>14. Done(n) = S
  <2>1. \A x \in S : \E i \in 1 .. n : order[i] = x
    <3>1. order = InPackedOrder(S)
      BY DEF order
    <3> QED
      BY <1>1, <1>2, <3>1, ListInPackedOrder DEF n
  <2> QED
    BY <1>2, <2>1 DEF Done
<1>15. Rewrites(t, v, S)
  BY <1>13, <1>14
<1> QED
  BY <1>11, <1>15 DEF S

-----------------------------------------------------------------------------
(* Z-sets *)

\* A row as coln-query gets it: table, id, cells
FactIn(x, I) ==
  x = <<x[1], x[2], x[3]>> /\ x[1] \in Table /\ x[2] \in I /\ CellsIn(x[1], x[3], I)

ZsetIn(z, I) ==
  /\ IsFcn(z) /\ IsFiniteSet(DOMAIN z)
  /\ \A x \in DOMAIN z : z[x] \in Int /\ z[x] # 0 /\ FactIn(x, I)

\* The empty Z-set gives every row the weight zero.
LEMMA EmptyZset ==
  ASSUME NEW I
  PROVE  ZsetIn(EmptyFun, I) /\ \A x : Weight(EmptyFun, x) = 0
<1>1. DOMAIN EmptyFun = {} /\ IsFcn(EmptyFun)
  <2>1. DOMAIN <<>> = {} /\ <<>> = [x \in {} |-> <<>>[x]]
    BY EmptyIsSeq
  <2> QED
    BY <2>1 DEF EmptyFun, IsFcn
<1> QED
  BY <1>1, FS_EmptySet DEF ZsetIn, Weight

\* A sum of Z-sets is a Z-set, and adds the weights.
LEMMA SumIn ==
  ASSUME NEW I, NEW z, ZsetIn(z, I), NEW w, ZsetIn(w, I)
  PROVE  /\ ZsetIn(ZSum(z, w), I)
         /\ \A x : /\ Weight(z, x) \in Int /\ Weight(w, x) \in Int
                   /\ Weight(ZSum(z, w), x) = Weight(z, x) + Weight(w, x)
<1> DEFINE v == ZSum(z, w)
           D == {x \in DOMAIN z \cup DOMAIN w : Weight(z, x) + Weight(w, x) # 0}
<1>1. \A x : Weight(z, x) \in Int /\ Weight(w, x) \in Int
  BY DEF ZsetIn, Weight
<1>2. v = [x \in D |-> Weight(z, x) + Weight(w, x)]
  BY DEF ZSum
<1>3. IsFcn(v) /\ DOMAIN v = D /\ \A x \in D : v[x] = Weight(z, x) + Weight(w, x)
  BY <1>2 DEF IsFcn
<1> HIDE DEF v
<1>4. IsFiniteSet(D)
  <2>1. IsFiniteSet(DOMAIN z \cup DOMAIN w) /\ D \in SUBSET (DOMAIN z \cup DOMAIN w)
    BY FS_Union DEF ZsetIn
  <2> HIDE DEF D
  <2> QED
    BY <2>1, FS_Subset
<1>5. \A x \in D : v[x] \in Int /\ v[x] # 0 /\ FactIn(x, I)
  BY <1>1, <1>3 DEF ZsetIn
<1>6. ASSUME NEW x PROVE Weight(v, x) = Weight(z, x) + Weight(w, x)
  <2>1. CASE x \in D
    BY <1>3, <2>1 DEF Weight
  <2>2. CASE x \notin D
    <3>1. Weight(v, x) = 0
      BY <1>3, <2>2 DEF Weight
    <3>2. CASE x \in DOMAIN z \cup DOMAIN w
      BY <2>2, <3>1, <3>2
    <3>3. CASE x \notin DOMAIN z \cup DOMAIN w
      BY <3>1, <3>3 DEF Weight
    <3> QED
      BY <3>2, <3>3
  <2> QED
    BY <2>1, <2>2
<1> HIDE DEF D
<1>7. ZsetIn(v, I)
  BY <1>3, <1>4, <1>5 DEF ZsetIn
<1> QED
  BY <1>1, <1>6, <1>7 DEF v

\* So is a sum of any number of them.
LEMMA SumAllIn ==
  ASSUME NEW I, NEW S, \A z \in S : ZsetIn(z, I), NEW s \in Seq(S),
         NEW base, ZsetIn(base, I)
  PROVE  ZsetIn(Summing!Fold(base, s), I)
<1> DEFINE U == DOMAIN base \cup UNION {DOMAIN z : z \in S}
           Z == UNION {[D -> Int] : D \in SUBSET U}
           T == {p \in Nat \X Z : ZsetIn(p[2], I)}
<1>1. ASSUME NEW z, ZsetIn(z, I), DOMAIN z \subseteq U PROVE z \in Z
  <2>1. z \in [DOMAIN z -> Int] /\ DOMAIN z \in SUBSET U
    BY <1>1 DEF ZsetIn, IsFcn
  <2> QED
    BY <2>1
<1>2. <<0, base>> \in T
  BY <1>1
<1>3. ASSUME NEW n \in Nat, n < Len(s), NEW acc, <<n, acc>> \in T
      PROVE  <<n + 1, ZSum(acc, s[n+1])>> \in T
  <2>1. acc \in Z /\ ZsetIn(acc, I) /\ s[n+1] \in S
    BY <1>3
  <2>2. PICK w : w = s[n+1]
    OBVIOUS
  <2>3. w \in S /\ ZsetIn(w, I) /\ DOMAIN w \subseteq U /\ DOMAIN acc \subseteq U
    BY <2>1, <2>2
  <2>4. PICK v : v = ZSum(acc, w)
    OBVIOUS
  <2>5. ZsetIn(v, I) /\ DOMAIN v \subseteq DOMAIN acc \cup DOMAIN w
    BY <2>1, <2>3, <2>4, SumIn DEF ZSum
  <2>6. v \in Z
    BY <1>1, <2>3, <2>5
  <2> HIDE DEF Z
  <2>7. <<n + 1, v>> \in T
    BY <2>5, <2>6
  <2> QED
    BY <2>2, <2>4, <2>7
<1> HIDE DEF T
<1>4. <<Len(s), Summing!Fold(base, s)>> \in T
  BY <1>2, <1>3, Summing!FoldInduct
<1> QED
  BY <1>4 DEF T

\* A sum from some base is that base and the sum from nothing.
LEMMA SumFromBase ==
  ASSUME NEW I, NEW S, \A z \in S : ZsetIn(z, I), NEW s \in Seq(S),
         NEW base, ZsetIn(base, I), NEW x
  PROVE  /\ Weight(base, x) \in Int /\ Weight(Summing!Fold(EmptyFun, s), x) \in Int
         /\ Weight(Summing!Fold(base, s), x)
              = Weight(base, x) + Weight(Summing!Fold(EmptyFun, s), x)
<1> DEFINE Total(b, u) == Weight(Summing!Fold(b, u), x)
           Same(u) == \A b : ZsetIn(b, I) => Total(b, u) = Weight(b, x) + Total(EmptyFun, u)
           T == {n \in Nat : \A u \in Seq(S) : Len(u) = n => Same(u)}
<1>0. \A b : ZsetIn(b, I) => Weight(b, x) \in Int
  BY DEF ZsetIn, Weight
<1>1. 0 \in T
  <2> SUFFICES ASSUME NEW u \in Seq(S), Len(u) = 0 PROVE Same(u)
    OBVIOUS
  <2>1. u = <<>>
    BY EmptySeq
  <2>2. \A b : Total(b, u) = Weight(b, x)
    BY <2>1, Summing!FoldEmpty
  <2>3. Total(EmptyFun, u) = 0
    BY <2>2, EmptyZset
  <2> HIDE DEF Total
  <2> QED
    BY <1>0, <2>2, <2>3
<1>2. ASSUME NEW n \in Nat, n \in T PROVE n + 1 \in T
  <2> SUFFICES ASSUME NEW u \in Seq(S), Len(u) = n + 1 PROVE Same(u)
    OBVIOUS
  <2> DEFINE h == Head(u)
             v == Tail(u)
  <2>1. u # <<>> /\ h \in S /\ v \in Seq(S) /\ Len(v) = n
    OBVIOUS
  <2>2. ZsetIn(h, I) /\ Same(v)
    BY <1>2, <2>1
  <2>3. \A b : Total(b, u) = Total(ZSum(b, h), v)
    BY <2>1, Summing!FoldHead
  <2> HIDE DEF Total, h, v
  <2>4. ASSUME NEW b, ZsetIn(b, I)
        PROVE  Total(b, u) = Weight(b, x) + Weight(h, x) + Total(EmptyFun, v)
    <3>1. ZsetIn(ZSum(b, h), I) /\ Weight(ZSum(b, h), x) = Weight(b, x) + Weight(h, x)
      BY <2>2, <2>4, SumIn
    <3> QED
      BY <2>2, <2>3, <3>1
  <2>5. ZsetIn(EmptyFun, I) /\ Weight(EmptyFun, x) = 0
    BY EmptyZset
  <2>6. Total(EmptyFun, v) \in Int
    <3>1. ZsetIn(Summing!Fold(EmptyFun, v), I)
      BY <2>1, <2>5, SumAllIn
    <3> QED
      BY <1>0, <3>1 DEF Total
  <2> QED
    BY <1>0, <2>2, <2>4, <2>5, <2>6
<1> HIDE DEF T
<1>3. Len(s) \in T
  BY <1>1, <1>2, Summing!NatInd
<1>4. Same(s)
  <2> HIDE DEF Same
  <2> QED
    BY <1>3 DEF T
<1>5. ZsetIn(Summing!Fold(EmptyFun, s), I)
  BY EmptyZset, SumAllIn
<1> QED
  BY <1>0, <1>4, <1>5


-----------------------------------------------------------------------------
(* Changes of a table *)

Changes(t, s) == [i \in DOMAIN s |-> Change(t, s[i])]

\* The change one staged update makes is a Z-set of one row,
LEMMA ChangeIn ==
  ASSUME NEW I, NEW t \in Table, TableIn(t, rows[t], I), NEW op, UpdateIn(t, op, I),
         op.kind = "delete" => op.id \in DOMAIN rows[t]
  PROVE  ZsetIn(Change(t, op), I)
<1>1. PICK x, n : /\ Change(t, op) = [y \in {x} |-> n] /\ n \in {1, -1}
                  /\ x[1] = t /\ x[2] \in I /\ CellsIn(t, x[3], I) /\ x = <<x[1], x[2], x[3]>>
  <2>1. CASE op.kind = "add"
    <3>1. Change(t, op) = [y \in {<<t, op.id, op.cells>>} |-> 1]
      BY <2>1 DEF Change
    <3> QED
      BY <2>1, <3>1 DEF UpdateIn
  <2>2. CASE op.kind = "delete"
    <3>1. Change(t, op) = [y \in {<<t, op.id, rows[t][op.id]>>} |-> -1]
      BY <2>2 DEF Change
    <3>2. op.id \in I /\ CellsIn(t, rows[t][op.id], I)
      BY <2>2 DEF TableIn, UpdateIn
    <3> QED
      BY <3>1, <3>2
  <2> QED
    BY <2>1, <2>2 DEF UpdateIn
<1>2. PICK z : z = Change(t, op)
  OBVIOUS
<1>3. IsFcn(z) /\ DOMAIN z = {x} /\ z[x] = n /\ IsFiniteSet({x})
  BY <1>1, <1>2, FS_Singleton DEF IsFcn
<1> QED
  BY <1>1, <1>2, <1>3 DEF ZsetIn, FactIn

\* those of all staged updates of a table are Z-sets,
LEMMA ChangesIn ==
  ASSUME NEW I, NEW t \in Table, TableIn(t, rows[t], I), NEW s, StagedIn(t, s, I),
         DeletesOnce(s, DOMAIN rows[t])
  PROVE  /\ Changes(t, s) \in Seq(Range(Changes(t, s)))
         /\ \A z \in Range(Changes(t, s)) : ZsetIn(z, I)
<1>1. IsSeq(s) /\ Len(s) \in Nat /\ DOMAIN s = 1 .. Len(s)
      /\ Range(s) = {s[i] : i \in 1 .. Len(s)}
  BY SeqIs DEF StagedIn, IsSeq
<1>2. PICK v : v = Changes(t, s)
  OBVIOUS
<1>3. ASSUME NEW i \in 1 .. Len(s) PROVE v[i] = Change(t, s[i]) /\ ZsetIn(v[i], I)
  <2>1. UpdateIn(t, s[i], I) /\ (s[i].kind = "delete" => s[i].id \in DOMAIN rows[t])
    BY <1>1 DEF StagedIn, DeletesOnce
  <2>2. ZsetIn(Change(t, s[i]), I)
    BY <2>1, ChangeIn
  <2> QED
    BY <1>1, <1>2, <2>2 DEF Changes
<1>4. PICK S : S = {v[i] : i \in 1 .. Len(s)}
  OBVIOUS
<1>5. v \in [1 .. Len(s) -> S]
  BY <1>1, <1>2, <1>4 DEF Changes
<1>6. IsSeq(v) /\ Range(v) = {v[i] : i \in 1 .. Len(s)}
  <2>1. v \in Seq(S) /\ Len(v) = Len(s)
    BY <1>1, <1>5, ListIsSeq
  <2> QED
    BY <2>1, SeqIs
<1> QED
  BY <1>2, <1>3, <1>6 DEF IsSeq

\* and so is their sum (Table::table_delta_from_ops).
LEMMA TableDeltaIn ==
  ASSUME NEW I, NEW t \in Table, TableIn(t, rows[t], I), StagedIn(t, staged[t], I),
         DeletesOnce(staged[t], DOMAIN rows[t])
  PROVE  ZsetIn(TableDelta(t), I)
<1>1. TableDelta(t) = Summing!Fold(EmptyFun, Changes(t, staged[t]))
  BY SumFold DEF TableDelta, Changes
<1> QED
  BY <1>1, ChangesIn, EmptyZset, SumAllIn

\* What coln-query holds after being fed is a Z-set.
LEMMA FeedIn ==
  ASSUME NEW I, NEW z, ZsetIn(z, I), NEW w, ZsetIn(w, I)
  PROVE  ZsetIn(Feed(z, w), I)
<1>1. PICK D : D = {x \in DOMAIN w : Schema[x[1]].source}
  OBVIOUS
<1>2. PICK v : v = Restrict(w, D)
  OBVIOUS
<1>3. D \in SUBSET DOMAIN w /\ DOMAIN v = D /\ IsFcn(v) /\ \A x \in D : v[x] = w[x]
  BY <1>1, <1>2 DEF Restrict, IsFcn
<1>4. ZsetIn(v, I)
  BY <1>3, FS_Subset DEF ZsetIn
<1>5. Feed(z, w) = ZSum(z, v)
  BY <1>1, <1>2 DEF Feed
<1> QED
  BY <1>4, <1>5, SumIn

\* The rows a Z-set holds are finitely many.
LEMMA SupportIn ==
  ASSUME NEW I, NEW z, ZsetIn(z, I)
  PROVE  IsFiniteSet(Support(z)) /\ \A x \in Support(z) : FactIn(x, I)
<1>1. Support(z) \in SUBSET DOMAIN z
  BY DEF Support
<1> QED
  BY <1>1, FS_Subset DEF ZsetIn

-----------------------------------------------------------------------------
(***************************************************************************)
(* What is asked of the views: over finitely many rows they are finite,    *)
(* they fill tables that coln-query does not read, and they mention no row *)
(* id that the rows do not mention.                                        *)
(***************************************************************************)
ViewsClosed ==
  \A I \in SUBSET RowId : \A db :
    IsFiniteSet(db) /\ (\A x \in db : FactIn(x, I)) =>
      /\ IsFiniteSet(DOMAIN Derived(db))
      /\ \A x \in DOMAIN Derived(db) :
           x[1] \in Table /\ ~Schema[x[1]].source /\ CellsIn(x[1], x[2], I)

NewRowIn(x, I) ==
  x.table \in Table /\ ~Schema[x.table].source /\ x.id \in I /\ CellsIn(x.table, x.cells, I)

\* The state of the store mentions row ids of I only.
ShapeNow(I) ==
  /\ TablesIn(rows, I)
  /\ PerTable(staged) /\ \A t \in Table : StagedIn(t, staged[t], I)
  /\ LogsOK(undo)
  /\ CanonIn(canon, I)
  /\ displaced \in Seq(I) /\ unions \in Seq(I \X I)
  /\ ZsetIn(cq, I) /\ ZsetIn(delta, I)
  /\ IsSeq(fresh) /\ \A x \in Range(fresh) : NewRowIn(x, I)

\* So did the state to go back to.
ShapeThen(I) ==
  TablesIn(before, I) /\ CanonIn(snap.canon, I) /\ snap.unions \in Seq(I \X I)

Busy == {"apply", "rebuild", "check", "derive"}

\* Where a commit is, and what is left to do
Control ==
  /\ DictOK(dict) /\ snap.dict \in Nat /\ snap.dict <= Len(dict)
  /\ applied \subseteq Commit /\ replay \subseteq Commit
  /\ pc \in Busy \cup {"idle", "failed", "panicked", "unreadable"}
  /\ current \in Commit \cup {NoCommit} /\ (pc \in Busy => current \in Commit)
  /\ todo \subseteq Table /\ table \in Table \cup {NoTable}
  /\ pc \notin {"apply", "failed", "panicked"} => table = NoTable
  /\ pc # "rebuild" => displaced = <<>>
  /\ snap.displaced = 0
  /\ pc \notin {"derive", "failed", "panicked"} => fresh = <<>>
  /\ pc = "idle" => delta = EmptyFun /\ snap = NoSnap

\* The updates that are staged can be carried out, and nothing is forgotten.
StagedFits ==
  /\ pc = "apply" =>
       \A t \in Table : /\ DeletesOnce(staged[t], DOMAIN rows[t])
                        /\ staged[t] # <<>> => t \in todo \cup {table}
  /\ pc \in {"idle", "rebuild", "check", "derive"} => \A t \in Table : staged[t] = <<>>
  /\ pc = "idle" => \A t \in Table : undo[t] = <<>>

Base == ShapeNow(RowId) /\ ShapeThen(RowId) /\ Control /\ StagedFits

-----------------------------------------------------------------------------
(* What the steps that write rows do *)

\* Deletions still to be done are of other rows than the one at hand.
LEMMA TailDeletes ==
  ASSUME NEW s, IsSeq(s), s # <<>>, NEW D, DeletesOnce(s, D)
  PROVE  /\ DeletesOnce(Tail(s), D)
         /\ s[1].kind = "delete" => s[1].id \in D /\ DeletesOnce(Tail(s), D \ {s[1].id})
<1>1. /\ 1 \in DOMAIN s
      /\ \A i \in DOMAIN Tail(s) : Tail(s)[i] = s[i+1] /\ i + 1 \in DOMAIN s
      /\ DOMAIN Tail(s) = 1 .. Len(s) - 1 /\ Len(s) \in Nat
  BY TailIsSeq
<1>2. PICK v : v = Tail(s)
  OBVIOUS
<1>3. ASSUME NEW i \in DOMAIN v PROVE v[i] = s[i+1] /\ i + 1 \in DOMAIN s /\ i + 1 # 1 /\ i \in Int
  BY <1>1, <1>2
<1>4. ASSUME NEW i \in DOMAIN v, v[i].kind = "delete" PROVE v[i].id \in D
  BY <1>3, <1>4 DEF DeletesOnce
<1>5. ASSUME NEW i \in DOMAIN v, NEW j \in DOMAIN v,
             v[i].kind = "delete", v[j].kind = "delete", v[i].id = v[j].id
      PROVE  i = j
  <2>1. i + 1 = j + 1
    BY <1>3, <1>5 DEF DeletesOnce
  <2> QED
    BY <1>3, <2>1
<1>6. ASSUME s[1].kind = "delete", NEW i \in DOMAIN v, v[i].kind = "delete"
      PROVE  v[i].id # s[1].id
  BY <1>1, <1>3, <1>6 DEF DeletesOnce
<1>7. s[1].kind = "delete" => s[1].id \in D
  BY <1>1 DEF DeletesOnce
<1> QED
  BY <1>2, <1>4, <1>5, <1>6, <1>7 DEF DeletesOnce

\* What insert_row does: nothing but a failure, or one more row whose id and key are new.
LEMMA InsertIs ==
  ASSUME TablesIn(rows, RowId), NEW t \in Table, NEW r, NEW cells, InsertRow(t, r, cells)
  PROVE  \/ UNCHANGED rows /\ pc' \in {"failed", "panicked"}
            /\ (pc' = "failed" => KeyTaken(t, cells))
         \/ /\ r \notin DOMAIN rows[t] /\ ~KeyTaken(t, cells) /\ pc' = pc
            /\ rows'[t] = With(rows[t], r, cells)
            /\ \A u \in Table \ {t} : rows'[u] = rows[u]
            /\ PerTable(rows')
BY DEF InsertRow, TablesIn, PerTable, IsFcn

\* The update that apply_ops carries out, and what it does to the tables.
LEMMA NextOp ==
  ASSUME Base, ApplyOp, NEW t, NEW op, t = table, op = Head(staged[table])
  PROVE  /\ t \in Table /\ pc = "apply" /\ staged[t] # <<>> /\ IsSeq(staged[t])
         /\ op = staged[t][1] /\ UpdateIn(t, op, RowId) /\ DeletesOnce(staged[t], DOMAIN rows[t])
         /\ staged'[t] = Tail(staged[t]) /\ UNCHANGED <<table, before, delta, cq>>
         /\ \/ op.kind = "add" /\ InsertRow(t, op.id, op.cells)
            \/ op.kind = "delete" /\ RemoveRow(t, op.id) /\ op.id \in DOMAIN rows[t]
<1>1. t \in Table /\ staged[t] # <<>> /\ pc = "apply"
  BY DEF ApplyOp, Base, Control
<1>2. IsSeq(staged[t]) /\ \A o \in Range(staged[t]) : UpdateIn(t, o, RowId)
  BY <1>1 DEF Base, ShapeNow, StagedIn
<1>3. DeletesOnce(staged[t], DOMAIN rows[t])
  BY <1>1 DEF Base, StagedFits
<1>4. op = staged[t][1] /\ op \in Range(staged[t]) /\ UpdateIn(t, op, RowId)
  BY <1>1, <1>2, TailIsSeq
<1>5. op.kind = "delete" => op.id \in DOMAIN rows[t]
  BY <1>1, <1>2, <1>3, <1>4, TailDeletes
<1>6. staged'[t] = Tail(staged[t])
  BY <1>1 DEF ApplyOp, Base, ShapeNow, PerTable, IsFcn
<1>7. UNCHANGED <<table, before, delta, cq>>
  BY DEF ApplyOp, local
<1>8. IF op.kind = "add" THEN InsertRow(t, op.id, op.cells) ELSE RemoveRow(t, op.id)
  BY DEF ApplyOp
<1> QED
  BY <1>1, <1>2, <1>3, <1>4, <1>5, <1>6, <1>7, <1>8 DEF UpdateIn

\* The row that apply_derived_view stores next
LEMMA NextRow ==
  ASSUME Base, Derive, NEW x, x = Head(fresh)
  PROVE  /\ NewRowIn(x, RowId) /\ InsertRow(x.table, x.id, x.cells)
         /\ x.table \in Table /\ ~Schema[x.table].source /\ UNCHANGED <<before, cq>>
<1>1. IsSeq(fresh) /\ fresh # <<>> /\ \A y \in Range(fresh) : NewRowIn(y, RowId)
  BY DEF Derive, Base, ShapeNow
<1> QED
  BY <1>1, TailIsSeq DEF Derive, NewRowIn

\* A rollback puts the rows back as they were when the commit began.
LEMMA BackToBefore ==
  ASSUME Base, UndoRestores, Rollback
  PROVE  rows' = before
<1>1. \A t \in Table : UndoAll(rows[t], undo[t]) = before[t]
  BY DEF UndoRestores, Rollback
<1>2. rows' = [t \in Table |-> before[t]]
  BY <1>1 DEF Rollback, UndoTables
<1>3. IsFcn(before) /\ DOMAIN before = Table
  BY DEF Base, ShapeThen, TablesIn, PerTable
<1> QED
  BY <1>2, <1>3 DEF IsFcn

-----------------------------------------------------------------------------
(* One step keeps the state within a set of row ids. *)

\* Taking a table collects changes of rows the store knows.
LEMMA TakeTableShape ==
  ASSUME NEW I \in SUBSET RowId, ShapeNow(I), Control, StagedFits,
         NEW t \in Table, TakeTable(t)
  PROVE  ShapeNow(I)'
<1>1. ZsetIn(TableDelta(t), I)
  BY TableDeltaIn DEF ShapeNow, TablesIn, StagedFits, TakeTable
<1>2. ZsetIn(delta', I)
  BY <1>1, SumIn DEF TakeTable, ShapeNow
<1> QED
  BY <1>2 DEF TakeTable, ShapeNow, rowing

\* Applying one update mentions no id that is not in use.
LEMMA ApplyOpShape ==
  ASSUME NEW I \in SUBSET RowId, ShapeNow(I), Control, StagedFits, ApplyOp
  PROVE  ShapeNow(I)'
<1>1. PICK t, op : t = table /\ op = Head(staged[table])
  OBVIOUS
<1>2. t \in Table /\ staged[t] # <<>> /\ StagedIn(t, staged[t], I)
  BY <1>1 DEF ApplyOp, Control, ShapeNow
<1>3. /\ StagedIn(t, Tail(staged[t]), I) /\ UpdateIn(t, op, I)
      /\ op.kind = "delete" => op.id \in DOMAIN rows[t]
  BY <1>1, <1>2, TailIsSeq DEF StagedIn, StagedFits, DeletesOnce, ApplyOp
<1>4. PerTable(staged') /\ \A u \in Table : StagedIn(u, staged'[u], I)
  <2>1. staged' = [staged EXCEPT ![t] = Tail(@)]
    BY <1>1 DEF ApplyOp
  <2>2. PerTable(staged') /\ staged'[t] = Tail(staged[t])
        /\ \A u \in Table \ {t} : staged'[u] = staged[u]
    BY <1>2, <2>1 DEF ShapeNow, PerTable, IsFcn
  <2> QED
    BY <1>3, <2>2 DEF ShapeNow
<1>5. TablesIn(rows', I) /\ LogsOK(undo') /\ unions' \in Seq(I \X I)
  <2>1. CASE op.kind = "add"
    <3>1. InsertRow(t, op.id, op.cells)
      BY <1>1, <2>1 DEF ApplyOp
    <3>2. op.id \in I /\ CellsIn(t, op.cells, I)
      BY <1>3, <2>1 DEF UpdateIn
    <3> QED
      BY <1>2, <3>1, <3>2, InsertKeeps DEF ShapeNow, Control
  <2>2. CASE op.kind # "add"
    <3>1. RemoveRow(t, op.id) /\ op.id \in DOMAIN rows[t]
      BY <1>1, <1>3, <2>2 DEF ApplyOp, UpdateIn
    <3> QED
      BY <1>2, <3>1, RemoveKeeps DEF ShapeNow
  <2> QED
    BY <2>1, <2>2
<1> QED
  BY <1>4, <1>5 DEF ApplyOp, ShapeNow, local

\* Neither does applying the unions,
LEMMA ApplyUnionsShape ==
  ASSUME NEW I \in SUBSET RowId, ShapeNow(I), ApplyUnions
  PROVE  ShapeNow(I)'
<1>1. PICK v : v = FoldLeft(Unite, [canon |-> canon, displaced |-> displaced], unions)
  OBVIOUS
<1>2. CanonIn(v.canon, I) /\ v.displaced \in Seq(I)
  BY <1>1, UniteAll DEF ShapeNow
<1>3. CanonIn(canon', I) /\ displaced' \in Seq(I) /\ unions' \in Seq(I \X I)
  BY <1>1, <1>2 DEF ApplyUnions
<1> QED
  BY <1>3 DEF ApplyUnions, ShapeNow, local

\* nor staging the rewrites, each of a row that is stored.
LEMMA RebuildShape ==
  ASSUME NEW I \in SUBSET RowId, ShapeNow(I), Control, Rebuild
  PROVE  /\ ShapeNow(I)'
         /\ \A t \in Table : DeletesOnce(staged'[t], DOMAIN rows[t])
<1>1. ASSUME NEW t \in Table
      PROVE  StagedIn(t, RebuildOps(t), I) /\ DeletesOnce(RebuildOps(t), DOMAIN rows[t])
  BY RebuildIn DEF ShapeNow, TablesIn, Control
<1>2. PerTable(staged') /\ \A t \in Table : staged'[t] = RebuildOps(t)
  BY DEF Rebuild, PerTable, IsFcn
<1>3. displaced' \in Seq(I)
  BY DEF Rebuild
<1> QED
  BY <1>1, <1>2, <1>3 DEF Rebuild, ShapeNow

\* The rows of views get ids of the commit, and cells of the rows they derive from.
LEMMA CheckAcceptedShape ==
  ASSUME ViewsClosed, NEW I \in SUBSET RowId, ShapeNow(I), CheckAccepted,
         \A n \in Nat : <<current, n>> \in I, current \in Commit
  PROVE  ShapeNow(I)'
<1>1. PICK fed, old, new : /\ fed = Feed(cq, delta)
                           /\ old = Derived(Support(cq)) /\ new = Derived(Support(fed))
  OBVIOUS
<1>2. ZsetIn(fed, I)
  BY <1>1, FeedIn DEF ShapeNow
<1>3. /\ IsFiniteSet(DOMAIN new)
      /\ \A x \in DOMAIN new :
           x[1] \in Table /\ ~Schema[x[1]].source /\ CellsIn(x[1], x[2], I)
  <2>1. PICK db : db = Support(fed)
    OBVIOUS
  <2>2. IsFiniteSet(db) /\ \A x \in db : FactIn(x, I)
    BY <1>2, <2>1, SupportIn
  <2> QED
    BY <1>1, <2>1, <2>2 DEF ViewsClosed
<1>4. PICK gain : gain = Gained(old, new)
  OBVIOUS
<1>5. gain \in SUBSET DOMAIN new /\ IsFiniteSet(gain) /\ Cardinality(gain) \in Nat
  <2>1. gain \in SUBSET DOMAIN new
    BY <1>4 DEF Gained
  <2> QED
    BY <1>3, <2>1, FS_Subset, FS_CardinalityType
<1>6. fresh' \in NewRows(gain)
  BY <1>1, <1>4 DEF CheckAccepted
<1>7. PICK order \in Bijection(1 .. Cardinality(gain), gain) :
        fresh' = [i \in DOMAIN order |-> [table |-> order[i][1], cells |-> order[i][2],
                                          id |-> <<current, Len(Ops[current]) + i>>]]
  BY <1>6 DEF NewRows
<1>8. PICK n : n = Cardinality(gain)
  OBVIOUS
<1>9. n \in Nat /\ order \in [1 .. n -> gain]
  BY <1>5, <1>8 DEF Bijection, Injection
<1>10. PICK S : S = {fresh'[i] : i \in 1 .. n}
  OBVIOUS
<1>11. fresh' \in [1 .. n -> S]
  BY <1>7, <1>9, <1>10
<1>12. PICK q : q = fresh'
  OBVIOUS
<1>13. IsSeq(q) /\ Range(q) \subseteq S
  <2>1. q \in Seq(S)
    BY <1>9, <1>11, <1>12, ListIsSeq
  <2> QED
    BY <2>1, SeqIs
<1>14. ASSUME NEW i \in 1 .. n PROVE NewRowIn(q[i], I)
  <2>1. /\ q[i] = [table |-> order[i][1], cells |-> order[i][2],
                   id |-> <<current, Len(Ops[current]) + i>>]
        /\ order[i] \in gain
    BY <1>7, <1>9, <1>12
  <2>2. Len(Ops[current]) + i \in Nat
    BY <1>9, OpsAre
  <2> QED
    BY <1>3, <1>5, <2>1, <2>2 DEF NewRowIn
<1>15. IsSeq(fresh') /\ \A x \in Range(fresh') : NewRowIn(x, I)
  BY <1>10, <1>12, <1>13, <1>14
<1>16. ZsetIn(cq', I)
  BY <1>1, <1>2 DEF CheckAccepted
<1> QED
  BY <1>15, <1>16 DEF CheckAccepted, ShapeNow, rowing

\* Storing one of them
LEMMA DeriveShape ==
  ASSUME NEW I \in SUBSET RowId, ShapeNow(I), Control, Derive
  PROVE  ShapeNow(I)'
<1>1. PICK x : x = Head(fresh)
  OBVIOUS
<1>2. /\ IsSeq(Tail(fresh)) /\ Range(Tail(fresh)) \subseteq Range(fresh)
      /\ NewRowIn(x, I)
  BY <1>1, TailIsSeq DEF Derive, ShapeNow
<1>3. TablesIn(rows', I) /\ LogsOK(undo') /\ unions' \in Seq(I \X I)
  <2>1. InsertRow(x.table, x.id, x.cells)
    BY <1>1 DEF Derive
  <2> QED
    BY <1>2, <2>1, InsertKeeps DEF ShapeNow, Control, NewRowIn
<1> QED
  BY <1>2, <1>3 DEF Derive, ShapeNow

\* Staging a commit's rows: ids of the commit, and those its cells mention
LEMMA BeginShape ==
  ASSUME NEW I \in SUBSET RowId, ShapeNow(I), NEW c \in Commit, Begin(c),
         \A i \in DOMAIN Ops[c] : /\ <<c, i>> \in I
                                  /\ CellsIn(Ops[c][i].table, Ops[c][i].cells, I)
  PROVE  ShapeNow(I)'
<1>1. PerTable(staged') /\ \A t \in Table : StagedIn(t, staged'[t], I)
  <2>1. PerTable(staged') /\ \A t \in Table : staged'[t] = StagedOps(c, t)
    BY DEF Begin, PerTable, IsFcn
  <2> QED
    BY <2>1, StagedOpsIn
<1>2. ZsetIn(delta', I)
  BY EmptyZset DEF Begin
<1> QED
  BY <1>1, <1>2 DEF Begin, ShapeNow, rowing

\* The steps that move nothing but control
LEMMA QuietShape ==
  ASSUME NEW I \in SUBSET RowId, ShapeNow(I),
         \/ \E c \in Commit : BeginRefused(c)
         \/ LeaveTable \/ CheckRejected \/ UNCHANGED vars
  PROVE  ShapeNow(I)'
BY DEF BeginRefused, LeaveTable, CheckRejected, vars, ShapeNow, rowing, local

\* The same value for each table
LEMMA EachTableIs ==
  ASSUME NEW x
  PROVE  PerTable(EachTable(x)) /\ \A t \in Table : EachTable(x)[t] = x
BY DEF EachTable, PerTable, IsFcn

\* A store without rows
LEMMA NoRows ==
  ASSUME NEW I
  PROVE  TablesIn(EachTable(EmptyFun), I) /\ CanonIn(EmptyFun, I)
<1>1. IsFcn(EmptyFun) /\ DOMAIN EmptyFun = {}
  BY EmptyZset, EmptyIsSeq DEF ZsetIn, EmptyFun
<1> QED
  BY <1>1, EachTableIs, FS_EmptySet DEF TablesIn, TableIn, CanonIn, Led

\* No staged update and no log entry
LEMMA NoUpdates ==
  ASSUME NEW I
  PROVE  /\ PerTable(EachTable(<<>>)) /\ LogsOK(EachTable(<<>>))
         /\ \A t \in Table : StagedIn(t, EachTable(<<>>)[t], I)
BY EachTableIs, EmptyIsSeq DEF LogsOK, StagedIn

\* Recording the commit
LEMMA RecordShape ==
  ASSUME NEW I \in SUBSET RowId, ShapeNow(I), Record
  PROVE  ShapeNow(I)'
<1>1. LogsOK(undo') /\ ZsetIn(delta', I) /\ fresh' = <<>>
  BY NoUpdates, EmptyZset DEF Record, DropLocals
<1> QED
  BY <1>1, EmptyIsSeq DEF Record, ShapeNow, rowing

\* Going back: what the rows become is what they were.
LEMMA RollbackShape ==
  ASSUME Base, UndoRestores, Rollback, NEW I \in SUBSET RowId, ShapeThen(I), ZsetIn(cq, I)
  PROVE  ShapeNow(I)'
<1>1. rows' = before
  BY BackToBefore
<1>2. displaced' = <<>>
  <2>1. snap.displaced = 0 /\ pc # "rebuild" /\ displaced = <<>>
    BY DEF Rollback, Base, Control
  <2>2. displaced' = SubSeq(displaced, 1, 0)
    BY <2>1 DEF Rollback, RestoreRowing
  <2> QED
    BY <2>1, <2>2
<1>3. /\ PerTable(staged') /\ LogsOK(undo') /\ \A t \in Table : StagedIn(t, staged'[t], I)
  BY NoUpdates DEF Rollback, UndoTables
<1>4. CanonIn(canon', I) /\ unions' \in Seq(I \X I)
  BY DEF Rollback, RestoreRowing, ShapeThen
<1>5. ZsetIn(delta', I) /\ ZsetIn(cq', I) /\ fresh' = <<>>
  BY EmptyZset DEF Rollback, DropLocals
<1> QED
  BY <1>1, <1>2, <1>3, <1>4, <1>5, EmptyIsSeq DEF ShapeNow, ShapeThen

\* A store that starts again mentions nothing.
LEMMA EmptyShape ==
  ASSUME NEW I
  PROVE  /\ Init => ShapeNow(I) /\ ShapeThen(I)
         /\ Reload /\ ZsetIn(delta, I) /\ fresh = <<>> => ShapeNow(I)'
<1>1. Init => ShapeNow(I) /\ ShapeThen(I)
  <2> SUFFICES ASSUME Init PROVE ShapeNow(I) /\ ShapeThen(I)
    OBVIOUS
  <2>1. ShapeNow(I)
    BY NoRows, NoUpdates, EmptyZset, EmptyIsSeq DEF Init, Empty, ShapeNow
  <2>2. ShapeThen(I)
    BY NoRows, EmptyZset, EmptyIsSeq DEF Init, ShapeThen, NoSnap
  <2> QED
    BY <2>1, <2>2
<1>2. Reload /\ ZsetIn(delta, I) /\ fresh = <<>> => ShapeNow(I)'
  BY NoRows, NoUpdates, EmptyZset, EmptyIsSeq
     DEF Reload, Empty, ShapeNow, local
<1> QED
  BY <1>1, <1>2

-----------------------------------------------------------------------------
(* Control *)

\* Beginning a commit interns its hashes and stages insertions only.
LEMMA BeginControl ==
  ASSUME Base, NEW c \in Commit, Begin(c)
  PROVE  Control' /\ StagedFits'
<1>1. PICK e : e = FoldLeft(Intern, dict, Mentions(c))
  OBVIOUS
<1>2. DictOK(e) /\ Len(dict) <= Len(e)
  BY <1>1, InternAll, MentionsAll DEF Base, Control, Extends
<1>3. Len(dict) \in Nat /\ displaced = <<>> /\ pc = "idle"
  BY SeqIs DEF Base, Control, DictOK, Begin, Takes
<1>4. snap'.dict = Len(dict) /\ snap'.displaced = 0 /\ dict' = e
  BY <1>1, <1>3 DEF Begin, Snapshot
<1>5. ASSUME NEW i \in DOMAIN Ops[c]
      PROVE  Ops[c][i].table \in Table /\ <<c, i>> \in RowId
             /\ CellsIn(Ops[c][i].table, Ops[c][i].cells, RowId)
  <2>1. i \in Nat
    BY OpsAre
  <2> QED
    BY <2>1, OpsAre DEF RowId
<1>6. ASSUME NEW t \in Table
      PROVE  DeletesOnce(staged'[t], DOMAIN rows'[t]) /\ (staged'[t] # <<>> => t \in todo')
  <2>1. PICK s : s = StagedOps(c, t)
    OBVIOUS
  <2>2. /\ \A i \in DOMAIN s : s[i].kind = "add"
        /\ s # <<>> => t \in {Ops[c][i].table : i \in DOMAIN Ops[c]}
    BY <1>5, <2>1, StagedOpsIn
  <2>3. staged'[t] = s /\ todo' = {Ops[c][i].table : i \in DOMAIN Ops[c]}
    BY <2>1 DEF Begin
  <2> QED
    BY <2>2, <2>3 DEF DeletesOnce
<1>7. todo' \subseteq Table
  BY <1>5 DEF Begin
<1>8. Control'
  BY <1>2, <1>3, <1>4, <1>7 DEF Begin, Takes, Base, Control, Busy, rowing
<1>9. StagedFits'
  BY <1>6 DEF Begin, StagedFits
<1> QED
  BY <1>8, <1>9

\* Applying one update leaves the others possible.
LEMMA ApplyOpControl ==
  ASSUME Base, ApplyOp
  PROVE  Control' /\ StagedFits'
<1>1. PICK t, op : t = table /\ op = Head(staged[table])
  OBVIOUS
<1>2. /\ t \in Table /\ pc = "apply" /\ staged[t] # <<>> /\ IsSeq(staged[t])
      /\ op = staged[t][1] /\ UpdateIn(t, op, RowId) /\ DeletesOnce(staged[t], DOMAIN rows[t])
      /\ \/ op.kind = "add" /\ InsertRow(t, op.id, op.cells)
         \/ op.kind = "delete" /\ RemoveRow(t, op.id) /\ op.id \in DOMAIN rows[t]
  BY <1>1, NextOp
<1>3. staged'[t] = Tail(staged[t]) /\ \A u \in Table \ {t} : staged'[u] = staged[u]
  BY <1>1, <1>2 DEF ApplyOp, Base, ShapeNow, PerTable, IsFcn
<1>4. /\ pc' \in {"apply", "failed", "panicked"}
      /\ DeletesOnce(staged'[t], DOMAIN rows'[t])
      /\ \A u \in Table \ {t} : DOMAIN rows[u] \subseteq DOMAIN rows'[u]
  <2>1. CASE op.kind = "add"
    <3>1. InsertRow(t, op.id, op.cells)
      BY <1>2, <2>1
    <3>2. op.id \in RowId /\ CellsIn(t, op.cells, RowId)
      BY <1>2, <2>1 DEF UpdateIn
    <3>3. pc' \in {pc, "failed", "panicked"}
          /\ \A u \in Table : DOMAIN rows[u] \subseteq DOMAIN rows'[u]
      BY <1>2, <3>1, <3>2, InsertKeeps DEF Base, ShapeNow, Control
    <3>4. DeletesOnce(Tail(staged[t]), DOMAIN rows[t])
      BY <1>2, TailDeletes
    <3> QED
      BY <1>2, <1>3, <3>3, <3>4 DEF DeletesOnce
  <2>2. CASE op.kind # "add"
    <3>1. RemoveRow(t, op.id) /\ op.kind = "delete"
      BY <1>2, <2>2
    <3>2. op.id \in DOMAIN rows[t] /\ DeletesOnce(Tail(staged[t]), DOMAIN rows[t] \ {op.id})
      BY <1>2, <3>1, TailDeletes
    <3>3. /\ DOMAIN rows'[t] = DOMAIN rows[t] \ {op.id} /\ pc' = pc
          /\ \A u \in Table \ {t} : rows'[u] = rows[u]
      BY <1>2, <3>1, <3>2, RemoveKeeps DEF Base, ShapeNow
    <3> QED
      BY <1>2, <1>3, <3>2, <3>3 DEF DeletesOnce
  <2> QED
    BY <2>1, <2>2
<1>5. Control'
  BY <1>2, <1>4 DEF ApplyOp, Base, Control, local, Busy
<1>6. ASSUME NEW u \in Table
      PROVE  DeletesOnce(staged'[u], DOMAIN rows'[u]) /\ (staged'[u] # <<>> => u \in todo' \cup {table'})
  <2>1. CASE u = t
    BY <1>1, <1>4, <2>1 DEF ApplyOp, local
  <2>2. CASE u # t
    <3>1. staged'[u] = staged[u] /\ DeletesOnce(staged[u], DOMAIN rows[u])
          /\ (staged[u] # <<>> => u \in todo \cup {table})
      BY <1>2, <1>3, <2>2 DEF Base, StagedFits
    <3>2. DeletesOnce(staged'[u], DOMAIN rows'[u])
      BY <1>4, <2>2, <3>1 DEF DeletesOnce
    <3>3. todo' = todo /\ table' = table
      BY DEF ApplyOp, local
    <3> QED
      BY <3>1, <3>2, <3>3
  <2> QED
    BY <2>1, <2>2
<1>7. StagedFits'
  BY <1>4, <1>6 DEF StagedFits
<1> QED
  BY <1>5, <1>7

\* Every step keeps the control of apply_commit_atomic, and what is staged possible.
LEMMA ControlStep ==
  ASSUME ViewsClosed, Base, [Next]_vars
  PROVE  Control' /\ StagedFits'
<1>1. CASE UNCHANGED vars
  BY <1>1 DEF vars, Base, Control, StagedFits
<1>2. ASSUME NEW c \in Commit, Begin(c) PROVE Control' /\ StagedFits'
  BY <1>2, BeginControl
<1>3. ASSUME NEW c \in Commit, BeginRefused(c) PROVE Control' /\ StagedFits'
  <2>1. Len(dict) \in Nat /\ displaced = <<>> /\ fresh = <<>>
    BY <1>3, SeqIs DEF Base, Control, DictOK, BeginRefused, Takes
  <2>2. Control'
    BY <1>3, <2>1 DEF BeginRefused, Takes, Snapshot, Base, Control, Busy, rowing
  <2>3. StagedFits'
    BY <1>3 DEF BeginRefused, StagedFits
  <2> QED
    BY <2>2, <2>3
<1>4. ASSUME NEW t \in Table, TakeTable(t) PROVE Control' /\ StagedFits'
  <2>1. Control'
    BY <1>4 DEF TakeTable, Base, Control, Busy, rowing
  <2>2. StagedFits'
    BY <1>4, MarkerAssumption DEF TakeTable, Base, StagedFits
  <2> QED
    BY <2>1, <2>2
<1>5. CASE ApplyOp
  BY <1>5, ApplyOpControl
<1>6. CASE LeaveTable
  <2>1. Control'
    BY <1>6 DEF LeaveTable, Base, Control, Busy, rowing
  <2>2. StagedFits'
    BY <1>6 DEF LeaveTable, Base, StagedFits
  <2> QED
    BY <2>1, <2>2
<1>7. CASE ApplyUnions
  <2>1. pc' \in {"check", "rebuild"} /\ (pc' = "check" => displaced' = <<>>)
    BY <1>7 DEF ApplyUnions
  <2>2. Control'
    BY <1>7, <2>1 DEF ApplyUnions, Base, Control, Busy, local
  <2>3. StagedFits'
    BY <1>7, <2>1, MarkerAssumption DEF ApplyUnions, Base, StagedFits, local
  <2> QED
    BY <2>2, <2>3
<1>8. CASE Rebuild
  <2>1. \A t \in Table : DeletesOnce(staged'[t], DOMAIN rows[t])
    BY <1>8, RebuildShape DEF Base
  <2>2. Control'
    BY <1>8 DEF Rebuild, Base, Control, Busy
  <2>3. StagedFits'
    BY <1>8, <2>1 DEF Rebuild, StagedFits
  <2> QED
    BY <2>2, <2>3
<1>9. CASE CheckAccepted
  <2>1. pc' \in {"derive", "panicked"}
    BY <1>9 DEF CheckAccepted
  <2>2. Control'
    BY <1>9, <2>1 DEF CheckAccepted, Base, Control, Busy, rowing
  <2>3. StagedFits'
    BY <1>9, <2>1 DEF CheckAccepted, Base, StagedFits
  <2> QED
    BY <2>2, <2>3
<1>10. CASE CheckRejected
  BY <1>10 DEF CheckRejected, Base, Control, StagedFits, Busy, rowing, local
<1>11. CASE Derive
  <2>1. pc' \in {"derive", "failed", "panicked"} /\ pc = "derive"
    BY <1>11 DEF Derive, InsertRow
  <2>2. Control'
    BY <1>11, <2>1 DEF Derive, Base, Control, Busy
  <2>3. StagedFits'
    BY <1>11, <2>1 DEF Derive, Base, StagedFits
  <2> QED
    BY <2>2, <2>3
<1>12. CASE Record
  <2>1. Control'
    BY <1>12 DEF Record, DropLocals, Base, Control, Busy, rowing, NoSnap
  <2>2. StagedFits'
    BY <1>12, EachTableIs DEF Record, Base, StagedFits
  <2> QED
    BY <2>1, <2>2
<1>13. CASE Rollback
  <2>1. DictOK(dict')
    BY <1>13, DictPrefix DEF Rollback, Base, Control
  <2>2. displaced' = <<>>
    <3>1. displaced = <<>>
      BY <1>13 DEF Rollback, Base, Control
    <3>2. displaced' = SubSeq(displaced, 1, 0)
      BY <1>13 DEF Rollback, RestoreRowing, Base, Control
    <3> QED
      BY <3>1, <3>2
  <2>3. Len(dict') \in Nat /\ snap'.dict = 0 /\ snap'.displaced = 0
    BY <1>13, <2>1, SeqIs DEF Rollback, DropLocals, NoSnap, DictOK
  <2>4. Control'
    BY <1>13, <2>1, <2>2, <2>3 DEF Rollback, DropLocals, Base, Control, Busy
  <2>5. StagedFits'
    BY <1>13, EachTableIs DEF Rollback, UndoTables, StagedFits
  <2> QED
    BY <2>4, <2>5
<1>14. CASE Reload
  <2>1. DictOK(dict') /\ dict' = <<>> /\ Len(dict') \in Nat
    BY <1>14, EmptyIsSeq DEF Reload, Empty, DictOK, IsInjective
  <2>2. Control'
    BY <1>14, <2>1 DEF Reload, Empty, Base, Control, Busy, local, NoSnap
  <2>3. StagedFits'
    BY <1>14, EachTableIs DEF Reload, Empty, StagedFits
  <2> QED
    BY <2>2, <2>3
<1> QED
  BY <1>1, <1>2, <1>3, <1>4, <1>5, <1>6, <1>7, <1>8, <1>9, <1>10, <1>11, <1>12, <1>13, <1>14
     DEF Next, Work

-----------------------------------------------------------------------------
(* The typed state, and what undoing gives *)

\* The state to go back to is taken when a commit begins, and dropped when it ends.
LEMMA ShapeThenStep ==
  ASSUME NEW I \in SUBSET RowId, ShapeNow(I), ShapeThen(I), [Next]_vars
  PROVE  ShapeThen(I)'
<1>1. ASSUME Snapshot PROVE ShapeThen(I)'
  BY <1>1 DEF Snapshot, ShapeNow, ShapeThen
<1>2. ASSUME DropLocals PROVE ShapeThen(I)'
  BY <1>2, NoRows DEF DropLocals, NoSnap, ShapeThen
<1>3. ASSUME UNCHANGED <<snap, before>> PROVE ShapeThen(I)'
  BY <1>3 DEF ShapeThen
<1>4. CASE UNCHANGED vars
  BY <1>3, <1>4 DEF vars
<1>5. ASSUME NEW c \in Commit, Begin(c) \/ BeginRefused(c) PROVE ShapeThen(I)'
  BY <1>1, <1>5 DEF Begin, BeginRefused
<1>6. ASSUME NEW t \in Table, TakeTable(t) PROVE ShapeThen(I)'
  BY <1>3, <1>6 DEF TakeTable
<1>7. CASE ApplyOp \/ LeaveTable \/ ApplyUnions \/ Rebuild \/ CheckAccepted
           \/ CheckRejected \/ Derive \/ Reload
  BY <1>3, <1>7 DEF ApplyOp, LeaveTable, ApplyUnions, Rebuild, CheckAccepted,
                    CheckRejected, Derive, Reload, local
<1>8. CASE Record \/ Rollback
  BY <1>2, <1>8 DEF Record, Rollback
<1> QED
  BY <1>4, <1>5, <1>6, <1>7, <1>8 DEF Next, Work

\* Every step keeps all that is stored, staged or waiting well formed.
LEMMA ShapeStep ==
  ASSUME ViewsClosed, Base, UndoRestores, [Next]_vars
  PROVE  ShapeNow(RowId)'
<1> DEFINE I == RowId
<1>0. I \in SUBSET RowId /\ ShapeNow(I) /\ ShapeThen(I) /\ Control /\ StagedFits
  BY DEF Base
<1>1. CASE UNCHANGED vars
  BY <1>0, <1>1, QuietShape
<1>2. ASSUME NEW c \in Commit, Begin(c) PROVE ShapeNow(I)'
  <2>1. ASSUME NEW i \in DOMAIN Ops[c]
        PROVE  <<c, i>> \in I /\ CellsIn(Ops[c][i].table, Ops[c][i].cells, I)
    <3>1. i \in Nat
      BY OpsAre
    <3> QED
      BY <3>1, OpsAre DEF RowId
  <2> HIDE DEF I
  <2> QED
    BY <1>0, <1>2, <2>1, BeginShape
<1>3. ASSUME NEW c \in Commit, BeginRefused(c) PROVE ShapeNow(I)'
  BY <1>0, <1>3, QuietShape
<1>4. ASSUME NEW t \in Table, TakeTable(t) PROVE ShapeNow(I)'
  BY <1>0, <1>4, TakeTableShape
<1>5. CASE ApplyOp
  BY <1>0, <1>5, ApplyOpShape
<1>6. CASE LeaveTable \/ CheckRejected
  BY <1>0, <1>6, QuietShape
<1>7. CASE ApplyUnions
  BY <1>0, <1>7, ApplyUnionsShape
<1>8. CASE Rebuild
  BY <1>0, <1>8, RebuildShape
<1>9. CASE CheckAccepted
  <2>1. current \in Commit /\ \A n \in Nat : <<current, n>> \in RowId
    BY <1>0, <1>9 DEF CheckAccepted, Control, Busy, RowId
  <2>2. RowId \in SUBSET RowId /\ ShapeNow(RowId)
    BY <1>0
  <2> QED
    BY <1>9, <2>1, <2>2, CheckAcceptedShape
<1>10. CASE Derive
  BY <1>0, <1>10, DeriveShape
<1>11. CASE Record
  BY <1>0, <1>11, RecordShape
<1>12. CASE Rollback
  BY <1>0, <1>12, RollbackShape DEF ShapeNow
<1>13. CASE Reload
  <2>1. ZsetIn(delta, I) /\ fresh = <<>>
    BY <1>0, <1>13 DEF ShapeNow, Control, Reload
  <2> QED
    BY <1>13, <2>1, EmptyShape
<1> QED
  BY <1>1, <1>2, <1>3, <1>4, <1>5, <1>6, <1>7, <1>8, <1>9, <1>10, <1>11, <1>12, <1>13
     DEF Next, Work

\* The empty store satisfies the invariant.
LEMMA BaseInit == Init => Base
<1> SUFFICES ASSUME Init PROVE Base
  OBVIOUS
<1>1. ShapeNow(RowId) /\ ShapeThen(RowId)
  BY EmptyShape
<1>2. DictOK(dict) /\ snap.dict = 0 /\ snap.displaced = 0 /\ Len(dict) = 0
  BY EmptyIsSeq DEF Init, Empty, DictOK, IsInjective, NoSnap
<1>3. Control
  BY <1>2 DEF Init, Empty, Control, Busy
<1>4. StagedFits
  BY EachTableIs DEF Init, Empty, StagedFits
<1> QED
  BY <1>1, <1>3, <1>4 DEF Base

\* Every write is logged, so every step keeps what undoing gives.
LEMMA UndoStep ==
  ASSUME Base, UndoRestores, [Next]_vars
  PROVE  UndoRestores'
<1> DEFINE Back == \A t \in Table : UndoAll(rows[t], undo[t]) = before[t]
<1>1. ASSUME pc \notin {"idle", "unreadable"}, UNCHANGED before,
             \A t \in Table : UndoAll(rows'[t], undo'[t]) = UndoAll(rows[t], undo[t])
      PROVE  UndoRestores'
  BY <1>1 DEF UndoRestores
<1>2. ASSUME pc = "idle", Snapshot, UNCHANGED <<rows, undo>> PROVE UndoRestores'
  <2>1. \A t \in Table : undo[t] = <<>>
    BY <1>2 DEF Base, StagedFits
  <2> QED
    BY <1>2, <2>1, UndoEmpty DEF Snapshot, UndoRestores
<1>3. CASE UNCHANGED vars
  BY <1>3 DEF vars, UndoRestores
<1>4. ASSUME NEW c \in Commit, Begin(c) \/ BeginRefused(c) PROVE UndoRestores'
  BY <1>2, <1>4 DEF Begin, BeginRefused, Takes
<1>5. ASSUME NEW t \in Table, TakeTable(t) PROVE UndoRestores'
  BY <1>1, <1>5 DEF TakeTable
<1>6. CASE ApplyOp
  <2>1. PICK t, op : t = table /\ op = Head(staged[table])
    OBVIOUS
  <2>2. /\ t \in Table /\ pc = "apply" /\ UpdateIn(t, op, RowId)
        /\ \/ op.kind = "add" /\ InsertRow(t, op.id, op.cells)
           \/ op.kind = "delete" /\ RemoveRow(t, op.id) /\ op.id \in DOMAIN rows[t]
    BY <1>6, <2>1, NextOp
  <2>3. CASE op.kind = "add"
    <3>1. InsertRow(t, op.id, op.cells)
      BY <2>2, <2>3
    <3>2. op.id \in RowId /\ CellsIn(t, op.cells, RowId)
      BY <2>2, <2>3 DEF UpdateIn
    <3>3. \A u \in Table : UndoAll(rows'[u], undo'[u]) = UndoAll(rows[u], undo[u])
      BY <2>2, <3>1, <3>2, InsertKeeps DEF Base, ShapeNow, Control
    <3> QED
      BY <1>1, <1>6, <2>2, <3>3 DEF ApplyOp, local
  <2>4. CASE op.kind # "add"
    <3>1. RemoveRow(t, op.id) /\ op.id \in DOMAIN rows[t]
      BY <2>2, <2>4
    <3>2. \A u \in Table : UndoAll(rows'[u], undo'[u]) = UndoAll(rows[u], undo[u])
      BY <2>2, <3>1, RemoveKeeps DEF Base, ShapeNow
    <3> QED
      BY <1>1, <1>6, <2>2, <3>2 DEF ApplyOp, local
  <2> QED
    BY <2>3, <2>4
<1>7. CASE LeaveTable \/ ApplyUnions \/ Rebuild \/ CheckAccepted \/ CheckRejected
  BY <1>1, <1>7 DEF LeaveTable, ApplyUnions, Rebuild, CheckAccepted, CheckRejected, local
<1>8. CASE Derive
  <2>1. PICK x : x = Head(fresh)
    OBVIOUS
  <2>2. NewRowIn(x, RowId) /\ InsertRow(x.table, x.id, x.cells)
    BY <1>8, <2>1, NextRow
  <2>3. \A u \in Table : UndoAll(rows'[u], undo'[u]) = UndoAll(rows[u], undo[u])
    BY <2>2, InsertKeeps DEF Base, ShapeNow, Control, NewRowIn
  <2> QED
    BY <1>1, <1>8, <2>3 DEF Derive
<1>9. CASE Record \/ Rollback \/ Reload
  BY <1>9 DEF Record, Rollback, Reload, UndoRestores
<1> QED
  BY <1>3, <1>4, <1>5, <1>6, <1>7, <1>8, <1>9 DEF Next, Work

\* The two together are inductive: the rollback needs what undoing gives, and what it
\* gives needs a well-formed log.
LEMMA BaseHolds == ViewsClosed => (Spec => [](Base /\ UndoRestores))
<1> SUFFICES ASSUME ViewsClosed PROVE Spec => [](Base /\ UndoRestores)
  OBVIOUS
<1>1. Init => Base /\ UndoRestores
  BY BaseInit DEF Init, UndoRestores
<1>2. Base /\ UndoRestores /\ [Next]_vars => Base' /\ UndoRestores'
  <2> SUFFICES ASSUME Base, UndoRestores, [Next]_vars PROVE Base' /\ UndoRestores'
    OBVIOUS
  <2>1. ShapeNow(RowId)'
    BY ShapeStep
  <2>2. ShapeThen(RowId)'
    BY ShapeThenStep DEF Base
  <2>3. Control' /\ StagedFits'
    BY ControlStep
  <2> QED
    BY <2>1, <2>2, <2>3, UndoStep DEF Base
<1> QED
  BY <1>1, <1>2, PTL DEF Spec

\* Wherever apply_commit_atomic is, Store::rollback_to gives back the tables as they
\* were when the commit began.
THEOREM UndoWorks == ViewsClosed => (Spec => []UndoRestores)
BY BaseHolds, PTL

\* The invariant gives every variable its type.
LEMMA BaseTypes == Base => TypeOK
<1> SUFFICES ASSUME Base PROVE TypeOK
  OBVIOUS
<1>1. ASSUME NEW t \in Table
      PROVE  /\ DOMAIN rows[t] \subseteq RowId
             /\ \A i \in DOMAIN staged[t] : UpdateType(staged[t][i])
             /\ \A i \in DOMAIN undo[t] : UpdateType(undo[t][i])
  <2>1. DOMAIN rows[t] \subseteq RowId
    BY DEF Base, ShapeNow, TablesIn, TableIn
  <2>2. \A op \in Range(staged[t]) : UpdateType(op)
    BY DEF Base, ShapeNow, StagedIn, UpdateIn, UpdateType
  <2>3. \A op \in Range(undo[t]) : UpdateType(op)
    BY DEF Base, ShapeNow, LogsOK
  <2> QED
    BY <2>1, <2>2, <2>3 DEF Range
<1>2. DOMAIN canon \subseteq RowId /\ Range(canon) \subseteq DOMAIN canon
  BY DEF Base, ShapeNow, CanonIn, Led, Range
<1>3. \A x \in DOMAIN cq : cq[x] \in Int \ {0}
  BY DEF Base, ShapeNow, ZsetIn
<1>4. displaced \in Seq(RowId) /\ unions \in Seq(RowId \X RowId)
  BY DEF Base, ShapeNow
<1> QED
  BY <1>1, <1>2, <1>3, <1>4 DEF Base, Control, DictOK, TypeOK, Busy

\* In every reachable state each variable of the store has its type: ids are row ids,
\* no hash is twice in the dictionary, weights are not zero.
THEOREM TypeCorrect == ViewsClosed => (Spec => []TypeOK)
BY BaseHolds, BaseTypes, PTL

-----------------------------------------------------------------------------
(* Primary keys *)

KeysHeld(tbls) ==
  \A t \in Table : \A r, s \in DOMAIN tbls[t] :
    Schema[t].key # NoKey /\ KeyOf(t, tbls[t][r]) = KeyOf(t, tbls[t][s]) => r = s

\* insert_row lets no second row have a key,
LEMMA InsertKeys ==
  ASSUME TablesIn(rows, RowId), KeysHeld(rows), NEW t \in Table, NEW r, NEW cells,
         InsertRow(t, r, cells)
  PROVE  KeysHeld(rows')
<1>1. CASE UNCHANGED rows
  BY <1>1
<1>2. CASE ~UNCHANGED rows
  <2>1. /\ r \notin DOMAIN rows[t] /\ ~KeyTaken(t, cells)
        /\ rows'[t] = With(rows[t], r, cells)
        /\ \A u \in Table \ {t} : rows'[u] = rows[u]
    BY <1>2, InsertIs
  <2>2. /\ DOMAIN rows'[t] = DOMAIN rows[t] \cup {r} /\ rows'[t][r] = cells
        /\ \A s \in DOMAIN rows[t] : rows'[t][s] = rows[t][s]
    BY <2>1 DEF With
  <2>3. ASSUME NEW u \in Table, NEW s \in DOMAIN rows'[u], NEW v \in DOMAIN rows'[u],
               Schema[u].key # NoKey, KeyOf(u, rows'[u][s]) = KeyOf(u, rows'[u][v])
        PROVE  s = v
    <3>1. CASE u # t
      BY <2>1, <2>3, <3>1 DEF KeysHeld
    <3>2. CASE u = t
      <4>1. \A w \in DOMAIN rows[t] : KeyOf(t, rows[t][w]) # KeyOf(t, cells)
        BY <2>1, <2>3, <3>2 DEF KeyTaken
      <4> QED
        BY <2>2, <2>3, <3>2, <4>1 DEF KeysHeld
    <3> QED
      BY <3>1, <3>2
  <2> QED
    BY <2>3 DEF KeysHeld
<1> QED
  BY <1>1, <1>2

\* a removal frees one,
LEMMA RemoveKeys ==
  ASSUME TablesIn(rows, RowId), LogsOK(undo), KeysHeld(rows),
         NEW t \in Table, NEW r, r \in DOMAIN rows[t], RemoveRow(t, r)
  PROVE  KeysHeld(rows')
<1>1. /\ DOMAIN rows'[t] \subseteq DOMAIN rows[t]
      /\ \A s \in DOMAIN rows'[t] : rows'[t][s] = rows[t][s]
      /\ \A u \in Table \ {t} : rows'[u] = rows[u]
  BY RemoveKeeps
<1> QED
  BY <1>1 DEF KeysHeld

\* and a rollback goes back to a state that had each once.
LEMMA KeysStep ==
  ASSUME Base, UndoRestores, KeysHeld(rows), KeysHeld(before), [Next]_vars
  PROVE  KeysHeld(rows)' /\ KeysHeld(before)'
<1>0. TablesIn(rows, RowId) /\ LogsOK(undo)
  BY DEF Base, ShapeNow
<1>1. ASSUME UNCHANGED <<rows, before>> PROVE KeysHeld(rows)' /\ KeysHeld(before)'
  BY <1>1
<1>2. KeysHeld(EachTable(EmptyFun))
  BY EachTableIs, EmptyIsSeq DEF KeysHeld, EmptyFun
<1>3. CASE UNCHANGED vars
  BY <1>1, <1>3 DEF vars
<1>4. ASSUME NEW c \in Commit, Begin(c) \/ BeginRefused(c)
      PROVE  KeysHeld(rows)' /\ KeysHeld(before)'
  BY <1>4 DEF Begin, BeginRefused, Snapshot
<1>5. ASSUME NEW t \in Table, TakeTable(t) PROVE KeysHeld(rows)' /\ KeysHeld(before)'
  BY <1>1, <1>5 DEF TakeTable
<1>6. CASE ApplyOp
  <2>1. PICK t, op : t = table /\ op = Head(staged[table])
    OBVIOUS
  <2>2. KeysHeld(rows)'
    BY <1>0, <1>6, <2>1, NextOp, InsertKeys, RemoveKeys
  <2> QED
    BY <1>6, <2>2 DEF ApplyOp, local
<1>7. CASE LeaveTable \/ ApplyUnions \/ Rebuild \/ CheckAccepted \/ CheckRejected
  BY <1>1, <1>7 DEF LeaveTable, ApplyUnions, Rebuild, CheckAccepted, CheckRejected, local
<1>8. CASE Derive
  <2>1. PICK x : x = Head(fresh)
    OBVIOUS
  <2>2. x.table \in Table /\ InsertRow(x.table, x.id, x.cells)
    BY <1>8, <2>1, NextRow
  <2>3. KeysHeld(rows)'
    BY <1>0, <2>2, InsertKeys
  <2> QED
    BY <1>8, <2>3 DEF Derive
<1>9. CASE Record
  BY <1>2, <1>9 DEF Record, DropLocals
<1>10. CASE Rollback
  <2>1. rows' = before
    BY <1>10, BackToBefore
  <2> QED
    BY <1>2, <1>10, <2>1 DEF Rollback, DropLocals
<1>11. CASE Reload
  BY <1>2, <1>11 DEF Reload, Empty, local
<1> QED
  BY <1>3, <1>4, <1>5, <1>6, <1>7, <1>8, <1>9, <1>10, <1>11 DEF Next, Work

\* No primary key is ever held by two rows, in the middle of a rebuild or after a
\* rollback neither, although merging rewrites key cells.
THEOREM KeysStayUnique == ViewsClosed => (Spec => []KeysUnique)
<1> SUFFICES ASSUME ViewsClosed PROVE Spec => []KeysUnique
  OBVIOUS
<1>1. Init => KeysHeld(rows) /\ KeysHeld(before)
  BY EachTableIs, EmptyIsSeq DEF Init, Empty, KeysHeld, EmptyFun
<1>2. Base /\ UndoRestores /\ KeysHeld(rows) /\ KeysHeld(before) /\ [Next]_vars
        => KeysHeld(rows)' /\ KeysHeld(before)'
  BY KeysStep
<1>3. KeysHeld(rows) => KeysUnique
  BY DEF KeysHeld, KeysUnique
<1> QED
  BY <1>1, <1>2, <1>3, BaseHolds, PTL DEF Spec

-----------------------------------------------------------------------------
(***************************************************************************)
(* The query engine's copy.  While updates are applied, what is stored is  *)
(* what was stored when the commit began, with the changes collected in    *)
(* query_tx, but for those of the table at hand that are still to be done. *)
(***************************************************************************)
FactsOf(tbls) == UNION {{<<t, r, tbls[t][r]>> : r \in DOMAIN tbls[t]} : t \in Table}
BaseOf(tbls) == {x \in FactsOf(tbls) : Schema[x[1]].source}
Held(tbls, x) == IF x \in FactsOf(tbls) THEN 1 ELSE 0

Pending == IF table = NoTable THEN EmptyFun ELSE TableDelta(table)

Accounted ==
  \A x : Held(rows, x) + Weight(Pending, x) = Held(before, x) + Weight(delta, x)

InSync(tbls) == cq = [x \in BaseOf(tbls) |-> 1] /\ Accepts(BaseOf(tbls))

Synced ==
  /\ pc \in {"idle", "derive"} => InSync(rows)
  /\ pc \in {"apply", "rebuild", "check", "failed"} => InSync(before)
  /\ pc \in {"apply", "rebuild", "check"} => Accounted

\* The rows of a state, as <<table, id, cells>>
LEMMA FactsAre ==
  ASSUME NEW tbls, NEW x
  PROVE  x \in FactsOf(tbls) <=>
           \E t \in Table : \E r \in DOMAIN tbls[t] : x = <<t, r, tbls[t][r]>>
BY DEF FactsOf

\* One more row is one more fact.
LEMMA FactsWith ==
  ASSUME NEW old, NEW new, NEW t \in Table, NEW r, NEW cells, r \notin DOMAIN old[t],
         new[t] = With(old[t], r, cells), \A u \in Table \ {t} : new[u] = old[u]
  PROVE  /\ FactsOf(new) = FactsOf(old) \cup {<<t, r, cells>>}
         /\ <<t, r, cells>> \notin FactsOf(old)
<1>1. /\ DOMAIN new[t] = DOMAIN old[t] \cup {r} /\ new[t][r] = cells
      /\ \A s \in DOMAIN old[t] : new[t][s] = old[t][s]
  BY DEF With
<1>2. <<t, r, cells>> \notin FactsOf(old)
  BY FactsAre
<1>3. ASSUME NEW x PROVE x \in FactsOf(new) <=> x \in FactsOf(old) \/ x = <<t, r, cells>>
  <2>1. ASSUME x \in FactsOf(new) PROVE x \in FactsOf(old) \/ x = <<t, r, cells>>
    <3>1. PICK u \in Table : \E s \in DOMAIN new[u] : x = <<u, s, new[u][s]>>
      BY <2>1, FactsAre
    <3>2. PICK s \in DOMAIN new[u] : x = <<u, s, new[u][s]>>
      BY <3>1
    <3>3. CASE u = t /\ s = r
      BY <1>1, <3>2, <3>3
    <3>4. CASE ~(u = t /\ s = r)
      <4>1. s \in DOMAIN old[u] /\ x = <<u, s, old[u][s]>>
        BY <1>1, <3>2, <3>4
      <4> QED
        BY <4>1, FactsAre
    <3> QED
      BY <3>3, <3>4
  <2>2. ASSUME x \in FactsOf(old) PROVE x \in FactsOf(new)
    <3>1. PICK u \in Table : \E s \in DOMAIN old[u] : x = <<u, s, old[u][s]>>
      BY <2>2, FactsAre
    <3>2. PICK s \in DOMAIN old[u] : x = <<u, s, old[u][s]>>
      BY <3>1
    <3>3. s \in DOMAIN new[u] /\ x = <<u, s, new[u][s]>>
      BY <1>1, <3>2
    <3> QED
      BY <3>3, FactsAre
  <2>3. <<t, r, cells>> \in FactsOf(new)
    <3>1. r \in DOMAIN new[t] /\ <<t, r, cells>> = <<t, r, new[t][r]>>
      BY <1>1
    <3> QED
      BY <3>1, FactsAre
  <2> QED
    BY <2>1, <2>2, <2>3
<1> QED
  BY <1>2, <1>3

\* One row less is one fact less.
LEMMA FactsWithout ==
  ASSUME NEW old, NEW new, NEW t \in Table, NEW r, r \in DOMAIN old[t],
         new[t] = Restrict(old[t], DOMAIN old[t] \ {r}),
         \A u \in Table \ {t} : new[u] = old[u]
  PROVE  /\ FactsOf(new) = FactsOf(old) \ {<<t, r, old[t][r]>>}
         /\ <<t, r, old[t][r]>> \in FactsOf(old)
<1>1. /\ DOMAIN new[t] = DOMAIN old[t] \ {r}
      /\ \A s \in DOMAIN new[t] : new[t][s] = old[t][s]
  BY DEF Restrict
<1>2. <<t, r, old[t][r]>> \in FactsOf(old)
  BY FactsAre
<1>3. ASSUME NEW x PROVE x \in FactsOf(new) <=> x \in FactsOf(old) /\ x # <<t, r, old[t][r]>>
  <2>1. ASSUME x \in FactsOf(new) PROVE x \in FactsOf(old) /\ x # <<t, r, old[t][r]>>
    <3>1. PICK u \in Table : \E s \in DOMAIN new[u] : x = <<u, s, new[u][s]>>
      BY <2>1, FactsAre
    <3>2. PICK s \in DOMAIN new[u] : x = <<u, s, new[u][s]>>
      BY <3>1
    <3>3. s \in DOMAIN old[u] /\ x = <<u, s, old[u][s]>> /\ ~(u = t /\ s = r)
      BY <1>1, <3>2
    <3> QED
      BY <3>3, FactsAre
  <2>2. ASSUME x \in FactsOf(old), x # <<t, r, old[t][r]>> PROVE x \in FactsOf(new)
    <3>1. PICK u \in Table : \E s \in DOMAIN old[u] : x = <<u, s, old[u][s]>>
      BY <2>2, FactsAre
    <3>2. PICK s \in DOMAIN old[u] : x = <<u, s, old[u][s]>>
      BY <3>1
    <3>3. s \in DOMAIN new[u] /\ x = <<u, s, new[u][s]>>
      BY <1>1, <2>2, <3>2
    <3> QED
      BY <3>3, FactsAre
  <2> QED
    BY <2>1, <2>2
<1> QED
  BY <1>2, <1>3

\* Facts and weights of a well-formed state
LEMMA WeightsAre ==
  ASSUME NEW I, NEW z, ZsetIn(z, I)
  PROVE  /\ \A x : Weight(z, x) \in Int
         /\ \A x : Weight(z, x) # 0 <=> x \in DOMAIN z
BY DEF ZsetIn, Weight

\* One update changes what is stored by what table_delta_from_ops says of it.
LEMMA ChangeCounts ==
  ASSUME TablesIn(rows, RowId), LogsOK(undo), NEW t \in Table, NEW op,
         \/ op.kind = "add" /\ InsertRow(t, op.id, op.cells) /\ pc' = pc /\ pc = "apply"
         \/ op.kind = "delete" /\ RemoveRow(t, op.id) /\ op.id \in DOMAIN rows[t]
  PROVE  \A x : Held(rows', x) = Held(rows, x) + Weight(Change(t, op), x)
<1>1. CASE op.kind = "add" /\ InsertRow(t, op.id, op.cells) /\ pc' = pc /\ pc = "apply"
  <2>1. /\ op.id \notin DOMAIN rows[t] /\ rows'[t] = With(rows[t], op.id, op.cells)
        /\ \A u \in Table \ {t} : rows'[u] = rows[u]
    BY <1>1, InsertIs
  <2>2. PICK f : f = <<t, op.id, op.cells>>
    OBVIOUS
  <2>3. FactsOf(rows') = FactsOf(rows) \cup {f} /\ f \notin FactsOf(rows)
    BY <2>1, <2>2, FactsWith
  <2>4. Change(t, op) = [x \in {f} |-> 1]
    BY <1>1, <2>2 DEF Change
  <2>5. \A x : Weight(Change(t, op), x) = IF x = f THEN 1 ELSE 0
    BY <2>4 DEF Weight
  <2> QED
    BY <2>3, <2>5 DEF Held
<1>2. CASE op.kind = "delete" /\ RemoveRow(t, op.id) /\ op.id \in DOMAIN rows[t]
  <2>1. /\ rows'[t] = Restrict(rows[t], DOMAIN rows[t] \ {op.id})
        /\ \A u \in Table \ {t} : rows'[u] = rows[u]
    BY <1>2 DEF RemoveRow, TablesIn, PerTable, IsFcn
  <2>2. PICK f : f = <<t, op.id, rows[t][op.id]>>
    OBVIOUS
  <2>3. FactsOf(rows') = FactsOf(rows) \ {f} /\ f \in FactsOf(rows)
    BY <1>2, <2>1, <2>2, FactsWithout
  <2>4. Change(t, op) = [x \in {f} |-> -1]
    BY <1>2, <2>2 DEF Change
  <2>5. \A x : Weight(Change(t, op), x) = IF x = f THEN -1 ELSE 0
    BY <2>4 DEF Weight
  <2> QED
    BY <2>3, <2>5 DEF Held
<1> QED
  BY <1>1, <1>2

\* Nothing is pending of a table whose updates are done.
LEMMA NothingPending ==
  ASSUME NEW t, staged[t] = <<>>
  PROVE  \A x : Weight(TableDelta(t), x) = 0
<1>1. PICK u : u = Changes(t, staged[t])
  OBVIOUS
<1>2. u = <<>>
  <2>1. u \in [1 .. 0 -> {}]
    <3>1. u = [i \in DOMAIN <<>> |-> Change(t, <<>>[i])]
      BY <1>1 DEF Changes
    <3>2. DOMAIN <<>> = {} /\ 1 .. 0 = {}
      BY EmptyIsSeq
    <3> QED
      BY <3>1, <3>2
  <2>2. u \in Seq({}) /\ Len(u) = 0
    BY <2>1, ListIsSeq
  <2> QED
    BY <2>2, EmptySeq
<1>3. TableDelta(t) = Summing!Fold(EmptyFun, u)
  BY <1>1, SumFold DEF TableDelta, Changes
<1>4. TableDelta(t) = EmptyFun
  BY <1>2, <1>3, Summing!FoldEmpty
<1> QED
  BY <1>4, EmptyZset

\* The updates that remain change the same rows as before.
LEMMA RestUnchanged ==
  ASSUME Base, ApplyOp, pc' = "apply", NEW t, NEW op, t = table, op = Head(staged[table])
  PROVE  Changes(t, staged[t])' = Tail(Changes(t, staged[t]))
<1>1. /\ t \in Table /\ pc = "apply" /\ staged[t] # <<>> /\ IsSeq(staged[t])
      /\ op = staged[t][1] /\ DeletesOnce(staged[t], DOMAIN rows[t])
      /\ staged'[t] = Tail(staged[t])
      /\ \/ op.kind = "add" /\ InsertRow(t, op.id, op.cells)
         \/ op.kind = "delete" /\ RemoveRow(t, op.id) /\ op.id \in DOMAIN rows[t]
  BY NextOp
<1>2. TablesIn(rows, RowId) /\ LogsOK(undo) /\ StagedIn(t, staged[t], RowId)
  BY <1>1 DEF Base, ShapeNow
<1>3. PICK s, w : s = staged[t] /\ w = Tail(staged[t])
  OBVIOUS
<1>4. /\ Len(s) \in Nat /\ DOMAIN s = 1 .. Len(s) /\ DOMAIN w = 1 .. Len(s) - 1
      /\ \A i \in DOMAIN w : w[i] = s[i+1] /\ i + 1 \in DOMAIN s
  BY <1>1, <1>3, TailIsSeq
<1>5. ASSUME NEW i \in DOMAIN w, w[i].kind = "delete"
      PROVE  rows'[t][w[i].id] = rows[t][w[i].id]
  <2>1. CASE op.kind = "add" /\ InsertRow(t, op.id, op.cells)
    <3>1. w[i].id \in DOMAIN rows[t]
      BY <1>1, <1>3, <1>5, TailDeletes DEF DeletesOnce
    <3>2. op.id \notin DOMAIN rows[t] /\ rows'[t] = With(rows[t], op.id, op.cells)
      BY <1>1, <1>2, <2>1, InsertIs
    <3> QED
      BY <3>1, <3>2 DEF With
  <2>2. CASE op.kind = "delete" /\ RemoveRow(t, op.id) /\ op.id \in DOMAIN rows[t]
    <3>1. w[i].id \in DOMAIN rows[t] \ {op.id}
      <4>1. DeletesOnce(w, DOMAIN rows[t] \ {op.id})
        BY <1>1, <1>3, <2>2, TailDeletes
      <4> QED
        BY <1>5, <4>1 DEF DeletesOnce
    <3>2. /\ DOMAIN rows'[t] = DOMAIN rows[t] \ {op.id}
          /\ \A r \in DOMAIN rows'[t] : rows'[t][r] = rows[t][r]
      BY <1>1, <1>2, <2>2, RemoveKeeps
    <3> QED
      BY <3>1, <3>2
  <2> QED
    BY <1>1, <2>1, <2>2
<1>6. PICK u, v : u = Changes(t, staged[t]) /\ v = Changes(t, staged[t])'
  OBVIOUS
<1>7. /\ u \in Seq(Range(u)) /\ u # <<>> /\ Len(u) = Len(s)
      /\ \A i \in 1 .. Len(s) : u[i] = Change(t, s[i]) /\ u[i] \in Range(u)
  <2>1. u \in Seq(Range(u))
    BY <1>1, <1>2, <1>6, ChangesIn DEF TablesIn
  <2>2. DOMAIN u = 1 .. Len(s) /\ \A i \in 1 .. Len(s) : u[i] = Change(t, s[i])
    BY <1>3, <1>4, <1>6 DEF Changes
  <2>3. Len(u) = Len(s) /\ \A i \in 1 .. Len(s) : u[i] \in Range(u)
    BY <1>4, <2>1, <2>2, SeqIs
  <2>4. Len(s) # 0
    BY <1>1, <1>3, EmptySeq DEF IsSeq
  <2> QED
    BY <2>1, <2>2, <2>3, <2>4
<1>8. DOMAIN v = DOMAIN w /\ \A i \in DOMAIN w : v[i] = u[i+1]
  <2>1. v = [i \in DOMAIN w |-> Change(t, w[i])']
    BY <1>1, <1>3, <1>6 DEF Changes
  <2>2. ASSUME NEW i \in DOMAIN w PROVE Change(t, w[i])' = Change(t, w[i])
    <3>1. w[i].kind \in {"add", "delete"}
      <4>1. s[i+1] \in Range(s) /\ w[i] = s[i+1]
        BY <1>4 DEF Range
      <4> QED
        BY <1>2, <1>3, <4>1 DEF StagedIn, UpdateIn
    <3>2. CASE w[i].kind = "add"
      BY <3>2 DEF Change
    <3>3. CASE w[i].kind = "delete"
      <4>1. PICK a, b : a = rows[t][w[i].id] /\ b = rows'[t][w[i].id]
        OBVIOUS
      <4>2. /\ Change(t, w[i]) = [x \in {<<t, w[i].id, a>>} |-> -1]
            /\ Change(t, w[i])' = [x \in {<<t, w[i].id, b>>} |-> -1]
        BY <3>3, <4>1 DEF Change
      <4>3. a = b
        BY <1>5, <3>3, <4>1
      <4> QED
        BY <4>2, <4>3
    <3> QED
      BY <3>1, <3>2, <3>3
  <2> QED
    BY <1>4, <1>7, <2>1, <2>2
<1>9. v \in [1 .. Len(s) - 1 -> Range(u)]
  <2>1. v = [i \in DOMAIN w |-> v[i]]
    BY <1>1, <1>3, <1>6 DEF Changes
  <2> QED
    BY <1>4, <1>7, <1>8, <2>1
<1>10. v = Tail(u)
  <2>1. Len(s) - 1 \in Nat
    BY <1>4, <1>7, EmptySeq
  <2>2. v \in Seq(Range(u)) /\ Len(v) = Len(s) - 1
    BY <1>9, <2>1, ListIsSeq
  <2>3. /\ Tail(u) \in Seq(Range(u)) /\ Len(Tail(u)) = Len(s) - 1
        /\ \A i \in 1 .. Len(s) - 1 : Tail(u)[i] = u[i+1]
    BY <1>7
  <2> QED
    BY <1>4, <1>8, <2>2, <2>3, SeqEqual
<1> QED
  BY <1>6, <1>10

\* What an update changes is no longer pending once it is applied.
LEMMA PendingStep ==
  ASSUME Base, ApplyOp, pc' = "apply", NEW t, NEW op, t = table, op = Head(staged[table])
  PROVE  \A x : /\ Weight(Change(t, op), x) \in Int /\ Weight(TableDelta(t)', x) \in Int
                /\ Weight(TableDelta(t), x) = Weight(Change(t, op), x) + Weight(TableDelta(t)', x)
<1>1. /\ t \in Table /\ pc = "apply" /\ staged[t] # <<>> /\ IsSeq(staged[t])
      /\ op = staged[t][1] /\ DeletesOnce(staged[t], DOMAIN rows[t])
  BY NextOp
<1>2. TableIn(t, rows[t], RowId) /\ StagedIn(t, staged[t], RowId)
  BY <1>1 DEF Base, ShapeNow, TablesIn
<1>3. PICK u : u = Changes(t, staged[t])
  OBVIOUS
<1>4. u \in Seq(Range(u)) /\ \A z \in Range(u) : ZsetIn(z, RowId)
  BY <1>1, <1>2, <1>3, ChangesIn
<1>5. u # <<>> /\ Head(u) = Change(t, op)
  <2>1. 1 \in DOMAIN staged[t]
    BY <1>1, TailIsSeq
  <2>2. 1 \in DOMAIN u /\ u[1] = Change(t, op)
    BY <1>1, <1>3, <2>1 DEF Changes
  <2>3. u # <<>>
    BY <2>2, EmptyIsSeq
  <2> QED
    BY <1>4, <2>2, <2>3
<1>6. PICK h, v : h = Head(u) /\ v = Tail(u)
  OBVIOUS
<1>7. ZsetIn(h, RowId) /\ v \in Seq(Range(u)) /\ h = Change(t, op)
  <2>1. Head(u) \in Range(u) /\ Tail(u) \in Seq(Range(u))
    BY <1>4, <1>5
  <2> QED
    BY <1>4, <1>5, <1>6, <2>1
<1>8. TableDelta(t) = Summing!Fold(EmptyFun, u)
  BY <1>3, SumFold DEF TableDelta, Changes
<1>9. TableDelta(t)' = Summing!Fold(EmptyFun, v)
  <2>1. v = Changes(t, staged[t])'
    BY <1>3, <1>6, RestUnchanged
  <2>2. TableDelta(t)' = FoldLeft(ZSum, EmptyFun, v)
    BY <2>1 DEF TableDelta, Changes
  <2> QED
    BY <2>2, SumFold
<1>10. PICK b : b = ZSum(EmptyFun, h)
  OBVIOUS
<1>11. ZsetIn(b, RowId) /\ \A x : Weight(b, x) = Weight(h, x) /\ Weight(h, x) \in Int
  <2>1. ZsetIn(EmptyFun, RowId) /\ \A x : Weight(EmptyFun, x) = 0
    BY EmptyZset
  <2> QED
    BY <1>7, <1>10, <2>1, SumIn
<1>12. TableDelta(t) = Summing!Fold(b, v)
  BY <1>4, <1>5, <1>6, <1>8, <1>10, Summing!FoldHead
<1>13. \A x : Weight(Summing!Fold(EmptyFun, v), x) \in Int
              /\ Weight(Summing!Fold(b, v), x)
                   = Weight(b, x) + Weight(Summing!Fold(EmptyFun, v), x)
  BY <1>4, <1>7, <1>11, SumFromBase
<1> QED
  BY <1>7, <1>9, <1>11, <1>12, <1>13

\* The rules are decided on the rows that are stored.
LEMMA CheckSync ==
  ASSUME Base, Synced, CheckAccepted
  PROVE  InSync(rows)'
<1>1. PICK fed : fed = Feed(cq, delta)
  OBVIOUS
<1>2. ZsetIn(fed, RowId) /\ ZsetIn(cq, RowId) /\ ZsetIn(delta, RowId)
  BY <1>1, FeedIn DEF Base, ShapeNow
<1>3. /\ cq = [x \in BaseOf(before) |-> 1] /\ Accounted
      /\ \A x : Weight(Pending, x) = 0
  BY EmptyZset DEF CheckAccepted, Synced, InSync, Pending, Base, Control
<1>4. PICK w : w = Restrict(delta, {x \in DOMAIN delta : Schema[x[1]].source})
  OBVIOUS
<1>5. DOMAIN w = {x \in DOMAIN delta : Schema[x[1]].source} /\ IsFcn(w)
      /\ \A x \in DOMAIN w : w[x] = delta[x]
  BY <1>4 DEF Restrict, IsFcn
<1>6. ZsetIn(w, RowId)
  <2>1. DOMAIN w \in SUBSET DOMAIN delta
    BY <1>5
  <2> QED
    BY <1>2, <1>5, <2>1, FS_Subset DEF ZsetIn
<1>7. \A x : Weight(fed, x) = Weight(cq, x) + Weight(w, x)
  <2>1. fed = ZSum(cq, w)
    BY <1>1, <1>4 DEF Feed
  <2> QED
    BY <1>2, <1>6, <2>1, SumIn
<1>8. \A x : Weight(cq, x) = IF x \in BaseOf(before) THEN 1 ELSE 0
  BY <1>3 DEF Weight
<1>9. \A x : Weight(delta, x) \in Int /\ Held(rows, x) = Held(before, x) + Weight(delta, x)
  <2>1. \A x : Weight(delta, x) \in Int /\ Held(rows, x) \in Int /\ Held(before, x) \in Int
    BY <1>2, WeightsAre DEF Held
  <2> QED
    BY <1>3, <2>1 DEF Accounted
<1>10. ASSUME NEW x PROVE Weight(fed, x) = IF x \in BaseOf(rows) THEN 1 ELSE 0
  <2>1. CASE Schema[x[1]].source
    <3>1. Weight(w, x) = Weight(delta, x)
      BY <1>5, <2>1 DEF Weight
    <3>2. (x \in BaseOf(before) <=> x \in FactsOf(before))
          /\ (x \in BaseOf(rows) <=> x \in FactsOf(rows))
      BY <2>1 DEF BaseOf
    <3> QED
      BY <1>7, <1>8, <1>9, <3>1, <3>2 DEF Held
  <2>2. CASE ~Schema[x[1]].source
    <3>1. Weight(w, x) = 0
      BY <1>5, <2>2 DEF Weight
    <3>2. x \notin BaseOf(before) /\ x \notin BaseOf(rows)
      BY <2>2 DEF BaseOf
    <3> QED
      BY <1>7, <1>8, <3>1, <3>2
  <2> QED
    BY <2>1, <2>2
<1>11. PICK db : db = BaseOf(rows)
  OBVIOUS
<1>12. DOMAIN fed = db /\ \A x \in db : fed[x] = 1
  BY <1>2, <1>10, <1>11, WeightsAre DEF Weight
<1>13. fed = [x \in db |-> 1]
  BY <1>2, <1>12 DEF ZsetIn, IsFcn
<1>14. Support(fed) = db
  BY <1>12 DEF Support
<1>15. Accepts(db)
  BY <1>1, <1>14 DEF CheckAccepted, RulesHold
<1>16. cq' = fed /\ rows' = rows
  BY <1>1 DEF CheckAccepted
<1> QED
  BY <1>11, <1>13, <1>15, <1>16 DEF InSync

\* A view's row is no base row.
LEMMA DeriveSync ==
  ASSUME Base, InSync(rows), Derive
  PROVE  InSync(rows)'
<1>1. PICK x : x = Head(fresh)
  OBVIOUS
<1>2. NewRowIn(x, RowId) /\ InsertRow(x.table, x.id, x.cells)
  BY <1>1, NextRow
<1>3. TablesIn(rows, RowId) /\ x.table \in Table /\ ~Schema[x.table].source
  BY <1>2 DEF Base, ShapeNow, NewRowIn
<1>4. BaseOf(rows') = BaseOf(rows)
  <2>1. CASE UNCHANGED rows
    BY <2>1
  <2>2. CASE ~UNCHANGED rows
    <3>1. PICK f : f = <<x.table, x.id, x.cells>>
      OBVIOUS
    <3>2. FactsOf(rows') = FactsOf(rows) \cup {f}
      <4>1. /\ x.id \notin DOMAIN rows[x.table]
            /\ rows'[x.table] = With(rows[x.table], x.id, x.cells)
            /\ \A u \in Table \ {x.table} : rows'[u] = rows[u]
        BY <1>2, <1>3, <2>2, InsertIs
      <4> QED
        BY <1>3, <3>1, <4>1, FactsWith
    <3>3. f[1] = x.table
      BY <3>1
    <3> QED
      BY <1>3, <3>2, <3>3 DEF BaseOf
  <2> QED
    BY <2>1, <2>2
<1>5. cq' = cq
  BY DEF Derive
<1>6. PICK db : db = BaseOf(rows)
  OBVIOUS
<1>7. db = BaseOf(rows')
  BY <1>4, <1>6
<1> QED
  BY <1>5, <1>6, <1>7 DEF InSync

\* A store without rows is in sync with an empty query engine.
LEMMA NoBase ==
  BaseOf(EachTable(EmptyFun)) = {} /\ EmptyFun = [x \in {} |-> 1]
<1>1. DOMAIN EmptyFun = {} /\ IsFcn(EmptyFun)
  BY EmptyIsSeq, EmptyZset DEF ZsetIn, EmptyFun
<1>2. BaseOf(EachTable(EmptyFun)) = {}
  BY <1>1, EachTableIs DEF BaseOf, FactsOf
<1>3. EmptyFun = [x \in {} |-> 1]
  BY <1>1 DEF IsFcn
<1> QED
  BY <1>2, <1>3

\* What the code leaves open: a row of a view may be refused for its key, after
\* coln-query has committed.
NoViewRefused ==
  pc = "derive" /\ fresh # <<>> => ~KeyTaken(Head(fresh).table, Head(fresh).cells)

\* Every step keeps the account, and the copy in step with the tables.
LEMMA SyncedStep ==
  ASSUME Base, UndoRestores, Synced, NoViewRefused, Accepts({}), [Next]_vars
  PROVE  Synced'
<1>0. TablesIn(rows, RowId) /\ LogsOK(undo) /\ ZsetIn(delta, RowId)
  BY DEF Base, ShapeNow
<1>1. CASE UNCHANGED vars
  BY <1>1 DEF vars, Synced, InSync, Accounted, Pending, TableDelta, Change
<1>2. ASSUME NEW c \in Commit, Begin(c) PROVE Synced'
  <2>1. /\ pc = "idle" /\ pc' = "apply" /\ table = NoTable /\ table' = NoTable
        /\ before' = rows /\ rows' = rows /\ cq' = cq /\ delta' = EmptyFun
    BY <1>2 DEF Begin, Takes, Snapshot, Base, Control
  <2>2. InSync(before)'
    BY <2>1 DEF Synced, InSync
  <2>3. Accounted'
    BY <2>1 DEF Accounted, Pending
  <2> QED
    BY <2>1, <2>2, <2>3 DEF Synced
<1>3. ASSUME NEW c \in Commit, BeginRefused(c) PROVE Synced'
  BY <1>3 DEF BeginRefused, Takes, Snapshot, Synced, InSync
<1>4. ASSUME NEW t \in Table, TakeTable(t) PROVE Synced'
  <2>1. /\ pc = "apply" /\ table = NoTable /\ table' = t /\ t # NoTable
        /\ delta' = ZSum(delta, TableDelta(t)) /\ pc' = pc
        /\ rows' = rows /\ before' = before /\ cq' = cq /\ staged' = staged
    BY <1>4, MarkerAssumption DEF TakeTable
  <2>2. PICK d : d = TableDelta(t)
    OBVIOUS
  <2>3. Pending = EmptyFun /\ Pending' = d
    BY <2>1, <2>2 DEF Pending, TableDelta, Change
  <2>4. ZsetIn(d, RowId)
    BY <1>4, <2>1, <2>2, TableDeltaIn DEF Base, ShapeNow, TablesIn, StagedFits
  <2>5. \A x : /\ Weight(delta', x) = Weight(delta, x) + Weight(d, x)
               /\ Weight(delta, x) \in Int /\ Weight(d, x) \in Int
    BY <1>0, <2>1, <2>2, <2>4, SumIn
  <2>6. \A x : Weight(EmptyFun, x) = 0 /\ Held(rows, x) \in Int /\ Held(before, x) \in Int
    BY EmptyZset DEF Held
  <2>7. \A x : Held(rows, x) + Weight(EmptyFun, x) = Held(before, x) + Weight(delta, x)
    BY <2>1, <2>3 DEF Synced, Accounted
  <2>8. \A x : Held(rows, x) + Weight(d, x) = Held(before, x) + Weight(delta', x)
    BY <2>5, <2>6, <2>7
  <2>9. Accounted'
    BY <2>1, <2>3, <2>8 DEF Accounted
  <2> QED
    BY <2>1, <2>9 DEF Synced, InSync
<1>5. CASE ApplyOp
  <2>1. PICK t, op : t = table /\ op = Head(staged[table])
    OBVIOUS
  <2>2. /\ t \in Table /\ pc = "apply" /\ UNCHANGED <<table, before, delta, cq>>
        /\ UpdateIn(t, op, RowId)
        /\ \/ op.kind = "add" /\ InsertRow(t, op.id, op.cells)
           \/ op.kind = "delete" /\ RemoveRow(t, op.id) /\ op.id \in DOMAIN rows[t]
    BY <1>5, <2>1, NextOp
  <2>3. pc' \in {"apply", "failed", "panicked"} /\ InSync(before)'
    <3>1. pc' \in {pc, "failed", "panicked"}
      BY <2>2 DEF InsertRow, RemoveRow
    <3> QED
      BY <2>2, <3>1 DEF Synced, InSync
  <2>4. ASSUME pc' = "apply" PROVE Accounted'
    <3>1. \A x : Held(rows', x) = Held(rows, x) + Weight(Change(t, op), x)
      BY <1>0, <2>2, <2>4, ChangeCounts
    <3>2. \A x : /\ Weight(Change(t, op), x) \in Int /\ Weight(TableDelta(t)', x) \in Int
                 /\ Weight(TableDelta(t), x)
                      = Weight(Change(t, op), x) + Weight(TableDelta(t)', x)
      BY <1>5, <2>1, <2>4, PendingStep
    <3>3. Pending = TableDelta(t) /\ Pending' = TableDelta(t)' /\ Accounted
      BY <2>1, <2>2, MarkerAssumption DEF Pending, Synced
    <3>4. \A x : Held(rows, x) \in Int /\ Held(before, x) \in Int /\ Weight(delta, x) \in Int
      BY <1>0, WeightsAre DEF Held
    <3>5. \A x : Held(rows, x) + Weight(TableDelta(t), x) = Held(before, x) + Weight(delta, x)
      BY <3>3 DEF Accounted
    <3>6. \A x : Held(rows', x) + Weight(TableDelta(t)', x) = Held(before, x) + Weight(delta, x)
      BY <3>1, <3>2, <3>4, <3>5
    <3> QED
      BY <2>2, <3>3, <3>6 DEF Accounted
  <2> QED
    BY <2>3, <2>4 DEF Synced
<1>6. CASE LeaveTable
  <2>1. /\ pc = "apply" /\ pc' = pc /\ table \in Table /\ staged[table] = <<>>
        /\ table' = NoTable /\ table # NoTable
        /\ rows' = rows /\ before' = before /\ cq' = cq /\ delta' = delta
    BY <1>6 DEF LeaveTable, Base, Control
  <2>2. \A x : Weight(TableDelta(table), x) = 0 /\ Weight(EmptyFun, x) = 0
    BY <2>1, NothingPending, EmptyZset
  <2>3. \A x : Held(rows, x) + Weight(TableDelta(table), x) = Held(before, x) + Weight(delta, x)
    BY <2>1 DEF Synced, Accounted, Pending
  <2>4. Accounted'
    BY <2>1, <2>2, <2>3 DEF Accounted, Pending
  <2> QED
    BY <2>1, <2>4 DEF Synced, InSync
<1>7. CASE ApplyUnions \/ Rebuild
  <2>1. /\ pc \in {"apply", "rebuild"} /\ pc' \in {"apply", "rebuild", "check"}
        /\ table = NoTable /\ table' = NoTable
        /\ rows' = rows /\ before' = before /\ cq' = cq /\ delta' = delta
    BY <1>7 DEF ApplyUnions, Rebuild, local, Base, Control
  <2>2. Accounted'
    BY <2>1 DEF Synced, Accounted, Pending
  <2> QED
    BY <2>1, <2>2 DEF Synced, InSync
<1>8. CASE CheckAccepted
  <2>1. InSync(rows)' /\ pc' \in {"derive", "panicked"}
    BY <1>8, CheckSync DEF CheckAccepted
  <2> QED
    BY <2>1 DEF Synced
<1>9. CASE CheckRejected
  BY <1>9 DEF CheckRejected, local, Synced, InSync
<1>10. CASE Derive
  <2>1. InSync(rows)'
    BY <1>10, DeriveSync DEF Derive, Synced
  <2>2. pc' \in {"derive", "panicked"}
    BY <1>10 DEF Derive, InsertRow, NoViewRefused
  <2> QED
    BY <2>1, <2>2 DEF Synced
<1>11. CASE Record
  BY <1>11 DEF Record, Synced, InSync
<1>12. CASE Rollback
  <2>1. rows' = before
    BY <1>12, BackToBefore
  <2>2. pc = "failed" /\ pc' \in {"idle", "unreadable"} /\ cq' = cq
    BY <1>12 DEF Rollback
  <2> QED
    BY <2>1, <2>2 DEF Synced, InSync
<1>13. CASE Reload
  <2>1. pc' = "idle" /\ rows' = EachTable(EmptyFun) /\ cq' = EmptyFun
    BY <1>13 DEF Reload, Empty
  <2> QED
    BY <2>1, NoBase DEF Synced, InSync
<1> QED
  BY <1>1, <1>2, <1>3, <1>4, <1>5, <1>6, <1>7, <1>8, <1>9, <1>10, <1>11, <1>12, <1>13
     DEF Next, Work

\* So they agree in every reachable state.
LEMMA SyncedHolds ==
  ViewsClosed /\ Accepts({}) => (Spec /\ []NoViewRefused => []Synced)
<1> SUFFICES ASSUME ViewsClosed, Accepts({}) PROVE Spec /\ []NoViewRefused => []Synced
  OBVIOUS
<1>1. Init => Synced
  <2> SUFFICES ASSUME Init PROVE Synced
    OBVIOUS
  <2>1. pc = "idle" /\ rows = EachTable(EmptyFun) /\ cq = EmptyFun
    BY DEF Init, Empty
  <2> QED
    BY <2>1, NoBase DEF Synced, InSync
<1>2. Base /\ UndoRestores /\ Synced /\ NoViewRefused /\ [Next]_vars => Synced'
  BY SyncedStep
<1> QED
  BY <1>1, <1>2, BaseHolds, PTL DEF Spec

\* The rules are decided on the rows that are stored, rewritten ones included, and hold
\* of them between commits; coln-query holds exactly the base rows. This needs that no
\* row of a view is refused for its key: then coln-query would keep a commit that the
\* store rolls back.
THEOREM RulesKept ==
  ViewsClosed /\ Accepts({}) => (Spec /\ []NoViewRefused => []RulesOnStoredRows)
<1>1. Synced => RulesOnStoredRows
  <2> SUFFICES ASSUME Synced, pc = "idle" PROVE Accepts(BaseRows) /\ cq = [x \in BaseRows |-> 1]
    BY DEF RulesOnStoredRows, EnforcedRulesHold, QueryInSync
  <2>1. PICK db : db = BaseOf(rows)
    OBVIOUS
  <2>2. BaseRows = db
    BY <2>1 DEF BaseRows, Stored, BaseOf, FactsOf
  <2>3. Accepts(db) /\ cq = [x \in db |-> 1]
    BY <2>1 DEF Synced, InSync
  <2> QED
    BY <2>2, <2>3
<1> QED
  BY <1>1, SyncedHolds, PTL

UnkeyedViews == \A t \in Table : ~Schema[t].source => Schema[t].key = NoKey

\* Without primary keys on views, which rules out that refusal, nothing is left to ask.
COROLLARY RulesKeptUnkeyed ==
  ViewsClosed /\ Accepts({}) /\ UnkeyedViews => (Spec => []RulesOnStoredRows)
<1> SUFFICES ASSUME ViewsClosed, Accepts({}), UnkeyedViews PROVE Spec => []RulesOnStoredRows
  OBVIOUS
<1>1. Base => NoViewRefused
  <2> SUFFICES ASSUME Base, fresh # <<>>
               PROVE  ~KeyTaken(Head(fresh).table, Head(fresh).cells)
    BY DEF NoViewRefused
  <2>1. PICK x : x = Head(fresh)
    OBVIOUS
  <2>2. NewRowIn(x, RowId)
    <3>1. IsSeq(fresh) /\ \A y \in Range(fresh) : NewRowIn(y, RowId)
      BY DEF Base, ShapeNow
    <3> QED
      BY <2>1, <3>1, TailIsSeq
  <2>3. Schema[x.table].key = NoKey
    BY <2>2 DEF NewRowIn, UnkeyedViews
  <2> QED
    BY <2>1, <2>3 DEF KeyTaken
<1> QED
  BY <1>1, BaseHolds, RulesKept, PTL

-----------------------------------------------------------------------------
(* The ids in use: all that is stored mentions hashes of the dictionary only. *)

\* Transactions without rows make no commit.
RowInEveryCommit == \A c \in Commit : Ops[c] # <<>>

Home ==
  /\ ShapeNow(Known(dict))
  /\ pc \notin {"idle", "unreadable"} => ShapeThen(Known(SubSeq(dict, 1, snap.dict)))
  /\ pc \in Busy => current \in Range(dict)

\* A larger set of row ids does as well,
LEMMA TablesMono ==
  ASSUME NEW I, NEW J, I \subseteq J, NEW tbls, TablesIn(tbls, I)
  PROVE  TablesIn(tbls, J)
BY DEF TablesIn, TableIn, CellsIn

\* for the whole state.
LEMMA ShapeMono ==
  ASSUME NEW I, NEW J, I \subseteq J, ShapeNow(I)
  PROVE  ShapeNow(J)
<1>1. TablesIn(rows, J)
  BY TablesMono DEF ShapeNow
<1>2. \A t \in Table : StagedIn(t, staged[t], J)
  BY DEF ShapeNow, StagedIn, UpdateIn, CellsIn
<1>3. CanonIn(canon, J)
  BY DEF ShapeNow, CanonIn
<1>4. displaced \in Seq(J) /\ unions \in Seq(J \X J)
  BY SeqMonotonic DEF ShapeNow
<1>5. ZsetIn(cq, J) /\ ZsetIn(delta, J)
  BY DEF ShapeNow, ZsetIn, FactIn, CellsIn
<1>6. \A x \in Range(fresh) : NewRowIn(x, J)
  BY DEF ShapeNow, NewRowIn, CellsIn
<1> QED
  BY <1>1, <1>2, <1>3, <1>4, <1>5, <1>6 DEF ShapeNow

\* Beginning a commit interns every hash its rows mention before they are staged.
LEMMA HomeBegin ==
  ASSUME Base, Home, RowInEveryCommit, NEW c \in Commit, Begin(c)
  PROVE  Home'
<1>1. PICK d, e, m : d = dict /\ e = dict' /\ m = Mentions(c)
  OBVIOUS
<1>2. /\ m \in Seq(Commit)
      /\ \A i \in DOMAIN Ops[c] : /\ c \in Range(m)
                                  /\ CellsIn(Ops[c][i].table, Ops[c][i].cells, Known(m))
  BY <1>1, MentionsAll
<1>3. e = FoldLeft(Intern, d, m) /\ DictOK(d)
  BY <1>1 DEF Begin, Base, Control
<1>4. DictOK(e) /\ Extends(d, e) /\ Range(d) \subseteq Range(e) /\ Range(m) \subseteq Range(e)
  BY <1>2, <1>3, InternAll
<1>5. SubSeq(e, 1, Len(d)) = d
  BY <1>3, <1>4, RangeExtends DEF DictOK
<1>6. PICK I, J : I = Known(d) /\ J = Known(e)
  OBVIOUS
<1>7. I \subseteq J /\ I \in SUBSET RowId /\ J \in SUBSET RowId
  BY <1>3, <1>4, <1>6, SeqIs DEF Known, DictOK, RowId
<1>8. ShapeNow(I)
  BY <1>1, <1>6 DEF Home
<1>9. ShapeNow(J)
  BY <1>7, <1>8, ShapeMono
<1>10. c \in Range(e)
  <2>1. 1 \in DOMAIN Ops[c]
    <3>1. DOMAIN Ops[c] = 1 .. Len(Ops[c]) /\ Len(Ops[c]) \in Nat /\ Ops[c] # <<>>
      BY OpsAre DEF RowInEveryCommit
    <3>2. Len(Ops[c]) # 0
      <4>1. PICK s : s = Ops[c]
        OBVIOUS
      <4>2. PICK S : S = {s[i] : i \in 1 .. Len(s)}
        OBVIOUS
      <4>3. s \in [1 .. Len(s) -> S]
        BY <4>1, <4>2, OpsAssumption
      <4>4. s \in Seq(S)
        BY <3>1, <4>1, <4>3, ListIsSeq
      <4> QED
        BY <3>1, <4>1, <4>4, EmptySeq
    <3> QED
      BY <3>1, <3>2
  <2> QED
    BY <1>2, <1>4, <2>1
<1>11. ASSUME NEW i \in DOMAIN Ops[c]
       PROVE  <<c, i>> \in J /\ CellsIn(Ops[c][i].table, Ops[c][i].cells, J)
  <2>1. i \in Nat
    BY OpsAre
  <2>2. Known(m) \subseteq J
    BY <1>4, <1>6 DEF Known
  <2> QED
    BY <1>2, <1>6, <1>10, <2>1, <2>2 DEF CellsIn, Known
<1>12. ShapeNow(J)'
  BY <1>7, <1>9, <1>11, BeginShape
<1>13. snap'.dict = Len(d) /\ ShapeThen(I)'
  BY <1>1, <1>8 DEF Begin, Snapshot, ShapeNow, ShapeThen
<1>14. current' = c
  BY DEF Begin
<1>15. Known(dict)' = J /\ Known(SubSeq(dict, 1, snap.dict))' = I
  BY <1>1, <1>5, <1>6, <1>13 DEF Known
<1> QED
  BY <1>1, <1>10, <1>12, <1>13, <1>14, <1>15 DEF Home

\* A step that leaves the dictionary and the snapshot alone
LEMMA HomeKept ==
  ASSUME Home, UNCHANGED <<dict, snap, before, current>>, pc \notin {"idle", "unreadable"},
         pc' \in Busy => pc \in Busy, ShapeNow(Known(dict)) => ShapeNow(Known(dict))'
  PROVE  Home'
<1>1. ShapeNow(Known(dict))'
  BY DEF Home
<1>2. ShapeThen(Known(SubSeq(dict, 1, snap.dict)))'
  BY DEF Home, ShapeThen, Known
<1> QED
  BY <1>1, <1>2 DEF Home

\* What coln-query holds after a failure, the store still knows.
LEMMA SyncIn ==
  ASSUME Base, Synced, pc = "failed", NEW I, TablesIn(before, I)
  PROVE  ZsetIn(cq, I)
<1>1. PICK db : db = BaseOf(before)
  OBVIOUS
<1>2. cq = [x \in db |-> 1]
  BY <1>1 DEF Synced, InSync
<1>3. IsFcn(cq) /\ DOMAIN cq = db /\ \A x \in db : cq[x] = 1
  BY <1>2 DEF IsFcn
<1>4. IsFiniteSet(DOMAIN cq)
  BY DEF Base, ShapeNow, ZsetIn
<1>5. ASSUME NEW x \in db PROVE FactIn(x, I)
  <2>1. PICK t \in Table : \E r \in DOMAIN before[t] : x = <<t, r, before[t][r]>>
    BY <1>1, FactsAre DEF BaseOf
  <2>2. PICK r \in DOMAIN before[t] : x = <<t, r, before[t][r]>>
    BY <2>1
  <2>3. r \in I /\ CellsIn(t, before[t][r], I)
    BY DEF TablesIn, TableIn
  <2> QED
    BY <2>2, <2>3 DEF FactIn
<1> QED
  BY <1>3, <1>4, <1>5 DEF ZsetIn

\* A rollback shortens the dictionary, and nothing that stays mentions what is dropped.
LEMMA HomeRollback ==
  ASSUME Base, UndoRestores, Synced, Home, Rollback
  PROVE  Home'
<1>1. PICK I : I = Known(SubSeq(dict, 1, snap.dict))
  OBVIOUS
<1>2. pc = "failed" /\ pc' \in {"idle", "unreadable"} /\ dict' = SubSeq(dict, 1, snap.dict)
  BY DEF Rollback
<1>3. ShapeThen(I)
  BY <1>1, <1>2 DEF Home
<1>4. I \in SUBSET RowId
  <2>1. PICK e : e = SubSeq(dict, 1, snap.dict)
    OBVIOUS
  <2>2. DictOK(e)
    BY <2>1, DictPrefix DEF Base, Control
  <2>3. Range(e) \subseteq Commit
    BY <2>2, SeqIs DEF DictOK
  <2>4. I = Range(e) \X Nat
    BY <1>1, <2>1 DEF Known
  <2> QED
    BY <2>3, <2>4 DEF RowId
<1>5. ZsetIn(cq, I)
  BY <1>2, <1>3, SyncIn DEF ShapeThen
<1>6. ShapeNow(I)'
  BY <1>3, <1>4, <1>5, RollbackShape
<1>7. Known(dict)' = I
  BY <1>1, <1>2 DEF Known
<1> QED
  BY <1>2, <1>6, <1>7 DEF Home, Busy

\* Every step keeps to the hashes of the dictionary.
LEMMA HomeStep ==
  ASSUME ViewsClosed, RowInEveryCommit, Base, UndoRestores, Synced, Home, [Next]_vars
  PROVE  Home'
<1>0. PICK I : I = Known(dict)
  OBVIOUS
<1>a. I \in SUBSET RowId /\ ShapeNow(I) /\ Control /\ StagedFits
  <2>1. I \in SUBSET RowId
    BY <1>0, SeqIs DEF Base, Control, DictOK, Known, RowId
  <2> QED
    BY <1>0, <2>1 DEF Base, Home
<1>b. ASSUME UNCHANGED <<dict, snap, before, current>>, pc \notin {"idle", "unreadable"},
             pc' \in Busy => pc \in Busy, ShapeNow(I)'
      PROVE  Home'
  <2>1. Known(dict)' = I
    BY <1>0, <1>b DEF Known
  <2> QED
    BY <1>b, <2>1, HomeKept
<1>1. CASE UNCHANGED vars
  <2>1. ShapeNow(I)' /\ Known(dict)' = I
    BY <1>0, <1>1, <1>a, QuietShape DEF vars, Known
  <2>2. UNCHANGED <<dict, snap, before, current, pc>>
    BY <1>1 DEF vars
  <2> QED
    BY <2>1, <2>2 DEF Home, ShapeThen, Known
<1>2. ASSUME NEW c \in Commit, Begin(c) PROVE Home'
  BY <1>2, HomeBegin
<1>3. ASSUME NEW c \in Commit, BeginRefused(c) PROVE Home'
  <2>1. ShapeNow(I)' /\ Known(dict)' = I
    BY <1>0, <1>3, <1>a, QuietShape DEF BeginRefused, Known
  <2>2. ShapeThen(I)'
    BY <1>3, <1>a DEF BeginRefused, Snapshot, ShapeNow, ShapeThen
  <2>3. SubSeq(dict, 1, Len(dict)) = dict
    <3>1. dict \in Seq(Commit) /\ Extends(dict, dict)
      BY <1>a, SeqIs DEF Control, DictOK, Extends
    <3> QED
      BY <3>1, RangeExtends
  <2>4. Known(SubSeq(dict, 1, snap.dict))' = I
    BY <1>0, <1>3, <2>3 DEF BeginRefused, Snapshot, Known
  <2>5. pc' = "failed"
    BY <1>3 DEF BeginRefused
  <2> QED
    BY <2>1, <2>2, <2>4, <2>5 DEF Home, Busy
<1>4. ASSUME NEW t \in Table, TakeTable(t) PROVE Home'
  <2>1. ShapeNow(I)'
    BY <1>4, <1>a, TakeTableShape
  <2> QED
    BY <1>4, <1>b, <2>1 DEF TakeTable
<1>5. CASE ApplyOp
  <2>1. ShapeNow(I)'
    BY <1>5, <1>a, ApplyOpShape
  <2> QED
    BY <1>5, <1>b, <2>1 DEF ApplyOp, local, Busy
<1>6. CASE LeaveTable \/ CheckRejected
  <2>1. ShapeNow(I)'
    BY <1>6, <1>a, QuietShape
  <2> QED
    BY <1>6, <1>b, <2>1 DEF LeaveTable, CheckRejected, local, Busy
<1>7. CASE ApplyUnions
  <2>1. ShapeNow(I)'
    BY <1>7, <1>a, ApplyUnionsShape
  <2> QED
    BY <1>7, <1>b, <2>1 DEF ApplyUnions, local, Busy
<1>8. CASE Rebuild
  <2>1. ShapeNow(I)'
    BY <1>8, <1>a, RebuildShape
  <2> QED
    BY <1>8, <1>b, <2>1 DEF Rebuild, Busy
<1>9. CASE CheckAccepted
  <2>1. current \in Commit /\ \A n \in Nat : <<current, n>> \in I
    <3>1. current \in Commit /\ current \in Range(dict)
      BY <1>9, <1>a DEF CheckAccepted, Control, Home, Busy
    <3> QED
      BY <1>0, <3>1 DEF Known
  <2>2. ShapeNow(I)'
    BY <1>9, <1>a, <2>1, CheckAcceptedShape
  <2> QED
    BY <1>9, <1>b, <2>2 DEF CheckAccepted, Busy
<1>10. CASE Derive
  <2>1. ShapeNow(I)'
    BY <1>10, <1>a, DeriveShape
  <2> QED
    BY <1>10, <1>b, <2>1 DEF Derive, Busy
<1>11. CASE Record
  <2>1. ShapeNow(I)' /\ Known(dict)' = I /\ pc' = "idle"
    BY <1>0, <1>11, <1>a, RecordShape DEF Record, Known
  <2> QED
    BY <2>1 DEF Home, Busy
<1>12. CASE Rollback
  BY <1>12, HomeRollback
<1>13. CASE Reload
  <2>1. PICK J : J = Known(dict')
    OBVIOUS
  <2>2. ZsetIn(delta, J) /\ fresh = <<>> /\ pc' = "idle"
    BY <1>13, <1>a, EmptyZset DEF Reload, Control, local
  <2>3. ShapeNow(J)'
    BY <1>13, <2>2, EmptyShape
  <2>4. Known(dict)' = J
    BY <2>1 DEF Known
  <2> QED
    BY <2>2, <2>3, <2>4 DEF Home, Busy
<1> QED
  BY <1>1, <1>2, <1>3, <1>4, <1>5, <1>6, <1>7, <1>8, <1>9, <1>10, <1>11, <1>12, <1>13
     DEF Next, Work

\* Every row id in use can be unpacked and leads to the least id of its class, also after
\* a rollback has shortened the dictionary.
THEOREM IdsStayKnown ==
  ViewsClosed /\ Accepts({}) /\ RowInEveryCommit
    => (Spec /\ []NoViewRefused => []IdsResolve)
<1> SUFFICES ASSUME ViewsClosed, Accepts({}), RowInEveryCommit
             PROVE  Spec /\ []NoViewRefused => []IdsResolve
  OBVIOUS
<1>1. Init => Home
  BY EmptyShape DEF Init, Home, Busy
<1>2. Base /\ UndoRestores /\ Synced /\ Home /\ [Next]_vars => Home'
  BY HomeStep
<1>3. Home => IdsResolve
  <2> SUFFICES ASSUME Home PROVE IdsResolve
    OBVIOUS
  <2>1. ASSUME NEW x \in Stored
        PROVE  /\ x[2][1] \in Range(dict)
               /\ \A i \in Schema[x[1]].ids : x[3][i][1] \in Range(dict)
    <3>1. PICK t \in Table : \E r \in DOMAIN rows[t] : x = <<t, r, rows[t][r]>>
      BY DEF Stored
    <3>2. PICK r \in DOMAIN rows[t] : x = <<t, r, rows[t][r]>>
      BY <3>1
    <3>3. r \in Known(dict) /\ CellsIn(t, rows[t][r], Known(dict))
      BY DEF Home, ShapeNow, TablesIn, TableIn
    <3> QED
      BY <3>2, <3>3 DEF CellsIn, Known
  <2>2. ASSUME NEW r \in DOMAIN canon
        PROVE  r[1] \in Range(dict) /\ canon[canon[r]] = canon[r] /\ ~WireBefore(r, canon[r])
    <3>1. r \in Known(dict) /\ Led(canon)
      BY DEF Home, ShapeNow, CanonIn
    <3> QED
      BY <3>1 DEF Led, Known
  <2> QED
    BY <2>1, <2>2 DEF IdsResolve
<1>4. Spec /\ []NoViewRefused => []Synced
  BY SyncedHolds
<1> QED
  BY <1>1, <1>2, <1>3, <1>4, BaseHolds, PTL DEF Spec

-----------------------------------------------------------------------------
(* Between commits *)

\* A row of a view that is stored in a structural table has no twin there.
NoViewTwin ==
  pc = "derive" /\ fresh # <<>> => Twins(Head(fresh).table, Head(fresh).cells) = {}

NoUnions ==
  /\ pc \in {"idle", "rebuild", "check", "derive"} => unions = <<>>
  /\ snap.unions = <<>>

\* Unions are staged while updates are applied, and consumed before the rules are looked at.
LEMMA NoUnionsStep ==
  ASSUME NoUnions, NoViewTwin, [Next]_vars
  PROVE  NoUnions'
<1>1. CASE UNCHANGED vars
  BY <1>1 DEF vars, NoUnions
<1>2. ASSUME NEW c \in Commit, Begin(c) \/ BeginRefused(c) PROVE NoUnions'
  BY <1>2 DEF Begin, BeginRefused, Takes, Snapshot, NoUnions
<1>3. ASSUME NEW t \in Table, TakeTable(t) PROVE NoUnions'
  BY <1>3 DEF TakeTable, NoUnions
<1>4. CASE ApplyOp
  BY <1>4 DEF ApplyOp, InsertRow, RemoveRow, local, NoUnions
<1>5. CASE LeaveTable
  BY <1>5 DEF LeaveTable, NoUnions
<1>6. CASE ApplyUnions \/ CheckRejected
  BY <1>6 DEF ApplyUnions, CheckRejected, local, NoUnions
<1>7. CASE Rebuild \/ CheckAccepted
  BY <1>7 DEF Rebuild, CheckAccepted, rowing, NoUnions
<1>8. CASE Derive
  BY <1>8 DEF Derive, InsertRow, NoUnions, NoViewTwin
<1>9. CASE Record
  BY <1>9 DEF Record, DropLocals, NoSnap, rowing, NoUnions
<1>10. CASE Rollback
  BY <1>10 DEF Rollback, RestoreRowing, DropLocals, NoSnap, NoUnions
<1>11. CASE Reload
  BY <1>11 DEF Reload, Empty, local, NoUnions
<1> QED
  BY <1>1, <1>2, <1>3, <1>4, <1>5, <1>6, <1>7, <1>8, <1>9, <1>10, <1>11 DEF Next, Work

\* Between commits no update, undo entry, union or displaced id is left over: the asserts
\* of Table::snapshot and Table::commit hold.
THEOREM SettledBetween == ViewsClosed => (Spec /\ []NoViewTwin => []Settled)
<1> SUFFICES ASSUME ViewsClosed PROVE Spec /\ []NoViewTwin => []Settled
  OBVIOUS
<1>1. Init => NoUnions
  BY DEF Init, Empty, NoSnap, NoUnions
<1>2. NoUnions /\ NoViewTwin /\ [Next]_vars => NoUnions'
  BY NoUnionsStep
<1>3. Base /\ NoUnions => Settled
  <2> SUFFICES ASSUME Base, NoUnions, pc = "idle"
               PROVE  /\ staged = EachTable(<<>>) /\ undo = EachTable(<<>>)
                      /\ unions = <<>> /\ displaced = <<>>
    BY DEF Settled
  <2>1. /\ \A t \in Table : staged[t] = <<>> /\ undo[t] = <<>>
        /\ PerTable(staged) /\ PerTable(undo)
    BY DEF Base, StagedFits, ShapeNow, LogsOK
  <2>2. staged = EachTable(<<>>) /\ undo = EachTable(<<>>)
    BY <2>1 DEF PerTable, IsFcn, EachTable
  <2> QED
    BY <2>2 DEF NoUnions, Base, Control
<1> QED
  BY <1>1, <1>2, <1>3, BaseHolds, PTL DEF Spec

-----------------------------------------------------------------------------
(***************************************************************************)
(* What rows of one class have in common: their table, and their cells     *)
(* once these are canonical.  It is true of the rows that are stored, of   *)
(* those staged or reported, and by the union-find that the unions staged  *)
(* so far will lead to.                                                    *)
(***************************************************************************)

\* The union-find once the staged unions are applied
Joined(can, uns) == FoldLeft(Unite, [canon |-> can, displaced |-> <<>>], uns).canon

\* Table::canonicalise_cells, for any union-find
CellsBy(can, t, cells) ==
  [i \in DOMAIN cells |-> IF i \in Schema[t].ids THEN Lookup(can, cells[i]) ELSE cells[i]]

IdsOf(facts) == {x[2] : x \in facts}

\* Rows of one class are rows of one table, with the same cells once these are canonical.
Agree(facts, can) ==
  \A x, y \in facts :
    Lookup(can, x[2]) = Lookup(can, y[2]) =>
      x[1] = y[1] /\ CellsBy(can, x[1], x[3]) = CellsBy(can, y[1], y[3])

\* The rows `facts' <<table, id, cells>>, with ids of I, agree under all unions, those still
\* staged included, and whoever represents a class is among them.
Coherent(facts, can, uns, I) ==
  /\ IdsOf(facts) \subseteq I /\ DOMAIN can \subseteq I /\ uns \in Seq(I \X I)
  /\ Agree(facts, Joined(can, uns))
  /\ \A r \in DOMAIN can \cup Ends(uns) : Lookup(can, r) \in IdsOf(facts)

\* The unions not yet applied lead to a union-find over the same ids,
LEMMA JoinedIn ==
  ASSUME NEW I \in SUBSET RowId, NEW can, CanonIn(can, I), NEW uns \in Seq(I \X I)
  PROVE  CanonIn(Joined(can, uns), I)
BY UniteAllLooks DEF Joined

\* and more,
LEMMA JoinedKeeps ==
  ASSUME NEW I \in SUBSET RowId, NEW can, CanonIn(can, I), NEW uns \in Seq(I \X I)
  PROVE  DOMAIN can \subseteq DOMAIN Joined(can, uns)
BY UniteAllKeeps DEF Joined

\* which is the present one if there are none.
LEMMA JoinedEmpty ==
  ASSUME NEW can
  PROVE  Joined(can, <<>>) = can /\ Ends(<<>>) = {}
<1>1. PICK s : s = [canon |-> can, displaced |-> <<>>]
  OBVIOUS
<1>2. FoldLeft(Unite, s, <<>>) = s
  BY UniteFold, Uniting!FoldEmpty
<1> QED
  BY <1>1, <1>2, EmptyIsSeq DEF Joined, Ends

\* Joining two classes keeps together what was together,
LEMMA Coarser ==
  ASSUME NEW s, NEW w, NEW one, NEW other, NEW low, Moves(s, w, one, other, low)
  PROVE  /\ \A q, r : Lookup(s.canon, q) = Lookup(s.canon, r) =>
                        Lookup(w.canon, q) = Lookup(w.canon, r)
         /\ \A t, c, d : CellsBy(s.canon, t, c) = CellsBy(s.canon, t, d) =>
                           CellsBy(w.canon, t, c) = CellsBy(w.canon, t, d)
<1>1. ASSUME NEW q, NEW r, Lookup(s.canon, q) = Lookup(s.canon, r)
      PROVE  Lookup(w.canon, q) = Lookup(w.canon, r)
  BY <1>1 DEF Moves
<1>2. ASSUME NEW t, NEW c, NEW d, CellsBy(s.canon, t, c) = CellsBy(s.canon, t, d)
      PROVE  CellsBy(w.canon, t, c) = CellsBy(w.canon, t, d)
  <2>1. PICK f, g : f = CellsBy(s.canon, t, c) /\ g = CellsBy(s.canon, t, d)
    OBVIOUS
  <2>2. DOMAIN f = DOMAIN c /\ DOMAIN g = DOMAIN d /\ f = g
    BY <1>2, <2>1 DEF CellsBy
  <2>3. ASSUME NEW i \in DOMAIN c
        PROVE  IF i \in Schema[t].ids THEN Lookup(w.canon, c[i]) = Lookup(w.canon, d[i])
                                      ELSE c[i] = d[i]
    <3>1. /\ f[i] = IF i \in Schema[t].ids THEN Lookup(s.canon, c[i]) ELSE c[i]
          /\ g[i] = IF i \in Schema[t].ids THEN Lookup(s.canon, d[i]) ELSE d[i]
      BY <2>1, <2>2 DEF CellsBy
    <3> QED
      BY <1>1, <2>2, <3>1
  <2> QED
    BY <2>2, <2>3 DEF CellsBy
<1> QED
  BY <1>1, <1>2

\* and rows that agreed still agree if a row of each class had the same table and cells.
LEMMA AgreeUnion ==
  ASSUME NEW s, NEW w, NEW one, NEW other, NEW low, Moves(s, w, one, other, low),
         NEW facts, Agree(facts, s.canon), NEW a \in facts, NEW b \in facts,
         Lookup(s.canon, a[2]) = one, Lookup(s.canon, b[2]) = other,
         a[1] = b[1], a[3] = b[3]
  PROVE  Agree(facts, w.canon)
<1> SUFFICES ASSUME NEW x \in facts, NEW y \in facts,
                    Lookup(w.canon, x[2]) = Lookup(w.canon, y[2])
             PROVE  x[1] = y[1] /\ CellsBy(w.canon, x[1], x[3]) = CellsBy(w.canon, y[1], y[3])
  BY DEF Agree
<1>1. \/ Lookup(s.canon, x[2]) = Lookup(s.canon, y[2])
      \/ Lookup(s.canon, x[2]) \in {one, other} /\ Lookup(s.canon, y[2]) \in {one, other}
  BY DEF Moves
<1>2. ASSUME NEW z \in facts, Lookup(s.canon, z[2]) \in {one, other}
      PROVE  z[1] = a[1] /\ CellsBy(s.canon, a[1], z[3]) = CellsBy(s.canon, a[1], a[3])
  <2>1. CASE Lookup(s.canon, z[2]) = one
    BY <2>1 DEF Agree
  <2>2. CASE Lookup(s.canon, z[2]) = other
    BY <2>2 DEF Agree
  <2> QED
    BY <1>2, <2>1, <2>2
<1>3. x[1] = y[1] /\ CellsBy(s.canon, x[1], x[3]) = CellsBy(s.canon, x[1], y[3])
  <2>1. CASE Lookup(s.canon, x[2]) = Lookup(s.canon, y[2])
    BY <2>1 DEF Agree
  <2>2. CASE Lookup(s.canon, x[2]) \in {one, other} /\ Lookup(s.canon, y[2]) \in {one, other}
    BY <1>2, <2>2
  <2> QED
    BY <1>1, <2>1, <2>2
<1> QED
  BY <1>3, Coarser

\* Staging the union of two rows with equal cells
LEMMA CoherentUnion ==
  ASSUME NEW I \in SUBSET RowId, NEW facts, NEW can, NEW uns, Coherent(facts, can, uns, I),
         CanonIn(can, RowId), NEW a \in facts, NEW b \in facts, a[1] = b[1], a[3] = b[3],
         NEW pair, pair = <<a[2], b[2]>>
  PROVE  Coherent(facts, can, Append(uns, pair), I)
<1>1. CanonIn(can, I) /\ uns \in Seq(I \X I) /\ pair \in I \X I
  BY DEF Coherent, CanonIn, IdsOf
<1>2. PICK s, w : /\ s = FoldLeft(Unite, [canon |-> can, displaced |-> <<>>], uns)
                  /\ w = FoldLeft(Unite, [canon |-> can, displaced |-> <<>>], Append(uns, pair))
  OBVIOUS
<1>3. w = Unite(s, pair)
  <2>1. PICK v : v = [canon |-> can, displaced |-> <<>>]
    OBVIOUS
  <2>2. s = Uniting!Fold(v, uns) /\ w = Uniting!Fold(v, Append(uns, pair))
    BY <1>2, <2>1, UniteFold
  <2> QED
    BY <1>1, <2>2, Uniting!FoldAppend
<1>4. CanonIn(s.canon, I) /\ s.canon = Joined(can, uns) /\ w.canon = Joined(can, Append(uns, pair))
  BY <1>1, <1>2, UniteAllLooks DEF Joined
<1>5. PICK one, other : one = Lookup(s.canon, a[2]) /\ other = Lookup(s.canon, b[2])
  OBVIOUS
<1>6. one = Lookup(s.canon, pair[1]) /\ other = Lookup(s.canon, pair[2])
  BY <1>5
<1>7. PICK low : Moves(s, w, one, other, low)
  BY <1>1, <1>3, <1>4, <1>6, UniteMoves
<1>8. Agree(facts, s.canon)
  BY <1>4 DEF Coherent
<1>9. Agree(facts, w.canon)
  BY <1>5, <1>7, <1>8, AgreeUnion
<1>10. Append(uns, pair) \in Seq(I \X I)
  BY <1>1
<1>11. ASSUME NEW r \in DOMAIN can \cup Ends(Append(uns, pair))
       PROVE  Lookup(can, r) \in IdsOf(facts)
  <2>1. r \in DOMAIN can \cup Ends(uns) \/ r = a[2] \/ r = b[2]
    <3>1. Range(Append(uns, pair)) = Range(uns) \cup {pair}
      BY <1>1, SeqIs, AppendIsSeq
    <3> QED
      BY <3>1 DEF Ends
  <2>2. CASE r \in DOMAIN can \cup Ends(uns)
    BY <2>2 DEF Coherent
  <2>3. CASE r \notin DOMAIN can \cup Ends(uns)
    BY <2>1, <2>3 DEF Lookup, IdsOf
  <2> QED
    BY <2>2, <2>3
<1> QED
  BY <1>4, <1>9, <1>10, <1>11 DEF Coherent

\* Leaving out rows that represent no class
LEMMA CoherentLess ==
  ASSUME NEW I, NEW facts, NEW can, NEW uns, Coherent(facts, can, uns, I),
         NEW fewer \in SUBSET facts,
         \A r \in DOMAIN can \cup Ends(uns) : Lookup(can, r) \in IdsOf(fewer)
  PROVE  Coherent(fewer, can, uns, I)
BY DEF Coherent, Agree, IdsOf

\* Applying the staged unions
LEMMA CoherentJoined ==
  ASSUME NEW I \in SUBSET RowId, NEW facts, NEW can, NEW uns, Coherent(facts, can, uns, I),
         CanonIn(can, RowId)
  PROVE  Coherent(facts, Joined(can, uns), <<>>, I)
<1>1. CanonIn(can, I) /\ uns \in Seq(I \X I)
  BY DEF Coherent, CanonIn
<1>2. PICK new : new = Joined(can, uns)
  OBVIOUS
<1>3. /\ CanonIn(new, I)
      /\ \A r \in DOMAIN new : new[r] \in {Lookup(can, q) : q \in DOMAIN can \cup Ends(uns)}
  <2>1. PICK v : v = FoldLeft(Unite, [canon |-> can, displaced |-> <<>>], uns)
    OBVIOUS
  <2>2. v.canon = new
    BY <1>2, <2>1 DEF Joined
  <2>3. /\ CanonIn(v.canon, I)
        /\ \A r \in DOMAIN v.canon :
             v.canon[r] \in {Lookup(can, q) : q \in DOMAIN can \cup Ends(uns)}
    <3>1. CanonIn(can, I) /\ uns \in Seq(I \X I) /\ I \in SUBSET RowId
      BY <1>1
    <3> QED
      BY ONLY <3>1, <2>1, UniteAllLooks
  <2> QED
    BY <2>2, <2>3
<1>4. Agree(facts, Joined(new, <<>>)) /\ Ends(<<>>) = {} /\ <<>> \in Seq(I \X I)
  BY <1>2, JoinedEmpty DEF Coherent
<1>5. ASSUME NEW r \in DOMAIN new PROVE Lookup(new, r) \in IdsOf(facts)
  BY <1>3 DEF Lookup, Coherent
<1> QED
  BY <1>2, <1>3, <1>4, <1>5 DEF Coherent, CanonIn

\* New rows, each with an id of its own
LEMMA CoherentMore ==
  ASSUME NEW J \in SUBSET RowId, NEW I \in SUBSET J, NEW facts, NEW can, NEW uns,
         Coherent(facts, can, uns, I), CanonIn(can, RowId),
         NEW more, IdsOf(more) \subseteq J, IdsOf(more) \cap I = {},
         \A x, y \in more : x[2] = y[2] => x = y
  PROVE  Coherent(facts \cup more, can, uns, J)
<1>1. CanonIn(can, I) /\ uns \in Seq(I \X I)
  BY DEF Coherent, CanonIn
<1>2. PICK new : new = Joined(can, uns)
  OBVIOUS
<1>3. CanonIn(new, I)
  BY <1>1, <1>2, JoinedIn
<1>4. \A r \in I : Lookup(new, r) \in I
  BY <1>3, LookupTwice
<1>5. \A r : r \notin I => Lookup(new, r) = r
  BY <1>3 DEF Lookup, CanonIn
<1>6. Agree(facts \cup more, new)
  <2> SUFFICES ASSUME NEW x \in facts \cup more, NEW y \in facts \cup more,
                      Lookup(new, x[2]) = Lookup(new, y[2])
               PROVE  x[1] = y[1] /\ CellsBy(new, x[1], x[3]) = CellsBy(new, y[1], y[3])
    BY DEF Agree
  <2>1. (x \in facts /\ x[2] \in I) \/ (x \in more /\ x[2] \notin I)
    BY DEF Coherent, IdsOf
  <2>2. (y \in facts /\ y[2] \in I) \/ (y \in more /\ y[2] \notin I)
    BY DEF Coherent, IdsOf
  <2>3. CASE x \in facts /\ x[2] \in I
    <3>1. y \in facts
      BY <1>4, <1>5, <2>2, <2>3
    <3> QED
      BY <1>2, <2>3, <3>1 DEF Coherent, Agree
  <2>4. CASE x \in more /\ x[2] \notin I
    <3>1. y \in more /\ x[2] = y[2]
      BY <1>4, <1>5, <2>2, <2>4
    <3> QED
      BY <2>4, <3>1
  <2> QED
    BY <2>1, <2>3, <2>4
<1>7. uns \in Seq(J \X J)
  BY <1>1, SeqMonotonic
<1> QED
  BY <1>2, <1>6, <1>7 DEF Coherent, IdsOf

\* Rewritten rows beside those they are made from
LEMMA CoherentRewritten ==
  ASSUME NEW I, NEW facts, NEW can, Coherent(facts, can, <<>>, I),
         NEW more,
         \A y \in more : \E x \in facts :
            x[1] = y[1] /\ x[2] = y[2] /\ CellsBy(can, x[1], x[3]) = CellsBy(can, y[1], y[3])
  PROVE  Coherent(facts \cup more, can, <<>>, I)
<1>1. Agree(facts, can)
  BY JoinedEmpty DEF Coherent
<1>2. ASSUME NEW y \in facts \cup more
      PROVE  \E x \in facts :
               x[1] = y[1] /\ x[2] = y[2] /\ CellsBy(can, x[1], x[3]) = CellsBy(can, y[1], y[3])
  OBVIOUS
<1>3. Agree(facts \cup more, can)
  <2> SUFFICES ASSUME NEW x \in facts \cup more, NEW y \in facts \cup more,
                      Lookup(can, x[2]) = Lookup(can, y[2])
               PROVE  x[1] = y[1] /\ CellsBy(can, x[1], x[3]) = CellsBy(can, y[1], y[3])
    BY DEF Agree
  <2>1. PICK v \in facts :
          x[1] = v[1] /\ x[2] = v[2] /\ CellsBy(can, x[1], x[3]) = CellsBy(can, v[1], v[3])
    BY <1>2
  <2>2. PICK w \in facts :
          y[1] = w[1] /\ y[2] = w[2] /\ CellsBy(can, y[1], y[3]) = CellsBy(can, w[1], w[3])
    BY <1>2
  <2>3. v[1] = w[1] /\ CellsBy(can, v[1], v[3]) = CellsBy(can, w[1], w[3])
    BY <1>1, <2>1, <2>2 DEF Agree
  <2> QED
    BY <2>1, <2>2, <2>3
<1>4. Agree(facts \cup more, Joined(can, <<>>))
  BY <1>3, JoinedEmpty
<1>5. IdsOf(facts \cup more) = IdsOf(facts)
  BY <1>2 DEF IdsOf
<1> QED
  BY <1>4, <1>5 DEF Coherent

-----------------------------------------------------------------------------
(***************************************************************************)
(* The invariant Merging.  Rows are stored from two lists, the staged      *)
(* updates and the reported rows of views: Alive has the rows of all three *)
(* so that moving one from a list to a table changes nothing.  Taken are   *)
(* the ids given out, of which a new row has none.                         *)
(***************************************************************************)
\* Rows that wait in staged updates, and those coln-query has reported
Adds(t, s) == {<<t, op.id, op.cells>> : op \in {o \in Range(s) : o.kind = "add"}}
Waiting(st) == UNION {Adds(t, st[t]) : t \in Table}
Reported(fr) == {<<x.table, x.id, x.cells>> : x \in Range(fr)}

\* The rows that are stored, staged, or derived and not stored yet
Alive == FactsOf(rows) \cup Waiting(staged) \cup Reported(fresh)

OfCommits(A) == {r \in RowId : r[1] \in A}

\* The ids given out: the rows of views get theirs when the commit's own are all stored.
Taken ==
  OfCommits(applied)
    \cup {r \in RowId : /\ pc \in Busy /\ r[1] = current
                        /\ pc = "derive" \/ r[2] <= Len(Ops[current])}

\* Updates s staged for a table with the rows `held': a row is added once, and after it was
\* deleted if it was there; what is not deleted for good is canonical.
StagedWell(can, s, held) ==
  /\ \A i, j \in DOMAIN s : s[i].kind = "add" /\ s[j].kind = "add" /\ s[i].id = s[j].id => i = j
  /\ \A i \in DOMAIN s : s[i].kind = "add" =>
       /\ Lookup(can, s[i].id) = s[i].id
       /\ s[i].id \in held =>
            \E j \in DOMAIN s : j < i /\ s[j].kind = "delete" /\ s[j].id = s[i].id
  /\ \A i \in DOMAIN s : s[i].kind = "delete" =>
       \/ Lookup(can, s[i].id) # s[i].id
       \/ \E j \in DOMAIN s : i < j /\ s[j].kind = "add" /\ s[j].id = s[i].id
  /\ \A r \in held :
       Lookup(can, r) = r \/ \E i \in DOMAIN s : s[i].kind = "delete" /\ s[i].id = r

\* Before a rebuild the ids that are not canonical are the displaced ones.
DisplacedWell ==
  /\ unions = <<>>
  /\ \A r \in Range(displaced) : Canonical(r) # r
  /\ \A t \in Table : \A r \in DOMAIN rows[t] : Canonical(r) = r \/ r \in Range(displaced)

\* Reported rows have new ids.
FreshWell ==
  /\ \A i, j \in DOMAIN fresh : fresh[i].id = fresh[j].id => i = j
  /\ \A i \in DOMAIN fresh : /\ fresh[i].id \notin DOMAIN rows[fresh[i].table]
                             /\ Canonical(fresh[i].id) = fresh[i].id

Merging ==
  pc \in Busy \cup {"idle"} =>
    /\ Coherent(Alive, canon, unions, Taken)
    /\ pc = "rebuild" => DisplacedWell
    /\ pc # "rebuild" =>
         \A t \in Table : StagedWell(canon, staged[t], DOMAIN rows[t])
    /\ FreshWell
    /\ pc \in Busy => current \notin applied

\* The same of the state to go back to
MergedThen ==
  pc \notin {"idle", "unreadable"} =>
    /\ Coherent(FactsOf(before), snap.canon, snap.unions, OfCommits(applied))
    /\ \A t \in Table : \A r \in DOMAIN before[t] : Lookup(snap.canon, r) = r

\* insert_row stages no union, or that of two rows with the same cells.
StagesTwins(facts) ==
  \/ UNCHANGED unions
  \/ \E a, b \in facts : /\ a[1] = b[1] /\ a[3] = b[3] /\ Schema[a[1]].memoized
                         /\ unions' = Append(unions, <<a[2], b[2]>>)

\* What a step does to the rows alive: it moves one from a list to a table, keeping
\* together whatever larger set of rows agreed;
Moved ==
  /\ UNCHANGED <<Alive, Taken, canon>>
  /\ \A facts : Alive \subseteq facts /\ Coherent(facts, canon, unions, Taken)
                 => Coherent(facts, canon, unions', Taken)
  /\ StagesTwins(Alive)

\* it drops one that represents no class;
Dropped ==
  /\ Alive' \subseteq Alive /\ UNCHANGED <<Taken, canon, unions>>
  /\ \A r : Lookup(canon, r) \in IdsOf(Alive) => Lookup(canon, r) \in IdsOf(Alive')

\* it adds rewritten ones beside those they are made from;
Rewritten ==
  /\ UNCHANGED <<Taken, canon, unions>> /\ unions = <<>>
  /\ Alive \subseteq Alive'
  /\ \A y \in Alive' : \E x \in Alive :
       x[1] = y[1] /\ x[2] = y[2] /\ CellsBy(canon, x[1], x[3]) = CellsBy(canon, y[1], y[3])

\* or it adds new ones, each with a new id.
Grown(more) ==
  /\ Alive' = Alive \cup more /\ UNCHANGED <<canon, unions>>
  /\ Taken \subseteq Taken' /\ Taken' \in SUBSET RowId
  /\ IdsOf(more) \subseteq Taken' /\ IdsOf(more) \cap Taken = {}
  /\ \A x, y \in more : x[2] = y[2] => x = y

\* The first of the staged updates, and the others
LEMMA AddsTail ==
  ASSUME NEW t, NEW s, IsSeq(s), s # <<>>
  PROVE  /\ Range(s) = {s[1]} \cup Range(Tail(s))
         /\ Adds(t, s) = Adds(t, Tail(s))
                           \cup IF s[1].kind = "add" THEN {<<t, s[1].id, s[1].cells>>} ELSE {}
<1>1. PICK v : v = Tail(s)
  OBVIOUS
<1>2. /\ 1 \in DOMAIN s /\ DOMAIN s = 1 .. Len(s) /\ Len(s) \in Nat
      /\ DOMAIN v = 1 .. Len(s) - 1
      /\ \A i \in DOMAIN v : v[i] = s[i+1] /\ i + 1 \in DOMAIN s
      /\ IsSeq(v)
  BY <1>1, TailIsSeq
<1>3. Range(s) = {s[i] : i \in 1 .. Len(s)} /\ Range(v) = {v[i] : i \in DOMAIN v}
  BY <1>2, SeqIs DEF IsSeq
<1>4. ASSUME NEW x \in Range(s) PROVE x = s[1] \/ x \in Range(v)
  <2>1. PICK i \in 1 .. Len(s) : x = s[i]
    BY <1>3
  <2>2. CASE i = 1
    BY <2>1, <2>2
  <2>3. CASE i # 1
    <3>1. i - 1 \in DOMAIN v /\ v[i - 1] = s[(i - 1) + 1] /\ (i - 1) + 1 = i
      BY <1>2, <2>3
    <3> QED
      BY <1>3, <2>1, <3>1
  <2> QED
    BY <2>2, <2>3
<1>5. ASSUME NEW x \in Range(v) PROVE x \in Range(s)
  BY <1>2, <1>3
<1>6. s[1] \in Range(s)
  BY <1>2, <1>3
<1>7. Range(s) = {s[1]} \cup Range(v)
  BY <1>4, <1>5, <1>6
<1>8. Adds(t, s) = Adds(t, v) \cup IF s[1].kind = "add" THEN {<<t, s[1].id, s[1].cells>>} ELSE {}
  BY <1>7 DEF Adds
<1> QED
  BY <1>1, <1>7, <1>8

\* Carrying out an update takes it from the waiting ones.
LEMMA WaitingTail ==
  ASSUME NEW t \in Table, IsSeq(staged[t]), staged[t] # <<>>, staged'[t] = Tail(staged[t]),
         \A u \in Table \ {t} : staged'[u] = staged[u],
         NEW op, op = staged[t][1]
  PROVE  Waiting(staged) = Waiting(staged')
                             \cup IF op.kind = "add" THEN {<<t, op.id, op.cells>>} ELSE {}
<1>1. PICK one : one = IF op.kind = "add" THEN {<<t, op.id, op.cells>>} ELSE {}
  OBVIOUS
<1>2. Adds(t, staged[t]) = Adds(t, staged'[t]) \cup one
  <2>1. PICK s : s = staged[t]
    OBVIOUS
  <2>2. Adds(t, s) = Adds(t, Tail(s)) \cup one
    BY <1>1, <2>1, AddsTail
  <2> QED
    BY <2>1, <2>2
<1>3. \A u \in Table \ {t} : Adds(u, staged'[u]) = Adds(u, staged[u])
  OBVIOUS
<1>4. ASSUME NEW x PROVE x \in Waiting(staged) <=> x \in Waiting(staged') \/ x \in one
  <2>1. x \in Waiting(staged) <=> \E u \in Table : x \in Adds(u, staged[u])
    BY DEF Waiting
  <2>2. x \in Waiting(staged') <=> \E u \in Table : x \in Adds(u, staged'[u])
    BY DEF Waiting
  <2> QED
    BY <1>2, <1>3, <2>1, <2>2
<1>5. Waiting(staged) = Waiting(staged') \cup one
  BY <1>4
<1> QED
  BY <1>1, <1>5

\* Nothing staged, nothing reported
LEMMA NoneWaiting ==
  ASSUME NEW st, \A t \in Table : st[t] = <<>>
  PROVE  Waiting(st) = {} /\ Reported(<<>>) = {}
BY EmptyIsSeq DEF Waiting, Adds, Reported

\* An update that was carried out leaves the others well staged, and a row that is added
\* was not there.
LEMMA StagedTail ==
  ASSUME NEW can, NEW s, IsSeq(s), s # <<>>, NEW held, StagedWell(can, s, held)
  PROVE  /\ s[1].kind = "add" =>
              s[1].id \notin held /\ StagedWell(can, Tail(s), held \cup {s[1].id})
         /\ s[1].kind = "delete" => StagedWell(can, Tail(s), held \ {s[1].id})
         /\ s[1].kind = "delete" /\ Lookup(can, s[1].id) = s[1].id =>
              \E op \in Range(Tail(s)) : op.kind = "add" /\ op.id = s[1].id
<1>1. PICK v : v = Tail(s)
  OBVIOUS
<1>2. /\ 1 \in DOMAIN s /\ DOMAIN s = 1 .. Len(s) /\ Len(s) \in Nat
      /\ DOMAIN v = 1 .. Len(s) - 1
      /\ \A i \in DOMAIN v : v[i] = s[i+1] /\ i + 1 \in DOMAIN s
      /\ IsSeq(v)
  BY <1>1, TailIsSeq
<1>3. Range(v) = {v[i] : i \in DOMAIN v}
  BY <1>2, SeqIs DEF IsSeq
<1>4. ASSUME NEW i \in DOMAIN v
      PROVE  v[i] = s[i+1] /\ i + 1 \in DOMAIN s /\ i + 1 # 1 /\ i \in Int
  BY <1>2
<1>5. ASSUME NEW i \in DOMAIN s, i # 1
      PROVE  i - 1 \in DOMAIN v /\ v[i - 1] = s[i] /\ i \in Int /\ 1 < i
  <2>1. i - 1 \in DOMAIN v /\ (i - 1) + 1 = i
    BY <1>2, <1>5
  <2> QED
    BY <1>2, <1>5, <2>1
<1>6. ASSUME NEW i \in DOMAIN v, NEW j \in DOMAIN v,
             v[i].kind = "add", v[j].kind = "add", v[i].id = v[j].id
      PROVE  i = j
  <2>1. i + 1 = j + 1
    BY <1>4, <1>6 DEF StagedWell
  <2> QED
    BY <1>4, <2>1
<1>7. ASSUME NEW i \in DOMAIN v, v[i].kind = "add"
      PROVE  /\ Lookup(can, v[i].id) = v[i].id
             /\ v[i].id \in held /\ (s[1].kind = "delete" => v[i].id # s[1].id) =>
                  \E j \in DOMAIN v : j < i /\ v[j].kind = "delete" /\ v[j].id = v[i].id
             /\ s[1].kind = "add" => v[i].id # s[1].id
  <2>1. Lookup(can, v[i].id) = v[i].id
    BY <1>4, <1>7 DEF StagedWell
  <2>2. ASSUME v[i].id \in held, s[1].kind = "delete" => v[i].id # s[1].id
        PROVE  \E j \in DOMAIN v : j < i /\ v[j].kind = "delete" /\ v[j].id = v[i].id
    <3>1. PICK j \in DOMAIN s : j < i + 1 /\ s[j].kind = "delete" /\ s[j].id = v[i].id
      BY <1>4, <1>7, <2>2 DEF StagedWell
    <3>2. j # 1
      BY <2>2, <3>1
    <3>3. j - 1 \in DOMAIN v /\ v[j - 1] = s[j] /\ j - 1 < i
      BY <1>4, <1>5, <3>1, <3>2
    <3> QED
      BY <3>1, <3>3
  <2>3. s[1].kind = "add" => v[i].id # s[1].id
    BY <1>2, <1>4, <1>7 DEF StagedWell
  <2> QED
    BY <2>1, <2>2, <2>3
<1>8. ASSUME NEW i \in DOMAIN v, v[i].kind = "delete"
      PROVE  \/ Lookup(can, v[i].id) # v[i].id
             \/ \E j \in DOMAIN v : i < j /\ v[j].kind = "add" /\ v[j].id = v[i].id
  <2> SUFFICES ASSUME Lookup(can, v[i].id) = v[i].id
               PROVE  \E j \in DOMAIN v : i < j /\ v[j].kind = "add" /\ v[j].id = v[i].id
    OBVIOUS
  <2>1. PICK j \in DOMAIN s : i + 1 < j /\ s[j].kind = "add" /\ s[j].id = v[i].id
    BY <1>4, <1>8 DEF StagedWell
  <2>2. j # 1 /\ j \in Int
    BY <1>2, <2>1
  <2>3. j - 1 \in DOMAIN v /\ v[j - 1] = s[j] /\ i < j - 1
    BY <1>4, <1>5, <2>1, <2>2
  <2> QED
    BY <2>1, <2>3
<1>9. ASSUME NEW r \in held, s[1].kind = "delete" => s[1].id # r
      PROVE  Lookup(can, r) = r \/ \E i \in DOMAIN v : v[i].kind = "delete" /\ v[i].id = r
  <2> SUFFICES ASSUME Lookup(can, r) # r
               PROVE  \E i \in DOMAIN v : v[i].kind = "delete" /\ v[i].id = r
    OBVIOUS
  <2>1. PICK i \in DOMAIN s : s[i].kind = "delete" /\ s[i].id = r
    BY DEF StagedWell
  <2>2. i # 1
    BY <1>9, <2>1
  <2> QED
    BY <1>5, <2>1, <2>2
<1>10. ASSUME s[1].kind = "add"
       PROVE  s[1].id \notin held /\ Lookup(can, s[1].id) = s[1].id
  <2>1. Lookup(can, s[1].id) = s[1].id
    BY <1>2, <1>10 DEF StagedWell
  <2>2. \A j \in DOMAIN s : ~(j < 1)
    BY <1>2
  <2> QED
    BY <1>2, <1>10, <2>1, <2>2 DEF StagedWell
<1>11. s[1].kind = "add" => StagedWell(can, v, held \cup {s[1].id})
  BY <1>6, <1>7, <1>8, <1>9, <1>10 DEF StagedWell
<1>12. s[1].kind = "delete" => StagedWell(can, v, held \ {s[1].id})
  BY <1>6, <1>7, <1>8, <1>9 DEF StagedWell
<1>13. ASSUME s[1].kind = "delete", Lookup(can, s[1].id) = s[1].id
       PROVE  \E op \in Range(v) : op.kind = "add" /\ op.id = s[1].id
  <2>1. PICK j \in DOMAIN s : 1 < j /\ s[j].kind = "add" /\ s[j].id = s[1].id
    BY <1>2, <1>13 DEF StagedWell
  <2>2. j # 1
    BY <2>1
  <2> QED
    BY <1>3, <1>5, <2>1, <2>2
<1> QED
  BY <1>1, <1>10, <1>11, <1>12, <1>13

-----------------------------------------------------------------------------
(* Every step keeps Merging. *)

\* What is used of the invariant while a commit is applied
LEMMA MergingIs ==
  ASSUME Base, Merging, pc \in Busy \cup {"idle"}
  PROVE  /\ Coherent(Alive, canon, unions, Taken) /\ Taken \in SUBSET RowId
         /\ CanonIn(canon, RowId) /\ DictOK(dict) /\ TablesIn(rows, RowId) /\ LogsOK(undo)
         /\ FreshWell /\ (pc \in Busy => current \notin applied)
BY DEF Merging, Base, ShapeNow, Control, Taken, OfCommits

\* insert_row of a row that is staged or reported: it is stored instead, and if it has a
\* twin the union of the two is one of rows that agree.
LEMMA InsertMerges ==
  ASSUME DictOK(dict), TablesIn(rows, RowId), CanonIn(canon, RowId),
         NEW t \in Table, NEW r, r \notin DOMAIN rows[t], NEW cells, InsertRow(t, r, cells),
         NEW facts, FactsOf(rows) \subseteq facts, <<t, r, cells>> \in facts,
         NEW I \in SUBSET RowId, Coherent(facts, canon, unions, I)
  PROVE  \/ pc' = "failed"
         \/ /\ pc' = pc /\ Coherent(facts, canon, unions', I)
            /\ FactsOf(rows') = FactsOf(rows) \cup {<<t, r, cells>>}
            /\ DOMAIN rows'[t] = DOMAIN rows[t] \cup {r}
            /\ \A u \in Table \ {t} : rows'[u] = rows[u]
            /\ StagesTwins(facts)
<1> SUFFICES ASSUME pc' # "failed"
             PROVE  /\ pc' = pc /\ Coherent(facts, canon, unions', I)
                    /\ FactsOf(rows') = FactsOf(rows) \cup {<<t, r, cells>>}
                    /\ DOMAIN rows'[t] = DOMAIN rows[t] \cup {r}
                    /\ \A u \in Table \ {t} : rows'[u] = rows[u]
                    /\ StagesTwins(facts)
  OBVIOUS
<1>1. /\ ~KeyTaken(t, cells) /\ pc' = pc
      /\ rows' = [rows EXCEPT ![t] = With(@, r, cells)]
      /\ unions' = IF Twins(t, cells) = {} THEN unions
                   ELSE Append(unions, <<FirstTwin(t, cells), r>>)
  BY DEF InsertRow
<1>2. rows'[t] = With(rows[t], r, cells) /\ \A u \in Table \ {t} : rows'[u] = rows[u]
  BY <1>1 DEF TablesIn, PerTable, IsFcn
<1>3. DOMAIN rows'[t] = DOMAIN rows[t] \cup {r}
  BY <1>2 DEF With
<1>4. FactsOf(rows') = FactsOf(rows) \cup {<<t, r, cells>>}
  BY <1>2, FactsWith
<1>5. CASE Twins(t, cells) = {}
  BY <1>1, <1>2, <1>3, <1>4, <1>5 DEF StagesTwins
<1>6. CASE Twins(t, cells) # {}
  <2>1. PICK q : q = FirstTwin(t, cells)
    OBVIOUS
  <2>2. q \in DOMAIN rows[t] /\ rows[t][q] = cells
    BY <1>6, <2>1, TwinFound
  <2>3. PICK a, b : a = <<t, q, cells>> /\ b = <<t, r, cells>>
    OBVIOUS
  <2>4. a \in facts /\ b \in facts
    BY <2>2, <2>3, FactsAre
  <2>5. Coherent(facts, canon, Append(unions, <<q, r>>), I)
    BY <2>3, <2>4, CoherentUnion
  <2>6. StagesTwins(facts)
    <3>1. Schema[t].memoized /\ unions' = Append(unions, <<a[2], b[2]>>)
      BY <1>1, <1>6, <2>1, <2>3 DEF Twins
    <3> QED
      BY <2>3, <2>4, <3>1 DEF StagesTwins
  <2> QED
    BY <1>1, <1>2, <1>3, <1>4, <1>6, <2>1, <2>5, <2>6
<1> QED
  BY <1>5, <1>6

\* Carrying out a staged insertion
LEMMA AddMerges ==
  ASSUME Base, Merging, ApplyOp, NEW t, NEW op, t = table, op = Head(staged[table]),
         op.kind = "add"
  PROVE  Merging' /\ pc' # "panicked" /\ (pc' # "failed" => Moved)
<1>1. /\ t \in Table /\ pc = "apply" /\ staged[t] # <<>> /\ IsSeq(staged[t])
      /\ op = staged[t][1] /\ staged'[t] = Tail(staged[t]) /\ InsertRow(t, op.id, op.cells)
  BY NextOp
<1>2. /\ Coherent(Alive, canon, unions, Taken) /\ Taken \in SUBSET RowId
      /\ CanonIn(canon, RowId) /\ DictOK(dict) /\ TablesIn(rows, RowId)
      /\ FreshWell /\ current \notin applied
  BY <1>1, MergingIs DEF Busy
<1>3. \A u \in Table : StagedWell(canon, staged[u], DOMAIN rows[u])
  BY <1>1 DEF Merging, Busy
<1>4. fresh = <<>>
  BY <1>1 DEF Base, Control
<1>5. \A u \in Table \ {t} : staged'[u] = staged[u]
  BY <1>1 DEF ApplyOp, Base, ShapeNow, PerTable, IsFcn
<1>6. UNCHANGED <<canon, fresh, current, applied>>
  BY DEF ApplyOp, local
<1>7. /\ op.id \notin DOMAIN rows[t]
      /\ StagedWell(canon, Tail(staged[t]), DOMAIN rows[t] \cup {op.id})
  <2>1. PICK s, held : s = staged[t] /\ held = DOMAIN rows[t]
    OBVIOUS
  <2>2. StagedWell(canon, s, held) /\ IsSeq(s) /\ s # <<>> /\ s[1].kind = "add"
    BY <1>1, <1>3, <2>1
  <2>3. s[1].id \notin held /\ StagedWell(canon, Tail(s), held \cup {s[1].id})
    BY <2>2, StagedTail
  <2> QED
    BY <1>1, <2>1, <2>3
<1>8. PICK x : x = <<t, op.id, op.cells>>
  OBVIOUS
<1>9. Waiting(staged) = Waiting(staged') \cup {x}
  BY <1>1, <1>5, <1>8, WaitingTail
<1>10. PICK facts, I : facts = Alive /\ I = Taken
  OBVIOUS
<1>11. FactsOf(rows) \subseteq facts /\ x \in facts
  BY <1>9, <1>10 DEF Alive
<1>12. ASSUME NEW all, facts \subseteq all, Coherent(all, canon, unions, I)
       PROVE  \/ pc' = "failed"
              \/ /\ pc' = pc /\ Coherent(all, canon, unions', I)
                 /\ FactsOf(rows') = FactsOf(rows) \cup {x}
                 /\ DOMAIN rows'[t] = DOMAIN rows[t] \cup {op.id}
                 /\ \A u \in Table \ {t} : rows'[u] = rows[u]
                 /\ StagesTwins(all)
  <2>1. FactsOf(rows) \subseteq all /\ x \in all
    BY <1>11, <1>12
  <2> QED
    BY <1>1, <1>2, <1>7, <1>8, <1>10, <1>12, <2>1, InsertMerges
<1>15. Coherent(facts, canon, unions, I)
  BY <1>2, <1>10
<1>13. CASE pc' = "failed"
  BY <1>13 DEF Merging, Busy
<1>14. CASE pc' # "failed"
  <2>1. Alive' = facts
    BY <1>6, <1>9, <1>10, <1>12, <1>14, <1>15 DEF Alive
  <2>2. Taken' = I /\ pc' = "apply"
    BY <1>1, <1>6, <1>10, <1>12, <1>14, <1>15 DEF Taken
  <2>3. Coherent(Alive, canon, unions, Taken)'
    BY <1>6, <1>12, <1>14, <1>15, <2>1, <2>2
  <2>4. \A u \in Table : StagedWell(canon', staged'[u], DOMAIN rows'[u])
    BY <1>1, <1>3, <1>5, <1>6, <1>7, <1>12, <1>14, <1>15
  <2>5. FreshWell'
    BY <1>4, <1>6, EmptyIsSeq DEF FreshWell
  <2>6. Moved
    <3>1. StagesTwins(facts)
      BY <1>12, <1>14, <1>15
    <3> QED
      BY <1>6, <1>10, <1>12, <1>14, <2>1, <2>2, <3>1 DEF Moved
  <2> QED
    BY <1>2, <1>6, <2>2, <2>3, <2>4, <2>5, <2>6 DEF Merging
<1> QED
  BY <1>1, <1>12, <1>13, <1>14, <1>15

\* Carrying out a staged deletion: the row represents no class, or will be added again.
LEMMA DeleteMerges ==
  ASSUME Base, Merging, ApplyOp, NEW t, NEW op, t = table, op = Head(staged[table]),
         op.kind = "delete"
  PROVE  Merging' /\ pc' # "panicked" /\ Dropped
<1>1. /\ t \in Table /\ pc = "apply" /\ staged[t] # <<>> /\ IsSeq(staged[t])
      /\ op = staged[t][1] /\ staged'[t] = Tail(staged[t])
      /\ RemoveRow(t, op.id) /\ op.id \in DOMAIN rows[t]
  BY NextOp
<1>2. /\ Coherent(Alive, canon, unions, Taken) /\ Taken \in SUBSET RowId
      /\ CanonIn(canon, RowId) /\ TablesIn(rows, RowId) /\ LogsOK(undo)
      /\ FreshWell /\ current \notin applied
  BY <1>1, MergingIs DEF Busy
<1>3. \A u \in Table : StagedWell(canon, staged[u], DOMAIN rows[u])
  BY <1>1 DEF Merging, Busy
<1>4. fresh = <<>>
  BY <1>1 DEF Base, Control
<1>5. \A u \in Table \ {t} : staged'[u] = staged[u]
  BY <1>1 DEF ApplyOp, Base, ShapeNow, PerTable, IsFcn
<1>6. UNCHANGED <<canon, fresh, current, applied, unions, pc>>
  BY <1>1 DEF ApplyOp, local, RemoveRow
<1>7. PICK s, held : s = staged[t] /\ held = DOMAIN rows[t]
  OBVIOUS
<1>8. /\ StagedWell(canon, Tail(s), held \ {op.id})
      /\ Lookup(canon, op.id) = op.id => \E o \in Range(Tail(s)) : o.kind = "add" /\ o.id = op.id
  <2>1. StagedWell(canon, s, held) /\ IsSeq(s) /\ s # <<>> /\ s[1].kind = "delete" /\ s[1] = op
    BY <1>1, <1>3, <1>7
  <2> QED
    BY <2>1, StagedTail
<1>9. Waiting(staged) = Waiting(staged')
  <2>1. Waiting(staged) = Waiting(staged') \cup {}
    BY <1>1, <1>5, WaitingTail
  <2> QED
    BY <2>1
<1>10. PICK x : x = <<t, op.id, rows[t][op.id]>>
  OBVIOUS
<1>11. /\ rows'[t] = Restrict(rows[t], DOMAIN rows[t] \ {op.id})
       /\ \A u \in Table \ {t} : rows'[u] = rows[u]
       /\ DOMAIN rows'[t] = DOMAIN rows[t] \ {op.id}
  BY <1>1, <1>2 DEF RemoveRow, TablesIn, PerTable, IsFcn, Restrict
<1>12. FactsOf(rows') = FactsOf(rows) \ {x}
  <2>1. /\ rows'[t] = Restrict(rows[t], DOMAIN rows[t] \ {op.id})
        /\ \A u \in Table \ {t} : rows'[u] = rows[u]
    BY <1>11
  <2>2. FactsOf(rows') = FactsOf(rows) \ {x} /\ x \in FactsOf(rows)
    BY <1>1, <1>10, <2>1, FactsWithout
  <2> QED
    BY <2>2
<1>13. PICK facts, fewer, I : facts = Alive /\ fewer = Alive' /\ I = Taken
  OBVIOUS
<1>14. fewer \in SUBSET facts /\ \A y \in facts : y = x \/ y \in fewer
  BY <1>6, <1>9, <1>12, <1>13 DEF Alive
<1>15. ASSUME NEW r, Lookup(canon, r) \in IdsOf(facts)
       PROVE  Lookup(canon, r) \in IdsOf(fewer)
  <2>1. PICK y \in facts : y[2] = Lookup(canon, r)
    BY <1>15 DEF IdsOf
  <2>2. CASE y \in fewer
    BY <2>1, <2>2 DEF IdsOf
  <2>3. CASE y \notin fewer
    <3>1. op.id = Lookup(canon, r)
      BY <1>10, <1>14, <2>1, <2>3
    <3>2. Lookup(canon, op.id) = op.id
      BY <1>2, <3>1, LookupTwice
    <3>3. PICK o \in Range(Tail(s)) : o.kind = "add" /\ o.id = op.id
      BY <1>8, <3>2
    <3>4. <<t, o.id, o.cells>> \in Waiting(staged')
      BY <1>1, <1>7, <3>3 DEF Waiting, Adds
    <3>5. PICK z : z = <<t, o.id, o.cells>>
      OBVIOUS
    <3>6. z \in fewer /\ z[2] = Lookup(canon, r)
      BY <1>13, <3>1, <3>3, <3>4, <3>5 DEF Alive
    <3> QED
      BY <3>6 DEF IdsOf
  <2> QED
    BY <2>2, <2>3
<1>16. Coherent(fewer, canon, unions, I)
  <2>1. \A r \in DOMAIN canon \cup Ends(unions) : Lookup(canon, r) \in IdsOf(fewer)
    BY <1>2, <1>13, <1>15 DEF Coherent
  <2> QED
    BY <1>2, <1>13, <1>14, <2>1, CoherentLess
<1>20. Dropped
  <2>1. Taken' = Taken
    BY <1>6 DEF Taken
  <2> QED
    BY <1>6, <1>13, <1>14, <1>15, <2>1 DEF Dropped
<1>17. Coherent(Alive, canon, unions, Taken)'
  <2>1. Taken' = I
    BY <1>6, <1>13 DEF Taken
  <2> QED
    BY <1>6, <1>13, <1>16, <2>1
<1>18. \A u \in Table : StagedWell(canon', staged'[u], DOMAIN rows'[u])
  BY <1>1, <1>3, <1>5, <1>6, <1>7, <1>8, <1>11
<1>19. FreshWell'
  BY <1>4, <1>6, EmptyIsSeq DEF FreshWell
<1> QED
  BY <1>1, <1>2, <1>6, <1>17, <1>18, <1>19, <1>20 DEF Merging

\* With nothing staged, the rows a table holds are canonical.
LEMMA StagedNone ==
  ASSUME NEW can, NEW held
  PROVE  StagedWell(can, <<>>, held) <=> \A r \in held : Lookup(can, r) = r
BY EmptyIsSeq DEF StagedWell

\* Canonical cells are canonical.
LEMMA CellsTwice ==
  ASSUME CanonIn(canon, RowId), NEW t, NEW cells
  PROVE  CellsBy(canon, t, CanonicalCells(t, cells)) = CellsBy(canon, t, cells)
<1>1. PICK w : w = CanonicalCells(t, cells)
  OBVIOUS
<1>2. /\ DOMAIN w = DOMAIN cells
      /\ \A i \in DOMAIN cells :
           w[i] = IF i \in Schema[t].ids THEN Lookup(canon, cells[i]) ELSE cells[i]
  BY <1>1 DEF CanonicalCells, Canonical
<1>3. \A q : Lookup(canon, Lookup(canon, q)) = Lookup(canon, q)
  BY LookupTwice
<1> QED
  BY <1>1, <1>2, <1>3 DEF CellsBy

\* Rewritten rows that agree stay so when the union-find takes in the staged unions.
LEMMA ApplyUnionsMerges ==
  ASSUME Base, Merging, ApplyUnions
  PROVE  /\ Merging' /\ UNCHANGED <<Alive, Taken>>
         /\ canon' = Joined(canon, unions) /\ unions' = <<>> /\ DOMAIN canon \subseteq DOMAIN canon'
         /\ \A r : Lookup(canon, r) = r => Lookup(canon', r) = r \/ r \in Range(displaced')
<1>1. /\ pc = "apply" /\ unions' = <<>> /\ UNCHANGED <<rows, staged, fresh, current, applied>>
      /\ pc' \in {"check", "rebuild"} /\ (pc' = "check" <=> displaced' = <<>>)
  BY DEF ApplyUnions, local
<1>2. /\ Coherent(Alive, canon, unions, Taken) /\ Taken \in SUBSET RowId
      /\ CanonIn(canon, RowId) /\ current \notin applied
  BY <1>1, MergingIs DEF Busy
<1>3. fresh = <<>> /\ displaced = <<>> /\ unions \in Seq(RowId \X RowId)
  BY <1>1 DEF Base, Control, ShapeNow
<1>4. \A t \in Table : staged[t] = <<>>
  BY MarkerAssumption DEF ApplyUnions, Base, StagedFits
<1>5. PICK v : v = FoldLeft(Unite, [canon |-> canon, displaced |-> <<>>], unions)
  OBVIOUS
<1>6. canon' = v.canon /\ displaced' = v.displaced /\ v.canon = Joined(canon, unions)
  BY <1>3, <1>5 DEF ApplyUnions, Joined
<1>7. /\ \A r : Lookup(canon, r) = r => Lookup(v.canon, r) = r \/ r \in Range(v.displaced)
      /\ \A r \in Range(v.displaced) : Lookup(v.canon, r) # r
      /\ DOMAIN canon \subseteq DOMAIN v.canon
  <2>1. PICK I : I = RowId
    OBVIOUS
  <2>2. I \in SUBSET RowId /\ CanonIn(canon, I) /\ unions \in Seq(I \X I)
    BY <1>2, <1>3, <2>1
  <2>3. CanonIn(v.canon, I) /\ v.displaced \in Seq(I)
        /\ \A r : Lookup(canon, r) = r => Lookup(v.canon, r) = r \/ r \in Range(v.displaced)
    BY <1>5, <2>2, UniteAllLooks
  <2>4. CanonIn(v.canon, I) /\ v.displaced \in Seq(I)
        /\ \A r \in Range(v.displaced) : Lookup(v.canon, r) # r
    BY <1>5, <2>2, UniteAllLooks
  <2>5. DOMAIN canon \subseteq DOMAIN v.canon
    BY <1>6, <2>2, JoinedKeeps
  <2> QED
    BY <2>3, <2>4, <2>5
<1>8. Coherent(Alive, canon', <<>>, Taken)
  BY <1>2, <1>6, CoherentJoined
<1>9. Alive' = Alive /\ Taken' = Taken
  BY <1>1 DEF Alive, Taken, Busy
<1>10. Coherent(Alive, canon, unions, Taken)'
  BY <1>1, <1>8, <1>9
<1>11. \A t \in Table : \A r \in DOMAIN rows[t] : Lookup(canon, r) = r
  BY <1>1, <1>4, StagedNone DEF Merging, Busy
<1>12. ASSUME NEW t \in Table, NEW r \in DOMAIN rows[t]
       PROVE  Lookup(canon', r) = r \/ r \in Range(displaced')
  BY <1>6, <1>7, <1>11
<1>13. pc' = "rebuild" => DisplacedWell'
  BY <1>1, <1>6, <1>7, <1>12 DEF DisplacedWell, Canonical
<1>14. ASSUME pc' # "rebuild", NEW t \in Table
       PROVE  StagedWell(canon', staged'[t], DOMAIN rows'[t])
  <2>1. displaced' = <<>>
    BY <1>1, <1>14
  <2>2. \A r \in DOMAIN rows[t] : Lookup(canon', r) = r
    BY <1>12, <2>1, EmptyIsSeq
  <2> QED
    BY <1>1, <1>4, <2>2, StagedNone
<1>15. FreshWell'
  BY <1>1, <1>3, EmptyIsSeq DEF FreshWell
<1> QED
  BY <1>1, <1>2, <1>6, <1>7, <1>9, <1>10, <1>13, <1>14, <1>15 DEF Merging

\* Before a rebuild a row that is not canonical moves onto one that is stored.
LEMMA DisplacedMoves ==
  ASSUME Base, Merging, pc = "rebuild", NEW t \in Table
  PROVE  /\ MovesOnto(t)
         /\ \A r \in DOMAIN rows[t] : Canonical(r) \in DOMAIN rows[t] =>
              CellsBy(canon, t, rows[t][Canonical(r)]) = CellsBy(canon, t, rows[t][r])
<1>1. /\ Coherent(Alive, canon, unions, Taken) /\ CanonIn(canon, RowId) /\ DisplacedWell
  BY MergingIs DEF Busy, Merging
<1>2. unions = <<>> /\ FactsOf(rows) \subseteq Alive
  BY <1>1 DEF DisplacedWell, Alive
<1>3. Alive = FactsOf(rows)
  <2>1. fresh = <<>> /\ \A u \in Table : staged[u] = <<>>
    BY DEF Base, Control, StagedFits
  <2> QED
    BY <2>1, NoneWaiting DEF Alive
<1>4. Agree(FactsOf(rows), canon)
  BY <1>1, <1>2, <1>3, JoinedEmpty DEF Coherent
<1>5. ASSUME NEW r \in DOMAIN rows[t], NEW u \in Table, Canonical(r) \in DOMAIN rows[u]
      PROVE  u = t /\ CellsBy(canon, t, rows[t][Canonical(r)]) = CellsBy(canon, t, rows[t][r])
  <2>1. PICK q : q = Canonical(r)
    OBVIOUS
  <2>2. PICK x, y : x = <<t, r, rows[t][r]>> /\ y = <<u, q, rows[u][q]>>
    OBVIOUS
  <2>3. x \in FactsOf(rows) /\ y \in FactsOf(rows)
    BY <1>5, <2>1, <2>2, FactsAre
  <2>4. Lookup(canon, x[2]) = Lookup(canon, y[2])
    <3>1. Lookup(canon, q) = q
      BY <1>1, <2>1, LookupTwice DEF Canonical
    <3> QED
      BY <2>1, <2>2, <3>1 DEF Canonical
  <2>5. x[1] = y[1] /\ CellsBy(canon, x[1], x[3]) = CellsBy(canon, y[1], y[3])
    BY <1>4, <2>3, <2>4 DEF Agree
  <2> QED
    BY <2>1, <2>2, <2>5
<1>6. ASSUME NEW r \in DOMAIN rows[t], Canonical(r) # r
      PROVE  Canonical(r) \in DOMAIN rows[t]
  <2>1. r \in DOMAIN canon
    BY <1>6 DEF Canonical, Lookup
  <2>2. PICK y \in FactsOf(rows) : y[2] = Canonical(r)
    BY <1>1, <1>3, <2>1 DEF Coherent, IdsOf, Canonical
  <2>3. PICK u \in Table : \E s \in DOMAIN rows[u] : y = <<u, s, rows[u][s]>>
    BY <2>2, FactsAre
  <2>4. Canonical(r) \in DOMAIN rows[u]
    BY <2>2, <2>3
  <2> QED
    BY <1>5, <2>4
<1>7. MovesOnto(t)
  BY <1>1, <1>6 DEF MovesOnto, DisplacedWell
<1> QED
  BY <1>5, <1>7

\* Staging the rewritten rows beside those they replace
LEMMA RebuildMerges ==
  ASSUME Base, Merging, Rebuild
  PROVE  Merging' /\ Rewritten
<1>1. /\ pc = "rebuild" /\ pc' = "apply"
      /\ UNCHANGED <<rows, canon, unions, fresh, current, applied>>
      /\ \A t \in Table : staged'[t] = RebuildOps(t)
  BY DEF Rebuild
<1>2. /\ Coherent(Alive, canon, unions, Taken) /\ Taken \in SUBSET RowId
      /\ CanonIn(canon, RowId) /\ DictOK(dict) /\ TablesIn(rows, RowId)
      /\ current \notin applied /\ DisplacedWell /\ unions = <<>>
  BY <1>1, MergingIs DEF Busy, Merging, DisplacedWell
<1>3. fresh = <<>> /\ \A t \in Table : staged[t] = <<>>
  BY <1>1 DEF Base, Control, StagedFits
<1>4. Alive = FactsOf(rows) /\ Alive' = FactsOf(rows) \cup Waiting(staged')
  BY <1>1, <1>3, NoneWaiting DEF Alive
<1>5. ASSUME NEW t \in Table
      PROVE  /\ Rewrites(t, RebuildOps(t), Affected(t))
             /\ \A r \in DOMAIN rows[t] : Canonical(r) # r => r \in Affected(t)
             /\ Affected(t) \subseteq DOMAIN rows[t] /\ IsSeq(RebuildOps(t))
  <2>1. MovesOnto(t)
    BY <1>1, DisplacedMoves
  <2>2. TableIn(t, rows[t], RowId)
    BY <1>2 DEF TablesIn
  <2>3. Rewrites(t, RebuildOps(t), Affected(t)) /\ IsSeq(RebuildOps(t))
    BY <1>2, <2>1, <2>2, RebuildRewrites, RebuildIn DEF StagedIn
  <2> QED
    BY <2>1, <2>3 DEF Affected, MovesOnto
<1>6. ASSUME NEW t \in Table
      PROVE  StagedWell(canon', staged'[t], DOMAIN rows'[t])
  <2>1. PICK s, held : s = RebuildOps(t) /\ held = DOMAIN rows[t]
    OBVIOUS
  <2>2. Rewrites(t, s, Affected(t)) /\ \A r \in held : Canonical(r) # r => r \in Affected(t)
    BY <1>5, <2>1
  <2>3. StagedWell(canon, s, held)
    BY <2>2 DEF Rewrites, StagedWell, Canonical
  <2> QED
    BY <1>1, <2>1, <2>3
<1>7. ASSUME NEW y \in Waiting(staged')
      PROVE  \E x \in FactsOf(rows) :
               x[1] = y[1] /\ x[2] = y[2] /\ CellsBy(canon, x[1], x[3]) = CellsBy(canon, y[1], y[3])
  <2>1. PICK t \in Table : y \in Adds(t, staged'[t])
    BY DEF Waiting
  <2>2. PICK s : s = RebuildOps(t)
    OBVIOUS
  <2>3. PICK op \in Range(s) : op.kind = "add" /\ y = <<t, op.id, op.cells>>
    BY <1>1, <2>1, <2>2 DEF Adds
  <2>4. PICK i \in DOMAIN s : op = s[i]
    BY <2>3 DEF Range
  <2>5. op.id \in DOMAIN rows[t] /\ op.cells = CanonicalCells(t, rows[t][op.id])
    BY <1>5, <2>2, <2>3, <2>4 DEF Rewrites
  <2>6. PICK x : x = <<t, op.id, rows[t][op.id]>>
    OBVIOUS
  <2>7. x \in FactsOf(rows)
    BY <2>5, <2>6, FactsAre
  <2>8. CellsBy(canon, t, y[3]) = CellsBy(canon, t, x[3])
    BY <1>2, <2>3, <2>5, <2>6, CellsTwice
  <2> QED
    BY <2>3, <2>6, <2>7, <2>8
<1>8. Coherent(Alive, canon, unions, Taken)'
  <2>1. PICK facts, more, I : facts = FactsOf(rows) /\ more = Waiting(staged') /\ I = Taken
    OBVIOUS
  <2>2. Coherent(facts, canon, <<>>, I)
    BY <1>2, <1>4, <2>1
  <2>3. Coherent(facts \cup more, canon, <<>>, I)
    BY <1>7, <2>1, <2>2, CoherentRewritten
  <2>4. Taken' = I
    BY <1>1, <2>1 DEF Taken, Busy
  <2> QED
    BY <1>1, <1>2, <1>4, <2>1, <2>3, <2>4
<1>9. FreshWell'
  BY <1>1, <1>3, EmptyIsSeq DEF FreshWell
<1>10. Rewritten
  <2>1. Taken' = Taken
    BY <1>1 DEF Taken, Busy
  <2> QED
    BY <1>1, <1>2, <1>4, <1>7, <2>1 DEF Rewritten
<1> QED
  BY <1>1, <1>2, <1>6, <1>8, <1>9, <1>10 DEF Merging

\* The insertions a commit stages are of its own rows, each once.
LEMMA StagedOpsAre ==
  ASSUME NEW c \in Commit, NEW t \in Table, NEW s, s = StagedOps(c, t)
  PROVE  /\ \A i \in DOMAIN s : \E k \in DOMAIN Ops[c] :
              /\ s[i].kind = "add" /\ s[i].id = <<c, k>> /\ s[i].cells = Ops[c][k].cells
              /\ Ops[c][k].table = t
         /\ \A i, j \in DOMAIN s : s[i].id = s[j].id => i = j
<1> DEFINE S == {i \in DOMAIN Ops[c] : Ops[c][i].table = t}
           at == Ascending(S)
           n == Cardinality(S)
<1>1. S \in SUBSET Nat /\ IsFiniteSet(S)
  <2>1. DOMAIN Ops[c] = 1 .. Len(Ops[c]) /\ Len(Ops[c]) \in Nat
    BY OpsAre
  <2>2. IsFiniteSet(1 .. Len(Ops[c]))
    BY <2>1, FS_Interval
  <2> QED
    BY <2>1, <2>2, FS_Subset
<1>2. n \in Nat /\ at \in [1 .. n -> S] /\ \A i, j \in 1 .. n : i < j => at[i] < at[j]
  BY <1>1, ListAscending
<1>3. s = [k \in DOMAIN at |-> Add(<<c, at[k]>>, Ops[c][at[k]].cells)]
  BY DEF StagedOps
<1> HIDE DEF at, n
<1>4. \A i \in DOMAIN s :
        /\ i \in 1 .. n /\ at[i] \in S
        /\ s[i].kind = "add" /\ s[i].id = <<c, at[i]>> /\ s[i].cells = Ops[c][at[i]].cells
  BY <1>2, <1>3 DEF Add
<1>5. ASSUME NEW i \in DOMAIN s, NEW j \in DOMAIN s, s[i].id = s[j].id PROVE i = j
  <2>1. at[i] = at[j] /\ i \in Nat /\ j \in Nat /\ at[i] \in Nat
    BY <1>1, <1>2, <1>4, <1>5
  <2>2. ~(i < j) /\ ~(j < i)
    BY <1>2, <1>4, <2>1
  <2> QED
    BY <2>1, <2>2
<1> QED
  BY <1>4, <1>5

\* Rows that are stored have ids that were given out.
LEMMA HeldTaken ==
  ASSUME NEW facts, NEW can, NEW uns, NEW I, Coherent(facts, can, uns, I),
         FactsOf(rows) \subseteq facts, NEW r, r \notin I
  PROVE  Lookup(can, r) = r /\ \A t \in Table : r \notin DOMAIN rows[t]
<1>1. ASSUME NEW t \in Table, r \in DOMAIN rows[t] PROVE FALSE
  <2>1. PICK x : x = <<t, r, rows[t][r]>>
    OBVIOUS
  <2>2. x \in FactsOf(rows) /\ x[2] = r
    BY <1>1, <2>1, FactsAre
  <2> QED
    BY <2>2 DEF Coherent, IdsOf
<1> QED
  BY <1>1 DEF Coherent, Lookup

\* Between commits, and while nothing is staged or reported
LEMMA AliveAtRest ==
  ASSUME Base, Merging, pc \in {"idle", "check"}
  PROVE  /\ Alive = FactsOf(rows) /\ fresh = <<>> /\ \A t \in Table : staged[t] = <<>>
         /\ \A t \in Table : \A r \in DOMAIN rows[t] : Lookup(canon, r) = r
<1>1. fresh = <<>> /\ \A t \in Table : staged[t] = <<>>
  BY DEF Base, Control, StagedFits
<1>2. \A t \in Table : \A r \in DOMAIN rows[t] : Lookup(canon, r) = r
  BY <1>1, StagedNone DEF Merging, Busy
<1> QED
  BY <1>1, <1>2, NoneWaiting DEF Alive

\* A commit's rows have ids that no row had.
LEMMA BeginMerges ==
  ASSUME Base, Merging, NEW c \in Commit, Begin(c)
  PROVE  Merging' /\ Grown(Waiting(staged'))
<1>1. /\ pc = "idle" /\ pc' = "apply" /\ c \notin applied /\ current' = c
      /\ UNCHANGED <<rows, canon, displaced, unions, applied, fresh>>
      /\ \A t \in Table : staged'[t] = StagedOps(c, t)
  BY DEF Begin, Takes, rowing
<1>2. /\ Coherent(Alive, canon, unions, Taken) /\ CanonIn(canon, RowId)
  BY <1>1, MergingIs
<1>3. /\ Alive = FactsOf(rows) /\ fresh = <<>>
      /\ \A t \in Table : \A r \in DOMAIN rows[t] : Lookup(canon, r) = r
  BY <1>1, AliveAtRest
<1>4. PICK I, J : I = OfCommits(applied) /\ J = Taken'
  OBVIOUS
<1>5. /\ Taken = I /\ I \in SUBSET J /\ J \in SUBSET RowId
      /\ \A k \in DOMAIN Ops[c] : <<c, k>> \in J /\ <<c, k>> \notin I
  <2>1. Taken = I
    BY <1>1, <1>4 DEF Taken, Busy
  <2>2. J = I \cup {r \in RowId : r[1] = c /\ r[2] <= Len(Ops[c])}
    BY <1>1, <1>4 DEF Taken, Busy
  <2>3. \A k \in DOMAIN Ops[c] : k \in Nat /\ k <= Len(Ops[c]) /\ <<c, k>> \in RowId
    BY OpsAre DEF RowId
  <2> QED
    BY <1>1, <1>4, <2>1, <2>2, <2>3 DEF OfCommits
<1>6. ASSUME NEW t \in Table
      PROVE  StagedWell(canon', staged'[t], DOMAIN rows'[t])
  <2>1. PICK s, held : s = StagedOps(c, t) /\ held = DOMAIN rows[t]
    OBVIOUS
  <2>2. /\ \A i \in DOMAIN s : s[i].kind = "add"
        /\ \A i, j \in DOMAIN s : s[i].id = s[j].id => i = j
        /\ \A i \in DOMAIN s : \E k \in DOMAIN Ops[c] : s[i].id = <<c, k>>
    BY <2>1, StagedOpsAre
  <2>3. \A i \in DOMAIN s : s[i].id \notin I
    BY <1>5, <2>2
  <2>4. \A i \in DOMAIN s : Lookup(canon, s[i].id) = s[i].id /\ s[i].id \notin held
    BY <1>2, <1>3, <1>5, <2>1, <2>3, HeldTaken
  <2>5. StagedWell(canon, s, held)
    BY <1>3, <2>1, <2>2, <2>4 DEF StagedWell
  <2> QED
    BY <1>1, <2>1, <2>5
<1>7. ASSUME NEW y \in Waiting(staged')
      PROVE  \E k \in DOMAIN Ops[c] : y = <<Ops[c][k].table, <<c, k>>, Ops[c][k].cells>>
  <2>1. PICK t \in Table : y \in Adds(t, staged'[t])
    BY DEF Waiting
  <2>2. PICK s : s = StagedOps(c, t)
    OBVIOUS
  <2>3. PICK op \in Range(s) : y = <<t, op.id, op.cells>>
    BY <1>1, <2>1, <2>2 DEF Adds
  <2>4. PICK i \in DOMAIN s : op = s[i]
    BY <2>3 DEF Range
  <2> QED
    BY <2>2, <2>3, <2>4, StagedOpsAre
<1>8. Coherent(Alive, canon, unions, Taken)' /\ Grown(Waiting(staged'))
  <2>1. PICK facts, more : facts = FactsOf(rows) /\ more = Waiting(staged')
    OBVIOUS
  <2>2. Coherent(facts, canon, unions, I)
    BY <1>2, <1>3, <1>5, <2>1
  <2>3. ASSUME NEW y \in more PROVE y[2] \in J /\ y[2] \notin I
    BY <1>5, <1>7, <2>1
  <2>4. IdsOf(more) \subseteq J /\ IdsOf(more) \cap I = {}
    BY <2>3 DEF IdsOf
  <2>5. \A x, y \in more : x[2] = y[2] => x = y
    <3>1. ASSUME NEW x \in more, NEW y \in more, x[2] = y[2] PROVE x = y
      <4>1. PICK k \in DOMAIN Ops[c] : x = <<Ops[c][k].table, <<c, k>>, Ops[c][k].cells>>
        BY <1>7, <2>1
      <4>2. PICK m \in DOMAIN Ops[c] : y = <<Ops[c][m].table, <<c, m>>, Ops[c][m].cells>>
        BY <1>7, <2>1
      <4>3. k = m
        BY <3>1, <4>1, <4>2
      <4> QED
        BY <4>1, <4>2, <4>3
    <3> QED
      BY <3>1
  <2>6. Coherent(facts \cup more, canon, unions, J)
    BY <1>2, <1>5, <2>2, <2>4, <2>5, CoherentMore
  <2>7. Alive' = facts \cup more
    BY <1>1, <1>3, <2>1, NoneWaiting DEF Alive
  <2>8. Alive = facts
    BY <1>3, <2>1
  <2> QED
    BY <1>1, <1>4, <1>5, <2>1, <2>4, <2>5, <2>6, <2>7, <2>8 DEF Grown
<1>9. FreshWell'
  BY <1>1, <1>3, EmptyIsSeq DEF FreshWell
<1> QED
  BY <1>1, <1>6, <1>8, <1>9 DEF Merging

\* Rows of views get ids that no row of the commit has.
LEMMA CheckAcceptedMerges ==
  ASSUME Base, Base', Merging, CheckAccepted
  PROVE  Merging' /\ (pc' # "panicked" => Grown(Reported(fresh')))
<1> SUFFICES ASSUME pc' # "panicked" PROVE Merging' /\ Grown(Reported(fresh'))
  BY DEF Merging, Busy
<1>1. /\ pc = "check" /\ pc' = "derive"
      /\ UNCHANGED <<rows, staged, canon, displaced, unions, applied, current>>
  BY DEF CheckAccepted, rowing
<1>2. /\ Coherent(Alive, canon, unions, Taken) /\ CanonIn(canon, RowId)
      /\ current \notin applied /\ current \in Commit
  BY <1>1, MergingIs DEF Busy, Base, Control
<1>3. /\ Alive = FactsOf(rows) /\ \A t \in Table : staged[t] = <<>>
      /\ \A t \in Table : \A r \in DOMAIN rows[t] : Lookup(canon, r) = r
  BY <1>1, AliveAtRest
<1>4. PICK n, f : n = Len(Ops[current]) /\ f = fresh'
  OBVIOUS
<1>5. /\ n \in Nat /\ IsSeq(f) /\ Len(f) \in Nat /\ DOMAIN f = 1 .. Len(f)
      /\ Range(f) = {f[i] : i \in 1 .. Len(f)}
      /\ \A i \in DOMAIN f : f[i].id = <<current, n + i>> /\ f[i].table \in Table
  <2>1. n \in Nat /\ IsSeq(f) /\ \A x \in Range(f) : x.table \in Table
    BY <1>2, <1>4, OpsAre DEF Base, ShapeNow, NewRowIn
  <2>2. PICK gain : f \in NewRows(gain)
    BY <1>4 DEF CheckAccepted
  <2>3. \A i \in DOMAIN f : f[i].id = <<current, n + i>>
    BY <1>4, <2>2 DEF NewRows
  <2>4. Len(f) \in Nat /\ DOMAIN f = 1 .. Len(f) /\ Range(f) = {f[i] : i \in 1 .. Len(f)}
    BY <2>1, SeqIs DEF IsSeq
  <2> QED
    BY <2>1, <2>3, <2>4
<1>6. PICK I, J : I = Taken /\ J = Taken'
  OBVIOUS
<1>7. /\ I \in SUBSET J /\ J \in SUBSET RowId
      /\ \A i \in DOMAIN f : f[i].id \in J /\ f[i].id \notin I
  <2>1. I = OfCommits(applied) \cup {r \in RowId : r[1] = current /\ r[2] <= n}
    BY <1>1, <1>4, <1>6 DEF Taken, Busy
  <2>2. J = OfCommits(applied) \cup {r \in RowId : r[1] = current}
    BY <1>1, <1>6 DEF Taken, Busy
  <2>3. \A i \in DOMAIN f : n + i \in Nat /\ ~(n + i <= n) /\ f[i].id = <<current, n + i>>
    BY <1>5
  <2>4. ASSUME NEW i \in DOMAIN f
        PROVE  f[i].id \in RowId /\ f[i].id[1] = current /\ ~(f[i].id[2] <= n)
    <3>1. PICK m : m = n + i
      OBVIOUS
    <3>2. m \in Nat /\ ~(m <= n) /\ f[i].id = <<current, m>>
      BY <2>3, <3>1
    <3> QED
      BY <1>2, <3>2 DEF RowId
  <2> QED
    BY <1>2, <2>1, <2>2, <2>4 DEF OfCommits
<1>8. \A i, j \in DOMAIN f : f[i].id = f[j].id => i = j
  BY <1>5
<1>9. FreshWell'
  <2>1. \A i \in DOMAIN f :
          Lookup(canon, f[i].id) = f[i].id /\ f[i].id \notin DOMAIN rows[f[i].table]
    BY <1>2, <1>3, <1>5, <1>6, <1>7, HeldTaken
  <2> QED
    BY <1>1, <1>4, <1>8, <2>1 DEF FreshWell, Canonical
<1>10. Coherent(Alive, canon, unions, Taken)' /\ Grown(Reported(fresh'))
  <2>1. PICK facts, more : facts = FactsOf(rows) /\ more = Reported(f)
    OBVIOUS
  <2>2. \A y \in more : \E i \in DOMAIN f : y = <<f[i].table, f[i].id, f[i].cells>>
    BY <1>5, <2>1 DEF Reported
  <2>3. IdsOf(more) \subseteq J /\ IdsOf(more) \cap I = {}
    <3>1. \A y \in more : y[2] \in J /\ y[2] \notin I
      BY <1>7, <2>2
    <3> QED
      BY <3>1 DEF IdsOf
  <2>4. \A x, y \in more : x[2] = y[2] => x = y
    <3>1. ASSUME NEW x \in more, NEW y \in more, x[2] = y[2] PROVE x = y
      <4>1. PICK i \in DOMAIN f : x = <<f[i].table, f[i].id, f[i].cells>>
        BY <2>2
      <4>2. PICK j \in DOMAIN f : y = <<f[j].table, f[j].id, f[j].cells>>
        BY <2>2
      <4>3. i = j
        BY <1>8, <3>1, <4>1, <4>2
      <4> QED
        BY <4>1, <4>2, <4>3
    <3> QED
      BY <3>1
  <2>5. Coherent(facts, canon, unions, I)
    BY <1>2, <1>3, <1>6, <2>1
  <2>6. Coherent(facts \cup more, canon, unions, J)
    BY <1>2, <1>7, <2>3, <2>4, <2>5, CoherentMore
  <2>7. Alive' = facts \cup more
    BY <1>1, <1>3, <1>4, <2>1, NoneWaiting DEF Alive
  <2>8. Alive = facts
    BY <1>3, <2>1
  <2> QED
    BY <1>1, <1>4, <1>6, <1>7, <2>1, <2>3, <2>4, <2>6, <2>7, <2>8 DEF Grown
<1>11. \A t \in Table : StagedWell(canon', staged'[t], DOMAIN rows'[t])
  BY <1>1, <1>3, StagedNone
<1> QED
  BY <1>1, <1>2, <1>9, <1>10, <1>11 DEF Merging

\* The first of the reported rows, and the others
LEMMA ReportedTail ==
  ASSUME NEW s, IsSeq(s), s # <<>>, NEW x, x = s[1]
  PROVE  Reported(s) = Reported(Tail(s)) \cup {<<x.table, x.id, x.cells>>}
<1>1. Range(s) = {x} \cup Range(Tail(s))
  BY AddsTail
<1> QED
  BY <1>1 DEF Reported

\* Storing a reported row
LEMMA DeriveMerges ==
  ASSUME Base, Merging, Derive
  PROVE  Merging' /\ pc' # "panicked" /\ (pc' # "failed" => Moved)
<1>1. PICK x, t : x = Head(fresh) /\ t = x.table
  OBVIOUS
<1>2. /\ pc = "derive" /\ fresh # <<>> /\ IsSeq(fresh) /\ fresh' = Tail(fresh)
      /\ t \in Table /\ InsertRow(t, x.id, x.cells)
      /\ UNCHANGED <<staged, canon, applied, current>>
  BY <1>1, NextRow DEF Derive, Base, ShapeNow
<1>3. /\ Coherent(Alive, canon, unions, Taken) /\ Taken \in SUBSET RowId
      /\ CanonIn(canon, RowId) /\ DictOK(dict) /\ TablesIn(rows, RowId)
      /\ FreshWell /\ current \notin applied
  BY <1>2, MergingIs DEF Busy
<1>4. /\ \A u \in Table : staged[u] = <<>>
      /\ \A u \in Table : \A r \in DOMAIN rows[u] : Lookup(canon, r) = r
  <2>1. \A u \in Table : staged[u] = <<>>
    BY <1>2 DEF Base, StagedFits
  <2> QED
    BY <1>2, <2>1, StagedNone DEF Merging, Busy
<1>5. PICK s, v : s = fresh /\ v = Tail(fresh)
  OBVIOUS
<1>6. /\ x = s[1] /\ 1 \in DOMAIN s /\ IsSeq(s) /\ s # <<>>
      /\ \A i \in DOMAIN v : v[i] = s[i+1] /\ i + 1 \in DOMAIN s /\ i \in Int /\ i + 1 # 1
  <2>1. /\ x = s[1] /\ 1 \in DOMAIN s /\ DOMAIN v = 1 .. Len(s) - 1 /\ Len(s) \in Nat
        /\ \A i \in DOMAIN v : v[i] = s[i+1] /\ i + 1 \in DOMAIN s
    BY <1>1, <1>2, <1>5, TailIsSeq
  <2> QED
    BY <1>2, <1>5, <2>1
<1>7. x.id \notin DOMAIN rows[t] /\ Lookup(canon, x.id) = x.id
  BY <1>1, <1>3, <1>5, <1>6 DEF FreshWell, Canonical
<1>8. PICK y : y = <<t, x.id, x.cells>>
  OBVIOUS
<1>9. Reported(fresh) = Reported(fresh') \cup {y}
  BY <1>1, <1>2, <1>5, <1>6, <1>8, ReportedTail
<1>10. PICK facts, I : facts = Alive /\ I = Taken
  OBVIOUS
<1>11. FactsOf(rows) \subseteq facts /\ y \in facts
  BY <1>9, <1>10 DEF Alive
<1>12. ASSUME NEW all, facts \subseteq all, Coherent(all, canon, unions, I)
       PROVE  \/ pc' = "failed"
              \/ /\ pc' = pc /\ Coherent(all, canon, unions', I)
                 /\ FactsOf(rows') = FactsOf(rows) \cup {y}
                 /\ DOMAIN rows'[t] = DOMAIN rows[t] \cup {x.id}
                 /\ \A u \in Table \ {t} : rows'[u] = rows[u]
                 /\ StagesTwins(all)
  <2>1. FactsOf(rows) \subseteq all /\ y \in all
    BY <1>11, <1>12
  <2> QED
    BY <1>2, <1>3, <1>7, <1>8, <1>10, <1>12, <2>1, InsertMerges
<1>15. Coherent(facts, canon, unions, I)
  BY <1>3, <1>10
<1>13. CASE pc' = "failed"
  BY <1>13 DEF Merging, Busy
<1>14. CASE pc' # "failed"
  <2>1. Alive' = facts
    BY <1>2, <1>9, <1>10, <1>12, <1>14, <1>15 DEF Alive
  <2>2. Taken' = I /\ pc' = "derive"
    BY <1>2, <1>10, <1>12, <1>14, <1>15 DEF Taken
  <2>3. Coherent(Alive, canon, unions, Taken)'
    BY <1>2, <1>12, <1>14, <1>15, <2>1, <2>2
  <2>4. \A u \in Table : StagedWell(canon', staged'[u], DOMAIN rows'[u])
    BY <1>2, <1>4, <1>7, <1>12, <1>14, <1>15, StagedNone
  <2>5. FreshWell'
    <3>1. ASSUME NEW i \in DOMAIN v
          PROVE  v[i].id \notin DOMAIN rows'[v[i].table] /\ Lookup(canon, v[i].id) = v[i].id
      <4>1. /\ v[i].id \notin DOMAIN rows[v[i].table] /\ Lookup(canon, v[i].id) = v[i].id
            /\ v[i].id # x.id
        BY <1>3, <1>5, <1>6 DEF FreshWell, Canonical
      <4>2. v[i].table \in Table
        BY <1>2, <1>5, <1>6 DEF Base, ShapeNow, NewRowIn, Range
      <4> QED
        BY <1>12, <1>14, <1>15, <4>1, <4>2
    <3>2. ASSUME NEW i \in DOMAIN v, NEW j \in DOMAIN v, v[i].id = v[j].id PROVE i = j
      <4>1. i + 1 = j + 1
        BY <1>3, <1>5, <1>6, <3>2 DEF FreshWell
      <4> QED
        BY <1>6, <4>1
    <3> QED
      BY <1>2, <1>5, <3>1, <3>2 DEF FreshWell, Canonical
  <2>6. Moved
    <3>1. StagesTwins(facts)
      BY <1>12, <1>14, <1>15
    <3> QED
      BY <1>2, <1>10, <1>12, <1>14, <2>1, <2>2, <3>1 DEF Moved
  <2> QED
    BY <1>2, <1>3, <2>2, <2>3, <2>4, <2>5, <2>6 DEF Merging
<1> QED
  BY <1>2, <1>12, <1>13, <1>14, <1>15

\* At the end of a commit its ids are given out for good.
LEMMA RecordMerges ==
  ASSUME Base, Merging, Record
  PROVE  Merging' /\ Grown({})
<1>1. /\ pc = "derive" /\ pc' = "idle" /\ fresh = <<>> /\ fresh' = <<>>
      /\ applied' = applied \cup {current}
      /\ UNCHANGED <<rows, staged, canon, displaced, unions>>
  BY DEF Record, DropLocals, rowing
<1>2. /\ Coherent(Alive, canon, unions, Taken) /\ CanonIn(canon, RowId) /\ FreshWell
  BY <1>1, MergingIs DEF Busy
<1>3. PICK facts, I, J : facts = Alive /\ I = Taken /\ J = Taken'
  OBVIOUS
<1>4. I \in SUBSET J /\ J \in SUBSET RowId
  BY <1>1, <1>3 DEF Taken, OfCommits, Busy
<1>5. Coherent(facts \cup {}, canon, unions, J)
  <2>1. Coherent(facts, canon, unions, I) /\ IdsOf({}) = {}
    BY <1>2, <1>3 DEF IdsOf
  <2> QED
    BY <1>2, <1>4, <2>1, CoherentMore
<1>6. Alive' = facts
  BY <1>1, <1>3 DEF Alive
<1>7. Coherent(Alive, canon, unions, Taken)'
  BY <1>1, <1>3, <1>5, <1>6
<1>8. \A t \in Table : StagedWell(canon', staged'[t], DOMAIN rows'[t])
  BY <1>1 DEF Merging, Busy
<1>9. FreshWell'
  BY <1>1, EmptyIsSeq DEF FreshWell
<1>10. Grown({})
  <2>1. IdsOf({}) = {}
    BY DEF IdsOf
  <2> QED
    BY <1>1, <1>3, <1>4, <1>6, <2>1 DEF Grown
<1> QED
  BY <1>1, <1>7, <1>8, <1>9, <1>10 DEF Merging, Busy

\* A rollback goes back to a state in which rows of one class agreed.
LEMMA RollbackMerges ==
  ASSUME Base, UndoRestores, MergedThen, Rollback
  PROVE  Merging'
<1> SUFFICES ASSUME pc' = "idle" PROVE Merging'
  BY DEF Rollback, Merging, Busy
<1>1. /\ rows' = before /\ canon' = snap.canon /\ unions' = snap.unions
      /\ fresh' = <<>> /\ applied' = applied
      /\ \A t \in Table : staged'[t] = <<>>
  BY BackToBefore, EachTableIs DEF Rollback, RestoreRowing, DropLocals, UndoTables
<1>2. /\ Coherent(FactsOf(before), snap.canon, snap.unions, OfCommits(applied))
      /\ \A t \in Table : \A r \in DOMAIN before[t] : Lookup(snap.canon, r) = r
  BY DEF Rollback, MergedThen
<1>3. Alive' = FactsOf(before)
  BY <1>1, NoneWaiting DEF Alive
<1>4. Taken' = OfCommits(applied)
  BY <1>1 DEF Taken, Busy
<1>5. \A t \in Table : StagedWell(canon', staged'[t], DOMAIN rows'[t])
  BY <1>1, <1>2, StagedNone
<1>6. FreshWell'
  BY <1>1, EmptyIsSeq DEF FreshWell
<1> QED
  BY <1>1, <1>2, <1>3, <1>4, <1>5, <1>6 DEF Merging, Busy

\* A store that starts again has no rows to agree.
LEMMA NothingMerged ==
  ASSUME NEW I
  PROVE  Coherent(FactsOf(EachTable(EmptyFun)), EmptyFun, <<>>, I)
<1>1. FactsOf(EachTable(EmptyFun)) = {}
  BY EachTableIs, EmptyIsSeq, FactsAre DEF EmptyFun
<1>2. Joined(EmptyFun, <<>>) = EmptyFun /\ Ends(<<>>) = {} /\ DOMAIN EmptyFun = {}
  BY JoinedEmpty, EmptyIsSeq DEF EmptyFun
<1> QED
  BY <1>1, <1>2 DEF Coherent, Agree, IdsOf

\* Init and Reload
LEMMA EmptyMerges ==
  /\ Init => Merging
  /\ Base /\ Reload => Merging'
<1>1. ASSUME Init PROVE Merging
  <2>1. fresh = <<>> /\ \A t \in Table : staged[t] = <<>> /\ DOMAIN rows[t] = {}
    BY <1>1, EachTableIs, EmptyIsSeq DEF Init, Empty, EmptyFun
  <2>2. Alive = FactsOf(EachTable(EmptyFun)) /\ canon = EmptyFun /\ unions = <<>> /\ pc = "idle"
    BY <1>1, <2>1, NoneWaiting DEF Init, Empty, Alive
  <2>3. FreshWell /\ \A t \in Table : StagedWell(canon, staged[t], DOMAIN rows[t])
    BY <2>1, EmptyIsSeq, StagedNone DEF FreshWell
  <2> QED
    BY <2>2, <2>3, NothingMerged DEF Merging, Busy
<1>2. ASSUME Base, Reload PROVE Merging'
  <2>1. fresh' = <<>> /\ \A t \in Table : staged'[t] = <<>> /\ DOMAIN rows'[t] = {}
    BY <1>2, EachTableIs, EmptyIsSeq DEF Reload, Empty, EmptyFun, Base, Control, local
  <2>2. /\ Alive' = FactsOf(EachTable(EmptyFun))
        /\ canon' = EmptyFun /\ unions' = <<>> /\ pc' = "idle"
    BY <1>2, <2>1, NoneWaiting DEF Reload, Empty, Alive
  <2>3. FreshWell' /\ \A t \in Table : StagedWell(canon', staged'[t], DOMAIN rows'[t])
    BY <2>1, EmptyIsSeq, StagedNone DEF FreshWell
  <2> QED
    BY <2>2, <2>3, NothingMerged DEF Merging, Busy
<1> QED
  BY <1>1, <1>2

\* The steps that move nothing but control
LEMMA QuietMerges ==
  ASSUME Merging,
         \/ \E c \in Commit : BeginRefused(c)
         \/ \E t \in Table : TakeTable(t)
         \/ LeaveTable \/ CheckRejected \/ UNCHANGED vars
  PROVE  Merging'
<1>1. CASE pc' = "failed"
  BY <1>1 DEF Merging, Busy
<1>2. CASE pc' # "failed"
  <2>1. UNCHANGED <<rows, staged, canon, displaced, unions, fresh, current, applied, pc>>
    BY <1>2 DEF BeginRefused, TakeTable, LeaveTable, CheckRejected, vars, rowing
  <2>2. Alive' = Alive /\ Taken' = Taken
    BY <2>1 DEF Alive, Taken
  <2> QED
    BY <2>1, <2>2 DEF Merging, DisplacedWell, FreshWell, Canonical
<1> QED
  BY <1>1, <1>2

\* The state to go back to is one between commits.
LEMMA MergedThenStep ==
  ASSUME Base, Merging, MergedThen, [Next]_vars
  PROVE  MergedThen'
<1>1. ASSUME pc = "idle", Snapshot, UNCHANGED applied PROVE MergedThen'
  <2>1. Coherent(FactsOf(rows), canon, unions, OfCommits(applied))
    <3>1. Coherent(Alive, canon, unions, Taken) /\ Alive = FactsOf(rows)
      BY <1>1, MergingIs, AliveAtRest
    <3>2. Taken = OfCommits(applied)
      BY <1>1 DEF Taken, Busy
    <3> QED
      BY <3>1, <3>2
  <2>2. \A t \in Table : \A r \in DOMAIN rows[t] : Lookup(canon, r) = r
    BY <1>1, AliveAtRest
  <2>3. before' = rows /\ snap'.canon = canon /\ snap'.unions = unions
    BY <1>1 DEF Snapshot
  <2> QED
    BY <1>1, <2>1, <2>2, <2>3 DEF MergedThen
<1>2. ASSUME UNCHANGED <<snap, before, applied>>, pc \notin {"idle", "unreadable"}
      PROVE  MergedThen'
  BY <1>2 DEF MergedThen
<1>3. CASE UNCHANGED vars
  BY <1>3 DEF vars, MergedThen
<1>4. ASSUME NEW c \in Commit, Begin(c) \/ BeginRefused(c) PROVE MergedThen'
  BY <1>1, <1>4 DEF Begin, BeginRefused, Takes
<1>5. ASSUME NEW t \in Table, TakeTable(t) PROVE MergedThen'
  BY <1>2, <1>5 DEF TakeTable
<1>6. CASE ApplyOp \/ LeaveTable \/ ApplyUnions \/ Rebuild
  BY <1>2, <1>6 DEF ApplyOp, LeaveTable, ApplyUnions, Rebuild, local
<1>7. CASE CheckAccepted \/ CheckRejected \/ Derive
  BY <1>2, <1>7 DEF CheckAccepted, CheckRejected, Derive, local
<1>8. CASE Record \/ Rollback \/ Reload
  BY <1>8 DEF Record, Rollback, Reload, MergedThen
<1> QED
  BY <1>3, <1>4, <1>5, <1>6, <1>7, <1>8 DEF Next, Work

\* Every step keeps what rows of one class have in common.
LEMMA MergingStep ==
  ASSUME Base, Base', UndoRestores, Merging, MergedThen, [Next]_vars
  PROVE  Merging' /\ MergedThen'
<1>1. MergedThen'
  BY MergedThenStep
<1>2. CASE UNCHANGED vars
  BY <1>1, <1>2, QuietMerges
<1>3. ASSUME NEW c \in Commit, Begin(c) PROVE Merging'
  BY <1>3, BeginMerges
<1>4. ASSUME NEW c \in Commit, BeginRefused(c) PROVE Merging'
  BY <1>4, QuietMerges
<1>5. ASSUME NEW t \in Table, TakeTable(t) PROVE Merging'
  BY <1>5, QuietMerges
<1>6. CASE ApplyOp
  <2>1. PICK t, op : t = table /\ op = Head(staged[table])
    OBVIOUS
  <2>2. op.kind = "add" \/ op.kind = "delete"
    BY <1>6, <2>1, NextOp
  <2> QED
    BY <1>1, <1>6, <2>1, <2>2, AddMerges, DeleteMerges
<1>7. CASE LeaveTable \/ CheckRejected
  BY <1>1, <1>7, QuietMerges
<1>8. CASE ApplyUnions
  BY <1>1, <1>8, ApplyUnionsMerges
<1>9. CASE Rebuild
  BY <1>1, <1>9, RebuildMerges
<1>10. CASE CheckAccepted
  BY <1>1, <1>10, CheckAcceptedMerges
<1>11. CASE Derive
  BY <1>1, <1>11, DeriveMerges
<1>12. CASE Record
  BY <1>1, <1>12, RecordMerges
<1>13. CASE Rollback
  BY <1>1, <1>13, RollbackMerges
<1>14. CASE Reload
  BY <1>1, <1>14, EmptyMerges
<1> QED
  BY <1>1, <1>2, <1>3, <1>4, <1>5, <1>6, <1>7, <1>8, <1>9, <1>10, <1>11, <1>12, <1>13, <1>14
     DEF Next, Work

\* The invariants together
LEMMA MergingHolds == ViewsClosed => (Spec => [](Base /\ Merging))
<1> SUFFICES ASSUME ViewsClosed PROVE Spec => [](Base /\ Merging)
  OBVIOUS
<1>1. Init => Merging /\ MergedThen
  BY EmptyMerges DEF Init, MergedThen
<1>2. /\ Base /\ UndoRestores /\ (Base /\ UndoRestores)' /\ Merging /\ MergedThen /\ [Next]_vars
      => Merging' /\ MergedThen'
  BY MergingStep
<1> QED
  BY <1>1, <1>2, BaseHolds, PTL DEF Spec
=============================================================================
