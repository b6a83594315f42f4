----------------------------- MODULE FoldLemmas -----------------------------
(***************************************************************************)
(* What FoldLeft and FoldRight compute, step by step, and induction over   *)
(* them.  Undo logs, deltas, unions and the dictionary of StoreCore are    *)
(* folds, each of its own operation Op.                                    *)
(*                                                                         *)
(* SequencesExt folds over sequences by a recursive function on sets of    *)
(* places.  That this function exists, and that it is what the fold        *)
(* returns, is proved here from well-founded recursion on the number of    *)
(* places; after that a fold is known by its last step (FoldAppend) or its *)
(* first one (FoldHead).  Induction ranges over subsets of a set of values *)
(* instead of predicates, which the provers cannot instantiate.            *)
(***************************************************************************)
EXTENDS SequencesExt, SequenceTheorems, WellFoundedInduction, TLAPS

CONSTANT Op(_, _)

\* The folds of SequencesExt, with the operation fixed
Fold(base, seq) == FoldLeft(Op, base, seq)

\* The same left fold, as a function on the sets of places
Places(n, base, seq, g) ==
  g = [s \in SUBSET (1 .. n) |->
         IF s = {} THEN base ELSE Op(g[s \ {Max(s)}], seq[Max(s)])]

-----------------------------------------------------------------------------
\* A set of naturals that is not empty has a least element.
LEMMA Least ==
  ASSUME NEW T \in SUBSET Nat, T # {}
  PROVE  \E m \in T : \A k \in T : m <= k
<1>1. PICK m \in T : \A k \in T : ~(<<k, m>> \in OpToRel(<, Nat))
  BY NatLessThanWellFounded, WFMin
<1>2. \A k \in T : ~(k < m)
  BY <1>1 DEF OpToRel
<1> QED
  BY <1>2

\* Induction over the naturals, for a set T in place of a predicate.
LEMMA NatInd ==
  ASSUME NEW T, 0 \in T, \A n \in Nat : n \in T => n + 1 \in T
  PROVE  \A n \in Nat : n \in T
<1> SUFFICES ASSUME NEW z \in Nat, z \notin T PROVE FALSE
  OBVIOUS
<1> DEFINE U == {n \in Nat : n \notin T}
<1>1. PICK m \in U : \A k \in U : m <= k
  <2>1. U \in SUBSET Nat /\ U # {}
    OBVIOUS
  <2> QED
    BY <2>1, Least
<1>2. m # 0
  OBVIOUS
<1>3. m - 1 \in Nat /\ ~(m <= m - 1)
  BY <1>2
<1>4. m - 1 \in T
  BY <1>1, <1>3
<1>5. (m - 1) + 1 \in T
  BY <1>3, <1>4
<1> QED
  BY <1>5

\* A set of places up to n + 1 either has n + 1 as its greatest or lies below it.
LEMMA MaxOfPrefix ==
  ASSUME NEW n \in Nat, NEW s \in SUBSET (1 .. n+1)
  PROVE  /\ n + 1 \in s => Max(s) = n + 1 /\ s \ {n+1} \in SUBSET (1 .. n)
         /\ n + 1 \notin s => s \in SUBSET (1 .. n)
<1>1. ASSUME n + 1 \in s PROVE Max(s) = n + 1
  <2>1. \A y \in s : n + 1 >= y
    OBVIOUS
  <2>2. \A x \in s : (\A y \in s : x >= y) => x = n + 1
    BY <1>1
  <2> QED
    BY <1>1, <2>1, <2>2 DEF Max
<1>2. ASSUME NEW i \in s, i # n + 1 PROVE i \in 1 .. n
  BY <1>2
<1> QED
  BY <1>1, <1>2

\* A finite set of places has its Max as an element.
LEMMA MaxExists ==
  ASSUME NEW n \in Nat, NEW s \in SUBSET (1 .. n), s # {}
  PROVE  Max(s) \in s
<1> DEFINE T == {k \in Nat : \A u \in SUBSET (1 .. k) : u # {} => Max(u) \in u}
<1>1. 0 \in T
  <2>1. \A u \in SUBSET (1 .. 0) : u = {}
    OBVIOUS
  <2> QED
    BY <2>1
<1>2. ASSUME NEW k \in Nat, k \in T PROVE k + 1 \in T
  <2> SUFFICES ASSUME NEW u \in SUBSET (1 .. k+1), u # {} PROVE Max(u) \in u
    OBVIOUS
  <2> QED
    BY <1>2, MaxOfPrefix
<1> HIDE DEF T
<1>3. n \in T
  BY <1>1, <1>2, NatInd
<1> QED
  BY <1>3 DEF T

\* Such a function exists.
LEMMA PlacesExist ==
  ASSUME NEW n \in Nat, NEW base, NEW seq
  PROVE  \E g : Places(n, base, seq, g)
<1> DEFINE T == {k \in Nat : \E g : Places(k, base, seq, g)}
<1>1. 0 \in T
  <2> DEFINE g == [s \in SUBSET (1 .. 0) |-> base]
  <2>1. \A s \in SUBSET (1 .. 0) : s = {}
    OBVIOUS
  <2>2. Places(0, base, seq, g)
    BY <2>1 DEF Places
  <2> QED
    BY <2>2
<1>2. ASSUME NEW k \in Nat, k \in T PROVE k + 1 \in T
  <2>1. PICK g : Places(k, base, seq, g)
    BY <1>2
  <2> DEFINE h == [s \in SUBSET (1 .. k+1) |->
                     IF k + 1 \in s THEN Op(g[s \ {k+1}], seq[k+1]) ELSE g[s]]
  <2>2. ASSUME NEW s \in SUBSET (1 .. k+1)
        PROVE  h[s] = IF s = {} THEN base ELSE Op(h[s \ {Max(s)}], seq[Max(s)])
    <3>1. CASE k + 1 \in s
      <4>1. Max(s) = k + 1 /\ s \ {k+1} \in SUBSET (1 .. k)
        BY <3>1, MaxOfPrefix
      <4>2. s \ {k+1} \in SUBSET (1 .. k+1) /\ k+1 \notin s \ {k+1}
        OBVIOUS
      <4>3. h[s \ {k+1}] = g[s \ {k+1}]
        BY <4>2
      <4> QED
        BY <3>1, <4>1, <4>3
    <3>2. CASE k + 1 \notin s
      <4>1. s \in SUBSET (1 .. k)
        BY <3>2, MaxOfPrefix
      <4>2. g[s] = IF s = {} THEN base ELSE Op(g[s \ {Max(s)}], seq[Max(s)])
        BY <2>1, <4>1 DEF Places
      <4>3. s \ {Max(s)} \in SUBSET (1 .. k+1) /\ k+1 \notin s \ {Max(s)}
        BY <3>2
      <4> QED
        BY <3>2, <4>2, <4>3
    <3> QED
      BY <3>1, <3>2
  <2>3. Places(k+1, base, seq, h)
    BY <2>2 DEF Places
  <2> QED
    BY <2>3
<1> HIDE DEF T
<1>3. n \in T
  BY <1>1, <1>2, NatInd
<1> QED
  BY <1>3 DEF T

\* The fold of a sequence is that function at the set of all its places.
LEMMA FoldIsPlaces ==
  ASSUME NEW n \in Nat, NEW base, NEW seq, DOMAIN seq = 1 .. n
  PROVE  \E g : Places(n, base, seq, g) /\ Fold(base, seq) = g[1 .. n]
<1> DEFINE it == CHOOSE g : Places(n, base, seq, g)
<1>1. Places(n, base, seq, it)
  BY PlacesExist
<1>2. Fold(base, seq) = it[1 .. n]
  BY DEF Fold, FoldLeft, MapThenFoldSet, Places
<1> QED
  BY <1>1, <1>2

\* At a non-empty initial segment, such a function applies Op to the last place.
LEMMA PlacesStep ==
  ASSUME NEW n \in Nat, NEW base, NEW seq, NEW g, Places(n, base, seq, g),
         NEW k \in 0 .. n
  PROVE  g[1 .. k] = IF k = 0 THEN base ELSE Op(g[1 .. (k-1)], seq[k])
<1>1. 1 .. k \in SUBSET (1 .. n)
  OBVIOUS
<1>2. g[1 .. k] = IF 1 .. k = {} THEN base
                  ELSE Op(g[(1 .. k) \ {Max(1 .. k)}], seq[Max(1 .. k)])
  BY <1>1 DEF Places
<1>3. CASE k = 0
  BY <1>2, <1>3
<1>4. CASE k # 0
  <2>1. 1 .. k # {} /\ k \in 1 .. k
    BY <1>4
  <2>2. k - 1 \in Nat /\ 1 .. k \in SUBSET (1 .. (k-1) + 1) /\ (k-1) + 1 \in 1 .. k
    BY <1>4
  <2>3. Max(1 .. k) = (k-1) + 1
    BY <2>2, MaxOfPrefix
  <2>4. Max(1 .. k) = k /\ (1 .. k) \ {k} = 1 .. (k-1)
    BY <2>3
  <2> QED
    BY <1>2, <1>4, <2>1, <2>4
<1> QED
  BY <1>3, <1>4

\* The value at an initial segment depends on that segment only.
LEMMA PlacesAgree ==
  ASSUME NEW n \in Nat, NEW m \in Nat, NEW base, NEW seq, NEW other, NEW g, NEW h,
         Places(n, base, seq, g), Places(m, base, other, h),
         NEW k \in Nat, k <= n, k <= m, \A i \in 1 .. k : seq[i] = other[i]
  PROVE  g[1 .. k] = h[1 .. k]
<1> DEFINE T == {j \in Nat : j <= k => g[1 .. j] = h[1 .. j]}
<1>1. 0 \in T
  BY PlacesStep
<1>2. ASSUME NEW j \in Nat, j \in T PROVE j + 1 \in T
  <2> SUFFICES ASSUME j + 1 <= k PROVE g[1 .. (j+1)] = h[1 .. (j+1)]
    OBVIOUS
  <2>1. j + 1 \in 0 .. n /\ j + 1 \in 0 .. m /\ (j+1) - 1 = j /\ j + 1 # 0
    OBVIOUS
  <2>2. g[1 .. (j+1)] = Op(g[1 .. j], seq[j+1])
    BY <2>1, PlacesStep
  <2>3. h[1 .. (j+1)] = Op(h[1 .. j], other[j+1])
    BY <2>1, PlacesStep
  <2>4. seq[j+1] = other[j+1] /\ g[1 .. j] = h[1 .. j]
    BY <1>2
  <2> QED
    BY <2>2, <2>3, <2>4
<1> HIDE DEF T
<1>3. k \in T
  BY <1>1, <1>2, NatInd
<1> QED
  BY <1>3 DEF T

-----------------------------------------------------------------------------
\* Folding no elements gives the base.
THEOREM FoldEmpty ==
  ASSUME NEW base
  PROVE  Fold(base, <<>>) = base
<1>1. DOMAIN <<>> = 1 .. 0
  OBVIOUS
<1>2. PICK g : Places(0, base, <<>>, g) /\ Fold(base, <<>>) = g[1 .. 0]
  BY <1>1, FoldIsPlaces
<1> QED
  BY <1>2, PlacesStep

\* The element at the end is folded last.
THEOREM FoldAppend ==
  ASSUME NEW S, NEW s \in Seq(S), NEW e, NEW base
  PROVE  Fold(base, Append(s, e)) = Op(Fold(base, s), e)
<1> DEFINE n == Len(s)
           t == Append(s, e)
<1>1. /\ n \in Nat /\ DOMAIN s = 1 .. n
      /\ DOMAIN t = 1 .. (n+1) /\ t[n+1] = e
      /\ \A i \in 1 .. n : t[i] = s[i]
  OBVIOUS
<1> HIDE DEF n, t
<1>2. PICK g : Places(n, base, s, g) /\ Fold(base, s) = g[1 .. n]
  BY <1>1, FoldIsPlaces
<1>3. PICK h : Places(n+1, base, t, h) /\ Fold(base, t) = h[1 .. (n+1)]
  BY <1>1, FoldIsPlaces
<1>4. h[1 .. (n+1)] = Op(h[1 .. n], t[n+1])
  <2>1. n + 1 \in 0 .. n+1 /\ n + 1 # 0 /\ (n+1) - 1 = n
    BY <1>1
  <2> QED
    BY <1>1, <1>3, <2>1, PlacesStep
<1>5. g[1 .. n] = h[1 .. n]
  <2>1. n <= n /\ n <= n + 1 /\ n + 1 \in Nat
    BY <1>1
  <2> QED
    BY <1>1, <1>2, <1>3, <2>1, PlacesAgree
<1>6. Fold(base, t) = Op(Fold(base, s), e)
  BY <1>1, <1>2, <1>3, <1>4, <1>5
<1> QED
  BY <1>6 DEF t

\* A left fold may also be taken from its first element on.
THEOREM FoldHead ==
  ASSUME NEW S, NEW s \in Seq(S), s # <<>>, NEW base
  PROVE  Fold(base, s) = Fold(Op(base, Head(s)), Tail(s))
<1> DEFINE T == {n \in Nat : \A u \in Seq(S) : Len(u) = n + 1 =>
                   Fold(base, u) = Fold(Op(base, Head(u)), Tail(u))}
<1>1. 0 \in T
  <2> SUFFICES ASSUME NEW u \in Seq(S), Len(u) = 1
               PROVE  Fold(base, u) = Fold(Op(base, Head(u)), Tail(u))
    OBVIOUS
  <2>1. u[1] \in S /\ <<>> \in Seq(S) /\ u # <<>>
    OBVIOUS
  <2>2. Append(<<>>, u[1]) \in Seq(S) /\ Len(Append(<<>>, u[1])) = 1
        /\ Append(<<>>, u[1])[1] = u[1]
    BY <2>1
  <2>3. u = Append(<<>>, u[1])
    BY <2>2, SeqEqual
  <2>4. Head(u) = u[1] /\ Tail(u) = <<>>
    <3>1. Tail(u) \in Seq(S) /\ Len(Tail(u)) = 0
      BY <2>1, HeadTailProperties
    <3>2. Tail(u) = <<>>
      BY <3>1, EmptySeq
    <3>3. Head(u) = u[1]
      BY <2>1
    <3> QED
      BY <3>2, <3>3
  <2>5. Fold(base, Append(<<>>, u[1])) = Op(Fold(base, <<>>), u[1])
    BY <2>1, FoldAppend
  <2> QED
    BY <2>3, <2>4, <2>5, FoldEmpty
<1>2. ASSUME NEW n \in Nat, n \in T PROVE n + 1 \in T
  <2> SUFFICES ASSUME NEW u \in Seq(S), Len(u) = n + 2
               PROVE  Fold(base, u) = Fold(Op(base, Head(u)), Tail(u))
    OBVIOUS
  <2> DEFINE v == SubSeq(u, 1, n + 1)
             e == u[n + 2]
  <2>1. v \in Seq(S) /\ Len(v) = n + 1 /\ v # <<>> /\ e \in S
    OBVIOUS
  <2>2. u = Append(v, e) /\ Head(u) = Head(v) /\ Tail(u) = Append(Tail(v), e)
    <3>1. Append(v, e) \in Seq(S) /\ Len(Append(v, e)) = n + 2
      BY <2>1
    <3>2. \A i \in 1 .. n + 2 : u[i] = Append(v, e)[i]
      BY <2>1
    <3>3. u = Append(v, e)
      BY <3>1, <3>2, SeqEqual
    <3> QED
      BY <2>1, <3>3, HeadTailAppend
  <2>3. Tail(v) \in Seq(S)
    BY <2>1
  <2> HIDE DEF v, e
  <2>4. Fold(base, u) = Op(Fold(base, v), e)
    BY <2>1, <2>2, FoldAppend
  <2>5. Fold(base, v) = Fold(Op(base, Head(v)), Tail(v))
    BY <1>2, <2>1
  <2>6. Fold(Op(base, Head(v)), Append(Tail(v), e))
          = Op(Fold(Op(base, Head(v)), Tail(v)), e)
    BY <2>3, FoldAppend
  <2> QED
    BY <2>2, <2>4, <2>5, <2>6
<1> HIDE DEF T
<1>3. \A n \in Nat : n \in T
  BY <1>1, <1>2, NatInd
<1>4. Len(s) - 1 \in Nat /\ Len(s) = (Len(s) - 1) + 1
  OBVIOUS
<1> QED
  BY <1>3, <1>4 DEF T

\* What holds at the start and is kept by each element holds at the end.
THEOREM FoldInduct ==
  ASSUME NEW S, NEW s \in Seq(S), NEW base, NEW T, <<0, base>> \in T,
         \A n \in Nat : n < Len(s) =>
           \A acc : <<n, acc>> \in T => <<n + 1, Op(acc, s[n+1])>> \in T
  PROVE  <<Len(s), Fold(base, s)>> \in T
<1> DEFINE U == {n \in Nat : n <= Len(s) => <<n, Fold(base, SubSeq(s, 1, n))>> \in T}
<1>1. 0 \in U
  <2>1. SubSeq(s, 1, 0) = <<>>
    OBVIOUS
  <2> QED
    BY <2>1, FoldEmpty
<1>2. ASSUME NEW n \in Nat, n \in U PROVE n + 1 \in U
  <2> SUFFICES ASSUME n + 1 <= Len(s)
               PROVE  <<n + 1, Fold(base, SubSeq(s, 1, n + 1))>> \in T
    OBVIOUS
  <2> DEFINE v == SubSeq(s, 1, n)
  <2>1. v \in Seq(S) /\ Len(v) = n /\ s[n+1] \in S
    OBVIOUS
  <2>2. SubSeq(s, 1, n + 1) = Append(v, s[n+1])
    <3>1. SubSeq(s, 1, n + 1) \in Seq(S) /\ Len(SubSeq(s, 1, n + 1)) = n + 1
      OBVIOUS
    <3>2. Append(v, s[n+1]) \in Seq(S) /\ Len(Append(v, s[n+1])) = n + 1
      BY <2>1
    <3>3. \A i \in 1 .. n + 1 : SubSeq(s, 1, n + 1)[i] = Append(v, s[n+1])[i]
      BY <2>1
    <3> QED
      BY <3>1, <3>2, <3>3, SeqEqual
  <2> HIDE DEF v
  <2>3. Fold(base, SubSeq(s, 1, n + 1)) = Op(Fold(base, v), s[n+1])
    BY <2>1, <2>2, FoldAppend
  <2>4. <<n, Fold(base, v)>> \in T
    BY <1>2 DEF v
  <2> QED
    BY <2>3, <2>4
<1> HIDE DEF U
<1>3. Len(s) \in U
  BY <1>1, <1>2, NatInd
<1>4. SubSeq(s, 1, Len(s)) = s
  BY SubSeqFull
<1>5. <<Len(s), Fold(base, SubSeq(s, 1, Len(s)))>> \in T
  <2>1. Len(s) \in Nat /\ Len(s) <= Len(s)
    OBVIOUS
  <2> QED
    BY <1>3, <2>1 DEF U
<1> QED
  BY <1>4, <1>5

-----------------------------------------------------------------------------
(* Folding from the right: the last element is taken first. *)

FoldBack(base, seq) == FoldRight(LAMBDA e, acc : Op(acc, e), seq, base)

PlacesBack(n, base, seq, g) ==
  g = [s \in SUBSET (1 .. n) |->
         IF s = {} THEN base ELSE Op(g[s \ {Min(s)}], seq[Min(s)])]

\* Min of a set with a least element
LEMMA MinOf ==
  ASSUME NEW s \in SUBSET Nat, NEW m \in s, \A i \in s : m <= i
  PROVE  Min(s) = m
<1>1. \A x \in s : (\A y \in s : x <= y) => x = m
  OBVIOUS
<1> QED
  BY <1>1 DEF Min

\* Such a function exists: by induction on how many places from the end it knows.
LEMMA PlacesBackExist ==
  ASSUME NEW n \in Nat, NEW base, NEW seq
  PROVE  \E g : PlacesBack(n, base, seq, g)
<1> DEFINE Ok(k, g) == g = [s \in SUBSET (n-k+1 .. n) |->
              IF s = {} THEN base ELSE Op(g[s \ {Min(s)}], seq[Min(s)])]
           Known(k) == \E g : Ok(k, g)
           T == {k \in Nat : k <= n => Known(k)}
<1>1. 0 \in T
  <2> DEFINE g == [s \in SUBSET (n+1 .. n) |-> base]
  <2>1. \A s \in SUBSET (n+1 .. n) : s = {}
    OBVIOUS
  <2>2. n - 0 + 1 = n + 1
    OBVIOUS
  <2>3. Ok(0, g)
    BY <2>1, <2>2
  <2>4. Known(0)
    BY <2>3
  <2> HIDE DEF Known
  <2> QED
    BY <2>4
<1>2. ASSUME NEW k \in Nat, k \in T PROVE k + 1 \in T
  <2> HIDE DEF Known
  <2> SUFFICES ASSUME k + 1 <= n PROVE Known(k+1)
    OBVIOUS
  <2>0. Known(k)
    BY <1>2
  <2> USE DEF Known
  <2>1. PICK g : Ok(k, g)
    BY <2>0
  <2> DEFINE m == n - k
             h == [s \in SUBSET (m .. n) |->
                     IF m \in s THEN Op(g[s \ {m}], seq[m]) ELSE g[s]]
  <2>a. m \in Nat /\ n - (k+1) + 1 = m /\ n - k + 1 = m + 1
    OBVIOUS
  <2> HIDE DEF m
  <2>2. ASSUME NEW s \in SUBSET (m .. n)
        PROVE  h[s] = IF s = {} THEN base ELSE Op(h[s \ {Min(s)}], seq[Min(s)])
    <3>1. CASE m \in s
      <4>1. Min(s) = m
        <5>1. s \in SUBSET Nat /\ \A i \in s : m <= i
          BY <2>a
        <5> QED
          BY <3>1, <5>1, MinOf
      <4>2. s \ {m} \in SUBSET (m .. n) /\ m \notin s \ {m}
        OBVIOUS
      <4>3. h[s \ {m}] = g[s \ {m}]
        BY <4>2
      <4> QED
        BY <3>1, <4>1, <4>3
    <3>2. CASE m \notin s
      <4>1. s \in SUBSET (n-k+1 .. n)
        BY <2>a, <3>2
      <4>2. g[s] = IF s = {} THEN base ELSE Op(g[s \ {Min(s)}], seq[Min(s)])
        BY <2>1, <4>1
      <4>3. s \ {Min(s)} \in SUBSET (m .. n) /\ m \notin s \ {Min(s)}
        BY <3>2
      <4> QED
        BY <3>2, <4>2, <4>3
    <3> QED
      BY <3>1, <3>2
  <2> HIDE DEF h
  <2>3. h = [s \in SUBSET (m .. n) |-> h[s]]
    BY DEF h
  <2>4. h = [s \in SUBSET (m .. n) |->
               IF s = {} THEN base ELSE Op(h[s \ {Min(s)}], seq[Min(s)])]
    BY <2>2, <2>3
  <2>5. Ok(k+1, h)
    BY <2>4, <2>a
  <2> QED
    BY <2>5
<1> HIDE DEF T, Known
<1>3. n \in T
  BY <1>1, <1>2, NatInd
<1>3a. Known(n)
  BY <1>3 DEF T
<1>4. PICK g : Ok(n, g)
  BY <1>3a DEF Known
<1>5. n - n + 1 = 1
  OBVIOUS
<1>6. PlacesBack(n, base, seq, g)
  BY <1>4, <1>5 DEF PlacesBack
<1> QED
  BY <1>6

\* So is the fold from the right.
LEMMA FoldBackIsPlaces ==
  ASSUME NEW n \in Nat, NEW base, NEW seq, DOMAIN seq = 1 .. n
  PROVE  \E g : PlacesBack(n, base, seq, g) /\ FoldBack(base, seq) = g[1 .. n]
<1> DEFINE it == CHOOSE g : PlacesBack(n, base, seq, g)
<1>1. PlacesBack(n, base, seq, it)
  BY PlacesBackExist
<1>2. FoldBack(base, seq) = it[1 .. n]
  BY DEF FoldBack, FoldRight, MapThenFoldSet, PlacesBack
<1> QED
  BY <1>1, <1>2

\* Folding no elements from the right gives the base.
THEOREM FoldBackEmpty ==
  ASSUME NEW base
  PROVE  FoldBack(base, <<>>) = base
<1>1. DOMAIN <<>> = 1 .. 0
  OBVIOUS
<1>2. PICK g : PlacesBack(0, base, <<>>, g) /\ FoldBack(base, <<>>) = g[1 .. 0]
  BY <1>1, FoldBackIsPlaces
<1>3. 1 .. 0 = {} /\ {} \in SUBSET (1 .. 0)
  OBVIOUS
<1> QED
  BY <1>2, <1>3 DEF PlacesBack

\* From the right, the element at the end is folded first.
THEOREM FoldBackAppend ==
  ASSUME NEW S, NEW s \in Seq(S), NEW e, NEW base
  PROVE  FoldBack(base, Append(s, e)) = FoldBack(Op(base, e), s)
<1> DEFINE n == Len(s)
           t == Append(s, e)
<1>1. /\ n \in Nat /\ DOMAIN s = 1 .. n
      /\ DOMAIN t = 1 .. (n+1) /\ t[n+1] = e
      /\ \A i \in 1 .. n : t[i] = s[i]
  OBVIOUS
<1> HIDE DEF n, t
<1>2. PICK g : PlacesBack(n, Op(base, e), s, g) /\ FoldBack(Op(base, e), s) = g[1 .. n]
  BY <1>1, FoldBackIsPlaces
<1>3. PICK h : PlacesBack(n+1, base, t, h) /\ FoldBack(base, t) = h[1 .. (n+1)]
  BY <1>1, FoldBackIsPlaces
<1> DEFINE T == {k \in Nat : k <= n => h[(n-k+1) .. (n+1)] = g[(n-k+1) .. n]}
<1>4. 0 \in T
  <2>1. n - 0 + 1 = n + 1 /\ (n+1) .. (n+1) = {n+1} /\ (n+1) .. n = {}
    BY <1>1
  <2>2. g[{}] = Op(base, e)
    BY <1>2 DEF PlacesBack
  <2>3. Min({n+1}) = n + 1
    BY <1>1, MinOf
  <2>4. {n+1} \in SUBSET (1 .. (n+1)) /\ {} \in SUBSET (1 .. (n+1)) /\ {n+1} # {}
    BY <1>1
  <2>5. h[{}] = base
    BY <1>3, <2>4 DEF PlacesBack
  <2>6. h[{n+1}] = Op(h[{n+1} \ {n+1}], t[n+1])
    BY <1>3, <2>3, <2>4 DEF PlacesBack
  <2>7. {n+1} \ {n+1} = {}
    OBVIOUS
  <2> QED
    BY <1>1, <2>1, <2>2, <2>5, <2>6, <2>7
<1>5. ASSUME NEW k \in Nat, k \in T PROVE k + 1 \in T
  <2> SUFFICES ASSUME k + 1 <= n
               PROVE  h[(n-(k+1)+1) .. (n+1)] = g[(n-(k+1)+1) .. n]
    OBVIOUS
  <2> DEFINE m == n - k
  <2>0. m \in 1 .. n /\ n - (k+1) + 1 = m /\ n - k + 1 = m + 1
    BY <1>1
  <2> HIDE DEF m
  <2>1. /\ (m .. (n+1)) \ {m} = (m+1) .. (n+1) /\ (m .. n) \ {m} = (m+1) .. n
        /\ m .. (n+1) \in SUBSET (1 .. (n+1)) /\ m .. n \in SUBSET (1 .. n)
        /\ m .. (n+1) # {} /\ m .. n # {} /\ m \in m .. (n+1) /\ m \in m .. n
        /\ m .. (n+1) \in SUBSET Nat /\ m .. n \in SUBSET Nat
    <3>1. (m .. (n+1)) \ {m} = (m+1) .. (n+1) /\ (m .. n) \ {m} = (m+1) .. n
      BY <1>1, <2>0
    <3>2. /\ m .. (n+1) \in SUBSET (1 .. (n+1)) /\ m .. n \in SUBSET (1 .. n)
          /\ m \in m .. (n+1) /\ m \in m .. n
          /\ m .. (n+1) \in SUBSET Nat /\ m .. n \in SUBSET Nat
      BY <1>1, <2>0
    <3> QED
      BY <3>1, <3>2
  <2>2. Min(m .. (n+1)) = m /\ Min(m .. n) = m
    <3>1. (\A i \in m .. (n+1) : m <= i) /\ (\A i \in m .. n : m <= i)
      BY <2>0
    <3> QED
      BY <2>1, <3>1, MinOf
  <2>3. h[m .. (n+1)] = Op(h[(m+1) .. (n+1)], t[m])
    BY <1>3, <2>1, <2>2 DEF PlacesBack
  <2>4. g[m .. n] = Op(g[(m+1) .. n], s[m])
    BY <1>2, <2>1, <2>2 DEF PlacesBack
  <2>5. h[(m+1) .. (n+1)] = g[(m+1) .. n]
    BY <1>1, <1>5, <2>0
  <2>6. t[m] = s[m]
    BY <1>1, <2>0
  <2> QED
    BY <2>0, <2>3, <2>4, <2>5, <2>6
<1> HIDE DEF T
<1>6. n \in T
  BY <1>1, <1>4, <1>5, NatInd
<1>7. n - n + 1 = 1
  BY <1>1
<1>8. h[1 .. (n+1)] = g[1 .. n]
  BY <1>1, <1>6, <1>7 DEF T
<1> QED
  BY <1>2, <1>3, <1>8 DEF t

=============================================================================
