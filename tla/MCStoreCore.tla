---------------------------- MODULE MCStoreCore ----------------------------
(***************************************************************************)
(* A small universe of commits, and reads of it. Hash order: a < b < c < d < e. *)
(*                                                                         *)
(* tables   cells              key    what                                 *)
(*   T      <<value>>          none   structural: rows equal by value      *)
(*   F      <<id of T>>        none   structural: merges follow those of T *)
(*   V      <<value>>          none   base table                           *)
(*   K      <<id of T, of V>>  1      base table with a primary key        *)
(*   M      <<id of T, value>> 1      structural, with a primary key       *)
(*   P      <<id of F>>        none   base table                           *)
(*   D      <<id of V>>        1      view: the V rows that K refers to    *)
(***************************************************************************)
EXTENDS StoreReads

CONSTANTS a, b, c, d, e, T, F, V, K, M, P, D

MCRank == a :> 1 @@ b :> 2 @@ c :> 3 @@ d :> 4 @@ e :> 5

Tab(ids, key, memoized) ==
  [ids |-> ids, key |-> key, memoized |-> memoized, source |-> ~memoized]
MCSchema == T :> Tab({}, NoKey, TRUE) @@ F :> Tab({1}, NoKey, TRUE)
         @@ V :> Tab({}, NoKey, FALSE) @@ K :> Tab({1, 2}, 1, FALSE) @@ M :> Tab({1}, 1, TRUE)
         @@ P :> Tab({1}, NoKey, FALSE)
         @@ D :> Tab({1}, 1, TRUE)

Row(t, cells) == [table |-> t, cells |-> cells]

\* Two writers create the same terms; a third extends a's; a fourth gives the
\* same term another value under K's key; a fifth repeats a row of the second in
\* a keyed structural table.  No commit refers to an id of another commit that a
\* merge may displace.
FreshDeps == a :> {} @@ b :> {} @@ c :> {a} @@ d :> {} @@ e :> {}
FreshOps ==
  a :> <<Row(T, <<7>>), Row(F, <<<<a, 1>>>>)>> @@
  b :> <<Row(T, <<7>>), Row(F, <<<<b, 1>>>>), Row(P, <<<<b, 2>>>>),
         Row(M, <<<<b, 1>>, 9>>)>> @@
  c :> <<Row(V, <<5>>), Row(K, <<<<a, 1>>, <<c, 1>>>>), Row(T, <<8>>),
         Row(P, <<<<a, 2>>>>), Row(K, <<<<c, 3>>, <<c, 1>>>>)>> @@
  d :> <<Row(T, <<7>>), Row(V, <<6>>), Row(K, <<<<d, 1>>, <<d, 2>>>>),
         Row(T, <<8>>)>> @@
  e :> <<Row(T, <<7>>), Row(M, <<<<e, 1>>, 9>>)>>

\* An enforced rule: at most one P row refers to an F row.
MCAccepts(db) ==
  \A x, y \in {z \in db : z[1] = P} : x[3] = y[3] => x = y

MCDerived(db) ==
  LET refs == {x \in db : x[1] = K}
      row(x) == <<D, <<x[3][2]>>>>
  IN  [r \in {row(x) : x \in refs} |-> Cardinality({x \in refs : row(x) = r})]
=============================================================================
