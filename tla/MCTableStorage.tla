---------------------------- MODULE MCTableStorage ----------------------------
(***************************************************************************)
(* A table of two columns, an id and a value.  Three hashes are interned   *)
(* in any order; rows refer to themselves, to each other and to rows that  *)
(* may not be there; two of them are equal cell by cell.                   *)
(***************************************************************************)
EXTENDS TableStorage

CONSTANTS a, b, c

MCKinds == <<"id", "plain">>

Row(h, n, other, value) == [id |-> <<h, n>>, cells |-> <<other, value>>]

MCGiven ==
  {Row(a, 1, <<a, 1>>, 7), Row(a, 0, <<b, 0>>, 7), Row(b, 0, <<a, 1>>, 7),
   Row(b, 1, <<b, 0>>, 8), Row(b, 2, <<a, 1>>, 7), Row(c, 0, <<a, 0>>, 8)}
MCMerges == {<<<<b, 0>>, <<a, 1>>>>, <<<<a, 0>>, <<c, 0>>>>}
MCKeys == {NoKey, 0, 1}
=============================================================================
