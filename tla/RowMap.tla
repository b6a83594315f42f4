-------------------------------- MODULE RowMap --------------------------------
(***************************************************************************)
(* What a table promises: a map from row ids to cells in which the key     *)
(* columns, if it has any, are unique together, and that can be taken back *)
(* to a mark.  TableStorage implements it with sorted columns and packed   *)
(* ids.                                                                    *)
(***************************************************************************)
EXTENDS Sequences, Functions

CONSTANTS
  RowId,   \* row ids
  Tuple,   \* the cells of a row
  Keys,    \* the keys a table may have
  NoKey, NoMark  \* model values

VARIABLES
  key,   \* the number of leading columns that are unique together, or NoKey
  rows,  \* row id -> cells
  mark   \* rows as they were at the mark, or NoMark

Clash(one, other) == key # NoKey /\ SubSeq(one, 1, key) = SubSeq(other, 1, key)

With(map, r, cells) == [s \in DOMAIN map \cup {r} |-> IF s = r THEN cells ELSE map[s]]

Init == key \in Keys /\ rows = <<>> /\ mark = NoMark

Mark == mark = NoMark /\ mark' = rows /\ UNCHANGED rows
Keep == mark # NoMark /\ mark' = NoMark /\ UNCHANGED rows
TakeBack == mark # NoMark /\ mark' = NoMark /\ rows' = mark

Put(r, cells) ==
  /\ mark # NoMark
  /\ r \notin DOMAIN rows
  /\ \A s \in DOMAIN rows : ~Clash(rows[s], cells)
  /\ rows' = With(rows, r, cells)
  /\ UNCHANGED mark

Drop(r) ==
  /\ mark # NoMark
  /\ r \in DOMAIN rows
  /\ rows' = Restrict(rows, DOMAIN rows \ {r})
  /\ UNCHANGED mark

Next ==
  /\ \/ Mark \/ Keep \/ TakeBack
     \/ \E r \in RowId : Drop(r) \/ \E cells \in Tuple : Put(r, cells)
  /\ UNCHANGED key

Spec == Init /\ [][Next]_<<key, rows, mark>>

-----------------------------------------------------------------------------
\* No two rows of the map share the first k columns.
OnePerKey(k, map) ==
  k # NoKey => \A r, s \in DOMAIN map :
                 SubSeq(map[r], 1, k) = SubSeq(map[s], 1, k) => r = s

\* The rows are always those a table with this primary key may have, and so are
\* the rows it can be taken back to (table/mod.rs insert_row and rollback_to).
KeyHeld == OnePerKey(key, rows) /\ (mark # NoMark => OnePerKey(key, mark))
=============================================================================
