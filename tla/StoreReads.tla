----------------------------- MODULE StoreReads -----------------------------
(***************************************************************************)
(* What a client reads from the tables of StoreCore.  A client holds row   *)
(* ids: those that its transactions were given when they committed         *)
(* (Promote::promote, or RowId.finish in the JavaScript interface) and     *)
(* those it has read.  It keeps them while later commits merge the rows    *)
(* they name.  Reads happen between commits and change nothing.            *)
(***************************************************************************)
EXTENDS StoreCore

NoRow == [id |-> <<>>, cells |-> <<>>]

\* IdPacker::lookup_row_id, then Rowing::canonical_id: Store::canonical_row_id.
\* Only the commit's hash has to be known, the row need not exist.
Packable(r) == r[1] \in Range(dict)

\* Mutant of Promote: a pending id gets its commit's hash and nothing else.
PromoteRaw(r) == r

\* Store::promote, of an id that already has its commit's hash
Promote(r) == IF Packable(r) THEN Canonical(r) ELSE r

\* TableHandle::row_by_id
RowById(t, r) ==
  IF Packable(r) /\ Canonical(r) \in DOMAIN rows[t]
  THEN [id |-> Canonical(r), cells |-> rows[t][Canonical(r)]] ELSE NoRow

\* TableHandle::index_seek refuses a key with an id it cannot pack.
Seekable(t, key) == \A i \in DOMAIN key \cap Schema[t].ids : Packable(key[i])

\* The rows whose first columns equal the key, cell by cell.
IndexSeek(t, key) ==
  {r \in DOMAIN rows[t] : SubSeq(rows[t][r], 1, Len(key)) = key}

\* Store::all_row_id_inner with a row id in the query, and without one
RowIdsOf(t, r, key) == {s \in IndexSeek(t, key) : s = r}
RowIds(t, key) == IndexSeek(t, key)

\* Store::all_proj_inner before it takes the columns asked for; a row that
\* cannot be found again panics.
Projections(t, key) == {RowById(t, r) : r \in RowIds(t, key)}

\* StoreRead::exists
Exists(t, r, key) == Seekable(t, key) /\ RowIdsOf(t, r, key) # {}

-----------------------------------------------------------------------------
\* A key a client may look for: the first n cells of a row it wrote, each id
\* promoted again.
PromotedKey(r, n) ==
  LET op == Ops[r[1]][r[2]]
  IN  [i \in 1 .. n |-> IF i \in Schema[op.table].ids THEN Promote(op.cells[i])
                                                       ELSE op.cells[i]]

\* A row can be read by any id it was ever given, however often it has been
\* merged since: it comes under its current id, with the cells the applied
\* commits give it, and no query ends in the panic of all_proj_inner.
OldIdsRead ==
  pc = "idle" =>
    LET can == Classes(applied)
    IN  /\ \A r \in DOMAIN can :
             RowById(WrittenTable(r), r) = [id |-> can[r], cells |-> CellsUnder(can, r)]
        /\ \A t \in Table : NoRow \notin Projections(t, <<>>)

\* The same said of the tables and the union-find themselves: an id that a commit gave a row
\* leads, promoted or not, to the row that stands for it now, with the cells it was given up
\* to merging; and every row that a query finds can be looked up.
OldIdsLead ==
  pc = "idle" =>
    /\ \A r \in Written(applied) :
         LET t == WrittenTable(r)
             row == RowById(t, r)
         IN  /\ row.id = Canonical(r) /\ RowById(t, Promote(r)) = row
             /\ CanonicalCells(t, row.cells) = CanonicalCells(t, Ops[r[1]][r[2]].cells)
    /\ \A t \in Table : \A r \in DOMAIN rows[t] :
         RowById(t, r) = [id |-> r, cells |-> rows[t][r]]

\* A client that promotes its ids again before each query finds every row that
\* it ever wrote: by the id, and by any prefix of its columns, although the
\* query compares ids as they are and the row may have been rewritten.
PromotedIdsFound ==
  pc = "idle" =>
    \A r \in Written(applied) :
      LET t == WrittenTable(r)
      IN  \A n \in 0 .. Len(Ops[r[1]][r[2]].cells) :
            Exists(t, Promote(r), PromotedKey(r, n))

\* Clients keep their ids while others' commits merge the rows behind them.
ReadsFollowMerges == OldIdsRead /\ OldIdsLead /\ PromotedIdsFound

=============================================================================
