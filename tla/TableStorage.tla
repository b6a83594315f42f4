----------------------------- MODULE TableStorage -----------------------------
(***************************************************************************)
(* One table as it is laid out in memory (coln-store's table/ and pack/):  *)
(* row ids in a sorted column, the cells column by column in the same      *)
(* order, one index sorted by all cells and then by row id.  Ids are       *)
(* packed: the place of the commit hash in a dictionary, and a counter.    *)
(* Every lookup is a binary search, so it finds what it should only while  *)
(* everything is sorted; every packed id means what it should only while   *)
(* the dictionary keeps its hash.                                          *)
(*                                                                         *)
(* StoreCore treats a table as a map from ids to cells.  RowMap states     *)
(* that promise, and this module is shown to implement it.                 *)
(***************************************************************************)
EXTENDS Integers, Sequences, FiniteSets, SequencesExt

CONSTANTS
  Hash,         \* commit hashes
  Kinds,        \* Kinds[i]: "id" or "plain", the kind of column i
  Keys,         \* the primary keys tried: a number of leading columns, or NoKey
  Given,        \* the rows that may be staged: [id |-> <<hash, n>>, cells |-> ..]
  Merges,       \* bound: the pairs <<old id, new id>> a rebuild may be for
  MaxStaged,    \* bound: rows staged at a time
  MaxRows,      \* bound: rows stored
  MaxTx,        \* bound: snapshots taken
  NoKey, NoLog, NoMark  \* model values

\* Cells that are ids, packed or not, and cells of the type of their column
Typed(Id, cells) ==
  /\ cells = [i \in DOMAIN Kinds |-> cells[i]]
  /\ \A i \in DOMAIN Kinds : IF Kinds[i] = "id" THEN cells[i] \in Id ELSE cells[i] \in Int

\* PackedRowId: the place of a hash in the dictionary, and a counter
PackedId == Nat \X Nat

\* Row ids as the rest of the store names them: those the rows given have or
\* refer to, and those they are merged with.
IdCells(g) == {g.cells[i] : i \in {j \in DOMAIN Kinds : Kinds[j] = "id"}}
RowIds ==
  (UNION {{g.id} \cup IdCells(g) : g \in Given})
    \cup (UNION {{pair[1], pair[2]} : pair \in Merges})


\* The cells a row may have: any of these ids where the column holds ids
RowTuples ==
  {[i \in DOMAIN Kinds |-> IF Kinds[i] = "id" THEN pick[i] ELSE g.cells[i]] :
     g \in Given, pick \in [DOMAIN Kinds -> RowIds]}

ASSUME KindsAssumption == Kinds \in Seq({"id", "plain"})
ASSUME KeysAssumption == Keys \subseteq (0 .. Len(Kinds)) \cup {NoKey}
ASSUME GivenAssumption ==
  /\ \A g \in Given : g.id \in Hash \X Nat /\ Typed(Hash \X Nat, g.cells)
  /\ Merges \subseteq (Hash \X Nat) \X (Hash \X Nat)
ASSUME MarkerAssumption ==
  /\ \A D \in SUBSET RowIds : NoMark \notin [D -> RowTuples]
  /\ NoLog \notin Seq([kind: {"add", "delete"}, id: PackedId, cells: Seq(PackedId \cup Int)])

VARIABLES
  key,      \* Table.pk
  dict,     \* HashMapper.hashes, in order of interning
  mark,     \* IdPacker.snapshot_len
  ids,      \* Table.row_ids
  cols,     \* Table.cols
  index,    \* Table.index, entry by entry: [key, id]
  pending,  \* Table.pending_updates
  undo,     \* Table.undo_log
  ops,      \* the updates apply_ops has taken and not applied yet
  failed,   \* an update was refused
  before,   \* history only: the rows when the snapshot was taken
  taken     \* counts snapshots, for the bound

vars == <<key, dict, mark, ids, cols, index, pending, undo, ops, failed, before,
          taken>>
layout == <<ids, cols, index>>

-----------------------------------------------------------------------------
(* Columns.  Positions count from 0, a range <<lo, hi>> excludes hi.  *)

\* The binary search of lower_bound and upper_bound: where the places in `below' end
Bisect(n, below, range) ==
  LET search[r \in (0 .. n) \X (0 .. n)] ==
        LET mid == r[1] + (r[2] - r[1]) \div 2
        IN  IF r[1] >= r[2] THEN r[1]
            ELSE IF mid + 1 \in below THEN search[<<mid + 1, r[2]>>]
            ELSE search[<<r[1], mid>>]
  IN  search[range]

\* SortedTable::lower_bound: the first position whose value is not below v
LowerBound(col, v, range) ==
  Bisect(Len(col), {p \in DOMAIN col : col[p] < v}, range)

\* SortedTable::upper_bound: the first position whose value is above v
UpperBound(col, v, range) ==
  Bisect(Len(col), {p \in DOMAIN col : col[p] <= v}, range)

\* equal_range, and hexane's scope_to_value
Scope(col, v, range) ==
  LET lo == LowerBound(col, v, range) IN <<lo, UpperBound(col, v, <<lo, range[2]>>)>>

Part(col, n) == [p \in DOMAIN col |-> col[p][n]]

\* IdColumn::scope_to_value: within a run of one commit the counters are sorted
ScopeId(col, id, range) ==
  Scope(Part(col, 2), id[2], Scope(Part(col, 1), id[1], range))

ScopeCell(kind, col, v, range) ==
  IF kind = "id" THEN ScopeId(col, v, range) ELSE Scope(col, v, range)

\* Mutant of Position: the end of the run is missed by one.
PositionShort(id) ==
  LET run == Scope(Part(ids, 1), id[1], <<0, Len(ids)>>)
      found == Scope(Part(ids, 2), id[2], run)
      last == ids[run[2]][2]
  IN  IF run[1] = run[2] THEN [found |-> FALSE, at |-> run[1]]
      ELSE IF last < id[2] THEN [found |-> FALSE, at |-> run[2] - 1]
      ELSE IF last = id[2] THEN [found |-> TRUE, at |-> run[2] - 1]
      ELSE [found |-> found[1] # found[2], at |-> found[1]]

\* IdColumn::position: where the id is, or where it would go.  The last id of
\* its commit is tried first.
Position(id) ==
  LET run == Scope(Part(ids, 1), id[1], <<0, Len(ids)>>)
      found == Scope(Part(ids, 2), id[2], run)
      last == ids[run[2]][2]
  IN  IF run[1] = run[2] THEN [found |-> FALSE, at |-> run[1]]
      ELSE IF last < id[2] THEN [found |-> FALSE, at |-> run[2]]
      ELSE IF last = id[2] THEN [found |-> TRUE, at |-> run[2] - 1]
      ELSE [found |-> found[1] # found[2], at |-> found[1]]

-----------------------------------------------------------------------------
(* The index *)

\* TableIndex::scope_key: each key column narrows the range of the one before.
ScopeKey(k) ==
  LET narrow[i \in 0 .. Len(k)] ==
        IF i = 0 THEN <<0, Len(index)>>
        ELSE ScopeCell(Kinds[i], [p \in DOMAIN index |-> index[p].key[i]],
                       k[i], narrow[i - 1])
  IN  narrow[Len(k)]

ScopeEntry(k, id) ==
  ScopeId([p \in DOMAIN index |-> index[p].id], id, ScopeKey(k))

\* TableIndex::get, for a key of any length
Seek(k) ==
  LET range == ScopeKey(k)
  IN  [i \in 1 .. range[2] - range[1] |-> index[range[1] + i].id]

\* TableIndex::insert
IndexInsert(k, id) ==
  InsertAt(index, ScopeEntry(k, id)[2] + 1, [key |-> k, id |-> id])

\* TableIndex::remove
IndexRemove(k, id) ==
  LET range == ScopeEntry(k, id)
  IN  SubSeq(index, 1, range[1]) \o SubSeq(index, range[2] + 1, Len(index))

-----------------------------------------------------------------------------
(* The dictionary *)

IndexOf(d, h) == CHOOSE n \in DOMAIN d : d[n] = h

\* HashMapper::insert
Intern(d, h) == IF \E n \in DOMAIN d : d[n] = h THEN d ELSE Append(d, h)

\* pack_row_id with the hash known, and unpack_row_id
Packed(d, id) == <<IndexOf(d, id[1]), id[2]>>
Unpacked(d, id) == <<d[id[1]], id[2]>>

\* The cells of a row: only those that are ids are packed.
PackedCells(d, cells) ==
  [i \in DOMAIN cells |-> IF Kinds[i] = "id" THEN Packed(d, cells[i]) ELSE cells[i]]
UnpackedCells(d, cells) ==
  [i \in DOMAIN cells |-> IF Kinds[i] = "id" THEN Unpacked(d, cells[i]) ELSE cells[i]]

\* IdPacker::pack_op: the hash of the row's own id first, then those of its cells
\* (a cell that is no id names no other hash)
InternRow(d, row) ==
  LET hashes == [i \in DOMAIN Kinds |-> IF Kinds[i] = "id" THEN row.cells[i][1] ELSE row.id[1]]
  IN  FoldLeft(Intern, Intern(d, row.id[1]), hashes)


-----------------------------------------------------------------------------
(* Rows *)

\* Table::row_by_idx
RowAt(p) == [i \in DOMAIN cols |-> cols[i][p + 1]]

Stored(id) == Position(id).found

\* Table::row_by_id
RowById(id) == RowAt(Position(id).at)

\* Column::insert and Column::remove, in every column
WithRow(at, cells) == [i \in DOMAIN cols |-> InsertAt(cols[i], at, cells[i])]
WithoutRow(at) == [i \in DOMAIN cols |-> RemoveAt(cols[i], at)]

\* Table::insert_packed
InsertPacked(id, cells) ==
  LET at == Position(id).at + 1
  IN  /\ index' = IndexInsert(cells, id)
      /\ ids' = InsertAt(ids, at, id)
      /\ cols' = WithRow(at, cells)

\* Table::remove_packed
RemovePacked(id) ==
  LET at == Position(id).at + 1
  IN  /\ index' = IndexRemove(RowById(id), id)
      /\ ids' = RemoveAt(ids, at)
      /\ cols' = WithoutRow(at)

\* Mutant of KeyTaken: all cells are compared.
KeyTakenByRow(cells) == key # NoKey /\ Seek(cells) # <<>>

\* insert_row's key check: the index holds an entry with these key cells.
KeyTaken(cells) == key # NoKey /\ Seek(SubSeq(cells, 1, key)) # <<>>

-----------------------------------------------------------------------------
(* A transaction on the table *)

Open == undo # NoLog
Quiet == pending = <<>> /\ ops = <<>> /\ ~failed

\* What the table means: unpacked ids to unpacked cells
Rows ==
  [r \in {Unpacked(dict, ids[p]) : p \in DOMAIN ids} |->
     LET p == CHOOSE p \in DOMAIN ids : Unpacked(dict, ids[p]) = r
     IN  UnpackedCells(dict, RowAt(p - 1))]

\* Table::snapshot and IdPacker::snapshot
Snapshot ==
  /\ ~Open
  /\ taken < MaxTx /\ taken' = taken + 1
  /\ undo' = <<>>
  /\ mark' = Len(dict)
  /\ before' = Rows
  /\ UNCHANGED <<dict, layout, pending, ops, failed>>

\* Table::validate_insert, as precheck_commit asks it before anything is interned:
\* a key with an unknown hash cannot be in the table.
KnownHash(h) == \E n \in DOMAIN dict : dict[n] = h
PackedCell(d, row, i) ==
  IF Kinds[i] = "id" THEN Packed(d, row.cells[i]) ELSE row.cells[i]
Admits(row) ==
  key # NoKey =>
  LET keyCols == 1 .. key
  IN  (\A i \in keyCols : Kinds[i] = "id" => KnownHash(row.cells[i][1]))
        => Seek([i \in keyCols |-> PackedCell(dict, row, i)]) = <<>>

\* pack_op, stage_update: the rows of a commit are staged before any is applied,
\* a row id only once (StoreCore!NoPanic).
Stage(row) ==
  /\ undo = <<>> /\ ops = <<>> /\ ~failed
  /\ Len(pending) < MaxStaged /\ Len(ids) + Len(pending) < MaxRows
  /\ row.id \notin DOMAIN Rows
  /\ \A i \in DOMAIN pending : Unpacked(dict, pending[i].id) # row.id
  /\ Admits(row)
  /\ dict' = InternRow(dict, row)
  /\ pending' = Append(pending, [kind |-> "add", id |-> Packed(dict', row.id),
                                 cells |-> PackedCells(dict', row.cells)])
  /\ UNCHANGED <<mark, layout, undo, ops, failed, before>>

\* The row at a position with every id cell replaced by its canonical id
Canonical(old, new, id) == IF id = old THEN new ELSE id
Rewritten(old, new, p) ==
  [i \in DOMAIN cols |-> IF Kinds[i] = "id" THEN Canonical(old, new, RowAt(p)[i])
                                            ELSE RowAt(p)[i]]

Update(kind, id, cells) == [kind |-> kind, id |-> id, cells |-> cells]

Then(ops1, ops2) == ops1 \o ops2

\* Table::rebuild_full when `old' was displaced by `new': the rows are visited in
\* the order they are stored, a stale one is deleted and added in canonical
\* form, or only deleted when its new id has a row.
RebuildRow(old, new, p) ==
  LET stale == ids[p + 1] = old \/ RowAt(p) # Rewritten(old, new, p)
      collapses == ids[p + 1] = old /\ Stored(new)
      delete == Update("delete", ids[p + 1], <<>>)
      add == Update("add", Canonical(old, new, ids[p + 1]), Rewritten(old, new, p))
  IN  IF ~stale THEN <<>> ELSE IF collapses THEN <<delete>> ELSE <<delete, add>>

RebuildOps(old, new) ==
  FoldLeft(Then, <<>>, [p \in DOMAIN ids |-> RebuildRow(old, new, p - 1)])

\* Two ids that were unified: a row that collapses agrees with the one that stays
\* (StoreCore!CollapseAgrees).
Unified(old, new) ==
  /\ old # new
  /\ Stored(old) /\ Stored(new) =>
       Rewritten(old, new, Position(old).at) = Rewritten(old, new, Position(new).at)

Rebuild(old, new) ==
  /\ Open /\ Quiet
  /\ Unified(old, new)
  /\ RebuildOps(old, new) # <<>>
  /\ pending' = RebuildOps(old, new)
  /\ UNCHANGED <<dict, mark, layout, undo, ops, failed, before>>

\* apply_staged_ops takes the staged updates.
Take ==
  /\ pending # <<>> /\ ops = <<>> /\ ~failed
  /\ ops' = pending
  /\ pending' = <<>>
  /\ UNCHANGED <<dict, mark, layout, undo, failed, before>>

\* apply_op for an added row: the key check comes before anything is recorded.
ApplyAdd ==
  /\ ops # <<>> /\ Head(ops).kind = "add"
  /\ LET op == Head(ops)
     IN  IF KeyTaken(op.cells)
         THEN /\ failed' = TRUE
              /\ ops' = <<>>
              /\ UNCHANGED <<layout, undo>>
         ELSE /\ InsertPacked(op.id, op.cells)
              /\ undo' = Append(undo, op)
              /\ ops' = Tail(ops)
              /\ UNCHANGED failed
  /\ UNCHANGED <<dict, mark, pending, before>>

\* apply_op for a deleted row: its cells go to the log.
ApplyDelete ==
  /\ ops # <<>> /\ Head(ops).kind = "delete"
  /\ RemovePacked(Head(ops).id)
  /\ undo' = Append(undo, Update("delete", Head(ops).id, RowById(Head(ops).id)))
  /\ ops' = Tail(ops)
  /\ UNCHANGED <<dict, mark, pending, failed, before>>

\* Table::commit and IdPacker::commit
Commit ==
  /\ Open /\ Quiet
  /\ undo' = NoLog
  /\ mark' = NoMark
  /\ before' = NoMark
  /\ UNCHANGED <<dict, layout, pending, ops, failed>>

\* Table::rollback_to begins: staged updates are dropped.
Abort ==
  /\ Open /\ undo # <<>> /\ (failed \/ ops = <<>>)
  /\ failed' = TRUE /\ ops' = <<>> /\ pending' = <<>>
  /\ LET last == Last(undo)
     IN  IF last.kind = "add" THEN RemovePacked(last.id)
                              ELSE InsertPacked(last.id, last.cells)
  /\ undo' = Front(undo)
  /\ UNCHANGED <<dict, mark, before>>

\* IdPacker::rollback_to
TruncateDict == dict' = SubSeq(dict, 1, mark)

\* The log is used up: the dictionary goes back too.
Aborted ==
  /\ Open /\ undo = <<>> /\ (failed \/ ops = <<>>)
  /\ TruncateDict
  /\ undo' = NoLog
  /\ mark' = NoMark
  /\ before' = NoMark
  /\ failed' = FALSE /\ ops' = <<>> /\ pending' = <<>>
  /\ UNCHANGED layout

Init ==
  /\ key \in Keys
  /\ dict = <<>> /\ mark = NoMark
  /\ ids = <<>> /\ cols = [i \in DOMAIN Kinds |-> <<>>] /\ index = <<>>
  /\ pending = <<>> /\ undo = NoLog /\ ops = <<>> /\ failed = FALSE
  /\ before = NoMark /\ taken = 0

KnownIds == {Packed(dict, id) : id \in {g.id : g \in {x \in Given : KnownHash(x.id[1])}}}

Work ==
  \/ \E row \in Given : Stage(row)
  \/ \E pair \in Merges : /\ KnownHash(pair[1][1]) /\ KnownHash(pair[2][1])
                         /\ Rebuild(Packed(dict, pair[1]), Packed(dict, pair[2]))
  \/ Take \/ ApplyAdd \/ ApplyDelete
  \/ Commit \/ Abort \/ Aborted

\* The bound is used up.
Rest == ~Open /\ taken = MaxTx /\ UNCHANGED <<dict, mark, layout, pending, undo,
                                             ops, failed, before, taken>>

Next ==
  /\ \/ Snapshot \/ Rest
     \/ Work /\ UNCHANGED taken
  /\ UNCHANGED key

Spec == Init /\ [][Next]_vars

-----------------------------------------------------------------------------
(* Properties *)

SortedBefore(x, y) == \/ x[1] < y[1]
                      \/ x[1] = y[1] /\ x[2] < y[2]

CellBefore(i, x, y) == IF Kinds[i] = "id" THEN SortedBefore(x, y) ELSE x < y

EntryBefore(x, y) ==
  \/ \E i \in DOMAIN Kinds : /\ CellBefore(i, x.key[i], y.key[i])
                             /\ \A j \in 1 .. i-1 : x.key[j] = y.key[j]
  \/ x.key = y.key /\ SortedBefore(x.id, y.id)

\* Rows and index stay sorted and say the same, whatever was inserted, deleted,
\* rewritten by a rebuild or undone, at every step between: all binary searches
\* (col.rs, index.rs) take this for granted.  Every packed id can be unpacked.
LayoutSound ==
  /\ \A p, q \in DOMAIN ids : p < q => SortedBefore(ids[p], ids[q])
  /\ \A i \in DOMAIN cols : Len(cols[i]) = Len(ids)
  /\ \A p, q \in DOMAIN index : p < q => EntryBefore(index[p], index[q])
  /\ {<<index[p].id, index[p].key>> : p \in DOMAIN index}
       = {<<ids[p], RowAt(p - 1)>> : p \in DOMAIN ids}
  /\ IsInjective(dict)
  /\ \A p \in DOMAIN ids :
       /\ ids[p][1] \in DOMAIN dict
       /\ \A i \in DOMAIN Kinds :
            Kinds[i] = "id" => RowAt(p - 1)[i][1] \in DOMAIN dict

\* Reads answer what a scan of the table would: a row is found exactly by its
\* id, and the index gives for a key of any length the rows that begin with it,
\* in the order of their ids when the key is complete.
SearchesFind ==
  /\ \A id \in KnownIds :
       /\ Stored(id) <=> id \in Range(ids)
       /\ Stored(id) => ids[Position(id).at + 1] = id
  /\ \A p \in DOMAIN ids : \A n \in 0 .. Len(Kinds) :
       Range(Seek(SubSeq(RowAt(p - 1), 1, n)))
         = {ids[q] : q \in {r \in DOMAIN ids :
              SubSeq(RowAt(r - 1), 1, n) = SubSeq(RowAt(p - 1), 1, n)}}

\* The layout never misleads a reader, also between the steps of a rebuild or of
\* an undo.
ReadsAgree == LayoutSound /\ SearchesFind

\* The table is a map of row ids to cells that keeps its key and goes back to
\* its snapshot: RowMap, with ids as the rest of the store names them.
Map == INSTANCE RowMap WITH RowId <- RowIds, Tuple <- RowTuples,
                            rows <- Rows, mark <- before
Implements == Map!Spec
=============================================================================
