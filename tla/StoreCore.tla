------------------------------ MODULE StoreCore ------------------------------
(***************************************************************************)
(* The table side of one coln store: what Store::apply_commit_atomic       *)
(* (store/mod.rs) does to the tables (table/mod.rs), to the union-find of  *)
(* row ids (rowing/mod.rs), to the dictionary of packed ids                *)
(* (pack/id_packer.rs) and to the query engine's copy of the base tables.  *)
(*                                                                         *)
(* One commit is applied at a time, in many steps: each may fail, and the  *)
(* code rolls back from wherever it is.  Which commits are offered, and    *)
(* when, is ApplyCommits' subject; here any commit whose dependencies have *)
(* been applied may come next.                                             *)
(***************************************************************************)
EXTENDS Integers, Sequences, FiniteSets, Functions, SequencesExt

CONSTANTS
  Commit,       \* commit hashes, without the root
  Deps,         \* Deps[c]: the commits (of Commit) c depends on
  Rank,         \* Rank[c]: the place of c in the byte order of hashes
  Table,        \* table oids
  Schema,       \* Schema[t]: [ids, key, memoized, source], see below
  Ops,          \* Ops[c]: the rows c adds, a sequence of [table, cells]
  Accepts(_),   \* do these base rows satisfy every enforced rule?
  Derived(_),   \* the rows <<table, cells>> of the views over base rows, each
                \* with the number of ways its definitions derive it
  NoKey, NoTable, NoCommit  \* model values

\* A row id is <<commit, counter>>: the n-th row of a commit.  A cell of a
\* column in `ids' holds a row id, any other cell a plain value.  The first
\* `key' columns are the primary key.  `source': coln-query reads the table.
RowId == Commit \X Nat

ASSUME SchemaAssumption ==
  \A t \in Table : /\ Schema[t].ids \in SUBSET Nat /\ IsFiniteSet(Schema[t].ids)
                   /\ Schema[t].key \in Nat \cup {NoKey}
                   /\ Schema[t].memoized \in BOOLEAN
                   /\ Schema[t].source \in BOOLEAN

ASSUME OpsAssumption ==
  \A c \in Commit :
    /\ Len(Ops[c]) \in Nat /\ Ops[c] = [i \in 1 .. Len(Ops[c]) |-> Ops[c][i]]
    /\ \A i \in DOMAIN Ops[c] :
         LET op == Ops[c][i]
         IN  /\ op.table \in Table /\ Len(op.cells) \in Nat
             /\ op.cells = [k \in 1 .. Len(op.cells) |-> op.cells[k]]
             /\ \A k \in Schema[op.table].ids : k \in DOMAIN op.cells /\ op.cells[k] \in RowId

ASSUME RankAssumption == Rank \in Injection(Commit, Nat)

ASSUME MarkerAssumption == NoTable \notin Table /\ NoCommit \notin Commit

VARIABLES
  rows,       \* rows[t]: row id -> cells (Table.row_ids, .cols and .index)
  staged,     \* staged[t]: Table.pending_updates
  undo,       \* undo[t]: Table.undo_log
  dict,       \* IdPacker.dict: interned hashes, in order of interning
  canon,      \* Rowing.uf and .keys: known id -> least id of its class
  displaced,  \* Rowing.displaced
  unions,     \* Rowing.pending_unions
  cq,         \* the Z-set of base rows coln-query holds
  applied,    \* the commits recorded so far
  pc,         \* where apply_commit_atomic is
  current,    \* the commit being applied
  todo,       \* tables whose staged updates are still to be applied
  table,      \* the table whose staged updates are being applied
  delta,      \* the Z-set of changes collected in query_tx
  fresh,      \* derived rows still to be stored
  snap,       \* StoreSnapshot
  before,     \* history only: rows when the commit began
  replay      \* commits of a snapshot file still to be replayed

rowing == <<canon, displaced, unions>>
local == <<current, todo, table, delta, fresh, snap, before>>
vars == <<rows, staged, undo, dict, canon, displaced, unions, cq, applied, pc,
          current, todo, table, delta, fresh, snap, before, replay>>

EmptyFun == <<>>
EachTable(x) == [t \in Table |-> x]
With(map, x, y) == [z \in DOMAIN map \cup {x} |-> IF z = x THEN y ELSE map[z]]
NoSnap == [canon |-> EmptyFun, unions |-> <<>>, displaced |-> 0, dict |-> 0]

\* A store built from its root commit: Store::try_from_ir.
Empty(r, s, u, d, can, dis, un, q, a) ==
  /\ r = EachTable(EmptyFun) /\ s = EachTable(<<>>) /\ u = EachTable(<<>>)
  /\ d = <<>>
  /\ can = EmptyFun /\ dis = <<>> /\ un = <<>>
  /\ q = EmptyFun
  /\ a = {}

-----------------------------------------------------------------------------
(* Row ids *)

\* WireRowId::cmp: commit hash first, then counter.
WireBefore(r, s) == \/ Rank[r[1]] < Rank[s[1]]
                    \/ r[1] = s[1] /\ r[2] < s[2]

\* PackedRowId::cmp: the place of the hash in the dictionary, then counter.  A
\* hash that a rollback took out, and coln-query still holds, has a place past
\* the end.
DictIndex(c) == IF c \in Range(dict) THEN CHOOSE i \in DOMAIN dict : dict[i] = c
                                     ELSE Len(dict) + 1 + Rank[c]
PackedBefore(r, s) == \/ DictIndex(r[1]) < DictIndex(s[1])
                      \/ r[1] = s[1] /\ r[2] < s[2]
InPackedOrder(S) ==
  CHOOSE f \in [1 .. Cardinality(S) -> S] :
    \A i, j \in 1 .. Cardinality(S) : i < j => PackedBefore(f[i], f[j])

Ascending(S) ==
  CHOOSE f \in [1 .. Cardinality(S) -> S] :
    \A i, j \in 1 .. Cardinality(S) : i < j => f[i] < f[j]

Concat(s, u) == s \o u

\* IdPacker: a hash gets the next free place when it is first seen.
Intern(d, c) == IF c \in Range(d) THEN d ELSE Append(d, c)

IdCells(t, cells) ==
  LET at == Ascending(Schema[t].ids \cap DOMAIN cells)
  IN  [i \in DOMAIN at |-> cells[at[i]]]

\* The hashes a commit's rows mention, in the order pack_op meets them.
Mentions(c) ==
  LET hashes(ids) == [j \in DOMAIN ids |-> ids[j][1]]
  IN  FoldLeft(Concat, <<>>,
        [i \in DOMAIN Ops[c] |->
           <<c>> \o hashes(IdCells(Ops[c][i].table, Ops[c][i].cells))])

Lookup(can, r) == IF r \in DOMAIN can THEN can[r] ELSE r

\* Rowing::canonical_id and Table::canonicalise_cells
Canonical(r) == Lookup(canon, r)
CanonicalCells(t, cells) ==
  [i \in DOMAIN cells |-> IF i \in Schema[t].ids THEN Canonical(cells[i])
                                                 ELSE cells[i]]

\* One step of Rowing::apply_unions: the class keeps its least id in wire
\* order, the other representative becomes displaced.
Unite(s, pair) ==
  LET one == Lookup(s.canon, pair[1])
      other == Lookup(s.canon, pair[2])
      low == IF WireBefore(one, other) THEN one ELSE other
      known == DOMAIN s.canon \cup {pair[1], pair[2]}
  IN  [canon |-> [r \in known |-> IF Lookup(s.canon, r) \in {one, other}
                                  THEN low ELSE Lookup(s.canon, r)],
       displaced |-> IF one = other THEN s.displaced
                     ELSE Append(s.displaced, IF low = one THEN other ELSE one)]

-----------------------------------------------------------------------------
(* Tables *)

KeyOf(t, cells) == SubSeq(cells, 1, Schema[t].key)

\* TableIndex::contains_key on the primary key columns
KeyTaken(t, cells) ==
  /\ Schema[t].key # NoKey
  /\ \E r \in DOMAIN rows[t] : KeyOf(t, rows[t][r]) = KeyOf(t, cells)

\* Mutant of Twins: the lookup is on the key columns only.
TwinsByKey(t, cells) ==
  LET n == IF Schema[t].key = NoKey THEN 0 ELSE Schema[t].key
  IN  IF Schema[t].memoized
      THEN {r \in DOMAIN rows[t] : SubSeq(rows[t][r], 1, n) = SubSeq(cells, 1, n)}
      ELSE {}

\* The rows of a structural table that equal the new one cell by cell.
Twins(t, cells) ==
  IF Schema[t].memoized THEN {r \in DOMAIN rows[t] : rows[t][r] = cells} ELSE {}

\* index_seek(..).next(): the first of them in packed order.
FirstTwin(t, cells) ==
  CHOOSE r \in Twins(t, cells) :
    \A s \in Twins(t, cells) \ {r} : PackedBefore(r, s)

Add(r, cells) == [kind |-> "add", id |-> r, cells |-> cells]
Delete(r) == [kind |-> "delete", id |-> r, cells |-> <<>>]

\* Table::apply_undo: an undo entry says what the operation did.
Undone(tbl, entry) ==
  IF entry.kind = "add" THEN Restrict(tbl, DOMAIN tbl \ {entry.id})
                        ELSE With(tbl, entry.id, entry.cells)

\* Table::rollback_to: the log is undone from its end.
UndoAll(tbl, log) ==
  LET step(entry, acc) == Undone(acc, entry) IN FoldRight(step, log, tbl)

\* Mutant of Affected: only rows whose own id is displaced.
AffectedById(t) == DOMAIN rows[t] \cap Range(displaced)

\* The rows with a displaced id, their own or one in a cell
Affected(t) ==
  {r \in DOMAIN rows[t] :
     \/ r \in Range(displaced)
     \/ \E i \in Schema[t].ids : rows[t][r][i] \in Range(displaced)}

\* A row is deleted and added in canonical form; it is not added when it moves
\* onto an id that has a row already.
Rewrite(t, r) ==
  IF r \in Range(displaced) /\ Canonical(r) \in DOMAIN rows[t]
  THEN <<Delete(r)>>
  ELSE <<Delete(r), Add(Canonical(r), CanonicalCells(t, rows[t][r]))>>

\* Table::rebuild_full: the affected rows are rewritten in packed order.
RebuildOps(t) ==
  LET order == InPackedOrder(Affected(t))
  IN  FoldLeft(Concat, <<>>, [i \in DOMAIN order |-> Rewrite(t, order[i])])

-----------------------------------------------------------------------------
(* Z-sets: finite functions to non-zero integers *)

Weight(z, x) == IF x \in DOMAIN z THEN z[x] ELSE 0

ZSum(z, w) ==
  LET all == {x \in DOMAIN z \cup DOMAIN w : Weight(z, x) + Weight(w, x) # 0}
  IN  [x \in all |-> Weight(z, x) + Weight(w, x)]

Support(z) == {x \in DOMAIN z : z[x] > 0}

\* Table::table_delta_from_ops: taken before the updates are applied, so a
\* deleted row is looked up in the table as it is.
Change(t, op) ==
  IF op.kind = "add" THEN [x \in {<<t, op.id, op.cells>>} |-> 1]
                     ELSE [x \in {<<t, op.id, rows[t][op.id]>>} |-> -1]
TableDelta(t) ==
  FoldLeft(ZSum, EmptyFun, [i \in DOMAIN staged[t] |-> Change(t, staged[t][i])])

\* coln-query keeps base tables only.
Feed(z, w) == ZSum(z, Restrict(w, {x \in DOMAIN w : Schema[x[1]].source}))

-----------------------------------------------------------------------------
(* Beginning a commit *)

\* validate_commit_ops: no primary key that a stored row or an earlier row of
\* the commit has.  The cells are compared as they came, before canonicalising.
Precheck(c) ==
  \A i \in DOMAIN Ops[c] :
    LET op == Ops[c][i]
    IN  /\ ~KeyTaken(op.table, op.cells)
        /\ Schema[op.table].key # NoKey =>
             \A j \in 1 .. i-1 :
               Ops[c][j].table = op.table =>
                 KeyOf(op.table, Ops[c][j].cells) # KeyOf(op.table, op.cells)

\* stage_commit_ops: every row goes to its table's pending updates.
StagedOps(c, t) ==
  LET at == Ascending({i \in DOMAIN Ops[c] : Ops[c][i].table = t})
  IN  [k \in DOMAIN at |-> Add(<<c, at[k]>>, Ops[c][at[k]].cells)]

Takes(c) ==
  /\ pc = "idle"
  /\ c \notin applied
  /\ Deps[c] \subseteq applied
  /\ replay # {} =>
       /\ c \in replay
       /\ \A d \in replay : Deps[d] \subseteq applied => Rank[c] <= Rank[d]

\* Store::snapshot
Snapshot ==
  /\ snap' = [canon |-> canon, unions |-> unions,
              displaced |-> Len(displaced), dict |-> Len(dict)]
  /\ before' = rows

Begin(c) ==
  /\ Takes(c)
  /\ Precheck(c)
  /\ Snapshot
  /\ current' = c
  /\ staged' = [t \in Table |-> StagedOps(c, t)]
  /\ dict' = FoldLeft(Intern, dict, Mentions(c))
  /\ todo' = {Ops[c][i].table : i \in DOMAIN Ops[c]}
  /\ delta' = EmptyFun
  /\ pc' = "apply"
  /\ UNCHANGED <<rows, undo, rowing, cq, applied, table, fresh, replay>>

\* The precheck fails before anything is staged.
BeginRefused(c) ==
  /\ Takes(c)
  /\ ~Precheck(c)
  /\ Snapshot
  /\ current' = c
  /\ pc' = "failed"
  /\ UNCHANGED <<rows, staged, undo, dict, rowing, cq, applied, todo, table,
                 delta, fresh, replay>>

-----------------------------------------------------------------------------
(* Store::apply_staged_ops: table after table, in the order a hash set gives *)

TakeTable(t) ==
  /\ pc = "apply" /\ table = NoTable /\ t \in todo
  /\ table' = t
  /\ todo' = todo \ {t}
  /\ delta' = ZSum(delta, TableDelta(t))
  /\ UNCHANGED <<rows, staged, undo, dict, rowing, cq, applied, pc, current,
                 fresh, snap, before, replay>>

\* Table::insert_row.  The key check comes first; a structural row that has
\* twins is stored all the same and a union is staged.
InsertRow(t, r, cells) ==
  IF KeyTaken(t, cells)
  THEN pc' = "failed" /\ UNCHANGED <<rows, undo, unions>>
  ELSE IF r \in DOMAIN rows[t]
  THEN pc' = "panicked" /\ UNCHANGED <<rows, undo, unions>>
  ELSE /\ rows' = [rows EXCEPT ![t] = With(@, r, cells)]
       /\ undo' = [undo EXCEPT ![t] = Append(@, Add(r, cells))]
       /\ unions' = IF Twins(t, cells) = {} THEN unions
                    ELSE Append(unions, <<FirstTwin(t, cells), r>>)
       /\ UNCHANGED pc

\* Mutant of RemoveRow: a removal during a rebuild is not logged.
RemoveRowUnlogged(t, r) ==
  /\ rows' = [rows EXCEPT ![t] = Restrict(@, DOMAIN @ \ {r})]
  /\ UNCHANGED <<undo, unions, pc>>

\* Table::remove_packed, with the cells kept for undoing it
RemoveRow(t, r) ==
  /\ undo' = [undo EXCEPT ![t] =
                Append(@, [kind |-> "delete", id |-> r, cells |-> rows[t][r]])]
  /\ rows' = [rows EXCEPT ![t] = Restrict(@, DOMAIN @ \ {r})]
  /\ UNCHANGED <<unions, pc>>

\* Table::apply_ops, one update
ApplyOp ==
  /\ pc = "apply" /\ table # NoTable /\ staged[table] # <<>>
  /\ LET op == Head(staged[table])
     IN  IF op.kind = "add" THEN InsertRow(table, op.id, op.cells)
                            ELSE RemoveRow(table, op.id)
  /\ staged' = [staged EXCEPT ![table] = Tail(@)]
  /\ UNCHANGED <<dict, canon, displaced, cq, applied, local, replay>>

LeaveTable ==
  /\ pc = "apply" /\ table # NoTable /\ staged[table] = <<>>
  /\ table' = NoTable
  /\ UNCHANGED <<rows, staged, undo, dict, rowing, cq, applied, pc, current,
                 todo, delta, fresh, snap, before, replay>>

\* Rowing::apply_unions, then the test of rebuild_to_fixpoint.
ApplyUnions ==
  /\ pc = "apply" /\ table = NoTable /\ todo = {}
  /\ LET s == FoldLeft(Unite, [canon |-> canon, displaced |-> displaced], unions)
     IN  /\ canon' = s.canon
         /\ displaced' = s.displaced
         /\ pc' = IF s.displaced = <<>> THEN "check" ELSE "rebuild"
  /\ unions' = <<>>
  /\ UNCHANGED <<rows, staged, undo, dict, cq, applied, local, replay>>

\* Mutant of Rebuild: the displaced ids are never cleared.
RebuildKeepsDisplaced ==
  /\ pc = "rebuild"
  /\ staged' = [t \in Table |-> RebuildOps(t)]
  /\ todo' = Table
  /\ pc' = "apply"
  /\ UNCHANGED <<rows, undo, dict, rowing, cq, applied, current, table,
                 delta, fresh, snap, before, replay>>

\* Store::rebuild_tables: every table stages its rewrites, the work list of
\* displaced ids is cleared.
Rebuild ==
  /\ pc = "rebuild"
  /\ staged' = [t \in Table |-> RebuildOps(t)]
  /\ displaced' = <<>>
  /\ todo' = Table
  /\ pc' = "apply"
  /\ UNCHANGED <<rows, undo, dict, canon, unions, cq, applied, current, table,
                 delta, fresh, snap, before, replay>>

-----------------------------------------------------------------------------
(* Rules, derived views, and the end of the commit *)

\* Tx::try_commit: the changes are fed, then the enforced rules are looked at.
RulesHold == Accepts(Support(Feed(cq, delta)))

\* coln-query reports changes of weight: a view row comes up again when it gains
\* a second derivation, and is retracted when it loses one of several.
Gained(old, new) == {x \in DOMAIN new : new[x] > Weight(old, x)}
Lost(old, new) == {x \in DOMAIN old : Weight(new, x) < old[x]}

\* Table::ops_from_table_delta panics on a retraction (a todo!()) and on a row
\* with a plain cell: it expects a string for a column of integers, and an
\* integer for one of strings.
Convertible(old, new) ==
  /\ Lost(old, new) = {}
  /\ \A x \in Gained(old, new) : DOMAIN x[2] \subseteq Schema[x[1]].ids

\* Reported rows get ids that continue the commit's counter, in the order of
\* coln-query's answer (any order here).
NewRows(gain) ==
  {[i \in DOMAIN order |-> [table |-> order[i][1], cells |-> order[i][2],
                            id |-> <<current, Len(Ops[current]) + i>>]] :
      order \in Bijection(1 .. Cardinality(gain), gain)}

\* Store::check_rules, accepted: coln-query commits before the derived views
\* are stored.
CheckAccepted ==
  /\ pc = "check"
  /\ LET fed == Feed(cq, delta)
         old == Derived(Support(cq))
         new == Derived(Support(fed))
     IN  /\ RulesHold
         /\ cq' = fed
         /\ fresh' \in NewRows(Gained(old, new))
         /\ pc' = IF Convertible(old, new) THEN "derive" ELSE "panicked"
  /\ UNCHANGED <<rows, staged, undo, dict, rowing, applied, current, todo,
                 table, delta, snap, before, replay>>

\* Mutant of CheckRejected: coln-query keeps what it was fed.
CheckRejectedKeepsFeed ==
  /\ pc = "check"
  /\ ~RulesHold
  /\ cq' = Feed(cq, delta)
  /\ pc' = "failed"
  /\ UNCHANGED <<rows, staged, undo, dict, rowing, applied, local, replay>>

\* Store::check_rules, rejected: coln-query has rolled itself back.
CheckRejected ==
  /\ pc = "check"
  /\ ~RulesHold
  /\ pc' = "failed"
  /\ UNCHANGED <<rows, staged, undo, dict, rowing, cq, applied, local, replay>>

\* Store::apply_derived_view, one row
Derive ==
  /\ pc = "derive" /\ fresh # <<>>
  /\ LET row == Head(fresh) IN InsertRow(row.table, row.id, row.cells)
  /\ fresh' = Tail(fresh)
  /\ UNCHANGED <<staged, dict, canon, displaced, cq, applied, current, todo,
                 table, delta, snap, before, replay>>

DropLocals ==
  /\ current' = NoCommit
  /\ todo' = {}
  /\ table' = NoTable
  /\ delta' = EmptyFun
  /\ fresh' = <<>>
  /\ snap' = NoSnap
  /\ before' = EachTable(EmptyFun)

\* record_in_commit_graph, Store::commit
Record ==
  /\ pc = "derive" /\ fresh = <<>>
  /\ applied' = applied \cup {current}
  /\ replay' = replay \ {current}
  /\ undo' = EachTable(<<>>)
  /\ pc' = "idle"
  /\ DropLocals
  /\ UNCHANGED <<rows, staged, dict, rowing, cq>>

\* Table::rollback_to, for every table
UndoTables ==
  /\ rows' = [t \in Table |-> UndoAll(rows[t], undo[t])]
  /\ undo' = EachTable(<<>>)
  /\ staged' = EachTable(<<>>)

\* Rowing::rollback_to
RestoreRowing ==
  /\ canon' = snap.canon
  /\ displaced' = SubSeq(displaced, 1, snap.displaced)
  /\ unions' = snap.unions

\* Store::rollback_to.  A replay that fails leaves no store (decode_store).
Rollback ==
  /\ pc = "failed"
  /\ UndoTables
  /\ dict' = SubSeq(dict, 1, snap.dict)
  /\ RestoreRowing
  /\ pc' = IF replay = {} THEN "idle" ELSE "unreadable"
  /\ DropLocals
  /\ UNCHANGED <<cq, applied, replay>>

\* encode_store, the end of the process, decode_store: an empty store, and all
\* recorded commits to apply again.
Reload ==
  /\ pc = "idle" /\ replay = {} /\ applied # {}
  /\ replay' = applied
  /\ Empty(rows', staged', undo', dict', canon', displaced', unions', cq', applied')
  /\ UNCHANGED <<pc, local>>

-----------------------------------------------------------------------------
Init ==
  /\ Empty(rows, staged, undo, dict, canon, displaced, unions, cq, applied)
  /\ pc = "idle"
  /\ current = NoCommit /\ todo = {} /\ table = NoTable
  /\ delta = EmptyFun /\ fresh = <<>>
  /\ snap = NoSnap /\ before = EachTable(EmptyFun)
  /\ replay = {}

Work ==
  \/ \E t \in Table : TakeTable(t)
  \/ ApplyOp \/ LeaveTable \/ ApplyUnions \/ Rebuild
  \/ CheckAccepted \/ CheckRejected \/ Derive \/ Record \/ Rollback

Next ==
  \/ \E c \in Commit : Begin(c) \/ BeginRefused(c)
  \/ Work
  \/ Reload

Spec == Init /\ [][Next]_vars

\* A running call is never suspended.
FairSpec == Spec /\ WF_vars(Work)

-----------------------------------------------------------------------------
(* What the applied commits mean: row ids up to congruence *)

Written(A) == UNION {{<<c, i>> : i \in DOMAIN Ops[c]} : c \in A}
WrittenTable(r) == Ops[r[1]][r[2]].table

CellsUnder(can, r) ==
  LET op == Ops[r[1]][r[2]]
  IN  [i \in DOMAIN op.cells |->
         IF i \in Schema[op.table].ids THEN Lookup(can, op.cells[i]) ELSE op.cells[i]]

Least(S) == CHOOSE r \in S : \A s \in S \ {r} : WireBefore(r, s)

\* Rows of a structural table that are equal under `can' get one id.
Congruent(can) ==
  [r \in DOMAIN can |->
     IF Schema[WrittenTable(r)].memoized
     THEN Least({s \in DOMAIN can : /\ WrittenTable(s) = WrittenTable(r)
                                    /\ CellsUnder(can, s) = CellsUnder(can, r)})
     ELSE r]

\* The congruence closure: no more rounds than rows are needed.
Round(can, n) == Congruent(can)
Rounds(A) == [n \in 1 .. Cardinality(Written(A)) |-> n]
Classes(A) == FoldLeft(Round, [r \in Written(A) |-> r], Rounds(A))

\* The rows of commits as they are to be stored
Meant(can) == {<<WrittenTable(r), can[r], CellsUnder(can, r)>> : r \in DOMAIN can}

\* The stored rows, as <<table, id, cells>>: all, and those coln-query reads
Stored == UNION {{<<t, r, rows[t][r]>> : r \in DOMAIN rows[t]} : t \in Table}
BaseRows == {x \in Stored : Schema[x[1]].source}

-----------------------------------------------------------------------------
(* Properties *)

UpdateType(op) == op.kind \in {"add", "delete"} /\ op.id \in RowId

TypeOK ==
  /\ \A t \in Table :
       /\ DOMAIN rows[t] \subseteq RowId
       /\ \A i \in DOMAIN staged[t] : UpdateType(staged[t][i])
       /\ \A i \in DOMAIN undo[t] : UpdateType(undo[t][i])
  /\ dict \in Seq(Commit) /\ IsInjective(dict)
  /\ DOMAIN canon \subseteq RowId /\ Range(canon) \subseteq DOMAIN canon
  /\ displaced \in Seq(RowId) /\ unions \in Seq(RowId \X RowId)
  /\ \A x \in DOMAIN cq : cq[x] \in Int \ {0}
  /\ applied \subseteq Commit /\ replay \subseteq Commit
  /\ pc \in {"idle", "apply", "rebuild", "check", "derive", "failed",
             "panicked", "unreadable"}
  /\ current \in Commit \cup {NoCommit}
  /\ todo \subseteq Table /\ table \in Table \cup {NoTable}

\* Wherever a commit is, undoing the logs gives back the tables as they were
\* when it began: apply_commit_atomic can fail at any step.
UndoRestores ==
  pc \notin {"idle", "unreadable"} =>
    \A t \in Table : UndoAll(rows[t], undo[t]) = before[t]

\* No primary key is ever held by two rows, whatever merging does to the cells.
KeysUnique ==
  \A t \in Table : \A r, s \in DOMAIN rows[t] :
    Schema[t].key # NoKey /\ KeyOf(t, rows[t][r]) = KeyOf(t, rows[t][s]) => r = s

\* Every id in use can be unpacked, and a class is represented by its least id
\* (the expect() calls of IdPacker and Rowing), rollbacks included.
IdsResolve ==
  /\ \A x \in Stored : /\ x[2][1] \in Range(dict)
                       /\ \A i \in Schema[x[1]].ids : x[3][i][1] \in Range(dict)
  /\ \A r \in DOMAIN canon : /\ r[1] \in Range(dict)
                             /\ canon[canon[r]] = canon[r]
                             /\ ~WireBefore(r, canon[r])

\* Between commits nothing is left half done: no staged update, no union or
\* displaced id waiting (the asserts of Table::snapshot and Table::commit).
Settled ==
  pc = "idle" =>
    /\ staged = EachTable(<<>>) /\ undo = EachTable(<<>>)
    /\ unions = <<>> /\ displaced = <<>>

\* The debug_assert of rebuild_full: a row that collapses onto another one has
\* the same cells, so nothing is discarded.
CollapseAgrees ==
  pc = "rebuild" =>
    \A t \in Table : \A r \in DOMAIN rows[t] \cap Range(displaced) :
      Canonical(r) \in DOMAIN rows[t] =>
        CanonicalCells(t, rows[t][Canonical(r)]) = CanonicalCells(t, rows[t][r])

\* "should never insert a rowid that already exists", and the todo!() for a
\* view that loses a row, are not reached: rebuilding never stages an id twice,
\* and rewriting base rows never takes a row from a view it does not touch.
NoPanic == pc # "panicked"

\* None of the asserts and expects of the tables, the union-find and the
\* dictionary can fail.
NoAssertFails == TypeOK /\ KeysUnique /\ IdsResolve /\ Settled /\ CollapseAgrees /\ NoPanic

\* No row of an applied commit is lost and none is made up, whatever was merged, refused
\* or rolled back since: its id leads to a stored row of its table, with the cells that it
\* was written with up to merging; and every other stored row is a view's.
RowsOfCommits ==
  pc = "idle" =>
    /\ \A r \in Written(applied) :
         LET t == WrittenTable(r)
         IN  /\ Canonical(r) \in DOMAIN rows[t]
             /\ CanonicalCells(t, rows[t][Canonical(r)])
                  = CanonicalCells(t, Ops[r[1]][r[2]].cells)
    /\ \A t \in Table : \A r \in DOMAIN rows[t] :
         \/ r \in Written(applied) /\ WrittenTable(r) = t
         \/ r \notin Written(Commit) /\ ~Schema[t].source

\* "Applying the same set of commits from the root rebuilds the table contents"
\* (docs/commit-layer.md): what is stored, and what every id stands for, is a
\* function of the set of applied commits alone, not of the order they came in
\* nor of the failures in between.
RowsOfClasses ==
  pc = "idle" =>
    LET can == Classes(applied)
    IN  /\ \A r \in DOMAIN can : Canonical(r) = can[r]
        /\ {x \in Stored : x[2] \in DOMAIN can} = Meant(can)

\* The other rows are those that the views derive from these, up to their ids.
ViewsOfClasses ==
  pc = "idle" =>
    LET can == Classes(applied)
    IN  {<<x[1], x[3]>> : x \in {y \in Stored : y[2] \notin DOMAIN can}}
          = DOMAIN Derived({x \in Meant(can) : Schema[x[1]].source})

\* All say that a commit's rows are what it wrote: the first whatever they merge with,
\* the others that they merge with what they must and with nothing else.
ContentsOfCommits == RowsOfCommits /\ RowsOfClasses /\ ViewsOfClasses

\* "An enforced rule's violation set is empty after every committed transaction"
\* (coln-query/src/api/mod.rs): the stored rows satisfy the rules, also after a
\* merge has rewritten rows of earlier commits.
EnforcedRulesHold == pc = "idle" => Accepts(BaseRows)

\* coln-query holds the same base rows as the tables between commits: "coln-store
\* must roll back to keep the two in sync" (coln-query/src/api/mod.rs).
QueryInSync == pc = "idle" => cq = [x \in BaseRows |-> 1]

\* So the rules are decided on the rows that are really stored.
RulesOnStoredRows == EnforcedRulesHold /\ QueryInSync

\* A saved store can be opened again: replaying its commits in hash order, which
\* need not be the order they were applied in, is never refused.
ReplayAccepted == pc # "unreadable"

\* Every commit is applied or rejected at last: rebuilding reaches a fixpoint.
CommitEnds == pc = "apply" ~> pc \in {"idle", "unreadable"}
=============================================================================
