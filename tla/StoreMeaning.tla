---------------------------- MODULE StoreMeaning ----------------------------
(***************************************************************************)
(* More theorems of StoreCore!Spec, up to this one: what is stored is what *)
(* the applied commits mean.                                               *)
(*                                                                         *)
(* Lasting says that no row of an applied commit is lost; with it no       *)
(* assert fails and ids stay good.  Classes, of StoreCore, gives the       *)
(* meaning of a set of commits: the congruence closure of the rows that    *)
(* they write.  Three more inductive invariants tie the store to it: rows  *)
(* with equal cells are merged (Twinned); rows refer to canonical ids and  *)
(* hold the cells they were given, up to merging (Referring); nothing is   *)
(* merged without need (Needed).  With no union left to carry out, which   *)
(* is so between commits, the union-find is then the closure itself.       *)
(* The rows of views are then those that the views derive from the rows of *)
(* the closure (ViewsShown).                                               *)
(***************************************************************************)
EXTENDS StoreCoreProofs, StoreReads

-----------------------------------------------------------------------------
(***************************************************************************)
(* What became of the rows of commits.  The invariant Lasting puts the     *)
(* rows as they were written beside the rows alive: they too agree with    *)
(* what they are merged with, each leads to a row alive, and a row alive   *)
(* that was not written has the id of a view's row.                        *)
(***************************************************************************)
RowsOf(c) == {<<Ops[c][k].table, <<c, k>>, Ops[c][k].cells>> : k \in DOMAIN Ops[c]}
GivenBy(A) == UNION {RowsOf(c) : c \in A}

\* The rows of the applied commits, and of the one being applied, as written
Given == GivenBy(applied \cup IF pc \in Busy THEN {current} ELSE {})

\* A row that was written as `given', or one of a view
Sourced(x, given) ==
  \/ \E y \in given : y[1] = x[1] /\ y[2] = x[2]
  \/ x[2] \notin Written(Commit) /\ ~Schema[x[1]].source

\* Rows as they were once agree with those alive, and each leads to one.
Keeps(alive, old, can, uns, I) ==
  /\ Coherent(alive \cup old, can, uns, I)
  /\ \A x \in old : Lookup(can, x[2]) \in IdsOf(alive)

Lasts(alive, given, can, uns, I) ==
  /\ Keeps(alive, given, can, uns, I)
  /\ \A x \in alive : Sourced(x, given)

Lasting == pc \in Busy \cup {"idle"} => Lasts(Alive, Given, canon, unions, Taken)

\* The same of the state to go back to
LastingThen ==
  pc \notin {"idle", "unreadable"} =>
    Lasts(FactsOf(before), GivenBy(applied), snap.canon, snap.unions, OfCommits(applied))

\* The ids of the rows a set of commits wrote
LEMMA GivenIs ==
  ASSUME NEW A \in SUBSET Commit, NEW r
  PROVE  /\ r \in Written(A) <=> \E x \in GivenBy(A) : x[2] = r
         /\ \A x \in GivenBy(A) :
              /\ x[2] \in Written(A) /\ x[1] = WrittenTable(x[2])
              /\ x[3] = Ops[x[2][1]][x[2][2]].cells
<1>1. ASSUME NEW x \in GivenBy(A)
      PROVE  /\ x[2] \in Written(A) /\ x[1] = WrittenTable(x[2])
             /\ x[3] = Ops[x[2][1]][x[2][2]].cells
  <2>1. PICK c \in A : x \in RowsOf(c)
    BY DEF GivenBy
  <2>2. PICK k \in DOMAIN Ops[c] : x = <<Ops[c][k].table, <<c, k>>, Ops[c][k].cells>>
    BY <2>1 DEF RowsOf
  <2> QED
    BY <2>1, <2>2 DEF Written, WrittenTable
<1>2. ASSUME r \in Written(A) PROVE \E x \in GivenBy(A) : x[2] = r
  <2>1. PICK c \in A : r \in {<<c, i>> : i \in DOMAIN Ops[c]}
    BY <1>2 DEF Written
  <2>4. PICK k \in DOMAIN Ops[c] : r = <<c, k>>
    BY <2>1
  <2>2. PICK x : x = <<Ops[c][k].table, <<c, k>>, Ops[c][k].cells>>
    OBVIOUS
  <2>3. x \in GivenBy(A) /\ x[2] = r
    BY <2>1, <2>2, <2>4 DEF GivenBy, RowsOf
  <2> QED
    BY <2>3
<1> QED
  BY <1>1, <1>2

\* The rows that a commit stages are all that it wrote.
LEMMA StagesAll ==
  ASSUME NEW c \in Commit, NEW st, \A t \in Table : st[t] = StagedOps(c, t)
  PROVE  Waiting(st) = RowsOf(c)
<1>1. ASSUME NEW y \in Waiting(st) PROVE y \in RowsOf(c)
  <2>1. PICK t \in Table : y \in Adds(t, st[t])
    BY DEF Waiting
  <2>2. PICK s : s = StagedOps(c, t)
    OBVIOUS
  <2>3. PICK op \in Range(s) : y = <<t, op.id, op.cells>>
    BY <2>1, <2>2 DEF Adds
  <2>4. PICK i \in DOMAIN s : op = s[i]
    BY <2>3 DEF Range
  <2> QED
    BY <2>2, <2>3, <2>4, StagedOpsAre DEF RowsOf
<1>2. ASSUME NEW k \in DOMAIN Ops[c], NEW y, y = <<Ops[c][k].table, <<c, k>>, Ops[c][k].cells>>
      PROVE  y \in Waiting(st)
  <2>1. PICK t : t = Ops[c][k].table
    OBVIOUS
  <2> DEFINE S == {i \in DOMAIN Ops[c] : Ops[c][i].table = t}
             at == Ascending(S)
             n == Cardinality(S)
  <2>2. S \in SUBSET Nat /\ IsFiniteSet(S) /\ k \in S /\ t \in Table
    <3>1. DOMAIN Ops[c] = 1 .. Len(Ops[c]) /\ Len(Ops[c]) \in Nat /\ t \in Table
      BY <2>1, OpsAre
    <3>2. IsFiniteSet(1 .. Len(Ops[c]))
      BY <3>1, FS_Interval
    <3> QED
      BY <2>1, <3>1, <3>2, FS_Subset
  <2>3. /\ at \in [1 .. n -> S]
        /\ \E i \in 1 .. n : at[i] = k
    BY <2>2, ListAscending
  <2>4. PICK s : s = StagedOps(c, t)
    OBVIOUS
  <2>5. s = [m \in DOMAIN at |-> Add(<<c, at[m]>>, Ops[c][at[m]].cells)]
    BY <2>4 DEF StagedOps
  <2> HIDE DEF at, n
  <2>6. PICK i \in DOMAIN s : s[i] = Add(<<c, k>>, Ops[c][k].cells)
    BY <2>3, <2>5
  <2>7. PICK op : op = s[i]
    OBVIOUS
  <2>8. op \in Range(s) /\ op.kind = "add" /\ y = <<t, op.id, op.cells>>
    BY <1>2, <2>1, <2>6, <2>7 DEF Add, Range
  <2>9. y \in Adds(t, st[t])
    BY <2>2, <2>4, <2>8 DEF Adds
  <2> QED
    BY <2>2, <2>9 DEF Waiting
<1> QED
  BY <1>1, <1>2 DEF RowsOf

\* New rows beside those that are kept, some of them to be kept too
LEMMA KeepsMore ==
  ASSUME NEW I, NEW J \in SUBSET RowId, I \subseteq J, NEW can, CanonIn(can, RowId), NEW uns,
         NEW alive, NEW old, Keeps(alive, old, can, uns, I),
         NEW more, IdsOf(more) \subseteq J, IdsOf(more) \cap I = {},
         \A x, y \in more : x[2] = y[2] => x = y, NEW also \in SUBSET more
  PROVE  Keeps(alive \cup more, old \cup also, can, uns, J)
<1>1. PICK facts, all : facts = alive \cup old /\ all = (alive \cup more) \cup (old \cup also)
  OBVIOUS
<1>2. all = facts \cup more /\ Coherent(facts, can, uns, I) /\ I \in SUBSET J
  BY <1>1 DEF Keeps
<1>3. Coherent(all, can, uns, J)
  BY <1>2, CoherentMore
<1>4. ASSUME NEW x \in old \cup also PROVE Lookup(can, x[2]) \in IdsOf(alive \cup more)
  <2>1. CASE x \in old
    BY <2>1 DEF Keeps, IdsOf
  <2>2. CASE x \in also
    <3>1. x[2] \notin DOMAIN can
      BY <1>2, <2>2 DEF Coherent, IdsOf
    <3> QED
      BY <2>2, <3>1 DEF Lookup, IdsOf
  <2> QED
    BY <2>1, <2>2
<1> QED
  BY <1>1, <1>3, <1>4 DEF Keeps

\* Steps that move a row from a list to a table
LEMMA MovedKeeps ==
  ASSUME Moved, NEW old, Keeps(Alive, old, canon, unions, Taken)
  PROVE  Keeps(Alive', old, canon', unions', Taken')
<1>1. PICK facts : facts = Alive \cup old
  OBVIOUS
<1>2. Coherent(facts, canon, unions', Taken)
  BY <1>1 DEF Moved, Keeps
<1> QED
  BY <1>1, <1>2 DEF Moved, Keeps

\* The step that drops one
LEMMA DroppedKeeps ==
  ASSUME Dropped, NEW old, Keeps(Alive, old, canon, unions, Taken),
         Coherent(Alive, canon, unions, Taken)'
  PROVE  Keeps(Alive', old, canon', unions', Taken')
<1>1. PICK facts, fewer : facts = Alive \cup old /\ fewer = Alive' \cup old
  OBVIOUS
<1>2. Coherent(facts, canon, unions, Taken) /\ fewer \in SUBSET facts
  BY <1>1 DEF Dropped, Keeps
<1>3. \A r \in DOMAIN canon \cup Ends(unions) : Lookup(canon, r) \in IdsOf(Alive')
  BY DEF Dropped, Coherent
<1>4. \A r \in DOMAIN canon \cup Ends(unions) : Lookup(canon, r) \in IdsOf(fewer)
  BY <1>1, <1>3 DEF IdsOf
<1>5. Coherent(fewer, canon, unions, Taken)
  BY <1>2, <1>4, CoherentLess
<1> QED
  BY <1>1, <1>5 DEF Dropped, Keeps

\* Staging rewritten rows
LEMMA RewrittenKeeps ==
  ASSUME Rewritten, NEW old, Keeps(Alive, old, canon, unions, Taken)
  PROVE  Keeps(Alive', old, canon', unions', Taken')
<1>1. PICK facts, more : facts = Alive \cup old /\ more = Alive'
  OBVIOUS
<1>2. Coherent(facts, canon, <<>>, Taken) /\ Alive' \cup old = facts \cup more
  BY <1>1 DEF Rewritten, Keeps
<1>3. \A y \in more : \E x \in facts :
        x[1] = y[1] /\ x[2] = y[2] /\ CellsBy(canon, x[1], x[3]) = CellsBy(canon, y[1], y[3])
  BY <1>1 DEF Rewritten
<1>4. Coherent(facts \cup more, canon, <<>>, Taken)
  BY <1>2, <1>3, CoherentRewritten
<1>5. \A x \in old : Lookup(canon, x[2]) \in IdsOf(Alive')
  BY DEF Rewritten, Keeps, IdsOf
<1> QED
  BY <1>2, <1>4, <1>5 DEF Rewritten, Keeps

\* Applying the unions
LEMMA ApplyUnionsKeeps ==
  ASSUME Base, Merging, ApplyUnions, NEW old, Keeps(Alive, old, canon, unions, Taken)
  PROVE  Keeps(Alive', old, canon', unions', Taken')
<1>1. pc = "apply" /\ pc' \in Busy
  BY DEF ApplyUnions, Busy
<1>2. /\ Merging' /\ UNCHANGED <<Alive, Taken>> /\ CanonIn(canon, RowId) /\ Taken \in SUBSET RowId
      /\ canon' = Joined(canon, unions) /\ unions' = <<>> /\ DOMAIN canon \subseteq DOMAIN canon'
  BY <1>1, ApplyUnionsMerges, MergingIs DEF Busy
<1>3. Coherent(Alive \cup old, canon', <<>>, Taken)
  BY <1>2, CoherentJoined DEF Keeps
<1>4. ASSUME NEW x \in old PROVE Lookup(canon', x[2]) \in IdsOf(Alive)
  <2>1. CASE x[2] \in DOMAIN canon'
    BY <1>1, <1>2, <2>1 DEF Merging, Coherent
  <2>2. CASE x[2] \notin DOMAIN canon'
    BY <1>2, <2>2 DEF Keeps, Lookup
  <2> QED
    BY <2>1, <2>2
<1> QED
  BY <1>2, <1>3, <1>4 DEF Keeps

\* New rows, those written among them, beside what lasts
LEMMA LastsMore ==
  ASSUME NEW I, NEW J \in SUBSET RowId, I \subseteq J, NEW can, CanonIn(can, RowId), NEW uns,
         NEW alive, NEW given, Lasts(alive, given, can, uns, I),
         NEW more, IdsOf(more) \subseteq J, IdsOf(more) \cap I = {},
         \A x, y \in more : x[2] = y[2] => x = y,
         NEW wrote \in SUBSET more, \A x \in more : Sourced(x, wrote)
  PROVE  Lasts(alive \cup more, given \cup wrote, can, uns, J)
<1>1. Keeps(alive \cup more, given \cup wrote, can, uns, J)
  BY KeepsMore DEF Lasts
<1> QED
  BY <1>1 DEF Lasts, Sourced

\* Steps that move, drop or rewrite rows
LEMMA ChangedLasts ==
  ASSUME \/ Moved \/ Rewritten
         \/ Dropped /\ Coherent(Alive, canon, unions, Taken)',
         Lasts(Alive, Given, canon, unions, Taken), Given' = Given
  PROVE  Lasts(Alive, Given, canon, unions, Taken)'
<1>1. PICK old : old = Given
  OBVIOUS
<1>2. Keeps(Alive, old, canon, unions, Taken) /\ \A x \in Alive : Sourced(x, old)
  BY <1>1 DEF Lasts
<1>3. Keeps(Alive', old, canon', unions', Taken')
  BY <1>2, MovedKeeps, DroppedKeeps, RewrittenKeeps
<1>4. ASSUME NEW y \in Alive' PROVE Sourced(y, old)
  <2>1. PICK x \in Alive : x[1] = y[1] /\ x[2] = y[2]
    BY DEF Moved, Dropped, Rewritten
  <2> QED
    BY <1>2, <2>1 DEF Sourced
<1> QED
  BY <1>1, <1>3, <1>4 DEF Lasts

\* Applying the unions
LEMMA ApplyUnionsLasts ==
  ASSUME Base, Merging, ApplyUnions, Lasting
  PROVE  Lasting'
<1>1. /\ pc = "apply" /\ pc' \in Busy /\ UNCHANGED <<current, applied>>
  BY DEF ApplyUnions, local, Busy
<1>2. Given' = Given /\ Lasts(Alive, Given, canon, unions, Taken)
  BY <1>1 DEF Given, Lasting, Busy
<1>3. PICK old : old = Given
  OBVIOUS
<1>4. Keeps(Alive', old, canon', unions', Taken')
  BY <1>2, <1>3, ApplyUnionsKeeps DEF Lasts
<1>5. Alive' = Alive
  BY ApplyUnionsMerges
<1> QED
  BY <1>2, <1>3, <1>4, <1>5 DEF Lasting, Lasts

\* A commit's rows are written, and wait to be stored.
LEMMA BeginLasts ==
  ASSUME Base, Merging, NEW c \in Commit, Begin(c), Lasting
  PROVE  Lasting'
<1>1. /\ pc = "idle" /\ pc' = "apply" /\ current' = c /\ applied' = applied
      /\ \A t \in Table : staged'[t] = StagedOps(c, t)
  BY DEF Begin, Takes, rowing
<1>2. Grown(Waiting(staged')) /\ CanonIn(canon, RowId)
  BY <1>1, BeginMerges, MergingIs
<1>3. PICK more : more = RowsOf(c)
  OBVIOUS
<1>4. Waiting(staged') = more
  BY <1>1, <1>3, StagesAll
<1>5. Given' = Given \cup more
  BY <1>1, <1>3 DEF Given, GivenBy, Busy
<1>6. \A x \in more : Sourced(x, more)
  BY DEF Sourced
<1>7. Lasts(Alive, Given, canon, unions, Taken)
  BY <1>1 DEF Lasting
<1>8. Lasts(Alive \cup more, Given \cup more, canon, unions, Taken')
  BY <1>2, <1>4, <1>6, <1>7, LastsMore DEF Grown
<1> QED
  BY <1>2, <1>4, <1>5, <1>8 DEF Lasting, Grown

\* Reported rows have ids that no commit gave.
LEMMA ReportedIds ==
  ASSUME Base, Base', CheckAccepted, NEW y \in Reported(fresh')
  PROVE  y[2] \notin Written(Commit) /\ ~Schema[y[1]].source
<1>1. current \in Commit
  BY DEF CheckAccepted, Base, Control, Busy
<1>2. PICK f : f = fresh'
  OBVIOUS
<1>3. PICK i \in DOMAIN f : y = <<f[i].table, f[i].id, f[i].cells>>
  BY <1>2 DEF Reported, Range
<1>4. PICK gain : f \in NewRows(gain)
  BY <1>2 DEF CheckAccepted
<1>5. f[i].id = <<current, Len(Ops[current]) + i>> /\ f \in NewRows(gain)
  BY <1>4 DEF NewRows
<1>6. IsSeq(f) /\ \A x \in Range(f) : NewRowIn(x, RowId)
  BY <1>2 DEF Base, ShapeNow
<1>7. i \in 1 .. Len(f) /\ Len(f) \in Nat /\ f[i] \in Range(f)
  BY <1>6, SeqIs DEF IsSeq, Range
<1>8. Len(Ops[current]) \in Nat /\ DOMAIN Ops[current] = 1 .. Len(Ops[current])
  BY <1>1, OpsAre
<1>9. ASSUME y[2] \in Written(Commit) PROVE FALSE
  <2>1. PICK c \in Commit : \E k \in DOMAIN Ops[c] : y[2] = <<c, k>>
    BY <1>9 DEF Written
  <2>2. PICK k \in DOMAIN Ops[c] : y[2] = <<c, k>>
    BY <2>1
  <2>3. c = current /\ k = Len(Ops[current]) + i
    BY <1>3, <1>5, <2>2
  <2>4. k \in 1 .. Len(Ops[current])
    BY <1>8, <2>2, <2>3
  <2> QED
    BY <1>7, <1>8, <2>3, <2>4
<1>10. ~Schema[y[1]].source
  BY <1>3, <1>6, <1>7 DEF NewRowIn
<1> QED
  BY <1>9, <1>10

\* Rows of views are reported.
LEMMA CheckAcceptedLasts ==
  ASSUME Base, Base', Merging, CheckAccepted, Lasting
  PROVE  Lasting'
<1> SUFFICES ASSUME pc' # "panicked" PROVE Lasting'
  BY DEF Lasting, Busy
<1>1. pc = "check" /\ pc' = "derive" /\ UNCHANGED <<applied, current>>
  BY DEF CheckAccepted
<1>2. PICK more : more = Reported(fresh')
  OBVIOUS
<1>3. Grown(more) /\ CanonIn(canon, RowId)
  BY <1>1, <1>2, CheckAcceptedMerges, MergingIs DEF Busy
<1>4. ASSUME NEW y \in more PROVE Sourced(y, {})
  BY <1>2, ReportedIds DEF Sourced
<1>5. Given' = Given \cup {}
  BY <1>1 DEF Given, Busy
<1>6. Lasts(Alive, Given, canon, unions, Taken)
  BY <1>1 DEF Lasting, Busy
<1>7. Lasts(Alive \cup more, Given \cup {}, canon, unions, Taken')
  BY <1>3, <1>4, <1>6, LastsMore DEF Grown
<1> QED
  BY <1>3, <1>5, <1>7 DEF Lasting, Grown

\* The commit is applied.
LEMMA RecordLasts ==
  ASSUME Base, Merging, Record, Lasting
  PROVE  Lasting'
<1>1. pc = "derive" /\ pc' = "idle" /\ applied' = applied \cup {current}
  BY DEF Record, DropLocals
<1>2. Grown({}) /\ CanonIn(canon, RowId)
  BY <1>1, RecordMerges, MergingIs DEF Busy
<1>3. Given' = Given \cup {}
  BY <1>1 DEF Given, Busy
<1>4. Lasts(Alive, Given, canon, unions, Taken)
  BY <1>1 DEF Lasting, Busy
<1>5. Lasts(Alive \cup {}, Given \cup {}, canon, unions, Taken')
  BY <1>2, <1>4, LastsMore DEF Grown
<1> QED
  BY <1>2, <1>3, <1>5 DEF Lasting, Grown

\* After a rollback everything is as it was, and lasts.
LEMMA RollbackLasts ==
  ASSUME Base, UndoRestores, LastingThen, Rollback
  PROVE  Lasting'
<1> SUFFICES ASSUME pc' = "idle" PROVE Lasting'
  BY DEF Rollback, Lasting, Busy
<1>1. /\ rows' = before /\ canon' = snap.canon /\ unions' = snap.unions
      /\ fresh' = <<>> /\ applied' = applied
      /\ \A t \in Table : staged'[t] = <<>>
  BY BackToBefore, EachTableIs DEF Rollback, RestoreRowing, DropLocals, UndoTables
<1>2. Lasts(FactsOf(before), GivenBy(applied), snap.canon, snap.unions, OfCommits(applied))
  BY DEF Rollback, LastingThen
<1>3. Alive' = FactsOf(before)
  BY <1>1, NoneWaiting DEF Alive
<1>4. Taken' = OfCommits(applied) /\ Given' = GivenBy(applied)
  BY <1>1 DEF Taken, Given, Busy
<1> QED
  BY <1>1, <1>2, <1>3, <1>4 DEF Lasting

\* Init and Reload: nothing is stored, nothing was written.
LEMMA EmptyLasts ==
  /\ Init => Lasting
  /\ Base /\ Reload => Lasting'
<1>1. PICK none : none = FactsOf(EachTable(EmptyFun))
  OBVIOUS
<1>2. none = {}
  BY <1>1, EachTableIs, EmptyIsSeq, FactsAre DEF EmptyFun
<1>3. \A I : Lasts(none, {}, EmptyFun, <<>>, I)
  BY <1>1, <1>2, NothingMerged DEF Lasts, Keeps
<1>4. ASSUME Init PROVE Lasting
  <2>1. fresh = <<>> /\ \A t \in Table : staged[t] = <<>>
    BY <1>4, EachTableIs DEF Init, Empty
  <2>2. Alive = none /\ canon = EmptyFun /\ unions = <<>> /\ pc = "idle" /\ applied = {}
    BY <1>1, <1>4, <2>1, NoneWaiting DEF Init, Empty, Alive
  <2>3. Given = {}
    BY <2>2 DEF Given, GivenBy, Busy
  <2> QED
    BY <1>3, <2>2, <2>3 DEF Lasting
<1>5. ASSUME Base, Reload PROVE Lasting'
  <2>1. fresh' = <<>> /\ \A t \in Table : staged'[t] = <<>>
    BY <1>5, EachTableIs DEF Reload, Empty, Base, Control, local
  <2>2. Alive' = none /\ canon' = EmptyFun /\ unions' = <<>> /\ pc' = "idle" /\ applied' = {}
    BY <1>1, <1>5, <2>1, NoneWaiting DEF Reload, Empty, Alive
  <2>3. Given' = {}
    BY <2>2 DEF Given, GivenBy, Busy
  <2> QED
    BY <1>3, <2>2, <2>3 DEF Lasting
<1> QED
  BY <1>4, <1>5

\* The steps that move nothing but control
LEMMA QuietLasts ==
  ASSUME Lasting,
         \/ \E c \in Commit : BeginRefused(c)
         \/ \E t \in Table : TakeTable(t)
         \/ LeaveTable \/ CheckRejected \/ UNCHANGED vars
  PROVE  Lasting'
<1>1. CASE pc' = "failed"
  BY <1>1 DEF Lasting, Busy
<1>2. CASE pc' # "failed"
  <2>1. UNCHANGED <<rows, staged, canon, unions, fresh, current, applied, pc>>
    BY <1>2 DEF BeginRefused, TakeTable, LeaveTable, CheckRejected, vars, rowing
  <2>2. Alive' = Alive /\ Taken' = Taken /\ Given' = Given
    BY <2>1 DEF Alive, Taken, Given
  <2> QED
    BY <2>1, <2>2 DEF Lasting
<1> QED
  BY <1>1, <1>2

\* The state to go back to is one between commits.
LEMMA LastingThenStep ==
  ASSUME Base, Merging, Lasting, LastingThen, [Next]_vars
  PROVE  LastingThen'
<1>1. ASSUME pc = "idle", Snapshot, UNCHANGED applied PROVE LastingThen'
  <2>1. Lasts(Alive, Given, canon, unions, Taken) /\ Alive = FactsOf(rows)
    BY <1>1, AliveAtRest DEF Lasting
  <2>2. Taken = OfCommits(applied) /\ Given = GivenBy(applied)
    BY <1>1 DEF Taken, Given, Busy
  <2>3. before' = rows /\ snap'.canon = canon /\ snap'.unions = unions
    BY <1>1 DEF Snapshot
  <2> QED
    BY <1>1, <2>1, <2>2, <2>3 DEF LastingThen
<1>2. ASSUME UNCHANGED <<snap, before, applied>>, pc \notin {"idle", "unreadable"}
      PROVE  LastingThen'
  BY <1>2 DEF LastingThen
<1>3. CASE UNCHANGED vars
  BY <1>3 DEF vars, LastingThen
<1>4. ASSUME NEW c \in Commit, Begin(c) \/ BeginRefused(c) PROVE LastingThen'
  BY <1>1, <1>4 DEF Begin, BeginRefused, Takes
<1>5. ASSUME NEW t \in Table, TakeTable(t) PROVE LastingThen'
  BY <1>2, <1>5 DEF TakeTable
<1>6. CASE ApplyOp \/ LeaveTable \/ ApplyUnions \/ Rebuild
  BY <1>2, <1>6 DEF ApplyOp, LeaveTable, ApplyUnions, Rebuild, local
<1>7. CASE CheckAccepted \/ CheckRejected \/ Derive
  BY <1>2, <1>7 DEF CheckAccepted, CheckRejected, Derive, local
<1>8. CASE Record \/ Rollback \/ Reload
  BY <1>8 DEF Record, Rollback, Reload, LastingThen
<1> QED
  BY <1>3, <1>4, <1>5, <1>6, <1>7, <1>8 DEF Next, Work

\* Every step keeps the rows of commits.
LEMMA LastingStep ==
  ASSUME Base, Base', UndoRestores, Merging, Merging', Lasting, LastingThen, [Next]_vars
  PROVE  Lasting' /\ LastingThen'
<1>1. LastingThen'
  BY LastingThenStep
<1>2. CASE UNCHANGED vars
  BY <1>1, <1>2, QuietLasts
<1>3. ASSUME NEW c \in Commit, Begin(c) PROVE Lasting'
  BY <1>3, BeginLasts
<1>4. ASSUME NEW c \in Commit, BeginRefused(c) PROVE Lasting'
  BY <1>4, QuietLasts
<1>5. ASSUME NEW t \in Table, TakeTable(t) PROVE Lasting'
  BY <1>5, QuietLasts
<1>6. CASE ApplyOp
  <2> SUFFICES ASSUME pc' \in Busy \cup {"idle"} PROVE Lasts(Alive, Given, canon, unions, Taken)'
    BY <1>1 DEF Lasting
  <2>1. PICK t, op : t = table /\ op = Head(staged[table])
    OBVIOUS
  <2>2. pc = "apply" /\ UNCHANGED <<applied, current>> /\ pc' \in Busy /\ pc' # "failed"
    BY <1>6 DEF ApplyOp, local, Busy, InsertRow, RemoveRow
  <2>3. Given' = Given /\ Lasts(Alive, Given, canon, unions, Taken)
    BY <2>2 DEF Given, Lasting, Busy
  <2>4. Coherent(Alive, canon, unions, Taken)'
    BY <2>2 DEF Merging
  <2>5. CASE op.kind = "add"
    <3>1. Moved
      BY <1>6, <2>1, <2>2, <2>5, AddMerges
    <3> QED
      BY <2>3, <3>1, ChangedLasts
  <2>6. CASE op.kind = "delete"
    <3>1. Dropped
      BY <1>6, <2>1, <2>6, DeleteMerges
    <3> QED
      BY <2>3, <2>4, <3>1, ChangedLasts
  <2> QED
    BY <1>6, <2>1, <2>5, <2>6, NextOp
<1>7. CASE LeaveTable \/ CheckRejected
  BY <1>1, <1>7, QuietLasts
<1>8. CASE ApplyUnions
  BY <1>1, <1>8, ApplyUnionsLasts
<1>9. CASE Rebuild
  <2>1. pc = "rebuild" /\ pc' = "apply" /\ UNCHANGED <<applied, current>>
    BY <1>9 DEF Rebuild
  <2>2. Given' = Given /\ Lasts(Alive, Given, canon, unions, Taken)
    BY <2>1 DEF Given, Lasting, Busy
  <2> QED
    BY <1>1, <1>9, <2>2, RebuildMerges, ChangedLasts DEF Lasting
<1>10. CASE CheckAccepted
  BY <1>1, <1>10, CheckAcceptedLasts
<1>11. CASE Derive
  <2> SUFFICES ASSUME pc' \in Busy \cup {"idle"} PROVE Lasts(Alive, Given, canon, unions, Taken)'
    BY <1>1 DEF Lasting
  <2>1. pc = "derive" /\ UNCHANGED <<applied, current>> /\ pc' = "derive"
    BY <1>11 DEF Derive, local, InsertRow, Busy
  <2>2. Given' = Given /\ Lasts(Alive, Given, canon, unions, Taken)
    BY <2>1 DEF Given, Lasting, Busy
  <2>3. Moved
    BY <1>11, <2>1, DeriveMerges
  <2> QED
    BY <2>2, <2>3, ChangedLasts
<1>12. CASE Record
  BY <1>1, <1>12, RecordLasts
<1>13. CASE Rollback
  BY <1>1, <1>13, RollbackLasts
<1>14. CASE Reload
  BY <1>1, <1>14, EmptyLasts
<1> QED
  BY <1>1, <1>2, <1>3, <1>4, <1>5, <1>6, <1>7, <1>8, <1>9, <1>10, <1>11, <1>12, <1>13, <1>14
     DEF Next, Work

\* The invariants together say what is stored between commits.
LEMMA LastingSays ==
  ASSUME Base, NoUnions, Merging, Lasting
  PROVE  RowsOfCommits
<1> SUFFICES ASSUME pc = "idle" PROVE RowsOfCommits
  BY DEF RowsOfCommits
<1>1. /\ Lasts(Alive, Given, canon, unions, Taken) /\ Alive = FactsOf(rows)
      /\ Given = GivenBy(applied) /\ CanonIn(canon, RowId) /\ applied \in SUBSET Commit
      /\ unions = <<>>
  BY AliveAtRest, MergingIs DEF Lasting, Given, Busy, Base, Control, NoUnions
<1>2. Agree(Alive \cup Given, canon)
  BY <1>1, JoinedEmpty DEF Lasts, Keeps, Coherent
<1>3. ASSUME NEW r \in Written(applied), NEW t, t = WrittenTable(r)
      PROVE  /\ Canonical(r) \in DOMAIN rows[t]
             /\ CanonicalCells(t, rows[t][Canonical(r)])
                  = CanonicalCells(t, Ops[r[1]][r[2]].cells)
  <2>1. PICK x \in Given : /\ x[2] = r /\ x[1] = t /\ x[3] = Ops[r[1]][r[2]].cells
    BY <1>1, <1>3, GivenIs
  <2>2. PICK y \in Alive : y[2] = Lookup(canon, r)
    BY <1>1, <2>1 DEF Lasts, Keeps, IdsOf
  <2>3. Lookup(canon, y[2]) = Lookup(canon, x[2])
    BY <1>1, <2>1, <2>2, LookupTwice
  <2>4. y[1] = t /\ CellsBy(canon, t, y[3]) = CellsBy(canon, t, x[3])
    BY <1>2, <2>1, <2>3 DEF Agree
  <2>5. y[2] \in DOMAIN rows[t] /\ y[3] = rows[t][y[2]]
    BY <1>1, <2>4, FactsAre
  <2>6. CellsBy(canon, t, y[3]) = CanonicalCells(t, y[3])
        /\ CellsBy(canon, t, x[3]) = CanonicalCells(t, x[3])
    BY DEF CellsBy, CanonicalCells, Canonical
  <2> QED
    BY <2>1, <2>2, <2>4, <2>5, <2>6 DEF Canonical
<1>4. ASSUME NEW t \in Table, NEW r \in DOMAIN rows[t]
      PROVE  \/ r \in Written(applied) /\ WrittenTable(r) = t
             \/ r \notin Written(Commit) /\ ~Schema[t].source
  <2>1. PICK x : x = <<t, r, rows[t][r]>>
    OBVIOUS
  <2>2. x \in Alive /\ x[1] = t /\ x[2] = r
    BY <1>1, <2>1, FactsAre
  <2>3. Sourced(x, Given)
    BY <1>1, <2>2 DEF Lasts
  <2>4. ASSUME NEW y \in Given, y[1] = t, y[2] = r
        PROVE  r \in Written(applied) /\ WrittenTable(r) = t
    BY <1>1, <2>4, GivenIs
  <2> QED
    BY <2>2, <2>3, <2>4 DEF Sourced
<1> QED
  BY <1>3, <1>4 DEF RowsOfCommits

\* No row of an applied commit is lost, whatever is merged, rebuilt, refused and rolled
\* back: its id leads to a row of its table with the cells it was written with, up to
\* merging. And nothing is stored that no applied commit wrote and no view derived.
THEOREM RowsLast == ViewsClosed => (Spec /\ []NoViewTwin => []RowsOfCommits)
<1> SUFFICES ASSUME ViewsClosed PROVE Spec /\ []NoViewTwin => []RowsOfCommits
  OBVIOUS
<1>1. Init => Lasting /\ LastingThen
  BY EmptyLasts DEF Init, LastingThen
<1>2. /\ Base /\ UndoRestores /\ Merging /\ (Base /\ Merging)' /\ Lasting /\ LastingThen
      /\ [Next]_vars
      => Lasting' /\ LastingThen'
  BY LastingStep
<1>3. Base /\ NoUnions /\ Merging /\ Lasting => RowsOfCommits
  BY LastingSays
<1>4. Init => NoUnions
  BY DEF Init, Empty, NoSnap, NoUnions
<1>5. NoUnions /\ NoViewTwin /\ [Next]_vars => NoUnions'
  BY NoUnionsStep
<1> QED
  BY <1>1, <1>2, <1>3, <1>4, <1>5, BaseHolds, MergingHolds, PTL DEF Spec

\* What clients read, if what is stored is as it should be.
LEMMA ReadsAre ==
  ASSUME Base, Merging, IdsResolve, RowsOfCommits
  PROVE  OldIdsLead
<1> SUFFICES ASSUME pc = "idle" PROVE OldIdsLead
  BY DEF OldIdsLead
<1>1. CanonIn(canon, RowId) /\ \A t \in Table : \A r \in DOMAIN rows[t] : Canonical(r) = r
  BY MergingIs, AliveAtRest DEF Canonical
<1>2. ASSUME NEW t \in Table, NEW r \in DOMAIN rows[t] PROVE Packable(r)
  <2>1. PICK x : x = <<t, r, rows[t][r]>>
    OBVIOUS
  <2>2. x \in Stored /\ x[2] = r
    BY <2>1 DEF Stored
  <2> QED
    BY <2>2 DEF IdsResolve, Packable
<1>3. \A q : Canonical(Canonical(q)) = Canonical(q)
  BY <1>1, LookupTwice DEF Canonical
<1>4. ASSUME NEW r \in Written(applied), NEW t, t = WrittenTable(r), NEW row, row = RowById(t, r)
      PROVE  /\ row.id = Canonical(r) /\ RowById(t, Promote(r)) = row
             /\ CanonicalCells(t, row.cells) = CanonicalCells(t, Ops[r[1]][r[2]].cells)
  <2>1. /\ Canonical(r) \in DOMAIN rows[t]
        /\ CanonicalCells(t, rows[t][Canonical(r)]) = CanonicalCells(t, Ops[r[1]][r[2]].cells)
    BY <1>4 DEF RowsOfCommits
  <2>2. t \in Table
    <3>1. PICK c \in applied : r \in {<<c, i>> : i \in DOMAIN Ops[c]}
      BY DEF Written
    <3>2. PICK i \in DOMAIN Ops[c] : r = <<c, i>>
      BY <3>1
    <3>3. c \in Commit
      BY DEF Base, Control
    <3> QED
      BY <1>4, <3>2, <3>3, OpsAre DEF WrittenTable
  <2>3. Packable(r) /\ Packable(Canonical(r))
    <3>1. CASE r \in DOMAIN canon
      BY <1>2, <2>1, <2>2, <3>1 DEF IdsResolve, Packable
    <3>2. CASE r \notin DOMAIN canon
      <4>1. Canonical(r) = r
        BY <3>2 DEF Canonical, Lookup
      <4> QED
        BY <1>2, <2>1, <2>2, <4>1
    <3> QED
      BY <3>1, <3>2
  <2>4. row = [id |-> Canonical(r), cells |-> rows[t][Canonical(r)]]
    BY <1>4, <2>1, <2>3 DEF RowById
  <2>5. Promote(r) = Canonical(r)
    BY <2>3 DEF Promote
  <2>6. RowById(t, Canonical(r)) = row
    BY <1>3, <2>1, <2>3, <2>4 DEF RowById
  <2> QED
    BY <2>1, <2>4, <2>5, <2>6
<1>5. ASSUME NEW t \in Table, NEW r \in DOMAIN rows[t]
      PROVE  RowById(t, r) = [id |-> r, cells |-> rows[t][r]]
  BY <1>1, <1>2, <1>5 DEF RowById
<1> QED
  BY <1>4, <1>5 DEF OldIdsLead

\* A client may keep an id for ever: between commits it leads to the row that stands for
\* it, with the cells it was given up to merging, and no query finds a row that cannot
\* be looked up (the panic of all_proj_inner).
THEOREM OldIdsStayGood ==
  ViewsClosed /\ Accepts({}) /\ RowInEveryCommit
    => (Spec /\ []NoViewRefused /\ []NoViewTwin => []OldIdsLead)
<1> SUFFICES ASSUME ViewsClosed, Accepts({}), RowInEveryCommit
             PROVE  Spec /\ []NoViewRefused /\ []NoViewTwin => []OldIdsLead
  OBVIOUS
<1>1. /\ Spec /\ []NoViewRefused => []IdsResolve
      /\ Spec /\ []NoViewTwin => []RowsOfCommits
      /\ Spec => [](Base /\ Merging)
  BY IdsStayKnown, RowsLast, MergingHolds
<1>2. Base /\ Merging /\ IdsResolve /\ RowsOfCommits => OldIdsLead
  BY ReadsAre
<1> QED
  BY <1>1, <1>2, PTL

-----------------------------------------------------------------------------
(* No assert fails. *)

\* When a row collapses onto another in rebuild_full the two have the same cells, so that
\* nothing is discarded: whatever rows are merged, in whatever order, and across rollbacks.
THEOREM CollapsesKeepCells == ViewsClosed => (Spec => []CollapseAgrees)
<1> SUFFICES ASSUME ViewsClosed PROVE Spec => []CollapseAgrees
  OBVIOUS
<1>1. ASSUME Base, Merging, pc = "rebuild", NEW t \in Table,
             NEW r \in DOMAIN rows[t] \cap Range(displaced), Canonical(r) \in DOMAIN rows[t]
      PROVE  CanonicalCells(t, rows[t][Canonical(r)]) = CanonicalCells(t, rows[t][r])
  <2>1. CellsBy(canon, t, rows[t][Canonical(r)]) = CellsBy(canon, t, rows[t][r])
    BY <1>1, DisplacedMoves
  <2> QED
    BY <2>1 DEF CellsBy, CanonicalCells, Canonical
<1>2. Base /\ Merging => CollapseAgrees
  BY <1>1 DEF CollapseAgrees
<1> QED
  BY <1>2, MergingHolds, PTL

\* Not shown here: that a commit takes no row from a view, and that rows of views have no
\* plain cell; the code has a todo!() for the first, and expects the second.
ViewsOnlyGrow ==
  pc = "check" /\ RulesHold =>
    Convertible(Derived(Support(cq)), Derived(Support(Feed(cq, delta))))

\* No row is ever inserted under an id that its table has ("should never insert a rowid
\* that already exists"), neither by a rebuild, nor by a commit that is applied again after
\* a rollback, nor for a view.
THEOREM NeverPanics == ViewsClosed => (Spec /\ []ViewsOnlyGrow => []NoPanic)
<1> SUFFICES ASSUME ViewsClosed PROVE Spec /\ []ViewsOnlyGrow => []NoPanic
  OBVIOUS
<1>1. Init => NoPanic
  BY DEF Init, NoPanic
<1>2. ASSUME Base, Merging, ViewsOnlyGrow, NoPanic, [Next]_vars PROVE NoPanic'
  <2>1. CASE UNCHANGED vars
    BY <1>2, <2>1 DEF vars, NoPanic
  <2>2. ASSUME NEW c \in Commit, Begin(c) \/ BeginRefused(c) PROVE NoPanic'
    BY <2>2 DEF Begin, BeginRefused, NoPanic
  <2>3. ASSUME NEW t \in Table, TakeTable(t) PROVE NoPanic'
    BY <1>2, <2>3 DEF TakeTable, NoPanic
  <2>4. CASE ApplyOp
    <3>1. PICK t, op : t = table /\ op = Head(staged[table])
      OBVIOUS
    <3>2. op.kind = "add" \/ op.kind = "delete"
      BY <1>2, <2>4, <3>1, NextOp
    <3> QED
      BY <1>2, <2>4, <3>1, <3>2, AddMerges, DeleteMerges DEF NoPanic
  <2>5. CASE LeaveTable \/ ApplyUnions \/ Rebuild \/ CheckRejected
    BY <1>2, <2>5 DEF LeaveTable, ApplyUnions, Rebuild, CheckRejected, NoPanic
  <2>6. CASE CheckAccepted
    BY <1>2, <2>6 DEF CheckAccepted, ViewsOnlyGrow, NoPanic
  <2>7. CASE Derive
    BY <1>2, <2>7, DeriveMerges DEF NoPanic
  <2>8. CASE Record \/ Rollback \/ Reload
    BY <2>8 DEF Record, Rollback, Reload, NoPanic
  <2> QED
    BY <1>2, <2>1, <2>2, <2>3, <2>4, <2>5, <2>6, <2>7, <2>8 DEF Next, Work
<1>3. Base /\ Merging /\ ViewsOnlyGrow /\ NoPanic /\ [Next]_vars => NoPanic'
  BY <1>2
<1> QED
  BY <1>1, <1>3, MergingHolds, PTL DEF Spec

\* None of the asserts and expects of the tables, the union-find and the dictionary can
\* fail, as long as views only grow, and no row of a view is refused or has a twin.
THEOREM NoAssertEverFails ==
  ViewsClosed /\ Accepts({}) /\ RowInEveryCommit
    => (Spec /\ []NoViewRefused /\ []NoViewTwin /\ []ViewsOnlyGrow => []NoAssertFails)
<1> SUFFICES ASSUME ViewsClosed, Accepts({}), RowInEveryCommit
             PROVE  Spec /\ []NoViewRefused /\ []NoViewTwin /\ []ViewsOnlyGrow => []NoAssertFails
  OBVIOUS
<1>1. /\ Spec => []TypeOK
      /\ Spec => []KeysUnique
      /\ Spec /\ []NoViewRefused => []IdsResolve
      /\ Spec /\ []NoViewTwin => []Settled
      /\ Spec => []CollapseAgrees
      /\ Spec /\ []ViewsOnlyGrow => []NoPanic
  BY TypeCorrect, KeysStayUnique, IdsStayKnown, SettledBetween, CollapsesKeepCells, NeverPanics
<1>2. TypeOK /\ KeysUnique /\ IdsResolve /\ Settled /\ CollapseAgrees /\ NoPanic => NoAssertFails
  BY DEF NoAssertFails
<1> QED
  BY <1>1, <1>2, PTL

(***************************************************************************)
(* What is asked about views holds at least where there are none.          *)
(***************************************************************************)
NoViews == \A db : Derived(db) = EmptyFun

LEMMA WithoutViews ==
  ASSUME NoViews
  PROVE  ViewsClosed /\ (Spec => [](NoViewRefused /\ NoViewTwin /\ ViewsOnlyGrow))
<1>1. DOMAIN EmptyFun = {} /\ IsFiniteSet({})
  BY EmptyIsSeq, FS_EmptySet DEF EmptyFun
<1>2. ViewsClosed
  BY <1>1 DEF NoViews, ViewsClosed
<1>3. Gained(EmptyFun, EmptyFun) = {} /\ Lost(EmptyFun, EmptyFun) = {}
  BY <1>1 DEF Gained, Lost
<1>4. ASSUME NEW f \in NewRows({}) PROVE f = <<>>
  <2>1. PICK order \in Bijection(1 .. Cardinality({}), {}) :
          f = [i \in DOMAIN order |-> [table |-> order[i][1], cells |-> order[i][2],
                                       id |-> <<current, Len(Ops[current]) + i>>]]
    BY <1>4 DEF NewRows
  <2>2. DOMAIN order = {}
    <3>1. order \in [1 .. Cardinality({}) -> {}] /\ Cardinality({}) = 0
      BY <2>1, FS_EmptySet DEF Bijection, Injection
    <3> QED
      BY <3>1
  <2>3. f \in [1 .. 0 -> {}]
    BY <2>1, <2>2
  <2>4. f \in Seq({}) /\ Len(f) = 0
    BY <2>3, ListIsSeq
  <2> QED
    BY <2>4, EmptySeq
<1>5. Init => fresh = <<>>
  BY DEF Init
<1>6. ASSUME fresh = <<>>, [Next]_vars PROVE fresh' = <<>>
  <2>1. CASE CheckAccepted
    <3>1. fresh' \in NewRows({})
      BY <1>3, <2>1 DEF CheckAccepted, NoViews
    <3> QED
      BY <1>4, <3>1
  <2>2. CASE Record \/ Rollback
    BY <2>2 DEF Record, Rollback, DropLocals
  <2>3. CASE UNCHANGED vars
    BY <1>6, <2>3 DEF vars
  <2>4. ASSUME NEW c \in Commit, Begin(c) \/ BeginRefused(c) PROVE fresh' = <<>>
    BY <1>6, <2>4 DEF Begin, BeginRefused
  <2>5. ASSUME NEW t \in Table, TakeTable(t) PROVE fresh' = <<>>
    BY <1>6, <2>5 DEF TakeTable
  <2>6. CASE ApplyOp \/ LeaveTable \/ ApplyUnions \/ Rebuild \/ CheckRejected \/ Reload
    BY <1>6, <2>6 DEF ApplyOp, LeaveTable, ApplyUnions, Rebuild, CheckRejected, Reload, local
  <2>7. CASE Derive
    BY <1>6, <2>7 DEF Derive
  <2> QED
    BY <1>6, <2>1, <2>2, <2>3, <2>4, <2>5, <2>6, <2>7 DEF Next, Work
<1>7. fresh = <<>> => NoViewRefused /\ NoViewTwin /\ ViewsOnlyGrow
  BY <1>3 DEF NoViewRefused, NoViewTwin, ViewsOnlyGrow, Convertible, NoViews
<1>8. fresh = <<>> /\ [Next]_vars => (fresh = <<>>)'
  BY <1>6
<1>9. Spec => [](NoViewRefused /\ NoViewTwin /\ ViewsOnlyGrow)
  BY <1>5, <1>7, <1>8, PTL DEF Spec
<1> QED
  BY <1>2, <1>9

\* Then no row of a commit is ever lost or made up, whatever its ids and keys,
COROLLARY RowsLastWithoutViews == NoViews => (Spec => []RowsOfCommits)
<1> SUFFICES ASSUME NoViews PROVE Spec => []RowsOfCommits
  OBVIOUS
<1>1. Spec => [](NoViewRefused /\ NoViewTwin /\ ViewsOnlyGrow)
  BY WithoutViews
<1>2. Spec /\ []NoViewTwin => []RowsOfCommits
  BY WithoutViews, RowsLast
<1> QED
  BY <1>1, <1>2, PTL

\* old ids stay good,
COROLLARY OldIdsWithoutViews ==
  NoViews /\ Accepts({}) /\ RowInEveryCommit => (Spec => []OldIdsLead)
<1> SUFFICES ASSUME NoViews, Accepts({}), RowInEveryCommit PROVE Spec => []OldIdsLead
  OBVIOUS
<1>1. Spec => [](NoViewRefused /\ NoViewTwin /\ ViewsOnlyGrow)
  BY WithoutViews
<1>2. Spec /\ []NoViewRefused /\ []NoViewTwin => []OldIdsLead
  BY WithoutViews, OldIdsStayGood
<1> QED
  BY <1>1, <1>2, PTL

\* and no assert can fail.
COROLLARY NoAssertWithoutViews ==
  NoViews /\ Accepts({}) /\ RowInEveryCommit => (Spec => []NoAssertFails)
<1> SUFFICES ASSUME NoViews, Accepts({}), RowInEveryCommit PROVE Spec => []NoAssertFails
  OBVIOUS
<1>1. Spec => [](NoViewRefused /\ NoViewTwin /\ ViewsOnlyGrow)
  BY WithoutViews
<1>2. Spec /\ []NoViewRefused /\ []NoViewTwin /\ []ViewsOnlyGrow => []NoAssertFails
  BY WithoutViews, NoAssertEverFails
<1> QED
  BY <1>1, <1>2, PTL

-----------------------------------------------------------------------------
(* Rows with equal cells are merged. *)

TwinsJoined(tbls, can, uns) ==
  \A t \in Table : Schema[t].memoized =>
    \A q, r \in DOMAIN tbls[t] :
      tbls[t][q] = tbls[t][r] => Lookup(Joined(can, uns), q) = Lookup(Joined(can, uns), r)

Twinned == pc \in Busy \cup {"idle"} => TwinsJoined(rows, canon, unions)

\* The same of the state to go back to
TwinnedThen ==
  pc \notin {"idle", "unreadable"} => TwinsJoined(before, snap.canon, snap.unions)

\* Staging a union keeps together what was together, and brings its two ids together.
LEMMA JoinedMore ==
  ASSUME NEW I \in SUBSET RowId, NEW can, CanonIn(can, I), NEW uns, uns \in Seq(I \X I),
         NEW pair, pair \in I \X I, NEW old, old = Joined(can, uns),
         NEW new, new = Joined(can, Append(uns, pair))
  PROVE  /\ Lookup(new, pair[1]) = Lookup(new, pair[2])
         /\ \A q, r : Lookup(old, q) = Lookup(old, r) => Lookup(new, q) = Lookup(new, r)
<1>1. PICK s, w : /\ s = FoldLeft(Unite, [canon |-> can, displaced |-> <<>>], uns)
                  /\ w = FoldLeft(Unite, [canon |-> can, displaced |-> <<>>], Append(uns, pair))
  OBVIOUS
<1>2. w = Unite(s, pair)
  <2>0. uns \in Seq(I \X I)
    OBVIOUS
  <2>1. PICK v : v = [canon |-> can, displaced |-> <<>>]
    OBVIOUS
  <2>2. s = Uniting!Fold(v, uns) /\ w = Uniting!Fold(v, Append(uns, pair))
    BY <1>1, <2>1, UniteFold
  <2> QED
    BY <2>0, <2>2, Uniting!FoldAppend
<1>3. CanonIn(s.canon, I) /\ s.canon = old /\ w.canon = new
  BY <1>1, UniteAllLooks DEF Joined
<1>4. PICK one, other : one = Lookup(old, pair[1]) /\ other = Lookup(old, pair[2])
  OBVIOUS
<1>5. PICK low : Moves(s, w, one, other, low)
  BY <1>2, <1>3, <1>4, UniteMoves
<1> QED
  BY <1>3, <1>4, <1>5, Coarser DEF Moves

\* insert_row stages the union of a new row with the first of its twins, and they are
\* all merged already.
LEMMA InsertTwins ==
  ASSUME DictOK(dict), TablesIn(rows, RowId), CanonIn(canon, RowId),
         unions \in Seq(RowId \X RowId), NEW t \in Table, NEW r \in RowId, NEW cells,
         InsertRow(t, r, cells), TwinsJoined(rows, canon, unions)
  PROVE  TwinsJoined(rows', canon, unions')
<1>1. CASE UNCHANGED <<rows, unions>>
  BY <1>1
<1>2. CASE ~UNCHANGED <<rows, unions>>
  <2>1. /\ r \notin DOMAIN rows[t] /\ rows'[t] = With(rows[t], r, cells)
        /\ \A u \in Table \ {t} : rows'[u] = rows[u]
        /\ unions' = IF Twins(t, cells) = {} THEN unions
                     ELSE Append(unions, <<FirstTwin(t, cells), r>>)
    <3>1. /\ r \notin DOMAIN rows[t] /\ rows' = [rows EXCEPT ![t] = With(@, r, cells)]
          /\ unions' = IF Twins(t, cells) = {} THEN unions
                       ELSE Append(unions, <<FirstTwin(t, cells), r>>)
      BY <1>2 DEF InsertRow
    <3> QED
      BY <3>1 DEF TablesIn, PerTable, IsFcn
  <2>2. PICK old, new : old = Joined(canon, unions) /\ new = Joined(canon, unions')
    OBVIOUS
  <2>3. /\ DOMAIN rows'[t] = DOMAIN rows[t] \cup {r} /\ rows'[t][r] = cells
        /\ \A q \in DOMAIN rows[t] : rows'[t][q] = rows[t][q]
    BY <2>1 DEF With
  <2>4. \A q, s : Lookup(old, q) = Lookup(old, s) => Lookup(new, q) = Lookup(new, s)
    <3>1. CASE Twins(t, cells) = {}
      BY <2>1, <2>2, <3>1
    <3>2. CASE Twins(t, cells) # {}
      <4>1. PICK p : p = <<FirstTwin(t, cells), r>>
        OBVIOUS
      <4>2. p \in RowId \X RowId
        BY <3>2, <4>1, TwinFound DEF TablesIn, TableIn
      <4> QED
        BY <2>1, <2>2, <3>2, <4>1, <4>2, JoinedMore
    <3> QED
      BY <3>1, <3>2
  <2>5. ASSUME Schema[t].memoized, NEW q \in DOMAIN rows[t], rows[t][q] = cells
        PROVE  Lookup(new, q) = Lookup(new, r)
    <3>1. PICK f, p : f = FirstTwin(t, cells) /\ p = <<f, r>>
      OBVIOUS
    <3>2. Twins(t, cells) # {}
      BY <2>5 DEF Twins
    <3>3. f \in DOMAIN rows[t] /\ rows[t][f] = cells /\ p \in RowId \X RowId
      BY <3>1, <3>2, TwinFound DEF TablesIn, TableIn
    <3>4. Lookup(new, p[1]) = Lookup(new, p[2])
      BY <2>1, <2>2, <3>1, <3>2, <3>3, JoinedMore
    <3>5. Lookup(old, f) = Lookup(old, q)
      BY <2>2, <2>5, <3>3 DEF TwinsJoined
    <3> QED
      BY <2>4, <3>1, <3>4, <3>5
  <2>6. ASSUME NEW u \in Table, Schema[u].memoized,
               NEW q \in DOMAIN rows'[u], NEW s \in DOMAIN rows'[u], rows'[u][q] = rows'[u][s]
        PROVE  Lookup(new, q) = Lookup(new, s)
    <3>1. CASE q \in DOMAIN rows[u] /\ s \in DOMAIN rows[u]
      <4>1. rows[u][q] = rows[u][s]
        BY <2>1, <2>3, <2>6, <3>1
      <4> QED
        BY <2>2, <2>4, <2>6, <3>1, <4>1 DEF TwinsJoined
    <3>2. CASE u = t /\ (q = r \/ s = r)
      BY <2>3, <2>5, <2>6, <3>2
    <3> QED
      BY <2>1, <2>3, <3>1, <3>2
  <2> QED
    BY <2>2, <2>6 DEF TwinsJoined
<1> QED
  BY <1>1, <1>2

\* A removal leaves fewer rows.
LEMMA RemoveTwins ==
  ASSUME TablesIn(rows, RowId), LogsOK(undo), NEW t \in Table, NEW r,
         r \in DOMAIN rows[t], RemoveRow(t, r), TwinsJoined(rows, canon, unions)
  PROVE  TwinsJoined(rows', canon, unions')
<1>1. /\ UNCHANGED unions
      /\ DOMAIN rows'[t] = DOMAIN rows[t] \ {r}
      /\ \A s \in DOMAIN rows'[t] : rows'[t][s] = rows[t][s]
      /\ \A u \in Table \ {t} : rows'[u] = rows[u]
  BY RemoveKeeps
<1> QED
  BY <1>1 DEF TwinsJoined

\* What the state to go back to is
LEMMA TwinnedThenStep ==
  ASSUME Twinned, TwinnedThen, [Next]_vars
  PROVE  TwinnedThen'
<1>1. ASSUME pc = "idle", Snapshot PROVE TwinnedThen'
  BY <1>1 DEF Snapshot, Twinned, TwinnedThen
<1>2. ASSUME UNCHANGED <<snap, before>>, pc \notin {"idle", "unreadable"}
      PROVE  TwinnedThen'
  BY <1>2 DEF TwinnedThen
<1>3. CASE UNCHANGED vars
  BY <1>3 DEF vars, TwinnedThen
<1>4. ASSUME NEW c \in Commit, Begin(c) \/ BeginRefused(c) PROVE TwinnedThen'
  BY <1>1, <1>4 DEF Begin, BeginRefused, Takes
<1>5. ASSUME NEW t \in Table, TakeTable(t) PROVE TwinnedThen'
  BY <1>2, <1>5 DEF TakeTable
<1>6. CASE ApplyOp \/ LeaveTable \/ ApplyUnions \/ Rebuild
  BY <1>2, <1>6 DEF ApplyOp, LeaveTable, ApplyUnions, Rebuild, local
<1>7. CASE CheckAccepted \/ CheckRejected \/ Derive
  BY <1>2, <1>7 DEF CheckAccepted, CheckRejected, Derive, local
<1>8. CASE Record \/ Rollback \/ Reload
  BY <1>8 DEF Record, Rollback, Reload, TwinnedThen
<1> QED
  BY <1>3, <1>4, <1>5, <1>6, <1>7, <1>8 DEF Next, Work

\* Every step merges rows with equal cells, or keeps them merged.
LEMMA TwinnedStep ==
  ASSUME Base, Base', UndoRestores, Twinned, TwinnedThen, [Next]_vars
  PROVE  Twinned' /\ TwinnedThen'
<1>0. TwinnedThen'
  BY TwinnedThenStep
<1>1. ASSUME UNCHANGED <<rows, canon, unions>>, pc \in Busy \cup {"idle"} PROVE Twinned'
  BY <1>1 DEF Twinned
<1>2. CASE UNCHANGED vars
  BY <1>0, <1>2 DEF vars, Twinned
<1>3. ASSUME NEW c \in Commit, Begin(c) \/ BeginRefused(c) PROVE Twinned'
  BY <1>1, <1>3 DEF Begin, BeginRefused, Takes, rowing
<1>4. ASSUME NEW t \in Table, TakeTable(t) PROVE Twinned'
  BY <1>1, <1>4 DEF TakeTable, rowing, Busy
<1>5. CASE LeaveTable \/ Rebuild \/ CheckAccepted \/ CheckRejected \/ Record
  BY <1>0, <1>1, <1>5 DEF LeaveTable, Rebuild, CheckAccepted, CheckRejected, Record, rowing, Busy
<1>6. CASE ApplyOp
  <2>1. PICK t, op : t = table /\ op = Head(staged[table])
    OBVIOUS
  <2>2. /\ t \in Table /\ pc = "apply" /\ op.id \in RowId /\ canon' = canon
        /\ TwinsJoined(rows, canon, unions)
        /\ \/ InsertRow(t, op.id, op.cells)
           \/ RemoveRow(t, op.id) /\ op.id \in DOMAIN rows[t]
    BY <1>6, <2>1, NextOp DEF ApplyOp, Twinned, Busy, UpdateIn
  <2>3. TwinsJoined(rows', canon, unions')
    BY <2>2, InsertTwins, RemoveTwins DEF Base, ShapeNow, Control
  <2> QED
    BY <1>0, <2>2, <2>3 DEF Twinned
<1>7. CASE ApplyUnions
  <2>1. pc = "apply" /\ UNCHANGED rows /\ unions' = <<>> /\ displaced = <<>>
    BY <1>7 DEF ApplyUnions, Base, Control
  <2>2. canon' = Joined(canon, unions)
    BY <1>7, <2>1 DEF ApplyUnions, Joined
  <2> QED
    BY <1>0, <2>1, <2>2, JoinedEmpty DEF Twinned, TwinsJoined, Busy
<1>8. CASE Derive
  <2>1. PICK x : x = Head(fresh)
    OBVIOUS
  <2>2. /\ x.table \in Table /\ InsertRow(x.table, x.id, x.cells) /\ x.id \in RowId
        /\ pc = "derive" /\ canon' = canon /\ TwinsJoined(rows, canon, unions)
    BY <1>8, <2>1, NextRow DEF Derive, NewRowIn, Twinned, Busy
  <2>3. TwinsJoined(rows', canon, unions')
    BY <2>2, InsertTwins DEF Base, ShapeNow, Control
  <2> QED
    BY <1>0, <2>2, <2>3 DEF Twinned
<1>9. CASE Rollback
  <2>1. rows' = before /\ canon' = snap.canon /\ unions' = snap.unions /\ pc = "failed"
    BY <1>9, BackToBefore DEF Rollback, RestoreRowing
  <2> QED
    BY <1>0, <2>1 DEF Twinned, TwinnedThen
<1>10. CASE Reload
  <2>1. \A t \in Table : DOMAIN rows'[t] = {}
    BY <1>10, EachTableIs, EmptyIsSeq DEF Reload, Empty, EmptyFun
  <2> QED
    BY <1>0, <2>1 DEF Twinned, TwinsJoined
<1> QED
  BY <1>0, <1>2, <1>3, <1>4, <1>5, <1>6, <1>7, <1>8, <1>9, <1>10 DEF Next, Work

\* They hold in every reachable state.
LEMMA TwinnedHolds == ViewsClosed => (Spec => []Twinned)
<1> SUFFICES ASSUME ViewsClosed PROVE Spec => []Twinned
  OBVIOUS
<1>1. Init => Twinned /\ TwinnedThen
  <2> SUFFICES ASSUME Init PROVE Twinned /\ TwinnedThen
    OBVIOUS
  <2>1. \A t \in Table : DOMAIN rows[t] = {}
    BY EachTableIs, EmptyIsSeq DEF Init, Empty, EmptyFun
  <2> QED
    BY <2>1 DEF Twinned, TwinnedThen, TwinsJoined, Init
<1>2. Base /\ UndoRestores /\ Base' /\ Twinned /\ TwinnedThen /\ [Next]_vars
      => Twinned' /\ TwinnedThen'
  BY TwinnedStep
<1> QED
  BY <1>1, <1>2, BaseHolds, PTL DEF Spec

\* Structural identity: whatever is merged and rewritten, between commits no two rows of a
\* structural table have the same cells.
OneRowPerTerm ==
  pc = "idle" =>
    \A t \in Table : Schema[t].memoized =>
      \A q, r \in DOMAIN rows[t] : rows[t][q] = rows[t][r] => q = r

THEOREM TermsStayUnique == ViewsClosed => (Spec /\ []NoViewTwin => []OneRowPerTerm)
<1> SUFFICES ASSUME ViewsClosed PROVE Spec /\ []NoViewTwin => []OneRowPerTerm
  OBVIOUS
<1>1. Base /\ Merging /\ NoUnions /\ Twinned => OneRowPerTerm
  <2> SUFFICES ASSUME Base, Merging, NoUnions, Twinned, pc = "idle",
                      NEW t \in Table, Schema[t].memoized,
                      NEW q \in DOMAIN rows[t], NEW r \in DOMAIN rows[t], rows[t][q] = rows[t][r]
               PROVE  q = r
    BY DEF OneRowPerTerm
  <2>1. unions = <<>> /\ TwinsJoined(rows, canon, unions)
    BY DEF NoUnions, Twinned
  <2>2. Lookup(canon, q) = Lookup(canon, r)
    BY <2>1, JoinedEmpty DEF TwinsJoined
  <2> QED
    BY <2>2, AliveAtRest
<1>2. Spec => [](Base /\ Merging) /\ []Twinned
  BY MergingHolds, TwinnedHolds, PTL
<1>3. Init => NoUnions
  BY DEF Init, Empty, NoSnap, NoUnions
<1>4. NoUnions /\ NoViewTwin /\ [Next]_vars => NoUnions'
  BY NoUnionsStep
<1> QED
  BY <1>1, <1>2, <1>3, <1>4, BaseHolds, PTL DEF Spec

-----------------------------------------------------------------------------
(***************************************************************************)
(* Rows refer to canonical ids.  A rewriting makes the cells of a row      *)
(* canonical; insert_row stores them as they are.  So a commit must not    *)
(* bring in an id that had been merged away before: with such an id the    *)
(* contents do depend on the order of commits.                             *)
(***************************************************************************)

\* The tables that commits write to, and those that views derive rows of
WrittenTables == UNION {{Ops[c][k].table : k \in DOMAIN Ops[c]} : c \in Commit}
IsView(t) == \E db : \E y \in DOMAIN Derived(db) : y[1] = t

\* No table is both, and rows of commits refer to rows of commits.
CommitsApart ==
  /\ \A t \in WrittenTables : ~IsView(t)
  /\ \A c \in Commit : \A k \in DOMAIN Ops[c] : \A i \in Schema[Ops[c][k].table].ids :
       Ops[c][k].cells[i] \in Written(Commit)

\* The rows of other commits that a commit refers to have not been merged away when it
\* begins.
NothingStale ==
  pc \in Busy =>
    \A k \in DOMAIN Ops[current] : \A i \in Schema[Ops[current][k].table].ids :
      LET q == Ops[current][k].cells[i]
      IN  q[1] = current \/ Lookup(snap.canon, q) = q

FromViews == \A x \in Range(fresh) : IsView(x.table)

\* Stored rows are in canonical form, or a deletion is staged; added ones are too.
Refers(can, t, tbl, s) ==
  /\ \A r \in DOMAIN tbl : \/ CellsBy(can, t, tbl[r]) = tbl[r]
                           \/ \E op \in Range(s) : op.kind = "delete" /\ op.id = r
  /\ \A op \in Range(s) : op.kind = "add" => CellsBy(can, t, op.cells) = op.cells

\* Before a rebuild, the ids in a row are canonical or have just been displaced.
ReferringIn(S) ==
  \A t \in S :
    /\ pc = "rebuild" =>
         \A r \in DOMAIN rows[t] :
           /\ IsFcn(rows[t][r])
           /\ \A i \in Schema[t].ids : \/ Canonical(rows[t][r][i]) = rows[t][r][i]
                                       \/ rows[t][r][i] \in Range(displaced)
    /\ pc \in {"apply", "check", "derive", "idle"} => Refers(canon, t, rows[t], staged[t])

\* The same of the state to go back to
ReferredThen(S) ==
  pc \notin {"idle", "unreadable"} =>
    \A t \in S : Refers(snap.canon, t, before[t], <<>>)

\* Of the tables that commits write to
Referring == ReferringIn(WrittenTables)

\* The rows that coln-query reports are in canonical form.
FreshRefers(S) ==
  pc = "derive" => \A x \in Range(fresh) :
    x.table \in S => CellsBy(canon, x.table, x.cells) = x.cells

\* Cells are canonical when each id among them is.
LEMMA CellsStand ==
  ASSUME NEW can, NEW t, NEW cells
  PROVE  /\ CellsBy(can, t, cells) = cells =>
              /\ IsFcn(cells)
              /\ \A i \in Schema[t].ids \cap DOMAIN cells : Lookup(can, cells[i]) = cells[i]
         /\ IsFcn(cells) /\ (\A i \in Schema[t].ids \cap DOMAIN cells :
                               Lookup(can, cells[i]) = cells[i])
              => CellsBy(can, t, cells) = cells
<1>1. PICK w : w = CellsBy(can, t, cells)
  OBVIOUS
<1>2. /\ DOMAIN w = DOMAIN cells /\ w = [i \in DOMAIN w |-> w[i]]
      /\ \A i \in DOMAIN cells :
           w[i] = IF i \in Schema[t].ids THEN Lookup(can, cells[i]) ELSE cells[i]
  BY <1>1 DEF CellsBy
<1>3. ASSUME w = cells
      PROVE  /\ IsFcn(cells)
             /\ \A i \in Schema[t].ids \cap DOMAIN cells : Lookup(can, cells[i]) = cells[i]
  BY <1>2, <1>3 DEF IsFcn
<1>4. ASSUME IsFcn(cells),
             \A i \in Schema[t].ids \cap DOMAIN cells : Lookup(can, cells[i]) = cells[i]
      PROVE  w = cells
  <2>1. \A i \in DOMAIN cells : w[i] = cells[i]
    BY <1>2, <1>4
  <2> QED
    BY <1>2, <1>4, <2>1 DEF IsFcn
<1> QED
  BY <1>1, <1>3, <1>4

\* Written tables are tables.
LEMMA WrittenAre ==
  /\ WrittenTables \subseteq Table
  /\ \A c \in Commit : \A k \in DOMAIN Ops[c] : Ops[c][k].table \in WrittenTables
BY OpsAre DEF WrittenTables

\* With nothing staged, every row stands in canonical form.
LEMMA RefersNone ==
  ASSUME NEW can, NEW t, NEW tbl
  PROVE  Refers(can, t, tbl, <<>>) <=> \A r \in DOMAIN tbl : CellsBy(can, t, tbl[r]) = tbl[r]
BY EmptyIsSeq DEF Refers

\* Rows that coln-query reports are views'.
LEMMA FromViewsStep ==
  ASSUME Base, FromViews, [Next]_vars
  PROVE  FromViews'
<1>1. CASE UNCHANGED fresh
  BY <1>1 DEF FromViews
<1>2. ASSUME NEW c \in Commit, Begin(c) \/ BeginRefused(c) PROVE FromViews'
  BY <1>1, <1>2 DEF Begin, BeginRefused
<1>3. ASSUME NEW t \in Table, TakeTable(t) PROVE FromViews'
  BY <1>1, <1>3 DEF TakeTable
<1>4. CASE ApplyOp \/ LeaveTable \/ ApplyUnions \/ Rebuild \/ CheckRejected \/ UNCHANGED vars
  BY <1>1, <1>4 DEF ApplyOp, LeaveTable, ApplyUnions, Rebuild, CheckRejected, local, vars
<1>5. CASE CheckAccepted
  <2>1. PICK old, new : /\ new = Derived(Support(Feed(cq, delta)))
                        /\ fresh' \in NewRows(Gained(old, new))
    BY <1>5 DEF CheckAccepted
  <2>2. PICK order \in Bijection(1 .. Cardinality(Gained(old, new)), Gained(old, new)) :
          fresh' = [i \in DOMAIN order |-> [table |-> order[i][1], cells |-> order[i][2],
                                            id |-> <<current, Len(Ops[current]) + i>>]]
    BY <2>1 DEF NewRows
  <2>3. \A i \in DOMAIN order : order[i] \in Gained(old, new)
    BY <2>2 DEF Bijection, Injection
  <2>4. \A i \in DOMAIN order : order[i] \in DOMAIN new
    BY <2>3 DEF Gained
  <2>5. \A i \in DOMAIN fresh' : fresh'[i].table = order[i][1] /\ i \in DOMAIN order
    BY <2>2
  <2>6. \A i \in DOMAIN fresh' : IsView(fresh'[i].table)
    BY <2>1, <2>4, <2>5 DEF IsView
  <2> QED
    BY <2>6 DEF FromViews, Range
<1>6. CASE Derive
  <2>1. IsSeq(fresh) /\ fresh # <<>> /\ fresh' = Tail(fresh)
    BY <1>6 DEF Derive, Base, ShapeNow
  <2> QED
    BY <2>1, TailIsSeq DEF FromViews
<1>7. CASE Record \/ Rollback
  BY <1>7, EmptyIsSeq DEF Record, Rollback, DropLocals, FromViews
<1>8. CASE Reload
  BY <1>1, <1>8 DEF Reload, local
<1> QED
  BY <1>2, <1>3, <1>4, <1>5, <1>6, <1>7, <1>8 DEF Next, Work

\* A staged update is carried out: a row in canonical form comes in, or one goes.
LEMMA ApplyOpRefers ==
  ASSUME NEW S \in SUBSET Table, Base, ReferringIn(S), ApplyOp, pc' # "failed", pc' # "panicked"
  PROVE  ReferringIn(S)'
<1>1. PICK t, op : t = table /\ op = Head(staged[table])
  OBVIOUS
<1>2. /\ t \in Table /\ pc = "apply" /\ staged[t] # <<>> /\ IsSeq(staged[t])
      /\ op = staged[t][1] /\ staged'[t] = Tail(staged[t])
      /\ \/ op.kind = "add" /\ InsertRow(t, op.id, op.cells)
         \/ op.kind = "delete" /\ RemoveRow(t, op.id) /\ op.id \in DOMAIN rows[t]
  BY <1>1, NextOp
<1>3. canon' = canon /\ \A u \in Table \ {t} : staged'[u] = staged[u]
  BY <1>1, <1>2 DEF ApplyOp, Base, ShapeNow, PerTable, IsFcn
<1>4. TablesIn(rows, RowId) /\ LogsOK(undo)
  BY DEF Base, ShapeNow
<1>5. pc' = "apply" /\ \A u \in Table \ {t} : rows'[u] = rows[u]
  <2>1. CASE op.kind = "add"
    BY <1>2, <1>4, <2>1, InsertIs
  <2>2. CASE op.kind # "add"
    BY <1>2, <1>4, <2>2, RemoveKeeps
  <2> QED
    BY <2>1, <2>2
<1>6. PICK s, u : s = staged[t] /\ u = Tail(staged[t])
  OBVIOUS
<1>7. Range(s) = {op} \cup Range(u)
  BY <1>2, <1>6, AddsTail
<1>8. ASSUME t \in S PROVE Refers(canon, t, rows'[t], u)
  <2>1. Refers(canon, t, rows[t], s)
    BY <1>2, <1>6, <1>8 DEF ReferringIn
  <2>2. CASE op.kind = "add"
    <3>1. rows'[t] = With(rows[t], op.id, op.cells)
      BY <1>2, <1>4, <2>2, InsertIs
    <3>2. /\ DOMAIN rows'[t] = DOMAIN rows[t] \cup {op.id}
          /\ \A r \in DOMAIN rows'[t] :
               rows'[t][r] = IF r = op.id THEN op.cells ELSE rows[t][r]
      BY <3>1 DEF With
    <3>3. CellsBy(canon, t, op.cells) = op.cells
      BY <1>7, <2>1, <2>2 DEF Refers
    <3> QED
      BY <1>7, <2>1, <2>2, <3>2, <3>3 DEF Refers
  <2>3. CASE op.kind # "add"
    <3>1. DOMAIN rows'[t] = DOMAIN rows[t] \ {op.id}
          /\ \A r \in DOMAIN rows'[t] : rows'[t][r] = rows[t][r]
      BY <1>2, <1>4, <2>3, RemoveKeeps
    <3> QED
      BY <1>7, <2>1, <3>1 DEF Refers
  <2> QED
    BY <2>2, <2>3
<1>9. ASSUME NEW v \in S PROVE Refers(canon', v, rows'[v], staged'[v])
  <2>1. CASE v = t
    BY <1>2, <1>3, <1>6, <1>8, <2>1
  <2>2. CASE v # t
    <3>1. v \in Table
      BY WrittenAre
    <3> QED
      BY <1>2, <1>3, <1>5, <2>2, <3>1 DEF ReferringIn
  <2> QED
    BY <2>1, <2>2
<1> QED
  BY <1>5, <1>9 DEF ReferringIn

\* The staged unions are applied: an id that is no longer canonical has been displaced.
LEMMA ApplyUnionsRefers ==
  ASSUME NEW S \in SUBSET Table, Base, Merging, ReferringIn(S), ApplyUnions
  PROVE  ReferringIn(S)'
<1>1. /\ pc = "apply" /\ UNCHANGED <<rows, staged>>
      /\ pc' \in {"check", "rebuild"} /\ (pc' = "check" <=> displaced' = <<>>)
  BY DEF ApplyUnions
<1>2. displaced = <<>> /\ unions \in Seq(RowId \X RowId) /\ CanonIn(canon, RowId)
      /\ TablesIn(rows, RowId)
  BY <1>1 DEF Base, Control, ShapeNow
<1>3. \A t \in Table : staged[t] = <<>>
  BY MarkerAssumption DEF ApplyUnions, Base, StagedFits
<1>4. \A r : Lookup(canon, r) = r => Lookup(canon', r) = r \/ r \in Range(displaced')
  BY ApplyUnionsMerges
<1>7. ASSUME NEW t \in S, NEW r \in DOMAIN rows[t]
      PROVE  /\ IsFcn(rows[t][r]) /\ Schema[t].ids \subseteq DOMAIN rows[t][r]
             /\ \A i \in Schema[t].ids : \/ Lookup(canon', rows[t][r][i]) = rows[t][r][i]
                                         \/ rows[t][r][i] \in Range(displaced')
  <2>1. t \in Table
    BY WrittenAre
  <2>2. CellsBy(canon, t, rows[t][r]) = rows[t][r]
    BY <1>1, <1>3, <2>1, RefersNone DEF ReferringIn
  <2>3. Schema[t].ids \subseteq DOMAIN rows[t][r]
    BY <1>2, <2>1 DEF TablesIn, TableIn, CellsIn
  <2> QED
    BY <1>4, <2>2, <2>3, CellsStand
<1>8. CASE pc' = "rebuild"
  BY <1>1, <1>7, <1>8 DEF ReferringIn, Canonical
<1>9. CASE pc' = "check"
  <2>1. ASSUME NEW t \in S, NEW r \in DOMAIN rows[t]
        PROVE  CellsBy(canon', t, rows[t][r]) = rows[t][r]
    <3>1. \A i \in Schema[t].ids : Lookup(canon', rows[t][r][i]) = rows[t][r][i]
      BY <1>1, <1>7, <1>9, EmptyIsSeq
    <3> QED
      BY <1>7, <3>1, CellsStand
  <2>2. ASSUME NEW t \in S PROVE Refers(canon', t, rows'[t], staged'[t])
    <3>1. t \in Table
      BY WrittenAre
    <3> QED
      BY <1>1, <1>3, <2>1, <3>1, RefersNone
  <2> QED
    BY <1>9, <2>2 DEF ReferringIn
<1> QED
  BY <1>1, <1>8, <1>9

\* The rewritten rows are in canonical form, the others need no rewriting.
LEMMA RebuildRefers ==
  ASSUME NEW S \in SUBSET Table, Base, Merging, ReferringIn(S), Rebuild
  PROVE  ReferringIn(S)'
<1>1. /\ pc = "rebuild" /\ pc' = "apply" /\ UNCHANGED <<rows, canon>>
      /\ \A t \in Table : staged'[t] = RebuildOps(t)
  BY DEF Rebuild
<1>2. CanonIn(canon, RowId) /\ DictOK(dict) /\ TablesIn(rows, RowId)
  BY DEF Base, ShapeNow, Control
<1>3. ASSUME NEW t \in S PROVE Refers(canon, t, rows[t], RebuildOps(t))
  <2>1. t \in Table /\ TableIn(t, rows[t], RowId)
    BY <1>2, WrittenAre DEF TablesIn
  <2>2. PICK s : s = RebuildOps(t)
    OBVIOUS
  <2>3. Rewrites(t, s, Affected(t))
    BY <1>1, <1>2, <2>1, <2>2, DisplacedMoves, RebuildRewrites
  <2>4. ASSUME NEW op \in Range(s), op.kind = "add"
        PROVE  CellsBy(canon, t, op.cells) = op.cells
    <3>1. PICK cells : op.cells = CanonicalCells(t, cells)
      BY <2>3, <2>4 DEF Rewrites, Range
    <3>2. CellsBy(canon, t, op.cells) = CellsBy(canon, t, cells)
      BY <1>2, <3>1, CellsTwice
    <3> QED
      BY <3>1, <3>2 DEF CellsBy, CanonicalCells, Canonical
  <2>5. ASSUME NEW r \in DOMAIN rows[t]
        PROVE  \/ CellsBy(canon, t, rows[t][r]) = rows[t][r]
               \/ \E op \in Range(s) : op.kind = "delete" /\ op.id = r
    <3>1. CASE r \in Affected(t)
      BY <2>3, <3>1 DEF Rewrites, Range
    <3>2. CASE r \notin Affected(t)
      <4>1. \A i \in Schema[t].ids : Lookup(canon, rows[t][r][i]) = rows[t][r][i]
        BY <1>1, <3>2 DEF Affected, ReferringIn, Canonical
      <4>2. IsFcn(rows[t][r])
        BY <1>1 DEF ReferringIn
      <4> QED
        BY <4>1, <4>2, CellsStand
    <3> QED
      BY <3>1, <3>2
  <2> QED
    BY <2>2, <2>4, <2>5 DEF Refers
<1>4. ASSUME NEW t \in S PROVE Refers(canon', t, rows'[t], staged'[t])
  BY <1>1, <1>3, WrittenAre
<1> QED
  BY <1>1, <1>4 DEF ReferringIn

\* A commit that refers to nothing stale brings in rows in canonical form.
LEMMA BeginRefers ==
  ASSUME NEW S \in SUBSET Table, Base, Merging, ReferringIn(S), NEW c \in Commit, Begin(c), NothingStale'
  PROVE  ReferringIn(S)'
<1>1. /\ pc = "idle" /\ pc' = "apply" /\ c \notin applied /\ current' = c
      /\ UNCHANGED <<rows, canon>> /\ snap'.canon = canon
      /\ \A t \in Table : staged'[t] = StagedOps(c, t)
  BY DEF Begin, Takes, rowing, Snapshot
<1>2. Coherent(Alive, canon, unions, Taken) /\ Taken = OfCommits(applied)
  BY <1>1, MergingIs DEF Taken, Busy
<1>3. ASSUME NEW k \in DOMAIN Ops[c], NEW t, t = Ops[c][k].table
      PROVE  CellsBy(canon, t, Ops[c][k].cells) = Ops[c][k].cells
  <2>1. PICK cells : cells = Ops[c][k].cells
    OBVIOUS
  <2>2. IsFcn(cells)
    BY <2>1, OpsAssumption DEF IsFcn
  <2>3. ASSUME NEW i \in Schema[t].ids PROVE Lookup(canon, cells[i]) = cells[i]
    <3>1. PICK q : q = cells[i]
      OBVIOUS
    <3>2. q[1] = c \/ Lookup(canon, q) = q
      BY <1>1, <1>3, <2>1, <3>1 DEF NothingStale, Busy
    <3>3. CASE q[1] = c
      BY <1>1, <1>2, <3>1, <3>3 DEF Coherent, OfCommits, Lookup
    <3> QED
      BY <3>1, <3>2, <3>3
  <2> QED
    BY <2>1, <2>2, <2>3, CellsStand
<1>4. \A t \in Table : staged[t] = <<>>
  BY <1>1 DEF Base, StagedFits
<1>5. ASSUME NEW t \in S PROVE Refers(canon', t, rows'[t], staged'[t])
  <2>1. t \in Table
    BY WrittenAre
  <2>2. \A r \in DOMAIN rows[t] : CellsBy(canon, t, rows[t][r]) = rows[t][r]
    BY <1>1, <1>4, <2>1, RefersNone DEF ReferringIn
  <2>3. PICK s : s = StagedOps(c, t)
    OBVIOUS
  <2>4. ASSUME NEW op \in Range(s) PROVE CellsBy(canon, t, op.cells) = op.cells
    <3>1. PICK i \in DOMAIN s : op = s[i]
      BY <2>4 DEF Range
    <3>2. PICK k \in DOMAIN Ops[c] : op.cells = Ops[c][k].cells /\ Ops[c][k].table = t
      BY <2>1, <2>3, <3>1, StagedOpsAre
    <3> QED
      BY <1>3, <3>2
  <2>5. Refers(canon, t, rows[t], s)
    BY <2>2, <2>4 DEF Refers
  <2> QED
    BY <1>1, <2>1, <2>3, <2>5
<1> QED
  BY <1>1, <1>5 DEF ReferringIn

\* The rows to go back to are canonical.
LEMMA ReferredThenStep ==
  ASSUME NEW S \in SUBSET Table, Base, ReferringIn(S), ReferredThen(S), [Next]_vars
  PROVE  ReferredThen(S)'
<1>1. ASSUME pc = "idle", Snapshot PROVE ReferredThen(S)'
  <2>1. \A t \in Table : staged[t] = <<>>
    BY <1>1 DEF Base, StagedFits
  <2>2. \A t \in S : Refers(canon, t, rows[t], <<>>)
    BY <1>1, <2>1, WrittenAre DEF ReferringIn
  <2>3. before' = rows /\ snap'.canon = canon
    BY <1>1 DEF Snapshot
  <2> QED
    BY <2>2, <2>3 DEF ReferredThen
<1>2. ASSUME UNCHANGED <<snap, before>>, pc \notin {"idle", "unreadable"}
      PROVE  ReferredThen(S)'
  BY <1>2 DEF ReferredThen
<1>3. CASE UNCHANGED vars
  BY <1>3 DEF vars, ReferredThen
<1>4. ASSUME NEW c \in Commit, Begin(c) \/ BeginRefused(c) PROVE ReferredThen(S)'
  BY <1>1, <1>4 DEF Begin, BeginRefused, Takes
<1>5. ASSUME NEW t \in Table, TakeTable(t) PROVE ReferredThen(S)'
  BY <1>2, <1>5 DEF TakeTable
<1>6. CASE ApplyOp \/ LeaveTable \/ ApplyUnions \/ Rebuild
  BY <1>2, <1>6 DEF ApplyOp, LeaveTable, ApplyUnions, Rebuild, local
<1>7. CASE CheckAccepted \/ CheckRejected \/ Derive
  BY <1>2, <1>7 DEF CheckAccepted, CheckRejected, Derive, local
<1>8. CASE Record \/ Rollback \/ Reload
  BY <1>8 DEF Record, Rollback, Reload, ReferredThen
<1> QED
  BY <1>3, <1>4, <1>5, <1>6, <1>7, <1>8 DEF Next, Work

\* Every step keeps rows referring to canonical ids.
LEMMA ReferringStep ==
  ASSUME NEW S \in SUBSET Table, Base, UndoRestores, Merging, NothingStale', FreshRefers(S),
         ReferringIn(S), ReferredThen(S), [Next]_vars
  PROVE  ReferringIn(S)' /\ ReferredThen(S)'
<1>0. ReferredThen(S)'
  BY ReferredThenStep
<1>1. CASE pc' \notin Busy \cup {"idle"}
  BY <1>0, <1>1 DEF ReferringIn, Busy
<1> SUFFICES ASSUME pc' \in Busy \cup {"idle"} PROVE ReferringIn(S)'
  BY <1>0, <1>1
<1>2. ASSUME UNCHANGED <<rows, staged, canon>>, pc \in {"apply", "check", "derive", "idle"},
             pc' # "rebuild"
      PROVE  ReferringIn(S)'
  BY <1>2 DEF ReferringIn
<1>3. CASE UNCHANGED vars
  BY <1>3 DEF vars, ReferringIn, Canonical
<1>4. ASSUME NEW c \in Commit, Begin(c) \/ BeginRefused(c) PROVE ReferringIn(S)'
  BY <1>4, BeginRefers DEF BeginRefused, Busy
<1>5. ASSUME NEW t \in Table, TakeTable(t) PROVE ReferringIn(S)'
  BY <1>2, <1>5 DEF TakeTable, rowing
<1>6. CASE ApplyOp
  BY <1>6, ApplyOpRefers DEF Busy
<1>7. CASE LeaveTable \/ CheckRejected \/ Record
  BY <1>2, <1>7 DEF LeaveTable, CheckRejected, Record, rowing
<1>8. CASE ApplyUnions \/ Rebuild
  BY <1>8, ApplyUnionsRefers, RebuildRefers
<1>9. CASE CheckAccepted
  BY <1>2, <1>9 DEF CheckAccepted, rowing
<1>10. CASE Derive
  <2>1. PICK x : x = Head(fresh)
    OBVIOUS
  <2>2. /\ x.table \in Table /\ InsertRow(x.table, x.id, x.cells) /\ TablesIn(rows, RowId)
        /\ pc = "derive" /\ UNCHANGED <<staged, canon>>
    BY <1>10, <2>1, NextRow DEF Derive, NewRowIn, Base, ShapeNow
  <2>3. x \in Range(fresh)
    BY <1>10, <2>1, TailIsSeq DEF Derive, Base, ShapeNow
  <2>4. x.table \in S => CellsBy(canon, x.table, x.cells) = x.cells
    BY <2>2, <2>3 DEF FreshRefers
  <2>5. pc' = "derive" /\ \A u \in Table \ {x.table} : rows'[u] = rows[u]
    BY <2>2, InsertIs DEF Busy
  <2>6. PICK v, w : v = rows[x.table] /\ w = rows'[x.table] /\ w = With(v, x.id, x.cells)
    BY <2>2, InsertIs DEF Busy
  <2>8. /\ DOMAIN w = DOMAIN v \cup {x.id}
        /\ \A r \in DOMAIN w : w[r] = IF r = x.id THEN x.cells ELSE v[r]
    BY <2>6 DEF With
  <2>7. ASSUME NEW u \in S PROVE Refers(canon', u, rows'[u], staged'[u])
    <3>1. Refers(canon, u, rows[u], staged[u])
      BY <2>2 DEF ReferringIn
    <3>2. CASE u = x.table
      <4>1. PICK st : st = staged[x.table]
        OBVIOUS
      <4>2. Refers(canon, x.table, v, st)
        BY <2>6, <3>1, <3>2, <4>1
      <4>3. Refers(canon, x.table, w, st)
        BY <2>4, <2>8, <3>2, <4>2 DEF Refers
      <4> QED
        BY <2>2, <2>6, <3>2, <4>1, <4>3
    <3>3. CASE u # x.table
      BY <2>2, <2>5, <3>1, <3>3
    <3> QED
      BY <3>2, <3>3
  <2> QED
    BY <2>5, <2>7 DEF ReferringIn
<1>11. CASE Rollback
  <2>1. /\ rows' = before /\ canon' = snap.canon /\ pc = "failed" /\ pc' = "idle"
        /\ \A t \in Table : staged'[t] = <<>>
    BY <1>11, BackToBefore, EachTableIs DEF Rollback, RestoreRowing, UndoTables, Busy
  <2>2. \A t \in S : Refers(snap.canon, t, before[t], <<>>)
    BY <2>1 DEF ReferredThen
  <2> QED
    BY <2>1, <2>2, WrittenAre DEF ReferringIn
<1>12. CASE Reload
  <2>1. pc' = "idle" /\ \A t \in Table : DOMAIN rows'[t] = {} /\ staged'[t] = <<>>
    BY <1>12, EachTableIs, EmptyIsSeq DEF Reload, Empty, EmptyFun
  <2>2. ASSUME NEW t \in S PROVE Refers(canon', t, rows'[t], staged'[t])
    BY <2>1, WrittenAre, RefersNone
  <2> QED
    BY <2>1, <2>2 DEF ReferringIn
<1> QED
  BY <1>3, <1>4, <1>5, <1>6, <1>7, <1>8, <1>9, <1>10, <1>11, <1>12 DEF Next, Work

\* They hold as long as no commit brings in a stale id.
LEMMA ReferringHolds ==
  ViewsClosed /\ CommitsApart => (Spec /\ []NothingStale => [](FromViews /\ Referring))
<1> SUFFICES ASSUME ViewsClosed, CommitsApart
             PROVE  Spec /\ []NothingStale => [](FromViews /\ Referring)
  OBVIOUS
<1>1. Init => FromViews /\ Referring /\ ReferredThen(WrittenTables)
  <2> SUFFICES ASSUME Init PROVE FromViews /\ Referring /\ ReferredThen(WrittenTables)
    OBVIOUS
  <2>1. pc = "idle" /\ fresh = <<>> /\ \A t \in Table : DOMAIN rows[t] = {} /\ staged[t] = <<>>
    BY EachTableIs, EmptyIsSeq DEF Init, Empty, EmptyFun
  <2>2. ASSUME NEW t \in WrittenTables PROVE Refers(canon, t, rows[t], staged[t])
    BY <2>1, WrittenAre, RefersNone
  <2> QED
    BY <2>1, <2>2, EmptyIsSeq DEF FromViews, Referring, ReferringIn, ReferredThen
<1>2. Base /\ UndoRestores /\ Merging /\ NothingStale' /\ FromViews /\ Referring
        /\ ReferredThen(WrittenTables) /\ [Next]_vars
        => FromViews' /\ Referring' /\ ReferredThen(WrittenTables)'
  <2>1. WrittenTables \in SUBSET Table
    BY WrittenAre
  <2>2. FromViews => FreshRefers(WrittenTables)
    BY DEF FromViews, CommitsApart, FreshRefers
  <2> QED
    BY <2>1, <2>2, FromViewsStep, ReferringStep DEF Referring
<1> QED
  BY <1>1, <1>2, MergingHolds, BaseHolds, PTL DEF Spec

-----------------------------------------------------------------------------
(***************************************************************************)
(* Nothing is merged without need.  Any classification of the rows of      *)
(* commits that is closed under equality of cells puts together what the   *)
(* union-find, and the unions staged, put together.  Rows of views count   *)
(* as one class: no row of a commit refers to them.                        *)
(***************************************************************************)
Class(cl, r) == IF r \in Written(Commit) THEN Lookup(cl, r) ELSE NoCommit
Via(cl, t, cells) ==
  [i \in DOMAIN cells |-> IF i \in Schema[t].ids THEN Class(cl, cells[i]) ELSE cells[i]]

\* Rows of a structural table whose cells are of the same classes are of one class.
IsCongruence(cl, facts) ==
  \A x, y \in facts :
    x[1] = y[1] /\ Schema[x[1]].memoized /\ Via(cl, x[1], x[3]) = Via(cl, y[1], y[3])
      => Class(cl, x[2]) = Class(cl, y[2])

\* What `can' puts together `cl' puts together.
Within(can, cl) == \A q, r : Lookup(can, q) = Lookup(can, r) => Class(cl, q) = Class(cl, r)

\* A row of a commit as `given', up to classes, or a view's
Traced(x, given, cl) ==
  \/ \E g \in given : g[1] = x[1] /\ g[2] = x[2] /\ Via(cl, g[1], g[3]) = Via(cl, x[1], x[3])
  \/ x[2] \notin Written(Commit) /\ IsView(x[1])

Forced(alive, given, can, uns, cl) ==
  /\ Within(can, cl)
  /\ \A p \in Range(uns) : Class(cl, p[1]) = Class(cl, p[2])
  /\ \A x \in alive : Traced(x, given, cl)

Needed ==
  pc \in Busy \cup {"idle"} =>
    \A cl : IsCongruence(cl, Given) => Forced(Alive, Given, canon, unions, cl)

\* The same of the state to go back to
NeededThen ==
  pc \notin {"idle", "unreadable"} =>
    \A cl : IsCongruence(cl, GivenBy(applied)) =>
      Forced(FactsOf(before), GivenBy(applied), snap.canon, snap.unions, cl)

\* One union of ids that belong together
LEMMA UniteWithin ==
  ASSUME NEW I, NEW s, CanonIn(s.canon, I), NEW w, NEW one, NEW other, NEW low,
         Moves(s, w, one, other, low), NEW cl, Within(s.canon, cl),
         Class(cl, one) = Class(cl, other)
  PROVE  Within(w.canon, cl)
<1>1. \A r : Class(cl, Lookup(s.canon, r)) = Class(cl, r)
  BY LookupTwice DEF Within
<1>2. \A r : Class(cl, Lookup(w.canon, r)) = Class(cl, Lookup(s.canon, r))
  BY DEF Moves
<1> QED
  BY <1>1, <1>2 DEF Within

\* All staged unions
LEMMA JoinedWithin ==
  ASSUME NEW I \in SUBSET RowId, NEW can, CanonIn(can, I), NEW pairs \in Seq(I \X I),
         NEW cl, Within(can, cl), \A p \in Range(pairs) : Class(cl, p[1]) = Class(cl, p[2])
  PROVE  Within(Joined(can, pairs), cl)
<1> DEFINE start == [canon |-> can, displaced |-> <<>>]
           T == {p \in Nat \X Classing(I) : CanonIn(p[2].canon, I) /\ Within(p[2].canon, cl)}
<1>1. <<0, start>> \in T
  <2>1. start \in Classing(I) /\ start.canon = can
    BY CanonIsFcn DEF Classing
  <2> HIDE DEF start
  <2> QED
    BY <2>1
<1>2. ASSUME NEW n \in Nat, n < Len(pairs), NEW acc, <<n, acc>> \in T
      PROVE  <<n + 1, Unite(acc, pairs[n+1])>> \in T
  <2>0. PICK pair : pair = pairs[n+1]
    OBVIOUS
  <2>1. PICK w : w = Unite(acc, pair)
    OBVIOUS
  <2>2. /\ pair \in I \X I /\ acc.displaced \in Seq(I) /\ CanonIn(acc.canon, I)
        /\ Within(acc.canon, cl) /\ Class(cl, pair[1]) = Class(cl, pair[2])
    <3>1. Len(pairs) \in Nat /\ n + 1 \in 1 .. Len(pairs)
      BY <1>2
    <3>2. acc \in Classing(I) /\ CanonIn(acc.canon, I) /\ Within(acc.canon, cl)
      BY <1>2
    <3>3. pair \in I \X I /\ pair \in Range(pairs)
      BY <2>0, <3>1, SeqIs
    <3> QED
      BY <3>2, <3>3 DEF Classing
  <2>3. /\ w = [canon |-> w.canon, displaced |-> w.displaced]
        /\ CanonIn(w.canon, I) /\ w.displaced \in Seq(I)
    BY <2>1, <2>2, UniteOne
  <2>4. w \in Classing(I)
    BY <2>3, CanonIsFcn DEF Classing
  <2>5. Within(w.canon, cl)
    <3>1. PICK one, other : one = Lookup(acc.canon, pair[1]) /\ other = Lookup(acc.canon, pair[2])
      OBVIOUS
    <3>2. PICK low : Moves(acc, w, one, other, low)
      BY <2>1, <2>2, <3>1, UniteMoves
    <3>3. Class(cl, one) = Class(cl, pair[1]) /\ Class(cl, other) = Class(cl, pair[2])
      BY <2>2, <3>1, LookupTwice DEF Within
    <3> QED
      BY <2>2, <3>2, <3>3, UniteWithin
  <2> QED
    BY <2>0, <2>1, <2>3, <2>4, <2>5
<1> HIDE DEF T, start
<1>3. <<Len(pairs), Uniting!Fold(start, pairs)>> \in T
  BY <1>1, <1>2, Uniting!FoldInduct
<1>4. PICK v : v = FoldLeft(Unite, start, pairs)
  OBVIOUS
<1>5. <<Len(pairs), v>> \in T
  BY <1>3, <1>4, UniteFold
<1>6. Within(v.canon, cl)
  BY <1>5 DEF T
<1> QED
  BY <1>4, <1>6 DEF start, Joined

\* Rows with equal canonical cells have cells of the same classes.
LEMMA ViaFollows ==
  ASSUME NEW can, NEW cl, Within(can, cl), NEW t, NEW c, NEW d,
         CellsBy(can, t, c) = CellsBy(can, t, d)
  PROVE  Via(cl, t, c) = Via(cl, t, d)
<1>1. PICK f, g : f = CellsBy(can, t, c) /\ g = CellsBy(can, t, d)
  OBVIOUS
<1>2. DOMAIN f = DOMAIN c /\ DOMAIN g = DOMAIN d /\ f = g
  BY <1>1 DEF CellsBy
<1>3. ASSUME NEW i \in DOMAIN c
      PROVE  IF i \in Schema[t].ids THEN Class(cl, c[i]) = Class(cl, d[i]) ELSE c[i] = d[i]
  <2>1. /\ f[i] = IF i \in Schema[t].ids THEN Lookup(can, c[i]) ELSE c[i]
        /\ g[i] = IF i \in Schema[t].ids THEN Lookup(can, d[i]) ELSE d[i]
    BY <1>1, <1>2 DEF CellsBy
  <2> QED
    BY <1>2, <2>1 DEF Within
<1> QED
  BY <1>2, <1>3 DEF Via

\* What was given is of tables that commits write to.
LEMMA GivenTables ==
  ASSUME NEW A \in SUBSET Commit, NEW x \in GivenBy(A)
  PROVE  x[1] \in WrittenTables /\ x[2] \in Written(Commit)
<1>1. PICK c \in A : x \in RowsOf(c)
  BY DEF GivenBy
<1>2. PICK k \in DOMAIN Ops[c] : x = <<Ops[c][k].table, <<c, k>>, Ops[c][k].cells>>
  BY <1>1 DEF RowsOf
<1> QED
  BY <1>2, WrittenAre DEF Written

\* The rows given are those of some commits.
LEMMA GivenFrom ==
  ASSUME Base, pc \in Busy
  PROVE  /\ unions \in Seq(RowId \X RowId)
         /\ \E A \in SUBSET Commit : Given = GivenBy(A)
<1>1. applied \in SUBSET Commit /\ current \in Commit /\ unions \in Seq(RowId \X RowId)
  BY DEF Base, Control, ShapeNow
<1> QED
  BY <1>1 DEF Given

\* Storing a row stages the union of rows that belong together.
LEMMA MovedForced ==
  ASSUME CommitsApart, Moved, NEW A \in SUBSET Commit, NEW given, given = GivenBy(A),
         NEW cl, IsCongruence(cl, given),
         Forced(Alive, given, canon, unions, cl), NEW I, unions \in Seq(I \X I)
  PROVE  Forced(Alive', given, canon', unions', cl)
<1>1. Alive' = Alive /\ canon' = canon /\ StagesTwins(Alive)
  BY DEF Moved
<1>2. CASE UNCHANGED unions
  BY <1>1, <1>2
<1>3. CASE ~UNCHANGED unions
  <2>1. PICK a \in Alive, b \in Alive :
          /\ a[1] = b[1] /\ a[3] = b[3] /\ Schema[a[1]].memoized
          /\ unions' = Append(unions, <<a[2], b[2]>>)
    BY <1>1, <1>3 DEF StagesTwins
  <2>2. Traced(a, given, cl) /\ Traced(b, given, cl)
    BY DEF Forced
  <2>3. Class(cl, a[2]) = Class(cl, b[2])
    <3>1. CASE \E g \in given : g[1] = a[1]
      <4>1. ~IsView(a[1])
        BY <3>1, GivenTables DEF CommitsApart
      <4>2. PICK g \in given :
              g[1] = a[1] /\ g[2] = a[2] /\ Via(cl, g[1], g[3]) = Via(cl, a[1], a[3])
        BY <2>2, <4>1 DEF Traced
      <4>3. PICK h \in given :
              h[1] = b[1] /\ h[2] = b[2] /\ Via(cl, h[1], h[3]) = Via(cl, b[1], b[3])
        BY <2>1, <2>2, <4>1 DEF Traced
      <4> QED
        BY <2>1, <4>2, <4>3 DEF IsCongruence
    <3>2. CASE \A g \in given : g[1] # a[1]
      BY <2>1, <2>2, <3>2 DEF Traced, Class
    <3> QED
      BY <3>1, <3>2
  <2>4. PICK p : p = <<a[2], b[2]>>
    OBVIOUS
  <2>5. Range(unions') = Range(unions) \cup {p}
    <3>1. IsSeq(unions) /\ unions' = Append(unions, p)
      BY <2>1, <2>4, SeqIs
    <3>2. IsSeq(Append(unions, p)) /\ Range(Append(unions, p)) = Range(unions) \cup {p}
      BY <3>1, AppendIsSeq
    <3> QED
      BY <3>1, <3>2
  <2>6. Class(cl, p[1]) = Class(cl, p[2])
    BY <2>3, <2>4
  <2> QED
    BY <1>1, <2>5, <2>6 DEF Forced
<1> QED
  BY <1>2, <1>3

\* Rewritten rows have cells of the same classes.
LEMMA RewrittenForced ==
  ASSUME Rewritten, NEW given, NEW cl, Forced(Alive, given, canon, unions, cl)
  PROVE  Forced(Alive', given, canon', unions', cl)
<1>1. /\ canon' = canon /\ unions' = unions
      /\ \A y \in Alive' : \E x \in Alive :
           x[1] = y[1] /\ x[2] = y[2] /\ CellsBy(canon, x[1], x[3]) = CellsBy(canon, y[1], y[3])
  BY DEF Rewritten
<1>2. ASSUME NEW y \in Alive' PROVE Traced(y, given, cl)
  <2>1. PICK x \in Alive :
          x[1] = y[1] /\ x[2] = y[2] /\ CellsBy(canon, x[1], x[3]) = CellsBy(canon, y[1], y[3])
    BY <1>1
  <2>2. Via(cl, x[1], x[3]) = Via(cl, y[1], y[3])
    BY <2>1, ViaFollows DEF Forced
  <2> QED
    BY <2>1, <2>2 DEF Forced, Traced
<1> QED
  BY <1>1, <1>2 DEF Forced

\* New rows are given, or views'.
LEMMA GrownForced ==
  ASSUME NEW more, Grown(more), NEW given, NEW wrote, wrote \subseteq more,
         \A x \in more : x \in wrote \/ (x[2] \notin Written(Commit) /\ IsView(x[1])),
         NEW cl, Forced(Alive, given, canon, unions, cl)
  PROVE  Forced(Alive', given \cup wrote, canon', unions', cl)
<1>1. Alive' = Alive \cup more /\ canon' = canon /\ unions' = unions
  BY DEF Grown
<1>2. ASSUME NEW x \in Alive' PROVE Traced(x, given \cup wrote, cl)
  <2>1. CASE x \in Alive
    BY <2>1 DEF Forced, Traced
  <2>2. CASE x \in more
    BY <2>2 DEF Traced
  <2> QED
    BY <1>1, <2>1, <2>2
<1> QED
  BY <1>1, <1>2 DEF Forced

\* Fewer rows
LEMMA DroppedForced ==
  ASSUME Dropped, NEW given, NEW cl, Forced(Alive, given, canon, unions, cl)
  PROVE  Forced(Alive', given, canon', unions', cl)
BY DEF Dropped, Forced

\* The staged unions are applied.
LEMMA ApplyUnionsForced ==
  ASSUME Base, Merging, ApplyUnions, NEW given, NEW cl,
         Forced(Alive, given, canon, unions, cl)
  PROVE  Forced(Alive', given, canon', unions', cl)
<1>1. /\ Alive' = Alive /\ canon' = Joined(canon, unions) /\ unions' = <<>>
  BY ApplyUnionsMerges
<1>2. unions \in Seq(RowId \X RowId) /\ CanonIn(canon, RowId)
  BY DEF ApplyUnions, Base, ShapeNow, Control
<1>3. Within(canon', cl)
  BY <1>1, <1>2, JoinedWithin DEF Forced
<1>4. Range(unions') = {}
  BY <1>1, EmptyIsSeq
<1> QED
  BY <1>1, <1>3, <1>4 DEF Forced

\* A commit's rows are given.
LEMMA BeginForced ==
  ASSUME Base, Merging, NEW c \in Commit, Begin(c), Needed
  PROVE  Needed'
<1>1. /\ pc = "idle" /\ pc' = "apply" /\ current' = c /\ applied' = applied
      /\ \A t \in Table : staged'[t] = StagedOps(c, t)
  BY DEF Begin, Takes, rowing
<1>2. Grown(Waiting(staged'))
  BY <1>1, BeginMerges
<1>3. PICK more : more = RowsOf(c)
  OBVIOUS
<1>4. Waiting(staged') = more
  BY <1>1, <1>3, StagesAll
<1>5. Given' = Given \cup more
  BY <1>1, <1>3 DEF Given, GivenBy, Busy
<1>6. ASSUME NEW cl, IsCongruence(cl, Given')
      PROVE  Forced(Alive', Given', canon', unions', cl)
  <2>1. IsCongruence(cl, Given)
    BY <1>5, <1>6 DEF IsCongruence
  <2>2. Forced(Alive, Given, canon, unions, cl)
    BY <1>1, <2>1 DEF Needed
  <2> QED
    BY <1>2, <1>4, <1>5, <2>2, GrownForced
<1> QED
  BY <1>6 DEF Needed

\* Rows of views are reported.
LEMMA CheckAcceptedForced ==
  ASSUME Base, Base', Merging, FromViews', CheckAccepted, Needed
  PROVE  Needed'
<1> SUFFICES ASSUME pc' # "panicked" PROVE Needed'
  BY DEF Needed, Busy
<1>1. pc = "check" /\ pc' = "derive" /\ UNCHANGED <<applied, current>>
  BY DEF CheckAccepted
<1>2. PICK more : more = Reported(fresh')
  OBVIOUS
<1>3. Grown(more)
  BY <1>1, <1>2, CheckAcceptedMerges
<1>4. ASSUME NEW y \in more PROVE y[2] \notin Written(Commit) /\ IsView(y[1])
  <2>1. y[2] \notin Written(Commit)
    BY <1>2, ReportedIds
  <2>2. PICK x \in Range(fresh') : y[1] = x.table
    BY <1>2 DEF Reported
  <2> QED
    BY <2>1, <2>2 DEF FromViews
<1>5. Given' = Given /\ Given \cup {} = Given
  BY <1>1 DEF Given, Busy
<1>6. ASSUME NEW cl, IsCongruence(cl, Given)
      PROVE  Forced(Alive', Given, canon', unions', cl)
  <2>1. Forced(Alive, Given, canon, unions, cl)
    BY <1>1, <1>6 DEF Needed, Busy
  <2> QED
    BY <1>3, <1>4, <1>5, <2>1, GrownForced
<1> QED
  BY <1>5, <1>6 DEF Needed

\* The commit is applied.
LEMMA RecordForced ==
  ASSUME Base, Merging, Record, Needed
  PROVE  Needed'
<1>1. pc = "derive" /\ pc' = "idle" /\ applied' = applied \cup {current}
  BY DEF Record, DropLocals
<1>2. Grown({})
  BY <1>1, RecordMerges
<1>3. Given' = Given /\ Given \cup {} = Given
  BY <1>1 DEF Given, Busy
<1>4. ASSUME NEW cl, IsCongruence(cl, Given)
      PROVE  Forced(Alive', Given, canon', unions', cl)
  <2>1. Forced(Alive, Given, canon, unions, cl)
    BY <1>1, <1>4 DEF Needed, Busy
  <2> QED
    BY <1>2, <1>3, <2>1, GrownForced
<1> QED
  BY <1>3, <1>4 DEF Needed

\* After a rollback everything is as it was.
LEMMA RollbackForced ==
  ASSUME Base, UndoRestores, NeededThen, Rollback
  PROVE  Needed'
<1> SUFFICES ASSUME pc' = "idle" PROVE Needed'
  BY DEF Rollback, Needed, Busy
<1>1. /\ rows' = before /\ canon' = snap.canon /\ unions' = snap.unions
      /\ fresh' = <<>> /\ applied' = applied
      /\ \A t \in Table : staged'[t] = <<>>
  BY BackToBefore, EachTableIs DEF Rollback, RestoreRowing, DropLocals, UndoTables
<1>2. Alive' = FactsOf(before)
  BY <1>1, NoneWaiting DEF Alive
<1>3. Given' = GivenBy(applied)
  BY <1>1 DEF Given, Busy
<1>4. ASSUME NEW cl, IsCongruence(cl, GivenBy(applied))
      PROVE  Forced(FactsOf(before), GivenBy(applied), snap.canon, snap.unions, cl)
  BY <1>4 DEF Rollback, NeededThen
<1> QED
  BY <1>1, <1>2, <1>3, <1>4 DEF Needed

\* Init and Reload: nothing is merged.
LEMMA EmptyForced ==
  /\ Init => Needed
  /\ Base /\ Reload => Needed'
<1>1. PICK none : none = FactsOf(EachTable(EmptyFun))
  OBVIOUS
<1>2. none = {}
  BY <1>1, EachTableIs, EmptyIsSeq, FactsAre DEF EmptyFun
<1>3. \A given, cl : Forced({}, given, EmptyFun, <<>>, cl)
  <2>1. DOMAIN EmptyFun = {} /\ Range(<<>>) = {}
    BY EmptyIsSeq DEF EmptyFun
  <2>2. \A r : Lookup(EmptyFun, r) = r
    BY <2>1 DEF Lookup
  <2> QED
    BY <2>1, <2>2 DEF Forced, Within
<1>4. ASSUME Init PROVE Needed
  <2>1. fresh = <<>> /\ \A t \in Table : staged[t] = <<>>
    BY <1>4, EachTableIs DEF Init, Empty
  <2>2. Alive = {} /\ canon = EmptyFun /\ unions = <<>>
    BY <1>1, <1>2, <1>4, <2>1, NoneWaiting DEF Init, Empty, Alive
  <2> QED
    BY <1>3, <2>2 DEF Needed
<1>5. ASSUME Base, Reload PROVE Needed'
  <2>1. fresh' = <<>> /\ \A t \in Table : staged'[t] = <<>>
    BY <1>5, EachTableIs DEF Reload, Empty, Base, Control, local
  <2>2. Alive' = {} /\ canon' = EmptyFun /\ unions' = <<>>
    BY <1>1, <1>2, <1>5, <2>1, NoneWaiting DEF Reload, Empty, Alive
  <2> QED
    BY <1>3, <2>2 DEF Needed
<1> QED
  BY <1>4, <1>5

\* The steps that move nothing but control
LEMMA QuietForced ==
  ASSUME Needed,
         \/ \E c \in Commit : BeginRefused(c)
         \/ \E t \in Table : TakeTable(t)
         \/ LeaveTable \/ CheckRejected \/ UNCHANGED vars
  PROVE  Needed'
<1>1. CASE pc' = "failed"
  BY <1>1 DEF Needed, Busy
<1>2. CASE pc' # "failed"
  <2>1. UNCHANGED <<rows, staged, canon, unions, fresh, current, applied, pc>>
    BY <1>2 DEF BeginRefused, TakeTable, LeaveTable, CheckRejected, vars, rowing
  <2>2. Alive' = Alive /\ Given' = Given
    BY <2>1 DEF Alive, Given
  <2> QED
    BY <2>1, <2>2 DEF Needed
<1> QED
  BY <1>1, <1>2

\* The state to go back to is one between commits.
LEMMA NeededThenStep ==
  ASSUME Base, Merging, Needed, NeededThen, [Next]_vars
  PROVE  NeededThen'
<1>1. ASSUME pc = "idle", Snapshot, UNCHANGED applied PROVE NeededThen'
  <2>1. Alive = FactsOf(rows) /\ Given = GivenBy(applied)
    BY <1>1, AliveAtRest DEF Given, Busy
  <2>2. before' = rows /\ snap'.canon = canon /\ snap'.unions = unions
    BY <1>1 DEF Snapshot
  <2>3. \A cl : IsCongruence(cl, GivenBy(applied)) =>
                 Forced(FactsOf(rows), GivenBy(applied), canon, unions, cl)
    BY <1>1, <2>1 DEF Needed
  <2> QED
    BY <1>1, <2>2, <2>3 DEF NeededThen
<1>2. ASSUME UNCHANGED <<snap, before, applied>>, pc \notin {"idle", "unreadable"}
      PROVE  NeededThen'
  BY <1>2 DEF NeededThen
<1>3. CASE UNCHANGED vars
  BY <1>3 DEF vars, NeededThen
<1>4. ASSUME NEW c \in Commit, Begin(c) \/ BeginRefused(c) PROVE NeededThen'
  BY <1>1, <1>4 DEF Begin, BeginRefused, Takes
<1>5. ASSUME NEW t \in Table, TakeTable(t) PROVE NeededThen'
  BY <1>2, <1>5 DEF TakeTable
<1>6. CASE ApplyOp \/ LeaveTable \/ ApplyUnions \/ Rebuild
  BY <1>2, <1>6 DEF ApplyOp, LeaveTable, ApplyUnions, Rebuild, local
<1>7. CASE CheckAccepted \/ CheckRejected \/ Derive
  BY <1>2, <1>7 DEF CheckAccepted, CheckRejected, Derive, local
<1>8. CASE Record \/ Rollback \/ Reload
  BY <1>8 DEF Record, Rollback, Reload, NeededThen
<1> QED
  BY <1>3, <1>4, <1>5, <1>6, <1>7, <1>8 DEF Next, Work

\* Every step merges only what belongs together.
LEMMA NeededStep ==
  ASSUME CommitsApart, Base, Base', UndoRestores, Merging, FromViews', Needed, NeededThen,
         [Next]_vars
  PROVE  Needed' /\ NeededThen'
<1>1. NeededThen'
  BY NeededThenStep
<1>2. CASE UNCHANGED vars
  BY <1>1, <1>2, QuietForced
<1>3. ASSUME NEW c \in Commit, Begin(c) PROVE Needed'
  BY <1>3, BeginForced
<1>4. ASSUME NEW c \in Commit, BeginRefused(c) PROVE Needed'
  BY <1>4, QuietForced
<1>5. ASSUME NEW t \in Table, TakeTable(t) PROVE Needed'
  BY <1>5, QuietForced
<1>6. CASE ApplyOp
  <2> SUFFICES ASSUME pc' \in Busy \cup {"idle"},
                      NEW cl, IsCongruence(cl, Given')
               PROVE  Forced(Alive', Given', canon', unions', cl)
    BY <1>1 DEF Needed
  <2>1. PICK t, op : t = table /\ op = Head(staged[table])
    OBVIOUS
  <2>2. pc = "apply" /\ UNCHANGED <<applied, current>> /\ pc' \in Busy /\ pc' # "failed"
    BY <1>6 DEF ApplyOp, local, Busy, InsertRow, RemoveRow
  <2>3. Given' = Given
    BY <2>2 DEF Given, Busy
  <2>4. Forced(Alive, Given, canon, unions, cl)
    BY <2>2, <2>3 DEF Needed, Busy
  <2>5. CASE op.kind = "add"
    <3>1. Moved
      BY <1>6, <2>1, <2>2, <2>5, AddMerges
    <3>2. PICK A \in SUBSET Commit : Given = GivenBy(A)
      BY <2>2, GivenFrom DEF Busy
    <3>3. unions \in Seq(RowId \X RowId) /\ IsCongruence(cl, Given)
      BY <2>3 DEF Base, ShapeNow
    <3> QED
      BY <2>3, <2>4, <3>1, <3>2, <3>3, MovedForced
  <2>6. CASE op.kind = "delete"
    BY <1>6, <2>1, <2>3, <2>4, <2>6, DeleteMerges, DroppedForced
  <2> QED
    BY <1>6, <2>1, <2>5, <2>6, NextOp
<1>7. CASE LeaveTable \/ CheckRejected
  BY <1>1, <1>7, QuietForced
<1>8. CASE ApplyUnions
  <2> SUFFICES ASSUME NEW cl, IsCongruence(cl, Given')
               PROVE  Forced(Alive', Given', canon', unions', cl)
    BY <1>1 DEF Needed
  <2>1. pc = "apply" /\ UNCHANGED <<applied, current>> /\ pc' \in Busy
    BY <1>8 DEF ApplyUnions, local, Busy
  <2>2. Given' = Given
    BY <2>1 DEF Given, Busy
  <2>3. Forced(Alive, Given, canon, unions, cl)
    BY <2>1, <2>2 DEF Needed, Busy
  <2> QED
    BY <1>8, <2>2, <2>3, ApplyUnionsForced
<1>9. CASE Rebuild
  <2> SUFFICES ASSUME NEW cl, IsCongruence(cl, Given')
               PROVE  Forced(Alive', Given', canon', unions', cl)
    BY <1>1 DEF Needed
  <2>1. pc = "rebuild" /\ pc' = "apply" /\ UNCHANGED <<applied, current>>
    BY <1>9 DEF Rebuild
  <2>2. Given' = Given
    BY <2>1 DEF Given, Busy
  <2>3. Forced(Alive, Given, canon, unions, cl)
    BY <2>1, <2>2 DEF Needed, Busy
  <2> QED
    BY <1>9, <2>2, <2>3, RebuildMerges, RewrittenForced
<1>10. CASE CheckAccepted
  BY <1>1, <1>10, CheckAcceptedForced
<1>11. CASE Derive
  <2> SUFFICES ASSUME pc' \in Busy \cup {"idle"}, NEW cl, IsCongruence(cl, Given')
               PROVE  Forced(Alive', Given', canon', unions', cl)
    BY <1>1 DEF Needed
  <2>1. pc = "derive" /\ UNCHANGED <<applied, current>> /\ pc' = "derive"
    BY <1>11 DEF Derive, local, InsertRow, Busy
  <2>2. Given' = Given
    BY <2>1 DEF Given, Busy
  <2>3. Forced(Alive, Given, canon, unions, cl)
    BY <2>1, <2>2 DEF Needed, Busy
  <2>4. Moved
    BY <1>11, <2>1, DeriveMerges
  <2> QED
    BY <2>1, <2>2, <2>3, <2>4, GivenFrom, MovedForced
<1>12. CASE Record
  BY <1>1, <1>12, RecordForced
<1>13. CASE Rollback
  BY <1>1, <1>13, RollbackForced
<1>14. CASE Reload
  BY <1>1, <1>14, EmptyForced
<1> QED
  BY <1>1, <1>2, <1>3, <1>4, <1>5, <1>6, <1>7, <1>8, <1>9, <1>10, <1>11, <1>12, <1>13, <1>14
     DEF Next, Work

\* They hold in every reachable state.
LEMMA NeededHolds == ViewsClosed /\ CommitsApart => (Spec => [](Needed /\ NeededThen))
<1> SUFFICES ASSUME ViewsClosed, CommitsApart PROVE Spec => [](Needed /\ NeededThen)
  OBVIOUS
<1>1. Init => FromViews /\ Needed /\ NeededThen
  <2>1. Init => fresh = <<>> /\ pc = "idle"
    BY DEF Init
  <2> QED
    BY <2>1, EmptyIsSeq, EmptyForced DEF FromViews, NeededThen
<1>2. Base /\ FromViews /\ [Next]_vars => FromViews'
  BY FromViewsStep
<1>3. /\ Base /\ UndoRestores /\ Merging /\ Base' /\ FromViews' /\ Needed /\ NeededThen
      /\ [Next]_vars
      => Needed' /\ NeededThen'
  BY NeededStep
<1> QED
  BY <1>1, <1>2, <1>3, MergingHolds, BaseHolds, PTL DEF Spec


-----------------------------------------------------------------------------
(***************************************************************************)
(* Classes is the congruence closure of the rows of some commits.  Every   *)
(* round either changes nothing any more or leaves fewer classes, so that  *)
(* as many rounds as rows are enough.                                      *)
(***************************************************************************)
Rounding == INSTANCE FoldLemmas WITH Op <- Round

LEMMA RoundFold == \A x, s : FoldLeft(Round, x, s) = Rounding!Fold(x, s)
BY DEF Rounding!Fold, FoldLeft, Rounding!FoldLeft, MapThenFoldSet, Rounding!MapThenFoldSet,
       Max, Rounding!Max

\* A finite set of ids has a least one.
LEMMA LeastIs ==
  ASSUME NEW S \in SUBSET RowId, IsFiniteSet(S), S # {}
  PROVE  Least(S) \in S /\ \A s \in S : ~WireBefore(s, Least(S))
<1>1. PICK R : R = {x \in S \X S : WireBefore(x[1], x[2])}
  OBVIOUS
<1>2. \A x, y \in S : <<x, y>> \in R <=> WireBefore(x, y)
  BY <1>1
<1>3. Orders(R, S)
  BY <1>2, WireTotal DEF Orders
<1>4. PICK f : Lists(f, Cardinality(S), S, R)
  BY <1>3, ListExists
<1>5. Cardinality(S) \in Nat \ {0}
  BY FS_CardinalityType, FS_EmptySet
<1>6. PICK m : m = f[1] /\ m \in S
  BY <1>4, <1>5 DEF Lists
<1>7. ASSUME NEW s \in S \ {m} PROVE WireBefore(m, s)
  <2>1. PICK i \in 1 .. Cardinality(S) : f[i] = s
    BY <1>4 DEF Lists
  <2>2. 1 < i /\ 1 \in 1 .. Cardinality(S)
    BY <1>5, <1>6, <1>7, <2>1
  <2> QED
    BY <1>2, <1>4, <1>6, <2>1, <2>2 DEF Lists
<1>8. PICK low : low = Least(S)
  OBVIOUS
<1>9. low \in S /\ \A s \in S \ {low} : WireBefore(low, s)
  BY <1>6, <1>7, <1>8 DEF Least
<1> QED
  BY <1>8, <1>9, WireTotal

\* Rows of a structural table with the same cells under `can'
Alike(can, r, s) ==
  /\ Schema[WrittenTable(r)].memoized /\ WrittenTable(s) = WrittenTable(r)
  /\ CellsUnder(can, s) = CellsUnder(can, r)

\* Rows are in one class for a reason.
Reasoned(can) == \A r, s \in DOMAIN can : can[r] = can[s] => r = s \/ Alike(can, r, s)

\* A class is represented by its least id.
Leads(can) == \A r \in DOMAIN can : can[can[r]] = can[r] /\ ~WireBefore(r, can[r])

\* One round puts together what is alike.
LEMMA CongruentIs ==
  ASSUME NEW ids \in SUBSET RowId, IsFiniteSet(ids), NEW can \in [ids -> ids],
         NEW new, new = Congruent(can)
  PROVE  /\ new \in [ids -> ids] /\ Leads(new)
         /\ \A r, s \in ids : new[r] = new[s] <=> r = s \/ Alike(can, r, s)
<1> DEFINE K(r) == {s \in ids : /\ WrittenTable(s) = WrittenTable(r)
                               /\ CellsUnder(can, s) = CellsUnder(can, r)}
<1>1. /\ new = [r \in ids |-> IF Schema[WrittenTable(r)].memoized THEN Least(K(r)) ELSE r]
  BY DEF Congruent
<1>2. ASSUME NEW r \in ids
      PROVE  Least(K(r)) \in K(r) /\ \A s \in K(r) : ~WireBefore(s, Least(K(r)))
  <2>1. r \in K(r) /\ K(r) \in SUBSET ids
    OBVIOUS
  <2> HIDE DEF K
  <2>2. IsFiniteSet(K(r)) /\ K(r) \in SUBSET RowId
    BY <2>1, FS_Subset
  <2> QED
    BY <2>1, <2>2, LeastIs
<1>3. \A r, s \in ids : s \in K(r) <=> /\ WrittenTable(s) = WrittenTable(r)
                                      /\ CellsUnder(can, s) = CellsUnder(can, r)
  OBVIOUS
<1>4. \A r, s \in ids : s \in K(r) => K(s) = K(r)
  OBVIOUS
<1>5. \A r \in ids : K(r) \subseteq ids
  OBVIOUS
<1> HIDE DEF K
<1>6. new \in [ids -> ids]
  BY <1>1, <1>2, <1>5
<1>7. ASSUME NEW r \in ids, NEW s \in ids, new[r] = new[s], r # s PROVE Alike(can, r, s)
  <2>1. /\ new[r] = IF Schema[WrittenTable(r)].memoized THEN Least(K(r)) ELSE r
        /\ new[s] = IF Schema[WrittenTable(s)].memoized THEN Least(K(s)) ELSE s
    BY <1>1
  <2>2. Least(K(r)) \in K(r) /\ Least(K(s)) \in K(s)
    BY <1>2
  <2>3. /\ WrittenTable(Least(K(r))) = WrittenTable(r)
        /\ CellsUnder(can, Least(K(r))) = CellsUnder(can, r)
        /\ WrittenTable(Least(K(s))) = WrittenTable(s)
        /\ CellsUnder(can, Least(K(s))) = CellsUnder(can, s)
    BY <1>3, <1>5, <2>2
  <2> QED
    BY <1>7, <2>1, <2>3 DEF Alike
<1>8. ASSUME NEW r \in ids, NEW s \in ids, Alike(can, r, s) PROVE new[r] = new[s]
  <2>1. s \in K(r) /\ K(s) = K(r)
    BY <1>3, <1>4, <1>8 DEF Alike
  <2> QED
    BY <1>1, <1>8, <2>1 DEF Alike
<1>9. ASSUME NEW r \in ids PROVE new[new[r]] = new[r] /\ ~WireBefore(r, new[r])
  <2>1. CASE Schema[WrittenTable(r)].memoized
    <3>1. PICK m : m = Least(K(r))
      OBVIOUS
    <3>2. new[r] = m /\ m \in K(r) /\ \A s \in K(r) : ~WireBefore(s, m)
      BY <1>1, <1>2, <2>1, <3>1
    <3>3. m \in ids /\ WrittenTable(m) = WrittenTable(r) /\ K(m) = K(r) /\ r \in K(r)
      BY <1>3, <1>4, <1>5, <3>2
    <3>4. new[m] = m
      BY <1>1, <2>1, <3>1, <3>3
    <3> QED
      BY <3>2, <3>3, <3>4
  <2>2. CASE ~Schema[WrittenTable(r)].memoized
    BY <1>1, <2>2, WireTotal
  <2> QED
    BY <2>1, <2>2
<1> QED
  BY <1>6, <1>7, <1>8, <1>9 DEF Leads

\* Cells that were equal stay so when more is put together.
LEMMA AlikeStay ==
  ASSUME NEW can, NEW new, \A q, r : Lookup(can, q) = Lookup(can, r) => Lookup(new, q) = Lookup(new, r),
         NEW r, NEW s, Alike(can, r, s)
  PROVE  Alike(new, r, s)
<1>1. PICK f, g, h, k : /\ f = CellsUnder(can, r) /\ g = CellsUnder(can, s)
                        /\ h = CellsUnder(new, r) /\ k = CellsUnder(new, s)
  OBVIOUS
<1>2. PICK x, y : x = Ops[r[1]][r[2]] /\ y = Ops[s[1]][s[2]]
  OBVIOUS
<1>3. /\ f = [i \in DOMAIN x.cells |-> IF i \in Schema[x.table].ids THEN Lookup(can, x.cells[i])
                                                                   ELSE x.cells[i]]
      /\ g = [i \in DOMAIN y.cells |-> IF i \in Schema[y.table].ids THEN Lookup(can, y.cells[i])
                                                                   ELSE y.cells[i]]
      /\ h = [i \in DOMAIN x.cells |-> IF i \in Schema[x.table].ids THEN Lookup(new, x.cells[i])
                                                                   ELSE x.cells[i]]
      /\ k = [i \in DOMAIN y.cells |-> IF i \in Schema[y.table].ids THEN Lookup(new, y.cells[i])
                                                                   ELSE y.cells[i]]
  BY <1>1, <1>2 DEF CellsUnder
<1>4. f = g /\ x.table = y.table /\ Schema[x.table].memoized
  BY <1>1, <1>2 DEF Alike, WrittenTable
<1>5. DOMAIN x.cells = DOMAIN f /\ DOMAIN y.cells = DOMAIN g
  BY <1>3
<1>6. ASSUME NEW i \in DOMAIN x.cells PROVE h[i] = k[i]
  <2>1. f[i] = g[i] /\ i \in DOMAIN y.cells
    BY <1>4, <1>5
  <2>2. CASE i \in Schema[x.table].ids
    <3>1. Lookup(can, x.cells[i]) = Lookup(can, y.cells[i])
      BY <1>3, <1>4, <2>1, <2>2
    <3> QED
      BY <1>3, <1>4, <2>1, <2>2, <3>1
  <2>3. CASE i \notin Schema[x.table].ids
    BY <1>3, <1>4, <2>1, <2>3
  <2> QED
    BY <2>2, <2>3
<1>7. h = k
  BY <1>3, <1>4, <1>5, <1>6
<1> QED
  BY <1>1, <1>2, <1>4, <1>7 DEF Alike, WrittenTable

\* So a round keeps together what was together, and for a reason.
LEMMA RoundGrows ==
  ASSUME NEW ids \in SUBSET RowId, IsFiniteSet(ids), NEW can \in [ids -> ids],
         Leads(can), Reasoned(can), NEW new, new = Congruent(can)
  PROVE  /\ \A q, r : Lookup(can, q) = Lookup(can, r) => Lookup(new, q) = Lookup(new, r)
         /\ Reasoned(new)
<1>1. /\ new \in [ids -> ids]
      /\ \A r, s \in ids : new[r] = new[s] <=> r = s \/ Alike(can, r, s)
  BY CongruentIs
<1>2. ASSUME NEW q, NEW r, Lookup(can, q) = Lookup(can, r) PROVE Lookup(new, q) = Lookup(new, r)
  <2>1. q \in ids <=> r \in ids
    BY <1>2 DEF Lookup
  <2> QED
    BY <1>1, <1>2, <2>1 DEF Lookup, Reasoned
<1>3. ASSUME NEW r \in ids, NEW s \in ids, new[r] = new[s], r # s PROVE Alike(new, r, s)
  BY <1>1, <1>2, <1>3, AlikeStay
<1> QED
  BY <1>1, <1>2, <1>3 DEF Reasoned

\* A row that a commit wrote is given.
LEMMA WrittenIsGiven ==
  ASSUME NEW A \in SUBSET Commit, NEW r \in Written(A)
  PROVE  /\ r \in RowId /\ r \in Written(Commit) /\ WrittenTable(r) \in WrittenTables
         /\ r[1] \in A /\ r[2] \in DOMAIN Ops[r[1]]
         /\ <<WrittenTable(r), r, Ops[r[1]][r[2]].cells>> \in GivenBy(A)
<1>1. PICK c \in A : r \in {<<c, i>> : i \in DOMAIN Ops[c]}
  BY DEF Written
<1>2. PICK i \in DOMAIN Ops[c] : r = <<c, i>>
  BY <1>1
<1>3. c \in Commit /\ i \in Nat /\ Ops[c][i].table \in WrittenTables
  BY <1>1, <1>2, OpsAre, WrittenAre
<1>4. <<Ops[c][i].table, <<c, i>>, Ops[c][i].cells>> \in GivenBy(A)
  BY <1>1, <1>2 DEF GivenBy, RowsOf
<1> QED
  BY <1>1, <1>2, <1>3, <1>4 DEF RowId, Written, WrittenTable

\* A round puts together nothing that belongs apart.
LEMMA RoundWithin ==
  ASSUME NEW A \in SUBSET Commit, NEW ids, ids = Written(A), IsFiniteSet(ids),
         NEW can \in [ids -> ids], NEW new, new = Congruent(can),
         NEW cl, IsCongruence(cl, GivenBy(A)), Within(can, cl)
  PROVE  Within(new, cl)
<1>1. ids \in SUBSET RowId
  BY WrittenIsGiven
<1>2. /\ new \in [ids -> ids]
      /\ \A r, s \in ids : new[r] = new[s] <=> r = s \/ Alike(can, r, s)
  BY <1>1, CongruentIs
<1>3. ASSUME NEW q \in ids, NEW r \in ids, Alike(can, q, r) PROVE Class(cl, q) = Class(cl, r)
  <2>1. PICK x, y : /\ x = <<WrittenTable(q), q, Ops[q[1]][q[2]].cells>>
                    /\ y = <<WrittenTable(r), r, Ops[r[1]][r[2]].cells>>
    OBVIOUS
  <2>2. x \in GivenBy(A) /\ y \in GivenBy(A)
    BY <2>1, WrittenIsGiven
  <2>3. /\ CellsBy(can, x[1], x[3]) = CellsUnder(can, q)
        /\ CellsBy(can, y[1], y[3]) = CellsUnder(can, r)
    BY <2>1 DEF CellsBy, CellsUnder, WrittenTable
  <2>4. x[1] = y[1] /\ Schema[x[1]].memoized /\ CellsBy(can, x[1], x[3]) = CellsBy(can, y[1], y[3])
    BY <1>3, <2>1, <2>3 DEF Alike
  <2>5. Via(cl, x[1], x[3]) = Via(cl, y[1], y[3])
    BY <2>4, ViaFollows
  <2>6. Class(cl, x[2]) = Class(cl, y[2])
    BY <2>2, <2>4, <2>5 DEF IsCongruence
  <2> QED
    BY <2>1, <2>6
<1>4. ASSUME NEW q, NEW r, Lookup(new, q) = Lookup(new, r) PROVE Class(cl, q) = Class(cl, r)
  <2>1. q \in ids <=> r \in ids
    BY <1>2, <1>4 DEF Lookup
  <2> QED
    BY <1>2, <1>3, <1>4, <2>1 DEF Lookup
<1> QED
  BY <1>4 DEF Within

\* A round that changes something leaves fewer classes.
LEMMA RoundCounts ==
  ASSUME NEW ids \in SUBSET RowId, IsFiniteSet(ids), NEW can \in [ids -> ids],
         Leads(can), Reasoned(can), NEW new, new = Congruent(can), new # can
  PROVE  Cardinality(Range(new)) + 1 <= Cardinality(Range(can))
<1>1. /\ new \in [ids -> ids] /\ Leads(new)
      /\ \A q, r : Lookup(can, q) = Lookup(can, r) => Lookup(new, q) = Lookup(new, r)
  BY CongruentIs, RoundGrows
<1>2. \A q, r \in ids : can[q] = can[r] => new[q] = new[r]
  BY <1>1 DEF Lookup
<1>3. \A r \in ids : new[can[r]] = new[r]
  BY <1>2 DEF Leads
<1>4. ASSUME NEW r \in ids PROVE can[new[r]] = new[r]
  <2>1. PICK m : m = new[r] /\ m \in ids
    BY <1>1
  <2>2. new[m] = m /\ new[can[m]] = m
    BY <1>1, <1>3, <2>1 DEF Leads
  <2>3. ~WireBefore(m, can[m]) /\ ~WireBefore(can[m], m) /\ can[m] \in ids
    BY <1>1, <2>1, <2>2 DEF Leads
  <2> QED
    BY <2>1, <2>3, WireTotal
<1>5. Range(can) = {can[r] : r \in ids} /\ Range(new) = {new[r] : r \in ids}
  BY <1>1 DEF Range
<1>6. Range(new) \subseteq Range(can) /\ Range(can) \subseteq ids
  BY <1>1, <1>4, <1>5
<1>7. Range(new) # Range(can)
  <2> SUFFICES ASSUME Range(new) = Range(can) PROVE new = can
    OBVIOUS
  <2>1. ASSUME NEW r \in ids PROVE new[r] = can[r]
    <3>1. PICK x \in ids : can[r] = new[x]
      BY <1>5
    <3> QED
      BY <1>1, <1>3, <3>1 DEF Leads
  <2> QED
    BY <1>1, <2>1
<1>8. IsFiniteSet(Range(can))
  BY <1>6, FS_Subset
<1>9. /\ IsFiniteSet(Range(new)) /\ Cardinality(Range(new)) <= Cardinality(Range(can))
      /\ Cardinality(Range(new)) # Cardinality(Range(can))
  BY <1>6, <1>7, <1>8, FS_Subset
<1>10. Cardinality(Range(new)) \in Nat /\ Cardinality(Range(can)) \in Nat
  BY <1>8, <1>9, FS_CardinalityType
<1> QED
  BY <1>9, <1>10

\* The closure: what the rounds end with changes no more, and is the least of all
\* classifications that are closed.
LEMMA ClassesAre ==
  ASSUME CommitsApart, NEW A \in SUBSET Commit, IsFiniteSet(Written(A)),
         NEW can, can = Classes(A)
  PROVE  /\ can \in [Written(A) -> Written(A)] /\ Leads(can)
         /\ IsCongruence(can, GivenBy(A))
         /\ \A cl : IsCongruence(cl, GivenBy(A)) => Within(can, cl)
<1>1. PICK ids, size : ids = Written(A) /\ size = Cardinality(ids)
  OBVIOUS
<1>2. ids \in SUBSET RowId /\ IsFiniteSet(ids) /\ size \in Nat
  BY <1>1, WrittenIsGiven, FS_CardinalityType
<1> DEFINE start == [r \in ids |-> r]
           T == {p \in Nat \X [ids -> ids] :
                   /\ Leads(p[2]) /\ Reasoned(p[2])
                   /\ \A cl : IsCongruence(cl, GivenBy(A)) => Within(p[2], cl)
                   /\ \/ Congruent(p[2]) = p[2]
                      \/ Cardinality(Range(p[2])) + p[1] <= size}
<1>3. <<0, start>> \in T
  <2>1. start \in [ids -> ids] /\ Leads(start) /\ Reasoned(start)
    BY <1>2, WireTotal DEF Leads, Reasoned
  <2>2. \A cl : Within(start, cl)
    BY DEF Within, Lookup
  <2>3. Range(start) = ids
    BY DEF Range
  <2> HIDE DEF start
  <2>4. Cardinality(Range(start)) + 0 <= size
    BY <1>1, <1>2, <2>3
  <2> QED
    BY <2>1, <2>2, <2>4
<1>4. ASSUME NEW n \in Nat, NEW acc, <<n, acc>> \in T, NEW e
      PROVE  <<n + 1, Round(acc, e)>> \in T
  <2>1. PICK new : new = Congruent(acc)
    OBVIOUS
  <2>2. /\ acc \in [ids -> ids] /\ Leads(acc) /\ Reasoned(acc)
        /\ \A cl : IsCongruence(cl, GivenBy(A)) => Within(acc, cl)
        /\ Congruent(acc) = acc \/ Cardinality(Range(acc)) + n <= size
    BY <1>4
  <2>3. new \in [ids -> ids] /\ Leads(new) /\ Reasoned(new)
    BY <1>2, <2>1, <2>2, CongruentIs, RoundGrows
  <2>4. \A cl : IsCongruence(cl, GivenBy(A)) => Within(new, cl)
    BY <1>1, <1>2, <2>1, <2>2, RoundWithin
  <2>5. Congruent(new) = new \/ Cardinality(Range(new)) + (n + 1) <= size
    <3>1. CASE new = acc
      BY <2>1, <3>1
    <3>2. CASE new # acc
      <4>1. Cardinality(Range(new)) + 1 <= Cardinality(Range(acc))
        BY <1>2, <2>1, <2>2, <3>2, RoundCounts
      <4>2. Range(new) \subseteq ids /\ Range(acc) \subseteq ids
        BY <2>2, <2>3 DEF Range
      <4>3. Cardinality(Range(new)) \in Nat /\ Cardinality(Range(acc)) \in Nat
        BY <1>2, <4>2, FS_Subset, FS_CardinalityType
      <4> QED
        BY <1>2, <2>1, <2>2, <3>2, <4>1, <4>3
    <3> QED
      BY <3>1, <3>2
  <2> QED
    BY <2>1, <2>3, <2>4, <2>5 DEF Round
<1> HIDE DEF T, start
<1>5. Rounds(A) \in Seq(Nat) /\ Len(Rounds(A)) = size
  BY <1>1, <1>2 DEF Rounds
<1>6. <<size, Rounding!Fold(start, Rounds(A))>> \in T
  BY <1>3, <1>4, <1>5, Rounding!FoldInduct
<1>7. can = Rounding!Fold(start, Rounds(A))
  BY <1>1, RoundFold DEF Classes, start
<1>8. /\ can \in [ids -> ids] /\ Leads(can) /\ Reasoned(can)
      /\ \A cl : IsCongruence(cl, GivenBy(A)) => Within(can, cl)
      /\ Congruent(can) = can \/ Cardinality(Range(can)) + size <= size
  BY <1>6, <1>7 DEF T
<1>9. Congruent(can) = can
  <2>1. CASE ids = {}
    <3>1. PICK new : new = Congruent(can) /\ new \in [ids -> ids]
      BY <1>2, <1>8, CongruentIs
    <3>2. new = can
      BY <1>8, <2>1, <3>1
    <3> QED
      BY <3>1, <3>2
  <2>2. CASE ids # {}
    <3>1. Range(can) \subseteq ids /\ Range(can) # {}
      BY <1>8, <2>2 DEF Range
    <3>2. IsFiniteSet(Range(can))
      BY <1>2, <3>1, FS_Subset
    <3>3. Cardinality(Range(can)) \in Nat /\ Cardinality(Range(can)) # 0
      BY <3>1, <3>2, FS_CardinalityType, FS_EmptySet
    <3>4. ~(Cardinality(Range(can)) + size <= size)
      BY <1>2, <3>3
    <3> QED
      BY <1>8, <3>4
  <2> QED
    BY <2>1, <2>2
<1>10. ASSUME NEW x \in GivenBy(A)
       PROVE  /\ x[2] \in ids /\ Class(can, x[2]) = can[x[2]] /\ x[1] = WrittenTable(x[2])
              /\ Via(can, x[1], x[3]) = CellsUnder(can, x[2])
  <2>1. /\ x[2] \in ids /\ x[1] = WrittenTable(x[2]) /\ x[3] = Ops[x[2][1]][x[2][2]].cells
    BY <1>1, GivenIs
  <2>2. PICK r, op : r = x[2] /\ op = Ops[r[1]][r[2]]
    OBVIOUS
  <2>3. r[1] \in Commit /\ r[2] \in DOMAIN Ops[r[1]] /\ r \in Written(Commit)
    BY <1>1, <2>1, <2>2, WrittenIsGiven
  <2>4. \A i \in Schema[op.table].ids : op.cells[i] \in Written(Commit)
    BY <2>2, <2>3 DEF CommitsApart
  <2>5. Via(can, op.table, op.cells) = CellsUnder(can, r)
    BY <2>2, <2>4 DEF Via, Class, CellsUnder
  <2> QED
    BY <1>8, <2>1, <2>2, <2>3, <2>5 DEF Class, Lookup, WrittenTable
<1>11. IsCongruence(can, GivenBy(A))
  <2> SUFFICES ASSUME NEW x \in GivenBy(A), NEW y \in GivenBy(A), x[1] = y[1],
                      Schema[x[1]].memoized, Via(can, x[1], x[3]) = Via(can, y[1], y[3])
               PROVE  Class(can, x[2]) = Class(can, y[2])
    BY DEF IsCongruence
  <2>1. Alike(can, x[2], y[2])
    BY <1>10 DEF Alike
  <2>2. can[x[2]] = can[y[2]]
    BY <1>2, <1>8, <1>9, <1>10, <2>1, CongruentIs
  <2> QED
    BY <1>10, <2>2
<1> QED
  BY <1>1, <1>8, <1>11

-----------------------------------------------------------------------------
(***************************************************************************)
(* So between commits the union-find is that closure, and what is stored   *)
(* is what the set of applied commits means.                               *)
(***************************************************************************)
Finite == IsFiniteSet(Written(applied))

\* One commit after the other: finitely many rows were written.
LEMMA FiniteHolds == ViewsClosed => (Spec => []Finite)
<1> SUFFICES ASSUME ViewsClosed PROVE Spec => []Finite
  OBVIOUS
<1>1. ASSUME NEW A, NEW c \in Commit, IsFiniteSet(Written(A))
      PROVE  IsFiniteSet(Written(A \cup {c}))
  <2>1. PICK n \in Nat : DOMAIN Ops[c] = 1 .. n
    BY OpsAre
  <2>2. PICK S, f : S = {<<c, i>> : i \in 1 .. n} /\ f = [i \in 1 .. n |-> <<c, i>>]
    OBVIOUS
  <2>3. f \in Surjection(1 .. n, S)
    BY <2>2 DEF Surjection
  <2>4. IsFiniteSet(S)
    BY <2>3, FS_Interval, FS_Surjection
  <2>5. Written(A \cup {c}) = Written(A) \cup S
    BY <2>1, <2>2 DEF Written
  <2> QED
    BY <1>1, <2>4, <2>5, FS_Union
<1>2. Init => Finite
  BY FS_EmptySet DEF Init, Empty, Finite, Written
<1>3. ASSUME Base, Finite, [Next]_vars PROVE Finite'
  <2>1. CASE Record
    <3>1. PICK c \in Commit : applied' = applied \cup {c}
      BY <1>3, <2>1 DEF Record, Base, Control, Busy
    <3>2. IsFiniteSet(Written(applied \cup {c}))
      BY <1>1, <1>3 DEF Finite
    <3>3. Written(applied)' = Written(applied \cup {c})
      BY <3>1 DEF Written
    <3> QED
      BY <3>2, <3>3 DEF Finite
  <2>2. CASE Reload
    <3>1. applied' = {}
      BY <2>2 DEF Reload, Empty
    <3> QED
      BY <3>1, FS_EmptySet DEF Finite, Written
  <2>3. CASE ~Record /\ ~Reload
    <3>1. UNCHANGED applied
      BY <1>3, <2>3 DEF Next, Work, vars, Begin, BeginRefused, Takes, TakeTable, ApplyOp,
           LeaveTable, ApplyUnions, Rebuild, CheckAccepted, CheckRejected, Derive, Rollback,
           local
    <3> QED
      BY <1>3, <3>1 DEF Finite, Written
  <2> QED
    BY <2>1, <2>2, <2>3
<1> QED
  BY <1>2, <1>3, BaseHolds, PTL DEF Spec

\* What holds of the tables and the union-find between commits
AtRest ==
  /\ Base /\ Merging /\ OneRowPerTerm /\ RowsOfCommits /\ Referring /\ Needed /\ Finite

\* Stored rows of the tables that commits write to are theirs, and in canonical form.
LEMMA StoredAtRest ==
  ASSUME CommitsApart, AtRest, pc = "idle", NEW t \in WrittenTables, NEW r \in DOMAIN rows[t]
  PROVE  /\ r \in Written(applied) /\ WrittenTable(r) = t /\ Canonical(r) = r
         /\ CanonicalCells(t, rows[t][r]) = rows[t][r]
<1>1. t \in Table /\ staged[t] = <<>> /\ Alive = FactsOf(rows) /\ Canonical(r) = r
  BY WrittenAre, AliveAtRest DEF AtRest, Canonical
<1>2. CellsBy(canon, t, rows[t][r]) = rows[t][r]
  BY <1>1, RefersNone DEF AtRest, Referring, ReferringIn
<1>3. CellsBy(canon, t, rows[t][r]) = CanonicalCells(t, rows[t][r])
  BY DEF CellsBy, CanonicalCells, Canonical
<1>4. applied \in SUBSET Commit /\ Given = GivenBy(applied)
  BY DEF AtRest, Base, Control, Given, Busy
<1>5. PICK can : IsCongruence(can, Given)
  BY <1>4, ClassesAre DEF AtRest, Finite
<1>6. PICK x : x = <<t, r, rows[t][r]>>
  OBVIOUS
<1>7. x \in Alive
  BY <1>1, <1>6, FactsAre
<1>8. Traced(x, Given, can)
  BY <1>5, <1>7 DEF AtRest, Needed, Forced
<1>9. PICK g \in Given : g[1] = x[1] /\ g[2] = x[2]
  BY <1>6, <1>8 DEF Traced, CommitsApart
<1> QED
  BY <1>1, <1>2, <1>3, <1>4, <1>6, <1>9, GivenIs

\* The union-find is closed under equality of cells.
LEMMA CanonIsCongruence ==
  ASSUME CommitsApart, AtRest, pc = "idle"
  PROVE  IsCongruence(canon, GivenBy(applied))
<1>1. applied \in SUBSET Commit
  BY DEF AtRest, Base, Control
<1>2. ASSUME NEW x \in GivenBy(applied)
      PROVE  /\ x[1] \in WrittenTables /\ x[1] \in Table
             /\ Class(canon, x[2]) = Canonical(x[2]) /\ Canonical(x[2]) \in DOMAIN rows[x[1]]
             /\ Via(canon, x[1], x[3]) = rows[x[1]][Canonical(x[2])]
  <2>1. PICK t, r, cells : t = x[1] /\ r = x[2] /\ cells = x[3]
    OBVIOUS
  <2>2. /\ t \in WrittenTables /\ t \in Table /\ r \in Written(applied) /\ r \in Written(Commit)
        /\ t = WrittenTable(r) /\ cells = Ops[r[1]][r[2]].cells
        /\ r[1] \in Commit /\ r[2] \in DOMAIN Ops[r[1]]
    BY <1>1, <2>1, GivenIs, GivenTables, WrittenAre, WrittenIsGiven
  <2>3. /\ Canonical(r) \in DOMAIN rows[t]
        /\ CanonicalCells(t, rows[t][Canonical(r)]) = CanonicalCells(t, cells)
    BY <2>2 DEF AtRest, RowsOfCommits
  <2>4. CanonicalCells(t, rows[t][Canonical(r)]) = rows[t][Canonical(r)]
    BY <2>2, <2>3, StoredAtRest
  <2>5. \A i \in Schema[t].ids : cells[i] \in Written(Commit)
    BY <2>2 DEF CommitsApart, WrittenTable
  <2>6. Via(canon, t, cells) = CanonicalCells(t, cells)
    BY <2>5 DEF Via, Class, CanonicalCells, Canonical
  <2> QED
    BY <2>1, <2>2, <2>3, <2>4, <2>6 DEF Class, Canonical
<1> SUFFICES ASSUME NEW x \in GivenBy(applied), NEW y \in GivenBy(applied), x[1] = y[1],
                    Schema[x[1]].memoized, Via(canon, x[1], x[3]) = Via(canon, y[1], y[3])
             PROVE  Class(canon, x[2]) = Class(canon, y[2])
  BY DEF IsCongruence
<1>3. rows[x[1]][Canonical(x[2])] = rows[x[1]][Canonical(y[2])]
  BY <1>2
<1>4. Canonical(x[2]) = Canonical(y[2])
  BY <1>2, <1>3 DEF AtRest, OneRowPerTerm
<1> QED
  BY <1>2, <1>4

\* Both have the same classes, and represent them by the same ids.
LEMMA ClosureReached ==
  ASSUME CommitsApart, AtRest, pc = "idle", NEW can, can = Classes(applied)
  PROVE  /\ can \in [Written(applied) -> Written(applied)]
         /\ \A r \in Written(Commit) : Canonical(r) = Lookup(can, r)
<1>1. PICK ids : ids = Written(applied)
  OBVIOUS
<1>2. /\ applied \in SUBSET Commit /\ Given = GivenBy(applied) /\ CanonIn(canon, RowId)
      /\ DOMAIN canon \subseteq OfCommits(applied) /\ ids \in SUBSET RowId
  <2>1. applied \in SUBSET Commit
    BY DEF AtRest, Base, Control
  <2>2. Taken = OfCommits(applied)
    BY DEF Taken, Busy
  <2> QED
    BY <1>1, <2>1, <2>2, MergingIs, WrittenIsGiven DEF AtRest, Coherent, Given, Busy
<1>3. /\ can \in [ids -> ids] /\ Leads(can) /\ IsCongruence(can, GivenBy(applied))
      /\ \A cl : IsCongruence(cl, GivenBy(applied)) => Within(can, cl)
  BY <1>1, <1>2, ClassesAre DEF AtRest, Finite
<1>4. Within(can, canon) /\ Within(canon, can)
  BY <1>2, <1>3, CanonIsCongruence DEF AtRest, Needed, Forced
<1>5. ASSUME NEW r \in ids PROVE Canonical(r) = can[r]
  <2>1. PICK p, m : p = Canonical(r) /\ m = can[r]
    OBVIOUS
  <2>2. p \in ids /\ m \in ids /\ ids \subseteq Written(Commit)
    <3>1. WrittenTable(r) \in WrittenTables /\ Canonical(r) \in DOMAIN rows[WrittenTable(r)]
      BY <1>1, <1>2, WrittenIsGiven DEF AtRest, RowsOfCommits
    <3> QED
      BY <1>1, <1>2, <1>3, <2>1, <3>1, StoredAtRest, WrittenIsGiven
  <2>3. can[p] = m
    <3>1. Lookup(canon, p) = Lookup(canon, r)
      BY <1>2, <2>1, LookupTwice DEF Canonical
    <3>2. Class(can, p) = Class(can, r)
      BY <1>4, <3>1 DEF Within
    <3> QED
      BY <1>3, <2>1, <2>2, <3>2 DEF Class, Lookup
  <2>4. Lookup(canon, m) = p
    <3>1. Lookup(can, m) = Lookup(can, r)
      BY <1>3, <2>1, <2>2 DEF Lookup, Leads
    <3>2. Class(canon, m) = Class(canon, r)
      BY <1>4, <3>1 DEF Within
    <3> QED
      BY <2>1, <2>2, <3>2 DEF Class, Canonical
  <2>5. ~WireBefore(p, m)
    BY <1>3, <2>2, <2>3 DEF Leads
  <2>6. ~WireBefore(m, p)
    <3>1. CASE m \in DOMAIN canon
      BY <1>2, <2>4, <3>1 DEF CanonIn, Led, Lookup
    <3>2. CASE m \notin DOMAIN canon
      BY <1>2, <2>2, <2>4, <3>2, WireTotal DEF Lookup
    <3> QED
      BY <3>1, <3>2
  <2> QED
    BY <1>2, <2>1, <2>2, <2>5, <2>6, WireTotal
<1>6. ASSUME NEW r \in Written(Commit), r \notin ids PROVE r \notin DOMAIN canon
  <2>1. r[1] \notin applied
    <3>1. PICK c \in Commit : r \in {<<c, i>> : i \in DOMAIN Ops[c]}
      BY DEF Written
    <3> QED
      BY <1>1, <1>6, <3>1 DEF Written
  <2> QED
    BY <1>2, <2>1 DEF OfCommits
<1> QED
  BY <1>1, <1>3, <1>5, <1>6 DEF Lookup, Canonical

\* A row is stored as it was meant.
LEMMA MeantIsStored ==
  ASSUME CommitsApart, AtRest, pc = "idle", NEW can, can = Classes(applied),
         NEW r \in Written(applied), NEW t, t = WrittenTable(r)
  PROVE  /\ t \in WrittenTables /\ t \in Table /\ Canonical(r) = can[r] /\ can[r] \in DOMAIN rows[t]
         /\ rows[t][can[r]] = CellsUnder(can, r)
         /\ rows[t][can[r]] = CanonicalCells(t, Ops[r[1]][r[2]].cells)
<1>1. /\ applied \in SUBSET Commit
      /\ can \in [Written(applied) -> Written(applied)]
      /\ \A q \in Written(Commit) : Canonical(q) = Lookup(can, q)
  BY ClosureReached DEF AtRest, Base, Control
<1>2. /\ t \in WrittenTables /\ t \in Table /\ r \in Written(Commit)
      /\ r[1] \in Commit /\ r[2] \in DOMAIN Ops[r[1]]
  BY <1>1, WrittenIsGiven, WrittenAre
<1>3. Canonical(r) = can[r]
  BY <1>1, <1>2 DEF Lookup
<1>4. PICK op : op = Ops[r[1]][r[2]]
  OBVIOUS
<1>5. /\ can[r] \in DOMAIN rows[t]
      /\ CanonicalCells(t, rows[t][can[r]]) = CanonicalCells(t, op.cells)
  BY <1>3, <1>4 DEF AtRest, RowsOfCommits
<1>6. CanonicalCells(t, rows[t][can[r]]) = rows[t][can[r]]
  BY <1>2, <1>5, StoredAtRest
<1>7. \A i \in Schema[t].ids : op.cells[i] \in Written(Commit)
  BY <1>2, <1>4 DEF CommitsApart, WrittenTable
<1>8. CanonicalCells(t, op.cells) = CellsUnder(can, r)
  BY <1>1, <1>4, <1>7 DEF CanonicalCells, CellsUnder, WrittenTable
<1> QED
  BY <1>2, <1>3, <1>4, <1>5, <1>6, <1>8

\* The same set of commits gives the same rows.
LEMMA RowsAtRest ==
  ASSUME CommitsApart, AtRest
  PROVE  RowsOfClasses
<1> SUFFICES ASSUME pc = "idle" PROVE RowsOfClasses
  BY DEF RowsOfClasses
<1>1. PICK can : can = Classes(applied)
  OBVIOUS
<1>2. can \in [Written(applied) -> Written(applied)] /\ applied \in SUBSET Commit
  BY <1>1, ClosureReached DEF AtRest, Base, Control
<1>3. ASSUME NEW x \in Meant(can) PROVE x \in Stored /\ x[2] \in DOMAIN can
  <2>1. PICK r \in Written(applied) : x = <<WrittenTable(r), can[r], CellsUnder(can, r)>>
    BY <1>2, <1>3 DEF Meant
  <2>2. PICK t : t = WrittenTable(r)
    OBVIOUS
  <2>3. t \in Table /\ can[r] \in DOMAIN rows[t] /\ x = <<t, can[r], rows[t][can[r]]>>
    BY <1>1, <2>1, <2>2, MeantIsStored
  <2> QED
    BY <1>2, <2>3 DEF Stored
<1>4. ASSUME NEW x \in Stored, x[2] \in DOMAIN can PROVE x \in Meant(can)
  <2>1. PICK t \in Table : x \in {<<t, r, rows[t][r]>> : r \in DOMAIN rows[t]}
    BY DEF Stored
  <2>2. PICK r \in DOMAIN rows[t] : x = <<t, r, rows[t][r]>>
    BY <2>1
  <2>3. r \in Written(applied) /\ r \in Written(Commit)
    BY <1>2, <1>4, <2>2, WrittenIsGiven
  <2>4. WrittenTable(r) = t
    BY <2>2, <2>3 DEF AtRest, RowsOfCommits
  <2>5. t \in WrittenTables /\ Canonical(r) = can[r] /\ rows[t][can[r]] = CellsUnder(can, r)
    BY <1>1, <2>3, <2>4, MeantIsStored
  <2>6. can[r] = r
    BY <2>2, <2>5, StoredAtRest
  <2> QED
    BY <1>2, <2>2, <2>3, <2>4, <2>5, <2>6 DEF Meant
<1>5. \A r \in DOMAIN can : Canonical(r) = can[r]
  BY <1>1, <1>2, MeantIsStored
<1>6. {x \in Stored : x[2] \in DOMAIN can} = Meant(can)
  BY <1>3, <1>4
<1> QED
  BY <1>1, <1>5, <1>6 DEF RowsOfClasses

\* The invariants, together
LEMMA AtRestHolds ==
  ViewsClosed /\ CommitsApart => (Spec /\ []NoViewTwin /\ []NothingStale => []AtRest)
<1> SUFFICES ASSUME ViewsClosed, CommitsApart
             PROVE  Spec /\ []NoViewTwin /\ []NothingStale => []AtRest
  OBVIOUS
<1>1. /\ Spec => [](Base /\ Merging)
      /\ Spec /\ []NoViewTwin => []OneRowPerTerm
      /\ Spec /\ []NoViewTwin => []RowsOfCommits
      /\ Spec /\ []NothingStale => [](FromViews /\ Referring)
      /\ Spec => [](Needed /\ NeededThen)
      /\ Spec => []Finite
  BY MergingHolds, TermsStayUnique, RowsLast, ReferringHolds, NeededHolds, FiniteHolds
<1>2. Base /\ Merging /\ OneRowPerTerm /\ RowsOfCommits /\ Referring /\ Needed /\ Finite => AtRest
  BY DEF AtRest
<1> QED
  BY <1>1, <1>2, PTL

\* Convergence: "applying the same set of commits from the root rebuilds the table
\* contents" (docs/commit-layer.md).  Which rows of commits are merged, under which id
\* and with which cells they are stored depends on the set of applied commits alone, not
\* on their order, nor on refusals, failures and rollbacks on the way.
THEOREM SameCommitsSameRows ==
  ViewsClosed /\ CommitsApart => (Spec /\ []NoViewTwin /\ []NothingStale => []RowsOfClasses)
<1> SUFFICES ASSUME ViewsClosed, CommitsApart
             PROVE  Spec /\ []NoViewTwin /\ []NothingStale => []RowsOfClasses
  OBVIOUS
<1>1. Spec /\ []NoViewTwin /\ []NothingStale => []AtRest
  BY AtRestHolds
<1>2. AtRest => RowsOfClasses
  BY RowsAtRest
<1> QED
  BY <1>1, <1>2, PTL

\* A promoted id is the canonical one, and a promoted key the beginning of a stored row.
LEMMA ReadsAtRest ==
  ASSUME CommitsApart, AtRest, IdsResolve, OldIdsLead
  PROVE  ReadsFollowMerges
<1>1. ASSUME pc = "idle", NEW can, can = Classes(applied), NEW r \in Written(applied),
             NEW t, t = WrittenTable(r)
      PROVE  RowById(t, r) = [id |-> can[r], cells |-> CellsUnder(can, r)]
  <2>1. /\ t \in Table /\ Canonical(r) = can[r] /\ can[r] \in DOMAIN rows[t]
        /\ rows[t][can[r]] = CellsUnder(can, r)
    BY <1>1, MeantIsStored
  <2>2. PICK m, row : m = can[r] /\ row = RowById(t, m)
    OBVIOUS
  <2>3. row = [id |-> m, cells |-> rows[t][m]]
    BY <1>1, <2>1, <2>2 DEF OldIdsLead
  <2>4. RowById(t, r) = [id |-> m, cells |-> rows[t][m]]
    <3>1. Packable(r)
      <4>1. CASE r \in DOMAIN canon
        BY <4>1 DEF IdsResolve, Packable
      <4>2. CASE r \notin DOMAIN canon
        <5>1. m = r
          BY <2>1, <2>2, <4>2 DEF Canonical, Lookup
        <5>2. PICK x : x = <<t, r, rows[t][r]>>
          OBVIOUS
        <5>3. x \in Stored /\ x[2] = r
          BY <2>1, <2>2, <5>1, <5>2 DEF Stored
        <5> QED
          BY <5>3 DEF IdsResolve, Packable
      <4> QED
        BY <4>1, <4>2
    <3> QED
      BY <2>1, <2>2, <3>1 DEF RowById
  <2> QED
    BY <2>1, <2>2, <2>4
<1>2. ASSUME pc = "idle" PROVE DOMAIN Classes(applied) = Written(applied)
  BY <1>2, ClosureReached
<1>3. ASSUME pc = "idle", NEW t \in Table PROVE NoRow \notin Projections(t, <<>>)
  <2> SUFFICES ASSUME NEW r \in RowIds(t, <<>>) PROVE RowById(t, r) # NoRow
    BY DEF Projections
  <2>1. r \in DOMAIN rows[t]
    BY DEF RowIds, IndexSeek
  <2>2. RowById(t, r) = [id |-> r, cells |-> rows[t][r]] /\ r \in RowId
    BY <1>3, <2>1 DEF OldIdsLead, AtRest, Base, ShapeNow, TablesIn, TableIn
  <2>3. r # <<>>
    <3>1. PICK c \in Commit, k \in Nat : r = <<c, k>>
      BY <2>2 DEF RowId
    <3> QED
      BY <3>1
  <2> QED
    BY <2>2, <2>3 DEF NoRow
<1>4. OldIdsRead
  BY <1>1, <1>2, <1>3 DEF OldIdsRead
<1>5. \A q : Promote(q) = Canonical(q)
  BY DEF Promote, IdsResolve, Packable, Canonical, Lookup
<1>6. ASSUME pc = "idle", NEW r \in Written(applied), NEW t, t = WrittenTable(r),
             NEW op, op = Ops[r[1]][r[2]], NEW n \in 0 .. Len(op.cells)
      PROVE  Exists(t, Promote(r), PromotedKey(r, n))
  <2>1. PICK m, key, cells : m = Promote(r) /\ key = PromotedKey(r, n) /\ cells = rows[t][m]
    OBVIOUS
  <2>2. /\ t \in Table /\ m \in DOMAIN rows[t] /\ cells = CanonicalCells(t, op.cells)
    BY <1>5, <1>6, <2>1, MeantIsStored
  <2>3. /\ op.table = t /\ Len(op.cells) \in Nat
        /\ op.cells = [k \in 1 .. Len(op.cells) |-> op.cells[k]]
    <3>1. r[1] \in Commit /\ r[2] \in DOMAIN Ops[r[1]]
      BY <1>6, WrittenIsGiven DEF AtRest, Base, Control
    <3> QED
      BY <1>6, <3>1, OpsAssumption DEF WrittenTable
  <2>4. 1 .. n \subseteq DOMAIN op.cells /\ n \in Nat
    BY <1>6, <2>3
  <2>5. /\ key = [i \in 1 .. n |-> IF i \in Schema[t].ids THEN Canonical(op.cells[i])
                                                           ELSE op.cells[i]]
    BY <1>5, <1>6, <2>1, <2>3 DEF PromotedKey
  <2>6. \A i \in 1 .. n : cells[i] = key[i]
    BY <2>2, <2>4, <2>5 DEF CanonicalCells
  <2>7. key \in Seq(Range(key)) /\ Len(key) = n /\ DOMAIN key = 1 .. n
    BY <2>4, <2>5 DEF Range
  <2>8. SubSeq(cells, 1, Len(key)) = key
    <3>1. PICK N \in Nat : N = Len(op.cells) /\ n \in 0 .. N
      BY <1>6, <2>3
    <3>2. cells = [i \in 1 .. N |-> cells[i]]
      BY <2>2, <2>3, <3>1 DEF CanonicalCells
    <3>3. cells \in Seq(Range(cells)) /\ Len(cells) = N
      BY <3>1, <3>2 DEF Range
    <3>4. SubSeq(cells, 1, n) = [i \in 1 .. n |-> cells[i]]
      <4>1. PICK S, s : S = Range(cells) /\ s = SubSeq(cells, 1, n)
        OBVIOUS
      <4>2. /\ 1 \in Int /\ n \in Int /\ n \in Nat /\ n - 1 + 1 = n
            /\ \A i \in 1 .. n : cells[i] \in S
        BY <3>1, <3>2, <4>1 DEF Range
      <4>3. s \in Seq(S) /\ Len(s) = n /\ \A i \in 1 .. n : s[i] = cells[1 + i - 1]
        BY <4>1, <4>2, SubSeqProperties
      <4>4. \A i \in 1 .. n : 1 + i - 1 = i
        BY <4>2
      <4>5. s = [i \in 1 .. n |-> s[i]]
        BY <4>2, <4>3
      <4> QED
        BY <4>1, <4>3, <4>4, <4>5
    <3> QED
      BY <2>5, <2>6, <2>7, <3>4
  <2>9. Seekable(t, key)
    <3> SUFFICES ASSUME NEW i \in DOMAIN key \cap Schema[t].ids PROVE Packable(key[i])
      BY DEF Seekable
    <3>1. PICK x : x = <<t, m, cells>>
      OBVIOUS
    <3>2. x \in Stored
      <4>1. x = <<t, m, rows[t][m]>> /\ t \in Table /\ m \in DOMAIN rows[t]
        BY <2>1, <2>2, <3>1
      <4>2. x \in {<<t, s, rows[t][s]>> : s \in DOMAIN rows[t]}
        BY <4>1
      <4> QED
        BY <4>1, <4>2 DEF Stored
    <3>3. x[1] = t /\ x[3] = cells /\ i \in Schema[t].ids /\ key[i] = cells[i]
      BY <2>6, <2>7, <3>1
    <3>4. x[3][i][1] \in Range(dict)
      BY <3>2, <3>3 DEF IdsResolve
    <3> QED
      BY <3>3, <3>4 DEF Packable
  <2>10. m \in RowIdsOf(t, m, key)
    BY <2>1, <2>2, <2>8 DEF RowIdsOf, IndexSeek
  <2> QED
    BY <2>1, <2>9, <2>10 DEF Exists
<1>7. PromotedIdsFound
  BY <1>6 DEF PromotedIdsFound
<1> QED
  BY <1>4, <1>7 DEF ReadsFollowMerges

\* So clients may keep their ids while others' commits merge the rows behind them: any id
\* that a row was ever given reads that row as the applied commits mean it, and a client
\* that promotes its ids again finds every row that it wrote by any of its first cells.
THEOREM ReadsFollow ==
  ViewsClosed /\ CommitsApart /\ Accepts({}) /\ RowInEveryCommit
    => (Spec /\ []NoViewRefused /\ []NoViewTwin /\ []NothingStale => []ReadsFollowMerges)
<1> SUFFICES ASSUME ViewsClosed, CommitsApart, Accepts({}), RowInEveryCommit
             PROVE  Spec /\ []NoViewRefused /\ []NoViewTwin /\ []NothingStale
                      => []ReadsFollowMerges
  OBVIOUS
<1>1. /\ Spec /\ []NoViewTwin /\ []NothingStale => []AtRest
      /\ Spec /\ []NoViewRefused => []IdsResolve
      /\ Spec /\ []NoViewRefused /\ []NoViewTwin => []OldIdsLead
  BY AtRestHolds, IdsStayKnown, OldIdsStayGood
<1>2. AtRest /\ IdsResolve /\ OldIdsLead => ReadsFollowMerges
  BY ReadsAtRest
<1> QED
  BY <1>1, <1>2, PTL

-----------------------------------------------------------------------------
(***************************************************************************)
(* The rows of views.  Until the rules are looked at, coln-query holds     *)
(* what it held when the commit began, and the rows of views are those     *)
(* that were stored then, up to merging.  A view that loses no row has     *)
(* none that a merge changes, so that the rows stored and those reported   *)
(* are together what the views derive now.                                 *)
(***************************************************************************)

\* The rows of tables that no commit writes to, without their ids
Shown(facts) == {<<x[1], x[3]>> : x \in {y \in facts : y[1] \notin WrittenTables}}

\* Nothing is derived from nothing. A derived row is a pair of a table and cells, and its
\* weight the number of its derivations.
ViewsCount ==
  /\ DOMAIN Derived({}) = {}
  /\ \A db : IsFiniteSet(db) /\ (\A x \in db : FactIn(x, RowId)) =>
       \A d \in DOMAIN Derived(db) :
         d = <<d[1], d[2]>> /\ IsFcn(d[2]) /\ Derived(db)[d] \in Nat \ {0}

\* Rows of views alive are rows that were stored when the commit began, rewritten.
KeepsViews(alive, old, can, uns, I) ==
  /\ Keeps(alive, old, can, uns, I)
  /\ \A x \in alive : x[1] \notin WrittenTables => \E y \in old : y[1] = x[1] /\ y[2] = x[2]

ViewsKept ==
  pc \in {"apply", "rebuild", "check"} =>
    KeepsViews(Alive, FactsOf(before), canon, unions, Taken)

\* What is stored is what coln-query has derived, before the commit or, once it has
\* accepted, with it.
ViewsShown ==
  /\ pc = "idle" => Shown(FactsOf(rows)) = DOMAIN Derived(Support(cq))
  /\ pc \in {"apply", "rebuild", "check", "failed"} =>
       Shown(FactsOf(before)) = DOMAIN Derived(Support(cq))
  /\ pc = "derive" => Shown(Alive) = DOMAIN Derived(Support(cq))

\* Steps that move, drop or rewrite rows keep those of views.
LEMMA ChangedViews ==
  ASSUME \/ Moved \/ Rewritten
         \/ Dropped /\ Coherent(Alive, canon, unions, Taken)',
         NEW old, KeepsViews(Alive, old, canon, unions, Taken)
  PROVE  KeepsViews(Alive', old, canon', unions', Taken')
<1>1. Keeps(Alive, old, canon, unions, Taken)
  BY DEF KeepsViews
<1>2. Keeps(Alive', old, canon', unions', Taken')
  BY <1>1, MovedKeeps, DroppedKeeps, RewrittenKeeps
<1>3. ASSUME NEW y \in Alive', y[1] \notin WrittenTables
      PROVE  \E z \in old : z[1] = y[1] /\ z[2] = y[2]
  <2>1. PICK x \in Alive : x[1] = y[1] /\ x[2] = y[2]
    BY DEF Moved, Dropped, Rewritten
  <2> QED
    BY <1>3, <2>1 DEF KeepsViews
<1> QED
  BY <1>2, <1>3 DEF KeepsViews

\* A commit begins: what was stored is there, and its own rows are of other tables.
LEMMA BeginViews ==
  ASSUME Base, Merging, NEW c \in Commit, Begin(c)
  PROVE  ViewsKept'
<1>1. /\ pc = "idle" /\ pc' = "apply" /\ before' = rows
      /\ \A t \in Table : staged'[t] = StagedOps(c, t)
  BY DEF Begin, Takes, Snapshot
<1>2. /\ Coherent(Alive, canon, unions, Taken) /\ CanonIn(canon, RowId)
      /\ Alive = FactsOf(rows)
      /\ \A t \in Table : \A r \in DOMAIN rows[t] : Lookup(canon, r) = r
  BY <1>1, MergingIs, AliveAtRest
<1>3. PICK old, more, none : old = FactsOf(rows) /\ more = RowsOf(c) /\ none = {}
  OBVIOUS
<1>4. \A x \in old : Lookup(canon, x[2]) = x[2]
  BY <1>2, <1>3, FactsAre
<1>5. Keeps(old, old, canon, unions, Taken)
  <2>1. old \cup old = Alive
    BY <1>2, <1>3
  <2> QED
    BY <1>2, <1>4, <2>1 DEF Keeps, IdsOf
<1>6. Grown(more)
  BY <1>1, <1>3, BeginMerges, StagesAll
<1>7. Keeps(old \cup more, old \cup none, canon, unions, Taken')
  <2>1. none \in SUBSET more
    BY <1>3
  <2> QED
    BY <1>2, <1>5, <1>6, <2>1, KeepsMore DEF Grown
<1>8. \A x \in more : x[1] \in WrittenTables
  BY <1>3, WrittenAre DEF RowsOf
<1>9. Alive' = old \cup more /\ canon' = canon /\ unions' = unions /\ old \cup none = old
  BY <1>2, <1>3, <1>6 DEF Grown
<1>10. KeepsViews(Alive', old, canon', unions', Taken')
  BY <1>7, <1>8, <1>9 DEF KeepsViews
<1> QED
  BY <1>1, <1>3, <1>10 DEF ViewsKept

\* Every step keeps them.
LEMMA ViewsKeptStep ==
  ASSUME Base, Merging, Merging', ViewsKept, [Next]_vars
  PROVE  ViewsKept'
<1> SUFFICES ASSUME pc' \in {"apply", "rebuild", "check"} PROVE ViewsKept'
  BY DEF ViewsKept
<1>1. ASSUME pc \in {"apply", "rebuild", "check"}, UNCHANGED before,
             \A old : KeepsViews(Alive, old, canon, unions, Taken)
                        => KeepsViews(Alive', old, canon', unions', Taken')
      PROVE  ViewsKept'
  <2>1. PICK old : old = FactsOf(before)
    OBVIOUS
  <2>2. FactsOf(before') = old
    BY <1>1, <2>1
  <2> QED
    BY <1>1, <2>1, <2>2 DEF ViewsKept
<1>2. ASSUME UNCHANGED <<rows, staged, canon, unions, fresh, current, applied, before, pc>>
      PROVE  ViewsKept'
  <2>1. Alive' = Alive /\ Taken' = Taken
    BY <1>2 DEF Alive, Taken
  <2> QED
    BY <1>2, <2>1 DEF ViewsKept
<1>3. CASE UNCHANGED vars
  BY <1>2, <1>3 DEF vars, rowing
<1>4. ASSUME NEW c \in Commit, Begin(c) \/ BeginRefused(c) PROVE ViewsKept'
  BY <1>4, BeginViews DEF BeginRefused
<1>5. ASSUME NEW t \in Table, TakeTable(t) PROVE ViewsKept'
  BY <1>2, <1>5 DEF TakeTable, rowing
<1>6. CASE LeaveTable
  BY <1>2, <1>6 DEF LeaveTable, rowing
<1>7. CASE ApplyOp
  <2>1. PICK t, op : t = table /\ op = Head(staged[table])
    OBVIOUS
  <2>2. pc = "apply" /\ UNCHANGED before /\ pc' # "failed"
    BY <1>7 DEF ApplyOp, local
  <2>3. Coherent(Alive, canon, unions, Taken)'
    BY DEF Merging, Busy
  <2>4. CASE op.kind = "add"
    <3>1. Moved
      BY <1>7, <2>1, <2>2, <2>4, AddMerges
    <3> QED
      BY <1>1, <2>2, <3>1, ChangedViews
  <2>5. CASE op.kind = "delete"
    <3>1. Dropped
      BY <1>7, <2>1, <2>5, DeleteMerges
    <3> QED
      BY <1>1, <2>2, <2>3, <3>1, ChangedViews
  <2> QED
    BY <1>7, <2>1, <2>4, <2>5, NextOp
<1>8. CASE ApplyUnions
  <2>1. pc = "apply" /\ UNCHANGED <<before, Alive>>
    BY <1>8, ApplyUnionsMerges DEF ApplyUnions, local
  <2>2. ASSUME NEW old, KeepsViews(Alive, old, canon, unions, Taken)
        PROVE  KeepsViews(Alive', old, canon', unions', Taken')
    BY <1>8, <2>1, <2>2, ApplyUnionsKeeps DEF KeepsViews
  <2> QED
    BY <1>1, <2>1, <2>2
<1>9. CASE Rebuild
  <2>1. pc = "rebuild" /\ UNCHANGED before /\ Rewritten
    BY <1>9, RebuildMerges DEF Rebuild
  <2> QED
    BY <1>1, <2>1, ChangedViews
<1>10. CASE CheckAccepted \/ CheckRejected \/ Record \/ Rollback \/ Reload
  BY <1>10 DEF CheckAccepted, CheckRejected, Record, Rollback, Reload
<1>11. CASE Derive
  BY <1>11 DEF Derive, InsertRow
<1> QED
  BY <1>3, <1>4, <1>5, <1>6, <1>7, <1>8, <1>9, <1>10, <1>11 DEF Next, Work

\* Reported rows are the rows gained.
LEMMA NewRowsAre ==
  ASSUME NEW gain, NEW f \in NewRows(gain), \A g \in gain : g = <<g[1], g[2]>>
  PROVE  {<<x[1], x[3]>> : x \in Reported(f)} = gain
<1>1. PICK order \in Bijection(1 .. Cardinality(gain), gain) :
        f = [i \in DOMAIN order |-> [table |-> order[i][1], cells |-> order[i][2],
                                     id |-> <<current, Len(Ops[current]) + i>>]]
  BY DEF NewRows
<1>2. /\ \A i \in DOMAIN order : order[i] \in gain
      /\ \A g \in gain : \E i \in DOMAIN order : order[i] = g
  BY <1>1 DEF Bijection, Surjection, Injection
<1>3. /\ DOMAIN f = DOMAIN order
      /\ \A i \in DOMAIN f : f[i].table = order[i][1] /\ f[i].cells = order[i][2]
  BY <1>1
<1>4. ASSUME NEW x \in Reported(f) PROVE <<x[1], x[3]>> \in gain
  <2>1. PICK y \in Range(f) : x = <<y.table, y.id, y.cells>>
    BY DEF Reported
  <2>2. PICK i \in DOMAIN f : y = f[i]
    BY <2>1 DEF Range
  <2>3. PICK g \in gain : g = order[i]
    BY <1>2, <1>3
  <2>4. x[1] = g[1] /\ x[3] = g[2]
    BY <1>3, <2>1, <2>2, <2>3
  <2> QED
    BY <2>4
<1>5. ASSUME NEW g \in gain PROVE \E x \in Reported(f) : g = <<x[1], x[3]>>
  <2>1. PICK i \in DOMAIN f : g = order[i]
    BY <1>2, <1>3
  <2>2. PICK y : y = f[i]
    OBVIOUS
  <2>3. y \in Range(f) /\ y.table = g[1] /\ y.cells = g[2]
    BY <1>3, <2>1, <2>2 DEF Range
  <2>4. PICK x : x = <<y.table, y.id, y.cells>>
    OBVIOUS
  <2>5. x \in Reported(f) /\ x[1] = g[1] /\ x[3] = g[2]
    BY <2>3, <2>4 DEF Reported
  <2> QED
    BY <2>5
<1> QED
  BY <1>4, <1>5

\* What nothing is lost from is contained in what it becomes.
LEMMA LostNothing ==
  ASSUME ViewsCount, NEW one, NEW two,
         IsFiniteSet(one), \A x \in one : FactIn(x, RowId),
         IsFiniteSet(two), \A x \in two : FactIn(x, RowId),
         Lost(Derived(one), Derived(two)) = {}
  PROVE  /\ DOMAIN Derived(one) \subseteq DOMAIN Derived(two)
         /\ DOMAIN Derived(two) = DOMAIN Derived(one) \cup Gained(Derived(one), Derived(two))
<1>1. PICK old, new : old = Derived(one) /\ new = Derived(two)
  OBVIOUS
<1>2. /\ \A d \in DOMAIN old : old[d] \in Nat \ {0}
      /\ \A d \in DOMAIN new : new[d] \in Nat \ {0}
  BY <1>1 DEF ViewsCount
<1>3. \A d \in DOMAIN old : ~(Weight(new, d) < old[d])
  BY <1>1 DEF Lost
<1>4. DOMAIN old \subseteq DOMAIN new
  BY <1>2, <1>3 DEF Weight
<1>5. ASSUME NEW d \in DOMAIN new, d \notin DOMAIN old PROVE d \in Gained(old, new)
  BY <1>2, <1>5 DEF Gained, Weight
<1>6. Gained(old, new) \subseteq DOMAIN new
  BY DEF Gained
<1> QED
  BY <1>1, <1>4, <1>5, <1>6

\* Before coln-query is asked, the ids in stored rows are canonical, and so are those of the
\* rows it derives.
LEMMA DerivedStand ==
  ASSUME ViewsClosed, ViewsCount, Base, Base', Merging, Synced, ReferringIn(Table), CheckAccepted
  PROVE  /\ IsFiniteSet(Support(cq')) /\ \A x \in Support(cq') : FactIn(x, RowId)
         /\ \A d \in DOMAIN Derived(Support(cq')) :
              d[1] \in Table /\ d = <<d[1], d[2]>> /\ CellsBy(canon, d[1], d[2]) = d[2]
<1>1. PICK I, db : I = {r \in RowId : Lookup(canon, r) = r} /\ db = Support(cq')
  OBVIOUS
<1>2. IsFiniteSet(db) /\ \A x \in db : FactIn(x, RowId)
  BY <1>1, SupportIn DEF Base, ShapeNow
<1>3. db \subseteq FactsOf(rows)
  <2>1. PICK base : base = BaseOf(rows)
    OBVIOUS
  <2>2. InSync(rows)' /\ rows' = rows
    BY CheckSync DEF CheckAccepted
  <2>3. cq' = [x \in base |-> 1]
    BY <2>1, <2>2 DEF InSync
  <2>4. db = base
    BY <1>1, <2>3 DEF Support
  <2> QED
    BY <2>1, <2>4 DEF BaseOf
<1>4. /\ pc = "check" /\ \A t \in Table : staged[t] = <<>>
      /\ \A t \in Table : \A r \in DOMAIN rows[t] : Lookup(canon, r) = r
  BY AliveAtRest DEF CheckAccepted
<1>5. ASSUME NEW x \in db PROVE FactIn(x, I)
  <2>1. x \in FactsOf(rows) /\ FactIn(x, RowId)
    BY <1>2, <1>3
  <2>2. PICK t \in Table : \E r \in DOMAIN rows[t] : x = <<t, r, rows[t][r]>>
    BY <2>1, FactsAre
  <2>3. PICK r \in DOMAIN rows[t] : x = <<t, r, rows[t][r]>>
    BY <2>2
  <2>4. CellsBy(canon, t, rows[t][r]) = rows[t][r]
    BY <1>4, RefersNone DEF ReferringIn
  <2>5. \A i \in Schema[t].ids \cap DOMAIN x[3] : Lookup(canon, x[3][i]) = x[3][i]
    BY <2>3, <2>4, CellsStand
  <2>6. CellsIn(t, x[3], I)
    BY <1>1, <2>1, <2>3, <2>5 DEF FactIn, CellsIn
  <2>7. x[2] \in I
    BY <1>1, <1>4, <2>1, <2>3 DEF FactIn
  <2> QED
    BY <2>1, <2>3, <2>6, <2>7 DEF FactIn
<1>6. ASSUME NEW d \in DOMAIN Derived(db)
      PROVE  d[1] \in Table /\ d = <<d[1], d[2]>> /\ CellsBy(canon, d[1], d[2]) = d[2]
  <2>1. I \in SUBSET RowId
    BY <1>1
  <2>2. d[1] \in Table /\ CellsIn(d[1], d[2], I)
    BY <1>2, <1>5, <2>1 DEF ViewsClosed
  <2>3. d = <<d[1], d[2]>> /\ IsFcn(d[2])
    BY <1>2 DEF ViewsCount
  <2>4. \A i \in Schema[d[1]].ids \cap DOMAIN d[2] : Lookup(canon, d[2][i]) = d[2][i]
    BY <1>1, <2>2 DEF CellsIn
  <2> QED
    BY <2>2, <2>3, <2>4, CellsStand
<1> QED
  BY <1>1, <1>2, <1>6

\* If no view loses a row, merging has changed none of the rows of views.
LEMMA ViewsStand ==
  ASSUME ViewsClosed, ViewsCount, Base, Base', Merging, NoUnions, Synced, ReferringIn(Table),
         ViewsKept, ViewsShown, CheckAccepted, pc' = "derive"
  PROVE  /\ Shown(FactsOf(rows)) = DOMAIN Derived(Support(cq))
         /\ DOMAIN Derived(Support(cq'))
              = DOMAIN Derived(Support(cq)) \cup Gained(Derived(Support(cq)), Derived(Support(cq')))
<1>1. PICK one, two : one = Support(cq) /\ two = Support(cq')
  OBVIOUS
<1>2. /\ IsFiniteSet(one) /\ \A x \in one : FactIn(x, RowId)
      /\ IsFiniteSet(two) /\ \A x \in two : FactIn(x, RowId)
      /\ \A d \in DOMAIN Derived(two) : CellsBy(canon, d[1], d[2]) = d[2]
  BY <1>1, SupportIn, DerivedStand DEF Base, ShapeNow
<1>3. Lost(Derived(one), Derived(two)) = {} /\ pc = "check"
  BY <1>1 DEF CheckAccepted, Convertible
<1>4. /\ DOMAIN Derived(one) \subseteq DOMAIN Derived(two)
      /\ DOMAIN Derived(two) = DOMAIN Derived(one) \cup Gained(Derived(one), Derived(two))
  BY <1>2, <1>3, LostNothing
<1>5. PICK now, old : now = FactsOf(rows) /\ old = FactsOf(before)
  OBVIOUS
<1>6. /\ KeepsViews(now, old, canon, <<>>, Taken) /\ CanonIn(canon, RowId)
      /\ Shown(old) = DOMAIN Derived(one)
  BY <1>1, <1>3, <1>5, AliveAtRest, MergingIs DEF ViewsKept, ViewsShown, NoUnions, Busy
<1>7. Agree(now \cup old, canon) /\ \A x \in old : Lookup(canon, x[2]) \in IdsOf(now)
  BY <1>6, JoinedEmpty DEF KeepsViews, Keeps, Coherent
<1>8. ASSUME NEW x \in now PROVE CellsBy(canon, x[1], x[3]) = x[3]
  <2>1. PICK t \in Table : \E r \in DOMAIN rows[t] : x = <<t, r, rows[t][r]>>
    BY <1>5, FactsAre
  <2>2. PICK r \in DOMAIN rows[t] : x = <<t, r, rows[t][r]>>
    BY <2>1
  <2>3. CellsBy(canon, t, rows[t][r]) = rows[t][r]
    BY <1>3, AliveAtRest, RefersNone DEF ReferringIn
  <2> QED
    BY <2>2, <2>3
<1>9. ASSUME NEW y \in old, y[1] \notin WrittenTables
      PROVE  <<y[1], y[3]>> \in DOMAIN Derived(one) /\ CellsBy(canon, y[1], y[3]) = y[3]
  <2>1. PICK d : d = <<y[1], y[3]>>
    OBVIOUS
  <2>2. d \in Shown(old)
    BY <1>9, <2>1 DEF Shown
  <2>3. d[1] = y[1] /\ d[2] = y[3]
    BY <2>1
  <2> QED
    BY <1>2, <1>4, <1>6, <2>1, <2>2, <2>3
<1>10. ASSUME NEW x \in now, x[1] \notin WrittenTables PROVE <<x[1], x[3]>> \in Shown(old)
  <2>1. PICK y \in old : y[1] = x[1] /\ y[2] = x[2]
    BY <1>6, <1>10 DEF KeepsViews
  <2>2. CellsBy(canon, x[1], x[3]) = CellsBy(canon, y[1], y[3])
    BY <1>7, <2>1 DEF Agree
  <2>3. x[3] = y[3]
    <3>1. CellsBy(canon, x[1], x[3]) = x[3]
      BY <1>8
    <3>2. CellsBy(canon, y[1], y[3]) = y[3]
      BY <1>9, <1>10, <2>1
    <3> QED
      BY <2>2, <3>1, <3>2
  <2>4. <<x[1], x[3]>> = <<y[1], y[3]>> /\ y[1] \notin WrittenTables
    BY <1>10, <2>1, <2>3
  <2>5. <<y[1], y[3]>> \in Shown(old)
    BY <2>4 DEF Shown
  <2> QED
    BY <2>4, <2>5
<1>11. ASSUME NEW y \in old, y[1] \notin WrittenTables PROVE <<y[1], y[3]>> \in Shown(now)
  <2>1. PICK x \in now : x[2] = Lookup(canon, y[2])
    BY <1>7 DEF IdsOf
  <2>2. Lookup(canon, x[2]) = Lookup(canon, y[2])
    BY <1>6, <2>1, LookupTwice
  <2>3. x[1] = y[1] /\ CellsBy(canon, x[1], x[3]) = CellsBy(canon, y[1], y[3])
    BY <1>7, <2>2 DEF Agree
  <2>4. x[3] = y[3]
    <3>1. CellsBy(canon, x[1], x[3]) = x[3]
      BY <1>8
    <3>2. CellsBy(canon, y[1], y[3]) = y[3]
      BY <1>9, <1>11
    <3> QED
      BY <2>3, <3>1, <3>2
  <2>5. <<x[1], x[3]>> = <<y[1], y[3]>> /\ x[1] \notin WrittenTables
    BY <1>11, <2>3, <2>4
  <2>6. <<x[1], x[3]>> \in Shown(now)
    BY <2>5 DEF Shown
  <2> QED
    BY <2>5, <2>6
<1>12. Shown(now) = Shown(old)
  BY <1>10, <1>11 DEF Shown
<1> QED
  BY <1>1, <1>4, <1>5, <1>6, <1>12

\* coln-query accepts: with the rows it reports, the rows of views are those it derives.
LEMMA CheckAcceptedViews ==
  ASSUME CommitsApart, ViewsClosed, ViewsCount, Base, Base', Merging, NoUnions, Synced,
         ReferringIn(Table), ViewsKept, ViewsShown, CheckAccepted, pc' = "derive"
  PROVE  Shown(Alive') = DOMAIN Derived(Support(cq')) /\ FreshRefers(Table)'
<1>1. PICK old, new : old = Derived(Support(cq)) /\ new = Derived(Support(cq'))
  OBVIOUS
<1>2. PICK gain, f : gain = Gained(old, new) /\ f = fresh'
  OBVIOUS
<1>3. f \in NewRows(gain) /\ pc = "check" /\ UNCHANGED <<rows, staged, canon>>
  BY <1>1, <1>2 DEF CheckAccepted, rowing
<1>4. /\ Shown(FactsOf(rows)) = DOMAIN old
      /\ DOMAIN new = DOMAIN old \cup gain
  BY <1>1, <1>2, ViewsStand
<1>5. \A d \in DOMAIN new : d[1] \in Table /\ d = <<d[1], d[2]>> /\ CellsBy(canon, d[1], d[2]) = d[2]
  BY <1>1, DerivedStand
<1>6. {<<x[1], x[3]>> : x \in Reported(f)} = gain
  BY <1>3, <1>4, <1>5, NewRowsAre
<1>7. Alive' = FactsOf(rows) \cup Reported(f)
  <2>1. \A t \in Table : staged'[t] = <<>>
    BY <1>3, AliveAtRest
  <2> QED
    BY <1>2, <1>3, <2>1, NoneWaiting DEF Alive
<1>8. ASSUME NEW x \in Reported(f) PROVE x[1] \notin WrittenTables
  <2>1. PICK d \in gain : d = <<x[1], x[3]>>
    BY <1>6
  <2>2. d \in DOMAIN new /\ d[1] = x[1]
    BY <1>4, <2>1
  <2> QED
    BY <1>1, <2>2 DEF CommitsApart, IsView
<1>9. Shown(FactsOf(rows) \cup Reported(f)) = DOMAIN old \cup gain
  <2>1. Shown(Reported(f)) = gain
    BY <1>6, <1>8 DEF Shown
  <2> QED
    BY <1>4, <2>1 DEF Shown
<1>10. ASSUME NEW x \in Range(f) PROVE CellsBy(canon, x.table, x.cells) = x.cells
  <2>1. PICK y : y = <<x.table, x.id, x.cells>>
    OBVIOUS
  <2>2. y \in Reported(f) /\ y[1] = x.table /\ y[3] = x.cells
    BY <2>1 DEF Reported
  <2>3. PICK d \in gain : d = <<y[1], y[3]>>
    BY <1>6, <2>2
  <2>4. d[1] = x.table /\ d[2] = x.cells /\ d \in DOMAIN new
    BY <1>4, <2>2, <2>3
  <2> QED
    BY <1>5, <2>4
<1>11. FreshRefers(Table)'
  BY <1>2, <1>3, <1>10 DEF FreshRefers
<1> QED
  BY <1>1, <1>4, <1>7, <1>9, <1>11

\* A store without rows shows none, and none are derived.
LEMMA NothingShown ==
  ASSUME ViewsCount
  PROVE  Shown(FactsOf(EachTable(EmptyFun))) = DOMAIN Derived(Support(EmptyFun))
<1>1. PICK none : none = FactsOf(EachTable(EmptyFun))
  OBVIOUS
<1>2. none = {}
  BY <1>1, EachTableIs, EmptyIsSeq, FactsAre DEF EmptyFun
<1>3. Support(EmptyFun) = {}
  BY EmptyIsSeq DEF Support, EmptyFun
<1> QED
  BY <1>1, <1>2, <1>3 DEF Shown, ViewsCount

\* Every step keeps what is shown in step with what is derived.
LEMMA ViewsShownStep ==
  ASSUME CommitsApart, ViewsClosed, ViewsCount, Base, Base', UndoRestores, Merging, NoUnions,
         Synced, NoViewRefused, ReferringIn(Table), FreshRefers(Table), ViewsKept, ViewsShown,
         [Next]_vars
  PROVE  ViewsShown' /\ FreshRefers(Table)'
<1>1. ASSUME UNCHANGED <<before, cq>>, pc \in {"apply", "rebuild", "check", "failed"},
             pc' \in {"apply", "rebuild", "check", "failed", "panicked"}
      PROVE  ViewsShown' /\ FreshRefers(Table)'
  BY <1>1 DEF ViewsShown, FreshRefers
<1>2. CASE UNCHANGED vars
  <2>1. UNCHANGED <<rows, staged, fresh, canon, before, cq, pc>>
    BY <1>2 DEF vars, rowing
  <2>2. Alive' = Alive
    BY <2>1 DEF Alive
  <2> QED
    BY <2>1, <2>2 DEF ViewsShown, FreshRefers
<1>3. ASSUME NEW c \in Commit, Begin(c) \/ BeginRefused(c)
      PROVE  ViewsShown' /\ FreshRefers(Table)'
  <2>1. pc = "idle" /\ pc' \in {"apply", "failed"} /\ before' = rows /\ cq' = cq
    BY <1>3 DEF Begin, BeginRefused, Takes, Snapshot
  <2> QED
    BY <2>1 DEF ViewsShown, FreshRefers
<1>4. ASSUME NEW t \in Table, TakeTable(t) PROVE ViewsShown' /\ FreshRefers(Table)'
  BY <1>1, <1>4 DEF TakeTable
<1>5. CASE LeaveTable \/ ApplyUnions \/ Rebuild \/ CheckRejected
  BY <1>1, <1>5 DEF LeaveTable, ApplyUnions, Rebuild, CheckRejected, local
<1>6. CASE ApplyOp
  <2>1. pc = "apply" /\ UNCHANGED <<before, cq>> /\ pc' \in {"apply", "failed", "panicked"}
    BY <1>6 DEF ApplyOp, InsertRow, RemoveRow, local
  <2> QED
    BY <1>1, <2>1
<1>7. CASE CheckAccepted
  <2>1. CASE pc' = "derive"
    BY <1>7, <2>1, CheckAcceptedViews DEF ViewsShown
  <2>2. CASE pc' # "derive"
    <3>1. pc' = "panicked"
      BY <1>7, <2>2 DEF CheckAccepted
    <3> QED
      BY <3>1 DEF ViewsShown, FreshRefers
  <2> QED
    BY <2>1, <2>2
<1>8. CASE Derive
  <2>1. pc = "derive" /\ pc' \in {"derive", "panicked"} /\ UNCHANGED <<cq, canon>>
    BY <1>8 DEF Derive, InsertRow, NoViewRefused, local
  <2>2. pc' = "derive" /\ Alive' = Alive
    BY <1>8, <2>1, DeriveMerges DEF Moved
  <2>3. Range(fresh') \subseteq Range(fresh)
    BY <1>8, TailIsSeq DEF Derive, Base, ShapeNow
  <2> QED
    BY <2>1, <2>2, <2>3 DEF ViewsShown, FreshRefers
<1>9. CASE Record
  <2>1. /\ pc = "derive" /\ pc' = "idle" /\ UNCHANGED <<rows, cq>> /\ fresh = <<>>
        /\ \A t \in Table : staged[t] = <<>>
    BY <1>9 DEF Record, Base, StagedFits
  <2>2. Alive = FactsOf(rows)
    BY <2>1, NoneWaiting DEF Alive
  <2> QED
    BY <2>1, <2>2 DEF ViewsShown, FreshRefers
<1>10. CASE Rollback
  <2>1. rows' = before /\ pc = "failed" /\ pc' \in {"idle", "unreadable"} /\ cq' = cq
    BY <1>10, BackToBefore DEF Rollback
  <2> QED
    BY <2>1 DEF ViewsShown, FreshRefers
<1>11. CASE Reload
  <2>1. pc' = "idle" /\ rows' = EachTable(EmptyFun) /\ cq' = EmptyFun
    BY <1>11 DEF Reload, Empty
  <2> QED
    BY <2>1, NothingShown DEF ViewsShown, FreshRefers
<1> QED
  BY <1>2, <1>3, <1>4, <1>5, <1>6, <1>7, <1>8, <1>9, <1>10, <1>11 DEF Next, Work

\* In every reachable state they are.
LEMMA ViewsShownHolds ==
  ViewsClosed /\ ViewsCount /\ CommitsApart /\ Accepts({})
    => (Spec /\ []NoViewRefused /\ []NoViewTwin /\ []NothingStale => []ViewsShown)
<1> SUFFICES ASSUME ViewsClosed, ViewsCount, CommitsApart, Accepts({})
             PROVE  Spec /\ []NoViewRefused /\ []NoViewTwin /\ []NothingStale => []ViewsShown
  OBVIOUS
<1> DEFINE Viewing == /\ ViewsKept /\ ViewsShown /\ FreshRefers(Table)
                      /\ ReferringIn(Table) /\ ReferredThen(Table)
<1>1. Init => Viewing /\ NoUnions
  <2> SUFFICES ASSUME Init PROVE Viewing /\ NoUnions
    OBVIOUS
  <2>1. /\ pc = "idle" /\ rows = EachTable(EmptyFun) /\ cq = EmptyFun
        /\ unions = <<>> /\ snap.unions = <<>>
        /\ \A t \in Table : DOMAIN rows[t] = {} /\ staged[t] = <<>>
    BY EachTableIs, EmptyIsSeq DEF Init, Empty, EmptyFun, NoSnap
  <2>2. \A t \in Table : Refers(canon, t, rows[t], staged[t])
    BY <2>1, RefersNone
  <2> QED
    BY <2>1, <2>2, NothingShown
       DEF ViewsKept, ViewsShown, FreshRefers, ReferringIn, ReferredThen, NoUnions
<1>2. /\ Base /\ UndoRestores /\ Merging /\ (Base /\ Merging)' /\ NoUnions /\ Synced
      /\ NoViewRefused /\ NothingStale' /\ Viewing /\ [Next]_vars
      => Viewing'
  <2> SUFFICES ASSUME Base, UndoRestores, Merging, Base', Merging', NoUnions, Synced,
                      NoViewRefused, NothingStale', Viewing, [Next]_vars
               PROVE  Viewing'
    OBVIOUS
  <2>1. Table \in SUBSET Table
    OBVIOUS
  <2>2. ReferringIn(Table)' /\ ReferredThen(Table)'
    BY <2>1, ReferringStep
  <2>3. ViewsKept'
    BY ViewsKeptStep
  <2>4. ViewsShown' /\ FreshRefers(Table)'
    BY ViewsShownStep
  <2> QED
    BY <2>2, <2>3, <2>4
<1>3. NoUnions /\ NoViewTwin /\ [Next]_vars => NoUnions'
  BY NoUnionsStep
<1>4. Viewing => ViewsShown
  OBVIOUS
<1>5. /\ Spec => [](Base /\ Merging)
      /\ Spec => [](Base /\ UndoRestores)
      /\ Spec /\ []NoViewRefused => []Synced
  BY MergingHolds, BaseHolds, SyncedHolds
<1> HIDE DEF Viewing
<1> QED
  BY <1>1, <1>2, <1>3, <1>4, <1>5, PTL DEF Spec

\* Between commits, the rows stored that no commit wrote are the rows of the views.
LEMMA ViewsAtRest ==
  ASSUME CommitsApart, AtRest, ViewsShown, RulesOnStoredRows
  PROVE  ViewsOfClasses
<1> SUFFICES ASSUME pc = "idle" PROVE ViewsOfClasses
  BY DEF ViewsOfClasses
<1>1. PICK can, base : can = Classes(applied) /\ base = BaseRows
  OBVIOUS
<1>2. DOMAIN can = Written(applied) /\ {x \in Stored : x[2] \in DOMAIN can} = Meant(can)
  BY <1>1, ClosureReached, RowsAtRest DEF RowsOfClasses
<1>3. Stored = FactsOf(rows)
  BY DEF Stored, FactsOf
<1>4. ASSUME NEW x \in Stored
      PROVE  /\ x[1] \in WrittenTables <=> x[2] \in DOMAIN can
             /\ x[2] \notin DOMAIN can => ~Schema[x[1]].source
  <2>1. PICK t \in Table : \E r \in DOMAIN rows[t] : x = <<t, r, rows[t][r]>>
    BY <1>3, FactsAre
  <2>2. PICK r \in DOMAIN rows[t] : x = <<t, r, rows[t][r]>>
    BY <2>1
  <2>3. \/ r \in Written(applied) /\ WrittenTable(r) = t
        \/ r \notin Written(Commit) /\ ~Schema[t].source
    BY DEF AtRest, RowsOfCommits
  <2>4. applied \in SUBSET Commit
    BY DEF AtRest, Base, Control
  <2>5. r \in Written(applied) => r \in Written(Commit) /\ WrittenTable(r) \in WrittenTables
    BY <2>4, WrittenIsGiven, WrittenAre
  <2>6. t \in WrittenTables => r \in Written(applied)
    BY StoredAtRest
  <2> QED
    BY <1>2, <2>2, <2>3, <2>5, <2>6
<1>5. {x \in Meant(can) : Schema[x[1]].source} = base
  BY <1>1, <1>2, <1>4 DEF BaseRows
<1>6. Support(cq) = base
  <2>1. cq = [x \in base |-> 1]
    BY <1>1 DEF RulesOnStoredRows, QueryInSync
  <2> QED
    BY <2>1 DEF Support
<1>7. Shown(Stored) = DOMAIN Derived(base)
  BY <1>3, <1>6 DEF ViewsShown
<1>8. {y \in Stored : y[2] \notin DOMAIN can} = {y \in Stored : y[1] \notin WrittenTables}
  BY <1>4
<1> QED
  BY <1>1, <1>5, <1>7, <1>8 DEF ViewsOfClasses, Shown

\* All that is stored, rows of views included, is determined by the set of applied
\* commits: the rows of commits are their congruence closure, and the others what the
\* views derive from it, neither more nor less.
THEOREM ContentsAreMeant ==
  ViewsClosed /\ ViewsCount /\ CommitsApart /\ Accepts({})
    => (Spec /\ []NoViewRefused /\ []NoViewTwin /\ []NothingStale => []ContentsOfCommits)
<1> SUFFICES ASSUME ViewsClosed, ViewsCount, CommitsApart, Accepts({})
             PROVE  Spec /\ []NoViewRefused /\ []NoViewTwin /\ []NothingStale
                      => []ContentsOfCommits
  OBVIOUS
<1>1. /\ Spec /\ []NoViewRefused /\ []NoViewTwin /\ []NothingStale => []ViewsShown
      /\ Spec /\ []NoViewTwin /\ []NothingStale => []AtRest
      /\ Spec /\ []NoViewRefused => []RulesOnStoredRows
  BY ViewsShownHolds, AtRestHolds, RulesKept
<1>2. AtRest /\ ViewsShown /\ RulesOnStoredRows => ContentsOfCommits
  BY RowsAtRest, ViewsAtRest DEF AtRest, ContentsOfCommits
<1> QED
  BY <1>1, <1>2, PTL

-----------------------------------------------------------------------------
(***************************************************************************)
(* What is asked about stale ids holds at least where commits refer to     *)
(* terms of their own only: rows of other tables are never merged.         *)
(***************************************************************************)
OwnTerms ==
  \A c \in Commit : \A k \in DOMAIN Ops[c] : \A i \in Schema[Ops[c][k].table].ids :
    LET q == Ops[c][k].cells[i]
    IN  q[1] = c \/ ~Schema[WrittenTable(q)].memoized

LEMMA NotMerged ==
  ASSUME NEW can, CanonIn(can, RowId), NEW A \in SUBSET Commit,
         \A cl : IsCongruence(cl, GivenBy(A)) => Within(can, cl),
         NEW r \in Written(Commit), ~Schema[WrittenTable(r)].memoized
  PROVE  Lookup(can, r) = r
<1>1. PICK v : v # NoCommit
  <2>1. 0 # NoCommit \/ 1 # NoCommit
    OBVIOUS
  <2> QED
    BY <2>1
<1>2. PICK cl : cl = [q \in Written(Commit) |-> IF q = r THEN v ELSE NoCommit]
  OBVIOUS
<1>3. \A q : Class(cl, q) = IF q = r THEN v ELSE NoCommit
  BY <1>2 DEF Class, Lookup
<1>4. ASSUME NEW x \in GivenBy(A), Schema[x[1]].memoized PROVE Class(cl, x[2]) = NoCommit
  BY <1>3, <1>4, GivenIs
<1>5. IsCongruence(cl, GivenBy(A))
  BY <1>4 DEF IsCongruence
<1>6. Class(cl, Lookup(can, r)) = Class(cl, r)
  BY <1>5, LookupTwice DEF Within
<1> QED
  BY <1>1, <1>3, <1>6

LEMMA NeverStale ==
  ViewsClosed /\ CommitsApart /\ OwnTerms => (Spec => []NothingStale)
<1> SUFFICES ASSUME ViewsClosed, CommitsApart, OwnTerms PROVE Spec => []NothingStale
  OBVIOUS
<1>1. ASSUME Base, NeededThen PROVE NothingStale
  <2> SUFFICES ASSUME pc \in Busy, NEW k \in DOMAIN Ops[current],
                      NEW i \in Schema[Ops[current][k].table].ids,
                      NEW q, q = Ops[current][k].cells[i]
               PROVE  q[1] = current \/ Lookup(snap.canon, q) = q
    BY DEF NothingStale
  <2>1. /\ CanonIn(snap.canon, RowId) /\ current \in Commit /\ applied \in SUBSET Commit
        /\ \A cl : IsCongruence(cl, GivenBy(applied)) => Within(snap.canon, cl)
    <3>1. pc \notin {"idle", "unreadable"}
      BY DEF Busy
    <3>2. \A cl : IsCongruence(cl, GivenBy(applied)) => Within(snap.canon, cl)
      BY <1>1, <3>1 DEF NeededThen, Forced
    <3> QED
      BY <1>1, <3>2 DEF Base, ShapeThen, Control
  <2>2. q \in Written(Commit) /\ (q[1] = current \/ ~Schema[WrittenTable(q)].memoized)
    BY <2>1 DEF CommitsApart, OwnTerms
  <2> QED
    BY <2>1, <2>2, NotMerged
<1>2. Spec => [](Needed /\ NeededThen)
  BY NeededHolds
<1>3. Base /\ NeededThen => NothingStale
  BY <1>1
<1> QED
  BY <1>2, <1>3, BaseHolds, PTL

\* Without views, everything stored is a row of a commit.
LEMMA NoViewsAtRest ==
  ASSUME NoViews, CommitsApart, AtRest
  PROVE  ViewsOfClasses
<1> SUFFICES ASSUME pc = "idle" PROVE ViewsOfClasses
  BY DEF ViewsOfClasses
<1>1. PICK can : can = Classes(applied)
  OBVIOUS
<1>2. /\ applied \in SUBSET Commit /\ Given = GivenBy(applied) /\ Alive = FactsOf(rows)
      /\ DOMAIN can = Written(applied) /\ IsCongruence(can, Given)
  BY <1>1, AliveAtRest, ClassesAre, ClosureReached DEF AtRest, Base, Control, Given, Busy, Finite
<1>3. ASSUME NEW x \in Stored PROVE x[2] \in DOMAIN can
  <2>1. x \in Alive
    BY <1>2 DEF Stored, FactsOf
  <2>2. Traced(x, Given, can)
    BY <1>2, <2>1 DEF AtRest, Needed, Forced
  <2>3. ~IsView(x[1])
    <3>1. \A db : DOMAIN Derived(db) = {}
      BY EmptyIsSeq DEF NoViews, EmptyFun
    <3> QED
      BY <3>1 DEF IsView
  <2> QED
    BY <1>2, <2>2, <2>3, GivenIs DEF Traced
<1>4. \A db : DOMAIN Derived(db) = {}
  BY EmptyIsSeq DEF NoViews, EmptyFun
<1> QED
  BY <1>1, <1>3, <1>4 DEF ViewsOfClasses

\* In such a store all that is stored is a function of the set of applied commits,
COROLLARY ContentsWithoutViews ==
  NoViews /\ CommitsApart /\ OwnTerms => (Spec => []ContentsOfCommits)
<1> SUFFICES ASSUME NoViews, CommitsApart, OwnTerms PROVE Spec => []ContentsOfCommits
  OBVIOUS
<1>1. ViewsClosed /\ (Spec => [](NoViewRefused /\ NoViewTwin /\ ViewsOnlyGrow))
  BY WithoutViews
<1>2. /\ Spec => []NothingStale
      /\ Spec /\ []NoViewTwin /\ []NothingStale => []AtRest
      /\ Spec /\ []NoViewTwin /\ []NothingStale => []RowsOfClasses
      /\ Spec /\ []NoViewTwin => []RowsOfCommits
  BY <1>1, NeverStale, AtRestHolds, SameCommitsSameRows, RowsLast
<1>3. AtRest => ViewsOfClasses
  BY NoViewsAtRest
<1>4. RowsOfCommits /\ RowsOfClasses /\ ViewsOfClasses => ContentsOfCommits
  BY DEF ContentsOfCommits
<1> QED
  BY <1>1, <1>2, <1>3, <1>4, PTL

\* and clients read it by whatever id they have.
COROLLARY ReadsWithoutViews ==
  NoViews /\ CommitsApart /\ OwnTerms /\ Accepts({}) /\ RowInEveryCommit
    => (Spec => []ReadsFollowMerges)
<1> SUFFICES ASSUME NoViews, CommitsApart, OwnTerms, Accepts({}), RowInEveryCommit
             PROVE  Spec => []ReadsFollowMerges
  OBVIOUS
<1>1. ViewsClosed /\ (Spec => [](NoViewRefused /\ NoViewTwin /\ ViewsOnlyGrow))
  BY WithoutViews
<1>2. /\ Spec => []NothingStale
      /\ Spec /\ []NoViewRefused /\ []NoViewTwin /\ []NothingStale => []ReadsFollowMerges
  BY <1>1, NeverStale, ReadsFollow
<1> QED
  BY <1>1, <1>2, PTL
=============================================================================
