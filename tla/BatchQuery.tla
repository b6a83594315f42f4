----------------------------- MODULE BatchQuery -----------------------------
(* Relations of coln-batch: the key encoding of values, Z-sets (rows with   *)
(* integer weights), the string dictionary and the sorted table.            *)
(* A relation is its column types and its list of rows; a row is its keys   *)
(* and its weight, and a list may repeat a row until it is consolidated.    *)
(* Column names and the Arrow encoding are left out.                        *)
EXTENDS Integers, Sequences, FiniteSets, SequencesExt, TLC

CONSTANT KeyMax   \* the largest key, u64::MAX in the code

ASSUME KeyMaxAssumption == KeyMax \in Nat /\ KeyMax % 2 = 1

Keys == 0 .. KeyMax
Half == (KeyMax + 1) \div 2      \* SIGN_BIT
None == -1                       \* no key

\* A value is <<its type, its payload>>; the payload of a character is its
\* scalar value, and 1 stands for the scalar values char::from_u32 refuses.
Types == {"uint", "iint", "bool", "char", "string"}
TypeOf(v) == v[1]
IsScalarValue(c) == c # 1

Code(dict, s) ==
    IF \E i \in DOMAIN dict : dict[i] = s
    THEN (CHOOSE i \in DOMAIN dict : dict[i] = s) - 1 ELSE None

Intern(dict, s) == IF Code(dict, s) # None THEN dict ELSE Append(dict, s)

KeyIfKnown(v, dict) ==
    CASE v[1] = "iint"   -> (v[2] + Half) % (KeyMax + 1)
      [] v[1] = "bool"   -> IF v[2] THEN 1 ELSE 0
      [] v[1] = "string" -> Code(dict, v[2])
      [] OTHER           -> v[2]

\* The dictionary after Value::to_key.
Interned(dict, v) == IF v[1] = "string" THEN Intern(dict, v[2]) ELSE dict

\* The value behind a key of a type, or <<>> where the decoding fails.
FromKey(ty, key, dict) ==
    CASE ty = "uint" -> <<ty, key>>
      [] ty = "iint" -> <<ty, ((key + Half) % (KeyMax + 1))
                               - (IF key < Half THEN KeyMax + 1 ELSE 0)>>
      [] ty = "bool" -> IF key \in {0, 1} THEN <<ty, key = 1>> ELSE <<>>
      [] ty = "char" -> IF IsScalarValue(key) THEN <<ty, key>> ELSE <<>>
      [] ty = "string" -> IF key + 1 \in DOMAIN dict
                          THEN <<ty, dict[key + 1]>> ELSE <<>>

----------------------------------------------------------------------------
\* Rows and Z-sets.

Row(key, w) == [key |-> key, w |-> w]
Relation(types, rows) == [types |-> types, rows |-> rows]

SumSeq(s) ==
    LET upTo[i \in 0 .. Len(s)] == IF i = 0 THEN 0 ELSE upTo[i - 1] + s[i]
    IN upTo[Len(s)]

\* Lexicographic order of two rows, columns taken in the order `order'.
Before(order, a, b) ==
    \E i \in DOMAIN order :
        /\ a[order[i]] < b[order[i]]
        /\ \A j \in 1 .. i - 1 : a[order[j]] = b[order[j]]

Columns(k) == [i \in DOMAIN k |-> i]
RowLess(a, b) == Before(Columns(a), a, b)

\* The net weight of a row: the sum over its copies.
Net(rows, k) ==
    SumSeq([i \in DOMAIN rows |-> IF rows[i].key = k THEN rows[i].w ELSE 0])

\* Sort, add up the copies of a row, drop the rows of net weight 0.
Consolidate(rows) ==
    LET sorted == SortSeq(rows, LAMBDA a, b : RowLess(a.key, b.key))
        gather(out, r) ==
            IF out # <<>> /\ Last(out).key = r.key
            THEN [out EXCEPT ![Len(out)].w = @ + r.w] ELSE Append(out, r)
    IN SelectSeq(FoldLeft(gather, <<>>, sorted), LAMBDA r : r.w # 0)

IsConsolidated(rows) ==
    /\ \A i \in 2 .. Len(rows) : RowLess(rows[i - 1].key, rows[i].key)
    /\ \A i \in DOMAIN rows : rows[i].w # 0

Distinct(rows) ==
    LET ones(positive) == [i \in DOMAIN positive |-> Row(positive[i].key, 1)]
    IN ones(SelectSeq(Consolidate(rows), LAMBDA r : r.w > 0))

\* self + sign * other, two row lists in normal form merged in one pass.
RECURSIVE MergeRows(_, _, _)
MergeRows(a, b, sign) ==
    IF a = <<>> /\ b = <<>> THEN <<>> ELSE
    LET aFirst == a # <<>> /\ (b = <<>> \/ RowLess(a[1].key, b[1].key))
        bFirst == b # <<>> /\ (a = <<>> \/ RowLess(b[1].key, a[1].key))
        row == CASE aFirst -> a[1]
                 [] bFirst -> Row(b[1].key, sign * b[1].w)
                 [] OTHER  -> Row(a[1].key, a[1].w + sign * b[1].w)
    IN (IF row.w # 0 THEN <<row>> ELSE <<>>)
       \o MergeRows(IF bFirst THEN a ELSE Tail(a),
                    IF aFirst THEN b ELSE Tail(b), sign)

Plus(a, b)  == MergeRows(a, b, 1)
Minus(a, b) == MergeRows(a, b, -1)

\* Encode typed rows; <<FALSE, ...>> when a row has the wrong shape.
FromWeightedRows(types, valued, dict) ==
    LET fits(r) == /\ Len(r.vals) = Len(types)
                   /\ \A c \in DOMAIN types : TypeOf(r.vals[c]) = types[c]
        encode(r, grown) == Row([c \in DOMAIN types |-> KeyIfKnown(r.vals[c], grown)], r.w)
        encoded(grown) ==
            IF \A i \in DOMAIN valued : fits(valued[i])
            THEN [ok |-> TRUE, dict |-> grown,
                  rel |-> Relation(types, [i \in DOMAIN valued |-> encode(valued[i], grown)])]
            ELSE [ok |-> FALSE, dict |-> grown]
    IN encoded(FoldLeft(LAMBDA d, r : FoldLeft(Interned, d, r.vals), dict, valued))

----------------------------------------------------------------------------
\* Sorted tables: rows in the order of a permutation of the columns, searched
\* by column of that order (its depth).

SortedTable(rows, order) ==
    [order |-> order,
     rows  |-> SortSeq(rows, LAMBDA a, b : Before(order, a.key, b.key))]

CellAt(t, row, depth) == t.rows[row].key[t.order[depth]]

\* Binary search for the first position in lo .. hi-1 whose cell is not below v.
RECURSIVE LowerBound(_, _, _, _, _)
LowerBound(t, depth, v, lo, hi) ==
    IF lo >= hi THEN lo ELSE
    LET mid == lo + (hi - lo) \div 2 IN
    IF CellAt(t, mid, depth) < v
    THEN LowerBound(t, depth, v, mid + 1, hi)
    ELSE LowerBound(t, depth, v, lo, mid)

RECURSIVE UpperBound(_, _, _, _, _)
UpperBound(t, depth, v, lo, hi) ==
    IF lo >= hi THEN lo ELSE
    LET mid == lo + (hi - lo) \div 2 IN
    IF CellAt(t, mid, depth) <= v
    THEN UpperBound(t, depth, v, mid + 1, hi)
    ELSE UpperBound(t, depth, v, lo, mid)

\* Ranges are <<start, end>>, the end excluded.
EqualRange(t, depth, v, range) ==
    LET start == LowerBound(t, depth, v, range[1], range[2]) IN
    <<start, UpperBound(t, depth, v, start, range[2])>>

IsEmptyRange(r) == r[1] >= r[2]

\* The contract the executors rely on, as the code checks it in its tests: the
\* order is a permutation, rows are sorted by it, no weight is 0, and on every
\* prefix range the searches find exactly the rows of each key.
RECURSIVE RangeContract(_, _, _)
RangeContract(t, depth, range) ==
    depth > Len(t.order) \/ IsEmptyRange(range) \/
    LET cells == {CellAt(t, i, depth) : i \in range[1] .. range[2] - 1}
        holding(v) == {i \in range[1] .. range[2] - 1 : CellAt(t, i, depth) = v}
    IN /\ CellAt(t, range[1], depth) > 0 =>
             EqualRange(t, depth, CellAt(t, range[1], depth) - 1, range)
                = <<range[1], range[1]>>
       /\ \A v \in cells :
             LET r == EqualRange(t, depth, v, range) IN
             /\ r[1] .. r[2] - 1 = holding(v)
             /\ RangeContract(t, depth + 1, r)

Contract(t) ==
    /\ ToSet(t.order) = DOMAIN t.order
    /\ \A i \in DOMAIN t.rows : t.rows[i].w # 0
    /\ \A i \in 2 .. Len(t.rows) : ~Before(t.order, t.rows[i].key, t.rows[i - 1].key)
    /\ RangeContract(t, 1, <<1, Len(t.rows) + 1>>)

----------------------------------------------------------------------------
\* Arrow batches: columns of typed cells, the weights as a last column.

Failed == [ok |-> FALSE]
WeightColumn == "__weight"
ArrowType == [uint |-> "UInt64", iint |-> "Int64", bool |-> "Boolean",
              char |-> "UInt32", string |-> "Utf8"]

ArrowColumn(name, arrow, cells) ==
    [name |-> name, arrow |-> arrow, cells |-> cells, nulls |-> FALSE]

ToRecordBatch(rel, dict) ==
    LET value(i, c) == FromKey(rel.types[c], rel.rows[i].key[c], dict)
        column(c) == ArrowColumn("c", ArrowType[rel.types[c]],
                                 [i \in DOMAIN rel.rows |-> value(i, c)[2]])
        weights == ArrowColumn(WeightColumn, "Int64",
                               [i \in DOMAIN rel.rows |-> rel.rows[i].w])
    IN IF \E i \in DOMAIN rel.rows : \E c \in DOMAIN rel.types : value(i, c) = <<>>
       THEN Failed
       ELSE [ok |-> TRUE, n |-> Len(rel.rows),
             columns |-> Append([c \in DOMAIN rel.types |-> column(c)], weights)]

FromRecordBatch(batch, dict) ==
    LET cols == batch.columns
        weighted == cols # <<>> /\ Last(cols).name = WeightColumn
        values == IF weighted THEN Front(cols) ELSE cols
        readable(col) ==
            /\ ~col.nulls
            /\ \E ty \in Types : ArrowType[ty] = col.arrow
            /\ col.arrow = "UInt32" => \A c \in ToSet(col.cells) : IsScalarValue(c)
        typeOf(col) == CHOOSE ty \in Types : ArrowType[ty] = col.arrow
        grow(d, col) == IF col.arrow = "Utf8" THEN FoldLeft(Intern, d, col.cells) ELSE d
        key(i, grown) == [c \in DOMAIN values |->
                            KeyIfKnown(<<typeOf(values[c]), values[c].cells[i]>>, grown)]
        read(grown) ==
            [ok |-> TRUE, dict |-> grown,
             rel |-> Relation([c \in DOMAIN values |-> typeOf(values[c])],
                              [i \in 1 .. batch.n |->
                                 Row(key(i, grown), IF weighted THEN Last(cols).cells[i] ELSE 1)])]
    IN IF \/ weighted /\ (Last(cols).nulls \/ Last(cols).arrow # "Int64")
          \/ \E c \in DOMAIN values : ~readable(values[c])
       THEN Failed
       ELSE read(FoldLeft(grow, dict, values))

----------------------------------------------------------------------------
(* Conjunctive queries of coln-batch and the three executors: the chain of  *)
(* hash joins, the worst-case-optimal generic join and the brute-force       *)
(* reference. A term is [var |-> v] or [lit |-> value]; an atom names a       *)
(* relation and has a term per column; variables are 1 .. nvars and their    *)
(* numbers are the elimination order. A catalog is its relations by name and  *)
(* its dictionary. Variable names and error texts are left out.              *)


IsVar(term) == "var" \in DOMAIN term
Var(v) == [var |-> v]
Lit(value) == [lit |-> value]
Atom(rel, terms) == [rel |-> rel, terms |-> terms]

VarsOf(atom) == {atom.terms[c].var : c \in {d \in DOMAIN atom.terms : IsVar(atom.terms[d])}}

Validate(q) ==
    /\ q.atoms # <<>>
    /\ q.head # <<>>
    /\ \A i \in DOMAIN q.atoms : VarsOf(q.atoms[i]) \subseteq 1 .. q.nvars
    /\ 1 .. q.nvars \subseteq UNION {VarsOf(q.atoms[i]) : i \in DOMAIN q.atoms}
    /\ ToSet(q.head) \subseteq 1 .. q.nvars

Unknown == "?"

\* One term met while typing a body: st is [ok, types], a type per variable.
TypeTerm(st, term, colType) ==
    IF colType = Unknown \/ ~st.ok THEN st
    ELSE IF ~IsVar(term) THEN [st EXCEPT !.ok = TypeOf(term.lit) = colType]
    ELSE IF st.types[term.var] = Unknown THEN [st EXCEPT !.types[term.var] = colType]
    ELSE [st EXCEPT !.ok = st.types[term.var] = colType]

\* schemas[name] are the column types of a relation, Unknown where not known
\* yet, and Missing for a name no catalog has.
Missing == <<"missing">>

InferVarTypes(nvars, atoms, schemas) ==
    LET typeAtom(st, a) ==
            LET types == schemas[a.rel] IN
            IF types = Missing \/ Len(types) # Len(a.terms) THEN [st EXCEPT !.ok = FALSE]
            ELSE FoldLeftDomain(LAMBDA s, c : TypeTerm(s, a.terms[c], types[c]), st, a.terms)
    IN FoldLeft(typeAtom, [ok |-> TRUE, types |-> [v \in 1 .. nvars |-> Unknown]], atoms)

Relations(atoms) == {a.rel : a \in ToSet(atoms)}

StoredTypes(cat, name) ==
    IF name \in DOMAIN cat.rels THEN cat.rels[name].types ELSE Missing

Check(q, cat) ==
    IF ~Validate(q) THEN [ok |-> FALSE]
    ELSE InferVarTypes(q.nvars, q.atoms, [n \in Relations(q.atoms) |-> StoredTypes(cat, n)])

\* Check the query and encode its literals: a term becomes [var |-> v] or
\* [key |-> k]. `known' is FALSE if some string literal is in no dictionary.
Prepare(q, cat) ==
    LET enc(term) == IF IsVar(term) THEN term ELSE [key |-> KeyIfKnown(term.lit, cat.dict)]
        prepared(checked, atoms) ==
            IF ~checked.ok THEN [ok |-> FALSE]
            ELSE [ok |-> TRUE, atoms |-> atoms,
                  types |-> [i \in DOMAIN q.head |-> checked.types[q.head[i]]],
                  known |-> \A i \in DOMAIN atoms : \A c \in DOMAIN atoms[i].terms :
                               IsVar(atoms[i].terms[c]) \/ atoms[i].terms[c].key # None]
    IN prepared(Check(q, cat),
                [i \in DOMAIN q.atoms |->
                    [rel |-> q.atoms[i].rel,
                     terms |-> [c \in DOMAIN q.atoms[i].terms |-> enc(q.atoms[i].terms[c])]]])

RowsOf(cat, atom) == cat.rels[atom.rel].rows
Result(p, rows) == [ok |-> TRUE, rel |-> Relation(p.types, Consolidate(rows))]

----------------------------------------------------------------------------
\* The reference executor: every combination of rows, atom by atom.

Unbound == -1

\* Unify a row with an atom's terms; the binding extended, or <<>>.
Unify(atom, key, binding) ==
    LET step(b, c) ==
            LET t == atom.terms[c] IN
            IF b = <<>> THEN <<>>
            ELSE IF ~IsVar(t) THEN (IF key[c] = t.key THEN b ELSE <<>>)
            ELSE IF b[t.var] = Unbound THEN [b EXCEPT ![t.var] = key[c]]
            ELSE IF b[t.var] = key[c] THEN b ELSE <<>>
    IN FoldLeftDomain(step, binding, atom.terms)

RECURSIVE Search(_, _, _, _, _, _)
Search(q, atoms, cat, i, weight, binding) ==
    IF i > Len(atoms)
    THEN <<Row([h \in DOMAIN q.head |-> binding[q.head[h]]], weight)>>
    ELSE LET go(w, b) == IF b = <<>> THEN <<>> ELSE Search(q, atoms, cat, i + 1, w, b)
             extend(out, row) ==
                out \o go(weight * row.w, Unify(atoms[i], row.key, binding))
         IN FoldLeft(extend, <<>>, RowsOf(cat, atoms[i]))

ReferenceJoin(q, cat) ==
    LET join(p) ==
            IF ~p.ok THEN Failed
            ELSE Result(p, IF ~p.known THEN <<>>
                           ELSE Search(q, p.atoms, cat, 1, 1, [v \in 1 .. q.nvars |-> Unbound]))
    IN join(Prepare(q, cat))

----------------------------------------------------------------------------
\* Executor 1: a left-deep chain of hash joins. The intermediate result is a
\* list of bindings, each a row over the variables bound so far (`bound' gives
\* the column of a variable, 0 for none).

FirstColumn(atom, v) ==
    CHOOSE c \in DOMAIN atom.terms :
        /\ atom.terms[c] = Var(v)
        /\ \A d \in DOMAIN atom.terms : atom.terms[d] = Var(v) => c <= d

\* The atom's rows that pass its literals and its repeated variables.
Filtered(atom, rows) ==
    SelectSeq(rows, LAMBDA r : \A c \in DOMAIN atom.terms :
        IF IsVar(atom.terms[c])
        THEN r.key[c] = r.key[FirstColumn(atom, atom.terms[c].var)]
        ELSE r.key[c] = atom.terms[c].key)

JoinAtom(st, atom, rows) ==
    LET isFirst(c) == /\ IsVar(atom.terms[c])
                      /\ FirstColumn(atom, atom.terms[c].var) = c
        isBound(c) == st.bound[atom.terms[c].var] # 0
        matches(shared, b, r) == \A i \in DOMAIN shared :
                                    b.key[st.bound[atom.terms[shared[i]].var]] = r.key[shared[i]]
        joined(new, b, r) == Row(b.key \o [i \in DOMAIN new |-> r.key[new[i]]], b.w * r.w)
        probe(new, b, found) == [i \in DOMAIN found |-> joined(new, b, found[i])]
        place(new, v) ==
            IF \E i \in DOMAIN new : atom.terms[new[i]].var = v
            THEN st.width + CHOOSE i \in DOMAIN new : atom.terms[new[i]].var = v
            ELSE st.bound[v]
        \* No variables: the atom scales the bindings by its weight.
        scale(factor) ==
            IF factor = 0 THEN [st EXCEPT !.rows = <<>>]
            ELSE [st EXCEPT !.rows = [i \in DOMAIN st.rows |->
                                        Row(st.rows[i].key, st.rows[i].w * factor)]]
        join(shared, new, kept) ==
            [width |-> st.width + Len(new),
             bound |-> [v \in DOMAIN st.bound |-> place(new, v)],
             rows  |-> FlattenSeq([j \in DOMAIN st.rows |->
                          probe(new, st.rows[j],
                                SelectSeq(kept, LAMBDA r : matches(shared, st.rows[j], r)))])]
        joinOn(firsts, kept) ==
            IF firsts = <<>> THEN scale(SumSeq([i \in DOMAIN kept |-> kept[i].w]))
            ELSE join(SelectSeq(firsts, isBound),
                      SelectSeq(firsts, LAMBDA c : ~isBound(c)), kept)
    IN joinOn(SelectSeq(Columns(atom.terms), isFirst), Filtered(atom, rows))

BinaryJoin(q, cat) ==
    LET start == [width |-> 0, bound |-> [v \in 1 .. q.nvars |-> 0], rows |-> <<Row(<<>>, 1)>>]
        join(st, atom) == IF st.rows = <<>> THEN st ELSE JoinAtom(st, atom, RowsOf(cat, atom))
        project(last, b) == Row([h \in DOMAIN q.head |-> b.key[last.bound[q.head[h]]]], b.w)
        projected(last) == [i \in DOMAIN last.rows |-> project(last, last.rows[i])]
        joinAll(p) ==
            IF ~p.ok THEN Failed
            ELSE Result(p, IF ~p.known THEN <<>> ELSE projected(FoldLeft(join, start, p.atoms)))
    IN joinAll(Prepare(q, cat))

----------------------------------------------------------------------------
\* Executor 2: the generic join, one variable at a time.

\* One atom ready to run: its index sorted by literal columns, then by
\* variable; the depths of every variable in that order; its literal prefix.
AtomExec(atom, rows, nvars) ==
    LET rank(c) == IF IsVar(atom.terms[c]) THEN atom.terms[c].var ELSE 0
        keys(lits) == [i \in DOMAIN lits |-> atom.terms[lits[i]].key]
        indexed(order) ==
            [table  |-> SortedTable(rows, order),
             prefix |-> keys(SelectSeq(order, LAMBDA c : ~IsVar(atom.terms[c]))),
             depths |-> [v \in 1 .. nvars |->
                           SelectSeq(Columns(order), LAMBDA d : atom.terms[order[d]] = Var(v))]]
    IN indexed(SortSeq(Columns(atom.terms),
                       LAMBDA c, d : rank(c) < rank(d) \/ (rank(c) = rank(d) /\ c < d)))

\* Mutant: a repeated variable narrows its first column only.
NarrowFirstDepth(a, range, depths, key) ==
    IF depths = <<>> THEN range ELSE EqualRange(a.table, depths[1], key, range)

\* The range of an atom narrowed through a list of depths to one key, stopping
\* at the first empty range.
Narrow(a, range, depths, key) ==
    FoldLeft(LAMBDA r, d : IF IsEmptyRange(r) THEN r ELSE EqualRange(a.table, d, key, r),
             range, depths)

LiteralRange(a) ==
    FoldLeftDomain(LAMBDA r, d : EqualRange(a.table, d, a.prefix[d], r),
                   <<1, Len(a.table.rows) + 1>>, a.prefix)

RangeWeight(a, r) == SumSeq([i \in 1 .. r[2] - r[1] |-> a.table.rows[r[1] + i - 1].w])

\* One round of the leapfrog over the participants, from candidate c.cand: the
\* candidate only grows; `stop' when an atom holds no such key any more.
Leap(c, a, range, v) ==
    IF c.stop THEN c ELSE
    LET d == a.depths[v][1]
        at(pos) == IF pos = range[2] THEN [c EXCEPT !.stop = TRUE]
                   ELSE IF CellAt(a.table, pos, d) > c.cand
                        THEN [c EXCEPT !.cand = CellAt(a.table, pos, d), !.agreed = FALSE]
                        ELSE c
    IN at(LowerBound(a.table, d, c.cand, range[1], range[2]))

RECURSIVE Solve(_, _, _, _, _), BindFrom(_, _, _, _, _, _)

\* Bind variable v to every key all its atoms share, and go on with v + 1; a
\* complete binding weighs the product of the weights in the atoms' ranges.
Solve(q, execs, v, ranges, binding) ==
    IF v > q.nvars
    THEN LET row(w) == IF w = 0 THEN <<>>
                       ELSE <<Row([h \in DOMAIN q.head |-> binding[q.head[h]]], w)>>
         IN row(FoldLeftDomain(LAMBDA acc, i : acc * RangeWeight(execs[i], ranges[i]),
                               1, execs))
    ELSE BindFrom(q, execs, v, ranges, binding, 0)

\* The loop of Solve over the candidates from `cand' on.
BindFrom(q, execs, v, ranges, binding, cand) ==
    LET takesPart(i) == execs[i].depths[v] # <<>>
        narrowed(key) == [i \in DOMAIN execs |->
                            Narrow(execs[i], ranges[i], execs[i].depths[v], key)]
        below(key, new) ==
            IF \A i \in DOMAIN execs : takesPart(i) => ~IsEmptyRange(new[i])
            THEN Solve(q, execs, v + 1, new, [binding EXCEPT ![v] = key])
            ELSE <<>>
        from(leap) ==
            IF leap.stop THEN <<>>
            ELSE IF ~leap.agreed THEN BindFrom(q, execs, v, ranges, binding, leap.cand)
            ELSE below(leap.cand, narrowed(leap.cand))
                 \o (IF leap.cand = KeyMax THEN <<>>   \* checked_add
                     ELSE BindFrom(q, execs, v, ranges, binding, leap.cand + 1))
    IN from(FoldLeftDomain(LAMBDA c, i : IF takesPart(i) THEN Leap(c, execs[i], ranges[i], v) ELSE c,
                           [cand |-> cand, agreed |-> TRUE, stop |-> FALSE], execs))

GenericJoin(q, cat) ==
    LET indexes(p) == [i \in DOMAIN p.atoms |->
                          AtomExec(p.atoms[i], RowsOf(cat, p.atoms[i]), q.nvars)]
        solve(execs, ranges) ==
            IF \E i \in DOMAIN ranges : IsEmptyRange(ranges[i]) THEN <<>>
            ELSE Solve(q, execs, 1, ranges, [v \in 1 .. q.nvars |-> 0])
        start(execs) == solve(execs, [i \in DOMAIN execs |-> LiteralRange(execs[i])])
        join(p) == IF ~p.ok THEN Failed
                   ELSE Result(p, IF ~p.known THEN <<>> ELSE start(indexes(p)))
    IN join(Prepare(q, cat))
=============================================================================
