---------------------------- MODULE CircuitEval ----------------------------
(* What the circuit the incremental backend builds for a plan computes.      *)
(* A relation is [fields, rows]: `fields' are the columns of its tuples, each  *)
(* [name, active], and `rows' the Z-set of <<key, tuple>> pairs, a function to  *)
(* weights other than 0. Streams are modelled by their accumulated contents:    *)
(* what DBSP does with deltas is external, used by what it adds up to. The       *)
(* names of key columns are left out.                                             *)
EXTENDS QueryTranslation

Field(name) == [name |-> name, active |-> TRUE]
Visible(fields) == SelectSeq([i \in DOMAIN fields |-> i], LAMBDA i : fields[i].active)

\* The fields of a row by name; of two of the same name, the later.
Context(fields, tuple) ==
    LET visible == Visible(fields)
        at(n) == Max({i \in ToSet(visible) : fields[i].name = n})
    IN [n \in {fields[i].name : i \in ToSet(visible)} |-> tuple[at(n)]]

Satisfied(condition, ctx) == \A c \in ToSet(condition) : Holds(c, ctx)
Tuple(terms, ctx) == [i \in DOMAIN terms |-> Value(terms[i], ctx)]

----------------------------------------------------------------------------
\* Z-sets.

NoRows == [x \in {} |-> 0]
WeightOf(zset, x) == IF x \in DOMAIN zset THEN zset[x] ELSE 0

\* The Z-set of the weights w[i] at f[i], over the elements i of S.
Gather(S, f(_), w(_)) ==
    LET total(x) == MapThenSumSet(w, {i \in S : f(i) = x})
    IN [x \in {y \in {f(i) : i \in S} : total(y) # 0} |-> total(x)]

\* `image' is what each row becomes, `kept' the rows that pass.
MapRows(zset, image) == Gather(DOMAIN zset, LAMBDA x : image[x], LAMBDA x : zset[x])
Filter(zset, kept) == [x \in kept |-> zset[x]]
Plus(a, b) ==
    LET weight(x) == WeightOf(a, x) + WeightOf(b, x)
    IN [x \in {y \in DOMAIN a \union DOMAIN b : weight(y) # 0} |-> weight(x)]
Minus(a, b) == Plus(a, [x \in DOMAIN b |-> -b[x]])
DistinctRows(zset) == [x \in {y \in DOMAIN zset : zset[y] > 0} |-> 1]

JoinRows(a, b, f(_, _, _)) ==
    LET pairs == {p \in (DOMAIN a) \X (DOMAIN b) : p[1][1] = p[2][1]}
    IN Gather(pairs, LAMBDA p : f(p[1][1], p[1][2], p[2][2]), LAMBDA p : a[p[1]] * b[p[2]])

\* Rows of `a' whose key no row of `b' has.
AntiJoinRows(a, b) ==
    LET keys == Gather(DOMAIN b, LAMBDA x : x[1], LAMBDA x : b[x])
    IN Filter(a, {x \in DOMAIN a : WeightOf(keys, x[1]) <= 0})

----------------------------------------------------------------------------
\* Operators.

\* Only the active fields, in the schema and in the tuples.
Coalesce(rel) ==
    LET visible == Visible(rel.fields)
        keep(s) == [i \in DOMAIN visible |-> s[visible[i]]]
    IN [fields |-> keep(rel.fields),
        rows |-> MapRows(rel.rows, [x \in DOMAIN rel.rows |-> <<x[1], keep(x[2])>>])]

\* The rows under the values of the terms `on' as their key.
Reindex(rel, on) ==
    MapRows(rel.rows,
            [x \in DOMAIN rel.rows |-> <<Tuple(on, Context(rel.fields, x[2])), x[2]>>])

Firsts(pairs) == [i \in DOMAIN pairs |-> pairs[i][1]]
Seconds(pairs) == [i \in DOMAIN pairs |-> pairs[i][2]]
AttributeFields(attributes) == [i \in DOMAIN attributes |-> Field(attributes[i][1])]

\* A column of the right relation is hidden by one of that name of the left.
JoinedFields(left, right) ==
    LET visible(fields) == [i \in DOMAIN Visible(fields) |-> fields[Visible(fields)[i]]]
        shown == {f.name : f \in ToSet(visible(left))}
        hide(f) == IF f.name \in shown THEN [f EXCEPT !.active = FALSE] ELSE f
    IN visible(left) \o [i \in DOMAIN visible(right) |-> hide(visible(right)[i])]

EquiJoinOf(left, right, on, attributes) ==
    LET visible(rel, tuple) == [i \in DOMAIN Visible(rel.fields) |-> tuple[Visible(rel.fields)[i]]]
        joined(k, l, r) == <<k, visible(left, l) \o visible(right, r)>>
        projected(attrs, l, r) ==
            <<<<>>, Tuple(Seconds(attrs), Context(right.fields, r) @@ Context(left.fields, l))>>
        rows(f(_, _, _)) ==
            JoinRows(Reindex(left, Firsts(on)), Reindex(right, Seconds(on)), f)
    IN IF attributes = {}
       THEN [fields |-> JoinedFields(left.fields, right.fields), rows |-> rows(joined)]
       ELSE LET attrs == CHOOSE a \in attributes : TRUE IN
            [fields |-> AttributeFields(attrs),
             rows |-> rows(LAMBDA k, l, r : projected(attrs, l, r))]

\* The first key a relation declares is the one its rows are kept under.
StreamKey(keys) == IF keys = <<>> THEN <<>> ELSE keys[1]
KeyedRows(key, weights) ==
    Gather(DOMAIN weights, LAMBDA r : <<KeyOf(key, r), r>>, LAMBDA r : weights[r])

ColumnFields(columns) == [i \in DOMAIN columns |-> Field(columns[i])]

\* A relation that is fed: rows and their net weights.
SourceOf(columns, keys, weights) ==
    [fields |-> ColumnFields(columns), rows |-> KeyedRows(StreamKey(keys), weights)]

ConstantRows(e) == KeyedRows(StreamKey(e.keys), e.rows)
ConstantOf(e) == [fields |-> ColumnFields(e.columns), rows |-> ConstantRows(e)]

DistinctOf(rel) == [Coalesce(rel) EXCEPT !.rows = DistinctRows(@)]

\* Rows are added, and below subtracted, with their keys: the keys are those
\* each operand came with.
UnionOf(rels) ==
    [Coalesce(rels[1]) EXCEPT
        !.rows = FoldLeft(LAMBDA z, r : Plus(z, Coalesce(r).rows), @, Tail(rels))]

DifferenceOf(left, right) == [Coalesce(left) EXCEPT !.rows = Minus(@, Coalesce(right).rows)]

SelectionOf(rel, condition) ==
    [rel EXCEPT !.rows =
        Filter(@, {x \in DOMAIN @ : Satisfied(condition, Context(rel.fields, x[2]))})]

\* The rows computed anew, under the empty key.
ProjectionOf(rel, attributes) ==
    [fields |-> AttributeFields(attributes),
     rows |-> MapRows(rel.rows, [x \in DOMAIN rel.rows |->
                  <<<<>>, Tuple(Seconds(attributes), Context(rel.fields, x[2]))>>])]

AntiJoinOf(left, right, on) ==
    [fields |-> left.fields,
     rows |-> AntiJoinRows(Reindex(left, Firsts(on)), Reindex(right, Seconds(on)))]

----------------------------------------------------------------------------
\* Evaluation. `base' is the relation of each source, `env' the scopes, each
\* the sequence of the values declared in it.

Define(env, value) == [env EXCEPT ![Len(env)] = Append(@, value)]

RECURSIVE Eval(_, _, _), EvalStmts(_, _, _), Iterate(_, _, _, _, _)
Eval(e, base, env) ==
    LET rel == Eval(e.relation, base, env)
        left == Eval(e.left, base, env)
        right == Eval(e.right, base, env)
    IN CASE e.op = "source" -> base[e.name]
         [] e.op = "constant" -> ConstantOf(e)
         [] e.op = "var" -> env[e.slot[1]][e.slot[2]]
         [] e.op = "output" -> rel
         [] e.op = "distinct" -> DistinctOf(rel)
         [] e.op = "union" -> UnionOf([i \in DOMAIN e.relations |-> Eval(e.relations[i], base, env)])
         [] e.op = "difference" -> DifferenceOf(left, right)
         [] e.op = "selection" -> SelectionOf(rel, e.condition)
         [] e.op = "projection" -> ProjectionOf(rel, e.attributes)
         [] e.op = "equijoin" -> EquiJoinOf(left, right, e.on, e.attributes)
         [] e.op = "antijoin" -> AntiJoinOf(left, right, e.on)
         [] e.op = "fixpoint" ->
                LET init == Coalesce(Eval(e.init, base, env))
                    derived == Iterate(e.step, init, NoRows, base, env)
                IN [init EXCEPT !.rows = Plus(@, derived)]

\* The step reads the initial rows and those derived so far; the derived rows
\* are a set.
Iterate(step, init, derived, base, env) ==
    LET accumulator == [init EXCEPT !.rows = Plus(@, derived)]
        result == EvalStmts(step, base, Append(env, <<accumulator>>)).value
        next == DistinctRows(Coalesce(result).rows)
    IN IF next = derived THEN derived ELSE Iterate(step, init, next, base, env)

\* The outputs of a statement: a relation is tapped and passed on.
Taps(e) == {x \in Exprs(e) : x.op = "output"}

\* The statements in order: the last value, the scopes, and the relation each
\* output taps.
EvalStmts(stmts, base, env0) ==
    LET run(st, s) ==
            LET value == Eval(s.init, base, st.env)
                taps == Taps(s.init)
            IN [value |-> value,
                env |-> IF s.name = "" THEN st.env ELSE Define(st.env, value),
                sinks |-> [n \in {e.sink : e \in taps} |->
                              Eval((CHOOSE e \in taps : e.sink = n).relation, base, st.env)]
                          @@ st.sinks]
    IN FoldLeft(run, [value |-> <<>>, env |-> env0, sinks |-> <<>>], stmts)

\* Every source is described by the catalog.
SourcesResolved(stmts, sources) ==
    \A e \in StmtExprs(stmts) : e.op = "source" => e.name \in sources

\* What an iteration may hold: a value to end in, and no other iteration.
StepsBuild(stmts) ==
    \A e \in StmtExprs(stmts) : e.op = "fixpoint" =>
        /\ e.step # <<>>
        /\ \A x \in StmtExprs(e.step) : x.op \notin {"output", "fixpoint"}

\* The sinks of a kind; no two taps have one name, whatever their kinds. Equal
\* taps of one statement are not told apart.
SinksOf(stmts, kind) ==
    {e.sink : e \in {x \in StmtExprs(stmts) : x.op = "output" /\ x.kind = kind}}
SinksDistinct(stmts) ==
    LET taps == UNION {{i} \X Taps(stmts[i].init) : i \in DOMAIN stmts} IN
    \A s, t \in taps : s[2].sink = t[2].sink => s = t

Builds(stmts, sources) ==
    SourcesResolved(stmts, sources) /\ StepsBuild(stmts) /\ SinksDistinct(stmts)

\* The weights a sink reports. Every column of a row is passed on, those the
\* schema hides included: only rows without any are filtered by it.
Reported(rel) == MapRows(rel.rows, [x \in DOMAIN rel.rows |-> x[2]])

\* Only the sinks that are channels can be read.
Outputs(stmts, base) ==
    LET sinks == EvalStmts(stmts, base, <<<<>>>>).sinks
    IN [n \in SinksOf(stmts, "channel") |-> Reported(sinks[n])]

============================================================================
