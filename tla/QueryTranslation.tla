-------------------------- MODULE QueryTranslation --------------------------
(* Translation of a verified program into the query engine's intermediate     *)
(* code, a sequence of statements [name, init]; "" names the expression        *)
(* statement a block ends in. A relational expression is a record whose `op'    *)
(* names the operator. A scalar expression is a term, a variable standing for   *)
(* the column of that name; a condition is a sequence of comparisons, ANDed.    *)
EXTENDS Datalog

CONSTANTS MaxCopies,    \* how many copies of a row a constant can count (u64)
          MaxWeight     \* and how many a backend can carry (i64)

ASSUME CopiesAssumption == MaxWeight \in Nat \ {0} /\ MaxCopies \in Nat /\ MaxCopies >= MaxWeight

----------------------------------------------------------------------------
\* The relations a plan carries: a bag of rows over named columns with keys over
\* them, given as a listing of <<row, copies>> and kept as a function from the
\* rows to their copies. A key is a sequence of column positions. The types of
\* columns and the name of the schema, a label, are left out.

\* The multiplicities of the listed rows, summed: equal bags are equal.
Canonical(listing) ==
    LET copies(row) == MapThenSumSet(LAMBDA i : listing[i][2],
                                     {i \in DOMAIN listing : listing[i][1] = row})
    IN [row \in {listing[i][1] : i \in DOMAIN listing} |-> copies(row)]

ValidRows(columns, rows) ==
    \A row \in DOMAIN rows : Len(row) = Len(columns) /\ rows[row] <= MaxWeight

\* The columns of a row the key picks.
KeyOf(key, row) == [i \in DOMAIN key |-> row[key[i]]]

\* No two rows share the value of a declared key.
ValidKeys(keys, rows) ==
    \A k \in ToSet(keys) : \A r, s \in DOMAIN rows : KeyOf(k, r) = KeyOf(k, s) => r = s

Constant(columns, keys, listing) ==
    LET holding(rows) ==
            IF \E row \in DOMAIN rows : rows[row] > MaxCopies THEN Failed("copies")
            ELSE IF ~ValidRows(columns, rows) THEN Failed("row")
            ELSE IF ~ValidKeys(keys, rows) THEN Failed("key")
            ELSE [ok |-> TRUE,
                  expr |-> [op |-> "constant", columns |-> columns, keys |-> keys, rows |-> rows]]
    IN holding(Canonical(listing))

\* The neutral element of the join: no columns, one row.
Unit == [op |-> "constant", columns |-> <<>>, keys |-> <<>>, rows |-> <<>> :> 1]

----------------------------------------------------------------------------
\* Expressions.

VarExpr(name) == [op |-> "var", name |-> name]
Source(name) == [op |-> "source", name |-> name]
\* A sink that is read by its name; the other kind, "cli", is printed.
Output(sink, relation) ==
    [op |-> "output", sink |-> sink, kind |-> "channel", relation |-> relation]
Union(relations) == [op |-> "union", relations |-> relations]
Projection(relation, attributes) ==
    [op |-> "projection", relation |-> relation, attributes |-> attributes]
Selection(relation, condition) ==
    [op |-> "selection", relation |-> relation, condition |-> condition]
AntiJoin(left, right, on) == [op |-> "antijoin", left |-> left, right |-> right, on |-> on]
MultiJoin(relations, on) ==
    [op |-> "multijoin", relations |-> relations, on |-> on, attributes |-> {}]
FixedPoint(name, init, step) ==
    [op |-> "fixpoint", name |-> name, init |-> init, step |-> step]
Stmt(name, init) == [name |-> name, init |-> init]

Equal(l, r) == [op |-> "=", left |-> l, right |-> r]

\* A selection, unless there is nothing to select by.
Filtered(relation, condition) ==
    IF condition = <<>> THEN relation ELSE Selection(relation, condition)

----------------------------------------------------------------------------
\* One atom: the relation it names, filtered by what it pins down, projected
\* onto its variables in the order it binds them.

FirstBinds(atom) ==
    SelectSeq([i \in DOMAIN atom.binds |-> i],
              LAMBDA i : /\ IsVar(atom.binds[i].term)
                         /\ \A j \in 1 .. i - 1 : atom.binds[j].term # atom.binds[i].term)

AtomVariables(atom) ==
    LET vars(first) == [k \in DOMAIN first |-> atom.binds[first[k]].term.var]
    IN vars(FirstBinds(atom))

AtomConditions(atom, column(_)) ==
    LET first(i) == CHOOSE j \in DOMAIN atom.binds :
                        /\ atom.binds[j].term = atom.binds[i].term
                        /\ \A k \in 1 .. j - 1 : atom.binds[k].term # atom.binds[i].term
        pin(i) == IF IsVar(atom.binds[i].term)
                  THEN Equal(Var(column(first(i))), Var(column(i)))
                  ELSE Equal(Var(column(i)), atom.binds[i].term)
        pins(pinned) == [k \in DOMAIN pinned |-> pin(pinned[k])]
    IN pins(SelectSeq([i \in DOMAIN atom.binds |-> i],
                      LAMBDA i : IsVar(atom.binds[i].term) => first(i) # i))

AtomPlan(atom, predicates) ==
    LET leaf(predicate) == IF IsEdb(predicate) THEN Source(atom.name) ELSE VarExpr(atom.name)
        column(predicate, i) == predicate.columns[atom.binds[i].pos]
        attributes(predicate, first) ==
            [k \in DOMAIN first |-> <<atom.binds[first[k]].term.var,
                                      Var(column(predicate, first[k]))>>]
        over(predicate) ==
            Projection(Filtered(leaf(predicate),
                                AtomConditions(atom, LAMBDA i : column(predicate, i))),
                       attributes(predicate, FirstBinds(atom)))
    IN over(Named(predicates, atom.name))

\* The variables more than one atom binds, in order of first occurrence, with
\* the relations that have them.
JoinVariables(atoms) ==
    LET distinct(all) ==
            SelectSeq([k \in DOMAIN all |-> <<k, all[k]>>],
                      LAMBDA n : \A j \in 1 .. n[1] - 1 : all[j] # n[2])
        occurrences(vars, x) ==
            SelectSeq([i \in DOMAIN vars |-> <<i, Var(x)>>], LAMBDA o : Contains(vars[o[1]], x))
        variables(vars, firsts) ==
            SelectSeq([k \in DOMAIN firsts |->
                          [name |-> firsts[k][2], occurrences |-> occurrences(vars, firsts[k][2])]],
                      LAMBDA v : Len(v.occurrences) > 1)
        of(vars) == variables(vars, distinct(FlattenSeq(vars)))
    IN of([i \in DOMAIN atoms |-> AtomVariables(atoms[i])])

ConjunctiveFragment(atoms, predicates) ==
    LET joined(plans) ==
            CASE Len(plans) = 0 -> Unit
              [] Len(plans) = 1 -> plans[1]
              [] OTHER -> MultiJoin(plans, JoinVariables(atoms))
    IN joined([i \in DOMAIN atoms |-> AtomPlan(atoms[i], predicates)])

\* Mutant: the negated atoms are joined, and removed together.
ConjunctiveQueryJoined(rule, predicates) ==
    LET vars(negated) ==
            FoldLeft(LAMBDA s, a : s \o SelectSeq(AtomVariables(a), LAMBDA x : ~Contains(s, x)),
                     <<>>, negated)
        on(names) == [k \in DOMAIN names |-> <<Var(names[k]), Var(names[k])>>]
        remove(positive, negated) ==
            IF negated = <<>> THEN positive
            ELSE AntiJoin(positive, ConjunctiveFragment(negated, predicates), on(vars(negated)))
    IN Filtered(remove(ConjunctiveFragment(Positive(rule), predicates), Negated(rule)), rule.conds)

\* The positive atoms joined, an antijoin per negated atom on all its
\* variables, and the conditions on top.
ConjunctiveQuery(rule, predicates) ==
    LET on(names) == [k \in DOMAIN names |-> <<Var(names[k]), Var(names[k])>>]
        remove(plan, atom) ==
            AntiJoin(plan, AtomPlan(atom, predicates), on(AtomVariables(atom)))
    IN Filtered(FoldLeft(remove, ConjunctiveFragment(Positive(rule), predicates), Negated(rule)),
                rule.conds)

RulePlan(rule, predicate, predicates) ==
    LET term(c) == (CHOOSE b \in ToSet(rule.head.binds) : b.pos = c).term IN
    Projection(ConjunctiveQuery(rule, predicates),
               [c \in DOMAIN predicate.columns |-> <<predicate.columns[c], term(c)>>])

----------------------------------------------------------------------------
\* Names: `taken' maps every name handed out to the suffix to try next.

Suffixed(id, k) == IF k = 0 THEN id ELSE id \o "#" \o ToString(k)

Mint(st, id) ==
    LET from == IF id \in DOMAIN st.taken THEN st.taken[id] ELSE 0
        free == {k \in from .. from + Cardinality(DOMAIN st.taken) :
                     Suffixed(id, k) \notin DOMAIN st.taken}
        add(taken, name) ==
            [taken |-> IF name \in DOMAIN taken THEN taken ELSE name :> 0 @@ taken,
             names |-> Append(st.names, name)]
        at(k) == add(id :> k + 1 @@ st.taken, Suffixed(id, k))
    IN at(Min(free))

----------------------------------------------------------------------------
\* One component.

\* Mutant: the union of the rules is made a set.
RulesDistinct(predicate, names, chosen, predicates) ==
    LET stmt(k) == Stmt(names[chosen[k]],
                        RulePlan(predicate.rules[chosen[k]], predicate, predicates))
        vars == [k \in DOMAIN chosen |-> VarExpr(names[chosen[k]])]
    IN [stmts |-> [k \in DOMAIN chosen |-> stmt(k)],
        expr |-> IF Len(vars) = 1 THEN vars[1] ELSE [op |-> "distinct", relation |-> Union(vars)]]

\* A statement per rule chosen, and their union.
Rules(predicate, names, chosen, predicates) ==
    LET stmt(k) == Stmt(names[chosen[k]],
                        RulePlan(predicate.rules[chosen[k]], predicate, predicates))
        vars == [k \in DOMAIN chosen |-> VarExpr(names[chosen[k]])]
    IN [stmts |-> [k \in DOMAIN chosen |-> stmt(k)],
        expr |-> IF Len(vars) = 1 THEN vars[1] ELSE Union(vars)]

\* `registered' holds the predicates of the earlier components and of this
\* one; `outputs' the names bound to a sink.
\* A component that is one predicate given from outside.
IsEdbComponent(members) == Len(members) = 1 /\ IsEdb(members[1])

\* The rules that make a component recursive.
ReferencesMember(members, rule) == \E i \in DOMAIN members : References(rule, members[i].name)

TranslateComponent(members, registered, outputs) ==
    LET predicate == members[1]
        id == predicate.name
        numbers == [k \in DOMAIN predicate.rules |-> k]
        recursive(k) == ReferencesMember(members, predicate.rules[k])
        \* the predicate's own name is taken before any rule's
        minted == FoldLeft(LAMBDA st, r : Mint(st, r.id),
                           Mint([taken |-> <<>>, names |-> <<>>], id), predicate.rules)
        fixedPoint(base, step) ==
            FixedPoint(id, base.expr, Append(step.stmts, Stmt("", step.expr)))
        bind(base, relation) ==
            [ok |-> TRUE,
             stmts |-> Append(base.stmts,
                              Stmt(id, IF id \in outputs THEN Output(id, relation) ELSE relation))]
        translated(base, rec, names) ==
            bind(base, IF rec = <<>> THEN base.expr
                       ELSE fixedPoint(base, Rules(predicate, names, rec, registered)))
        split(nonrec, rec, names) ==
            IF nonrec = <<>> THEN Failed("no base case")
            ELSE IF \E r \in ToSet(predicate.rules) : \E a \in ToSet(r.atoms) :
                        a.name \notin Names(registered)
            THEN Failed("unregistered")
            ELSE translated(Rules(predicate, names, nonrec, registered), rec, names)
    IN IF IsEdbComponent(members) THEN [ok |-> TRUE, stmts |-> <<>>]
       ELSE IF Len(members) > 1 THEN Failed("mutual recursion")
       ELSE split(SelectSeq(numbers, LAMBDA k : ~recursive(k)), SelectSeq(numbers, recursive),
                  Tail(minted.names))


----------------------------------------------------------------------------
(* From intermediate code to a plan the incremental backend can build: every *)
(* multi-way join becomes a chain of binary joins, and every variable the     *)
(* slot it is read from, <<scope, slot>>, both counted from 1. An optional     *)
(* list of attributes is a set with one element or none. Aliases, functions    *)
(* and the scalar language beyond comparisons are left out.                    *)


EquiJoin(left, right, on, attributes) ==
    [op |-> "equijoin", left |-> left, right |-> right, on |-> on, attributes |-> attributes]
Distinct(relation) == [op |-> "distinct", relation |-> relation]
Difference(left, right) == [op |-> "difference", left |-> left, right |-> right]

Leaves == {"source", "constant", "var"}
Unary == {"output", "projection", "selection", "distinct"}
Binary == {"antijoin", "equijoin", "difference"}

\* The expressions of a plan, in no order.
RECURSIVE Exprs(_), StmtExprs(_)
Exprs(e) ==
    {e} \union
    (CASE e.op \in Leaves -> {}
       [] e.op \in Unary -> Exprs(e.relation)
       [] e.op \in Binary -> Exprs(e.left) \union Exprs(e.right)
       [] e.op \in {"union", "multijoin"} -> UNION {Exprs(r) : r \in ToSet(e.relations)}
       [] e.op = "fixpoint" -> Exprs(e.init) \union StmtExprs(e.step))
StmtExprs(stmts) == UNION {Exprs(s.init) : s \in ToSet(stmts)}

----------------------------------------------------------------------------
\* Lowering.

ValidJoin(join) ==
    /\ Len(join.relations) >= 2
    /\ \A i, j \in DOMAIN join.on : join.on[i].name = join.on[j].name => i = j
    /\ \A v \in ToSet(join.on) :
          /\ Len(v.occurrences) >= 2
          /\ \A i \in DOMAIN v.occurrences :
                /\ v.occurrences[i][1] \in DOMAIN join.relations
                /\ \A j \in 1 .. i - 1 : v.occurrences[j][1] # v.occurrences[i][1]

\* The first relation to bind a variable has to have it as a column of that
\* name: the chain compares the later occurrences with that column.
Carried(join) ==
    \A v \in ToSet(join.on) :
        LET first == Min({o[1] : o \in ToSet(v.occurrences)}) IN
        \E o \in ToSet(v.occurrences) : o = <<first, Var(v.name)>>

\* The key pairs relation k adds when it enters the chain.
KeysOf(join, k) ==
    LET v(i) == join.on[i]
        met == SelectSeq([i \in DOMAIN join.on |-> i],
                   LAMBDA i : LET rels == {o[1] : o \in ToSet(v(i).occurrences)} IN
                              k \in rels /\ Min(rels) < k)
    IN [m \in DOMAIN met |->
           <<Var(v(met[m]).name), (CHOOSE o \in ToSet(v(met[m]).occurrences) : o[1] = k)[2]>>]

FoldJoin(join) ==
    LET n == Len(join.relations)
        enter(acc, k) == EquiJoin(acc, join.relations[k], KeysOf(join, k),
                                  IF k = n THEN join.attributes ELSE {})
    IN FoldLeft(enter, join.relations[1], [k \in 1 .. n - 1 |-> k + 1])

\* What the one rule of this pass does with a node it is offered.
Offer(e) == IF e.op = "multijoin" THEN FoldJoin(e) ELSE e

\* The children first, then the node: the rewriter's order.
RECURSIVE FoldJoins(_), FoldStmts(_)
FoldJoins(e) ==
    LET each(exprs) == [i \in DOMAIN exprs |-> FoldJoins(exprs[i])]
        rewritten ==
            CASE e.op \in Leaves -> e
              [] e.op \in Unary -> [e EXCEPT !.relation = FoldJoins(@)]
              [] e.op \in Binary -> [e EXCEPT !.left = FoldJoins(@), !.right = FoldJoins(@)]
              [] e.op \in {"union", "multijoin"} -> [e EXCEPT !.relations = each(@)]
              [] e.op = "fixpoint" -> [e EXCEPT !.init = FoldJoins(@), !.step = FoldStmts(@)]
    IN Offer(rewritten)
FoldStmts(stmts) == [i \in DOMAIN stmts |-> Stmt(stmts[i].name, FoldJoins(stmts[i].init))]

\* Walks of the plan until one in which no rule fires.
MaxRounds == 16
RECURSIVE Rewritten(_, _)
Rewritten(stmts, rounds) ==
    LET joins == {e \in StmtExprs(stmts) : e.op = "multijoin"} IN
    IF rounds = 0 THEN Failed("cycle")
    ELSE IF \E j \in joins : ~ValidJoin(j) \/ ~Carried(j) THEN Failed("join")
    ELSE IF joins = {} THEN [ok |-> TRUE, stmts |-> stmts]
    ELSE Rewritten(FoldStmts(stmts), rounds - 1)

\* Fails on a join the fold has no chain for, and if a join survives.
Lower(stmts) ==
    LET lowered == Rewritten(stmts, MaxRounds) IN
    IF lowered.ok /\ \E e \in StmtExprs(lowered.stmts) : e.op = "multijoin"
    THEN Failed("survived") ELSE lowered

----------------------------------------------------------------------------
\* Resolution. A scope is the slot of each name, and how many declarations it
\* has seen.

NewScope == [vars |-> <<>>, declared |-> 0]

Declare(scopes, name) ==
    LET top == scopes[Len(scopes)] IN
    [scopes EXCEPT ![Len(scopes)] =
        [vars |-> name :> top.declared + 1 @@ top.vars, declared |-> top.declared + 1]]

\* The innermost scope that has the name.
SlotOf(scopes, name) ==
    LET having == {k \in DOMAIN scopes : name \in DOMAIN scopes[k].vars} IN
    IF having = {} THEN <<>> ELSE <<Max(having), scopes[Max(having)].vars[name]>>

RECURSIVE ResolveExpr(_, _), ResolveStmts(_, _)
ResolveExpr(e, scopes) ==
    CASE e.op = "var" -> [op |-> "var", name |-> e.name, slot |-> SlotOf(scopes, e.name)]
      [] e.op \in {"source", "constant"} -> e
      [] e.op \in Unary -> [e EXCEPT !.relation = ResolveExpr(@, scopes)]
      [] e.op \in Binary ->
             [e EXCEPT !.left = ResolveExpr(@, scopes), !.right = ResolveExpr(@, scopes)]
      [] e.op \in {"union", "multijoin"} ->
             [e EXCEPT !.relations = [i \in DOMAIN @ |-> ResolveExpr(@[i], scopes)]]
      [] e.op = "fixpoint" ->
             [e EXCEPT !.init = ResolveExpr(@, scopes),
                       !.step = ResolveStmts(@, Declare(Append(scopes, NewScope), e.name)).stmts]

\* An initializer is resolved before its name is declared.
ResolveStmts(stmts, scopes) ==
    LET visit(st, s) ==
            [stmts |-> Append(st.stmts, Stmt(s.name, ResolveExpr(s.init, st.scopes))),
             scopes |-> IF s.name = "" THEN st.scopes ELSE Declare(st.scopes, s.name)]
    IN FoldLeft(visit, [stmts |-> <<>>, scopes |-> scopes], stmts)

Resolve(stmts) ==
    LET resolved == ResolveStmts(stmts, <<NewScope>>).stmts
        nodes == StmtExprs(resolved)
    IN IF \/ \E e \in nodes : e.op = "var" /\ e.slot = <<>>
          \/ \E e \in nodes : e.op = "union" /\ Len(e.relations) < 2
          \/ \E e \in nodes : e.op = "multijoin" /\ ~ValidJoin(e)
       THEN Failed("unresolved") ELSE [ok |-> TRUE, stmts |-> resolved]
=============================================================================
