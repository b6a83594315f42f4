--------------------------- MODULE BatchLowering ---------------------------
(* The batch backend: a plan as one Datalog program for coln-batch, and what *)
(* it reports. Every bound variable is a relation named after it, filled by a  *)
(* rule per union branch, or a base rule and a step rule for a fixed point. A   *)
(* rule body under construction, a frame, is [next, atoms] with numbered         *)
(* variables; the visible columns of an expression are a scope, [columns, names]:*)
(* a column is <<name, term>>, and `names' maps a name to the set of its terms,    *)
(* empty where a join made it ambiguous. Column types and aliases are left out.     *)
EXTENDS QueryTranslation

EmptyFrame == [next |-> 1, atoms |-> <<>>]
HeadOf(columns) == [i \in DOMAIN columns |-> Bind(i, columns[i][2])]
NamesOf(columns) ==
    [n \in {c[1] : c \in ToSet(columns)} |->
        {columns[Max({i \in DOMAIN columns : columns[i][1] = n})][2]}]
Resolves(scope, name) == name \in DOMAIN scope.names /\ scope.names[name] # {}
TermAt(scope, name) == CHOOSE t \in scope.names[name] : TRUE

\* One variable replaced, in the atoms of a body and in a scope.
InTerm(t, from, to) == IF t = Var(from) THEN to ELSE t
\* Mutant: only the atom placed first is rewritten.
InFrameFirst(frame, from, to) ==
    [frame EXCEPT !.atoms[1] =
        [@ EXCEPT !.binds = [b \in DOMAIN @ |-> [@[b] EXCEPT !.term = InTerm(@, from, to)]]]]
InFrame(frame, from, to) ==
    [frame EXCEPT !.atoms = [i \in DOMAIN @ |->
        [@[i] EXCEPT !.binds = [b \in DOMAIN @ |-> [@[b] EXCEPT !.term = InTerm(@, from, to)]]]]]
InScope(scope, from, to) ==
    [columns |-> [i \in DOMAIN scope.columns |->
                     <<scope.columns[i][1], InTerm(scope.columns[i][2], from, to)>>],
     names |-> [n \in DOMAIN scope.names |-> {InTerm(t, from, to) : t \in scope.names[n]}]]

\* A lowered expression, or why it is none.
Done(frame, scope) == [ok |-> TRUE, frame |-> frame, scope |-> scope]

\* A fresh variable per column.
ScopeFromAtom(info, frame) ==
    LET n == Len(info.columns)
        columns == [i \in 1 .. n |-> <<info.columns[i], Var(frame.next + i - 1)>>]
        atom == [name |-> info.relation, positive |-> TRUE, binds |-> HeadOf(columns)]
    IN Done([next |-> frame.next + n, atoms |-> Append(frame.atoms, atom)],
            [columns |-> columns, names |-> NamesOf(columns)])

LowerAttributes(attributes, frame, scope) ==
    LET term(a) == IF IsVar(a) THEN TermAt(scope, a.var) ELSE a
        over(columns) == Done(frame, [columns |-> columns, names |-> NamesOf(columns)])
    IN IF \E i \in DOMAIN attributes :
              IsVar(attributes[i][2]) /\ ~Resolves(scope, attributes[i][2].var)
       THEN Failed("unknown column")
       ELSE over([i \in DOMAIN attributes |-> <<attributes[i][1], term(attributes[i][2])>>])

\* What a join shows of the merged scope of its relations: its attributes, or all
\* columns. The merged names stay, below those of the columns shown.
Attributed(join, frame, merged) ==
    LET shown == IF join.attributes = {} THEN Done(frame, merged)
                 ELSE LowerAttributes(CHOOSE a \in join.attributes : TRUE, frame, merged)
    IN IF ~shown.ok THEN shown
       ELSE [shown EXCEPT !.scope.names = NamesOf(shown.scope.columns) @@ merged.names]

\* A column of the scope pinned to the literal it is compared with.

ApplySelection(condition, frame, scope) ==
    LET c == condition[1]
        name == IF IsVar(c.left) THEN c.left.var ELSE c.right.var
        literal == IF IsVar(c.left) THEN c.right ELSE c.left
        pin(term) ==
            IF IsVar(term)
            THEN Done(InFrame(frame, term.var, literal), InScope(scope, term.var, literal))
            ELSE IF term # literal THEN Failed("already pinned")
            ELSE Done(frame, scope)
    IN IF Len(condition) # 1 \/ c.op # "=" \/ IsVar(c.left) = IsVar(c.right)
       THEN Failed("needs the scalar engine")
       ELSE IF ~Resolves(scope, name) THEN Failed("unknown column")
       ELSE pin(TermAt(scope, name))

\* Two terms made one: the frame and each of the scopes `which' selects, or a
\* failure where they are different literals.
Unify(l, r, st, left, right) ==
    LET replace(from, to, which) ==
            [st EXCEPT !.frame = InFrame(@, from, to),
                       !.scopes = [i \in DOMAIN @ |->
                           IF i \in which THEN InScope(@[i], from, to) ELSE @[i]]]
    IN IF IsVar(l) THEN replace(l.var, r, left)
       ELSE IF IsVar(r) THEN replace(r.var, l, right)
       ELSE IF l = r THEN st ELSE [st EXCEPT !.ok = FALSE]

\* Both sides in one body: every pair unifies a column of each. Only the side
\* whose variable goes is rewritten. A name both sides have is ambiguous, unless
\* a column of the result has it; the other names stay, projected away or not.
LowerEquiJoin(join, frame, left, right) ==
    LET pair(st, p) ==
            IF ~st.ok \/ ~Resolves(st.scopes[1], p[1].var) \/ ~Resolves(st.scopes[2], p[2].var)
            THEN [st EXCEPT !.ok = FALSE]
            ELSE Unify(TermAt(st.scopes[1], p[1].var), TermAt(st.scopes[2], p[2].var), st, {1}, {2})
        merged(l, r) == [n \in DOMAIN l \union DOMAIN r |->
                            IF n \notin DOMAIN r THEN l[n]
                            ELSE IF n \notin DOMAIN l THEN r[n] ELSE {}]
        both(fr, l, r) == Attributed(join, fr, [columns |-> l.columns \o r.columns,
                                                names |-> merged(l.names, r.names)])
        finish(done) == IF ~done.ok THEN Failed("join")
                        ELSE both(done.frame, done.scopes[1], done.scopes[2])
    IN finish(FoldLeft(pair, [ok |-> TRUE, frame |-> frame, scopes |-> <<left, right>>], join.on))

\* Every relation in one body; each variable unifies its occurrences in all of
\* the scopes. It appears once, in the first relation that binds it, and of
\* the other columns the first of a name stays; names are kept as above.
LowerMultiWay(join, frame, scopes) ==
    LET at(st, o) == TermAt(st.scopes[o[1]], o[2].var)
        variable(st, v) ==
            FoldLeft(LAMBDA s, o : IF ~s.ok THEN s
                                   ELSE Unify(at(s, v.occurrences[1]), at(s, o), s,
                                              DOMAIN scopes, DOMAIN scopes),
                     st, Tail(v.occurrences))
        first(v) == v.occurrences[1]
        carried(k, name) == {v \in ToSet(join.on) : first(v) = <<k, Var(name)>>}
        dropped(k, name) == \E v \in ToSet(join.on) : <<k, Var(name)>> \in ToSet(Tail(v.occurrences))
        add(columns, kc) ==
            LET k == kc[1]
                name == kc[2][1]
            IN IF carried(k, name) # {}
               THEN Append(columns, <<(CHOOSE v \in carried(k, name) : TRUE).name, kc[2][2]>>)
               ELSE IF dropped(k, name) \/ \E c \in ToSet(columns) : c[1] = name THEN columns
               ELSE Append(columns, kc[2])
        tagged(k, columns) == [i \in DOMAIN columns |-> <<k, columns[i]>>]
        all(unified) == FlattenSeq([k \in DOMAIN unified |-> tagged(k, unified[k].columns)])
        scope(columns) == [columns |-> columns, names |-> NamesOf(columns)]
        finish(done) == IF ~done.ok THEN Failed("different literals")
                        ELSE Attributed(join, done.frame,
                                        scope(FoldLeft(add, <<>>, all(done.scopes))))
    IN IF \E v \in ToSet(join.on) : \E o \in ToSet(v.occurrences) :
              ~Resolves(scopes[o[1]], o[2].var)
       THEN Failed("unknown column")
       ELSE finish(FoldLeft(variable, [ok |-> TRUE, frame |-> frame, scopes |-> scopes], join.on))

\* Equal constants share a table. What such a table cannot hold is refused:
\* a row without columns, and a row held more than once.
ConstantName(e) == "__const" \o ToString(<<e.columns, e.keys, e.rows>>)
LowerConstant(e, frame) ==
    IF e.columns = <<>> /\ DOMAIN e.rows # {} THEN Failed("a row without columns")
    ELSE IF \E row \in DOMAIN e.rows : e.rows[row] # 1 THEN Failed("held several times")
    ELSE ScopeFromAtom([relation |-> ConstantName(e), columns |-> e.columns], frame)

\* An expression as atoms of a frame. `env' is the relation and the columns of
\* each variable, `sources' the columns of each base table.
RECURSIVE LowerRel(_, _, _, _)
LowerRel(e, env, sources, frame) ==
    LET add(st, l) == IF ~l.ok THEN l
                      ELSE [st EXCEPT !.frame = l.frame, !.scope = Append(@, l.scope)]
        enter(st, r) == IF ~st.ok THEN st ELSE add(st, LowerRel(r, env, sources, st.frame))
        project(inner) == IF ~inner.ok THEN inner
                          ELSE LowerAttributes(e.attributes, inner.frame, inner.scope)
        select(inner) == IF ~inner.ok THEN inner
                         ELSE ApplySelection(e.condition, inner.frame, inner.scope)
        joinTwo(done) == IF ~done.ok THEN done
                         ELSE LowerEquiJoin(e, done.frame, done.scope[1], done.scope[2])
        joinAll(done) == IF ~done.ok THEN done ELSE LowerMultiWay(e, done.frame, done.scope)
    IN CASE e.op = "var" ->
                IF e.name \in DOMAIN env THEN ScopeFromAtom(env[e.name], frame)
                ELSE Failed("unknown plan variable")
         [] e.op = "source" ->
                IF e.name \in DOMAIN sources
                THEN ScopeFromAtom([relation |-> e.name, columns |-> sources[e.name]], frame)
                ELSE Failed("not in the catalog")
         [] e.op = "constant" -> LowerConstant(e, frame)
         [] e.op = "distinct" -> LowerRel(e.relation, env, sources, frame)
         [] e.op = "projection" -> project(LowerRel(e.relation, env, sources, frame))
         [] e.op = "selection" -> select(LowerRel(e.relation, env, sources, frame))
         [] e.op = "equijoin" -> joinTwo(FoldLeft(enter, Done(frame, <<>>), <<e.left, e.right>>))
         [] e.op = "multijoin" -> joinAll(FoldLeft(enter, Done(frame, <<>>), e.relations))
         [] OTHER -> Failed("not supported here")

----------------------------------------------------------------------------
\* Statements. A lowering is [ok, rules, env, outputs].

RuleFor(head, lowered) ==
    [id |-> head, atoms |-> lowered.frame.atoms, conds |-> <<>>,
     head |-> [name |-> head, positive |-> TRUE, binds |-> HeadOf(lowered.scope.columns)]]

\* The expression as a rule of the relation: a column the body does not bind
\* any more has no term.
PushRule(st, head, e, sources) ==
    LET bound(atoms) == UNION {AtomVars(a) : a \in ToSet(atoms)}
        push(l) ==
            IF ~l.ok THEN l
            ELSE IF \E c \in ToSet(l.scope.columns) :
                        IsVar(c[2]) /\ c[2].var \notin bound(l.frame.atoms)
            THEN Failed("not in the body")
            ELSE [st EXCEPT !.rules = Append(@, RuleFor(head, l)),
                            !.columns = Append(@, [i \in DOMAIN l.scope.columns |->
                                                      l.scope.columns[i][1]])]
    IN IF ~st.ok THEN st ELSE push(LowerRel(e, st.env, sources, EmptyFrame))

Binding(st, name, relation, columns) ==
    [st EXCEPT !.env = name :> [relation |-> relation, columns |-> columns] @@ @,
               !.columns = <<>>]

LowerFixedPoint(st, name, e, sources) ==
    LET finish(base, step) ==
            IF ~step.ok THEN step
            ELSE IF Len(step.columns[1]) # Len(base.columns[1]) THEN Failed("schema")
            ELSE [step EXCEPT !.env = st.env, !.columns = base.columns]
        from(base) ==
            IF ~base.ok THEN base
            ELSE IF Len(e.step) # 1 \/ e.step[1].name # "" THEN Failed("one expression expected")
            ELSE finish(base, PushRule(Binding(base, e.name, name, base.columns[1]),
                                       name, e.step[1].init, sources))
    IN from(PushRule(st, name, e.init, sources))

LowerVarStmt(st, s, sources) ==
    LET filled ==
            CASE s.init.op = "fixpoint" -> LowerFixedPoint(st, s.name, s.init, sources)
              [] s.init.op = "union" ->
                     FoldLeft(LAMBDA t, r : PushRule(t, s.name, r, sources), st, s.init.relations)
              [] OTHER -> PushRule(st, s.name, s.init, sources)
        bind(done) ==
            IF ~done.ok THEN done
            ELSE IF \E i \in DOMAIN done.columns : Len(done.columns[i]) # Len(done.columns[1])
            THEN Failed("schema")
            ELSE Binding(done, s.name, s.name, done.columns[1])
    IN IF s.init.op = "var"
       THEN IF s.init.name \in DOMAIN st.env
            THEN [st EXCEPT !.env = s.name :> st.env[s.init.name] @@ @]
            ELSE Failed("unknown plan variable")
       ELSE bind(filled)

LowerOutputStmt(st, e) ==
    IF e.op # "output" \/ e.relation.op # "var" THEN Failed("outputs tap a variable")
    ELSE IF e.relation.name \notin DOMAIN st.env THEN Failed("unknown plan variable")
    ELSE IF e.kind = "cli" THEN st
    ELSE [st EXCEPT !.outputs = e.sink :> st.env[e.relation.name].relation @@ @]

LowerPlan(stmts, sources) ==
    LET lower(st, s) == IF ~st.ok THEN st
                        ELSE IF s.name = "" THEN LowerOutputStmt(st, s.init)
                        ELSE LowerVarStmt(st, s, sources)
    IN FoldLeft(lower, [ok |-> TRUE, rules |-> <<>>, env |-> <<>>, outputs |-> <<>>,
                        columns |-> <<>>], stmts)

----------------------------------------------------------------------------
\* Running it: coln-batch computes the least model of the rules over the base
\* tables, those fed and the constants.

\* The net weights of the rows fed to a source, one after the other; a source
\* the plan does not use takes none.
Fed(feeds, source) ==
    LET rows == {f.row : f \in {g \in ToSet(feeds) : g.source = source}}
        weight(r) == MapThenSumSet(LAMBDA i : feeds[i].weight,
                        {i \in DOMAIN feeds : feeds[i].source = source /\ feeds[i].row = r})
    IN [r \in rows |-> weight(r)]

\* The rows present, or the failure of the commit.
Materialized(staged) ==
    IF \E n \in DOMAIN staged : \E r \in DOMAIN staged[n] : staged[n][r] < 0
    THEN Failed("deleted more often than inserted")
    ELSE [ok |-> TRUE,
          tables |-> [n \in DOMAIN staged |-> {r \in DOMAIN staged[n] : staged[n][r] > 0}]]

\* The constants of a plan as base tables.
ConstantTables(stmts) ==
    LET constants == {e \in StmtExprs(stmts) : e.op = "constant"}
        named(n) == CHOOSE c \in constants : ConstantName(c) = n
    IN [n \in {ConstantName(c) : c \in constants} |-> DOMAIN named(n).rows]

\* What a commit computes.
Committed(rules, tables) ==
    LET heads == {rules[i].head.name : i \in DOMAIN rules}
        binds(n) == (CHOOSE r \in ToSet(rules) : r.head.name = n).head.binds
        predicate(n) == [name |-> n, columns |-> binds(n),
                         rules |-> SelectSeq(rules, LAMBDA r : r.head.name = n)]
    IN LeastFixpoint({predicate(n) : n \in heads}, [n \in heads |-> {}] @@ tables)

\* The relation each sink names, as a set of rows, once the sources are fed and
\* committed.
Snapshots(stmts, lowered, feeds) ==
    LET used == {e.name : e \in {x \in StmtExprs(stmts) : x.op = "source"}}
        read(relations) ==
            [ok |-> TRUE,
             rows |-> [sink \in DOMAIN lowered.outputs |-> relations[lowered.outputs[sink]]]]
        commit(sources) ==
            IF ~sources.ok THEN sources
            ELSE read(Committed(lowered.rules, ConstantTables(stmts) @@ sources.tables))
    IN commit(Materialized([n \in used |-> Fed(feeds, n)]))

============================================================================
