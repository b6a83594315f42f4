---------------------------- MODULE FlirProgram ----------------------------
(* A flat realm of the compiler as a logical program. A realm is its table     *)
(* entries [path, kind, columns, keys], definitions [path, definand, arguments,       *)
(* vars, antecedents] and rules [path, vars, antecedents, consequents]; a        *)
(* column or variable is [name, type], its type "rowid" or a builtin one; an      *)
(* element is a term whose variable is an index; a proposition is an atom          *)
(* [entity, row, values], `row' a set with one element or none and a value          *)
(* [column, term], or an equality [left, right]. To the query engine a row id        *)
(* is two columns, the hash and the counter. Native types, spans                         *)
(* and error texts are left out.                                                       *)
EXTENDS Datalog

IsAtom(prop) == "entity" \in DOMAIN prop

----------------------------------------------------------------------------
\* Columns as the query engine sees them.

RowIdCols(prefix) == <<prefix \o "Hash", prefix \o "Ctr">>
SpreadNames(col) == IF col.type = "rowid" THEN RowIdCols(col.name) ELSE <<col.name>>

QueryCols(cols, withRowId) ==
    (IF withRowId THEN RowIdCols("") ELSE <<>>)
        \o FlattenSeq([i \in DOMAIN cols |-> SpreadNames(cols[i])])

\* The query columns of a column, as positions.
QueryIdx(cols, target, withRowId) ==
    LET after(from) == [i \in DOMAIN SpreadNames(cols[target]) |-> from + i] IN
    after((IF withRowId THEN 2 ELSE 0)
          + Len(FlattenSeq([i \in 1 .. target - 1 |-> SpreadNames(cols[i])])))

\* The keys of a table over its query columns. The row id of a base table leads;
\* an empty key, at most one row, is the store's concern.
TableKeys(table) ==
    LET base == table.kind = "table"
        spread(key) == FlattenSeq([i \in DOMAIN key |-> QueryIdx(table.columns, key[i], base)])
        all(declared) == [i \in DOMAIN declared |-> spread(declared[i])]
    IN (IF base THEN <<<<1, 2>>>> ELSE <<>>) \o all(SelectSeq(table.keys, LAMBDA k : k # <<>>))

ResolveElement(el, vars) ==
    IF ~IsVar(el) THEN <<el>>
    ELSE LET names == SpreadNames(vars[el.var]) IN [i \in DOMAIN names |-> Var(names[i])]

----------------------------------------------------------------------------
\* Propositions.

TableOf(realm, entity) ==
    {t \in ToSet(realm.tables) : t.path = entity /\ t.kind \in {"table", "view"}}

\* The first part that failed, or what the parts make together.
FirstFailure(parts, together(_)) ==
    LET bad == {i \in DOMAIN parts : ~parts[i].ok}
    IN IF bad # {} THEN parts[Min(bad)] ELSE together(parts)

\* The positions and terms of an atom, or why it has none. The row id is bound
\* first, then the values in order.
FlirAtom(realm, atom, vars) ==
    LET rowid(el) == [cols |-> <<1, 2>>, terms |-> ResolveElement(el, vars)]
        value(table, b) == [cols |-> QueryIdx(table.columns, b.column, table.kind = "table"),
                            terms |-> ResolveElement(b.term, vars)]
        bound(table) ==
            [i \in 1 .. Cardinality(atom.row) |-> rowid(CHOOSE el \in atom.row : TRUE)]
                \o [i \in DOMAIN atom.values |-> value(table, atom.values[i])]
        binds(b) == [i \in DOMAIN b.cols |-> Bind(b.cols[i], b.terms[i])]
        atomOf(parts) ==
            IF \E i \in DOMAIN parts : Len(parts[i].cols) # Len(parts[i].terms)
            THEN Failed("width")
            ELSE [ok |-> TRUE,
                  atom |-> [name |-> atom.entity, positive |-> TRUE,
                            binds |-> FlattenSeq([i \in DOMAIN parts |-> binds(parts[i])])]]
        over(tables) ==
            IF tables = {} THEN Failed("no schema declared")
            ELSE LET table == CHOOSE t \in tables : TRUE IN
                 IF table.kind = "view" /\ atom.row # {} THEN Failed("unresolved column")
                 ELSE atomOf(bound(table))
    IN over(TableOf(realm, atom.entity))

\* An equality, or two where a row id is compared.
FlirCond(eq, vars) ==
    LET part(s, i) == IF i \in DOMAIN s THEN s[i] ELSE s[1]
        conds(l, r) == [i \in DOMAIN l \union DOMAIN r |->
                           [op |-> "=", left |-> part(l, i), right |-> part(r, i)]]
    IN conds(ResolveElement(eq.left, vars), ResolveElement(eq.right, vars))

ResolvePropositions(realm, props, vars) ==
    LET conds(eqs) == FlattenSeq([i \in DOMAIN eqs |-> FlirCond(eqs[i], vars)])
        all(resolved) ==
            [ok |-> TRUE,
             atoms |-> [i \in DOMAIN resolved |-> resolved[i].atom],
             conds |-> conds(SelectSeq(props, LAMBDA p : ~IsAtom(p)))]
        resolve(atoms) ==
            FirstFailure([i \in DOMAIN atoms |-> FlirAtom(realm, atoms[i], vars)], all)
    IN resolve(SelectSeq(props, IsAtom))

----------------------------------------------------------------------------
\* Rules.

HeadAtom(name, terms) ==
    [name |-> name, positive |-> TRUE, binds |-> [i \in DOMAIN terms |-> Bind(i, terms[i])]]
RuleOf(id, head, atoms, conds) ==
    [id |-> id, head |-> head, atoms |-> atoms, conds |-> conds]
VarTerms(names) == [i \in DOMAIN names |-> Var(names[i])]

\* A base table: the rule that declares it.
EdbRule(table) ==
    RuleOf(table.path, HeadAtom(table.path, VarTerms(QueryCols(table.columns, TRUE))), <<>>, <<>>)

ChasedRule(realm, def) ==
    LET views == {t \in ToSet(realm.tables) : t.path = def.definand /\ t.kind = "view"}
        view == CHOOSE t \in views : TRUE
        terms == FlattenSeq([i \in DOMAIN def.arguments |->
                                ResolveElement(def.arguments[i], def.vars)])
        rule(body) ==
            IF ~body.ok THEN body
            ELSE [ok |-> TRUE, declared |-> <<>>,
                  rules |-> <<RuleOf(def.path, HeadAtom(def.definand, terms),
                                     body.atoms, body.conds)>>]
    IN IF views = {} THEN Failed("undeclared predicate")
       ELSE IF Len(def.arguments) # Len(view.columns) THEN Failed("arguments")
       ELSE rule(ResolvePropositions(realm, def.antecedents, def.vars))

BoundVars(atoms) == UNION {AtomVars(a) : a \in ToSet(atoms)}
StandsAlone(atoms, conds) == UNION {CondVars(c) : c \in ToSet(conds)} \subseteq BoundVars(atoms)

\* A constraint is the bindings of its antecedent for which the helper, the
\* consequent as a predicate of its own, has no row.
Constraint(realm, law) ==
    LET helper == law.path \o "#consequent"
        boundBy(names, atoms) == SelectSeq(names, LAMBDA x : x \in BoundVars(atoms))
        negated(columns) == [HeadAtom(helper, VarTerms(columns)) EXCEPT !.positive = FALSE]
        rules(ante, anteVars, atoms, conds, columns) ==
            [ok |-> TRUE,
             declared |-> <<[name |-> law.path, columns |-> anteVars],
                            [name |-> helper, columns |-> columns]>>,
             rules |-> <<RuleOf(law.path, HeadAtom(law.path, VarTerms(anteVars)),
                                Append(ante.atoms, negated(columns)), ante.conds),
                         RuleOf(helper, HeadAtom(helper, VarTerms(columns)), atoms, conds)>>]
        withHelper(ante, anteVars, atoms, conds) ==
            rules(ante, anteVars, atoms, conds, boundBy(anteVars, atoms))
        constraint(ante, anteVars, cons) ==
            IF StandsAlone(cons.atoms, cons.conds)
            THEN withHelper(ante, anteVars, cons.atoms, cons.conds)
            ELSE withHelper(ante, anteVars, ante.atoms \o cons.atoms, ante.conds \o cons.conds)
        resolved(ante, cons) ==
            IF ~ante.ok THEN ante ELSE IF ~cons.ok THEN cons
            ELSE constraint(ante, boundBy(QueryCols(law.vars, FALSE), ante.atoms), cons)
    IN resolved(ResolvePropositions(realm, law.antecedents, law.vars),
                ResolvePropositions(realm, law.consequents, law.vars))

\* A table entry is a base table or a derived view.
Declared(realm, kind) == SelectSeq(realm.tables, LAMBDA t : t.kind = kind)
DeclarationsPanic(realm) == \E t \in ToSet(realm.tables) : t.kind \notin {"table", "view"}

\* The base tables, the derived views, the constraints, the helpers.
Declarations(realm, limits) ==
    LET declare(t) == [name |-> t.path, columns |-> QueryCols(t.columns, t.kind = "table")]
        all(tables) == [i \in DOMAIN tables |-> declare(tables[i])]
    IN all(Declared(realm, "table")) \o all(Declared(realm, "view"))
          \o [i \in DOMAIN limits |-> limits[i].declared[1]]
          \o [i \in DOMAIN limits |-> limits[i].declared[2]]

\* Declarations, rules and exposed predicates of a realm. A rule without
\* consequents is no constraint.
FromFlatRealm(realm) ==
    LET edb(tables) == [i \in DOMAIN tables |-> EdbRule(tables[i])]
        chased == [i \in DOMAIN realm.definitions |-> ChasedRule(realm, realm.definitions[i])]
        program(laws, limits, parts) ==
            [ok |-> TRUE,
             declarations |-> Declarations(realm, limits),
             rules |-> edb(Declared(realm, "table"))
                           \o FlattenSeq([i \in DOMAIN parts |-> parts[i].rules]),
             outputs |-> {t.path : t \in ToSet(Declared(realm, "view"))}
                             \union {laws[i].path : i \in DOMAIN laws}]
        compiled(laws, limits) ==
            FirstFailure(chased \o limits, LAMBDA parts : program(laws, limits, parts))
        from(laws) == compiled(laws, [i \in DOMAIN laws |-> Constraint(realm, laws[i])])
    IN IF DeclarationsPanic(realm) THEN Failed("panic")
       ELSE from(SelectSeq(realm.rules, LAMBDA r : r.consequents # <<>>))

============================================================================
