---------------------------- MODULE QueryCompile ----------------------------
(* The stages a logical program goes through: its dependency graph is        *)
(* searched for components, the program is verified, every component is       *)
(* translated in execution order, the code is lowered, resolved and built,     *)
(* and the circuit evaluated over base relations. A stage that fails is the    *)
(* last: `phase' then names why.                                               *)
EXTENDS CircuitEval, FlirProgram, BatchLowering, Gabow

CONSTANTS Inputs    \* what there is to compile: a program [kind, declarations,
                    \* rules, base], a realm [kind, realm, base] or a plan
                    \* [kind, sources, code, feeds, weights], `weights' what its
                    \* sink has to report where that is known beforehand

VARIABLES input,    \* one of them
          logical,  \* [declarations, rules, outputs]
          program,  \* the grouped predicates
          phase,
          code,     \* the statements so far
          result    \* what each sink reports

vars == <<input, logical, program, phase, code, result, search>>

IsRealm == input.kind = "realm"
IsPlan == input.kind = "plan"

\* A program exposes every predicate it derives, a realm what FromFlatRealm
\* says. What a realm derives by a fact is base to the query engine.
Derived(prog) == {prog[i].name : i \in {j \in DOMAIN prog : ~IsEdb(prog[j])}}
Outs == IF IsRealm THEN logical.outputs \intersect Derived(program) ELSE Derived(program)

Init ==
    /\ input \in Inputs
    /\ logical = IF IsRealm \/ IsPlan THEN [declarations |-> <<>>, rules |-> <<>>, outputs |-> {}]
                 ELSE [declarations |-> input.declarations, rules |-> input.rules,
                       outputs |-> {}]
    /\ program = IF IsPlan THEN input.sources ELSE <<>>
    /\ phase = IF IsRealm THEN "flatten" ELSE IF IsPlan THEN "lower" ELSE "group"
    /\ code = IF IsPlan THEN input.code ELSE <<>>
    /\ result = <<>>
    /\ SearchInit(<<>>)

\* Base relations come as rows of query columns, or of a realm's tables: a
\* row id and a value per column, each the sequence of its query columns.
Cells(row) == row.id \o FlattenSeq(row.values)
BaseRows(n) == IF IsRealm THEN {Cells(r) : r \in input.base[n]} ELSE input.base[n]
BaseWeights(n) == IF IsPlan THEN Fed(input.feeds, n) ELSE [r \in BaseRows(n) |-> 1]

\* The keys of a base relation: a program declares none.
SourceKeys(n) ==
    IF IsPlan THEN Named(program, n).keys
    ELSE IF IsRealm THEN TableKeys(CHOOSE t \in TableOf(input.realm, n) : TRUE) ELSE <<>>

BaseRelation(predicate) ==
    SourceOf(predicate.columns, SourceKeys(predicate.name), BaseWeights(predicate.name))

\* The base relations there is a schema for.
SourceNames == IF IsPlan THEN Names(program) ELSE DOMAIN input.base

Stop(why) ==
    phase' = why /\ UNCHANGED <<input, logical, program, code, result, search>>

Flatten ==
    /\ phase = "flatten"
    /\ \E flat \in {FromFlatRealm(input.realm)} :
       IF ~flat.ok THEN Stop(flat.why)
       ELSE /\ logical' = [declarations |-> flat.declarations, rules |-> flat.rules,
                           outputs |-> flat.outputs]
            /\ phase' = "group"
            /\ UNCHANGED <<input, program, code, result, search>>

GroupRules ==
    /\ phase = "group"
    /\ \E grouped \in {Group(logical.declarations, logical.rules)} :
       IF grouped.unmatched # {} THEN Stop("unmatched rules")
       ELSE /\ program' = grouped.program
            /\ phase' = "search"
            /\ adj' = Adjacency(Vertices(grouped.program))
            /\ preorder' = [u \in DOMAIN adj' |-> 0]
            /\ component' = [u \in DOMAIN adj' |-> 0]
            /\ UNCHANGED <<input, logical, code, result, counter, path, roots, stack, sccs, root>>

Search ==
    /\ phase = "search"
    /\ SearchNext
    /\ UNCHANGED <<input, logical, program, phase, code, result>>

\* The malformations are looked at before the components.
Verify ==
    /\ phase = "search"
    /\ Decided
    /\ IF ~WellFormed(program) THEN Stop("malformed")
       ELSE IF ~IsStratifiable(Vertices(program), component) THEN Stop("not stratifiable")
       ELSE phase' = "translate" /\ UNCHANGED <<input, logical, program, code, result, search>>

\* Mutant: the last component found first.
MembersReversed(k) ==
    LET c == sccs[Len(sccs) + 1 - k] IN [i \in DOMAIN c |-> program[c[i]]]

\* The components come in the order the search finds them.
Members(k) == [i \in DOMAIN sccs[k] |-> program[sccs[k][i]]]

\* The components in execution order, until one fails.
Translate ==
    /\ phase = "translate"
    /\ LET registered(k) == FlattenSeq([j \in 1 .. k |-> Members(j)])
           append(st, t) == IF ~t.ok THEN t ELSE [st EXCEPT !.stmts = @ \o t.stmts]
           add(st, k) == IF ~st.ok THEN st
                         ELSE append(st, TranslateComponent(Members(k), registered(k), Outs))
       IN \E done \in {FoldLeftDomain(add, [ok |-> TRUE, stmts |-> <<>>], sccs)} :
             IF ~done.ok THEN Stop(done.why)
             ELSE /\ code' = done.stmts
                  /\ phase' = "lower"
                  /\ UNCHANGED <<input, logical, program, result, search>>

LowerCode ==
    /\ phase = "lower"
    /\ \E lowered \in {Lower(code)} :
       IF ~lowered.ok THEN Stop(lowered.why)
       ELSE /\ code' = lowered.stmts
            /\ phase' = "resolve"
            /\ UNCHANGED <<input, logical, program, result, search>>

ResolveCode ==
    /\ phase = "resolve"
    /\ \E resolved \in {Resolve(code)} :
       IF ~resolved.ok THEN Stop(resolved.why)
       ELSE /\ code' = resolved.stmts
            /\ phase' = "build"
            /\ UNCHANGED <<input, logical, program, result, search>>

Evaluate ==
    /\ phase = "build"
    /\ IF ~Builds(code, SourceNames) THEN Stop("unbuilt")
       ELSE /\ result' = Outputs(code, [n \in SourceNames |-> BaseRelation(Named(program, n))])
            /\ phase' = "done"
            /\ UNCHANGED <<input, logical, program, code, search>>

Next ==
    \/ Flatten
    \/ GroupRules
    \/ Search
    \/ Verify
    \/ Translate
    \/ LowerCode
    \/ ResolveCode
    \/ Evaluate

Spec == Init /\ [][Next]_vars

----------------------------------------------------------------------------
\* What a realm means.

\* An assignment gives a variable, by its index, the cells of its value.
Matches(s, el, cells) ==
    IF ~IsVar(el) THEN (IF <<el.lit>> = cells THEN {s} ELSE {})
    ELSE IF el.var \in DOMAIN s THEN (IF s[el.var] = cells THEN {s} ELSE {})
    ELSE {el.var :> cells @@ s}

MatchesRow(s, atom, row) ==
    LET ids == UNION {Matches(s, el, row.id) : el \in atom.row}
        start == IF atom.row = {} THEN {s} ELSE ids
        value(S, b) == UNION {Matches(t, b.term, row.values[b.column]) : t \in S}
    IN FoldLeft(value, start, atom.values)

\* The ways to extend the assignment so that all the propositions hold.
Solutions(s, props, relations) ==
    LET extend(S, p) ==
            IF IsAtom(p) THEN UNION {MatchesRow(t, p, row) : t \in S, row \in relations[p.entity]}
            ELSE S
        cells(el, t) == IF IsVar(el) THEN t[el.var] ELSE <<el.lit>>
        equal(t) == \A i \in DOMAIN props :
                        IsAtom(props[i]) \/ cells(props[i].left, t) = cells(props[i].right, t)
    IN {t \in FoldLeft(extend, {s}, props) : equal(t)}

RowsOf(def, relations) ==
    LET arguments(t) == [i \in DOMAIN def.arguments |->
                            IF IsVar(def.arguments[i]) THEN t[def.arguments[i].var]
                            ELSE <<def.arguments[i].lit>>]
    IN {[id |-> <<>>, values |-> arguments(t)] : t \in Solutions(<<>>, def.antecedents, relations)}

\* The realms have no negation below a law: their views are one fixed point.
RECURSIVE Views(_, _)
Views(realm, relations) ==
    LET next == [n \in DOMAIN relations |->
                    relations[n] \union UNION {RowsOf(d, relations) :
                        d \in {x \in ToSet(realm.definitions) : x.definand = n}}]
    IN IF next = relations THEN relations ELSE Views(realm, next)

RealmRelations ==
    Views(input.realm, input.base @@ [t \in {x.path : x \in ToSet(input.realm.tables)} |-> {}])

\* The bindings of a law's antecedent no binding of its consequent extends.
Violations(law) ==
    LET bound == {t \in Solutions(<<>>, law.antecedents, RealmRelations) :
                    Solutions(t, law.consequents, RealmRelations) = {}}
        cells(t) == FlattenSeq([i \in DOMAIN law.vars |-> IF i \in DOMAIN t THEN t[i] ELSE <<>>])
    IN {cells(t) : t \in bound}

RealmMeaning(n) ==
    IF \E law \in ToSet(input.realm.rules) : law.path = n
    THEN Violations(CHOOSE law \in ToSet(input.realm.rules) : law.path = n)
    ELSE {Cells(r) : r \in RealmRelations[n]}

----------------------------------------------------------------------------
\* Properties.

Edge(u, v) == v \in ToSet(adj[u])
RECURSIVE ReachFrom(_)
ReachFrom(U) ==
    LET next == U \union {v \in Nodes : \E u \in U : Edge(u, v)}
    IN IF next = U THEN U ELSE ReachFrom(next)
Mutual(u, v) == u = v \/ (v \in ReachFrom({u}) /\ u \in ReachFrom({v}))

\* The components are the strongly connected components of the dependency
\* graph, numbered so that each comes after every component it reads; the
\* sources read no other and the sinks no other reads (graph_utils::Sccs, the
\* execution order and the vertex degrees of the quotient graph).
ComponentsExact ==
    phase \notin {"flatten", "group"} /\ ~IsPlan /\ Decided =>
        /\ \A u, v \in Nodes : (component[u] = component[v]) <=> Mutual(u, v)
        /\ \A u, v \in Nodes : Edge(u, v) => component[v] <= component[u]
        /\ \A k \in DOMAIN sccs :
              /\ ToSet(sccs[k]) = {u \in Nodes : component[u] = k}
              /\ Cardinality(ToSet(sccs[k])) = Len(sccs[k])
        /\ LET vertices == Vertices(program)
               reads(k, l) == k # l /\ \E u \in ToSet(sccs[k]), v \in ToSet(sccs[l]) : Edge(u, v)
           IN /\ Sources(sccs, vertices, component)
                    = {k \in DOMAIN sccs : \A l \in DOMAIN sccs : ~reads(k, l)}
              /\ Sinks(sccs, vertices, component)
                    = {k \in DOMAIN sccs : \A l \in DOMAIN sccs : ~reads(l, k)}

\* Some assignment of levels puts a predicate at least as high as those its
\* rules use, and above those they negate.
HasStratification ==
    \E level \in [Names(program) -> 1 .. Len(program)] :
        \A p \in ToSet(program) : \A r \in ToSet(p.rules) : \A a \in ToSet(r.atoms) :
            level[a.name] + (IF a.positive THEN 0 ELSE 1) <= level[p.name]

\* A well-formed program is rejected as not stratifiable if and only if it has
\* no stratification, though the check only looks for a negative edge within
\* a component.
VerdictIsStratification ==
    /\ phase = "not stratifiable" => ~HasStratification
    /\ phase = "translate" => HasStratification

\* A verified program compiles: past the verification it is only rejected for
\* the recursion the translation has no code for, as translation.rs says of
\* each. No rewriting, resolution or build fails on code it emitted, except
\* where a realm reads a view that is a fact, which is not in the catalog.
FactsRead ==
    \E p, q \in ToSet(program) :
        /\ IsEdb(p) /\ p.name \notin SourceNames
        /\ \E r \in ToSet(q.rules) : References(r, p.name)
MutualRecursion == \E u, v \in Nodes : u # v /\ Mutual(u, v)
NoBaseCase ==
    \E p \in ToSet(program) : \A r \in ToSet(p.rules) : References(r, p.name)
VerifiedCompiles == ~IsPlan =>
    /\ phase \notin {"join", "cycle", "survived", "unresolved", "unregistered"}
    /\ phase = "unbuilt" => FactsRead
    /\ phase = "mutual recursion" => MutualRecursion
    /\ phase = "no base case" => NoBaseCase
    /\ phase = "done" => ~MutualRecursion /\ ~NoBaseCase

\* Every exposed relation is reported, with exactly the rows the program
\* means by its rules read as logic: the stratified model of a program, and of
\* a realm the rows of each view and the violations of each law, whatever
\* joins, antijoins, helper predicates, name suffixes and slots the stages in
\* between made of them.
OutputsAreMeaning ==
    phase = "done" /\ ~IsPlan =>
        /\ DOMAIN result = Outs
        /\ \A n \in Outs :
              DOMAIN result[n] =
                  IF IsRealm THEN RealmMeaning(n) ELSE Model(program, input.base)[n]

\* A row's weight is the number of ways to derive it, the weights of the rows
\* it is derived from multiplied, and for a recursive predicate the ways of
\* its base rules plus one if the step derives it: what a reader of a sink sees
\* as a change is a count that crosses zero, not the row's one insertion. Of a
\* constant, every listed copy counts, as expr.rs says of a bag.
WeightsCountDerivations ==
    /\ phase = "done" /\ IsPlan =>
          \A w \in input.weights : \A sink \in DOMAIN result : result[sink] = w
    /\ phase = "done" /\ ~IsRealm /\ ~IsPlan =>
        LET model == Model(program, input.base)
            weight(n, row) == IF n \in DOMAIN result THEN result[n][row] ELSE 1
            ways(r, c, row) ==
                MapThenSumSet(
                    LAMBDA w : FoldLeft(LAMBDA m, x : m * x, 1, [i \in DOMAIN w.rows |->
                                                  weight(Positive(r)[i].name, w.rows[i])]),
                    {w \in Ways(r, model) : HeadRow(r, c, w.s) = row})
            count(p, rules, row) ==
                MapThenSumSet(LAMBDA k : ways(p.rules[k], p.columns, row),
                              {k \in DOMAIN p.rules : rules = References(p.rules[k], p.name)})
        IN \A n \in Outs : \A row \in model[n] :
              LET p == Named(program, n)
                  base == count(p, FALSE, row)
                  step == count(p, TRUE, row)
              IN result[n][row] = base + (IF step > 0 THEN 1 ELSE 0)

\* A plan both backends accept gives the same rows on both, however its sources
\* were fed: what the batch backend recomputes from what was fed is the set the
\* incremental one keeps as a Z-set. A variable bound twice is left out: the
\* batch backend gathers the rules of both bindings under the one name, though resolver.rs promises that an
\* initializer reads the binding it shadows.
BoundOnce(stmts) ==
    \A i \in DOMAIN stmts : \A j \in 1 .. i - 1 :
        stmts[i].name # "" => stmts[j].name # stmts[i].name
Agree ==
    \A lowered \in {LowerPlan(input.code, [n \in SourceNames |-> Named(program, n).columns])} :
        lowered.ok =>
            \A reported \in {Snapshots(input.code, lowered, input.feeds)} :
                reported.ok => reported.rows = [n \in DOMAIN result |-> DOMAIN result[n]]
BackendsAgree == phase = "done" /\ IsPlan /\ BoundOnce(input.code) => Agree

============================================================================
