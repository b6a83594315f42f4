------------------------------ MODULE Datalog -------------------------------
(* Logical programs of coln-query: predicates, the rules that define them,   *)
(* and what a program means. A term is [var |-> name] or [lit |-> value]; an  *)
(* atom is [name, positive, binds], its bindings being [pos, term] with the   *)
(* positions counted from 1 and any position left out; a rule is [id, head,   *)
(* atoms, conds]; a predicate is [name, columns, rules]; a program is the     *)
(* sequence of its predicates. Display and error texts are left out.          *)
EXTENDS Integers, Sequences, FiniteSets, FiniteSetsExt, SequencesExt

Failed(why) == [ok |-> FALSE, why |-> why]

IsVar(term) == "var" \in DOMAIN term
Var(x) == [var |-> x]
Lit(v) == [lit |-> v]
Bind(p, term) == [pos |-> p, term |-> term]
VarsIn(terms) == {t.var : t \in {u \in terms : IsVar(u)}}

TermsOf(atom) == {atom.binds[i].term : i \in DOMAIN atom.binds}
AtomVars(atom) == VarsIn(TermsOf(atom))
CondVars(cond) == VarsIn({cond.left, cond.right})
Definand(rule) == rule.head.name
Positive(rule) == SelectSeq(rule.atoms, LAMBDA a : a.positive)
Negated(rule) == SelectSeq(rule.atoms, LAMBDA a : ~a.positive)
References(rule, name) == \E i \in DOMAIN rule.atoms : rule.atoms[i].name = name
Arity(predicate) == Len(predicate.columns)

\* Given from outside: one rule with an empty body, which declares it.
IsEdb(predicate) ==
    /\ Len(predicate.rules) = 1
    /\ predicate.rules[1].atoms = <<>>
    /\ predicate.rules[1].conds = <<>>

\* The rules in the predicates the declarations name, in declaration order; a
\* later declaration of a name replaces the columns of the earlier one in
\* place. `unmatched' are the rules that derive something undeclared.
Group(declarations, rules) ==
    LET names == {declarations[i].name : i \in DOMAIN declarations}
        first(i) == \A j \in 1 .. i - 1 : declarations[j].name # declarations[i].name
        last(n) == Max({i \in DOMAIN declarations : declarations[i].name = n})
        kept == SelectSeq([i \in DOMAIN declarations |-> i], first)
        predicate(n) == [name |-> n, columns |-> declarations[last(n)].columns,
                         rules |-> SelectSeq(rules, LAMBDA r : Definand(r) = n)]
    IN [program |-> [k \in DOMAIN kept |-> predicate(declarations[kept[k]].name)],
        unmatched |-> {i \in DOMAIN rules : Definand(rules[i]) \notin names}]

----------------------------------------------------------------------------
\* What a program means, over relations that are sets of rows.

Value(term, s) == IF IsVar(term) THEN s[term.var] ELSE term.lit

Holds(cond, s) ==
    LET l == Value(cond.left, s)
        r == Value(cond.right, s)
    IN CASE cond.op = "=" -> l = r
         [] cond.op = "#" -> l # r
         [] cond.op = "<" -> l < r

\* The assignment `s' extended so that the atom is the row, if there is one.
Extended(s, atom, row) ==
    LET at(x) == (CHOOSE i \in DOMAIN atom.binds : atom.binds[i].term = Var(x))
        new == [x \in AtomVars(atom) \ DOMAIN s |-> row[atom.binds[at(x)].pos]]
        t == new @@ s
    IN IF \A i \in DOMAIN atom.binds : Value(atom.binds[i].term, t) = row[atom.binds[i].pos]
       THEN {t} ELSE {}

\* Every way to make the body true: an assignment and the row each positive
\* atom is.
Ways(rule, relations) ==
    LET extend(ways, atom) ==
            UNION {{[s |-> t, rows |-> Append(w.rows, row)] : t \in Extended(w.s, atom, row)} :
                       w \in ways, row \in relations[atom.name]}
        matched == FoldLeft(extend, {[s |-> <<>>, rows |-> <<>>]}, Positive(rule))
        refuted(atom, s) == \E row \in relations[atom.name] : Extended(s, atom, row) # {}
    IN {w \in matched :
          /\ \A i \in DOMAIN rule.conds : Holds(rule.conds[i], w.s)
          /\ \A i \in DOMAIN rule.atoms :
                 rule.atoms[i].positive \/ ~refuted(rule.atoms[i], w.s)}

HeadRow(rule, columns, s) ==
    [c \in DOMAIN columns |->
        Value((CHOOSE b \in ToSet(rule.head.binds) : b.pos = c).term, s)]

Derive(predicate, relations) ==
    UNION {{HeadRow(r, predicate.columns, w.s) : w \in Ways(r, relations)} :
               r \in ToSet(predicate.rules)}

Names(program) == {program[i].name : i \in DOMAIN program}
Named(program, n) == program[CHOOSE i \in DOMAIN program : program[i].name = n]
Reads(program, n) ==
    {m \in Names(program) : \E r \in ToSet(Named(program, n).rules) : References(r, m)}

RECURSIVE Reachable(_, _)
Reachable(program, from) ==
    LET next == from \union UNION {Reads(program, n) : n \in from} IN
    IF next = from THEN from ELSE Reachable(program, next)

\* The predicates `n' depends on, through one rule or several.
Below(program, n) == Reachable(program, Reads(program, n))

RECURSIVE LeastFixpoint(_, _)
LeastFixpoint(predicates, relations) ==
    LET next == [p \in {q.name : q \in predicates} |->
                     Derive(CHOOSE q \in predicates : q.name = p, relations)] @@ relations
    IN IF next = relations THEN relations ELSE LeastFixpoint(predicates, next)

\* The relations of a stratified program: a group of predicates that depend on
\* each other is evaluated once everything else it reads is.
RECURSIVE Model(_, _)
Model(program, relations) ==
    LET open == Names(program) \ DOMAIN relations
        ready(n) == \A m \in Below(program, n) \intersect open : n \in Below(program, m)
        n == CHOOSE m \in open : ready(m)
        group == {n} \union (Below(program, n) \intersect open)
    IN IF open = {} THEN relations
       ELSE Model(program, LeastFixpoint({Named(program, m) : m \in group},
                                         [m \in group |-> {}] @@ relations))


----------------------------------------------------------------------------
(* Static analysis of a logical program: its dependency graph, what makes it *)
(* malformed, and the quotient graph of components with its stratification.   *)
(* The components themselves come from the search of module Gabow. Sites and  *)
(* error texts are left out.                                                  *)


Dup(program, i) == \E j \in 1 .. i - 1 : program[j].name = program[i].name

\* The vertices of the graph: the first predicate declared under each name.
Vertices(program) ==
    LET first == SelectSeq([i \in DOMAIN program |-> i], LAMBDA i : ~Dup(program, i))
    IN [k \in DOMAIN first |-> program[first[k]]]

NodeOf(vertices, name) == CHOOSE u \in DOMAIN vertices : vertices[u].name = name

\* An edge per body atom, in order; an atom that names no predicate has none.
LabelledEdges(vertices, u) ==
    LET atoms == FlattenSeq([r \in DOMAIN vertices[u].rules |-> vertices[u].rules[r].atoms])
        known == SelectSeq(atoms, LAMBDA a : a.name \in Names(vertices))
    IN [k \in DOMAIN known |->
           [node |-> NodeOf(vertices, known[k].name), negative |-> ~known[k].positive]]

Adjacency(vertices) ==
    [u \in DOMAIN vertices |->
        LET edges == LabelledEdges(vertices, u) IN [k \in DOMAIN edges |-> edges[k].node]]

----------------------------------------------------------------------------
\* Malformations.

\* Every binding at a column of the predicate, and no column bound twice.
Fits(atom, predicate) ==
    \A i \in DOMAIN atom.binds :
        /\ atom.binds[i].pos <= Arity(predicate)
        /\ \A j \in 1 .. i - 1 : atom.binds[j].pos # atom.binds[i].pos

FillsColumns(rule, predicate) ==
    \A c \in DOMAIN predicate.columns : \E b \in ToSet(rule.head.binds) : b.pos = c

Bound(rule) == UNION {AtomVars(a) : a \in ToSet(Positive(rule))}

\* Every variable of the head, of a negated atom and of a condition is bound
\* by a positive atom.
Safe(rule) ==
    AtomVars(rule.head)
        \union UNION {AtomVars(a) : a \in ToSet(Negated(rule))}
        \union UNION {CondVars(c) : c \in ToSet(rule.conds)} \subseteq Bound(rule)

WellFormedRule(rule, predicate, vertices) ==
    /\ Fits(rule.head, predicate)
    /\ FillsColumns(rule, predicate)
    /\ IsEdb(predicate) \/ Safe(rule)
    /\ \A a \in ToSet(rule.atoms) :
           a.name \in Names(vertices) /\ Fits(a, Named(vertices, a.name))

WellFormed(program) ==
    LET vertices == Vertices(program) IN
    /\ \A i \in DOMAIN program : ~Dup(program, i)
    /\ \A u \in DOMAIN vertices : \A r \in ToSet(vertices[u].rules) :
           WellFormedRule(r, vertices[u], vertices)

----------------------------------------------------------------------------
\* The quotient graph over the components `sccs' with `component' of a node.

CrossEdges(vertices, component) ==
    {e \in [from : ToSet(component), to : ToSet(component)] :
        /\ e.from # e.to
        /\ \E u \in DOMAIN vertices : \E x \in ToSet(LabelledEdges(vertices, u)) :
               component[u] = e.from /\ component[x.node] = e.to}

Sources(sccs, vertices, component) ==
    {k \in DOMAIN sccs : \A e \in CrossEdges(vertices, component) : e.from # k}
Sinks(sccs, vertices, component) ==
    {k \in DOMAIN sccs : \A e \in CrossEdges(vertices, component) : e.to # k}

\* Mutant: only an edge from a predicate to itself is looked at.
NoNegativeLoop(vertices, component) ==
    \A u \in DOMAIN vertices : \A e \in ToSet(LabelledEdges(vertices, u)) :
        e.negative => e.node # u

\* No negative edge within a component.
IsStratifiable(vertices, component) ==
    \A u \in DOMAIN vertices : \A e \in ToSet(LabelledEdges(vertices, u)) :
        e.negative => component[e.node] # component[u]
=============================================================================
