--------------------------- MODULE MCQueryCompile ---------------------------
(* Programs and realms to compile.                                           *)
EXTENDS QueryCompile

Atom(name, terms) == HeadAtom(name, terms)
Not(atom) == [atom EXCEPT !.positive = FALSE]
X == Var("x")
Y == Var("y")
Z == Var("z")
Rule(id, head, atoms) == RuleOf(id, head, atoms, <<>>)
Pred(name, columns) == [name |-> name, columns |-> columns]
Given(name, columns) ==
    RuleOf(name, Atom(name, VarTerms(columns)), <<>>, <<>>)
Program(declarations, rules, base) ==
    [kind |-> "program", declarations |-> declarations, rules |-> rules, base |-> base]

----------------------------------------------------------------------------
\* Every dependency graph with signs: three predicates, each with rows of its
\* own, and a rule per edge.
ABC == <<"a", "b", "c">>
SignedEdge == [from : 1 .. 3, to : 1 .. 3, positive : BOOLEAN]
EdgeRule(e) ==
    Rule("r", Atom(ABC[e.from], <<X>>),
         <<Atom("all", <<X>>), [Atom(ABC[e.to], <<X>>) EXCEPT !.positive = e.positive]>>)
OwnRows(u) ==
    RuleOf("own", Atom(ABC[u], <<X>>), <<Atom("all", <<X>>)>>,
           <<[op |-> "=", left |-> X, right |-> Lit(u)]>>)
SignedProgram(edges) ==
    Program([u \in 1 .. 3 |-> Pred(ABC[u], <<"k">>)] \o <<Pred("all", <<"k">>)>>,
            [u \in 1 .. 3 |-> OwnRows(u)] \o <<Given("all", <<"k">>)>>
                \o [i \in 1 .. Cardinality(edges) |-> EdgeRule(SetToSeq(edges)[i])],
            [all |-> {<<1>>, <<2>>, <<3>>}])
Signed(n) == {SignedProgram(E) : E \in UNION {kSubset(k, SignedEdge) : k \in 0 .. n}}

\* Larger graphs, for the search alone.
ABCD == <<"a", "b", "c", "d">>
PlainEdge == {e \in (1 .. 4) \X (1 .. 4) : e[1] # e[2]}
PlainProgram(edges) ==
    LET seq == SetToSeq(edges) IN
    Program([u \in 1 .. 4 |-> Pred(ABCD[u], <<"k">>)],
            [i \in DOMAIN seq |-> Rule("r", Atom(ABCD[seq[i][1]], <<X>>), <<Atom(ABCD[seq[i][2]], <<X>>)>>)],
            <<>>)
Plain(n) == {PlainProgram(E) : E \in UNION {kSubset(k, PlainEdge) : k \in 3 .. n}}

----------------------------------------------------------------------------
\* Programs over a relation of pairs and one of numbers. The rules `rules'
\* define the predicates `defined'.
Pairs == {<<1, 2>>, <<2, 3>>, <<1, 3>>, <<3, 3>>, <<3, 4>>}
Over(defined, rules) ==
    Program(<<Pred("e", <<"src", "dst">>), Pred("n", <<"k">>)>> \o defined,
            <<Given("e", <<"src", "dst">>), Given("n", <<"k">>)>> \o rules,
            [e |-> Pairs, n |-> {<<1>>, <<2>>, <<4>>}])
E(s, t) == Atom("e", <<s, t>>)
N(x) == Atom("n", <<x>>)
From(x) == [Atom("e", <<x>>) EXCEPT !.binds = <<Bind(1, x)>>]
Into(x) == [Atom("e", <<x>>) EXCEPT !.binds = <<Bind(2, x)>>]
P(s, t) == Atom("path", <<s, t>>)
Paths == <<Pred("path", <<"src", "dst">>)>>

Recursive ==
    {Over(Paths, <<Rule("path", P(X, Y), <<E(X, Y)>>), step>>) :
        step \in {Rule("path", P(X, Z), <<P(X, Y), E(Y, Z)>>),
                  Rule("path#1", P(X, Z), <<P(X, Y), P(Y, Z)>>),
                  Rule("step", P(X, Z), <<E(X, Y), P(Y, Z), N(X)>>),
                  Rule("step", P(Y, X), <<P(X, Y)>>)}}

Joined ==
    {Over(<<Pred("t", <<"x", "y", "z">>)>>,
          <<Rule("t", Atom("t", <<X, Y, Z>>), <<E(X, Y), E(Y, Z), E(X, Z)>>)>>),
     Over(<<Pred("t", <<"k", "src">>)>>,
          <<Rule("t", Atom("t", <<X, Y>>), <<N(X), From(Y)>>)>>),
     Over(<<Pred("t", <<"dst", "src">>)>>,
          <<Rule("t", Atom("t", <<X, Y>>), <<E(Y, X), N(Y)>>),
            Rule("t", Atom("t", <<X, X>>), <<E(X, X)>>),
            Rule("u", Atom("t", <<Y, X>>), <<N(Y), E(X, Y)>>)>>),
     Over(<<Pred("t", <<"k">>)>>,
          <<Rule("one", Atom("t", <<Y>>), <<E(Lit(1), Y)>>),
            RuleOf("less", Atom("t", <<X>>), <<E(X, Y)>>,
                   <<[op |-> "<", left |-> X, right |-> Y], [op |-> "#", left |-> X, right |-> Lit(2)]>>)>>)}

Negative ==
    {Over(<<Pred("t", <<"k">>)>>, <<Rule("t", Atom("t", <<X>>), <<N(X), Not(From(X)), Not(Into(X))>>)>>),
     Over(<<Pred("t", <<"k">>)>>, <<Rule("t", Atom("t", <<X>>), <<Not(E(X, X)), Into(X), Not(N(X))>>)>>),
     Over(<<Pred("t", <<"k">>)>>, <<Rule("t", Atom("t", <<X>>), <<From(X), Not(E(X, Lit(2)))>>)>>),
     Over(Paths \o <<Pred("t", <<"x", "y">>)>>,
          <<Rule("p", P(X, Y), <<E(X, Y)>>), Rule("q", P(X, Z), <<P(X, Y), E(Y, Z)>>),
            Rule("t", Atom("t", <<X, Y>>), <<N(X), Into(Y), Not(P(X, Y))>>)>>)}

\* Names: rules called like each other, like their predicate and like another.
Named2 ==
    {Over(<<Pred("t", <<"k">>), Pred("t#1", <<"k">>)>>,
          <<Rule("t", Atom("t", <<X>>), <<From(X)>>), Rule(a, Atom("t", <<X>>), <<N(X)>>),
            Rule(b, Atom("t#1", <<X>>), <<Atom("t", <<X>>), Atom("t", <<X>>)>>),
            Rule("t", Atom("t#1", <<X>>), <<Into(X)>>)>>) :
        a, b \in {"t", "t#1", "e"}}

Facts ==
    {Over(<<Pred("t", <<"k">>), Pred("u", <<"k">>)>>,
          <<RuleOf("f", Atom("t", <<Lit(1)>>), <<>>, <<>>), RuleOf("g", Atom("t", <<Lit(5)>>), <<>>, <<>>),
            Rule("u", Atom("u", <<X>>), <<Atom("t", <<X>>), N(X)>>)>>)}

Refused ==
    {Over(<<Pred("t", <<"k">>)>>, <<rule>>) :
        rule \in {Rule("t", Atom("t", <<X>>), <<N(Y)>>),
                  Rule("t", Atom("t", <<X>>), <<N(X), Not(E(X, Y))>>),
                  Rule("t", Atom("t", <<X, Y>>), <<E(X, Y)>>),
                  Rule("t", [Atom("t", <<X>>) EXCEPT !.binds = <<>>], <<N(X)>>),
                  Rule("t", Atom("t", <<X>>), <<Atom("m", <<X>>)>>),
                  Rule("t", Atom("t", <<X>>), <<[E(X, Y) EXCEPT !.binds = <<Bind(1, X), Bind(1, Y)>>]>>),
                  Rule("s", Atom("s", <<X>>), <<N(X)>>),
                  Rule("t", Atom("t", <<X>>), <<N(X), Not(Atom("t", <<X>>))>>),
                  Rule("t", Atom("t", <<X>>), <<Atom("t", <<X>>)>>)}}

----------------------------------------------------------------------------
\* Realms: nodes without columns, edges with a label and two nodes, and views
\* over them.
Col(name, type) == [name |-> name, type |-> type]
Table(name, kind, columns) == [path |-> name, kind |-> kind, columns |-> columns, keys |-> <<>>]
Nodes2 == Table("n", "table", <<>>)
Edges2 ==
    [Table("e", "table", <<Col("src", "rowid"), Col("label", "int"), Col("dst", "rowid")>>)
        EXCEPT !.keys = <<<<>>, <<3, 1>>>>]
Reach == Table("r", "view", <<Col("from", "rowid"), Col("to", "rowid")>>)
Prop(entity, row, values) == [entity |-> entity, row |-> row, values |-> values]
Is(column, term) == [column |-> column, term |-> term]
Same(l, r) == [left |-> l, right |-> r]
V(i) == Var(i)
NodeAt(i) == Prop("n", {V(i)}, <<>>)
EdgeAt(s, t) == Prop("e", {}, <<Is(3, V(t)), Is(1, V(s))>>)
ReachAt(s, t) == Prop("r", {}, <<Is(1, V(s)), Is(2, V(t))>>)
\* Variables 1 to 3 are row ids, 4 a label.
LawVars == <<Col("x", "rowid"), Col("y", "rowid"), Col("z", "rowid"), Col("l", "int")>>
Law(name, antecedents, consequents) ==
    [path |-> name, vars |-> LawVars, antecedents |-> antecedents, consequents |-> consequents]
Def(name, definand, arguments, antecedents) ==
    [path |-> name, definand |-> definand, arguments |-> arguments, vars |-> LawVars,
     antecedents |-> antecedents]
ReachDefs ==
    <<Def("edge", "r", <<V(1), V(2)>>, <<EdgeAt(1, 2)>>),
      Def("step", "r", <<V(1), V(3)>>, <<ReachAt(1, 2), EdgeAt(2, 3)>>)>>

Laws ==
    {Law("law", <<EdgeAt(1, 2)>>, <<EdgeAt(2, 3)>>),
     Law("law", <<EdgeAt(1, 2), EdgeAt(1, 3)>>, <<Same(V(2), V(3))>>),
     Law("law", <<Prop("e", {V(2)}, <<Is(1, V(1))>>), Prop("e", {V(3)}, <<Is(1, V(1))>>)>>,
         <<Same(V(2), V(3))>>),
     Law("law", <<>>, <<Prop("e", {}, <<Is(2, Lit(7))>>)>>),
     Law("law", <<NodeAt(1)>>, <<ReachAt(1, 1)>>),
     Law("law", <<EdgeAt(1, 2)>>, <<EdgeAt(2, 3), Same(V(3), V(1))>>),
     Law("law", <<NodeAt(1), NodeAt(2)>>, <<ReachAt(1, 3), ReachAt(3, 2)>>),
     Law("law", <<ReachAt(1, 2), Same(V(1), V(2))>>,
         <<Prop("e", {}, <<Is(1, V(1)), Is(3, V(3)), Is(2, V(4))>>), Same(V(4), Lit(7))>>),
     Law("law", <<NodeAt(1), Prop("e", {}, <<Is(2, V(4))>>)>>,
         <<Prop("e", {V(2)}, <<Is(2, V(4)), Is(3, V(1))>>)>>),
     Law("law", <<NodeAt(1)>>, <<Same(V(2), V(3))>>),
     Law("law", <<NodeAt(1)>>, <<Prop("r", {V(2)}, <<>>)>>),
     Law("law", <<NodeAt(1)>>, <<Prop("e", {}, <<Is(2, V(1))>>)>>),
     Law("law", <<NodeAt(1)>>, <<>>)}

A == <<1, 1>>
B == <<1, 2>>
C == <<2, 1>>
Edge2(id, s, l, t) == [id |-> id, values |-> <<s, <<l>>, t>>]
EdgeSets ==
    {{},
     {Edge2(<<3, 1>>, A, 7, B), Edge2(<<3, 2>>, B, 7, A), Edge2(<<4, 1>>, B, 8, C)},
     {Edge2(<<3, 1>>, A, 8, B), Edge2(<<3, 2>>, A, 8, C), Edge2(<<4, 2>>, C, 7, C)}}
Realm(tables, definitions, laws, edges) ==
    [kind |-> "realm", realm |-> [tables |-> tables, definitions |-> definitions, rules |-> laws],
     base |-> [n |-> {[id |-> i, values |-> <<>>] : i \in {A, B, C}}, e |-> edges]]
Lawful ==
    {Realm(<<Nodes2, Reach, Edges2>>, ReachDefs, <<law>>, edges) : law \in Laws, edges \in EdgeSets}

Bounded == Table("b", "view", <<Col("it", "rowid"), Col("mark", "int")>>)
Views2 ==
    {Realm(<<Nodes2, Edges2, Bounded>>, defs, <<>>, edges) :
        edges \in EdgeSets,
        defs \in {<<Def("d", "b", <<V(1), Lit(3)>>, <<NodeAt(1)>>),
                    Def("d", "b", <<V(2), V(4)>>, <<Prop("e", {V(1)}, <<Is(3, V(2)), Is(2, V(4))>>)>>)>>,
                  <<Def("d", "b", <<V(1), V(4)>>, <<Prop("b", {}, <<Is(1, V(1)), Is(2, V(4))>>)>>)>>,
                  <<Def("d", "b", <<V(1)>>, <<NodeAt(1)>>)>>,
                  <<Def("d", "q", <<V(1)>>, <<NodeAt(1)>>)>>,
                  <<>>}}
\* A view that is a fact, read by a law and not.
Flag == Table("flag", "view", <<Col("on", "int")>>)
FactViews ==
    {Realm(<<Nodes2, Edges2, Flag>>, <<Def("d", "flag", <<Lit(1)>>, <<>>)>>, laws, {}) :
        laws \in {<<>>, <<Law("law", <<NodeAt(1)>>, <<Prop("flag", {}, <<Is(1, Lit(1))>>)>>)>>}}

----------------------------------------------------------------------------
\* Plans: an expression over the base tables as one variable, one over it as
\* the second, and a sink.
Feeds(source, rows, weight) ==
    LET seq == SetToSeq(rows)
    IN [i \in DOMAIN seq |-> [source |-> source, row |-> seq[i], weight |-> weight]]
PlanWith(stmts, taps) ==
    [kind |-> "plan",
     sources |-> <<[name |-> "e", columns |-> <<"src", "dst">>, keys |-> <<<<1, 2>>>>, rules |-> <<>>],
                   [name |-> "n", columns |-> <<"k">>, keys |-> <<>>, rules |-> <<>>]>>,
     code |-> stmts \o taps,
     feeds |-> Feeds("e", Pairs, 1) \o Feeds("n", {<<1>>, <<2>>, <<4>>}, 1)
                   \o Feeds("e", {<<1, 2>>, <<5, 5>>}, 1) \o Feeds("e", {<<5, 5>>}, -1),
     weights |-> {}]
Tap(sink, name) == Stmt("", Output(sink, VarExpr(name)))
PlanOf(stmts, sink) == PlanWith(stmts, <<Tap("out", sink)>>)
S == Var("src")
D == Var("dst")
K == Var("k")
Rename(relation, a, b) == Projection(relation, <<<<a, S>>, <<b, D>>>>)
Is2(term, value) == <<Equal(term, Lit(value))>>
Inline(keys, listing) == Constant(<<"src", "dst">>, keys, listing)
PairExprs(leaf) ==
    {leaf, Selection(leaf, Is2(S, 1)), Selection(Selection(leaf, Is2(D, 3)), Is2(S, 1)),
     Projection(leaf, <<<<"src", D>>, <<"dst", S>>>>), Projection(leaf, <<<<"src", S>>, <<"dst", S>>>>),
     Projection(Selection(leaf, Is2(D, 3)), <<<<"src", D>>, <<"dst", Lit(1)>>>>),
     Distinct(leaf), Inline(<<<<1>>>>, <<<<<<3, 1>>, 1>>, <<<<1, 2>>, 1>>>>).expr}
PairJoins(l, r) ==
    LET both(on) == EquiJoin(Rename(l, "a", "b"), Rename(r, "c", "d"), on,
                             {<<<<"src", Var("a")>>, <<"dst", Var("d")>>>>})
        multi(xs) == MultiJoin(<<Rename(l, "x", "y"), Rename(r, "y", "z"), Rename(l, "x", "z")>>, xs)
        occurs(x, a, b) == [name |-> x, occurrences |-> <<<<a, Var(x)>>, <<b, Var(x)>>>>]
    IN {both(on) : on \in {<<>>, <<<<Var("b"), Var("c")>>>>,
                           <<<<Var("a"), Var("c")>>, <<Var("b"), Var("d")>>>>,
                           <<<<Var("b"), Var("c")>>, <<Var("b"), Var("d")>>>>}}
       \union {Projection(multi(xs), <<<<"src", Var("x")>>, <<"dst", Var("z")>>>>) :
                 xs \in {<<occurs("y", 1, 2)>>,
                         <<occurs("x", 1, 3), occurs("y", 1, 2), occurs("z", 2, 3)>>}}
PlanExprs(leaf) ==
    PairExprs(leaf)
        \union UNION {PairJoins(l, r) : l \in PairExprs(leaf), r \in PairExprs(Source("e"))}
        \union {Union(<<l, r>>) : l, r \in PairExprs(leaf)}
        \union {FixedPoint("acc", l, <<Stmt("", step)>>) :
                  l \in PairExprs(leaf),
                  step \in PairJoins(VarExpr("acc"), Source("e")) \union PairExprs(VarExpr("acc"))}
Plans ==
    {PlanOf(<<Stmt("v", e)>>, "v") : e \in PlanExprs(Source("e"))}
        \union {PlanOf(<<Stmt("v", e), Stmt("w", f)>>, "w") :
                  e \in PairExprs(Source("e")), f \in PlanExprs(VarExpr("v"))}
        \union {PlanOf(<<Stmt("v", e), Stmt("w", VarExpr("v"))>>, "w") : e \in PairExprs(Source("e"))}

\* Printed taps, and a name given twice.
Tapped ==
    LET cli(name) == [Tap(name, "v") EXCEPT !.init.kind = "cli"] IN
    {PlanWith(<<Stmt("v", e)>>, taps) :
        e \in PairExprs(Source("e")),
        taps \in {<<cli("debug"), Tap("out", "v")>>, <<cli("out"), Tap("out", "v")>>,
                  <<Tap("out", "v"), Tap("also", "v")>>}}

\* Constants with copies: what a product, a union and a distinct of two listings
\* weigh.
Listings ==
    {<<>>, <<<<<<1, 2>>, 2>>, <<<<3, 1>>, 1>>>>,
     <<<<<<1, 2>>, 1>>, <<<<2, 3>>, 3>>, <<<<1, 2>>, 1>>>>,
     <<<<<<1, 2>>, 2>>, <<<<1, 2>>, 2>>>>, <<<<<<1, 2>>, 3>>, <<<<1, 2>>, 3>>>>,
     <<<<<<1, 2>>, 1>>, <<<<1, 3>>, 1>>>>, <<<<<<1>>, 1>>>>}
Copies(l, row) == MapThenSumSet(LAMBDA i : l[i][2], {i \in DOMAIN l : l[i][1] = row})
Listed(l) == {l[i][1] : i \in DOMAIN l}
Weighed(e, weights) == [PlanOf(<<Stmt("v", e)>>, "v") EXCEPT !.weights = {weights}]
BagPlans(l, m, keys) ==
    LET c(x) == Inline(keys, x).expr
        both == Listed(l) \union Listed(m)
        crossed == {<<p[1], q[2]>> : p \in Listed(l), q \in Listed(m)}
        ways(x) == {p \in Listed(l) \X Listed(m) : <<p[1][1], p[2][2]>> = x}
    IN {Weighed(EquiJoin(Rename(c(l), "a", "b"), Rename(c(m), "c", "d"), <<>>,
                         {<<<<"src", Var("a")>>, <<"dst", Var("d")>>>>}),
                [x \in crossed |->
                    MapThenSumSet(LAMBDA p : Copies(l, p[1]) * Copies(m, p[2]), ways(x))]),
        Weighed(Union(<<c(l), c(m)>>), [x \in both |-> Copies(l, x) + Copies(m, x)]),
        Weighed(Distinct(Union(<<c(l), c(m)>>)), [x \in both |-> 1])}
Bags ==
    UNION {UNION {BagPlans(l, m, keys) : l, m \in {x \in Listings : Inline(keys, x).ok}} :
             keys \in {<<>>, <<<<1>>>>, <<<<2>>, <<1>>>>}}

AllInputs ==
    Signed(3) \union Plain(5) \union Recursive \union Joined \union Negative \union Named2
        \union Facts \union Refused \union Lawful \union Views2 \union FactViews \union Plans \union Tapped \union Bags

=============================================================================
