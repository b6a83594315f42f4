------------------------------ MODULE MCBatch ------------------------------
(* Programs and stored catalogs for BatchFixpoint: recursion with one and two *)
(* recursive atoms, mutual recursion, strata over strata, negative weights,   *)
(* repeated variables, literals, strings, and the programs Compile refuses.   *)
EXTENDS BatchFixpoint

X == Var(1)
Y == Var(2)
Z == Var(3)
U(n) == Lit(<<"uint", n>>)
S(s) == Lit(<<"string", s>>)
At(n, terms) == Atom(n, terms)
R(nvars, head, body) == [nvars |-> nvars, head |-> head, body |-> body, weight |-> 1]
Weighted(rule, w) == [rule EXCEPT !.weight = w]
P(rules, distinct) == [rules |-> rules, distinct |-> distinct]

Base      == R(2, At("p", <<X, Y>>), <<At("e", <<X, Y>>)>>)
TwoAtoms  == R(3, At("p", <<X, Z>>), <<At("p", <<X, Y>>), At("p", <<Y, Z>>)>>)
OneAtom   == R(3, At("p", <<X, Z>>), <<At("p", <<X, Y>>), At("e", <<Y, Z>>)>>)
ToQ       == R(3, At("q", <<X, Z>>), <<At("p", <<X, Y>>), At("e", <<Y, Z>>)>>)
FromQ     == R(3, At("p", <<X, Z>>), <<At("q", <<X, Y>>), At("e", <<Y, Z>>)>>)
Sources   == R(2, At("p", <<X>>), <<At("e", <<X, Y>>)>>)
Targets   == R(2, At("p", <<Y>>), <<At("e", <<X, Y>>)>>)
Spread    == R(2, At("q", <<Y>>), <<At("q", <<X>>), At("e", <<X, Y>>)>>)
SeedQ     == R(1, At("q", <<X>>), <<At("p", <<X>>)>>)
Pairs     == R(2, At("r", <<Y, X>>), <<At("q", <<X>>), At("p", <<Y>>)>>)
Named     == R(2, At("p", <<S("b"), X>>), <<At("s", <<Y>>), At("e", <<X, X>>)>>)
OfName    == R(1, At("q", <<X>>), <<At("p", <<S("b"), X>>)>>)
AnyName   == R(2, At("r", <<Y>>), <<At("p", <<Y, X>>), At("s", <<S("c")>>)>>)
Triangle  == R(3, At("p", <<X, Z>>),
               <<At("e", <<X, Y>>), At("e", <<Y, Z>>), At("e", <<Z, X>>)>>)
Loops     == R(2, At("p", <<X, X>>), <<At("e", <<X, X>>), At("e", <<U(0), U(1)>>),
                                       At("e", <<Y, X>>)>>)

Accepted == <<
    P(<<Base, TwoAtoms>>, {}),
    P(<<OneAtom, Base>>, {}),
    P(<<FromQ, ToQ, Base>>, {"p"}),
    P(<<Sources, Weighted(Targets, -1), SeedQ>>, {}),
    P(<<Weighted(Sources, 2), Weighted(Targets, -1), SeedQ, Spread, Pairs>>, {"p"}),
    P(<<Pairs, Spread, Weighted(Targets, -1), SeedQ, Sources>>, {}),
    P(<<Triangle, Weighted(Base, -1)>>, {}),
    P(<<Loops>>, {}),
    P(<<Named>>, {}),
    P(<<AnyName, OfName, Named>>, {"q"}) >>

Refused == <<
    P(<<>>, {}),
    P(<<Base, Weighted(TwoAtoms, -1)>>, {}),
    P(<<Sources, R(1, At("p", <<X>>), <<At("s", <<X>>)>>)>>, {}),
    P(<<R(1, At("p", <<X>>), <<At("s", <<X>>)>>), Sources>>, {}),
    P(<<R(1, At("q", <<X>>), <<At("q", <<X>>)>>), Base>>, {}),
    P(<<R(2, At("q", <<X>>), <<At("p", <<X, Y>>)>>),
        R(1, At("p", <<S("a"), X>>), <<At("q", <<X>>)>>), Base>>, {}),
    P(<<Weighted(Base, 0)>>, {}),
    P(<<Base, Sources>>, {}),
    P(<<Base, R(1, At("q", <<X>>), <<At("__delta_p", <<X, X>>)>>)>>, {}),
    P(<<Base>>, {"e"}),
    P(<<R(1, At("p", <<U(1)>>), <<At("s", <<X>>)>>)>>, {}) >>

MCPrograms == Accepted \o Refused

Rows(ks) == [i \in DOMAIN ks |-> Row(ks[i], 1)]
Names == FromWeightedRows(<<"string">>,
            << [vals |-> << <<"string", "a">> >>, w |-> 1],
               [vals |-> << <<"string", "c">> >>, w |-> 1] >>, <<>>)
E(rows) == [rels |-> "e" :> Relation(<<"uint", "uint">>, rows) @@ "s" :> Names.rel,
            dict |-> Names.dict]
With(cat, n, types, rows) == [cat EXCEPT !.rels = n :> Relation(types, rows) @@ @]

Cycle == Rows(<< <<0, 1>>, <<1, 3>>, <<3, 0>> >>)
Chain == Rows(<< <<0, 1>>, <<1, 2>>, <<2, 3>>, <<3, 3>> >>)

Special == {
    E(Chain),
    E(<<Row(<<0, 1>>, 2), Row(<<1, 1>>, 1), Row(<<0, 1>>, -1), Row(<<2, 2>>, 1), Row(<<2, 2>>, -1)>>),
    E(<<Row(<<1, 0>>, -1), Row(<<0, 1>>, 2), Row(<<0, 0>>, 1)>>),
    With(E(Cycle), "p", <<"uint", "uint">>, <<Row(<<2, 0>>, 2), Row(<<2, 0>>, 1)>>),
    With(E(Cycle), "q", <<"uint">>, <<Row(<<2>>, 1), Row(<<1>>, -1)>>),
    With(E(Chain), "p", <<"iint">>, <<Row(<<0>>, 1)>>) }

\* Every Z-set of weights -1, 0 and 1 over four edges, self loops and the
\* largest key included.
Edges == << <<0, 1>>, <<1, 0>>, <<1, 3>>, <<3, 3>> >>
Weighed == {E(SelectSeq([i \in DOMAIN Edges |-> Row(Edges[i], w[i])], LAMBDA r : r.w # 0)) :
              w \in [DOMAIN Edges -> {-1, 0, 1}]}

MCCatalogs == Special \cup Weighed

MCExecutors == {"binary", "generic", "reference"}
MCNameOrder == <<"__delta_p", "__delta_q", "e", "p", "q", "r", "s">>
=============================================================================
