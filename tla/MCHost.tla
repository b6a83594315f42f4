------------------------------- MODULE MCHost -------------------------------
(* Programs over the names x, f and c, of which c is also a column.        *)
EXTENDS HostProgram

Node(op, name, parts) == [op |-> op, name |-> name, value |-> Host!Null, at |-> NoPlace,
                          column |-> FALSE, parts |-> parts, params |-> <<>>, body |-> <<>>]
Lit(v) == [Node("literal", "", <<>>) EXCEPT !.value = v]
V(x) == Node("var", x, <<>>)
Set(x, e) == Node("assign", x, <<e>>)
Fn(params, body) == [Node("function", "", <<>>) EXCEPT !.params = params, !.body = body]
Apply(f, args) == Node("call", "", <<f>> \o args)
Sum(a, b) == Node("strict", "+", <<a, b>>)
Where(e) == Node("select", "", <<e>>)

Var(x, e) == [op |-> "var", name |-> x, init |-> <<e>>, stmts |-> <<>>]
Bare(x) == [op |-> "var", name |-> x, init |-> <<>>, stmts |-> <<>>]
Do(e) == [op |-> "expr", name |-> "", init |-> <<e>>, stmts |-> <<>>]
Block(stmts) == [op |-> "block", name |-> "", init |-> <<>>, stmts |-> stmts]

One == Lit(Host!Uint(1))
Add1(x) == Sum(V(x), One)

MCStatements ==
    {Var("x", One), Bare("x"), Var("x", Add1("x")), Do(Set("x", Add1("x"))),
     Var("c", Lit(Host!Iint(-2))),
     \* closures: over x, with a parameter that shadows it, that count
     Var("f", Fn(<<>>, <<Do(V("x"))>>)),
     Var("f", Fn(<<"x">>, <<Var("x", Add1("x")), Do(V("x"))>>)),
     Var("f", Fn(<<>>, <<Do(Set("x", Add1("x")))>>)),
     \* a function that makes one; one that is given itself; a bare block
     Var("f", Fn(<<"c">>, <<Do(Fn(<<>>, <<Do(Set("c", Add1("c")))>>))>>)),
     Var("f", Fn(<<"f">>, <<Var("x", V("f")), Do(Apply(V("f"), <<>>))>>)),
     Block(<<Var("c", V("x")), Var("x", Lit(Host!Bool(FALSE))), Var("f", Fn(<<>>, <<Do(V("c"))>>))>>),
     Block(<<Var("c", One), Do(Set("x", Fn(<<>>, <<Do(Set("c", Add1("c")))>>)))>>),
     \* calls
     Var("x", Apply(V("f"), <<>>)), Do(Apply(V("f"), <<One>>)), Do(Apply(V("x"), <<>>)),
     Do(Apply(V("f"), <<Apply(V("f"), <<One>>)>>)), Var("f", Apply(V("f"), <<V("x")>>)),
     Do(Apply(V("f"), <<V("f")>>)), Do(Set("f", V("x"))),
     \* conditions: of a column and a variable, with an effect, of a call
     Do(Where(Node("strict", "<", <<V("c"), V("x")>>))),
     Do(Where(Node("lazy", "&&", <<V("c"), Set("x", Add1("x"))>>))),
     Do(Where(Node("lazy", "||", <<Node("prefix", "!", <<V("c")>>), Apply(V("f"), <<>>)>>))),
     \* tuples and arithmetic
     Var("x", Node("tuple", "", <<V("x"), Node("prefix", "-", <<V("c")>>)>>)),
     Do(Set("x", Node("index", "", <<V("x"), One>>)))}

MCRows == {[c |-> Host!Uint(2)], [c |-> Host!Bool(FALSE)]}

=============================================================================
