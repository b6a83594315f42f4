-------------------------------- MODULE MCRepl --------------------------------
(***************************************************************************)
(* A realm with a table T of an integer and a string, a table R of a       *)
(* reference and a string, a view and a law; one without views, with a law *)
(* named P; one whose view has no definition; tables P and P#consequent    *)
(* and Q made in SQL mode; two delimited files; a store file.  Strings     *)
(* hold the tokens that end rows and statements.                           *)
(***************************************************************************)
EXTENDS Repl

MCIdents == {"x", "y", "T", "R", "P"}
MCNumbers == "7" :> 7 @@ "8" :> 8
MCIdTexts ==
  "#111:0" :> [hash |-> <<1, 1, 1>>, n |-> 0] @@ "#11:0" :> [hash |-> <<1, 1>>, n |-> 0]

Table(name, cols) == [name |-> name, cols |-> cols, view |-> FALSE]
View(name, cols) == [name |-> name, cols |-> cols, view |-> TRUE]
Col(name, kind) == [name |-> name, kind |-> kind]

TableT == Table("T", <<Col("n", "int"), Col("s", "str")>>)
TableR == Table("R", <<Col("t", "id"), Col("s", "str")>>)
ViewV == View("V", <<Col("t", "id")>>)
MCRealms ==
  "g.json" :> [tables |-> <<TableT, TableR, ViewV>>, laws |-> {"L"}, defs |-> {"V"}] @@
  "h.json" :> [tables |-> <<TableT>>, laws |-> {"P"}, defs |-> {}] @@
  "e.json" :> [tables |-> <<TableR, ViewV>>, laws |-> {}, defs |-> {}]
MCCsvs ==
  "p.csv" :> [header |-> <<"age", "name">>,
              records |-> <<<<<<"7">>, <<"x">>>>, <<<<"8">>, <<"y">>>>, <<<<"7">>, <<"y">>>>>>] @@
  "q.csv" :> [header |-> <<"name", "age">>,
              records |-> <<<<<<"x">>, <<"7">>>>, <<<<"y">>, <<"8">>>>, Bad>>]
MCPaths == {"g", "g.store"}
MCExtended == "g" :> "g.store" @@ "g.store" :> "g.store"

-----------------------------------------------------------------------------
I(n) == Cell("int", n)
S(s) == Cell("str", s)
New(i) == Cell("new", i)
Id(k, i) == Cell("id", [hash |-> HashOf(k), n |-> i])
R(t, cells) == [table |-> t, cells |-> cells]
Text(m, text, means) == [mode |-> m, text |-> text, means |-> means]

Adds ==
  {Text("coln", <<"add", "T", "values", "(", "7", "\"", ")", ";", "x", "\"", ")", ",",
                  "(", "8", "y", ")", ";">>,
        <<<<R("T", <<I(7), S(<<")", ";", "x">>)>>), R("T", <<I(8), S(<<"y">>)>>)>>>>),
   Text("coln", <<"add", "R", "values", "(", "#111:0", "x", ")", ";">>,
        <<<<R("R", <<Id(1, 0), S(<<"x">>)>>)>>>>),
   Text("coln", <<"add", "T", "values", "(", "x", "x", ")", ";">>, Nothing),
   Text("coln", <<"add", "T", "values", "(", "7", "\"", "x", ")", ";">>, Nothing)}

Blocks ==
  {Text("coln", <<"begin", "transact", ";", "x", "=", "add", "T", "values", "(", "7", "\"", ";", "\"", ")", ";",
                  "y", "=", "add", "R", "values", "(", "x", "x", ")", ";", "commit", ";">>,
        <<<<R("T", <<I(7), S(<<";">>)>>), R("R", <<New(0), S(<<"x">>)>>)>>>>),
   Text("coln", <<"begin", "transact", ";", "y", "=", "add", "R", "values", "(", "x", "x", ")", ";",
                  "x", "=", "add", "T", "values", "(", "7", "x", ")", ";", "commit", ";">>, Nothing),
   Text("coln", <<"begin", "transact", ";", "x", "=", "add", "T", "values", "(", "7", "x", ")", ";",
                  "x", "=", "add", "T", "values", "(", "8", "x", ")", ";",
                  "y", "=", "add", "R", "values", "(", "x", "x", ")", ";", "commit", ";">>, Nothing),
   Text("coln", <<"begin", "transact", ";", "commit", ";">>, <<>>)}

Sql ==
  {Text("sql", <<"create", "table", "P", "(", "name", "text", ",", "age", "integer", ")", ";">>, Nothing),
   Text("sql", <<"create", "table", "P#consequent", "(", "age", "integer", ")", ";">>, Nothing),
   Text("sql", <<"create", "table", "Q", "(", "age", "integer", ")", ";">>, Nothing),
   Text("sql", <<"insert", "into", "P", "(", "name", ")", "values", "(", "x", ")", ";">>, Nothing),
   Text("sql", <<"copy", "P", "from", "p.csv", "with",
                 "(", "format", "csv", ",", "header", "true", ")", ";">>,
        <<<<R("P", <<S(<<"x">>), I(7)>>), R("P", <<S(<<"y">>), I(8)>>)>>,
          <<R("P", <<S(<<"y">>), I(7)>>)>>>>),
   Text("sql", <<"copy", "P", "from", "q.csv", "with",
                 "(", "header", "false", ",", "format", "csv", ",", "header", "true", ")", ";">>,
        <<<<R("P", <<S(<<"x">>), I(7)>>), R("P", <<S(<<"y">>), I(8)>>)>>, <<>>>>),
   Text("sql", <<"copy", "P", "from", "p.csv", "with", "csv", "header", ";">>, Nothing)}

Meta ==
  {Text("any", <<".load", "g.json">>, Nothing), Text("any", <<".load", "h.json">>, Nothing),
   Text("any", <<".load", "e.json">>, Nothing), Text("any", <<".save", "g">>, Nothing),
   Text("any", <<".open", "g.store">>, Nothing), Text("any", <<".open", "g">>, Nothing),
   Text("any", <<".tables">>, Nothing), Text("any", <<".rules">>, Nothing),
   Text("any", <<".quit">>, Nothing)}


MCTexts == Adds \cup Blocks \cup Sql \cup Meta
=============================================================================
