------------------------------- MODULE ReplParse -------------------------------
(***************************************************************************)
(* What the shell of coln-store (repl/parse) makes of the text of a        *)
(* command.  A text is a sequence of tokens: words, parentheses, commas,   *)
(* semicolons and the double quotes around a value; the blanks between     *)
(* them are left out.  A value is the sequence of the tokens it was        *)
(* written with.                                                           *)
(***************************************************************************)
EXTENDS Integers, Sequences, FiniteSets, TLC

CONSTANTS
  Idents,     \* the words that is_binding_ident accepts
  Numbers,    \* the words that are integers -> their value
  IdTexts,    \* words that begin with # -> [hash |-> digits, n |-> counter]
  HashSize    \* HASH_SIZE, in digits

ASSUME HashAssumption ==
  HashSize \in Nat /\ \A w \in DOMAIN IdTexts : Len(IdTexts[w].hash) \in 1 .. HashSize

Quote == "\""

Err == [kind |-> "error"]
Good(c) == c.kind # "error"

MinOf(S) == CHOOSE x \in S : \A y \in S : x <= y
Mentions(w, s) == \E i \in DOMAIN s : s[i] = w
StartsWith(s, t) == Len(t) <= Len(s) /\ SubSeq(s, 1, Len(t)) = t
EndsWith(s, t) == Len(t) <= Len(s) /\ SubSeq(s, Len(s) - Len(t) + 1, Len(s)) = t
From(s, i) == SubSeq(s, i, Len(s))

-----------------------------------------------------------------------------
(* Scanning *)

\* The places from `from' on where w stands outside quotes
Outside(s, from, w) ==
  {p \in from .. Len(s) : s[p] = w /\ Cardinality({q \in from .. p - 1 : s[q] = Quote}) % 2 = 0}

\* split_semicolon_statements: an empty statement is dropped.
SplitStatements(s) ==
  LET split[i \in 1 .. Len(s) + 1] ==
        LET ends == Outside(s, i, ";")
            end == IF ends = {} THEN Len(s) + 1 ELSE MinOf(ends)
            rest == IF end >= Len(s) THEN <<>> ELSE split[end + 1]
        IN  IF end = i THEN rest ELSE <<SubSeq(s, i, end - 1)>> \o rest
  IN  IF s = <<>> THEN <<>> ELSE split[1]

\* split_add_row_tokens: a quoted value runs to the next quote or to the end.
Values(s) ==
  LET value[i \in 1 .. Len(s) + 1] ==
        LET closing == {p \in i + 1 .. Len(s) : s[p] = Quote}
            end == IF closing = {} THEN Len(s) + 1 ELSE MinOf(closing)
        IN  IF i > Len(s) THEN <<>>
            ELSE IF s[i] # Quote THEN <<<<s[i]>>>> \o value[i + 1]
            ELSE <<SubSeq(s, i + 1, end - 1)>> \o
                   (IF end > Len(s) THEN <<>> ELSE value[end + 1])
  IN  value[1]

\* parse_add_rows
Rows(s) ==
  LET rows[i \in 1 .. Len(s) + 1] ==
        LET ends == Outside(s, i + 1, ")")
            rest == rows[MinOf(ends) + 1]
        IN  IF i > Len(s) THEN [kind |-> "rows", rows |-> <<>>]
            ELSE IF s[i] = "," THEN rows[i + 1]
            ELSE IF s[i] # "(" \/ ends = {} THEN Err
            ELSE IF ~Good(rest) THEN Err
            ELSE [rest EXCEPT !.rows =
                    <<Values(SubSeq(s, i + 1, MinOf(ends) - 1))>> \o @]
  IN  rows[1]

-----------------------------------------------------------------------------
(* Statements *)

\* parse_add_statement
ParseAdd(s) ==
  IF Len(s) < 3 \/ s[3] # "values" THEN Err
  ELSE LET r == Rows(From(s, 4))
       IN  IF ~Good(r) \/ r.rows = <<>> THEN Err
           ELSE [kind |-> "add", table |-> s[2], rows |-> r.rows]

\* parse_batch_assignment: name = add table values (...), one row
ParseAssignment(s) ==
  IF Len(s) < 5 \/ SubSeq(s, 2, 3) # <<"=", "add">> \/ s[5] # "values"
     \/ s[1] \notin Idents
  THEN Err
  ELSE LET r == Rows(From(s, 6))
       IN  IF ~Good(r) \/ Len(r.rows) # 1 THEN Err
           ELSE [kind |-> "row", name |-> s[1], table |-> s[4], row |-> r.rows[1]]

\* parse_batch_block, with parse_batch_assignments
ParseBatch(s) ==
  IF ~StartsWith(s, <<"begin", "transact", ";">>) \/ ~EndsWith(From(s, 4), <<"commit">>)
  THEN Err
  ELSE LET parts == SplitStatements(SubSeq(s, 4, Len(s) - 1))
           steps == [i \in DOMAIN parts |-> ParseAssignment(parts[i])]
       IN  IF \A i \in DOMAIN steps : Good(steps[i])
           THEN [kind |-> "batch", steps |-> steps] ELSE Err

\* parse_statement: but for a block, quotes must be closed.
ParseColn(s) ==
  IF StartsWith(s, <<"begin", "transact">>) THEN ParseBatch(s)
  ELSE IF Cardinality({i \in DOMAIN s : s[i] = Quote}) % 2 = 0 /\ StartsWith(s, <<"add">>)
       THEN ParseAdd(s) ELSE Err

\* parse_create_table, of the words of a statement CREATE TABLE
SqlKinds == "text" :> "str" @@ "integer" :> "int" @@ "uuid" :> "id"
ParseCreate(s) ==
  LET words == SelectSeq(From(s, 4), LAMBDA w : w \notin {"(", ")", ","})
      count == Len(words) \div 2
  IN  IF \A i \in 1 .. count : words[2 * i] \in DOMAIN SqlKinds
      THEN [kind |-> "create", table |-> s[3],
            cols |-> [i \in 1 .. count |->
                        [name |-> words[2 * i - 1], kind |-> SqlKinds[words[2 * i]]]]]
      ELSE Err

\* parse_insert: the columns must be named, and the rows be VALUES.
ParseInsert(s) ==
  IF Mentions("(", SubSeq(s, 4, 4)) /\ Mentions("values", s) THEN [kind |-> "insert"] ELSE Err

\* parse_copy_from_csv: the options come in any order, the last one of a name
\* counts, and both the format and the header must be given.
ParseCopy(s) ==
  LET options == IF SubSeq(s, 5, 6) = <<"with", "(">>
                 THEN SelectSeq(From(s, 7), LAMBDA w : w \notin {",", ")"}) ELSE <<>>
      named == {i \in DOMAIN options : i % 2 = 1}
      Given(name) == {options[i + 1] : i \in {j \in named : options[j] = name
                        /\ \A k \in named : options[k] = name => k <= j}}
  IN  IF /\ Len(s) >= 4 /\ s[3] = "from"
         /\ Len(s) >= 5 => SubSeq(s, 5, 6) = <<"with", "(">>
         /\ \A i \in named : options[i] \in {"format", "header"}
         /\ \A i \in named : options[i] = "format" => options[i + 1] = "csv"
         /\ Given("format") = {"csv"} /\ Given("header") = {"true"}
      THEN [kind |-> "copy", table |-> s[2], file |-> s[4]]
      ELSE Err

\* parse_sql_statement: the SQL grammar is sqlparser's.
ParseSql(s) ==
  IF StartsWith(s, <<"create", "table">>) /\ Len(s) >= 3 THEN ParseCreate(s)
  ELSE IF StartsWith(s, <<"insert", "into">>) /\ Len(s) >= 3 THEN ParseInsert(s)
  ELSE IF StartsWith(s, <<"copy">>) THEN ParseCopy(s) ELSE Err

\* parse_meta_command: the number of arguments each command takes
Arguments == ".help" :> {0} @@ ".exit" :> {0} @@ ".quit" :> {0} @@ ".load" :> 1 .. 3
             @@ ".open" :> {1} @@ ".save" :> {1} @@ ".tables" :> {0}
             @@ ".schema" :> {0, 1} @@ ".dump" :> {1} @@ ".ir" :> {0}
ParseMeta(s) ==
  IF s[1] \in DOMAIN Arguments /\ Len(s) - 1 \in Arguments[s[1]]
  THEN [kind |-> s[1], args |-> Tail(s)] ELSE Err

\* is_statement_start, and the same test in parse_command: a word that begins
\* with a dot, a command or not
MetaStart(s) == SubSeq(s[1], 1, 1) = "."


\* parse_command
Parse(mode, s) ==
  IF MetaStart(s) THEN ParseMeta(s)
  ELSE IF ~EndsWith(s, <<";">>) THEN Err
  ELSE LET statement == SubSeq(s, 1, Len(s) - 1)
       IN  IF mode = "coln" THEN ParseColn(statement) ELSE ParseSql(statement)

-----------------------------------------------------------------------------
(* Cells *)

\* The hash of commit n
HashOf(n) == [d \in 1 .. HashSize |-> n]

\* parse_row_id: a hash with too few digits is filled with zeros at the front.
RowIdOf(text) ==
  [hash |-> [d \in 1 .. HashSize |->
               LET ofs == HashSize - Len(text.hash)
               IN  IF d <= ofs THEN 0 ELSE text.hash[d - ofs]],
   n |-> text.n]

Cell(kind, v) == [kind |-> kind, v |-> v]

\* parse_cell_value
ParseCell(kind, value) ==
  CASE kind = "str" -> Cell("str", value)
    [] kind = "int" -> IF Len(value) = 1 /\ value[1] \in DOMAIN Numbers
                       THEN Cell("int", Numbers[value[1]]) ELSE Err
    [] kind = "id" -> IF Len(value) = 1 /\ value[1] \in DOMAIN IdTexts
                      THEN Cell("id", RowIdOf(IdTexts[value[1]])) ELSE Err

\* parse_cell_value_batch: a name stands for the row it was bound to.
ParseCellIn(bindings, kind, value) ==
  IF kind = "id" /\ Len(value) = 1 /\ value[1] \in Idents
  THEN IF value[1] \in DOMAIN bindings THEN Cell("new", bindings[value[1]]) ELSE Err
  ELSE ParseCell(kind, value)
=============================================================================
