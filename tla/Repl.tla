--------------------------------- MODULE Repl ---------------------------------
(***************************************************************************)
(* The shell of coln-store (repl/, main.rs): lines are gathered into       *)
(* statements, statements are run against the loaded store, and the store  *)
(* is saved to and opened from files.  The user types given texts and may  *)
(* break a statement into lines.  Transactions and the encoding of the     *)
(* file are the business of StoreCore and StoreFile: here a commit is the  *)
(* rows it adds, it may be refused, and a file holds a store or is damaged.*)
(* Of a schema what decides whether the query engine compiles it is kept:  *)
(* the names of its laws (each has consequents), and which views have a    *)
(* definition.                                                             *)
(***************************************************************************)
EXTENDS ReplParse, SequencesExt

CONSTANTS
  Texts,      \* what the user types: [mode, text, means]; means is Nothing
              \* or the rows to be added, chunk by chunk
  Realms,     \* schema files: path -> [tables, laws, defs]; a table is
              \* [name, cols, view]
  Csvs,       \* delimited files: path -> [header, records], a record may be Bad
  Paths,      \* where stores are saved
  Extended,   \* path -> the path with the default extension
  Chunk,      \* COPY_CHUNK_ROWS
  MaxTexts, MaxBreaks,  \* bounds: texts typed, lines broken off
  NoStore, NoText, NoFile, Damaged, Bad, NoRun, Nothing  \* model values

ASSUME ChunkAssumption == Chunk \in Nat \ {0}

VARIABLES
  script,   \* the commands were given with -c
  mode,     \* Session.shell_mode
  loaded,   \* Session.loaded: [store, schema], or NoStore
  pending,  \* the statement buffer, or NoText
  disk,     \* path -> what encode_store wrote
  typing,   \* the text being typed, or NoText
  todo,     \* what is left of it
  last,     \* history only: the command just run, and the session before it
  count     \* [texts, breaks] so far, for the bounds

vars == <<script, mode, loaded, pending, disk, typing, todo, last, count>>

-----------------------------------------------------------------------------
(* The store *)

\* Table::new .. in the order of their oids; the root commit has the schema too.
NewStore(schema) == [tables |-> schema.tables, laws |-> schema.laws,
                     defs |-> schema.defs, root |-> schema, commits |-> <<>>]
EmptySchema == [tables |-> <<>>, laws |-> {}, defs |-> {}]

\* The predicates a law becomes in the query engine
LawPredicates(laws) == laws \cup {law \o "#consequent" : law \in laws}

\* ColnQuery::init: a view without a definition has no base case, and a table
\* that shares its name with a predicate of a law is no base table.
Compiles(schema) ==
  \A t \in Range(schema.tables) :
    IF t.view THEN t.name \in schema.defs ELSE t.name \notin LawPredicates(schema.laws)

\* Store::try_from_ir
TryFromIr(schema) ==
  IF Compiles(schema) THEN [ok |-> TRUE, store |-> NewStore(schema)] ELSE [ok |-> FALSE]

\* SchemaSummary::from_store and from_theory, the names in any order
Summary(s) == [tables |-> Range(s.tables), laws |-> Cardinality(s.laws)]

OidOf(store, name) == SelectInSeq(store.tables, LAMBDA t : t.name = name)
Columns(store, name) == store.tables[OidOf(store, name)].cols

\* encode_store and decode_store: the root commit and the commits in order.  The
\* store is built from the root's schema, and the commits are applied to it: that
\* they are accepted again is a matter of StoreCore (ReplayAccepted).
Encoded(store) == [root |-> store.root, commits |-> store.commits]
Decoded(file) ==
  LET built == TryFromIr(file.root)
  IN  IF built.ok THEN [built EXCEPT !.store.commits = file.commits] ELSE built

\* Promotion: a new row of the commit gets the hash of the commit.
Promoted(store, rows) ==
  LET hash == HashOf(Len(store.commits) + 1)
      cell(c) == IF c.kind = "new" THEN Cell("id", [hash |-> hash, n |-> c.v]) ELSE c
  IN  [i \in DOMAIN rows |->
         [table |-> rows[i].table,
          cells |-> [j \in DOMAIN rows[i].cells |-> cell(rows[i].cells[j])]]]

\* What a command does: the session afterwards, and whether it failed.
Fail(l) == [loaded |-> l, ok |-> FALSE]
Done(l) == [loaded |-> l, ok |-> TRUE]

\* Transaction::commit, which the store may refuse; nothing is added for no rows.
Committed(l, rows) ==
  IF rows = <<>> THEN {Done(l)}
  ELSE {Fail(l), Done([l EXCEPT !.store.commits = Append(@, Promoted(l.store, rows))])}

-----------------------------------------------------------------------------
(* Commands *)

\* A row whose cells were read, if they all could be
RowOf(table, cells) ==
  IF \E i \in DOMAIN cells : ~Good(cells[i]) THEN Err
  ELSE [kind |-> "row", table |-> table, cells |-> cells]

\* parse_txn_values
Row(l, table, row) ==
  LET cols == Columns(l.store, table)
  IN  IF Len(row) # Len(cols) THEN Err
      ELSE RowOf(table, [i \in DOMAIN cols |-> ParseCell(cols[i].kind, row[i])])

\* A step of run_transact: the same, where the names bound stand for new rows
RowIn(bound, l, table, row) ==
  LET cols == Columns(l.store, table)
  IN  IF Len(row) # Len(cols) THEN Err
      ELSE RowOf(table, [i \in DOMAIN cols |-> ParseCellIn(bound, cols[i].kind, row[i])])

\* add_rows: all rows are read before the transaction is begun.
AddRows(l, table, rows) ==
  IF OidOf(l.store, table) = 0 THEN {Fail(l)}
  ELSE LET read == [i \in DOMAIN rows |-> Row(l, table, rows[i])]
       IN  IF \E i \in DOMAIN read : ~Good(read[i]) THEN {Fail(l)} ELSE Committed(l, read)

\* Mutant of BindingsBefore: a name may be bound again.
BindingsAgain(steps, i) ==
  LET names == {steps[j].name : j \in 1 .. i - 1}
  IN  [w \in names |-> (CHOOSE j \in 1 .. i - 1 : steps[j].name = w) - 1]

\* run_transact: the rows the names stand for at step i.  The temporary id of a
\* row is its place in the block.
BindingsBefore(steps, i) ==
  IF \E j, k \in 1 .. i : j # k /\ steps[j].name = steps[k].name THEN Err
  ELSE [w \in {steps[j].name : j \in 1 .. i - 1} |->
          (CHOOSE j \in 1 .. i - 1 : steps[j].name = w) - 1]

RunTransact(l, steps) ==
  LET bound(i) == BindingsBefore(steps, i)
      read == [i \in DOMAIN steps |->
                 IF OidOf(l.store, steps[i].table) = 0 \/ bound(i) = Err THEN Err
                 ELSE RowIn(bound(i), l, steps[i].table, steps[i].row)]
  IN  IF \E i \in DOMAIN read : ~Good(read[i]) THEN {Fail(l)} ELSE Committed(l, read)

\* copy_from_csv: columns go by name.  Each full chunk is a transaction of its
\* own, and so is the rest at the end; the first record that cannot be read, or
\* chunk that is not committed, ends the command.
Copy(l, table, file) ==
  LET csv == Csvs[file]
      cols == Columns(l.store, table)
      places(name) == {i \in DOMAIN csv.header : csv.header[i] = name}
      row(r) == [c \in DOMAIN cols |-> r[CHOOSE i \in places(cols[c].name) : TRUE]]
      chunks == (Len(csv.records) + Chunk - 1) \div Chunk
      records(k) == SubSeq(csv.records, (k - 1) * Chunk + 1,
                           IF k = chunks THEN Len(csv.records) ELSE k * Chunk)
      rows(k) == [i \in DOMAIN records(k) |-> Row(l, table, row(records(k)[i]))]
      readable(k) == /\ \A i \in DOMAIN records(k) : records(k)[i] # Bad
                     /\ \A i \in DOMAIN records(k) : Good(rows(k)[i])
      after[k \in 0 .. chunks] ==
        IF k = 0 THEN l
        ELSE [after[k - 1] EXCEPT !.store.commits = Append(@, Promoted(after[k - 1].store, rows(k)))]
      reached == {k \in 0 .. chunks : \A j \in 1 .. k : readable(j)}
  IN  IF OidOf(l.store, table) = 0 \/ file \notin DOMAIN Csvs THEN {Fail(l)}
      ELSE IF \E c \in DOMAIN cols : Cardinality(places(cols[c].name)) # 1 THEN {Fail(l)}
      ELSE {IF k = chunks THEN Done(after[k]) ELSE Fail(after[k]) : k \in reached}

\* Mutant of WithTable: the root commit stays as it was.
WithTableOnly(store, table) ==
  [store EXCEPT !.tables = Append(@, table)]

\* Store::create_table: the root commit is built again, without the definitions;
\* whether it compiles is not looked at, as the engine is not started again.
WithTable(store, table) ==
  LET tables == Append(store.tables, table)
  IN  [store EXCEPT !.tables = tables, !.commits = <<>>,
                    !.root = [tables |-> tables, laws |-> store.laws, defs |-> {}]]

\* create_sql_table: an empty store is loaded first if there is none.
CreateTable(l, table, cols) ==
  LET store == IF l = NoStore THEN NewStore(EmptySchema) ELSE l.store
      base == IF l = NoStore THEN [store |-> store, schema |-> Summary(store)] ELSE l
      grown == WithTable(store, [name |-> table, cols |-> cols, view |-> FALSE])
  IN  IF OidOf(store, table) # 0 \/ store.commits # <<>> THEN Fail(base)
      ELSE Done([store |-> grown, schema |-> Summary(grown)])

\* execute_coln
ColnResults(c) ==
  IF loaded = NoStore THEN {Fail(loaded)}
  ELSE IF c.kind = "add" THEN AddRows(loaded, c.table, c.rows)
  ELSE RunTransact(loaded, c.steps)

\* execute_sql: an INSERT does nothing.
SqlResults(c) ==
  CASE c.kind = "create" -> {CreateTable(loaded, c.table, c.cols)}
    [] c.kind = "insert" -> {Done(loaded)}
    [] c.kind = "copy" -> IF loaded = NoStore THEN {Fail(loaded)}
                          ELSE Copy(loaded, c.table, c.file)

Results(c) == IF c.kind \in {"add", "batch"} THEN ColnResults(c) ELSE SqlResults(c)

\* load_schema and load_store: what was loaded stays where they fail.
Replaced(built) ==
  IF built.ok THEN Done([store |-> built.store, schema |-> Summary(built.store)])
  ELSE Fail(loaded)

Load(path) == IF path \notin DOMAIN Realms THEN Fail(loaded) ELSE Replaced(TryFromIr(Realms[path]))

Opened(path) ==
  IF disk[path] \in {NoFile, Damaged} THEN Fail(loaded) ELSE Replaced(Decoded(disk[path]))

-----------------------------------------------------------------------------
(* Lines *)

\* Mutant of Complete: the block is recognised by the line, not by the statement.
CompleteByLine(buffer, line) ==
  IF StartsWith(line, <<"begin", "transact">>) THEN EndsWith(line, <<"commit", ";">>)
  ELSE EndsWith(line, <<";">>)

\* push_statement_line: is the statement whole?  "commit;" must stand on one line.
Complete(buffer, line) ==
  IF StartsWith(buffer, <<"begin", "transact">>) THEN EndsWith(line, <<"commit", ";">>)
  ELSE EndsWith(line, <<";">>)

MetaCommand(c) == c.kind \in DOMAIN Arguments

\* execute_meta, but for .exit: .help, .tables, .schema, .dump and .ir only print.
MetaResults(c) ==
  CASE c.kind = ".load" -> {Load(c.args[1])}
    [] c.kind = ".open" -> {Opened(c.args[1])}
    [] c.kind \in {".save", ".dump", ".tables", ".ir"} /\ loaded = NoStore -> {Fail(loaded)}
    [] OTHER -> {Done(loaded)}

\* The program ends, and is started again.
Restart ==
  /\ loaded' = NoStore /\ pending' = NoText /\ last' = NoRun
  /\ mode' \in {"coln", "sql"} /\ script' \in BOOLEAN
  /\ typing' = NoText /\ todo' = <<>>

\* .save puts the store in the file, under the default extension if it has none.
Written(c, ok) ==
  IF c.kind = ".save" /\ ok
  THEN [disk EXCEPT ![Extended[c.args[1]]] = Encoded(loaded.store)] ELSE disk

\* dispatch: an error ends the program if the commands came with -c.
Dispatch(sent) ==
  LET c == Parse(mode, sent)
      results == IF c = Err THEN {Fail(loaded)}
                 ELSE IF MetaCommand(c) THEN MetaResults(c) ELSE Results(c)
  IN  \E r \in results :
        /\ disk' = Written(c, r.ok)
        /\ IF c.kind \in {".exit", ".quit"} \/ (script /\ ~r.ok)
           THEN Restart
           ELSE /\ loaded' = r.loaded /\ pending' = NoText
                /\ typing' = NoText /\ todo' = <<>>
                /\ last' = [meant |-> typing, sent |-> sent, ok |-> r.ok, before |-> loaded]
                /\ UNCHANGED <<script, mode>>

\* process_line and run: a line of the text arrives.  Only a line that begins a
\* statement or goes on with one is buffered.
Line(line) ==
  LET buffer == IF pending = NoText THEN line ELSE pending \o line
  IN  IF (pending # NoText \/ ~MetaStart(line)) /\ ~Complete(buffer, line)
      THEN /\ pending' = buffer
           /\ todo' = From(todo, Len(line) + 1)
           /\ UNCHANGED <<script, mode, loaded, disk, typing, last>>
      ELSE Dispatch(buffer)

\* Where the user breaks a statement: not after the semicolon that would end it
\* too early, and not between "commit" and its semicolon.
MayBreak(k) ==
  /\ ~MetaStart(typing.text)
  /\ IF StartsWith(typing.text, <<"begin", "transact">>)
     THEN ~EndsWith(SubSeq(todo, 1, k), <<"commit", ";">>) /\ k # Len(todo) - 1
     ELSE todo[k] # ";"

Begin(text) ==
  /\ typing = NoText
  /\ text.mode \in {mode, "any"}
  /\ count.texts < MaxTexts /\ count' = [texts |-> count.texts + 1, breaks |-> 0]
  /\ typing' = text /\ todo' = text.text
  /\ last' = NoRun
  /\ UNCHANGED <<script, mode, loaded, pending, disk>>

Type(k) ==
  /\ k = Len(todo) \/ (MayBreak(k) /\ count.breaks < MaxBreaks)
  /\ count' = [count EXCEPT !.breaks = IF k < Len(todo) THEN @ + 1 ELSE @]
  /\ Line(SubSeq(todo, 1, k))

\* ReadlineError::Interrupted: the statement begun is forgotten.
Interrupt ==
  /\ pending # NoText /\ ~script
  /\ pending' = NoText /\ typing' = NoText /\ todo' = <<>>
  /\ UNCHANGED <<script, mode, loaded, disk, last, count>>

\* SECRET_MODE
SqlMode ==
  /\ typing = NoText /\ ~script
  /\ mode = "coln" /\ mode' = "sql"
  /\ last' = NoRun
  /\ UNCHANGED <<script, loaded, pending, disk, typing, todo, count>>

\* The input ends, or the program dies.
End == Restart /\ UNCHANGED <<disk, count>>

\* fs::write empties the file before it writes: it dies in between.
DieSaving ==
  /\ todo # <<>> /\ typing.text[1] = ".save" /\ loaded # NoStore
  /\ disk' = [disk EXCEPT ![Extended[typing.text[2]]] = Damaged]
  /\ Restart
  /\ UNCHANGED count

Init ==
  /\ script \in BOOLEAN /\ mode \in {"coln", "sql"}
  /\ loaded = NoStore /\ pending = NoText
  /\ disk = [p \in Paths |-> NoFile]
  /\ typing = NoText /\ todo = <<>> /\ last = NoRun
  /\ count = [texts |-> 0, breaks |-> 0]

Next ==
  \/ \E text \in Texts : Begin(text)
  \/ \E k \in DOMAIN todo : Type(k)
  \/ Interrupt \/ SqlMode \/ End \/ DieSaving

Spec == Init /\ [][Next]_vars

-----------------------------------------------------------------------------
(* Properties *)

\* Wherever a text is broken into lines, but for the two breaks that MayBreak
\* leaves out, and however often typing is interrupted or preceded by other texts,
\* what is run is the text, all of it, and nothing waits in the buffer when it
\* has been typed; a text that means rows is understood
\* (repl/mod.rs:91, repl/cli.rs:125).
AsTyped ==
  /\ last # NoRun => /\ last.sent = last.meant.text
                     /\ last.meant.means # Nothing => Parse(mode, last.sent) # Err
  /\ pending # NoText => typing # NoText /\ todo # <<>> /\ pending \o todo = typing.text

CommitsOf(l) == IF l = NoStore THEN <<>> ELSE l.store.commits

\* The cell a commit with this hash has for what was meant
MeantCell(hash, c) == IF c.kind = "new" THEN Cell("id", [hash |-> hash, n |-> c.v]) ELSE c

\* A command adds the rows its text means and no others: all in one transaction,
\* or for a copy in chunks of which the first ones may be all that is added; a
\* name in a block is the row it was given to; a command that fails adds nothing
\* else, and only one that puts another store in place of the loaded one takes
\* rows away (exe/mod.rs:394, 426; exe/sql.rs:57).
RowsAsMeant ==
  last # NoRun =>
    LET old == CommitsOf(last.before)
        new == CommitsOf(loaded)
        means == last.meant.means
    IN  IF means = Nothing
        THEN (last.ok /\ last.sent[1] \in {".open", ".load"}) \/ new = old
        ELSE /\ Len(new) \in Len(old) .. Len(old) + Len(means)
             /\ SubSeq(new, 1, Len(old)) = old
             /\ last.ok => Len(new) = Len(old) + Len(means)
             /\ \A k \in Len(old) + 1 .. Len(new) :
                  LET rows == means[k - Len(old)]
                  IN  /\ Len(new[k]) = Len(rows)
                      /\ \A i \in DOMAIN rows :
                           /\ new[k][i].table = rows[i].table
                           /\ new[k][i].cells =
                                [j \in DOMAIN rows[i].cells |->
                                   MeantCell(HashOf(k), rows[i].cells[j])]

\* Tables were created over a realm that was loaded, and the realm has views, or
\* one of the new tables the name of a law's predicate.
GrownOver(store) ==
  \E realm \in Range(Realms) :
    LET old == Len(realm.tables)
    IN  /\ old < Len(store.tables) /\ StartsWith(store.tables, realm.tables)
        /\ \/ \E t \in Range(realm.tables) : t.view
           \/ \E i \in old + 1 .. Len(store.tables) :
                store.tables[i].name \in LawPredicates(realm.laws)

\* Whatever was loaded, opened, created and added: were the store saved now, its
\* file would open if and only if the tables created went well with the realm
\* below them, and then it would open as the very store, rows and definitions
\* included; and the schema the shell shows is that of the store
\* (commit/pst.rs:41, store/mod.rs:343, 875; exe/mod.rs:314).
SavedOpens ==
  loaded # NoStore =>
    LET again == Decoded(Encoded(loaded.store))
    IN  /\ again.ok <=> ~GrownOver(loaded.store)
        /\ again.ok => again.store = loaded.store
        /\ loaded.schema = Summary(loaded.store)

=============================================================================
