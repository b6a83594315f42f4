# Coln: a verification development

Coln is a data-oriented proof assistant. A user writes a *theory*; the compiler
turns it into tables, views and rules; a *store* holds rows, checks the rules and
computes the views. Stores are replicated: every change is a commit named by its
hash, commits form a graph, and replicas exchange the commits they lack.

This directory holds TLA+ models of the store, of the query engine and its
compiler, and of the batch engine, the TLC runs that check them and proofs checked
by TLAPS. All paths below are relative to `src/packages/`.

## 1. The system

| Component | State | Operations | Modelled |
|---|---|---|---|
| `coln-store` commit graph and application: `store/mod.rs`, `commit/graph.rs`, `store/frag.rs`, `commit/pst.rs` | recorded commits, children, heads; `pending_commits`; the snapshot file | `apply_commit(s)`, `apply_chunk_bytes`, `merge`, `encode_store`, `decode_store`, `commits_after`, `commits_added` | `ApplyCommits`, `AtomicApply`; several stores: `Replication` |
| `coln-store` tables: `store/mod.rs`, `table/`, `rowing/`, `pack/` | rows, staged updates and undo log per table; union-find of row ids, displaced ids, staged unions; the dictionary of hashes | `apply_commit_atomic`: precheck, stage, apply, merge, rebuild, check rules, store derived rows, commit or roll back; reads by id and by index | `StoreCore`; reads: `StoreReads`; one table in memory: `TableStorage`, `RowMap` |
| `coln-query` transactions: `api/` | base tables as Z-sets inside the engine, `ongoing_tx` | `try_commit`, `commit`, `abort`, `rollback` | `QueryTx`, `AtomicTx`, `QueryCircuit`; one step each in `StoreCore` |
| `coln-query` compiler and engine: `frontend/`, `optimizer/`, `relational/` | an incremental circuit (DBSP) | flatten a realm, group rules, find components, verify, translate, lower, resolve, build, evaluate; the same through `coln-batch` | `QueryCompile` over `Gabow`, `Datalog`, `FlirProgram`, `QueryTranslation`, `CircuitEval`, `BatchLowering` |
| `coln-query` host language: `host/`, `pipeline.rs` | scopes of slots, closures, conditions kept by selections | resolve, run, evaluate a condition per row | `HostProgram`, `HostEval` |
| `coln-store` transactions: `txn/`, `store/auto.rs` | rows added so far, dependencies, who owns the store | `transaction`, `add`, `commit`, `abort`, `promote` | `Replication`; `promote` in `StoreReads` |
| `coln-store` commit encoding: `commit/wire`, `commit/chunk.rs`, `commit/pst.rs`, `leb128.rs` | none | encode and decode a commit, a chunk, a file | `StoreFile`, `CommitWire`, `Leb128` |
| `coln-store` command-line database: `repl/`, `main.rs` | the session: store, schema, mode, pending statement | assemble and run statements, copy, create tables, save, open | `Repl`, `ReplParse` |
| `coln-batch` | none between calls | compile a program, run its strata, joins, semi-naive fixpoint | `BatchFixpoint` over `BatchRules`, `BatchQuery`; `SemiNaive`, `NaiveRounds` |
| `coln-flir-rs` | none (pure) | the flattened realm of the compiler and its parts | `FlirProgram` |
| `coln-compiler`, `fnotation`, `diagnostician` (Haskell) | none (pure) | parse, elaborate, emit tables and rules | no |
| `coln-ls`, `coln-cli` | a document buffer | edits, requests | no |
| `coln-node-runtime`, `coln-wasm-runtime`, `coln-js-interface`, `coln-rpc` | handles on an `AutoStore` | wrappers | no |
| `examples/sync-demo` | one store per browser | exchange of chunks | as the network of `Replication` |
| `coln-integrator` | none | a stub | no |

How they interact. A transaction collects rows and becomes a commit whose
dependencies are the heads at its opening. The commit goes through
`apply_commits`, as do those received from peers (`apply_chunk_bytes`), those of
another store (`merge`) and those of a file (`decode_store`). `apply_commits`
orders commits by their dependencies and calls `apply_commit_atomic` for each.
That stages rows in tables; inserting a row into a *structural* table (a memoized
view) that has an equal row stages a union of the two ids; unions displace ids,
and tables are rebuilt until no row mentions a displaced id. All changes are
collected in one delta, which goes to `coln-query`; if an enforced rule is
violated both sides roll back, else `coln-query` commits and the new rows of the
derived views are stored. Finally the commit is recorded in the graph.

What is hard in it, in short (the file `PROJECT.json` lists every hazard at its
line): commits come in any order, twice, or not at all; a call fails in the
middle of a batch, and a commit in the middle of its tables; a merge
rewrites rows of earlier commits, so keys and rules that were checked may break
later; ids are represented by places in a dictionary which is truncated by
rollbacks; two components commit one after the other; and everything must come
out equal on replicas that saw another order. There are no threads: a store is
used by one caller at a time, through `&mut`. The nondeterminism is that of
callers, networks, hash sets and failures. In the compilers and the encodings,
which are functions, what is hard is the size of the input space: shapes of programs,
of rows and of bytes that no test lists.

What makes the parts correct:

- *graph*: closed under dependencies, exact heads and children; each call applies
  all it can and keeps the rest; a file can be read back;
- *tables*: what is stored is a function of the set of applied commits; a failed
  commit leaves no trace; keys are unique; enforced rules hold; rebuilding ends;
- *replication*: what replicas tell each other says exactly what they lack; a
  transaction joins all branches; once nobody writes, all stores are equal;
- *reads*: a row id that was good once stays good, whatever was merged since;
- *query engine*: holds the same base rows as the store between commits; a
  transaction happens as a whole or leaves no trace, neither in the engine's inputs
  nor in the deltas it reports next; no committed database violates an enforced rule;
- *query compiler*: a program is accepted exactly if it has a stratification, and
  what is built for it derives what its rules mean, each row as often as it has
  derivations; both backends give the same rows;
- *batch engine*: the order of rules is irrelevant, the three executors agree, and a
  recursion computes what iterating its rules naively would;
- *host language*: a variable is the one its text says;
- *encoding*: what was written is read back, one commit has one payload, and no
  damage passes for another commit;
- *table storage*: binary searches over packed, sorted columns find what a map
  would, also in the middle of a rebuild or of an undo;
- *shell*: what is run is what was typed, and what is saved opens again unless tables were created that do not go with the realm.

## 2. The modules

### AtomicApply: what a store promises about its commits

A store holds the set `applied`, the set `kept` for later and the set `saved` in
the file. A call is asked for (`Ask`) and answered in one step: `Succeed` applies
the *largest* subset of what was asked whose dependencies allow it (`Appliable`)
and keeps the rest if the call was `apply_chunk_bytes`; `Fail` applies some set
that respects dependencies and stops in front of a commit it could have applied
next. `Load` brings back exactly `saved`.

### ApplyCommits: the work list

The same store with the loop of `apply_commits` spelt out. `CallDirect` and
`CallChunks` compute the locals (`Prepare`); each iteration is one `ApplyOne`
(success) or `ApplyFails` (the `?` of `apply_commit_atomic`, which may happen for
any commit); `Return` hands back or buffers what is left. `RefuseDirect` and
`RefuseChunks` are the early returns on a root or a commit without dependencies.
`SaveStore`, `CloseStore` and `LoadStore` are the snapshot file and the life of the
process. Two commits with one hash and different payloads (`ConflictPayload`)
cannot be told apart here, since a commit is its hash. An undecodable chunk makes
`apply_chunk_bytes` return before it touches the buffer: a step that changes
nothing.

| variable | code |
|---|---|
| `graph`, `children`, `heads` | the fields of `CommitGraph` |
| `buffer` | `Store::pending_commits` |
| `batch`, `unsatisfied`, `waiting`, `ready` | the locals `pending`, `unsatisfied`, `waiting_on`, `ready` |
| `disk` | the commits in the file of the last `encode_store` |
| `pc`, `caller` | which call is running; `closed` when there is no store |
| `entry` | history: graph and buffer when the call began, used by properties only |

### StoreCore: the tables

`apply_commit_atomic` in micro-steps, since it may fail at almost any of them.

| step | code |
|---|---|
| `Begin`, `BeginRefused` | `snapshot`, `precheck_commit`, `stage_commit_ops` |
| `TakeTable`, `ApplyOp`, `LeaveTable` | `Store::apply_staged_ops`: for each table the delta, then row after row `insert_row` or `remove_packed` with its undo entry |
| `ApplyUnions` | `Rowing::apply_unions`, then the test of `rebuild_to_fixpoint` |
| `Rebuild` | `rebuild_tables`: every table stages its rewrites (`rebuild_full`) |
| `CheckAccepted`, `CheckRejected` | `check_rules`, with what `coln-query` does |
| `Derive` | `apply_derived_view`, row after row |
| `Record` | `record_in_commit_graph`, `Store::commit` |
| `Rollback` | `Store::rollback_to` |
| `Reload` | `encode_store`, end of the process, `decode_store`: the recorded commits are applied again, in the order of the work list |

Rows are a function from ids to cells, which stands for `row_ids`, `cols` and
`index` together. Ids are pairs of a commit and a counter (from 1, in the code
from 0). The packed form of an id is its place in `dict`; it matters for the order
in which rows are found and rewritten (`PackedBefore`) and for whether an id
resolves at all (`IdsResolve`). The union-find is a function from known ids to the
least id of their class: path compression and ranks are the library's. `Rank`
gives the order of hashes, which decides who represents a class and in which
order commits are replayed. `Accepts` and `Derived` are parameters that stand for
the rules and the definitions of views, since an incremental engine must
agree with some function of the base rows; they are assumed to be computed
correctly. `Schema[t].source` marks the tables the engine reads: base tables.
Debug assertions are not steps but properties.

`StoreCore` takes commits one at a time; which commit may come is what
`ApplyCommits` proves, and is reduced here to `Deps[c] \subseteq applied`.

Its proofs are in `StoreCoreProofs` (which begins with what each operator of `StoreCore`
returns, whatever the state) and `StoreMeaning`, on top of `FoldLemmas` (what a fold over a
sequence computes); see section 5.

### QueryCircuit, AtomicTx, QueryTx: transactions of the query engine

`coln-query` feeds a transaction to an incremental circuit and steps it before
anybody knows whether it may stand. One that must not stand is undone by feeding
its retraction and stepping again. What makes this delicate is that a circuit
reports *changes*: whatever a step emits and nobody drains is added to what the
next step reports, and what one step reported the next one does not repeat.

`QueryCircuit` defines weighted sets and the circuit: the constant operator
`Query` maps the weights of base rows to the weights of the rows of every sink, and
stands for any compiled program. `AtomicTx` is the promise: a commit replaces the
database by one that satisfies every enforced rule, and the caller's sum of reported
deltas is what the rules say of it. `QueryTx` is `Tx` with its states.

| variable | code |
|---|---|
| `base`, `seen`, `outputs` | the circuit: its integrated inputs, all it emitted, what its read handles hold undrained |
| `engine` | `down` once a step of the circuit has failed: "the engine must be recreated" (`api/mod.rs`, `unsafe_apply`) |
| `ongoing` | `ColnQuery::ongoing_tx` |
| `phase`, `report` | the typestate of `Tx`: `Prepare` (idle) or `Pending` with its `DataDelta` |
| `committed`, `ledger`, `last` | the caller: base rows it committed, the deltas it summed up, the last outcome |

| step | code |
|---|---|
| `TryCommitPending`, `TryCommitRejected` | `try_commit`, with and without violations of enforced rules; the second rolls back at once |
| `TryCommitApplyError`, `TryCommitRollbackError` | the circuit's step fails going forward or back |
| `Commit` | `Pending::commit` |
| `Abort`, `Drop`, `RollBackFails` | `Pending::abort`, the destructor of `RollbackGuard`, and either with a failing step |
| `Restart` | the process ends in any state; `ColnQuery::init` and `unsafe_apply` with the committed history |

DBSP is a library. It is modelled from what `dbsp/wrapper.rs` and
`incremental/mod.rs` do with it: read handles add up what was not drained, and a
failed step is final. `ColnQuery::commit` has no path that fails, so the branch of
`Pending::commit` that leaves on an error is unreachable and not modelled. Debug
assertions are not steps; the build modelled is a release build. The caller is
assumed to retract only rows it asserted (`DeltasOn`), which is what `coln-store`
does. A table no rule reads has no input handle; its rows are dropped by `feed`.

### StoreReads: what clients read

`StoreReads` extends `StoreCore` by the reads of `table/handle.rs` and `store/mod.rs`:
`RowById`, the seek in the index (`IndexSeek`), the queries by row id and by columns
(`RowIdsOf`, `RowIds`, `Projections`, `Exists`) and `Promote`, which brings an id up
to date. They are operators over the state and not actions: a read changes
nothing, and an `AutoStore` reads only between commits. Clients keep ids
across commits, so the properties quantify over every id that any applied commit
ever gave a row. What a row should hold is computed from the commits alone
(`Classes`), as in `ContentsOfCommits`.

### Replication: several stores

Stores with a common root, each behind an `AutoStore`, and a network between them.

| variable | code |
|---|---|
| `deps` | the dependencies in each commit made so far |
| `graph`, `buffer` | `CommitGraph` and `Store::pending_commits` of each replica |
| `phase` | `idle`; `txn`: `AutoStore::txn` holds the store; `call`: `apply_commits` is running; `down`: there is no process |
| `base` | `TxnInner::deps` of the open transaction |
| `caller`, `batch` | who called `apply_commits`, and its local `pending` |
| `disk` | the file of the last `encode_store` |
| `wire` | the commits in chunks that the sync server holds |
| `crashes` | how often a process stopped, at most `MaxCrashes` times |

| step | code |
|---|---|
| `Transaction` | `AutoStore::transaction`, `OwnedTransaction::new` |
| `CommitTxn`, `CommitRefused` | `TxnInner::commit` with at least one row, accepted or not |
| `EndTxn` | `abort`, or a commit without rows |
| `Send` | `commit_chunks_after`, `Store::commits_after` |
| `Receive`, `Bootstrap` | `apply_chunk_bytes`, `try_from_commit_bytes` |
| `MergeFrom` | `Store::merge`, `commits_added` |
| `ApplyOne`, `ApplyFails`, `Return` | the loop of `apply_commits` and what each caller does at its end |
| `Save`, `Crash`, `Open` | `encode_store`, the end of the process, `decode_store` or `try_from_ir` |
| `Lose` | the network |

One `ApplyOne` stands for the whole of `apply_commit_atomic`. `Refuses(g, c)` says
whether commit `c` violates a key or a rule on top of the commits `g`; it is a
parameter, since tables are `StoreCore`'s matter. That the least ready
commit comes next is what `ApplyCommits` shows of the counters. The rows of a
transaction are chosen when it commits: `add` writes to nothing but the
transaction. The heads a peer sends are *any* set of commits: it may have
moved on since, or have crashed and lost them. `commits_after` and `commits_added`
are defined by the least set their searches compute, with no stack. The
server is outside the repository's store and is modelled from how
`apply_chunk_bytes` and the demo use it: it may lose, repeat, delay, reorder and
regroup. Hashes do not collide.

### TableStorage and RowMap: one table in memory

`RowMap` is the promise that `StoreCore` relies on: a map from row ids to cells, in
which the leading columns of the primary key are unique together, and which can be taken
back to a mark. `TableStorage` is how `table/` and `pack/` keep it: `ids` sorted by packed
id, with a run per commit hash (`col.rs`); `cols` in the same order; `index` sorted by all
cells and then by id (`index.rs`); and ids packed as places in a dictionary of hashes
(`commit/hash_dict.rs`, `pack/id_packer.rs`) which a rollback truncates.

| step | code |
|---|---|
| `Snapshot` | `snapshot` of table and packer |
| `Stage`, `Rebuild` | rows staged for insertion; `rebuild_full` for a pair of merged ids, which stages the rewrites |
| `Take`, `ApplyAdd`, `ApplyDelete` | `apply_ops`, one update at a time with its undo entry |
| `Commit`, `Abort`, `Aborted` | the end of a commit, and a rollback, undone entry by entry |

Every lookup is a binary search with its bounds spelt out. `ReadsAgree` says, in every state,
also half way through a rebuild or an undo, that ids, columns and index
describe the same rows in their order and that each search finds what a scan would.
`Implements` is the refinement to `RowMap`, with ids unpacked. Both are proved in
`TableStorageProofs`.

### QueryCompile: from rules to what a sink reports

`QueryCompile` runs one input through the stages of the compiler; a stage that refuses is
the last one. An input is a logical program, a realm of the compiler, or a plan as the host
language builds it.

| step | code | defined in |
|---|---|---|
| `Flatten` | `api/query.rs`: tables, views and rules of a realm as predicates and rules, a row id as two columns | `FlirProgram` |
| `GroupRules` | `frontend/mod.rs`: rules under the predicates they define | `Datalog` |
| `Search` | Gabow's algorithm with its explicit stack, step by step | `Gabow` |
| `Verify` | `frontend/analysis.rs`: columns, variables, stratification | `Datalog` |
| `Translate` | `frontend/translation.rs`, component after component | `QueryTranslation` |
| `LowerCode`, `ResolveCode` | `optimizer/rewrite.rs`, `host/resolver.rs`: multi-way joins as chains of binary ones, variables as slots | `QueryTranslation` |
| `Evaluate` | the incremental backend's circuit, and what `output` reports | `CircuitEval` |

`BatchLowering` is the second backend: the same plan as a program for `coln-batch`, whose
rules are evaluated by their meaning there (that `coln-batch` computes it is what
`BatchFixpoint` is for). What each property compares with is defined apart from
the code: components by reachability, stratifications as level functions, a
program by its stratified model computed with no joins, weights by
counting the valuations of rule bodies. DBSP is external: a stream is modelled by
what its deltas add up to, and feedback by iterating to the fixpoint.

### HostProgram and HostEval: the host language

`HostProgram` writes a program statement by statement, resolves it (`host/resolver.rs`
turns names into pairs of a scope and a slot), runs it, and then feeds rows to
the conditions of the selections it built, which keep a copy of the environment.
`HostEval` is the interpreter, with the way variables are kept as a parameter. It is
instantiated twice: with scopes of slots, as `host/variable.rs` has them, and by name.
`LexicalScoping` says that the two cannot be told apart.

### BatchFixpoint, BatchRules, BatchQuery: coln-batch

| module | code |
|---|---|
| `BatchQuery` | order-preserving keys (`types.rs`), Z-sets and consolidation, the sorted table and its seeks, the dictionary of strings, export by column; validation, `Prepare`, the hash-join chain (`binary_join.rs`), the generic join (`generic_join.rs`) and the reference executor |
| `BatchRules` | `rule.rs`: types inferred in passes, lowering, Tarjan's algorithm, strata |
| `BatchFixpoint` | `fixpoint.rs`: `CompileProgram`, `Once` (a stratum without recursion), `EnterFixpoint`, `Round`, `Finish` |

`SemiNaive` is the iteration over ground rules: each round fires the instances that read a fact
of the last delta. `NaiveRounds` fires every rule on everything. `SemiNaive`
implements `NaiveRounds` (proved), and `BatchFixpoint` implements `SemiNaive`
(checked, `ImplementsSemiNaive`), with the ground instances of its rules over the
keys at hand: so delta queries, executors and weights together do what the naive oracle
of the tests does.

### StoreFile, CommitWire, Leb128: the encoding of commits

`Leb128` reads and writes numbers with the limits of `leb128.rs`. `CommitWire` is the payload
of a commit (`commit/wire`): operations grouped by table and stored by column, references relative to
a dictionary of hashes or to rows of the same commit. `StoreFile` has authors
who make transactions on the commits they have seen (`AddRow`, `Commit`), write a file, a chunk
or a bare payload (`Save`, `Send`, `SendPayload`), a medium that changes,
cuts or extends the bytes at one place (`Damage`), and a reader (`LoadFile`,
`LoadCommit`).

The numbers are scaled so that every boundary is met with few bytes: 22-bit numbers in
the usual groups of seven (and, in a stream of their own, five bits in groups of two,
exhaustively), integer cells of nine bits for 32, hashes of two numbers. The columns of
the `hexane` library are sequences, the JSON of the root commit is two bytes, and the
hash is a pair of checksums that no two contents met here share: a perfect
hash. A commit without a message and one with an empty message have one encoding.

### Repl and ReplParse: the command-line database

A user types texts (`Begin`), piece by piece (`Type`, any number of tokens to a line),
interrupts (`Interrupt`), changes the mode (`SqlMode`), leaves (`End`) or is
cut off while a file is written (`DieSaving`). `ReplParse` has both parsers
and the test for a complete statement, over tokens; blanks are left out. What a text *means* is given with
it, by hand, and not by the parser. Executing it is one step with all that `exe/` does:
a block is one transaction, `copy` one for each chunk of rows, `create table`
rewrites the root commit (`Store::create_table`), `.save` and `.open` go through `disk`.
Both `.load` and `.open` build the store from a realm that the query engine has to
compile (`TryFromIr`, `Compiles`), and leave the session as it was where it does not. Of
all that can keep a realm from compiling, the model has what `create table` can bring about: a view
without a definition, and a table under the name of a predicate that a law becomes. `SavedOpens` says when a
saved store opens by how its tables came about, not by what the root commit says.

### The universes

`MCApplyCommits`, `MCStoreCore`, `MCTableStorage`, `MCQueryTx`, `MCReplication`,
`MCQueryCompile`, `MCBatch`, `MCHost`, `MCCodec` and `MCRepl` give the constants values. A universe
is a set of commits, programs, rows or texts: small, but chosen case by case so that
the interesting things happen.

## 3. The runs

| run | checks | result |
|---|---|---|
| `apply_commits` | derived state is exact, snapshots replay, calls return, and `ApplyCommits` implements `AtomicApply` | holds, 3 600 states |
| `store_core` | a failed commit leaves no trace, no assertion fails, contents are a function of the commits, rules hold of what is stored, a saved store opens, ids stay good for reading, every commit ends | holds, 53 000 states |
| `table_storage` | searches find what a scan would, and `TableStorage` implements `RowMap` | holds, 71 000 states |
| `query_tx` | the engine holds what was committed, enforced rules hold, rejections name violations, and `QueryTx` implements `AtomicTx` | holds, 5 900 states |
| `query_exists_commit` | no enforced rule is violated by a committed database, with a rule without an antecedent | violated: finding 1 |
| `replication` | transactions join all heads, heads identify a store, exchanges are exact | holds, 1 270 000 states up to symmetry |
| `replication_live` | replicas converge | holds, 230 000 states |
| `query_compile` | components, verdicts, acceptance, meaning, weights, agreement of the backends | holds, 7 820 inputs, 73 000 states |
| `batch` | order of rules, strata, executors, results, and `BatchFixpoint` implements `SemiNaive` | holds, 34 000 states |
| `host_language` | slots are names, and only undeclared names are refused | holds, 761 000 states |
| `codec` | round trips, damage is noticed, one encoding | holds, 913 000 states |
| `repl` | statements are what was typed, rows what was meant, and when what is saved opens | holds, 416 000 states |

**apply_commits.** Seven commits: the root, two on top of it, a merge of the two,
one that depends on the merge and on one of its parents, one without
dependencies, and one that depends on that one and so can never be applied. The
order of hashes runs against the dependencies. Every subset can be delivered by
either entry point at any time, and any commit may fail any time it is tried. This
has every shape the counters distinguish: no, one, two and redundant
dependencies, satisfied, pending and unknown ones. The proofs of section 5 remove
the bound for all but liveness.

**store_core.** Five commits, all concurrent but one. Two commits
create the same term and the same term about that term, so a union
in one table causes another one in the next round; a third refers to the first's
rows; a fourth repeats the term and gives it another value under a primary key,
so that the conflict appears only after merging, in the middle of a rebuild; a
fifth repeats a row of a *keyed* structural table, which conflicts instead of
merging. An enforced rule is violated only when a merge rewrites rows of an earlier
commit, and a view is derived. All orders of arrival are tried, refused commits are
tried again, and the store may be saved and reloaded between commits.
In this universe no commit refers to an id that a merge displaces
unless it created the row itself; item 2 of section 4 says what happens otherwise.
Nor does the run meet an error while derived rows are stored, or a panic over them: its
view has one derivation for each row, over row ids no merge displaces (items 4 and 7).


What `ContentsOfCommits` compares with: `Classes` computes, for a set of commits, the
congruence closure of "equal rows of a structural table are one", by rounds over
all rows ever written, with no union-find, no displaced list, no rebuilding and no
order. Stored rows must be the written rows with each id replaced by the least of
its class, and derived rows the ones the views give, up to their ids.
`NoAssertFails` collects what the code only asserts: types, unique keys, ids that
resolve, no displaced id left in a row after rebuilding, equal cells where two rows
collapse, no panic. `ReadsFollowMerges` quantifies over every id that a commit
ever gave a row.

**table_storage.** A table of an id and a value, three hashes interned in any order,
six rows that may be staged, two at a time, up to five stored, three snapshots; every
primary key of no, none or one column. Rows of one hash are not neighbours in the
order they arrive, so the runs that `col.rs` searches are split, filled and emptied.

**query_tx.** Two base tables and one no rule reads; each may hold its row in up
to two copies (`MaxWeight`), so that weights other than 0 and 1, and retractions
of one of two copies, occur. The three sinks are one of each kind: an enforced rule
that a transaction may violate by adding or by removing, a monitored
rule, and a derived view in which weights multiply. Every transaction that leads
to a legal database is tried in every state, any step may fail, and the process
may stop at any point, pending transactions included.

**query_exists_commit.** One rule, "there is a row of `u`", whose antecedent is empty.
It is the only run that expects a violation. In its universe `RejectionNamesViolations` and, with the rule as a
monitored one, `LedgerIntegrates` are violated too.

**replication.** Two replicas, the root and three commits, two of which exclude each
other; one crash. This is enough for concurrent heads, a merge of them, a buffered commit
whose dependency was lost, heads the other side does not know (after a
crash, or not yet delivered), a refused commit whose author is the only one to hold
it, and a commit on top of a refused one. Which commit a transaction gets is open,
so every order of hashes is tried. Replicas are symmetric.

**replication_live.** Two replicas and two commits beside the root, no conflicts, one crash.
No symmetry, which is not sound for liveness.

**query_compile.** Every dependency graph with signs over three predicates with up to
three edges, with rows of their own, so that components, verdicts and meanings meet every shape;
graphs of four vertices for the search alone; programs with chains, cycles, negation, repeated variables,
literals, comparisons, predicates without columns and rules whose names collide; realms with
views, laws with and without antecedents and with several consequents, recursive views, facts; plans with each
operator over each pair of bases; constants with listed copies up to the bounds. Base rows
include self loops and rows that fail each condition.

**batch.** Twenty-one programs, ten accepted and eleven refused, with recursion through one, two and mutual atoms, strata over strata,
negative weights, repeated variables, literals and strings, on 87 catalogs: among them every Z-set of
weights -1, 0 and 1 over four edges, self loop and largest key included. All three executors, semi-naive and naive.

**host_language.** All programs of up to four statements out of twenty-four: variables
with and without values, shadowing, blocks, closures that read, count and are made by functions,
calls with and without enough arguments, functions given to themselves, conditions with effects and
calls; then up to two rows, of either of two kinds, fed to the selections in any order. Two-bit integers overflow soon,
and the build is one that wraps (`Checked = FALSE`).

**codec.** Three tables (integers with references, strings, no columns), up to three operations in all, in one to three
commits of authors that have seen any closed part of the others; rows of the wrong type, which are refused at commit.
Every byte of what was written is changed, or the bytes are cut or extended there.

**repl.** Sessions of up to five texts out of all that the two modes have, well-formed and not,
broken into lines at up to two places, with the tokens that end rows and statements inside quotes.
Three realms, one with a view and a law, one with a law that a created table takes the name of, and one
that does not compile.

**Deadlock** is checked, except where a program ends: `query_compile`, `batch`,
`host_language` and `codec`.

**Fairness.** `FairSpec` of `ApplyCommits` and `StoreCore` assumes that a running call keeps taking
steps (weak fairness of the loop, of `Work`): the code is a sequential loop
without waiting. Nothing is assumed of callers, of deliveries, or of which of
success and failure happens. `FairSpec` of `Replication` assumes that calls return, that
transactions are closed, and that a process is started again after a crash. Of the
network it assumes that replicas ask each other again and again with their
current heads (strong fairness of `Send`, since a busy store does not answer), that
a commit which stays at the server is delivered when the replica can take it
(strong fairness of `Deliver`), and that at some point nothing is lost any more. This
is what `coln-store` leaves to its transport: the demo gives its chunks to
automerge-repo, which is not part of the repository. Nobody has to save, write or
merge, and a
commit that only a crashed replica held is gone. `QueryTx` makes no claim of progress: each of its steps
is a call that returns.

**Bounds.** `MaxWeight` bounds the copies of a base row in `QueryTx`, `MaxCrashes`
the crashes in `Replication`: 1, as a second crash finds nothing
the first did not, the process being the same after `Open` as before. `MaxStaged`,
`MaxRows` and `MaxTx` bound `TableStorage`, `MaxOps` and `DamagedOps` `StoreFile`, `MaxLength` and `MaxRows`
`HostProgram`, `MaxTexts` and `MaxBreaks` `Repl`; all of them end a history, none changes a
step. `MaxCopies` and `MaxWeight` of `QueryTranslation` are u64::MAX and i64::MAX, scaled to 5 and 3, and
`KeyMax` of `BatchQuery` is u64::MAX, scaled to 3, so that each boundary is met. No other
variable needs a cap: the commits are finite, a commit is applied
once, and the Z-sets are bounded by that. Universes are bounds: of `StoreCore`, five
commits of one to four rows. Larger tables would repeat the cases, as a row only
ever interacts with rows that have its key, equal cells, or a reference to it.

## 4. What modelling found

The first is a run of its own. The others are what the code does, and so what the models
do; the properties are stated so that they hold beside them, and say where.

1. *An enforced violation is committed* (`api/transaction.rs:283`, run
   `query_exists_commit`). A rule with an empty
   antecedent starts from the unit relation, which the circuit emits in its
   first step only. The compiler accepts such rules (`frontend/translation.rs:309-315`, and
   tests use them). If the first transaction is rejected, its rollback does not
   take that emission back, and it is not reported again: the next transaction
   finds no violation and is committed, although the rule is still violated.
   The same flaw has two more consequences. A transaction that repairs the rule
   makes the circuit report the violation with weight -1; `is_empty` does not look
   at signs, so the repair is refused, for a violation that does not exist
   in the database it leads to. And when the rule is a monitored one, what the
   first, aborted, transaction emitted is discarded with it
   (`api/transaction.rs:293`), and the caller never learns of the violation. All
   of this vanishes when every rule has an antecedent (`Grounded`); that is the
   hypothesis of the theorems about `QueryTx`.
2. *Stale references break convergence* (`store/mod.rs:786`). A commit's cells are
   stored as they came. If the row a cell refers to was merged away earlier, the
   cell keeps the old id; if the commit came before the merge, the cell is rewritten.
   Two replicas with the same commits hold different rows, against
   `docs/commit-layer.md:149-150`. For the same reason two rows with
   one primary key may both be accepted (`store/mod.rs:850`), and be refused when the
   file is replayed in the order of hashes: a saved store that does not open.
3. *The buffer is lost on an error* (`store/frag.rs:62`). `apply_chunk_bytes` takes
   the buffered commits, adds them to the batch and leaves with `?` if one commit
   fails. The buffer stays empty. The trait's doc promises to "buffer those ones
   that cannot be applied" (lines 20-21).
4. *The engine and the store part* (`store/mod.rs:632`). Derived rows are stored after
   `coln-query` committed. If one violates its view's key, as a second derivation of the
   same row does, the store rolls back
   and `coln-query` keeps the row; a second attempt at the same commit then finds no
   new derived row and is accepted.
5. *A merge stops at the first refusal* (`store/mod.rs:501`). `merge` promises to
   merge "as much as possible" (line 497). A commit that is refused ends the call, and commits
   that were ready after it are left behind, although they would be accepted; which
   ones depends on hashes.
6. *Queries by row id miss rows* (`store/mod.rs:270`). `row_by_id` makes its argument
   canonical (`table/handle.rs:68`); the query the JavaScript interface offers instead compares ids as they
   are. After a merge a client does not find its own row by the id it was
   given. It does if it promotes the id again before each query
   (`PromotedIdsFound`).
7. *Derived rows panic*. A view that loses a row meets a `todo!()` (`table/mod.rs:459`), and a
   derived row with a plain cell a panic, for which integers and strings are swapped
   (`table/mod.rs:436-449`).
8. *Compiler corners*. A derived view whose only rule is a fact counts as a base table and
   gets no sink, though `api/query.rs:319-321` promises one for exactly the derived views (`FactsRead`).
   A view whose every rule reads itself, or that has no rule, fails the whole program with "no
   base case"; mutual recursion is a `todo!()` after verification accepted it (`translation.rs:145`).
9. *Outputs and keys*. `OutputView::rows` filters columns only when there are none to hide
   (`dbsp/wrapper.rs:465`); union, difference and distinct combine keyed Z-sets without
   bringing their keys in line (`incremental/schema.rs:443`). No translated rule leads there.
10. *The backends differ* on plans that bind a name twice, of which the batch backend
   gathers both initializers under it (`batch/lowering.rs:267`; the resolver's test at
   `host/resolver.rs:553` has the second shadow the first; hence `BoundOnce`), and on an equi-join that no
   projection follows, where batch keeps both columns of one name. The batch backend refuses
   outputs as initializers, antijoins, conditions that are not equalities of columns and literals,
   several statements in a recursive step, and constants with copies.
11. *Borrowed functions* (`host/interpreter.rs:309`). A function is borrowed from before its arguments are
   evaluated until its body ends: `f(f(1))`, `f(f)` and `var g = f` within `f` panic. An error in the
   condition of a selection panics too, as it runs inside the circuit. The model has the status `busy` for it.
12. *Integers are cut* to 32 bits when a payload is decoded (`commit/wire/prim.rs:201`): two payloads may
   mean one commit, the exception `OneEncoding` makes. A cell of the wrong type is only found at commit.
13. *The shell*. A row id is displayed by the first six bytes of its hash (`table/cell.rs:25`), but the parser
   pads short hashes with zeros in front (`repl/parse/coln.rs:337`), so a displayed id, typed back, names no row. `.save x`
   appends `.colnstore`, `.open x` does not. `.save` overwrites in place, so a crash loses the
   old file too. Creating a table over a loaded realm drops its views' definitions, but not the views
   (`store/mod.rs:898-900`), and does not look whether the name is a law's. The session goes on, rows can be
   added and saved, but the saved file cannot be opened: a view without a rule is refused (`translation.rs:162`), and
   a law's rules would make the table a derived one (`frontend/mod.rs:315`, `analysis.rs:609`); the exceptions
   of `SavedOpens`. A `;` at the end of a line ends a statement even within quotes, and a line break between
   `commit` and `;` keeps it from ever ending; `AsTyped` leaves these two breaks out (`MayBreak`). The
   `.rules` that `coln-store/README.md:14` lists is not a command.

   With `-c` the first error ends the script; a copy that fails keeps the chunks before.
14. *Two replicas, one commit*. Author and time are placeholders (`txn/inner.rs:31`): equal rows committed on
   equal heads in one millisecond get one hash.

## 5. The proofs

Eight modules hold proofs: one for each of `ApplyCommits`, `QueryTx`, `Replication` and `TableStorage`, two for
`StoreCore`, a module of lemmas about folds on which these rest, and `SemiNaive`, whose few proofs are its own.

`ApplyCommitsProofs` proves, for every set of commits, finite or not, every
well-founded dependency function with finite dependency sets and every order of
hashes:

| theorem | statement |
|---|---|
| `Invariance` | `Spec => []IInv` |
| `TypeCorrect`, `Closed` | `Spec => []TypeOK`, `Spec => []GraphClosed` |
| `DerivedStateIsExact` | `DerivedStateExact`: graph, heads, children and counters; from `Closed`, `IndexesExact` and `CountersExact` |
| `SnapshotsReplay` | `SnapshotReplays` |
| `Refinement` | `Spec => Implements`: every step of the work list is a step or a stutter of `AtomicApply` |

Assumptions: `RootAssumption`, `DepsAssumption` (the root depends on nothing,
dependency sets are finite, and every non-empty set of commits has one that
depends on none of the others: hashes cannot form a cycle), `RankAssumption`. TLC
evaluates them in the run.

The argument. `GraphClosed` is not inductive alone: that a popped commit may be
recorded follows from `ready` holding exactly the commits with no unmet
dependency, and that from the counters, so `WorkListExact` joins it. The
counters are exact only if `batch` and `graph` stay apart and every commit that
counts a dependency waits on it: hence the equations for `waiting`. `StoreInv` adds
that the file is closed too and holds no malformed commit, and `CallInv` how a
running call relates to the state it began in. With these, an empty `ready`
implies that each commit left has an unmet dependency which is not
pending, or which is left over itself; well-foundedness then gives that what was
applied is the *largest* possible set (`Refinement`), and for a
replay, whose batch and graph together are a closed set, that nothing is left
(`SnapshotsReplay`).

`QueryTxProofs` proves, for all base tables, sinks and programs `Query`, and for every
bound on weights, under the hypothesis `Grounded` (over empty base tables nothing
is derived and no rule violated):

| theorem | statement |
|---|---|
| `Invariance`, `TypeCorrect` | `Spec => []IInv`, `Spec => []TypeOK` |
| `RollbackExact` | `EngineHoldsCommitted`: a transaction that did not commit left nothing |
| `HardRules`, `Rejections` | `HardRulesHold`, `RejectionNamesViolations` |
| `Ledger`, `Reopening` | the caller's sum of deltas is what the rules say; what is committed can be reopened |
| `Implements` | every step of `QueryTx` is a step or a stutter of `AtomicTx` |

Assumption: `CircuitAssumption`, the types of the constants. The argument. While
the engine is up, `seen` is `Query(base)` and the read handles are empty
(`CircuitInStep`), which `Grounded` provides at first and every handler restores,
rollbacks because the retraction of a delta takes `base` back to where it was.
Hence what a step emits is the difference of two values of `Query`. The committed
database has no hard violations (`CommittedLawful`), so that in the idle state this
difference *is* the set of violations of the database that is tried. `PendingMatches`
says the same of a pending transaction and its report, and `IdleMatches` that the
ledger is up to date.

`ReplicationProofs` proves, for any replicas, any commits, finitely or infinitely
many, any order of hashes, any `Refuses` and any number of crashes:

| theorem | statement |
|---|---|
| `Invariance`, `TypeCorrect` | `Spec => []IInv`, `Spec => []TypeOK` |
| `Closed` | `GraphsClosed`, whatever the network does |
| `OnHeads` | `TransactionsOnHeads` |
| `HeadsAreEnough` | `HeadsIdentify` |
| `ExchangesAreExact` | `ExchangesExact`, for `commits_after` and `commits_added` |

Assumption: `ReplicationAssumption`, the types of the constants. One thing the code
relies on is proved and not assumed: commits cannot form a cycle. `Layered` says so in
the form the proofs need: every non-empty set of commits has one on which no
other of the set depends; a new commit is one, since nobody can have depended on it.
From it follows the lemma `HeadsCover`: a closed set with the heads of a graph has
all of the graph, without which neither search would be complete. `GraphsClosed` is
inductive only with `DepsKnown` and `AllKnown`, which say that whatever lies in a graph, a buffer, a batch, a file
or the network has been made, with its dependencies: otherwise a commit
made later under a hash already present could bring dependencies the graph lacks.

`SemiNaive` proves, for all facts and finite or infinite sets of ground rules:

| theorem | statement |
|---|---|
| `TypeCorrect` | `Spec => []TypeOK` |
| `MissesNothing` | `NothingMissed`: what holds without the last delta has already been derived |
| `ClosesAtLeastModel` | a recursion that has closed holds the least model of its rules over its initial facts |
| `SemiNaiveIsNaive` | semi-naive iteration implements naive iteration, round by round |

It needs no assumption. The argument: an instance either reads the delta or holds
without it (`TouchedOrOld`), and what holds without it is already there (`NothingMissed`); a
fact in the totals is in every model (`Forced`), so that a closed recursion is the least one.

`StoreCoreProofs` and `StoreMeaning` prove, for all commits, tables, rules and views, with structural tables
that refer to each other in any way, any number of merges, rebuilds and rollbacks and any
order of hashes:

| theorem | statement | under |
|---|---|---|
| `UndoWorks` | `UndoRestores`: wherever a commit is, `rollback_to` would give the tables back as they were | |
| `TypeCorrect` | `TypeOK` | |
| `KeysStayUnique` | `KeysUnique`: no primary key is held by two rows, in the middle of a rebuild neither | |
| `CollapsesKeepCells` | `CollapseAgrees`: where a rebuild drops a row for another, both have the same cells | |
| `SettledBetween` | `Settled`: between commits nothing is left staged, logged, displaced or to unite | `NoViewTwin` |
| `NeverPanics` | `NoPanic`: no row is inserted under an id its table has | `ViewsOnlyGrow` |
| `RulesKept` | `RulesOnStoredRows`: enforced rules hold of what is stored, and `coln-query` holds it | `Accepts({})`, `NoViewRefused` |
| `IdsStayKnown` | `IdsResolve`: every id in use can be unpacked and leads to the least of its class | `Accepts({})`, `RowInEveryCommit`, `NoViewRefused` |
| `NoAssertEverFails` | `NoAssertFails`: the six above that assert something of the tables | all of these |
| `RowsLast` | `RowsOfCommits`: between commits no row of an applied commit is lost and none is made up | `NoViewTwin` |
| `OldIdsStayGood` | `OldIdsLead`: any id ever given out leads to the row that stands for it now | `Accepts({})`, `RowInEveryCommit`, `NoViewRefused`, `NoViewTwin` |
| `RulesKeptUnkeyed` | `RulesOnStoredRows`, of every behaviour | `Accepts({})`, `UnkeyedViews` |
| `NoAssertWithoutViews` | `NoAssertFails`, of every behaviour | `Accepts({})`, `RowInEveryCommit`, `NoViews` |

Assumptions on constants, which TLC evaluates: `SchemaAssumption`, `OpsAssumption`, `RankAssumption`,
`MarkerAssumption`. All theorems also ask for `ViewsClosed` (implied by `NoViews`): views of finitely many rows are
finitely many, fill tables of their own and mention no id the rows do not mention, as a
rule makes nothing up. `Accepts({})` says that the empty store violates no enforced rule, without which no
first commit could be refused and leave a legal store. `RowInEveryCommit`: `TxnInner::commit` makes no commit of
nothing (`txn/inner.rs:102`); one would leave its hash out of the dictionary.

Three hypotheses are about states, and name what the code leaves open about *views*.
`NoViewRefused`: storing a derived row does not meet a taken key; if it does, engine and
store part (finding 4). `NoViewTwin`: a derived row in a structural table has no equal row there;
its union would be staged when merging is over. `ViewsOnlyGrow`: a commit takes no row from a view; if it
does, or a derived row has a plain cell, the code panics (finding 7). They hold in every state of the run `store_core`, as do `NothingStale` and `CommitsApart` below.
Two corollaries replace them by conditions on constants: views without
primary keys (`UnkeyedViews`), or no views (`NoViews`).

The argument. The inductive core is `Base`: the values of all variables (`ShapeNow`), those of the state to go
back to (`ShapeThen`), which step of `apply_commit_atomic` is next and what is empty then (`Control`), and that
what is staged can be carried out: each deletion names a row that is there, once, and every table with
staged updates is still to be visited (`StagedFits`). With it `UndoRestores` is inductive: every step that
writes a row appends the entry that undoes it, and undoing is a fold from the end. The other theorems add a part each.

- `KeysHeld`, of the rows and of the state to go back to.
- `Synced`: what is stored is what was stored when the commit began and what `query_tx` has collected,
  but for the updates of the table at hand that are still to be done (`Accounted`). Hence what `coln-query` is told in
  `check_rules` is exactly the change, and since the rewrites of rebuilding are in it, that it accepts
  means that the *stored* rows obey the rules. Here a rollback must restore the rows the engine was told of, so
  `UndoRestores` is needed.
- `Home`: the same shapes as `Base`, with the ids that the dictionary knows in place of all ids; after `Begin`, the
  state to go back to knows only those of the shorter dictionary, which is why truncating it is safe.
- `NoUnions`: unions are staged by insertions and consumed before rules are looked at.
- `Merging`, the invariant of structural identity: rows of one class are rows of one table and have the same
  cells once these are canonical, by the union-find *that the unions staged so far will lead to*, and of all rows,
  stored, staged or reported (`Coherent` of `Alive`); otherwise moving a row from a list to a table, or applying
  a union, would break it. With it: new rows have ids that were never given out (`Taken`); a rebuild deletes a displaced row
  before it adds the canonical one, which is added once (`StagedWell`); before
  a rebuild the ids that are not canonical are the displaced ones (`DisplacedWell`). Uniting two equal rows unites
  cells with equal cells, so classes stay coherent without a congruence closure. `MergedThen` says it of the state to go
  back to, so that it survives rollbacks.

The invariants were checked with TLC on the universe of `store_core` before they were proved; that is how `Taken` and
the union-find to come got into them.

`FoldLemmas` is what makes this possible without induction over predicates, which the provers cannot instantiate:
it proves, by well-founded recursion on the number of places, that the folds of the library are what
their first or last step says (`FoldHead`, `FoldAppend`), and gives induction over *sets of pairs* of a place and a value
(`FoldInduct`). `StoreCoreProofs` applies it to each fold of the store: undo logs, deltas, unions, the dictionary, Z-sets.
`ListExists` says that a finite set can be listed in any strict order, so that the order in which `Affected` rows
are rewritten exists.

`StoreMeaning` goes on to what the stored rows *mean*: they are the congruence closure (`Classes`) of the rows in the
applied commits, hence a function of the set of these commits, and not of their order, of their grouping
or of what failed and was rolled back in between.

| theorem | statement | under |
|---|---|---|
| `TermsStayUnique` | `OneRowPerTerm`: between commits no structural table holds two rows with equal cells | `NoViewTwin` |
| `SameCommitsSameRows` | `RowsOfClasses`: union-find and stored rows are those of the closure | `CommitsApart`, `NoViewTwin`, `NothingStale` |
| `ContentsAreMeant` | `ContentsOfCommits`, rows of views included | these, `Accepts({})`, `NoViewRefused`, `ViewsCount` |
| `ReadsFollow` | `ReadsFollowMerges`, all of the run's property | those of `SameCommitsSameRows`, `Accepts({})`, `RowInEveryCommit`, `NoViewRefused` |
| `ContentsWithoutViews` | `ContentsOfCommits`, of every behaviour | `NoViews`, `CommitsApart`, `OwnTerms` |
| `ReadsWithoutViews` | `ReadsFollowMerges`, of every behaviour | those of `ContentsWithoutViews`, `Accepts({})`, `RowInEveryCommit` |

`CommitsApart`: tables written by commits are not those of views, and rows of commits refer to rows of commits.
`NothingStale` says that the commit at work refers to no row of another commit that had been merged away before it. This is
the one thing convergence needs and the code does not provide: where it fails, the contents do depend on the
order (finding 2), so the theorem is as general as the code lets it be. `OwnTerms` is a condition on the
commits alone that implies it: structural rows are referred to within their own commit. `ViewsCount`: nothing is derived
from nothing, and the weight of a derived row is the number of its derivations.

The argument has four invariants more.

- `Lasting`: the row of a commit is where the union-find to come leads, with the cells it was given, canonical by that union-find.
- `Twinned`: rows of a structural table with equal cells are merged in that union-find: whoever inserts one finds the other in the index.
- `Referring`: cells of stored rows are canonical, or the row is about to be rewritten. The three together with an empty list of
  unions make the union-find a congruence on the written rows (`CanonIsCongruence`).
- `Needed`: whatever classification of the written rows is closed under equality of cells puts together what the union-find, and the unions
  staged, put together. Stored cells are the given ones up to canonical ids, so that two rows are only united when any such
  classification unites them too. Hence the union-find is the *least* congruence.

`Classes` is the least one too: a round joins only what must be joined (`RoundWithin`), and one that changes something
leaves fewer classes (`RoundCounts`), so that as many rounds as rows reach a fixed point (`ClassesAre`). Both pick the least id
of a class, hence are equal (`ClosureReached`).

Rows of views: `CheckAccepted` stores only what a view *gains*, and panics if it *loses* a row; that the rows stored earlier are
still right when merges have rewritten them has to be shown. Until then coln-query holds what it held
when the commit began, and the rows of views are those of that time up to merging (`ViewsKept`). A view that loses nothing
derives them still; whatever it derives now mentions canonical ids only, as the base rows do
(`DerivedStand`); hence none of them was touched (`ViewsStand`), and with the rows gained they are all that
is derived (`ViewsShown`).

`TableStorageProofs` proves, for any columns, keys, rows, cells and merges, any number of rows and any number of
transactions, rebuilds and rollbacks:

| theorem | statement |
|---|---|
| `TableInv` | `Spec => []Inv`, the inductive invariant below |
| `NeverMisled` | `ReadsAgree`: everything is sorted, columns and index hold the same rows, and each search finds what a scan would |
| `TableIsMap` | `Spec => Implements`: every step of the layout is a step of `RowMap` or none |
| `OneRowPerKey` | `RowMap` keeps its primary key, among the rows and among those of the mark |
| `KeyIsHeld` | so does a table, by the two before |

Assumptions, which TLC evaluates: `KindsAssumption`, `KeysAssumption`, `GivenAssumption` (the types of the constants)
and `MarkerAssumption` (model values are no maps and no logs). The bounds `MaxStaged`, `MaxRows` and `MaxTx` are not used.

The argument. `Bisect` is the binary search both bounds are made of; that the function it recurs by exists is proved by
well-founded recursion on the length of the range (`BisectExists`), and that it ends where the values below end
by induction on it (`BisectFinds`). From there outwards: a sorted column is scoped to a value (`ScopeFinds`), ids
to a commit's run and then to a counter (`ScopeIdFinds`), which is all `Position` needs, its short cut for the last id of a
run included (`PositionFinds`); the index is narrowed column by column, each being sorted only within
the range of the ones before (`ColumnAscends`, `NarrowOne`, `ScopeKeyFinds`). So inserting and removing keep both
in order (`StockGrows`, `StockShrinks`).

`Inv` has three parts. `Kept`: `Layout` (sorted columns and index, of the same rows), and rows whose packed ids the dictionary
knows, each id and each key once (`Sound`). `Coming`: what is staged or taken can be applied one after the other, each
deletion naming a stored id and each addition a free one (`Staged`, `Doing`); for a rebuild this is
an induction over its rows (`RebuildStaged`), in which a row that collapses is only deleted. Without it
an addition might store an id twice, and the searches would miss one. `Gone`: there is a history of the rows, one per entry of the log, each
entry leading back by one, whose first is what the snapshot showed, *unpacked by the dictionary up to the mark alone*
(`Undoable`). That is why the dictionary may be cut when the log is used up, and why a row that
is put back cannot clash with a key: in the history it was there.

Only the key check of `ApplyAdd` keeps the key; that it asks the right question of the index is `KeyTakenIs`.
A row that a rebuild adds goes through the same check and may be refused; the transaction is then rolled back, and the
invariant holds throughout.

Only model-checked:

- liveness (`CallReturns`, `CommitEnds`, `Converge`): out of the prover's reach;
- of `StoreCore`, `ReplayAccepted`, which says that replaying in another order is accepted, a
  confluence: it is false in general (finding 2), and holds of the universe;
- the compilers and parsers, recursive definitions over programs and texts, whose inputs are
  enumerated instead;
- the encodings (`RoundTrip`, `DamageDetected`, `OneEncoding`): they rest on powers of two
  (`2 ^ (Group * n)`), and the provers do not know that `2 ^ (n + 1) = 2 * 2 ^ n`.

## 6. What is not modelled, and why

- The Haskell compiler and its parser: pure, and type theory over terms of any size is beyond
  enumeration. Its output, the realm, is an input of `FlirProgram`.
- `coln-ls`, `coln-cli`: a document buffer and front ends around the compiler. The JavaScript runtimes
  wrap an `AutoStore`; their calls are those of `Replication`. `coln-integrator` is a stub.
- DBSP, `hexane`, `blake3`, `serde_json`, `automerge-repo`: libraries, modelled from how the code uses
  them or taken as perfect.
- `playground.rs` (circuits written by hand), `type_resolver.rs` (never called), `visualize`, printing,
  error texts, table layout, completion and history; the files and the test data generators of `coln-batch`.
- Relation aliases, strings and some operators of the host language (see `HostEval`); the path that
  picks columns without evaluating anything, which is disabled (`relational/incremental/operators/projection.rs:16-18`).
- The wasm build of `apply_atomic_inner`, which checks no rule and derives nothing.
- `rebuild_incremental` and `rebuild_index`, which nothing calls; `SortedCopy`, which only its tests do.
- Commits with one hash and different contents: the models give every commit its own.
- The life of a `ManagedStore` (`coln-js-interface/src/store.ts`): if
  `endTransaction` throws, its promise chain stays as it was. What a failed commit
  leaves behind on the other side of the interface is the runtime's choice.
- Replicas with different roots, which refuse each other's commits for good.

## 7. Plan

What remains, most important first:

1. *Composition*: `StoreCore` under `ApplyCommits`, with failures decided by the
   tables instead of at will; `QueryTx` under `StoreCore`, with the circuit in place of
   `Accepts` and `Derived`; derived rows with the ids of merged rows. Abstract
   specification: a store whose contents are `Classes` of its commits.
2. *Proofs*: the tables of `StoreCore` as instances of `RowMap`, so that what is proved of its maps is proved
   of the layout; that a commit is encoded in one way (`OneEncoding`).
3. *Client handles*: `ManagedStore` and the runtimes: pending row ids that are promoted
   when a transaction commits, aborts or fails.
4. The language server's document buffer.

## 8. Running

    tlc -workers 2 -config MCApplyCommits.cfg MCApplyCommits
    tlc -workers 2 -config MCStoreCore.cfg MCStoreCore
    tlc -workers 2 -config MCTableStorage.cfg MCTableStorage
    tlc -workers 2 -config MCQueryTx.cfg MCQueryTx
    tlc -workers 2 -config MCReplication.cfg MCReplication
    tlc -workers 2 -config MCReplicationLive.cfg MCReplication
    tlc -workers 2 -config MCQueryCompile.cfg MCQueryCompile
    tlc -workers 2 -config MCBatch.cfg MCBatch
    tlc -workers 2 -config MCHost.cfg MCHost
    tlc -workers 2 -config MCCodec.cfg MCCodec
    tlc -workers 2 -config MCRepl.cfg MCRepl
    tlapm ApplyCommitsProofs.tla
    tlapm QueryTxProofs.tla
    tlapm ReplicationProofs.tla
    tlapm SemiNaive.tla
    tlapm TableStorageProofs.tla
    tlapm FoldLemmas.tla
    tlapm StoreCoreProofs.tla
    tlapm StoreMeaning.tla

`tlc -config MCQueryTxExists.cfg MCQueryTx` ends with a counterexample.
