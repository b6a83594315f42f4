---------------------------- MODULE QueryCircuit ----------------------------
(***************************************************************************)
(* The incremental engine of coln-query as its transactions see it: base   *)
(* rows with weights go in, the rows of every output sink come out.        *)
(*                                                                         *)
(* A weighted set (Z-set) is a function to integers.  What the rules       *)
(* compute is the constant operator Query: it maps the weights of the base *)
(* rows to the weights of the rows of every sink, and any program coln-    *)
(* query compiles is one instance.  The circuit itself is DBSP, a library: *)
(* it is modelled from how dbsp/wrapper.rs and incremental/mod.rs use it.  *)
(***************************************************************************)
EXTENDS Integers

CONSTANTS
    Row,        \* rows of base tables that a transaction may name
    Source,     \* the rows of tables some rule reads: the circuit's inputs
    Sink,       \* the output sinks: one per derived view and per constraint
    Out,        \* rows a sink may hold
    Kind,       \* what each sink is
    Query(_),   \* the rules
    MaxWeight   \* bound: copies of one base row

Weights == 0 .. MaxWeight

\* What a sink reports: a derived view, or the violations of a rule.
Kinds == {"derived", "enforced", "monitored"}

\* The sinks whose rows veto a transaction, and those reported to the caller.
Hard == {s \in Sink : Kind[s] = "enforced"} \X Out

Reported == {s \in Sink : Kind[s] # "enforced"} \X Out

ASSUME CircuitAssumption ==
    /\ MaxWeight \in Nat
    /\ Source \subseteq Row
    /\ Kind \in [Sink -> Kinds]
    /\ \A b \in [Source -> Weights] : Query(b) \in [Sink \X Out -> Int]

-----------------------------------------------------------------------------
(***************************************************************************)
(* Arithmetic of weighted sets.                                            *)
(***************************************************************************)
Zero(S) == [x \in S |-> 0]

Plus(f, g) == [x \in DOMAIN f |-> f[x] + g[x]]

Minus(f, g) == [x \in DOMAIN f |-> f[x] - g[x]]

\* DbspRuntime::feed: a delta of a table no rule reads has no input handle
\* and is dropped.
Feed(d) == [r \in Source |-> d[r]]

\* The caller's contract on its base rows: it retracts only what it asserted.
Databases == [Row -> Weights]

\* The transactions a caller may try on top of a database.
DeltasOn(db) == {Minus(next, db) : next \in Databases}

(***************************************************************************)
(* A program in which every rule has an antecedent: over empty base tables *)
(* nothing is derived and no rule is violated.                             *)
(***************************************************************************)
Grounded == Query(Zero(Source)) = Zero(Sink \X Out)
=============================================================================
