------------------------------ MODULE QueryTx ------------------------------
(***************************************************************************)
(* Transactions of coln-query: Tx and its states (api/transaction.rs) over *)
(* ColnQuery as a TxStore (api/mod.rs).                                    *)
(*                                                                         *)
(* A transaction is fed to the circuit, and the circuit is stepped, before *)
(* anybody knows whether it will stand.  A transaction that must not stand *)
(* is undone by feeding its retraction and stepping once more.  The engine *)
(* exclusively borrows the store while a transaction is pending, so there  *)
(* is at most one.                                                         *)
(*                                                                         *)
(* A step of the circuit may fail (a worker panics): the engine is then    *)
(* lost until ColnQuery is created anew.  The process may stop at any      *)
(* time; Restart then feeds what was committed to a new engine.            *)
(***************************************************************************)
EXTENDS QueryCircuit, Sequences

VARIABLES
    \* the circuit
    base,       \* its integrated inputs
    seen,       \* its integrated outputs: all it has emitted so far
    outputs,    \* emitted, not yet drained from the read handles
    engine,     \* "up", or "down" after a step that failed
    \* ColnQuery and Tx
    ongoing,    \* ColnQuery::ongoing_tx: <<>> or the delta to retract
    phase,      \* "idle", "pending", or "refused" by unsafe_apply
    report,     \* the DataDelta that Pending carries
    \* the caller
    committed,  \* base rows of the transactions that were committed
    ledger,     \* the DataDeltas of the committed transactions, summed up
    last        \* the outcome of the last call

circuit == <<base, seen, outputs, engine>>

caller == <<committed, ledger>>

vars == <<circuit, ongoing, phase, report, caller, last>>

-----------------------------------------------------------------------------
(***************************************************************************)
(* Pieces of the handlers.                                                 *)
(***************************************************************************)

\* internal_apply: the inputs of the circuit once a delta is fed and stepped.
After(inputs, d) == Plus(inputs, Feed(d))

\* What the read handles hold once the circuit has stepped to these inputs.
Emitted(held, before, inputs) == Plus(held, Minus(Query(inputs), before))

\* StoreDelta::retract: every weight negated.
Retract(d) == [r \in DOMAIN d |-> -d[r]]

\* interpret_outputs drains every read handle before it looks at the outputs.
Drained(held) == [p \in DOMAIN held |-> 0]

\* Mutant of Discarded: what a rollback emits stays in the read handles.
DiscardedNothing(held) == held

\* discard_outputs, after the step that undoes a transaction.
Discarded(held) == [p \in DOMAIN held |-> 0]

\* The enforced rules' share of the outputs: the HardViolationsSet.
HardViolations(held) == [p \in Hard |-> held[p]]

\* ViolationsSet::is_empty: no row of any enforced rule.
NoViolations(violations) == \A p \in Hard : violations[p] = 0

\* The DataDelta: derived rows and monitored violations, retractions included.
DataDelta(held) == [p \in Reported |-> held[p]]

\* An outcome that carries no violations.
Outcome(kind) ==
    [kind |-> kind, tried |-> Zero(Source), violations |-> Zero(Hard)]

Init ==
    /\ base = Zero(Source)
    /\ seen = Zero(Sink \X Out)
    /\ outputs = Zero(Sink \X Out)
    /\ engine = "up"
    /\ ongoing = <<>>
    /\ phase = "idle"
    /\ report = Zero(Reported)
    /\ committed = Zero(Row)
    /\ ledger = Zero(Reported)
    /\ last = Outcome("none")

-----------------------------------------------------------------------------
(***************************************************************************)
(* Tx<Prepare>::try_commit                                                 *)
(***************************************************************************)

\* Mutant of TryCommitPending: violations of enforced rules are not looked at.
TryCommitPendingUnchecked(d) ==
    LET tried == After(base, d)
        held  == Emitted(outputs, seen, tried)
    IN  /\ phase = "idle"
        /\ engine = "up"
        /\ base' = tried
        /\ seen' = Query(tried)
        /\ outputs' = Drained(held)
        /\ ongoing' = <<d>>
        /\ report' = DataDelta(held)
        /\ phase' = "pending"
        /\ last' = Outcome("pending")
        /\ UNCHANGED <<engine, caller>>

\* apply succeeds and no enforced rule is violated: the transaction is
\* pending, and the guard will roll it back unless it is committed.
TryCommitPending(d) ==
    LET tried == After(base, d)
        held  == Emitted(outputs, seen, tried)
    IN  /\ phase = "idle"
        /\ engine = "up"
        /\ NoViolations(HardViolations(held))
        /\ base' = tried
        /\ seen' = Query(tried)
        /\ outputs' = Drained(held)
        /\ ongoing' = <<d>>
        /\ report' = DataDelta(held)
        /\ phase' = "pending"
        /\ last' = Outcome("pending")
        /\ UNCHANGED <<engine, caller>>

\* apply succeeds, an enforced rule reports: the store is rolled back at once
\* and the caller gets the violations.
TryCommitRejected(d) ==
    LET tried  == After(base, d)
        held   == Emitted(outputs, seen, tried)
        undone == After(tried, Retract(d))
    IN  /\ phase = "idle"
        /\ engine = "up"
        /\ ~NoViolations(HardViolations(held))
        /\ base' = undone
        /\ seen' = Query(undone)
        /\ outputs' = Discarded(Emitted(Drained(held), Query(tried), undone))
        /\ ongoing' = <<>>
        /\ last' = [kind |-> "rejected", tried |-> tried,
                    violations |-> HardViolations(held)]
        /\ UNCHANGED <<engine, phase, report, caller>>

\* The same, and the step that should undo the transaction fails.
TryCommitRollbackError(d) ==
    LET tried == After(base, d)
        held  == Emitted(outputs, seen, tried)
    IN  /\ phase = "idle"
        /\ engine = "up"
        /\ ~NoViolations(HardViolations(held))
        /\ base' = tried
        /\ seen' = Query(tried)
        /\ outputs' = Drained(held)
        /\ ongoing' = <<>>
        /\ engine' = "down"
        /\ last' = Outcome("rollback_error")
        /\ UNCHANGED <<phase, report, caller>>

\* The step of apply fails, or failed in an earlier call.  There is no guard
\* yet, so nothing is rolled back and ongoing_tx stays set.
TryCommitApplyError(d) ==
    /\ phase = "idle"
    /\ engine' = "down"
    /\ ongoing' = <<d>>
    /\ last' = Outcome("apply_error")
    /\ UNCHANGED <<base, seen, outputs, phase, report, caller>>

-----------------------------------------------------------------------------
(***************************************************************************)
(* Tx<Pending>                                                             *)
(***************************************************************************)

\* Pending::commit: ongoing_tx is dropped, the guard is disarmed, and the
\* caller adds the reported deltas to what it holds.
Commit ==
    /\ phase = "pending"
    /\ ongoing' = <<>>
    /\ phase' = "idle"
    /\ report' = Zero(Reported)
    /\ committed' = Plus(committed, ongoing[1])
    /\ ledger' = Plus(ledger, report)
    /\ last' = Outcome("committed")
    /\ UNCHANGED circuit

\* Mutant of RollBack: the transaction is forgotten, not retracted.
RollBackForgets(kind) ==
    /\ phase = "pending"
    /\ ongoing' = <<>>
    /\ phase' = "idle"
    /\ report' = Zero(Reported)
    /\ last' = Outcome(kind)
    /\ UNCHANGED <<circuit, caller>>

\* Pending::abort, or the guard's destructor when Pending is dropped: the
\* retraction is fed and stepped, and what it emits is discarded.
RollBack(kind) ==
    LET undone == After(base, Retract(ongoing[1]))
    IN  /\ phase = "pending"
        /\ base' = undone
        /\ seen' = Query(undone)
        /\ outputs' = Discarded(Emitted(outputs, seen, undone))
        /\ ongoing' = <<>>
        /\ phase' = "idle"
        /\ report' = Zero(Reported)
        /\ last' = Outcome(kind)
        /\ UNCHANGED <<engine, caller>>

Abort == RollBack("aborted")

Drop == RollBack("dropped")

\* The step of the rollback fails.  The delta was already taken from
\* ongoing_tx; abort returns the error, the destructor ignores it.
RollBackFails ==
    /\ phase = "pending"
    /\ engine' = "down"
    /\ ongoing' = <<>>
    /\ phase' = "idle"
    /\ report' = Zero(Reported)
    /\ last' = Outcome("rollback_error")
    /\ UNCHANGED <<base, seen, outputs, caller>>

-----------------------------------------------------------------------------
(***************************************************************************)
(* The process stops and starts again, in any state: ColnQuery::init, then *)
(* unsafe_apply with the whole committed history.  What it reports is the  *)
(* caller's new ledger; it is refused if an enforced rule reports.         *)
(***************************************************************************)
Restart ==
    LET trusted == After(Zero(Source), committed)
        held    == Emitted(Zero(Sink \X Out), Zero(Sink \X Out), trusted)
        ok      == NoViolations(HardViolations(held))
    IN  /\ base' = trusted
        /\ seen' = Query(trusted)
        /\ outputs' = Drained(held)
        /\ engine' = "up"
        /\ ongoing' = <<>>
        /\ phase' = IF ok THEN "idle" ELSE "refused"
        /\ report' = Zero(Reported)
        /\ ledger' = IF ok THEN DataDelta(held) ELSE ledger
        /\ last' = Outcome("restarted")
        /\ UNCHANGED committed

TryCommit ==
    \E d \in DeltasOn(committed) :
        \/ TryCommitPending(d)
        \/ TryCommitRejected(d)
        \/ TryCommitRollbackError(d)
        \/ TryCommitApplyError(d)

Next ==
    \/ TryCommit
    \/ Commit
    \/ Abort
    \/ Drop
    \/ RollBackFails
    \/ Restart

Spec == Init /\ [][Next]_vars

-----------------------------------------------------------------------------
(***************************************************************************)
(* Properties                                                              *)
(***************************************************************************)

Outcomes ==
    {"none", "pending", "rejected", "committed", "aborted", "dropped",
     "apply_error", "rollback_error", "restarted"}

\* Every variable holds values of its type.
TypeOK ==
    /\ base \in [Source -> Weights]
    /\ seen \in [Sink \X Out -> Int]
    /\ outputs \in [Sink \X Out -> Int]
    /\ engine \in {"up", "down"}
    /\ ongoing \in Seq([Row -> Int])
    /\ phase \in {"idle", "pending", "refused"}
    /\ report \in [Reported -> Int]
    /\ committed \in Databases
    /\ ledger \in [Reported -> Int]
    /\ last \in [kind : Outcomes, tried : [Source -> Weights],
                 violations : [Hard -> Int]]

\* The engine holds the committed transactions and the pending one, nothing
\* else: one that was rejected, aborted or dropped left no row behind, as if
\* it had never happened (transaction.rs 31-36).
EngineHoldsCommitted ==
    engine = "up" =>
        base = Feed(IF phase = "pending" THEN Plus(committed, ongoing[1])
                                         ELSE committed)

\* "The set of those violations is empty after every committed transaction"
\* (transaction.rs 170-171): no committed database violates an enforced rule.
HardRulesHold ==
    last.kind = "committed" =>
        \A p \in Hard : Query(Feed(committed))[p] = 0

\* A caller that sums up the deltas of its commits holds what the rules say
\* of its database (transaction.rs 181-183): no change is lost with the
\* outputs of a transaction that was rolled back, and none is counted twice.
LedgerIntegrates ==
    last.kind = "committed" =>
        ledger = [p \in Reported |-> Query(Feed(committed))[p]]

\* A rejection reports the violations that exist, in full, in the database
\* that was tried (transaction.rs 163-173 and 188), although the engine only
\* ever reports changes.
RejectionNamesViolations ==
    last.kind = "rejected" =>
        last.violations = [p \in Hard |-> Query(last.tried)[p]]

\* unsafe_apply never refuses a history that went through transactions
\* (api/mod.rs 103-112), so a database that was written can be opened again.
HistoryReplays == phase # "refused"

\* Transactions implement the abstract ones: commits are the only steps a
\* caller can tell, and each takes a lawful database to a lawful one.
Atomic == INSTANCE AtomicTx WITH db <- committed, views <- ledger

AtomicSpec == Atomic!ASpec
=============================================================================
