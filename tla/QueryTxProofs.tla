--------------------------- MODULE QueryTxProofs ---------------------------
(***************************************************************************)
(* Proofs about coln-query's transactions (QueryTx), for every circuit     *)
(* that derives nothing and finds no violation over empty base tables.     *)
(***************************************************************************)
EXTENDS QueryTx, TLAPS

(***************************************************************************)
(* The strengthening.  The engine has emitted exactly what the rules say   *)
(* of its inputs, nothing waits in the read handles, and a pending         *)
(* transaction is lawful and carries the change it makes.                  *)
(***************************************************************************)
CircuitInStep ==
    /\ seen = Query(base)
    /\ outputs = Zero(Sink \X Out)

Lawful(inputs) == \A p \in Hard : Query(inputs)[p] = 0

CommittedLawful ==
    /\ Lawful(Feed(committed))
    /\ ledger = DataDelta(Query(Feed(committed)))

IdleMatches == (engine = "up" /\ phase = "idle") => base = Feed(committed)

PendingMatches ==
    phase = "pending" =>
        /\ engine = "up"
        /\ \E d \in DeltasOn(committed) :
              /\ ongoing = <<d>>
              /\ base = After(Feed(committed), d)
        /\ Lawful(base)
        /\ report = DataDelta(Minus(Query(base), Query(Feed(committed))))

IInv ==
    /\ TypeOK
    /\ CircuitInStep
    /\ CommittedLawful
    /\ IdleMatches
    /\ PendingMatches
    /\ RejectionNamesViolations
    /\ HistoryReplays

-----------------------------------------------------------------------------
(***************************************************************************)
(* Lemmas about weighted sets.                                             *)
(***************************************************************************)

\* A delta a caller may try takes its database to a database.
LEMMA DeltaApplies ==
    ASSUME NEW db \in Databases, NEW d \in DeltasOn(db)
    PROVE  /\ d \in [Row -> Int]
           /\ Plus(db, d) \in Databases
<1>1. PICK next \in Databases : d = Minus(next, db)
  BY DEF DeltasOn
<1>2. /\ db \in [Row -> Nat] /\ next \in [Row -> Nat]
      /\ Weights \subseteq Nat
  BY CircuitAssumption DEF Databases, Weights
<1>3. d \in [Row -> Int]
  BY <1>1, <1>2 DEF Minus
<1>4. Plus(db, d) = next
  BY <1>1, <1>2 DEF Plus, Minus
<1> QED
  BY <1>3, <1>4

\* The rows of a database that reach the circuit are inputs of it.
LEMMA FeedType ==
    ASSUME NEW db \in Databases
    PROVE  Feed(db) \in [Source -> Weights]
BY CircuitAssumption DEF Feed, Databases

\* Feeding a delta is the same as feeding the database it leads to.
LEMMA FeedPlus ==
    ASSUME NEW db \in Databases, NEW d \in DeltasOn(db)
    PROVE  /\ After(Feed(db), d) = Feed(Plus(db, d))
           /\ After(Feed(db), d) \in [Source -> Weights]
<1>1. d \in [Row -> Int] /\ Plus(db, d) \in Databases
  BY DeltaApplies
<1>2. After(Feed(db), d) = Feed(Plus(db, d))
  BY <1>1, CircuitAssumption DEF After, Feed, Plus, Databases
<1> QED
  BY <1>1, <1>2, FeedType

\* Feeding the retraction of a delta takes the circuit back to its inputs.
LEMMA RetractUndoes ==
    ASSUME NEW b \in [Source -> Weights], NEW d \in [Row -> Int]
    PROVE  After(After(b, d), Retract(d)) = b
<1>1. b \in [Source -> Int]
  BY CircuitAssumption DEF Weights
<1>2. After(b, d) = [r \in Source |-> b[r] + d[r]]
  BY <1>1, CircuitAssumption DEF After, Plus, Feed
<1>3. Feed(Retract(d)) = [r \in Source |-> -d[r]]
  BY CircuitAssumption DEF Feed, Retract
<1>4. \A r \in Source : (b[r] + d[r]) + (-d[r]) = b[r]
  BY <1>1, CircuitAssumption
<1> QED
  BY <1>1, <1>2, <1>3, <1>4 DEF After, Plus

\* What the rules say of the inputs has the type of the outputs.
LEMMA QueryType ==
    ASSUME NEW b \in [Source -> Weights]
    PROVE  Query(b) \in [Sink \X Out -> Int]
BY CircuitAssumption

\* Enforced and reported sinks are sinks.
LEMMA SinksSplit ==
    Hard \subseteq Sink \X Out /\ Reported \subseteq Sink \X Out
BY DEF Hard, Reported

\* From drained handles a step emits the difference it makes.
LEMMA EmittedDifference ==
    ASSUME NEW v \in [Sink \X Out -> Int], NEW b \in [Source -> Weights]
    PROVE  /\ Emitted(Zero(Sink \X Out), v, b) = Minus(Query(b), v)
           /\ Minus(Query(b), v) \in [Sink \X Out -> Int]
<1>1. Query(b) \in [Sink \X Out -> Int]
  BY QueryType
<1>2. Minus(Query(b), v) = [p \in Sink \X Out |-> Query(b)[p] - v[p]]
  BY <1>1 DEF Minus
<1>3. Minus(Query(b), v) \in [Sink \X Out -> Int]
  BY <1>1, <1>2
<1>4. Emitted(Zero(Sink \X Out), v, b) = Minus(Query(b), v)
  BY <1>3 DEF Emitted, Plus, Zero
<1> QED
  BY <1>3, <1>4

\* Handles that were drained or discarded hold nothing.
LEMMA NothingHeld ==
    ASSUME NEW held \in [Sink \X Out -> Int]
    PROVE  /\ Drained(held) = Zero(Sink \X Out)
           /\ Discarded(held) = Zero(Sink \X Out)
BY DEF Drained, Discarded, Zero

-----------------------------------------------------------------------------
(***************************************************************************)
(* The invariant is inductive.                                             *)
(***************************************************************************)

\* The empty database is lawful and nothing was reported yet: the one place
\* where it matters that every rule has an antecedent.
LEMMA InitInv == Grounded /\ Init => IInv
<1> SUFFICES ASSUME Grounded, Init PROVE IInv
  OBVIOUS
<1>1. /\ Feed(Zero(Row)) = Zero(Source)
      /\ Zero(Source) \in [Source -> Weights]
      /\ Zero(Row) \in Databases
  BY CircuitAssumption DEF Feed, Zero, Databases, Weights
<1>2. Query(base) = Zero(Sink \X Out) /\ base = Feed(committed)
  BY <1>1 DEF Init, Grounded
<1>3. DataDelta(Zero(Sink \X Out)) = Zero(Reported) /\ Lawful(base)
  BY <1>2, SinksSplit DEF DataDelta, Zero, Lawful
<1>4. TypeOK
  BY <1>1 DEF Init, TypeOK, Outcome, Outcomes, Zero
<1> QED
  BY <1>1, <1>2, <1>3, <1>4
  DEF IInv, Init, CircuitInStep, CommittedLawful, IdleMatches, PendingMatches,
      RejectionNamesViolations, HistoryReplays, Outcome

\* What the invariant says of an idle engine that is about to try a delta.
LEMMA Trying ==
    ASSUME IInv, phase = "idle", engine = "up",
           NEW d \in DeltasOn(committed)
    PROVE  /\ d \in [Row -> Int]
           /\ base = Feed(committed)
           /\ base \in [Source -> Weights]
           /\ After(base, d) \in [Source -> Weights]
           /\ After(base, d) = Feed(Plus(committed, d))
           /\ After(After(base, d), Retract(d)) = base
           /\ Emitted(outputs, seen, After(base, d))
                = Minus(Query(After(base, d)), Query(base))
           /\ Emitted(outputs, seen, After(base, d)) \in [Sink \X Out -> Int]
           /\ \A p \in Hard :
                 Emitted(outputs, seen, After(base, d))[p]
                    = Query(After(base, d))[p]
<1>1. committed \in Databases /\ base \in [Source -> Weights] /\ base = Feed(committed)
  BY DEF IInv, TypeOK, IdleMatches
<1>2. d \in [Row -> Int]
  BY <1>1, DeltaApplies
<1>3. After(base, d) \in [Source -> Weights] /\ After(base, d) = Feed(Plus(committed, d))
  BY <1>1, FeedPlus
<1>4. After(After(base, d), Retract(d)) = base
  BY <1>1, <1>2, RetractUndoes
<1>5. /\ Query(base) \in [Sink \X Out -> Int]
      /\ Query(After(base, d)) \in [Sink \X Out -> Int]
  BY <1>1, <1>3, QueryType
<1>6. /\ Emitted(outputs, seen, After(base, d))
           = Minus(Query(After(base, d)), Query(base))
      /\ Minus(Query(After(base, d)), Query(base)) \in [Sink \X Out -> Int]
  BY <1>3, <1>5, EmittedDifference DEF IInv, CircuitInStep
<1>7. \A p \in Hard : Query(base)[p] = 0
  BY <1>1 DEF IInv, CommittedLawful, Lawful
<1>8. ASSUME NEW p \in Hard
      PROVE  Minus(Query(After(base, d)), Query(base))[p] = Query(After(base, d))[p]
  BY <1>5, <1>7, SinksSplit DEF Minus
<1> QED
  BY <1>1, <1>2, <1>3, <1>4, <1>6, <1>8

\* One lemma per action.
LEMMA StepTryCommitPending ==
    ASSUME IInv, NEW d \in DeltasOn(committed), TryCommitPending(d)
    PROVE  IInv'
<1> DEFINE tried == After(base, d)
           held  == Emitted(outputs, seen, tried)
<1>1. /\ phase = "idle" /\ engine = "up"
      /\ NoViolations(HardViolations(held))
      /\ base' = tried /\ seen' = Query(tried) /\ outputs' = Drained(held)
      /\ ongoing' = <<d>> /\ report' = DataDelta(held)
      /\ phase' = "pending" /\ last' = Outcome("pending")
      /\ UNCHANGED <<engine, caller>>
  BY DEF TryCommitPending
<1>2. /\ d \in [Row -> Int]
      /\ base = Feed(committed)
      /\ tried \in [Source -> Weights]
      /\ held = Minus(Query(tried), Query(base))
      /\ held \in [Sink \X Out -> Int]
      /\ \A p \in Hard : held[p] = Query(tried)[p]
  BY <1>1, Trying
<1> HIDE DEF tried, held
<1>3. Lawful(tried)
  BY <1>1, <1>2 DEF Lawful, NoViolations, HardViolations
<1>4. outputs' = Zero(Sink \X Out) /\ Zero(Sink \X Out) \in [Sink \X Out -> Int]
  BY <1>1, <1>2, NothingHeld DEF Zero
<1>5. DataDelta(held) \in [Reported -> Int]
  BY <1>2, SinksSplit DEF DataDelta
<1>6. TypeOK'
  <2>1. Query(tried) \in [Sink \X Out -> Int]
    BY <1>2, QueryType
  <2>2. Zero(Source) \in [Source -> Weights] /\ Zero(Hard) \in [Hard -> Int]
    BY CircuitAssumption DEF Zero, Weights
  <2>3. <<d>> \in Seq([Row -> Int])
    BY <1>2
  <2> QED
    BY <1>1, <1>2, <1>4, <1>5, <2>1, <2>2, <2>3
    DEF IInv, TypeOK, Outcome, Outcomes, caller
<1>7. CircuitInStep' /\ CommittedLawful' /\ IdleMatches' /\ HistoryReplays'
      /\ RejectionNamesViolations'
  BY <1>1, <1>4
  DEF IInv, CircuitInStep, CommittedLawful, IdleMatches, HistoryReplays,
      RejectionNamesViolations, Outcome, caller, Lawful, DataDelta
<1>8. PendingMatches'
  BY <1>1, <1>2, <1>3 DEF PendingMatches, caller, Lawful, tried
<1> QED
  BY <1>6, <1>7, <1>8 DEF IInv

LEMMA StepTryCommitRejected ==
    ASSUME IInv, NEW d \in DeltasOn(committed), TryCommitRejected(d)
    PROVE  IInv'
<1> DEFINE tried  == After(base, d)
           held   == Emitted(outputs, seen, tried)
           undone == After(tried, Retract(d))
           back   == Emitted(Drained(held), Query(tried), undone)
<1>1. /\ phase = "idle" /\ engine = "up"
      /\ base' = undone /\ seen' = Query(undone) /\ outputs' = Discarded(back)
      /\ ongoing' = <<>>
      /\ last' = [kind |-> "rejected", tried |-> tried,
                  violations |-> HardViolations(held)]
      /\ UNCHANGED <<engine, phase, report, caller>>
  BY DEF TryCommitRejected
<1>2. /\ base = Feed(committed)
      /\ base \in [Source -> Weights]
      /\ tried \in [Source -> Weights]
      /\ undone = base
      /\ held \in [Sink \X Out -> Int]
      /\ \A p \in Hard : held[p] = Query(tried)[p]
  BY <1>1, Trying
<1> HIDE DEF tried, held, undone
<1>3. /\ Query(tried) \in [Sink \X Out -> Int]
      /\ Query(base) \in [Sink \X Out -> Int]
  BY <1>2, QueryType
<1>4. back \in [Sink \X Out -> Int]
  <2>1. Drained(held) = Zero(Sink \X Out)
    BY <1>2, NothingHeld
  <2>2. back = Emitted(Zero(Sink \X Out), Query(tried), base)
    BY <1>2, <2>1
  <2>3. Emitted(Zero(Sink \X Out), Query(tried), base) \in [Sink \X Out -> Int]
    <3>1. PICK v : v = Query(tried) /\ v \in [Sink \X Out -> Int]
      BY <1>3
    <3>2. /\ Emitted(Zero(Sink \X Out), v, base) = Minus(Query(base), v)
          /\ Minus(Query(base), v) \in [Sink \X Out -> Int]
      BY <1>2, <3>1, EmittedDifference
    <3> QED
      BY <3>1, <3>2
  <2> QED
    BY <2>2, <2>3
<1> HIDE DEF back
<1>5. outputs' = Zero(Sink \X Out) /\ Zero(Sink \X Out) \in [Sink \X Out -> Int]
  <2>1. outputs' = Zero(Sink \X Out)
    BY <1>1, <1>4, NothingHeld
  <2> QED
    BY <2>1 DEF Zero
<1>6. HardViolations(held) = [p \in Hard |-> Query(tried)[p]]
      /\ HardViolations(held) \in [Hard -> Int]
  BY <1>2, SinksSplit DEF HardViolations
<1>7. TypeOK'
  <2>1. <<>> \in Seq([Row -> Int])
    OBVIOUS
  <2> QED
    BY <1>1, <1>2, <1>3, <1>5, <1>6, <2>1 DEF IInv, TypeOK, Outcomes, caller
<1>8. CircuitInStep' /\ CommittedLawful' /\ IdleMatches' /\ HistoryReplays'
  BY <1>1, <1>2, <1>5
  DEF IInv, CircuitInStep, CommittedLawful, IdleMatches, HistoryReplays,
      caller, Lawful, DataDelta
<1>9. PendingMatches'
  BY <1>1 DEF PendingMatches
<1>10. RejectionNamesViolations'
  BY <1>1, <1>6 DEF RejectionNamesViolations
<1> QED
  BY <1>7, <1>8, <1>9, <1>10 DEF IInv

LEMMA StepTryCommitFails ==
    ASSUME IInv, NEW d \in DeltasOn(committed),
           TryCommitRollbackError(d) \/ TryCommitApplyError(d)
    PROVE  IInv'
<1>1. /\ Zero(Source) \in [Source -> Weights] /\ Zero(Hard) \in [Hard -> Int]
      /\ Zero(Sink \X Out) \in [Sink \X Out -> Int]
  BY CircuitAssumption DEF Zero, Weights
<1>2. d \in [Row -> Int]
  BY DeltaApplies DEF IInv, TypeOK
<1>3. CASE TryCommitRollbackError(d)
  <2> DEFINE tried == After(base, d)
             held  == Emitted(outputs, seen, tried)
  <2>1. /\ phase = "idle" /\ engine = "up"
        /\ base' = tried /\ seen' = Query(tried) /\ outputs' = Drained(held)
        /\ ongoing' = <<>> /\ engine' = "down"
        /\ last' = Outcome("rollback_error")
        /\ UNCHANGED <<phase, report, caller>>
    BY <1>3 DEF TryCommitRollbackError
  <2>2. tried \in [Source -> Weights] /\ held \in [Sink \X Out -> Int]
    BY <2>1, Trying
  <2> HIDE DEF tried, held
  <2>3. outputs' = Zero(Sink \X Out) /\ Query(tried) \in [Sink \X Out -> Int]
    BY <2>1, <2>2, NothingHeld, QueryType
  <2>4. TypeOK'
    <3>1. <<>> \in Seq([Row -> Int])
      OBVIOUS
    <3> QED
      BY <1>1, <2>1, <2>2, <2>3, <3>1 DEF IInv, TypeOK, Outcome, Outcomes, caller
  <2> QED
    BY <2>1, <2>3, <2>4
    DEF IInv, CircuitInStep, CommittedLawful, IdleMatches, PendingMatches,
        RejectionNamesViolations, HistoryReplays, Outcome, caller, Lawful,
        DataDelta
<1>4. CASE TryCommitApplyError(d)
  <2>1. TypeOK'
    <3>1. <<d>> \in Seq([Row -> Int])
      BY <1>2
    <3> QED
      BY <1>1, <1>4, <3>1
      DEF IInv, TypeOK, TryCommitApplyError, Outcome, Outcomes, caller
  <2> QED
    BY <1>4, <2>1
    DEF TryCommitApplyError, IInv, CircuitInStep, CommittedLawful, IdleMatches,
        PendingMatches, RejectionNamesViolations, HistoryReplays, Outcome,
        caller, Lawful, DataDelta
<1> QED
  BY <1>3, <1>4

\* What the invariant says of a pending transaction.
LEMMA WhilePending ==
    ASSUME IInv, phase = "pending"
    PROVE  \E d \in DeltasOn(committed) :
              /\ ongoing = <<d>>
              /\ ongoing[1] = d
              /\ d \in [Row -> Int]
              /\ Plus(committed, d) \in Databases
              /\ base = Feed(Plus(committed, d))
              /\ Feed(committed) \in [Source -> Weights]
              /\ After(base, Retract(d)) = Feed(committed)
<1>1. committed \in Databases
  BY DEF IInv, TypeOK
<1>2. PICK d \in DeltasOn(committed) :
         ongoing = <<d>> /\ base = After(Feed(committed), d)
  BY DEF IInv, PendingMatches
<1>3. d \in [Row -> Int] /\ Plus(committed, d) \in Databases
  BY <1>1, DeltaApplies
<1>4. Feed(committed) \in [Source -> Weights] /\ base = Feed(Plus(committed, d))
  BY <1>1, <1>2, FeedType, FeedPlus
<1>5. After(base, Retract(d)) = Feed(committed)
  BY <1>2, <1>3, <1>4, RetractUndoes
<1> QED
  BY <1>2, <1>3, <1>4, <1>5

LEMMA StepCommit ==
    ASSUME IInv, Commit
    PROVE  IInv'
<1>1. /\ phase = "pending"
      /\ ongoing' = <<>> /\ phase' = "idle" /\ report' = Zero(Reported)
      /\ committed' = Plus(committed, ongoing[1])
      /\ ledger' = Plus(ledger, report)
      /\ last' = Outcome("committed")
      /\ UNCHANGED circuit
  BY DEF Commit
<1>2. PICK d \in DeltasOn(committed) :
         /\ ongoing[1] = d
         /\ Plus(committed, d) \in Databases
         /\ base = Feed(Plus(committed, d))
         /\ Feed(committed) \in [Source -> Weights]
  BY <1>1, WhilePending
<1>3. committed' \in Databases /\ base = Feed(committed')
  BY <1>1, <1>2
<1>4. /\ engine = "up" /\ Lawful(base)
      /\ report = DataDelta(Minus(Query(base), Query(Feed(committed))))
      /\ ledger = DataDelta(Query(Feed(committed)))
  BY <1>1 DEF IInv, PendingMatches, CommittedLawful
<1>5. ledger' = DataDelta(Query(base)) /\ ledger' \in [Reported -> Int]
  <2>1. /\ Query(base) \in [Sink \X Out -> Int]
        /\ Query(Feed(committed)) \in [Sink \X Out -> Int]
    BY <1>2, QueryType DEF IInv, TypeOK
  <2> DEFINE new == Query(base)
             old == Query(Feed(committed))
  <2>2. /\ ledger = [p \in Reported |-> old[p]]
        /\ report = [p \in Reported |-> new[p] - old[p]]
    BY <1>4, <2>1, SinksSplit DEF DataDelta, Minus
  <2>3. \A p \in Reported : new[p] \in Int /\ old[p] \in Int
    BY <2>1, SinksSplit
  <2> HIDE DEF new, old
  <2>4. Plus(ledger, report) = [p \in Reported |-> new[p]]
    BY <2>2, <2>3 DEF Plus
  <2> QED
    BY <1>1, <2>3, <2>4 DEF DataDelta, new
<1>6. TypeOK'
  <2>1. /\ Zero(Source) \in [Source -> Weights] /\ Zero(Hard) \in [Hard -> Int]
        /\ Zero(Reported) \in [Reported -> Int]
        /\ <<>> \in Seq([Row -> Int])
    BY CircuitAssumption DEF Zero, Weights
  <2> QED
    BY <1>1, <1>3, <1>5, <2>1
    DEF IInv, TypeOK, Outcome, Outcomes, circuit
<1> QED
  BY <1>1, <1>3, <1>4, <1>5, <1>6
  DEF IInv, CircuitInStep, CommittedLawful, IdleMatches, PendingMatches,
      RejectionNamesViolations, HistoryReplays, Outcome, circuit, Lawful

LEMMA StepRollBack ==
    ASSUME IInv, NEW kind \in {"aborted", "dropped"}, RollBack(kind)
    PROVE  IInv'
<1>1. PICK d \in DeltasOn(committed) :
         /\ ongoing[1] = d
         /\ Feed(committed) \in [Source -> Weights]
         /\ After(base, Retract(d)) = Feed(committed)
  BY WhilePending DEF RollBack
<1> DEFINE back == Emitted(outputs, seen, Feed(committed))
<1>2. /\ phase = "pending"
      /\ base' = Feed(committed) /\ seen' = Query(Feed(committed))
      /\ outputs' = Discarded(back)
      /\ ongoing' = <<>> /\ phase' = "idle" /\ report' = Zero(Reported)
      /\ last' = Outcome(kind)
      /\ UNCHANGED <<engine, caller>>
  BY <1>1 DEF RollBack
<1>3. Query(Feed(committed)) \in [Sink \X Out -> Int]
  BY <1>1, QueryType
<1>4. back \in [Sink \X Out -> Int]
  <2>1. outputs = Zero(Sink \X Out) /\ seen \in [Sink \X Out -> Int]
    BY DEF IInv, CircuitInStep, TypeOK
  <2>2. Emitted(Zero(Sink \X Out), seen, Feed(committed)) \in [Sink \X Out -> Int]
    BY <1>1, <2>1, EmittedDifference
  <2> QED
    BY <2>1, <2>2
<1> HIDE DEF back
<1>5. outputs' = Zero(Sink \X Out)
  BY <1>2, <1>4, NothingHeld
<1>6. TypeOK'
  <2>1. /\ Zero(Source) \in [Source -> Weights] /\ Zero(Hard) \in [Hard -> Int]
        /\ Zero(Reported) \in [Reported -> Int]
        /\ Zero(Sink \X Out) \in [Sink \X Out -> Int]
        /\ <<>> \in Seq([Row -> Int])
    BY CircuitAssumption DEF Zero, Weights
  <2> QED
    BY <1>1, <1>2, <1>3, <1>5, <2>1
    DEF IInv, TypeOK, Outcome, Outcomes, caller
<1> QED
  BY <1>2, <1>5, <1>6
  DEF IInv, CircuitInStep, CommittedLawful, IdleMatches, PendingMatches,
      RejectionNamesViolations, HistoryReplays, Outcome, caller, Lawful,
      DataDelta

LEMMA StepRollBackFails ==
    ASSUME IInv, RollBackFails
    PROVE  IInv'
<1>1. /\ Zero(Source) \in [Source -> Weights] /\ Zero(Hard) \in [Hard -> Int]
      /\ Zero(Reported) \in [Reported -> Int]
      /\ <<>> \in Seq([Row -> Int])
  BY CircuitAssumption DEF Zero, Weights
<1>2. TypeOK'
  BY <1>1 DEF RollBackFails, IInv, TypeOK, Outcome, Outcomes, caller
<1> QED
  BY <1>2
  DEF RollBackFails, IInv, CircuitInStep, CommittedLawful, IdleMatches,
      PendingMatches, RejectionNamesViolations, HistoryReplays, Outcome,
      caller, Lawful, DataDelta

\* A new engine accepts the committed history: it is lawful, and all that the
\* rules say of it is emitted at once.
LEMMA StepRestart ==
    ASSUME IInv, Restart
    PROVE  IInv'
<1> DEFINE trusted == After(Zero(Source), committed)
           held    == Emitted(Zero(Sink \X Out), Zero(Sink \X Out), trusted)
<1>1. committed \in Databases /\ Feed(committed) \in [Source -> Weights]
  BY FeedType DEF IInv, TypeOK
<1>2. trusted = Feed(committed)
  <2>1. \A r \in Source : 0 + committed[r] = committed[r]
    BY <1>1, CircuitAssumption DEF Databases, Weights
  <2> QED
    BY <2>1 DEF After, Plus, Zero, Feed
<1>3. Query(Feed(committed)) \in [Sink \X Out -> Int]
  BY <1>1, QueryType
<1>4. held = Query(Feed(committed))
  <2>1. Zero(Sink \X Out) \in [Sink \X Out -> Int]
    BY DEF Zero
  <2>2. held = Minus(Query(Feed(committed)), Zero(Sink \X Out))
    BY <1>1, <1>2, <2>1, EmittedDifference
  <2>3. Minus(Query(Feed(committed)), Zero(Sink \X Out)) = Query(Feed(committed))
    BY <1>3 DEF Minus, Zero
  <2> QED
    BY <2>2, <2>3
<1>5. NoViolations(HardViolations(held))
  BY <1>4 DEF IInv, CommittedLawful, Lawful, NoViolations, HardViolations
<1>6. /\ base' = trusted /\ seen' = Query(trusted) /\ outputs' = Drained(held)
      /\ engine' = "up" /\ ongoing' = <<>> /\ phase' = "idle"
      /\ report' = Zero(Reported) /\ ledger' = DataDelta(held)
      /\ last' = Outcome("restarted")
      /\ UNCHANGED committed
  BY <1>5 DEF Restart
<1> HIDE DEF trusted, held
<1>7. outputs' = Zero(Sink \X Out)
  BY <1>3, <1>4, <1>6, NothingHeld
<1>8. ledger' = ledger
  BY <1>4, <1>6 DEF IInv, CommittedLawful
<1>9. TypeOK'
  <2>1. /\ Zero(Source) \in [Source -> Weights] /\ Zero(Hard) \in [Hard -> Int]
        /\ Zero(Reported) \in [Reported -> Int]
        /\ Zero(Sink \X Out) \in [Sink \X Out -> Int]
        /\ <<>> \in Seq([Row -> Int])
    BY CircuitAssumption DEF Zero, Weights
  <2> QED
    BY <1>1, <1>2, <1>3, <1>6, <1>7, <1>8, <2>1
    DEF IInv, TypeOK, Outcome, Outcomes
<1> QED
  BY <1>2, <1>6, <1>7, <1>8, <1>9
  DEF IInv, CircuitInStep, CommittedLawful, IdleMatches, PendingMatches,
      RejectionNamesViolations, HistoryReplays, Outcome, Lawful

LEMMA NextInv == IInv /\ [Next]_vars => IInv'
<1> SUFFICES ASSUME IInv, [Next]_vars PROVE IInv'
  OBVIOUS
<1>1. CASE TryCommit
  BY <1>1, StepTryCommitPending, StepTryCommitRejected, StepTryCommitFails
  DEF TryCommit
<1>2. CASE Commit
  BY <1>2, StepCommit
<1>3. CASE Abort \/ Drop
  BY <1>3, StepRollBack DEF Abort, Drop
<1>4. CASE RollBackFails
  BY <1>4, StepRollBackFails
<1>5. CASE Restart
  BY <1>5, StepRestart
<1>6. CASE UNCHANGED vars
  BY <1>6
  DEF vars, circuit, caller, IInv, TypeOK, CircuitInStep, CommittedLawful,
      IdleMatches, PendingMatches, RejectionNamesViolations, HistoryReplays,
      Lawful, DataDelta
<1> QED
  BY <1>1, <1>2, <1>3, <1>4, <1>5, <1>6 DEF Next

-----------------------------------------------------------------------------
(***************************************************************************)
(* What a program whose rules all have an antecedent gets.                 *)
(***************************************************************************)

\* The invariant holds in every reachable state.
THEOREM Invariance == ASSUME Grounded PROVE Spec => []IInv
<1>1. Init => IInv
  BY InitInv
<1>2. IInv /\ [Next]_vars => IInv'
  BY NextInv
<1> QED
  BY <1>1, <1>2, PTL DEF Spec

\* Every variable holds values of its type (api/transaction.rs, api/mod.rs).
THEOREM TypeCorrect == ASSUME Grounded PROVE Spec => []TypeOK
<1>1. IInv => TypeOK
  BY DEF IInv
<1> QED
  BY <1>1, Invariance, PTL

\* A transaction that was rejected, aborted or dropped leaves no row in the
\* engine (api/mod.rs 219-228).
THEOREM RollbackExact == ASSUME Grounded PROVE Spec => []EngineHoldsCommitted
<1>1. IInv => EngineHoldsCommitted
  <2> SUFFICES ASSUME IInv, engine = "up" PROVE EngineHoldsCommitted
    BY DEF EngineHoldsCommitted
  <2>1. CASE phase = "pending"
    BY <2>1, WhilePending DEF EngineHoldsCommitted
  <2>2. CASE phase = "idle"
    BY <2>2 DEF IInv, IdleMatches, EngineHoldsCommitted
  <2> QED
    BY <2>1, <2>2 DEF IInv, TypeOK, HistoryReplays
<1> QED
  BY <1>1, Invariance, PTL

\* No enforced rule is violated after a commit (api/transaction.rs 170-171).
THEOREM HardRules == ASSUME Grounded PROVE Spec => []HardRulesHold
<1>1. IInv => HardRulesHold
  BY DEF IInv, CommittedLawful, Lawful, HardRulesHold
<1> QED
  BY <1>1, Invariance, PTL

\* The deltas of the commits add up to what the rules say of the database
\* (api/transaction.rs 181-183).
THEOREM Ledger == ASSUME Grounded PROVE Spec => []LedgerIntegrates
<1>1. IInv => LedgerIntegrates
  BY DEF IInv, CommittedLawful, LedgerIntegrates, DataDelta
<1> QED
  BY <1>1, Invariance, PTL

\* A rejection names the violations of the database that was tried
\* (api/transaction.rs 163-173).
THEOREM Rejections == ASSUME Grounded PROVE Spec => []RejectionNamesViolations
<1>1. IInv => RejectionNamesViolations
  BY DEF IInv
<1> QED
  BY <1>1, Invariance, PTL

\* A database that was written through transactions can be opened again
\* (api/mod.rs 103-116).
THEOREM Reopening == ASSUME Grounded PROVE Spec => []HistoryReplays
<1>1. IInv => HistoryReplays
  BY DEF IInv
<1> QED
  BY <1>1, Invariance, PTL

\* Transactions implement the abstract ones: every step is the commit of a
\* lawful database, with the deltas that lead to it, or changes nothing a
\* caller holds.
THEOREM Implements == ASSUME Grounded PROVE Spec => AtomicSpec
<1>1. Init => Atomic!AInit
  BY DEF Init, Atomic!AInit, Zero, Reported, Atomic!Zero, Atomic!Reported
<1>2. ASSUME IInv, IInv', [Next]_vars
      PROVE  [Atomic!ANext]_(Atomic!avars)
  <2>1. CASE Commit
    <3>1. PICK d \in DeltasOn(committed) :
             /\ ongoing[1] = d
             /\ Plus(committed, d) \in Databases
             /\ base = Feed(Plus(committed, d))
      BY <1>2, <2>1, WhilePending DEF Commit
    <3>2. committed' \in Databases /\ committed' = Plus(committed, d)
      BY <2>1, <3>1 DEF Commit
    <3>3. /\ \A p \in Hard : Query(Feed(committed'))[p] = 0
          /\ ledger' = [p \in Reported |-> Query(Feed(committed'))[p]]
      BY <1>2 DEF IInv, CommittedLawful, Lawful, DataDelta
    <3> QED
      BY <3>2, <3>3 DEF Atomic!ANext, Atomic!ACommit, Hard, Reported, Feed,
         Databases, Weights, Atomic!Hard, Atomic!Reported, Atomic!Feed,
         Atomic!Databases, Atomic!Weights
  <2>2. CASE Restart
    <3>1. ledger' = ledger /\ committed' = committed
      BY <1>2, <2>2 DEF IInv, CommittedLawful, Restart
    <3> QED
      BY <3>1 DEF Atomic!avars
  <2>3. CASE TryCommit \/ Abort \/ Drop \/ RollBackFails \/ UNCHANGED vars
    BY <2>3
    DEF TryCommit, TryCommitPending, TryCommitRejected, TryCommitRollbackError,
        TryCommitApplyError, Abort, Drop, RollBack, RollBackFails, vars,
        caller, Atomic!avars
  <2> QED
    BY <1>2, <2>1, <2>2, <2>3 DEF Next
<1> QED
  BY <1>1, <1>2, Invariance, PTL DEF Spec, AtomicSpec, Atomic!ASpec
=============================================================================
