----------------------------- MODULE SemiNaive -----------------------------
(* Semi-naive iteration over ground rules, what coln-batch's evaluator does   *)
(* for a recursive stratum once a rule is seen as the set of its instances:   *)
(* the first round fires every rule, a later round only the instances that    *)
(* read a fact of the previous round's delta.                                 *)
(* A ground rule is [head |-> fact, body |-> set of facts].                   *)
EXTENDS Naturals, FiniteSets, TLAPS

CONSTANT Fact

GroundRule == [head : Fact, body : SUBSET Fact]

VARIABLES rules, initial, total, delta, phase

vars == <<rules, initial, total, delta, phase>>

\* Immediate consequences of a set of facts.
Consequences(R, S) == {r.head : r \in {q \in R : q.body \subseteq S}}

\* Those of the instances that read a fact of D.
Touched(R, D, S) == {r.head : r \in {q \in R : q.body \subseteq S /\ q.body \cap D # {}}}

TypeOK ==
    /\ rules \in SUBSET GroundRule
    /\ initial \in SUBSET Fact
    /\ total \in SUBSET Fact
    /\ delta \in SUBSET Fact
    /\ phase \in {"idle", "first", "round", "closed"}

Init ==
    /\ rules = {} /\ initial = {} /\ total = {} /\ delta = {}
    /\ phase = "idle"

\* A stratum is entered: its instances and its initial facts are given.
Begin ==
    /\ phase \in {"idle", "closed"}
    /\ rules' \in SUBSET GroundRule
    /\ initial' \in SUBSET Fact
    /\ total' = initial'
    /\ delta' = {}
    /\ phase' = "first"

Fold(staging) ==
    /\ total' = total \cup staging
    /\ delta' = staging \ total
    /\ phase' = IF staging \subseteq total THEN "closed" ELSE "round"
    /\ UNCHANGED <<rules, initial>>

First == phase = "first" /\ Fold(Consequences(rules, total))
Round == phase = "round" /\ Fold(Touched(rules, delta, total))

Next == Begin \/ First \/ Round

Spec == Init /\ [][Next]_vars

----------------------------------------------------------------------------
\* Semi-naive rounds miss nothing: whatever follows from the facts of earlier
\* rounds is already there.
NothingMissed == phase = "round" => Consequences(rules, total \ delta) \subseteq total

\* At the end the totals are the least set that holds the initial facts and
\* is closed under the rules.
LeastModel ==
    phase = "closed" =>
        /\ initial \subseteq total
        /\ Consequences(rules, total) \subseteq total
        /\ \A S \in SUBSET Fact :
              initial \subseteq S /\ Consequences(rules, S) \subseteq S => total \subseteq S

\* Every semi-naive round computes what the naive round would.
Naive == INSTANCE NaiveRounds WITH
    phase <- IF phase \in {"first", "round"} THEN "iterating" ELSE phase

ImplementsNaive == Naive!Spec

----------------------------------------------------------------------------
(* Semi-naive iteration computes the least model of a recursive stratum, and  *)
(* round by round the same totals as naive iteration, for every set of facts  *)
(* and every set of ground rules, finite or not.                              *)

\* What is derivable so far is forced: every closed set holds it.
Forced ==
    \A S \in SUBSET Fact :
        initial \subseteq S /\ Consequences(rules, S) \subseteq S => total \subseteq S

\* The inductive invariant.
IInv ==
    /\ TypeOK
    /\ initial \subseteq total
    /\ delta \subseteq total
    /\ Forced
    /\ NothingMissed
    /\ phase = "closed" => Consequences(rules, total) \subseteq total

----------------------------------------------------------------------------
\* Consequences are facts, and grow with the set they are drawn from.
LEMMA ConsequencesAreFacts ==
    ASSUME NEW R \in SUBSET GroundRule, NEW S
    PROVE  Consequences(R, S) \in SUBSET Fact
BY DEF Consequences, GroundRule

LEMMA ConsequencesMonotone ==
    ASSUME NEW R, NEW S, NEW T, S \subseteq T
    PROVE  Consequences(R, S) \subseteq Consequences(R, T)
BY DEF Consequences

\* An instance that reads nothing of D holds without D.
LEMMA TouchedOrOld ==
    ASSUME NEW R, NEW D, NEW S
    PROVE  /\ Touched(R, D, S) \subseteq Consequences(R, S)
           /\ Consequences(R, S) \subseteq Touched(R, D, S) \cup Consequences(R, S \ D)
<1>1. Touched(R, D, S) \subseteq Consequences(R, S)
  BY DEF Touched, Consequences
<1>2. ASSUME NEW f \in Consequences(R, S)
      PROVE  f \in Touched(R, D, S) \cup Consequences(R, S \ D)
  <2>1. PICK r \in R : r.body \subseteq S /\ r.head = f
    BY DEF Consequences
  <2>2. CASE r.body \cap D = {}
    <3>1. r.body \subseteq S \ D
      BY <2>1, <2>2
    <3> QED
      BY <2>1, <3>1 DEF Consequences
  <2>3. CASE r.body \cap D # {}
    BY <2>1, <2>3 DEF Touched
  <2> QED
    BY <2>2, <2>3
<1> QED
  BY <1>1, <1>2

\* While nothing is missed, a semi-naive round adds what a naive one would.
LEMMA RoundIsNaive ==
    ASSUME NEW R, NEW D, NEW S, Consequences(R, S \ D) \subseteq S
    PROVE  /\ S \cup Touched(R, D, S) = S \cup Consequences(R, S)
           /\ Touched(R, D, S) \subseteq S <=> Consequences(R, S) \subseteq S
BY TouchedOrOld

----------------------------------------------------------------------------
\* One folded round keeps the invariant, whichever staging it folds, as long
\* as the staging completes the totals.
LEMMA FoldKeepsInvariant ==
    ASSUME IInv,
           NEW staging, staging \in SUBSET Fact, staging \subseteq Consequences(rules, total),
           total \cup staging = total \cup Consequences(rules, total),
           Fold(staging)
    PROVE  IInv'
<1> USE DEF IInv, Fold
<1>1. TypeOK'
  BY DEF TypeOK
<1>2. initial' \subseteq total' /\ delta' \subseteq total'
  OBVIOUS
<1>3. Forced'
  <2> SUFFICES ASSUME NEW S \in SUBSET Fact, initial \subseteq S,
                      Consequences(rules, S) \subseteq S
               PROVE  total \cup staging \subseteq S
    BY DEF Forced
  <2>1. total \subseteq S
    BY DEF Forced
  <2>2. Consequences(rules, total) \subseteq S
    BY <2>1, ConsequencesMonotone
  <2> QED
    BY <2>1, <2>2
<1>4. NothingMissed'
  <2>1. total' \ delta' = total
    BY DEF TypeOK
  <2>2. Consequences(rules', total' \ delta') = Consequences(rules, total)
    BY <2>1
  <2>3. Consequences(rules, total) \subseteq total'
    OBVIOUS
  <2> QED
    BY <2>2, <2>3 DEF NothingMissed
<1>5. (phase = "closed" => Consequences(rules, total) \subseteq total)'
  <2> SUFFICES ASSUME staging \subseteq total
               PROVE  Consequences(rules', total') \subseteq total'
    OBVIOUS
  <2>1. total' = total
    OBVIOUS
  <2> QED
    BY <2>1
<1> QED
  BY <1>1, <1>2, <1>3, <1>4, <1>5

LEMMA InitInv == Init => IInv
<1> SUFFICES ASSUME Init PROVE IInv
  OBVIOUS
<1>1. TypeOK
  BY DEF Init, TypeOK, GroundRule
<1>2. Consequences(rules, total) = {}
  BY DEF Init, Consequences
<1> QED
  BY <1>1, <1>2 DEF Init, IInv, Forced, NothingMissed

LEMMA NextInv == IInv /\ [Next]_vars => IInv'
<1> SUFFICES ASSUME IInv, [Next]_vars PROVE IInv'
  OBVIOUS
<1>1. CASE Begin
  <2>1. TypeOK'
    BY <1>1 DEF Begin, TypeOK
  <2>2. Forced'
    BY <1>1 DEF Begin, Forced
  <2> QED
    BY <1>1, <2>1, <2>2 DEF Begin, IInv, NothingMissed
<1>2. CASE First
  <2>1. Consequences(rules, total) \in SUBSET Fact
    BY ConsequencesAreFacts DEF IInv, TypeOK
  <2> QED
    BY <1>2, <2>1, FoldKeepsInvariant DEF First
<1>3. CASE Round
  <2>1. Touched(rules, delta, total) \subseteq Consequences(rules, total)
    BY TouchedOrOld
  <2>2. total \cup Touched(rules, delta, total) = total \cup Consequences(rules, total)
    BY <1>3, RoundIsNaive DEF Round, IInv, NothingMissed
  <2>3. Touched(rules, delta, total) \in SUBSET Fact
    BY <2>1, ConsequencesAreFacts DEF IInv, TypeOK
  <2> QED
    BY <1>3, <2>1, <2>2, <2>3, FoldKeepsInvariant DEF Round
<1>4. CASE UNCHANGED vars
  BY <1>4 DEF vars, IInv, TypeOK, Forced, NothingMissed
<1> QED
  BY <1>1, <1>2, <1>3, <1>4 DEF Next

\* The invariant of semi-naive iteration.
LEMMA Invariant == Spec => []IInv
BY InitInv, NextInv, PTL DEF Spec

----------------------------------------------------------------------------
\* Every state of the iteration has its types.
THEOREM TypeCorrect == Spec => []TypeOK
<1>1. IInv => TypeOK
  BY DEF IInv
<1> QED
  BY <1>1, Invariant, PTL

\* A round that reads only deltas loses no derivation from older facts.
THEOREM MissesNothing == Spec => []NothingMissed
<1>1. IInv => NothingMissed
  BY DEF IInv
<1> QED
  BY <1>1, Invariant, PTL

\* A recursion that has closed holds exactly the least model of its rules over
\* its initial facts.
THEOREM ClosesAtLeastModel == Spec => []LeastModel
<1>1. IInv => LeastModel
  BY DEF IInv, Forced, LeastModel
<1> QED
  BY <1>1, Invariant, PTL

\* Semi-naive iteration implements naive iteration, round by round.
THEOREM SemiNaiveIsNaive == Spec => ImplementsNaive
<1>1. Init => Naive!Init
  BY DEF Init, Naive!Init
<1>2. ASSUME IInv, [Next]_vars PROVE [Naive!Next]_(Naive!vars)
  <2>1. \A R, S : Naive!Fired(R, S) = Consequences(R, S)
    BY DEF Naive!Fired, Consequences
  <2>2. CASE Begin
    BY <2>2 DEF Begin, Naive!Next, Naive!Begin, Naive!NaiveRule, GroundRule
  <2>3. CASE First
    BY <2>1, <2>3 DEF First, Fold, Naive!Next, Naive!Round
  <2>4. CASE Round
    <3>1. Consequences(rules, total \ delta) \subseteq total
      BY <1>2, <2>4 DEF Round, IInv, NothingMissed
    <3>2. /\ total \cup Touched(rules, delta, total) = total \cup Consequences(rules, total)
          /\ Touched(rules, delta, total) \subseteq total
                <=> Consequences(rules, total) \subseteq total
      BY <3>1, RoundIsNaive
    <3> QED
      BY <2>1, <2>4, <3>2 DEF Round, Fold, Naive!Next, Naive!Round
  <2>5. CASE UNCHANGED vars
    BY <2>5 DEF vars, Naive!vars
  <2> QED
    BY <1>2, <2>2, <2>3, <2>4, <2>5 DEF Next
<1> QED
  BY <1>1, <1>2, Invariant, PTL DEF Spec, ImplementsNaive, Naive!Spec
=============================================================================
