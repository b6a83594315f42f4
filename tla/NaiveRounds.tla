---------------------------- MODULE NaiveRounds ----------------------------
(* The evaluator's test oracle, fixpoint::naive, over ground rules: a round   *)
(* fires every rule on the full totals, and the recursion is closed when a    *)
(* round derives nothing new.                                                 *)
CONSTANT Fact

VARIABLES rules, initial, total, phase

vars == <<rules, initial, total, phase>>

NaiveRule == [head : Fact, body : SUBSET Fact]

\* Heads of the rules whose body holds.
Fired(R, S) == {r.head : r \in {q \in R : q.body \subseteq S}}

Init ==
    /\ rules = {} /\ initial = {} /\ total = {}
    /\ phase = "idle"

Begin ==
    /\ phase \in {"idle", "closed"}
    /\ rules' \in SUBSET NaiveRule
    /\ initial' \in SUBSET Fact
    /\ total' = initial'
    /\ phase' = "iterating"

Round ==
    /\ phase = "iterating"
    /\ total' = total \cup Fired(rules, total)
    /\ phase' = IF total' = total THEN "closed" ELSE "iterating"
    /\ UNCHANGED <<rules, initial>>

Next == Begin \/ Round

Spec == Init /\ [][Next]_vars
============================================================================
