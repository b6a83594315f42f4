------------------------------ MODULE AtomicTx ------------------------------
(***************************************************************************)
(* What coln-query promises to a caller that goes through its transactions *)
(* (api/transaction.rs): a transaction happens as a whole or not at all,   *)
(* no database that violates an enforced rule is ever committed, and the   *)
(* deltas reported with the commits add up to what the rules say of the    *)
(* database.                                                               *)
(***************************************************************************)
EXTENDS QueryCircuit

VARIABLES
    db,     \* the base rows of the committed transactions
    views   \* derived views and monitored violations, summed up by the caller

avars == <<db, views>>

AInit ==
    /\ db = Zero(Row)
    /\ views = Zero(Reported)

\* A transaction that leaves every enforced rule satisfied takes effect.
ACommit(next) ==
    /\ \A p \in Hard : Query(Feed(next))[p] = 0
    /\ db' = next
    /\ views' = [p \in Reported |-> Query(Feed(next))[p]]

ANext == \E next \in Databases : ACommit(next)

ASpec == AInit /\ [][ANext]_avars
=============================================================================
