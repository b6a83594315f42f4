----------------------------- MODULE MCQueryTx -----------------------------
(***************************************************************************)
(* Base tables t and u, a table w that no rule reads, one row each in up   *)
(* to MaxWeight copies, and the three kinds of sink:                       *)
(*   e  enforced   t(x) => u(y)      t, antijoined with the rows of u      *)
(*   m  monitored  t(x) => x = c     the row of t is not c                 *)
(*   v  derived    v(x) :- t(x), u(y)    weights multiply in a join        *)
(***************************************************************************)
EXTENDS QueryTx

MCSource == {"t", "u"}

MCRow == MCSource \cup {"w"}

MCSink == {"e", "m", "v"}

MCOut == {"x"}

MCKind == [s \in MCSink |-> CASE s = "e" -> "enforced"
                              [] s = "m" -> "monitored"
                              [] s = "v" -> "derived"]

MCQuery(b) ==
    [p \in MCSink \X MCOut |->
        CASE p[1] = "e" -> IF b["u"] > 0 THEN 0 ELSE b["t"]
          [] p[1] = "m" -> b["t"]
          [] p[1] = "v" -> b["t"] * b["u"]]

-----------------------------------------------------------------------------
\* Another circuit.  A rule without an antecedent, "there is a row of u", and a
\* table t that has nothing to do with it.  The body of the rule is the unit
\* relation, antijoined with u (frontend/translation.rs 309-315): the violation
\* exists while u is empty, and the circuit emits it in its first step.
ExistsRow == {"t", "u"}

ExistsQuery(b) == [p \in {"exists"} \X {"unit"} |-> IF b["u"] > 0 THEN 0 ELSE 1]

ExistsKind == [s \in {"exists"} |-> "enforced"]
=============================================================================
