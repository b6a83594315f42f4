---------------------------- MODULE BatchFixpoint ----------------------------
(* Evaluation of a Datalog program by coln-batch, one stratum after another:  *)
(* a non-recursive stratum runs its rules once with their weights, a           *)
(* recursive one iterates over sets, semi-naively or naively, with either of   *)
(* the executors. One action is one compilation, one non-recursive stratum,    *)
(* one entry of a recursion or one round of it.                                *)
EXTENDS BatchRules

CONSTANTS Programs,    \* a sequence of programs
          Catalogs,    \* a set of stored catalogs
          Executors    \* the executors tried

VARIABLES program, edb,
          exec, semi,     \* the executor, and whether rounds read deltas
          pc,             \* compile, stratum, round, done, error or panic
          compiled,       \* the compiled program
          k,              \* position of the stratum under evaluation
          work,           \* the working catalog
          totals, deltas, \* of the recursive stratum; deltas is <<>> in round 1
          rounds          \* new facts per round, FixpointStats

vars == <<program, edb, exec, semi, pc, compiled, k, work, totals, deltas, rounds>>

Execute(q, cat) ==
    CASE exec = "binary"    -> BinaryJoin(q, cat)
      [] exec = "generic"   -> GenericJoin(q, cat)
      [] exec = "reference" -> ReferenceJoin(q, cat)

Stratum == compiled.strata[k]
RulesOf(stratum) ==
    [i \in DOMAIN stratum.rules |-> compiled.rules[stratum.rules[i]]]

\* The facts the input holds for a derived relation, in normal form.
InitialFacts(n) == IF n \in DOMAIN edb.rels THEN Consolidate(edb.rels[n].rows) ELSE <<>>

Insert(cat, n, rows) ==
    [cat EXCEPT !.rels = n :> Relation(compiled.types[n], rows) @@ @]
InsertAll(cat, byName) ==
    [cat EXCEPT !.rels = [n \in DOMAIN byName |-> Relation(compiled.types[n], byName[n])] @@ @]

HasNegative(rows) == \E i \in DOMAIN rows : rows[i].w < 0

\* Mutant: only the first recursive atom of a body reads the delta.
QueriesFirstPosition(rule, stratum, fromDeltas) ==
    LET ps == RecursivePositions(rule, stratum) IN
    IF ~fromDeltas THEN <<rule.query>>
    ELSE IF ps = <<>> THEN <<>> ELSE <<QueryWithDelta(rule, ps[1])>>

\* The queries of a rule: its body once, or once per atom of its stratum with
\* that atom reading the delta.
Queries(rule, stratum, fromDeltas) ==
    IF fromDeltas
    THEN LET ps == RecursivePositions(rule, stratum) IN
         [i \in DOMAIN ps |-> QueryWithDelta(rule, ps[i])]
    ELSE <<rule.query>>

\* Evaluate the stratum's rules: rows per relation, and whether all queries ran.
Derive(cat, fromDeltas) ==
    LET add(rule, st, result) ==
            IF ~result.ok THEN [st EXCEPT !.ok = FALSE]
            ELSE [st EXCEPT !.rows[rule.head.rel] =
                    Plus(@, MaterializeHead(rule, result.rel.rows, cat.dict))]
        runRule(st, rule) == FoldLeft(LAMBDA s, q : add(rule, s, Execute(q, cat)), st,
                                      Queries(rule, Stratum, fromDeltas))
    IN FoldLeft(runRule,
                [ok |-> TRUE, rows |-> [n \in ToSet(Stratum.relations) |-> <<>>]],
                RulesOf(Stratum))

Init ==
    /\ \E i \in DOMAIN Programs : program = Programs[i]
    /\ edb \in Catalogs
    /\ exec \in Executors
    /\ semi \in BOOLEAN
    /\ pc = "compile"
    /\ compiled = Failed
    /\ k = 1
    /\ work = edb
    /\ totals = <<>> /\ deltas = <<>> /\ rounds = <<>>

CompileProgram ==
    /\ pc = "compile"
    /\ compiled' = Compile(program, edb)
    /\ IF compiled'.ok
       THEN pc' = "stratum" /\ work' = [edb EXCEPT !.dict = compiled'.dict]
       ELSE pc' = "error" /\ UNCHANGED work
    /\ UNCHANGED <<program, edb, exec, semi, k, totals, deltas, rounds>>

\* A non-recursive stratum: initial facts plus what its rules derive.
Once ==
    /\ pc = "stratum" /\ k <= Len(compiled.strata) /\ ~Stratum.recursive
    /\ LET name == Stratum.relations[1]
           total(sum) == IF name \in compiled.distinct THEN Distinct(sum) ELSE sum
       IN \E derived \in {Derive(work, FALSE)} :
             IF derived.ok
             THEN \E rows \in {total(Plus(InitialFacts(name), derived.rows[name]))} :
                     /\ work' = Insert(work, name, rows)
                     /\ rounds' = Append(rounds, Len(rows))
                     /\ k' = k + 1
                     /\ UNCHANGED pc
             ELSE pc' = "error" /\ UNCHANGED <<work, rounds, k>>
    /\ UNCHANGED <<program, edb, exec, semi, compiled, totals, deltas>>

\* The relations a recursive stratum reads from outside.
Outside ==
    UNION {{r.query.atoms[p].rel : p \in DOMAIN r.query.atoms} : r \in ToSet(RulesOf(Stratum))}
        \ ToSet(Stratum.relations)

\* A recursion starts from its initial facts as sets, and refuses inputs and
\* initial facts of negative net weight.
EnterFixpoint ==
    /\ pc = "stratum" /\ k <= Len(compiled.strata) /\ Stratum.recursive
    /\ IF \/ \E n \in Outside : HasNegative(Consolidate(work.rels[n].rows))
          \/ \E n \in ToSet(Stratum.relations) : HasNegative(InitialFacts(n))
       THEN pc' = "error" /\ UNCHANGED totals
       ELSE /\ pc' = "round"
            /\ totals' = [n \in ToSet(Stratum.relations) |-> Distinct(InitialFacts(n))]
    /\ deltas' = <<>>
    /\ UNCHANGED <<program, edb, exec, semi, compiled, k, work, rounds>>

\* The catalog a round reads: the totals, and the deltas of the last round.
Published ==
    LET delta(n) == Relation(compiled.types[n], deltas[n])
        withDeltas(full) ==
            [full EXCEPT !.rels =
                [d \in {DeltaName(n) : n \in DOMAIN deltas} |->
                    delta(CHOOSE m \in DOMAIN deltas : DeltaName(m) = d)] @@ @]
    IN IF semi /\ deltas # <<>> THEN withDeltas(InsertAll(work, totals))
       ELSE InsertAll(work, totals)

\* Fold one round of derivations into the totals.
MergeRound(staging) ==
    LET merged(next, new) ==
            [next |-> next, new |-> new,
             exact |-> \A n \in DOMAIN totals :
                          /\ \A i \in DOMAIN new[n] : new[n][i].w = 1
                          /\ Len(next[n]) = Len(totals[n]) + Len(new[n])]
        merge(next) == merged(next, [n \in DOMAIN totals |-> Minus(next[n], totals[n])])
    IN merge([n \in DOMAIN totals |-> Distinct(Plus(totals[n], staging[n]))])

NewFacts(new) ==
    SumSeq([i \in DOMAIN Stratum.relations |-> Len(new[Stratum.relations[i]])])

\* What a round does with the merged totals and the new facts.
EndRound(read, merged) ==
    IF ~merged.exact
    THEN pc' = "panic" /\ UNCHANGED <<k, work, totals, deltas, rounds>>
    ELSE /\ totals' = merged.next
         /\ rounds' = Append(rounds, NewFacts(merged.new))
         /\ IF \A n \in DOMAIN totals : merged.new[n] = <<>>
            THEN /\ work' = InsertAll(read, merged.next)
                 /\ k' = k + 1 /\ pc' = "stratum" /\ deltas' = <<>>
            ELSE /\ work' = read
                 /\ deltas' = merged.new
                 /\ UNCHANGED <<k, pc>>

Round ==
    /\ pc = "round"
    /\ \E read \in {Published} : \E staging \in {Derive(read, semi /\ deltas # <<>>)} :
          IF staging.ok
          THEN \E merged \in {MergeRound(staging.rows)} : EndRound(read, merged)
          ELSE pc' = "error" /\ UNCHANGED <<k, work, totals, deltas, rounds>>
    /\ UNCHANGED <<program, edb, exec, semi, compiled>>

\* The answer: the input with the derived relations and the grown dictionary.
Finish ==
    /\ pc = "stratum" /\ k > Len(compiled.strata)
    /\ pc' = "done"
    /\ work' = [rels |-> [n \in DOMAIN compiled.types |-> work.rels[n]] @@ edb.rels,
                dict |-> work.dict]
    /\ UNCHANGED <<program, edb, exec, semi, compiled, k, totals, deltas, rounds>>

Next == CompileProgram \/ Once \/ EnterFixpoint \/ Round \/ Finish

Spec == Init /\ [][Next]_vars

----------------------------------------------------------------------------
\* The declared meaning, without any executor or stratum order.

Bindings(rule) == [1 .. rule.query.nvars -> Keys]

Instance(terms, b, dict) ==
    [c \in DOMAIN terms |-> IF IsVar(terms[c]) THEN b[terms[c].var]
                            ELSE KeyIfKnown(terms[c].lit, dict)]

NetOf(cat, n, key) == Net(cat.rels[n].rows, key)

\* The weight of a rule's body under a binding: the product over its atoms.
BodyWeight(rule, b, cat) ==
    FoldLeft(LAMBDA w, a : IF w = 0 THEN 0 ELSE w * NetOf(cat, a.rel, Instance(a.terms, b, cat.dict)),
             1, rule.query.atoms)

\* What the rules add up to for one row of a relation.
DerivedWeight(n, key, cat) ==
    SumSeq([i \in DOMAIN compiled.rules |->
        LET r == compiled.rules[i] IN
        IF r.head.rel # n THEN 0
        ELSE r.weight * MapThenSumSet(LAMBDA b : BodyWeight(r, b, cat),
                 {b \in Bindings(r) : Instance(r.head.terms, b, cat.dict) = key})])

\* The ground instances of a recursive stratum: those whose outside atoms hold.
Grounding(stratum) ==
    LET inside(a) == a.rel \in ToSet(stratum.relations)
        fact(a, b) == <<a.rel, Instance(a.terms, b, work.dict)>>
        holds(r, b) == \A p \in DOMAIN r.query.atoms :
                          LET a == r.query.atoms[p] IN
                          inside(a) \/ NetOf(work, a.rel, Instance(a.terms, b, work.dict)) > 0
        ground(r, b) ==
            [head |-> fact(r.head, b),
             body |-> {fact(r.query.atoms[p], b) :
                          p \in {j \in DOMAIN r.query.atoms : inside(r.query.atoms[j])}}]
    IN UNION {{ground(r, b) : b \in {c \in Bindings(r) : holds(r, c)}} : r \in ToSet(RulesOf(stratum))}

FactsOf(byName) == UNION {{<<n, r.key>> : r \in ToSet(byName[n])} : n \in DOMAIN byName}

----------------------------------------------------------------------------
\* Properties.

TypeOK ==
    /\ exec \in Executors
    /\ semi \in BOOLEAN
    /\ pc \in {"compile", "stratum", "round", "done", "error", "panic"}
    /\ k \in Nat \ {0}
    /\ \A n \in DOMAIN work.rels : \A i \in DOMAIN work.rels[n].rows :
          /\ work.rels[n].rows[i].key \in [DOMAIN work.rels[n].types -> Keys]
          /\ work.rels[n].rows[i].w \in Int

\* Whether a program is accepted, and the types its relations get, do not
\* depend on the order of its rules (type inference in Program::compile).
RuleOrderIrrelevant ==
    pc = "compile" =>
        LET groups(c) == {ToSet(c.strata[i].relations) : i \in DOMAIN c.strata}
            same(one, other) ==
                /\ one.ok = other.ok
                /\ one.ok => one.types = other.types /\ groups(one) = groups(other)
        IN same(Compile(program, edb), Compile([program EXCEPT !.rules = Reverse(@)], edb))

\* The strata are the classes of mutual dependence, each after what it reads,
\* and exactly those that depend on themselves are recursive (stratify, Tarjan).
StrataSound ==
    compiled.ok =>
        LET above(reads, n) == {S \in SUBSET DOMAIN reads :
                                   reads[n] \subseteq S /\ \A m \in S : reads[m] \subseteq S}
            at(n) == {i \in DOMAIN compiled.strata :
                         Contains(compiled.strata[i].relations, n)}
            ordered(reaches) ==
                \A n, m \in DOMAIN reaches :
                   \E i, j \in DOMAIN compiled.strata :
                      /\ at(n) = {i} /\ at(m) = {j}
                      /\ m \in reaches[n] => j <= i
                      /\ n # m => ((i = j) <=> (m \in reaches[n] /\ n \in reaches[m]))
                      /\ compiled.strata[i].recursive <=> n \in reaches[n]
            closed(reads) == ordered([n \in DOMAIN reads |-> {m \in DOMAIN reads :
                                         \A S \in above(reads, n) : m \in S}])
        IN closed(Reads(compiled.rules))

\* The next step runs the stratum's queries.
Running ==
    \/ pc = "round"
    \/ pc = "stratum" /\ k <= Len(compiled.strata) /\ ~Stratum.recursive

\* Every index the generic join searches keeps the contract of SortedTable:
\* the binary searches find exactly the rows of a key on every prefix range
\* (AtomExec over ArrowSortedTable::from_relation).
TablesKeepContract ==
    Running =>
        \A cat \in {IF pc = "round" THEN Published ELSE work} :
            \A r \in ToSet(RulesOf(Stratum)) : \A a \in ToSet(Prepare(r.query, cat).atoms) :
                Contract(AtomExec(a, RowsOf(cat, a), r.query.nvars).table)

\* The three executors give the same Z-set for every query a stratum runs, on
\* the very catalog it runs on: cyclic bodies, repeated variables, repeated and
\* cancelling rows, literals, and the largest key included; and the indexes of
\* the generic join are what its searches take them for.
ExecutorsAgree ==
    /\ TablesKeepContract
    /\ Running =>
        LET queries(r) == Queries(r, Stratum, FALSE)
                          \o (IF pc = "round" /\ semi /\ deltas # <<>>
                              THEN Queries(r, Stratum, TRUE) ELSE <<>>)
        IN \A cat \in {IF pc = "round" THEN Published ELSE work} :
              \A r \in ToSet(RulesOf(Stratum)) : \A q \in ToSet(queries(r)) :
                 \A meaning \in {ReferenceJoin(q, cat)} :
                    /\ meaning.ok
                    /\ BinaryJoin(q, cat) = meaning
                    /\ GenericJoin(q, cat) = meaning

\* Every derived relation outside a recursion is the Z-set the rules declare:
\* initial weight plus the weighted number of ways to derive each row, and a
\* set where it was declared one (StratumEval::once over the executors).
DerivedAsDeclared ==
    pc = "done" =>
        \A i \in DOMAIN compiled.strata : ~compiled.strata[i].recursive =>
            LET n == compiled.strata[i].relations[1]
                meant(key) == Net(InitialFacts(n), key) + DerivedWeight(n, key, work)
                rows == work.rels[n].rows
            IN /\ IsConsolidated(rows)
               /\ \A key \in [DOMAIN compiled.types[n] -> Keys] :
                     Net(rows, key) = IF n \in compiled.distinct
                                      THEN IF meant(key) > 0 THEN 1 ELSE 0
                                      ELSE meant(key)

\* Every relation of the answer can be exported and read back with a
\* dictionary of its own, value for value and weight for weight: the inferred
\* types fit the rows, and every string key has an entry.
ExportsReadBack ==
    pc = "done" =>
        LET same(back, rel) ==
                /\ back.ok
                /\ back.rel.types = rel.types /\ Len(back.rel.rows) = Len(rel.rows)
                /\ \A i \in DOMAIN rel.rows :
                      /\ back.rel.rows[i].w = rel.rows[i].w
                      /\ \A c \in DOMAIN rel.types :
                            FromKey(rel.types[c], back.rel.rows[i].key[c], back.dict)
                              = FromKey(rel.types[c], rel.rows[i].key[c], work.dict)
            readsBack(batch, rel) == batch.ok /\ same(FromRecordBatch(batch, <<"c">>), rel)
        IN \A n \in DOMAIN work.rels :
              readsBack(ToRecordBatch(work.rels[n], work.dict), work.rels[n])

\* Once a program is compiled, evaluation stops early only to refuse a row of
\* negative net weight that would feed a recursion; no query fails, and no
\* round trips the assertion of merge_round.
StopsOnlyOnNegative ==
    /\ pc # "panic"
    /\ pc = "error" /\ compiled.ok =>
          /\ Stratum.recursive
          /\ \/ \E n \in Outside : \E r \in ToSet(work.rels[n].rows) :
                   NetOf(work, n, r.key) < 0
             \/ \E n \in ToSet(Stratum.relations) : HasNegative(InitialFacts(n))

\* The statistics count every derived row once, initial facts of a recursion
\* apart, whichever strategy ran (FixpointStats).
StatsAddUp ==
    pc = "done" =>
        LET counted(n) ==
                Len(work.rels[n].rows)
                - (IF \E i \in DOMAIN compiled.strata :
                        /\ compiled.strata[i].recursive
                        /\ Contains(compiled.strata[i].relations, n)
                   THEN Len(Distinct(InitialFacts(n))) ELSE 0)
        IN SumSeq(rounds) = MapThenSumSet(counted, DOMAIN compiled.types)

\* An accepted program ends in the Z-sets its rules declare, which are counted
\* right and can be taken out and read back, or in the refusal of a negative row
\* below a recursion.
ResultIsMeaning ==
    TypeOK /\ DerivedAsDeclared /\ ExportsReadBack /\ StatsAddUp /\ StopsOnlyOnNegative

\* The rounds of a recursive stratum are those of SemiNaive over the ground
\* instances of its rules; the last stratum iterated is kept until the next.
Active ==
    IF pc = "round" THEN k
    ELSE LET past == {i \in 1 .. k - 1 : compiled.strata[i].recursive} IN
         IF ~compiled.ok \/ past = {} THEN 0 ELSE Max(past)

ActiveFacts(byName) == IF Active = 0 THEN {} ELSE FactsOf(byName)

AllFacts == ToSet(NameOrder) \X UNION {[1 .. n -> Keys] : n \in 1 .. 3}

Ground == INSTANCE SemiNaive WITH
    Fact    <- AllFacts,
    rules   <- IF Active = 0 THEN {} ELSE Grounding(compiled.strata[Active]),
    initial <- IF Active = 0 THEN {}
               ELSE FactsOf([n \in ToSet(compiled.strata[Active].relations) |->
                               Distinct(InitialFacts(n))]),
    total   <- ActiveFacts(totals),
    delta   <- ActiveFacts(deltas),
    phase   <- CASE Active = 0      -> "idle"
                 [] pc # "round"    -> "closed"
                 [] deltas = <<>>   -> "first"
                 [] OTHER           -> "round"

\* Joins, Z-set arithmetic and delta relations together do one semi-naive step
\* per round, under either strategy and with every executor.
ImplementsSemiNaive == Ground!Spec
=============================================================================
