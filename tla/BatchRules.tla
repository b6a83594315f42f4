----------------------------- MODULE BatchRules -----------------------------
(* Datalog programs of coln-batch and their compilation: the types of the    *)
(* derived relations are inferred, every rule is lowered to a query, and the  *)
(* derived relations are grouped into strata.                                 *)
(* A rule is [nvars, head, body, weight]; a program is its rules and the      *)
(* relations it declares distinct.                                            *)
EXTENDS BatchQuery

CONSTANT NameOrder   \* every relation name, in the byte order of a BTreeMap

DeltaPrefix == "__delta_"
DeltaName(name) == DeltaPrefix \o name
IsReserved(name) == Len(name) >= Len(DeltaPrefix) /\ SubSeq(name, 1, Len(DeltaPrefix)) = DeltaPrefix

Sorted(names) == SelectSeq(NameOrder, LAMBDA n : n \in names)

Derived(program) == {program.rules[i].head.rel : i \in DOMAIN program.rules}

\* The first pass over the rules: the derived relations with the types their
\* initial facts give them, Unknown without any.
Collect(program, edb) ==
    LET collect(st, rule) ==
            LET name == rule.head.rel
                arity == Len(rule.head.terms) IN
            IF ~st.ok \/ IsReserved(name) \/ rule.weight = 0 THEN [st EXCEPT !.ok = FALSE]
            ELSE IF name \in DOMAIN st.types
            THEN [st EXCEPT !.ok = Len(st.types[name]) = arity]
            ELSE IF name \in DOMAIN edb.rels
            THEN [ok |-> Len(edb.rels[name].types) = arity,
                  types |-> name :> edb.rels[name].types @@ st.types]
            ELSE [st EXCEPT !.types = name :> [c \in 1 .. arity |-> Unknown] @@ @]
        declared(last) == [last EXCEPT !.ok = @ /\ program.distinct \subseteq DOMAIN last.types]
    IN declared(FoldLeft(collect, [ok |-> TRUE, types |-> <<>>], program.rules))

TypesFor(types, edb, name) ==
    IF name \in DOMAIN types THEN types[name] ELSE StoredTypes(edb, name)
TypesOver(atoms, types, edb) == [n \in Relations(atoms) |-> TypesFor(types, edb, n)]

\* Push the types of a rule's head into its relation.
InferRule(st, rule, edb) ==
    LET name == rule.head.rel
        headType(body, c) == LET t == rule.head.terms[c] IN
                             IF IsVar(t) THEN body.types[t.var] ELSE TypeOf(t.lit)
        push(s, c, type) ==
            IF ~s.ok \/ type = Unknown THEN s
            ELSE IF s.types[name][c] = Unknown THEN [s EXCEPT !.types[name][c] = type]
            ELSE [s EXCEPT !.ok = s.types[name][c] = type]
        pushAll(body) ==
            IF ~st.ok \/ ~body.ok THEN [st EXCEPT !.ok = FALSE]
            ELSE FoldLeftDomain(LAMBDA s, c : push(s, c, headType(body, c)), st, rule.head.terms)
    IN pushAll(InferVarTypes(rule.nvars, rule.body, TypesOver(rule.body, st.types, edb)))

\* Mutant: one pass over the rules.
InferTypesOnce(st, program, edb) ==
    FoldLeft(LAMBDA s, r : InferRule(s, r, edb), st, program.rules)

\* Passes over all rules until one changes nothing.
RECURSIVE InferTypes(_, _, _)
InferTypes(st, program, edb) ==
    LET continue(next) == IF ~next.ok \/ next.types = st.types THEN next
                          ELSE InferTypes(next, program, edb)
    IN continue(FoldLeft(LAMBDA s, r : InferRule(s, r, edb), st, program.rules))

HeadVars(rule) ==
    LET numbers(vars) == [i \in DOMAIN vars |-> vars[i].var] IN
    numbers(SelectSeq(rule.head.terms, IsVar))

\* A rule as a query over its head variables in order of occurrence.
Lowered(rule) ==
    [query |-> [nvars |-> rule.nvars, atoms |-> rule.body, head |-> HeadVars(rule)],
     head |-> rule.head, weight |-> rule.weight]

LiteralsOf(rule) ==
    LET lits(a) == LET ts == SelectSeq(a.terms, LAMBDA t : ~IsVar(t)) IN
                   [i \in DOMAIN ts |-> ts[i].lit]
    IN lits(rule.head) \o FlattenSeq([i \in DOMAIN rule.body |-> lits(rule.body[i])])

LowerRule(rule, types, edb) ==
    /\ HeadVars(rule) # <<>>
    /\ Validate(Lowered(rule).query)
    /\ InferVarTypes(rule.nvars, rule.body, TypesOver(rule.body, types, edb)).ok
    /\ \A i \in DOMAIN rule.body : ~IsReserved(rule.body[i].rel)

----------------------------------------------------------------------------
\* Strata: strongly connected components of the reads among the derived
\* relations, by Tarjan's algorithm.

Reads(rules) ==
    [n \in {rules[i].head.rel : i \in DOMAIN rules} |->
        {m \in {rules[i].head.rel : i \in DOMAIN rules} :
            \E i \in DOMAIN rules : /\ rules[i].head.rel = n
                                    /\ \E p \in DOMAIN rules[i].query.atoms :
                                           rules[i].query.atoms[p].rel = m}]

RECURSIVE Visit(_, _, _)

\* Mutant: a relation already visited never lowers its reader, so a cycle
\* falls apart.
VisitIgnoresStack(st0, v, reads) ==
    LET index == Cardinality(DOMAIN st0.index)
        entered == [st0 EXCEPT !.index = v :> index @@ @, !.low = v :> index @@ @,
                               !.stack = Append(@, v)]
        follow(st, w) == IF w \in DOMAIN st.index THEN st ELSE Visit(st, w, reads)
        pop(done, root) ==
            [done EXCEPT
               !.stack = SubSeq(@, 1, root - 1),
               !.components = Append(@, ToSet(SubSeq(done.stack, root, Len(done.stack))))]
        finish(done) == pop(done, CHOOSE i \in DOMAIN done.stack : done.stack[i] = v)
    IN finish(FoldLeft(follow, entered, Sorted(reads[v])))

\* st: visiting order, smallest reachable index on the stack, the stack, and
\* the finished components.
Visit(st0, v, reads) ==
    LET index == Cardinality(DOMAIN st0.index)
        entered == [st0 EXCEPT !.index = v :> index @@ @, !.low = v :> index @@ @,
                               !.stack = Append(@, v)]
        lower(st, reached) == IF reached < st.low[v] THEN [st EXCEPT !.low[v] = reached] ELSE st
        below(after, w) == lower(after, after.low[w])
        follow(st, w) ==
            IF w \notin DOMAIN st.index
            THEN below(Visit(st, w, reads), w)
            ELSE IF Contains(st.stack, w) THEN lower(st, st.index[w]) ELSE st
        pop(done, root) ==
            [done EXCEPT
               !.stack = SubSeq(@, 1, root - 1),
               !.components = Append(@, ToSet(SubSeq(done.stack, root, Len(done.stack))))]
        finish(done) ==
            IF done.low[v] # index THEN done
            ELSE pop(done, CHOOSE i \in DOMAIN done.stack : done.stack[i] = v)
    IN finish(FoldLeft(follow, entered, Sorted(reads[v])))

Stratify(rules) ==
    LET stratum(reads, rels) ==
            [relations |-> Sorted(rels),
             recursive |-> Cardinality(rels) > 1 \/ \E n \in rels : n \in reads[n],
             rules |-> SelectSeq([i \in DOMAIN rules |-> i],
                                 LAMBDA i : rules[i].head.rel \in rels)]
        strata(reads, last) ==
            [k \in DOMAIN last.components |-> stratum(reads, last.components[k])]
        visited(reads) ==
            FoldLeft(LAMBDA st, n : IF n \in DOMAIN st.index THEN st ELSE Visit(st, n, reads),
                     [index |-> <<>>, low |-> <<>>, stack |-> <<>>, components |-> <<>>],
                     Sorted(DOMAIN reads))
        run(reads) == strata(reads, visited(reads))
    IN run(Reads(rules))

RecursivePositions(rule, stratum) ==
    SelectSeq(Columns(rule.query.atoms),
              LAMBDA p : Contains(stratum.relations, rule.query.atoms[p].rel))

\* Validate a program against the stored catalog, infer, lower and stratify.
Compile(program, edb) ==
    LET rules == [i \in DOMAIN program.rules |-> Lowered(program.rules[i])]
        subtracts(s) == s.recursive /\ \E i \in DOMAIN s.rules : rules[s.rules[i]].weight < 0
        dict == FoldLeft(LAMBDA d, r : FoldLeft(Interned, d, LiteralsOf(r)),
                         edb.dict, program.rules)
        stratified(types, strata) ==
            IF \E k \in DOMAIN strata : subtracts(strata[k]) THEN Failed
            ELSE [ok |-> TRUE, rules |-> rules, types |-> types, strata |-> strata,
                  distinct |-> program.distinct, dict |-> dict]
        lowered(inferred) ==
            IF \/ ~inferred.ok
               \/ \E n \in DOMAIN inferred.types : Contains(inferred.types[n], Unknown)
               \/ \E i \in DOMAIN rules : ~LowerRule(program.rules[i], inferred.types, edb)
            THEN Failed ELSE stratified(inferred.types, Stratify(rules))
        typed(collected) == IF ~collected.ok THEN Failed
                            ELSE lowered(InferTypes(collected, program, edb))
    IN IF program.rules = <<>> THEN Failed ELSE typed(Collect(program, edb))

\* Mutant: the rule's weight is forgotten.
MaterializeHeadUnweighted(rule, rows, dict) ==
    LET position(c) == Cardinality({d \in 1 .. c : IsVar(rule.head.terms[d])})
        cell(r, c) == IF IsVar(rule.head.terms[c]) THEN r.key[position(c)]
                      ELSE KeyIfKnown(rule.head.terms[c].lit, dict)
    IN Consolidate([i \in DOMAIN rows |->
           Row([c \in DOMAIN rule.head.terms |-> cell(rows[i], c)], rows[i].w)])

\* Head rows of a body result, weighted by the rule, in normal form.
MaterializeHead(rule, rows, dict) ==
    LET position(c) == Cardinality({d \in 1 .. c : IsVar(rule.head.terms[d])})
        cell(r, c) == IF IsVar(rule.head.terms[c]) THEN r.key[position(c)]
                      ELSE KeyIfKnown(rule.head.terms[c].lit, dict)
    IN Consolidate([i \in DOMAIN rows |->
           Row([c \in DOMAIN rule.head.terms |-> cell(rows[i], c)], rows[i].w * rule.weight)])

QueryWithDelta(rule, p) ==
    [rule.query EXCEPT !.atoms[p].rel = DeltaName(@)]
============================================================================
