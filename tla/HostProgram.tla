---------------------------- MODULE HostProgram ----------------------------
(***************************************************************************)
(* A program of the host language from its text to the rows that its       *)
(* selections keep (coln-query/src/pipeline.rs, host/resolver.rs,          *)
(* host/variable.rs): the resolver gives every variable the place it will  *)
(* have at run time, the number of its scope and its slot there, and the   *)
(* interpreter finds it at that place and never looks at the name.         *)
(***************************************************************************)
EXTENDS Integers, Sequences, FiniteSets, SequencesExt

CONSTANTS Statements,   \* the statements a program may have
          MaxLength,    \* bound: statements of a program
          Rows,         \* rows that may arrive, as functions from columns
          MaxRows,      \* bound: how many of them do
          Width,        \* of an integer, in bits
          Checked       \* whether the build checks for overflow

ASSUME BuildAssumption == Width \in Nat \ {0} /\ Checked \in BOOLEAN

VARIABLES program,      \* the statements
          phase,        \* "writing", "refused", "built"
          code,         \* the resolved program
          machine,      \* the interpreter's
          events        \* the rows that came: <<selection, row>>

vars == <<program, phase, code, machine, events>>

-----------------------------------------------------------------------------
(* Scopes of slots: host/variable.rs.                                      *)

NoPlace == <<>>

Slot(m, e) == IF e.at # NoPlace /\ e.at[1] <= Len(m.env)
                 /\ e.at[2] <= Len(m.memory[m.env[e.at[1]]]) THEN e.at ELSE NoPlace
LookupVar(m, at) == m.memory[m.env[at[1]]][at[2]]
AssignVar(m, at, v) == [m EXCEPT !.memory[m.env[at[1]]][at[2]] = v]
DefineVar(m, name, v) == [m EXCEPT !.memory[Last(m.env)] = Append(@, v)]
BeginScope(m, env) == [m EXCEPT !.memory = Append(@, <<>>),
                                !.env = Append(env, Len(m.memory) + 1)]

Host == INSTANCE HostEval WITH
    Find <- Slot, Get <- LookupVar, Put <- AssignVar, Bind <- DefineVar, Open <- BeginScope

Fresh(memory, env) ==
    [memory |-> memory, env |-> env, fns |-> <<>>, filters |-> <<>>, row |-> Host!NoRow,
     stack |-> <<>>, status |-> "ok"]

-----------------------------------------------------------------------------
(* The resolver.                                                           *)

NewScope == [vars |-> [x \in {} |-> 0], declared |-> 0]

(* A slot for every name, not for every declaration.                       *)
DeclareName(scopes, name) ==
    LET k == Len(scopes)
        vars_ == scopes[k].vars
        slot == IF name \in DOMAIN vars_ THEN vars_[name] ELSE Cardinality(DOMAIN vars_) + 1
    IN  [scopes EXCEPT ![k] = [vars |-> [x \in DOMAIN vars_ \cup {name} |->
                                            IF x = name THEN slot ELSE vars_[x]],
                               declared |-> scopes[k].declared + 1]]

Declare(scopes, name) ==
    LET scope == Last(scopes)
    IN  [scopes EXCEPT ![Len(scopes)] =
            [vars |-> [x \in DOMAIN scope.vars \cup {name} |->
                          IF x = name THEN scope.declared + 1 ELSE scope.vars[x]],
             declared |-> scope.declared + 1]]

(* The innermost scope only.                                               *)
SlotInnermost(scopes, name) ==
    IF name \in DOMAIN Last(scopes).vars THEN <<Len(scopes), Last(scopes).vars[name]>> ELSE NoPlace

SlotOf(scopes, name) ==
    LET holding == {k \in DOMAIN scopes : name \in DOMAIN scopes[k].vars}
        k == CHOOSE k \in holding : \A j \in holding : j <= k
    IN  IF holding = {} THEN NoPlace ELSE <<k, scopes[k].vars[name]>>

RECURSIVE ResolveExpr(_, _, _), ResolveStmts(_, _, _)

(* In a tuple context, the condition of a selection, a name that is not    *)
(* declared is left for a column; elsewhere it is an error.                *)
ResolveExpr(e, scopes, inTuple) ==
    [e EXCEPT !.at = IF e.op \in {"var", "assign"} THEN SlotOf(scopes, e.name) ELSE NoPlace,
              !.column = inTuple,
              !.parts = [i \in DOMAIN e.parts |->
                            ResolveExpr(e.parts[i], scopes, inTuple \/ e.op = "select")],
              !.body = ResolveStmts(e.body, FoldLeft(Declare, Append(scopes, NewScope), e.params),
                                    inTuple)]

(* An initializer is resolved before the name that it is for is declared.  *)
ResolveStmts(stmts, scopes, inTuple) ==
    LET before[i \in 1 .. Len(stmts)] ==
            IF i = 1 THEN scopes
            ELSE IF stmts[i - 1].op = "var" THEN Declare(before[i - 1], stmts[i - 1].name)
            ELSE before[i - 1]
    IN  [i \in DOMAIN stmts |->
            [stmts[i] EXCEPT
                !.init = [j \in DOMAIN @ |-> ResolveExpr(stmts[i].init[j], before[i], inTuple)],
                !.stmts = ResolveStmts(@, Append(before[i], NewScope), inTuple)]]

RECURSIVE Undeclared(_), UndeclaredIn(_)
Undeclared(e) ==
    \/ e.op \in {"var", "assign"} /\ e.at = NoPlace /\ ~ e.column
    \/ \E i \in DOMAIN e.parts : Undeclared(e.parts[i])
    \/ UndeclaredIn(e.body)
UndeclaredIn(stmts) ==
    \E i \in DOMAIN stmts : \/ \E j \in DOMAIN stmts[i].init : Undeclared(stmts[i].init[j])
                            \/ UndeclaredIn(stmts[i].stmts)

-----------------------------------------------------------------------------
(* The pipeline.                                                           *)

Init == /\ program = <<>> /\ phase = "writing" /\ code = <<>>
        /\ machine = Fresh(<<<<>>>>, <<1>>) /\ events = <<>>

Write(s) ==
    /\ phase = "writing" /\ Len(program) < MaxLength
    /\ program' = Append(program, s)
    /\ UNCHANGED <<phase, code, machine, events>>

(* ResolvedCode::from, and then the backend's build, which interprets the  *)
(* program once.                                                           *)
Build ==
    LET resolved == ResolveStmts(program, <<NewScope>>, FALSE)
    IN  /\ phase = "writing" /\ program # <<>>
        /\ code' = resolved
        /\ phase' = IF UndeclaredIn(resolved) THEN "refused" ELSE "built"
        /\ machine' = IF UndeclaredIn(resolved) THEN machine ELSE Host!Exec(machine, resolved)
        /\ UNCHANGED <<program, events>>

(* A row reaches a selection.  Which one comes when is the engine's choice.*)
Feed(k, row) ==
    /\ phase = "built" /\ machine.status = "ok" /\ Len(events) < MaxRows
    /\ k \in DOMAIN machine.filters
    /\ events' = Append(events, <<k, row>>)
    /\ machine' = Host!RunFilter(machine, k, row)
    /\ UNCHANGED <<program, phase, code>>

Next == \/ \E s \in Statements : Write(s)
        \/ Build
        \/ \E k \in 1 .. MaxLength, row \in Rows : Feed(k, row)

Spec == Init /\ [][Next]_vars

-----------------------------------------------------------------------------
(* What a program means: variables by name, each declaration a new one,    *)
(* visible from after its initializer to the end of its block, a function  *)
(* sees what was visible where it was written.                             *)

Visible(m, e) ==
    LET binding == {i \in DOMAIN m.env : m.env[i][1] = e.name}
    IN  IF binding = {} THEN NoPlace
        ELSE <<m.env[CHOOSE i \in binding : \A j \in binding : j <= i][2]>>
Content(m, place) == m.memory[place[1]]
Change(m, place, v) == [m EXCEPT !.memory[place[1]] = v]
NewVariable(m, name, v) == [m EXCEPT !.memory = Append(@, v),
                                     !.env = Append(@, <<name, Len(m.memory) + 1>>)]
Inside(m, env) == [m EXCEPT !.env = env]

Meaning == INSTANCE HostEval WITH
    Find <- Visible, Get <- Content, Put <- Change, Bind <- NewVariable, Open <- Inside

Meant == FoldLeft(LAMBDA m, event : Meaning!RunFilter(m, event[1], event[2]),
                  Meaning!Exec(Fresh(<<>>, <<>>), program), events)

(* Slots and names agree: whatever is shadowed, captured, assigned after   *)
(* it was captured, or read by a condition long after its statement ran, a *)
(* program that resolves ends as its text says, with the same values, the  *)
(* same rows kept and the same failure if any.                             *)
LexicalScoping ==
    phase = "built" => /\ machine.status = Meant.status
                       /\ machine.stack = Meant.stack

RECURSIVE Free(_, _), FreeIn(_, _)
Free(e, bound) ==
    \/ e.op \in {"var", "assign"} /\ e.name \notin bound
    \/ e.op # "select" /\ \E i \in DOMAIN e.parts : Free(e.parts[i], bound)
    \/ FreeIn(e.body, bound \cup ToSet(e.params))
FreeIn(stmts, bound) ==
    \E i \in DOMAIN stmts :
        LET names == bound \cup {stmts[j].name : j \in {j \in 1 .. i - 1 : stmts[j].op = "var"}}
        IN  \/ \E j \in DOMAIN stmts[i].init : Free(stmts[i].init[j], names)
            \/ FreeIn(stmts[i].stmts, names)

(* A program is refused for a name that is not declared where it is used,  *)
(* and for nothing else; one that is not refused never misses a variable,  *)
(* except a condition whose row has no column of the name.                 *)
RefusedIfUnbound ==
    /\ phase = "refused" => FreeIn(program, {})
    /\ phase = "built" => ~ FreeIn(program, {})
    /\ machine.status = "unbound" => events # <<>>

=============================================================================
