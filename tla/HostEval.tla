------------------------------ MODULE HostEval ------------------------------
(***************************************************************************)
(* The evaluator of the host language (coln-query/src/host/interpreter.rs):*)
(* scalars, tuples, variables, assignments, closures, blocks, and the      *)
(* conditions of selections, which run later, once per row.                *)
(*                                                                         *)
(* How variables are kept is a parameter: an environment, a memory, and    *)
(* the operators Find, Put, Bind and Open on them.  HostProgram gives them *)
(* as the code has them, scopes of slots, and once more by name.           *)
(*                                                                         *)
(* The evaluator takes a machine and leaves the value of an expression on  *)
(* its stack: `memory' holds the variables, `env' says which are in scope, *)
(* `fns' are the functions made so far (Rc<RefCell<Function>>: `active'    *)
(* while it is borrowed), `filters' the conditions of the selections built,*)
(* `row' the columns of the row at hand.  Anything but "ok" ends the run:  *)
(* "error" is an Err, "busy" a second borrow of a function (a panic),      *)
(* "unbound" a variable that is not there (a panic), "overflow" one too.   *)
(***************************************************************************)
EXTENDS Integers, Sequences, FiniteSets, SequencesExt

CONSTANTS Find(_, _),      \* Find(m, e): where the variable e is, or NoPlace
          Get(_, _),       \* Get(m, place)
          Put(_, _, _),    \* Put(m, place, value)
          Bind(_, _, _),   \* Bind(m, name, value)
          Open(_, _),      \* Open(m, env): m in a new scope inside env
          NoPlace,
          Width,           \* of an integer, in bits
          Checked          \* whether the build checks for overflow

Uint(n) == [type |-> "uint", n |-> n]
Iint(n) == [type |-> "iint", n |-> n]
Bool(b) == [type |-> "bool", b |-> b]
Null    == [type |-> "null"]
Relation == [type |-> "relation"]

IsTruthy(v) == CASE v.type = "null" -> FALSE
                 [] v.type = "bool" -> v.b
                 [] OTHER -> TRUE

-----------------------------------------------------------------------------
(* The machine.                                                            *)

Ok(m) == m.status = "ok"
Stop(m, status) == [m EXCEPT !.status = status]
Give(m, v) == [m EXCEPT !.stack = Append(@, v)]
Top(m) == Last(m.stack)
TopN(m, n) == SubSeq(m.stack, Len(m.stack) - n + 1, Len(m.stack))
Drop(m, n) == [m EXCEPT !.stack = SubSeq(@, 1, Len(@) - n)]
Replace(m, n, v) == Give(Drop(m, n), v)

-----------------------------------------------------------------------------
(* Operators.                                                              *)

InRange(type, n) == n \in IF type = "uint" THEN 0 .. 2 ^ Width - 1
                          ELSE -(2 ^ (Width - 1)) .. 2 ^ (Width - 1) - 1
Wrapped(type, n) == IF type = "uint" THEN n % 2 ^ Width
                    ELSE ((n + 2 ^ (Width - 1)) % 2 ^ Width) - 2 ^ (Width - 1)

(* n operands replaced by a result that may not fit.                       *)
Integer(m, n, type, result) ==
    IF InRange(type, result) \/ ~ Checked
    THEN Replace(m, n, [type |-> type, n |-> Wrapped(type, result)])
    ELSE Stop(m, "overflow")

Compared(op, a, b) ==
    CASE op = "=="  -> a = b
      [] op = "!="  -> a # b
      [] op = "<" /\ a.type = "bool" -> ~ a.b /\ b.b
      [] op = "<" /\ a.type # "bool" -> a.n < b.n

Strict(m, op) ==
    LET a == TopN(m, 2)[1]
        b == TopN(m, 2)[2]
        comparable == {"uint", "iint", "bool"} \cup (IF op = "<" THEN {} ELSE {"null"})
    IN  CASE op \in {"==", "!=", "<"} ->
               IF a.type = b.type /\ a.type \in comparable
               THEN Replace(m, 2, Bool(Compared(op, a, b))) ELSE Stop(m, "error")
          [] op \in {"+", "-"} ->
               IF a.type = b.type /\ a.type \in {"uint", "iint"}
               THEN Integer(m, 2, a.type, IF op = "+" THEN a.n + b.n ELSE a.n - b.n)
               ELSE Stop(m, "error")

Prefix(m, op) ==
    LET a == Top(m)
    IN  CASE op = "!" -> Replace(m, 1, Bool(~ IsTruthy(a)))
          [] op = "-" -> IF a.type = "iint" THEN Integer(m, 1, "iint", -a.n) ELSE Stop(m, "error")

-----------------------------------------------------------------------------
(* Expressions and statements.                                             *)

NoRow == [x \in {} |-> Null]

RECURSIVE Eval(_, _), EvalAll(_, _), Exec(_, _)

EvalAll(m, es) == FoldLeft(LAMBDA n, e : Eval(n, e), m, es)

Lazy(m, e) ==
    LET left == Eval(m, e.parts[1])
        decided == IsTruthy(Top(left)) # (e.name = "&&")
        right == Eval(left, e.parts[2])
    IN  CASE ~ Ok(left) -> left
          [] Ok(left) /\ decided -> Replace(left, 1, Bool(IsTruthy(Top(left))))
          [] OTHER -> IF Ok(right) THEN Replace(right, 2, Bool(IsTruthy(Top(right)))) ELSE right

Variable(m, e) ==
    CASE e.name \in DOMAIN m.row -> Give(m, m.row[e.name])
      [] OTHER -> IF Find(m, e) = NoPlace THEN Stop(m, "unbound")
                  ELSE Give(m, Get(m, Find(m, e)))

Assign(m, e) ==
    LET n == Eval(m, e.parts[1])
    IN  CASE ~ Ok(n) -> n
          [] Ok(n) /\ Find(n, e) = NoPlace -> Stop(n, "unbound")
          [] OTHER -> Put(n, Find(n, e), Top(n))

GetIndex(m) ==
    LET target == TopN(m, 2)[1]
        index == TopN(m, 2)[2]
    IN  IF index.type = "uint" /\ target.type = "tuple" /\ index.n < Len(target.items)
        THEN Replace(m, 2, target.items[index.n + 1])
        ELSE Stop(m, "error")

MakeFunction(m, e) ==
    Give([m EXCEPT !.fns = Append(@, [declaration |-> e, env |-> m.env, active |-> FALSE])],
         [type |-> "fn", id |-> Len(m.fns) + 1])

(* The function stays borrowed from before its arguments are evaluated to  *)
(* the end of its body, which runs in the environment it was made in and   *)
(* does not see the row of its caller.                                     *)
Enter(m, f, args) ==
    LET opened == [Open(m, m.fns[f].env) EXCEPT !.row = NoRow]
        params == m.fns[f].declaration.params
    IN  FoldLeft(LAMBDA n, i : Bind(n, params[i], args[i]), opened, [i \in DOMAIN params |-> i])

Call(m, e) ==
    LET callee == Eval(m, e.parts[1])
        f == Top(callee).id
        args == EvalAll([callee EXCEPT !.fns[f].active = TRUE], Tail(e.parts))
        n == Len(e.parts) - 1
        done == Exec(Enter(Drop(args, n + 1), f, TopN(args, n)), args.fns[f].declaration.body)
    IN  CASE ~ Ok(callee) -> callee
          [] Ok(callee) /\ Top(callee).type # "fn" -> Stop(callee, "error")
          [] Ok(callee) /\ Top(callee).type = "fn" ->
               IF callee.fns[f].active THEN Stop(callee, "busy")
               ELSE IF Len(callee.fns[f].declaration.params) # n THEN Stop(callee, "error")
               ELSE IF ~ Ok(args) THEN args
               ELSE IF ~ Ok(done) THEN done
               ELSE [done EXCEPT !.env = m.env, !.row = m.row, !.fns[f].active = FALSE]

(* A selection: its condition is kept, with the environment of now.        *)
Select(m, e) ==
    Give([m EXCEPT !.filters = Append(@, [condition |-> e.parts[1], env |-> m.env])], Relation)

Eval(m, e) ==
    LET n == EvalAll(m, e.parts)
    IN  CASE ~ Ok(m) -> m
          [] Ok(m) /\ e.op = "literal"  -> Give(m, e.value)
          [] Ok(m) /\ e.op = "var"      -> Variable(m, e)
          [] Ok(m) /\ e.op = "assign"   -> Assign(m, e)
          [] Ok(m) /\ e.op = "lazy"     -> Lazy(m, e)
          [] Ok(m) /\ e.op = "function" -> MakeFunction(m, e)
          [] Ok(m) /\ e.op = "call"     -> Call(m, e)
          [] Ok(m) /\ e.op = "select"   -> Select(m, e)
          [] Ok(m) /\ e.op \in {"strict", "prefix", "index", "tuple"} ->
               IF ~ Ok(n) THEN n
               ELSE CASE e.op = "strict" -> Strict(n, e.name)
                      [] e.op = "prefix" -> Prefix(n, e.name)
                      [] e.op = "index"  -> GetIndex(n)
                      [] e.op = "tuple"  -> Replace(n, Len(e.parts),
                                                    [type |-> "tuple", items |-> TopN(n, Len(e.parts))])

(* A declaration names the function it is given, for which it borrows it.  *)
VarStmt(m, s) ==
    LET n == IF s.init = <<>> THEN Give(m, Null) ELSE Eval(m, s.init[1])
    IN  CASE ~ Ok(n) -> n
          [] Ok(n) /\ s.init # <<>> /\ Top(n).type = "fn" /\ n.fns[Top(n).id].active ->
               Stop(n, "busy")
          [] OTHER -> Bind(n, s.name, Top(n))

BlockStmt(m, s) == [Exec(Open(m, m.env), s.stmts) EXCEPT !.env = m.env]

(* The statements of a block one by one; the value is the last one's.      *)
Exec(m, stmts) ==
    LET one(n, s) == CASE ~ Ok(n) -> n
                       [] Ok(n) /\ s.op = "var"   -> VarStmt(Drop(n, 1), s)
                       [] Ok(n) /\ s.op = "expr"  -> Eval(Drop(n, 1), s.init[1])
                       [] Ok(n) /\ s.op = "block" -> BlockStmt(Drop(n, 1), s)
    IN  IF Ok(m) THEN FoldLeft(one, Give(m, Null), stmts) ELSE m

(* One row for the k-th selection: its condition, in the environment that  *)
(* was cloned for it, whose scopes are shared.                             *)
RunFilter(m, k, row) ==
    LET f == m.filters[k]
        n == Eval([m EXCEPT !.env = f.env, !.row = row], f.condition)
    IN  [n EXCEPT !.env = m.env, !.row = NoRow]

=============================================================================
