------------------------------ MODULE Lowering ------------------------------
(* frontend/blocks.py: statements and expressions with calls inside them       *)
(* become IR, where an expression changes nothing.  Each call is hoisted into  *)
(* statements that run before the one it stood in.  A typed P4 statement is    *)
(* chosen, lowered and run; what it leaves is compared with what P4 means by   *)
(* it, operands and arguments taken left to right.  Variables are bit<1> but   *)
(* for Field, a bit<2> of which slices are read and passed.                    *)
EXTENDS Integers, Sequences, SequencesExt

CONSTANTS
  Vars,        \* the block's variables
  Field,       \* one more, of two bits
  Temps,       \* the names fresh() gives, in order
  Params,      \* Params[f]: the directions of f's parameters
  Functions,   \* the callables that are P4 functions
  Formals, Body, Result,   \* of a function: its parameters' names, statements, returned expression
  Effect(_, _, _),         \* an extern's or sub-block's (x, y): parameter i afterwards, 0 for the result
  Statements   \* the P4 statements to lower

VARIABLES
  source,   \* the P4 statement
  start,    \* the store it starts from
  todo,     \* IR statements still to run
  store,    \* the IR store
  phase

vars == <<source, start, todo, store, phase>>

Names == Vars \cup {Field} \cup Range(Temps)
Writes(d) == d \in {"out", "inout"}
Bit(v, i) == (v \div 2 ^ i) % 2
SetBit(v, i, b) == v + (b - Bit(v, i)) * 2 ^ i

-----------------------------------------------------------------------------
(* Syntax: IR expressions are the P4 ones without calls.                       *)

Lit(v) == [op |-> "lit", v |-> v]
Var(x) == [op |-> "var", x |-> x]
Slice(i) == [op |-> "slice", x |-> Field, i |-> i]
Strict(l, r) == [op |-> "xor", l |-> l, r |-> r]
Lazy(l, r) == [op |-> "and", l |-> l, r |-> r]
Mux(c, t, e) == [op |-> "mux", c |-> c, t |-> t, e |-> e]
Call(f, args) == [op |-> "call", f |-> f, args |-> args]
Unused == [op |-> "unused"]       \* the argument _

Assign(x, e) == [s |-> "assign", x |-> x, e |-> e]
Compound(x, e) == [s |-> "compound", x |-> x, e |-> e]
SetSlice(i, e) == [s |-> "rmw", i |-> i, e |-> e]
If(c, t, e) == [s |-> "if", c |-> c, t |-> t, e |-> e]
Switch(e, cases, default) == [s |-> "switch", e |-> e, cases |-> cases, default |-> default]
CallStmt(f, args) == [s |-> "call", f |-> f, args |-> args]
Invoke(f, args, result) == [s |-> "invoke", f |-> f, args |-> args, result |-> result]

-----------------------------------------------------------------------------
(* What P4 means: the store after an expression, and its value.                *)

Ret(st, v) == [st |-> st, v |-> v]

WriteTo(st, a, v) ==
  CASE a.op = "var" -> [st EXCEPT ![a.x] = v]
    [] a.op = "slice" -> [st EXCEPT ![Field] = SetBit(@, a.i, v)]
    [] OTHER -> st

RECURSIVE Eval(_, _), Evals(_, _), RunP4(_, _), Perform(_, _), CallP4(_, _, _)

(* Left to right: the store after them, and their values.                      *)
Evals(es, st) ==
  LET then(acc, r) == [st |-> r.st, vs |-> Append(acc.vs, r.v)]
  IN FoldLeft(LAMBDA acc, e : then(acc, Eval(e, acc.st)), [st |-> st, vs |-> <<>>], es)

(* An out parameter starts at its default.                                     *)
CopyIn(f, args) ==
  [i \in DOMAIN args |-> IF Params[f][i] = "out" \/ args[i] = Unused THEN Lit(0) ELSE args[i]]

Perform(f, vs) ==
  LET left(r) == [vs |-> [i \in DOMAIN vs |-> r.st[Formals[f][i]]], v |-> r.v]
      frame == [n \in Range(Formals[f]) |-> vs[CHOOSE i \in DOMAIN vs : Formals[f][i] = n]]
  IN IF f \in Functions THEN left(Eval(Result[f], RunP4(Body[f], frame)))
     ELSE [vs |-> [i \in DOMAIN vs |-> Effect(f, vs, i)], v |-> Effect(f, vs, 0)]

CopyOut(f, args, done, st) ==
  Ret(FoldLeft(LAMBDA acc, i : IF Writes(Params[f][i]) THEN WriteTo(acc, args[i], done.vs[i]) ELSE acc,
               st, [i \in DOMAIN args |-> i]),
      done.v)

CallP4(f, args, st) ==
  LET run(in) == CopyOut(f, args, Perform(f, in.vs), in.st) IN run(Evals(CopyIn(f, args), st))

Eval(e, st) ==
  LET exclusive(r) == Ret(r.st, (r.vs[1] + r.vs[2]) % 2)
      both(l) == IF l.v = 0 THEN l ELSE Eval(e.r, l.st)
      either(c) == Eval(IF c.v = 1 THEN e.t ELSE e.e, c.st)
  IN CASE e.op = "lit" -> Ret(st, e.v)
       [] e.op = "var" -> Ret(st, st[e.x])
       [] e.op = "slice" -> Ret(st, Bit(st[e.x], e.i))
       [] e.op = "xor" -> exclusive(Evals(<<e.l, e.r>>, st))
       [] e.op = "and" -> both(Eval(e.l, st))
       [] e.op = "mux" -> either(Eval(e.c, st))
       [] e.op = "call" -> CallP4(e.f, e.args, st)

(* A switch takes the first case whose labels hold the value.                  *)
Chosen(s, v) ==
  LET hits == {i \in DOMAIN s.cases : v \in s.cases[i].labels}
  IN IF hits = {} THEN s.default ELSE s.cases[CHOOSE i \in hits : \A j \in hits : i <= j].body

RunP4(stmts, st) ==
  LET written(x, r) == [r.st EXCEPT ![x] = r.v]
      one(s, now) ==
        CASE s.s = "assign" -> written(s.x, Eval(s.e, now))
          [] s.s = "compound" -> written(s.x, Eval(Strict(Var(s.x), s.e), now))
          [] s.s = "rmw" -> LET r == Eval(s.e, now) IN WriteTo(r.st, Slice(s.i), r.v)
          [] s.s = "if" -> LET r == Eval(s.c, now) IN RunP4(IF r.v = 1 THEN s.t ELSE s.e, r.st)
          [] s.s = "switch" -> LET r == Eval(s.e, now) IN RunP4(Chosen(s, r.v), r.st)
          [] s.s = "call" -> CallP4(s.f, s.args, now).st
  IN FoldLeft(LAMBDA now, s : one(s, now), st, stmts)

-----------------------------------------------------------------------------
(* The translation.  An expression gives the statements hoisted out of it, the *)
(* IR expression left, and how many fresh names are taken.                     *)

Piece(pre, e, k) == [pre |-> pre, e |-> e, k |-> k]
Lowered(code, k) == [code |-> code, k |-> k]
Fresh(k) == Temps[k + 1]
IsLit(e) == e.op = "lit"

(* Fault: an operand is read after the calls to its right.                     *)
SnapshotNever(l, later, k) == Piece(<<>>, l, k)

(* snapshot                                                                    *)
Snapshot(l, later, k) ==
  IF later = <<>> \/ IsLit(l) THEN Piece(<<>>, l, k)
  ELSE Piece(<<Assign(Fresh(k), l)>>, Var(Fresh(k)), k + 1)

RECURSIVE ReadsOf(_)
ReadsOf(e) ==
  CASE e.op = "lit" -> {}
    [] e.op \in {"var", "slice"} -> {e.x}
    [] e.op \in {"xor", "and"} -> ReadsOf(e.l) \cup ReadsOf(e.r)
    [] e.op = "mux" -> ReadsOf(e.c) \cup ReadsOf(e.t) \cup ReadsOf(e.e)

RECURSIVE Expr(_, _, _), Stmts(_, _, _), Stmt(_, _, _), Inline(_, _, _, _, _)

(* A name in the scope of the code being translated (VarB).                    *)
Named(sc, x) == IF x \in DOMAIN sc THEN sc[x] ELSE x
InScope(sc, a) == IF a.op = "var" THEN Var(Named(sc, a.x)) ELSE a

(* call_args, one argument: acc = [pre, args, writes, post, k]; value is its   *)
(* translation when it is an in argument.                                      *)
CallArg(f, a, acc, value) ==
  LET dir == Params[f][Len(acc.args) + 1]
      tmp == Fresh(acc.k)
      direct == /\ a.op = "var" /\ a.x \notin acc.writes
      copied == IF dir = "inout" THEN <<Assign(tmp, a)>> ELSE <<>>
      earlier == {j \in DOMAIN acc.args : /\ value.pre # <<>> /\ Params[f][j] = "in"
                                          /\ ~IsLit(acc.args[j])}
      temp == [j \in earlier |-> Temps[value.k + Cardinality({m \in earlier : m <= j})]]
      saves == FoldLeft(LAMBDA s, j : IF j \in earlier THEN Append(s, Assign(temp[j], acc.args[j])) ELSE s,
                        <<>>, [j \in DOMAIN acc.args |-> j])
  IN CASE ~Writes(dir) ->
            [acc EXCEPT !.pre = @ \o saves \o value.pre, !.k = value.k + Cardinality(earlier),
                        !.args = Append([j \in DOMAIN @ |-> IF j \in earlier THEN Var(temp[j]) ELSE @[j]],
                                        value.e)]
       [] a = Unused -> [acc EXCEPT !.args = Append(@, Var(tmp)), !.k = @ + 1]
       [] a.op = "slice" ->
            [acc EXCEPT !.pre = @ \o copied, !.post = Append(@, SetSlice(a.i, Var(tmp))),
                        !.args = Append(@, Var(tmp)), !.k = @ + 1]
       [] direct -> [acc EXCEPT !.args = Append(@, a), !.writes = @ \cup {a.x}]
       [] OTHER -> [acc EXCEPT !.pre = @ \o copied, !.post = Append(@, Assign(a.x, Var(tmp))),
                               !.args = Append(@, Var(tmp)), !.k = @ + 1]
CallArgs(f, args, sc, k) ==
  LET value(a, acc) == IF Writes(Params[f][Len(acc.args) + 1]) THEN Piece(<<>>, Lit(0), acc.k)
                       ELSE Expr(a, sc, acc.k)
  IN FoldLeft(LAMBDA acc, a : CallArg(f, InScope(sc, a), acc, value(a, acc)),
              [pre |-> <<>>, args |-> <<>>, writes |-> {}, post |-> <<>>, k |-> k], args)

(* call_args, its second loop: an in argument that overlaps an out one.        *)
Overlaps(f, acc) ==
  {i \in DOMAIN acc.args : Params[f][i] = "in" /\ ReadsOf(acc.args[i]) \cap acc.writes # {}}
Separate(f, acc) ==
  LET over == Overlaps(f, acc)
      temp == [i \in over |-> Temps[acc.k + Cardinality({j \in over : j <= i})]]
  IN [acc EXCEPT
       !.pre = FoldLeft(LAMBDA s, i : IF i \in over THEN Append(s, Assign(temp[i], acc.args[i])) ELSE s,
                        @, [i \in DOMAIN acc.args |-> i]),
       !.args = [i \in DOMAIN @ |-> IF i \in over THEN Var(temp[i]) ELSE @[i]],
       !.k = @ + Cardinality(over)]
Arguments(f, args, sc, k) == Separate(f, CallArgs(f, args, sc, k))

(* _inline, the parameters: what their arguments hoist is pending before       *)
(* anything of the function's own.                                             *)
InlineArgs(f, args, sc, k) ==
  LET value(a, acc) == IF Params[f][Len(acc.locals) + 1] # "out" /\ a # Unused
                       THEN Expr(a, sc, acc.k + 1) ELSE Piece(<<>>, Lit(0), acc.k + 1)
      with(acc, v) == [pre |-> acc.pre \o v.pre, own |-> Append(acc.own, Assign(Fresh(acc.k), v.e)),
                       locals |-> Append(acc.locals, Fresh(acc.k)), k |-> v.k]
  IN FoldLeft(LAMBDA acc, a : with(acc, value(a, acc)),
              [pre |-> <<>>, own |-> <<>>, locals |-> <<>>, k |-> k], args)

(* _inline: [pre, own]; result is the local the value goes to.                 *)
Inline(f, args, sc, k, result) ==
  LET inner(in) == [n \in Range(Formals[f]) |-> in.locals[CHOOSE i \in DOMAIN args : Formals[f][i] = n]]
      back(in) == FoldLeft(LAMBDA s, i :
                    LET a == InScope(sc, args[i]) IN
                    IF ~Writes(Params[f][i]) \/ a = Unused THEN s
                    ELSE Append(s, IF a.op = "slice" THEN SetSlice(a.i, Var(in.locals[i]))
                                   ELSE Assign(a.x, Var(in.locals[i]))),
                    <<>>, [i \in DOMAIN args |-> i])
      whole(in, body, value) ==
        [pre |-> in.pre \o value.pre, k |-> value.k,
         own |-> in.own \o body.code \o <<Assign(result, value.e)>> \o back(in)]
      returned(in, body) == whole(in, body, Expr(Result[f], inner(in), body.k))
      run(in) == returned(in, Stmts(Body[f], inner(in), in.k))
  IN run(InlineArgs(f, args, sc, k))

(* A call as a piece: _call_expr and the call statement.                       *)
CallExpr(e, sc, k) ==
  LET result == Fresh(k)
      inlined(in) == Piece(in.pre \o in.own, Var(result), in.k)
      invoked(a) == Piece(Append(a.pre, Invoke(e.f, a.args, result)) \o a.post, Var(result), a.k)
  IN IF e.f \in Functions THEN inlined(Inline(e.f, e.args, sc, k + 1, result))
     ELSE invoked(Arguments(e.f, e.args, sc, k + 1))

(* The operands of a node, each translated after the one on its left.          *)
Operands(e) == IF e.op = "mux" THEN <<e.c, e.t, e.e>> ELSE <<e.l, e.r>>
Pieces(es, sc, k) ==
  LET then(acc, p) == [ps |-> Append(acc.ps, p), k |-> p.k]
  IN FoldLeft(LAMBDA acc, e : then(acc, Expr(e, sc, acc.k)), [ps |-> <<>>, k |-> k], es)

(* _binary and the conditional of _expr: what a lazy operand hoists runs only  *)
(* when the operand does.                                                      *)
Combined(e, ps, k) ==
  LET result == Fresh(k)
      s == Snapshot(ps[1].e, ps[2].pre, k)
  IN CASE e.op = "xor" -> Piece(ps[1].pre \o s.pre \o ps[2].pre, Strict(s.e, ps[2].e), s.k)
       [] e.op = "and" ->
            IF ps[2].pre = <<>> THEN Piece(ps[1].pre, Lazy(ps[1].e, ps[2].e), k)
            ELSE Piece(ps[1].pre \o <<Assign(result, ps[1].e),
                                      If(Var(result), Append(ps[2].pre, Assign(result, ps[2].e)), <<>>)>>,
                       Var(result), k + 1)
       [] e.op = "mux" ->
            IF ps[2].pre = <<>> /\ ps[3].pre = <<>>
            THEN Piece(ps[1].pre, Mux(ps[1].e, ps[2].e, ps[3].e), k)
            ELSE Piece(ps[1].pre \o <<If(ps[1].e, Append(ps[2].pre, Assign(result, ps[2].e)),
                                         Append(ps[3].pre, Assign(result, ps[3].e)))>>,
                       Var(result), k + 1)

(* _expr                                                                       *)
Expr(e, sc, k) ==
  LET combined(acc) == Combined(e, acc.ps, acc.k)
  IN CASE e.op = "lit" -> Piece(<<>>, e, k)
       [] e.op \in {"var", "slice"} -> Piece(<<>>, InScope(sc, e), k)
       [] e.op = "call" -> CallExpr(e, sc, k)
       [] OTHER -> combined(Pieces(Operands(e), sc, k))

(* Blocks of statements, translated in order.                                  *)
Bodies(bs, sc, k) ==
  LET then(acc, b) == [codes |-> Append(acc.codes, b.code), k |-> b.k]
  IN FoldLeft(LAMBDA acc, b : then(acc, Stmts(b, sc, acc.k)), [codes |-> <<>>, k |-> k], bs)

(* _if_chain over the cases of a switch on a value; the default's code is last.*)
IfChain(key, cases, codes) ==
  LET is(v) == IF v = 1 THEN Var(key) ELSE Strict(Var(key), Lit(1))
      cond(i) == IF cases[i].labels = {0, 1} THEN Lit(1) ELSE is(CHOOSE v \in cases[i].labels : TRUE)
  IN FoldRight(LAMBDA i, rest : <<If(cond(i), codes[i], rest)>>,
               [i \in DOMAIN cases |-> i], codes[Len(codes)])

(* _stmt                                                                       *)
Stmt(s, sc, k) ==
  LET code(pre, last, n) == Lowered(Append(pre, last), n)
      set(v) == CASE s.s = "rmw" -> SetSlice(s.i, v.e)
                  [] s.s = "assign" -> Assign(Named(sc, s.x), v.e)
                  [] s.s = "compound" -> Assign(Named(sc, s.x), Strict(Var(Named(sc, s.x)), v.e))
      assigned(v) == code(v.pre, set(v), v.k)
      branches(c, b) == code(c.pre, If(c.e, b.codes[1], b.codes[2]), b.k)
      guarded(c) == branches(c, Bodies(<<s.t, s.e>>, sc, c.k))
      chain(v, b) == Lowered(Append(v.pre, Assign(Fresh(k), v.e)) \o IfChain(Fresh(k), s.cases, b.codes), b.k)
      switched(v) == chain(v, Bodies(Append([i \in DOMAIN s.cases |-> s.cases[i].body], s.default), sc, v.k))
      called(c) == Lowered(c.pre, c.k)
  IN CASE s.s \in {"assign", "rmw", "compound"} -> assigned(Expr(s.e, sc, k))
       [] s.s = "if" -> guarded(Expr(s.c, sc, k))
       [] s.s = "switch" -> switched(Expr(s.e, sc, k + 1))
       [] s.s = "call" -> called(CallExpr(s, sc, k))

Stmts(ss, sc, k) ==
  LET then(acc, one) == Lowered(acc.code \o one.code, one.k)
  IN FoldLeft(LAMBDA acc, s : then(acc, Stmt(s, sc, acc.k)), Lowered(<<>>, k), ss)

-----------------------------------------------------------------------------
(* Running the IR.                                                             *)

Value(e, st) == Eval(e, st).v

Init ==
  /\ source \in Statements
  /\ start \in [Vars \cup {Field} -> 0 .. 3] /\ \A x \in Vars : start[x] \in {0, 1}
  /\ todo = <<>> /\ phase = "typed"
  /\ store = [n \in Names |-> IF n \in Vars \cup {Field} THEN start[n] ELSE 0]

Lower ==
  /\ phase = "typed" /\ phase' = "lowered"
  /\ todo' = Stmt(source, <<>>, 0).code
  /\ UNCHANGED <<source, start, store>>

(* One IR statement; an argument is copied in before the callee runs, an out   *)
(* parameter starts at zero, and copy-back is in parameter order.              *)
Invoked(s) ==
  LET ins == [i \in DOMAIN s.args |-> IF Params[s.f][i] = "out" THEN 0 ELSE Value(s.args[i], store)]
      after(r) == [r.st EXCEPT ![s.result] = r.v]
  IN after(CopyOut(s.f, s.args, Perform(s.f, ins), store))

Run ==
  /\ phase = "lowered" /\ todo # <<>>
  /\ LET s == Head(todo)
         rest == Tail(todo)
     IN \/ /\ s.s = "assign" /\ store' = [store EXCEPT ![s.x] = Value(s.e, store)] /\ todo' = rest
        \/ /\ s.s = "rmw" /\ store' = WriteTo(store, Slice(s.i), Value(s.e, store)) /\ todo' = rest
        \/ /\ s.s = "invoke" /\ store' = Invoked(s) /\ todo' = rest
        \/ /\ s.s = "if" /\ todo' = (IF Value(s.c, store) = 1 THEN s.t ELSE s.e) \o rest
           /\ UNCHANGED store
  /\ UNCHANGED <<source, start, phase>>

Stop ==
  /\ phase = "lowered" /\ todo = <<>> /\ phase' = "ended"
  /\ UNCHANGED <<source, start, todo, store>>

Next == Lower \/ Run \/ Stop

Spec == Init /\ [][Next]_vars

-----------------------------------------------------------------------------
TypeOK ==
  /\ phase \in {"typed", "lowered", "ended"}
  /\ DOMAIN store = Names
  /\ \A n \in Names : store[n] \in (IF n = Field THEN 0 .. 3 ELSE {0, 1})

(* Evaluation order survives hoisting: what the IR leaves in the block's       *)
(* variables is what the P4 statement leaves, whatever its operands and        *)
(* arguments call, lazily or not, and whatever they share ("P4 evaluates       *)
(* operands left to right", snapshot; call_args' docstring).                   *)
KeepsMeaning ==
  phase = "ended" => \A x \in Vars \cup {Field} : store[x] = RunP4(<<source>>, start)[x]

(* docs/p4-spec-coverage.md, compound assignment: "a = a op b".  It is not when *)
(* b calls something that writes a: a is then read after the call.             *)
CompoundIsBinary ==
  phase = "ended" /\ source.s = "compound" =>
    store[source.x] = RunP4(<<Assign(source.x, Strict(Var(source.x), source.e))>>, start)[source.x]

(* Two out arguments of an IR call never share storage and no in argument      *)
(* reads an out one: the validator would refuse the call (check_args).         *)
CallsAccepted ==
  \A n \in DOMAIN todo :
    LET s == todo[n] IN
    s.s = "invoke" =>
      \A i, j \in DOMAIN s.args :
        i # j /\ Writes(Params[s.f][j]) =>
          /\ Writes(Params[s.f][i]) => s.args[i] # s.args[j]
          /\ ~Writes(Params[s.f][i]) => s.args[j].x \notin ReadsOf(s.args[i])
=============================================================================
