--------------------------- MODULE ParserLowering ---------------------------
(* frontend/blocks.py: a P4 parser becomes a parser block of the IR.  P4 has   *)
(* parser-level variables, initialized once, and a fresh frame of local        *)
(* variables at each entry of a state; the IR has the block's locals, zero     *)
(* when the block starts and kept from state to state.  A parser is chosen,    *)
(* translated, and both are run on one packet, a state at a time.              *)
(* Bits are bit<2>; a header has one field of them; a stack has two headers.   *)
EXTENDS ParserSyntax, Integers, Sequences, SequencesExt, TLC

CONSTANTS
  Parsers,       \* P4 parsers: [locals, states], states in source order
  Packets,       \* what is extracted, header after header
  Params,        \* Params[x]: the type of parameter x, copied in and out
  ProgramNames,  \* names of the program's types, blocks and instances
  MaxVisits      \* bound: states visited

VARIABLES
  parser, ir,   \* the parser and its translation
  input,        \* the packet
  p4, run,      \* the two runs: [at, env, left, result]
  visits

vars == <<parser, ir, input, p4, run, visits>>

Values == 0 .. 3
HeaderOf(ok, v) == [valid |-> ok, f |-> v]
Default(t) ==
  CASE t = "bits" -> 0
    [] t = "header" -> HeaderOf(FALSE, 0)
    [] t = "stack" -> [next |-> 0, elements |-> <<HeaderOf(FALSE, 0), HeaderOf(FALSE, 0)>>]

-----------------------------------------------------------------------------
(* What both languages share: expressions, key sets, extraction.               *)

Bool(b) == IF b THEN 1 ELSE 0
IsStack(v) == "next" \in DOMAIN v

RECURSIVE Value(_, _)
Value(e, env) ==
  CASE e.op = "lit" -> e.v
    [] e.op = "var" -> env[e.x]
    [] e.op = "field" -> env[e.x].f
    [] e.op = "valid" -> Bool((IF IsStack(env[e.x]) THEN env[e.x].elements[1] ELSE env[e.x]).valid)
    [] e.op = "sum" -> (Value(e.l, env) + Value(e.r, env)) % 4

And2(a, b) == Bool((a % 2) + (b % 2) = 2) + 2 * Bool((a \div 2) + (b \div 2) = 2)
Matches(set, v) ==
  CASE set.k = "any" -> TRUE
    [] set.k = "exact" -> v = set.v
    [] set.k = "masked" -> And2(v, set.m) = And2(set.v, set.m)
    [] set.k = "range" -> set.lo <= v /\ v <= set.hi

(* The state after a select: its first matching case, or a NoMatch error.      *)
FirstOf(cases, hits) ==
  IF hits = {} THEN "NoMatch" ELSE cases[CHOOSE i \in hits : \A j \in hits : i <= j].target

(* A header read from the packet, into the place it goes.                      *)
Room(v) == IsStack(v) => v.next < Len(v.elements)
Put(v, bits) ==
  IF ~IsStack(v) THEN HeaderOf(TRUE, bits)
  ELSE [next |-> v.next + 1, elements |-> [v.elements EXCEPT ![v.next + 1] = HeaderOf(TRUE, bits)]]
Failure(v, left) ==
  IF ~Room(v) THEN "StackOutOfBounds" ELSE IF left = <<>> THEN "PacketTooShort" ELSE ""

Popped(v, n) ==
  [next |-> IF v.next > n THEN v.next - n ELSE 0,
   elements |-> [i \in DOMAIN v.elements |->
     IF i + n \in DOMAIN v.elements THEN v.elements[i + n] ELSE HeaderOf(FALSE, 0)]]

-----------------------------------------------------------------------------
(* P4: env is a sequence of frames, innermost last.                            *)

Running(r) == r.result = ""
FrameOf(frames, x) == CHOOSE i \in DOMAIN frames :
  x \in DOMAIN frames[i] /\ \A j \in i + 1 .. Len(frames) : x \notin DOMAIN frames[j]
Visible(frames) == FoldLeft(LAMBDA outer, frame : frame @@ outer, <<>>, frames)
P4Value(e, frames) == Value(e, Visible(frames))
P4Write(r, x, v) == [r EXCEPT !.env[FrameOf(r.env, x)][x] = v]
Declare(r, x, v) == [r EXCEPT !.env[Len(r.env)] = (x :> v) @@ @]
Enter(r) == [r EXCEPT !.env = Append(@, <<>>)]
Exit(r) == [r EXCEPT !.env = Front(@)]
Fail(r, e) == [r EXCEPT !.result = e]

RECURSIVE P4Run(_, _)
P4Run(body, start) ==
  LET at(r, x) == Visible(r.env)[x]
      extract(r, x) ==
        IF Failure(at(r, x), r.left) # "" THEN Fail(r, Failure(at(r, x), r.left))
        ELSE [P4Write(r, x, Put(at(r, x), r.left[1])) EXCEPT !.left = Tail(@)]
      one(r, s) ==
        CASE s.s = "decl" -> Declare(r, s.x, IF s.init = NoInit THEN Default(s.t) ELSE P4Value(s.init, r.env))
          [] s.s = "const" -> Declare(r, s.x, s.v)
          [] s.s = "block" -> Exit(P4Run(s.body, Enter(r)))
          [] s.s = "assign" -> P4Write(r, s.x, P4Value(s.e, r.env))
          [] s.s = "setfield" -> P4Write(r, s.x, [at(r, s.x) EXCEPT !.f = P4Value(s.e, r.env)])
          [] s.s = "extract" -> extract(r, s.x)
          [] s.s = "if" -> Exit(P4Run(IF P4Value(s.c, r.env) # 0 THEN s.then ELSE s.else, Enter(r)))
  IN FoldLeft(LAMBDA r, s : IF Running(r) THEN one(r, s) ELSE r, start, body)

(* A single default matches whatever the keys.                                 *)
P4Hit(c, vs) ==
  \/ Len(c.sets) = 1 /\ c.sets[1] = DontCare
  \/ \A i \in DOMAIN vs : Matches(c.sets[i], vs[i])
P4Goes(trans, frames) ==
  IF trans.kind = "direct" THEN trans.target
  ELSE LET vs == [i \in DOMAIN trans.keys |-> P4Value(trans.keys[i], frames)]
       IN FirstOf(trans.cases, {n \in DOMAIN trans.cases : P4Hit(trans.cases[n], vs)})

-----------------------------------------------------------------------------
(* The IR: env has the block's parameters and locals.                          *)

RECURSIVE IRRun(_, _)
IRRun(body, start) ==
  LET value(r, e) == Value(e, r.env)
      extract(r, x) ==
        IF Failure(r.env[x], r.left) # "" THEN Fail(r, Failure(r.env[x], r.left))
        ELSE [r EXCEPT !.env[x] = Put(@, r.left[1]), !.left = Tail(@)]
      one(r, s) ==
        CASE s.s = "assign" -> [r EXCEPT !.env[s.x] = value(r, s.e)]
          [] s.s = "setfield" -> [r EXCEPT !.env[s.x].f = value(r, s.e)]
          [] s.s = "extract" -> extract(r, s.x)
          [] s.s = "if" -> IRRun(IF value(r, s.c) # 0 THEN s.then ELSE s.else, r)
          [] s.s = "set_invalid" -> [r EXCEPT !.env[s.x].valid = FALSE]
          [] s.s = "pop" -> [r EXCEPT !.env[s.x] = Popped(@, s.n)]
  IN FoldLeft(LAMBDA r, s : IF Running(r) THEN one(r, s) ELSE r, start, body)

IRGoes(trans, env) ==
  IF trans.kind = "direct" THEN trans.target
  ELSE FirstOf(trans.cases,
         {n \in DOMAIN trans.cases : \A i \in DOMAIN trans.keys :
            Matches(trans.cases[n].sets[i], Value(trans.keys[i], env))})

-----------------------------------------------------------------------------
(* The translation.  A context is the scope, a function from P4 names to what  *)
(* they are, the names taken, the locals added and the code written.           *)

VarB(name) == [b |-> "var", name |-> name]
ConstB(v) == [b |-> "const", v |-> v]

(* fresh: the base, or the base with the first free number.                    *)
Numbered(base, i) == IF i = 0 THEN base ELSE base \o "_" \o ToString(i - 1)
Fresh(cx, base) ==
  LET free == {i \in 0 .. 9 : Numbered(base, i) \notin cx.taken \cup ProgramNames}
  IN Numbered(base, CHOOSE i \in free : \A j \in free : i <= j)

(* add_local, and the name bound to it.                                        *)
AddLocal(cx, x, t) ==
  LET name == Fresh(cx, x)
  IN [cx EXCEPT !.taken = @ \cup {name}, !.locals = (name :> t) @@ @,
                !.scope = (x :> VarB(name)) @@ @]

RECURSIVE Expr(_, _)
Expr(cx, e) ==
  CASE e.op = "lit" -> e
    [] e.op \in {"var", "field", "valid"} ->
         IF cx.scope[e.x].b = "const" THEN Lit(cx.scope[e.x].v) ELSE [e EXCEPT !.x = cx.scope[e.x].name]
    [] e.op = "sum" -> Sum(Expr(cx, e.l), Expr(cx, e.r))

Zero(name, t) ==
  CASE t = "bits" -> <<Assign(name, Lit(0))>>
    [] t = "header" -> <<SetInvalid(name), SetField(name, Lit(0))>>
    [] t = "stack" -> <<Pop(name, 2)>>

Emit(cx, code) == [cx EXCEPT !.code = @ \o code]

(* Fault: a declaration without an initializer is left to the block's start.   *)
VarDeclOnce(cx, s) ==
  LET in == AddLocal(cx, s.x, s.t)
  IN IF s.init = NoInit THEN in ELSE Emit(in, <<Assign(in.scope[s.x].name, Expr(in, s.init))>>)

(* _var_decl: the name is bound before its initializer is translated.          *)
VarDecl(cx, s) ==
  LET in == AddLocal(cx, s.x, s.t)
      name == in.scope[s.x].name
  IN Emit(in, IF s.init = NoInit THEN Zero(name, s.t) ELSE <<Assign(name, Expr(in, s.init))>>)

RECURSIVE Stmts(_, _)
Stmts(cx, body) ==
  LET inner(c, b) == Stmts([c EXCEPT !.code = <<>>], b)
      left(c, i) == [c EXCEPT !.taken = i.taken, !.locals = i.locals]
      nested(c, i) == Emit(left(c, i), i.code)
      choose(c, s, i, j) == Emit(left(c, j), <<If(Expr(c, s.c), i.code, j.code)>>)
      branch(c, s, i) == choose(c, s, i, inner(left(c, i), s.else))
      one(c, s) ==
        CASE s.s = "decl" -> VarDecl(c, s)
          [] s.s = "const" -> [c EXCEPT !.scope = (s.x :> ConstB(s.v)) @@ @]
          [] s.s = "block" -> nested(c, inner(c, s.body))
          [] s.s \in {"assign", "setfield"} -> Emit(c, <<[s EXCEPT !.x = c.scope[s.x].name, !.e = Expr(c, s.e)]>>)
          [] s.s = "extract" -> Emit(c, <<Extract(c.scope[s.x].name)>>)
          [] s.s = "if" -> branch(c, s, inner(c, s.then))
  IN FoldLeft(one, cx, body)

(* state: a default alone stands for one set per key.                          *)
Spread(sets, n) == IF Len(sets) = 1 /\ sets[1] = DontCare THEN [i \in 1 .. n |-> DontCare] ELSE sets
Transition(cx, trans) ==
  IF trans.kind = "direct" THEN trans
  ELSE Select([i \in DOMAIN trans.keys |-> Expr(cx, trans.keys[i])],
              [i \in DOMAIN trans.cases |->
                 [trans.cases[i] EXCEPT !.sets = Spread(@, Len(trans.keys))]])

StateOf(name, body, trans) == [name |-> name, body |-> body, trans |-> trans]
State(cx, st) ==
  LET done(c) == [c EXCEPT !.states = Append(@, StateOf(st.name, c.code, Transition(c, st.trans)))]
  IN done(Stmts([cx EXCEPT !.code = <<>>], st.body))

(* translate_locals: an initializer that is zero is already done.              *)
IsZero(e) == e.op = "lit" /\ e.v = 0
ParserLocal(cx, d) ==
  LET in == AddLocal(cx, d.x, d.t)
  IN IF d.init = NoInit \/ IsZero(d.init) THEN in
     ELSE Emit(in, <<Assign(in.scope[d.x].name, Expr(in, d.init))>>)

(* _bind_block_declarations: the constants first, wherever they stand.         *)
Locals(cx, ds) ==
  LET consts(c) == FoldLeft(LAMBDA a, d : IF d.s = "const" THEN [a EXCEPT !.scope = (d.x :> ConstB(d.v)) @@ @]
                                          ELSE a, c, ds)
  IN FoldLeft(LAMBDA a, d : IF d.s = "decl" THEN ParserLocal(a, d) ELSE a, consts(cx), ds)

TargetsOf(trans) ==
  IF trans.kind = "direct" THEN {trans.target} ELSE {trans.cases[i].target : i \in DOMAIN trans.cases}

(* translate_block, of a parser: the prologue runs before the start state, in  *)
(* an entry state of its own when the parser may come back to start.           *)
Placed(cx, prologue) ==
  LET again == \E i \in DOMAIN cx.states : "start" \in TargetsOf(cx.states[i].trans)
      entry == Fresh(cx, "start_init")
      before(st) == IF st.name = "start" THEN [st EXCEPT !.body = prologue \o @] ELSE st
  IN IF prologue = <<>> THEN [start |-> "start", states |-> cx.states]
     ELSE IF again
     THEN [start |-> entry, states |-> <<StateOf(entry, prologue, Direct("start"))>> \o cx.states]
     ELSE [start |-> "start", states |-> [i \in DOMAIN cx.states |-> before(cx.states[i])]]

Translate(p) ==
  LET empty == [scope |-> [x \in DOMAIN Params |-> VarB(x)], locals |-> <<>>, code |-> <<>>, states |-> <<>>,
                taken |-> DOMAIN Params \cup {p.states[i].name : i \in DOMAIN p.states}]
      top == Locals(empty, p.locals)
      all == FoldLeft(State, top, p.states)
  IN [names |-> [x \in DOMAIN top.scope |-> top.scope[x]], locals |-> all.locals] @@ Placed(all, top.code)

-----------------------------------------------------------------------------
Start(env, at) == [at |-> at, env |-> env, left |-> input, result |-> ""]
Zeros(types) == [x \in DOMAIN types |-> Default(types[x])]

Init ==
  /\ parser \in Parsers /\ ir = Translate(parser)
  /\ input \in Packets
  /\ p4 = Start(<<Zeros(Params)>>, "")
  /\ run = Start(Zeros(Params) @@ Zeros(ir.locals), ir.start)
  /\ visits = 0

Named(states, name) == states[SelectInSeq(states, LAMBDA st : st.name = name)]
Goes(r, target) ==
  IF target \in {"accept", "reject", "NoMatch"} THEN [r EXCEPT !.result = target]
  ELSE [r EXCEPT !.at = target]

(* One state of the P4 parser, its locals in a frame of their own.             *)
P4State(r) ==
  LET st == Named(parser.states, r.at)
      after(q) == IF Running(q) THEN Goes(q, P4Goes(st.trans, q.env)) ELSE q
  IN [after(P4Run(st.body, Enter(r))) EXCEPT !.env = <<@[1]>>]
IRState(r) ==
  LET st == Named(ir.states, r.at)
      after(q) == IF Running(q) THEN Goes(q, IRGoes(st.trans, q.env)) ELSE q
  IN after(IRRun(st.body, r))

(* The parser starts: P4's parser-level declarations, the IR's entry state.    *)
Begin ==
  /\ p4.at = ""
  /\ p4' = [P4Run(parser.locals, p4) EXCEPT !.at = "start"]
  /\ run' = IF ir.start = "start" THEN run ELSE IRState(run)
  /\ UNCHANGED <<parser, ir, input, visits>>

Visit ==
  /\ p4.at # "" /\ Running(p4) /\ Running(run) /\ visits < MaxVisits
  /\ visits' = visits + 1
  /\ p4' = P4State(p4) /\ run' = IRState(run)
  /\ UNCHANGED <<parser, ir, input>>

Next == Begin \/ Visit
Spec == Init /\ [][Next]_vars

-----------------------------------------------------------------------------
(* A variable of the parser itself, and the block's name for it.               *)
ParserVars == {x \in DOMAIN ir.names : ir.names[x].b = "var"}

(* After each state the two runs are in the same state, have read as much of   *)
(* the packet, and hold the same values in the parser's variables.             *)
Agree ==
  visits > 0 =>
    /\ run.result = p4.result /\ run.left = p4.left
    /\ Running(p4) => run.at = p4.at
    /\ \A x \in ParserVars : run.env[ir.names[x].name] = p4.env[1][x]
=============================================================================
