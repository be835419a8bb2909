------------------------------- MODULE Naming -------------------------------
(* frontend/blocks.py and spectec_il.py, finish: the variables of a P4 control *)
(* become names of the IR's flatter scopes.  A control's own variables and     *)
(* every local declared in its body or its actions are the block's variables,  *)
(* renamed where a name is taken; an action's parameters stand before them in  *)
(* the action alone; an action bound in a table's list gets a copy per table,  *)
(* the bound arguments substituted.  Only names are kept of the code: a        *)
(* statement declares, or uses, and every declaration has an identity.         *)
EXTENDS Integers, Sequences, SequencesExt, TLC

CONSTANTS
  Controls,      \* the P4 controls: [params, items, body]
  ProgramNames   \* names of the program's types, instances and blocks

VARIABLES
  control,   \* the P4 control
  block,     \* its translation; refused, when it is
  phase      \* "source", "translated", "finished" or "refused"

vars == <<control, block, phase>>

(* Items are variables, actions and tables; statements: "decl", a declaration; *)
(* "temp", a temporary an elaboration makes and reads; "use"; "block".         *)
ItemsOf(c, kind) == SelectSeq(c.items, LAMBDA d : d.i = kind)

-----------------------------------------------------------------------------
(* What P4 means by the uses of a piece of code: the declarations, in order.   *)

RECURSIVE Means(_, _)
Means(body, scope) ==
  LET inner(acc, b) == [acc EXCEPT !.refs = @ \o Means(b, acc.scope)]
      one(acc, s) ==
        CASE s.s = "decl" -> [acc EXCEPT !.scope = (s.x :> s.id) @@ @]
          [] s.s = "temp" -> [acc EXCEPT !.refs = Append(@, s.id)]
          [] s.s = "use" -> [acc EXCEPT !.refs = Append(@, acc.scope[s.x])]
          [] s.s = "block" -> inner(acc, s.body)
  IN FoldLeft(one, [scope |-> scope, refs |-> <<>>], body).refs

IdOf(owner, x) == <<owner, x>>
ParamsOf(owner, names) == [x \in names |-> IdOf(owner, x)]
P4Scope(c) ==
  LET locals == ItemsOf(c, "var")
  IN FoldLeft(LAMBDA scope, d : (d.x :> d.id) @@ scope, ParamsOf("control", ToSet(c.params)), locals)

(* The body of an action, as called, and as table t binds its arguments.       *)
ActionMeans(c, a) == Means(a.body, ParamsOf(a.x, ToSet(a.params)) @@ P4Scope(c))
BoundMeans(c, a, args) ==
  Means(a.body, [p \in DOMAIN args |-> P4Scope(c)[args[p]]] @@ ParamsOf(a.x, ToSet(a.params)) @@ P4Scope(c))

-----------------------------------------------------------------------------
(* The translation.  Its context: what names stand for, in scope; the names    *)
(* taken; the block's variables, each with the declaration it is for; the      *)
(* code so far, as the names it refers to.                                     *)

(* fresh: the base, or the base with the first free number.                    *)
Numbered(base, i) == IF i = 0 THEN base ELSE base \o "_" \o ToString(i - 1)
FirstFree(Name(_), taken) ==
  Name(CHOOSE i \in 0 .. 9 : Name(i) \notin taken /\ \A j \in 0 .. i - 1 : Name(j) \in taken)
Fresh(cx, base) == FirstFree(LAMBDA i : Numbered(base, i), cx.taken \cup ProgramNames)

(* add_local                                                                   *)
AddLocal(cx, base, id) ==
  LET name == Fresh(cx, base)
  IN [cx EXCEPT !.taken = @ \cup {name}, !.vars = Append(@, [name |-> name, id |-> id])]
Newest(cx) == cx.vars[Len(cx.vars)].name
Bind(cx, x, name) == [cx EXCEPT !.scope = (x :> name) @@ @]
Refer(cx, name) == [cx EXCEPT !.refs = Append(@, name)]

RECURSIVE Stmts(_, _)
Stmts(cx, body) ==
  LET declared(x, c) == Bind(c, x, Newest(c))
      made(c) == Refer(c, Newest(c))
      outer(c, i) == [i EXCEPT !.scope = c.scope]
      one(c, s) ==
        CASE s.s = "decl" -> declared(s.x, AddLocal(c, s.x, s.id))
          [] s.s = "temp" -> made(AddLocal(c, s.x, s.id))
          [] s.s = "use" -> Refer(c, c.scope[s.x])
          [] s.s = "block" -> outer(c, Stmts(c, s.body))
  IN FoldLeft(one, cx, body)

RECURSIVE UsedIn(_)
UsedIn(body) ==
  UNION {CASE body[i].s = "use" -> {body[i].x} [] body[i].s = "block" -> UsedIn(body[i].body) [] OTHER -> {} :
           i \in DOMAIN body}

(* _prepare_actions: the tables that bind an action, and its copy's name in    *)
(* each.  The first copy takes the action's name unless it is used unbound.    *)
Bindings(c, a) ==
  LET tables == ItemsOf(c, "table")
      in(t) == SelectSeq(t.actions, LAMBDA ref : ref.x = a /\ DOMAIN ref.args # {})
  IN FlattenSeq([i \in DOMAIN tables |->
       [n \in DOMAIN in(tables[i]) |-> [table |-> tables[i].x, args |-> in(tables[i])[n].args]]])
Plain(c, a) ==
  \/ \E i \in DOMAIN c.called : c.called[i] = a
  \/ \E i \in DOMAIN c.items : c.items[i].i = "table" /\
       \E n \in DOMAIN c.items[i].actions :
         c.items[i].actions[n].x = a /\ DOMAIN c.items[i].actions[n].args = {}
CopyName(c, a, i) ==
  LET n == i - (IF Plain(c, a) THEN 0 ELSE 1)
  IN IF n = 0 THEN a ELSE a \o "_" \o ToString(n)

(* translate_action: refused when a bound argument is a name its body reaches  *)
(* otherwise, or has not been declared yet, or leaves a direction unbound.     *)
Kept(a, args) == SelectSeq(a.params, LAMBDA p : p \notin DOMAIN args)
MayBind(cx, a, args) ==
  /\ \A p \in DOMAIN args :
       args[p] \in DOMAIN cx.scope /\ args[p] \notin UsedIn(a.body) \ {p}
  /\ DOMAIN args # {} => \A p \in ToSet(Kept(a, args)) : p \in a.data

Action(cx, a, name, args) ==
  LET kept == Kept(a, args)
      in == [cx EXCEPT !.refs = <<>>,
               !.scope = [p \in DOMAIN args |-> cx.scope[args[p]]] @@ [p \in ToSet(kept) |-> p] @@ @]
      done(o) == [o EXCEPT !.scope = cx.scope, !.refs = cx.refs, !.taken = @ \cup {name},
                           !.actions = Append(@, [name |-> name, of |-> a.x, params |-> kept,
                                                  args |-> args, refs |-> o.refs])]
  IN done(Stmts(in, a.body))

Refuse(cx) == [cx EXCEPT !.refused = TRUE]
NoArgs == <<>>
(* _translate_action_decl                                                      *)
ActionDecl(cx, c, a) ==
  LET copies == Bindings(c, a.x)
      first == IF copies = <<>> \/ Plain(c, a.x) THEN Action(cx, a, a.x, NoArgs) ELSE cx
      copy(acc, i) ==
        IF acc.refused \/ ~MayBind(acc, a, copies[i].args) THEN Refuse(acc)
        ELSE Action(acc, a, CopyName(c, a.x, i), copies[i].args)
  IN FoldLeftDomain(copy, first, copies)

(* translate_table: the names in its keys.                                     *)
Table(cx, t) ==
  [cx EXCEPT !.taken = @ \cup {t.x},
             !.tables = Append(@, [name |-> t.x, refs |-> [i \in DOMAIN t.keys |-> cx.scope[t.keys[i]]]])]
Variable(cx, d) ==
  LET in == AddLocal(cx, d.x, d.id) IN Bind(in, d.x, Newest(in))

(* translate_block, of a control                                               *)
Empty(c) ==
  [scope |-> [x \in ToSet(c.params) |-> x], taken |-> ToSet(c.params), refs |-> <<>>,
   vars |-> [i \in DOMAIN c.params |-> [name |-> c.params[i], id |-> IdOf("control", c.params[i])]],
   actions |-> <<>>, tables |-> <<>>, refused |-> FALSE]
Translated(c) ==
  LET item(cx, d) ==
        CASE cx.refused -> cx
          [] d.i = "var" -> Variable(cx, d)
          [] d.i = "action" -> ActionDecl(cx, c, d)
          [] d.i = "table" -> Table(cx, d)
      all == FoldLeft(item, Empty(c), c.items)
  IN IF all.refused THEN all ELSE Stmts([all EXCEPT !.refs = <<>>], c.body)

-----------------------------------------------------------------------------
(* finish: variables of the block that collide with a name of the program, of  *)
(* an action's parameter, an action or a table are renamed, all at once.       *)

Suffixed(x, i) == IF i = 0 THEN x \o "_" ELSE x \o "_" \o ToString(i - 1)
NamesIn(decls) == {decls[i].name : i \in DOMAIN decls}
ActionParams(b) == UNION {ToSet(b.actions[i].params) : i \in DOMAIN b.actions}
Others(b) == NamesIn(b.actions) \cup NamesIn(b.tables)

Renamings(b) ==
  LET avoid == ProgramNames \cup ActionParams(b) \cup Others(b)
      new(acc, x) == FirstFree(LAMBDA i : Suffixed(x, i), avoid \cup acc.seen)
      rename(acc, x, y) == [seen |-> acc.seen \cup {y}, map |-> (x :> y) @@ acc.map]
      one(acc, v) ==
        IF v.name \in avoid \cup acc.seen THEN rename(acc, v.name, new(acc, v.name))
        ELSE [acc EXCEPT !.seen = @ \cup {v.name}]
  IN FoldLeft(one, [seen |-> {}, map |-> <<>>], b.vars).map

(* Fault: an action's own parameters are renamed in it too.                    *)
RenamedEverywhere(refs, map, own) ==
  [i \in DOMAIN refs |-> IF refs[i] \in DOMAIN map THEN map[refs[i]] ELSE refs[i]]

(* rename_block_vars: an action's own parameters are left alone in it.         *)
Renamed(refs, map, own) ==
  [i \in DOMAIN refs |-> IF refs[i] \in DOMAIN map /\ refs[i] \notin own THEN map[refs[i]] ELSE refs[i]]
Finished(b) ==
  LET map == Renamings(b)
      action(a) == [a EXCEPT !.refs = Renamed(@, map, ToSet(a.params))]
      table(t) == [t EXCEPT !.refs = Renamed(@, map, {})]
      variable(v) == [v EXCEPT !.name = IF @ \in DOMAIN map THEN map[@] ELSE @]
  IN [b EXCEPT !.vars = [i \in DOMAIN @ |-> variable(@[i])],
               !.actions = [i \in DOMAIN @ |-> action(@[i])],
               !.tables = [i \in DOMAIN @ |-> table(@[i])],
               !.refs = Renamed(@, map, {})]

-----------------------------------------------------------------------------
Init == control \in Controls /\ block = Empty(control) /\ phase = "source"

Translate ==
  /\ phase = "source"
  /\ block' = Translated(control)
  /\ phase' = IF block'.refused THEN "refused" ELSE "translated"
  /\ UNCHANGED control
Finish ==
  /\ phase = "translated"
  /\ block' = Finished(block) /\ phase' = "finished"
  /\ UNCHANGED control

Next == Translate \/ Finish
Spec == Init /\ [][Next]_vars

-----------------------------------------------------------------------------
(* The IR's scopes: an action's parameters, then the block's variables.        *)
VarsNamed(name) == {i \in DOMAIN block.vars : block.vars[i].name = name}
IRMeans(owner, params, refs) ==
  [i \in DOMAIN refs |->
     IF refs[i] \in ToSet(params) THEN IdOf(owner, refs[i])
     ELSE block.vars[CHOOSE n \in VarsNamed(refs[i]) : TRUE].id]

ActionNamed(a) == SelectSeq(ItemsOf(control, "action"), LAMBDA d : d.x = a)[1]
P4Means(a) ==
  IF DOMAIN a.args = {} THEN ActionMeans(control, ActionNamed(a.of))
  ELSE BoundMeans(control, ActionNamed(a.of), a.args)

(* Every name in the finished block stands for the variable P4 means there:    *)
(* in the body, the tables' keys, the actions and their copies; no two         *)
(* variables share a name, and none has a name of another kind.                *)
NamesKept ==
  phase = "finished" =>
    /\ IRMeans("control", <<>>, block.refs) = Means(control.body, P4Scope(control))
    /\ \A i \in DOMAIN block.actions :
         LET a == block.actions[i] IN IRMeans(a.of, a.params, a.refs) = P4Means(a)
    /\ \A i \in DOMAIN block.tables :
         IRMeans("control", <<>>, block.tables[i].refs) =
           [n \in DOMAIN ItemsOf(control, "table")[i].keys |-> P4Scope(control)[ItemsOf(control, "table")[i].keys[n]]]
    /\ \A i, j \in DOMAIN block.vars : i # j => block.vars[i].name # block.vars[j].name
    /\ NamesIn(block.vars) \cap (ProgramNames \cup ActionParams(block) \cup Others(block)) = {}
=============================================================================
