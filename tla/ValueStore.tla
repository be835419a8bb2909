----------------------------- MODULE ValueStore -----------------------------
(* What the statements of a block and of the actions it runs mean             *)
(* (docs/ir-semantics.md): variables hold values, every copy is independent,   *)
(* a call's targets are the elements its indices named when it started.        *)
EXTENDS Integers, Sequences

CONSTANTS
  Size, Bit,   \* elements of a stack; values of a header's one field
  LValues      \* the header lvalues of the program

Header == [valid : BOOLEAN, f : Bit]
ZeroHeader == [valid |-> FALSE, f |-> 0]
Stack == [elems : [0 .. Size - 1 -> Header], next : 0 .. Size]

HeaderVars == {"h", "s", "p"}    \* a header, a struct of one header, a parameter
StackVars == {"t", "u"}
NoIndex == -2
AtI == -1       \* the index is the variable i
TheIndex == [var |-> "i", index |-> NoIndex]
(* A header lvalue: h, s.h, p, or an element of a stack at a literal index or  *)
(* at the variable i.                                                          *)
AllLValues == [var : HeaderVars, index : {NoIndex}] \cup [var : StackVars, index : (0 .. Size) \cup {AtI}]

VARIABLES
  store,   \* values by variable
  frame,   \* the action running
  stmt     \* the statement just executed
vars == <<store, frame, stmt>>

Op(name, a, b, c, d, e) == <<name, a, b, c, d, e>>
NoFrame == [kind |-> "none"]
InAction == frame.kind # "none"
Visible(lv) == lv.var = "p" => frame.kind = "call"

At(x, i) == IF x = AtI THEN i ELSE x
Resolve(lv) == [lv EXCEPT !.index = At(@, store.i)]

Get(lv) ==
  CASE lv.var = "p" -> frame.p
    [] lv.var \in {"h", "s"} -> store[lv.var]
    [] OTHER -> IF At(lv.index, store.i) < Size THEN store[lv.var].elems[At(lv.index, store.i)]
                ELSE ZeroHeader

Stored(st, lv, v) ==
  CASE lv.var \in {"h", "s"} -> [st EXCEPT ![lv.var] = v]
    [] lv.var \in StackVars -> IF At(lv.index, st.i) < Size
                               THEN [st EXCEPT ![lv.var].elems[At(lv.index, st.i)] = v] ELSE st
    [] OTHER -> st

Set(lv, v) ==
  /\ store' = Stored(store, lv, v)
  /\ frame' = IF lv.var = "p" THEN [frame EXCEPT !.p = v] ELSE frame

Init ==
  /\ store = [h |-> ZeroHeader, s |-> ZeroHeader, i |-> 0,
              t |-> [elems |-> [k \in 0 .. Size - 1 |-> ZeroHeader], next |-> 0],
              u |-> [elems |-> [k \in 0 .. Size - 1 |-> ZeroHeader], next |-> 0]]
  /\ frame = NoFrame /\ stmt = Op("return", 0, 0, 0, 0, 0)

Assign(lv, source) == Visible(lv) /\ Visible(source) /\ Set(lv, Get(source))
AssignField(lv, b) == Visible(lv) /\ Set(lv, [Get(lv) EXCEPT !.f = b])
AssignStack(x, y) == store' = [store EXCEPT ![x] = store[y]] /\ frame' = frame
AssignIndex(k) == store' = [store EXCEPT !.i = k] /\ frame' = frame
SetValid(lv, b) == Visible(lv) /\ Set(lv, [Get(lv) EXCEPT !.valid = b])
Extract(lv, b) == ~InAction /\ lv.var # "p" /\ Set(lv, [valid |-> TRUE, f |-> b])
ExtractNext(x, b) ==
  /\ ~InAction /\ store[x].next < Size
  /\ store' = [store EXCEPT ![x] = [elems |-> [@.elems EXCEPT ![store[x].next] = [valid |-> TRUE, f |-> b]],
                                    next |-> @.next + 1]]
  /\ frame' = frame

Shifted(x, by) ==
  [elems |-> [k \in 0 .. Size - 1 |-> IF k - by \in 0 .. Size - 1 THEN x.elems[k - by] ELSE ZeroHeader],
   next |-> LET n == x.next + by IN IF n < 0 THEN 0 ELSE IF n > Size THEN Size ELSE n]
Shift(x, by) == store' = [store EXCEPT ![x] = Shifted(@, by)] /\ frame' = frame

(* An extern call writes an out argument, which may be the index variable, and *)
(* then its result; both targets are fixed before either is written.           *)
CallExtern(out, b, k, target, r) ==
  /\ target.var # "p"
  /\ LET kept == IF out = TheIndex THEN [store EXCEPT !.i = k]
                 ELSE Stored(store, Resolve(out), [Get(out) EXCEPT !.f = b])
         to == Resolve(target)
         now == CASE to.var \in {"h", "s"} -> kept[to.var]
                  [] to.var \in StackVars /\ to.index < Size -> kept[to.var].elems[to.index]
                  [] OTHER -> ZeroHeader
     IN store' = Stored(kept, to, [now EXCEPT !.f = r])
  /\ frame' = frame

CallAction(dir, arg) ==
  /\ ~InAction /\ arg.var # "p" /\ store' = store
  /\ frame' = [kind |-> "call", dir |-> dir, arg |-> IF dir = "in" THEN arg ELSE Resolve(arg),
               p |-> IF dir = "out" THEN ZeroHeader ELSE Get(arg)]

(* hit goes where its lvalue points once the action has run.                   *)
Apply(lv, hit) ==
  /\ ~InAction /\ lv.var # "p" /\ store' = store
  /\ frame' = [kind |-> "apply", lv |-> lv, hit |-> hit]

Return ==
  /\ InAction /\ frame' = NoFrame
  /\ store' = IF frame.kind = "apply" THEN Stored(store, frame.lv, [Get(frame.lv) EXCEPT !.f = frame.hit])
              ELSE IF frame.dir = "in" THEN store
              ELSE Stored(store, frame.arg, frame.p)

(* What the statement op does.                                                 *)
Execute(op) ==
  CASE op[1] = "assign" -> Assign(op[2], op[3])
    [] op[1] = "field" -> AssignField(op[2], op[3])
    [] op[1] = "extract" -> Extract(op[2], op[3])
    [] op[1] = "apply" -> Apply(op[2], op[3])
    [] op[1] = "validity" -> SetValid(op[2], op[3])
    [] op[1] = "stack" -> AssignStack(op[2], op[3])
    [] op[1] = "index" -> AssignIndex(op[2])
    [] op[1] = "next" -> ExtractNext(op[2], op[3])
    [] op[1] = "push" -> Shift(op[2], op[3])
    [] op[1] = "pop" -> Shift(op[2], -op[3])
    [] op[1] = "extern" -> op[2].var # "p" /\ CallExtern(op[2], op[3], op[4], op[5], op[6])
    [] op[1] = "call" -> CallAction(op[2], op[3])
    [] op[1] = "return" -> Return

Next == Execute(stmt')

Spec == Init /\ [][Next]_vars
=============================================================================
