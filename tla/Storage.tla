------------------------------- MODULE Storage -------------------------------
(* Variables as the Python interpreter keeps them: names refer to mutable      *)
(* Header, Struct and Stack objects, expressions hand out references, and      *)
(* statements mutate objects in place (interp/values.py, expr.py, stmt.py).    *)
(* An action's parameters are layered on the block's variables (env.py).       *)
(* The heap holds the reachable objects; a collected name is used again.       *)
EXTENDS Integers, Sequences, FiniteSets

CONSTANTS
  Elements,      \* elements of a stack
  Bit,           \* values of a header's one field
  HeaderLValues, \* the header lvalues of the program
  MaxOps         \* bound: statements of a run

(* A header lvalue: h, s.h, p, or an element of a stack at a literal index or  *)
(* at the variable i.                                                          *)
StackVars == {"t", "u"}
NoSelector == -2
AtVariable == -1
TheIndex == [var |-> "i", index |-> NoSelector]
Param == [var |-> "p", index |-> NoSelector]

ASSUME StorageAssumption ==
  /\ Elements \in Nat /\ {0, 1} \subseteq Bit /\ MaxOps \in Nat
  /\ HeaderLValues \subseteq [var : {"h", "s", "p"}, index : {NoSelector}]
                               \cup [var : StackVars, index : (0 .. Elements) \cup {AtVariable}]

VARIABLES
  heap,    \* objects by reference
  env,     \* Env.vars: a reference per variable, and the index variable's value
  frame,   \* the action running: Env.action_vars, and the call's resolved target
  stmt,    \* the statement just executed
  ops      \* statements executed

objectVars == <<heap, env, frame, stmt, ops>>

NoRef == 0      \* a zero header that is stored nowhere
ZeroObject == [is |-> "header", valid |-> FALSE, f |-> 0]
NoFrame == [kind |-> "none"]
InAction == frame.kind # "none"
Visible(lv) == lv.var = "p" => frame.kind = "call"

(* What statements act on.                                                     *)
Memory == [heap |-> heap, env |-> env, frame |-> frame]
WithHeap(m, hp) == [heap |-> hp, env |-> m.env, frame |-> m.frame]
WithEnv(m, e) == [heap |-> m.heap, env |-> e, frame |-> m.frame]
WithFrame(m, fr) == [heap |-> m.heap, env |-> m.env, frame |-> fr]

-----------------------------------------------------------------------------
(* Objects                                                                     *)

(* References that are not in use.                                             *)
FreshRefs(hp, n) ==
  CHOOSE refs \in [1 .. n -> 1 .. Cardinality(DOMAIN hp) + n] :
    /\ \A i \in 1 .. n : refs[i] \notin DOMAIN hp
    /\ \A i, j \in 1 .. n : refs[i] = refs[j] => i = j

PlaceAll(hp, list) ==
  LET refs == FreshRefs(hp, Len(list))
      taken == {refs[i] : i \in 1 .. Len(list)}
  IN [heap |-> [x \in DOMAIN hp \cup taken |->
                  IF x \in DOMAIN hp THEN hp[x] ELSE list[CHOOSE i \in 1 .. Len(list) : refs[i] = x]],
      refs |-> refs]
Place(hp, object) ==
  LET one == PlaceAll(hp, <<object>>) IN [heap |-> one.heap, ref |-> one.refs[1]]

(* copy: elements and fields are copied too.                                   *)
Copy(hp, object) ==
  CASE object.is = "header" -> Place(hp, object)
    [] object.is = "struct" ->
         LET inner == Place(hp, hp[object.field]) IN Place(inner.heap, [object EXCEPT !.field = inner.ref])
    [] OTHER ->
         LET elems == PlaceAll(hp, [k \in 1 .. Elements |-> hp[object.elems[k]]])
         IN Place(elems.heap, [object EXCEPT !.elems = elems.refs])

(* resolve_lvalue, and the reference of a header lvalue (read_lvalue,          *)
(* element_of).                                                                *)
IndexIn(e, lv) == IF lv.index = AtVariable THEN e.i ELSE lv.index
Resolved(e, lv) == [lv EXCEPT !.index = IndexIn(e, lv)]
RefIn(m, lv) ==
  CASE lv.var = "p" -> m.frame.p
    [] lv.var = "h" -> m.env.h
    [] lv.var = "s" -> m.heap[m.env.s].field
    [] OTHER -> IF IndexIn(m.env, lv) < Elements
                THEN m.heap[m.env[lv.var]].elems[IndexIn(m.env, lv) + 1] ELSE NoRef
ObjectAt(m, lv) == IF RefIn(m, lv) = NoRef THEN ZeroObject ELSE m.heap[RefIn(m, lv)]

(* What is no longer referred to is collected.                                 *)
Roots(m) == {m.env.h, m.env.s, m.env.t, m.env.u} \cup (IF m.frame.kind = "call" THEN {m.frame.p} ELSE {})
Inner(object) ==
  CASE object.is = "header" -> {}
    [] object.is = "struct" -> {object.field}
    [] OTHER -> {object.elems[k] : k \in 1 .. Elements}
Reachable(m) == Roots(m) \cup UNION {Inner(m.heap[n]) : n \in Roots(m)}
Become(m) ==
  /\ heap' = [n \in Reachable(m) |-> m.heap[n]]
  /\ env' = m.env /\ frame' = m.frame

(* Store a reference where a header lvalue points: a variable is rebound, a    *)
(* member or an element replaced; past the end nothing happens (write_lvalue). *)
Link(m, lv, ref) ==
  CASE lv.var = "h" -> WithEnv(m, [m.env EXCEPT !.h = ref])
    [] lv.var = "p" -> WithFrame(m, [m.frame EXCEPT !.p = ref])
    [] lv.var = "s" -> WithHeap(m, [m.heap EXCEPT ![m.env.s].field = ref])
    [] OTHER -> IF IndexIn(m.env, lv) < Elements
                THEN WithHeap(m, [m.heap EXCEPT ![m.env[lv.var]].elems[IndexIn(m.env, lv) + 1] = ref]) ELSE m

(* Mutate the header object an lvalue refers to, if it is a stored one.        *)
Mutated(m, lv, object) ==
  IF RefIn(m, lv) = NoRef THEN m ELSE WithHeap(m, [m.heap EXCEPT ![RefIn(m, lv)] = object])
WithField(m, lv, b) == Mutated(m, lv, [ObjectAt(m, lv) EXCEPT !.f = b])

(* Store a new object.                                                         *)
Stored(m, lv, object) ==
  LET new == Copy(m.heap, object) IN Link(WithHeap(m, new.heap), lv, new.ref)

(* Env.for_block: h, s.h, the elements of t and of u, then the struct and the  *)
(* two stacks.                                                                 *)
ObjectsInit ==
  /\ heap = [n \in 1 .. 2 * Elements + 5 |->
               CASE n <= 2 * Elements + 2 -> ZeroObject
                 [] n = 2 * Elements + 3 -> [is |-> "struct", field |-> 2]
                 [] n = 2 * Elements + 4 -> [is |-> "stack", elems |-> [k \in 1 .. Elements |-> k + 2], next |-> 0]
                 [] OTHER -> [is |-> "stack", elems |-> [k \in 1 .. Elements |-> k + 2 + Elements], next |-> 0]]
  /\ env = [h |-> 1, s |-> 2 * Elements + 3, t |-> 2 * Elements + 4, u |-> 2 * Elements + 5, i |-> 0]
  /\ frame = NoFrame /\ stmt = <<"return", 0, 0, 0, 0, 0>> /\ ops = 0

Executes(name, a, b, c, d, e) == stmt' = <<name, a, b, c, d, e>>
Executing(name, a, b) == ops < MaxOps /\ ops' = ops + 1 /\ Executes(name, a, b, 0, 0, 0)

-----------------------------------------------------------------------------
(* Statements                                                                  *)

Assign(lv, source) ==
  /\ Executing("assign", lv, source) /\ Visible(lv) /\ Visible(source)
  /\ Become(Stored(Memory, lv, ObjectAt(Memory, source)))

AssignField(lv, b) == Executing("field", lv, b) /\ Visible(lv) /\ Become(WithField(Memory, lv, b))

AssignStack(x, y) ==
  /\ Executing("stack", x, y)
  /\ LET new == Copy(heap, heap[env[y]]) IN Become(WithEnv(WithHeap(Memory, new.heap), [env EXCEPT ![x] = new.ref]))

AssignVariable(k) == Executing("index", k, 0) /\ Become(WithEnv(Memory, [env EXCEPT !.i = k]))

SetValid(lv, b) ==
  /\ Executing("validity", lv, b) /\ Visible(lv)
  /\ Become(Mutated(Memory, lv, [ObjectAt(Memory, lv) EXCEPT !.valid = b]))

Filled(b) == [ZeroObject EXCEPT !.valid = TRUE, !.f = b]
Extract(lv, b) ==
  /\ Executing("extract", lv, b) /\ ~InAction /\ lv.var # "p"
  /\ Become(Stored(Memory, lv, Filled(b)))

ExtractElement(x, b) ==
  /\ Executing("next", x, b) /\ ~InAction /\ heap[env[x]].next < Elements
  /\ LET new == Place(heap, Filled(b))
         old == heap[env[x]]
         filled == [is |-> "stack", elems |-> [old.elems EXCEPT ![old.next + 1] = new.ref], next |-> old.next + 1]
     IN Become(WithHeap(Memory, [new.heap EXCEPT ![env[x]] = filled]))

(* Fresh zero headers before, or after, the elements that stay.                *)
Smaller(a, b) == IF a < b THEN a ELSE b
Fresh(k) == PlaceAll(heap, [j \in 1 .. k |-> ZeroObject])

PushElements(x, n) ==
  /\ Executing("push", x, n)
  /\ LET k == Smaller(n, Elements)
         old == heap[env[x]]
         fresh == Fresh(k)
         pushed == [is |-> "stack",
                    elems |-> [j \in 1 .. Elements |-> IF j <= k THEN fresh.refs[j] ELSE old.elems[j - k]],
                    next |-> Smaller(old.next + k, Elements)]
     IN Become(WithHeap(Memory, [fresh.heap EXCEPT ![env[x]] = pushed]))

PopElements(x, n) ==
  /\ Executing("pop", x, n)
  /\ LET k == Smaller(n, Elements)
         old == heap[env[x]]
         fresh == Fresh(k)
         popped == [is |-> "stack",
                    elems |-> [j \in 1 .. Elements |->
                                 IF j + k <= Elements THEN old.elems[j + k] ELSE fresh.refs[j + k - Elements]],
                    next |-> IF old.next < k THEN 0 ELSE old.next - k]
     IN Become(WithHeap(Memory, [fresh.heap EXCEPT ![env[x]] = popped]))

(* Fault: the result's target is resolved when it is written.                  *)
CallExternLate(argument, b, k, target, r) ==
  /\ ops < MaxOps /\ ops' = ops + 1 /\ Executes("extern", argument, b, k, target, r) /\ target.var # "p"
  /\ LET m == IF argument = TheIndex THEN WithEnv(Memory, [env EXCEPT !.i = k]) ELSE WithField(Memory, argument, b)
     IN Become(WithField(m, target, r))

(* call_extern: the result's target, then the out argument, are resolved; the  *)
(* out value is written, then the result.                                      *)
CallExtern(argument, b, k, target, r) ==
  /\ ops < MaxOps /\ ops' = ops + 1 /\ Executes("extern", argument, b, k, target, r) /\ target.var # "p"
  /\ LET to == Resolved(env, target)
         m == IF argument = TheIndex THEN WithEnv(Memory, [env EXCEPT !.i = k])
              ELSE WithField(Memory, Resolved(env, argument), b)
     IN Become(WithField(m, to, r))

(* call_action: copy_in, then the body runs over the layered parameters.       *)
CallAction(dir, arg) ==
  /\ Executing("call", dir, arg) /\ ~InAction /\ arg.var # "p"
  /\ LET to == IF dir = "in" THEN arg ELSE Resolved(env, arg)
         new == Copy(heap, IF dir = "out" THEN ZeroObject ELSE ObjectAt(Memory, to))
     IN Become([heap |-> new.heap, env |-> env,
                frame |-> [kind |-> "call", dir |-> dir, arg |-> to, p |-> new.ref]])

(* apply: the keys are read and an action chosen (module Tables); its data are *)
(* immutable values; hit waits.                                                *)
Apply(lv, hit) ==
  /\ Executing("apply", lv, hit) /\ ~InAction /\ lv.var # "p"
  /\ Become(WithFrame(Memory, [kind |-> "apply", lv |-> lv, hit |-> hit]))

Returns == UNCHANGED ops /\ Executes("return", 0, 0, 0, 0, 0)
Left == WithFrame(Memory, NoFrame)

(* The body ends: copy_back, in the block's own scope.                         *)
ReturnCall ==
  /\ frame.kind = "call" /\ Returns
  /\ Become(IF frame.dir = "in" THEN Left ELSE Stored(Left, frame.arg, heap[frame.p]))

(* The end of apply: hit is written through its lvalue as it resolves now.     *)
ReturnApply ==
  /\ frame.kind = "apply" /\ Returns
  /\ Become(WithField(Left, frame.lv, frame.hit))

ObjectsNext ==
  \/ \E lv, source \in HeaderLValues : Assign(lv, source)
  \/ \E lv \in HeaderLValues, b \in Bit : AssignField(lv, b) \/ Extract(lv, b) \/ Apply(lv, b)
  \/ \E x, y \in StackVars : AssignStack(x, y)
  \/ \E k \in 0 .. Elements : AssignVariable(k)
  \/ \E lv \in HeaderLValues, b \in BOOLEAN : SetValid(lv, b)
  \/ \E x \in StackVars, b \in Bit : ExtractElement(x, b)
  \/ \E x \in StackVars, n \in 1 .. Elements + 1 : PushElements(x, n) \/ PopElements(x, n)
  \* bound: the out value and the result of an extern differ
  \/ \E argument, target \in HeaderLValues, b \in {0, 1} :
       argument.var # "p" /\ CallExtern(argument, b, 0, target, 1 - b)
  \/ \E target \in HeaderLValues, k \in 0 .. Elements : CallExtern(TheIndex, 0, k, target, 1)
  \/ \E dir \in {"in", "out", "inout"}, arg \in HeaderLValues : CallAction(dir, arg)
  \/ ReturnCall \/ ReturnApply

ObjectsSpec == ObjectsInit /\ [][ObjectsNext]_objectVars

-----------------------------------------------------------------------------
(* The headers that can be named: variables, members, elements, the parameter. *)
Places(m) ==
  [var : {"h", "s"}, index : {NoSelector}]
    \cup [var : StackVars, index : 0 .. Elements - 1]
    \cup (IF m.frame.kind = "call" THEN {Param} ELSE {})

(* "No two variables ever share storage": no object is referred to from two    *)
(* places, in variables, parameters, fields or elements (write_lvalue, copy).  *)
NoSharing ==
  /\ env.t # env.u
  /\ \A x, y \in Places(Memory) : RefIn(Memory, x) = RefIn(Memory, y) => x = y

(* The values that objects stand for.                                          *)
HeaderIn(hp, ref) == [valid |-> hp[ref].valid, f |-> hp[ref].f]
StackIn(hp, ref) ==
  [elems |-> [k \in 0 .. Elements - 1 |-> HeaderIn(hp, hp[ref].elems[k + 1])], next |-> hp[ref].next]
StoreOf(m) ==
  [h |-> HeaderIn(m.heap, m.env.h), s |-> HeaderIn(m.heap, m.heap[m.env.s].field), i |-> m.env.i,
   t |-> StackIn(m.heap, m.env.t), u |-> StackIn(m.heap, m.env.u)]
FrameOf(m) ==
  IF m.frame.kind = "call"
  THEN [kind |-> "call", dir |-> m.frame.dir, p |-> HeaderIn(m.heap, m.frame.p), arg |-> m.frame.arg]
  ELSE m.frame

(* Objects mutated in place behave as values: the statements implement         *)
(* ValueStore, where nothing is shared and targets are fixed when a call       *)
(* starts (stmt.py, expr.py, values.py, "copy").                               *)
AsValues == INSTANCE ValueStore WITH
  Size <- Elements, LValues <- HeaderLValues, store <- StoreOf(Memory), frame <- FrameOf(Memory)
ActsOnValues == AsValues!Spec
=============================================================================
