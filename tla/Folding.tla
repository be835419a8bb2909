------------------------------- MODULE Folding -------------------------------
(* frontend/blocks.py, fold and expr: P4's compile-time known expressions      *)
(* become IR literals.  The IR has no int, no division, no named constants and *)
(* no hs.size; only these are folded, all else keeps its shape.  A typed P4    *)
(* expression is built bottom-up; a node has what the frontend computes for it *)
(* and what P4 says it means, and the IR it becomes is a node of Expressions,  *)
(* so the validator's verdict and the interpreter's value come with it.        *)
EXTENDS Integers, Sequences

CONSTANTS
  Decls,      \* Decls[x]: the type of the variable x
  Envs,       \* values for the variables
  Constants,  \* the values of named constants and enum members
  Ints,       \* unsized literals
  Widths,     \* widths of sized literals and casts
  SizeBits,   \* the width of an index, and of hs.size (32)
  MaxShift,   \* bound: the amounts an expression shifts by
  MaxNodes, MaxOpen   \* bounds: nodes built, operands open at once

VARIABLES
  env,     \* the environment
  open,    \* nodes built and not yet an operand
  nodes    \* nodes built so far

vars == <<env, open, nodes>>

IR == INSTANCE Expressions WITH
        Fields <- <<>>, HeaderTypes <- {}, StructTypes <- {}, EnumTypes <- <<>>, Errors <- {},
        Values <- {}, Peeks <- {}, IndexBits <- SizeBits, parser <- FALSE

(* Values; a node without a compile-time value, a meaning or a translation.    *)
Unsized == IR!Plain("int")
IsInt(t) == t.kind = "int"
IntVal(v) == [kind |-> "int", width |-> 0, v |-> v]
None == IR!Plain("none")
Undefined == IR!Plain("undefined")
Refused == [type |-> IR!NoType, clean |-> FALSE, value |-> IR!Plain("refused")]
IsRefused(ir) == ir.value.kind = "refused"
Number(x) == x.kind \in {"int", "bits"}
Boolean(x) == x.kind = "boolean"

-----------------------------------------------------------------------------
(* What P4 means: operators on numbers, the result at the type's width.        *)

Reduce(t, v) == IF IsInt(t) THEN IntVal(v) ELSE IR!Wrap(t.width, v)
Clamp(w, v) == IR!BitsValue(w, IR!Least(IR!Greatest(v, 0), 2 ^ w - 1))
P4Divides(x, y) == x >= 0 /\ y > 0
P4Number(op, t, x, y) ==
  CASE op = "add" -> Reduce(t, x + y)
    [] op = "sub" -> Reduce(t, x - y)
    [] op = "mul" -> Reduce(t, x * y)
    [] op = "add_sat" -> Clamp(t.width, x + y)
    [] op = "sub_sat" -> Clamp(t.width, x - y)
    [] op = "shl" -> Reduce(t, x * 2 ^ y)
    [] op = "shr" -> Reduce(t, x \div 2 ^ y)
    [] op = "div" -> IF P4Divides(x, y) THEN Reduce(t, x \div y) ELSE Undefined
    [] op = "mod" -> IF P4Divides(x, y) THEN Reduce(t, x % y) ELSE Undefined
    [] op = "bit_and" -> Reduce(t, IR!BitByBit(op, MaxShift, x, y))
P4Binary(op, t, x, y) ==
  CASE Undefined \in {x, y} -> Undefined
    [] op \in {"eq", "ne"} -> IR!Bool((x.v = y.v) = (op = "eq"))
    [] op \in IR!Orders -> IR!Bool(IR!Ordered(op, x.v, y.v))
    [] op = "and" -> IR!Bool(x.v /\ y.v)
    [] op = "or" -> IR!Bool(x.v \/ y.v)
    [] op = "concat" -> IR!BitsValue(t.width, x.v * 2 ^ y.width + y.v)
    [] OTHER -> P4Number(op, t, x.v, y.v)
P4Unary(op, t, x) ==
  CASE x = Undefined -> Undefined
    [] op = "not" -> IR!Bool(~x.v)
    [] op = "complement" -> IR!BitsValue(t.width, 2 ^ t.width - 1 - x.v)
    [] op = "negate" -> Reduce(t, -x.v)
    [] op = "plus" -> x
P4Cast(to, x) ==
  CASE x = Undefined -> Undefined
    [] Boolean(x) -> IF Boolean(to) THEN x ELSE Reduce(to, IF x.v THEN 1 ELSE 0)
    [] OTHER -> IF Boolean(to) THEN IR!Bool(x.v = 1) ELSE Reduce(to, x.v)
P4Slice(hi, lo, x) ==
  IF x = Undefined THEN x ELSE IR!Wrap(hi - lo + 1, x.v \div 2 ^ lo)

-----------------------------------------------------------------------------
(* Compile-time values: cast_val, _unop, _binop.                               *)

CastVal(v, t) ==
  CASE v = None -> None
    [] t.kind = "bits" /\ Number(v) -> IR!Wrap(t.width, v.v)
    [] t.kind = "bits" /\ Boolean(v) /\ t.width = 1 -> IR!BitsValue(1, IF v.v THEN 1 ELSE 0)
    [] t.kind = "boolean" /\ Boolean(v) -> v
    [] t.kind = "boolean" /\ v.kind = "bits" /\ v.width = 1 -> IR!Bool(v.v = 1)
    [] t.kind = "int" /\ Number(v) -> IntVal(v.v)
    [] OTHER -> None

FoldUnary(op, v) ==
  CASE op = "not" /\ Boolean(v) -> IR!Bool(~v.v)
    [] op = "complement" /\ v.kind = "bits" -> IR!Wrap(v.width, -v.v - 1)
    [] op = "negate" /\ v.kind = "bits" -> IR!Wrap(v.width, -v.v)
    [] op = "negate" /\ IsInt(v) -> IntVal(-v.v)
    [] op = "plus" /\ Number(v) -> v
    [] OTHER -> None

FoldInt(op, x, y) ==
  CASE op = "add" -> IntVal(x + y)
    [] op = "sub" -> IntVal(x - y)
    [] op = "mul" -> IntVal(x * y)
    [] op = "div" /\ x >= 0 /\ y > 0 -> IntVal(x \div y)
    [] op = "mod" /\ x >= 0 /\ y > 0 -> IntVal(x % y)
    [] op = "shl" -> IntVal(x * 2 ^ y)
    [] op = "shr" -> IntVal(x \div 2 ^ y)
    [] op = "bit_and" -> IntVal(IR!BitByBit(op, MaxShift, x, y))
    [] op \in IR!Orders -> IR!Bool(IR!Ordered(op, x, y))
    [] OTHER -> None

FoldBits(op, a, b) ==
  LET w == a.width
      max == 2 ^ w - 1
  IN CASE op = "shl" -> IF b.v < w THEN IR!Wrap(w, a.v * 2 ^ b.v) ELSE IR!BitsValue(w, 0)
       [] op = "shr" -> IR!BitsValue(w, a.v \div 2 ^ b.v)
       [] IsInt(b) -> None
       [] op = "concat" -> IR!BitsValue(w + b.width, a.v * 2 ^ b.width + b.v)
       [] a.width # b.width -> None
       [] op = "add" -> IR!Wrap(w, a.v + b.v)
       [] op = "sub" -> IR!Wrap(w, a.v - b.v)
       [] op = "mul" -> IR!Wrap(w, a.v * b.v)
       [] op = "add_sat" -> IR!BitsValue(w, IR!Least(a.v + b.v, max))
       [] op = "sub_sat" -> IR!BitsValue(w, IR!Greatest(a.v - b.v, 0))
       [] op = "div" /\ b.v # 0 -> IR!BitsValue(w, a.v \div b.v)
       [] op = "mod" /\ b.v # 0 -> IR!BitsValue(w, a.v % b.v)
       [] op = "bit_and" -> IR!BitsValue(w, IR!BitByBit(op, w, a.v, b.v))
       [] op \in IR!Orders -> IR!Bool(IR!Ordered(op, a.v, b.v))
       [] OTHER -> None

FoldBinary(op, a, b) ==
  CASE op \in {"eq", "ne"} -> IR!Bool((a = b) = (op = "eq"))
    [] Boolean(a) /\ Boolean(b) -> IR!Bool(IF op = "and" THEN a.v /\ b.v ELSE a.v \/ b.v)
    [] IsInt(a) /\ IsInt(b) -> FoldInt(op, a.v, b.v)
    [] a.kind = "bits" /\ Number(b) -> FoldBits(op, a, b)
    [] OTHER -> None

(* _fold of a binary expression: a decided && or || asks no further.           *)
Folded(op, a, b) ==
  CASE a = None -> None
    [] op = "and" /\ Boolean(a) /\ ~a.v -> a
    [] op = "or" /\ Boolean(a) /\ a.v -> a
    [] b = None -> None
    [] OTHER -> FoldBinary(op, a, b)

-----------------------------------------------------------------------------
(* A node: its P4 type, whether it is compile-time known, its value if so,     *)
(* whether expr must fold it, its IR, the type _Widths reads off that, and its *)
(* meaning.                                                                    *)

(* literal_of: none for an int.                                                *)
Literal(v) ==
  CASE v.kind = "bits" -> IR!BitsLiteral(v.width, v.v)
    [] Boolean(v) -> IR!BooleanLiteral(v.v)
    [] OTHER -> Refused

TypeOf(v) == CASE IsInt(v) -> Unsized [] Boolean(v) -> IR!Boolean [] OTHER -> IR!Bits(v.width)
Node(t, known, must, value, plain, key, means) ==
  LET fold == IF known THEN value ELSE None
      folded == must /\ fold # None /\ ~IsInt(t)
  IN [t |-> t, known |-> known, fold |-> fold, means |-> means,
      ir |-> IF folded THEN Literal(fold) ELSE plain,
      key |-> IF folded THEN TypeOf(fold) ELSE key]

Known(v, must, plain) == Node(TypeOf(v), TRUE, must, v, plain, TypeOf(v), v)
WLit(w, v) == Known(IR!Wrap(w, v), FALSE, Literal(IR!Wrap(w, v)))
ILit(v) == Known(IntVal(v), FALSE, Refused)
BLit(b) == Known(IR!Bool(b), FALSE, IR!BooleanLiteral(b))
Constant(v) == Known(v, TRUE, Literal(v))
StackSize(n) == Known(IR!Wrap(SizeBits, n), TRUE, Refused)
Var(x) == Node(Decls[x], FALSE, FALSE, None, IR!Var(x), Decls[x], env[x])

(* _cast: between widths, and between bool and bit<1>.                         *)
CastIR(to, n) ==
  CASE IsRefused(n.ir) \/ IsInt(to) -> Refused
    [] to = n.t -> n.ir
    [] IR!CastAllowed(n.t, to) -> IR!Cast(to, n.ir)
    [] OTHER -> Refused
Cast(to, n) ==
  Node(to, n.known, IsInt(n.t), CastVal(n.fold, to), CastIR(to, n), to, P4Cast(to, n.means))

UnaryIR(op, n) ==
  CASE IsRefused(n.ir) -> Refused [] op = "plus" -> n.ir [] OTHER -> IR!Unary(op, n.ir)
Unary(op, n) ==
  Node(n.t, n.known, IsInt(n.t), IF n.fold = None THEN None ELSE FoldUnary(op, n.fold),
       UnaryIR(op, n), n.key, P4Unary(op, n.t, n.means))

BitLength(v) == CHOOSE n \in 1 .. 2 * MaxShift : v < 2 ^ n /\ (n = 1 \/ v >= 2 ^ (n - 1))

(* Fault: an amount is cut at the width of what is shifted.                    *)
ShiftAmountCut(v, w) == IR!BitsLiteral(w, v % 2 ^ w)

(* _shift_amount: at the width of what is shifted, or just wide enough.        *)
ShiftAmount(v, w) == IR!BitsLiteral(IF v < 2 ^ w THEN w ELSE BitLength(v), v)

(* _binary                                                                     *)
BinaryIR(op, l, r) ==
  CASE op \in {"div", "mod"} \/ IsRefused(l.ir) -> Refused
    [] op \in IR!Shifts /\ r.fold # None /\ IsInt(r.fold) ->
         IR!Binary(op, l.ir, ShiftAmount(r.fold.v, l.t.width))
    [] IsRefused(r.ir) -> Refused
    [] OTHER -> IR!Binary(op, l.ir, r.ir)
(* _Widths: the type of a table key, read off the IR expression.               *)
BinaryKey(op, l, r) ==
  CASE op = "concat" -> IR!Bits(l.key.width + r.key.width)
    [] op \in {"eq", "ne"} \cup IR!Orders \cup IR!Logical -> IR!Boolean
    [] OTHER -> l.key
BinaryOf(op, t, l, r) ==
  Node(t, l.known /\ r.known, op \in {"div", "mod"} \/ IsInt(l.t) \/ IsInt(r.t),
       Folded(op, l.fold, r.fold), BinaryIR(op, l, r), BinaryKey(op, l, r), P4Binary(op, t, l.means, r.means))

MuxIR(c, a, b) ==
  IF \E n \in {c, a, b} : IsRefused(n.ir) THEN Refused ELSE IR!Mux(c.ir, a.ir, b.ir)
Mux(c, a, b) ==
  Node(a.t, c.known /\ a.known /\ b.known, IsInt(a.t) \/ IsInt(b.t),
       IF c.fold = None THEN None ELSE IF c.fold.v THEN a.fold ELSE b.fold,
       MuxIR(c, a, b), a.key,
       IF Undefined \in {c.means, a.means, b.means} THEN Undefined
       ELSE IF c.means.v THEN a.means ELSE b.means)

Slice(hi, lo, n) ==
  Node(IR!Bits(hi - lo + 1), n.known, FALSE,
       IF n.fold = None THEN None
       ELSE IR!BitsValue(hi - lo + 1, (n.fold.v \div 2 ^ lo) % 2 ^ (hi - lo + 1)),
       IF IsRefused(n.ir) THEN Refused ELSE IR!Slice(hi, lo, n.ir),
       IR!Bits(hi - lo + 1), P4Slice(hi, lo, n.means))

(* index: an unsized constant at the width of lastIndex.                       *)
Index(n) ==
  [n EXCEPT !.t = IF IsInt(@) THEN IR!Bits(SizeBits) ELSE @,
            !.ir = IF n.fold # None /\ IsInt(n.fold) THEN IR!BitsLiteral(SizeBits, n.fold.v) ELSE @,
            !.fold = None,
            !.means = IF @ # Undefined /\ IsInt(@) THEN IR!BitsValue(SizeBits, @.v) ELSE @]

-----------------------------------------------------------------------------
(* The expressions P4 types, once implicit casts are written out.              *)

Arithmetic == {"add", "sub", "mul", "div", "mod", "bit_and"}
Saturating == {"add_sat", "sub_sat"}
Typed(op, l, r) ==
  CASE op \in Arithmetic -> IF l = r /\ Number(l) THEN l ELSE None
    [] op \in Saturating -> IF l = r /\ l.kind = "bits" THEN l ELSE None
    [] op \in IR!Shifts -> IF (l.kind = "bits" /\ Number(r)) \/ (IsInt(l) /\ IsInt(r)) THEN l ELSE None
    [] op = "concat" -> IF l.kind = "bits" /\ r.kind = "bits" THEN IR!Bits(l.width + r.width) ELSE None
    [] op \in {"eq", "ne"} -> IF l = r THEN IR!Boolean ELSE None
    [] op \in IR!Orders -> IF l = r /\ Number(l) THEN IR!Boolean ELSE None
    [] op \in IR!Logical -> IF Boolean(l) /\ Boolean(r) THEN IR!Boolean ELSE None
Ops == Arithmetic \cup Saturating \cup IR!Shifts \cup {"concat", "eq", "ne"} \cup IR!Orders \cup IR!Logical

(* Amounts are not negative, and bitwise operands of int neither.              *)
Bounded(op, l, r) ==
  /\ op \in IR!Shifts /\ r.means # Undefined => r.means.v \in 0 .. MaxShift
  /\ op = "bit_and" /\ IsInt(l.t) =>
       \A n \in {l, r} : n.means # Undefined => n.means.v \in 0 .. 2 ^ MaxShift - 1

UnaryTyped(op, t) ==
  CASE op = "not" -> Boolean(t) [] op = "complement" -> t.kind = "bits" [] OTHER -> Number(t)
CastTyped(to, t) ==
  \/ Number(t) /\ Number(to)
  \/ Boolean(t) /\ (to = IR!Bits(1) \/ Boolean(to))
  \/ t = IR!Bits(1) /\ Boolean(to)
CastTypes == {IR!Bits(w) : w \in Widths} \cup {IR!Boolean, Unsized}

Init == env \in Envs /\ open = <<>> /\ nodes = 0

Build(k, node) ==
  /\ nodes < MaxNodes /\ nodes' = nodes + 1 /\ Len(open) >= k
  /\ open' = Append(SubSeq(open, 1, Len(open) - k), node)
  /\ UNCHANGED env
Last(k) == open[Len(open) - k + 1]

Leaf ==
  /\ Len(open) < MaxOpen
  /\ \/ \E w \in Widths, v \in Ints : v >= 0 /\ Build(0, WLit(w, v))
     \/ \E v \in Ints : Build(0, ILit(v))
     \/ Build(0, BLit(TRUE))
     \/ \E x \in DOMAIN Decls : Build(0, Var(x))
     \/ \E v \in Constants : Build(0, Constant(v))
     \/ Build(0, StackSize(2))

FoldCast == Len(open) >= 1 /\ \E to \in CastTypes : CastTyped(to, Last(1).t) /\ Build(1, Cast(to, Last(1)))
FoldUnaryOf ==
  /\ Len(open) >= 1
  /\ \E op \in {"not", "complement", "negate", "plus"} :
       UnaryTyped(op, Last(1).t) /\ Build(1, Unary(op, Last(1)))
FoldSlice ==
  /\ Len(open) >= 1 /\ Last(1).t.kind = "bits"
  /\ \E hi, lo \in 0 .. Last(1).t.width - 1 : lo <= hi /\ Build(1, Slice(hi, lo, Last(1)))
FoldBinaryOf ==
  /\ Len(open) >= 2
  /\ \E op \in Ops :
       LET t == Typed(op, Last(2).t, Last(1).t)
       IN t # None /\ Bounded(op, Last(2), Last(1)) /\ Build(2, BinaryOf(op, t, Last(2), Last(1)))
FoldMux ==
  /\ Len(open) >= 3 /\ Boolean(Last(3).t) /\ Last(2).t = Last(1).t
  /\ Build(3, Mux(Last(3), Last(2), Last(1)))

Next == Leaf \/ FoldCast \/ FoldUnaryOf \/ FoldSlice \/ FoldBinaryOf \/ FoldMux
Spec == Init /\ [][Next]_vars

-----------------------------------------------------------------------------
(* An expression that is translated is valid IR of the type P4 gives it, and   *)
(* evaluates to what it means, as does every compile-time value; a table key   *)
(* of it is given its width; and what is known, of a type the IR has, is never *)
(* refused.                                                                    *)
FoldedMeans ==
  \A i \in DOMAIN open :
    LET n == open[i]
        x == IF Number(n.t) /\ (n.means = Undefined \/ n.means.v \in 0 .. 2 ^ SizeBits - 1) THEN Index(n) ELSE n
    IN /\ n.fold # None => n.fold = n.means
       /\ \A e \in {n, x} : ~IsRefused(e.ir) =>
            e.ir.clean /\ e.ir.type = e.t /\ e.ir.value = e.means
       /\ ~IsRefused(n.ir) => n.key = n.ir.type
       /\ n.known /\ ~IsInt(n.t) /\ n.means # Undefined => ~IsRefused(n.ir)
=============================================================================
