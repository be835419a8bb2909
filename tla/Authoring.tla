------------------------------- MODULE Authoring -------------------------------
(* What the eDSL builds against what the validator says of it.  A surface      *)
(* operand is a Python int or bool, or a typed expression: the type the eDSL   *)
(* believes (edsl/core/expr.py), the IR it wrote, as module Expressions types  *)
(* and evaluates it, and the place it names, as the typer types lvalues.  A    *)
(* statement built from operands carries what validator/statements.py reports. *)
EXTENDS Integers, Sequences, SequencesExt, FiniteSets

CONSTANTS
  Fields, HeaderTypes, StructTypes, EnumTypes, Errors, Decls, Envs, IndexBits,  \* as in Expressions
  ReadOnly,     \* the variables that are in parameters
  Ints,         \* Python ints an author writes
  Signatures,   \* parameter lists: sequences of [out, type]
  MaxNodes, MaxOpen   \* bounds: operands built, open at once

VARIABLES env, parser, open, nodes,
  stmt          \* the statement built from the open operands

vars == <<env, parser, open, nodes, stmt>>

E == INSTANCE Expressions WITH Values <- {}, Peeks <- {}, Widths <- {}

NoType == E!NoType
Boolean == E!Boolean
Index32 == E!Bits(IndexBits)

-----------------------------------------------------------------------------
(* Operands                                                                    *)

PyInt(n) == [py |-> "int", v |-> n]
PyBool(b) == [py |-> "bool", truth |-> b]
Refused == [py |-> "EdslError"]
NoNode == [node |-> "absent"]
NoPlace == [access |-> <<>>]

(* codes: the reports the validator makes of the expression for where it       *)
(* stands.                                                                     *)
X(t, node, place, codes) ==
  [py |-> "expr", type |-> t, node |-> node, place |-> place, codes |-> codes, literal |-> FALSE]
Literal(t, node) == [X(t, node, NoPlace, {}) EXCEPT !.literal = TRUE]

(* A place: its access path, the type type_of_lvalue gives it, what that       *)
(* reports, and the same of its stack when it is a stack's next.               *)
Place(access, t, codes) == [access |-> access, type |-> t, codes |-> codes, stack |-> {"not next"}]
Computed == -1

IsExpr(x) == x.py = "expr"
HasPlace(x) == IsExpr(x) /\ x.place # NoPlace
Readable(x) == x.node # NoNode
IsKind(x, kinds) == IsExpr(x) /\ x.type.kind \in kinds

(* A node over operands that are read (Expr.pb).                               *)
Over(xs, t, node) ==
  IF \A i \in DOMAIN xs : xs[i] # Refused /\ Readable(xs[i])
  THEN X(t, node, NoPlace, UNION {xs[i].codes : i \in DOMAIN xs}) ELSE Refused

(* Fault: the value is not held against the width.                             *)
LitUnchecked(x, t) ==
  CASE IsExpr(x) -> IF x.type = t THEN x ELSE Refused
    [] x.py = "bool" -> IF t = Boolean THEN Literal(t, E!BooleanLiteral(x.truth)) ELSE Refused
    [] OTHER -> IF E!IsBits(t) THEN Literal(t, E!BitsLiteral(t.width, x.v)) ELSE Refused

(* literal, and _same: the operand at a type.                                  *)
Lit(x, t) ==
  CASE IsExpr(x) -> IF x.type = t THEN x ELSE Refused
    [] x.py = "bool" -> IF t = Boolean THEN Literal(t, E!BooleanLiteral(x.truth)) ELSE Refused
    [] OTHER -> IF E!IsBits(t) /\ x.v \in 0 .. 2 ^ t.width - 1
                THEN Literal(t, E!BitsLiteral(t.width, x.v)) ELSE Refused

-----------------------------------------------------------------------------
(* Paths                                                                       *)

(* Block.var, and type_of_lvalue of a variable.                                *)
Var(x) ==
  X(Decls[x], E!Var(x),
    IF x \in ReadOnly THEN Place(<<x>>, NoType, {"LVALUE_READONLY"}) ELSE Place(<<x>>, Decls[x], {}), {})

(* The place one step further.                                                 *)
Step(p, step, t, codes) ==
  Place(Append(p.access, step), IF p.type = NoType THEN NoType ELSE t, p.codes \cup codes)

(* field                                                                       *)
Field(x, f) ==
  IF ~IsKind(x, {"header", "struct"}) \/ ~Readable(x) \/ E!FieldIndex(x.type.name, f) = {} THEN Refused
  ELSE LET t == Fields[x.type.name][E!TheField(x.type.name, f)].type
       IN X(t, E!Member(x.node, f), IF HasPlace(x) THEN Step(x.place, f, t, {}) ELSE NoPlace, x.codes)

(* __getitem__: an int index is a bit<32> literal.                             *)
Element(x, key) ==
  LET i == IF IsExpr(key) THEN key ELSE Lit(key, Index32) IN
  IF ~IsKind(x, {"stack"}) \/ i = Refused THEN Refused
  ELSE IF ~IsKind(i, {"bits"}) \/ ~Readable(i) THEN Refused
  ELSE LET t == E!Named("header", x.type.name)
           step == IF i.literal THEN i.node.value.v ELSE Computed
       IN X(t, E!Index(x.node, i.node),
            IF HasPlace(x) THEN Step(x.place, step, t, i.codes) ELSE NoPlace, x.codes \cup i.codes)

(* next: a place only, and for the validator only where extract takes it.      *)
NextOf(x) ==
  IF ~IsKind(x, {"stack"}) \/ ~HasPlace(x) THEN Refused
  ELSE X(E!Named("header", x.type.name), NoNode,
         [Place(Append(x.place.access, Computed), NoType, {"NEXT_ONLY_EXTRACT"}) EXCEPT
            !.stack = x.place.codes], {})

(* last_index is built anywhere; the typer allows it in a parser.              *)
LastIndex(x) ==
  IF ~IsKind(x, {"stack"}) THEN Refused
  ELSE X(Index32, E!LastIndex(x.node), NoPlace, x.codes \cup IF parser THEN {} ELSE {"PARSER_ONLY"})

LastOf(x) == LET i == LastIndex(x) IN IF i = Refused THEN Refused ELSE Element(x, i)

IsValid(x) ==
  IF IsKind(x, {"header"}) THEN Over(<<x>>, Boolean, E!IsValid(x.node)) ELSE Refused

-----------------------------------------------------------------------------
(* Operators                                                                   *)

Bin(op, x, r, t) == Over(<<x, r>>, t, E!Binary(op, x.node, r.node))
Both(op, x, o, kinds, t) == IF IsKind(x, kinds) THEN Bin(op, x, Lit(o, x.type), t) ELSE Refused

(* _arith, _compare, _logic_or_bitwise, __eq__                                 *)
Arith(op, x, o) == Both(op, x, o, {"bits"}, x.type)
Compare(op, x, o) == Both(op, x, o, {"bits"}, Boolean)
LogicOrBitwise(logic, bitwise, x, o) ==
  IF x.type = Boolean THEN Both(logic, x, o, {"boolean"}, Boolean) ELSE Both(bitwise, x, o, {"bits"}, x.type)
Equals(op, x, o) == Bin(op, x, Lit(o, x.type), Boolean)

(* _reflected: the int on the left takes the width of the right.               *)
Reflected(op, n, x) ==
  LET l == Lit(n, x.type) IN IF l = Refused THEN Refused ELSE Arith(op, l, x)

(* _shift: an int amount that does not fit takes the width it needs.           *)
BitLength(n) == CHOOSE w \in 0 .. n : n < 2 ^ w /\ \A s \in 0 .. w - 1 : n >= 2 ^ s
Shift(op, x, o) ==
  IF ~IsKind(x, {"bits"}) THEN Refused
  ELSE LET width == IF o.py = "int" /\ o.v >= 2 ^ x.type.width THEN BitLength(o.v) ELSE x.type.width
           amount == IF IsExpr(o) THEN o ELSE Lit(o, E!Bits(width))
       IN IF IsKind(amount, {"bits"}) THEN Bin(op, x, amount, x.type) ELSE Refused

(* __invert__, __neg__                                                         *)
Invert(x) ==
  IF x.type = Boolean THEN Over(<<x>>, Boolean, E!Unary("not", x.node))
  ELSE IF IsKind(x, {"bits"}) THEN Over(<<x>>, x.type, E!Unary("complement", x.node)) ELSE Refused
Negate(x) == IF IsKind(x, {"bits"}) THEN Over(<<x>>, x.type, E!Unary("negate", x.node)) ELSE Refused

(* cast; as_ asserts a type and writes nothing.                                *)
CastTo(t, x) == IF E!CastAllowed(x.type, t) THEN Over(<<x>>, t, E!Cast(t, x.node)) ELSE Refused
As(t, x) == IF x.type = t THEN x ELSE Refused

(* _slice                                                                      *)
SliceOf(hi, lo, x) ==
  IF IsKind(x, {"bits"}) /\ lo <= hi /\ hi < x.type.width
  THEN Over(<<x>>, E!Bits(hi - lo + 1), E!Slice(hi, lo, x.node)) ELSE Refused

(* concat takes values with a width of their own.                              *)
Concat(l, r) ==
  IF IsKind(l, {"bits"}) /\ IsKind(r, {"bits"})
  THEN Bin("concat", l, r, E!Bits(l.type.width + r.type.width)) ELSE Refused

(* mux: an int branch takes its type from the other.                           *)
MuxOf(c, then, otherwise) ==
  LET t == IF IsExpr(then) THEN then.type ELSE IF IsExpr(otherwise) THEN otherwise.type ELSE NoType
      xs == <<Lit(c, Boolean), Lit(then, t), Lit(otherwise, t)>>
  IN IF t = NoType THEN Refused ELSE Over(xs, t, E!Mux(xs[1].node, xs[2].node, xs[3].node))

-----------------------------------------------------------------------------
(* Statements: what the validator reports, or NoStmt when the eDSL refuses.    *)

NoStmt == [is |-> "none"]
Stmt(is, reports) == [is |-> is, reports |-> reports]

(* The typer's reports of a value, and of a place that is written.             *)
ReportsOf(x) == IF x.node.clean THEN {} ELSE IF x.codes = {} THEN {"TYPE_MISMATCH"} ELSE x.codes
Mismatch(t, u) == IF NoType \in {t, u} \/ t = u THEN {} ELSE {"TYPE_MISMATCH"}
Written(x, t) == x.place.codes \cup Mismatch(x.place.type, t)
Valued(x, t) == ReportsOf(x) \cup Mismatch(x.node.type, t)

(* assign, check_assign                                                        *)
Assign(x, v) ==
  LET r == Lit(v, x.type) IN
  IF ~HasPlace(x) \/ r = Refused THEN NoStmt
  ELSE IF ~Readable(r) THEN NoStmt
  ELSE Stmt("assign", Written(x, r.node.type) \cup ReportsOf(r))

(* Fault: the value is not shifted into place.                                 *)
SplicedLow(x, hi, lo, n) ==
  LET mask == (2 ^ (hi - lo + 1) - 1) * 2 ^ lo
  IN LogicOrBitwise("or", "bit_or",
       LogicOrBitwise("and", "bit_and", x, Invert(Lit(PyInt(mask), x.type))), Lit(PyInt(n), x.type))

(* assign_slice: (target & ~mask) | (value << lo).                             *)
Spliced(x, hi, lo, n) ==
  LET mask == (2 ^ (hi - lo + 1) - 1) * 2 ^ lo
  IN LogicOrBitwise("or", "bit_or",
       LogicOrBitwise("and", "bit_and", x, Invert(Lit(PyInt(mask), x.type))),
       Shift("shl", Lit(PyInt(n), x.type), PyInt(lo)))
AssignSlice(x, hi, lo, n) ==
  IF HasPlace(x) /\ IsKind(x, {"bits"}) /\ lo <= hi /\ hi < x.type.width /\ n < 2 ^ (hi - lo + 1)
  THEN LET r == Spliced(x, hi, lo, n)
       IN [is |-> "slice", reports |-> Written(x, r.node.type) \cup ReportsOf(r),
           before |-> x.node.value, after |-> r.node.value, hi |-> hi, lo |-> lo, n |-> n]
  ELSE NoStmt

(* if_, verify and select's condition at bool; advance at bit<32>.             *)
Takes(is, v, t) ==
  LET r == Lit(v, t) IN
  IF r = Refused THEN NoStmt ELSE IF Readable(r) THEN Stmt(is, Valued(r, t)) ELSE NoStmt

(* set_valid, set_invalid, push, pop, and apply's hit: a place of one kind.    *)
Changes(is, x, kind) == IF IsKind(x, {kind}) /\ HasPlace(x) THEN Stmt(is, x.place.codes) ELSE NoStmt

(* extract, check_extract                                                      *)
Extract(x) ==
  IF ~IsKind(x, {"header"}) \/ ~HasPlace(x) \/ ~parser THEN NoStmt
  ELSE Stmt("extract", IF x.node = NoNode THEN x.place.stack ELSE x.place.codes)

(* emit, check_emit: a struct with a field that is not a header is left to the *)
(* validator.                                                                  *)
RECURSIVE Emittable(_)
Emittable(t) ==
  \/ t.kind \in {"header", "stack"}
  \/ t.kind = "struct" /\ \A i \in DOMAIN Fields[t.name] : Emittable(Fields[t.name][i].type)
Emit(x) ==
  IF ~IsKind(x, {"header", "struct", "stack"}) \/ parser THEN NoStmt
  ELSE IF ~Readable(x) THEN NoStmt
  ELSE Stmt("emit", ReportsOf(x) \cup IF Emittable(x.type) THEN {} ELSE {"EMIT"})

(* may_alias                                                                   *)
MayAlias(a, b) ==
  \A i \in DOMAIN a \cap DOMAIN b : a[i] = b[i] \/ (i > 1 /\ Computed \in {a[i], b[i]})

(* _args, check_args: an out argument is a place of the parameter's type, any  *)
(* other a value at it; two places that may be the same are reported.          *)
Call(params, args) ==
  LET at(i) == IF params[i].out THEN args[i] ELSE Lit(args[i], params[i].type)
      taken(i) == IF params[i].out THEN HasPlace(args[i]) /\ args[i].type = params[i].type
                  ELSE IF at(i) = Refused THEN FALSE ELSE Readable(at(i))
      outs == {i \in DOMAIN params : params[i].out}
  IN IF \E i \in DOMAIN params : ~taken(i) THEN NoStmt
     ELSE Stmt("call", UNION {IF i \in outs THEN Written(at(i), params[i].type)
                              ELSE Valued(at(i), params[i].type) : i \in DOMAIN params}
                       \cup IF \E i, j \in outs : i < j /\ MayAlias(args[i].place.access, args[j].place.access)
                            THEN {"CALL_ALIAS"} ELSE {})

(* select over one key and one case; keyset, check_key_set.                    *)
Scalars == {"bits", "boolean", "enum_type", "error"}
Select(key, kind, sets) ==
  LET lits == [i \in DOMAIN sets |-> Lit(sets[i], key.type)] IN
  IF ~Readable(key) \/ (kind # "exact" /\ ~IsKind(key, {"bits"})) \/ Refused \in Range(lits) THEN NoStmt
  ELSE IF \E i \in DOMAIN lits : ~lits[i].literal THEN NoStmt
  ELSE Stmt("select", ReportsOf(key)
         \cup (IF key.node.type.kind \in Scalars \cup {"none"} THEN {} ELSE {"SELECT_KEY"})
         \cup UNION {Valued(lits[i], key.node.type) : i \in DOMAIN lits})

(* A const entry for one key: _key_value, key_pattern.                         *)
BitAt(v, i) == (v \div 2 ^ i) % 2
Outside(v, mask, w) == \E i \in 0 .. w - 1 : BitAt(v, i) = 1 /\ BitAt(mask, i) = 0
Entry(key, match, v, m) ==
  LET w == key.type.width
      full == 2 ^ w - 1
      mask == CASE match = "exact" -> full [] match = "ternary" -> m [] OTHER -> full - (2 ^ (w - m) - 1)
  IN IF ~IsKind(key, {"bits"}) \/ ~Readable(key) THEN NoStmt
     ELSE IF v > full \/ (match = "lpm" /\ m > w) \/ (match = "ternary" /\ m > full) THEN NoStmt
     ELSE Stmt("entry", ReportsOf(key) \cup (IF E!IsBits(key.node.type) THEN {} ELSE {"KEY_TYPE"})
                        \cup (IF key.node.type = E!Bits(w) THEN {} ELSE {"ENTRY_RANGE"})
                        \cup (IF Outside(v, mask, w) THEN {"OUTSIDE_MASK"} ELSE {}))

-----------------------------------------------------------------------------
(* zero_stmts: the value a place of a type has after them; the frontend's zero *)
(* is the same elaboration.                                                    *)
ZeroScalar(t) ==
  CASE t.kind = "error" -> [kind |-> "error", v |-> "NoError"]
    [] t.kind = "enum_type" -> [kind |-> "enum_type", name |-> t.name, v |-> EnumTypes[t.name][1]]
    [] OTHER -> E!ZeroScalar(t)

PopFront(x, n) ==
  LET size == Len(x.elements) IN
  [x EXCEPT !.elements = [i \in 1 .. size |-> IF i + n <= size THEN @[i + n] ELSE E!ZeroHeader(x.name)],
            !.next = IF @ > n THEN @ - n ELSE 0]

RECURSIVE Zeroed(_, _)
Zeroed(x, t) ==
  CASE t.kind = "header" ->
         [x EXCEPT !.valid = FALSE, !.fields = [i \in DOMAIN @ |-> Zeroed(@[i], Fields[t.name][i].type)]]
    [] t.kind = "struct" -> [x EXCEPT !.fields = [i \in DOMAIN @ |-> Zeroed(@[i], Fields[t.name][i].type)]]
    [] t.kind = "stack" -> PopFront(x, t.size)
    [] OTHER -> ZeroScalar(t)

(* zero (interp/values.py)                                                     *)
RECURSIVE ZeroValue(_)
ZeroValue(t) ==
  CASE t.kind = "struct" ->
         [kind |-> "struct", name |-> t.name,
          fields |-> [i \in DOMAIN Fields[t.name] |-> ZeroValue(Fields[t.name][i].type)]]
    [] t.kind = "header" -> E!ZeroHeader(t.name)
    [] t.kind = "stack" -> [kind |-> "stack", name |-> t.name,
                            elements |-> [i \in 1 .. t.size |-> E!ZeroHeader(t.name)], next |-> 0]
    [] OTHER -> ZeroScalar(t)

-----------------------------------------------------------------------------
Init == env \in Envs /\ parser \in BOOLEAN /\ open = <<>> /\ nodes = 0 /\ stmt = NoStmt

At(k) == open[Len(open) - k + 1]
Build(k, x) ==
  /\ x # Refused /\ stmt = NoStmt
  /\ nodes < MaxNodes /\ nodes' = nodes + 1
  /\ open' = Append(SubSeq(open, 1, Len(open) - k), x)
  /\ UNCHANGED <<env, parser, stmt>>

Types == {E!Bits(1), E!Bits(2), Boolean}
Leaf ==
  /\ Len(open) < MaxOpen
  /\ \/ \E n \in Ints : Build(0, PyInt(n))
     \/ \E b \in BOOLEAN : Build(0, PyBool(b))
     \/ \E x \in DOMAIN Decls : Build(0, Var(x))
     \/ Build(0, Literal(E!Bits(2), E!BitsLiteral(2, 1)))                           \* bit2(1)
     \/ \E e \in DOMAIN EnumTypes : Build(0, Literal(E!Named("enum_type", e), E!EnumLiteral(e, EnumTypes[e][1])))
     \/ Build(0, Literal(E!Plain("error"), E!ErrorLiteral("NoError")))

Unary ==
  /\ Len(open) >= 1 /\ IsExpr(At(1))
  /\ \/ \E f \in {"f", "g"} : Build(1, Field(At(1), f))
     \/ \E x \in {NextOf(At(1)), LastIndex(At(1)), LastOf(At(1)), IsValid(At(1)), Invert(At(1)), Negate(At(1))} :
          Build(1, x)
     \/ \E t \in Types : Build(1, CastTo(t, At(1))) \/ Build(1, As(t, At(1)))
     \/ \E hi, lo \in 0 .. 2 : Build(1, SliceOf(hi, lo, At(1)))

Binary ==
  /\ Len(open) >= 2
  /\ \/ /\ IsExpr(At(2))
        /\ \/ Build(2, Element(At(2), At(1)))
           \/ \E op \in {"add", "sub", "mul", "add_sat", "sub_sat", "bit_xor"} : Build(2, Arith(op, At(2), At(1)))
           \/ \E op \in {"lt", "le", "gt", "ge"} : Build(2, Compare(op, At(2), At(1)))
           \/ Build(2, LogicOrBitwise("and", "bit_and", At(2), At(1)))
           \/ Build(2, LogicOrBitwise("or", "bit_or", At(2), At(1)))
           \/ \E op \in {"shl", "shr"} : Build(2, Shift(op, At(2), At(1)))
           \/ \E op \in {"eq", "ne"} : Build(2, Equals(op, At(2), At(1)))
           \/ Build(2, Concat(At(2), At(1)))
     \/ At(2).py = "int" /\ IsExpr(At(1)) /\ \E op \in {"add", "sub", "mul"} : Build(2, Reflected(op, At(2), At(1)))

Ternary == Len(open) >= 3 /\ Build(3, MuxOf(At(3), At(2), At(1)))

Record(s) == s # NoStmt /\ stmt' = s /\ UNCHANGED <<env, parser, open, nodes>>

Operand(n) == stmt = NoStmt /\ Len(open) = n
Statement ==
  \/ Operand(1) /\ \E s \in {Takes("if", At(1), Boolean), Takes("verify", At(1), Boolean),
                             Takes("advance", At(1), Index32)} : Record(s)
  \/ Operand(1) /\ IsExpr(At(1)) /\
       \/ \E s \in {Changes("set_valid", At(1), "header"), Changes("push", At(1), "stack"),
                    Changes("hit", At(1), "boolean"), Extract(At(1)), Emit(At(1))} : Record(s)
       \/ \E hi, lo \in 0 .. 2, n \in Ints : Record(AssignSlice(At(1), hi, lo, n))
       \/ \E match \in {"exact", "lpm", "ternary"}, v, m \in Ints : Record(Entry(At(1), match, v, m))
  \/ Operand(2) /\ IsExpr(At(2)) /\
       \/ Record(Assign(At(2), At(1)))
       \/ \E kind \in {"exact", "masked", "range"} :
            Record(Select(At(2), kind, IF kind = "exact" THEN <<At(1)>> ELSE <<At(1), At(1)>>))
  \/ \E params \in Signatures : Operand(Len(params)) /\ Record(Call(params, open))

Next == Leaf \/ Unary \/ Binary \/ Ternary \/ Statement
Spec == Init /\ [][Next]_vars

-----------------------------------------------------------------------------
TypeOK == env \in Envs /\ parser \in BOOLEAN /\ nodes \in 0 .. MaxNodes /\ Len(open) \in 0 .. MaxOpen

(* What the validator has to say about where an expression or a place stands,  *)
(* which the eDSL leaves to it.                                                *)
LeftToTheValidator ==
  {"PARSER_ONLY", "NEXT_ONLY_EXTRACT", "LVALUE_READONLY", "CALL_ALIAS", "EMIT", "SELECT_KEY", "OUTSIDE_MASK"}

(* The eDSL and the typer give every expression the same type, and the typer   *)
(* has nothing else to say about it; every statement the eDSL records is one   *)
(* the validator accepts, or one it reports for where it stands and never for  *)
(* a type, a width, a range or an arity (core/types.py, EdslError; expr.py,    *)
(* "no cast is ever inserted").                                                *)
BuiltIsWellTyped ==
  /\ \A x \in {y \in Range(open) : IsExpr(y)} :
       x.node # NoNode => /\ x.node.type = x.type /\ (x.node.clean <=> x.codes = {})
                          /\ x.place \in {NoPlace} \cup {p \in {x.place} : p # NoPlace /\ p.type \in {NoType, x.type}}
  /\ stmt # NoStmt => stmt.reports \subseteq LeftToTheValidator

(* An elaborated statement does what P4 means by it: assign_slice changes the  *)
(* bits it names and no other, and the statements that make a local start      *)
(* afresh leave it at the value its type starts with, whatever it held         *)
(* (assign_slice; zero_stmts, "the IR's zero value").                          *)
ElaboratedMeans ==
  /\ stmt.is = "slice" =>
       \A i \in 0 .. stmt.before.width - 1 :
         BitAt(stmt.after.v, i) =
           IF i \in stmt.lo .. stmt.hi THEN BitAt(stmt.n, i - stmt.lo) ELSE BitAt(stmt.before.v, i)
  /\ \A x \in DOMAIN Decls : Zeroed(env[x], Decls[x]) = ZeroValue(Decls[x])
=============================================================================
