----------------------------- MODULE Expressions -----------------------------
(* The typer (validator/typer.py) and the evaluator (interp/expr.py) on the    *)
(* same expression, built bottom-up: every node has the type the typer gives   *)
(* it, whether anything was reported on the way, and the value it evaluates    *)
(* to.  A bit<w> value is a number and its width, as Bits keeps them.          *)
EXTENDS Numbers, Sequences, FiniteSets

CONSTANTS
  Fields,      \* Fields[t]: names and types of the fields of header or struct t
  HeaderTypes, StructTypes, EnumTypes,   \* EnumTypes[e]: its members, in order
  Errors,      \* Program.errors
  Decls,       \* Decls[x]: type of the variable x
  Values,      \* what a variable, a field or an element may hold
  Envs,        \* run-time environments: a value of its type for each variable
  Peeks,       \* raw packet bits a lookahead may find
  Widths,      \* widths, valid and not, that literals, casts and slices name
  IndexBits,   \* the width of lastIndex (32)
  MaxNodes, MaxOpen   \* bounds: nodes built, operands open at once

VARIABLES
  env,      \* the environment
  parser,   \* does the expression stand in a parser?
  open,     \* nodes built and not yet an operand
  nodes     \* nodes built so far

exprVars == <<env, parser, open, nodes>>

-----------------------------------------------------------------------------
(* Types and values                                                            *)

Bits(w) == [kind |-> "bits", width |-> w]
Plain(kind) == [kind |-> kind]
Named(kind, name) == [kind |-> kind, name |-> name]
StackOf(header, size) == [kind |-> "stack", name |-> header, size |-> size]
Boolean == Plain("boolean")
NoType == Plain("none")
InterpError == Plain("InterpError")

IsBits(t) == t.kind = "bits"
IsBoolean(t) == t.kind = "boolean"

BitsValue(w, v) == [kind |-> "bits", width |-> w, v |-> v]
Bool(b) == [kind |-> "boolean", v |-> b]
Wrap(w, v) == BitsValue(w, v % Pow2(w))

(* The type a run-time value has, of itself (isinstance, and its own fields).  *)
TypeOfValue(x) ==
  CASE x.kind = "bits" -> Bits(x.width)
    [] x.kind = "boolean" -> Boolean
    [] x.kind = "error" -> Plain("error")
    [] x.kind \in {"header", "struct", "enum_type"} -> Named(x.kind, x.name)
    [] x.kind = "stack" -> StackOf(x.name, Len(x.elements))
    [] OTHER -> NoType

(* A value of its own type; Bits keeps 0 <= value < 2 ** width and width >= 1.  *)
Fits(x) ==
  CASE x.kind = "bits" -> x.width \in Nat \ {0} /\ x.v \in 0 .. Pow2(x.width) - 1
    [] x.kind = "boolean" -> x.v \in BOOLEAN
    [] x.kind = "error" -> x.v \in Errors
    [] x.kind = "enum_type" -> \E i \in DOMAIN EnumTypes[x.name] : EnumTypes[x.name][i] = x.v
    [] OTHER -> TRUE
HasFields(x) ==
  /\ DOMAIN x.fields = DOMAIN Fields[x.name]
  /\ \A i \in DOMAIN x.fields : Fits(x.fields[i]) /\ TypeOfValue(x.fields[i]) = Fields[x.name][i].type
IsHeader(x, name) == x.kind = "header" /\ x.name = name /\ x.valid \in BOOLEAN /\ HasFields(x)
HasType(x, t) ==
  /\ TypeOfValue(x) = t
  /\ CASE x.kind = "header" -> IsHeader(x, x.name)
       [] x.kind = "struct" -> HasFields(x)
       [] x.kind = "stack" -> /\ x.next \in 0 .. Len(x.elements)
                              /\ \A i \in 1 .. Len(x.elements) : IsHeader(x.elements[i], x.name)
       [] OTHER -> Fits(x)

(* zero, for the types a header's field may have.                              *)
ZeroScalar(t) == IF IsBits(t) THEN BitsValue(t.width, 0) ELSE Bool(FALSE)
ZeroHeader(h) ==
  [kind |-> "header", name |-> h, valid |-> FALSE,
   fields |-> [i \in DOMAIN Fields[h] |-> ZeroScalar(Fields[h][i].type)]]

(* equal                                                                       *)
Equal(x, y) ==
  CASE x.kind = "header" -> x.valid = y.valid /\ (x.valid => x.fields = y.fields)
    [] x.kind = "stack" ->
         \A i \in DOMAIN x.elements :
           /\ x.elements[i].valid = y.elements[i].valid
           /\ x.elements[i].valid => x.elements[i].fields = y.elements[i].fields
    [] x.kind = "struct" -> x.fields = y.fields
    [] OTHER -> x = y

(* width_of, header_from_bits and value_from_bits: the first field is highest. *)
WidthOf(t) == IF IsBits(t) THEN t.width ELSE IF IsBoolean(t) THEN 1 ELSE 0
FieldWidth(h, i) == WidthOf(Fields[h][i].type)
Below(h, i) ==
  LET sum[k \in 0 .. Len(Fields[h])] == IF k = 0 THEN 0 ELSE sum[k - 1] + FieldWidth(h, k)
  IN sum[Len(Fields[h])] - sum[i]
Scalar(t, raw) == IF IsBoolean(t) THEN Bool(raw = 1) ELSE BitsValue(t.width, raw)
HeaderFromBits(h, raw) ==
  [kind |-> "header", name |-> h, valid |-> TRUE,
   fields |-> [i \in DOMAIN Fields[h] |->
                 Scalar(Fields[h][i].type, (raw \div Pow2(Below(h, i))) % Pow2(FieldWidth(h, i)))]]
PacketWidth(t) == IF t.kind = "header" THEN Below(t.name, 0) ELSE WidthOf(t)

-----------------------------------------------------------------------------
(* Nodes: [type, clean, value].                                                *)

Node(type, clean, value) == [type |-> type, clean |-> clean, value |-> value]

(* check_type                                                                  *)
TypeFormed(t) ==
  \/ IsBits(t) /\ t.width \in Nat \ {0}
  \/ t.kind = "header" /\ t.name \in HeaderTypes
  \/ t.kind = "struct" /\ t.name \in StructTypes
  \/ t.kind = "enum_type" /\ t.name \in DOMAIN EnumTypes
  \/ t.kind = "stack" /\ t.name \in HeaderTypes /\ t.size \in Nat \ {0}
  \/ t.kind \in {"boolean", "error"}

(* The declarations are checked (check_type_declarations: a header's fields are *)
(* bits or boolean), and variables hold values of their types, all through     *)
(* (Env.for_block, zero, write_lvalue).                                        *)
IsScalar(t) == t = Boolean \/ (IsBits(t) /\ t = Bits(t.width))
Parts(x) ==
  CASE x.kind \in {"header", "struct"} -> {x.fields[i] : i \in DOMAIN x.fields}
    [] x.kind = "stack" -> {x.elements[i] : i \in 1 .. Len(x.elements)}
    [] OTHER -> {}
ASSUME TypingAssumption ==
  /\ Widths \subseteq Nat /\ Peeks \subseteq Nat /\ IndexBits \in Nat \ {0}
  /\ MaxNodes \in Nat /\ MaxOpen \in Nat
  /\ \A t \in HeaderTypes \cup StructTypes : \A i \in DOMAIN Fields[t] : TypeFormed(Fields[t][i].type)
  /\ \A h \in HeaderTypes :
       /\ Len(Fields[h]) \in Nat /\ DOMAIN Fields[h] = 1 .. Len(Fields[h])
       /\ \A i \in DOMAIN Fields[h] : IsScalar(Fields[h][i].type)
  /\ \A x \in Values : HasType(x, TypeOfValue(x)) /\ Parts(x) \subseteq Values
  /\ \A e \in Envs : \A x \in DOMAIN Decls : e[x] \in Values /\ TypeOfValue(e[x]) = Decls[x]

(* expect_expr: a node of another type is reported.                            *)
Expected(n, ok) == n.clean /\ n.type # NoType /\ ok
When(ok, t) == IF ok THEN t ELSE NoType
Evaluates(x, kind) == x.kind = kind

(* type_of_literal, literal_value                                              *)
BitsLiteral(w, v) ==
  Node(When(w >= 1, Bits(w)), w >= 1 /\ v < Pow2(w),
       IF w >= 1 /\ v < Pow2(w) THEN BitsValue(w, v) ELSE InterpError)
BooleanLiteral(b) == Node(Boolean, TRUE, Bool(b))
ErrorLiteral(e) == Node(Plain("error"), e \in Errors, [kind |-> "error", v |-> e])
EnumLiteral(e, m) ==
  IF e \notin DOMAIN EnumTypes THEN Node(NoType, FALSE, InterpError)
  ELSE Node(Named("enum_type", e), \E i \in DOMAIN EnumTypes[e] : EnumTypes[e][i] = m,
            [kind |-> "enum_type", name |-> e, v |-> m])

Var(x) ==
  IF x \in DOMAIN Decls THEN Node(When(TypeFormed(Decls[x]), Decls[x]), TypeFormed(Decls[x]), env[x])
  ELSE Node(NoType, FALSE, InterpError)

FieldIndex(name, f) == {i \in DOMAIN Fields[name] : Fields[name][i].name = f}
TheField(name, f) == CHOOSE i \in FieldIndex(name, f) : TRUE

(* Fault: an unknown field passes without a report.                            *)
MemberQuiet(n, f) ==
  LET ok == n.type.kind \in {"header", "struct"} /\ FieldIndex(n.type.name, f) # {}
      x == n.value
  IN Node(IF ok THEN Fields[n.type.name][TheField(n.type.name, f)].type ELSE NoType, n.clean,
          IF x.kind \in {"header", "struct"} /\ FieldIndex(x.name, f) # {}
          THEN x.fields[TheField(x.name, f)] ELSE InterpError)

(* type_of_field, field_of                                                     *)
Member(n, f) ==
  LET ok == n.type.kind \in {"header", "struct"} /\ FieldIndex(n.type.name, f) # {}
      x == n.value
  IN Node(IF ok THEN Fields[n.type.name][TheField(n.type.name, f)].type ELSE NoType, n.clean /\ ok,
          IF x.kind \in {"header", "struct"} /\ FieldIndex(x.name, f) # {}
          THEN x.fields[TheField(x.name, f)] ELSE InterpError)

(* type_of_index, index_element                                                *)
Index(stack, i) ==
  LET ok == stack.type.kind = "stack"
      good == Evaluates(stack.value, "stack") /\ Evaluates(i.value, "bits")
  IN Node(IF ok THEN Named("header", stack.type.name) ELSE NoType,
          Expected(stack, ok) /\ Expected(i, IsBits(i.type)),
          IF ~good THEN InterpError
          ELSE IF i.value.v < Len(stack.value.elements) THEN stack.value.elements[i.value.v + 1]
          ELSE ZeroHeader(stack.value.name))

LastIndex(stack) ==
  Node(Bits(IndexBits), parser /\ Expected(stack, stack.type.kind = "stack"),
       IF Evaluates(stack.value, "stack") THEN Wrap(IndexBits, stack.value.next - 1) ELSE InterpError)

Unary(op, n) ==
  LET ok == IF op = "not" THEN IsBoolean(n.type) ELSE IsBits(n.type)
      x == n.value
  IN Node(When(ok, n.type), Expected(n, ok),
          CASE op = "not" /\ Evaluates(x, "boolean") -> Bool(~x.v)
            [] op = "complement" /\ Evaluates(x, "bits") -> Wrap(x.width, -x.v - 1)
            [] op = "negate" /\ Evaluates(x, "bits") -> Wrap(x.width, -x.v)
            [] OTHER -> InterpError)

BitwiseOps == {"bit_and", "bit_or", "bit_xor"}
SameWidth == {"add", "sub", "mul", "add_sat", "sub_sat"} \cup BitwiseOps
Shifts == {"shl", "shr"}
Orders == {"lt", "le", "gt", "ge"}
Logical == {"and", "or"}
BinaryOps == SameWidth \cup Shifts \cup Orders \cup Logical \cup {"concat", "eq", "ne"}

(* type_of_binary                                                              *)
BinaryType(op, l, r) ==
  LET bits == IsBits(l) /\ IsBits(r)
      boolean == IsBoolean(l) /\ IsBoolean(r)
  IN CASE op \in SameWidth -> When(bits /\ l = r, l)
       [] op \in Shifts -> When(bits, l)
       [] op = "concat" -> IF bits THEN Bits(l.width + r.width) ELSE NoType
       [] op \in {"eq", "ne"} -> When(l # NoType /\ l = r, Boolean)
       [] op \in Orders -> When(bits /\ l = r, Boolean)
       [] OTHER -> When(boolean, Boolean)

BitAt(v, i) == (v \div Pow2(i)) % 2
BitOf(op, a, b) ==
  CASE op = "bit_and" -> a * b [] op = "bit_or" -> a + b - a * b [] OTHER -> (a + b) % 2
BitByBit(op, w, a, b) ==
  CHOOSE v \in 0 .. Pow2(w) - 1 :
    \A i \in 0 .. w - 1 : BitAt(v, i) = BitOf(op, BitAt(a, i), BitAt(b, i))

Least(a, b) == IF a < b THEN a ELSE b
Greatest(a, b) == IF a > b THEN a ELSE b

Ordered(op, a, b) ==
  CASE op = "lt" -> a < b [] op = "le" -> a <= b [] op = "gt" -> a > b [] OTHER -> a >= b

(* bits_binary                                                                 *)
BitsBinary(op, x, y) ==
  LET w == x.width IN
  CASE op \in {"add", "sub", "mul"} ->
         Wrap(w, CASE op = "add" -> x.v + y.v [] op = "sub" -> x.v - y.v [] OTHER -> x.v * y.v)
    [] op = "add_sat" -> BitsValue(w, Least(x.v + y.v, Pow2(w) - 1))
    [] op = "sub_sat" -> BitsValue(w, Greatest(x.v - y.v, 0))
    [] op = "shl" -> IF y.v < w THEN Wrap(w, x.v * Pow2(y.v)) ELSE BitsValue(w, 0)
    [] op = "shr" -> IF y.v < w THEN BitsValue(w, x.v \div Pow2(y.v)) ELSE BitsValue(w, 0)
    [] op = "concat" -> BitsValue(w + y.width, x.v * Pow2(y.width) + y.v)
    [] op \in BitwiseOps -> BitsValue(w, BitByBit(op, w, x.v, y.v))
    [] op \in Orders -> Bool(Ordered(op, x.v, y.v))

(* binary: the right operand of a decided && or || is not evaluated.           *)
BinaryValue(op, x, y) ==
  CASE op \in Logical ->
         IF ~Evaluates(x, "boolean") THEN InterpError
         ELSE IF x.v = (op = "or") THEN x
         ELSE IF Evaluates(y, "boolean") THEN y ELSE InterpError
    [] InterpError \in {x, y} -> InterpError
    [] op \in {"eq", "ne"} -> IF x.kind = y.kind THEN Bool(Equal(x, y) = (op = "eq")) ELSE Bool(op = "ne")
    [] OTHER -> IF Evaluates(x, "bits") /\ Evaluates(y, "bits") THEN BitsBinary(op, x, y) ELSE InterpError

Binary(op, l, r) ==
  LET t == BinaryType(op, l.type, r.type)
  IN Node(t, l.clean /\ r.clean /\ t # NoType, BinaryValue(op, l.value, r.value))

(* type_of_cast, cast                                                          *)
CastAllowed(t, to) ==
  \/ IsBits(t) /\ IsBits(to)
  \/ IsBoolean(t) /\ to = Bits(1)
  \/ t = Bits(1) /\ IsBoolean(to)
(* Fault: the target type is not looked at.                                    *)
CastAnywhere(to, n) ==
  LET ok == CastAllowed(n.type, to)
  IN Node(When(ok, to), n.clean /\ ok,
          IF Evaluates(n.value, "bits") /\ IsBits(to) /\ to.width >= 1
          THEN Wrap(to.width, n.value.v) ELSE InterpError)

Cast(to, n) ==
  LET ok == TypeFormed(to) /\ CastAllowed(n.type, to)
      x == n.value
  IN Node(When(ok, to), n.clean /\ ok,
          CASE to = Bits(0) -> InterpError
            [] IsBits(to) /\ Evaluates(x, "boolean") -> BitsValue(to.width, IF x.v THEN 1 ELSE 0)
            [] IsBits(to) /\ Evaluates(x, "bits") -> Wrap(to.width, x.v)
            [] IsBoolean(to) /\ Evaluates(x, "bits") -> Bool(x.v = 1)
            [] OTHER -> InterpError)

(* type_of_slice, slice_bits                                                   *)
Slice(hi, lo, n) ==
  LET ok == IsBits(n.type) /\ lo <= hi /\ hi < n.type.width
      x == n.value
  IN Node(IF ok THEN Bits(hi - lo + 1) ELSE NoType, n.clean /\ ok,
          IF Evaluates(x, "bits") /\ lo <= hi
          THEN BitsValue(hi - lo + 1, (x.v \div Pow2(lo)) % Pow2(hi - lo + 1))
          ELSE InterpError)

IsValid(n) ==
  Node(Boolean, Expected(n, n.type.kind = "header"),
       IF Evaluates(n.value, "header") THEN Bool(n.value.valid) ELSE InterpError)

(* type_of_mux, mux                                                            *)
Mux(c, then, else) ==
  LET ok == then.type # NoType /\ then.type = else.type
  IN Node(When(ok, then.type), Expected(c, IsBoolean(c.type)) /\ then.clean /\ else.clean /\ ok,
          IF ~Evaluates(c.value, "boolean") THEN InterpError ELSE IF c.value.v THEN then.value ELSE else.value)

(* type_of_lookahead, lookahead; a short packet raises ParseError instead.     *)
Lookahead(t, raw) ==
  LET ok == TypeFormed(t) /\ t.kind \in {"bits", "boolean", "header"}
  IN Node(When(ok, t), parser /\ ok,
          IF ~ok THEN InterpError
          ELSE LET cut == raw % Pow2(PacketWidth(t))
               IN IF t.kind = "header" THEN HeaderFromBits(t.name, cut) ELSE Scalar(t, cut))

-----------------------------------------------------------------------------
ExprInit == env \in Envs /\ parser \in BOOLEAN /\ open = <<>> /\ nodes = 0

(* The node takes the place of the last k open ones.                           *)
Build(k, node) ==
  /\ nodes < MaxNodes /\ nodes' = nodes + 1 /\ Len(open) >= k
  /\ open' = Append(SubSeq(open, 1, Len(open) - k), node)
  /\ UNCHANGED <<env, parser>>
Last(k) == open[Len(open) - k + 1]

Types == {Bits(w) : w \in Widths} \cup {Boolean, Plain("error")}
         \cup {Named("header", h) : h \in HeaderTypes} \cup {Named("header", "undeclared")}

Leaf ==
  /\ Len(open) < MaxOpen
  /\ \/ \E w \in Widths, v \in {0, 1, 2, 3} : Build(0, BitsLiteral(w, v))
     \/ \E b \in BOOLEAN : Build(0, BooleanLiteral(b))
     \/ \E e \in Errors \cup {"undeclared"} : Build(0, ErrorLiteral(e))
     \/ \E e \in DOMAIN EnumTypes, m \in {"A", "undeclared"} : Build(0, EnumLiteral(e, m))
     \/ \E x \in DOMAIN Decls \cup {"undeclared"} : Build(0, Var(x))
     \/ \E t \in Types, raw \in Peeks : Build(0, Lookahead(t, raw))

Inner ==
  \/ /\ Len(open) >= 1
     /\ \/ \E f \in {"f", "g"} : Build(1, Member(Last(1), f))
        \/ Build(1, LastIndex(Last(1))) \/ Build(1, IsValid(Last(1)))
        \/ \E op \in {"not", "complement", "negate"} : Build(1, Unary(op, Last(1)))
        \/ \E t \in Types : Build(1, Cast(t, Last(1)))
        \/ \E hi, lo \in 0 .. 3 : Build(1, Slice(hi, lo, Last(1)))
  \/ /\ Len(open) >= 2
     /\ \/ Build(2, Index(Last(2), Last(1)))
        \/ \E op \in BinaryOps : Build(2, Binary(op, Last(2), Last(1)))
  \/ Len(open) >= 3 /\ Build(3, Mux(Last(3), Last(2), Last(1)))

ExprNext == Leaf \/ Inner

ExprSpec == ExprInit /\ [][ExprNext]_exprVars

-----------------------------------------------------------------------------
ExprTypeOK ==
  /\ env \in Envs /\ parser \in BOOLEAN /\ nodes \in 0 .. MaxNodes
  /\ Len(open) \in 0 .. MaxOpen
  /\ \A i \in DOMAIN open : /\ open[i].clean \in BOOLEAN
                            /\ open[i].type = NoType \/ TypeFormed(open[i].type)

(* Type soundness: an expression the validator has nothing to report about     *)
(* evaluates, to a value of the type it was given and within its width; no     *)
(* narrowing helper of the interpreter ever fails (expr.py, "a validated       *)
(* program never fails these").                                                *)
WellTypedEvaluates ==
  \A i \in DOMAIN open : open[i].clean => HasType(open[i].value, open[i].type)

(* type_of's promise: no type only once a problem is reported.                 *)
NoTypeIsReported == \A i \in DOMAIN open : open[i].type = NoType => ~open[i].clean
=============================================================================
