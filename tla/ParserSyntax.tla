---------------------------- MODULE ParserSyntax ----------------------------
(* Parsers, as P4 and as the IR write them: expressions, statements, key sets  *)
(* and transitions.  A declaration, a constant and a nested block are P4's     *)
(* only, set_invalid and pop the IR's.                                         *)

Lit(v) == [op |-> "lit", v |-> v]
Var(x) == [op |-> "var", x |-> x]
FieldOf(x) == [op |-> "field", x |-> x]
Valid(x) == [op |-> "valid", x |-> x]      \* of a stack: of its first element
Sum(l, r) == [op |-> "sum", l |-> l, r |-> r]
NoInit == [op |-> "none"]

Decl(x, t, init) == [s |-> "decl", x |-> x, t |-> t, init |-> init]
Constant(x, v) == [s |-> "const", x |-> x, v |-> v]
Block(body) == [s |-> "block", body |-> body]
Assign(x, e) == [s |-> "assign", x |-> x, e |-> e]
SetField(x, e) == [s |-> "setfield", x |-> x, e |-> e]
Extract(x) == [s |-> "extract", x |-> x]   \* into a stack: into its next element
If(c, then, else) == [s |-> "if", c |-> c, then |-> then, else |-> else]
SetInvalid(x) == [s |-> "set_invalid", x |-> x]
Pop(x, n) == [s |-> "pop", x |-> x, n |-> n]

DontCare == [k |-> "any"]
Exact(v) == [k |-> "exact", v |-> v]
Masked(v, m) == [k |-> "masked", v |-> v, m |-> m]
Range2(lo, hi) == [k |-> "range", lo |-> lo, hi |-> hi]
Direct(target) == [kind |-> "direct", target |-> target]
Select(keys, cases) == [kind |-> "select", keys |-> keys, cases |-> cases]
=============================================================================
