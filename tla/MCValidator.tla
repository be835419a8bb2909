----------------------------- MODULE MCValidator -----------------------------
(* What validation is for: the call graph (module CallGraph), the typing of    *)
(* expressions beside their values (Expressions), and tables, whose const      *)
(* entries it accepts and build installs (Tables, its inputs in MCTables),     *)
(* each from its own initial states.                                           *)
EXTENDS CallGraph, Expressions, MCTables

(* A header of a bit<2> and a boolean, a stack of two, a struct, an enum.      *)
BitsType(w) == [kind |-> "bits", width |-> w]
Field(name, t) == [name |-> name, type |-> t]
DeclaredFields == [t \in {"H", "S"} |->
  IF t = "H" THEN <<Field("f", BitsType(2)), Field("g", [kind |-> "boolean"])>> ELSE <<Field("f", BitsType(1))>>]
DeclaredVars ==
  [a |-> BitsType(2), b |-> BitsType(1), h |-> [kind |-> "header", name |-> "H"],
   s |-> [kind |-> "struct", name |-> "S"], t |-> [kind |-> "stack", name |-> "H", size |-> 2]]
B(w, v) == [kind |-> "bits", width |-> w, v |-> v]
H(valid, f, g) ==
  [kind |-> "header", name |-> "H", valid |-> valid, fields |-> <<B(2, f), [kind |-> "boolean", v |-> g]>>]
S(f) == [kind |-> "struct", name |-> "S", fields |-> <<B(1, f)>>]
T(x, y, n) == [kind |-> "stack", name |-> "H", elements |-> <<x, y>>, next |-> n]
Environments ==
  {[a |-> B(2, 3), b |-> B(1, 1), h |-> H(TRUE, 2, TRUE), s |-> S(1),
    t |-> T(H(FALSE, 0, FALSE), H(TRUE, 1, TRUE), 0)],
   [a |-> B(2, 0), b |-> B(1, 0), h |-> H(FALSE, 1, FALSE), s |-> S(0),
    t |-> T(H(TRUE, 3, FALSE), H(TRUE, 1, TRUE), 2)]}

(* The variables' values, and the headers and fields inside them.              *)
VarValues == {e[x] : e \in Environments, x \in DOMAIN DeclaredVars}
PartsOf(xs) == UNION {Parts(x) : x \in xs}
HeldValues == VarValues \cup PartsOf(VarValues) \cup PartsOf(PartsOf(VarValues))

OneEnum == [e \in {"E"} |-> <<"A", "B">>]

VARIABLES part
NoTyping == env = 0 /\ parser = FALSE /\ open = <<>> /\ nodes = 0
NoCalls == pending = [n \in Nodes |-> <<>>] /\ Init
(* A miss in an empty table.                                                   *)
NoTables ==
  /\ decl = TernDecl /\ entries = <<>> /\ default = "drop" /\ uninstalled = <<>>
  /\ result = "none" /\ scan = [keys |-> <<{}>>, at |-> 1, best |-> 0]

InitCalls == part = "calls" /\ NoTyping /\ NoTables /\ Init
InitTypes == part = "types" /\ NoCalls /\ NoTables /\ ExprInit
InitTables == part = "tables" /\ NoCalls /\ NoTyping /\ TablesInit
OnCalls == part = "calls" /\ Next /\ UNCHANGED <<part, exprVars, installVars>>
OnTypes == part = "types" /\ ExprNext /\ UNCHANGED <<part, vars, installVars>>
OnTables == part = "tables" /\ TablesNext /\ UNCHANGED <<part, vars, exprVars>>
SuiteSpec ==
  /\ InitCalls \/ InitTypes \/ InitTables
  /\ [][OnCalls \/ OnTypes \/ OnTables]_<<part, vars, exprVars, installVars>>
=============================================================================
