----------------------------- MODULE MCFrontend -----------------------------
(* What the frontend elaborates: statements (module Lowering), switches on     *)
(* action_run (ActionRun), parsers (ParserLowering), the names of a control    *)
(* (Naming), compile-time values (Folding), tables (TableEntries) and          *)
(* instances (Instances), each from its own initial states.                    *)
EXTENDS Lowering, TableEntries

CONSTANT Parsers   \* the P4 parsers

(* Two bits and a field of two.  toggle(inout p) is a function that negates    *)
(* its argument and returns what it was; swap2(inout p, inout q) and           *)
(* mix(in a, in b, inout p) are sub-blocks, get(out p, in a) an extern.        *)
MCTemps == <<"t1", "t2", "t3", "t4", "t5", "t6", "t7", "t8", "t9", "t10", "t11", "t12", "t13", "t14">>
MCParams ==
  [f \in {"toggle", "keep", "swap2", "mix", "get"} |->
     CASE f = "toggle" -> <<"inout">>
       [] f = "keep" -> <<"in", "out">>
       [] f = "swap2" -> <<"inout", "inout">>
       [] f = "mix" -> <<"in", "in", "inout">>
       [] f = "get" -> <<"out", "in">>]
MCFormals == [f \in {"toggle", "keep"} |-> IF f = "keep" THEN <<"a", "p">> ELSE <<"p">>]
MCBody ==
  [f \in {"toggle", "keep"} |->
     CASE f = "toggle" -> <<Assign("p", Strict(Var("p"), Lit(1)))>>
       [] f = "keep" -> <<If(Var("a"), <<Assign("p", Lit(1))>>, <<>>)>>]
MCResult ==
  [f \in {"toggle", "keep"} |->
     CASE f = "toggle" -> Strict(Var("p"), Lit(1))
       [] f = "keep" -> Var("p")]
MCEffect(f, vs, i) ==
  CASE f = "swap2" -> IF i = 1 THEN vs[2] ELSE vs[1]
    [] f = "mix" -> IF i \in {0, 3} THEN (IF vs[3] = 1 THEN vs[1] ELSE vs[2]) ELSE vs[i]
    [] f = "get" -> IF i = 1 THEN 1 - vs[2] ELSE vs[2]

Atoms == {Lit(1), Var("x"), Var("y"), Slice(0)}
Calls(es) == {Call("toggle", <<a>>) : a \in {Var("x"), Var("y"), Slice(1)}}
             \cup {Call("keep", <<e, a>>) : e \in es, a \in {Var("x"), Unused}}
Ops(ls, rs) == {Strict(l, r) : l \in ls, r \in rs} \cup {Lazy(l, r) : l \in ls, r \in rs}
Simple == Atoms \cup Calls(Atoms) \cup {Lazy(Var("x"), Slice(1))}
Deep == Simple \cup Ops(Simple, Simple)
        \cup {Mux(c, t, e) : c \in Simple, t \in Simple, e \in {Call("toggle", <<Var("x")>>)}}
Deeper ==
  Deep \cup Ops({Var("x"), Call("toggle", <<Var("y")>>)}, Ops(Calls({Var("y")}), Simple)) \cup Calls(Calls({Var("x")}))

Places == {Var("x"), Var("y"), Slice(0), Slice(1)}
Blocks ==
  {CallStmt("swap2", <<a, b>>) : a, b \in Places \cup {Unused}}
  \cup {CallStmt("mix", <<a, b, p>>) : a, b \in Simple, p \in Places}
  \cup {CallStmt("get", <<p, a>>) : p \in Places \cup {Unused}, a \in Atoms}
  \cup {CallStmt("keep", <<a, p>>) : a \in Atoms, p \in Places \cup {Unused}}
Small == {<<>>, <<Assign("y", Call("toggle", <<Var("x")>>))>>, <<SetSlice(0, Var("x"))>>}
Straight ==
  {Assign("x", e) : e \in Deeper} \cup {SetSlice(1, e) : e \in Simple}
  \cup {If(c, t, <<Assign("x", Lit(0))>>) : c \in Simple \cup Ops(Calls({Var("x")}), Simple), t \in Small}
  \cup {Compound("x", e) : e \in Atoms}
  \cup {Switch(e, <<[labels |-> ls, body |-> t], [labels |-> {1}, body |-> <<Assign("x", Lit(0))>>]>>, <<>>) :
           e \in Simple, ls \in {{0}, {0, 1}}, t \in Small}
  \cup Blocks
AnyCompound == {Compound("x", e) : e \in Deep}

-----------------------------------------------------------------------------
(* Table t is switched on a and NoAction and lists b and c too; u, switched on *)
(* c and b, binds an argument of c and shares b; w is applied without a switch.*)
(* Action c calls b and a before its own marker is written.                    *)
ActionsOf == [t \in {"t", "u", "w"} |->
  CASE t = "t" -> {"a", "b", "c"} [] t = "u" -> {"b", "c"} [] OTHER -> {"a", "c"}]
LabelsOf == [t \in {"t", "u", "w"} |->
  CASE t = "t" -> <<"a", "NoAction">> [] t = "u" -> <<"c", "b">> [] OTHER -> <<>>]
BoundIn == [t \in {"t", "u", "w"} |-> IF t = "u" THEN {"c"} ELSE {}]
CallsOf == [a \in {"a", "b", "c", "NoAction"} |-> IF a = "c" THEN <<"b", "a">> ELSE <<>>]

VARIABLES part, run, stack, table, ran, branch, applies
applied == <<run, stack, table, ran, branch, applies>>
A == INSTANCE ActionRun WITH
       NoAction <- "NoAction", Actions <- ActionsOf, Bound <- BoundIn, Called <- {"a", "b", "c"},
       Nested <- CallsOf, Labels <- LabelsOf, MaxApplies <- 4

-----------------------------------------------------------------------------
VARIABLES parser, ir, input, p4, lowered, visits
parsing == <<parser, ir, input, p4, lowered, visits>>
I == INSTANCE MCFrontendInputs
PlainParsers == I!MCParsers
ShadowingParsers == I!Shadowing
Packets == I!MCPackets
ParserParams == I!MCParams
R == INSTANCE ParserLowering WITH
       Params <- ParserParams, ProgramNames <- {"g"}, MaxVisits <- 4, run <- lowered

VARIABLES control, translation, form
naming == <<control, translation, form>>
Controls == I!PlainControls
N == INSTANCE Naming WITH ProgramNames <- {"h", "C"}, block <- translation, phase <- form

-----------------------------------------------------------------------------
(* a : bit<2>, b : bool; indices are four bits wide.                           *)
VARIABLES env, open, nodes
folding == <<env, open, nodes>>
Bits(w, v) == [kind |-> "bits", width |-> w, v |-> v]
F == INSTANCE Folding WITH
       Decls <- [a |-> [kind |-> "bits", width |-> 2], b |-> [kind |-> "boolean"]],
       Envs <- {[a |-> Bits(2, 3), b |-> [kind |-> "boolean", v |-> FALSE]]},
       Constants <- {Bits(2, 2), [kind |-> "int", width |-> 0, v |-> 5]},
       Ints <- {0, 7}, Widths <- {1, 2}, SizeBits <- 4, MaxShift <- 8, MaxNodes <- 5, MaxOpen <- 3

MCP4Tables == I!TablesAsWritten
MCNoPriority == I!Unprioritised

VARIABLES program, roles, instantiations, blocks, extern_types, extern_instances, types, activations,
          exports, ok
instances == <<program, roles, instantiations, blocks, extern_types, extern_instances, types,
               activations, exports, ok>>
S == INSTANCE Instances WITH Programs <- I!Programs, stack <- activations

-----------------------------------------------------------------------------
NoFolding == env = 0 /\ open = <<>> /\ nodes = 0
NoTables == declared = 0 /\ translated = 0 /\ properties = <<>> /\ keys = <<>> /\ chosen = <<>>
NoInstances ==
  /\ program = 0 /\ roles = <<>> /\ instantiations = <<>> /\ blocks = <<>> /\ extern_types = <<>>
  /\ extern_instances = <<>> /\ types = {} /\ activations = <<>> /\ exports = <<>> /\ ok = TRUE
NoLowering == source = 0 /\ start = 0 /\ todo = <<>> /\ store = 0 /\ phase = "run"
NoParser == parser = 0 /\ ir = 0 /\ input = <<>> /\ p4 = 0 /\ lowered = 0 /\ visits = 0
NoNaming == control = 0 /\ translation = 0 /\ form = "source"

SuiteInit ==
  /\ part \in {"lowering", "action_run", "parsers", "naming", "folding", "tables", "instances"}
  /\ A!Init
  /\ IF part = "lowering" THEN Init ELSE NoLowering
  /\ IF part = "parsers" THEN R!Init ELSE NoParser
  /\ IF part = "naming" THEN N!Init ELSE NoNaming
  /\ IF part = "folding" THEN F!Init ELSE NoFolding
  /\ IF part = "tables" THEN TableInit ELSE NoTables
  /\ IF part = "instances" THEN S!Init ELSE NoInstances
OnLowering ==
  part = "lowering" /\ Next /\ UNCHANGED <<part, applied, parsing, naming, folding, tableVars, instances>>
OnActionRun ==
  part = "action_run" /\ A!Next /\ UNCHANGED <<part, vars, parsing, naming, folding, tableVars, instances>>
OnParsers ==
  part = "parsers" /\ R!Next /\ UNCHANGED <<part, vars, applied, naming, folding, tableVars, instances>>
OnNaming ==
  part = "naming" /\ N!Next /\ UNCHANGED <<part, vars, applied, parsing, folding, tableVars, instances>>
OnFolding ==
  part = "folding" /\ F!Next /\ UNCHANGED <<part, vars, applied, parsing, naming, tableVars, instances>>
OnTables ==
  part = "tables" /\ TableNext /\ UNCHANGED <<part, vars, applied, parsing, naming, folding, instances>>
OnInstances ==
  part = "instances" /\ S!Next /\ UNCHANGED <<part, vars, applied, parsing, naming, folding, tableVars>>
SuiteNext ==
  OnLowering \/ OnActionRun \/ OnParsers \/ OnNaming \/ OnFolding \/ OnTables \/ OnInstances
SuiteSpec ==
  SuiteInit /\ [][SuiteNext]_<<part, vars, applied, parsing, naming, folding, tableVars, instances>>

(* Lowered statements end where the P4 statements do, and every call they hold *)
(* has separate arguments (blocks.py _binary, _arguments).                     *)
LoweredAsWritten == part = "lowering" => KeepsMeaning /\ CallsAccepted
(* A switch takes the branch of the action that ran (_switch_action_run).      *)
RightBranch == A!RightBranch
(* A parser and its translation are in the same state with the same values     *)
(* after every state they enter (translate_block, state, _var_decl).           *)
ParserRunsAsWritten == part = "parsers" => R!Agree
(* "SpecTec gives each state a fresh local frame on every entry"               *)
(* (docs/ir-semantics.md): what a state declares ends with it, whatever name   *)
(* it has.                                                                     *)
StateFramesAreFresh == part = "parsers" => R!Agree
(* Every name of a finished control stands for the declaration P4 means there, *)
(* and none collides with a name of another kind (fresh, translate_action,     *)
(* finish).                                                                    *)
NamesKept == part = "naming" => N!NamesKept
(* A translated expression is valid IR of the type P4 gives it and evaluates   *)
(* to what P4 means; what is known at compile time is never refused (fold,     *)
(* expr, _must_fold, _shift_amount).                                           *)
FoldedMeans == part = "folding" => F!FoldedMeans
(* Two accesses share extern state in the IR exactly when P4's instances do,   *)
(* at the type and size declared, and callees come before callers (sub_block,  *)
(* owns_state, add_extern_instance, ordered_blocks).                           *)
InstancesKept == part = "instances" => S!InstancesKept
=============================================================================
