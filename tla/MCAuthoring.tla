----------------------------- MODULE MCAuthoring -----------------------------
(* What an author writes in Python: module Recording, module Authoring or      *)
(* module Declarations, each from its own initial states.                      *)
EXTENDS Recording, Integers, Sequences, SequencesExt

(* A records two methods, the others one; A and B are exported; S holds an H.  *)
MCBodies == [c \in Classes |-> IF c = "A" THEN 2 ELSE 1]
MCExports == <<"A", "B">>
MCFieldTypes == [t \in DataTypes |-> IF t = "S" THEN <<"H">> ELSE <<>>]

-----------------------------------------------------------------------------
(* Declarations: for every kind some that are right and, for every rule, some  *)
(* that break it.                                                              *)
VARIABLES script, built, last

T(kind, name, n) == [kind |-> kind, name |-> name, n |-> n]
B(n) == T("bits", "", n)
Bool == T("boolean", "", 0)
F(name, t) == [name |-> name, type |-> t]
P(name, direction, t) == [name |-> name, direction |-> direction, type |-> t]

(* Header h and struct b may be declared or not, and as something else.        *)
MCNames == {"", "h", "a", "b", "c"}
MCFieldLists ==
  {<<>>, <<F("a", B(2))>>, <<F("b", B(1))>>, <<F("b", B(0))>>, <<F("h", T("header", "h", 0))>>, <<F("a", T("stack", "h", 0))>>,
   <<F("a", T("stack", "h", 2)), F("b", T("struct", "b", 0))>>, <<F("b", Bool), F("", T("error", "", 0))>>}
MCParams ==
  {<<>>, <<P("a", "in", B(2))>>, <<P("h", "inout", T("header", "h", 0))>>, <<P("a", "none", B(2))>>,
   <<P("a", "in", B(2)), P("a", "out", B(2))>>, <<P("", "in", B(2))>>}

IntArg(n) == [kind |-> "int", n |-> n, type |-> B(1)]
BoolArg == [kind |-> "bool", n |-> 0, type |-> B(1)]
Literal(t) == [kind |-> "literal", n |-> 0, type |-> t]
MCArgs ==
  {<<>>, <<IntArg(1)>>, <<IntArg(4)>>, <<BoolArg>>, <<Literal(B(2))>>, <<Literal(B(1))>>, <<IntArg(1), IntArg(1)>>}

Method(name, params, returns) == [name |-> name, params |-> params, returns |-> returns]
MCExterns ==
  {[constructor |-> c, methods |-> m] :
     c \in {<<>>, <<F("a", B(2))>>, <<F("a", B(2)), F("a", Bool)>>},
     m \in {<<>>, <<Method("get", <<P("a", "in", B(2))>>, TRUE)>>, <<Method("", <<P("", "out", B(2))>>, FALSE)>>,
            <<Method("put", <<P("a", "none", B(2))>>, FALSE)>>,
            <<Method("get", <<P("a", "in", B(2)), P("a", "none", B(1))>>, FALSE), Method("put", <<>>, FALSE)>>}}

Set(kind, a, b) == [kind |-> kind, a |-> a, b |-> b]
AnySet == Set("any", 0, 0)
Case(sets, target) == [sets |-> sets, target |-> target]
Direct(target) == [kind |-> "direct", keys |-> 0, default |-> "", cases |-> <<Case(<<>>, target)>>]
Select(keys, cases, default) == [kind |-> "select", keys |-> keys, default |-> default, cases |-> cases]
MCTransitions ==
  {Direct("!accept"), Direct("a"), Direct(""), Select(0, <<>>, "a"), Select(1, <<>>, ""),
   Select(1, <<Case(<<Set("exact", 1, 0)>>, "b"), Case(<<AnySet>>, "!reject")>>, ""),
   Select(1, <<Case(<<AnySet, AnySet>>, "a")>>, ""),
   Select(2, <<Case(<<AnySet, Set("exact", 1, 0)>>, "start")>>, "!accept")}

Stmt(kind, target, args) == [kind |-> kind, target |-> target, method |-> "", args |-> args, result |-> FALSE]
MCStatements ==
  {Stmt("action", "a", 0), Stmt("action", "a", 1), Stmt("action", "h", 0), Stmt("apply", "a", 0), Stmt("apply", "b", 0),
   Stmt("block", "c", 0), Stmt("block", "c", 1), Stmt("block", "a", 0)}
    \cup {[Stmt("extern", "b", n) EXCEPT !.method = m, !.result = r] : m \in {"get", "put"}, n \in 0 .. 1, r \in BOOLEAN}

Keyless == [keys |-> <<>>, actions |-> <<"a">>, default |-> <<>>, const_default |-> FALSE, entries |-> <<>>]
Key(match, t, name) == [match |-> match, type |-> t, name |-> name]
Runs(action, args) == [action |-> action, args |-> args]
EntryOf(keys, priority, call) == [keys |-> keys, priority |-> priority, call |-> call]
Exact == [Keyless EXCEPT !.keys = <<Key("exact", B(2), "")>>]
MCTables ==
  {Keyless, [Keyless EXCEPT !.actions = <<>>], [Keyless EXCEPT !.actions = <<"a", "a">>], [Keyless EXCEPT !.actions = <<"b">>],
   [Keyless EXCEPT !.const_default = TRUE], [Keyless EXCEPT !.const_default = TRUE, !.default = <<Runs("a", <<>>)>>],
   [Keyless EXCEPT !.default = <<Runs("a", <<IntArg(1)>>)>>], [Keyless EXCEPT !.default = <<Runs("b", <<>>)>>],
   [Keyless EXCEPT !.keys = <<Key("lpm", B(2), "a"), Key("lpm", B(2), "a")>>],
   [Keyless EXCEPT !.keys = <<Key("exact", Bool, "")>>],
   [Keyless EXCEPT !.keys = <<Key("exact", Bool, "")>>, !.entries = <<EntryOf(1, 0, Runs("a", <<>>))>>],
   [Keyless EXCEPT !.keys = <<Key("lpm", B(2), ""), Key("ternary", B(2), "")>>, !.entries = <<EntryOf(2, 1, Runs("a", <<>>))>>]}
    \cup {[Exact EXCEPT !.entries = <<e>>] :
            e \in {EntryOf(1, 1, Runs("a", <<>>)), EntryOf(2, 0, Runs("a", <<>>)),
                   EntryOf(1, 0, Runs("a", <<IntArg(1)>>)), EntryOf(1, 0, Runs("b", <<>>))}}

-----------------------------------------------------------------------------
(* Classes: every select of three cases over one bit; parsers of two states    *)
(* and controls of two actions, with their names, starts and calls varied.     *)
ClassOf(kind) ==
  [name |-> "c", kind |-> kind, params |-> <<>>, locals |-> <<>>, states |-> <<>>, actions |-> <<>>, tables |-> <<>>, body |-> <<>>]
St(name, start, tr, body) == [name |-> name, start |-> start, transition |-> tr, body |-> body]
Act(name, data, body) == [name |-> name, data |-> data, body |-> body]
Tab(name, spec) == [name |-> name, spec |-> spec]
Sets == {Set("exact", 0, 0), Set("exact", 1, 0), Set("masked", 1, 1), Set("range", 0, 1), AnySet}
SelectClasses ==
  {[ClassOf("parser") EXCEPT !.states = <<St("s", FALSE, Select(1, <<Case(<<x>>, "!accept"), Case(<<y>>, "s"), Case(<<z>>, "!reject")>>, d), <<>>)>>] :
     x, y, z \in Sets, d \in {"", "!accept"}}
ParserClasses ==
  {[ClassOf("parser") EXCEPT !.params = <<P("a", "out", B(2))>>, !.locals = l,
                             !.states = <<St("s", x, Direct(t), b), St(n, y, Select(1, <<>>, "s"), <<>>)>>] :
     l \in {<<>>, <<F("l", B(2))>>, <<F("a", B(2))>>}, x, y \in BOOLEAN, t \in {"s", "u", "v"}, n \in {"u", "s", "h"},
     b \in {<<>>, <<Stmt("block", "a", 1)>>, <<Stmt("apply", "a", 0)>>}}
ControlClasses ==
  {[ClassOf(kind) EXCEPT !.locals = l, !.actions = <<Act("a", <<>>, ba), Act(m, data, bm)>>, !.tables = ts, !.body = body] :
     kind \in {"control", "deparser"}, l \in {<<>>, <<F("d", B(2))>>}, m \in {"m", "a", "NoAction"},
     data \in {<<>>, <<P("d", "none", B(2))>>},
     ba \in {<<>>, <<Stmt("action", "m", 1)>>, <<Stmt("action", "m", 0)>>, <<Stmt("apply", "t", 0)>>}, bm \in {<<>>, <<Stmt("action", "a", 0)>>},
     ts \in {<<>>, <<Tab("d", Keyless)>>, <<Tab("t", [Keyless EXCEPT !.actions = <<"a", "m">>, !.default = <<Runs("m", <<IntArg(1)>>)>>])>>},
     body \in {<<>>, <<Stmt("apply", "t", 0)>>, <<Stmt("action", "m", 1)>>}}
MCBlockClasses ==
  SelectClasses \cup ParserClasses \cup ControlClasses
    \cup {ClassOf("parser"), [ClassOf("control") EXCEPT !.states = <<St("s", FALSE, Direct("s"), <<>>)>>]}

MCScripts ==
  {<<"header", "struct">>, <<"struct", "block">>, <<"block", "header", "local">>, <<"block", "local", "enum">>,
   <<"error", "error", "enum">>, <<"extern", "instance", "block", "write">>,
   <<"block", "state", "state", "transition", "transition">>, <<"block", "action", "table", "write">>,
   <<"block", "action", "table", "action">>, <<"block", "local", "action">>, <<"block", "action", "local">>,
   <<"block", "block", "write">>, <<"block", "action", "action", "write", "header">>, <<"block", "action", "block">>,
   <<"class">>, <<"block", "class">>}

D == INSTANCE Declarations WITH
       Scripts <- MCScripts, Names <- MCNames, FieldLists <- MCFieldLists,
       MemberLists <- {<<>>, <<"A">>, <<"A", "A">>, <<"", "A">>},
       ParamLists <- MCParams, ExternSpecs <- MCExterns, ArgLists <- MCArgs, Transitions <- MCTransitions,
       Statements <- MCStatements, TableSpecs <- MCTables, Classes <- MCBlockClasses, KeyMax <- 1

-----------------------------------------------------------------------------
(* Two bits, an in parameter, a header, a struct and a stack of two headers.   *)
BitsType(w) == [kind |-> "bits", width |-> w]
FieldOf(name, t) == [name |-> name, type |-> t]
BitsValue(w, v) == [kind |-> "bits", width |-> w, v |-> v]
H(valid, f, g) ==
  [kind |-> "header", name |-> "H", valid |-> valid, fields |-> <<BitsValue(2, f), [kind |-> "boolean", v |-> g]>>]
HeaderType == [kind |-> "header", name |-> "H"]
Held ==
  [a |-> BitsValue(2, 3), p |-> BitsValue(2, 1), h |-> H(TRUE, 2, TRUE),
   s |-> [kind |-> "struct", name |-> "S", fields |-> <<BitsValue(1, 1)>>],
   t |-> [kind |-> "stack", name |-> "H", elements |-> <<H(TRUE, 3, FALSE), H(TRUE, 1, TRUE)>>, next |-> 2]]
Param(out, t) == [out |-> out, type |-> t]

VARIABLES part, env, parser, open, nodes, stmt
authored == <<env, parser, open, nodes, stmt>>
A == INSTANCE Authoring WITH
       Fields <- [t \in {"H", "S"} |-> IF t = "H" THEN <<FieldOf("f", BitsType(2)), FieldOf("g", [kind |-> "boolean"])>>
                                       ELSE <<FieldOf("f", BitsType(1))>>],
       HeaderTypes <- {"H"}, StructTypes <- {"S"}, EnumTypes <- [e \in {"E"} |-> <<"A", "B">>],
       Errors <- {"NoError"},
       Decls <- [a |-> BitsType(2), p |-> BitsType(2), h |-> HeaderType,
                 s |-> [kind |-> "struct", name |-> "S"], t |-> [kind |-> "stack", name |-> "H", size |-> 2]],
       Envs <- {Held}, IndexBits <- 4, ReadOnly <- {"p"}, Ints <- {0, 1, 3, 4},
       Signatures <- {<<Param(TRUE, BitsType(2)), Param(TRUE, BitsType(2))>>,
                      <<Param(TRUE, HeaderType), Param(FALSE, BitsType(2))>>},
       MaxNodes <- 4, MaxOpen <- 3

declaring == <<script, built, last>>
NotDeclaring == script = <<>> /\ built = D!Empty /\ last = D!Answer(TRUE, D!Empty)
InitRecording ==
  /\ part = "recording" /\ Init /\ NotDeclaring
  /\ env = Held /\ parser = FALSE /\ open = <<>> /\ nodes = 0 /\ stmt = A!NoStmt
InitAuthoring == part = "authoring" /\ Init /\ NotDeclaring /\ A!Init
InitDeclarations ==
  /\ part = "declarations" /\ Init /\ D!Init
  /\ env = Held /\ parser = FALSE /\ open = <<>> /\ nodes = 0 /\ stmt = A!NoStmt
OnRecording == part = "recording" /\ Next /\ UNCHANGED <<part, authored, declaring>>
OnAuthoring == part = "authoring" /\ A!Next /\ UNCHANGED <<part, vars, declaring>>
OnDeclarations == part = "declarations" /\ D!Next /\ UNCHANGED <<part, vars, authored>>
SuiteSpec ==
  /\ InitRecording \/ InitAuthoring \/ InitDeclarations
  /\ [][OnRecording \/ OnAuthoring \/ OnDeclarations]_<<part, vars, authored, declaring>>

(* What the eDSL accepts the validator accepts, but for where a thing stands   *)
(* (edsl/core/expr.py, edsl/core/blocks.py).                                   *)
BuiltIsWellTyped == part = "authoring" => A!BuiltIsWellTyped
(* assign_slice and zero_stmts do what P4 means by them.                       *)
ElaboratedMeans == part = "authoring" => A!ElaboratedMeans
(* A library the eDSL builds is reported for nothing the eDSL checks.          *)
BuiltIsDeclaredRight == part = "declarations" => D!BuiltIsDeclaredRight
(* A declaration the eDSL refuses is one the validator would report.           *)
RefusedForCause == part = "declarations" => D!RefusedForCause
=============================================================================
