--------------------------- MODULE MCFrontendInputs ---------------------------
(* P4 tables, instances, controls and parsers for the modules TableEntries,    *)
(* Instances, Naming and ParserLowering.                                       *)
EXTENDS Integers, Sequences, SequencesExt, TLC

-----------------------------------------------------------------------------
(* P4 tables: a ternary, an lpm and an exact key of two bits, and an exact     *)
(* beside a ternary; up to two entries; properties in three orders.            *)
Unprioritised == 99
Keyset(f, v, m) == [form |-> f, value |-> v, mask |-> m]
DontCare == Keyset("any", {}, {})
(* Values of three bits are cut at the key's two.                              *)
Values == {Keyset("value", v, {}) : v \in {{}, {0}, {0, 2}, {1}}}
Masked == {Keyset("mask", x[1], x[2]) : x \in {<<{1}, {1}>>, <<{0, 1}, {1}>>, <<{0}, {0}>>, <<{0}, {}>>, <<{1}, {1, 2}>>}}
Keysets == {DontCare} \cup Values \cup Masked

Orders ==
  {<<"key", "actions", "default_action", "largest_priority_wins", "entries">>,
   <<"key", "actions", "entries", "largest_priority_wins">>,
   <<"entries", "key", "actions">>}
Entries(n, priorities, a) ==
  {[keysets |-> ks, priority |-> p, action |-> a] :
     ks \in IF n = 1 THEN {<<k>> : k \in Keysets} ELSE {<<k, DontCare>> : k \in {Keyset("value", {1}, {}), DontCare}}
              \cup {<<Keyset("value", {1}, {}), k>> : k \in Masked},
     p \in priorities}
UpTo2(n, priorities) ==
  LET first == Entries(n, priorities, "a")
      second == Entries(n, priorities, "b")
  IN {<<>>} \cup {<<x>> : x \in first} \cup {<<x, y>> : x \in first, y \in second}
Tables(kinds, priorities, ways) ==
  {[props |-> o, kinds |-> kinds, widths |-> [i \in DOMAIN kinds |-> 2], actions |-> <<"a", "b", "a">>,
    default |-> IF o[3] = "default_action" THEN "b" ELSE "NoAction", largest |-> l, entries |-> es] :
     o \in Orders, l \in ways, es \in UpTo2(Len(kinds), priorities)}
TablesAsWritten ==
  Tables(<<"ternary">>, {1, 3}, BOOLEAN) \cup Tables(<<"exact", "ternary">>, {0, 2, Unprioritised}, {FALSE})
  \cup Tables(<<"lpm">>, {Unprioritised}, {TRUE}) \cup Tables(<<"exact">>, {Unprioritised}, {TRUE})

-----------------------------------------------------------------------------
(* Controls: a leaf that takes its register's size and one without parameters, *)
(* a middle one and a role over them; a package of two roles.                  *)
Item(op, name, of, arg) == [op |-> op, name |-> name, of |-> of, arg |-> arg]
Register(name, sig, size) == Item("extern", name, sig, size)
Instance(name, of, arg) == Item("block", name, of, arg)
Direct(of) == Item("direct", <<"direct">>, of, -1)
Header(name) == Item("type", name, <<>>, -1)

Uses(items) == {it \in {items[i] : i \in DOMAIN items} : it.op \in {"extern", "block"}}
UseOf(it) == Item(IF it.op = "extern" THEN "access" ELSE "apply", it.name, <<>>, -1)
(* Local instances, then a use of each and again of the first.                 *)
Used(items) ==
  items \o [i \in 1 .. Len(items) + 1 |->
              LET it == items[IF i > Len(items) THEN 1 ELSE i]
              IN IF it.op \in {"extern", "block"} THEN UseOf(it) ELSE it]
Control(kind, params, items) == [kind |-> kind, params |-> params, items |-> items]

R1 == <<"r">>
Sized == {Used(<<Register(R1, <<"bit8">>, 0)>>), <<Header(R1)>>}
Leaves == {Used(<<Register(<<"M">>, <<"bit16">>, 4)>>), Used(<<Register(<<"Sized", 0>>, <<"bit8">>, 4)>>), <<>>}
Middles ==
  {Used(<<Instance(<<"a">>, <<"Sized">>, 1)>>) \o <<Direct(<<"Leaf">>)>>,
   Used(<<Instance(<<"a">>, <<"Sized">>, 1), Instance(<<"b">>, <<"Sized">>, 1)>>),
   Used(<<Instance(<<"a">>, <<"Sized">>, 1), Instance(<<"b">>, <<"Sized">>, 2)>>),
   <<Direct(<<"Leaf">>), Direct(<<"Leaf">>)>>,
   Used(<<Register(R1, <<"bit16">>, 2)>>)}
Tops ==
  {Used(<<Instance(<<"m">>, <<"M">>, -1), Instance(<<"k">>, <<"M">>, -1)>>),
   <<Direct(<<"M">>), Direct(<<"M">>)>>,
   Used(<<Instance(<<"m">>, <<"M">>, -1), Instance(<<"a">>, <<"Sized">>, 1)>>) \o <<Direct(<<"M">>)>>,
   Used(<<Register(<<"C">>, <<"bit8">>, 1), Instance(<<"l">>, <<"Leaf">>, -1)>>)}

Role(d) == [decl |-> d, kind |-> "control", args |-> <<>>]
Programs ==
  {[decls |-> [d \in {<<"Sized">>, <<"Leaf">>, <<"M">>, <<"C">>} |->
      CASE d = <<"Sized">> -> Control("control", 1, sized)
        [] d = <<"Leaf">> -> Control(kind, 0, leaf)
        [] d = <<"M">> -> Control("control", 0, middle)
        [] OTHER -> Control("control", 0, top)],
    roles |-> <<Role(<<first>>), Role(<<second>>)>>] :
     sized \in Sized, leaf \in Leaves, kind \in {"control", "deparser"}, middle \in Middles,
     top \in Tops, first \in {"C", "M"}, second \in {"C", "M", "Leaf"}}

-----------------------------------------------------------------------------
(* P4 controls for module Naming: two actions, two tables, names declared      *)
(* again and again.                                                            *)
(* Declarations; the identity of each is its place in the program.             *)
Decl(x, id) == [s |-> "decl", x |-> x, id |-> <<id, x>>]
Temp(x, id) == [s |-> "temp", x |-> x, id |-> <<id, x>>]
Use(x) == [s |-> "use", x |-> x]
Block(body) == [s |-> "block", body |-> body]
Variable(x) == [i |-> "var", x |-> x, id |-> <<"local", x>>]
Action(a, params, data, body) == [i |-> "action", x |-> a, params |-> params, data |-> data, body |-> body]
Table(t, keys, actions) == [i |-> "table", x |-> t, keys |-> keys, actions |-> actions]
Ref(a, args) == [x |-> a, args |-> args]

(* A body over p, the control's x and a local y: y is declared in the action,  *)
(* in a block of it, in both; a temporary is made.                             *)
BodiesOf(a) == {
  <<Use("p"), Use("x"), Use("y")>>,
  <<Use("p"), Decl("y", a \o "1"), Use("y"), Block(<<Decl("y", a \o "2"), Use("y"), Temp("tmp", a \o "3")>>), Use("y")>>,
  <<Temp("tmp", a \o "1"), Use("p"), Block(<<Decl("p", a \o "2"), Use("p")>>)>>,
  <<Decl("h", a \o "1"), Use("h"), Temp("h", a \o "2"), Use("p")>>}
ParamsOf == {<<"p">>, <<"p", "x">>, <<"p", "tmp">>, <<"h", "p">>}

RefsOf(a, tables) == {Ref(a, <<>>)} \cup {Ref(a, "p" :> y) : y \in {"x", "y"}}
MCItems ==
  {<<Variable("y"), Action("a", ps, ToSet(ps) \ {"p"}, b1), Action("a_1", <<"p">>, {}, b2),
     Table("t", <<"x", "y">>, <<r1, r2>>), Table("u", <<"y">>, <<r3>>)>> :
     ps \in ParamsOf, b1 \in BodiesOf("a"), b2 \in BodiesOf("a_1"),
     r1 \in RefsOf("a", 1), r2 \in RefsOf("a_1", 1), r3 \in RefsOf("a", 1)}
  \cup {<<Action("a", ps, ToSet(ps) \ {"p"}, b1), Variable("y"), Variable("u"),
          Table("t", <<"u">>, <<Ref("a", "p" :> z)>>)>> :
          ps \in ParamsOf, b1 \in {b \in BodiesOf("a") : b[3] # Use("y") \/ b[2] # Use("x")}, z \in {"x", "y"}}
MCBodies == {
  <<Use("x"), Use("y")>>,
  <<Decl("a", "1"), Decl("tmp", "2"), Use("a"), Temp("tmp", "3"), Use("tmp"), Block(<<Decl("x", "4"), Use("x")>>), Use("x")>>,
  <<Block(<<Decl("y_0", "1"), Use("y_0"), Decl("p", "2"), Use("p")>>), Block(<<Decl("y", "3"), Use("y"), Use("x")>>), Use("y")>>}

AllControls ==
  {[params |-> <<"x", "h">>, items |-> items, body |-> b, called |-> called] :
     items \in MCItems, b \in MCBodies, called \in {<<>>, <<"a">>}}

(* A declaration or a bound argument of the action with a parameter's name.    *)
RECURSIVE DeclaredIn(_)
DeclaredIn(body) ==
  UNION {CASE body[i].s = "use" -> {} [] body[i].s = "block" -> DeclaredIn(body[i].body) [] OTHER -> {body[i].x} :
           i \in DOMAIN body}
Captures(c) ==
  \E i \in DOMAIN c.items :
    /\ c.items[i].i = "action"
    /\ \/ DeclaredIn(c.items[i].body) \cap ToSet(c.items[i].params) # {}
       \/ \E n \in DOMAIN c.items : c.items[n].i = "table" /\
            \E r \in ToSet(c.items[n].actions) : r.x = c.items[i].x /\
              {r.args[p] : p \in DOMAIN r.args} \cap (ToSet(c.items[i].params) \ DOMAIN r.args) # {}
PlainControls == {c \in AllControls : ~Captures(c)}

-----------------------------------------------------------------------------
(* P4 parsers of two states, and packets of two-bit headers, for module        *)
(* ParserLowering.                                                             *)
P == INSTANCE ParserSyntax

Lit(v) == P!Lit(v)
Var(x) == P!Var(x)
Add(x, e) == P!Assign(x, P!Sum(Var(x), e))
Start(x, t) == P!Decl(x, t, P!NoInit)
At(x, t, e) == P!Decl(x, t, e)

(* Parser-level declarations; a, c and g are used below.                       *)
MCLocals == {
  <<Start("a", "bits"), P!Constant("c", 1), Start("g", "header")>>,
  <<At("a", "bits", Lit(0)), Start("g", "stack"), P!Constant("c", 2)>>,
  <<P!Constant("c", 3), At("start_init", "bits", Lit(2)),
    At("a", "bits", P!Sum(Var("start_init"), Var("m"))), Start("g", "header")>>,
  <<Start("g", "stack"), P!Constant("c", 1), At("a", "bits", P!Sum(P!FieldOf("h"), Var("c")))>>}

Reading == P!Extract("h")
MCStateBodies == {
  <<Reading>>,
  <<Reading, P!Extract("g")>>,
  <<Reading, Start("t", "bits"), Add("m", Var("t")), Add("t", P!FieldOf("h")), Add("a", Var("t"))>>,
  <<At("t", "bits", P!Sum(Var("a"), Var("c"))), Reading, Add("m", Var("t"))>>,
  <<Start("q", "stack"), Add("m", P!Valid("q")), P!Extract("q"), P!If(P!FieldOf("h"), <<P!Extract("q")>>, <<>>)>>,
  <<Start("k", "header"), Add("m", P!Sum(P!Valid("k"), P!FieldOf("k"))), P!Extract("k"), Add("a", P!FieldOf("k"))>>,
  <<Reading, P!Block(<<At("a", "bits", P!FieldOf("h")), Add("m", Var("a"))>>), Add("a", Lit(1))>>,
  <<Reading, P!If(Var("a"), <<P!Constant("c", 2), Add("m", Var("c"))>>,
                            <<Start("m", "bits"), Add("m", Lit(3)), P!SetField("h", Var("m"))>>),
    Add("a", Var("c"))>>,
  <<P!Constant("t", 3), Reading, Add("a", Var("t")), P!Block(<<Start("t", "bits"), Add("t", Lit(1)), Add("m", Var("t"))>>)>>}

Case(sets, target) == [sets |-> sets, target |-> target]
MCNext == {
  P!Direct("start"), P!Direct("loop"), P!Direct("accept"),
  P!Select(<<P!FieldOf("h")>>, <<Case(<<P!Exact(1)>>, "loop"), Case(<<P!Range2(2, 3)>>, "accept"), Case(<<P!Exact(1)>>, "reject")>>),
  P!Select(<<P!FieldOf("h"), Var("a")>>,
           <<Case(<<P!Masked(3, 2), P!DontCare>>, "start"), Case(<<P!DontCare, P!Masked(1, 1)>>, "loop"),
             Case(<<P!DontCare>>, "accept")>>)}

MCParsers ==
  {[locals |-> ds, states |-> <<[name |-> "start", body |-> b1, trans |-> t1],
                                [name |-> "loop", body |-> b2, trans |-> t2]>>] :
     ds \in MCLocals, b1 \in MCStateBodies, b2 \in MCStateBodies, t1 \in MCNext, t2 \in MCNext}

(* A state that declares a name of the parser itself again.                    *)
Shadowing ==
  {[locals |-> ds, states |-> <<[name |-> "start", body |-> <<Start("a", "bits"), Reading, Add("a", P!FieldOf("h"))>>, trans |-> t1],
                                [name |-> "loop", body |-> b2, trans |-> t2]>>] :
     ds \in MCLocals, b2 \in MCStateBodies, t1 \in MCNext, t2 \in MCNext}
MCPackets == {<<1, 3, 2, 1>>, <<3, 0, 1, 1>>, <<2, 1, 2>>}
MCParams == ("h" :> "header") @@ ("m" :> "bits")
=============================================================================
