------------------------------ MODULE MCPipeline ------------------------------
(* The v1model pipeline, the check of the programs it accepts, and its hash    *)
(* functions: module V1Pipeline, Profile or Hashing, each from its own initial *)
(* states.                                                                     *)
EXTENDS V1Pipeline, Profile, TLC

(* Programs of every shape: a stage alone, with a sub-block, an action, an     *)
(* action that calls another, one that only a table runs, and a sub-block that *)
(* calls another or has an action.  The stage has two statements, its callees  *)
(* one.                                                                        *)
Stmt(op, target, value) ==
  [op |-> op, target |-> target, value |-> value, callee |-> NoAction, to |-> {}]
Proc(kind, of, param, dir, variables) ==
  [kind |-> kind, of |-> of, param |-> param, dir |-> dir, vars |-> variables, body |-> <<>>]
Stage1 == [stage |-> Proc("block", "stage", "m", "inout", "m" :> "M" @@ "x" :> "M" @@ "b" :> "bit")]
Ways == {"in", "out", "inout"}
Subs(n, param, dirs) ==
  {Proc("block", n, param, d, param :> t @@ "y" :> "bit") : t \in {"bit", "M"}, d \in dirs}
Actions(of, params, dirs) ==
  {Proc("action", of, v, d, v :> t) : v \in params, t \in {"bit", "M"}, d \in dirs}

(* The statements a body may have; what is read-only is no target.             *)
Targets(p, n, t) ==
  {q \in Typed(Types(p, n), t) : q[1] = p[n].param => p[n].dir \notin {"in", "data"}}
Simple(p, n) ==
  UNION {{Stmt("assign", q, r) : q \in Targets(p, n, t), r \in Values(Types(p, n), t)} : t \in {"bit", "M"}}
  \cup {Stmt("put", None, r) : r \in Values(Types(p, n), "bit")}
  \cup {Stmt(op, q, Literal) : op \in {"get", "update"}, q \in Targets(p, n, "bit")}
Choice(value, places) == [Stmt("branch", None, value) EXCEPT !.to = places]
Conditions(p, n) == {Choice(r, {2, 3}) : r \in Values(Types(p, n), "bit")}
Applies(p, n, a) ==
  {[Stmt("apply", q, r) EXCEPT !.callee = a] :
     q \in Targets(p, n, "bit") \cup {None}, r \in Values(Types(p, n), "bit")}
CallsOf(p, n, c) ==
  {[Stmt("call", None, q) EXCEPT !.callee = c] :
     q \in IF p[c].dir = "in" THEN Values(Types(p, n), p[c].vars[p[c].param])
           ELSE Targets(p, n, p[c].vars[p[c].param])}

(* A procedure with each of the bodies.                                        *)
With1(c, bodies) == {[c EXCEPT !.body = b] : b \in bodies}
Single(statements) == {<<s>> : s \in statements}
(* The call of a callee, before or after another statement.                    *)
Around(calls) ==
  {<<c>> : c \in calls} \cup {<<c, Stmt("assign", <<"m">>, <<"x">>)>> : c \in calls}
  \cup {<<Choice(<<"b">>, {2, 3}), c>> : c \in calls}
  \cup {<<Stmt("assign", <<"x">>, <<"m">>), c>> : c \in calls}

Alone ==
  [stage : With1(Stage1.stage,
    {<<s, t>> : s \in Simple(Stage1, "stage") \cup Conditions(Stage1, "stage")
                       \cup Applies(Stage1, "stage", NoAction),
                t \in Simple(Stage1, "stage")})]
OneCallee ==
  UNION {[stage : With1(p.stage, Around(CallsOf(p, "stage", "c1"))), c1 : With1(p.c1, Single(Simple(p, "c1")))] :
         p \in [stage : {Stage1.stage}, c1 : Subs("c1", "p", Ways) \cup Actions("stage", {"a", "m"}, Ways)]}
ByTable ==
  LET c == Proc("action", "stage", "a", "data", "a" :> "bit")
      p == [stage |-> Stage1.stage, c1 |-> c]
  IN [stage : With1(p.stage, Single(Applies(p, "stage", "c1"))), c1 : With1(c, Single(Simple(p, "c1")))]
TwoCallees ==
  UNION {[stage : With1(p.stage, Single(CallsOf(p, "stage", "c1"))),
          c1 : With1(p.c1, Single(CallsOf(p, "c1", "c2"))), c2 : With1(p.c2, Single(Simple(p, "c2")))] :
         p \in [stage : {Stage1.stage}, c1 : Subs("c1", "p", Ways),
                c2 : Subs("c2", "q", Ways) \cup Actions("c1", {"q", "p"}, Ways)] \cup
              [stage : {Stage1.stage}, c1 : Actions("stage", {"a", "m"}, {"inout"}),
               c2 : Actions("stage", {"c"}, {"in", "inout"})]}

(* Parsers: what calls a sub-parser may raise in it, or come to the call again. *)
Parsers ==
  UNION {[stage : With1(p.stage, {<<c>> : c \in CallsOf(p, "stage", "c1")} \cup
                                 {<<c, Choice(<<"b">>, {1, 3})>> : c \in CallsOf(p, "stage", "c1")}),
          c1 : With1(p.c1, {<<s, Stmt("verify", None, r)>> : s \in Simple(p, "c1"),
                              r \in Values(Types(p, "c1"), "bit")})] :
         p \in [stage : {Stage1.stage}, c1 : Subs("c1", "p", Ways)]}

MCRoles == {"parser", "ingress", "compute_checksum"}
MCMetaFields == {"egress_spec", "egress_port", "own"}
MCNames == {"m", "x", "b", "y", "p", "q", "a", "c"}
MCPrograms == [r \in MCRoles |-> IF r = "parser" THEN Parsers
                                 ELSE Alone \cup OneCallee \cup ByTable \cup TwoCallees]

VARIABLES part
-----------------------------------------------------------------------------
(* Statements over one or two fields of two to six bits, words of three bits,  *)
(* bytes of two and CRCs of four, one with initial and final bits.             *)
HashFamilies == [a \in {"csum16", "crc16", "crc32"} |->
  CASE a = "csum16" -> [width |-> 3, poly |-> {}, init |-> {}, final |-> {}]
    [] a = "crc16" -> [width |-> 4, poly |-> {3, 2}, init |-> {}, final |-> {}]
    [] OTHER -> [width |-> 4, poly |-> {3, 0}, init |-> 0 .. 3, final |-> 0 .. 3]]
HashedFields(w) == {[width |-> w, bits |-> b] : b \in SUBSET (0 .. w - 1)}
Datas == {<<f>> : f \in HashedFields(6)} \cup {<<f, g>> : f \in HashedFields(3), g \in HashedFields(2)}
         \cup {<<f, g>> : f \in HashedFields(2), g \in HashedFields(2)}
Hashes ==
  {[kind |-> "hash", algorithm |-> a, data |-> d, result |-> r, base |-> b, max |-> m, condition |-> TRUE] :
     a \in DOMAIN HashFamilies, d \in Datas, r \in 2 .. 4, b \in {0, 3}, m \in {4, 6, 16}}
Updates ==
  {[kind |-> "update_checksum", algorithm |-> a, data |-> d, result |-> r, base |-> 0, max |-> 1, condition |-> c] :
     a \in {"csum16", "crc16"}, d \in Datas, r \in 3 .. 4, c \in BOOLEAN}
HashStatements == Hashes \cup Updates

VARIABLES statement, todo, env, status
hashing == <<statement, todo, env, status>>
H == INSTANCE Hashing WITH
       Statements <- HashStatements, Families <- HashFamilies, Word <- 3, Byte <- 2

NoHashing == statement = 0 /\ todo = <<>> /\ env = 0 /\ status = "done"
(* A stage with nothing to do.                                                 *)
NoProfile ==
  /\ role = "ingress" /\ procs = Stage1 /\ stack = <<Frame("stage", 1, None, FALSE)>>
  /\ stores = <<Store("stage", Metadata)>> /\ given = {}
NoPipeline ==
  /\ exports = Required /\ declared = Provided /\ meta = ZeroMeta /\ at = "idle" /\ selected = 0
  /\ outputs = <<>> /\ diagnostics = 0 /\ cells = <<>> /\ counts = <<>> /\ tally = <<>>
  /\ ops = 0 /\ seen = [p \in Places |-> 0] /\ asked = [ingress |-> 0, egress |-> 0]

SuiteInit ==
  /\ part \in {"pipeline", "profile", "hashing"}
  /\ IF part = "pipeline" THEN Init ELSE NoPipeline
  /\ IF part = "profile" THEN ProfileInit ELSE NoProfile
  /\ IF part = "hashing" THEN H!Init ELSE NoHashing
OnPipeline == part = "pipeline" /\ Next /\ UNCHANGED <<part, profileVars, hashing>>
OnProfile == part = "profile" /\ ProfileNext /\ UNCHANGED <<part, vars, hashing>>
OnHashing == part = "hashing" /\ H!Next /\ UNCHANGED <<part, vars, profileVars>>
SuiteSpec ==
  /\ SuiteInit /\ [][OnPipeline \/ OnProfile \/ OnHashing]_<<part, vars, profileVars, hashing>>
  /\ WF_vars(part = "pipeline" /\ Done /\ UNCHANGED <<part, profileVars, hashing>>)

(* hash and update_checksum leave what P4 and the reference algorithms say in  *)
(* their target (_hash, _update_checksum, internet_checksum, crc16, crc32).    *)
HashesAsWritten == part = "hashing" => H!HashesAsWritten
=============================================================================
