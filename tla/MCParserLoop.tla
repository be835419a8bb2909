---------------------------- MODULE MCParserLoop ----------------------------
(* The parser's interpreter (module ParserLoop), and the walk that makes a     *)
(* packet for a parser (module Walk), each from its own initial states.        *)
(*                                                                             *)
(* A parser with a loop, a sub-parser it may call twice and a leaf below it.   *)
EXTENDS ParserLoop, TLC

MCBlocks == {"main", "sub", "leaf"}
MCStates == {"main.start", "main.loop", "sub.start", "leaf.start"}
MCBlockOf == [s \in MCStates |->
  CASE s \in {"main.start", "main.loop"} -> "main"
    [] s = "sub.start" -> "sub"
    [] OTHER -> "leaf"]
MCStart == [b \in MCBlocks |->
  CASE b = "main" -> "main.start" [] b = "sub" -> "sub.start" [] OTHER -> "leaf.start"]

St(op, n, b) == [op |-> op, bits |-> n, callee |-> b]
Call(b) == St("call", 0, b)
Plain(op, n) == St(op, n, "leaf")

MCPaths == [s \in MCStates |->
  CASE s = "main.start" -> {<<Plain("local", 0), Call("sub"), Call("sub")>>, <<Plain("extract", 2)>>}
    [] s = "main.loop" -> {<<Plain("next", 1), Call("leaf")>>, <<Plain("lookahead", 1)>>}
    [] s = "sub.start" -> {<<Plain("advance", 2)>>, <<Call("leaf"), Plain("verify", 0)>>}
    [] OTHER -> {<<>>, <<Plain("extract", 1)>>}]

MCTargets == [s \in MCStates |->
  CASE MCBlockOf[s] = "main" -> {"main.start", "main.loop", "accept", "nomatch"}
    [] MCBlockOf[s] = "sub" -> {"sub.start", "accept", "reject"}
    [] OTHER -> {"accept"}]

-----------------------------------------------------------------------------
(* The walk's parsers: two states and a sub-parser, headers of a two-bit and a *)
(* one-bit field; its expressions, statements and key sets.                    *)
Lit(v) == [op |-> "literal", v |-> v]
Place(name, index, field) == [op |-> "at", name |-> name, index |-> index, field |-> field]
Var(x) == Place(x, Lit(0), "")
LastIndex(name, width) == [op |-> "last_index", name |-> name, width |-> width]
Slice(e, hi, lo) == [op |-> "slice", e |-> e, hi |-> hi, lo |-> lo]
Cast(e, width, from) == [op |-> "cast", e |-> e, width |-> width, from |-> from]
LookaheadOf(width) == [op |-> "lookahead", width |-> width]
Sum(e, width) == [op |-> "sum", e |-> e, width |-> width]   \* e + 1, which the walk does not follow

Tapes == {[i \in 0 .. 23 |-> i % 2]}
Draws == {<<0, 0>>, <<1, 1>>, <<2, 1>>, <<3, 0>>}
HeaderFields == <<[name |-> "f", width |-> 2], [name |-> "g", width |-> 1]>>

F(h) == Place(h, Lit(0), "f")
G(h) == Place(h, Lit(0), "g")
H(h) == Place(h, Lit(0), "")
Of(s, i, f) == Place(s, i, f)
ExtractInto(h) == [op |-> "extract", to |-> H(h)]
NextOf(s) == [op |-> "next", stack |-> s]
Shift(s, n) == [op |-> "shift", stack |-> s, count |-> n]
AdvanceBy(e) == [op |-> "advance", e |-> e]
VerifyThat(c) == [op |-> "verify", c |-> c]
Is(op, l, r) == [op |-> op, l |-> l, r |-> r]
Not(c) == [op |-> "not", e |-> c]
Set(to, e) == [op |-> "assign", to |-> to, e |-> e]
Copy(to, e) == [op |-> "copy", to |-> to, e |-> e]
If(c, t, e) == [op |-> "if", c |-> c, then |-> t, otherwise |-> e]
ByRef(p, e) == [param |-> p, e |-> e, byref |-> TRUE]
In(p, e) == [param |-> p, e |-> e, byref |-> FALSE]
CallSub(h, e) == [op |-> "call", block |-> "sub", args |-> <<ByRef("p", h), In("n", e)>>]

Bodies == <<
  <<ExtractInto("a")>>,
  <<ExtractInto("a"), Set(Var("x"), G("a"))>>,
  <<ExtractInto("a"), VerifyThat(Is("and", Is("eq", F("a"), Lit(2)), Is("ne", G("a"), Lit(0))))>>,
  <<ExtractInto("a"), VerifyThat(Is("or", Is("lt", F("a"), Lit(2)), Is("eq", Lit(1), G("a")))), Set(Var("x"), Lit(1))>>,
  <<ExtractInto("b"), Copy(H("a"), H("b")), Set(F("b"), Lit(3))>>,
  <<NextOf("s"), Copy(H("a"), Of("s", Lit(0), "")), Shift("s", 1), Set(Var("x"), Of("s", Lit(0), "g"))>>,
  <<Shift("s", 3), Shift("s", -1), NextOf("s"), Set(Var("x"), LastIndex("s", 3)), Copy(H("a"), Of("s", Var("x"), "")), Shift("s", -1)>>,
  <<AdvanceBy(Lit(1)), ExtractInto("a"), If(Is("ge", F("a"), Lit(2)), <<Set(Var("x"), Lit(2))>>, <<NextOf("s")>>)>>,
  <<ExtractInto("a"), If(Not(Is("eq", Slice(F("a"), 0, 0), Lit(1))), <<Set(F("a"), Lit(1))>>, <<>>)>>,
  <<ExtractInto("a"), CallSub(H("a"), F("a"))>>,
  <<ExtractInto("a"), CallSub(H("b"), Cast(F("a"), 1, 2)), Set(Var("x"), F("b"))>>,
  <<ExtractInto("a"), CallSub(H("b"), Lit(1)), CallSub(H("b"), Sum(F("a"), 2))>>,
  <<AdvanceBy(Cast(Lit(5), 1, 3)), ExtractInto("a"), Set(Var("x"), Sum(G("a"), 1)), AdvanceBy(Var("x"))>>>>
Exact(v) == [op |-> "exact", v |-> v]
Masked(v, m) == [op |-> "masked", v |-> v, mask |-> m, width |-> 2]
InRange(l, h) == [op |-> "range", lo |-> l, hi |-> h]
DontCare == [op |-> "dont_care"]
Case(sets, target) == [sets |-> sets, target |-> target]
Direct(target) == [keys |-> <<>>, cases |-> <<Case(<<>>, target)>>]
Leaving(e, other) == [keys |-> <<e>>, cases |-> <<Case(<<Exact(1)>>, "mid"), Case(<<DontCare>>, other)>>]
Selects == <<
  Direct("mid"), Leaving(Slice(F("a"), 1, 1), "start"), Leaving(Cast(F("a"), 1, 2), "accept"),
  Leaving(LookaheadOf(2), "reject"), Leaving(Var("x"), "accept"),
  [keys |-> <<F("a")>>, cases |-> <<Case(<<Masked(2, 2)>>, "mid"), Case(<<InRange(0, 1)>>, "start")>>],
  [keys |-> <<G("a"), F("a")>>,
   cases |-> <<Case(<<Exact(1), Exact(2)>>, "accept"), Case(<<DontCare, InRange(1, 3)>>, "mid"),
               Case(<<Exact(0), Masked(0, 1)>>, "start")>>]>>
Second == <<
  [body |-> <<ExtractInto("b")>>] @@ Leaving(G("b"), "start"),
  [body |-> <<Set(Var("x"), Lit(0)), NextOf("s")>>] @@ Direct("accept"),
  [body |-> <<CallSub(H("b"), F("a")), Set(F("a"), F("b"))>>] @@ 
     [keys |-> <<F("a")>>, cases |-> <<Case(<<Masked(1, 1)>>, "accept"), Case(<<Exact(2)>>, "start")>>]>>

Sub ==
  [start |-> [body |-> <<If(Is("eq", Place("n", Lit(0), ""), Lit(1)), <<ExtractInto("p")>>, <<>>)>>,
              keys |-> <<F("p")>>,
              cases |-> <<Case(<<Exact(3)>>, "rest"), Case(<<Masked(0, 2)>>, "accept"), Case(<<DontCare>>, "reject")>>],
   rest |-> [body |-> <<Set(F("p"), Place("n", Lit(0), ""))>>, keys |-> <<>>, cases |-> <<Case(<<>>, "accept")>>]]
(* Every body with every select, and the second states in turn.                *)
Parsers ==
  {[main |-> [states |-> [start |-> [body |-> Bodies[b]] @@ Selects[t],
                          mid |-> Second[((b + t) % Len(Second)) + 1]]],
    sub |-> [states |-> Sub]] : b \in DOMAIN Bodies, t \in DOMAIN Selects}

-----------------------------------------------------------------------------
VARIABLES part, parser, tape, length, reached, known, next, walk, visited, walking, sent, whole,
          decided, rewritten, chance
walked == <<parser, tape, length, reached, known, next, walk, visited, walking, sent, whole,
            decided, rewritten, chance>>
W == INSTANCE Walk WITH
       Programs <- Parsers, Fields <- HeaderFields,
       Size <- 2, Byte <- 4, MaxSteps <- 3,
       cursor <- reached, frames <- walk, phase <- walking, packet <- sent

InitLoop ==
  /\ part = "run" /\ Init
  /\ parser = 0 /\ tape = 0 /\ length = 0 /\ reached = 0 /\ known = 0 /\ next = 0 /\ walk = 0
  /\ visited = 0 /\ walking = "none" /\ sent = 0 /\ whole = TRUE /\ decided = {}
  /\ rewritten = FALSE /\ chance = FALSE
InitWalk ==
  /\ part = "walk" /\ W!Init
  /\ phase = "accepted" /\ frames = <<>> /\ cursor = 0 /\ visits = [s \in States |-> Never]
  /\ error = NoError /\ entered = {}
OnLoop == part = "run" /\ Next /\ UNCHANGED <<part, walked>>
OnWalk == part = "walk" /\ W!Next /\ UNCHANGED <<part, vars>>
SuiteSpec ==
  /\ InitLoop \/ InitWalk
  /\ [][OnLoop \/ OnWalk]_<<part, vars, walked>>
  /\ WF_vars(OnLoop)

(* The interpreter enters the states of the parser that the walk entered when  *)
(* it made the packet (generate.py Walk, stmt.py run_states).                  *)
WalkIsFollowed == part = "walk" => W!WalkIsFollowed
=============================================================================
