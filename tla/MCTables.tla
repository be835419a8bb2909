------------------------------ MODULE MCTables ------------------------------
(* Three tables: exact on two keys, lpm beside exact, ternary; keys of at most *)
(* two bits; every choice of up to two const entries the validator accepts.    *)
EXTENDS Tables

Exact(v) == [kind |-> "exact", value |-> v, mask |-> {}, prefix_len |-> 0]
Lpm(v, n) == [kind |-> "lpm", value |-> v, mask |-> {}, prefix_len |-> n]
Tern(v, m) == [kind |-> "ternary", value |-> v, mask |-> m, prefix_len |-> 0]

Lpms == {Lpm({}, 0)} \cup {Lpm(v, 1) : v \in SUBSET {1}} \cup {Lpm(v, 2) : v \in BitSets(2)}
Terns == {Tern(x[1], x[2]) : x \in {y \in BitSets(2) \X BitSets(2) : y[1] \subseteq y[2]}}

Made(keys, p) == [keys |-> keys, priority |-> p, action |-> "set"]
ExactEntries == {Made(<<Exact(v), Exact(w)>>, 0) : v, w \in BitSets(1)}
LpmEntries == {Made(<<k, Exact(w)>>, 0) : k \in Lpms, w \in BitSets(1)}
TernEntries == {Made(<<k>>, p) : k \in Terns, p \in {1, 2}}

(* A wrong kind, bits outside a prefix or the width, an unlisted action, a     *)
(* priority without a ternary key, too few keys.                               *)
BadEntries ==
  {Made(<<Exact({})>>, 1), Made(<<Lpm({0}, 1), Exact({})>>, 0),
   Made(<<Lpm({}, 3), Exact({})>>, 0), Made(<<Exact({1}), Exact({})>>, 0),
   [Made(<<Tern({}, {})>>, 1) EXCEPT !.action = "other"],
   Made(<<Exact({}), Exact({})>>, 1)}

MCHostEntries == ExactEntries \cup LpmEntries \cup TernEntries \cup BadEntries
MCHostActions == {"set", "drop", "other", "none"}

Decl(kinds, widths, fallback, fixed) ==
  [kinds |-> kinds, widths |-> widths, actions |-> {"set", "drop"},
   default_action |-> fallback, const_default_action |-> fixed]
ExactDecl == Decl(<<"exact", "exact">>, <<1, 1>>, "drop", TRUE)
LpmDecl == Decl(<<"lpm", "exact">>, <<2, 1>>, "none", FALSE)
TernDecl == Decl(<<"ternary">>, <<2>>, "drop", FALSE)
MCDecls == {ExactDecl, LpmDecl, TernDecl}

UpTo2(S) == {<<>>} \cup {<<a>> : a \in S} \cup {<<a, b>> : a, b \in S}
MCConstLists == [d \in MCDecls |->
  UpTo2(CASE d = ExactDecl -> ExactEntries [] d = LpmDecl -> LpmEntries [] OTHER -> TernEntries)]
=============================================================================
