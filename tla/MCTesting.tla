------------------------------ MODULE MCTesting ------------------------------
(* What the tests rest on: module StfReplay or module Campaign, each from its  *)
(* own initial states.                                                         *)
EXTENDS Campaign, StfReplay

-----------------------------------------------------------------------------
(* Three tables, two of one name: lpm, ternary and exact keys of two bits.     *)
Key(kind) == <<[name |-> "k", kind |-> kind, width |-> 2]>>
Table(block, name, kind) == [block |-> block, name |-> name, keys |-> Key(kind), actions |-> {"set"}]
MCProgram ==
  [tables |-> {Table("ig", "t", "lpm"), Table("eg", "t", "ternary"), Table("ig", "u", "exact")},
   actions |-> [a \in {"set"} |-> <<[name |-> "p", width |-> 1]>>]]

Digits(s) == [digits |-> s, decimal |-> Absent]
Decimal(d) == [digits |-> <<>>, decimal |-> d]
Numbers == {Digits(<<"1">>), Digits(<<"1", "0">>), Digits(<<"1", "*">>), Digits(<<"*">>), Decimal(2),
            Decimal(3), Decimal(4)}
Named1(name, n) == <<[name |-> name, number |-> n]>>
KeyOf(n, p) == <<[name |-> "k", number |-> n, prefix_len |-> p]>>
T1(q, name) == [name |-> name, qualifiers |-> q]

Add(t, k, args, pr) ==
  [is |-> "add", table |-> t, keys |-> k, args |-> args, action |-> "set", priority |-> pr]
Adds ==
  {Add(t, KeyOf(n, Absent), Named1("p", Decimal(1)), pr) :
     t \in {T1({"eg"}, "t"), T1({}, "u")}, n \in Numbers, pr \in {Absent, 1}}
  \cup {Add(T1({"ig"}, "t"), KeyOf(n, p), Named1("p", Decimal(1)), Absent) :
          n \in {Digits(<<"1", "0">>), Digits(<<"1", "1">>), Decimal(0)}, p \in {Absent, 0, 1, 2, 3}}
Wrong ==
  {Add(T1({}, "t"), KeyOf(Decimal(0), Absent), Named1("p", Decimal(1)), Absent),
   Add(T1({}, "u"), <<>>, Named1("p", Decimal(1)), Absent),
   Add(T1({}, "u"), KeyOf(Decimal(0), Absent), Named1("q", Decimal(1)), Absent),
   Add(T1({}, "u"), KeyOf(Decimal(0), Absent), Named1("p", Decimal(2)), Absent)}
Defaults == {[is |-> "setdefault", table |-> T1({}, "u"), action |-> "set", args |-> Named1("p", Decimal(d))] :
               d \in {0, 1}}
Expected == {[is |-> "expect", port |-> p, data |-> d, exact |-> x] :
               p \in {1}, d \in {<<"0", "*">>}, x \in BOOLEAN}
TableLines == Adds \cup Wrong \cup Defaults \cup Expected
           \cup {[is |-> "packet", port |-> p, data |-> d] : p \in {0, 2}, d \in {<<"0">>}}
           \cup {[is |-> "packet", port |-> 0, data |-> <<"*">>]}
           \cup {[is |-> w] : w \in {"unreadable", "no_packet"}}
MCOutputs == {[port |-> 1, data |-> <<"0", "1">>], [port |-> 1, data |-> <<"0", "1", "0">>],
              [port |-> 0, data |-> <<"0", "1">>]}

(* Two entries before a packet, and packets with their claims.                 *)
TwoLines == {l \in Adds \cup Defaults : l.is = "add" => l.table.qualifiers # {}}
            \cup {[is |-> "packet", port |-> 0, data |-> <<"0">>]}
ClaimLines == Expected \cup {[is |-> "packet", port |-> 0, data |-> <<"0">>], [is |-> "no_packet"]}
MCFiles == {[lines |-> TableLines \cup {[is |-> "wait"]}, max |-> 2, outputs |-> 0],
            [lines |-> TwoLines, max |-> 3, outputs |-> 0],
            [lines |-> ClaimLines, max |-> 4, outputs |-> 2]}

-----------------------------------------------------------------------------
VARIABLE part

NoTargets == [f \in {} |-> {}]

InitReplay == part = "stf" /\ ReplayInit /\ CampaignInit
InitCampaign == part = "drt" /\ ReplayInit /\ CampaignInit
OnReplay == part = "stf" /\ ReplayNext /\ UNCHANGED <<part, campaignVars>>
OnCampaign == part = "drt" /\ CampaignNext /\ UNCHANGED <<part, replayVars>>
SuiteSpec ==
  (InitReplay \/ InitCampaign) /\ [][OnReplay \/ OnCampaign]_<<part, replayVars, campaignVars>>
  /\ WF_campaignVars(OnCampaign)

(* A campaign runs to its end whatever the peer does (run_guided).             *)
EveryBudgetIsSpent == part = "drt" => BudgetIsSpent
=============================================================================
