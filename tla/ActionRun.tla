----------------------------- MODULE ActionRun -----------------------------
(* The action_run elaboration of frontend/blocks.py.  P4's                     *)
(* switch (t.apply().action_run) becomes a local of the block, the marker,     *)
(* which every action numbered by the switch sets as it ends, and an if-chain  *)
(* on it after the apply.  Actions are shared: a table lists several, several  *)
(* tables list one, the body calls them, and they call each other; an action   *)
(* bound in a table's list is one copy for each such table.                    *)
EXTENDS Integers, Sequences, FiniteSets, SequencesExt

CONSTANTS
  NoAction,    \* the action with no body to write a marker in
  Actions,     \* Actions[t]: the actions table t names, NoAction among them or not
  Bound,       \* Bound[t]: those it binds arguments of
  Called,      \* the actions the block's body calls, or lists unbound somewhere
  Nested,      \* Nested[a]: the actions a's body calls, in order
  Labels,      \* Labels[t]: the labels of the switch on t, in order; <<>> if none
  MaxApplies   \* bound: statements the body runs

VARIABLES
  run,      \* run[t]: the marker of the switched table t
  stack,    \* what remains of the action bodies being run: actions and marker writes
  table,    \* the table being applied, or NoTable
  ran,      \* the action it ran
  branch,   \* the last branch a switch took: a label, or "default"
  applies   \* statements run

vars == <<run, stack, table, ran, branch, applies>>

Tables == DOMAIN Actions
Switched == {t \in Tables : Labels[t] # <<>>}
NoTable == "none"
AnyAction == UNION Range(Actions) \cup Called \cup {NoAction}

-----------------------------------------------------------------------------
(* Marker: the number of each label, and the value before the apply.           *)
Number(t, a) == CHOOSE i \in DOMAIN Labels[t] : Labels[t][i] = a
Labelled(t, a) == \E i \in DOMAIN Labels[t] : Labels[t][i] = a
Initial(t) == IF Labelled(t, NoAction) THEN Number(t, NoAction) ELSE 0

(* _prepare_actions: the copies of an action; one used unbound keeps its own.  *)
Copies(a) == {t \in Tables : a \in Bound[t]}
Plain(a) == Copies(a) = {} \/ a \in Called
ActionOf(t, a) == IF a \in Bound[t] THEN [name |-> a, copy |-> t] ELSE [name |-> a, copy |-> NoTable]
Translated(c) == IF c.copy = NoTable THEN Plain(c.name) ELSE c.copy \in Copies(c.name)

(* Fault: only the labelled actions write the marker.                          *)
MarkersOfLabelled(c) ==
  {<<t, Number(t, c.name)>> : t \in {u \in Switched : Labelled(u, c.name) /\ c.copy \in {NoTable, u}
                                                      /\ c.name # NoAction}}

(* _marker_for: what the action's body ends with, one write per switched table. *)
Markers(c) ==
  LET tables == {t \in Switched : c.copy \in {NoTable, t} /\ c.name # NoAction}
  IN {<<t, Number(t, c.name)>> : t \in {u \in tables : Labelled(u, c.name)}}
     \cup {<<t, 0>> : t \in {u \in tables : ~Labelled(u, c.name) /\ Initial(u) # 0
                                            /\ c.name \in Actions[u]}}

(* translate_action: the body, then the markers.                               *)
CallTo(c) == [call |-> c, table |-> NoTable, number |-> 0]
Mark(c, m) == [call |-> c, table |-> m[1], number |-> m[2]]
BodyOf(c) ==
  [i \in DOMAIN Nested[c.name] |-> CallTo([name |-> Nested[c.name][i], copy |-> NoTable])]
  \o SetToSeq({Mark(c, m) : m \in Markers(c)})

(* _if_chain: the first label whose number the marker holds.                   *)
IfChain(t) ==
  LET hits == {i \in DOMAIN Labels[t] : run[t] = i}
  IN IF hits = {} THEN "default" ELSE Labels[t][CHOOSE i \in hits : \A j \in hits : i <= j]

-----------------------------------------------------------------------------
Init ==
  /\ run = [t \in Switched |-> 0] /\ stack = <<>> /\ table = NoTable
  /\ ran = NoAction /\ branch = "default" /\ applies = 0

Idle == stack = <<>> /\ table = NoTable /\ applies < MaxApplies

(* _switch_action_run or a plain apply: the entry or the default names a.      *)
Apply(t, a) ==
  /\ Idle /\ applies' = applies + 1
  /\ table' = t /\ ran' = a
  /\ run' = IF t \in Switched THEN [run EXCEPT ![t] = Initial(t)] ELSE run
  /\ stack' = BodyOf(ActionOf(t, a))
  /\ UNCHANGED branch

(* _call_action, from the body.                                                *)
CallAction(a) ==
  /\ Idle /\ applies' = applies + 1
  /\ stack' = BodyOf([name |-> a, copy |-> NoTable])
  /\ UNCHANGED <<run, table, ran, branch>>

Step ==
  /\ stack # <<>>
  /\ LET s == Head(stack) IN
     IF s.table = NoTable
     THEN stack' = BodyOf(s.call) \o Tail(stack) /\ UNCHANGED run
     ELSE stack' = Tail(stack) /\ run' = [run EXCEPT ![s.table] = s.number]
  /\ UNCHANGED <<table, ran, branch, applies>>

Dispatch ==
  /\ stack = <<>> /\ table # NoTable /\ table' = NoTable
  /\ branch' = IF table \in Switched THEN IfChain(table) ELSE branch
  /\ UNCHANGED <<run, stack, ran, applies>>

Next ==
  \/ \E t \in Tables : \E a \in Actions[t] \cup {NoAction} : Apply(t, a)
  \/ \E a \in Called : CallAction(a)
  \/ Step \/ Dispatch

Spec == Init /\ [][Next]_vars

-----------------------------------------------------------------------------
TypeOK ==
  /\ \A t \in Switched : run[t] \in 0 .. Len(Labels[t])
  /\ table \in Tables \cup {NoTable} /\ applies \in 0 .. MaxApplies
  /\ \A i \in DOMAIN stack : Translated(stack[i].call)

(* The branch taken is the one of the action that ran, default if it has no    *)
(* label, whatever other tables and calls left in the markers ("each action    *)
(* records which one ran in a local", docs/p4-spec-coverage.md:188).           *)
RightBranch ==
  [][Dispatch /\ table \in Switched =>
       branch' = (IF Labelled(table, ran) THEN ran ELSE "default")]_vars
=============================================================================
