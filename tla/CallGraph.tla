------------------------------ MODULE CallGraph ------------------------------
(* The call graph of a program's blocks, and of the actions of one block, and  *)
(* the coloured depth-first search that reports its cycles (validator/calls.py *)
(* check_call_block, check_call_action, report_cycles).  The recursion of      *)
(* visit is an explicit stack here.  Statements are reduced to what a call     *)
(* names and whether it stands in an action.                                   *)
EXTENDS Integers, Sequences, FiniteSets

CONSTANTS
  N,        \* declarations; declaration n is the n-th in the program's order
  MaxCalls  \* bound: call statements of one declaration

ASSUME SizeAssumption == N \in Nat \ {0} /\ MaxCalls \in Nat

Nodes == 1 .. N
Unresolved == 0

(* A call statement: its callee, and whether it stands inside an action, where *)
(* check_call_block reports it and records no edge.                            *)
CallStmt == [callee : Nodes \cup {Unresolved}, barred : BOOLEAN]

Colors == {"white", "grey", "black"}

VARIABLES
  pending,  \* per declaration: the call statements not checked yet
  calls,    \* per declaration: the recorded edges, in order
  color,    \* the dict of report_cycles
  stack,    \* the visits under way: a node and the index of its next edge
  reports,  \* CALL_CYCLE: the call that closes the cycle, and the cycle
  rank,     \* history: the order in which the nodes turned black, 0 before
  phase     \* "check" the statements, then "search", then "done"

vars == <<pending, calls, color, stack, reports, rank, phase>>

Visit == [node : Nodes, next : Nat]
Report == [caller : Nodes, edge : Nat, cycle : Seq(Nodes)]

Top == stack[Len(stack)]
Trail == [i \in DOMAIN stack |-> stack[i].node]
Blacks == {n \in Nodes : color[n] = "black"}

Init ==
  /\ pending \in [Nodes -> UNION {[1 .. k -> CallStmt] : k \in 0 .. MaxCalls}]
  /\ calls = [n \in Nodes |-> <<>>]
  /\ color = [n \in Nodes |-> "white"]
  /\ stack = <<>> /\ reports = {} /\ rank = [n \in Nodes |-> 0]
  /\ phase = "check"

(* check_call_block: an unresolved callee and a call in an action are reported *)
(* and leave no edge.  The declarations are checked in their order.            *)
CheckCall ==
  /\ phase = "check"
  /\ \E n \in Nodes :
       /\ pending[n] # <<>> /\ \A m \in 1 .. n - 1 : pending[m] = <<>>
       /\ LET c == Head(pending[n]) IN
          calls' = IF c.barred \/ c.callee = Unresolved THEN calls
                   ELSE [calls EXCEPT ![n] = Append(@, c.callee)]
       /\ pending' = [pending EXCEPT ![n] = Tail(@)]
  /\ UNCHANGED <<color, stack, reports, rank, phase>>

(* check_call_graph, after every block.                                        *)
StartSearch ==
  /\ phase = "check"
  /\ \A n \in Nodes : pending[n] = <<>>
  /\ phase' = "search"
  /\ UNCHANGED <<pending, calls, color, stack, reports, rank>>

Enter(n) == color' = [color EXCEPT ![n] = "grey"]

(* The loop over the colours: the first white node is visited.                 *)
StartRoot ==
  /\ phase = "search" /\ stack = <<>>
  /\ \E n \in Nodes :
       /\ color[n] = "white" /\ \A m \in 1 .. n - 1 : color[m] # "white"
       /\ Enter(n)
       /\ stack' = <<[node |-> n, next |-> 1]>>
  /\ UNCHANGED <<pending, calls, reports, rank, phase>>

AtEdge == /\ phase = "search" /\ stack # <<>>
          /\ Top.next <= Len(calls[Top.node])
Callee == calls[Top.node][Top.next]
Advanced == [stack EXCEPT ![Len(stack)].next = @ + 1]

Descend ==
  /\ AtEdge /\ color[Callee] = "white"
  /\ Enter(Callee)
  /\ stack' = Append(Advanced, [node |-> Callee, next |-> 1])
  /\ UNCHANGED <<pending, calls, reports, rank, phase>>

(* chain[chain.index(callee):]: the trail from where the callee stands on it.  *)
CycleFrom(n) ==
  LET at == CHOOSE i \in DOMAIN stack : stack[i].node = n /\
                     \A j \in 1 .. i - 1 : stack[j].node # n
  IN SubSeq(Trail, at, Len(stack))

ReportCycle ==
  /\ AtEdge /\ color[Callee] = "grey"
  /\ reports' = reports \cup
       {[caller |-> Top.node, edge |-> Top.next, cycle |-> CycleFrom(Callee)]}
  /\ stack' = Advanced
  /\ UNCHANGED <<pending, calls, color, rank, phase>>

Skip ==
  /\ AtEdge /\ color[Callee] = "black"
  /\ stack' = Advanced
  /\ UNCHANGED <<pending, calls, color, reports, rank, phase>>

(* Fault: a node is black as soon as its first callee is.                      *)
LeaveEarly ==
  /\ phase = "search" /\ stack # <<>>
  /\ Top.next > 1 \/ calls[Top.node] = <<>>
  /\ color' = [color EXCEPT ![Top.node] = "black"]
  /\ rank' = [rank EXCEPT ![Top.node] = Cardinality(Blacks) + 1]
  /\ stack' = SubSeq(stack, 1, Len(stack) - 1)
  /\ UNCHANGED <<pending, calls, reports, phase>>

Leave ==
  /\ phase = "search" /\ stack # <<>>
  /\ Top.next > Len(calls[Top.node])
  /\ color' = [color EXCEPT ![Top.node] = "black"]
  /\ rank' = [rank EXCEPT ![Top.node] = Cardinality(Blacks) + 1]
  /\ stack' = SubSeq(stack, 1, Len(stack) - 1)
  /\ UNCHANGED <<pending, calls, reports, phase>>

Finish ==
  /\ phase = "search" /\ stack = <<>>
  /\ \A n \in Nodes : color[n] # "white"
  /\ phase' = "done"
  /\ UNCHANGED <<pending, calls, color, stack, reports, rank>>

Next == \/ CheckCall \/ StartSearch \/ StartRoot \/ Descend \/ ReportCycle
        \/ Skip \/ Leave \/ Finish

Spec == Init /\ [][Next]_vars

-----------------------------------------------------------------------------
Edges(n) == {calls[n][i] : i \in DOMAIN calls[n]}

TypeOK ==
  /\ pending \in [Nodes -> Seq(CallStmt)] /\ calls \in [Nodes -> Seq(Nodes)]
  /\ color \in [Nodes -> Colors] /\ stack \in Seq(Visit)
  /\ reports \subseteq Report /\ rank \in [Nodes -> 0 .. N]
  /\ phase \in {"check", "search", "done"}

(* The grey nodes are the visits under way, each once, so that the index of a  *)
(* grey callee in the chain always exists (the color dict and the trail).      *)
GreyIsTrail ==
  /\ {n \in Nodes : color[n] = "grey"} = {stack[i].node : i \in DOMAIN stack}
  /\ \A i, j \in DOMAIN stack : i # j => stack[i].node # stack[j].node

IsCycle(r) ==
  LET c == r.cycle IN
  /\ c # <<>> /\ c[Len(c)] = r.caller
  /\ calls[r.caller][r.edge] = c[1]
  /\ \A i \in 1 .. Len(c) - 1 : c[i + 1] \in Edges(c[i])

(* A report names a cycle that is there: its blocks call one another in turn,  *)
(* and the reported call closes it (report_cycles).                            *)
ReportsAreCycles == \A r \in reports : IsCycle(r)

(* A program without a report has an order in which every block calls only     *)
(* blocks before it: recursion ends (the contract of check_call_graph, and     *)
(* what ParserLoop assumes of a validated program).                            *)
NoReportMeansRanked ==
  phase = "done" /\ reports = {} =>
    \A n \in Nodes : \A m \in Edges(n) : rank[m] < rank[n]

(* Every cycle has a call at which a cycle is reported, however many cycles    *)
(* share their calls ("every cycle in edges", report_cycles).                  *)
Closes(r) == <<r.caller, calls[r.caller][r.edge]>>
EveryCycleIsCut ==
  phase = "done" =>
    \A c \in UNION {[1 .. k -> Nodes] : k \in Nodes} :
      (\A i \in DOMAIN c : c[(i % Len(c)) + 1] \in Edges(c[i])) =>
        \E r \in reports, i \in DOMAIN c : Closes(r) = <<c[i], c[(i % Len(c)) + 1]>>

(* All that the search promises: it reports cycles only, leaves none uncut,    *)
(* and its silence means that recursion ends (report_cycles).                  *)
SearchIsExact == ReportsAreCycles /\ NoReportMeansRanked /\ EveryCycleIsCut
=============================================================================
