--------------------------- MODULE Validator_proofs ---------------------------
(* Proofs about the two checks of the validator that follow a structure of any *)
(* size: the search for recursion, for any number of declarations and calls,   *)
(* and the typing of expressions, for every expression over every set of       *)
(* declarations.                                                               *)
EXTENDS CallGraph, Expressions, Numbers_proofs, FiniteSetTheorems, SequenceTheorems

-----------------------------------------------------------------------------
(* The cycle search.                                                           *)

Reported(n, j) == \E r \in reports : r.caller = n /\ r.edge = j
Settled(n, j) == color[calls[n][j]] = "black" \/ Reported(n, j)

(* Nothing is coloured before every statement is checked.                      *)
CheckInv ==
  phase = "check" => stack = <<>> /\ reports = {} /\ \A n \in Nodes : color[n] = "white"

DoneInv == phase = "done" => stack = <<>> /\ \A n \in Nodes : color[n] # "white"

(* Each visit under way has just entered the next one on the stack.            *)
StackInv ==
  /\ \A i \in DOMAIN stack : stack[i].next \in 1 .. Len(calls[stack[i].node]) + 1
  /\ \A i \in 1 .. Len(stack) - 1 :
       /\ stack[i].next > 1
       /\ calls[stack[i].node][stack[i].next - 1] = stack[i + 1].node

(* The edges a visit has passed lead to black nodes or are reported.           *)
PassedInv ==
  \A i \in DOMAIN stack : \A j \in 1 .. stack[i].next - 1 :
    i = Len(stack) \/ j < stack[i].next - 1 => Settled(stack[i].node, j)

(* Ranks follow the order in which nodes turned black; an edge of a black node *)
(* leads to a lower rank or is reported.                                       *)
RankInv ==
  /\ \A n \in Nodes : color[n] = "black" => rank[n] \in 1 .. Cardinality(Blacks)
  /\ \A n \in Nodes : color[n] = "black" => \A j \in DOMAIN calls[n] :
       \/ color[calls[n][j]] = "black" /\ rank[calls[n][j]] < rank[n]
       \/ Reported(n, j)

EdgesInv == \A r \in reports : r.edge \in DOMAIN calls[r.caller]

SearchInv ==
  /\ TypeOK /\ CheckInv /\ DoneInv /\ GreyIsTrail /\ StackInv /\ PassedInv /\ RankInv
  /\ EdgesInv /\ ReportsAreCycles

-----------------------------------------------------------------------------
LEMMA BlacksFinite ==
  /\ IsFiniteSet(Nodes) /\ Cardinality(Nodes) = N
  /\ IsFiniteSet(Blacks) /\ Cardinality(Blacks) \in 0 .. N
<1>1. IsFiniteSet(Nodes) /\ Cardinality(Nodes) = N
  BY FS_Interval, SizeAssumption DEF Nodes
<1>2. IsFiniteSet(Blacks) /\ Cardinality(Blacks) <= N
  BY <1>1, FS_Subset DEF Blacks
<1> QED BY <1>1, <1>2, FS_CardinalityType

(* One more black node, as long as there is a node that is not black.          *)
LEMMA OneMoreBlack ==
  ASSUME TypeOK, NEW n \in Nodes, color[n] # "black",
         color' = [color EXCEPT ![n] = "black"]
  PROVE  /\ Cardinality(Blacks') = Cardinality(Blacks) + 1
         /\ Cardinality(Blacks) + 1 \in 1 .. N
<1>1. Blacks' = Blacks \cup {n} /\ n \notin Blacks
  BY DEF Blacks, TypeOK, Colors
<1>2. Cardinality(Blacks') = Cardinality(Blacks) + 1
  BY <1>1, BlacksFinite, FS_AddElement
<1>3. Blacks \cup {n} \in SUBSET Nodes
  BY DEF Blacks
<1>4. Cardinality(Blacks \cup {n}) <= N
  BY <1>3, BlacksFinite, FS_Subset
<1> QED BY <1>1, <1>2, <1>4, BlacksFinite, SizeAssumption

LEMMA InitSearch == Init => SearchInv
<1> SUFFICES ASSUME Init PROVE SearchInv
  OBVIOUS
<1>1. TypeOK
  <2>1. pending \in [Nodes -> Seq(CallStmt)]
    <3> SUFFICES ASSUME NEW n \in Nodes PROVE pending[n] \in Seq(CallStmt)
      BY DEF Init
    <3>1. PICK k \in 0 .. MaxCalls : pending[n] \in [1 .. k -> CallStmt]
      BY DEF Init
    <3> QED BY <3>1, SizeAssumption
  <2> QED BY <2>1, SizeAssumption DEF Init, TypeOK, Colors, Nodes, Report
<1>2. CheckInv /\ DoneInv /\ GreyIsTrail /\ StackInv /\ PassedInv /\ RankInv
      /\ EdgesInv /\ ReportsAreCycles
  BY DEF Init, CheckInv, DoneInv, GreyIsTrail, StackInv, PassedInv, RankInv, EdgesInv,
         ReportsAreCycles
<1> QED BY <1>1, <1>2 DEF SearchInv

-----------------------------------------------------------------------------
(* The statements of a declaration are checked before anything is coloured.    *)
LEMMA CheckPreserves ==
  ASSUME SearchInv, CheckCall \/ StartSearch
  PROVE  SearchInv'
<1> USE DEF SearchInv
<1>0. phase = "check" /\ stack = <<>> /\ reports = {} /\ \A n \in Nodes : color[n] = "white"
  BY DEF CheckCall, StartSearch, CheckInv
<1>1. UNCHANGED <<color, stack, reports, rank>> /\ phase' \in {"check", "search"}
  BY <1>0 DEF CheckCall, StartSearch
<1>2. TypeOK'
  <2>1. CASE StartSearch
    BY <2>1 DEF StartSearch, TypeOK
  <2>2. CASE CheckCall
    <3>1. PICK n \in Nodes :
            /\ pending[n] # <<>>
            /\ calls' = IF Head(pending[n]).barred \/ Head(pending[n]).callee = Unresolved
                        THEN calls ELSE [calls EXCEPT ![n] = Append(@, Head(pending[n]).callee)]
            /\ pending' = [pending EXCEPT ![n] = Tail(@)]
      BY <2>2 DEF CheckCall
    <3>2. pending[n] \in Seq(CallStmt) /\ calls[n] \in Seq(Nodes)
      BY DEF TypeOK
    <3>3. Head(pending[n]) \in CallStmt /\ Tail(pending[n]) \in Seq(CallStmt)
      BY <3>1, <3>2, HeadTailProperties
    <3>4. pending' \in [Nodes -> Seq(CallStmt)]
      BY <3>1, <3>3 DEF TypeOK
    <3>5. calls' \in [Nodes -> Seq(Nodes)]
      <4>1. CASE Head(pending[n]).barred \/ Head(pending[n]).callee = Unresolved
        BY <3>1, <4>1 DEF TypeOK
      <4>2. CASE ~(Head(pending[n]).barred \/ Head(pending[n]).callee = Unresolved)
        <5>1. Head(pending[n]).callee \in Nodes
          BY <3>3, <4>2 DEF CallStmt
        <5>2. Append(calls[n], Head(pending[n]).callee) \in Seq(Nodes)
          BY <3>2, <5>1
        <5> QED BY <3>1, <4>2, <5>2 DEF TypeOK
      <4> QED BY <4>1, <4>2
    <3> QED BY <1>1, <3>4, <3>5 DEF TypeOK
  <2> QED BY <2>1, <2>2
<1>3. CheckInv' /\ DoneInv' /\ GreyIsTrail' /\ StackInv' /\ PassedInv' /\ RankInv'
      /\ EdgesInv' /\ ReportsAreCycles'
  BY <1>0, <1>1 DEF CheckInv, DoneInv, GreyIsTrail, StackInv, PassedInv, RankInv, EdgesInv,
                    ReportsAreCycles
<1> QED BY <1>2, <1>3

-----------------------------------------------------------------------------
(* While the search runs the edges do not change, and a cycle stays one.       *)
LEMMA CyclesStay ==
  ASSUME UNCHANGED calls
  PROVE  \A r : IsCycle(r) => IsCycle(r)'
BY DEF IsCycle, Edges

LEMMA RootPreserves ==
  ASSUME SearchInv, StartRoot
  PROVE  SearchInv'
<1> USE DEF SearchInv
<1>1. PICK n \in Nodes : /\ color[n] = "white" /\ color' = [color EXCEPT ![n] = "grey"]
                         /\ stack' = <<[node |-> n, next |-> 1]>>
  BY DEF StartRoot, Enter
<1>2. phase = "search" /\ stack = <<>> /\ UNCHANGED <<pending, calls, reports, rank, phase>>
  BY DEF StartRoot
<1>3. Len(stack') = 1 /\ stack'[1] = [node |-> n, next |-> 1] /\ DOMAIN stack' = {1}
  BY <1>1
<1>4. Blacks' = Blacks
  BY <1>1 DEF Blacks, TypeOK
<1>5. TypeOK'
  BY <1>1, <1>2 DEF TypeOK, Colors, Visit
<1>6. GreyIsTrail'
  BY <1>1, <1>2, <1>3 DEF GreyIsTrail, TypeOK
<1>7. StackInv'
  BY <1>1, <1>2, <1>3 DEF StackInv, TypeOK
<1>8. PassedInv'
  BY <1>3 DEF PassedInv
<1>9. RankInv'
  <2>1. \A m \in Nodes : color'[m] = "black" <=> color[m] = "black"
    BY <1>1 DEF TypeOK
  <2>2. \A m \in Nodes : \A j \in DOMAIN calls[m] : calls[m][j] \in Nodes
    BY DEF TypeOK
  <2> QED BY <1>2, <1>4, <2>1, <2>2 DEF RankInv, Reported
<1>10. CheckInv' /\ DoneInv' /\ EdgesInv' /\ ReportsAreCycles'
  <2>1. ReportsAreCycles'
    BY <1>2, CyclesStay DEF ReportsAreCycles
  <2> QED BY <1>2, <2>1 DEF CheckInv, DoneInv, EdgesInv
<1> QED BY <1>5, <1>6, <1>7, <1>8, <1>9, <1>10

(* The top of the stack and its next edge.                                     *)
LEMMA TopFacts ==
  ASSUME TypeOK, StackInv, stack # <<>>
  PROVE  /\ Len(stack) \in Nat \ {0} /\ Len(stack) \in DOMAIN stack
         /\ DOMAIN stack = 1 .. Len(stack)
         /\ Top \in Visit /\ Top.node \in Nodes /\ calls[Top.node] \in Seq(Nodes)
         /\ Top.next \in 1 .. Len(calls[Top.node]) + 1
         /\ AtEdge => Callee \in Nodes /\ Top.next \in DOMAIN calls[Top.node]
         /\ Advanced \in Seq(Visit) /\ Len(Advanced) = Len(stack)
         /\ DOMAIN Advanced = DOMAIN stack
         /\ \A i \in DOMAIN stack : Advanced[i] = IF i = Len(stack)
              THEN [node |-> Top.node, next |-> Top.next + 1] ELSE stack[i]
         /\ \A i \in DOMAIN stack : Advanced[i].node = stack[i].node
<1>1. Len(stack) \in Nat \ {0} /\ Len(stack) \in DOMAIN stack /\ DOMAIN stack = 1 .. Len(stack)
  BY EmptySeq, LenProperties DEF TypeOK
<1>2. Top \in Visit
  BY <1>1 DEF Top, TypeOK
<1>3. Top.node \in Nodes /\ calls[Top.node] \in Seq(Nodes)
  BY <1>2 DEF Visit, TypeOK
<1>4. Top.next \in 1 .. Len(calls[Top.node]) + 1
  BY <1>1 DEF StackInv, Top
<1>5. AtEdge => Callee \in Nodes /\ Top.next \in DOMAIN calls[Top.node]
  BY <1>3, <1>4 DEF AtEdge, Callee
<1>6. [Top EXCEPT !.next = Top.next + 1] = [node |-> Top.node, next |-> Top.next + 1]
  BY <1>2 DEF Visit
<1>7. [node |-> Top.node, next |-> Top.next + 1] \in Visit
  BY <1>2, <1>3 DEF Visit
<1>8. Advanced = [stack EXCEPT ![Len(stack)] = [node |-> Top.node, next |-> Top.next + 1]]
  BY <1>1, <1>6 DEF Advanced, Top, TypeOK
<1>9. /\ Advanced \in Seq(Visit) /\ Len(Advanced) = Len(stack) /\ DOMAIN Advanced = DOMAIN stack
      /\ \A i \in DOMAIN stack : Advanced[i] = IF i = Len(stack)
           THEN [node |-> Top.node, next |-> Top.next + 1] ELSE stack[i]
  BY <1>1, <1>7, <1>8, ExceptSeq DEF TypeOK
<1>10. \A i \in DOMAIN stack : Advanced[i].node = stack[i].node
  BY <1>9 DEF Top
<1> QED BY <1>1, <1>2, <1>3, <1>4, <1>5, <1>9, <1>10

(* Moving past an edge that is settled keeps what is said of the stack.        *)
LEMMA AdvanceStack ==
  ASSUME SearchInv, AtEdge, stack' = Advanced, UNCHANGED <<calls, color>>,
         reports \subseteq reports',
         \/ color[Callee] = "black"
         \/ \E r \in reports' : r.caller = Top.node /\ r.edge = Top.next
  PROVE  StackInv' /\ PassedInv' /\ GreyIsTrail' /\ stack' \in Seq(Visit)
<1> TypeOK /\ StackInv /\ PassedInv /\ GreyIsTrail /\ stack # <<>>
  BY DEF SearchInv, AtEdge
<1> DEFINE L == Len(stack)
<1>1. /\ L \in Nat \ {0} /\ DOMAIN stack = 1 .. L /\ DOMAIN stack' = 1 .. L /\ Len(stack') = L
      /\ stack' \in Seq(Visit) /\ stack \in Seq(Visit)
  BY TopFacts DEF TypeOK
<1>2. \A i \in 1 .. L : /\ stack'[i].node = stack[i].node
                        /\ i # L => stack'[i] = stack[i]
                        /\ stack[i].next \in Nat
  <2> SUFFICES ASSUME NEW i \in 1 .. L
               PROVE  /\ stack'[i].node = stack[i].node
                      /\ i # L => stack'[i] = stack[i]
                      /\ stack[i].next \in Nat
    OBVIOUS
  <2>1. stack[i] \in Visit
    BY <1>1
  <2>2. Advanced[i].node = stack[i].node /\ (i # L => Advanced[i] = stack[i])
    BY <1>1, TopFacts
  <2> QED BY <2>1, <2>2 DEF Visit
<1>3. /\ stack[L] = Top /\ stack'[L].next = Top.next + 1 /\ Top.next \in Nat \ {0}
      /\ Top.next \in DOMAIN calls[Top.node] /\ calls[Top.node] \in Seq(Nodes)
  BY TopFacts DEF Top
<1> HIDE DEF L
<1>4. StackInv'
  <2>1. \A i \in 1 .. L : stack'[i].next \in 1 .. Len(calls[stack'[i].node]) + 1
    <3> SUFFICES ASSUME NEW i \in 1 .. L
                 PROVE  stack'[i].next \in 1 .. Len(calls[stack'[i].node]) + 1
      OBVIOUS
    <3>1. stack[i].next \in 1 .. Len(calls[stack[i].node]) + 1
      BY <1>1 DEF StackInv
    <3>2. CASE i = L
      BY <1>1, <1>2, <1>3, <3>2
    <3>3. CASE i # L
      BY <1>2, <3>1, <3>3
    <3> QED BY <3>2, <3>3
  <2>2. \A i \in 1 .. L - 1 : /\ stack'[i].next > 1
                              /\ calls[stack'[i].node][stack'[i].next - 1] = stack'[i + 1].node
    <3> SUFFICES ASSUME NEW i \in 1 .. L - 1
                 PROVE  /\ stack'[i].next > 1
                        /\ calls[stack'[i].node][stack'[i].next - 1] = stack'[i + 1].node
      OBVIOUS
    <3>1. i \in 1 .. L /\ i + 1 \in 1 .. L /\ i # L
      BY <1>1
    <3>2. stack'[i] = stack[i] /\ stack'[i + 1].node = stack[i + 1].node
      BY <1>2, <3>1
    <3> QED BY <3>2 DEF StackInv, L
  <2> QED BY <1>1, <2>1, <2>2 DEF StackInv
<1>5. GreyIsTrail'
  <2>1. {stack'[i].node : i \in DOMAIN stack'} = {stack[i].node : i \in DOMAIN stack}
    BY <1>1, <1>2
  <2>2. \A i, j \in DOMAIN stack' : i # j => stack'[i].node # stack'[j].node
    BY <1>1, <1>2 DEF GreyIsTrail
  <2> QED BY <2>1, <2>2 DEF GreyIsTrail
<1>6. PassedInv'
  <2>1. \A i \in 1 .. L : \A j \in 1 .. stack'[i].next - 1 :
          i = L \/ j < stack'[i].next - 1 =>
            \A n : n = stack'[i].node => color[calls[n][j]] = "black" \/ Reported(n, j)'
    <3> SUFFICES ASSUME NEW i \in 1 .. L, NEW j \in 1 .. stack'[i].next - 1,
                        i = L \/ j < stack'[i].next - 1,
                        NEW n, n = stack'[i].node
                 PROVE  color[calls[n][j]] = "black" \/ Reported(n, j)'
      OBVIOUS
    <3>1. Reported(n, j) => Reported(n, j)'
      BY DEF Reported
    <3>2. CASE i = L /\ j = Top.next
      <4>1. n = Top.node
        BY <1>2, <1>3, <1>1, <3>2
      <4> QED BY <3>2, <4>1 DEF Callee, Reported
    <3>3. CASE ~(i = L /\ j = Top.next)
      <4>1. j \in 1 .. stack[i].next - 1 /\ (i = L \/ j < stack[i].next - 1)
        BY <1>2, <1>3, <3>3
      <4>2. n = stack[i].node
        BY <1>2
      <4>3. Settled(n, j)
        BY <1>1, <4>1, <4>2 DEF PassedInv, L
      <4> QED BY <3>1, <4>3 DEF Settled
    <3> QED BY <3>2, <3>3
  <2> QED BY <1>1, <2>1 DEF PassedInv, Settled, Reported
<1> QED BY <1>1, <1>4, <1>5, <1>6

LEMMA SkipPreserves ==
  ASSUME SearchInv, Skip
  PROVE  SearchInv'
<1>1. /\ AtEdge /\ color[Callee] = "black" /\ stack' = Advanced
      /\ UNCHANGED <<pending, calls, color, reports, rank, phase>>
  BY DEF Skip
<1>2. StackInv' /\ PassedInv' /\ GreyIsTrail' /\ stack' \in Seq(Visit)
  BY <1>1, AdvanceStack
<1>3. TypeOK'
  BY <1>1, <1>2 DEF TypeOK, SearchInv
<1>4. phase = "search"
  BY <1>1 DEF AtEdge
<1>5. Blacks' = Blacks
  BY <1>1 DEF Blacks
<1>6. \A n, j : Reported(n, j)' <=> Reported(n, j)
  BY <1>1 DEF Reported
<1>7. RankInv'
  BY <1>1, <1>5, <1>6 DEF RankInv, SearchInv
<1>8. CheckInv' /\ DoneInv' /\ EdgesInv' /\ ReportsAreCycles'
  <2>1. ReportsAreCycles'
    BY <1>1, CyclesStay DEF ReportsAreCycles, SearchInv
  <2> QED BY <1>1, <1>4, <2>1 DEF CheckInv, DoneInv, EdgesInv, SearchInv
<1> QED BY <1>2, <1>3, <1>7, <1>8 DEF SearchInv

(* Reporting a cycle: the grey callee stands on the trail, and each block on   *)
(* the trail has just called the next.                                         *)
LEMMA CycleFacts ==
  ASSUME SearchInv, AtEdge, color[Callee] = "grey"
  PROVE  LET c == CycleFrom(Callee) IN
         /\ c \in Seq(Nodes) /\ c # <<>> /\ c[1] = Callee /\ c[Len(c)] = Top.node
         /\ \A i \in 1 .. Len(c) - 1 : c[i + 1] \in Edges(c[i])
<1> TypeOK /\ StackInv /\ GreyIsTrail /\ stack # <<>>
  BY DEF SearchInv, AtEdge
<1> DEFINE L == Len(stack)
<1>1. /\ L \in Nat \ {0} /\ DOMAIN stack = 1 .. L /\ stack \in Seq(Visit)
      /\ stack[L] = Top /\ Callee \in Nodes /\ calls \in [Nodes -> Seq(Nodes)]
  BY TopFacts DEF TypeOK, Top
<1> DEFINE P(i) == stack[i].node = Callee /\ \A j \in 1 .. i - 1 : stack[j].node # Callee
           at == CHOOSE i \in DOMAIN stack : P(i)
           c == SubSeq(Trail, at, Len(stack))
<1>2. PICK k \in 1 .. L : stack[k].node = Callee
  BY <1>1 DEF GreyIsTrail
<1>3. \A j \in 1 .. k - 1 : stack[j].node # Callee
  <2> SUFFICES ASSUME NEW j \in 1 .. k - 1 PROVE stack[j].node # Callee
    OBVIOUS
  <2>1. j \in 1 .. L /\ k \in 1 .. L /\ j # k
    BY <1>1, <1>2
  <2> QED BY <1>1, <1>2, <2>1 DEF GreyIsTrail
<1>4. at \in 1 .. L /\ stack[at].node = Callee
  BY <1>1, <1>2, <1>3
<1>5. Trail \in Seq(Nodes) /\ Len(Trail) = L /\ \A i \in 1 .. L : Trail[i] = stack[i].node
  <2>1. Trail = [i \in 1 .. L |-> stack[i].node]
    BY <1>1 DEF Trail
  <2>2. \A i \in 1 .. L : stack[i].node \in Nodes
    <3>1. \A i \in 1 .. L : stack[i] \in Visit
      BY <1>1
    <3> QED BY <3>1 DEF Visit
  <2> QED BY <1>1, <2>1, <2>2, IsASeq
<1>6. c = CycleFrom(Callee)
  BY DEF CycleFrom
<1> HIDE DEF at, L
<1>7. /\ c \in Seq(Nodes) /\ Len(c) = L - at + 1
      /\ \A i \in 1 .. L - at + 1 : c[i] = Trail[at + i - 1]
  BY <1>1, <1>4, <1>5, SubSeqProperties DEF L
<1> HIDE DEF c
<1>8. c # <<>> /\ c[1] = Callee /\ c[Len(c)] = Top.node
  <2>1. Len(c) \in Nat \ {0}
    BY <1>1, <1>4, <1>7
  <2>2. c[1] = stack[at].node
    BY <1>1, <1>4, <1>5, <1>7
  <2>3. c[Len(c)] = stack[L].node
    BY <1>1, <1>4, <1>5, <1>7
  <2> QED BY <1>1, <1>4, <1>7, <2>1, <2>2, <2>3, EmptySeq
<1>9. \A i \in 1 .. Len(c) - 1 : c[i + 1] \in Edges(c[i])
  <2> SUFFICES ASSUME NEW i \in 1 .. Len(c) - 1 PROVE c[i + 1] \in Edges(c[i])
    OBVIOUS
  <2> DEFINE j == at + i - 1
  <2>1. j \in 1 .. L - 1 /\ j \in 1 .. L /\ j + 1 \in 1 .. L /\ at + (i + 1) - 1 = j + 1
    BY <1>1, <1>4, <1>7
  <2>2. c[i] = stack[j].node /\ c[i + 1] = stack[j + 1].node
    <3>1. i \in 1 .. L - at + 1 /\ i + 1 \in 1 .. L - at + 1
      BY <1>1, <1>4, <1>7
    <3>2. c[i] = Trail[j] /\ c[i + 1] = Trail[j + 1]
      BY <1>7, <2>1, <3>1
    <3> QED BY <1>5, <2>1, <3>2
  <2> HIDE DEF j
  <2>3. /\ stack[j].next \in 2 .. Len(calls[stack[j].node]) + 1
        /\ calls[stack[j].node][stack[j].next - 1] = stack[j + 1].node
    <3>1. stack[j].next \in 1 .. Len(calls[stack[j].node]) + 1
      BY <1>1, <2>1 DEF StackInv
    <3>2. stack[j].next > 1 /\ calls[stack[j].node][stack[j].next - 1] = stack[j + 1].node
      BY <2>1 DEF StackInv, L
    <3>3. Len(calls[stack[j].node]) \in Nat
      <4>1. stack[j] \in Visit
        BY <1>1, <2>1
      <4> QED BY <1>1, <4>1, LenProperties DEF Visit
    <3> QED BY <3>1, <3>2, <3>3
  <2>4. stack[j].next - 1 \in DOMAIN calls[stack[j].node]
    <3>1. stack[j] \in Visit
      BY <1>1, <2>1
    <3>2. calls[stack[j].node] \in Seq(Nodes)
      BY <1>1, <3>1 DEF Visit
    <3> QED BY <2>3, <3>2
  <2> QED BY <2>2, <2>3, <2>4 DEF Edges
<1> QED BY <1>6, <1>7, <1>8, <1>9

LEMMA ReportPreserves ==
  ASSUME SearchInv, ReportCycle
  PROVE  SearchInv'
<1> DEFINE new == [caller |-> Top.node, edge |-> Top.next, cycle |-> CycleFrom(Callee)]
<1>1. /\ AtEdge /\ color[Callee] = "grey" /\ stack' = Advanced
      /\ reports' = reports \cup {new}
      /\ UNCHANGED <<pending, calls, color, rank, phase>>
  BY DEF ReportCycle
<1>2. StackInv' /\ PassedInv' /\ GreyIsTrail' /\ stack' \in Seq(Visit)
  <2>1. new \in reports' /\ new.caller = Top.node /\ new.edge = Top.next
    BY <1>1
  <2> QED BY <1>1, <2>1, AdvanceStack
<1>3. phase = "search" /\ stack # <<>>
  BY <1>1 DEF AtEdge
<1>4. /\ Top.node \in Nodes /\ Top.next \in Nat /\ Top.next \in DOMAIN calls[Top.node]
  BY <1>1, <1>3, TopFacts DEF SearchInv
<1>5. TypeOK'
  <2>1. new \in Report
    BY <1>1, <1>4, CycleFacts DEF Report
  <2> QED BY <1>1, <1>2, <2>1 DEF TypeOK, SearchInv
<1>6. RankInv'
  <2>1. \A n, j : Reported(n, j) => Reported(n, j)'
    BY <1>1 DEF Reported
  <2>2. Blacks' = Blacks
    BY <1>1 DEF Blacks
  <2> QED BY <1>1, <2>1, <2>2 DEF RankInv, SearchInv
<1>7. EdgesInv'
  BY <1>1, <1>4 DEF EdgesInv, SearchInv
<1>8. ReportsAreCycles'
  <2>1. \A r : IsCycle(r) => IsCycle(r)'
    BY <1>1, CyclesStay
  <2>2. IsCycle(new)
    <3>1. Callee = calls[Top.node][Top.next]
      BY DEF Callee
    <3> QED BY <1>1, <3>1, CycleFacts DEF IsCycle
  <2>3. \A r \in reports' : IsCycle(r)
    BY <1>1, <2>2 DEF ReportsAreCycles, SearchInv
  <2> QED BY <2>1, <2>3 DEF ReportsAreCycles
<1>9. CheckInv' /\ DoneInv'
  BY <1>1, <1>3 DEF CheckInv, DoneInv
<1> QED BY <1>2, <1>5, <1>6, <1>7, <1>8, <1>9 DEF SearchInv

-----------------------------------------------------------------------------
LEMMA DescendPreserves ==
  ASSUME SearchInv, Descend
  PROVE  SearchInv'
<1> DEFINE L == Len(stack)
           visit == [node |-> Callee, next |-> 1]
<1>1. /\ AtEdge /\ color[Callee] = "white" /\ color' = [color EXCEPT ![Callee] = "grey"]
      /\ stack' = Append(Advanced, visit)
      /\ UNCHANGED <<pending, calls, reports, rank, phase>>
  BY DEF Descend, Enter
<1> TypeOK /\ StackInv /\ PassedInv /\ GreyIsTrail /\ stack # <<>> /\ phase = "search"
  BY <1>1 DEF SearchInv, AtEdge
<1>2. /\ L \in Nat \ {0} /\ DOMAIN stack = 1 .. L /\ stack \in Seq(Visit)
      /\ stack[L] = Top /\ Callee \in Nodes /\ calls \in [Nodes -> Seq(Nodes)]
      /\ Advanced \in Seq(Visit) /\ Len(Advanced) = L
      /\ Top.node \in Nodes /\ Top.next \in DOMAIN calls[Top.node] /\ Top.next \in Nat \ {0}
  <2>1. Top.next \in 1 .. Len(calls[Top.node]) + 1 /\ calls[Top.node] \in Seq(Nodes)
    BY TopFacts
  <2>2. Top.next \in Nat \ {0}
    BY <2>1
  <2> QED BY <1>1, <2>2, TopFacts DEF TypeOK, Top
<1>3. /\ stack' \in Seq(Visit) /\ Len(stack') = L + 1 /\ DOMAIN stack' = 1 .. L + 1
      /\ stack'[L + 1].node = Callee /\ stack'[L + 1].next = 1
      /\ \A i \in 1 .. L : stack'[i] = Advanced[i]
  <2>1. visit \in Visit
    BY <1>2 DEF Visit
  <2> QED BY <1>1, <1>2, <2>1, AppendProperties, LenProperties
<1>4. \A i \in 1 .. L : /\ stack'[i].node = stack[i].node /\ stack[i].node \in Nodes
                        /\ stack'[i].next = IF i = L THEN Top.next + 1 ELSE stack[i].next
                        /\ stack[i].next \in Nat
  <2> SUFFICES ASSUME NEW i \in 1 .. L
               PROVE  /\ stack'[i].node = stack[i].node /\ stack[i].node \in Nodes
                      /\ stack'[i].next = IF i = L THEN Top.next + 1 ELSE stack[i].next
                      /\ stack[i].next \in Nat
    OBVIOUS
  <2>1. stack[i] \in Visit /\ stack'[i] = Advanced[i]
    BY <1>2, <1>3
  <2>2. /\ Advanced[i] = IF i = L THEN [node |-> Top.node, next |-> Top.next + 1] ELSE stack[i]
        /\ Advanced[i].node = stack[i].node
    BY <1>2, TopFacts
  <2> QED BY <2>1, <2>2 DEF Visit
<1>5. TypeOK'
  <2>1. color' \in [Nodes -> Colors]
    BY <1>1 DEF TypeOK, Colors
  <2> QED BY <1>1, <1>3, <2>1 DEF TypeOK
<1> HIDE DEF L
<1>6. GreyIsTrail'
  <2>1. ASSUME NEW i \in 1 .. L PROVE stack[i].node # Callee
    <3>1. stack[i].node \in {n \in Nodes : color[n] = "grey"}
      BY <1>2 DEF GreyIsTrail
    <3>2. color[Callee] = "white"
      BY <1>1
    <3> QED BY <3>1, <3>2
  <2>2. {n \in Nodes : color'[n] = "grey"} = {n \in Nodes : color[n] = "grey"} \cup {Callee}
    BY <1>1, <1>2 DEF TypeOK
  <2>3. {stack'[i].node : i \in DOMAIN stack'} = {stack[i].node : i \in DOMAIN stack} \cup {Callee}
    <3>1. DOMAIN stack' = 1 .. L \cup {L + 1} /\ DOMAIN stack = 1 .. L
      BY <1>2, <1>3
    <3>2. \A i \in 1 .. L : stack'[i].node = stack[i].node
      BY <1>4
    <3>3. stack'[L + 1].node = Callee
      BY <1>3
    <3> QED BY <3>1, <3>2, <3>3
  <2>4. \A i, j \in DOMAIN stack' : i # j => stack'[i].node # stack'[j].node
    <3> SUFFICES ASSUME NEW i \in 1 .. L + 1, NEW j \in 1 .. L + 1, i # j
                 PROVE  stack'[i].node # stack'[j].node
      BY <1>3
    <3>1. CASE i \in 1 .. L /\ j \in 1 .. L
      BY <1>2, <1>4, <3>1 DEF GreyIsTrail
    <3>2. CASE i = L + 1 /\ j \in 1 .. L
      BY <1>2, <1>3, <1>4, <2>1, <3>2
    <3>3. CASE i \in 1 .. L /\ j = L + 1
      BY <1>2, <1>3, <1>4, <2>1, <3>3
    <3> QED BY <1>2, <3>1, <3>2, <3>3
  <2>5. {n \in Nodes : color[n] = "grey"} = {stack[i].node : i \in DOMAIN stack}
    BY DEF GreyIsTrail
  <2> QED BY <2>2, <2>3, <2>4, <2>5 DEF GreyIsTrail
<1>7. StackInv'
  <2>1. \A i \in 1 .. L + 1 : stack'[i].next \in 1 .. Len(calls[stack'[i].node]) + 1
    <3> SUFFICES ASSUME NEW i \in 1 .. L + 1
                 PROVE  stack'[i].next \in 1 .. Len(calls[stack'[i].node]) + 1
      OBVIOUS
    <3>1. CASE i = L + 1
      <4>1. Len(calls[Callee]) \in Nat
        BY <1>2, LenProperties
      <4> QED BY <1>3, <3>1, <4>1
    <3>2. CASE i = L
      <4>1. calls[Top.node] \in Seq(Nodes) /\ Top.next + 1 \in 1 .. Len(calls[Top.node]) + 1
        BY <1>2
      <4>2. i \in 1 .. L
        BY <1>2, <3>2
      <4>3. stack'[i].next = Top.next + 1 /\ stack'[i].node = stack[i].node
        BY <1>4, <3>2, <4>2
      <4>4. stack[i].node = Top.node
        BY <3>2 DEF Top, L
      <4> QED BY <4>1, <4>3, <4>4
    <3>3. CASE i \in 1 .. L /\ i # L
      BY <1>2, <1>4, <3>3 DEF StackInv
    <3> QED BY <1>2, <3>1, <3>2, <3>3
  <2>2. \A i \in 1 .. L : /\ stack'[i].next > 1
                          /\ calls[stack'[i].node][stack'[i].next - 1] = stack'[i + 1].node
    <3> SUFFICES ASSUME NEW i \in 1 .. L
                 PROVE  /\ stack'[i].next > 1
                        /\ calls[stack'[i].node][stack'[i].next - 1] = stack'[i + 1].node
      OBVIOUS
    <3>1. CASE i = L
      <4>1. stack'[i].next = Top.next + 1 /\ stack'[i].node = Top.node
        BY <1>2, <1>4, <3>1
      <4> QED BY <1>2, <1>3, <3>1, <4>1 DEF Callee
    <3>2. CASE i # L
      <4>1. i \in 1 .. L - 1 /\ i + 1 \in 1 .. L
        BY <1>2, <3>2
      <4> QED BY <1>4, <3>2, <4>1 DEF StackInv, L
    <3> QED BY <3>1, <3>2
  <2>3. Len(stack') - 1 = L
    BY <1>2, <1>3
  <2> QED BY <1>1, <1>3, <2>1, <2>2, <2>3 DEF StackInv
<1>8. PassedInv'
  <2>1. \A i \in 1 .. L + 1 : \A j \in 1 .. stack'[i].next - 1 :
          i = L + 1 \/ j < stack'[i].next - 1 =>
            \A n : n = stack'[i].node => color'[calls[n][j]] = "black" \/ Reported(n, j)'
    <3> SUFFICES ASSUME NEW i \in 1 .. L + 1, NEW j \in 1 .. stack'[i].next - 1,
                        i = L + 1 \/ j < stack'[i].next - 1,
                        NEW n, n = stack'[i].node
                 PROVE  color'[calls[n][j]] = "black" \/ Reported(n, j)'
      OBVIOUS
    <3>1. i # L + 1
      BY <1>3
    <3>2. i \in 1 .. L /\ n = stack[i].node
      BY <1>2, <1>4, <3>1
    <3>3. j \in 1 .. stack[i].next - 1 /\ (i = L \/ j < stack[i].next - 1)
      BY <1>2, <1>4, <3>1, <3>2, SMTT(40)
    <3>4. color[calls[n][j]] = "black" \/ Reported(n, j)
      BY <1>2, <3>2, <3>3 DEF PassedInv, Settled, L
    <3>5. calls[n][j] \in Nodes
      <4>1. calls[n] \in Seq(Nodes)
        BY <1>2, <1>4, <3>2
      <4>2. stack[i].next \in 1 .. Len(calls[n]) + 1
        BY <1>2, <3>2 DEF StackInv
      <4> QED BY <3>3, <4>1, <4>2
    <3> QED BY <1>1, <3>4, <3>5 DEF TypeOK, Reported
  <2> QED BY <1>1, <1>3, <2>1, SMTT(40) DEF PassedInv, Settled, Reported
<1>9. RankInv'
  <2>1. \A m \in Nodes : color'[m] = "black" <=> color[m] = "black"
    BY <1>1, <1>2 DEF TypeOK
  <2>2. \A m \in Nodes : \A j \in DOMAIN calls[m] : calls[m][j] \in Nodes
    BY <1>2
  <2>3. Blacks' = Blacks
    BY <2>1 DEF Blacks
  <2> QED BY <1>1, <2>1, <2>2, <2>3 DEF RankInv, Reported, SearchInv
<1>10. CheckInv' /\ DoneInv' /\ EdgesInv' /\ ReportsAreCycles'
  <2>1. ReportsAreCycles'
    BY <1>1, CyclesStay DEF ReportsAreCycles, SearchInv
  <2> QED BY <1>1, <2>1 DEF CheckInv, DoneInv, EdgesInv, SearchInv
<1> QED BY <1>5, <1>6, <1>7, <1>8, <1>9, <1>10 DEF SearchInv

(* A visit that ends has settled all its edges, and is the last edge of the    *)
(* visit below.                                                                *)
LEMMA LeavePreserves ==
  ASSUME SearchInv, Leave
  PROVE  SearchInv'
<1> DEFINE L == Len(stack)
           old == Top.node
<1>1. /\ phase = "search" /\ stack # <<>> /\ Top.next > Len(calls[old])
      /\ color' = [color EXCEPT ![old] = "black"]
      /\ rank' = [rank EXCEPT ![old] = Cardinality(Blacks) + 1]
      /\ stack' = SubSeq(stack, 1, L - 1)
      /\ UNCHANGED <<pending, calls, reports, phase>>
  BY DEF Leave
<1> TypeOK /\ StackInv /\ PassedInv /\ GreyIsTrail /\ RankInv
  BY <1>1 DEF SearchInv
<1>2. /\ L \in Nat \ {0} /\ DOMAIN stack = 1 .. L /\ stack \in Seq(Visit)
      /\ stack[L] = Top /\ calls \in [Nodes -> Seq(Nodes)] /\ old \in Nodes
      /\ Top.next = Len(calls[old]) + 1 /\ Len(calls[old]) \in Nat
  <2>1. Top.next \in 1 .. Len(calls[old]) + 1 /\ calls[old] \in Seq(Nodes)
    BY <1>1, TopFacts
  <2>2. Len(calls[old]) \in Nat
    BY <2>1, LenProperties
  <2>3. Top.next = Len(calls[old]) + 1
    BY <1>1, <2>1, <2>2
  <2> QED BY <1>1, <2>2, <2>3, TopFacts DEF TypeOK, Top
<1>3. color[old] = "grey"
  BY <1>2 DEF GreyIsTrail
<1>4. /\ stack' \in Seq(Visit) /\ Len(stack') = L - 1 /\ DOMAIN stack' = 1 .. L - 1
      /\ \A i \in 1 .. L - 1 : stack'[i] = stack[i] /\ i \in 1 .. L /\ i # L
  <2>1. /\ stack' \in Seq(Visit) /\ Len(stack') = L - 1
        /\ \A i \in 1 .. L - 1 : stack'[i] = stack[i]
    BY <1>1, <1>2, SubSeqProperties
  <2>2. DOMAIN stack' = 1 .. L - 1
    BY <2>1, LenProperties
  <2>3. \A i \in 1 .. L - 1 : i \in 1 .. L /\ i # L
    <3>1. L \in Nat
      BY <1>2
    <3> HIDE DEF L
    <3> QED BY <3>1
  <2> QED BY <2>1, <2>2, <2>3
<1> HIDE DEF L, old
<1>5. \A i \in 1 .. L - 1 : stack[i].node # old
  <2>1. L \in DOMAIN stack /\ stack[L].node = old
    BY <1>2 DEF old
  <2>2. \A i \in 1 .. L - 1 : i \in DOMAIN stack /\ i # L
    BY <1>2, <1>4
  <2> QED BY <2>1, <2>2 DEF GreyIsTrail
<1>6. /\ Cardinality(Blacks') = Cardinality(Blacks) + 1
      /\ Cardinality(Blacks) + 1 \in 1 .. N /\ Cardinality(Blacks) \in Nat
  <2>1. color[old] # "black" /\ color' = [color EXCEPT ![old] = "black"] /\ old \in Nodes
    BY <1>1, <1>2, <1>3
  <2>2. Cardinality(Blacks') = Cardinality(Blacks) + 1 /\ Cardinality(Blacks) + 1 \in 1 .. N
    BY <2>1, OneMoreBlack
  <2> QED BY <2>2, BlacksFinite
<1>7. TypeOK'
  <2>1. color' \in [Nodes -> Colors]
    BY <1>1 DEF TypeOK, Colors
  <2>2. rank' \in [Nodes -> 0 .. N]
    <3> DEFINE k == Cardinality(Blacks) + 1
    <3>1. k \in 0 .. N /\ rank' = [rank EXCEPT ![old] = k] /\ rank \in [Nodes -> 0 .. N]
      BY <1>1, <1>6, SizeAssumption DEF TypeOK
    <3> HIDE DEF k
    <3> QED BY <3>1
  <2> QED BY <1>1, <1>4, <2>1, <2>2 DEF TypeOK
<1>8. GreyIsTrail'
  <2>1. {n \in Nodes : color'[n] = "grey"} = {n \in Nodes : color[n] = "grey"} \ {old}
    BY <1>1, <1>2 DEF TypeOK
  <2>2. {stack'[i].node : i \in DOMAIN stack'} = {stack[i].node : i \in DOMAIN stack} \ {old}
    <3>1. DOMAIN stack = 1 .. L - 1 \cup {L} /\ DOMAIN stack' = 1 .. L - 1
      BY <1>2, <1>4
    <3>2. stack[L].node = old
      BY <1>2 DEF old
    <3> QED BY <1>4, <1>5, <3>1, <3>2
  <2>3. \A i, j \in DOMAIN stack' : i # j => stack'[i].node # stack'[j].node
    BY <1>2, <1>4 DEF GreyIsTrail
  <2> QED BY <2>1, <2>2, <2>3 DEF GreyIsTrail
<1>9. StackInv'
  <2>1. \A i \in 1 .. L - 1 : stack'[i].next \in 1 .. Len(calls[stack'[i].node]) + 1
    BY <1>2, <1>4 DEF StackInv
  <2>2. \A i \in 1 .. (L - 1) - 1 :
          /\ stack'[i].next > 1
          /\ calls[stack'[i].node][stack'[i].next - 1] = stack'[i + 1].node
    <3> SUFFICES ASSUME NEW i \in 1 .. (L - 1) - 1
                 PROVE  /\ stack'[i].next > 1
                        /\ calls[stack'[i].node][stack'[i].next - 1] = stack'[i + 1].node
      OBVIOUS
    <3>1. i \in 1 .. L - 1 /\ i + 1 \in 1 .. L - 1
      BY <1>2
    <3>2. stack'[i] = stack[i] /\ stack'[i + 1] = stack[i + 1]
      BY <1>4, <3>1
    <3> QED BY <3>1, <3>2 DEF StackInv, L
  <2> QED BY <1>1, <1>4, <2>1, <2>2 DEF StackInv
<1>10. \A n \in Nodes : \A j \in DOMAIN calls[n] : calls[n][j] \in Nodes
  BY <1>2
<1>11. PassedInv'
  <2>1. \A i \in 1 .. L - 1 : \A j \in 1 .. stack'[i].next - 1 :
          i = L - 1 \/ j < stack'[i].next - 1 =>
            \A n : n = stack'[i].node => color'[calls[n][j]] = "black" \/ Reported(n, j)'
    <3> SUFFICES ASSUME NEW i \in 1 .. L - 1, NEW j \in 1 .. stack'[i].next - 1,
                        i = L - 1 \/ j < stack'[i].next - 1,
                        NEW n, n = stack'[i].node
                 PROVE  color'[calls[n][j]] = "black" \/ Reported(n, j)'
      OBVIOUS
    <3>1. n = stack[i].node /\ stack'[i] = stack[i] /\ i \in 1 .. L /\ i # L
      BY <1>4
    <3>2. n \in Nodes
      <4>1. stack[i] \in Visit
        BY <1>2, <3>1
      <4> QED BY <3>1, <4>1 DEF Visit
    <3>3. /\ stack[i].next \in 1 .. Len(calls[n]) + 1 /\ Len(calls[n]) \in Nat
          /\ DOMAIN calls[n] = 1 .. Len(calls[n])
      <4>1. calls[n] \in Seq(Nodes)
        BY <1>2, <3>2
      <4> QED BY <1>2, <3>1, <4>1, LenProperties DEF StackInv
    <3>4. calls[n][j] \in Nodes
      <4>1. j \in DOMAIN calls[n]
        BY <3>1, <3>3
      <4> QED BY <1>10, <3>2, <4>1
    <3>5. CASE j < stack[i].next - 1
      <4>1. color[calls[n][j]] = "black" \/ Reported(n, j)
        BY <1>2, <3>1, <3>5 DEF PassedInv, Settled
      <4> QED BY <1>1, <1>2, <3>4, <4>1 DEF TypeOK, Reported
    <3>6. CASE j = stack[i].next - 1 /\ i = L - 1
      <4>1. calls[n][j] = stack[i + 1].node /\ i + 1 = L
        <5>1. i \in 1 .. Len(stack) - 1 /\ i + 1 = L
          BY <1>2, <3>6 DEF L
        <5> QED BY <3>1, <3>6, <5>1 DEF StackInv
      <4>2. calls[n][j] = old
        BY <1>2, <4>1 DEF old
      <4> QED BY <1>1, <1>2, <4>2 DEF TypeOK
    <3>7. j = stack[i].next - 1 \/ j < stack[i].next - 1
      BY <3>1, <3>3
    <3> QED BY <3>1, <3>5, <3>6, <3>7
  <2>2. calls' = calls /\ DOMAIN stack' = 1 .. L - 1 /\ Len(stack') = L - 1
    BY <1>1, <1>4
  <2> QED BY <2>1, <2>2 DEF PassedInv, Settled, Reported
<1>12. RankInv'
  <2> DEFINE k == Cardinality(Blacks)
  <2>1. \A n \in Nodes : color[n] = "black" => /\ n # old /\ color'[n] = "black"
                                               /\ rank'[n] = rank[n] /\ rank[n] \in 1 .. k
    BY <1>1, <1>3 DEF TypeOK, RankInv
  <2>2. color'[old] = "black" /\ rank'[old] = k + 1
    BY <1>1, <1>2 DEF TypeOK
  <2>3. \A n \in Nodes : color'[n] = "black" => n = old \/ color[n] = "black"
    BY <1>1 DEF TypeOK
  <2> HIDE DEF k
  <2>4. k \in Nat /\ Cardinality(Blacks') = k + 1
    BY <1>6 DEF k
  <2>5. \A n \in Nodes : color'[n] = "black" => rank'[n] \in 1 .. Cardinality(Blacks')
    BY <2>1, <2>2, <2>3, <2>4
  <2>6. \A n \in Nodes : color'[n] = "black" => \A j \in DOMAIN calls[n] :
          (color'[calls[n][j]] = "black" /\ rank'[calls[n][j]] < rank'[n]) \/ Reported(n, j)'
    <3> SUFFICES ASSUME NEW n \in Nodes, color'[n] = "black", NEW j \in DOMAIN calls[n]
                 PROVE  \/ color'[calls[n][j]] = "black" /\ rank'[calls[n][j]] < rank'[n]
                        \/ Reported(n, j)'
      OBVIOUS
    <3> DEFINE m == calls[n][j]
    <3>1. m \in Nodes
      BY <1>10
    <3>2. CASE n = old
      <4>1. Settled(old, j)
        <5>1. j \in 1 .. Top.next - 1
          BY <1>2, <3>2, LenProperties
        <5>2. L \in DOMAIN stack /\ stack[L].node = old /\ stack[L] = Top
          BY <1>2 DEF old
        <5> QED BY <5>1, <5>2 DEF PassedInv, L
      <4>2. CASE color[m] = "black"
        BY <2>1, <2>2, <2>4, <3>1, <3>2, <4>2
      <4>3. CASE Reported(old, j)
        BY <1>1, <3>2, <4>3 DEF Reported
      <4> QED BY <3>2, <4>1, <4>2, <4>3 DEF Settled
    <3>3. CASE n # old
      <4>1. color[n] = "black"
        BY <2>3, <3>3
      <4>2. (color[m] = "black" /\ rank[m] < rank[n]) \/ Reported(n, j)
        BY <4>1 DEF RankInv
      <4>3. CASE color[m] = "black" /\ rank[m] < rank[n]
        BY <2>1, <3>1, <4>1, <4>3
      <4>4. CASE Reported(n, j)
        BY <1>1, <4>4 DEF Reported
      <4> QED BY <4>2, <4>3, <4>4
    <3> QED BY <3>2, <3>3
  <2> QED BY <1>1, <2>5, <2>6 DEF RankInv, Reported
<1>13. CheckInv' /\ DoneInv' /\ EdgesInv' /\ ReportsAreCycles'
  <2>1. ReportsAreCycles'
    BY <1>1, CyclesStay DEF ReportsAreCycles, SearchInv
  <2> QED BY <1>1, <2>1 DEF CheckInv, DoneInv, EdgesInv, SearchInv
<1> QED BY <1>7, <1>8, <1>9, <1>11, <1>12, <1>13 DEF SearchInv

LEMMA FinishPreserves ==
  ASSUME SearchInv, Finish \/ UNCHANGED vars
  PROVE  SearchInv'
<1>1. /\ UNCHANGED pending /\ UNCHANGED calls /\ UNCHANGED color /\ UNCHANGED stack
      /\ UNCHANGED reports /\ UNCHANGED rank
      /\ \/ phase' = phase
         \/ phase' = "done" /\ stack = <<>> /\ \A n \in Nodes : color[n] # "white"
  <2>1. CASE Finish
    BY <2>1 DEF Finish
  <2>2. CASE UNCHANGED vars
    BY <2>2 DEF vars
  <2> QED BY <2>1, <2>2
<1>2. Blacks' = Blacks
  BY <1>1 DEF Blacks
<1>3. TypeOK' /\ CheckInv' /\ DoneInv'
  BY <1>1 DEF SearchInv, TypeOK, CheckInv, DoneInv
<1>4. GreyIsTrail' /\ StackInv' /\ EdgesInv'
  BY <1>1 DEF SearchInv, GreyIsTrail, StackInv, EdgesInv
<1>5. PassedInv'
  BY <1>1 DEF SearchInv, PassedInv, Settled, Reported
<1>6. RankInv'
  BY <1>1, <1>2 DEF SearchInv, RankInv, Reported
<1>7. ReportsAreCycles'
  BY <1>1, CyclesStay DEF ReportsAreCycles, SearchInv
<1> QED BY <1>3, <1>4, <1>5, <1>6, <1>7 DEF SearchInv

-----------------------------------------------------------------------------
(* What the search keeps, step by step.                                        *)
LEMMA SearchInvariant == Spec => []SearchInv
<1>1. Init => SearchInv
  BY InitSearch
<1>2. SearchInv /\ [Next]_vars => SearchInv'
  BY CheckPreserves, RootPreserves, DescendPreserves, ReportPreserves, SkipPreserves,
     LeavePreserves, FinishPreserves DEF Next
<1> QED BY <1>1, <1>2, PTL DEF Spec

(* The types of the search's state, for any number of declarations.            *)
THEOREM SearchTypeCorrect == Spec => []TypeOK
<1>1. SearchInv => TypeOK
  BY DEF SearchInv
<1> QED BY <1>1, SearchInvariant, PTL

(* The grey blocks are the visits under way, so chain.index(callee) never      *)
(* raises (report_cycles).                                                     *)
THEOREM GreyNodesAreTheTrail == Spec => []GreyIsTrail
<1>1. SearchInv => GreyIsTrail
  BY DEF SearchInv
<1> QED BY <1>1, SearchInvariant, PTL

(* No report of check_call_graph is spurious.                                  *)
THEOREM CyclesAreReal == Spec => []ReportsAreCycles
<1>1. SearchInv => ReportsAreCycles
  BY DEF SearchInv
<1> QED BY <1>1, SearchInvariant, PTL

(* When the search ends every edge leads to a lower rank or is reported.       *)
LEMMA EndRanks ==
  ASSUME SearchInv, phase = "done"
  PROVE  \A n \in Nodes : \A j \in DOMAIN calls[n] :
           calls[n][j] \in Nodes /\ (rank[calls[n][j]] < rank[n] \/ Reported(n, j))
<1>1. \A n \in Nodes : color[n] = "black"
  <2>1. {n \in Nodes : color[n] = "grey"} = {}
    BY DEF SearchInv, DoneInv, GreyIsTrail
  <2> QED BY <2>1 DEF SearchInv, DoneInv, TypeOK, Colors
<1>2. \A n \in Nodes : \A j \in DOMAIN calls[n] : calls[n][j] \in Nodes
  BY DEF SearchInv, TypeOK
<1> QED BY <1>1, <1>2 DEF SearchInv, RankInv

(* A validated program has no recursion, whatever its size: the interpreter's  *)
(* call depth is bounded by the ranks (the assumption of ParserLoop).          *)
THEOREM NoRecursionWhenSilent == Spec => []NoReportMeansRanked
<1>1. SearchInv => NoReportMeansRanked
  <2> SUFFICES ASSUME SearchInv, phase = "done", reports = {},
                      NEW n \in Nodes, NEW m \in Edges(n)
               PROVE  rank[m] < rank[n]
    BY DEF NoReportMeansRanked
  <2>1. PICK j \in DOMAIN calls[n] : m = calls[n][j]
    BY DEF Edges
  <2> QED BY <2>1, EndRanks DEF Reported
<1> QED BY <1>1, SearchInvariant, PTL

(* Every cycle of calls is cut by a report, whatever the number of cycles.     *)
THEOREM NoCycleIsMissed == Spec => []EveryCycleIsCut
<1>1. SearchInv => EveryCycleIsCut
  <2> SUFFICES ASSUME SearchInv, phase = "done", NEW k \in Nodes, NEW c \in [1 .. k -> Nodes],
                      \A i \in DOMAIN c : c[(i % Len(c)) + 1] \in Edges(c[i]),
                      \A r \in reports, i \in DOMAIN c :
                        Closes(r) # <<c[i], c[(i % Len(c)) + 1]>>
               PROVE  FALSE
    BY DEF EveryCycleIsCut
  <2>1. Len(c) = k /\ k \in Nat \ {0} /\ DOMAIN c = 1 .. k
    BY DEF Nodes
  <2>2. \A i \in 1 .. k : (i % k) + 1 \in 1 .. k
    BY <2>1
  <2>3. \A i \in 1 .. k : rank[c[(i % k) + 1]] < rank[c[i]]
    <3> SUFFICES ASSUME NEW i \in 1 .. k PROVE rank[c[(i % k) + 1]] < rank[c[i]]
      OBVIOUS
    <3> DEFINE d == c[(i % k) + 1]
    <3>1. c[i] \in Nodes /\ d \in Nodes /\ d \in Edges(c[i])
      BY <2>1, <2>2
    <3>2. PICK j \in DOMAIN calls[c[i]] : d = calls[c[i]][j]
      BY <3>1 DEF Edges
    <3>3. ~Reported(c[i], j)
      <4> SUFFICES ASSUME NEW r \in reports, r.caller = c[i], r.edge = j PROVE FALSE
        BY DEF Reported
      <4>1. Closes(r) = <<c[i], d>>
        BY <3>2 DEF Closes
      <4> QED BY <2>1, <4>1
    <3> QED BY <3>1, <3>2, <3>3, EndRanks
  <2> DEFINE R == {rank[c[i]] : i \in 1 .. k}
  <2>4. R \in SUBSET Nat /\ R # {}
    <3>1. \A i \in 1 .. k : c[i] \in Nodes
      BY <2>1
    <3>2. \A n \in Nodes : rank[n] \in Nat
      BY SizeAssumption DEF SearchInv, TypeOK
    <3>3. rank[c[1]] \in R
      BY <2>1
    <3> QED BY <3>1, <3>2, <3>3
  <2>5. PICK x \in R : \A y \in R : ~(<<y, x>> \in OpToRel(<, Nat))
    BY <2>4, WFMin, NatLessThanWellFounded
  <2>6. PICK i \in 1 .. k : x = rank[c[i]]
    BY <2>5
  <2>7. rank[c[(i % k) + 1]] \in R /\ rank[c[(i % k) + 1]] < x
    BY <2>2, <2>3, <2>6
  <2>8. <<rank[c[(i % k) + 1]], x>> \in OpToRel(<, Nat)
    BY <2>4, <2>5, <2>7 DEF OpToRel
  <2> QED BY <2>5, <2>7, <2>8
<1> QED BY <1>1, SearchInvariant, PTL

(* The three promises of the search at once.                                   *)
THEOREM SearchExact == Spec => []SearchIsExact
  BY CyclesAreReal, NoRecursionWhenSilent, NoCycleIsMissed, PTL DEF SearchIsExact

-----------------------------------------------------------------------------
(* Type soundness: what the typer does not report evaluates to a value of the  *)
(* type it was given.                                                          *)

(* Any w bits are the bits of a number below 2 ** w.                           *)
HasBits(v, w, b) == v \in 0 .. Pow2(w) - 1 /\ \A i \in 0 .. w - 1 : BitAt(v, i) = b[i]

LEMMA SomeBits ==
  ASSUME NEW w \in Nat
  PROVE  \A b \in [Nat -> 0 .. 1] : \E v \in Nat : HasBits(v, w, b)
<1> DEFINE Fine(k) == \A b \in [Nat -> 0 .. 1] : \E v \in Nat : HasBits(v, k, b)
           G == {k \in 0 .. w : Fine(k)}
<1>1. Fine(0)
  BY PowZero DEF HasBits
<1>2. ASSUME NEW k \in 1 .. w, Fine(k - 1), NEW b \in [Nat -> 0 .. 1]
      PROVE  \E v \in Nat : HasBits(v, k, b)
  <2> DEFINE c == [i \in Nat |-> b[i + 1]]
  <2>1. c \in [Nat -> 0 .. 1] /\ \A i \in Nat : c[i] = b[i + 1]
    OBVIOUS
  <2> HIDE DEF c
  <2>2. PICK u \in Nat : HasBits(u, k - 1, c)
    BY <1>2, <2>1
  <2> DEFINE v == 2 * u + b[0]
  <2>3. b[0] \in 0 .. 1 /\ v \in Nat
    OBVIOUS
  <2>4. Pow2(k) = 2 * Pow2(k - 1) /\ Pow2(k - 1) \in Nat \ {0}
    <3>1. (k - 1) + 1 = k /\ k - 1 \in Nat
      OBVIOUS
    <3> QED BY <3>1, PowNext, PowPositive
  <2>5. v \in 0 .. Pow2(k) - 1
    <3>1. u \in 0 .. Pow2(k - 1) - 1
      BY <2>2 DEF HasBits
    <3> QED BY <2>3, <2>4, <3>1
  <2>6. BitAt(v, 0) = b[0]
    <3>1. v \div 1 = v
      BY <2>3
    <3>2. v % 2 = b[0]
      BY <2>3, HalfOf
    <3> QED BY <3>1, <3>2, PowZero DEF BitAt
  <2>7. ASSUME NEW i \in 1 .. k - 1 PROVE BitAt(v, i) = b[i]
    <3>1. i - 1 \in 0 .. (k - 1) - 1 /\ i - 1 \in Nat /\ (i - 1) + 1 = i
      OBVIOUS
    <3>2. Pow2(i) = 2 * Pow2(i - 1) /\ Pow2(i - 1) \in Nat \ {0}
      BY <3>1, PowNext, PowPositive
    <3>3. v \div Pow2(i) = u \div Pow2(i - 1)
      <4>1. (2 * u + b[0]) \div (2 * Pow2(i - 1)) = u \div Pow2(i - 1)
        BY <2>3, <3>2, HalfOf
      <4> QED BY <3>2, <4>1
    <3>4. BitAt(u, i - 1) = c[i - 1]
      BY <2>2, <3>1 DEF HasBits
    <3>5. BitAt(v, i) = BitAt(u, i - 1)
      BY <3>3 DEF BitAt
    <3> QED BY <2>1, <3>1, <3>4, <3>5
  <2> HIDE DEF v
  <2>8. \A i \in 0 .. k - 1 : BitAt(v, i) = b[i]
    <3> TAKE i \in 0 .. k - 1
    <3>1. CASE i = 0
      BY <2>6, <3>1
    <3>2. CASE i \in 1 .. k - 1
      BY <2>7, <3>2
    <3> QED BY <3>1, <3>2
  <2> QED BY <2>3, <2>5, <2>8 DEF HasBits
<1> HIDE DEF Fine
<1>3. \A k \in 1 .. w : k - 1 \in G => k \in G
  BY <1>2 DEF Fine
<1>4. 0 \in G
  BY <1>1
<1> HIDE DEF G
<1>5. w \in G
  BY <1>3, <1>4, Upward
<1> QED BY <1>5 DEF G, Fine

LEMMA BitIsBit ==
  ASSUME NEW v \in Nat, NEW i \in Nat
  PROVE  BitAt(v, i) \in 0 .. 1
<1>1. v \div Pow2(i) \in Nat
  BY PowPositive, Quotient
<1> HIDE DEF Pow2
<1> QED BY <1>1, Remainder DEF BitAt

(* & | and ^ of numbers below 2 ** w stay below 2 ** w (bits_binary).          *)
LEMMA BitByBitTyped ==
  ASSUME NEW op \in BitwiseOps, NEW w \in Nat, NEW a \in Nat, NEW b \in Nat
  PROVE  BitByBit(op, w, a, b) \in 0 .. Pow2(w) - 1
<1> DEFINE c == [i \in Nat |-> BitOf(op, BitAt(a, i), BitAt(b, i))]
<1>1. ASSUME NEW x \in 0 .. 1, NEW y \in 0 .. 1 PROVE BitOf(op, x, y) \in 0 .. 1
  <2>1. x \in {0, 1} /\ y \in {0, 1}
    OBVIOUS
  <2> QED BY <2>1 DEF BitOf, BitwiseOps
<1>2. \A i \in Nat : BitOf(op, BitAt(a, i), BitAt(b, i)) \in 0 .. 1
  BY <1>1, BitIsBit
<1>3. c \in [Nat -> 0 .. 1] /\ \A i \in Nat : c[i] = BitOf(op, BitAt(a, i), BitAt(b, i))
  BY <1>2
<1> HIDE DEF c
<1>4. PICK v \in Nat : HasBits(v, w, c)
  BY <1>3, SomeBits
<1>5. v \in 0 .. Pow2(w) - 1 /\ \A i \in 0 .. w - 1 : BitAt(v, i) = BitOf(op, BitAt(a, i), BitAt(b, i))
  BY <1>3, <1>4 DEF HasBits
<1> QED BY <1>5 DEF BitByBit

-----------------------------------------------------------------------------
(* Values and their types                                                      *)

(* A value is proper if it and all that is inside it have their types.         *)
Closed(W) == \A x \in W : HasType(x, TypeOfValue(x)) /\ Parts(x) \subseteq W
Proper(x, t) == TypeOfValue(x) = t /\ \E W : Closed(W) /\ x \in W

ValueKinds == {"bits", "boolean", "error", "header", "struct", "enum_type", "stack"}

LEMMA KindOfType ==
  \A x : TypeOfValue(x).kind = IF x.kind \in ValueKinds THEN x.kind ELSE "none"
  BY DEF TypeOfValue, ValueKinds, Bits, Boolean, Plain, Named, StackOf, NoType

LEMMA ProperHasType ==
  ASSUME NEW x, NEW t, Proper(x, t)
  PROVE  HasType(x, t)
  BY DEF Proper, Closed

LEMMA ProperBits ==
  ASSUME NEW x, NEW t, Proper(x, t), t.kind = "bits"
  PROVE  /\ x.kind = "bits" /\ t = Bits(x.width) /\ t.width = x.width
         /\ x.width \in Nat \ {0} /\ x.v \in Nat /\ x.v <= Pow2(x.width) - 1
<1>1. HasType(x, t) /\ TypeOfValue(x) = t
  BY ProperHasType DEF Proper
<1>2. x.kind = "bits"
  BY <1>1, KindOfType DEF ValueKinds
<1>3. t = Bits(x.width)
  BY <1>1, <1>2 DEF TypeOfValue
<1>4. x.width \in Nat \ {0} /\ x.v \in 0 .. Pow2(x.width) - 1
  BY <1>1, <1>2 DEF HasType, Fits
<1>5. Pow2(x.width) \in Nat
  BY <1>4, PowPositive
<1> QED BY <1>2, <1>3, <1>4, <1>5 DEF Bits

LEMMA ProperBoolean ==
  ASSUME NEW x, NEW t, Proper(x, t), t.kind = "boolean"
  PROVE  x.kind = "boolean" /\ x.v \in BOOLEAN /\ t = Boolean
<1>1. HasType(x, t) /\ TypeOfValue(x) = t
  BY ProperHasType DEF Proper
<1>2. x.kind = "boolean"
  BY <1>1, KindOfType DEF ValueKinds
<1> QED BY <1>1, <1>2 DEF HasType, Fits, TypeOfValue

LEMMA ProperHeader ==
  ASSUME NEW x, NEW t, Proper(x, t), t.kind = "header"
  PROVE  x.kind = "header" /\ t = Named("header", x.name) /\ x.name = t.name /\ x.valid \in BOOLEAN
<1>1. HasType(x, t) /\ TypeOfValue(x) = t
  BY ProperHasType DEF Proper
<1>2. x.kind = "header"
  BY <1>1, KindOfType DEF ValueKinds
<1>3. t = Named("header", x.name)
  BY <1>1, <1>2 DEF TypeOfValue
<1>4. x.valid \in BOOLEAN
  BY <1>1, <1>2 DEF HasType, IsHeader
<1> QED BY <1>2, <1>3, <1>4 DEF Named

(* The fields of a proper header or struct.                                    *)
LEMMA ProperFields ==
  ASSUME NEW x, NEW t, Proper(x, t), t.kind \in {"header", "struct"}
  PROVE  /\ x.kind = t.kind /\ x.name = t.name /\ DOMAIN x.fields = DOMAIN Fields[t.name]
         /\ \A i \in DOMAIN x.fields : Proper(x.fields[i], Fields[t.name][i].type)
<1>1. HasType(x, t) /\ TypeOfValue(x) = t
  BY ProperHasType DEF Proper
<1>2. x.kind = t.kind
  BY <1>1, KindOfType DEF ValueKinds
<1>3. t = Named(x.kind, x.name)
  BY <1>1, <1>2 DEF TypeOfValue
<1>4. x.name = t.name
  BY <1>3 DEF Named
<1>5. HasFields(x)
  BY <1>1, <1>2 DEF HasType, IsHeader
<1>6. PICK W : Closed(W) /\ x \in W
  BY DEF Proper
<1>7. \A i \in DOMAIN x.fields : x.fields[i] \in W
  BY <1>2, <1>6 DEF Closed, Parts
<1> QED BY <1>2, <1>4, <1>5, <1>6, <1>7 DEF HasFields, Proper

(* The elements of a proper stack.                                             *)
LEMMA ProperStack ==
  ASSUME NEW x, NEW t, Proper(x, t), t.kind = "stack"
  PROVE  /\ x.kind = "stack" /\ x.name = t.name /\ Len(x.elements) = t.size /\ x.next \in 0 .. t.size
         /\ \A i \in 1 .. t.size : Proper(x.elements[i], Named("header", t.name))
<1>1. HasType(x, t) /\ TypeOfValue(x) = t
  BY ProperHasType DEF Proper
<1>2. x.kind = "stack"
  BY <1>1, KindOfType DEF ValueKinds
<1>3. t = StackOf(x.name, Len(x.elements))
  BY <1>1, <1>2 DEF TypeOfValue
<1>4. x.name = t.name /\ Len(x.elements) = t.size
  BY <1>3 DEF StackOf
<1>5. x.next \in 0 .. t.size /\ \A i \in 1 .. t.size : IsHeader(x.elements[i], x.name)
  BY <1>1, <1>2, <1>4 DEF HasType
<1>6. PICK W : Closed(W) /\ x \in W
  BY DEF Proper
<1>7. \A i \in 1 .. t.size : x.elements[i] \in W
  BY <1>2, <1>4, <1>6 DEF Closed, Parts
<1>8. \A i \in 1 .. t.size : TypeOfValue(x.elements[i]) = Named("header", t.name)
  BY <1>4, <1>5 DEF IsHeader, TypeOfValue
<1> QED BY <1>2, <1>4, <1>5, <1>6, <1>7, <1>8 DEF Proper

LEMMA NotNoType ==
  ASSUME NEW x, NEW t, Proper(x, t), t.kind \in ValueKinds
  PROVE  t # NoType
  BY DEF NoType, Plain, ValueKinds

(* A value with nothing inside is proper if it has its type.                   *)
LEMMA Single ==
  ASSUME NEW x, x.kind \notin {"header", "struct", "stack"}, HasType(x, TypeOfValue(x))
  PROVE  Proper(x, TypeOfValue(x))
<1>1. Parts(x) = {}
  BY DEF Parts
<1>2. Closed({x})
  BY <1>1 DEF Closed
<1> QED BY <1>2 DEF Proper

LEMMA BitsProper ==
  ASSUME NEW w \in Nat \ {0}, NEW v \in 0 .. Pow2(w) - 1
  PROVE  Proper(BitsValue(w, v), Bits(w))
<1> DEFINE x == BitsValue(w, v)
<1>1. x.kind = "bits" /\ x.width = w /\ x.v = v
  BY DEF BitsValue
<1> HIDE DEF x
<1>2. TypeOfValue(x) = Bits(w)
  BY <1>1 DEF TypeOfValue
<1>3. HasType(x, Bits(w))
  BY <1>1, <1>2 DEF HasType, Fits
<1>4. Proper(x, TypeOfValue(x))
  BY <1>1, <1>2, <1>3, Single
<1> QED BY <1>2, <1>4 DEF x

LEMMA WrapProper ==
  ASSUME NEW w \in Nat \ {0}, NEW v \in Int
  PROVE  Proper(Wrap(w, v), Bits(w))
<1>1. Pow2(w) \in Nat \ {0}
  BY PowPositive
<1>2. v % Pow2(w) \in 0 .. Pow2(w) - 1
  BY <1>1, Remainder
<1> QED BY <1>2, BitsProper DEF Wrap

LEMMA BoolProper ==
  ASSUME NEW b \in BOOLEAN
  PROVE  Proper(Bool(b), Boolean)
<1> DEFINE x == Bool(b)
<1>1. x.kind = "boolean" /\ x.v = b
  BY DEF Bool
<1> HIDE DEF x
<1>2. TypeOfValue(x) = Boolean
  BY <1>1 DEF TypeOfValue
<1>3. HasType(x, Boolean)
  BY <1>1, <1>2 DEF HasType, Fits
<1>4. Proper(x, TypeOfValue(x))
  BY <1>1, <1>2, <1>3, Single
<1> QED BY <1>2, <1>4 DEF x

(* The type of a header's field is bits or boolean.                            *)
LEMMA FieldScalar ==
  ASSUME NEW h \in HeaderTypes, NEW i \in DOMAIN Fields[h]
  PROVE  LET t == Fields[h][i].type
         IN t = Boolean \/ (t.kind = "bits" /\ t.width \in Nat \ {0} /\ t = Bits(t.width))
<1> DEFINE t == Fields[h][i].type
<1>1. IsScalar(t) /\ TypeFormed(t)
  BY TypingAssumption
<1> HIDE DEF t
<1>2. t = Boolean \/ (t.kind = "bits" /\ t.width \in Nat \ {0} /\ t = Bits(t.width))
  BY <1>1 DEF IsScalar, TypeFormed, IsBits
<1> QED BY <1>2 DEF t

LEMMA HeaderProper ==
  ASSUME NEW h \in HeaderTypes, NEW b \in BOOLEAN, NEW fs, DOMAIN fs = DOMAIN Fields[h],
         \A i \in DOMAIN Fields[h] : Proper(fs[i], Fields[h][i].type)
  PROVE  Proper([kind |-> "header", name |-> h, valid |-> b, fields |-> fs], Named("header", h))
<1> DEFINE x == [kind |-> "header", name |-> h, valid |-> b, fields |-> fs]
           W == {x} \cup {fs[i] : i \in DOMAIN fs}
<1>1. x.kind = "header" /\ x.name = h /\ x.valid = b /\ x.fields = fs
  OBVIOUS
<1> HIDE DEF x
<1>2. TypeOfValue(x) = Named("header", h)
  BY <1>1 DEF TypeOfValue
<1>3. ASSUME NEW i \in DOMAIN fs
      PROVE  /\ Fits(fs[i]) /\ TypeOfValue(fs[i]) = Fields[h][i].type
             /\ HasType(fs[i], TypeOfValue(fs[i])) /\ Parts(fs[i]) = {}
  <2> DEFINE t == Fields[h][i].type
  <2>1. Proper(fs[i], t) /\ (t = Boolean \/ t.kind = "bits")
    BY <1>3, FieldScalar
  <2> HIDE DEF t
  <2>2. HasType(fs[i], t) /\ TypeOfValue(fs[i]) = t
    BY <2>1, ProperHasType DEF Proper
  <2>3. fs[i].kind \in {"bits", "boolean"}
    BY <2>1, ProperBits, ProperBoolean DEF Boolean, Plain
  <2>4. Fits(fs[i]) /\ Parts(fs[i]) = {}
    BY <2>2, <2>3 DEF HasType, Parts
  <2> QED BY <2>2, <2>4 DEF t
<1>4. HasType(x, TypeOfValue(x))
  BY <1>1, <1>2, <1>3 DEF HasType, IsHeader, HasFields
<1>5. Parts(x) \subseteq W
  BY <1>1 DEF Parts
<1>6. Closed(W)
  BY <1>3, <1>4, <1>5 DEF Closed
<1>7. x \in W
  OBVIOUS
<1> HIDE DEF W
<1> QED BY <1>2, <1>6, <1>7 DEF Proper, x

LEMMA VariableProper ==
  ASSUME NEW e \in Envs, NEW x \in DOMAIN Decls
  PROVE  Proper(e[x], Decls[x])
<1>1. Closed(Values)
  BY TypingAssumption DEF Closed
<1>2. e[x] \in Values /\ TypeOfValue(e[x]) = Decls[x]
  BY TypingAssumption
<1> QED BY <1>1, <1>2 DEF Proper

(* sum[k]: the bits of the first k fields of h.                                *)
LEMMA BelowIsNat ==
  ASSUME NEW h \in HeaderTypes
  PROVE  /\ Len(Fields[h]) \in Nat /\ DOMAIN Fields[h] = 1 .. Len(Fields[h])
         /\ \A i \in DOMAIN Fields[h] : FieldWidth(h, i) \in Nat
         /\ \A i \in 0 .. Len(Fields[h]) : Below(h, i) \in Nat
<1> DEFINE n == Len(Fields[h])
           width == [k \in 1 .. n |-> FieldWidth(h, k)]
           step == [k \in 1 .. n |-> [x \in Nat |-> x + width[k]]]
           Def(q) == [k \in 0 .. n |-> IF k = 0 THEN 0 ELSE q[k - 1] + FieldWidth(h, k)]
           sum == CHOOSE q : q = Def(q)
<1>1. n \in Nat /\ DOMAIN Fields[h] = 1 .. n
  BY TypingAssumption
<1>2. \A i \in 1 .. n : FieldWidth(h, i) \in Nat
  <2> TAKE i \in 1 .. n
  <2> DEFINE t == Fields[h][i].type
  <2>1. t = Boolean \/ (t.kind = "bits" /\ t.width \in Nat \ {0})
    BY <1>1, FieldScalar
  <2>2. WidthOf(t) \in Nat
    BY <2>1 DEF WidthOf, IsBits, IsBoolean, Boolean, Plain
  <2> QED BY <2>2 DEF FieldWidth
<1>3. \A i \in 1 .. n : width[i] \in Nat /\ width[i] = FieldWidth(h, i)
  BY <1>2
<1> HIDE DEF width
<1>4. step \in Steps(n, Nat)
  BY <1>3 DEF Steps
<1>5. PICK q \in [0 .. n -> Nat] : q[0] = 0 /\ \A k \in 1 .. n : q[k] = step[k][q[k - 1]]
  <2> HIDE DEF step, n
  <2>1. Iterations(n, Nat, 0, step) # {}
    BY <1>1, <1>4, Iterates
  <2> QED BY <2>1 DEF Iterations
<1>6. \A k \in 1 .. n : q[k] = q[k - 1] + FieldWidth(h, k)
  <2> HIDE DEF n
  <2> TAKE k \in 1 .. n
  <2>1. q[k - 1] \in Nat
    BY <1>1, <1>5
  <2>2. step[k][q[k - 1]] = q[k - 1] + width[k]
    BY <2>1
  <2> QED BY <1>3, <1>5, <2>2
<1>7. q = Def(q)
  BY <1>1, <1>5, <1>6
<1>8. sum = Def(sum)
  <2> HIDE DEF Def
  <2> QED BY <1>7
<1>9. \A i : Below(h, i) = sum[n] - sum[i]
  BY DEF Below
<1> HIDE DEF sum, n
<1>10. sum[0] = 0 /\ \A k \in 1 .. n : sum[k] = sum[k - 1] + FieldWidth(h, k)
  <2>1. n \in Nat
    BY <1>1
  <2>2. \A k \in 0 .. n : sum[k] = IF k = 0 THEN 0 ELSE sum[k - 1] + FieldWidth(h, k)
    BY <1>8
  <2> QED BY <2>1, <2>2
<1> DEFINE G == {k \in 0 .. n : sum[k] \in Nat /\ \A i \in 0 .. k : sum[i] \in Nat /\ sum[i] <= sum[k]}
<1>11. 0 \in G
  BY <1>1, <1>10
<1>12. \A k \in 1 .. n : k - 1 \in G => k \in G
  <2> SUFFICES ASSUME NEW k \in 1 .. n, k - 1 \in G PROVE k \in G
    OBVIOUS
  <2>1. sum[k] = sum[k - 1] + FieldWidth(h, k) /\ FieldWidth(h, k) \in Nat
    BY <1>2, <1>10
  <2>2. sum[k - 1] \in Nat /\ \A i \in 0 .. k - 1 : sum[i] \in Nat /\ sum[i] <= sum[k - 1]
    BY <1>1
  <2>3. \A i \in 0 .. k : i = k \/ i \in 0 .. k - 1
    BY <1>1
  <2> QED BY <1>1, <2>1, <2>2, <2>3
<1> HIDE DEF G
<1>13. n \in G
  <2>1. n \in Nat
    BY <1>1
  <2>2. \A k \in 0 .. n : k \in G
    BY <1>11, <1>12, <2>1, Upward
  <2> QED BY <2>1, <2>2
<1>14. \A i \in 0 .. n : sum[n] - sum[i] \in Nat
  BY <1>13 DEF G
<1> QED BY <1>1, <1>2, <1>9, <1>14 DEF n

LEMMA ScalarProper ==
  ASSUME NEW h \in HeaderTypes, NEW i \in DOMAIN Fields[h], NEW v \in Int
  PROVE  Proper(Scalar(Fields[h][i].type, v % Pow2(FieldWidth(h, i))), Fields[h][i].type)
<1> DEFINE t == Fields[h][i].type
<1>1. t = Boolean \/ (t.kind = "bits" /\ t.width \in Nat \ {0} /\ t = Bits(t.width))
  BY FieldScalar
<1>2. FieldWidth(h, i) = WidthOf(t)
  BY DEF FieldWidth
<1> HIDE DEF t
<1>3. CASE t = Boolean
  <2>1. Scalar(t, v % Pow2(FieldWidth(h, i))) = Bool(v % Pow2(FieldWidth(h, i)) = 1)
    BY <1>3 DEF Scalar, IsBoolean, Boolean, Plain
  <2> QED BY <1>3, <2>1, BoolProper DEF t
<1>4. CASE t.kind = "bits" /\ t.width \in Nat \ {0} /\ t = Bits(t.width)
  <2>1. Scalar(t, v % Pow2(FieldWidth(h, i))) = Wrap(t.width, v)
    BY <1>2, <1>4 DEF Scalar, IsBoolean, IsBits, WidthOf, Wrap
  <2> QED BY <1>4, <2>1, WrapProper DEF t
<1> QED BY <1>1, <1>3, <1>4

(* header_from_bits returns a header of its type.                              *)
LEMMA HeaderFromBitsProper ==
  ASSUME NEW h \in HeaderTypes, NEW raw \in Nat
  PROVE  Proper(HeaderFromBits(h, raw), Named("header", h))
<1> DEFINE fs == [i \in DOMAIN Fields[h] |->
                    Scalar(Fields[h][i].type, (raw \div Pow2(Below(h, i))) % Pow2(FieldWidth(h, i)))]
<1>1. \A i \in DOMAIN Fields[h] : Proper(fs[i], Fields[h][i].type)
  <2> TAKE i \in DOMAIN Fields[h]
  <2>1. Below(h, i) \in Nat
    BY BelowIsNat
  <2>2. raw \div Pow2(Below(h, i)) \in Nat
    BY <2>1, PowPositive, Quotient
  <2> QED BY <2>2, ScalarProper
<1>2. DOMAIN fs = DOMAIN Fields[h]
  OBVIOUS
<1>3. HeaderFromBits(h, raw) = [kind |-> "header", name |-> h, valid |-> TRUE, fields |-> fs]
  BY DEF HeaderFromBits
<1> HIDE DEF fs
<1> QED BY <1>1, <1>2, <1>3, HeaderProper

LEMMA ZeroHeaderProper ==
  ASSUME NEW h \in HeaderTypes
  PROVE  Proper(ZeroHeader(h), Named("header", h))
<1> DEFINE fs == [i \in DOMAIN Fields[h] |-> ZeroScalar(Fields[h][i].type)]
<1>1. \A i \in DOMAIN Fields[h] : Proper(fs[i], Fields[h][i].type)
  <2> TAKE i \in DOMAIN Fields[h]
  <2> DEFINE t == Fields[h][i].type
  <2>1. t = Boolean \/ (t.kind = "bits" /\ t.width \in Nat \ {0} /\ t = Bits(t.width))
    BY FieldScalar
  <2> HIDE DEF t
  <2>2. Proper(ZeroScalar(t), t)
    <3>1. CASE t = Boolean
      <4>1. ZeroScalar(t) = Bool(FALSE)
        BY <3>1 DEF ZeroScalar, IsBits, Boolean, Plain
      <4> QED BY <3>1, <4>1, BoolProper
    <3>2. CASE t.kind = "bits" /\ t.width \in Nat \ {0} /\ t = Bits(t.width)
      <4>1. ZeroScalar(t) = BitsValue(t.width, 0)
        BY <3>2 DEF ZeroScalar, IsBits
      <4>2. 0 \in 0 .. Pow2(t.width) - 1
        BY <3>2, PowPositive
      <4> QED BY <3>2, <4>1, <4>2, BitsProper
    <3> QED BY <2>1, <3>1, <3>2
  <2> QED BY <2>2 DEF t
<1>2. DOMAIN fs = DOMAIN Fields[h]
  OBVIOUS
<1>3. ZeroHeader(h) = [kind |-> "header", name |-> h, valid |-> FALSE, fields |-> fs]
  BY DEF ZeroHeader
<1> HIDE DEF fs
<1> QED BY <1>1, <1>2, <1>3, HeaderProper

-----------------------------------------------------------------------------
(* Nodes.  A good one has a checked type or none, and if nothing was reported   *)
(* on the way it has one and its value is of that type.                        *)
GoodNode(n) ==
  /\ n.clean \in BOOLEAN
  /\ n.type = NoType \/ TypeFormed(n.type)
  /\ n.clean => n.type # NoType /\ Proper(n.value, n.type)

LEMMA GoodMade ==
  ASSUME NEW t, NEW clean \in BOOLEAN, NEW x, t = NoType \/ TypeFormed(t),
         clean => TypeFormed(t) /\ Proper(x, t)
  PROVE  GoodNode(Node(t, clean, x))
<1>1. TypeFormed(t) => t # NoType
  BY DEF TypeFormed, NoType, Plain, IsBits
<1> QED BY <1>1 DEF GoodNode, Node

LEMMA FormedTypes ==
  /\ \A w \in Nat \ {0} : TypeFormed(Bits(w))
  /\ TypeFormed(Boolean) /\ TypeFormed(Plain("error"))
  /\ \A h \in HeaderTypes : TypeFormed(Named("header", h))
  BY DEF TypeFormed, IsBits, Bits, Boolean, Plain, Named

LEMMA FormedIsBoolean == \A t : TypeFormed(t) \in BOOLEAN
  BY DEF TypeFormed

LEMMA BitsLiteralGood ==
  ASSUME NEW w \in Nat, NEW v \in Nat
  PROVE  GoodNode(BitsLiteral(w, v))
<1>1. Pow2(w) \in Nat
  BY PowPositive
<1>2. ASSUME w >= 1, v < Pow2(w) PROVE Proper(BitsValue(w, v), Bits(w))
  BY <1>1, <1>2, BitsProper
<1>3. w >= 1 => TypeFormed(Bits(w))
  BY FormedTypes
<1> QED BY <1>2, <1>3, GoodMade DEF BitsLiteral, When

LEMMA BooleanLiteralGood ==
  ASSUME NEW b \in BOOLEAN
  PROVE  GoodNode(BooleanLiteral(b))
  BY BoolProper, FormedTypes, GoodMade DEF BooleanLiteral

LEMMA ErrorLiteralGood ==
  ASSUME NEW e
  PROVE  GoodNode(ErrorLiteral(e))
<1> DEFINE x == [kind |-> "error", v |-> e]
<1>1. x.kind = "error" /\ x.v = e
  OBVIOUS
<1>2. ErrorLiteral(e) = Node(Plain("error"), e \in Errors, x)
  BY DEF ErrorLiteral
<1> HIDE DEF x
<1>3. ASSUME e \in Errors PROVE Proper(x, Plain("error"))
  <2>1. TypeOfValue(x) = Plain("error")
    BY <1>1 DEF TypeOfValue
  <2>2. HasType(x, TypeOfValue(x))
    BY <1>1, <1>3 DEF HasType, Fits
  <2>3. Proper(x, TypeOfValue(x))
    BY <1>1, <2>2, Single
  <2> QED BY <2>1, <2>3
<1>4. (e \in Errors) \in BOOLEAN /\ TypeFormed(Plain("error"))
  BY FormedTypes
<1> QED BY <1>2, <1>3, <1>4, GoodMade

LEMMA EnumLiteralGood ==
  ASSUME NEW e, NEW m
  PROVE  GoodNode(EnumLiteral(e, m))
<1>1. CASE e \notin DOMAIN EnumTypes
  BY <1>1, GoodMade DEF EnumLiteral
<1>2. CASE e \in DOMAIN EnumTypes
  <2> DEFINE x == [kind |-> "enum_type", name |-> e, v |-> m]
             t == Named("enum_type", e)
             known == \E i \in DOMAIN EnumTypes[e] : EnumTypes[e][i] = m
  <2>1. x.kind = "enum_type" /\ x.name = e /\ x.v = m
    OBVIOUS
  <2>2. EnumLiteral(e, m) = Node(t, known, x)
    BY <1>2 DEF EnumLiteral
  <2>3. TypeFormed(t)
    BY <1>2 DEF TypeFormed, IsBits, Named
  <2> HIDE DEF x
  <2>4. ASSUME known PROVE Proper(x, t)
    <3>1. TypeOfValue(x) = t
      BY <2>1 DEF TypeOfValue
    <3>2. HasType(x, TypeOfValue(x))
      BY <2>1, <2>4 DEF HasType, Fits
    <3>3. Proper(x, TypeOfValue(x))
      BY <2>1, <3>2, Single
    <3> QED BY <3>1, <3>3
  <2> HIDE DEF t
  <2> QED BY <2>2, <2>3, <2>4, GoodMade
<1> QED BY <1>1, <1>2

LEMMA VarGood ==
  ASSUME env \in Envs, NEW x
  PROVE  GoodNode(Var(x))
<1>1. CASE x \notin DOMAIN Decls
  BY <1>1, GoodMade DEF Var
<1>2. CASE x \in DOMAIN Decls
  <2> DEFINE t == Decls[x]
             clean == TypeFormed(t)
  <2>1. Proper(env[x], t)
    BY <1>2, VariableProper
  <2>2. Var(x) = Node(When(clean, t), clean, env[x])
    BY <1>2 DEF Var
  <2>3. clean \in BOOLEAN
    BY FormedIsBoolean
  <2> HIDE DEF t
  <2>4. When(clean, t) = NoType \/ TypeFormed(When(clean, t))
    BY DEF When
  <2>5. clean => TypeFormed(When(clean, t)) /\ Proper(env[x], When(clean, t))
    BY <2>1 DEF When
  <2> QED BY <2>2, <2>3, <2>4, <2>5, GoodMade
<1> QED BY <1>1, <1>2

LEMMA LookaheadGood ==
  ASSUME NEW t \in Types, NEW raw \in Nat, parser \in BOOLEAN
  PROVE  GoodNode(Lookahead(t, raw))
<1> DEFINE ok == TypeFormed(t) /\ t.kind \in {"bits", "boolean", "header"}
           cut == raw % Pow2(PacketWidth(t))
           x == IF ~ok THEN InterpError
                ELSE IF t.kind = "header" THEN HeaderFromBits(t.name, cut) ELSE Scalar(t, cut)
<1>1. Lookahead(t, raw) = Node(When(ok, t), parser /\ ok, x)
  BY DEF Lookahead
<1>2. ASSUME ok PROVE Proper(x, t)
  <2>1. CASE t.kind = "bits"
    <3>1. PICK w \in Widths : t = Bits(w)
      BY <2>1 DEF Types, Boolean, Plain, Named
    <3>2. t.width = w /\ w \in Nat \ {0}
      BY <1>2, <2>1, <3>1 DEF TypeFormed, IsBits, Bits
    <3>3. x = Scalar(t, raw % Pow2(w))
      BY <1>2, <2>1, <3>2 DEF PacketWidth, WidthOf, IsBits
    <3>4. x = Wrap(w, raw)
      BY <2>1, <3>2, <3>3 DEF Scalar, IsBoolean, Wrap
    <3> QED BY <3>1, <3>2, <3>4, WrapProper
  <2>2. CASE t.kind = "boolean"
    <3>1. t = Boolean
      BY <2>2 DEF Types, Boolean, Plain, Named, Bits
    <3>2. x = Bool(cut = 1)
      BY <1>2, <2>2 DEF Scalar, IsBoolean
    <3> QED BY <3>1, <3>2, BoolProper
  <2>3. CASE t.kind = "header"
    <3>1. t = Named("header", t.name) /\ t.name \in HeaderTypes
      <4>1. t.name \in HeaderTypes
        BY <1>2, <2>3 DEF TypeFormed, IsBits
      <4> QED BY <2>3, <4>1 DEF Types, Boolean, Plain, Named, Bits
    <3>2. x = HeaderFromBits(t.name, cut)
      BY <1>2, <2>3
    <3>3. cut \in Nat
      <4>1. PacketWidth(t) \in Nat
        <5>1. 0 \in 0 .. Len(Fields[t.name])
          BY <3>1, BelowIsNat
        <5> QED BY <2>3, <3>1, <5>1, BelowIsNat DEF PacketWidth
      <4>2. Pow2(PacketWidth(t)) \in Nat \ {0}
        BY <4>1, PowPositive
      <4>3. raw % Pow2(PacketWidth(t)) \in 0 .. Pow2(PacketWidth(t)) - 1
        BY <4>2, Remainder
      <4> QED BY <4>2, <4>3
    <3> HIDE DEF cut
    <3> QED BY <3>1, <3>2, <3>3, HeaderFromBitsProper
  <2> QED BY <1>2, <2>1, <2>2, <2>3
<1>3. ok \in BOOLEAN /\ (ok => TypeFormed(t))
  OBVIOUS
<1> HIDE DEF ok, x
<1> QED BY <1>1, <1>2, <1>3, GoodMade DEF When

LEMMA MemberGood ==
  ASSUME NEW n, GoodNode(n), NEW f
  PROVE  GoodNode(Member(n, f))
<1> DEFINE ok == n.type.kind \in {"header", "struct"} /\ FieldIndex(n.type.name, f) # {}
           i == TheField(n.type.name, f)
           t == IF ok THEN Fields[n.type.name][i].type ELSE NoType
           x == IF n.value.kind \in {"header", "struct"} /\ FieldIndex(n.value.name, f) # {}
                THEN n.value.fields[TheField(n.value.name, f)] ELSE InterpError
<1>1. Member(n, f) = Node(t, n.clean /\ ok, x)
  BY DEF Member
<1>2. ok => i \in DOMAIN Fields[n.type.name]
  BY DEF TheField, FieldIndex
<1>3. ASSUME ok PROVE TypeFormed(t)
  <2>1. n.type # NoType
    BY <1>3 DEF NoType, Plain
  <2>2. n.type.name \in HeaderTypes \cup StructTypes
    BY <1>3, <2>1 DEF GoodNode, TypeFormed, IsBits
  <2>3. TypeFormed(Fields[n.type.name][i].type)
    BY <1>2, <1>3, <2>2, TypingAssumption
  <2> QED BY <1>3, <2>3
<1>4. ASSUME ok, n.clean PROVE Proper(x, t)
  <2>1. Proper(n.value, n.type)
    BY <1>4 DEF GoodNode
  <2>2. /\ n.value.kind = n.type.kind /\ n.value.name = n.type.name
        /\ DOMAIN n.value.fields = DOMAIN Fields[n.type.name]
        /\ \A j \in DOMAIN n.value.fields : Proper(n.value.fields[j], Fields[n.type.name][j].type)
    BY <1>4, <2>1, ProperFields
  <2>3. x = n.value.fields[i]
    BY <1>4, <2>2
  <2> QED BY <1>2, <1>4, <2>2, <2>3
<1>5. ok \in BOOLEAN /\ n.clean \in BOOLEAN /\ (~ok => t = NoType)
  BY DEF GoodNode
<1> HIDE DEF ok, t, x
<1> QED BY <1>1, <1>3, <1>4, <1>5, GoodMade

LEMMA LastIndexGood ==
  ASSUME NEW n, GoodNode(n), parser \in BOOLEAN
  PROVE  GoodNode(LastIndex(n))
<1> DEFINE clean == parser /\ Expected(n, n.type.kind = "stack")
           x == IF Evaluates(n.value, "stack") THEN Wrap(IndexBits, n.value.next - 1) ELSE InterpError
<1>1. LastIndex(n) = Node(Bits(IndexBits), clean, x)
  BY DEF LastIndex
<1>2. ASSUME clean PROVE Proper(x, Bits(IndexBits))
  <2>1. n.type.kind = "stack" /\ Proper(n.value, n.type)
    BY <1>2 DEF GoodNode, Expected
  <2>2. n.value.kind = "stack" /\ n.value.next \in 0 .. n.type.size
    BY <2>1, ProperStack
  <2>3. x = Wrap(IndexBits, n.value.next - 1) /\ n.value.next - 1 \in Int
    BY <2>2 DEF Evaluates
  <2> QED BY <2>3, WrapProper, TypingAssumption
<1>3. clean \in BOOLEAN
  BY DEF GoodNode, Expected
<1>4. TypeFormed(Bits(IndexBits))
  BY FormedTypes, TypingAssumption
<1> HIDE DEF clean, x
<1> QED BY <1>1, <1>2, <1>3, <1>4, GoodMade

LEMMA IsValidGood ==
  ASSUME NEW n, GoodNode(n)
  PROVE  GoodNode(IsValid(n))
<1> DEFINE clean == Expected(n, n.type.kind = "header")
           x == IF Evaluates(n.value, "header") THEN Bool(n.value.valid) ELSE InterpError
<1>1. IsValid(n) = Node(Boolean, clean, x)
  BY DEF IsValid
<1>2. ASSUME clean PROVE Proper(x, Boolean)
  <2>1. n.type.kind = "header" /\ Proper(n.value, n.type)
    BY <1>2 DEF GoodNode, Expected
  <2>2. n.value.kind = "header" /\ n.value.valid \in BOOLEAN
    BY <2>1, ProperHeader
  <2> QED BY <2>2, BoolProper DEF Evaluates
<1>3. clean \in BOOLEAN
  BY DEF GoodNode, Expected
<1> HIDE DEF clean, x
<1> QED BY <1>1, <1>2, <1>3, FormedTypes, GoodMade

LEMMA UnaryGood ==
  ASSUME NEW op \in {"not", "complement", "negate"}, NEW n, GoodNode(n)
  PROVE  GoodNode(Unary(op, n))
<1> DEFINE ok == IF op = "not" THEN IsBoolean(n.type) ELSE IsBits(n.type)
           v == n.value
           x == CASE op = "not" /\ Evaluates(v, "boolean") -> Bool(~v.v)
                  [] op = "complement" /\ Evaluates(v, "bits") -> Wrap(v.width, -v.v - 1)
                  [] op = "negate" /\ Evaluates(v, "bits") -> Wrap(v.width, -v.v)
                  [] OTHER -> InterpError
<1>1. Unary(op, n) = Node(When(ok, n.type), Expected(n, ok), x)
  BY DEF Unary
<1>2. ASSUME n.clean, ok PROVE Proper(x, n.type)
  <2>1. Proper(v, n.type)
    BY <1>2 DEF GoodNode
  <2>2. CASE op = "not"
    <3>1. v.kind = "boolean" /\ v.v \in BOOLEAN /\ n.type = Boolean
      BY <1>2, <2>1, <2>2, ProperBoolean DEF IsBoolean
    <3>2. x = Bool(~v.v)
      BY <2>2, <3>1 DEF Evaluates
    <3> QED BY <3>1, <3>2, BoolProper
  <2>3. CASE op \in {"complement", "negate"}
    <3>1. v.kind = "bits" /\ v.width \in Nat \ {0} /\ v.v \in Nat /\ n.type = Bits(v.width)
      BY <1>2, <2>1, <2>3, ProperBits DEF IsBits
    <3>2. x \in {Wrap(v.width, -v.v - 1), Wrap(v.width, -v.v)}
      BY <2>3, <3>1 DEF Evaluates
    <3>3. -v.v - 1 \in Int /\ -v.v \in Int
      BY <3>1
    <3> QED BY <3>1, <3>2, <3>3, WrapProper
  <2> QED BY <2>2, <2>3
<1>3. ok \in BOOLEAN /\ (ok => TypeFormed(n.type))
  <2>1. ok = (n.type.kind = (IF op = "not" THEN "boolean" ELSE "bits"))
    BY DEF IsBoolean, IsBits
  <2>2. ASSUME ok PROVE n.type # NoType
    <3>1. n.type.kind \in {"boolean", "bits"}
      BY <2>2 DEF IsBoolean, IsBits
    <3> QED BY <3>1 DEF NoType, Plain
  <2> HIDE DEF ok
  <2> QED BY <2>1, <2>2 DEF GoodNode
<1>4. n.clean \in BOOLEAN
  BY DEF GoodNode
<1> HIDE DEF ok, x
<1> QED BY <1>1, <1>2, <1>3, <1>4, GoodMade DEF When, Expected

LEMMA SliceGood ==
  ASSUME NEW hi \in Nat, NEW lo \in Nat, NEW n, GoodNode(n)
  PROVE  GoodNode(Slice(hi, lo, n))
<1> DEFINE ok == IsBits(n.type) /\ lo <= hi /\ hi < n.type.width
           w == hi - lo + 1
           x == IF Evaluates(n.value, "bits") /\ lo <= hi
                THEN BitsValue(w, (n.value.v \div Pow2(lo)) % Pow2(w)) ELSE InterpError
<1>1. Slice(hi, lo, n) = Node(IF ok THEN Bits(w) ELSE NoType, n.clean /\ ok, x)
  BY DEF Slice
<1>2. ASSUME ok PROVE w \in Nat \ {0}
  BY <1>2
<1>3. ASSUME n.clean, ok PROVE Proper(x, Bits(w))
  <2>1. n.value.kind = "bits" /\ n.value.v \in Nat
    BY <1>3, ProperBits DEF GoodNode, IsBits
  <2>2. x = Wrap(w, n.value.v \div Pow2(lo))
    BY <1>3, <2>1 DEF Evaluates, Wrap
  <2>3. n.value.v \div Pow2(lo) \in Nat
    BY <2>1, PowPositive, Quotient
  <2> HIDE DEF w
  <2> QED BY <1>2, <1>3, <2>2, <2>3, WrapProper
<1>4. ok \in BOOLEAN /\ n.clean \in BOOLEAN
  BY DEF GoodNode
<1>5. ok => TypeFormed(Bits(w))
  BY <1>2, FormedTypes
<1> HIDE DEF ok, x, w
<1> QED BY <1>1, <1>3, <1>4, <1>5, GoodMade

LEMMA MuxGood ==
  ASSUME NEW c, NEW n, NEW m, GoodNode(c), GoodNode(n), GoodNode(m)
  PROVE  GoodNode(Mux(c, n, m))
<1> DEFINE ok == n.type # NoType /\ n.type = m.type
           clean == Expected(c, IsBoolean(c.type)) /\ n.clean /\ m.clean /\ ok
           x == IF ~Evaluates(c.value, "boolean") THEN InterpError
                ELSE IF c.value.v THEN n.value ELSE m.value
<1>1. Mux(c, n, m) = Node(When(ok, n.type), clean, x)
  BY DEF Mux
<1>2. ASSUME clean PROVE ok /\ Proper(x, n.type)
  <2>1. c.value.kind = "boolean"
    BY <1>2, ProperBoolean DEF GoodNode, Expected, IsBoolean
  <2>2. x \in {n.value, m.value}
    BY <2>1 DEF Evaluates
  <2> QED BY <1>2, <2>2 DEF GoodNode
<1>3. ok \in BOOLEAN /\ clean \in BOOLEAN /\ (ok => TypeFormed(n.type))
  BY DEF GoodNode, Expected
<1> HIDE DEF ok, clean, x
<1> QED BY <1>1, <1>2, <1>3, GoodMade DEF When

LEMMA IndexGood ==
  ASSUME NEW array, NEW i, GoodNode(array), GoodNode(i)
  PROVE  GoodNode(Index(array, i))
<1> DEFINE ok == array.type.kind = "stack"
           t == IF ok THEN Named("header", array.type.name) ELSE NoType
           clean == Expected(array, ok) /\ Expected(i, IsBits(i.type))
           v == array.value
           x == IF ~(Evaluates(v, "stack") /\ Evaluates(i.value, "bits")) THEN InterpError
                ELSE IF i.value.v < Len(v.elements) THEN v.elements[i.value.v + 1]
                ELSE ZeroHeader(v.name)
<1>1. Index(array, i) = Node(t, clean, x)
  BY DEF Index
<1>2. ASSUME ok PROVE array.type.name \in HeaderTypes /\ array.type.size \in Nat
  BY <1>2 DEF GoodNode, TypeFormed, IsBits, NoType, Plain
<1>3. ok => TypeFormed(t)
  BY <1>2, FormedTypes
<1>4. ASSUME clean PROVE Proper(x, t)
  <2>1. ok /\ IsBits(i.type) /\ Proper(v, array.type) /\ Proper(i.value, i.type)
    BY <1>4 DEF GoodNode, Expected
  <2>2. /\ v.kind = "stack" /\ v.name = array.type.name /\ Len(v.elements) = array.type.size
        /\ \A k \in 1 .. array.type.size : Proper(v.elements[k], Named("header", array.type.name))
    BY <2>1, ProperStack
  <2>3. i.value.kind = "bits" /\ i.value.v \in Nat
    BY <2>1, ProperBits DEF IsBits
  <2>4. CASE i.value.v < array.type.size
    <3>1. x = v.elements[i.value.v + 1]
      BY <2>2, <2>3, <2>4 DEF Evaluates
    <3>2. i.value.v + 1 \in 1 .. array.type.size
      BY <1>2, <2>1, <2>3, <2>4
    <3> QED BY <2>1, <2>2, <3>1, <3>2
  <2>5. CASE ~(i.value.v < array.type.size)
    <3>1. x = ZeroHeader(array.type.name)
      BY <2>2, <2>3, <2>5 DEF Evaluates
    <3> QED BY <1>2, <2>1, <3>1, ZeroHeaderProper
  <2> QED BY <2>4, <2>5
<1>5. ok \in BOOLEAN /\ clean \in BOOLEAN /\ (clean => ok) /\ (~ok => t = NoType)
  BY DEF GoodNode, Expected
<1> HIDE DEF ok, t, clean, x
<1> QED BY <1>1, <1>3, <1>4, <1>5, GoodMade

LEMMA CastGood ==
  ASSUME NEW to \in Types, NEW n, GoodNode(n)
  PROVE  GoodNode(Cast(to, n))
<1> DEFINE ok == TypeFormed(to) /\ CastAllowed(n.type, to)
           v == n.value
           x == CASE to = Bits(0) -> InterpError
                  [] IsBits(to) /\ Evaluates(v, "boolean") -> BitsValue(to.width, IF v.v THEN 1 ELSE 0)
                  [] IsBits(to) /\ Evaluates(v, "bits") -> Wrap(to.width, v.v)
                  [] IsBoolean(to) /\ Evaluates(v, "bits") -> Bool(v.v = 1)
                  [] OTHER -> InterpError
<1>1. Cast(to, n) = Node(When(ok, to), n.clean /\ ok, x)
  BY DEF Cast
<1>2. to.kind = "bits" => to = Bits(to.width)
  BY DEF Types, Bits, Boolean, Plain, Named
<1>3. to.kind = "boolean" => to = Boolean
  BY DEF Types, Bits, Boolean, Plain, Named
<1>4. ASSUME n.clean, ok PROVE Proper(x, to)
  <2>1. Proper(v, n.type)
    BY <1>4 DEF GoodNode
  <2>2. CASE n.type.kind = "bits" /\ to.kind = "bits"
    <3>1. v.kind = "bits" /\ v.v \in Nat
      BY <2>1, <2>2, ProperBits
    <3>2. to.width \in Nat \ {0}
      BY <1>4, <2>2 DEF TypeFormed, IsBits
    <3>3. to # Bits(0)
      BY <3>2 DEF Bits
    <3>4. x = Wrap(to.width, v.v)
      BY <2>2, <3>1, <3>3 DEF Evaluates, IsBits, IsBoolean
    <3> HIDE DEF x, v
    <3> QED BY <1>2, <2>2, <3>1, <3>2, <3>4, WrapProper
  <2>3. CASE n.type.kind = "boolean" /\ to = Bits(1)
    <3>1. v.kind = "boolean" /\ v.v \in BOOLEAN
      BY <2>1, <2>3, ProperBoolean
    <3>2. to.width = 1 /\ to.kind = "bits" /\ to # Bits(0)
      BY <2>3 DEF Bits
    <3>3. x = BitsValue(1, IF v.v THEN 1 ELSE 0)
      BY <3>1, <3>2 DEF Evaluates, IsBits, IsBoolean
    <3>4. Pow2(1) = 2
      <4>1. Pow2(0 + 1) = 2 * Pow2(0)
        BY PowNext
      <4> QED BY <4>1, PowZero
    <3>5. (IF v.v THEN 1 ELSE 0) \in 0 .. Pow2(1) - 1
      BY <3>4
    <3> HIDE DEF x, v
    <3> QED BY <2>3, <3>3, <3>5, BitsProper
  <2>4. CASE n.type = Bits(1) /\ to.kind = "boolean"
    <3>1. n.type.kind = "bits"
      BY <2>4 DEF Bits
    <3>2. v.kind = "bits"
      BY <2>1, <3>1, ProperBits
    <3>3. to # Bits(0)
      BY <2>4 DEF Bits
    <3>4. x = Bool(v.v = 1)
      BY <2>4, <3>2, <3>3 DEF Evaluates, IsBits, IsBoolean
    <3> HIDE DEF x
    <3> QED BY <1>3, <2>4, <3>4, BoolProper
  <2> QED BY <1>4, <2>2, <2>3, <2>4 DEF CastAllowed, IsBits, IsBoolean
<1>5. ok \in BOOLEAN /\ n.clean \in BOOLEAN /\ (ok => TypeFormed(to))
  BY FormedIsBoolean DEF GoodNode, CastAllowed, IsBits, IsBoolean
<1> HIDE DEF ok, x
<1> QED BY <1>1, <1>4, <1>5, GoodMade DEF When

(* The arithmetic of bits_binary stays within the width it is given.           *)
InWidth(x) == x.width \in Nat \ {0} /\ x.v \in Nat /\ x.v <= Pow2(x.width) - 1

LEMMA BitsBinaryProper ==
  ASSUME NEW op \in BinaryOps, NEW x, NEW y, InWidth(x), InWidth(y)
  PROVE  /\ op \in SameWidth \cup Shifts => Proper(BitsBinary(op, x, y), Bits(x.width))
         /\ op = "concat" => Proper(BitsBinary(op, x, y), Bits(x.width + y.width))
         /\ op \in Orders => Proper(BitsBinary(op, x, y), Boolean)
<1> DEFINE w == x.width
           p == Pow2(w)
<1>1. w \in Nat \ {0} /\ p \in Nat \ {0} /\ x.v \in Nat /\ y.v \in Nat /\ x.v <= p - 1
  BY PowPositive DEF InWidth
<1>2. CASE op \in {"add", "sub", "mul"}
  <2>1. PICK v \in Int : BitsBinary(op, x, y) = Wrap(w, v)
    <3>1. BitsBinary(op, x, y)
            = Wrap(w, CASE op = "add" -> x.v + y.v [] op = "sub" -> x.v - y.v [] OTHER -> x.v * y.v)
      BY <1>2 DEF BitsBinary, BitwiseOps, Orders
    <3>2. x.v + y.v \in Int /\ x.v - y.v \in Int /\ x.v * y.v \in Int
      BY <1>1
    <3>3. (CASE op = "add" -> x.v + y.v [] op = "sub" -> x.v - y.v [] OTHER -> x.v * y.v) \in Int
      BY <1>2, <3>2
    <3> QED BY <3>1, <3>3
  <2> QED BY <1>1, <1>2, <2>1, WrapProper DEF Orders
<1>3. ASSUME NEW v \in 0 .. p - 1 PROVE Proper(BitsValue(w, v), Bits(w))
  BY <1>1, BitsProper
<1>4. CASE op = "add_sat"
  <2>1. BitsBinary(op, x, y) = BitsValue(w, Least(x.v + y.v, p - 1))
    BY <1>4 DEF BitsBinary, BitwiseOps, Orders
  <2>2. Least(x.v + y.v, p - 1) \in 0 .. p - 1
    <3> HIDE DEF p
    <3> QED BY <1>1 DEF Least
  <2> QED BY <1>3, <1>4, <2>1, <2>2 DEF Orders
<1>5. CASE op = "sub_sat"
  <2>1. BitsBinary(op, x, y) = BitsValue(w, Greatest(x.v - y.v, 0))
    BY <1>5 DEF BitsBinary, BitwiseOps, Orders
  <2>2. Greatest(x.v - y.v, 0) \in 0 .. p - 1
    <3> HIDE DEF p
    <3> QED BY <1>1 DEF Greatest
  <2> QED BY <1>3, <1>5, <2>1, <2>2 DEF Orders
<1>6. CASE op = "shl"
  <2>1. BitsBinary(op, x, y) = IF y.v < w THEN Wrap(w, x.v * Pow2(y.v)) ELSE BitsValue(w, 0)
    BY <1>6 DEF BitsBinary, BitwiseOps, Orders
  <2>2. Pow2(y.v) \in Nat
    BY <1>1, PowPositive
  <2>3. x.v * Pow2(y.v) \in Int
    BY <1>1, <2>2
  <2>4. Proper(Wrap(w, x.v * Pow2(y.v)), Bits(w))
    BY <1>1, <2>3, WrapProper
  <2>5. 0 \in 0 .. p - 1
    BY <1>1
  <2>6. Proper(BitsValue(w, 0), Bits(w))
    BY <1>3, <2>5
  <2> QED BY <1>6, <2>1, <2>4, <2>6 DEF Orders
<1>7. CASE op = "shr"
  <2>1. BitsBinary(op, x, y) = IF y.v < w THEN BitsValue(w, x.v \div Pow2(y.v)) ELSE BitsValue(w, 0)
    BY <1>7 DEF BitsBinary, BitwiseOps, Orders
  <2>2. x.v \div Pow2(y.v) \in Nat /\ x.v \div Pow2(y.v) <= x.v
    BY <1>1, PowPositive, Quotient
  <2>3. x.v \div Pow2(y.v) \in 0 .. p - 1 /\ 0 \in 0 .. p - 1
    <3> HIDE DEF p
    <3> QED BY <1>1, <2>2
  <2>4. Proper(BitsValue(w, x.v \div Pow2(y.v)), Bits(w)) /\ Proper(BitsValue(w, 0), Bits(w))
    BY <1>3, <2>3
  <2> QED BY <1>7, <2>1, <2>4 DEF Orders
<1>8. CASE op = "concat"
  <2> DEFINE q == Pow2(y.width)
  <2>1. BitsBinary(op, x, y) = BitsValue(w + y.width, x.v * q + y.v)
    BY <1>8 DEF BitsBinary, BitwiseOps, Orders
  <2>2. y.width \in Nat \ {0} /\ q \in Nat \ {0} /\ y.v <= q - 1
    BY PowPositive DEF InWidth
  <2>3. Pow2(w + y.width) = p * q
    BY <1>1, <2>2, PowSum
  <2>4. x.v * q + y.v \in 0 .. p * q - 1
    <3> HIDE DEF p, q
    <3> QED BY <1>1, <2>2, Concatenated
  <2>5. w + y.width \in Nat \ {0}
    BY <1>1, <2>2
  <2> HIDE DEF p, q
  <2>6. Proper(BitsValue(w + y.width, x.v * q + y.v), Bits(w + y.width))
    BY <2>3, <2>4, <2>5, BitsProper
  <2> QED BY <1>8, <2>1, <2>6 DEF SameWidth, Shifts, Orders, BitwiseOps
<1>9. CASE op \in BitwiseOps
  <2>1. BitsBinary(op, x, y) = BitsValue(w, BitByBit(op, w, x.v, y.v))
    BY <1>9 DEF BitsBinary, BitwiseOps, Orders
  <2>2. BitByBit(op, w, x.v, y.v) \in 0 .. p - 1
    BY <1>1, <1>9, BitByBitTyped
  <2> QED BY <1>3, <1>9, <2>1, <2>2 DEF Orders, BitwiseOps
<1>10. CASE op \in Orders
  <2>1. BitsBinary(op, x, y) = Bool(Ordered(op, x.v, y.v))
    BY <1>10 DEF BitsBinary, BitwiseOps, Orders
  <2>2. Ordered(op, x.v, y.v) \in BOOLEAN
    <3>1. CASE op = "lt"
      BY <3>1 DEF Ordered
    <3>2. CASE op = "le"
      BY <3>2 DEF Ordered
    <3>3. CASE op = "gt"
      BY <3>3 DEF Ordered
    <3>4. CASE op = "ge"
      BY <3>4 DEF Ordered
    <3> QED BY <1>10, <3>1, <3>2, <3>3, <3>4 DEF Orders
  <2> QED BY <1>10, <2>1, <2>2, BoolProper DEF SameWidth, Shifts, Orders, BitwiseOps
<1> QED BY <1>2, <1>4, <1>5, <1>6, <1>7, <1>8, <1>9, <1>10
        DEF SameWidth, Shifts, BitwiseOps

LEMMA ProperKind ==
  ASSUME NEW x, NEW t, Proper(x, t), TypeFormed(t)
  PROVE  x.kind = t.kind /\ x # InterpError
<1>1. TypeOfValue(x) = t
  BY DEF Proper
<1>2. t.kind \in ValueKinds
  BY DEF TypeFormed, IsBits, ValueKinds
<1>3. x.kind = t.kind
  BY <1>1, <1>2, KindOfType DEF ValueKinds
<1> QED BY <1>2, <1>3 DEF InterpError, Plain, ValueKinds

LEMMA BinaryTypeFormed ==
  ASSUME NEW op \in BinaryOps, NEW l, NEW r, l = NoType \/ TypeFormed(l), r = NoType \/ TypeFormed(r)
  PROVE  BinaryType(op, l, r) = NoType \/ TypeFormed(BinaryType(op, l, r))
<1>1. CASE op = "concat"
  <2>1. CASE IsBits(l) /\ IsBits(r)
    <3>1. l.width \in Nat \ {0} /\ r.width \in Nat \ {0}
      BY <2>1 DEF TypeFormed, IsBits, NoType, Plain
    <3>2. TypeFormed(Bits(l.width + r.width))
      BY <3>1, FormedTypes
    <3> QED BY <1>1, <2>1, <3>2 DEF BinaryType, SameWidth, Shifts, BitwiseOps, Orders, When
  <2>2. CASE ~(IsBits(l) /\ IsBits(r))
    BY <1>1, <2>2 DEF BinaryType, SameWidth, Shifts, BitwiseOps, Orders, When
  <2> QED BY <2>1, <2>2
<1>2. CASE op \in SameWidth \cup Shifts
  BY <1>2 DEF BinaryType, SameWidth, Shifts, BitwiseOps, Orders, When
<1>3. CASE op \in {"eq", "ne"} \cup Orders \cup Logical
  <2>1. BinaryType(op, l, r) \in {NoType, Boolean}
    BY <1>3 DEF BinaryType, SameWidth, Shifts, BitwiseOps, Orders, Logical, When
  <2> QED BY <2>1, FormedTypes
<1> QED BY <1>1, <1>2, <1>3 DEF BinaryOps

LEMMA BinaryValueProper ==
  ASSUME NEW op \in BinaryOps, NEW x, NEW y, NEW l, NEW r, TypeFormed(l), TypeFormed(r),
         Proper(x, l), Proper(y, r), BinaryType(op, l, r) # NoType
  PROVE  Proper(BinaryValue(op, x, y), BinaryType(op, l, r))
<1>1. x.kind = l.kind /\ y.kind = r.kind /\ InterpError \notin {x, y}
  BY ProperKind
<1>2. CASE op \in Logical
  <2>1. l.kind = "boolean" /\ r.kind = "boolean" /\ BinaryType(op, l, r) = Boolean
    BY <1>2 DEF BinaryType, SameWidth, Shifts, BitwiseOps, Orders, Logical, When, IsBoolean
  <2>2. l = Boolean /\ r = Boolean
    BY <2>1, ProperBoolean
  <2>3. Evaluates(x, "boolean") /\ Evaluates(y, "boolean") /\ x.v \in BOOLEAN
    BY <1>1, <2>1, ProperBoolean DEF Evaluates
  <2>4. CASE op = "or"
    BY <2>1, <2>2, <2>3, <2>4 DEF BinaryValue, Logical
  <2>5. CASE op = "and"
    BY <2>1, <2>2, <2>3, <2>5 DEF BinaryValue, Logical
  <2> QED BY <1>2, <2>4, <2>5 DEF Logical
<1>3. CASE op \in {"eq", "ne"}
  <2>1. l = r /\ BinaryType(op, l, r) = Boolean
    BY <1>3 DEF BinaryType, SameWidth, Shifts, BitwiseOps, When
  <2>2. BinaryValue(op, x, y) = Bool(Equal(x, y) = (op = "eq"))
    BY <1>1, <1>3, <2>1 DEF BinaryValue, Logical
  <2> QED BY <2>1, <2>2, BoolProper
<1>4. CASE op \in SameWidth \cup Shifts \cup Orders \cup {"concat"}
  <2>1. l.kind = "bits" /\ r.kind = "bits"
    BY <1>4 DEF BinaryType, SameWidth, Shifts, BitwiseOps, Orders, When, IsBits
  <2>2. /\ op \in SameWidth \cup Shifts => BinaryType(op, l, r) = l
        /\ op = "concat" => BinaryType(op, l, r) = Bits(l.width + r.width)
        /\ op \in Orders => BinaryType(op, l, r) = Boolean
    BY <2>1 DEF BinaryType, SameWidth, Shifts, BitwiseOps, Orders, When, IsBits
  <2>3. InWidth(x) /\ InWidth(y) /\ l = Bits(x.width) /\ l.width = x.width /\ r.width = y.width
    BY <2>1, ProperBits DEF InWidth
  <2>4. BinaryValue(op, x, y) = BitsBinary(op, x, y)
    BY <1>1, <1>4, <2>1
       DEF BinaryValue, Evaluates, Logical, SameWidth, Shifts, BitwiseOps, Orders
  <2> QED BY <1>4, <2>2, <2>3, <2>4, BitsBinaryProper
<1> QED BY <1>2, <1>3, <1>4 DEF BinaryOps

LEMMA BinaryGood ==
  ASSUME NEW op \in BinaryOps, NEW m, NEW n, GoodNode(m), GoodNode(n)
  PROVE  GoodNode(Binary(op, m, n))
<1> DEFINE t == BinaryType(op, m.type, n.type)
           clean == m.clean /\ n.clean /\ t # NoType
           x == BinaryValue(op, m.value, n.value)
<1>1. Binary(op, m, n) = Node(t, clean, x)
  BY DEF Binary
<1>2. t = NoType \/ TypeFormed(t)
  BY BinaryTypeFormed DEF GoodNode
<1>3. ASSUME clean PROVE Proper(x, t)
  BY <1>3, BinaryValueProper DEF GoodNode
<1>4. clean \in BOOLEAN /\ (clean => t # NoType)
  BY DEF GoodNode
<1> HIDE DEF t, clean, x
<1> QED BY <1>1, <1>2, <1>3, <1>4, GoodMade

-----------------------------------------------------------------------------
(* The inductive invariant: every open node is good.                           *)
GoodNodes ==
  /\ env \in Envs /\ parser \in BOOLEAN /\ nodes \in 0 .. MaxNodes
  /\ Len(open) \in 0 .. MaxOpen /\ DOMAIN open = 1 .. Len(open)
  /\ \A i \in DOMAIN open : GoodNode(open[i])

LEMMA BuildKeeps ==
  ASSUME GoodNodes, NEW k \in 0 .. 3, NEW node, GoodNode(node), Build(k, node),
         Len(open) < MaxOpen \/ k > 0
  PROVE  GoodNodes'
<1> DEFINE n == Len(open)
           cut == SubSeq(open, 1, n - k)
           S == {open[i] : i \in DOMAIN open}
<1>1. n \in 0 .. MaxOpen /\ DOMAIN open = 1 .. n /\ n >= k
  BY DEF GoodNodes, Build
<1>2. n \in Nat /\ MaxOpen \in Nat /\ MaxNodes \in Nat
  BY <1>1, TypingAssumption
<1>3. cut \in Seq(S) /\ Len(cut) = n - k /\ \A i \in 1 .. n - k : cut[i] = open[i]
  <2>1. n - k \in Nat /\ \A i \in 1 .. n - k : open[i] \in S
    BY <1>1, <1>2
  <2> HIDE DEF S, n
  <2>2. /\ SubSeq(open, 1, n - k) \in Seq(S)
        /\ Len(SubSeq(open, 1, n - k)) = IF 1 <= n - k THEN (n - k) - 1 + 1 ELSE 0
        /\ \A i \in 1 .. (n - k) - 1 + 1 : SubSeq(open, 1, n - k)[i] = open[1 + i - 1]
    BY <2>1, SubSeqProperties
  <2>3. (n - k) - 1 + 1 = n - k /\ \A i \in 1 .. n - k : 1 + i - 1 = i
    BY <2>1
  <2> QED BY <2>1, <2>2, <2>3
<1>4. open' = Append(cut, node) /\ UNCHANGED <<env, parser>> /\ nodes' = nodes + 1 /\ nodes < MaxNodes
  BY DEF Build
<1>5. n - k + 1 \in 0 .. MaxOpen
  BY <1>1, <1>2
<1> HIDE DEF cut, S, n
<1>6. /\ Len(open') = n - k + 1 /\ DOMAIN open' = 1 .. n - k + 1
      /\ open'[n - k + 1] = node /\ \A i \in 1 .. n - k : open'[i] = cut[i]
  BY <1>1, <1>2, <1>3, <1>4
<1>7. ASSUME NEW i \in DOMAIN open' PROVE GoodNode(open'[i])
  <2>1. CASE i = n - k + 1
    BY <1>6, <2>1
  <2>2. CASE i \in 1 .. n - k
    <3>1. open'[i] = open[i] /\ i \in DOMAIN open
      BY <1>1, <1>2, <1>3, <1>6, <2>2
    <3> QED BY <3>1 DEF GoodNodes
  <2> QED BY <1>1, <1>2, <1>6, <2>1, <2>2
<1>8. (\A i \in DOMAIN open : GoodNode(open[i]))'
  BY <1>7
<1>9. nodes' \in 0 .. MaxNodes /\ env' \in Envs /\ parser' \in BOOLEAN
  BY <1>2, <1>4 DEF GoodNodes
<1> QED BY <1>5, <1>6, <1>8, <1>9 DEF GoodNodes

LEMMA LeafKeeps == GoodNodes /\ Leaf => GoodNodes'
<1> SUFFICES ASSUME GoodNodes, Leaf PROVE GoodNodes'
  OBVIOUS
<1>1. Len(open) < MaxOpen /\ env \in Envs /\ parser \in BOOLEAN
  BY DEF Leaf, GoodNodes
<1>2. ASSUME NEW node, GoodNode(node), Build(0, node) PROVE GoodNodes'
  BY <1>1, <1>2, BuildKeeps
<1>3. ASSUME NEW w \in Widths, NEW v \in {0, 1, 2, 3}, Build(0, BitsLiteral(w, v)) PROVE GoodNodes'
  <2>1. w \in Nat /\ v \in Nat
    BY TypingAssumption
  <2> QED BY <1>2, <1>3, <2>1, BitsLiteralGood
<1>4. ASSUME NEW b \in BOOLEAN, Build(0, BooleanLiteral(b)) PROVE GoodNodes'
  BY <1>2, <1>4, BooleanLiteralGood
<1>5. ASSUME NEW e \in Errors \cup {"undeclared"}, Build(0, ErrorLiteral(e)) PROVE GoodNodes'
  BY <1>2, <1>5, ErrorLiteralGood
<1>6. ASSUME NEW e \in DOMAIN EnumTypes, NEW m \in {"A", "undeclared"}, Build(0, EnumLiteral(e, m))
      PROVE  GoodNodes'
  BY <1>2, <1>6, EnumLiteralGood
<1>7. ASSUME NEW x \in DOMAIN Decls \cup {"undeclared"}, Build(0, Var(x)) PROVE GoodNodes'
  BY <1>1, <1>2, <1>7, VarGood
<1>8. ASSUME NEW t \in Types, NEW raw \in Peeks, Build(0, Lookahead(t, raw)) PROVE GoodNodes'
  <2>1. raw \in Nat
    BY TypingAssumption
  <2> QED BY <1>1, <1>2, <1>8, <2>1, LookaheadGood
<1> QED BY <1>3, <1>4, <1>5, <1>6, <1>7, <1>8 DEF Leaf

LEMMA InnerKeeps == GoodNodes /\ Inner => GoodNodes'
<1> SUFFICES ASSUME GoodNodes, Inner PROVE GoodNodes'
  OBVIOUS
<1>1. parser \in BOOLEAN /\ Len(open) \in Nat /\ DOMAIN open = 1 .. Len(open)
  BY TypingAssumption DEF GoodNodes
<1>2. \A k \in 1 .. 3 : Len(open) >= k => GoodNode(Last(k))
  <2> SUFFICES ASSUME NEW k \in 1 .. 3, Len(open) >= k PROVE GoodNode(Last(k))
    OBVIOUS
  <2>1. Len(open) - k + 1 \in DOMAIN open
    BY <1>1
  <2> QED BY <2>1 DEF GoodNodes, Last
<1>3. ASSUME NEW k \in 1 .. 3, NEW node, GoodNode(node), Build(k, node) PROVE GoodNodes'
  BY <1>3, BuildKeeps
<1>4. CASE /\ Len(open) >= 1
           /\ \/ \E f \in {"f", "g"} : Build(1, Member(Last(1), f))
              \/ Build(1, LastIndex(Last(1))) \/ Build(1, IsValid(Last(1)))
              \/ \E op \in {"not", "complement", "negate"} : Build(1, Unary(op, Last(1)))
              \/ \E t \in Types : Build(1, Cast(t, Last(1)))
              \/ \E hi, lo \in 0 .. 3 : Build(1, Slice(hi, lo, Last(1)))
  <2>1. GoodNode(Last(1))
    BY <1>2, <1>4
  <2>2. ASSUME NEW f, Build(1, Member(Last(1), f)) PROVE GoodNodes'
    BY <1>3, <2>1, <2>2, MemberGood
  <2>3. ASSUME Build(1, LastIndex(Last(1))) \/ Build(1, IsValid(Last(1))) PROVE GoodNodes'
    BY <1>1, <1>3, <2>1, <2>3, LastIndexGood, IsValidGood
  <2>4. ASSUME NEW op \in {"not", "complement", "negate"}, Build(1, Unary(op, Last(1))) PROVE GoodNodes'
    BY <1>3, <2>1, <2>4, UnaryGood
  <2>5. ASSUME NEW t \in Types, Build(1, Cast(t, Last(1))) PROVE GoodNodes'
    BY <1>3, <2>1, <2>5, CastGood
  <2>6. ASSUME NEW hi \in 0 .. 3, NEW lo \in 0 .. 3, Build(1, Slice(hi, lo, Last(1))) PROVE GoodNodes'
    BY <1>3, <2>1, <2>6, SliceGood
  <2> QED BY <1>4, <2>2, <2>3, <2>4, <2>5, <2>6
<1>5. CASE /\ Len(open) >= 2
           /\ \/ Build(2, Index(Last(2), Last(1)))
              \/ \E op \in BinaryOps : Build(2, Binary(op, Last(2), Last(1)))
  <2>1. GoodNode(Last(1)) /\ GoodNode(Last(2))
    BY <1>1, <1>2, <1>5
  <2>2. ASSUME Build(2, Index(Last(2), Last(1))) PROVE GoodNodes'
    BY <1>3, <2>1, <2>2, IndexGood
  <2>3. ASSUME NEW op \in BinaryOps, Build(2, Binary(op, Last(2), Last(1))) PROVE GoodNodes'
    BY <1>3, <2>1, <2>3, BinaryGood
  <2> QED BY <1>5, <2>2, <2>3
<1>6. CASE Len(open) >= 3 /\ Build(3, Mux(Last(3), Last(2), Last(1)))
  <2>1. GoodNode(Last(1)) /\ GoodNode(Last(2)) /\ GoodNode(Last(3))
    BY <1>1, <1>2, <1>6
  <2> QED BY <1>3, <1>6, <2>1, MuxGood
<1> QED BY <1>4, <1>5, <1>6 DEF Inner

(* Every expression built is good, whatever its operands, its environment and   *)
(* the packet it looks ahead into.                                             *)
THEOREM ExprInvariant == ExprSpec => []GoodNodes
<1>1. ExprInit => GoodNodes
  BY TypingAssumption DEF ExprInit, GoodNodes
<1>2. GoodNodes /\ [ExprNext]_exprVars => GoodNodes'
  <2> SUFFICES ASSUME GoodNodes, [ExprNext]_exprVars PROVE GoodNodes'
    OBVIOUS
  <2>1. CASE Leaf
    BY <2>1, LeafKeeps
  <2>2. CASE Inner
    BY <2>2, InnerKeeps
  <2>3. CASE UNCHANGED exprVars
    BY <2>3 DEF GoodNodes, exprVars
  <2> QED BY <2>1, <2>2, <2>3 DEF ExprNext
<1> QED BY <1>1, <1>2, PTL DEF ExprSpec

(* The typer gives every expression a checked type, or none (type_of).          *)
THEOREM ExprTypeCorrect == ExprSpec => []ExprTypeOK
<1>1. GoodNodes => ExprTypeOK
  BY DEF GoodNodes, GoodNode, ExprTypeOK
<1> QED BY <1>1, ExprInvariant, PTL

(* Type soundness (validator/typer.py against interp/expr.py): an expression    *)
(* nothing was reported in evaluates, to a value of its type and within its     *)
(* width, over any declarations, environment and packet.                       *)
THEOREM TypeSound == ExprSpec => []WellTypedEvaluates
<1>1. GoodNodes => WellTypedEvaluates
  BY ProperHasType DEF GoodNodes, GoodNode, WellTypedEvaluates
<1> QED BY <1>1, ExprInvariant, PTL

(* A node is left without a type only where a problem was reported, in it or    *)
(* below it (type_of).                                                         *)
THEOREM NoneOnlyWhenReported == ExprSpec => []NoTypeIsReported
<1>1. GoodNodes => NoTypeIsReported
  BY DEF GoodNodes, GoodNode, NoTypeIsReported
<1> QED BY <1>1, ExprInvariant, PTL
=============================================================================
