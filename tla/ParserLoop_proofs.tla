-------------------------- MODULE ParserLoop_proofs --------------------------
(* Safety of ParserLoop for every program and every packet length.             *)
EXTENDS ParserLoop, FiniteSetTheorems, SequenceTheorems, TLAPS

(* What the four ways of changing the frame stack do to its type.              *)
LEMMA FrameSteps ==
  ASSUME frames \in Seq(Frame), frames # <<>>
  PROVE  /\ Top \in Frame
         /\ Len(frames) \in Nat /\ Len(frames) >= 1
         /\ Tail(frames) \in Seq(Frame)
         /\ \A p \in Seq(Stmts) : [frames EXCEPT ![1].todo = p] \in Seq(Frame)
         /\ \A t \in States : [frames EXCEPT ![1].state = t] \in Seq(Frame)
         /\ Top.todo # <<>> => /\ Head(Top.todo) \in Stmts
                               /\ Tail(Top.todo) \in Seq(Stmts)
         /\ Top = frames[1]
         /\ Top.todo # <<>> =>
              /\ [frames EXCEPT ![1].todo = Tail(@)] \in Seq(Frame)
              /\ [frames EXCEPT ![1].todo = Tail(@)] # <<>>
         /\ Tail(frames) = <<>> <=> Len(frames) = 1
<1>1. Top \in Frame /\ Top = frames[1] /\ Len(frames) \in Nat /\ Len(frames) >= 1
  BY DEF Top
<1>2. Tail(frames) \in Seq(Frame)
  OBVIOUS
<1>3. Top.todo \in Seq(Stmts) /\ Top.state \in States
  BY <1>1 DEF Frame
<1>4. ASSUME NEW p \in Seq(Stmts) PROVE [frames EXCEPT ![1].todo = p] \in Seq(Frame)
  BY <1>1, <1>3 DEF Frame
<1>5. ASSUME NEW t \in States PROVE [frames EXCEPT ![1].state = t] \in Seq(Frame)
  BY <1>1, <1>3, SMTT(40) DEF Frame
<1>6. Top.todo # <<>> => Head(Top.todo) \in Stmts /\ Tail(Top.todo) \in Seq(Stmts)
  BY <1>3
<1>7. ASSUME Top.todo # <<>>
      PROVE  /\ [frames EXCEPT ![1].todo = Tail(@)] \in Seq(Frame)
             /\ [frames EXCEPT ![1].todo = Tail(@)] # <<>>
  <2> DEFINE p == Tail(Top.todo)
  <2>1. [frames EXCEPT ![1].todo = Tail(@)] = [frames EXCEPT ![1].todo = p]
    BY <1>1
  <2>2. p \in Seq(Stmts)
    BY <1>6, <1>7
  <2>3. [frames EXCEPT ![1].todo = p] \in Seq(Frame)
    BY <1>4, <2>2
  <2>4. Len([frames EXCEPT ![1].todo = p]) = Len(frames)
    BY <1>1
  <2>5. QED BY <1>1, <2>1, <2>3, <2>4
<1>8. Tail(frames) = <<>> <=> Len(frames) = 1
  <2>1. Len(Tail(frames)) = Len(frames) - 1
    BY HeadTailProperties
  <2>2. Len(Tail(frames)) = 0 <=> Tail(frames) = <<>>
    BY <1>2, EmptySeq
  <2>3. QED BY <1>1, <2>1, <2>2
<1>9. QED BY <1>1, <1>2, <1>4, <1>5, <1>6, <1>7, <1>8

(* Type correctness needs to know that a running parser has a frame.           *)
Shape == TypeOK /\ OutcomeConsistent

LEMMA PathType == \A s \in States : \A p \in Paths[s] : p \in Seq(Stmts)
  BY ProgramAssumption

LEMMA StartType == \A b \in Blocks : Start[b] \in States
  BY ProgramAssumption

LEMMA TotalType == Total \in Nat
  BY ProgramAssumption

LEMMA ConsumeShape ==
  ASSUME Shape, phase = "body", Top.todo # <<>>, NEW n \in Nat, Consume(n)
  PROVE  Shape'
<1> USE DEF Shape, TypeOK, OutcomeConsistent, Outcomes
<1>0. frames # <<>>
  OBVIOUS
<1>1. CASE n > Total - cursor
  BY <1>0, <1>1, TotalType DEF Consume, Raise, Errors, ProgramErrors
<1>2. CASE n <= Total - cursor
  <2>0. StepOver
    BY <1>2, TotalType DEF Consume
  <2>1. frames' \in Seq(Frame) /\ frames' # <<>>
    BY <1>0, <2>0, FrameSteps DEF StepOver
  <2>2. cursor' \in 0 .. Total
    BY <1>2, TotalType DEF Consume
  <2>3. QED BY <1>2, <2>1, <2>2, TotalType DEF Consume
<1>3. QED BY <1>1, <1>2, TotalType

LEMMA ShapeStep == Shape /\ [Next]_vars => Shape'
<1> USE DEF Shape, TypeOK, OutcomeConsistent, Outcomes
<1> SUFFICES ASSUME Shape, [Next]_vars PROVE Shape'
  OBVIOUS
<1> DEFINE Quiet == UNCHANGED <<phase, cursor, visits, error, entered>>
<1>0. ASSUME phase = "body" \/ phase = "enter" \/ phase = "fault" PROVE frames # <<>>
  BY <1>0
<1>1. CASE EnterState
  <2> DEFINE s == Top.state
  <2>1. s \in States /\ frames # <<>>
    BY <1>0, <1>1, FrameSteps DEF EnterState, Frame
  <2>2. CASE visits[s] = cursor
    BY <1>1, <2>1, <2>2 DEF EnterState, Raise, Errors, ProgramErrors
  <2>3. CASE visits[s] # cursor
    <3>1. PICK p \in Paths[s] : frames' = [frames EXCEPT ![1].todo = p]
      BY <1>1, <2>3 DEF EnterState
    <3>2. frames' \in Seq(Frame) /\ frames' # <<>>
      BY <2>1, <3>1, FrameSteps, PathType
    <3>3. visits' \in [States -> {Never} \cup 0 .. Total]
      BY <1>1, <2>1, <2>3 DEF EnterState
    <3>4. entered' \in SUBSET (States \X (0 .. Total))
      BY <1>1, <2>1, <2>3 DEF EnterState
    <3>5. QED BY <1>1, <2>3, <3>2, <3>3, <3>4 DEF EnterState
  <2>4. QED BY <2>2, <2>3
<1>2. CASE StepOver /\ Quiet /\ phase = "body" /\ Top.todo # <<>>
  <2>1. frames' \in Seq(Frame) /\ frames' # <<>>
    BY <1>0, <1>2, FrameSteps DEF StepOver
  <2>2. QED BY <1>2, <2>1
<1>3. ASSUME NEW e \in Errors, Raise(e), phase = "body" PROVE Shape'
  BY <1>3 DEF Raise
<1>4. CASE Local
  BY <1>2, <1>4 DEF Local, At
<1>5. CASE Extract
  <2>1. Operand.bits \in Nat
    BY <1>0, <1>5, FrameSteps DEF Extract, At, Operand, Stmts
  <2>2. QED BY <1>5, <2>1, ConsumeShape DEF Extract, At
<1>6. CASE ExtractNext
  <2>1. Operand.bits \in Nat
    BY <1>0, <1>6, FrameSteps DEF ExtractNext, At, Operand, Stmts
  <2>2. CASE Raise("StackOutOfBounds")
    BY <1>3, <1>6, <2>2 DEF ExtractNext, At, Errors, ProgramErrors
  <2>3. QED BY <1>6, <2>1, <2>2, ConsumeShape DEF ExtractNext, At
<1>7. CASE Advance
  <2>1. Operand.bits \in Nat
    BY <1>0, <1>7, FrameSteps DEF Advance, At, Operand, Stmts
  <2>2. PICK n \in 0 .. Operand.bits : Consume(n)
    BY <1>7 DEF Advance
  <2>3. QED BY <1>7, <2>1, <2>2, ConsumeShape DEF Advance, At
<1>8. CASE Lookahead
  BY <1>2, <1>3, <1>8 DEF Lookahead, At, Errors, ProgramErrors
<1>9. CASE Verify
  BY <1>2, <1>3, <1>9 DEF Verify, At, Errors, ProgramErrors
<1>10. CASE CallBlock
  <2> DEFINE rest == [frames EXCEPT ![1].todo = Tail(@)]
             callee == [state |-> Start[Operand.callee], todo |-> <<>>]
  <2>1. Operand.callee \in Blocks /\ rest \in Seq(Frame) /\ rest # <<>>
    BY <1>0, <1>10, FrameSteps DEF CallBlock, At, Operand, Stmts
  <2>2. callee \in Frame
    BY <2>1, StartType DEF Frame
  <2>3. <<callee>> \in Seq(Frame)
    BY <2>2
  <2>4. <<callee>> \o rest \in Seq(Frame) /\ <<callee>> \o rest # <<>>
    BY <2>1, <2>3
  <2>5. QED BY <1>10, <2>4 DEF CallBlock, At
<1>11. ASSUME NEW f \in Outcomes, Return(f), frames # <<>>,
              f = "accepted" => error = NoError PROVE Shape'
  <2>1. Tail(frames) \in Seq(Frame) /\ (Tail(frames) = <<>> <=> Len(frames) = 1)
    BY <1>11, FrameSteps
  <2>2. QED BY <1>11, <2>1 DEF Return
<1>12. CASE Transition
  <2>1. PICK t \in Targets[Top.state] :
          \/ /\ t \in States
             /\ frames' = [frames EXCEPT ![1].state = t]
             /\ phase' = "enter"
             /\ UNCHANGED <<cursor, visits, error, entered>>
          \/ t = "accept" /\ Return("accepted")
          \/ t = "reject" /\ Raise(NoError)
          \/ t = "nomatch" /\ Raise("NoMatch")
    BY <1>12 DEF Transition
  <2>2. frames # <<>> /\ phase = "body"
    BY <1>0, <1>12 DEF Transition
  <2>3. CASE t \in States /\ frames' = [frames EXCEPT ![1].state = t] /\ phase' = "enter"
             /\ UNCHANGED <<cursor, visits, error, entered>>
    <3>1. frames' \in Seq(Frame) /\ frames' # <<>>
      BY <2>2, <2>3, FrameSteps
    <3>2. QED BY <2>2, <2>3, <3>1
  <2>4. QED BY <1>3, <1>11, <2>1, <2>2, <2>3 DEF Errors, ProgramErrors
<1>13. CASE Unwind
  BY <1>0, <1>11, <1>13 DEF Unwind
<1>14. CASE UNCHANGED vars
  BY <1>14 DEF vars
<1>15. QED
  BY <1>1, <1>4, <1>5, <1>6, <1>7, <1>8, <1>9, <1>10, <1>12, <1>13, <1>14 DEF Next

LEMMA ShapeInit == Init => Shape
<1> SUFFICES ASSUME Init PROVE Shape
  OBVIOUS
<1>1. [state |-> Start[Root], todo |-> <<>>] \in Frame
  BY StartType, ProgramAssumption DEF Frame
<1>2. frames \in Seq(Frame) /\ frames # <<>>
  BY <1>1 DEF Init
<1>3. QED
  BY <1>2, ProgramAssumption DEF Init, Shape, TypeOK, OutcomeConsistent, Outcomes, Errors

LEMMA ShapeCorrect == Spec => []Shape
  BY ShapeInit, ShapeStep, PTL DEF Spec

(* Every variable keeps its type, whatever the program and the packet.         *)
THEOREM TypeCorrect == Spec => []TypeOK
<1>1. Shape => TypeOK
  BY DEF Shape
<1>2. QED BY <1>1, ShapeCorrect, PTL

(* A run is over exactly when no activation is left, and accepts with no error *)
(* (run_parser, the finally of call_block).                                    *)
THEOREM OutcomesConsistent == Spec => []OutcomeConsistent
<1>1. Shape => OutcomeConsistent
  BY DEF Shape
<1>2. QED BY <1>1, ShapeCorrect, PTL

-----------------------------------------------------------------------------
(* The last entry recorded for a state is its furthest, and none is ahead of   *)
(* the cursor: this is why one number per state is enough.                     *)
LastEntryIsFurthest ==
  /\ \A s \in States : visits[s] <= cursor
  /\ \A s \in States : visits[s] # Never => <<s, visits[s]>> \in entered
  /\ \A s \in States, c \in 0 .. Total : <<s, c>> \in entered => c <= visits[s]

(* Outside EnterState the record stays and the cursor may only advance.        *)
LEMMA StepKinds ==
  ASSUME Shape, Next
  PROVE  \/ EnterState
         \/ /\ phase # "enter"
            /\ UNCHANGED <<visits, entered>>
            /\ cursor <= cursor'
<1> USE DEF Shape, TypeOK
<1>1. cursor \in Int /\ cursor <= cursor
  BY ProgramAssumption
<1>2. ASSUME NEW n \in Nat, Consume(n)
      PROVE UNCHANGED <<visits, entered>> /\ cursor <= cursor'
  BY <1>1, <1>2 DEF Consume, Raise
<1>3. ASSUME At("extract") \/ At("next") \/ At("advance") PROVE Operand.bits \in Nat
  BY <1>3, FrameSteps DEF At, Operand, Stmts, OutcomeConsistent, Outcomes
<1>4. CASE Extract
  BY <1>2, <1>3, <1>4 DEF Extract, At
<1>5. CASE ExtractNext
  BY <1>1, <1>2, <1>3, <1>5 DEF ExtractNext, At, Raise
<1>6. CASE Advance
  <2>1. PICK n \in 0 .. Operand.bits : Consume(n)
    BY <1>6 DEF Advance
  <2>2. n \in Nat
    BY <1>3, <1>6 DEF Advance
  <2>3. QED BY <1>2, <1>6, <2>1, <2>2 DEF Advance, At
<1>7. CASE Local \/ Lookahead \/ Verify \/ CallBlock
  BY <1>1, <1>7 DEF Local, Lookahead, Verify, CallBlock, At, Raise
<1>8. CASE Transition \/ Unwind
  BY <1>1, <1>8 DEF Transition, Unwind, Return, Raise
<1>9. QED BY <1>4, <1>5, <1>6, <1>7, <1>8 DEF Next

LEMMA EnterCases ==
  ASSUME Shape, EnterState
  PROVE  /\ Top.state \in States
         /\ cursor' = cursor
         /\ \/ /\ visits[Top.state] = cursor
               /\ phase' = "fault"
               /\ UNCHANGED <<visits, entered>>
            \/ /\ visits[Top.state] # cursor
               /\ phase' = "body"
               /\ visits' = [visits EXCEPT ![Top.state] = cursor]
               /\ entered' = entered \cup {<<Top.state, cursor>>}
<1>1. Top.state \in States
  BY FrameSteps DEF EnterState, Frame, Shape, TypeOK, OutcomeConsistent, Outcomes
<1>2. QED BY <1>1 DEF EnterState, Raise

LEMMA FurthestStep ==
  ASSUME Shape, LastEntryIsFurthest, [Next]_vars
  PROVE  LastEntryIsFurthest'
<1> USE DEF LastEntryIsFurthest
<1>0. visits \in [States -> {Never} \cup 0 .. Total] /\ cursor \in 0 .. Total
      /\ cursor' \in 0 .. Total /\ Total \in Nat
  BY ShapeStep, ProgramAssumption DEF Shape, TypeOK
<1>1. CASE EnterState
  <2> DEFINE s == Top.state
  <2>1. s \in States /\ cursor' = cursor
    BY <1>1, EnterCases
  <2>2. CASE visits[s] = cursor
    BY <1>0, <1>1, <2>1, <2>2, EnterCases
  <2>3. CASE visits[s] # cursor
    <3>1. /\ visits' = [visits EXCEPT ![s] = cursor]
          /\ entered' = entered \cup {<<s, cursor>>}
      BY <1>1, <2>3, EnterCases
    <3>2. \A t \in States : visits'[t] <= cursor'
      BY <1>0, <2>1, <3>1
    <3>3. \A t \in States : visits'[t] # Never => <<t, visits'[t]>> \in entered'
      BY <1>0, <2>1, <3>1
    <3>4. ASSUME NEW t \in States, NEW c \in 0 .. Total, <<t, c>> \in entered'
          PROVE  c <= visits'[t]
      <4>1. CASE t = s
        <5>1. visits'[t] = cursor
          BY <1>0, <2>1, <3>1, <4>1
        <5>2. c = cursor \/ c <= visits[t]
          BY <3>1, <3>4
        <5>3. visits[t] <= cursor /\ visits[t] \in Int
          BY <1>0 DEF Never
        <5>4. QED BY <1>0, <5>1, <5>2, <5>3
      <4>2. CASE t # s
        BY <1>0, <2>1, <3>1, <3>4, <4>2
      <4>3. QED BY <4>1, <4>2
    <3>5. QED BY <3>2, <3>3, <3>4
  <2>4. QED BY <2>2, <2>3
<1>2. CASE UNCHANGED <<visits, entered>> /\ cursor <= cursor'
  BY <1>0, <1>2 DEF Never
<1>3. CASE UNCHANGED vars
  BY <1>3 DEF vars
<1>4. QED BY <1>1, <1>2, <1>3, StepKinds

LEMMA FurthestCorrect == Spec => [](Shape /\ LastEntryIsFurthest)
<1>1. Init => LastEntryIsFurthest
  BY ProgramAssumption DEF Init, LastEntryIsFurthest, Never
<1>2. QED BY <1>1, ShapeInit, ShapeStep, FurthestStep, PTL DEF Spec

(* Read, advance and peek never move the cursor back or past the end.          *)
THEOREM CursorNeverRetreats == Spec => CursorMonotone
<1>1. Shape /\ [Next]_vars => [cursor <= cursor' /\ cursor' <= Total]_cursor
  <2> SUFFICES ASSUME Shape, Next PROVE cursor <= cursor' /\ cursor' <= Total
    BY DEF vars
  <2>1. cursor \in 0 .. Total /\ cursor' \in 0 .. Total
    BY ShapeStep DEF Shape, TypeOK
  <2>2. CASE EnterState
    BY <2>1, <2>2, EnterCases, ProgramAssumption
  <2>3. QED BY <2>1, <2>2, StepKinds, ProgramAssumption
<1>2. QED BY <1>1, ShapeCorrect, PTL DEF Spec, CursorMonotone

(* enter_state raises ParserTimeout exactly on a repeated (state, cursor).     *)
THEOREM TimeoutIsExact == Spec => TimeoutExactlyOnRepeat
<1> DEFINE Exact == phase' = "fault" <=> <<Top.state, cursor>> \in entered
<1>1. Shape /\ LastEntryIsFurthest /\ [Next]_vars => [phase = "enter" => Exact]_vars
  <2> SUFFICES ASSUME Shape, LastEntryIsFurthest, Next, phase = "enter" PROVE Exact
    BY DEF vars
  <2>1. EnterState
    BY StepKinds
  <2> DEFINE s == Top.state
  <2>2. s \in States /\ cursor \in 0 .. Total /\ visits[s] \in {Never} \cup 0 .. Total
    BY <2>1, EnterCases DEF Shape, TypeOK
  <2>3. visits[s] = cursor <=> <<s, cursor>> \in entered
    BY <2>2, ProgramAssumption DEF LastEntryIsFurthest, Never
  <2>4. QED BY <2>1, <2>3, EnterCases
<1>2. QED BY <1>1, FurthestCorrect, PTL DEF Spec, TimeoutExactlyOnRepeat

(* Every successful entry is a new (state, cursor) pair, and there are at most *)
(* |States| * (Total + 1) of them: the number that bounds run_states.          *)
EntryBudget == Cardinality(States) * (Total + 1)
EntriesAreNew ==
  [][phase = "enter" /\ phase' = "body" =>
       <<Top.state, cursor>> \in entered' \ entered]_vars

THEOREM EntriesBounded == Spec => []( /\ IsFiniteSet(entered)
                                      /\ Cardinality(entered) <= EntryBudget )
<1>1. TypeOK => IsFiniteSet(entered) /\ Cardinality(entered) <= EntryBudget
  <2> SUFFICES ASSUME TypeOK
               PROVE  IsFiniteSet(entered) /\ Cardinality(entered) <= EntryBudget
    OBVIOUS
  <2>1. IsFiniteSet(States) /\ Total \in Nat
    BY ProgramAssumption
  <2>2. IsFiniteSet(0 .. Total) /\ Cardinality(0 .. Total) = Total + 1
    BY <2>1, FS_Interval
  <2>3. /\ IsFiniteSet(States \X (0 .. Total))
        /\ Cardinality(States \X (0 .. Total)) = Cardinality(States) * Cardinality(0 .. Total)
    BY <2>1, <2>2, FS_Product
  <2>4. entered \subseteq States \X (0 .. Total)
    BY DEF TypeOK
  <2>5. QED BY <2>2, <2>3, <2>4, FS_Subset DEF EntryBudget
<1>2. QED BY <1>1, TypeCorrect, PTL

THEOREM EveryEntryIsNew == Spec => EntriesAreNew
<1> DEFINE IsNew == <<Top.state, cursor>> \in entered' \ entered
<1>1. Shape /\ LastEntryIsFurthest /\ [Next]_vars
        => [phase = "enter" /\ phase' = "body" => IsNew]_vars
  <2> SUFFICES ASSUME Shape, LastEntryIsFurthest, Next, phase = "enter", phase' = "body"
               PROVE  IsNew
    BY DEF vars
  <2>1. EnterState
    BY StepKinds
  <2> DEFINE s == Top.state
  <2>2. /\ s \in States /\ visits[s] # cursor /\ entered' = entered \cup {<<s, cursor>>}
    BY <2>1, EnterCases
  <2>3. /\ cursor \in 0 .. Total /\ visits[s] \in {Never} \cup 0 .. Total
    BY <2>2 DEF Shape, TypeOK
  <2>4. <<s, cursor>> \notin entered
    BY <2>2, <2>3, ProgramAssumption DEF LastEntryIsFurthest, Never
  <2>5. QED BY <2>2, <2>4
<1>2. QED BY <1>1, FurthestCorrect, PTL DEF Spec, EntriesAreNew

-----------------------------------------------------------------------------
(* Along the frames the rank of the acyclic call graph strictly decreases      *)
(* inwards, and what a frame has still to call lies below it.                  *)
IsRank(rank) ==
  /\ rank \in [Blocks -> Nat]
  /\ \A s \in States : \A p \in Paths[s] : \A i \in DOMAIN p :
       p[i].op = "call" => rank[p[i].callee] < rank[BlockOf[s]]

Height(rank, f) == rank[BlockOf[f.state]]
CallsBelow(rank, f) ==
  \A k \in 1 .. Len(f.todo) :
    f.todo[k].op = "call" => rank[f.todo[k].callee] < Height(rank, f)
Descending(rank) ==
  /\ \A i, j \in 1 .. Len(frames) :
       i < j => Height(rank, frames[i]) < Height(rank, frames[j])
  /\ \A i \in 1 .. Len(frames) : CallsBelow(rank, frames[i])

LEMMA HeightType ==
  ASSUME NEW rank, IsRank(rank), NEW f \in Frame
  PROVE  Height(rank, f) \in Nat
BY ProgramAssumption DEF IsRank, Height, Frame

(* Replacing the innermost frame by one of the same block keeps the order.     *)
LEMMA ReplaceTop ==
  ASSUME NEW rank, Shape, Descending(rank), frames # <<>>, NEW g \in Frame,
         BlockOf[g.state] = BlockOf[Top.state], CallsBelow(rank, g),
         frames' = [frames EXCEPT ![1] = g]
  PROVE  Descending(rank)'
<1>1. frames \in Seq(Frame) /\ Len(frames) \in Nat /\ Len(frames) >= 1 /\ Top = frames[1]
  BY FrameSteps DEF Shape, TypeOK
<1>2. Len(frames') = Len(frames) /\ frames'[1] = g
  BY <1>1
<1>3. \A i \in 2 .. Len(frames) : frames'[i] = frames[i]
  BY <1>1
<1>4. \A i \in 1 .. Len(frames) : Height(rank, frames'[i]) = Height(rank, frames[i])
  BY <1>1, <1>2, <1>3 DEF Height
<1>5. \A i \in 1 .. Len(frames) : CallsBelow(rank, frames'[i])
  BY <1>1, <1>2, <1>3 DEF Descending
<1>6. QED BY <1>1, <1>2, <1>4, <1>5 DEF Descending

(* Stepping over a statement leaves fewer calls.                               *)
LEMMA TailCallsBelow ==
  ASSUME NEW rank, NEW f \in Frame, f.todo # <<>>, CallsBelow(rank, f),
         NEW g, g.state = f.state, g.todo = Tail(f.todo)
  PROVE  CallsBelow(rank, g)
<1>1. f.todo \in Seq(Stmts)
  BY DEF Frame
<1>2. /\ Len(g.todo) = Len(f.todo) - 1
      /\ \A k \in 1 .. Len(g.todo) : g.todo[k] = f.todo[k + 1]
  BY <1>1, HeadTailProperties
<1>3. Len(f.todo) \in Nat /\ Height(rank, g) = Height(rank, f)
  BY <1>1 DEF Height
<1>4. QED BY <1>2, <1>3 DEF CallsBelow

LEMMA StepOverDescends ==
  ASSUME NEW rank, Shape, Descending(rank), frames # <<>>, Top.todo # <<>>, StepOver
  PROVE  Descending(rank)'
<1> DEFINE g == [Top EXCEPT !.todo = Tail(Top.todo)]
<1>1. /\ frames \in Seq(Frame) /\ Len(frames) >= 1 /\ Top = frames[1] /\ Top \in Frame
      /\ Tail(Top.todo) \in Seq(Stmts) /\ Len(frames) \in Nat
  BY FrameSteps DEF Shape, TypeOK
<1>2. g \in Frame /\ g.state = Top.state /\ g.todo = Tail(Top.todo)
  BY <1>1 DEF Frame
<1>3. frames' = [frames EXCEPT ![1] = g]
  BY <1>1 DEF StepOver, Frame
<1>4. CallsBelow(rank, g)
  <2>1. CallsBelow(rank, Top)
    BY <1>1 DEF Descending
  <2>2. QED BY <1>1, <1>2, <2>1, TailCallsBelow
<1>5. QED BY <1>1, <1>2, <1>3, <1>4, ReplaceTop

LEMMA PopDescends ==
  ASSUME NEW rank, Shape, Descending(rank), frames # <<>>, frames' = Tail(frames)
  PROVE  Descending(rank)'
<1>1. frames \in Seq(Frame) /\ Len(frames) \in Nat
  BY DEF Shape, TypeOK
<1>2. /\ Len(frames') = Len(frames) - 1
      /\ \A i \in 1 .. Len(frames') : frames'[i] = frames[i + 1]
  BY <1>1, HeadTailProperties
<1>3. \A i \in 1 .. Len(frames') : i + 1 \in 1 .. Len(frames)
  BY <1>1, <1>2
<1>4. \A i, j \in 1 .. Len(frames') :
        i < j => Height(rank, frames'[i]) < Height(rank, frames'[j])
  BY <1>1, <1>2, <1>3 DEF Descending
<1>5. \A i \in 1 .. Len(frames') : CallsBelow(rank, frames'[i])
  BY <1>1, <1>2, <1>3 DEF Descending
<1>6. QED BY <1>4, <1>5 DEF Descending

LEMMA CallDescends ==
  ASSUME NEW rank, IsRank(rank), Shape, Descending(rank), CallBlock
  PROVE  Descending(rank)'
<1> DEFINE rest == [frames EXCEPT ![1].todo = Tail(@)]
           callee == [state |-> Start[Operand.callee], todo |-> <<>>]
<1>1. /\ frames \in Seq(Frame) /\ frames # <<>> /\ Top.todo # <<>> /\ Len(frames) \in Nat
      /\ Len(frames) >= 1 /\ Top = frames[1] /\ Top \in Frame /\ Operand \in Stmts
      /\ Tail(Top.todo) \in Seq(Stmts)
  BY FrameSteps DEF Shape, TypeOK, OutcomeConsistent, Outcomes, CallBlock, At, Operand
<1>2. callee \in Frame /\ callee.todo = <<>> /\ BlockOf[callee.state] = Operand.callee
  BY <1>1, StartType, ProgramAssumption DEF Frame, Stmts
<1>3. Height(rank, callee) < Height(rank, Top)
  <2>1. Operand = Top.todo[1] /\ Operand.op = "call" /\ 1 \in 1 .. Len(Top.todo)
    BY <1>1 DEF CallBlock, At, Operand, Frame
  <2>2. CallsBelow(rank, Top)
    BY <1>1 DEF Descending
  <2>3. QED BY <1>2, <2>1, <2>2 DEF CallsBelow, Height
<1>4. /\ rest \in Seq(Frame) /\ Len(rest) = Len(frames)
      /\ \A i \in 1 .. Len(frames) : rest[i].state = frames[i].state
      /\ \A i \in 2 .. Len(frames) : rest[i] = frames[i]
      /\ rest[1].todo = Tail(Top.todo)
  BY <1>1, FrameSteps DEF Frame
<1>5. \A i \in 1 .. Len(frames) : CallsBelow(rank, rest[i])
  <2>1. CallsBelow(rank, rest[1])
    <3>1. CallsBelow(rank, Top)
      BY <1>1 DEF Descending
    <3>2. rest[1].state = Top.state /\ rest[1].todo = Tail(Top.todo)
      BY <1>1, <1>4
    <3> HIDE DEF rest
    <3>3. QED BY <1>1, <3>1, <3>2, TailCallsBelow
  <2>2. QED BY <1>1, <1>4, <2>1 DEF Descending
<1>6. \A i \in 1 .. Len(frames) : Height(rank, rest[i]) = Height(rank, frames[i])
  BY <1>4 DEF Height
<1>7. /\ frames' = <<callee>> \o rest
      /\ Len(frames') = Len(frames) + 1
      /\ frames'[1] = callee
      /\ \A i \in 2 .. Len(frames) + 1 : frames'[i] = rest[i - 1]
  <2>1. frames' = <<callee>> \o rest
    BY DEF CallBlock
  <2>2. <<callee>> \in Seq(Frame) /\ Len(<<callee>>) = 1 /\ <<callee>>[1] = callee
    BY <1>2
  <2>3. QED BY <1>1, <1>4, <2>1, <2>2, ConcatProperties
<1>8. \A i \in 1 .. Len(frames) : Height(rank, frames[i]) \in Nat
  BY <1>1, HeightType, ElementOfSeq
<1>9. \A i \in 1 .. Len(frames) : Height(rank, callee) < Height(rank, frames[i])
  <2>1. Height(rank, callee) \in Nat
    BY <1>2, HeightType
  <2>2. ASSUME NEW i \in 2 .. Len(frames)
        PROVE  Height(rank, frames[1]) < Height(rank, frames[i])
    BY <1>1 DEF Descending
  <2>3. QED BY <1>1, <1>3, <1>8, <2>1, <2>2
<1>10. ASSUME NEW i \in 1 .. Len(frames'), NEW j \in 1 .. Len(frames'), i < j
       PROVE  Height(rank, frames'[i]) < Height(rank, frames'[j])
  <2>1. j - 1 \in 1 .. Len(frames) /\ frames'[j] = rest[j - 1]
    BY <1>1, <1>7, <1>10, SMTT(40)
  <2>2. CASE i = 1
    BY <1>6, <1>7, <1>9, <2>1, <2>2
  <2>3. CASE i # 1
    <3>1. i - 1 \in 1 .. Len(frames) /\ frames'[i] = rest[i - 1] /\ i - 1 < j - 1
      BY <1>1, <1>7, <1>10, <2>3
    <3>2. QED BY <1>6, <2>1, <3>1 DEF Descending
  <2>4. QED BY <2>2, <2>3
<1>11. ASSUME NEW i \in 1 .. Len(frames') PROVE CallsBelow(rank, frames'[i])
  <2>1. CallsBelow(rank, callee)
    BY <1>2 DEF CallsBelow
  <2>2. i # 1 => i - 1 \in 1 .. Len(frames) /\ frames'[i] = rest[i - 1]
    BY <1>1, <1>7
  <2>3. QED BY <1>5, <1>7, <2>1, <2>2
<1>12. QED BY <1>10, <1>11 DEF Descending

LEMMA DescendingStep ==
  ASSUME NEW rank, IsRank(rank), Shape, Descending(rank), [Next]_vars
  PROVE  Descending(rank)'
<1>0. phase \in {"enter", "body", "fault"} => frames # <<>>
  BY DEF Shape, OutcomeConsistent, Outcomes
<1>1. CASE UNCHANGED frames
  BY <1>1 DEF Descending, CallsBelow, Height
<1>2. CASE EnterState
  <2>1. frames # <<>> /\ Top \in Frame /\ Top = frames[1] /\ frames \in Seq(Frame)
    BY <1>0, <1>2, FrameSteps DEF EnterState, Shape, TypeOK
  <2>2. UNCHANGED frames
        \/ \E p \in Paths[Top.state] : frames' = [frames EXCEPT ![1].todo = p]
    BY <1>2 DEF EnterState, Raise
  <2>3. ASSUME NEW p \in Paths[Top.state], frames' = [frames EXCEPT ![1].todo = p]
        PROVE  Descending(rank)'
    <3> DEFINE g == [Top EXCEPT !.todo = p]
    <3>1. Top.state \in States /\ p \in Seq(Stmts)
      BY <2>1, PathType DEF Frame
    <3>2. g \in Frame /\ g.state = Top.state /\ g.todo = p
      BY <2>1, <3>1 DEF Frame
    <3>3. CallsBelow(rank, g)
      BY <3>1, <3>2 DEF IsRank, CallsBelow, Height
    <3>4. frames' = [frames EXCEPT ![1] = g]
      BY <2>1, <2>3 DEF Frame
    <3>5. QED BY <2>1, <3>2, <3>3, <3>4, ReplaceTop
  <2>4. QED BY <1>1, <2>2, <2>3
<1>3. CASE phase = "body" /\ Top.todo # <<>> /\ StepOver
  BY <1>0, <1>3, StepOverDescends
<1>4. ASSUME NEW n, Consume(n) PROVE UNCHANGED frames \/ StepOver
  BY <1>4 DEF Consume, Raise
<1>5. CASE Local \/ Extract \/ ExtractNext \/ Advance \/ Lookahead \/ Verify
  <2>1. phase = "body" /\ Top.todo # <<>>
    BY <1>5 DEF Local, Extract, ExtractNext, Advance, Lookahead, Verify, At
  <2>2. UNCHANGED frames \/ StepOver
    BY <1>4, <1>5 DEF Local, Extract, ExtractNext, Advance, Lookahead, Verify, Raise
  <2>3. QED BY <1>1, <1>3, <2>1, <2>2
<1>6. CASE CallBlock
  BY <1>6, CallDescends
<1>7. CASE Transition
  <2>1. frames # <<>> /\ Top \in Frame /\ Top = frames[1] /\ frames \in Seq(Frame)
        /\ Top.todo = <<>>
    BY <1>0, <1>7, FrameSteps DEF Transition, Shape, TypeOK
  <2>2. PICK t \in Targets[Top.state] :
          \/ t \in States /\ frames' = [frames EXCEPT ![1].state = t]
          \/ frames' = Tail(frames)
          \/ UNCHANGED frames
    BY <1>7 DEF Transition, Return, Raise
  <2>3. CASE t \in States /\ frames' = [frames EXCEPT ![1].state = t]
    <3> DEFINE g == [Top EXCEPT !.state = t]
    <3>1. g \in Frame /\ g.state = t /\ g.todo = <<>>
      BY <2>1, <2>3 DEF Frame
    <3>2. BlockOf[t] = BlockOf[Top.state]
      BY <2>1, <2>2, <2>3, ProgramAssumption DEF Frame
    <3>3. frames' = [frames EXCEPT ![1] = g]
      BY <2>1, <2>3 DEF Frame
    <3>4. CallsBelow(rank, g)
      BY <3>1 DEF CallsBelow
    <3>5. QED BY <2>1, <3>1, <3>2, <3>3, <3>4, ReplaceTop
  <2>4. QED BY <1>1, <2>1, <2>2, <2>3, PopDescends
<1>8. CASE Unwind
  BY <1>0, <1>8, PopDescends DEF Unwind, Return
<1>9. QED BY <1>1, <1>2, <1>5, <1>6, <1>7, <1>8 DEF Next, vars

LEMMA DescendingCorrect == ASSUME NEW rank, IsRank(rank) PROVE Spec => [](Shape /\ Descending(rank))
<1>1. Init => Descending(rank)
  <2> SUFFICES ASSUME Init PROVE Descending(rank)
    OBVIOUS
  <2>1. Len(frames) = 1 /\ frames[1].todo = <<>>
    BY DEF Init
  <2>2. QED BY <2>1 DEF Descending, CallsBelow
<1>2. QED BY <1>1, ShapeInit, ShapeStep, DescendingStep, PTL DEF Spec

(* An acyclic call graph keeps every parser block active at most once.         *)
THEOREM NeverReentered == Spec => []NoReentrance
<1>1. PICK rank : IsRank(rank)
  <2>1. PICK r \in [Blocks -> 0 .. Cardinality(Blocks)] : \A s \in States :
          \A p \in Paths[s] : \A i \in DOMAIN p :
            p[i].op = "call" => r[p[i].callee] < r[BlockOf[s]]
    BY AcyclicCalls
  <2>2. r \in [Blocks -> Nat]
    BY <2>1, FS_CardinalityType, ProgramAssumption
  <2>3. QED BY <2>1, <2>2 DEF IsRank
<1>2. Shape /\ Descending(rank) => NoReentrance
  <2> SUFFICES ASSUME Shape, Descending(rank),
                      NEW i \in 1 .. Len(frames), NEW j \in 1 .. Len(frames), i < j
               PROVE  BlockOf[frames[i].state] # BlockOf[frames[j].state]
    BY DEF NoReentrance, Shape, TypeOK
  <2>1. Height(rank, frames[i]) < Height(rank, frames[j])
    BY DEF Descending
  <2>2. frames[i] \in Frame
    BY DEF Shape, TypeOK
  <2>3. Height(rank, frames[i]) \in Nat
    BY <1>1, <2>2, HeightType
  <2>4. QED BY <2>1, <2>3 DEF Height
<1>3. Spec => [](Shape /\ Descending(rank))
  BY <1>1, DescendingCorrect
<1>4. QED BY <1>2, <1>3, PTL
=============================================================================
