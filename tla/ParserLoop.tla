------------------------------ MODULE ParserLoop ------------------------------
(* One run of the parser interpreter: the cursor over the packet, the walk     *)
(* through the states, sub-parser calls, raised errors and the revisit rule    *)
(* that is meant to bound the walk (interp/stmt.py, interp/packet.py,          *)
(* arch/entry/parser.py).                                                      *)
(*                                                                             *)
(* Data is abstract.  What a conditional, a select or an extract into a full   *)
(* stack decides from values is a choice here, so one instance stands for      *)
(* every program with the same states and statements.  A lookahead inside any  *)
(* expression is the statement "lookahead" placed where it is evaluated; that  *)
(* includes select keys, which are read after the body and before the target.  *)
EXTENDS Integers, Sequences, FiniteSets

CONSTANTS
  Blocks,   \* the parser blocks of the program
  Root,     \* the block run_parser starts
  States,   \* all (block, state) keys
  BlockOf,  \* the block that declares a state
  Start,    \* the start state of a block
  Paths,    \* Paths[s]: the statement sequences a walk through the body may take
  Targets,  \* Targets[s]: what the transition may choose
  Total     \* bits in the packet

ProgramErrors == {"PacketTooShort", "StackOutOfBounds", "NoMatch",
                  "ParserTimeout", "UserError"}
NoError == "NoError"
Errors == ProgramErrors \cup {NoError}

(* One statement of a parser body.  "local" is every statement that neither    *)
(* raises nor touches the packet; "extract" and "next" read a header of `bits` *)
(* bits; "advance" has an operand of at most `bits`.                           *)
Stmts == [op : {"local", "extract", "next", "advance", "lookahead", "verify", "call"},
          bits : Nat, callee : Blocks]

(* What the validator guarantees of a parser: targets stay in the block, calls *)
(* name parser blocks, and the call graph is acyclic (CallChecks).             *)
ASSUME ProgramAssumption ==
  /\ IsFiniteSet(Blocks) /\ IsFiniteSet(States)
  /\ Root \in Blocks /\ Total \in Nat
  /\ BlockOf \in [States -> Blocks]
  /\ Start \in [Blocks -> States] /\ \A b \in Blocks : BlockOf[Start[b]] = b
  /\ \A s \in States :
       /\ \A p \in Paths[s] : p \in Seq(Stmts)
       /\ Targets[s] \subseteq {t \in States : BlockOf[t] = BlockOf[s]}
                               \cup {"accept", "reject", "nomatch"}
       /\ s \notin {"accept", "reject", "nomatch"}

ASSUME AcyclicCalls ==
  \E rank \in [Blocks -> 0 .. Cardinality(Blocks)] : \A s \in States :
    \A p \in Paths[s] : \A i \in DOMAIN p :
      p[i].op = "call" => rank[p[i].callee] < rank[BlockOf[s]]

VARIABLES
  phase,    \* "enter" a state, run its "body", unwind a "fault", or an outcome
  frames,   \* the active parser blocks, innermost first
  cursor,   \* Packet.cursor
  visits,   \* Env.visits: cursor at the last entry of each state
  error,    \* the ParseError in flight, then ParseOutcome.error
  entered   \* history: every (state, cursor) entered so far

vars == <<phase, frames, cursor, visits, error, entered>>

Never == -1
Frame == [state : States, todo : Seq(Stmts)]
Outcomes == {"accepted", "rejected"}

TypeOK ==
  /\ phase \in {"enter", "body", "fault"} \cup Outcomes
  /\ frames \in Seq(Frame)
  /\ cursor \in 0 .. Total
  /\ visits \in [States -> {Never} \cup 0 .. Total]
  /\ error \in Errors
  /\ entered \in SUBSET (States \X (0 .. Total))

Top == Head(frames)

Init ==
  /\ phase = "enter"
  /\ frames = <<[state |-> Start[Root], todo |-> <<>>]>>
  /\ cursor = 0
  /\ visits = [s \in States |-> Never]
  /\ error = NoError
  /\ entered = {}

(* A ParseError leaves everything as it is; the frames unwind from here.       *)
Raise(e) ==
  /\ phase' = "fault"
  /\ error' = e
  /\ UNCHANGED <<frames, cursor, visits, entered>>

(* Fault: no revisit rule.                                                     *)
EnterStateAlways ==
  /\ phase = "enter"
  /\ visits' = [visits EXCEPT ![Top.state] = cursor]
  /\ entered' = entered \cup {<<Top.state, cursor>>}
  /\ \E p \in Paths[Top.state] : frames' = [frames EXCEPT ![1].todo = p]
  /\ phase' = "body"
  /\ UNCHANGED <<cursor, error>>

EnterState ==
  /\ phase = "enter"
  /\ LET s == Top.state IN
     \/ /\ visits[s] = cursor
        /\ Raise("ParserTimeout")
     \/ /\ visits[s] # cursor
        /\ visits' = [visits EXCEPT ![s] = cursor]
        /\ entered' = entered \cup {<<s, cursor>>}
        /\ \E p \in Paths[s] : frames' = [frames EXCEPT ![1].todo = p]
        /\ phase' = "body"
        /\ UNCHANGED <<cursor, error>>

At(op) == phase = "body" /\ Top.todo # <<>> /\ Head(Top.todo).op = op
Operand == Head(Top.todo)
StepOver == frames' = [frames EXCEPT ![1].todo = Tail(@)]

Local ==
  /\ At("local")
  /\ StepOver
  /\ UNCHANGED <<phase, cursor, visits, error, entered>>

(* Packet.read and Packet.advance: all n bits or none.                         *)
Consume(n) ==
  \/ /\ n > Total - cursor
     /\ Raise("PacketTooShort")
  \/ /\ n <= Total - cursor
     /\ cursor' = cursor + n
     /\ StepOver
     /\ UNCHANGED <<phase, visits, error, entered>>

Extract == At("extract") /\ Consume(Operand.bits)

(* stack.next: a full stack is reported before the packet is looked at.        *)
ExtractNext == At("next") /\ (Raise("StackOutOfBounds") \/ Consume(Operand.bits))

Advance == At("advance") /\ \E n \in 0 .. Operand.bits : Consume(n)

Lookahead ==
  /\ At("lookahead")
  /\ \/ /\ Operand.bits > Total - cursor
        /\ Raise("PacketTooShort")
     \/ /\ Operand.bits <= Total - cursor
        /\ StepOver
        /\ UNCHANGED <<phase, cursor, visits, error, entered>>

Verify ==
  /\ At("verify")
  /\ \/ Raise("UserError")
     \/ StepOver /\ UNCHANGED <<phase, cursor, visits, error, entered>>

(* Fault: a sub-parser starts with visits of its own.                          *)
CallBlockFresh ==
  /\ At("call")
  /\ frames' = <<[state |-> Start[Operand.callee], todo |-> <<>>]>>
                 \o [frames EXCEPT ![1].todo = Tail(@)]
  /\ phase' = "enter"
  /\ visits' = [s \in States |-> Never]
  /\ UNCHANGED <<cursor, error, entered>>

(* A sub-parser shares the packet and the visits of the run.                   *)
CallBlock ==
  /\ At("call")
  /\ frames' = <<[state |-> Start[Operand.callee], todo |-> <<>>]>>
                 \o [frames EXCEPT ![1].todo = Tail(@)]
  /\ phase' = "enter"
  /\ UNCHANGED <<cursor, visits, error, entered>>

Return(final) ==
  /\ frames' = Tail(frames)
  /\ phase' = IF Len(frames) = 1 THEN final ELSE IF final = "accepted" THEN "body" ELSE "fault"
  /\ UNCHANGED <<cursor, visits, error, entered>>

Transition ==
  /\ phase = "body" /\ Top.todo = <<>>
  /\ \E t \in Targets[Top.state] :
       \/ /\ t \in States
          /\ frames' = [frames EXCEPT ![1].state = t]
          /\ phase' = "enter"
          /\ UNCHANGED <<cursor, visits, error, entered>>
       \/ t = "accept" /\ Return("accepted")
       \/ t = "reject" /\ Raise(NoError)
       \/ t = "nomatch" /\ Raise("NoMatch")

(* The finally of call_block, one activation at a time, then run_parser's      *)
(* except.                                                                     *)
Unwind == phase = "fault" /\ Return("rejected")

Next ==
  \/ EnterState \/ Local \/ Extract \/ ExtractNext \/ Advance \/ Lookahead
  \/ Verify \/ CallBlock \/ Transition \/ Unwind

Spec == Init /\ [][Next]_vars
(* The interpreter is one call that runs to its end.                           *)
FairSpec == Spec /\ WF_vars(Next)

-----------------------------------------------------------------------------
(* The cursor never moves back and never passes the end of the packet,         *)
(* whatever a body does (packet.py read, advance, peek).                       *)
CursorMonotone == [][cursor <= cursor' /\ cursor' <= Total]_cursor

(* enter_state keeps only the last cursor of each state, and yet it raises     *)
(* ParserTimeout exactly when this state was entered before, at any time and   *)
(* in any activation of the run, with the cursor where it is now.              *)
TimeoutExactlyOnRepeat ==
  [][phase = "enter" => (phase' = "fault" <=> <<Top.state, cursor>> \in entered)]_vars

(* No parser block is ever active twice: the validator's acyclic call graph is *)
(* what bounds the recursion of call_block and run_states.                     *)
NoReentrance ==
  \A i, j \in 1 .. Len(frames) :
    i # j => BlockOf[frames[i].state] # BlockOf[frames[j].state]

(* The revisit rule ends every run: no program, whatever loops it has, keeps   *)
(* the interpreter in its states for ever (run_states has no other bound).     *)
Terminates == <>(phase \in Outcomes)

(* When the run is over no activation is left, and acceptance carries no error *)
(* (ParseOutcome).                                                             *)
OutcomeConsistent ==
  /\ phase \in Outcomes <=> frames = <<>>
  /\ phase \in {"enter", "body", "accepted"} => error = NoError
=============================================================================
