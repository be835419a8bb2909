----------------------------- MODULE Activations -----------------------------
(* Block activations: their stores, the arguments a call copies in, and the    *)
(* copy-back through the targets resolved at copy-in, on return and on the way *)
(* out of a raised error (interp/stmt.py call_block, copy_in, copy_back;       *)
(* interp/env.py; read, resolve and write of lvalues in interp/expr.py), under *)
(* the validator's aliasing rule (validator/calls.py).                         *)
(*                                                                             *)
(* Every block names a stack hs, two headers h and g and an index variable i.  *)
(* A header is one value; its validity and fields, and a stack's next_index,   *)
(* travel with it and are in Extraction.  Which statements run is open.        *)
EXTENDS Integers, Sequences, FiniteSets

CONSTANTS
  Size,      \* elements of the stack
  Values,    \* what a header holds; 0 is the zero header
  Calls,     \* the call statements a program may hold, accepted or not
  MaxDepth,  \* bound: active blocks
  MaxSteps   \* bound: statements

Names == {"hs", "h", "g", "i"}
HeaderNames == {"h", "g"}
Directions == {"local", "in", "out", "inout"}
OutDirections == {"out", "inout"}

(* An index expression is a literal, the variable i, or absent.                *)
NoIndex == [op |-> "none", n |-> 0]
Indices == {NoIndex, [op |-> "var", n |-> 0]} \cup [op : {"literal"}, n : 0 .. Size]
LValues == [var : Names, index : Indices]

(* Parameters in declaration order; a call gives each of the callee's names    *)
(* its direction and its argument.                                             *)
ParamOrder == <<"i", "h", "g", "hs">>

ASSUME CallsAssumption ==
  /\ Size \in Nat \ {0} /\ 0 \in Values /\ MaxDepth \in Nat \ {0} /\ MaxSteps \in Nat
  /\ \A c \in Calls :
       /\ c.dir \in [Names -> Directions] /\ c.arg \in [Names -> LValues]
       /\ \A n \in Names :
            IF n \in HeaderNames
            THEN IF c.arg[n].var = "hs" THEN c.arg[n].index # NoIndex
                 ELSE c.arg[n].var \in HeaderNames /\ c.arg[n].index = NoIndex
            ELSE c.arg[n] = [var |-> n, index |-> NoIndex]

Store == [hs : [0 .. Size - 1 -> Values], h : Values, g : Values, i : 0 .. Size]
Zeros == [hs |-> [k \in 0 .. Size - 1 |-> 0], h |-> 0, g |-> 0, i |-> 0]

VARIABLES
  frames,  \* the active blocks, outermost first
  phase,   \* "run", "fault" while a ParseError is on its way out, "done"
  steps    \* statements executed

vars == <<frames, phase, steps>>

Frame == [store : Store, dir : [Names -> Directions], arg : [Names -> LValues]]
Depth == Len(frames)
Top == frames[Depth]

-----------------------------------------------------------------------------
(* Lvalues                                                                     *)

IndexValue(store, index) == IF index.op = "var" THEN store.i ELSE index.n

(* resolve_lvalue: the index replaced by its value now.                        *)
Resolve(store, lv) ==
  IF lv.index = NoIndex THEN lv
  ELSE [lv EXCEPT !.index = [op |-> "literal", n |-> IndexValue(store, lv.index)]]

(* Past the end a read gives a zero header and a write does nothing.           *)
ReadLValue(store, lv) ==
  LET k == IndexValue(store, lv.index) IN
  IF lv.index = NoIndex THEN store[lv.var]
  ELSE IF k < Size THEN store.hs[k] ELSE 0

WriteLValue(store, lv, value) ==
  LET k == IndexValue(store, lv.index) IN
  IF lv.index = NoIndex THEN [store EXCEPT ![lv.var] = value]
  ELSE IF k < Size THEN [store EXCEPT !.hs[k] = value] ELSE store

(* lvalue_access: the variable, then the literal index or Unknown.             *)
Unknown == -1
Access(lv) ==
  IF lv.index = NoIndex THEN <<lv.var>>
  ELSE <<lv.var, IF lv.index.op = "literal" THEN lv.index.n ELSE Unknown>>

(* Fault: a computed index is taken to differ from a literal one.              *)
MayAliasKnownOnly(a, b) ==
  /\ a[1] = b[1]
  /\ Len(a) = 2 /\ Len(b) = 2 => a[2] = b[2]

MayAlias(a, b) ==
  /\ a[1] = b[1]
  /\ Len(a) = 2 /\ Len(b) = 2 => a[2] = b[2] \/ Unknown \in {a[2], b[2]}

Shared(c) == {n \in Names : c.dir[n] \in OutDirections}

(* check_args in the caller's scope: out arguments are writable and no two of  *)
(* them may alias.                                                             *)
Accepted(c, caller) ==
  /\ \A n \in Shared(c) : caller.dir[c.arg[n].var] # "in"
  /\ \A m, n \in Shared(c) : m # n => ~MayAlias(Access(c.arg[m]), Access(c.arg[n]))

-----------------------------------------------------------------------------
(* Calls                                                                       *)

(* resolve_arg                                                                 *)
ResolvedArgs(c, store) ==
  [n \in Names |-> IF n \in Shared(c) THEN Resolve(store, c.arg[n]) ELSE c.arg[n]]

(* argument_value over a fresh activation: locals and out parameters at zero.  *)
CopyIn(c, args, store) ==
  [n \in Names |-> IF c.dir[n] \in {"in", "inout"} THEN ReadLValue(store, args[n]) ELSE Zeros[n]]

(* copy_back, parameter by parameter in the given order.                       *)
CopyBackIn(order, callee, store) ==
  LET back[k \in 0 .. Len(order)] ==
        IF k = 0 THEN store
        ELSE LET n == order[k] IN
             IF n \in Shared(callee) THEN WriteLValue(back[k - 1], callee.arg[n], callee.store[n])
             ELSE back[k - 1]
  IN back[Len(order)]

CopyBack(callee, store) == CopyBackIn(ParamOrder, callee, store)

RootDir == [n \in Names |-> "inout"]
RootArg == [n \in Names |-> [var |-> n, index |-> NoIndex]]

Init ==
  /\ frames = <<[store |-> Zeros, dir |-> RootDir, arg |-> RootArg]>>
  /\ phase = "run"
  /\ steps = 0

Statement == phase = "run" /\ steps < MaxSteps /\ steps' = steps + 1

(* The lvalue's root is writable: not an `in` parameter.                       *)
Targets == {lv \in LValues : /\ Top.dir[lv.var] # "in"
                             /\ lv.var \in HeaderNames \cup {"hs"}
                             /\ lv.var = "hs" <=> lv.index # NoIndex}

AssignHeader ==
  /\ Statement
  /\ \E lv \in Targets, v \in Values :
       frames' = [frames EXCEPT ![Depth].store = WriteLValue(@, lv, v)]
  /\ UNCHANGED phase

AssignIndex ==
  /\ Statement
  /\ Top.dir["i"] # "in"
  /\ \E k \in 0 .. Size : frames' = [frames EXCEPT ![Depth].store.i = k]
  /\ UNCHANGED phase

CallBlock ==
  /\ Statement
  /\ Depth < MaxDepth
  /\ \E c \in Calls :
       /\ Accepted(c, Top)
       /\ LET args == ResolvedArgs(c, Top.store) IN
          frames' = Append(frames, [store |-> CopyIn(c, args, Top.store),
                                    dir |-> c.dir, arg |-> args])
  /\ UNCHANGED phase

(* A parser statement that raises; what it had done is in Extraction.          *)
RaiseError ==
  /\ phase = "run"
  /\ phase' = "fault"
  /\ UNCHANGED <<frames, steps>>

PopFrame ==
  frames' = [SubSeq(frames, 1, Depth - 1) EXCEPT ![Depth - 1].store = CopyBack(Top, @)]

(* The block's body or its states end.                                         *)
Return ==
  /\ phase = "run"
  /\ \/ Depth > 1 /\ PopFrame /\ UNCHANGED phase
     \/ Depth = 1 /\ phase' = "done" /\ UNCHANGED frames
  /\ UNCHANGED steps

(* Fault: a raised error skips the copy-back.                                  *)
UnwindWithoutCopyBack ==
  /\ phase = "fault"
  /\ \/ Depth > 1 /\ frames' = SubSeq(frames, 1, Depth - 1) /\ UNCHANGED phase
     \/ Depth = 1 /\ phase' = "done" /\ UNCHANGED frames
  /\ UNCHANGED steps

(* The finally of call_block, then run_parser's except.                        *)
Unwind ==
  /\ phase = "fault"
  /\ \/ Depth > 1 /\ PopFrame /\ UNCHANGED phase
     \/ Depth = 1 /\ phase' = "done" /\ UNCHANGED frames
  /\ UNCHANGED steps

Next == AssignHeader \/ AssignIndex \/ CallBlock \/ RaiseError \/ Return \/ Unwind

Spec == Init /\ [][Next]_vars

-----------------------------------------------------------------------------
TypeOK ==
  /\ frames \in Seq(Frame) /\ Depth \in 1 .. MaxDepth
  /\ phase \in {"run", "fault", "done"} /\ steps \in 0 .. MaxSteps

(* With the arguments the validator accepts, the order of copy-back never      *)
(* matters, whatever the computed indices turned out to be                     *)
(* (check_args, may_alias).                                                    *)
Orders == {o \in [1 .. 4 -> Names] : \A a, b \in 1 .. 4 : a # b => o[a] # o[b]}
CopyOrderIrrelevant ==
  \A d \in 2 .. Depth, order \in Orders :
    CopyBackIn(order, frames[d], frames[d - 1].store) = CopyBack(frames[d], frames[d - 1].store)

-----------------------------------------------------------------------------
(* Refinement: what the frames would hold if every call returned now, and the  *)
(* storage each name stands for meanwhile.                                     *)

View(fs) ==
  LET view[k \in 0 .. Len(fs) - 1] ==
        IF k = 0 THEN fs[Len(fs)].store
        ELSE CopyBack([fs[Len(fs) - k + 1] EXCEPT !.store = view[k - 1]], fs[Len(fs) - k].store)
  IN [d \in 1 .. Len(fs) |-> view[Len(fs) - d]]

Whole == -1
OwnCell(d, n) == [at |-> d, var |-> n, elem |-> Whole]

(* What the names of activation d denote, given what those of its caller do.   *)
Binding(f, d, caller) ==
  [n \in Names |->
    LET lv == f.arg[n] IN
    IF n \notin Shared(f) THEN OwnCell(d, n)
    ELSE IF lv.index = NoIndex THEN caller[lv.var]
    ELSE IF lv.index.n < Size THEN [caller.hs EXCEPT !.elem = lv.index.n]
    ELSE OwnCell(d, n)]

Denoted(fs) ==
  LET ref[d \in 1 .. Len(fs)] ==
        IF d = 1 THEN [n \in Names |-> OwnCell(1, n)] ELSE Binding(fs[d], d, ref[d - 1])
  IN ref

OwnCells(fs) ==
  LET view == View(fs)
      denoted == Denoted(fs)
  IN [d \in 1 .. Len(fs) |->
       [n \in Names |-> IF denoted[d][n] = OwnCell(d, n) THEN view[d][n] ELSE Zeros[n]]]

(* Copying in and back, with targets resolved once, out parameters zeroed and  *)
(* copy-back on errors too, cannot be told from passing references to disjoint *)
(* storage: no write of a sub-block is lost, early, late or misplaced.         *)
Reference == INSTANCE ByReference WITH cells <- OwnCells(frames), refs <- Denoted(frames)
PassesByReference == Reference!Spec
=============================================================================
