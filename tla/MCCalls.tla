------------------------------- MODULE MCCalls -------------------------------
(* What statements do to storage: calls, on values (module Activations) and on *)
(* the interpreter's objects (module Storage), and the statements that move    *)
(* packet bits (module Extraction), each from its own initial states.          *)
(*                                                                             *)
(* A stack of two; calls that pass an element by a literal or computed index,  *)
(* in and past the stack, beside the index itself and the whole stack, in      *)
(* every direction, and calls the aliasing rule must refuse.                   *)
EXTENDS Activations, Extraction, Storage

Var(n) == [var |-> n, index |-> NoIndex]
At(k) == [var |-> "hs", index |-> [op |-> "literal", n |-> k]]
AtI == [var |-> "hs", index |-> [op |-> "var", n |-> 0]]

Arg(n, dir, lv) == [name |-> n, dir |-> dir, lv |-> lv]
CallOf(args) ==
  [dir |-> [n \in Names |-> IF \E a \in args : a.name = n
                            THEN (CHOOSE a \in args : a.name = n).dir ELSE "local"],
   arg |-> [n \in Names |-> IF \E a \in args : a.name = n
                            THEN (CHOOSE a \in args : a.name = n).lv ELSE
                            Var(n)]]

CallStatements == {
  CallOf({Arg("hs", "inout", Var("hs")), Arg("i", "in", Var("i")), Arg("h", "in", AtI)}),
  CallOf({Arg("h", "inout", AtI), Arg("i", "inout", Var("i")), Arg("g", "out", Var("h"))}),
  CallOf({Arg("h", "out", AtI), Arg("i", "out", Var("i"))}),
  CallOf({Arg("h", "inout", At(0)), Arg("g", "inout", At(1))}),
  CallOf({Arg("h", "inout", Var("g")), Arg("g", "inout", Var("h")), Arg("hs", "in", Var("hs"))}),
  CallOf({Arg("h", "inout", AtI), Arg("g", "out", At(0))}),
  CallOf({Arg("h", "inout", At(1)), Arg("hs", "inout", Var("hs"))})}

-----------------------------------------------------------------------------
(* A struct's header, a parameter, and elements at a literal index   *)
(* and at a variable index, past the end too; stacks of two headers of one bit.*)
Element(var, index) == [var |-> var, index |-> index]
LValuesOfHeaders ==
  {Element("s", -2), Element("p", -2), Element("t", 0), Element("t", -1)}

VARIABLE part

-----------------------------------------------------------------------------
(* A header of two fields, 1 and 3 bits, a stack of three and packets of one   *)
(* and two bytes: two headers fill a byte, three leave the cursor unaligned.   *)
PacketBytes == {<<90>>, <<255>>, <<0, 1>>, <<165, 90>>, <<255, 254>>}
FieldWidths == <<1, 3>>

InitCalls == part \in {"values", "objects"} /\ Init /\ ObjectsInit /\ packet = <<90>> /\ BitsInit
InitBits == part = "bits" /\ Init /\ ObjectsInit /\ BitsInit
OnValues == part = "values" /\ Next /\ UNCHANGED <<part, objectVars, bitVars>>
OnObjects == part = "objects" /\ ObjectsNext /\ UNCHANGED <<part, vars, bitVars>>
OnBits == part = "bits" /\ BitsNext /\ UNCHANGED <<part, vars, objectVars>>
SuiteSpec ==
  (InitCalls \/ InitBits) /\ [][OnValues \/ OnObjects \/ OnBits]_<<part, vars, objectVars, bitVars>>
=============================================================================
