------------------------------ MODULE Instances ------------------------------
(* frontend/spectec_il.py and blocks.py: how P4's tree of parser, control and  *)
(* extern instances becomes the IR's program-level blocks and extern           *)
(* instances.  The IR has no block instances: a declaration is one block per   *)
(* choice of constructor arguments, unless its instances own extern state.     *)
(* A name is a sequence, <<"r">> for r and <<"r", 0>> for r_0.                 *)
EXTENDS Integers, Sequences, SequencesExt, FiniteSets

CONSTANTS
  Programs   \* P4 programs: [decls, roles].  A declaration is [kind, params, items], items its
             \* local instantiations and then its body; a role is [decl, kind, args].

VARIABLES
  program,         \* the P4 program
  roles,           \* the package's arguments still to translate
  instantiations,  \* Translator.instantiations: <<declaration, values>> to a block's name
  blocks,          \* Translator.blocks: a name's body, calls and accesses in order
  extern_types,    \* Translator.extern_types: a name's <<family, signature>>
  extern_instances,\* Translator.extern_instances: a name's [extern_type, size]
  types,           \* the header types registered so far
  stack,           \* translate_block's activations
  exports,         \* the block of each role
  ok               \* FALSE once the translation has raised

vars == <<program, roles, instantiations, blocks, extern_types, extern_instances, types, stack,
          exports, ok>>
state == <<instantiations, blocks, extern_types, extern_instances, types>>

Decls == program.decls
Add(f, x, v) == [y \in DOMAIN f \cup {x} |-> IF y = x THEN v ELSE f[y]]

-----------------------------------------------------------------------------
(* An item is [op, name, of, arg]: an extern instance of signature `of`, an    *)
(* instance of block `of`, a use of a header type, an access of an extern, an  *)
(* apply of an instance and a direct application.  arg is the constructor's    *)
(* argument: a number, or the parameter of the block it is written in.         *)

Absent == -1
Parameter == 0
Values(arg, values) == CASE arg = Parameter -> values [] arg = Absent -> <<>> [] OTHER -> <<arg>>
Subs(d) == {it \in Range(Decls[d].items) : it.op \in {"block", "direct"}}

(* Fault: a block applied directly is not looked into.                         *)
RECURSIVE OwnsInstantiated(_)
OwnsInstantiated(d) ==
  \/ \E it \in Range(Decls[d].items) : it.op = "extern"
  \/ \E it \in Subs(d) : it.op = "block" /\ OwnsInstantiated(it.of)

RECURSIVE OwnsState(_)
OwnsState(d) ==
  \/ \E it \in Range(Decls[d].items) : it.op = "extern"
  \/ \E it \in Subs(d) : OwnsState(it.of)

ProgramNames ==
  types \cup DOMAIN extern_types \cup DOMAIN extern_instances \cup DOMAIN blocks \cup DOMAIN Decls
Numbered(base, sep, i) == base \o sep \o <<i>>
LeastFree(base, sep, from, taken) ==
  CHOOSE i \in from .. from + Cardinality(taken) :
    /\ Numbered(base, sep, i) \notin taken
    /\ \A j \in from .. i - 1 : Numbered(base, sep, j) \in taken
FreshProgramName(base, taken) ==
  IF base \notin taken THEN base ELSE Numbered(base, <<>>, LeastFree(base, <<>>, 0, taken))
BlockName(d) == IF d \notin DOMAIN blocks THEN d ELSE FreshProgramName(d, ProgramNames)

(* add_extern_type: an identical type is reused, another signature of the      *)
(* family is named family.1, family.2 ...                                      *)
SameType(type) == {n \in DOMAIN extern_types : extern_types[n] = type}
ExternTypeName(type) ==
  CASE SameType(type) # {} -> CHOOSE n \in SameType(type) : TRUE
    [] type[1] \notin DOMAIN extern_types -> type[1]
    [] OTHER -> Numbered(type[1], <<".">>, LeastFree(type[1], <<".">>, 1, DOMAIN extern_types))

-----------------------------------------------------------------------------
(* An activation of translate_block: the declaration, its block's name, what   *)
(* is left of it, its local names, and the item that asked for it.             *)
Activation(d, kind, name, values, asked) ==
  [kind |-> kind, block |-> name, values |-> values, todo |-> Decls[d].items,
   scope |-> <<>>, body |-> <<>>, asked |-> asked]
Current == stack[Len(stack)]
Item == Head(Current.todo)
At(op) == ok /\ stack # <<>> /\ Current.todo # <<>> /\ Item.op = op
WithCurrent(a) == stack' = [stack EXCEPT ![Len(stack)] = a]
Rest == Tail(Current.todo)

Init ==
  /\ program \in Programs /\ roles = program.roles
  /\ instantiations = <<>> /\ blocks = <<>> /\ extern_types = <<>> /\ extern_instances = <<>>
  /\ types = {} /\ stack = <<>> /\ exports = <<>> /\ ok = TRUE

(* role_block: a role is its own block, whatever is instantiated already.      *)
Role ==
  /\ ok /\ stack = <<>> /\ roles # <<>>
  /\ LET r == Head(roles)
     IN stack' = <<Activation(r.decl, r.kind, BlockName(r.decl), r.args, [op |-> "role", decl |-> r.decl])>>
  /\ roles' = Tail(roles)
  /\ UNCHANGED <<program, state, exports, ok>>

(* extern_object, at the instantiation.                                        *)
ExternObject ==
  /\ At("extern")
  /\ LET type == <<<<"register">>, Item.of>>
         tn == ExternTypeName(type)
         name == FreshProgramName(Item.name, ProgramNames \cup {tn})
     IN /\ extern_types' = Add(extern_types, tn, type)
        /\ extern_instances' =
             Add(extern_instances, name, [extern_type |-> tn, size |-> Values(Item.arg, Current.values)[1]])
        /\ WithCurrent([Current EXCEPT !.todo = Rest, !.scope = Add(@, Item.name, name)])
  /\ UNCHANGED <<program, roles, instantiations, blocks, types, exports, ok>>

(* type_of registers a header type where it is first used.                     *)
HeaderType ==
  /\ At("type") /\ types' = types \cup {Item.name}
  /\ WithCurrent([Current EXCEPT !.todo = Rest])
  /\ UNCHANGED <<program, roles, instantiations, blocks, extern_types, extern_instances, exports, ok>>

(* What the caller does with the block it asked for.                           *)
Deliver(a, item, name) ==
  IF item.op = "block" THEN [a EXCEPT !.scope = Add(@, item.name, name)]
  ELSE [a EXCEPT !.body = Append(@, <<"call", name>>)]

(* sub_block: each instantiation of a block with extern state is its own.      *)
Key(d, values) ==
  IF OwnsState(d) THEN <<d, Append(values, Cardinality(DOMAIN instantiations))>> ELSE <<d, values>>

SubBlock ==
  /\ At("block") \/ At("direct")
  /\ LET d == Item.of
         values == Values(Item.arg, Current.values)
         key == Key(d, values)
         name == BlockName(d)
         caller == [Current EXCEPT !.todo = Rest]
     IN IF key \in DOMAIN instantiations
        THEN WithCurrent(Deliver(caller, Item, instantiations[key])) /\ UNCHANGED <<instantiations, blocks, ok>>
        ELSE /\ instantiations' = Add(instantiations, key, name) /\ blocks' = Add(blocks, name, <<>>)
             /\ ok' = (Decls[d].kind = Current.kind)
             /\ stack' = Append([stack EXCEPT ![Len(stack)] = caller],
                                Activation(d, Decls[d].kind, name, values, Item))
  /\ UNCHANGED <<program, roles, extern_types, extern_instances, types, exports>>

(* A call of an instance or of an extern's method.                             *)
Use ==
  /\ At("apply") \/ At("access")
  /\ WithCurrent([Current EXCEPT !.todo = Rest,
       !.body = Append(@, <<IF Item.op = "apply" THEN "call" ELSE "access", Current.scope[Item.name]>>)])
  /\ UNCHANGED <<program, roles, state, exports, ok>>

(* The block is complete; a role's is also the block of its declaration.       *)
Finish ==
  /\ ok /\ stack # <<>> /\ Current.todo = <<>>
  /\ blocks' = Add(blocks, Current.block, Current.body)
  /\ LET n == Len(stack) - 1
         asked == Current.asked
     IN IF n = 0
        THEN /\ exports' = Append(exports, Current.block) /\ stack' = <<>>
             /\ instantiations' = Add(instantiations, <<asked.decl, Current.values>>, Current.block)
        ELSE /\ stack' = [SubSeq(stack, 1, n) EXCEPT ![n] = Deliver(@, asked, Current.block)]
             /\ UNCHANGED <<exports, instantiations>>
  /\ UNCHANGED <<program, roles, extern_types, extern_instances, types, ok>>

Next == Role \/ ExternObject \/ HeaderType \/ SubBlock \/ Use \/ Finish
Spec == Init /\ [][Next]_vars

-----------------------------------------------------------------------------
(* ordered_blocks: every block reachable from the roles, callees first.        *)
Callees(b) == [i \in DOMAIN blocks[b] |-> IF blocks[b][i][1] = "call" THEN {blocks[b][i][2]} ELSE {}]
RECURSIVE Visit(_, _)
Visit(out, bs) ==
  FoldLeft(LAMBDA o, b :
      IF b \in Range(o) THEN o
      ELSE Append(Visit(o, FoldLeft(LAMBDA s, c : s \o SetToSeq(c), <<>>, Callees(b))), b), out, bs)
OrderedBlocks == Visit(<<>>, exports)

(* The extern states a run touches, in order: in P4, named by the path of      *)
(* instances to them, with their signature and size; in the IR, by name.       *)
ItemOf(items, name) == CHOOSE it \in Range(items) : it.op \in {"extern", "block"} /\ it.name = name
RECURSIVE P4Run(_, _, _)
P4Run(path, d, values) ==
  LET items == Decls[d].items
      sub(i, it) == P4Run(Append(path, IF it.op = "block" THEN it.name ELSE <<"direct", i>>),
                          it.of, Values(it.arg, values))
      item(i) ==
        CASE items[i].op = "access" ->
               LET it == ItemOf(items, items[i].name)
               IN <<[path |-> Append(path, it.name), type |-> it.of, size |-> Values(it.arg, values)[1]]>>
          [] items[i].op = "apply" -> sub(i, ItemOf(items, items[i].name))
          [] items[i].op = "direct" -> sub(i, items[i])
          [] OTHER -> <<>>
  IN FoldLeft(LAMBDA s, i : s \o item(i), <<>>, [i \in DOMAIN items |-> i])
RECURSIVE IRRun(_)
IRRun(b) ==
  FoldLeft(LAMBDA s, x : s \o IF x[1] = "call" THEN IRRun(x[2]) ELSE <<x[2]>>, <<>>, blocks[b])

Concat(ss) == FoldLeft(LAMBDA s, x : s \o x, <<>>, ss)
P4Accesses == Concat([i \in DOMAIN program.roles |->
                P4Run(<<i>>, program.roles[i].decl, program.roles[i].args)])
IRAccesses == Concat([i \in DOMAIN exports |-> IRRun(exports[i])])

(* What the validator refuses: a name declared twice at program level.         *)
Distinct ==
  LET families == <<types, DOMAIN extern_types, DOMAIN extern_instances, DOMAIN blocks>>
  IN \A i, j \in 1 .. 4 : i # j => families[i] \cap families[j] = {}

Translated == ok /\ stack = <<>> /\ roles = <<>>

(* Two accesses meet in one IR extern instance exactly when they meet in one   *)
(* P4 instance, and it has the type and size declared there.                   *)
SameState ==
  Translated /\ Distinct =>
    LET p4 == P4Accesses
        ir == IRAccesses
    IN /\ Len(p4) = Len(ir)
       /\ \A i, j \in DOMAIN p4 : (p4[i].path = p4[j].path) = (ir[i] = ir[j])
       /\ \A i \in DOMAIN p4 :
            LET x == extern_instances[ir[i]]
            IN extern_types[x.extern_type][2] = p4[i].type /\ x.size = p4[i].size
(* A block's callees come before it.                                           *)
CalleesFirst ==
  Translated => LET o == OrderedBlocks
                IN \A i \in DOMAIN o : \A x \in Range(blocks[o[i]]) :
                     x[1] = "call" => \E j \in 1 .. i - 1 : o[j] = x[2]
InstancesKept == SameState /\ CalleesFirst
=============================================================================
