---------------------------- MODULE Declarations ----------------------------
(* What a library declares. The core eDSL checks a declaration when it is made *)
(* (edsl/core/library.py, types.py, blocks.py), a block class replays its      *)
(* members into the core (edsl/blocks.py), and the validator checks the built  *)
(* library again, from nothing but its IR: the name index (ir.py) and the      *)
(* declaration checks (validator/names.py to tables.py). The types of operands *)
(* are module Authoring's, the cycles of calls CallGraph's, the overlap of     *)
(* entries Tables'.                                                            *)
EXTENDS Integers, Sequences, FiniteSets, SequencesExt, Bitwise

CONSTANTS
  Scripts,      \* the operations an author makes, in order
  Names,        \* names an author writes, "" among them
  FieldLists,   \* the fields of a header or struct, or an action's data
  MemberLists,  \* the members of an enum
  ParamLists,   \* parameters of blocks
  ExternSpecs,  \* constructor parameters and methods of an extern type
  ArgLists,     \* constructor arguments
  Transitions,  \* what a state may be given
  Statements,   \* calls in a body
  TableSpecs,   \* keys, actions, default and entries
  Classes,      \* block classes
  KeyMax        \* the largest value of a select key

VARIABLES
  script,       \* the operations still to come
  built,      \* LibraryBuilder: what is declared, and the names taken
  last          \* the answer to the last call
vars == <<script, built, last>>

Nowhere == 0            \* program level, beside the positions of the blocks
Body == ""              \* a block's body, beside the names of its actions

-----------------------------------------------------------------------------
(* Types, parameters and operands.                                             *)
Made(t) == t.kind \in {"bits", "stack"} => t.n >= 1
AllMade(fields) == \A i \in DOMAIN fields : Made(fields[i].type)
NamesOf(decls) == [i \in DOMAIN decls |-> decls[i].name]
Repeats(names) == \E i, j \in DOMAIN names : i < j /\ names[i] = names[j]

(* make_params: names there and distinct; any direction will do.               *)
ParamsMade(params) == "" \notin Range(NamesOf(params)) /\ ~Repeats(NamesOf(params))

(* constant(): an int at the width of its type, a bool, or a literal of it.    *)
Constant(arg, t) ==
  \/ arg.kind = "int" /\ t.kind = "bits" /\ arg.n \in 0 .. 2 ^ t.n - 1
  \/ arg.kind = "bool" /\ t.kind = "boolean"
  \/ arg.kind = "literal" /\ arg.type = t
Constants(args, params) ==
  Len(args) = Len(params) /\ \A i \in DOMAIN args : Constant(args[i], params[i].type)

-----------------------------------------------------------------------------
(* A call: whether it was accepted, and the library with the declaration in it,*)
(* which is what the builder has when it was. An EdslError ends the script of  *)
(* the author; that a refused call may keep the name it took is not looked at. *)
Answer(ok, tried) == [ok |-> ok, library |-> tried]

InBlock(lib, b, f, value) == [lib EXCEPT !.blocks[b][f] = value]
Take(lib, owner, name) ==
  LET at == [lib EXCEPT !.log = Append(@, <<owner, "own", name>>)]
  IN IF owner = Nowhere THEN [at EXCEPT !.names = @ \cup {name}]
     ELSE InBlock(at, owner, "names", lib.blocks[owner].names \cup {name})

(* Fault: a block looks at its own names alone.                                *)
FreeWhereItStands(lib, owner, name) ==
  name # "" /\ name \notin IF owner = Nowhere THEN lib.names ELSE lib.blocks[owner].names
(* LibraryBuilder._declare, and Block.declare, which sees the names taken at   *)
(* program level so far.                                                       *)
Free(lib, owner, name) ==
  /\ name # ""
  /\ name \notin lib.names
  /\ owner # Nowhere => name \notin lib.blocks[owner].names

Declare(lib, owner, name, good, With(_)) ==
  Answer(Free(lib, owner, name) /\ good, With(Take(lib, owner, name)))

Add(lib, f, decl) == [lib EXCEPT ![f] = Append(@, decl)]
AddIn(lib, b, f, decl) == InBlock(lib, b, f, Append(lib.blocks[b][f], decl))

-----------------------------------------------------------------------------
(* LibraryBuilder: types, errors and externs.                                  *)
Header(lib, name, fields) ==
  Declare(lib, Nowhere, name, AllMade(fields) /\ \A i \in DOMAIN fields : fields[i].type.kind \in {"bits", "boolean"},
          LAMBDA l : Add(l, "headers", [name |-> name, fields |-> fields]))

Struct(lib, name, fields) ==
  Declare(lib, Nowhere, name, AllMade(fields),
          LAMBDA l : Add(l, "structs", [name |-> name, fields |-> fields]))

Enum(lib, name, members) ==
  Declare(lib, Nowhere, name, members # <<>> /\ ~Repeats(members),
          LAMBDA l : Add(l, "enums", [name |-> name, members |-> members]))

Error(lib, name) ==
  Answer(name # "" /\ name \notin Range(lib.errors), Add(lib, "errors", name))

ExternType(lib, name, spec) ==
  LET methods == spec.methods
  IN Declare(lib, Nowhere, name,
             /\ AllMade(spec.constructor)
             /\ \A i \in DOMAIN methods : AllMade(methods[i].params) /\ ParamsMade(methods[i].params),
             LAMBDA l : Add(l, "externs", [name |-> name, spec |-> spec]))

ExternInstance(lib, name, i, args) ==
  Declare(lib, Nowhere, name, Constants(args, lib.externs[i].spec.constructor),
          LAMBDA l : Add(l, "instances", [name |-> name, extern |-> lib.externs[i].name, args |-> args]))

-----------------------------------------------------------------------------
(* Blocks: the parameters are checked among themselves, then the name is taken.*)
NewBlock(name, kind, params) ==
  [name |-> name, kind |-> kind, params |-> params, names |-> Range(NamesOf(params)), start |-> "",
   locals |-> <<>>, states |-> <<>>, actions |-> <<>>, tables |-> <<>>, body |-> <<>>]
Block(lib, name, kind, params) ==
  Declare(lib, Nowhere, name, AllMade(params) /\ ParamsMade(params),
          LAMBDA l : Add(l, "blocks", NewBlock(name, kind, params)))

Local(lib, b, name, t) ==
  Declare(lib, b, name, Made(t), LAMBDA l : AddIn(l, b, "locals", [name |-> name, type |-> t]))

(* A second start state, as a second transition, is nothing the IR can say.    *)
NoTransition == [kind |-> "none", keys |-> 0, cases |-> <<>>]
State(lib, b, name, start) ==
  IF start /\ lib.blocks[b].start # "" THEN Answer(FALSE, lib)
  ELSE Declare(lib, b, name, TRUE,
               LAMBDA l : AddIn(IF start THEN InBlock(l, b, "start", name) ELSE l, b, "states",
                                [name |-> name, transition |-> NoTransition, body |-> <<>>]))

(* StateBody.select: every case a set per key; the default matches anything.   *)
Cases(tr) ==
  IF tr.kind = "select" /\ tr.default # ""
  THEN Append(tr.cases, [sets |-> [k \in 1 .. tr.keys |-> [kind |-> "any", a |-> 0, b |-> 0]], target |-> tr.default])
  ELSE tr.cases
Sized(tr) == \A i \in DOMAIN tr.cases : Len(tr.cases[i].sets) = tr.keys
Selects(tr) == tr.kind = "select" => tr.keys > 0 /\ Sized(tr)
Transition(lib, b, s, tr) ==
  IF lib.blocks[b].states[s].transition # NoTransition THEN Answer(FALSE, lib)
  ELSE Answer(Selects(tr) /\ \A i \in DOMAIN tr.cases : tr.cases[i].target # "",
              [lib EXCEPT !.blocks[b].states[s].transition = [kind |-> tr.kind, keys |-> tr.keys, cases |-> Cases(tr)]])

(* Control.action: the name is taken before the parameters are looked at.      *)
Action(lib, b, name, data) ==
  Declare(lib, b, name,
          /\ AllMade(data) /\ ParamsMade(data)
          /\ \A i \in DOMAIN data : data[i].name \notin lib.names \cup lib.blocks[b].names \cup {name},
          LAMBDA l : AddIn([l EXCEPT !.log = @ \o [i \in DOMAIN data |-> <<b, "data", data[i].name>>]], b, "actions",
                           [name |-> name, params |-> data, body |-> <<>>]))

Named(decls, name) == {i \in DOMAIN decls : decls[i].name = name}
Only(S) == CHOOSE x \in S : TRUE

(* Control._action_call: among the table's actions, with constants for data.   *)
ActionCall(lib, b, call, allowed) ==
  \E i \in Named(lib.blocks[b].actions, call.action) :
    call.action \in Range(allowed) /\ Constants(call.args, lib.blocks[b].actions[i].params)

EntryMade(lib, b, spec, e) ==
  /\ e.priority # 0 => \E k \in DOMAIN spec.keys : spec.keys[k].match = "ternary"
  /\ e.keys = Len(spec.keys)
  /\ \A k \in DOMAIN spec.keys : spec.keys[k].type.kind = "bits"
  /\ ActionCall(lib, b, e.call, spec.actions)

TableMade(lib, b, spec) ==
  /\ \A i \in DOMAIN spec.actions : Named(lib.blocks[b].actions, spec.actions[i]) # {}
  /\ spec.actions # <<>> /\ ~Repeats(spec.actions)
  /\ \A i \in DOMAIN spec.default : ActionCall(lib, b, spec.default[i], spec.actions)
  /\ spec.const_default => spec.default # <<>>
  /\ \A i \in DOMAIN spec.entries : EntryMade(lib, b, spec, spec.entries[i])

Table(lib, b, name, spec) ==
  Declare(lib, b, name, TableMade(lib, b, spec), LAMBDA l : AddIn(l, b, "tables", [name |-> name, spec |-> spec]))

(* Statements that name a declaration: in a body, in an action, in a state.    *)
CalleeParams(lib, b, call) ==
  CASE call.kind = "action" -> {lib.blocks[b].actions[i].params : i \in Named(lib.blocks[b].actions, call.target)}
    [] call.kind = "block" -> {lib.blocks[i].params : i \in Named(lib.blocks, call.target)}
    [] call.kind = "apply" -> {<<>> : i \in Named(lib.blocks[b].tables, call.target)}
    [] OTHER -> UNION {{m.params : m \in {n \in Range(lib.externs[i].spec.methods) : n.name = call.method}} :
                         i \in UNION {Named(lib.externs, lib.instances[k].extern) : k \in Named(lib.instances, call.target)}}
Returns(lib, call) ==
  \E k \in Named(lib.instances, call.target) : \E i \in Named(lib.externs, lib.instances[k].extern) :
    \E m \in Range(lib.externs[i].spec.methods) : m.name = call.method /\ m.returns
CallMade(lib, b, call) ==
  /\ \E params \in CalleeParams(lib, b, call) : Len(params) = call.args
  /\ call.kind = "extern" /\ call.result => Returns(lib, call)
(* StateBody, ActionBody, ControlBody, DeparserBody: a table is applied by the *)
(* control's own body alone, an action called by that and by actions.          *)
Offered(block, within) ==
  {"block", "extern"} \cup (IF block.kind = "control" THEN {"action"} ELSE {})
    \cup IF block.kind = "control" /\ within = Body THEN {"apply"} ELSE {}
Record(lib, b, within, call) ==
  LET f == IF lib.blocks[b].kind = "parser" THEN "states" ELSE "actions"
      i == Only(Named(lib.blocks[b][f], within))
  IN Answer(call.kind \in Offered(lib.blocks[b], within) /\ CallMade(lib, b, call),
            IF within = Body THEN AddIn(lib, b, "body", call) ELSE [lib EXCEPT !.blocks[b][f][i].body = Append(@, call)])

-----------------------------------------------------------------------------
(* A block class: its members are replayed into the core in the order the IR   *)
(* wants, whatever their order in the class.                                   *)
Matched(set) ==
  CASE set.kind = "exact" -> {set.a}
    [] set.kind = "masked" -> {v \in 0 .. KeyMax : v & set.b = set.a & set.b}
    [] set.kind = "range" -> set.a .. set.b
    [] OTHER -> 0 .. KeyMax

(* Parser.select: no case after one that matches anything, and none twice.     *)
Reachable(tr) ==
  \A i \in 2 .. Len(tr.cases) :
    /\ \E k \in DOMAIN tr.cases[i - 1].sets : tr.cases[i - 1].sets[k].kind # "any"
    /\ \A j \in 1 .. i - 1 : tr.cases[j].sets # tr.cases[i].sets

Each(answer, S, Do(_, _)) == FoldLeft(LAMBDA a, x : IF a.ok THEN Do(a.library, x) ELSE a, answer, S)
Then(answer, Do(_)) == IF answer.ok THEN Do(answer.library) ELSE answer
Recorded(answer, b, within, calls_) == Each(answer, calls_, LAMBDA l, c : Record(l, b, within, c))

(* The state started with is the one marked, or else the first.                *)
Explicit(class) == \E i \in DOMAIN class.states : class.states[i].start
Starting(class, st) == st.start \/ (~Explicit(class) /\ st = class.states[1])
ParserRun(answer, b, class) ==
  IF class.states = <<>> THEN Answer(FALSE, answer.library)
  ELSE Each(answer, class.states, LAMBDA l, st :
         Then(Recorded(State(l, b, st.name, Starting(class, st)), b, st.name, st.body), LAMBDA m :
           IF /\ st.transition.kind = "select" => Selects(st.transition) /\ Reachable(st.transition)
              /\ \A c \in Range(Cases(st.transition)) : c.target \in Range(NamesOf(class.states)) \cup {"!accept", "!reject"}
           THEN Transition(m, b, Len(m.blocks[b].states), st.transition)
           ELSE Answer(FALSE, m)))

(* Fault: an action's body runs when the action is declared.                   *)
ControlRunInOrder(answer, b, class) ==
  LET actions == Each(answer, class.actions, LAMBDA l, a : Recorded(Action(l, b, a.name, a.data), b, a.name, a.body))
      tables == Each(actions, class.tables, LAMBDA l, t : Table(l, b, t.name, t.spec))
  IN Recorded(tables, b, Body, class.body)
(* Every action is declared before the body of any runs; then the tables; then *)
(* apply().                                                                    *)
ControlRun(answer, b, class) ==
  LET declared == Each(answer, class.actions, LAMBDA l, a : Action(l, b, a.name, a.data))
      bodies == Each(declared, class.actions, LAMBDA l, a : Recorded(Answer(TRUE, l), b, a.name, a.body))
      tables == Each(bodies, class.tables, LAMBDA l, t : Table(l, b, t.name, t.spec))
  IN Recorded(tables, b, Body, class.body)

RightMembers(class) ==
  /\ class.states # <<>> => class.kind = "parser"
  /\ class.actions \o class.tables # <<>> => class.kind = "control"

(* The block the class stands for, whatever the builder says of it.            *)
Meant(class) ==
  LET starts == SelectSeq(class.states, LAMBDA st : Starting(class, st))
  IN [NewBlock(class.name, class.kind, class.params) EXCEPT
        !.start = IF starts = <<>> THEN "" ELSE starts[1].name, !.locals = class.locals, !.tables = class.tables,
        !.states = [i \in DOMAIN class.states |->
                      [name |-> class.states[i].name, body |-> class.states[i].body,
                       transition |-> [kind |-> class.states[i].transition.kind, keys |-> class.states[i].transition.keys,
                                       cases |-> Cases(class.states[i].transition)]]],
        !.actions = [i \in DOMAIN class.actions |->
                       [name |-> class.actions[i].name, params |-> class.actions[i].data, body |-> class.actions[i].body]],
        !.body = class.body]
Sayable(class) == Cardinality({i \in DOMAIN class.states : class.states[i].start}) < 2

Assemble(lib, class) ==
  LET b == Len(lib.blocks) + 1
      block == Block(lib, class.name, class.kind, class.params)
      locals == Each(block, class.locals, LAMBDA l, v : Local(l, b, v.name, v.type))
      run == IF ~locals.ok THEN locals
             ELSE CASE class.kind = "parser" -> ParserRun(locals, b, class)
                    [] class.kind = "control" -> ControlRun(locals, b, class)
                    [] OTHER -> Recorded(locals, b, Body, class.body)
      tried == IF Sayable(class) THEN Add(lib, "blocks", Meant(class)) ELSE lib
  IN IF run.ok /\ RightMembers(class) THEN run ELSE Answer(FALSE, tried)

-----------------------------------------------------------------------------
(* build_library: a parser needs a start state, every state a transition, and  *)
(* every transition a state of the parser.                                     *)
StartOf(block) ==
  IF block.start # "" THEN block.start ELSE IF "start" \in Range(NamesOf(block.states)) THEN "start" ELSE ""
Targets(st) == {c.target : c \in Range(st.transition.cases)} \ {"!accept", "!reject"}
Buildable(lib) ==
  \A block \in Range(lib.blocks) : block.kind = "parser" =>
    /\ StartOf(block) # ""
    /\ \A st \in Range(block.states) :
         st.transition # NoTransition /\ Targets(st) \subseteq Range(NamesOf(block.states))

-----------------------------------------------------------------------------
(* What the validator reports: a code and a place.                             *)
Report(code, b, part, i, name) == [code |-> code, block |-> b, part |-> part, at |-> i, name |-> name, of |-> ""]
When(condition, report) == IF condition THEN {report} ELSE {}

(* Index.build: one namespace for the program, one for each block beside it.   *)
Top(lib) ==
  NamesOf(lib.headers) \o NamesOf(lib.structs) \o NamesOf(lib.enums) \o NamesOf(lib.externs)
    \o NamesOf(lib.instances) \o NamesOf(lib.blocks)
Vars(block) == NamesOf(block.params) \o NamesOf(block.locals)
Own(block) == Vars(block) \o NamesOf(block.actions) \o NamesOf(block.tables) \o NamesOf(block.states)
Clashes(names) == {names[i] : i \in {j \in DOMAIN names : names[j] = "" \/ \E k \in 1 .. j - 1 : names[k] = names[j]}}

ActionNames(lib, b, a) ==
  LET block == lib.blocks[b]
  IN Range(Top(lib)) \cup Range(Vars(block)) \cup {block.actions[k].name : k \in 1 .. a}
IndexReports(lib) ==
  {Report("NAME", Nowhere, "program", 0, n) : n \in Clashes(Top(lib))}
    \cup {Report("NAME", Nowhere, "error", 0, n) : n \in Clashes(lib.errors)}
    \cup UNION {{Report("NAME", b, "block", 0, n) : n \in Clashes(Own(lib.blocks[b]))}
                  \cup {Report("NAME", b, "shadow", 0, n) : n \in Range(Own(lib.blocks[b])) \cap Range(Top(lib))}
                  \cup UNION {{Report("NAME", b, "data", a, n) :
                                 n \in Clashes(NamesOf(lib.blocks[b].actions[a].params))
                                       \cup (Range(NamesOf(lib.blocks[b].actions[a].params)) \cap ActionNames(lib, b, a))} :
                              a \in DOMAIN lib.blocks[b].actions} :
                b \in DOMAIN lib.blocks}

(* resolve, resolve_local: the code of a reference that is not in its table.   *)
Resolve(lib, n, table) ==
  IF n \in Range(NamesOf(table)) THEN {} ELSE IF n \in Range(Top(lib)) THEN {"REF_KIND"} ELSE {"REF_UNRESOLVED"}
ResolveLocal(lib, b, n, f) ==
  LET block == lib.blocks[b]
  IN CASE n \in Range(NamesOf(block[f])) -> {}
       [] n # "" /\ n \in Range(Own(block)) \cup Range(Top(lib)) -> {"REF_KIND"}
       [] n # "" /\ \E other \in Range(lib.blocks) : n \in Range(NamesOf(other[f])) -> {"SCOPE_DECL"}
       [] OTHER -> {"REF_UNRESOLVED"}

(* check_type, check_params, check_literal_args.                               *)
TypeCodes(lib, t) ==
  CASE t.kind = "bits" -> IF t.n >= 1 THEN {} ELSE {"TYPE_INVALID"}
    [] t.kind \in {"boolean", "error"} -> {}
    [] t.kind = "struct" -> Resolve(lib, t.name, lib.structs)
    [] t.kind = "enum" -> Resolve(lib, t.name, lib.enums)
    [] OTHER -> Resolve(lib, t.name, lib.headers) \cup IF t.kind = "stack" /\ t.n < 1 THEN {"TYPE_INVALID"} ELSE {}
TypeReports(lib, decls, b, part) ==
  UNION {{[Report(c, b, part, i, decls[i].name) EXCEPT !.of = "type"] : c \in TypeCodes(lib, decls[i].type)} : i \in DOMAIN decls}
NameReports(names, b, part, k) == {Report("NAME_DUPLICATE", b, part, k, n) : n \in Clashes(names)}
ParamReports(lib, params, allowed, b, part) ==
  TypeReports(lib, params, b, part)
    \cup {Report("PARAM_DIRECTION", b, part, i, params[i].name) : i \in {k \in DOMAIN params : params[k].direction \notin allowed}}
LiteralReports(lib, args, params, code, b, part, k) ==
  IF Len(args) # Len(params) THEN {Report(code, b, part, k, "count")}
  ELSE {Report(code, b, part, k, params[i].name) :
          i \in {j \in DOMAIN params : TypeCodes(lib, params[j].type) = {} /\ ~Constant(args[j], params[j].type)}}

Directed == {"in", "out", "inout"}
DeclarationReports(lib) ==
  UNION {NameReports(NamesOf(lib.headers[i].fields), Nowhere, "header", i) \cup TypeReports(lib, lib.headers[i].fields, Nowhere, "header")
           \cup {Report("TYPE_INVALID", Nowhere, "header", i, f.name) :
                   f \in {g \in Range(lib.headers[i].fields) : TypeCodes(lib, g.type) = {} /\ g.type.kind \notin {"bits", "boolean"}}} :
         i \in DOMAIN lib.headers}
    \cup UNION {NameReports(NamesOf(lib.structs[i].fields), Nowhere, "struct", i) \cup TypeReports(lib, lib.structs[i].fields, Nowhere, "struct") :
                i \in DOMAIN lib.structs}
    \cup UNION {NameReports(lib.enums[i].members, Nowhere, "enum", i)
                  \cup When(lib.enums[i].members = <<>>, Report("TYPE_INVALID", Nowhere, "enum", i, "")) : i \in DOMAIN lib.enums}
ExternReports(lib) ==
  UNION {LET spec == lib.externs[i].spec
         IN NameReports(NamesOf(spec.constructor), Nowhere, "constructor", i)
              \cup TypeReports(lib, spec.constructor, Nowhere, "constructor")
              \cup NameReports(NamesOf(spec.methods), Nowhere, "methods", i)
              \cup UNION {NameReports(NamesOf(m.params), Nowhere, m.name, i) \cup ParamReports(lib, m.params, Directed, Nowhere, m.name) :
                          m \in Range(spec.methods)} :
         i \in DOMAIN lib.externs}
    \cup UNION {LET found == Named(lib.externs, lib.instances[k].extern)
                IN {Report(c, Nowhere, "instance", k, "") : c \in Resolve(lib, lib.instances[k].extern, lib.externs)}
                     \cup UNION {LiteralReports(lib, lib.instances[k].args, lib.externs[i].spec.constructor, "EXTERN_ARGS", Nowhere, "instance", k) :
                                 i \in found} :
                k \in DOMAIN lib.instances}

(* check_action_call, check_entry, check_keys, check_table.                    *)
ActionCallReports(lib, b, call, spec, part, k) ==
  LET found == Named(lib.blocks[b].actions, call.action)
  IN {Report(c, b, part, k, call.action) : c \in ResolveLocal(lib, b, call.action, "actions")}
       \cup When(found # {} /\ call.action \notin Range(spec.actions), Report("TABLE_ACTIONS", b, part, k, call.action))
       \cup UNION {LiteralReports(lib, call.args, lib.blocks[b].actions[i].params, "ACTION_ARGS", b, part, k) : i \in found}
TableReports(lib, b, t) ==
  LET spec == t.spec
      match == [i \in DOMAIN spec.keys |-> spec.keys[i].match]
      named == SelectSeq(NamesOf(spec.keys), LAMBDA n : n # "")
      lpms == {i \in DOMAIN match : match[i] = "lpm"}
      ternary == \E i \in DOMAIN match : match[i] = "ternary"
  IN {Report("KEY_NAME", b, t.name, 0, n) : n \in Clashes(named)}
       \cup {Report("KEY_TYPE", b, t.name, i, "") : i \in {k \in DOMAIN spec.keys : spec.keys[k].type.kind # "bits"}}
       \cup When(Cardinality(lpms) > 1, Report("TABLE_LPM_COUNT", b, t.name, 0, ""))
       \cup When(lpms # {} /\ ternary, Report("TABLE_KEY_MIX", b, t.name, 0, ""))
       \cup When(spec.actions = <<>>, Report("TABLE_ACTIONS", b, t.name, 0, ""))
       \cup {Report("TABLE_ACTIONS", b, t.name, 1, n) : n \in Clashes(spec.actions)}
       \cup UNION {{Report(c, b, t.name, i, spec.actions[i]) : c \in ResolveLocal(lib, b, spec.actions[i], "actions")} :
                   i \in DOMAIN spec.actions}
       \cup UNION {ActionCallReports(lib, b, spec.default[i], spec, t.name, 0) : i \in DOMAIN spec.default}
       \cup UNION {ActionCallReports(lib, b, spec.entries[i].call, spec, t.name, i)
                     \cup When(~ternary /\ spec.entries[i].priority # 0, Report("ENTRY_PRIORITY", b, t.name, i, ""))
                     \cup When(spec.entries[i].keys # Len(spec.keys), Report("ENTRY_SHAPE", b, t.name, i, "")) :
                   i \in DOMAIN spec.entries}

(* Whether a statement may stand here: check_stmt asks for the kind of block,  *)
(* check_apply and check_call_block for an action.                             *)
StmtsByKind(kind) == {"block", "extern"} \cup IF kind = "control" THEN {"action", "apply"} ELSE {}
Misplaced(b, within, call) == [Report("BLOCK_KIND_STMT", b, within, 0, call.target) EXCEPT !.of = call.kind]
IsAction(lib, b, within) == within \in Range(NamesOf(lib.blocks[b].actions))

ApplyReports(lib, b, within, call) ==
  IF IsAction(lib, b, within) THEN {Misplaced(b, within, call)}
  ELSE {Report(c, b, within, 0, call.target) : c \in ResolveLocal(lib, b, call.target, "tables")}

(* check_call_action, check_call_block, check_call_extern: the names and the   *)
(* arguments' number.                                                          *)
CallReports(lib, b, within, call) ==
  LET block == lib.blocks[b]
      R(code) == Report(code, b, within, 0, call.target)
      counted == When(CalleeParams(lib, b, call) # {} /\ ~\E ps \in CalleeParams(lib, b, call) : Len(ps) = call.args, R("ARG_COUNT"))
  IN CASE call.kind = "action" -> {R(c) : c \in ResolveLocal(lib, b, call.target, "actions")} \cup counted
       [] call.kind = "apply" -> ApplyReports(lib, b, within, call)
       [] call.kind = "block" /\ IsAction(lib, b, within) -> {Misplaced(b, within, call)}
       [] call.kind = "block" /\ ~IsAction(lib, b, within) -> {R(c) : c \in Resolve(lib, call.target, lib.blocks)} \cup counted
            \cup {R("CALL_KIND") : i \in {k \in Named(lib.blocks, call.target) : lib.blocks[k].kind # block.kind}}
       [] call.kind = "extern" -> {R(c) : c \in Resolve(lib, call.target, lib.instances)} \cup counted
            \cup When(CalleeParams(lib, b, call) = {} /\ Named(lib.instances, call.target) # {}, R("REF_UNRESOLVED"))
            \cup When(CalleeParams(lib, b, call) # {} /\ Returns(lib, call) # call.result, R("EXTERN_RESULT"))
BodyReports(lib, b, within, body) ==
  UNION {IF body[i].kind \in StmtsByKind(lib.blocks[b].kind) THEN CallReports(lib, b, within, body[i])
         ELSE {Misplaced(b, within, body[i])} : i \in DOMAIN body}

(* check_state, check_target, check_select.                                    *)
StateReports(lib, b, st) ==
  LET tr == st.transition
  IN When(tr = NoTransition, Report("PARSER_TRANSITION", b, st.name, 0, ""))
       \cup When(tr.kind = "select" /\ tr.keys = 0, Report("SELECT_ARITY", b, st.name, 0, ""))
       \cup {Report("SELECT_ARITY", b, st.name, i, "") : i \in {k \in DOMAIN tr.cases : tr.kind = "select" /\ Len(tr.cases[k].sets) # tr.keys}}
       \cup UNION {{Report(c, b, st.name, 0, n) : c \in ResolveLocal(lib, b, n, "states")} : n \in Targets(st)}
       \cup BodyReports(lib, b, st.name, st.body)

(* check_block, check_action: the shape of the block's kind, then its parts.   *)
ActionReports(lib, b, a) ==
  When(a.name = "NoAction" /\ a.body \o a.params # <<>>, Report("NOACTION_RESERVED", b, a.name, 0, ""))
    \cup ParamReports(lib, a.params, Directed \cup {"none"}, b, a.name) \cup BodyReports(lib, b, a.name, a.body)
BlockReports(lib, b) ==
  LET block == lib.blocks[b]
      Shape(part, wrong) == When(wrong, Report("BLOCK_KIND_SHAPE", b, part, 0, ""))
      parser == block.kind = "parser"
  IN ParamReports(lib, block.params, Directed, b, "params") \cup TypeReports(lib, block.locals, b, "locals")
       \cup Shape("states", parser = (block.states = <<>>)) \cup Shape("body", parser /\ block.body # <<>>)
       \cup Shape("actions", parser /\ block.actions # <<>>) \cup Shape("tables", parser /\ block.tables # <<>>)
       \cup Shape("start", ~parser /\ block.start # "")
       \cup When(parser /\ block.states # <<>> /\ StartOf(block) \notin Range(NamesOf(block.states)),
                 Report("PARSER_START_STATE", b, "start", 0, ""))
       \cup UNION {ActionReports(lib, b, a) : a \in Range(block.actions)}
       \cup UNION {TableReports(lib, b, t) : t \in Range(block.tables)}
       \cup UNION {StateReports(lib, b, st) : st \in Range(block.states)}
       \cup BodyReports(lib, b, Body, block.body)

(* A name taken twice ends it: there is no index to check the rest against.    *)
Reports(lib) ==
  IF IndexReports(lib) # {} THEN IndexReports(lib)
  ELSE DeclarationReports(lib) \cup ExternReports(lib) \cup UNION {BlockReports(lib, b) : b \in DOMAIN lib.blocks}

-----------------------------------------------------------------------------
(* The author: one call after another, on what the earlier ones left.          *)
Empty ==
  [names |-> {}, headers |-> <<>>, structs |-> <<>>, enums |-> <<>>, errors |-> <<"NoError">>, externs |-> <<>>,
   instances |-> <<>>, blocks |-> <<>>, log |-> <<>>]

Init ==
  /\ script \in Scripts
  /\ built = Empty
  /\ last = Answer(TRUE, built)

Make(answer) ==
  /\ built' = IF answer.ok THEN answer.library ELSE built
  /\ last' = answer
  /\ script' = Tail(script)

Now(operation) == last.ok /\ script # <<>> /\ Head(script) = operation
InBlocks(kind) == {b \in DOMAIN built.blocks : built.blocks[b].kind = kind}

DeclareHeader == Now("header") /\ \E n \in Names, fs \in FieldLists : Make(Header(built, n, fs))
DeclareStruct == Now("struct") /\ \E n \in Names, fs \in FieldLists : Make(Struct(built, n, fs))
DeclareEnum == Now("enum") /\ \E n \in Names, ms \in MemberLists : Make(Enum(built, n, ms))
DeclareError == Now("error") /\ \E n \in Names : Make(Error(built, n))
DeclareExternType == Now("extern") /\ \E n \in Names, spec \in ExternSpecs : Make(ExternType(built, n, spec))
DeclareInstance ==
  Now("instance") /\ \E n \in Names, args \in ArgLists, i \in DOMAIN built.externs : Make(ExternInstance(built, n, i, args))
AddBlock ==
  Now("block") /\ \E n \in Names, ps \in ParamLists, kind \in {"parser", "control"} : Make(Block(built, n, kind, ps))
DeclareLocal ==
  Now("local") /\ \E b \in DOMAIN built.blocks, n \in Names, fs \in FieldLists :
       fs # <<>> /\ Make(Local(built, b, n, fs[1].type))
DeclareState ==
  Now("state") /\ \E b \in InBlocks("parser"), n \in Names, start \in BOOLEAN : Make(State(built, b, n, start))
SetTransition ==
  Now("transition") /\ \E b \in InBlocks("parser"), tr \in Transitions :
       \E s \in DOMAIN built.blocks[b].states : Make(Transition(built, b, s, tr))
DeclareAction ==
  Now("action") /\ \E b \in InBlocks("control"), n \in Names, data \in FieldLists :
    Make(Action(built, b, n, [i \in DOMAIN data |-> [name |-> data[i].name, direction |-> "none", type |-> data[i].type]]))
DeclareTable ==
  Now("table") /\ \E b \in InBlocks("control"), n \in Names, spec \in TableSpecs : Make(Table(built, b, n, spec))
Write ==
  Now("write") /\ \E b \in InBlocks("control"), call \in Statements :
       \E within \in {Body} \cup Range(NamesOf(built.blocks[b].actions)) : Make(Record(built, b, within, call))
AssembleClass == Now("class") /\ \E class \in Classes : Make(Assemble(built, class))

Next ==
  \/ DeclareHeader \/ DeclareStruct \/ DeclareEnum \/ DeclareError
  \/ DeclareExternType \/ DeclareInstance
  \/ AddBlock \/ DeclareLocal
  \/ DeclareState \/ SetTransition
  \/ DeclareAction \/ DeclareTable \/ Write
  \/ AssembleClass

Spec == Init /\ [][Next]_vars

-----------------------------------------------------------------------------
(* What the eDSL leaves to the validator: references to types and the order in *)
(* which a name was taken at program level and in a block, a parameter's       *)
(* direction, and what only another declaration makes wrong.                   *)
Before(first, second) ==
  \E i, j \in DOMAIN built.log : i < j /\ built.log[i] = first /\ built.log[j] \in second
TakenLater(r) ==
  \/ r.part = "shadow" /\ \/ r.name \in Range(NamesOf(built.blocks[r.block].params))
                          \/ Before(<<r.block, "own", r.name>>, {<<Nowhere, "own", r.name>>})
  \/ r.part = "data" /\ Before(<<r.block, "data", r.name>>, {<<r.block, "own", r.name>>, <<Nowhere, "own", r.name>>})
InAction(r) == r.block # Nowhere /\ r.part \in Range(NamesOf(built.blocks[r.block].actions))
NoEntries(r) == \A t \in Range(built.blocks[r.block].tables) : t.name = r.part => t.spec.entries = <<>>
LeftToTheValidator(r) ==
  \/ r.of = "type"
  \/ r.code = "PARAM_DIRECTION" /\ ~InAction(r)
  \/ r.code = "NAME" /\ TakenLater(r)
  \/ r.code = "NAME_DUPLICATE" /\ (r.part \in {"constructor", "methods"} \/ r.name = "")
  \/ r.code = "KEY_TYPE" /\ NoEntries(r)
  \/ r.code = "BLOCK_KIND_STMT" /\ r.of = "block"
  \/ r.code \in {"CALL_KIND", "EXTERN_RESULT", "NOACTION_RESERVED",
                 "KEY_NAME", "TABLE_LPM_COUNT", "TABLE_KEY_MIX"}

(* A library the eDSL builds is reported for nothing the eDSL checks: two sets *)
(* of rules, one over the calls and one over the IR, agree (core/library.py,   *)
(* core/blocks.py; ir.py, validator/).                                         *)
BuiltIsDeclaredRight == last.ok /\ Buildable(built) => \A r \in Reports(built) : LeftToTheValidator(r)

(* Where the eDSL is stricter than the validator: what the IR has no words     *)
(* for; a constant default without a default; action data named like a table;  *)
(* a case no key can reach; a deparser's actions and tables; constants for     *)
(* parameters whose type is reported already; and whatever follows a name taken *)
(* twice.                                                                      *)
Dead(tr) ==
  \E i \in DOMAIN tr.cases :
    \A key \in [1 .. tr.keys -> 0 .. KeyMax] :
      LET Takes(c) == \A k \in 1 .. tr.keys : key[k] \in Matched(c.sets[k])
      IN Takes(tr.cases[i]) => \E j \in 1 .. i - 1 : Takes(tr.cases[j])
Tables == UNION {Range(block.tables) : block \in Range(last.library.blocks)}
Filled ==
  {a.params : a \in UNION {Range(block.actions) : block \in {b \in Range(last.library.blocks) : b.tables # <<>>}}}
    \cup {x.spec.constructor : x \in {e \in Range(last.library.externs) : last.library.instances # <<>>}}
Stricter ==
  \/ last.library = built \/ IndexReports(built) # {}
  \/ \E t \in Tables : t.spec.const_default /\ t.spec.default = <<>>
  \/ \E block \in Range(last.library.blocks) : \E a \in Range(block.actions) :
       Range(NamesOf(a.params)) \cap Range(NamesOf(block.tables)) # {}
  \/ \E block \in Range(last.library.blocks) : \E st \in Range(block.states) : Sized(st.transition) /\ Dead(st.transition)
  \/ \E block \in Range(last.library.blocks) : block.kind = "deparser" /\ block.actions \o block.tables # <<>>
  \/ \E params \in Filled : \E i \in DOMAIN params : TypeCodes(last.library, params[i].type) # {}

(* A declaration the eDSL refuses is one the validator would report: an author *)
(* is kept from nothing that is valid, whatever the order of the members of a  *)
(* class (core/library.py, core/blocks.py, edsl/blocks.py).                    *)
RefusedForCause ==
  /\ ~last.ok => Stricter \/ Reports(last.library) \ Reports(built) # {}
  /\ ~Buildable(built) => Reports(built) # {}
=============================================================================
