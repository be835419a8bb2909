------------------------------- MODULE Profile -------------------------------
(* The access check of a v1model stage (check_profile, _check_block) against   *)
(* what the interpreter then does with standard metadata, for a stage, the     *)
(* sub-blocks it calls and the actions of each.  A value is reduced to where   *)
(* it came from; a variable is a bit string or a metadata struct M.            *)
EXTENDS Integers, Sequences

CONSTANTS
  Roles,       \* the stages to check
  MetaFields,  \* the fields of M
  Names,       \* names of variables
  Programs     \* per role, a stage's programs: its blocks and actions by name

StageRoles == {"parser", "verify_checksum", "ingress", "egress", "compute_checksum", "deparser"}
Protected == MetaFields \cap {"ingress_port", "parser_error", "egress_spec", "egress_port"}
None == <<"none">>       \* no access path
Literal == <<>>          \* a value that reads no variable
NoAction == "none"       \* a table without an action to run

(* READABLE                                                                    *)
Readable(role) ==
  CASE role = "parser" -> {"ingress_port"}
    [] role \in {"verify_checksum", "deparser"} -> {}
    [] role = "ingress" -> {"ingress_port", "parser_error", "egress_spec"}
    [] role \in {"egress", "compute_checksum"} ->
         {"ingress_port", "parser_error", "egress_spec", "egress_port"}
MayWrite(role, path) == path = <<"egress_spec">> /\ role \in {"ingress", "egress"}

-----------------------------------------------------------------------------
(* Well-typed programs.  An access path is a variable, or a field of one of    *)
(* type M; in an action its parameter hides a variable of its block.           *)
Types(p, n) ==
  LET own == p[n].vars
      blocks == p[p[n].of].vars
  IN [v \in DOMAIN own \cup DOMAIN blocks |-> IF v \in DOMAIN own THEN own[v] ELSE blocks[v]]
Typed(types, t) ==
  {<<v>> : v \in {w \in DOMAIN types : types[w] = t}} \cup
  {<<v, f>> : v \in {w \in DOMAIN types : types[w] = "M" /\ t = "bit"}, f \in MetaFields}
Values(types, t) == Typed(types, t) \cup (IF t = "bit" THEN {Literal} ELSE {})

(* put, get, update and result are an extern's in, out and inout argument and  *)
(* its result.  A branch is an if, or a parser's transition, to a place of the *)
(* body; verify stands for what may raise in a parser.                         *)
IsStmt(p, n, s) ==
  LET types == Types(p, n) IN
  \/ /\ s.op = "assign"
     /\ \E t \in {"bit", "M"} : s.target \in Typed(types, t) /\ s.value \in Values(types, t)
  \/ s.op = "put" /\ s.value \in Values(types, "bit")
  \/ s.op = "branch" /\ s.value \in Values(types, "bit") /\ s.to \subseteq Nat \ {0}
  \/ s.op = "verify" /\ s.value \in Values(types, "bit") /\ p[n].kind = "block"
  \/ s.op \in {"get", "update", "result"} /\ s.target \in Typed(types, "bit")
  \/ /\ s.op = "apply" /\ p[n].kind = "block" /\ s.value \in Values(types, "bit")
     /\ s.target \in Typed(types, "bit") \cup {None}
     /\ s.callee # NoAction =>
          /\ s.callee \in DOMAIN p /\ p[s.callee].kind = "action" /\ p[s.callee].of = n
          /\ p[s.callee].dir = "data" /\ p[s.callee].vars[p[s.callee].param] = "bit"
  \/ /\ s.op = "call" /\ s.callee \in DOMAIN p \ {"stage"}
     /\ LET c == p[s.callee] IN
        /\ IF c.kind = "action" THEN c.of = p[n].of ELSE p[n].kind = "block"
        /\ s.value \in IF c.dir \in {"in", "data"} THEN Values(types, c.vars[c.param])
                       ELSE Typed(types, c.vars[c.param])

(* A block has a parameter and locals, an action a parameter.                  *)
IsProgram(p) ==
  /\ "stage" \in DOMAIN p /\ p["stage"].kind = "block" /\ p["stage"].vars[p["stage"].param] = "M"
  /\ \A n \in DOMAIN p :
       LET c == p[n] IN
       /\ c.kind \in {"block", "action"} /\ c.of \in DOMAIN p /\ p[c.of].kind = "block"
       /\ c.kind = "block" => c.of = n
       /\ c.vars \in [DOMAIN c.vars -> {"bit", "M"}] /\ DOMAIN c.vars \subseteq Names
       /\ c.param \in DOMAIN c.vars /\ (c.kind = "action" => DOMAIN c.vars = {c.param})
       /\ c.dir \in {"in", "out", "inout", "data"}
       /\ LET statements == {c.body[i] : i \in DOMAIN c.body}
          IN c.body \in Seq(statements) /\ \A s \in statements : IsStmt(p, n, s)
ASSUME ProfileAssumption ==
  /\ Roles \subseteq StageRoles /\ {"none", "bit"} \cap MetaFields = {} /\ "none" \notin Names
  /\ \A r \in Roles : \A p \in Programs[r] : IsProgram(p)

VARIABLES
  role,    \* the stage being checked
  procs,   \* its program
  stack,   \* the activations, the stage first
  stores,  \* the variables of each
  given    \* what externs, tables and conditions have been given

profileVars == <<role, procs, stack, stores, given>>

-----------------------------------------------------------------------------
(* check_profile.  A scope says which path of the metadata a name stands for.  *)
Scopes == [Names -> {None} \cup Seq(MetaFields)]
Checks == (DOMAIN procs) \X Scopes
NoScope == [v \in Names |-> None]

Alias(path, scope) ==
  IF path \in {None, Literal} THEN None
  ELSE IF scope[path[1]] = None THEN None ELSE scope[path[1]] \o Tail(path)

Written(path) ==
  path # None /\ Protected # {} =>
    path # <<>> /\ (path[1] \in Protected => MayWrite(role, path))

Reads(value, scope) ==
  LET path == Alias(value, scope) IN
  path # None => (IF path = <<>> THEN Protected ELSE {path[1]} \cap Protected) \subseteq Readable(role)

(* Fault: the alias of an argument for in is not followed.                     *)
WithoutIn(scope, c, path) ==
  IF c.dir = "in" THEN [scope EXCEPT ![c.param] = None] ELSE [scope EXCEPT ![c.param] = path]

With(scope, c, path) == [scope EXCEPT ![c.param] = path]

Reading == {"assign", "apply", "put", "branch", "verify"}
Targeting == {"assign", "apply", "get", "update", "result"}

StmtOk(ok, s, scope) ==
  /\ s.op \in Reading => Reads(s.value, scope)
  /\ s.op \in Targeting => Written(Alias(s.target, scope))
  /\ s.op = "call" =>
       LET c == procs[s.callee]
           path == Alias(s.value, scope)
           base == IF c.kind = "block" THEN NoScope ELSE scope
       IN (c.dir = "out" => Written(path)) /\ ok[<<s.callee, With(base, c, path)>>]

(* _check_block: the body, and each action on its own: a table may select it.  *)
(* A recursive call, which the code refuses, is as good as what it leads to.   *)
ProcOk(ok, n, scope) ==
  /\ \A i \in DOMAIN procs[n].body : StmtOk(ok, procs[n].body[i], scope)
  /\ procs[n].kind = "block" =>
       \A a \in DOMAIN procs : procs[a].kind = "action" /\ procs[a].of = n =>
         ok[<<a, With(scope, procs[a], None)>>]
Checked[x \in Checks] == ProcOk(Checked, x[1], x[2])
Accepted == Checked[<<"stage", With(NoScope, procs["stage"], <<>>)>>]

-----------------------------------------------------------------------------
Elsewhere == "elsewhere"
Bit(origin) == [bit |-> origin]
Zero(type) == IF type = "bit" THEN Bit(Elsewhere) ELSE [f \in MetaFields |-> Elsewhere]
Metadata == [f \in MetaFields |-> IF f \in Protected THEN f ELSE Elsewhere]
Store(n, initial) ==
  [v \in DOMAIN procs[n].vars |-> IF v = procs[n].param THEN initial ELSE Zero(procs[n].vars[v])]

(* dest is written when the activation ends: by the parameter, or by a hit.    *)
Frame(n, home, dest, hit) ==
  [proc |-> n, todo |-> procs[n].body, home |-> home, dest |-> dest, hit |-> hit]

ProfileInit ==
  /\ role \in Roles /\ procs \in Programs[role] /\ Accepted
  /\ stack = <<Frame("stage", 1, None, FALSE)>>
  /\ stores = <<Store("stage", Metadata)>> /\ given = {}

(* The interpreter.  An action sees its parameter over its block's variables.  *)
Home(k, v) == IF v \in DOMAIN stores[k] THEN k ELSE stack[k].home
Read(path) ==
  IF path = Literal THEN Bit(Elsewhere)
  ELSE LET val == stores[Home(Len(stack), path[1])][path[1]] IN
       IF Len(path) = 2 THEN Bit(val[path[2]]) ELSE val
Changed(val, path, new) == IF Len(path) = 2 THEN [val EXCEPT ![path[2]] = new.bit] ELSE new
Write(k, path, new) ==
  IF path = None THEN stores
  ELSE LET v == path[1]
           h == Home(k, v)
       IN [stores EXCEPT ![h][v] = Changed(stores[h][v], path, new)]

Top == stack[Len(stack)]
At(kinds) == Top.todo # <<>> /\ Head(Top.todo).op \in kinds
Now == Head(Top.todo)
Left(todo) == [stack EXCEPT ![Len(stack)] = [@ EXCEPT !.todo = todo]]

Assign ==
  /\ At({"assign"}) /\ stack' = Left(Tail(Top.todo))
  /\ stores' = Write(Len(stack), Now.target, Read(Now.value))
  /\ UNCHANGED <<role, procs, given>>

Branch ==
  /\ At({"branch"}) /\ given' = given \cup {Read(Now.value).bit}
  /\ LET body == procs[Top.proc].body
     IN \E i \in Now.to : stack' = Left(SubSeq(body, i, Len(body)))
  /\ UNCHANGED <<role, procs, stores>>

(* What raises ends the block and its callers, and each copies back.           *)
Verify ==
  /\ At({"verify"}) /\ given' = given \cup {Read(Now.value).bit}
  /\ \/ stack' = Left(Tail(Top.todo))
     \/ stack' = [k \in DOMAIN stack |-> [stack[k] EXCEPT !.todo = <<>>]]
  /\ UNCHANGED <<role, procs, stores>>

Put ==
  /\ At({"put"}) /\ stack' = Left(Tail(Top.todo))
  /\ given' = given \cup {Read(Now.value).bit}
  /\ UNCHANGED <<role, procs, stores>>

Get ==
  /\ At({"get", "update", "result"}) /\ stack' = Left(Tail(Top.todo))
  /\ given' = IF Now.op = "update" THEN given \cup {Read(Now.target).bit} ELSE given
  /\ stores' = Write(Len(stack), Now.target, Bit(Elsewhere))
  /\ UNCHANGED <<role, procs>>

(* The keys are read, the action that was found runs, then hit is written.     *)
ApplyTable ==
  /\ At({"apply"}) /\ given' = given \cup {Read(Now.value).bit}
  /\ IF Now.callee = NoAction
     THEN stack' = Left(Tail(Top.todo)) /\ stores' = Write(Len(stack), Now.target, Bit(Elsewhere))
     ELSE /\ stack' = Append(Left(Tail(Top.todo)), Frame(Now.callee, Top.home, Now.target, TRUE))
          /\ stores' = Append(stores, Store(Now.callee, Bit(Elsewhere)))
  /\ UNCHANGED <<role, procs>>

Call ==
  /\ At({"call"})
  /\ LET c == procs[Now.callee]
         home == IF c.kind = "block" THEN Len(stack) + 1 ELSE Top.home
         dest == IF c.dir \in {"in", "data"} THEN None ELSE Now.value
         initial == IF c.dir = "out" THEN Zero(c.vars[c.param]) ELSE Read(Now.value)
     IN /\ stack' = Append(Left(Tail(Top.todo)), Frame(Now.callee, home, dest, FALSE))
        /\ stores' = Append(stores, Store(Now.callee, initial))
  /\ UNCHANGED <<role, procs, given>>

Return ==
  /\ Len(stack) > 1 /\ Top.todo = <<>>
  /\ LET k == Len(stack) - 1
         val == IF Top.hit THEN Bit(Elsewhere) ELSE stores[Len(stack)][procs[Top.proc].param]
     IN stack' = SubSeq(stack, 1, k) /\ stores' = SubSeq(Write(k, Top.dest, val), 1, k)
  /\ UNCHANGED <<role, procs, given>>

ProfileNext == Assign \/ Branch \/ Verify \/ Put \/ Get \/ ApplyTable \/ Call \/ Return
ProfileSpec == ProfileInit /\ [][ProfileNext]_profileVars

-----------------------------------------------------------------------------
Origins == Protected \cup {Elsewhere}
ValuesOf(type) == IF type = "bit" THEN [{"bit"} -> Origins] ELSE [MetaFields -> Origins]
ProfileTypeOK ==
  /\ given \subseteq Origins /\ DOMAIN stores = 1 .. Len(stack)
  /\ \A k \in DOMAIN stores : \A v \in DOMAIN stores[k] :
       stores[k][v] \in ValuesOf(procs[stack[k].proc].vars[v])

(* An accepted stage leaves standard metadata as the pipeline set it, but for  *)
(* egress_spec in ingress and egress, whatever it calls and however the        *)
(* metadata is passed on (_check_block: "is read-only").                       *)
MetadataKept ==
  LET m == stores[1][procs["stage"].param] IN
  \A f \in Protected : m[f] # f => f = "egress_spec" /\ role \in {"ingress", "egress"}

(* What an accepted stage may not read stays where it is: it is only carried   *)
(* along with the metadata, or in a parameter, and reaches no local, no other  *)
(* field, no extern, no table key and no condition (_check_block: "is          *)
(* unavailable").                                                              *)
UnavailableUnread ==
  \A f \in Protected \ Readable(role) :
    /\ f \notin given
    /\ \A k \in DOMAIN stores : \A v \in DOMAIN stores[k] :
         LET val == stores[k][v] IN
         \A g \in DOMAIN val : val[g] = f => v = procs[stack[k].proc].param /\ g \in {f, "bit"}

(* Metadata an accepted stage may not write is kept, and what it may not read  *)
(* reaches nothing (check_profile).                                            *)
AccessHolds == MetadataKept /\ UnavailableUnread
=============================================================================
