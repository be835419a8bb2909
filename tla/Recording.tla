----------------------------- MODULE Recording -----------------------------
(* The eDSL's recorder (edsl/core/blocks.py, edsl/blocks.py, edsl/_build.py).  *)
(* A block class is assembled when it is first used: its methods run with a    *)
(* recording self, and a call inside them assembles the callee first.  What    *)
(* the methods write is nondeterministic.  A ghost keeps, for every statement, *)
(* the conditions it was written under.                                        *)
EXTENDS Integers, Sequences, SequencesExt, FiniteSets

CONSTANTS
  Classes,      \* block classes
  Bodies,       \* Bodies[c]: how many of its methods record (its actions or states, apply)
  Exports,      \* the classes a library lists, in order
  DataTypes,        \* header and struct classes
  FieldTypes,   \* FieldTypes[t]: the types of t's fields, in order
  MaxWrites,    \* bound: recording operations
  MaxDepth      \* bound: with blocks open in one body

ASSUME RecordingAssumption ==
  /\ Bodies \in [Classes -> Nat \ {0}] /\ FieldTypes \in [DataTypes -> Seq(DataTypes)]
  /\ MaxWrites \in Nat /\ MaxDepth \in Nat

VARIABLES
  toBuild,      \* exports not yet asked for
  active,       \* _ACTIVE: the blocks being assembled, innermost last
  library,      \* LibraryBuilder._blocks, in order
  types,        \* declared types, in order
  recorded,     \* the finished bodies
  pending,      \* Build.pending: extern results not assigned yet
  writes,       \* operations so far; an operation's number names its statement
  written,      \* ghost: [block, body, id, under] for each statement
  outcome       \* "open", "built" or "refused"

vars == <<toBuild, active, library, types, recorded, pending, writes, written, outcome>>

None == <<>>
Plain(id) == [s |-> "plain", id |-> id]
CallBlock(id, c) == [s |-> "call", id |-> id, callee |-> c]
CallExtern(id, r) == [s |-> "extern", id |-> id, result |-> r]
If(c, then) == [s |-> "if", c |-> c, then |-> then, otherwise |-> <<>>]

(* An entry of _targets and the one beside it in _open_ifs; opener says what   *)
(* the nested statements are for.  An open if is named by its place: where it  *)
(* is in the list, in the otherwise of that if, and so on.  The last two are  *)
(* ghosts: the conditions around the level, and those of the ladder that may   *)
(* still go on.                                                                *)
Level(opener, c, of, under) ==
  [stmts |-> <<>>, open |-> None, opener |-> opener, c |-> c, of |-> of,
   under |-> under, rungs |-> {}]

(* A block instance, which of its methods runs, and the call that waits until  *)
(* its callee is assembled.                                                    *)
Instance(c) ==
  [block |-> c, body |-> 1, levels |-> <<Level("body", 0, None, {})>>, waits |-> 0]

Top == Last(active)
Inner == Last(Top.levels)
WithTop(f) == [active EXCEPT ![Len(active)] = f]
WithLevels(ls) == WithTop([Top EXCEPT !.levels = ls])
Recording == outcome = "open" /\ active # <<>> /\ Top.waits = 0
MayWrite == Recording /\ writes < MaxWrites
Not(conditions) == {<<c, FALSE>> : c \in conditions}

-----------------------------------------------------------------------------
(* _emit                                                                       *)
Emitted(ls, s) ==
  Append(Front(ls), [Last(ls) EXCEPT !.stmts = Append(@, s), !.open = None, !.rungs = {}])
Entry(f, id, result) ==
  [block |-> f.block, body |-> f.body, id |-> id, result |-> result, under |-> Last(f.levels).under]

(* The otherwise of the if at a place in a list, extended.                     *)
RECURSIVE Extended(_, _, _)
Extended(stmts, at, more) ==
  [stmts EXCEPT ![at[1]].otherwise = IF Len(at) = 1 THEN @ \o more ELSE Extended(@, Tail(at), more)]
ExtendIf(l, more) == [l EXCEPT !.stmts = Extended(@, l.open, more), !.open = None]

(* Fault: the ladder goes on from the if it began with.                        *)
ArmOfFirst(l, more) == [ExtendIf(l, more) EXCEPT !.open = l.open]

(* elif_, when its arm closes: extend copies, and the ladder goes on from the  *)
(* copy inside the previous arm.                                               *)
Arm(l, more) == [ExtendIf(l, more) EXCEPT !.open = Append(l.open, 1)]

(* if_, when it closes: the if is emitted and stays open at its level.         *)
IfClosed(l, inner) ==
  [l EXCEPT !.stmts = Append(@, If(inner.c, inner.stmts)), !.open = <<Len(l.stmts) + 1>>,
            !.rungs = {inner.c}]

(* Any statement that only goes into the list: assign, set_valid, call_action, *)
(* apply, emit, extract and the rest.                                          *)
Write ==
  /\ MayWrite
  /\ writes' = writes + 1
  /\ active' = WithLevels(Emitted(Top.levels, Plain(writes')))
  /\ written' = Append(written, Entry(Top, writes', 0))
  /\ UNCHANGED <<toBuild, library, types, recorded, pending, outcome>>

(* local: the type is registered on first use, its fields' types before it.    *)
RECURSIVE Registered(_, _)
Registered(ts, t) ==
  IF t \in Range(ts) THEN ts
  ELSE Append(FoldLeft(LAMBDA seen, f : Registered(seen, f), ts, FieldTypes[t]), t)

(* In an action or a state, every method but the last, the local starts afresh *)
(* where it is declared: a zero assignment is emitted there.                   *)
ZeroesLocals(f) == f.body < Bodies[f.block]

DeclareLocal(t) ==
  /\ MayWrite /\ t \notin Range(types)
  /\ writes' = writes + 1
  /\ types' = Registered(types, t)
  /\ IF ZeroesLocals(Top)
     THEN /\ active' = WithLevels(Emitted(Top.levels, Plain(writes')))
          /\ written' = Append(written, Entry(Top, writes', 0))
     ELSE UNCHANGED <<active, written>>
  /\ UNCHANGED <<toBuild, library, recorded, pending, outcome>>

(* with if_(c): the operation's number stands for its condition.               *)
OpenIf ==
  /\ MayWrite /\ Len(Top.levels) <= MaxDepth
  /\ writes' = writes + 1
  /\ active' = WithLevels(Append(Top.levels,
                 Level("if", writes', None, Inner.under \cup {<<writes', TRUE>>})))
  /\ UNCHANGED <<toBuild, library, types, recorded, pending, written, outcome>>

(* _continue_if takes the open if; there is none unless the ladder is direct.  *)
Continued == Append(Front(Top.levels), [Inner EXCEPT !.open = None, !.rungs = {}])
Refuse == outcome' = "refused" /\ UNCHANGED <<toBuild, active, library, types, recorded, pending, writes, written>>

OpenElse ==
  /\ MayWrite /\ Len(Top.levels) <= MaxDepth
  /\ \/ /\ Inner.open # None
        /\ writes' = writes + 1
        /\ active' = WithLevels(Append(Continued, Level("else", 0, Inner.open, Inner.under \cup Not(Inner.rungs))))
        /\ UNCHANGED <<toBuild, library, types, recorded, pending, written, outcome>>
     \/ Inner.open = None /\ Refuse

OpenElif ==
  /\ MayWrite /\ Len(Top.levels) + 1 <= MaxDepth
  /\ \/ /\ Inner.open # None
        /\ writes' = writes + 1
        /\ LET arm == [Level("elif", 0, Inner.open, Inner.under \cup Not(Inner.rungs)) EXCEPT !.rungs = Inner.rungs]
           IN active' = WithLevels(Continued \o
                          <<arm, Level("if", writes', None, arm.under \cup {<<writes', TRUE>>})>>)
        /\ UNCHANGED <<toBuild, library, types, recorded, pending, written, outcome>>
     \/ Inner.open = None /\ Refuse

(* The end of the innermost with block.                                        *)
Close ==
  /\ Recording /\ Len(Top.levels) > 1
  /\ LET ls == Front(Top.levels)
         outer == Last(ls)
         resumed == [outer EXCEPT !.open = Inner.of]
     IN active' = WithLevels(
          CASE Inner.opener = "else" -> Append(Front(ls), ExtendIf(resumed, Inner.stmts))
            [] outer.opener # "elif" -> Append(Front(ls), IfClosed(outer, Inner))
            [] outer.opener = "elif" ->
                 LET below == Front(ls)
                     ladder == [Last(below) EXCEPT !.open = outer.of, !.rungs = outer.rungs \cup {Inner.c}]
                 IN Append(Front(below), Arm(ladder, <<If(Inner.c, Inner.stmts)>>)))
  /\ UNCHANGED <<toBuild, library, types, recorded, pending, writes, written, outcome>>

-----------------------------------------------------------------------------
(* Extern calls                                                                *)

(* A method with a result is recorded by the assignment that takes the result. *)
Compute ==
  /\ MayWrite
  /\ writes' = writes + 1
  /\ pending' = Append(pending, writes')
  /\ UNCHANGED <<toBuild, active, library, types, recorded, written, outcome>>

AssignResult(r) ==
  /\ MayWrite
  /\ \/ /\ Contains(pending, r)
        /\ writes' = writes + 1
        /\ pending' = SelectSeq(pending, LAMBDA p : p # r)
        /\ active' = WithLevels(Emitted(Top.levels, CallExtern(writes', r)))
        /\ written' = Append(written, Entry(Top, writes', r))
        /\ UNCHANGED <<toBuild, library, types, recorded, outcome>>
     \/ ~Contains(pending, r) /\ Refuse

-----------------------------------------------------------------------------
(* Assembly                                                                    *)

(* add_block: ahead of the caller being assembled.                             *)
Placed(c, before) ==
  LET at == SelectInSeq(library, LAMBDA b : b = before)
  IN IF at = 0 THEN Append(library, c) ELSE InsertAt(library, at, c)

(* An export that no call has reached before.                                  *)
Export ==
  /\ outcome = "open" /\ active = <<>> /\ toBuild # <<>>
  /\ LET c == Head(toBuild) IN
     /\ toBuild' = Tail(toBuild)
     /\ IF c \in Range(library) THEN UNCHANGED <<active, library>>
        ELSE active' = <<Instance(c)>> /\ library' = Append(library, c)
  /\ UNCHANGED <<types, recorded, pending, writes, written, outcome>>

(* self.call(c): a class seen before is only named, even when it is one of the *)
(* blocks being assembled; another one is assembled before the call is written.*)
Call(c) ==
  /\ MayWrite
  /\ writes' = writes + 1
  /\ IF c \in Range(library)
     THEN /\ active' = WithLevels(Emitted(Top.levels, CallBlock(writes', c)))
          /\ written' = Append(written, Entry(Top, writes', 0))
          /\ UNCHANGED library
     ELSE /\ active' = Append(WithTop([Top EXCEPT !.waits = writes']), Instance(c))
          /\ library' = Placed(c, Top.block)
          /\ UNCHANGED written
  /\ UNCHANGED <<toBuild, types, recorded, pending, outcome>>

(* A method returns.  After the last one the block leaves _ACTIVE, and the     *)
(* call that was waiting for it is written.                                    *)
EndBody ==
  /\ Recording /\ Len(Top.levels) = 1
  /\ recorded' = Append(recorded, [block |-> Top.block, body |-> Top.body, stmts |-> Inner.stmts])
  /\ IF Top.body < Bodies[Top.block]
     THEN /\ active' = WithTop([Top EXCEPT !.body = @ + 1, !.levels = <<Level("body", 0, None, {})>>])
          /\ UNCHANGED written
     ELSE IF Len(active) = 1
     THEN active' = <<>> /\ UNCHANGED written
     ELSE LET caller == active[Len(active) - 1] IN
          /\ active' = Append(SubSeq(active, 1, Len(active) - 2),
               [caller EXCEPT !.waits = 0,
                              !.levels = Emitted(@, CallBlock(caller.waits, Top.block))])
          /\ written' = Append(written, Entry(caller, caller.waits, 0))
  /\ UNCHANGED <<toBuild, library, types, pending, writes, outcome>>

(* finish: every result was assigned.                                          *)
Finish ==
  /\ outcome = "open" /\ active = <<>> /\ toBuild = <<>>
  /\ outcome' = IF pending = <<>> THEN "built" ELSE "refused"
  /\ UNCHANGED <<toBuild, active, library, types, recorded, pending, writes, written>>

Init ==
  /\ toBuild = Exports /\ active = <<>> /\ library = <<>> /\ types = <<>> /\ recorded = <<>>
  /\ pending = <<>> /\ writes = 0 /\ written = <<>> /\ outcome = "open"

Next ==
  \/ Write \/ OpenIf \/ OpenElse \/ OpenElif \/ Close \/ Compute \/ Export \/ EndBody \/ Finish
  \/ \E t \in DataTypes : DeclareLocal(t)
  \/ \E r \in 1 .. MaxWrites : AssignResult(r)
  \/ \E c \in Classes : Call(c)

Spec == Init /\ [][Next]_vars

-----------------------------------------------------------------------------
TypeOK ==
  /\ Range(library) \subseteq Classes /\ Range(types) \subseteq DataTypes
  /\ \A f \in Range(active) : f.body \in 1 .. Bodies[f.block]
  /\ writes \in 0 .. MaxWrites /\ outcome \in {"open", "built", "refused"}

(* The statements of a list, in order, with the conditions above each.         *)
RECURSIVE Flat(_, _)
Flat(stmts, under) ==
  FlattenSeq([i \in DOMAIN stmts |->
    LET s == stmts[i] IN
    IF s.s = "if"
    THEN Flat(s.then, under \cup {<<s.c, TRUE>>}) \o Flat(s.otherwise, under \cup {<<s.c, FALSE>>})
    ELSE <<[id |-> s.id, result |-> IF s.s = "extern" THEN s.result ELSE 0, under |-> under]>>])

(* A statement stands in the body that wrote it, in the order written, under   *)
(* exactly the conditions of the with blocks around it: an arm of a ladder     *)
(* under the failure of every arm above it (elif_, "extend copies").           *)
StandsAsWritten ==
  \A b \in Range(recorded) :
    LET mine == SelectSeq(written, LAMBDA w : w.block = b.block /\ w.body = b.body)
    IN Flat(b.stmts, {}) =
         [k \in DOMAIN mine |-> [id |-> mine[k].id, result |-> mine[k].result, under |-> mine[k].under]]

(* An extern call runs once: its result is taken by one assignment, and no     *)
(* library is built while a result waits ("never assigned").                   *)
ResultsTakenOnce ==
  LET taken == SelectSeq(written, LAMBDA w : w.result # 0)
  IN /\ \A i, j \in DOMAIN taken : taken[i].result = taken[j].result => i = j
     /\ outcome = "built" => pending = <<>>

RECURSIVE Callees(_)
Callees(stmts) ==
  UNION {CASE s.s = "if" -> Callees(s.then) \cup Callees(s.otherwise)
           [] s.s = "call" -> {s.callee}
           [] OTHER -> {} : s \in Range(stmts)}

(* A library declares what it uses first: a type after the types of its        *)
(* fields, a callee ahead of its callers unless it calls them in turn, so that *)
(* only a cycle, which no program may have, is out of order (library.py,       *)
(* "included once, ahead of their callers").                                   *)
DeclarationsFirst ==
  LET Place(c) == SelectInSeq(library, LAMBDA b : b = c)
      CallsOf(c) == UNION {Callees(b.stmts) : b \in {r \in Range(recorded) : r.block = c}}
      reach[k \in 0 .. Cardinality(Classes)] ==
        IF k = 0 THEN {<<c, c>> : c \in Classes}
        ELSE reach[k - 1] \cup UNION {{<<p[1], d>> : d \in CallsOf(p[2])} : p \in reach[k - 1]}
      Reaches(c, d) == <<c, d>> \in reach[Cardinality(Classes)]
  IN /\ \A i \in DOMAIN types : Range(FieldTypes[types[i]]) \subseteq Range(SubSeq(types, 1, i - 1))
     /\ \A i, j \in DOMAIN library : i # j => library[i] # library[j]
     /\ active = <<>> =>
          \A c \in Classes : \A d \in CallsOf(c) : Place(d) < Place(c) \/ Reaches(d, c)

(* What the methods wrote is what the library holds, statement by statement    *)
(* and call by call, and the library is in order (core/blocks.py Stmts,        *)
(* _build.py finish).                                                          *)
RecordedAsWritten == StandsAsWritten /\ ResultsTakenOnce /\ DeclarationsFirst
=============================================================================
