-------------------------------- MODULE Walk --------------------------------
(* drt/generate.py: a packet is made by walking the parser before the packet   *)
(* exists.  The walk draws bits as they are extracted, remembers which bits a  *)
(* location holds, and writes bits so that the case it picked matches.  The    *)
(* reference is the interpreter, run on the packet the walk leaves.            *)
(*                                                                             *)
(* A location is <<name, index, field>>: a field of a header, or of an element *)
(* of a stack; a local and a parameter have no field.  Headers have one type.  *)
(* MCParserLoop spells the expressions, statements and key sets.               *)
EXTENDS Integers, Sequences, SequencesExt, FiniteSets, FiniteSetsExt, Functions, Bitwise

CONSTANTS
  Programs,  \* Programs: [block -> [params, states]]; "main" starts, states [body, keys, cases]
  Fields,    \* the header type's fields, <<[name, width], ...>>
  Size,      \* elements of every stack
  Tapes,     \* what the bits past the end turn out to be, once they are needed
  Draws,     \* the values a header's fields may be drawn as
  Byte,      \* bits of a byte
  MaxSteps   \* states entered before the walk gives up (64)

VARIABLES
  parser, tape, length,  \* the program; BitBuffer's bits, and how many there are
  cursor, known, next,   \* what the walk has consumed, knows, and each stack's nextIndex
  frames,    \* Walk.frames: [block, aliases, todo, depth]
  visited,   \* the states entered
  phase,     \* "walk", "walked" or "packet"
  packet, whole,  \* the bits sent, and whether they are all of the walk's
  decided,   \* ghost: the bits a decision has read
  rewritten, \* ghost: such a bit has been changed
  chance     \* ghost: something the walk does not follow has mattered

vars == <<parser, tape, length, cursor, known, next, frames, visited, phase, packet, whole, decided,
          rewritten, chance>>

-----------------------------------------------------------------------------
Get(f, x, default) == IF x \in DOMAIN f THEN f[x] ELSE default
HeaderWidth == FoldLeft(LAMBDA n, f : n + f.width, 0, Fields)
Offset(i) == FoldLeft(LAMBDA n, f : n + f.width, 0, SubSeq(Fields, 1, i - 1))
Number(bits, at, width) ==
  FoldLeft(LAMBDA n, i : 2 * n + bits[at + i - 1], 0, [i \in 1 .. width |-> i])
Written(bits, at, width, v) ==
  [i \in DOMAIN bits |->
     IF i \in at .. at + width - 1 THEN (v \div 2 ^ (at + width - 1 - i)) % 2 ELSE bits[i]]

MatchesValue(ks, v) ==
  CASE ks.op = "exact" -> v = ks.v
    [] ks.op = "masked" -> ((v % 2 ^ ks.width) & ks.mask) = (ks.v & ks.mask)
    [] ks.op = "range" -> v \in ks.lo .. ks.hi
    [] ks.op = "dont_care" -> TRUE
Compared(op, x, y) ==
  CASE op = "eq" -> x = y [] op = "ne" -> x # y [] op = "lt" -> x < y [] op = "ge" -> x >= y

-----------------------------------------------------------------------------
(* What the walk knows of an expression: bits of the packet, a number, nothing.*)
Slot(at, width) == [is |-> "slot", at |-> at, width |-> width]
Exactly(v) == [is |-> "int", v |-> v]
Unknown == [is |-> "unknown"]

Frame == frames[Len(frames)]

(* Fault: a slice counts its bits from the first of the field.                 *)
SlotOfSliceFromTop(s, hi, lo) == Slot(s.at + lo, hi - lo + 1)

SlotOfSlice(s, hi, lo) == Slot(s.at + s.width - 1 - hi, hi - lo + 1)

RECURSIVE Value(_), Path(_)
(* path and lpath; an index that is not a known number leads nowhere.          *)
Path(e) ==
  IF e.name \in DOMAIN Frame.aliases
  THEN LET a == Frame.aliases[e.name] IN {<<a[1], a[2], IF a[3] = "" THEN e.field ELSE a[3]>>}
  ELSE LET i == Value(e.index) IN IF i.is = "int" THEN {<<e.name, i.v, e.field>>} ELSE {}
Value(e) ==
  CASE e.op = "literal" -> Exactly(e.v)
    [] e.op = "at" -> LET p == Path(e) IN IF p \in SUBSET DOMAIN known /\ p # {} THEN known[CHOOSE x \in p : TRUE]
                                          ELSE Unknown
    [] e.op = "last_index" -> Exactly(Get(next, e.name, 0) - 1)
    [] e.op = "slice" ->
         LET s == Value(e.e)
         IN CASE s.is = "slot" -> SlotOfSlice(s, e.hi, e.lo)
              [] s.is = "int" -> Exactly((s.v \div 2 ^ e.lo) % 2 ^ (e.hi - e.lo + 1))
              [] OTHER -> Unknown
    [] e.op = "cast" ->
         LET s == Value(e.e)
         IN CASE s.is = "slot" /\ e.width <= s.width -> Slot(s.at + s.width - e.width, e.width)
              [] s.is = "int" -> Exactly(s.v % 2 ^ e.width)
              [] OTHER -> Unknown
    [] e.op = "lookahead" -> Slot(cursor, e.width)
    [] OTHER -> Unknown

(* concrete: the number the packet now says, as a set of at most one.          *)
Concrete(e, bits) ==
  LET s == Value(e)
  IN CASE s.is = "slot" -> {Number(bits, s.at, s.width)} [] s.is = "int" -> {s.v} [] OTHER -> {}

(* truth: what the walk can decide, a set of at most one.                      *)
RECURSIVE Truth(_, _)
Truth(c, bits) ==
  CASE c.op = "true" -> {TRUE}
    [] c.op = "not" -> {~t : t \in Truth(c.e, bits)}
    [] c.op = "and" -> {l /\ r : l \in Truth(c.l, bits), r \in Truth(c.r, bits)}
    [] c.op = "or" -> {l \/ r : l \in Truth(c.l, bits), r \in Truth(c.r, bits)}
    [] OTHER -> {Compared(c.op, x, y) : x \in Concrete(c.l, bits), y \in Concrete(c.r, bits)}

(* satisfy: bits that make field == constant, and conjunctions of it, hold.    *)
RECURSIVE Satisfied(_, _)
Satisfied(c, bits) ==
  CASE c.op = "and" -> Satisfied(c.r, Satisfied(c.l, bits))
    [] c.op \in {"eq", "ne"} ->
         LET x == Value(c.l)
             y == Value(c.r)
             s == IF x.is = "int" THEN y ELSE x
             n == IF x.is = "int" THEN x ELSE y
         IN IF ~(s.is = "slot" /\ n.is = "int") THEN bits
            ELSE IF c.op = "eq" THEN Written(bits, s.at, s.width, n.v)
            ELSE IF Number(bits, s.at, s.width) = n.v
            THEN Written(bits, s.at, s.width, IF n.v % 2 = 0 THEN n.v + 1 ELSE n.v - 1) ELSE bits
    [] OTHER -> bits

(* matches and constrain; a try is [bits, ok], and a range is drawn from.      *)
Matches(e, ks, bits) == \A v \in Concrete(e, bits) : MatchesValue(ks, v)
Constrain(e, ks, bits) ==
  LET s == Value(e)
      now == Number(bits, s.at, s.width)
      value == CASE ks.op = "exact" -> {ks.v}
                 [] ks.op = "masked" -> {now - (now & ks.mask) + (ks.v & ks.mask)}
                 [] ks.op = "range" -> IF ks.lo <= ks.hi THEN ks.lo .. ks.hi ELSE {now}
  IN IF s.is = "slot" /\ ks.op # "dont_care"
     THEN {[bits |-> Written(bits, s.at, s.width, v), ok |-> TRUE] : v \in value}
     ELSE {[bits |-> bits, ok |-> Matches(e, ks, bits)]}
TryCase(keys, sets, bits) ==
  FoldLeft(LAMBDA ts, i : UNION {IF t.ok THEN Constrain(keys[i], sets[i], t.bits) ELSE {t} : t \in ts},
           {[bits |-> bits, ok |-> TRUE]}, [i \in DOMAIN keys |-> i])
(* The first case of a random order that can be made to match.                 *)
Picked(keys, cases, order) ==
  FoldLeft(LAMBDA ts, i : UNION {IF t.ok THEN {t} ELSE TryCase(keys, cases[i].sets, t.bits) : t \in ts},
           {[bits |-> tape, ok |-> FALSE]}, order)
Orders(n) == {o \in [1 .. n -> 1 .. n] : IsInjective(o)}
Taken(keys, cases, bits) ==
  {i \in DOMAIN cases : \A k \in DOMAIN keys : Matches(keys[k], cases[i].sets[k], bits)}

(* The bits a decision reads, the bits it needs to be there, and whether it    *)
(* reads what the walk does not know.                                          *)
RECURSIVE Operands(_)
Operands(c) ==
  CASE c.op = "true" -> {}
    [] c.op = "not" -> Operands(c.e)
    [] c.op \in {"and", "or"} -> Operands(c.l) \cup Operands(c.r)
    [] OTHER -> {c.l, c.r}
ReadBy(es) == UNION {LET s == Value(e) IN IF s.is = "slot" THEN s.at .. s.at + s.width - 1 ELSE {} : e \in es}
Ensured(es) == Max({length} \cup {b + 1 : b \in ReadBy(es)})
Followed(es) == \A e \in es : Value(e).is # "unknown"
Decide(es, bits) ==
  /\ tape' = bits /\ length' = Ensured(es) /\ decided' = decided \cup ReadBy(es)
  /\ rewritten' = (rewritten \/ \E b \in decided : bits[b] # tape[b])
  /\ chance' = (chance \/ ~Followed(es))

-----------------------------------------------------------------------------
(* The walk, a statement at a time.  A state's transition is its last one.     *)
Goto(state) == [op |-> "goto", keys |-> state.keys, cases |-> state.cases]
BodyOf(block, name) ==
  LET s == parser[block].states[name] IN Append(s.body, Goto(s))

Init ==
  /\ parser \in Programs /\ tape \in Tapes
  /\ length = 0 /\ cursor = 0 /\ known = <<>> /\ next = <<>> /\ visited = <<<<"main", "start">>>>
  /\ frames = <<[block |-> "main", aliases |-> <<>>, todo |-> BodyOf("main", "start")]>>
  /\ phase = "walk" /\ packet = <<>> /\ whole = TRUE /\ decided = {}
  /\ rewritten = FALSE /\ chance = FALSE

Kept == UNCHANGED <<parser, packet, whole>>
Bits == <<tape, length, decided, rewritten, chance>>
Todo == Frame.todo
Does(op) == phase = "walk" /\ Head(Todo).op = op
S == Head(Todo)
Continue(todo) == frames' = [frames EXCEPT ![Len(frames)].todo = todo] /\ UNCHANGED phase
Stop == phase' = "walked" /\ UNCHANGED frames
With(f, g) == [x \in DOMAIN f \cup DOMAIN g |-> IF x \in DOMAIN g THEN g[x] ELSE f[x]]
Without(header) == {p \in DOMAIN known : <<p[1], p[2]>> # <<header[1], header[2]>>}

(* Bits already drawn for a lookahead are drawn again.                         *)
Fill(path, values) ==
  LET drawn == FoldLeft(LAMBDA b, i : Written(b, cursor + Offset(i), Fields[i].width, values[i]), tape,
                        [i \in DOMAIN Fields |-> i])
      at(f) == CHOOSE i \in DOMAIN Fields : Fields[i].name = f
  IN /\ tape' = drawn /\ cursor' = cursor + HeaderWidth /\ length' = Max({length, cursor'})
     /\ rewritten' = (rewritten \/ \E b \in decided : drawn[b] # tape[b])
     /\ known' = With(known, [p \in {<<path[1], path[2], f.name>> : f \in Range(Fields)} |->
                                Slot(cursor + Offset(at(p[3])), Fields[at(p[3])].width)])
     /\ UNCHANGED <<decided, chance>>

Extract ==
  /\ Does("extract") /\ Continue(Tail(Todo)) /\ Kept /\ UNCHANGED <<next, visited>>
  /\ IF Path(S.to) = {}
     THEN /\ cursor' = cursor + HeaderWidth /\ length' = Max({length, cursor'}) /\ chance' = TRUE
          /\ UNCHANGED <<tape, known, decided, rewritten>>
     ELSE \E p \in Path(S.to), values \in Draws : Fill(p, values)

ExtractNext ==
  /\ Does("next") /\ Kept /\ UNCHANGED visited
  /\ LET i == Get(next, S.stack, 0)
     IN IF i >= Size THEN Stop /\ UNCHANGED <<Bits, cursor, known, next>>
        ELSE /\ next' = With(next, [s \in {S.stack} |-> i + 1]) /\ Continue(Tail(Todo))
             /\ \E values \in Draws : Fill(<<S.stack, i>>, values)

Advance ==
  /\ Does("advance") /\ Continue(Tail(Todo)) /\ Kept /\ UNCHANGED <<known, next, visited, tape, decided, rewritten>>
  /\ LET n == Value(S.e)
     IN IF n.is = "int" THEN cursor' = cursor + n.v /\ length' = Max({length, cursor'}) /\ UNCHANGED chance
        ELSE chance' = TRUE /\ UNCHANGED <<cursor, length>>

Verify ==
  /\ Does("verify") /\ Kept /\ UNCHANGED <<cursor, known, next, visited>>
  /\ \E bits \in {tape, Satisfied(S.c, tape)} :
       /\ Decide(Operands(S.c), bits)
       /\ IF Truth(S.c, bits) = {FALSE} THEN Stop ELSE Continue(Tail(Todo))

Assign ==
  /\ Does("assign") /\ Continue(Tail(Todo)) /\ Kept /\ UNCHANGED <<cursor, next, visited>>
  /\ length' = Ensured({S.e}) /\ UNCHANGED <<tape, decided, rewritten>>
  /\ IF Path(S.to) = {} THEN chance' = TRUE /\ UNCHANGED known
     ELSE LET p == CHOOSE x \in Path(S.to) : TRUE
              v == Value(S.e)
              others == [x \in DOMAIN known \ {p} |-> known[x]]
          IN known' = (IF v.is = "unknown" THEN others ELSE With(others, [x \in {p} |-> v])) /\ UNCHANGED chance

(* A header copied to another: what is known of it moves.                      *)
CopyHeader ==
  /\ Does("copy") /\ Continue(Tail(Todo)) /\ Kept /\ UNCHANGED <<Bits, cursor, next, visited>>
  /\ known' =
       IF Path(S.to) = {} THEN known
       ELSE LET to == CHOOSE p \in Path(S.to) : TRUE
                rest == [p \in Without(to) |-> known[p]]
                moved == {p \in DOMAIN rest : \E x \in Path(S.e) : <<p[1], p[2]>> = <<x[1], x[2]>>}
                from(f) == CHOOSE p \in moved : p[3] = f
            IN With(rest, [p \in {<<to[1], to[2], x[3]>> : x \in moved} |-> rest[from(p[3])]])

Conditional ==
  /\ Does("if") /\ Kept /\ UNCHANGED <<cursor, known, next, visited>>
  /\ Decide(Operands(S.c), tape)
  /\ \E t \in BOOLEAN : /\ Truth(S.c, tape) \subseteq {t}
                        /\ Continue((IF t THEN S.then ELSE S.otherwise) \o Tail(Todo))

(* push and pop.                                                               *)
Shift ==
  /\ Does("shift") /\ Continue(Tail(Todo)) /\ Kept /\ UNCHANGED <<Bits, cursor, visited>>
  /\ LET n == Get(next, S.stack, 0) + S.count
     IN next' = With(next, [s \in {S.stack} |-> IF n < 0 THEN 0 ELSE IF n > Size THEN Size ELSE n])
  /\ known' = [p \in {x \in DOMAIN known : x[1] # S.stack} |-> known[p]]

(* A parameter passed by reference stands for the caller's storage.            *)
CallBlock ==
  /\ Does("call") /\ Kept /\ UNCHANGED <<cursor, next, tape, decided, rewritten>>
  /\ LET args == {a \in Range(S.args) : ~a.byref}
         own(n) == <<S.block, Len(frames), n>>
         given == {a \in args : Value(a.e).is # "unknown"}
         rest == [p \in DOMAIN known \ {own(a.param) : a \in args} |-> known[p]]
         arg(n) == CHOOSE a \in Range(S.args) : a.param = n
         named == {a.param : a \in {b \in Range(S.args) : b.byref => Path(b.e) # {}}}
     IN /\ known' = With(rest, [p \in {own(a.param) : a \in given} |-> Value(arg(p[3]).e)])
        /\ length' = Ensured({a.e : a \in args})
        /\ chance' = (chance \/ named # {a.param : a \in Range(S.args)})
        /\ IF Len(visited) >= MaxSteps THEN Stop /\ UNCHANGED visited
           ELSE /\ visited' = Append(visited, <<S.block, "start">>) /\ UNCHANGED phase
                /\ frames' = Append([frames EXCEPT ![Len(frames)].todo = Tail(Todo)],
                     [block |-> S.block, todo |-> BodyOf(S.block, "start"),
                      aliases |-> [n \in named |-> IF arg(n).byref THEN CHOOSE p \in Path(arg(n).e) : TRUE ELSE own(n)]])

(* select, and what states does with the target: accept and reject return.     *)
Transition ==
  /\ Does("goto") /\ Kept /\ UNCHANGED <<cursor, known, next>>
  /\ \E order \in Orders(Len(S.cases)) : \E t \in Picked(S.keys, S.cases, order) :
       LET taken == Taken(S.keys, S.cases, t.bits)
           target == S.cases[Min(taken)].target
       IN /\ Decide(Range(S.keys), t.bits)
          /\ CASE taken = {} -> Stop /\ UNCHANGED visited
               [] taken # {} /\ target \in {"accept", "reject"} ->
                    /\ UNCHANGED visited
                    /\ IF Len(frames) = 1 THEN Stop ELSE frames' = Front(frames) /\ UNCHANGED phase
               [] OTHER ->
                    IF Len(visited) >= MaxSteps THEN Stop /\ UNCHANGED visited
                    ELSE /\ visited' = Append(visited, <<Frame.block, target>>)
                         /\ Continue(BodyOf(Frame.block, target))

(* packet: the bits in whole bytes, as they are, with a payload, or truncated. *)
Finish ==
  /\ phase = "walked" /\ phase' = "packet"
  /\ LET bytes == (length + Byte - 1) \div Byte
         sent == [i \in 1 .. bytes * Byte |-> IF i <= length THEN tape[i - 1] ELSE 0]
     IN \/ \E payload \in {<<>>, [i \in 1 .. Byte |-> 1]} :
             packet' = (IF bytes = 0 THEN [i \in 1 .. Byte |-> 1] ELSE sent) \o payload /\ whole' = TRUE
        \/ \E n \in 1 .. bytes - 1 : packet' = SubSeq(sent, 1, n * Byte) /\ whole' = FALSE
  /\ UNCHANGED <<parser, Bits, cursor, known, next, frames, visited>>

Next ==
  \/ Extract \/ ExtractNext \/ Advance \/ Verify \/ Assign \/ CopyHeader \/ Conditional \/ Shift
  \/ CallBlock \/ Transition \/ Finish
Spec == Init /\ [][Next]_vars

-----------------------------------------------------------------------------
(* The interpreter (interp/stmt.py) on a packet.  A run is [store, next, at,   *)
(* seen, trace, out], its store that of the block being run.                   *)
Stored(run, e, i) == Get(run.store, <<e.name, i, e.field>>, 0)
RECURSIVE Eval(_, _), Reads(_, _)
Eval(e, run) ==
  CASE e.op = "literal" -> e.v
    [] e.op = "at" -> Stored(run, e, Eval(e.index, run))
    [] e.op = "last_index" -> (Get(run.next, e.name, 0) - 1) % 2 ^ e.width
    [] e.op = "slice" -> (Eval(e.e, run) \div 2 ^ e.lo) % 2 ^ (e.hi - e.lo + 1)
    [] e.op = "cast" -> Eval(e.e, run) % 2 ^ e.width
    [] e.op = "sum" -> (Eval(e.e, run) + 1) % 2 ^ e.width
    [] e.op = "lookahead" -> Number(packet, run.at + 1, e.width)
Reads(e, run) ==
  CASE e.op = "lookahead" -> run.at + e.width <= Len(packet)
    [] e.op \in {"slice", "cast", "sum"} -> Reads(e.e, run)
    [] OTHER -> TRUE
RECURSIVE Holds(_, _)
Holds(c, run) ==
  CASE c.op = "true" -> TRUE
    [] c.op = "not" -> ~Holds(c.e, run)
    [] c.op = "and" -> Holds(c.l, run) /\ Holds(c.r, run)
    [] c.op = "or" -> Holds(c.l, run) \/ Holds(c.r, run)
    [] OTHER -> Compared(c.op, Eval(c.l, run), Eval(c.r, run))

Ends(run, how) == [run EXCEPT !.out = how]
Store(run, x, v) == [run EXCEPT !.store = With(@, [y \in {x} |-> v])]
Header(run, to, value(_)) ==
  [run EXCEPT !.store = With(@, [x \in {<<to[1], to[2], f.name>> : f \in Range(Fields)} |-> value(x[3])])]
Taking(run, to) ==
  IF run.at + HeaderWidth > Len(packet) THEN Ends(run, "error")
  ELSE LET at(f) == CHOOSE i \in DOMAIN Fields : Fields[i].name = f
           field(f) == Number(packet, run.at + Offset(at(f)) + 1, Fields[at(f)].width)
       IN [Header(run, to, field) EXCEPT !.at = run.at + HeaderWidth]
Place(e, run) == <<e.name, Eval(e.index, run)>>

RECURSIVE Exec(_, _), Step(_, _), Follow(_, _, _)
Exec(stmts, run) == FoldLeft(LAMBDA r, s : IF r.out = "run" THEN Step(s, r) ELSE r, run, stmts)
(* Copy-in and copy-back around a call; the rest of the run is shared.         *)
Given(args, run) ==
  [p \in UNION {{<<a.param, 0, f>> : f \in {x.name : x \in Range(Fields)} \cup {""}} : a \in args} |->
     LET a == CHOOSE x \in args : x.param = p[1]
     IN IF a.byref THEN Stored(run, [a.e EXCEPT !.field = p[3]], Eval(a.e.index, run)) ELSE Eval(a.e, run)]
Returned(args, run, callee) ==
  LET back == {a \in args : a.byref}
      place(a, f) == <<a.e.name, Eval(a.e.index, run), f>>
      places(a) == {place(a, f) : f \in {x.name : x \in Range(Fields)} \cup {""}}
      of(p) == CHOOSE a \in back : p \in places(a)
  IN [callee EXCEPT !.next = run.next, !.store = With(run.store,
        [p \in UNION {places(a) : a \in back} |-> Get(callee.store, <<of(p).param, 0, p[3]>>, 0)])]
Called(args, run, callee) == IF callee.out = "run" THEN Returned(args, run, callee) ELSE callee
Shifted(run, stack, n) ==
  LET fields == {f.name : f \in Range(Fields)}
      to == Get(run.next, stack, 0) + n
  IN [run EXCEPT
        !.next = With(@, [s \in {stack} |-> IF to < 0 THEN 0 ELSE IF to > Size THEN Size ELSE to]),
        !.store = With(@, [p \in {<<stack, i, f>> : i \in 0 .. Size - 1, f \in fields} |->
                             Get(run.store, <<stack, p[2] - n, p[3]>>, 0)])]
Filled(run, stack, i) ==
  IF run.out = "run" THEN [run EXCEPT !.next = With(@, [s \in {stack} |-> i + 1])] ELSE run
Step(s, run) ==
  CASE s.op = "extract" -> Taking(run, Place(s.to, run))
    [] s.op = "next" ->
         LET i == Get(run.next, s.stack, 0)
         IN IF i >= Size THEN Ends(run, "error") ELSE Filled(Taking(run, <<s.stack, i>>), s.stack, i)
    [] s.op = "advance" ->
         LET to == run.at + Eval(s.e, run)
         IN IF to > Len(packet) THEN Ends(run, "error") ELSE [run EXCEPT !.at = to]
    [] s.op = "verify" ->
         IF (\A e \in Operands(s.c) : Reads(e, run)) /\ Holds(s.c, run) THEN run ELSE Ends(run, "error")
    [] s.op = "assign" ->
         IF ~Reads(s.e, run) THEN Ends(run, "error")
         ELSE Store(run, <<s.to.name, Eval(s.to.index, run), s.to.field>>, Eval(s.e, run))
    [] s.op = "copy" ->
         LET field(f) == Stored(run, [s.e EXCEPT !.field = f], Eval(s.e.index, run))
         IN Header(run, Place(s.to, run), field)
    [] s.op = "if" -> Exec(IF Holds(s.c, run) THEN s.then ELSE s.otherwise, run)
    [] s.op = "shift" -> Shifted(run, s.stack, s.count)
    [] s.op = "call" ->
         Called(Range(s.args), run,
                Follow(s.block, "start", [run EXCEPT !.store = Given(Range(s.args), run), !.next = <<>>]))
Leave(block, s, run) ==
  LET hit == {i \in DOMAIN s.cases : \A k \in DOMAIN s.keys : MatchesValue(s.cases[i].sets[k], Eval(s.keys[k], run))}
      target == s.cases[Min(hit)].target
  IN CASE run.out # "run" -> run
       [] run.out = "run" /\ \E e \in Range(s.keys) : ~Reads(e, run) -> Ends(run, "error")
       [] OTHER -> IF hit = {} THEN Ends(run, "error")
                   ELSE IF target = "reject" THEN Ends(run, "reject")
                   ELSE IF target = "accept" THEN run ELSE Follow(block, target, run)
Follow(block, name, run) ==
  IF Get(run.seen, <<block, name>>, -1) = run.at THEN Ends(run, "timeout")
  ELSE Leave(block, parser[block].states[name],
         Exec(parser[block].states[name].body,
              [run EXCEPT !.seen = With(@, [x \in {<<block, name>>} |-> run.at]),
                          !.trace = Append(@, <<block, name>>)]))
Run == Follow("main", "start",
         [store |-> <<>>, next |-> <<>>, at |-> 0, seen |-> <<>>, trace |-> <<>>, out |-> "run"])

(* When nothing was left to chance and no bit a decision had read was drawn or *)
(* written again, the interpreter enters the states the walk entered, in the   *)
(* same order, and no others - unless the walk was at its bound, the packet    *)
(* was cut short, or the run was ended by the revisit rule or by a reject of a *)
(* sub-parser, which the walk knows nothing of.                                *)
WalkIsFollowed ==
  phase = "packet" /\ ~chance /\ ~rewritten =>
    LET run == Run
    IN \/ visited = run.trace
       \/ Len(visited) = MaxSteps /\ IsPrefix(visited, run.trace)
       \/ (~whole \/ run.out \in {"timeout", "reject"}) /\ IsPrefix(run.trace, visited)
=============================================================================
