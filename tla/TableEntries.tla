----------------------------- MODULE TableEntries -----------------------------
(* frontend/blocks.py, translate_table: a P4 table's properties, in the order  *)
(* they are written, become an IR table.  P4's keysets are values, masked      *)
(* values or don't-cares and its priorities may count down; the IR has one     *)
(* form per match kind, and the largest priority wins (module Tables).  A bit  *)
(* string is the set of its one-positions; actions have the names they get in  *)
(* module Naming.                                                              *)
EXTENDS Integers, Sequences, SequencesExt, FiniteSetsExt

CONSTANTS
  P4Tables,    \* P4 tables: [props, kinds, widths, actions, default, largest, entries]
  NoDefault,   \* the absent default action
  NoPriority,  \* an entry without a priority
  MaxKeyWidth  \* bound: width of a key

VARIABLES
  declared,    \* the P4 table
  translated,  \* the IR table so far
  properties,  \* its properties still to translate
  keys,        \* the key values of an apply, once its declaration is complete
  chosen       \* the action P4 runs for them, and the IR's

tableVars == <<declared, translated, properties, keys, chosen>>

T == INSTANCE Tables WITH
       TableDecls <- {}, ConstLists <- <<>>, HostEntries <- {}, HostActions <- {NoDefault},
       NoAction <- NoDefault, MaxWidth <- MaxKeyWidth, MaxEntries <- 0,
       decl <- translated, entries <- <<>>, default <- NoDefault, uninstalled <- <<>>,
       result <- "none", scan <- "none"

-----------------------------------------------------------------------------
(* A typed P4 table: what it says beyond the empty table is in a property.     *)
Properties == {"key", "actions", "default_action", "largest_priority_wins", "entries"}
Keyset == [form : {"any", "value", "mask"}, value : SUBSET Nat, mask : SUBSET Nat]
IsP4Table(t) ==
  /\ t.props \in Seq(Properties) /\ t.kinds \in Seq(T!MatchKinds)
  /\ t.widths \in Seq(Nat) /\ Len(t.widths) = Len(t.kinds) /\ t.entries \in Seq(Range(t.entries))
  /\ \A e \in Range(t.entries) : e.keysets \in Seq(Keyset) /\ e.priority \in Int
  /\ t.kinds # <<>> => "key" \in Range(t.props)
  /\ t.entries # <<>> => "entries" \in Range(t.props)
  /\ t.default # NoDefault => "default_action" \in Range(t.props)
ASSUME P4TablesAssumption == \A t \in P4Tables : IsP4Table(t)

-----------------------------------------------------------------------------
(* What P4 says.  A keyset is [form, value, mask].                             *)

Full(w) == 0 .. w - 1
P4Care(ks, w) ==
  CASE ks.form = "any" -> {} [] ks.form = "mask" -> ks.mask \cap Full(w) [] OTHER -> Full(w)
P4Matches(t, e, ks) ==
  \A i \in DOMAIN t.kinds :
    LET care == P4Care(e.keysets[i], t.widths[i])
    IN ks[i] \cap care = e.keysets[i].value \cap care

(* With a ternary key priorities decide, else the longest prefix.              *)
P4Rank(t, e) ==
  IF \E k \in Range(t.kinds) : k = "ternary"
  THEN IF t.largest THEN e.priority ELSE -e.priority
  ELSE MapThenSumSet(LAMBDA i : Cardinality(P4Care(e.keysets[i], t.widths[i])),
                     {i \in DOMAIN t.kinds : t.kinds[i] = "lpm"})
P4Hits(t, ks) == {i \in DOMAIN t.entries : P4Matches(t, t.entries[i], ks)}
P4Action(t, ks) ==
  IF P4Hits(t, ks) = {} THEN t.default
  ELSE t.entries[CHOOSE i \in P4Hits(t, ks) :
         \A j \in P4Hits(t, ks) : P4Rank(t, t.entries[i]) >= P4Rank(t, t.entries[j])].action

-----------------------------------------------------------------------------
(* The IR table; ok is FALSE once the translation has raised.                  *)

Empty(t) ==
  [kinds |-> <<>>, widths |-> <<>>, actions |-> <<>>, default_action |-> NoDefault,
   entries |-> <<>>, ok |-> TRUE]

(* _key_value: the keyset at the key's width, its value within its mask.       *)
KeyMask(ks, w) ==
  CASE ks.form = "mask" -> ks.mask \cap Full(w) [] ks.form = "value" -> Full(w) [] OTHER -> {}
KeyFits(kind, w, ks) ==
  CASE kind = "exact" -> KeyMask(ks, w) = Full(w)
    [] kind = "lpm" -> KeyMask(ks, w) = w - Cardinality(KeyMask(ks, w)) .. w - 1
    [] OTHER -> TRUE
KeyValueIR(kind, w, ks) ==
  LET mask == KeyMask(ks, w)
  IN [kind |-> kind, value |-> ks.value \cap mask,
      mask |-> IF kind = "ternary" THEN mask ELSE {},
      prefix_len |-> IF kind = "lpm" THEN Cardinality(mask) ELSE 0]

(* _entry                                                                      *)
EntryFits(tab, e) ==
  /\ Len(e.keysets) = Len(tab.kinds)
  /\ \A i \in DOMAIN tab.kinds : KeyFits(tab.kinds[i], tab.widths[i], e.keysets[i])
EntryIR(tab, e, priority) ==
  [keys |-> [i \in DOMAIN tab.kinds |-> KeyValueIR(tab.kinds[i], tab.widths[i], e.keysets[i])],
   priority |-> priority, action |-> e.action]

(* Fault: an order that counts down is kept as it is.                          *)
PriorityAsWritten(t, e) == e.priority

(* The IR's largest priority wins: one that counts down is turned round.       *)
Priority(t, e) ==
  IF t.largest THEN e.priority
  ELSE Max({t.entries[i].priority : i \in DOMAIN t.entries}) + 1 - e.priority

Entries(t, tab) ==
  LET ternary == "ternary" \in Range(tab.kinds)
      raised == \/ \E e \in Range(t.entries) : ~EntryFits(tab, e)
                \/ ternary /\ \E e \in Range(t.entries) : e.priority = NoPriority
  IN IF raised THEN [tab EXCEPT !.ok = FALSE]
     ELSE [tab EXCEPT !.entries = [i \in DOMAIN t.entries |->
             EntryIR(tab, t.entries[i], IF ternary THEN Priority(t, t.entries[i]) ELSE 0)]]

(* _table_action: an action listed twice is one action.                        *)
ListedActions(t) ==
  FoldLeft(LAMBDA as, a : IF a \in Range(as) THEN as ELSE Append(as, a), <<>>, t.actions)

Property(t, tab, p) ==
  CASE p = "key" -> [tab EXCEPT !.kinds = t.kinds, !.widths = t.widths]
    [] p = "actions" -> [tab EXCEPT !.actions = ListedActions(t)]
    [] p = "default_action" -> [tab EXCEPT !.default_action = t.default]
    [] p = "entries" -> Entries(t, tab)
    [] OTHER -> tab   \* largest_priority_wins: read before the others

-----------------------------------------------------------------------------
(* The IR's answer: the validator's checks and the lookup of module Tables.    *)

Accepted ==
  LET decl == [translated EXCEPT !.actions = Range(@)]
  IN /\ translated.ok
     /\ \A i, j \in DOMAIN decl.kinds : decl.kinds[i] = "lpm" /\ i # j => decl.kinds[j] = "exact"
     /\ translated.default_action \in decl.actions \cup {NoDefault}
     /\ T!ValidConstEntries(decl, translated.entries)
Hits(ks) == {e \in Range(translated.entries) : T!KeysMatch(translated, e, ks)}
IRAction(ks) ==
  IF Hits(ks) = {} THEN translated.default_action
  ELSE (CHOOSE e \in Hits(ks) : \A f \in Hits(ks) : ~T!Beats(translated, f, e)).action

-----------------------------------------------------------------------------
TableInit ==
  /\ declared \in P4Tables /\ translated = Empty(declared) /\ properties = declared.props
  /\ keys = <<>> /\ chosen = <<>>

(* translate_table, one property.                                              *)
Translate ==
  /\ properties # <<>> /\ translated.ok
  /\ translated' = Property(declared, translated, Head(properties)) /\ properties' = Tail(properties)
  /\ UNCHANGED <<declared, keys, chosen>>

(* An apply of the table.                                                      *)
Apply ==
  /\ properties = <<>> /\ keys = <<>> /\ Accepted
  /\ keys' \in {k \in [DOMAIN declared.kinds -> SUBSET (0 .. MaxKeyWidth - 1)] :
                  \A i \in DOMAIN k : k[i] \subseteq Full(declared.widths[i])}
  /\ chosen' = <<P4Action(declared, keys'), IRAction(keys')>>
  /\ UNCHANGED <<declared, translated, properties>>

TableNext == Translate \/ Apply
TableSpec == TableInit /\ [][TableNext]_tableVars

(* An apply of a translated table the validator accepts runs the action P4's   *)
(* own order of entries chooses (translate_table, _key_value, _entry).         *)
ChoosesAsWritten == chosen # <<>> => chosen[1] = chosen[2]
=============================================================================
