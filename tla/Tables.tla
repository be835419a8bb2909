-------------------------------- MODULE Tables --------------------------------
(* One match-action table: its installed entries and defaults, the checks that *)
(* admit an entry, and the scan that looks a key up (interp/tables.py), with   *)
(* the validator's own check of const entries beside it (validator/tables.py). *)
(* Tables are addressed by (block, name) and share nothing, so one stands for  *)
(* all.  A bit<w> value is the set of its one-positions, a subset of 0 .. w-1, *)
(* position 0 the least significant.  An action call is one value: whether its *)
(* arguments fit its parameters is part of being in decl.actions.              *)
EXTENDS Integers, Sequences, FiniteSets

CONSTANTS
  TableDecls,   \* table declarations that may occur in a validated program
  ConstLists,   \* ConstLists[d]: lists of const entries a program may give d
  HostEntries,  \* pb.Entry values a host may try, well formed or not
  HostActions,  \* action calls a host may name as a default
  NoAction,     \* the absent ActionCall
  MaxWidth,     \* bound: width of a key
  MaxEntries    \* bound: entries in the table

MatchKinds == {"exact", "lpm", "ternary"}
BitSets(w) == SUBSET (0 .. w - 1)
KeyValue == [kind : MatchKinds, value : SUBSET Nat, mask : SUBSET Nat, prefix_len : Nat]
Entry(A) == [keys : Seq(KeyValue), priority : Nat, action : A]
IsEntry(e) == e \in Entry({e.action})

-----------------------------------------------------------------------------
(* Entry values                                                                *)

(* The bits a key value compares: all, the prefix, or the mask.                *)
Care(kv, w) ==
  CASE kv.kind = "exact" -> 0 .. w - 1
    [] kv.kind = "lpm" -> w - kv.prefix_len .. w - 1
    [] kv.kind = "ternary" -> kv.mask

CheckKeyValue(kind, kv, w) ==
  /\ kv.kind = kind
  /\ kv.value \in BitSets(w)
  /\ kind = "lpm" => kv.prefix_len <= w
  /\ kind = "ternary" => kv.mask \in BitSets(w)
  /\ kv.value \subseteq Care(kv, w)

KeyValueMatches(kv, key, w) ==
  key \cap Care(kv, w) = kv.value \cap Care(kv, w)

KeysMatch(decl, e, keys) ==
  \A i \in DOMAIN decl.kinds : KeyValueMatches(e.keys[i], keys[i], decl.widths[i])

(* The length of the one lpm key's prefix (TABLE_LPM_COUNT allows one).        *)
PrefixLength(decl, e) ==
  IF \E i \in DOMAIN decl.kinds : decl.kinds[i] = "lpm"
  THEN e.keys[CHOOSE i \in DOMAIN decl.kinds : decl.kinds[i] = "lpm"].prefix_len
  ELSE 0

Ternary(decl) == \E i \in DOMAIN decl.kinds : decl.kinds[i] = "ternary"

Beats(decl, e, best) ==
  IF Ternary(decl) THEN e.priority > best.priority
  ELSE PrefixLength(decl, e) > PrefixLength(decl, best)

(* Fault: prefixes of the same length are taken to be the same.                *)
SameKeysByLength(decl, a, b) ==
  \A i \in DOMAIN decl.kinds :
    IF decl.kinds[i] = "lpm" THEN a.keys[i].prefix_len = b.keys[i].prefix_len
    ELSE a.keys[i].value = b.keys[i].value

SameKeys(decl, a, b) ==
  \A i \in DOMAIN decl.kinds :
    /\ decl.kinds[i] = "exact" => a.keys[i].value = b.keys[i].value
    /\ decl.kinds[i] = "lpm" => /\ a.keys[i].prefix_len = b.keys[i].prefix_len
                                /\ a.keys[i].value = b.keys[i].value

(* Equal on the bits both compare.                                             *)
Agree(x, y, w) == LET both == Care(x, w) \cap Care(y, w)
                  IN x.value \cap both = y.value \cap both

Overlaps(decl, a, b) ==
  \A i \in DOMAIN decl.kinds : Agree(a.keys[i], b.keys[i], decl.widths[i])

(* install: arity, every key value, the action, and priority 0 without a       *)
(* ternary key.                                                                *)
WellFormed(decl, e) ==
  /\ Len(e.keys) = Len(decl.kinds)
  /\ \A i \in DOMAIN decl.kinds : CheckKeyValue(decl.kinds[i], e.keys[i], decl.widths[i])
  /\ e.action \in decl.actions
  /\ ~Ternary(decl) => e.priority = 0

(* Fault: overlapping entries are refused whatever their priorities.           *)
ConflictsAnyPriority(decl, e, other) ==
  IF Ternary(decl) THEN Overlaps(decl, e, other) ELSE SameKeys(decl, e, other)

(* The tie checks against one installed entry.                                 *)
Conflicts(decl, e, other) ==
  IF Ternary(decl)
  THEN other.priority = e.priority /\ Overlaps(decl, e, other)
  ELSE SameKeys(decl, e, other)

-----------------------------------------------------------------------------
(* The validator's view of const entries: the same questions, asked of its own *)
(* patterns (patterns_overlap, patterns_equal, check_entry).                   *)

PatternsOverlap(x, y, w) ==
  LET m == Care(x, w) \cap Care(y, w)
  IN IF x.kind = "exact" THEN x.value = y.value ELSE x.value \cap m = y.value \cap m

PatternsEqual(x, y, w) ==
  CASE x.kind = "exact" -> x.value = y.value
    [] x.kind = "lpm" -> /\ x.prefix_len = y.prefix_len
                         /\ x.value \cap Care(x, w) = y.value \cap Care(y, w)
    [] x.kind = "ternary" -> /\ x.mask = y.mask
                             /\ x.value \cap x.mask = y.value \cap y.mask

KeyPattern(kind, kv, w) ==
  /\ kv.kind = kind /\ kv.value \in BitSets(w)
  /\ CASE kind = "exact" -> TRUE
       [] kind = "lpm" -> kv.prefix_len <= w /\ kv.value \ (w - kv.prefix_len .. w - 1) = {}
       [] kind = "ternary" -> kv.mask \in BitSets(w) /\ kv.value \ kv.mask = {}

CheckEntry(decl, e) ==
  /\ e.action \in decl.actions
  /\ Ternary(decl) \/ e.priority = 0
  /\ Len(e.keys) = Len(decl.kinds)
  /\ \A i \in DOMAIN decl.kinds : KeyPattern(decl.kinds[i], e.keys[i], decl.widths[i])

ValidConstEntries(decl, es) ==
  /\ \A i \in 1 .. Len(es) : CheckEntry(decl, es[i])
  /\ \A i, j \in 1 .. Len(es) : i < j =>
       IF Ternary(decl)
       THEN ~ /\ es[i].priority = es[j].priority
              /\ \A k \in DOMAIN decl.kinds :
                   PatternsOverlap(es[i].keys[k], es[j].keys[k], decl.widths[k])
       ELSE ~ \A k \in DOMAIN decl.kinds :
                PatternsEqual(es[i].keys[k], es[j].keys[k], decl.widths[k])

(* check_table: at most one lpm key, never beside a ternary one; the default   *)
(* action is one of the table's.  The const entries are ValidConstEntries.     *)
ValidDecl(decl) ==
  /\ decl.kinds \in Seq(MatchKinds) /\ decl.widths \in Seq(1 .. MaxWidth)
  /\ Len(decl.kinds) = Len(decl.widths)
  /\ \A i, j \in DOMAIN decl.kinds : decl.kinds[i] = "lpm" =>
       /\ decl.kinds[j] # "ternary"
       /\ i # j => decl.kinds[j] # "lpm"
  /\ decl.default_action \in decl.actions \cup {NoAction}
  /\ decl.const_default_action \in BOOLEAN

ASSUME DeclsAssumption == \A decl \in TableDecls : ValidDecl(decl) /\ NoAction \notin decl.actions
ASSUME EntriesAssumption ==
  /\ \A d \in TableDecls : ConstLists[d] \subseteq Seq(Entry(d.actions))
  /\ \A e \in HostEntries : IsEntry(e)
  /\ NoAction \in HostActions /\ MaxEntries \in Nat /\ MaxWidth \in Nat

-----------------------------------------------------------------------------
VARIABLES
  decl,         \* the table's declaration, fixed for the run
  entries,      \* InstalledEntries.entries of this table
  default,      \* InstalledEntries.default_actions of this table
  uninstalled,  \* const entries build has still to install
  result,       \* how the last install or set_default ended
  scan          \* the lookup in progress or just answered

installVars == <<decl, entries, default, uninstalled, result, scan>>

(* The key values an apply can compute: one bit<w> per key of the table.       *)
KeysOf == [d \in TableDecls |-> {k \in [DOMAIN d.kinds -> BitSets(MaxWidth)] :
                             \A i \in DOMAIN d.kinds : k[i] \in BitSets(d.widths[i])}]
LookupKeys == KeysOf[decl]

Idle == [keys |-> <<>>, at |-> 0, best |-> 0]
Answered == scan # Idle /\ scan.at > Len(entries)

TablesInit ==
  /\ decl \in TableDecls
  /\ entries = <<>>
  /\ default = decl.default_action
  /\ uninstalled \in {es \in ConstLists[decl] : ValidConstEntries(decl, es)}
  /\ result = "none"
  /\ scan = Idle

Admit(e) ==
  IF WellFormed(decl, e) /\ \A i \in DOMAIN entries : ~Conflicts(decl, e, entries[i])
  THEN entries' = Append(entries, e) /\ result' = "ok"
  ELSE entries' = entries /\ result' = "InstallError"

(* build: the program's const entries first; an InstallError ends it.          *)
InstallConst ==
  /\ uninstalled # <<>> /\ result # "InstallError"
  /\ Admit(Head(uninstalled))
  /\ uninstalled' = IF result' = "ok" THEN Tail(uninstalled) ELSE uninstalled
  /\ UNCHANGED <<decl, default, scan>>

Built == uninstalled = <<>> /\ scan = Idle

Install(e) ==
  /\ Built /\ Len(entries) < MaxEntries
  /\ Admit(e)
  /\ UNCHANGED <<decl, default, uninstalled, scan>>

SetDefault(action) ==
  /\ Built
  /\ \/ /\ decl.const_default_action \/ action \notin decl.actions \cup {NoAction}
        /\ result' = "InstallError"
        /\ UNCHANGED default
     \/ /\ ~decl.const_default_action /\ action \in decl.actions \cup {NoAction}
        /\ default' = IF action = NoAction THEN decl.default_action ELSE action
        /\ result' = "ok"
  /\ UNCHANGED <<decl, entries, uninstalled, scan>>

(* lookup, one installed entry at a time.                                      *)
StartLookup(keys) ==
  /\ Built
  /\ scan' = [keys |-> keys, at |-> 1, best |-> 0]
  /\ result' = "none"
  /\ UNCHANGED <<decl, entries, default, uninstalled>>

(* Fault: the last entry that matches is kept.                                 *)
ScanEntryLast ==
  /\ scan # Idle /\ ~Answered
  /\ scan' = [scan EXCEPT !.at = @ + 1,
                          !.best = IF KeysMatch(decl, entries[scan.at], scan.keys)
                                   THEN scan.at ELSE @]
  /\ UNCHANGED <<decl, entries, default, uninstalled, result>>

ScanEntry ==
  /\ scan # Idle /\ ~Answered
  /\ LET e == entries[scan.at]
         wins == /\ KeysMatch(decl, e, scan.keys)
                 /\ scan.best = 0 \/ Beats(decl, e, entries[scan.best])
     IN scan' = [scan EXCEPT !.at = @ + 1, !.best = IF wins THEN scan.at ELSE @]
  /\ UNCHANGED <<decl, entries, default, uninstalled, result>>

(* The Match returned: the best entry's action, or the default and no hit.     *)
Match == IF scan.best = 0 THEN [action |-> default, hit |-> FALSE]
         ELSE [action |-> entries[scan.best].action, hit |-> TRUE]

Answer ==
  /\ Answered
  /\ scan' = Idle
  /\ UNCHANGED <<decl, entries, default, uninstalled, result>>

TablesNext ==
  \/ InstallConst
  \/ \E e \in HostEntries : Install(e)
  \/ \E a \in HostActions : SetDefault(a)
  \/ \E keys \in LookupKeys : StartLookup(keys)
  \/ ScanEntry
  \/ Answer

TablesSpec == TablesInit /\ [][TablesNext]_installVars

-----------------------------------------------------------------------------
TablesTypeOK ==
  /\ decl \in TableDecls
  /\ entries \in Seq(Entry(decl.actions))
  /\ \A i \in DOMAIN entries : WellFormed(decl, entries[i])
  /\ default \in decl.actions \cup {NoAction}
  /\ uninstalled \in Seq(Entry(decl.actions))
  /\ result \in {"none", "ok", "InstallError"}
  /\ scan = Idle \/ scan \in [keys : LookupKeys, at : 1 .. Len(entries) + 1,
                              best : 0 .. Len(entries)]
  /\ uninstalled # <<>> => scan = Idle

Unordered(e, f) == ~Beats(decl, e, f) /\ ~Beats(decl, f, e)
TieOn(e, f) == \E keys \in LookupKeys :
  KeysMatch(decl, e, keys) /\ KeysMatch(decl, f, keys) /\ Unordered(e, f)

(* Whatever is installed in whatever order, no key ever has two best entries,  *)
(* so the winner does not depend on the order of installation (install,        *)
(* beats).                                                                     *)
NoTies == \A i, j \in DOMAIN entries : i # j => ~TieOn(entries[i], entries[j])

(* The install checks refuse exactly the entries that would tie: overlaps and  *)
(* same_keys, which never look at a key, decide whether some key would have    *)
(* two best entries.                                                           *)
AdmissionIsExact ==
  scan = Idle => \A e \in HostEntries : WellFormed(decl, e) =>
    \A i \in DOMAIN entries : Conflicts(decl, e, entries[i]) <=> TieOn(e, entries[i])

(* A const entry the validator accepts is never refused when the table is      *)
(* built: check_table and install, written apart, agree.                       *)
ConstEntriesInstall == uninstalled # <<>> => result # "InstallError"

(* The answer is the longest prefix or the highest priority among all entries  *)
(* that match, and a miss only when none does.                                 *)
LookupIsBest ==
  Answered =>
    LET matching == {i \in DOMAIN entries : KeysMatch(decl, entries[i], scan.keys)} IN
    /\ Match.hit <=> matching # {}
    /\ Match.hit => /\ scan.best \in matching
                    /\ \A i \in matching \ {scan.best} :
                         Beats(decl, entries[scan.best], entries[i])

(* A miss always has the program's default to fall back on: a host may replace *)
(* it unless it is const, and can never remove it (set_default).               *)
DefaultKept ==
  /\ decl.const_default_action => default = decl.default_action
  /\ default = NoAction => decl.default_action = NoAction
=============================================================================
