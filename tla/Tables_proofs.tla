---------------------------- MODULE Tables_proofs ----------------------------
(* The promises of a table (Tables) for every declaration the validator        *)
(* accepts, and of a translated one (TableEntries) for every P4 table; every   *)
(* width, and any number of entries.                                           *)
EXTENDS Tables, TableEntries, Numbers_proofs, FiniteSetTheorems,
        SequenceTheorems

-----------------------------------------------------------------------------
(* One key value                                                               *)

LEMMA CareBits ==
  ASSUME NEW w \in Nat, NEW kind \in MatchKinds, NEW kv \in KeyValue,
         CheckKeyValue(kind, kv, w)
  PROVE  kv.value \subseteq Care(kv, w) /\ Care(kv, w) \subseteq 0 .. w - 1
BY DEF CheckKeyValue, Care, BitSets, KeyValue, MatchKinds

(* Two key values agree on the bits both care about exactly when some key      *)
(* matches both; their union is one.                                           *)
LEMMA CommonKey ==
  ASSUME NEW w \in Nat, NEW kind \in MatchKinds,
         NEW x \in KeyValue, CheckKeyValue(kind, x, w),
         NEW y \in KeyValue, CheckKeyValue(kind, y, w)
  PROVE  /\ x.value \cup y.value \in BitSets(w)
         /\ Agree(x, y, w) => /\ KeyValueMatches(x, x.value \cup y.value, w)
                              /\ KeyValueMatches(y, x.value \cup y.value, w)
         /\ \A k : KeyValueMatches(x, k, w) /\ KeyValueMatches(y, k, w) => Agree(x, y, w)
<1>1. /\ x.value \subseteq Care(x, w) /\ Care(x, w) \subseteq 0 .. w - 1
      /\ y.value \subseteq Care(y, w) /\ Care(y, w) \subseteq 0 .. w - 1
  BY CareBits
<1>2. QED BY <1>1 DEF KeyValueMatches, BitSets, Agree

(* For an exact value, and for two prefixes of one length, agreeing there is   *)
(* being equal.                                                                *)
LEMMA AgreeIsEqual ==
  ASSUME NEW w \in Nat, NEW kind \in {"exact", "lpm"},
         NEW x \in KeyValue, CheckKeyValue(kind, x, w),
         NEW y \in KeyValue, CheckKeyValue(kind, y, w),
         kind = "lpm" => x.prefix_len = y.prefix_len
  PROVE  Agree(x, y, w) <=> x.value = y.value
<1>1. x.value \subseteq Care(x, w) /\ y.value \subseteq Care(y, w)
  BY CareBits DEF MatchKinds
<1>2. Care(x, w) = Care(y, w)
  BY DEF CheckKeyValue, Care
<1>3. QED BY <1>1, <1>2 DEF Agree

-----------------------------------------------------------------------------
(* Two entries                                                                 *)

Fits(e) == IsEntry(e) /\ WellFormed(decl, e)

LEMMA DeclType ==
  ASSUME decl \in TableDecls
  PROVE  /\ DOMAIN decl.kinds = 1 .. Len(decl.kinds) /\ Len(decl.kinds) \in Nat
         /\ \A i \in DOMAIN decl.kinds : decl.kinds[i] \in MatchKinds /\ decl.widths[i] \in Nat
         /\ \A i \in DOMAIN decl.kinds : decl.widths[i] \in 1 .. MaxWidth
         /\ \A i, j \in DOMAIN decl.kinds : decl.kinds[i] = "lpm" =>
              decl.kinds[j] # "ternary" /\ (i # j => decl.kinds[j] # "lpm")
<1>1. ValidDecl(decl) /\ MaxWidth \in Nat
  BY DeclsAssumption, EntriesAssumption
<1>2. QED BY <1>1 DEF ValidDecl

LEMMA FitsKeys ==
  ASSUME decl \in TableDecls, NEW e, Fits(e), NEW i \in DOMAIN decl.kinds
  PROVE  /\ e.keys[i] \in KeyValue
         /\ CheckKeyValue(decl.kinds[i], e.keys[i], decl.widths[i])
BY DeclType DEF Fits, WellFormed, IsEntry, Entry

LEMMA OrderTypes ==
  ASSUME decl \in TableDecls, NEW e, Fits(e)
  PROVE  e.priority \in Nat /\ PrefixLength(decl, e) \in Nat
BY FitsKeys DEF Fits, IsEntry, Entry, PrefixLength, KeyValue

LEMMA BeatsTransitive ==
  ASSUME decl \in TableDecls, NEW e, Fits(e), NEW f, Fits(f), NEW g, Fits(g),
         Beats(decl, e, f), Beats(decl, f, g)
  PROVE  Beats(decl, e, g)
BY OrderTypes DEF Beats

LEMMA TieSymmetric ==
  ASSUME NEW e, NEW f PROVE TieOn(e, f) <=> TieOn(f, e)
BY DEF TieOn, Unordered

(* The key that joins two entries.                                             *)
Join(e, f) == [i \in DOMAIN decl.kinds |-> e.keys[i].value \cup f.keys[i].value]

LEMMA JoinIsKey ==
  ASSUME decl \in TableDecls, NEW e, Fits(e), NEW f, Fits(f)
  PROVE  Join(e, f) \in LookupKeys
<1>1. \A i \in DOMAIN decl.kinds : e.keys[i].value \cup f.keys[i].value \in BitSets(decl.widths[i])
  BY FitsKeys, DeclType, CommonKey
<1>2. \A i \in DOMAIN decl.kinds : BitSets(decl.widths[i]) \subseteq BitSets(MaxWidth)
  BY DeclType, EntriesAssumption DEF BitSets
<1>3. QED BY <1>1, <1>2 DEF Join, LookupKeys, KeysOf

LEMMA OverlapsIsCommonKey ==
  ASSUME decl \in TableDecls, NEW e, Fits(e), NEW f, Fits(f)
  PROVE  /\ Overlaps(decl, e, f) =>
              KeysMatch(decl, e, Join(e, f)) /\ KeysMatch(decl, f, Join(e, f))
         /\ \A k : KeysMatch(decl, e, k) /\ KeysMatch(decl, f, k) => Overlaps(decl, e, f)
<1>1. ASSUME Overlaps(decl, e, f)
      PROVE  KeysMatch(decl, e, Join(e, f)) /\ KeysMatch(decl, f, Join(e, f))
  BY <1>1, FitsKeys, DeclType, CommonKey DEF Overlaps, KeysMatch, Join
<1>2. ASSUME NEW k, KeysMatch(decl, e, k), KeysMatch(decl, f, k)
      PROVE  Overlaps(decl, e, f)
  <2> SUFFICES ASSUME NEW i \in DOMAIN decl.kinds
               PROVE  Agree(e.keys[i], f.keys[i], decl.widths[i])
    BY DEF Overlaps
  <2>1. /\ KeyValueMatches(e.keys[i], k[i], decl.widths[i])
        /\ KeyValueMatches(f.keys[i], k[i], decl.widths[i])
    BY <1>2 DEF KeysMatch
  <2>2. /\ decl.widths[i] \in Nat /\ decl.kinds[i] \in MatchKinds
        /\ e.keys[i] \in KeyValue /\ CheckKeyValue(decl.kinds[i], e.keys[i], decl.widths[i])
        /\ f.keys[i] \in KeyValue /\ CheckKeyValue(decl.kinds[i], f.keys[i], decl.widths[i])
    BY FitsKeys, DeclType
  <2>3. QED BY <2>1, <2>2, CommonKey
<1>3. QED BY <1>1, <1>2

(* Without a ternary key: same keys are a common key and one prefix length.    *)
LEMMA SameKeysIsTie ==
  ASSUME decl \in TableDecls, NEW e, Fits(e), NEW f, Fits(f), ~Ternary(decl)
  PROVE  SameKeys(decl, e, f)
           <=> Overlaps(decl, e, f) /\ PrefixLength(decl, e) = PrefixLength(decl, f)
<1>1. \A i \in DOMAIN decl.kinds : decl.kinds[i] \in {"exact", "lpm"}
  BY DeclType DEF Ternary, MatchKinds
<1>2. ASSUME NEW i \in DOMAIN decl.kinds, decl.kinds[i] = "lpm"
      PROVE  /\ PrefixLength(decl, e) = e.keys[i].prefix_len
             /\ PrefixLength(decl, f) = f.keys[i].prefix_len
  <2>1. (CHOOSE j \in DOMAIN decl.kinds : decl.kinds[j] = "lpm") = i
    BY <1>2, DeclType
  <2>2. QED BY <1>2, <2>1 DEF PrefixLength
<1>3. ASSUME SameKeys(decl, e, f)
      PROVE  Overlaps(decl, e, f) /\ PrefixLength(decl, e) = PrefixLength(decl, f)
  <2>1. \A i \in DOMAIN decl.kinds : e.keys[i].value = f.keys[i].value
    BY <1>1, <1>3 DEF SameKeys
  <2>2. Overlaps(decl, e, f)
    BY <2>1 DEF Overlaps, Agree
  <2>3. PrefixLength(decl, e) = PrefixLength(decl, f)
    <3>1. CASE \E i \in DOMAIN decl.kinds : decl.kinds[i] = "lpm"
      BY <1>2, <1>3, <3>1 DEF SameKeys
    <3>2. CASE ~ \E i \in DOMAIN decl.kinds : decl.kinds[i] = "lpm"
      BY <3>2 DEF PrefixLength
    <3>3. QED BY <3>1, <3>2
  <2>4. QED BY <2>2, <2>3
<1>4. ASSUME Overlaps(decl, e, f), PrefixLength(decl, e) = PrefixLength(decl, f)
      PROVE  SameKeys(decl, e, f)
  <2>1. ASSUME NEW i \in DOMAIN decl.kinds
        PROVE  /\ e.keys[i].value = f.keys[i].value
               /\ decl.kinds[i] = "lpm" => e.keys[i].prefix_len = f.keys[i].prefix_len
    <3>1. decl.kinds[i] = "lpm" => e.keys[i].prefix_len = f.keys[i].prefix_len
      BY <1>2, <1>4
    <3>2. Agree(e.keys[i], f.keys[i], decl.widths[i])
      BY <1>4 DEF Overlaps
    <3>3. QED BY <1>1, <3>1, <3>2, FitsKeys, DeclType, AgreeIsEqual
  <2>2. QED BY <2>1 DEF SameKeys
<1>5. QED BY <1>3, <1>4

(* The checks of install, which look at no key, find exactly the ties.         *)
LEMMA ConflictIsTie ==
  ASSUME decl \in TableDecls, NEW e, Fits(e), NEW f, Fits(f)
  PROVE  Conflicts(decl, e, f) <=> TieOn(e, f)
<1>1. Unordered(e, f) <=> IF Ternary(decl) THEN e.priority = f.priority
                          ELSE PrefixLength(decl, e) = PrefixLength(decl, f)
  BY OrderTypes DEF Unordered, Beats
<1>2. TieOn(e, f) <=> Overlaps(decl, e, f) /\ Unordered(e, f)
  BY JoinIsKey, OverlapsIsCommonKey DEF TieOn
<1>3. CASE Ternary(decl)
  BY <1>1, <1>2, <1>3 DEF Conflicts
<1>4. CASE ~Ternary(decl)
  BY <1>1, <1>2, <1>4, SameKeysIsTie DEF Conflicts
<1>5. QED BY <1>3, <1>4

-----------------------------------------------------------------------------
(* Types                                                                       *)

EntryFacts == /\ decl \in TableDecls
              /\ entries \in Seq(Entry(decl.actions))
              /\ \A i \in DOMAIN entries : WellFormed(decl, entries[i])

LEMMA EntriesFit ==
  ASSUME EntryFacts
  PROVE  \A i \in DOMAIN entries : Fits(entries[i])
<1> SUFFICES ASSUME NEW i \in DOMAIN entries PROVE Fits(entries[i])
  OBVIOUS
<1>1. entries[i] \in Entry(decl.actions) /\ WellFormed(decl, entries[i])
  BY DEF EntryFacts
<1>2. QED BY <1>1 DEF Fits, IsEntry, Entry

LEMMA AppendEntries ==
  ASSUME NEW A, NEW es \in Seq(A), NEW e \in A
  PROVE  /\ Append(es, e) \in Seq(A) /\ Len(Append(es, e)) = Len(es) + 1 /\ Len(es) \in Nat
         /\ DOMAIN es = 1 .. Len(es) /\ DOMAIN Append(es, e) = 1 .. Len(es) + 1
         /\ \A i \in 1 .. Len(es) : Append(es, e)[i] = es[i]
         /\ Append(es, e)[Len(es) + 1] = e
BY AppendProperties, LenProperties

LEMMA AdmitTypes ==
  ASSUME EntryFacts, NEW e, IsEntry(e),
         Admit(e), UNCHANGED decl
  PROVE  /\ EntryFacts'
         /\ result' \in {"ok", "InstallError"}
         /\ \/ UNCHANGED entries
            \/ /\ WellFormed(decl, e) /\ entries' = Append(entries, e)
               /\ \A i \in DOMAIN entries : ~Conflicts(decl, e, entries[i])
<1>1. CASE entries' = entries /\ result' = "InstallError"
  BY <1>1 DEF EntryFacts
<1>2. CASE /\ WellFormed(decl, e) /\ \A i \in DOMAIN entries : ~Conflicts(decl, e, entries[i])
           /\ entries' = Append(entries, e) /\ result' = "ok"
  <2>1. e \in Entry(decl.actions)
    BY <1>2 DEF WellFormed, IsEntry, Entry
  <2>2. EntryFacts'
    BY <1>2, <2>1, AppendEntries DEF EntryFacts
  <2>3. QED BY <1>2, <2>2
<1>3. QED BY <1>1, <1>2 DEF Admit

LEMMA TypesStep == TablesTypeOK /\ [TablesNext]_installVars => TablesTypeOK'
<1> SUFFICES ASSUME TablesTypeOK, [TablesNext]_installVars PROVE TablesTypeOK'
  OBVIOUS
<1>0. EntryFacts /\ DOMAIN entries = 1 .. Len(entries) /\ Len(entries) \in Nat
      /\ (NoAction \notin decl.actions) /\ decl.default_action \in decl.actions \cup {NoAction}
  BY DeclsAssumption DEF TablesTypeOK, EntryFacts, ValidDecl
<1>1. CASE InstallConst
  <2>1. Head(uninstalled) \in Entry(decl.actions) /\ Tail(uninstalled) \in Seq(Entry(decl.actions))
    BY <1>1 DEF InstallConst, TablesTypeOK
  <2>2. EntryFacts' /\ result' \in {"ok", "InstallError"}
    BY <1>0, <1>1, <2>1, AdmitTypes DEF InstallConst, IsEntry, Entry
  <2>3. scan = Idle /\ scan' = scan /\ uninstalled' \in Seq(Entry(decl.actions))
    BY <1>1, <2>1 DEF InstallConst, TablesTypeOK
  <2>4. QED BY <1>0, <1>1, <2>2, <2>3 DEF InstallConst, TablesTypeOK, EntryFacts, Idle
<1>2. ASSUME NEW e \in HostEntries, Install(e) PROVE TablesTypeOK'
  <2>1. EntryFacts' /\ result' \in {"ok", "InstallError"}
    BY <1>0, <1>2, AdmitTypes, EntriesAssumption DEF Install
  <2>2. QED BY <1>2, <2>1 DEF Install, Built, TablesTypeOK, EntryFacts
<1>3. ASSUME NEW a \in HostActions, SetDefault(a) PROVE TablesTypeOK'
  BY <1>0, <1>3 DEF SetDefault, Built, TablesTypeOK
<1>4. ASSUME NEW ks \in LookupKeys, StartLookup(ks) PROVE TablesTypeOK'
  BY <1>0, <1>4 DEF StartLookup, Built, TablesTypeOK, LookupKeys
<1>5. CASE ScanEntry
  <2>1. scan.at \in 1 .. Len(entries)
    BY <1>0, <1>5 DEF ScanEntry, Answered, TablesTypeOK
  <2>2. scan \in [keys : LookupKeys, at : 1 .. Len(entries) + 1, best : 0 .. Len(entries)]
    BY <1>5 DEF ScanEntry, TablesTypeOK
  <2>3. PICK b \in {scan.at, scan.best} : scan' = [scan EXCEPT !.at = @ + 1, !.best = b]
    BY <1>5 DEF ScanEntry
  <2>4. scan' \in [keys : LookupKeys, at : 1 .. Len(entries) + 1, best : 0 .. Len(entries)]
    <3>1. scan' = [keys |-> scan.keys, at |-> scan.at + 1, best |-> b]
      BY <2>2, <2>3
    <3>2. scan.keys \in LookupKeys /\ scan.at + 1 \in 1 .. Len(entries) + 1
          /\ b \in 0 .. Len(entries)
      BY <1>0, <2>1, <2>2, <2>3
    <3>3. QED BY <3>1, <3>2
  <2>5. LookupKeys' = LookupKeys /\ entries' = entries
    BY <1>5 DEF ScanEntry, LookupKeys
  <2>6. QED BY <1>0, <1>5, <2>4, <2>5 DEF ScanEntry, TablesTypeOK
<1>6. CASE Answer
  BY <1>0, <1>6 DEF Answer, TablesTypeOK
<1>7. CASE UNCHANGED installVars
  BY <1>7 DEF installVars, TablesTypeOK, LookupKeys
<1>8. QED BY <1>1, <1>2, <1>3, <1>4, <1>5, <1>6, <1>7 DEF TablesNext

LEMMA TypesInit == TablesInit => TablesTypeOK
<1> SUFFICES ASSUME TablesInit PROVE TablesTypeOK
  OBVIOUS
<1>1. decl \in TableDecls /\ ValidDecl(decl) /\ uninstalled \in Seq(Entry(decl.actions))
  BY DeclsAssumption, EntriesAssumption DEF TablesInit
<1>2. entries \in Seq(Entry(decl.actions)) /\ DOMAIN entries = {}
  BY DEF TablesInit
<1>3. QED BY <1>1, <1>2 DEF TablesInit, TablesTypeOK, ValidDecl

(* Every installed entry is well formed for its table, and a default is always *)
(* one of the table's actions or absent.                                       *)
THEOREM TypeCorrect == TablesSpec => []TablesTypeOK
  BY TypesInit, TypesStep, PTL DEF TablesSpec

-----------------------------------------------------------------------------
(* No ties                                                                     *)

LEMMA TieKeyFixed ==
  ASSUME UNCHANGED decl, NEW e, NEW f PROVE TieOn(e, f)' <=> TieOn(e, f)
BY DEF TieOn, Unordered, LookupKeys

(* How a step may change the entries.                                          *)
LEMMA EntrySteps ==
  ASSUME TablesTypeOK, [TablesNext]_installVars
  PROVE  /\ UNCHANGED decl
         /\ \/ UNCHANGED entries
            \/ \E e : /\ Fits(e) /\ entries' = Append(entries, e)
                      /\ e \in Entry(decl.actions)
                      /\ \A i \in DOMAIN entries : ~Conflicts(decl, e, entries[i])
<1>0. EntryFacts
  BY DEF TablesTypeOK, EntryFacts
<1> DEFINE Grown == \E e : /\ Fits(e) /\ entries' = Append(entries, e)
                           /\ e \in Entry(decl.actions)
                           /\ \A i \in DOMAIN entries : ~Conflicts(decl, e, entries[i])
<1>1. ASSUME NEW e, IsEntry(e), Admit(e),
             UNCHANGED decl
      PROVE  UNCHANGED entries \/ Grown
  <2>1. CASE UNCHANGED entries
    BY <2>1
  <2>2. CASE /\ WellFormed(decl, e) /\ entries' = Append(entries, e)
             /\ \A i \in DOMAIN entries : ~Conflicts(decl, e, entries[i])
    BY <1>1, <2>2 DEF Fits, WellFormed, IsEntry, Entry
  <2>3. QED BY <1>0, <1>1, <2>1, <2>2, AdmitTypes
<1>2. CASE InstallConst
  <2>1. Head(uninstalled) \in Entry(decl.actions)
    BY <1>2 DEF InstallConst, TablesTypeOK
  <2>2. QED BY <1>1, <1>2, <2>1 DEF InstallConst, IsEntry, Entry
<1>3. ASSUME NEW e \in HostEntries, Install(e) PROVE UNCHANGED decl /\ (UNCHANGED entries \/ Grown)
  BY <1>1, <1>3, EntriesAssumption DEF Install
<1>4. CASE \/ \E a \in HostActions : SetDefault(a)
           \/ \E ks \in LookupKeys : StartLookup(ks)
           \/ ScanEntry \/ Answer \/ UNCHANGED installVars
  BY <1>4 DEF SetDefault, StartLookup, ScanEntry, Answer, installVars
<1>5. QED BY <1>2, <1>3, <1>4 DEF TablesNext

LEMMA NoTiesStep == ASSUME TablesTypeOK, NoTies, [TablesNext]_installVars PROVE NoTies'
<1>0. EntryFacts /\ UNCHANGED decl /\ DOMAIN entries = 1 .. Len(entries) /\ Len(entries) \in Nat
  BY EntrySteps DEF TablesTypeOK, EntryFacts
<1>1. CASE UNCHANGED entries
  BY <1>0, <1>1, TieKeyFixed DEF NoTies
<1>2. CASE \E e : /\ Fits(e) /\ entries' = Append(entries, e)
                 /\ e \in Entry(decl.actions)
                 /\ \A i \in DOMAIN entries : ~Conflicts(decl, e, entries[i])
  <2>1. PICK e : /\ Fits(e) /\ entries' = Append(entries, e)
                 /\ e \in Entry(decl.actions)
                 /\ \A i \in DOMAIN entries : ~Conflicts(decl, e, entries[i])
    BY <1>2
  <2>2. \A i \in DOMAIN entries : ~TieOn(e, entries[i]) /\ ~TieOn(entries[i], e)
    BY <1>0, <2>1, EntriesFit, ConflictIsTie, TieSymmetric DEF EntryFacts
  <2>3. /\ DOMAIN entries' = 1 .. Len(entries) + 1
        /\ \A i \in 1 .. Len(entries) : entries'[i] = entries[i]
        /\ entries'[Len(entries) + 1] = e
    BY <1>0, <2>1, AppendEntries DEF EntryFacts
  <2>4. SUFFICES ASSUME NEW i \in DOMAIN entries', NEW j \in DOMAIN entries', i # j
                 PROVE  ~TieOn(entries'[i], entries'[j])
    BY <1>0, TieKeyFixed DEF NoTies
  <2>5. CASE i \in 1 .. Len(entries) /\ j \in 1 .. Len(entries)
    BY <1>0, <2>3, <2>4, <2>5 DEF NoTies
  <2>6. CASE i = Len(entries) + 1
    BY <1>0, <2>2, <2>3, <2>4, <2>6
  <2>7. CASE j = Len(entries) + 1
    BY <1>0, <2>2, <2>3, <2>4, <2>7
  <2>8. QED BY <1>0, <2>3, <2>5, <2>6, <2>7
<1>3. QED BY <1>1, <1>2, EntrySteps

(* Whatever the host installs, in whatever order, no key has two best entries. *)
THEOREM NeverTies == TablesSpec => []NoTies
<1>1. TablesInit => NoTies
  BY DEF TablesInit, NoTies
<1>2. QED BY <1>1, TypesInit, TypesStep, NoTiesStep, PTL DEF TablesSpec

(* The tie checks refuse a well-formed entry exactly when it would tie.        *)
THEOREM AdmissionExact == TablesSpec => []AdmissionIsExact
<1>1. TablesTypeOK => AdmissionIsExact
  <2> SUFFICES ASSUME TablesTypeOK, NEW e \in HostEntries, WellFormed(decl, e),
                      NEW i \in DOMAIN entries
               PROVE  Conflicts(decl, e, entries[i]) <=> TieOn(e, entries[i])
    BY DEF AdmissionIsExact
  <2>1. Fits(e) /\ decl \in TableDecls
    BY EntriesAssumption DEF Fits, TablesTypeOK
  <2>2. Fits(entries[i])
    BY EntriesFit DEF TablesTypeOK, EntryFacts
  <2>3. QED BY <2>1, <2>2, ConflictIsTie
<1>2. QED BY <1>1, TypeCorrect, PTL

-----------------------------------------------------------------------------
(* The scan                                                                    *)

Seen == {i \in 1 .. Len(entries) : i < scan.at /\ KeysMatch(decl, entries[i], scan.keys)}

(* Before every step, best is the best of the entries seen so far.             *)
ScanInv ==
  scan # Idle =>
    /\ scan.best = 0 => Seen = {}
    /\ scan.best # 0 => /\ scan.best \in Seen
                        /\ \A i \in Seen \ {scan.best} :
                             Beats(decl, entries[scan.best], entries[i])

LEMMA ScanStep == ASSUME TablesTypeOK, NoTies, ScanInv, [TablesNext]_installVars PROVE ScanInv'
<1>0. /\ EntryFacts /\ DOMAIN entries = 1 .. Len(entries) /\ Len(entries) \in Nat
      /\ decl \in TableDecls
  BY DEF TablesTypeOK, EntryFacts
<1>1. CASE UNCHANGED <<decl, entries, scan>>
  BY <1>1 DEF ScanInv, Seen
<1>2. CASE scan' = Idle
  BY <1>2 DEF ScanInv
<1>3. ASSUME NEW ks \in LookupKeys, StartLookup(ks) PROVE ScanInv'
  <2>1. scan'.at = 1 /\ scan'.best = 0 /\ entries' = entries
    BY <1>3 DEF StartLookup
  <2>2. Seen' = {}
    BY <1>0, <2>1 DEF Seen
  <2>3. QED BY <2>1, <2>2 DEF ScanInv
<1>4. CASE ScanEntry
  <2> DEFINE n == scan.at
             wins == /\ KeysMatch(decl, entries[n], scan.keys)
                     /\ scan.best = 0 \/ Beats(decl, entries[n], entries[scan.best])
  <2>1. /\ scan \in [keys : LookupKeys, at : 1 .. Len(entries) + 1, best : 0 .. Len(entries)]
        /\ n \in 1 .. Len(entries) /\ scan # Idle
    BY <1>0, <1>4 DEF ScanEntry, Answered, TablesTypeOK
  <2>2. /\ UNCHANGED <<decl, entries>>
        /\ scan' = [scan EXCEPT !.at = n + 1, !.best = IF wins THEN n ELSE scan.best]
    BY <1>4 DEF ScanEntry
  <2>3. /\ scan'.at = n + 1 /\ scan'.keys = scan.keys
        /\ scan'.best = IF wins THEN n ELSE scan.best
    BY <2>1, <2>2
  <2>4. Seen' = IF KeysMatch(decl, entries[n], scan.keys) THEN Seen \cup {n} ELSE Seen
    BY <1>0, <2>1, <2>2, <2>3 DEF Seen
  <2>5. n \notin Seen /\ Seen \subseteq DOMAIN entries
    BY <1>0, <2>1 DEF Seen
  <2>6. \A i \in DOMAIN entries : Fits(entries[i])
    BY <1>0, EntriesFit
  <2>7. CASE wins
    <3>1. scan'.best = n /\ n \in Seen' /\ n # 0
      BY <2>1, <2>3, <2>4, <2>7
    <3>2. ASSUME NEW i \in Seen' \ {n} PROVE Beats(decl, entries[n], entries[i])
      <4>1. i \in Seen /\ scan.best # 0 /\ Beats(decl, entries[n], entries[scan.best])
        BY <2>1, <2>4, <2>7, <3>2 DEF ScanInv
      <4>2. CASE i = scan.best
        BY <4>1, <4>2
      <4>3. CASE i # scan.best
        <5>1. scan.best \in Seen /\ Beats(decl, entries[scan.best], entries[i])
          BY <2>1, <4>1, <4>3 DEF ScanInv
        <5>2. QED BY <1>0, <2>1, <2>5, <2>6, <4>1, <5>1, BeatsTransitive
      <4>4. QED BY <4>2, <4>3
    <3>3. QED BY <2>2, <3>1, <3>2 DEF ScanInv
  <2>8. CASE ~wins /\ KeysMatch(decl, entries[n], scan.keys)
    <3>1. scan.best # 0 /\ ~Beats(decl, entries[n], entries[scan.best]) /\ scan'.best = scan.best
      BY <2>3, <2>8
    <3>2. scan.best \in Seen /\ KeysMatch(decl, entries[scan.best], scan.keys)
      BY <2>1, <3>1 DEF ScanInv, Seen
    <3>3. Beats(decl, entries[scan.best], entries[n])
      <4>1. ~TieOn(entries[scan.best], entries[n])
        BY <1>0, <2>1, <2>5, <3>2 DEF NoTies
      <4>2. QED BY <2>1, <2>8, <3>1, <3>2, <4>1 DEF TieOn, Unordered
    <3>4. QED BY <2>1, <2>2, <2>4, <2>8, <3>1, <3>2, <3>3 DEF ScanInv
  <2>9. CASE ~KeysMatch(decl, entries[n], scan.keys)
    BY <2>1, <2>2, <2>3, <2>4, <2>9 DEF ScanInv
  <2>10. QED BY <2>7, <2>8, <2>9
<1>5. CASE InstallConst
  <2>1. scan = Idle /\ UNCHANGED scan
    BY <1>5 DEF InstallConst, TablesTypeOK
  <2>2. QED BY <1>2, <2>1
<1>6. ASSUME NEW e \in HostEntries, Install(e) PROVE ScanInv'
  BY <1>2, <1>6 DEF Install, Built
<1>7. ASSUME NEW a \in HostActions, SetDefault(a) PROVE ScanInv'
  BY <1>2, <1>7 DEF SetDefault, Built
<1>8. CASE Answer \/ UNCHANGED installVars
  BY <1>1, <1>2, <1>8 DEF Answer, installVars
<1>9. QED BY <1>3, <1>4, <1>5, <1>6, <1>7, <1>8 DEF TablesNext

(* A finished lookup returns the longest prefix or highest priority of all the *)
(* matching entries, and misses only when there is none.                       *)
THEOREM LookupCorrect == TablesSpec => []LookupIsBest
<1>1. TablesInit => ScanInv /\ NoTies
  BY DEF TablesInit, ScanInv, NoTies
<1>2. TablesTypeOK /\ ScanInv => LookupIsBest
  <2> SUFFICES ASSUME TablesTypeOK, ScanInv, Answered PROVE LookupIsBest
    BY DEF LookupIsBest
  <2>1. /\ DOMAIN entries = 1 .. Len(entries) /\ Len(entries) \in Nat /\ scan # Idle
        /\ scan.at \in 1 .. Len(entries) + 1 /\ scan.at > Len(entries)
    BY DEF TablesTypeOK, Answered
  <2>2. Seen = {i \in DOMAIN entries : KeysMatch(decl, entries[i], scan.keys)}
    BY <2>1 DEF Seen
  <2>3. Match.hit <=> scan.best # 0
    BY DEF Match
  <2>4. QED BY <2>1, <2>2, <2>3 DEF LookupIsBest, ScanInv
<1>3. TablesSpec => [](TablesTypeOK /\ ScanInv)
  BY <1>1, TypesInit, TypesStep, NoTiesStep, ScanStep, PTL DEF TablesSpec
<1>4. QED BY <1>2, <1>3, PTL

(* The fallback of a miss is never removed and a const one never replaced.     *)
THEOREM DefaultsKept == TablesSpec => []DefaultKept
<1>1. TablesInit => DefaultKept
  BY DEF TablesInit, DefaultKept
<1>2. TablesTypeOK /\ DefaultKept /\ [TablesNext]_installVars => DefaultKept'
  <2> SUFFICES ASSUME TablesTypeOK, DefaultKept, [TablesNext]_installVars PROVE DefaultKept'
    OBVIOUS
  <2>1. NoAction \notin decl.actions
    BY DeclsAssumption DEF TablesTypeOK
  <2>2. ASSUME NEW a \in HostActions, SetDefault(a) PROVE DefaultKept'
    BY <2>1, <2>2 DEF SetDefault, DefaultKept
  <2>3. CASE UNCHANGED <<decl, default>>
    BY <2>3 DEF DefaultKept
  <2>4. QED
    BY <2>2, <2>3 DEF TablesNext, InstallConst, Install, StartLookup, ScanEntry, Answer, installVars
<1>3. QED BY <1>1, <1>2, TypesInit, TypesStep, PTL DEF TablesSpec

-----------------------------------------------------------------------------
(* Const entries: the validator's questions and the runtime's                  *)

LEMMA SameKeyCheck ==
  ASSUME NEW w \in Nat, NEW kind \in MatchKinds, NEW kv \in KeyValue, KeyPattern(kind, kv, w)
  PROVE  CheckKeyValue(kind, kv, w)
<1>1. CASE kind = "exact"
  BY <1>1 DEF KeyPattern, CheckKeyValue, Care, BitSets
<1>2. CASE kind = "lpm"
  BY <1>2 DEF KeyPattern, CheckKeyValue, Care, BitSets
<1>3. CASE kind = "ternary"
  BY <1>3 DEF KeyPattern, CheckKeyValue, Care, BitSets
<1>4. QED BY <1>1, <1>2, <1>3 DEF MatchKinds

LEMMA CheckedFits ==
  ASSUME decl \in TableDecls, NEW e \in Entry(decl.actions), CheckEntry(decl, e)
  PROVE  Fits(e)
<1>1. ASSUME NEW i \in DOMAIN decl.kinds
      PROVE  CheckKeyValue(decl.kinds[i], e.keys[i], decl.widths[i])
  <2>1. e.keys[i] \in KeyValue /\ KeyPattern(decl.kinds[i], e.keys[i], decl.widths[i])
    BY DeclType DEF CheckEntry, Entry
  <2>2. QED BY <2>1, DeclType, SameKeyCheck
<1>2. QED BY <1>1 DEF Fits, WellFormed, IsEntry, CheckEntry, Entry

(* What the validator reports of two entries of a table.                       *)
Clash(a, b) ==
  IF Ternary(decl)
  THEN /\ a.priority = b.priority
       /\ \A k \in DOMAIN decl.kinds : PatternsOverlap(a.keys[k], b.keys[k], decl.widths[k])
  ELSE \A k \in DOMAIN decl.kinds : PatternsEqual(a.keys[k], b.keys[k], decl.widths[k])

LEMMA ConflictIsClash ==
  ASSUME decl \in TableDecls, NEW e, Fits(e), NEW other, Fits(other), Conflicts(decl, e, other)
  PROVE  Clash(other, e)
<1>1. \A i \in DOMAIN decl.kinds :
        /\ decl.kinds[i] \in MatchKinds /\ decl.widths[i] \in Nat
        /\ e.keys[i] \in KeyValue /\ CheckKeyValue(decl.kinds[i], e.keys[i], decl.widths[i])
        /\ other.keys[i] \in KeyValue
        /\ CheckKeyValue(decl.kinds[i], other.keys[i], decl.widths[i])
  BY DeclType, FitsKeys
<1>2. CASE Ternary(decl)
  <2>1. e.priority = other.priority /\ Overlaps(decl, e, other)
    BY <1>2 DEF Conflicts
  <2>2. ASSUME NEW i \in DOMAIN decl.kinds
        PROVE  PatternsOverlap(other.keys[i], e.keys[i], decl.widths[i])
    <3>1. Agree(e.keys[i], other.keys[i], decl.widths[i])
      BY <2>1 DEF Overlaps
    <3>2. CASE decl.kinds[i] = "exact"
      <4>1. e.keys[i].value = other.keys[i].value
        BY <1>1, <3>1, <3>2, AgreeIsEqual
      <4>2. QED BY <4>1 DEF PatternsOverlap
    <3>3. CASE decl.kinds[i] # "exact"
      BY <1>1, <3>1, <3>3 DEF PatternsOverlap, Agree, CheckKeyValue
    <3>4. QED BY <3>2, <3>3
  <2>3. QED BY <1>2, <2>1, <2>2 DEF Clash
<1>3. CASE ~Ternary(decl)
  <2>1. ASSUME NEW i \in DOMAIN decl.kinds
        PROVE  PatternsEqual(other.keys[i], e.keys[i], decl.widths[i])
    <3>1. CASE decl.kinds[i] = "exact"
      BY <1>1, <1>3, <3>1 DEF Conflicts, SameKeys, PatternsEqual, CheckKeyValue
    <3>2. CASE decl.kinds[i] = "lpm"
      BY <1>1, <1>3, <3>2 DEF Conflicts, SameKeys, PatternsEqual, CheckKeyValue, Care
    <3>3. QED BY <1>1, <1>3, <3>1, <3>2 DEF Ternary, MatchKinds
  <2>2. QED BY <1>3, <2>1 DEF Clash
<1>4. QED BY <1>2, <1>3

(* What is still to install is checked, and clashes neither with what has been *)
(* installed nor with itself.                                                  *)
ConstInv ==
  uninstalled # <<>> =>
    /\ result # "InstallError"
    /\ \A i \in 1 .. Len(uninstalled) : CheckEntry(decl, uninstalled[i])
    /\ \A i, j \in 1 .. Len(uninstalled) : i < j => ~Clash(uninstalled[i], uninstalled[j])
    /\ \A i \in 1 .. Len(entries), j \in 1 .. Len(uninstalled) : ~Clash(entries[i], uninstalled[j])

LEMMA ConstInit == TablesInit => ConstInv
<1> SUFFICES ASSUME TablesInit PROVE ConstInv
  OBVIOUS
<1>1. ValidConstEntries(decl, uninstalled) /\ Len(entries) = 0 /\ result = "none"
  BY DEF TablesInit
<1>2. \A i \in 1 .. Len(uninstalled) : CheckEntry(decl, uninstalled[i])
  BY <1>1 DEF ValidConstEntries
<1>3. ASSUME NEW i \in 1 .. Len(uninstalled), NEW j \in 1 .. Len(uninstalled), i < j
      PROVE  ~Clash(uninstalled[i], uninstalled[j])
  BY <1>1, <1>3 DEF ValidConstEntries, Clash
<1>4. QED BY <1>1, <1>2, <1>3 DEF ConstInv

LEMMA ConstInstalls == ASSUME TablesTypeOK, ConstInv, InstallConst PROVE ConstInv'
<1>1. /\ EntryFacts /\ decl \in TableDecls /\ decl' = decl
      /\ DOMAIN entries = 1 .. Len(entries) /\ Len(entries) \in Nat
      /\ uninstalled \in Seq(Entry(decl.actions)) /\ uninstalled # <<>>
  BY DEF TablesTypeOK, EntryFacts, InstallConst
<1> DEFINE e == Head(uninstalled)
<1>2. /\ e = uninstalled[1] /\ 1 \in 1 .. Len(uninstalled) /\ Len(uninstalled) \in Nat
      /\ e \in Entry(decl.actions)
  BY <1>1
<1>3. Fits(e)
  BY <1>1, <1>2, CheckedFits DEF ConstInv
<1>4. \A i \in DOMAIN entries : ~Conflicts(decl, e, entries[i])
  BY <1>1, <1>2, <1>3, EntriesFit, ConflictIsClash DEF ConstInv
<1>5. entries' = Append(entries, e) /\ result' = "ok" /\ uninstalled' = Tail(uninstalled)
  BY <1>3, <1>4 DEF InstallConst, Admit, Fits
<1>6. /\ Len(uninstalled') = Len(uninstalled) - 1
      /\ \A i \in 1 .. Len(uninstalled') : uninstalled'[i] = uninstalled[i + 1] /\ i + 1 \in 1 .. Len(uninstalled)
  BY <1>1, <1>2, <1>5
<1>7. /\ Len(entries') = Len(entries) + 1
      /\ \A i \in 1 .. Len(entries) : entries'[i] = entries[i]
      /\ entries'[Len(entries) + 1] = e
  BY <1>1, <1>2, <1>5, AppendEntries DEF EntryFacts
<1>8. \A a, b : Clash(a, b)' <=> Clash(a, b)
  BY <1>1 DEF Clash
<1>9. \A i \in 1 .. Len(uninstalled') : CheckEntry(decl, uninstalled'[i])
  BY <1>1, <1>6 DEF ConstInv
<1>10. ASSUME NEW i \in 1 .. Len(uninstalled'), NEW j \in 1 .. Len(uninstalled'), i < j
       PROVE  ~Clash(uninstalled'[i], uninstalled'[j])
  BY <1>1, <1>2, <1>6, <1>10 DEF ConstInv
<1>11. ASSUME NEW i \in 1 .. Len(entries'), NEW j \in 1 .. Len(uninstalled')
       PROVE  ~Clash(entries'[i], uninstalled'[j])
  <2>1. CASE i \in 1 .. Len(entries)
    BY <1>1, <1>6, <1>7, <2>1 DEF ConstInv
  <2>2. CASE i = Len(entries) + 1
    <3>1. entries'[i] = uninstalled[1] /\ uninstalled'[j] = uninstalled[j + 1] /\ j + 1 \in 1 .. Len(uninstalled)
      BY <1>2, <1>6, <1>7, <2>2
    <3>2. 1 < j + 1
      BY <1>2, <1>6
    <3>3. QED BY <1>1, <1>2, <3>1, <3>2 DEF ConstInv
  <2>3. QED BY <1>1, <1>7, <2>1, <2>2
<1>12. QED BY <1>1, <1>5, <1>8, <1>9, <1>10, <1>11 DEF ConstInv

(* Building a validated program's tables never fails: what the validator       *)
(* accepts as const entries, the runtime installs, for every table, width and  *)
(* number of entries.                                                          *)
THEOREM ConstEntriesAlwaysInstall == TablesSpec => []ConstEntriesInstall
<1>1. TablesTypeOK /\ ConstInv /\ [TablesNext]_installVars => ConstInv'
  <2> SUFFICES ASSUME TablesTypeOK, ConstInv, [TablesNext]_installVars PROVE ConstInv'
    OBVIOUS
  <2>1. CASE InstallConst
    BY <2>1, ConstInstalls
  <2>2. ASSUME NEW e \in HostEntries, Install(e) PROVE ConstInv'
    BY <2>2 DEF Install, Built, ConstInv
  <2>3. ASSUME NEW a \in HostActions, SetDefault(a) PROVE ConstInv'
    BY <2>3 DEF SetDefault, Built, ConstInv
  <2>4. ASSUME NEW ks \in LookupKeys, StartLookup(ks) PROVE ConstInv'
    BY <2>4 DEF StartLookup, Built, ConstInv
  <2>5. CASE ScanEntry \/ Answer \/ UNCHANGED installVars
    BY <2>5 DEF ScanEntry, Answer, installVars, ConstInv, Clash
  <2>6. QED BY <2>1, <2>2, <2>3, <2>4, <2>5 DEF TablesNext
<1>2. ConstInv => ConstEntriesInstall
  BY DEF ConstInv, ConstEntriesInstall
<1>3. QED BY <1>1, <1>2, ConstInit, TypesInit, TypesStep, PTL DEF TablesSpec

-----------------------------------------------------------------------------
(* A P4 table's entries and the IR's (module TableEntries)                     *)

(* Among finitely many ranks one is the largest.                               *)
LEMMA Greatest ==
  ASSUME NEW n \in Nat, NEW r \in [1 .. n -> Int], NEW H \in SUBSET (1 .. n), H # {}
  PROVE  \E i \in H : \A j \in H : r[i] >= r[j]
<1> DEFINE Good(k) == \A K \in SUBSET (1 .. k) : K # {} => \E i \in K : \A j \in K : r[i] >= r[j]
           G == {k \in 0 .. n : Good(k)}
<1>1. Good(0)
  <2>1. \A K \in SUBSET (1 .. 0) : K = {}
    OBVIOUS
  <2>2. QED BY <2>1
<1>2. ASSUME NEW k \in 1 .. n, Good(k - 1) PROVE Good(k)
  <2> SUFFICES ASSUME NEW K \in SUBSET (1 .. k), K # {}
               PROVE  \E i \in K : \A j \in K : r[i] >= r[j]
    OBVIOUS
  <2>1. CASE K \ {k} = {}
    <3>1. K = {k} /\ r[k] \in Int
      BY <2>1
    <3>2. QED BY <3>1
  <2>2. CASE K \ {k} # {}
    <3>1. K \ {k} \in SUBSET (1 .. k - 1)
      OBVIOUS
    <3>2. PICK i \in K \ {k} : \A j \in K \ {k} : r[i] >= r[j]
      BY <1>2, <2>2, <3>1
    <3>3. \A j \in K : r[j] \in Int
      OBVIOUS
    <3>4. CASE k \in K /\ ~(r[i] >= r[k])
      <4>1. \A j \in K : r[k] >= r[j]
        BY <3>2, <3>3, <3>4
      <4>2. QED BY <3>4, <4>1
    <3>5. CASE k \notin K \/ r[i] >= r[k]
      <4>1. \A j \in K : r[i] >= r[j]
        BY <3>2, <3>5
      <4>2. QED BY <3>2, <4>1
    <3>6. QED BY <3>4, <3>5
  <2>3. QED BY <2>1, <2>2
<1>3. \A k \in 0 .. n : k \in G
  <2> HIDE DEF Good
  <2>1. 0 \in G /\ \A k \in 1 .. n : k - 1 \in G => k \in G
    BY <1>1, <1>2
  <2> HIDE DEF G
  <2>2. QED BY <2>1, Upward
<1>4. Good(n)
  <2> HIDE DEF Good
  <2>1. QED BY <1>3
<1>5. QED BY <1>4

LpmKeys(t) == {i \in DOMAIN t.kinds : t.kinds[i] = "lpm"}
Prefix(t, e, i) == Cardinality(P4Care(e.keysets[i], t.widths[i]))
LEMMA RankByPrefix ==
  ASSUME NEW t, NEW e, ~ \E k \in Range(t.kinds) : k = "ternary",
         \A i \in LpmKeys(t) : Prefix(t, e, i) \in Nat,
         \A i, j \in LpmKeys(t) : i = j
  PROVE  /\ LpmKeys(t) = {} => P4Rank(t, e) = 0
         /\ \A i \in LpmKeys(t) : P4Rank(t, e) = Prefix(t, e, i)
<1> DEFINE S == LpmKeys(t)
           IsSum(f) == f = [s \in SUBSET S |->
              IF s = {} THEN 0
              ELSE Prefix(t, e, CHOOSE x \in s : TRUE) + f[s \ {CHOOSE x \in s : TRUE}]]
<1>1. P4Rank(t, e) = (CHOOSE f : IsSum(f))[S]
  BY DEF P4Rank, MapThenSumSet, MapThenFoldSet, LpmKeys, Prefix
<1> DEFINE f == [s \in SUBSET S |-> IF s = {} THEN 0 ELSE Prefix(t, e, CHOOSE x \in s : TRUE)]
<1>2. \A s \in SUBSET S : s # {} => (CHOOSE x \in s : TRUE) \in S /\ s \ {CHOOSE x \in s : TRUE} = {}
  OBVIOUS
<1>3. IsSum(f)
  <2>1. \A s \in SUBSET S :
          f[s] = IF s = {} THEN 0
                 ELSE Prefix(t, e, CHOOSE x \in s : TRUE) + f[s \ {CHOOSE x \in s : TRUE}]
    <3> SUFFICES ASSUME NEW s \in SUBSET S, s # {}
                 PROVE  f[s] = Prefix(t, e, CHOOSE x \in s : TRUE) + f[s \ {CHOOSE x \in s : TRUE}]
      OBVIOUS
    <3>1. f[s \ {CHOOSE x \in s : TRUE}] = 0
      BY <1>2
    <3>2. f[s] = Prefix(t, e, CHOOSE x \in s : TRUE) /\ Prefix(t, e, CHOOSE x \in s : TRUE) \in Nat
      BY <1>2
    <3>3. QED BY <3>1, <3>2
  <2>2. QED BY <2>1
<1> DEFINE h == CHOOSE g : IsSum(g)
<1>4. IsSum(h)
  BY <1>3
<1>5. h[{}] = 0 /\ (S # {} => h[S] = Prefix(t, e, CHOOSE x \in S : TRUE) + h[S \ {CHOOSE x \in S : TRUE}])
  <2> HIDE DEF h
  <2>1. QED BY <1>4
<1>6. P4Rank(t, e) = h[S]
  BY <1>1
<1> HIDE DEF h, f, IsSum
<1>7. S = {} => P4Rank(t, e) = 0
  BY <1>5, <1>6
<1>8. ASSUME NEW i \in S PROVE P4Rank(t, e) = Prefix(t, e, i)
  <2>1. S = {i} /\ (CHOOSE x \in S : TRUE) = i
    OBVIOUS
  <2>2. h[S] = Prefix(t, e, i) + 0
    BY <1>5, <2>1
  <2>3. QED BY <1>6, <2>2
<1>9. QED BY <1>7, <1>8

-----------------------------------------------------------------------------
(* One keyset and its key value                                                *)

(* A key's mask is what its keyset compares.                                   *)
LEMMA MaskIsCare ==
  ASSUME NEW k \in Keyset, NEW w \in Nat
  PROVE  KeyMask(k, w) = P4Care(k, w) /\ P4Care(k, w) \subseteq Full(w)
BY DEF Keyset, KeyMask, P4Care

LEMMA PrefixIsNat ==
  ASSUME NEW k \in Keyset, NEW w \in Nat
  PROVE  Cardinality(P4Care(k, w)) \in Nat
<1>1. IsFiniteSet(Full(w))
  BY FS_Interval DEF Full
<1>2. QED BY <1>1, MaskIsCare, FS_Subset, FS_CardinalityType

(* A key value compares the bits its keyset compares, to the same value.       *)
LEMMA KeyValueMeans ==
  ASSUME NEW kind \in T!MatchKinds, NEW w \in Nat, NEW k \in Keyset, KeyFits(kind, w, k)
  PROVE  LET kv == KeyValueIR(kind, w, k)
         IN /\ T!Care(kv, w) = P4Care(k, w)
            /\ kv.value = k.value \cap P4Care(k, w)
            /\ kv.kind = kind
            /\ kind = "lpm" => kv.prefix_len = Cardinality(P4Care(k, w))
            /\ kind = "ternary" => kv.mask = P4Care(k, w)
<1> DEFINE kv == KeyValueIR(kind, w, k)
           c == P4Care(k, w)
<1>0. KeyMask(k, w) = c /\ c \subseteq Full(w)
  BY MaskIsCare
<1>1. /\ kv.kind = kind /\ kv.value = k.value \cap c
      /\ kind = "lpm" => kv.prefix_len = Cardinality(c)
      /\ kind = "ternary" => kv.mask = c
  BY <1>0 DEF KeyValueIR
<1> HIDE DEF kv, c
<1>2. CASE kind = "exact"
  <2>1. c = Full(w)
    BY <1>0, <1>2 DEF KeyFits
  <2>2. T!Care(kv, w) = 0 .. w - 1
    BY <1>1, <1>2 DEF T!Care
  <2>3. QED BY <1>1, <1>2, <2>1, <2>2 DEF Full, kv, c
<1>3. CASE kind = "lpm"
  <2>1. c = w - Cardinality(c) .. w - 1
    BY <1>0, <1>3 DEF KeyFits
  <2>2. T!Care(kv, w) = w - kv.prefix_len .. w - 1
    BY <1>1, <1>3 DEF T!Care
  <2>3. T!Care(kv, w) = c
    BY <1>1, <1>3, <2>1, <2>2
  <2>4. QED BY <1>1, <1>3, <2>3 DEF kv, c
<1>4. CASE kind = "ternary"
  <2>1. T!Care(kv, w) = kv.mask
    BY <1>1, <1>4 DEF T!Care
  <2>2. QED BY <1>1, <1>4, <2>1 DEF kv, c
<1>5. QED BY <1>2, <1>3, <1>4 DEF T!MatchKinds

-----------------------------------------------------------------------------
(* The entries of a translated table                                           *)

IRPriority(t, e) == IF "ternary" \in Range(t.kinds) THEN Priority(t, e) ELSE 0
EntriesOf(t) == [i \in DOMAIN t.entries |-> EntryIR(t, t.entries[i], IRPriority(t, t.entries[i]))]
AllFit(t) == \A e \in Range(t.entries) : EntryFits(t, e)

LEMMA RangeOf ==
  ASSUME NEW s
  PROVE  (\A i \in DOMAIN s : s[i] \in Range(s)) /\ (\A x \in Range(s) : \E i \in DOMAIN s : s[i] = x)
BY DEF Range

(* What a typed table whose entries fit is made of.                            *)
LEMMA P4Types ==
  ASSUME NEW t, IsP4Table(t), AllFit(t)
  PROVE  /\ DOMAIN t.kinds = 1 .. Len(t.kinds) /\ Len(t.kinds) \in Nat
         /\ \A i \in DOMAIN t.kinds : t.kinds[i] \in T!MatchKinds /\ t.widths[i] \in Nat
         /\ DOMAIN t.entries = 1 .. Len(t.entries) /\ Len(t.entries) \in Nat
         /\ \A n \in DOMAIN t.entries :
              /\ t.entries[n].priority \in Int
              /\ Len(t.entries[n].keysets) = Len(t.kinds)
              /\ \A i \in DOMAIN t.kinds :
                   /\ t.entries[n].keysets[i] \in Keyset
                   /\ KeyFits(t.kinds[i], t.widths[i], t.entries[n].keysets[i])
<1>1. /\ DOMAIN t.kinds = 1 .. Len(t.kinds) /\ Len(t.kinds) \in Nat
      /\ \A i \in DOMAIN t.kinds : t.kinds[i] \in T!MatchKinds /\ t.widths[i] \in Nat
      /\ DOMAIN t.entries = 1 .. Len(t.entries) /\ Len(t.entries) \in Nat
  BY DEF IsP4Table
<1>2. ASSUME NEW n \in DOMAIN t.entries
      PROVE  /\ t.entries[n].priority \in Int
             /\ Len(t.entries[n].keysets) = Len(t.kinds)
             /\ \A i \in DOMAIN t.kinds :
                  /\ t.entries[n].keysets[i] \in Keyset
                  /\ KeyFits(t.kinds[i], t.widths[i], t.entries[n].keysets[i])
  <2> DEFINE e == t.entries[n]
  <2>1. e \in Range(t.entries)
    BY RangeOf
  <2>2. e.keysets \in Seq(Keyset) /\ e.priority \in Int
    BY <2>1 DEF IsP4Table
  <2>3. /\ Len(e.keysets) = Len(t.kinds)
        /\ \A i \in DOMAIN t.kinds : KeyFits(t.kinds[i], t.widths[i], e.keysets[i])
    BY <2>1 DEF AllFit, EntryFits
  <2> HIDE DEF e
  <2>4. \A i \in DOMAIN t.kinds : e.keysets[i] \in Keyset
    BY <1>1, <2>2, <2>3
  <2>5. QED BY <2>2, <2>3, <2>4 DEF e
<1>3. QED BY <1>1, <1>2

(* What the frontend has made of a table whose properties are all translated.  *)
Made(t) ==
  /\ translated = [kinds |-> t.kinds, widths |-> t.widths, actions |-> translated.actions,
                   default_action |-> t.default, entries |-> EntriesOf(t), ok |-> TRUE]
  /\ AllFit(t)

LEMMA EntryKeys ==
  ASSUME NEW t, IsP4Table(t), Made(t), NEW n \in DOMAIN t.entries
  PROVE  LET e == t.entries[n]
             ir == translated.entries[n]
         IN /\ ir.action = e.action /\ ir.priority = IRPriority(t, e)
            /\ \A i \in DOMAIN t.kinds :
                 LET c == P4Care(e.keysets[i], t.widths[i])
                 IN /\ T!Care(ir.keys[i], t.widths[i]) = c
                    /\ ir.keys[i].value = e.keysets[i].value \cap c
                    /\ ir.keys[i].kind = t.kinds[i]
                    /\ t.kinds[i] = "lpm" => ir.keys[i].prefix_len = Cardinality(c)
                    /\ t.kinds[i] = "ternary" => ir.keys[i].mask = c
                    /\ Cardinality(c) \in Nat
<1> DEFINE e == t.entries[n]
           ir == translated.entries[n]
<1>1. ir = EntryIR(t, e, IRPriority(t, e))
  BY DEF Made, EntriesOf
<1>2. /\ ir.action = e.action /\ ir.priority = IRPriority(t, e)
      /\ \A i \in DOMAIN t.kinds : ir.keys[i] = KeyValueIR(t.kinds[i], t.widths[i], e.keysets[i])
  BY <1>1 DEF EntryIR
<1>3. \A i \in DOMAIN t.kinds :
        /\ t.kinds[i] \in T!MatchKinds /\ t.widths[i] \in Nat
        /\ e.keysets[i] \in Keyset /\ KeyFits(t.kinds[i], t.widths[i], e.keysets[i])
  BY P4Types DEF Made
<1> HIDE DEF ir, e
<1>4. \A i \in DOMAIN t.kinds :
        LET c == P4Care(e.keysets[i], t.widths[i])
        IN /\ T!Care(ir.keys[i], t.widths[i]) = c
           /\ ir.keys[i].value = e.keysets[i].value \cap c
           /\ ir.keys[i].kind = t.kinds[i]
           /\ t.kinds[i] = "lpm" => ir.keys[i].prefix_len = Cardinality(c)
           /\ t.kinds[i] = "ternary" => ir.keys[i].mask = c
           /\ Cardinality(c) \in Nat
  <2> SUFFICES ASSUME NEW i \in DOMAIN t.kinds
               PROVE LET c == P4Care(e.keysets[i], t.widths[i])
                     IN /\ T!Care(ir.keys[i], t.widths[i]) = c
                        /\ ir.keys[i].value = e.keysets[i].value \cap c
                        /\ ir.keys[i].kind = t.kinds[i]
                        /\ t.kinds[i] = "lpm" => ir.keys[i].prefix_len = Cardinality(c)
                        /\ t.kinds[i] = "ternary" => ir.keys[i].mask = c
                        /\ Cardinality(c) \in Nat
    OBVIOUS
  <2>1. ir.keys[i] = KeyValueIR(t.kinds[i], t.widths[i], e.keysets[i])
    BY <1>2
  <2>2. QED BY <1>3, <2>1, KeyValueMeans, PrefixIsNat
<1>5. QED BY <1>2, <1>4 DEF ir, e

(* An entry matches the keys its keysets do.                                   *)
LEMMA MatchesAlike ==
  ASSUME NEW t, IsP4Table(t), Made(t), NEW n \in DOMAIN t.entries, NEW ks
  PROVE  T!KeysMatch(translated, translated.entries[n], ks) <=> P4Matches(t, t.entries[n], ks)
<1>1. translated.kinds = t.kinds /\ translated.widths = t.widths
  BY DEF Made
<1>2. ASSUME NEW i \in DOMAIN t.kinds
      PROVE  T!KeyValueMatches(translated.entries[n].keys[i], ks[i], t.widths[i])
               <=> ks[i] \cap P4Care(t.entries[n].keysets[i], t.widths[i])
                   = t.entries[n].keysets[i].value \cap P4Care(t.entries[n].keysets[i], t.widths[i])
  <2> DEFINE c == P4Care(t.entries[n].keysets[i], t.widths[i])
             kv == translated.entries[n].keys[i]
             v == t.entries[n].keysets[i].value
  <2>1. T!Care(kv, t.widths[i]) = c /\ kv.value = v \cap c
    BY EntryKeys
  <2> HIDE DEF c, kv, v
  <2>2. T!KeyValueMatches(kv, ks[i], t.widths[i]) <=> ks[i] \cap c = v \cap c
    <3>1. (v \cap c) \cap c = v \cap c
      OBVIOUS
    <3>2. QED BY <2>1, <3>1 DEF T!KeyValueMatches
  <2>3. QED BY <2>2 DEF c, kv, v
<1>3. QED BY <1>1, <1>2 DEF T!KeysMatch, P4Matches

(* The largest priority is a number.                                           *)
LEMMA MaxIsInt ==
  ASSUME NEW t, IsP4Table(t), AllFit(t), t.entries # <<>>
  PROVE  Max({t.entries[i].priority : i \in DOMAIN t.entries}) \in Int
<1> DEFINE r == [i \in DOMAIN t.entries |-> t.entries[i].priority]
           S == {t.entries[i].priority : i \in DOMAIN t.entries}
<1>1. /\ DOMAIN t.entries = 1 .. Len(t.entries) /\ Len(t.entries) \in Nat
      /\ \A i \in DOMAIN t.entries : t.entries[i].priority \in Int
  BY P4Types
<1>2. DOMAIN t.entries # {}
  BY <1>1 DEF IsP4Table
<1>3. r \in [1 .. Len(t.entries) -> Int]
  BY <1>1
<1>4. PICK i \in DOMAIN t.entries : \A j \in DOMAIN t.entries : r[i] >= r[j]
  BY <1>1, <1>2, <1>3, Greatest
<1>5. t.entries[i].priority \in S /\ \A y \in S : t.entries[i].priority >= y
  BY <1>4
<1>6. S \subseteq Int
  BY <1>1
<1> HIDE DEF S
<1>7. Max(S) \in S
  BY <1>5 DEF Max
<1>8. QED BY <1>6, <1>7 DEF S

OneLpm(t) ==
  \A i, j \in DOMAIN t.kinds : t.kinds[i] = "lpm" /\ i # j => t.kinds[j] = "exact"

(* Ranks are numbers, and one entry beats another when its rank is larger.     *)
LEMMA RanksAlike ==
  ASSUME NEW t, IsP4Table(t), Made(t), OneLpm(t),
         NEW m \in DOMAIN t.entries, NEW n \in DOMAIN t.entries
  PROVE  /\ P4Rank(t, t.entries[m]) \in Int
         /\ T!Beats(translated, translated.entries[m], translated.entries[n])
              <=> P4Rank(t, t.entries[m]) > P4Rank(t, t.entries[n])
<1> DEFINE e == t.entries[m]
           f == t.entries[n]
           ire == translated.entries[m]
           irf == translated.entries[n]
<1>0. translated.kinds = t.kinds /\ AllFit(t)
  BY DEF Made
<1>1. /\ T!Ternary(translated) <=> "ternary" \in Range(t.kinds)
      /\ (\E k \in Range(t.kinds) : k = "ternary") <=> "ternary" \in Range(t.kinds)
  BY <1>0, RangeOf DEF T!Ternary
<1>2. CASE "ternary" \in Range(t.kinds)
  <2>1. e.priority \in Int /\ f.priority \in Int
    BY <1>0, P4Types
  <2>2. ire.priority = Priority(t, e) /\ irf.priority = Priority(t, f)
    BY <1>2, EntryKeys DEF IRPriority
  <2>3. T!Beats(translated, ire, irf) <=> Priority(t, e) > Priority(t, f)
    BY <1>1, <1>2, <2>2 DEF T!Beats
  <2>4. CASE t.largest
    <3>1. P4Rank(t, e) = e.priority /\ P4Rank(t, f) = f.priority
      BY <1>1, <1>2, <2>4 DEF P4Rank
    <3>2. Priority(t, e) = e.priority /\ Priority(t, f) = f.priority
      BY <2>4 DEF Priority
    <3>3. QED BY <2>1, <2>3, <3>1, <3>2
  <2>5. CASE ~t.largest
    <3> DEFINE top == Max({t.entries[i].priority : i \in DOMAIN t.entries})
    <3>1. P4Rank(t, e) = -e.priority /\ P4Rank(t, f) = -f.priority
      BY <1>1, <1>2, <2>5 DEF P4Rank
    <3>2. Priority(t, e) = top + 1 - e.priority /\ Priority(t, f) = top + 1 - f.priority
      BY <2>5 DEF Priority
    <3>3. top \in Int
      BY <1>0, MaxIsInt
    <3> HIDE DEF top, e, f
    <3>4. (top + 1 - e.priority > top + 1 - f.priority) <=> (-e.priority > -f.priority)
      BY <2>1, <3>3
    <3>5. -e.priority \in Int
      BY <2>1
    <3>6. P4Rank(t, e) \in Int /\ (T!Beats(translated, ire, irf) <=> P4Rank(t, e) > P4Rank(t, f))
      BY <2>3, <3>1, <3>2, <3>4, <3>5
    <3>7. QED BY <3>6 DEF e, f
  <2>6. QED BY <2>4, <2>5
<1>3. CASE "ternary" \notin Range(t.kinds)
  <2>1. \A i, j \in LpmKeys(t) : i = j
    BY DEF LpmKeys, OneLpm
  <2>2. \A i \in DOMAIN t.kinds : Prefix(t, e, i) \in Nat /\ Prefix(t, f, i) \in Nat
    BY EntryKeys DEF Prefix
  <2>3. T!Beats(translated, ire, irf) <=> T!PrefixLength(translated, ire) > T!PrefixLength(translated, irf)
    BY <1>1, <1>3 DEF T!Beats
  <2>4. CASE LpmKeys(t) = {}
    <3>1. P4Rank(t, e) = 0 /\ P4Rank(t, f) = 0
      BY <1>1, <1>3, <2>1, <2>2, <2>4, RankByPrefix
    <3>2. T!PrefixLength(translated, ire) = 0 /\ T!PrefixLength(translated, irf) = 0
      BY <1>0, <2>4 DEF T!PrefixLength, LpmKeys
    <3>3. QED BY <2>3, <3>1, <3>2
  <2>5. ASSUME NEW i \in LpmKeys(t)
        PROVE  /\ P4Rank(t, e) \in Int
               /\ T!Beats(translated, ire, irf) <=> P4Rank(t, e) > P4Rank(t, f)
    <3>1. i \in DOMAIN t.kinds /\ t.kinds[i] = "lpm"
      BY DEF LpmKeys
    <3>2. P4Rank(t, e) = Prefix(t, e, i) /\ P4Rank(t, f) = Prefix(t, f, i)
      <4>1. \A j \in LpmKeys(t) : Prefix(t, e, j) \in Nat /\ Prefix(t, f, j) \in Nat
        BY <2>2 DEF LpmKeys
      <4>2. QED BY <1>1, <1>3, <2>1, <4>1, RankByPrefix
    <3>3. (CHOOSE j \in DOMAIN translated.kinds : translated.kinds[j] = "lpm") = i
      BY <1>0, <2>1, <3>1 DEF LpmKeys
    <3>4. /\ T!PrefixLength(translated, ire) = ire.keys[i].prefix_len
          /\ T!PrefixLength(translated, irf) = irf.keys[i].prefix_len
      BY <1>0, <3>1, <3>3 DEF T!PrefixLength
    <3>5. ire.keys[i].prefix_len = Prefix(t, e, i) /\ irf.keys[i].prefix_len = Prefix(t, f, i)
      BY <3>1, EntryKeys DEF Prefix
    <3>6. QED BY <2>2, <2>3, <3>1, <3>2, <3>4, <3>5
  <2>6. QED BY <2>4, <2>5
<1>4. QED BY <1>2, <1>3

(* Of two entries with one rank that match one key, the validator reports one. *)
LEMMA BestIsOne ==
  ASSUME NEW t, IsP4Table(t), Made(t), Accepted, OneLpm(t), NEW ks,
         NEW m \in P4Hits(t, ks), NEW n \in P4Hits(t, ks), m < n,
         P4Rank(t, t.entries[m]) = P4Rank(t, t.entries[n])
  PROVE  FALSE
<1> DEFINE e == t.entries[m]
           f == t.entries[n]
           x == translated.entries[m]
           y == translated.entries[n]
           checked == [translated EXCEPT !.actions = Range(@)]
<1>0. /\ translated.kinds = t.kinds /\ translated.widths = t.widths /\ AllFit(t)
      /\ checked.kinds = t.kinds /\ checked.widths = t.widths
      /\ DOMAIN t.entries = 1 .. Len(t.entries) /\ Len(translated.entries) = Len(t.entries)
      /\ T!ValidConstEntries(checked, translated.entries)
  <2>1. AllFit(t) /\ DOMAIN t.entries = 1 .. Len(t.entries) /\ Len(t.entries) \in Nat
    BY P4Types DEF Made
  <2>2. translated.entries = EntriesOf(t) /\ Len(EntriesOf(t)) = Len(t.entries)
    BY <2>1 DEF Made, EntriesOf
  <2>3. T!ValidConstEntries(checked, translated.entries)
    BY DEF Accepted
  <2>4. QED BY <2>1, <2>2, <2>3 DEF Made
<1>1. m \in DOMAIN t.entries /\ n \in DOMAIN t.entries /\ P4Matches(t, e, ks) /\ P4Matches(t, f, ks)
  BY DEF P4Hits
<1>2. ~T!Beats(translated, x, y) /\ ~T!Beats(translated, y, x)
  <2>1. P4Rank(t, e) \in Int /\ P4Rank(t, f) \in Int
    BY <1>1, RanksAlike
  <2>2. QED BY <1>1, <2>1, RanksAlike
<1> HIDE DEF checked
<1>3. ASSUME NEW i \in DOMAIN t.kinds
      PROVE  LET c == P4Care(e.keysets[i], t.widths[i])
                 d == P4Care(f.keysets[i], t.widths[i])
             IN /\ T!Care(x.keys[i], t.widths[i]) = c /\ T!Care(y.keys[i], t.widths[i]) = d
                /\ x.keys[i].value = ks[i] \cap c /\ y.keys[i].value = ks[i] \cap d
                /\ x.keys[i].kind = t.kinds[i]
                /\ t.kinds[i] = "lpm" => x.keys[i].prefix_len = Cardinality(c)
                                          /\ y.keys[i].prefix_len = Cardinality(d)
                /\ t.kinds[i] = "exact" => c = Full(t.widths[i]) /\ d = Full(t.widths[i])
                /\ t.kinds[i] = "lpm" => /\ c = t.widths[i] - Cardinality(c) .. t.widths[i] - 1
                                          /\ d = t.widths[i] - Cardinality(d) .. t.widths[i] - 1
  <2> DEFINE c == P4Care(e.keysets[i], t.widths[i])
             d == P4Care(f.keysets[i], t.widths[i])
  <2>1. ks[i] \cap c = e.keysets[i].value \cap c /\ ks[i] \cap d = f.keysets[i].value \cap d
    BY <1>1 DEF P4Matches
  <2>2. /\ T!Care(x.keys[i], t.widths[i]) = c /\ x.keys[i].value = e.keysets[i].value \cap c
        /\ x.keys[i].kind = t.kinds[i]
        /\ t.kinds[i] = "lpm" => x.keys[i].prefix_len = Cardinality(c)
    BY <1>1, EntryKeys
  <2>3. /\ T!Care(y.keys[i], t.widths[i]) = d /\ y.keys[i].value = f.keysets[i].value \cap d
        /\ t.kinds[i] = "lpm" => y.keys[i].prefix_len = Cardinality(d)
    BY <1>1, EntryKeys
  <2>4. /\ e.keysets[i] \in Keyset /\ KeyFits(t.kinds[i], t.widths[i], e.keysets[i])
        /\ f.keysets[i] \in Keyset /\ KeyFits(t.kinds[i], t.widths[i], f.keysets[i])
        /\ t.widths[i] \in Nat
    BY <1>0, <1>1, P4Types
  <2>5. KeyMask(e.keysets[i], t.widths[i]) = c /\ KeyMask(f.keysets[i], t.widths[i]) = d
    BY <2>4, MaskIsCare
  <2>6. /\ t.kinds[i] = "exact" => c = Full(t.widths[i]) /\ d = Full(t.widths[i])
        /\ t.kinds[i] = "lpm" => /\ c = t.widths[i] - Cardinality(c) .. t.widths[i] - 1
                                  /\ d = t.widths[i] - Cardinality(d) .. t.widths[i] - 1
    <3> HIDE DEF c, d
    <3>1. QED BY <2>4, <2>5 DEF KeyFits
  <2> HIDE DEF c, d
  <2>7. /\ T!Care(x.keys[i], t.widths[i]) = c /\ T!Care(y.keys[i], t.widths[i]) = d
        /\ x.keys[i].value = ks[i] \cap c /\ y.keys[i].value = ks[i] \cap d
        /\ x.keys[i].kind = t.kinds[i]
    BY <2>1, <2>2, <2>3
  <2>8. QED BY <2>2, <2>3, <2>6, <2>7 DEF c, d
<1>4. CASE T!Ternary(translated)
  <2>1. T!Ternary(checked)
    BY <1>0, <1>4 DEF T!Ternary
  <2>2. x.priority = y.priority
    <3>1. P4Rank(t, e) = P4Rank(t, f)
      OBVIOUS
    <3>2. x.priority = IRPriority(t, e) /\ y.priority = IRPriority(t, f)
      BY <1>1, EntryKeys
    <3>3. "ternary" \in Range(t.kinds) /\ \E k \in Range(t.kinds) : k = "ternary"
      BY <1>0, <1>4, RangeOf DEF T!Ternary
    <3>4. e.priority \in Int /\ f.priority \in Int
      BY <1>0, <1>1, P4Types
    <3>5. e.priority = f.priority
      BY <3>1, <3>3, <3>4 DEF P4Rank
    <3>6. QED BY <3>2, <3>5 DEF IRPriority, Priority
  <2>3. ASSUME NEW i \in DOMAIN t.kinds
        PROVE  T!PatternsOverlap(x.keys[i], y.keys[i], t.widths[i])
    <3> DEFINE c == P4Care(e.keysets[i], t.widths[i])
               d == P4Care(f.keysets[i], t.widths[i])
    <3>1. /\ T!Care(x.keys[i], t.widths[i]) = c /\ T!Care(y.keys[i], t.widths[i]) = d
          /\ x.keys[i].value = ks[i] \cap c /\ y.keys[i].value = ks[i] \cap d
          /\ x.keys[i].kind = t.kinds[i]
          /\ t.kinds[i] = "exact" => c = d
      BY <1>3
    <3> HIDE DEF c, d, x, y
    <3>2. (ks[i] \cap c) \cap (c \cap d) = (ks[i] \cap d) \cap (c \cap d)
      OBVIOUS
    <3>3. QED BY <3>1, <3>2 DEF T!PatternsOverlap
  <2>4. QED BY <1>0, <1>1, <2>1, <2>2, <2>3 DEF T!ValidConstEntries
<1>5. CASE ~T!Ternary(translated)
  <2>1. ~T!Ternary(checked)
    BY <1>0, <1>5 DEF T!Ternary
  <2>2. ASSUME NEW i \in DOMAIN t.kinds
        PROVE  T!PatternsEqual(x.keys[i], y.keys[i], t.widths[i])
    <3> DEFINE c == P4Care(e.keysets[i], t.widths[i])
               d == P4Care(f.keysets[i], t.widths[i])
    <3>1. /\ T!Care(x.keys[i], t.widths[i]) = c /\ T!Care(y.keys[i], t.widths[i]) = d
          /\ x.keys[i].value = ks[i] \cap c /\ y.keys[i].value = ks[i] \cap d
          /\ x.keys[i].kind = t.kinds[i]
          /\ t.kinds[i] = "exact" => c = d
          /\ t.kinds[i] = "lpm" => /\ x.keys[i].prefix_len = Cardinality(c)
                                   /\ y.keys[i].prefix_len = Cardinality(d)
          /\ t.kinds[i] = "lpm" => /\ c = t.widths[i] - Cardinality(c) .. t.widths[i] - 1
                                    /\ d = t.widths[i] - Cardinality(d) .. t.widths[i] - 1
      BY <1>3
    <3>2. CASE t.kinds[i] = "exact"
      BY <3>1, <3>2 DEF T!PatternsEqual
    <3>3. CASE t.kinds[i] = "lpm"
      <4>1. P4Rank(t, e) = Cardinality(c) /\ P4Rank(t, f) = Cardinality(d)
        <5>1. \A j, k \in LpmKeys(t) : j = k
          BY DEF LpmKeys, OneLpm
        <5>2. i \in LpmKeys(t)
          BY <3>3 DEF LpmKeys
        <5>3. \A j \in LpmKeys(t) : Prefix(t, e, j) \in Nat /\ Prefix(t, f, j) \in Nat
          BY <1>1, EntryKeys DEF Prefix, LpmKeys
        <5>4. ~ \E k \in Range(t.kinds) : k = "ternary"
          BY <1>0, <1>5, RangeOf DEF T!Ternary
        <5>5. P4Rank(t, e) = Prefix(t, e, i) /\ P4Rank(t, f) = Prefix(t, f, i)
          BY <5>1, <5>2, <5>3, <5>4, RankByPrefix
        <5>6. QED BY <5>5 DEF Prefix
      <4>2. Cardinality(c) = Cardinality(d)
        BY <4>1
      <4> HIDE DEF c, d, x, y
      <4>3. c = d /\ x.keys[i].prefix_len = y.keys[i].prefix_len
        BY <3>1, <3>3, <4>2
      <4>4. QED BY <3>1, <3>3, <4>3 DEF T!PatternsEqual
    <3>4. t.kinds[i] \in {"exact", "lpm"}
      BY <1>0, <1>5, P4Types DEF T!Ternary, T!MatchKinds
    <3>5. QED BY <3>2, <3>3, <3>4
  <2>3. QED BY <1>0, <1>1, <2>1, <2>2 DEF T!ValidConstEntries
<1>6. QED BY <1>4, <1>5

(* So both orders choose one action.                                           *)
LEMMA SameChoice ==
  ASSUME NEW t, IsP4Table(t), Made(t), Accepted, NEW ks
  PROVE  P4Action(t, ks) = IRAction(ks)
<1> DEFINE H == P4Hits(t, ks)
           rank(i) == P4Rank(t, t.entries[i])
           es == translated.entries
<1>1. /\ OneLpm(t) /\ translated.default_action = t.default
      /\ DOMAIN t.entries = 1 .. Len(t.entries) /\ Len(t.entries) \in Nat
      /\ DOMAIN es = DOMAIN t.entries
  <2>1. AllFit(t) /\ translated.default_action = t.default /\ es = EntriesOf(t) /\ translated.kinds = t.kinds
    BY DEF Made
  <2>2. OneLpm(t)
    BY <2>1 DEF Accepted, OneLpm, Made
  <2>3. QED BY <2>1, <2>2, P4Types DEF EntriesOf
<1>2. H \subseteq DOMAIN t.entries
  BY DEF P4Hits
<1>3. \A n \in DOMAIN t.entries : n \in H <=> T!KeysMatch(translated, es[n], ks)
  BY MatchesAlike DEF P4Hits
<1>4. (\A n \in H : es[n] \in Hits(ks)) /\ (\A e \in Hits(ks) : \E n \in H : es[n] = e)
  BY <1>1, <1>2, <1>3, RangeOf DEF Hits
<1>5. \A m, n \in H : rank(m) \in Int /\ (T!Beats(translated, es[m], es[n]) <=> rank(m) > rank(n))
  BY <1>1, <1>2, RanksAlike
<1>6. \A m, n \in H : rank(m) = rank(n) => m = n
  <2> SUFFICES ASSUME NEW m \in H, NEW n \in H, rank(m) = rank(n), m # n PROVE FALSE
    OBVIOUS
  <2>1. m \in Nat /\ n \in Nat
    BY <1>1, <1>2
  <2>2. m < n \/ n < m
    BY <2>1
  <2>3. QED BY <1>1, <2>2, BestIsOne
<1>7. \A n \in DOMAIN t.entries : es[n].action = t.entries[n].action
  BY EntryKeys
<1>8. CASE H = {}
  BY <1>1, <1>4, <1>8 DEF P4Action, IRAction
<1>9. CASE H # {}
  <2> DEFINE Best(i) == i \in H /\ \A j \in H : rank(i) >= rank(j)
             best == CHOOSE i \in H : \A j \in H : rank(i) >= rank(j)
             Top(e) == e \in Hits(ks) /\ \A f \in Hits(ks) : ~T!Beats(translated, f, e)
             top == CHOOSE e \in Hits(ks) : \A f \in Hits(ks) : ~T!Beats(translated, f, e)
  <2>1. \E i : Best(i)
    <3> DEFINE r == [n \in 1 .. Len(t.entries) |-> rank(n)]
    <3>1. r \in [1 .. Len(t.entries) -> Int]
      BY <1>1, RanksAlike
    <3> HIDE DEF rank
    <3>2. \A n \in H : r[n] = rank(n)
      BY <1>1, <1>2
    <3> HIDE DEF r, H
    <3>3. PICK i \in H : \A j \in H : r[i] >= r[j]
      BY <1>1, <1>2, <1>9, <3>1, Greatest
    <3>4. QED BY <3>2, <3>3
  <2>2. Best(best)
    BY <2>1
  <2> HIDE DEF H, rank, es, best
  <2>3. Top(es[best])
    <3>1. \A n \in H : ~T!Beats(translated, es[n], es[best])
      BY <1>5, <2>2
    <3>2. QED BY <1>4, <2>2, <3>1
  <2>4. Top(top)
    BY <2>3
  <2> HIDE DEF top
  <2>5. PICK n \in H : es[n] = top
    BY <1>4, <2>4
  <2>6. ~T!Beats(translated, es[best], es[n])
    BY <1>4, <2>2, <2>4, <2>5
  <2>7. rank(n) = rank(best)
    BY <1>5, <2>2, <2>5, <2>6
  <2>8. n = best
    BY <1>6, <2>2, <2>5, <2>7
  <2>9. top.action = t.entries[best].action
    BY <1>2, <1>7, <2>2, <2>5, <2>8
  <2>10. Hits(ks) # {}
    BY <1>4, <2>2
  <2>11. P4Action(t, ks) = t.entries[best].action
    BY <1>9 DEF P4Action, H, best, rank
  <2>12. IRAction(ks) = top.action
    BY <2>10 DEF IRAction, top
  <2>13. QED BY <2>9, <2>11, <2>12
<1>10. QED BY <1>8, <1>9

-----------------------------------------------------------------------------
(* Every property, in whatever order, leaves its part of the table.            *)

Left(p) == p \in Range(properties)
IRTable(kinds, widths, actions, fallback, es, ok) ==
  [kinds |-> kinds, widths |-> widths, actions |-> actions, default_action |-> fallback,
   entries |-> es, ok |-> ok]
Shaped ==
  translated = IRTable(translated.kinds, translated.widths, translated.actions,
                       translated.default_action, translated.entries, translated.ok)

(* Entries written before the keys have none, and are refused.                 *)
Keyless(t, es) == t.kinds # <<>> /\ 1 \in DOMAIN es /\ es[1].keys = <<>> /\ Len(es) \in Nat \ {0}
                  /\ DOMAIN es = 1 .. Len(es)
KeysDone(t, tab) == tab.kinds = t.kinds /\ tab.widths = t.widths
TableInv ==
  /\ declared \in P4Tables /\ properties \in Seq(Properties) /\ Shaped
  /\ KeysDone(declared, translated) \/ (Left("key") /\ translated.kinds = <<>>)
  /\ translated.default_action = declared.default \/ Left("default_action")
  /\ translated.ok =>
       \/ translated.entries = EntriesOf(declared) /\ AllFit(declared)
       \/ Left("entries")
       \/ Keyless(declared, translated.entries)
  /\ translated.ok \in BOOLEAN
  /\ ChoosesAsWritten

Raised(t, tab) ==
  \/ \E e \in Range(t.entries) : ~EntryFits(tab, e)
  \/ "ternary" \in Range(tab.kinds) /\ \E e \in Range(t.entries) : e.priority = NoPriority
EntriesIn(t, tab) ==
  [i \in DOMAIN t.entries |->
     EntryIR(tab, t.entries[i], IF "ternary" \in Range(tab.kinds) THEN Priority(t, t.entries[i]) ELSE 0)]

(* What each property leaves of a table.                                       *)
LEMMA KeyProperty ==
  ASSUME NEW k, NEW w, NEW a, NEW d, NEW x, NEW ok, NEW t, NEW tab, tab = IRTable(k, w, a, d, x, ok)
  PROVE  Property(t, tab, "key") = IRTable(t.kinds, t.widths, a, d, x, ok)
<1>1. ASSUME NEW y, NEW z
      PROVE  [tab EXCEPT !.kinds = y, !.widths = z] = IRTable(y, z, a, d, x, ok)
  <2>1. PICK u : u = [tab EXCEPT !.kinds = y]
    OBVIOUS
  <2>2. u = IRTable(y, w, a, d, x, ok)
    BY <2>1 DEF IRTable
  <2>3. [u EXCEPT !.widths = z] = IRTable(y, z, a, d, x, ok)
    BY <2>2 DEF IRTable
  <2>4. [tab EXCEPT !.kinds = y, !.widths = z] = [u EXCEPT !.widths = z]
    BY <2>1
  <2>5. QED BY <2>3, <2>4
<1>2. [tab EXCEPT !.kinds = t.kinds, !.widths = t.widths] = IRTable(t.kinds, t.widths, a, d, x, ok)
  BY <1>1
<1>3. QED BY <1>2 DEF Property

LEMMA ActionsProperty ==
  ASSUME NEW k, NEW w, NEW a, NEW d, NEW x, NEW ok, NEW t, NEW tab, tab = IRTable(k, w, a, d, x, ok)
  PROVE  Property(t, tab, "actions") = IRTable(k, w, ListedActions(t), d, x, ok)
<1>1. \A y : [tab EXCEPT !.actions = y] = IRTable(k, w, y, d, x, ok)
  BY DEF IRTable
<1>2. [tab EXCEPT !.actions = ListedActions(t)] = IRTable(k, w, ListedActions(t), d, x, ok)
  BY <1>1
<1>3. QED BY <1>2 DEF Property

LEMMA DefaultProperty ==
  ASSUME NEW k, NEW w, NEW a, NEW d, NEW x, NEW ok, NEW t, NEW tab, tab = IRTable(k, w, a, d, x, ok)
  PROVE  Property(t, tab, "default_action") = IRTable(k, w, a, t.default, x, ok)
<1>1. \A y : [tab EXCEPT !.default_action = y] = IRTable(k, w, a, y, x, ok)
  BY DEF IRTable
<1>2. [tab EXCEPT !.default_action = t.default] = IRTable(k, w, a, t.default, x, ok)
  BY <1>1
<1>3. QED BY <1>2 DEF Property

LEMMA RaisedProperty ==
  ASSUME NEW k, NEW w, NEW a, NEW d, NEW x, NEW ok, NEW t, NEW tab,
         tab = IRTable(k, w, a, d, x, ok), Raised(t, tab)
  PROVE  Property(t, tab, "entries") = IRTable(k, w, a, d, x, FALSE)
<1>1. \A y : [tab EXCEPT !.ok = y] = IRTable(k, w, a, d, x, y)
  BY DEF IRTable
<1>2. [tab EXCEPT !.ok = FALSE] = IRTable(k, w, a, d, x, FALSE)
  BY <1>1
<1>3. Entries(t, tab) = [tab EXCEPT !.ok = FALSE]
  BY DEF Entries, Raised, EntriesIn
<1>4. QED BY <1>2, <1>3 DEF Property

LEMMA EntriesProperty ==
  ASSUME NEW k, NEW w, NEW a, NEW d, NEW x, NEW ok, NEW t, NEW tab,
         tab = IRTable(k, w, a, d, x, ok), ~Raised(t, tab)
  PROVE  Property(t, tab, "entries") = IRTable(k, w, a, d, EntriesIn(t, tab), ok)
<1>1. \A y : [tab EXCEPT !.entries = y] = IRTable(k, w, a, d, y, ok)
  BY DEF IRTable
<1>2. [tab EXCEPT !.entries = EntriesIn(t, tab)] = IRTable(k, w, a, d, EntriesIn(t, tab), ok)
  BY <1>1
<1>3. Entries(t, tab) = [tab EXCEPT !.entries = EntriesIn(t, tab)]
  BY DEF Entries, Raised, EntriesIn
<1>4. QED BY <1>2, <1>3 DEF Property

(* Entries read before the keys have none, which the validator refuses.        *)
LEMMA TranslatedEntries ==
  ASSUME NEW t, IsP4Table(t), NEW tab, KeysDone(t, tab) \/ tab.kinds = <<>>, ~Raised(t, tab)
  PROVE  (EntriesIn(t, tab) = EntriesOf(t) /\ AllFit(t)) \/ Keyless(t, EntriesIn(t, tab))
<1> DEFINE es == EntriesIn(t, tab)
<1>0. DOMAIN t.entries = 1 .. Len(t.entries) /\ Len(t.entries) \in Nat
  BY DEF IsP4Table
<1>1. CASE KeysDone(t, tab)
  <2>1. AllFit(t)
    BY <1>1 DEF Raised, AllFit, EntryFits, KeysDone
  <2>2. es = EntriesOf(t)
    BY <1>1 DEF EntriesIn, EntriesOf, IRPriority, KeysDone, EntryIR
  <2>3. QED BY <2>1, <2>2
<1>2. CASE ~KeysDone(t, tab) /\ t.entries # <<>>
  <2>1. tab.kinds = <<>> /\ DOMAIN tab.kinds = {}
    BY <1>2
  <2>2. 1 \in DOMAIN t.entries
    BY <1>0, <1>2 DEF IsP4Table
  <2>3. es[1].keys = <<>>
    BY <2>1, <2>2 DEF EntriesIn, EntryIR
  <2>4. DOMAIN es = 1 .. Len(t.entries) /\ Len(es) = Len(t.entries) /\ 1 \in DOMAIN es
    BY <1>0, <2>2 DEF EntriesIn
  <2>5. CASE t.kinds # <<>>
    BY <1>0, <2>2, <2>3, <2>4, <2>5 DEF Keyless
  <2>6. CASE t.kinds = <<>>
    <3>1. es = EntriesOf(t)
      BY <2>1, <2>6 DEF EntriesIn, EntriesOf, IRPriority, EntryIR
    <3>2. AllFit(t)
      BY <2>1, <2>6 DEF Raised, AllFit, EntryFits
    <3>3. QED BY <3>1, <3>2
  <2>7. QED BY <2>5, <2>6
<1>3. CASE t.entries = <<>>
  <2>1. DOMAIN t.entries = {} /\ Range(t.entries) = {}
    BY <1>3 DEF Range
  <2>2. es = EntriesOf(t) /\ AllFit(t)
    BY <2>1 DEF EntriesIn, EntriesOf, AllFit
  <2>3. QED BY <2>2
<1>4. QED BY <1>1, <1>2, <1>3

LEMMA PropertyTaken ==
  ASSUME properties \in Seq(Properties), properties # <<>>, properties' = Tail(properties)
  PROVE  /\ properties' \in Seq(Properties) /\ Head(properties) \in Properties
         /\ \A p : Left(p) <=> p = Head(properties) \/ Left(p)'
<1>1. /\ Len(properties) \in Nat \ {0} /\ DOMAIN properties = 1 .. Len(properties)
      /\ Tail(properties) \in Seq(Properties)
      /\ Head(properties) = properties[1] /\ Head(properties) \in Properties
      /\ Len(Tail(properties)) = Len(properties) - 1
      /\ DOMAIN Tail(properties) = 1 .. Len(properties) - 1
      /\ \A i \in 1 .. Len(properties) - 1 : Tail(properties)[i] = properties[i + 1]
  OBVIOUS
<1>2. ASSUME NEW p, Left(p) PROVE p = Head(properties) \/ Left(p)'
  <2>1. PICK i \in DOMAIN properties : properties[i] = p
    BY <1>2 DEF Left, Range
  <2>2. CASE i = 1
    BY <1>1, <2>1, <2>2
  <2>3. CASE i # 1
    <3>1. i - 1 \in DOMAIN Tail(properties) /\ Tail(properties)[i - 1] = p
      BY <1>1, <2>1, <2>3
    <3>2. QED BY <3>1 DEF Left, Range
  <2>4. QED BY <2>2, <2>3
<1>3. ASSUME NEW p, p = Head(properties) \/ Left(p)' PROVE Left(p)
  <2>1. CASE p = Head(properties)
    BY <1>1, <2>1 DEF Left, Range
  <2>2. CASE Left(p)'
    <3>1. PICK i \in DOMAIN Tail(properties) : Tail(properties)[i] = p
      BY <2>2 DEF Left, Range
    <3>2. i + 1 \in DOMAIN properties /\ properties[i + 1] = p
      BY <1>1, <3>1
    <3>3. QED BY <3>2 DEF Left, Range
  <2>3. QED BY <1>3, <2>1, <2>2
<1>4. QED BY <1>1, <1>2, <1>3

LEMMA TranslateStep == ASSUME TableInv, Translate PROVE TableInv'
<1> DEFINE p == Head(properties)
           t == declared
<1>1. /\ declared' = declared /\ properties # <<>> /\ properties' = Tail(properties) /\ translated.ok
      /\ translated' = Property(t, translated, p) /\ chosen' = chosen
  BY DEF Translate
<1>2. properties' \in Seq(Properties) /\ \A q : Left(q) <=> q = p \/ Left(q)'
  BY <1>1, PropertyTaken DEF TableInv
<1>3. IsP4Table(t) /\ t \in P4Tables
  BY P4TablesAssumption DEF TableInv
<1>4. ChoosesAsWritten'
  BY <1>1 DEF TableInv, ChoosesAsWritten
<1> DEFINE old == translated
           new == translated'
<1>5. PICK k, w, a, d, x, ok : old = IRTable(k, w, a, d, x, ok)
  BY <1>1 DEF TableInv, Shaped
<1>6. /\ old.kinds = k /\ old.widths = w /\ old.actions = a
      /\ old.default_action = d /\ old.entries = x /\ old.ok = ok
  BY <1>5 DEF IRTable
<1>7. /\ (k = t.kinds /\ w = t.widths) \/ (Left("key") /\ k = <<>>)
      /\ d = t.default \/ Left("default_action")
      /\ \/ x = EntriesOf(t) /\ AllFit(t)
         \/ Left("entries")
         \/ Keyless(t, x)
  BY <1>1, <1>6 DEF TableInv, KeysDone
<1> DEFINE Done(kk, ww, dd, xx, okk) ==
             /\ (kk = t.kinds /\ ww = t.widths) \/ (Left("key")' /\ kk = <<>>)
             /\ dd = t.default \/ Left("default_action")'
             /\ okk => \/ xx = EntriesOf(t) /\ AllFit(t)
                       \/ Left("entries")'
                       \/ Keyless(t, xx)
<1>8. ASSUME NEW kk, NEW ww, NEW aa, NEW dd, NEW xx, NEW okk \in BOOLEAN,
             new = IRTable(kk, ww, aa, dd, xx, okk), Done(kk, ww, dd, xx, okk)
      PROVE  TableInv'
  <2>1. /\ new.kinds = kk /\ new.widths = ww /\ new.actions = aa /\ new.default_action = dd
        /\ new.entries = xx /\ new.ok = okk
    BY <1>8 DEF IRTable
  <2>2. Shaped'
    BY <1>8, <2>1 DEF Shaped
  <2>3. \A s : /\ (EntriesOf(s)' = EntriesOf(s)) /\ (AllFit(s)' <=> AllFit(s))
              /\ \A es : (Keyless(s, es)' <=> Keyless(s, es))
    BY DEF EntriesOf, AllFit, Keyless
  <2>4. (KeysDone(declared, translated) \/ (Left("key") /\ translated.kinds = <<>>))'
    BY <1>1, <1>8, <2>1 DEF KeysDone
  <2>5. QED BY <1>1, <1>2, <1>3, <1>4, <1>8, <2>1, <2>2, <2>4 DEF TableInv
<1>9. new = Property(t, old, p) /\ ok \in BOOLEAN
  BY <1>1, <1>6 DEF TableInv
<1> HIDE DEF old, new, p
<1>10. CASE p = "key"
  <2>1. new = IRTable(t.kinds, t.widths, a, d, x, ok)
    <3>1. new = Property(t, old, "key")
      BY <1>9, <1>10
    <3>2. QED BY <1>5, <3>1, KeyProperty
  <2>2. Done(t.kinds, t.widths, d, x, ok)
    BY <1>2, <1>7, <1>10
  <2>3. QED BY <1>8, <1>9, <2>1, <2>2
<1>11. CASE p = "actions"
  <2>1. new = IRTable(k, w, ListedActions(t), d, x, ok)
    <3>1. new = Property(t, old, "actions")
      BY <1>9, <1>11
    <3>2. QED BY <1>5, <3>1, ActionsProperty
  <2>2. Done(k, w, d, x, ok)
    BY <1>2, <1>7, <1>11
  <2>3. QED BY <1>8, <1>9, <2>1, <2>2
<1>12. CASE p = "default_action"
  <2>1. new = IRTable(k, w, a, t.default, x, ok)
    <3>1. new = Property(t, old, "default_action")
      BY <1>9, <1>12
    <3>2. QED BY <1>5, <3>1, DefaultProperty
  <2>2. Done(k, w, t.default, x, ok)
    BY <1>2, <1>7, <1>12
  <2>3. QED BY <1>8, <1>9, <2>1, <2>2
<1>13. CASE p = "entries"
  <2>1. new = Property(t, old, "entries")
    BY <1>9, <1>13
  <2>2. KeysDone(t, old) \/ old.kinds = <<>>
    BY <1>6, <1>7 DEF KeysDone
  <2>3. CASE Raised(t, old)
    <3>1. new = IRTable(k, w, a, d, x, FALSE)
      BY <1>5, <2>1, <2>3, RaisedProperty
    <3>2. Done(k, w, d, x, FALSE)
      BY <1>2, <1>7, <1>13
    <3>3. QED BY <1>8, <3>1, <3>2
  <2>4. CASE ~Raised(t, old)
    <3>1. new = IRTable(k, w, a, d, EntriesIn(t, old), ok)
      BY <1>5, <2>1, <2>4, EntriesProperty
    <3>2. (EntriesIn(t, old) = EntriesOf(t) /\ AllFit(t)) \/ Keyless(t, EntriesIn(t, old))
      BY <1>3, <2>2, <2>4, TranslatedEntries
    <3>3. Done(k, w, d, EntriesIn(t, old), ok)
      BY <1>2, <1>7, <1>13, <3>2
    <3>4. QED BY <1>8, <1>9, <3>1, <3>3
  <2>5. QED BY <2>3, <2>4
<1>14. CASE p = "largest_priority_wins"
  <2>1. new = IRTable(k, w, a, d, x, ok)
    <3>1. new = Property(t, old, "largest_priority_wins")
      BY <1>9, <1>14
    <3>2. QED BY <1>5, <3>1 DEF Property
  <2>2. Done(k, w, d, x, ok)
    BY <1>2, <1>7, <1>14
  <2>3. QED BY <1>8, <1>9, <2>1, <2>2
<1>15. p \in Properties
  BY <1>1, PropertyTaken DEF TableInv, p
<1>16. QED BY <1>10, <1>11, <1>12, <1>13, <1>14, <1>15 DEF Properties

LEMMA ApplyStep == ASSUME TableInv, Apply PROVE TableInv'
<1> DEFINE t == declared
<1>1. /\ UNCHANGED <<declared, translated, properties>> /\ properties = <<>> /\ Accepted
      /\ chosen' = <<P4Action(declared, keys'), IRAction(keys')>>
  BY DEF Apply
<1>2. \A q : ~Left(q)
  BY <1>1 DEF Left, Range
<1>3. IsP4Table(t)
  BY P4TablesAssumption DEF TableInv
<1>4. translated.ok
  BY <1>1 DEF Accepted
<1>5. ~Keyless(t, translated.entries)
  <2> SUFFICES ASSUME Keyless(t, translated.entries) PROVE FALSE
    OBVIOUS
  <2>1. t.kinds # <<>> /\ translated.kinds = t.kinds
    BY <1>2 DEF Keyless, TableInv, KeysDone
  <2>2. 1 \in 1 .. Len(translated.entries) /\ translated.entries[1].keys = <<>>
    BY DEF Keyless
  <2> DEFINE checked == [translated EXCEPT !.actions = Range(@)]
  <2>3. checked.kinds = translated.kinds
    <3>1. PICK k, w, a, d, x, ok : translated = IRTable(k, w, a, d, x, ok)
      BY DEF TableInv, Shaped
    <3>2. QED BY <3>1 DEF IRTable
  <2>4. T!ValidConstEntries(checked, translated.entries)
    BY <1>1 DEF Accepted
  <2> HIDE DEF checked
  <2>5. Len(<<>>) = Len(checked.kinds)
    BY <2>2, <2>4 DEF T!ValidConstEntries, T!CheckEntry
  <2>6. t.kinds \in Seq(T!MatchKinds) /\ Len(t.kinds) = 0
    BY <1>3, <2>1, <2>3, <2>5 DEF IsP4Table
  <2>7. QED BY <2>1, <2>6
<1>6. Made(t)
  <2>1. /\ translated.kinds = t.kinds /\ translated.widths = t.widths
        /\ translated.default_action = t.default
        /\ translated.entries = EntriesOf(t) /\ AllFit(t)
    BY <1>2, <1>4, <1>5 DEF TableInv, KeysDone
  <2>2. translated.ok = TRUE
    BY <1>4 DEF TableInv
  <2>3. QED BY <2>1, <2>2 DEF Made, TableInv, Shaped, IRTable
<1>7. P4Action(t, keys') = IRAction(keys')
  BY <1>1, <1>3, <1>6, SameChoice
<1>8. ChoosesAsWritten'
  BY <1>1, <1>7 DEF ChoosesAsWritten
<1>9. QED BY <1>1, <1>8 DEF TableInv, Shaped, Left, KeysDone, Keyless, EntriesOf, AllFit

(* For every table, width, number of entries and order of its properties, an   *)
(* apply of the translated table runs the action P4's order of entries chooses.*)
THEOREM ChoosesAlways == TableSpec => []ChoosesAsWritten
<1>1. TableInit => TableInv
  <2> SUFFICES ASSUME TableInit PROVE TableInv
    OBVIOUS
  <2> DEFINE t == declared
  <2>1. /\ t \in P4Tables /\ IsP4Table(t) /\ properties = t.props /\ chosen = <<>>
        /\ translated = IRTable(<<>>, <<>>, <<>>, NoDefault, <<>>, TRUE)
    BY P4TablesAssumption DEF TableInit, Empty, IRTable
  <2>2. /\ translated.kinds = <<>> /\ translated.widths = <<>> /\ translated.actions = <<>>
        /\ translated.default_action = NoDefault /\ translated.entries = <<>> /\ translated.ok = TRUE
    BY <2>1 DEF IRTable
  <2>3. Shaped
    BY <2>1, <2>2 DEF Shaped
  <2>4. KeysDone(t, translated) \/ (Left("key") /\ translated.kinds = <<>>)
    <3>1. CASE t.kinds = <<>>
      <4>1. t.widths \in Seq(Nat) /\ Len(t.widths) = 0
        BY <2>1, <3>1 DEF IsP4Table
      <4>2. t.widths = <<>>
        BY <4>1
      <4>3. QED BY <2>2, <3>1, <4>2 DEF KeysDone
    <3>2. CASE t.kinds # <<>>
      BY <2>1, <2>2, <3>2 DEF IsP4Table, Left
    <3>3. QED BY <3>1, <3>2
  <2>5. translated.default_action = t.default \/ Left("default_action")
    BY <2>1, <2>2 DEF IsP4Table, Left
  <2>6. (translated.entries = EntriesOf(t) /\ AllFit(t)) \/ Left("entries")
    <3>1. CASE t.entries = <<>>
      <4>1. DOMAIN t.entries = {} /\ Range(t.entries) = {}
        BY <3>1 DEF Range
      <4>2. QED BY <2>2, <4>1 DEF EntriesOf, AllFit
    <3>2. CASE t.entries # <<>>
      BY <2>1, <3>2 DEF IsP4Table, Left
    <3>3. QED BY <3>1, <3>2
  <2>7. QED BY <2>1, <2>2, <2>3, <2>4, <2>5, <2>6 DEF TableInv, ChoosesAsWritten, IsP4Table
<1>2. TableInv /\ [TableNext]_tableVars => TableInv'
  <2>1. CASE UNCHANGED tableVars
    BY <2>1 DEF tableVars, TableInv, Shaped, Left, KeysDone, Keyless, EntriesOf, AllFit, ChoosesAsWritten
  <2>2. QED BY <2>1, TranslateStep, ApplyStep DEF TableNext
<1>3. TableInv => ChoosesAsWritten
  BY DEF TableInv
<1>4. QED BY <1>1, <1>2, <1>3, PTL DEF TableSpec
=============================================================================
