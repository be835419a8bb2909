------------------------------ MODULE StfReplay ------------------------------
(* STF vectors (stf.py): a file is parsed, its statements are grouped into one *)
(* run per packet with the entries installed before it, and the replay         *)
(* compares the outputs of each run with what the file expects.  A bit<w>      *)
(* value is the set of its one-positions; a digit is one bit of a number and   *)
(* one nibble of a packet, "*" the digit that is not compared.                 *)
EXTENDS Numbers, Sequences, FiniteSets

CONSTANTS
  Program,   \* tables and actions: [tables, actions]
  Files,     \* kinds of files: the lines one may hold; bounds: how many, and outputs of a packet
  Emitted,   \* packets an architecture may emit: [port, data]
  PortBits   \* ports are bit<PortBits>

Absent == -1
NoMask == {Absent}

(* Numbers, and lines: fields and tables are named, a digit is a character.    *)
Number == [digits : Seq({"0", "1", "*"}), decimal : Nat \cup {Absent}]
WrittenKey == [name : STRING, number : Number, prefix_len : Nat \cup {Absent}]
WrittenArg == [name : STRING, number : Number]
WrittenTable == [name : STRING, qualifiers : SUBSET STRING]
StfLine ==
  [is : {"add"}, table : WrittenTable, keys : Seq(WrittenKey), args : Seq(WrittenArg),
   action : STRING, priority : Nat \cup {Absent}]
  \cup [is : {"setdefault"}, table : WrittenTable, action : STRING, args : Seq(WrittenArg)]
  \cup [is : {"packet"}, port : Nat, data : Seq({"0", "1", "*"})]
  \cup [is : {"expect"}, port : Nat, data : Seq({"0", "1", "*"}), exact : BOOLEAN]
  \cup [is : {"no_packet", "wait", "unreadable"}]
AnyLine == UNION {kind.lines : kind \in Files}

TableKey == [name : STRING, kind : {"exact", "lpm", "ternary"}, width : Nat]
Declared == [block : STRING, name : STRING, keys : Seq(TableKey), actions : SUBSET STRING]

ASSUME ReplayAssumption ==
  /\ Program.tables \subseteq Declared
  /\ \A kind \in Files : kind.lines \subseteq StfLine /\ kind.outputs \in Nat

(* What a run's table may be tried against: the installation checks.           *)
T == INSTANCE Tables WITH
       TableDecls <- {}, ConstLists <- <<>>, HostEntries <- {}, HostActions <- {},
       NoAction <- Absent, MaxWidth <- 0, MaxEntries <- 0, decl <- 0, entries <- 0,
       default <- 0, uninstalled <- 0, result <- 0, scan <- 0

VARIABLES
  file,      \* the lines parsed
  at,        \* the statement to group, then the run to replay
  step,      \* "parse", "group", "replay", "done", "StfError"
  installed, \* the adds and setdefaults so far: their lines
  runs,      \* one record per packet
  failures   \* Failures: the line each names

replayVars == <<file, at, step, installed, runs, failures>>

-----------------------------------------------------------------------------
(* Numbers                                                                     *)

Places(digits, d) == {Len(digits) - i : i \in {j \in DOMAIN digits : digits[j] = d}}
BitsOf(n) == {b \in 0 .. n : (n \div Pow2(b)) % 2 = 1}

(* A decimal number has neither mask nor width.                                *)
ParseNumber(n) ==
  IF n.decimal # Absent THEN [value |-> BitsOf(n.decimal), mask |-> NoMask, width |-> Absent]
  ELSE [value |-> Places(n.digits, "1"),
        mask |-> IF Places(n.digits, "*") = {} THEN NoMask
                 ELSE Places(n.digits, "0") \cup Places(n.digits, "1"),
        width |-> Len(n.digits)]

-----------------------------------------------------------------------------
(* Lines                                                                       *)

PortFits(line) == line.port < Pow2(PortBits)

(* What _parse_statement refuses; other misreadings are the line "unreadable". *)
IsReadable(line) ==
  CASE line.is = "unreadable" -> FALSE
    [] line.is = "packet" -> PortFits(line) /\ \A i \in DOMAIN line.data : line.data[i] # "*"
    [] line.is = "expect" -> PortFits(line)
    [] OTHER -> TRUE

(* Resolution.  Written names must be the wanted ones, each once.              *)
NamedOnce(written, wanted) ==
  LET Names(s) == {s[i].name : i \in DOMAIN s}
  IN Cardinality(Names(written)) = Len(written) /\ Names(written) = Names(wanted)
Named(written, name) == written[CHOOSE i \in DOMAIN written : written[i].name = name]

(* _find_table: by its last component, then by the block that qualifies it.    *)
Candidates(written) ==
  LET found == {t \in Program.tables : t.name = written.name}
  IN IF Cardinality(found) > 1 THEN {t \in found : t.block \in written.qualifiers} ELSE found
HasTable(written) == Cardinality(Candidates(written)) = 1
FindTable(written) == CHOOSE t \in Candidates(written) : TRUE

All(w) == 0 .. w - 1
PrefixLen(k, w) == IF k.prefix_len = Absent THEN w ELSE k.prefix_len

(* _key_value: is the form one the match kind takes?                           *)
KeyResolves(key, k) ==
  LET n == ParseNumber(k.number)
  IN /\ n.width <= key.width
     /\ n.value \subseteq All(key.width)
     /\ CASE key.kind = "exact" -> n.mask = NoMask /\ k.prefix_len = Absent
          [] key.kind = "lpm" ->
               /\ n.mask = NoMask /\ PrefixLen(k, key.width) <= key.width
               /\ n.value \cap (0 .. key.width - PrefixLen(k, key.width) - 1) = {}
          [] key.kind = "ternary" -> k.prefix_len = Absent

(* Fault: a bare number on a ternary key compares only the digits written.     *)
KeyValueNarrow(key, k) ==
  LET n == ParseNumber(k.number)
  IN [kind |-> key.kind, value |-> n.value,
      mask |-> IF key.kind # "ternary" THEN {}
               ELSE IF n.mask # NoMask THEN n.mask
               ELSE All(IF n.width = Absent THEN key.width ELSE n.width),
      prefix_len |-> IF key.kind = "lpm" THEN PrefixLen(k, key.width) ELSE 0]

KeyValue(key, k) ==
  LET n == ParseNumber(k.number)
  IN [kind |-> key.kind, value |-> n.value,
      mask |-> IF key.kind # "ternary" THEN {}
               ELSE IF n.mask # NoMask THEN n.mask ELSE All(key.width),
      prefix_len |-> IF key.kind = "lpm" THEN PrefixLen(k, key.width) ELSE 0]

(* _action_call                                                                *)
CallResolves(table, line) ==
  /\ line.action \in table.actions
  /\ LET params == Program.actions[line.action]
     IN /\ NamedOnce(line.args, params)
        /\ \A i \in DOMAIN params :
             ParseNumber(Named(line.args, params[i].name).number).value \subseteq All(params[i].width)

ActionCall(line) ==
  LET params == Program.actions[line.action]
  IN [action |-> line.action,
      args |-> [i \in DOMAIN params |->
                  ParseNumber(Named(line.args, params[i].name).number).value]]

HasTernary(table) == \E i \in DOMAIN table.keys : table.keys[i].kind = "ternary"

(* _entry                                                                      *)
EntryResolves(table, line) ==
  /\ NamedOnce(line.keys, table.keys)
  /\ \A i \in DOMAIN table.keys : KeyResolves(table.keys[i], Named(line.keys, table.keys[i].name))
  /\ HasTernary(table) = (line.priority # Absent)
  /\ CallResolves(table, line)

EntryOf(table, line) ==
  [keys |-> [i \in DOMAIN table.keys |-> KeyValue(table.keys[i], Named(line.keys, table.keys[i].name))],
   priority |-> IF line.priority = Absent THEN 0 ELSE line.priority,
   action |-> ActionCall(line)]

Resolves(line) ==
  /\ HasTable(line.table)
  /\ IF line.is = "add" THEN EntryResolves(FindTable(line.table), line)
     ELSE CallResolves(FindTable(line.table), line)

(* to_entries: each table's entries in file order, and its last default.       *)
NoEntries == [t \in Program.tables |-> [entries |-> <<>>, default |-> Absent]]
Installing(es, line) ==
  LET t == FindTable(line.table)
  IN [es EXCEPT ![t] =
        IF line.is = "add" THEN [entries |-> Append(es[t].entries, EntryOf(t, line)), default |-> es[t].default]
        ELSE [entries |-> es[t].entries, default |-> ActionCall(line)]]
ToEntries(lines) ==
  LET es[i \in 0 .. Len(lines)] ==
        IF i = 0 THEN NoEntries ELSE Installing(es[i - 1], file[lines[i]])
  IN es[Len(lines)]

Installs(line) == line.is \in {"add", "setdefault"}

-----------------------------------------------------------------------------
ReplayInit ==
  file = <<>> /\ at = 1 /\ step = "parse" /\ installed = <<>> /\ runs = <<>> /\ failures = {}

Parse(line) ==
  /\ step = "parse"
  /\ \E kind \in Files : Len(file) < kind.max /\ {file[i] : i \in DOMAIN file} \cup {line} \subseteq kind.lines
  /\ IF IsReadable(line) THEN file' = Append(file, line) /\ step' = step
     ELSE file' = file /\ step' = "StfError"
  /\ UNCHANGED <<at, installed, runs, failures>>

EndOfFile ==
  /\ step = "parse" /\ step' = "group"
  /\ UNCHANGED <<file, at, installed, runs, failures>>

GroupInstall ==
  /\ Installs(file[at]) /\ installed' = Append(installed, at)
  /\ UNCHANGED <<step, runs, failures>>

(* A packet resolves everything installed before it; the first that does not   *)
(* resolve raises, before any packet is run.                                   *)
GroupPacket ==
  /\ file[at].is = "packet"
  /\ IF \A i \in DOMAIN installed : Resolves(file[installed[i]])
     THEN /\ runs' = Append(runs, [packet |-> at, entries |-> ToEntries(installed),
                                   expects |-> <<>>, no_packet |-> Absent, outputs |-> <<>>])
          /\ step' = step
     ELSE runs' = runs /\ step' = "StfError"
  /\ UNCHANGED <<installed, failures>>

Fail == failures' = failures \cup {at} /\ runs' = runs
ClaimLast(run) == runs' = [runs EXCEPT ![Len(runs)] = run] /\ failures' = failures

GroupExpect ==
  /\ file[at].is = "expect"
  /\ IF runs = <<>> THEN Fail
     ELSE ClaimLast([runs[Len(runs)] EXCEPT !.expects = Append(@, at)])
  /\ UNCHANGED <<step, installed>>

GroupNoPacket ==
  /\ file[at].is = "no_packet"
  /\ IF runs = <<>> \/ runs[Len(runs)].expects # <<>> THEN Fail
     ELSE ClaimLast([runs[Len(runs)] EXCEPT !.no_packet = at])
  /\ UNCHANGED <<step, installed>>

GroupWait ==
  /\ file[at].is = "wait"
  /\ UNCHANGED <<step, installed, runs, failures>>

Group ==
  /\ step = "group" /\ at \in DOMAIN file /\ at' = at + 1 /\ file' = file
  /\ GroupInstall \/ GroupPacket \/ GroupExpect \/ GroupNoPacket \/ GroupWait

EndOfGroups ==
  /\ step = "group" /\ at = Len(file) + 1
  /\ step' = "replay" /\ at' = 1
  /\ UNCHANGED <<file, installed, runs, failures>>

(* Expect.matches                                                              *)
Matches(line, data) ==
  /\ Len(data) >= Len(line.data)
  /\ line.exact => Len(data) = Len(line.data)
  /\ \A i \in DOMAIN line.data : line.data[i] \in {"*", data[i]}

(* Fault: outputs beyond the expectations are not looked at.                   *)
CompareZip(run, outputs) ==
  {run.expects[i] : i \in {j \in DOMAIN run.expects :
     j \notin DOMAIN outputs \/ outputs[j].port # file[run.expects[j]].port
       \/ ~Matches(file[run.expects[j]], outputs[j].data)}}

(* _compare: the lines that fail.                                              *)
Compare(run, outputs) ==
  {run.expects[i] : i \in {j \in DOMAIN run.expects :
     j \notin DOMAIN outputs \/ outputs[j].port # file[run.expects[j]].port
       \/ ~Matches(file[run.expects[j]], outputs[j].data)}}
  \cup (IF Len(outputs) <= Len(run.expects) THEN {}
        ELSE {IF run.no_packet # Absent THEN run.no_packet ELSE run.packet})

(* replay: the architecture answers with any packets.                          *)
RunPacket(outputs) ==
  /\ step = "replay" /\ at \in DOMAIN runs
  /\ failures' = failures \cup Compare(runs[at], outputs)
  /\ runs' = [runs EXCEPT ![at].outputs = outputs]
  /\ at' = at + 1
  /\ UNCHANGED <<file, step, installed>>

EndOfReplay ==
  /\ step = "replay" /\ at = Len(runs) + 1 /\ step' = "done"
  /\ UNCHANGED <<file, at, installed, runs, failures>>

OutputLists ==
  UNION {[1 .. n -> Emitted] :
           n \in UNION {0 .. kind.outputs :
                          kind \in {k \in Files : {file[i] : i \in DOMAIN file} \subseteq k.lines}}}

ReplayNext ==
  \/ \E line \in AnyLine : Parse(line)
  \/ EndOfFile \/ Group \/ EndOfGroups
  \/ \E outputs \in OutputLists : RunPacket(outputs)
  \/ EndOfReplay

ReplaySpec == ReplayInit /\ [][ReplayNext]_replayVars

-----------------------------------------------------------------------------
(* A sequence that lists the numbers of a set, least first.                    *)
Lists(s, S) ==
  /\ \A i, j \in DOMAIN s : i < j => s[i] < s[j]
  /\ {s[i] : i \in DOMAIN s} = S

(* What a written key compares: its prefix, or its digits, with the unwritten  *)
(* high digits zero unless a "*" leaves them out.  Stated on digits, without   *)
(* values and masks.                                                           *)
WrittenMatches(k, v, w) ==
  LET n == k.number
      Digit(b) == IF n.decimal # Absent THEN (n.decimal \div Pow2(b)) % 2 = 1
                  ELSE b < Len(n.digits) /\ n.digits[Len(n.digits) - b] = "1"
      Starred == n.decimal = Absent /\ \E i \in DOMAIN n.digits : n.digits[i] = "*"
      Open(b) ==
        \/ k.prefix_len # Absent /\ b < w - k.prefix_len
        \/ Starred /\ (b >= Len(n.digits) \/ n.digits[Len(n.digits) - b] = "*")
  IN \A b \in All(w) : Open(b) \/ (b \in v) = Digit(b)

(* Through parsing, masks and canonical forms, an entry matches the keys its   *)
(* line reads as matching, in every table and every run, in the file's order.  *)
AddsTo(t, n) == {l \in DOMAIN file : l < n /\ file[l].is = "add" /\ FindTable(file[l].table) = t}
MatchesAsWritten(t, e, line) ==
  \A k \in DOMAIN t.keys : \A v \in SUBSET All(t.keys[k].width) :
    T!KeyValueMatches(e.keys[k], v, t.keys[k].width)
      = WrittenMatches(Named(line.keys, t.keys[k].name), v, t.keys[k].width)
EntriesMatchAsWritten ==
  \A r \in DOMAIN runs : \A t \in Program.tables :
    LET es == runs[r].entries[t].entries
    IN \E lines \in [DOMAIN es -> AddsTo(t, runs[r].packet)] :
         /\ Lists(lines, AddsTo(t, runs[r].packet))
         /\ \A i \in DOMAIN es : MatchesAsWritten(t, es[i], file[lines[i]])

(* An entry STF resolved is one InstalledEntries.install finds well formed: a  *)
(* mistake of the file is reported with its line, never at installation.       *)
DeclOf(t) ==
  [kinds |-> [i \in DOMAIN t.keys |-> t.keys[i].kind],
   widths |-> [i \in DOMAIN t.keys |-> t.keys[i].width],
   actions |-> {c \in UNION {{ActionCall(l) : l \in {m \in AnyLine : Installs(m) /\ CallResolves(t, m)}}} :
                  c.action \in t.actions}]
EveryEntryInstalls ==
  \A r \in DOMAIN runs : \A t \in Program.tables :
    \A i \in DOMAIN runs[r].entries[t].entries :
      T!WellFormed(DeclOf(t), runs[r].entries[t].entries[i])

(* What a line installs is what it spells, and every table takes it (stf.py    *)
(* key_value, entry; interp/tables.py install).                                *)
EntriesMeanWhatIsWritten == EntriesMatchAsWritten /\ EveryEntryInstalls

(* Every packet is run once, in order, and a file passes exactly when each     *)
(* packet's outputs are, in order, what the expects between it and the next    *)
(* packet claim, when a packet with a no_packet has no outputs, and when no    *)
(* claim precedes the first packet (stf.py "Replay", _runs, _compare).  The    *)
(* exception is a no_packet with an expect after it and none before.           *)
PacketLines == {l \in DOMAIN file : file[l].is = "packet"}
LinesOn(n, is) ==
  {l \in DOMAIN file : l > n /\ file[l].is = is /\ \A p \in n + 1 .. l : file[p].is # "packet"}
ClaimsOn(n) == LinesOn(n, "expect")
Claimed(run) ==
  \E claims \in [DOMAIN run.outputs -> ClaimsOn(run.packet)] :
    /\ Lists(claims, ClaimsOn(run.packet))
    /\ \A i \in DOMAIN claims : /\ run.outputs[i].port = file[claims[i]].port
                               /\ Matches(file[claims[i]], run.outputs[i].data)
(* The documentation makes no exception for it: see NoPacketMeansNone.         *)
Overruled(l, n) == ClaimsOn(n) # {} /\ \A c \in ClaimsOn(n) : c > l
DropsKept(run) ==
  \A l \in LinesOn(run.packet, "no_packet") : run.outputs = <<>> \/ Overruled(l, run.packet)
AboutAPacket(l) == \E p \in 1 .. l : file[p].is = "packet"
VerdictIsExact ==
  step = "done" =>
    /\ Lists([r \in DOMAIN runs |-> runs[r].packet], PacketLines)
    /\ (failures = {}) <=>
         /\ \A r \in DOMAIN runs : Claimed(runs[r]) /\ DropsKept(runs[r])
         /\ \A l \in DOMAIN file : file[l].is \in {"expect", "no_packet"} => AboutAPacket(l)

(* "`no_packet` asserts that the preceding `packet` produced nothing"          *)
(* (stf.py:69): in a file that passes, such a packet has no outputs.           *)
NoPacketMeansNone ==
  step = "done" /\ failures = {} =>
    \A r \in DOMAIN runs : LinesOn(runs[r].packet, "no_packet") # {} => runs[r].outputs = <<>>
=============================================================================
