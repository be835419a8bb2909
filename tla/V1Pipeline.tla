----------------------------- MODULE V1Pipeline -----------------------------
(* The six stages of V1Model.run over a sequence of packets, standard metadata *)
(* seen through its contract, and the extern state that outlives a packet.     *)
(* What a stage's program computes is a choice among the statements the        *)
(* profile lets it make; headers and payload are in module Extraction.         *)
EXTENDS Integers, Sequences, FiniteSets

CONSTANTS
  Ports,     \* configured ports, 0 .. Ports - 1
  DropPort,  \* egress_spec that asks for a drop (511)
  Size,      \* cells of the register and of the counter
  MaxCell,   \* bound: register values
  Packets,   \* bound: packets of one session
  MaxOps     \* bound: statements of one packet

ASSUME PipelineAssumption ==
  /\ Ports \in Nat \ {0} /\ DropPort \in Nat /\ Ports <= DropPort
  /\ Size \in Nat /\ MaxCell \in Nat /\ Packets \in Nat /\ MaxOps \in Nat

Stages == {"parser", "verify_checksum", "ingress", "egress", "compute_checksum", "deparser"}
Required == {"parser", "ingress", "deparser"}
Provided == {"ingress_port", "egress_port", "parser_error"}
Fields == Provided \cup {"egress_spec"}
Errors == {0, 1}      \* NoError and some other error

VARIABLES
  exports,   \* the roles the program exports
  declared,  \* the contract fields its M declares
  meta,      \* the M that is passed from stage to stage, and a field of its own
  at,        \* "idle", or the stage that runs
  selected,  \* the port ingress selected
  outputs,   \* the result of the last run
  diagnostics,
  cells,     \* Loaded.externs: a register
  counts,    \* Loaded.externs: a counter, one cell per index
  ops,       \* statements the stages of this packet have run
  seen,      \* history: per place, the packets that got there
  asked,     \* history: what ingress and egress last asked for, 0 if nothing
  tally      \* history: the calls of count, per index

program == <<exports, declared>>
externs == <<cells, counts, tally>>
result == <<outputs, diagnostics>>
vars == <<program, meta, at, selected, result, externs, ops, seen, asked>>

Places == Stages \cup {"unaligned", "ingress_drop", "bad_port", "egress_drop", "sent"}
Reach(places) == seen' = [p \in Places |-> seen[p] + IF p \in places THEN 1 ELSE 0]

Specs == 0 .. DropPort
ZeroMeta == [ingress_port |-> 0, parser_error |-> 0, egress_spec |-> 0, egress_port |-> 0, own |-> 0]

(* Metadata.read and Metadata.write: an undeclared field reads as zero and     *)
(* ignores writes.                                                             *)
ReadMeta(f) == IF f \in declared THEN meta[f] ELSE 0
WriteMeta(m, f, v) == IF f \in declared THEN [m EXCEPT ![f] = v] ELSE m

Cell(i) == IF i < Size THEN cells[i] ELSE 0

Init ==
  /\ exports \in {Required \cup o : o \in SUBSET (Stages \ Required)}
  /\ declared \in SUBSET Fields
  /\ meta = ZeroMeta /\ at = "idle" /\ selected = 0
  /\ outputs = <<>> /\ diagnostics = 0
  /\ cells = [i \in 0 .. Size - 1 |-> 0]
  /\ counts = [i \in 0 .. Size - 1 |-> 0] /\ tally = counts
  /\ ops = 0 /\ seen = [p \in Places |-> 0] /\ asked = [ingress |-> 0, egress |-> 0]

(* run: a fresh M with its ingress_port, and the parser.                       *)
Receive ==
  /\ at = "idle" /\ seen["parser"] < Packets
  /\ \E port \in 0 .. Ports - 1 : meta' = WriteMeta(ZeroMeta, "ingress_port", port)
  /\ at' = "parser" /\ ops' = 0 /\ asked' = [ingress |-> 0, egress |-> 0] /\ selected' = 0
  /\ Reach({"parser"})
  /\ UNCHANGED <<program, result, externs>>

-----------------------------------------------------------------------------
(* The statements of a stage.                                                  *)
Step == at \in Stages /\ ops < MaxOps /\ ops' = ops + 1 /\ UNCHANGED <<at, seen>>

AskFor ==
  /\ Step /\ at \in {"ingress", "egress"} /\ "egress_spec" \in declared
  /\ \E v \in Specs : /\ meta' = [meta EXCEPT !.egress_spec = v]
                      /\ asked' = [asked EXCEPT ![at] = v]
  /\ UNCHANGED <<program, selected, result, externs>>

(* Register.read of a cell past the end is zero.                               *)
ReadRegister ==
  /\ Step /\ at # "deparser"
  /\ \E i \in 0 .. Size : meta' = [meta EXCEPT !.own = Cell(i)]
  /\ UNCHANGED <<program, selected, result, externs, asked>>

(* Register.write past the end does nothing.                                   *)
WriteRegister ==
  /\ Step
  /\ \E i \in 0 .. Size, v \in {0, meta.own, (meta.own + 1) % (MaxCell + 1)} :
       cells' = IF i < Size THEN [cells EXCEPT ![i] = v] ELSE cells
  /\ UNCHANGED <<program, meta, selected, result, counts, tally, asked>>

(* Fault: the last cell is taken to be past the end.                           *)
CountShort ==
  /\ Step
  /\ \E i \in 0 .. Size :
       /\ counts' = IF i < Size - 1 THEN [counts EXCEPT ![i] = @ + 1] ELSE counts
       /\ tally' = IF i < Size THEN [tally EXCEPT ![i] = @ + 1] ELSE tally
  /\ UNCHANGED <<program, meta, selected, result, cells, asked>>

(* Counter.call past the end does nothing.                                     *)
Count ==
  /\ Step
  /\ \E i \in 0 .. Size :
       /\ counts' = IF i < Size THEN [counts EXCEPT ![i] = @ + 1] ELSE counts
       /\ tally' = IF i < Size THEN [tally EXCEPT ![i] = @ + 1] ELSE tally
  /\ UNCHANGED <<program, meta, selected, result, cells, asked>>

-----------------------------------------------------------------------------
(* The way through the stages.  The result of a run is written when it ends.   *)
Stop(outs, diagnosed, places) ==
  /\ at' = "idle" /\ outputs' = outs /\ diagnostics' = diagnostics + diagnosed
  /\ Reach(places)

Stage(role) == at' = role /\ Reach({role}) /\ UNCHANGED result

AfterParser == IF "verify_checksum" \in exports THEN "verify_checksum" ELSE "ingress"

(* The parser is done: a bit count that is not whole bytes drops the packet.   *)
ParserDone ==
  /\ at = "parser"
  /\ \/ /\ Stop(<<>>, 1, {"unaligned"}) /\ UNCHANGED meta
     \/ \E e \in Errors : meta' = WriteMeta(meta, "parser_error", e) /\ Stage(AfterParser)
  /\ UNCHANGED <<program, selected, externs, ops, asked>>

VerifyDone ==
  /\ at = "verify_checksum" /\ Stage("ingress")
  /\ UNCHANGED <<program, meta, selected, externs, ops, asked>>

(* Fault: the request of ingress is left for egress.                           *)
AdmittedUnreset(spec) ==
  /\ selected' = spec
  /\ meta' = WriteMeta(meta, "egress_port", spec)

(* egress_spec is read, and answered with egress_port and a clean egress_spec. *)
Admitted(spec) ==
  /\ selected' = spec
  /\ meta' = WriteMeta(WriteMeta(meta, "egress_port", spec), "egress_spec", 0)

(* The stages after ingress that the program exports; without one, the end.    *)
AfterEgress == IF "compute_checksum" \in exports THEN "compute_checksum" ELSE "deparser"
AfterAdmit == IF "egress" \in exports THEN "egress" ELSE AfterEgress

(* Fault: a port that is not there has no case.                                *)
IngressDoneNoCase ==
  /\ at = "ingress"
  /\ LET spec == ReadMeta("egress_spec") IN
     \/ /\ spec = DropPort /\ Stop(<<>>, 0, {"ingress_drop"}) /\ UNCHANGED <<meta, selected>>
     \/ /\ spec < Ports /\ Admitted(spec) /\ Stage(AfterAdmit)
  /\ UNCHANGED <<program, externs, ops, asked>>

IngressDone ==
  /\ at = "ingress"
  /\ LET spec == ReadMeta("egress_spec") IN
     \/ /\ spec = DropPort /\ Stop(<<>>, 0, {"ingress_drop"}) /\ UNCHANGED <<meta, selected>>
     \/ /\ spec # DropPort /\ spec >= Ports
        /\ Stop(<<>>, 1, {"bad_port"}) /\ UNCHANGED <<meta, selected>>
     \/ /\ spec < Ports /\ Admitted(spec) /\ Stage(AfterAdmit)
  /\ UNCHANGED <<program, externs, ops, asked>>

EgressDone ==
  /\ at = "egress"
  /\ \/ ReadMeta("egress_spec") = DropPort /\ Stop(<<>>, 0, {"egress_drop"})
     \/ ReadMeta("egress_spec") # DropPort /\ Stage(AfterEgress)
  /\ UNCHANGED <<program, meta, selected, externs, ops, asked>>

ComputeDone ==
  /\ at = "compute_checksum" /\ Stage("deparser")
  /\ UNCHANGED <<program, meta, selected, externs, ops, asked>>

DeparserDone ==
  /\ at = "deparser" /\ Stop(<<selected>>, 0, {"sent"})
  /\ UNCHANGED <<program, meta, selected, externs, ops, asked>>

Statement == AskFor \/ ReadRegister \/ WriteRegister \/ Count
Done == ParserDone \/ VerifyDone \/ IngressDone \/ EgressDone \/ ComputeDone \/ DeparserDone
Next == Receive \/ Statement \/ Done

(* A stage's program is finite: it comes to its end.                           *)
Spec == Init /\ [][Next]_vars /\ WF_vars(Done)

-----------------------------------------------------------------------------
TypeOK ==
  /\ exports \in SUBSET Stages /\ Required \subseteq exports /\ declared \in SUBSET Fields
  /\ meta \in [ingress_port : 0 .. Ports - 1, parser_error : Errors, egress_spec : Specs,
               egress_port : 0 .. Ports - 1, own : 0 .. MaxCell]
  /\ at \in Stages \cup {"idle"} /\ selected \in 0 .. Ports - 1
  /\ outputs \in {<<>>} \cup {<<p>> : p \in 0 .. Ports - 1} /\ diagnostics \in Nat
  /\ cells \in [0 .. Size - 1 -> 0 .. MaxCell]
  /\ counts \in [0 .. Size - 1 -> Nat] /\ tally \in [0 .. Size - 1 -> Nat]
  /\ ops \in 0 .. MaxOps /\ seen \in [Places -> Nat] /\ asked \in [ingress : Specs, egress : Specs]

(* What ingress and egress read as egress_spec is their own request for this   *)
(* packet, or zero: neither another packet's nor, in egress, that of ingress.  *)
(* The packet leaves by the port that ingress asked for, a configured one,     *)
(* whatever egress asks for afterwards short of a drop (V1Model.run).          *)
RequestsServed ==
  /\ at \in {"ingress", "egress"} => ReadMeta("egress_spec") = asked[at]
  /\ at = "idle" /\ outputs # <<>> =>
       outputs = <<asked.ingress>> /\ asked.ingress < Ports /\ asked.egress # DropPort

(* Every packet has one fate, in the order of the stages; every exported stage *)
(* runs once for each packet that gets that far, and a diagnostic is recorded  *)
(* exactly for an unaligned parser and a port that is not there.  A counter    *)
(* has counted every call, of every packet of the session, also of those that  *)
(* were dropped afterwards (V1Model.run, Loaded.externs, Counter.call).        *)
EveryPacketAccounted ==
  at = "idle" =>
    LET ran(role, n) == seen[role] = IF role \in exports THEN n ELSE 0
        admitted == seen["egress_drop"] + seen["sent"] IN
    /\ seen["parser"] = seen["unaligned"] + seen["ingress"]
    /\ seen["ingress"] = seen["ingress_drop"] + seen["bad_port"] + admitted
    /\ ran("verify_checksum", seen["ingress"]) /\ ran("egress", admitted)
    /\ ran("compute_checksum", seen["sent"]) /\ ran("deparser", seen["sent"])
    /\ diagnostics = seen["unaligned"] + seen["bad_port"]
    /\ counts = tally

(* The result of a run is there when the switch is idle: every packet is       *)
(* answered, by an output or by a drop (V1Model.run returns).                  *)
EveryPacketAnswered == (at # "idle") ~> (at = "idle")
=============================================================================
