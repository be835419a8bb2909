-------------------------- MODULE V1Pipeline_proofs --------------------------
(* The pipeline's promises for any number of packets, ports, cells and         *)
(* statements of a stage, and what the check of a stage promises of any        *)
(* program: blocks and actions of any number, body and nesting.                *)
EXTENDS V1Pipeline, Profile, SequenceTheorems, TLAPS

(* Optional stages run only where they are exported.                           *)
StageInv == at # "idle" => at \in exports

(* Until ingress ends nothing was asked of egress, and the packet in flight    *)
(* carries the port that ingress asked for.                                    *)
RequestInv ==
  /\ at \in {"parser", "verify_checksum"} => ReadMeta("egress_spec") = 0 /\ asked.ingress = 0
  /\ at \in {"parser", "verify_checksum", "ingress"} => asked.egress = 0
  /\ at \in {"egress", "compute_checksum", "deparser"} =>
       selected = asked.ingress /\ asked.ingress < Ports
  /\ at \in {"compute_checksum", "deparser"} => asked.egress # DropPort

(* The packet in flight is counted where it has been and nowhere else.         *)
Flying(stages) == IF at \in stages THEN 1 ELSE 0
CountInv ==
  LET ran(stage, n) == seen[stage] = IF stage \in exports THEN n ELSE 0
      admitted == seen["egress_drop"] + seen["sent"] IN
  /\ seen["parser"] = seen["unaligned"] + seen["ingress"] + Flying({"parser", "verify_checksum"})
  /\ seen["ingress"] = seen["ingress_drop"] + seen["bad_port"] + admitted
                         + Flying({"ingress", "egress", "compute_checksum", "deparser"})
  /\ ran("verify_checksum", seen["ingress"] + Flying({"verify_checksum"}))
  /\ ran("egress", admitted + Flying({"egress", "compute_checksum", "deparser"}))
  /\ ran("compute_checksum", seen["sent"] + Flying({"compute_checksum", "deparser"}))
  /\ ran("deparser", seen["sent"] + Flying({"deparser"}))
  /\ diagnostics = seen["unaligned"] + seen["bad_port"]
  /\ counts = tally

-----------------------------------------------------------------------------
(* The parts of TypeOK.                                                        *)
Meta == [ingress_port : 0 .. Ports - 1, parser_error : Errors, egress_spec : Specs,
         egress_port : 0 .. Ports - 1, own : 0 .. MaxCell]
Answers == {<<>>} \cup {<<p>> : p \in 0 .. Ports - 1}
ProgramTyped == exports \in SUBSET Stages /\ Required \subseteq exports /\ declared \in SUBSET Fields
RunTyped ==
  /\ at \in Stages \cup {"idle"} /\ outputs \in Answers /\ diagnostics \in Nat
  /\ seen \in [Places -> Nat]
ExternsTyped ==
  /\ cells \in [0 .. Size - 1 -> 0 .. MaxCell]
  /\ counts \in [0 .. Size - 1 -> Nat] /\ tally \in [0 .. Size - 1 -> Nat]
PacketTyped ==
  selected \in 0 .. Ports - 1 /\ ops \in 0 .. MaxOps /\ asked \in [ingress : Specs, egress : Specs]

LEMMA TypeParts ==
  TypeOK <=> ProgramTyped /\ RunTyped /\ ExternsTyped /\ PacketTyped /\ meta \in Meta
BY DEF TypeOK, ProgramTyped, RunTyped, ExternsTyped, PacketTyped, Meta, Answers

LEMMA ReachTyped ==
  ASSUME NEW places, seen \in [Places -> Nat], Reach(places)
  PROVE  /\ seen' \in [Places -> Nat]
         /\ \A p \in Places : seen'[p] = seen[p] + IF p \in places THEN 1 ELSE 0
BY DEF Reach

LEMMA StageTyped ==
  ASSUME NEW stage \in Stages, RunTyped, Stage(stage)
  PROVE  RunTyped'
<1>1. seen' \in [Places -> Nat]
  BY ReachTyped DEF Stage, RunTyped
<1> QED
  BY <1>1 DEF Stage, RunTyped, result

LEMMA StopTyped ==
  ASSUME NEW outs \in Answers, NEW n \in Nat, NEW places, RunTyped, Stop(outs, n, places)
  PROVE  RunTyped'
<1>1. seen' \in [Places -> Nat]
  BY ReachTyped DEF Stop, RunTyped
<1>2. outputs' = outs /\ diagnostics' \in Nat
  BY DEF Stop, RunTyped
<1> QED
  BY <1>1, <1>2 DEF Stop, RunTyped

LEMMA MetaTyped ==
  ASSUME NEW m \in Meta
  PROVE  /\ \A v \in 0 .. Ports - 1 :
              WriteMeta(m, "ingress_port", v) \in Meta /\ WriteMeta(m, "egress_port", v) \in Meta
         /\ \A v \in Errors : WriteMeta(m, "parser_error", v) \in Meta
         /\ \A v \in Specs : WriteMeta(m, "egress_spec", v) \in Meta
BY DEF WriteMeta, Meta

LEMMA ZeroTyped == ZeroMeta \in Meta /\ 0 \in Specs
BY PipelineAssumption DEF ZeroMeta, Meta, Specs, Errors

LEMMA NextStages ==
  /\ AfterParser \in Stages /\ AfterAdmit \in Stages /\ AfterEgress \in Stages
  /\ <<>> \in Answers /\ "ingress" \in Stages /\ "deparser" \in Stages /\ "parser" \in Stages
BY DEF AfterParser, AfterAdmit, AfterEgress, Stages, Answers

-----------------------------------------------------------------------------
(* Types of every variable; whatever a stage asks for, the port selected is a  *)
(* configured one (V1Model.run).                                               *)
THEOREM TypeCorrect == Spec => []TypeOK
<1> USE PipelineAssumption
<1>1. Init => TypeOK
  <2> SUFFICES ASSUME Init PROVE TypeOK
    OBVIOUS
  <2>1. ProgramTyped /\ meta \in Meta
    BY ZeroTyped DEF Init, ProgramTyped, Required, Stages
  <2>2. RunTyped
    BY NextStages DEF Init, RunTyped
  <2>3. ExternsTyped
    BY DEF Init, ExternsTyped
  <2>4. PacketTyped
    BY ZeroTyped DEF Init, PacketTyped
  <2> QED
    BY <2>1, <2>2, <2>3, <2>4, TypeParts
<1>2. TypeOK /\ [Next]_vars => TypeOK'
  <2> SUFFICES ASSUME TypeOK, [Next]_vars PROVE TypeOK'
    OBVIOUS
  <2>0. ProgramTyped /\ RunTyped /\ ExternsTyped /\ PacketTyped /\ meta \in Meta
    BY TypeParts
  <2> USE <2>0
  <2>1. ProgramTyped' /\ RunTyped' /\ ExternsTyped' /\ PacketTyped' /\ meta' \in Meta
    <3>1. CASE Receive
      <4>1. meta' \in Meta
        BY <3>1, MetaTyped, ZeroTyped DEF Receive
      <4>2. RunTyped'
        BY <3>1, ReachTyped, NextStages DEF Receive, RunTyped, result
      <4>3. PacketTyped'
        BY <3>1, ZeroTyped DEF Receive, PacketTyped
      <4> QED
        BY <3>1, <4>1, <4>2, <4>3 DEF Receive, program, externs, ProgramTyped, ExternsTyped
    <3>2. CASE AskFor
      <4>1. PICK v \in Specs : meta' = [meta EXCEPT !.egress_spec = v] /\ asked' = [asked EXCEPT ![at] = v]
        BY <3>2 DEF AskFor
      <4>2. meta' \in Meta
        BY <4>1 DEF Meta
      <4>3. PacketTyped'
        BY <3>2, <4>1 DEF AskFor, Step, PacketTyped
      <4> QED
        BY <3>2, <4>2, <4>3 DEF AskFor, Step, program, result, externs, ProgramTyped, RunTyped, ExternsTyped
    <3>3. CASE ReadRegister
      <4>1. PICK i \in 0 .. Size : meta' = [meta EXCEPT !.own = Cell(i)]
        BY <3>3 DEF ReadRegister
      <4>2. Cell(i) \in 0 .. MaxCell
        BY DEF Cell, ExternsTyped
      <4>3. meta' \in Meta
        BY <4>1, <4>2 DEF Meta
      <4>4. PacketTyped'
        BY <3>3 DEF ReadRegister, Step, PacketTyped
      <4> QED
        BY <3>3, <4>3, <4>4 DEF ReadRegister, Step, program, result, externs, ProgramTyped, RunTyped, ExternsTyped
    <3>4. CASE WriteRegister
      <4>1. PICK i \in 0 .. Size, v \in {0, meta.own, (meta.own + 1) % (MaxCell + 1)} :
              cells' = IF i < Size THEN [cells EXCEPT ![i] = v] ELSE cells
        BY <3>4 DEF WriteRegister
      <4>2. meta.own \in 0 .. MaxCell
        BY DEF Meta
      <4>3. v \in 0 .. MaxCell
        BY <4>2
      <4>4. cells' \in [0 .. Size - 1 -> 0 .. MaxCell]
        BY <4>1, <4>3 DEF ExternsTyped
      <4>5. PacketTyped'
        BY <3>4 DEF WriteRegister, Step, PacketTyped
      <4> QED
        BY <3>4, <4>4, <4>5 DEF WriteRegister, Step, program, result, ProgramTyped, RunTyped, ExternsTyped
    <3>5. CASE Count
      <4>1. PICK i \in 0 .. Size :
              /\ counts' = IF i < Size THEN [counts EXCEPT ![i] = @ + 1] ELSE counts
              /\ tally' = IF i < Size THEN [tally EXCEPT ![i] = @ + 1] ELSE tally
        BY <3>5 DEF Count
      <4>2. ExternsTyped'
        <5>1. counts' \in [0 .. Size - 1 -> Nat]
          BY <4>1 DEF ExternsTyped
        <5>2. tally' \in [0 .. Size - 1 -> Nat]
          BY <4>1 DEF ExternsTyped
        <5> QED
          BY <3>5, <5>1, <5>2 DEF Count, ExternsTyped
      <4>3. PacketTyped'
        BY <3>5 DEF Count, Step, PacketTyped
      <4> QED
        BY <3>5, <4>2, <4>3 DEF Count, Step, program, result, ProgramTyped, RunTyped
    <3>6. CASE ParserDone
      <4>1. CASE Stop(<<>>, 1, {"unaligned"}) /\ UNCHANGED meta
        <5>1. RunTyped'
          BY <4>1, StopTyped, NextStages
        <5> QED
          BY <3>6, <4>1, <5>1 DEF ParserDone, program, externs, ProgramTyped, ExternsTyped, PacketTyped
      <4>2. CASE \E e \in Errors : meta' = WriteMeta(meta, "parser_error", e) /\ Stage(AfterParser)
        <5>1. RunTyped' /\ meta' \in Meta
          BY <4>2, StageTyped, NextStages, MetaTyped
        <5> QED
          BY <3>6, <5>1 DEF ParserDone, program, externs, ProgramTyped, ExternsTyped, PacketTyped
      <4> QED
        BY <3>6, <4>1, <4>2 DEF ParserDone
    <3>7. CASE VerifyDone
      <4>1. RunTyped'
        BY <3>7, StageTyped, NextStages DEF VerifyDone
      <4> QED
        BY <3>7, <4>1 DEF VerifyDone, program, externs, ProgramTyped, ExternsTyped, PacketTyped
    <3>8. CASE IngressDone
      <4> DEFINE spec == ReadMeta("egress_spec")
      <4>1. spec \in Specs
        BY ZeroTyped DEF ReadMeta, Meta
      <4>2. CASE Stop(<<>>, 0, {"ingress_drop"}) /\ UNCHANGED <<meta, selected>>
        <5>1. RunTyped'
          BY <4>2, StopTyped, NextStages
        <5> QED
          BY <3>8, <4>2, <5>1 DEF IngressDone, program, externs, ProgramTyped, ExternsTyped, PacketTyped
      <4>3. CASE Stop(<<>>, 1, {"bad_port"}) /\ UNCHANGED <<meta, selected>>
        <5>1. RunTyped'
          BY <4>3, StopTyped, NextStages
        <5> QED
          BY <3>8, <4>3, <5>1 DEF IngressDone, program, externs, ProgramTyped, ExternsTyped, PacketTyped
      <4>4. CASE spec < Ports /\ Admitted(spec) /\ Stage(AfterAdmit)
        <5>1. RunTyped'
          BY <4>4, StageTyped, NextStages
        <5>2. spec \in 0 .. Ports - 1
          BY <4>1, <4>4 DEF Specs
        <5>3. meta' \in Meta /\ selected' \in 0 .. Ports - 1
          BY <4>4, <5>2, MetaTyped, ZeroTyped DEF Admitted
        <5> QED
          BY <3>8, <5>1, <5>3 DEF IngressDone, program, externs, ProgramTyped, ExternsTyped, PacketTyped
      <4> QED
        BY <3>8, <4>2, <4>3, <4>4 DEF IngressDone
    <3>9. CASE EgressDone
      <4>1. RunTyped'
        BY <3>9, StopTyped, StageTyped, NextStages DEF EgressDone
      <4> QED
        BY <3>9, <4>1 DEF EgressDone, program, externs, ProgramTyped, ExternsTyped, PacketTyped
    <3>10. CASE ComputeDone
      <4>1. RunTyped'
        BY <3>10, StageTyped, NextStages DEF ComputeDone
      <4> QED
        BY <3>10, <4>1 DEF ComputeDone, program, externs, ProgramTyped, ExternsTyped, PacketTyped
    <3>11. CASE DeparserDone
      <4>1. <<selected>> \in Answers
        BY DEF Answers, PacketTyped
      <4>2. RunTyped'
        BY <3>11, <4>1, StopTyped DEF DeparserDone
      <4> QED
        BY <3>11, <4>2 DEF DeparserDone, program, externs, ProgramTyped, ExternsTyped, PacketTyped
    <3>12. CASE UNCHANGED vars
      BY <3>12 DEF vars, program, result, externs, ProgramTyped, RunTyped, ExternsTyped, PacketTyped
    <3> QED
      BY <3>1, <3>2, <3>3, <3>4, <3>5, <3>6, <3>7, <3>8, <3>9, <3>10, <3>11, <3>12 DEF Next, Statement, Done
  <2> QED
    BY <2>1 DEF TypeOK, ProgramTyped, RunTyped, ExternsTyped, PacketTyped, Meta, Answers
<1> QED
  BY <1>1, <1>2, PTL DEF Spec

-----------------------------------------------------------------------------
(* No stage reads a request of another stage or packet, and a packet leaves by *)
(* the port that ingress asked for (V1Model.run, "egress_spec is reset").      *)
THEOREM RequestsAlwaysServed == Spec => []RequestsServed
<1> DEFINE IInv == RequestInv /\ RequestsServed
<1> USE PipelineAssumption
<1>1. Init => IInv
  BY DEF Init, RequestInv, RequestsServed
<1>2. TypeOK /\ IInv /\ [Next]_vars => IInv'
  <2> SUFFICES ASSUME TypeOK, IInv, [Next]_vars PROVE IInv'
    OBVIOUS
  <2>0. meta \in Meta /\ PacketTyped
    BY TypeParts
  <2>1. CASE Receive
    <3>1. PICK port \in 0 .. Ports - 1 : meta' = WriteMeta(ZeroMeta, "ingress_port", port)
      BY <2>1 DEF Receive
    <3>2. ReadMeta("egress_spec")' = 0
      BY <2>1, <3>1 DEF Receive, program, ReadMeta, WriteMeta, ZeroMeta
    <3> QED
      BY <2>1, <3>2 DEF Receive, RequestInv, RequestsServed
  <2>2. CASE AskFor
    <3>1. PICK v \in Specs : meta' = [meta EXCEPT !.egress_spec = v] /\ asked' = [asked EXCEPT ![at] = v]
      BY <2>2 DEF AskFor
    <3>2. ReadMeta("egress_spec")' = v
      BY <2>0, <2>2, <3>1 DEF AskFor, program, ReadMeta, Meta
    <3>3. at \in {"ingress", "egress"} /\ at' = at /\ selected' = selected /\ outputs' = outputs
      BY <2>2 DEF AskFor, Step, result
    <3>4. asked'[at] = v /\ \A stage \in {"ingress", "egress"} \ {at} : asked'[stage] = asked[stage]
      BY <2>0, <3>1, <3>3 DEF PacketTyped
    <3> QED
      BY <3>2, <3>3, <3>4 DEF RequestInv, RequestsServed
  <2>3. CASE ReadRegister
    <3>1. PICK i \in 0 .. Size : meta' = [meta EXCEPT !.own = Cell(i)]
      BY <2>3 DEF ReadRegister
    <3>2. ReadMeta("egress_spec")' = ReadMeta("egress_spec")
      BY <2>0, <2>3, <3>1 DEF ReadRegister, program, ReadMeta, Meta
    <3> QED
      BY <2>3, <3>2 DEF ReadRegister, Step, result, RequestInv, RequestsServed
  <2>4. CASE WriteRegister \/ Count
    BY <2>4 DEF WriteRegister, Count, Step, program, result, ReadMeta, RequestInv, RequestsServed
  <2>5. CASE ParserDone
    <3>1. CASE Stop(<<>>, 1, {"unaligned"})
      BY <3>1 DEF Stop, RequestInv, RequestsServed
    <3>2. CASE \E e \in Errors : meta' = WriteMeta(meta, "parser_error", e) /\ Stage(AfterParser)
      <4>1. ReadMeta("egress_spec")' = ReadMeta("egress_spec")
        BY <2>0, <2>5, <3>2 DEF ParserDone, program, ReadMeta, WriteMeta, Meta
      <4> QED
        BY <2>5, <3>2, <4>1 DEF ParserDone, Stage, AfterParser, RequestInv, RequestsServed
    <3> QED
      BY <2>5, <3>1, <3>2 DEF ParserDone
  <2>6. CASE VerifyDone
    BY <2>6 DEF VerifyDone, Stage, program, ReadMeta, RequestInv, RequestsServed
  <2>7. CASE IngressDone
    <3> DEFINE spec == ReadMeta("egress_spec")
    <3>1. CASE outputs' = <<>> /\ at' = "idle"
      BY <3>1 DEF RequestInv, RequestsServed
    <3>2. CASE spec < Ports /\ Admitted(spec) /\ Stage(AfterAdmit)
      <4>1. ReadMeta("egress_spec")' = 0
        BY <2>0, <2>7, <3>2 DEF IngressDone, program, Admitted, ReadMeta, WriteMeta, Meta
      <4>2. selected' = asked.ingress /\ asked.ingress < Ports /\ asked.egress = 0 /\ asked' = asked
        BY <2>7, <3>2 DEF IngressDone, Admitted, RequestInv, RequestsServed
      <4>3. at' \in {"egress", "compute_checksum", "deparser"}
        BY <3>2 DEF Stage, AfterAdmit, AfterEgress
      <4>4. 0 # DropPort
        OBVIOUS
      <4> QED
        BY <4>1, <4>2, <4>3, <4>4 DEF RequestInv, RequestsServed
    <3> QED
      BY <2>7, <3>1, <3>2 DEF IngressDone, Stop
  <2>8. CASE EgressDone
    <3>1. CASE Stop(<<>>, 0, {"egress_drop"})
      BY <3>1 DEF Stop, RequestInv, RequestsServed
    <3>2. CASE ReadMeta("egress_spec") # DropPort /\ Stage(AfterEgress)
      BY <2>8, <3>2 DEF EgressDone, Stage, AfterEgress, RequestInv, RequestsServed
    <3> QED
      BY <2>8, <3>1, <3>2 DEF EgressDone
  <2>9. CASE ComputeDone
    BY <2>9 DEF ComputeDone, Stage, RequestInv, RequestsServed
  <2>10. CASE DeparserDone
    BY <2>10 DEF DeparserDone, Stop, RequestInv, RequestsServed
  <2>11. CASE UNCHANGED vars
    BY <2>11 DEF vars, program, result, ReadMeta, RequestInv, RequestsServed
  <2> QED
    BY <2>1, <2>2, <2>3, <2>4, <2>5, <2>6, <2>7, <2>8, <2>9, <2>10, <2>11 DEF Next, Statement, Done
<1> QED
  BY <1>1, <1>2, TypeCorrect, PTL DEF Spec

-----------------------------------------------------------------------------
(* How the count of each place moves, and that they are numbers.               *)
One(p, q) == seen'[p] = seen[p] + IF p = q THEN 1 ELSE 0
Moved(q) ==
  /\ One("parser", q) /\ One("verify_checksum", q) /\ One("ingress", q) /\ One("egress", q)
  /\ One("compute_checksum", q) /\ One("deparser", q) /\ One("unaligned", q)
  /\ One("ingress_drop", q) /\ One("bad_port", q) /\ One("egress_drop", q) /\ One("sent", q)
Numbers ==
  /\ seen["parser"] \in Nat /\ seen["verify_checksum"] \in Nat /\ seen["ingress"] \in Nat
  /\ seen["egress"] \in Nat /\ seen["compute_checksum"] \in Nat /\ seen["deparser"] \in Nat
  /\ seen["unaligned"] \in Nat /\ seen["ingress_drop"] \in Nat /\ seen["bad_port"] \in Nat
  /\ seen["egress_drop"] \in Nat /\ seen["sent"] \in Nat /\ diagnostics \in Nat

LEMMA ReachOne ==
  ASSUME NEW q, TypeOK
  PROVE  Numbers /\ Required \subseteq exports /\ (Reach({q}) => Moved(q))
<1>0. seen \in [Places -> Nat] /\ diagnostics \in Nat /\ Required \subseteq exports
  BY TypeParts DEF RunTyped, ProgramTyped
<1>1. Numbers
  BY <1>0 DEF Numbers, Places, Stages
<1>2. ASSUME NEW p \in Places, Reach({q}) PROVE One(p, q)
  BY <1>0, <1>2, ReachTyped DEF One
<1> QED
  BY <1>0, <1>1, <1>2 DEF Moved, Places, Stages

(* The counts stay balanced when a packet enters the next stage or ends.       *)
Balanced == StageInv /\ CountInv

LEMMA ToParser ==
  ASSUME TypeOK, Balanced, Moved("parser"), at = "idle", at' = "parser",
         exports' = exports, counts' = tally', diagnostics' = diagnostics
  PROVE  Balanced'
<1>1. Numbers /\ Required \subseteq exports
  BY ReachOne
<1>2. StageInv'
  BY <1>1 DEF Balanced, StageInv, Required
<1>3. CountInv'
  BY <1>1 DEF Balanced, StageInv, CountInv, Flying, Numbers, Moved, One, Required
<1> QED
  BY <1>2, <1>3 DEF Balanced

LEMMA ToVerify ==
  ASSUME TypeOK, Balanced, Moved("verify_checksum"), at = "parser", at' = "verify_checksum",
         exports' = exports, counts' = tally', diagnostics' = diagnostics, "verify_checksum" \in exports
  PROVE  Balanced'
<1>1. Numbers /\ Required \subseteq exports
  BY ReachOne
<1>2. StageInv'
  BY <1>1 DEF Balanced, StageInv, Required
<1>3. CountInv'
  BY <1>1 DEF Balanced, StageInv, CountInv, Flying, Numbers, Moved, One, Required
<1> QED
  BY <1>2, <1>3 DEF Balanced

LEMMA ToIngress ==
  ASSUME TypeOK, Balanced, Moved("ingress"), at = IF "verify_checksum" \in exports THEN "verify_checksum" ELSE "parser", at' = "ingress",
         exports' = exports, counts' = tally', diagnostics' = diagnostics
  PROVE  Balanced'
<1>1. Numbers /\ Required \subseteq exports
  BY ReachOne
<1>2. StageInv'
  BY <1>1 DEF Balanced, StageInv, Required
<1>3. CountInv'
  BY <1>1 DEF Balanced, StageInv, CountInv, Flying, Numbers, Moved, One, Required
<1> QED
  BY <1>2, <1>3 DEF Balanced

LEMMA ToEgress ==
  ASSUME TypeOK, Balanced, Moved("egress"), at = "ingress", at' = "egress",
         exports' = exports, counts' = tally', diagnostics' = diagnostics, "egress" \in exports
  PROVE  Balanced'
<1>1. Numbers /\ Required \subseteq exports
  BY ReachOne
<1>2. StageInv'
  BY <1>1 DEF Balanced, StageInv, Required
<1>3. CountInv'
  BY <1>1 DEF Balanced, StageInv, CountInv, Flying, Numbers, Moved, One, Required
<1> QED
  BY <1>2, <1>3 DEF Balanced

LEMMA ToCompute ==
  ASSUME TypeOK, Balanced, Moved("compute_checksum"), at = IF "egress" \in exports THEN "egress" ELSE "ingress", at' = "compute_checksum",
         exports' = exports, counts' = tally', diagnostics' = diagnostics, "compute_checksum" \in exports
  PROVE  Balanced'
<1>1. Numbers /\ Required \subseteq exports
  BY ReachOne
<1>2. StageInv'
  BY <1>1 DEF Balanced, StageInv, Required
<1>3. CountInv'
  BY <1>1 DEF Balanced, StageInv, CountInv, Flying, Numbers, Moved, One, Required
<1> QED
  BY <1>2, <1>3 DEF Balanced

LEMMA ToDeparser ==
  ASSUME TypeOK, Balanced, Moved("deparser"), 
         at = IF "compute_checksum" \in exports THEN "compute_checksum"
              ELSE IF "egress" \in exports THEN "egress" ELSE "ingress",
         at' = "deparser",
         exports' = exports, counts' = tally', diagnostics' = diagnostics
  PROVE  Balanced'
<1>1. Numbers /\ Required \subseteq exports
  BY ReachOne
<1>2. StageInv'
  BY <1>1 DEF Balanced, StageInv, Required
<1>3. CountInv'
  BY <1>1 DEF Balanced, StageInv, CountInv, Flying, Numbers, Moved, One, Required
<1> QED
  BY <1>2, <1>3 DEF Balanced

LEMMA Unaligned ==
  ASSUME TypeOK, Balanced, Moved("unaligned"), at = "parser", at' = "idle",
         exports' = exports, counts' = tally', diagnostics' = diagnostics + 1
  PROVE  Balanced'
<1>1. Numbers /\ Required \subseteq exports
  BY ReachOne
<1>2. StageInv'
  BY <1>1 DEF Balanced, StageInv, Required
<1>3. CountInv'
  BY <1>1 DEF Balanced, StageInv, CountInv, Flying, Numbers, Moved, One, Required
<1> QED
  BY <1>2, <1>3 DEF Balanced

LEMMA IngressDrop ==
  ASSUME TypeOK, Balanced, Moved("ingress_drop"), at = "ingress", at' = "idle",
         exports' = exports, counts' = tally', diagnostics' = diagnostics + 0
  PROVE  Balanced'
<1>1. Numbers /\ Required \subseteq exports
  BY ReachOne
<1>2. StageInv'
  BY <1>1 DEF Balanced, StageInv, Required
<1>3. CountInv'
  BY <1>1 DEF Balanced, StageInv, CountInv, Flying, Numbers, Moved, One, Required
<1> QED
  BY <1>2, <1>3 DEF Balanced

LEMMA BadPort ==
  ASSUME TypeOK, Balanced, Moved("bad_port"), at = "ingress", at' = "idle",
         exports' = exports, counts' = tally', diagnostics' = diagnostics + 1
  PROVE  Balanced'
<1>1. Numbers /\ Required \subseteq exports
  BY ReachOne
<1>2. StageInv'
  BY <1>1 DEF Balanced, StageInv, Required
<1>3. CountInv'
  BY <1>1 DEF Balanced, StageInv, CountInv, Flying, Numbers, Moved, One, Required
<1> QED
  BY <1>2, <1>3 DEF Balanced

LEMMA EgressDrop ==
  ASSUME TypeOK, Balanced, Moved("egress_drop"), at = "egress", at' = "idle",
         exports' = exports, counts' = tally', diagnostics' = diagnostics + 0
  PROVE  Balanced'
<1>1. Numbers /\ Required \subseteq exports
  BY ReachOne
<1>2. StageInv'
  BY <1>1 DEF Balanced, StageInv, Required
<1>3. CountInv'
  BY <1>1 DEF Balanced, StageInv, CountInv, Flying, Numbers, Moved, One, Required
<1> QED
  BY <1>2, <1>3 DEF Balanced

LEMMA Sent ==
  ASSUME TypeOK, Balanced, Moved("sent"), at = "deparser", at' = "idle",
         exports' = exports, counts' = tally', diagnostics' = diagnostics + 0
  PROVE  Balanced'
<1>1. Numbers /\ Required \subseteq exports
  BY ReachOne
<1>2. StageInv'
  BY <1>1 DEF Balanced, StageInv, Required
<1>3. CountInv'
  BY <1>1 DEF Balanced, StageInv, CountInv, Flying, Numbers, Moved, One, Required
<1> QED
  BY <1>2, <1>3 DEF Balanced

(* Every packet has one fate, every exported stage ran once for each packet    *)
(* that got that far, and no count is lost (V1Model.run, Counter.call).        *)
THEOREM EveryPacketIsAccounted == Spec => []EveryPacketAccounted
<1>1. Init => Balanced
  BY DEF Init, Places, Stages, Balanced, StageInv, CountInv, Flying, Required
<1>2. TypeOK /\ Balanced /\ [Next]_vars => Balanced'
  <2> SUFFICES ASSUME TypeOK, Balanced, [Next]_vars PROVE Balanced'
    OBVIOUS
  <2>0. \A q : Reach({q}) => Moved(q)
    BY ReachOne
  <2>a. counts = tally /\ StageInv
    BY DEF Balanced, CountInv
  <2> DEFINE Kept == exports' = exports /\ counts' = tally'
  <2> DEFINE Entered(q) == at' = q /\ Moved(q) /\ diagnostics' = diagnostics
  <2> DEFINE Ended(q, n) == at' = "idle" /\ Moved(q) /\ diagnostics' = diagnostics + n
  <2>b. \A q : Stage(q) => Entered(q)
    BY <2>0 DEF Stage, result
  <2>c. \A outs, n, q : Stop(outs, n, {q}) => Ended(q, n)
    BY <2>0 DEF Stop
  <2>1. CASE Receive
    <3>1. Kept /\ at = "idle" /\ Entered("parser")
      BY <2>0, <2>1, <2>a DEF Receive, program, externs, result
    <3> QED
      BY <3>1, ToParser
  <2>2. CASE Statement
    <3>1. Kept /\ at' = at /\ seen' = seen /\ diagnostics' = diagnostics
      BY <2>2, <2>a DEF Statement, AskFor, ReadRegister, WriteRegister, Count, Step, program, externs, result
    <3> QED
      BY <3>1 DEF Balanced, StageInv, CountInv, Flying
  <2>3. CASE ParserDone
    <3>1. Kept /\ at = "parser"
      BY <2>3, <2>a DEF ParserDone, program, externs
    <3>2. CASE Ended("unaligned", 1)
      BY <3>1, <3>2, Unaligned
    <3>3. CASE Entered(AfterParser)
      BY <3>1, <3>3, ToVerify, ToIngress DEF AfterParser
    <3> QED
      BY <2>3, <2>b, <2>c, <3>2, <3>3 DEF ParserDone
  <2>4. CASE VerifyDone
    <3>1. Kept /\ at = "verify_checksum" /\ Entered("ingress") /\ "verify_checksum" \in exports
      BY <2>4, <2>a, <2>b DEF VerifyDone, program, externs, StageInv
    <3> QED
      BY <3>1, ToIngress
  <2>5. CASE IngressDone
    <3>1. Kept /\ at = "ingress"
      BY <2>5, <2>a DEF IngressDone, program, externs
    <3>2. CASE Ended("ingress_drop", 0)
      BY <3>1, <3>2, IngressDrop
    <3>3. CASE Ended("bad_port", 1)
      BY <3>1, <3>3, BadPort
    <3>4. CASE Entered(AfterAdmit)
      BY <3>1, <3>4, ToEgress, ToCompute, ToDeparser DEF AfterAdmit, AfterEgress
    <3> QED
      BY <2>5, <2>b, <2>c, <3>2, <3>3, <3>4 DEF IngressDone
  <2>6. CASE EgressDone
    <3>1. Kept /\ at = "egress" /\ "egress" \in exports
      BY <2>6, <2>a DEF EgressDone, program, externs, StageInv
    <3>2. CASE Ended("egress_drop", 0)
      BY <3>1, <3>2, EgressDrop
    <3>3. CASE Entered(AfterEgress)
      BY <3>1, <3>3, ToCompute, ToDeparser DEF AfterEgress
    <3> QED
      BY <2>6, <2>b, <2>c, <3>2, <3>3 DEF EgressDone
  <2>7. CASE ComputeDone
    <3>1. Kept /\ at = "compute_checksum" /\ Entered("deparser") /\ "compute_checksum" \in exports
      BY <2>7, <2>a, <2>b DEF ComputeDone, program, externs, StageInv
    <3> QED
      BY <3>1, ToDeparser
  <2>8. CASE DeparserDone
    <3>1. Kept /\ at = "deparser" /\ Ended("sent", 0)
      BY <2>8, <2>a, <2>c DEF DeparserDone, program, externs
    <3> QED
      BY <3>1, Sent
  <2>9. CASE UNCHANGED vars
    BY <2>9, <2>a DEF vars, program, externs, result, Balanced, StageInv, CountInv, Flying
  <2> QED
    BY <2>1, <2>2, <2>3, <2>4, <2>5, <2>6, <2>7, <2>8, <2>9 DEF Next, Done
<1>3. TypeOK /\ Balanced => EveryPacketAccounted
  <2> SUFFICES ASSUME TypeOK, Balanced, at = "idle" PROVE EveryPacketAccounted
    BY DEF EveryPacketAccounted
  <2>1. Numbers
    BY ReachOne
  <2> QED
    BY <2>1 DEF Balanced, CountInv, Flying, Numbers, EveryPacketAccounted
<1> QED
  BY <1>1, <1>2, <1>3, TypeCorrect, PTL DEF Spec

-----------------------------------------------------------------------------
(* The check of a stage.  Sequences are taken as functions.                    *)

IsSeq(s) == Len(s) \in Nat /\ s = [i \in 1 .. Len(s) |-> s[i]]
Entries(s) == {s[i] : i \in 1 .. Len(s)}

LEMMA SeqOfEntries ==
  ASSUME NEW s, IsSeq(s)
  PROVE  s \in Seq(Entries(s)) /\ DOMAIN s = 1 .. Len(s)
<1>1. s \in [1 .. Len(s) -> Entries(s)]
  BY DEF IsSeq, Entries
<1>2. QED BY <1>1, SeqDef DEF IsSeq

LEMMA EntriesOfSeq ==
  ASSUME NEW S, NEW s \in Seq(S)
  PROVE  IsSeq(s) /\ DOMAIN s = 1 .. Len(s)
BY DEF IsSeq

LEMMA FunctionIsSeq ==
  ASSUME NEW S, NEW n \in Nat, NEW t \in [1 .. n -> S]
  PROVE  t \in Seq(S) /\ Len(t) = n
<1>1. t \in Seq(S)
  BY SeqDef
<1>2. Len(t) \in Nat /\ DOMAIN t = 1 .. Len(t) /\ DOMAIN t = 1 .. n
  BY <1>1
<1>3. QED BY <1>1, <1>2

LEMMA Appended ==
  ASSUME NEW s, IsSeq(s), NEW e
  PROVE  LET t == Append(s, e) IN
         /\ IsSeq(t) /\ Len(t) = Len(s) + 1 /\ DOMAIN t = 1 .. Len(s) + 1
         /\ t[Len(s) + 1] = e /\ \A i \in 1 .. Len(s) : t[i] = s[i]
<1> DEFINE S == Entries(s) \cup {e}
           t == Append(s, e)
<1>1. s \in Seq(S) /\ e \in S
  BY SeqOfEntries, SeqDef DEF IsSeq
<1>2. t \in Seq(S) /\ Len(t) = Len(s) + 1 /\ t[Len(s) + 1] = e /\ \A i \in 1 .. Len(s) : t[i] = s[i]
  BY <1>1
<1>3. QED BY <1>2, EntriesOfSeq

LEMMA Cut ==
  ASSUME NEW s, IsSeq(s), NEW n \in 1 .. Len(s) + 1, NEW m \in n - 1 .. Len(s)
  PROVE  LET t == SubSeq(s, n, m) IN
         /\ IsSeq(t) /\ Len(t) = m - n + 1 /\ DOMAIN t = 1 .. m - n + 1
         /\ \A i \in 1 .. m - n + 1 : t[i] = s[i + n - 1]
<1> DEFINE t == SubSeq(s, n, m)
<1>1. s \in Seq(Entries(s)) /\ Len(s) \in Nat
  BY SeqOfEntries DEF IsSeq
<1>2. t = [i \in 1 .. m - n + 1 |-> s[i + n - 1]]
  BY <1>1
<1>3. t \in [1 .. m - n + 1 -> Entries(s)]
  BY <1>1, <1>2 DEF Entries
<1>4. m - n + 1 \in Nat
  BY <1>1
<1>5. t \in Seq(Entries(s)) /\ Len(t) = m - n + 1
  BY <1>3, <1>4, FunctionIsSeq
<1>6. QED BY <1>2, <1>5, EntriesOfSeq

LEMMA Replaced ==
  ASSUME NEW s, IsSeq(s), NEW k \in 1 .. Len(s), NEW e
  PROVE  LET t == [s EXCEPT ![k] = e] IN
         /\ IsSeq(t) /\ Len(t) = Len(s) /\ DOMAIN t = 1 .. Len(s)
         /\ t[k] = e /\ \A i \in 1 .. Len(s) : i # k => t[i] = s[i]
<1> DEFINE t == [s EXCEPT ![k] = e]
           S == Entries(s) \cup {e}
<1>1. DOMAIN s = 1 .. Len(s)
  BY SeqOfEntries
<1>2. /\ DOMAIN t = 1 .. Len(s) /\ t[k] = e
      /\ \A i \in 1 .. Len(s) : i # k => t[i] = s[i]
  BY <1>1
<1>3. t \in [1 .. Len(s) -> S]
  BY <1>1, <1>2 DEF Entries
<1>4. t \in Seq(S) /\ Len(t) = Len(s)
  BY <1>3, FunctionIsSeq DEF IsSeq
<1>5. QED BY <1>2, <1>4, EntriesOfSeq

-----------------------------------------------------------------------------
(* Access paths                                                                *)

Paths == {None} \cup Seq(MetaFields)

LEMMA TypedPath ==
  ASSUME NEW types, NEW t, NEW q \in Typed(types, t)
  PROVE  \E v \in DOMAIN types :
           \/ q = <<v>> /\ types[v] = t
           \/ types[v] = "M" /\ t = "bit" /\ \E f \in MetaFields : q = <<v, f>>
BY DEF Typed

LEMMA PathsDiffer ==
  /\ None # <<>> /\ None \notin Seq(MetaFields)
  /\ \A f \in MetaFields : None # <<f>> /\ f # "bit"
  /\ \A A \in Seq(MetaFields) : \A f, e \in MetaFields : Append(A, e) = <<f>> => A = <<>> /\ e = f
<1>1. \A f \in MetaFields : None # <<f>> /\ f # "bit"
  BY ProfileAssumption DEF None
<1>2. None # <<>>
  BY DEF None
<1>3. None \notin Seq(MetaFields)
  <2>1. SUFFICES ASSUME None \in Seq(MetaFields) PROVE FALSE
    OBVIOUS
  <2>2. None[1] \in MetaFields /\ None[1] = "none"
    BY <2>1 DEF None
  <2>3. QED BY <2>2, ProfileAssumption
<1>4. ASSUME NEW A \in Seq(MetaFields), NEW f \in MetaFields, NEW e \in MetaFields, Append(A, e) = <<f>>
      PROVE  A = <<>> /\ e = f
  <2>1. Append(A, e)[Len(A) + 1] = e /\ Len(Append(A, e)) = Len(A) + 1
    OBVIOUS
  <2>2. Len(<<f>>) = 1 /\ <<f>>[1] = f
    OBVIOUS
  <2>3. Len(A) = 0 /\ e = f
    BY <1>4, <2>1, <2>2
  <2>4. QED BY <2>3
<1>5. QED BY <1>1, <1>2, <1>3, <1>4

LEMMA AliasOfVar ==
  ASSUME NEW v \in Names, NEW scope \in Scopes
  PROVE  /\ Alias(<<v>>, scope) = scope[v]
         /\ \A f \in MetaFields :
              /\ scope[v] = None => Alias(<<v, f>>, scope) = None
              /\ scope[v] # None => Alias(<<v, f>>, scope) = Append(scope[v], f)
<1>1. scope[v] \in Paths
  BY DEF Scopes, Paths
<1>2. <<v>> # None /\ <<v>> # Literal /\ \A f : <<v, f>> # None /\ <<v, f>> # Literal
  BY ProfileAssumption DEF None, Literal
<1>3. CASE scope[v] = None
  BY <1>2, <1>3 DEF Alias
<1>4. CASE scope[v] # None
  <2>1. scope[v] \in Seq(MetaFields)
    BY <1>1, <1>4 DEF Paths
  <2>2. Alias(<<v>>, scope) = scope[v] \o Tail(<<v>>) /\ \A f : Alias(<<v, f>>, scope) = scope[v] \o Tail(<<v, f>>)
    BY <1>2, <1>4 DEF Alias
  <2>3. Tail(<<v>>) = <<>> /\ \A f : Tail(<<v, f>>) = <<f>>
    OBVIOUS
  <2>4. scope[v] \o <<>> = scope[v] /\ \A f \in MetaFields : scope[v] \o <<f>> = Append(scope[v], f)
    BY <2>1
  <2>5. QED BY <1>4, <2>2, <2>3, <2>4
<1>5. QED BY <1>3, <1>4

LEMMA AliasIsPath ==
  ASSUME NEW types, DOMAIN types \subseteq Names, NEW t, NEW q \in Values(types, t) \cup {None},
         NEW scope \in Scopes
  PROVE  Alias(q, scope) \in Paths
<1>1. CASE q \in {None, Literal}
  BY <1>1 DEF Alias, Paths
<1>2. CASE q \notin {None, Literal}
  <2>1. q \in Typed(types, t)
    BY <1>2 DEF Values
  <2>2. PICK v \in DOMAIN types : q = <<v>> \/ \E f \in MetaFields : q = <<v, f>>
    BY <2>1, TypedPath
  <2>3. v \in Names /\ scope[v] \in Paths
    BY <2>2 DEF Scopes, Paths
  <2>4. CASE q = <<v>>
    BY <2>3, <2>4, AliasOfVar
  <2>5. ASSUME NEW f \in MetaFields, q = <<v, f>> PROVE Alias(q, scope) \in Paths
    <3>1. CASE scope[v] = None
      BY <2>3, <2>5, <3>1, AliasOfVar DEF Paths
    <3>2. CASE scope[v] # None
      <4>1. scope[v] \in Seq(MetaFields) /\ Alias(q, scope) = Append(scope[v], f)
        BY <2>3, <2>5, <3>2, AliasOfVar DEF Paths
      <4>2. QED BY <4>1 DEF Paths
    <3>3. QED BY <3>1, <3>2
  <2>6. QED BY <2>2, <2>4, <2>5
<1>3. QED BY <1>1, <1>2

-----------------------------------------------------------------------------
(* What a value may carry: A is the path its cell stands for                   *)

(* At place g of a cell that stands for A is the metadata's field f.           *)
Holds(A, g, f) == (g = "bit" /\ A = <<f>>) \/ (A = <<>> /\ g = f)

(* What may not be read is only where the metadata has it; what may not be     *)
(* written is still there.                                                     *)
CellOk(r, val, A) ==
  \A g \in DOMAIN val : \A f \in Protected :
    /\ f \notin Readable(r) /\ val[g] = f => Holds(A, g, f)
    /\ ~MayWrite(r, <<f>>) /\ Holds(A, g, f) => val[g] = f

(* A field that is read carries what the path of the field has.                *)
LEMMA FieldOfCell ==
  ASSUME NEW r, NEW A \in Paths, NEW val \in ValuesOf("M"), CellOk(r, val, A), NEW e \in MetaFields,
         NEW B, A = None => B = None, A # None => B = Append(A, e)
  PROVE  CellOk(r, Bit(val[e]), B) /\ Bit(val[e]) \in ValuesOf("bit")
<1>1. DOMAIN val = MetaFields /\ val[e] \in Origins
  BY DEF ValuesOf
<1>2. DOMAIN Bit(val[e]) = {"bit"} /\ Bit(val[e])["bit"] = val[e]
  BY DEF Bit
<1>3. Bit(val[e]) \in ValuesOf("bit")
  BY <1>1 DEF ValuesOf, Bit
<1>4. ASSUME NEW f \in Protected
      PROVE  Holds(A, e, f) <=> Holds(B, "bit", f)
  <2>1. f \in MetaFields
    BY DEF Protected
  <2>2. CASE A = None
    BY <2>1, <2>2, PathsDiffer DEF Holds
  <2>3. CASE A # None
    <3>1. A \in Seq(MetaFields) /\ B = Append(A, e)
      BY <2>3 DEF Paths
    <3>2. e # "bit" /\ f # "bit" /\ Append(A, e) # <<>>
      BY <2>1, <3>1, PathsDiffer
    <3>3. A = <<>> /\ e = f => Append(A, e) = <<f>>
      OBVIOUS
    <3>4. Append(A, e) = <<f>> => A = <<>> /\ e = f
      BY <2>1, <3>1, PathsDiffer
    <3>5. QED BY <3>1, <3>2, <3>3, <3>4 DEF Holds
  <2>4. QED BY <2>2, <2>3
<1>5. QED BY <1>1, <1>2, <1>3, <1>4 DEF CellOk

(* A field that is written keeps its struct to what the struct's path has.     *)
LEMMA FieldToCell ==
  ASSUME NEW r, NEW A \in Paths, NEW val \in ValuesOf("M"), CellOk(r, val, A), NEW e \in MetaFields,
         NEW B, A = None => B = None, A # None => B = Append(A, e),
         NEW new \in ValuesOf("bit"), CellOk(r, new, B)
  PROVE  CellOk(r, [val EXCEPT ![e] = new.bit], A) /\ [val EXCEPT ![e] = new.bit] \in ValuesOf("M")
<1> DEFINE w == [val EXCEPT ![e] = new.bit]
<1>1. DOMAIN val = MetaFields /\ val \in [MetaFields -> Origins] /\ new["bit"] \in Origins /\ DOMAIN new = {"bit"}
  BY DEF ValuesOf
<1>2. DOMAIN w = MetaFields /\ w[e] = new["bit"] /\ w \in [MetaFields -> Origins]
      /\ \A g \in MetaFields : g # e => w[g] = val[g]
  BY <1>1
<1>3. ASSUME NEW f \in Protected
      PROVE  Holds(A, e, f) <=> Holds(B, "bit", f)
  <2>1. f \in MetaFields
    BY DEF Protected
  <2>2. CASE A = None
    BY <2>1, <2>2, PathsDiffer DEF Holds
  <2>3. CASE A # None
    <3>1. A \in Seq(MetaFields) /\ B = Append(A, e)
      BY <2>3 DEF Paths
    <3>2. e # "bit" /\ f # "bit" /\ Append(A, e) # <<>>
      BY <2>1, <3>1, PathsDiffer
    <3>3. A = <<>> /\ e = f => Append(A, e) = <<f>>
      OBVIOUS
    <3>4. Append(A, e) = <<f>> => A = <<>> /\ e = f
      BY <2>1, <3>1, PathsDiffer
    <3>5. QED BY <3>1, <3>2, <3>3, <3>4 DEF Holds
  <2>4. QED BY <2>2, <2>3
<1>4. w \in ValuesOf("M")
  BY <1>2 DEF ValuesOf
<1>5. ASSUME NEW g \in MetaFields, NEW f \in Protected
      PROVE  /\ f \notin Readable(r) /\ w[g] = f => Holds(A, g, f)
             /\ ~MayWrite(r, <<f>>) /\ Holds(A, g, f) => w[g] = f
  <2>1. CASE g = e
    BY <1>1, <1>2, <1>3, <2>1 DEF CellOk
  <2>2. CASE g # e
    BY <1>1, <1>2, <2>2 DEF CellOk
  <2>3. QED BY <2>1, <2>2
<1>6. QED BY <1>2, <1>4, <1>5 DEF CellOk

(* A value that is read freely, and one that is written freely.                *)
MayReadAll(r, A) ==
  A # None => (IF A = <<>> THEN Protected ELSE {A[1]} \cap Protected) \subseteq Readable(r)

LEMMA Unread ==
  ASSUME NEW A, NEW val, CellOk(role, val, A), MayReadAll(role, A)
  PROVE  CellOk(role, val, None)
<1>1. ASSUME NEW g \in DOMAIN val, NEW f \in Protected
      PROVE  ~Holds(None, g, f) /\ (f \notin Readable(role) => ~Holds(A, g, f))
  <2>1. f \in MetaFields
    BY DEF Protected
  <2>2. ~Holds(None, g, f)
    BY <2>1, PathsDiffer DEF Holds
  <2>3. CASE A = <<f>>
    <3>1. A # None /\ A # <<>> /\ A[1] = f
      BY <2>1, <2>3, PathsDiffer
    <3>2. f \in Readable(role)
      BY <3>1 DEF MayReadAll
    <3>3. QED BY <2>2, <3>2
  <2>4. CASE A = <<>>
    BY <2>2, <2>4, PathsDiffer DEF MayReadAll
  <2>5. QED BY <2>2, <2>3, <2>4 DEF Holds
<1>2. QED BY <1>1 DEF CellOk

(* A value with nothing unreadable may be left in any cell that is written.    *)
LEMMA Fitting ==
  ASSUME NEW A, NEW val, CellOk(role, val, None), Written(A)
  PROVE  CellOk(role, val, A)
<1>1. ASSUME NEW g \in DOMAIN val, NEW f \in Protected
      PROVE  ~Holds(None, g, f) /\ (~MayWrite(role, <<f>>) => ~Holds(A, g, f))
  <2>1. f \in MetaFields
    BY DEF Protected
  <2>2. ~Holds(None, g, f)
    BY <2>1, PathsDiffer DEF Holds
  <2>3. CASE A = <<f>>
    <3>1. A # None /\ A # <<>> /\ A[1] = f
      BY <2>1, <2>3, PathsDiffer
    <3>2. MayWrite(role, <<f>>)
      BY <2>3, <3>1 DEF Written
    <3>3. QED BY <2>2, <3>2
  <2>4. CASE A = <<>>
    BY <2>2, <2>4, PathsDiffer DEF Written
  <2>5. QED BY <2>2, <2>3, <2>4 DEF Holds
<1>2. QED BY <1>1 DEF CellOk

(* What a stage may write it may read: the value an inout argument starts      *)
(* from.                                                                       *)
LEMMA WrittenIsReadable ==
  ASSUME NEW A, Written(A), role \in StageRoles
  PROVE  MayReadAll(role, A)
<1>1. CASE Protected = {}
  BY <1>1 DEF MayReadAll
<1>2. CASE Protected # {} /\ A # None
  <2>1. A # <<>> /\ (A[1] \in Protected => MayWrite(role, A))
    BY <1>2 DEF Written
  <2>2. A[1] \in Protected => A[1] = "egress_spec" /\ role \in {"ingress", "egress"}
    BY <2>1 DEF MayWrite
  <2>3. \A q \in {"ingress", "egress"} : "egress_spec" \in Readable(q)
    BY DEF Readable
  <2>4. QED BY <2>1, <2>2, <2>3 DEF MayReadAll
<1>3. QED BY <1>1, <1>2 DEF MayReadAll

LEMMA FreshValues ==
  /\ Bit(Elsewhere) \in ValuesOf("bit") /\ \A r : CellOk(r, Bit(Elsewhere), None)
  /\ \A t \in {"bit", "M"} : Zero(t) \in ValuesOf(t) /\ \A r : CellOk(r, Zero(t), None)
  /\ Metadata \in ValuesOf("M") /\ \A r : CellOk(r, Metadata, <<>>)
<1>1. Elsewhere \notin Protected /\ Elsewhere \in Origins
  BY DEF Elsewhere, Protected, Origins
<1>2. \A g, f : f \in Protected => ~Holds(None, g, f)
  BY PathsDiffer DEF Holds, Protected
<1>3. DOMAIN Bit(Elsewhere) = {"bit"} /\ Bit(Elsewhere)["bit"] = Elsewhere
  BY DEF Bit
<1>4. Bit(Elsewhere) \in ValuesOf("bit") /\ \A r : CellOk(r, Bit(Elsewhere), None)
  BY <1>1, <1>2, <1>3 DEF CellOk, Bit, ValuesOf
<1>5. Zero("M") = [f \in MetaFields |-> Elsewhere] /\ Zero("bit") = Bit(Elsewhere)
  BY DEF Zero
<1>6. Zero("M") \in ValuesOf("M") /\ \A r : CellOk(r, Zero("M"), None)
  BY <1>1, <1>2, <1>5 DEF CellOk, ValuesOf
<1>7. /\ Metadata \in ValuesOf("M")
      /\ \A g \in MetaFields, f \in Protected : Metadata[g] = f <=> g = f
  BY <1>1 DEF Metadata, ValuesOf, Origins, Protected
<1>8. \A r : CellOk(r, Metadata, <<>>)
  <2>1. ASSUME NEW g \in MetaFields, NEW f \in Protected
        PROVE  Holds(<<>>, g, f) <=> g = f
    BY PathsDiffer DEF Holds, Protected
  <2>2. DOMAIN Metadata = MetaFields
    BY DEF Metadata
  <2>3. QED BY <1>7, <2>1, <2>2 DEF CellOk
<1>9. QED BY <1>4, <1>5, <1>6, <1>7, <1>8

-----------------------------------------------------------------------------
(* The check                                                                   *)

LEMMA ProgramFacts ==
  ASSUME NEW p, IsProgram(p), NEW n \in DOMAIN p
  PROVE  /\ p[n].kind \in {"block", "action"} /\ p[n].of \in DOMAIN p /\ p[p[n].of].kind = "block"
         /\ p[n].kind = "block" => p[n].of = n
         /\ DOMAIN p[n].vars \subseteq Names /\ p[n].param \in DOMAIN p[n].vars
         /\ \A v \in DOMAIN p[n].vars : p[n].vars[v] \in {"bit", "M"}
         /\ p[n].kind = "action" => DOMAIN p[n].vars = {p[n].param}
         /\ \A i \in DOMAIN p[n].body : IsStmt(p, n, p[n].body[i])
<1>1. p[n].vars \in [DOMAIN p[n].vars -> {"bit", "M"}]
  BY DEF IsProgram
<1>2. p[n].kind = "action" => DOMAIN p[n].vars = {p[n].param}
  BY DEF IsProgram
<1>3. \A i \in DOMAIN p[n].body : IsStmt(p, n, p[n].body[i])
  <2> DEFINE statements == {p[n].body[i] : i \in DOMAIN p[n].body}
  <2>1. \A s \in statements : IsStmt(p, n, s)
    BY DEF IsProgram
  <2>2. QED BY <2>1
<1>4. QED BY <1>1, <1>2, <1>3 DEF IsProgram

LEMMA TypesOfNames ==
  ASSUME NEW p, IsProgram(p), NEW n \in DOMAIN p
  PROVE  /\ DOMAIN Types(p, n) = DOMAIN p[n].vars \cup DOMAIN p[p[n].of].vars
         /\ DOMAIN Types(p, n) \subseteq Names
         /\ \A v \in DOMAIN p[n].vars : Types(p, n)[v] = p[n].vars[v]
         /\ \A v \in DOMAIN Types(p, n) \ DOMAIN p[n].vars : Types(p, n)[v] = p[p[n].of].vars[v]
BY ProgramFacts DEF Types

LEMMA WithIsScope ==
  ASSUME NEW scope \in Scopes, NEW c, c.param \in Names, NEW path \in Paths
  PROVE  /\ With(scope, c, path) \in Scopes
         /\ With(scope, c, path)[c.param] = path
         /\ \A v \in Names : v # c.param => With(scope, c, path)[v] = scope[v]
BY DEF With, Scopes, Paths

LEMMA NoScopeIsScope ==
  NoScope \in Scopes /\ None \in Paths /\ <<>> \in Paths /\ \A v \in Names : NoScope[v] = None
BY DEF NoScope, Scopes, Paths

(* A call's argument, the condition of an out, are paths of the caller.        *)
LEMMA StatementPaths ==
  ASSUME NEW p, IsProgram(p), NEW n \in DOMAIN p, NEW s, IsStmt(p, n, s)
  PROVE  /\ s.op \in Targeting => \E t \in {"bit", "M"} : s.target \in Values(Types(p, n), t) \cup {None}
         /\ s.op \in Reading \cup {"call"} =>
              \E t \in {"bit", "M"} : s.value \in Values(Types(p, n), t)
         /\ s.op = "call" =>
              /\ s.callee \in DOMAIN p
              /\ s.value \in Values(Types(p, n), p[s.callee].vars[p[s.callee].param])
<1>1. ASSUME s.op = "call"
      PROVE  /\ s.callee \in DOMAIN p
             /\ s.value \in Values(Types(p, n), p[s.callee].vars[p[s.callee].param])
             /\ p[s.callee].vars[p[s.callee].param] \in {"bit", "M"}
  <2>1. s.callee \in DOMAIN p
    BY <1>1 DEF IsStmt
  <2>2. p[s.callee].vars[p[s.callee].param] \in {"bit", "M"}
    BY <2>1, ProgramFacts
  <2>3. s.value \in Values(Types(p, n), p[s.callee].vars[p[s.callee].param])
    BY <1>1 DEF IsStmt, Values
  <2>4. QED BY <2>1, <2>2, <2>3
<1>2. s.op \in Targeting => \E t \in {"bit", "M"} : s.target \in Values(Types(p, n), t) \cup {None}
  BY DEF IsStmt, Values, Targeting
<1>3. s.op \in Reading => \E t \in {"bit", "M"} : s.value \in Values(Types(p, n), t)
  BY DEF IsStmt, Values, Reading
<1>4. QED BY <1>1, <1>2, <1>3

Sound(ok) == \A x \in Checks : ok[x] => ProcOk(ok, x[1], x[2])

(* A procedure that is accepted is so when more calls are.                     *)
LEMMA CheckIsMonotone ==
  ASSUME IsProgram(procs), NEW n \in DOMAIN procs, NEW scope \in Scopes, NEW ok, NEW more,
         \A x \in Checks : ok[x] => more[x], ProcOk(ok, n, scope)
  PROVE  ProcOk(more, n, scope)
<1>1. ASSUME NEW i \in DOMAIN procs[n].body
      PROVE  StmtOk(more, procs[n].body[i], scope)
  <2> DEFINE s == procs[n].body[i]
             c == procs[s.callee]
             path == Alias(s.value, scope)
             base == IF c.kind = "block" THEN NoScope ELSE scope
  <2>1. StmtOk(ok, s, scope) /\ IsStmt(procs, n, s)
    BY ProgramFacts DEF ProcOk
  <2>2. ASSUME s.op = "call" PROVE <<s.callee, With(base, c, path)>> \in Checks
    <3>1. s.callee \in DOMAIN procs /\ s.value \in Values(Types(procs, n), c.vars[c.param])
      BY <2>1, <2>2, StatementPaths
    <3>2. path \in Paths
      BY <3>1, TypesOfNames, AliasIsPath
    <3>3. c.param \in Names /\ base \in Scopes
      BY <3>1, ProgramFacts, NoScopeIsScope
    <3>4. With(base, c, path) \in Scopes
      BY <3>2, <3>3, WithIsScope
    <3>5. QED BY <3>1, <3>4 DEF Checks
  <2>3. s.op = "call" => ok[<<s.callee, With(base, c, path)>>]
    BY <2>1 DEF StmtOk
  <2>4. s.op = "call" => more[<<s.callee, With(base, c, path)>>]
    BY <2>2, <2>3
  <2>5. QED BY <2>1, <2>4 DEF StmtOk
<1>2. ASSUME procs[n].kind = "block", NEW a \in DOMAIN procs, procs[a].kind = "action", procs[a].of = n
      PROVE  more[<<a, With(scope, procs[a], None)>>]
  <2>1. ok[<<a, With(scope, procs[a], None)>>]
    BY <1>2 DEF ProcOk
  <2>2. With(scope, procs[a], None) \in Scopes
    BY ProgramFacts, WithIsScope, NoScopeIsScope
  <2>3. QED BY <2>1, <2>2 DEF Checks
<1>3. QED BY <1>1, <1>2 DEF ProcOk

(* The check is defined: it holds of what some set of checks that only needs   *)
(* its own members has.                                                        *)
LEMMA CheckedIs ==
  ASSUME IsProgram(procs)
  PROVE  Sound(Checked)
<1> DEFINE In(S) == [x \in Checks |-> x \in S]
           Closed(S) == \A x \in S : ProcOk(In(S), x[1], x[2])
           g == [x \in Checks |-> \E S \in SUBSET Checks : x \in S /\ Closed(S)]
           h == [x \in Checks |-> ProcOk(g, x[1], x[2])]
<1>1. \A x \in Checks : x[1] \in DOMAIN procs /\ x[2] \in Scopes
  BY DEF Checks
<1>2. ASSUME NEW x \in Checks, g[x] PROVE ProcOk(g, x[1], x[2])
  <2>1. PICK S \in SUBSET Checks : x \in S /\ Closed(S)
    BY <1>2
  <2>2. \A y \in Checks : In(S)[y] => g[y]
    BY <2>1
  <2>3. ProcOk(In(S), x[1], x[2])
    BY <2>1
  <2> HIDE DEF g, In
  <2>4. QED BY <1>1, <2>2, <2>3, CheckIsMonotone
<1>3. ASSUME NEW x \in Checks, ProcOk(g, x[1], x[2]) PROVE g[x]
  <2> DEFINE S == {y \in Checks : g[y]} \cup {x}
  <2>1. \A y \in Checks : g[y] => In(S)[y]
    OBVIOUS
  <2>2. ASSUME NEW y \in S PROVE ProcOk(In(S), y[1], y[2])
    <3>1. y \in Checks /\ ProcOk(g, y[1], y[2])
      BY <1>2, <1>3
    <3> HIDE DEF g, S, In
    <3>2. QED BY <1>1, <2>1, <3>1, CheckIsMonotone
  <2>3. S \in SUBSET Checks /\ x \in S
    OBVIOUS
  <2> HIDE DEF S
  <2>4. QED BY <2>2, <2>3
<1>4. \A x \in Checks : g[x] = ProcOk(g, x[1], x[2])
  <2>1. SUFFICES ASSUME NEW x \in Checks PROVE g[x] = ProcOk(g, x[1], x[2])
    OBVIOUS
  <2>2. g[x] \in BOOLEAN
    OBVIOUS
  <2>3. ProcOk(g, x[1], x[2]) \in BOOLEAN
    BY DEF ProcOk
  <2> HIDE DEF g
  <2>4. QED BY <1>2, <1>3, <2>2, <2>3
<1>5. g = h
  <2>1. g = [x \in Checks |-> g[x]]
    OBVIOUS
  <2> HIDE DEF g
  <2>2. QED BY <1>4, <2>1
<1>6. \E f : f = [x \in Checks |-> ProcOk(f, x[1], x[2])]
  <2> HIDE DEF g
  <2>1. QED BY <1>5
<1>7. Checked = [x \in Checks |-> ProcOk(Checked, x[1], x[2])]
  BY <1>6 DEF Checked
<1> HIDE DEF g, h
<1>8. QED BY <1>7 DEF Sound

LEMMA SoundKept ==
  ASSUME NEW ok, Sound(ok), role' = role, procs' = procs
  PROVE  Sound(ok)'
<1>1. ASSUME NEW s, NEW scope, StmtOk(ok, s, scope) PROVE StmtOk(ok, s, scope)'
  <2>1. Reads(s.value, scope)' <=> Reads(s.value, scope)
    BY DEF Reads
  <2>2. \A q : Written(q)' <=> Written(q)
    BY DEF Written
  <2>3. QED BY <1>1, <2>1, <2>2 DEF StmtOk
<1>2. ASSUME NEW n, NEW scope, ProcOk(ok, n, scope) PROVE ProcOk(ok, n, scope)'
  BY <1>1, <1>2 DEF ProcOk
<1>3. Checks' = Checks
  BY DEF Checks
<1>4. QED BY <1>2, <1>3 DEF Sound

-----------------------------------------------------------------------------
(* A statement is checked under the paths its variables stand for              *)

BlockScope(p, n, A) == With(NoScope, p[n], A)

(* A procedure has been checked with its parameter standing for A: a block     *)
(* with nothing else standing for a path.                                      *)
Permitted(ok, p, n, A) ==
  /\ p[n].kind = "block" => ok[<<n, BlockScope(p, n, A)>>]
  /\ p[n].kind = "action" => \E scope \in Scopes : scope[p[n].param] = A /\ ok[<<n, scope>>]

(* What the names of n's body stand for, in an activation of its block m.      *)
SeenBy(p, n, A, m, B) == With(BlockScope(p, m, B), p[n], A)

LEMMA SeenIsScope ==
  ASSUME NEW p, IsProgram(p), NEW n \in DOMAIN p, NEW m \in DOMAIN p, NEW A \in Paths, NEW B \in Paths
  PROVE  /\ BlockScope(p, m, B) \in Scopes /\ SeenBy(p, n, A, m, B) \in Scopes
         /\ BlockScope(p, m, B)[p[m].param] = B /\ SeenBy(p, n, A, m, B)[p[n].param] = A
         /\ \A v \in Names : v # p[m].param => BlockScope(p, m, B)[v] = None
         /\ \A v \in Names : v # p[n].param => SeenBy(p, n, A, m, B)[v] = BlockScope(p, m, B)[v]
         /\ n = m /\ A = B => SeenBy(p, n, A, m, B) = BlockScope(p, m, B)
<1>1. p[n].param \in Names /\ p[m].param \in Names
  BY ProgramFacts
<1>2. /\ BlockScope(p, m, B) \in Scopes /\ BlockScope(p, m, B)[p[m].param] = B
      /\ \A v \in Names : v # p[m].param => BlockScope(p, m, B)[v] = None
  <2>1. NoScope \in Scopes /\ \A v \in Names : NoScope[v] = None
    BY NoScopeIsScope
  <2>2. /\ With(NoScope, p[m], B) \in Scopes /\ With(NoScope, p[m], B)[p[m].param] = B
        /\ \A v \in Names : v # p[m].param => With(NoScope, p[m], B)[v] = NoScope[v]
    BY <1>1, <2>1, WithIsScope
  <2>3. QED BY <2>1, <2>2 DEF BlockScope
<1>3. /\ SeenBy(p, n, A, m, B) \in Scopes /\ SeenBy(p, n, A, m, B)[p[n].param] = A
      /\ \A v \in Names : v # p[n].param => SeenBy(p, n, A, m, B)[v] = BlockScope(p, m, B)[v]
  BY <1>1, <1>2, WithIsScope DEF SeenBy
<1>4. ASSUME n = m, A = B PROVE SeenBy(p, n, A, m, B) = BlockScope(p, m, B)
  <2>1. \A v \in Names : SeenBy(p, n, A, m, B)[v] = BlockScope(p, m, B)[v]
    BY <1>2, <1>3, <1>4
  <2>2. QED BY <1>2, <1>3, <2>1 DEF Scopes
<1>5. QED BY <1>2, <1>3, <1>4

LEMMA CallAllowed ==
  ASSUME IsProgram(procs), NEW n \in DOMAIN procs, NEW s, IsStmt(procs, n, s), s.op = "call",
         NEW ok, NEW scope \in Scopes, StmtOk(ok, s, scope)
  PROVE  /\ Alias(s.value, scope) \in Paths
         /\ Permitted(ok, procs, s.callee, Alias(s.value, scope))
         /\ procs[s.callee].dir = "out" => Written(Alias(s.value, scope))
<1> DEFINE c == procs[s.callee]
           path == Alias(s.value, scope)
<1>1. s.callee \in DOMAIN procs /\ s.value \in Values(Types(procs, n), c.vars[c.param])
  BY StatementPaths
<1>2. path \in Paths
  BY <1>1, TypesOfNames, AliasIsPath
<1>3. c.kind \in {"block", "action"} /\ c.param \in Names
  BY <1>1, ProgramFacts
<1>4. c.kind = "block" => ok[<<s.callee, With(NoScope, c, path)>>]
  BY DEF StmtOk
<1>5. ASSUME c.kind = "action" PROVE ok[<<s.callee, With(scope, c, path)>>]
  BY <1>5 DEF StmtOk
<1>6. With(scope, c, path) \in Scopes /\ With(scope, c, path)[c.param] = path
  BY <1>2, <1>3, WithIsScope
<1>7. Permitted(ok, procs, s.callee, path)
  BY <1>3, <1>4, <1>5, <1>6 DEF Permitted, BlockScope
<1>8. c.dir = "out" => Written(path)
  BY DEF StmtOk
<1>9. QED BY <1>2, <1>7, <1>8

(* In an action, its parameter is followed by the check of its call, the rest  *)
(* by the check of the action on its own.                                      *)
LEMMA SomeScope ==
  ASSUME IsProgram(procs), NEW ok, Sound(ok), NEW n \in DOMAIN procs, NEW A \in Paths, NEW B \in Paths,
         Permitted(ok, procs, n, A), Permitted(ok, procs, procs[n].of, B),
         procs[n].kind = "block" => A = B, NEW i \in DOMAIN procs[n].body,
         NEW q, q \in {None, Literal} \/ q[1] \in Names
  PROVE  \E scope \in Scopes : /\ StmtOk(ok, procs[n].body[i], scope)
                               /\ Alias(q, scope) = Alias(q, SeenBy(procs, n, A, procs[n].of, B))
<1> DEFINE m == procs[n].of
           s == procs[n].body[i]
           view == SeenBy(procs, n, A, m, B)
           block == BlockScope(procs, m, B)
<1>1. /\ m \in DOMAIN procs /\ procs[m].kind = "block" /\ procs[n].kind \in {"block", "action"}
      /\ procs[n].kind = "block" => m = n
      /\ procs[n].param \in Names
  BY ProgramFacts
<1>2. block \in Scopes /\ view \in Scopes /\ view[procs[n].param] = A
      /\ (\A v \in Names : v # procs[n].param => view[v] = block[v])
      /\ (n = m /\ A = B => view = block)
  BY <1>1, SeenIsScope
<1>3. ok[<<m, block>>] /\ <<m, block>> \in Checks
  BY <1>1, <1>2 DEF Permitted, Checks
<1>4. ProcOk(ok, m, block)
  BY <1>3 DEF Sound
<1>5. CASE procs[n].kind = "block"
  <2>1. m = n /\ view = block
    BY <1>1, <1>2, <1>5
  <2>2. StmtOk(ok, s, block)
    BY <1>4, <2>1 DEF ProcOk
  <2>3. QED BY <1>2, <2>1, <2>2
<1>6. CASE procs[n].kind = "action"
  <2>1. PICK scope \in Scopes : scope[procs[n].param] = A /\ ok[<<n, scope>>]
    BY <1>6 DEF Permitted
  <2>2. StmtOk(ok, s, scope)
    <3>1. <<n, scope>> \in Checks
      BY DEF Checks
    <3>2. QED BY <2>1, <3>1 DEF Sound, ProcOk
  <2> DEFINE alone == With(block, procs[n], None)
  <2>3. alone \in Scopes /\ \A v \in Names : v # procs[n].param => alone[v] = block[v]
    BY <1>1, <1>2, WithIsScope, NoScopeIsScope
  <2>4. ok[<<n, alone>>]
    BY <1>1, <1>4, <1>6 DEF ProcOk
  <2>5. StmtOk(ok, s, alone)
    <3>1. <<n, alone>> \in Checks
      BY <2>3 DEF Checks
    <3>2. QED BY <2>4, <3>1 DEF Sound, ProcOk
  <2> HIDE DEF alone, block
  <2>6. CASE q \in {None, Literal}
    BY <2>2, <2>6 DEF Alias
  <2>7. CASE q[1] \in Names /\ q[1] = procs[n].param
    <3>1. scope[q[1]] = view[q[1]]
      BY <1>2, <2>1, <2>7
    <3>2. Alias(q, scope) = Alias(q, view)
      BY <3>1 DEF Alias
    <3>3. QED BY <2>2, <3>2
  <2>8. CASE q[1] \in Names /\ q[1] # procs[n].param
    <3>1. alone[q[1]] = view[q[1]]
      BY <1>2, <2>3, <2>8
    <3>2. Alias(q, alone) = Alias(q, view)
      BY <3>1 DEF Alias
    <3>3. QED BY <2>3, <2>5, <3>2
  <2>9. QED BY <2>6, <2>7, <2>8
<1>7. QED BY <1>1, <1>5, <1>6

LEMMA PathName ==
  ASSUME NEW types, DOMAIN types \subseteq Names, NEW t, NEW q \in Values(types, t) \cup {None}
  PROVE  q \in {None, Literal} \/ q[1] \in Names
<1>1. CASE q \in Typed(types, t)
  BY <1>1, TypedPath
<1>2. QED BY <1>1 DEF Values

LEMMA StatementAllowed ==
  ASSUME IsProgram(procs), NEW ok, Sound(ok), NEW n \in DOMAIN procs, NEW A \in Paths, NEW B \in Paths,
         Permitted(ok, procs, n, A), Permitted(ok, procs, procs[n].of, B),
         procs[n].kind = "block" => A = B, NEW i \in DOMAIN procs[n].body
  PROVE  LET s == procs[n].body[i]
             view == SeenBy(procs, n, A, procs[n].of, B)
         IN /\ s.op \in Reading => MayReadAll(role, Alias(s.value, view))
            /\ s.op \in Targeting => Written(Alias(s.target, view))
            /\ s.op = "call" =>
                 /\ Alias(s.value, view) \in Paths
                 /\ Permitted(ok, procs, s.callee, Alias(s.value, view))
                 /\ procs[s.callee].dir = "out" => Written(Alias(s.value, view))
            /\ s.op = "apply" /\ s.callee # NoAction => Permitted(ok, procs, s.callee, None)
<1> DEFINE s == procs[n].body[i]
           view == SeenBy(procs, n, A, procs[n].of, B)
<1>1. IsStmt(procs, n, s) /\ DOMAIN Types(procs, n) \subseteq Names
  BY ProgramFacts, TypesOfNames
<1>2. ASSUME s.op \in Reading \cup {"call"}
      PROVE  \E scope \in Scopes : StmtOk(ok, s, scope) /\ Alias(s.value, scope) = Alias(s.value, view)
  <2>1. s.value \in {None, Literal} \/ s.value[1] \in Names
    BY <1>1, <1>2, StatementPaths, PathName
  <2>2. QED BY <2>1, SomeScope
<1>3. s.op \in Reading => MayReadAll(role, Alias(s.value, view))
  <2>1. SUFFICES ASSUME s.op \in Reading PROVE MayReadAll(role, Alias(s.value, view))
    OBVIOUS
  <2>2. PICK scope \in Scopes : StmtOk(ok, s, scope) /\ Alias(s.value, scope) = Alias(s.value, view)
    BY <1>2, <2>1
  <2>3. Reads(s.value, scope)
    BY <2>1, <2>2 DEF StmtOk
  <2>4. MayReadAll(role, Alias(s.value, scope))
    BY <2>3 DEF Reads, MayReadAll
  <2>5. QED BY <2>2, <2>4
<1>4. s.op \in Targeting => Written(Alias(s.target, view))
  <2>1. SUFFICES ASSUME s.op \in Targeting PROVE Written(Alias(s.target, view))
    OBVIOUS
  <2>2. s.target \in {None, Literal} \/ s.target[1] \in Names
    BY <1>1, <2>1, StatementPaths, PathName
  <2>3. PICK scope \in Scopes : StmtOk(ok, s, scope) /\ Alias(s.target, scope) = Alias(s.target, view)
    BY <2>2, SomeScope
  <2>4. Written(Alias(s.target, scope))
    BY <2>1, <2>3 DEF StmtOk
  <2>5. QED BY <2>3, <2>4
<1>5. ASSUME s.op = "call"
      PROVE  /\ Alias(s.value, view) \in Paths
             /\ Permitted(ok, procs, s.callee, Alias(s.value, view))
             /\ procs[s.callee].dir = "out" => Written(Alias(s.value, view))
  <2>1. PICK scope \in Scopes : StmtOk(ok, s, scope) /\ Alias(s.value, scope) = Alias(s.value, view)
    BY <1>2, <1>5
  <2>2. QED BY <1>1, <1>5, <2>1, CallAllowed
<1>6. ASSUME s.op = "apply", s.callee # NoAction PROVE Permitted(ok, procs, s.callee, None)
  <2>1. /\ procs[n].kind = "block" /\ s.callee \in DOMAIN procs /\ procs[s.callee].kind = "action"
        /\ procs[s.callee].of = n
    BY <1>1, <1>6 DEF IsStmt
  <2>2. procs[n].of = n /\ procs[s.callee].param \in Names
    BY <2>1, ProgramFacts
  <2>3. BlockScope(procs, n, A) \in Scopes /\ <<n, BlockScope(procs, n, A)>> \in Checks
    BY SeenIsScope DEF Checks
  <2>4. ProcOk(ok, n, BlockScope(procs, n, A))
    BY <2>1, <2>3 DEF Permitted, Sound
  <2>5. ok[<<s.callee, With(BlockScope(procs, n, A), procs[s.callee], None)>>]
    BY <2>1, <2>4 DEF ProcOk
  <2>6. /\ With(BlockScope(procs, n, A), procs[s.callee], None) \in Scopes
        /\ With(BlockScope(procs, n, A), procs[s.callee], None)[procs[s.callee].param] = None
    <3> DEFINE scope == BlockScope(procs, n, A)
    <3>1. scope \in Scopes /\ None \in Paths
      BY <2>3, NoScopeIsScope
    <3> HIDE DEF scope
    <3>2. With(scope, procs[s.callee], None) \in Scopes /\ With(scope, procs[s.callee], None)[procs[s.callee].param] = None
      BY <2>2, <3>1, WithIsScope
    <3>3. QED BY <3>2 DEF scope
  <2>7. QED BY <2>1, <2>5, <2>6 DEF Permitted
<1>7. QED BY <1>3, <1>4, <1>5, <1>6

-----------------------------------------------------------------------------
(* The invariant: stands[k] is the path the parameter of activation k stands   *)
(* for, in a stage that Sound(ok) accepts                                      *)

Body(p, n) == {p[n].body[i] : i \in DOMAIN p[n].body}

SeenAt(p, stands, stk, k) == SeenBy(p, stk[k].proc, stands[k], stk[stk[k].home].proc, stands[stk[k].home])

SameRecord(f, e) == f = [proc |-> e.proc, todo |-> f.todo, home |-> e.home, dest |-> e.dest, hit |-> e.hit]

FrameOk(p, ok, stands, stk, k) ==
  LET f == stk[k] IN
  /\ SameRecord(f, f) /\ f.proc \in DOMAIN p /\ f.todo \in Seq(Body(p, f.proc))
  /\ f.home \in 1 .. k /\ stk[f.home].proc = p[f.proc].of /\ (p[f.proc].kind = "block" => f.home = k)
  /\ Permitted(ok, p, f.proc, stands[k])

(* What is written back fits the caller's variable.                            *)
DestOk(r, p, stands, stk, k) ==
  LET f == stk[k]
      types == Types(p, stk[k - 1].proc)
      path == Alias(f.dest, SeenAt(p, stands, stk, k - 1))
  IN \/ f.dest = None
     \/ f.hit /\ f.dest \in Typed(types, "bit") /\ CellOk(r, Bit(Elsewhere), path)
     \/ ~f.hit /\ f.dest \in Typed(types, p[f.proc].vars[p[f.proc].param]) /\ path = stands[k]

CellPath(p, n, A, v) == IF v = p[n].param THEN A ELSE None
StoreOk(r, p, n, A, store) ==
  /\ DOMAIN store = DOMAIN p[n].vars
  /\ \A v \in DOMAIN store :
       store[v] \in ValuesOf(p[n].vars[v]) /\ CellOk(r, store[v], CellPath(p, n, A, v))

Given(r) == {Elsewhere} \cup (Protected \cap Readable(r))

RunsOk(r, p, ok, stands, stk, sto) ==
  /\ IsSeq(stk) /\ Len(stk) >= 1 /\ IsSeq(sto) /\ Len(sto) = Len(stk)
  /\ stands \in [Nat -> Paths] /\ stk[1].proc = "stage" /\ stands[1] = <<>>
  /\ \A k \in 1 .. Len(stk) :
       /\ FrameOk(p, ok, stands, stk, k) /\ (k > 1 => DestOk(r, p, stands, stk, k))
       /\ StoreOk(r, p, stk[k].proc, stands[k], sto[k])

Access ==
  /\ role \in StageRoles /\ IsProgram(procs) /\ given \subseteq Given(role)
  /\ \E ok, stands : Sound(ok) /\ RunsOk(role, procs, ok, stands, stack, stores)

(* Where a name of the running body is found, and that its cell is of the type *)
(* and stands for the path that the check took it for.                         *)
LEMMA HomeIs ==
  ASSUME IsProgram(procs), NEW ok, NEW stands, RunsOk(role, procs, ok, stands, stack, stores),
         NEW k \in 1 .. Len(stack), NEW v \in DOMAIN Types(procs, stack[k].proc)
  PROVE  LET h == Home(k, v)
             n == stack[h].proc
         IN /\ h \in 1 .. Len(stack) /\ n \in DOMAIN procs /\ v \in DOMAIN stores[h] /\ v \in Names
            /\ procs[n].vars[v] = Types(procs, stack[k].proc)[v]
            /\ SeenAt(procs, stands, stack, k) \in Scopes
            /\ SeenAt(procs, stands, stack, k)[v] = CellPath(procs, n, stands[h], v)
<1> DEFINE f == stack[k]
           m == stack[f.home].proc
           view == SeenAt(procs, stands, stack, k)
           block == BlockScope(procs, m, stands[f.home])
<1>1. FrameOk(procs, ok, stands, stack, k) /\ StoreOk(role, procs, f.proc, stands[k], stores[k])
  BY DEF RunsOk
<1>2. /\ f.proc \in DOMAIN procs /\ f.home \in 1 .. k /\ m = procs[f.proc].of
      /\ (procs[f.proc].kind = "block" => f.home = k)
  BY <1>1 DEF FrameOk
<1>3. f.home \in 1 .. Len(stack) /\ k \in 1 .. Len(stack) /\ Len(stack) \in Nat
  BY <1>2 DEF RunsOk, IsSeq
<1>4. StoreOk(role, procs, m, stands[f.home], stores[f.home]) /\ m \in DOMAIN procs
  BY <1>3 DEF RunsOk, FrameOk
<1>5. stands[k] \in Paths /\ stands[f.home] \in Paths
  BY <1>3 DEF RunsOk
<1>6. /\ block \in Scopes /\ view \in Scopes
      /\ block[procs[m].param] = stands[f.home] /\ view[procs[f.proc].param] = stands[k]
      /\ \A w \in Names : w # procs[m].param => block[w] = None
      /\ \A w \in Names : w # procs[f.proc].param => view[w] = block[w]
  BY <1>2, <1>4, <1>5, SeenIsScope DEF SeenAt
<1>7. /\ DOMAIN stores[k] = DOMAIN procs[f.proc].vars /\ DOMAIN stores[f.home] = DOMAIN procs[m].vars
  BY <1>1, <1>4 DEF StoreOk
<1>8. /\ DOMAIN Types(procs, f.proc) = DOMAIN procs[f.proc].vars \cup DOMAIN procs[m].vars
      /\ DOMAIN Types(procs, f.proc) \subseteq Names
      /\ \A w \in DOMAIN procs[f.proc].vars : Types(procs, f.proc)[w] = procs[f.proc].vars[w]
      /\ \A w \in DOMAIN Types(procs, f.proc) \ DOMAIN procs[f.proc].vars :
           Types(procs, f.proc)[w] = procs[m].vars[w]
  <2> DEFINE n == f.proc
  <2>1. n \in DOMAIN procs /\ m = procs[n].of
    BY <1>2
  <2> HIDE DEF n, m
  <2>2. /\ DOMAIN Types(procs, n) = DOMAIN procs[n].vars \cup DOMAIN procs[procs[n].of].vars
        /\ DOMAIN Types(procs, n) \subseteq Names
        /\ \A w \in DOMAIN procs[n].vars : Types(procs, n)[w] = procs[n].vars[w]
        /\ \A w \in DOMAIN Types(procs, n) \ DOMAIN procs[n].vars :
             Types(procs, n)[w] = procs[procs[n].of].vars[w]
    BY <2>1, TypesOfNames
  <2>3. QED BY <2>1, <2>2 DEF n
<1>9. procs[f.proc].kind \in {"block", "action"} /\ procs[f.proc].param \in DOMAIN procs[f.proc].vars
      /\ (procs[f.proc].kind = "action" => DOMAIN procs[f.proc].vars = {procs[f.proc].param})
  BY <1>2, ProgramFacts
<1>10. CASE v \in DOMAIN stores[k]
  <2>1. Home(k, v) = k
    BY <1>10 DEF Home
  <2>2. view[v] = CellPath(procs, f.proc, stands[k], v)
    <3>1. CASE v = procs[f.proc].param
      BY <3>1, <1>6 DEF CellPath
    <3>2. CASE v # procs[f.proc].param
      <4>1. procs[f.proc].kind = "block"
        BY <1>7, <1>9, <1>10, <3>2
      <4>2. f.home = k /\ m = f.proc
        BY <4>1, <1>2
      <4>3. v \in Names
        BY <1>8
      <4>4. view[v] = block[v] /\ block[v] = None
        BY <1>6, <3>2, <4>2, <4>3
      <4>5. QED BY <3>2, <4>4 DEF CellPath
    <3>3. QED BY <3>1, <3>2
  <2>3. QED BY <1>2, <1>6, <1>7, <1>8, <1>10, <2>1, <2>2
<1>11. CASE v \notin DOMAIN stores[k]
  <2>1. Home(k, v) = f.home
    BY <1>11 DEF Home
  <2>2. v \in DOMAIN stores[f.home] /\ v \in Names /\ v # procs[f.proc].param
    BY <1>7, <1>8, <1>9, <1>11
  <2>3. view[v] = block[v]
    BY <1>6, <2>2
  <2>4. block[v] = CellPath(procs, m, stands[f.home], v)
    BY <1>6, <2>2 DEF CellPath
  <2>5. QED BY <1>3, <1>4, <1>6, <1>7, <1>8, <1>11, <2>1, <2>2, <2>3, <2>4
<1>12. QED BY <1>10, <1>11

(* A value read is of its type and carries what its path does.                 *)
LEMMA ReadFits ==
  ASSUME IsProgram(procs), NEW ok, NEW stands, RunsOk(role, procs, ok, stands, stack, stores),
         NEW t \in {"bit", "M"}, NEW q \in Values(Types(procs, Top.proc), t)
  PROVE  /\ Read(q) \in ValuesOf(t)
         /\ CellOk(role, Read(q), Alias(q, SeenAt(procs, stands, stack, Len(stack))))
<1> DEFINE k == Len(stack)
           types == Types(procs, stack[k].proc)
           view == SeenAt(procs, stands, stack, k)
<1>1. k \in 1 .. Len(stack)
  BY DEF RunsOk, IsSeq
<1>2. CASE q = Literal
  <2>1. t = "bit" \/ q \in Typed(types, t)
    BY DEF Values, Top
  <2>2. q \notin Typed(types, t)
    BY <1>2, TypedPath DEF Literal
  <2>3. Read(q) = Bit(Elsewhere) /\ Alias(q, view) = None
    BY <1>2 DEF Read, Alias
  <2>4. QED BY <2>1, <2>2, <2>3, FreshValues
<1>3. CASE q # Literal
  <2>1. q \in Typed(types, t)
    BY <1>3 DEF Values, Top
  <2>2. PICK v \in DOMAIN types :
           \/ q = <<v>> /\ types[v] = t
           \/ types[v] = "M" /\ t = "bit" /\ \E f \in MetaFields : q = <<v, f>>
    BY <2>1, TypedPath
  <2> DEFINE h == Home(k, v)
             val == stores[h][v]
             A == view[v]
  <2>3. /\ h \in 1 .. Len(stack) /\ v \in DOMAIN stores[h] /\ v \in Names /\ view \in Scopes
        /\ procs[stack[h].proc].vars[v] = types[v] /\ A = CellPath(procs, stack[h].proc, stands[h], v)
    BY <1>1, HomeIs
  <2>4. val \in ValuesOf(types[v]) /\ CellOk(role, val, A)
    BY <2>3 DEF RunsOk, StoreOk
  <2>5. A \in Paths
    BY <2>3 DEF Scopes, Paths
  <2>6. CASE q = <<v>> /\ types[v] = t
    <3>1. Read(q) = val
      BY <1>3, <2>6 DEF Read
    <3>2. Alias(q, view) = A
      BY <2>3, <2>6, AliasOfVar
    <3>3. QED BY <2>4, <2>6, <3>1, <3>2
  <2>7. ASSUME NEW f \in MetaFields, types[v] = "M", t = "bit", q = <<v, f>>
        PROVE  Read(q) \in ValuesOf(t) /\ CellOk(role, Read(q), Alias(q, view))
    <3>1. Read(q) = Bit(val[f])
      BY <1>3, <2>7 DEF Read
    <3>2. (A = None => Alias(q, view) = None) /\ (A # None => Alias(q, view) = Append(A, f))
      BY <2>3, <2>7, AliasOfVar
    <3>3. val \in ValuesOf("M")
      BY <2>4, <2>7
    <3> HIDE DEF val, A, view, h
    <3>4. CellOk(role, Bit(val[f]), Alias(q, view)) /\ Bit(val[f]) \in ValuesOf("bit")
      BY <2>4, <2>5, <3>2, <3>3, FieldOfCell
    <3>5. QED BY <2>7, <3>1, <3>4
  <2>8. QED BY <2>2, <2>6, <2>7
<1>4. QED BY <1>2, <1>3

(* A write of what fits its path.                                              *)
LEMMA WriteFits ==
  ASSUME IsProgram(procs), NEW ok, NEW stands, RunsOk(role, procs, ok, stands, stack, stores),
         NEW k \in 1 .. Len(stack), NEW t \in {"bit", "M"},
         NEW q, NEW new, q # None => /\ q \in Typed(Types(procs, stack[k].proc), t) /\ new \in ValuesOf(t)
                                     /\ CellOk(role, new, Alias(q, SeenAt(procs, stands, stack, k)))
  PROVE  LET sto == Write(k, q, new) IN
         /\ IsSeq(sto) /\ Len(sto) = Len(stack)
         /\ \A j \in 1 .. Len(stack) : StoreOk(role, procs, stack[j].proc, stands[j], sto[j])
<1> DEFINE types == Types(procs, stack[k].proc)
           view == SeenAt(procs, stands, stack, k)
           sto == Write(k, q, new)
<1>1. /\ IsSeq(stores) /\ Len(stores) = Len(stack)
      /\ \A j \in 1 .. Len(stack) : StoreOk(role, procs, stack[j].proc, stands[j], stores[j])
  BY DEF RunsOk
<1>2. CASE q = None
  BY <1>1, <1>2 DEF Write
<1>3. CASE q # None
  <2>2. PICK v \in DOMAIN types :
           \/ q = <<v>> /\ types[v] = t
           \/ types[v] = "M" /\ t = "bit" /\ \E f \in MetaFields : q = <<v, f>>
    BY <1>3, TypedPath
  <2> DEFINE h == Home(k, v)
             val == stores[h][v]
             A == view[v]
             w == Changed(val, q, new)
             n == stack[h].proc
             store == [stores[h] EXCEPT ![v] = w]
  <2>3. /\ h \in 1 .. Len(stack) /\ v \in DOMAIN stores[h] /\ v \in Names /\ view \in Scopes
        /\ procs[n].vars[v] = types[v] /\ A = CellPath(procs, n, stands[h], v)
    BY HomeIs
  <2>4. val \in ValuesOf(types[v]) /\ CellOk(role, val, A)
    BY <1>1, <2>3 DEF StoreOk
  <2>5. A \in Paths
    BY <2>3 DEF Scopes, Paths
  <2>6. w \in ValuesOf(types[v]) /\ CellOk(role, w, A)
    <3>1. CASE q = <<v>> /\ types[v] = t
      <4>1. w = new
        BY <3>1 DEF Changed
      <4>2. Alias(q, view) = A
        BY <2>3, <3>1, AliasOfVar
      <4>3. QED BY <1>3, <3>1, <4>1, <4>2
    <3>2. ASSUME NEW f \in MetaFields, types[v] = "M", t = "bit", q = <<v, f>>
          PROVE  w \in ValuesOf(types[v]) /\ CellOk(role, w, A)
      <4>1. w = [val EXCEPT ![f] = new.bit]
        BY <3>2 DEF Changed
      <4>2. (A = None => Alias(q, view) = None) /\ (A # None => Alias(q, view) = Append(A, f))
        BY <2>3, <3>2, AliasOfVar
      <4>3. val \in ValuesOf("M") /\ new \in ValuesOf("bit") /\ CellOk(role, new, Alias(q, view))
        BY <1>3, <2>4, <3>2
      <4> HIDE DEF val, A, view, h, w
      <4>4. CellOk(role, [val EXCEPT ![f] = new.bit], A) /\ [val EXCEPT ![f] = new.bit] \in ValuesOf("M")
        BY <2>4, <2>5, <4>2, <4>3, FieldToCell
      <4>5. QED BY <3>2, <4>1, <4>4
    <3>3. QED BY <2>2, <3>1, <3>2
  <2>7. q[1] = v
    BY <2>2
  <2>8. sto = [stores EXCEPT ![h] = store]
    <3>1. sto = [stores EXCEPT ![Home(k, q[1])][q[1]] = Changed(stores[Home(k, q[1])][q[1]], q, new)]
      BY <1>3 DEF Write
    <3>2. QED BY <2>7, <3>1
  <2> HIDE DEF sto, w, val
  <2>9. StoreOk(role, procs, n, stands[h], store)
    <3>1. /\ DOMAIN store = DOMAIN stores[h] /\ store[v] = w
          /\ \A u \in DOMAIN stores[h] : u # v => store[u] = stores[h][u]
      BY <2>3
    <3>2. StoreOk(role, procs, n, stands[h], stores[h])
      BY <1>1, <2>3
    <3> HIDE DEF store
    <3>3. QED BY <2>3, <2>6, <3>1, <3>2 DEF StoreOk
  <2> HIDE DEF store, h
  <2>10. /\ IsSeq(sto) /\ Len(sto) = Len(stores) /\ sto[h] = store
         /\ \A i \in 1 .. Len(stores) : i # h => sto[i] = stores[i]
    <3>1. h \in 1 .. Len(stores)
      BY <1>1, <2>3
    <3>2. LET changed == [stores EXCEPT ![h] = store] IN
          /\ IsSeq(changed) /\ Len(changed) = Len(stores) /\ changed[h] = store
          /\ \A i \in 1 .. Len(stores) : i # h => changed[i] = stores[i]
      BY <1>1, <3>1, Replaced
    <3>3. QED BY <2>8, <3>2
  <2>11. QED BY <1>1, <2>3, <2>9, <2>10 DEF sto
<1>4. QED BY <1>2, <1>3

-----------------------------------------------------------------------------
(* The steps                                                                   *)

LEMMA SameFields ==
  ASSUME NEW f, NEW e, SameRecord(f, e)
  PROVE  /\ f.proc = e.proc /\ f.home = e.home /\ f.dest = e.dest /\ f.hit = e.hit
         /\ SameRecord(f, f)
<1> DEFINE t == f.todo
           w == [proc |-> e.proc, todo |-> t, home |-> e.home, dest |-> e.dest, hit |-> e.hit]
<1>1. f = w
  BY DEF SameRecord
<1>2. w.proc = e.proc /\ w.home = e.home /\ w.dest = e.dest /\ w.hit = e.hit
  OBVIOUS
<1> HIDE DEF w, t
<1>3. f.proc = e.proc /\ f.home = e.home /\ f.dest = e.dest /\ f.hit = e.hit
  BY <1>1, <1>2
<1>4. QED BY <1>1, <1>3 DEF SameRecord, w, t

LEMMA Agree ==
  ASSUME NEW r, NEW p, NEW ok, NEW stands, NEW stk, NEW stands2, NEW stk2, NEW m \in Nat,
         \A k \in 1 .. m : /\ stands2[k] = stands[k] /\ SameRecord(stk2[k], stk[k])
                           /\ stk2[k].todo \in Seq(Body(p, stk[k].proc))
                           /\ FrameOk(p, ok, stands, stk, k) /\ (k > 1 => DestOk(r, p, stands, stk, k))
  PROVE  \A k \in 1 .. m :
           /\ stk2[k].proc = stk[k].proc /\ stk2[k].home = stk[k].home
           /\ SeenAt(p, stands2, stk2, k) = SeenAt(p, stands, stk, k)
           /\ FrameOk(p, ok, stands2, stk2, k) /\ (k > 1 => DestOk(r, p, stands2, stk2, k))
<1>1. ASSUME NEW k \in 1 .. m
      PROVE  /\ stk2[k].proc = stk[k].proc /\ stk2[k].home = stk[k].home /\ stk2[k].dest = stk[k].dest
             /\ stk2[k].hit = stk[k].hit /\ SameRecord(stk2[k], stk2[k])
  BY SameFields
<1>2. \A k \in 1 .. m : stk[k].home \in 1 .. m
  BY DEF FrameOk
<1>3. \A k \in 1 .. m : SeenAt(p, stands2, stk2, k) = SeenAt(p, stands, stk, k)
  BY <1>1, <1>2 DEF SeenAt
<1>4. ASSUME NEW k \in 1 .. m PROVE FrameOk(p, ok, stands2, stk2, k)
  <2>1. stk[k].home \in 1 .. m
    BY <1>2
  <2>2. stk2[stk[k].home].proc = stk[stk[k].home].proc
    BY <1>1, <2>1
  <2>3. QED BY <1>1, <2>2 DEF FrameOk
<1>5. ASSUME NEW k \in 1 .. m, k > 1 PROVE DestOk(r, p, stands2, stk2, k)
  <2>1. k - 1 \in 1 .. m
    BY <1>5
  <2>2. /\ stk2[k - 1].proc = stk[k - 1].proc /\ SeenAt(p, stands2, stk2, k - 1) = SeenAt(p, stands, stk, k - 1)
    BY <1>1, <1>3, <2>1
  <2>3. DestOk(r, p, stands, stk, k)
    BY <1>5
  <2>4. QED BY <1>1, <2>2, <2>3 DEF DestOk
<1>6. QED BY <1>1, <1>3, <1>4, <1>5

LEMMA TodoSet ==
  ASSUME NEW f, SameRecord(f, f), NEW todo
  PROVE  SameRecord([f EXCEPT !.todo = todo], f) /\ [f EXCEPT !.todo = todo].todo = todo
BY DEF SameRecord

LEMMA LeftIs ==
  ASSUME NEW ok, NEW stands, RunsOk(role, procs, ok, stands, stack, stores), NEW todo \in Seq(Body(procs, Top.proc))
  PROVE  LET stk == Left(todo) IN
         /\ IsSeq(stk) /\ Len(stk) = Len(stack)
         /\ \A k \in 1 .. Len(stack) : /\ SameRecord(stk[k], stack[k])
                                       /\ stk[k].todo \in Seq(Body(procs, stack[k].proc))
<1> DEFINE K == Len(stack)
           f == [stack[K] EXCEPT !.todo = todo]
           stk == Left(todo)
<1>1. K \in 1 .. Len(stack) /\ IsSeq(stack)
  BY DEF RunsOk, IsSeq
<1>2. stk = [stack EXCEPT ![K] = f]
  BY DEF Left
<1>3. /\ IsSeq(stk) /\ Len(stk) = Len(stack) /\ stk[K] = f
      /\ \A i \in 1 .. Len(stack) : i # K => stk[i] = stack[i]
  <2> HIDE DEF stk, f
  <2>1. QED BY <1>1, <1>2, Replaced
<1>4. \A k \in 1 .. Len(stack) : /\ SameRecord(stack[k], stack[k])
                                 /\ stack[k].todo \in Seq(Body(procs, stack[k].proc))
  BY DEF RunsOk, FrameOk
<1>5. SameRecord(f, stack[K]) /\ f.todo = todo
  BY <1>1, <1>4, TodoSet
<1>6. todo \in Seq(Body(procs, stack[K].proc))
  BY DEF Top
<1> HIDE DEF f, stk
<1>7. QED BY <1>3, <1>4, <1>5, <1>6 DEF stk

(* A step to another statement of the same activation.                         *)
LEMMA Stay ==
  ASSUME NEW ok, NEW stands, RunsOk(role, procs, ok, stands, stack, stores), NEW todo \in Seq(Body(procs, Top.proc)),
         NEW sto, IsSeq(sto), Len(sto) = Len(stack),
         \A j \in 1 .. Len(stack) : StoreOk(role, procs, stack[j].proc, stands[j], sto[j])
  PROVE  RunsOk(role, procs, ok, stands, Left(todo), sto)
<1> DEFINE stk == Left(todo)
<1>1. /\ IsSeq(stk) /\ Len(stk) = Len(stack)
      /\ \A k \in 1 .. Len(stack) : /\ SameRecord(stk[k], stack[k])
                                    /\ stk[k].todo \in Seq(Body(procs, stack[k].proc))
  BY LeftIs
<1>2. /\ Len(stack) \in Nat /\ 1 \in 1 .. Len(stack)
      /\ \A k \in 1 .. Len(stack) : /\ FrameOk(procs, ok, stands, stack, k)
                                    /\ (k > 1 => DestOk(role, procs, stands, stack, k))
  BY DEF RunsOk, IsSeq
<1> HIDE DEF stk
<1>3. \A k \in 1 .. Len(stack) :
        /\ stk[k].proc = stack[k].proc /\ FrameOk(procs, ok, stands, stk, k)
        /\ (k > 1 => DestOk(role, procs, stands, stk, k))
  <2>1. \A k \in 1 .. Len(stack) :
          /\ stands[k] = stands[k] /\ SameRecord(stk[k], stack[k])
          /\ stk[k].todo \in Seq(Body(procs, stack[k].proc))
          /\ FrameOk(procs, ok, stands, stack, k) /\ (k > 1 => DestOk(role, procs, stands, stack, k))
    BY <1>1, <1>2
  <2> DEFINE K == Len(stack)
  <2>2. K \in Nat
    BY <1>2
  <2> HIDE DEF K
  <2>3. \A k \in 1 .. K :
          /\ stk[k].proc = stack[k].proc /\ stk[k].home = stack[k].home
          /\ SeenAt(procs, stands, stk, k) = SeenAt(procs, stands, stack, k)
          /\ FrameOk(procs, ok, stands, stk, k) /\ (k > 1 => DestOk(role, procs, stands, stk, k))
    BY <2>1, <2>2, Agree DEF K
  <2>4. QED BY <2>3 DEF K
<1>4. QED BY <1>1, <1>2, <1>3 DEF RunsOk, stk

(* The statement the top activation is at.                                     *)
LEMMA NowAllowed ==
  ASSUME IsProgram(procs), NEW ok, Sound(ok), NEW stands, RunsOk(role, procs, ok, stands, stack, stores),
         NEW kinds, At(kinds)
  PROVE  LET view == SeenAt(procs, stands, stack, Len(stack)) IN
         /\ Top.proc \in DOMAIN procs /\ IsStmt(procs, Top.proc, Now) /\ Now.op \in kinds
         /\ Tail(Top.todo) \in Seq(Body(procs, Top.proc))
         /\ Now.op \in Reading => MayReadAll(role, Alias(Now.value, view))
         /\ Now.op \in Targeting => Written(Alias(Now.target, view))
         /\ Now.op = "call" =>
              /\ Alias(Now.value, view) \in Paths
              /\ Permitted(ok, procs, Now.callee, Alias(Now.value, view))
              /\ procs[Now.callee].dir = "out" => Written(Alias(Now.value, view))
         /\ Now.op = "apply" /\ Now.callee # NoAction => Permitted(ok, procs, Now.callee, None)
<1> DEFINE K == Len(stack)
           n == Top.proc
           m == stack[Top.home].proc
           A == stands[K]
           B == stands[Top.home]
<1>1. K \in 1 .. Len(stack) /\ FrameOk(procs, ok, stands, stack, K) /\ K \in Nat
  BY DEF RunsOk, IsSeq
<1>2. /\ n \in DOMAIN procs /\ Top.todo \in Seq(Body(procs, n)) /\ Top.home \in 1 .. K
      /\ m = procs[n].of /\ (procs[n].kind = "block" => Top.home = K) /\ Permitted(ok, procs, n, A)
  BY <1>1 DEF FrameOk, Top
<1>3. Top.home \in 1 .. Len(stack) /\ FrameOk(procs, ok, stands, stack, Top.home)
  BY <1>1, <1>2 DEF RunsOk
<1>4. Permitted(ok, procs, m, B) /\ A \in Paths /\ B \in Paths
  BY <1>1, <1>3 DEF FrameOk, RunsOk
<1>5. Top.todo # <<>> /\ Now = Head(Top.todo) /\ Now.op \in kinds
  BY DEF At, Now
<1>6. Now \in Body(procs, n) /\ Tail(Top.todo) \in Seq(Body(procs, n))
  BY <1>2, <1>5, HeadTailProperties
<1>8. PICK i \in DOMAIN procs[n].body : Now = procs[n].body[i]
  BY <1>6 DEF Body
<1>9. IsStmt(procs, n, Now)
  BY <1>2, <1>8, ProgramFacts
<1>10. SeenAt(procs, stands, stack, K) = SeenBy(procs, n, A, procs[n].of, B)
  BY <1>2 DEF SeenAt, Top
<1>11. Permitted(ok, procs, procs[n].of, B) /\ (procs[n].kind = "block" => A = B)
  BY <1>2, <1>4
<1> HIDE DEF n, A, B, K
<1>12. LET s == procs[n].body[i]
           view == SeenBy(procs, n, A, procs[n].of, B)
       IN /\ s.op \in Reading => MayReadAll(role, Alias(s.value, view))
          /\ s.op \in Targeting => Written(Alias(s.target, view))
          /\ s.op = "call" =>
               /\ Alias(s.value, view) \in Paths
               /\ Permitted(ok, procs, s.callee, Alias(s.value, view))
               /\ procs[s.callee].dir = "out" => Written(Alias(s.value, view))
          /\ s.op = "apply" /\ s.callee # NoAction => Permitted(ok, procs, s.callee, None)
  BY <1>2, <1>4, <1>11, StatementAllowed
<1>13. QED BY <1>2, <1>5, <1>6, <1>8, <1>9, <1>10, <1>12 DEF n, K

LEMMA StoreFits ==
  ASSUME IsProgram(procs), NEW c \in DOMAIN procs, NEW A,
         NEW initial \in ValuesOf(procs[c].vars[procs[c].param]), CellOk(role, initial, A)
  PROVE  StoreOk(role, procs, c, A, Store(c, initial))
<1> DEFINE store == Store(c, initial)
<1>1. DOMAIN store = DOMAIN procs[c].vars
  BY DEF Store
<1>2. ASSUME NEW v \in DOMAIN procs[c].vars
      PROVE  store[v] \in ValuesOf(procs[c].vars[v]) /\ CellOk(role, store[v], CellPath(procs, c, A, v))
  <2>1. CASE v = procs[c].param
    <3>1. store[v] = initial /\ CellPath(procs, c, A, v) = A
      BY <1>2, <2>1 DEF Store, CellPath
    <3>2. QED BY <2>1, <3>1
  <2>2. CASE v # procs[c].param
    <3>1. store[v] = Zero(procs[c].vars[v]) /\ CellPath(procs, c, A, v) = None
      BY <1>2, <2>2 DEF Store, CellPath
    <3>2. procs[c].vars[v] \in {"bit", "M"}
      BY ProgramFacts
    <3>3. QED BY <3>1, <3>2, FreshValues
  <2>3. QED BY <2>1, <2>2
<1> HIDE DEF store
<1>3. QED BY <1>1, <1>2 DEF StoreOk, store

LEMMA BodyIsSeq ==
  ASSUME NEW p, IsProgram(p), NEW n \in DOMAIN p
  PROVE  p[n].body \in Seq(Body(p, n))
BY DEF IsProgram, Body

(* A call, or the action of a table.                                           *)
LEMMA Push ==
  ASSUME IsProgram(procs), NEW ok, NEW stands, RunsOk(role, procs, ok, stands, stack, stores),
         NEW todo \in Seq(Body(procs, Top.proc)), NEW c \in DOMAIN procs, NEW home, NEW dest, NEW hit \in BOOLEAN,
         NEW A \in Paths, Permitted(ok, procs, c, A),
         NEW initial \in ValuesOf(procs[c].vars[procs[c].param]), CellOk(role, initial, A),
         procs[c].kind = "block" => home = Len(stack) + 1,
         procs[c].kind = "action" => home = Top.home /\ procs[c].of = procs[Top.proc].of,
         LET types == Types(procs, Top.proc)
             path == Alias(dest, SeenAt(procs, stands, stack, Len(stack)))
         IN \/ dest = None
            \/ hit /\ dest \in Typed(types, "bit") /\ CellOk(role, Bit(Elsewhere), path)
            \/ ~hit /\ dest \in Typed(types, procs[c].vars[procs[c].param]) /\ path = A
  PROVE  RunsOk(role, procs, ok, [stands EXCEPT ![Len(stack) + 1] = A],
                Append(Left(todo), Frame(c, home, dest, hit)), Append(stores, Store(c, initial)))
<1> DEFINE K == Len(stack)
           left == Left(todo)
           f == Frame(c, home, dest, hit)
           stk == Append(left, f)
           store == Store(c, initial)
           sto == Append(stores, store)
           more == [stands EXCEPT ![K + 1] = A]
<1>1. K \in Nat /\ K >= 1 /\ IsSeq(stores) /\ Len(stores) = K /\ stands \in [Nat -> Paths]
  BY DEF RunsOk, IsSeq
<1>2. /\ IsSeq(left) /\ Len(left) = K
      /\ \A k \in 1 .. K : SameRecord(left[k], stack[k]) /\ left[k].todo \in Seq(Body(procs, stack[k].proc))
  BY LeftIs
<1>3. /\ IsSeq(stk) /\ Len(stk) = K + 1 /\ stk[K + 1] = f /\ \A k \in 1 .. K : stk[k] = left[k]
  <2> HIDE DEF left, f, K
  <2>1. QED BY <1>1, <1>2, Appended
<1>4. /\ IsSeq(sto) /\ Len(sto) = K + 1 /\ sto[K + 1] = store /\ \A k \in 1 .. K : sto[k] = stores[k]
  <2> HIDE DEF store, K
  <2>1. QED BY <1>1, Appended
<1>5. more \in [Nat -> Paths] /\ more[K + 1] = A /\ \A k \in 1 .. K : more[k] = stands[k]
  BY <1>1
<1>6. f = [proc |-> c, todo |-> procs[c].body, home |-> home, dest |-> dest, hit |-> hit]
  BY DEF Frame
<1>7. /\ SameRecord(f, f) /\ f.proc = c /\ f.home = home /\ f.dest = dest /\ f.hit = hit /\ f.todo = procs[c].body
  BY <1>6 DEF SameRecord
<1>8. \A k \in 1 .. K :
        /\ more[k] = stands[k] /\ SameRecord(stk[k], stack[k])
        /\ stk[k].todo \in Seq(Body(procs, stack[k].proc))
        /\ FrameOk(procs, ok, stands, stack, k) /\ (k > 1 => DestOk(role, procs, stands, stack, k))
  BY <1>2, <1>3, <1>5 DEF RunsOk
<1> HIDE DEF K, left, f, stk, store, sto, more
<1>9. \A k \in 1 .. K :
        /\ stk[k].proc = stack[k].proc /\ stk[k].home = stack[k].home
        /\ SeenAt(procs, more, stk, k) = SeenAt(procs, stands, stack, k)
        /\ FrameOk(procs, ok, more, stk, k) /\ (k > 1 => DestOk(role, procs, more, stk, k))
  BY <1>1, <1>8, Agree
<1>10. K \in 1 .. K /\ K + 1 - 1 = K /\ Top = stack[K]
  BY <1>1 DEF Top, K
<1>11. FrameOk(procs, ok, more, stk, K + 1)
  <2>1. f.todo \in Seq(Body(procs, c))
    BY <1>7, BodyIsSeq
  <2>2. procs[c].kind \in {"block", "action"} /\ (procs[c].kind = "block" => procs[c].of = c)
    BY ProgramFacts
  <2>3. CASE procs[c].kind = "block"
    <3>1. home = K + 1 /\ home \in 1 .. K + 1 /\ stk[home].proc = c
      BY <1>1, <1>3, <1>7, <2>3 DEF K
    <3>2. QED BY <1>3, <1>5, <1>7, <2>1, <2>2, <2>3, <3>1 DEF FrameOk
  <2>4. CASE procs[c].kind = "action"
    <3>1. home = stack[K].home /\ procs[c].of = procs[stack[K].proc].of
      BY <1>10, <2>4
    <3>2. FrameOk(procs, ok, more, stk, K) /\ stk[K].home = home /\ stk[K].proc = stack[K].proc
      BY <1>9, <1>10, <3>1
    <3>3. home \in 1 .. K /\ stk[home].proc = procs[stack[K].proc].of
      BY <3>2 DEF FrameOk
    <3>4. home \in 1 .. K + 1 /\ stk[home].proc = procs[c].of
      BY <1>1, <3>1, <3>3
    <3>5. QED BY <1>3, <1>5, <1>7, <2>1, <2>4, <3>4 DEF FrameOk
  <2>5. QED BY <2>2, <2>3, <2>4
<1>12. DestOk(role, procs, more, stk, K + 1)
  <2>1. stk[K].proc = Top.proc /\ SeenAt(procs, more, stk, K) = SeenAt(procs, stands, stack, K)
    BY <1>9, <1>10
  <2>2. QED BY <1>3, <1>5, <1>7, <1>10, <2>1 DEF DestOk, K
<1>13. StoreOk(role, procs, c, A, store)
  BY StoreFits DEF store
<1>14. \A k \in 1 .. K : StoreOk(role, procs, stack[k].proc, stands[k], stores[k])
  BY DEF RunsOk, K
<1>15. ASSUME NEW k \in 1 .. K + 1
       PROVE  /\ FrameOk(procs, ok, more, stk, k) /\ (k > 1 => DestOk(role, procs, more, stk, k))
              /\ StoreOk(role, procs, stk[k].proc, more[k], sto[k])
  <2>1. CASE k = K + 1
    BY <1>3, <1>4, <1>5, <1>7, <1>11, <1>12, <1>13, <2>1
  <2>2. CASE k # K + 1
    <3>1. k \in 1 .. K
      BY <1>1, <2>2
    <3>2. QED BY <1>4, <1>5, <1>9, <1>14, <3>1
  <2>3. QED BY <2>1, <2>2
<1>16. stk[1].proc = "stage" /\ more[1] = <<>>
  <2>1. 1 \in 1 .. K
    BY <1>1
  <2>2. QED BY <1>5, <1>9, <2>1 DEF RunsOk
<1>17. RunsOk(role, procs, ok, more, stk, sto)
  BY <1>1, <1>3, <1>4, <1>5, <1>15, <1>16 DEF RunsOk
<1>18. QED BY <1>17 DEF more, stk, sto, K, left, f, store

(* The end of an activation, once its parameter or hit has been written back.  *)
LEMMA Pop ==
  ASSUME NEW ok, NEW stands, RunsOk(role, procs, ok, stands, stack, stores), Len(stack) > 1,
         NEW sto, IsSeq(sto), Len(sto) = Len(stack),
         \A j \in 1 .. Len(stack) : StoreOk(role, procs, stack[j].proc, stands[j], sto[j])
  PROVE  RunsOk(role, procs, ok, stands, SubSeq(stack, 1, Len(stack) - 1), SubSeq(sto, 1, Len(stack) - 1))
<1> DEFINE K == Len(stack) - 1
           stk == SubSeq(stack, 1, K)
           rest == SubSeq(sto, 1, K)
<1>1. K \in Nat /\ K >= 1 /\ IsSeq(stack) /\ Len(stack) = K + 1 /\ 1 \in 1 .. Len(stack) + 1 /\ K \in 0 .. Len(stack)
  BY DEF RunsOk, IsSeq
<1> HIDE DEF K
<1>2. IsSeq(stk) /\ Len(stk) = K /\ \A k \in 1 .. K : stk[k] = stack[k]
  <2>1. K - 1 + 1 = K /\ 1 - 1 = 0 /\ \A i \in 1 .. K : i + 1 - 1 = i
    BY <1>1
  <2>2. /\ IsSeq(stk) /\ Len(stk) = K - 1 + 1
        /\ \A k \in 1 .. K - 1 + 1 : stk[k] = stack[k + 1 - 1]
    BY <1>1, <2>1, Cut
  <2>3. QED BY <2>1, <2>2
<1>3. IsSeq(rest) /\ Len(rest) = K /\ \A k \in 1 .. K : rest[k] = sto[k]
  <2>1. K - 1 + 1 = K /\ 1 - 1 = 0 /\ \A i \in 1 .. K : i + 1 - 1 = i
    BY <1>1
  <2>2. /\ IsSeq(rest) /\ Len(rest) = K - 1 + 1
        /\ \A k \in 1 .. K - 1 + 1 : rest[k] = sto[k + 1 - 1]
    <3>1. 1 \in 1 .. Len(sto) + 1 /\ K \in 1 - 1 .. Len(sto)
      BY <1>1
    <3>2. QED BY <3>1, Cut
  <2>3. QED BY <2>1, <2>2
<1>4. \A k \in 1 .. K : k \in 1 .. Len(stack)
  BY <1>1
<1>5. \A k \in 1 .. K :
        /\ stands[k] = stands[k] /\ SameRecord(stk[k], stack[k])
        /\ stk[k].todo \in Seq(Body(procs, stack[k].proc))
        /\ FrameOk(procs, ok, stands, stack, k) /\ (k > 1 => DestOk(role, procs, stands, stack, k))
  BY <1>2, <1>4 DEF RunsOk, FrameOk
<1> HIDE DEF stk, rest
<1>6. \A k \in 1 .. K :
        /\ stk[k].proc = stack[k].proc /\ stk[k].home = stack[k].home
        /\ SeenAt(procs, stands, stk, k) = SeenAt(procs, stands, stack, k)
        /\ FrameOk(procs, ok, stands, stk, k) /\ (k > 1 => DestOk(role, procs, stands, stk, k))
  BY <1>1, <1>5, Agree
<1>7. 1 \in 1 .. K
  BY <1>1
<1>8. RunsOk(role, procs, ok, stands, stk, rest)
  BY <1>1, <1>2, <1>3, <1>4, <1>6, <1>7 DEF RunsOk
<1>9. QED BY <1>8 DEF stk, rest, K

LEMMA GivenFits ==
  ASSUME NEW val \in ValuesOf("bit"), CellOk(role, val, None)
  PROVE  val.bit \in Given(role)
<1>1. DOMAIN val = {"bit"} /\ val["bit"] \in Origins
  BY DEF ValuesOf
<1>2. \A f \in Protected : f \notin Readable(role) /\ val["bit"] = f => Holds(None, "bit", f)
  BY <1>1 DEF CellOk
<1>3. \A f \in Protected : ~Holds(None, "bit", f)
  BY PathsDiffer DEF Holds, Protected
<1>4. QED BY <1>1, <1>2, <1>3 DEF Given, Origins

LEMMA StillAccess ==
  ASSUME Access, role' = role, procs' = procs, given' \subseteq Given(role), NEW ok, NEW stands, Sound(ok),
         RunsOk(role, procs, ok, stands, stack', stores')
  PROVE  Access'
<1>1. Sound(ok)'
  BY SoundKept
<1>2. RunsOk(role', procs', ok, stands, stack', stores')
  OBVIOUS
<1>3. role' \in StageRoles /\ IsProgram(procs') /\ given' \subseteq Given(role')
  BY DEF Access
<1>4. QED BY <1>1, <1>2, <1>3 DEF Access

LEMMA TopIs ==
  ASSUME NEW ok, NEW stands, RunsOk(role, procs, ok, stands, stack, stores)
  PROVE  /\ Len(stack) \in 1 .. Len(stack) /\ Top = stack[Len(stack)] /\ Len(stack) \in Nat
         /\ IsSeq(stores) /\ Len(stores) = Len(stack)
         /\ \A j \in 1 .. Len(stack) : StoreOk(role, procs, stack[j].proc, stands[j], stores[j])
BY DEF RunsOk, IsSeq, Top

(* A value read by a statement that is checked to read it.                     *)
LEMMA ReadFreely ==
  ASSUME IsProgram(procs), NEW ok, NEW stands, RunsOk(role, procs, ok, stands, stack, stores),
         NEW t \in {"bit", "M"}, NEW q \in Values(Types(procs, Top.proc), t),
         MayReadAll(role, Alias(q, SeenAt(procs, stands, stack, Len(stack))))
  PROVE  Read(q) \in ValuesOf(t) /\ CellOk(role, Read(q), None)
BY ReadFits, Unread

LEMMA WriteFreely ==
  ASSUME IsProgram(procs), NEW ok, NEW stands, RunsOk(role, procs, ok, stands, stack, stores),
         NEW t \in {"bit", "M"}, NEW q \in Typed(Types(procs, Top.proc), t) \cup {None},
         NEW new \in ValuesOf(t), CellOk(role, new, None),
         Written(Alias(q, SeenAt(procs, stands, stack, Len(stack))))
  PROVE  LET sto == Write(Len(stack), q, new) IN
         /\ IsSeq(sto) /\ Len(sto) = Len(stack)
         /\ \A j \in 1 .. Len(stack) : StoreOk(role, procs, stack[j].proc, stands[j], sto[j])
<1>1. Len(stack) \in 1 .. Len(stack) /\ Top = stack[Len(stack)]
  BY TopIs
<1>2. CellOk(role, new, Alias(q, SeenAt(procs, stands, stack, Len(stack))))
  BY Fitting
<1>3. q # None => /\ q \in Typed(Types(procs, stack[Len(stack)].proc), t) /\ new \in ValuesOf(t)
                  /\ CellOk(role, new, Alias(q, SeenAt(procs, stands, stack, Len(stack))))
  BY <1>1, <1>2
<1>4. QED BY <1>1, <1>3, WriteFits

LEMMA AssignKeeps == ASSUME Access, Assign PROVE Access'
<1>1. PICK ok, stands : Sound(ok) /\ RunsOk(role, procs, ok, stands, stack, stores)
  BY DEF Access
<1> DEFINE view == SeenAt(procs, stands, stack, Len(stack))
<1>2. IsProgram(procs) /\ At({"assign"}) /\ role' = role /\ procs' = procs /\ given' = given
  BY DEF Access, Assign
<1>3. /\ Now.op = "assign" /\ IsStmt(procs, Top.proc, Now) /\ Tail(Top.todo) \in Seq(Body(procs, Top.proc))
      /\ (Now.op \in Reading => MayReadAll(role, Alias(Now.value, view)))
      /\ (Now.op \in Targeting => Written(Alias(Now.target, view)))
  BY <1>1, <1>2, NowAllowed
<1>4. MayReadAll(role, Alias(Now.value, view)) /\ Written(Alias(Now.target, view))
  BY <1>3 DEF Targeting, Reading
<1>5. PICK t \in {"bit", "M"} : /\ Now.target \in Typed(Types(procs, Top.proc), t)
                                /\ Now.value \in Values(Types(procs, Top.proc), t)
  BY <1>3 DEF IsStmt
<1>6. Read(Now.value) \in ValuesOf(t) /\ CellOk(role, Read(Now.value), None)
  BY <1>1, <1>2, <1>4, <1>5, ReadFreely
<1> DEFINE sto == Write(Len(stack), Now.target, Read(Now.value))
<1>7. /\ IsSeq(sto) /\ Len(sto) = Len(stack)
      /\ \A j \in 1 .. Len(stack) : StoreOk(role, procs, stack[j].proc, stands[j], sto[j])
  BY <1>1, <1>2, <1>4, <1>5, <1>6, WriteFreely
<1>8. stack' = Left(Tail(Top.todo)) /\ stores' = sto
  BY DEF Assign
<1> HIDE DEF sto
<1>9. RunsOk(role, procs, ok, stands, stack', stores')
  BY <1>1, <1>3, <1>7, <1>8, Stay
<1>10. given' \subseteq Given(role)
  BY <1>2 DEF Access
<1>11. QED BY <1>1, <1>2, <1>9, <1>10, StillAccess

LEMMA BranchKeeps == ASSUME Access, Branch PROVE Access'
<1>1. PICK ok, stands : Sound(ok) /\ RunsOk(role, procs, ok, stands, stack, stores)
  BY DEF Access
<1> DEFINE view == SeenAt(procs, stands, stack, Len(stack))
           body == procs[Top.proc].body
<1>2. IsProgram(procs) /\ At({"branch"}) /\ role' = role /\ procs' = procs /\ stores' = stores
  BY DEF Access, Branch
<1>3. /\ Now.op = "branch" /\ IsStmt(procs, Top.proc, Now) /\ Top.proc \in DOMAIN procs
      /\ MayReadAll(role, Alias(Now.value, view))
  <2>1. /\ Now.op \in {"branch"} /\ IsStmt(procs, Top.proc, Now) /\ Top.proc \in DOMAIN procs
        /\ (Now.op \in Reading => MayReadAll(role, Alias(Now.value, view)))
    BY <1>1, <1>2, NowAllowed
  <2>2. QED BY <2>1 DEF Reading
<1>4. Now.value \in Values(Types(procs, Top.proc), "bit") /\ Now.to \subseteq Nat \ {0}
  BY <1>3 DEF IsStmt
<1>5. Read(Now.value) \in ValuesOf("bit") /\ CellOk(role, Read(Now.value), None)
  BY <1>1, <1>2, <1>3, <1>4, ReadFreely
<1>6. given' \subseteq Given(role)
  <2>1. Read(Now.value).bit \in Given(role)
    BY <1>5, GivenFits
  <2>2. QED BY <2>1 DEF Branch, Access
<1>7. PICK i \in Now.to : stack' = Left(SubSeq(body, i, Len(body)))
  BY DEF Branch
<1>8. SubSeq(body, i, Len(body)) \in Seq(Body(procs, Top.proc))
  <2>1. body \in Seq(Body(procs, Top.proc))
    BY <1>2, <1>3, BodyIsSeq
  <2>2. i \in Nat \ {0}
    BY <1>4, <1>7
  <2> HIDE DEF body
  <2>3. \A j \in i .. Len(body) : body[j] \in Body(procs, Top.proc)
    BY <2>1, <2>2
  <2>4. i \in Int /\ Len(body) \in Int
    BY <2>1, <2>2
  <2>5. QED BY <2>3, <2>4, SubSeqProperties
<1>9. RunsOk(role, procs, ok, stands, stack', stores')
  BY <1>1, <1>2, <1>7, <1>8, Stay, TopIs
<1>10. QED BY <1>1, <1>2, <1>6, <1>9, StillAccess

LEMMA Raised ==
  ASSUME NEW ok, NEW stands, RunsOk(role, procs, ok, stands, stack, stores)
  PROVE  RunsOk(role, procs, ok, stands, [k \in DOMAIN stack |-> [stack[k] EXCEPT !.todo = <<>>]], stores)
<1> DEFINE K == Len(stack)
           stk == [k \in DOMAIN stack |-> [stack[k] EXCEPT !.todo = <<>>]]
<1>1. /\ K \in Nat /\ 1 \in 1 .. K /\ IsSeq(stack) /\ DOMAIN stack = 1 .. K
      /\ IsSeq(stores) /\ Len(stores) = K
      /\ \A k \in 1 .. K : /\ FrameOk(procs, ok, stands, stack, k)
                           /\ (k > 1 => DestOk(role, procs, stands, stack, k))
                           /\ StoreOk(role, procs, stack[k].proc, stands[k], stores[k])
  BY SeqOfEntries DEF RunsOk, IsSeq
<1>2. \A k \in 1 .. K : stk[k] = [stack[k] EXCEPT !.todo = <<>>]
  BY <1>1
<1>3. \A k \in 1 .. K : SameRecord(stk[k], stack[k]) /\ stk[k].todo = <<>>
  <2>1. SUFFICES ASSUME NEW k \in 1 .. K PROVE SameRecord(stk[k], stack[k]) /\ stk[k].todo = <<>>
    OBVIOUS
  <2>2. SameRecord(stack[k], stack[k])
    BY <1>1 DEF FrameOk
  <2>3. SameRecord([stack[k] EXCEPT !.todo = <<>>], stack[k]) /\ [stack[k] EXCEPT !.todo = <<>>].todo = <<>>
    BY <2>2, TodoSet
  <2>4. QED BY <1>2, <2>3
<1>4. \A S : <<>> \in Seq(S)
  OBVIOUS
<1>5. IsSeq(stk) /\ Len(stk) = K
  <2>1. DOMAIN stk = 1 .. K /\ stk \in [1 .. K -> {stk[k] : k \in 1 .. K}]
    BY <1>1
  <2> HIDE DEF stk
  <2>2. stk \in Seq({stk[k] : k \in 1 .. K}) /\ Len(stk) = K
    BY <1>1, <2>1, FunctionIsSeq
  <2>3. QED BY <2>2, EntriesOfSeq
<1> HIDE DEF K, stk
<1>6. \A k \in 1 .. K :
        /\ stands[k] = stands[k] /\ SameRecord(stk[k], stack[k])
        /\ stk[k].todo \in Seq(Body(procs, stack[k].proc))
        /\ FrameOk(procs, ok, stands, stack, k) /\ (k > 1 => DestOk(role, procs, stands, stack, k))
  BY <1>1, <1>3, <1>4
<1>7. \A k \in 1 .. K :
        /\ stk[k].proc = stack[k].proc /\ stk[k].home = stack[k].home
        /\ SeenAt(procs, stands, stk, k) = SeenAt(procs, stands, stack, k)
        /\ FrameOk(procs, ok, stands, stk, k) /\ (k > 1 => DestOk(role, procs, stands, stk, k))
  BY <1>1, <1>6, Agree
<1>8. stands \in [Nat -> Paths] /\ stack[1].proc = "stage" /\ stands[1] = <<>>
  BY DEF RunsOk
<1>9. RunsOk(role, procs, ok, stands, stk, stores)
  BY <1>1, <1>5, <1>7, <1>8 DEF RunsOk
<1>10. QED BY <1>9 DEF stk

LEMMA VerifyKeeps == ASSUME Access, Verify PROVE Access'
<1>1. PICK ok, stands : Sound(ok) /\ RunsOk(role, procs, ok, stands, stack, stores)
  BY DEF Access
<1> DEFINE view == SeenAt(procs, stands, stack, Len(stack))
<1>2. IsProgram(procs) /\ At({"verify"}) /\ role' = role /\ procs' = procs /\ stores' = stores
  BY DEF Access, Verify
<1>3. /\ Now.op = "verify" /\ IsStmt(procs, Top.proc, Now) /\ Tail(Top.todo) \in Seq(Body(procs, Top.proc))
      /\ MayReadAll(role, Alias(Now.value, view))
  <2>1. /\ Now.op \in {"verify"} /\ IsStmt(procs, Top.proc, Now) /\ Tail(Top.todo) \in Seq(Body(procs, Top.proc))
        /\ (Now.op \in Reading => MayReadAll(role, Alias(Now.value, view)))
    BY <1>1, <1>2, NowAllowed
  <2>2. QED BY <2>1 DEF Reading
<1>4. Now.value \in Values(Types(procs, Top.proc), "bit")
  BY <1>3 DEF IsStmt
<1>5. Read(Now.value) \in ValuesOf("bit") /\ CellOk(role, Read(Now.value), None)
  BY <1>1, <1>2, <1>3, <1>4, ReadFreely
<1>6. given' \subseteq Given(role)
  <2>1. Read(Now.value).bit \in Given(role)
    BY <1>5, GivenFits
  <2>2. QED BY <2>1 DEF Verify, Access
<1>7. RunsOk(role, procs, ok, stands, stack', stores')
  <2>1. CASE stack' = Left(Tail(Top.todo))
    BY <1>1, <1>2, <1>3, <2>1, Stay, TopIs
  <2>2. CASE stack' = [k \in DOMAIN stack |-> [stack[k] EXCEPT !.todo = <<>>]]
    BY <1>1, <1>2, <2>2, Raised
  <2>3. QED BY <2>1, <2>2 DEF Verify
<1>8. QED BY <1>1, <1>2, <1>6, <1>7, StillAccess

LEMMA PutKeeps == ASSUME Access, Put PROVE Access'
<1>1. PICK ok, stands : Sound(ok) /\ RunsOk(role, procs, ok, stands, stack, stores)
  BY DEF Access
<1> DEFINE view == SeenAt(procs, stands, stack, Len(stack))
<1>2. /\ IsProgram(procs) /\ At({"put"}) /\ role' = role /\ procs' = procs /\ stores' = stores
      /\ stack' = Left(Tail(Top.todo))
  BY DEF Access, Put
<1>3. /\ Now.op = "put" /\ IsStmt(procs, Top.proc, Now) /\ Tail(Top.todo) \in Seq(Body(procs, Top.proc))
      /\ (Now.op \in Reading => MayReadAll(role, Alias(Now.value, view)))
  BY <1>1, <1>2, NowAllowed
<1>4. Now.value \in Values(Types(procs, Top.proc), "bit")
  BY <1>3 DEF IsStmt
<1>5. Read(Now.value) \in ValuesOf("bit") /\ CellOk(role, Read(Now.value), None)
  BY <1>1, <1>2, <1>3, <1>4, ReadFreely DEF Reading
<1>6. given' \subseteq Given(role)
  <2>1. Read(Now.value).bit \in Given(role)
    BY <1>5, GivenFits
  <2>2. QED BY <2>1 DEF Put, Access
<1>7. RunsOk(role, procs, ok, stands, stack', stores')
  BY <1>1, <1>2, <1>3, Stay, TopIs
<1>8. QED BY <1>1, <1>2, <1>6, <1>7, StillAccess

LEMMA GetKeeps == ASSUME Access, Get PROVE Access'
<1>1. PICK ok, stands : Sound(ok) /\ RunsOk(role, procs, ok, stands, stack, stores)
  BY DEF Access
<1> DEFINE view == SeenAt(procs, stands, stack, Len(stack))
<1>2. /\ IsProgram(procs) /\ At({"get", "update", "result"}) /\ role' = role /\ procs' = procs
      /\ role \in StageRoles
  BY DEF Access, Get
<1>3. /\ Now.op \in {"get", "update", "result"} /\ IsStmt(procs, Top.proc, Now)
      /\ Tail(Top.todo) \in Seq(Body(procs, Top.proc))
      /\ (Now.op \in Targeting => Written(Alias(Now.target, view)))
  BY <1>1, <1>2, NowAllowed
<1>4. Written(Alias(Now.target, view)) /\ Now.target \in Typed(Types(procs, Top.proc), "bit")
  BY <1>3 DEF Targeting, Reading, IsStmt
<1>5. Read(Now.target) \in ValuesOf("bit") /\ CellOk(role, Read(Now.target), None)
  <2>1. MayReadAll(role, Alias(Now.target, view))
    BY <1>2, <1>4, WrittenIsReadable
  <2>2. Now.target \in Values(Types(procs, Top.proc), "bit")
    BY <1>4 DEF Values
  <2>3. QED BY <1>1, <1>2, <2>1, <2>2, ReadFreely
<1>6. given' \subseteq Given(role)
  <2>1. Read(Now.target).bit \in Given(role)
    BY <1>5, GivenFits
  <2>2. QED BY <2>1 DEF Get, Access
<1> DEFINE sto == Write(Len(stack), Now.target, Bit(Elsewhere))
<1>7. /\ IsSeq(sto) /\ Len(sto) = Len(stack)
      /\ \A j \in 1 .. Len(stack) : StoreOk(role, procs, stack[j].proc, stands[j], sto[j])
  <2>1. Bit(Elsewhere) \in ValuesOf("bit") /\ CellOk(role, Bit(Elsewhere), None)
    BY FreshValues
  <2>2. QED BY <1>1, <1>2, <1>4, <2>1, WriteFreely
<1>8. stack' = Left(Tail(Top.todo)) /\ stores' = sto
  BY DEF Get
<1> HIDE DEF sto
<1>9. RunsOk(role, procs, ok, stands, stack', stores')
  BY <1>1, <1>3, <1>7, <1>8, Stay
<1>10. QED BY <1>1, <1>2, <1>6, <1>9, StillAccess

LEMMA ApplyKeeps == ASSUME Access, ApplyTable PROVE Access'
<1>1. PICK ok, stands : Sound(ok) /\ RunsOk(role, procs, ok, stands, stack, stores)
  BY DEF Access
<1> DEFINE view == SeenAt(procs, stands, stack, Len(stack))
<1>2. IsProgram(procs) /\ At({"apply"}) /\ role' = role /\ procs' = procs
  BY DEF Access, ApplyTable
<1>3. /\ Now.op = "apply" /\ IsStmt(procs, Top.proc, Now) /\ Top.proc \in DOMAIN procs
      /\ Tail(Top.todo) \in Seq(Body(procs, Top.proc))
      /\ (Now.op \in Reading => MayReadAll(role, Alias(Now.value, view)))
      /\ (Now.op \in Targeting => Written(Alias(Now.target, view)))
      /\ (Now.op = "apply" /\ Now.callee # NoAction => Permitted(ok, procs, Now.callee, None))
  BY <1>1, <1>2, NowAllowed
<1>4. /\ Written(Alias(Now.target, view)) /\ MayReadAll(role, Alias(Now.value, view))
      /\ Now.target \in Typed(Types(procs, Top.proc), "bit") \cup {None}
      /\ Now.value \in Values(Types(procs, Top.proc), "bit") /\ procs[Top.proc].kind = "block"
  BY <1>3 DEF Targeting, Reading, IsStmt
<1>5. Read(Now.value) \in ValuesOf("bit") /\ CellOk(role, Read(Now.value), None)
  BY <1>1, <1>2, <1>4, ReadFreely
<1>6. given' \subseteq Given(role)
  <2>1. Read(Now.value).bit \in Given(role)
    BY <1>5, GivenFits
  <2>2. QED BY <2>1 DEF ApplyTable, Access
<1>7. Bit(Elsewhere) \in ValuesOf("bit") /\ CellOk(role, Bit(Elsewhere), None)
  BY FreshValues
<1>8. CASE Now.callee = NoAction
  <2> DEFINE sto == Write(Len(stack), Now.target, Bit(Elsewhere))
  <2>1. /\ IsSeq(sto) /\ Len(sto) = Len(stack)
        /\ \A j \in 1 .. Len(stack) : StoreOk(role, procs, stack[j].proc, stands[j], sto[j])
    BY <1>1, <1>2, <1>4, <1>7, WriteFreely
  <2>2. stack' = Left(Tail(Top.todo)) /\ stores' = sto
    BY <1>8 DEF ApplyTable
  <2> HIDE DEF sto
  <2>3. RunsOk(role, procs, ok, stands, stack', stores')
    BY <1>1, <1>3, <2>1, <2>2, Stay
  <2>4. QED BY <1>1, <1>2, <1>6, <2>3, StillAccess
<1>9. CASE Now.callee # NoAction
  <2> DEFINE c == Now.callee
  <2>1. /\ c \in DOMAIN procs /\ procs[c].kind = "action" /\ procs[c].of = Top.proc
        /\ procs[c].vars[procs[c].param] = "bit"
    BY <1>3, <1>9 DEF IsStmt
  <2>2. procs[Top.proc].of = Top.proc
    BY <1>2, <1>3, <1>4, ProgramFacts
  <2>3. CellOk(role, Bit(Elsewhere), Alias(Now.target, view))
    BY <1>4, <1>7, Fitting
  <2>4. /\ stack' = Append(Left(Tail(Top.todo)), Frame(c, Top.home, Now.target, TRUE))
        /\ stores' = Append(stores, Store(c, Bit(Elsewhere)))
    BY <1>9 DEF ApplyTable
  <2>5. None \in Paths /\ Permitted(ok, procs, c, None)
    BY <1>3, <1>9, NoScopeIsScope
  <2> HIDE DEF c
  <2>6. RunsOk(role, procs, ok, [stands EXCEPT ![Len(stack) + 1] = None], stack', stores')
    BY <1>1, <1>2, <1>3, <1>4, <1>7, <2>1, <2>2, <2>3, <2>4, <2>5, Push
  <2>7. QED BY <1>1, <1>2, <1>6, <2>6, StillAccess
<1>10. QED BY <1>8, <1>9

LEMMA CallKeeps == ASSUME Access, Call PROVE Access'
<1>1. PICK ok, stands : Sound(ok) /\ RunsOk(role, procs, ok, stands, stack, stores)
  BY DEF Access
<1> DEFINE view == SeenAt(procs, stands, stack, Len(stack))
           n == Now.callee
           c == procs[n]
           t == c.vars[c.param]
           A == Alias(Now.value, view)
           home == IF c.kind = "block" THEN Len(stack) + 1 ELSE Top.home
           dest == IF c.dir \in {"in", "data"} THEN None ELSE Now.value
           initial == IF c.dir = "out" THEN Zero(t) ELSE Read(Now.value)
<1>2. IsProgram(procs) /\ At({"call"}) /\ role' = role /\ procs' = procs /\ given' = given
  BY DEF Access, Call
<1>3. /\ Now.op = "call" /\ IsStmt(procs, Top.proc, Now) /\ Top.proc \in DOMAIN procs
      /\ Tail(Top.todo) \in Seq(Body(procs, Top.proc))
      /\ A \in Paths /\ Permitted(ok, procs, n, A) /\ (c.dir = "out" => Written(A))
  BY <1>1, <1>2, NowAllowed
<1>4. /\ n \in DOMAIN procs /\ Now.value \in Values(Types(procs, Top.proc), t)
      /\ (c.kind = "action" => c.of = procs[Top.proc].of)
      /\ (c.dir \notin {"in", "data"} => Now.value \in Typed(Types(procs, Top.proc), t))
  <2>1. n \in DOMAIN procs /\ Now.value \in Values(Types(procs, Top.proc), t)
    BY <1>2, <1>3, StatementPaths
  <2>2. (c.kind = "action" => c.of = procs[Top.proc].of)
      /\ (c.dir \notin {"in", "data"} => Now.value \in Typed(Types(procs, Top.proc), t))
    BY <1>3 DEF IsStmt
  <2>3. QED BY <2>1, <2>2
<1>5. t \in {"bit", "M"} /\ c.kind \in {"block", "action"}
  BY <1>2, <1>4, ProgramFacts
<1>6. initial \in ValuesOf(t) /\ CellOk(role, initial, A)
  <2>1. CASE c.dir = "out"
    <3>1. Zero(t) \in ValuesOf(t) /\ CellOk(role, Zero(t), None)
      BY <1>5, FreshValues
    <3>2. CellOk(role, Zero(t), A)
      BY <1>3, <2>1, <3>1, Fitting
    <3>3. QED BY <2>1, <3>1, <3>2
  <2>2. CASE c.dir # "out"
    <3>1. Read(Now.value) \in ValuesOf(t) /\ CellOk(role, Read(Now.value), A)
      BY <1>1, <1>2, <1>4, <1>5, ReadFits
    <3>2. QED BY <2>2, <3>1
  <2>3. QED BY <2>1, <2>2
<1>7. /\ stack' = Append(Left(Tail(Top.todo)), Frame(n, home, dest, FALSE))
      /\ stores' = Append(stores, Store(n, initial))
  BY DEF Call
<1>8. dest = None \/ (dest \in Typed(Types(procs, Top.proc), t) /\ Alias(dest, view) = A)
  BY <1>4
<1>9. (c.kind = "block" => home = Len(stack) + 1) /\ (c.kind = "action" => home = Top.home)
  OBVIOUS
<1> HIDE DEF home, dest, initial, A, n
<1>10. RunsOk(role, procs, ok, [stands EXCEPT ![Len(stack) + 1] = A], stack', stores')
  BY <1>1, <1>2, <1>3, <1>4, <1>6, <1>7, <1>8, <1>9, Push
<1>11. given' \subseteq Given(role)
  BY <1>2 DEF Access
<1>12. QED BY <1>1, <1>2, <1>10, <1>11, StillAccess

LEMMA ReturnKeeps == ASSUME Access, Return PROVE Access'
<1>1. PICK ok, stands : Sound(ok) /\ RunsOk(role, procs, ok, stands, stack, stores)
  BY DEF Access
<1> DEFINE K == Len(stack)
           c == procs[Top.proc]
           t == IF Top.hit THEN "bit" ELSE c.vars[c.param]
           val == IF Top.hit THEN Bit(Elsewhere) ELSE stores[K][c.param]
           view == SeenAt(procs, stands, stack, K - 1)
           sto == Write(K - 1, Top.dest, val)
<1>2. IsProgram(procs) /\ K > 1 /\ role' = role /\ procs' = procs /\ given' = given
  BY DEF Access, Return
<1>3. K \in 1 .. K /\ Top = stack[K] /\ K \in Nat /\ K - 1 \in 1 .. K
  BY <1>1, <1>2, TopIs
<1>4. /\ FrameOk(procs, ok, stands, stack, K) /\ DestOk(role, procs, stands, stack, K)
      /\ StoreOk(role, procs, Top.proc, stands[K], stores[K])
  BY <1>1, <1>2, <1>3 DEF RunsOk
<1>5. /\ Top.proc \in DOMAIN procs /\ c.param \in DOMAIN c.vars /\ c.vars[c.param] \in {"bit", "M"}
  BY <1>2, <1>3, <1>4, ProgramFacts DEF FrameOk
<1>6. t \in {"bit", "M"}
  BY <1>5
<1>7. stores[K][c.param] \in ValuesOf(c.vars[c.param]) /\ CellOk(role, stores[K][c.param], stands[K])
  BY <1>4, <1>5 DEF StoreOk, CellPath
<1>8. Top.dest # None => /\ Top.dest \in Typed(Types(procs, stack[K - 1].proc), t) /\ val \in ValuesOf(t)
                         /\ CellOk(role, val, Alias(Top.dest, view))
  BY <1>3, <1>4, <1>7, FreshValues DEF DestOk
<1> HIDE DEF t, val
<1>9. /\ IsSeq(sto) /\ Len(sto) = Len(stack)
      /\ \A j \in 1 .. Len(stack) : StoreOk(role, procs, stack[j].proc, stands[j], sto[j])
  BY <1>1, <1>2, <1>3, <1>6, <1>8, WriteFits
<1>10. stack' = SubSeq(stack, 1, K - 1) /\ stores' = SubSeq(sto, 1, K - 1)
  BY DEF Return, val
<1> HIDE DEF sto
<1>11. RunsOk(role, procs, ok, stands, stack', stores')
  BY <1>1, <1>2, <1>9, <1>10, Pop
<1>12. given' \subseteq Given(role)
  BY <1>2 DEF Access
<1>13. QED BY <1>1, <1>2, <1>11, <1>12, StillAccess

LEMMA AccessInit == ProfileInit => Access
<1>1. SUFFICES ASSUME ProfileInit PROVE Access
  OBVIOUS
<1> DEFINE m == procs["stage"]
           scope == With(NoScope, m, <<>>)
           stands == [k \in Nat |-> <<>>]
           f == Frame("stage", 1, None, FALSE)
<1>2. role \in StageRoles /\ IsProgram(procs) /\ given \subseteq Given(role)
  BY <1>1, ProfileAssumption DEF ProfileInit
<1>3. Sound(Checked)
  BY <1>2, CheckedIs
<1>4. stack = <<f>> /\ stores = <<Store("stage", Metadata)>>
  BY <1>1 DEF ProfileInit
<1>5. "stage" \in DOMAIN procs /\ m.kind = "block" /\ m.of = "stage" /\ m.vars[m.param] = "M"
  BY <1>2 DEF IsProgram
<1>6. Permitted(Checked, procs, "stage", <<>>)
  BY <1>1, <1>5 DEF Permitted, BlockScope, ProfileInit, Accepted
<1>7. StoreOk(role, procs, "stage", <<>>, Store("stage", Metadata))
  <2>1. Metadata \in ValuesOf(m.vars[m.param]) /\ CellOk(role, Metadata, <<>>)
    BY <1>5, FreshValues
  <2>2. QED BY <1>2, <1>5, <2>1, StoreFits
<1>8. f = [proc |-> "stage", todo |-> m.body, home |-> 1, dest |-> None, hit |-> FALSE]
  BY DEF Frame
<1>9. SameRecord(f, f) /\ f.proc = "stage" /\ f.home = 1 /\ f.todo = m.body
  <2> HIDE DEF f
  <2>1. QED BY <1>8 DEF SameRecord
<1>10. stands \in [Nat -> Paths] /\ stands[1] = <<>>
  BY NoScopeIsScope
<1>11. m.body \in Seq(Body(procs, "stage"))
  BY <1>2, <1>5, BodyIsSeq
<1> HIDE DEF f, stands
<1>12. IsSeq(stack) /\ Len(stack) = 1 /\ stack[1] = f
  BY <1>4 DEF IsSeq
<1>13. IsSeq(stores) /\ Len(stores) = 1 /\ stores[1] = Store("stage", Metadata)
  BY <1>4 DEF IsSeq
<1>14. FrameOk(procs, Checked, stands, stack, 1)
  BY <1>5, <1>6, <1>9, <1>10, <1>11, <1>12 DEF FrameOk
<1>15. RunsOk(role, procs, Checked, stands, stack, stores)
  BY <1>7, <1>9, <1>10, <1>12, <1>13, <1>14 DEF RunsOk
<1>16. QED BY <1>2, <1>3, <1>15 DEF Access

LEMMA AccessStep == Access /\ [ProfileNext]_profileVars => Access'
<1>1. SUFFICES ASSUME Access, [ProfileNext]_profileVars PROVE Access'
  OBVIOUS
<1>2. CASE UNCHANGED profileVars
  <2>1. PICK ok, stands : Sound(ok) /\ RunsOk(role, procs, ok, stands, stack, stores)
    BY <1>1 DEF Access
  <2>2. /\ role' = role /\ procs' = procs /\ stack' = stack /\ stores' = stores /\ given' = given
    BY <1>2 DEF profileVars
  <2>3. RunsOk(role, procs, ok, stands, stack', stores') /\ given' \subseteq Given(role)
    BY <1>1, <2>1, <2>2 DEF Access
  <2>4. QED BY <1>1, <2>1, <2>2, <2>3, StillAccess
<1>3. CASE ProfileNext
  BY <1>1, <1>3, AssignKeeps, BranchKeeps, VerifyKeeps, PutKeeps, GetKeeps, ApplyKeeps, CallKeeps, ReturnKeeps DEF ProfileNext
<1>4. QED BY <1>1, <1>2, <1>3

LEMMA AccessMeans == Access => ProfileTypeOK /\ AccessHolds
<1>1. SUFFICES ASSUME Access PROVE ProfileTypeOK /\ AccessHolds
  OBVIOUS
<1>2. PICK ok, stands : Sound(ok) /\ RunsOk(role, procs, ok, stands, stack, stores)
  BY <1>1 DEF Access
<1>3. /\ IsProgram(procs) /\ role \in StageRoles
      /\ IsSeq(stores) /\ Len(stores) = Len(stack) /\ Len(stack) \in Nat /\ 1 \in 1 .. Len(stack)
      /\ stack[1].proc = "stage" /\ stands[1] = <<>>
  BY <1>1, <1>2 DEF Access, RunsOk, IsSeq
<1>4. DOMAIN stores = 1 .. Len(stack)
  BY <1>3, SeqOfEntries
<1>5. ASSUME NEW k \in DOMAIN stores, NEW v \in DOMAIN stores[k]
      PROVE  /\ stores[k][v] \in ValuesOf(procs[stack[k].proc].vars[v])
             /\ CellOk(role, stores[k][v], CellPath(procs, stack[k].proc, stands[k], v))
  BY <1>2, <1>4 DEF RunsOk, StoreOk
<1>6. given \subseteq Origins
  BY <1>1 DEF Access, Given, Origins
<1>7. MetadataKept
  <2> DEFINE w == procs["stage"].param
             m == stores[1][w]
  <2>1. "stage" \in DOMAIN procs /\ procs["stage"].vars[w] = "M" /\ w \in DOMAIN procs["stage"].vars
    BY <1>3 DEF IsProgram
  <2>2. w \in DOMAIN stores[1]
    BY <1>2, <1>3, <2>1 DEF RunsOk, StoreOk
  <2>3. m \in ValuesOf("M") /\ CellOk(role, m, <<>>)
    BY <1>3, <1>4, <1>5, <2>1, <2>2 DEF CellPath
  <2>4. DOMAIN m = MetaFields
    BY <2>3 DEF ValuesOf
  <2>5. ASSUME NEW f \in Protected, m[f] # f PROVE f = "egress_spec" /\ role \in {"ingress", "egress"}
    <3>1. f \in DOMAIN m /\ Holds(<<>>, f, f)
      BY <2>4 DEF Protected, Holds
    <3>2. MayWrite(role, <<f>>)
      BY <2>3, <2>5, <3>1 DEF CellOk
    <3>3. QED BY <3>2 DEF MayWrite
  <2>6. QED BY <2>5 DEF MetadataKept
<1>8. UnavailableUnread
  <2>1. SUFFICES ASSUME NEW f \in Protected \ Readable(role)
        PROVE  /\ f \notin given
               /\ \A k \in DOMAIN stores : \A v \in DOMAIN stores[k] :
                    \A g \in DOMAIN stores[k][v] :
                      stores[k][v][g] = f => v = procs[stack[k].proc].param /\ g \in {f, "bit"}
    BY DEF UnavailableUnread
  <2>2. f \notin given
    BY <1>1 DEF Access, Given, Elsewhere, Protected
  <2>3. ASSUME NEW k \in DOMAIN stores, NEW v \in DOMAIN stores[k], NEW g \in DOMAIN stores[k][v],
               stores[k][v][g] = f
        PROVE  v = procs[stack[k].proc].param /\ g \in {f, "bit"}
    <3>1. CellOk(role, stores[k][v], CellPath(procs, stack[k].proc, stands[k], v))
      BY <1>5
    <3>2. Holds(CellPath(procs, stack[k].proc, stands[k], v), g, f)
      BY <2>3, <3>1 DEF CellOk
    <3>3. ~Holds(None, g, f)
      BY PathsDiffer DEF Holds, Protected
    <3>4. v = procs[stack[k].proc].param
      BY <3>2, <3>3 DEF CellPath
    <3>5. QED BY <3>2, <3>4 DEF Holds
  <2>4. QED BY <2>2, <2>3
<1>9. QED BY <1>4, <1>5, <1>6, <1>7, <1>8 DEF ProfileTypeOK, AccessHolds

(* Every variable of an accepted stage holds a value of its type, whatever the *)
(* stage calls (check_profile, execute_block).                                 *)
THEOREM ProfileTypeCorrect == ProfileSpec => []ProfileTypeOK
<1>1. QED BY AccessInit, AccessStep, AccessMeans, PTL DEF ProfileSpec

(* An accepted stage changes no metadata that its role may not write, and what *)
(* it may not read reaches no extern, key, condition, local or other field,    *)
(* however the metadata is passed on (_check_block).                           *)
THEOREM AccessAlwaysHolds == ProfileSpec => []AccessHolds
<1>1. QED BY AccessInit, AccessStep, AccessMeans, PTL DEF ProfileSpec
=============================================================================
