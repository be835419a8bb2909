------------------------------- MODULE Campaign -------------------------------
(* A guided differential campaign (drt/guided.py, drt/run.py): a budget of     *)
(* samples, each a program and a list of cases run in lockstep on the Python   *)
(* reference and on a Lean peer; both keep extern state from case to case.     *)
(* The peer's pipe is module LeanRunner: here it answers or breaks.            *)
EXTENDS Integers, Sequences, FiniteSets

CONSTANTS
  States,    \* logical extern states, as snapshot and decode give them
  Outputs,   \* lists of output packets
  Nothing,   \* the empty one: only a dropped packet has a diagnostic
  Messages,  \* error sentences
  Tags,      \* the inventory of rule tags
  Targets,   \* Targets[feature]: the tags the option aims at
  Budget, MaxCases   \* bounds: samples, cases of a sample

ASSUME CampaignAssumption == Budget \in Nat \ {0} /\ MaxCases \in Nat \ {0}

Features == DOMAIN Targets
NoOutputs == "none"
NoError == <<>>
Python(m) == <<"class", m>>     \* f"{type(e).__name__}: {e}"
Sentences == {NoError} \cup {Python(m) : m \in Messages} \cup {<<m>> : m \in Messages}

(* Outcome: outputs or an error, a diagnostic or none, and the state after.    *)
Outcome == [outputs : Outputs \cup {NoOutputs}, error : Sentences, diagnostic : BOOLEAN, state : States]
Answer(side) ==
  ({[outputs |-> o, error |-> NoError, diagnostic |-> d, state |-> s] :
     o \in Outputs, d \in BOOLEAN, s \in States}
   \ {[outputs |-> o, error |-> NoError, diagnostic |-> TRUE, state |-> s] :
        o \in Outputs \ {Nothing}, s \in States})
  \cup {[outputs |-> NoOutputs, error |-> IF side = "python" THEN Python(m) ELSE <<m>>,
         diagnostic |-> FALSE, state |-> s] : m \in Messages, s \in States}

VARIABLES
  phase,     \* "sample", "start", "cases", "finish", "observe", "done"
  sample,    \* the sample drawn: its features and number of cases
  history,   \* ghost: per case of the sample, both outcomes
  report,    \* Report of the sample
  guide,     \* tags and pairs seen by the campaign
  result     \* samples, requests, first_hits, failures

campaignVars == <<phase, sample, history, report, guide, result>>

-----------------------------------------------------------------------------
(* normalize_error drops one class prefix.                                     *)
NormalizeError(e) == IF Len(e) > 1 THEN Tail(e) ELSE e

(* Fault: two errors that read alike agree, whatever state they left.          *)
AgreesWithByReason(p, l) ==
  IF p.error # NoError \/ l.error # NoError
  THEN p.error # NoError /\ l.error # NoError /\ NormalizeError(p.error) = NormalizeError(l.error)
  ELSE p.state = l.state /\ p.outputs = l.outputs /\ p.diagnostic = l.diagnostic

(* Outcome.agrees_with                                                         *)
AgreesWith(p, l) ==
  /\ p.state = l.state
  /\ IF p.error # NoError \/ l.error # NoError
     THEN p.error # NoError /\ l.error # NoError /\ NormalizeError(p.error) = NormalizeError(l.error)
     ELSE p.outputs = l.outputs /\ p.diagnostic = l.diagnostic

NewReport == [cases |-> 0, both_errored |-> 0, divergences |-> {}, hits |-> {}, protocol_error |-> FALSE]

(* Fault: a report with errors alike on both sides passes.                     *)
PassedAlike(r) == r.divergences = {} /\ ~r.protocol_error
Passed(r) == r.divergences = {} /\ r.both_errored = 0 /\ ~r.protocol_error

CampaignInit ==
  /\ phase = "sample" /\ history = <<>> /\ report = NewReport
  /\ sample = [features |-> {}, cases |-> 0]
  /\ guide = [tags |-> {}, pairs |-> {}]
  /\ result = [samples |-> 0, requests |-> 0, first_hits |-> <<>>, failures |-> {}]

(* GuidedChooser.pick weighs options, it never rules one out.                  *)
Weight(f) == IF Targets[f] \cap (Tags \ guide.tags) # {} THEN 5 ELSE 1

MakeSample(features, n) ==
  /\ phase = "sample" /\ result.samples < Budget
  /\ \A f \in features : Weight(f) > 0
  /\ sample' = [features |-> features, cases |-> n]
  /\ phase' = "start" /\ history' = <<>> /\ report' = NewReport
  /\ UNCHANGED <<guide, result>>

(* LeanRunner.__enter__, compare_cases, LeanRunner.finish: each may raise a    *)
(* ProtocolError, which compare_program stores with what was compared so far.  *)
PeerBreaks ==
  /\ phase \in {"start", "cases", "finish"}
  /\ phase = "cases" => Len(history) < sample.cases
  /\ report' = [report EXCEPT !.protocol_error = TRUE]
  /\ phase' = "observe"
  /\ UNCHANGED <<sample, history, guide, result>>

StartPeer ==
  /\ phase = "start" /\ phase' = "cases"
  /\ UNCHANGED <<sample, history, report, guide, result>>

RunCase(p, l, tags) ==
  /\ phase = "cases" /\ Len(history) < sample.cases
  /\ history' = Append(history, [python |-> p, lean |-> l])
  /\ report' = [report EXCEPT
       !.cases = @ + 1,
       !.hits = @ \cup tags,
       !.both_errored = IF p.error # NoError /\ l.error # NoError THEN @ + 1 ELSE @,
       !.divergences = IF AgreesWith(p, l) THEN @ ELSE @ \cup {report.cases}]
  /\ UNCHANGED <<phase, sample, guide, result>>

EndCases ==
  /\ phase = "cases" /\ Len(history) = sample.cases
  /\ phase' = "finish"
  /\ UNCHANGED <<sample, history, report, guide, result>>

FinishPeer ==
  /\ phase = "finish" /\ phase' = "observe"
  /\ UNCHANGED <<sample, history, report, guide, result>>

(* The tags new to the guide, in order.                                        *)
NewTags == CHOOSE s \in [1 .. Cardinality(report.hits \ guide.tags) -> report.hits \ guide.tags] :
             \A i, j \in DOMAIN s : i # j => s[i] # s[j]

(* Fault: a failed sample ends the campaign.                                   *)
ObserveStops ==
  /\ phase = "observe"
  /\ guide' = [tags |-> guide.tags \cup report.hits,
               pairs |-> guide.pairs \cup (report.hits \X sample.features)]
  /\ result' = [samples |-> result.samples + 1, requests |-> result.requests + report.cases,
                first_hits |-> result.first_hits \o [i \in DOMAIN NewTags |-> <<result.samples, NewTags[i]>>],
                failures |-> IF Passed(report) THEN result.failures ELSE result.failures \cup {result.samples}]
  /\ phase' = IF result'.samples = Budget \/ ~Passed(report) THEN "done" ELSE "sample"
  /\ UNCHANGED <<sample, history, report>>

Observe ==
  /\ phase = "observe"
  /\ guide' = [tags |-> guide.tags \cup report.hits,
               pairs |-> guide.pairs \cup (report.hits \X sample.features)]
  /\ result' = [samples |-> result.samples + 1, requests |-> result.requests + report.cases,
                first_hits |-> result.first_hits \o [i \in DOMAIN NewTags |-> <<result.samples, NewTags[i]>>],
                failures |-> IF Passed(report) THEN result.failures ELSE result.failures \cup {result.samples}]
  /\ phase' = IF result'.samples = Budget THEN "done" ELSE "sample"
  /\ UNCHANGED <<sample, history, report>>

CampaignNext ==
  \/ \E features \in SUBSET Features, n \in 1 .. MaxCases : MakeSample(features, n)
  \/ StartPeer \/ PeerBreaks \/ EndCases \/ FinishPeer \/ Observe
  \/ \E p \in Answer("python"), l \in Answer("lean"), tags \in SUBSET Tags : RunCase(p, l, tags)

(* A campaign is a loop that runs to its end: the timeouts of LeanRunner       *)
(* (module LeanRunner, RunReturns) end every wait for the peer.                *)
CampaignSpec == CampaignInit /\ [][CampaignNext]_campaignVars /\ WF_campaignVars(CampaignNext)

-----------------------------------------------------------------------------
CampaignTypeOK ==
  /\ phase \in {"sample", "start", "cases", "finish", "observe", "done"}
  /\ sample.features \subseteq Features /\ sample.cases \in 0 .. MaxCases
  /\ history \in Seq([python : Outcome, lean : Outcome])
  /\ report.cases = Len(history) /\ report.both_errored \in 0 .. MaxCases
  /\ report.divergences \subseteq 0 .. MaxCases - 1 /\ report.hits \subseteq Tags
  /\ guide.tags \subseteq Tags /\ guide.pairs \subseteq Tags \X Features
  /\ result.samples \in 0 .. Budget /\ result.requests \in Nat

(* The sides never part silently: while no divergence is reported, the state   *)
(* each carries into the next case is the same, also after a case that failed  *)
(* on both.                                                                    *)
DesyncIsNeverSilent ==
  \A n \in DOMAIN history :
    (\A k \in 1 .. n : k - 1 \notin report.divergences) =>
      history[n].python.state = history[n].lean.state

(* A sample that is not kept as a failure ran all its cases, raised no error   *)
(* on either side and emitted the same packets.                                *)
PassMeansAgreement ==
  [][Observe /\ result'.failures = result.failures =>
       /\ Len(history) = sample.cases
       /\ \A n \in DOMAIN history :
            /\ history[n].python.error = NoError /\ history[n].lean.error = NoError
            /\ history[n].python.outputs = history[n].lean.outputs]_campaignVars

(* A disagreement or a broken peer never ends the campaign early.              *)
BudgetIsSpent == <>(phase = "done" /\ result.samples = Budget)
=============================================================================
