# Formal models of p4blo

p4blo interprets P4 programs from a small IR. A Python package
(`src/impl/python/p4blo`) imports or builds a program, validates it, binds it
to an architecture and runs packets through it; a Lean semantics (`src/spec`)
mirrors the interpreter and is compared with it by differential testing. This
directory holds TLA+ models of that Python code, TLC configurations that check
them on small instances, and proofs checked by TLAPS.

    tlc -workers 2 -config MCValidator.cfg MCValidator   # a model-checking run
    tlapm Tables_proofs.tla                              # the proofs of a component

Paths below are relative to `src/impl/python/p4blo`.

## 1. The system

| Part | State it keeps | Operations | Interacts with |
|---|---|---|---|
| Interpreter (`interp/`) | stack of activations, mutable headers and stacks, packet cursor, last cursor of each state | run a parser, a control, a deparser; call blocks, actions, externs; apply tables | everything the validator accepts; `Loaded` |
| Tables (`interp/tables.py`, `validator/tables.py`) | entries in installation order, a default | build with const entries, install, set default, look up | host, validator, `apply` |
| Validator (`validator/`, `ir.py`) | the name index, diagnostics | one pass over the program | every model of the interpreter assumes what it accepts |
| v1model (`arch/v1model_profile.py`, `contract.py`) | standard metadata, diagnostics; extern state lives in `Loaded` | check the profile, run the stages of one packet | every entry point of the interpreter |
| Externs (`arch/externs/`) | register cells, counters | read, write, count, checksum, CRC | `call_extern`; state outlives a packet |
| Differential testing (`drt/`) | two queues, a worker thread, a process and its pipes; a guide of what was seen | make a program and a packet, run a case on both sides, compare, report | the Lean process |
| STF (`stf.py`) | script and expected packets | parse, resolve entries, replay, compare | v1model |
| eDSL (`edsl/`) | stacks of blocks and `with` levels under construction | declare, record statements, assemble classes | writes IR the validator then reads |
| Frontend (`frontend/`) | scopes, hoisted statements, fresh names, instances | translate P4-SpecTec IL to IR | the validator and the interpreter take the result |
| Loading, printer, generated code | none that outlives a call | look up, format | |

What is hard about it:

* **Control that no data structure bounds.** The state loop of a parser ends
  only because a state may not be entered again at the cursor of its last
  entry; blocks may call blocks as long as the call graph has no cycle.
* **Errors in the middle.** A `ParseError` passes through the copy-back of
  every active call; a packet that is dropped half way leaves register and
  counter state behind.
* **Two moments of evaluation.** An argument's index is evaluated at copy-in,
  the storage is written at copy-back, and the callee runs in between. The
  frontend hoists calls out of expressions whose other operands they change.
* **Sharing.** Headers and stacks are Python objects that statements mutate;
  the language has values.
* **Order.** Entries come from the program and the host in any order; members
  of a class are declared in the order Python runs them.
* **Two threads and a process.** Only the caller of the differential runner has
  timeouts; the worker blocks in reads and writes whose locks the caller must
  not take.
* **Two sets of rules for one language.** The eDSL refuses what it can, the
  validator reports what it finds, and the interpreter relies on it.
* **Predicting a run.** A packet generator walks a parser before there is a
  packet and writes bits so that the run it wants will happen.
* **Edges.** The end of the packet, of a stack, of a prefix, of a byte; widths.

`PROJECT.json` lists every hazard at its line with the properties that cover
it.

## 2. Modules and runs

A run checks a *suite*: an MC module whose variable `part` chooses one of
several specifications, each with initial states, actions and properties of its
own; the variables of the others stay at fixed values. Parts do not interact.
Where a part's specification states fairness, so does the suite.

| Run | Parts | Properties |
|---|---|---|
| `parser_loop` | `ParserLoop`, `Walk` | `TimeoutExactlyOnRepeat`, `Terminates`, `WalkIsFollowed` |
| `calls` | `Activations` (refines `ByReference`), `Storage` (refines `ValueStore`), `Extraction` | `CopyOrderIrrelevant`, `PassesByReference`, `ActsOnValues`, `PacketsKept`, `RaiseChangesNothing` |
| `validator` | `CallGraph`, `Expressions`, `Tables` | `SearchIsExact`, `WellTypedEvaluates`, `NoTypeIsReported`, `AdmissionIsExact`, `ConstEntriesInstall`, `LookupIsBest` |
| `v1model` | `V1Pipeline`, `Profile`, `Hashing` | `RequestsServed`, `EveryPacketAccounted`, `EveryPacketAnswered`, `AccessHolds`, `HashesAsWritten` |
| `frontend` | `Lowering`, `ActionRun`, `ParserLowering`, `Naming`, `Folding`, `TableEntries`, `Instances` | `LoweredAsWritten`, `RightBranch`, `ParserRunsAsWritten`, `NamesKept`, `FoldedMeans`, `ChoosesAsWritten`, `InstancesKept` |
| `authoring` | `Recording`, `Authoring`, `Declarations` | `RecordedAsWritten`, `BuiltIsWellTyped`, `ElaboratedMeans`, `BuiltIsDeclaredRight`, `RefusedForCause` |
| `lean_runner` | `LeanRunner` | `AnswersMatch`, `EveryLineAccounted`, `StreamsNotShared`, `NothingHangs` |
| `testing` | `StfReplay`, `Campaign` | `EntriesMeanWhatIsWritten`, `VerdictIsExact`, `DesyncIsNeverSilent`, `PassMeansAgreement`, `EveryBudgetIsSpent` |
| `extraction_lookahead` | `Extraction` | `ShortPacketConsumesNothing` is violated (section 5) |
| `frontend_compound` | `Lowering` | `CompoundIsBinary` is violated (section 5) |
| `frontend_frames` | `ParserLowering` | `StateFramesAreFresh` is violated (section 5) |
| `testing_no_packet` | `StfReplay` | `NoPacketMeansNone` is violated (section 5) |

A definition marked *Fault* in a comment is a plausible bug, kept beside the
definition it replaces: with it the named property fails. The specifications
do not use them. `CHECK_DEADLOCK FALSE` stands wherever a run of the code comes
to an end.

### The interpreter

**`ParserLoop`.** `frames` is the Python call stack: one record per
`run_states` call, with the block, the statements left in the current state and
the transition still to come. `visits` is `Env.visits`, `cursor` is
`Packet.cursor`; `phase` says whether control is about to enter a state, inside
one, unwinding an error or out. Every statement kind is an action, and `Raise`
is what their errors have in common. What a `select`, a conditional or a
`verify` reads from data is left open (`Paths`, `Targets`). The history
variable `entered` is the set of (state, cursor) pairs entered; no guard reads
it. `TimeoutExactlyOnRepeat`: the code stores only the *last* cursor of a state
and yet raises `ParserTimeout` exactly when the pair was entered before.
`Terminates` needs that rule at every depth. *Bounds*: a packet of three bits,
four states in three blocks, paths of up to three statements: a self-loop with
and without consumption, a sub-parser called twice from one state, calls two
deep, errors at each depth. *Fairness*: the interpreter is one call that runs to
its end, so its steps are weakly fair.

**`Tables`.** `Init` chooses a declaration with const entries that
`ValidConstEntries`, the validator's own check, accepts. `InstallConst` performs
`InstalledEntries.build`, `Install` and `SetDefault` come from the host in any
order and may be refused, and a lookup is `StartLookup`, one `ScanEntry` per
entry, `Answer`. Values and masks are sets of bit positions, so that the mask
arithmetic of the code is set algebra. `AdmissionIsExact`: install refuses a
well-formed entry exactly when some key would have two best entries, where that
is defined by keys and not by the pairwise checks of the code.
`ConstEntriesInstall`: what the validator accepts, the runtime installs; the two
sides are written separately, as they are in the code. `LookupIsBest`: the scan
finds the best entry and misses only if none matches. *Bounds*: an exact table
of two one-bit keys, an lpm key beside an exact key, a ternary key of two bits;
all patterns of those widths, all const lists of up to two entries, three
entries in all, malformed entries of every kind the install checks name.
Conflicts are pairwise, so three entries contain every way a new entry meets
old ones.

**`Activations` and `ByReference`.** A frame holds a block's store, its
parameters' directions and the resolved arguments. `CallBlock` copies in,
`Return` and `Unwind` copy back: the latter is the `finally` of `call_block`
while an error is on its way out. A call is taken only if `Accepted`, the
validator's `check_args` with `may_alias`. `CopyOrderIrrelevant`: copying back
in any order gives the same caller, though the rule judges static paths and the
run computes indices. `PassesByReference` is a refinement: in `ByReference` an
out argument *is* its cell and copies do not exist. The mapping gives each
shared parameter the cell it was resolved to (`Denoted`) and each cell the value
it would have if every call returned now (`OwnCells`). A lost, early, late or
misplaced write would be a step the abstract specification does not have.
*Bounds*: a stack of two, three active blocks, four statements, headers of two
values; elements passed by literal and by computed index, in and past the stack,
beside the index variable and beside the whole stack, in every direction, and
two calls the aliasing rule refuses.

**`Storage` and `ValueStore`.** `Storage` has the interpreter's object graph:
references per variable (`env`), headers, structs and stacks on a heap that
grows with every copy and loses what nothing names, assignment by copy or in
place, `push_front` and `pop_front` as list surgery, action parameters layered
on the block's variables (`frame`), extern results and `hit` written through
lvalues after the call. Each statement takes the memory to another (`Stored`,
`Mutated`, `Link`, `Copy`) and `Become` collects what is no longer reachable. `ValueStore` says what the same statements mean on values.
`ActsOnValues` is the refinement: nobody can tell the objects from values, also
after an action has changed what an out argument, its index or the target of a
result names; it is proved as well (section 3). *Bounds*: stacks of two, two values, three statements of every
kind, lvalues at literal and variable indices.

**`Extraction`.** Values are integers cut and joined with the code's shifts and
masks. The state is one packet, one header, a stack with its `next_index`, and
the stage. At most `MaxStatements` statements of any kind in any order are followed
by `Accept` and `Deparse`, or an error. `PacketsKept`: a program that only
extracts in order sends the packet it received; and while elements are filled
through `hs.next` and moved by push and pop, nothing at or above `next_index`
is valid, so `next` destroys no header. `RaiseChangesNothing`: a statement that
raises leaves cursor, headers and `next_index` as they were, except in the case
of finding 1. *Bounds*: a header of 1 + 3 bits, a stack of three, packets of one
and two bytes, five statements: headers cross byte boundaries, the cursor stops
off a boundary, a packet too short and a stack too full occur alone and
together.

**`Expressions`.** Expressions are built bottom-up; each node carries the type
`validator/typer.py` gives it, whether anything was reported, and the value
`interp/expr.py` computes. `WellTypedEvaluates` is type soundness: what is not
reported evaluates to a value of its type and width. `NoTypeIsReported`: the
typer returns no type only with a diagnostic. `TypingAssumption` is what
`check_type_declarations` and `Env.for_block` leave: declared types are checked,
and variables hold values of their types; `Values` is closed under the fields and
elements of its members. *Bounds*: every expression of up
to four nodes, three operands open at once, over bits of widths 0 to 2 (0 is
reported), a boolean, a header, a struct, a stack, an enum and errors, in and
out of a parser.

### The validator's call graph

**`CallGraph`.** Statements become edges (`check_call_block`), then
`report_cycles` runs, its recursion an explicit stack. `SearchIsExact`: it
reports cycles only, every cycle holds a reported call, and silence means the
calls can be ranked, which is the assumption `AcyclicCalls` of `ParserLoop`.
*Bounds*: every graph of three blocks with up to two calls each; the theorems of
section 3 hold for all.

### The v1model architecture

**`V1Pipeline`.** The stages of `V1Model.run` over two packets of a session,
with any subset of the optional stages and any set of declared metadata fields.
A stage's program is any sequence of the statements the profile lets it make.
`RequestsServed`: a stage reads its own request for this packet or zero, and the
packet leaves by the port ingress asked for. `EveryPacketAccounted`: one fate
per packet, stages run once per packet that gets so far, counters keep the
counts of packets that were dropped. `EveryPacketAnswered` under weak fairness
of a stage's end: a stage's program is finite. Out-of-range cells, ports and a
drop in ingress and egress occur within the bounds (two ports of four
`egress_spec` values, one cell, two statements per packet).

**`Profile`.** A stage's program is blocks and actions by name, each with a
parameter and statements: assignments, extern calls, branches (an `if`, or a
parser's transition, which may go back), `verify`, table applications, calls.
`Accepted` is `check_profile` with its access paths: a recursive function from a
procedure and a scope, the path of the metadata each name stands for, to the
verdict of `_check_block`. Accepted stages are run, with metadata values reduced
to where they came from; a `verify` that fails ends every activation and each
copies back. `AccessHolds`: what a stage may not write is kept, and what it may
not read stays where the metadata has it. Procedures have one parameter, a stage
or sub-block has only locals beside it, and extern calls and table keys have one
argument; a statement that needs more is several. *Bounds*: a role that parses,
one that may write and one that may only read, two statements in the stage and
one or two per callee, calls nested two deep, parameters of every direction and
type, and names that hide the metadata.

**`Hashing`.** `hash` and `update_checksum` become an extern call and IR
arithmetic (`frontend/v1model.py`), which are run with the algorithms of
`arch/externs`. `HashesAsWritten` compares the target with RFC 1071 and with
polynomial division. *Bounds*: words of three bits, bytes of two, CRCs of four
(one reflected with initial and final bits), all data of one field of six or two
of up to three bits, results of two to four bits, maxima that are and are not
powers of two.

### The frontend

Each module translates a P4 fragment as the code does and compares what the IR
then does with what P4 means by the fragment, written independently.

| Module | Translates | State and actions | Bounds |
|---|---|---|---|
| `Lowering` | statements with calls in expressions, arguments, conditions and switches (`_expr`, `_binary`, `snapshot`, `call_args`, `_inline`) | a lowered list that is run a statement at a time | every statement with up to three calls nested or side by side, lazy operators, slices as arguments, aliasing ones too |
| `ActionRun` | `switch (t.apply().action_run)` by marker locals | applies, actions calling actions, marker writes | three tables sharing three actions, one bound, four applies |
| `ParserLowering`, `ParserSyntax` | states, locals of states and blocks, key sets, ranges, constants | P4 and IR run state by state | parsers of two states from nine bodies, five transitions, four lists of locals; four states entered |
| `Naming` | fresh names, specialised and bound actions, `finish` | translate, finish | two actions and two tables that declare, shadow and bind colliding names |
| `Folding` | compile-time values (`fold`), casts, shifts, slices | nodes built bottom-up, IR nodes of `Expressions` beside them | five nodes, widths of one and two bits and int |
| `TableEntries` | keys, key sets, priorities, const entries | property by property, then applies | two entries on ternary, lpm, exact and mixed keys, a mask wider than its key, three orders of properties |
| `Instances` | extern and sub-block instances, sharing | instantiation as an explicit stack | three levels of controls, packages of two roles |

`LoweredAsWritten` also demands that every call in the IR has separate
arguments, which the validator would insist on. `InstancesKept` also demands
that callees precede callers. The inputs leave out what section 6 lists as
observations: there the translation differs from P4.

### The eDSL

**`Recording`.** `active` is `_ACTIVE`, levels are the `_targets` and `_open_ifs`
of a block's statements, assembly of a callee suspends the caller. A ghost keeps
the conditions every statement was written under. `RecordedAsWritten`: the
library holds each statement in its own body, in order, under exactly these
conditions, arms of an `elif` ladder included; results of extern calls are taken
once; declarations come before their uses. *Bounds*: three classes, two
methods, four operations, three open `with` blocks.

**`Authoring`.** An operand has the type the eDSL believes, the IR it wrote,
and what the typer says of that IR. `BuiltIsWellTyped`: both agree, and a
recorded statement is reported only for where it stands. `ElaboratedMeans`:
`assign_slice` and `zero_stmts` do what they say. *Bounds*: every operand of
four nodes.

**`Declarations`.** Declarations are made through the core and replayed from
block classes; `Reports` is the validator on the built library, from nothing but
its IR. Each side says by itself where a call may stand: `Offered` what the body
classes of the core have, `StmtsByKind`, `ApplyReports` and `CallReports` what
the validator allows. `BuiltIsDeclaredRight`: what the eDSL accepts is reported
for nothing the eDSL checks; the place of a block call is left to the validator,
that of an `apply` is not. `RefusedForCause`: what it refuses the validator would
report, save the refusals named in `Stricter`. *Bounds*: scripts of up to five
declarations with some that are right and, for every rule, some that break it,
and over two thousand block classes.

### Testing

**`LeanRunner`.** `caller` walks through `run`, `finish`, `_death` and `close`;
`worker` through the blocking calls of `_exchange`; the process may read,
answer, write lines nobody asked for, close its output, exit, hang, or leave a
descendant outside the process group that keeps both pipes open. A timeout is
possible in every wait of the caller that finds nothing. `AnswersMatch`: a late
answer never becomes the answer to a later case. `EveryLineAccounted`: a `with`
block that ends without an error has returned every line the process wrote, one
per case. `StreamsNotShared`: the caller closes the streams only when the worker
cannot be inside them. `NothingHangs`: every call of the caller returns, and the
worker ends unless a descendant holds the pipes. *Bounds*: two cases and two
extra lines: enough for an answer, a late answer and an extra line to be
confused. *Fairness*: weak, on the caller's steps once it is in a call (threads
are scheduled, timeouts expire) and on the worker's; none on the process, and
none on starting another case.

**`Campaign`.** A budget of samples, each a list of cases on both sides, which
keep extern state from case to case; the peer may disagree, drift in state or
break the protocol at any point. `DesyncIsNeverSilent`, `PassMeansAgreement`,
and `EveryBudgetIsSpent` under weak fairness: `run_guided` is a loop whose waits
`LeanRunner` bounds. *Bounds*: two samples of up to two cases, two states, two
outputs, one error sentence with and without its class prefix.

**`Walk`.** The walk of `drt/generate.py`: `known` maps locations to the packet
bits they hold or to numbers, `decided` and `chance` are ghosts of which bits a
decision read and whether it was left to chance. A recursive interpreter of the
same parsers is the reference. `WalkIsFollowed`: when nothing was left to chance
and no decided bit was drawn or written again, the packet drives the interpreter
through exactly the states of the walk, unless the walk was at its bound, the
packet was cut short, or the run ended by the revisit rule or the reject of a
sub-parser. *Bounds*: 91 parsers of two states and a sub-parser, three states
entered, headers of two fields, stacks of two.

**`StfReplay`.** A file is parsed line by line; its statements are grouped, one
at a time, into one run per packet with the entries installed before it; then
the runs are replayed against an architecture that answers anything. A line is a
record of names and digits, and `Files` says which lines a file may hold and how
many. `EntriesMeanWhatIsWritten`: through parsing, masks and canonical forms
an entry matches exactly the keys its line spells, and it passes the installer's
form checks. `VerdictIsExact`: every packet is run once, in order, and a file
passes exactly when every packet's outputs are what its expects claim, a packet
with a `no_packet` has no outputs, and every claim is about a packet. One case is
excepted by name, `Overruled`: a `no_packet` with an expect of the same packet
after it and none before, which the code does not hold to what the documentation
says of it. `NoPacketMeansNone` states that without the exception, and its run
finds it violated (finding 4).
*Bounds*: files of up to three lines of every kind and of four of packets and
claims; keys of two bits written in digits, with `*`, prefixes and decimals.

## 3. Proofs

For every value of the constants that satisfies the named assumptions:

**`ParserLoop_proofs`**: `TypeCorrect`, `OutcomesConsistent`,
`CursorNeverRetreats`, `TimeoutIsExact`, `NeverReentered`, `EntriesBounded`,
`EveryEntryIsNew`. `TimeoutExactlyOnRepeat` is not inductive. Its strengthening
says that every entered pair lies at or before the cursor, that `visits[s]` is
the largest cursor at which `s` was entered, and that it is absent exactly if
`s` never was; with the cursor monotone, "the last cursor" and "some earlier
cursor" coincide at the only cursor that can still be entered. That no block is
active twice follows from the stack being a path in the acyclic call graph.
`EntriesBounded` is the safety half of termination.

**`Validator_proofs`, the call graph**: `SearchTypeCorrect`, `GreyNodesAreTheTrail`, `CyclesAreReal`,
`NoRecursionWhenSilent`, `NoCycleIsMissed`, `SearchExact`. The inductive
invariant says that the grey nodes are the trail of visits, each the next
edge's target of the one before, that the edges a visit has passed lead to black
nodes or are reported, and that every unreported edge of a black node goes to a
lower rank in the order of blackening. A cycle without a reported call would
have to descend in rank for ever. `NoRecursionWhenSilent` discharges the
assumption of `NeverReentered`.

**`Tables_proofs`**: `TypeCorrect`, `NeverTies`, `AdmissionExact`,
`LookupCorrect`, `ConstEntriesAlwaysInstall`, `DefaultsKept`. The core is a lemma
about two entries: they pass the install checks together exactly if no key is
matched by both with neither beating the other. `NoTies` follows pairwise,
`AdmissionIsExact` is the same lemma at the step of an install, and
`LookupIsBest` needs the loop invariant that the best entry so far beats every
matching entry before the scan position. `ConstEntriesAlwaysInstall` rests on
the invariant that the const entries still to be installed are checked, and
clash, in the validator's sense, neither with each other nor with what is
installed; a lemma shows that a conflict in the runtime's sense is a clash in
the validator's.

**`Tables_proofs`, translated tables**: `ChoosesAlways`, from `P4TablesAssumption`
(a typed P4 table: its keysets have a form, its priorities are numbers, and what
it says beyond an empty table is in one of its properties), for every width,
number of entries and order of the properties. `P4Action` and `IRAction` choose
independently; the proof goes by three facts about them. `MatchesAlike`: an entry
matches the keys its keysets match, since a key value compares the bits its
keyset compares. `RanksAlike`: one entry beats another exactly if its rank is the
larger, whether priorities count up or down or the longest prefix decides.
`BestIsOne`: two entries of one rank that match one key are what the validator's
tie check reports, so the best entry is one, and it does not matter which `CHOOSE`
takes. `ChoosesAsWritten` speaks of an apply; `TableInv` says of the translation
before it which parts of the table are done and which property, still to come,
will do the others. Entries read before the keys have no key values, and the
validator refuses them (`Keyless`). The proof found a flaw in the model: P4's
rank counted mask bits beyond the key's width; the run has a keyset with such a
mask now.

**`Testing_proofs`, the runner**: `RunnerTypeCorrect`, `StreamsSafe`, `AlwaysReaped`,
`LinesAccounted`, `AnswersAlwaysMatch`, for any number of cases and of unasked
lines. Neither of the last two is inductive: `QueueInv` says where the one
request under way can be (queued, with the worker, or answered in the reply
queue) for each state of the caller, `LinesInv` that every line written is in
the pipe, in the reply queue or returned, and `AnswerInv` that, while nothing
unasked was written, the pipes hold the current case or nothing.

**`V1Pipeline_proofs`**: `TypeCorrect`, `RequestsAlwaysServed`,
`EveryPacketIsAccounted`, from `PipelineAssumption` (the drop port is no
configured port). `RequestsServed` speaks of ingress, egress and the idle switch;
`RequestInv` carries it across the stages between: before ingress nothing has
been asked, and after it the selected port is what ingress asked for.
`EveryPacketAccounted` holds only when the switch is idle; `CountInv` adds to
each balance the packet in flight, counted where it has been and nowhere else,
and `StageInv` that an optional stage runs only if it is exported. One lemma per
arrival at a stage or an end shows that the balance is kept.

**`V1Pipeline_proofs`, the access check**: `ProfileTypeCorrect`,
`AccessAlwaysHolds`, from `ProfileAssumption` (roles are v1model's, no field is
called as the model's own marks are, programs are well typed), for programs with any
number of procedures, any bodies and any nesting, recursion included. `Checked`
is a recursive function over infinitely many scopes, so first that it exists:
`CheckedIs` takes the pairs that some set of pairs contains which needs only its
own members. `AccessHolds` is not inductive: it says nothing of the parameters
that metadata was copied to. The invariant `RunsOk` names, for each activation,
the path its parameter stands for, and says that each value fits the path of its
cell (`CellOk`: what may not be read is only where the metadata has it, what may
not be written is still there), that the procedure was accepted for that path,
and that what will be copied back fits the caller's variable. An action is
checked twice, called and on its own, with different scopes;
`StatementAllowed` shows that together they cover each statement, its parameter
by the check of the call and its block's variables by the check on its own.

**`Testing_proofs`, a campaign**: `CampaignInvariant`, `CampaignTypeCorrect`,
`NoSilentDesync`, `PassingSamplesAgree`, from `CampaignAssumption` (a budget and a number of cases
that are not zero). The invariant ties the report to the ghost history: each
case that is not among the divergences agrees, `both_errored` is zero only if no
case failed on both sides, a sample whose peer did not break has run all its
cases when it is finished, and the failures are numbers of earlier samples. So a
sample that is not added to the failures passed, and what passed agreed.

**`Testing_proofs`, STF vectors**: `ReplayInvariant`, `EntriesAlwaysMean`,
`VerdictAlwaysExact`, from `ReplayAssumption` (tables and lines have the shapes
`Declared` and `StfLine`), for any program, key widths, files and answers of the
architecture. `KeyMeans` is the arithmetic: the value, mask and prefix a key
resolves to compare exactly the bits that the written digits, stars, decimal and
prefix compare, and they are canonical, so the table takes them. What the run
checks of the finished grouping is stronger in the invariant: after each line,
the installed lines, the packets and the claims of every run are *lists* of the
lines seen so far (`Lists`: each once, in order), the entries of a run are those
of the adds before its packet, and the failures are the lines out of place and,
during the replay, those that differ. `InPlace` looks at the file alone; that it
agrees with what the code looks at, whether a run exists and has expects yet, is
the step of `no_packet`; that it comes to what `VerdictIsExact` asks of the
outputs, once the expects are satisfied, is `PlacedAsKept`. A set is listed in one way (`ListedOnce`), so the pairs
that `_compare` forms by position are the only ones that could satisfy the
claims. The proof found a flaw in the model: the guards of the `CASE` of
`KeyValue` overlapped for a masked ternary key; they are nested `IF`s now.

**`Activations_proofs`**: `Invariant`, `TypeCorrect`, `CopyOrderNeverMatters` and
`ImplementsByReference`, the refinement itself, from `CallsAssumption` (a stack
that is not empty, values with zero among them, a depth, and calls whose arguments
have the parameters' types). `CopyOrderIrrelevant` compares results; `Linked`, which
implies it and is inductive, says why they agree: of every frame,
that its parameters that are copied back name resolved places of the right
type and no two of them share a leaf, a leaf being a variable that is no stack
or one element. It rests on `ResolvedStaysApart`: the aliasing rule reads the
arguments as written, and whatever their indices turn out to be, what it accepts
stays apart; an element past the end is no place at all and its copy is lost.

The refinement is proved leaf by leaf. The mapping (`Denoted`, `OwnCells`) is
recursive over the frames; `Least`, `Upward` and `Iterates` take the least depth
at which a claim would fail, so that what the mapping gives at a depth follows
from its definition there and one step below. `DenotedRooted` says that what a
frame's names denote is rooted in frames at or below it, `Spread` that names which
share no leaf in a block denote cells that share none, and `CellsLeaves` gives the
cell behind each leaf. On these stand one lemma per action: `MapsToModify` (an
assignment changes the one cell its place denotes), `MapsToEnter` (copy-in gives
each parameter what its cell holds, and an out parameter zero), `MapsToLeave`
(copy-back moves a value that the mapping had put there already, so a return and
an unwinding change no cell).

**`Validator_proofs`, expressions**: `ExprInvariant`, `ExprTypeCorrect`, `TypeSound`
and `NoneOnlyWhenReported`, from `TypingAssumption`, for every width, declaration,
environment and packet and expressions of any depth. `WellTypedEvaluates` is not
inductive: it says of a stack or a struct that its parts have their types, not the
parts of its parts, and a member of a member is a part of a part. `Proper` closes
it: a value is proper if it lies in a set of values each of which has its type and
all of whose parts are in the set. One lemma per kind of node shows that good
operands give a good node. Under them stand facts about the arithmetic, by
induction over the width or over the fields of a header: `PowSum` (concatenation
and shifts stay within their width), `SomeBits` (any bits are the bits of a number
below 2^w, so `&`, `|` and `^` are defined), `BelowIsNat` (where the fields of a
header lie in the packet).

**`Headers_proofs`, bits**: `BitsTypeCorrect`, `BitsInvariant`, `PacketsAreKept` and
`RaisesChangeNothing`, from `BitsAssumption` (packets of bytes, fields of at least
one bit), for every packet, field layout, stack size and number of statements.
`PacketsKept` speaks of what was sent; `BitsInv` says what it will be made of.
`StoredInOrder`, its new part, holds while the program only extracts in order: the
first `next_index` elements, and then the header if it is valid, hold the bits of
the packet at their places, the other elements are invalid, and the cursor is where
the last of them ends. The packet
is taken as one number and `Prefix(c)` is its first `c` bits: `PrefixGrows` (an
extract reads what takes the prefix at the cursor to the prefix at the new cursor),
`HeaderRoundTrip` (`header_to_bits` undoes `header_from_bits`: cutting a number at
the field ends and joining the parts gives it back, by induction over the fields),
`EmittedIsPrefix` (so the emitter's buffer is the prefix at the cursor) and
`BytesArePacket` (at a byte boundary `to_bytes` of a prefix is the bytes of the
packet before it, and the payload is the rest). `NextNeverOverwrites` needs no
strengthening. `RaisesChangeNothing` goes by the actions that may raise.

**`Headers_proofs`, objects**: `ObjectsAreShaped`, `SharesNothing` and
`ObjectsAreValues`, the refinement of `ValueStore` itself, from
`StorageAssumption` (the values of a field include 0 and 1, header lvalues are
well formed), for every stack size, set of values and lvalues and any number of
statements. The inductive invariant is `Valid`: `Shaped`, that every name refers to
a live object of its kind, and every stack to `Elements` live headers; and
`Distinct`, that no two of the places that can name a header (a variable, a
member, an element, the parameter) name the same one. With it a store is
determined place by place (`StoreByPlaces`, `EqualValues`), so a step need only say
which places it changes: to mutate an object changes the value of one
place (`WrittenOnce`, `MutatesValue`), to link a copy changes what one place names
(`Rereferred`, `LinkStores`, `StoresValue`), a stack refilled or copied changes one
stack (`StackReplaced`, `InPlace`, `CopyOfStack`), allocation changes nothing
(`RefsAreFresh`, `Grows`), and collection neither drops nor changes what is
named (`CollectionKeeps`). One lemma per statement combines these to the
step that `ValueStore` has for it. The delicate ones are the calls: their targets
are resolved in the memory before the body, the write happens in another, and
`Denotes` says that a resolved lvalue still names the same place there. The
proof found a flaw in the model: two guards of a `CASE` of
`ValueStore!CallExtern` overlapped (the index of a variable without one is below
every size), which TLC resolves by order and the logic does not; the guard now
names the stack variables.

**`Numbers` and `Numbers_proofs`** hold what four of these rest on: powers of two,
division and remainder, and the equations of the recursive functions, each an
induction over its range.

The type invariants of these components, `NoTies`, `DefaultKept`,
`OutcomeConsistent`, `CursorMonotone`, `NoReentrance` and `Reaped` are proved
and are not repeated in a run.

## 4. What is only model-checked

* Liveness: `Terminates`, `NothingHangs`, `EveryPacketAnswered`,
  `EveryBudgetIsSpent`.
* `ShortPacketConsumesNothing` is false (finding 1), so the theorem is the weaker
  `RaisesChangeNothing`, which names the one statement it excepts.
* Everything about translation (the frontend, the eDSL, `Walk`) except table
  entries, and `Hashing`: induction over programs, most of it by recursive
  operators.

## 5. Findings

1. `extract` resolves a target `hs[lookahead<bit<n>>()]` once to learn its header
   type, reads the packet, and evaluates the index again when it writes. The
   second lookahead sees the cursor after the header: with fewer than `n` bits
   left it raises `PacketTooShort` with the header's bits consumed and no
   element filled, which the docstring (`interp/stmt.py:296`) rules out
   (`extraction_lookahead`).
2. `a op= f(a)` reads `a` after the call that is hoisted out of its right side,
   where `a = a op f(a)` reads it before (`frontend_compound`).
3. A parser state that declares a name of the parser again leaves its
   declaration in the scope of the states translated after it
   (`frontend_frames`).
4. `packet`, `no_packet`, `expect`: the file passes when the packet's output is
   the expected one. `_runs` refuses a `no_packet` after an expect, not an expect
   after a `no_packet`, and `_compare` reads `no_packet` only to choose the line
   of a failure; `stf.py:69` says that `no_packet` asserts that the packet
   produced nothing (`testing_no_packet`).

## 6. Observations without a run

Met while modelling; the inputs of the models leave these cases out, or the
property names them as exceptions.

* `_var_decl` and the translation of locals bind the new name before the
  initializer is translated: `{ bit<8> x = x + 1; }` reads the new `x`
  (`frontend/blocks.py:1183`).
* `fresh` does not know the parameter names of actions, so a block variable
  named like a parameter is captured in the action's body, and so is a bound
  argument named like a kept parameter (`frontend/blocks.py:197`, `1632`).
  `MCFrontendInputs!AllControls` holds such controls; `PlainControls` leaves them
  out.
* Sub-block instances without extern state share one IR block and so one set of
  table entries (`owns_state`, `frontend/blocks.py:2376`); in P4 each instance
  has tables of its own.
* `hash` into a target whose index reads the target evaluates the index again
  after the call; its data list is not snapshotted when it holds calls.
* A call in the trailing `return` of an inlined function is hoisted above the
  function's body; an unlabelled action that calls a labelled one leaves the
  callee's marker set; an `inout` argument followed by an `in` argument whose
  call writes it, several `in` arguments of an inlined function with calls, and
  calls in table keys or select keys are not put in order by `Lowering`'s source.
* The walk of `drt/generate.py` takes the reject of a sub-parser for a return,
  has no revisit rule, and keeps knowledge across some calls, copies and
  extracts that end it. It only makes the packets less apt.
* STF: a narrow masked number and an unmasked one differ in how high digits are
  taken, and the mask of an action argument is dropped.
* The eDSL leaves to the validator: `lastIndex` and `next` out of place, writes
  to `in` parameters, aliasing arguments, emits of structs with scalars, selects
  on headers, bits outside a mask, and the naming and key rules listed in
  `LeftToTheValidator`. A refused declaration keeps the name it took.
* The validator accepts actions and tables in a deparser
  (`validator/blocks.py:51`), which `validator/__init__.py:49` does not mention.

## 7. Not modelled

* Loading, assemblies, bindings and wire formats: look-ups and file formats at
  load time, with no state a later step could find changed.
* The families, case files and replay of `drt/`, conformance evidence: program
  templates written out as data, serialization, I/O.
* Frontend: running the P4-SpecTec process, normal forms of its JSON, and type
  declarations, which are only renamed.
* Printer and generated code: text.
* The Lean semantics: a separate development with proofs of its own.

Abstracted everywhere: names, widths and payloads to a few values; wording of
diagnostics to their codes; Python's dictionaries to functions or sequences
where their order matters.

## 8. What could follow

The binding of extern families beyond the CRCs; entries of the packet generator.
