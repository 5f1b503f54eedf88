# TLA+ models of OpenAyane RDE

OpenAyane RDE evaluates what a generator or an agent does to a document or a workspace: it
diffs, classifies, decides, asks a human where it must, executes what it may, and remembers
how each generator has behaved. This directory holds TLA+ modules of the parts that decide
and keep state (`src/src/openayane_rde/` in the tree, called *the code* below; documents are
under `src/docs/`), the TLC configurations that check them on small instances, and proofs
that TLAPS checks for every instance. `PROJECT.json` maps every definition to the lines it
translates.

    tlc -workers 2 -config MCGateEvaluation.cfg MCGateEvaluation
    tlapm ExecutionGovernance_proofs.tla

## The system

| Component | State it keeps | Operations | Module |
|---|---|---|---|
| Execution gate (`agent/tool_contract.py`, `policy/execution_rules.py`, `agent/execution_gate.py`) | none | `evaluate_before_execution`, `enforce_execution_decision`, `execute_after_review_decision` | `GatePolicy`, `GateEvaluation`, `ExecutionGovernance` |
| Human review workflow (`review/workflow.py`) | requests in memory | `create_request`, `submit_decision`, `get`, `get_pending` | `ExecutionGovernance` |
| Review tables (`relation/sqlite_store.py`) | `review_requests`, `review_decisions` | `create_review_request`, `append_review_decision` | `ExecutionGovernance`, abstractly `ReviewLedger` |
| Safe runtime (`runtime/safe_execution.py`) | the workspace, a child process | `execute` | `ExecutionGovernance`, `SubprocessExecution`, `SubprocessResults` |
| Rollback manager (`runtime/rollback.py`) | snapshot directories | `create_plan`, `validate_plan`, `execute_rollback` | `Rollback` |
| Audit log (`audit/log.py`) | a JSONL file | `append_event`, `load_events` | steps of `ExecutionGovernance`, `ChangeEvaluation` |
| Relation stores (`relation/store.py`, `sqlite_store.py`, `context_loader.py`) | a JSON file; `relation_records` | `get`, `upsert`, `load_context`, `import_from_json_file` | `RelationHistory` |
| Relation update (`relation/update.py`) | none | `update_relation_from_evaluation_result` | `RelationHistory` |
| Classifier, policy bridge, modification control (`rde/`, `policy/`, `runtime/_flow.py`, `runtime/modification_control.py`) | none | `run_phase1_evaluation` and its post-execution variant, `apply_or_halt` | `ChangeEvaluation` |
| Diff engines, semantic cues, phrase matching (`diff/`, `semantic/stub.py`, `semantic/delta_engine.py`, `rde/authorization.py`) | none | `diff` of each engine, `build_semantic_delta`, `match_allowed_delta` | `StructuralDiff`, driven by `DocumentChain` |
| Institution (`institution/`) | a rule registry | `register`, `first_match`, `build_handoff`, `decide`, `decision_kind_for_reviewer_and_rule` | `InstitutionBridge`; overlay in `GatePolicy` |
| Contract builder, adapters, CLI, HTTP API | none | pure functions, I/O | not modelled |

How they interact. An orchestrator (an agent's host, the tests in `tests/integration`) calls
the gate with a tool call. The gate reads the relation context from the store, decides, and
appends one audit line. The orchestrator enforces the decision: a halt is blocked, a review
goes to the workflow, which writes queue, row and audit line in that order, and everything
else goes to the runtime. A reviewer's decision goes through `submit_decision`, again queue,
transaction, audit line, and the orchestrator executes with the decision object. Outputs of
generators take the other road: diff, classifier, policy bridge, audit event, outcome; an
audited result updates the relation record, which the next gate and policy decisions read.
All calls are synchronous; concurrency is between the orchestrator's calls, the reviewers,
the child process and the thread that cancels it, and the process may die between any two
writes. Several evaluations may be under way when an update happens.

What makes each part correct, and what is hard about it, is the list of hazards in
`PROJECT.json`, each at its line, with the properties that watch it.

## The modules

**`GatePolicy`** holds the gate's decisions as pure operators, one per function of the code.
A tool call is a record of what the regular expressions and keyword lists find in it (which
keyword classes, a secret, a protected path, a URL, a listed host); the texts are not
modelled. Scores are thousandths. `EvaluateGate` is the whole of `evaluate_before_execution`
without its audit line. The second check for a secret in the URL
(`tool_contract.py:290-301`) is left out: the first one (line 183) has seen the URL already.
`DecideAction` and `AdjustForHistory` are the Phase 1 policy (`policy/rules.py`), which
repeats the gate's history thresholds.

**`GateEvaluation`** puts one call in front of the gate while the history behind it moves:
`Reevaluate` is one more `evaluate_before_execution` under any relation context.

**`ExecutionGovernance`** is the machine around the gate. One action is one library call,
with its whole effect and a disjunct for every place where it may raise: `Evaluate`,
`EnforceHalt`, `EnforceRun`, `EnforceReview`, `SubmitDecision`, `ExecuteAfterReview`, and
`Crash`, which loses the memory (`gate`, `queue`, `held`) and keeps tables, log and
workspace. `session`, chosen at the start and never changed, bounds a behaviour: its calls,
its requests for each and the kinds of decision taken on them. `raised` and `effects` are
history: which requests' latest call raised, and how often a call may have touched the
workspace. The runtime is the set of results `execute` can return for the call.
`RuntimeOutcomes` passes no cancellation event and ignores the rollback plan, as the gate's
path does.

*Assumption on the orchestrator.* It executes after a review only with a decision whose
`submit_decision` returned (`held`). The library does not enforce this
(`tests/integration/test_agent_execution_gate_flow.py` executes with one that was never
submitted), so `EffectHasDurableAuthority` is a property of a disciplined orchestrator.
Execution lines in the audit log are the orchestrator's to write and are not modelled.

**`ReviewLedger`** is what the review tables promise: a request is opened once, a decision
is recorded once, together with the status it stands for. `ExecutionGovernance` implements
it with `status <- rows`, `decisions <- recorded`.

**`SubprocessResults`** holds what `_execute_subprocess` may answer to a call. It is what the
other two modules of the runtime agree on: `ExecutionGovernance` takes an answer of it in
one step, and `AnswerIsForeseen` says that the polling loop gives no other, with a
cancellation, which the gate never asks for, apart.

**`SubprocessExecution`** is `_execute_subprocess` and `_communicate_subprocess` at the
grain of their system calls, next to the child (which may fork a process that keeps the pipe
open), the thread that cancels and the clock. Status `"cancelled"` stands for `failed` with
the error message `cancelled`. An output that is not UTF-8, which makes `communicate` raise,
is not modelled; nor is truncation.

**`Rollback`** is the rollback manager over a few files: a plan's snapshots, the tools that
change the files, a rollback that completes, or fails at any pair with the destination
intact or torn, or is cut short by a crash. The snapshots of a plan are those of the targets
that are files of the workspace (`Kept`), in their order (`Nth`), so a plan whose targets
were passed over pairs them with the wrong ones; `AlignedRollbackRestores` and
`WholePlanRestores` say when that does no harm. The plan is lost in a crash:
`save_rollback_plan` writes it and nothing reads it back. Targets are relative paths without
`..`: for an absolute one `snap_root / rel` (`rollback.py:86`) is the path itself, and for one
that goes up it leaves the plan's own snapshot directory, so that the snapshot is not where
the model has it. Such targets are not modelled.

**`RelationHistory`** is the record of one generator and one document. `Evaluate` takes the
relation context and holds a result; `UpdateStores` is one
`update_relation_from_evaluation_result`, which leaves the result held when the
`load_context` after the upsert raises, so it may be applied again; `LetGo`, `Crash`,
`UpsertOther` (a record of another relation type of the same pair) and `ImportFile` do the
rest. `merit` and `damage` stand for the counters of the two profiles, which enter the
scores only through two sums; drift patterns, `last_delta_m` and `context_affinity` are read
by no decision and left out. `BlockedForGood` asks both readers of the record, the gate and
the policy bridge. The code adds floats; properties that compare a score with a
threshold allow it to be read a thousandth off (`ReadContexts`). There is one writer
(the repository's `README.md:59`, and docs/30, 9.6). A pair without a record has the neutral context.

**`ChangeEvaluation`** is the evaluation of a generated change. A diff is the counts the
classifier branches on; `EvaluationOf` composes `Classify`, the policy bridge and the
institution overlay; `Evaluate` returns with the audit event appended (where a log is
given), `EvaluateFails` raises before or after the line, `Apply` is `apply_or_halt`. The
semantic stub's cues are signals like any other. `classify` never returns
`benign_incidental_drift` or `creative_deviation`; they appear only in `DecideAction` and in
the update rules. Preservation, authorization and resonance scores are computed by the code
and read by no branch, hence left out.

**`StructuralDiff`** holds the three diff engines as operators on what they extract from a
text: of Markdown the sets of headings, definitions, citations, numbers, dates, links and
code blocks; of JSON a function from paths to values; of Python the imports, the functions
with their signature and exception handling, and the bases of the classes. The regular
expressions and the parsers are what is left out. `Nodes` are the changed, added and deleted
nodes. Which of them are protected changes is a table, `Guards` (what happened to what kind,
under which protected element, with which hint), with the further conditions in `Concerns`.
`Signals` are the nodes together with the cues the semantic stub and engine add, `Says` is
the substring test of `authorization.py` between a phrase with its synonyms and the texts the
engines write, and `CountsOf` are the counts `ChangeEvaluation` classifies. Names, titles
and bodies are values that contain no phrase.

**`DocumentChain`** drives both, as `tests/long_chain` drives the code: each proposal is
diffed against the version in place, evaluated (`Propose`, `ProposeFails`), and settled
(`Settle`): an applied one becomes the version in place; a pending one may be let pass by a
human (`LetPass`). Every step of it is a step of `ChangeEvaluation` or leaves that alone
(`ChainImplementsEvaluation`). `told` is history: the nodes that the diffs of accepted
changes showed. `UnreviewedKeepsProtected` compares the version in place with the first one
(`Keeps`), element by element, whichever of them a contract protects:

- of a text the protected elements are all there (`KeepsText`); of a program the imports, the
  tests and the public functions;
- a public method is there or its class was deleted in a step of its own, because the engine
  records no protected change for the methods of a deleted class;
- a place of a JSON tree is there with its type, unless a step deleted it or what it stands
  in and `schema_keys` is not protected, or turned one of them and `types` is not;
- a function is there with its signature where signatures are protected, unless a step
  deleted it and its name is not protected.

  So with `types` or `function_signatures` alone a thing may be deleted openly and come back
  different, in two steps that nobody reviews: the code compares only what is in both
  versions, and the property says so;
- array items may always be deleted, and required fields of the top level (`RequiredDeletion`)
  never, whatever is protected;
- booleans, integers and floats are one type, as they are to the engine
  (`json_diff.py:141`); `SameType` says this apart from the module's `Comparable`.

`MisreportIsStopped` covers what the engines compare with a claim: numbers that went or came,
citations that went, signatures of functions that are in both versions.

**`InstitutionBridge`** is the registry with the bridge: `Register` appends a rule, `Decide`
takes a decision on the handoff built, with any reviewer or none, on the facts the caller
declares. `AcceptanceIsCovered` says what an acceptance rests on: a rule that matches and a
known reversibility; a reviewer whose bounds cover the consequence where it is irreversible or
a human has reviewed it; a rule and a reviewer that allow an irreversible one. A reversible
consequence that nobody reviewed may be accepted without any reviewer. `HasEvidence` is in the model though it is always true of a built handoff: the
two constants `build_handoff` puts in place of an empty basis make it so, and the code's
branch for missing evidence is never taken.

`MC*` modules give the constants their values; `*_proofs` modules hold the theorems.

## The runs

| Run | Question | Instance and why it is enough |
|---|---|---|
| `gate` | What can run unreviewed, what does a critical risk lead to, and does a worse history ever loosen the gate? | all 128 switch settings; calls of every keyword class and side-effect kind, including those that compete for a kind; with and without an institution; 13 contexts, which take each of the five scores to both sides of each of its thresholds, alone and together, and every pair of them as a step |
| `governance` | What may come apart between queue, tables and log, and can every effect be explained afterwards? | two sessions: one call with two requests (so that a retry after a fault makes a second one), approvals and demands for a plan; and three calls, one the policy may run, one it halts, one only a reviewer can approve, with real and dry approvals. A fault at every write, one crash. One counted effect per call suffices: the property speaks of the first |
| `rollback_aligned` | What does a rollback restore, and where does it write? | two files and one outside, one or two contents, targets in both orders, repeated and absent |
| `subprocess` | Does `execute` end soon once it must, truly, without a child left, and with an answer the gate reckons with? | every kind of command; the state space is finite and complete |
| `relation_history` | Is a bad history ever washed out? | two results held at once, so that the update of one falls between the evaluation and the update of the other; two stored updates, which Phase 2 records close to the limit make enough to reach it; both stores, one other relation type. The two slots differ in name alone and the run has no liveness property, so their permutations are a sound symmetry |
| `change_evaluation` | Does the outcome honour the classifier and the log? | coverage on both sides of the three bars, every kind of damage, every threshold of the history, three institutions |
| `document_chain` | Do many small steps add up to what no single diff would be allowed to do, and does a misreport pass? | four versions of a paper, six of a JSON object and five of a Python file, any chain over them from the first of each (the reachable chains are finite); every node kind appears; four contracts: everything protected, the elements the documents drift in, types and signatures alone, keys and names alone; a generator that claims nothing or everything. Each way out that `Keeps` allows is taken in the run: deletion and re-addition with another type or signature, methods gone with their class, a turned type |
| `institution` | Does a decision stand, and what must be there for an acceptance? | every handoff; three rules that overlap and disagree, two registrations (`MaxRules`), so that the order matters; reviewers ordered and not; every reversibility |

`CHECK_DEADLOCK FALSE` is set where the system really stops: when every call has been
answered and the bounds on requests, runs and crashes are used up (`governance*`), and when
`execute` has returned (`subprocess`). The bounds are `MaxRequests`, `MaxRuns`, `MaxCrashes`,
`Sessions`, `Slots`, `MaxUpdates` and `MaxRules`; all stand in guards and none in the proofs,
which hold for every value.

Four runs show that the code does not do what a document says of it; each finding in
`PROJECT.json` quotes the line.

- `governance_rejected`: an approval still executes after another reviewer's rejection,
  because `execute_after_review_decision` looks at the decision object alone.
- `rollback_restores`: snapshots are paired with targets by position although missing
  targets were skipped, so a validated plan restores one file over another.
- `relation_old_key`: a record of another relation type deletes the pair's Phase 2 history.
- `chain_forbidden`: a changed signature is applied under a contract that forbids "function
  signature change", because that phrase and its synonyms are in no text the engines write.

Divergences met on the way that have no run:

- *Gate and runtime.* The runtime's protected-resource block (docs/30:1056) never applies to
  a gated call, because the contract builder leaves `protected_resources` empty; docs/30:942-944 gives
  `git_patch` a medium default risk, the code scores it low with a target.
- *Reviews.* `require_rollback_plan` leaves the request pending and a later approval needs no
  plan; nothing takes a snapshot before a gated write (docs/30:1121); docs/30 (9.6) asks for
  single transactions over request and event, which the code writes separately.
- *Relations.* docs/11 (16.2) raises the review threshold by stored counters in ways
  `update.py` does not.
- *Runtime and rollback.* A subprocess that ended by itself after the deadline was noticed is
  still reported `timed_out`; `validate_plan` can turn a plan that `create_plan` found
  incomplete into a validated one.
- *Misreports.* Of citations claimed unchanged only a lost one is a mismatch
  (`markdown_diff.py:451-458`); one that is added under the claim passes, and so do functions
  that come or go under the claim that signatures are unchanged.
- *Diffs.* A JSON boolean that becomes an integer is no type change (`json_diff.py:7` and
  docs/phase1_implementation_plan.md:165 promise type changes), nor is any node written when
  it keeps its value (`true` and `1`); keys below a path that changed its type, or below a
  deleted array item, are not reported as deleted keys; a second definition of a term that is
  defined already is no node; deleting a whole public class records no protected change of
  the public API.
- *Phrases.* Besides "function signature change", the phrases "numeric change" (other than
  in JSON) and "citation removal" match no text when forbidden, and "sentence restructuring"
  and "redundancy removal" match none when allowed.
- *Institution.* `decide` reads neither the gate's action nor `requires_human_review`,
  `requires_rollback_plan`, `evidence_required`, `minimum_authority_level`, `valid_until` or
  `can_override_halt`; and without any reviewer it accepts a reversible, unreviewed
  consequence that it refuses to a reviewer whose bounds do not cover it.

### Fairness

Only `SubprocessExecution` states a liveness property (`EndsOnceDue`), under
`WF_vars(Runtime)`: the thread that called `execute` keeps running, every wait of it is
bounded (`communicate` with a timeout), and so one of its steps is always enabled until it
is done. Nothing is assumed of the child, the canceller or the clock; the deadline's passing
and the event's being set are premises of the property. `DueCountsDown` says the same
without fairness: once `execute` must return, at most ten steps of its thread are left
(`StepsLeft`), and what happens around it adds none.

## The proofs

| Module | Invariant | Why the properties alone are not inductive |
|---|---|---|
| `GateEvaluation_proofs` | `gate` is `EvaluateGate` of the present call, policy, institution and context | the properties speak of the last answer, whose inputs have to be tied to it |
| `ExecutionGovernance_proofs` | the type invariant, with: a gate action held is one the gate can give and its line is in the log; decisions held are recorded and logged; requests exist only for calls the gate sends to review; rows and their recorded decisions | an effect is explained by the line and the decision that were in place *before* it, so these have to be carried through every fault and crash |
| `SubprocessExecution_proofs` | each place of the loop knows of the child (none before `Popen`, none killed while waited for, a dead one while its output is drained) and of the reason (`cancelled` or `expired`), and of the call (past the early returns, with a command that may start) | a verdict is given at the end from what was seen in the loop |
| `Rollback_proofs` | a plan has no more snapshots than targets; each of them is of a target that was a file of the workspace, and holds its content from before the plan or is lost; if no target was passed over, the snapshots are the targets one by one | what a rollback writes was copied when the plan was made: both the restore and the confinement speak of contents that failed and torn rollbacks have since overwritten on disk |
| `RelationHistory_proofs` | the type invariant and one record per pair; no rows before the import; while nothing was lost and there is a strike, there is a record and its threshold covers `strikes`; a record of the file without profiles has no damage | the strikes have to be in the record the next update reads, in whichever store and under whichever key, so the key and the store enter the invariant |
| `DocumentChain_proofs` | the result held is of a proposal; until it has an outcome its base is the version in place; the domain stays; what is in place keeps what is protected of the first version, and its difference to it was told. The first part of the module proves the same kind of invariant of `ChangeEvaluation` alone, without documents: the result is `EvaluationOf` the present diff and context, and logged where a log was asked for | the outcome of a proposal is applied to the version in place, so the two have to be tied, and the counts the classifier saw to the documents they were counted in; an outcome is compared with a recommendation that is not kept |
| `InstitutionBridge_proofs` | a decision with a rule is `DecideOn` of the present registry; one without asks for more evidence | the first rule that matches must stay so under every later registration |

`GatePolicy_proofs` has the lemmas on the operators: the ranges of the contract's action and
kind and of the risk level, what each decision returns, what history and institution can
change. Assumptions are the named ones of the modules: types of the constants; for
`RelationHistory`, that old records without profiles have no counters; for `DocumentChain`,
that a diff is finite, that the paths of a JSON text contain their prefixes, with a
container at every strict one, and that a method's class is among the classes of its program. TLC evaluates each of them on the instances of the runs.

The safety theorems are `Spec => []Property` from `Init => IInv`,
`IInv /\ [Next]_vars => IInv'` and `IInv => Property`; the action properties (`HistoryTightens`,
`TrustLossWindow`, `ImportKeeps`, `WorseStaysOut`, `RollbackConfined`, `CountsDown`) follow from the same invariants at both
ends of a step. `LedgerImplemented` shows that every step of the governance machine is a step
of the ledger or leaves it unchanged. `ChainImplementsEvaluation`
shows the same of the chain of documents and the evaluation, so that what is proved
of `ChangeEvaluation` holds for chains. `AnswerForeseen` does the same for the runtime: the
polling loop, whatever the child, the canceller and the clock do, ends in an answer that
`ExecutionGovernance` takes in one step. `UnreviewedKeeps` rests on three facts: a proposal
that is applied has no protected change (the counts the classifier saw are zero, and a
finite set counted zero is empty); a diff without protected change keeps every protected
element, up to what its own nodes show deleted or turned; and keeping is
transitive, over what both halves of the chain have shown (`KeepsTransitive`; a tree needs
the uppermost place of a path that was lost or turned, `FirstLost`). `MisreportStopped` takes
the counts of a settled result back to the nodes they were counted in. `DriftTold` rests on its counterpart for two diffs: a node of the diff from the
first version to a proposal is shown, by the diff to the version in place or by the diff
from there on, at the same place, or for JSON at that path or one above it (`ToldAcross`).
For a path that was lost with a container above it, this is the shortest path at which the
two trees disagree (`ContainersAgree`). `AlignedRestores` and
`WholePlan` need that the last copy to a file is of a snapshot of that file; a snapshot
exists for its own plan only, so a failed rollback before it does no harm.
For `WorseStaysOut` the coverage bar is compared for two diffs by the
products the module uses instead of the code's quotient.

Model-checked only: `EndsOnceDue`, because liveness and `ENABLED` are out of the provers'
reach (`CountsDown` proves its bound; that the thread can always take a step is checked by
TLC), and the four runs that show a violation, which need no proof.

## Not modelled

The command line and the HTTP API call the flow and print, the API's write endpoints are
stubs, and neither keeps state. The adapters read a pull request or a directory. The contract
builder, the intent parser and the generators construct values, which are constants here.
The regular expressions, parsers and keyword lists are taken as what they find. The scores of
preservation, authorization, resonance and semantic delta are computed and read by no
branch; the optional semantic evaluator is not called by the flow. `append_execution_event`,
`save_rollback_plan` and `update_review_request_status` of the store write what nothing
reads. `load_events`, which rejects a log with one torn line, would need the log's bytes.
Several writers of the JSON store are outside its stated contract. The approval chains of
`institution/authority.py` and the lineage records of `accountability.py` are data that
nothing reads.

## Plan

1. Done: the gate, the reviews, the runtime, rollback, the relations and the evaluation of
   changes, with proofs of every safety property the passing runs check.
2. Done: `StructuralDiff` and `DocumentChain`, the chain as a refinement of the evaluation,
   `InstitutionBridge`, with proofs.
3. Done: the answers of the polling loop tied to the runtime of `ExecutionGovernance`.
4. Composition of `ChangeEvaluation` with `RelationHistory`: evaluations read the context that
   updates write, so that the monotonicity of the policy bridge meets the history it causes
   (`BlockedForGood` states one consequence, that bad histories stop both readers).
5. An abstract store of one record per key that both relation stores implement, up to the
   divergence of the old key.
