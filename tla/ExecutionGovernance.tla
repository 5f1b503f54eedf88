------------------------- MODULE ExecutionGovernance -------------------------
(***************************************************************************)
(* The governance of tool calls: the execution gate, the human review      *)
(* workflow with its in-memory queue, its SQLite rows and its audit log,   *)
(* and the safe runtime that touches the workspace                         *)
(* (agent/execution_gate.py, review/workflow.py, relation/sqlite_store.py, *)
(* audit/log.py, runtime/safe_execution.py).                               *)
(*                                                                         *)
(* An orchestrator drives each call through evaluate, enforce, review and  *)
(* execute_after_review_decision; it executes after review only with a     *)
(* decision whose submit_decision returned.  Each library function is one  *)
(* action, with a disjunct for every place where it may raise half-way;    *)
(* the process may crash between any two of them and loses its memory,     *)
(* while the database, the log and the workspace survive.                  *)
(***************************************************************************)
EXTENDS GatePolicy, SubprocessResults

CONSTANTS Calls,             \* tool calls
          Profile,           \* [Calls -> what the gate's detectors see in the call]
          Configs,           \* policy configurations an evaluation may be given
          Institution,       \* the institution overlay
          Contexts,          \* relation contexts the store may hold at an evaluation
          Reviewers,         \* human reviewers
          DecisionKinds,     \* the kinds of decision they take
          SubprocessEnabled, \* SafeExecutionRuntime.allow_subprocess_execution
          Allowlisted,       \* calls whose command passes subprocess_allowlist
          Escaping,          \* calls whose path resolves outside the workspace
          MaxRequests,       \* bound: review requests ever created per call
          MaxRuns,           \* bound: counted executions per call
          MaxCrashes,        \* bound: process crashes
          Sessions           \* bound: the calls of one behaviour, the requests it makes for
                             \* each, and the kinds of decision taken on them

ReviewerDecisionKinds ==
  {"approve", "approve_dry_run", "reject", "request_revision", "require_rollback_plan"}

ASSUME KindsAssumption  == DecisionKinds \subseteq ReviewerDecisionKinds
ASSUME BoundsAssumption == MaxRequests \in Nat /\ MaxRuns \in Nat /\ MaxCrashes \in Nat
ASSUME SessionsAssumption ==
  Sessions \subseteq [calls : SUBSET Calls, requests : 0 .. MaxRequests,
                      kinds : SUBSET DecisionKinds]

\* A request is the n-th one made for a call; a decision is one reviewer's of one kind.
Requests  == Calls \X (1 .. MaxRequests)
Decisions == Reviewers \X DecisionKinds
RequestsOf(c) == {r \in Requests : r[1] = c}

Statuses == {"pending", "approved", "rejected", "revision_requested"}
Absent   == "absent"

VARIABLES
  gate,          \* gate action the orchestrator holds for a call; "none", "closed" when used
  queue,         \* HumanReviewWorkflow._by_id: status of each request in memory
  rows,          \* review_requests: status of each row
  recorded,      \* review_decisions: <<request, decision>> rows
  held,          \* <<request, decision>> whose submit_decision returned to the orchestrator
  effects,       \* executions that may have touched the workspace, per call
  logGates,      \* audit log: calls with an execution_gate_evaluated line
  logRequests,   \* audit log: requests with a human_review_requested line
  logDecisions,  \* audit log: <<request, decision>> with a human_review_decided line
  raised,        \* requests whose latest workflow call raised (history)
  crashes,       \* process crashes so far
  session         \* the bounds of this behaviour

memory  == <<gate, queue, held, raised>>
durable == <<rows, recorded, effects, logGates, logRequests, logDecisions>>
vars    == <<memory, durable, crashes, session>>

TypeOK ==
  /\ gate \in [Calls -> GateActions \cup {"none", "closed"}]
  /\ queue \in [Requests -> Statuses \cup {Absent}]
  /\ rows \in [Requests -> Statuses \cup {Absent}]
  /\ recorded \subseteq Requests \X Decisions
  /\ held \subseteq Requests \X Decisions
  /\ effects \in [Calls -> Nat]
  /\ logGates \subseteq Calls
  /\ logRequests \subseteq Requests
  /\ logDecisions \subseteq Requests \X Decisions
  /\ raised \subseteq Requests
  /\ crashes \in Nat /\ session \in Sessions

Init ==
  /\ gate = [c \in Calls |-> "none"]
  /\ queue = [r \in Requests |-> Absent]
  /\ rows = [r \in Requests |-> Absent]
  /\ recorded = {} /\ held = {} /\ raised = {}
  /\ effects = [c \in Calls |-> 0]
  /\ logGates = {} /\ logRequests = {} /\ logDecisions = {}
  /\ crashes = 0 /\ session \in Sessions

-----------------------------------------------------------------------------
(***************************************************************************)
(* append_audit_event: it returns with the line written, or it raises an   *)
(* AuditError with the line lost or (an error on close) already written.   *)
(***************************************************************************)
AppendOutcomes(lines, line, ok) ==
  IF ok THEN {lines \cup {line}} ELSE {lines, lines \cup {line}}

GateActionsOf(c) ==
  {EvaluateGate(Profile[c], rc, cfg, Institution) : rc \in Contexts, cfg \in Configs}

\* evaluate_before_execution: the audit line is written before the decision is returned.
Evaluate(c, ok) ==
  /\ c \in session.calls /\ gate[c] = "none"
  /\ \E action \in GateActionsOf(c) :
       gate' = IF ok THEN [gate EXCEPT ![c] = action] ELSE gate
  /\ logGates' \in AppendOutcomes(logGates, c, ok)
  /\ UNCHANGED <<queue, rows, recorded, held, effects, logRequests, logDecisions,
                 raised, crashes, session>>

(***************************************************************************)
(* SafeExecutionRuntime.execute: the statuses it may return for a call,    *)
(* with "raised" for an exception out of it, and whether the workspace may *)
(* have been touched.  The gate passes no cancellation event.              *)
(***************************************************************************)
FileOutcomes(dryRun) ==
  IF dryRun THEN Refused("dry_run_completed")
  ELSE {Outcome("completed", TRUE), Outcome("raised", TRUE), Outcome("raised", FALSE)}

RuntimeOutcomes(c, dryRun) ==
  LET contract == BuildContract(Profile[c])
  IN  IF /\ contract.protectedResources /\ Profile[c].protectedTarget
         /\ contract.action \in {"write", "delete", "execute"}
        THEN Refused("blocked")
      ELSE IF contract.action \in NetActions /\ ~contract.networkAllowed
        THEN Refused("blocked")
      ELSE IF contract.action = "execute"
        THEN SubprocessOutcomes(dryRun, SubprocessEnabled, c \in Allowlisted)
      ELSE IF c \in Escaping THEN Refused("blocked")
      ELSE IF contract.action = "read"
        THEN Refused("completed") \cup Refused("failed") \cup Refused("raised")
      ELSE IF contract.action \in {"write", "delete"} THEN FileOutcomes(dryRun)
      ELSE Refused("not_executed")

\* One execution: counted when it may have touched the workspace.
Run(c, outcome) ==
  IF outcome.touched
    THEN /\ effects[c] < MaxRuns
         /\ effects' = [effects EXCEPT ![c] = @ + 1]
    ELSE effects' = effects

-----------------------------------------------------------------------------
(* enforce_execution_decision *)

EnforceHalt(c) ==
  /\ gate[c] = "halt"
  /\ gate' = [gate EXCEPT ![c] = "closed"]
  /\ UNCHANGED <<queue, held, raised, durable, crashes, session>>

\* Mutant: halted calls fall through to the runtime.
EnforceRunUnlessReview(c) ==
  /\ gate[c] \in RunActions \cup {"halt"}
  /\ \E outcome \in RuntimeOutcomes(c, gate[c] = "dry_run_only") :
       /\ Run(c, outcome)
       /\ gate' = [gate EXCEPT ![c] = IF outcome.status = "raised" THEN @ ELSE "closed"]
  /\ UNCHANGED <<queue, rows, recorded, held, logGates, logRequests, logDecisions,
                 raised, crashes, session>>

\* The runtime gets no rollback plan on this path; if it raises, the orchestrator still
\* holds the decision and may enforce it again.
EnforceRun(c) ==
  /\ gate[c] \in RunActions
  /\ \E outcome \in RuntimeOutcomes(c, gate[c] = "dry_run_only") :
       /\ Run(c, outcome)
       /\ gate' = [gate EXCEPT ![c] = IF outcome.status = "raised" THEN @ ELSE "closed"]
  /\ UNCHANGED <<queue, rows, recorded, held, logGates, logRequests, logDecisions,
                 raised, crashes, session>>

Fresh(r) == queue[r] = Absent /\ rows[r] = Absent

\* The request made next for a call: ids are new at every attempt.
NextRequest(c, r) ==
  /\ r \in RequestsOf(c) /\ r[2] <= session.requests /\ Fresh(r)
  /\ \A s \in RequestsOf(c) : s[2] < r[2] => ~Fresh(s)

\* Mutant: the request enters the queue last, so a fault leaves a row without it.
QueueIfReturned(r, fault) ==
  IF fault = "none" THEN [queue EXCEPT ![r] = "pending"] ELSE queue

QueueAfterRequest(r, fault) == [queue EXCEPT ![r] = "pending"]

\* create_request: queue first, then the row, then the audit line; a fault in the store or
\* in the log leaves what came before it in place and raises.
EnforceReview(c, r, fault) ==
  /\ gate[c] = "human_review"
  /\ NextRequest(c, r)
  /\ queue' = QueueAfterRequest(r, fault)
  /\ rows' = IF fault = "store" THEN rows ELSE [rows EXCEPT ![r] = "pending"]
  /\ logRequests' \in IF fault = "store" THEN {logRequests}
                      ELSE AppendOutcomes(logRequests, r, fault = "none")
  /\ gate' = [gate EXCEPT ![c] = IF fault = "none" THEN "closed" ELSE @]
  /\ raised' = IF fault = "none" THEN raised ELSE raised \cup {r}
  /\ UNCHANGED <<recorded, held, effects, logGates, logDecisions, crashes, session>>

-----------------------------------------------------------------------------
(* The review *)

\* Mutant: the decision's own name is taken for the status it does not map.
StatusAfterVerbatim(kind) ==
  CASE kind \in {"approve", "approve_dry_run"} -> "approved"
    [] kind = "reject"                         -> "rejected"
    [] OTHER                                   -> kind

StatusAfter(kind) ==
  CASE kind \in {"approve", "approve_dry_run"} -> "approved"
    [] kind = "reject"                         -> "rejected"
    [] kind = "request_revision"               -> "revision_requested"
    [] OTHER                                   -> "pending"

\* append_review_decision commits the decision row and the new status in one transaction,
\* unless the row is there already (primary key) or the request is not (foreign key).
StoreAccepts(r, d, fault) ==
  /\ fault # "store"
  /\ rows[r] # Absent
  /\ <<r, d>> \notin recorded

\* Mutant: the store's copy of the mapping takes a demand for a plan as a demand to revise.
RowStatusAfterRevising(kind) ==
  CASE kind \in {"approve", "approve_dry_run"} -> "approved"
    [] kind = "reject"                         -> "rejected"
    [] OTHER                                   -> "revision_requested"

\* append_review_decision maps the decision to a status by itself.
RowStatusAfter(kind) ==
  CASE kind \in {"approve", "approve_dry_run"} -> "approved"
    [] kind = "reject"                         -> "rejected"
    [] kind = "request_revision"               -> "revision_requested"
    [] kind = "require_rollback_plan"          -> "pending"
    [] OTHER                                   -> "pending"

\* Mutant: the status is committed on its own, before the decision.
RowsFirst(r, d, stored) ==
  IF rows[r] # Absent THEN [rows EXCEPT ![r] = RowStatusAfter(d[2])] ELSE rows

RowsAfterDecision(r, d, stored) ==
  IF stored THEN [rows EXCEPT ![r] = RowStatusAfter(d[2])] ELSE rows

\* Mutant: the line is written before the transaction.
DecisionLogFirst(r, d, stored, fault) ==
  AppendOutcomes(logDecisions, <<r, d>>, fault # "audit")

DecisionLogOutcomes(r, d, stored, fault) ==
  IF stored THEN AppendOutcomes(logDecisions, <<r, d>>, fault = "none") ELSE {logDecisions}

\* submit_decision: the queue first, whatever the request's status was; then the
\* transaction; then the audit line.  The orchestrator gets the decision if all succeed.
SubmitDecision(r, d, fault) ==
  LET stored   == StoreAccepts(r, d, fault)
      returned == stored /\ fault = "none"
  IN  /\ queue[r] # Absent /\ d[2] \in session.kinds
      /\ queue' = [queue EXCEPT ![r] = StatusAfter(d[2])]
      /\ rows' = RowsAfterDecision(r, d, stored)
      /\ recorded' = IF stored THEN recorded \cup {<<r, d>>} ELSE recorded
      /\ logDecisions' \in DecisionLogOutcomes(r, d, stored, fault)
      /\ held' = IF returned THEN held \cup {<<r, d>>} ELSE held
      /\ raised' = IF returned THEN raised \ {r} ELSE raised \cup {r}
      /\ UNCHANGED <<gate, effects, logGates, logRequests, crashes, session>>

\* Mutant: an approval for a dry run executes for real.
ExecuteAfterReviewForReal(r, d) ==
  /\ <<r, d>> \in held
  /\ PostReviewExecutionMode(d[2]) \in {"full_execute", "dry_run_only"}
  /\ \E outcome \in RuntimeOutcomes(r[1], FALSE) : Run(r[1], outcome)
  /\ UNCHANGED <<memory, rows, recorded, logGates, logRequests, logDecisions, crashes, session>>

\* execute_after_review_decision: it looks at the decision's kind and at nothing else.
ExecuteAfterReview(r, d) ==
  /\ <<r, d>> \in held
  /\ PostReviewExecutionMode(d[2]) \in {"full_execute", "dry_run_only"}
  /\ \E outcome \in RuntimeOutcomes(r[1], PostReviewExecutionMode(d[2]) = "dry_run_only") :
       Run(r[1], outcome)
  /\ UNCHANGED <<memory, rows, recorded, logGates, logRequests, logDecisions, crashes, session>>

\* The process dies: a restarted one has an empty queue and never reloads it from the rows.
Crash ==
  /\ crashes < MaxCrashes
  /\ crashes' = crashes + 1
  /\ gate' = [c \in Calls |-> "none"]
  /\ queue' = [r \in Requests |-> Absent]
  /\ held' = {} /\ raised' = {}
  /\ UNCHANGED <<durable, session>>

Faults == {"none", "store", "audit"}

Next ==
  \/ \E c \in Calls, ok \in BOOLEAN : Evaluate(c, ok)
  \/ \E c \in Calls : EnforceHalt(c)
  \/ \E c \in Calls : EnforceRun(c)
  \/ \E c \in Calls, r \in Requests, fault \in Faults : EnforceReview(c, r, fault)
  \/ \E r \in Requests, d \in Decisions, fault \in Faults : SubmitDecision(r, d, fault)
  \/ \E r \in Requests, d \in Decisions : ExecuteAfterReview(r, d)
  \/ Crash

Spec == Init /\ [][Next]_vars

-----------------------------------------------------------------------------
(***************************************************************************)
(* Properties that hold of the code                                        *)
(***************************************************************************)

\* A call the gate would let run for real, on its own, under some relation context.
AutoApprovable(c) == GateActionsOf(c) \cap FullActions # {}

Approvals(c) ==
  {rd \in recorded : /\ rd[1][1] = c
                     /\ PostReviewExecutionMode(rd[2][2]) = "full_execute"}

\* Whatever raised or crashed in between, a call that touched the workspace left its gate
\* evaluation in the audit log, and unless the policy can approve it by itself, a
\* reviewer's approval of one of its requests in the database and in the log.
EffectHasDurableAuthority ==
  \A c \in Calls : effects[c] > 0 =>
    /\ c \in logGates
    /\ ~AutoApprovable(c) => Approvals(c) \cap logDecisions # {}

\* A call that every relation context halts never reaches a reviewer or the workspace.
HaltIsFinal ==
  \A c \in Calls : GateActionsOf(c) \subseteq {"halt"} =>
    effects[c] = 0 /\ \A r \in RequestsOf(c) : queue[r] = Absent /\ rows[r] = Absent

\* The audit log never tells of a request or a decision the database does not hold, at
\* whatever point create_request or submit_decision raised or the process died.
AuditNeverAheadOfStore ==
  /\ \A r \in logRequests : rows[r] # Absent
  /\ logDecisions \subseteq recorded

\* The queue and the table agree on the status of every request whose latest workflow
\* call returned; only a call that raised (an I/O fault, a decision submitted twice, a
\* request whose row was never written) leaves them apart.
QueueAgreesUnlessRaised ==
  \A r \in Requests : queue[r] # Absent /\ r \notin raised => queue[r] = rows[r]

\* A row nobody can decide any more, because no queue holds its request, is the work of a
\* crash: no fault in create_request or submit_decision orphans a request by itself.
OrphansOnlyAfterCrash ==
  crashes = 0 => \A r \in Requests : rows[r] # Absent => queue[r] # Absent

\* The review tables implement the ledger: whatever raises or crashes around them, and in
\* whatever order the queue, the tables and the log are written, a row and its decision
\* change together, and a decision is recorded once.
Ledger == INSTANCE ReviewLedger WITH status <- rows, decisions <- recorded

ImplementsLedger == Ledger!Spec

-----------------------------------------------------------------------------
(***************************************************************************)
(* What the repository's documents say of the program and the code does    *)
(* not do.                                                                 *)
(***************************************************************************)
Touches(c) == effects'[c] > effects[c]

\* "reject: not executed": no call is executed while one of its requests stands rejected.
RejectedIsNotExecuted ==
  [][ \A c \in Calls : Touches(c) =>
        \A r \in RequestsOf(c) : queue[r] # "rejected" ]_vars
=============================================================================
