--------------------------- MODULE ChangeEvaluation ---------------------------
(***************************************************************************)
(* The evaluation of a generated change (runtime/_flow.py): its structural *)
(* diff is classified (rde/classifier.py), the policy bridge turns the     *)
(* classification into an action under the contract's review policy and    *)
(* the relation history (policy/rules.py), the institution may escalate it *)
(* (policy/institution_bridge.py), the evaluation is appended to the audit *)
(* log, and its action becomes an outcome (runtime/modification_control).  *)
(* A generator may submit again after any outcome, and the history moves.  *)
(*                                                                         *)
(* A diff is what classify counts in one: changed nodes; signals, nodes    *)
(* and semantic cues alike, that match an allowed phrase, none, or a       *)
(* forbidden one; protected changes by risk hint; schema violations; self  *)
(* report mismatches.                                                      *)
(***************************************************************************)
EXTENDS GatePolicy

CONSTANTS Diffs, Contracts, Contexts,
          Institutions   \* as in GatePolicy, with the action and the kind the caller declares

DiffType ==
  [nodes : Nat, allowed : Nat, other : Nat, forbidden : Nat,
   critical : Nat, high : Nat, lesser : Nat,
   schema : Nat, mismatches : Nat, criticalMismatches : Nat]

PolicyActions == FullActions \cup {"human_review", "request_revision", "halt"}

\* The three reviews of the contract's policy that are consulted; its fields' types.
ReviewPolicies ==
  [{"preserved", "authorized_deviation", "suspicious_drift"} -> PolicyActions \ {"halt"}]

ASSUME DiffsAssumption    == Diffs \subseteq DiffType
ASSUME ContextsAssumption == Contexts \subseteq RelationContexts
ASSUME ContractsAssumption ==
  \A c \in Contracts :
    /\ c.review \in ReviewPolicies
    /\ c.review["suspicious_drift"] \in {"human_review", "request_revision"}
    /\ \A class \in {"preserved", "authorized_deviation"} :
         c.review[class] # "request_revision"

VARIABLES
  contract, inst,
  diff, rc,     \* the change last evaluated, and the relation context it was given
  asked,        \* an audit log was given
  logged,       \* the log has the event of that evaluation
  result,       \* the result returned, or NoResult
  outcome       \* the ModificationOutcome of the result, or "none"

vars == <<contract, inst, diff, rc, asked, logged, result, outcome>>

-----------------------------------------------------------------------------
(* rde/scoring.py and rde/classifier.py                                    *)

Protected(d) == d.critical + d.high + d.lesser

AtMostOne(n) == IF n > 1000 THEN 1000 ELSE n

ScoreStructuralRisk(d) ==
  AtMostOne(350 * (d.critical + d.high) + 300 * d.schema + 350 * d.criticalMismatches)

ScoreSelfReportMismatch(d) == AtMostOne(400 * d.mismatches)

ComputeRisk(score) ==
  IF score >= 700 THEN "critical" ELSE IF score >= 400 THEN "high"
  ELSE IF score >= 200 THEN "medium" ELSE "low"

MinAllowedMatchScore(mode) ==
  CASE mode \in {"preservation", "execution"} -> 300
    [] mode \in {"research", "creative"}      -> 200
    [] OTHER                                  -> 250

\* match_allowed_delta, where no signal is protected or forbidden: the share that matches.
MatchesAllowed(d, c) ==
  1000 * d.allowed >= MinAllowedMatchScore(c.mode) * (d.allowed + d.other)

Verdict(class, level, required) == [class |-> class, level |-> level, required |-> required]

\* Mutant: what the contract forbids is looked at before what it protects.
ClassifyForbiddenFirst(d, c) ==
  IF d.forbidden > 0
    THEN Verdict("suspicious_drift", ComputeRisk(ScoreStructuralRisk(d)), "human_review")
  ELSE IF d.critical > 0 \/ d.schema > 0 \/ d.criticalMismatches > 0
    THEN Verdict("critical_corruption", "critical", "halt")
  ELSE IF Protected(d) > 0 \/ ScoreSelfReportMismatch(d) >= 400
    THEN Verdict("suspicious_drift", ComputeRisk(ScoreStructuralRisk(d)), "human_review")
  ELSE IF d.nodes = 0 THEN Verdict("preserved", "low", "approve")
  ELSE IF c.allows /\ MatchesAllowed(d, c)
    THEN Verdict("authorized_deviation", "low", "approve_with_notes")
  ELSE Verdict("suspicious_drift", "medium", "human_review")

Classify(d, c) ==
  IF d.critical > 0 \/ d.schema > 0 \/ d.criticalMismatches > 0
    THEN Verdict("critical_corruption", "critical", "halt")
  ELSE IF \/ d.forbidden > 0
          \/ Protected(d) > 0
          \/ ScoreSelfReportMismatch(d) >= 400
    THEN Verdict("suspicious_drift", ComputeRisk(ScoreStructuralRisk(d)), "human_review")
  ELSE IF d.nodes = 0 THEN Verdict("preserved", "low", "approve")
  ELSE IF c.allows /\ MatchesAllowed(d, c)
    THEN Verdict("authorized_deviation", "low", "approve_with_notes")
  ELSE Verdict("suspicious_drift", "medium", "human_review")

-----------------------------------------------------------------------------
(* policy/bridge.py, policy/institution_bridge.py, modification_control.py *)

DecidePolicyWithInstitution(v, c, h, i) ==
  LET base  == DecideAction(v.class, c.review, h)
      rules == FirstMatchingRule(i.rules, i.action, i.kind)
  IN  IF i.pop = "invalid" /\ v.level = "critical" THEN "halt"
      ELSE IF rules # <<>> /\ Head(rules).requiresReview /\ base \in FullActions
        THEN "human_review"
      ELSE base

\* Mutant: a requested revision is not among the actions that wait.
ApplyOrHaltUnrevised(action) ==
  CASE action = "halt"         -> "halted"
    [] action = "human_review" -> "pending_review"
    [] action \in FullActions  -> "applied"
    [] OTHER                   -> "rejected"

ApplyOrHalt(action) ==
  CASE action = "halt"                                -> "halted"
    [] action \in {"human_review", "request_revision"} -> "pending_review"
    [] action \in FullActions                         -> "applied"
    [] OTHER                                          -> "rejected"

-----------------------------------------------------------------------------
NoResult == [required |-> "none", action |-> "none"]

\* evaluate_rde and the policy: everything up to the audit event.
EvaluationOf(d, h) ==
  LET v == Classify(d, contract)
  IN  [required |-> v.required,
       action   |-> DecidePolicyWithInstitution(v, contract, h, inst)]

Init ==
  /\ contract \in Contracts /\ inst \in Institutions
  /\ diff \in Diffs /\ rc \in Contexts
  /\ asked = FALSE /\ logged = FALSE
  /\ result = NoResult /\ outcome = "none"

\* run_phase1_evaluation, or its variant for the diff of an executed tool call.
Evaluate(d, h, log) ==
  /\ diff' = d /\ rc' = h
  /\ result' = EvaluationOf(d, h)
  /\ asked' = log /\ logged' = log
  /\ outcome' = "none"
  /\ UNCHANGED <<contract, inst>>

\* Mutant: the result is returned although its event could not be appended.
EvaluateFailsReturning(d, h, log) ==
  /\ diff' = d /\ rc' = h
  /\ result' = EvaluationOf(d, h)
  /\ asked' = log /\ logged' = FALSE
  /\ outcome' = "none"
  /\ UNCHANGED <<contract, inst>>

\* The same, raising: in the diff (nothing logged), or at the log, before or after the
\* line is written.
EvaluateFails(d, h, log) ==
  /\ diff' = d /\ rc' = h
  /\ result' = NoResult
  /\ asked' = log /\ logged' \in {FALSE, log}
  /\ outcome' = "none"
  /\ UNCHANGED <<contract, inst>>

Apply ==
  /\ result # NoResult /\ outcome = "none"
  /\ outcome' = ApplyOrHalt(result.action)
  /\ UNCHANGED <<contract, inst, diff, rc, asked, logged, result>>

Next ==
  \/ \E d \in Diffs, h \in Contexts, log \in BOOLEAN :
       Evaluate(d, h, log) \/ EvaluateFails(d, h, log)
  \/ Apply

Spec == Init /\ [][Next]_vars

-----------------------------------------------------------------------------
Results == [required : {"approve", "approve_with_notes", "human_review", "halt"},
            action : PolicyActions]

\* The last alternative of apply_or_halt, an unknown action, is never reached.
TypeOK ==
  /\ contract \in Contracts /\ inst \in Institutions
  /\ diff \in Diffs /\ rc \in Contexts
  /\ asked \in BOOLEAN /\ logged \in BOOLEAN
  /\ result \in Results \cup {NoResult}
  /\ outcome \in {"none", "applied", "pending_review", "halted"}

\* The classifier recommends an action and the policy bridge decides one from another
\* table: the outcome is never more permissive than the recommendation, whatever the
\* contract's review policy, the history and the institution.
RequiredActionHonoured ==
  outcome # "none" =>
    /\ result.required = "halt" => outcome = "halted"
    /\ result.required = "human_review" => outcome # "applied"

\* Where a log is kept, no change gets an outcome that the log cannot explain.
OutcomeIsAudited == outcome # "none" /\ asked => logged

\* More of what is forbidden, protected, invalid or misreported, and no better coverage.
WorseDiff(old, new) ==
  /\ (old.nodes = 0) = (new.nodes = 0)
  /\ new.allowed <= old.allowed /\ new.other >= old.other
  /\ new.forbidden >= old.forbidden
  /\ new.critical >= old.critical /\ new.high >= old.high /\ new.lesser >= old.lesser
  /\ new.schema >= old.schema /\ new.mismatches >= old.mismatches
  /\ new.criticalMismatches >= old.criticalMismatches

Severity(action) ==
  CASE action = "halt" -> 2
    [] action \in {"human_review", "request_revision"} -> 1
    [] OTHER -> 0

\* A generator never gains by resubmitting a worse change, nor by a worse history: under
\* one contract a worse diff and a worse context are never decided more permissively.
WorseNeverLoosens ==
  [][ /\ result # NoResult /\ result' # NoResult
      /\ WorseDiff(diff, diff') /\ WorseHistory(rc, rc')
      => Severity(result'.action) >= Severity(result.action) ]_vars
================================================================================
