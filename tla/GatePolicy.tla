------------------------------ MODULE GatePolicy ------------------------------
(***************************************************************************)
(* The pure decisions of the agent execution gate: how a tool call becomes *)
(* a contract, a risk, a synthetic RDE classification and, under a policy  *)
(* configuration, a relation context and an institution overlay, one gate  *)
(* action (agent/tool_contract.py, policy/execution_rules.py,              *)
(* agent/execution_gate.py); and the Phase 1 policy bridge whose history   *)
(* thresholds the gate claims to share (policy/rules.py).                  *)
(*                                                                         *)
(* Scores of the code are floats in [0, 1]; here they are thousandths.     *)
(* A tool call is described by what the regular expressions and keyword    *)
(* lists of the code find in it, never by its text.                        *)
(***************************************************************************)
EXTENDS Integers, Sequences

RiskLevels  == {"low", "medium", "high", "critical"}
NetActions  == {"network", "external_api"}
ActionTypes == {"read", "write", "delete", "execute", "repository_patch", "unknown"}
                 \cup NetActions
\* The ninth kind of the code, "legal_or_compliance_effect", is never inferred.
ExternalKinds == {"none", "read_only_fetch", "state_changing_request", "notification",
                  "publishing", "payment_or_billing", "identity_or_auth",
                  "data_exfiltration_risk", "unknown"}
Classifications == {"preserved", "authorized_deviation", "benign_incidental_drift",
                    "creative_deviation", "suspicious_drift", "critical_corruption"}

FullActions == {"approve", "approve_with_notes"}     \* executed without dry-run
RunActions  == FullActions \cup {"dry_run_only"}
GateActions == RunActions \cup {"human_review", "halt"}

Score    == 0 .. 1000
NoScore  == -1                                        \* an absent optional score
OptScore == Score \cup {NoScore}

RelationContexts == [trust : Score, stability : Score, threshold : Score,
                     reliability : OptScore, fragility : OptScore]

-----------------------------------------------------------------------------
(***************************************************************************)
(* agent/tool_contract.py.  call.words is the set of keyword classes found *)
(* in "tool_name action_name"; the first class in the code's order wins.   *)
(***************************************************************************)
ActionOrder == <<"read", "network", "external_api", "write", "delete", "execute",
                 "repository_patch">>

RollbackStrategy(action) ==
  CASE action \in {"write", "delete"}         -> "file_snapshot"
    [] action \in {"external_api", "execute"} -> "manual"
    [] action = "repository_patch"            -> "git_patch_reverse"
    [] OTHER                                  -> "none"

\* The first element of the sequence order that belongs to found, or default.
FirstFound(order, found, default) ==
  IF \A i \in DOMAIN order : order[i] \notin found THEN default
  ELSE order[CHOOSE i \in DOMAIN order :
               order[i] \in found /\ \A j \in DOMAIN order : j < i => order[j] \notin found]

KindOrder == <<"payment_or_billing", "identity_or_auth", "data_exfiltration_risk",
               "publishing", "notification">>

\* Mutant: without a hint, the method of the request is taken for its kind.
KindFromMethod(call, action) ==
  IF action \in NetActions THEN FirstFound(KindOrder, call.hints, call.method) ELSE "none"

\* call.hints: the kinds whose keywords occur in the arguments, "state_changing_request"
\* for a state-changing verb among them; call.method: "none", "read" or "write".
ExternalSideEffectKind(call, action) ==
  LET fallback ==
        IF call.method = "write" \/ "state_changing_request" \in call.hints
          THEN "state_changing_request"
        ELSE IF call.method = "read" \/ call.url THEN "read_only_fetch"
        ELSE "unknown"
  IN  IF action \in NetActions THEN FirstFound(KindOrder, call.hints, fallback)
      ELSE "none"

\* protectedResources is the contract's own protected list, which the builder leaves empty.
BuildContract(call) ==
  LET action == FirstFound(ActionOrder, call.words, "unknown")
  IN  [action             |-> action,
       targets            |-> call.targets,
       strategy           |-> RollbackStrategy(action),
       networkAllowed     |-> action \in NetActions,
       protectedResources |-> FALSE,
       kind               |-> ExternalSideEffectKind(call, action)]

Risk(level, external, protected, rollback, unknown) ==
  [level |-> level, external |-> external, protected |-> protected,
   rollback |-> rollback, unknown |-> unknown]

\* A read-only fetch: medium when its host is among the call's own allowed domains.
ScoreExternal(kind, call) ==
  IF kind \in {"data_exfiltration_risk", "payment_or_billing"}
    THEN Risk("critical", TRUE, FALSE, FALSE, FALSE)
  ELSE IF kind = "read_only_fetch" /\ call.url /\ call.domainListed
    THEN Risk("medium", TRUE, FALSE, FALSE, FALSE)
  ELSE Risk("high", TRUE, FALSE, FALSE, FALSE)

ScoreToolCallRisk(contract, call) ==
  LET external  == contract.action \in NetActions
      snapshot  == contract.strategy = "file_snapshot"
      protected == contract.targets /\ call.protectedTarget
      unknown   == /\ ~contract.targets
                   /\ contract.action \in {"write", "delete", "execute", "unknown"}
  IN  IF call.secret THEN Risk("critical", external, protected, FALSE, unknown)
      ELSE IF contract.action = "execute"
        THEN IF call.criticalShell
               THEN Risk("critical", FALSE, protected, FALSE, unknown)
               ELSE Risk("high", FALSE, protected, contract.strategy # "none", unknown)
      ELSE IF unknown   THEN Risk("high", external, FALSE, FALSE, TRUE)
      ELSE IF protected THEN Risk("high", external, TRUE, snapshot, FALSE)
      ELSE IF external  THEN ScoreExternal(contract.kind, call)
      ELSE IF contract.action = "delete" THEN Risk("high", FALSE, FALSE, snapshot, FALSE)
      ELSE IF contract.action = "write"  THEN Risk("medium", FALSE, FALSE, snapshot, FALSE)
      ELSE Risk("low", FALSE, FALSE, TRUE, FALSE)

-----------------------------------------------------------------------------
(***************************************************************************)
(* policy/execution_rules.py                                               *)
(***************************************************************************)
SyntheticRde(risk) ==
  CASE risk.level = "critical" -> "critical_corruption"
    [] risk.level = "high"     -> "suspicious_drift"
    [] risk.level = "medium"   -> "authorized_deviation"
    [] OTHER                   -> "preserved"

HaltKinds   == {"payment_or_billing", "data_exfiltration_risk"}
ReviewKinds == {"state_changing_request", "notification", "publishing",
                "identity_or_auth", "unknown"}

Trusted(rc, cfg) == rc.trust >= cfg.minTrust /\ rc.stability >= cfg.minStability

DecideHigh(risk, cfg) ==
  IF risk.rollback /\ ~risk.external /\ cfg.dryRunHigh THEN "dry_run_only"
  ELSE "human_review"

\* Mutant: trust and stability are not looked at.
DecideMediumTrusting(rc, cfg) ==
  IF cfg.allowMedium THEN "approve_with_notes" ELSE "dry_run_only"

DecideMedium(rc, cfg) ==
  IF ~Trusted(rc, cfg) THEN "human_review"
  ELSE IF cfg.allowMedium THEN "approve_with_notes" ELSE "dry_run_only"

\* Mutant: the two approvals are swapped.
DecideLowSwapped(rc, cfg) ==
  IF ~cfg.allowLow THEN "human_review"
  ELSE IF Trusted(rc, cfg) THEN "approve_with_notes" ELSE "approve"

DecideLow(rc, cfg) ==
  IF ~cfg.allowLow THEN "human_review"
  ELSE IF Trusted(rc, cfg) THEN "approve" ELSE "approve_with_notes"

\* The early returns of the code, in its order; class is the synthetic RDE classification.
DecideExecutionPolicyAction(risk, class, kind, rc, cfg) ==
  IF risk.level = "critical" /\ ~cfg.haltCritical THEN "human_review"
  ELSE IF class = "critical_corruption" \/ risk.level = "critical" THEN "halt"
  ELSE IF risk.unknown THEN "human_review"
  ELSE IF cfg.reviewProtected /\ risk.protected THEN "human_review"
  ELSE IF kind \in HaltKinds THEN "halt"
  ELSE IF kind \in ReviewKinds THEN "human_review"
  ELSE IF cfg.reviewExternal /\ risk.external THEN "human_review"
  ELSE IF risk.level = "high"   THEN DecideHigh(risk, cfg)
  ELSE IF risk.level = "medium" THEN DecideMedium(rc, cfg)
  ELSE DecideLow(rc, cfg)

\* Mutant: one threshold for every action.
ApproveThresholdUnified == 700

\* The threshold that escalates approve, and the one that escalates the other two actions.
ApproveThreshold          == 500
ApproveWithNotesThreshold == 700

\* Mutant: a robust document is sent to review instead of a fragile one.
ApplyRelationHistoryInverted(action, rc) ==
  LET unreliable == rc.reliability # NoScore /\ rc.reliability <= 300
      robust     == rc.fragility # NoScore /\ rc.fragility < 700
  IN  IF action \in RunActions /\ (unreliable \/ robust) THEN "human_review" ELSE action

ApplyRelationHistory(action, rc) ==
  LET unreliable == rc.reliability # NoScore /\ rc.reliability <= 300
      reviewDue  == \/ action = "approve" /\ rc.threshold >= ApproveThreshold
                    \/ /\ action \in {"approve_with_notes", "dry_run_only"}
                       /\ rc.threshold >= ApproveWithNotesThreshold
      fragile    == rc.fragility # NoScore /\ rc.fragility >= 700
  IN  IF action \in RunActions /\ (unreliable \/ reviewDue \/ fragile)
        THEN "human_review" ELSE action

\* An absent reliability (no profile yet) weighs as a perfect one, an absent fragility as none.
Reliability(c) == IF c.reliability = NoScore THEN 1000 ELSE c.reliability
Fragility(c)   == IF c.fragility = NoScore THEN 0 ELSE c.fragility

WorseHistory(old, new) ==
  /\ new.threshold >= old.threshold
  /\ Reliability(new) <= Reliability(old)
  /\ Fragility(new) >= Fragility(old)

(***************************************************************************)
(* policy/rules.py: decide_action, with review the contract's review       *)
(* policy already mapped to policy actions.                                *)
(***************************************************************************)
AdjustForHistory(action, rc) ==
  IF rc.reliability # NoScore /\ rc.reliability <= 300 /\ action \in FullActions
    THEN "human_review"
  ELSE IF action = "approve" /\ rc.threshold >= 500 THEN "human_review"
  ELSE IF action = "approve_with_notes" /\ rc.threshold >= ApproveWithNotesThreshold
    THEN "human_review"
  ELSE IF rc.fragility # NoScore /\ rc.fragility >= 700 /\ action \in FullActions
    THEN "human_review"
  ELSE action

\* Mutant: a suspicious drift is decided as an authorized deviation is.
DecideActionLenient(class, review, rc) ==
  CASE class = "critical_corruption" -> "halt"
    [] class \in {"suspicious_drift", "creative_deviation"}
         -> AdjustForHistory(review["authorized_deviation"], rc)
    [] OTHER -> AdjustForHistory(review[class], rc)

DecideAction(class, review, rc) ==
  CASE class = "critical_corruption" -> "halt"
    [] class = "suspicious_drift"    -> review[class]
    [] class = "creative_deviation"  -> AdjustForHistory(review["authorized_deviation"], rc)
    [] OTHER                         -> AdjustForHistory(review[class], rc)

-----------------------------------------------------------------------------
(***************************************************************************)
(* The institution overlay.  inst.pop is "unused" unless a verifier and a  *)
(* subject are given; inst.rules is the registry in registration order.    *)
(***************************************************************************)
Matching(rules, action, kind) ==
  {i \in DOMAIN rules : action \in rules[i].actions /\ kind \in rules[i].kinds}

\* The first rule that matches, alone in a sequence, or no rule.
FirstMatchingRule(rules, action, kind) ==
  LET matching == Matching(rules, action, kind)
  IN  IF matching = {} THEN <<>>
      ELSE <<rules[CHOOSE i \in matching : \A j \in matching : i <= j]>>

\* Mutant: the proof of personhood is not consulted.
ApplyInstitutionWithoutPop(action, level, contract, inst) ==
  LET rules == FirstMatchingRule(inst.rules, contract.action, contract.kind)
  IN  IF rules # <<>> /\ Head(rules).requiresReview /\ action \in RunActions
        THEN "human_review" ELSE action

ApplyInstitution(action, level, contract, inst) ==
  LET rules == FirstMatchingRule(inst.rules, contract.action, contract.kind)
  IN  IF inst.pop = "invalid" /\ level = "critical" THEN "halt"
      ELSE IF rules # <<>> /\ Head(rules).requiresReview /\ action \in RunActions
        THEN "human_review"
      ELSE action

(***************************************************************************)
(* agent/execution_gate.py: the denylist and the host allowlist come first *)
(* and halt; then risk, RDE, policy, history and institution in turn.      *)
(***************************************************************************)
NetworkAllowlistAllows(contract, call, cfg) ==
  \/ ~cfg.hostAllowlist
  \/ contract.action \notin NetActions
  \/ call.url /\ call.hostListed

EvaluateGate(call, rc, cfg, inst) ==
  LET contract == BuildContract(call)
      risk     == ScoreToolCallRisk(contract, call)
      decided  == DecideExecutionPolicyAction(risk, SyntheticRde(risk), contract.kind,
                                              rc, cfg)
      adjusted == ApplyRelationHistory(decided, rc)
  IN  IF call.denied \/ ~NetworkAllowlistAllows(contract, call, cfg)
        THEN "halt"
        ELSE ApplyInstitution(adjusted, risk.level, contract, inst)

\* post_review_execution_mode: what a reviewer's decision allows.
PostReviewExecutionMode(decision) ==
  CASE decision = "approve"         -> "full_execute"
    [] decision = "approve_dry_run" -> "dry_run_only"
    [] decision = "reject"          -> "denied"
    [] OTHER                        -> "pending_more"
=============================================================================
