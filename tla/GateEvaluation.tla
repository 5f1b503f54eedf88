---------------------------- MODULE GateEvaluation ----------------------------
(***************************************************************************)
(* One tool call in front of the execution gate while the relation history *)
(* behind it moves: evaluate_before_execution reads the relation context   *)
(* afresh at every evaluation, so the same call under the same policy may  *)
(* be answered differently each time.  The relation context is whatever    *)
(* the relation store holds (relation/update.py writes it), hence an       *)
(* arbitrary member of Contexts.                                           *)
(***************************************************************************)
EXTENDS GatePolicy

CONSTANTS Calls,          \* tool calls, as the gate's detectors see them
          Configs,        \* execution policy configurations
          Institutions,   \* institution overlays (registry and PoP verifier)
          Contexts        \* relation contexts the store may hold

ASSUME ContextsAssumption == Contexts \subseteq RelationContexts
ASSUME ConfigsAssumption  == \A g \in Configs : g.minTrust \in Score /\ g.minStability \in Score

VARIABLES call, cfg, inst, rc, gate

vars == <<call, cfg, inst, rc, gate>>

Init ==
  /\ call \in Calls
  /\ cfg \in Configs
  /\ inst \in Institutions
  /\ rc \in Contexts
  /\ gate = EvaluateGate(call, rc, cfg, inst)

\* The history has moved to rc2 and the orchestrator evaluates the call again.
Reevaluate(rc2) ==
  /\ rc' = rc2
  /\ gate' = EvaluateGate(call, rc2, cfg, inst)
  /\ UNCHANGED <<call, cfg, inst>>

Next == \E rc2 \in Contexts : Reevaluate(rc2)

Spec == Init /\ [][Next]_vars

-----------------------------------------------------------------------------
contract == BuildContract(call)
risk     == ScoreToolCallRisk(contract, call)

TypeOK ==
  /\ rc \in Contexts
  /\ gate \in GateActions
  /\ contract.action \in ActionTypes
  /\ contract.kind \in ExternalKinds
  /\ risk.level \in RiskLevels

\* A call is executed for real without a reviewer only when its risk is low or medium,
\* it touches no protected path, and if it leaves the machine it is a fetch of a host
\* the call lists, under a policy that waives external review: no setting of the six
\* switches and two minima of ExecutionPolicyConfig opens any other way.
FullExecutionIsLowStakes ==
  gate \in FullActions =>
    /\ risk.level \in {"low", "medium"}
    /\ risk.level = "medium" => cfg.allowMedium /\ Trusted(rc, cfg)
    /\ ~risk.protected /\ ~risk.unknown
    /\ contract.action \in NetActions =>
         ~cfg.reviewExternal /\ contract.kind = "read_only_fetch" /\ call.domainListed

\* A critical risk is halted, except that a policy which disables halting hands it to a
\* reviewer, and even then not when the institution cannot verify the subject.
CriticalHaltsOrIsReviewed ==
  risk.level = "critical" =>
    \/ gate = "halt"
    \/ gate = "human_review" /\ ~cfg.haltCritical /\ inst.pop # "invalid"

\* The gate's history escalation and the policy bridge's are two copies of the same
\* thresholds (the gate's docstring says so): they agree on both actions they share.
HistoryAgreesWithPolicyBridge ==
  \A action \in FullActions :
    ApplyRelationHistory(action, rc) = AdjustForHistory(action, rc)

Rank(action) ==
  CASE action = "halt"               -> 0
    [] action = "human_review"       -> 1
    [] action = "dry_run_only"       -> 2
    [] action = "approve_with_notes" -> 3
    [] action = "approve"            -> 4

LessTrust(old, new) == new.trust <= old.trust /\ new.stability <= old.stability

\* At unchanged trust and stability, a worse history (higher review threshold, less
\* reliable generator, more fragile document) never makes the gate more permissive.
HistoryNeverLoosens ==
  [][ /\ rc'.trust = rc.trust /\ rc'.stability = rc.stability
      /\ WorseHistory(rc, rc')
      => Rank(gate') <= Rank(gate) ]_vars

\* Losing trust or stability as well loosens the gate in one window only: a low-risk call
\* that was sent to review because approve escalates at 0.5 becomes approve_with_notes,
\* which escalates only at 0.7, and so runs without a reviewer.
TrustLossLoosensOnlyInWindow ==
  [][ LessTrust(rc, rc') /\ WorseHistory(rc, rc')
      => \/ Rank(gate') <= Rank(gate)
         \/ /\ risk.level = "low" /\ gate' = "approve_with_notes"
            /\ Trusted(rc, cfg) /\ ~Trusted(rc', cfg)
            /\ rc.threshold >= ApproveThreshold
            /\ rc'.threshold < ApproveWithNotesThreshold ]_vars

=============================================================================
