--------------------------- MODULE GatePolicy_proofs ---------------------------
(***************************************************************************)
(* Lemmas about the operators of GatePolicy, used by the proofs about the  *)
(* modules built from them.                                                *)
(***************************************************************************)
EXTENDS GatePolicy, TLAPS

-----------------------------------------------------------------------------
(* Contract and risk                                                       *)

\* Of the five kinds in the code's order, the first one found is one of them.
LEMMA FirstKindFound ==
  ASSUME NEW found, NEW default
  PROVE  FirstFound(KindOrder, found, default) \in {KindOrder[i] : i \in 1 .. 5} \cup {default}
<1> DEFINE first(i) == /\ KindOrder[i] \in found
                       /\ \A j \in DOMAIN KindOrder : j < i => KindOrder[j] \notin found
<1>1. DOMAIN KindOrder = 1 .. 5
  BY DEF KindOrder
<1>2. (\E i \in 1 .. 5 : KindOrder[i] \in found) => \E i \in 1 .. 5 : first(i)
  BY <1>1
<1> QED
  BY <1>1, <1>2 DEF FirstFound

\* The same of the seven keyword classes that give a call its action type.
LEMMA FirstActionFound ==
  ASSUME NEW found, NEW default
  PROVE  FirstFound(ActionOrder, found, default) \in {ActionOrder[i] : i \in 1 .. 7} \cup {default}
<1> DEFINE first(i) == /\ ActionOrder[i] \in found
                       /\ \A j \in DOMAIN ActionOrder : j < i => ActionOrder[j] \notin found
<1>1. DOMAIN ActionOrder = 1 .. 7
  BY DEF ActionOrder
<1>2. (\E i \in 1 .. 7 : ActionOrder[i] \in found) => \E i \in 1 .. 7 : first(i)
  BY <1>1
<1> QED
  BY <1>1, <1>2 DEF FirstFound

\* The contract builder always gives a call one of the eight action types.
LEMMA ActionType ==
  ASSUME NEW c
  PROVE  BuildContract(c).action \in ActionTypes
<1>1. \A i \in 1 .. 7 : ActionOrder[i] \in ActionTypes
  BY DEF ActionOrder, ActionTypes, NetActions
<1>2. "unknown" \in ActionTypes
  BY DEF ActionTypes
<1>3. BuildContract(c).action = FirstFound(ActionOrder, c.words, "unknown")
  BY DEF BuildContract
<1> QED
  BY <1>1, <1>2, <1>3, FirstActionFound

\* The external side effect of a call is always one of the nine kinds.
LEMMA KindType ==
  ASSUME NEW c, NEW action
  PROVE  ExternalSideEffectKind(c, action) \in ExternalKinds
<1>1. \A default \in ExternalKinds :
        FirstFound(KindOrder, c.hints, default) \in ExternalKinds
  <2> TAKE default \in ExternalKinds
  <2>1. \A i \in 1 .. 5 : KindOrder[i] \in ExternalKinds
    BY DEF KindOrder, ExternalKinds
  <2> QED
    BY <2>1, FirstKindFound
<1> QED
  BY <1>1 DEF ExternalSideEffectKind, ExternalKinds

\* Every call gets one of the four risk levels.
LEMMA RiskLevelType ==
  ASSUME NEW k, NEW c
  PROVE  ScoreToolCallRisk(k, c).level \in RiskLevels
  BY DEF ScoreToolCallRisk, ScoreExternal, Risk, RiskLevels

\* A risk below high: nothing protected or unknown, and off the machine only to fetch.
LEMMA LowRisk ==
  ASSUME NEW k, NEW c, ScoreToolCallRisk(k, c).level \notin {"high", "critical"}
  PROVE  /\ ScoreToolCallRisk(k, c).level \in {"low", "medium"}
         /\ ~ScoreToolCallRisk(k, c).protected /\ ~ScoreToolCallRisk(k, c).unknown
         /\ k.action \in NetActions =>
              /\ ScoreToolCallRisk(k, c).external
              /\ k.kind = "read_only_fetch" /\ c.domainListed
  BY DEF ScoreToolCallRisk, ScoreExternal, Risk, NetActions

\* The five scores of a relation context are integers.
LEMMA ContextScores ==
  ASSUME NEW h \in RelationContexts
  PROVE  /\ h.trust \in Int /\ h.stability \in Int /\ h.threshold \in Int
         /\ h.reliability \in Int /\ h.fragility \in Int
<1>1. /\ h.trust \in Score /\ h.stability \in Score /\ h.threshold \in Score
      /\ h.reliability \in OptScore /\ h.fragility \in OptScore
  BY DEF RelationContexts
<1>2. Score \subseteq Int /\ OptScore \subseteq Int
  BY DEF Score, OptScore, NoScore
<1> QED
  BY <1>1, <1>2

-----------------------------------------------------------------------------
(* Policy, history and institution                                         *)

\* The execution policy answers with a gate action, whatever the risk and the history.
LEMMA PolicyActionType ==
  ASSUME NEW r, NEW class, NEW kind, NEW rc, NEW cfg
  PROVE  DecideExecutionPolicyAction(r, class, kind, rc, cfg) \in GateActions
  BY DEF DecideExecutionPolicyAction, DecideHigh, DecideMedium, DecideLow, GateActions,
         RunActions, FullActions

\* The policy reads trust and stability of a relation context and nothing else.
LEMMA PolicyReadsTrust ==
  ASSUME NEW r, NEW class, NEW kind, NEW g, NEW h, NEW h2,
         h2.trust = h.trust, h2.stability = h.stability
  PROVE  DecideExecutionPolicyAction(r, class, kind, h2, g)
           = DecideExecutionPolicyAction(r, class, kind, h, g)
  BY DEF DecideExecutionPolicyAction, DecideMedium, DecideLow, Trusted

\* What the policy checked before it let a call run for real.
LEMMA PolicyFull ==
  ASSUME NEW r, NEW class, NEW kind, NEW h, NEW g,
         DecideExecutionPolicyAction(r, class, kind, h, g) \in FullActions
  PROVE  /\ r.level # "critical" /\ r.level # "high" /\ ~r.unknown
         /\ kind \notin HaltKinds \cup ReviewKinds
         /\ ~(g.reviewExternal /\ r.external)
         /\ r.level = "medium" => g.allowMedium /\ Trusted(h, g)
<1>1. r.level # "high"
  BY DEF DecideExecutionPolicyAction, DecideHigh, FullActions
<1>2. r.level = "medium" => g.allowMedium /\ Trusted(h, g)
  BY DEF DecideExecutionPolicyAction, DecideMedium, FullActions
<1> QED
  BY <1>1, <1>2 DEF DecideExecutionPolicyAction, FullActions

\* The history escalation stays within the gate's actions.
LEMMA HistoryActionType ==
  ASSUME NEW rc, NEW action \in GateActions
  PROVE  ApplyRelationHistory(action, rc) \in GateActions
  BY DEF ApplyRelationHistory, GateActions

\* The history escalation never turns another action into full execution.
LEMMA HistoryKeepsFull ==
  ASSUME NEW action, NEW h, ApplyRelationHistory(action, h) \in FullActions
  PROVE  action = ApplyRelationHistory(action, h)
  BY DEF ApplyRelationHistory, FullActions

\* The institution overlay stays within the gate's actions.
LEMMA InstitutionActionType ==
  ASSUME NEW level, NEW contract, NEW inst, NEW action \in GateActions
  PROVE  ApplyInstitution(action, level, contract, inst) \in GateActions
  BY DEF ApplyInstitution, GateActions

\* Nor does the institution overlay.
LEMMA InstitutionKeepsFull ==
  ASSUME NEW action, NEW level, NEW k, NEW i,
         ApplyInstitution(action, level, k, i) \in FullActions
  PROVE  action = ApplyInstitution(action, level, k, i)
  BY DEF ApplyInstitution, FullActions

\* The gate answers with one of its five actions, whatever it is asked.
LEMMA EvaluateGateType ==
  ASSUME NEW call, NEW rc, NEW cfg, NEW inst
  PROVE  EvaluateGate(call, rc, cfg, inst) \in GateActions
<1> DEFINE contract == BuildContract(call)
           risk     == ScoreToolCallRisk(contract, call)
           decided  == DecideExecutionPolicyAction(risk, SyntheticRde(risk),
                                                   contract.kind, rc, cfg)
           adjusted == ApplyRelationHistory(decided, rc)
           answer   == ApplyInstitution(adjusted, risk.level, contract, inst)
<1>1. decided \in GateActions
  BY PolicyActionType
<1>2. adjusted \in GateActions
  BY <1>1, HistoryActionType
<1>3. answer \in GateActions
  BY <1>2, InstitutionActionType
<1>4. "halt" \in GateActions
  BY DEF GateActions
<1>5. EvaluateGate(call, rc, cfg, inst) \in {"halt", answer}
  BY DEF EvaluateGate
<1> QED
  BY <1>3, <1>4, <1>5
================================================================================
