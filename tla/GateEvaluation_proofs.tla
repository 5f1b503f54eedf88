------------------------- MODULE GateEvaluation_proofs -------------------------
(***************************************************************************)
(* Proofs about GateEvaluation, for any set of calls, configurations,      *)
(* institution overlays and relation contexts (every score, every minimum).*)
(***************************************************************************)
EXTENDS GateEvaluation, GatePolicy_proofs

\* The gate is always the answer to the history it was evaluated with.
IInv ==
  /\ rc \in Contexts
  /\ cfg \in Configs
  /\ gate = EvaluateGate(call, rc, cfg, inst)

\* The invariant holds at every evaluation.
LEMMA SpecIInv == Spec => []IInv
<1>1. Init => IInv
  BY DEF Init, IInv
<1>2. IInv /\ [Next]_vars => IInv'
  BY DEF IInv, Next, Reevaluate, vars
<1> QED
  BY <1>1, <1>2, PTL DEF Spec

-----------------------------------------------------------------------------
(* The operators                                                           *)

\* What full execution says of the policy's own decision.
LEMMA GateFull ==
  ASSUME IInv, gate \in FullActions
  PROVE  DecideExecutionPolicyAction(risk, SyntheticRde(risk), contract.kind, rc, cfg)
           \in FullActions
<1> DEFINE decided  == DecideExecutionPolicyAction(risk, SyntheticRde(risk), contract.kind,
                                                   rc, cfg)
           adjusted == ApplyRelationHistory(decided, rc)
<1>1. gate = ApplyInstitution(adjusted, risk.level, contract, inst)
  BY DEF IInv, EvaluateGate, FullActions, contract, risk
<1> HIDE DEF decided, adjusted
<1>2. adjusted \in FullActions
  BY <1>1, InstitutionKeepsFull
<1> QED
  BY <1>2, HistoryKeepsFull DEF adjusted, decided

-----------------------------------------------------------------------------
(* The theorems                                                            *)

\* The gate answers with one of its five actions, and the contract and risk it builds are
\* within the vocabulary of the code's models.
THEOREM TypeCorrect == Spec => []TypeOK
<1>1. IInv => TypeOK
  BY EvaluateGateType, ActionType, KindType, RiskLevelType
     DEF IInv, TypeOK, contract, risk, BuildContract
<1> QED
  BY <1>1, SpecIInv, PTL

\* No configuration lets a call of high or critical risk, on a protected path, without a
\* target it needs, or out of the machine other than to fetch a listed host, run for real
\* without a reviewer.
THEOREM FullExecutionLowStakes == Spec => []FullExecutionIsLowStakes
<1>1. IInv => FullExecutionIsLowStakes
  <2> SUFFICES ASSUME IInv, gate \in FullActions PROVE FullExecutionIsLowStakes
    BY DEF FullExecutionIsLowStakes
  <2>1. /\ risk.level # "critical" /\ risk.level # "high"
        /\ ~(cfg.reviewExternal /\ risk.external)
        /\ risk.level = "medium" => cfg.allowMedium /\ Trusted(rc, cfg)
    BY GateFull, PolicyFull
  <2>2. /\ risk.level \in {"low", "medium"} /\ ~risk.protected /\ ~risk.unknown
        /\ contract.action \in NetActions =>
             risk.external /\ contract.kind = "read_only_fetch" /\ call.domainListed
    BY <2>1, LowRisk DEF risk
  <2> QED
    BY <2>1, <2>2 DEF FullExecutionIsLowStakes
<1> QED
  BY <1>1, SpecIInv, PTL

\* Critical risks are halted, or reviewed where the policy disables halting and the
\* institution does not object.
THEOREM CriticalNeverRuns == Spec => []CriticalHaltsOrIsReviewed
<1>1. IInv => CriticalHaltsOrIsReviewed
  <2> SUFFICES ASSUME IInv, risk.level = "critical", gate # "halt"
               PROVE  gate = "human_review" /\ ~cfg.haltCritical /\ inst.pop # "invalid"
    BY DEF CriticalHaltsOrIsReviewed
  <2> DEFINE decided  == DecideExecutionPolicyAction(risk, SyntheticRde(risk),
                                                     contract.kind, rc, cfg)
             adjusted == ApplyRelationHistory(decided, rc)
  <2>1. gate = ApplyInstitution(adjusted, risk.level, contract, inst)
    BY DEF IInv, EvaluateGate, contract, risk
  <2>2. decided = IF cfg.haltCritical THEN "halt" ELSE "human_review"
    BY DEF DecideExecutionPolicyAction
  <2> HIDE DEF decided
  <2>3. adjusted = decided
    BY <2>2 DEF ApplyRelationHistory, RunActions, FullActions
  <2> HIDE DEF adjusted
  <2> QED
    BY <2>1, <2>2, <2>3 DEF ApplyInstitution, RunActions, FullActions
<1> QED
  BY <1>1, SpecIInv, PTL

\* The gate's history thresholds and the policy bridge's agree at every score.
THEOREM HistoryAgrees == Spec => []HistoryAgreesWithPolicyBridge
<1>1. HistoryAgreesWithPolicyBridge
  BY DEF HistoryAgreesWithPolicyBridge, ApplyRelationHistory, AdjustForHistory, RunActions,
         FullActions, ApproveThreshold
<1> QED
  BY <1>1, PTL

\* Stricter history never makes the answer to an action more permissive.
LEMMA HistoryMonotone ==
  ASSUME NEW h \in RelationContexts, NEW h2 \in RelationContexts, WorseHistory(h, h2),
         NEW action
  PROVE  \/ ApplyRelationHistory(action, h2) = ApplyRelationHistory(action, h)
         \/ /\ ApplyRelationHistory(action, h) = action /\ action \in RunActions
            /\ ApplyRelationHistory(action, h2) = "human_review"
<1> DEFINE unreliable(x) == x.reliability # NoScore /\ x.reliability <= 300
           fragile(x)    == x.fragility # NoScore /\ x.fragility >= 700
           due(x)        == \/ action = "approve" /\ x.threshold >= ApproveThreshold
                            \/ /\ action \in {"approve_with_notes", "dry_run_only"}
                               /\ x.threshold >= ApproveWithNotesThreshold
           sent(x)       == action \in RunActions /\ (unreliable(x) \/ due(x) \/ fragile(x))
<1>1. /\ h.threshold \in Int /\ h.reliability \in Int /\ h.fragility \in Int
      /\ h2.threshold \in Int /\ h2.reliability \in Int /\ h2.fragility \in Int
  BY ContextScores
<1>2. unreliable(h) => unreliable(h2)
  <2>1. h.reliability # NoScore /\ h.reliability <= 300 => Reliability(h2) <= 300
    BY <1>1 DEF WorseHistory, Reliability
  <2> QED
    BY <1>1, <2>1 DEF Reliability
<1>3. fragile(h) => fragile(h2)
  <2>1. h.fragility # NoScore /\ h.fragility >= 700 => Fragility(h2) >= 700
    BY <1>1 DEF WorseHistory, Fragility
  <2> QED
    BY <1>1, <2>1 DEF Fragility
<1>4. due(h) => due(h2)
  BY <1>1 DEF WorseHistory, ApproveThreshold, ApproveWithNotesThreshold
<1>5. sent(h) => sent(h2)
  BY <1>2, <1>3, <1>4
<1>6. \A x : ApplyRelationHistory(action, x) = IF sent(x) THEN "human_review" ELSE action
  BY DEF ApplyRelationHistory
<1> HIDE DEF sent
<1> QED
  BY <1>5, <1>6 DEF sent

\* The institution keeps the order of two actions of which one is the other sent to review.
LEMMA InstitutionMonotone ==
  ASSUME NEW action \in RunActions, NEW level, NEW k, NEW i
  PROVE  Rank(ApplyInstitution("human_review", level, k, i))
           <= Rank(ApplyInstitution(action, level, k, i))
<1> DEFINE review == ApplyInstitution("human_review", level, k, i)
           run    == ApplyInstitution(action, level, k, i)
<1>1. \/ review = "halt" /\ run = "halt"
      \/ review = "human_review" /\ run \in {"human_review", action}
  BY DEF ApplyInstitution, RunActions, FullActions
<1>2. \A a \in RunActions : Rank(a) \in Nat /\ 1 <= Rank(a)
  BY DEF Rank, RunActions, FullActions
<1>3. Rank("human_review") = 1 /\ Rank("halt") = 0
  BY DEF Rank
<1> QED
  BY <1>1, <1>2, <1>3

\* Every gate action has a rank.
LEMMA RankType == \A a \in GateActions : Rank(a) \in Nat
  BY DEF Rank, GateActions, RunActions, FullActions

\* At unchanged trust and stability, a worse history never loosens the gate.
THEOREM HistoryTightens == Spec => HistoryNeverLoosens
<1>1. ASSUME IInv, IInv', [Next]_vars,
             rc'.trust = rc.trust, rc'.stability = rc.stability, WorseHistory(rc, rc')
      PROVE  Rank(gate') <= Rank(gate)
  <2> DEFINE decided(h) == DecideExecutionPolicyAction(risk, SyntheticRde(risk),
                                                       contract.kind, h, cfg)
             answer(h)  == ApplyInstitution(ApplyRelationHistory(decided(h), h), risk.level,
                                            contract, inst)
  <2>1. call' = call /\ cfg' = cfg /\ inst' = inst
    BY <1>1 DEF Next, Reevaluate, vars
  <2>2. rc \in RelationContexts /\ rc' \in RelationContexts
    BY <1>1, ContextsAssumption DEF IInv
  <2>3. decided(rc') = decided(rc) /\ decided(rc) \in GateActions
    BY <1>1, PolicyReadsTrust, PolicyActionType
  <2>4. \/ gate = "halt" /\ gate' = "halt"
        \/ gate = answer(rc) /\ gate' = answer(rc')
    BY <1>1, <2>1 DEF IInv, EvaluateGate, contract, risk
  <2> HIDE DEF decided
  <2>5. \/ ApplyRelationHistory(decided(rc), rc') = ApplyRelationHistory(decided(rc), rc)
        \/ /\ ApplyRelationHistory(decided(rc), rc) = decided(rc) /\ decided(rc) \in RunActions
           /\ ApplyRelationHistory(decided(rc), rc') = "human_review"
    BY <1>1, <2>2, HistoryMonotone
  <2>6. ApplyRelationHistory(decided(rc), rc) \in GateActions
    BY <2>3 DEF ApplyRelationHistory, GateActions
  <2>7. Rank(gate) \in Nat
    BY <2>4, <2>6, InstitutionActionType, RankType DEF GateActions
  <2> QED
    BY <2>3, <2>4, <2>5, <2>7, InstitutionMonotone
<1> QED
  BY <1>1, SpecIInv, PTL DEF Spec, HistoryNeverLoosens

\* A history that sends approve but not a later approve_with_notes to review, though it got
\* worse, lies in the window between the two thresholds.
LEMMA WindowOnly ==
  ASSUME NEW h \in RelationContexts, NEW h2 \in RelationContexts, WorseHistory(h, h2),
         ApplyRelationHistory("approve", h) # "approve",
         ApplyRelationHistory("approve_with_notes", h2) = "approve_with_notes"
  PROVE  h.threshold >= ApproveThreshold /\ h2.threshold < ApproveWithNotesThreshold
<1> DEFINE unreliable(x) == x.reliability # NoScore /\ x.reliability <= 300
           fragile(x)    == x.fragility # NoScore /\ x.fragility >= 700
<1>1. /\ h.threshold \in Int /\ h.reliability \in Int /\ h.fragility \in Int
      /\ h2.threshold \in Int /\ h2.reliability \in Int /\ h2.fragility \in Int
  BY ContextScores
<1>2. unreliable(h) => unreliable(h2)
  <2>1. unreliable(h) => Reliability(h2) <= 300
    BY <1>1 DEF WorseHistory, Reliability
  <2> QED
    BY <1>1, <2>1 DEF Reliability
<1>3. fragile(h) => fragile(h2)
  <2>1. fragile(h) => Fragility(h2) >= 700
    BY <1>1 DEF WorseHistory, Fragility
  <2> QED
    BY <1>1, <2>1 DEF Fragility
<1>4. unreliable(h) \/ fragile(h) \/ h.threshold >= ApproveThreshold
  BY DEF ApplyRelationHistory
<1>5. ~unreliable(h2) /\ ~fragile(h2) /\ ~(h2.threshold >= ApproveWithNotesThreshold)
  BY DEF ApplyRelationHistory, RunActions, FullActions
<1> QED
  BY <1>1, <1>2, <1>3, <1>4, <1>5 DEF ApproveWithNotesThreshold

\* Losing trust changes the policy's decision in two ways only.
LEMMA PolicyTrustLoss ==
  ASSUME NEW r, NEW class, NEW kind, NEW g, g.minTrust \in Score, g.minStability \in Score,
         NEW h \in RelationContexts, NEW h2 \in RelationContexts, LessTrust(h, h2),
         DecideExecutionPolicyAction(r, class, kind, h2, g)
           # DecideExecutionPolicyAction(r, class, kind, h, g)
  PROVE  /\ Trusted(h, g) /\ ~Trusted(h2, g)
         /\ \/ /\ DecideExecutionPolicyAction(r, class, kind, h, g) \in RunActions
               /\ DecideExecutionPolicyAction(r, class, kind, h2, g) = "human_review"
            \/ /\ DecideExecutionPolicyAction(r, class, kind, h, g) = "approve"
               /\ DecideExecutionPolicyAction(r, class, kind, h2, g) = "approve_with_notes"
               /\ r.level \notin {"critical", "high", "medium"}
<1>1. /\ h.trust \in Int /\ h.stability \in Int /\ h2.trust \in Int /\ h2.stability \in Int
      /\ g.minTrust \in Int /\ g.minStability \in Int
  <2>1. Score \subseteq Int
    BY DEF Score
  <2> QED
    BY <2>1, ContextScores
<1>2. Trusted(h2, g) => Trusted(h, g)
  BY <1>1 DEF Trusted, LessTrust
<1>3. r.level # "critical" /\ r.level # "high"
  BY DEF DecideExecutionPolicyAction
<1>4. \/ /\ r.level = "medium"
         /\ DecideExecutionPolicyAction(r, class, kind, h, g) = DecideMedium(h, g)
         /\ DecideExecutionPolicyAction(r, class, kind, h2, g) = DecideMedium(h2, g)
      \/ /\ r.level # "medium"
         /\ DecideExecutionPolicyAction(r, class, kind, h, g) = DecideLow(h, g)
         /\ DecideExecutionPolicyAction(r, class, kind, h2, g) = DecideLow(h2, g)
  BY <1>3 DEF DecideExecutionPolicyAction
<1> QED
  BY <1>2, <1>3, <1>4 DEF DecideMedium, DecideLow, RunActions, FullActions

\* With less trust and a worse history the gate loosens in the threshold window only.
THEOREM TrustLossWindow == Spec => TrustLossLoosensOnlyInWindow
<1>1. ASSUME IInv, IInv', [Next]_vars, LessTrust(rc, rc'), WorseHistory(rc, rc')
      PROVE  \/ Rank(gate') <= Rank(gate)
             \/ /\ risk.level = "low" /\ gate' = "approve_with_notes"
                /\ Trusted(rc, cfg) /\ ~Trusted(rc', cfg)
                /\ rc.threshold >= ApproveThreshold
                /\ rc'.threshold < ApproveWithNotesThreshold
  <2> DEFINE decided(h) == DecideExecutionPolicyAction(risk, SyntheticRde(risk),
                                                       contract.kind, h, cfg)
             adjusted(h) == ApplyRelationHistory(decided(h), h)
             answer(h)  == ApplyInstitution(adjusted(h), risk.level, contract, inst)
  <2>1. call' = call /\ cfg' = cfg /\ inst' = inst
    BY <1>1 DEF Next, Reevaluate, vars
  <2>2. /\ rc \in RelationContexts /\ rc' \in RelationContexts
        /\ cfg.minTrust \in Score /\ cfg.minStability \in Score
    BY <1>1, ContextsAssumption, ConfigsAssumption DEF IInv
  <2>3. decided(rc) \in GateActions /\ decided(rc') \in GateActions
    BY PolicyActionType
  <2>4. \/ gate = "halt" /\ gate' = "halt"
        \/ gate = answer(rc) /\ gate' = answer(rc')
    BY <1>1, <2>1 DEF IInv, EvaluateGate, contract, risk
  <2>5. risk.level \in RiskLevels
    BY RiskLevelType DEF risk
  <2>6. \/ decided(rc') = decided(rc)
        \/ /\ Trusted(rc, cfg) /\ ~Trusted(rc', cfg)
           /\ \/ decided(rc) \in RunActions /\ decided(rc') = "human_review"
              \/ /\ decided(rc) = "approve" /\ decided(rc') = "approve_with_notes"
                 /\ risk.level \notin {"critical", "high", "medium"}
    BY <1>1, <2>2, PolicyTrustLoss
  <2> HIDE DEF decided
  <2>7. adjusted(rc) \in GateActions /\ adjusted(rc') \in GateActions
    BY <2>3 DEF ApplyRelationHistory, GateActions
  <2>8. Rank(gate) \in Nat /\ Rank("halt") = 0 /\ Rank("human_review") = 1
        /\ \A a \in RunActions : Rank(a) \in Nat /\ 1 <= Rank(a)
    <3>1. gate \in GateActions
      BY <2>4, <2>7, InstitutionActionType DEF GateActions
    <3>2. \A a \in RunActions : Rank(a) \in Nat /\ 1 <= Rank(a)
      BY DEF Rank, RunActions, FullActions
    <3>3. Rank("halt") = 0 /\ Rank("human_review") = 1
      BY DEF Rank
    <3> QED
      BY <3>1, <3>2, <3>3, RankType
  <2>9. CASE decided(rc') = decided(rc)
    <3>1. \/ adjusted(rc') = adjusted(rc)
          \/ adjusted(rc) \in RunActions /\ adjusted(rc') = "human_review"
      BY <1>1, <2>2, <2>9, HistoryMonotone
    <3> QED
      BY <2>4, <2>8, <3>1, InstitutionMonotone
  <2>10. CASE decided(rc) \in RunActions /\ decided(rc') = "human_review"
    <3>1. adjusted(rc') = "human_review"
      BY <2>10 DEF ApplyRelationHistory
    <3>2. adjusted(rc) \in {"human_review", decided(rc)}
      BY DEF ApplyRelationHistory
    <3> QED
      BY <2>4, <2>8, <2>10, <3>1, <3>2, InstitutionMonotone
  <2>11. CASE /\ Trusted(rc, cfg) /\ ~Trusted(rc', cfg)
              /\ decided(rc) = "approve" /\ decided(rc') = "approve_with_notes"
              /\ risk.level \notin {"critical", "high", "medium"}
    <3>1. risk.level = "low"
      BY <2>5, <2>11 DEF RiskLevels
    <3>2. /\ adjusted(rc') \in {"human_review", "approve_with_notes"}
          /\ adjusted(rc) \in {"human_review", "approve"}
      BY <2>11 DEF ApplyRelationHistory
    <3>3. answer(rc') \in {"human_review", "approve_with_notes", "halt"}
          /\ answer(rc) \in {"human_review", "approve", "halt"}
          /\ (answer(rc) = "halt" <=> answer(rc') = "halt")
      BY <3>2 DEF ApplyInstitution
    <3>4. Rank("approve_with_notes") = 3 /\ Rank("approve") = 4
      BY DEF Rank
    <3>5. CASE answer(rc) = "human_review" /\ answer(rc') = "approve_with_notes"
      <4>1. adjusted(rc') = "approve_with_notes"
        BY <3>2, <3>5 DEF ApplyInstitution
      <4>2. adjusted(rc) = "human_review"
        BY <3>2, <3>5, <4>1 DEF ApplyInstitution, RunActions, FullActions
      <4>3. rc.threshold >= ApproveThreshold /\ rc'.threshold < ApproveWithNotesThreshold
        BY <1>1, <2>2, <2>11, <4>1, <4>2, WindowOnly
      <4> QED
        BY <2>4, <2>8, <2>11, <3>1, <3>5, <4>3
    <3> QED
      BY <2>4, <2>8, <3>3, <3>4, <3>5
  <2> QED
    BY <2>6, <2>9, <2>10, <2>11
<1> QED
  BY <1>1, SpecIInv, PTL DEF Spec, TrustLossLoosensOnlyInWindow
================================================================================
