------------------------- MODULE DocumentChain_proofs -------------------------
(***************************************************************************)
(* Proofs about ChangeEvaluation, for any diffs, contracts, relation       *)
(* contexts and institutions, and about DocumentChain, for any documents,  *)
(* contracts and claims, and chains of any length.  The first part cites   *)
(* no assumption on documents: it holds of ChangeEvaluation by itself.     *)
(***************************************************************************)
EXTENDS DocumentChain, GatePolicy_proofs, FiniteSetTheorems, FunctionTheorems,
        SequenceTheorems, WellFoundedInduction

-----------------------------------------------------------------------------
(* ChangeEvaluation                                                        *)

\* What is held is what the evaluation of the last change gave, its event is in the log if
\* one was asked for, and its outcome is the outcome of its action.
IInv ==
  /\ TypeOK
  /\ result # NoResult => result = EvaluationOf(diff, rc) /\ (asked => logged)
  /\ outcome # "none" => result # NoResult /\ outcome = ApplyOrHalt(result.action)

-----------------------------------------------------------------------------
(* The operators of an evaluation                                          *)

VerdictClasses == {"preserved", "authorized_deviation", "suspicious_drift", "critical_corruption"}

\* A recommendation belongs to a class: halt to a corruption, review to a drift.
LEMMA VerdictType ==
  ASSUME NEW d, NEW c
  PROVE  /\ Classify(d, c).class \in VerdictClasses
         /\ Classify(d, c).required \in {"approve", "approve_with_notes", "human_review", "halt"}
         /\ Classify(d, c).required = "halt" => Classify(d, c).class = "critical_corruption"
         /\ Classify(d, c).required = "human_review" => Classify(d, c).class = "suspicious_drift"
BY DEF Classify, Verdict, VerdictClasses

\* The policy bridge decides one of its five actions, halt for a corruption and no full
\* execution for a drift.
LEMMA DecideActionType ==
  ASSUME NEW c \in Contracts, NEW class \in VerdictClasses, NEW h
  PROVE  /\ DecideAction(class, c.review, h) \in PolicyActions
         /\ class = "critical_corruption" => DecideAction(class, c.review, h) = "halt"
         /\ class = "suspicious_drift" =>
              DecideAction(class, c.review, h) \in {"human_review", "request_revision"}
<1> DEFINE review == c.review
<1>1. /\ review["preserved"] \in PolicyActions
      /\ review["authorized_deviation"] \in PolicyActions
      /\ review["suspicious_drift"] \in {"human_review", "request_revision"}
  BY ContractsAssumption DEF ReviewPolicies
<1>2. \A a \in PolicyActions : AdjustForHistory(a, h) \in PolicyActions
  BY DEF AdjustForHistory, PolicyActions
<1> HIDE DEF review
<1>3. /\ DecideAction(class, review, h) \in PolicyActions
      /\ class = "critical_corruption" => DecideAction(class, review, h) = "halt"
      /\ class = "suspicious_drift" =>
           DecideAction(class, review, h) \in {"human_review", "request_revision"}
  BY <1>1, <1>2 DEF DecideAction, VerdictClasses, PolicyActions
<1> QED
  BY <1>3 DEF review

\* The institution adds nothing but reviews and halts.
LEMMA PolicyType ==
  ASSUME NEW c \in Contracts, NEW v, v.class \in VerdictClasses, NEW h, NEW i
  PROVE  /\ DecidePolicyWithInstitution(v, c, h, i) \in PolicyActions
         /\ v.class = "critical_corruption" => DecidePolicyWithInstitution(v, c, h, i) = "halt"
         /\ v.class = "suspicious_drift" =>
              DecidePolicyWithInstitution(v, c, h, i)
                \in {"human_review", "request_revision", "halt"}
<1> DEFINE phase1 == DecideAction(v.class, c.review, h)
<1>1. /\ phase1 \in PolicyActions
      /\ v.class = "critical_corruption" => phase1 = "halt"
      /\ v.class = "suspicious_drift" => phase1 \in {"human_review", "request_revision"}
  BY DecideActionType
<1> HIDE DEF phase1
<1>2. DecidePolicyWithInstitution(v, c, h, i) \in {phase1, "human_review", "halt"}
  BY DEF DecidePolicyWithInstitution, phase1
<1>3. v.class \in {"critical_corruption", "suspicious_drift"} =>
        DecidePolicyWithInstitution(v, c, h, i) \in {phase1, "halt"}
  BY <1>1 DEF DecidePolicyWithInstitution, phase1, FullActions
<1> QED
  BY <1>1, <1>2, <1>3 DEF PolicyActions

\* An evaluation is a result, and its recommendation bounds its action.
LEMMA EvaluationType ==
  ASSUME NEW d, NEW h, contract \in Contracts
  PROVE  /\ EvaluationOf(d, h) \in Results
         /\ EvaluationOf(d, h).required = "halt" => EvaluationOf(d, h).action = "halt"
         /\ EvaluationOf(d, h).required = "human_review" =>
              EvaluationOf(d, h).action \in {"human_review", "request_revision", "halt"}
BY VerdictType, PolicyType DEF EvaluationOf, Results

\* Every action of the policy has an outcome.
LEMMA OutcomeType ==
  ASSUME NEW a \in PolicyActions
  PROVE  /\ ApplyOrHalt(a) \in {"applied", "pending_review", "halted"}
         /\ a = "halt" => ApplyOrHalt(a) = "halted"
         /\ a \in {"human_review", "request_revision"} => ApplyOrHalt(a) = "pending_review"
BY DEF ApplyOrHalt, PolicyActions, FullActions

-----------------------------------------------------------------------------
(* The inductive invariant                                                 *)

\* Every step keeps the invariant.
LEMMA StepInv == IInv /\ [Next]_vars => IInv'
<1> SUFFICES ASSUME IInv, [Next]_vars PROVE IInv'
  OBVIOUS
<1>1. ASSUME NEW d \in Diffs, NEW h \in Contexts, NEW log \in BOOLEAN, Evaluate(d, h, log)
      PROVE  IInv'
  <2>1. EvaluationOf(d, h) \in Results
    BY EvaluationType DEF IInv, TypeOK
  <2>2. result' = EvaluationOf(d, h) /\ EvaluationOf(diff, rc)' = EvaluationOf(d, h)
    BY <1>1 DEF Evaluate, EvaluationOf
  <2>3. TypeOK'
    BY <1>1, <2>1, <2>2 DEF Evaluate, IInv, TypeOK
  <2> QED
    BY <1>1, <2>2, <2>3 DEF Evaluate, IInv
<1>2. ASSUME NEW d \in Diffs, NEW h \in Contexts, NEW log \in BOOLEAN,
             EvaluateFails(d, h, log)
      PROVE  IInv'
  BY <1>2 DEF EvaluateFails, IInv, TypeOK
<1>3. CASE Apply
  <2>1. result \in Results
    BY <1>3 DEF Apply, IInv, TypeOK
  <2>2. ApplyOrHalt(result.action) \in {"applied", "pending_review", "halted"}
    BY <2>1, OutcomeType DEF Results
  <2>3. EvaluationOf(diff, rc)' = EvaluationOf(diff, rc)
    BY <1>3 DEF Apply, EvaluationOf
  <2> QED
    BY <1>3, <2>2, <2>3 DEF Apply, IInv, TypeOK
<1>4. CASE UNCHANGED vars
  <2>1. EvaluationOf(diff, rc)' = EvaluationOf(diff, rc)
    BY <1>4 DEF vars, EvaluationOf
  <2> QED
    BY <1>4, <2>1 DEF vars, IInv, TypeOK
<1> QED
  BY <1>1, <1>2, <1>3, <1>4 DEF Next

\* The invariant holds in every state.
LEMMA Invariance == Spec => []IInv
<1>1. Init => IInv
  BY DEF Init, IInv, TypeOK
<1> QED
  BY <1>1, StepInv, PTL DEF Spec

-----------------------------------------------------------------------------
(* The theorems                                                            *)

\* Every reachable state has its type: no action falls through apply_or_halt.
THEOREM TypeCorrect == Spec => []TypeOK
BY Invariance, PTL DEF IInv

\* The outcome is never more permissive than the classifier's recommendation.
THEOREM RequiredHonoured == Spec => []RequiredActionHonoured
<1>1. IInv => RequiredActionHonoured
  <2> SUFFICES ASSUME IInv, outcome # "none"
               PROVE  /\ result.required = "halt" => outcome = "halted"
                      /\ result.required = "human_review" => outcome # "applied"
    BY DEF RequiredActionHonoured
  <2>1. /\ contract \in Contracts /\ result = EvaluationOf(diff, rc)
        /\ outcome = ApplyOrHalt(result.action)
    BY DEF IInv, TypeOK
  <2>2. result.action \in PolicyActions
    BY <2>1, EvaluationType DEF Results
  <2> QED
    BY <2>1, <2>2, EvaluationType, OutcomeType
<1> QED
  BY <1>1, Invariance, PTL

\* No outcome without its audit event, where a log is kept.
THEOREM OutcomeAudited == Spec => []OutcomeIsAudited
<1>1. IInv => OutcomeIsAudited
  BY DEF IInv, OutcomeIsAudited
<1> QED
  BY <1>1, Invariance, PTL

\* Worse coverage does not reach the bar that better coverage misses.
LEMMA CoverageMonotone ==
  ASSUME NEW d \in DiffType, NEW e \in DiffType, NEW c, WorseDiff(d, e),
         MatchesAllowed(e, c)
  PROVE  MatchesAllowed(d, c)
<1>1. /\ d.allowed \in Nat /\ d.other \in Nat /\ e.allowed \in Nat /\ e.other \in Nat
      /\ e.allowed <= d.allowed /\ e.other >= d.other
  BY DEF DiffType, WorseDiff
<1>2. MinAllowedMatchScore(c.mode) \in {200, 250, 300}
  BY DEF MinAllowedMatchScore
<1>3. 1000 * e.allowed >= MinAllowedMatchScore(c.mode) * (e.allowed + e.other)
  BY DEF MatchesAllowed
<1>4. 1000 * d.allowed >= MinAllowedMatchScore(c.mode) * (d.allowed + d.other)
  <2>1. CASE MinAllowedMatchScore(c.mode) = 200
    BY <1>1, <1>3, <2>1
  <2>2. CASE MinAllowedMatchScore(c.mode) = 250
    BY <1>1, <1>3, <2>2
  <2>3. CASE MinAllowedMatchScore(c.mode) = 300
    BY <1>1, <1>3, <2>3
  <2> QED
    BY <1>2, <2>1, <2>2, <2>3
<1> QED
  BY <1>4 DEF MatchesAllowed

\* A worse diff is a corruption, a drift where the other was at most one and at the same
\* critical level if that was critical, or gets the very verdict of the other.
LEMMA ClassifyMonotone ==
  ASSUME NEW d \in DiffType, NEW e \in DiffType, NEW c, WorseDiff(d, e)
  PROVE  \/ Classify(e, c).class = "critical_corruption"
         \/ /\ Classify(e, c).class = "suspicious_drift"
            /\ Classify(d, c).class # "critical_corruption"
            /\ Classify(d, c).level = "critical" => Classify(e, c).level = "critical"
         \/ Classify(e, c) = Classify(d, c)
<1> DEFINE corrupt(x) == x.critical > 0 \/ x.schema > 0 \/ x.criticalMismatches > 0
           damaged(x) == x.forbidden > 0 \/ Protected(x) > 0 \/ ScoreSelfReportMismatch(x) >= 400
<1>1. /\ \A f \in {"nodes", "allowed", "other", "forbidden", "critical", "high", "lesser",
                   "schema", "mismatches", "criticalMismatches"} :
           d[f] \in Nat /\ e[f] \in Nat
      /\ (d.nodes = 0) = (e.nodes = 0)
      /\ e.forbidden >= d.forbidden /\ e.critical >= d.critical /\ e.high >= d.high
      /\ e.lesser >= d.lesser /\ e.schema >= d.schema /\ e.mismatches >= d.mismatches
      /\ e.criticalMismatches >= d.criticalMismatches
  BY DEF DiffType, WorseDiff
<1>2. corrupt(d) => corrupt(e)
  BY <1>1
<1>3. damaged(d) => damaged(e)
  BY <1>1 DEF Protected, ScoreSelfReportMismatch, AtMostOne
<1>4. ScoreStructuralRisk(d) >= 700 => ScoreStructuralRisk(e) >= 700
  BY <1>1 DEF ScoreStructuralRisk, AtMostOne
<1>5. ScoreStructuralRisk(d) \in Int /\ ScoreStructuralRisk(e) \in Int
  BY <1>1 DEF ScoreStructuralRisk, AtMostOne
<1>6. \A x : Classify(x, c) =
        IF corrupt(x) THEN Verdict("critical_corruption", "critical", "halt")
        ELSE IF damaged(x)
          THEN Verdict("suspicious_drift", ComputeRisk(ScoreStructuralRisk(x)), "human_review")
        ELSE IF x.nodes = 0 THEN Verdict("preserved", "low", "approve")
        ELSE IF c.allows /\ MatchesAllowed(x, c)
          THEN Verdict("authorized_deviation", "low", "approve_with_notes")
        ELSE Verdict("suspicious_drift", "medium", "human_review")
  BY DEF Classify
<1>7. MatchesAllowed(e, c) => MatchesAllowed(d, c)
  BY CoverageMonotone
<1>8. /\ ComputeRisk(ScoreStructuralRisk(d)) = "critical" =>
           ComputeRisk(ScoreStructuralRisk(e)) = "critical"
  BY <1>4, <1>5 DEF ComputeRisk
<1> HIDE DEF corrupt, damaged
<1>9. d.nodes = 0 <=> e.nodes = 0
  BY <1>1
<1> QED
  BY <1>2, <1>3, <1>6, <1>7, <1>8, <1>9 DEF Verdict

\* A worse history never lowers the severity of an action, nor do the institution and a
\* worse diff.
LEMMA PolicyMonotone ==
  ASSUME NEW c \in Contracts, NEW i, NEW d \in DiffType, NEW e \in DiffType,
         NEW g \in RelationContexts, NEW h \in RelationContexts,
         WorseDiff(d, e), WorseHistory(g, h)
  PROVE  Severity(DecidePolicyWithInstitution(Classify(e, c), c, h, i))
           >= Severity(DecidePolicyWithInstitution(Classify(d, c), c, g, i))
<1> DEFINE v == Classify(d, c)
           w == Classify(e, c)
           before == DecidePolicyWithInstitution(v, c, g, i)
           after  == DecidePolicyWithInstitution(w, c, h, i)
<1>1. v.class \in VerdictClasses /\ w.class \in VerdictClasses
  BY VerdictType
<1>2. before \in PolicyActions /\ after \in PolicyActions
  BY <1>1, PolicyType
<1>3. \A a : Severity(a) \in 0 .. 2
  BY DEF Severity
<1> SUFFICES Severity(after) >= Severity(before)
  OBVIOUS
<1> HIDE DEF v, w, before, after
<1>4. CASE w.class = "critical_corruption"
  <2>1. after = "halt"
    BY <1>1, <1>4, PolicyType DEF after
  <2> QED
    BY <1>3, <2>1 DEF Severity
<1>5. CASE /\ w.class = "suspicious_drift" /\ v.class # "critical_corruption"
           /\ v.level = "critical" => w.level = "critical"
  <2>1. Severity(after) >= 1
    BY <1>1, <1>5, PolicyType DEF Severity, after
  <2>2. CASE before # "halt"
    BY <1>2, <2>1, <2>2 DEF Severity, PolicyActions, FullActions
  <2>3. CASE before = "halt"
    <3>1. DecideAction(v.class, c.review, g) # "halt"
      <4>1. /\ c.review["preserved"] # "halt" /\ c.review["authorized_deviation"] # "halt"
            /\ c.review["suspicious_drift"] # "halt"
        BY ContractsAssumption DEF ReviewPolicies
      <4>2. \A a : a # "halt" => AdjustForHistory(a, g) # "halt"
        BY DEF AdjustForHistory
      <4>3. v.class \in {"preserved", "authorized_deviation", "suspicious_drift"}
        BY <1>1, <1>5 DEF VerdictClasses
      <4>4. CASE v.class = "suspicious_drift"
        BY <4>1, <4>4 DEF DecideAction
      <4>5. CASE v.class \in {"preserved", "authorized_deviation"}
        <5>1. DecideAction(v.class, c.review, g) = AdjustForHistory(c.review[v.class], g)
          BY <4>5 DEF DecideAction
        <5>2. c.review[v.class] # "halt"
          BY <4>1, <4>5
        <5> QED
          BY <4>2, <5>1, <5>2
      <4> QED
        BY <4>3, <4>4, <4>5
    <3>2. i.pop = "invalid" /\ v.level = "critical"
      BY <2>3, <3>1 DEF DecidePolicyWithInstitution, before
    <3>3. after = "halt"
      BY <1>5, <3>2 DEF DecidePolicyWithInstitution, after
    <3> QED
      BY <1>3, <2>3, <3>3
  <2> QED
    BY <2>2, <2>3
<1>6. CASE w = v
  <2> DEFINE phase1(k) == DecideAction(v.class, c.review, k)
  <2>1. phase1(g) \in PolicyActions /\ phase1(h) \in PolicyActions
    BY <1>1, DecideActionType
  <2>2. phase1(h) = phase1(g) \/ (phase1(h) = "human_review" /\ phase1(g) \in FullActions)
    <3>1. /\ h.threshold \in Int /\ g.threshold \in Int /\ h.reliability \in Int
          /\ g.reliability \in Int /\ h.fragility \in Int /\ g.fragility \in Int
      BY ContextScores
    <3>2. h.threshold >= g.threshold /\ Reliability(h) <= Reliability(g)
          /\ Fragility(h) >= Fragility(g)
      BY DEF WorseHistory
    <3>3. \A a \in PolicyActions :
            \/ AdjustForHistory(a, h) = AdjustForHistory(a, g)
            \/ AdjustForHistory(a, h) = "human_review" /\ AdjustForHistory(a, g) \in FullActions
      BY <3>1, <3>2 DEF AdjustForHistory, Reliability, Fragility, NoScore,
                       ApproveWithNotesThreshold, PolicyActions, FullActions
    <3>4. /\ c.review["preserved"] \in PolicyActions
          /\ c.review["authorized_deviation"] \in PolicyActions
      BY ContractsAssumption DEF ReviewPolicies
    <3>5. CASE v.class \in {"preserved", "authorized_deviation"}
      <4>1. \A k : DecideAction(v.class, c.review, k) = AdjustForHistory(c.review[v.class], k)
        BY <3>5 DEF DecideAction
      <4>2. c.review[v.class] \in PolicyActions
        BY <3>4, <3>5
      <4> QED
        BY <3>3, <4>1, <4>2
    <3>6. CASE v.class \in {"suspicious_drift", "critical_corruption"}
      BY <3>6 DEF DecideAction
    <3> QED
      BY <1>1, <3>5, <3>6 DEF VerdictClasses
  <2> HIDE DEF phase1
  <2>3. after = DecidePolicyWithInstitution(v, c, h, i)
    BY <1>6 DEF after
  <2>4. \/ after = before
        \/ after = "human_review" /\ before \in FullActions \cup {"human_review"}
    BY <2>2, <2>3 DEF DecidePolicyWithInstitution, phase1, before, FullActions
  <2> QED
    BY <1>3, <2>4 DEF Severity, FullActions
<1> QED
  BY <1>4, <1>5, <1>6, ClassifyMonotone DEF v, w, before, after

\* A worse resubmission, or a worse history, is never decided more permissively.
THEOREM WorseStaysOut == Spec => WorseNeverLoosens
<1>1. IInv /\ IInv' /\ [Next]_vars =>
        [ /\ result # NoResult /\ result' # NoResult
          /\ WorseDiff(diff, diff') /\ WorseHistory(rc, rc')
          => Severity(result'.action) >= Severity(result.action) ]_vars
  <2> SUFFICES ASSUME IInv, IInv', [Next]_vars, result # NoResult, result' # NoResult,
                      WorseDiff(diff, diff'), WorseHistory(rc, rc')
               PROVE  Severity(result'.action) >= Severity(result.action)
    OBVIOUS
  <2>1. contract' = contract /\ inst' = inst
    BY DEF Next, vars, Evaluate, EvaluateFails, Apply
  <2>2. /\ result.action = DecidePolicyWithInstitution(Classify(diff, contract), contract, rc, inst)
        /\ result'.action
             = DecidePolicyWithInstitution(Classify(diff', contract), contract, rc', inst)
    BY <2>1 DEF IInv, EvaluationOf
  <2>3. /\ contract \in Contracts
        /\ diff \in DiffType /\ diff' \in DiffType
        /\ rc \in RelationContexts /\ rc' \in RelationContexts
    BY DiffsAssumption, ContextsAssumption DEF IInv, TypeOK
  <2> QED
    BY <2>2, <2>3, PolicyMonotone
<1> QED
  BY <1>1, Invariance, PTL DEF Spec, WorseNeverLoosens

-----------------------------------------------------------------------------
(* What a count of zero says                                               *)

\* Sets of up to three members are finite.
LEMMA FewFinite == \A x, y, z : IsFiniteSet({x, y, z})
<1> TAKE x, y, z
<1>1. IsFiniteSet({x}) /\ IsFiniteSet({y}) /\ IsFiniteSet({z})
  BY FS_Singleton
<1>2. IsFiniteSet({x} \cup {y})
  BY <1>1, FS_Union
<1>3. IsFiniteSet(({x} \cup {y}) \cup {z}) /\ ({x} \cup {y}) \cup {z} = {x, y, z}
  BY <1>1, <1>2, FS_Union
<1> QED
  BY <1>3

\* The guards are a union of a few such sets.
LEMMA GuardsFinite == IsFiniteSet(Guards)
<1> DEFINE M1 == { Guard("deleted", "heading", "headings", "high"),
                   Guard("changed", "definition", "definitions", "high"),
                   Guard("deleted", "definition", "definitions", "critical") }
           M2 == { Guard("deleted", "citation", "citations", "critical"),
                   Guard("removed", "number", "numbers", "high"),
                   Guard("removed", "date", "dates", "high") }
           M3 == { Guard("deleted", "link", "references", "high"),
                   Guard("deleted", "import", "imports", "high"),
                   Guard("deleted", "function", "tests", "high") }
           M4 == { Guard("deleted", "function", "public_api", "high"),
                   Guard("deleted", "method", "public_api", "high"),
                   Guard("changed", "function_signature", "function_signatures", "high") }
<1>1. IsFiniteSet(M1) /\ IsFiniteSet(M2) /\ IsFiniteSet(M3) /\ IsFiniteSet(M4)
  BY FewFinite
<1>2. IsFiniteSet(JsonGuards)
  <2> DEFINE J1 == { Guard("changed", "type_change", "types", "high"),
                     Guard("changed", "number_type_change", "types", "high"),
                     Guard("deleted", "key_deletion", "schema_keys", "high") }
             J2 == { Guard("deleted", "key_deletion", "required_fields", "critical") }
  <2>1. IsFiniteSet(J1) /\ IsFiniteSet(J2)
    BY FewFinite, FS_Singleton
  <2>2. JsonGuards = J1 \cup J2
    BY DEF JsonGuards
  <2> HIDE DEF J1, J2
  <2> QED
    BY <2>1, <2>2, FS_Union
<1>3. Guards = ((M1 \cup M2) \cup (M3 \cup M4)) \cup JsonGuards
  BY DEF Guards, MarkdownGuards, PythonGuards
<1> HIDE DEF M1, M2, M3, M4
<1>4. IsFiniteSet(M1 \cup M2) /\ IsFiniteSet(M3 \cup M4)
  BY <1>1, FS_Union
<1>5. IsFiniteSet((M1 \cup M2) \cup (M3 \cup M4))
  BY <1>4, FS_Union
<1> QED
  BY <1>2, <1>3, <1>5, FS_Union

\* What the members of a finite set are mapped to is finite.
LEMMA ImageFinite ==
  ASSUME NEW S, IsFiniteSet(S), NEW T, NEW f \in [S -> T],
         \A t \in T : \E s \in S : f[s] = t
  PROVE  IsFiniteSet(T)
BY Fun_IsSurj, FS_Surjection

\* A diff with finitely many nodes has finitely many protected changes.
LEMMA ChangesFinite ==
  ASSUME NEW nodes, IsFiniteSet(nodes), NEW protected
  PROVE  IsFiniteSet(ProtectedChanges(nodes, protected))
<1> DEFINE S == {y \in nodes \X Guards : y[2].element \in protected /\ Concerns(y[2], y[1])}
           T == ProtectedChanges(nodes, protected)
           f == [x \in S |-> [node |-> x[1], element |-> x[2].element, hint |-> x[2].hint]]
<1>1. IsFiniteSet(nodes \X Guards)
  BY GuardsFinite, FS_Product
<1>2. IsFiniteSet(S)
  BY <1>1, FS_Subset
<1>3. f \in [S -> T] /\ \A t \in T : \E x \in S : f[x] = t
  BY DEF ProtectedChanges
<1> HIDE DEF S, T, f
<1>4. IsFiniteSet(T)
  BY <1>2, <1>3, ImageFinite
<1> QED
  BY <1>4 DEF T

\* A part of a finite set is counted by a number, which is zero for the empty set only.
LEMMA Counted ==
  ASSUME NEW S, IsFiniteSet(S), NEW T \in SUBSET S
  PROVE  /\ Cardinality(T) \in Nat
         /\ Cardinality(T) = 0 => T = {}
BY FS_Subset, FS_EmptySet, FS_CardinalityType

\* Counts that add up to nothing are zero.
LEMMA NoneCounted ==
  \A i, j, k, l \in Nat : i + j + k + l = 0 => j = 0 /\ k = 0 /\ l = 0
OBVIOUS

-----------------------------------------------------------------------------
(* Proposals                                                               *)

\* A proposal is a diff of two documents of a domain, counted.
LEMMA ProposalType ==
  ASSUME NEW p \in Proposals
  PROVE  /\ p.from \in Documents /\ p.to \in Documents /\ p.from.domain = p.to.domain
         /\ p.contract \in Contracts /\ p.claims \in Claims
         /\ IsFiniteSet(Nodes(p.from, p.to))
         /\ p.counts = CountsOf(p.from.domain, Nodes(p.from, p.to), p.contract, p.claims)
         /\ p.counts \in Diffs /\ p.counts \in DiffType
<1>1. PICK d \in StructuralDiffs, c \in Contracts, reported \in Claims :
        p = [from |-> d.from, to |-> d.to, contract |-> c, claims |-> reported,
             counts |-> CountsOf(d.from.domain, d.nodes, c, reported)]
  BY DEF Proposals
<1>2. PICK x \in {y \in Documents \X Documents : y[1].domain = y[2].domain} :
        d = [from |-> x[1], to |-> x[2], nodes |-> Nodes(x[1], x[2])]
  BY DEF StructuralDiffs
<1>3. /\ p.from = x[1] /\ p.to = x[2] /\ p.contract = c /\ p.claims = reported
      /\ p.counts = CountsOf(x[1].domain, Nodes(x[1], x[2]), c, reported)
  BY <1>1, <1>2
<1>4. IsFiniteSet(Nodes(x[1], x[2]))
  BY <1>2, FiniteAssumption
<1>5. p.counts \in Diffs /\ p.counts \in DiffType
  BY ProposalsAssumption, DiffsAssumption
<1> QED
  BY <1>2, <1>3, <1>4, <1>5

\* What is applied is a proposal that is approved: nothing protected changes in it, no
\* required field goes, and nothing is misreported.
Clean(p) ==
  /\ ProtectedChanges(Nodes(p.from, p.to), p.contract.protected) = {}
  /\ \A n \in Nodes(p.from, p.to) : ~RequiredDeletion(n)
  /\ ~NumbersMisreported(p.from.domain, Nodes(p.from, p.to), p.claims)
  /\ ~CitationsMisreported(p.from.domain, Nodes(p.from, p.to), p.claims)
  /\ SignaturesMisreported(p.from.domain, Nodes(p.from, p.to), p.claims) = {}

\* A diff that is not sent to a review or halted has none of the counts that would demand it.
LEMMA ApprovedCounts ==
  ASSUME NEW d \in DiffType, NEW c, Classify(d, c).required \notin {"human_review", "halt"}
  PROVE  d.critical = 0 /\ d.high = 0 /\ d.mismatches = 0 /\ d.schema = 0
<1>1. /\ d.critical \in Nat /\ d.high \in Nat /\ d.lesser \in Nat /\ d.mismatches \in Nat
      /\ d.schema \in Nat
  BY DEF DiffType
<1>2. /\ ~(d.critical > 0) /\ ~(d.schema > 0)
      /\ ~(Protected(d) > 0)
      /\ ~(ScoreSelfReportMismatch(d) >= 400)
  BY DEF Classify, Verdict
<1>3. d.critical = 0 /\ d.high = 0 /\ d.schema = 0
  BY <1>1, <1>2 DEF Protected
<1>4. d.mismatches = 0
  BY <1>1, <1>2 DEF ScoreSelfReportMismatch, AtMostOne
<1> QED
  BY <1>3, <1>4

\* What the classifier would approve is clean.
LEMMA ApprovedIsClean ==
  ASSUME NEW p \in Proposals,
         Classify(p.counts, p.contract).required \notin {"human_review", "halt"}
  PROVE  Clean(p)
<1> DEFINE nodes   == Nodes(p.from, p.to)
           changes == ProtectedChanges(nodes, p.contract.protected)
           signatures == SignaturesMisreported(p.from.domain, nodes, p.claims)
           misreports == Misreported(p.from.domain, changes, p.claims)
           violations == {n \in nodes : RequiredDeletion(n)}
           numbers    == Count(NumbersMisreported(p.from.domain, nodes, p.claims))
           citations  == Count(CitationsMisreported(p.from.domain, nodes, p.claims))
<1>1. /\ p.counts.critical = 0 /\ p.counts.high = 0 /\ p.counts.mismatches = 0
      /\ p.counts.schema = 0
  BY ProposalType, ApprovedCounts
<1>2. IsFiniteSet(nodes) /\ IsFiniteSet(changes)
  BY ProposalType, ChangesFinite
<1>3. p.counts = CountsOf(p.from.domain, nodes, p.contract, p.claims)
  BY ProposalType
<1>4. /\ p.counts.critical = Cardinality(Hinted(changes, "critical"))
      /\ p.counts.high = Cardinality(Hinted(changes, "high"))
      /\ p.counts.mismatches =
           Cardinality(misreports) + Cardinality(signatures) + numbers + citations
      /\ p.counts.schema = Cardinality(violations)
  BY <1>3 DEF CountsOf
<1>5. /\ Hinted(changes, "critical") \in SUBSET changes
      /\ Hinted(changes, "high") \in SUBSET changes
      /\ misreports \in SUBSET changes /\ signatures \in SUBSET nodes
  BY DEF Hinted, Misreported, SignaturesMisreported
<1>6. Hinted(changes, "critical") = {} /\ Hinted(changes, "high") = {}
  <2> HIDE DEF changes
  <2> QED
    BY <1>1, <1>2, <1>4, <1>5, Counted
<1>7. changes = {}
  <2>1. \A pc \in changes : pc.hint \in {"critical", "high"}
    BY DEF ProtectedChanges, Guards, MarkdownGuards, JsonGuards, PythonGuards, Guard
  <2> QED
    BY <1>6, <2>1 DEF Hinted
<1>8. /\ Cardinality(misreports) \in Nat /\ Cardinality(signatures) \in Nat
      /\ Cardinality(signatures) = 0 => signatures = {}
  <2> HIDE DEF nodes, changes, misreports, signatures
  <2> QED
    BY <1>2, <1>5, Counted
<1>9. /\ numbers \in Nat
      /\ numbers = 0 => ~NumbersMisreported(p.from.domain, nodes, p.claims)
      /\ citations \in Nat
      /\ citations = 0 => ~CitationsMisreported(p.from.domain, nodes, p.claims)
  BY DEF Count
<1>10. Cardinality(misreports) + Cardinality(signatures) + numbers + citations = 0
  BY <1>1, <1>4
<1>11. Cardinality(signatures) = 0 /\ numbers = 0 /\ citations = 0
  <2> HIDE DEF nodes, changes, misreports, signatures, numbers, citations
  <2> QED
    BY <1>8, <1>9, <1>10, NoneCounted
<1>12. violations = {}
  <2>1. violations \in SUBSET nodes
    OBVIOUS
  <2> HIDE DEF nodes, violations
  <2> QED
    BY <1>1, <1>2, <1>4, <2>1, Counted
<1> QED
  BY <1>7, <1>8, <1>9, <1>11, <1>12 DEF Clean

-----------------------------------------------------------------------------
(* What a clean proposal keeps                                             *)

\* A node that a guard concerns is a protected change.
LEMMA GuardedChange ==
  ASSUME NEW nodes, NEW protected, ProtectedChanges(nodes, protected) = {},
         NEW n \in nodes, NEW g \in Guards, g.element \in protected
  PROVE  ~Concerns(g, n)
<1> SUFFICES ASSUME Concerns(g, n) PROVE FALSE
  OBVIOUS
<1>1. <<n, g>> \in {y \in nodes \X Guards : y[2].element \in protected /\ Concerns(y[2], y[1])}
  OBVIOUS
<1>2. [node |-> <<n, g>>[1], element |-> <<n, g>>[2].element, hint |-> <<n, g>>[2].hint]
        \in ProtectedChanges(nodes, protected)
  BY <1>1 DEF ProtectedChanges
<1> QED
  BY <1>2

\* What a guard of such an element concerns is not there.
LEMMA NoneLost ==
  ASSUME NEW nodes, NEW protected, ProtectedChanges(nodes, protected) = {},
         NEW op, NEW kind, NEW hint,
         NEW element \in protected \ {"required_fields", "tests", "public_api"},
         Guard(op, kind, element, hint) \in Guards,
         NEW S, Each(op, kind, S) \subseteq nodes
  PROVE  S = {}
<1> SUFFICES ASSUME NEW at \in S PROVE FALSE
  OBVIOUS
<1> DEFINE n == Node(op, kind, at)
           g == Guard(op, kind, element, hint)
<1>1. n \in nodes
  BY DEF Each
<1>2. Concerns(g, n)
  BY DEF Concerns, Guard, Node
<1>3. g.element \in protected
  BY DEF Guard
<1> QED
  BY <1>1, <1>2, <1>3, GuardedChange

\* The same, of names.
LEMMA NoNameLost ==
  ASSUME NEW nodes, NEW protected, ProtectedChanges(nodes, protected) = {},
         NEW op, NEW kind, NEW hint,
         NEW element \in protected \ {"required_fields", "tests", "public_api"},
         Guard(op, kind, element, hint) \in Guards,
         NEW S, NEW T, Each(op, kind, Named(S \ T)) \subseteq nodes
  PROVE  S \subseteq T
<1> DEFINE names == Named(S \ T)
<1>1. Each(op, kind, names) \subseteq nodes
  OBVIOUS
<1> HIDE DEF names
<1>2. names = {}
  BY <1>1, NoneLost
<1> QED
  BY <1>2 DEF names, Named

\* What is gone from a text is a node, guarded by what protects it.
LEMMA CleanKeepsText ==
  ASSUME NEW a, NEW b, a.domain = "markdown", NEW protected,
         ProtectedChanges(Nodes(a, b), protected) = {}
  PROVE  KeepsText(a.content, b.content, protected)
<1> DEFINE x == a.content
           y == b.content
           nodes == Nodes(a, b)
<1>1. nodes = MarkdownNodes(x, y)
  BY DEF Nodes
<1>2. ProtectedChanges(nodes, protected) = {}
  OBVIOUS
<1> HIDE DEF nodes, x, y
<1>3. ASSUME "headings" \in protected PROVE x.headings \subseteq y.headings
  <2> DEFINE lost == x.headings \ y.headings
  <2>1. Each("deleted", "heading", lost) \subseteq nodes
    BY <1>1 DEF MarkdownNodes, HeadingNodes
  <2>2. Guard("deleted", "heading", "headings", "high") \in Guards
    BY DEF MarkdownGuards, Guards
  <2> HIDE DEF lost
  <2>3. lost = {}
    BY <1>2, <1>3, <2>1, <2>2, NoneLost
  <2> QED
    BY <2>3 DEF lost
<1>4. ASSUME "definitions" \in protected PROVE x.definitions \subseteq y.definitions
  <2> DEFINE lost    == x.definitions \ y.definitions
             changed == {d \in lost : d[1] \in Terms(y)}
             deleted == {d \in lost : d[1] \notin Terms(y)}
  <2>1. Each("changed", "definition", changed) \subseteq nodes
    BY <1>1 DEF MarkdownNodes, DefinitionNodes
  <2>2. Each("deleted", "definition", deleted) \subseteq nodes
    BY <1>1 DEF MarkdownNodes, DefinitionNodes
  <2>3. /\ Guard("changed", "definition", "definitions", "high") \in Guards
        /\ Guard("deleted", "definition", "definitions", "critical") \in Guards
    BY DEF MarkdownGuards, Guards
  <2> HIDE DEF changed, deleted
  <2>4. changed = {}
    BY <1>2, <1>4, <2>1, <2>3, NoneLost
  <2>5. deleted = {}
    BY <1>2, <1>4, <2>2, <2>3, NoneLost
  <2> QED
    BY <2>4, <2>5 DEF changed, deleted
<1>5. ASSUME "citations" \in protected PROVE x.citations \subseteq y.citations
  <2>1. Each("deleted", "citation", Named(x.citations \ y.citations)) \subseteq nodes
    BY <1>1 DEF MarkdownNodes, CitationNodes
  <2>2. Guard("deleted", "citation", "citations", "critical") \in Guards
    BY DEF MarkdownGuards, Guards
  <2> QED
    BY <1>2, <1>5, <2>1, <2>2, NoNameLost
<1>6. ASSUME "numbers" \in protected PROVE x.numbers \subseteq y.numbers
  <2>1. Each("removed", "number", Named(x.numbers \ y.numbers)) \subseteq nodes
    BY <1>1 DEF MarkdownNodes, NumberNodes
  <2>2. Guard("removed", "number", "numbers", "high") \in Guards
    BY DEF MarkdownGuards, Guards
  <2> QED
    BY <1>2, <1>6, <2>1, <2>2, NoNameLost
<1>7. ASSUME "dates" \in protected PROVE x.dates \subseteq y.dates
  <2>1. Each("removed", "date", Named(x.dates \ y.dates)) \subseteq nodes
    BY <1>1 DEF MarkdownNodes, DateNodes
  <2>2. Guard("removed", "date", "dates", "high") \in Guards
    BY DEF MarkdownGuards, Guards
  <2> QED
    BY <1>2, <1>7, <2>1, <2>2, NoNameLost
<1>8. ASSUME "references" \in protected PROVE x.links \subseteq y.links
  <2>1. Each("deleted", "link", Named(x.links \ y.links)) \subseteq nodes
    BY <1>1 DEF MarkdownNodes, LinkNodes
  <2>2. Guard("deleted", "link", "references", "high") \in Guards
    BY DEF MarkdownGuards, Guards
  <2> QED
    BY <1>2, <1>8, <2>1, <2>2, NoNameLost
<1> QED
  BY <1>3, <1>4, <1>5, <1>6, <1>7, <1>8 DEF KeepsText, x, y

\* What is gone from a program is one too, and a method goes by itself or with its class.
LEMMA CleanKeepsProgram ==
  ASSUME NEW a, NEW b, a.domain = "python", NEW protected,
         \A f \in Functions(a.content) : f[1] # "" => f[1] \in Classes(a.content),
         ProtectedChanges(Nodes(a, b), protected) = {}
  PROVE  KeepsProgram(a.content, b.content, protected, Nodes(a, b))
<1> DEFINE x == a.content
           y == b.content
           nodes == Nodes(a, b)
<1>1. nodes = PythonNodes(x, y)
  BY DEF Nodes
<1>2. /\ Each("deleted", "import", Named(x.imports \ y.imports)) \subseteq nodes
      /\ Each("changed", "function_signature", Signatured(x, y)) \subseteq nodes
      /\ Each("deleted", "function", Functions(x) \ Functions(y)) \subseteq nodes
  BY <1>1 DEF PythonNodes, ImportNodes, FunctionNodes
<1>3. \A f \in Functions(x) : f[1] # "" => f[1] \in Classes(x)
  OBVIOUS
<1>4. /\ \A c \in Classes(x) \ Classes(y) : Node("deleted", "class", <<c>>) \in nodes
      /\ \A f \in Functions(x) \ Functions(y) :
           f[1] \in Classes(x) \cap Classes(y) => Node("deleted", "method", f) \in nodes
  BY <1>1 DEF PythonNodes, ClassNodes, Each, Named
<1>5. /\ Guard("deleted", "import", "imports", "high") \in Guards
      /\ Guard("changed", "function_signature", "function_signatures", "high") \in Guards
      /\ Guard("deleted", "function", "tests", "high") \in Guards
      /\ Guard("deleted", "function", "public_api", "high") \in Guards
      /\ Guard("deleted", "method", "public_api", "high") \in Guards
  BY DEF PythonGuards, Guards
<1> HIDE DEF nodes, x, y
<1>6. ProtectedChanges(nodes, protected) = {}
  BY DEF nodes
<1>7. ASSUME "imports" \in protected PROVE x.imports \subseteq y.imports
  <2> DEFINE gone == Named(x.imports \ y.imports)
  <2>1. Each("deleted", "import", gone) \subseteq nodes
    BY <1>2
  <2>2. Guard("deleted", "import", "imports", "high") \in Guards
    BY <1>5
  <2> HIDE DEF gone
  <2>3. gone = {}
    BY <1>6, <1>7, <2>1, <2>2, NoneLost
  <2> QED
    BY <2>3 DEF gone, Named
<1>8. ASSUME "function_signatures" \in protected PROVE Signatured(x, y) = {}
  <2> DEFINE signatured == Signatured(x, y)
  <2>1. Each("changed", "function_signature", signatured) \subseteq nodes
    BY <1>2
  <2>2. Guard("changed", "function_signature", "function_signatures", "high") \in Guards
    BY <1>5
  <2> HIDE DEF signatured
  <2>3. signatured = {}
    BY <1>6, <1>8, <2>1, <2>2, NoneLost
  <2> QED
    BY <2>3 DEF signatured
<1>9. \A f \in Functions(x) \ Functions(y) : Node("deleted", "function", f) \in nodes
  BY <1>2 DEF Each
<1>10. "tests" \in protected =>
        \A f \in Functions(x) : f[2] \in TestNames => f \in Functions(y)
  <2> SUFFICES ASSUME "tests" \in protected, NEW f \in Functions(x) \ Functions(y),
                      f[2] \in TestNames
               PROVE  FALSE
    OBVIOUS
  <2> DEFINE g == Guard("deleted", "function", "tests", "high")
  <2>1. Concerns(g, Node("deleted", "function", f))
    BY DEF Concerns, Guard, Node
  <2>2. g.element \in protected
    BY DEF Guard
  <2> QED
    BY <1>5, <1>6, <1>9, <2>1, <2>2, GuardedChange
<1>11. "public_api" \in protected =>
        \A f \in Functions(x) : f[1] = "" /\ f[2] \notin PrivateNames => f \in Functions(y)
  <2> SUFFICES ASSUME "public_api" \in protected, NEW f \in Functions(x) \ Functions(y),
                      f[1] = "", f[2] \notin PrivateNames
               PROVE  FALSE
    OBVIOUS
  <2> DEFINE g == Guard("deleted", "function", "public_api", "high")
  <2>1. Concerns(g, Node("deleted", "function", f))
    BY DEF Concerns, Guard, Node
  <2>2. g.element \in protected
    BY DEF Guard
  <2> QED
    BY <1>5, <1>6, <1>9, <2>1, <2>2, GuardedChange
<1>12. "function_signatures" \in protected =>
         \A f \in Functions(x) \cap Functions(y) : x.functions[f].sig = y.functions[f].sig
  BY <1>8 DEF Signatured
<1>13. ASSUME "public_api" \in protected, NEW f \in Functions(x) \ Functions(y), f[1] # "",
              f[2] \notin PrivateNames
       PROVE  Node("deleted", "class", <<f[1]>>) \in nodes
  <2> DEFINE g == Guard("deleted", "method", "public_api", "high")
  <2>1. Concerns(g, Node("deleted", "method", f))
    BY <1>13 DEF Concerns, Guard, Node
  <2>2. g.element \in protected
    BY <1>13 DEF Guard
  <2>3. Node("deleted", "method", f) \notin nodes
    BY <1>5, <1>6, <2>1, <2>2, GuardedChange
  <2>4. f[1] \in Classes(x)
    BY <1>3, <1>13
  <2>5. f[1] \notin Classes(y)
    <3>1. f[1] \in Classes(x) \cap Classes(y) => Node("deleted", "method", f) \in nodes
      BY <1>4
    <3> QED
      BY <2>3, <2>4, <3>1
  <2> QED
    BY <1>4, <2>4, <2>5
<1>14. ASSUME NEW f \in Functions(x)
       PROVE  /\ Pinned(f, protected) => f \in Functions(y)
              /\ "public_api" \in protected /\ f[1] # "" /\ Public(f[2]) =>
                   f \in Functions(y) \/ Node("deleted", "class", <<f[1]>>) \in nodes
              /\ "function_signatures" \in protected =>
                   \/ f \in Functions(y) /\ x.functions[f].sig = y.functions[f].sig
                   \/ ~Pinned(f, protected) /\ Node("deleted", "function", f) \in nodes
  <2>1. Pinned(f, protected) => f \in Functions(y)
    BY <1>10, <1>11 DEF Pinned, Public
  <2>2. "public_api" \in protected /\ f[1] # "" /\ Public(f[2]) =>
          f \in Functions(y) \/ Node("deleted", "class", <<f[1]>>) \in nodes
    BY <1>13 DEF Public
  <2>3. f \notin Functions(y) => Node("deleted", "function", f) \in nodes
    BY <1>9
  <2>4. "function_signatures" \in protected /\ f \in Functions(y) =>
          x.functions[f].sig = y.functions[f].sig
    BY <1>12
  <2> QED
    BY <2>1, <2>2, <2>3, <2>4
<1>15. KeepsProgram(x, y, protected, nodes)
  BY <1>7, <1>14 DEF KeepsProgram
<1> QED
  BY <1>15 DEF x, y, nodes

\* A prefix of a path has its length, and the prefixes of the path for its own.
LEMMA PrefixOfPrefix ==
  ASSUME NEW S, NEW p \in Seq(S), NEW n \in 0 .. Len(p)
  PROVE  /\ SubSeq(p, 1, n) \in Seq(S) /\ Len(SubSeq(p, 1, n)) = n
         /\ \A m \in 0 .. n - 1 : SubSeq(SubSeq(p, 1, n), 1, m) = SubSeq(p, 1, m)
<1>1. SubSeq(p, 1, n) \in Seq(S) /\ Len(SubSeq(p, 1, n)) = n
  <2>1. n \in Int /\ \A i \in 1 .. n : p[i] \in S
    OBVIOUS
  <2> QED
    BY <2>1, SubSeqProperties
<1>2. ASSUME NEW m \in 0 .. n - 1
      PROVE  SubSeq(SubSeq(p, 1, n), 1, m) = SubSeq(p, 1, m)
  <2>1. CASE m = 0
    BY <1>1, <2>1, SubSeqEmpty
  <2>2. CASE m # 0
    <3>1. /\ 1 \in 1 .. Len(p) /\ n \in 1 .. Len(p)
          /\ 1 \in 1 .. n - 1 + 1 /\ m \in 1 .. n - 1 + 1
      BY <2>2
    <3>2. SubSeq(SubSeq(p, 1, n), 1, m) = SubSeq(p, 1 + 1 - 1, 1 + m - 1)
      BY <3>1, SubSeqOfSubSeq
    <3> QED
      BY <3>2
  <2> QED
    BY <2>1, <2>2
<1> QED
  BY <1>1, <1>2

\* The prefixes of a path are shorter paths, and theirs are its own; its parent is one.
LEMMA PrefixesOf ==
  ASSUME NEW S, NEW p \in Seq(S)
  PROVE  /\ \A q \in Prefixes(p) : q \in Seq(S) /\ Len(q) < Len(p) /\ Prefixes(q) \subseteq Prefixes(p)
         /\ p # <<>> => Parent(p) \in Prefixes(p)
<1>1. ASSUME NEW q \in Prefixes(p)
      PROVE  q \in Seq(S) /\ Len(q) < Len(p) /\ Prefixes(q) \subseteq Prefixes(p)
  <2>1. PICK n \in 0 .. Len(p) - 1 : q = SubSeq(p, 1, n)
    BY <1>1 DEF Prefixes
  <2>2. /\ q \in Seq(S) /\ Len(q) = n /\ n < Len(p)
        /\ \A m \in 0 .. n - 1 : SubSeq(q, 1, m) = SubSeq(p, 1, m)
    BY <2>1, PrefixOfPrefix
  <2>3. Prefixes(q) \subseteq Prefixes(p)
    BY <2>2 DEF Prefixes
  <2> QED
    BY <2>2, <2>3
<1>2. p # <<>> => Parent(p) \in Prefixes(p)
  BY DEF Parent, Prefixes
<1> QED
  BY <1>1, <1>2

\* The parent of a path is its longest prefix.
LEMMA ParentLongest ==
  ASSUME NEW S, NEW p \in Seq(S), p # <<>>, NEW q \in Prefixes(p)
  PROVE  q = Parent(p) \/ q \in Prefixes(Parent(p))
<1>1. PICK n \in 0 .. Len(p) - 1 : q = SubSeq(p, 1, n)
  BY DEF Prefixes
<1>2. Len(p) - 1 \in 0 .. Len(p) - 1 /\ Parent(p) \in Prefixes(p)
  BY DEF Prefixes, Parent
<1>3. CASE n = Len(p) - 1
  BY <1>1, <1>3 DEF Parent
<1>4. CASE n # Len(p) - 1
  <2>1. n \in 0 .. Len(p) - 2
    BY <1>4
  <2>2. Len(Parent(p)) = Len(p) - 1 /\ SubSeq(Parent(p), 1, n) = q
    BY <1>1, <2>1, SubSeqProperties, PrefixOfPrefix DEF Parent
  <2> QED
    BY <2>1, <2>2 DEF Prefixes
<1> QED
  BY <1>3, <1>4

\* A tree is one of a document in JSON.
Tree(x) ==
  /\ <<>> \in DOMAIN x
  /\ \A p \in DOMAIN x : /\ p \in Seq(STRING) /\ Prefixes(p) \subseteq DOMAIN x
                         /\ \A q \in Prefixes(p) : x[q].type \in {"object", "array"}

\* The nodes of type changes: there is one where what both trees hold does not compare.
LEMMA TypeNodesAre ==
  ASSUME NEW a, NEW b
  PROVE  /\ \A n \in TypeNodes(a, b) :
              /\ n.kind \in {"type_change", "number_type_change"} /\ n.op = "changed"
              /\ n = Node(n.op, n.kind, n.at)
              /\ n.at \in Visited(a, b) /\ ~Comparable(a[n.at], b[n.at])
         /\ \A p \in Visited(a, b) : ~Comparable(a[p], b[p]) =>
              \E n \in TypeNodes(a, b) : n.at = p
<1> DEFINE changed == {p \in Visited(a, b) : ~Comparable(a[p], b[p])}
           named   == {p \in changed : "number" \in {a[p].type, b[p].type}}
           N1 == Each("changed", "type_change", changed \ named)
           N2 == Each("changed", "number_type_change", named)
<1>1. TypeNodes(a, b) = N1 \cup N2
  BY DEF TypeNodes
<1>2. ASSUME NEW n \in N1 \cup N2
      PROVE  /\ n.kind \in {"type_change", "number_type_change"} /\ n.op = "changed"
             /\ n = Node(n.op, n.kind, n.at)
             /\ n.at \in changed
  <2> HIDE DEF changed, named
  <2>1. named \subseteq changed
    BY DEF named
  <2>2. \/ \E p \in changed : n = Node("changed", "type_change", p)
        \/ \E p \in changed : n = Node("changed", "number_type_change", p)
    BY <2>1 DEF Each
  <2> QED
    BY <2>2 DEF Node
<1>3. ASSUME NEW p \in changed PROVE \E n \in N1 \cup N2 : n.at = p
  <2> HIDE DEF changed, named
  <2>1. CASE p \in named
    <3>1. Node("changed", "number_type_change", p) \in N2
      BY <2>1 DEF Each
    <3> QED
      BY <3>1 DEF Node
  <2>2. CASE p \notin named
    <3>1. Node("changed", "type_change", p) \in N1
      BY <2>2 DEF Each
    <3> QED
      BY <3>1 DEF Node
  <2> QED
    BY <2>1, <2>2
<1> HIDE DEF N1, N2
<1> QED
  BY <1>1, <1>2, <1>3

\* Below agreeing containers, a path that is gone is a deleted key or item.
LEMMA GoneShown ==
  ASSUME NEW x, NEW y, Tree(x), NEW p \in DOMAIN x, p \notin DOMAIN y, <<>> \in DOMAIN y,
         \A q \in Prefixes(p) : q \in DOMAIN y /\ x[q].type = y[q].type
  PROVE  p \in Members(x, Missing(x, y), "object") \cup Members(x, Missing(x, y), "array")
<1>1. p \in Seq(STRING) /\ p # <<>> /\ Prefixes(p) \subseteq DOMAIN x
  BY DEF Tree
<1>2. Parent(p) \in Prefixes(p) /\ Prefixes(Parent(p)) \subseteq Prefixes(p)
  BY <1>1, PrefixesOf
<1>3. Parent(p) \in Visited(x, y) /\ x[Parent(p)].type = y[Parent(p)].type
  BY <1>1, <1>2 DEF Visited
<1>4. x[Parent(p)].type \in {"object", "array"}
  BY <1>2 DEF Tree
<1> QED
  BY <1>3, <1>4 DEF Members, Missing

\* Of the places on a path that are lost, one is below none.
LEMMA FirstLost ==
  ASSUME NEW p \in Seq(STRING), NEW lost, p \in lost
  PROVE  \E q \in Prefixes(p) \cup {p} : q \in lost /\ \A t \in Prefixes(q) : t \notin lost
<1> DEFINE path    == Prefixes(p) \cup {p}
           lengths == {Len(q) : q \in path \cap lost}
<1>1. \A q \in path : q \in Seq(STRING) /\ Len(q) \in Nat
  BY PrefixesOf
<1>2. lengths \in SUBSET Nat /\ lengths # {}
  BY <1>1
<1>3. PICK n \in lengths : \A m \in lengths : ~(<<m, n>> \in OpToRel(<, Nat))
  BY <1>2, WFMin, NatLessThanWellFounded
<1>4. PICK q \in path \cap lost : Len(q) = n
  OBVIOUS
<1>5. \A t \in path \cap lost : ~(Len(t) < Len(q))
  BY <1>1, <1>3, <1>4 DEF OpToRel
<1>6. \A t \in Prefixes(q) : Len(t) < Len(q) /\ t \in path
  BY <1>1, PrefixesOf
<1> QED
  BY <1>5, <1>6

\* At such a place a clean diff has a node that may delete it, or turn it.
LEMMA CleanLoss ==
  ASSUME NEW x, NEW y, Tree(x), Tree(y), NEW protected,
         ProtectedChanges(JsonNodes(x, y), protected) = {},
         \A n \in JsonNodes(x, y) : ~RequiredDeletion(n),
         NEW q \in DOMAIN x, ~(q \in DOMAIN y /\ Comparable(x[q], y[q])),
         \A t \in Prefixes(q) : t \in DOMAIN y /\ x[t].type = y[t].type
  PROVE  \E n \in JsonNodes(x, y) :
           /\ n.at = q
           /\ q \notin DOMAIN y => MayDelete(n, protected)
           /\ q \in DOMAIN y => MayTurn(n, protected)
<1> DEFINE nodes == JsonNodes(x, y)
<1>1. ProtectedChanges(nodes, protected) = {} /\ \A n \in nodes : ~RequiredDeletion(n)
  OBVIOUS
<1>2. CASE q \in DOMAIN y
  <2>1. q \in Visited(x, y)
    BY <1>2 DEF Visited
  <2>2. PICK n \in TypeNodes(x, y) : n.at = q
    BY <1>2, <2>1, TypeNodesAre
  <2>3. n.kind \in {"type_change", "number_type_change"} /\ n.op = "changed"
    BY TypeNodesAre
  <2>4. n \in nodes
    BY DEF JsonNodes
  <2>5. "types" \notin protected
    <3> SUFFICES ASSUME "types" \in protected PROVE FALSE
      OBVIOUS
    <3> DEFINE g == Guard("changed", n.kind, "types", "high")
    <3>1. g \in Guards
      BY <2>3 DEF Guards, JsonGuards
    <3>2. g.element \in protected /\ Concerns(g, n)
      BY <2>3 DEF Guard, Concerns
    <3> HIDE DEF nodes, g
    <3> QED
      BY <1>1, <2>4, <3>1, <3>2, GuardedChange
  <2> QED
    BY <1>2, <2>2, <2>3, <2>4, <2>5 DEF MayTurn
<1>3. CASE q \notin DOMAIN y
  <2>1. q \in Members(x, Missing(x, y), "object") \cup Members(x, Missing(x, y), "array")
    BY <1>3, GoneShown DEF Tree
  <2>2. CASE q \in Members(x, Missing(x, y), "array")
    <3>1. Node("deleted", "array_item_deletion", q) \in nodes
      BY <2>2 DEF JsonNodes, ItemNodes, Each
    <3> QED
      BY <1>3, <3>1 DEF MayDelete, Node
  <2>3. CASE q \in Members(x, Missing(x, y), "object")
    <3> DEFINE n == Node("deleted", "key_deletion", q)
    <3>1. n \in nodes
      BY <2>3 DEF JsonNodes, KeyNodes, Each
    <3>2. "schema_keys" \notin protected
      <4> SUFFICES ASSUME "schema_keys" \in protected PROVE FALSE
        OBVIOUS
      <4> DEFINE g == Guard("deleted", "key_deletion", "schema_keys", "high")
      <4>1. g \in Guards
        BY DEF Guards, JsonGuards
      <4>2. g.element \in protected /\ Concerns(g, n)
        BY DEF Guard, Concerns, Node
      <4> HIDE DEF nodes, g, n
      <4> QED
        BY <1>1, <3>1, <4>1, <4>2, GuardedChange
    <3>3. n.at = q /\ MayDelete(n, protected)
      BY <1>1, <3>1, <3>2 DEF MayDelete, Node
    <3> QED
      BY <1>3, <3>1, <3>3
  <2> QED
    BY <2>1, <2>2, <2>3
<1> QED
  BY <1>2, <1>3

\* What is gone from a tree, or turned, is so at its uppermost place.
LEMMA CleanKeepsTree ==
  ASSUME NEW a, NEW b, a.domain = "json", Tree(a.content), Tree(b.content), NEW protected,
         ProtectedChanges(Nodes(a, b), protected) = {},
         \A n \in Nodes(a, b) : ~RequiredDeletion(n)
  PROVE  KeepsTree(a.content, b.content, protected, Nodes(a, b))
<1> DEFINE x == a.content
           y == b.content
           nodes == Nodes(a, b)
<1>1. nodes = JsonNodes(x, y)
  BY DEF Nodes
<1>2. /\ ProtectedChanges(nodes, protected) = {} /\ Tree(x) /\ Tree(y)
      /\ \A n \in nodes : ~RequiredDeletion(n)
  OBVIOUS
<1> HIDE DEF nodes, x, y
<1>3. ASSUME NEW p \in DOMAIN x, ~(p \in DOMAIN y /\ SameType(x[p], y[p]))
      PROVE  \/ \E n \in nodes : n.at \in Prefixes(p) \cup {p} /\ MayDelete(n, protected)
             \/ \E n \in nodes : n.at \in Prefixes(p) /\ MayTurn(n, protected)
             \/ p \in DOMAIN y /\ \E n \in nodes : n.at = p /\ MayTurn(n, protected)
  <2>1. p \in Seq(STRING) /\ Prefixes(p) \subseteq DOMAIN x
    BY <1>2 DEF Tree
  <2>2. ~(p \in DOMAIN y /\ x[p].type = y[p].type)
    BY <1>3 DEF SameType
  <2>3. PICK q \in Prefixes(p) \cup {p} :
          /\ ~(q \in DOMAIN y /\ x[q].type = y[q].type)
          /\ \A t \in Prefixes(q) : t \in DOMAIN y /\ x[t].type = y[t].type
    <3> DEFINE lost == {q \in DOMAIN x : ~(q \in DOMAIN y /\ x[q].type = y[q].type)}
    <3>1. p \in lost
      BY <2>2
    <3> HIDE DEF lost
    <3>2. PICK q \in Prefixes(p) \cup {p} : q \in lost /\ \A t \in Prefixes(q) : t \notin lost
      BY <2>1, <3>1, FirstLost
    <3>3. Prefixes(q) \subseteq DOMAIN x
      BY <1>2, <2>1, <3>2 DEF Tree
    <3> QED
      BY <3>2, <3>3 DEF lost
  <2>4. ~(q \in DOMAIN y /\ Comparable(x[q], y[q]))
    <3>1. CASE q = p
      BY <1>3, <3>1 DEF SameType, Comparable, Numeric
    <3>2. CASE q \in Prefixes(p)
      <4>1. x[q].type \in {"object", "array"}
        BY <1>2, <3>2 DEF Tree
      <4> QED
        BY <2>3, <4>1 DEF Comparable, Numeric
    <3> QED
      BY <3>1, <3>2
  <2>5. q \in DOMAIN x
    BY <2>1
  <2>6. PICK n \in nodes : /\ n.at = q
                           /\ q \notin DOMAIN y => MayDelete(n, protected)
                           /\ q \in DOMAIN y => MayTurn(n, protected)
    BY <1>1, <1>2, <2>3, <2>4, <2>5, CleanLoss
  <2> QED
    BY <2>6
<1>4. KeepsTree(x, y, protected, nodes)
  BY <1>3 DEF KeepsTree
<1> QED
  BY <1>4 DEF x, y, nodes

-----------------------------------------------------------------------------
(* Keeping is transitive                                                   *)

\* Documents keep themselves.
LEMMA KeepsReflexive ==
  ASSUME NEW a, NEW protected, NEW shown
  PROVE  Keeps(a, a, protected, shown)
<1> DEFINE x == a.content
<1>1. KeepsText(x, x, protected)
  BY DEF KeepsText
<1>2. KeepsTree(x, x, protected, shown)
  BY DEF KeepsTree, SameType
<1>3. KeepsProgram(x, x, protected, shown)
  BY DEF KeepsProgram
<1> QED
  BY <1>1, <1>2, <1>3 DEF Keeps

\* What two steps may delete or turn, either of them has shown.
LEMMA TreeTransitive ==
  ASSUME NEW x, NEW y, NEW z, NEW protected, NEW S, NEW T,
         KeepsTree(x, y, protected, S), KeepsTree(y, z, protected, T)
  PROVE  KeepsTree(x, z, protected, S \cup T)
<1> SUFFICES ASSUME NEW p \in DOMAIN x
             PROVE  /\ \/ p \in DOMAIN z
                       \/ \E n \in S \cup T :
                            n.at \in Prefixes(p) \cup {p} /\ MayDelete(n, protected)
                       \/ \E n \in S \cup T : n.at \in Prefixes(p) /\ MayTurn(n, protected)
                    /\ \/ p \in DOMAIN z /\ SameType(x[p], z[p])
                       \/ \E n \in S \cup T :
                            /\ n.at \in Prefixes(p) \cup {p}
                            /\ (MayDelete(n, protected) \/ MayTurn(n, protected))
  BY DEF KeepsTree
<1> DEFINE Gone(U)   == \/ \E n \in U : n.at \in Prefixes(p) \cup {p} /\ MayDelete(n, protected)
                        \/ \E n \in U : n.at \in Prefixes(p) /\ MayTurn(n, protected)
           Turned(U) == \E n \in U : /\ n.at \in Prefixes(p) \cup {p}
                                     /\ (MayDelete(n, protected) \/ MayTurn(n, protected))
<1>1. /\ p \in DOMAIN y \/ Gone(S)
      /\ (p \in DOMAIN y /\ SameType(x[p], y[p])) \/ Turned(S)
  BY DEF KeepsTree
<1>2. p \in DOMAIN y =>
        /\ p \in DOMAIN z \/ Gone(T)
        /\ (p \in DOMAIN z /\ SameType(y[p], z[p])) \/ Turned(T)
  BY DEF KeepsTree
<1>3. /\ Gone(S) \/ Gone(T) => Gone(S \cup T)
      /\ Turned(S) \/ Turned(T) => Turned(S \cup T)
  OBVIOUS
<1>4. SameType(x[p], y[p]) /\ SameType(y[p], z[p]) => SameType(x[p], z[p])
  BY DEF SameType
<1> HIDE DEF Gone, Turned
<1>5. /\ p \in DOMAIN z \/ Gone(S \cup T)
      /\ (p \in DOMAIN z /\ SameType(x[p], z[p])) \/ Turned(S \cup T)
  BY <1>1, <1>2, <1>3, <1>4
<1> QED
  BY <1>5 DEF Gone, Turned

\* So it is of programs.
LEMMA ProgramTransitive ==
  ASSUME NEW x, NEW y, NEW z, NEW protected, NEW S, NEW T,
         KeepsProgram(x, y, protected, S), KeepsProgram(y, z, protected, T)
  PROVE  KeepsProgram(x, z, protected, S \cup T)
<1>1. "imports" \in protected => x.imports \subseteq z.imports
  BY DEF KeepsProgram
<1>2. ASSUME NEW f \in Functions(x)
      PROVE  /\ Pinned(f, protected) => f \in Functions(z)
             /\ "public_api" \in protected /\ f[1] # "" /\ Public(f[2]) =>
                  f \in Functions(z) \/ Node("deleted", "class", <<f[1]>>) \in S \cup T
             /\ "function_signatures" \in protected =>
                  \/ f \in Functions(z) /\ x.functions[f].sig = z.functions[f].sig
                  \/ ~Pinned(f, protected) /\ Node("deleted", "function", f) \in S \cup T
  <2>1. Pinned(f, protected) => f \in Functions(z)
    BY DEF KeepsProgram
  <2>2. "public_api" \in protected /\ f[1] # "" /\ Public(f[2]) =>
          f \in Functions(z) \/ Node("deleted", "class", <<f[1]>>) \in S \cup T
    BY DEF KeepsProgram
  <2>3. "function_signatures" \in protected =>
          \/ f \in Functions(z) /\ x.functions[f].sig = z.functions[f].sig
          \/ ~Pinned(f, protected) /\ Node("deleted", "function", f) \in S \cup T
    BY DEF KeepsProgram
  <2> QED
    BY <2>1, <2>2, <2>3
<1> QED
  BY <1>1, <1>2 DEF KeepsProgram

\* What is kept is kept over a chain of documents.
LEMMA KeepsTransitive ==
  ASSUME NEW a, NEW b, NEW c, a.domain = b.domain, NEW protected, NEW S, NEW T,
         Keeps(a, b, protected, S), Keeps(b, c, protected, T)
  PROVE  Keeps(a, c, protected, S \cup T)
<1>1. a.domain = "markdown" => KeepsText(a.content, c.content, protected)
  BY DEF Keeps, KeepsText
<1>2. a.domain = "json" => KeepsTree(a.content, c.content, protected, S \cup T)
  BY TreeTransitive DEF Keeps
<1>3. a.domain = "python" => KeepsProgram(a.content, c.content, protected, S \cup T)
  BY ProgramTransitive DEF Keeps
<1> QED
  BY <1>1, <1>2, <1>3 DEF Keeps

\* A clean proposal keeps what its contract protects.
LEMMA CleanKeeps ==
  ASSUME NEW p \in Proposals, Clean(p)
  PROVE  Keeps(p.from, p.to, p.contract.protected, Nodes(p.from, p.to))
<1> DEFINE nodes == Nodes(p.from, p.to)
<1>1. /\ ProtectedChanges(nodes, p.contract.protected) = {}
      /\ \A n \in nodes : ~RequiredDeletion(n)
  BY DEF Clean
<1>2. p.from \in Documents /\ p.to \in Documents /\ p.from.domain = p.to.domain
  BY ProposalType
<1>3. p.from.domain = "json" => Tree(p.from.content) /\ Tree(p.to.content)
  BY <1>2, DocumentsAssumption DEF Tree
<1>4. p.from.domain = "markdown" =>
        KeepsText(p.from.content, p.to.content, p.contract.protected)
  BY <1>1, CleanKeepsText
<1>5. p.from.domain = "json" =>
        KeepsTree(p.from.content, p.to.content, p.contract.protected, nodes)
  BY <1>1, <1>3, CleanKeepsTree
<1>6. p.from.domain = "python" =>
        KeepsProgram(p.from.content, p.to.content, p.contract.protected, nodes)
  <2>1. p.from.domain = "python" =>
          \A f \in Functions(p.from.content) : f[1] # "" => f[1] \in Classes(p.from.content)
    BY <1>2, DocumentsAssumption
  <2> QED
    BY <1>1, <2>1, CleanKeepsProgram
<1> QED
  BY <1>4, <1>5, <1>6 DEF Keeps

-----------------------------------------------------------------------------
(* A diff over two steps shows what one of the steps shows                 *)

\* One of these nodes happened to the same place as n.
Shown(n, nodes) == \E m \in nodes : Place(m) = Place(n)

\* The place of a node, by its kind.
LEMMA PlaceOfKind ==
  ASSUME NEW op, NEW kind, NEW at
  PROVE  /\ kind = "definition" => Place(Node(op, kind, at)) = <<"term", at[1]>>
         /\ kind \in {"function", "function_signature", "exception_handling", "method"} =>
              Place(Node(op, kind, at)) = <<"function", at>>
         /\ kind \in {"class", "class_bases"} => Place(Node(op, kind, at)) = <<"class", at>>
         /\ kind \in {"type_change", "number_type_change", "value_change", "key_deletion", "key_addition",
                      "array_item_deletion", "array_item_addition"} =>
              Place(Node(op, kind, at)) = <<"path", at>>
BY DEF Place, Node

\* What is gone after two steps went in one of them, and what came came in one.
LEMMA EachInStep ==
  ASSUME NEW op, NEW kind, NEW S, NEW T, NEW U
  PROVE  /\ Each(op, kind, S \ U) \subseteq Each(op, kind, S \ T) \cup Each(op, kind, T \ U)
         /\ Each(op, kind, Named(S \ U))
              \subseteq Each(op, kind, Named(S \ T)) \cup Each(op, kind, Named(T \ U))
<1>1. \A at \in S \ U : at \in S \ T \/ at \in T \ U
  OBVIOUS
<1>2. Each(op, kind, S \ U) \subseteq Each(op, kind, S \ T) \cup Each(op, kind, T \ U)
  BY <1>1 DEF Each
<1>3. \A at \in Named(S \ U) : at \in Named(S \ T) \/ at \in Named(T \ U)
  BY DEF Named
<1>4. Each(op, kind, Named(S \ U))
        \subseteq Each(op, kind, Named(S \ T)) \cup Each(op, kind, Named(T \ U))
  BY <1>3 DEF Each
<1> QED
  BY <1>2, <1>4

\* A term that is defined otherwise after two steps changed in one of them.
LEMMA DefinitionShown ==
  ASSUME NEW x, NEW y, NEW z, NEW n \in DefinitionNodes(x, z)
  PROVE  Shown(n, DefinitionNodes(x, y) \cup DefinitionNodes(y, z))
<1> DEFINE Gone(a, b)  == \A d \in a.definitions \ b.definitions :
                            \E op : Node(op, "definition", d) \in DefinitionNodes(a, b)
           Came(a, b)  == \A d \in b.definitions : d[1] \notin Terms(a) =>
                            Node("added", "definition", d) \in DefinitionNodes(a, b)
<1>1. \A a, b : Gone(a, b)
  <2> SUFFICES ASSUME NEW a, NEW b, NEW d \in a.definitions \ b.definitions
               PROVE  \E op : Node(op, "definition", d) \in DefinitionNodes(a, b)
    OBVIOUS
  <2>1. CASE d[1] \in Terms(b)
    BY <2>1 DEF DefinitionNodes, Each
  <2>2. CASE d[1] \notin Terms(b)
    BY <2>2 DEF DefinitionNodes, Each
  <2> QED
    BY <2>1, <2>2
<1>2. \A a, b : Came(a, b)
  BY DEF DefinitionNodes, Each, Terms
<1> HIDE DEF Gone, Came
<1>3. PICK d : /\ \E op : n = Node(op, "definition", d)
               /\ \/ d \in x.definitions \ z.definitions
                  \/ d \in z.definitions /\ d[1] \notin Terms(x)
  BY DEF DefinitionNodes, Each
<1>4. Place(n) = <<"term", d[1]>>
  BY <1>3, PlaceOfKind
<1>5. ASSUME NEW a, NEW b, NEW op, NEW e, Node(op, "definition", e) \in DefinitionNodes(a, b),
             e[1] = d[1], DefinitionNodes(a, b) \subseteq DefinitionNodes(x, y) \cup DefinitionNodes(y, z)
      PROVE  Shown(n, DefinitionNodes(x, y) \cup DefinitionNodes(y, z))
  <2>1. Place(Node(op, "definition", e)) = Place(n)
    BY <1>4, <1>5, PlaceOfKind
  <2> QED
    BY <1>5, <2>1 DEF Shown
<1>6. CASE d \in x.definitions \ z.definitions
  <2>1. CASE d \in y.definitions
    BY <1>1, <1>5, <1>6, <2>1 DEF Gone
  <2>2. CASE d \notin y.definitions
    BY <1>1, <1>5, <1>6, <2>2 DEF Gone
  <2> QED
    BY <2>1, <2>2
<1>7. CASE d \in z.definitions /\ d[1] \notin Terms(x)
  <2>1. CASE d[1] \in Terms(y)
    <3>1. PICK e \in y.definitions : e[1] = d[1]
      BY <2>1 DEF Terms
    <3> QED
      BY <1>2, <1>5, <1>7, <3>1 DEF Came
  <2>2. CASE d[1] \notin Terms(y)
    BY <1>2, <1>5, <1>7, <2>2 DEF Came
  <2> QED
    BY <2>1, <2>2
<1> QED
  BY <1>3, <1>6, <1>7

\* So it is for every element of a text.
LEMMA TextShown ==
  ASSUME NEW x, NEW y, NEW z, NEW n \in MarkdownNodes(x, z)
  PROVE  Shown(n, MarkdownNodes(x, y) \cup MarkdownNodes(y, z))
<1>1. ASSUME n \in MarkdownNodes(x, y) \cup MarkdownNodes(y, z)
      PROVE  Shown(n, MarkdownNodes(x, y) \cup MarkdownNodes(y, z))
  BY <1>1 DEF Shown
<1>2. CASE n \in HeadingNodes(x, z)
  <2>1. HeadingNodes(x, z) \subseteq HeadingNodes(x, y) \cup HeadingNodes(y, z)
    BY EachInStep DEF HeadingNodes
  <2> QED
    BY <1>1, <1>2, <2>1 DEF MarkdownNodes
<1>3. CASE n \in DefinitionNodes(x, z)
  BY <1>3, DefinitionShown DEF Shown, MarkdownNodes
<1>4. CASE n \in CitationNodes(x, z)
  <2>1. CitationNodes(x, z) \subseteq CitationNodes(x, y) \cup CitationNodes(y, z)
    BY EachInStep DEF CitationNodes
  <2> QED
    BY <1>1, <1>4, <2>1 DEF MarkdownNodes
<1>5. CASE n \in NumberNodes(x, z)
  <2>1. NumberNodes(x, z) \subseteq NumberNodes(x, y) \cup NumberNodes(y, z)
    BY EachInStep DEF NumberNodes
  <2> QED
    BY <1>1, <1>5, <2>1 DEF MarkdownNodes
<1>6. CASE n \in DateNodes(x, z) \cup LinkNodes(x, z)
  <2>1. /\ DateNodes(x, z) \subseteq DateNodes(x, y) \cup DateNodes(y, z)
        /\ LinkNodes(x, z) \subseteq LinkNodes(x, y) \cup LinkNodes(y, z)
    BY EachInStep DEF DateNodes, LinkNodes
  <2> QED
    BY <1>1, <1>6, <2>1 DEF MarkdownNodes
<1>7. CASE n \in CodeNodes(x, z)
  <2>1. CodeNodes(x, z) \subseteq CodeNodes(x, y) \cup CodeNodes(y, z)
    BY EachInStep DEF CodeNodes
  <2> QED
    BY <1>1, <1>7, <2>1 DEF MarkdownNodes
<1> QED
  BY <1>2, <1>3, <1>4, <1>5, <1>6, <1>7 DEF MarkdownNodes

\* A function or a class that went, came or changed over two steps did in one.
LEMMA ProgramShown ==
  ASSUME NEW x, NEW y, NEW z, NEW n \in PythonNodes(x, z)
  PROVE  Shown(n, PythonNodes(x, y) \cup PythonNodes(y, z))
<1> DEFINE nodes == PythonNodes(x, y) \cup PythonNodes(y, z)
<1>1. n \in nodes => Shown(n, nodes)
  BY DEF Shown
<1>2. CASE n \in ImportNodes(x, z)
  <2>1. ImportNodes(x, z) \subseteq ImportNodes(x, y) \cup ImportNodes(y, z)
    BY EachInStep DEF ImportNodes
  <2> QED
    BY <1>1, <1>2, <2>1 DEF PythonNodes
<1>3. ASSUME NEW f \in Functions(x) \ Functions(y), Place(n) = <<"function", f>>
      PROVE  Shown(n, nodes)
  <2>1. Node("deleted", "function", f) \in nodes
    BY <1>3 DEF PythonNodes, FunctionNodes, Each
  <2>2. Place(Node("deleted", "function", f)) = Place(n)
    BY <1>3, PlaceOfKind
  <2> QED
    BY <2>1, <2>2 DEF Shown
<1>4. CASE n \in Each("deleted", "function", Functions(x) \ Functions(z))
             \cup Each("added", "function", Functions(z) \ Functions(x))
  <2>1. n \in Each("deleted", "function", Functions(x) \ Functions(y))
                \cup Each("deleted", "function", Functions(y) \ Functions(z))
                \cup Each("added", "function", Functions(y) \ Functions(x))
                \cup Each("added", "function", Functions(z) \ Functions(y))
    BY <1>4, EachInStep
  <2> QED
    BY <1>1, <2>1 DEF PythonNodes, FunctionNodes
<1>5. CASE n \in Each("changed", "function_signature", Signatured(x, z))
  <2>1. PICK f \in Signatured(x, z) : n = Node("changed", "function_signature", f)
    BY <1>5 DEF Each
  <2>2. Place(n) = <<"function", f>>
    BY <2>1, PlaceOfKind
  <2>3. CASE f \in Functions(y)
    <3>1. f \in Signatured(x, y) \/ f \in Signatured(y, z)
      BY <2>1, <2>3 DEF Signatured
    <3>2. n \in nodes
      BY <2>1, <3>1 DEF PythonNodes, FunctionNodes, Each
    <3> QED
      BY <1>1, <3>2
  <2>4. CASE f \notin Functions(y)
    BY <1>3, <2>1, <2>2, <2>4 DEF Signatured
  <2> QED
    BY <2>3, <2>4
<1>6. CASE n \in Each("changed", "exception_handling",
                      {f \in Functions(x) \cap Functions(z) :
                         x.functions[f].handles /\ ~z.functions[f].handles})
  <2>1. PICK f \in Functions(x) \cap Functions(z) :
          /\ x.functions[f].handles /\ ~z.functions[f].handles
          /\ n = Node("changed", "exception_handling", f)
    BY <1>6 DEF Each
  <2>2. Place(n) = <<"function", f>>
    BY <2>1, PlaceOfKind
  <2>3. CASE f \in Functions(y) /\ y.functions[f].handles
    <3>1. n \in nodes
      BY <2>1, <2>3 DEF PythonNodes, FunctionNodes, Each
    <3> QED
      BY <1>1, <3>1
  <2>4. CASE f \in Functions(y) /\ ~y.functions[f].handles
    <3>1. n \in nodes
      BY <2>1, <2>4 DEF PythonNodes, FunctionNodes, Each
    <3> QED
      BY <1>1, <3>1
  <2>5. CASE f \notin Functions(y)
    BY <1>3, <2>1, <2>2, <2>5
  <2> QED
    BY <2>3, <2>4, <2>5
<1>7. CASE n \in Each("deleted", "class", Named(Classes(x) \ Classes(z)))
             \cup Each("added", "class", Named(Classes(z) \ Classes(x)))
  <2>1. n \in Each("deleted", "class", Named(Classes(x) \ Classes(y)))
                \cup Each("deleted", "class", Named(Classes(y) \ Classes(z)))
                \cup Each("added", "class", Named(Classes(y) \ Classes(x)))
                \cup Each("added", "class", Named(Classes(z) \ Classes(y)))
    BY <1>7, EachInStep
  <2> QED
    BY <1>1, <2>1 DEF PythonNodes, ClassNodes
<1>8. CASE n \in Each("changed", "class_bases",
                      Named({c \in Classes(x) \cap Classes(z) : x.classes[c] # z.classes[c]}))
  <2>1. PICK c \in Classes(x) \cap Classes(z) :
          x.classes[c] # z.classes[c] /\ n = Node("changed", "class_bases", <<c>>)
    BY <1>8 DEF Each, Named
  <2>2. CASE c \in Classes(y)
    <3>1. n \in nodes
      BY <2>1, <2>2 DEF PythonNodes, ClassNodes, Each, Named
    <3> QED
      BY <1>1, <3>1
  <2>3. CASE c \notin Classes(y)
    <3>1. Node("deleted", "class", <<c>>) \in nodes
      BY <2>1, <2>3 DEF PythonNodes, ClassNodes, Each, Named
    <3>2. Place(Node("deleted", "class", <<c>>)) = Place(n)
      BY <2>1, PlaceOfKind
    <3> QED
      BY <3>1, <3>2 DEF Shown
  <2> QED
    BY <2>2, <2>3
<1>9. CASE n \in Each("deleted", "method",
                      {f \in Functions(x) \ Functions(z) : f[1] \in Classes(x) \cap Classes(z)})
  <2>1. PICK f \in Functions(x) \ Functions(z) : n = Node("deleted", "method", f)
    BY <1>9 DEF Each
  <2>2. Place(n) = <<"function", f>>
    BY <2>1, PlaceOfKind
  <2>3. CASE f \in Functions(y)
    <3>1. Node("deleted", "function", f) \in nodes
      BY <2>1, <2>3 DEF PythonNodes, FunctionNodes, Each
    <3>2. Place(Node("deleted", "function", f)) = Place(n)
      BY <2>2, PlaceOfKind
    <3> QED
      BY <3>1, <3>2 DEF Shown
  <2>4. CASE f \notin Functions(y)
    BY <1>3, <2>1, <2>2, <2>4
  <2> QED
    BY <2>3, <2>4
<1>10. CASE n \in FunctionNodes(x, z)
  BY <1>4, <1>5, <1>6, <1>10 DEF FunctionNodes
<1>11. CASE n \in ClassNodes(x, z)
  BY <1>7, <1>8, <1>9, <1>11 DEF ClassNodes
<1>12. n \in ImportNodes(x, z) \/ n \in FunctionNodes(x, z) \/ n \in ClassNodes(x, z)
  BY DEF PythonNodes
<1> QED
  BY <1>2, <1>10, <1>11, <1>12

\* A path at or above which a diff shows something.
ShownAbove(p, nodes) == \E q \in Prefixes(p) \cup {p} : \E m \in nodes : Place(m) = <<"path", q>>

\* Of two trees, a diff shows the paths that one of them alone has below the same container,
\* and those that hold incomparable or different things there.
LEMMA PathShown ==
  ASSUME NEW x, NEW y, Tree(x), Tree(y), NEW p,
         \A q \in Prefixes(p) : q \in DOMAIN x /\ q \in DOMAIN y /\ x[q].type = y[q].type,
         ~ \E m \in JsonNodes(x, y) : Place(m) = <<"path", p>>
  PROVE  /\ p \in DOMAIN x <=> p \in DOMAIN y
         /\ p \in DOMAIN x =>
              /\ Comparable(x[p], y[p])
              /\ x[p].type \notin {"object", "array"} => SameValue(x[p], y[p])
<1> DEFINE NoNode(op, kind) == Node(op, kind, p) \notin JsonNodes(x, y)
<1>1. /\ \A op : NoNode(op, "type_change") /\ NoNode(op, "value_change")
      /\ \A op : NoNode(op, "key_deletion") /\ NoNode(op, "key_addition")
      /\ \A op : NoNode(op, "array_item_deletion") /\ NoNode(op, "array_item_addition")
  BY PlaceOfKind
<1>2. ASSUME NEW a, NEW b, Tree(a), Tree(b), p \in DOMAIN a, p \notin DOMAIN b,
             \A q \in Prefixes(p) : q \in DOMAIN a /\ q \in DOMAIN b /\ a[q].type = b[q].type
      PROVE  p \in Members(a, Missing(a, b), "object") \cup Members(a, Missing(a, b), "array")
  <2>1. p \in Seq(STRING) /\ p # <<>>
    BY <1>2 DEF Tree
  <2>2. Parent(p) \in Prefixes(p) /\ Prefixes(Parent(p)) \subseteq Prefixes(p)
    BY <2>1, PrefixesOf
  <2>3. Parent(p) \in Visited(a, b) /\ a[Parent(p)].type = b[Parent(p)].type
    BY <1>2, <2>2 DEF Visited
  <2>4. a[Parent(p)].type \in {"object", "array"}
    BY <1>2, <2>2 DEF Tree
  <2> QED
    BY <1>2, <2>3, <2>4 DEF Members, Missing
<1>3. p \in DOMAIN x => p \in DOMAIN y
  <2> SUFFICES ASSUME p \in DOMAIN x, p \notin DOMAIN y PROVE FALSE
    OBVIOUS
  <2>1. p \in Members(x, Missing(x, y), "object") \cup Members(x, Missing(x, y), "array")
    BY <1>2
  <2> QED
    BY <1>1, <2>1 DEF JsonNodes, KeyNodes, ItemNodes, Each
<1>4. p \in DOMAIN y => p \in DOMAIN x
  <2> SUFFICES ASSUME p \in DOMAIN y, p \notin DOMAIN x PROVE FALSE
    OBVIOUS
  <2>1. p \in Members(y, Missing(y, x), "object") \cup Members(y, Missing(y, x), "array")
    BY <1>2
  <2> QED
    BY <1>1, <2>1 DEF JsonNodes, KeyNodes, ItemNodes, Each
<1>5. ASSUME p \in DOMAIN x
      PROVE  /\ Comparable(x[p], y[p])
             /\ x[p].type \notin {"object", "array"} => SameValue(x[p], y[p])
  <2>1. p \in Visited(x, y)
    BY <1>3, <1>5 DEF Visited
  <2>2. Comparable(x[p], y[p])
    <3> SUFFICES ASSUME ~Comparable(x[p], y[p]) PROVE FALSE
      OBVIOUS
    <3>1. PICK m \in TypeNodes(x, y) : m.at = p
      BY <2>1, TypeNodesAre
    <3>2. Place(m) = <<"path", p>>
      BY <3>1, TypeNodesAre, PlaceOfKind
    <3> QED
      BY <3>1, <3>2 DEF JsonNodes
  <2>3. x[p].type \notin {"object", "array"} => SameValue(x[p], y[p])
    BY <1>1, <2>1, <2>2 DEF JsonNodes, ValueNodes, Each
  <2> QED
    BY <2>2, <2>3
<1> QED
  BY <1>3, <1>4, <1>5

\* Where no diff shows a path or one above it, the containers above it are the same.
LEMMA ContainersAgree ==
  ASSUME NEW x, NEW y, Tree(x), Tree(y), NEW p \in Seq(STRING),
         \A q \in Prefixes(p) : q \in DOMAIN x /\ x[q].type \in {"object", "array"},
         ~ShownAbove(p, JsonNodes(x, y))
  PROVE  \A q \in Prefixes(p) : q \in DOMAIN y /\ x[q].type = y[q].type
<1> DEFINE bad == {q \in Prefixes(p) : ~(q \in DOMAIN y /\ x[q].type = y[q].type)}
           lengths == {Len(q) : q \in bad}
<1> SUFFICES ASSUME bad # {} PROVE FALSE
  OBVIOUS
<1>1. \A q \in Prefixes(p) : q \in Seq(STRING) /\ Len(q) \in Nat
  BY PrefixesOf
<1>2. lengths \in SUBSET Nat /\ lengths # {}
  BY <1>1
<1>3. PICK n \in lengths : \A m \in lengths : ~(<<m, n>> \in OpToRel(<, Nat))
  BY <1>2, WFMin, NatLessThanWellFounded
<1>4. PICK r \in bad : Len(r) = n
  OBVIOUS
<1>5. \A q \in bad : ~(Len(q) < Len(r))
  BY <1>1, <1>3, <1>4 DEF OpToRel
<1>6. \A q \in Prefixes(r) : Len(q) < Len(r) /\ q \in Prefixes(p)
  BY <1>1, PrefixesOf
<1>7. \A q \in Prefixes(r) : q \in DOMAIN x /\ q \in DOMAIN y /\ x[q].type = y[q].type
  BY <1>5, <1>6
<1>8. ~ \E m \in JsonNodes(x, y) : Place(m) = <<"path", r>>
  BY DEF ShownAbove
<1>9. r \in DOMAIN y /\ Comparable(x[r], y[r])
  BY <1>7, <1>8, PathShown
<1>10. x[r].type = y[r].type
  BY <1>9 DEF Comparable, Numeric
<1> QED
  BY <1>9, <1>10

\* A path that two steps show for different, one of them shows, or one above it.
LEMMA TreeShown ==
  ASSUME NEW x, NEW y, NEW z, Tree(x), Tree(y), Tree(z), NEW n \in JsonNodes(x, z)
  PROVE  /\ Place(n) = <<"path", n.at>> /\ n.at \in Seq(STRING)
         /\ ShownAbove(n.at, JsonNodes(x, y)) \/ ShownAbove(n.at, JsonNodes(y, z))
<1> DEFINE p == n.at
<1>1. Place(n) = <<"path", p>>
  <2>1. CASE n \in TypeNodes(x, z)
    BY <2>1, TypeNodesAre, PlaceOfKind
  <2>2. CASE n \in ValueNodes(x, z) \cup KeyNodes(x, z) \cup ItemNodes(x, z)
    BY <2>2, PlaceOfKind DEF ValueNodes, KeyNodes, ItemNodes, Each, Node
  <2> QED
    BY <2>1, <2>2 DEF JsonNodes
<1>2. /\ p \in Visited(x, z) \/ p \in Missing(x, z) \/ p \in Missing(z, x)
      /\ p \in DOMAIN x \/ p \in DOMAIN z
  <2>1. p \in Visited(x, z) \/ p \in Missing(x, z) \/ p \in Missing(z, x)
    <3>1. CASE n \in TypeNodes(x, z)
      BY <3>1, TypeNodesAre
    <3>2. CASE n \in ValueNodes(x, z) \cup KeyNodes(x, z) \cup ItemNodes(x, z)
      BY <3>2 DEF ValueNodes, KeyNodes, ItemNodes, Each, Node, Members
    <3> QED
      BY <3>1, <3>2 DEF JsonNodes
  <2> QED
    BY <2>1 DEF Visited, Missing
<1>3. p \in Seq(STRING)
  BY <1>2 DEF Tree
<1> SUFFICES ASSUME ~ShownAbove(p, JsonNodes(x, y)), ~ShownAbove(p, JsonNodes(y, z))
             PROVE  FALSE
  BY <1>1, <1>3
<1>4. \A q \in Prefixes(p) : /\ q \in DOMAIN x /\ q \in DOMAIN z /\ x[q].type = z[q].type
                             /\ x[q].type \in {"object", "array"}
  <2>1. \A q \in Prefixes(p) : q \in DOMAIN x /\ q \in DOMAIN z /\ x[q].type = z[q].type
    <3>1. CASE p \in Visited(x, z)
      BY <1>2, <3>1 DEF Visited, Tree
    <3>2. ASSUME NEW a, NEW b, Tree(a), Tree(b), p \in Missing(a, b)
          PROVE  \A q \in Prefixes(p) : q \in DOMAIN a /\ q \in DOMAIN b /\ a[q].type = b[q].type
      <4>1. /\ Parent(p) \in Visited(a, b) /\ a[Parent(p)].type = b[Parent(p)].type
            /\ p \in DOMAIN a /\ p # <<>>
        BY <3>2 DEF Missing, Tree
      <4>2. \A q \in Prefixes(p) : q = Parent(p) \/ q \in Prefixes(Parent(p))
        BY <1>3, <4>1, ParentLongest
      <4>3. /\ Parent(p) \in DOMAIN a /\ Parent(p) \in DOMAIN b
            /\ \A q \in Prefixes(Parent(p)) : a[q].type = b[q].type
        BY <4>1 DEF Visited
      <4>4. \A q \in Prefixes(Parent(p)) : q \in DOMAIN a /\ q \in DOMAIN b
        BY <3>2, <4>3 DEF Tree
      <4> QED
        BY <4>1, <4>2, <4>3, <4>4
    <3> QED
      BY <1>2, <3>1, <3>2
  <2>2. \A q \in Prefixes(p) : x[q].type \in {"object", "array"} \/ z[q].type \in {"object", "array"}
    BY <1>2 DEF Tree
  <2> QED
    BY <2>1, <2>2
<1>5. \A q \in Prefixes(p) : q \in DOMAIN y /\ x[q].type = y[q].type
  BY <1>3, <1>4, ContainersAgree
<1>6. /\ ~ \E m \in JsonNodes(x, y) : Place(m) = <<"path", p>>
      /\ ~ \E m \in JsonNodes(y, z) : Place(m) = <<"path", p>>
  BY DEF ShownAbove
<1>7. /\ p \in DOMAIN x <=> p \in DOMAIN y
      /\ p \in DOMAIN x => /\ Comparable(x[p], y[p])
                           /\ x[p].type \notin {"object", "array"} => SameValue(x[p], y[p])
  BY <1>4, <1>5, <1>6, PathShown
<1>8. /\ p \in DOMAIN y <=> p \in DOMAIN z
      /\ p \in DOMAIN y => /\ Comparable(y[p], z[p])
                           /\ y[p].type \notin {"object", "array"} => SameValue(y[p], z[p])
  BY <1>4, <1>5, <1>6, PathShown
<1>9. p \in Visited(x, z)
  BY <1>2, <1>4, <1>7, <1>8 DEF Visited
<1>10. Comparable(x[p], z[p])
  BY <1>2, <1>7, <1>8 DEF Comparable
<1>11. x[p].type \notin {"object", "array"} => SameValue(x[p], z[p])
  <2>1. x[p].type \notin {"object", "array"} => y[p].type \notin {"object", "array"}
    BY <1>2, <1>7, <1>8 DEF Comparable, Numeric
  <2> QED
    BY <1>2, <1>7, <1>8, <2>1 DEF SameValue
<1>12. n \notin TypeNodes(x, z)
  BY <1>10, TypeNodesAre
<1> QED
  BY <1>2, <1>7, <1>8, <1>11, <1>12
     DEF JsonNodes, ValueNodes, KeyNodes, ItemNodes, Each, Node, Members, Missing

\* What was told of stays told of, and so is all that a further step shows.
LEMMA ToldAcross ==
  ASSUME NEW a \in Documents, NEW b \in Documents, NEW c \in Documents,
         a.domain = b.domain, b.domain = c.domain, NEW T,
         \A place \in Places(Nodes(a, b)) : ToldOf(place, T)
  PROVE  \A place \in Places(Nodes(a, c)) : ToldOf(place, T \cup Places(Nodes(b, c)))
<1> DEFINE more == T \cup Places(Nodes(b, c))
<1>1. \A m \in Nodes(a, b) : ToldOf(Place(m), T)
  BY DEF Places
<1>2. \A m \in Nodes(b, c) : Place(m) \in more
  BY DEF Places
<1>3. \A place : ToldOf(place, T) => ToldOf(place, more)
  BY DEF ToldOf
<1>4. \A place \in more : ToldOf(place, more)
  BY DEF ToldOf
<1> HIDE DEF more
<1> SUFFICES ASSUME NEW n \in Nodes(a, c) PROVE ToldOf(Place(n), more)
  BY DEF Places, more
<1>5. Shown(n, Nodes(a, b) \cup Nodes(b, c)) => ToldOf(Place(n), more)
  BY <1>1, <1>2, <1>3, <1>4 DEF Shown
<1>6. CASE a.domain = "markdown"
  <2>1. Shown(n, Nodes(a, b) \cup Nodes(b, c))
    BY <1>6, TextShown DEF Nodes
  <2> QED
    BY <1>5, <2>1
<1>7. CASE a.domain = "python"
  <2>1. Shown(n, Nodes(a, b) \cup Nodes(b, c))
    BY <1>7, ProgramShown DEF Nodes
  <2> QED
    BY <1>5, <2>1
<1>8. CASE a.domain = "json"
  <2> DEFINE p == n.at
  <2>1. Tree(a.content) /\ Tree(b.content) /\ Tree(c.content)
    BY <1>8, DocumentsAssumption DEF Tree
  <2>2. /\ Nodes(a, b) = JsonNodes(a.content, b.content)
        /\ Nodes(b, c) = JsonNodes(b.content, c.content)
        /\ n \in JsonNodes(a.content, c.content)
    BY <1>8 DEF Nodes
  <2>3. /\ Place(n) = <<"path", p>> /\ p \in Seq(STRING)
        /\ ShownAbove(p, Nodes(a, b)) \/ ShownAbove(p, Nodes(b, c))
    BY <2>1, <2>2, TreeShown
  <2>4. PICK q \in Prefixes(p) \cup {p} : \E m \in Nodes(a, b) \cup Nodes(b, c) : Place(m) = <<"path", q>>
    BY <2>3 DEF ShownAbove
  <2>5. ToldOf(<<"path", q>>, more)
    BY <1>1, <1>2, <1>3, <1>4, <2>4
  <2>6. Prefixes(q) \subseteq Prefixes(p)
    BY <2>3, <2>4, PrefixesOf
  <2>7. <<"path", q>> \in more \/ \E r \in Prefixes(q) : <<"path", r>> \in more
    BY <2>5 DEF ToldOf
  <2>8. <<"path", p>> \in more \/ \E r \in Prefixes(p) : <<"path", r>> \in more
    BY <2>4, <2>6, <2>7
  <2> QED
    BY <2>3, <2>8 DEF ToldOf
<1> QED
  BY <1>6, <1>7, <1>8, DocumentsAssumption

\* A diff of a document with itself shows nothing.
LEMMA NothingShown ==
  ASSUME NEW a \in Documents
  PROVE  Places(Nodes(a, a)) = {}
<1> DEFINE x == a.content
<1>1. MarkdownNodes(x, x) = {}
  BY DEF MarkdownNodes, HeadingNodes, DefinitionNodes, CitationNodes, NumberNodes, DateNodes,
         LinkNodes, CodeNodes, Each, Named
<1>2. PythonNodes(x, x) = {}
  BY DEF PythonNodes, ImportNodes, FunctionNodes, ClassNodes, Signatured, Each, Named
<1>3. JsonNodes(x, x) = {}
  <2>1. TypeNodes(x, x) = {}
    BY TypeNodesAre DEF Comparable
  <2>2. ValueNodes(x, x) = {} /\ KeyNodes(x, x) = {} /\ ItemNodes(x, x) = {}
    BY DEF ValueNodes, KeyNodes, ItemNodes, Missing, Members, SameValue, Each
  <2> QED
    BY <2>1, <2>2 DEF JsonNodes
<1>4. Nodes(a, a) = {}
  BY <1>1, <1>2, <1>3, DocumentsAssumption DEF Nodes
<1> QED
  BY <1>4 DEF Places

-----------------------------------------------------------------------------
(* The inductive invariant                                                 *)

\* What is held is what the last proposal was evaluated to.
Held(p) ==
  /\ p.from = base /\ p.to = proposed /\ p.contract = contract
  /\ p.claims = claims /\ p.counts = diff

\* The result held, if any, is of a proposal; while it has no outcome, its base is the
\* version in place; and what is in place keeps what is protected of the first version, its
\* drift told of.
ChainIInv ==
  /\ ChainTypeOK
  /\ current.domain = original.domain /\ base.domain = proposed.domain
  /\ outcome = "none" => base = current
  /\ result # NoResult => \E p \in Proposals : Held(p)
  /\ UnreviewedKeepsProtected
  /\ DriftIsTold

\* A step of the chain is a step of the evaluation or leaves it alone.
LEMMA ChainStep == [ChainNext]_chainVars => [Next]_vars
<1> SUFFICES ASSUME [ChainNext]_chainVars PROVE [Next]_vars
  OBVIOUS
<1>1. ASSUME NEW p \in Offered, NEW h \in Contexts, NEW log \in BOOLEAN,
             Propose(p, h, log) \/ ProposeFails(p, h, log)
      PROVE  Next
  <2>1. p.counts \in Diffs
    BY ProposalsAssumption DEF Offered
  <2> QED
    BY <1>1, <2>1 DEF Propose, ProposeFails, Next
<1>2. CASE Settle
  BY <1>2 DEF Settle, Next
<1>3. CASE LetPass
  BY <1>3 DEF LetPass
<1>4. CASE UNCHANGED chainVars
  BY <1>4 DEF chainVars
<1> QED
  BY <1>1, <1>2, <1>3, <1>4 DEF ChainNext

\* The chain implements the evaluation of changes: whatever ChangeEvaluation promises holds for
\* every chain of documents.
THEOREM ChainImplementsEvaluation == ChainSpec => Spec
<1>1. ChainInit => Init
  BY DEF ChainInit
<1> QED
  BY <1>1, ChainStep, PTL DEF ChainSpec, Spec

\* What is applied is clean.
LEMMA AppliedIsClean ==
  ASSUME NEW p \in Proposals, NEW h, p.contract = contract, contract \in Contracts,
         ApplyOrHalt(EvaluationOf(p.counts, h).action) = "applied"
  PROVE  Clean(p)
<1> DEFINE r == EvaluationOf(p.counts, h)
<1>1. r.action \in PolicyActions /\ r.required \notin {"halt", "human_review"}
  BY EvaluationType, OutcomeType DEF Results
<1>2. r.required = Classify(p.counts, p.contract).required
  BY DEF EvaluationOf
<1> QED
  BY <1>1, <1>2, ApprovedIsClean

\* A change that takes its place is told of, and with it all that has drifted.
LEMMA AcceptTells ==
  ASSUME ChainIInv, current = base, Accept
  PROVE  DriftIsTold'
<1>1. /\ original \in Documents /\ base \in Documents /\ proposed \in Documents
      /\ original.domain = base.domain /\ base.domain = proposed.domain
      /\ \A place \in Places(Nodes(original, base)) : ToldOf(place, Places(told))
  BY DEF ChainIInv, ChainTypeOK, DriftIsTold
<1>2. \A place \in Places(Nodes(original, proposed)) :
        ToldOf(place, Places(told) \cup Places(Nodes(base, proposed)))
  BY <1>1, ToldAcross
<1>3. original' = original /\ current' = proposed /\ told' = told \cup Nodes(base, proposed)
  BY DEF Accept
<1>4. Places(told') = Places(told) \cup Places(Nodes(base, proposed))
  BY <1>3 DEF Places
<1>5. \A place \in Places(Nodes(original', current')) : ToldOf(place, Places(told'))
  BY <1>2, <1>3, <1>4
<1> QED
  BY <1>5 DEF DriftIsTold

\* Every step of a chain keeps the invariant.
LEMMA ChainStepInv == ChainIInv /\ IInv /\ IInv' /\ [ChainNext]_chainVars => ChainIInv'
<1> SUFFICES ASSUME ChainIInv, IInv, IInv', [ChainNext]_chainVars PROVE ChainIInv'
  OBVIOUS
<1>0. TypeOK'
  BY DEF IInv
<1>1. ASSUME NEW p \in Offered, Proposal(p), diff' = p.counts, contract' = contract,
             outcome' = "none"
      PROVE  ChainIInv'
  <2>0. p \in Proposals /\ p.from = current /\ p.contract = contract
    BY DEF Offered
  <2>1. /\ p.from \in Documents /\ p.to \in Documents /\ p.claims \in Claims
        /\ p.from.domain = p.to.domain
    BY <2>0, ProposalType
  <2>2. Held(p)'
    BY <1>1, <2>0 DEF Held, Proposal
  <2>3. ChainTypeOK'
    BY <1>0, <1>1, <2>1 DEF Proposal, ChainIInv, ChainTypeOK
  <2>4. UnreviewedKeepsProtected'
    BY <1>1 DEF Proposal, ChainIInv, UnreviewedKeepsProtected
  <2>5. DriftIsTold'
    BY <1>1 DEF Proposal, ChainIInv, DriftIsTold
  <2> QED
    BY <1>1, <2>0, <2>1, <2>2, <2>3, <2>4, <2>5 DEF Proposal, ChainIInv
<1>2. ASSUME NEW p \in Offered, NEW h \in Contexts, NEW log \in BOOLEAN,
             Propose(p, h, log) \/ ProposeFails(p, h, log)
      PROVE  ChainIInv'
  BY <1>1, <1>2 DEF Propose, ProposeFails, Evaluate, EvaluateFails
<1>3. CASE Settle
  <2>1. /\ Apply /\ result # NoResult /\ base = current
        /\ UNCHANGED <<contract, diff, result>> /\ outcome' # "none"
        /\ UNCHANGED <<original, base, proposed, claims, reviewed>>
    <3>1. Apply
      BY <1>3 DEF Settle
    <3>2. /\ result # NoResult /\ outcome = "none" /\ outcome' = ApplyOrHalt(result.action)
          /\ UNCHANGED <<contract, diff, result>>
      BY <3>1 DEF Apply
    <3>3. outcome' # "none"
      BY <3>2 DEF ApplyOrHalt
    <3>4. UNCHANGED <<original, base, proposed, claims, reviewed>>
      BY <1>3 DEF Settle, Accept, documents
    <3> QED
      BY <3>1, <3>2, <3>3, <3>4 DEF ChainIInv
  <2>2. PICK p \in Proposals : Held(p)
    BY <2>1 DEF ChainIInv
  <2>3. Held(p)'
    BY <2>1, <2>2 DEF Held
  <2>4. CASE outcome' = "applied"
    <3>1. current' = proposed /\ told' = told \cup Nodes(base, proposed)
      BY <1>3, <2>4 DEF Settle, Accept
    <3>2. Clean(p)
      <4>1. contract \in Contracts /\ result = EvaluationOf(diff, rc)
        BY <2>1 DEF IInv, TypeOK
      <4>2. outcome' = ApplyOrHalt(EvaluationOf(p.counts, rc).action)
        BY <2>1, <2>2, <4>1 DEF Apply, Held
      <4> QED
        BY <2>2, <2>4, <4>1, <4>2, AppliedIsClean DEF Held
    <3>3. Keeps(base, proposed, contract.protected, Nodes(base, proposed))
      BY <2>2, <3>2, CleanKeeps DEF Held
    <3>4. original.domain = current.domain
      BY DEF ChainIInv
    <3>5. ~reviewed => Keeps(original, proposed, contract.protected, told')
      <4>1. ~reviewed => Keeps(original, current, contract.protected, told)
        BY DEF ChainIInv, UnreviewedKeepsProtected
      <4> QED
        BY <2>1, <3>1, <3>3, <3>4, <4>1, KeepsTransitive
    <3>6. ChainTypeOK'
      BY <1>0, <2>1, <3>1 DEF ChainIInv, ChainTypeOK
    <3>7. UnreviewedKeepsProtected'
      BY <2>1, <3>1, <3>5 DEF UnreviewedKeepsProtected
    <3>8. current'.domain = original'.domain
      BY <2>1, <3>1, <3>4 DEF ChainIInv
    <3>9. DriftIsTold'
      <4>1. Accept
        BY <1>3, <2>4 DEF Settle
      <4> QED
        BY <2>1, <4>1, AcceptTells
    <3> QED
      BY <2>1, <2>3, <3>6, <3>7, <3>8, <3>9 DEF ChainIInv
  <2>5. CASE outcome' # "applied"
    <3>1. UNCHANGED documents
      BY <1>3, <2>5 DEF Settle
    <3>2. ChainTypeOK'
      BY <1>0, <3>1 DEF ChainIInv, ChainTypeOK, documents
    <3>3. UnreviewedKeepsProtected'
      BY <2>1, <3>1 DEF ChainIInv, UnreviewedKeepsProtected, documents
    <3>4. DriftIsTold'
      BY <3>1 DEF ChainIInv, DriftIsTold, documents
    <3> QED
      BY <2>1, <2>3, <3>1, <3>2, <3>3, <3>4 DEF ChainIInv, documents
  <2> QED
    BY <2>4, <2>5
<1>4. CASE LetPass
  <2>1. /\ outcome = "pending_review" /\ current = base
        /\ current' = proposed /\ reviewed' = TRUE
        /\ UNCHANGED <<original, base, proposed, claims>>
        /\ UNCHANGED <<contract, diff, result, outcome>>
    BY <1>4 DEF LetPass, Accept, vars
  <2>2. ChainTypeOK'
    BY <1>0, <2>1 DEF ChainIInv, ChainTypeOK
  <2>3. \A p : Held(p) => Held(p)'
    BY <2>1 DEF Held
  <2>4. DriftIsTold'
    BY <1>4, AcceptTells DEF LetPass
  <2> QED
    BY <2>1, <2>2, <2>3, <2>4 DEF ChainIInv, UnreviewedKeepsProtected
<1>5. CASE UNCHANGED chainVars
  <2>1. ChainTypeOK'
    BY <1>0, <1>5 DEF ChainIInv, ChainTypeOK, chainVars, documents
  <2>2. \A p : Held(p) => Held(p)'
    BY <1>5 DEF Held, chainVars, vars, documents
  <2>3. UnreviewedKeepsProtected'
    BY <1>5 DEF ChainIInv, UnreviewedKeepsProtected, chainVars, vars, documents
  <2>4. DriftIsTold'
    BY <1>5 DEF ChainIInv, DriftIsTold, chainVars, documents
  <2> QED
    BY <1>5, <2>1, <2>2, <2>3, <2>4 DEF ChainIInv, chainVars, vars, documents
<1> QED
  BY <1>2, <1>3, <1>4, <1>5 DEF ChainNext

\* The invariant holds in every state of every chain.
LEMMA ChainInvariance == ChainSpec => []ChainIInv
<1>1. ChainInit => ChainIInv
  <2> SUFFICES ASSUME ChainInit PROVE ChainIInv
    OBVIOUS
  <2>1. TypeOK
    BY DEF ChainInit, Init, TypeOK
  <2>2. Keeps(original, original, contract.protected, told)
    BY KeepsReflexive
  <2>3. original \in Documents /\ {} \in Claims
    BY OriginalsAssumption, NoClaimAssumption DEF ChainInit
  <2>4. DriftIsTold
    <3>1. Places(Nodes(original, current)) = {}
      BY <2>3, NothingShown DEF ChainInit
    <3> QED
      BY <3>1 DEF DriftIsTold
  <2> QED
    BY <2>1, <2>2, <2>3, <2>4
       DEF ChainInit, Init, ChainIInv, ChainTypeOK, UnreviewedKeepsProtected
<1>2. ChainSpec => []IInv
  BY ChainImplementsEvaluation, Invariance, PTL
<1> QED
  BY <1>1, <1>2, ChainStepInv, PTL DEF ChainSpec

-----------------------------------------------------------------------------
(* The theorems                                                            *)

\* Every reachable state of a chain has its type.
THEOREM ChainTypeCorrect == ChainSpec => []ChainTypeOK
BY ChainInvariance, PTL DEF ChainIInv

\* However long the chain and whatever the contract protects, until a human has let a change
\* pass each thing of the first version is in place that its protection does not let go:
\* text, imports, tests and public functions; public methods but for deleted classes; places
\* of a tree with their types, and signatures, but for what accepted steps openly deleted or
\* turned without touching what is protected.
THEOREM UnreviewedKeeps == ChainSpec => []UnreviewedKeepsProtected
BY ChainInvariance, PTL DEF ChainIInv

\* Whatever a diff of the present version against the first one shows, an accepted step has
\* told of: a path with one at or above it, everything else with its own place.
THEOREM DriftTold == ChainSpec => []DriftIsTold
BY ChainInvariance, PTL DEF ChainIInv

\* A misreport is stopped: numbers claimed unchanged that went or came, and signatures
\* claimed unchanged that functions in both versions lost, are not applied unreviewed, and
\* citations claimed unchanged of which one went halt.
THEOREM MisreportStopped == ChainSpec => []MisreportIsStopped
<1>1. ChainIInv /\ IInv => MisreportIsStopped
  <2> SUFFICES ASSUME ChainIInv, IInv, outcome # "none" PROVE MisreportIsStopped
    BY DEF MisreportIsStopped
  <2> DEFINE x == base.content
             y == proposed.content
             nodes == Nodes(base, proposed)
  <2>1. PICK p \in Proposals : Held(p)
    BY DEF ChainIInv, IInv
  <2>2. /\ contract \in Contracts /\ result = EvaluationOf(diff, rc)
        /\ outcome = ApplyOrHalt(result.action)
    BY DEF IInv, TypeOK
  <2>3. outcome = "applied" => /\ ~NumbersMisreported(base.domain, nodes, claims)
                               /\ SignaturesMisreported(base.domain, nodes, claims) = {}
    <3>1. outcome = "applied" => Clean(p)
      BY <2>1, <2>2, AppliedIsClean DEF Held
    <3> QED
      BY <2>1, <3>1 DEF Clean, Held
  <2>4. CitationsMisreported(base.domain, nodes, claims) => outcome = "halted"
    <3> SUFFICES ASSUME CitationsMisreported(base.domain, nodes, claims)
                 PROVE  outcome = "halted"
      OBVIOUS
    <3>1. diff = CountsOf(base.domain, nodes, contract, claims)
      BY <2>1, ProposalType DEF Held
    <3>2. diff.criticalMismatches = 1
      BY <3>1 DEF CountsOf, Count
    <3>3. result.required = "halt"
      BY <2>2, <3>2 DEF EvaluationOf, Classify, Verdict
    <3>4. result.action = "halt"
      BY <2>2, <3>3, EvaluationType
    <3>5. result.action \in PolicyActions
      BY <3>4 DEF PolicyActions
    <3> QED
      BY <2>2, <3>4, <3>5, OutcomeType
  <2>5. ASSUME base.domain = "markdown", "numbers" \in claims, outcome = "applied"
        PROVE  x.numbers = y.numbers
    <3>1. \A n \in nodes : n.kind # "number"
      BY <2>3, <2>5 DEF NumbersMisreported
    <3>2. NumberNodes(x, y) \subseteq nodes
      BY <2>5 DEF Nodes, MarkdownNodes
    <3>3. \A n \in NumberNodes(x, y) : n.kind = "number"
      BY DEF NumberNodes, Each, Node
    <3> HIDE DEF x, y, nodes
    <3>4. NumberNodes(x, y) = {}
      BY <3>1, <3>2, <3>3
    <3>5. Named(x.numbers \ y.numbers) = {} /\ Named(y.numbers \ x.numbers) = {}
      BY <3>4 DEF NumberNodes, Each
    <3> QED
      BY <3>5 DEF Named
  <2>6. ASSUME base.domain = "markdown", "citations" \in claims, outcome # "halted"
        PROVE  x.citations \subseteq y.citations
    <3>1. \A n \in nodes : ~(n.kind = "citation" /\ n.op = "deleted")
      BY <2>4, <2>6 DEF CitationsMisreported
    <3>2. Each("deleted", "citation", Named(x.citations \ y.citations)) \subseteq nodes
      BY <2>6 DEF Nodes, MarkdownNodes, CitationNodes
    <3> HIDE DEF x, y, nodes
    <3>3. \A at \in Named(x.citations \ y.citations) : Node("deleted", "citation", at) \in nodes
      BY <3>2 DEF Each
    <3>4. Named(x.citations \ y.citations) = {}
      BY <3>1, <3>3 DEF Node
    <3> QED
      BY <3>4 DEF Named
  <2>7. ASSUME base.domain = "python", "function signatures" \in claims, outcome = "applied"
        PROVE  \A f \in Functions(x) \cap Functions(y) : x.functions[f].sig = y.functions[f].sig
    <3>1. \A n \in nodes : n.kind # "function_signature"
      BY <2>3, <2>7 DEF SignaturesMisreported
    <3>2. Each("changed", "function_signature", Signatured(x, y)) \subseteq nodes
      BY <2>7 DEF Nodes, PythonNodes, FunctionNodes
    <3> HIDE DEF x, y, nodes
    <3>3. \A f \in Signatured(x, y) : Node("changed", "function_signature", f) \in nodes
      BY <3>2 DEF Each
    <3>4. Signatured(x, y) = {}
      BY <3>1, <3>3 DEF Node
    <3> QED
      BY <3>4 DEF Signatured
  <2> QED
    BY <2>5, <2>6, <2>7 DEF MisreportIsStopped
<1>2. ChainSpec => []IInv
  BY ChainImplementsEvaluation, Invariance, PTL
<1> QED
  BY <1>1, <1>2, ChainInvariance, PTL
================================================================================
