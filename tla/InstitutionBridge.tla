--------------------------- MODULE InstitutionBridge ---------------------------
(***************************************************************************)
(* The institution bridge (institution/bridge.py, policy.py,               *)
(* rule_registry.py): what the execution layer leaves behind of a tool     *)
(* call is packed into an evidence handoff, and the first rule that        *)
(* matches the declared action, with the authority of a reviewer, decides  *)
(* whether the institution accepts the consequence.  Rules are registered  *)
(* while decisions are taken; a decision is a record that is never taken   *)
(* back.                                                                   *)
(***************************************************************************)
EXTENDS GatePolicy

CONSTANTS
  Rules,        \* institution rules, as in GatePolicy, with allowsIrreversible
  Authorities,  \* reviewers' bounds: actions, kinds, maxLevel, irreversible, refs
  Facts,        \* HandoffDecisionInput: action, kind, level, reversibility
  MaxRules      \* bound: rules ever registered

NoAuthority   == [refs |-> <<>>]
Reversibility == {"irreversible", "reversible", "unknown"}

ASSUME AuthoritiesAssumption ==
  \A a \in Authorities : a # NoAuthority /\ a.maxLevel \in RiskLevels
ASSUME FactsAssumption ==
  \A inp \in Facts : inp.level \in RiskLevels /\ inp.reversibility \in Reversibility

VARIABLES
  registry,   \* InstitutionRuleRegistry._rules
  handoff,    \* the EvidenceHandoff last built
  facts, authority,
  decision    \* the InstitutionalDecision taken on it with these, or NoDecision

vars == <<registry, handoff, facts, authority, decision>>

-----------------------------------------------------------------------------
\* build_handoff: the audit ids that there are, of the gate, the execution, the rollback and
\* the caller's; the basis of the RDE result if it has one, and two constants otherwise.
Present(id, there) == IF there THEN <<id>> ELSE <<>>

Handoff(gate, execution, rollback, extra, basis, reviewed) ==
  [audits   |-> Present("gate", gate) \o Present("execution", execution)
                  \o Present("rollback", rollback) \o Present("extra", extra),
   basis    |-> IF basis = {} THEN {"tool_risk_rule", "execution_contract"} ELSE basis,
   reviewed |-> reviewed]

HasEvidence(h) == h.audits # <<>> \/ h.basis # {}

Order(level) ==
  CASE level = "low" -> 0 [] level = "medium" -> 1 [] level = "high" -> 2
    [] level = "critical" -> 3

\* Mutant: a reviewer of a higher risk does not cover a lower one.
ReviewerCoversActionExactly(a, inp) ==
  /\ inp.action \in a.actions
  /\ inp.kind \in a.kinds
  /\ a.maxLevel = inp.level

ReviewerCoversAction(a, inp) ==
  /\ inp.action \in a.actions
  /\ inp.kind \in a.kinds
  /\ Order(a.maxLevel) >= Order(inp.level)

\* "none" for no early outcome.
CheckIrreversiblePaths(rule, inp, a) ==
  IF inp.reversibility # "irreversible" THEN "none"
  ELSE IF ~rule.allowsIrreversible THEN "halt_institutionally"
  ELSE IF a = NoAuthority THEN "require_higher_authority"
  ELSE IF ~a.irreversible THEN "require_higher_authority"
  ELSE "none"

CheckStructuralCoverEscalation(a, inp) ==
  IF a # NoAuthority /\ ~ReviewerCoversAction(a, inp) THEN "require_higher_authority"
  ELSE "none"

\* Mutant: the reviewer's bounds are looked at before the rule's.
KindForReviewerCoverFirst(a, rule, inp) ==
  IF inp.reversibility = "unknown" THEN "require_more_evidence"
  ELSE IF CheckStructuralCoverEscalation(a, inp) # "none" THEN "require_higher_authority"
  ELSE IF CheckIrreversiblePaths(rule, inp, a) # "none"
    THEN CheckIrreversiblePaths(rule, inp, a)
  ELSE "accept"

\* decision_kind_for_reviewer_and_rule
DecisionKindForReviewerAndRule(a, rule, inp) ==
  IF inp.reversibility = "unknown" THEN "require_more_evidence"
  ELSE IF CheckIrreversiblePaths(rule, inp, a) # "none"
    THEN CheckIrreversiblePaths(rule, inp, a)
  ELSE IF CheckStructuralCoverEscalation(a, inp) # "none" THEN "require_higher_authority"
  ELSE "accept"

NoDecision == [kind |-> "none"]

Decision(kind, h, rule, a, inp) ==
  [kind |-> kind,
   rule |-> rule,
   authority |-> IF rule = <<>> \/ a.refs = <<>> THEN "none" ELSE Head(a.refs),
   riskAccepted |-> kind = "accept",
   irreversibleAccepted |-> kind = "accept" /\ inp.reversibility = "irreversible",
   link |-> IF h.audits = <<>> THEN "none" ELSE Head(h.audits)]

NoRule == <<>>

\* Mutant: what cannot be decided is put on record only.
RecordOnly(h, a, inp) == Decision("record_only", h, NoRule, a, inp)

RequireMoreEvidence(h, a, inp) == Decision("require_more_evidence", h, NoRule, a, inp)

\* Mutant: an irreversible consequence is weighed by the reviewer's bounds alone.
DecideByCover(h, rule, a, inp) ==
  IF h.reviewed /\ a = NoAuthority
    THEN Decision("require_higher_authority", h, rule, a, inp)
  ELSE IF CheckStructuralCoverEscalation(a, inp) = "require_higher_authority"
    THEN Decision("require_higher_authority", h, rule, a, inp)
  ELSE Decision("accept", h, rule, a, inp)

DecideByRule(h, rule, a, inp) ==
  LET early == CheckIrreversiblePaths(Head(rule), inp, a)
  IN  IF h.reviewed /\ a = NoAuthority
        THEN Decision("require_higher_authority", h, rule, a, inp)
      ELSE IF early \in {"halt_institutionally", "require_higher_authority"}
        THEN Decision(early, h, rule, a, inp)
      ELSE IF CheckStructuralCoverEscalation(a, inp) = "require_higher_authority"
        THEN Decision("require_higher_authority", h, rule, a, inp)
      ELSE Decision("accept", h, rule, a, inp)

\* DeterministicInstitutionBridge.decide
DecideOn(h, rules, a, inp) ==
  LET rule == FirstMatchingRule(rules, inp.action, inp.kind)
  IN  IF ~HasEvidence(h) \/ inp.reversibility = "unknown" \/ rule = NoRule
        THEN RequireMoreEvidence(h, a, inp)
        ELSE DecideByRule(h, rule, a, inp)

-----------------------------------------------------------------------------
Handoffs ==
  {Handoff(gate, execution, rollback, extra, basis, reviewed) :
     gate, execution, rollback, extra, reviewed \in BOOLEAN,
     basis \in {{}, {"structural_diff"}}}

Init ==
  /\ registry = <<>>
  /\ handoff \in Handoffs
  /\ facts \in Facts /\ authority \in Authorities \cup {NoAuthority}
  /\ decision = NoDecision

\* Mutant: a rule that is registered goes before the others.
RegisterInFront(rule) ==
  /\ Len(registry) < MaxRules
  /\ registry' = <<rule>> \o registry
  /\ UNCHANGED <<handoff, facts, authority, decision>>

Register(rule) ==
  /\ Len(registry) < MaxRules
  /\ registry' = Append(registry, rule)
  /\ UNCHANGED <<handoff, facts, authority, decision>>

\* decide, again or with another reviewer, on the facts the caller declares.
Decide(a, inp) ==
  /\ authority' = a /\ facts' = inp
  /\ decision' = DecideOn(handoff, registry, a, inp)
  /\ UNCHANGED <<registry, handoff>>

Next ==
  \/ \E rule \in Rules : Register(rule)
  \/ \E a \in Authorities \cup {NoAuthority}, inp \in Facts : Decide(a, inp)

Spec == Init /\ [][Next]_vars

-----------------------------------------------------------------------------
Kinds == {"accept", "require_more_evidence", "require_higher_authority", "halt_institutionally"}

\* Neither "reject" nor "record_only" is ever decided.
TypeOK ==
  /\ registry \in Seq(Rules)
  /\ handoff \in Handoffs
  /\ facts \in Facts /\ authority \in Authorities \cup {NoAuthority}
  /\ decision # NoDecision => decision.kind \in Kinds

\* A decision that rests on a rule stands: whatever is registered after it, deciding the
\* same handoff again gives the same record.
RuledDecisionsStand ==
  decision # NoDecision /\ decision.rule # NoRule =>
    decision = DecideOn(handoff, registry, authority, facts)

\* A consequence is accepted for a reason that can be named: its reversibility is known, and
\* an irreversible one, or one a human has reviewed, has a reviewer whose bounds cover it;
\* an irreversible one is allowed by the rule as well.
AcceptanceIsCovered ==
  decision # NoDecision /\ decision.kind = "accept" =>
    /\ decision.rule # NoRule
    /\ facts.reversibility # "unknown"
    /\ handoff.reviewed \/ facts.reversibility = "irreversible" =>
         authority # NoAuthority /\ ReviewerCoversAction(authority, facts)
    /\ facts.reversibility = "irreversible" =>
         Head(decision.rule).allowsIrreversible /\ authority.irreversible

\* The helper the regression tests use decides as the bridge does, where a rule matches and
\* a reviewer is named: two copies of one order of checks.
HelperAgreesWithBridge ==
  decision # NoDecision /\ decision.rule # NoRule /\ authority # NoAuthority =>
    decision.kind = DecisionKindForReviewerAndRule(authority, Head(decision.rule), facts)

\* One reviewer's bounds lie within another's.
Within(a, b) ==
  /\ a.actions \subseteq b.actions /\ a.kinds \subseteq b.kinds
  /\ Order(a.maxLevel) <= Order(b.maxLevel)
  /\ a.irreversible => b.irreversible

\* What one reviewer's authority makes acceptable, a wider one does not make unacceptable.
\* (No authority at all is not narrower than any: a reversible, unreviewed consequence is
\* accepted without a reviewer and refused with one who does not cover it.)
WiderAuthorityAccepts ==
  [][ /\ decision # NoDecision /\ decision.kind = "accept"
      /\ NoAuthority \notin {authority, authority'}
      /\ Within(authority, authority') /\ facts' = facts /\ registry' = registry
      => decision'.kind = "accept" ]_vars
================================================================================
