----------------------- MODULE InstitutionBridge_proofs -----------------------
(***************************************************************************)
(* Proofs about InstitutionBridge, for any rules, authorities and facts,   *)
(* and any number of registrations.                                        *)
(***************************************************************************)
EXTENDS InstitutionBridge, WellFoundedInduction, TLAPS

\* A decision taken by rule is the one that would be taken now; one taken without a rule
\* asks for more evidence.
IInv ==
  /\ registry \in Seq(Rules)
  /\ handoff \in Handoffs
  /\ facts \in Facts /\ authority \in Authorities \cup {NoAuthority}
  /\ decision # NoDecision =>
       IF decision.rule = NoRule
         THEN decision.kind = "require_more_evidence"
         ELSE decision = DecideOn(handoff, registry, authority, facts)

-----------------------------------------------------------------------------
(* The first rule that matches                                             *)

\* Among the indexes of a sequence, some are least.
LEMMA LeastIndex ==
  ASSUME NEW T \in SUBSET Nat, T # {}
  PROVE  \E i \in T : \A j \in T : i <= j
<1>1. PICK i \in T : \A j \in T : ~ (<<j, i>> \in OpToRel(<, Nat))
  BY WFMin, NatLessThanWellFounded
<1>2. \A j \in T : ~ (j < i)
  BY <1>1 DEF OpToRel
<1>3. \A j \in T : j \in Int /\ i \in Int
  OBVIOUS
<1>4. \A j \in T : i <= j
  BY <1>2, <1>3
<1> QED
  BY <1>4

\* There is a rule if and only if one matches, and it is one of the sequence.
LEMMA FirstMatchingRuleType ==
  ASSUME NEW S, NEW rules \in Seq(S), NEW action, NEW kind,
         FirstMatchingRule(rules, action, kind) # NoRule
  PROVE  \E i \in DOMAIN rules :
           /\ i \in Matching(rules, action, kind)
           /\ \A j \in Matching(rules, action, kind) : i <= j
           /\ FirstMatchingRule(rules, action, kind) = <<rules[i]>>
<1> DEFINE M == Matching(rules, action, kind)
           least == CHOOSE i \in M : \A j \in M : i <= j
<1>1. M # {} /\ FirstMatchingRule(rules, action, kind) = <<rules[least]>>
  BY DEF FirstMatchingRule, NoRule
<1>2. M \subseteq DOMAIN rules /\ DOMAIN rules \subseteq Nat
  BY DEF Matching
<1>3. \E i \in M : \A j \in M : i <= j
  BY <1>1, <1>2, LeastIndex
<1>4. least \in M /\ \A j \in M : least <= j
  BY <1>3
<1> QED
  BY <1>1, <1>2, <1>4

\* A rule registered after one that matches is not the first to match.
LEMMA RegisteredLater ==
  ASSUME NEW S, NEW rules \in Seq(S), NEW rule \in S, NEW action, NEW kind,
         FirstMatchingRule(rules, action, kind) # NoRule
  PROVE  FirstMatchingRule(Append(rules, rule), action, kind)
           = FirstMatchingRule(rules, action, kind)
<1> DEFINE longer == Append(rules, rule)
           M == Matching(rules, action, kind)
           N == Matching(longer, action, kind)
<1>1. PICK i \in DOMAIN rules :
        /\ i \in M /\ \A j \in M : i <= j
        /\ FirstMatchingRule(rules, action, kind) = <<rules[i]>>
  BY FirstMatchingRuleType
<1>2. /\ longer \in Seq(S) /\ DOMAIN rules = 1 .. Len(rules)
      /\ DOMAIN longer = 1 .. Len(rules) + 1
      /\ \A j \in DOMAIN rules : longer[j] = rules[j]
  OBVIOUS
<1>3. M \subseteq DOMAIN rules /\ N \subseteq DOMAIN longer /\ Len(rules) \in Nat
  BY DEF Matching
<1> HIDE DEF longer
<1>4. i \in N /\ \A j \in N : j \in M \/ j = Len(rules) + 1
  BY <1>1, <1>2, <1>3 DEF Matching
<1>5. \A j \in N : i <= j
  BY <1>1, <1>2, <1>3, <1>4
<1>6. FirstMatchingRule(longer, action, kind) # NoRule
  BY <1>4 DEF FirstMatchingRule, NoRule
<1>7. PICK k \in DOMAIN longer :
        /\ k \in N /\ \A j \in N : k <= j
        /\ FirstMatchingRule(longer, action, kind) = <<longer[k]>>
  BY <1>2, <1>6, FirstMatchingRuleType
<1>8. k = i
  BY <1>1, <1>2, <1>3, <1>4, <1>5, <1>7
<1> QED
  BY <1>1, <1>2, <1>7, <1>8 DEF longer

-----------------------------------------------------------------------------
(* The decision                                                            *)

\* The rule of a decision is the first that matches, where the evidence gets that far.
LEMMA DecisionRule ==
  ASSUME NEW h, NEW rules, NEW a, NEW inp
  PROVE  LET rule == FirstMatchingRule(rules, inp.action, inp.kind)
         IN  \/ /\ DecideOn(h, rules, a, inp) = RequireMoreEvidence(h, a, inp)
                /\ DecideOn(h, rules, a, inp).rule = NoRule
             \/ /\ HasEvidence(h) /\ inp.reversibility # "unknown" /\ rule # NoRule
                /\ DecideOn(h, rules, a, inp) = DecideByRule(h, rule, a, inp)
                /\ DecideOn(h, rules, a, inp).rule = rule
<1> DEFINE rule == FirstMatchingRule(rules, inp.action, inp.kind)
<1>1. RequireMoreEvidence(h, a, inp).rule = NoRule
  BY DEF RequireMoreEvidence, Decision
<1>2. DecideByRule(h, rule, a, inp).rule = rule
  BY DEF DecideByRule, Decision
<1> QED
  BY <1>1, <1>2 DEF DecideOn

\* Every decision is of one of four kinds; the one without a rule asks for more evidence.
LEMMA DecisionKind ==
  ASSUME NEW h, NEW rules, NEW a, NEW inp
  PROVE  /\ DecideOn(h, rules, a, inp).kind \in Kinds
         /\ DecideOn(h, rules, a, inp).rule = NoRule =>
              DecideOn(h, rules, a, inp).kind = "require_more_evidence"
<1> DEFINE rule == FirstMatchingRule(rules, inp.action, inp.kind)
<1>1. RequireMoreEvidence(h, a, inp).kind = "require_more_evidence"
  BY DEF RequireMoreEvidence, Decision
<1>2. DecideByRule(h, rule, a, inp).kind \in Kinds
  BY DEF DecideByRule, Decision, Kinds, CheckIrreversiblePaths
<1> QED
  BY <1>1, <1>2, DecisionRule DEF Kinds

\* The invariant holds at every registration and at every decision.
LEMMA SpecIInv == Spec => []IInv
<1>1. Init => IInv
  BY DEF Init, IInv
<1>2. IInv /\ [Next]_vars => IInv'
  <2> SUFFICES ASSUME IInv, [Next]_vars PROVE IInv'
    OBVIOUS
  <2>1. ASSUME NEW rule \in Rules, Register(rule) PROVE IInv'
    <3>1. registry' \in Seq(Rules)
      BY <2>1 DEF Register, IInv
    <3>2. ASSUME decision # NoDecision, decision.rule # NoRule
          PROVE  decision = DecideOn(handoff, registry', authority, facts)
      <4>1. decision = DecideOn(handoff, registry, authority, facts)
        BY <3>2 DEF IInv
      <4>2. /\ HasEvidence(handoff) /\ facts.reversibility # "unknown"
            /\ FirstMatchingRule(registry, facts.action, facts.kind) # NoRule
        BY <3>2, <4>1, DecisionRule
      <4>3. FirstMatchingRule(registry', facts.action, facts.kind)
              = FirstMatchingRule(registry, facts.action, facts.kind)
        BY <2>1, <4>2, RegisteredLater DEF Register, IInv
      <4> QED
        BY <4>1, <4>3 DEF DecideOn
    <3> QED
      BY <2>1, <3>1, <3>2 DEF Register, IInv
  <2>2. ASSUME NEW a \in Authorities \cup {NoAuthority}, NEW inp \in Facts, Decide(a, inp)
        PROVE  IInv'
    <3>1. decision' = DecideOn(handoff', registry', authority', facts')
      BY <2>2 DEF Decide
    <3>2. decision'.rule = NoRule => decision'.kind = "require_more_evidence"
      BY <3>1, DecisionKind
    <3> QED
      BY <2>2, <3>1, <3>2 DEF Decide, IInv
  <2>3. CASE UNCHANGED vars
    BY <2>3 DEF vars, IInv
  <2> QED
    BY <2>1, <2>2, <2>3 DEF Next
<1> QED
  BY <1>1, <1>2, PTL DEF Spec

-----------------------------------------------------------------------------
(* The theorems                                                            *)

\* Every decision is one of the four kinds: none is ever a rejection or a mere record.
THEOREM TypeCorrect == Spec => []TypeOK
<1>1. IInv => TypeOK
  BY DecisionKind DEF IInv, TypeOK, Kinds
<1> QED
  BY <1>1, SpecIInv, PTL

\* A decision by rule is not changed by anything registered after it.
THEOREM RuledStand == Spec => []RuledDecisionsStand
<1>1. IInv => RuledDecisionsStand
  BY DEF IInv, RuledDecisionsStand
<1> QED
  BY <1>1, SpecIInv, PTL

\* What an acceptance by rule says of the facts, the rule and the reviewer.
LEMMA AcceptedByRule ==
  ASSUME NEW h, NEW rule, NEW a, NEW inp, inp.reversibility # "unknown",
         DecideByRule(h, rule, a, inp).kind = "accept"
  PROVE  /\ h.reviewed => a # NoAuthority
         /\ inp.reversibility = "irreversible" =>
              a # NoAuthority /\ Head(rule).allowsIrreversible /\ a.irreversible
         /\ a # NoAuthority => ReviewerCoversAction(a, inp)
<1>1. /\ ~ (h.reviewed /\ a = NoAuthority)
      /\ CheckIrreversiblePaths(Head(rule), inp, a)
           \notin {"halt_institutionally", "require_higher_authority"}
      /\ CheckStructuralCoverEscalation(a, inp) # "require_higher_authority"
  BY DEF DecideByRule, Decision
<1> QED
  BY <1>1 DEF CheckIrreversiblePaths, CheckStructuralCoverEscalation

\* An accepted consequence has a rule, a known reversibility and, where it is irreversible or
\* was reviewed, a reviewer whose bounds cover it.
THEOREM AcceptanceCovered == Spec => []AcceptanceIsCovered
<1>1. IInv => AcceptanceIsCovered
  <2> SUFFICES ASSUME IInv, decision # NoDecision, decision.kind = "accept"
               PROVE  AcceptanceIsCovered
    BY DEF AcceptanceIsCovered
  <2> DEFINE rule == FirstMatchingRule(registry, facts.action, facts.kind)
  <2>1. decision.rule # NoRule /\ decision = DecideOn(handoff, registry, authority, facts)
    BY DEF IInv
  <2>2. /\ facts.reversibility # "unknown" /\ decision.rule = rule
        /\ decision = DecideByRule(handoff, rule, authority, facts)
    BY <2>1, DecisionRule
  <2> HIDE DEF rule
  <2> QED
    BY <2>1, <2>2, AcceptedByRule DEF AcceptanceIsCovered
<1> QED
  BY <1>1, SpecIInv, PTL

\* The helper of the regression tests decides what the bridge decides.
THEOREM HelperAgrees == Spec => []HelperAgreesWithBridge
<1>1. IInv => HelperAgreesWithBridge
  <2> SUFFICES ASSUME IInv, decision # NoDecision, decision.rule # NoRule,
                      authority # NoAuthority
               PROVE  decision.kind =
                        DecisionKindForReviewerAndRule(authority, Head(decision.rule), facts)
    BY DEF HelperAgreesWithBridge
  <2> DEFINE rule == FirstMatchingRule(registry, facts.action, facts.kind)
  <2>1. decision = DecideOn(handoff, registry, authority, facts)
    BY DEF IInv
  <2>2. /\ facts.reversibility # "unknown" /\ decision.rule = rule
        /\ decision = DecideByRule(handoff, rule, authority, facts)
    BY <2>1, DecisionRule
  <2> HIDE DEF rule
  <2> QED
    BY <2>2 DEF DecideByRule, Decision, DecisionKindForReviewerAndRule,
                CheckIrreversiblePaths, CheckStructuralCoverEscalation
<1> QED
  BY <1>1, SpecIInv, PTL

-----------------------------------------------------------------------------
\* A reviewer within whose bounds another's lie covers what the other covers.
LEMMA WithinCovers ==
  ASSUME NEW a \in Authorities, NEW b \in Authorities, NEW inp \in Facts,
         Within(a, b), ReviewerCoversAction(a, inp)
  PROVE  ReviewerCoversAction(b, inp)
<1>1. Order(a.maxLevel) \in Int /\ Order(b.maxLevel) \in Int /\ Order(inp.level) \in Int
  BY AuthoritiesAssumption, FactsAssumption DEF Order, RiskLevels
<1> QED
  BY <1>1 DEF Within, ReviewerCoversAction

\* A wider authority accepts what a narrower one does.
THEOREM WiderAccepts == Spec => WiderAuthorityAccepts
<1>1. ASSUME IInv, IInv', [Next]_vars,
             decision # NoDecision, decision.kind = "accept",
             NoAuthority \notin {authority, authority'},
             Within(authority, authority'), facts' = facts, registry' = registry
      PROVE  decision'.kind = "accept"
  <2> DEFINE rule == FirstMatchingRule(registry, facts.action, facts.kind)
  <2>1. handoff' = handoff
    BY <1>1 DEF Next, Register, Decide, vars
  <2>2. decision.rule # NoRule /\ decision = DecideOn(handoff, registry, authority, facts)
    BY <1>1 DEF IInv
  <2>3. /\ HasEvidence(handoff) /\ facts.reversibility # "unknown" /\ rule # NoRule
        /\ decision = DecideByRule(handoff, rule, authority, facts)
    BY <2>2, DecisionRule
  <2>4. decision' = decision \/ decision' = DecideOn(handoff, registry, authority', facts)
    BY <1>1, <2>1 DEF Next, Register, Decide, vars
  <2>5. DecideOn(handoff, registry, authority', facts)
          = DecideByRule(handoff, rule, authority', facts)
    BY <2>3 DEF DecideOn
  <2> HIDE DEF rule
  <2>6. /\ facts.reversibility = "irreversible" =>
             Head(rule).allowsIrreversible /\ authority.irreversible
        /\ ReviewerCoversAction(authority, facts)
    BY <1>1, <2>3, AcceptedByRule
  <2>7. ReviewerCoversAction(authority', facts)
    BY <1>1, <2>6, WithinCovers DEF IInv
  <2>8. facts.reversibility = "irreversible" => authority'.irreversible
    BY <1>1, <2>6 DEF Within
  <2>9. DecideByRule(handoff, rule, authority', facts).kind = "accept"
    BY <1>1, <2>6, <2>7, <2>8
       DEF DecideByRule, Decision, CheckIrreversiblePaths, CheckStructuralCoverEscalation
  <2> QED
    BY <1>1, <2>4, <2>5, <2>9
<1>2. IInv /\ IInv' /\ [Next]_vars =>
        [ /\ decision # NoDecision /\ decision.kind = "accept"
          /\ NoAuthority \notin {authority, authority'}
          /\ Within(authority, authority') /\ facts' = facts /\ registry' = registry
          => decision'.kind = "accept" ]_vars
  BY <1>1
<1> QED
  BY <1>2, SpecIInv, PTL DEF Spec, WiderAuthorityAccepts
================================================================================
