------------------------- MODULE MCChangeEvaluation -------------------------
(* A small instance of ChangeEvaluation.                                   *)
EXTENDS ChangeEvaluation

NoChange ==
  [nodes |-> 0, allowed |-> 0, other |-> 0, forbidden |-> 0, critical |-> 0, high |-> 0,
   lesser |-> 0, schema |-> 0, mismatches |-> 0, criticalMismatches |-> 0]

\* Coverage on both sides of the three bars: 1/5, 1/4 and 3/10 match, and all but match.
Covered ==
  { [NoChange EXCEPT !.nodes = n[1] + n[2], !.allowed = n[1], !.other = n[2]] :
      n \in {<<1, 0>>, <<1, 3>>, <<1, 4>>, <<1, 5>>, <<3, 7>>, <<3, 8>>} }

\* Damage of each kind, two of a kind that adds up, and a cue without a node.
Damage(d) ==
  { [d EXCEPT !.forbidden = 1], [d EXCEPT !.lesser = 1], [d EXCEPT !.high = 1],
    [d EXCEPT !.high = 2], [d EXCEPT !.critical = 1], [d EXCEPT !.schema = 1],
    [d EXCEPT !.mismatches = 1], [d EXCEPT !.mismatches = 1, !.criticalMismatches = 1],
    [d EXCEPT !.forbidden = 1, !.high = 2], [d EXCEPT !.forbidden = 1, !.critical = 1] }

MCDiffs ==
  {NoChange} \cup Covered \cup Damage(NoChange)
    \cup Damage([NoChange EXCEPT !.nodes = 1, !.allowed = 1])

Review(p, a, s) == [preserved |-> p, authorized_deviation |-> a, suspicious_drift |-> s]
Contract(mode, allows, review) == [mode |-> mode, allows |-> allows, review |-> review]

DefaultReview == Review("approve", "approve_with_notes", "human_review")
MCContracts ==
  { Contract("preservation", TRUE, DefaultReview), Contract("creative", TRUE, DefaultReview),
    Contract("refactor", TRUE, Review("human_review", "approve", "request_revision")),
    Contract("refactor", FALSE, DefaultReview) }

Context(th, r, f) ==
  [trust |-> 500, stability |-> 500, threshold |-> th, reliability |-> r, fragility |-> f]
MCContexts ==
  { Context(0, NoScore, NoScore), Context(500, 1000, 0), Context(700, 1000, 0),
    Context(0, 300, 0), Context(0, 1000, 700) }

Overlay(pop, rules) ==
  [pop |-> pop, rules |-> rules, action |-> "write", kind |-> "none"]
Rule(actions, review) == [actions |-> actions, kinds |-> {"none"}, requiresReview |-> review]
MCInstitutions ==
  { Overlay("unused", <<>>), Overlay("invalid", <<Rule({"read"}, TRUE)>>),
    Overlay("valid", <<Rule({"read"}, FALSE), Rule({"write"}, TRUE)>>) }
==============================================================================
