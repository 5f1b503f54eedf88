--------------------------- MODULE MCGateEvaluation ---------------------------
(* Small instances of GateEvaluation: representative calls and policies.    *)
EXTENDS GateEvaluation

Call(words) ==
  [words |-> words, targets |-> TRUE, protectedTarget |-> FALSE, secret |-> FALSE,
   criticalShell |-> FALSE, hints |-> {}, method |-> "none", url |-> FALSE,
   domainListed |-> FALSE, hostListed |-> TRUE, denied |-> FALSE]

\* Local calls of every keyword class, with and without a target, a protected path, a secret.
LocalCalls ==
  { [Call(w) EXCEPT !.targets = t, !.protectedTarget = p, !.secret = s] :
      w \in {{}, {"read"}, {"write"}, {"delete"}, {"execute"}, {"repository_patch"},
             {"read", "delete"}},
      t \in BOOLEAN, p \in BOOLEAN, s \in BOOLEAN }
    \cup { [Call({"execute"}) EXCEPT !.criticalShell = TRUE],
           [Call({"write"}) EXCEPT !.denied = TRUE] }

\* Network calls of every side-effect kind, with the keyword sets that compete for a kind.
NetworkCalls ==
  { [Call(w) EXCEPT !.hints = h, !.method = m, !.url = u, !.targets = u,
                    !.domainListed = d, !.hostListed = u] :
      w \in {{"network"}, {"external_api", "write"}},
      h \in {{}, {"payment_or_billing", "notification"}, {"publishing"}, {"notification"},
             {"identity_or_auth", "data_exfiltration_risk"},
             {"data_exfiltration_risk", "publishing"}, {"state_changing_request"}},
      m \in {"none", "read"}, u \in BOOLEAN, d \in BOOLEAN }
    \cup { [Call({"network"}) EXCEPT !.url = TRUE, !.domainListed = TRUE,
                                     !.hostListed = FALSE],
           [Call({"network"}) EXCEPT !.url = TRUE, !.protectedTarget = TRUE,
                                     !.domainListed = TRUE] }

Config(low, medium, external, protected, halt, dry, hosts) ==
  [allowLow |-> low, allowMedium |-> medium, reviewExternal |-> external,
   reviewProtected |-> protected, haltCritical |-> halt, dryRunHigh |-> dry,
   minTrust |-> 500, minStability |-> 400, hostAllowlist |-> hosts]

AllConfigs ==
  { Config(b[1], b[2], b[3], b[4], b[5], b[6], b[7]) : b \in [1 .. 7 -> BOOLEAN] }

NoInstitution == [pop |-> "unused", rules |-> <<>>]
Rule(actions, kinds, review) ==
  [actions |-> actions, kinds |-> kinds, requiresReview |-> review]
ReviewWrites ==
  [pop |-> "invalid",
   rules |-> <<Rule({"read"}, {"none"}, FALSE), Rule({"read", "write"}, {"none"}, TRUE)>>]

Context(t, s, th, r, f) ==
  [trust |-> t, stability |-> s, threshold |-> th, reliability |-> r, fragility |-> f]

MCCalls        == LocalCalls \cup NetworkCalls
MCInstitutions == {NoInstitution, ReviewWrites}

\* Both sides of every threshold of the five scores, first alone, then together.
MCContexts ==
  { Context(500, 400, 0, NoScore, NoScore), Context(499, 400, 0, NoScore, NoScore),
    Context(500, 399, 0, NoScore, NoScore),
    Context(500, 400, 499, NoScore, NoScore), Context(500, 400, 500, NoScore, NoScore),
    Context(500, 400, 699, NoScore, NoScore), Context(500, 400, 700, NoScore, NoScore),
    Context(500, 400, 0, 301, NoScore), Context(500, 400, 0, 300, 0),
    Context(500, 400, 0, NoScore, 699), Context(500, 400, 0, NoScore, 700),
    Context(499, 400, 500, 301, 699), Context(499, 399, 700, 300, NoScore) }
=============================================================================
