------------------------ MODULE MCExecutionGovernance ------------------------
(* Small instances of ExecutionGovernance.                                  *)
EXTENDS ExecutionGovernance

CONSTANTS write, secretShell, shell, alice, bob

Call(words) ==
  [words |-> {words}, targets |-> TRUE, protectedTarget |-> FALSE, secret |-> FALSE,
   criticalShell |-> FALSE, hints |-> {}, method |-> "none", url |-> FALSE,
   domainListed |-> FALSE, hostListed |-> TRUE, denied |-> FALSE]

\* A plain write, a shell command holding a secret, a shell command: the policy may run the
\* first, halts the second and hands the third to a reviewer.
MCProfile ==
  [c \in Calls |->
     CASE c = write       -> Call("write")
       [] c = secretShell -> [Call("execute") EXCEPT !.secret = TRUE]
       [] c = shell       -> Call("execute")]

\* Two policies: medium risks run at once, or only as a dry run.
MCConfigs ==
  { [allowLow |-> TRUE, allowMedium |-> medium, reviewExternal |-> TRUE,
     reviewProtected |-> TRUE, haltCritical |-> TRUE, dryRunHigh |-> FALSE,
     minTrust |-> 500, minStability |-> 400, hostAllowlist |-> FALSE] : medium \in BOOLEAN }

MCInstitution == [pop |-> "unused", rules |-> <<>>]

Session(calls, requests, kinds) ==
  [calls |-> calls, requests |-> requests, kinds |-> kinds]

\* A call that only a reviewer can approve, requested up to twice, with demands for a plan;
\* and three calls together, one the policy may run, one it halts, one only a reviewer can
\* approve, with approvals for real and for a dry run.
MCSessions ==
  { Session({shell}, 2, {"approve", "require_rollback_plan"}),
    Session({write, secretShell, shell}, 1, {"approve_dry_run", "approve"}) }

\* A rejection that comes after an approval.
RejectingSessions == {Session({shell}, 1, {"approve", "reject"})}

\* A neutral history, and one that sends every runnable call to review.
MCContexts ==
  { [trust |-> 500, stability |-> 500, threshold |-> 0, reliability |-> NoScore,
     fragility |-> NoScore],
    [trust |-> 400, stability |-> 500, threshold |-> 700, reliability |-> 300,
     fragility |-> NoScore] }
=============================================================================
