-------------------------- MODULE MCRelationHistory --------------------------
(* Small instances of RelationHistory.                                      *)
EXTENDS RelationHistory, TLC

Call(words) ==
  [words |-> {words}, targets |-> TRUE, protectedTarget |-> FALSE, secret |-> FALSE,
   criticalShell |-> FALSE, hints |-> {}, method |-> "none", url |-> FALSE,
   domainListed |-> FALSE, hostListed |-> TRUE, denied |-> FALSE]

\* A low and a medium risk, under a policy that runs both.
MCCalls   == {Call("read"), Call("write")}
MCConfigs ==
  { [allowLow |-> TRUE, allowMedium |-> TRUE, reviewExternal |-> TRUE,
     reviewProtected |-> TRUE, haltCritical |-> TRUE, dryRunHigh |-> FALSE,
     minTrust |-> 500, minStability |-> 400, hostAllowlist |-> FALSE] }

MCInstitution == [pop |-> "unused", rules |-> <<>>]

Outcome(class, mismatch, damage) ==
  [class |-> class, mismatch |-> mismatch, damage |-> damage]

\* A good outcome, a bad one, and a worse one that also hurts the two profiles.
MCOutcomes ==
  { Outcome("preserved", FALSE, 0), Outcome("suspicious_drift", FALSE, 0),
    Outcome("critical_corruption", TRUE, 250) }

\* A Phase 2 record without profiles that is still worth running, and one with them, both
\* two drifts or a corruption away from the end.
MCOldRecords ==
  { [trust |-> 600, stability |-> 500, threshold |-> 650, mismatches |-> 0,
     merit |-> 0, reliability |-> NoScore, damage |-> 0],
    [trust |-> 990, stability |-> 990, threshold |-> 650, mismatches |-> 0,
     merit |-> -200, reliability |-> 800, damage |-> 600] }

\* The slots differ in name alone.
SlotSymmetry == Permutations(Slots)
=============================================================================
