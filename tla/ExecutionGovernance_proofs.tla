---------------------- MODULE ExecutionGovernance_proofs ----------------------
(***************************************************************************)
(* Proofs about ExecutionGovernance, for any set of calls, reviewers,      *)
(* policies, relation contexts and bounds.                                 *)
(***************************************************************************)
EXTENDS ExecutionGovernance, GatePolicy_proofs

\* Whoever holds a gate decision got it from evaluate_before_execution, and the audit log
\* has its line: the decision is returned only once the line is written.
GateIsLogged ==
  \A c \in Calls : gate[c] # "none" =>
    /\ c \in logGates
    /\ gate[c] \in GateActionsOf(c) \cup {"closed"}

\* Requests are made for calls whose evaluation is logged and some context sent to review.
RequestIsGated ==
  \A r \in Requests : queue[r] # Absent \/ rows[r] # Absent =>
    /\ r[1] \in logGates
    /\ "human_review" \in GateActionsOf(r[1])

\* A decision the orchestrator may act on has passed both the transaction and the log.
HeldIsDurable == held \subseteq logDecisions

\* A row's status is pending or the one a decision recorded with it gives, and no decision
\* is recorded of a request without a row.
RowsExplainedByDecisions ==
  /\ \A r \in Requests :
       rows[r] \in {Absent, "pending"} \/ \E d \in Decisions :
         <<r, d>> \in recorded /\ rows[r] = RowStatusAfter(d[2])
  /\ \A rd \in recorded : rows[rd[1]] # Absent

\* The inductive invariant.
IInv ==
  /\ TypeOK
  /\ GateIsLogged
  /\ RequestIsGated
  /\ HeldIsDurable
  /\ AuditNeverAheadOfStore
  /\ QueueAgreesUnlessRaised
  /\ EffectHasDurableAuthority
  /\ HaltIsFinal
  /\ OrphansOnlyAfterCrash
  /\ RowsExplainedByDecisions

-----------------------------------------------------------------------------
(* What the gate and the runtime may answer                                *)

\* What the gate may answer for a call is one of its five actions.
LEMMA GateActionsOfType ==
  ASSUME NEW c
  PROVE  GateActionsOf(c) \subseteq GateActions
  BY EvaluateGateType DEF GateActionsOf

\* A decision always gives the request a status.
LEMMA StatusAfterType ==
  ASSUME NEW kind
  PROVE  StatusAfter(kind) \in Statuses /\ StatusAfter(kind) # Absent
  BY DEF StatusAfter, Statuses, Absent

\* The workflow and the store map a decision to the same status.
LEMMA SameStatus ==
  ASSUME NEW kind
  PROVE  RowStatusAfter(kind) = StatusAfter(kind)
  BY DEF RowStatusAfter, StatusAfter

\* A dry run leaves the workspace alone.
LEMMA DryRunTouchesNothing ==
  ASSUME NEW c, NEW outcome \in RuntimeOutcomes(c, TRUE)
  PROVE  ~outcome.touched
  BY DEF RuntimeOutcomes, SubprocessOutcomes, FileOutcomes, Refused, Outcome

\* An append keeps every line there was and adds at most its own; if it returns, it added it.
LEMMA AppendOutcomesSpec ==
  ASSUME NEW lines, NEW line, NEW ok \in BOOLEAN, NEW new \in AppendOutcomes(lines, line, ok)
  PROVE  /\ lines \subseteq new
         /\ new \subseteq lines \cup {line}
         /\ ok => line \in new
  BY DEF AppendOutcomes

-----------------------------------------------------------------------------
(* The inductive invariant                                                 *)

\* Nothing is evaluated, requested or logged at the start.
LEMMA InitIInv == Init => IInv
<1> SUFFICES ASSUME Init PROVE IInv
  OBVIOUS
<1> USE DEF Init
<1>1. TypeOK
  BY DEF TypeOK
<1>2. GateIsLogged /\ RequestIsGated /\ HeldIsDurable
  BY DEF GateIsLogged, RequestIsGated, HeldIsDurable
<1>3. AuditNeverAheadOfStore /\ QueueAgreesUnlessRaised
  BY DEF AuditNeverAheadOfStore, QueueAgreesUnlessRaised
<1>4. EffectHasDurableAuthority /\ HaltIsFinal
  BY DEF EffectHasDurableAuthority, HaltIsFinal, RequestsOf
<1>5. OrphansOnlyAfterCrash /\ RowsExplainedByDecisions
  BY DEF OrphansOnlyAfterCrash, RowsExplainedByDecisions
<1> QED
  BY <1>1, <1>2, <1>3, <1>4, <1>5 DEF IInv

\* An evaluation adds at most its own line to the log.
LEMMA EvaluateIInv ==
  ASSUME IInv, NEW c \in Calls, NEW ok \in BOOLEAN, Evaluate(c, ok)
  PROVE  IInv'
<1> USE DEF IInv
<1>1. PICK action \in GateActionsOf(c) :
        gate' = IF ok THEN [gate EXCEPT ![c] = action] ELSE gate
  BY DEF Evaluate
<1>2. /\ logGates \subseteq logGates' /\ logGates' \subseteq logGates \cup {c}
      /\ ok => c \in logGates'
  BY AppendOutcomesSpec DEF Evaluate
<1>3. action \in GateActions
  BY GateActionsOfType
<1>4. UNCHANGED <<queue, rows, recorded, held, effects, logRequests, logDecisions,
                  raised, crashes, session>>
  BY DEF Evaluate
<1>5. TypeOK'
  BY <1>1, <1>2, <1>3, <1>4 DEF TypeOK
<1>6. GateIsLogged'
  BY <1>1, <1>2 DEF GateIsLogged, TypeOK, GateActionsOf
<1>7. RequestIsGated' /\ HeldIsDurable'
  BY <1>2, <1>4 DEF RequestIsGated, HeldIsDurable, GateActionsOf
<1>8. AuditNeverAheadOfStore' /\ QueueAgreesUnlessRaised'
  BY <1>4 DEF AuditNeverAheadOfStore, QueueAgreesUnlessRaised
<1>9. EffectHasDurableAuthority' /\ HaltIsFinal'
  BY <1>2, <1>4 DEF EffectHasDurableAuthority, HaltIsFinal, Approvals, AutoApprovable,
                    GateActionsOf, RequestsOf
<1>10. OrphansOnlyAfterCrash' /\ RowsExplainedByDecisions'
  BY <1>4 DEF OrphansOnlyAfterCrash, RowsExplainedByDecisions
<1> QED
  BY <1>5, <1>6, <1>7, <1>8, <1>9, <1>10

\* A halted call is closed and nothing else moves.
LEMMA EnforceHaltIInv ==
  ASSUME IInv, NEW c \in Calls, EnforceHalt(c)
  PROVE  IInv'
<1> USE DEF IInv, EnforceHalt, durable
<1>1. TypeOK'
  BY DEF TypeOK
<1>2. GateIsLogged'
  BY DEF GateIsLogged, TypeOK, GateActionsOf
<1>3. RequestIsGated' /\ HeldIsDurable'
  BY DEF RequestIsGated, HeldIsDurable, GateActionsOf
<1>4. AuditNeverAheadOfStore' /\ QueueAgreesUnlessRaised'
  BY DEF AuditNeverAheadOfStore, QueueAgreesUnlessRaised
<1>5. EffectHasDurableAuthority'
  BY DEF EffectHasDurableAuthority, Approvals, AutoApprovable, GateActionsOf
<1>6. HaltIsFinal'
  BY DEF HaltIsFinal, GateActionsOf, RequestsOf
<1>7. OrphansOnlyAfterCrash' /\ RowsExplainedByDecisions'
  BY DEF OrphansOnlyAfterCrash, RowsExplainedByDecisions
<1> QED
  BY <1>1, <1>2, <1>3, <1>4, <1>5, <1>6, <1>7

\* A run that touches the workspace is not a dry run, so some context approves the call.
LEMMA EnforceRunIInv ==
  ASSUME IInv, NEW c \in Calls, EnforceRun(c)
  PROVE  IInv'
<1> USE DEF IInv
<1>1. PICK outcome \in RuntimeOutcomes(c, gate[c] = "dry_run_only") :
        /\ Run(c, outcome)
        /\ gate' = [gate EXCEPT ![c] = IF outcome.status = "raised" THEN @ ELSE "closed"]
  BY DEF EnforceRun
<1>2. /\ gate[c] \in RunActions
      /\ UNCHANGED <<queue, rows, recorded, held, logGates, logRequests, logDecisions,
                     raised, crashes, session>>
  BY DEF EnforceRun
<1>3. \/ effects' = effects
      \/ outcome.touched /\ effects' = [effects EXCEPT ![c] = @ + 1]
  BY <1>1 DEF Run
<1>4. c \in logGates /\ gate[c] \in GateActionsOf(c)
  BY <1>2 DEF GateIsLogged, RunActions, FullActions
<1>5. ASSUME outcome.touched PROVE gate[c] \in FullActions
  <2>1. gate[c] # "dry_run_only"
    BY <1>1, <1>5, DryRunTouchesNothing
  <2> QED
    BY <1>2, <2>1 DEF RunActions
<1>6. TypeOK'
  BY <1>1, <1>2, <1>3 DEF TypeOK
<1>7. GateIsLogged'
  BY <1>1, <1>2, <1>4 DEF GateIsLogged, TypeOK, GateActionsOf
<1>8. RequestIsGated' /\ HeldIsDurable'
  BY <1>2 DEF RequestIsGated, HeldIsDurable, GateActionsOf
<1>9. AuditNeverAheadOfStore' /\ QueueAgreesUnlessRaised'
  BY <1>2 DEF AuditNeverAheadOfStore, QueueAgreesUnlessRaised
<1>10. EffectHasDurableAuthority'
  <2>1. CASE effects' = effects
    BY <1>2, <2>1 DEF EffectHasDurableAuthority, Approvals, AutoApprovable, GateActionsOf
  <2>2. CASE outcome.touched /\ effects' = [effects EXCEPT ![c] = @ + 1]
    <3>1. AutoApprovable(c)
      BY <1>4, <1>5, <2>2 DEF AutoApprovable
    <3>2. \A d \in Calls : d # c => effects'[d] = effects[d]
      BY <2>2 DEF TypeOK
    <3> QED
      BY <1>2, <1>4, <3>1, <3>2 DEF EffectHasDurableAuthority, Approvals, AutoApprovable,
                                    GateActionsOf
  <2> QED
    BY <1>3, <2>1, <2>2
<1>11. HaltIsFinal'
  <2>1. "halt" \notin RunActions
    BY DEF RunActions, FullActions
  <2>2. ~(GateActionsOf(c) \subseteq {"halt"})
    BY <1>2, <1>4, <2>1
  <2>3. \A d \in Calls : d # c => effects'[d] = effects[d]
    BY <1>3 DEF TypeOK
  <2> QED
    BY <1>2, <2>2, <2>3 DEF HaltIsFinal, GateActionsOf, RequestsOf
<1>12. OrphansOnlyAfterCrash' /\ RowsExplainedByDecisions'
  BY <1>2 DEF OrphansOnlyAfterCrash, RowsExplainedByDecisions
<1> QED
  BY <1>6, <1>7, <1>8, <1>9, <1>10, <1>11, <1>12

\* A request's row never precedes its entry in the queue, nor its line the row.
LEMMA EnforceReviewIInv ==
  ASSUME IInv, NEW c \in Calls, NEW r \in Requests, NEW fault \in Faults,
         EnforceReview(c, r, fault)
  PROVE  IInv'
<1> USE DEF IInv
<1>1. /\ gate[c] = "human_review" /\ r[1] = c /\ queue[r] = Absent /\ rows[r] = Absent
      /\ queue' = [queue EXCEPT ![r] = "pending"]
      /\ rows' = IF fault = "store" THEN rows ELSE [rows EXCEPT ![r] = "pending"]
      /\ gate' = [gate EXCEPT ![c] = IF fault = "none" THEN "closed" ELSE @]
      /\ raised' = IF fault = "none" THEN raised ELSE raised \cup {r}
      /\ UNCHANGED <<recorded, held, effects, logGates, logDecisions, crashes, session>>
  BY DEF EnforceReview, NextRequest, RequestsOf, Fresh, QueueAfterRequest
<1>2. /\ logRequests' \subseteq logRequests \cup {r}
      /\ fault = "store" => logRequests' = logRequests
  BY DEF EnforceReview, AppendOutcomes
<1>3. /\ c \in logGates /\ "human_review" \in GateActionsOf(c)
      /\ "pending" # Absent /\ "pending" \in Statuses
  BY <1>1 DEF GateIsLogged, Absent, Statuses
<1>4. rows'[r] \in {Absent, "pending"} /\ queue'[r] = "pending"
  BY <1>1 DEF TypeOK
<1>5. \A s \in Requests : s # r => queue'[s] = queue[s] /\ rows'[s] = rows[s]
  BY <1>1 DEF TypeOK
<1>6. TypeOK'
  BY <1>1, <1>2, <1>3 DEF TypeOK
<1>7. GateIsLogged'
  BY <1>1, <1>3 DEF GateIsLogged, TypeOK, GateActionsOf
<1>8. RequestIsGated'
  BY <1>1, <1>3, <1>5 DEF RequestIsGated, GateActionsOf
<1>9. HeldIsDurable'
  BY <1>1 DEF HeldIsDurable
<1>10. AuditNeverAheadOfStore'
  BY <1>1, <1>2, <1>3, <1>5 DEF AuditNeverAheadOfStore, TypeOK
<1>11. QueueAgreesUnlessRaised'
  <2>1. \A s \in Requests : s # r /\ queue'[s] # Absent /\ s \notin raised'
          => queue'[s] = rows'[s]
    BY <1>1, <1>5 DEF QueueAgreesUnlessRaised
  <2>2. r \notin raised' => queue'[r] = "pending" /\ rows'[r] = "pending"
    BY <1>1 DEF TypeOK
  <2> QED
    BY <2>1, <2>2 DEF QueueAgreesUnlessRaised
<1>12. EffectHasDurableAuthority'
  BY <1>1 DEF EffectHasDurableAuthority, Approvals, AutoApprovable, GateActionsOf
<1>13. HaltIsFinal'
  <2>1. ~(GateActionsOf(c) \subseteq {"halt"})
    BY <1>3
  <2>2. \A d \in Calls : GateActionsOf(d)' = GateActionsOf(d)
    BY DEF GateActionsOf
  <2>3. \A d \in Calls : c # d => r \notin RequestsOf(d)
    BY <1>1 DEF RequestsOf
  <2> QED
    BY <1>1, <1>5, <2>1, <2>2, <2>3 DEF HaltIsFinal, RequestsOf
<1>14. OrphansOnlyAfterCrash'
  BY <1>1, <1>3, <1>4, <1>5 DEF OrphansOnlyAfterCrash, TypeOK
<1>15. RowsExplainedByDecisions'
  BY <1>1, <1>3, <1>4, <1>5 DEF RowsExplainedByDecisions, TypeOK
<1> QED
  BY <1>6, <1>7, <1>8, <1>9, <1>10, <1>11, <1>12, <1>13, <1>14, <1>15

\* The orchestrator gets a decision only behind its row and its line.
LEMMA SubmitDecisionIInv ==
  ASSUME IInv, NEW r \in Requests, NEW d \in Decisions, NEW fault \in Faults,
         SubmitDecision(r, d, fault)
  PROVE  IInv'
<1> USE DEF IInv
<1> DEFINE stored   == StoreAccepts(r, d, fault)
           returned == stored /\ fault = "none"
           status   == StatusAfter(d[2])
<1>1. /\ queue[r] # Absent
      /\ queue' = [queue EXCEPT ![r] = status]
      /\ rows' = IF stored THEN [rows EXCEPT ![r] = status] ELSE rows
      /\ recorded' = IF stored THEN recorded \cup {<<r, d>>} ELSE recorded
      /\ held' = IF returned THEN held \cup {<<r, d>>} ELSE held
      /\ raised' = IF returned THEN raised \ {r} ELSE raised \cup {r}
      /\ UNCHANGED <<gate, effects, logGates, logRequests, crashes, session>>
  BY SameStatus DEF SubmitDecision, RowsAfterDecision
<1>2. /\ logDecisions \subseteq logDecisions'
      /\ logDecisions' \subseteq logDecisions \cup {<<r, d>>}
      /\ ~stored => logDecisions' = logDecisions
      /\ returned => <<r, d>> \in logDecisions'
  <2>1. logDecisions' \in DecisionLogOutcomes(r, d, stored, fault)
    BY DEF SubmitDecision
  <2> QED
    BY <2>1 DEF DecisionLogOutcomes, AppendOutcomes
<1>3. status \in Statuses /\ status # Absent
  BY StatusAfterType
<1>4. stored => rows[r] # Absent
  BY DEF StoreAccepts
<1> HIDE DEF stored, returned, status
<1>5. returned => stored
  BY DEF returned
<1>6. \A s \in Requests : s # r => queue'[s] = queue[s] /\ rows'[s] = rows[s]
  BY <1>1 DEF TypeOK
<1>7. \A s \in Requests : /\ rows[s] # Absent => rows'[s] # Absent
                          /\ rows'[s] # Absent => rows[s] # Absent
  BY <1>1, <1>3, <1>4 DEF TypeOK
<1>8. <<r, d>> \in Requests \X Decisions
  OBVIOUS
<1>9. TypeOK'
  BY <1>1, <1>2, <1>3, <1>8 DEF TypeOK
<1>10. GateIsLogged'
  BY <1>1 DEF GateIsLogged, GateActionsOf
<1>11. RequestIsGated'
  BY <1>1, <1>6, <1>7 DEF RequestIsGated, GateActionsOf
<1>12. HeldIsDurable'
  BY <1>1, <1>2 DEF HeldIsDurable
<1>14. AuditNeverAheadOfStore'
  BY <1>1, <1>2, <1>7 DEF AuditNeverAheadOfStore, TypeOK
<1>15. QueueAgreesUnlessRaised'
  <2>1. \A s \in Requests : s # r /\ queue'[s] # Absent /\ s \notin raised'
          => queue'[s] = rows'[s]
    BY <1>1, <1>6 DEF QueueAgreesUnlessRaised
  <2>2. r \notin raised' => queue'[r] = status /\ rows'[r] = status
    BY <1>1, <1>5 DEF TypeOK
  <2> QED
    BY <2>1, <2>2 DEF QueueAgreesUnlessRaised
<1>16. EffectHasDurableAuthority'
  <2>1. \A c \in Calls : Approvals(c) \cap logDecisions
                           \subseteq Approvals(c)' \cap logDecisions'
    BY <1>1, <1>2 DEF Approvals
  <2> QED
    BY <1>1, <2>1 DEF EffectHasDurableAuthority, AutoApprovable, GateActionsOf
<1>17. HaltIsFinal'
  <2>1. "human_review" \in GateActionsOf(r[1])
    BY <1>1 DEF RequestIsGated
  <2> QED
    BY <1>1, <1>6, <2>1 DEF HaltIsFinal, GateActionsOf, RequestsOf
<1>18. OrphansOnlyAfterCrash'
  BY <1>1, <1>3, <1>6, <1>7 DEF OrphansOnlyAfterCrash, TypeOK
<1>19. RowsExplainedByDecisions'
  <2>1. \A rd \in recorded' : rows'[rd[1]] # Absent
    BY <1>1, <1>4, <1>7, <1>8 DEF RowsExplainedByDecisions, TypeOK
  <2>2. \A s \in Requests : rows[s] \in {Absent, "pending"} \/ \E e \in Decisions :
          <<s, e>> \in recorded /\ rows[s] = RowStatusAfter(e[2])
    BY DEF RowsExplainedByDecisions
  <2>3. stored => <<r, d>> \in recorded' /\ rows'[r] = RowStatusAfter(d[2])
    BY <1>1, SameStatus DEF TypeOK, status
  <2>4. ~stored => rows' = rows
    BY <1>1
  <2>5. recorded \subseteq recorded'
    BY <1>1
  <2> QED
    BY <1>6, <2>1, <2>2, <2>3, <2>4, <2>5 DEF RowsExplainedByDecisions
<1> QED
  BY <1>9, <1>10, <1>11, <1>12, <1>14, <1>15, <1>16, <1>17, <1>18, <1>19

\* The decision acted on is an approval, not a dry-run approval, of a logged request.
LEMMA ExecuteAfterReviewIInv ==
  ASSUME IInv, NEW r \in Requests, NEW d \in Decisions, ExecuteAfterReview(r, d)
  PROVE  IInv'
<1> USE DEF IInv
<1>1. PICK outcome \in RuntimeOutcomes(r[1],
                                       PostReviewExecutionMode(d[2]) = "dry_run_only") :
        Run(r[1], outcome)
  BY DEF ExecuteAfterReview
<1>2. /\ <<r, d>> \in held
      /\ PostReviewExecutionMode(d[2]) \in {"full_execute", "dry_run_only"}
      /\ UNCHANGED <<gate, queue, held, raised, rows, recorded, logGates, logRequests,
                     logDecisions, crashes, session>>
  BY DEF ExecuteAfterReview, memory
<1>3. r[1] \in Calls
  BY DEF Requests
<1>4. \/ effects' = effects
      \/ outcome.touched /\ effects' = [effects EXCEPT ![r[1]] = @ + 1]
  BY <1>1 DEF Run
<1>5. <<r, d>> \in logDecisions /\ <<r, d>> \in recorded /\ rows[r] # Absent
  BY <1>2 DEF HeldIsDurable, AuditNeverAheadOfStore, RowsExplainedByDecisions
<1>6. r[1] \in logGates /\ "human_review" \in GateActionsOf(r[1])
  BY <1>5 DEF RequestIsGated
<1>7. outcome.touched => PostReviewExecutionMode(d[2]) = "full_execute"
  BY <1>1, <1>2, DryRunTouchesNothing
<1>8. TypeOK'
  BY <1>2, <1>4 DEF TypeOK
<1>9. GateIsLogged' /\ RequestIsGated' /\ HeldIsDurable'
  BY <1>2 DEF GateIsLogged, RequestIsGated, HeldIsDurable, GateActionsOf
<1>10. AuditNeverAheadOfStore' /\ QueueAgreesUnlessRaised'
  BY <1>2 DEF AuditNeverAheadOfStore, QueueAgreesUnlessRaised
<1>11. \A c \in Calls : c # r[1] => effects'[c] = effects[c]
  BY <1>4 DEF TypeOK
<1>12. EffectHasDurableAuthority'
  <2>1. CASE effects' = effects
    BY <1>2, <2>1 DEF EffectHasDurableAuthority, Approvals, AutoApprovable, GateActionsOf
  <2>2. CASE outcome.touched
    <3>1. <<r, d>> \in Approvals(r[1])
      BY <1>5, <1>7, <2>2 DEF Approvals
    <3> QED
      BY <1>2, <1>5, <1>6, <1>11, <3>1 DEF EffectHasDurableAuthority, Approvals,
                                            AutoApprovable, GateActionsOf
  <2> QED
    BY <1>4, <2>1, <2>2
<1>13. HaltIsFinal'
  BY <1>2, <1>6, <1>11 DEF HaltIsFinal, GateActionsOf, RequestsOf
<1>14. OrphansOnlyAfterCrash' /\ RowsExplainedByDecisions'
  BY <1>2 DEF OrphansOnlyAfterCrash, RowsExplainedByDecisions
<1> QED
  BY <1>8, <1>9, <1>10, <1>12, <1>13, <1>14

\* A crash forgets everything that the durable parts of the invariant do not need.
LEMMA CrashIInv == IInv /\ Crash => IInv'
<1> SUFFICES ASSUME IInv, Crash PROVE IInv'
  OBVIOUS
<1> USE DEF IInv, Crash, durable
<1>1. TypeOK'
  BY DEF TypeOK
<1>2. GateIsLogged' /\ RequestIsGated' /\ HeldIsDurable'
  BY DEF GateIsLogged, RequestIsGated, HeldIsDurable, GateActionsOf
<1>3. AuditNeverAheadOfStore' /\ QueueAgreesUnlessRaised'
  BY DEF AuditNeverAheadOfStore, QueueAgreesUnlessRaised
<1>4. EffectHasDurableAuthority'
  BY DEF EffectHasDurableAuthority, Approvals, AutoApprovable, GateActionsOf
<1>5. HaltIsFinal'
  <2>1. \A c \in Calls : GateActionsOf(c)' = GateActionsOf(c)
    BY DEF GateActionsOf
  <2>2. \A r \in Requests : queue'[r] = Absent /\ rows'[r] = rows[r]
    OBVIOUS
  <2>3. effects' = effects
    OBVIOUS
  <2> QED
    BY <2>1, <2>2, <2>3 DEF HaltIsFinal, RequestsOf
<1>6. OrphansOnlyAfterCrash' /\ RowsExplainedByDecisions'
  BY DEF OrphansOnlyAfterCrash, RowsExplainedByDecisions, TypeOK
<1> QED
  BY <1>1, <1>2, <1>3, <1>4, <1>5, <1>6

\* Every step keeps the invariant.
LEMMA NextIInv == IInv /\ [Next]_vars => IInv'
<1> SUFFICES ASSUME IInv, [Next]_vars PROVE IInv'
  OBVIOUS
<1>1. CASE \E c \in Calls, ok \in BOOLEAN : Evaluate(c, ok)
  BY <1>1, EvaluateIInv
<1>2. CASE \E c \in Calls : EnforceHalt(c)
  BY <1>2, EnforceHaltIInv
<1>3. CASE \E c \in Calls : EnforceRun(c)
  BY <1>3, EnforceRunIInv
<1>4. CASE \E c \in Calls, r \in Requests, fault \in Faults : EnforceReview(c, r, fault)
  BY <1>4, EnforceReviewIInv
<1>5. CASE \E r \in Requests, d \in Decisions, fault \in Faults : SubmitDecision(r, d, fault)
  BY <1>5, SubmitDecisionIInv
<1>6. CASE \E r \in Requests, d \in Decisions : ExecuteAfterReview(r, d)
  BY <1>6, ExecuteAfterReviewIInv
<1>7. CASE Crash
  BY <1>7, CrashIInv
<1>8. CASE UNCHANGED vars
  <2> USE <1>8 DEF vars, memory, durable, IInv
  <2>1. TypeOK'
    BY DEF TypeOK
  <2>2. GateIsLogged' /\ RequestIsGated' /\ HeldIsDurable'
    BY DEF GateIsLogged, RequestIsGated, HeldIsDurable, GateActionsOf
  <2>3. AuditNeverAheadOfStore' /\ QueueAgreesUnlessRaised'
    BY DEF AuditNeverAheadOfStore, QueueAgreesUnlessRaised
  <2>4. EffectHasDurableAuthority'
    BY DEF EffectHasDurableAuthority, Approvals, AutoApprovable, GateActionsOf
  <2>5. HaltIsFinal'
    BY DEF HaltIsFinal, GateActionsOf, RequestsOf
  <2>6. OrphansOnlyAfterCrash' /\ RowsExplainedByDecisions'
    BY DEF OrphansOnlyAfterCrash, RowsExplainedByDecisions
  <2> QED
    BY <2>1, <2>2, <2>3, <2>4, <2>5, <2>6
<1> QED
  BY <1>1, <1>2, <1>3, <1>4, <1>5, <1>6, <1>7, <1>8 DEF Next

\* The invariant holds throughout.
LEMMA SpecIInv == Spec => []IInv
  BY InitIInv, NextIInv, PTL DEF Spec

-----------------------------------------------------------------------------
(* The theorems                                                            *)

\* Every variable keeps its type.
THEOREM TypeCorrect == Spec => []TypeOK
<1>1. IInv => TypeOK
  BY DEF IInv
<1> QED
  BY <1>1, SpecIInv, PTL

\* No tool call touches the workspace without a logged gate evaluation and, unless the
\* policy may approve it by itself, a recorded and logged approval of one of its requests.
THEOREM DurableAuthority == Spec => []EffectHasDurableAuthority
<1>1. IInv => EffectHasDurableAuthority
  BY DEF IInv
<1> QED
  BY <1>1, SpecIInv, PTL

\* A call that every context and policy halts reaches neither a reviewer nor the workspace.
THEOREM HaltFinal == Spec => []HaltIsFinal
<1>1. IInv => HaltIsFinal
  BY DEF IInv
<1> QED
  BY <1>1, SpecIInv, PTL

\* The audit log never tells of a request or decision that the database does not hold.
THEOREM AuditBehindStore == Spec => []AuditNeverAheadOfStore
<1>1. IInv => AuditNeverAheadOfStore
  BY DEF IInv
<1> QED
  BY <1>1, SpecIInv, PTL

\* The queue and the table agree on every request whose latest workflow call returned.
THEOREM QueueAgrees == Spec => []QueueAgreesUnlessRaised
<1>1. IInv => QueueAgreesUnlessRaised
  BY DEF IInv
<1> QED
  BY <1>1, SpecIInv, PTL

\* No fault in the workflow orphans a request: only a crash does.
THEOREM OrphansFromCrash == Spec => []OrphansOnlyAfterCrash
<1>1. IInv => OrphansOnlyAfterCrash
  BY DEF IInv
<1> QED
  BY <1>1, SpecIInv, PTL

\* Every row's status is explained by a decision recorded in the database.
THEOREM RowsExplained == Spec => []RowsExplainedByDecisions
<1>1. IInv => RowsExplainedByDecisions
  BY DEF IInv
<1> QED
  BY <1>1, SpecIInv, PTL

\* The review tables implement the ledger, through every fault and crash.
THEOREM LedgerImplemented == Spec => ImplementsLedger
<1>1. Init => Ledger!Init
  BY DEF Init, Ledger!Init, Absent
<1>2. ASSUME IInv, [Next]_vars
      PROVE  [Ledger!Next]_Ledger!vars
  <2> SUFFICES ASSUME ~(UNCHANGED <<rows, recorded>>)
               PROVE  Ledger!Next
    BY DEF Ledger!vars
  <2>1. \/ \E c \in Calls, r \in Requests, fault \in Faults : EnforceReview(c, r, fault)
        \/ \E r \in Requests, d \in Decisions, fault \in Faults : SubmitDecision(r, d, fault)
    BY <1>2 DEF Next, Evaluate, EnforceHalt, EnforceRun, ExecuteAfterReview, Crash, vars,
                memory, durable
  <2>2. CASE \E c \in Calls, r \in Requests, fault \in Faults : EnforceReview(c, r, fault)
    <3>1. PICK c \in Calls, r \in Requests, fault \in Faults : EnforceReview(c, r, fault)
      BY <2>2
    <3>2. rows[r] = "absent" /\ recorded' = recorded
          /\ rows' = IF fault = "store" THEN rows ELSE [rows EXCEPT ![r] = "pending"]
      BY <3>1 DEF EnforceReview, NextRequest, Fresh, Absent
    <3>3. Ledger!Open(r)
      BY <3>2 DEF Ledger!Open
    <3> QED
      BY <3>3 DEF Ledger!Next
  <2>3. CASE \E r \in Requests, d \in Decisions, fault \in Faults : SubmitDecision(r, d, fault)
    <3>1. PICK r \in Requests, d \in Decisions, fault \in Faults : SubmitDecision(r, d, fault)
      BY <2>3
    <3>2. StoreAccepts(r, d, fault)
      BY <3>1 DEF SubmitDecision, RowsAfterDecision
    <3>3. d[2] \in ReviewerDecisionKinds
      BY KindsAssumption DEF Decisions
    <3>4. RowStatusAfter(d[2]) = Ledger!Meaning(d)
      BY <3>3 DEF RowStatusAfter, Ledger!Meaning, ReviewerDecisionKinds
    <3>5. /\ rows' = [rows EXCEPT ![r] = RowStatusAfter(d[2])]
          /\ recorded' = recorded \cup {<<r, d>>}
      BY <3>1, <3>2 DEF SubmitDecision, RowsAfterDecision
    <3>6. Ledger!Decide(r, d)
      BY <3>2, <3>4, <3>5 DEF Ledger!Decide, StoreAccepts, Absent
    <3> QED
      BY <3>6 DEF Ledger!Next
  <2> QED
    BY <2>1, <2>2, <2>3
<1> QED
  BY <1>1, <1>2, SpecIInv, PTL DEF Spec, ImplementsLedger, Ledger!Spec
=============================================================================
