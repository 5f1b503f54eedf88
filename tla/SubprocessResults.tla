-------------------------- MODULE SubprocessResults --------------------------
(***************************************************************************)
(* What SafeExecutionRuntime._execute_subprocess (runtime/                 *)
(* safe_execution.py) may answer to a call without a cancellation event.   *)
(* ExecutionGovernance takes one of these answers in one step;             *)
(* SubprocessExecution runs the polling loop that arrives at it.           *)
(***************************************************************************)

\* A status, "raised" for an exception, and whether the workspace may have been touched.
Outcome(status, touched) == [status |-> status, touched |-> touched]
Refused(status) == {Outcome(status, FALSE)}

\* The dry run and the runtime's switch come before the command is looked at; a listed one
\* ends with any exit code or at the deadline, its executable may be missing, and its
\* output may stay open beyond the last wait.
SubprocessOutcomes(dryRun, enabled, listed) ==
  IF dryRun THEN Refused("dry_run_completed")
  ELSE IF ~enabled THEN Refused("blocked")
  ELSE IF ~listed THEN Refused("blocked") \cup Refused("failed")
  ELSE {Outcome("completed", TRUE), Outcome("failed", TRUE), Outcome("timed_out", TRUE),
        Outcome("raised", TRUE), Outcome("raised", FALSE)}
=============================================================================
