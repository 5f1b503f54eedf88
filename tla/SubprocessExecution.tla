------------------------- MODULE SubprocessExecution -------------------------
(***************************************************************************)
(* SafeExecutionRuntime._execute_subprocess and _communicate_subprocess    *)
(* (runtime/safe_execution.py): the polling loop that waits for a child    *)
(* process under a deadline and a cancellation event, next to the child,   *)
(* to a process the child may have left behind with the output pipe open,  *)
(* to the thread that cancels and to the clock.                            *)
(***************************************************************************)
EXTENDS Integers, SubprocessResults

CONSTANTS Commands   \* the commands the call may carry, of the kinds below

CommandKinds == {"malformed", "empty", "unlisted", "missing", "runnable"}

ASSUME CommandsAssumption == Commands \subseteq CommandKinds

VARIABLES
  pc,        \* where execute is: start, spawn, cancel, clock, wait, drain, done
  command,   \* the kind of the call's command
  dryRun,    \* the caller's dry_run
  enabled,   \* allow_subprocess_execution
  child,     \* none, running, zero (exited by itself with code 0), nonzero, killed
  holder,    \* a process started by the child still has the output pipe open
  cancelled, \* cancellation_event.is_set()
  expired,   \* the deadline has passed
  outcome,   \* what _communicate_subprocess returned: none, ok, timeout, cancelled
  status     \* what execute returned, "raised" for an exception, "none" before

vars == <<pc, command, dryRun, enabled, child, holder, cancelled, expired, outcome, status>>

TypeOK ==
  /\ pc \in {"start", "spawn", "cancel", "clock", "wait", "drain", "done"}
  /\ command \in CommandKinds /\ dryRun \in BOOLEAN /\ enabled \in BOOLEAN
  /\ child \in {"none", "running", "zero", "nonzero", "killed"}
  /\ holder \in BOOLEAN /\ cancelled \in BOOLEAN /\ expired \in BOOLEAN
  /\ outcome \in {"none", "ok", "timeout", "cancelled"}
  /\ status \in {"none", "dry_run_completed", "blocked", "completed", "failed", "timed_out",
                 "cancelled", "raised"}

Init ==
  /\ pc = "start" /\ command \in Commands
  /\ dryRun \in BOOLEAN /\ enabled \in BOOLEAN
  /\ child = "none" /\ holder = FALSE
  /\ cancelled \in BOOLEAN /\ expired = FALSE
  /\ outcome = "none" /\ status = "none"

Dead     == child \in {"zero", "nonzero", "killed"}
AtEof    == Dead /\ ~holder         \* what communicate() waits for
input    == <<command, dryRun, enabled>>
world    == <<child, holder, cancelled, expired>>

-----------------------------------------------------------------------------
(* The runtime's thread.  "cancelled" stands for status "failed" with the  *)
(* error message "cancelled".                                              *)

Finish(verdict) ==
  /\ pc' = "done" /\ status' = verdict
  /\ UNCHANGED <<input, world, outcome>>

\* Mutant: the runtime's switch is looked at before the caller's dry run.
RefuseBeforeDryRun ==
  /\ pc = "start"
  /\ \/ cancelled /\ Finish("cancelled")
     \/ ~cancelled /\ ~enabled /\ Finish("blocked")
     \/ ~cancelled /\ dryRun /\ enabled /\ Finish("dry_run_completed")
     \/ /\ ~cancelled /\ ~dryRun /\ enabled
        /\ \/ command = "malformed" /\ Finish("failed")
           \/ command \in {"empty", "unlisted"} /\ Finish("blocked")

\* The early returns: cancelled, dry run, disabled, malformed, empty or unlisted command.
Refuse ==
  /\ pc = "start"
  /\ \/ cancelled /\ Finish("cancelled")
     \/ ~cancelled /\ dryRun /\ Finish("dry_run_completed")
     \/ ~cancelled /\ ~dryRun /\ ~enabled /\ Finish("blocked")
     \/ /\ ~cancelled /\ ~dryRun /\ enabled
        /\ \/ command = "malformed" /\ Finish("failed")
           \/ command \in {"empty", "unlisted"} /\ Finish("blocked")

Admit ==
  /\ pc = "start" /\ ~cancelled /\ ~dryRun /\ enabled
  /\ command \in {"missing", "runnable"}
  /\ pc' = "spawn"
  /\ UNCHANGED <<input, world, outcome, status>>

\* Popen: an executable that is not there raises out of execute.
Spawn ==
  /\ pc = "spawn"
  /\ IF command = "missing" THEN Finish("raised")
     ELSE /\ pc' = "cancel" /\ child' = "running"
          /\ UNCHANGED <<input, holder, cancelled, expired, outcome, status>>

\* Mutant: the output is collected without killing the child.
DrainOnly(why) ==
  /\ outcome' = why
  /\ pc' = "drain"
  /\ UNCHANGED <<input, world, status>>

\* kill the child unless poll() finds it dead, and go and collect its output.
KillAndDrain(why) ==
  /\ child' = IF child = "running" THEN "killed" ELSE child
  /\ outcome' = why
  /\ pc' = "drain"
  /\ UNCHANGED <<input, holder, cancelled, expired, status>>

\* Mutant: the event is not polled in the loop.
CheckCancelNever ==
  /\ pc = "cancel"
  /\ pc' = "clock" /\ UNCHANGED <<input, world, outcome, status>>

CheckCancel ==
  /\ pc = "cancel"
  /\ IF cancelled THEN KillAndDrain("cancelled")
     ELSE pc' = "clock" /\ UNCHANGED <<input, world, outcome, status>>

CheckClock ==
  /\ pc = "clock"
  /\ IF expired THEN KillAndDrain("timeout")
     ELSE pc' = "wait" /\ UNCHANGED <<input, world, outcome, status>>

\* Mutant: the exit code is not looked at.
StatusIgnoringCode(why) ==
  CASE why = "cancelled" -> "cancelled"
    [] why = "timeout"   -> "timed_out"
    [] OTHER             -> "completed"

\* Mutant: what interrupted the child is returned as the status.
StatusVerbatim(why) ==
  IF why = "ok" THEN IF child = "zero" THEN "completed" ELSE "failed" ELSE why

StatusOf(why) ==
  CASE why = "cancelled"                -> "cancelled"
    [] why = "timeout"                  -> "timed_out"
    [] why = "ok" /\ child = "zero"     -> "completed"
    [] OTHER                            -> "failed"

\* One slice of communicate(): it returns at the end of the output, or the slice is over.
Wait ==
  /\ pc = "wait"
  /\ IF AtEof
       THEN /\ outcome' = "ok" /\ status' = StatusOf("ok") /\ pc' = "done"
            /\ UNCHANGED <<input, world>>
       ELSE pc' = "cancel" /\ UNCHANGED <<input, world, outcome, status>>

\* The last communicate(timeout=30) raises if the pipe is held open that long.
Drain ==
  /\ pc = "drain"
  /\ IF AtEof THEN Finish(StatusOf(outcome)) ELSE Finish("raised")

Runtime == Refuse \/ Admit \/ Spawn \/ CheckCancel \/ CheckClock \/ Wait \/ Drain

-----------------------------------------------------------------------------
(* What happens around it                                                  *)

Cancel ==
  /\ pc # "done" /\ ~cancelled /\ cancelled' = TRUE
  /\ UNCHANGED <<pc, input, child, holder, expired, outcome, status>>

Expire ==
  /\ pc \in {"cancel", "clock", "wait"} /\ ~expired /\ expired' = TRUE
  /\ UNCHANGED <<pc, input, child, holder, cancelled, outcome, status>>

ChildForks ==
  /\ child = "running" /\ ~holder /\ holder' = TRUE
  /\ UNCHANGED <<pc, input, child, cancelled, expired, outcome, status>>

ChildExits ==
  /\ child = "running" /\ child' \in {"zero", "nonzero"}
  /\ UNCHANGED <<pc, input, holder, cancelled, expired, outcome, status>>

HolderExits ==
  /\ holder /\ holder' = FALSE
  /\ UNCHANGED <<pc, input, child, cancelled, expired, outcome, status>>

World == Cancel \/ Expire \/ ChildForks \/ ChildExits \/ HolderExits

\* Once execute has returned, nothing more is observed.
Next == Runtime \/ (pc # "done" /\ World)

\* The thread runs on; nothing is assumed of the child, the canceller or the clock.
Spec == Init /\ [][Next]_vars /\ WF_vars(Runtime)

-----------------------------------------------------------------------------
\* Whether execute returns or raises, it leaves no running child behind, whenever the child
\* forks, exits, is cancelled or times out.
NoChildSurvives == pc = "done" => child # "running"

\* The verdict is true of the child: completed means it ended by itself with code 0 and
\* nothing holds its output; a kill is always reported; cancelled and timed out mean the
\* event was set and the deadline had passed; a refused call never had a child.
VerdictIsTrue ==
  /\ status = "completed" => child = "zero" /\ ~holder
  /\ child = "killed" /\ pc = "done" => status \in {"cancelled", "timed_out", "raised"}
  /\ status = "cancelled" => cancelled
  /\ status = "timed_out" => expired
  /\ status \in {"blocked", "dry_run_completed"} => child = "none"

\* Whatever the child, the canceller and the clock do, execute ends with one of the answers
\* the gate reckons with (ExecutionGovernance takes them in one step), and says of the
\* workspace what is true: it was touched exactly if there was a child.  A cancellation,
\* which the gate never asks for, is the only other answer.
AnswerIsForeseen ==
  pc = "done" =>
    \/ status = "cancelled" /\ cancelled
    \/ Outcome(status, child # "none")
         \in SubprocessOutcomes(dryRun, enabled, command \in {"missing", "runnable"})

\* execute must return: the event is set, the deadline has passed, or the output has ended.
Due == cancelled \/ expired \/ AtEof

\* An upper bound on the steps left to the runtime's thread once execute must return: the
\* event is polled before the clock, the clock before the output.
StepsLeft ==
  IF pc = "done" THEN 0
  ELSE IF pc = "drain" THEN 1
  ELSE IF expired THEN [clock |-> 2, cancel |-> 3, wait |-> 4][pc]
  ELSE IF cancelled
    THEN [cancel |-> 5, wait |-> 6, clock |-> 7, spawn |-> 8, start |-> 9][pc]
  ELSE [wait |-> 8, clock |-> 9, cancel |-> 10][pc]

\* Once execute must return it stays so, every step of the thread leaves it fewer of at most
\* ten steps to go, and nothing the child, the canceller or the clock does adds to them.
DueCountsDown ==
  [][Due => Due' /\ StepsLeft' <= StepsLeft /\ (Runtime => StepsLeft' < StepsLeft)]_vars

\* Cancellation alone, the deadline alone, or the end of the child's output alone makes
\* execute return or raise: none of them waits for another.
EndsOnceDue == Due ~> pc = "done"
=============================================================================
