------------------------------- MODULE Rollback -------------------------------
(***************************************************************************)
(* RollbackManager (runtime/rollback.py): a plan snapshots the targets of  *)
(* a contract, tools then change the workspace, and execute_rollback       *)
(* copies the snapshots back, pair by pair, until it is done or a copy     *)
(* raises.  The plan is a value in the orchestrator's memory: a crash      *)
(* loses it (save_rollback_plan writes it to the store, and nothing reads  *)
(* it back), and leaves whatever was copied.                               *)
(***************************************************************************)
EXTENDS Integers, Sequences, FiniteSets

CONSTANTS Names,        \* file names a contract may target
          Outside,      \* those that resolve outside the workspace
          Contents,     \* file contents
          None,         \* no file
          Torn,         \* what an interrupted copy leaves
          TargetLists   \* target_resources of the contracts

ASSUME NamesAssumption    == Outside \subseteq Names
ASSUME ContentsAssumption == None \notin Contents /\ Torn \notin Contents /\ None # Torn
ASSUME TargetsAssumption  == TargetLists \subseteq Seq(Names)

\* The contract builder never chooses the fifth strategy, "transactional".
Strategies == {"none", "file_snapshot", "manual", "git_patch_reverse"}
Results    == {"none", "completed", "failed", "manual_required", "not_possible"}
File       == Contents \cup {None, Torn}

VARIABLES
  disk,      \* the files
  plan,      \* the plan in memory: strategy, targets, refs (names in snapshot order), validated
  snapshots, \* the files of the plan's snapshot directory
  before,    \* the files when the plan was made (history)
  result     \* what execute_rollback returned, if it is the last thing that happened

vars == <<disk, plan, snapshots, before, result>>

NoPlan == [strategy |-> "none", targets |-> <<>>, refs |-> <<>>, validated |-> FALSE]

Plans == [strategy : Strategies, targets : Seq(Names), refs : Seq(Names), validated : BOOLEAN]

TypeOK ==
  /\ disk \in [Names -> File]
  /\ plan \in Plans
  /\ snapshots \in [Names -> File]
  /\ before \in [Names -> File]
  /\ result \in Results

Init ==
  /\ disk \in [Names -> Contents \cup {None}]
  /\ plan = NoPlan
  /\ snapshots = [n \in Names |-> None]
  /\ before = disk
  /\ result = "none"

\* A tool, in the runtime or not, writes or deletes a file of the workspace.
Tool(n, content) ==
  /\ n \notin Outside /\ content # disk[n]
  /\ disk' = [disk EXCEPT ![n] = content]
  /\ result' = "none"
  /\ UNCHANGED <<plan, snapshots, before>>

\* The j-th of a set of indexes.
Nth(S, j) == CHOOSE i \in S : Cardinality({k \in S : k <= i}) = j

\* Mutant: a file that is targeted twice is snapshotted once.
KeptOnce(targets) ==
  {i \in DOMAIN targets : /\ disk[targets[i]] # None /\ targets[i] \notin Outside
                          /\ \A j \in 1 .. i - 1 : targets[j] # targets[i]}

\* The indexes of the targets that are snapshotted: files, and of the workspace.
Kept(targets) == {i \in DOMAIN targets : disk[targets[i]] # None /\ targets[i] \notin Outside}

\* create_plan: the other targets are passed over.  Targets are relative paths without "..":
\* the snapshots of such a plan are in a directory of its own, and only those are modelled
\* (snap_root / rel is elsewhere for an absolute path, whose leading slash is taken off only
\* to read it, and for one that goes up).
CreatePlan(targets, strategy) ==
  LET existing == {i \in DOMAIN targets : disk[targets[i]] # None}
      kept     == IF strategy = "file_snapshot" THEN Kept(targets) ELSE {}
  IN  /\ plan' = [strategy |-> strategy, targets |-> targets,
                  refs |-> [j \in 1 .. Cardinality(kept) |-> targets[Nth(kept, j)]],
                  validated |-> kept # {} /\ Cardinality(kept) = Cardinality(existing)]
      /\ snapshots' = [n \in Names |-> IF \E i \in kept : targets[i] = n THEN disk[n] ELSE None]
      /\ before' = disk
      /\ result' = "none"
      /\ UNCHANGED disk

\* Somebody cleans up the snapshot directory.
LoseSnapshot(n) ==
  /\ snapshots[n] # None
  /\ snapshots' = [snapshots EXCEPT ![n] = None]
  /\ UNCHANGED <<disk, plan, before, result>>

\* validate_plan: every snapshot is there, and there is one.
ValidatePlan ==
  /\ plan.strategy = "file_snapshot"
  /\ plan' = [plan EXCEPT !.validated =
                /\ Len(plan.refs) > 0
                /\ \A i \in DOMAIN plan.refs : snapshots[plan.refs[i]] # None]
  /\ UNCHANGED <<disk, snapshots, before, result>>

\* Mutant: the workspace check is forgotten.
RestorableAnywhere(i) == TRUE

\* The i-th pair is copied unless its destination is outside the workspace.
Restorable(i) == plan.targets[i] \notin Outside

\* Mutant: the pairs are taken in reverse.
RestoredReversed(k) ==
  [n \in Names |->
     LET copied == {i \in 1 .. k : plan.targets[i] = n /\ Restorable(i)}
     IN  IF copied = {} THEN disk[n]
         ELSE snapshots[plan.refs[Len(plan.refs) + 1
                                    - CHOOSE i \in copied : \A j \in copied : j <= i]]]

\* The files after the first k pairs of zip(snapshot_refs, target_resources): for a file
\* copied more than once the last copy stands.
Restored(k) ==
  [n \in Names |->
     LET copied == {i \in 1 .. k : plan.targets[i] = n /\ Restorable(i)}
     IN  IF copied = {} THEN disk[n]
         ELSE snapshots[plan.refs[CHOOSE i \in copied : \A j \in copied : j <= i]]]

Copied(k) == \A i \in 1 .. k : Restorable(i) => snapshots[plan.refs[i]] # None

\* All pairs are copied.
RollbackCompletes ==
  /\ plan.strategy = "file_snapshot" /\ Len(plan.refs) > 0
  /\ Copied(Len(plan.refs))
  /\ disk' = Restored(Len(plan.refs))
  /\ result' = "completed"
  /\ UNCHANGED <<plan, snapshots, before>>

\* The copy of pair k + 1 raises an OSError: the snapshot is gone or the disk fails, the
\* latter with the destination intact or torn.
RollbackFails(k) ==
  /\ plan.strategy = "file_snapshot" /\ k < Len(plan.refs)
  /\ Copied(k) /\ Restorable(k + 1)
  /\ \/ disk' = Restored(k)
     \/ /\ snapshots[plan.refs[k + 1]] # None
        /\ disk' = [Restored(k) EXCEPT ![plan.targets[k + 1]] = Torn]
  /\ result' = "failed"
  /\ UNCHANGED <<plan, snapshots, before>>

\* Mutant: the plan's strategy is returned for a status.
RollbackRefusedByName ==
  /\ result' = plan.strategy
  /\ plan.strategy = "file_snapshot" => plan.refs = <<>>
  /\ UNCHANGED <<disk, plan, snapshots, before>>

\* Nothing to copy, or no strategy that copies.
RollbackRefused ==
  /\ result' = CASE plan.strategy = "none"          -> "not_possible"
                 [] plan.strategy = "file_snapshot" -> "failed"
                 [] OTHER                           -> "manual_required"
  /\ plan.strategy = "file_snapshot" => plan.refs = <<>>
  /\ UNCHANGED <<disk, plan, snapshots, before>>

\* The process dies after k copies and forgets the plan.
Crash(k) ==
  /\ k <= Len(plan.refs) /\ Copied(k)
  /\ disk' = Restored(k)
  /\ plan' = NoPlan
  /\ snapshots' = [n \in Names |-> None]
  /\ result' = "none"
  /\ UNCHANGED before

Next ==
  \/ \E n \in Names, content \in Contents \cup {None} : Tool(n, content)
  \/ \E targets \in TargetLists, strategy \in Strategies : CreatePlan(targets, strategy)
  \/ \E n \in Names : LoseSnapshot(n)
  \/ ValidatePlan
  \/ RollbackCompletes
  \/ \E k \in 0 .. Len(plan.refs) : RollbackFails(k)
  \/ RollbackRefused
  \/ \E k \in 0 .. Len(plan.refs) : Crash(k)

Spec == Init /\ [][Next]_vars

-----------------------------------------------------------------------------
Targets == {plan.targets[i] : i \in DOMAIN plan.targets}

\* The snapshots pair with the targets they were made of: no target was passed over
\* before another one was snapshotted.
Aligned == \A i \in DOMAIN plan.refs : plan.refs[i] = plan.targets[i]

\* A completed rollback of an aligned plan puts back every file it snapshotted, however
\* many rollbacks failed, tore files or lost snapshots before it.
AlignedRollbackRestores ==
  result = "completed" /\ Aligned =>
    \A i \in DOMAIN plan.refs : disk[plan.refs[i]] = before[plan.refs[i]]

\* Where every target was a file of the workspace, one that is named twice included, a
\* completed rollback puts all of them back.
WholePlanRestores ==
  result = "completed" /\ (\A n \in Targets : before[n] # None /\ n \notin Outside) =>
    \A n \in Targets : disk[n] = before[n]

\* Whatever a rollback does, misaligned or half-way, it writes to targets inside the
\* workspace only, and only what a snapshot held or a torn copy of it.
RollbackIsConfined ==
  [][ result' \in {"completed", "failed"} =>
        \A n \in Names : disk'[n] # disk[n] =>
          /\ n \in Targets \ Outside
          /\ disk'[n] = Torn \/ \E m \in Targets : disk'[n] = before[m] ]_vars

\* "a rollback can restore the state before the change": a completed rollback of a
\* validated plan puts every target that was a file back as it was.
RollbackRestoresPriorState ==
  result = "completed" /\ plan.validated =>
    \A n \in Targets : before[n] # None => disk[n] = before[n]
=============================================================================
