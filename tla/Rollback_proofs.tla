---------------------------- MODULE Rollback_proofs ----------------------------
(***************************************************************************)
(* Proofs about Rollback, for any files, contents and target lists, and    *)
(* any number of plans, faults, crashes and rollbacks.                     *)
(***************************************************************************)
EXTENDS Rollback, FiniteSetTheorems, WellFoundedInduction, TLAPS

\* There is a target for every snapshot; a snapshot is of a target in the workspace, and
\* holds what that held when the plan was made, as long as it is there.
PlanIsBacked ==
  /\ Len(plan.refs) <= Len(plan.targets)
  /\ \A i \in DOMAIN plan.refs :
       /\ plan.refs[i] \in Targets \ Outside
       /\ snapshots[plan.refs[i]] \in {None, before[plan.refs[i]]}

\* If all targets are files of the workspace, none is passed over.
WholePlanIsSnapshotted ==
  plan.strategy = "file_snapshot" /\ (\A n \in Targets : before[n] # None /\ n \notin Outside) =>
    plan.refs = plan.targets

IInv ==
  /\ TypeOK
  /\ PlanIsBacked
  /\ WholePlanIsSnapshotted
  /\ result = "completed" => plan.strategy = "file_snapshot"
  /\ AlignedRollbackRestores

-----------------------------------------------------------------------------
(* The indexes of a plan                                                   *)

\* Among some numbers, one is least.
LEMMA LeastNumber ==
  ASSUME NEW T \in SUBSET Nat, T # {}
  PROVE  \E i \in T : \A j \in T : i <= j
<1>1. PICK i \in T : \A j \in T : ~ (<<j, i>> \in OpToRel(<, Nat))
  BY WFMin, NatLessThanWellFounded
<1>2. \A j \in T : ~ (j < i)
  BY <1>1 DEF OpToRel
<1>3. \A j \in T : j \in Int /\ i \in Int
  OBVIOUS
<1>4. \A j \in T : i <= j
  BY <1>2, <1>3
<1> QED
  BY <1>4

\* Among the indexes up to a bound, one is greatest.
LEMMA GreatestIndex ==
  ASSUME NEW k \in Nat, NEW T \in SUBSET (1 .. k), T # {}
  PROVE  /\ (CHOOSE i \in T : \A j \in T : j <= i) \in T
         /\ \A j \in T : j <= CHOOSE i \in T : \A m \in T : m <= i
<1> DEFINE U == {u \in Nat : \E i \in T : u = k - i}
<1>1. \A i \in T : i \in Int /\ k - i \in Nat
  OBVIOUS
<1>2. U \in SUBSET Nat /\ U # {}
  BY <1>1
<1>3. \A u \in U : \E i \in T : u = k - i
  OBVIOUS
<1>4. \A i \in T : k - i \in U
  BY <1>1
<1> HIDE DEF U
<1>5. PICK u \in U : \A v \in U : u <= v
  BY <1>2, LeastNumber
<1>6. PICK i \in T : u = k - i
  BY <1>3, <1>5
<1>7. \A j \in T : j <= i
  <2> TAKE j \in T
  <2>1. u <= k - j
    BY <1>4, <1>5
  <2> QED
    BY <1>1, <1>6, <2>1
<1> QED
  BY <1>6, <1>7

\* Of some indexes, those up to the next one: itself too, if it is among them.
LEMMA OneMoreUpTo ==
  ASSUME NEW S \in SUBSET Nat, NEW i \in Nat \ {0}
  PROVE  {k \in S : k <= i} = {k \in S : k <= i - 1} \cup (S \cap {i})
<1>1. \A k \in S : k \in Nat
  OBVIOUS
<1>2. \A k \in Nat : k <= i <=> k <= i - 1 \/ k = i
  OBVIOUS
<1> QED
  BY <1>1, <1>2

\* A set of indexes up to a bound has a j-th one, for every j up to its cardinality.
LEMMA NthOf ==
  ASSUME NEW n \in Nat, NEW S \in SUBSET (1 .. n), NEW j \in 1 .. Cardinality(S)
  PROVE  Nth(S, j) \in S
<1> DEFINE below(i) == {k \in S : k <= i}
           T == {i \in Nat : Cardinality(below(i)) >= j}
<1>1. \A k \in S : k \in Nat /\ 1 <= k /\ k <= n
  OBVIOUS
<1>2. IsFiniteSet(S) /\ Cardinality(S) \in Nat
  <2>1. IsFiniteSet(1 .. n)
    BY FS_Interval
  <2> QED
    BY <2>1, FS_Subset, FS_CardinalityType
<1>3. j \in Nat /\ 1 <= j /\ j <= Cardinality(S)
  BY <1>2
<1>4. \A i \in Nat : IsFiniteSet(below(i)) /\ Cardinality(below(i)) \in Nat
  <2> TAKE i \in Nat
  <2> DEFINE B == below(i)
  <2>1. B \subseteq S
    OBVIOUS
  <2> HIDE DEF B
  <2>2. IsFiniteSet(B) /\ Cardinality(B) \in Nat
    BY <1>2, <2>1, FS_Subset, FS_CardinalityType
  <2> QED
    BY <2>2 DEF B
<1>5. \A i \in Nat : Cardinality(below(i)) >= j <=> i \in T
  OBVIOUS
<1>6. n \in T
  <2>1. below(n) = S
    BY <1>1
  <2> QED
    BY <1>3, <1>5, <2>1
<1>7. PICK i \in T : \A k \in T : i <= k
  <2>1. T \in SUBSET Nat /\ T # {}
    BY <1>6
  <2> HIDE DEF T
  <2> QED
    BY <2>1, LeastNumber
<1>8. i \in Nat /\ Cardinality(below(i)) >= j
  OBVIOUS
<1> HIDE DEF T
<1>9. i # 0
  <2>1. below(0) = {}
    <3>1. \A k \in S : ~ (k <= 0)
      BY <1>1
    <3> QED
      BY <3>1
  <2>2. Cardinality({}) = 0
    BY FS_EmptySet
  <2> QED
    BY <1>3, <1>8, <2>1, <2>2
<1>10. i - 1 \in Nat /\ ~ (Cardinality(below(i - 1)) >= j)
  <2>1. i - 1 \in Nat /\ ~ (i <= i - 1)
    BY <1>8, <1>9
  <2>2. i - 1 \notin T
    BY <1>7, <2>1
  <2> QED
    BY <1>5, <2>1, <2>2
<1> DEFINE A == below(i)
           B == below(i - 1)
<1>11. A = B \cup (S \cap {i}) /\ i \notin B
  <2>1. S \in SUBSET Nat /\ i \in Nat \ {0}
    BY <1>1, <1>8, <1>9
  <2>2. A = B \cup (S \cap {i})
    BY <2>1, OneMoreUpTo
  <2>3. ~ (i <= i - 1)
    BY <1>8
  <2> QED
    BY <2>2, <2>3
<1>12. /\ IsFiniteSet(B) /\ Cardinality(A) \in Nat /\ Cardinality(B) \in Nat
       /\ Cardinality(A) >= j /\ ~ (Cardinality(B) >= j)
  BY <1>4, <1>8, <1>10
<1> HIDE DEF A, B
<1>13. i \in S /\ A = B \cup {i}
  BY <1>11, <1>12
<1>14. Cardinality(A) = Cardinality(B) + 1
  BY <1>11, <1>12, <1>13, FS_AddElement
<1>15. Cardinality(A) = j
  BY <1>3, <1>12, <1>14
<1> QED
  BY <1>13, <1>15 DEF Nth, A

\* The j-th of all indexes is j.
LEMMA NthOfAll ==
  ASSUME NEW n \in Nat, NEW j \in 1 .. n
  PROVE  Nth(1 .. n, j) = j
<1>1. \A i \in 1 .. n : Cardinality({k \in 1 .. n : k <= i}) = i
  <2> TAKE i \in 1 .. n
  <2>1. {k \in 1 .. n : k <= i} = 1 .. i
    OBVIOUS
  <2>2. Cardinality(1 .. i) = i
    BY FS_Interval
  <2> QED
    BY <2>1, <2>2
<1> QED
  BY <1>1 DEF Nth

-----------------------------------------------------------------------------
(* The copies                                                              *)

\* What stands after the first k copies: the file of the last pair that was copied onto it,
\* or the file as it was.
LEMMA RestoredFrom ==
  ASSUME NEW k \in Nat, NEW n \in Names
  PROVE  \/ /\ Restored(k)[n] = disk[n]
            /\ \A i \in 1 .. k : plan.targets[i] = n => ~ Restorable(i)
         \/ \E i \in 1 .. k : /\ plan.targets[i] = n /\ Restorable(i)
                              /\ Restored(k)[n] = snapshots[plan.refs[i]]
<1> DEFINE copied == {i \in 1 .. k : plan.targets[i] = n /\ Restorable(i)}
           last   == CHOOSE i \in copied : \A j \in copied : j <= i
<1>1. Restored(k)[n] = IF copied = {} THEN disk[n] ELSE snapshots[plan.refs[last]]
  BY DEF Restored
<1>2. copied # {} => last \in copied
  <2>1. copied \in SUBSET (1 .. k)
    OBVIOUS
  <2> HIDE DEF copied
  <2> QED
    BY <2>1, GreatestIndex
<1> HIDE DEF last
<1>3. CASE copied = {}
  BY <1>1, <1>3
<1>4. CASE copied # {}
  <2>1. /\ last \in 1 .. k /\ plan.targets[last] = n /\ Restorable(last)
        /\ Restored(k)[n] = snapshots[plan.refs[last]]
    BY <1>1, <1>2, <1>4
  <2> QED
    BY <2>1
<1> QED
  BY <1>3, <1>4

\* The files after some copies are files, and if snapshots were there for these copies, a
\* file that changed is a target in the workspace and holds what some target held.
LEMMA RestoredConfined ==
  ASSUME TypeOK, PlanIsBacked, NEW k \in 0 .. Len(plan.refs), Copied(k), NEW n \in Names
  PROVE  /\ Restored(k)[n] \in File
         /\ Restored(k)[n] # disk[n] =>
              n \in Targets \ Outside /\ \E m \in Targets : Restored(k)[n] = before[m]
<1>1. /\ plan.refs \in Seq(Names) /\ plan.targets \in Seq(Names)
      /\ disk \in [Names -> File] /\ snapshots \in [Names -> File]
  BY DEF TypeOK, Plans
<1>2. \A i \in 1 .. k : i \in DOMAIN plan.refs /\ i \in DOMAIN plan.targets
  BY <1>1 DEF PlanIsBacked
<1>3. ASSUME Restored(k)[n] # disk[n]
      PROVE  /\ Restored(k)[n] \in File
             /\ n \in Targets \ Outside
             /\ \E m \in Targets : Restored(k)[n] = before[m]
  <2>1. PICK i \in 1 .. k : /\ plan.targets[i] = n /\ Restorable(i)
                            /\ Restored(k)[n] = snapshots[plan.refs[i]]
    BY <1>3, RestoredFrom
  <2>2. n \in Targets \ Outside
    BY <1>2, <2>1 DEF Targets, Restorable
  <2>3. /\ plan.refs[i] \in Targets /\ plan.refs[i] \in Names
        /\ snapshots[plan.refs[i]] = before[plan.refs[i]]
    BY <1>1, <1>2, <2>1 DEF PlanIsBacked, Copied
  <2> QED
    BY <1>1, <2>1, <2>2, <2>3
<1>4. disk[n] \in File
  BY <1>1
<1> QED
  BY <1>3, <1>4

\* The files after some copies are a workspace.
LEMMA RestoredType ==
  ASSUME TypeOK, PlanIsBacked, NEW k \in 0 .. Len(plan.refs), Copied(k)
  PROVE  Restored(k) \in [Names -> File]
<1>1. \A n \in Names : Restored(k)[n] \in File
  BY RestoredConfined
<1>2. Restored(k) = [n \in Names |-> Restored(k)[n]]
  BY DEF Restored
<1> QED
  BY <1>1, <1>2

\* All copies of an aligned plan put back what its targets held.
LEMMA AlignedRestored ==
  ASSUME TypeOK, PlanIsBacked, Copied(Len(plan.refs)), Aligned, NEW i \in DOMAIN plan.refs
  PROVE  Restored(Len(plan.refs))[plan.refs[i]] = before[plan.refs[i]]
<1> DEFINE k == Len(plan.refs)
           n == plan.refs[i]
<1>1. plan.refs \in Seq(Names) /\ k \in Nat /\ DOMAIN plan.refs = 1 .. k /\ n \in Names
  BY DEF TypeOK, Plans
<1>2. plan.targets[i] = n /\ Restorable(i)
  BY DEF Aligned, Restorable, PlanIsBacked
<1>3. PICK j \in 1 .. k : /\ plan.targets[j] = n /\ Restorable(j)
                          /\ Restored(k)[n] = snapshots[plan.refs[j]]
  BY <1>1, <1>2, RestoredFrom
<1>4. plan.refs[j] = n
  BY <1>1, <1>3 DEF Aligned
<1>5. snapshots[n] # None
  BY <1>3, <1>4 DEF Copied
<1>6. snapshots[n] \in {None, before[n]}
  BY DEF PlanIsBacked
<1> QED
  BY <1>3, <1>4, <1>5, <1>6

-----------------------------------------------------------------------------
(* The inductive invariant                                                 *)

\* A plan's snapshots are of targets in the workspace, no more than there are targets, and
\* of all of them if all are files of the workspace.
LEMMA PlannedRefs ==
  ASSUME TypeOK, NEW targets \in Seq(Names)
  PROVE  LET kept == Kept(targets)
             refs == [j \in 1 .. Cardinality(kept) |-> targets[Nth(kept, j)]]
         IN  /\ refs \in Seq(Names) /\ Len(refs) <= Len(targets)
             /\ \A j \in DOMAIN refs : \E i \in kept : refs[j] = targets[i]
             /\ kept = DOMAIN targets => refs = targets
<1> DEFINE kept == Kept(targets)
           n == Len(targets)
           c == Cardinality(kept)
           refs == [j \in 1 .. c |-> targets[Nth(kept, j)]]
<1>1. n \in Nat /\ DOMAIN targets = 1 .. n
  OBVIOUS
<1>2. kept \in SUBSET (1 .. n)
  BY <1>1 DEF Kept
<1> HIDE DEF kept
<1>3. c \in Nat /\ c <= n
  <2>1. IsFiniteSet(1 .. n) /\ Cardinality(1 .. n) = n
    BY <1>1, FS_Interval
  <2> QED
    BY <1>2, <2>1, FS_Subset, FS_CardinalityType
<1> HIDE DEF c, n
<1>4. \A j \in 1 .. c : Nth(kept, j) \in kept
  BY <1>1, <1>2, NthOf DEF c
<1>5. \A j \in 1 .. c : targets[Nth(kept, j)] \in Names
  <2>1. \A i \in kept : targets[i] \in Names
    BY <1>1, <1>2
  <2> QED
    BY <1>4, <2>1
<1>6. refs \in Seq(Names) /\ Len(refs) = c /\ DOMAIN refs = 1 .. c
  BY <1>3, <1>5
<1>7. \A j \in DOMAIN refs : \E i \in kept : refs[j] = targets[i]
  BY <1>4, <1>6
<1>8. ASSUME kept = DOMAIN targets PROVE refs = targets
  <2>1. kept = 1 .. n /\ c = n
    BY <1>1, <1>8, FS_Interval DEF c
  <2>2. \A j \in 1 .. n : refs[j] = targets[j]
    BY <1>1, <2>1, NthOfAll
  <2>3. targets = [j \in 1 .. n |-> targets[j]]
    BY <1>1
  <2> QED
    BY <2>1, <2>2, <2>3
<1> QED
  BY <1>3, <1>6, <1>7, <1>8 DEF kept, n, c

\* A new plan is backed by its snapshots.
LEMMA CreatePlanIInv ==
  ASSUME IInv, NEW targets \in TargetLists, NEW strategy \in Strategies,
         CreatePlan(targets, strategy)
  PROVE  IInv'
<1> DEFINE kept == IF strategy = "file_snapshot" THEN Kept(targets) ELSE {}
           refs == [j \in 1 .. Cardinality(kept) |-> targets[Nth(kept, j)]]
<1>1. targets \in Seq(Names)
  BY TargetsAssumption
<1>2. /\ plan'.strategy = strategy /\ plan'.targets = targets /\ plan'.refs = refs
      /\ plan' = [strategy |-> strategy, targets |-> targets, refs |-> refs,
                  validated |-> plan'.validated]
      /\ plan'.validated \in BOOLEAN
      /\ snapshots' = [n \in Names |-> IF \E i \in kept : targets[i] = n THEN disk[n] ELSE None]
      /\ before' = disk /\ disk' = disk /\ result' = "none"
  BY DEF CreatePlan
<1>3. disk \in [Names -> File]
  BY DEF IInv, TypeOK
<1>4. /\ refs \in Seq(Names) /\ Len(refs) <= Len(targets)
      /\ \A j \in DOMAIN refs : \E i \in Kept(targets) : i \in kept /\ refs[j] = targets[i]
      /\ strategy = "file_snapshot" /\ Kept(targets) = DOMAIN targets => refs = targets
  <2>1. CASE strategy = "file_snapshot"
    <3>1. kept = Kept(targets)
      BY <2>1
    <3>2. TypeOK
      BY DEF IInv
    <3>3. /\ refs \in Seq(Names) /\ Len(refs) <= Len(targets)
          /\ \A j \in DOMAIN refs : \E i \in kept : refs[j] = targets[i]
          /\ kept = DOMAIN targets => refs = targets
      BY <1>1, <3>1, <3>2, PlannedRefs
    <3> QED
      BY <3>1, <3>3
  <2>2. CASE strategy # "file_snapshot"
    <3>1. kept = {} /\ Cardinality(kept) = 0
      BY <2>2, FS_EmptySet
    <3>2. refs = <<>>
      BY <3>1
    <3> HIDE DEF refs, kept
    <3>3. refs \in Seq(Names) /\ DOMAIN refs = {} /\ Len(refs) = 0
      BY <3>2
    <3>4. Len(targets) \in Nat
      BY <1>1
    <3> QED
      BY <2>2, <3>3, <3>4
  <2> QED
    BY <2>1, <2>2
<1> HIDE DEF refs
<1>5. Targets' = {targets[i] : i \in DOMAIN targets}
  BY <1>2 DEF Targets
<1>6. \A i \in Kept(targets) : targets[i] \in Targets' \ Outside /\ targets[i] \in Names
  BY <1>1, <1>5 DEF Kept
<1>7. \A j \in DOMAIN refs : /\ refs[j] \in Targets' \ Outside
                             /\ snapshots'[refs[j]] = disk[refs[j]]
  <2> TAKE j \in DOMAIN refs
  <2>1. PICK i \in Kept(targets) : i \in kept /\ refs[j] = targets[i]
    BY <1>4
  <2>2. snapshots'[targets[i]] = disk[targets[i]]
    BY <1>2, <1>6, <2>1
  <2> QED
    BY <1>6, <2>1, <2>2
<1>8. TypeOK'
  <2>1. snapshots' \in [Names -> File]
    BY <1>2, <1>3 DEF File
  <2>2. plan' \in Plans
    BY <1>1, <1>2, <1>4 DEF Plans
  <2> QED
    BY <1>2, <1>3, <2>1, <2>2 DEF TypeOK, Results
<1>9. PlanIsBacked'
  <2>1. \A j \in DOMAIN refs : /\ refs[j] \in (Targets \ Outside)'
                               /\ snapshots'[refs[j]] \in {None, before'[refs[j]]}
    BY <1>2, <1>7
  <2> QED
    BY <1>2, <1>4, <2>1 DEF PlanIsBacked
<1>10. WholePlanIsSnapshotted'
  <2> SUFFICES ASSUME strategy = "file_snapshot",
                      \A n \in Targets' : disk[n] # None /\ n \notin Outside
               PROVE  refs = targets
    BY <1>2 DEF WholePlanIsSnapshotted
  <2>1. Kept(targets) = DOMAIN targets
    BY <1>5 DEF Kept
  <2> QED
    BY <1>4, <2>1
<1>11. AlignedRollbackRestores'
  BY <1>2 DEF AlignedRollbackRestores
<1> QED
  BY <1>2, <1>8, <1>9, <1>10, <1>11 DEF IInv

\* A rollback of whatever kind leaves the plan and its snapshots as they are.
LEMMA RollbackIInv ==
  ASSUME IInv, UNCHANGED <<plan, snapshots, before>>, disk' \in [Names -> File],
         result' \in Results,
         result' = "completed" => plan.strategy = "file_snapshot" /\ AlignedRollbackRestores'
  PROVE  IInv'
<1>1. TypeOK'
  BY DEF IInv, TypeOK
<1>2. PlanIsBacked'
  BY DEF IInv, PlanIsBacked, Targets
<1>3. WholePlanIsSnapshotted'
  BY DEF IInv, WholePlanIsSnapshotted, Targets
<1>4. AlignedRollbackRestores'
  BY DEF AlignedRollbackRestores
<1> QED
  BY <1>1, <1>2, <1>3, <1>4 DEF IInv

\* So does a completed one, which puts the files of an aligned plan back.
LEMMA CompletesIInv == IInv /\ RollbackCompletes => IInv'
<1> SUFFICES ASSUME IInv, RollbackCompletes PROVE IInv'
  OBVIOUS
<1> DEFINE k == Len(plan.refs)
<1>1. /\ plan.strategy = "file_snapshot" /\ Copied(k) /\ disk' = Restored(k)
      /\ result' = "completed" /\ UNCHANGED <<plan, snapshots, before>>
  BY DEF RollbackCompletes
<1>2. TypeOK /\ PlanIsBacked /\ k \in 0 .. Len(plan.refs)
  <2>1. Len(plan.refs) \in Nat
    BY DEF IInv, TypeOK, Plans
  <2> QED
    BY <2>1 DEF IInv
<1>3. disk' \in [Names -> File]
  BY <1>1, <1>2, RestoredType
<1>4. AlignedRollbackRestores'
  <2> SUFFICES ASSUME Aligned, NEW i \in DOMAIN plan.refs
               PROVE  disk'[plan.refs[i]] = before[plan.refs[i]]
    BY <1>1 DEF AlignedRollbackRestores, Aligned
  <2> QED
    BY <1>1, <1>2, AlignedRestored
<1> QED
  BY <1>1, <1>3, <1>4, RollbackIInv DEF Results

\* And one that raises.
LEMMA FailsIInv ==
  ASSUME IInv, NEW k \in 0 .. Len(plan.refs), RollbackFails(k)
  PROVE  IInv'
<1>1. TypeOK /\ PlanIsBacked /\ Copied(k) /\ UNCHANGED <<plan, snapshots, before>>
      /\ result' = "failed"
  BY DEF IInv, RollbackFails
<1>2. Restored(k) \in [Names -> File]
  BY <1>1, RestoredType
<1>3. disk' \in [Names -> File]
  BY <1>2 DEF RollbackFails, File
<1> QED
  BY <1>1, <1>3, RollbackIInv DEF Results

\* Every step keeps the invariant.
LEMMA StepIInv == IInv /\ [Next]_vars => IInv'
<1> SUFFICES ASSUME IInv, [Next]_vars PROVE IInv'
  OBVIOUS
<1>1. ASSUME NEW n \in Names, NEW content \in Contents \cup {None}, Tool(n, content)
      PROVE  IInv'
  <2>1. UNCHANGED <<plan, snapshots, before>> /\ result' = "none"
    BY <1>1 DEF Tool
  <2>2. disk' \in [Names -> File]
    BY <1>1 DEF Tool, IInv, TypeOK, File
  <2> QED
    BY <2>1, <2>2, RollbackIInv DEF Results
<1>2. ASSUME NEW targets \in TargetLists, NEW strategy \in Strategies,
             CreatePlan(targets, strategy)
      PROVE  IInv'
  BY <1>2, CreatePlanIInv
<1>3. ASSUME NEW n \in Names, LoseSnapshot(n) PROVE IInv'
  <2>1. UNCHANGED <<disk, plan, before, result>> /\ snapshots' = [snapshots EXCEPT ![n] = None]
    BY <1>3 DEF LoseSnapshot
  <2>2. snapshots' \in [Names -> File]
    BY <2>1 DEF IInv, TypeOK, File
  <2>3. \A m \in Names : snapshots'[m] \in {None, snapshots[m]}
    BY <2>1 DEF IInv, TypeOK
  <2>4. \A i \in DOMAIN plan.refs : plan.refs[i] \in Names
    BY DEF IInv, TypeOK, Plans
  <2>5. PlanIsBacked'
    BY <2>1, <2>3, <2>4 DEF IInv, PlanIsBacked, Targets
  <2>6. WholePlanIsSnapshotted' /\ AlignedRollbackRestores'
    BY <2>1 DEF IInv, WholePlanIsSnapshotted, AlignedRollbackRestores, Targets, Aligned
  <2> QED
    BY <2>1, <2>2, <2>5, <2>6 DEF IInv, TypeOK
<1>4. CASE ValidatePlan
  <2>1. /\ UNCHANGED <<disk, snapshots, before, result>> /\ plan' \in Plans
        /\ plan'.strategy = plan.strategy /\ plan'.targets = plan.targets
        /\ plan'.refs = plan.refs
    BY <1>4 DEF ValidatePlan, IInv, TypeOK, Plans
  <2>2. Targets' = Targets /\ Aligned' = Aligned
    BY <2>1 DEF Targets, Aligned
  <2>3. PlanIsBacked'
    BY <2>1, <2>2 DEF IInv, PlanIsBacked
  <2>4. WholePlanIsSnapshotted' /\ AlignedRollbackRestores'
    BY <2>1, <2>2 DEF IInv, WholePlanIsSnapshotted, AlignedRollbackRestores
  <2> QED
    BY <2>1, <2>3, <2>4 DEF IInv, TypeOK
<1>5. CASE RollbackCompletes
  BY <1>5, CompletesIInv
<1>6. ASSUME NEW k \in 0 .. Len(plan.refs), RollbackFails(k) PROVE IInv'
  BY <1>6, FailsIInv
<1>7. CASE RollbackRefused
  <2>1. /\ UNCHANGED <<disk, plan, snapshots, before>>
        /\ result' \in {"not_possible", "failed", "manual_required"}
    BY <1>7 DEF RollbackRefused
  <2> QED
    BY <2>1, RollbackIInv DEF IInv, TypeOK, Results
<1>8. ASSUME NEW k \in 0 .. Len(plan.refs), Crash(k) PROVE IInv'
  <2>1. /\ Copied(k) /\ disk' = Restored(k) /\ plan' = NoPlan /\ result' = "none"
        /\ snapshots' = [n \in Names |-> None] /\ before' = before
    BY <1>8 DEF Crash
  <2>2. disk' \in [Names -> File]
    BY <2>1, RestoredType DEF IInv
  <2>3. NoPlan \in Plans /\ NoPlan.refs = <<>> /\ NoPlan.targets = <<>> /\ NoPlan.strategy = "none"
    BY DEF NoPlan, Plans, Strategies
  <2>4. TypeOK'
    BY <2>1, <2>2, <2>3 DEF IInv, TypeOK, File, Results
  <2>5. PlanIsBacked' /\ WholePlanIsSnapshotted' /\ AlignedRollbackRestores'
    BY <2>1, <2>3 DEF PlanIsBacked, WholePlanIsSnapshotted, AlignedRollbackRestores
  <2> QED
    BY <2>1, <2>4, <2>5 DEF IInv
<1>9. CASE UNCHANGED vars
  BY <1>9, RollbackIInv DEF vars, IInv, TypeOK, AlignedRollbackRestores, Aligned
<1> QED
  BY <1>1, <1>2, <1>3, <1>4, <1>5, <1>6, <1>7, <1>8, <1>9 DEF Next

\* The invariant holds in every state.
LEMMA Invariance == Spec => []IInv
<1>1. Init => IInv
  <2> SUFFICES ASSUME Init PROVE IInv
    OBVIOUS
  <2>1. NoPlan \in Plans /\ NoPlan.refs = <<>> /\ NoPlan.targets = <<>> /\ NoPlan.strategy = "none"
    BY DEF NoPlan, Plans, Strategies
  <2>2. TypeOK
    BY <2>1 DEF Init, TypeOK, File, Results
  <2>3. PlanIsBacked /\ WholePlanIsSnapshotted /\ AlignedRollbackRestores
    BY <2>1 DEF Init, PlanIsBacked, WholePlanIsSnapshotted, AlignedRollbackRestores
  <2> QED
    BY <2>2, <2>3 DEF IInv, Init
<1> QED
  BY <1>1, StepIInv, PTL DEF Spec

-----------------------------------------------------------------------------
(* The theorems                                                            *)

\* Every reachable state has its type: no rollback returns anything but a status, and no
\* pairing reaches behind the targets.
THEOREM TypeCorrect == Spec => []TypeOK
BY Invariance, PTL DEF IInv

\* A completed rollback of an aligned plan restores every file it snapshotted, whatever
\* happened to the files, the snapshots and the rollbacks before it.
THEOREM AlignedRestores == Spec => []AlignedRollbackRestores
BY Invariance, PTL DEF IInv

\* Where every target was a file of the workspace the plan is aligned and leaves none out,
\* so that a completed rollback restores them all.
THEOREM WholePlan == Spec => []WholePlanRestores
<1>1. IInv => WholePlanRestores
  <2> SUFFICES ASSUME IInv, result = "completed",
                      \A n \in Targets : before[n] # None /\ n \notin Outside,
                      NEW n \in Targets
               PROVE  disk[n] = before[n]
    BY DEF WholePlanRestores
  <2>1. plan.refs = plan.targets
    BY DEF IInv, WholePlanIsSnapshotted
  <2>2. \A i \in DOMAIN plan.refs : disk[plan.refs[i]] = before[plan.refs[i]]
    BY <2>1 DEF IInv, AlignedRollbackRestores, Aligned
  <2> QED
    BY <2>1, <2>2 DEF Targets
<1> QED
  BY <1>1, Invariance, PTL

\* Whatever a rollback does, misaligned or half-way, it writes to targets in the workspace
\* only, and only what a target held or a torn copy of it.
THEOREM RollbackConfined == Spec => RollbackIsConfined
<1> DEFINE Confined == result' \in {"completed", "failed"} =>
              \A n \in Names : disk'[n] # disk[n] =>
                /\ n \in Targets \ Outside
                /\ disk'[n] = Torn \/ \E m \in Targets : disk'[n] = before[m]
<1>1. IInv /\ [Next]_vars => Confined
  <2> SUFFICES ASSUME IInv, [Next]_vars, result' \in {"completed", "failed"},
                      NEW n \in Names, disk'[n] # disk[n]
               PROVE  /\ n \in Targets \ Outside
                      /\ disk'[n] = Torn \/ \E m \in Targets : disk'[n] = before[m]
    OBVIOUS
  <2>1. TypeOK /\ PlanIsBacked
    BY DEF IInv
  <2>2. CASE RollbackCompletes
    <3> DEFINE k == Len(plan.refs)
    <3>1. k \in 0 .. Len(plan.refs)
      BY <2>1 DEF TypeOK, Plans
    <3>2. Copied(k) /\ disk' = Restored(k)
      BY <2>2 DEF RollbackCompletes
    <3> QED
      BY <2>1, <3>1, <3>2, RestoredConfined
  <2>3. ASSUME NEW k \in 0 .. Len(plan.refs), RollbackFails(k)
        PROVE  /\ n \in Targets \ Outside
               /\ disk'[n] = Torn \/ \E m \in Targets : disk'[n] = before[m]
    <3>1. /\ k < Len(plan.refs) /\ Copied(k) /\ Restorable(k + 1)
          /\ \/ disk' = Restored(k)
             \/ disk' = [Restored(k) EXCEPT ![plan.targets[k + 1]] = Torn]
      BY <2>3 DEF RollbackFails
    <3>2. Restored(k) \in [Names -> File]
      BY <2>1, <3>1, RestoredType
    <3>3. CASE disk'[n] = Restored(k)[n]
      BY <2>1, <3>1, <3>3, RestoredConfined
    <3>4. CASE n = plan.targets[k + 1] /\ disk'[n] = Torn
      <4>1. k + 1 \in DOMAIN plan.targets
        BY <2>1, <3>1 DEF TypeOK, Plans, PlanIsBacked
      <4> QED
        BY <3>1, <3>4, <4>1 DEF Restorable, Targets
    <3> QED
      BY <3>1, <3>2, <3>3, <3>4
  <2>4. disk' = disk \/ RollbackCompletes \/ \E k \in 0 .. Len(plan.refs) : RollbackFails(k)
    BY DEF Next, Tool, CreatePlan, LoseSnapshot, ValidatePlan, RollbackRefused, Crash, vars
  <2> QED
    BY <2>2, <2>3, <2>4
<1>2. IInv /\ [Next]_vars => [Confined]_vars
  BY <1>1
<1> QED
  BY <1>2, Invariance, PTL DEF Spec, RollbackIsConfined
================================================================================
