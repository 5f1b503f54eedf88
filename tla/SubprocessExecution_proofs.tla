---------------------- MODULE SubprocessExecution_proofs ----------------------
(***************************************************************************)
(* Proofs of the safety of SubprocessExecution, and of the measure that    *)
(* bounds its termination.  The liveness itself stays with TLC.            *)
(***************************************************************************)
EXTENDS SubprocessExecution, TLAPS

\* The call got past the early returns.
Started == ~dryRun /\ enabled /\ command \in {"missing", "runnable"}

\* What each place of the loop knows: no child and no clock before the child is started, and
\* none of them without a call that may start one; no child killed while it is waited for,
\* and a dead one with a reason once its output is being drained.
Places ==
  /\ pc # "done" => status = "none"
  /\ pc \in {"start", "spawn"} => child = "none" /\ ~expired
  /\ pc \in {"spawn", "cancel", "clock", "wait", "drain"} => Started
  /\ pc \in {"cancel", "clock", "wait", "drain"} => command = "runnable"
  /\ pc \in {"cancel", "clock", "wait"} => child \in {"running", "zero", "nonzero"}
  /\ pc = "drain" =>
       /\ Dead
       /\ \/ outcome = "cancelled" /\ cancelled
          \/ outcome = "timeout" /\ expired

\* The inductive invariant.
IInv == TypeOK /\ Places /\ NoChildSurvives /\ VerdictIsTrue /\ AnswerIsForeseen

\* Nothing is known at the start and nothing needs to be.
LEMMA InitIInv == Init => IInv
  BY CommandsAssumption DEF Init, IInv, TypeOK, Places, NoChildSurvives, VerdictIsTrue,
    AnswerIsForeseen, Started, SubprocessOutcomes, Outcome, Refused

\* A step of the runtime's thread keeps the invariant.
LEMMA RuntimeIInv == IInv /\ Runtime => IInv'
<1> SUFFICES ASSUME IInv, Runtime PROVE IInv'
  OBVIOUS
<1> USE DEF IInv, TypeOK, Places, NoChildSurvives, VerdictIsTrue, Finish, input, world,
    AnswerIsForeseen, Started, SubprocessOutcomes, Outcome, Refused
<1>1. CASE Refuse
  BY <1>1 DEF Refuse
<1>2. CASE Admit
  BY <1>2 DEF Admit
<1>3. CASE Spawn
  BY <1>3 DEF Spawn
<1>4. CASE CheckCancel
  BY <1>4 DEF CheckCancel, KillAndDrain, Dead
<1>5. CASE CheckClock
  BY <1>5 DEF CheckClock, KillAndDrain, Dead
<1>6. CASE Wait
  BY <1>6 DEF Wait, StatusOf, AtEof, Dead
<1>7. CASE Drain
  BY <1>7 DEF Drain, StatusOf, AtEof, Dead
<1> QED
  BY <1>1, <1>2, <1>3, <1>4, <1>5, <1>6, <1>7 DEF Runtime

\* So does anything that happens around it before it is done.
LEMMA WorldIInv == IInv /\ pc # "done" /\ World => IInv'
<1> SUFFICES ASSUME IInv, pc # "done", World PROVE IInv'
  OBVIOUS
<1> USE DEF IInv, TypeOK, Places, NoChildSurvives, VerdictIsTrue, Dead, input,
    AnswerIsForeseen, Started, SubprocessOutcomes, Outcome, Refused
<1>1. CASE Cancel
  BY <1>1 DEF Cancel
<1>2. CASE Expire
  BY <1>2 DEF Expire
<1>3. CASE ChildForks
  BY <1>3 DEF ChildForks
<1>4. CASE ChildExits
  BY <1>4 DEF ChildExits
<1>5. CASE HolderExits
  BY <1>5 DEF HolderExits
<1> QED
  BY <1>1, <1>2, <1>3, <1>4, <1>5 DEF World

\* The invariant holds throughout.
LEMMA SpecIInv == Spec => []IInv
<1>1. IInv /\ UNCHANGED vars => IInv'
  BY DEF IInv, TypeOK, Places, NoChildSurvives, VerdictIsTrue, Dead, vars,
    AnswerIsForeseen, Started
<1> QED
  BY <1>1, InitIInv, RuntimeIInv, WorldIInv, PTL DEF Spec, Next

-----------------------------------------------------------------------------
(* The measure                                                             *)

\* The steps left at each place, for places the thread can be at when execute must return.
LEMMA StepsLeftAt ==
  /\ pc = "done" => StepsLeft = 0
  /\ pc = "drain" => StepsLeft = 1
  /\ pc = "clock" => StepsLeft = IF expired THEN 2 ELSE IF cancelled THEN 7 ELSE 9
  /\ pc = "cancel" => StepsLeft = IF expired THEN 3 ELSE IF cancelled THEN 5 ELSE 10
  /\ pc = "wait" => StepsLeft = IF expired THEN 4 ELSE IF cancelled THEN 6 ELSE 8
  /\ pc = "spawn" /\ ~expired /\ cancelled => StepsLeft = 8
  /\ pc = "start" /\ ~expired /\ cancelled => StepsLeft = 9
  BY DEF StepsLeft

\* The same after a step.
LEMMA StepsLeftThen ==
  /\ pc' = "done" => StepsLeft' = 0
  /\ pc' = "drain" => StepsLeft' = 1
  /\ pc' = "clock" => StepsLeft' = IF expired' THEN 2 ELSE IF cancelled' THEN 7 ELSE 9
  /\ pc' = "cancel" => StepsLeft' = IF expired' THEN 3 ELSE IF cancelled' THEN 5 ELSE 10
  /\ pc' = "wait" => StepsLeft' = IF expired' THEN 4 ELSE IF cancelled' THEN 6 ELSE 8
  /\ pc' = "spawn" /\ ~expired' /\ cancelled' => StepsLeft' = 8
  /\ pc' = "start" /\ ~expired' /\ cancelled' => StepsLeft' = 9
  BY DEF StepsLeft

\* A step of the thread, once execute must return, leaves it fewer steps to go.
LEMMA RuntimeCountsDown ==
  IInv /\ Due /\ Runtime => Due' /\ StepsLeft' < StepsLeft /\ StepsLeft' <= StepsLeft
<1> SUFFICES ASSUME IInv, Due, Runtime
             PROVE  Due' /\ StepsLeft' < StepsLeft /\ StepsLeft' <= StepsLeft
  OBVIOUS
<1> USE DEF IInv, TypeOK, Places, Due, AtEof, Dead, Finish, input, world
<1>1. CASE Refuse
  BY <1>1, StepsLeftAt, StepsLeftThen DEF Refuse
<1>2. CASE Admit
  BY <1>2, StepsLeftAt, StepsLeftThen DEF Admit
<1>3. CASE Spawn
  BY <1>3, StepsLeftAt, StepsLeftThen DEF Spawn
<1>4. CASE CheckCancel
  BY <1>4, StepsLeftAt, StepsLeftThen DEF CheckCancel, KillAndDrain
<1>5. CASE CheckClock
  BY <1>5, StepsLeftAt, StepsLeftThen DEF CheckClock, KillAndDrain
<1>6. CASE Wait
  BY <1>6, StepsLeftAt, StepsLeftThen DEF Wait
<1>7. CASE Drain
  BY <1>7, StepsLeftAt, StepsLeftThen DEF Drain
<1> QED
  BY <1>1, <1>2, <1>3, <1>4, <1>5, <1>6, <1>7 DEF Runtime

\* Nothing that happens around it takes the obligation back or adds to the steps to go.
LEMMA WorldCountsDown ==
  IInv /\ Due /\ pc # "done" /\ World => Due' /\ StepsLeft' <= StepsLeft
<1> SUFFICES ASSUME IInv, Due, pc # "done", World PROVE Due' /\ StepsLeft' <= StepsLeft
  OBVIOUS
<1> USE DEF IInv, TypeOK, Places, Due, AtEof, Dead, input
<1>1. CASE Cancel
  BY <1>1, StepsLeftAt, StepsLeftThen DEF Cancel
<1>2. CASE Expire
  BY <1>2, StepsLeftAt, StepsLeftThen DEF Expire
<1>3. CASE ChildForks
  BY <1>3, StepsLeftAt, StepsLeftThen DEF ChildForks
<1>4. CASE ChildExits
  BY <1>4, StepsLeftAt, StepsLeftThen DEF ChildExits
<1>5. CASE HolderExits
  BY <1>5, StepsLeftAt, StepsLeftThen DEF HolderExits
<1> QED
  BY <1>1, <1>2, <1>3, <1>4, <1>5 DEF World

\* A step of the world before the end is no step of the thread: it leaves pc alone, and the
\* thread never does.
LEMMA WorldIsNotRuntime == IInv /\ World => ~Runtime
<1> SUFFICES ASSUME IInv, World, Runtime PROVE FALSE
  OBVIOUS
<1>1. pc' = pc
  BY DEF World, Cancel, Expire, ChildForks, ChildExits, HolderExits
<1>2. pc' # pc
  BY DEF Runtime, Refuse, Admit, Spawn, CheckCancel, CheckClock, Wait, Drain, Finish,
         KillAndDrain
<1> QED
  BY <1>1, <1>2

-----------------------------------------------------------------------------
(* The theorems                                                            *)

\* Every variable keeps its type.
THEOREM TypeCorrect == Spec => []TypeOK
<1>1. IInv => TypeOK
  BY DEF IInv
<1> QED
  BY <1>1, SpecIInv, PTL

\* execute never returns or raises over a child that still runs.
THEOREM NoOrphanChild == Spec => []NoChildSurvives
<1>1. IInv => NoChildSurvives
  BY DEF IInv
<1> QED
  BY <1>1, SpecIInv, PTL

\* What execute reports is true of the child, the event and the deadline.
THEOREM VerdictTrue == Spec => []VerdictIsTrue
<1>1. IInv => VerdictIsTrue
  BY DEF IInv
<1> QED
  BY <1>1, SpecIInv, PTL

\* The loop answers only what the gate's model of the runtime reckons with.
THEOREM AnswerForeseen == Spec => []AnswerIsForeseen
<1>1. IInv => AnswerIsForeseen
  BY DEF IInv
<1> QED
  BY <1>1, SpecIInv, PTL

\* Once execute must return, each step of its thread brings it closer and nothing else moves
\* it away: within the scheduling of one thread, the bound on what it still does.
THEOREM CountsDown == Spec => DueCountsDown
<1> DEFINE Down == Due => Due' /\ StepsLeft' <= StepsLeft /\ (Runtime => StepsLeft' < StepsLeft)
<1>1. IInv /\ Runtime => Down
  BY RuntimeCountsDown
<1>2. IInv /\ pc # "done" /\ World => Down
  BY WorldCountsDown, WorldIsNotRuntime
<1>3. IInv /\ [Next]_vars => [Down]_vars
  BY <1>1, <1>2 DEF Next
<1> QED
  BY <1>3, SpecIInv, PTL DEF Spec, DueCountsDown
=============================================================================
