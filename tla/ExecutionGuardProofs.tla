------------------------ MODULE ExecutionGuardProofs ------------------------
(***************************************************************************)
(* What ExecutionGuard guarantees for any number of engines and tasks.     *)
(*                                                                         *)
(* The lock discipline needs no assumption: stops, cancellations and lost  *)
(* closes never leak the lock.  The single writer, and with it the         *)
(* refinement of SingleWriter, is proved for the operation of the system   *)
(* between stops and without the unguarded pending-entry monitor; the      *)
(* runs of MCExecutionGuard show that both assumptions are necessary.      *)
(***************************************************************************)
EXTENDS ExecutionGuard, TLAPS

USE HomeAssumption, NobodyNotTask

\* The records that describe a handed-over close.
LEMMA JobFields ==
  /\ NoJob \in Job
  /\ \A j \in Job, s \in Stage : [j EXCEPT !.stage = s] \in Job
  /\ \A j \in Job, b \in BOOLEAN : [j EXCEPT !.cancel = b] \in Job
  /\ \A e \in Engine, b, p \in BOOLEAN :
       [owner |-> e, stage |-> "queued", held |-> b, partial |-> p,
        cancel |-> FALSE] \in Job
BY DEF NoJob, Job, Stage

\* Leaving the guard keeps the types of what it resets.
LEMMA ReleaseTypes ==
  ASSUME TypeOK, NEW t \in Task, NEW next \in PC, ReleaseAs(t, next)
  PROVE  /\ locked' \in BOOLEAN
         /\ held' \in [Task -> BOOLEAN]
         /\ depth' \in [Task -> 0 .. MaxDepth]
         /\ pc' \in [Task -> PC]
<1>1. 0 \in 0 .. MaxDepth
  BY DepthAssumption
<1>2. QED BY <1>1 DEF ReleaseAs, TypeOK

\* Every variable keeps its type: the nesting depth stays within its bound, and
\* a task, a handed-over close and a loop only pass through their own stages.
THEOREM TypeCorrect == Spec => []TypeOK
<1> USE DepthAssumption
<1>1. Init => TypeOK
  <2>1. 0 \in 0 .. MaxDepth
    OBVIOUS
  <2>2. QED BY <2>1, JobFields DEF Init, TypeOK, PC
<1>2. TypeOK /\ [Next]_vars => TypeOK'
  <2> SUFFICES ASSUME TypeOK, [Next]_vars PROVE TypeOK'
    OBVIOUS
  <2>0. {"idle", "polling", "guarded", "awaiting", "bare", "dead"} \subseteq PC
    BY DEF PC
  <2>1. ASSUME NEW t \in Task, GuardStep(t) PROVE TypeOK'
    <3>1. CASE Enter(t)
      BY <3>1, <2>0 DEF Enter, TypeOK
    <3>2. CASE Acquire(t)
      BY <3>2, <2>0 DEF Acquire, TypeOK
    <3>3. CASE LeaveNested(t)
      BY <3>3 DEF LeaveNested, TypeOK
    <3>4. CASE Leave(t)
      BY <3>4, <2>0, ReleaseTypes DEF Leave, TypeOK
    <3>5. CASE BareStart(t) \/ BareEnd(t)
      BY <3>5, <2>0 DEF BareStart, BareEnd, TypeOK
    <3>6. CASE Retry(t)
      BY <3>6 DEF Retry, vars, TypeOK
    <3>7. QED BY <2>1, <3>1, <3>2, <3>3, <3>4, <3>5, <3>6 DEF GuardStep
  <2>2. ASSUME NEW t \in Task, NetStep(t) PROVE TypeOK'
    <3>1. ASSUME NEW e \in Engine, NEW partial \in BOOLEAN, Dispatch(t, e, partial)
          PROVE TypeOK'
      BY <3>1, <2>0, JobFields DEF Dispatch, TypeOK
    <3>2. ASSUME NEW e \in Engine, DispatchRejected(t, e) PROVE TypeOK'
      BY <3>2, <2>0, ReleaseTypes DEF DispatchRejected, TypeOK
    <3>3. CASE ResumeDone(t)
      BY <3>3, <2>0, JobFields DEF ResumeDone, TypeOK
    <3>4. CASE ResumeFailed(t) \/ ResumeCancelled(t)
      BY <3>4, <2>0, JobFields, ReleaseTypes
         DEF ResumeFailed, ResumeCancelled, TypeOK
    <3>5. QED BY <2>2, <3>1, <3>2, <3>3, <3>4 DEF NetStep
  <2>3. ASSUME NEW t \in Task, JobStep(t) PROVE TypeOK'
    <3>1. PICK from \in SUBSET Stage, to \in Stage : JobMoves(t, from, to)
      BY <2>3 DEF JobStep, JobStart, JobProtect, JobFinish, JobFail,
                  JobCancelled, Started, Pending, Stage
    <3>2. QED BY <3>1, JobFields DEF JobMoves, TypeOK
  <2>4. ASSUME NEW t \in Task, CancelTask(t) PROVE TypeOK'
    <3>1. job' \in [Task -> Job]
      BY <2>4, JobFields DEF CancelTask, TypeOK
    <3>2. CASE held[t]
      BY <2>4, <2>0, <3>1, <3>2, ReleaseTypes DEF CancelTask, TypeOK
    <3>3. CASE ~held[t]
      BY <2>4, <2>0, <3>1, <3>3 DEF CancelTask, TypeOK
    <3>4. QED BY <3>2, <3>3
  <2>5. ASSUME NEW e \in Engine, StopStep(e) PROVE TypeOK'
    <3>1. {"cancelled", "lost"} \subseteq Stage
      BY DEF Stage
    <3>2. job' \in [Task -> Job]
      <4>1. CASE Stop(e)
        BY <4>1 DEF Stop, TypeOK
      <4>2. CASE Shutdown(e)
        BY <4>2, <3>1, JobFields DEF Shutdown, TypeOK
      <4>3. CASE Close(e)
        BY <4>3, <3>1, JobFields DEF Close, TypeOK
      <4>4. QED BY <2>5, <4>1, <4>2, <4>3 DEF StopStep
    <3>3. QED BY <2>5, <3>2 DEF StopStep, Stop, Shutdown, Close, TypeOK
  <2>6. CASE UNCHANGED vars
    BY <2>6 DEF vars, TypeOK
  <2>7. QED BY <2>1, <2>2, <2>3, <2>4, <2>5, <2>6 DEF Next
<1>3. QED BY <1>1, <1>2, PTL DEF Spec

-----------------------------------------------------------------------------
\* A task that leaves the guard, by whatever exit, was its only holder.
LEMMA ReleaseKeepsDiscipline ==
  ASSUME TypeOK, LockDiscipline, NEW t \in Task, held[t],
         NEW next \in {"idle", "dead"}, ReleaseAs(t, next)
  PROVE  LockDiscipline'
BY DEF TypeOK, LockDiscipline, ReleaseAs

\* No step of the program leaks the lock: it is held exactly while one task is
\* inside execution_guard or awaits a netting close from there, whatever is
\* stopped, cancelled or lost in between.
THEOREM GuardDiscipline == Spec => []LockDiscipline
<1>1. Init => LockDiscipline
  BY DEF Init, LockDiscipline
<1>2. TypeOK /\ LockDiscipline /\ [Next]_vars => LockDiscipline'
  <2> SUFFICES ASSUME TypeOK, LockDiscipline, [Next]_vars
               PROVE  LockDiscipline'
    OBVIOUS
  <2>1. ASSUME NEW t \in Task, GuardStep(t) PROVE LockDiscipline'
    <3>1. CASE Enter(t)
      BY <3>1 DEF TypeOK, LockDiscipline, Enter
    <3>2. CASE Acquire(t)
      BY <3>2 DEF TypeOK, LockDiscipline, Acquire
    <3>3. CASE Leave(t)
      BY <3>3, ReleaseKeepsDiscipline DEF LockDiscipline, Leave
    <3>4. CASE LeaveNested(t) \/ BareStart(t) \/ BareEnd(t)
      BY <3>4 DEF TypeOK, LockDiscipline, LeaveNested, BareStart, BareEnd
    <3>5. CASE Retry(t)
      BY <3>5 DEF Retry, vars, LockDiscipline
    <3>6. QED BY <2>1, <3>1, <3>2, <3>3, <3>4, <3>5 DEF GuardStep
  <2>2. ASSUME NEW t \in Task, NetStep(t) PROVE LockDiscipline'
    <3>1. ASSUME NEW e \in Engine, NEW partial \in BOOLEAN, Dispatch(t, e, partial)
          PROVE LockDiscipline'
      BY <3>1 DEF TypeOK, LockDiscipline, Dispatch
    <3>2. ASSUME NEW e \in Engine, DispatchRejected(t, e) PROVE LockDiscipline'
      BY <3>2, ReleaseKeepsDiscipline DEF LockDiscipline, DispatchRejected
    <3>3. CASE ResumeDone(t)
      BY <3>3 DEF TypeOK, LockDiscipline, ResumeDone
    <3>4. CASE ResumeFailed(t) \/ ResumeCancelled(t)
      BY <3>4, ReleaseKeepsDiscipline
         DEF LockDiscipline, ResumeFailed, ResumeCancelled
    <3>5. QED BY <2>2, <3>1, <3>2, <3>3, <3>4 DEF NetStep
  <2>3. ASSUME NEW t \in Task, JobStep(t) PROVE LockDiscipline'
    BY <2>3 DEF LockDiscipline, JobStep, JobStart, JobProtect, JobFinish,
                JobFail, JobCancelled, JobMoves
  <2>4. ASSUME NEW t \in Task, CancelTask(t) PROVE LockDiscipline'
    <3>1. CASE held[t]
      BY <2>4, <3>1, ReleaseKeepsDiscipline DEF CancelTask
    <3>2. CASE ~held[t]
      BY <2>4, <3>2 DEF CancelTask, TypeOK, LockDiscipline
    <3>3. QED BY <3>1, <3>2
  <2>5. ASSUME NEW e \in Engine, StopStep(e) PROVE LockDiscipline'
    BY <2>5 DEF LockDiscipline, StopStep, Stop, Shutdown, Close
  <2>6. CASE UNCHANGED vars
    BY <2>6 DEF vars, LockDiscipline
  <2>7. QED BY <2>1, <2>2, <2>3, <2>4, <2>5, <2>6 DEF Next
<1>3. QED BY <1>1, <1>2, TypeCorrect, PTL DEF Spec
-----------------------------------------------------------------------------
(* The single writer.                                                      *)

\* The system between stops, without the unguarded pending-entry monitor.
Calm == Stoppable = {} /\ Bare = {}

\* Between stops a close is only under way for a task that awaits it.
CalmInv ==
  /\ \A e \in Engine : loop[e] = "running"
  /\ \A t \in Task : pc[t] \notin {"bare", "dead"}
  /\ \A t \in Task : job[t].stage # "none" => pc[t] = "awaiting"
  /\ \A t \in Task : ~job[t].cancel /\ job[t].stage # "cancelled"

\* Without stops no close is ever cancelled, and only its awaiting caller has one.
LEMMA CalmInvariant == ASSUME Calm PROVE Spec => []CalmInv
<1>1. Init => CalmInv
  BY DEF Init, CalmInv, NoJob
<1>2. TypeOK /\ CalmInv /\ [Next]_vars => CalmInv'
  <2> SUFFICES ASSUME TypeOK, CalmInv, [Next]_vars PROVE CalmInv'
    OBVIOUS
  <2>1. ASSUME NEW t \in Task, GuardStep(t) PROVE CalmInv'
    <3>1. ~BareStart(t)
      BY DEF BareStart, Calm
    <3>2. ASSUME NEW next \in {"idle"}, ReleaseAs(t, next), UNCHANGED <<job, loop>>,
                 pc[t] = "guarded"
          PROVE  CalmInv'
      BY <3>2 DEF CalmInv, TypeOK, ReleaseAs
    <3>3. QED
      BY <2>1, <3>1, <3>2 DEF GuardStep, CalmInv, TypeOK, Enter, Retry, vars,
                              Acquire, LeaveNested, Leave, BareEnd
  <2>2. ASSUME NEW t \in Task, NetStep(t) PROVE CalmInv'
    <3>1. ASSUME NEW e \in Engine, NEW partial \in BOOLEAN, Dispatch(t, e, partial)
          PROVE CalmInv'
      BY <3>1 DEF CalmInv, TypeOK, Dispatch
    <3>2. \A e \in Engine : ~DispatchRejected(t, e)
      BY DEF CalmInv, DispatchRejected
    <3>3. CASE ResumeDone(t) \/ ResumeFailed(t)
      BY <3>3 DEF CalmInv, TypeOK, ResumeDone, ResumeFailed, ReleaseAs, NoJob
    <3>4. ~ResumeCancelled(t)
      BY DEF CalmInv, ResumeCancelled
    <3>5. QED BY <2>2, <3>1, <3>2, <3>3, <3>4 DEF NetStep
  <2>3. ASSUME NEW t \in Task, JobStep(t) PROVE CalmInv'
    <3>1. PICK from \in SUBSET (Stage \ {"none"}), to \in Stage \ {"cancelled"} :
            JobMoves(t, from, to)
      BY <2>3 DEF JobStep, JobStart, JobProtect, JobFinish, JobFail,
                  JobCancelled, CalmInv, Started, Pending, Stage
    <3>2. pc[t] = "awaiting"
      BY <3>1 DEF JobMoves, CalmInv
    <3>3. QED BY <3>1, <3>2 DEF JobMoves, CalmInv, TypeOK, Job
  <2>4. ASSUME NEW t \in Task, CancelTask(t) PROVE CalmInv'
    BY <2>4 DEF CalmInv, CancelTask
  <2>5. ASSUME NEW e \in Engine, StopStep(e) PROVE CalmInv'
    BY <2>5 DEF CalmInv, StopStep, Stop, Shutdown, Close, Calm
  <2>6. CASE UNCHANGED vars
    BY <2>6 DEF vars, CalmInv
  <2>7. QED BY <2>1, <2>2, <2>3, <2>4, <2>5, <2>6 DEF Next
<1>3. QED BY <1>1, <1>2, TypeCorrect, PTL DEF Spec

\* A task on whose behalf the exchange is mutated holds the guard.
LEMMA ActiveHolds ==
  ASSUME LockDiscipline, CalmInv, NEW t \in Task, Active(t)
  PROVE  held[t]
BY DEF LockDiscipline, CalmInv, Active, Started

\* Between stops, and as long as every reconciler enters the guard, no two
\* tasks ever have the exchange account mutated on their behalf, whichever
\* event loops the mutations run in.
THEOREM SingleWriterBetweenStops == ASSUME Calm PROVE Spec => []OneWriter
<1>1. LockDiscipline /\ CalmInv => OneWriter
  BY ActiveHolds DEF OneWriter, LockDiscipline
<1>2. QED BY <1>1, GuardDiscipline, CalmInvariant, PTL

-----------------------------------------------------------------------------
(* Refinement of the abstract single writer.                               *)

\* The holder of a set of contexts with one holder.
LEMMA HolderIsUnique ==
  ASSUME NEW h, \A s, t \in Task : h[s] /\ h[t] => s = t, NEW t \in Task, h[t]
  PROVE  HolderOf(h) = t
BY DEF HolderOf

\* Nobody holds the guard when no context says so.
LEMMA HolderIsNobody ==
  ASSUME NEW h, \A t \in Task : ~h[t]
  PROVE  HolderOf(h) = Nobody
BY DEF HolderOf

\* Who is entitled to write, and who writes, in a state of the detailed system.
LEMMA AbstractState ==
  ASSUME LockDiscipline, CalmInv
  PROVE  /\ \A t \in Task : held[t] => Holder = t
         /\ ~locked => Holder = Nobody
         /\ \A t \in Task : held[t] => Writing = IF Active(t) THEN {t} ELSE {}
         /\ ~locked => Writing = {}
<1>1. \A t \in Task : held[t] => Holder = t
  BY HolderIsUnique DEF LockDiscipline, Holder
<1>2. ~locked => Holder = Nobody
  BY HolderIsNobody DEF LockDiscipline, Holder
<1>3. \A t \in Task : Active(t) => held[t]
  BY ActiveHolds
<1>4. QED BY <1>1, <1>2, <1>3 DEF LockDiscipline, Writing

\* Between stops the guard, with the work handed from loop to loop, implements
\* the abstract single writer: every step of an engine is a grant, a pause, a
\* resumption or a release of the one entitled requester, or no step at all.
THEOREM Refinement == ASSUME Calm PROVE Spec => ImplementsSingleWriter
<1> DEFINE I == TypeOK /\ LockDiscipline /\ CalmInv
<1>1. Init => Writer!Init
  BY HolderIsNobody DEF Init, Writer!Init, Holder, Writing, Active, NoJob, Started
<1>2. I /\ I' /\ [Next]_vars => [Writer!Next]_<<Holder, Writing>>
  <2> SUFFICES ASSUME I, I', [Next]_vars
               PROVE  [Writer!Next]_<<Holder, Writing>>
    OBVIOUS
  <2>1. /\ \A t \in Task : held'[t] => Holder' = t
        /\ ~locked' => Holder' = Nobody
        /\ \A t \in Task : held'[t] => Writing' = IF Active(t)' THEN {t} ELSE {}
        /\ ~locked' => Writing' = {}
    <3>1. \A t \in Task : held'[t] => Holder' = t
      BY HolderIsUnique DEF LockDiscipline, Holder
    <3>2. ~locked' => Holder' = Nobody
      BY HolderIsNobody DEF LockDiscipline, Holder
    <3>3. \A t \in Task : Active(t)' => held'[t]
      BY DEF LockDiscipline, CalmInv, Active, Started
    <3>4. QED BY <3>1, <3>2, <3>3 DEF LockDiscipline, Writing
  <2>2. ASSUME UNCHANGED held, \A s \in Task : Active(s)' = Active(s)
        PROVE  UNCHANGED <<Holder, Writing>>
    BY <2>2 DEF Holder, Writing
  <2>3. ASSUME NEW t \in Task, held[t], held'[t] PROVE [Writer!Next]_<<Holder, Writing>>
    BY <2>1, <2>3, AbstractState DEF Writer!Next, Writer!Pause, Writer!Resume
  <2>4. ASSUME NEW t \in Task, ~locked, held'[t], pc'[t] = "guarded"
        PROVE  Writer!Next
    BY <2>1, <2>4, AbstractState DEF Writer!Next, Writer!Grant, Active
  <2>5. ASSUME NEW t \in Task, held[t], ~locked' PROVE Writer!Next
    BY <2>1, <2>5, AbstractState DEF Writer!Next, Writer!Release
  <2>6. ASSUME NEW t \in Task, GuardStep(t)
        PROVE  [Writer!Next]_<<Holder, Writing>>
    <3>1. CASE Enter(t)
      BY <3>1, <2>2 DEF Enter, Active, TypeOK, LockDiscipline
    <3>2. CASE Acquire(t)
      BY <3>2, <2>4 DEF Acquire, TypeOK
    <3>3. CASE LeaveNested(t)
      BY <3>3, <2>2 DEF LeaveNested, Active
    <3>4. CASE Leave(t)
      BY <3>4, <2>5 DEF Leave, ReleaseAs, LockDiscipline
    <3>5. ~BareStart(t) /\ ~BareEnd(t)
      BY DEF BareStart, BareEnd, CalmInv, Calm
    <3>6. CASE Retry(t)
      BY <3>6, <2>2 DEF Retry, vars, Active
    <3>7. QED BY <2>6, <3>1, <3>2, <3>3, <3>4, <3>5, <3>6 DEF GuardStep
  <2>7. ASSUME NEW t \in Task, NetStep(t)
        PROVE  [Writer!Next]_<<Holder, Writing>>
    <3>1. ASSUME NEW e \in Engine, NEW partial \in BOOLEAN, Dispatch(t, e, partial)
          PROVE [Writer!Next]_<<Holder, Writing>>
      BY <3>1, <2>3 DEF Dispatch, LockDiscipline
    <3>2. \A e \in Engine : ~DispatchRejected(t, e)
      BY DEF CalmInv, DispatchRejected
    <3>3. CASE ResumeDone(t)
      BY <3>3, <2>3 DEF ResumeDone, LockDiscipline
    <3>4. CASE ResumeFailed(t) \/ ResumeCancelled(t)
      BY <3>4, <2>5 DEF ResumeFailed, ResumeCancelled, ReleaseAs, LockDiscipline
    <3>5. QED BY <2>7, <3>1, <3>2, <3>3, <3>4 DEF NetStep
  <2>8. ASSUME NEW t \in Task, JobStep(t)
        PROVE  [Writer!Next]_<<Holder, Writing>>
    <3>1. PICK from \in SUBSET (Stage \ {"none"}), to \in Stage : JobMoves(t, from, to)
      BY <2>8 DEF JobStep, JobStart, JobProtect, JobFinish, JobFail,
                  JobCancelled, Started, Pending, Stage
    <3>2. held[t] /\ held'[t]
      BY <3>1 DEF JobMoves, CalmInv, LockDiscipline
    <3>3. QED BY <3>2, <2>3
  <2>9. ASSUME NEW t \in Task PROVE ~CancelTask(t)
    BY HomeAssumption DEF CancelTask, CalmInv
  <2>10. ASSUME NEW e \in Engine PROVE ~StopStep(e)
    BY DEF StopStep, Stop, Shutdown, Close, CalmInv, Calm
  <2>11. CASE UNCHANGED vars
    BY <2>2, <2>11 DEF vars, Active
  <2>12. QED BY <2>6, <2>7, <2>8, <2>9, <2>10, <2>11 DEF Next
<1>3. QED
  BY <1>1, <1>2, TypeCorrect, GuardDiscipline, CalmInvariant, PTL
     DEF Spec, ImplementsSingleWriter, Writer!Spec, Writer!swVars
=============================================================================
