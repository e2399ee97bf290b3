--------------------------- MODULE ExecutionGuard ---------------------------
(***************************************************************************)
(* The account-wide execution guard of live trading and the work done      *)
(* under it.  Every engine runs an asyncio loop in a thread of its own;    *)
(* the tasks of all engines share one AccountExecutionCoordinator, whose   *)
(* execution_guard is a non-blocking threading.Lock polled by the tasks    *)
(* and made re-entrant by a ContextVar.  A task that nets against a trade  *)
(* of another engine hands the close to that engine's loop and awaits it   *)
(* with the guard held; the handed-over coroutine runs in a copy of the    *)
(* caller's context, hence with guard_held already set.                    *)
(*                                                                         *)
(* An operator's stop cancels the tasks of an engine, and asyncio.run      *)
(* cancels what its loop still hosts before closing the loop.              *)
(***************************************************************************)
EXTENDS Naturals

CONSTANTS
  Engine,      \* the live engines, one event loop each
  Task,        \* the background tasks of all engines
  Home,        \* Home[t]: the engine whose loop runs task t
  Nobody,
  Stoppable,   \* engines an operator may stop
  Bare,        \* tasks that reconcile pending entries without the guard
  MaxDepth     \* bound on nested entries of the guard by one task

ASSUME HomeAssumption == Home \in [Task -> Engine]
ASSUME NobodyNotTask == Nobody \notin Task /\ Nobody \notin Engine
ASSUME StoppableAssumption == Stoppable \subseteq Engine
ASSUME BareAssumption == Bare \subseteq Task
ASSUME DepthAssumption == MaxDepth \in Nat \ {0}

VARIABLES
  locked,   \* _execution_lock
  held,     \* held[t]: guard_held in the context of task t
  depth,    \* depth[t]: nested entries of the guard by t
  pc,       \* pc[t]: where task t is
  job,      \* job[t]: the close that t handed to another engine
  loop      \* loop[e]: the event loop of engine e

vars == <<locked, held, depth, pc, job, loop>>

PC == {"idle", "polling", "guarded", "awaiting", "bare", "dead"}
Stage == {"none", "queued", "running", "protecting", "done", "failed",
          "cancelled", "lost"}
Job == [owner : Engine \cup {Nobody}, stage : Stage, held : BOOLEAN,
        partial : BOOLEAN, cancel : BOOLEAN]
NoJob == [owner |-> Nobody, stage |-> "none", held |-> FALSE,
          partial |-> FALSE, cancel |-> FALSE]

Started == {"running", "protecting"}
Pending == {"queued"} \cup Started
Alive(e) == loop[e] = "running"
Turning(e) == loop[e] # "closed"

TypeOK ==
  /\ locked \in BOOLEAN
  /\ held \in [Task -> BOOLEAN]
  /\ depth \in [Task -> 0 .. MaxDepth]
  /\ pc \in [Task -> PC]
  /\ job \in [Task -> Job]
  /\ loop \in [Engine -> {"running", "stopping", "closing", "closed"}]

Init ==
  /\ locked = FALSE
  /\ held = [t \in Task |-> FALSE]
  /\ depth = [t \in Task |-> 0]
  /\ pc = [t \in Task |-> "idle"]
  /\ job = [t \in Task |-> NoJob]
  /\ loop = [e \in Engine |-> "running"]

-----------------------------------------------------------------------------
(* Entering and leaving the guard.                                         *)

\* A task enters execution_guard: at once when its context already holds the
\* guard, else it starts to poll the lock.
Enter(t) ==
  /\ pc[t] \in {"idle", "guarded"} /\ depth[t] < MaxDepth
  /\ pc[t] = "idle" => Alive(Home[t])
  /\ IF held[t]
       THEN depth' = [depth EXCEPT ![t] = @ + 1] /\ UNCHANGED pc
       ELSE pc' = [pc EXCEPT ![t] = "polling"] /\ UNCHANGED depth
  /\ UNCHANGED <<locked, held, job, loop>>

\* [mutant] The result of acquire(blocking=False) is not looked at.
AcquireUnchecked(t) ==
  /\ pc[t] = "polling"
  /\ locked' = TRUE
  /\ held' = [held EXCEPT ![t] = TRUE]
  /\ pc' = [pc EXCEPT ![t] = "guarded"]
  /\ UNCHANGED <<depth, job, loop>>

\* acquire(blocking=False) fails: the task sleeps and tries again.
Retry(t) == pc[t] = "polling" /\ locked /\ UNCHANGED vars

\* acquire(blocking=False) succeeds.
Acquire(t) ==
  /\ pc[t] = "polling" /\ ~locked
  /\ locked' = TRUE
  /\ held' = [held EXCEPT ![t] = TRUE]
  /\ pc' = [pc EXCEPT ![t] = "guarded"]
  /\ UNCHANGED <<depth, job, loop>>

\* The outermost exit resets the ContextVar, then releases the lock.
ReleaseAs(t, next) ==
  /\ locked' = FALSE
  /\ held' = [held EXCEPT ![t] = FALSE]
  /\ depth' = [depth EXCEPT ![t] = 0]
  /\ pc' = [pc EXCEPT ![t] = next]

\* [mutant] An outermost exit is taken for a nested one.
LeaveNestedUnchecked(t) ==
  /\ pc[t] = "guarded"
  /\ depth' = [depth EXCEPT ![t] = @ - 1]
  /\ UNCHANGED <<locked, held, pc, job, loop>>

LeaveNested(t) ==
  /\ pc[t] = "guarded" /\ depth[t] > 0
  /\ depth' = [depth EXCEPT ![t] = @ - 1]
  /\ UNCHANGED <<locked, held, pc, job, loop>>

Leave(t) ==
  /\ pc[t] = "guarded" /\ depth[t] = 0
  /\ ReleaseAs(t, "idle")
  /\ UNCHANGED <<job, loop>>

\* The pending-entry monitor reconciles an entry with no guard at all.
BareStart(t) ==
  /\ t \in Bare /\ pc[t] = "idle" /\ Alive(Home[t])
  /\ pc' = [pc EXCEPT ![t] = "bare"]
  /\ UNCHANGED <<locked, held, depth, job, loop>>

BareEnd(t) ==
  /\ pc[t] = "bare"
  /\ pc' = [pc EXCEPT ![t] = "idle"]
  /\ UNCHANGED <<locked, held, depth, job, loop>>

-----------------------------------------------------------------------------
(* Netting against a trade owned by another engine.                        *)

\* [mutant] The guard is given up for the time of the remote close.
DispatchReleasing(t, e, partial) ==
  /\ pc[t] = "guarded" /\ depth[t] = 0 /\ e # Home[t] /\ Turning(e)
  /\ job' = [job EXCEPT ![t] = [owner |-> e, stage |-> "queued",
                                held |-> held[t], partial |-> partial,
                                cancel |-> FALSE]]
  /\ ReleaseAs(t, "awaiting")
  /\ UNCHANGED loop

\* [mutant] The remote close starts in a fresh context.
DispatchFreshContext(t, e, partial) ==
  /\ pc[t] = "guarded" /\ depth[t] = 0 /\ e # Home[t] /\ Turning(e)
  /\ job' = [job EXCEPT ![t] = [owner |-> e, stage |-> "queued",
                                held |-> FALSE, partial |-> partial,
                                cancel |-> FALSE]]
  /\ pc' = [pc EXCEPT ![t] = "awaiting"]
  /\ UNCHANGED <<locked, held, depth, loop>>

\* run_coroutine_threadsafe(close_owned_trade(), owner_loop): the coroutine
\* starts in a copy of the caller's context.  Netting is part of opening, the
\* outermost entry.  A trade of the caller's own loop is closed inline, which
\* is the caller being "guarded".
Dispatch(t, e, partial) ==
  /\ pc[t] = "guarded" /\ depth[t] = 0 /\ e # Home[t] /\ Turning(e)
  /\ job' = [job EXCEPT ![t] = [owner |-> e, stage |-> "queued",
                                held |-> held[t], partial |-> partial,
                                cancel |-> FALSE]]
  /\ pc' = [pc EXCEPT ![t] = "awaiting"]
  /\ UNCHANGED <<locked, held, depth, loop>>

\* The owner's loop is closed: AccountExecutionConflictError leaves the guard.
DispatchRejected(t, e) ==
  /\ pc[t] = "guarded" /\ depth[t] = 0 /\ e # Home[t] /\ loop[e] = "closed"
  /\ ReleaseAs(t, "idle")
  /\ UNCHANGED <<job, loop>>

JobMoves(t, from, to) ==
  /\ job[t].stage \in from /\ Turning(job[t].owner)
  /\ job' = [job EXCEPT ![t].stage = to]
  /\ UNCHANGED <<locked, held, depth, pc, loop>>

\* A coroutine cancelled before its first step never runs.
JobStart(t) == ~job[t].cancel /\ JobMoves(t, {"queued"}, "running")

\* A leg that stays open has its protection rebuilt under a nested guard: the
\* inherited context lets it through, any other would poll the caller's lock.
JobProtect(t) == job[t].partial /\ JobMoves(t, {"running"}, "protecting")
Inside(t) == job[t].stage = "protecting" => job[t].held

JobFinish(t) ==
  /\ Inside(t)
  /\ JobMoves(t, IF job[t].partial THEN {"protecting"} ELSE {"running"}, "done")

\* The close or the protection call raises.
JobFail(t) == Inside(t) /\ JobMoves(t, Started, "failed")

\* A cancellation requested by the caller reaches the coroutine.
JobCancelled(t) ==
  job[t].cancel /\ JobMoves(t, Pending, "cancelled")

\* The caller continues with the executed quantity, under its guard.
ResumeDone(t) ==
  /\ pc[t] = "awaiting" /\ job[t].stage = "done"
  /\ pc' = [pc EXCEPT ![t] = "guarded"]
  /\ job' = [job EXCEPT ![t] = NoJob]
  /\ UNCHANGED <<locked, held, depth, loop>>

\* The exception of the close propagates out of the caller's guard.
ResumeFailed(t) ==
  /\ pc[t] = "awaiting" /\ job[t].stage = "failed"
  /\ ReleaseAs(t, "idle")
  /\ job' = [job EXCEPT ![t] = NoJob]
  /\ UNCHANGED loop

\* CancelledError is no Exception: it passes every handler of the caller's
\* task and ends it.
ResumeCancelled(t) ==
  /\ pc[t] = "awaiting" /\ job[t].stage = "cancelled"
  /\ ReleaseAs(t, "dead")
  /\ job' = [job EXCEPT ![t] = NoJob]
  /\ UNCHANGED loop

-----------------------------------------------------------------------------
(* Stopping an engine.                                                     *)

\* _async_stop cancels the message task; start() then cancels the others.
Stop(e) ==
  /\ e \in Stoppable /\ Alive(e)
  /\ loop' = [loop EXCEPT ![e] = "stopping"]
  /\ UNCHANGED <<locked, held, depth, pc, job>>

\* [mutant] The guard is not left in a finally clause.
CancelTaskLeaking(t) ==
  /\ loop[Home[t]] = "stopping" /\ pc[t] # "dead"
  /\ pc' = [pc EXCEPT ![t] = "dead"]
  /\ held' = [held EXCEPT ![t] = FALSE]
  /\ job' = [job EXCEPT ![t].cancel = (pc[t] = "awaiting")]
  /\ UNCHANGED <<locked, depth, loop>>

\* [mutant] The await of a remote close is shielded from cancellation.
CancelTaskShielded(t) ==
  /\ loop[Home[t]] = "stopping" /\ pc[t] \notin {"awaiting", "dead"}
  /\ IF held[t]
       THEN ReleaseAs(t, "dead")
       ELSE pc' = [pc EXCEPT ![t] = "dead"] /\ UNCHANGED <<locked, held, depth>>
  /\ UNCHANGED <<job, loop>>

\* The cancellation reaches a task at its await.  It leaves the guard; the
\* close it awaits elsewhere is only asked to stop.
CancelTask(t) ==
  /\ loop[Home[t]] = "stopping" /\ pc[t] # "dead"
  /\ IF held[t]
       THEN ReleaseAs(t, "dead")
       ELSE pc' = [pc EXCEPT ![t] = "dead"] /\ UNCHANGED <<locked, held, depth>>
  /\ job' = [job EXCEPT ![t].cancel = (pc[t] = "awaiting")]
  /\ UNCHANGED loop

\* asyncio.run cancels the coroutines its loop has started for others.
Shutdown(e) ==
  /\ loop[e] = "stopping" /\ \A t \in Task : Home[t] = e => pc[t] = "dead"
  /\ loop' = [loop EXCEPT ![e] = "closing"]
  /\ job' = [t \in Task |->
               IF job[t].owner = e /\ job[t].stage \in Started
                 THEN [job[t] EXCEPT !.stage = "cancelled"] ELSE job[t]]
  /\ UNCHANGED <<locked, held, depth, pc>>

\* What reached the loop after that is never run to its end.
Close(e) ==
  /\ loop[e] = "closing"
  /\ loop' = [loop EXCEPT ![e] = "closed"]
  /\ job' = [t \in Task |->
               IF job[t].owner = e /\ job[t].stage \in Pending
                 THEN [job[t] EXCEPT !.stage = "lost"] ELSE job[t]]
  /\ UNCHANGED <<locked, held, depth, pc>>

-----------------------------------------------------------------------------
GuardStep(t) ==
  \/ Enter(t) \/ Retry(t) \/ Acquire(t) \/ LeaveNested(t) \/ Leave(t)
  \/ BareStart(t) \/ BareEnd(t)

NetStep(t) ==
  \/ \E e \in Engine : \/ \E partial \in BOOLEAN : Dispatch(t, e, partial)
                       \/ DispatchRejected(t, e)
  \/ ResumeDone(t) \/ ResumeFailed(t) \/ ResumeCancelled(t)

JobStep(t) ==
  JobStart(t) \/ JobProtect(t) \/ JobFinish(t) \/ JobFail(t) \/ JobCancelled(t)

StopStep(e) == Stop(e) \/ Shutdown(e) \/ Close(e)

Next ==
  \/ \E t \in Task : GuardStep(t) \/ NetStep(t) \/ JobStep(t) \/ CancelTask(t)
  \/ \E e \in Engine : StopStep(e)

Spec == Init /\ [][Next]_vars

\* Event loops keep turning; an operation makes finitely many nested entries
\* and dispatches (a leg list is finite), so it reaches its exit again and
\* again until it takes it.  Nothing makes the polling fair to one task.
Fairness ==
  /\ \A t \in Task :
       /\ WF_vars(Acquire(t)) /\ WF_vars(LeaveNested(t))
       /\ SF_vars(depth[t] = 1 /\ LeaveNested(t)) /\ SF_vars(Leave(t))
       /\ WF_vars(ResumeDone(t) \/ ResumeFailed(t) \/ ResumeCancelled(t))
       /\ WF_vars(JobStep(t)) /\ WF_vars(CancelTask(t)) /\ WF_vars(BareEnd(t))
  /\ \A e \in Engine : WF_vars(Shutdown(e)) /\ WF_vars(Close(e))

FairSpec == Spec /\ Fairness

-----------------------------------------------------------------------------
(* Properties.                                                             *)

\* On whose behalf an exchange mutation is under way.
Active(t) == pc[t] \in {"guarded", "bare"} \/ job[t].stage \in Started
Writing == {t \in Task : Active(t)}

\* The account has a single writer: all exchange mutations, those handed to
\* the loop of another engine included, are made on behalf of one task.
OneWriter == \A s, t \in Task : Active(s) /\ Active(t) => s = t

\* The lock is held exactly by the one task whose context says so, and a task
\* that is neither in the guard nor awaiting a netting close never holds it:
\* no exit path of execution_guard leaks the lock or releases another's.
LockDiscipline ==
  /\ \A s, t \in Task : held[s] /\ held[t] => s = t
  /\ locked <=> \E t \in Task : held[t]
  /\ \A t \in Task : held[t] <=> pc[t] \in {"guarded", "awaiting"}

\* Whoever holds the guard eventually gives it back: the re-entrant entries
\* of the task and of the close it handed over never wait for the task itself.
GuardReleased == \A t \in Task : held[t] ~> ~held[t]

\* A stop always completes: every task of the engine takes its cancellation,
\* even one that awaits a close it handed to another engine.
StopCompletes ==
  \A e \in Engine : loop[e] = "stopping" ~> loop[e] = "closed"

\* The task whose context holds the guard, given the contexts h.
HolderOf(h) == IF \E t \in Task : h[t] THEN CHOOSE t \in Task : h[t] ELSE Nobody
Holder == HolderOf(held)

\* The guard implements the single writer.
Writer == INSTANCE SingleWriter
            WITH Requester <- Task, grant <- Holder, writing <- Writing
ImplementsSingleWriter == Writer!Spec
=============================================================================
