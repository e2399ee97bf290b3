---------------------------- MODULE BacktestRuns ----------------------------
(***************************************************************************)
(* The dashboard's backtest jobs.  Every run has a worker thread that      *)
(* drives the backtest pipeline; the pipeline reports progress through a   *)
(* callback and publishes one checkpoint after classification.  The record *)
(* of a run is kept twice: in memory, for runs at work, and on disk, as a  *)
(* full file and a summary file that are replaced one after the other.     *)
(*                                                                         *)
(* Nothing makes "read the record, change it, write it, keep it" atomic:   *)
(* the worker and an operator's stop request do it concurrently, a step of *)
(* the worker may raise, and the process may end between any two of them.  *)
(***************************************************************************)
EXTENDS Integers, Sequences, FiniteSets

CONSTANTS
  Run,          \* ids of runs, each used once
  Pid,          \* what the operating system may give a process
  MaxListed,    \* the newest runs that the recovery looks at
  MaxTicks,     \* bound: progress events of one phase
  MaxRestarts,  \* bound: restarts of the process
  MaxWorkers,   \* bound: workers at a time
  MaxStops,     \* bound: stop requests
  None

ASSUME RunAssumption == IsFiniteSet(Run) /\ None \notin Run
ASSUME PidAssumption == Pid # {} /\ None \notin Pid
ASSUME ListedAssumption == MaxListed \in Nat \ {0}
ASSUME BoundAssumption == /\ MaxTicks \in Nat \ {0} /\ MaxRestarts \in Nat
                          /\ MaxWorkers \in Nat \ {0} /\ MaxStops \in Nat

VARIABLES
  full,     \* full[r]: the record in <run_id>.json
  summary,  \* summary[r]: the fields in <run_id>.summary.json
  active,   \* _active_runs: the record in memory
  cancel,   \* _cancel_requested
  worker,   \* worker[r]: the thread in _execute_run, with its copy of the record
  stop,     \* the stop request under way; the route serves one at a time
  pid,      \* the dashboard process, None while it is down
  order,    \* the runs in the order of their created_at
  restarts, \* how often it was restarted
  stops,    \* how many stop requests there were
  reused,   \* history: runs whose worker_pid was in use at the last start
  passed,   \* history: runs that were not among the newest then
  asked,    \* history: runs an accepted stop request was about
  late      \* history: progress events accepted while a stop was requested

vars == <<full, summary, active, cancel, worker, stop, pid, order, restarts, stops,
          reused, passed, asked, late>>

\* The phases of the pipeline, told apart by what they may do: readiness and
\* history, classification with its checkpoint, and market data, simulation
\* and report.
History == 1
Classify == 2
Simulate == 3
Phase == {0, History, Classify, Simulate}
Stoppable == {"queued", "running", "cancelling"}
Final == {"completed", "failed", "cancelled"}

\* A record: status, worker_pid, current_phase and whether it has a
\* resume_checkpoint.  The checkpoint is in the full file only.
SummaryRecord == [status : Stoppable \cup Final, pid : Pid \cup {None},
                  phase : Phase]
Record == [status : Stoppable \cup Final, pid : Pid \cup {None},
           phase : Phase, ckpt : BOOLEAN]

\* None is neither a record nor a name of an outcome.
ASSUME NoneAssumption == None \notin Record \cup SummaryRecord \cup Final \cup {"crashed"}

SummaryOf(run) == [status |-> run.status, pid |-> run.pid, phase |-> run.phase]

\* DashboardBacktestStore.read: the fields of the summary win.
Merged(file, fields) == [status |-> fields.status, pid |-> fields.pid,
                         phase |-> fields.phase, ckpt |-> file.ckpt]
Stored(r) == Merged(full[r], summary[r])

\* get_run: a copy of the record in memory, else what the store has.
Known(r) == IF active[r] # None THEN active[r] ELSE Stored(r)

Thread == [pc : {"new", "begin", "check", "work", "emit", "get", "tick",
                 "write", "summary", "set", "clear", "load", "pop", "ended",
                 "broken", "dead"},
           run : Record \cup {None},
           phase : Phase,
           ticks : 0..MaxTicks,
           published : BOOLEAN,
           outcome : Final \cup {"crashed", None}]
NewThread == [pc |-> "new", run |-> None, phase |-> 0, ticks |-> 0,
              published |-> FALSE, outcome |-> None]
\* A thread that has nothing in hand: before it begins, or when it is gone, the
\* broken ones by an exception that nothing in _execute_run catches.
Gone(pc) == [NewThread EXCEPT !.pc = pc]
\* A thread that is back from the pipeline, or never entered it.
Out(pc, outcome) == [NewThread EXCEPT !.pc = pc, !.outcome = outcome]

Request == [pc : {"idle", "read", "flag", "write", "summary", "set"},
            run : Run \cup {None}, ckpt : BOOLEAN, copy : Record \cup {None}]
NoRequest == [pc |-> "idle", run |-> None, ckpt |-> FALSE, copy |-> None]

Alive(r) == worker[r].pc \notin {"new", "ended", "broken", "dead"}

Init ==
  /\ full = [r \in Run |-> None]
  /\ summary = [r \in Run |-> None]
  /\ active = [r \in Run |-> None]
  /\ cancel = {}
  /\ worker = [r \in Run |-> NewThread]
  /\ stop = NoRequest
  /\ pid = CHOOSE p \in Pid : TRUE
  /\ order = <<>>
  /\ reused = {}
  /\ passed = {}
  /\ restarts = 0
  /\ stops = 0
  /\ asked = {}
  /\ late = [r \in Run |-> 0]

history == <<asked, late>>
process == <<pid, order, reused, passed, restarts, stops>>

-----------------------------------------------------------------------------
(* Requests of the operator.  The routes call the coordinator from the     *)
(* event loop of the web server, so requests do not overlap each other.    *)

\* The id of the next run is a new uuid: which of the unused ones is immaterial.
NextId == CHOOSE r \in Run : worker[r].pc = "new"

\* start_run: the record is stored and remembered before the thread starts.  The
\* log entry in between may raise; the run is then in the store and nowhere else.
Launch(r) ==
  /\ pid # None /\ stop.pc = "idle" /\ worker[r].pc = "new" /\ r = NextId
  /\ Cardinality({q \in Run : Alive(q)}) < MaxWorkers
  /\ LET run == [status |-> "queued", pid |-> None, phase |-> 0, ckpt |-> FALSE] IN
     /\ full' = [full EXCEPT ![r] = run]
     /\ summary' = [summary EXCEPT ![r] = SummaryOf(run)]
     /\ \/ /\ active' = [active EXCEPT ![r] = run]
           /\ worker' = [worker EXCEPT ![r] = Gone("begin")]
        \/ /\ active' = active
           /\ worker' = [worker EXCEPT ![r] = Gone("broken")]
  /\ order' = Append(order, r)
  /\ UNCHANGED <<cancel, stop, pid, reused, passed, restarts, stops, history>>

\* start_run from the form, and rerun_run with the request of an earlier run.
Start(r) == Launch(r)

\* resume_run: a new run from the checkpoint of an earlier one, whatever its
\* status.
Resume(r, earlier) ==
  /\ full[earlier] # None /\ Stored(earlier).ckpt
  /\ Launch(r)

\* stop_run reads the store, first the full file and then the summary.
StopReadsFile(r) ==
  /\ pid # None /\ stop.pc = "idle" /\ full[r] # None /\ stops < MaxStops
  /\ stops' = stops + 1
  /\ stop' = [stop EXCEPT !.pc = "read", !.run = r, !.ckpt = full[r].ckpt]
  /\ UNCHANGED <<full, summary, active, cancel, worker, pid, order, reused, passed,
                 restarts, history>>

StopReadsSummary ==
  /\ stop.pc = "read"
  /\ LET fields == summary[stop.run] IN
     IF fields.status \in Stoppable
     THEN /\ stop' = [stop EXCEPT !.pc = "flag",
                        !.copy = [Merged([ckpt |-> stop.ckpt], fields)
                                    EXCEPT !.status = "cancelling"]]
          /\ asked' = asked \cup {stop.run}
     ELSE stop' = NoRequest /\ UNCHANGED asked
  /\ UNCHANGED <<full, summary, active, cancel, worker, process, late>>

StopSetsFlag ==
  /\ stop.pc = "flag"
  /\ cancel' = cancel \cup {stop.run}
  /\ stop' = [stop EXCEPT !.pc = "write"]
  /\ UNCHANGED <<full, summary, active, worker, process, history>>

\* store.write replaces the full file and then the summary, under its lock.
StopWritesFile ==
  /\ stop.pc = "write" /\ worker[stop.run].pc # "summary"
  /\ full' = [full EXCEPT ![stop.run] = stop.copy]
  /\ stop' = [stop EXCEPT !.pc = "summary"]
  /\ UNCHANGED <<summary, active, cancel, worker, process, history>>

StopWritesSummary ==
  /\ stop.pc = "summary"
  /\ summary' = [summary EXCEPT ![stop.run] = SummaryOf(stop.copy)]
  /\ stop' = [stop EXCEPT !.pc = "set"]
  /\ UNCHANGED <<full, active, cancel, worker, process, history>>

StopSetsActive ==
  /\ stop.pc = "set"
  /\ active' = [active EXCEPT ![stop.run] = stop.copy]
  /\ stop' = NoRequest
  /\ UNCHANGED <<full, summary, cancel, worker, process, history>>

-----------------------------------------------------------------------------
(* The worker: _execute_run and the callbacks of its runner.               *)

\* The record is read once, then the request to cancel is looked at.
Begin(r) ==
  /\ worker[r].pc = "begin"
  /\ worker' = [worker EXCEPT ![r].pc = "check", ![r].run = Known(r)]
  /\ UNCHANGED <<full, summary, active, cancel, stop, process, history>>

CheckBeforeStart(r) ==
  /\ worker[r].pc = "check"
  /\ worker' = [worker EXCEPT ![r] =
       IF r \in cancel
       THEN Out("clear", "cancelled")
       ELSE [@ EXCEPT !.pc = "write", !.run.status = "running",
                      !.run.pid = pid, !.run.phase = History]]
  /\ UNCHANGED <<full, summary, active, cancel, stop, process, history>>

\* The runner emits another event of its phase, or the first of the next one.
\* It leaves the classification only with the checkpoint published.
NextEvent(r) ==
  /\ worker[r].pc = "work"
  /\ \/ /\ worker[r].phase > 0 /\ worker[r].ticks < MaxTicks
        /\ worker' = [worker EXCEPT ![r].pc = "emit", ![r].ticks = @ + 1]
     \/ /\ worker[r].phase # Simulate
        /\ worker[r].phase = Classify => worker[r].published
        /\ worker' = [worker EXCEPT ![r].pc = "emit", ![r].ticks = 1,
                                    ![r].phase = @ + 1]
  /\ UNCHANGED <<full, summary, active, cancel, stop, process, history>>

\* [mutant] The cancellation is looked at between phases only.
EmitInPhase(r) ==
  /\ worker[r].pc = "emit"
  /\ worker' = [worker EXCEPT ![r] =
       IF r \in cancel /\ @.ticks = 1
       THEN Out("clear", "cancelled")
       ELSE [@ EXCEPT !.pc = "get"]]
  /\ UNCHANGED <<full, summary, active, cancel, stop, process, history>>

\* _handle_progress: a requested cancellation is raised out of the pipeline.
Emit(r) ==
  /\ worker[r].pc = "emit"
  /\ worker' = [worker EXCEPT ![r] =
       IF r \in cancel
       THEN Out("clear", "cancelled")
       ELSE [@ EXCEPT !.pc = "get"]]
  /\ UNCHANGED <<full, summary, active, cancel, stop, process, history>>

\* The event goes into a copy of the record; a run that was declared
\* interrupted is revived.  An event that changes neither phase nor status may
\* be written to the summary file only.
Progress(r) ==
  /\ worker[r].pc = "get"
  /\ LET run == Known(r)
         after == [run EXCEPT
                     !.status = IF @ \in {"running", "cancelling"} THEN @ ELSE "running",
                     !.pid = pid, !.phase = worker[r].phase]
     IN \/ worker' = [worker EXCEPT ![r].pc = "write", ![r].run = after]
        \/ /\ run.phase = after.phase /\ run.status = "running"
           /\ worker' = [worker EXCEPT ![r].pc = "tick", ![r].run = after]
  /\ late' = [late EXCEPT ![r] = IF r \in cancel THEN @ + 1 ELSE @]
  /\ UNCHANGED <<full, summary, active, cancel, stop, process, asked>>

\* write_summary.
WriteTick(r) ==
  /\ worker[r].pc = "tick" /\ ~(stop.pc = "summary" /\ stop.run = r)
  /\ summary' = [summary EXCEPT ![r] = SummaryOf(worker[r].run)]
  /\ worker' = [worker EXCEPT ![r].pc = "set"]
  /\ UNCHANGED <<full, active, cancel, stop, process, history>>

\* _store_backtest_checkpoint, which does not look at requested cancellations.
Checkpoint(r) ==
  /\ worker[r].pc = "work" /\ worker[r].phase = Classify /\ ~worker[r].published
  /\ worker' = [worker EXCEPT ![r].pc = "write", ![r].published = TRUE,
                              ![r].run = [Known(r) EXCEPT !.ckpt = TRUE]]
  /\ UNCHANGED <<full, summary, active, cancel, stop, process, history>>

\* store.write.
WriteFile(r) ==
  /\ worker[r].pc = "write" /\ ~(stop.pc = "summary" /\ stop.run = r)
  /\ full' = [full EXCEPT ![r] = worker[r].run]
  /\ worker' = [worker EXCEPT ![r].pc = "summary"]
  /\ UNCHANGED <<summary, active, cancel, stop, process, history>>

WriteSummary(r) ==
  /\ worker[r].pc = "summary"
  /\ summary' = [summary EXCEPT ![r] = SummaryOf(worker[r].run)]
  /\ worker' = [worker EXCEPT ![r].pc = IF worker[r].outcome = None THEN "set" ELSE "pop"]
  /\ UNCHANGED <<full, active, cancel, stop, process, history>>

SetActive(r) ==
  /\ worker[r].pc = "set"
  /\ active' = [active EXCEPT ![r] = worker[r].run]
  /\ worker' = [worker EXCEPT ![r].pc = "work", ![r].run = None]
  /\ UNCHANGED <<full, summary, cancel, stop, process, history>>

\* run_sync returns a failure report, a result, or raises.
Return(r) ==
  /\ worker[r].pc = "work" /\ worker[r].phase > 0
  /\ \/ /\ worker[r].phase = Classify => worker[r].published
        /\ worker' = [worker EXCEPT ![r] = Out("load", "failed")]
     \/ /\ worker[r].phase = Simulate
        /\ worker' = [worker EXCEPT ![r] = Out("load", "completed")]
     \/ worker' = [worker EXCEPT ![r] = Out("clear", "crashed")]
  /\ UNCHANGED <<full, summary, active, cancel, stop, process, history>>

Returned(r) == worker[r].outcome \in {"completed", "failed"}

\* _clear_cancel_request: before the record is read when the run was cancelled
\* or crashed, after it otherwise.
ClearRequest(r) ==
  /\ worker[r].pc = "clear"
  /\ cancel' = cancel \ {r}
  /\ late' = [late EXCEPT ![r] = 0]
  /\ worker' = [worker EXCEPT ![r].pc = IF Returned(r) THEN "write" ELSE "load"]
  /\ UNCHANGED <<full, summary, active, stop, process, asked>>

\* [mutant] What the runner raised becomes the status.
LoadForEndUnmapped(r) ==
  /\ worker[r].pc = "load"
  /\ worker' = [worker EXCEPT
       ![r].pc = IF Returned(r) THEN "clear" ELSE "write",
       ![r].run = [Known(r) EXCEPT !.status = worker[r].outcome, !.pid = None]]
  /\ UNCHANGED <<full, summary, active, cancel, stop, process, history>>

\* [mutant] A run that is being cancelled keeps that status.
LoadForEndCancelling(r) ==
  /\ worker[r].pc = "load"
  /\ LET verdict == IF worker[r].outcome = "crashed" THEN "failed" ELSE worker[r].outcome
     IN worker' = [worker EXCEPT
          ![r].pc = IF Returned(r) THEN "clear" ELSE "write",
          ![r].run = [Known(r) EXCEPT
                        !.status = IF @ = "cancelling" THEN @ ELSE verdict, !.pid = None]]
  /\ UNCHANGED <<full, summary, active, cancel, stop, process, history>>

LoadForEnd(r) ==
  /\ worker[r].pc = "load"
  /\ LET verdict == IF worker[r].outcome = "crashed" THEN "failed" ELSE worker[r].outcome
     IN worker' = [worker EXCEPT
          ![r].pc = IF Returned(r) THEN "clear" ELSE "write",
          ![r].run = [Known(r) EXCEPT !.status = verdict, !.pid = None]]
  /\ UNCHANGED <<full, summary, active, cancel, stop, process, history>>

Pop(r) ==
  /\ worker[r].pc = "pop"
  /\ active' = [active EXCEPT ![r] = None]
  /\ worker' = [worker EXCEPT ![r] = Gone("ended")]
  /\ UNCHANGED <<full, summary, cancel, stop, process, history>>

\* The runner, the checkpoint, the strategy or the log entry raises before the
\* try, or a store.write outside of it: the thread ends, the record stays.
OutsideTry(r) == worker[r].phase = 0 \/ worker[r].outcome # None
Breaks(r) ==
  /\ worker[r].pc \in {"check", "write", "work"} /\ OutsideTry(r)
  /\ worker' = [worker EXCEPT ![r] = Gone("broken")]
  /\ UNCHANGED <<full, summary, active, cancel, stop, process, history>>

\* A write in a callback raises out of the pipeline; store.write and
\* write_summary prepare all they replace before they replace anything.
WriteFails(r) ==
  /\ worker[r].pc \in {"write", "tick"} /\ ~OutsideTry(r)
  /\ worker' = [worker EXCEPT ![r] = Out("clear", "crashed")]
  /\ UNCHANGED <<full, summary, active, cancel, stop, process, history>>

WorkerStep(r) ==
  \/ Begin(r) \/ CheckBeforeStart(r)
  \/ NextEvent(r) \/ Emit(r) \/ Progress(r) \/ WriteTick(r)
  \/ Checkpoint(r) \/ WriteFile(r) \/ WriteSummary(r) \/ SetActive(r)
  \/ Return(r) \/ ClearRequest(r) \/ LoadForEnd(r) \/ Pop(r)

-----------------------------------------------------------------------------
(* The process.                                                            *)

\* Memory and threads are gone; the files are as the last replacement left them.
Crash ==
  /\ pid # None /\ restarts < MaxRestarts
  /\ pid' = None
  /\ active' = [r \in Run |-> None]
  /\ cancel' = {}
  /\ late' = [r \in Run |-> 0]
  /\ worker' = [r \in Run |-> IF Alive(r) \/ worker[r].pc = "broken" THEN Gone("dead")
                                                                     ELSE worker[r]]
  /\ stop' = NoRequest
  /\ reused' = {} /\ passed' = {}
  /\ UNCHANGED <<full, summary, order, restarts, stops, asked>>

\* list_run_summaries: the newest of them.
Newest == {order[i] : i \in {j \in DOMAIN order : j + MaxListed > Len(order)}}

\* [mutant] Runs whose worker had not begun are forgotten.
InterruptedRunning(r, alive) ==
  /\ r \in Newest /\ full[r] # None
  /\ summary[r].status = "running"
  /\ Stored(r).pid \notin alive

\* [mutant] The verdict of a run is not looked at.
InterruptedAny(r, alive) ==
  r \in Newest /\ full[r] # None /\ Stored(r).pid \notin alive

\* _recover_incomplete_runs: runs that are listed as queued or running and
\* whose worker_pid is no living process have failed.
Interrupted(r, alive) ==
  /\ r \in Newest /\ full[r] # None
  /\ summary[r].status \in {"queued", "running"}
  /\ Stored(r).pid \notin alive

\* [mutant] The record is rebuilt from the summary that was listed.
RecoveredFromSummary(r, alive) ==
  IF Interrupted(r, alive)
  THEN Merged([ckpt |-> FALSE], [summary[r] EXCEPT !.status = "failed", !.pid = None])
  ELSE full[r]

Recovered(r, alive) ==
  IF Interrupted(r, alive) THEN [Stored(r) EXCEPT !.status = "failed", !.pid = None]
                           ELSE full[r]

\* The process starts again, with an id that is free; any id of an earlier
\* process may by now be that of the new one or of some other program.
Restart ==
  /\ pid = None
  /\ \E alive \in SUBSET Pid : \E p \in alive :
       /\ pid' = p
       /\ reused' = {r \in Run : full[r] # None /\ summary[r].pid \in alive}
       /\ passed' = {r \in Run : full[r] # None /\ r \notin Newest}
       /\ full' = [r \in Run |-> Recovered(r, alive)]
       /\ summary' = [r \in Run |->
            IF Interrupted(r, alive) THEN SummaryOf(Recovered(r, alive)) ELSE summary[r]]
  /\ restarts' = restarts + 1
  /\ UNCHANGED <<active, cancel, worker, stop, order, stops, history>>

StopStep == \/ StopReadsSummary \/ StopSetsFlag
            \/ StopWritesFile \/ StopWritesSummary \/ StopSetsActive

Next ==
  \/ \E r \in Run : \/ Start(r) \/ StopReadsFile(r)
                    \/ WorkerStep(r) \/ Breaks(r) \/ WriteFails(r)
  \/ \E r, earlier \in Run : Resume(r, earlier)
  \/ StopStep
  \/ Crash \/ Restart

Spec == Init /\ [][Next]_vars

\* Threads run: a worker that has a step takes one, and so does a request that
\* was accepted by the server.  Each of them writes finitely often, so a worker
\* that waits for the store's lock gets it.
Fairness ==
  /\ WF_vars(StopStep)
  /\ \A r \in Run : WF_vars(WorkerStep(r))

FairSpec == Spec /\ Fairness

-----------------------------------------------------------------------------
(* Properties.                                                             *)

HasVerdict(r) == full[r] # None /\ Stored(r).status \in Final

TypeOK ==
  /\ full \in [Run -> Record \cup {None}]
  /\ summary \in [Run -> SummaryRecord \cup {None}]
  /\ active \in [Run -> Record \cup {None}]
  /\ cancel \subseteq Run
  /\ worker \in [Run -> Thread]
  /\ stop \in Request
  /\ pid \in Pid \cup {None}
  /\ order \in Seq(Run) /\ reused \subseteq Run /\ passed \subseteq Run
  /\ restarts \in 0..MaxRestarts
  /\ stops \in 0..MaxStops
  /\ asked \subseteq Run
  /\ late \in [Run -> Nat]

\* A run the store lists as queued or running has a worker, unless the worker
\* was broken off in this very process by an exception outside its try.  With
\* the process such a run is over too: the next one marks it as failed like every
\* other whose worker is gone, unless the pid it names is in use again or more
\* than MaxListed runs are newer.
RunningIsLive ==
  \A r \in Run :
    /\ pid # None /\ full[r] # None
    /\ Stored(r).status \in {"queued", "running"}
    => \/ Alive(r) \/ worker[r].pc = "broken"
       \/ worker[r].pc = "dead" /\ r \in reused \cup passed

\* Once a stop is requested the worker accepts at most the progress event it
\* was about to handle: it stops at the next event.
StopsAtNextEvent == \A r \in Run : late[r] <= 1

\* A verdict in the store is only taken back by a stop request that read the
\* record before the run ended: no late event, no recovery and no other run
\* changes it.
VerdictStands ==
  [][\A r \in Run :
       /\ HasVerdict(r) /\ Stored(r).status # Stored(r)'.status
       => stop.pc = "summary" /\ stop.run = r]_vars

\* A checkpoint that reached the store stays there, through events that write
\* the summary only, failures, crashes and recoveries; only a stop request may
\* lose it.
CheckpointIsKept ==
  [][\A r \in Run :
       /\ full[r] # None /\ full[r].ckpt /\ r \notin asked
       => full'[r].ckpt]_vars

\* When a stop request has returned and the worker is still at work, the run
\* reaches a verdict in the store, or the process ends, or the write of the
\* verdict raises.
AtWork(r) == Alive(r) /\ worker[r].pc # "pop"
StopEndsTheRun ==
  \A r \in Run :
    (r \in cancel /\ stop.pc = "idle" /\ AtWork(r))
      ~> HasVerdict(r) \/ worker[r].pc \in {"dead", "broken"}
=============================================================================
