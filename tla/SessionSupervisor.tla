-------------------------- MODULE SessionSupervisor --------------------------
(***************************************************************************)
(* The dashboard's live coordinator: it starts a worker thread for every   *)
(* session, which runs an engine on an event loop of its own, stops        *)
(* sessions on request, brings engines back that exit with open trades and *)
(* recovers sessions when the process starts.                              *)
(*                                                                         *)
(* The engine keeps the session in memory and saves it whole; the          *)
(* coordinator changes the same object from the web server's thread and    *)
(* the stored session from the worker's thread.                            *)
(***************************************************************************)
EXTENDS Integers, FiniteSets

CONSTANTS
  Session,
  AutoResume,   \* what LIVE_TRADING_AUTO_RESUME_SESSIONS may be at a restart
  MaxExits,     \* bound: failures of the engines of a session
  MaxRestarts,  \* bound: restarts of the process
  Nobody

ASSUME SessionAssumption == IsFiniteSet(Session) /\ Nobody \notin Session
ASSUME AutoResumeAssumption == AutoResume \subseteq BOOLEAN
ASSUME BoundAssumption == MaxExits \in Nat /\ MaxRestarts \in Nat

VARIABLES
  store,    \* store[s]: the stored session
  memory,   \* memory[s]: the session object of the engine in _engines
  open,     \* sessions with a stored open or pending trade
  thread,   \* thread[s]: the worker in _run_engine
  engine,   \* engine[s]: its engine's _stop_requested and _loop
  forced,   \* _force_stopped_session_ids
  request,  \* the stop request under way; the routes serve one at a time
  up,       \* whether the process runs
  exits,    \* exits[s]: how many engines of s failed
  restarts, \* how often the process was restarted
  arrived   \* history: what stop requests met in this process, see Arrivals

vars == <<store, memory, open, thread, engine, forced, request, up, exits,
          restarts, arrived>>
bounds == <<exits, restarts>>
history == <<arrived>>

Active == {"starting", "running"}
Statuses == Active \cup {"none", "stopped", "error"}
\* health_issues by origin: "trade" stands for those of a trade, which the
\* engine raises and clears itself; blocked is new_entries_blocked.
Issues == {"recovery", "force", "unresolved", "restart", "trade"}
Record == [status : Statuses, issues : SUBSET Issues, blocked : BOOLEAN]
NoRecord == [status |-> "none", issues |-> {}, blocked |-> FALSE]

\* "startup": a stop request met an engine that was starting; "force": a forced
\* stop met an engine; "wait": it met a worker that had decided to recover.
Arrivals == {"startup", "force", "wait"}

\* entering: an entry is under way, its session was found not blocked; next: the
\* session object the worker will build its next engine from.
Thread == [pc : {"none", "begin", "enter", "boot", "run", "drain", "exited",
                 "decided", "wait"},
           entering : BOOLEAN, failed : BOOLEAN, next : Record]
NoThread == [pc |-> "none", entering |-> FALSE, failed |-> FALSE, next |-> NoRecord]
NewThread == [NoThread EXCEPT !.pc = "begin"]

\* looped: _loop is known; async: _async_stop is scheduled on it.
Engine == [stop : BOOLEAN, looped : BOOLEAN, async : BOOLEAN]
NewEngine == [stop |-> FALSE, looped |-> FALSE, async |-> FALSE]

\* "stop": open trades were checked; "kill": the session was marked.
Request == [pc : {"idle", "stop", "kill"}, of : Session \cup {Nobody}]
NoRequest == [pc |-> "idle", of |-> Nobody]

HasWorker(s) == thread[s].pc # "none"
Starting(s) == thread[s].pc \in {"begin", "enter", "boot"}
Recovering(s) == thread[s].pc \in {"decided", "wait"}
LoopRuns(s) == thread[s].pc \in {"boot", "run", "drain"}

Init ==
  /\ store = [s \in Session |-> NoRecord]
  /\ memory = [s \in Session |-> NoRecord]
  /\ open = {}
  /\ thread = [s \in Session |-> NoThread]
  /\ engine = [s \in Session |-> NewEngine]
  /\ forced = {}
  /\ request = NoRequest
  /\ up = TRUE
  /\ exits = [s \in Session |-> 0]
  /\ restarts = 0
  /\ arrived = [s \in Session |-> {}]

\* The engine saves its session object.
Save(s, record) ==
  /\ memory' = [memory EXCEPT ![s] = record]
  /\ store' = [store EXCEPT ![s] = record]

Marked(record, status) == [record EXCEPT !.status = status]

\* An issue that blocks new entries, and one taken away: only with the last
\* issue the block goes.
WithIssue(record, issue) ==
  [record EXCEPT !.issues = @ \cup {issue}, !.blocked = TRUE]
\* [mutant] Any issue that is cleared lifts the block.
WithoutIssueLifting(record, issue) ==
  [record EXCEPT !.issues = @ \ {issue}, !.blocked = FALSE]

WithoutIssue(record, issue) ==
  [record EXCEPT !.issues = @ \ {issue},
                 !.blocked = @ /\ record.issues \ {issue} # {}]

\* The worker goes on; an entry that was under way is cancelled.
Goto(s, pc) == thread' = [thread EXCEPT ![s].pc = pc, ![s].entering = FALSE]

-----------------------------------------------------------------------------
(* The engine: start, stop and _async_stop.                                *)

\* start_session: the session is stored and its worker started.
StartSession(s) ==
  /\ up /\ request.pc = "idle" /\ store[s].status = "none"
  /\ Save(s, Marked(NoRecord, "starting"))
  /\ thread' = [thread EXCEPT ![s] = NewThread]
  /\ engine' = [engine EXCEPT ![s] = NewEngine]
  /\ UNCHANGED <<open, forced, request, up, bounds, history>>

\* start() of an engine that was stopped before it began, or else goes on.
EnterStart(s) ==
  /\ thread[s].pc = "begin"
  /\ IF engine[s].stop
     THEN Save(s, Marked(memory[s], "stopped")) /\ Goto(s, "exited")
     ELSE Goto(s, "enter") /\ UNCHANGED <<store, memory>>
  /\ UNCHANGED <<open, engine, forced, request, up, bounds, history>>

LearnLoop(s) ==
  /\ thread[s].pc = "enter"
  /\ Goto(s, "boot")
  /\ engine' = [engine EXCEPT ![s].looped = TRUE]
  /\ UNCHANGED <<store, memory, open, forced, request, up, bounds, history>>

\* After the awaits of its startup the engine runs, unless it was stopped: then
\* it returns, and its status is what _async_stop made it, if that ran.
Boot(s) ==
  /\ thread[s].pc = "boot"
  /\ IF engine[s].stop
     THEN Goto(s, "exited") /\ UNCHANGED <<store, memory>>
     ELSE Save(s, Marked(memory[s], "running")) /\ Goto(s, "run")
  /\ UNCHANGED <<open, engine, forced, request, up, bounds, history>>

\* An exception in the startup, or in a message replayed after it.
Raise(s) ==
  /\ exits[s] < MaxExits /\ thread[s].pc \in {"boot", "run"}
  /\ thread' = [thread EXCEPT ![s].pc = "exited", ![s].entering = FALSE,
                              ![s].failed = TRUE]
  /\ exits' = [exits EXCEPT ![s] = @ + 1]
  /\ UNCHANGED <<store, memory, open, engine, forced, request, up, restarts, history>>

\* The poller fails: the session is stored as failed before the tasks end.
PollerFails(s) ==
  /\ exits[s] < MaxExits /\ thread[s].pc = "run"
  /\ Save(s, Marked(memory[s], "error"))
  /\ Goto(s, "drain")
  /\ exits' = [exits EXCEPT ![s] = @ + 1]
  /\ UNCHANGED <<open, engine, forced, request, up, restarts, history>>

\* _async_stop, on the engine's loop: the poller is cancelled if there is one.
AsyncStop(s) ==
  /\ engine[s].async /\ LoopRuns(s)
  /\ engine' = [engine EXCEPT ![s].async = FALSE]
  /\ Save(s, Marked(memory[s], "stopped"))
  /\ IF thread[s].pc = "run" THEN Goto(s, "drain") ELSE UNCHANGED thread
  /\ UNCHANGED <<open, forced, request, up, bounds, history>>

\* The end of start().
Drain(s) ==
  /\ thread[s].pc = "drain"
  /\ Goto(s, "exited")
  /\ IF memory[s].status = "running"
     THEN Save(s, Marked(memory[s], "stopped"))
     ELSE UNCHANGED <<store, memory>>
  /\ UNCHANGED <<open, engine, forced, request, up, bounds, history>>

\* An _async_stop that is scheduled when start() ends may still run while the
\* loop shuts down.
ShutdownRunsAsyncStop(s) ==
  /\ engine[s].async /\ thread[s].pc = "exited"
  /\ engine' = [engine EXCEPT ![s].async = FALSE]
  /\ Save(s, Marked(memory[s], "stopped"))
  /\ UNCHANGED <<open, thread, forced, request, up, bounds, history>>

\* A running engine looks at new_entries_blocked before the awaits of an entry
\* and not again; the entry ends with a stored trade or without one.
BeginEntry(s) ==
  /\ thread[s].pc = "run" /\ ~thread[s].entering /\ ~memory[s].blocked
  /\ thread' = [thread EXCEPT ![s].entering = TRUE]
  /\ UNCHANGED <<store, memory, open, engine, forced, request, up, bounds, history>>

FinishEntry(s) ==
  /\ thread[s].pc = "run" /\ thread[s].entering
  /\ thread' = [thread EXCEPT ![s].entering = FALSE]
  /\ \/ open' = open \cup {s}
     \/ UNCHANGED open
  /\ UNCHANGED <<store, memory, engine, forced, request, up, bounds, history>>

\* The last open trade closes; the first account refresh may find it closed.
CloseTrade(s) ==
  /\ thread[s].pc \in {"boot", "run"} /\ s \in open
  /\ open' = open \ {s}
  /\ UNCHANGED <<store, memory, thread, engine, forced, request, up, bounds, history>>

\* _set_session_health_issue, critical or not, and _clear_trade_health_issue.
RaiseIssue(s) ==
  /\ thread[s].pc \in {"boot", "run"} /\ s \in open
  /\ \/ Save(s, WithIssue(memory[s], "trade"))
     \/ Save(s, [memory[s] EXCEPT !.issues = @ \cup {"trade"}])
  /\ UNCHANGED <<open, thread, engine, forced, request, up, bounds, history>>

ClearIssue(s) ==
  /\ thread[s].pc \in {"boot", "run"} /\ "trade" \in memory[s].issues
  /\ Save(s, WithoutIssue(memory[s], "trade"))
  /\ UNCHANGED <<open, thread, engine, forced, request, up, bounds, history>>

-----------------------------------------------------------------------------
(* The worker after its engine: _run_engine.                               *)

EndThread(s) ==
  /\ thread' = [thread EXCEPT ![s] = NoThread]
  /\ forced' = forced \ {s}

\* [mutant] A forced stop is forgotten.
JudgeUnforced(s) ==
  /\ thread[s].pc = "exited"
  /\ engine' = [engine EXCEPT ![s].async = FALSE, ![s].looped = FALSE]
  /\ Goto(s, "decided")
  /\ UNCHANGED <<store, memory, open, forced, request, up, bounds, history>>

\* asyncio.run has closed the loop; a forced stop ends the supervision.
Judge(s) ==
  /\ thread[s].pc = "exited"
  /\ engine' = [engine EXCEPT ![s].async = FALSE, ![s].looped = FALSE]
  /\ IF s \in forced THEN EndThread(s) ELSE Goto(s, "decided") /\ UNCHANGED forced
  /\ UNCHANGED <<store, memory, open, request, up, bounds, history>>

\* [mutant] The worker ends after a failure, open trades or not.
GiveUpAfterFailure(s) ==
  /\ thread[s].pc = "decided" /\ (s \notin open \/ thread[s].failed)
  /\ EndThread(s)
  /\ store' = [store EXCEPT ![s] = IF thread[s].failed THEN Marked(@, "error") ELSE @]
  /\ UNCHANGED <<memory, open, engine, request, up, bounds, history>>

\* [mutant] A failure is only logged.
GiveUpSilently(s) ==
  /\ thread[s].pc = "decided" /\ s \notin open
  /\ EndThread(s)
  /\ UNCHANGED <<store, memory, open, engine, request, up, bounds, history>>

\* Without open trades the worker ends; otherwise the session is stored as
\* starting again, with new entries blocked.
GiveUp(s) ==
  /\ thread[s].pc = "decided" /\ s \notin open
  /\ EndThread(s)
  /\ store' = [store EXCEPT ![s] = IF thread[s].failed THEN Marked(@, "error") ELSE @]
  /\ UNCHANGED <<memory, open, engine, request, up, bounds, history>>

\* [mutant] The session keeps the worker's word for its state.
RecoverUnlisted(s) ==
  /\ thread[s].pc = "decided" /\ s \in open
  /\ LET session == WithIssue(Marked(store[s], thread[s].pc), "recovery") IN
     /\ store' = [store EXCEPT ![s] = session]
     /\ thread' = [thread EXCEPT ![s].pc = "wait", ![s].next = session]
  /\ UNCHANGED <<memory, open, engine, forced, request, up, bounds, history>>

Recover(s) ==
  /\ thread[s].pc = "decided" /\ s \in open
  /\ LET session == WithIssue(Marked(store[s], "starting"), "recovery") IN
     /\ store' = [store EXCEPT ![s] = session]
     /\ thread' = [thread EXCEPT ![s].pc = "wait", ![s].next = session]
  /\ UNCHANGED <<memory, open, engine, forced, request, up, bounds, history>>

\* [mutant] The engine that exited is started again.
ResumeSameEngine(s) ==
  /\ thread[s].pc = "wait" /\ ~(request.pc = "kill" /\ request.of = s)
  /\ memory' = [memory EXCEPT ![s] = thread[s].next]
  /\ thread' = [thread EXCEPT ![s] = NewThread]
  /\ UNCHANGED <<store, open, engine, forced, request, up, bounds, history>>

\* After the retry delay a new engine works on the object that was stored.  The
\* delay is at least a second, so a request that found the engine before is done.
Resume(s) ==
  /\ thread[s].pc = "wait" /\ ~(request.pc = "kill" /\ request.of = s)
  /\ memory' = [memory EXCEPT ![s] = thread[s].next]
  /\ thread' = [thread EXCEPT ![s] = NewThread]
  /\ engine' = [engine EXCEPT ![s] = NewEngine]
  /\ UNCHANGED <<store, open, forced, request, up, bounds, history>>

-----------------------------------------------------------------------------
(* stop_session, on the event loop of the web server.                      *)

Arrive(s, what) == arrived' = [arrived EXCEPT ![s] = @ \cup what]

\* A stop is rejected while the session has open trades.
StopChecks(s) ==
  /\ up /\ request.pc = "idle" /\ store[s].status # "none"
  /\ s \notin open
  /\ request' = [pc |-> "stop", of |-> s]
  /\ UNCHANGED <<store, memory, open, thread, engine, forced, up, bounds, history>>

\* A forced stop with an engine marks its session and suppresses the recovery.
ForceMarks(s) ==
  /\ up /\ request.pc = "idle" /\ HasWorker(s)
  /\ forced' = forced \cup {s}
  /\ Save(s, WithIssue(Marked(memory[s], "stopped"), "force"))
  /\ request' = [pc |-> "kill", of |-> s]
  /\ Arrive(s, {IF Recovering(s) THEN "wait" ELSE "force"}
               \cup (IF Starting(s) THEN {"startup"} ELSE {}))
  /\ UNCHANGED <<open, thread, engine, up, bounds>>

\* [mutant] The flag is set and nothing is scheduled on the loop.
EngineStopFlagging(s) ==
  /\ request.of = s
  /\ request.pc = "kill" \/ HasWorker(s)
  /\ engine' = [engine EXCEPT ![s].stop = TRUE]
  /\ request' = NoRequest
  /\ Arrive(s, IF Starting(s) THEN {"startup"} ELSE {})
  /\ UNCHANGED <<store, memory, open, thread, forced, up, bounds>>

\* engine.stop(): the flag, and _async_stop when the loop is known and open.
EngineStop(s) ==
  /\ request.of = s
  /\ request.pc = "kill" \/ HasWorker(s)
  /\ engine' = [engine EXCEPT ![s].stop = TRUE,
                              ![s].async = @ \/ engine[s].looped]
  /\ request' = NoRequest
  /\ Arrive(s, IF Starting(s) THEN {"startup"} ELSE {})
  /\ UNCHANGED <<store, memory, open, thread, forced, up, bounds>>

\* A session without an engine that is stored as active has failed.
StoreStop(s) ==
  /\ ~HasWorker(s) /\ store[s].status # "none"
  /\ \/ request = [pc |-> "stop", of |-> s]
     \/ up /\ request.pc = "idle"
  /\ request' = NoRequest
  /\ store' = [store EXCEPT ![s] = IF @.status \in Active THEN Marked(@, "error") ELSE @]
  /\ UNCHANGED <<memory, open, thread, engine, forced, up, bounds, history>>

-----------------------------------------------------------------------------
(* The process.                                                            *)

Crash ==
  /\ up /\ restarts < MaxRestarts
  /\ up' = FALSE
  /\ restarts' = restarts + 1
  /\ thread' = [s \in Session |-> NoThread]
  /\ engine' = [s \in Session |-> NewEngine]
  /\ forced' = {}
  /\ request' = NoRequest
  /\ arrived' = [s \in Session |-> {}]
  /\ UNCHANGED <<store, memory, open, exits>>

\* _flag_unresolved_inactive_sessions.
Flagged(s) ==
  IF s \in open THEN WithIssue(store[s], "unresolved")
                ELSE WithoutIssue(store[s], "unresolved")

\* _recover_incomplete_sessions.
Recovered(s, auto) ==
  IF auto THEN store[s]
  ELSE IF s \in open THEN WithIssue(store[s], "restart")
  ELSE Marked(store[s], "error")

Restart(auto) ==
  /\ ~up
  /\ up' = TRUE
  /\ store' = [s \in Session |->
       IF store[s].status = "none" THEN store[s]
       ELSE IF store[s].status \in Active THEN Recovered(s, auto) ELSE Flagged(s)]
  /\ memory' = store'
  /\ thread' = [s \in Session |->
       IF store[s].status \in Active /\ (auto \/ s \in open) THEN NewThread ELSE NoThread]
  /\ UNCHANGED <<open, engine, forced, request, bounds, history>>

WorkerStep(s) ==
  \/ EnterStart(s) \/ LearnLoop(s) \/ Boot(s) \/ Drain(s)
  \/ Judge(s) \/ GiveUp(s) \/ Recover(s) \/ Resume(s)

Next ==
  \/ Crash
  \/ \E auto \in AutoResume : Restart(auto)
  \/ \E s \in Session :
       \/ StartSession(s) \/ WorkerStep(s) \/ AsyncStop(s) \/ ShutdownRunsAsyncStop(s)
       \/ Raise(s) \/ PollerFails(s)
       \/ BeginEntry(s) \/ FinishEntry(s) \/ CloseTrade(s) \/ RaiseIssue(s) \/ ClearIssue(s)
       \/ StopChecks(s) \/ ForceMarks(s) \/ EngineStop(s) \/ StoreStop(s)

Spec == Init /\ [][Next]_vars

\* The worker's thread runs, its loop runs what is scheduled on it, and a stop
\* request that was accepted goes on; trades, failures, requests and crashes may never come.
Fairness ==
  \A s \in Session :
    WF_vars(WorkerStep(s)) /\ WF_vars(AsyncStop(s)) /\ WF_vars(EngineStop(s))

FairSpec == Spec /\ Fairness

-----------------------------------------------------------------------------
(* Properties.                                                             *)

TypeOK ==
  /\ store \in [Session -> Record] /\ memory \in [Session -> Record]
  /\ open \subseteq Session /\ forced \subseteq Session
  /\ thread \in [Session -> Thread] /\ engine \in [Session -> Engine]
  /\ request \in Request
  /\ up \in BOOLEAN
  /\ exits \in [Session -> 0..MaxExits] /\ restarts \in 0..MaxRestarts
  /\ arrived \in [Session -> SUBSET Arrivals]

\* Open trades have a worker, or the stored session says that they have none:
\* the dashboard does not silently leave a session with exposure inactive.  The
\* exception is a forced stop that came while the recovery was waiting.
ExposureIsWatched ==
  \A s \in open :
    up => \/ HasWorker(s)
          \/ store[s].issues \cap {"force", "unresolved"} # {}
          \/ "wait" \in arrived[s]

\* A session that is stored as starting or running has a worker, through
\* failures, stops and restarts; a stop that meets an engine in its startup may
\* leave the status behind, and so may a forced stop in the recovery's wait.
ActiveHasWorker ==
  \A s \in Session :
    up /\ store[s].status \in Active
    => HasWorker(s) \/ arrived[s] \cap {"startup", "wait"} # {}

\* No entry begins while the stored session carries an issue of the supervision,
\* whatever other issues are cleared in the meantime.
EntriesStayBlocked ==
  [][\A s \in Session :
       thread'[s].entering /\ ~thread[s].entering
       => store[s].issues \cap {"recovery", "restart", "force", "unresolved"} = {}]_vars

\* A forced stop that met an engine ends the supervision of the session in
\* this process: no new engine is built for it.
ForceStopHolds ==
  [][\A s \in Session :
       "force" \in arrived[s] => thread[s].pc = "begin" \/ thread'[s].pc # "begin"]_vars

\* A worker whose engine exits with open trades comes back to a running engine,
\* unless the trades close, the operator forces a stop or the process ends.
SupervisionResumes ==
  \A s \in Session :
    thread[s].pc = "exited" /\ s \in open
      ~> \/ thread[s].pc = "run" \/ s \notin open \/ ~up
         \/ arrived[s] \cap {"force", "wait"} # {}

\* A stop that reached an engine ends its worker, unless a trade was opened
\* after the request was checked.
StopConverges ==
  \A s \in Session :
    HasWorker(s) /\ engine[s].stop ~> ~HasWorker(s) \/ s \in open \/ ~up
=============================================================================
