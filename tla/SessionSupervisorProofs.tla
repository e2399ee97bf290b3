----------------------- MODULE SessionSupervisorProofs -----------------------
(***************************************************************************)
(* What SessionSupervisor guarantees for any set of sessions, any number   *)
(* of engine failures and restarts of the process, and either setting of   *)
(* the automatic recovery.  Nothing is assumed but the constants' types.   *)
(*                                                                         *)
(* The three safety properties hold together: whether a session with open  *)
(* trades still has a worker depends on what a forced stop left in its     *)
(* record, and whether a stored status can be trusted depends on whether   *)
(* the record in memory and the stored one are the same.                   *)
(***************************************************************************)
EXTENDS SessionSupervisor, TLAPS

\* The issues that the supervision raises itself.
Supervision == {"recovery", "restart", "force", "unresolved"}

\* While a worker drives its engine, up to its end.
Driven(s) == thread[s].pc \in {"begin", "enter", "boot", "run", "drain", "exited"}

\* A record with an issue of the supervision blocks new entries.
Blocking(record) == record.issues \cap Supervision # {} => record.blocked
RecordsBlock(s) ==
  Blocking(store[s]) /\ Blocking(memory[s]) /\ Blocking(thread[s].next)

\* A session that was never started has nothing; a worker has a session.
NothingBeforeStart(s) ==
  /\ store[s].status = "none" =>
       thread[s] = NoThread /\ s \notin open /\ s \notin forced /\ arrived[s] = {}
  /\ HasWorker(s) => memory[s].status # "none"
  /\ thread[s].pc = "wait" => thread[s].next.status # "none"

\* A process that is down has no worker and no memory of requests.
DownIsEmpty(s) ==
  ~up => thread[s] = NoThread /\ s \notin forced /\ arrived[s] = {}
         /\ engine[s] = NewEngine

\* The engine's session object is what is stored: always once the engine runs,
\* and before that unless a forced stop came while a recovery was waiting; the
\* same goes for the object the next engine gets.
StoreFollowsMemory(s) ==
  /\ thread[s].pc \in {"run", "drain"} => store[s] = memory[s]
  /\ "wait" \notin arrived[s] =>
       /\ Driven(s) => store[s] = memory[s]
       /\ thread[s].pc = "wait" => store[s] = thread[s].next

\* A forced stop leaves its issue, and its worker does not get to a recovery,
\* unless it was in one already.
ForceIsMarked(s) ==
  /\ s \in forced => HasWorker(s)
  /\ s \in forced /\ "wait" \notin arrived[s] =>
       /\ Driven(s)
       /\ "force" \in memory[s].issues /\ "force" \in store[s].issues
  /\ "force" \in arrived[s] =>
       ~HasWorker(s) \/ (s \in forced /\ Driven(s))

\* A stop that nobody saw arrive during a startup leaves no active status.
StatusIsHonest(s) ==
  /\ thread[s].pc = "run" => memory[s].status \in {"running", "stopped"}
  /\ thread[s].pc = "drain" => memory[s].status \in {"running", "stopped", "error"}
  /\ Starting(s) /\ engine[s].stop => "startup" \in arrived[s]
  /\ Starting(s) /\ s \in forced => arrived[s] \cap {"startup", "wait"} # {}
  /\ arrived[s] \cap {"startup", "wait"} = {} =>
       /\ s \in forced => memory[s].status \notin Active
       /\ thread[s].pc = "exited" /\ ~thread[s].failed =>
            memory[s].status \notin Active
       /\ thread[s].pc = "decided" /\ ~thread[s].failed =>
            store[s].status \notin Active

\* One session's part of the two invariants that the runs check.
Watched(s) ==
  s \in open /\ up => \/ HasWorker(s)
                      \/ store[s].issues \cap {"force", "unresolved"} # {}
                      \/ "wait" \in arrived[s]
StatusHasWorker(s) ==
  up /\ store[s].status \in Active =>
    HasWorker(s) \/ arrived[s] \cap {"startup", "wait"} # {}

SessionInv(s) ==
  /\ RecordsBlock(s) /\ NothingBeforeStart(s) /\ DownIsEmpty(s)
  /\ StoreFollowsMemory(s) /\ ForceIsMarked(s) /\ StatusIsHonest(s)
  /\ Watched(s) /\ StatusHasWorker(s)

\* The inductive invariant.
SupervisorInv == \A s \in Session : SessionInv(s)

-----------------------------------------------------------------------------
(* Types.                                                                  *)

\* The initial values and the operators on records stay within their types.
LEMMA InitialTypes ==
  /\ NoRecord \in Record /\ NoThread \in Thread /\ NewThread \in Thread
  /\ NewEngine \in Engine /\ NoRequest \in Request
BY DEF NoRecord, Record, NoThread, Thread, NewThread, NewEngine, Engine, NoRequest,
       Request, Statuses, Active

LEMMA RecordTypes ==
  ASSUME NEW r \in Record
  PROVE  /\ \A x \in Statuses : Marked(r, x) \in Record
         /\ \A i \in Issues : WithIssue(r, i) \in Record /\ WithoutIssue(r, i) \in Record
         /\ [r EXCEPT !.issues = @ \cup {"trade"}] \in Record
BY DEF Record, Marked, WithIssue, WithoutIssue, Issues

\* A saved record is in memory and in the store.
LEMMA SaveTypes ==
  ASSUME TypeOK, NEW s \in Session, NEW r \in Record, Save(s, r)
  PROVE  store' \in [Session -> Record] /\ memory' \in [Session -> Record]
BY DEF TypeOK, Save

\* A worker that goes on, or ends.
LEMMA WorkerTypes ==
  ASSUME TypeOK, NEW s \in Session,
         \/ \E pc \in {"enter", "boot", "run", "drain", "exited", "decided"} : Goto(s, pc)
         \/ EndThread(s)
  PROVE  thread' \in [Session -> Thread]
<1>1. thread[s] \in Thread /\ NoThread \in Thread
  BY InitialTypes DEF TypeOK
<1>2. ASSUME NEW pc \in {"enter", "boot", "run", "drain", "exited", "decided"},
             Goto(s, pc)
      PROVE  thread' \in [Session -> Thread]
  <2>1. [thread[s] EXCEPT !.pc = pc, !.entering = FALSE] \in Thread
    BY <1>1 DEF Thread
  <2>2. QED BY <1>2, <2>1 DEF Goto, TypeOK
<1>3. QED BY <1>1, <1>2 DEF EndThread, TypeOK

\* Every variable keeps its type; failures and restarts stay within their bounds.
THEOREM TypeCorrect == Spec => []TypeOK
<1>1. Init => TypeOK
  BY InitialTypes, BoundAssumption DEF Init, TypeOK
<1>2. TypeOK /\ [Next]_vars => TypeOK'
  <2> SUFFICES ASSUME TypeOK, [Next]_vars PROVE TypeOK'
    OBVIOUS
  <2> USE DEF bounds, history
  <2>0. /\ {"none", "starting", "running", "stopped", "error"} \subseteq Statuses
        /\ {"recovery", "force", "unresolved", "restart", "trade"} \subseteq Issues
    BY DEF Statuses, Active, Issues
  <2>1. CASE Crash
    <3>1. restarts' \in 0..MaxRestarts
      BY <2>1, BoundAssumption DEF Crash, TypeOK
    <3>2. QED BY <2>1, <3>1, InitialTypes DEF Crash, TypeOK
  <2>2. ASSUME NEW auto \in AutoResume, Restart(auto) PROVE TypeOK'
    <3>1. \A s \in Session : Recovered(s, auto) \in Record /\ Flagged(s) \in Record
      BY <2>0, RecordTypes DEF Recovered, Flagged, TypeOK
    <3>2. store' \in [Session -> Record] /\ memory' \in [Session -> Record]
      BY <2>2, <3>1 DEF Restart, TypeOK
    <3>3. thread' \in [Session -> Thread]
      BY <2>2, InitialTypes DEF Restart
    <3>4. QED BY <2>2, <3>2, <3>3 DEF Restart, TypeOK
  <2>3. ASSUME NEW s \in Session, StartSession(s) PROVE TypeOK'
    <3>1. Marked(NoRecord, "starting") \in Record
      BY <2>0, InitialTypes, RecordTypes
    <3>2. QED BY <2>3, <3>1, SaveTypes, InitialTypes DEF StartSession, TypeOK
  <2>4. ASSUME NEW s \in Session, WorkerStep(s) PROVE TypeOK'
    <3>0. /\ \A x \in Statuses : /\ Marked(memory[s], x) \in Record
                                 /\ Marked(store[s], x) \in Record
          /\ thread[s] \in Thread /\ engine[s] \in Engine
      BY RecordTypes DEF TypeOK
    <3>1. CASE EnterStart(s)
      BY <3>1, <3>0, <2>0, SaveTypes, WorkerTypes DEF EnterStart, TypeOK
    <3>2. CASE LearnLoop(s)
      BY <3>2, <3>0, WorkerTypes DEF LearnLoop, TypeOK, Engine
    <3>3. CASE Boot(s)
      BY <3>3, <3>0, <2>0, SaveTypes, WorkerTypes DEF Boot, TypeOK
    <3>4. CASE Drain(s)
      BY <3>4, <3>0, <2>0, SaveTypes, WorkerTypes DEF Drain, TypeOK
    <3>5. CASE Judge(s)
      <4>1. engine' \in [Session -> Engine]
        BY <3>5, <3>0 DEF Judge, TypeOK, Engine
      <4>2. thread' \in [Session -> Thread]
        BY <3>5, WorkerTypes DEF Judge
      <4>3. QED BY <3>5, <4>1, <4>2 DEF Judge, EndThread, TypeOK
    <3>6. CASE GiveUp(s)
      <4>1. thread' \in [Session -> Thread]
        BY <3>6, WorkerTypes DEF GiveUp
      <4>2. QED BY <3>6, <4>1, <3>0, <2>0 DEF GiveUp, EndThread, TypeOK
    <3>7. CASE Recover(s)
      <4>1. WithIssue(Marked(store[s], "starting"), "recovery") \in Record
        BY <3>0, <2>0, RecordTypes
      <4>2. QED BY <3>7, <4>1, <3>0 DEF Recover, TypeOK, Thread
    <3>8. CASE Resume(s)
      <4>1. thread[s].next \in Record
        BY <3>0 DEF Thread
      <4>2. QED BY <3>8, <4>1, InitialTypes DEF Resume, TypeOK
    <3>9. QED
      BY <2>4, <3>1, <3>2, <3>3, <3>4, <3>5, <3>6, <3>7, <3>8 DEF WorkerStep
  <2>5. ASSUME NEW s \in Session, AsyncStop(s) \/ ShutdownRunsAsyncStop(s)
        PROVE TypeOK'
    <3>1. Marked(memory[s], "stopped") \in Record
      BY <2>0, RecordTypes DEF TypeOK
    <3>2. store' \in [Session -> Record] /\ memory' \in [Session -> Record]
      BY <2>5, <3>1, SaveTypes DEF AsyncStop, ShutdownRunsAsyncStop
    <3>3. thread' \in [Session -> Thread]
      BY <2>5, WorkerTypes DEF AsyncStop, ShutdownRunsAsyncStop, TypeOK
    <3>4. engine' \in [Session -> Engine]
      BY <2>5 DEF AsyncStop, ShutdownRunsAsyncStop, TypeOK, Engine
    <3>5. QED
      BY <2>5, <3>2, <3>3, <3>4 DEF AsyncStop, ShutdownRunsAsyncStop, TypeOK
  <2>6. ASSUME NEW s \in Session, Raise(s) \/ PollerFails(s) PROVE TypeOK'
    <3>1. Marked(memory[s], "error") \in Record
      BY <2>0, RecordTypes DEF TypeOK
    <3>2. exits' \in [Session -> 0..MaxExits]
      BY <2>6, BoundAssumption DEF Raise, PollerFails, TypeOK
    <3>3. CASE Raise(s)
      <4>1. [thread[s] EXCEPT !.pc = "exited", !.entering = FALSE, !.failed = TRUE]
              \in Thread
        BY DEF TypeOK, Thread
      <4>2. QED BY <3>3, <3>2, <4>1 DEF Raise, TypeOK
    <3>4. CASE PollerFails(s)
      BY <3>4, <3>1, <3>2, SaveTypes, WorkerTypes DEF PollerFails, TypeOK
    <3>5. QED BY <2>6, <3>3, <3>4
  <2>7. ASSUME NEW s \in Session, BeginEntry(s) \/ FinishEntry(s) \/ CloseTrade(s)
        PROVE TypeOK'
    <3>1. \A b \in BOOLEAN : [thread[s] EXCEPT !.entering = b] \in Thread
      BY DEF TypeOK, Thread
    <3>2. QED BY <2>7, <3>1 DEF BeginEntry, FinishEntry, CloseTrade, TypeOK
  <2>8. ASSUME NEW s \in Session, RaiseIssue(s) \/ ClearIssue(s) PROVE TypeOK'
    <3>1. /\ WithIssue(memory[s], "trade") \in Record
          /\ WithoutIssue(memory[s], "trade") \in Record
          /\ [memory[s] EXCEPT !.issues = @ \cup {"trade"}] \in Record
      BY <2>0, RecordTypes DEF TypeOK
    <3>2. store' \in [Session -> Record] /\ memory' \in [Session -> Record]
      BY <2>8, <3>1, SaveTypes DEF RaiseIssue, ClearIssue
    <3>3. QED BY <2>8, <3>2 DEF RaiseIssue, ClearIssue, TypeOK
  <2>9. ASSUME NEW s \in Session,
               StopChecks(s) \/ ForceMarks(s) \/ EngineStop(s) \/ StoreStop(s)
        PROVE TypeOK'
    <3>1. /\ WithIssue(Marked(memory[s], "stopped"), "force") \in Record
          /\ Marked(store[s], "error") \in Record
      BY <2>0, RecordTypes DEF TypeOK
    <3>2. CASE StopChecks(s)
      BY <3>2 DEF StopChecks, TypeOK, Request
    <3>3. CASE ForceMarks(s)
      BY <3>3, <3>1, SaveTypes DEF ForceMarks, Arrive, Arrivals, TypeOK, Request
    <3>4. CASE EngineStop(s)
      <4>1. [engine[s] EXCEPT !.stop = TRUE, !.async = @ \/ engine[s].looped] \in Engine
        BY DEF TypeOK, Engine
      <4>2. arrived' \in [Session -> SUBSET Arrivals]
        BY <3>4 DEF EngineStop, Arrive, Arrivals, TypeOK
      <4>3. engine' \in [Session -> Engine]
        BY <3>4, <4>1 DEF EngineStop, TypeOK
      <4>4. QED BY <3>4, <4>2, <4>3, InitialTypes DEF EngineStop, TypeOK
    <3>5. CASE StoreStop(s)
      BY <3>5, <3>1, InitialTypes DEF StoreStop, TypeOK
    <3>6. QED BY <2>9, <3>2, <3>3, <3>4, <3>5
  <2>10. CASE UNCHANGED vars
    BY <2>10 DEF vars, TypeOK
  <2>11. QED
    BY <2>1, <2>2, <2>3, <2>4, <2>5, <2>6, <2>7, <2>8, <2>9, <2>10 DEF Next
<1>3. QED BY <1>1, <1>2, PTL DEF Spec
-----------------------------------------------------------------------------
(* The inductive invariant.                                                *)

\* What a step leaves alone of a session.
Untouched(u) ==
  /\ store'[u] = store[u] /\ memory'[u] = memory[u] /\ thread'[u] = thread[u]
  /\ engine'[u] = engine[u] /\ arrived'[u] = arrived[u] /\ up' = up
  /\ (u \in open') = (u \in open) /\ (u \in forced') = (u \in forced)

\* A session that a step does not touch keeps its invariant.
LEMMA UntouchedKeeps ==
  ASSUME NEW u \in Session, SessionInv(u), Untouched(u)
  PROVE  SessionInv(u)'
BY DEF Untouched, SessionInv, RecordsBlock, Blocking, NothingBeforeStart, DownIsEmpty,
       StoreFollowsMemory, ForceIsMarked, StatusIsHonest, Watched, StatusHasWorker,
       HasWorker, Driven, Starting

\* So a step of one session concerns the invariant of that session only.
LEMMA OneSession ==
  ASSUME SupervisorInv, NEW s \in Session, SessionInv(s)',
         \A u \in Session \ {s} : Untouched(u)
  PROVE  SupervisorInv'
BY UntouchedKeeps DEF SupervisorInv

\* What the operators on records do to the fields.
LEMMA MarkedFields ==
  ASSUME NEW r \in Record, NEW x
  PROVE  /\ Marked(r, x).status = x
         /\ Marked(r, x).issues = r.issues /\ Marked(r, x).blocked = r.blocked
BY DEF Record, Marked

LEMMA WithIssueFields ==
  ASSUME NEW r \in Record, NEW i
  PROVE  /\ WithIssue(r, i).status = r.status
         /\ WithIssue(r, i).issues = r.issues \cup {i}
         /\ WithIssue(r, i).blocked
BY DEF Record, WithIssue

LEMMA WithoutIssueFields ==
  ASSUME NEW r \in Record, NEW i
  PROVE  /\ WithoutIssue(r, i).status = r.status
         /\ WithoutIssue(r, i).issues = r.issues \ {i}
         /\ WithoutIssue(r, i).blocked = (r.blocked /\ r.issues \ {i} # {})
BY DEF Record, WithoutIssue

\* A saved record replaces the session's, in memory and in the store.
LEMMA SavedFields ==
  ASSUME TypeOK, NEW s \in Session, NEW r, Save(s, r)
  PROVE  /\ store'[s] = r /\ memory'[s] = r
         /\ \A u \in Session \ {s} : store'[u] = store[u] /\ memory'[u] = memory[u]
BY DEF TypeOK, Save

\* The session is saved with another status.
LEMMA MarkedSave ==
  ASSUME TypeOK, NEW s \in Session, NEW x, Save(s, Marked(memory[s], x))
  PROVE  /\ store'[s] = memory'[s] /\ memory'[s].status = x
         /\ memory'[s].issues = memory[s].issues
         /\ memory'[s].blocked = memory[s].blocked
<1>1. memory[s] \in Record
  BY DEF TypeOK
<1>2. QED BY <1>1, SavedFields, MarkedFields

\* A worker that goes on keeps all but its place.
LEMMA WorkerFields ==
  ASSUME TypeOK, NEW s \in Session, NEW pc, Goto(s, pc)
  PROVE  /\ thread'[s].pc = pc /\ ~thread'[s].entering
         /\ thread'[s].failed = thread[s].failed /\ thread'[s].next = thread[s].next
         /\ \A u \in Session \ {s} : thread'[u] = thread[u]
BY DEF TypeOK, Goto, Thread

LEMMA WorkerKeeps ==
  ASSUME TypeOK, SupervisorInv, NEW s \in Session, WorkerStep(s)
  PROVE  SupervisorInv'
<1> USE DEF SessionInv, RecordsBlock, Blocking, NothingBeforeStart, DownIsEmpty,
       StoreFollowsMemory, ForceIsMarked, StatusIsHonest, Watched, StatusHasWorker,
       HasWorker, Driven, Starting
<1>inv. SessionInv(s)
  BY DEF SupervisorInv
<1>rec. store[s] \in Record /\ memory[s] \in Record
  BY DEF TypeOK
<1>1. CASE EnterStart(s)
  <2>1. thread[s].pc = "begin" /\ UNCHANGED <<open, engine, forced, up, arrived>>
    BY <1>1 DEF EnterStart, history
  <2>2. CASE engine[s].stop
    <3>1. Save(s, Marked(memory[s], "stopped")) /\ Goto(s, "exited")
      BY <1>1, <2>2 DEF EnterStart
    <3>2. \A u \in Session \ {s} : Untouched(u)
      BY <2>1, <3>1, SavedFields, WorkerFields DEF Untouched
    <3>3. /\ store'[s] = memory'[s] /\ memory'[s].status = "stopped"
          /\ memory'[s].issues = memory[s].issues
          /\ memory'[s].blocked = memory[s].blocked
      BY <3>1, MarkedSave
    <3>4. SessionInv(s)'
      BY <1>inv, <2>1, <3>1, <3>3, WorkerFields DEF Active, NoThread
    <3>5. QED BY <3>2, <3>4, OneSession
  <2>3. CASE ~engine[s].stop
    <3>1. Goto(s, "enter") /\ UNCHANGED <<store, memory>>
      BY <1>1, <2>3 DEF EnterStart
    <3>2. \A u \in Session \ {s} : Untouched(u)
      BY <2>1, <3>1, WorkerFields DEF Untouched
    <3>3. SessionInv(s)'
      BY <1>inv, <2>1, <3>1, WorkerFields DEF NoThread
    <3>4. QED BY <3>2, <3>3, OneSession
  <2>4. QED BY <2>2, <2>3
<1>2. CASE LearnLoop(s)
  <2>1. /\ thread[s].pc = "enter" /\ Goto(s, "boot")
        /\ engine'[s].stop = engine[s].stop
        /\ \A u \in Session \ {s} : engine'[u] = engine[u]
        /\ UNCHANGED <<store, memory, open, forced, up, arrived>>
    BY <1>2 DEF LearnLoop, history, TypeOK, Engine
  <2>2. \A u \in Session \ {s} : Untouched(u)
    BY <2>1, WorkerFields DEF Untouched
  <2>3. SessionInv(s)'
    BY <1>inv, <2>1, WorkerFields DEF NoThread
  <2>4. QED BY <2>2, <2>3, OneSession
<1>3. CASE Boot(s)
  <2>1. thread[s].pc = "boot" /\ UNCHANGED <<open, engine, forced, up, arrived>>
    BY <1>3 DEF Boot, history
  <2>2. CASE engine[s].stop
    <3>1. Goto(s, "exited") /\ UNCHANGED <<store, memory>>
      BY <1>3, <2>2 DEF Boot
    <3>2. \A u \in Session \ {s} : Untouched(u)
      BY <2>1, <3>1, WorkerFields DEF Untouched
    <3>3. SessionInv(s)'
      BY <1>inv, <2>1, <2>2, <3>1, WorkerFields DEF NoThread
    <3>4. QED BY <3>2, <3>3, OneSession
  <2>3. CASE ~engine[s].stop
    <3>1. Save(s, Marked(memory[s], "running")) /\ Goto(s, "run")
      BY <1>3, <2>3 DEF Boot
    <3>2. \A u \in Session \ {s} : Untouched(u)
      BY <2>1, <3>1, SavedFields, WorkerFields DEF Untouched
    <3>3. /\ store'[s] = memory'[s] /\ memory'[s].status = "running"
          /\ memory'[s].issues = memory[s].issues
          /\ memory'[s].blocked = memory[s].blocked
      BY <3>1, MarkedSave
    <3>4. SessionInv(s)'
      BY <1>inv, <2>1, <3>1, <3>3, WorkerFields DEF Active, NoThread
    <3>5. QED BY <3>2, <3>4, OneSession
  <2>4. QED BY <2>2, <2>3
<1>4. CASE Drain(s)
  <2>1. /\ thread[s].pc = "drain" /\ Goto(s, "exited")
        /\ UNCHANGED <<open, engine, forced, up, arrived>>
    BY <1>4 DEF Drain, history
  <2>2. CASE memory[s].status = "running"
    <3>1. Save(s, Marked(memory[s], "stopped"))
      BY <1>4, <2>2 DEF Drain
    <3>2. \A u \in Session \ {s} : Untouched(u)
      BY <2>1, <3>1, SavedFields, WorkerFields DEF Untouched
    <3>3. /\ store'[s] = memory'[s] /\ memory'[s].status = "stopped"
          /\ memory'[s].issues = memory[s].issues
          /\ memory'[s].blocked = memory[s].blocked
      BY <3>1, MarkedSave
    <3>4. SessionInv(s)'
      BY <1>inv, <2>1, <3>1, <3>3, WorkerFields DEF Active, NoThread
    <3>5. QED BY <3>2, <3>4, OneSession
  <2>3. CASE memory[s].status # "running"
    <3>1. UNCHANGED <<store, memory>>
      BY <1>4, <2>3 DEF Drain
    <3>2. \A u \in Session \ {s} : Untouched(u)
      BY <2>1, <3>1, WorkerFields DEF Untouched
    <3>3. SessionInv(s)'
      BY <1>inv, <2>1, <2>3, <3>1, WorkerFields DEF NoThread, Active
    <3>4. QED BY <3>2, <3>3, OneSession
  <2>4. QED BY <2>2, <2>3
<1>5. CASE Judge(s)
  <2>1. /\ thread[s].pc = "exited"
        /\ engine'[s].stop = engine[s].stop
        /\ \A u \in Session \ {s} : engine'[u] = engine[u]
        /\ UNCHANGED <<store, memory, open, up, arrived>>
    BY <1>5 DEF Judge, history, TypeOK, Engine
  <2>2. up
    BY <1>inv, <2>1 DEF NoThread
  <2>3. CASE s \in forced
    <3>1. /\ thread'[s] = NoThread /\ s \notin forced'
          /\ \A u \in Session \ {s} :
               thread'[u] = thread[u] /\ (u \in forced') = (u \in forced)
      BY <1>5, <2>3 DEF Judge, EndThread, TypeOK
    <3>2. \A u \in Session \ {s} : Untouched(u)
      BY <2>1, <3>1 DEF Untouched
    <3>3. SessionInv(s)'
      BY <1>inv, <2>1, <2>2, <2>3, <3>1 DEF NoThread, NoRecord
    <3>4. QED BY <3>2, <3>3, OneSession
  <2>4. CASE s \notin forced
    <3>1. Goto(s, "decided") /\ UNCHANGED forced
      BY <1>5, <2>4 DEF Judge
    <3>2. \A u \in Session \ {s} : Untouched(u)
      BY <2>1, <3>1, WorkerFields DEF Untouched
    <3>3. SessionInv(s)'
      BY <1>inv, <2>1, <2>2, <2>4, <3>1, WorkerFields DEF NoThread
    <3>4. QED BY <3>2, <3>3, OneSession
  <2>5. QED BY <2>3, <2>4
<1>6. CASE GiveUp(s)
  <2>1. /\ thread[s].pc = "decided" /\ s \notin open
        /\ thread'[s] = NoThread /\ s \notin forced'
        /\ \A u \in Session \ {s} :
             thread'[u] = thread[u] /\ (u \in forced') = (u \in forced)
             /\ store'[u] = store[u]
        /\ store'[s] = IF thread[s].failed THEN Marked(store[s], "error") ELSE store[s]
        /\ UNCHANGED <<memory, open, engine, up, arrived>>
    BY <1>6 DEF GiveUp, EndThread, history, TypeOK
  <2>2. \A u \in Session \ {s} : Untouched(u)
    BY <2>1 DEF Untouched
  <2>3. /\ store'[s].issues = store[s].issues /\ store'[s].blocked = store[s].blocked
        /\ store'[s].status = IF thread[s].failed THEN "error" ELSE store[s].status
    BY <1>rec, <2>1, MarkedFields
  <2>4. SessionInv(s)'
    BY <1>inv, <2>1, <2>3 DEF NoThread, NoRecord, Active
  <2>5. QED BY <2>2, <2>4, OneSession
<1>7. CASE Recover(s)
  <2> DEFINE session == WithIssue(Marked(store[s], "starting"), "recovery")
  <2>1. /\ thread[s].pc = "decided" /\ s \in open
        /\ store'[s] = session
        /\ thread'[s].pc = "wait" /\ thread'[s].next = session
        /\ \A u \in Session \ {s} : store'[u] = store[u] /\ thread'[u] = thread[u]
        /\ UNCHANGED <<memory, open, engine, forced, up, arrived>>
    BY <1>7 DEF Recover, history, TypeOK, Thread
  <2>2. Marked(store[s], "starting") \in Record
    BY <1>rec, RecordTypes DEF Statuses, Active
  <2>3. session.status = "starting" /\ session.blocked
    <3>1. Marked(store[s], "starting").status = "starting"
      BY <1>rec, MarkedFields
    <3>2. session.status = Marked(store[s], "starting").status /\ session.blocked
      BY <2>2, WithIssueFields
    <3>3. QED BY <3>1, <3>2
  <2>4. \A u \in Session \ {s} : Untouched(u)
    BY <2>1 DEF Untouched
  <2> HIDE DEF session
  <2>5. SessionInv(s)'
    BY <1>inv, <2>1, <2>3 DEF NoThread, Active
  <2>6. QED BY <2>4, <2>5, OneSession
<1>8. CASE Resume(s)
  <2>1. /\ thread[s].pc = "wait"
        /\ memory'[s] = thread[s].next
        /\ thread'[s] = NewThread /\ engine'[s] = NewEngine
        /\ \A u \in Session \ {s} : /\ memory'[u] = memory[u] /\ thread'[u] = thread[u]
                                    /\ engine'[u] = engine[u]
        /\ UNCHANGED <<store, open, forced, up, arrived>>
    BY <1>8 DEF Resume, history, TypeOK
  <2>2. \A u \in Session \ {s} : Untouched(u)
    BY <2>1 DEF Untouched
  <2>3. SessionInv(s)'
    BY <1>inv, <2>1 DEF NoThread, NewThread, NewEngine, NoRecord
  <2>4. QED BY <2>2, <2>3, OneSession
<1>9. QED
  BY <1>1, <1>2, <1>3, <1>4, <1>5, <1>6, <1>7, <1>8 DEF WorkerStep

\* A step of the engine.
LEMMA EngineKeeps ==
  ASSUME TypeOK, SupervisorInv, NEW s \in Session,
         \/ AsyncStop(s) \/ ShutdownRunsAsyncStop(s) \/ Raise(s) \/ PollerFails(s)
         \/ BeginEntry(s) \/ FinishEntry(s) \/ CloseTrade(s)
         \/ RaiseIssue(s) \/ ClearIssue(s)
  PROVE  SupervisorInv'
<1> USE DEF SessionInv, RecordsBlock, Blocking, NothingBeforeStart, DownIsEmpty,
       StoreFollowsMemory, ForceIsMarked, StatusIsHonest, Watched, StatusHasWorker,
       HasWorker, Driven, Starting
<1>inv. SessionInv(s)
  BY DEF SupervisorInv
<1>rec. store[s] \in Record /\ memory[s] \in Record
  BY DEF TypeOK
<1>1. CASE AsyncStop(s) \/ ShutdownRunsAsyncStop(s)
  <2>1. /\ Save(s, Marked(memory[s], "stopped"))
        /\ engine'[s].stop = engine[s].stop
        /\ \A u \in Session \ {s} : engine'[u] = engine[u]
        /\ UNCHANGED <<open, forced, up, arrived>>
    BY <1>1 DEF AsyncStop, ShutdownRunsAsyncStop, history, TypeOK, Engine
  <2>2. \/ LoopRuns(s) /\ thread[s].pc # "run" /\ UNCHANGED thread
        \/ thread[s].pc = "run" /\ Goto(s, "drain")
        \/ thread[s].pc = "exited" /\ UNCHANGED thread
    BY <1>1 DEF AsyncStop, ShutdownRunsAsyncStop
  <2>3. /\ store'[s] = memory'[s] /\ memory'[s].status = "stopped"
        /\ memory'[s].issues = memory[s].issues
        /\ memory'[s].blocked = memory[s].blocked
    BY <2>1, MarkedSave
  <2>4. \A u \in Session \ {s} : Untouched(u)
    BY <2>1, <2>2, SavedFields, WorkerFields DEF Untouched
  <2>5. SessionInv(s)'
    BY <1>inv, <2>1, <2>2, <2>3, WorkerFields DEF Active, NoThread, LoopRuns
  <2>6. QED BY <2>4, <2>5, OneSession
<1>2. CASE Raise(s)
  <2>1. /\ thread[s].pc \in {"boot", "run"}
        /\ thread'[s].pc = "exited" /\ thread'[s].failed
        /\ thread'[s].next = thread[s].next
        /\ \A u \in Session \ {s} : thread'[u] = thread[u]
        /\ UNCHANGED <<store, memory, open, engine, forced, up, arrived>>
    BY <1>2 DEF Raise, history, TypeOK, Thread
  <2>2. \A u \in Session \ {s} : Untouched(u)
    BY <2>1 DEF Untouched
  <2>3. SessionInv(s)'
    BY <1>inv, <2>1 DEF NoThread
  <2>4. QED BY <2>2, <2>3, OneSession
<1>3. CASE PollerFails(s)
  <2>1. /\ thread[s].pc = "run" /\ Goto(s, "drain")
        /\ Save(s, Marked(memory[s], "error"))
        /\ UNCHANGED <<open, engine, forced, up, arrived>>
    BY <1>3 DEF PollerFails, history
  <2>2. /\ store'[s] = memory'[s] /\ memory'[s].status = "error"
        /\ memory'[s].issues = memory[s].issues
        /\ memory'[s].blocked = memory[s].blocked
    BY <2>1, MarkedSave
  <2>3. \A u \in Session \ {s} : Untouched(u)
    BY <2>1, SavedFields, WorkerFields DEF Untouched
  <2>4. SessionInv(s)'
    BY <1>inv, <2>1, <2>2, WorkerFields DEF NoThread, Active
  <2>5. QED BY <2>3, <2>4, OneSession
<1>4. CASE BeginEntry(s) \/ FinishEntry(s) \/ CloseTrade(s)
  <2>1. /\ thread[s].pc \in {"boot", "run"} /\ thread'[s].pc = thread[s].pc
        /\ thread'[s].failed = thread[s].failed /\ thread'[s].next = thread[s].next
        /\ \A u \in Session \ {s} :
             thread'[u] = thread[u] /\ (u \in open') = (u \in open)
        /\ UNCHANGED <<store, memory, engine, forced, up, arrived>>
    BY <1>4 DEF BeginEntry, FinishEntry, CloseTrade, history, TypeOK, Thread
  <2>2. \A u \in Session \ {s} : Untouched(u)
    BY <2>1 DEF Untouched
  <2>3. SessionInv(s)'
    BY <1>inv, <2>1 DEF NoThread
  <2>4. QED BY <2>2, <2>3, OneSession
<1>5. CASE RaiseIssue(s) \/ ClearIssue(s)
  <2>1. PICK r : /\ Save(s, r)
                 /\ \/ r = WithIssue(memory[s], "trade")
                    \/ r = [memory[s] EXCEPT !.issues = @ \cup {"trade"}]
                    \/ r = WithoutIssue(memory[s], "trade")
    BY <1>5 DEF RaiseIssue, ClearIssue
  <2>2. /\ thread[s].pc \in {"boot", "run"}
        /\ UNCHANGED <<open, thread, engine, forced, up, arrived>>
    BY <1>5 DEF RaiseIssue, ClearIssue, history
  <2>3. /\ r.status = memory[s].status
        /\ r.issues \cup {"trade"} = memory[s].issues \cup {"trade"}
        /\ Blocking(r)
    <3>1. CASE r = WithIssue(memory[s], "trade")
      BY <1>rec, <3>1, WithIssueFields
    <3>2. CASE r = [memory[s] EXCEPT !.issues = @ \cup {"trade"}]
      BY <1>inv, <1>rec, <3>2 DEF Record, Supervision
    <3>3. CASE r = WithoutIssue(memory[s], "trade")
      <4>1. /\ r.status = memory[s].status /\ r.issues = memory[s].issues \ {"trade"}
            /\ r.blocked = (memory[s].blocked /\ r.issues # {})
        BY <1>rec, <3>3, WithoutIssueFields
      <4>2. QED BY <1>inv, <4>1 DEF Supervision
    <3>4. QED BY <2>1, <3>1, <3>2, <3>3
  <2>4. store'[s] = r /\ memory'[s] = r
    BY <2>1, SavedFields
  <2>5. \A u \in Session \ {s} : Untouched(u)
    BY <2>1, <2>2, SavedFields DEF Untouched
  <2>6. SessionInv(s)'
    BY <1>inv, <2>2, <2>3, <2>4 DEF NoThread
  <2>7. QED BY <2>5, <2>6, OneSession
<1>6. QED
  BY <1>1, <1>2, <1>3, <1>4, <1>5

\* A process that is down serves no stop request.
DownIsIdle == ~up => request = NoRequest

\* A step of a request.
LEMMA RequestKeeps ==
  ASSUME TypeOK, DownIsIdle, SupervisorInv, NEW s \in Session,
         \/ StartSession(s) \/ StopChecks(s) \/ ForceMarks(s) \/ EngineStop(s)
         \/ StoreStop(s)
  PROVE  SupervisorInv'
<1> USE DEF SessionInv, RecordsBlock, Blocking, NothingBeforeStart, DownIsEmpty,
       StoreFollowsMemory, ForceIsMarked, StatusIsHonest, Watched, StatusHasWorker,
       HasWorker, Driven, Starting
<1>inv. SessionInv(s)
  BY DEF SupervisorInv
<1>rec. store[s] \in Record /\ memory[s] \in Record
  BY DEF TypeOK
<1>1. CASE StartSession(s)
  <2>1. /\ up /\ store[s].status = "none"
        /\ Save(s, Marked(NoRecord, "starting"))
        /\ thread'[s] = NewThread /\ engine'[s] = NewEngine
        /\ \A u \in Session \ {s} : thread'[u] = thread[u] /\ engine'[u] = engine[u]
        /\ UNCHANGED <<open, forced, up, arrived>>
    BY <1>1 DEF StartSession, history, TypeOK
  <2>2. /\ store'[s] = memory'[s] /\ memory'[s].status = "starting"
        /\ memory'[s].issues = {}
    <3>1. /\ Marked(NoRecord, "starting").status = "starting"
          /\ Marked(NoRecord, "starting").issues = {}
      BY DEF Marked, NoRecord
    <3>2. QED BY <2>1, <3>1, SavedFields
  <2>3. \A u \in Session \ {s} : Untouched(u)
    BY <2>1, SavedFields DEF Untouched
  <2>4. SessionInv(s)'
    BY <1>inv, <2>1, <2>2 DEF NoThread, NewThread, NewEngine, NoRecord
  <2>5. QED BY <2>3, <2>4, OneSession
<1>2. CASE StopChecks(s)
  <2>1. \A u \in Session : Untouched(u)
    BY <1>2 DEF StopChecks, Untouched, history
  <2>2. QED BY <2>1, UntouchedKeeps DEF SupervisorInv
<1>3. CASE ForceMarks(s)
  <2> DEFINE session == WithIssue(Marked(memory[s], "stopped"), "force")
  <2>1. /\ up /\ HasWorker(s)
        /\ forced' = forced \cup {s}
        /\ Save(s, session)
        /\ arrived'[s] = arrived[s] \cup {IF Recovering(s) THEN "wait" ELSE "force"}
                           \cup (IF Starting(s) THEN {"startup"} ELSE {})
        /\ \A u \in Session \ {s} : arrived'[u] = arrived[u]
        /\ UNCHANGED <<open, thread, engine, up>>
    BY <1>3 DEF ForceMarks, Arrive, TypeOK
  <2>2. Marked(memory[s], "stopped") \in Record
    BY <1>rec, RecordTypes DEF Statuses
  <2>3. /\ session.status = "stopped" /\ session.blocked
        /\ "force" \in session.issues
    <3>1. Marked(memory[s], "stopped").status = "stopped"
      BY <1>rec, MarkedFields
    <3>2. QED BY <2>2, <3>1, WithIssueFields
  <2>4. store'[s] = session /\ memory'[s] = session
    BY <2>1, SavedFields
  <2>5. \A u \in Session \ {s} : Untouched(u)
    BY <2>1, SavedFields DEF Untouched
  <2>6. thread[s].pc \in {"begin", "enter", "boot", "run", "drain", "exited",
                          "decided", "wait"}
    BY <2>1 DEF TypeOK, Thread
  <2> HIDE DEF session
  <2>7. SessionInv(s)'
    BY <1>inv, <2>1, <2>3, <2>4, <2>6 DEF NoThread, Active, Recovering
  <2>8. QED BY <2>5, <2>7, OneSession
<1>4. CASE EngineStop(s)
  <2>1. /\ up
        /\ arrived'[s] = arrived[s] \cup (IF Starting(s) THEN {"startup"} ELSE {})
        /\ \A u \in Session \ {s} : arrived'[u] = arrived[u] /\ engine'[u] = engine[u]
        /\ UNCHANGED <<store, memory, open, thread, forced, up>>
    BY <1>4, SessionAssumption
       DEF EngineStop, Arrive, TypeOK, DownIsIdle, NoRequest
  <2>2. \A u \in Session \ {s} : Untouched(u)
    BY <2>1 DEF Untouched
  <2>3. SessionInv(s)'
    BY <1>inv, <2>1 DEF NoThread
  <2>4. QED BY <2>2, <2>3, OneSession
<1>5. CASE StoreStop(s)
  <2>1. /\ ~HasWorker(s) /\ store[s].status # "none"
        /\ store'[s] = IF store[s].status \in Active THEN Marked(store[s], "error")
                                                     ELSE store[s]
        /\ \A u \in Session \ {s} : store'[u] = store[u]
        /\ UNCHANGED <<memory, open, thread, engine, forced, up, arrived>>
    BY <1>5 DEF StoreStop, history, TypeOK
  <2>2. /\ store'[s].issues = store[s].issues /\ store'[s].blocked = store[s].blocked
        /\ store'[s].status \notin Active \cup {"none"}
    BY <1>rec, <2>1, MarkedFields DEF Active
  <2>3. \A u \in Session \ {s} : Untouched(u)
    BY <2>1 DEF Untouched
  <2>4. SessionInv(s)'
    BY <1>inv, <2>1, <2>2
  <2>5. QED BY <2>3, <2>4, OneSession
<1>6. QED
  BY <1>1, <1>2, <1>3, <1>4, <1>5

\* The end of the process, and its next start.
LEMMA ProcessKeeps ==
  ASSUME TypeOK, SupervisorInv, Crash \/ \E auto \in AutoResume : Restart(auto)
  PROVE  SupervisorInv'
<1> SUFFICES ASSUME NEW s \in Session PROVE SessionInv(s)'
  BY DEF SupervisorInv
<1> USE DEF SessionInv, RecordsBlock, Blocking, NothingBeforeStart, DownIsEmpty,
       StoreFollowsMemory, ForceIsMarked, StatusIsHonest, Watched, StatusHasWorker,
       HasWorker, Driven, Starting
<1>inv. SessionInv(s)
  BY DEF SupervisorInv
<1>rec. store[s] \in Record /\ memory[s] \in Record
  BY DEF TypeOK
<1>1. CASE Crash
  <2>1. /\ ~up' /\ thread'[s] = NoThread /\ engine'[s] = NewEngine
        /\ s \notin forced' /\ arrived'[s] = {}
        /\ UNCHANGED <<store, memory, open>>
    BY <1>1 DEF Crash
  <2>2. QED BY <1>inv, <2>1 DEF NoThread, NewEngine, NoRecord
<1>2. ASSUME NEW auto \in AutoResume, Restart(auto) PROVE SessionInv(s)'
  <2>1. /\ thread[s] = NoThread /\ s \notin forced /\ arrived[s] = {}
        /\ engine[s] = NewEngine
    BY <1>2, <1>inv DEF Restart
  <2>2. /\ up' /\ UNCHANGED <<open, forced, engine, arrived>>
        /\ store'[s] = IF store[s].status = "none" THEN store[s]
                       ELSE IF store[s].status \in Active THEN Recovered(s, auto)
                       ELSE Flagged(s)
        /\ memory'[s] = store'[s]
        /\ thread'[s] = IF store[s].status \in Active /\ (auto \/ s \in open)
                          THEN NewThread ELSE NoThread
    BY <1>2 DEF Restart, bounds, history
  <2>3. CASE store[s].status = "none"
    BY <1>inv, <2>1, <2>2, <2>3 DEF NoThread, NewThread, NewEngine, NoRecord, Active
  <2>4. CASE store[s].status \in Active
    <3>1. CASE auto
      BY <1>inv, <2>1, <2>2, <2>4, <3>1
         DEF Recovered, NoThread, NewThread, NewEngine, NoRecord, Active
    <3>2. CASE ~auto /\ s \in open
      <4>1. store'[s] = WithIssue(store[s], "restart") /\ thread'[s] = NewThread
        BY <2>2, <2>4, <3>2 DEF Recovered, Active
      <4>2. store'[s].status = store[s].status /\ store'[s].blocked
        BY <1>rec, <4>1, WithIssueFields
      <4>3. QED BY <1>inv, <2>1, <2>2, <2>4, <4>1, <4>2
                DEF NoThread, NewThread, NewEngine, NoRecord, Active
    <3>3. CASE ~auto /\ s \notin open
      <4>1. /\ store'[s].status = "error" /\ store'[s].issues = store[s].issues
            /\ store'[s].blocked = store[s].blocked /\ thread'[s] = NoThread
        BY <1>rec, <2>2, <2>4, <3>3, MarkedFields DEF Recovered, Active
      <4>2. QED BY <1>inv, <2>1, <2>2, <3>3, <4>1 DEF NoThread, NoRecord, Active
    <3>4. QED BY <3>1, <3>2, <3>3
  <2>5. CASE store[s].status \notin Active \cup {"none"}
    <3>1. store'[s] = Flagged(s) /\ thread'[s] = NoThread
      BY <2>2, <2>5
    <3>2. CASE s \in open
      <4>1. store'[s] = WithIssue(store[s], "unresolved")
        BY <3>1, <3>2 DEF Flagged
      <4>2. /\ store'[s].status = store[s].status /\ store'[s].blocked
            /\ store'[s].issues = store[s].issues \cup {"unresolved"}
        BY <1>rec, <4>1, WithIssueFields
      <4>3. QED BY <1>inv, <2>1, <2>2, <2>5, <3>1, <4>2 DEF NoThread, NoRecord, Active
    <3>3. CASE s \notin open
      <4>1. store'[s] = WithoutIssue(store[s], "unresolved")
        BY <3>1, <3>3 DEF Flagged
      <4>2. /\ store'[s].status = store[s].status
            /\ store'[s].issues = store[s].issues \ {"unresolved"}
            /\ store'[s].blocked = (store[s].blocked /\ store'[s].issues # {})
        BY <1>rec, <4>1, WithoutIssueFields
      <4>3. Blocking(store'[s])
        BY <1>inv, <4>2
      <4>4. QED
        BY <1>inv, <2>1, <2>2, <2>5, <3>1, <3>3, <4>2, <4>3
           DEF NoThread, NoRecord, Active
    <3>4. QED BY <3>2, <3>3
  <2>6. QED BY <2>3, <2>4, <2>5
<1>3. QED BY <1>1, <1>2

\* The stop route and the process go down together.
LEMMA IdleInvariant == Spec => []DownIsIdle
<1>1. Init => DownIsIdle
  BY DEF Init, DownIsIdle
<1>2. DownIsIdle /\ [Next]_vars => DownIsIdle'
  <2> SUFFICES ASSUME DownIsIdle, [Next]_vars PROVE DownIsIdle'
    OBVIOUS
  <2> USE DEF bounds, history
  <2>1. CASE Crash \/ \E auto \in AutoResume : Restart(auto)
    BY <2>1 DEF Crash, Restart, DownIsIdle
  <2>2. ASSUME NEW s \in Session, WorkerStep(s) PROVE DownIsIdle'
    BY <2>2 DEF DownIsIdle, WorkerStep, EnterStart, LearnLoop, Boot, Drain, Judge,
                GiveUp, Recover, Resume
  <2>3. ASSUME NEW s \in Session,
               \/ AsyncStop(s) \/ ShutdownRunsAsyncStop(s) \/ Raise(s) \/ PollerFails(s)
               \/ BeginEntry(s) \/ FinishEntry(s) \/ CloseTrade(s)
               \/ RaiseIssue(s) \/ ClearIssue(s)
        PROVE  DownIsIdle'
    BY <2>3 DEF DownIsIdle, AsyncStop, ShutdownRunsAsyncStop, Raise, PollerFails,
                BeginEntry, FinishEntry, CloseTrade, RaiseIssue, ClearIssue
  <2>4. ASSUME NEW s \in Session,
               \/ StartSession(s) \/ StopChecks(s) \/ ForceMarks(s) \/ EngineStop(s)
               \/ StoreStop(s)
        PROVE  DownIsIdle'
    BY <2>4 DEF DownIsIdle, StartSession, StopChecks, ForceMarks, EngineStop, StoreStop
  <2>5. CASE UNCHANGED vars
    BY <2>5 DEF vars, DownIsIdle
  <2>6. QED BY <2>1, <2>2, <2>3, <2>4, <2>5 DEF Next
<1>3. QED BY <1>1, <1>2, PTL DEF Spec

LEMMA SupervisorInvariant == Spec => []SupervisorInv
<1>1. Init => SupervisorInv
  BY DEF Init, SupervisorInv, SessionInv, RecordsBlock, Blocking, NothingBeforeStart,
         DownIsEmpty, StoreFollowsMemory, ForceIsMarked, StatusIsHonest, Watched,
         StatusHasWorker, HasWorker, Driven, Starting, NoRecord, NoThread, NewEngine,
         Active
<1>2. TypeOK /\ DownIsIdle /\ SupervisorInv /\ [Next]_vars => SupervisorInv'
  <2> SUFFICES ASSUME TypeOK, DownIsIdle, SupervisorInv, [Next]_vars
               PROVE  SupervisorInv'
    OBVIOUS
  <2>1. CASE Next
    BY <2>1, WorkerKeeps, EngineKeeps, RequestKeeps, ProcessKeeps DEF Next
  <2>2. CASE UNCHANGED vars
    <3>1. \A u \in Session : Untouched(u)
      BY <2>2 DEF vars, Untouched
    <3>2. QED BY <3>1, UntouchedKeeps DEF SupervisorInv
  <2>3. QED BY <2>1, <2>2
<1>3. QED BY <1>1, <1>2, TypeCorrect, IdleInvariant, PTL DEF Spec

-----------------------------------------------------------------------------
(* The properties.                                                         *)

\* A session with open trades has a worker, or its record says that it has none
\* (or a forced stop met a recovery that was waiting).
THEOREM NoSessionIsAbandoned == Spec => []ExposureIsWatched
<1>1. SupervisorInv /\ TypeOK => ExposureIsWatched
  BY DEF SupervisorInv, SessionInv, Watched, ExposureIsWatched, TypeOK
<1>2. QED BY <1>1, SupervisorInvariant, TypeCorrect, PTL

\* A status that says "starting" or "running" is true, unless a stop arrived
\* during a startup or a recovery's wait.
THEOREM ActiveIsTrue == Spec => []ActiveHasWorker
<1>1. SupervisorInv => ActiveHasWorker
  BY DEF SupervisorInv, SessionInv, StatusHasWorker, ActiveHasWorker
<1>2. QED BY <1>1, SupervisorInvariant, PTL

\* A step of a worker begins no entry, and builds an engine only after a wait.
LEMMA WorkerStepEffect ==
  ASSUME TypeOK, NEW s \in Session, NEW u \in Session, WorkerStep(u)
  PROVE  /\ thread'[s].entering => thread[s].entering
         /\ thread'[s].pc = "begin" => thread[s].pc \in {"begin", "wait"}
<1>0. thread[s] \in Thread /\ thread[u] \in Thread
  BY DEF TypeOK
<1>1. CASE \/ EnterStart(u) \/ LearnLoop(u) \/ Boot(u) \/ Drain(u)
           \/ (Judge(u) /\ u \notin forced)
  <2>1. PICK pc : Goto(u, pc) /\ pc # "begin"
    BY <1>1 DEF EnterStart, LearnLoop, Boot, Drain, Judge
  <2>2. QED BY <1>0, <2>1 DEF Goto, TypeOK, Thread
<1>2. CASE (Judge(u) /\ u \in forced) \/ GiveUp(u)
  <2>1. EndThread(u)
    BY <1>2 DEF Judge, GiveUp
  <2>2. QED BY <1>0, <2>1 DEF EndThread, TypeOK, NoThread
<1>3. CASE Recover(u)
  BY <1>0, <1>3 DEF Recover, TypeOK, Thread
<1>4. CASE Resume(u)
  BY <1>0, <1>4 DEF Resume, TypeOK, Thread, NoThread, NewThread
<1>5. QED BY <1>1, <1>2, <1>3, <1>4 DEF WorkerStep

\* An issue of the supervision in the stored session keeps entries from
\* beginning: the engine that begins one works on the stored record, and a
\* record loses its block only with its last issue.
THEOREM BlockedSessionsDoNotEnter == Spec => EntriesStayBlocked
<1> DEFINE Enters(s) == thread'[s].entering /\ ~thread[s].entering
<1>1. ASSUME TypeOK, [Next]_vars, NEW s \in Session, Enters(s)
      PROVE  thread[s].pc = "run" /\ ~memory[s].blocked
  <2> USE DEF bounds, history
  <2>1. thread[s] \in Thread
    BY <1>1 DEF TypeOK
  <2>2. CASE Crash \/ \E auto \in AutoResume : Restart(auto)
    BY <1>1, <2>2 DEF Crash, Restart, NoThread, NewThread
  <2>3. ASSUME NEW u \in Session, WorkerStep(u)
        PROVE  thread[s].pc = "run" /\ ~memory[s].blocked
    BY <1>1, <2>1, <2>3, WorkerStepEffect
  <2>4. ASSUME NEW u \in Session,
               AsyncStop(u) \/ ShutdownRunsAsyncStop(u) \/ Raise(u) \/ PollerFails(u)
        PROVE  thread[s].pc = "run" /\ ~memory[s].blocked
    BY <1>1, <2>1, <2>4
       DEF AsyncStop, ShutdownRunsAsyncStop, Raise, PollerFails, Goto, TypeOK, Thread
  <2>5. ASSUME NEW u \in Session,
               FinishEntry(u) \/ CloseTrade(u) \/ RaiseIssue(u) \/ ClearIssue(u)
        PROVE  thread[s].pc = "run" /\ ~memory[s].blocked
    BY <1>1, <2>1, <2>5
       DEF FinishEntry, CloseTrade, RaiseIssue, ClearIssue, TypeOK, Thread
  <2>6. ASSUME NEW u \in Session, BeginEntry(u)
        PROVE  thread[s].pc = "run" /\ ~memory[s].blocked
    BY <1>1, <2>1, <2>6 DEF BeginEntry, TypeOK, Thread
  <2>7. ASSUME NEW u \in Session,
               \/ StartSession(u) \/ StopChecks(u) \/ ForceMarks(u) \/ EngineStop(u)
               \/ StoreStop(u)
        PROVE  thread[s].pc = "run" /\ ~memory[s].blocked
    BY <1>1, <2>1, <2>7
       DEF StartSession, StopChecks, ForceMarks, EngineStop, StoreStop, TypeOK, Thread,
           NoThread, NewThread
  <2>8. CASE UNCHANGED vars
    BY <1>1, <2>8 DEF vars
  <2>9. QED
    BY <1>1, <2>2, <2>3, <2>4, <2>5, <2>6, <2>7, <2>8 DEF Next
<1>2. ASSUME SupervisorInv, NEW s \in Session, thread[s].pc = "run", ~memory[s].blocked
      PROVE  store[s].issues \cap {"recovery", "restart", "force", "unresolved"} = {}
  BY <1>2 DEF SupervisorInv, SessionInv, RecordsBlock, Blocking, StoreFollowsMemory,
              Supervision
<1>3. TypeOK /\ SupervisorInv /\ [Next]_vars =>
        [\A s \in Session : Enters(s) =>
           store[s].issues \cap {"recovery", "restart", "force", "unresolved"} = {}]_vars
  BY <1>1, <1>2
<1>4. QED
  BY <1>3, TypeCorrect, SupervisorInvariant, PTL DEF Spec, EntriesStayBlocked

\* After a forced stop met an engine of a session, no engine is built for that
\* session while the process runs.
THEOREM ForcedStopsHold == Spec => ForceStopHolds
<1> DEFINE Kept(s) == "force" \in arrived[s] =>
                        thread[s].pc = "begin" \/ thread'[s].pc # "begin"
<1>1. ASSUME TypeOK, SupervisorInv, [Next]_vars, NEW s \in Session,
             thread[s].pc # "begin", thread'[s].pc = "begin"
      PROVE  "force" \notin arrived[s]
  <2> USE DEF bounds, history
  <2>1. thread[s] \in Thread /\ ForceIsMarked(s) /\ NothingBeforeStart(s) /\ DownIsEmpty(s)
    BY <1>1 DEF TypeOK, SupervisorInv, SessionInv
  <2>2. CASE Crash \/ \E auto \in AutoResume : Restart(auto)
    BY <1>1, <2>1, <2>2 DEF Crash, Restart, NoThread, DownIsEmpty
  <2>3. ASSUME NEW u \in Session, WorkerStep(u) PROVE "force" \notin arrived[s]
    <3>1. thread[s].pc = "wait"
      BY <1>1, <2>3, WorkerStepEffect
    <3>2. QED BY <2>1, <3>1 DEF ForceIsMarked, HasWorker, Driven
  <2>4. ASSUME NEW u \in Session,
               \/ AsyncStop(u) \/ ShutdownRunsAsyncStop(u) \/ Raise(u) \/ PollerFails(u)
               \/ BeginEntry(u) \/ FinishEntry(u) \/ CloseTrade(u)
               \/ RaiseIssue(u) \/ ClearIssue(u)
        PROVE  "force" \notin arrived[s]
    BY <1>1, <2>1, <2>4
       DEF AsyncStop, ShutdownRunsAsyncStop, Raise, PollerFails, Goto, BeginEntry,
           FinishEntry, CloseTrade, RaiseIssue, ClearIssue, TypeOK, Thread
  <2>5. ASSUME NEW u \in Session,
               \/ StartSession(u) \/ StopChecks(u) \/ ForceMarks(u) \/ EngineStop(u)
               \/ StoreStop(u)
        PROVE  "force" \notin arrived[s]
    BY <1>1, <2>1, <2>5
       DEF StartSession, StopChecks, ForceMarks, EngineStop, StoreStop, TypeOK,
           NothingBeforeStart
  <2>6. CASE UNCHANGED vars
    BY <1>1, <2>6 DEF vars
  <2>7. QED BY <1>1, <2>2, <2>3, <2>4, <2>5, <2>6 DEF Next
<1>2. TypeOK /\ SupervisorInv /\ [Next]_vars => [\A s \in Session : Kept(s)]_vars
  BY <1>1
<1>3. QED
  BY <1>2, TypeCorrect, SupervisorInvariant, PTL DEF Spec, ForceStopHolds
=============================================================================
