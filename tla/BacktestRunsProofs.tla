------------------------- MODULE BacktestRunsProofs --------------------------
(***************************************************************************)
(* What BacktestRuns guarantees for any finite set of runs, any process    *)
(* ids, and any number of events, stop requests, workers and restarts.     *)
(*                                                                         *)
(* The record of a run is in two files, in memory, in its worker's copy    *)
(* and in the copy of a stop request.  The invariant says what these five  *)
(* have to do with each other between any two steps.                       *)
(***************************************************************************)
EXTENDS BacktestRuns, TLAPS

USE RunAssumption, PidAssumption, ListedAssumption, BoundAssumption, NoneAssumption

\* The files of a run exist from its start on; a worker at work has a process
\* and a record in memory.
FilesExist(r) ==
  /\ worker[r].pc = "new" => worker[r] = NewThread /\ full[r] = None
  /\ worker[r].pc # "new" => full[r] # None /\ summary[r] # None
  /\ Alive(r) => pid # None /\ active[r] # None

\* What the worker has in hand where it needs it: its copy of the record, and
\* its outcome from the return of the runner on.
HasCopy(r) == \/ worker[r].pc \in {"check", "write", "tick", "summary", "set"}
              \/ worker[r].pc = "clear" /\ Returned(r)
WorkerHolds(r) ==
  /\ HasCopy(r) => worker[r].run # None
  /\ worker[r].pc \in {"begin", "check", "work", "emit", "get", "tick", "set"} =>
       worker[r].outcome = None
  /\ worker[r].pc \in {"load", "clear", "pop"} => worker[r].outcome # None

\* A verdict is the last thing a worker writes: until then neither the store,
\* nor the record in memory, nor the worker's copy has one.
VerdictComesLast(r) ==
  /\ active[r] # None => active[r].status \notin Final
  /\ Alive(r) /\ worker[r].pc # "pop" => summary[r].status \notin Final
  /\ HasCopy(r) =>
       (worker[r].run.status \in Final <=> worker[r].outcome # None)
  /\ worker[r].pc = "tick" => worker[r].run.status = "running"
  /\ worker[r].pc \in {"pop", "ended"} => summary[r].status \in Final \cup {"cancelling"}

\* Before a stop request, a checkpoint in the store is in memory too, or is
\* about to be, and in the copy that the worker will write.
CheckpointCarried(r) ==
  Alive(r) /\ worker[r].pc # "pop" /\ r \notin asked /\ full[r].ckpt =>
    /\ HasCopy(r) => worker[r].run.ckpt
    /\ active[r].ckpt \/ worker[r].pc \in {"summary", "set"}

\* At most one event was accepted since the stop, and none by a worker that is
\* about to accept one.
LateIsPending(r) ==
  /\ late[r] <= 1
  /\ late[r] # 0 => r \in cancel
  /\ worker[r].pc = "get" => late[r] = 0

\* A run whose worker is gone since an earlier process is not listed as queued or
\* running, unless the recovery passed it over or took its pid for alive.
DeadIsMarked(r) ==
  worker[r].pc = "dead" /\ pid # None /\ summary[r].status \in {"queued", "running"} =>
    r \in reused \cup passed

RunInv(r) ==
  /\ FilesExist(r) /\ WorkerHolds(r) /\ VerdictComesLast(r)
  /\ CheckpointCarried(r) /\ LateIsPending(r) /\ DeadIsMarked(r)

\* A stop request is about a run that has files, and from its decision on it
\* has its copy and has been noted.
StopHolds ==
  /\ stop.pc # "idle" => /\ pid # None /\ stop.run \in Run
                         /\ worker[stop.run].pc # "new"
  /\ stop.pc \in {"flag", "write", "summary", "set"} =>
       /\ stop.copy # None /\ stop.copy.status = "cancelling"
       /\ stop.run \in asked

RunsInv ==
  /\ \A r \in Run : RunInv(r)
  /\ StopHolds
  /\ pid = None => restarts < MaxRestarts

-----------------------------------------------------------------------------
(* Records.                                                                *)

\* What the store and get_run return of a run that has files is a record, with
\* the fields of the summary and the checkpoint of the full file.
LEMMA StoredRecord ==
  ASSUME TypeOK, NEW r \in Run, full[r] # None, summary[r] # None
  PROVE  /\ Stored(r) \in Record
         /\ Stored(r).status = summary[r].status /\ Stored(r).pid = summary[r].pid
         /\ Stored(r).ckpt = full[r].ckpt
BY DEF TypeOK, Stored, Merged, Record, SummaryRecord

\* What get_run returns to a worker is the record in memory.
LEMMA KnownRecord ==
  ASSUME TypeOK, NEW r \in Run, FilesExist(r), Alive(r)
  PROVE  Known(r) = active[r] /\ Known(r) \in Record
BY DEF TypeOK, FilesExist, Known

\* The summary of a record has its status and its process.
LEMMA SummaryFields ==
  ASSUME NEW x \in Record
  PROVE  /\ SummaryOf(x) \in SummaryRecord
         /\ SummaryOf(x).status = x.status /\ SummaryOf(x).pid = x.pid
BY DEF SummaryOf, SummaryRecord, Record

\* A thread that has nothing.
LEMMA NewThreadType == NewThread \in Thread
<1>1. 0 \in 0 .. MaxTicks /\ 0 \in Phase
  BY DEF Phase
<1>2. QED BY <1>1 DEF NewThread, Thread

\* A thread that has only its outcome, or nothing.
LEMMA OutType ==
  ASSUME NEW pc \in {"clear", "load"}, NEW outcome \in Final \cup {"crashed"}
  PROVE  /\ Out(pc, outcome) \in Thread /\ Out(pc, outcome).pc = pc
         /\ Out(pc, outcome).run = None /\ Out(pc, outcome).outcome = outcome
BY NewThreadType DEF Out, NewThread, Thread

LEMMA GoneType ==
  ASSUME NEW pc \in {"begin", "ended", "broken", "dead"}
  PROVE  /\ Gone(pc) \in Thread /\ Gone(pc).pc = pc
         /\ Gone(pc).run = None /\ Gone(pc).outcome = None
BY NewThreadType DEF Gone, NewThread, Thread

-----------------------------------------------------------------------------
(* Steps of a worker.                                                      *)

\* A step of one run's worker leaves the other runs and the requests alone.
Confined(r) ==
  /\ \A q \in Run \ {r} :
       /\ full'[q] = full[q] /\ summary'[q] = summary[q] /\ active'[q] = active[q]
       /\ worker'[q] = worker[q] /\ late'[q] = late[q] /\ (q \in cancel' <=> q \in cancel)
  /\ UNCHANGED <<stop, pid, restarts, reused, passed, asked>>

\* The invariant of a run is about that run's part of the state.
LEMMA UntouchedKeeps ==
  ASSUME NEW q \in Run, RunInv(q),
         full'[q] = full[q], summary'[q] = summary[q], active'[q] = active[q],
         worker'[q] = worker[q], late'[q] = late[q], q \in cancel => q \in cancel',
         pid' = pid, reused' = reused, passed' = passed, asked \subseteq asked'
  PROVE  RunInv(q)'
BY DEF RunInv, FilesExist, WorkerHolds, VerdictComesLast, CheckpointCarried, LateIsPending,
       DeadIsMarked, HasCopy, Returned, Alive

\* It is enough to look at the run whose worker stepped.
LEMMA ConfinedKeeps ==
  ASSUME RunsInv, NEW r \in Run, Confined(r), RunInv(r)', worker'[r].pc # "new"
  PROVE  RunsInv'
<1>1. ASSUME NEW q \in Run PROVE RunInv(q)'
  <2>1. CASE q = r
    BY <2>1
  <2>2. CASE q # r
    BY <1>1, <2>2, UntouchedKeeps DEF Confined, RunsInv
  <2>3. QED BY <2>1, <2>2
<1>2. StopHolds'
  BY DEF RunsInv, StopHolds, Confined
<1>3. QED BY <1>1, <1>2 DEF RunsInv, Confined

\* A worker's record after its step.
After(r, pc, run, outcome) ==
  /\ worker' \in [Run -> Thread]
  /\ worker'[r].pc = pc /\ worker'[r].run = run /\ worker'[r].outcome = outcome

\* The rest of the run's state after a step that leaves it alone.
RestStays(r) ==
  /\ full'[r] = full[r] /\ summary'[r] = summary[r] /\ active'[r] = active[r]
  /\ late'[r] = late[r] /\ (r \in cancel' <=> r \in cancel)
  /\ pid' = pid /\ asked' = asked /\ reused' = reused /\ passed' = passed

\* A step that gives a worker another record.
LEMMA ThreadAfter ==
  ASSUME TypeOK, NEW r \in Run, NEW n \in Thread, worker' = [worker EXCEPT ![r] = n]
  PROVE  After(r, n.pc, n.run, n.outcome)
BY DEF After, TypeOK

\* A worker keeps the types and the invariant of its run.
LEMMA WorkerKeeps ==
  ASSUME TypeOK, RunsInv, NEW r \in Run, WorkerStep(r) \/ Breaks(r) \/ WriteFails(r)
  PROVE  TypeOK' /\ RunsInv'
<1> USE DEF process, history, Alive, Returned, HasCopy
<1> DEFINE w == worker[r]
           Good == TypeOK' /\ Confined(r) /\ RunInv(r)' /\ worker'[r].pc # "new"
<1> SUFFICES Good
  BY ConfinedKeeps
<1>w. w \in Thread
  BY DEF TypeOK
<1>inv. RunInv(r)
  BY DEF RunsInv
<1>rec. Alive(r) => Known(r) = active[r] /\ Known(r) \in Record
  BY <1>inv, KnownRecord DEF RunInv
<1>files. /\ Alive(r) => full[r] \in Record /\ summary[r] \in SummaryRecord
          /\ Alive(r) => pid \in Pid
  BY <1>inv DEF RunInv, FilesExist, TypeOK
<1>1. CASE Begin(r)
  <2>pc. w.pc = "begin"
    BY <1>1 DEF Begin
  <2>1. After(r, "check", active[r], None)
    BY <1>1, <1>rec, <1>w, <1>inv
       DEF Begin, After, TypeOK, Thread, RunInv, FilesExist, WorkerHolds
  <2>2. RestStays(r)
    BY <1>1, <1>files, <1>w, <1>inv
       DEF Begin, RestStays, TypeOK, RunInv, WorkerHolds, Thread
  <2>3. TypeOK'
    BY <1>1, <2>1, <1>w, <1>inv DEF Begin, After, TypeOK, Thread, RunInv, WorkerHolds
  <2>4. Confined(r)
    BY <1>1 DEF Begin, Confined, TypeOK
  <2>5. FilesExist(r)' /\ LateIsPending(r)' /\ DeadIsMarked(r)'
    BY <2>pc, <2>1, <2>2, <1>inv
       DEF After, RestStays, RunInv, FilesExist, LateIsPending, DeadIsMarked
  <2>6. WorkerHolds(r)' /\ VerdictComesLast(r)'
    BY <2>pc, <2>1, <2>2, <1>inv, <1>files
       DEF After, RestStays, RunInv, FilesExist, WorkerHolds, VerdictComesLast, Final
  <2>7. CheckpointCarried(r)'
    BY <2>pc, <2>1, <2>2, <1>inv DEF After, RestStays, RunInv, FilesExist, CheckpointCarried
  <2>8. QED BY <2>1, <2>3, <2>4, <2>5, <2>6, <2>7 DEF After, RunInv
<1>2. CASE CheckBeforeStart(r)
  <2> DEFINE copy == [w.run EXCEPT !.status = "running", !.pid = pid, !.phase = History]
  <2>pc. w.pc = "check"
    BY <1>2 DEF CheckBeforeStart
  <2>0. copy \in Record /\ copy.status = "running" /\ copy.ckpt = w.run.ckpt
    BY <1>2, <2>pc, <1>rec, <1>files, <1>w, <1>inv
       DEF RunInv, FilesExist, WorkerHolds, VerdictComesLast, Thread, Record, Stoppable,
           Final, History, Phase
  <2> HIDE DEF copy
  <2>1. \/ r \in cancel /\ After(r, "clear", None, "cancelled")
        \/ After(r, "write", copy, None)
    <3>1. CASE r \in cancel
      <4>1. worker' = [worker EXCEPT ![r] = Out("clear", "cancelled")]
        BY <1>2, <3>1 DEF CheckBeforeStart
      <4>2. QED BY <3>1, <4>1, OutType, ThreadAfter DEF Final
    <3>2. CASE r \notin cancel
      <4> DEFINE n == [w EXCEPT !.pc = "write", !.run = copy]
      <4>1. worker' = [worker EXCEPT ![r] = n]
        BY <1>2, <3>2, <1>w DEF CheckBeforeStart, copy, Thread
      <4>2. w.outcome = None
        BY <1>inv, <2>pc DEF RunInv, WorkerHolds
      <4>3. n \in Thread /\ n.pc = "write" /\ n.run = copy /\ n.outcome = None
        BY <2>0, <1>w, <4>2 DEF Thread
      <4> HIDE DEF n
      <4>4. QED BY <4>1, <4>3, ThreadAfter
    <3>3. QED BY <3>1, <3>2
  <2>2. RestStays(r)
    BY <1>2, <1>inv DEF CheckBeforeStart, RestStays, TypeOK, RunInv, LateIsPending
  <2>3. TypeOK'
    BY <1>2, <2>1 DEF CheckBeforeStart, After, TypeOK
  <2>4. Confined(r)
    BY <1>2 DEF CheckBeforeStart, Confined, TypeOK
  <2>5. FilesExist(r)' /\ LateIsPending(r)' /\ DeadIsMarked(r)'
    BY <2>pc, <2>1, <2>2, <1>inv
       DEF After, RestStays, RunInv, FilesExist, LateIsPending, DeadIsMarked
  <2>6. WorkerHolds(r)' /\ VerdictComesLast(r)'
    BY <2>pc, <2>0, <2>1, <2>2, <1>inv, <1>files
       DEF After, RestStays, RunInv, FilesExist, WorkerHolds, VerdictComesLast, Final
  <2>7. CheckpointCarried(r)'
    BY <2>pc, <2>0, <2>1, <2>2, <1>inv
       DEF After, RestStays, RunInv, FilesExist, CheckpointCarried
  <2>8. QED BY <2>1, <2>3, <2>4, <2>5, <2>6, <2>7 DEF After, RunInv
<1>3. CASE NextEvent(r)
  <2>pc. w.pc = "work"
    BY <1>3 DEF NextEvent
  <2>1. After(r, "emit", w.run, None)
    <3> DEFINE n == [w EXCEPT !.pc = "emit", !.ticks = w.ticks + 1]
               m == [w EXCEPT !.pc = "emit", !.ticks = 1, !.phase = w.phase + 1]
    <3>1. \/ worker' = [worker EXCEPT ![r] = n] /\ w.ticks < MaxTicks
          \/ worker' = [worker EXCEPT ![r] = m] /\ w.phase # Simulate
      BY <1>3 DEF NextEvent
    <3>2. w.outcome = None
      BY <1>inv, <2>pc DEF RunInv, WorkerHolds
    <3>3. w.ticks < MaxTicks =>
            n \in Thread /\ n.pc = "emit" /\ n.run = w.run /\ n.outcome = None
      <4>1. w.ticks < MaxTicks => w.ticks + 1 \in 0 .. MaxTicks
        BY <1>w DEF Thread
      <4>2. QED BY <1>w, <3>2, <4>1 DEF Thread
    <3>4. w.phase # Simulate =>
            m \in Thread /\ m.pc = "emit" /\ m.run = w.run /\ m.outcome = None
      <4>1. w.phase # Simulate => w.phase + 1 \in Phase /\ 1 \in 0 .. MaxTicks
        BY <1>w DEF Thread, Phase, History, Classify, Simulate
      <4>2. QED BY <1>w, <3>2, <4>1 DEF Thread
    <3> HIDE DEF n, m
    <3>5. QED BY <3>1, <3>3, <3>4, ThreadAfter
  <2>2. RestStays(r)
    BY <1>3, <1>files, <1>w, <1>inv
       DEF NextEvent, RestStays, TypeOK, RunInv, WorkerHolds, Thread
  <2>3. TypeOK'
    BY <1>3, <2>1, <1>w, <1>inv DEF NextEvent, After, TypeOK, Thread, RunInv, WorkerHolds
  <2>4. Confined(r)
    BY <1>3 DEF NextEvent, Confined, TypeOK
  <2>5. FilesExist(r)' /\ LateIsPending(r)' /\ DeadIsMarked(r)'
    BY <2>pc, <2>1, <2>2, <1>inv
       DEF After, RestStays, RunInv, FilesExist, LateIsPending, DeadIsMarked
  <2>6. WorkerHolds(r)' /\ VerdictComesLast(r)'
    BY <2>pc, <2>1, <2>2, <1>inv, <1>files
       DEF After, RestStays, RunInv, FilesExist, WorkerHolds, VerdictComesLast, Final
  <2>7. CheckpointCarried(r)'
    BY <2>pc, <2>1, <2>2, <1>inv DEF After, RestStays, RunInv, FilesExist, CheckpointCarried
  <2>8. QED BY <2>1, <2>3, <2>4, <2>5, <2>6, <2>7 DEF After, RunInv
<1>4. CASE Emit(r)
  <2>pc. w.pc = "emit"
    BY <1>4 DEF Emit
  <2>1. \/ r \in cancel /\ After(r, "clear", None, "cancelled")
        \/ r \notin cancel /\ late[r] = 0 /\ After(r, "get", w.run, None)
    <3>1. CASE r \in cancel
      <4>1. worker' = [worker EXCEPT ![r] = Out("clear", "cancelled")]
        BY <1>4, <3>1 DEF Emit
      <4>2. QED BY <3>1, <4>1, OutType, ThreadAfter DEF Final
    <3>2. CASE r \notin cancel
      <4> DEFINE n == [w EXCEPT !.pc = "get"]
      <4>1. worker' = [worker EXCEPT ![r] = n]
        BY <1>4, <3>2 DEF Emit
      <4>2. w.outcome = None /\ late[r] = 0
        BY <1>inv, <2>pc, <3>2 DEF RunInv, WorkerHolds, LateIsPending
      <4>3. n \in Thread /\ n.pc = "get" /\ n.run = w.run /\ n.outcome = None
        BY <1>w, <4>2 DEF Thread
      <4> HIDE DEF n
      <4>4. QED BY <3>2, <4>1, <4>2, <4>3, ThreadAfter
    <3>3. QED BY <3>1, <3>2
  <2>2. RestStays(r)
    BY <1>4, <1>files, <1>w, <1>inv DEF Emit, RestStays, TypeOK, RunInv, WorkerHolds, Thread
  <2>3. TypeOK'
    BY <1>4, <2>1, <1>w, <1>inv DEF Emit, After, TypeOK, Thread, RunInv, WorkerHolds
  <2>4. Confined(r)
    BY <1>4 DEF Emit, Confined, TypeOK
  <2>5. FilesExist(r)' /\ LateIsPending(r)' /\ DeadIsMarked(r)'
    BY <2>pc, <2>1, <2>2, <1>inv
       DEF After, RestStays, RunInv, FilesExist, LateIsPending, DeadIsMarked
  <2>6. WorkerHolds(r)' /\ VerdictComesLast(r)'
    BY <2>pc, <2>1, <2>2, <1>inv, <1>files
       DEF After, RestStays, RunInv, FilesExist, WorkerHolds, VerdictComesLast, Final
  <2>7. CheckpointCarried(r)'
    BY <2>pc, <2>1, <2>2, <1>inv DEF After, RestStays, RunInv, FilesExist, CheckpointCarried
  <2>8. QED BY <2>1, <2>3, <2>4, <2>5, <2>6, <2>7 DEF After, RunInv
<1>5. CASE Progress(r)
  <2> DEFINE copy == [active[r] EXCEPT
                !.status = IF @ \in {"running", "cancelling"} THEN @ ELSE "running",
                !.pid = pid, !.phase = w.phase]
  <2>pc. w.pc = "get"
    BY <1>5 DEF Progress
  <2>0. /\ copy \in Record /\ copy.ckpt = active[r].ckpt
        /\ copy.status \in {"running", "cancelling"}
        /\ active[r].status = "running" => copy.status = "running"
    BY <1>5, <2>pc, <1>rec, <1>files, <1>w, <1>inv
       DEF RunInv, FilesExist, WorkerHolds, VerdictComesLast, Thread, Record, Stoppable,
           Final
  <2> HIDE DEF copy
  <2>1. \/ After(r, "write", copy, None)
        \/ active[r].status = "running" /\ After(r, "tick", copy, None)
    <3>1. Known(r) = active[r]
      BY <1>rec, <2>pc DEF Alive
    <3>2. \/ worker' = [worker EXCEPT ![r].pc = "write", ![r].run = copy]
          \/ /\ active[r].status = "running"
             /\ worker' = [worker EXCEPT ![r].pc = "tick", ![r].run = copy]
      BY <1>5, <3>1 DEF Progress, copy
    <3>3. w.outcome = None
      BY <1>inv, <2>pc DEF RunInv, WorkerHolds
    <3> DEFINE n(pc) == [w EXCEPT !.pc = pc, !.run = copy]
    <3>4. \/ worker' = [worker EXCEPT ![r] = n("write")]
          \/ active[r].status = "running" /\ worker' = [worker EXCEPT ![r] = n("tick")]
      BY <3>2, <1>w DEF Thread
    <3>5. \A pc \in {"write", "tick"} :
            n(pc) \in Thread /\ n(pc).pc = pc /\ n(pc).run = copy /\ n(pc).outcome = None
      BY <2>0, <3>3, <1>w DEF Thread
    <3> HIDE DEF n
    <3>6. QED BY <3>4, <3>5, ThreadAfter
  <2>2. /\ full'[r] = full[r] /\ summary'[r] = summary[r] /\ active'[r] = active[r]
        /\ pid' = pid /\ asked' = asked /\ reused' = reused /\ passed' = passed /\ cancel' = cancel
        /\ late' \in [Run -> Nat] /\ late'[r] = IF r \in cancel THEN 1 ELSE 0
    BY <1>5, <1>inv DEF Progress, RestStays, TypeOK, RunInv, LateIsPending
  <2>3. TypeOK'
    BY <1>5, <2>1, <2>2 DEF Progress, After, TypeOK
  <2>4. Confined(r)
    BY <1>5 DEF Progress, Confined, TypeOK
  <2>5. FilesExist(r)' /\ LateIsPending(r)' /\ DeadIsMarked(r)'
    BY <2>pc, <2>1, <2>2, <1>inv
       DEF After, RestStays, RunInv, FilesExist, LateIsPending, DeadIsMarked
  <2>6. WorkerHolds(r)' /\ VerdictComesLast(r)'
    BY <2>pc, <2>0, <2>1, <2>2, <1>inv, <1>files
       DEF After, RestStays, RunInv, FilesExist, WorkerHolds, VerdictComesLast, Final
  <2>7. CheckpointCarried(r)'
    BY <2>pc, <2>0, <2>1, <2>2, <1>inv
       DEF After, RestStays, RunInv, FilesExist, CheckpointCarried
  <2>8. QED BY <2>1, <2>3, <2>4, <2>5, <2>6, <2>7 DEF After, RunInv
<1>6. CASE Checkpoint(r)
  <2> DEFINE copy == [active[r] EXCEPT !.ckpt = TRUE]
  <2>pc. w.pc = "work"
    BY <1>6 DEF Checkpoint
  <2>0. copy \in Record /\ copy.status = active[r].status /\ copy.ckpt
    BY <1>6, <2>pc, <1>rec, <1>files, <1>w, <1>inv
       DEF RunInv, FilesExist, WorkerHolds, VerdictComesLast, Thread, Record, Stoppable,
           Final
  <2> HIDE DEF copy
  <2>1. After(r, "write", copy, None)
    BY <1>6, <2>0, <1>rec, <1>w, <1>inv
       DEF Checkpoint, After, TypeOK, Thread, RunInv, WorkerHolds, Final, copy
  <2>2. RestStays(r)
    BY <1>6, <1>inv DEF Checkpoint, RestStays, TypeOK, RunInv, LateIsPending
  <2>3. TypeOK'
    BY <1>6, <2>1 DEF Checkpoint, After, TypeOK
  <2>4. Confined(r)
    BY <1>6 DEF Checkpoint, Confined, TypeOK
  <2>5. FilesExist(r)' /\ LateIsPending(r)' /\ DeadIsMarked(r)'
    BY <2>pc, <2>1, <2>2, <1>inv
       DEF After, RestStays, RunInv, FilesExist, LateIsPending, DeadIsMarked
  <2>6. WorkerHolds(r)' /\ VerdictComesLast(r)'
    BY <2>pc, <2>0, <2>1, <2>2, <1>inv, <1>files
       DEF After, RestStays, RunInv, FilesExist, WorkerHolds, VerdictComesLast, Final
  <2>7. CheckpointCarried(r)'
    BY <2>pc, <2>0, <2>1, <2>2, <1>inv
       DEF After, RestStays, RunInv, FilesExist, CheckpointCarried
  <2>8. QED BY <2>1, <2>3, <2>4, <2>5, <2>6, <2>7 DEF After, RunInv
<1>7. CASE LoadForEnd(r)
  <2> DEFINE copy == [active[r] EXCEPT
                !.status = IF w.outcome = "crashed" THEN "failed" ELSE w.outcome,
                !.pid = None]
  <2>pc. w.pc = "load"
    BY <1>7 DEF LoadForEnd
  <2>0. copy \in Record /\ copy.status \in Final /\ copy.ckpt = active[r].ckpt
    BY <1>7, <2>pc, <1>rec, <1>files, <1>w, <1>inv
       DEF RunInv, FilesExist, WorkerHolds, VerdictComesLast, Thread, Record, Stoppable,
           Final
  <2> HIDE DEF copy
  <2>1. After(r, IF Returned(r) THEN "clear" ELSE "write", copy, w.outcome)
    BY <1>7, <2>0, <1>rec, <1>w, <1>inv
       DEF LoadForEnd, After, TypeOK, Thread, RunInv, WorkerHolds, Final, copy
  <2>2. RestStays(r)
    BY <1>7, <1>inv DEF LoadForEnd, RestStays, TypeOK, RunInv, LateIsPending
  <2>3. TypeOK'
    BY <1>7, <2>1 DEF LoadForEnd, After, TypeOK
  <2>4. Confined(r)
    BY <1>7 DEF LoadForEnd, Confined, TypeOK
  <2>5. FilesExist(r)' /\ LateIsPending(r)' /\ DeadIsMarked(r)'
    BY <2>pc, <2>1, <2>2, <1>inv
       DEF After, RestStays, RunInv, FilesExist, LateIsPending, DeadIsMarked
  <2>6. WorkerHolds(r)' /\ VerdictComesLast(r)'
    BY <2>pc, <2>0, <2>1, <2>2, <1>inv, <1>files
       DEF After, RestStays, RunInv, FilesExist, WorkerHolds, VerdictComesLast, Final
  <2>7. CheckpointCarried(r)'
    BY <2>pc, <2>0, <2>1, <2>2, <1>inv
       DEF After, RestStays, RunInv, FilesExist, CheckpointCarried
  <2>8. QED BY <2>1, <2>3, <2>4, <2>5, <2>6, <2>7 DEF After, RunInv
<1>8. CASE WriteTick(r)
  <2>pc. w.pc = "tick"
    BY <1>8 DEF WriteTick
  <2>1. After(r, "set", w.run, None)
    BY <1>8, <1>w, <1>inv
       DEF WriteTick, After, TypeOK, Thread, RunInv, FilesExist, WorkerHolds
  <2>2. /\ full'[r] = full[r] /\ active'[r] = active[r] /\ late'[r] = late[r]
        /\ cancel' = cancel /\ pid' = pid /\ asked' = asked /\ reused' = reused /\ passed' = passed
        /\ summary'[r] # None /\ summary'[r].status = "running"
        /\ summary' \in [Run -> SummaryRecord \cup {None}]
    <3>1. w.run \in Record /\ w.run.status = "running"
      BY <2>pc, <1>w, <1>inv DEF Thread, RunInv, WorkerHolds, VerdictComesLast
    <3>2. SummaryOf(w.run) \in SummaryRecord /\ SummaryOf(w.run).status = w.run.status
      BY <3>1, SummaryFields
    <3>3. QED BY <1>8, <3>1, <3>2, NoneAssumption DEF WriteTick, TypeOK
  <2>3. TypeOK'
    BY <1>8, <2>1, <1>w, <1>inv, <2>2
       DEF WriteTick, After, TypeOK, Thread, RunInv, WorkerHolds
  <2>4. Confined(r)
    BY <1>8 DEF WriteTick, Confined, TypeOK
  <2>5. FilesExist(r)' /\ LateIsPending(r)' /\ DeadIsMarked(r)'
    BY <2>pc, <2>1, <2>2, <1>inv
       DEF After, RunInv, RunInv, FilesExist, LateIsPending, DeadIsMarked
  <2>6. WorkerHolds(r)' /\ VerdictComesLast(r)'
    BY <2>pc, <2>1, <2>2, <1>inv, <1>files
       DEF After, RunInv, RunInv, FilesExist, WorkerHolds, VerdictComesLast, Final
  <2>7. CheckpointCarried(r)'
    BY <2>pc, <2>1, <2>2, <1>inv DEF After, RunInv, RunInv, FilesExist, CheckpointCarried
  <2>8. QED BY <2>1, <2>3, <2>4, <2>5, <2>6, <2>7 DEF After, RunInv
<1>9. CASE WriteFile(r)
  <2>pc. w.pc = "write"
    BY <1>9 DEF WriteFile
  <2>1. After(r, "summary", w.run, w.outcome)
    BY <1>9, <1>w, <1>inv
       DEF WriteFile, After, TypeOK, Thread, RunInv, FilesExist, WorkerHolds
  <2>2. /\ summary'[r] = summary[r] /\ active'[r] = active[r] /\ late'[r] = late[r]
        /\ cancel' = cancel /\ pid' = pid /\ asked' = asked /\ reused' = reused /\ passed' = passed
        /\ full'[r] = w.run /\ full' \in [Run -> Record \cup {None}]
    BY <1>9, <1>files, <1>w, <1>inv
       DEF WriteFile, RestStays, TypeOK, RunInv, WorkerHolds, Thread
  <2>3. TypeOK'
    BY <1>9, <2>1, <1>w, <1>inv, <2>2
       DEF WriteFile, After, TypeOK, Thread, RunInv, WorkerHolds
  <2>4. Confined(r)
    BY <1>9 DEF WriteFile, Confined, TypeOK
  <2>5. FilesExist(r)' /\ LateIsPending(r)' /\ DeadIsMarked(r)'
    BY <2>pc, <2>1, <2>2, <1>inv
       DEF After, RunInv, WorkerHolds, RunInv, FilesExist, LateIsPending, DeadIsMarked
  <2>6. WorkerHolds(r)' /\ VerdictComesLast(r)'
    BY <2>pc, <2>1, <2>2, <1>inv, <1>files
       DEF After, RunInv, RunInv, FilesExist, WorkerHolds, VerdictComesLast, Final
  <2>7. CheckpointCarried(r)'
    BY <2>pc, <2>1, <2>2, <1>inv DEF After, RunInv, RunInv, FilesExist, CheckpointCarried
  <2>8. QED BY <2>1, <2>3, <2>4, <2>5, <2>6, <2>7 DEF After, RunInv
<1>10. CASE WriteSummary(r)
  <2>pc. w.pc = "summary"
    BY <1>10 DEF WriteSummary
  <2>1. After(r, IF w.outcome = None THEN "set" ELSE "pop", w.run, w.outcome)
    BY <1>10, <1>w, <1>inv
       DEF WriteSummary, After, TypeOK, Thread, RunInv, FilesExist, WorkerHolds
  <2>2. /\ full'[r] = full[r] /\ active'[r] = active[r] /\ late'[r] = late[r]
        /\ cancel' = cancel /\ pid' = pid /\ asked' = asked /\ reused' = reused /\ passed' = passed
        /\ summary'[r] # None /\ summary'[r].status = w.run.status
        /\ summary' \in [Run -> SummaryRecord \cup {None}]
    <3>1. w.run \in Record
      BY <2>pc, <1>w, <1>inv DEF Thread, RunInv, WorkerHolds
    <3>2. SummaryOf(w.run) \in SummaryRecord /\ SummaryOf(w.run).status = w.run.status
      BY <3>1, SummaryFields
    <3>3. QED BY <1>10, <3>1, <3>2, NoneAssumption DEF WriteSummary, TypeOK
  <2>3. TypeOK'
    BY <1>10, <2>1, <1>w, <1>inv, <2>2
       DEF WriteSummary, After, TypeOK, Thread, RunInv, WorkerHolds
  <2>4. Confined(r)
    BY <1>10 DEF WriteSummary, Confined, TypeOK
  <2>5. FilesExist(r)' /\ LateIsPending(r)' /\ DeadIsMarked(r)'
    BY <2>pc, <2>1, <2>2, <1>inv
       DEF After, RunInv, RunInv, FilesExist, LateIsPending, DeadIsMarked
  <2>6. WorkerHolds(r)' /\ VerdictComesLast(r)'
    BY <2>pc, <2>1, <2>2, <1>inv, <1>files
       DEF After, RunInv, RunInv, FilesExist, WorkerHolds, VerdictComesLast, Final
  <2>7. CheckpointCarried(r)'
    BY <2>pc, <2>1, <2>2, <1>inv DEF After, RunInv, RunInv, FilesExist, CheckpointCarried
  <2>8. QED BY <2>1, <2>3, <2>4, <2>5, <2>6, <2>7 DEF After, RunInv
<1>11. CASE SetActive(r)
  <2>pc. w.pc = "set"
    BY <1>11 DEF SetActive
  <2>1. After(r, "work", None, None)
    BY <1>11, <1>w, <1>inv
       DEF SetActive, After, TypeOK, Thread, RunInv, FilesExist, WorkerHolds
  <2>2. /\ full'[r] = full[r] /\ summary'[r] = summary[r] /\ late'[r] = late[r]
        /\ cancel' = cancel /\ pid' = pid /\ asked' = asked /\ reused' = reused /\ passed' = passed
        /\ active'[r] = w.run /\ active' \in [Run -> Record \cup {None}]
    BY <1>11, <1>files, <1>w, <1>inv
       DEF SetActive, RestStays, TypeOK, RunInv, WorkerHolds, Thread
  <2>3. TypeOK'
    BY <1>11, <2>1, <1>w, <1>inv, <2>2
       DEF SetActive, After, TypeOK, Thread, RunInv, WorkerHolds
  <2>4. Confined(r)
    BY <1>11 DEF SetActive, Confined, TypeOK
  <2>5. FilesExist(r)' /\ LateIsPending(r)' /\ DeadIsMarked(r)'
    BY <2>pc, <2>1, <2>2, <1>inv
       DEF After, RunInv, WorkerHolds, RunInv, FilesExist, LateIsPending, DeadIsMarked
  <2>6. WorkerHolds(r)' /\ VerdictComesLast(r)'
    BY <2>pc, <2>1, <2>2, <1>inv, <1>files
       DEF After, RunInv, RunInv, FilesExist, WorkerHolds, VerdictComesLast, Final
  <2>7. CheckpointCarried(r)'
    BY <2>pc, <2>1, <2>2, <1>inv DEF After, RunInv, RunInv, FilesExist, CheckpointCarried
  <2>8. QED BY <2>1, <2>3, <2>4, <2>5, <2>6, <2>7 DEF After, RunInv
<1>12. CASE Return(r)
  <2>pc. w.pc = "work"
    BY <1>12 DEF Return
  <2>1. \/ w.outcome = None /\ After(r, "load", None, "failed")
        \/ w.outcome = None /\ After(r, "load", None, "completed")
        \/ w.outcome = None /\ After(r, "clear", None, "crashed")
    <3>1. w.outcome = None
      BY <1>inv, <2>pc DEF RunInv, WorkerHolds
    <3>2. \/ worker' = [worker EXCEPT ![r] = Out("load", "failed")]
          \/ worker' = [worker EXCEPT ![r] = Out("load", "completed")]
          \/ worker' = [worker EXCEPT ![r] = Out("clear", "crashed")]
      BY <1>12 DEF Return
    <3>3. QED BY <3>1, <3>2, OutType, ThreadAfter DEF Final
  <2>2. RestStays(r)
    BY <1>12, <1>files, <1>w, <1>inv
       DEF Return, RestStays, TypeOK, RunInv, WorkerHolds, Thread
  <2>3. TypeOK'
    BY <1>12, <2>1, <1>w, <1>inv DEF Return, After, TypeOK, Thread, RunInv, WorkerHolds
  <2>4. Confined(r)
    BY <1>12 DEF Return, Confined, TypeOK
  <2>5. FilesExist(r)' /\ LateIsPending(r)' /\ DeadIsMarked(r)'
    BY <2>pc, <2>1, <2>2, <1>inv
       DEF After, RestStays, RunInv, FilesExist, LateIsPending, DeadIsMarked
  <2>6. WorkerHolds(r)' /\ VerdictComesLast(r)'
    BY <2>pc, <2>1, <2>2, <1>inv, <1>files
       DEF After, RestStays, RunInv, FilesExist, WorkerHolds, VerdictComesLast, Final
  <2>7. CheckpointCarried(r)'
    BY <2>pc, <2>1, <2>2, <1>inv DEF After, RestStays, RunInv, FilesExist, CheckpointCarried
  <2>8. QED BY <2>1, <2>3, <2>4, <2>5, <2>6, <2>7 DEF After, RunInv
<1>13. CASE ClearRequest(r)
  <2>pc. w.pc = "clear"
    BY <1>13 DEF ClearRequest
  <2>1. After(r, IF Returned(r) THEN "write" ELSE "load", w.run, w.outcome)
    BY <1>13, <1>w, <1>inv
       DEF ClearRequest, After, TypeOK, Thread, RunInv, FilesExist, WorkerHolds
  <2>2. /\ full'[r] = full[r] /\ summary'[r] = summary[r] /\ active'[r] = active[r]
        /\ pid' = pid /\ asked' = asked /\ reused' = reused /\ passed' = passed
        /\ late' \in [Run -> Nat] /\ late'[r] = 0
    BY <1>13, <1>files, <1>w, <1>inv
       DEF ClearRequest, RestStays, TypeOK, RunInv, WorkerHolds, Thread
  <2>3. TypeOK'
    BY <1>13, <2>1, <1>w, <1>inv, <2>2
       DEF ClearRequest, After, TypeOK, Thread, RunInv, WorkerHolds
  <2>4. Confined(r)
    BY <1>13 DEF ClearRequest, Confined, TypeOK
  <2>5. FilesExist(r)' /\ LateIsPending(r)' /\ DeadIsMarked(r)'
    BY <2>pc, <2>1, <2>2, <1>inv
       DEF After, RunInv, RunInv, FilesExist, LateIsPending, DeadIsMarked
  <2>6. WorkerHolds(r)' /\ VerdictComesLast(r)'
    BY <2>pc, <2>1, <2>2, <1>inv, <1>files
       DEF After, RunInv, RunInv, FilesExist, WorkerHolds, VerdictComesLast, Final
  <2>7. CheckpointCarried(r)'
    BY <2>pc, <2>1, <2>2, <1>inv DEF After, RunInv, RunInv, FilesExist, CheckpointCarried
  <2>8. QED BY <2>1, <2>3, <2>4, <2>5, <2>6, <2>7 DEF After, RunInv
<1>14. CASE Pop(r)
  <2>pc. w.pc = "pop"
    BY <1>14 DEF Pop
  <2>1. After(r, "ended", None, None)
    BY <1>14, GoneType DEF Pop, After, TypeOK
  <2>2. /\ full'[r] = full[r] /\ summary'[r] = summary[r] /\ late'[r] = late[r]
        /\ cancel' = cancel /\ pid' = pid /\ asked' = asked /\ reused' = reused /\ passed' = passed
        /\ active'[r] = None /\ active' \in [Run -> Record \cup {None}]
    BY <1>14, <1>files, <1>w, <1>inv DEF Pop, RestStays, TypeOK, RunInv, WorkerHolds, Thread
  <2>3. TypeOK'
    BY <1>14, <2>1, <1>w, <1>inv, <2>2 DEF Pop, After, TypeOK, Thread, RunInv, WorkerHolds
  <2>4. Confined(r)
    BY <1>14 DEF Pop, Confined, TypeOK
  <2>5. FilesExist(r)' /\ LateIsPending(r)' /\ DeadIsMarked(r)'
    BY <2>pc, <2>1, <2>2, <1>inv
       DEF After, RunInv, RunInv, FilesExist, LateIsPending, DeadIsMarked
  <2>6. WorkerHolds(r)' /\ VerdictComesLast(r)'
    BY <2>pc, <2>1, <2>2, <1>inv, <1>files
       DEF After, RunInv, RunInv, FilesExist, WorkerHolds, VerdictComesLast, Final
  <2>7. CheckpointCarried(r)'
    BY <2>pc, <2>1, <2>2, <1>inv DEF After, RunInv, RunInv, FilesExist, CheckpointCarried
  <2>8. QED BY <2>1, <2>3, <2>4, <2>5, <2>6, <2>7 DEF After, RunInv
<1>15. CASE Breaks(r)
  <2>pc. w.pc \in {"check", "write", "work"}
    BY <1>15 DEF Breaks
  <2>1. After(r, "broken", None, None)
    BY <1>15, GoneType DEF Breaks, After, TypeOK
  <2>2. RestStays(r)
    BY <1>15 DEF Breaks, RestStays
  <2>3. TypeOK'
    BY <1>15, <2>1 DEF Breaks, After, TypeOK
  <2>4. Confined(r)
    BY <1>15 DEF Breaks, Confined, TypeOK
  <2>5. FilesExist(r)' /\ LateIsPending(r)' /\ DeadIsMarked(r)'
    BY <2>pc, <2>1, <2>2, <1>inv
       DEF After, RestStays, RunInv, FilesExist, LateIsPending, DeadIsMarked
  <2>6. WorkerHolds(r)' /\ VerdictComesLast(r)'
    BY <2>pc, <2>1, <2>2, <1>inv, <1>files
       DEF After, RestStays, RunInv, FilesExist, WorkerHolds, VerdictComesLast, Final
  <2>7. CheckpointCarried(r)'
    BY <2>pc, <2>1, <2>2, <1>inv DEF After, RestStays, RunInv, FilesExist, CheckpointCarried
  <2>8. QED BY <2>1, <2>3, <2>4, <2>5, <2>6, <2>7 DEF After, RunInv
<1>16. CASE WriteFails(r)
  <2>pc. w.pc \in {"write", "tick"}
    BY <1>16 DEF WriteFails
  <2>1. After(r, "clear", None, "crashed")
    BY <1>16, OutType DEF WriteFails, After, TypeOK
  <2>2. RestStays(r)
    BY <1>16 DEF WriteFails, RestStays
  <2>3. TypeOK'
    BY <1>16, <2>1 DEF WriteFails, After, TypeOK
  <2>4. Confined(r)
    BY <1>16 DEF WriteFails, Confined, TypeOK
  <2>5. FilesExist(r)' /\ LateIsPending(r)' /\ DeadIsMarked(r)'
    BY <2>pc, <2>1, <2>2, <1>inv
       DEF After, RestStays, RunInv, FilesExist, LateIsPending, DeadIsMarked
  <2>6. WorkerHolds(r)' /\ VerdictComesLast(r)'
    BY <2>pc, <2>1, <2>2, <1>inv, <1>files
       DEF After, RestStays, RunInv, FilesExist, WorkerHolds, VerdictComesLast, Final
  <2>7. CheckpointCarried(r)'
    BY <2>pc, <2>1, <2>2, <1>inv DEF After, RestStays, RunInv, FilesExist, CheckpointCarried
  <2>8. QED BY <2>1, <2>3, <2>4, <2>5, <2>6, <2>7 DEF After, RunInv
<1>17. QED
  BY <1>1, <1>2, <1>3, <1>4, <1>5, <1>6, <1>7, <1>8, <1>9, <1>10, <1>11, <1>12, <1>13,
     <1>14, <1>15, <1>16 DEF WorkerStep

-----------------------------------------------------------------------------
(* Requests of the operator.                                               *)

\* No request.
LEMMA NoRequestType == NoRequest \in Request /\ NoRequest.pc = "idle"
BY DEF NoRequest, Request

\* A new run begins with its files written and its record in memory.
LEMMA LaunchKeeps ==
  ASSUME TypeOK, RunsInv, NEW r \in Run, Launch(r)
  PROVE  TypeOK' /\ RunsInv'
<1> USE DEF process, history
<1> DEFINE run == [status |-> "queued", pid |-> None, phase |-> 0, ckpt |-> FALSE]
<1>1. /\ run \in Record /\ SummaryOf(run) \in SummaryRecord
      /\ SummaryOf(run).status = "queued"
  <2>1. run \in Record
    BY DEF Record, Stoppable, Phase
  <2>2. QED BY <2>1, SummaryFields
<1>2. /\ full' = [full EXCEPT ![r] = run] /\ summary' = [summary EXCEPT ![r] = SummaryOf(run)]
      /\ \/ /\ active' = [active EXCEPT ![r] = run]
            /\ worker' = [worker EXCEPT ![r] = Gone("begin")]
         \/ /\ active' = active
            /\ worker' = [worker EXCEPT ![r] = Gone("broken")]
  BY DEF Launch
<1> HIDE DEF run
<1>3. worker[r].pc = "new" /\ pid \in Pid
  BY DEF Launch, TypeOK
<1>4. /\ worker' \in [Run -> Thread]
      /\ worker'[r].run = None /\ worker'[r].outcome = None
      /\ \/ worker'[r].pc = "begin" /\ active'[r] = run
         \/ worker'[r].pc = "broken" /\ active'[r] = active[r]
  <2>1. \A pc \in {"begin", "broken"} :
          worker' = [worker EXCEPT ![r] = Gone(pc)] => After(r, pc, None, None)
    <3> SUFFICES ASSUME NEW pc \in {"begin", "broken"},
                        worker' = [worker EXCEPT ![r] = Gone(pc)]
                 PROVE  After(r, pc, None, None)
      OBVIOUS
    <3>1. Gone(pc) \in Thread /\ Gone(pc).pc = pc
          /\ Gone(pc).run = None /\ Gone(pc).outcome = None
      BY GoneType
    <3>2. QED BY <3>1, ThreadAfter
  <2>2. active' = [active EXCEPT ![r] = run] => active'[r] = run
    BY DEF TypeOK
  <2>3. QED BY <1>2, <2>1, <2>2 DEF After
<1>5. TypeOK'
  <2>1. UNCHANGED <<cancel, stop, pid, reused, passed, restarts, stops, asked, late>>
    BY DEF Launch
  <2>2. order' \in Seq(Run)
    BY DEF Launch, TypeOK
  <2>3. active' \in [Run -> Record \cup {None}]
    BY <1>1, <1>2 DEF TypeOK
  <2>4. QED BY <1>1, <1>2, <1>4, <2>1, <2>2, <2>3 DEF TypeOK
<1>6. Confined(r)
  BY DEF Launch, Confined, TypeOK
<1>7. /\ full'[r] = run /\ summary'[r] = SummaryOf(run)
      /\ late'[r] = late[r] /\ cancel' = cancel /\ pid' = pid /\ asked' = asked
  BY <1>2 DEF Launch, TypeOK
<1>8. run.status = "queued" /\ ~run.ckpt
  BY DEF run
<1>9. RunInv(r)
  BY DEF RunsInv
<1>10. RunInv(r)'
  BY <1>1, <1>3, <1>4, <1>7, <1>8, <1>9
     DEF RunInv, FilesExist, WorkerHolds, VerdictComesLast, CheckpointCarried,
         LateIsPending,
         DeadIsMarked, HasCopy, Returned, Alive, Final
<1>11. QED BY <1>4, <1>6, <1>5, <1>10, ConfinedKeeps

\* A stop request keeps the types and the invariant of the run it is about: its
\* copy has no verdict, and it has been noted.
LEMMA StopKeeps ==
  ASSUME TypeOK, RunsInv, StopStep \/ \E r \in Run : StopReadsFile(r)
  PROVE  TypeOK' /\ RunsInv'
<1> USE DEF process, history
<1>req. stop \in Request
  BY DEF TypeOK
<1>1. ASSUME NEW r \in Run, StopReadsFile(r)
      PROVE  TypeOK' /\ StopHolds'
  <2>1. full[r] \in Record /\ pid # None /\ worker[r].pc # "new"
    BY <1>1 DEF StopReadsFile, TypeOK, RunsInv, RunInv, FilesExist
  <2>2. stop' \in Request /\ stop'.pc = "read" /\ stop'.run = r
    BY <1>1, <1>req, <2>1 DEF StopReadsFile, Request, Record
  <2>3. TypeOK'
    <3>1. stops' = stops + 1 /\ stops < MaxStops /\ stops \in 0 .. MaxStops
      BY <1>1 DEF StopReadsFile, TypeOK
    <3>2. UNCHANGED <<full, summary, active, cancel, worker, pid, order, reused, passed,
                      restarts, asked, late>>
      BY <1>1 DEF StopReadsFile
    <3>3. stops' \in 0 .. MaxStops
      BY <3>1
    <3>4. QED BY <2>2, <3>2, <3>3 DEF TypeOK
  <2>4. QED BY <1>1, <2>1, <2>2, <2>3 DEF StopReadsFile, StopHolds
<1>2. ASSUME StopReadsSummary PROVE TypeOK' /\ StopHolds'
  <2>1. /\ stop.run \in Run /\ pid # None /\ worker[stop.run].pc # "new"
        /\ summary[stop.run] \in SummaryRecord
    BY <1>2 DEF StopReadsSummary, RunsInv, StopHolds, RunInv, FilesExist, TypeOK
  <2> DEFINE copy == [Merged([ckpt |-> stop.ckpt], summary[stop.run])
                        EXCEPT !.status = "cancelling"]
  <2>2. copy \in Record /\ copy.status = "cancelling"
    BY <1>req, <2>1 DEF Merged, Record, SummaryRecord, Request, Stoppable
  <2> HIDE DEF copy
  <2>3. \/ /\ stop' = [stop EXCEPT !.pc = "flag", !.copy = copy]
           /\ asked' = asked \cup {stop.run}
        \/ stop' = NoRequest /\ asked' = asked
    BY <1>2 DEF StopReadsSummary, copy
  <2>4. /\ stop' \in Request
        /\ \/ stop'.pc = "idle"
           \/ stop'.run = stop.run /\ stop'.copy = copy /\ stop.run \in asked'
    BY <1>req, <2>2, <2>3, NoRequestType DEF Request
  <2>5. TypeOK'
    BY <1>2, <2>1, <2>3, <2>4 DEF StopReadsSummary, TypeOK
  <2>6. StopHolds'
    <3>1. pid' = pid /\ worker' = worker /\ copy # None
      BY <1>2, <2>2, NoneAssumption DEF StopReadsSummary
    <3>2. QED BY <2>1, <2>2, <2>4, <3>1 DEF StopHolds
  <2>7. QED BY <2>5, <2>6
<1>3. ASSUME StopSetsFlag \/ StopWritesFile \/ StopWritesSummary \/ StopSetsActive
      PROVE  TypeOK' /\ StopHolds'
  <2>1. /\ stop.run \in Run /\ pid # None /\ worker[stop.run].pc # "new"
        /\ stop.copy \in Record /\ stop.copy.status = "cancelling" /\ stop.run \in asked
    BY <1>3, <1>req
       DEF StopSetsFlag, StopWritesFile, StopWritesSummary, StopSetsActive, RunsInv,
           StopHolds,
           Request
  <2>2. SummaryOf(stop.copy) \in SummaryRecord
    BY <2>1, SummaryFields
  <2>3. \/ stop' = NoRequest
        \/ \E pc \in {"write", "summary", "set"} : stop' = [stop EXCEPT !.pc = pc]
    BY <1>3 DEF StopSetsFlag, StopWritesFile, StopWritesSummary, StopSetsActive
  <2>4. /\ stop' \in Request
        /\ \/ stop'.pc = "idle"
           \/ stop'.run = stop.run /\ stop'.copy = stop.copy
    BY <1>req, <2>3, NoRequestType DEF Request
  <2>5. TypeOK'
    <3>1. /\ full' \in [Run -> Record \cup {None}]
          /\ summary' \in [Run -> SummaryRecord \cup {None}]
          /\ active' \in [Run -> Record \cup {None}] /\ cancel' \subseteq Run
      <4>1. CASE StopSetsFlag
        BY <2>1, <4>1 DEF StopSetsFlag, TypeOK
      <4>2. CASE StopWritesFile
        BY <2>1, <4>2 DEF StopWritesFile, TypeOK
      <4>3. CASE StopWritesSummary
        BY <2>1, <2>2, <4>3 DEF StopWritesSummary, TypeOK
      <4>4. CASE StopSetsActive
        BY <2>1, <4>4 DEF StopSetsActive, TypeOK
      <4>5. QED BY <1>3, <4>1, <4>2, <4>3, <4>4
    <3>2. UNCHANGED <<worker, pid, order, reused, passed, restarts, stops, asked, late>>
      BY <1>3 DEF StopSetsFlag, StopWritesFile, StopWritesSummary, StopSetsActive
    <3>3. QED BY <2>4, <3>1, <3>2 DEF TypeOK
  <2>6. StopHolds'
    <3>1. pid' = pid /\ worker' = worker /\ asked' = asked /\ stop.copy # None
      BY <1>3, <2>1, NoneAssumption
         DEF StopSetsFlag, StopWritesFile, StopWritesSummary, StopSetsActive
    <3>2. QED BY <2>1, <2>4, <3>1 DEF StopHolds
  <2>7. QED BY <2>5, <2>6
<1>4. ASSUME NEW q \in Run PROVE RunInv(q)'
  <2>inv. RunInv(q)
    BY DEF RunsInv
  <2>1. CASE \/ \E r \in Run : StopReadsFile(r)
             \/ StopReadsSummary \/ StopSetsFlag
             \/ (StopWritesFile \/ StopWritesSummary \/ StopSetsActive) /\ q # stop.run
    BY <2>1, <2>inv, UntouchedKeeps
       DEF StopReadsFile, StopReadsSummary, StopSetsFlag, StopWritesFile, StopWritesSummary,
           StopSetsActive, TypeOK
  <2>2. CASE (StopWritesFile \/ StopWritesSummary \/ StopSetsActive) /\ q = stop.run
    <3>1. /\ stop.copy # None /\ stop.copy \in Record /\ stop.copy.status = "cancelling"
          /\ q \in asked /\ worker[q].pc # "new" /\ full[q] # None /\ summary[q] # None
      BY <1>req, <2>2, <2>inv
         DEF StopWritesFile, StopWritesSummary, StopSetsActive, RunsInv, StopHolds, Request,
             RunInv, FilesExist
    <3>2. /\ SummaryOf(stop.copy) # None
          /\ SummaryOf(stop.copy).status = "cancelling"
      BY <3>1, SummaryFields, NoneAssumption
    <3>3. /\ full'[q] \in {full[q], stop.copy}
          /\ summary'[q] \in {summary[q], SummaryOf(stop.copy)}
          /\ active'[q] \in {active[q], stop.copy}
          /\ worker' = worker /\ late' = late /\ cancel' = cancel /\ pid' = pid
          /\ asked' = asked /\ reused' = reused /\ passed' = passed
      BY <2>2 DEF StopWritesFile, StopWritesSummary, StopSetsActive, TypeOK
    <3>4. FilesExist(q)' /\ WorkerHolds(q)' /\ LateIsPending(q)' /\ CheckpointCarried(q)'
      BY <2>inv, <3>1, <3>2, <3>3
         DEF RunInv, FilesExist, WorkerHolds, LateIsPending, CheckpointCarried, HasCopy,
             Alive,
             Returned
    <3>5. VerdictComesLast(q)' /\ DeadIsMarked(q)'
      BY <2>inv, <3>1, <3>2, <3>3
         DEF RunInv, VerdictComesLast, DeadIsMarked, HasCopy, Alive, Returned, Final
    <3>6. QED BY <3>4, <3>5 DEF RunInv
  <2>3. QED BY <2>1, <2>2 DEF StopStep
<1>5. pid' = pid /\ restarts' = restarts
  BY DEF StopStep, StopReadsFile, StopReadsSummary, StopSetsFlag, StopWritesFile,
         StopWritesSummary, StopSetsActive
<1>6. TypeOK' /\ StopHolds'
  BY <1>1, <1>2, <1>3 DEF StopStep
<1>7. QED BY <1>4, <1>5, <1>6 DEF RunsInv

-----------------------------------------------------------------------------
(* The process.                                                            *)

\* A process that ends leaves the files and nothing else.
LEMMA CrashKeeps ==
  ASSUME TypeOK, RunsInv, Crash
  PROVE  TypeOK' /\ RunsInv'
<1>1. /\ Gone("dead") \in Thread /\ Gone("dead").pc = "dead"
  BY GoneType
<1>2. worker' \in [Run -> Thread] /\ stop' \in Request
  BY <1>1 DEF Crash, TypeOK, NoRequest, Request
<1>3. TypeOK'
  BY <1>2 DEF Crash, TypeOK
<1>4. ASSUME NEW q \in Run PROVE RunInv(q)'
  <2>1. RunInv(q)
    BY DEF RunsInv
  <2>2. /\ full'[q] = full[q] /\ summary'[q] = summary[q] /\ active'[q] = None
        /\ late'[q] = 0 /\ pid' = None /\ asked' = asked
        /\ \/ worker[q].pc \notin {"new", "ended"} /\ worker'[q] = Gone("dead")
           \/ ~Alive(q) /\ worker'[q] = worker[q]
    BY DEF Crash, Alive
  <2>3. QED
    BY <1>1, <2>1, <2>2
       DEF RunInv, FilesExist, WorkerHolds, VerdictComesLast, CheckpointCarried,
           LateIsPending,
           DeadIsMarked, HasCopy, Alive, Returned
<1>5. QED BY <1>3, <1>4 DEF RunsInv, StopHolds, Crash, NoRequest

\* A restart leaves no run listed as queued or running whose worker is gone,
\* unless the pid that the record names is in use or newer runs hide it.
LEMMA RestartKeeps ==
  ASSUME TypeOK, RunsInv, Restart
  PROVE  TypeOK' /\ RunsInv'
<1>1. PICK alive \in SUBSET Pid :
        /\ pid' \in alive
        /\ reused' = {r \in Run : full[r] # None /\ summary[r].pid \in alive}
        /\ passed' = {r \in Run : full[r] # None /\ r \notin Newest}
        /\ full' = [r \in Run |-> Recovered(r, alive)]
        /\ summary' = [r \in Run |->
             IF Interrupted(r, alive) THEN SummaryOf(Recovered(r, alive)) ELSE summary[r]]
  BY DEF Restart
<1>2. pid = None /\ UNCHANGED <<active, cancel, worker, stop, order, stops, asked, late>>
  BY DEF Restart, history
<1>3. ASSUME NEW q \in Run, Interrupted(q, alive)
      PROVE  /\ full'[q] \in Record /\ summary'[q] \in SummaryRecord
             /\ summary'[q].status = "failed"
             /\ worker[q].pc \notin {"new", "ended"}
  <2>1. worker[q].pc # "new" /\ summary[q] # None /\ worker[q].pc # "ended"
    BY <1>3 DEF Interrupted, RunsInv, RunInv, FilesExist, VerdictComesLast, Final
  <2>2. Stored(q) \in Record
    BY <1>3, <2>1, StoredRecord DEF Interrupted
  <2>3. Recovered(q, alive) \in Record /\ Recovered(q, alive).status = "failed"
    BY <1>3, <2>2 DEF Recovered, Record, Final
  <2>4. QED BY <1>1, <1>3, <2>1, <2>3, SummaryFields
<1>4. ASSUME NEW q \in Run, ~Interrupted(q, alive)
      PROVE  full'[q] = full[q] /\ summary'[q] = summary[q]
  BY <1>1, <1>4 DEF Recovered
<1>5. TypeOK'
  <2>1. full' \in [Run -> Record \cup {None}] /\ summary' \in [Run -> SummaryRecord \cup {None}]
    <3>1. \A q \in Run : full'[q] \in Record \cup {None} /\ summary'[q] \in SummaryRecord \cup {None}
      BY <1>3, <1>4 DEF TypeOK
    <3>2. QED BY <1>1, <3>1
  <2>2. restarts' \in 0 .. MaxRestarts
    BY <1>2 DEF Restart, TypeOK, RunsInv
  <2>3. pid' \in Pid /\ reused' \subseteq Run /\ passed' \subseteq Run
    BY <1>1
  <2>4. QED BY <1>2, <2>1, <2>2, <2>3 DEF TypeOK
<1>6. ASSUME NEW q \in Run PROVE RunInv(q)'
  <2>1. RunInv(q) /\ ~Alive(q) /\ pid' # None
    BY <1>1, <1>2 DEF RunsInv, RunInv, FilesExist
  <2>2. CASE Interrupted(q, alive)
    <3>1. full'[q] # None /\ summary'[q] # None
      BY <1>3, <2>2, NoneAssumption
    <3>2. QED
      BY <1>1, <1>2, <1>3, <2>1, <2>2, <3>1
         DEF RunInv, FilesExist, WorkerHolds, VerdictComesLast, CheckpointCarried,
             LateIsPending, DeadIsMarked, HasCopy, Alive, Returned, Final
  <2>3. CASE ~Interrupted(q, alive)
    <3>1. worker[q].pc = "dead" /\ summary[q].status \in {"queued", "running"} =>
            q \in reused' \cup passed'
      BY <1>1, <2>1, <2>3, StoredRecord DEF Interrupted, RunInv, FilesExist
    <3>2. QED
      BY <1>1, <1>2, <1>4, <2>1, <2>3, <3>1
         DEF RunInv, FilesExist, WorkerHolds, VerdictComesLast, CheckpointCarried,
             LateIsPending, DeadIsMarked, HasCopy, Alive, Returned
  <2>4. QED BY <2>2, <2>3
<1>7. StopHolds' /\ pid' # None
  BY <1>1, <1>2 DEF RunsInv, StopHolds
<1>8. QED BY <1>5, <1>6, <1>7 DEF RunsInv

-----------------------------------------------------------------------------
(* The specification.                                                      *)

\* The types and the invariant hold together in every state.
LEMMA RunsInvariant == Spec => [](TypeOK /\ RunsInv)
<1>1. Init => TypeOK /\ RunsInv
  <2> SUFFICES ASSUME Init PROVE TypeOK /\ RunsInv
    OBVIOUS
  <2>1. pid \in Pid
    BY DEF Init
  <2>2. 0 \in 0 .. MaxRestarts /\ 0 \in 0 .. MaxStops /\ NoRequest \in Request
    BY NoRequestType
  <2>3. TypeOK
    BY <2>1, <2>2, NewThreadType DEF Init, TypeOK
  <2>4. RunsInv
    BY <2>1 DEF Init, RunsInv, RunInv, FilesExist, WorkerHolds, VerdictComesLast,
                CheckpointCarried, LateIsPending, DeadIsMarked, StopHolds, HasCopy, Alive,
                Returned, NewThread, NoRequest
  <2>5. QED BY <2>3, <2>4
<1>2. TypeOK /\ RunsInv /\ [Next]_vars => TypeOK' /\ RunsInv'
  <2> SUFFICES ASSUME TypeOK, RunsInv, [Next]_vars PROVE TypeOK' /\ RunsInv'
    OBVIOUS
  <2>1. CASE Next
    BY <2>1, WorkerKeeps, LaunchKeeps, StopKeeps, CrashKeeps, RestartKeeps
       DEF Next, Start, Resume
  <2>2. CASE UNCHANGED vars
    <3>1. TypeOK' /\ StopHolds' /\ UNCHANGED <<pid, restarts>>
      BY <2>2 DEF vars, TypeOK, RunsInv, StopHolds
    <3>2. \A q \in Run : RunInv(q)'
      BY <2>2, UntouchedKeeps DEF vars, RunsInv
    <3>3. QED BY <3>1, <3>2 DEF RunsInv
  <2>3. QED BY <2>1, <2>2
<1>3. QED BY <1>1, <1>2, PTL DEF Spec

\* Every variable has its type: in particular a worker, a stop request or a
\* recovery never computes a record from a file that is not there.
THEOREM TypeCorrect == Spec => []TypeOK
BY RunsInvariant, PTL

\* A run that the store lists as queued or running has a worker, or its worker was
\* broken off outside of its try in this very process; a run that is left from an
\* earlier one has a pid that is in use again, or was not among the newest runs.
THEOREM ListedRunsAreLive == Spec => []RunningIsLive
<1>1. TypeOK /\ RunsInv => RunningIsLive
  <2> SUFFICES ASSUME TypeOK, RunsInv, NEW r \in Run, pid # None, full[r] # None,
                      Stored(r).status \in {"queued", "running"}, ~Alive(r)
               PROVE  \/ worker[r].pc = "broken"
                      \/ worker[r].pc = "dead" /\ r \in reused \cup passed
    BY DEF RunningIsLive
  <2>1. RunInv(r)
    BY DEF RunsInv
  <2>2. Stored(r).status = summary[r].status
    BY DEF Stored, Merged
  <2>3. worker[r].pc \in {"broken", "dead"}
    BY <2>1, <2>2 DEF Alive, RunInv, FilesExist, VerdictComesLast, Final
  <2>4. QED BY <2>1, <2>2, <2>3 DEF RunInv, DeadIsMarked
<1>2. QED BY <1>1, RunsInvariant, PTL

\* Once a stop is requested the worker accepts at most the event that it was
\* about to handle.
THEOREM StopIsPrompt == Spec => []StopsAtNextEvent
<1>1. RunsInv => StopsAtNextEvent
  BY DEF RunsInv, RunInv, LateIsPending, StopsAtNextEvent
<1>2. QED BY <1>1, RunsInvariant, PTL

\* A verdict in the store is only taken back by a stop request that read the
\* record before the run ended: the worker's last write is its verdict, and a
\* recovery looks at unfinished runs only.
THEOREM VerdictsStand == Spec => VerdictStands
<1> DEFINE Back(r) == HasVerdict(r) /\ Stored(r).status # Stored(r)'.status
<1>1. ASSUME TypeOK, RunsInv, [Next]_vars, NEW r \in Run, Back(r)
      PROVE  stop.pc = "summary" /\ stop.run = r
  <2> USE DEF process, history
  <2>1. /\ summary[r].status \in Final /\ full[r] # None
        /\ summary[r].status # summary'[r].status
    BY <1>1 DEF HasVerdict, Stored, Merged
  <2>inv. RunInv(r)
    BY <1>1 DEF RunsInv
  <2>2. worker[r].pc # "new" /\ (Alive(r) => worker[r].pc = "pop")
    BY <2>1, <2>inv DEF RunInv, FilesExist, VerdictComesLast
  <2>3. ASSUME NEW q \in Run, WorkerStep(q) PROVE FALSE
    <3>1. CASE WriteTick(q) \/ WriteSummary(q)
      <4>1. q # r
        BY <2>2, <3>1 DEF WriteTick, WriteSummary, Alive
      <4>2. QED BY <1>1, <2>1, <3>1, <4>1 DEF WriteTick, WriteSummary, TypeOK
    <3>2. CASE UNCHANGED summary
      BY <2>1, <3>2
    <3>3. QED
      BY <2>3, <3>1, <3>2
         DEF WorkerStep, Begin, CheckBeforeStart, NextEvent, Emit, Progress, Checkpoint,
             WriteFile, SetActive, Return, ClearRequest, LoadForEnd, Pop
  <2>9. ASSUME NEW q \in Run, Breaks(q) \/ WriteFails(q) PROVE FALSE
    BY <2>1, <2>9 DEF Breaks, WriteFails
  <2>4. ASSUME NEW q \in Run, Launch(q) PROVE FALSE
    BY <1>1, <2>1, <2>2, <2>4 DEF Launch, TypeOK
  <2>5. CASE StopWritesSummary
    BY <1>1, <2>1, <2>5 DEF StopWritesSummary, TypeOK
  <2>6. CASE Restart
    <3>1. \A alive \in SUBSET Pid : ~Interrupted(r, alive)
      BY <2>1 DEF Interrupted, Final
    <3>2. summary'[r] = summary[r]
      BY <1>1, <2>6, <3>1 DEF Restart
    <3>3. QED BY <2>1, <3>2
  <2>7. summary' # summary
    BY <2>1
  <2>8. QED
    BY <1>1, <2>3, <2>9, <2>4, <2>5, <2>6, <2>7
       DEF Next, Start, Resume, StopReadsFile, StopStep, StopReadsSummary, StopSetsFlag,
           StopWritesFile, StopSetsActive, Crash, vars
<1>2. TypeOK /\ RunsInv /\ [Next]_vars =>
        [\A r \in Run :
           /\ HasVerdict(r) /\ Stored(r).status # Stored(r)'.status
           => stop.pc = "summary" /\ stop.run = r]_vars
  BY <1>1
<1>3. QED
  BY <1>2, RunsInvariant, PTL DEF Spec, VerdictStands

\* A checkpoint that reached the store stays there; only a stop request may
\* lose it, whose copy may be older than the checkpoint.
THEOREM CheckpointsAreKept == Spec => CheckpointIsKept
<1> DEFINE Has(r) == full[r] # None /\ full[r].ckpt /\ r \notin asked
<1>1. ASSUME TypeOK, RunsInv, [Next]_vars, NEW r \in Run, Has(r)
      PROVE  full'[r].ckpt
  <2> USE DEF process, history
  <2>inv. RunInv(r)
    BY <1>1 DEF RunsInv
  <2>1. worker[r].pc # "new"
    BY <1>1, <2>inv DEF RunInv, FilesExist
  <2>2. CASE full' = full
    BY <1>1, <2>2
  <2>3. ASSUME NEW q \in Run, WriteFile(q) PROVE full'[r].ckpt
    <3>1. CASE q = r
      <4>1. worker[r].pc = "write" /\ full'[r] = worker[r].run
        BY <1>1, <2>3, <3>1 DEF WriteFile, TypeOK
      <4>2. QED
        BY <1>1, <2>inv, <4>1 DEF RunInv, CheckpointCarried, HasCopy, Alive
    <3>2. CASE q # r
      BY <1>1, <2>3, <3>2 DEF WriteFile, TypeOK
    <3>3. QED BY <3>1, <3>2
  <2>4. ASSUME NEW q \in Run, Launch(q) PROVE full'[r].ckpt
    BY <1>1, <2>1, <2>4 DEF Launch, TypeOK
  <2>5. CASE StopWritesFile
    BY <1>1, <2>5 DEF StopWritesFile, TypeOK, RunsInv, StopHolds
  <2>6. CASE Restart
    <3>1. PICK alive \in SUBSET Pid : full'[r] = Recovered(r, alive)
      BY <1>1, <2>6 DEF Restart
    <3>2. Stored(r) \in Record /\ Stored(r).ckpt = full[r].ckpt
      BY <1>1, <2>1, <2>inv, StoredRecord DEF RunInv, FilesExist
    <3>3. QED BY <1>1, <3>1, <3>2 DEF Recovered, Record
  <2>7. ASSUME NEW q \in Run, WorkerStep(q) PROVE WriteFile(q) \/ full' = full
    BY <2>7
       DEF WorkerStep, Begin, CheckBeforeStart, NextEvent, Emit, Progress, WriteTick,
           Checkpoint, WriteSummary, SetActive, Return, ClearRequest, LoadForEnd, Pop
  <2>8. QED
    BY <1>1, <2>2, <2>3, <2>4, <2>5, <2>6, <2>7
       DEF Next, Start, Resume, StopReadsFile, StopStep, StopReadsSummary, StopSetsFlag,
           StopWritesSummary, StopSetsActive, Crash, Breaks, WriteFails, vars
<1>2. TypeOK /\ RunsInv /\ [Next]_vars =>
        [\A r \in Run :
           /\ full[r] # None /\ full[r].ckpt /\ r \notin asked
           => full'[r].ckpt]_vars
  BY <1>1
<1>3. QED
  BY <1>2, RunsInvariant, PTL DEF Spec, CheckpointIsKept
=============================================================================
