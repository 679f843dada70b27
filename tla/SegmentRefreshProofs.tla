------------------------ MODULE SegmentRefreshProofs ------------------------
(***************************************************************************)
(* Proofs about SegmentRefresh, for every set of segments, workers and     *)
(* handlers and every bound.  The inductive invariant joins the lock of    *)
(* the queue (who may be refreshing a segment) with what each step of a    *)
(* refresh knows about the rows in place.                                  *)
(***************************************************************************)
EXTENDS SegmentRefresh, TLAPS

-----------------------------------------------------------------------------
(* Updates of one record stay within its type.                             *)

\* The updates the actions make keep a row a row.
LEMMA RowUpdates ==
  ASSUME NEW r \in Rows, NEW v \in Versions, NEW st \in Statuses
  PROVE  /\ [r EXCEPT !.status = st, !.definition = v] \in Rows
         /\ [r EXCEPT !.status = st, !.definition = v, !.refreshedAt = "never"] \in Rows
BY DEF Rows

\* No job is a job record ...
LEMMA NoJobType == NoJob \in Jobs
  BY BoundsAssumption DEF Jobs, NoJob

\* ... and an idle worker a worker record.
LEMMA IdleType == Idle \in WorkerStates
  BY BoundsAssumption DEF WorkerStates, Idle, Versions

-----------------------------------------------------------------------------
\* Initially every variable has its type.
LEMMA TypeInit == Init => TypeOK
  BY BoundsAssumption
  DEF Init, TypeOK, Rows, Jobs, WorkerStates, NoRow, NoJob, Idle, Versions, Statuses, RefreshSteps

\* A step gives one worker a new record.
LEMMA WorkerMoves ==
  ASSUME TypeOK, NEW w \in Workers, NEW k \in WorkerStates,
         k.pc \in RefreshSteps => k.seg \in Segments,
         worker' = [worker EXCEPT ![w] = k]
  PROVE  /\ worker' \in [Workers -> WorkerStates]
         /\ \A v \in Workers : worker'[v].pc \in RefreshSteps => worker'[v].seg \in Segments
BY DEF TypeOK

\* add() leaves jobs behind.
LEMMA AddJobType ==
  ASSUME TypeOK, NEW s \in Segments, AddJob(s)
  PROVE  job' \in [Segments -> Jobs]
<1>1. [job[s] EXCEPT !.state = "waiting"] \in Jobs
  BY DEF TypeOK, Jobs
<1> QED BY <1>1 DEF AddJob, TypeOK

\* The number of faults stays within its bound.
LEMMA FaultType == TypeOK /\ Fault => faults' \in 0..MaxFaults
  BY BoundsAssumption DEF Fault, TypeOK

\* What TypeOK says of one row, one job and one worker.
LEMMA FieldTypes ==
  ASSUME TypeOK
  PROVE  /\ \A s \in Segments :
              /\ segment[s] \in Rows /\ job[s] \in Jobs
              /\ segment[s].definition \in Versions
              /\ Exists(s) => segment[s].status \in Statuses
              /\ segment[s].definition < MaxVersion => segment[s].definition + 1 \in Versions
         /\ \A w \in Workers :
              /\ worker[w] \in WorkerStates
              /\ worker[w].snap \in Versions
              /\ worker[w].due \subseteq Segments
<1>1. ASSUME NEW s \in Segments
      PROVE  /\ segment[s] \in Rows /\ job[s] \in Jobs
             /\ segment[s].definition \in Versions
             /\ Exists(s) => segment[s].status \in Statuses
  BY DEF TypeOK, Rows, Exists
<1>2. ASSUME NEW s \in Segments, segment[s].definition < MaxVersion
      PROVE  segment[s].definition + 1 \in Versions
  BY <1>1, <1>2, BoundsAssumption DEF Versions
<1>3. ASSUME NEW w \in Workers
      PROVE  worker[w] \in WorkerStates /\ worker[w].snap \in Versions
             /\ worker[w].due \subseteq Segments
  BY DEF TypeOK, WorkerStates
<1> QED BY <1>1, <1>2, <1>3

\* The HTTP handlers keep the types ...
LEMMA HandlerTypes ==
  ASSUME TypeOK, NEW h \in Handlers, NEW s \in Segments,
         Create(h, s) \/ Edit(h, s) \/ ManualRefresh(h, s)
  PROVE  TypeOK'
<1>1. CASE Create(h, s)
  <2>1. 1 \in Versions /\ "active" \in Statuses
    BY <1>1, BoundsAssumption DEF Create, Versions, Statuses
  <2>2. [segment[s] EXCEPT !.status = "active", !.definition = 1] \in Rows
    BY <2>1, FieldTypes, RowUpdates
  <2> QED BY <1>1, <2>2 DEF Create, TypeOK
<1>2. CASE Edit(h, s)
  <2>1. PICK status \in {segment[s].status, "active", "paused"} :
           segment' = [segment EXCEPT ![s] = [@ EXCEPT !.status = status,
                                                       !.definition = segment[s].definition + 1,
                                                       !.refreshedAt = "never"]]
    BY <1>2 DEF Edit
  <2>2. status \in Statuses /\ segment[s].definition + 1 \in Versions
    BY <1>2, <2>1, FieldTypes DEF Edit, Statuses
  <2> DEFINE r ==  [segment[s] EXCEPT !.status = status, !.definition = segment[s].definition + 1,
                                 !.refreshedAt = "never"]
  <2>3. r \in Rows
    BY <2>2, FieldTypes, RowUpdates
  <2>4. segment' = [segment EXCEPT ![s] = r]
    BY <2>1
  <2> HIDE DEF r
  <2>5. segment' \in [Segments -> Rows]
    BY <2>3, <2>4 DEF TypeOK
  <2> QED BY <1>2, <2>5 DEF Edit, TypeOK
<1>3. CASE ManualRefresh(h, s)
  BY <1>3 DEF ManualRefresh, TypeOK
<1> QED BY <1>1, <1>2, <1>3

\* ... so do their calls of the queue ...
LEMMA EnqueueTypes ==
  ASSUME TypeOK, NEW h \in Handlers, Enqueue(h) \/ EnqueueFails(h)
  PROVE  TypeOK'
<1>1. CASE Enqueue(h)
  <2>1. request[h] \in Segments /\ AddJob(request[h])
    BY <1>1 DEF Enqueue, TypeOK
  <2> QED BY <1>1, <2>1, AddJobType DEF Enqueue, TypeOK
<1>2. CASE EnqueueFails(h)
  BY <1>2, FaultType DEF EnqueueFails, TypeOK
<1> QED BY <1>1, <1>2

\* ... the steps that concern one segment alone ...
LEMMA SegmentTypes ==
  ASSUME TypeOK, NEW s \in Segments,
         \/ SetStatus(s) \/ Archive(s) \/ Seed(s) \/ IntervalElapses(s)
         \/ StalledCheck(s) \/ LockExpires(s)
  PROVE  TypeOK'
<1>1. CASE SetStatus(s)
  <2>1. PICK status \in {segment[s].status, "active", "paused"}, at \in Restamped(s) :
           segment' = [segment EXCEPT ![s] = [@ EXCEPT !.status = status, !.refreshedAt = at]]
    BY <1>1 DEF SetStatus
  <2>2. [segment[s] EXCEPT !.status = status, !.refreshedAt = at] \in Rows
    BY FieldTypes DEF Rows, Statuses, Restamped
  <2>3. segment' \in [Segments -> Rows]
    BY <2>1, <2>2 DEF TypeOK
  <2> QED BY <1>1, <2>3 DEF SetStatus, TypeOK
<1>2. CASE Archive(s)
  <2>1. [segment[s] EXCEPT !.status = "archived"] \in Rows /\ 0 \in Versions
    BY FieldTypes, BoundsAssumption DEF Rows, Statuses, Versions
  <2> QED BY <1>2, <2>1 DEF Archive, TypeOK
<1>3. CASE Seed(s)
  <2>1. PICK status \in IF Exists(s) THEN {segment[s].status} ELSE {"active", "paused"},
                at \in Restamped(s) :
           segment' = [segment EXCEPT ![s] = [@ EXCEPT !.status = status, !.refreshedAt = at,
                                                       !.definition = segment[s].definition + 1]]
    BY <1>3 DEF Seed
  <2>2. status \in Statuses /\ segment[s].definition + 1 \in Versions
    BY <1>3, <2>1, FieldTypes DEF Seed, Statuses
  <2> DEFINE r ==  [segment[s] EXCEPT !.status = status, !.refreshedAt = at,
                                 !.definition = segment[s].definition + 1]
  <2>3. r \in Rows
    BY <2>2, FieldTypes DEF Rows, Restamped
  <2>4. segment' = [segment EXCEPT ![s] = r]
    BY <2>1
  <2> HIDE DEF r
  <2>5. segment' \in [Segments -> Rows]
    BY <2>3, <2>4 DEF TypeOK
  <2> QED BY <1>3, <2>5 DEF Seed, TypeOK
<1>4. CASE IntervalElapses(s)
  <2>1. [segment[s] EXCEPT !.refreshedAt = "elapsed"] \in Rows
    BY FieldTypes DEF Rows
  <2> QED BY <1>4, <2>1 DEF IntervalElapses, TypeOK
<1>5. CASE StalledCheck(s)
  <2>1. /\ NoJob \in Jobs
        /\ job[s].stalls < MaxStalls =>
             [job[s] EXCEPT !.state = "waiting", !.stalls = job[s].stalls + 1] \in Jobs
    <3>1. job[s].stalls < MaxStalls => job[s].stalls + 1 \in 0..MaxStalls
      BY FieldTypes, BoundsAssumption DEF Jobs
    <3> QED BY <3>1, NoJobType, FieldTypes DEF Jobs
  <2>2. job' \in [Segments -> Jobs]
    <3>1. CASE job[s].stalls < MaxStalls
      <4> DEFINE j == [job[s] EXCEPT !.state = "waiting", !.stalls = job[s].stalls + 1]
      <4>1. job' = [job EXCEPT ![s] = j] /\ j \in Jobs
        BY <1>5, <2>1, <3>1 DEF StalledCheck
      <4> HIDE DEF j
      <4> QED BY <4>1 DEF TypeOK
    <3>2. CASE ~(job[s].stalls < MaxStalls)
      BY <1>5, <2>1, <3>2 DEF StalledCheck, TypeOK
    <3> QED BY <3>1, <3>2
  <2> QED BY <1>5, <2>2 DEF StalledCheck, TypeOK
<1>6. CASE LockExpires(s)
  <2>1. [job[s] EXCEPT !.owner = NoWorker] \in Jobs
    BY FieldTypes DEF Jobs
  <2> QED BY <1>6, <2>1, FaultType DEF LockExpires, TypeOK
<1> QED BY <1>1, <1>2, <1>3, <1>4, <1>5, <1>6

\* ... the start and the death of a worker ...
LEMMA DispatchTypes ==
  ASSUME TypeOK, NEW w \in Workers, StartDispatch(w) \/ Crash(w)
  PROVE  TypeOK'
<1>1. CASE StartDispatch(w)
  <2> DEFINE k == [worker[w] EXCEPT !.pc = "dispatch", !.due = {t \in Segments : Due(t)}]
  <2>1. k \in WorkerStates /\ k.pc \notin RefreshSteps
    BY FieldTypes DEF WorkerStates, RefreshSteps
  <2>2. worker' = [worker EXCEPT ![w] = k]
    BY <1>1 DEF StartDispatch
  <2> QED BY <1>1, <2>1, <2>2, WorkerMoves DEF StartDispatch, TypeOK
<1>2. CASE Crash(w)
  <2>1. \A t \in Segments : [job[t] EXCEPT !.owner = NoWorker] \in Jobs
    BY FieldTypes DEF Jobs
  <2>2. job' \in [Segments -> Jobs]
    BY <1>2, <2>1, FieldTypes DEF Crash
  <2>3. Idle \in WorkerStates /\ Idle.pc \notin RefreshSteps
    BY IdleType DEF Idle, RefreshSteps
  <2> QED BY <1>2, <2>2, <2>3, WorkerMoves, FaultType DEF Crash, TypeOK
<1> QED BY <1>1, <1>2

\* ... the hand-over of a job ...
LEMMA QueueTypes ==
  ASSUME TypeOK, NEW w \in Workers, NEW s \in Segments, DispatchAdd(w, s) \/ Take(w, s)
  PROVE  TypeOK'
<1>1. CASE DispatchAdd(w, s)
  <2> DEFINE k == IF worker[w].due = {s} THEN Idle
                  ELSE [worker[w] EXCEPT !.due = worker[w].due \ {s}]
  <2>1. k \in WorkerStates /\ k.pc \notin RefreshSteps
    <3>1. Idle \in WorkerStates /\ Idle.pc \notin RefreshSteps
      BY IdleType DEF Idle, RefreshSteps
    <3>2. worker[w].due \ {s} \in SUBSET Segments
      BY FieldTypes
    <3>3. [worker[w] EXCEPT !.due = worker[w].due \ {s}] \in WorkerStates
      BY <3>2, FieldTypes DEF WorkerStates
    <3> QED BY <1>1, <3>1, <3>3, FieldTypes DEF DispatchAdd, RefreshSteps, WorkerStates
  <2>2. worker' = [worker EXCEPT ![w] = k]
    BY <1>1, Zenon DEF DispatchAdd
  <2>3. job' \in [Segments -> Jobs]
    BY <1>1, AddJobType DEF DispatchAdd
  <2> HIDE DEF k
  <2> QED BY <1>1, <2>1, <2>2, <2>3, WorkerMoves DEF DispatchAdd, TypeOK
<1>2. CASE Take(w, s)
  <2> DEFINE k == [worker[w] EXCEPT !.pc = "load", !.seg = s]
  <2>1. k \in WorkerStates /\ k.seg \in Segments
    BY FieldTypes DEF WorkerStates, RefreshSteps
  <2>2. worker' = [worker EXCEPT ![w] = k]
    BY <1>2 DEF Take
  <2>3. [job[s] EXCEPT !.state = "active", !.owner = w] \in Jobs
    BY FieldTypes DEF Jobs
  <2>4. job' \in [Segments -> Jobs]
    BY <1>2, <2>3 DEF Take, TypeOK
  <2> HIDE DEF k
  <2> QED BY <1>2, <2>1, <2>2, <2>4, WorkerMoves DEF Take, TypeOK
<1> QED BY <1>1, <1>2

\* ... and every step of a refresh.
LEMMA RefreshTypes ==
  ASSUME TypeOK, NEW w \in Workers, RefreshStep(w)
  PROVE  TypeOK'
<1> DEFINE s == worker[w].seg
           At(p) == [worker[w] EXCEPT !.pc = p]
<1>1. s \in Segments
  BY DEF TypeOK, RefreshStep, RefreshSteps, Load, LoadFails, Rebuild, RebuildFails, Book,
         BookFails, Record, RecordFails, Complete, Fail
<1>2. ASSUME NEW p \in RefreshSteps
      PROVE  At(p) \in WorkerStates /\ At(p).seg \in Segments
  BY <1>1, FieldTypes DEF WorkerStates
<1>3. {"load", "rebuild", "book", "record", "done", "failed"} \subseteq RefreshSteps
  BY DEF RefreshSteps
<1>4. Idle \in WorkerStates /\ Idle.pc \notin RefreshSteps
  BY IdleType DEF Idle, RefreshSteps
<1>5. CASE Load(w)
  <2> DEFINE k == IF segment[s].status = "active"
                  THEN [worker[w] EXCEPT !.pc = "rebuild", !.snap = segment[s].definition]
                  ELSE At("done")
  <2>1. k \in WorkerStates /\ k.seg \in Segments
    <3>1. segment[s].definition \in Versions
      BY <1>1, FieldTypes
    <3>2. [worker[w] EXCEPT !.pc = "rebuild", !.snap = segment[s].definition] \in WorkerStates
      BY <3>1, FieldTypes DEF WorkerStates, RefreshSteps
    <3> QED BY <3>2, <1>1, <1>2, <1>3, FieldTypes DEF WorkerStates
  <2>2. worker' = [worker EXCEPT ![w] = k]
    BY <1>5 DEF Load
  <2> HIDE DEF k
  <2> QED BY <1>5, <2>1, <2>2, WorkerMoves DEF Load, TypeOK
<1>6. CASE LoadFails(w)
  <2>1. worker' = [worker EXCEPT ![w] = At("failed")]
    BY <1>6 DEF LoadFails
  <2> QED BY <1>6, <2>1, <1>2, <1>3, WorkerMoves, FaultType DEF LoadFails, TypeOK
<1>7. CASE Rebuild(w)
  <2>1. worker' = [worker EXCEPT ![w] = At("book")]
    BY <1>7 DEF Rebuild
  <2>2. membership' \in [Segments -> Versions]
    BY <1>7, FieldTypes DEF Rebuild, TypeOK
  <2> QED BY <1>7, <2>1, <2>2, <1>2, <1>3, WorkerMoves DEF Rebuild, TypeOK
<1>8. CASE RebuildFails(w)
  <2>1. worker' = [worker EXCEPT ![w] = At("record")]
    BY <1>8 DEF RebuildFails
  <2>2. faults' \in 0..MaxFaults
    BY <1>8, FaultType DEF RebuildFails, TypeOK
  <2> QED BY <1>8, <2>1, <2>2, <1>2, <1>3, WorkerMoves DEF RebuildFails, TypeOK
<1>9. CASE Book(w)
  <2>1. worker' = [worker EXCEPT ![w] = At("done")]
    BY <1>9 DEF Book
  <2>2. [segment[s] EXCEPT !.lastCount = worker[w].snap, !.refreshedAt = "fresh",
                           !.lastError = FALSE] \in Rows
    BY <1>1, FieldTypes DEF Rows
  <2>3. segment' \in [Segments -> Rows]
    BY <1>9, <2>2 DEF Book, TypeOK
  <2> QED BY <1>9, <2>1, <2>3, <1>2, <1>3, WorkerMoves DEF Book, TypeOK
<1>10. CASE BookFails(w)
  <2>1. worker' = [worker EXCEPT ![w] = At("record")]
    BY <1>10 DEF BookFails
  <2> QED BY <1>10, <2>1, <1>2, <1>3, WorkerMoves, FaultType DEF BookFails, TypeOK
<1>11. CASE Record(w)
  <2>1. worker' = [worker EXCEPT ![w] = At("failed")]
    BY <1>11 DEF Record
  <2>2. [segment[s] EXCEPT !.lastError = TRUE] \in Rows
    BY <1>1, FieldTypes DEF Rows
  <2>3. segment' \in [Segments -> Rows]
    BY <1>11, <2>2 DEF Record, TypeOK
  <2> QED BY <1>11, <2>1, <2>3, <1>2, <1>3, WorkerMoves DEF Record, TypeOK
<1>12. CASE RecordFails(w)
  <2>1. worker' = [worker EXCEPT ![w] = At("failed")]
    BY <1>12 DEF RecordFails
  <2> QED BY <1>12, <2>1, <1>2, <1>3, WorkerMoves, FaultType DEF RecordFails, TypeOK
<1>13. CASE Complete(w)
  <2>1. job' \in [Segments -> Jobs]
    BY <1>13, NoJobType DEF Complete, JobCompleted, TypeOK
  <2> QED BY <1>13, <2>1, <1>4, WorkerMoves DEF Complete, TypeOK
<1>14. CASE Fail(w)
  <2>1. job[s].attempts + 1 # MaxAttempts =>
          [job[s] EXCEPT !.state = "waiting", !.owner = NoWorker, !.attempts = job[s].attempts + 1] \in Jobs
    <3>1. job[s].attempts + 1 # MaxAttempts => job[s].attempts + 1 \in 0..(MaxAttempts - 1)
      BY <1>1, FieldTypes, BoundsAssumption DEF Jobs
    <3> QED BY <1>1, <3>1, FieldTypes DEF Jobs
  <2>2. job' \in [Segments -> Jobs]
    <3> DEFINE j == [job[s] EXCEPT !.state = "waiting", !.owner = NoWorker, !.attempts = job[s].attempts + 1]
    <3>1. \/ job' = job
          \/ job' = [job EXCEPT ![s] = NoJob]
          \/ job[s].attempts + 1 # MaxAttempts /\ job' = [job EXCEPT ![s] = j]
      BY <1>14 DEF Fail, JobFailed
    <3>2. job[s].attempts + 1 # MaxAttempts => j \in Jobs
      BY <2>1
    <3> HIDE DEF j
    <3> QED BY <3>1, <3>2, NoJobType DEF TypeOK
  <2> QED BY <1>14, <2>2, <1>4, WorkerMoves DEF Fail, TypeOK
<1> QED
  BY <1>5, <1>6, <1>7, <1>8, <1>9, <1>10, <1>11, <1>12, <1>13, <1>14 DEF RefreshStep

\* TypeOK is inductive.
LEMMA TypeStep == TypeOK /\ [Next]_vars => TypeOK'
<1>1. CASE UNCHANGED vars
  BY <1>1 DEF vars, TypeOK
<1>2. CASE Next
  <2>1. CASE \E h \in Handlers, s \in Segments : Create(h, s) \/ Edit(h, s) \/ ManualRefresh(h, s)
    BY <2>1, HandlerTypes
  <2>2. CASE \E h \in Handlers : Enqueue(h) \/ EnqueueFails(h)
    BY <2>2, EnqueueTypes
  <2>3. CASE \E s \in Segments : \/ SetStatus(s) \/ Archive(s) \/ Seed(s) \/ IntervalElapses(s)
                                \/ StalledCheck(s) \/ LockExpires(s)
    BY <2>3, SegmentTypes
  <2>4. CASE \E w \in Workers : StartDispatch(w) \/ WorkerStep(w) \/ Crash(w)
    BY <2>4, DispatchTypes, QueueTypes, RefreshTypes DEF WorkerStep
  <2>5. CASE \E w \in Workers, s \in Segments : Take(w, s)
    BY <2>5, QueueTypes
  <2> QED BY <1>2, <2>1, <2>2, <2>3, <2>4, <2>5 DEF Next
<1> QED BY <1>1, <1>2

\* Every row, job and worker record stays within its type: in particular a job
\* never has more attempts or stalls behind it than its options allow.
THEOREM TypeCorrect == Spec => []TypeOK
  BY TypeInit, TypeStep, PTL DEF Spec

-----------------------------------------------------------------------------
(* The lock.                                                               *)

\* Initially nothing is stored, queued or running.
LEMMA InvInit == Init => IInv
<1> SUFFICES ASSUME Init PROVE IInv
  OBVIOUS
<1>1. \A w \in Workers : worker[w].pc = "idle"
  BY DEF Init, Idle
<1>2. \A s \in Segments : membership[s] <= segment[s].definition /\ segment[s].definition = 0
  BY DEF Init, NoRow
<1> QED
  BY <1>1, <1>2, TypeInit DEF IInv, LockHeld, Refreshing, RefreshSteps,
                              MembersOfKnownDefinition, SnapshotBetween, AbsentRows

\* What a step of a refresh does to its worker: it stays with its segment, or
\* hands the job back and becomes idle.
LEMMA RefreshStepEffect ==
  ASSUME TypeOK, NEW w \in Workers, RefreshStep(w)
  PROVE  /\ worker[w].pc \in RefreshSteps /\ worker[w].seg \in Segments
         /\ \A v \in Workers \ {w} : worker'[v] = worker[v]
         /\ expired' = expired
         /\ \/ job' = job /\ worker'[w].seg = worker[w].seg
            \/ worker'[w] = Idle /\ (JobCompleted(w) \/ JobFailed(w))
<1>1. worker[w].pc \in RefreshSteps /\ worker[w].seg \in Segments
  BY DEF TypeOK, RefreshStep, RefreshSteps, Load, LoadFails, Rebuild, RebuildFails, Book,
         BookFails, Record, RecordFails, Complete, Fail
<1>2. CASE Load(w)
  BY <1>1, <1>2 DEF Load, TypeOK, WorkerStates
<1>3. CASE LoadFails(w) \/ Rebuild(w) \/ RebuildFails(w) \/ Book(w) \/ BookFails(w)
           \/ Record(w) \/ RecordFails(w)
  BY <1>1, <1>3 DEF LoadFails, Rebuild, RebuildFails, Book, BookFails, Record, RecordFails,
                    TypeOK, WorkerStates
<1>4. CASE Complete(w) \/ Fail(w)
  BY <1>1, <1>4 DEF Complete, Fail, TypeOK
<1> QED BY <1>2, <1>3, <1>4 DEF RefreshStep

\* LockHeld is inductive: a job leaves its holder only when the holder is done
\* with it, has died, or has lost the lock and so made the segment "expired".
LEMMA LockStep ==
  ASSUME TypeOK, LockHeld, [Next]_vars
  PROVE  LockHeld'
<1> SUFFICES ASSUME NEW v \in Workers, NEW t \in Segments \ expired', Refreshing(v, t)'
             PROVE  job'[t].state = "active" /\ job'[t].owner = v
  BY DEF LockHeld
<1>0. ASSUME Refreshing(v, t), expired \subseteq expired'
      PROVE  job[t].state = "active" /\ job[t].owner = v
  BY <1>0 DEF LockHeld
<1>1. ASSUME NEW h \in Handlers, NEW s \in Segments,
             Create(h, s) \/ Edit(h, s) \/ ManualRefresh(h, s)
      PROVE  job'[t].state = "active" /\ job'[t].owner = v
  BY <1>0, <1>1 DEF Create, Edit, ManualRefresh, Refreshing
<1>2. ASSUME NEW h \in Handlers, Enqueue(h) \/ EnqueueFails(h)
      PROVE  job'[t].state = "active" /\ job'[t].owner = v
  BY <1>0, <1>2 DEF Enqueue, EnqueueFails, AddJob, Refreshing, TypeOK
<1>3. ASSUME NEW s \in Segments,
             SetStatus(s) \/ Archive(s) \/ Seed(s) \/ IntervalElapses(s)
      PROVE  job'[t].state = "active" /\ job'[t].owner = v
  BY <1>0, <1>3 DEF SetStatus, Archive, Seed, IntervalElapses, Refreshing
<1>4. ASSUME NEW s \in Segments, StalledCheck(s) \/ LockExpires(s)
      PROVE  job'[t].state = "active" /\ job'[t].owner = v
  BY <1>0, <1>4, SegmentsAssumption DEF StalledCheck, LockExpires, Refreshing, TypeOK
<1>5. ASSUME NEW w \in Workers, StartDispatch(w)
      PROVE  job'[t].state = "active" /\ job'[t].owner = v
  <2>1. v # w
    BY <1>5 DEF StartDispatch, Refreshing, RefreshSteps, TypeOK, WorkerStates
  <2> QED BY <1>0, <1>5, <2>1 DEF StartDispatch, Refreshing, TypeOK
<1>6. ASSUME NEW w \in Workers, NEW s \in Segments, DispatchAdd(w, s)
      PROVE  job'[t].state = "active" /\ job'[t].owner = v
  <2>1. v # w
    <3>1. worker'[w].pc \in {"idle", "dispatch"}
      BY <1>6 DEF DispatchAdd, Idle, TypeOK, WorkerStates
    <3> QED BY <3>1 DEF Refreshing, RefreshSteps
  <2> QED BY <1>0, <1>6, <2>1 DEF DispatchAdd, AddJob, Refreshing, TypeOK
<1>7. ASSUME NEW w \in Workers, RefreshStep(w)
      PROVE  job'[t].state = "active" /\ job'[t].owner = v
  <2>1. CASE job' = job /\ worker'[w].seg = worker[w].seg
    <3>1. Refreshing(v, t)
      BY <1>7, <2>1, RefreshStepEffect DEF Refreshing
    <3> QED BY <1>0, <1>7, <2>1, <3>1, RefreshStepEffect
  <2>2. CASE worker'[w] = Idle /\ (JobCompleted(w) \/ JobFailed(w))
    <3>1. v # w /\ Refreshing(v, t)
      BY <1>7, <2>2, RefreshStepEffect DEF Refreshing, Idle, RefreshSteps
    <3>2. job[t].state = "active" /\ job[t].owner = v
      BY <1>0, <1>7, <3>1, RefreshStepEffect
    <3>3. job'[t] = job[t]
      BY <2>2, <3>1, <3>2 DEF JobCompleted, JobFailed, TypeOK
    <3> QED BY <3>2, <3>3
  <2> QED BY <1>7, <2>1, <2>2, RefreshStepEffect
<1>8. ASSUME NEW w \in Workers, Crash(w)
      PROVE  job'[t].state = "active" /\ job'[t].owner = v
  <2>1. v # w /\ Refreshing(v, t)
    BY <1>8 DEF Crash, Refreshing, Idle, RefreshSteps, TypeOK
  <2>2. job[t].state = "active" /\ job[t].owner = v
    BY <1>0, <1>8, <2>1 DEF Crash
  <2> QED BY <1>8, <2>1, <2>2 DEF Crash
<1>9. ASSUME NEW w \in Workers, NEW s \in Segments, Take(w, s)
      PROVE  job'[t].state = "active" /\ job'[t].owner = v
  <2>1. CASE v = w
    <3>1. t = s
      BY <1>9, <2>1 DEF Take, Refreshing, TypeOK, WorkerStates
    <3> QED BY <1>9, <2>1, <3>1 DEF Take, TypeOK, Jobs
  <2>2. CASE v # w
    <3>1. job[t].state = "active" /\ job[t].owner = v
      BY <1>0, <1>9, <2>2 DEF Take, Refreshing, TypeOK
    <3> QED BY <1>9, <3>1 DEF Take, TypeOK
  <2> QED BY <2>1, <2>2
<1>10. CASE UNCHANGED vars
  BY <1>0, <1>10 DEF vars, Refreshing
<1> QED
  BY <1>1, <1>2, <1>3, <1>4, <1>5, <1>6, <1>7, <1>8, <1>9, <1>10 DEF Next, WorkerStep

-----------------------------------------------------------------------------
(* The versions.  Each lemma names the only steps that change something.    *)

\* A segment whose lock has expired once stays marked.
LEMMA ExpiredGrows == [Next]_vars => expired \subseteq expired'
  BY DEF Next, WorkerStep, RefreshStep, Create, Edit, ManualRefresh, Enqueue, EnqueueFails,
         SetStatus, Archive, Seed, IntervalElapses, StalledCheck, LockExpires, StartDispatch,
         DispatchAdd, Load, LoadFails, Rebuild, RebuildFails, Book, BookFails, Record,
         RecordFails, Complete, Fail, Crash, Take, vars

\* Definitions are only ever replaced by newer ones.
LEMMA DefinitionGrows ==
  ASSUME TypeOK, AbsentRows, [Next]_vars, NEW s \in Segments
  PROVE  /\ segment'[s].definition >= segment[s].definition
         /\ segment'[s].status = "absent" =>
              segment[s].status = "absent" /\ segment'[s].definition = segment[s].definition
<1> DEFINE Grows == /\ segment'[s].definition >= segment[s].definition
                    /\ segment'[s].status = "absent" =>
                         /\ segment[s].status = "absent"
                         /\ segment'[s].definition = segment[s].definition
<1>1. segment[s].definition \in Nat /\ segment[s] \in Rows
  BY FieldTypes, BoundsAssumption DEF Versions
<1>2. ASSUME segment'[s].definition = segment[s].definition,
             segment'[s].status = "absent" => segment[s].status = "absent"
      PROVE  Grows
  BY <1>1, <1>2
<1>3. ASSUME NEW h \in Handlers, NEW r \in Segments,
             Create(h, r) \/ Edit(h, r) \/ ManualRefresh(h, r)
      PROVE  Grows
  <2>1. CASE Create(h, r)
    <3>1. segment[r].definition = 0
      BY <2>1 DEF Create, AbsentRows
    <3> QED BY <1>1, <2>1, <3>1 DEF Create, TypeOK, Rows
  <2>2. CASE Edit(h, r)
    <3>1. PICK status \in {segment[r].status, "active", "paused"} :
             segment' = [segment EXCEPT ![r] = [@ EXCEPT !.status = status,
                                                         !.definition = segment[r].definition + 1,
                                                         !.refreshedAt = "never"]]
      BY <2>2 DEF Edit
    <3>2. CASE s = r
      <4>1. status # "absent"
        BY <2>2 DEF Edit, Exists
      <4> QED BY <1>1, <3>1, <3>2, <4>1 DEF TypeOK, Rows
    <3>3. CASE s # r
      BY <1>1, <1>2, <3>1, <3>3 DEF TypeOK
    <3> QED BY <3>2, <3>3
  <2>3. CASE ManualRefresh(h, r)
    BY <1>2, <2>3 DEF ManualRefresh
  <2> QED BY <1>3, <2>1, <2>2, <2>3
<1>4. ASSUME NEW h \in Handlers, Enqueue(h) \/ EnqueueFails(h)
      PROVE  Grows
  BY <1>2, <1>4 DEF Enqueue, EnqueueFails
<1>5. ASSUME NEW r \in Segments,
             \/ SetStatus(r) \/ Archive(r) \/ IntervalElapses(r)
             \/ StalledCheck(r) \/ LockExpires(r)
      PROVE  Grows
  <2>1. CASE SetStatus(r)
    <3>1. PICK status \in {segment[r].status, "active", "paused"}, at \in Restamped(r) :
             segment' = [segment EXCEPT ![r] = [@ EXCEPT !.status = status, !.refreshedAt = at]]
      BY <2>1 DEF SetStatus
    <3>2. status # "absent"
      BY <2>1 DEF SetStatus, Exists
    <3>3. CASE s = r
      BY <1>1, <3>1, <3>2, <3>3 DEF TypeOK, Rows
    <3>4. CASE s # r
      BY <1>1, <1>2, <3>1, <3>4 DEF TypeOK
    <3> QED BY <3>3, <3>4
  <2>2. CASE Archive(r) \/ IntervalElapses(r) \/ StalledCheck(r) \/ LockExpires(r)
    BY <1>1, <1>2, <2>2 DEF Archive, IntervalElapses, StalledCheck, LockExpires, TypeOK, Rows
  <2> QED BY <1>5, <2>1, <2>2
<1>6. ASSUME NEW r \in Segments, Seed(r)
      PROVE  Grows
  <2>1. PICK status \in IF Exists(r) THEN {segment[r].status} ELSE {"active", "paused"},
                at \in Restamped(r) :
           segment' = [segment EXCEPT ![r] = [@ EXCEPT !.status = status, !.refreshedAt = at,
                                                       !.definition = segment[r].definition + 1]]
    BY <1>6 DEF Seed
  <2>2. CASE s = r
    <3>1. status # "absent"
      BY DEF Exists
    <3> QED BY <1>1, <2>1, <2>2, <3>1 DEF TypeOK, Rows
  <2>3. CASE s # r
    BY <1>1, <1>2, <2>1, <2>3 DEF TypeOK
  <2> QED BY <2>2, <2>3
<1>7. ASSUME NEW w \in Workers, NEW r \in Segments,
             StartDispatch(w) \/ DispatchAdd(w, r) \/ Take(w, r) \/ Crash(w)
      PROVE  Grows
  BY <1>2, <1>7 DEF StartDispatch, DispatchAdd, Take, Crash
<1>8. ASSUME NEW w \in Workers, RefreshStep(w)
      PROVE  Grows
  <2>1. CASE Book(w) \/ Record(w)
    <3>1. CASE s = worker[w].seg
      <4>1. \/ segment'[s] = [segment[s] EXCEPT !.lastCount = worker[w].snap,
                                              !.refreshedAt = "fresh", !.lastError = FALSE]
            \/ segment'[s] = [segment[s] EXCEPT !.lastError = TRUE]
        BY <2>1, <3>1 DEF Book, Record, TypeOK
      <4>2. segment'[s].definition = segment[s].definition /\ segment'[s].status = segment[s].status
        BY <1>1, <4>1 DEF Rows
      <4> QED BY <1>2, <4>2
    <3>2. CASE s # worker[w].seg
      BY <1>1, <1>2, <2>1, <3>2 DEF Book, Record, TypeOK
    <3> QED BY <3>1, <3>2
  <2>2. CASE ~(Book(w) \/ Record(w))
    BY <1>2, <1>8, <2>2 DEF RefreshStep, Load, LoadFails, Rebuild, RebuildFails, BookFails,
                            RecordFails, Complete, Fail
  <2> QED BY <2>1, <2>2
<1>9. CASE UNCHANGED vars
  BY <1>2, <1>9 DEF vars
<1> QED
  BY <1>3, <1>4, <1>5, <1>6, <1>7, <1>8, <1>9 DEF Next, WorkerStep

\* The members change when a segment is archived or rebuilt.
LEMMA MembershipEffect ==
  ASSUME TypeOK, [Next]_vars, NEW s \in Segments
  PROVE  \/ membership'[s] = membership[s]
         \/ membership'[s] = 0 /\ segment'[s].status = "archived"
         \/ \E w \in Workers : /\ Rebuild(w) /\ worker[w].seg = s
                               /\ membership'[s] = worker[w].snap
<1>1. ASSUME NEW r \in Segments, Archive(r)
      PROVE  \/ membership'[s] = membership[s]
             \/ membership'[s] = 0 /\ segment'[s].status = "archived"
  <2>1. CASE s = r
    <3>1. segment'[r] = [segment[r] EXCEPT !.status = "archived"] /\ segment[r] \in Rows
      BY <1>1 DEF Archive, TypeOK
    <3>2. segment'[r].status = "archived"
      BY <3>1 DEF Rows
    <3> QED BY <1>1, <2>1, <3>2 DEF Archive, TypeOK
  <2>2. CASE s # r
    BY <1>1, <2>2 DEF Archive, TypeOK
  <2> QED BY <2>1, <2>2
<1>2. ASSUME NEW w \in Workers, RefreshStep(w)
      PROVE  \/ membership'[s] = membership[s]
             \/ Rebuild(w) /\ worker[w].seg = s /\ membership'[s] = worker[w].snap
  <2>1. CASE Rebuild(w)
    BY <2>1 DEF Rebuild, TypeOK
  <2>2. CASE ~Rebuild(w)
    BY <1>2, <2>2 DEF RefreshStep, Load, LoadFails, RebuildFails, Book, BookFails, Record,
                      RecordFails, Complete, Fail
  <2> QED BY <2>1, <2>2
<1>3. \/ \E r \in Segments : Archive(r)
      \/ \E w \in Workers : RefreshStep(w)
      \/ membership' = membership
  BY DEF Next, WorkerStep, Create, Edit, ManualRefresh, Enqueue, EnqueueFails, SetStatus, Seed,
         IntervalElapses, StalledCheck, LockExpires, StartDispatch, DispatchAdd, Crash, Take, vars
<1> QED BY <1>1, <1>2, <1>3

\* A worker is about to rebuild or to book because it has just loaded the row,
\* or rebuilt from it, or since before.
LEMMA SnapshotEffect ==
  ASSUME TypeOK, [Next]_vars, NEW v \in Workers, worker'[v].pc \in {"rebuild", "book"}
  PROVE  \/ worker'[v] = worker[v]
         \/ /\ worker'[v].pc = "rebuild" /\ worker[v].seg = worker'[v].seg
            /\ worker'[v].seg \in Segments
            /\ worker'[v].snap = segment[worker'[v].seg].definition
            /\ UNCHANGED <<segment, membership>>
         \/ /\ Rebuild(v) /\ worker'[v].pc = "book" /\ worker'[v].seg = worker[v].seg
            /\ worker'[v].snap = worker[v].snap
<1>1. ASSUME NEW w \in Workers, RefreshStep(w), v = w
      PROVE  \/ /\ worker'[v].pc = "rebuild" /\ worker[v].seg = worker'[v].seg
                /\ worker'[v].seg \in Segments
                /\ worker'[v].snap = segment[worker'[v].seg].definition
                /\ UNCHANGED <<segment, membership>>
             \/ /\ Rebuild(v) /\ worker'[v].pc = "book" /\ worker'[v].seg = worker[v].seg
                /\ worker'[v].snap = worker[v].snap
  <2>1. CASE Load(w)
    <3>1. worker[w].seg \in Segments
      BY <1>1, RefreshStepEffect
    <3> QED BY <1>1, <2>1, <3>1 DEF Load, TypeOK, WorkerStates
  <2>2. CASE Rebuild(w)
    BY <1>1, <2>2 DEF Rebuild, TypeOK, WorkerStates
  <2>3. CASE LoadFails(w) \/ RebuildFails(w) \/ Book(w) \/ BookFails(w) \/ Record(w)
             \/ RecordFails(w)
    BY <1>1, <2>3 DEF LoadFails, RebuildFails, Book, BookFails, Record, RecordFails,
                      TypeOK, WorkerStates
  <2>4. CASE Complete(w) \/ Fail(w)
    BY <1>1, <2>4 DEF Complete, Fail, Idle, TypeOK
  <2> QED BY <1>1, <2>1, <2>2, <2>3, <2>4 DEF RefreshStep
<1>2. ASSUME NEW w \in Workers, RefreshStep(w), v # w
      PROVE  worker'[v] = worker[v]
  BY <1>2, RefreshStepEffect
<1>3. ASSUME NEW w \in Workers, NEW s \in Segments, DispatchAdd(w, s) \/ Take(w, s)
      PROVE  worker'[v] = worker[v]
  <2>1. DispatchAdd(w, s) => worker'[w].pc \in {"idle", "dispatch"}
    BY DEF DispatchAdd, Idle, TypeOK, WorkerStates
  <2>2. Take(w, s) => worker'[w].pc = "load"
    BY DEF Take, TypeOK, WorkerStates
  <2>3. v # w
    BY <1>3, <2>1, <2>2
  <2> QED BY <1>3, <2>3 DEF DispatchAdd, Take, TypeOK
<1>4. ASSUME NEW w \in Workers, StartDispatch(w) \/ Crash(w)
      PROVE  worker'[v] = worker[v]
  <2>1. worker'[w].pc \in {"dispatch", "idle"}
    <3>1. CASE StartDispatch(w)
      BY <3>1 DEF StartDispatch, TypeOK, WorkerStates
    <3>2. CASE Crash(w)
      BY <3>2 DEF Crash, Idle, TypeOK
    <3> QED BY <1>4, <3>1, <3>2
  <2> QED BY <1>4, <2>1 DEF StartDispatch, Crash, TypeOK
<1>5. \/ \E w \in Workers : RefreshStep(w) \/ StartDispatch(w) \/ Crash(w)
      \/ \E w \in Workers, s \in Segments : DispatchAdd(w, s) \/ Take(w, s)
      \/ worker' = worker
  BY DEF Next, WorkerStep, Create, Edit, ManualRefresh, Enqueue, EnqueueFails, SetStatus,
         Archive, Seed, IntervalElapses, StalledCheck, LockExpires, vars
<1> QED BY <1>1, <1>2, <1>3, <1>4, <1>5

\* last_count changes when a worker books.
LEMMA CountEffect ==
  ASSUME TypeOK, [Next]_vars, NEW s \in Segments
  PROVE  \/ segment'[s].lastCount = segment[s].lastCount
         \/ \E w \in Workers : Book(w) /\ worker[w].seg = s
<1>1. ASSUME NEW h \in Handlers, NEW r \in Segments, Create(h, r) \/ Edit(h, r)
      PROVE  segment'[s].lastCount = segment[s].lastCount
  <2>1. CASE s = r
    <3>1. segment[r] \in Rows
      BY DEF TypeOK
    <3>2. CASE Create(h, r)
      BY <2>1, <3>1, <3>2 DEF Create, TypeOK, Rows
    <3>3. CASE Edit(h, r)
      BY <2>1, <3>1, <3>3 DEF Edit, TypeOK, Rows
    <3> QED BY <1>1, <3>2, <3>3
  <2>2. CASE s # r
    BY <1>1, <2>2 DEF Create, Edit, TypeOK
  <2> QED BY <2>1, <2>2
<1>2. ASSUME NEW r \in Segments, SetStatus(r) \/ Archive(r) \/ Seed(r) \/ IntervalElapses(r)
      PROVE  segment'[s].lastCount = segment[s].lastCount
  <2>1. CASE s = r
    <3>1. segment[r] \in Rows
      BY DEF TypeOK
    <3>2. CASE SetStatus(r)
      BY <2>1, <3>1, <3>2 DEF SetStatus, TypeOK, Rows
    <3>3. CASE Archive(r)
      BY <2>1, <3>1, <3>3 DEF Archive, TypeOK, Rows
    <3>4. CASE Seed(r)
      BY <2>1, <3>1, <3>4 DEF Seed, TypeOK, Rows
    <3>5. CASE IntervalElapses(r)
      BY <2>1, <3>1, <3>5 DEF IntervalElapses, TypeOK, Rows
    <3> QED BY <1>2, <3>2, <3>3, <3>4, <3>5
  <2>2. CASE s # r
    BY <1>2, <2>2 DEF SetStatus, Archive, Seed, IntervalElapses, TypeOK
  <2> QED BY <2>1, <2>2
<1>3. ASSUME NEW w \in Workers, Book(w) \/ Record(w)
      PROVE  \/ segment'[s].lastCount = segment[s].lastCount
             \/ Book(w) /\ worker[w].seg = s
  BY <1>3 DEF Book, Record, TypeOK, Rows
<1>4. \/ \E h \in Handlers, r \in Segments : Create(h, r) \/ Edit(h, r)
      \/ \E r \in Segments : SetStatus(r) \/ Archive(r) \/ Seed(r) \/ IntervalElapses(r)
      \/ \E w \in Workers : Book(w) \/ Record(w)
      \/ segment' = segment
  BY DEF Next, WorkerStep, RefreshStep, ManualRefresh, Enqueue, EnqueueFails, StalledCheck,
         LockExpires, StartDispatch, DispatchAdd, Load, LoadFails, Rebuild, RebuildFails,
         BookFails, RecordFails, Complete, Fail, Crash, Take, vars
<1> QED BY <1>1, <1>2, <1>3, <1>4

\* IInv is inductive.
LEMMA InvStep == IInv /\ [Next]_vars => IInv'
<1> SUFFICES ASSUME IInv, [Next]_vars PROVE IInv'
  OBVIOUS
<1>1. TypeOK /\ TypeOK' /\ LockHeld /\ LockHeld' /\ AbsentRows
  BY TypeStep, LockStep DEF IInv
<1>2. ASSUME NEW s \in Segments
      PROVE  /\ segment[s].definition \in Nat /\ segment'[s].definition \in Nat
             /\ membership[s] \in Nat /\ membership'[s] \in Nat
             /\ segment'[s].definition >= segment[s].definition
             /\ membership[s] <= segment[s].definition
  BY <1>1, DefinitionGrows, BoundsAssumption
  DEF IInv, MembersOfKnownDefinition, TypeOK, Rows, Versions
<1>3. \A w \in Workers : worker[w].snap \in Nat
  BY <1>1, FieldTypes, BoundsAssumption DEF Versions
<1>4. AbsentRows'
  BY <1>1, DefinitionGrows DEF AbsentRows, Exists
<1>5. ASSUME NEW s \in Segments
      PROVE  membership'[s] <= segment'[s].definition
  <2>1. ASSUME NEW w \in Workers, Rebuild(w), worker[w].seg = s
        PROVE  worker[w].snap <= segment[s].definition
    BY <2>1 DEF Rebuild, IInv, SnapshotBetween
  <2> QED BY <1>1, <1>2, <1>3, <2>1, MembershipEffect
<1>6. ASSUME NEW v \in Workers, NEW s \in Segments,
             worker'[v].seg = s, worker'[v].pc \in {"rebuild", "book"}
      PROVE  /\ worker'[v].snap <= segment'[s].definition
             /\ s \notin expired' => membership'[s] <= worker'[v].snap
             /\ s \notin expired' /\ worker'[v].pc = "book" =>
                  membership'[s] \in {worker'[v].snap, 0}
  <2>1. expired \subseteq expired'
    BY ExpiredGrows
  <2>2. CASE worker'[v] = worker[v]
    <3>1. /\ worker[v].snap <= segment[s].definition
          /\ s \notin expired => membership[s] <= worker[v].snap
          /\ s \notin expired /\ worker[v].pc = "book" => membership[s] \in {worker[v].snap, 0}
      BY <1>6, <2>2 DEF IInv, SnapshotBetween
    <3>2. ASSUME NEW w \in Workers, Rebuild(w), worker[w].seg = s, s \notin expired
          PROVE  FALSE
      <4>1. Refreshing(w, s) /\ Refreshing(v, s)
        BY <1>6, <2>2, <3>2 DEF Rebuild, Refreshing, RefreshSteps
      <4>2. v = w
        BY <1>1, <3>2, <4>1 DEF LockHeld
      <4>3. worker[w].pc = "rebuild" /\ worker'[w].pc = "book"
        BY <1>1, <3>2 DEF Rebuild, TypeOK, WorkerStates
      <4> QED BY <2>2, <4>2, <4>3
    <3>3. s \notin expired => membership'[s] = membership[s] \/ membership'[s] = 0
      BY <1>1, <3>2, MembershipEffect
    <3> QED BY <1>2, <1>3, <2>1, <2>2, <3>1, <3>3
  <2>3. CASE /\ worker'[v].pc = "rebuild" /\ worker'[v].snap = segment[s].definition
             /\ UNCHANGED <<segment, membership>>
    BY <1>2, <2>3
  <2>4. CASE /\ Rebuild(v) /\ worker[v].seg = s /\ worker'[v].snap = worker[v].snap
    <3>1. membership'[s] = worker[v].snap
      BY <1>1, <2>4 DEF Rebuild, TypeOK
    <3>2. worker[v].snap <= segment[s].definition
      BY <2>4 DEF Rebuild, IInv, SnapshotBetween
    <3> QED BY <1>2, <1>3, <2>4, <3>1, <3>2
  <2> QED BY <1>1, <1>6, <2>2, <2>3, <2>4, SnapshotEffect
<1> QED BY <1>1, <1>4, <1>5, <1>6 DEF IInv, MembersOfKnownDefinition, SnapshotBetween

\* The inductive invariant: a refresh in progress holds the lock of its job, and
\* its snapshot lies between the stored members and the row.
THEOREM InvariantHolds == Spec => []IInv
  BY InvInit, InvStep, PTL DEF Spec

-----------------------------------------------------------------------------
(* What follows.                                                           *)

\* Whatever the number of processes, handlers and segments: two workers never
\* refresh one segment at once, unless a lock expired under its holder.
THEOREM MutualExclusion == Spec => []OneRefreshPerSegment
<1>1. IInv => OneRefreshPerSegment
  BY DEF IInv, LockHeld, OneRefreshPerSegment
<1> QED BY <1>1, InvariantHolds, PTL

\* A rebuild never replaces the members of a definition by those of an older one.
THEOREM NeverRegresses == Spec => RebuildNeverRegresses
<1>1. ASSUME IInv, [Next]_vars
      PROVE  [\A s \in Segments : \/ s \in expired'
                                  \/ membership'[s] >= membership[s]
                                  \/ membership'[s] = 0 /\ segment'[s].status = "archived"]_vars
  <2> SUFFICES ASSUME NEW s \in Segments, s \notin expired'
               PROVE  \/ membership'[s] >= membership[s]
                      \/ membership'[s] = 0 /\ segment'[s].status = "archived"
    OBVIOUS
  <2>1. TypeOK /\ membership[s] \in Nat /\ s \notin expired
    BY <1>1, ExpiredGrows, BoundsAssumption DEF IInv, TypeOK, Versions
  <2>2. ASSUME NEW w \in Workers, Rebuild(w), worker[w].seg = s
        PROVE  worker[w].snap \in Nat /\ membership[s] <= worker[w].snap
    BY <1>1, <2>1, <2>2, FieldTypes, BoundsAssumption
    DEF IInv, SnapshotBetween, Rebuild, Versions
  <2> QED BY <1>1, <2>1, <2>2, MembershipEffect
<1> QED BY <1>1, InvariantHolds, PTL DEF Spec, RebuildNeverRegresses

\* The count a refresh records is that of the rows in place, or they are purged.
THEOREM CountMatchesRows == Spec => CountIsOfStoredRows
<1>1. ASSUME IInv, [Next]_vars
      PROVE  [\A s \in Segments : \/ s \in expired'
                                  \/ segment'[s].lastCount = segment[s].lastCount
                                  \/ membership'[s] \in {segment'[s].lastCount, 0}]_vars
  <2> SUFFICES ASSUME NEW s \in Segments, s \notin expired'
               PROVE  \/ segment'[s].lastCount = segment[s].lastCount
                      \/ membership'[s] \in {segment'[s].lastCount, 0}
    OBVIOUS
  <2>1. TypeOK /\ s \notin expired
    BY <1>1, ExpiredGrows DEF IInv
  <2>2. ASSUME NEW w \in Workers, Book(w), worker[w].seg = s
        PROVE  /\ segment'[s].lastCount = worker[w].snap
               /\ membership'[s] \in {worker[w].snap, 0}
    BY <1>1, <2>1, <2>2 DEF IInv, SnapshotBetween, Book, TypeOK, Rows
  <2> QED BY <1>1, <2>1, <2>2, CountEffect
<1> QED BY <1>1, InvariantHolds, PTL DEF Spec, CountIsOfStoredRows
=============================================================================
