--------------------------- MODULE SegmentRefresh ---------------------------
(***************************************************************************)
(* Audience segments and the job that keeps their membership up to date.   *)
(*                                                                         *)
(* A row of marketing.segment holds a definition; the rows of              *)
(* marketing.segment_membership are the users it selects.  The HTTP        *)
(* handlers edit the row and add a "refresh" job under the id              *)
(* refresh-<segment>; a dispatcher adds one for every segment that is due; *)
(* a worker loads the row, rebuilds the membership in one transaction and  *)
(* then, in a second statement, stamps the row.  Definitions are numbered  *)
(* by version: 0 is "no row" for a segment, "no members" for a membership. *)
(***************************************************************************)
EXTENDS Naturals, FiniteSets

CONSTANTS
    Segments,         \* segment ids
    SystemSegments,   \* those written by scripts/seed-segments.ts (is_system)
    Workers,          \* BullMQ worker slots, one per process (concurrency: 1)
    Handlers,         \* HTTP requests that can be in progress at once
    MaxVersion,       \* bound on the number of definitions a segment gets
    BadVersions,      \* definitions whose rebuild never succeeds (statement_timeout)
    MaxAttempts,      \* job option "attempts"
    MaxStalls,        \* BullMQ's maxStalledCount
    MaxFaults,        \* bound on crashes and failed database or Redis calls
    NoSegment, NoWorker

ASSUME SegmentsAssumption ==
    /\ SystemSegments \subseteq Segments
    /\ NoSegment \notin Segments
    /\ NoWorker \notin Workers
ASSUME BoundsAssumption ==
    /\ MaxVersion \in Nat /\ MaxFaults \in Nat /\ MaxStalls \in Nat
    /\ MaxAttempts \in Nat \ {0}
    /\ BadVersions \subseteq 1..MaxVersion

VARIABLES
    segment,      \* the rows of marketing.segment
    membership,   \* the version whose members the stored rows are
    job,          \* the refresh job of each segment in Redis
    worker,       \* what each worker is doing
    request,      \* the segment each HTTP handler has written but not yet enqueued
    faults,       \* faults so far
    expired       \* segments one of whose refreshes ran on after its lock expired

vars == <<segment, membership, job, worker, request, faults, expired>>

Versions == 0..MaxVersion
Statuses == {"active", "paused", "archived"}
NoRow == [status |-> "absent", definition |-> 0, refreshedAt |-> "never",
          lastCount |-> 0, lastError |-> FALSE]
NoJob == [state |-> "none", owner |-> NoWorker, attempts |-> 0, stalls |-> 0]
Idle  == [pc |-> "idle", seg |-> NoSegment, snap |-> 0, due |-> {}]

\* The steps of refreshSegment, and the two ways it hands its job back.
RefreshSteps == {"load", "rebuild", "book", "record", "done", "failed"}

Rows == [status : Statuses \cup {"absent"}, definition : Versions,
         refreshedAt : {"never", "fresh", "elapsed"},
         lastCount : Versions, lastError : BOOLEAN]
Jobs == [state : {"none", "waiting", "active"}, owner : Workers \cup {NoWorker},
         attempts : 0..(MaxAttempts - 1), stalls : 0..MaxStalls]
WorkerStates == [pc : RefreshSteps \cup {"idle", "dispatch"},
                 seg : Segments \cup {NoSegment}, snap : Versions, due : SUBSET Segments]

TypeOK ==
    /\ segment \in [Segments -> Rows]
    /\ membership \in [Segments -> Versions]
    /\ job \in [Segments -> Jobs]
    /\ worker \in [Workers -> WorkerStates]
    /\ \A w \in Workers : worker[w].pc \in RefreshSteps => worker[w].seg \in Segments
    /\ request \in [Handlers -> Segments \cup {NoSegment}]
    /\ faults \in 0..MaxFaults
    /\ expired \subseteq Segments

Init ==
    /\ segment = [s \in Segments |-> NoRow]
    /\ membership = [s \in Segments |-> 0]
    /\ job = [s \in Segments |-> NoJob]
    /\ worker = [w \in Workers |-> Idle]
    /\ request = [h \in Handlers |-> NoSegment]
    /\ faults = 0
    /\ expired = {}

Exists(s) == segment[s].status # "absent"
Refreshing(w, s) == worker[w].pc \in RefreshSteps /\ worker[w].seg = s

Fault == faults < MaxFaults /\ faults' = faults + 1

\* faulty: only segments that never ran are due.
DueOnce(s) == segment[s].status = "active" /\ segment[s].refreshedAt = "never"

\* dueSegmentIds: active, and never refreshed or refreshed too long ago.
Due(s) == segment[s].status = "active" /\ segment[s].refreshedAt # "fresh"

-----------------------------------------------------------------------------
(* The queue.  add() is ignored while a job with the same id exists.       *)
(* (A definition with a "faulty:" comment is a bug the properties exclude; *)
(* no action uses it.)                                                     *)

\* faulty: add() without a jobId.
AddJobNoDedup(s) == job' = [job EXCEPT ![s].state = "waiting"]

AddJob(s) ==
    job' = IF job[s].state = "none" THEN [job EXCEPT ![s].state = "waiting"] ELSE job

\* faulty: a finished job is retained, as with the default removeOnComplete.
JobRetained(w) ==
    LET s == worker[w].seg IN
    job' = IF job[s].owner = w THEN [job EXCEPT ![s].state = "done"] ELSE job

\* moveToCompleted / moveToFailed act only for the holder of the lock.
\* removeOnComplete and removeOnFail: a finished job leaves nothing behind.
JobCompleted(w) ==
    LET s == worker[w].seg IN
    job' = IF job[s].owner = w THEN [job EXCEPT ![s] = NoJob] ELSE job

\* faulty: one attempt too many.
JobFailedOffByOne(w) ==
    LET s == worker[w].seg IN
    job' = IF job[s].owner # w THEN job
           ELSE IF job[s].attempts = MaxAttempts THEN [job EXCEPT ![s] = NoJob]
           ELSE [job EXCEPT ![s] = [@ EXCEPT !.state = "waiting", !.owner = NoWorker,
                                             !.attempts = job[s].attempts + 1]]

JobFailed(w) ==
    LET s == worker[w].seg IN
    job' = IF job[s].owner # w THEN job
           ELSE IF job[s].attempts + 1 = MaxAttempts THEN [job EXCEPT ![s] = NoJob]
           ELSE [job EXCEPT ![s] = [@ EXCEPT !.state = "waiting", !.owner = NoWorker,
                                             !.attempts = job[s].attempts + 1]]

\* faulty: the check does not look at the lock.
StalledCheckIgnoringLock(s) ==
    /\ job[s].state = "active" /\ job[s].stalls < MaxStalls
    /\ job' = [job EXCEPT ![s] = [@ EXCEPT !.state = "waiting", !.owner = NoWorker,
                                        !.stalls = job[s].stalls + 1]]
    /\ UNCHANGED <<segment, membership, worker, request, faults, expired>>

\* A lock nobody renews: the job goes back to the wait list, MaxStalls times.
StalledCheck(s) ==
    /\ job[s].state = "active" /\ job[s].owner = NoWorker
    /\ job' = IF job[s].stalls < MaxStalls
              THEN [job EXCEPT ![s] = [@ EXCEPT !.state = "waiting", !.stalls = job[s].stalls + 1]]
              ELSE [job EXCEPT ![s] = NoJob]
    /\ UNCHANGED <<segment, membership, worker, request, faults, expired>>

\* Redis out of reach for longer than the lock: the worker runs on without it.
LockExpires(s) ==
    /\ job[s].owner # NoWorker /\ Fault
    /\ job' = [job EXCEPT ![s].owner = NoWorker]
    /\ expired' = expired \cup {s}
    /\ UNCHANGED <<segment, membership, worker, request>>

-----------------------------------------------------------------------------
(* The HTTP handlers and the seed script.  A handler writes the row, then  *)
(* enqueues; the process may fail between the two.                         *)

Create(h, s) ==
    /\ request[h] = NoSegment
    /\ ~Exists(s) /\ s \notin SystemSegments /\ MaxVersion > 0
    /\ segment' = [segment EXCEPT ![s] = [@ EXCEPT !.status = "active", !.definition = 1]]
    /\ request' = [request EXCEPT ![h] = s]
    /\ UNCHANGED <<membership, job, worker, faults, expired>>

\* PUT with a definition (and perhaps a status); archived rows are not refused.
Edit(h, s) ==
    /\ request[h] = NoSegment
    /\ Exists(s) /\ s \notin SystemSegments /\ segment[s].definition < MaxVersion
    /\ \E status \in {segment[s].status, "active", "paused"} :
          segment' = [segment EXCEPT ![s] = [@ EXCEPT !.status = status,
                                                      !.definition = segment[s].definition + 1,
                                                      !.refreshedAt = "never"]]
    /\ request' = [request EXCEPT ![h] = s]
    /\ UNCHANGED <<membership, job, worker, faults, expired>>

\* The stamp under an interval that may be another one now: whether it has
\* elapsed is for the new interval to say.
Restamped(s) == IF segment[s].refreshedAt = "never" THEN {"never"} ELSE {"fresh", "elapsed"}

\* PUT without a definition, of the status, the interval or both: nothing is
\* enqueued.
SetStatus(s) ==
    /\ Exists(s)
    /\ \E status \in {segment[s].status, "active", "paused"}, at \in Restamped(s) :
          segment' = [segment EXCEPT ![s] = [@ EXCEPT !.status = status, !.refreshedAt = at]]
    /\ UNCHANGED <<membership, job, worker, request, faults, expired>>

Archive(s) ==
    /\ Exists(s)
    /\ membership' = [membership EXCEPT ![s] = 0]
    /\ segment' = [segment EXCEPT ![s].status = "archived"]
    /\ UNCHANGED <<job, worker, request, faults, expired>>

ManualRefresh(h, s) ==
    /\ request[h] = NoSegment
    /\ Exists(s)
    /\ request' = [request EXCEPT ![h] = s]
    /\ UNCHANGED <<segment, membership, job, worker, faults, expired>>

Enqueue(h) ==
    /\ request[h] # NoSegment
    /\ AddJob(request[h])
    /\ request' = [request EXCEPT ![h] = NoSegment]
    /\ UNCHANGED <<segment, membership, worker, faults, expired>>

EnqueueFails(h) ==
    /\ request[h] # NoSegment
    /\ Fault
    /\ request' = [request EXCEPT ![h] = NoSegment]
    /\ UNCHANGED <<segment, membership, job, worker, expired>>

\* The upsert of the seed script, of the definition and the interval: it leaves
\* last_refreshed_at and the status alone, and nothing is enqueued.
Seed(s) ==
    /\ s \in SystemSegments /\ segment[s].definition < MaxVersion
    /\ \E status \in IF Exists(s) THEN {segment[s].status} ELSE {"active", "paused"},
          at \in Restamped(s) :
          segment' = [segment EXCEPT ![s] =
                          [@ EXCEPT !.status = status, !.refreshedAt = at,
                                    !.definition = segment[s].definition + 1]]
    /\ UNCHANGED <<membership, job, worker, request, faults, expired>>

IntervalElapses(s) ==
    /\ segment[s].refreshedAt = "fresh"
    /\ segment' = [segment EXCEPT ![s].refreshedAt = "elapsed"]
    /\ UNCHANGED <<membership, job, worker, request, faults, expired>>

-----------------------------------------------------------------------------
(* The worker: the dispatcher job ...                                      *)

StartDispatch(w) ==
    LET due == {s \in Segments : Due(s)} IN
    /\ worker[w].pc = "idle" /\ due # {}
    /\ worker' = [worker EXCEPT ![w] = [@ EXCEPT !.pc = "dispatch", !.due = due]]
    /\ UNCHANGED <<segment, membership, job, request, faults, expired>>

\* The adds run concurrently (Promise.all) and complete in any order.
DispatchAdd(w, s) ==
    /\ worker[w].pc = "dispatch" /\ s \in worker[w].due
    /\ AddJob(s)
    /\ worker' = [worker EXCEPT ![w] = IF @.due = {s} THEN Idle
                                       ELSE [@ EXCEPT !.due = worker[w].due \ {s}]]
    /\ UNCHANGED <<segment, membership, request, faults, expired>>

(* ... and the refresh of one segment.                                     *)

Take(w, s) ==
    /\ worker[w].pc = "idle" /\ job[s].state = "waiting"
    /\ job' = [job EXCEPT ![s] = [@ EXCEPT !.state = "active", !.owner = w]]
    /\ worker' = [worker EXCEPT ![w] = [@ EXCEPT !.pc = "load", !.seg = s]]
    /\ UNCHANGED <<segment, membership, request, faults, expired>>

\* faulty: last_error is cleared as the refresh starts.
LoadClearsError(w) ==
    /\ worker[w].pc = "load"
    /\ segment' = [segment EXCEPT ![worker[w].seg].lastError = FALSE]
    /\ worker' = [worker EXCEPT ![w] =
                     [@ EXCEPT !.pc = "rebuild", !.snap = segment[worker[w].seg].definition]]
    /\ UNCHANGED <<membership, job, request, faults, expired>>

\* A row that is missing or not active ends the job without touching anything.
Load(w) ==
    LET row == segment[worker[w].seg] IN
    /\ worker[w].pc = "load"
    /\ worker' = [worker EXCEPT ![w] =
                     IF row.status = "active"
                     THEN [@ EXCEPT !.pc = "rebuild", !.snap = row.definition]
                     ELSE [@ EXCEPT !.pc = "done"]]
    /\ UNCHANGED <<segment, membership, job, request, faults, expired>>

\* The select, the parse and the app_event probe stand before the try block.
LoadFails(w) ==
    /\ worker[w].pc = "load" /\ Fault
    /\ worker' = [worker EXCEPT ![w].pc = "failed"]
    /\ UNCHANGED <<segment, membership, job, request, expired>>

\* One transaction: DELETE every row of the segment, INSERT the compiled ones.
Rebuild(w) ==
    /\ worker[w].pc = "rebuild" /\ worker[w].snap \notin BadVersions
    /\ membership' = [membership EXCEPT ![worker[w].seg] = worker[w].snap]
    /\ worker' = [worker EXCEPT ![w].pc = "book"]
    /\ UNCHANGED <<segment, job, request, faults, expired>>

RebuildFails(w) ==
    /\ worker[w].pc = "rebuild"
    /\ \/ worker[w].snap \in BadVersions /\ UNCHANGED faults
       \/ Fault
    /\ worker' = [worker EXCEPT ![w].pc = "record"]
    /\ UNCHANGED <<segment, membership, job, request, expired>>

\* faulty: the stamp describes the definition now in the row.
BookCurrentRow(w) ==
    /\ worker[w].pc = "book"
    /\ segment' = [segment EXCEPT ![worker[w].seg] =
                      [@ EXCEPT !.lastCount = segment[worker[w].seg].definition, !.refreshedAt = "fresh",
                                !.lastError = FALSE]]
    /\ worker' = [worker EXCEPT ![w].pc = "done"]
    /\ UNCHANGED <<membership, job, request, faults, expired>>

Book(w) ==
    /\ worker[w].pc = "book"
    /\ segment' = [segment EXCEPT ![worker[w].seg] =
                      [@ EXCEPT !.lastCount = worker[w].snap, !.refreshedAt = "fresh",
                                !.lastError = FALSE]]
    /\ worker' = [worker EXCEPT ![w].pc = "done"]
    /\ UNCHANGED <<membership, job, request, faults, expired>>

BookFails(w) ==
    /\ worker[w].pc = "book" /\ Fault
    /\ worker' = [worker EXCEPT ![w].pc = "record"]
    /\ UNCHANGED <<segment, membership, job, request, expired>>

Record(w) ==
    /\ worker[w].pc = "record"
    /\ segment' = [segment EXCEPT ![worker[w].seg].lastError = TRUE]
    /\ worker' = [worker EXCEPT ![w].pc = "failed"]
    /\ UNCHANGED <<membership, job, request, faults, expired>>

\* The write of last_error may itself fail; the error is swallowed.
RecordFails(w) ==
    /\ worker[w].pc = "record" /\ Fault
    /\ worker' = [worker EXCEPT ![w].pc = "failed"]
    /\ UNCHANGED <<segment, membership, job, request, expired>>

Complete(w) ==
    /\ worker[w].pc = "done"
    /\ JobCompleted(w)
    /\ worker' = [worker EXCEPT ![w] = Idle]
    /\ UNCHANGED <<segment, membership, request, faults, expired>>

Fail(w) ==
    /\ worker[w].pc = "failed"
    /\ JobFailed(w)
    /\ worker' = [worker EXCEPT ![w] = Idle]
    /\ UNCHANGED <<segment, membership, request, faults, expired>>

\* The process dies, or a dispatcher's add() fails: what the worker knew is
\* lost, and the lock of the job it held is no longer renewed.
Crash(w) ==
    /\ worker[w].pc # "idle" /\ Fault
    /\ worker' = [worker EXCEPT ![w] = Idle]
    /\ job' = [s \in Segments |->
                 IF job[s].owner = w THEN [job[s] EXCEPT !.owner = NoWorker] ELSE job[s]]
    /\ UNCHANGED <<segment, membership, request, expired>>

-----------------------------------------------------------------------------
RefreshStep(w) ==
    \/ Load(w) \/ LoadFails(w)
    \/ Rebuild(w) \/ RebuildFails(w)
    \/ Book(w) \/ BookFails(w)
    \/ Record(w) \/ RecordFails(w)
    \/ Complete(w) \/ Fail(w)

WorkerStep(w) == RefreshStep(w) \/ \E s \in Segments : DispatchAdd(w, s)

Next ==
    \/ \E h \in Handlers, s \in Segments : Create(h, s) \/ Edit(h, s) \/ ManualRefresh(h, s)
    \/ \E h \in Handlers : Enqueue(h) \/ EnqueueFails(h)
    \/ \E s \in Segments : \/ SetStatus(s) \/ Archive(s) \/ Seed(s) \/ IntervalElapses(s)
                           \/ StalledCheck(s) \/ LockExpires(s)
    \/ \E w \in Workers : StartDispatch(w) \/ WorkerStep(w) \/ Crash(w)
    \/ \E w \in Workers, s \in Segments : Take(w, s)

\* A started call or query ends (or throws); the wait list is FIFO, so neither a
\* waiting refresh nor the recurring dispatcher job is passed over for ever.
Fairness ==
    /\ \A h \in Handlers : WF_vars(Enqueue(h))
    /\ \A w \in Workers : WF_vars(WorkerStep(w))
    /\ \A s \in Segments : /\ WF_vars(StalledCheck(s))
                           /\ WF_vars(IntervalElapses(s))
                           /\ SF_vars(\E w \in Workers : Take(w, s))
    /\ SF_vars(\E w \in Workers : StartDispatch(w))

Spec == Init /\ [][Next]_vars
FairSpec == Spec /\ Fairness
-----------------------------------------------------------------------------
(* Why: who may be refreshing, and what a refresh in progress knows.       *)

\* Whoever refreshes a segment holds the lock of its job.
LockHeld ==
    \A w \in Workers, s \in Segments \ expired :
        Refreshing(w, s) => job[s].state = "active" /\ job[s].owner = w

\* A row that was never inserted has no definition.
AbsentRows == \A s \in Segments : ~Exists(s) => segment[s].definition = 0

\* The stored members are those of a definition the row has had.
MembersOfKnownDefinition ==
    \A s \in Segments : membership[s] <= segment[s].definition

\* A snapshot lies between the version of the stored members and that of the
\* row; once it has been rebuilt from, the members are its own or purged.
SnapshotBetween ==
    \A w \in Workers, s \in Segments :
        worker[w].seg = s /\ worker[w].pc \in {"rebuild", "book"}
        => /\ worker[w].snap <= segment[s].definition
           /\ s \notin expired => membership[s] <= worker[w].snap
           /\ s \notin expired /\ worker[w].pc = "book" => membership[s] \in {worker[w].snap, 0}

IInv == TypeOK /\ AbsentRows /\ LockHeld /\ MembersOfKnownDefinition /\ SnapshotBetween

-----------------------------------------------------------------------------
(* What the component promises.                                            *)

\* The dedup id and the job lock together are a mutex: two workers never
\* rebuild one segment at once, so no DELETE+INSERT is interleaved with another.
OneRefreshPerSegment ==
    \A s \in Segments \ expired, v, w \in Workers :
        Refreshing(v, s) /\ Refreshing(w, s) => v = w

\* refreshSegment works from the definition it loaded, yet a rebuild never puts
\* an older definition's members in place of a newer one's.
RebuildNeverRegresses ==
    [][\A s \in Segments : \/ s \in expired'
                           \/ membership'[s] >= membership[s]
                           \/ membership'[s] = 0 /\ segment'[s].status = "archived"]_vars

\* last_count is written by a later statement than the rows it counts; what it
\* records is still the count of the rows in place, or these have been purged.
CountIsOfStoredRows ==
    [][\A s \in Segments : \/ s \in expired'
                           \/ segment'[s].lastCount = segment[s].lastCount
                           \/ membership'[s] \in {segment'[s].lastCount, 0}]_vars

\* Nobody puts off the refresh of s by making its interval longer once it is over.
IntervalKept(s) ==
    worker' = worker /\ segment[s].refreshedAt = "elapsed" => segment'[s].refreshedAt # "fresh"

\* Edits lost behind a running refresh, swallowed add()s, crashes and stalls all
\* heal: a segment that stays active, and whose interval is not made longer each
\* time it is over, ends up with the members and the count of its current
\* definition, and without an error.
EventuallyCurrent ==
    \A s \in Segments :
        /\ <>[](segment[s].status = "active" /\ segment[s].definition \notin BadVersions)
        /\ <>[][IntervalKept(s)]_vars
        => <>[](/\ membership[s] = segment[s].definition
                /\ segment[s].lastCount = segment[s].definition
                /\ ~segment[s].lastError)

\* A definition that cannot be rebuilt is reported for good, retry after retry,
\* even if the refresh of an earlier definition clears last_error meanwhile.
FailureReported ==
    \A s \in Segments :
        /\ <>[](segment[s].status = "active" /\ segment[s].definition \in BadVersions)
        /\ <>[][IntervalKept(s)]_vars
        => <>[]segment[s].lastError

-----------------------------------------------------------------------------
(* What comments and tests say of it, and the code does not do.            *)

\* routes.ts: "Force a re-refresh: null the timestamp so the dispatcher treats
\* it as due."  An edit is not lost: while the rows are of an older definition,
\* the segment is due, or a refresh of the new one is requested or under way.
EditsAreDue ==
    \A s \in Segments \ (SystemSegments \cup expired) :
        segment[s].status = "active" /\ membership[s] \notin {0, segment[s].definition}
        => \/ Due(s)
           \/ \E h \in Handlers : request[h] = s
           \/ job[s].state # "none"

\* segments.int.test.ts: "Archive (soft delete): status archived + membership
\* purged."
ArchivedIsPurged ==
    \A s \in Segments : segment[s].status = "archived" => membership[s] = 0

=============================================================================
