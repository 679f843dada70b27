----------------------------- MODULE EventStore ------------------------------
(***************************************************************************)
(* The store of first-party app events: clients post batches of events     *)
(* they have stamped themselves, the writer clamps each stamp into a       *)
(* window around the server's clock and inserts the rows, and a monthly    *)
(* job creates the partitions to come and drops those past retention.      *)
(*                                                                         *)
(* Time is a number of ticks, MonthLength of them to an IST month.  The    *)
(* job takes its month from the UTC clock, which enters a month UtcLag     *)
(* ticks after IST does; its cron fires at the first tick of an IST month. *)
(* A row is its primary key: the event and its clamped time.               *)
(***************************************************************************)
EXTENDS Naturals, FiniteSets

CONSTANTS
    Events,         \* event ids, minted by the clients
    Identified,     \* those that carry both a session and a user
    Clients,        \* POST /ingest/events requests that can be in progress at once
    Stamps,         \* the times clients stamp events with
    MonthLength, UtcLag,
    Past, Future,   \* CLAMP_PAST_MS, CLAMP_FUTURE_MS
    Seeded,         \* the months 0004_app_event.sql creates
    StartTimes,     \* when the instance may be installed
    Retention,      \* MIL_EVENTS_RETENTION_MONTHS
    MaxAttempts,    \* attempts of the job
    MaxTime,        \* bound on the clock
    MaxFaults,      \* bound on failures, and on ticks the job is held up
    Unminted

ASSUME EventAssumption ==
    /\ Identified \subseteq Events /\ Stamps \subseteq Nat /\ Unminted \notin Nat
    /\ MonthLength \in Nat \ {0} /\ UtcLag \in 1..(MonthLength - 1)
    /\ Past \in 0..MonthLength /\ Future \in 0..MonthLength
    /\ Seeded \subseteq Nat /\ Retention \in Nat \ {0} /\ MaxAttempts \in Nat \ {0}
    /\ MaxTime \in Nat /\ MaxFaults \in Nat
    /\ StartTimes \subseteq MonthLength..MaxTime

VARIABLES
    now,         \* the server's clock
    stamp,       \* occurred_at as each client minted it
    rows,        \* the rows of app_event
    inserted,    \* every row ever inserted (history)
    linked,      \* events whose session and user are in identity_link
    acked,       \* events whose client has seen 200
    request,     \* the events to link of each request that has inserted its rows
    partitions,  \* the monthly partitions; any other row is in the default one
    job,         \* the events-maintain job
    faults

vars == <<now, stamp, rows, inserted, linked, acked, request, partitions, job, faults>>

Month(t) == t \div MonthLength
UtcMonth(t) == (t - UtcLag) \div MonthLength
Months == 0..(Month(MaxTime) + 3)
Keys == [id : Events, at : 0..(MaxTime + Future)]
NoRequest == [pc |-> "idle", batch |-> {}, links |-> {}]
Resting == [pc |-> "idle", month |-> 0, offset |-> 0, old |-> {}, attempt |-> 1]

TypeOK ==
    /\ now \in 0..MaxTime
    /\ stamp \in [Events -> Stamps \cup {Unminted}]
    /\ rows \subseteq inserted /\ inserted \subseteq Keys
    /\ linked \subseteq Identified /\ acked \subseteq Events
    /\ request \in [Clients -> [pc : {"idle", "link"}, batch : SUBSET Events, links : SUBSET Identified]]
    /\ partitions \subseteq Months \cup Seeded
    /\ job \in [pc : {"idle", "due", "create", "list", "drop"}, month : Months, offset : 0..2,
                old : SUBSET (Months \cup Seeded), attempt : 1..MaxAttempts]
    /\ faults \in 0..MaxFaults

Init ==
    /\ now \in StartTimes
    /\ stamp = [e \in Events |-> Unminted]
    /\ rows = {} /\ inserted = {} /\ linked = {} /\ acked = {}
    /\ request = [c \in Clients |-> NoRequest]
    /\ partitions = Seeded
    /\ job = Resting
    /\ faults = 0

Fault == faults < MaxFaults /\ faults' = faults + 1

-----------------------------------------------------------------------------
(* The clients and writeEvents.                                            *)

\* clampOccurredAt.
Clamp(t) ==
    IF t + Past < now THEN now - Past
    ELSE IF t > now + Future THEN now + Future
    ELSE t

\* faulty: the row carries the time it was received at.
ReceivedKey(e) == [id |-> e, at |-> now]

\* The primary key of an event's row, its clamped stamp in it.
Key(e) == [id |-> e, at |-> Clamp(stamp[e])]

Mint(e) ==
    /\ stamp[e] = Unminted
    /\ \E t \in Stamps : stamp' = [stamp EXCEPT ![e] = t]
    /\ UNCHANGED <<now, rows, inserted, linked, acked, request, partitions, job, faults>>

\* faulty: the pairs to link are those of the rows just inserted.
InsertLinksNew(c) ==
    \E batch \in SUBSET {e \in Events \ acked : stamp[e] # Unminted} :
        /\ request[c].pc = "idle" /\ batch # {}
        /\ rows' = rows \cup {Key(e) : e \in batch}
        /\ inserted' = inserted \cup {Key(e) : e \in batch}
        /\ request' = [request EXCEPT ![c] =
              [pc |-> "link", batch |-> batch,
               links |-> {e \in batch \cap Identified : Key(e) \notin rows}]]
        /\ UNCHANGED <<now, stamp, linked, acked, partitions, job, faults>>

\* The INSERT of a batch not yet acknowledged: the rows already there are left
\* alone (ON CONFLICT DO NOTHING), the pairs to link are those of the payload.
Insert(c) ==
    \E batch \in SUBSET {e \in Events \ acked : stamp[e] # Unminted} :
        /\ request[c].pc = "idle" /\ batch # {}
        /\ rows' = rows \cup {Key(e) : e \in batch}
        /\ inserted' = inserted \cup {Key(e) : e \in batch}
        /\ request' = [request EXCEPT ![c] =
              [pc |-> "link", batch |-> batch, links |-> batch \cap Identified]]
        /\ UNCHANGED <<now, stamp, linked, acked, partitions, job, faults>>

Link(c) ==
    /\ request[c].pc = "link"
    /\ linked' = linked \cup request[c].links
    /\ acked' = acked \cup request[c].batch
    /\ request' = [request EXCEPT ![c] = NoRequest]
    /\ UNCHANGED <<now, stamp, rows, inserted, partitions, job, faults>>

\* The INSERT of the links fails, the process dies before or after it, or the
\* answer is lost: the client keeps the batch and posts it again.
RequestFails(c) ==
    /\ request[c].pc = "link" /\ Fault
    /\ linked' \in {linked, linked \cup request[c].links}
    /\ request' = [request EXCEPT ![c] = NoRequest]
    /\ UNCHANGED <<now, stamp, rows, inserted, acked, partitions, job>>

-----------------------------------------------------------------------------
(* maintainEventPartitions.                                                *)

\* The job is due at the first tick of a month.  That it is still waiting or
\* running when a tick ends is a fault: the worker is down or the database slow.
Tick ==
    /\ now < MaxTime
    /\ now' = now + 1
    /\ IF job.pc = "idle"
       THEN /\ job' = IF (now + 1) % MonthLength = 0 THEN [Resting EXCEPT !.pc = "due"] ELSE job
            /\ UNCHANGED faults
       ELSE Fault /\ UNCHANGED job
    /\ UNCHANGED <<stamp, rows, inserted, linked, acked, request, partitions>>

StartRun ==
    /\ job.pc = "due"
    /\ job' = [pc |-> "create", month |-> UtcMonth(now), offset |-> 0, old |-> {},
               attempt |-> job.attempt]
    /\ UNCHANGED <<now, stamp, rows, inserted, linked, acked, request, partitions, faults>>

\* PostgreSQL refuses a partition some row of the default partition belongs to.
Refused(m) == m \notin partitions /\ \E r \in rows : Month(r.at) = m

NextOffset(last) ==
    job' = IF job.offset = last THEN [job EXCEPT !.pc = "list", !.offset = 0]
           ELSE [job EXCEPT !.offset = job.offset + 1]

\* faulty: one month ahead too few.
CreateTooFew ==
    LET m == job.month + job.offset IN
    /\ job.pc = "create" /\ ~Refused(m)
    /\ partitions' = partitions \cup {m}
    /\ NextOffset(1)
    /\ UNCHANGED <<now, stamp, rows, inserted, linked, acked, request, faults>>

Create ==
    LET m == job.month + job.offset IN
    /\ job.pc = "create" /\ ~Refused(m)
    /\ partitions' = partitions \cup {m}
    /\ NextOffset(2)
    /\ UNCHANGED <<now, stamp, rows, inserted, linked, acked, request, faults>>

\* faulty: the current month counts twice.
RetainedOneLess(m) == m + Retention >= job.month + 2 /\ m <= job.month + 2

\* retainedMonthSuffixes.
Retained(m) == m + Retention >= job.month + 1 /\ m <= job.month + 2

ListPartitions ==
    LET old == {m \in partitions : ~Retained(m)} IN
    /\ job.pc = "list"
    /\ job' = IF old = {} THEN Resting ELSE [job EXCEPT !.pc = "drop", !.old = old]
    /\ UNCHANGED <<now, stamp, rows, inserted, linked, acked, request, partitions, faults>>

Drop ==
    /\ job.pc = "drop"
    /\ \E m \in job.old :
          /\ partitions' = partitions \ {m}
          /\ rows' = {r \in rows : Month(r.at) # m}
          /\ job' = IF job.old = {m} THEN Resting ELSE [job EXCEPT !.old = job.old \ {m}]
    /\ UNCHANGED <<now, stamp, inserted, linked, acked, request, faults>>

\* An attempt that throws is retried from the start, the last is given up.
AttemptFails ==
    job' = IF job.attempt = MaxAttempts THEN Resting
           ELSE [Resting EXCEPT !.pc = "due", !.attempt = job.attempt + 1]

CreateRefused ==
    /\ job.pc = "create" /\ Refused(job.month + job.offset)
    /\ AttemptFails
    /\ UNCHANGED <<now, stamp, rows, inserted, linked, acked, request, partitions, faults>>

RunDies ==
    /\ job.pc \in {"create", "list", "drop"} /\ Fault
    /\ AttemptFails
    /\ UNCHANGED <<now, stamp, rows, inserted, linked, acked, request, partitions>>

-----------------------------------------------------------------------------
Next ==
    \/ \E e \in Events : Mint(e)
    \/ \E c \in Clients : Insert(c) \/ Link(c) \/ RequestFails(c)
    \/ Tick
    \/ StartRun \/ Create \/ CreateRefused \/ ListPartitions \/ Drop \/ RunDies

Spec == Init /\ [][Next]_vars

-----------------------------------------------------------------------------
(* What the component promises.                                            *)

\* The month of the cron and the month of the job's clock differ; still, while
\* the job has kept up, every time an event can be clamped to has a partition,
\* but for the time before the seeds.
WindowHasPartition ==
    faults = 0 =>
        \A t \in (now - Past)..(now + Future) :
            (\E m \in Seeded : m <= Month(t)) => \/ Month(t) \in partitions
                                                 \/ job.pc \in {"due", "create"}

\* No row is lost before its retention is over: a late, repeated or half-done
\* run drops no partition of the last Retention months, nor one in use ahead.
RetentionKept ==
    \A r \in inserted : Month(r.at) + Retention >= Month(now) + 1 => r \in rows

\* A client that has been answered need not post again: its pairs are linked,
\* although an earlier attempt may have inserted the rows and died.
AckedIsLinked == acked \cap Identified \subseteq linked
=============================================================================
