------------------------- MODULE ConversionPipeline -------------------------
(***************************************************************************)
(* From a booking to Meta: purchases and WhatsApp leads are ingested once, *)
(* the resolver attributes each purchase to its last touch, and the CAPI   *)
(* job pushes resolved purchases and leads to Meta in batches, marking a   *)
(* batch once Meta has accepted it.                                        *)
(*                                                                         *)
(* An item is a number: the order of the numbers is that of occurred_at.   *)
(* META_CAPI_ENABLED is true and the token is set; without them the job is *)
(* a no-op.  The queue gives the CAPI job to one worker, but a stalled one *)
(* whose lock expired runs on beside the next.                             *)
(***************************************************************************)
EXTENDS Naturals, FiniteSets, Sequences

CONSTANTS
    Items,        \* order ids of purchases and click ids of leads
    Leads,        \* the items that are leads (lead_event), not purchases
    Lanes,        \* the sets of items a run goes through, in order: for each
                  \* app of MIL_ENABLED_APPS its purchases, then its leads
    Poison,       \* items Meta rejects, with every batch that holds one
    Resolvers,    \* resolver runs that may overlap
    Uploaders,    \* executions of the CAPI job that can be in progress at once
    Batch,        \* BATCH
    MaxPerRun,    \* MAX_PER_RUN
    ResolveLimit, \* the limit of a resolver run
    MaxFaults,    \* bound on crashes, lost answers, failed calls and lost locks
    NoItem

ASSUME ItemsAssumption ==
    /\ Items \subseteq Nat /\ NoItem \notin Items
    /\ Leads \subseteq Items /\ Poison \subseteq Items
    /\ Lanes \in Seq(SUBSET Items) /\ Lanes # <<>>
    /\ MaxFaults \in Nat
    /\ IsFiniteSet(Uploaders)

VARIABLES
    stored,    \* items with a row
    touched,   \* purchases whose last touch has a row
    early,     \* purchases whose touch was stored when they were (history)
    outcome,   \* attribution_outcome of each purchase; "none": resolved_at is null
    uploaded,  \* items with capi_uploaded_at set
    accepted,  \* how often Meta accepted each item
    resolver,  \* what each resolver run is doing
    uploader,  \* what each execution of the CAPI job is doing
    lostLocks, \* how often the lock of one expired (history)
    faults     \* that, and the other faults so far

vars == <<stored, touched, early, outcome, uploaded, accepted, resolver, uploader, lostLocks,
          faults>>

Purchases == Items \ Leads
Outcomes == {"none", "no_touch", "touch"}
Resting == [todo |-> {}, item |-> NoItem, found |-> "none"]
Stopped == [pc |-> "idle", lane |-> 0, pending |-> {}, attempt |-> 1, stalled |-> FALSE]

\* The first n items of a set, as "order by occurred_at limit n" returns them.
First(n, S) == {i \in S : Cardinality({j \in S : j < i}) < n}

ResolverRuns == [todo : SUBSET Purchases, item : Purchases \cup {NoItem}, found : Outcomes]
UploaderRuns == [pc : {"idle", "select", "send", "mark"}, lane : 0..Len(Lanes),
                 pending : SUBSET Items, attempt : 1..2, stalled : BOOLEAN]

TypeOK ==
    /\ stored \subseteq Items /\ uploaded \subseteq Items
    /\ touched \subseteq Purchases /\ early \subseteq touched
    /\ outcome \in [Purchases -> Outcomes]
    /\ accepted \in [Items -> Nat]
    /\ resolver \in [Resolvers -> ResolverRuns]
    /\ uploader \in [Uploaders -> UploaderRuns]
    /\ \A u \in Uploaders : uploader[u].pc # "idle" => uploader[u].lane > 0
    /\ faults \in 0..MaxFaults /\ lostLocks \in 0..faults

Init ==
    /\ stored = {} /\ touched = {} /\ early = {} /\ uploaded = {}
    /\ outcome = [i \in Purchases |-> "none"]
    /\ accepted = [i \in Items |-> 0]
    /\ resolver = [r \in Resolvers |-> Resting]
    /\ uploader = [u \in Uploaders |-> Stopped]
    /\ faults = 0 /\ lostLocks = 0

Fault == faults < MaxFaults /\ faults' = faults + 1

-----------------------------------------------------------------------------
(* The writers.  A retried POST finds the row (ON CONFLICT DO NOTHING) and *)
(* changes nothing.                                                        *)

Ingest(i) ==
    /\ i \notin stored
    /\ stored' = stored \cup {i}
    /\ early' = IF i \in touched THEN early \cup {i} ELSE early
    /\ UNCHANGED <<touched, outcome, uploaded, accepted, resolver, uploader, lostLocks, faults>>

TouchArrives(i) ==
    /\ i \in Purchases \ touched
    /\ touched' = touched \cup {i}
    /\ UNCHANGED <<stored, early, outcome, uploaded, accepted, resolver, uploader, lostLocks, faults>>

-----------------------------------------------------------------------------
(* runResolver: a snapshot of unresolved purchases, then one at a time.    *)

ResolveStart(r) ==
    LET unresolved == {i \in Purchases \cap stored : outcome[i] = "none"} IN
    /\ resolver[r] = Resting /\ unresolved # {}
    /\ \E todo \in SUBSET unresolved :
          /\ \/ Cardinality(todo) = ResolveLimit
             \/ todo = unresolved /\ Cardinality(todo) < ResolveLimit
          /\ resolver' = [resolver EXCEPT ![r].todo = todo]
    /\ UNCHANGED <<stored, touched, early, outcome, uploaded, accepted, uploader, lostLocks, faults>>

\* findLastTouch and mapTouchToEntity.
ResolveRead(r) ==
    /\ resolver[r].item = NoItem
    /\ \E i \in resolver[r].todo :
          resolver' = [resolver EXCEPT
             ![r] = [@ EXCEPT !.item = i,
                              !.found = IF i \in touched THEN "touch" ELSE "no_touch"]]
    /\ UNCHANGED <<stored, touched, early, outcome, uploaded, accepted, uploader, lostLocks, faults>>

NextItem(r) ==
    resolver' = [resolver EXCEPT ![r] = [todo  |-> resolver[r].todo \ {resolver[r].item},
                                         item  |-> NoItem,
                                         found |-> "none"]]

\* faulty: the update without "resolved_at is null".
ResolveWriteUnguarded(r) ==
    /\ resolver[r].item # NoItem
    /\ outcome' = [outcome EXCEPT ![resolver[r].item] = resolver[r].found]
    /\ NextItem(r)
    /\ UNCHANGED <<stored, touched, early, uploaded, accepted, uploader, lostLocks, faults>>

\* The guarded update: a row another run has resolved meanwhile is left alone.
ResolveWrite(r) ==
    LET i == resolver[r].item IN
    /\ i # NoItem
    /\ outcome' = IF outcome[i] = "none" THEN [outcome EXCEPT ![i] = resolver[r].found]
                  ELSE outcome
    /\ NextItem(r)
    /\ UNCHANGED <<stored, touched, early, uploaded, accepted, uploader, lostLocks, faults>>

\* faulty: a purchase that could not be resolved is written off.
ResolveWritesOff(r) ==
    /\ resolver[r].item # NoItem /\ Fault
    /\ outcome' = [outcome EXCEPT ![resolver[r].item] = "no_touch"]
    /\ resolver' = [resolver EXCEPT ![r] = Resting]
    /\ UNCHANGED <<stored, touched, early, uploaded, accepted, uploader, lostLocks>>

\* A query throws or the process dies; the rest waits for the next run.
ResolveAborts(r) ==
    /\ resolver[r] # Resting /\ Fault
    /\ resolver' = [resolver EXCEPT ![r] = Resting]
    /\ UNCHANGED <<stored, touched, early, outcome, uploaded, accepted, uploader, lostLocks>>

-----------------------------------------------------------------------------
(* runCapiUpload.                                                          *)

\* faulty: the select does not look at capi_uploaded_at.
EligibleAgain(i) == i \in stored /\ (i \in Leads \/ outcome[i] # "none")

\* The rows selectPending and selectPendingLeads select from.
Eligible(i) ==
    /\ i \in stored \ uploaded
    /\ i \in Leads \/ outcome[i] # "none"

AtLane(run, n) == [run EXCEPT !.pc = "select", !.lane = n, !.pending = {}, !.attempt = 1]

\* The end of a lane, be it sent or given up ("break").
NextLane(run) == IF run.lane = Len(Lanes) THEN Stopped ELSE AtLane(run, run.lane + 1)

\* A batch of these rows comes next; metaPost starts afresh for each.
Sending(run, rows) == [run EXCEPT !.pc = "send", !.pending = rows, !.attempt = 1]

ThisBatch(run) == First(Batch, run.pending)

Accepted(batch) == accepted' = [i \in Items |-> IF i \in batch THEN accepted[i] + 1 ELSE accepted[i]]

Owner(u) == uploader[u].pc # "idle" /\ ~ uploader[u].stalled

UploadStart(u) ==
    /\ uploader[u].pc = "idle" /\ \A v \in Uploaders : ~ Owner(v)
    /\ uploader' = [uploader EXCEPT ![u] = AtLane(Stopped, 1)]
    /\ UNCHANGED <<stored, touched, early, outcome, uploaded, accepted, resolver, lostLocks, faults>>

Select(u) ==
    LET run     == uploader[u]
        pending == First(MaxPerRun, {i \in Lanes[run.lane] : Eligible(i)})
    IN
    /\ run.pc = "select"
    /\ uploader' = [uploader EXCEPT
          ![u] = IF pending = {} THEN NextLane(run) ELSE Sending(run, pending)]
    /\ UNCHANGED <<stored, touched, early, outcome, uploaded, accepted, resolver, lostLocks, faults>>

SendAccepted(u) ==
    LET run == uploader[u] IN
    /\ run.pc = "send" /\ ThisBatch(run) \cap Poison = {}
    /\ Accepted(ThisBatch(run))
    /\ uploader' = [uploader EXCEPT ![u] = [run EXCEPT !.pc = "mark"]]
    /\ UNCHANGED <<stored, touched, early, outcome, uploaded, resolver, lostLocks, faults>>

\* faulty: a rejected batch ends the whole run.
SendRejectedEndsRun(u) ==
    /\ uploader[u].pc = "send" /\ ThisBatch(uploader[u]) \cap Poison # {}
    /\ uploader' = [uploader EXCEPT ![u] = Stopped]
    /\ UNCHANGED <<stored, touched, early, outcome, uploaded, accepted, resolver, lostLocks, faults>>

\* A 4xx: no retry, on to the next lane.
SendRejected(u) ==
    LET run == uploader[u] IN
    /\ run.pc = "send" /\ ThisBatch(run) \cap Poison # {}
    /\ uploader' = [uploader EXCEPT ![u] = NextLane(run)]
    /\ UNCHANGED <<stored, touched, early, outcome, uploaded, accepted, resolver, lostLocks, faults>>

\* faulty: every 429 or 5xx is retried.
SendFailsForEver(u) ==
    LET run == uploader[u] IN
    /\ run.pc = "send" /\ Fault
    /\ uploader' = [uploader EXCEPT ![u] = [run EXCEPT !.attempt = run.attempt + 1]]
    /\ UNCHANGED <<stored, touched, early, outcome, uploaded, accepted, resolver, lostLocks>>

\* A timeout, a network error, a 429 or a 5xx, whether or not Meta processed the
\* batch; the last two are retried once.
SendFails(u) ==
    LET run == uploader[u] IN
    /\ run.pc = "send" /\ Fault
    /\ \/ UNCHANGED accepted
       \/ ThisBatch(run) \cap Poison = {} /\ Accepted(ThisBatch(run))
    /\ \/ uploader' = [uploader EXCEPT ![u] = NextLane(run)]
       \/ run.attempt = 1 /\ uploader' = [uploader EXCEPT ![u] = [run EXCEPT !.attempt = 2]]
    /\ UNCHANGED <<stored, touched, early, outcome, uploaded, resolver, lostLocks>>

\* faulty: every selected row is marked with the first batch.
MarkAllSelected(u) ==
    LET run == uploader[u] IN
    /\ run.pc = "mark"
    /\ uploaded' = uploaded \cup run.pending
    /\ uploader' = [uploader EXCEPT ![u] = NextLane(run)]
    /\ UNCHANGED <<stored, touched, early, outcome, accepted, resolver, lostLocks, faults>>

Mark(u) ==
    LET run  == uploader[u]
        rest == run.pending \ ThisBatch(run)
    IN
    /\ run.pc = "mark"
    /\ uploaded' = uploaded \cup ThisBatch(run)
    /\ uploader' = [uploader EXCEPT
          ![u] = IF rest = {} THEN NextLane(run) ELSE Sending(run, rest)]
    /\ UNCHANGED <<stored, touched, early, outcome, accepted, resolver, lostLocks, faults>>

\* A select or an update throws, or the process dies: the whole run ends.
UploadAborts(u) ==
    /\ uploader[u].pc # "idle" /\ Fault
    /\ uploader' = [uploader EXCEPT ![u] = Stopped]
    /\ UNCHANGED <<stored, touched, early, outcome, uploaded, accepted, resolver, lostLocks>>

\* The lock of the execution in progress expires: the queue starts another.
LoseLock(u) ==
    /\ Owner(u) /\ Fault
    /\ uploader' = [uploader EXCEPT ![u].stalled = TRUE]
    /\ lostLocks' = lostLocks + 1
    /\ UNCHANGED <<stored, touched, early, outcome, uploaded, accepted, resolver>>

-----------------------------------------------------------------------------
ResolveStep(r) == ResolveStart(r) \/ ResolveRead(r) \/ ResolveWrite(r) \/ ResolveAborts(r)

UploadStep(u) ==
    \/ UploadStart(u) \/ Select(u)
    \/ SendAccepted(u) \/ SendRejected(u) \/ SendFails(u)
    \/ Mark(u) \/ UploadAborts(u)

Next ==
    \/ \E i \in Items : Ingest(i) \/ TouchArrives(i)
    \/ \E r \in Resolvers : ResolveStep(r)
    \/ \E u \in Uploaders : UploadStep(u) \/ LoseLock(u)

\* Both jobs recur every three hours, and a started query or call ends.
Fairness ==
    /\ \A r \in Resolvers : WF_vars(ResolveStep(r))
    /\ \A u \in Uploaders : WF_vars(UploadStep(u))

Spec == Init /\ [][Next]_vars
FairSpec == Spec /\ Fairness

-----------------------------------------------------------------------------
(* What the pipeline promises.                                             *)

\* However resolver runs overlap or fail, the attribution of a purchase is
\* written once: reports and uploads never see it change.
AttributionFinal ==
    [][\A i \in Purchases : outcome[i] # "none" => outcome'[i] = outcome[i]]_vars

\* A purchase whose touch was in the database before the purchase itself is
\* attributed to it, whichever run resolves it.
EarlyTouchAttributed == \A i \in early : outcome[i] \in {"none", "touch"}

\* Meta receives an item twice only if something failed in between.
DoublesCostFaults == \A i \in Items : accepted[i] <= 1 + faults

Offered == {i \in stored : i \in Leads \/ outcome[i] # "none"}

\* Only resolved purchases and stored leads are sent, and a row is marked only
\* after Meta accepted it.  None is selected after its mark, and none sent, unless
\* an execution lost its lock and went on with what it had selected before.
Promise == INSTANCE Outbox WITH
    Senders  <- Uploaders,
    offered  <- Offered,
    held     <- [u \in Uploaders |-> uploader[u].pending],
    sent     <- accepted,
    settled  <- uploaded,
    overlaps <- lostLocks
ImplementsOutbox == Promise!Spec

\* A batch Meta keeps rejecting holds up its own lane and no other: the
\* purchases and leads of every lane without such a batch reach Meta.
LanesFlow ==
    \A n \in DOMAIN Lanes : Lanes[n] \cap Poison = {} =>
        \A i \in Lanes[n] : i \in stored ~> i \in uploaded

-----------------------------------------------------------------------------
(* Why it holds: the inductive invariants.                                 *)

\* A resolver works on stored purchases, and sees what was there before them.
ResolverInv ==
    /\ \A i \in Purchases : outcome[i] # "none" => i \in stored
    /\ \A r \in Resolvers : /\ resolver[r].todo \subseteq stored
                            /\ resolver[r].item \in stored \cup {NoItem}
                            /\ resolver[r].item \in early => resolver[r].found = "touch"
    /\ EarlyTouchAttributed

Marking(u, i) == uploader[u].pc = "mark" /\ i \in ThisBatch(uploader[u])

\* One execution has the lock, whatever runs on beside it lost it, and nobody
\* holds rows before the select.
LockInv ==
    /\ \A u, v \in Uploaders : Owner(u) /\ Owner(v) => u = v
    /\ \A u \in Uploaders : uploader[u].stalled => uploader[u].pc # "idle" /\ lostLocks > 0
    /\ \A u \in Uploaders : uploader[u].pc \in {"idle", "select"} => uploader[u].pending = {}

\* What an execution holds was resolved or a lead when it was selected, and is
\* unmarked unless another one overlaps; what it marks, Meta has accepted.
HoldingInv ==
    /\ \A u \in Uploaders : /\ uploader[u].pending \subseteq Offered
                            /\ lostLocks = 0 => uploader[u].pending \cap uploaded = {}
    /\ \A u \in Uploaders : \A i \in Items : Marking(u, i) => accepted[i] > 0
    /\ \A i \in uploaded : accepted[i] > 0

\* The executions that may send an item beside the regular one: before its mark
\* every stalled one, after it whoever still holds it.
Late(i) ==
    IF i \in uploaded THEN {u \in Uploaders : i \in uploader[u].pending /\ ~ Marking(u, i)}
    ELSE {u \in Uploaders : uploader[u].stalled /\ ~ Marking(u, i)}

\* The regular send has happened.
Regular(i) == i \in uploaded \/ \E u \in Uploaders : Owner(u) /\ Marking(u, i)

\* Every other send, past or to come, has cost a fault.
SendsCostFaults ==
    \A i \in Items :
        accepted[i] + Cardinality(Late(i)) <= IF Regular(i) THEN 1 + faults ELSE faults

UploaderInv == LockInv /\ HoldingInv /\ SendsCostFaults

=============================================================================
