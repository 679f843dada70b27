# Formal models of the Marketing Intelligence Layer

TLA+ modules, TLC configurations and TLAPS proofs about this repository: a Node
service (`src/src`) that ingests marketing touches, app events and conversions
into PostgreSQL, attributes conversions, keeps audience segments up to date, and
pushes conversions to Meta, by HTTP handlers and BullMQ jobs that share the
database and Redis.  Every definition is translated from the code; the lines it
stands for are in the `map` of `PROJECT.json`, paths relative to the directory
that holds `src/`.

## Inventory

| Component | State | Operations | What is hard | What makes it correct |
|---|---|---|---|---|
| Segment refresh (`segments/refresh.ts`, `routes.ts`, `queue/index.ts`) | `segment` rows, `segment_membership`, jobs `refresh-<id>` in Redis | create, edit, status, archive, manual refresh, seed; dispatch every 15 minutes; load, rebuild, book or record | two statements for what should be one; add() ignored while a job exists; stalled jobs, lost locks, crashes | refreshes exclude each other, never regress, and catch up with every edit |
| Conversion pipeline (`ingest/conversion-writer.ts`, `lead-event-writer.ts`, `attribution/resolve.ts`, `capi/*`) | `conversion`, `lead_event`, their `resolved_at` and `capi_uploaded_at` | ingest once, resolve, send in batches, mark | overlapping runs on old snapshots; a call and its mark are not atomic; poison batches | attribution is final and uses the touch that was there; an outbox with at-least-once delivery |
| Touches (`ingest/touch-writer.ts`, `attribution/meta-install-referrer.ts`, `jobs/meta-referrer-backfill.ts`) | `attribution_touch`, `identity_link` | post: decrypt or look up, insert, link, stitch, propagate; backfill: page, decrypt, spread | five statements without a transaction, concurrent requests of a session, a long backfill beside them | labels are corrected once, from the session's own envelope; stitches have links |
| Event store (`ingest/event-writer.ts`, `jobs/event-partitions.ts`, `drizzle/0004`) | `app_event` and its partitions, `identity_link` | post a batch; monthly job creates and drops partitions | clients' clocks, retries against another clock, IST months computed in UTC, DDL that fails half-way | the insert window has partitions; no retained row is dropped |
| Segment compiler (`segments/compile.ts`, `dsl.ts`) | reads `conversion`, `app_event` | criteria tree to one SQL statement | negation against the right universe, nesting, windows that move, ties in ntile | members are those the tree is true of |
| Campaign report (`serving/campaign-funnel-queries.ts`) | reads touches, events, conversions, links, ad entities and facts | one query of 14 CTEs | joins that fan out, two ways to name a campaign, last touch and grace, installs sent twice, rows and links that arrive late | credit does not depend on filters or on what comes later; rows add up |
| Ad data ingest (`jobs/ingest.ts`, `ingest/upsert.ts`, the connectors) | `ad_entity`, `ad_performance_daily` | for each app in turn: entities, performance, one upsert of a rolling window | a failure in the middle of the apps; days restated after they were stored; one statement for rows that may share a key | a date is right once its numbers are final and a run had its answers |
| Alerts and decisions (`alerts/*`, `actions/*`) | `alert`, `decision` | evaluate hourly: read, check, insert, notify, propose; approve | check-then-insert without a key; a lost lock; a crash between the steps | a message fires once a day; a fault costs the follow-ups of one alert |
| GEO monitor (`geo/run.ts`, `geo/queries.ts`) | `geo_observation` | lanes of engines with an abort flag, each asking the questions in turn | lanes outliving a failed attempt; the retry is a run of its own | each answer once a run; reports show the completed run |
| Reviews (`reviews/run.ts`) | `review_observation` | snapshot each source daily | retries | one row per source and day |
| Edge beacon (`edge/touch-beacon`) | none; forwards in memory | answer 204, forward, forward once more | answers lost after MIL stored the touch, the worker ending | losses and copies cost failed forwards; no click ids without consent |
| Backend producer (`integration/`), `ingest/conversion-writer.ts` | none; timers in memory; `conversion`, `identity_link` | count prior bookings, post, retry; row and link | calls that overlap, repeat and overtake each other; deleted bookings; restarts | one first order a user; an order is lost only with all its posts |
| Event reports (`serving/event-queries.ts`) | reads `app_event`, `identity_link` | daily users, ordered funnel, cohort retention | the actor of a row is decided by today's links; sessions of two users | the three agree; a login takes nothing from anybody |
| Spend reports (`serving/queries.ts`) | reads `ad_entity`, `ad_performance_daily`, `conversion` | spend, cost per order, repeat rate, revenue of cohorts | joins of orders with orders; two groupings of one sum | revenue is counted once |
| Queue (`shared/queue/index.ts`) | jobs and schedulers in Redis | schedule, retry, chain | at-least-once jobs | modelled with each component |
| Registry of events, overviews, context, insights, notifications, process | none | lists, text, clients | | not modelled |

The components meet in the database.  Touches feed the resolver and the
segments; the resolver feeds the CAPI job, alerts and segments; ingest jobs chain
a resolver run; three writers add to `identity_link`.  There are no locks beyond
single statements and three short transactions, so every step between two
statements is a place where another actor may act.

`PROJECT.json` lists the hazards, each at its line, with the properties that
would catch it.

## Modules

### SegmentRefresh

`segment`, `membership` and `job` are the two tables and the jobs in Redis.  A
definition is a version number; `membership[s]` is the version whose members the
stored rows are (0: no rows), so "the members are those of the definition" is an
equation.  `refreshedAt` is `never`, `fresh` or `elapsed`: the only comparison the
code makes is with the interval, so a new interval, set by a PUT or by the seed
script, may turn one of the last two into the other (`Restamped`).  `Load`,
`Rebuild`, `Book` and `Record` are the four database calls of `refreshSegment`; each
can fail, the worker can die before any of them (`Crash`), its lock can expire under
it (`LockExpires`), and BullMQ gives a job without a lock back (`StalledCheck`).  A
handler's write and its `add()` are two steps (`request`), because the process may
fail between them.  `BadVersions` are definitions whose rebuild never succeeds.
`expired` is history: the segments of which BullMQ no longer guarantees that one
worker runs them.

### ConversionPipeline and Outbox

An item is a purchase (`conversion` row) or a lead (`lead_event` row), numbered by
`occurred_at`.  `touched` are the purchases whose last touch has been stored; what
`findLastTouch` and `mapTouchToEntity` compute is whether that touch was seen.
`resolver` runs hold a snapshot of unresolved purchases (`todo`), the purchase at
hand and what was found for it; the guarded UPDATE is `ResolveWrite`.  An
execution of the CAPI job goes through `Lanes`, for each app its purchases and then
its leads; in a lane it selects at most `MaxPerRun`, sends `Batch` at a time and
marks each batch.  `SendFails` covers a lost request and a lost answer: Meta may or
may not have counted the batch.  The worker has a concurrency of 1 and the job one
schedule, so an execution starts while no other has the lock (`Owner`); one that
stalls long enough loses it (`LoseLock`, a fault), BullMQ starts the job again, and
the first goes on beside the second with the rows it had selected, since nothing in
the code asks for the lock.

`Outbox` says what a reader may rely on: items are offered, taken by a sender, sent
one or more times, and settled only after a send; a settled item is not taken, and
while no sender has been let in beside another it is not sent either.
`ImplementsOutbox` is the refinement (`offered` = resolved purchases and stored
leads, `held` = the rows each execution has selected and not marked, `sent` = how
often Meta accepted, `settled` = `capi_uploaded_at`, `overlaps` = lost locks).

### TouchStitch

`touches` is the table in commit order.  A post has a session, perhaps a user, an
envelope (absent, undecryptable, or of a campaign) and a label (generic
`fb4a`/`ig4a`, or its own, with or without an envelope).  A request goes lookup,
insert, link, stitch, propagate, as `writeTouch` does, each step one statement;
`Abandon` is a statement that throws or a process that dies.  The marker is what
matters of `raw.meta_install_referrer`: absent, with a nonce (decrypted) or
`propagated`.  The backfill pages by id, works on rows read earlier (`page`), and
ends with the one statement that spreads campaigns over sessions.  The row's
campaign stands for campaign, ad set and ad, which are always written together.

### EventStore

Time is in ticks, `MonthLength` of them to an IST month.  The cron fires at the
first tick of an IST month, when the UTC month is still the previous one
(`UtcLag`).  A row is its primary key, the event and its clamped time; what is
outside the monthly partitions is in the default one.  `CreateRefused` is
PostgreSQL's refusal to create a partition for rows the default partition holds.

### SegmentCompiler

A criterion is compiled to a set of users, a group to the intersection or union of
its children: each operator is the function of `compile.ts` of that name, and
`CompileGroup` follows the tree as a recursive function over the finite set
`Groups`.  The tables fill up while days pass; `ties` is what ntile's `order by`
leaves open.  `Fits` and `Means` say independently, user by user, what the labels
of `describeCriterion` say of a criterion and the tree of a definition.

### CampaignFunnel

One operator per CTE of the query, in its order, from `entity_campaign`
(`CampaignsOf`) and `campaign_alias` (`Alias`) to the final join
(`CampaignFunnel`).  Joins are sets of records with a field for each side, so that
a join that fans out gives more records and is seen in the sums; `Ids` is a set for
the same reason, since a session may be linked to two users.  Only the rows'
arrival is state: touches (in the order of their ids, which matters to
`meta_installs`), events, orders, links, and the stitching of earlier touches by
`writeTouch`.  `tie` is the choice `distinct on` leaves open.  Ids, names and utm
values are numbers, as `order by` compares them.  External ids are unique in a
channel, as Meta's and Google's are; the unique index of `ad_entity` includes the
level and would allow two, and the spend below them would then count twice.

### EventMetrics

Extends `EventStore`, whose rows and links are all it reads: `Matches` is the LEFT
JOIN with `identity_link`, `IdentityKey` the `coalesce` of `IDENTITY_KEY`, and
`Dau`, `Funnel` and `RetentionReport` are the three queries.  The code casts times
to dates in two ways, the window and the daily users by the timezone of the database
session, which nothing in the repository sets, and the cohorts by that of India;
`SessionDay` and `IstDay` are the two, any functions in the theorems and half a day
apart in the run.  A funnel step is a CTE of the query, here a value of the
recursive function in `StepTimes`: who fired it, and first when.  A row with neither
id is in `by_event` and in nothing else, as in the code; `Known` tells it apart.
`LoginKeepsProgress` compares the reports before and after a link is written.

### AdIngest

One channel's job.  The platform counts the spend of `Units` (Meta: ads; Google:
ad groups) and restates a day for `RestateDays`; `EntityOf` is the entity a unit's
rows are stored under, the ad itself or the ad group's campaign.  The four awaits
of `runIngest` are `StartIngest`, `FetchEntities`, `FetchPerformance` and
`StorePerformance`; `IngestFails` may end it at any of them, and the next run has
the window of its own day.  `RowTwice` is PostgreSQL's refusal of an upsert that
meets a key twice.  `answered` is history: the days of runs that had every answer.
One run is in progress at a time: an execution that has lost its lock and goes on
beside the next is not modelled here, nor in `GeoRun`.

### AlertWatch

An evaluation reads costs, then counts first orders, then, proposal by proposal,
checks (`CheckFired`), inserts, notifies each recipient and proposes a decision,
each a statement or call of its own.  `owner` holds the job's lock; `LoseLock` is
its expiry under a stalled worker, which goes on beside the next.  A proposal
stands for rule and message.  An evaluation knows a campaign by its name alone:
`entityName` is `ad_entity.name`, nullable and not unique, which an ingest may change
between any two steps (`Rename`).  `Propose` takes any entity that bears the name the
costs were read under, and does nothing, as `proposeAction` does, for a campaign that
had none or whose name nobody bears any more.  `givenUp` is history: the names taken
from their last bearer, for which `FollowUpsCostFaults` does not expect a decision.

### GeoRun

`lane[r, l]` is lane `l` of attempt `r` of the weekly job, at a question of an
engine; `aborted` and `nextEngine` are the variables its lanes share.  A failed
answer is skipped, a failed insert ends the run at once and lets the other lanes
go on until they next look at the flag, beside the retry.  `LatestRun` is the
newest `run_at` of the rows, which the reports take.

### BookingProducer and SpendReports

`emission[b, k]` is the `k`-th call of `emitBookingPaid` for booking `b`: it counts
prior bookings, then posts, at most `1 + Backoffs` times; `PostFails` may come
before the row, between row and link, or after both.  `queued` is history: users
one of whose bookings was paid before the conversion of an earlier one arrived.
The backend's handlers, which pay and delete, are external.  `SpendReports` extends
it with the queries of `serving/queries.ts` over the conversions delivered and a
constant table of spend.

### TouchBeacon

A landing is refused or answered, sanitized and forwarded at most `Forwards` times;
a failed forward may have been carried out.  Each forward carried out is a row:
`attribution_touch` has no key for it.

### MCSideBySide

These components share no state with each other (`EventMetrics` none with the
other five), so one run checks them all: `running` is chosen at first, and only
that component moves.  The states of all add up instead of multiplying.

## Runs

| Run | Properties | What it shows |
|---|---|---|
| `MCSegmentRefresh.cfg` | `TypeOK`, `OneRefreshPerSegment`, `RebuildNeverRegresses`, `CountIsOfStoredRows`, `EventuallyCurrent`, `FailureReported` | One user-made segment edited twice (its second definition never compiles), two worker processes, crashes, lost locks, stalled jobs and failing calls: refreshes exclude each other, never go back, and every edit and failure is caught up with or reported. |
| `MCSegmentRefreshShared.cfg` | `EventuallyCurrent` | A system segment written and rewritten by the seed script and a user-made one, edited and given other intervals, share one worker: neither starves the other, although the seed script neither clears the stamp nor enqueues. |
| `MCSegmentRefreshEdits.cfg` (violated) | `EditsAreDue` | An edit made while a refresh of the old definition runs: its add() is swallowed by the running job, which then overwrites the nulled stamp, and the edit waits a whole interval. |
| `MCSegmentRefreshArchive.cfg` (violated) | `ArchivedIsPurged` | A segment archived while a refresh that has already loaded it runs gets its members back, and keeps them. |
| `MCConversionPipeline.cfg` | `TypeOK`, `EarlyTouchAttributed`, `DoublesCostFaults`, `AttributionFinal`, `ImplementsOutbox`, `LanesFlow` | Two overlapping resolver runs and two executions of the CAPI job, one of which has lost its lock, on the leads of one app, one of which Meta always rejects, and the purchases of another, with crashes, lost answers and retries: attribution is written once and from the touch that was there, uploads implement the outbox, doubles cost faults, and the purchases reach Meta although the leads are stuck. |
| `MCSegmentCompiler.cfg` | `MembersMeanIt`, `BandIsTopSpenders`, `TimeOnlyRemoves` | 61 definitions, nested and negated, over every history of three orders and events (late, anonymous, of another app) in three days, on instances with and without app_event: set composition means what the tree says of each user. |
| `MCTouchStitch.cfg` | `TypeOK`, `PropagatedFromSession`, `StitchedAreLinked`, `BackfillCovers`, `CorrectedOnce`, `BackfillEnds` | Two concurrent touch posts and a paging backfill on two sessions, with a key configured late and statements that fail: corrections are made once and from the session's own envelope, stitches are backed by links, and a finished backfill has missed nothing. |
| `MCTouchStitchQuiet.cfg` (violated) | `QuietSessionsCorrected` | A generic touch that looks for a decrypted one just before it is stored, and is itself stored just after the propagation, stays generic although nothing has failed. |
| `MCEventStore.cfg` | `WindowHasPartition`, `RetentionKept`, `AckedIsLinked` | Three months of event posts, retries and clock-skewed clients against the monthly partition job, which may be late, fail and be retried, from the months the migration seeds, the furthest of which the first run drops: while nothing fails the insert window has its partitions; whatever fails, no retained row is dropped and an answered batch is linked. |
| `MCCampaignFunnel.cfg` | `FilterKeepsCredit`, `RowsAddUp`, `InstallInOneWindow`, `NothingLaterIsCredited` | Every history of two touches and two events or orders of two sessions and two users, linked and stitched in any order, in every window of two days and under five filters: credit does not depend on the filters, nothing is multiplied by shared names, installs stay in one window, and nothing later takes an order. |
| `MCSideBySide.cfg` | `TypesOK`, `LookbackAbsorbs`, `AlertsCostStalls`, `FollowUpsCostFaults`, `AnswersKept`, `FirstOrderOnce`, `OrdersCostFaults`, `RevenueOnce`, `TouchesCostFaults`, `ReportsAgree`, `LoginKeepsProgress` | Six components that share no state, one of them running in each behaviour: the event store with its reports, the ad ingest of one ad group a campaign, two overlapping alert evaluations whose campaign the ingest may leave without a name, a GEO job and its retry, the backend's producer with the spend reports, and the edge beacon. What fails costs no more than its own rows, and the reports agree with each other, in whatever timezones they cast times to dates. |
| `MCAdIngestGoogle.cfg` (violated) | `LookbackAbsorbs` | Two ad groups of one Google campaign have spend on the same day: the upsert holds that campaign and day twice and is refused, every time it is tried. |

The bounds are named in the configurations.  Two workers, resolvers or writers
are enough for an overlap, and every property speaks of one segment, item or
session, or of a pair; the second one in a run is there to show non-interference.
Two faults allow a failure during the recovery from a failure.  Three versions of a
definition allow the members, the snapshot and the row to be of different ones.
Two executions of the CAPI job, three items and a batch of one let a stalled one
hold what the next has marked; its purchases wait one at a time (the instance with
two of them in a lane, eight million states, has passed too).
The run of two segments has two versions, both of which compile: what the seed
script or an edit writes over a fresh row is the second.
In the event run three months pass, so a month is seeded, created, and dropped
(`Retention` 2; with a retention of 1 the job drops the month its 30-day window
reaches back into, see the open points).  Its seeds are those of the migration, the
month of the installation and the next three (`MCSeeded`), of which the first run
drops the last, to be created again when it is near.  `WindowHasPartition` is stated
while nothing has failed: it says that the schedule is enough, not that an instance
recovers from a run that was refused or missed, which it does not (see the open
points).

The compiler's run asks 61 definitions in every state: each criterion alone with
each of its comparisons, with and without a window, pairs, and groups of depth
three.  Three rows are what "last", "first", "twice" and "somebody else" need; two
buckets stand for ntile's hundred, with two and three users so that they come out
even and uneven.  In the report's run two touches suffice to compete, two facts to
be a first and a second of a stage, two links to give a session two users.

The run side by side has about a million states.  Its three events are a visit and
two logins from one session, so that a session gets its second user after rows of
the first; a window of three days and restatement for one leave a day for the run
that must absorb it; two evaluators and two mishaps are an overlap with one failure
more, and `MaxMishaps` bounds the changes of a name together with them, so a
campaign loses its name and gets it back, or loses it beside a failure; two lanes,
two engines and two attempts let a lane of the first attempt store beside the
second; two calls for each of two bookings of one buyer overlap, repeat and overtake
each other.

Symmetry is used for `Evaluators` and `Lanes` in that run, which are
interchangeable and in no constant's value; its one temporal property is an action
property of another component.  The runs with liveness do not allow it.  Deadlock
is not checked: the clients may stop, and bounded posts, versions and ticks run
out.

### Fairness

`SegmentRefresh!Fairness`: a started handler, refresh or dispatch ends (calls have
timeouts, `statement_timeout` among them), stalled jobs are checked (BullMQ's
timer), intervals elapse.  Strong fairness of `Take` and `StartDispatch`: the wait
list is FIFO and the dispatcher is re-added every 15 minutes, so a worker that is
idle infinitely often gets to each; weak fairness would not do, since other jobs
make a worker busy in between.  Faults are bounded, so from some point on nothing
fails.  `ConversionPipeline!Fairness`: the two schedules recur and a started query
or call ends.  `TouchStitch!FairSpec`: a started backfill runs on; nobody is obliged
to start one.  `EventuallyCurrent` and `FailureReported` have as a premise what no
fairness gives, that intervals are not made longer each time they are over
(`IntervalKept`).  The others have no liveness property: what must eventually happen
there rests on somebody outside, a client, a platform, a browser, trying again.

## Proofs

Seven modules prove, for all values of the constants, what the runs show for small
ones; `Counting` holds the facts about sums and injections they share.

| Module | proves about |
|---|---|
| `SegmentRefreshProofs`, `SegmentCompilerProofs` | refreshes; the compiler of definitions |
| `ConversionPipelineProofs` | ingest, resolver, upload, and the outbox they implement |
| `TouchStitchProofs` | touch requests and the backfill |
| `CampaignFunnelProofs` | the campaign report |
| `DeliveryProofs` | what is delivered over a network: `EventStore`, `BookingProducer`, `TouchBeacon`; and the reports on it: `EventMetrics`, `SpendReports` |
| `ScheduledJobProofs` | what a schedule starts: `AlertWatch`, `GeoRun`, `AdIngest`; and `MCSideBySide`, these beside what is delivered |

| Theorem | Property | What it establishes |
|---|---|---|
| `SegmentRefreshProofs!TypeCorrect` | `TypeOK` | Every row, job and worker of segment refresh stays within its type, attempts and stalls included. |
| `SegmentRefreshProofs!InvariantHolds` |  | The inductive invariant: refreshes hold their lock and their snapshots lie between the stored members and the row. |
| `SegmentRefreshProofs!MutualExclusion` | `OneRefreshPerSegment` | Any number of workers, handlers and segments: two workers never refresh one segment at once unless its lock expired. |
| `SegmentRefreshProofs!NeverRegresses` | `RebuildNeverRegresses` | A rebuild never replaces members by those of an older definition. |
| `SegmentRefreshProofs!CountMatchesRows` | `CountIsOfStoredRows` | A recorded count is that of the rows in place, or these have been purged. |
| `ConversionPipelineProofs!TypeCorrect` | `TypeOK` | Every run, row and counter of the conversion pipeline stays within its type. |
| `ConversionPipelineProofs!AttributionIsFinal` | `AttributionFinal` | However many resolver runs overlap, an attribution is written once. |
| `ConversionPipelineProofs!EarlyTouchIsFound` | `EarlyTouchAttributed` | A purchase stored after its touch is never attributed to none. |
| `ConversionPipelineProofs!UploaderInvariant` |  | However many executions of the CAPI job have lost their lock and go on beside its owner: what each holds may be sent, what it marks has been accepted, and every send beside the regular one has cost a fault. |
| `ConversionPipelineProofs!EachDoubleHasAFault` | `DoublesCostFaults` | However many executions overlap, Meta accepts an item at most once more than there were faults. |
| `ConversionPipelineProofs!PipelineImplementsOutbox` | `ImplementsOutbox` | Any number of executions, lanes and batches: the pipeline implements the abstract outbox. |
| `ConversionPipelineProofs!NoneSentAfterMark` |  | While no execution has lost its lock, no step sends an item that is marked. |
| `TouchStitchProofs!TypeCorrect` | `TypeOK` | Any number of posts, requests and backfill runs: rows, requests and links stay within their types, and there is room for every row still to be inserted. |
| `TouchStitchProofs!CorrectedOnceHolds` | `CorrectedOnce` | A corrected touch keeps its campaign and marker, whichever of requests and backfill runs comes next. |
| `TouchStitchProofs!StitchedHolds` | `StitchedAreLinked` | A touch bound to a user it was not posted with has a link of its session to that user behind it. |
| `TouchStitchProofs!PropagatedHolds` | `PropagatedFromSession` | A copied campaign is that of a decrypted touch of the same session, however old the copy's source read was. |
| `TouchStitchProofs!CoversHolds` | `BackfillCovers` | A finished backfill has corrected what was there when it began, for every page size and whatever requests did between its pages. |
| `DeliveryProofs!TypeCorrect` |  | Rows, requests, partitions and the job stay within their types. |
| `DeliveryProofs!AckedHolds` | `AckedIsLinked` | Whatever attempt inserted them, acknowledged events of a session with a user are linked. |
| `DeliveryProofs!RetentionHolds` | `RetentionKept` | Whatever months were seeded, late, repeated and half-done runs drop no retained row, as long as no attempt is still at work more than a month after the one it computes with (Prompt), for every month length, clamp window and retention. |
| `DeliveryProofs!PromptHolds` |  | A job held up by fewer faults than a month has ticks is never at work that long: every behaviour of such an instance has what RetentionHolds asks for. |
| `ScheduledJobProofs!AlertsHold` | `AlertsCostStalls` | Any number of executions and days: an alert fires once a day, and once more for each lost lock at most. |
| `ScheduledJobProofs!GeoTypes` |  | Runs, lanes, rows and skipped questions stay within their types. |
| `ScheduledJobProofs!GeoHolds` | `AnswersKept` | A completed run stored each answer once and is the one the reports show, for every number of engines, questions, lanes and attempts. |
| `DeliveryProofs!BeaconTypes` |  | Requests, rows and counts stay within their types; no attempt goes beyond the last. |
| `DeliveryProofs!BeaconHolds` | `TouchesCostFaults` | For every number of forwards: a touch is lost only with all of them or when dropped, doubled only by a lost answer, and without consent has no click ids. |
| `DeliveryProofs!FirstOrderHolds` | `FirstOrderOnce` | For every number of bookings and repeated calls: one first order a user, another only for a booking deleted since, and one at least unless bookings overtook conversions. |
| `DeliveryProofs!OrdersHold` | `OrdersCostFaults` | For every number of retries: an order is lost or unlinked only when each post of each of its calls failed, or the backend died in one. |
| `DeliveryProofs!WindowHolds` | `WindowHasPartition` | If the seeds leave no gap from the first of them to the month after installation (SeedsCover) and clamps reach less than a month ahead, then without faults every time an event can be clamped to has a partition, for every month length, delay and retention. |
| `DeliveryProofs!ReportsHold` | `ReportsAgree` | For every number of events, requests, links and funnel steps, and whatever two timezones the code casts times to dates by: cohorts add up to the users, none exceeds the daily users of the dates it has a share in, funnels narrow, and unclamped events of one user's sessions are counted once, however often posted. |
| `DeliveryProofs!LoginHolds` | `LoginKeepsProgress` | For every number of events, sessions, users and funnel steps: a link added takes no user a step back and loses nobody's anonymous progress. |
| `DeliveryProofs!RevenueHolds` | `RevenueOnce` | For every number of bookings, repeated calls, ads and days: the reports by campaign and by channel add up to the same revenue, spend and customers, and while no booking is deleted each order of an acquired customer counts once. |
| `DeliveryProofs!ProducerTypes` |  | Bookings, calls, rows and failures stay within their types, an order has one row, and only sessions of orders with a row are linked. |
| `ScheduledJobProofs!AlertTypes` |  | Alerts, messages, decisions and executions stay within their types: each message and decision is of an alert, each proposal of a rule. |
| `ScheduledJobProofs!FollowUpsHold` | `FollowUpsCostFaults` | Any number of executions, overlapping or dying anywhere, and campaigns unnamed or renamed at any time: the alerts left without their notification, or without the decision that campaign's name allows, are no more than the mishaps. |
| `ScheduledJobProofs!AdTypes` |  | Facts, entities, units and jobs of the ad ingest stay within their types, whatever platforms answer. |
| `ScheduledJobProofs!ClearWindowsAbsorb` |  | Whatever units the entities have: one run with all its answers while a date is due stores it right for every app, unless two units of one entity had spend on a day of its window. |
| `ScheduledJobProofs!TwoUnitsBlock` |  | While a date that is due has spend from two units of one entity, no run stores anything, of any entity, date or app. |
| `ScheduledJobProofs!LookbackHolds` | `LookbackAbsorbs` | So, where each entity's spend comes from one unit (OneUnitEach), every such run does, for every window, restatement and number of apps and entities. |
| `ScheduledJobProofs!EachRunsAlone` |  | Side by side, the six components each behave as they do alone. |
| `ScheduledJobProofs!AllTypesHold` | `TypesOK` | The state of all six has its types, whichever of them run. |
| `ScheduledJobProofs!SideBySideHolds` |  | What the run side by side asks of them holds for every number of events, reports, executions, lanes, bookings, landings and failures, the lookback for clear windows. |
| `CampaignFunnelProofs!TypeCorrect` |  | Touches, facts, links and the order of ties stay within their types, each touch as posted or stitched. |
| `CampaignFunnelProofs!FilterHolds` | `FilterKeepsCredit` | A filtered report shows a campaign with the credited stages of its unfiltered row, for every window, filter and content of the tables. |
| `CampaignFunnelProofs!InstallHolds` | `InstallInOneWindow` | An identity installs on no more days than it has referrers, for any number of events, links and days. |
| `CampaignFunnelProofs!LaterHolds` | `NothingLaterIsCredited` | A new touch changes the credit of no order that was stamped before it, nor a click stamped after, whatever is in the tables. |
| `CampaignFunnelProofs!RowsHold` | `RowsAddUp` | If an external id names one entity of its channel (IdsDistinct) and every fact's campaign has a name (Named), the rows add up to the clicks and the spend of the window, for every window and tables: nothing is counted in two rows. |
| `SegmentCompilerProofs!TablesTyped` |  | Rows, clock and the order of ties stay within their types, and without its table there are no events. |
| `SegmentCompilerProofs!MembersHold` | `MembersMeanIt` | For any set of definitions up to the depth the schema allows and every content of the tables: the composed sets hold whoever the tree is true of, negations included. |
| `SegmentCompilerProofs!TimeHolds` | `TimeOnlyRemoves` | Time alone makes nobody a member of a definition without negation or upper bound, for any definitions and rows. |
| `SegmentCompilerProofs!BandHolds` | `BandIsTopSpenders` | A percentile band holds those who spent most and is no larger than its share, for any number of buckets and buyers, however ties are ordered. |

*Segment refresh.*  `OneRefreshPerSegment` is not inductive: it does not know that
a refreshing worker holds its job's lock.  `IInv` adds that (`LockHeld`), and for
the versions that the members are of a definition the row has had
(`MembersOfKnownDefinition`) and that a snapshot lies between the stored members
and the row (`SnapshotBetween`).  The last needs the lock: only because nobody
else rebuilds meanwhile are the members not newer than the snapshot.
`RebuildNeverRegresses` and `CountIsOfStoredRows` then follow step by step, since
lemmas name the only actions that change members and counts.

*Pipeline.*  `ResolverInv`: a run holds stored purchases, and one whose touch was
stored first has been seen with it.  `UploaderInv` has three parts.  `LockInv`: one
execution has the lock.  `HoldingInv`: what each holds is offered, unmarked unless
a lock was lost, and accepted when it is about to be marked.  `SendsCostFaults`
keeps the books of `DoublesCostFaults`, for each item: the `Regular` send is that of
the owner about to mark it, or of whoever marked it; the executions that may still
send it beside that (`Late`: the stalled ones, and after the mark whoever holds the
item) and the sends there were are together no more than the faults.  A lost lock
pays for the execution it leaves behind, a failed call or a crash for the send that
will be repeated, and a late send closes its own account.  A mark by a stalled one
makes the owner's send late, if it holds the item, and takes the place of the
regular send in the books.
The refinement maps `Ingest` of a lead and `ResolveWrite` to `Offer`, `Select` to
`Take`, an acceptance to `Send`, `Mark` to `Settle`, `LoseLock` to `Overlap`, and
what ends a lane to `Drop`.

*Touches.*  `Types` adds to `TypeOK` a row reserved for every request that has yet to
insert one, without which `MaxRows` is no bound.  `RowsKept` says what no step does
to a row; `CorrectedOnce` is part of it.  `BoundInv` is about what a request holds
between its statements (`Held`): a request about to stitch has written its link,
and one that carries a copied campaign knows a decrypted touch of its session,
which is still there because rows are kept.  `CoverInv` puts the rows a backfill has
yet to correct ahead of its position (`Ahead`), in its page or beyond its last id.

*Events.*  `IInv` adds to `TypeOK` that a row's event has been minted and that what a
request has yet to link is all its new rows need.  For the drops, `JobInv` bounds
the partitions and the month of a run by the clock: a run's month is never ahead of
it nor, while runs are `Prompt`, more than one behind, so a partition it does not
name is either old, or two months ahead of the clock at least and without a row, as no
clamp reaches that far.  Without `Prompt` it is false: a run held up for more than a
month would drop a partition already in use (see the open points).  `PromptHolds`
discharges it for jobs held up by fewer faults than a month has ticks: the cron finds
the job at rest, and each tick it is not done by costs a fault (`HeldInv`).

*Partitions.*  `WindowInv`: while nothing has failed a run takes place at the first
tick of a month, no run is refused a partition or drops a month still in use, and
of the months within one of the clock only the next may be missing, until the run
has created it.  It needs seeds without a gap (`SeedsCover`) and clamps that reach
less than a month ahead (`CLAMP_FUTURE_MS` is an hour).

*Alerts.*  `FireInv` counts: executions in progress other than the owner of the lock
have each cost a lost lock, and the alerts of a proposal today with those about to
be inserted are no more than one and the locks lost, because an execution passes the
check only while no alert is there.  `FollowInv` keeps the books of
`FollowUpsCostFaults`: lost alerts, executions without the lock and executions that
owe somebody a message are together no more than the mishaps, each step pays for the
one it adds, and an execution that dies beside the owner turns its own account into
a lost alert.  `NamesInv` is for the decisions: a name that an execution or an alert
has from the costs is borne by a campaign still, or was given up.  `CarryInv` types
what an execution carries from one statement to the next (`Carries`), which the rows
it writes are made of.

*GEO.*  `GeoInv`: a lane has settled the questions of its engine before the one it is
at and touched none after, no two lanes of a run have one engine, a run nothing has
failed in leaves no engine behind unsettled, and a run starts only after the one
before has failed.

*Producer.*  `FirstInv`: a call that found its booking to be the first makes every
later count of that buyer find it paid, so of two such bookings one is deleted
since; for a buyer who never overtook himself at most one booking is without its
conversion.  `TriesInv` injects the attempts made into the failed posts.

*Event reports.*  `ClampInv`: a row has the time some clock since the installation
clamped its event's stamp to.  So a stamp in the window of the first clock and of
the present one has one row, however often it was posted, and while no session has
two users the rows joined are in bijection with the events.  Cohorts partition who
acted (`CohortsAdd`), and as nothing is assumed of the two dates of a time, a cohort
is within the union of the daily users of the session's dates that its own has times
in (`CohortWithinDays`, from `CountCover` in `Counting`).  `TimesExist` is the
induction behind the funnel's recursion, by the least step without times; the steps
narrow because each draws on the one before.  For a login, `Has` says that one
identity has all rows of another: it then took each step no later (`FurtherOn`), and
`LoginAdvances` finds, for each identity a row had, one that has all its rows after
the link.

*Spend reports.*  `RevInv` is what the reports need of the conversions: of two first
orders of a buyer one is deleted, which `FirstInv` gives (`Reported`).  The rows of
`CohortRevenue` and `LtvCac` are then two partitions of the same pairs of an
acquired customer and an order (`RevenueAdds`), spend by channel is a partition of
the facts (`SpendAdds`), and while nothing is deleted the pairs are in bijection
with the orders (`OrderOnce`) and customers with acquisitions (`CustomersOf`).

*Ad ingest.*  `AdInv`: runs are dated one after the other (`Dated`), a run about to
store holds one row of every unit and date that is due, with the final number, and
the entities of all of them (`Fetched`), and what was due in a run that had every
answer is stored right for every app, as is what the present run is done with
(`StoredInv`).  The last is said of runs whose windows are `Clear`: no two units of
an entity have spend on one day.  A refused insert shows that its window was not, one
that went through that no date that was due had two (`DueSingle`); and what is clear
was so before, as spend is restated but not taken back.  `LookbackAbsorbs` follows
where every window is clear.

*Side by side.*  A step of one component leaves the variables of the others alone, so
the composed specification implies that of each (`EachRunsAlone`), and what is
proved of one alone holds beside the others.

*Beacon.*  `Paid`: an attempt failed for every one before it, a row is there for every
answer lost, and what is forwarded is what `Sanitized` left.

*Compiler.*  A definition is a table of groups whose children are shallower, and the
schema allows three levels; so `Recursion` unrolls the compiler's recursive
functions over three levels, and `FromLeaves` is the induction, done by hand.  Each
criterion's query means what the criterion says (`CriterionMeans`), and INTERSECT,
UNION and EXCEPT are and, or and not of what is below.  For the bands `FirstBuckets`
is ntile's arithmetic, with its larger buckets first, and `RanksInOrder` says that
whatever order the ties are in, a rank is no lower than that of anybody who spent
less.

*Report.*  Winners are functions of the touches and of one fact, which the channel
and medium of the row do not enter: hence the filter.  A touch stamped later is
outside the lookback of an earlier order, and whoever won before wins again with one
candidate more.  The installs are an injection from days to referrers, and the rows
a partition of the clicks and the facts, by campaign (`SumGroups` and `CountGroups`
in `Counting`).

### Hypotheses

The assumptions on the constants in the modules, which every run evaluates, and
these of single theorems:

- `Prompt`, of `RetentionHolds`: a run creates, lists and drops within a month of the
  month it computes with.  The job is a few statements, and a new attempt computes its
  month anew, so it takes an attempt that hangs for a month to break this;
  `PromptHolds` derives it from a bound on the faults.
- `SeedsCover`, of `WindowHolds`: the installed months reach from a month not after
  the first start to one after it, without gap.  The migration seeds the month it is
  written for and the next three (see the open points for what happens to an instance
  installed later).
- `OneUnitEach`, of `LookbackHolds`: one unit for each entity that has spend.  So it
  is for Meta's ads and for Google campaigns with one ad group; with two the property
  is false, as run `ingest_google` shows.  `ClearWindowsAbsorb` says without it what
  remains true, `TwoUnitsBlock` what two ad groups cost.
- `IdsDistinct`, `Named`: an external id names one entity of its channel, whatever
  its level, and the campaigns of facts have names.  Platforms number all levels in
  one space; the spend of a campaign without a name is in no row of the report.

Assumptions of modules that say where a statement ends: tables and `Names` are
finite; at most fifty event names, the `limit` of `by_event`; no user's key is a
session's, since `user_id` is a `BIGINT` and a session's key starts with `sid:`.
The campaign report is taken without its `limit` (`MAX_CAMPAIGNS`), so what is said
of its rows is said of reports of up to a hundred campaigns.

### Only model-checked

The liveness properties, `EventuallyCurrent`, `FailureReported`, `LanesFlow` and
`BackfillEnds`: fairness is about `ENABLED`, which the prover does not reach.  The
four statements that TLC refutes, of course, and that the actions are enabled at
all, which the runs show.  Every other property of a passing run is the statement of
a theorem in the table above.

## What the code does not do

Four statements of comments and tests that TLC refutes; details under `findings`.

- `EditsAreDue`: an edit during a refresh waits for the next interval.
- `ArchivedIsPurged`: an archive during a refresh is undone, for good.
- `QuietSessionsCorrected`: two concurrent posts of a session miss each other.
- `LookbackAbsorbs`, with two ad groups in a Google campaign: the upsert of the
  window that should absorb a restatement is refused, as every later one is.

Open points, seen while modelling and without a run:

- *Uploads.*  An answer lost after Meta accepted, or a crash before the mark, sends
  an item twice, although `0003_conversion_capi_upload.sql` says the column is there
  so that the job "never double-sends"; `DoublesCostFaults` bounds it, and Meta's
  `event_id` dedup makes it harmless.  A rejected item blocks the rest of its own
  lane for ever.
- *Resolver.*  Its snapshot has a limit and no order.  Outcomes never follow a late
  touch or a late ad entity.
- *Segments.*  An archived segment made active again is empty until its interval
  has elapsed.  `order_frequency` with `lte` or `eq` 0 selects nobody, because
  `group by` has no row for a user without orders.  With fewer than a hundred buyers
  ntile's upper buckets are empty, "bucket 100 = top 1%" (`compile.ts:85`)
  notwithstanding: percentile 90 of fifty buyers selects nobody.  A numeric test of
  a property that one event holds as text fails the whole refresh.
- *Events.*  A retried batch is clamped against a later clock: an event stamped
  outside the window gets another key and is inserted again, against
  `event-writer.ts:33`.  Once a row of a month is in the default partition, the job's
  CREATE for that month is refused, and creation and retention stop; an instance
  installed after the seeded months is in that state from the start.  With
  `MIL_EVENTS_RETENTION_MONTHS` = 1 clamped events of the previous month go to the
  default partition.
- *Event reports.*  The comment on `windowClause` says "an IST day range ... in
  +05:30" (`event-queries.ts:36`), but it casts by the timezone of the database
  session (lines 39-40), as the daily users do (line 52), and only the cohorts are
  India's (lines 184 and 192).  In a session that is not in India's timezone an event
  of 20:00 UTC is of one date for the daily users and of the next for its cohort, and
  the first and last cohort of a window are cut.  `ReportsAgree` says what holds all
  the same.
- *Alerts.*  `proposeAction` looks the entity up by name (`evaluate.ts:107`) and may
  propose to pause a namesake; for a campaign without a name, or renamed since its
  costs were read, it proposes nothing, and says nothing.  An alert whose
  notification was lost is never notified, since it has fired today.
- *Producer.*  Two bookings paid before either is counted leave a user without a first
  order, and without one in every report that counts acquisitions.
- *Partitions.*  A run drops every partition it does not name, the month the migration
  seeds three months ahead among them; later runs create it again.  A run held up
  between its first statement and its drops for more than a month would drop a
  partition in use.
- *Report.*  An order late on the window's last day loses a touch sent within the
  grace but after midnight, because the pool of touches ends with the window (line
  223), against the comment at lines 243-245.  An order credited to a campaign with
  neither touch nor spend in the window is in no row, although the touch is within
  the lookback.  `first_party_clicks` follows the channel and medium filters, "a
  filtered row shows the same numbers" (line 31) notwithstanding;
  `FilterKeepsCredit` is stated for the credited stages.  A session linked to two
  users has two identities, and an event of it is credited to both.

## Not modelled

HTTP clients (ad platforms, answer engines, review stores, WhatsApp), text for
language models, start-up and configuration, lists for display (overviews, recent
events, the registry of event names, segments), and BullMQ's and PostgreSQL's
insides beyond what the code relies on.  The reviews job writes one row per source
and day, first write wins: there is nothing between two of its steps to go wrong.
`PROJECT.json` has a reason for each component.

## Plan

1. `SegmentRefresh`, `ConversionPipeline` with `Outbox`, `TouchStitch`, `EventStore`:
   done, with proofs of their safety properties.
2. `AlertWatch`, `GeoRun`, `AdIngest`, `TouchBeacon`, `BookingProducer`: done, with
   proofs.
3. `SegmentCompiler`, `CampaignFunnel`, `EventMetrics`, `SpendReports`: done, with
   proofs.
4. Left: `LastTouch`, `findLastTouch` and `mapTouchToEntity` as operators against a
   reference choice; the payloads of `meta-capi.ts` and the cases of
   `meta-install-referrer.ts` that `TouchStitch` folds into four; the stream of
   `app_event` volumes behind the overviews.
