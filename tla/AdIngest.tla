------------------------------ MODULE AdIngest -------------------------------
(***************************************************************************)
(* The ad data ingest of one channel: for every enabled app in turn, fetch *)
(* the entities and the daily performance of a rolling window of days from *)
(* the ad platform and upsert them.  An app stores the whole account, the  *)
(* connectors ignore which app they are called for.                        *)
(*                                                                         *)
(* The platform counts the spend of units (Meta: ads, Google: ad groups),  *)
(* each stored under one entity (the ad; the ad group's campaign), and     *)
(* restates a day for RestateDays days.  A spend stands for a whole row.   *)
(***************************************************************************)
EXTENDS Naturals, Sequences, FiniteSetsExt

CONSTANTS
    EnabledApps,   \* MIL_ENABLED_APPS, in order
    Units,
    EntityOf,      \* the entity each unit's performance is stored under
    Derived,       \* Google: the entities are those of the window's rows
    Lookback,      \* days of the window
    RestateDays,   \* after these a day's numbers are final (external)
    MaxDay, MaxSpend

ASSUME IngestAssumption ==
    /\ EnabledApps \in Seq(STRING) /\ EnabledApps # <<>>
    /\ \A i, j \in DOMAIN EnabledApps : EnabledApps[i] = EnabledApps[j] => i = j
    /\ IsFiniteSet(Units) /\ DOMAIN EntityOf = Units /\ Derived \in BOOLEAN
    /\ {Lookback, RestateDays} \subseteq Nat \ {0}
    /\ MaxDay \in Nat /\ MaxSpend \in Nat \ {0}

Apps == {EnabledApps[i] : i \in DOMAIN EnabledApps}
Entities == {EntityOf[u] : u \in Units}
StatDays == 0..MaxDay

VARIABLES
    adDay,      \* today
    spent,      \* the platform's spend of each unit on each day; 0: no row
    stored,     \* ad_performance_daily, 0: no row
    run,        \* the ingest job
    answered    \* days a run was started on that had every answer (history)

adVars == <<adDay, spent, stored, run, answered>>

Idle == [pc |-> "idle", app |-> 1, day |-> 0, ids |-> {}, report |-> {}]
Rows == [unit : Units, date : StatDays, spend : 1..MaxSpend]

AdTypeOK ==
    /\ adDay \in StatDays
    /\ spent \in [Units \X StatDays -> 0..MaxSpend]
    /\ stored \in [Apps \X Entities \X StatDays -> 0..MaxSpend]
    /\ run \in [pc : {"idle", "entities", "performance", "store"}, app : DOMAIN EnabledApps,
                day : StatDays, ids : SUBSET Entities, report : SUBSET Rows]
    /\ answered \subseteq StatDays

AdInit ==
    /\ adDay = 0
    /\ spent = [x \in Units \X StatDays |-> 0]
    /\ stored = [x \in Apps \X Entities \X StatDays |-> 0]
    /\ run = Idle
    /\ answered = {}

-----------------------------------------------------------------------------
(* The ad platform and the calendar.                                       *)

Spend(u) ==
    /\ spent[<<u, adDay>>] = 0
    /\ spent' = [spent EXCEPT ![<<u, adDay>>] = 1]
    /\ UNCHANGED <<adDay, stored, run, answered>>

Restate(u, d) ==
    /\ d <= adDay /\ adDay < d + RestateDays
    /\ spent[<<u, d>>] # 0
    /\ \E s \in 1..MaxSpend : spent' = [spent EXCEPT ![<<u, d>>] = s]
    /\ UNCHANGED <<adDay, stored, run, answered>>

NextDay ==
    /\ adDay < MaxDay
    /\ adDay' = adDay + 1
    /\ UNCHANGED <<spent, stored, run, answered>>

-----------------------------------------------------------------------------
(* runIngest.                                                              *)

\* faulty: the window is a day short.
ShortWindow(d) == {x \in StatDays : x <= d /\ d < x + Lookback - 1}

\* rollingWindow.
Window(d) == {x \in StatDays : x <= d /\ d < x + Lookback}

\* The platform's rows of the window, as of now.
Report(d) == {r \in Rows : r.date \in Window(d) /\ r.spend = spent[<<r.unit, r.date>>]}

StartIngest ==
    /\ run.pc = "idle"
    /\ run' = [Idle EXCEPT !.pc = "entities", !.day = adDay]
    /\ UNCHANGED <<adDay, spent, stored, answered>>

\* fetchEntities and upsertEntities: the ids of the rows just upserted.
FetchEntities ==
    /\ run.pc = "entities"
    /\ run' = [run EXCEPT !.pc = "performance",
                          !.ids = IF Derived THEN {EntityOf[r.unit] : r \in Report(run.day)}
                                  ELSE Entities]
    /\ UNCHANGED <<adDay, spent, stored, answered>>

FetchPerformance ==
    /\ run.pc = "performance"
    /\ run' = [run EXCEPT !.pc = "store", !.report = Report(run.day)]
    /\ UNCHANGED <<adDay, spent, stored, answered>>

\* The values of upsertPerformance: rows of entities not just upserted are skipped.
Values == {r \in run.report : EntityOf[r.unit] \in run.ids}

\* One INSERT ... ON CONFLICT DO UPDATE of all of them, which PostgreSQL refuses
\* when it would write a row twice.
RowTwice ==
    \E r, s \in Values : r # s /\ EntityOf[r.unit] = EntityOf[s.unit] /\ r.date = s.date

EndOfApp ==
    IF run.app < Len(EnabledApps)
    THEN /\ run' = [Idle EXCEPT !.pc = "entities", !.app = run.app + 1, !.day = run.day]
         /\ UNCHANGED answered
    ELSE /\ run' = Idle
         /\ answered' = answered \cup {run.day}

StorePerformance ==
    /\ run.pc = "store"
    /\ IF RowTwice
       THEN /\ run' = Idle
            /\ answered' = answered \cup {run.day}
            /\ UNCHANGED stored
       ELSE /\ stored' = [x \in DOMAIN stored |->
                  LET new == {r \in Values : x = <<EnabledApps[run.app], EntityOf[r.unit], r.date>>}
                  IN  IF new = {} THEN stored[x] ELSE (CHOOSE r \in new : TRUE).spend]
            /\ EndOfApp
    /\ UNCHANGED <<adDay, spent>>

\* A call fails or the process dies: the apps still to come are skipped, and the
\* retry of the job, or its next schedule, starts over with a new window.
IngestFails ==
    /\ run.pc # "idle"
    /\ run' = Idle
    /\ UNCHANGED <<adDay, spent, stored, answered>>

AdNext ==
    \/ \E u \in Units : Spend(u) \/ \E d \in StatDays : Restate(u, d)
    \/ NextDay
    \/ StartIngest \/ FetchEntities \/ FetchPerformance
    \/ StorePerformance \/ IngestFails

AdSpec == AdInit /\ [][AdNext]_adVars

-----------------------------------------------------------------------------
(* What the component promises.                                            *)

\* What the platform says an entity spent.
Spent(entity, d) ==
    MapThenSumSet(LAMBDA u : spent[<<u, d>>], {u \in Units : EntityOf[u] = entity})

\* However often the ingest failed, was late or stopped half-way through the
\* apps, one run that had all its answers between the day a date's numbers are
\* final and the day it leaves the window stores them right for every app.
LookbackAbsorbs ==
    \A d \in StatDays, s \in answered :
        s >= d + RestateDays /\ s < d + Lookback =>
            \A app \in Apps, e \in Entities : stored[<<app, e, d>>] = Spent(e, d)
=============================================================================
