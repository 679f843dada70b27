------------------------------- MODULE GeoRun --------------------------------
(***************************************************************************)
(* One weekly job of the GEO monitor: every engine is asked every question *)
(* and each answer is stored as an observation of the run.  At most Lanes  *)
(* engines are asked at once, an engine's questions one after the other.   *)
(* An answer that cannot be had is skipped; one that cannot be stored      *)
(* fails the job, and the queue starts it again, as a run of its own,      *)
(* while the other lanes of the failed one may still be waiting for their  *)
(* answers.                                                                *)
(***************************************************************************)
EXTENDS Integers, FiniteSets, Sequences, FiniteSetsExt

CONSTANTS
    Engines,       \* buildEngines(), in order
    Questions,     \* buildQuestionsFromEnv(), in order
    Lanes,         \* ENGINE_CONCURRENCY lanes
    Runs,          \* attempts of the job
    MaxOutages     \* bound on the stores that fail and the crashes

ASSUME GeoAssumption ==
    /\ Engines \in Seq(STRING) /\ Questions \in Seq(STRING)
    /\ Engines # <<>> /\ Questions # <<>>
    /\ IsFiniteSet(Lanes) /\ Lanes # {}
    /\ Runs \in Nat \ {0} /\ MaxOutages \in Nat

VARIABLES
    geoRun,      \* state of each run, in the order of their run_at
    aborted,     \* the shared abort flag of each run
    nextEngine,  \* the engine the next free lane of each run takes
    lane,        \* what each lane of each run is doing
    observed,    \* the geo_observation rows of each run, engine and question
    skipped,     \* the questions whose answer failed (history)
    outages

geoVars == <<geoRun, aborted, nextEngine, lane, observed, skipped, outages>>

GeoRuns == 1..Runs
Cells == GeoRuns \X (DOMAIN Engines) \X (DOMAIN Questions)
Free == [pc |-> "free", engine |-> 1, question |-> 1]
Over == [Free EXCEPT !.pc = "over"]

GeoTypeOK ==
    /\ geoRun \in [GeoRuns -> {"none", "running", "failed", "done"}]
    /\ aborted \in [GeoRuns -> BOOLEAN]
    /\ nextEngine \in [GeoRuns -> 1..(Len(Engines) + 1)]
    /\ lane \in [GeoRuns \X Lanes -> [pc : {"free", "next", "asking", "answered", "over"},
                                      engine : DOMAIN Engines, question : 1..(Len(Questions) + 1)]]
    /\ observed \in [Cells -> Nat] /\ skipped \subseteq Cells
    /\ outages \in 0..MaxOutages

GeoInit ==
    /\ geoRun = [r \in GeoRuns |-> "none"]
    /\ aborted = [r \in GeoRuns |-> FALSE]
    /\ nextEngine = [r \in GeoRuns |-> 1]
    /\ lane = [x \in GeoRuns \X Lanes |-> Over]
    /\ observed = [x \in Cells |-> 0]
    /\ skipped = {}
    /\ outages = 0

Outage == outages < MaxOutages /\ outages' = outages + 1

-----------------------------------------------------------------------------
\* runGeoMonitor: the job, or the queue's retry of a failed one.
StartGeoRun(r) ==
    /\ geoRun[r] = "none" /\ (r > 1 => geoRun[r-1] = "failed")
    /\ geoRun' = [geoRun EXCEPT ![r] = "running"]
    /\ lane' = [x \in DOMAIN lane |-> IF x[1] = r THEN Free ELSE lane[x]]
    /\ UNCHANGED <<aborted, nextEngine, observed, skipped, outages>>

\* mapWithConcurrency: a free lane takes the next engine, or is over.
TakeEngine(r, l) ==
    /\ lane[<<r, l>>].pc = "free"
    /\ IF nextEngine[r] > Len(Engines)
       THEN /\ lane' = [lane EXCEPT ![<<r, l>>] = Over]
            /\ UNCHANGED nextEngine
       ELSE /\ lane' = [lane EXCEPT ![<<r, l>>] =
                            [pc |-> "next", engine |-> nextEngine[r], question |-> 1]]
            /\ nextEngine' = [nextEngine EXCEPT ![r] = nextEngine[r] + 1]
    /\ UNCHANGED <<geoRun, aborted, observed, skipped, outages>>

\* runEngine: the next question, unless there is none or the run is aborted.
Ask(r, l) ==
    /\ lane[<<r, l>>].pc = "next"
    /\ lane' = [lane EXCEPT ![<<r, l>>] =
          IF aborted[r] \/ lane[<<r, l>>].question > Len(Questions) THEN Free
          ELSE [lane[<<r, l>>] EXCEPT !.pc = "asking"]]
    /\ UNCHANGED <<geoRun, aborted, nextEngine, observed, skipped, outages>>

Answered(r, l) ==
    /\ lane[<<r, l>>].pc = "asking"
    /\ lane' = [lane EXCEPT ![<<r, l>>].pc = "answered"]
    /\ UNCHANGED <<geoRun, aborted, nextEngine, observed, skipped, outages>>

NextQuestion(r, l) ==
    lane' = [lane EXCEPT ![<<r, l>>] = [pc |-> "next", engine |-> lane[<<r, l>>].engine,
                                    question |-> lane[<<r, l>>].question + 1]]

AskFails(r, l) ==
    /\ lane[<<r, l>>].pc = "asking"
    /\ skipped' = skipped \cup {<<r, lane[<<r, l>>].engine, lane[<<r, l>>].question>>}
    /\ NextQuestion(r, l)
    /\ UNCHANGED <<geoRun, aborted, nextEngine, observed, outages>>

Store(r, l) ==
    /\ lane[<<r, l>>].pc = "answered"
    /\ observed' = [observed EXCEPT ![<<r, lane[<<r, l>>].engine, lane[<<r, l>>].question>>] =
                      observed[<<r, lane[<<r, l>>].engine, lane[<<r, l>>].question>>] + 1]
    /\ NextQuestion(r, l)
    /\ UNCHANGED <<geoRun, aborted, nextEngine, skipped, outages>>

\* faulty: the failed insert is logged like a failed answer.
StoreSwallowed(r, l) ==
    /\ lane[<<r, l>>].pc = "answered" /\ Outage
    /\ NextQuestion(r, l)
    /\ UNCHANGED <<geoRun, aborted, nextEngine, observed, skipped>>

\* The lane ends; Promise.all rejects at once, the other lanes go on.
StoreFails(r, l) ==
    /\ lane[<<r, l>>].pc = "answered" /\ Outage
    /\ aborted' = [aborted EXCEPT ![r] = TRUE]
    /\ lane' = [lane EXCEPT ![<<r, l>>] = Over]
    /\ geoRun' = [geoRun EXCEPT ![r] = "failed"]
    /\ UNCHANGED <<nextEngine, observed, skipped>>

FinishRun(r) ==
    /\ geoRun[r] = "running" /\ \A l \in Lanes : lane[<<r, l>>].pc = "over"
    /\ geoRun' = [geoRun EXCEPT ![r] = "done"]
    /\ UNCHANGED <<aborted, nextEngine, lane, observed, skipped, outages>>

\* With the process die the lanes of every run; the job is found stalled.
GeoProcessDies ==
    /\ \E x \in DOMAIN lane : lane[x].pc # "over"
    /\ Outage
    /\ lane' = [x \in DOMAIN lane |-> Over]
    /\ geoRun' = [r \in GeoRuns |-> IF geoRun[r] = "running" THEN "failed" ELSE geoRun[r]]
    /\ UNCHANGED <<aborted, nextEngine, observed, skipped>>

GeoNext ==
    \/ \E r \in GeoRuns : StartGeoRun(r) \/ FinishRun(r)
    \/ \E r \in GeoRuns, l \in Lanes :
          \/ TakeEngine(r, l) \/ Ask(r, l) \/ Answered(r, l) \/ AskFails(r, l)
          \/ Store(r, l) \/ StoreFails(r, l)
    \/ GeoProcessDies

GeoSpec == GeoInit /\ [][GeoNext]_geoVars

-----------------------------------------------------------------------------
(* The reports, and what the component promises.                           *)

\* latestRun: the newest run_at any row carries, 0 if there is none.
LatestRun == Max({0} \cup {x[1] : x \in {y \in Cells : observed[y] > 0}})

\* A run that completed has stored each answer it was given exactly once, and
\* is the latest run as soon as it has stored one, although lanes of a failed
\* run before it may still be storing theirs; together the runs of a job have
\* stored no answer more often than a store or the process failed, plus once.
AnswersKept ==
    /\ \A x \in Cells :
          /\ geoRun[x[1]] = "done" => (observed[x] = 1) # (x \in skipped)
          /\ observed[x] <= 1
          /\ Cardinality({r \in GeoRuns : observed[<<r, x[2], x[3]>>] > 0}) <= 1 + outages
          /\ geoRun[x[1]] = "done" /\ observed[x] > 0 => LatestRun = x[1]
=============================================================================
