----------------------------- MODULE AlertWatch ------------------------------
(***************************************************************************)
(* The alert evaluation and the decisions it proposes.  A run computes the *)
(* guardrail metrics, turns breaches into proposals and, for each one not  *)
(* fired today, inserts an alert, notifies the allowlist and logs a        *)
(* dry-run decision for a person to approve.  The queue gives the job to   *)
(* one worker, but a stalled one whose lock expired runs on beside the     *)
(* next.  A rule knows a campaign by its name, which the ingest may change *)
(* between any two steps of a run, and which it may leave out.             *)
(***************************************************************************)
EXTENDS Integers, FiniteSets, FiniteSetsExt

CONSTANTS
    Evaluators,        \* executions of the job that can be in progress at once
    Campaigns,         \* the ad entities with spend
    CampaignSpend,     \* their spend of the trailing 30 days
    AdNames,           \* the names the platforms give them, Nil for none
    NameOf,            \* the name each has at first
    CpfoThreshold,     \* MIL_CPFO_ALERT_INR
    DropPct,           \* MIL_DROP_ALERT_PCT
    TrailingOrders,    \* first orders of the day before the first
    Recipients,        \* WHATSAPP_RECIPIENT_ALLOWLIST
    MaxFirstOrders, LastDay,
    MaxMishaps,        \* bound on mishaps, and on changes of a name
    Nil                \* no name, no campaign, no owner

ASSUME AlertAssumption ==
    /\ CampaignSpend \in [Campaigns -> Nat] /\ NameOf \in [Campaigns -> AdNames]
    /\ IsFiniteSet(Evaluators) /\ IsFiniteSet(Campaigns) /\ Nil \notin Campaigns \cup Evaluators
    /\ CpfoThreshold \in Nat /\ DropPct \in Nat /\ TrailingOrders \in Nat
    /\ MaxFirstOrders \in Nat /\ LastDay \in 0..6 /\ MaxMishaps \in Nat

VARIABLES
    today,
    entityName,   \* ad_entity.name of each campaign: nullable, not unique
    givenUp,      \* the names whose last bearer was renamed (history)
    renames,      \* how often the ingest changed a name (history)
    firstOrders,  \* per campaign (Nil: attributed to none) and day
    alerts,       \* marketing.alert
    told,         \* the recipients each alert was sent to
    decisions,    \* marketing.decision
    evaluator,    \* the executions of the job
    owner,        \* the one that holds its lock
    lostLocks,    \* how often a lock expired under its owner (history)
    mishaps       \* that, failed calls and crashes

alertVars == <<today, entityName, givenUp, renames, firstOrders, alerts, told, decisions, evaluator, owner, lostLocks, mishaps>>

AlertDays == 0..LastDay
Sources == Campaigns \cup {Nil}
Asleep == [pc |-> "idle", day |-> 0, rows |-> {}, todo |-> {}, chosen |-> {}, alert |-> 0, left |-> {}]
Proposals == [rule : {"cpfo_high", "first_order_drop"},
              campaign : AdNames \cup {Nil}, observed : Nat]

AlertTypeOK ==
    /\ today \in AlertDays
    /\ entityName \in [Campaigns -> AdNames] /\ givenUp \subseteq AdNames
    /\ renames \in 0..MaxMishaps
    /\ firstOrders \in [Sources \X AlertDays -> 0..MaxFirstOrders]
    /\ \A a \in alerts : a.proposal \in Proposals /\ a.day \in AlertDays
                           /\ a.id \in 1..Cardinality(alerts)
    /\ told \subseteq {a.id : a \in alerts} \X Recipients
    /\ decisions \subseteq [alert : {a.id : a \in alerts}, entity : Campaigns,
                            status : {"proposed", "approved"}]
    /\ \A w \in Evaluators :
          /\ evaluator[w].pc \in {"idle", "cost", "count", "check", "insert", "notify"}
          /\ evaluator[w].todo \subseteq Proposals
          /\ evaluator[w].left \subseteq Recipients
    /\ owner \in Evaluators \cup {Nil}
    /\ lostLocks <= mishaps /\ mishaps \in 0..MaxMishaps

AlertInit ==
    /\ today = 0
    /\ entityName = NameOf /\ givenUp = {} /\ renames = 0
    /\ firstOrders = [x \in Sources \X AlertDays |-> 0]
    /\ alerts = {} /\ told = {} /\ decisions = {}
    /\ evaluator = [w \in Evaluators |-> Asleep]
    /\ owner = Nil /\ lostLocks = 0 /\ mishaps = 0

Mishap == renames + mishaps < MaxMishaps /\ mishaps' = mishaps + 1

-----------------------------------------------------------------------------
(* What the rules read.                                                    *)

OrdersOf(sources, days) == MapThenSumSet(LAMBDA x : firstOrders[x], sources \X days)

FirstOrder(c) ==
    /\ OrdersOf(Sources, AlertDays) < MaxFirstOrders
    /\ firstOrders' = [firstOrders EXCEPT ![<<c, today>>] = firstOrders[<<c, today>>] + 1]
    /\ UNCHANGED <<today, entityName, givenUp, renames, alerts, told, decisions, evaluator, owner, lostLocks, mishaps>>

Midnight ==
    /\ today < LastDay
    /\ today' = today + 1
    /\ UNCHANGED <<entityName, givenUp, renames, firstOrders, alerts, told, decisions, evaluator, owner, lostLocks, mishaps>>

\* upsertEntities: an ingest run takes over the name a platform now reports.
Rename(c) ==
    /\ renames + mishaps < MaxMishaps /\ renames' = renames + 1
    /\ \E n \in AdNames \ {entityName[c]} :
          LET named == [entityName EXCEPT ![c] = n] IN
          /\ entityName' = named
          /\ givenUp' = givenUp \cup ({entityName[c]} \ ({named[x] : x \in Campaigns} \cup {Nil}))
    /\ UNCHANGED <<today, firstOrders, alerts, told, decisions, evaluator, owner, lostLocks, mishaps>>

\* costPerFirstOrder: no cost for a campaign without first orders.
CostRows(day) ==
    {[campaign |-> entityName[c], cost |-> CampaignSpend[c] \div OrdersOf({c}, 0..day)] :
        c \in {x \in Campaigns : OrdersOf({x}, 0..day) > 0}}

\* evaluateRules: the trailing average is trailing / 7.
EvaluateRules(rows, ordersToday, trailing) ==
    {[rule |-> "cpfo_high", campaign |-> r.campaign, observed |-> r.cost] :
        r \in {x \in rows : x.cost > CpfoThreshold}}
    \cup
    (IF trailing > 0 /\ (trailing - 7 * ordersToday) * 100 >= DropPct * trailing
     THEN {[rule |-> "first_order_drop", campaign |-> Nil, observed |-> ordersToday]} ELSE {})

-----------------------------------------------------------------------------
(* runAlertEvaluation.                                                     *)

Step(w, next) == evaluator' = [evaluator EXCEPT ![w] = next]

StartEvaluation(w) ==
    /\ evaluator[w].pc = "idle" /\ owner = Nil
    /\ owner' = w
    /\ Step(w, [Asleep EXCEPT !.pc = "cost", !.day = today])
    /\ UNCHANGED <<today, entityName, givenUp, renames, firstOrders, alerts, told, decisions, lostLocks, mishaps>>

ReadCosts(w) ==
    /\ evaluator[w].pc = "cost"
    /\ Step(w, [evaluator[w] EXCEPT !.pc = "count", !.rows = CostRows(evaluator[w].day)])
    /\ UNCHANGED <<today, entityName, givenUp, renames, firstOrders, alerts, told, decisions, owner, lostLocks, mishaps>>

CountFirstOrders(w) ==
    LET day == evaluator[w].day
        trailing == TrailingOrders + OrdersOf(Sources, 0..(day - 1))
    IN  /\ evaluator[w].pc = "count"
        /\ Step(w, [evaluator[w] EXCEPT
                      !.pc = "check", !.rows = {},
                      !.todo = EvaluateRules(evaluator[w].rows, OrdersOf(Sources, {day}), trailing)])
        /\ UNCHANGED <<today, entityName, givenUp, renames, firstOrders, alerts, told, decisions, owner, lostLocks, mishaps>>

\* faulty: the day before is looked at.
FiredYesterday(p) == \E a \in alerts : a.proposal = p /\ a.day + 1 = today

\* alreadyFiredToday: the proposal stands for its rule and message.
AlreadyFired(p) == \E a \in alerts : a.proposal = p /\ a.day = today

\* The proposal the loop has come to; the insert is a statement of its own.
CheckFired(w) ==
    /\ evaluator[w].pc = "check"
    /\ \E p \in evaluator[w].todo :
          Step(w, IF AlreadyFired(p)
                  THEN [evaluator[w] EXCEPT !.todo = evaluator[w].todo \ {p}]
                  ELSE [evaluator[w] EXCEPT !.pc = "insert", !.chosen = {p}])
    /\ UNCHANGED <<today, entityName, givenUp, renames, firstOrders, alerts, told, decisions, owner, lostLocks, mishaps>>

AlertOf(p, id) == [proposal |-> p, day |-> today, id |-> id]

\* faulty: the alert of every proposal still to do is inserted at once.
InsertBatch(w) ==
    LET id == Cardinality(alerts) + 1
        p == CHOOSE x \in evaluator[w].chosen : TRUE
        others == {x \in evaluator[w].todo \ {p} : ~AlreadyFired(x)}
    IN  /\ evaluator[w].pc = "insert"
        /\ alerts' = alerts \cup {AlertOf(p, id)} \cup {AlertOf(x, id + 1) : x \in others}
        /\ Step(w, [evaluator[w] EXCEPT !.pc = "notify", !.alert = id, !.left = Recipients,
                                        !.chosen = {}, !.todo = evaluator[w].todo \ {p}])
        /\ UNCHANGED <<today, entityName, givenUp, renames, firstOrders, told, decisions, owner, lostLocks, mishaps>>

InsertAlert(w) ==
    LET id == Cardinality(alerts) + 1
        p == CHOOSE x \in evaluator[w].chosen : TRUE
    IN  /\ evaluator[w].pc = "insert"
        /\ alerts' = alerts \cup {AlertOf(p, id)}
        /\ Step(w, [evaluator[w] EXCEPT !.pc = "notify", !.alert = id, !.left = Recipients,
                                        !.chosen = {}, !.todo = evaluator[w].todo \ {p}])
        /\ UNCHANGED <<today, entityName, givenUp, renames, firstOrders, told, decisions, owner, lostLocks, mishaps>>

\* notify: a message that cannot be sent is logged and the next one is sent.
Notify(w) ==
    /\ evaluator[w].pc = "notify"
    /\ \E r \in evaluator[w].left :
          /\ \/ told' = told \cup {<<evaluator[w].alert, r>>} /\ UNCHANGED mishaps
             \/ Mishap /\ UNCHANGED told
          /\ Step(w, [evaluator[w] EXCEPT !.left = evaluator[w].left \ {r}])
    /\ UNCHANGED <<today, entityName, givenUp, renames, firstOrders, alerts, decisions, owner, lostLocks>>

\* proposeAction: the entity is looked up by the name the rule saw, any one of
\* those that bear it now; no name or no such entity, and nothing is proposed.
Propose(w) ==
    LET p == (CHOOSE a \in alerts : a.id = evaluator[w].alert).proposal
        named == {c \in Campaigns : entityName[c] = p.campaign}
    IN  /\ evaluator[w].pc = "notify" /\ evaluator[w].left = {}
        /\ IF p.rule # "cpfo_high" \/ p.campaign = Nil \/ named = {}
           THEN UNCHANGED decisions
           ELSE \E c \in named :
                   decisions' = decisions \cup
                      {[alert |-> evaluator[w].alert, entity |-> c, status |-> "proposed"]}
        /\ Step(w, [evaluator[w] EXCEPT !.pc = "check", !.alert = 0])
        /\ UNCHANGED <<today, entityName, givenUp, renames, firstOrders, alerts, told, owner, lostLocks, mishaps>>

Release(w) == owner' = IF owner = w THEN Nil ELSE owner

FinishEvaluation(w) ==
    /\ evaluator[w].pc = "check" /\ evaluator[w].todo = {}
    /\ Step(w, Asleep) /\ Release(w)
    /\ UNCHANGED <<today, entityName, givenUp, renames, firstOrders, alerts, told, decisions, lostLocks, mishaps>>

\* A query fails: the job is retried from its beginning.
EvaluationFails(w) ==
    /\ evaluator[w].pc # "idle" /\ Mishap
    /\ Step(w, Asleep) /\ Release(w)
    /\ UNCHANGED <<today, entityName, givenUp, renames, firstOrders, alerts, told, decisions, lostLocks>>

ProcessDies ==
    /\ \E w \in Evaluators : evaluator[w].pc # "idle"
    /\ Mishap
    /\ evaluator' = [w \in Evaluators |-> Asleep] /\ owner' = Nil
    /\ UNCHANGED <<today, entityName, givenUp, renames, firstOrders, alerts, told, decisions, lostLocks>>

\* The lock of the execution in progress expires: the queue starts another.
LoseLock ==
    /\ owner # Nil /\ Mishap
    /\ owner' = Nil /\ lostLocks' = lostLocks + 1
    /\ UNCHANGED <<today, entityName, givenUp, renames, firstOrders, alerts, told, decisions, evaluator>>

-----------------------------------------------------------------------------
\* POST /marketing/decisions/:id/approve.
Approve(d) ==
    /\ d.status = "proposed"
    /\ decisions' = (decisions \ {d}) \cup {[d EXCEPT !.status = "approved"]}
    /\ UNCHANGED <<today, entityName, givenUp, renames, firstOrders, alerts, told, evaluator, owner, lostLocks, mishaps>>

AlertNext ==
    \/ \E c \in Sources : FirstOrder(c)
    \/ \E c \in Campaigns : Rename(c)
    \/ Midnight
    \/ \E w \in Evaluators :
          \/ StartEvaluation(w) \/ ReadCosts(w) \/ CountFirstOrders(w) \/ CheckFired(w)
          \/ InsertAlert(w) \/ Notify(w) \/ Propose(w) \/ FinishEvaluation(w) \/ EvaluationFails(w)
    \/ ProcessDies \/ LoseLock
    \/ \E d \in decisions : Approve(d)

AlertSpec == AlertInit /\ [][AlertNext]_alertVars

-----------------------------------------------------------------------------
(* What the component promises.                                            *)

\* A message fires once a day, although the check and the insert are two
\* statements and no key backs them: only a run that lost its lock and went on
\* beside the next one can fire it again, and one such run at most once.
AlertsCostStalls ==
    \A a \in alerts :
        Cardinality({b \in alerts : b.proposal = a.proposal /\ b.day = a.day}) <= 1 + lostLocks

InProgress(a) ==
    \E w \in Evaluators : evaluator[w].pc = "notify" /\ evaluator[w].alert = a.id

\* Everybody was told, and a campaign too dear has its decision; there is none
\* to propose for a campaign without a name, or with one no entity bears now.
FollowedUp(a) ==
    /\ \A r \in Recipients : <<a.id, r>> \in told
    /\ a.proposal.rule = "cpfo_high" /\ a.proposal.campaign \notin givenUp \cup {Nil} =>
          \E d \in decisions : d.alert = a.id

\* An alert once inserted is never tried again, so what a crash or a failed call
\* interrupts is lost; but each costs the notification and the decision of one
\* alert, never those of the other alerts of the run.  A decision is missing
\* without a fault only for an unnamed or renamed campaign.
FollowUpsCostFaults ==
    Cardinality({a \in alerts : ~FollowedUp(a) /\ ~InProgress(a)}) <= mishaps
=============================================================================
