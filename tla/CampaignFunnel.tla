--------------------------- MODULE CampaignFunnel ---------------------------
(***************************************************************************)
(* The campaign report: for a range of days, one row per campaign with its *)
(* clicks, spend, installs, registrations and orders.  An event or order   *)
(* is credited to the last campaign touch of the same identity before it,  *)
(* within Lookback, or else to a server-side touch within Grace after it.  *)
(* The report is evaluated over the tables it reads while touches, events, *)
(* orders and identity links arrive in any order.                          *)
(*                                                                         *)
(* A row is a row of the report's app.  Ids, names and utm values are      *)
(* numbers, whose order is that of the texts; NotSet is null.  Impressions *)
(* and ad clicks go as spend_inr goes, add_to_cart as el_signup.           *)
(* MAX_CAMPAIGNS and the names the rows are shown under are left out.      *)
(***************************************************************************)
EXTENDS Integers, Sequences, FiniteSets, FiniteSetsExt

CONSTANTS
    Users, Sessions,
    NotSet,
    Entities,    \* ad_entity: [channel, ext, parent, name]
    Facts,       \* ad_performance_daily: [entity, day, spend]
    Touches,     \* attribution_touch rows that may arrive
    Events,      \* app_event rows that may arrive
    Orders,      \* conversion rows that may arrive
    Links,       \* identity_link rows that may arrive: <<session, user>>
    Filters,     \* [campaign, channel, medium]
    Day,         \* ticks in a day
    Days,        \* days asked about
    Lookback,    \* MIL_CLICK_LOOKBACK_DAYS
    Grace,       \* MIL_TOUCH_GRACE_HOURS, in ticks
    MaxTouches, MaxFacts, MaxLinks    \* bounds on the rows

NoFilter == [campaign |-> NotSet, channel |-> NotSet, medium |-> NotSet]

ASSUME FunnelAssumption ==
    /\ Users \cap Sessions = {} /\ NotSet \notin Users \cup Sessions
    /\ Links \subseteq Sessions \X Users
    /\ \A t \in Touches : /\ t.session \in Sessions /\ t.user \in Users \cup {NotSet}
                          /\ t.type \in {"touch", "lead", "first_party_click"}
                          /\ t.at \in Nat /\ t.click \in Nat \cup {NotSet}
                          /\ {"session", "user", "type", "campaign", "channel", "medium",
                              "nonce", "click", "at"} \subseteq DOMAIN t
    /\ \A r \in Events \cup Orders : /\ r.session \in Sessions \cup {NotSet}
                                     /\ r.user \in Users \cup {NotSet} /\ r.at \in Nat
    /\ IsFiniteSet(Facts) /\ \A p \in Facts : p.entity \in Entities /\ p.spend \in Nat
    /\ NoFilter \in Filters
    /\ Day \in Nat \ {0} /\ Days \subseteq Nat /\ Lookback \in Nat \ {0} /\ Grace \in Nat
    /\ MaxTouches \in Nat /\ MaxFacts \in Nat /\ MaxLinks \in Nat

VARIABLES
    touches,     \* attribution_touch in the order of its ids
    events,      \* app_event
    orders,      \* conversion
    links,       \* identity_link
    tie          \* which of two equally near touches the execution at hand meets first

vars == <<touches, events, orders, links, tie>>

\* A row may have been bound to a user since it arrived.
Stitched(t, users) == {[t EXCEPT !.user = u] : u \in users}

TypeOK ==
    /\ touches \in Seq(UNION {{t} \cup Stitched(t, Users) : t \in Touches})
    /\ Len(touches) <= MaxTouches
    /\ events \in Seq(Events) /\ orders \in Seq(Orders)
    /\ Len(events) + Len(orders) <= MaxFacts
    /\ links \subseteq Links /\ Cardinality(links) <= MaxLinks
    /\ \A i \in DOMAIN touches :
           touches[i] \notin Touches => <<touches[i].session, touches[i].user>> \in links
    /\ tie \in {"older", "newer"}

Init ==
    /\ touches = <<>> /\ events = <<>> /\ orders = <<>>
    /\ links = {}
    /\ tie \in {"older", "newer"}

StoreTouch ==
    /\ Len(touches) < MaxTouches
    /\ \E t \in Touches : touches' = Append(touches, t)
    /\ UNCHANGED <<events, orders, links, tie>>

StoreEvent ==
    /\ Len(events) + Len(orders) < MaxFacts
    /\ \E e \in Events : events' = Append(events, e)
    /\ UNCHANGED <<touches, orders, links, tie>>

StoreOrder ==
    /\ Len(events) + Len(orders) < MaxFacts
    /\ \E o \in Orders : orders' = Append(orders, o)
    /\ UNCHANGED <<touches, events, links, tie>>

\* A link comes from a touch, an event or an order that carries both ids.
StoreLink ==
    /\ Cardinality(links) < MaxLinks
    /\ \E l \in Links \ links : links' = links \cup {l}
    /\ UNCHANGED <<touches, events, orders, tie>>

\* The writer of a touch goes on to bind the session's earlier rows to the user.
StitchTouches ==
    /\ \E l \in links :
           touches' = [i \in DOMAIN touches |->
                          IF touches[i].session = l[1] /\ touches[i].user = NotSet
                          THEN [touches[i] EXCEPT !.user = l[2]] ELSE touches[i]]
    /\ UNCHANGED <<events, orders, links, tie>>

\* "distinct on" leaves the choice among equal rows to the execution.
TiesFallOtherwise ==
    /\ tie' \in {"older", "newer"}
    /\ UNCHANGED <<touches, events, orders, links>>

Next == StoreTouch \/ StoreEvent \/ StoreOrder \/ StoreLink \/ StitchTouches \/ TiesFallOtherwise

Spec == Init /\ [][Next]_vars

-----------------------------------------------------------------------------
(* The names of campaigns.                                                 *)

\* What a left join finds: the entities above, or none.
Above(e) ==
    LET up == {c \in Entities : c.channel = e.channel /\ c.ext = e.parent}
    IN IF up = {} THEN {e} ELSE up

\* Two hops: an ad's campaign is two above it, an ad set's one, a campaign's
\* itself.  Its name is that of the topmost that has one.
CampaignsOf(e) ==
    UNION {{[key  |-> c.ext,
             name |-> IF c.name # NotSet THEN c.name ELSE IF b.name # NotSet THEN b.name ELSE e.name] :
                c \in Above(b)} : b \in Above(e)}

\* The rows of campaign_alias before "distinct on": an entity goes by its id and
\* by its name.
AliasRows ==
    UNION {{[entity |-> e, alias |-> a, key |-> c.key, name |-> c.name] :
               a \in {e.ext, e.name} \ {NotSet}, c \in CampaignsOf(e)} : e \in Entities}

\* faulty: every entity of a name is joined.
AliasOfAll(text) == {r \in AliasRows : r.alias = text}

\* "distinct on (alias)": the row of the smallest campaign id.
Alias(text) ==
    LET named == {r \in AliasRows : r.alias = text}
    IN IF named = {} THEN {}
       ELSE {CHOOSE r \in named : \A q \in named : r.key <= q.key}

\* The keys a utm_campaign counts under: its campaign's, or the text itself.
Key(text) ==
    IF Alias(text) = {} THEN {[entity |-> NotSet, key |-> text]}
    ELSE {[entity |-> r.entity, key |-> r.key] : r \in Alias(text)}

-----------------------------------------------------------------------------
(* The universe of a report.  A window is [from, to], in days.             *)

Within(at, w) == w.from * Day <= at /\ at < (w.to + 1) * Day

TouchFilter(t, f) ==
    /\ t.campaign # NotSet
    /\ f.campaign # NotSet => \/ t.campaign = f.campaign
                              \/ \E r \in Alias(t.campaign) : r.name = f.campaign
    /\ f.channel # NotSet => t.channel = f.channel
    /\ f.medium # NotSet => t.medium = f.medium

\* The rows touch_campaigns groups: a touch joined with its key.
TouchCampaigns(w, f) ==
    UNION {{[touch |-> i, entity |-> k.entity, key |-> k.key] : k \in Key(touches[i].campaign)} :
              i \in {j \in DOMAIN touches : Within(touches[j].at, w) /\ TouchFilter(touches[j], f)}}

FirstPartyClicks(w, f, key) ==
    Cardinality({r \in TouchCampaigns(w, f) :
                    r.key = key /\ touches[r.touch].type = "first_party_click"})

\* The rows ad_campaigns groups: a fact joined with its entity's campaign.
AdCampaigns(w, f) ==
    UNION {{[fact |-> p, key |-> c.key] :
               c \in {d \in CampaignsOf(p.entity) :
                         /\ d.name # NotSet
                         /\ f.campaign # NotSet => d.name = f.campaign
                         /\ f.channel # NotSet => p.entity.channel = f.channel}} :
              p \in {q \in Facts : w.from <= q.day /\ q.day <= w.to}}

AdSpend(w, f, key) ==
    MapThenSumSet(LAMBDA r : r.fact.spend, {r \in AdCampaigns(w, f) : r.key = key})

\* A campaign without touches cannot have the medium asked for.
Campaigns(w, f) ==
    {r.key : r \in TouchCampaigns(w, f)}
    \cup {r.key : r \in {q \in AdCampaigns(w, f) : f.medium = NotSet}}

-----------------------------------------------------------------------------
(* Credit.                                                                 *)

\* The identities of a row: its user, the users linked to its session (one
\* joined row for each), or the session; none if it has neither.
Ids(row) ==
    IF row.user # NotSet THEN {row.user}
    ELSE LET linked == {u \in Users : <<row.session, u>> \in links}
         IN IF linked # {} THEN linked ELSE {row.session} \ {NotSet}

\* faulty: the request's filters narrow the pool.
TouchesAttrFiltered(w, f) ==
    UNION {{[touch |-> i, id |-> d, key |-> k.key] :
               d \in Ids(touches[i]), k \in Key(touches[i].campaign)} :
              i \in {j \in DOMAIN touches :
                        /\ (w.from - Lookback) * Day <= touches[j].at
                        /\ touches[j].at < (w.to + 1) * Day
                        /\ TouchFilter(touches[j], f)}}

\* All campaign touches that may be credited in the window, whatever f is.
TouchesAttr(w, f) ==
    UNION {{[touch |-> i, id |-> d, key |-> k.key] :
               d \in Ids(touches[i]), k \in Key(touches[i].campaign)} :
              i \in {j \in DOMAIN touches :
                        /\ (w.from - Lookback) * Day <= touches[j].at
                        /\ touches[j].at < (w.to + 1) * Day
                        /\ touches[j].campaign # NotSet}}

\* faulty: clicks after the event count as well.
EligibleLate(t, at) == at - Lookback * Day <= t.at /\ t.at <= at + Grace

Eligible(t, at) ==
    /\ at - Lookback * Day <= t.at
    /\ t.at <= at \/ (t.at <= at + Grace /\ t.type \in {"touch", "lead"})

\* The order in which touches are preferred for something that happened at `at`.
Preferred(i, j, at) ==
    LET before(n) == touches[n].at <= at
        far(n)    == IF before(n) THEN at - touches[n].at ELSE touches[n].at - at
    IN \/ before(i) /\ ~before(j)
       \/ before(i) = before(j) /\ far(i) < far(j)
       \/ before(i) = before(j) /\ far(i) = far(j) /\ IF tie = "older" THEN i <= j ELSE i >= j

\* The campaign credited with what the identities did at `at`, if any.
Credit(w, f, ids, at) ==
    LET found == {r \in TouchesAttr(w, f) : r.id \in ids /\ Eligible(touches[r.touch], at)}
    IN IF found = {} THEN {}
       ELSE {(CHOOSE r \in found : \A q \in found : Preferred(r.touch, q.touch, at)).key}

\* The identities credited with a stage, each at its first event in the window.
EvAttr(w, f, name) ==
    LET ev(id)  == {events[i].at : i \in {j \in DOMAIN events :
                       events[j].name = name /\ id \in Ids(events[j]) /\ Within(events[j].at, w)}}
        did     == {id \in Users \cup Sessions : ev(id) # {}}
    IN UNION {{[id |-> id, key |-> k] : k \in Credit(w, f, {id}, Min(ev(id)))} : id \in did}

\* The click's time, if it is one the touch can have had.
InstallTime(t) == IF t.click # NotSet /\ t.click <= t.at THEN t.click ELSE t.at

Nonces == {touches[i].nonce : i \in DOMAIN touches} \ {NotSet}

\* One install for each nonce, of a user rather than a session, from the oldest row.
MetaInstall(n) ==
    LET sent == UNION {{[touch |-> i, id |-> d] : d \in Ids(touches[i])} :
                          i \in {j \in DOMAIN touches : touches[j].nonce = n}}
        r    == CHOOSE r \in sent : \A q \in sent :
                    \/ r.id \in Users /\ q.id \in Sessions
                    \/ (r.id \in Users) = (q.id \in Users) /\ r.touch <= q.touch
        t    == touches[r.touch]
    IN [id |-> r.id, at |-> InstallTime(t), keys |-> {k.key : k \in Key(t.campaign)}]
MetaInstalls == {MetaInstall(n) : n \in Nonces}

\* faulty: only the referrers of the window displace the first open.
InstallAttrWindowed(w, f) ==
    LET dated == {m \in MetaInstalls : Within(m.at, w)}
    IN {[id |-> m.id, key |-> Min(UNION {q.keys : q \in {p \in dated : p.id = m.id}})] : m \in dated}
       \cup {r \in EvAttr(w, f, "el_first_open") : \A m \in dated : m.id # r.id}

\* An identity with a referrer is counted by it, in the window of its earliest one there.
InstallAttr(w, f) ==
    LET dated    == {m \in MetaInstalls : Within(m.at, w)}
        first(m) == \A q \in dated : q.id = m.id => m.at <= q.at
    IN {[id |-> m.id, key |-> Min(UNION {q.keys : q \in {p \in dated : p.id = m.id /\ first(p)}})] :
           m \in dated}
       \cup {r \in EvAttr(w, f, "el_first_open") : \A m \in MetaInstalls : m.id # r.id}

\* The orders credited, each once however many identities its session has.
ConvAttr(w, f) ==
    UNION {{[order |-> i, key |-> k] : k \in Credit(w, f, Ids(orders[i]), orders[i].at)} :
              i \in {j \in DOMAIN orders : Within(orders[j].at, w)}}

Of(rows, key) == {r \in rows : r.key = key}

\* The stages of a campaign's row that are credited.
Stages(w, f, key) ==
    [installs      |-> Cardinality(Of(InstallAttr(w, f), key)),
     registrations |-> Cardinality(Of(EvAttr(w, f, "el_signup"), key)),
     orders        |-> Cardinality(Of(ConvAttr(w, f), key)),
     revenue_inr   |-> MapThenSumSet(LAMBDA r : orders[r.order].value, Of(ConvAttr(w, f), key))]

CampaignFunnel(w, f) ==
    [key \in Campaigns(w, f) |->
        [first_party_clicks |-> FirstPartyClicks(w, f, key),
         ad_spend_inr       |-> AdSpend(w, f, key),
         stages             |-> Stages(w, f, key)]]

-----------------------------------------------------------------------------
(* What the report promises.                                               *)

Windows == {w \in [from : Days, to : Days] : w.from <= w.to}

\* Winners are decided against all touches: a filtered call shows a campaign
\* with the credited stages of its row in the unfiltered report, so that the
\* filtered calls for all campaigns never count an order twice.
FilterKeepsCredit ==
    \A w \in Windows :
        LET all == CampaignFunnel(w, NoFilter) IN
        \A f \in Filters \ {NoFilter} :
            LET some == CampaignFunnel(w, f) IN
            \A key \in DOMAIN some : /\ key \in DOMAIN all
                                     /\ some[key].stages = all[key].stages

TotalOf(rows, field) == MapThenSumSet(LAMBDA k : rows[k][field], DOMAIN rows)
SpendIn(w) == MapThenSumSet(LAMBDA p : p.spend, {p \in Facts : w.from <= p.day /\ p.day <= w.to})

\* Names shared by an ad set and its ads, and two ways to name a campaign, do
\* not multiply anything: the rows add up to the touches and facts of the window.
RowsAddUp ==
    \A w \in Windows :
        LET all == CampaignFunnel(w, NoFilter) IN
        /\ TotalOf(all, "first_party_clicks")
           = Cardinality({i \in DOMAIN touches :
                             /\ Within(touches[i].at, w) /\ touches[i].campaign # NotSet
                             /\ touches[i].type = "first_party_click"})
        /\ TotalOf(all, "ad_spend_inr") = SpendIn(w)

\* An identity with referrers counts as installed on at most as many days as it
\* has referrers, its first opens notwithstanding: adjacent reports never share
\* an install.
InstallInOneWindow ==
    \A id \in {m.id : m \in MetaInstalls} :
        LET on == {d \in Days : \E r \in InstallAttr([from |-> d, to |-> d], NoFilter) : r.id = id}
        IN Cardinality(on) <= Cardinality({n \in Nonces : MetaInstall(n).id = id})

Always == [from |-> Min(Days), to |-> Max(Days)]
Credited(i) == Credit(Always, NoFilter, Ids(orders[i]), orders[i].at)

\* A touch stamped after an order never takes the order from a touch before it,
\* and a click stamped after an order is never credited with it.
NothingLaterIsCredited ==
    [][ Len(touches') > Len(touches) =>
        LET t == touches'[Len(touches')] IN
        \A i \in DOMAIN orders :
            /\ t.at > orders[i].at
            /\ \/ t.type = "first_party_click"
               \/ \E r \in TouchesAttr(Always, NoFilter) :
                     /\ r.id \in Ids(orders[i]) /\ touches[r.touch].at <= orders[i].at
                     /\ Eligible(touches[r.touch], orders[i].at)
            => Credited(i)' = Credited(i) ]_vars
=============================================================================
