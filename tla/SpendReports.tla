---------------------------- MODULE SpendReports -----------------------------
(***************************************************************************)
(* The reports on spend and on the conversions the producer has delivered: *)
(* spend by dimension, acquisition cost, repeat rate, and the revenue of   *)
(* the customers acquired, by campaign and by channel.  A report takes a   *)
(* filter: a range of days and, or not, a city.                            *)
(*                                                                         *)
(* What an order carries, its attribution and the daily spend are          *)
(* constants; amounts are whole rupees, ratios are compared, not rounded.  *)
(***************************************************************************)
EXTENDS BookingProducer

CONSTANTS
    OrderDay, Value, OrderCity,   \* occurred_at, value_inr, city (or None) of each booking
    AdOf,                         \* its attributed_entity_id; None: organic
    Ads, AdChannel, AdName, AdCity,
    Spends,                       \* ad_performance_daily: [ad, date, inr]
    ReportDays, None

ASSUME ReportAssumption ==
    /\ OrderDay \in [Bookings -> ReportDays] /\ Value \in [Bookings -> Nat]
    /\ ReportDays \subseteq Nat
    /\ AdOf \in [Bookings -> Ads \cup {None}] /\ None \notin Ads
    /\ Spends \subseteq [ad : Ads, date : ReportDays, inr : Nat] /\ IsFiniteSet(Spends)
    /\ \A s, t \in Spends : s.ad = t.ad /\ s.date = t.date => s = t

Filters == [days : {d \in SUBSET ReportDays \ {{}} : \A x \in d, y \in d : x..y \subseteq d},
            city : {AdCity[a] : a \in Ads} \cup {None}]
Anywhere(f) == f.city = None

-----------------------------------------------------------------------------
(* filterClause, conversionFilter, SUMS.                                   *)

SpendOf(f) == {s \in Spends : s.date \in f.days /\ (Anywhere(f) \/ AdCity[s.ad] = f.city)}
SumSpend(S) == MapThenSumSet(LAMBDA s : s.inr, S)

Delivered == {c.booking : c \in conversions}
IsFirst(b) == \E c \in conversions : c.booking = b /\ c.first
WindowOrders(f) == {b \in Delivered : OrderDay[b] \in f.days /\ (Anywhere(f) \/ OrderCity[b] = f.city)}
SumValue(S) == MapThenSumSet(LAMBDA b : Value[b], S)

SpendSummary(f) == SumSpend(SpendOf(f))

SpendBreakdown(f, dimension) ==
    [x \in {dimension[s.ad] : s \in SpendOf(f)} |->
        SumSpend({s \in SpendOf(f) : dimension[s.ad] = x})]

CacSummary(f) ==
    [spend |-> SpendSummary(f),
     first_orders |-> Cardinality({b \in WindowOrders(f) : IsFirst(b)}),
     all_orders |-> Cardinality(WindowOrders(f))]

\* By campaign: the ads with spend, each with the first orders matched to it.
CostPerFirstOrder(f) ==
    [a \in {s.ad : s \in SpendOf(f)} |->
        [spend |-> SumSpend({s \in SpendOf(f) : s.ad = a}),
         first_orders |-> Cardinality({b \in WindowOrders(f) : IsFirst(b) /\ AdOf[b] = a})]]

RepeatRate(f) ==
    LET buyers == {Buyer[b] : b \in WindowOrders(f)}
        orders(u) == {b \in WindowOrders(f) : Buyer[b] = u}
    IN  [customers |-> Cardinality(buyers),
         repeat_customers |-> Cardinality({u \in buyers : Cardinality(orders(u)) > 1}),
         revenue |-> SumValue(UNION {orders(u) : u \in buyers})]

\* The first orders of the window.
Acquired(f) == {b \in WindowOrders(f) : IsFirst(b)}

\* faulty: the orders of the window only.
CohortOrdersInWindow(f) ==
    {p \in Acquired(f) \X Delivered : Buyer[p[2]] = Buyer[p[1]] /\ p[2] \in WindowOrders(f)}

\* With each, the buyer's orders up to the end of the window.
CohortOrders(f) ==
    {p \in Acquired(f) \X Delivered :
        Buyer[p[2]] = Buyer[p[1]] /\ \E d \in f.days : OrderDay[p[2]] <= d}

Grouped(f, key) ==
    LET pairs == CohortOrders(f)
    IN  [x \in {key[p[1]] : p \in pairs} |->
            LET group == {p \in pairs : key[p[1]] = x}
            IN  [customers |-> Cardinality({Buyer[p[1]] : p \in group}),
                 revenue   |-> MapThenSumSet(LAMBDA p : Value[p[2]], group)]]

ChannelOf(b) == IF AdOf[b] = None THEN None ELSE AdChannel[AdOf[b]]
CampaignOf(b) == <<ChannelOf(b), IF AdOf[b] = None THEN None ELSE AdName[AdOf[b]]>>

CohortRevenue(f) == Grouped(f, [b \in Bookings |-> CampaignOf(b)])

\* Its channels are those with a cohort and those with spend.
LtvCac(f) ==
    LET cohort == Grouped(f, [b \in Bookings |-> ChannelOf(b)])
        spend == SpendBreakdown(f, AdChannel)
    IN  [x \in DOMAIN cohort \cup DOMAIN spend |->
            [spend    |-> IF x \in DOMAIN spend THEN spend[x] ELSE 0,
             acquired |-> IF x \in DOMAIN cohort THEN cohort[x].customers ELSE 0,
             revenue  |-> IF x \in DOMAIN cohort THEN cohort[x].revenue ELSE 0]]

-----------------------------------------------------------------------------
(* What the reports promise.                                               *)

TotalOf(f, field) == MapThenSumSet(LAMBDA x : f[x][field], DOMAIN f)

\* As long as no booking is deleted, deliveries late, lost or repeated count a
\* customer's revenue once: the campaigns, and the channels, share out the
\* orders of the customers acquired, and together acquired as many of them as
\* the blended figure counts; no campaign claims a first order another does.
RevenueOnce ==
    conversions # {} => \A f \in Filters :
        LET campaigns == CohortRevenue(f)
            channels  == LtvCac(f)
            blended   == CacSummary(f)
            acquired  == {Buyer[b] : b \in Acquired(f)}
            orders    == {o \in Delivered : Buyer[o] \in acquired /\ \E d \in f.days : OrderDay[o] <= d}
            revenue   == TotalOf(campaigns, "revenue")
        IN  /\ revenue = TotalOf(channels, "revenue")
            /\ blended.spend = TotalOf(channels, "spend")
            /\ blended.first_orders >= TotalOf(CostPerFirstOrder(f), "first_orders")
            /\ blended.first_orders <= RepeatRate(f).customers + Cardinality(deleted)
            /\ deleted = {} =>
                  /\ revenue = SumValue(orders)
                  /\ blended.first_orders = TotalOf(campaigns, "customers")
                  /\ blended.first_orders = TotalOf(channels, "acquired")
=============================================================================
