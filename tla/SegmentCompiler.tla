--------------------------- MODULE SegmentCompiler ---------------------------
(***************************************************************************)
(* What a segment's definition selects.  A definition is a tree of groups  *)
(* (AND, OR) over criteria; compileMembership turns it into one statement, *)
(* in which every criterion is a set of users and every group an           *)
(* intersection or a union of its children.  A negated criterion is the    *)
(* complement of its positive form in the universe, all users ever seen.   *)
(* The statement is evaluated here over the two tables it reads, while     *)
(* orders and events arrive, late ones too, and time passes.               *)
(*                                                                         *)
(* Time is in days.  A window of 0 stands for an absent window_days.  The  *)
(* three attribute fields are one (city), and at most one property of an   *)
(* event is tested.                                                        *)
(***************************************************************************)
EXTENDS Integers, Sequences, FiniteSets, FiniteSetsExt

CONSTANTS
    App,         \* the app of the segment
    Users,
    Nobody,      \* user_id is null
    Orders,      \* what the orders that may arrive look like, apart from the time
    Events,      \* likewise for events
    NotSet,      \* a city or property that is null, a test that is absent
    Criteria,    \* leaf criteria
    Groups,      \* groups over them: every group in a group is one of them
    Buckets,     \* ntile's 100
    Orderings,   \* in which order ntile may meet users of equal spend
    MaxRows,     \* bound on the rows of both tables
    MaxNow       \* bound on the days that pass

MAX_DEPTH == 3
IsGroup(node) == "criteria" \in DOMAIN node

\* measure: the depth of a group, 1 if it holds only criteria.
Depth[g \in Groups] ==
    1 + Max({0} \cup {Depth[n] : n \in {m \in g.criteria : IsGroup(m)}})

\* criterionSchema, as far as the statement tells criteria apart.
IsCriterion(c) ==
    \/ c.kind \in {"order_recency", "first_order_age"} /\ c.op \in {"lte", "gt"} /\ c.days \in Nat \ {0}
    \/ /\ c.kind = "order_frequency" /\ c.op \in {"gte", "lte", "eq"}
       /\ c.count \in Nat /\ c.window_days \in Nat
    \/ /\ c.kind = "monetary" /\ c.metric \in {"total", "avg"} /\ c.op \in {"gte", "lte"}
       /\ c.value_inr \in Nat /\ c.window_days \in Nat
    \/ c.kind = "ltv_percentile" /\ c.op = "gte" /\ c.percentile \in 1..(Buckets - 1)
    \/ /\ c.kind = "event" /\ c.performed \in BOOLEAN
       /\ c.window_days \in Nat \ {0} /\ c.min_count \in Nat \ {0}
    \/ c.kind = "attribute" /\ c.op \in {"eq", "neq", "in"}

ASSUME CompilerAssumption ==
    /\ Nobody \notin Users
    /\ \A o \in Orders : o.user \in Users \cup {Nobody} /\ o.value \in Nat
    /\ \A e \in Events : e.user \in Users \cup {Nobody}
    /\ \A c \in Criteria : IsCriterion(c) /\ ~IsGroup(c)
    /\ \A g \in Groups : /\ g.op \in {"AND", "OR"} /\ g.criteria # {} /\ IsGroup(g)
                         /\ g.criteria \subseteq Criteria \cup Groups
                         /\ Depth[g] \in 1..MAX_DEPTH
                         /\ \A n \in g.criteria \cap Groups : Depth[n] < Depth[g]
    /\ \A f \in Orderings : f \in [Users -> Nat] /\ \A u, v \in Users : f[u] = f[v] => u = v
    /\ Buckets \in Nat \ {0} /\ MaxRows \in Nat /\ MaxNow \in Nat

VARIABLES
    conversion,        \* the orders stored, of every app
    appEvent,          \* the events stored
    eventsAvailable,   \* marketing.app_event exists
    now,
    ties               \* the order of equal users in the execution at hand

vars == <<conversion, appEvent, eventsAvailable, now, ties>>

Dated(rows, at) == {[row |-> r, at |-> at] : r \in rows}

TypeOK ==
    /\ conversion \in Seq([row : Orders, at : 0..now])
    /\ appEvent \in Seq([row : Events, at : 0..now])
    /\ Len(conversion) + Len(appEvent) <= MaxRows
    /\ eventsAvailable \in BOOLEAN
    /\ ~eventsAvailable => appEvent = <<>>
    /\ now \in 0..MaxNow
    /\ ties \in Orderings

Init ==
    /\ conversion = <<>> /\ appEvent = <<>>
    /\ eventsAvailable \in BOOLEAN
    /\ now = 0
    /\ ties \in Orderings

Room == Len(conversion) + Len(appEvent) < MaxRows

\* An order or an event reaches the service on its day or a day late.
Arrivals == {now, now - 1} \cap Nat

StoreOrder ==
    /\ Room
    /\ \E t \in Arrivals : \E o \in Dated(Orders, t) : conversion' = Append(conversion, o)
    /\ UNCHANGED <<appEvent, eventsAvailable, now, ties>>

StoreEvent ==
    /\ Room /\ eventsAvailable
    /\ \E t \in Arrivals : \E e \in Dated(Events, t) : appEvent' = Append(appEvent, e)
    /\ UNCHANGED <<conversion, eventsAvailable, now, ties>>

DayPasses ==
    /\ now < MaxNow
    /\ now' = now + 1
    /\ UNCHANGED <<conversion, appEvent, eventsAvailable, ties>>

\* ntile's window orders by the spend alone: another execution of the same
\* statement may meet equal users in another order.
TiesFallOtherwise ==
    /\ ties' \in Orderings
    /\ UNCHANGED <<conversion, appEvent, eventsAvailable, now>>

Next == StoreOrder \/ StoreEvent \/ DayPasses \/ TiesFallOtherwise

Spec == Init /\ [][Next]_vars

-----------------------------------------------------------------------------
(* The compiled statement: the set of users of each criterion.             *)

Since(days) == now - days

\* The orders of a user in the window, and the users "group by" finds in it.
OrdersOf(u, window) ==
    {i \in DOMAIN conversion : /\ conversion[i].row.app = App /\ conversion[i].row.user = u
                               /\ window # 0 => conversion[i].at >= Since(window)}
Buyers(window) == {u \in Users : OrdersOf(u, window) # {}}
Times(u) == {conversion[i].at : i \in OrdersOf(u, 0)}
Worth(rows) == MapThenSumSet(LAMBDA i : conversion[i].row.value, rows)
Spend(u, window) == Worth(OrdersOf(u, window))

\* faulty: the two comparisons are exchanged.
OrderRecencySwapped(c) ==
    {u \in Buyers(0) : IF c.op = "gt" THEN Max(Times(u)) >= Since(c.days)
                       ELSE Max(Times(u)) < Since(c.days)}

OrderRecency(c) ==
    {u \in Buyers(0) : IF c.op = "lte" THEN Max(Times(u)) >= Since(c.days)
                       ELSE Max(Times(u)) < Since(c.days)}

FirstOrderAge(c) ==
    {u \in Buyers(0) : IF c.op = "lte" THEN Min(Times(u)) >= Since(c.days)
                       ELSE Min(Times(u)) < Since(c.days)}

OrderFrequency(c) ==
    {u \in Buyers(c.window_days) :
        LET n == Cardinality(OrdersOf(u, c.window_days)) IN
        CASE c.op = "gte" -> n >= c.count [] c.op = "lte" -> n <= c.count [] OTHER -> n = c.count}

\* The average is compared multiplied out.
Monetary(c) ==
    {u \in Buyers(c.window_days) :
        LET n     == IF c.metric = "total" THEN 1 ELSE Cardinality(OrdersOf(u, c.window_days))
            spend == Spend(u, c.window_days)
        IN IF c.op = "gte" THEN spend >= n * c.value_inr ELSE spend <= n * c.value_inr}

\* ntile: the first of the buckets hold one row more when they do not come out even.
Ntile(rank, rows) ==
    LET size == rows \div Buckets
        over == rows % Buckets
    IN IF rank <= over * (size + 1) THEN 1 + (rank - 1) \div (size + 1)
       ELSE 1 + over + (rank - over * (size + 1) - 1) \div size

Rank(u) ==
    Cardinality({v \in Buyers(0) : \/ Spend(v, 0) < Spend(u, 0)
                                   \/ Spend(v, 0) = Spend(u, 0) /\ ties[v] <= ties[u]})

\* faulty: the band begins one bucket early.
LtvPercentileInclusive(c) ==
    {u \in Buyers(0) : Ntile(Rank(u), Cardinality(Buyers(0))) >= c.percentile}

LtvPercentile(c) ==
    {u \in Buyers(0) : Ntile(Rank(u), Cardinality(Buyers(0))) > c.percentile}

Attribute(c) ==
    {u \in Users : \E i \in OrdersOf(u, 0) : conversion[i].row.city \in c.values}

\* "is distinct from" holds of a property that is null, the others do not.
PropMatches(test, prop) ==
    CASE test = NotSet     -> TRUE
      [] test.op = "neq"   -> prop = NotSet \/ prop # test.value
      [] prop = NotSet     -> FALSE
      [] test.op = "eq"    -> prop = test.value
      [] test.op = "gte"   -> prop >= test.value
      [] test.op = "lte"   -> prop <= test.value

Performances(u, c) ==
    {i \in DOMAIN appEvent :
        /\ appEvent[i].row.app = App /\ appEvent[i].row.user = u
        /\ appEvent[i].row.name = c.event
        /\ appEvent[i].at >= Since(c.window_days)
        /\ PropMatches(c.prop, appEvent[i].row.prop)}

EventPerformed(c) == {u \in Users : Cardinality(Performances(u, c)) >= c.min_count}

\* faulty: the universe of the buyers, whatever the criterion.
UniverseOfBuyers(includeEvents) == Buyers(0)

Universe(includeEvents) ==
    Buyers(0) \cup {u \in Users : includeEvents /\ \E i \in DOMAIN appEvent :
                       appEvent[i].row.app = App /\ appEvent[i].row.user = u}

CompileCriterion(c) ==
    CASE c.kind = "order_recency"   -> OrderRecency(c)
      [] c.kind = "first_order_age" -> FirstOrderAge(c)
      [] c.kind = "order_frequency" -> OrderFrequency(c)
      [] c.kind = "monetary"        -> Monetary(c)
      [] c.kind = "ltv_percentile"  -> LtvPercentile(c)
      [] c.kind = "event"           -> IF c.performed THEN EventPerformed(c)
                                       ELSE Universe(TRUE) \ EventPerformed(c)
      [] c.kind = "attribute"       -> IF c.op # "neq" THEN Attribute(c)
                                       ELSE Universe(eventsAvailable) \ Attribute(c)

CompileGroup[g \in Groups] ==
    LET parts == {IF IsGroup(n) THEN CompileGroup[n] ELSE CompileCriterion(n) : n \in g.criteria}
    IN IF g.op = "AND" THEN {u \in Users : \A p \in parts : u \in p} ELSE UNION parts

\* Compilation throws if an event is asked for and there is no such table.
ReferencesEvents[g \in Groups] ==
    \E n \in g.criteria : IF IsGroup(n) THEN ReferencesEvents[n] ELSE n.kind = "event"
Compiles(g) == ReferencesEvents[g] => eventsAvailable

Members(g) == CompileGroup[g]

-----------------------------------------------------------------------------
(* What a definition means, user by user.                                  *)

\* The users the two tables know of.
Seen == {u \in Users : \/ \E i \in DOMAIN conversion : conversion[i].row.app = App
                                                       /\ conversion[i].row.user = u
                       \/ \E i \in DOMAIN appEvent : appEvent[i].row.app = App
                                                     /\ appEvent[i].row.user = u}

\* The orders of a user, and the performances of an event, by their age.
Bought(u) == {i \in DOMAIN conversion : conversion[i].row.app = App /\ conversion[i].row.user = u}
Age(i) == now - conversion[i].at
Within(u, c) == {i \in Bought(u) : c.window_days # 0 => Age(i) <= c.window_days}
Done(u, c) == {i \in DOMAIN appEvent : /\ appEvent[i].row.app = App /\ appEvent[i].row.user = u
                                       /\ appEvent[i].row.name = c.event
                                       /\ now - appEvent[i].at <= c.window_days
                                       /\ PropMatches(c.prop, appEvent[i].row.prop)}

\* The label of each criterion ("last order <= 30d ago", "did NOT do ... in 7d")
\* read of one user.  All but "did NOT do" and "city #" are about somebody who
\* has ordered, within the window if there is one.
Fits(u, c) ==
    \/ c.kind = "order_recency" /\ c.op = "lte" /\ \E i \in Bought(u) : Age(i) <= c.days
    \/ /\ c.kind = "order_recency" /\ c.op = "gt"
       /\ Bought(u) # {} /\ \A i \in Bought(u) : Age(i) > c.days
    \/ /\ c.kind = "first_order_age" /\ c.op = "lte"
       /\ Bought(u) # {} /\ \A i \in Bought(u) : Age(i) <= c.days
    \/ c.kind = "first_order_age" /\ c.op = "gt" /\ \E i \in Bought(u) : Age(i) > c.days
    \/ /\ c.kind = "order_frequency" /\ Within(u, c) # {}
       /\ c.op # "lte" => Cardinality(Within(u, c)) >= c.count
       /\ c.op # "gte" => Cardinality(Within(u, c)) <= c.count
    \/ /\ c.kind = "monetary" /\ Within(u, c) # {}
       /\ LET limit == IF c.metric = "avg" THEN Cardinality(Within(u, c)) * c.value_inr
                       ELSE c.value_inr
          IN IF c.op = "gte" THEN Worth(Within(u, c)) >= limit ELSE Worth(Within(u, c)) <= limit
    \/ c.kind = "ltv_percentile" /\ u \in LtvPercentile(c)
    \/ c.kind = "event" /\ (c.performed <=> Cardinality(Done(u, c)) >= c.min_count)
    \/ /\ c.kind = "attribute"
       /\ c.op # "neq" <=> \E i \in Bought(u) : conversion[i].row.city \in c.values

Means[g \in Groups] ==
    LET holds(u, n) == IF IsGroup(n) THEN Means[n][u] ELSE Fits(u, n)
    IN [u \in Users |-> IF g.op = "AND" THEN \A n \in g.criteria : holds(u, n)
                        ELSE \E n \in g.criteria : holds(u, n)]

\* The criteria that only time can end: once a day has passed without a row,
\* nobody new fits.
FadingCriterion(c) ==
    \/ c.kind \in {"order_recency", "first_order_age"} /\ c.op = "lte"
    \/ c.kind = "order_frequency" /\ c.op = "gte"
    \/ c.kind = "monetary" /\ c.metric = "total" /\ c.op = "gte"
    \/ c.kind = "event" /\ c.performed
    \/ c.kind = "attribute" /\ c.op # "neq"

Fading[g \in Groups] ==
    \A n \in g.criteria : IF IsGroup(n) THEN Fading[n] ELSE FadingCriterion(n)

-----------------------------------------------------------------------------
(* What the compiler promises.                                             *)

\* Sets composed by INTERSECT, UNION and EXCEPT say what the tree says of each
\* user, negations included: whoever has been seen, by his orders or only by his
\* events, is a member if and only if the definition is true of him.
MembersMeanIt ==
    \A g \in Groups : Compiles(g) => Members(g) = {u \in Seen : Means[g][u]}

\* The membership of a definition without negation or upper bound, stored by a
\* refresh and served until the next, is too large but never too small as long
\* as no row arrives: the passing of time alone makes nobody a member.
TimeOnlyRemoves ==
    [][now' > now => \A g \in Groups : Fading[g] => Members(g)' \subseteq Members(g)]_vars

\* Whoever spends more than a member of a percentile band is in it, however
\* equal spenders are ordered, and the band is no larger than its share.
BandIsTopSpenders ==
    \A c \in {d \in Criteria : d.kind = "ltv_percentile"} :
        LET band == LtvPercentile(c) IN
        /\ \A u \in band, v \in Buyers(0) \ band : Spend(v, 0) <= Spend(u, 0)
        /\ Cardinality(band) * Buckets <= Cardinality(Buyers(0)) * (Buckets - c.percentile)
=============================================================================
