-------------------------- MODULE MCSegmentCompiler --------------------------
(* SegmentCompiler for TLC: the rows that arrive and the definitions asked.   *)
EXTENDS SegmentCompiler, TLC

CONSTANTS u1, u2, u3, here, there, pune

Order(app, u, value, city) == [app |-> app, user |-> u, value |-> value, city |-> city]
MCOrders == {Order(here, u1, 1, pune), Order(here, u2, 3, NotSet), Order(here, u3, 1, NotSet),
             Order(here, Nobody, 3, pune), Order(there, u2, 1, pune)}
MCOrderings == {(u1 :> 1 @@ u2 :> 2 @@ u3 :> 3), (u1 :> 3 @@ u2 :> 2 @@ u3 :> 1)}

Event(app, u, prop) == [app |-> app, user |-> u, name |-> "el_add_to_cart", prop |-> prop]
MCEvents == {Event(here, u1, 2), Event(here, u3, NotSet), Event(there, u2, 1)}

Recency(op) == [kind |-> "order_recency", op |-> op, days |-> 1]
FirstAge(op) == [kind |-> "first_order_age", op |-> op, days |-> 1]
Frequency(op, n, window) ==
    [kind |-> "order_frequency", op |-> op, count |-> n, window_days |-> window]
Money(metric, op, value, window) ==
    [kind |-> "monetary", metric |-> metric, op |-> op, value_inr |-> value, window_days |-> window]
Ltv == [kind |-> "ltv_percentile", op |-> "gte", percentile |-> 1]
Did(performed, n, prop) ==
    [kind |-> "event", event |-> "el_add_to_cart", performed |-> performed,
     window_days |-> 1, min_count |-> n, prop |-> prop]
Test(op, value) == [op |-> op, value |-> value]
City(op) == [kind |-> "attribute", field |-> "city", op |-> op, values |-> {pune}]

MCCriteria ==
    {Recency("lte"), Recency("gt"), FirstAge("lte"), FirstAge("gt"), Ltv, City("eq"), City("neq")}
    \cup {Frequency(op, 1, w) : op \in {"gte", "lte", "eq"}, w \in {0, 1}}
    \cup {Money(metric, op, 2, w) : metric \in {"total", "avg"}, op \in {"gte", "lte"}, w \in {0, 1}}
    \cup {Did(TRUE, 1, NotSet), Did(FALSE, 1, NotSet), Did(FALSE, 2, NotSet),
          Did(TRUE, 1, Test("gte", 2)), Did(TRUE, 1, Test("lte", 1)),
          Did(FALSE, 1, Test("eq", 2)), Did(TRUE, 1, Test("neq", 2))}

Group(op, nodes) == [op |-> op, criteria |-> nodes]

\* Every criterion alone, both ways of combining a few, and nested ones.
Some == {Recency("lte"), City("neq"), Did(FALSE, 1, NotSet), Frequency("gte", 1, 1)}
Pairs == {Group(op, {c, d}) : op \in {"AND", "OR"}, c \in Some, d \in Some}
Nested == {Group(op, {g, c}) : op \in {"AND", "OR"}, c \in {City("neq"), Recency("lte")},
                               g \in {Group("OR", {Did(FALSE, 1, NotSet), Recency("lte")}),
                                      Group("AND", {Did(TRUE, 1, NotSet), City("neq")})}}
Deep == {Group("OR", {g, Did(FALSE, 2, NotSet)}) : g \in Nested}
MCGroups == {Group("AND", {c}) : c \in MCCriteria} \cup Pairs \cup Nested \cup Deep
            \cup UNION {g.criteria \ MCCriteria : g \in Nested}
=============================================================================
