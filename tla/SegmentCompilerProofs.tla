------------------------ MODULE SegmentCompilerProofs -------------------------
(***************************************************************************)
(* Proofs about the compiled statement of a segment: what the sets of the  *)
(* criteria compose to is what the definition says of each user, for every *)
(* definition the schema lets through and every table of orders and events.*)
(***************************************************************************)
EXTENDS SegmentCompiler, Counting, SequenceTheorems

(* The tables.                                                             *)

LEMMA Inits == Init => TypeOK
<1>1. \A S : <<>> \in Seq(S) /\ Len(<<>>) = 0
  BY EmptySeq
<1> QED BY <1>1, CompilerAssumption DEF Init, TypeOK

\* What was dated up to a day is dated up to the next.
LEMMA Later ==
  ASSUME NEW R, NEW n \in Nat, NEW s \in Seq([row : R, at : 0..n])
  PROVE  s \in Seq([row : R, at : 0..(n + 1)])
<1>1. [row : R, at : 0..n] \subseteq [row : R, at : 0..(n + 1)]
  OBVIOUS
<1> QED BY <1>1, SeqMonotonic

LEMMA Typed == TypeOK /\ [Next]_vars => TypeOK'
<1> SUFFICES ASSUME TypeOK, [Next]_vars PROVE TypeOK'
  OBVIOUS
<1>1. /\ now \in Nat /\ now <= MaxNow /\ MaxNow \in Nat /\ MaxRows \in Nat
      /\ Len(conversion) \in Nat /\ Len(appEvent) \in Nat
  BY CompilerAssumption, LenProperties DEF TypeOK
<1>2. Arrivals \subseteq 0..now
  BY <1>1 DEF Arrivals
<1>3. CASE StoreOrder
  <2>1. PICK t \in Arrivals : \E o \in Dated(Orders, t) : conversion' = Append(conversion, o)
    BY <1>3 DEF StoreOrder
  <2>2. PICK o \in [row : Orders, at : 0..now] : conversion' = Append(conversion, o)
    BY <1>2, <2>1 DEF Dated
  <2>3. conversion' \in Seq([row : Orders, at : 0..now]) /\ Len(conversion') = Len(conversion) + 1
    BY <2>2, AppendProperties DEF TypeOK
  <2> QED BY <1>1, <1>3, <2>3 DEF StoreOrder, Room, TypeOK
<1>4. CASE StoreEvent
  <2>1. PICK t \in Arrivals : \E e \in Dated(Events, t) : appEvent' = Append(appEvent, e)
    BY <1>4 DEF StoreEvent
  <2>2. PICK e \in [row : Events, at : 0..now] : appEvent' = Append(appEvent, e)
    BY <1>2, <2>1 DEF Dated
  <2>3. appEvent' \in Seq([row : Events, at : 0..now]) /\ Len(appEvent') = Len(appEvent) + 1
    BY <2>2, AppendProperties DEF TypeOK
  <2> QED BY <1>1, <1>4, <2>3 DEF StoreEvent, Room, TypeOK
<1>5. CASE DayPasses
  <2>1. now' = now + 1 /\ now' \in 0..MaxNow
    BY <1>1, <1>5 DEF DayPasses
  <2>2. /\ conversion \in Seq([row : Orders, at : 0..(now + 1)])
        /\ appEvent \in Seq([row : Events, at : 0..(now + 1)])
    BY <1>1, Later DEF TypeOK
  <2> QED BY <1>5, <2>1, <2>2 DEF DayPasses, TypeOK
<1>6. CASE TiesFallOtherwise
  BY <1>6 DEF TiesFallOtherwise, TypeOK
<1>7. CASE UNCHANGED vars
  BY <1>7 DEF vars, TypeOK
<1> QED BY <1>3, <1>4, <1>5, <1>6, <1>7 DEF Next

\* The tables hold rows of the past, their bound is kept, and there are events
\* only where there is a table of events.
THEOREM TablesTyped == Spec => []TypeOK
BY Inits, Typed, PTL DEF Spec

\* A row of orders, a row of events.
LEMMA Rows ==
  ASSUME TypeOK
  PROVE  /\ now \in Nat /\ Buckets \in Nat \ {0}
         /\ IsFiniteSet(DOMAIN conversion) /\ IsFiniteSet(DOMAIN appEvent)
         /\ \A i \in DOMAIN conversion :
               /\ conversion[i].row \in Orders /\ conversion[i].row.value \in Nat
               /\ conversion[i].at \in Nat /\ conversion[i].at <= now
         /\ \A i \in DOMAIN appEvent : appEvent[i].at \in Nat /\ appEvent[i].at <= now
<1>1. now \in Nat /\ Buckets \in Nat \ {0}
  BY CompilerAssumption DEF TypeOK
<1>2. \A R : \A s \in Seq([row : R, at : 0..now]) :
         /\ IsFiniteSet(DOMAIN s)
         /\ \A i \in DOMAIN s : s[i] \in [row : R, at : 0..now]
  <2>1. TAKE R
  <2>2. TAKE s \in Seq([row : R, at : 0..now])
  <2>3. Len(s) \in Nat /\ DOMAIN s = 1..Len(s)
    BY LenProperties
  <2>4. IsFiniteSet(1..Len(s))
    BY <2>3, FS_Interval
  <2>5. \A i \in 1..Len(s) : s[i] \in [row : R, at : 0..now]
    BY <2>3, ElementOfSeq
  <2> QED BY <2>3, <2>4, <2>5
<1>3. /\ conversion \in Seq([row : Orders, at : 0..now])
      /\ appEvent \in Seq([row : Events, at : 0..now])
  BY DEF TypeOK
<1>4. /\ IsFiniteSet(DOMAIN conversion) /\ IsFiniteSet(DOMAIN appEvent)
      /\ \A i \in DOMAIN conversion : conversion[i] \in [row : Orders, at : 0..now]
      /\ \A i \in DOMAIN appEvent : appEvent[i] \in [row : Events, at : 0..now]
  BY <1>2, <1>3
<1>5. \A o \in Orders : o.value \in Nat
  BY CompilerAssumption
<1> QED BY <1>1, <1>4, <1>5

-----------------------------------------------------------------------------
(* The orders of a user.                                                   *)

LEMMA OrdersFinite ==
  ASSUME TypeOK, NEW u, NEW w
  PROVE  /\ OrdersOf(u, w) \subseteq OrdersOf(u, 0) /\ OrdersOf(u, 0) \subseteq DOMAIN conversion
         /\ IsFiniteSet(OrdersOf(u, w)) /\ Cardinality(OrdersOf(u, w)) \in Nat
<1>1. OrdersOf(u, w) \subseteq OrdersOf(u, 0) /\ OrdersOf(u, 0) \subseteq DOMAIN conversion
  BY DEF OrdersOf
<1> QED BY <1>1, Rows, FS_Subset, FS_CardinalityType

\* The first and the last of them.
LEMMA FirstAndLast ==
  ASSUME TypeOK, NEW u \in Buyers(0)
  PROVE  /\ Times(u) \subseteq Nat
         /\ Min(Times(u)) \in Times(u) /\ \A t \in Times(u) : Min(Times(u)) <= t
         /\ Max(Times(u)) \in Times(u) /\ \A t \in Times(u) : t <= Max(Times(u))
<1>1. Times(u) # {} /\ \A t \in Times(u) : t \in Nat /\ t <= now
  BY Rows, OrdersFinite DEF Times, Buyers
<1>2. \E m \in Times(u) : \A t \in Times(u) : m <= t
  BY <1>1, Least
<1>3. \E m \in Times(u) : \A t \in Times(u) : t <= m
  <2> DEFINE ago == {now - t : t \in Times(u)}
  <2>1. ago \in SUBSET Nat /\ ago # {}
    BY <1>1, Rows
  <2>2. PICK a \in ago : \A b \in ago : a <= b
    BY <2>1, Least
  <2>3. PICK m \in Times(u) : a = now - m
    BY <2>2
  <2>4. ASSUME NEW t \in Times(u) PROVE t <= m
    BY <1>1, <2>2, <2>3, Rows
  <2> QED BY <2>4
<1>4. Min(Times(u)) \in Times(u) /\ \A t \in Times(u) : Min(Times(u)) <= t
  BY <1>2 DEF Min
<1>5. Max(Times(u)) \in Times(u) /\ \A t \in Times(u) : Max(Times(u)) >= t
  BY <1>3, <1>1 DEF Max
<1> QED BY <1>1, <1>4, <1>5

\* The value of each.
ValueOf == [i \in DOMAIN conversion |-> conversion[i].row.value]

LEMMA SpendIsSum ==
  ASSUME TypeOK, NEW u, NEW w
  PROVE  Spend(u, w) = Sum(ValueOf, OrdersOf(u, w))
<1> DEFINE S == OrdersOf(u, w)
           Eq(H) == H = [s \in SUBSET S |-> IF s = {} THEN 0
                         ELSE conversion[AnyOf(s)].row.value + H[s \ {AnyOf(s)}]]
<1>1. IsFiniteSet(S) /\ S \subseteq DOMAIN conversion
  BY OrdersFinite
<1>2. PICK F : Adds(F, ValueOf, SUBSET S)
  BY <1>1, SumExists
<1>3. \A s \in SUBSET S : s # {} => AnyOf(s) \in DOMAIN conversion
  BY <1>1, OneLess
<1>4. \A s \in SUBSET S : s # {} => ValueOf[AnyOf(s)] = conversion[AnyOf(s)].row.value
  BY <1>3 DEF ValueOf
<1>5. \A H : Eq(H) <=> Adds(H, ValueOf, SUBSET S)
  BY <1>4 DEF Adds
<1>6. Eq(CHOOSE H : Eq(H))
  BY <1>2, <1>5
<1>7. Spend(u, w) = (CHOOSE H : Eq(H))[S]
  BY DEF Spend, Worth, MapThenSumSet, MapThenFoldSet, AnyOf
<1> HIDE DEF Eq
<1>8. Adds(CHOOSE H : Eq(H), ValueOf, SUBSET S) /\ S \in SUBSET S
  BY <1>5, <1>6
<1> QED BY <1>1, <1>7, <1>8, SumWithin

LEMMA SpendType ==
  ASSUME TypeOK, NEW u, NEW w
  PROVE  Spend(u, w) \in Nat
<1>1. IsFiniteSet(OrdersOf(u, w)) /\ OrdersOf(u, w) \subseteq DOMAIN conversion
  BY OrdersFinite
<1>2. \A i \in OrdersOf(u, w) : ValueOf[i] \in Nat
  BY <1>1, Rows DEF ValueOf
<1> QED BY <1>1, <1>2, SumType, SpendIsSum

-----------------------------------------------------------------------------
(* Each criterion.                                                         *)

\* The orders found are the orders of the user, of the age asked for.
LEMMA SameOrders ==
  ASSUME TypeOK, NEW u
  PROVE  /\ OrdersOf(u, 0) = Bought(u)
         /\ \A c : c.window_days \in Nat => OrdersOf(u, c.window_days) = Within(u, c)
<1>1. \A i \in DOMAIN conversion, w \in Nat : conversion[i].at >= Since(w) <=> Age(i) <= w
  BY Rows DEF Since, Age
<1> QED BY <1>1 DEF OrdersOf, Bought, Within

\* Whoever has an order was seen.
LEMMA BuyersSeen ==
  /\ \A u \in Users : \A w : OrdersOf(u, w) # {} => u \in Buyers(0) /\ u \in Seen
  /\ \A u \in Users : \A w : u \in Buyers(w) <=> OrdersOf(u, w) # {}
  /\ \A w : Buyers(w) \subseteq Users
BY DEF Buyers, OrdersOf, Seen

\* The universe of a negation is whoever was seen.
LEMMA UniverseSeen ==
  ASSUME TypeOK
  PROVE  Universe(TRUE) = Seen /\ Universe(eventsAvailable) = Seen
<1>1. ~eventsAvailable => DOMAIN appEvent = {}
  BY EmptySeq DEF TypeOK
<1> QED BY <1>1 DEF Universe, Seen, Buyers, OrdersOf

LEMMA RecencyMeans ==
  ASSUME TypeOK, NEW c, c.kind = "order_recency", IsCriterion(c)
  PROVE  CompileCriterion(c) = {u \in Seen : Fits(u, c)}
<1>1. c.op \in {"lte", "gt"} /\ c.days \in Nat
  BY DEF IsCriterion
<1>2. \A u : Fits(u, c) <=> \/ c.op = "lte" /\ \E i \in Bought(u) : Age(i) <= c.days
                            \/ /\ c.op = "gt" /\ Bought(u) # {}
                               /\ \A i \in Bought(u) : Age(i) > c.days
  BY DEF Fits
<1>3. CompileCriterion(c) = OrderRecency(c)
  BY DEF CompileCriterion
<1>4. ASSUME NEW u \in Buyers(0)
      PROVE  /\ Max(Times(u)) >= Since(c.days) <=> \E i \in Bought(u) : Age(i) <= c.days
             /\ Max(Times(u)) < Since(c.days) <=> \A i \in Bought(u) : Age(i) > c.days
  <2>1. OrdersOf(u, 0) = Bought(u) /\ Bought(u) \subseteq DOMAIN conversion
    BY SameOrders, OrdersFinite
  <2>2. /\ \A i \in Bought(u) : conversion[i].at <= Max(Times(u))
        /\ \E i \in Bought(u) : conversion[i].at = Max(Times(u))
        /\ Max(Times(u)) \in Nat
    BY <2>1, FirstAndLast DEF Times
  <2>3. \A i \in Bought(u) : conversion[i].at \in Nat
    BY <2>1, Rows
  <2> QED BY <1>1, <2>2, <2>3, Rows DEF Since, Age
<1>5. \A u \in Users : u \in Buyers(0) <=> Bought(u) # {}
  BY SameOrders, BuyersSeen
<1>6. Buyers(0) \subseteq Users /\ Buyers(0) \subseteq Seen /\ Seen \subseteq Users
  BY BuyersSeen DEF Seen
<1> QED BY <1>1, <1>2, <1>3, <1>4, <1>5, <1>6 DEF OrderRecency

LEMMA FirstAgeMeans ==
  ASSUME TypeOK, NEW c, c.kind = "first_order_age", IsCriterion(c)
  PROVE  CompileCriterion(c) = {u \in Seen : Fits(u, c)}
<1>1. c.op \in {"lte", "gt"} /\ c.days \in Nat
  BY DEF IsCriterion
<1>2. \A u : Fits(u, c) <=> \/ c.op = "gt" /\ \E i \in Bought(u) : Age(i) > c.days
                            \/ /\ c.op = "lte" /\ Bought(u) # {}
                               /\ \A i \in Bought(u) : Age(i) <= c.days
  BY DEF Fits
<1>3. CompileCriterion(c) = FirstOrderAge(c)
  BY DEF CompileCriterion
<1>4. ASSUME NEW u \in Buyers(0)
      PROVE  /\ Min(Times(u)) >= Since(c.days) <=> \A i \in Bought(u) : Age(i) <= c.days
             /\ Min(Times(u)) < Since(c.days) <=> \E i \in Bought(u) : Age(i) > c.days
  <2>1. OrdersOf(u, 0) = Bought(u) /\ Bought(u) \subseteq DOMAIN conversion
    BY SameOrders, OrdersFinite
  <2>2. /\ \A i \in Bought(u) : Min(Times(u)) <= conversion[i].at
        /\ \E i \in Bought(u) : conversion[i].at = Min(Times(u))
        /\ Min(Times(u)) \in Nat
    BY <2>1, FirstAndLast DEF Times
  <2>3. \A i \in Bought(u) : conversion[i].at \in Nat
    BY <2>1, Rows
  <2> QED BY <1>1, <2>2, <2>3, Rows DEF Since, Age
<1>5. \A u \in Users : u \in Buyers(0) <=> Bought(u) # {}
  BY SameOrders, BuyersSeen
<1>6. Buyers(0) \subseteq Users /\ Buyers(0) \subseteq Seen /\ Seen \subseteq Users
  BY BuyersSeen DEF Seen
<1> QED BY <1>1, <1>2, <1>3, <1>4, <1>5, <1>6 DEF FirstOrderAge

LEMMA FrequencyMeans ==
  ASSUME TypeOK, NEW c, c.kind = "order_frequency", IsCriterion(c)
  PROVE  CompileCriterion(c) = {u \in Seen : Fits(u, c)}
<1>1. c.op \in {"gte", "lte", "eq"} /\ c.count \in Nat /\ c.window_days \in Nat
  BY DEF IsCriterion
<1>2. \A u : Fits(u, c) <=> /\ Within(u, c) # {}
                            /\ c.op # "lte" => Cardinality(Within(u, c)) >= c.count
                            /\ c.op # "gte" => Cardinality(Within(u, c)) <= c.count
  BY DEF Fits
<1>3. CompileCriterion(c) = OrderFrequency(c)
  BY DEF CompileCriterion
<1>4. \A u : OrdersOf(u, c.window_days) = Within(u, c) /\ Cardinality(Within(u, c)) \in Nat
  BY <1>1, SameOrders, OrdersFinite
<1>5. \A u \in Users : /\ u \in Buyers(c.window_days) <=> Within(u, c) # {}
                       /\ Within(u, c) # {} => u \in Seen
  BY <1>4, BuyersSeen
<1>6. Buyers(c.window_days) \subseteq Users /\ Seen \subseteq Users
  BY BuyersSeen DEF Seen
<1>7. \A u : LET n == Cardinality(OrdersOf(u, c.window_days))
             IN  (CASE c.op = "gte" -> n >= c.count [] c.op = "lte" -> n <= c.count
                    [] OTHER -> n = c.count)
                 <=> /\ c.op # "lte" => n >= c.count
                     /\ c.op # "gte" => n <= c.count
  BY <1>1, <1>4
<1> QED BY <1>2, <1>3, <1>4, <1>5, <1>6, <1>7 DEF OrderFrequency

LEMMA MonetaryMeans ==
  ASSUME TypeOK, NEW c, c.kind = "monetary", IsCriterion(c)
  PROVE  CompileCriterion(c) = {u \in Seen : Fits(u, c)}
<1>1. /\ c.op \in {"gte", "lte"} /\ c.metric \in {"total", "avg"}
      /\ c.value_inr \in Nat /\ c.window_days \in Nat
  BY DEF IsCriterion
<1> DEFINE limit(u) == IF c.metric = "avg" THEN Cardinality(Within(u, c)) * c.value_inr
                       ELSE c.value_inr
           meets(u) == IF c.op = "gte" THEN Worth(Within(u, c)) >= limit(u)
                       ELSE Worth(Within(u, c)) <= limit(u)
<1>2. \A u : Fits(u, c) <=> Within(u, c) # {} /\ meets(u)
  BY DEF Fits
<1>3. CompileCriterion(c) = Monetary(c)
  BY DEF CompileCriterion
<1>4. \A u : OrdersOf(u, c.window_days) = Within(u, c)
  BY <1>1, SameOrders
<1>5. \A u \in Users : /\ u \in Buyers(c.window_days) <=> Within(u, c) # {}
                       /\ Within(u, c) # {} => u \in Seen
  BY <1>4, BuyersSeen
<1>6. Buyers(c.window_days) \subseteq Users /\ Seen \subseteq Users
  BY BuyersSeen DEF Seen
<1>7. \A u : Spend(u, c.window_days) = Worth(Within(u, c))
  BY <1>4 DEF Spend
<1>8. \A u : (IF c.metric = "total" THEN 1 ELSE Cardinality(OrdersOf(u, c.window_days)))
                * c.value_inr = limit(u)
  BY <1>1, <1>4
<1>9. Monetary(c) = {u \in Buyers(c.window_days) : meets(u)}
  BY <1>1, <1>7, <1>8 DEF Monetary
<1> HIDE DEF meets
<1> QED BY <1>2, <1>3, <1>5, <1>6, <1>9

LEMMA PercentileMeans ==
  ASSUME NEW c, c.kind = "ltv_percentile"
  PROVE  CompileCriterion(c) = {u \in Seen : Fits(u, c)}
<1>1. \A u : Fits(u, c) <=> u \in LtvPercentile(c)
  BY DEF Fits
<1>2. CompileCriterion(c) = LtvPercentile(c)
  BY DEF CompileCriterion
<1>3. LtvPercentile(c) \subseteq Buyers(0) /\ Buyers(0) \subseteq Seen
  BY BuyersSeen DEF LtvPercentile
<1> QED BY <1>1, <1>2, <1>3

LEMMA EventMeans ==
  ASSUME TypeOK, NEW c, c.kind = "event", IsCriterion(c)
  PROVE  CompileCriterion(c) = {u \in Seen : Fits(u, c)}
<1>1. c.performed \in BOOLEAN /\ c.window_days \in Nat /\ c.min_count \in Nat \ {0}
  BY DEF IsCriterion
<1>2. \A u : Fits(u, c) <=> (c.performed <=> Cardinality(Done(u, c)) >= c.min_count)
  BY DEF Fits
<1>3. CompileCriterion(c) = IF c.performed THEN EventPerformed(c) ELSE Universe(TRUE) \ EventPerformed(c)
  BY DEF CompileCriterion
<1>4. \A i \in DOMAIN appEvent :
         appEvent[i].at >= Since(c.window_days) <=> now - appEvent[i].at <= c.window_days
  BY <1>1, Rows DEF Since
<1>5. \A u : Performances(u, c) = Done(u, c)
  BY <1>4 DEF Performances, Done
<1>6. EventPerformed(c) = {u \in Users : Cardinality(Done(u, c)) >= c.min_count}
  BY <1>5 DEF EventPerformed
<1>7. \A u \in Users : Done(u, c) # {} => u \in Seen
  BY DEF Done, Seen
<1>8. \A u \in Users : Cardinality(Done(u, c)) >= c.min_count => u \in Seen
  <2>1. \A u \in Users : Done(u, c) = {} => Cardinality(Done(u, c)) = 0
    BY FS_EmptySet
  <2> QED BY <1>1, <1>7, <2>1
<1>9. Universe(TRUE) = Seen /\ Seen \subseteq Users
  BY UniverseSeen DEF Seen
<1> QED BY <1>1, <1>2, <1>3, <1>6, <1>8, <1>9

LEMMA AttributeMeans ==
  ASSUME TypeOK, NEW c, c.kind = "attribute", IsCriterion(c)
  PROVE  CompileCriterion(c) = {u \in Seen : Fits(u, c)}
<1> DEFINE has(u) == \E i \in Bought(u) : conversion[i].row.city \in c.values
<1>1. \A u : Fits(u, c) <=> (c.op # "neq" <=> has(u))
  BY DEF Fits
<1>2. CompileCriterion(c) = IF c.op # "neq" THEN Attribute(c)
                            ELSE Universe(eventsAvailable) \ Attribute(c)
  BY DEF CompileCriterion
<1>3. Attribute(c) = {u \in Users : has(u)}
  BY SameOrders DEF Attribute
<1>4. \A u \in Users : has(u) => u \in Seen
  BY DEF Bought, Seen
<1>5. Universe(eventsAvailable) = Seen /\ Seen \subseteq Users
  BY UniverseSeen DEF Seen
<1> HIDE DEF has
<1> QED BY <1>1, <1>2, <1>3, <1>4, <1>5

LEMMA CriterionMeans ==
  ASSUME TypeOK, NEW c \in Criteria
  PROVE  CompileCriterion(c) = {u \in Seen : Fits(u, c)}
<1>1. IsCriterion(c)
  BY CompilerAssumption
<1>2. c.kind \in {"order_recency", "first_order_age", "order_frequency", "monetary",
                  "ltv_percentile", "event", "attribute"}
  BY <1>1 DEF IsCriterion
<1> QED BY <1>1, <1>2, RecencyMeans, FirstAgeMeans, FrequencyMeans, MonetaryMeans,
           PercentileMeans, EventMeans, AttributeMeans

-----------------------------------------------------------------------------
(* Trees of groups.                                                        *)

\* The nodes of a group.
LEMMA Nodes ==
  ASSUME NEW g \in Groups
  PROVE  /\ g.op \in {"AND", "OR"} /\ g.criteria # {} /\ Depth[g] \in 1..3
         /\ \A n \in g.criteria : IF IsGroup(n) THEN n \in Groups ELSE n \in Criteria
         /\ \A n \in g.criteria : n \in Groups => IsGroup(n) /\ Depth[n] \in 1..3 /\ Depth[n] < Depth[g]
BY CompilerAssumption DEF MAX_DEPTH

\* What holds of a group whenever it holds of the groups in it holds of all.
LEMMA FromLeaves ==
  ASSUME NEW S, \A g \in Groups : (\A n \in g.criteria : n \in Groups => n \in S) => g \in S
  PROVE  Groups \subseteq S
<1>1. \A g \in Groups : Depth[g] = 1 => g \in S
  BY Nodes
<1>2. \A g \in Groups : Depth[g] = 2 => g \in S
  BY <1>1, Nodes
<1>3. \A g \in Groups : Depth[g] = 3 => g \in S
  BY <1>1, <1>2, Nodes
<1> QED BY <1>1, <1>2, <1>3, Nodes

\* A value of each group given by those of the groups in it: B[g][F] is the one
\* of g when F gives the others.
Closed(B, V) == \A g \in Groups, F \in [Groups -> V] : B[g][F] \in V
FromChildren(B, V) ==
    \A g \in Groups, F \in [Groups -> V], G \in [Groups -> V] :
        (\A n \in g.criteria : n \in Groups => F[n] = G[n]) => B[g][F] = B[g][G]

LEMMA Recursion ==
  ASSUME NEW V, NEW v \in V, NEW B, Closed(B, V), FromChildren(B, V)
  PROVE  \E F \in [Groups -> V] : \A g \in Groups : F[g] = B[g][F]
<1> DEFINE F0 == [g \in Groups |-> v]
           F1 == [g \in Groups |-> B[g][F0]]
           F2 == [g \in Groups |-> B[g][F1]]
           F3 == [g \in Groups |-> B[g][F2]]
<1>1. F0 \in [Groups -> V]
  OBVIOUS
<1>2. F1 \in [Groups -> V] /\ \A g \in Groups : F1[g] = B[g][F0]
  BY <1>1 DEF Closed
<1>3. F2 \in [Groups -> V] /\ \A g \in Groups : F2[g] = B[g][F1]
  BY <1>2 DEF Closed
<1>4. F3 \in [Groups -> V] /\ \A g \in Groups : F3[g] = B[g][F2]
  BY <1>3 DEF Closed
<1> HIDE DEF F0, F1, F2, F3
<1>5. \A g \in Groups : Depth[g] = 1 => F1[g] = F2[g] /\ F2[g] = F3[g]
  <2>1. TAKE g \in Groups
  <2>2. HAVE Depth[g] = 1
  <2>3. \A n \in g.criteria : n \notin Groups
    BY <2>2, Nodes
  <2>4. B[g][F0] = B[g][F1]
    BY <1>1, <1>2, <2>3 DEF FromChildren
  <2>5. B[g][F1] = B[g][F2]
    BY <1>2, <1>3, <2>3 DEF FromChildren
  <2> QED BY <1>2, <1>3, <1>4, <2>4, <2>5
<1>6. \A g \in Groups : Depth[g] = 2 => F2[g] = F3[g]
  <2>1. TAKE g \in Groups
  <2>2. HAVE Depth[g] = 2
  <2>3. \A n \in g.criteria : n \in Groups => F1[n] = F2[n]
    BY <1>5, <2>2, Nodes
  <2>4. B[g][F1] = B[g][F2]
    BY <1>2, <1>3, <2>3 DEF FromChildren
  <2> QED BY <1>3, <1>4, <2>4
<1>7. ASSUME NEW g \in Groups PROVE F3[g] = B[g][F3]
  <2>1. \A n \in g.criteria : n \in Groups => F2[n] = F3[n]
    BY <1>5, <1>6, Nodes
  <2>2. B[g][F2] = B[g][F3]
    BY <1>3, <1>4, <2>1 DEF FromChildren
  <2> QED BY <1>4, <2>2
<1> QED BY <1>4, <1>7

\* The sets of a group's children, and how they are composed.
Part(F, n) == IF IsGroup(n) THEN F[n] ELSE CompileCriterion(n)
Composed(F, g) ==
    LET parts == {Part(F, n) : n \in g.criteria}
    IN IF g.op = "AND" THEN {u \in Users : \A p \in parts : u \in p} ELSE UNION parts

LEMMA CriterionOfUsers == \A c \in Criteria : CompileCriterion(c) \subseteq Users
<1> SUFFICES ASSUME NEW c \in Criteria PROVE CompileCriterion(c) \subseteq Users
  OBVIOUS
<1>1. c.kind \in {"order_recency", "first_order_age", "order_frequency", "monetary",
                  "ltv_percentile", "event", "attribute"}
  BY CompilerAssumption DEF IsCriterion
<1>2. /\ OrderRecency(c) \subseteq Users /\ FirstOrderAge(c) \subseteq Users
      /\ LtvPercentile(c) \subseteq Users /\ Attribute(c) \subseteq Users
      /\ EventPerformed(c) \subseteq Users
      /\ Universe(TRUE) \subseteq Users /\ Universe(eventsAvailable) \subseteq Users
  BY BuyersSeen DEF OrderRecency, FirstOrderAge, LtvPercentile, Attribute, EventPerformed, Universe
<1>3. OrderFrequency(c) \subseteq Users /\ Monetary(c) \subseteq Users
  BY BuyersSeen DEF OrderFrequency, Monetary
<1> QED BY <1>1, <1>2, <1>3 DEF CompileCriterion

LEMMA CompileEquation ==
  \A g \in Groups : CompileGroup[g] = Composed(CompileGroup, g)
<1> DEFINE V == SUBSET Users
           B == [g \in Groups |-> [F \in [Groups -> V] |-> Composed(F, g)]]
           Eq(F) == F = [g \in Groups |-> Composed(F, g)]
<1>1. ASSUME NEW g \in Groups, NEW F \in [Groups -> V] PROVE Composed(F, g) \in V
  <2>1. \A n \in g.criteria : Part(F, n) \in SUBSET Users
    BY Nodes, CriterionOfUsers DEF Part
  <2> QED BY <2>1 DEF Composed
<1>2. ASSUME NEW g \in Groups, NEW F \in [Groups -> V], NEW G \in [Groups -> V],
             \A n \in g.criteria : n \in Groups => F[n] = G[n]
      PROVE  Composed(F, g) = Composed(G, g)
  <2>1. \A n \in g.criteria : Part(F, n) = Part(G, n)
    BY <1>2, Nodes DEF Part
  <2>2. {Part(F, n) : n \in g.criteria} = {Part(G, n) : n \in g.criteria}
    BY <2>1
  <2> QED BY <2>2 DEF Composed
<1>3. \A g \in Groups, F \in [Groups -> V] : B[g][F] = Composed(F, g)
  OBVIOUS
<1>4. {} \in V
  OBVIOUS
<1> HIDE DEF V, B
<1>5. \E F \in [Groups -> V] : \A g \in Groups : F[g] = B[g][F]
  <2>1. Closed(B, V)
    BY <1>1, <1>3 DEF Closed
  <2>2. ASSUME NEW g \in Groups, NEW F \in [Groups -> V], NEW G \in [Groups -> V],
               \A n \in g.criteria : n \in Groups => F[n] = G[n]
        PROVE  B[g][F] = B[g][G]
    <3>1. Composed(F, g) = Composed(G, g)
      BY <1>2, <2>2
    <3> QED BY <1>3, <3>1
  <2>3. FromChildren(B, V)
    BY <2>2 DEF FromChildren
  <2> QED BY <1>4, <2>1, <2>3, Recursion
<1>6. \E F : Eq(F)
  <2>1. PICK F \in [Groups -> V] : \A g \in Groups : F[g] = B[g][F]
    BY <1>5
  <2>2. F = [g \in Groups |-> Composed(F, g)]
    BY <1>3, <2>1
  <2> QED BY <2>2
<1>7. CompileGroup = CHOOSE F : Eq(F)
  BY DEF CompileGroup, Composed, Part
<1>8. Eq(CompileGroup)
  BY <1>6, <1>7
<1> QED BY <1>8

\* What a definition says of a user, from what its children say.
Holds(F, u, n) == IF IsGroup(n) THEN F[n][u] ELSE Fits(u, n)
Said(F, g) ==
    [u \in Users |-> IF g.op = "AND" THEN \A n \in g.criteria : Holds(F, u, n)
                     ELSE \E n \in g.criteria : Holds(F, u, n)]

LEMMA MeansEquation == \A g \in Groups : Means[g] = Said(Means, g)
<1> DEFINE V == [Users -> BOOLEAN]
           B == [g \in Groups |-> [F \in [Groups -> V] |-> Said(F, g)]]
           Eq(F) == F = [g \in Groups |-> Said(F, g)]
<1>1. ASSUME NEW g \in Groups, NEW F \in [Groups -> V] PROVE Said(F, g) \in V
  BY DEF Said
<1>2. ASSUME NEW g \in Groups, NEW F \in [Groups -> V], NEW G \in [Groups -> V],
             \A n \in g.criteria : n \in Groups => F[n] = G[n]
      PROVE  Said(F, g) = Said(G, g)
  <2>1. \A n \in g.criteria, u \in Users : Holds(F, u, n) <=> Holds(G, u, n)
    BY <1>2, Nodes DEF Holds
  <2> QED BY <2>1 DEF Said
<1>3. \A g \in Groups, F \in [Groups -> V] : B[g][F] = Said(F, g)
  OBVIOUS
<1>4. [u \in Users |-> TRUE] \in V
  OBVIOUS
<1> HIDE DEF V, B
<1>5. \E F \in [Groups -> V] : \A g \in Groups : F[g] = B[g][F]
  <2>1. Closed(B, V)
    BY <1>1, <1>3 DEF Closed
  <2>2. ASSUME NEW g \in Groups, NEW F \in [Groups -> V], NEW G \in [Groups -> V],
               \A n \in g.criteria : n \in Groups => F[n] = G[n]
        PROVE  B[g][F] = B[g][G]
    <3>1. Said(F, g) = Said(G, g)
      BY <1>2, <2>2
    <3> QED BY <1>3, <3>1
  <2>3. FromChildren(B, V)
    BY <2>2 DEF FromChildren
  <2> QED BY <1>4, <2>1, <2>3, Recursion
<1>6. \E F : Eq(F)
  <2>1. PICK F \in [Groups -> V] : \A g \in Groups : F[g] = B[g][F]
    BY <1>5
  <2>2. F = [g \in Groups |-> Said(F, g)]
    BY <1>3, <2>1
  <2> QED BY <2>2
<1>7. Means = CHOOSE F : Eq(F)
  BY DEF Means, Said, Holds
<1>8. Eq(Means)
  BY <1>6, <1>7
<1> QED BY <1>8

\* Which definitions fade, likewise.
Fades(F, n) == IF IsGroup(n) THEN F[n] ELSE FadingCriterion(n)
AllFade(F, g) == \A n \in g.criteria : Fades(F, n)

LEMMA FadingEquation == \A g \in Groups : Fading[g] = AllFade(Fading, g)
<1> DEFINE V == BOOLEAN
           B == [g \in Groups |-> [F \in [Groups -> V] |-> AllFade(F, g)]]
           Eq(F) == F = [g \in Groups |-> AllFade(F, g)]
<1>1. ASSUME NEW g \in Groups, NEW F \in [Groups -> V] PROVE AllFade(F, g) \in V
  BY DEF AllFade
<1>2. ASSUME NEW g \in Groups, NEW F \in [Groups -> V], NEW G \in [Groups -> V],
             \A n \in g.criteria : n \in Groups => F[n] = G[n]
      PROVE  AllFade(F, g) = AllFade(G, g)
  <2>1. \A n \in g.criteria : Fades(F, n) <=> Fades(G, n)
    BY <1>2, Nodes DEF Fades
  <2> QED BY <2>1 DEF AllFade
<1>3. \A g \in Groups, F \in [Groups -> V] : B[g][F] = AllFade(F, g)
  OBVIOUS
<1>4. PICK v \in V : TRUE
  OBVIOUS
<1> HIDE DEF V, B
<1>5. \E F \in [Groups -> V] : \A g \in Groups : F[g] = B[g][F]
  <2>1. Closed(B, V)
    BY <1>1, <1>3 DEF Closed
  <2>2. ASSUME NEW g \in Groups, NEW F \in [Groups -> V], NEW G \in [Groups -> V],
               \A n \in g.criteria : n \in Groups => F[n] = G[n]
        PROVE  B[g][F] = B[g][G]
    <3>1. AllFade(F, g) = AllFade(G, g)
      BY <1>2, <2>2
    <3> QED BY <1>3, <3>1
  <2>3. FromChildren(B, V)
    BY <2>2 DEF FromChildren
  <2> QED BY <1>4, <2>1, <2>3, Recursion
<1>6. \E F : Eq(F)
  <2>1. PICK F \in [Groups -> V] : \A g \in Groups : F[g] = B[g][F]
    BY <1>5
  <2>2. F = [g \in Groups |-> AllFade(F, g)]
    BY <1>3, <2>1
  <2> QED BY <2>2
<1>7. Fading = CHOOSE F : Eq(F)
  BY DEF Fading, AllFade, Fades
<1>8. Eq(Fading)
  BY <1>6, <1>7
<1> QED BY <1>8

-----------------------------------------------------------------------------
(* Sets composed mean what the tree says.                                  *)

LEMMA GroupMeans ==
  ASSUME TypeOK
  PROVE  \A g \in Groups : CompileGroup[g] = {u \in Seen : Means[g][u]}
<1> DEFINE S == {g \in Groups : CompileGroup[g] = {u \in Seen : Means[g][u]}}
<1>1. ASSUME NEW g \in Groups, \A n \in g.criteria : n \in Groups => n \in S
      PROVE  g \in S
  <2>1. ASSUME NEW n \in g.criteria
        PROVE  Part(CompileGroup, n) = {u \in Seen : Holds(Means, u, n)}
    <3>1. CASE IsGroup(n)
      BY <1>1, <3>1, Nodes DEF Part, Holds
    <3>2. CASE ~IsGroup(n)
      BY <3>2, Nodes, CriterionMeans DEF Part, Holds
    <3> QED BY <3>1, <3>2
  <2>2. Seen \subseteq Users
    BY DEF Seen
  <2>3. \A u \in Users : Means[g][u] <=> IF g.op = "AND" THEN \A n \in g.criteria : Holds(Means, u, n)
                                         ELSE \E n \in g.criteria : Holds(Means, u, n)
    BY MeansEquation DEF Said
  <2>4. \A u : u \in CompileGroup[g] <=>
           u \in Seen /\ IF g.op = "AND" THEN \A n \in g.criteria : Holds(Means, u, n)
                         ELSE \E n \in g.criteria : Holds(Means, u, n)
    <3>1. CompileGroup[g] = Composed(CompileGroup, g) /\ g.criteria # {}
      BY CompileEquation, Nodes
    <3>2. CASE g.op = "AND"
      <4>1. \A u : u \in CompileGroup[g] <=>
               u \in Users /\ \A n \in g.criteria : u \in Part(CompileGroup, n)
        BY <3>1, <3>2 DEF Composed
      <4> QED BY <2>1, <2>2, <3>1, <3>2, <4>1
    <3>3. CASE g.op # "AND"
      <4>1. \A u : u \in CompileGroup[g] <=> \E n \in g.criteria : u \in Part(CompileGroup, n)
        BY <3>1, <3>3 DEF Composed
      <4> QED BY <2>1, <3>3, <4>1
    <3> QED BY <3>2, <3>3
  <2> QED BY <2>2, <2>3, <2>4
<1>2. Groups \subseteq S
  BY <1>1, FromLeaves
<1> QED BY <1>2

\* Whoever has been seen, by his orders or only by his events, is a member of a
\* definition's set if and only if the definition is true of him.
THEOREM MembersHold == Spec => []MembersMeanIt
<1>1. TypeOK => MembersMeanIt
  BY GroupMeans DEF MembersMeanIt, Members
<1> QED BY <1>1, TablesTyped, PTL

-----------------------------------------------------------------------------
(* Time alone makes nobody a member.                                       *)

LEMMA Meant ==
  TypeOK => /\ \A c \in Criteria : CompileCriterion(c) = {u \in Seen : Fits(u, c)}
            /\ \A u, c : c.window_days \in Nat => Worth(Within(u, c)) = Sum(ValueOf, Within(u, c))
<1> SUFFICES ASSUME TypeOK
             PROVE  /\ \A c \in Criteria : CompileCriterion(c) = {u \in Seen : Fits(u, c)}
                    /\ \A u, c : c.window_days \in Nat =>
                          Worth(Within(u, c)) = Sum(ValueOf, Within(u, c))
  OBVIOUS
<1>1. \A u, c : c.window_days \in Nat => Worth(Within(u, c)) = Sum(ValueOf, Within(u, c))
  BY SameOrders, SpendIsSum DEF Spend
<1> QED BY <1>1, CriterionMeans

LEMMA MeantNext ==
  (TypeOK => /\ \A c \in Criteria : CompileCriterion(c) = {u \in Seen : Fits(u, c)}
             /\ \A u, c : c.window_days \in Nat =>
                   Worth(Within(u, c)) = Sum(ValueOf, Within(u, c)))'
BY Meant, PTL

\* A step in which no row arrives and the day does not go back.
Ages == now' >= now /\ UNCHANGED <<conversion, appEvent>>

LEMMA Fewer ==
  ASSUME TypeOK, TypeOK', Ages, NEW u, NEW c, c.window_days \in Nat
  PROVE  /\ Bought(u)' = Bought(u) /\ Seen' = Seen /\ ValueOf' = ValueOf
         /\ \A i \in Bought(u) : Age(i) \in Nat /\ Age(i)' \in Nat /\ Age(i) <= Age(i)'
         /\ Within(u, c)' \subseteq Within(u, c) /\ Done(u, c)' \subseteq Done(u, c)
         /\ Cardinality(Within(u, c)') \in Nat /\ Cardinality(Within(u, c)) \in Nat
         /\ Cardinality(Within(u, c)') <= Cardinality(Within(u, c))
         /\ Cardinality(Done(u, c)') \in Nat /\ Cardinality(Done(u, c)) \in Nat
         /\ Cardinality(Done(u, c)') <= Cardinality(Done(u, c))
<1>1. /\ now \in Nat /\ now' \in Nat /\ now' >= now
      /\ conversion' = conversion /\ appEvent' = appEvent
  BY Rows DEF Ages, TypeOK
<1>2. /\ IsFiniteSet(DOMAIN conversion) /\ IsFiniteSet(DOMAIN appEvent)
      /\ \A i \in DOMAIN conversion : conversion[i].at \in Nat /\ conversion[i].at <= now
      /\ \A i \in DOMAIN appEvent : appEvent[i].at \in Nat /\ appEvent[i].at <= now
  BY Rows
<1>3. Bought(u)' = Bought(u) /\ Seen' = Seen /\ ValueOf' = ValueOf
  BY <1>1 DEF Bought, Seen, ValueOf
<1>4. \A i \in Bought(u) : Age(i) \in Nat /\ Age(i)' \in Nat /\ Age(i) <= Age(i)'
  BY <1>1, <1>2 DEF Bought, Age
<1>5. Within(u, c)' \subseteq Within(u, c) /\ Within(u, c) \subseteq DOMAIN conversion
  BY <1>3, <1>4 DEF Within, Bought
<1>6. Done(u, c)' \subseteq Done(u, c) /\ Done(u, c) \subseteq DOMAIN appEvent
  BY <1>1, <1>2 DEF Done
<1>7. \A D, S, T : IsFiniteSet(D) /\ S \subseteq D /\ T \subseteq S =>
         Cardinality(S) \in Nat /\ Cardinality(T) \in Nat /\ Cardinality(T) <= Cardinality(S)
  BY FS_Subset, FS_CardinalityType
<1> QED BY <1>2, <1>3, <1>4, <1>5, <1>6, <1>7

\* Who spends less in fewer orders.
LEMMA LessWorth ==
  ASSUME TypeOK, TypeOK', Ages, NEW u, NEW c, c.window_days \in Nat
  PROVE  /\ Worth(Within(u, c)) \in Nat /\ Worth(Within(u, c))' \in Nat
         /\ Worth(Within(u, c))' <= Worth(Within(u, c))
<1>1. /\ Worth(Within(u, c)) = Sum(ValueOf, Within(u, c))
      /\ Worth(Within(u, c))' = Sum(ValueOf', Within(u, c)')
  BY Meant, MeantNext
<1>2. ValueOf' = ValueOf /\ Within(u, c)' \in SUBSET Within(u, c)
  BY Fewer
<1>3. Within(u, c) \subseteq DOMAIN conversion
  BY DEF Within, Bought
<1>4. IsFiniteSet(Within(u, c)) /\ \A i \in Within(u, c) : ValueOf[i] \in Nat
  BY <1>3, Rows, FS_Subset DEF ValueOf
<1>5. IsFiniteSet(Within(u, c)') /\ \A i \in Within(u, c)' : ValueOf[i] \in Nat
  BY <1>2, <1>4, FS_Subset
<1>6. Sum(ValueOf, Within(u, c)') <= Sum(ValueOf, Within(u, c))
  BY <1>2, <1>4, SumMonotone
<1> QED BY <1>1, <1>2, <1>4, <1>5, <1>6, SumType

\* Whoever fits a criterion that time can only end fitted it before.
LEMMA CriterionFades ==
  ASSUME TypeOK, TypeOK', Ages, NEW c \in Criteria, FadingCriterion(c)
  PROVE  CompileCriterion(c)' \subseteq CompileCriterion(c)
<1>1. /\ CompileCriterion(c) = {u \in Seen : Fits(u, c)}
      /\ CompileCriterion(c)' = {u \in Seen' : Fits(u, c)'}
      /\ IsCriterion(c)
  BY Meant, MeantNext, CompilerAssumption
<1>2. \A u : /\ Bought(u)' = Bought(u) /\ Seen' = Seen
             /\ \A i \in Bought(u) : Age(i) \in Nat /\ Age(i)' \in Nat /\ Age(i) <= Age(i)'
  <2> DEFINE d == [window_days |-> 0]
  <2>1. d.window_days \in Nat
    OBVIOUS
  <2> QED BY <2>1, Fewer
<1>3. SUFFICES ASSUME NEW u, Fits(u, c)' PROVE Fits(u, c)
  BY <1>1, <1>2
<1>4. CASE c.kind \in {"order_recency", "first_order_age"} /\ c.op = "lte"
  BY <1>1, <1>2, <1>3, <1>4 DEF Fits, IsCriterion
<1>5. CASE c.kind = "order_frequency" /\ c.op = "gte"
  <2>1. c.window_days \in Nat /\ c.count \in Nat
    BY <1>1, <1>5 DEF IsCriterion
  <2>2. Within(u, c)' # {} /\ Cardinality(Within(u, c)') >= c.count
    BY <1>3, <1>5 DEF Fits
  <2>3. Within(u, c) # {} /\ Cardinality(Within(u, c)) >= c.count
    BY <2>1, <2>2, Fewer
  <2> QED BY <1>5, <2>3 DEF Fits
<1>6. CASE c.kind = "monetary" /\ c.metric = "total" /\ c.op = "gte"
  <2>1. c.window_days \in Nat /\ c.value_inr \in Nat
    BY <1>1, <1>6 DEF IsCriterion
  <2>2. Within(u, c)' # {} /\ Worth(Within(u, c))' >= c.value_inr
    BY <1>3, <1>6 DEF Fits
  <2>3. Within(u, c) # {} /\ Worth(Within(u, c)) >= c.value_inr
    BY <2>1, <2>2, Fewer, LessWorth
  <2> QED BY <1>6, <2>3 DEF Fits
<1>7. CASE c.kind = "event" /\ c.performed
  <2>1. c.window_days \in Nat /\ c.min_count \in Nat
    BY <1>1, <1>7 DEF IsCriterion
  <2>2. Cardinality(Done(u, c)') >= c.min_count
    BY <1>3, <1>7 DEF Fits
  <2>3. Cardinality(Done(u, c)) >= c.min_count
    BY <2>1, <2>2, Fewer
  <2> QED BY <1>7, <2>3 DEF Fits
<1>8. CASE c.kind = "attribute" /\ c.op # "neq"
  <2>1. \E i \in Bought(u)' : conversion'[i].row.city \in c.values
    BY <1>3, <1>8 DEF Fits
  <2>2. \E i \in Bought(u) : conversion[i].row.city \in c.values
    BY <1>2, <2>1 DEF Ages
  <2> QED BY <1>8, <2>2 DEF Fits
<1> QED BY <1>4, <1>5, <1>6, <1>7, <1>8 DEF FadingCriterion

LEMMA CompileEquationNext ==
  (\A g \in Groups : CompileGroup[g] = Composed(CompileGroup, g))'
BY CompileEquation, PTL

LEMMA GroupFades ==
  ASSUME TypeOK, TypeOK', Ages
  PROVE  \A g \in Groups : Fading[g] => CompileGroup[g]' \subseteq CompileGroup[g]
<1> DEFINE S == {g \in Groups : Fading[g] => CompileGroup[g]' \subseteq CompileGroup[g]}
<1>1. ASSUME NEW g \in Groups, \A n \in g.criteria : n \in Groups => n \in S
      PROVE  g \in S
  <2>1. SUFFICES ASSUME Fading[g] PROVE CompileGroup[g]' \subseteq CompileGroup[g]
    OBVIOUS
  <2>2. ASSUME NEW n \in g.criteria
        PROVE  Part(CompileGroup, n)' \subseteq Part(CompileGroup, n)
    <3>1. Fades(Fading, n)
      BY <2>1, FadingEquation DEF AllFade
    <3>2. CASE IsGroup(n)
      BY <1>1, <3>1, <3>2, Nodes DEF Part, Fades
    <3>3. CASE ~IsGroup(n)
      BY <3>1, <3>3, Nodes, CriterionFades DEF Part, Fades
    <3> QED BY <3>2, <3>3
  <2>3. /\ CompileGroup[g] = Composed(CompileGroup, g)
        /\ CompileGroup[g]' = Composed(CompileGroup, g)'
    BY CompileEquation, CompileEquationNext
  <2>4. CASE g.op = "AND"
    <3>1. /\ \A u : u \in CompileGroup[g] <=>
                u \in Users /\ \A n \in g.criteria : u \in Part(CompileGroup, n)
          /\ \A u : u \in CompileGroup[g]' <=>
                u \in Users /\ \A n \in g.criteria : u \in Part(CompileGroup, n)'
      BY <2>3, <2>4 DEF Composed
    <3> QED BY <2>2, <3>1
  <2>5. CASE g.op # "AND"
    <3>1. /\ \A u : u \in CompileGroup[g] <=> \E n \in g.criteria : u \in Part(CompileGroup, n)
          /\ \A u : u \in CompileGroup[g]' <=> \E n \in g.criteria : u \in Part(CompileGroup, n)'
      BY <2>3, <2>5 DEF Composed
    <3> QED BY <2>2, <3>1
  <2> QED BY <2>4, <2>5
<1>2. Groups \subseteq S
  BY <1>1, FromLeaves
<1> QED BY <1>2

\* The membership of a definition without negation or upper bound is too large
\* but never too small while no row arrives.
THEOREM TimeHolds == Spec => TimeOnlyRemoves
<1>1. TypeOK /\ TypeOK' /\ [Next]_vars =>
         [now' > now => \A g \in Groups : Fading[g] => Members(g)' \subseteq Members(g)]_vars
  <2> SUFFICES ASSUME TypeOK, TypeOK', Next, now' > now
               PROVE  \A g \in Groups : Fading[g] => Members(g)' \subseteq Members(g)
    OBVIOUS
  <2>1. now \in Nat
    BY Rows
  <2>2. Ages
    BY <2>1 DEF Next, StoreOrder, StoreEvent, DayPasses, TiesFallOtherwise, Ages
  <2> QED BY <2>2, GroupFades DEF Members
<1> QED BY <1>1, TablesTyped, Typed, PTL DEF Spec, TimeOnlyRemoves

-----------------------------------------------------------------------------
(* Percentile bands.                                                       *)

LEMMA Quotient ==
  ASSUME NEW a \in Nat, NEW b \in Nat \ {0}
  PROVE  /\ a \div b \in Nat /\ a % b \in Nat /\ a % b < b
         /\ a % b = a - b * (a \div b)
<1>1. a \div b \in Nat
  OBVIOUS
<1>2. a % b \in Nat /\ a % b < b
  OBVIOUS
<1>3. a % b = a - b * (a \div b)
  OBVIOUS
<1> QED BY <1>1, <1>2, <1>3

LEMMA QuotientGrows ==
  ASSUME NEW a \in Nat, NEW c \in Nat, NEW b \in Nat \ {0}, a <= c
  PROVE  a \div b <= c \div b
OBVIOUS

LEMMA QuotientBelow ==
  ASSUME NEW a \in Nat, NEW b \in Nat \ {0}, NEW q \in Nat, a < q * b
  PROVE  a \div b < q
OBVIOUS

LEMMA ProductGrows ==
  ASSUME NEW a \in Nat, NEW b \in Nat, NEW c \in Nat, a <= b
  PROVE  a * c <= b * c /\ a * c \in Nat /\ b * c \in Nat
OBVIOUS

\* The buckets of some rows: so many have one row more.
Size(rows) == rows \div Buckets
Over(rows) == rows % Buckets

LEMMA BucketSizes ==
  ASSUME NEW rows \in Nat
  PROVE  /\ Size(rows) \in Nat /\ Over(rows) \in Nat /\ Over(rows) < Buckets
         /\ rows = Buckets * Size(rows) + Over(rows)
         /\ Over(rows) * (Size(rows) + 1) = Over(rows) * Size(rows) + Over(rows)
         /\ Over(rows) * (Size(rows) + 1) \in Nat
         /\ Size(rows) = 0 => rows = Over(rows) * (Size(rows) + 1)
<1>1. Buckets \in Nat \ {0}
  BY CompilerAssumption
<1>2. /\ Size(rows) \in Nat /\ Over(rows) \in Nat /\ Over(rows) < Buckets
      /\ Over(rows) = rows - Buckets * Size(rows)
  BY <1>1, Quotient DEF Size, Over
<1>3. Buckets * Size(rows) \in Nat
  BY <1>1, <1>2
<1>4. rows = Buckets * Size(rows) + Over(rows)
  BY <1>2, <1>3
<1>5. /\ Over(rows) * (Size(rows) + 1) = Over(rows) * Size(rows) + Over(rows)
      /\ Over(rows) * Size(rows) \in Nat
  BY <1>2
<1>6. Size(rows) = 0 => rows = Over(rows) * (Size(rows) + 1)
  BY <1>1, <1>2, <1>4
<1> QED BY <1>2, <1>4, <1>5, <1>6

\* The bucket of a row, early or late.
LEMMA EarlyBucket ==
  ASSUME NEW rows \in Nat, NEW r \in 1..rows, r <= Over(rows) * (Size(rows) + 1)
  PROVE  /\ Ntile(r, rows) = 1 + (r - 1) \div (Size(rows) + 1)
         /\ (r - 1) \div (Size(rows) + 1) \in Nat
         /\ (r - 1) \div (Size(rows) + 1) < Over(rows)
<1>1. /\ Size(rows) + 1 \in Nat \ {0} /\ Over(rows) \in Nat
      /\ Over(rows) * (Size(rows) + 1) \in Nat
  BY BucketSizes
<1>2. r - 1 \in Nat /\ r - 1 < Over(rows) * (Size(rows) + 1)
  BY <1>1
<1>3. (r - 1) \div (Size(rows) + 1) < Over(rows)
  BY <1>1, <1>2, QuotientBelow
<1>4. (r - 1) \div (Size(rows) + 1) \in Nat
  BY <1>1, <1>2, Quotient
<1>5. Ntile(r, rows) = 1 + (r - 1) \div (Size(rows) + 1)
  BY DEF Ntile, Size, Over
<1> QED BY <1>3, <1>4, <1>5

LEMMA LateBucket ==
  ASSUME NEW rows \in Nat, NEW r \in 1..rows, ~(r <= Over(rows) * (Size(rows) + 1))
  PROVE  LET late == r - Over(rows) * (Size(rows) + 1) - 1
         IN  /\ Size(rows) \in Nat \ {0} /\ late \in Nat
             /\ Ntile(r, rows) = 1 + Over(rows) + late \div Size(rows)
             /\ late \div Size(rows) \in Nat
<1> DEFINE edge == Over(rows) * (Size(rows) + 1)
           late == r - edge - 1
<1>1. edge \in Nat /\ Size(rows) \in Nat /\ (Size(rows) = 0 => rows = edge)
  BY BucketSizes
<1>2. Ntile(r, rows) = 1 + Over(rows) + late \div Size(rows)
  BY DEF Ntile, Size, Over
<1>3. ~(r <= edge)
  OBVIOUS
<1> HIDE DEF edge
<1>4. Size(rows) \in Nat \ {0} /\ late \in Nat
  BY <1>1, <1>3
<1>5. late \div Size(rows) \in Nat
  BY <1>4, Quotient
<1> QED BY <1>2, <1>4, <1>5 DEF edge

LEMMA BucketsInOrder ==
  ASSUME NEW rows \in Nat, NEW r \in 1..rows, NEW s \in 1..rows, r <= s
  PROVE  Ntile(r, rows) \in Nat /\ Ntile(s, rows) \in Nat /\ Ntile(r, rows) <= Ntile(s, rows)
<1> DEFINE edge == Over(rows) * (Size(rows) + 1)
<1>1. edge \in Nat /\ Size(rows) \in Nat /\ Over(rows) \in Nat
  BY BucketSizes
<1>2. CASE s <= edge
  <2>1. r <= edge
    BY <1>1, <1>2
  <2>2. /\ Ntile(r, rows) = 1 + (r - 1) \div (Size(rows) + 1)
        /\ Ntile(s, rows) = 1 + (s - 1) \div (Size(rows) + 1)
        /\ (r - 1) \div (Size(rows) + 1) \in Nat /\ (s - 1) \div (Size(rows) + 1) \in Nat
    BY <1>2, <2>1, EarlyBucket
  <2>3. Size(rows) + 1 \in Nat \ {0} /\ r - 1 \in Nat /\ s - 1 \in Nat /\ r - 1 <= s - 1
    BY <1>1
  <2>4. (r - 1) \div (Size(rows) + 1) <= (s - 1) \div (Size(rows) + 1)
    BY <2>3, QuotientGrows
  <2> QED BY <2>2, <2>4
<1>3. CASE ~(s <= edge) /\ r <= edge
  <2>1. /\ Ntile(r, rows) = 1 + (r - 1) \div (Size(rows) + 1)
        /\ (r - 1) \div (Size(rows) + 1) \in Nat
        /\ (r - 1) \div (Size(rows) + 1) < Over(rows)
    BY <1>3, EarlyBucket
  <2>2. \E q \in Nat : Ntile(s, rows) = 1 + Over(rows) + q
    BY <1>3, LateBucket
  <2> QED BY <1>1, <2>1, <2>2
<1>4. CASE ~(r <= edge)
  <2>1. ~(s <= edge)
    BY <1>1, <1>4
  <2> DEFINE early == r - edge - 1
             late == s - edge - 1
  <2>2. /\ Size(rows) \in Nat \ {0} /\ early \in Nat /\ late \in Nat
        /\ Ntile(r, rows) = 1 + Over(rows) + early \div Size(rows)
        /\ Ntile(s, rows) = 1 + Over(rows) + late \div Size(rows)
        /\ early \div Size(rows) \in Nat /\ late \div Size(rows) \in Nat
    BY <1>4, <2>1, LateBucket
  <2>3. early <= late
    BY <1>1
  <2> HIDE DEF early, late
  <2>4. early \div Size(rows) <= late \div Size(rows)
    BY <2>2, <2>3, QuotientGrows
  <2> QED BY <1>1, <2>2, <2>4
<1> QED BY <1>2, <1>3, <1>4

\* The rows of the first p buckets.
First(p, rows) == p * Size(rows) + (IF p <= Over(rows) THEN p ELSE Over(rows))

LEMMA FirstBuckets ==
  ASSUME NEW rows \in Nat, NEW p \in 1..(Buckets - 1)
  PROVE  /\ First(p, rows) \in 0..rows
         /\ (rows - First(p, rows)) * Buckets <= rows * (Buckets - p)
         /\ \A r \in 1..rows : r <= First(p, rows) => Ntile(r, rows) <= p
<1> DEFINE size == Size(rows)
           over == Over(rows)
           edge == over * (size + 1)
<1>1. /\ size \in Nat /\ over \in Nat /\ over < Buckets /\ rows = Buckets * size + over
      /\ edge = over * size + over /\ edge \in Nat
      /\ Buckets \in Nat /\ p \in Nat /\ 1 <= p /\ p < Buckets
  BY BucketSizes, CompilerAssumption
<1>2. First(p, rows) = p * size + (IF p <= over THEN p ELSE over)
  BY DEF First
<1>3. p * size <= Buckets * size /\ p * size \in Nat /\ Buckets * size \in Nat
  BY <1>1, ProductGrows
<1> HIDE DEF size, over
<1>4. First(p, rows) \in 0..rows
  BY <1>1, <1>2, <1>3
<1>5. rows * p <= First(p, rows) * Buckets
  <2>1. rows * p = (p * size) * Buckets + over * p
    BY <1>1
  <2>2. CASE p <= over
    <3>1. over * p <= p * Buckets
      BY <1>1
    <3>2. First(p, rows) * Buckets = (p * size) * Buckets + p * Buckets
      BY <1>1, <1>2, <1>3, <2>2
    <3> QED BY <1>1, <1>3, <2>1, <3>1, <3>2
  <2>3. CASE ~(p <= over)
    <3>1. over * p <= over * Buckets
      BY <1>1
    <3>2. First(p, rows) * Buckets = (p * size) * Buckets + over * Buckets
      BY <1>1, <1>2, <1>3, <2>3
    <3> QED BY <1>1, <1>3, <2>1, <3>1, <3>2
  <2> QED BY <2>2, <2>3
<1>6. (rows - First(p, rows)) * Buckets <= rows * (Buckets - p)
  <2>1. (rows - First(p, rows)) * Buckets = rows * Buckets - First(p, rows) * Buckets
    BY <1>1, <1>4
  <2>2. rows * (Buckets - p) = rows * Buckets - rows * p
    BY <1>1
  <2> QED BY <1>1, <1>4, <1>5, <2>1, <2>2
<1>7. ASSUME NEW r \in 1..rows, r <= First(p, rows) PROVE Ntile(r, rows) <= p
  <2>1. CASE r <= edge
    <3> DEFINE q == (r - 1) \div (size + 1)
    <3>1. Ntile(r, rows) = 1 + q /\ q \in Nat /\ q < over
      BY <2>1, EarlyBucket DEF size, over
    <3>2. CASE p <= over
      <4>1. First(p, rows) = p * (size + 1)
        BY <1>1, <1>2, <3>2
      <4>2. r - 1 \in Nat /\ r - 1 < p * (size + 1) /\ size + 1 \in Nat \ {0}
        BY <1>1, <1>7, <4>1
      <4>3. q < p
        BY <1>1, <4>2, QuotientBelow
      <4> QED BY <1>1, <3>1, <4>3
    <3>3. CASE ~(p <= over)
      <4> HIDE DEF q
      <4> QED BY <1>1, <3>1, <3>3
    <3> QED BY <3>2, <3>3
  <2>2. CASE ~(r <= edge)
    <3> DEFINE late == r - edge - 1
    <3>1. /\ size \in Nat \ {0} /\ late \in Nat /\ late \div size \in Nat
          /\ Ntile(r, rows) = 1 + over + late \div size
      BY <2>2, LateBucket DEF size, over
    <3>2. ~(p <= over)
      <4>1. SUFFICES ASSUME p <= over PROVE FALSE
        OBVIOUS
      <4>2. First(p, rows) = p * (size + 1)
        BY <1>1, <1>2, <4>1
      <4>3. p * (size + 1) <= over * (size + 1)
        BY <1>1, <4>1, ProductGrows
      <4> QED BY <1>1, <1>4, <1>7, <2>2, <4>2, <4>3
    <3>3. First(p, rows) = (p - over) * size + edge
      BY <1>1, <1>2, <3>2
    <3>4. p - over \in Nat /\ late < (p - over) * size
      <4>1. p - over \in Nat /\ (p - over) * size \in Nat
        BY <1>1, <3>2
      <4> QED BY <1>1, <1>7, <3>3, <4>1
    <3> HIDE DEF late
    <3>5. late \div size < p - over
      BY <3>1, <3>4, QuotientBelow
    <3> QED BY <1>1, <3>1, <3>4, <3>5
  <2> QED BY <2>1, <2>2
<1> QED BY <1>4, <1>6, <1>7

\* Who is met no later than u.
UpTo(u) == {v \in Buyers(0) : \/ Spend(v, 0) < Spend(u, 0)
                              \/ Spend(v, 0) = Spend(u, 0) /\ ties[v] <= ties[u]}

LEMMA BuyersFinite ==
  ASSUME TypeOK
  PROVE  /\ IsFiniteSet(Buyers(0)) /\ Cardinality(Buyers(0)) \in Nat
         /\ \A u : IsFiniteSet(UpTo(u)) /\ Cardinality(UpTo(u)) \in Nat
<1> DEFINE who == [i \in DOMAIN conversion |-> conversion[i].row.user]
<1>1. IsFiniteSet({who[i] : i \in DOMAIN conversion})
  BY Rows, ImageFinite
<1>2. Buyers(0) \subseteq {who[i] : i \in DOMAIN conversion}
  BY DEF Buyers, OrdersOf
<1>3. IsFiniteSet(Buyers(0))
  BY <1>1, <1>2, FS_Subset
<1>4. \A u : UpTo(u) \in SUBSET Buyers(0)
  BY DEF UpTo
<1> QED BY <1>3, <1>4, FS_Subset, FS_CardinalityType

\* Ranks are different, and follow the spend.
LEMMA RanksInOrder ==
  ASSUME TypeOK, NEW u \in Buyers(0), NEW v \in Buyers(0),
         \/ Spend(u, 0) < Spend(v, 0)
         \/ Spend(u, 0) = Spend(v, 0) /\ ties[u] < ties[v]
  PROVE  Rank(u) < Rank(v)
<1>1. \A x \in Buyers(0) : Spend(x, 0) \in Nat /\ ties[x] \in Nat
  BY SpendType, BuyersSeen, CompilerAssumption DEF TypeOK
<1>2. UpTo(u) \subseteq UpTo(v)
  BY <1>1 DEF UpTo
<1>3. v \in UpTo(v) /\ v \notin UpTo(u)
  BY <1>1 DEF UpTo
<1>4. UpTo(u) \in SUBSET UpTo(v) /\ UpTo(u) # UpTo(v)
  BY <1>2, <1>3
<1>5. Cardinality(UpTo(u)) <= Cardinality(UpTo(v)) /\ Cardinality(UpTo(u)) # Cardinality(UpTo(v))
  BY <1>4, BuyersFinite, FS_Subset
<1>6. Cardinality(UpTo(u)) < Cardinality(UpTo(v))
  BY <1>5, BuyersFinite
<1> QED BY <1>6 DEF Rank, UpTo

LEMMA RankType ==
  ASSUME TypeOK, NEW u \in Buyers(0)
  PROVE  Rank(u) \in 1..Cardinality(Buyers(0))
<1>1. u \in UpTo(u) /\ UpTo(u) \in SUBSET Buyers(0)
  <2>1. Spend(u, 0) \in Nat /\ ties[u] \in Nat
    BY SpendType, BuyersSeen, CompilerAssumption DEF TypeOK
  <2> QED BY <2>1 DEF UpTo
<1>2. Cardinality(UpTo(u)) <= Cardinality(Buyers(0))
  BY <1>1, BuyersFinite, FS_Subset
<1>3. Cardinality(UpTo(u)) # 0
  BY <1>1, BuyersFinite, FS_EmptySet
<1> QED BY <1>2, <1>3, BuyersFinite DEF Rank, UpTo

LEMMA RanksDiffer ==
  ASSUME TypeOK, NEW u \in Buyers(0), NEW v \in Buyers(0), Rank(u) = Rank(v)
  PROVE  u = v
<1>1. \A x \in Buyers(0) : Spend(x, 0) \in Nat /\ ties[x] \in Nat /\ Rank(x) \in Nat
  BY SpendType, RankType, BuyersSeen, BuyersFinite, CompilerAssumption DEF TypeOK
<1>2. ~(Rank(u) < Rank(v)) /\ ~(Rank(v) < Rank(u))
  BY <1>1
<1>3. ~(Spend(u, 0) < Spend(v, 0)) /\ ~(Spend(v, 0) < Spend(u, 0))
  BY <1>2, RanksInOrder
<1>4. Spend(u, 0) = Spend(v, 0)
  BY <1>1, <1>3
<1>5. ~(ties[u] < ties[v]) /\ ~(ties[v] < ties[u])
  BY <1>2, <1>4, RanksInOrder
<1>6. ties[u] = ties[v]
  BY <1>1, <1>5
<1> QED BY <1>6, BuyersSeen, CompilerAssumption DEF TypeOK

LEMMA BandSplits ==
  ASSUME TypeOK, NEW c \in Criteria, c.kind = "ltv_percentile"
  PROVE  /\ \A u \in LtvPercentile(c), v \in Buyers(0) \ LtvPercentile(c) :
               Spend(v, 0) <= Spend(u, 0)
         /\ Cardinality(LtvPercentile(c)) * Buckets <=
               Cardinality(Buyers(0)) * (Buckets - c.percentile)
<1> DEFINE rows == Cardinality(Buyers(0))
           p == c.percentile
           band == LtvPercentile(c)
<1>1. rows \in Nat /\ p \in 1..(Buckets - 1) /\ Buckets \in Nat \ {0}
  BY BuyersFinite, CompilerAssumption DEF IsCriterion
<1>2. band = {u \in Buyers(0) : Ntile(Rank(u), rows) > p}
  BY DEF LtvPercentile
<1>3. \A u \in Buyers(0) : Rank(u) \in 1..rows
  BY RankType
<1> HIDE DEF rows, p, band
<1>4. ASSUME NEW u \in band, NEW v \in Buyers(0) \ band
      PROVE  Spend(v, 0) <= Spend(u, 0)
  <2>1. SUFFICES ASSUME ~(Spend(v, 0) <= Spend(u, 0)) PROVE FALSE
    OBVIOUS
  <2>2. u \in Buyers(0) /\ Ntile(Rank(u), rows) > p /\ ~(Ntile(Rank(v), rows) > p)
    BY <1>2
  <2>3. Spend(u, 0) < Spend(v, 0)
    BY <2>1, SpendType
  <2>4. Rank(u) < Rank(v)
    BY <2>2, <2>3, RanksInOrder
  <2>5. Rank(u) \in 1..rows /\ Rank(v) \in 1..rows /\ Rank(u) <= Rank(v)
    BY <1>1, <1>3, <2>2, <2>4
  <2>6. /\ Ntile(Rank(u), rows) <= Ntile(Rank(v), rows)
        /\ Ntile(Rank(u), rows) \in Nat /\ Ntile(Rank(v), rows) \in Nat
    BY <1>1, <2>5, BucketsInOrder
  <2> QED BY <1>1, <2>2, <2>6
<1>5. Cardinality(band) * Buckets <= rows * (Buckets - p)
  <2> DEFINE n == First(p, rows)
             f == [u \in band |-> Rank(u)]
  <2>1. /\ n \in 0..rows /\ (rows - n) * Buckets <= rows * (Buckets - p)
        /\ \A r \in 1..rows : r <= n => Ntile(r, rows) <= p
    BY <1>1, FirstBuckets
  <2> HIDE DEF n
  <2>2. ASSUME NEW u \in band PROVE Rank(u) \in (n + 1)..rows
    <3>1. u \in Buyers(0) /\ Rank(u) \in 1..rows /\ Ntile(Rank(u), rows) > p
      BY <1>2, <1>3
    <3>2. Ntile(Rank(u), rows) \in Nat
      BY <1>1, <3>1, BucketsInOrder
    <3>3. ~(Rank(u) <= n)
      BY <1>1, <2>1, <3>1, <3>2
    <3> QED BY <1>1, <2>1, <3>1, <3>3
  <2>3. \A u, v \in band : f[u] = f[v] => u = v
    BY <1>2, RanksDiffer
  <2>4. f \in Injection(band, (n + 1)..rows)
    <3> DEFINE late == (n + 1)..rows
    <3>1. f \in [band -> late] /\ DOMAIN f = band
      BY <2>2
    <3> HIDE DEF f, late
    <3>2. f \in Injection(band, late)
      BY <2>3, <3>1 DEF Injection, IsInjective
    <3> QED BY <3>2 DEF late
  <2>5. IsFiniteSet((n + 1)..rows) /\ Cardinality((n + 1)..rows) = rows - n
    <3>1. n + 1 \in Int /\ rows \in Int /\ n \in Nat /\ n <= rows
      BY <1>1, <2>1
    <3>2. /\ IsFiniteSet((n + 1)..rows)
          /\ Cardinality((n + 1)..rows) = IF n + 1 > rows THEN 0 ELSE rows - (n + 1) + 1
      BY <3>1, FS_Interval
    <3> QED BY <3>1, <3>2
  <2>6. IsFiniteSet(band) /\ Cardinality(band) <= rows - n
    BY <2>4, <2>5, FS_Injection
  <2>7. Cardinality(band) \in Nat
    BY <2>6, FS_CardinalityType
  <2>8. Cardinality(band) * Buckets <= (rows - n) * Buckets
    BY <1>1, <2>1, <2>6, <2>7, ProductGrows
  <2>9. /\ Cardinality(band) * Buckets \in Int /\ (rows - n) * Buckets \in Int
        /\ rows * (Buckets - p) \in Int
    BY <1>1, <2>1, <2>7
  <2> QED BY <2>1, <2>8, <2>9
<1> QED BY <1>4, <1>5 DEF rows, p, band

\* Whoever spends more than a member of a percentile band is in it, in whatever
\* order equal spenders are met, and the band is no larger than its share.
THEOREM BandHolds == Spec => []BandIsTopSpenders
<1>1. TypeOK => BandIsTopSpenders
  BY BandSplits DEF BandIsTopSpenders
<1> QED BY <1>1, TablesTyped, PTL
=============================================================================
