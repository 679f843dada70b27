-------------------------- MODULE ScheduledJobProofs --------------------------
(***************************************************************************)
(* Proofs about the jobs that run on a schedule and write what a report or *)
(* a person acts on: the evaluation of alerts, the weekly GEO run and the  *)
(* ad ingest, for every number of executions, days, lanes and failures;    *)
(* and, at the end, of these beside what is delivered from outside.        *)
(***************************************************************************)
EXTENDS MCSideBySide, DeliveryProofs

(* AlertWatch: what a failure or a lost lock can cost.                     *)

\* The executions in progress, and those past the check of a proposal.
Active == {w \in Evaluators : evaluator[w].pc # "idle"}
Pending(p) == {w \in Evaluators : evaluator[w].pc = "insert" /\ p \in evaluator[w].chosen}

\* The alerts of a proposal on a day.
FiredOn(p, day) == {a \in alerts : a.proposal = p /\ a.day = day}

\* The shape of an execution, a choice of one proposal once it has chosen.
Shape(e) ==
    /\ e = [pc |-> e.pc, day |-> e.day, rows |-> e.rows, todo |-> e.todo,
            chosen |-> e.chosen, alert |-> e.alert, left |-> e.left]
    /\ e.pc = "insert" => \E p : e.chosen = {p}

\* Only the owner of the lock and the executions that lost it are in progress;
\* a proposal whose alert was not there when it was checked is inserted by one
\* of them.  So its alerts of today, with those still to be inserted, are no
\* more than the executions: no run chooses a proposal that has fired.
FireInv ==
    /\ DOMAIN evaluator = Evaluators /\ \A w \in Evaluators : Shape(evaluator[w])
    /\ owner \in Evaluators \cup {Nil} /\ lostLocks \in Nat /\ today \in Nat
    /\ IsFiniteSet(alerts)
    /\ \A a \in alerts : a.day \in Nat /\ a.day <= today
    /\ Cardinality(Active \ {owner}) <= lostLocks
    /\ \A p : Cardinality(FiredOn(p, today)) + Cardinality(Pending(p)) <= 1 + lostLocks
    /\ \A p, day : Cardinality(FiredOn(p, day)) <= 1 + lostLocks

-----------------------------------------------------------------------------
(* Counting.                                                               *)

LEMMA Finite ==
  /\ IsFiniteSet(Active) /\ Cardinality(Active) \in Nat
  /\ \A x : IsFiniteSet(Active \ {x}) /\ Cardinality(Active \ {x}) \in Nat
  /\ \A p : IsFiniteSet(Pending(p)) /\ Cardinality(Pending(p)) \in Nat
<1>1. \A S \in SUBSET Evaluators : IsFiniteSet(S) /\ Cardinality(S) \in Nat
  BY AlertAssumption, FS_Subset, FS_CardinalityType
<1> QED BY <1>1 DEF Active, Pending

LEMMA FiredFinite ==
  ASSUME IsFiniteSet(alerts)
  PROVE  \A p, day : IsFiniteSet(FiredOn(p, day)) /\ Cardinality(FiredOn(p, day)) \in Nat
BY FS_Subset, FS_CardinalityType DEF FiredOn

\* There is at most one execution more than those that lost their lock.
LEMMA ActiveBound ==
  ASSUME FireInv
  PROVE  Cardinality(Active) <= 1 + lostLocks
<1>1. Cardinality(Active \ {owner}) = IF owner \in Active THEN Cardinality(Active) - 1
                                      ELSE Cardinality(Active)
  BY Finite, FS_RemoveElement
<1> QED BY <1>1, Finite DEF FireInv

\* A smaller set of executions.
LEMMA Fewer ==
  ASSUME NEW S \in SUBSET Evaluators, NEW T \in SUBSET S
  PROVE  /\ Cardinality(T) \in Nat /\ Cardinality(S) \in Nat /\ Cardinality(T) <= Cardinality(S)
BY AlertAssumption, FS_Subset, FS_CardinalityType

\* No alert is inserted, no run gets past a check, no lock is taken or lost.
LEMMA Quiet ==
  ASSUME FireInv, DOMAIN evaluator' = Evaluators, \A w \in Evaluators : Shape(evaluator'[w]),
         \A w \in Evaluators : /\ evaluator'[w].pc # "idle" => evaluator[w].pc # "idle"
                               /\ evaluator'[w].pc = "insert" =>
                                     /\ evaluator[w].pc = "insert"
                                     /\ evaluator'[w].chosen = evaluator[w].chosen,
         UNCHANGED <<today, alerts, lostLocks>>,
         \/ owner' = owner
         \/ owner' = Nil /\ (owner \in Evaluators => evaluator'[owner].pc = "idle")
  PROVE  FireInv'
<1>1. (Active \ {owner})' \subseteq Active \ {owner}
  BY AlertAssumption DEF FireInv, Active
<1>2. Cardinality((Active \ {owner})') <= lostLocks
  <2>1. /\ Cardinality((Active \ {owner})') \in Nat /\ Cardinality(Active \ {owner}) \in Nat
        /\ Cardinality((Active \ {owner})') <= Cardinality(Active \ {owner})
    BY <1>1, Fewer DEF Active
  <2> QED BY <2>1 DEF FireInv
<1>3. ASSUME NEW p PROVE Cardinality(FiredOn(p, today)) + Cardinality(Pending(p)') <= 1 + lostLocks
  <2>1. Pending(p)' \subseteq Pending(p)
    BY DEF Pending
  <2>2. /\ Cardinality(Pending(p)') \in Nat /\ Cardinality(Pending(p)) \in Nat
        /\ Cardinality(Pending(p)') <= Cardinality(Pending(p))
    BY <2>1, Fewer DEF Pending
  <2> QED BY <2>2, FiredFinite DEF FireInv
<1>4. \A p, day : FiredOn(p, day)' = FiredOn(p, day)
  BY DEF FiredOn
<1> QED BY <1>2, <1>3, <1>4 DEF FireInv

-----------------------------------------------------------------------------
(* The steps.                                                              *)

Execution(pc, day, costs, todo, chosen, alert, left) ==
    [pc |-> pc, day |-> day, rows |-> costs, todo |-> todo, chosen |-> chosen,
     alert |-> alert, left |-> left]

LEMMA ExecutionShape ==
  ASSUME NEW p, NEW d, NEW r, NEW t, NEW c, NEW a, NEW l
  PROVE  LET e == Execution(p, d, r, t, c, a, l)
         IN  e.pc = p /\ e.chosen = c /\ (p # "insert" => Shape(e))
BY DEF Shape, Execution

\* An execution gets a new record.
LEMMA Moves ==
  ASSUME FireInv, NEW w \in Evaluators, NEW next, Step(w, next)
  PROVE  /\ DOMAIN evaluator' = Evaluators
         /\ evaluator'[w] = next
         /\ \A v \in Evaluators \ {w} : evaluator'[v] = evaluator[v] /\ Shape(evaluator'[v])
         /\ Shape(evaluator[w])
BY DEF FireInv, Step

\* It is one that does not insert next, nor starts.
LEMMA QuietMove ==
  ASSUME FireInv, NEW w \in Evaluators,
         DOMAIN evaluator' = Evaluators,
         \A v \in Evaluators \ {w} : evaluator'[v] = evaluator[v] /\ Shape(evaluator'[v]),
         Shape(evaluator'[w]),
         evaluator[w].pc # "idle", evaluator'[w].pc # "insert",
         UNCHANGED <<today, alerts, lostLocks>>,
         \/ owner' = owner
         \/ owner' = Nil /\ owner = w /\ evaluator'[w].pc = "idle"
  PROVE  FireInv'
BY Quiet

LEMMA AsleepShape == Shape(Asleep) /\ Asleep.pc = "idle"
  BY DEF Asleep, Shape

LEMMA ReadCostsInv ==
  ASSUME FireInv, NEW w \in Evaluators, ReadCosts(w) PROVE FireInv'
<1> DEFINE e == evaluator[w]
<1>1. /\ DOMAIN evaluator' = Evaluators /\ Shape(e)
      /\ evaluator'[w] = [e EXCEPT !.pc = "count", !.rows = CostRows(e.day)]
      /\ \A v \in Evaluators \ {w} : evaluator'[v] = evaluator[v] /\ Shape(evaluator'[v])
  BY Moves DEF ReadCosts
<1>2. evaluator'[w] = Execution("count", e.day, CostRows(e.day), e.todo, e.chosen, e.alert, e.left)
  BY <1>1 DEF Shape, Execution
<1>3. Shape(evaluator'[w]) /\ evaluator'[w].pc # "insert"
  BY <1>2, ExecutionShape
<1> QED BY <1>1, <1>3, QuietMove DEF ReadCosts

LEMMA AlertCountInv ==
  ASSUME FireInv, NEW w \in Evaluators, CountFirstOrders(w) PROVE FireInv'
<1> DEFINE e == evaluator[w]
           rules == EvaluateRules(e.rows, OrdersOf(Sources, {e.day}),
                                  TrailingOrders + OrdersOf(Sources, 0..(e.day - 1)))
<1>1. /\ DOMAIN evaluator' = Evaluators /\ Shape(e)
      /\ evaluator'[w] = [e EXCEPT !.pc = "check", !.rows = {}, !.todo = rules]
      /\ \A v \in Evaluators \ {w} : evaluator'[v] = evaluator[v] /\ Shape(evaluator'[v])
  BY Moves DEF CountFirstOrders
<1>2. evaluator'[w] = Execution("check", e.day, {}, rules, e.chosen, e.alert, e.left)
  BY <1>1 DEF Shape, Execution
<1>3. Shape(evaluator'[w]) /\ evaluator'[w].pc # "insert"
  BY <1>2, ExecutionShape
<1> QED BY <1>1, <1>3, QuietMove DEF CountFirstOrders

LEMMA ProposeInv ==
  ASSUME FireInv, NEW w \in Evaluators, Propose(w) PROVE FireInv'
<1> DEFINE e == evaluator[w]
<1>1. /\ DOMAIN evaluator' = Evaluators /\ Shape(e)
      /\ evaluator'[w] = [e EXCEPT !.pc = "check", !.alert = 0]
      /\ \A v \in Evaluators \ {w} : evaluator'[v] = evaluator[v] /\ Shape(evaluator'[v])
  BY Moves DEF Propose
<1>2. evaluator'[w] = Execution("check", e.day, e.rows, e.todo, e.chosen, 0, e.left)
  BY <1>1 DEF Shape, Execution
<1>3. Shape(evaluator'[w]) /\ evaluator'[w].pc # "insert"
  BY <1>2, ExecutionShape
<1> QED BY <1>1, <1>3, QuietMove DEF Propose

LEMMA NotifyInv ==
  ASSUME FireInv, NEW w \in Evaluators, Notify(w) PROVE FireInv'
<1> DEFINE e == evaluator[w]
<1>1. PICK r : Step(w, [e EXCEPT !.left = e.left \ {r}])
  BY DEF Notify
<1>2. /\ DOMAIN evaluator' = Evaluators /\ Shape(e)
      /\ evaluator'[w] = [e EXCEPT !.left = e.left \ {r}]
      /\ \A v \in Evaluators \ {w} : evaluator'[v] = evaluator[v] /\ Shape(evaluator'[v])
  BY <1>1, Moves
<1>3. evaluator'[w] = Execution(e.pc, e.day, e.rows, e.todo, e.chosen, e.alert, e.left \ {r})
  BY <1>2 DEF Shape, Execution
<1>4. Shape(evaluator'[w]) /\ evaluator'[w].pc # "insert"
  BY <1>3, ExecutionShape DEF Notify
<1> QED BY <1>2, <1>4, QuietMove DEF Notify

LEMMA EvaluationEndInv ==
  ASSUME FireInv, NEW w \in Evaluators, FinishEvaluation(w) \/ EvaluationFails(w)
  PROVE  FireInv'
<1>1. evaluator[w].pc # "idle" /\ Step(w, Asleep) /\ Release(w) /\ UNCHANGED <<today, alerts, lostLocks>>
  BY DEF FinishEvaluation, EvaluationFails
<1> QED BY <1>1, AsleepShape, Moves, QuietMove DEF Release

LEMMA DiesInv ==
  ASSUME FireInv, ProcessDies PROVE FireInv'
<1>1. /\ DOMAIN evaluator' = Evaluators /\ \A w \in Evaluators : evaluator'[w] = Asleep
      /\ owner' = Nil /\ UNCHANGED <<today, alerts, lostLocks>>
  BY DEF ProcessDies
<1> QED BY <1>1, AsleepShape, Quiet

\* One execution moves: the others are in progress as they were.
LEMMA OthersActive ==
  ASSUME NEW w \in Evaluators, \A v \in Evaluators \ {w} : evaluator'[v] = evaluator[v]
  PROVE  /\ evaluator'[w].pc # "idle" => Active' = Active \cup {w}
         /\ evaluator'[w].pc # "idle" /\ w \in Active => Active' = Active
         /\ evaluator[w].pc # "insert" /\ evaluator'[w].pc # "insert" =>
               \A p : Pending(p)' = Pending(p)
<1>1. ASSUME evaluator'[w].pc # "idle" PROVE Active' = Active \cup {w}
  BY <1>1 DEF Active
<1>2. ASSUME evaluator[w].pc # "insert", evaluator'[w].pc # "insert", NEW p
      PROVE  Pending(p)' = Pending(p)
  <2>1. \A v \in Evaluators :
           evaluator'[v].pc = "insert" /\ p \in evaluator'[v].chosen <=>
           evaluator[v].pc = "insert" /\ p \in evaluator[v].chosen
    BY <1>2
  <2> QED BY ONLY <2>1 DEF Pending
<1>3. ASSUME evaluator'[w].pc # "idle", w \in Active PROVE Active \cup {w} = Active
  BY <1>3
<1> QED BY <1>1, <1>2, <1>3

\* The execution that starts is the owner: the others are those that lost it.
LEMMA StartInv ==
  ASSUME FireInv, NEW w \in Evaluators, StartEvaluation(w) PROVE FireInv'
<1>1. /\ DOMAIN evaluator' = Evaluators
      /\ evaluator'[w] = [Asleep EXCEPT !.pc = "cost", !.day = today]
      /\ \A v \in Evaluators \ {w} : evaluator'[v] = evaluator[v] /\ Shape(evaluator'[v])
      /\ owner' = w /\ owner = Nil /\ evaluator[w].pc = "idle"
      /\ UNCHANGED <<today, alerts, lostLocks>>
  BY Moves DEF StartEvaluation
<1>2. evaluator'[w].pc = "cost" /\ Shape(evaluator'[w])
  BY <1>1 DEF Asleep, Shape
<1>3. (Active \ {owner})' = Active \ {owner}
  <2>1. w \notin Active /\ Nil \notin Active
    BY <1>1, AlertAssumption DEF Active
  <2>2. Active' = Active \cup {w}
    BY <1>1, <1>2, OthersActive
  <2> QED BY <1>1, <2>1, <2>2
<1>4. \A p : Pending(p)' = Pending(p)
  BY <1>1, <1>2, OthersActive
<1>5. \A p, day : FiredOn(p, day)' = FiredOn(p, day)
  BY <1>1 DEF FiredOn
<1>6. \A v \in Evaluators : Shape(evaluator'[v])
  BY <1>1, <1>2
<1> QED BY <1>1, <1>3, <1>4, <1>5, <1>6 DEF FireInv

\* The execution that loses its lock is one more without it.
LEMMA LoseInv ==
  ASSUME FireInv, LoseLock PROVE FireInv'
<1>1. owner # Nil /\ owner' = Nil /\ lostLocks' = lostLocks + 1 /\ UNCHANGED <<today, alerts, evaluator>>
  BY DEF LoseLock
<1>2. (Active \ {owner})' = Active
  BY <1>1, AlertAssumption DEF Active
<1>3. Cardinality(Active) <= 1 + lostLocks
  BY ActiveBound
<1>4. /\ \A p : Pending(p)' = Pending(p)
      /\ \A p, day : FiredOn(p, day)' = FiredOn(p, day)
  BY <1>1 DEF FiredOn, Pending
<1>5. /\ \A p : Cardinality(Pending(p)) \in Nat
      /\ \A p, day : Cardinality(FiredOn(p, day)) \in Nat
      /\ Cardinality(Active) \in Nat
  BY Finite, FiredFinite DEF FireInv
<1>6. /\ \A p : Cardinality(FiredOn(p, today)) + Cardinality(Pending(p)) <= 1 + (lostLocks + 1)
      /\ \A p, day : Cardinality(FiredOn(p, day)) <= 1 + (lostLocks + 1)
  BY <1>5 DEF FireInv
<1> QED BY <1>1, <1>2, <1>3, <1>4, <1>6 DEF FireInv

\* A new day has no alerts; those still to be inserted are no more than the runs.
LEMMA MidnightInv ==
  ASSUME FireInv, Midnight PROVE FireInv'
<1>1. today' = today + 1 /\ UNCHANGED <<alerts, evaluator, owner, lostLocks>>
  BY DEF Midnight
<1>2. /\ \A p : Pending(p)' = Pending(p)
      /\ \A p, day : FiredOn(p, day)' = FiredOn(p, day)
      /\ (Active \ {owner})' = Active \ {owner}
  BY <1>1 DEF FiredOn, Pending, Active
<1>3. \A p : FiredOn(p, today + 1) = {}
  BY DEF FiredOn, FireInv
<1>4. ASSUME NEW p PROVE Cardinality(FiredOn(p, today + 1)) + Cardinality(Pending(p)) <= 1 + lostLocks
  <2>1. Pending(p) \subseteq Active
    BY DEF Pending, Active
  <2>2. Cardinality(Pending(p)) <= Cardinality(Active)
    BY <2>1, Fewer DEF Active
  <2>3. Cardinality(FiredOn(p, today + 1)) = 0
    BY <1>3, FS_EmptySet
  <2> QED BY <2>2, <2>3, ActiveBound, Finite DEF FireInv
<1> QED BY <1>1, <1>2, <1>4 DEF FireInv

\* A proposal is chosen: no alert of it is there, and every execution that has
\* chosen it, this one with them, is in progress.
LEMMA CheckInv ==
  ASSUME FireInv, NEW w \in Evaluators, CheckFired(w) PROVE FireInv'
<1> DEFINE e == evaluator[w]
<1>1. PICK p \in e.todo :
         Step(w, IF AlreadyFired(p) THEN [e EXCEPT !.todo = e.todo \ {p}]
                 ELSE [e EXCEPT !.pc = "insert", !.chosen = {p}])
  BY DEF CheckFired
<1>2. e.pc = "check" /\ UNCHANGED <<today, alerts, lostLocks, owner>>
  BY DEF CheckFired
<1>3. /\ DOMAIN evaluator' = Evaluators /\ Shape(e)
      /\ evaluator'[w] = IF AlreadyFired(p) THEN [e EXCEPT !.todo = e.todo \ {p}]
                         ELSE [e EXCEPT !.pc = "insert", !.chosen = {p}]
      /\ \A v \in Evaluators \ {w} : evaluator'[v] = evaluator[v] /\ Shape(evaluator'[v])
  BY <1>1, Moves
<1>4. CASE AlreadyFired(p)
  <2>1. evaluator'[w] = Execution(e.pc, e.day, e.rows, e.todo \ {p}, e.chosen, e.alert, e.left)
    BY <1>3, <1>4 DEF Shape, Execution
  <2>2. Shape(evaluator'[w]) /\ evaluator'[w].pc # "insert"
    BY <1>2, <2>1, ExecutionShape
  <2> QED BY <1>2, <1>3, <2>2, QuietMove
<1>5. CASE ~AlreadyFired(p)
  <2>1. evaluator'[w] = Execution("insert", e.day, e.rows, e.todo, {p}, e.alert, e.left)
    BY <1>3, <1>5 DEF Shape, Execution
  <2>2. evaluator'[w].pc = "insert" /\ evaluator'[w].chosen = {p} /\ Shape(evaluator'[w])
    BY <2>1 DEF Execution, Shape
  <2>3. (Active \ {owner})' = Active \ {owner}
    <3>1. w \in Active
      BY <1>2 DEF Active
    <3>2. Active' = Active
      BY <1>3, <2>2, <3>1, OthersActive
    <3> QED BY <1>2, <3>2
  <2>4. \A q : Pending(q)' = IF q = p THEN Pending(q) \cup {w} ELSE Pending(q)
    BY <1>2, <1>3, <2>2 DEF Pending
  <2>5. \A q, day : FiredOn(q, day)' = FiredOn(q, day)
    BY <1>2 DEF FiredOn
  <2>6. Cardinality(FiredOn(p, today)) + Cardinality(Pending(p) \cup {w}) <= 1 + lostLocks
    <3>1. FiredOn(p, today) = {}
      BY <1>5 DEF AlreadyFired, FiredOn
    <3>2. Pending(p) \cup {w} \subseteq Active
      BY <1>2 DEF Pending, Active
    <3>3. /\ Cardinality(Pending(p) \cup {w}) \in Nat
          /\ Cardinality(Pending(p) \cup {w}) <= Cardinality(Active)
      BY <3>2, Fewer DEF Active
    <3>4. Cardinality(FiredOn(p, today)) = 0
      BY <3>1, FS_EmptySet
    <3> QED BY <3>3, <3>4, ActiveBound, Finite DEF FireInv
  <2>7. \A v \in Evaluators : Shape(evaluator'[v])
    BY <1>3, <2>2
  <2>8. \A q : Cardinality(FiredOn(q, today)) + Cardinality(Pending(q)') <= 1 + lostLocks
    BY <2>4, <2>6 DEF FireInv
  <2> QED BY <1>2, <1>3, <2>3, <2>5, <2>7, <2>8 DEF FireInv
<1> QED BY <1>4, <1>5

\* The alert is inserted: one more is there, one execution less is to insert it.
LEMMA InsertInv ==
  ASSUME FireInv, NEW w \in Evaluators, InsertAlert(w) PROVE FireInv'
<1> DEFINE e == evaluator[w]
           id == Cardinality(alerts) + 1
           p == CHOOSE x \in e.chosen : TRUE
           new == AlertOf(p, id)
<1>1. /\ e.pc = "insert" /\ alerts' = alerts \cup {new}
      /\ Step(w, [e EXCEPT !.pc = "notify", !.alert = id, !.left = Recipients,
                           !.chosen = {}, !.todo = e.todo \ {p}])
      /\ UNCHANGED <<today, lostLocks, owner>>
  BY DEF InsertAlert
<1>2. p \in e.chosen
  BY <1>1 DEF FireInv, Shape
<1>3. new.proposal = p /\ new.day = today
  BY DEF AlertOf
<1> HIDE DEF id, p, new
<1>4. /\ DOMAIN evaluator' = Evaluators /\ Shape(e)
      /\ evaluator'[w] = [e EXCEPT !.pc = "notify", !.alert = id, !.left = Recipients,
                                   !.chosen = {}, !.todo = e.todo \ {p}]
      /\ \A v \in Evaluators \ {w} : evaluator'[v] = evaluator[v] /\ Shape(evaluator'[v])
  BY <1>1, Moves
<1>5. evaluator'[w] = Execution("notify", e.day, e.rows, e.todo \ {p}, {}, id, Recipients)
  BY <1>4 DEF Shape, Execution
<1>6. evaluator'[w].pc = "notify" /\ Shape(evaluator'[w])
  BY <1>5, ExecutionShape
<1>7. (Active \ {owner})' = Active \ {owner}
  <2>1. w \in Active
    BY <1>1 DEF Active
  <2>2. Active' = Active
    BY <1>4, <1>6, <2>1, OthersActive
  <2> QED BY <1>1, <2>2
<1>8. w \in Pending(p) /\ \A q : Pending(q)' = Pending(q) \ {w}
  <2>1. evaluator'[w].pc # "insert"
    BY <1>6
  <2>2. \A v \in Evaluators \ {w} : evaluator'[v] = evaluator[v]
    BY <1>4
  <2>3. w \in Pending(p)
    BY <1>1, <1>2 DEF Pending
  <2> QED BY <2>1, <2>2, <2>3 DEF Pending
<1>9. \A q, day : FiredOn(q, day)' = IF q = p /\ day = today THEN FiredOn(q, day) \cup {new}
                                   ELSE FiredOn(q, day)
  BY <1>1, <1>3 DEF FiredOn
<1>10. \A q, day : IsFiniteSet(FiredOn(q, day)) /\ Cardinality(FiredOn(q, day)) \in Nat
  BY FiredFinite DEF FireInv
<1>11. \A q : Cardinality(FiredOn(q, today)) + Cardinality(Pending(q)) <= 1 + lostLocks
  BY DEF FireInv
<1>12. lostLocks \in Nat
  BY DEF FireInv
<1>13. \A q : /\ Cardinality(Pending(q) \ {w}) <= Cardinality(Pending(q))
              /\ Cardinality(Pending(q) \ {w}) \in Nat /\ Cardinality(Pending(q)) \in Nat
  <2> TAKE q
  <2>1. Pending(q) \in SUBSET Evaluators /\ Pending(q) \ {w} \in SUBSET Pending(q)
    BY DEF Pending
  <2> QED BY <2>1, Fewer
<1>14. Cardinality(Pending(p) \ {w}) = Cardinality(Pending(p)) - 1
  BY <1>8, Finite, FS_RemoveElement
<1>15. Cardinality(FiredOn(p, today) \cup {new}) =
          IF new \in FiredOn(p, today) THEN Cardinality(FiredOn(p, today))
          ELSE Cardinality(FiredOn(p, today)) + 1
  BY <1>10, FS_AddElement
<1>16. /\ Cardinality(FiredOn(p, today) \cup {new}) + Cardinality(Pending(p) \ {w}) <= 1 + lostLocks
       /\ Cardinality(FiredOn(p, today) \cup {new}) <= 1 + lostLocks
  <2>1. /\ Cardinality(FiredOn(p, today)) \in Nat
        /\ Cardinality(FiredOn(p, today)) + Cardinality(Pending(p)) <= 1 + lostLocks
        /\ Cardinality(Pending(p)) \in Nat /\ Cardinality(Pending(p) \ {w}) \in Nat
    BY <1>10, <1>11, <1>13
  <2> QED BY <2>1, <1>12, <1>14, <1>15
<1>17. ASSUME NEW q PROVE Cardinality(FiredOn(q, today)') + Cardinality(Pending(q)') <= 1 + lostLocks
  <2>1. CASE q = p
    <3>1. FiredOn(q, today)' = FiredOn(p, today) \cup {new} /\ Pending(q)' = Pending(p) \ {w}
      BY <1>1, <1>8, <1>9, <2>1
    <3> QED BY <3>1, <1>16
  <2>2. CASE q # p
    <3>1. FiredOn(q, today)' = FiredOn(q, today) /\ Pending(q)' = Pending(q) \ {w}
      BY <1>1, <1>8, <1>9, <2>2
    <3>2. /\ Cardinality(FiredOn(q, today)) + Cardinality(Pending(q)) <= 1 + lostLocks
          /\ Cardinality(Pending(q) \ {w}) <= Cardinality(Pending(q))
          /\ Cardinality(Pending(q) \ {w}) \in Nat /\ Cardinality(Pending(q)) \in Nat
          /\ Cardinality(FiredOn(q, today)) \in Nat
      BY <1>10, <1>11, <1>13
    <3> QED BY <3>1, <3>2, <1>12
  <2> QED BY <2>1, <2>2
<1>18. \A q, day : Cardinality(FiredOn(q, day)') <= 1 + lostLocks
  BY <1>9, <1>16 DEF FireInv
<1>19. IsFiniteSet(alerts') /\ \A a \in alerts' : a.day \in Nat /\ a.day <= today
  BY <1>1, <1>3, FS_AddElement DEF FireInv
<1>20. \A v \in Evaluators : Shape(evaluator'[v])
  BY <1>4, <1>6
<1> QED BY <1>1, <1>4, <1>7, <1>17, <1>18, <1>19, <1>20 DEF FireInv

LEMMA FireStep ==
  ASSUME FireInv, [AlertNext]_alertVars PROVE FireInv'
<1>1. CASE UNCHANGED <<today, alerts, evaluator, owner, lostLocks>>
  BY <1>1, Quiet DEF FireInv
<1> QED
  BY <1>1, ReadCostsInv, AlertCountInv, NotifyInv, ProposeInv, EvaluationEndInv, DiesInv, StartInv, LoseInv,
     MidnightInv, CheckInv, InsertInv
     DEF AlertNext, alertVars, FirstOrder, Rename, Approve

LEMMA FireInit == AlertInit => FireInv
<1> SUFFICES ASSUME AlertInit PROVE FireInv
  OBVIOUS
<1>1. /\ Active \ {owner} = {}
      /\ \A p : Pending(p) = {}
      /\ \A p, day : FiredOn(p, day) = {}
  BY AsleepShape DEF AlertInit, Active, Pending, FiredOn
<1>2. Cardinality({}) = 0 /\ IsFiniteSet({})
  BY FS_EmptySet
<1>3. lostLocks = 0 /\ today = 0 /\ alerts = {} /\ owner = Nil
  BY DEF AlertInit
<1>4. Cardinality(Active \ {owner}) <= lostLocks
  BY <1>1, <1>2, <1>3
<1>5. \A p : Cardinality(FiredOn(p, today)) + Cardinality(Pending(p)) <= 1 + lostLocks
  BY <1>1, <1>2, <1>3
<1>6. \A p, day : Cardinality(FiredOn(p, day)) <= 1 + lostLocks
  BY <1>1, <1>2, <1>3
<1>7. DOMAIN evaluator = Evaluators /\ \A w \in Evaluators : Shape(evaluator[w])
  BY AsleepShape DEF AlertInit
<1> QED BY <1>2, <1>3, <1>4, <1>5, <1>6, <1>7 DEF FireInv

\* runAlertEvaluation: the check for an alert of today and its insert are two
\* statements, yet a message fires again only for a run that lost its lock.
THEOREM AlertsHold == AlertSpec => []AlertsCostStalls
<1>1. AlertSpec => []FireInv
  BY FireInit, FireStep, PTL DEF AlertSpec
<1>2. FireInv => AlertsCostStalls
  <2> SUFFICES ASSUME FireInv, NEW a \in alerts
               PROVE  Cardinality({b \in alerts : b.proposal = a.proposal /\ b.day = a.day})
                         <= 1 + lostLocks
    BY DEF AlertsCostStalls
  <2>1. \A p, day : Cardinality(FiredOn(p, day)) <= 1 + lostLocks
    BY DEF FireInv
  <2>2. {b \in alerts : b.proposal = a.proposal /\ b.day = a.day} = FiredOn(a.proposal, a.day)
    BY DEF FiredOn
  <2> QED BY <2>1, <2>2
<1> QED BY <1>1, <1>2, PTL

-----------------------------------------------------------------------------
(* The names a run works with.                                             *)

\* A name some entity bears, none at all, or one that was given up.
NameKnown(n) == n \in givenUp \cup {Nil} \/ \E c \in Campaigns : entityName[c] = n

\* So are those an execution carries, and those in the alerts.
NamesCarried(e) == /\ \A x \in e.rows : NameKnown(x.campaign)
                   /\ \A p \in e.todo \cup e.chosen : NameKnown(p.campaign)
NamesInv ==
    /\ DOMAIN entityName = Campaigns
    /\ \A w \in Evaluators : NamesCarried(evaluator[w])
    /\ \A a \in alerts : NameKnown(a.proposal.campaign)

LEMMA AsleepNames == NamesCarried(Asleep)
BY DEF NamesCarried, Asleep

LEMMA ExecutionNames ==
  ASSUME NEW pc, NEW d, NEW r, NEW t, NEW c, NEW a, NEW l,
         \A x \in r : NameKnown(x.campaign), \A p \in t \cup c : NameKnown(p.campaign)
  PROVE  NamesCarried(Execution(pc, d, r, t, c, a, l))
BY DEF NamesCarried, Execution

\* An execution moves, with names that are known.
LEMMA NamesMove ==
  ASSUME FireInv, NamesInv, NEW w \in Evaluators, NEW next, Step(w, next), NamesCarried(next),
         UNCHANGED <<entityName, givenUp>>,
         \A a \in alerts' \ alerts : NameKnown(a.proposal.campaign)
  PROVE  NamesInv'
<1>1. \A n : NameKnown(n)' <=> NameKnown(n)
  BY DEF NameKnown
<1>2. \A v \in Evaluators : NamesCarried(evaluator'[v])
  BY Moves DEF NamesInv
<1>3. \A v \in Evaluators : NamesCarried(evaluator[v])'
  BY <1>1, <1>2 DEF NamesCarried
<1>4. \A a \in alerts' : NameKnown(a.proposal.campaign)'
  BY <1>1 DEF NamesInv
<1> QED BY <1>3, <1>4 DEF NamesInv

LEMMA NamesRead ==
  ASSUME FireInv, NamesInv, NEW w \in Evaluators,
         ReadCosts(w) \/ CountFirstOrders(w) \/ CheckFired(w)
  PROVE  NamesInv'
<1>0. PICK e : e = evaluator[w]
  OBVIOUS
<1>1. Shape(e) /\ NamesCarried(e) /\ UNCHANGED <<entityName, givenUp, alerts>>
  BY <1>0 DEF FireInv, NamesInv, ReadCosts, CountFirstOrders, CheckFired
<1>2. CASE ReadCosts(w)
  <2>1. PICK costs : costs = CostRows(e.day)
    OBVIOUS
  <2>2. PICK next : next = [e EXCEPT !.pc = "count", !.rows = costs]
    OBVIOUS
  <2>3. Step(w, next)
    BY <1>0, <1>2, <2>1, <2>2 DEF ReadCosts
  <2>4. next = Execution("count", e.day, costs, e.todo, e.chosen, e.alert, e.left)
    BY <1>1, <2>2 DEF Shape, Execution
  <2>5. ASSUME NEW x \in costs PROVE NameKnown(x.campaign)
    <3>1. PICK c \in Campaigns :
             x = [campaign |-> entityName[c], cost |-> CampaignSpend[c] \div OrdersOf({c}, 0..e.day)]
      BY <2>1 DEF CostRows
    <3> QED BY <3>1 DEF NameKnown
  <2>6. NamesCarried(next)
    BY <1>1, <2>4, <2>5, ExecutionNames DEF NamesCarried
  <2> QED BY <1>1, <2>3, <2>6, NamesMove
<1>3. CASE CountFirstOrders(w)
  <2>1. PICK rules : rules = EvaluateRules(e.rows, OrdersOf(Sources, {e.day}),
                                           TrailingOrders + OrdersOf(Sources, 0..(e.day - 1)))
    OBVIOUS
  <2>2. PICK next : next = [e EXCEPT !.pc = "check", !.rows = {}, !.todo = rules]
    OBVIOUS
  <2>3. Step(w, next)
    BY <1>0, <1>3, <2>1, <2>2 DEF CountFirstOrders
  <2>4. next = Execution("check", e.day, {}, rules, e.chosen, e.alert, e.left)
    BY <1>1, <2>2 DEF Shape, Execution
  <2>5. ASSUME NEW p \in rules PROVE NameKnown(p.campaign)
    <3>1. p.campaign = Nil \/ \E x \in e.rows : p.campaign = x.campaign
      BY <2>1 DEF EvaluateRules
    <3> QED BY <1>1, <3>1 DEF NamesCarried, NameKnown
  <2>6. NamesCarried(next)
    BY <1>1, <2>4, <2>5, ExecutionNames DEF NamesCarried
  <2> QED BY <1>1, <2>3, <2>6, NamesMove
<1>4. CASE CheckFired(w)
  <2>1. PICK p \in e.todo :
           Step(w, IF AlreadyFired(p) THEN [e EXCEPT !.todo = e.todo \ {p}]
                   ELSE [e EXCEPT !.pc = "insert", !.chosen = {p}])
    BY <1>0, <1>4 DEF CheckFired
  <2>2. PICK next : /\ Step(w, next)
                    /\ \/ next = [e EXCEPT !.todo = e.todo \ {p}]
                       \/ next = [e EXCEPT !.pc = "insert", !.chosen = {p}]
    BY <2>1
  <2>3. \/ next = Execution(e.pc, e.day, e.rows, e.todo \ {p}, e.chosen, e.alert, e.left)
        \/ next = Execution("insert", e.day, e.rows, e.todo, {p}, e.alert, e.left)
    BY <1>1, <2>2 DEF Shape, Execution
  <2>4. NamesCarried(next)
    BY <1>1, <2>3, ExecutionNames DEF NamesCarried
  <2> QED BY <1>1, <2>2, <2>4, NamesMove
<1> QED BY <1>2, <1>3, <1>4

LEMMA NamesInsert ==
  ASSUME FireInv, NamesInv, NEW w \in Evaluators, InsertAlert(w)
  PROVE  NamesInv'
<1>0. PICK e, p, id : /\ e = evaluator[w] /\ p = (CHOOSE x \in e.chosen : TRUE)
                      /\ id = Cardinality(alerts) + 1
  OBVIOUS
<1>1. PICK next : next = [e EXCEPT !.pc = "notify", !.alert = id, !.left = Recipients,
                                   !.chosen = {}, !.todo = e.todo \ {p}]
  OBVIOUS
<1>2. /\ e.pc = "insert" /\ alerts' = alerts \cup {AlertOf(p, id)} /\ Step(w, next)
      /\ UNCHANGED <<entityName, givenUp>>
  BY <1>0, <1>1 DEF InsertAlert
<1>3. Shape(e) /\ NamesCarried(e)
  BY <1>0 DEF FireInv, NamesInv
<1>4. p \in e.chosen
  BY <1>0, <1>2, <1>3 DEF Shape
<1>5. \A a \in alerts' \ alerts : NameKnown(a.proposal.campaign)
  BY <1>2, <1>3, <1>4 DEF NamesCarried, AlertOf
<1>6. next = Execution("notify", e.day, e.rows, e.todo \ {p}, {}, id, Recipients)
  BY <1>1, <1>3 DEF Shape, Execution
<1>7. NamesCarried(next)
  BY <1>3, <1>6, ExecutionNames DEF NamesCarried
<1> QED BY <1>2, <1>5, <1>7, NamesMove

LEMMA NamesFollow ==
  ASSUME FireInv, NamesInv, NEW w \in Evaluators, Notify(w) \/ Propose(w)
  PROVE  NamesInv'
<1> DEFINE e == evaluator[w]
<1>0. Shape(e) /\ NamesCarried(e) /\ UNCHANGED <<entityName, givenUp, alerts>>
  BY DEF FireInv, NamesInv, Notify, Propose
<1>1. PICK next : /\ Step(w, next)
                  /\ \/ \E r : next = [e EXCEPT !.left = e.left \ {r}]
                     \/ next = [e EXCEPT !.pc = "check", !.alert = 0]
  BY DEF Notify, Propose
<1>2. \E pc, a, l : next = Execution(pc, e.day, e.rows, e.todo, e.chosen, a, l)
  <2>1. CASE \E r : next = [e EXCEPT !.left = e.left \ {r}]
    <3>1. PICK r : next = [e EXCEPT !.left = e.left \ {r}]
      BY <2>1
    <3>2. next = Execution(e.pc, e.day, e.rows, e.todo, e.chosen, e.alert, e.left \ {r})
      BY <1>0, <3>1 DEF Shape, Execution
    <3> QED BY <3>2
  <2>2. CASE next = [e EXCEPT !.pc = "check", !.alert = 0]
    <3>1. next = Execution("check", e.day, e.rows, e.todo, e.chosen, 0, e.left)
      BY <1>0, <2>2 DEF Shape, Execution
    <3> QED BY <3>1
  <2> QED BY <1>1, <2>1, <2>2
<1>3. NamesCarried(next)
  BY <1>0, <1>2, ExecutionNames DEF NamesCarried
<1> QED BY <1>0, <1>1, <1>3, NamesMove

\* A name nobody bears after a change was given up.
LEMMA NamesRename ==
  ASSUME NamesInv, NEW c \in Campaigns, Rename(c) PROVE NamesInv'
<1>1. PICK n : /\ entityName' = [entityName EXCEPT ![c] = n]
               /\ givenUp' = givenUp \cup
                     ({entityName[c]} \ ({entityName'[x] : x \in Campaigns} \cup {Nil}))
               /\ UNCHANGED <<evaluator, alerts>>
  BY DEF Rename
<1>2. \A m : NameKnown(m) => NameKnown(m)'
  <2> SUFFICES ASSUME NEW m, NameKnown(m) PROVE NameKnown(m)'
    OBVIOUS
  <2>1. CASE m \in givenUp \cup {Nil}
    BY <1>1, <2>1 DEF NameKnown
  <2>2. CASE \E d \in Campaigns : entityName[d] = m
    <3>1. PICK d \in Campaigns : entityName[d] = m
      BY <2>2
    <3>2. CASE d = c
      BY <1>1, <3>1, <3>2 DEF NameKnown
    <3>3. CASE d # c
      <4>1. entityName'[d] = m
        BY <1>1, <3>1, <3>3 DEF NamesInv
      <4> QED BY <4>1 DEF NameKnown
    <3> QED BY <3>2, <3>3
  <2> QED BY <2>1, <2>2 DEF NameKnown
<1> QED BY <1>1, <1>2 DEF NamesInv, NamesCarried

LEMMA NamesStep ==
  ASSUME FireInv, NamesInv, [AlertNext]_alertVars PROVE NamesInv'
<1>1. ASSUME NEW w \in Evaluators, StartEvaluation(w) PROVE NamesInv'
  <2>1. NamesCarried([Asleep EXCEPT !.pc = "cost", !.day = today])
    BY AsleepNames DEF NamesCarried, Asleep
  <2> QED BY <1>1, <2>1, NamesMove DEF StartEvaluation
<1>2. ASSUME NEW w \in Evaluators, FinishEvaluation(w) \/ EvaluationFails(w) PROVE NamesInv'
  BY <1>2, AsleepNames, NamesMove DEF FinishEvaluation, EvaluationFails
<1>3. CASE ProcessDies
  <2>1. /\ \A w \in Evaluators : evaluator'[w] = Asleep
        /\ UNCHANGED <<entityName, givenUp, alerts>>
    BY <1>3 DEF ProcessDies
  <2>2. \A w \in Evaluators : NamesCarried(evaluator[w])'
    BY <2>1 DEF NamesCarried, Asleep
  <2> QED BY <2>1, <2>2 DEF NamesInv, NameKnown
<1>4. CASE UNCHANGED <<entityName, givenUp, evaluator, alerts>>
  BY <1>4 DEF NamesInv, NamesCarried, NameKnown
<1> QED
  BY <1>1, <1>2, <1>3, <1>4, NamesRead, NamesInsert, NamesFollow, NamesRename
     DEF AlertNext, alertVars, FirstOrder, Midnight, LoseLock, Approve

-----------------------------------------------------------------------------
(* What failures cost.                                                     *)

\* The executions without the lock, those that have failed to notify somebody
\* of the alert they are at, and the alerts that nothing will follow up.
Strays == Active \ {owner}
Owing == {w \in Evaluators :
            /\ evaluator[w].pc = "notify"
            /\ \E r \in Recipients \ evaluator[w].left : <<evaluator[w].alert, r>> \notin told}
Lost == {a \in alerts : ~FollowedUp(a) /\ ~InProgress(a)}

\* The id of an alert is its own.  Each mishap has cost one alert at most, or may
\* cost one yet: the execution that lost its lock dies beside the owner without a
\* failure of its own, and a message not sent shows when the alert is done with.
FollowInv ==
    /\ \A a \in alerts : a.id \in Nat /\ a.id <= Cardinality(alerts)
    /\ \A a, b \in alerts : a.id = b.id => a = b
    /\ \A d \in decisions : d = [alert |-> d.alert, entity |-> d.entity, status |-> d.status]
    /\ mishaps \in Nat
    /\ Cardinality(Lost) + Cardinality(Strays) + Cardinality(Owing) <= mishaps

\* A set with one element more at most.
LEMMA OneMore ==
  ASSUME NEW S, IsFiniteSet(S), NEW x, NEW T \in SUBSET (S \cup {x})
  PROVE  /\ Cardinality(S) \in Nat /\ IsFiniteSet(T) /\ Cardinality(T) \in Nat
         /\ Cardinality(T) <= Cardinality(S) + 1
         /\ T \subseteq S => Cardinality(T) <= Cardinality(S)
<1>0. Cardinality(S) \in Nat
  BY FS_CardinalityType
<1>1. IsFiniteSet(S \cup {x}) /\ Cardinality(S \cup {x}) <= Cardinality(S) + 1
  <2>1. /\ IsFiniteSet(S \cup {x})
        /\ Cardinality(S \cup {x}) = IF x \in S THEN Cardinality(S) ELSE Cardinality(S) + 1
    BY FS_AddElement
  <2> QED BY <1>0, <2>1
<1>2. IsFiniteSet(T) /\ Cardinality(T) <= Cardinality(S \cup {x})
  BY <1>1, FS_Subset
<1>3. T \subseteq S => Cardinality(T) <= Cardinality(S)
  BY FS_Subset
<1>4. Cardinality(S) \in Nat /\ Cardinality(T) \in Nat /\ Cardinality(S \cup {x}) \in Nat
  BY <1>1, <1>2, FS_CardinalityType
<1> QED BY <1>1, <1>2, <1>3, <1>4

LEMMA CostFinite ==
  ASSUME IsFiniteSet(alerts), IsFiniteSet(alerts')
  PROVE  /\ IsFiniteSet(Lost) /\ IsFiniteSet(Strays) /\ IsFiniteSet(Owing)
         /\ IsFiniteSet(Lost') /\ IsFiniteSet(Strays') /\ IsFiniteSet(Owing')
<1>1. Lost \in SUBSET alerts /\ Lost' \in SUBSET alerts'
  BY DEF Lost
<1>2. \A S \in {Strays, Owing, Strays', Owing'} : S \in SUBSET Evaluators
  BY DEF Strays, Active, Owing
<1> HIDE DEF Lost, Strays, Owing
<1> QED BY <1>1, <1>2, AlertAssumption, FS_Subset

\* The books of a step: what it may cost, and who pays.
Covered(l, s, o) == /\ Cardinality(Lost)' <= Cardinality(Lost) + l
                 /\ Cardinality(Strays)' <= Cardinality(Strays) + s
                 /\ Cardinality(Owing)' <= Cardinality(Owing) + o
                 /\ mishaps' = mishaps + l + s + o

LEMMA PaidInv ==
  ASSUME FireInv, FireInv', FollowInv, NEW l \in 0..1, NEW s \in 0..1, NEW o \in {-1, 0, 1},
         Covered(l, s, o), l + s + o \in Nat,
         \A a \in alerts' : a.id \in Nat /\ a.id <= Cardinality(alerts'),
         \A a, b \in alerts' : a.id = b.id => a = b,
         \A d \in decisions' : d = [alert |-> d.alert, entity |-> d.entity, status |-> d.status]
  PROVE  FollowInv'
<1>1. /\ IsFiniteSet(Lost) /\ IsFiniteSet(Strays) /\ IsFiniteSet(Owing)
      /\ IsFiniteSet(Lost') /\ IsFiniteSet(Strays') /\ IsFiniteSet(Owing')
  BY CostFinite DEF FireInv
<1>2. /\ Cardinality(Lost) \in Nat /\ Cardinality(Strays) \in Nat /\ Cardinality(Owing) \in Nat
      /\ Cardinality(Lost') \in Nat /\ Cardinality(Strays') \in Nat /\ Cardinality(Owing') \in Nat
  BY <1>1, FS_CardinalityType
<1>3. Cardinality(Lost) + Cardinality(Strays) + Cardinality(Owing) <= mishaps /\ mishaps \in Nat
  BY DEF FollowInv
<1>4. mishaps' \in Nat /\ Cardinality(Lost') + Cardinality(Strays') + Cardinality(Owing') <= mishaps'
  BY <1>2, <1>3 DEF Covered
<1> QED BY <1>4 DEF FollowInv

\* An execution that moves leaves the others' alerts in progress, and as lost as
\* they were; its own may be lost when it is done with it.
LEMMA OneMoves ==
  ASSUME NEW w \in Evaluators, \A v \in Evaluators \ {w} : evaluator'[v] = evaluator[v],
         told \subseteq told', givenUp \subseteq givenUp',
         \A d \in decisions : \E f \in decisions' : f.alert = d.alert
  PROVE  /\ Owing' \subseteq Owing \cup {w}
         /\ evaluator'[w].pc # "notify" => Owing' \subseteq Owing \ {w}
         /\ \A a \in alerts : /\ FollowedUp(a) => FollowedUp(a)'
                              /\ InProgress(a) => \/ InProgress(a)'
                                                  \/ /\ evaluator[w].pc = "notify"
                                                     /\ evaluator[w].alert = a.id
<1>1. \A v \in Evaluators \ {w} : v \in Owing' => v \in Owing
  BY DEF Owing
<1>2. evaluator'[w].pc # "notify" => w \notin Owing'
  BY DEF Owing
<1>3. Owing' \subseteq Evaluators
  BY DEF Owing
<1>4. ASSUME NEW a \in alerts, FollowedUp(a) PROVE FollowedUp(a)'
  BY <1>4 DEF FollowedUp
<1>5. ASSUME NEW a \in alerts, InProgress(a)
      PROVE  InProgress(a)' \/ (evaluator[w].pc = "notify" /\ evaluator[w].alert = a.id)
  BY <1>5 DEF InProgress
<1> QED BY <1>1, <1>2, <1>3, <1>4, <1>5

\* It follows up no alert: nothing is lost.
LEMMA FollowQuiet ==
  ASSUME FireInv, FireInv', FollowInv,
         NEW w \in Evaluators, \A v \in Evaluators \ {w} : evaluator'[v] = evaluator[v],
         evaluator[w].pc # "notify", evaluator'[w].pc # "notify",
         Strays' \subseteq Strays,
         UNCHANGED <<givenUp, alerts, told, decisions, mishaps>>
  PROVE  FollowInv'
<1>1. Owing' \subseteq Owing
  BY OneMoves
<1>2. Lost' \subseteq Lost
  BY OneMoves DEF Lost
<1>3. IsFiniteSet(Lost) /\ IsFiniteSet(Strays) /\ IsFiniteSet(Owing)
  BY CostFinite DEF FireInv
<1>4. Covered(0, 0, 0)
  BY <1>1, <1>2, <1>3, OneMore DEF Covered, FollowInv
<1> QED BY <1>4, PaidInv DEF FollowInv

LEMMA StraysMove ==
  ASSUME NEW w \in Evaluators, \A v \in Evaluators \ {w} : evaluator'[v] = evaluator[v],
         \/ evaluator[w].pc # "idle" /\ owner' = owner
         \/ evaluator'[w].pc = "idle" /\ (owner' = owner \/ owner = w)
         \/ owner = Nil /\ owner' = w
  PROVE  Strays' \subseteq Strays
<1> SUFFICES ASSUME NEW v \in Strays' PROVE v \in Strays
  OBVIOUS
<1>1. v \in Evaluators /\ evaluator'[v].pc # "idle" /\ v # owner'
  BY DEF Strays, Active
<1>2. v # Nil
  BY <1>1, AlertAssumption
<1>3. v # w => evaluator[v].pc # "idle"
  BY <1>1
<1> QED BY <1>1, <1>2, <1>3 DEF Strays, Active

\* The steps before an alert is inserted, and the last one.
LEMMA FollowOther ==
  ASSUME FireInv, FireInv', FollowInv, NEW w \in Evaluators,
         \/ StartEvaluation(w) \/ ReadCosts(w) \/ CountFirstOrders(w) \/ CheckFired(w)
         \/ FinishEvaluation(w)
  PROVE  FollowInv'
<1> DEFINE e == evaluator[w]
<1>1. UNCHANGED <<givenUp, alerts, told, decisions, mishaps>>
  BY DEF StartEvaluation, ReadCosts, CountFirstOrders, CheckFired, FinishEvaluation
<1>2. PICK next : Step(w, next)
  BY DEF StartEvaluation, ReadCosts, CountFirstOrders, CheckFired, FinishEvaluation
<1>3. \A v \in Evaluators \ {w} : evaluator'[v] = evaluator[v]
  BY <1>2, Moves
<1>4. e.pc # "notify" /\ evaluator'[w].pc # "notify" /\ Strays' \subseteq Strays
  <2>1. CASE StartEvaluation(w)
    <3>1. evaluator'[w] = [Asleep EXCEPT !.pc = "cost", !.day = today] /\ e.pc = "idle"
          /\ owner = Nil /\ owner' = w
      BY <2>1, Moves DEF StartEvaluation
    <3>2. evaluator'[w].pc = "cost"
      BY <3>1 DEF Asleep
    <3> QED BY <1>3, <3>1, <3>2, StraysMove
  <2>2. CASE ReadCosts(w)
    <3>1. evaluator'[w] = [e EXCEPT !.pc = "count", !.rows = CostRows(e.day)] /\ Shape(e)
          /\ e.pc = "cost" /\ owner' = owner
      BY <2>2, Moves DEF ReadCosts
    <3>2. evaluator'[w] = Execution("count", e.day, CostRows(e.day), e.todo, e.chosen, e.alert, e.left)
      BY <3>1 DEF Shape, Execution
    <3> QED BY <1>3, <3>1, <3>2, ExecutionShape, StraysMove
  <2>3. CASE CountFirstOrders(w)
    <3> DEFINE rules == EvaluateRules(e.rows, OrdersOf(Sources, {e.day}),
                                      TrailingOrders + OrdersOf(Sources, 0..(e.day - 1)))
    <3>1. evaluator'[w] = [e EXCEPT !.pc = "check", !.rows = {}, !.todo = rules] /\ Shape(e)
          /\ e.pc = "count" /\ owner' = owner
      BY <2>3, Moves DEF CountFirstOrders
    <3>2. evaluator'[w] = Execution("check", e.day, {}, rules, e.chosen, e.alert, e.left)
      BY <3>1 DEF Shape, Execution
    <3> QED BY <1>3, <3>1, <3>2, ExecutionShape, StraysMove
  <2>4. CASE CheckFired(w)
    <3>1. PICK p : \/ Step(w, [e EXCEPT !.todo = e.todo \ {p}])
                   \/ Step(w, [e EXCEPT !.pc = "insert", !.chosen = {p}])
      <4>1. PICK p \in e.todo :
               Step(w, IF AlreadyFired(p) THEN [e EXCEPT !.todo = e.todo \ {p}]
                       ELSE [e EXCEPT !.pc = "insert", !.chosen = {p}])
        BY <2>4 DEF CheckFired
      <4> HIDE DEF e
      <4> QED BY <4>1
    <3>2. Shape(e) /\ e.pc = "check" /\ owner' = owner
      BY <2>4 DEF CheckFired, FireInv
    <3>3. \/ evaluator'[w] = Execution("check", e.day, e.rows, e.todo \ {p}, e.chosen, e.alert, e.left)
          \/ evaluator'[w] = Execution("insert", e.day, e.rows, e.todo, {p}, e.alert, e.left)
      <4>1. \/ evaluator'[w] = [e EXCEPT !.todo = e.todo \ {p}]
            \/ evaluator'[w] = [e EXCEPT !.pc = "insert", !.chosen = {p}]
        BY <3>1, Moves
      <4> HIDE DEF e
      <4> QED BY <3>2, <4>1 DEF Shape, Execution
    <3>4. evaluator'[w].pc \in {"check", "insert"}
      BY <3>3, ExecutionShape
    <3>5. Strays' \subseteq Strays
      BY <1>3, <3>2, StraysMove
    <3> QED BY <3>2, <3>4, <3>5
  <2>5. CASE FinishEvaluation(w)
    <3>1. evaluator'[w] = Asleep /\ e.pc = "check" /\ (owner' = owner \/ owner = w)
      BY <2>5, Moves DEF FinishEvaluation, Release
    <3> QED BY <1>3, <3>1, AsleepShape, StraysMove
  <2> QED BY <2>1, <2>2, <2>3, <2>4, <2>5
<1> QED BY <1>1, <1>3, <1>4, FollowQuiet

\* A message not sent is owed from the time it failed.
LEMMA FollowNotify ==
  ASSUME FireInv, FireInv', FollowInv, NEW w \in Evaluators, Notify(w)
  PROVE  FollowInv'
<1> DEFINE e == evaluator[w]
<1>1. PICK r \in e.left :
         /\ \/ told' = told \cup {<<e.alert, r>>} /\ UNCHANGED mishaps
            \/ Mishap /\ UNCHANGED told
         /\ Step(w, [e EXCEPT !.left = e.left \ {r}])
  BY DEF Notify
<1>2. e.pc = "notify" /\ UNCHANGED <<givenUp, alerts, decisions, owner>> /\ told \subseteq told'
  BY <1>1 DEF Notify
<1>3. /\ evaluator'[w] = [e EXCEPT !.left = e.left \ {r}] /\ Shape(e)
      /\ \A v \in Evaluators \ {w} : evaluator'[v] = evaluator[v]
  BY <1>1, Moves
<1>4. evaluator'[w] = Execution("notify", e.day, e.rows, e.todo, e.chosen, e.alert, e.left \ {r})
  BY <1>2, <1>3 DEF Shape, Execution
<1>5. evaluator'[w].pc = "notify" /\ evaluator'[w].alert = e.alert /\ evaluator'[w].left = e.left \ {r}
  BY <1>4 DEF Execution
<1>6. Strays' \subseteq Strays
  BY <1>2, <1>3, StraysMove
<1>7. Owing' \subseteq Owing \cup {w} /\ Lost' \subseteq Lost
  <2>1. \A a \in alerts : InProgress(a) => InProgress(a)'
    BY <1>2, <1>3, <1>5, OneMoves DEF InProgress
  <2>2. Owing' \subseteq Owing \cup {w} /\ \A a \in alerts : FollowedUp(a) => FollowedUp(a)'
    BY <1>2, <1>3, OneMoves
  <2> QED BY <1>2, <2>1, <2>2 DEF Lost
<1>8. told' = told \cup {<<e.alert, r>>} => Owing' \subseteq Owing
  <2> SUFFICES ASSUME told' = told \cup {<<e.alert, r>>}, w \in Owing' PROVE w \in Owing
    BY <1>7
  <2>1. PICK q \in Recipients \ (e.left \ {r}) : <<e.alert, q>> \notin told'
    BY <1>5 DEF Owing
  <2>2. q # r /\ <<e.alert, q>> \notin told
    BY <2>1
  <2> QED BY <1>2, <2>1, <2>2 DEF Owing
<1>9. IsFiniteSet(Lost) /\ IsFiniteSet(Strays) /\ IsFiniteSet(Owing) /\ mishaps \in Nat
  BY CostFinite DEF FireInv, FollowInv
<1>10. Covered(0, 0, 0) \/ Covered(0, 0, 1)
  BY <1>1, <1>6, <1>7, <1>8, <1>9, OneMore DEF Covered, Mishap
<1> QED BY <1>2, <1>10, PaidInv DEF FollowInv

\* The alert inserted has an id of its own and is in progress.
LEMMA FollowInsert ==
  ASSUME FireInv, FireInv', FollowInv, NEW w \in Evaluators, InsertAlert(w)
  PROVE  FollowInv'
<1> DEFINE e == evaluator[w]
<1>4. PICK id : id = Cardinality(alerts) + 1
  OBVIOUS
<1>0. PICK p, new : p = (CHOOSE x \in e.chosen : TRUE) /\ new = AlertOf(p, id)
  OBVIOUS
<1>1. /\ e.pc = "insert" /\ alerts' = alerts \cup {new}
      /\ Step(w, [e EXCEPT !.pc = "notify", !.alert = id, !.left = Recipients,
                           !.chosen = {}, !.todo = e.todo \ {p}])
      /\ UNCHANGED <<givenUp, told, decisions, owner, mishaps>>
  BY <1>0, <1>4 DEF InsertAlert
<1>2. new.id = id
  BY <1>0 DEF AlertOf
<1>3. IsFiniteSet(alerts) /\ Cardinality(alerts) \in Nat
  BY FS_CardinalityType DEF FireInv
<1>5. /\ evaluator'[w] = [e EXCEPT !.pc = "notify", !.alert = id, !.left = Recipients,
                                   !.chosen = {}, !.todo = e.todo \ {p}]
      /\ Shape(e) /\ \A v \in Evaluators \ {w} : evaluator'[v] = evaluator[v]
  BY <1>1, Moves
<1>6. evaluator'[w] = Execution("notify", e.day, e.rows, e.todo \ {p}, {}, id, Recipients)
  BY <1>5 DEF Shape, Execution
<1>7. evaluator'[w].pc = "notify" /\ evaluator'[w].alert = id /\ evaluator'[w].left = Recipients
  BY <1>6 DEF Execution
<1>8. new \notin alerts /\ Cardinality(alerts') = id
  <2>1. new \notin alerts
    BY <1>2, <1>3, <1>4 DEF FollowInv
  <2> QED BY <1>1, <1>3, <1>4, <2>1, FS_AddElement
<1>9. /\ \A a \in alerts' : a.id \in Nat /\ a.id <= Cardinality(alerts')
      /\ \A a, b \in alerts' : a.id = b.id => a = b
  BY <1>1, <1>2, <1>3, <1>4, <1>8 DEF FollowInv
<1>10. Owing' \subseteq Owing
  <2>1. w \notin Owing'
    BY <1>7 DEF Owing
  <2> QED BY <1>1, <1>5, <2>1, OneMoves
<1>11. Lost' \subseteq Lost
  <2>1. InProgress(new)'
    BY <1>2, <1>7 DEF InProgress
  <2>2. \A a \in alerts : /\ FollowedUp(a) => FollowedUp(a)'
                          /\ InProgress(a) => InProgress(a)'
    BY <1>1, <1>5, OneMoves
  <2>3. \A a \in Lost' : a \in alerts
    BY <1>1, <2>1 DEF Lost
  <2> QED BY <2>2, <2>3 DEF Lost
<1>12. Strays' \subseteq Strays
  BY <1>1, <1>5, StraysMove
<1>13. Covered(0, 0, 0)
  <2>1. IsFiniteSet(Lost) /\ IsFiniteSet(Strays) /\ IsFiniteSet(Owing) /\ mishaps \in Nat
    BY CostFinite DEF FireInv, FollowInv
  <2>2. mishaps' = mishaps
    BY <1>1
  <2>3. /\ Cardinality(Lost') <= Cardinality(Lost) /\ Cardinality(Owing') <= Cardinality(Owing)
        /\ Cardinality(Strays') <= Cardinality(Strays)
    BY <1>10, <1>11, <1>12, <2>1, OneMore
  <2>4. Cardinality(Lost) \in Nat /\ Cardinality(Strays) \in Nat /\ Cardinality(Owing) \in Nat
    BY <2>1, FS_CardinalityType
  <2> QED BY <2>1, <2>2, <2>3, <2>4 DEF Covered
<1>14. \A d \in decisions' : d = [alert |-> d.alert, entity |-> d.entity, status |-> d.status]
  BY <1>1 DEF FollowInv
<1> QED BY <1>9, <1>13, <1>14, PaidInv

\* The alert is done with: it has been followed up, or the execution owed it.
LEMMA FollowPropose ==
  ASSUME FireInv, FireInv', NamesInv, FollowInv, NEW w \in Evaluators, Propose(w)
  PROVE  FollowInv'
<1> DEFINE e == evaluator[w]
           b == CHOOSE a \in alerts : a.id = e.alert
           p == b.proposal
<1>0. /\ \A a \in alerts : a.id \in Nat /\ a.id <= Cardinality(alerts)
      /\ \A a1, a2 \in alerts : a1.id = a2.id => a1 = a2
      /\ \A d \in decisions : d = [alert |-> d.alert, entity |-> d.entity, status |-> d.status]
  BY DEF FollowInv
<1>1. /\ e.pc = "notify" /\ e.left = {}
      /\ Step(w, [e EXCEPT !.pc = "check", !.alert = 0])
      /\ UNCHANGED <<givenUp, alerts, told, owner, mishaps>>
  BY DEF Propose
<1> DEFINE named == {c \in Campaigns : entityName[c] = p.campaign}
           due == p.rule = "cpfo_high" /\ p.campaign # Nil /\ named # {}
<1>2. IF due
      THEN \E c \in named :
              decisions' = decisions \cup {[alert |-> e.alert, entity |-> c, status |-> "proposed"]}
      ELSE UNCHANGED decisions
  BY DEF Propose
<1>3. /\ decisions \subseteq decisions'
      /\ due => \E d \in decisions' : d.alert = e.alert
      /\ \A d \in decisions' : d = [alert |-> d.alert, entity |-> d.entity, status |-> d.status]
  <2> HIDE DEF due, named
  <2>1. CASE UNCHANGED decisions /\ ~due
    BY <2>1 DEF FollowInv
  <2>2. CASE \E c : decisions' = decisions \cup
                       {[alert |-> e.alert, entity |-> c, status |-> "proposed"]}
    <3>1. PICK c : decisions' = decisions \cup
                       {[alert |-> e.alert, entity |-> c, status |-> "proposed"]}
      BY <2>2
    <3> DEFINE d == [alert |-> e.alert, entity |-> c, status |-> "proposed"]
    <3>2. d = [alert |-> d.alert, entity |-> d.entity, status |-> d.status] /\ d.alert = e.alert
      OBVIOUS
    <3>3. decisions' = decisions \cup {d}
      BY <3>1
    <3> HIDE DEF d, e
    <3> QED BY <1>0, <3>2, <3>3
  <2> QED BY <1>2, <2>1, <2>2
<1>4. /\ evaluator'[w] = [e EXCEPT !.pc = "check", !.alert = 0] /\ Shape(e)
      /\ \A v \in Evaluators \ {w} : evaluator'[v] = evaluator[v]
  BY <1>1, Moves
<1>5. evaluator'[w] = Execution("check", e.day, e.rows, e.todo, e.chosen, 0, e.left)
  BY <1>4 DEF Shape, Execution
<1>6. evaluator'[w].pc = "check"
  BY <1>5 DEF Execution
<1>7. Strays' \subseteq Strays
  BY <1>1, <1>4, StraysMove
<1>8. Owing' \subseteq Owing \ {w} /\ told \subseteq told'
  <2>1. /\ evaluator'[w].pc # "notify" /\ told \subseteq told' /\ givenUp \subseteq givenUp'
        /\ \A d \in decisions : \E f \in decisions' : f.alert = d.alert
    BY <1>1, <1>3, <1>6
  <2> HIDE DEF e, b, p, due, named
  <2> QED BY <1>4, <2>1, OneMoves
<1>9. \A a \in alerts : /\ FollowedUp(a) => FollowedUp(a)'
                        /\ InProgress(a) => InProgress(a)' \/ e.alert = a.id
  <2>1. /\ told \subseteq told' /\ givenUp \subseteq givenUp'
        /\ \A d \in decisions : \E f \in decisions' : f.alert = d.alert
    BY <1>1, <1>3
  <2> HIDE DEF b, p, due, named
  <2> QED BY <1>4, <2>1, OneMoves
<1>10. \A a \in Lost' \ Lost : a \in alerts /\ a.id = e.alert
  BY <1>1, <1>9 DEF Lost
<1>11. Lost' \subseteq Lost \cup {b}
  BY <1>10 DEF FollowInv
<1>12. w \notin Owing => Lost' \subseteq Lost
  <2> SUFFICES ASSUME w \notin Owing, NEW a \in Lost' \ Lost PROVE FALSE
    OBVIOUS
  <2>1. a \in alerts /\ a.id = e.alert /\ b = a
    BY <1>10 DEF FollowInv
  <2>2. \A r \in Recipients : <<a.id, r>> \in told'
    BY <1>1, <2>1 DEF Owing
  <2>0. a.proposal = p /\ NameKnown(p.campaign)
    BY <2>1 DEF NamesInv
  <2>3. a.proposal.rule = "cpfo_high" /\ a.proposal.campaign \notin givenUp' \cup {Nil} =>
           \E d \in decisions' : d.alert = a.id
    BY <1>1, <1>3, <2>0, <2>1 DEF NameKnown
  <2>4. FollowedUp(a)'
    BY <2>2, <2>3 DEF FollowedUp
  <2> QED BY <2>4 DEF Lost
<1>13. IsFiniteSet(Lost) /\ IsFiniteSet(Strays) /\ IsFiniteSet(Owing) /\ mishaps \in Nat
  BY CostFinite DEF FireInv, FollowInv
<1> HIDE DEF b
<1>14. CASE w \notin Owing
  <2>1. Covered(0, 0, 0)
    BY <1>1, <1>7, <1>8, <1>12, <1>13, <1>14, OneMore DEF Covered
  <2> QED BY <1>1, <1>3, <2>1, PaidInv DEF FollowInv
<1>15. CASE w \in Owing
  <2>1. /\ Cardinality(Owing \ {w}) = Cardinality(Owing) - 1
        /\ IsFiniteSet(Owing \ {w}) /\ Cardinality(Owing) \in Nat
    BY <1>13, <1>15, FS_RemoveElement, FS_CardinalityType
  <2>2. Cardinality(Owing') <= Cardinality(Owing) - 1
    BY <1>8, <2>1, FS_Subset
  <2>3. Cardinality(Lost') <= Cardinality(Lost) + 1
    BY <1>11, <1>13, OneMore
  <2>7. /\ Cardinality(Strays') <= Cardinality(Strays)
        /\ Cardinality(Strays) \in Nat /\ Cardinality(Strays') \in Nat
    BY <1>7, <1>13, OneMore
  <2>4. Covered(1, 0, -1)
    BY <1>1, <1>13, <2>1, <2>2, <2>3, <2>7 DEF Covered
  <2>5. 1 + 0 + (-1) \in Nat /\ -1 \in {-1, 0, 1}
    OBVIOUS
  <2>6. alerts' = alerts
    BY <1>1
  <2> HIDE DEF Covered
  <2> QED BY <1>0, <1>3, <2>4, <2>5, <2>6, PaidInv
<1> QED BY <1>14, <1>15

\* A query that fails costs the alert the execution was at, if any.
LEMMA FollowFails ==
  ASSUME FireInv, FireInv', FollowInv, NEW w \in Evaluators, EvaluationFails(w)
  PROVE  FollowInv'
<1> DEFINE e == evaluator[w]
           b == CHOOSE a \in alerts : a.id = e.alert
<1>1. /\ e.pc # "idle" /\ mishaps' = mishaps + 1 /\ Step(w, Asleep)
      /\ owner' = owner \/ owner = w
      /\ UNCHANGED <<givenUp, alerts, told, decisions>>
  BY DEF EvaluationFails, Mishap, Release
<1>2. /\ evaluator'[w].pc = "idle"
      /\ \A v \in Evaluators \ {w} : evaluator'[v] = evaluator[v]
  BY <1>1, Moves, AsleepShape
<1>3. Strays' \subseteq Strays /\ Owing' \subseteq Owing
  BY <1>1, <1>2, StraysMove, OneMoves
<1>4. Lost' \subseteq Lost \cup {b}
  <2>1. \A a \in alerts : /\ FollowedUp(a) => FollowedUp(a)'
                          /\ InProgress(a) => InProgress(a)' \/ e.alert = a.id
    BY <1>1, <1>2, OneMoves
  <2>2. \A a \in Lost' \ Lost : a \in alerts /\ a.id = e.alert
    BY <1>1, <2>1 DEF Lost
  <2> QED BY <2>2 DEF FollowInv
<1> HIDE DEF b
<1>5. IsFiniteSet(Lost) /\ IsFiniteSet(Strays) /\ IsFiniteSet(Owing) /\ mishaps \in Nat
  BY CostFinite DEF FireInv, FollowInv
<1>6. Cardinality(Lost') <= Cardinality(Lost) + 1
  BY <1>4, <1>5, OneMore
<1>7. /\ Cardinality(Strays') <= Cardinality(Strays) /\ Cardinality(Owing') <= Cardinality(Owing)
      /\ Cardinality(Strays) \in Nat /\ Cardinality(Owing) \in Nat
      /\ Cardinality(Strays') \in Nat /\ Cardinality(Owing') \in Nat
  BY <1>3, <1>5, OneMore
<1>8. Covered(1, 0, 0)
  BY <1>1, <1>5, <1>6, <1>7 DEF Covered
<1>9. /\ \A a \in alerts' : a.id \in Nat /\ a.id <= Cardinality(alerts')
      /\ \A a, c \in alerts' : a.id = c.id => a = c
      /\ \A d \in decisions' : d = [alert |-> d.alert, entity |-> d.entity, status |-> d.status]
  BY <1>1 DEF FollowInv
<1> HIDE DEF Covered
<1> QED BY <1>8, <1>9, PaidInv

\* A lock that expires leaves its owner one more of those without it.
LEMMA FollowLose ==
  ASSUME FireInv, FireInv', FollowInv, LoseLock PROVE FollowInv'
<1>1. UNCHANGED <<givenUp, alerts, told, decisions, evaluator>> /\ mishaps' = mishaps + 1
  BY DEF LoseLock, Mishap
<1>2. Lost' \subseteq Lost /\ Owing' \subseteq Owing
  BY <1>1 DEF Lost, Owing, FollowedUp, InProgress
<1>3. Strays' \subseteq Strays \cup {owner}
  BY <1>1 DEF Strays, Active
<1>4. IsFiniteSet(Lost) /\ IsFiniteSet(Strays) /\ IsFiniteSet(Owing) /\ mishaps \in Nat
  BY CostFinite DEF FireInv, FollowInv
<1>5. Cardinality(Strays') <= Cardinality(Strays) + 1
  BY <1>3, <1>4, OneMore
<1>6. /\ Cardinality(Lost') <= Cardinality(Lost) /\ Cardinality(Owing') <= Cardinality(Owing)
      /\ Cardinality(Lost) \in Nat /\ Cardinality(Owing) \in Nat
      /\ Cardinality(Lost') \in Nat /\ Cardinality(Owing') \in Nat
  BY <1>2, <1>4, OneMore
<1>7. Covered(0, 1, 0)
  BY <1>1, <1>4, <1>5, <1>6 DEF Covered
<1>8. /\ \A a \in alerts' : a.id \in Nat /\ a.id <= Cardinality(alerts')
      /\ \A a, b \in alerts' : a.id = b.id => a = b
      /\ \A d \in decisions' : d = [alert |-> d.alert, entity |-> d.entity, status |-> d.status]
  BY <1>1 DEF FollowInv
<1> HIDE DEF Covered
<1> QED BY <1>7, <1>8, PaidInv

\* An approval, a first order, a new name and a new day lose nothing.
LEMMA FollowRest ==
  ASSUME FireInv, FireInv', FollowInv, UNCHANGED <<alerts, told, evaluator, owner, mishaps>>,
         givenUp \subseteq givenUp',
         UNCHANGED decisions \/ \E d \in decisions : Approve(d)
  PROVE  FollowInv'
<1>1. /\ \A d \in decisions : \E f \in decisions' : f.alert = d.alert
      /\ \A d \in decisions' : d = [alert |-> d.alert, entity |-> d.entity, status |-> d.status]
  <2>0. \A d \in decisions : d = [alert |-> d.alert, entity |-> d.entity, status |-> d.status]
    BY DEF FollowInv
  <2>1. CASE UNCHANGED decisions
    BY <2>0, <2>1
  <2>2. ASSUME NEW d \in decisions, Approve(d)
        PROVE  /\ \A x \in decisions : \E y \in decisions' : y.alert = x.alert
               /\ \A x \in decisions' : x = [alert |-> x.alert, entity |-> x.entity, status |-> x.status]
    <3>1. decisions' = (decisions \ {d}) \cup {[d EXCEPT !.status = "approved"]}
      BY <2>2 DEF Approve
    <3>2. PICK f : f = [d EXCEPT !.status = "approved"]
      OBVIOUS
    <3>3. f = [alert |-> f.alert, entity |-> f.entity, status |-> f.status] /\ f.alert = d.alert
      BY <2>0, <3>2
    <3> QED BY <2>0, <3>1, <3>2, <3>3
  <2> QED BY <2>1, <2>2
<1>2. \A a \in alerts : FollowedUp(a) => FollowedUp(a)'
  BY <1>1 DEF FollowedUp
<1>3. Lost' \subseteq Lost /\ Owing' \subseteq Owing /\ Strays' \subseteq Strays
  BY <1>2 DEF Lost, InProgress, Owing, Strays, Active
<1>4. IsFiniteSet(Lost) /\ IsFiniteSet(Strays) /\ IsFiniteSet(Owing) /\ mishaps \in Nat
  BY CostFinite DEF FireInv, FollowInv
<1>5. Covered(0, 0, 0)
  <2>1. /\ Cardinality(Lost') <= Cardinality(Lost) /\ Cardinality(Lost) \in Nat /\ Cardinality(Lost') \in Nat
        /\ Cardinality(Owing') <= Cardinality(Owing) /\ Cardinality(Owing) \in Nat
        /\ Cardinality(Owing') \in Nat
    BY <1>3, <1>4, OneMore
  <2>2. /\ Cardinality(Strays') <= Cardinality(Strays) /\ Cardinality(Strays) \in Nat
        /\ Cardinality(Strays') \in Nat
    BY <1>3, <1>4, OneMore
  <2>3. mishaps' = mishaps
    OBVIOUS
  <2> QED BY <1>4, <2>1, <2>2, <2>3 DEF Covered
<1>6. /\ \A a \in alerts' : a.id \in Nat /\ a.id <= Cardinality(alerts')
      /\ \A a, b \in alerts' : a.id = b.id => a = b
  BY DEF FollowInv
<1> HIDE DEF Covered
<1> QED BY <1>1, <1>5, <1>6, PaidInv

\* When the process dies, the alerts in progress are lost: one to each execution,
\* the owner's at the cost of this mishap, the others' at that of their locks.
LEMMA FollowDies ==
  ASSUME FireInv, FireInv', FollowInv, ProcessDies PROVE FollowInv'
<1> DEFINE held == {a \in alerts : InProgress(a)}
           holders == {w \in Evaluators : evaluator[w].pc = "notify"
                                          /\ \E a \in alerts : a.id = evaluator[w].alert}
           f == [w \in holders |-> CHOOSE a \in alerts : a.id = evaluator[w].alert]
<1>1. /\ evaluator' = [w \in Evaluators |-> Asleep] /\ mishaps' = mishaps + 1
      /\ UNCHANGED <<givenUp, alerts, told, decisions>>
  BY DEF ProcessDies, Mishap
<1>2. \A w \in Evaluators : evaluator'[w].pc = "idle"
  BY <1>1, AsleepShape
<1>3. Strays' = {} /\ Owing' = {}
  BY <1>2 DEF Strays, Active, Owing
<1>4. Lost' \subseteq Lost \cup held
  BY <1>1 DEF Lost, FollowedUp
<1>5. f \in Surjection(holders, held)
  <2>1. \A a1, a2 \in alerts : a1.id = a2.id => a1 = a2
    BY DEF FollowInv
  <2>2. \A w \in holders : f[w] \in held
    BY DEF InProgress
  <2>3. \A a \in held : \E w \in holders : f[w] = a
    BY <2>1 DEF InProgress
  <2> QED BY <2>2, <2>3 DEF Surjection
<1>6. IsFiniteSet(holders) /\ Cardinality(holders) <= Cardinality(Active)
  <2>1. holders \in SUBSET Active
    BY DEF Active
  <2> QED BY <2>1, Finite, FS_Subset
<1> HIDE DEF f, holders
<1>7. IsFiniteSet(held) /\ Cardinality(held) <= Cardinality(holders)
  BY <1>5, <1>6, FS_Surjection
<1> HIDE DEF held
<1>8. Cardinality(Active) <= Cardinality(Strays) + 1
  <2>1. Active \in SUBSET (Strays \cup {owner}) /\ IsFiniteSet(Strays)
    BY CostFinite DEF FireInv, Strays
  <2> QED BY <2>1, OneMore
<1>9. IsFiniteSet(Lost) /\ IsFiniteSet(Strays) /\ IsFiniteSet(Owing) /\ IsFiniteSet(Lost')
  BY CostFinite DEF FireInv
<1>10. /\ Cardinality(Lost) \in Nat /\ Cardinality(Strays) \in Nat /\ Cardinality(Owing) \in Nat
       /\ Cardinality(Lost') \in Nat /\ Cardinality(held) \in Nat /\ Cardinality(holders) \in Nat
       /\ Cardinality(Active) \in Nat
  BY <1>6, <1>7, <1>9, Finite, FS_CardinalityType
<1>11. Cardinality(Lost') <= Cardinality(Lost) + Cardinality(held)
  <2>1. /\ IsFiniteSet(Lost \cup held)
        /\ Cardinality(Lost \cup held) =
              Cardinality(Lost) + Cardinality(held) - Cardinality(Lost \cap held)
    BY <1>7, <1>9, FS_Union
  <2>2. Cardinality(Lost \cap held) \in Nat
    BY <1>9, FS_Intersection, FS_CardinalityType
  <2>3. Cardinality(Lost') <= Cardinality(Lost \cup held)
    BY <1>4, <2>1, FS_Subset
  <2> QED BY <1>10, <2>1, <2>2, <2>3
<1>12. Cardinality(Lost) + Cardinality(Strays) + Cardinality(Owing) <= mishaps /\ mishaps \in Nat
  BY DEF FollowInv
<1>13. Cardinality(Strays') = 0 /\ Cardinality(Owing') = 0
  BY <1>3, FS_EmptySet
<1>14. /\ mishaps' \in Nat
       /\ Cardinality(Lost') + Cardinality(Strays') + Cardinality(Owing') <= mishaps'
  BY <1>1, <1>6, <1>7, <1>8, <1>10, <1>11, <1>12, <1>13
<1> QED BY <1>1, <1>14 DEF FollowInv

LEMMA FollowStep ==
  ASSUME FireInv, NamesInv, FollowInv, [AlertNext]_alertVars PROVE FollowInv'
<1>1. FireInv'
  BY FireStep
<1> QED
  BY <1>1, FollowOther, FollowNotify, FollowInsert, FollowPropose, FollowFails, FollowLose,
     FollowDies, FollowRest
     DEF AlertNext, alertVars, FirstOrder, Rename, Midnight, Approve

\* runAlertEvaluation: for every number of executions, recipients and failures, a
\* failed call, a crash or a lost lock costs the follow-up of one alert at most;
\* nothing else does, but that a campaign has no name or was given another.
THEOREM FollowUpsHold == AlertSpec => []FollowUpsCostFaults
<1>1. AlertInit => FireInv /\ NamesInv /\ FollowInv
  <2> SUFFICES ASSUME AlertInit PROVE NamesInv /\ FollowInv
    BY FireInit
  <2>1. Lost = {} /\ Strays = {} /\ Owing = {}
    BY AsleepShape DEF AlertInit, Lost, Strays, Active, Owing
  <2>2. alerts = {} /\ decisions = {} /\ mishaps = 0
    BY DEF AlertInit
  <2>3. NamesInv
    BY AsleepNames, AlertAssumption, <2>2 DEF AlertInit, NamesInv
  <2> QED BY <2>1, <2>2, <2>3, FS_EmptySet DEF FollowInv
<1>2. AlertSpec => [](FireInv /\ NamesInv /\ FollowInv)
  BY <1>1, FireStep, NamesStep, FollowStep, PTL DEF AlertSpec
<1>3. FireInv /\ FollowInv => FollowUpsCostFaults
  <2> SUFFICES ASSUME FireInv, FollowInv PROVE Cardinality(Lost) <= mishaps
    BY DEF FollowUpsCostFaults, Lost
  <2>1. IsFiniteSet(Lost) /\ IsFiniteSet(Strays) /\ IsFiniteSet(Owing)
    <3>1. Lost \in SUBSET alerts /\ Strays \in SUBSET Evaluators /\ Owing \in SUBSET Evaluators
      BY DEF Lost, Strays, Active, Owing
    <3> QED BY <3>1, AlertAssumption, FS_Subset DEF FireInv
  <2>2. Cardinality(Lost) \in Nat /\ Cardinality(Strays) \in Nat /\ Cardinality(Owing) \in Nat
    BY <2>1, FS_CardinalityType
  <2> QED BY <2>2 DEF FollowInv
<1> QED BY <1>2, <1>3, PTL

-----------------------------------------------------------------------------
(* AlertWatch: what is stored and computed is well formed.                 *)

Costs == [campaign : AdNames, cost : Nat]
AlertIds == {a.id : a \in alerts}
Executions ==
    [pc : {"idle", "cost", "count", "check", "insert", "notify"}, day : AlertDays,
     rows : SUBSET Costs, todo : SUBSET Proposals, chosen : SUBSET Proposals,
     alert : Nat, left : SUBSET Recipients]

\* What an execution carries from one statement to the next.
Carries(e) == /\ e \in Executions
              /\ e.pc = "insert" => e.chosen # {}
              /\ e.pc = "notify" => e.alert \in AlertIds

CarryInv ==
    /\ AlertTypeOK /\ lostLocks \in Nat /\ IsFiniteSet(alerts)
    /\ DOMAIN evaluator = Evaluators /\ \A w \in Evaluators : Carries(evaluator[w])

LEMMA AsleepCarries == Carries(Asleep)
<1>1. 0 \in AlertDays
  BY AlertAssumption DEF AlertDays
<1> QED BY <1>1 DEF Carries, Executions, Asleep

\* First orders are counted, over whatever sources and days.
LEMMA OrdersType ==
  ASSUME AlertTypeOK, NEW S \in SUBSET Sources, NEW D \in SUBSET AlertDays
  PROVE  /\ OrdersOf(S, D) \in Nat
         /\ \A x \in S \X D : firstOrders[x] <= OrdersOf(S, D)
<1> DEFINE K == S \X D
<1>1. IsFiniteSet(K)
  <2>0. IsFiniteSet(AlertDays)
    BY AlertAssumption, FS_Interval DEF AlertDays
  <2>1. IsFiniteSet(Campaigns) /\ IsFiniteSet({Nil}) /\ IsFiniteSet(AlertDays)
    BY <2>0, AlertAssumption, FS_Singleton
  <2>2. IsFiniteSet(Sources)
    BY <2>1, FS_Union DEF Sources
  <2>3. IsFiniteSet(S) /\ IsFiniteSet(D)
    BY <2>1, <2>2, FS_Subset
  <2> QED BY <2>3, FS_Product
<1>2. \A x \in K : firstOrders[x] \in Nat
  BY AlertAssumption DEF AlertTypeOK
<1> HIDE DEF K
<1>3. MapThenSumSet(LAMBDA x : firstOrders[x], K) = Sum(firstOrders, K)
  BY <1>1, SumIsFold
<1>4. OrdersOf(S, D) = Sum(firstOrders, K)
  BY <1>3 DEF OrdersOf, K
<1>5. Sum(firstOrders, K) \in Nat
  BY <1>1, <1>2, SumType
<1>6. ASSUME NEW x \in K PROVE firstOrders[x] <= Sum(firstOrders, K)
  <2>1. {x} \in SUBSET K
    OBVIOUS
  <2>2. Sum(firstOrders, {x}) <= Sum(firstOrders, K)
    BY <1>1, <1>2, <2>1, SumMonotone
  <2> QED BY <1>2, <2>2, SumOne
<1> QED BY <1>4, <1>5, <1>6 DEF K

LEMMA Quotient ==
  ASSUME NEW a \in Nat, NEW b \in Nat, b > 0
  PROVE  a \div b \in Nat
BY Z3

LEMMA CostsType ==
  ASSUME AlertTypeOK, NEW day \in AlertDays
  PROVE  CostRows(day) \subseteq Costs
<1>1. 0..day \in SUBSET AlertDays
  BY AlertAssumption DEF AlertDays
<1>2. ASSUME NEW c \in Campaigns, OrdersOf({c}, 0..day) > 0
      PROVE  CampaignSpend[c] \div OrdersOf({c}, 0..day) \in Nat
  <2>1. {c} \in SUBSET Sources
    BY DEF Sources
  <2>2. OrdersOf({c}, 0..day) \in Nat
    BY <1>1, <2>1, OrdersType
  <2>3. CampaignSpend[c] \in Nat
    BY AlertAssumption
  <2> QED BY <1>2, <2>2, <2>3, Quotient
<1>3. ASSUME NEW r \in CostRows(day) PROVE r \in Costs
  <2>1. PICK c \in Campaigns : /\ OrdersOf({c}, 0..day) > 0
                              /\ r = [campaign |-> entityName[c], cost |-> CampaignSpend[c] \div OrdersOf({c}, 0..day)]
    BY DEF CostRows
  <2>2. CampaignSpend[c] \div OrdersOf({c}, 0..day) \in Nat
    BY <1>2, <2>1
  <2> QED BY <2>1, <2>2 DEF Costs, AlertTypeOK
<1> QED BY <1>3

LEMMA RulesType ==
  ASSUME NEW costs \in SUBSET Costs, NEW count \in Nat, NEW trailing
  PROVE  EvaluateRules(costs, count, trailing) \subseteq Proposals
BY DEF EvaluateRules, Proposals, Costs

\* An execution moves, no alert is inserted.
LEMMA CarryMove ==
  ASSUME CarryInv, NEW w \in Evaluators, NEW e, Step(w, e), Carries(e),
         UNCHANGED <<today, entityName, givenUp, renames, firstOrders, alerts>>,
         told' \subseteq AlertIds \X Recipients,
         decisions' \subseteq [alert : AlertIds, entity : Campaigns, status : {"proposed", "approved"}],
         owner' \in Evaluators \cup {Nil},
         lostLocks' \in Nat, lostLocks' <= mishaps', mishaps' \in 0..MaxMishaps
  PROVE  CarryInv'
<1>1. /\ DOMAIN evaluator' = Evaluators
      /\ \A v \in Evaluators : evaluator'[v] = e \/ evaluator'[v] = evaluator[v]
  BY DEF CarryInv, Step
<1>2. \A x : Carries(x)' <=> Carries(x)
  BY DEF Carries, AlertIds
<1>3. \A v \in Evaluators : Carries(evaluator'[v])
  BY <1>1 DEF CarryInv
<1>4. \A v \in Evaluators : Carries(evaluator[v])'
  BY <1>1, <1>2, <1>3 DEF CarryInv, Carries, AlertIds
<1>5. AlertTypeOK'
  BY <1>3 DEF CarryInv, AlertTypeOK, AlertIds, Carries, Executions
<1> QED BY <1>1, <1>4, <1>5 DEF CarryInv

LEMMA MishapType == CarryInv /\ Mishap => mishaps' \in 0..MaxMishaps /\ mishaps' = mishaps + 1
BY AlertAssumption DEF CarryInv, AlertTypeOK, Mishap

\* The execution moves and nothing else is written but the count of mishaps.
LEMMA CarryAlone ==
  ASSUME CarryInv, NEW w \in Evaluators, NEW e, Step(w, e), Carries(e),
         UNCHANGED <<today, entityName, givenUp, renames, firstOrders, alerts, told, decisions, lostLocks>>,
         owner' \in Evaluators \cup {Nil}, mishaps' = mishaps \/ Mishap
  PROVE  CarryInv'
<1>1. /\ told \subseteq AlertIds \X Recipients
      /\ decisions \subseteq [alert : AlertIds, entity : Campaigns, status : {"proposed", "approved"}]
      /\ lostLocks \in Nat /\ lostLocks <= mishaps /\ mishaps \in 0..MaxMishaps /\ MaxMishaps \in Nat
  BY AlertAssumption DEF CarryInv, AlertTypeOK, AlertIds
<1>2. mishaps' \in 0..MaxMishaps /\ lostLocks <= mishaps'
  <2>1. CASE mishaps' = mishaps
    BY <1>1, <2>1
  <2>2. CASE Mishap
    BY <1>1, <2>2, MishapType
  <2> QED BY <2>1, <2>2
<1> QED BY <1>1, <1>2, CarryMove

LEMMA CarryRead ==
  ASSUME CarryInv, NEW w \in Evaluators, ReadCosts(w) \/ CountFirstOrders(w) \/ CheckFired(w)
  PROVE  CarryInv'
<1> DEFINE e == evaluator[w]
<1>0. e \in Executions /\ Carries(e) /\ AlertTypeOK /\ owner \in Evaluators \cup {Nil}
  BY DEF CarryInv, Carries, AlertTypeOK
<1>1. CASE ReadCosts(w)
  <2>1. CostRows(e.day) \in SUBSET Costs
    BY <1>0, CostsType DEF Executions
  <2>2. Carries([e EXCEPT !.pc = "count", !.rows = CostRows(e.day)])
    BY <1>0, <2>1 DEF Carries, Executions
  <2>3. Step(w, [e EXCEPT !.pc = "count", !.rows = CostRows(e.day)])
        /\ UNCHANGED <<today, entityName, givenUp, renames, firstOrders, alerts, told, decisions, owner, lostLocks, mishaps>>
    BY <1>1 DEF ReadCosts
  <2> QED BY <1>0, <2>2, <2>3, CarryAlone
<1>2. CASE CountFirstOrders(w)
  <2> DEFINE rules == EvaluateRules(e.rows, OrdersOf(Sources, {e.day}),
                                    TrailingOrders + OrdersOf(Sources, 0..(e.day - 1)))
             next == [e EXCEPT !.pc = "check", !.rows = {}, !.todo = rules]
  <2>1. e.rows \in SUBSET Costs /\ {e.day} \in SUBSET AlertDays
    BY <1>0 DEF Executions
  <2>2. OrdersOf(Sources, {e.day}) \in Nat
    BY <1>0, <2>1, OrdersType
  <2>3. rules \in SUBSET Proposals
    BY <2>1, <2>2, RulesType
  <2>4. Step(w, next)
        /\ UNCHANGED <<today, entityName, givenUp, renames, firstOrders, alerts, told, decisions, owner, lostLocks, mishaps>>
    BY <1>2 DEF CountFirstOrders
  <2> HIDE DEF rules
  <2>5. Carries(next)
    BY <1>0, <2>3 DEF Carries, Executions
  <2> HIDE DEF next
  <2> QED BY <1>0, <2>4, <2>5, CarryAlone
<1>3. CASE CheckFired(w)
  <2>1. PICK p \in e.todo :
          Step(w, IF AlreadyFired(p) THEN [e EXCEPT !.todo = e.todo \ {p}]
                  ELSE [e EXCEPT !.pc = "insert", !.chosen = {p}])
    BY <1>3 DEF CheckFired
  <2>2. p \in Proposals /\ e.todo \ {p} \in SUBSET Proposals
    BY <1>0 DEF Executions
  <2>3. Carries([e EXCEPT !.todo = e.todo \ {p}])
    BY <1>0, <2>2, <1>3 DEF Carries, Executions
  <2>4. Carries([e EXCEPT !.pc = "insert", !.chosen = {p}])
    BY <1>0, <2>2 DEF Carries, Executions
  <2> DEFINE next == IF AlreadyFired(p) THEN [e EXCEPT !.todo = e.todo \ {p}]
                     ELSE [e EXCEPT !.pc = "insert", !.chosen = {p}]
  <2>5. Carries(next)
    BY <2>3, <2>4
  <2>6. UNCHANGED <<today, entityName, givenUp, renames, firstOrders, alerts, told, decisions, owner, lostLocks, mishaps>>
    BY <1>3 DEF CheckFired
  <2>7. Step(w, next)
    BY <2>1
  <2> HIDE DEF next
  <2> QED BY <1>0, <2>5, <2>6, <2>7, CarryAlone
<1> QED BY <1>1, <1>2, <1>3

\* The alert has the next number.
LEMMA CarryInsert ==
  ASSUME CarryInv, NEW w \in Evaluators, InsertAlert(w)
  PROVE  CarryInv'
<1> DEFINE e == evaluator[w]
           id == Cardinality(alerts) + 1
           p == CHOOSE x \in e.chosen : TRUE
           a == AlertOf(p, id)
           next == [e EXCEPT !.pc = "notify", !.alert = id, !.left = Recipients,
                             !.chosen = {}, !.todo = e.todo \ {p}]
<1>1. /\ e.pc = "insert" /\ alerts' = alerts \cup {a} /\ Step(w, next)
      /\ UNCHANGED <<today, entityName, givenUp, renames, firstOrders, told, decisions, owner, lostLocks, mishaps>>
  BY DEF InsertAlert
<1>2. /\ Carries(e) /\ AlertTypeOK /\ IsFiniteSet(alerts) /\ Cardinality(alerts) \in Nat
      /\ today \in AlertDays
  BY FS_CardinalityType DEF CarryInv, AlertTypeOK
<1>3. p \in Proposals
  BY <1>1, <1>2 DEF Carries, Executions
<1>4. a.proposal = p /\ a.day = today /\ a.id = id /\ id \in Nat
  BY <1>2 DEF AlertOf
<1>5. a \notin alerts
  BY <1>2, <1>4 DEF AlertTypeOK
<1> HIDE DEF a, p
<1>6. IsFiniteSet(alerts') /\ Cardinality(alerts') = id
  BY <1>1, <1>2, <1>5, FS_AddElement
<1>7. AlertIds' = AlertIds \cup {id} /\ AlertIds \subseteq AlertIds'
  BY <1>1, <1>4 DEF AlertIds
<1>8. \A x \in alerts' : x.proposal \in Proposals /\ x.day \in AlertDays /\ x.id \in 1..Cardinality(alerts')
  <2> TAKE x \in alerts'
  <2>1. CASE x \in alerts
    <3>1. x.proposal \in Proposals /\ x.day \in AlertDays /\ x.id \in 1..Cardinality(alerts)
      BY <1>2, <2>1 DEF AlertTypeOK
    <3> QED BY <1>2, <1>6, <3>1
  <2>2. CASE x = a
    BY <1>2, <1>3, <1>4, <1>6, <2>2
  <2> QED BY <1>1, <2>1, <2>2
<1>9. /\ next \in Executions /\ next.pc = "notify" /\ next.alert = id
      /\ next.todo \subseteq Proposals /\ next.left \subseteq Recipients
  BY <1>2, <1>4 DEF Carries, Executions
<1> HIDE DEF next
<1>10. /\ DOMAIN evaluator' = Evaluators
       /\ \A v \in Evaluators : evaluator'[v] = next \/ evaluator'[v] = evaluator[v]
  BY <1>1 DEF CarryInv, Step
<1>11. \A v \in Evaluators : /\ evaluator'[v] \in Executions
                             /\ evaluator'[v].pc = "insert" => evaluator'[v].chosen # {}
                             /\ evaluator'[v].pc = "notify" => evaluator'[v].alert \in AlertIds'
  <2> TAKE v \in Evaluators
  <2>1. CASE evaluator'[v] = next
    BY <1>7, <1>9, <2>1
  <2>2. CASE evaluator'[v] = evaluator[v]
    BY <1>7, <2>2 DEF CarryInv, Carries
  <2> QED BY <1>10, <2>1, <2>2
<1>12. told' \subseteq AlertIds' \X Recipients
       /\ decisions' \subseteq [alert : AlertIds', entity : Campaigns, status : {"proposed", "approved"}]
  BY <1>1, <1>2, <1>7 DEF AlertTypeOK, AlertIds
<1>13. AlertTypeOK'
  BY <1>1, <1>2, <1>8, <1>11, <1>12 DEF AlertTypeOK, AlertIds, Executions
<1>14. \A v \in Evaluators : Carries(evaluator[v])'
  BY <1>11 DEF Carries
<1> QED BY <1>1, <1>6, <1>10, <1>13, <1>14 DEF CarryInv

LEMMA CarryNotify ==
  ASSUME CarryInv, NEW w \in Evaluators, Notify(w)
  PROVE  CarryInv'
<1> DEFINE e == evaluator[w]
<1>1. PICK r \in e.left :
        /\ \/ told' = told \cup {<<e.alert, r>>} /\ UNCHANGED mishaps
           \/ Mishap /\ UNCHANGED told
        /\ Step(w, [e EXCEPT !.left = e.left \ {r}])
  BY DEF Notify
<1>2. e.pc = "notify" /\ UNCHANGED <<today, entityName, givenUp, renames, firstOrders, alerts, decisions, owner, lostLocks>>
  BY DEF Notify
<1>3. Carries(e) /\ AlertTypeOK /\ lostLocks \in Nat
  BY DEF CarryInv
<1>4. e.alert \in AlertIds /\ r \in Recipients /\ Carries([e EXCEPT !.left = e.left \ {r}])
  BY <1>2, <1>3 DEF Carries, Executions
<1>5. /\ told \subseteq AlertIds \X Recipients
      /\ decisions \subseteq [alert : AlertIds, entity : Campaigns, status : {"proposed", "approved"}]
      /\ lostLocks <= mishaps /\ mishaps \in 0..MaxMishaps /\ MaxMishaps \in Nat
      /\ owner \in Evaluators \cup {Nil}
  BY <1>3, AlertAssumption DEF AlertTypeOK, AlertIds
<1>6. told' \subseteq AlertIds \X Recipients
  BY <1>1, <1>4, <1>5
<1>7. mishaps' \in 0..MaxMishaps /\ lostLocks <= mishaps'
  <2>1. CASE UNCHANGED mishaps
    BY <1>5, <2>1
  <2>2. CASE Mishap
    BY <1>3, <1>5, <2>2, MishapType
  <2> QED BY <1>1, <2>1, <2>2
<1> QED BY <1>1, <1>2, <1>3, <1>4, <1>5, <1>6, <1>7, CarryMove

LEMMA CarryPropose ==
  ASSUME CarryInv, NEW w \in Evaluators, Propose(w)
  PROVE  CarryInv'
<1> DEFINE e == evaluator[w]
<1>1. /\ e.pc = "notify" /\ Step(w, [e EXCEPT !.pc = "check", !.alert = 0])
      /\ UNCHANGED <<today, entityName, givenUp, renames, firstOrders, alerts, told, owner, lostLocks, mishaps>>
      /\ \/ UNCHANGED decisions
         \/ \E c \in Campaigns : decisions' = decisions \cup
               {[alert |-> e.alert, entity |-> c, status |-> "proposed"]}
  BY DEF Propose
<1>2. Carries(e) /\ AlertTypeOK /\ lostLocks \in Nat
  BY DEF CarryInv
<1>3. e.alert \in AlertIds /\ Carries([e EXCEPT !.pc = "check", !.alert = 0])
  BY <1>1, <1>2 DEF Carries, Executions
<1>4. /\ told \subseteq AlertIds \X Recipients
      /\ decisions \subseteq [alert : AlertIds, entity : Campaigns, status : {"proposed", "approved"}]
      /\ lostLocks <= mishaps /\ mishaps \in 0..MaxMishaps
      /\ owner \in Evaluators \cup {Nil}
  BY <1>2 DEF AlertTypeOK, AlertIds
<1>5. decisions' \subseteq [alert : AlertIds, entity : Campaigns, status : {"proposed", "approved"}]
  BY <1>1, <1>3, <1>4
<1> QED BY <1>1, <1>2, <1>3, <1>4, <1>5, CarryMove

LEMMA CarryEnds ==
  ASSUME CarryInv, NEW w \in Evaluators,
         StartEvaluation(w) \/ FinishEvaluation(w) \/ EvaluationFails(w)
  PROVE  CarryInv'
<1>1. today \in AlertDays /\ owner \in Evaluators \cup {Nil}
  BY DEF CarryInv, AlertTypeOK
<1>2. CASE StartEvaluation(w)
  <2>1. Carries([Asleep EXCEPT !.pc = "cost", !.day = today])
    BY <1>1, AsleepCarries DEF Carries, Executions
  <2> QED BY <1>2, <2>1, CarryAlone DEF StartEvaluation
<1>3. CASE FinishEvaluation(w) \/ EvaluationFails(w)
  BY <1>1, <1>3, AsleepCarries, CarryAlone DEF FinishEvaluation, EvaluationFails, Release
<1> QED BY <1>2, <1>3

\* Steps of the world, of the queue and of whoever approves.
LEMMA CarryRest ==
  ASSUME CarryInv,
         \/ \E c \in Sources : FirstOrder(c)
         \/ \E c \in Campaigns : Rename(c)
         \/ Midnight \/ ProcessDies \/ LoseLock
         \/ \E d \in decisions : Approve(d)
         \/ UNCHANGED alertVars
  PROVE  CarryInv'
<1>0. AlertTypeOK /\ lostLocks \in Nat
  BY DEF CarryInv
<1>1. ASSUME NEW c \in Sources, FirstOrder(c) PROVE CarryInv'
  <2>1. today \in AlertDays /\ <<c, today>> \in Sources \X AlertDays
    BY <1>0 DEF AlertTypeOK
  <2>2. firstOrders[<<c, today>>] + 1 \in 0..MaxFirstOrders
    <3>1. firstOrders[<<c, today>>] <= OrdersOf(Sources, AlertDays) /\ OrdersOf(Sources, AlertDays) \in Nat
      BY <1>0, <2>1, OrdersType
    <3>2. OrdersOf(Sources, AlertDays) < MaxFirstOrders /\ firstOrders[<<c, today>>] \in 0..MaxFirstOrders
      BY <1>0, <1>1, <2>1 DEF FirstOrder, AlertTypeOK
    <3> QED BY <3>1, <3>2, AlertAssumption
  <2>3. firstOrders' \in [Sources \X AlertDays -> 0..MaxFirstOrders]
    BY <1>0, <1>1, <2>2 DEF FirstOrder, AlertTypeOK
  <2>4. UNCHANGED <<today, entityName, givenUp, renames, alerts, told, decisions, evaluator, owner,
                 lostLocks, mishaps>>
    BY <1>1 DEF FirstOrder
  <2> QED BY <2>3, <2>4 DEF CarryInv, AlertTypeOK, Carries, AlertIds
<1>2. CASE Midnight
  <2>1. today' \in AlertDays
    BY <1>0, <1>2, AlertAssumption DEF Midnight, AlertTypeOK, AlertDays
  <2> QED BY <1>2, <2>1 DEF Midnight, CarryInv, AlertTypeOK, Carries, AlertIds
<1>3. CASE ProcessDies
  <2>1. /\ evaluator' = [w \in Evaluators |-> Asleep] /\ owner' = Nil
        /\ UNCHANGED <<today, entityName, givenUp, renames, firstOrders, alerts, told, decisions, lostLocks>>
        /\ mishaps' \in 0..MaxMishaps /\ mishaps' = mishaps + 1
    BY <1>3, MishapType DEF ProcessDies
  <2>2. lostLocks <= mishaps'
    BY <1>0, <2>1 DEF AlertTypeOK
  <2>3. Carries(Asleep)' /\ Asleep \in Executions
    BY <2>1, AsleepCarries DEF Carries, AlertIds
  <2>4. /\ DOMAIN evaluator' = Evaluators
        /\ \A w \in Evaluators : evaluator'[w] = Asleep /\ Carries(evaluator[w])'
    BY <2>1, <2>3 DEF Carries
  <2>5. AlertTypeOK'
    BY <1>0, <2>1, <2>2, <2>3, <2>4 DEF AlertTypeOK, Executions
  <2> QED BY <2>1, <2>4, <2>5 DEF CarryInv
<1>4. CASE LoseLock
  <2>1. /\ owner' = Nil /\ lostLocks' = lostLocks + 1
        /\ UNCHANGED <<today, entityName, givenUp, renames, firstOrders, alerts, told, decisions, evaluator>>
        /\ mishaps' \in 0..MaxMishaps /\ mishaps' = mishaps + 1
    BY <1>4, MishapType DEF LoseLock
  <2>2. lostLocks' <= mishaps' /\ lostLocks' \in Nat
    BY <1>0, <2>1 DEF AlertTypeOK
  <2> QED BY <2>1, <2>2 DEF CarryInv, AlertTypeOK, Carries, AlertIds
<1>5. ASSUME NEW d \in decisions, Approve(d) PROVE CarryInv'
  <2>1. decisions' \subseteq [alert : AlertIds, entity : Campaigns, status : {"proposed", "approved"}]
    BY <1>0, <1>5 DEF Approve, AlertTypeOK, AlertIds
  <2>2. UNCHANGED <<today, entityName, givenUp, renames, firstOrders, alerts, told, evaluator, owner, lostLocks, mishaps>>
    BY <1>5 DEF Approve
  <2> QED BY <2>1, <2>2 DEF CarryInv, AlertTypeOK, Carries, AlertIds
<1>7. ASSUME NEW c \in Campaigns, Rename(c) PROVE CarryInv'
  <2>1. entityName \in [Campaigns -> AdNames] /\ givenUp \subseteq AdNames
        /\ renames \in 0..MaxMishaps /\ mishaps \in 0..MaxMishaps
    BY <1>0 DEF AlertTypeOK
  <2>2. renames' \in 0..MaxMishaps
    BY <1>7, <2>1, AlertAssumption DEF Rename
  <2>3. PICK n \in AdNames : entityName' = [entityName EXCEPT ![c] = n]
    BY <1>7 DEF Rename
  <2>4. entityName' \in [Campaigns -> AdNames]
    BY <2>1, <2>3
  <2>5. givenUp' \subseteq AdNames
    BY <1>7, <2>1 DEF Rename
  <2>6. UNCHANGED <<today, firstOrders, alerts, told, decisions, evaluator, owner, lostLocks, mishaps>>
    BY <1>7 DEF Rename
  <2> QED BY <1>0, <2>2, <2>4, <2>5, <2>6 DEF CarryInv, AlertTypeOK, Carries, AlertIds
<1>6. CASE UNCHANGED alertVars
  BY <1>6 DEF alertVars, CarryInv, AlertTypeOK, Carries, AlertIds
<1> QED BY <1>1, <1>2, <1>3, <1>4, <1>5, <1>6, <1>7

\* The tables of alerts, messages and decisions refer to one another's rows, and
\* what an execution proposes comes from the rules.
THEOREM AlertTypes == AlertSpec => []AlertTypeOK
<1>1. AlertInit => CarryInv
  <2> SUFFICES ASSUME AlertInit PROVE CarryInv
    OBVIOUS
  <2>1. DOMAIN evaluator = Evaluators /\ \A w \in Evaluators : evaluator[w] = Asleep
    BY DEF AlertInit
  <2>2. \A w \in Evaluators : evaluator[w] \in Executions
    BY <2>1, AsleepCarries DEF Carries
  <2>3. 0 \in AlertDays /\ 0 \in 0..MaxFirstOrders /\ 0 \in 0..MaxMishaps
    BY AlertAssumption DEF AlertDays
  <2>4. entityName \in [Campaigns -> AdNames]
    BY AlertAssumption DEF AlertInit
  <2>5. AlertTypeOK
    BY <2>2, <2>3, <2>4 DEF AlertInit, AlertTypeOK, Executions
  <2> QED BY <2>1, <2>5, AsleepCarries, FS_EmptySet DEF CarryInv, AlertInit
<1>2. CarryInv /\ [AlertNext]_alertVars => CarryInv'
  BY CarryRead, CarryInsert, CarryNotify, CarryPropose, CarryEnds, CarryRest DEF AlertNext
<1>3. CarryInv => AlertTypeOK
  BY DEF CarryInv
<1> QED BY <1>1, <1>2, <1>3, PTL DEF AlertSpec

-----------------------------------------------------------------------------
(* GeoRun: every answer is stored once and reported.                       *)

Busy == {"next", "asking", "answered"}
LaneStates == [pc : {"free", "next", "asking", "answered", "over"},
               engine : DOMAIN Engines, question : 1..(Len(Questions) + 1)]

\* A cell nothing has become of, and one that was answered or skipped.
Unasked(r, e, q) == observed[<<r, e, q>>] = 0 /\ <<r, e, q>> \notin skipped
Settled(r, e, q) ==
    \/ observed[<<r, e, q>>] = 1 /\ <<r, e, q>> \notin skipped
    \/ observed[<<r, e, q>>] = 0 /\ <<r, e, q>> \in skipped

\* A lane has settled the questions of its engine up to the one it is at.
LaneInv(r, l) ==
    /\ lane[<<r, l>>].pc \in Busy =>
          /\ lane[<<r, l>>].engine < nextEngine[r]
          /\ \A q \in DOMAIN Questions :
                IF q < lane[<<r, l>>].question THEN Settled(r, lane[<<r, l>>].engine, q)
                ELSE Unasked(r, lane[<<r, l>>].engine, q)
    /\ lane[<<r, l>>].pc \in {"asking", "answered"} => lane[<<r, l>>].question \in DOMAIN Questions

BusyAt(r, l, e) == lane[<<r, l>>].pc \in Busy /\ lane[<<r, l>>].engine = e

\* The engines of a run: those not taken, each with one lane at most, and in a
\* run nothing has failed in, those left behind settled.
RunInv(r) ==
    /\ geoRun[r] = "none" =>
          /\ nextEngine[r] = 1 /\ ~aborted[r]
          /\ \A l \in Lanes : lane[<<r, l>>].pc = "over"
    /\ \A l \in Lanes : LaneInv(r, l)
    /\ \A l, m \in Lanes : \A e : BusyAt(r, l, e) /\ BusyAt(r, m, e) => l = m
    /\ \A e \in DOMAIN Engines, q \in DOMAIN Questions :
          /\ Unasked(r, e, q) \/ Settled(r, e, q)
          /\ e >= nextEngine[r] => Unasked(r, e, q)
    /\ geoRun[r] \in {"running", "done"} =>
          /\ ~aborted[r]
          /\ \A e \in DOMAIN Engines :
                e < nextEngine[r] =>
                   \/ \E l \in Lanes : BusyAt(r, l, e)
                   \/ \A q \in DOMAIN Questions : Settled(r, e, q)
    /\ geoRun[r] = "running" =>
          \A l \in Lanes : lane[<<r, l>>].pc = "over" => nextEngine[r] > Len(Engines)
    /\ geoRun[r] = "done" =>
          nextEngine[r] > Len(Engines) /\ \A l \in Lanes : lane[<<r, l>>].pc = "over"

\* The runs follow one another, each after the failure of the one before it.
Attempts ==
    \A r \in GeoRuns :
       /\ geoRun[r] # "none" => r <= 1 + outages
       /\ geoRun[r] = "failed" => r <= outages
       /\ \A s \in GeoRuns : s > r /\ geoRun[s] # "none" => geoRun[r] = "failed"

GeoInv == GeoTypeOK /\ Attempts /\ \A r \in GeoRuns : RunInv(r)

-----------------------------------------------------------------------------
(* What a step leaves alone.                                               *)

LEMMA Bounds == /\ DOMAIN Engines = 1..Len(Engines) /\ Len(Engines) \in Nat \ {0}
                /\ DOMAIN Questions = 1..Len(Questions) /\ Len(Questions) \in Nat \ {0}
                /\ Lanes # {} /\ MaxOutages \in Nat /\ GeoRuns \subseteq Nat
BY GeoAssumption DEF GeoRuns

LEMMA RunKept ==
  ASSUME GeoInv, NEW s \in GeoRuns,
         geoRun'[s] = geoRun[s], aborted'[s] = aborted[s], nextEngine'[s] = nextEngine[s],
         \A l \in Lanes : lane'[<<s, l>>] = lane[<<s, l>>],
         \A e \in DOMAIN Engines, q \in DOMAIN Questions :
            /\ observed'[<<s, e, q>>] = observed[<<s, e, q>>]
            /\ <<s, e, q>> \in skipped' <=> <<s, e, q>> \in skipped
  PROVE  RunInv(s)'
<1>1. \A e \in DOMAIN Engines, q \in DOMAIN Questions :
         (Unasked(s, e, q)' <=> Unasked(s, e, q)) /\ (Settled(s, e, q)' <=> Settled(s, e, q))
  BY DEF Unasked, Settled
<1>2. \A l \in Lanes : /\ lane[<<s, l>>].engine \in DOMAIN Engines
                       /\ \A e : BusyAt(s, l, e)' <=> BusyAt(s, l, e)
  BY DEF GeoInv, GeoTypeOK, BusyAt
<1>3. ASSUME NEW l \in Lanes PROVE LaneInv(s, l)'
  BY <1>1, <1>2 DEF GeoInv, RunInv, LaneInv
<1>4. RunInv(s)
  BY DEF GeoInv
<1> QED BY <1>1, <1>2, <1>3, <1>4 DEF RunInv

\* One lane gets a new state.
LEMMA LaneMoves ==
  ASSUME GeoInv, NEW r \in GeoRuns, NEW l \in Lanes, NEW k \in LaneStates,
         lane' = [lane EXCEPT ![<<r, l>>] = k]
  PROVE  /\ lane' \in [GeoRuns \X Lanes -> LaneStates] /\ lane'[<<r, l>>] = k
         /\ \A s \in GeoRuns, m \in Lanes : s # r \/ m # l => lane'[<<s, m>>] = lane[<<s, m>>]
<1>1. lane \in [GeoRuns \X Lanes -> LaneStates] /\ <<r, l>> \in GeoRuns \X Lanes
  BY DEF GeoInv, GeoTypeOK, LaneStates
<1>2. \A s \in GeoRuns, m \in Lanes : <<s, m>> \in GeoRuns \X Lanes /\ (s # r \/ m # l => <<s, m>> # <<r, l>>)
  OBVIOUS
<1> QED BY <1>1, <1>2

LEMMA LaneType ==
  ASSUME GeoInv, NEW r \in GeoRuns, NEW l \in Lanes
  PROVE  lane[<<r, l>>] \in LaneStates
BY DEF GeoInv, GeoTypeOK, LaneStates

-----------------------------------------------------------------------------
(* The steps of a lane.                                                    *)

\* A lane goes on with its question, or, its engine settled or its run aborted,
\* leaves it, or is over once no engine is left.
LEMMA LaneGoesOn ==
  ASSUME GeoInv, NEW r \in GeoRuns, NEW l \in Lanes, NEW k \in LaneStates,
         lane' = [lane EXCEPT ![<<r, l>>] = k],
         UNCHANGED <<geoRun, aborted, nextEngine, observed, skipped, outages>>,
         lane[<<r, l>>].pc # "over",
         k.pc \in Busy => /\ lane[<<r, l>>].pc \in Busy /\ k.engine = lane[<<r, l>>].engine
                          /\ k.question = lane[<<r, l>>].question,
         k.pc \in {"asking", "answered"} => k.question \in DOMAIN Questions,
         k.pc = "free" => lane[<<r, l>>].pc = "next" /\
                             (aborted[r] \/ lane[<<r, l>>].question > Len(Questions)),
         k.pc = "over" => lane[<<r, l>>].pc = "free" /\ nextEngine[r] > Len(Engines)
  PROVE  GeoInv'
<1>1. /\ lane' \in [GeoRuns \X Lanes -> LaneStates] /\ lane'[<<r, l>>] = k
      /\ \A s \in GeoRuns, m \in Lanes : s # r \/ m # l => lane'[<<s, m>>] = lane[<<s, m>>]
  BY LaneMoves
<1>2. GeoTypeOK' /\ Attempts'
  BY <1>1 DEF GeoInv, GeoTypeOK, LaneStates, Attempts
<1>3. \A s \in GeoRuns \ {r} : RunInv(s)'
  BY <1>1, RunKept
<1>4. RunInv(r)'
  <2>1. \A e, q : (Unasked(r, e, q)' <=> Unasked(r, e, q)) /\ (Settled(r, e, q)' <=> Settled(r, e, q))
    BY DEF Unasked, Settled
  <2>2. \A m \in Lanes : \A e : BusyAt(r, m, e)' => BusyAt(r, m, e)
    BY <1>1 DEF BusyAt
  <2>3. ASSUME NEW m \in Lanes PROVE LaneInv(r, m)'
    <3>1. LaneInv(r, m) /\ LaneInv(r, l)
      BY DEF GeoInv, RunInv
    <3>2. CASE m = l
      BY <1>1, <2>1, <3>1, <3>2 DEF LaneInv
    <3>3. CASE m # l
      BY <1>1, <2>1, <3>1, <3>3 DEF LaneInv
    <3> QED BY <3>2, <3>3
  <2>4. ASSUME NEW e \in DOMAIN Engines, geoRun[r] \in {"running", "done"}, e < nextEngine[r],
               NEW m \in Lanes, BusyAt(r, m, e)
        PROVE  BusyAt(r, m, e)' \/ \A q \in DOMAIN Questions : Settled(r, e, q)
    <3>1. CASE m = l /\ k.pc \in Busy
      BY <1>1, <2>4, <3>1 DEF BusyAt
    <3>2. CASE m = l /\ k.pc \notin Busy
      <4>1. k.pc = "free" /\ ~aborted[r] /\ LaneInv(r, l)
        BY <2>4, <3>2 DEF BusyAt, LaneStates, Busy, GeoInv, RunInv
      <4>2. lane[<<r, l>>] \in LaneStates /\ lane[<<r, l>>].question > Len(Questions)
        BY <4>1, LaneType
      <4>3. \A q \in DOMAIN Questions : q < lane[<<r, l>>].question
        BY <4>2, Bounds DEF LaneStates
      <4> QED BY <2>4, <3>2, <4>1, <4>3 DEF BusyAt, LaneInv
    <3>3. CASE m # l
      BY <1>1, <2>4, <3>3 DEF BusyAt
    <3> QED BY <3>1, <3>2, <3>3
  <2>5. RunInv(r)
    BY DEF GeoInv
  <2>6. geoRun[r] \in {"running", "done"} =>
          /\ ~aborted[r]
          /\ \A e \in DOMAIN Engines :
                e < nextEngine[r] =>
                   \/ \E m \in Lanes : BusyAt(r, m, e)'
                   \/ \A q \in DOMAIN Questions : Settled(r, e, q)
    BY <2>4, <2>5 DEF RunInv
  <2>7. geoRun[r] # "none" /\ geoRun[r] # "done"
    BY <2>5 DEF RunInv
  <2>8. \A m \in Lanes : lane'[<<r, m>>].pc = "over" /\ geoRun[r] = "running" =>
           nextEngine[r] > Len(Engines)
    BY <1>1, <2>5 DEF RunInv
  <2> QED BY <2>1, <2>2, <2>3, <2>5, <2>6, <2>7, <2>8 DEF RunInv
<1> QED BY <1>2, <1>3, <1>4 DEF GeoInv

LEMMA AskInv ==
  ASSUME GeoInv, NEW r \in GeoRuns, NEW l \in Lanes, Ask(r, l) PROVE GeoInv'
<1> DEFINE e == lane[<<r, l>>]
           k == IF aborted[r] \/ e.question > Len(Questions) THEN Free
                ELSE [e EXCEPT !.pc = "asking"]
<1>1. lane' = [lane EXCEPT ![<<r, l>>] = k] /\ e.pc = "next"
      /\ UNCHANGED <<geoRun, aborted, nextEngine, observed, skipped, outages>>
  BY LaneType DEF Ask
<1>2. e \in LaneStates
  BY LaneType
<1>3. k \in LaneStates
  BY <1>2, Bounds DEF LaneStates, Free
<1>4. \/ k = Free /\ (aborted[r] \/ e.question > Len(Questions))
      \/ /\ k.pc = "asking" /\ k.engine = e.engine /\ k.question = e.question
         /\ e.question \in DOMAIN Questions
  BY <1>2, Bounds DEF LaneStates
<1> HIDE DEF k
<1> QED BY <1>1, <1>3, <1>4, LaneGoesOn DEF Free, Busy

LEMMA AnsweredInv ==
  ASSUME GeoInv, NEW r \in GeoRuns, NEW l \in Lanes, Answered(r, l) PROVE GeoInv'
<1> DEFINE e == lane[<<r, l>>]
           k == [e EXCEPT !.pc = "answered"]
<1>1. e.pc = "asking" /\ UNCHANGED <<geoRun, aborted, nextEngine, observed, skipped, outages>>
      /\ e \in LaneStates
  BY LaneType DEF Answered
<1>2. lane' = [lane EXCEPT ![<<r, l>>] = k]
  BY LaneType DEF Answered
<1>3. k \in LaneStates /\ k.pc = "answered" /\ k.engine = e.engine /\ k.question = e.question
  BY <1>1 DEF LaneStates
<1>4. e.question \in DOMAIN Questions
  BY <1>1 DEF GeoInv, RunInv, LaneInv
<1> HIDE DEF k
<1> QED BY <1>1, <1>2, <1>3, <1>4, LaneGoesOn DEF Busy

LEMMA TakeEngineInv ==
  ASSUME GeoInv, NEW r \in GeoRuns, NEW l \in Lanes, TakeEngine(r, l) PROVE GeoInv'
<1>1. /\ lane[<<r, l>>].pc = "free" /\ UNCHANGED <<geoRun, aborted, observed, skipped, outages>>
      /\ nextEngine[r] \in 1..(Len(Engines) + 1) /\ Len(Engines) \in Nat
  BY LaneType, Bounds DEF TakeEngine, GeoInv, GeoTypeOK
<1>2. CASE nextEngine[r] > Len(Engines)
  <2>1. Over \in LaneStates /\ Over.pc = "over"
    BY Bounds DEF Over, Free, LaneStates
  <2> QED BY <1>1, <1>2, <2>1, LaneGoesOn DEF TakeEngine, Busy
<1>3. CASE ~(nextEngine[r] > Len(Engines))
  <2> DEFINE k == [pc |-> "next", engine |-> nextEngine[r], question |-> 1]
  <2>1. /\ lane' = [lane EXCEPT ![<<r, l>>] = k]
        /\ nextEngine' = [nextEngine EXCEPT ![r] = nextEngine[r] + 1]
    BY <1>3 DEF TakeEngine
  <2>2. k \in LaneStates /\ k.pc = "next" /\ k.engine = nextEngine[r] /\ k.question = 1
    BY <1>1, <1>3, Bounds DEF LaneStates
  <2> HIDE DEF k
  <2>3. /\ lane' \in [GeoRuns \X Lanes -> LaneStates] /\ lane'[<<r, l>>] = k
        /\ \A s \in GeoRuns, m \in Lanes : s # r \/ m # l => lane'[<<s, m>>] = lane[<<s, m>>]
    BY <2>1, <2>2, LaneMoves
  <2>4. /\ nextEngine' \in [GeoRuns -> 1..(Len(Engines) + 1)] /\ nextEngine'[r] = nextEngine[r] + 1
        /\ \A s \in GeoRuns \ {r} : nextEngine'[s] = nextEngine[s]
    BY <1>1, <1>3, <2>1 DEF GeoInv, GeoTypeOK
  <2>5. GeoTypeOK' /\ Attempts'
    BY <1>1, <2>3, <2>4 DEF GeoInv, GeoTypeOK, LaneStates, Attempts
  <2>6. \A s \in GeoRuns \ {r} : RunInv(s)'
    BY <1>1, <2>3, <2>4, RunKept
  <2>7. RunInv(r)
    BY DEF GeoInv
  <2>8. RunInv(r)'
    <3>1. \A e, q : (Unasked(r, e, q)' <=> Unasked(r, e, q)) /\ (Settled(r, e, q)' <=> Settled(r, e, q))
      BY <1>1 DEF Unasked, Settled
    <3>2. \A m \in Lanes : \A e :
             BusyAt(r, m, e)' <=> IF m = l THEN e = nextEngine[r] ELSE BusyAt(r, m, e)
      BY <2>2, <2>3 DEF BusyAt, Busy
    <3>3. \A m \in Lanes : \A e : BusyAt(r, m, e) => m # l /\ e < nextEngine[r]
      BY <1>1, <2>7 DEF BusyAt, RunInv, LaneInv, Busy
    <3>4. ASSUME NEW m \in Lanes PROVE LaneInv(r, m)'
      <4>1. LaneInv(r, m)
        BY <2>7 DEF RunInv
      <4>2. CASE m = l
        <5>1. \A q \in DOMAIN Questions : Unasked(r, nextEngine[r], q) /\ ~(q < 1)
          BY <1>1, <1>3, <2>7, Bounds DEF RunInv
        <5>2. /\ lane'[<<r, m>>].pc = "next" /\ lane'[<<r, m>>].question = 1
              /\ lane'[<<r, m>>].engine = nextEngine[r]
          BY <2>2, <2>3, <4>2
        <5>3. lane'[<<r, m>>].engine < nextEngine'[r]
          BY <1>1, <2>4, <5>2
        <5>4. \A q \in DOMAIN Questions : Unasked(r, lane[<<r, m>>].engine, q)' /\ ~(q < 1)
          BY <3>1, <5>1, <5>2
        <5> QED BY <5>2, <5>3, <5>4 DEF LaneInv
      <4>3. CASE m # l
        <5>1. lane[<<r, m>>].engine \in Nat
          <6>1. lane[<<r, m>>] \in LaneStates
            BY LaneType
          <6> QED BY <6>1, Bounds DEF LaneStates
        <5>2. lane'[<<r, m>>] = lane[<<r, m>>]
          BY <2>3, <4>3
        <5>3. lane[<<r, m>>].engine < nextEngine[r] => lane[<<r, m>>].engine < nextEngine'[r]
          BY <1>1, <2>4, <5>1
        <5> QED BY <3>1, <4>1, <5>2, <5>3 DEF LaneInv
      <4> QED BY <4>2, <4>3
    <3>5. \A m, n \in Lanes : \A e : BusyAt(r, m, e)' /\ BusyAt(r, n, e)' => m = n
      BY <1>1, <2>7, <3>2, <3>3 DEF RunInv
    <3>6. \A e \in DOMAIN Engines, q \in DOMAIN Questions :
             /\ Unasked(r, e, q) \/ Settled(r, e, q)
             /\ e >= nextEngine[r] + 1 => Unasked(r, e, q)
      BY <1>1, <2>7, Bounds DEF RunInv
    <3>7. geoRun[r] \in {"running", "done"} =>
             /\ ~aborted[r]
             /\ \A e \in DOMAIN Engines :
                   e < nextEngine[r] + 1 =>
                      \/ \E m \in Lanes : BusyAt(r, m, e)'
                      \/ \A q \in DOMAIN Questions : Settled(r, e, q)
      <4>1. \A e \in DOMAIN Engines : e < nextEngine[r] + 1 => e = nextEngine[r] \/ e < nextEngine[r]
        BY <1>1, Bounds
      <4>2. \A e : e = nextEngine[r] => BusyAt(r, l, e)'
        BY <3>2
      <4>3. \A m \in Lanes : \A e : BusyAt(r, m, e) => BusyAt(r, m, e)'
        BY <3>2, <3>3
      <4> QED BY <2>7, <4>1, <4>2, <4>3 DEF RunInv
    <3>8. geoRun[r] # "none" /\ geoRun[r] # "done"
      BY <1>1, <2>7 DEF RunInv
    <3>9. geoRun[r] = "running" => \A m \in Lanes : lane'[<<r, m>>].pc = "over" => FALSE
      BY <1>3, <2>2, <2>3, <2>7 DEF RunInv
    <3> QED BY <1>1, <2>4, <3>1, <3>4, <3>5, <3>6, <3>7, <3>8, <3>9 DEF RunInv
  <2> QED BY <2>5, <2>6, <2>8 DEF GeoInv
<1> QED BY <1>2, <1>3

\* The question a lane is at is settled, by an observation or without one.
Settles(r, l, eng, at) ==
    /\ lane[<<r, l>>].pc \in {"asking", "answered"}
    /\ eng = lane[<<r, l>>].engine /\ at = lane[<<r, l>>].question
    /\ lane' = [lane EXCEPT ![<<r, l>>] = [pc |-> "next", engine |-> eng, question |-> at + 1]]
    /\ observed' \in [Cells -> Nat] /\ skipped' \subseteq Cells
    /\ \/ observed'[<<r, eng, at>>] = 1 /\ <<r, eng, at>> \notin skipped'
       \/ observed'[<<r, eng, at>>] = 0 /\ <<r, eng, at>> \in skipped'
    /\ \A x \in Cells : x # <<r, eng, at>> =>
          observed'[x] = observed[x] /\ (x \in skipped' <=> x \in skipped)
    /\ UNCHANGED <<geoRun, aborted, nextEngine, outages>>

LEMMA SettledInv ==
  ASSUME GeoInv, NEW r \in GeoRuns, NEW l \in Lanes, NEW eng, NEW at, Settles(r, l, eng, at)
  PROVE  GeoInv'
<1> DEFINE k == [pc |-> "next", engine |-> eng, question |-> at + 1]
<1>0. /\ lane[<<r, l>>].pc \in {"asking", "answered"}
      /\ eng = lane[<<r, l>>].engine /\ at = lane[<<r, l>>].question
      /\ lane' = [lane EXCEPT ![<<r, l>>] = k]
      /\ observed' \in [Cells -> Nat] /\ skipped' \subseteq Cells
      /\ Settled(r, eng, at)'
      /\ \A x \in Cells : x # <<r, eng, at>> =>
            observed'[x] = observed[x] /\ (x \in skipped' <=> x \in skipped)
      /\ UNCHANGED <<geoRun, aborted, nextEngine, outages>>
  BY DEF Settles, Settled
<1>1. /\ lane[<<r, l>>] \in LaneStates /\ eng \in DOMAIN Engines /\ at \in DOMAIN Questions
      /\ RunInv(r) /\ LaneInv(r, l)
  BY <1>0, LaneType DEF LaneStates, GeoInv, RunInv, LaneInv
<1>2. k \in LaneStates /\ k.pc = "next" /\ k.engine = eng /\ k.question = at + 1
  BY <1>1, Bounds DEF LaneStates
<1> HIDE DEF k
<1>3. /\ lane' \in [GeoRuns \X Lanes -> LaneStates] /\ lane'[<<r, l>>] = k
      /\ \A s \in GeoRuns, m \in Lanes : s # r \/ m # l => lane'[<<s, m>>] = lane[<<s, m>>]
  BY <1>0, <1>2, LaneMoves
<1>4. \A m \in Lanes : \A e : BusyAt(r, m, e)' <=> BusyAt(r, m, e)
  BY <1>0, <1>2, <1>3 DEF BusyAt, Busy
<1>5. \A s \in GeoRuns, e \in DOMAIN Engines, q \in DOMAIN Questions :
         s # r \/ e # eng \/ q # at =>
            /\ observed'[<<s, e, q>>] = observed[<<s, e, q>>]
            /\ <<s, e, q>> \in skipped' <=> <<s, e, q>> \in skipped
  BY <1>0 DEF Cells
<1>6. GeoTypeOK' /\ Attempts'
  BY <1>0, <1>3 DEF GeoInv, GeoTypeOK, LaneStates, Attempts
<1>7. \A s \in GeoRuns \ {r} : RunInv(s)'
  BY <1>0, <1>3, <1>5, RunKept
<1>8. \A e \in DOMAIN Engines, q \in DOMAIN Questions :
         e # eng \/ q # at => /\ Unasked(r, e, q)' <=> Unasked(r, e, q)
                              /\ Settled(r, e, q)' <=> Settled(r, e, q)
  BY <1>5 DEF Unasked, Settled
<1>9. ASSUME NEW m \in Lanes PROVE LaneInv(r, m)'
  <2>1. CASE m = l
    <3>1. ASSUME NEW q \in DOMAIN Questions
          PROVE  IF q < at + 1 THEN Settled(r, eng, q)' ELSE Unasked(r, eng, q)'
      <4>1. q \in Nat /\ at \in Nat
        BY <1>1, Bounds
      <4>2. IF q < at THEN Settled(r, eng, q) ELSE Unasked(r, eng, q)
        BY <1>0, <1>1 DEF LaneInv, Busy
      <4>3. CASE q = at
        BY <1>0, <4>1, <4>3
      <4>4. CASE q # at
        BY <1>1, <1>8, <4>1, <4>2, <4>4
      <4> QED BY <4>3, <4>4
    <3>2. eng < nextEngine'[r]
      BY <1>0, <1>1 DEF LaneInv, Busy
    <3> QED BY <1>2, <1>3, <2>1, <3>1, <3>2 DEF LaneInv
  <2>2. CASE m # l
    <3>1. lane[<<r, m>>].pc \in Busy => lane[<<r, m>>].engine # eng
      BY <1>0, <1>1, <2>2 DEF RunInv, BusyAt, Busy
    <3>2. LaneInv(r, m) /\ lane[<<r, m>>].engine \in DOMAIN Engines
      BY <1>1, LaneType DEF RunInv, LaneStates
    <3> QED BY <1>0, <1>3, <1>8, <2>2, <3>1, <3>2 DEF LaneInv
  <2> QED BY <2>1, <2>2
<1>10. RunInv(r)'
  <2>1. \A e \in DOMAIN Engines, q \in DOMAIN Questions :
           /\ (Unasked(r, e, q) \/ Settled(r, e, q))'
           /\ e >= nextEngine[r] => Unasked(r, e, q)'
    <3>1. ~(eng >= nextEngine[r])
      <4>1. eng < nextEngine[r] /\ eng \in Nat /\ nextEngine[r] \in Nat
        BY <1>0, <1>1, Bounds DEF LaneInv, Busy, GeoInv, GeoTypeOK
      <4> QED BY <4>1
    <3> QED BY <1>0, <1>1, <1>8, <3>1 DEF RunInv
  <2>2. geoRun[r] \in {"running", "done"} =>
           \A e \in DOMAIN Engines :
              e < nextEngine[r] =>
                 \/ \E m \in Lanes : BusyAt(r, m, e)'
                 \/ \A q \in DOMAIN Questions : Settled(r, e, q)'
    BY <1>0, <1>1, <1>4, <1>8 DEF RunInv
  <2>3. \A m, n \in Lanes : \A e : BusyAt(r, m, e)' /\ BusyAt(r, n, e)' => m = n
    BY <1>1, <1>4 DEF RunInv
  <2>4. \A m \in Lanes : lane'[<<r, m>>].pc = "over" => lane[<<r, m>>].pc = "over"
    BY <1>2, <1>3
  <2>5. geoRun[r] \notin {"none", "done"}
    BY <1>0, <1>1 DEF RunInv
  <2> QED BY <1>0, <1>1, <1>9, <2>1, <2>2, <2>3, <2>4, <2>5 DEF RunInv
<1> QED BY <1>6, <1>7, <1>10 DEF GeoInv

\* The question a lane has asked: nothing has become of it yet.
LEMMA Asked ==
  ASSUME GeoInv, NEW r \in GeoRuns, NEW l \in Lanes, lane[<<r, l>>].pc \in {"asking", "answered"}
  PROVE  LET eng == lane[<<r, l>>].engine
             at == lane[<<r, l>>].question
         IN  eng \in DOMAIN Engines /\ at \in DOMAIN Questions /\ Unasked(r, eng, at)
<1>1. lane[<<r, l>>].engine \in DOMAIN Engines
  BY LaneType DEF LaneStates
<1>2. LaneInv(r, l)
  BY DEF GeoInv, RunInv
<1>3. lane[<<r, l>>].question \in DOMAIN Questions
  BY <1>2 DEF LaneInv
<1>4. lane[<<r, l>>].question \in Nat
  BY <1>3, Bounds
<1>5. Unasked(r, lane[<<r, l>>].engine, lane[<<r, l>>].question)
  BY <1>2, <1>3, <1>4 DEF LaneInv, Busy
<1> QED BY <1>1, <1>3, <1>5

LEMMA AskFailsInv ==
  ASSUME GeoInv, NEW r \in GeoRuns, NEW l \in Lanes, AskFails(r, l) PROVE GeoInv'
<1> DEFINE eng == lane[<<r, l>>].engine
           at == lane[<<r, l>>].question
<1>1. /\ lane[<<r, l>>].pc = "asking" /\ skipped' = skipped \cup {<<r, eng, at>>}
      /\ lane' = [lane EXCEPT ![<<r, l>>] = [pc |-> "next", engine |-> eng, question |-> at + 1]]
      /\ UNCHANGED <<geoRun, aborted, nextEngine, observed, outages>>
  BY DEF AskFails, NextQuestion
<1>2. eng \in DOMAIN Engines /\ at \in DOMAIN Questions /\ Unasked(r, eng, at)
  BY <1>1, Asked
<1>3. observed \in [Cells -> Nat] /\ skipped \subseteq Cells /\ <<r, eng, at>> \in Cells
  BY <1>2 DEF GeoInv, GeoTypeOK, Cells
<1>4. /\ skipped' \subseteq Cells /\ observed'[<<r, eng, at>>] = 0 /\ <<r, eng, at>> \in skipped'
      /\ \A x \in Cells : x # <<r, eng, at>> => (x \in skipped' <=> x \in skipped)
  BY <1>1, <1>2, <1>3 DEF Unasked
<1>5. Settles(r, l, eng, at)
  BY <1>1, <1>3, <1>4 DEF Settles
<1> QED BY <1>5, SettledInv

LEMMA StoreInv ==
  ASSUME GeoInv, NEW r \in GeoRuns, NEW l \in Lanes, Store(r, l) PROVE GeoInv'
<1> DEFINE eng == lane[<<r, l>>].engine
           at == lane[<<r, l>>].question
<1>1. /\ lane[<<r, l>>].pc = "answered"
      /\ observed' = [observed EXCEPT ![<<r, eng, at>>] = observed[<<r, eng, at>>] + 1]
      /\ lane' = [lane EXCEPT ![<<r, l>>] = [pc |-> "next", engine |-> eng, question |-> at + 1]]
      /\ UNCHANGED <<geoRun, aborted, nextEngine, skipped, outages>>
  BY DEF Store, NextQuestion
<1>2. eng \in DOMAIN Engines /\ at \in DOMAIN Questions /\ Unasked(r, eng, at)
  BY <1>1, Asked
<1>3. observed \in [Cells -> Nat] /\ skipped \subseteq Cells /\ <<r, eng, at>> \in Cells
  BY <1>2 DEF GeoInv, GeoTypeOK, Cells
<1>4. /\ observed' \in [Cells -> Nat] /\ observed'[<<r, eng, at>>] = 1 /\ <<r, eng, at>> \notin skipped'
      /\ \A x \in Cells : x # <<r, eng, at>> => observed'[x] = observed[x]
  <2> DEFINE c == <<r, eng, at>>
  <2>1. observed' = [observed EXCEPT ![c] = observed[c] + 1] /\ c \in Cells
    BY <1>1, <1>3
  <2>2. observed[c] = 0 /\ c \notin skipped'
    BY <1>1, <1>2 DEF Unasked
  <2> HIDE DEF c
  <2>3. /\ observed' \in [Cells -> Nat] /\ observed'[c] = 1
        /\ \A x \in Cells : x # c => observed'[x] = observed[x]
    BY <1>3, <2>1, <2>2
  <2> QED BY <2>2, <2>3 DEF c
<1>5. Settles(r, l, eng, at)
  BY <1>1, <1>3, <1>4 DEF Settles
<1> QED BY <1>5, SettledInv

-----------------------------------------------------------------------------
(* The steps of a run.                                                     *)

\* A store fails: the run, and its lane with it.
LEMMA StoreFailsInv ==
  ASSUME GeoInv, NEW r \in GeoRuns, NEW l \in Lanes, StoreFails(r, l) PROVE GeoInv'
<1>1. /\ lane[<<r, l>>].pc = "answered" /\ outages < MaxOutages /\ outages' = outages + 1
      /\ aborted' = [aborted EXCEPT ![r] = TRUE] /\ geoRun' = [geoRun EXCEPT ![r] = "failed"]
      /\ lane' = [lane EXCEPT ![<<r, l>>] = Over] /\ UNCHANGED <<nextEngine, observed, skipped>>
  BY DEF StoreFails, Outage
<1>2. Over \in LaneStates /\ Over.pc = "over"
  BY Bounds DEF Over, Free, LaneStates
<1>3. /\ lane' \in [GeoRuns \X Lanes -> LaneStates] /\ lane'[<<r, l>>] = Over
      /\ \A s \in GeoRuns, m \in Lanes : s # r \/ m # l => lane'[<<s, m>>] = lane[<<s, m>>]
  BY <1>1, <1>2, LaneMoves
<1>4. /\ geoRun' \in [GeoRuns -> {"none", "running", "failed", "done"}] /\ geoRun'[r] = "failed"
      /\ aborted' \in [GeoRuns -> BOOLEAN] /\ outages' \in 0..MaxOutages /\ outages \in Nat
      /\ \A s \in GeoRuns \ {r} : geoRun'[s] = geoRun[s] /\ aborted'[s] = aborted[s]
  BY <1>1, Bounds DEF GeoInv, GeoTypeOK
<1>5. GeoTypeOK'
  BY <1>1, <1>3, <1>4 DEF GeoInv, GeoTypeOK, LaneStates
<1>6. RunInv(r) /\ geoRun[r] # "none"
  BY <1>1 DEF GeoInv, RunInv
<1>7. Attempts'
  <2>1. \A s \in GeoRuns : s \in Nat
    BY Bounds
  <2> QED BY <1>1, <1>4, <1>6, <2>1 DEF GeoInv, Attempts
<1>8. \A s \in GeoRuns \ {r} : RunInv(s)'
  BY <1>1, <1>3, <1>4, RunKept
<1>9. RunInv(r)'
  <2>1. \A e, q : (Unasked(r, e, q)' <=> Unasked(r, e, q)) /\ (Settled(r, e, q)' <=> Settled(r, e, q))
    BY <1>1 DEF Unasked, Settled
  <2>2. \A m \in Lanes : \A e : BusyAt(r, m, e)' => BusyAt(r, m, e)
    BY <1>2, <1>3 DEF BusyAt, Busy
  <2>3. ASSUME NEW m \in Lanes PROVE LaneInv(r, m)'
    <3>1. LaneInv(r, m)
      BY <1>6 DEF RunInv
    <3>2. CASE m = l
      BY <1>2, <1>3, <3>2 DEF LaneInv, Busy
    <3>3. CASE m # l
      BY <1>1, <1>3, <2>1, <3>1, <3>3 DEF LaneInv
    <3> QED BY <3>2, <3>3
  <2> QED BY <1>1, <1>4, <1>6, <2>1, <2>2, <2>3 DEF RunInv
<1> QED BY <1>5, <1>7, <1>8, <1>9 DEF GeoInv

\* A run starts: all its lanes are free.
LEMMA StartGeoRunInv ==
  ASSUME GeoInv, NEW r \in GeoRuns, StartGeoRun(r) PROVE GeoInv'
<1>1. /\ geoRun[r] = "none" /\ (r > 1 => geoRun[r-1] = "failed")
      /\ geoRun' = [geoRun EXCEPT ![r] = "running"]
      /\ lane' = [x \in DOMAIN lane |-> IF x[1] = r THEN Free ELSE lane[x]]
      /\ UNCHANGED <<aborted, nextEngine, observed, skipped, outages>>
  BY DEF StartGeoRun
<1>2. Free \in LaneStates /\ Free.pc = "free"
  BY Bounds DEF Free, LaneStates
<1>3. lane \in [GeoRuns \X Lanes -> LaneStates]
  BY DEF GeoInv, GeoTypeOK, LaneStates
<1>4. /\ lane' \in [GeoRuns \X Lanes -> LaneStates]
      /\ \A s \in GeoRuns, m \in Lanes : lane'[<<s, m>>] = IF s = r THEN Free ELSE lane[<<s, m>>]
  BY <1>1, <1>2, <1>3
<1>5. /\ geoRun' \in [GeoRuns -> {"none", "running", "failed", "done"}] /\ geoRun'[r] = "running"
      /\ \A s \in GeoRuns \ {r} : geoRun'[s] = geoRun[s]
  BY <1>1 DEF GeoInv, GeoTypeOK
<1>6. GeoTypeOK'
  BY <1>1, <1>4, <1>5 DEF GeoInv, GeoTypeOK, LaneStates
<1>7. Attempts'
  <2>1. \A s \in GeoRuns : s \in Nat /\ s >= 1
    BY DEF GeoRuns
  <2>2. r > 1 => r - 1 \in GeoRuns
    BY GeoAssumption DEF GeoRuns
  <2>3. outages \in Nat
    BY Bounds DEF GeoInv, GeoTypeOK
  <2>4. r <= 1 + outages
    BY <1>1, <2>1, <2>2, <2>3 DEF GeoInv, Attempts
  <2>5. \A s \in GeoRuns : s < r => geoRun[s] = "failed"
    <3>1. \A s \in GeoRuns : s < r => s = r - 1 \/ r - 1 > s
      BY <2>1
    <3>2. \A s \in GeoRuns : s < r => r > 1
      BY <2>1
    <3> QED BY <1>1, <2>2, <3>1, <3>2 DEF GeoInv, Attempts
  <2>6. \A s \in GeoRuns : s > r => geoRun[s] = "none"
    BY <1>1 DEF GeoInv, Attempts
  <2>7. \A s \in GeoRuns : s > r <=> r < s
    BY <2>1
  <2> QED BY <1>1, <1>5, <2>1, <2>3, <2>4, <2>5, <2>6, <2>7 DEF GeoInv, Attempts
<1>8. \A s \in GeoRuns \ {r} : RunInv(s)'
  BY <1>1, <1>4, <1>5, RunKept
<1>9. RunInv(r)'
  <2>1. \A e, q : (Unasked(r, e, q)' <=> Unasked(r, e, q)) /\ (Settled(r, e, q)' <=> Settled(r, e, q))
    BY <1>1 DEF Unasked, Settled
  <2>2. RunInv(r) /\ nextEngine[r] = 1 /\ ~aborted[r]
    BY <1>1 DEF GeoInv, RunInv
  <2>3. \A m \in Lanes : LaneInv(r, m)' /\ (\A e : ~BusyAt(r, m, e)') /\ lane'[<<r, m>>].pc = "free"
    BY <1>2, <1>4 DEF LaneInv, BusyAt, Busy
  <2>4. \A e \in DOMAIN Engines : ~(e < nextEngine[r])
    BY <2>2, Bounds
  <2> QED BY <1>1, <1>5, <2>1, <2>2, <2>3, <2>4 DEF RunInv
<1> QED BY <1>6, <1>7, <1>8, <1>9 DEF GeoInv

LEMMA FinishRunInv ==
  ASSUME GeoInv, NEW r \in GeoRuns, FinishRun(r) PROVE GeoInv'
<1>1. /\ geoRun[r] = "running" /\ \A l \in Lanes : lane[<<r, l>>].pc = "over"
      /\ geoRun' = [geoRun EXCEPT ![r] = "done"]
      /\ UNCHANGED <<aborted, nextEngine, lane, observed, skipped, outages>>
  BY LaneType DEF FinishRun
<1>2. /\ geoRun' \in [GeoRuns -> {"none", "running", "failed", "done"}] /\ geoRun'[r] = "done"
      /\ \A s \in GeoRuns \ {r} : geoRun'[s] = geoRun[s]
  BY <1>1 DEF GeoInv, GeoTypeOK
<1>3. GeoTypeOK' /\ Attempts'
  BY <1>1, <1>2 DEF GeoInv, GeoTypeOK, Attempts
<1>4. \A s \in GeoRuns \ {r} : RunInv(s)'
  BY <1>1, <1>2, RunKept
<1>5. RunInv(r)'
  <2>1. \A e, q : (Unasked(r, e, q)' <=> Unasked(r, e, q)) /\ (Settled(r, e, q)' <=> Settled(r, e, q))
    BY <1>1 DEF Unasked, Settled
  <2>2. RunInv(r) /\ nextEngine[r] > Len(Engines)
    BY <1>1, Bounds DEF GeoInv, RunInv
  <2>3. \A m \in Lanes : (\A e : ~BusyAt(r, m, e)) /\ LaneInv(r, m)'
    BY <1>1 DEF BusyAt, Busy, LaneInv
  <2>4. \A m \in Lanes : \A e : BusyAt(r, m, e)' <=> BusyAt(r, m, e)
    BY <1>1 DEF BusyAt
  <2> QED BY <1>1, <1>2, <2>1, <2>2, <2>3, <2>4 DEF RunInv
<1> QED BY <1>3, <1>4, <1>5 DEF GeoInv

LEMMA GeoProcessDiesInv ==
  ASSUME GeoInv, GeoProcessDies PROVE GeoInv'
<1>1. /\ outages < MaxOutages /\ outages' = outages + 1
      /\ lane' = [x \in DOMAIN lane |-> Over]
      /\ geoRun' = [r \in GeoRuns |-> IF geoRun[r] = "running" THEN "failed" ELSE geoRun[r]]
      /\ UNCHANGED <<aborted, nextEngine, observed, skipped>>
  BY DEF GeoProcessDies, Outage
<1>2. Over \in LaneStates /\ Over.pc = "over"
  BY Bounds DEF Over, Free, LaneStates
<1>3. lane \in [GeoRuns \X Lanes -> LaneStates]
  BY DEF GeoInv, GeoTypeOK, LaneStates
<1>4. /\ lane' \in [GeoRuns \X Lanes -> LaneStates]
      /\ \A s \in GeoRuns, m \in Lanes : lane'[<<s, m>>] = Over
  BY <1>1, <1>2, <1>3
<1>5. /\ geoRun' \in [GeoRuns -> {"none", "running", "failed", "done"}]
      /\ \A s \in GeoRuns : /\ geoRun'[s] = "none" <=> geoRun[s] = "none"
                            /\ geoRun'[s] = "done" <=> geoRun[s] = "done"
                            /\ geoRun[s] = "failed" => geoRun'[s] = "failed"
                            /\ geoRun'[s] # "running"
  BY <1>1 DEF GeoInv, GeoTypeOK
<1>6. GeoTypeOK'
  BY <1>1, <1>4, <1>5, Bounds DEF GeoInv, GeoTypeOK, LaneStates
<1>7. Attempts'
  <2>1. \A s \in GeoRuns : s \in Nat
    BY Bounds
  <2>2. outages \in Nat
    BY Bounds DEF GeoInv, GeoTypeOK
  <2>3. \A s \in GeoRuns : geoRun[s] # "none" => s <= 1 + outages
    BY DEF GeoInv, Attempts
  <2>4. \A s \in GeoRuns : geoRun'[s] # "none" => s <= outages' /\ s <= 1 + outages'
    BY <1>1, <1>5, <2>1, <2>2, <2>3
  <2>5. \A s, u \in GeoRuns : u > s /\ geoRun'[u] # "none" => geoRun'[s] = "failed"
    BY <1>5 DEF GeoInv, Attempts
  <2> QED BY <2>4, <2>5, <1>5 DEF Attempts
<1>8. ASSUME NEW s \in GeoRuns PROVE RunInv(s)'
  <2>1. \A e, q : (Unasked(s, e, q)' <=> Unasked(s, e, q)) /\ (Settled(s, e, q)' <=> Settled(s, e, q))
    BY <1>1 DEF Unasked, Settled
  <2>2. RunInv(s)
    BY DEF GeoInv
  <2>3. \A m \in Lanes : LaneInv(s, m)' /\ (\A e : ~BusyAt(s, m, e)') /\ lane'[<<s, m>>].pc = "over"
    BY <1>2, <1>4 DEF LaneInv, BusyAt, Busy
  <2>4. geoRun[s] = "done" => \A m \in Lanes : \A e : ~BusyAt(s, m, e)
    BY <2>2 DEF RunInv, BusyAt, Busy
  <2> QED BY <1>1, <1>5, <2>1, <2>2, <2>3, <2>4 DEF RunInv
<1> QED BY <1>6, <1>7, <1>8 DEF GeoInv

LEMMA GeoStep ==
  ASSUME GeoInv, [GeoNext]_geoVars PROVE GeoInv'
<1>1. CASE UNCHANGED geoVars
  <2>1. GeoTypeOK' /\ Attempts'
    BY <1>1 DEF geoVars, GeoInv, GeoTypeOK, Attempts
  <2>2. \A s \in GeoRuns : RunInv(s)'
    BY <1>1, RunKept DEF geoVars
  <2> QED BY <2>1, <2>2 DEF GeoInv
<1> QED BY <1>1, StartGeoRunInv, FinishRunInv, TakeEngineInv, AskInv, AnsweredInv, AskFailsInv,
           StoreInv, StoreFailsInv, GeoProcessDiesInv DEF GeoNext

LEMMA GeoStart == GeoInit => GeoInv
<1> SUFFICES ASSUME GeoInit PROVE GeoInv
  OBVIOUS
<1>1. Over \in LaneStates /\ Over.pc = "over"
  BY Bounds DEF Over, Free, LaneStates
<1>2. GeoTypeOK
  BY <1>1, Bounds DEF GeoInit, GeoTypeOK, LaneStates
<1>3. Attempts
  BY DEF GeoInit, Attempts
<1>4. ASSUME NEW r \in GeoRuns PROVE RunInv(r)
  <2>1. geoRun[r] = "none" /\ nextEngine[r] = 1 /\ ~aborted[r]
    BY DEF GeoInit
  <2>2. \A m \in Lanes : LaneInv(r, m) /\ (\A e : ~BusyAt(r, m, e)) /\ lane[<<r, m>>].pc = "over"
    BY <1>1 DEF GeoInit, LaneInv, BusyAt, Busy
  <2>3. \A e \in DOMAIN Engines, q \in DOMAIN Questions : Unasked(r, e, q)
    BY DEF GeoInit, Unasked, Cells
  <2> QED BY <2>1, <2>2, <2>3 DEF RunInv
<1> QED BY <1>2, <1>3, <1>4 DEF GeoInv

LEMMA GeoKeeps == GeoSpec => []GeoInv
BY GeoStart, GeoStep, PTL DEF GeoSpec

-----------------------------------------------------------------------------
(* What follows.                                                           *)

LEMMA RowsOfStarted ==
  ASSUME GeoInv, NEW r \in GeoRuns, NEW e \in DOMAIN Engines, NEW q \in DOMAIN Questions,
         observed[<<r, e, q>>] > 0
  PROVE  geoRun[r] # "none" /\ observed[<<r, e, q>>] = 1
<1>1. RunInv(r)
  BY DEF GeoInv
<1>2. e >= 1
  BY Bounds
<1>3. Settled(r, e, q) /\ ~Unasked(r, e, q)
  BY <1>1 DEF RunInv, Unasked
<1> QED BY <1>1, <1>2, <1>3 DEF RunInv, Settled

\* No run after a completed one has started, so its rows are the newest.
LEMMA LatestIsDone ==
  ASSUME GeoInv, NEW r \in GeoRuns, NEW e \in DOMAIN Engines, NEW q \in DOMAIN Questions,
         geoRun[r] = "done", observed[<<r, e, q>>] > 0
  PROVE  LatestRun = r
<1> DEFINE S == {0} \cup {x[1] : x \in {y \in Cells : observed[y] > 0}}
<1>1. <<r, e, q>> \in Cells /\ <<r, e, q>>[1] = r
  BY DEF Cells
<1>2. r \in S
  BY <1>1
<1>3. ASSUME NEW s \in S PROVE s \in Nat /\ r >= s
  <2>1. CASE s = 0
    BY <2>1, Bounds
  <2>2. CASE s # 0
    <3>1. PICK y \in Cells : observed[y] > 0 /\ s = y[1]
      BY <2>2
    <3>2. PICK u \in GeoRuns, f \in DOMAIN Engines, p \in DOMAIN Questions : y = <<u, f, p>>
      BY DEF Cells
    <3>3. s = u /\ geoRun[u] # "none"
      BY <3>1, <3>2, RowsOfStarted
    <3>4. ~(u > r)
      BY <3>3 DEF GeoInv, Attempts
    <3> QED BY <3>3, <3>4, Bounds
  <2> QED BY <2>1, <2>2
<1>4. \A x \in S : (\A y \in S : x >= y) => x = r
  <2>1. \A x \in S : x >= r /\ r >= x /\ x \in Nat /\ r \in Nat => x = r
    OBVIOUS
  <2> QED BY <1>2, <1>3, <2>1
<1>5. LatestRun = Max(S)
  BY DEF LatestRun
<1> HIDE DEF S
<1>6. Max(S) = CHOOSE x \in S : \A y \in S : x >= y
  BY DEF Max
<1>7. \E x \in S : \A y \in S : x >= y
  BY <1>2, <1>3
<1> QED BY <1>4, <1>5, <1>6, <1>7

\* The runs that have stored an answer to a question are no more than the
\* failures, and one.
LEMMA RunsCost ==
  ASSUME GeoInv, NEW e \in DOMAIN Engines, NEW q \in DOMAIN Questions
  PROVE  Cardinality({r \in GeoRuns : observed[<<r, e, q>>] > 0}) <= 1 + outages
<1>1. outages \in Nat
  BY Bounds DEF GeoInv, GeoTypeOK
<1>2. \A r \in GeoRuns : r \in 1..Runs /\ (observed[<<r, e, q>>] > 0 => r <= 1 + outages)
  BY RowsOfStarted DEF GeoInv, Attempts, GeoRuns
<1>3. {r \in GeoRuns : observed[<<r, e, q>>] > 0} \subseteq 1..(1 + outages)
  BY <1>1, <1>2
<1>4. IsFiniteSet(1..(1 + outages)) /\ Cardinality(1..(1 + outages)) = 1 + outages
  BY <1>1, FS_Interval
<1> QED BY <1>3, <1>4, FS_Subset

\* runGeoMonitor: the runs, their lanes and the rows they store keep their types.
THEOREM GeoTypes == GeoSpec => []GeoTypeOK
<1>1. GeoInv => GeoTypeOK
  BY DEF GeoInv
<1> QED BY <1>1, GeoKeeps, PTL

\* runGeoMonitor and latestRun: a completed run has stored each answer it was
\* given exactly once and is the one the reports show, though the lanes of a
\* failed run before it may still be storing theirs.
THEOREM GeoHolds == GeoSpec => []AnswersKept
<1>1. GeoInv => AnswersKept
  <2> SUFFICES ASSUME GeoInv, NEW x \in Cells
               PROVE  /\ geoRun[x[1]] = "done" => (observed[x] = 1) # (x \in skipped)
                      /\ observed[x] <= 1
                      /\ Cardinality({r \in GeoRuns : observed[<<r, x[2], x[3]>>] > 0}) <= 1 + outages
                      /\ geoRun[x[1]] = "done" /\ observed[x] > 0 => LatestRun = x[1]
    BY DEF AnswersKept
  <2>1. PICK r \in GeoRuns, e \in DOMAIN Engines, q \in DOMAIN Questions : x = <<r, e, q>>
    BY DEF Cells
  <2>2. RunInv(r) /\ (Unasked(r, e, q) \/ Settled(r, e, q))
    BY DEF GeoInv, RunInv
  <2>3. observed[x] <= 1
    BY <2>1, <2>2 DEF Unasked, Settled
  <2>4. ASSUME geoRun[r] = "done" PROVE (observed[x] = 1) # (x \in skipped)
    <3>1. nextEngine[r] > Len(Engines) /\ \A l \in Lanes : ~BusyAt(r, l, e)
      BY <2>2, <2>4 DEF RunInv, BusyAt, Busy
    <3>2. e < nextEngine[r]
      BY <3>1, Bounds DEF GeoInv, GeoTypeOK
    <3>3. Settled(r, e, q)
      BY <2>2, <2>4, <3>1, <3>2 DEF RunInv
    <3> QED BY <2>1, <3>3 DEF Settled
  <2>5. Cardinality({s \in GeoRuns : observed[<<s, e, q>>] > 0}) <= 1 + outages
    BY RunsCost
  <2>6. geoRun[r] = "done" /\ observed[x] > 0 => LatestRun = r
    BY <2>1, LatestIsDone
  <2> QED BY <2>1, <2>3, <2>4, <2>5, <2>6
<1> QED BY <1>1, GeoKeeps, PTL

-----------------------------------------------------------------------------
(* AdIngest: a window long enough makes up for the runs that failed.        *)

\* The numbers of a date are final when a run of day s fetches them.
Final(d, s) == s >= d + RestateDays

\* Two units of one entity have spend on one day: its row is in the report twice.
TwoUnits(e, d) ==
    \E u, v \in Units : /\ u # v /\ EntityOf[u] = e /\ EntityOf[v] = e
                        /\ spent[<<u, d>>] # 0 /\ spent[<<v, d>>] # 0

\* No day of the window of a run of day s has such rows.
Clear(s) == \A e \in Entities, d \in Window(s) : ~ TwoUnits(e, d)

\* What a unit spent on a date is what its entity's row says for an app.
Right(app, u, d) == spent[<<u, d>>] # 0 => stored[<<app, EntityOf[u], d>>] = spent[<<u, d>>]

\* A run of day s stores these.
Due(s) == {d \in Window(s) : Final(d, s)}

\* No run is dated in the future, or before one that had every answer.
Dated ==
    /\ run.pc # "idle" => run.day <= adDay /\ \A s \in answered : s <= run.day
    /\ \A s \in answered : s <= adDay

\* What a run has fetched: the entities of the rows that are due, then the
\* rows, one of a unit and a date, and of a date that is due exactly what was spent.
Fetched ==
    /\ run.pc \in {"performance", "store"} =>
          \A d \in Due(run.day), u \in Units : spent[<<u, d>>] # 0 => EntityOf[u] \in run.ids
    /\ run.pc = "store" =>
          /\ \A r \in run.report : r.date \in Window(run.day) /\ spent[<<r.unit, r.date>>] # 0
          /\ \A r, q \in run.report : r.unit = q.unit /\ r.date = q.date => r = q
          /\ \A r \in run.report : Final(r.date, run.day) => r.spend = spent[<<r.unit, r.date>>]
          /\ \A d \in Due(run.day), u \in Units : spent[<<u, d>>] # 0 =>
                \E r \in run.report : r.unit = u /\ r.date = d

\* What is stored: nothing that was not spent, what is due right for the apps the
\* run is done with, and what was due in a run that had every answer, and no row
\* twice, for all.
StoredInv ==
    /\ \A app \in Apps, e \in Entities, d \in StatDays : stored[<<app, e, d>>] # 0 =>
          \E u \in Units : EntityOf[u] = e /\ spent[<<u, d>>] # 0
    /\ run.pc # "idle" =>
          \A i \in DOMAIN EnabledApps : i < run.app =>
              \A d \in Due(run.day), u \in Units : Right(EnabledApps[i], u, d)
    /\ \A s \in answered : Clear(s) =>
          \A d \in Due(s), u \in Units, app \in Apps : Right(app, u, d)

AdInv == AdTypeOK /\ Dated /\ Fetched /\ StoredInv

\* What a report holds.
LEMMA InReport ==
  ASSUME NEW d \in StatDays, AdTypeOK
  PROVE  /\ Report(d) \in SUBSET Rows
         /\ \A r \in Report(d) : /\ r.date \in Window(d) /\ r.unit \in Units /\ r.date \in StatDays
                                 /\ r.spend = spent[<<r.unit, r.date>>] /\ r.spend # 0
         /\ \A r, q \in Report(d) : r.unit = q.unit /\ r.date = q.date => r = q
         /\ \A x \in Window(d), u \in Units : spent[<<u, x>>] # 0 =>
               \E r \in Report(d) : r.unit = u /\ r.date = x
<1>1. \A r \in Rows : /\ r.unit \in Units /\ r.date \in StatDays /\ r.spend \in Nat \ {0}
                      /\ r = [unit |-> r.unit, date |-> r.date, spend |-> r.spend]
  BY IngestAssumption DEF Rows
<1>2. Report(d) \in SUBSET Rows
  BY DEF Report
<1>3. \A r \in Report(d) : /\ r.date \in Window(d) /\ r.unit \in Units /\ r.date \in StatDays
                           /\ r.spend = spent[<<r.unit, r.date>>] /\ r.spend # 0
  BY <1>1 DEF Report
<1>4. ASSUME NEW r \in Report(d), NEW q \in Report(d), r.unit = q.unit, r.date = q.date
      PROVE  r = q
  BY <1>1, <1>2, <1>3, <1>4
<1>5. ASSUME NEW x \in Window(d), NEW u \in Units, spent[<<u, x>>] # 0
      PROVE  \E r \in Report(d) : r.unit = u /\ r.date = x
  <2> DEFINE r == [unit |-> u, date |-> x, spend |-> spent[<<u, x>>]]
  <2>1. x \in StatDays /\ <<u, x>> \in Units \X StatDays
    BY DEF Window
  <2>2. spent[<<u, x>>] \in 1..MaxSpend
    BY <1>5, <2>1, IngestAssumption DEF AdTypeOK
  <2>3. r \in Report(d)
    BY <2>1, <2>2 DEF Report, Rows
  <2> QED BY <2>3
<1> QED BY <1>2, <1>3, <1>4, <1>5

\* The entities of a report.
LEMMA ReportEntities ==
  ASSUME NEW d \in StatDays, AdTypeOK
  PROVE  {EntityOf[r.unit] : r \in Report(d)} \subseteq Entities
<1>1. \A r \in Report(d) : r.unit \in Units
  BY InReport
<1>2. \A u \in Units : EntityOf[u] \in Entities
  BY DEF Entities
<1> QED BY <1>1, <1>2

\* Days and applications.
LEMMA DueDays ==
  /\ MaxDay \in Nat /\ Lookback \in Nat \ {0} /\ RestateDays \in Nat \ {0}
  /\ \A s \in StatDays : \A d \in Due(s) :
        d \in Window(s) /\ d \in StatDays /\ d \in Nat /\ d + RestateDays <= s
BY IngestAssumption DEF Due, Window, Final, StatDays

LEMMA AppsInOrder ==
  /\ Len(EnabledApps) \in Nat \ {0} /\ DOMAIN EnabledApps = 1..Len(EnabledApps)
  /\ 1 \in DOMAIN EnabledApps
  /\ \A i \in DOMAIN EnabledApps : EnabledApps[i] \in Apps
  /\ \A app \in Apps : \E i \in DOMAIN EnabledApps : app = EnabledApps[i]
<1>1. Len(EnabledApps) \in Nat /\ DOMAIN EnabledApps = 1..Len(EnabledApps) /\ EnabledApps # <<>>
  BY IngestAssumption
<1>2. Len(EnabledApps) # 0
  BY <1>1, IngestAssumption
<1> QED BY <1>1, <1>2 DEF Apps

\* A resting job, and one that starts with an app.
At(i, d) == [pc |-> "entities", app |-> i, day |-> d, ids |-> {}, report |-> {}]

LEMMA RunShapes ==
  /\ Idle \in [pc : {"idle", "entities", "performance", "store"}, app : DOMAIN EnabledApps,
               day : StatDays, ids : SUBSET Entities, report : SUBSET Rows]
  /\ Idle.pc = "idle"
  /\ \A i \in DOMAIN EnabledApps, d \in StatDays :
        At(i, d) \in [pc : {"idle", "entities", "performance", "store"}, app : DOMAIN EnabledApps,
                      day : StatDays, ids : SUBSET Entities, report : SUBSET Rows]
<1>1. 0 \in StatDays
  BY IngestAssumption DEF StatDays
<1> QED BY <1>1, AppsInOrder DEF Idle, At

\* What has one unit for each entity had so before.
LEMMA ClearBefore ==
  ASSUME \A u \in Units, d \in StatDays : spent[<<u, d>>] # 0 => spent'[<<u, d>>] # 0
  PROVE  \A s : Clear(s)' => Clear(s)
<1> SUFFICES ASSUME NEW s, Clear(s)', NEW e \in Entities, NEW d \in Window(s), TwoUnits(e, d)
             PROVE  FALSE
  BY DEF Clear
<1>1. PICK u \in Units, v \in Units : /\ u # v /\ EntityOf[u] = e /\ EntityOf[v] = e
                                     /\ spent[<<u, d>>] # 0 /\ spent[<<v, d>>] # 0
  BY DEF TwoUnits
<1>2. spent'[<<u, d>>] # 0 /\ spent'[<<v, d>>] # 0
  BY <1>1 DEF Window
<1>3. TwoUnits(e, d)'
  BY <1>1, <1>2 DEF TwoUnits
<1> QED BY <1>3 DEF Clear

LEMMA ClearSame == ASSUME UNCHANGED spent PROVE \A s : Clear(s)' => Clear(s)
BY ClearBefore

\* The platform counts: a date that is due is left alone, and what was spent is
\* never taken back.
LEMMA PlatformInv ==
  ASSUME AdInv, UNCHANGED <<adDay, stored, run, answered>>,
         spent' \in [Units \X StatDays -> 0..MaxSpend],
         \A u \in Units, d \in StatDays : spent[<<u, d>>] # 0 => spent'[<<u, d>>] # 0,
         \A u \in Units, d \in StatDays : d + RestateDays <= adDay =>
            spent'[<<u, d>>] = spent[<<u, d>>]
  PROVE  AdInv'
<1>1. \A s \in StatDays : s <= adDay =>
         \A d \in Due(s), u \in Units : d \in StatDays /\ spent'[<<u, d>>] = spent[<<u, d>>]
  BY DueDays DEF AdInv, AdTypeOK, StatDays
<1>2. AdTypeOK' /\ Dated'
  BY DEF AdInv, AdTypeOK, Dated
<1>3. run.day \in StatDays /\ answered \subseteq StatDays /\ \A s \in answered : s <= adDay
  BY DEF AdInv, AdTypeOK, Dated
<1>4. Fetched'
  <2>1. ASSUME run.pc \in {"performance", "store"}, NEW d \in Due(run.day), NEW u \in Units,
               spent'[<<u, d>>] # 0
        PROVE  EntityOf[u] \in run.ids
    BY <1>1, <1>3, <2>1 DEF AdInv, Dated, Fetched
  <2>2. ASSUME run.pc = "store", NEW r \in run.report
        PROVE  /\ r.date \in Window(run.day) /\ spent'[<<r.unit, r.date>>] # 0
               /\ Final(r.date, run.day) => r.spend = spent'[<<r.unit, r.date>>]
    <3>1. r.unit \in Units /\ r.date \in StatDays
      BY DEF AdInv, AdTypeOK, Rows
    <3>2. r.date \in Window(run.day) /\ spent'[<<r.unit, r.date>>] # 0
      BY <2>2, <3>1 DEF AdInv, Fetched
    <3>3. ASSUME Final(r.date, run.day) PROVE r.spend = spent'[<<r.unit, r.date>>]
      <4>1. r.date \in Due(run.day)
        BY <3>2, <3>3 DEF Due
      <4>2. run.day <= adDay
        BY <2>2 DEF AdInv, Dated
      <4> QED BY <1>1, <1>3, <2>2, <3>1, <3>3, <4>1, <4>2 DEF AdInv, Fetched
    <3> QED BY <3>2, <3>3
  <2>3. ASSUME run.pc = "store", NEW d \in Due(run.day), NEW u \in Units, spent'[<<u, d>>] # 0
        PROVE  \E r \in run.report : r.unit = u /\ r.date = d
    BY <1>1, <1>3, <2>3 DEF AdInv, Dated, Fetched
  <2>4. \A r, q \in run.report : run.pc = "store" /\ r.unit = q.unit /\ r.date = q.date => r = q
    BY DEF AdInv, Fetched
  <2> QED BY <2>1, <2>2, <2>3, <2>4 DEF Fetched, Due, Final
<1>5. StoredInv'
  <2>1. \A app \in Apps, e \in Entities, d \in StatDays : stored[<<app, e, d>>] # 0 =>
           \E u \in Units : EntityOf[u] = e /\ spent'[<<u, d>>] # 0
    BY DEF AdInv, StoredInv
  <2>2. ASSUME run.pc # "idle", NEW i \in DOMAIN EnabledApps, i < run.app,
               NEW d \in Due(run.day), NEW u \in Units, spent'[<<u, d>>] # 0
        PROVE  stored[<<EnabledApps[i], EntityOf[u], d>>] = spent'[<<u, d>>]
    BY <1>1, <1>3, <2>2 DEF AdInv, Dated, StoredInv, Right
  <2>3. ASSUME NEW s \in answered, Clear(s)', NEW d \in Due(s), NEW u \in Units,
               NEW app \in Apps, spent'[<<u, d>>] # 0
        PROVE  stored[<<app, EntityOf[u], d>>] = spent'[<<u, d>>]
    <3>1. Clear(s)
      BY <2>3, ClearBefore
    <3> QED BY <1>1, <1>3, <2>3, <3>1 DEF AdInv, StoredInv, Right
  <2>4. UNCHANGED <<run, stored, answered>>
    OBVIOUS
  <2> QED BY <2>1, <2>2, <2>3, <2>4 DEF StoredInv, Due, Final, Window, Right
<1> QED BY <1>2, <1>4, <1>5 DEF AdInv

LEMMA SpendInv == ASSUME AdInv, NEW u \in Units, Spend(u) PROVE AdInv'
<1>1. adDay \in StatDays /\ <<u, adDay>> \in Units \X StatDays /\ 1 \in 0..MaxSpend
  BY IngestAssumption DEF AdInv, AdTypeOK
<1>2. spent' \in [Units \X StatDays -> 0..MaxSpend]
  BY <1>1 DEF Spend, AdInv, AdTypeOK
<1>3. ASSUME NEW v \in Units, NEW d \in StatDays
      PROVE  spent'[<<v, d>>] = IF v = u /\ d = adDay THEN 1 ELSE spent[<<v, d>>]
  BY <1>1 DEF Spend, AdInv, AdTypeOK
<1>4. \A d \in StatDays : d + RestateDays <= adDay => d # adDay
  BY <1>1, DueDays DEF StatDays
<1>5. \A v \in Units, d \in StatDays : spent[<<v, d>>] # 0 => spent'[<<v, d>>] # 0
  BY <1>3
<1>6. \A v \in Units, d \in StatDays : d + RestateDays <= adDay =>
         spent'[<<v, d>>] = spent[<<v, d>>]
  BY <1>3, <1>4
<1>7. UNCHANGED <<adDay, stored, run, answered>>
  BY DEF Spend
<1> QED BY <1>2, <1>5, <1>6, <1>7, PlatformInv

LEMMA RestateInv ==
  ASSUME AdInv, NEW u \in Units, NEW d \in StatDays, Restate(u, d)
  PROVE  AdInv'
<1>1. PICK s \in 1..MaxSpend : spent' = [spent EXCEPT ![<<u, d>>] = s]
  BY DEF Restate
<1>2. adDay \in StatDays /\ <<u, d>> \in Units \X StatDays /\ s \in 0..MaxSpend /\ s # 0
  BY IngestAssumption DEF AdInv, AdTypeOK
<1>3. spent' \in [Units \X StatDays -> 0..MaxSpend]
  BY <1>1, <1>2 DEF AdInv, AdTypeOK
<1>4. \A v \in Units, e \in StatDays :
         spent'[<<v, e>>] = IF v = u /\ e = d THEN s ELSE spent[<<v, e>>]
  BY <1>1, <1>2 DEF AdInv, AdTypeOK
<1>5. \A e \in StatDays : e + RestateDays <= adDay => e # d
  BY <1>2, DueDays DEF StatDays, Restate
<1>6. \A v \in Units, e \in StatDays : spent[<<v, e>>] # 0 => spent'[<<v, e>>] # 0
  BY <1>2, <1>4
<1>7. \A v \in Units, e \in StatDays : e + RestateDays <= adDay =>
         spent'[<<v, e>>] = spent[<<v, e>>]
  BY <1>4, <1>5
<1>8. UNCHANGED <<adDay, stored, run, answered>>
  BY DEF Restate
<1> QED BY <1>3, <1>6, <1>7, <1>8, PlatformInv

LEMMA NextDayInv == ASSUME AdInv, NextDay PROVE AdInv'
<1>1. adDay \in StatDays /\ adDay' = adDay + 1 /\ adDay < MaxDay
  BY DEF NextDay, AdInv, AdTypeOK
<1>2. adDay' \in StatDays /\ \A s \in StatDays : s <= adDay => s <= adDay'
  BY <1>1, DueDays DEF StatDays
<1>3. UNCHANGED <<spent, stored, run, answered>>
  BY DEF NextDay
<1>4. AdTypeOK'
  BY <1>2, <1>3 DEF AdInv, AdTypeOK
<1>5. run.day \in StatDays /\ answered \subseteq StatDays
  BY DEF AdInv, AdTypeOK
<1>6. Dated'
  BY <1>2, <1>3, <1>5 DEF AdInv, Dated
<1>7. Fetched' /\ StoredInv'
  BY <1>3, ClearSame DEF AdInv, Fetched, StoredInv, Right, Due, Window, Final
<1> QED BY <1>4, <1>6, <1>7 DEF AdInv

\* The job starts, or stops without an answer.
LEMMA StartIngestInv == ASSUME AdInv, StartIngest PROVE AdInv'
<1>1. run' = At(1, adDay)
  BY DEF StartIngest, Idle, At
<1>2. UNCHANGED <<adDay, spent, stored, answered>>
  BY DEF StartIngest
<1>3. run'.pc = "entities" /\ run'.app = 1 /\ run'.day = adDay
  BY <1>1 DEF At
<1>4. AdTypeOK'
  BY <1>1, <1>2, RunShapes, AppsInOrder DEF AdInv, AdTypeOK
<1>5. adDay \in Nat
  BY DueDays DEF AdInv, AdTypeOK, StatDays
<1>6. Dated'
  BY <1>2, <1>3, <1>5 DEF AdInv, Dated
<1>7. Fetched'
  BY <1>3 DEF Fetched
<1>8. \A i \in DOMAIN EnabledApps : ~(i < 1)
  BY AppsInOrder
<1>9. StoredInv'
  BY <1>2, <1>3, <1>8, ClearSame DEF AdInv, StoredInv, Right, Due, Window, Final
<1> QED BY <1>4, <1>6, <1>7, <1>9 DEF AdInv

LEMMA IngestFailsInv == ASSUME AdInv, IngestFails PROVE AdInv'
<1>1. run' = Idle /\ run'.pc = "idle"
  BY RunShapes DEF IngestFails
<1>2. UNCHANGED <<adDay, spent, stored, answered>>
  BY DEF IngestFails
<1>3. AdTypeOK'
  BY <1>1, <1>2, RunShapes DEF AdInv, AdTypeOK
<1>4. Dated' /\ Fetched'
  BY <1>1, <1>2 DEF AdInv, Dated, Fetched
<1>5. StoredInv'
  BY <1>1, <1>2, ClearSame DEF AdInv, StoredInv, Right, Due, Window, Final
<1> QED BY <1>3, <1>4, <1>5 DEF AdInv

\* It fetches.
LEMMA FetchEntitiesInv == ASSUME AdInv, FetchEntities PROVE AdInv'
<1> DEFINE ids == IF Derived THEN {EntityOf[r.unit] : r \in Report(run.day)} ELSE Entities
<1>1. run' = [run EXCEPT !.pc = "performance", !.ids = ids]
  BY DEF FetchEntities
<1>2. UNCHANGED <<adDay, spent, stored, answered>> /\ run.pc = "entities"
  BY DEF FetchEntities
<1>3. AdTypeOK /\ run.day \in StatDays
  BY DEF AdInv, AdTypeOK
<1>4. ids \in SUBSET Entities
  BY <1>3, ReportEntities
<1>5. ASSUME NEW d \in Window(run.day), NEW u \in Units, spent[<<u, d>>] # 0
      PROVE  EntityOf[u] \in ids
  <2>1. \E r \in Report(run.day) : r.unit = u
    BY <1>3, <1>5, InReport
  <2> QED BY <2>1 DEF Entities
<1> HIDE DEF ids
<1>6. run'.pc = "performance" /\ run'.ids = ids /\ run'.day = run.day /\ run'.app = run.app
  BY <1>1, <1>3 DEF AdTypeOK
<1>7. AdTypeOK'
  BY <1>1, <1>2, <1>3, <1>4 DEF AdTypeOK
<1>8. Dated'
  BY <1>2, <1>6 DEF AdInv, Dated
<1>9. Fetched'
  BY <1>2, <1>5, <1>6 DEF Fetched, Due, Window, Final
<1>10. StoredInv'
  BY <1>2, <1>6, ClearSame DEF AdInv, StoredInv, Right, Due, Window, Final
<1> QED BY <1>7, <1>8, <1>9, <1>10 DEF AdInv

LEMMA FetchPerformanceInv == ASSUME AdInv, FetchPerformance PROVE AdInv'
<1> DEFINE report == Report(run.day)
<1>1. run' = [run EXCEPT !.pc = "store", !.report = report]
  BY DEF FetchPerformance
<1>2. UNCHANGED <<adDay, spent, stored, answered>> /\ run.pc = "performance"
  BY DEF FetchPerformance
<1>3. AdTypeOK /\ run.day \in StatDays
  BY DEF AdInv, AdTypeOK
<1>4. /\ report \in SUBSET Rows
      /\ \A r \in report : /\ r.date \in Window(run.day) /\ r.spend # 0
                           /\ r.spend = spent[<<r.unit, r.date>>]
      /\ \A r, q \in report : r.unit = q.unit /\ r.date = q.date => r = q
      /\ \A x \in Window(run.day), u \in Units : spent[<<u, x>>] # 0 =>
            \E r \in report : r.unit = u /\ r.date = x
  BY <1>3, InReport
<1> HIDE DEF report
<1>5. /\ run'.pc = "store" /\ run'.ids = run.ids /\ run'.day = run.day /\ run'.app = run.app
      /\ run'.report = report
  BY <1>1, <1>3 DEF AdTypeOK
<1>6. AdTypeOK'
  BY <1>1, <1>2, <1>3, <1>4 DEF AdTypeOK
<1>7. Dated'
  BY <1>2, <1>5 DEF AdInv, Dated
<1>8. Fetched'
  <2>1. \A d \in Due(run.day), u \in Units : spent[<<u, d>>] # 0 => EntityOf[u] \in run.ids
    BY <1>2 DEF AdInv, Fetched
  <2>2. \A d \in Due(run.day) : d \in Window(run.day)
    BY DEF Due
  <2> QED BY <1>2, <1>4, <1>5, <2>1, <2>2 DEF Fetched, Due, Window, Final
<1>9. StoredInv'
  BY <1>2, <1>5, ClearSame DEF AdInv, StoredInv, Right, Due, Window, Final
<1> QED BY <1>6, <1>7, <1>8, <1>9 DEF AdInv

-----------------------------------------------------------------------------
(* It stores.                                                              *)

\* The insert is refused because two units of an entity have spend on a day.
LEMMA RefusedTwice ==
  ASSUME AdInv, run.pc = "store", RowTwice
  PROVE  ~ Clear(run.day)
<1>1. PICK r \in Values, q \in Values : r # q /\ EntityOf[r.unit] = EntityOf[q.unit] /\ r.date = q.date
  BY DEF RowTwice
<1>2. r \in run.report /\ q \in run.report
  BY DEF Values
<1>3. r.unit \in Units /\ q.unit \in Units
  BY <1>2 DEF AdInv, AdTypeOK, Rows
<1>4. /\ r.unit # q.unit /\ r.date \in Window(run.day)
      /\ spent[<<r.unit, r.date>>] # 0 /\ spent[<<q.unit, r.date>>] # 0
  BY <1>1, <1>2 DEF AdInv, Fetched
<1> QED BY <1>1, <1>3, <1>4 DEF Clear, TwoUnits, Entities

\* One that is not holds one unit of each entity on a date that is due.
LEMMA DueSingle ==
  ASSUME AdInv, run.pc = "store", ~ RowTwice, NEW d \in Due(run.day),
         NEW u \in Units, NEW v \in Units, EntityOf[u] = EntityOf[v],
         spent[<<u, d>>] # 0, spent[<<v, d>>] # 0
  PROVE  u = v
<1>1. EntityOf[u] \in run.ids /\ EntityOf[v] \in run.ids
  BY DEF AdInv, Fetched
<1>2. PICK r \in run.report : r.unit = u /\ r.date = d
  BY DEF AdInv, Fetched
<1>3. PICK q \in run.report : q.unit = v /\ q.date = d
  BY DEF AdInv, Fetched
<1> QED BY <1>1, <1>2, <1>3 DEF RowTwice, Values

\* The values for a row.
New(x) == {r \in Values : x = <<EnabledApps[run.app], EntityOf[r.unit], r.date>>}

\* Those of an entity and a date are fetched rows of units of it that have spend;
\* if the date is due, the one row there is.
LEMMA NewRows ==
  ASSUME AdInv, run.pc = "store", ~ RowTwice, NEW e, NEW d \in StatDays, NEW app
  PROVE  LET new == New(<<app, e, d>>)
         IN  /\ new # {} => /\ app = EnabledApps[run.app] /\ d \in Window(run.day)
                            /\ \E v \in Units : EntityOf[v] = e /\ spent[<<v, d>>] # 0
             /\ \A u \in Units : app = EnabledApps[run.app] /\ d \in Due(run.day)
                               /\ e = EntityOf[u] /\ spent[<<u, d>>] # 0 =>
                   new # {} /\ (CHOOSE r \in new : TRUE).spend = spent[<<u, d>>]
<1> DEFINE x == <<app, e, d>>
<1>1. \A r \in run.report : r.unit \in Units /\ r.date \in StatDays
  BY DEF AdInv, AdTypeOK, Rows
<1>2. \A r \in New(x) : /\ app = EnabledApps[run.app] /\ r \in run.report
                        /\ r.unit \in Units /\ EntityOf[r.unit] = e /\ r.date = d
  BY <1>1 DEF New, Values
<1>3. \A r \in New(x) : /\ spent[<<r.unit, d>>] # 0 /\ d \in Window(run.day)
                        /\ d \in Due(run.day) => r.spend = spent[<<r.unit, d>>]
  BY <1>2 DEF AdInv, Fetched, Due
<1>4. New(x) # {} => (CHOOSE r \in New(x) : TRUE) \in New(x)
  OBVIOUS
<1>5. ASSUME NEW u \in Units, app = EnabledApps[run.app], d \in Due(run.day),
             e = EntityOf[u], spent[<<u, d>>] # 0
      PROVE  New(x) # {} /\ (CHOOSE r \in New(x) : TRUE).spend = spent[<<u, d>>]
  <2>1. PICK r \in run.report : r.unit = u /\ r.date = d
    BY <1>5 DEF AdInv, Fetched
  <2>2. EntityOf[u] \in run.ids
    BY <1>5 DEF AdInv, Fetched
  <2>3. r \in New(x)
    BY <1>5, <2>1, <2>2 DEF New, Values
  <2>4. ASSUME NEW q \in New(x) PROVE q.spend = spent[<<u, d>>]
    <3>1. q.unit = u
      BY <1>2, <1>3, <1>5, <2>4, DueSingle
    <3> QED BY <1>3, <1>5, <2>4, <3>1
  <2> QED BY <1>4, <2>3, <2>4
<1> QED BY <1>2, <1>3, <1>5

\* A row after the insert.
LEMMA UpsertedRow ==
  ASSUME AdInv, run.pc = "store", ~ RowTwice, StorePerformance,
         NEW app \in Apps, NEW e \in Entities, NEW d \in StatDays
  PROVE  /\ stored'[<<app, e, d>>] # stored[<<app, e, d>>] =>
               /\ app = EnabledApps[run.app] /\ d \in Window(run.day)
               /\ \E v \in Units : EntityOf[v] = e /\ spent[<<v, d>>] # 0
         /\ \A u \in Units : app = EnabledApps[run.app] /\ d \in Due(run.day)
                           /\ e = EntityOf[u] /\ spent[<<u, d>>] # 0 =>
               stored'[<<app, e, d>>] = spent[<<u, d>>]
<1> DEFINE x == <<app, e, d>>
<1>1. stored' = [y \in DOMAIN stored |-> IF New(y) = {} THEN stored[y]
                                         ELSE (CHOOSE r \in New(y) : TRUE).spend]
  BY DEF StorePerformance, New
<1>2. x \in DOMAIN stored
  BY DEF AdInv, AdTypeOK
<1>3. stored'[x] = IF New(x) = {} THEN stored[x] ELSE (CHOOSE r \in New(x) : TRUE).spend
  BY <1>1, <1>2
<1> QED BY <1>3, NewRows

\* The next app, or the end.
LEMMA Ends ==
  ASSUME run.app \in DOMAIN EnabledApps, EndOfApp
  PROVE  \/ run.app < Len(EnabledApps) /\ run' = At(run.app + 1, run.day) /\ answered' = answered
         \/ run.app = Len(EnabledApps) /\ run' = Idle /\ answered' = answered \cup {run.day}
<1>1. run.app \in 1..Len(EnabledApps) /\ Len(EnabledApps) \in Nat
  BY AppsInOrder
<1>2. run.app < Len(EnabledApps) \/ run.app = Len(EnabledApps)
  BY <1>1
<1>3. ASSUME NEW i, NEW d, NEW r, r = [Idle EXCEPT !.pc = "entities", !.app = i, !.day = d]
      PROVE  r = At(i, d)
  BY <1>3 DEF Idle, At
<1> QED BY <1>1, <1>2, <1>3 DEF EndOfApp

LEMMA StoreTypes == ASSUME AdTypeOK, StorePerformance PROVE AdTypeOK'
<1>1. UNCHANGED <<adDay, spent>> /\ run.day \in StatDays /\ run.app \in DOMAIN EnabledApps
  BY DEF AdTypeOK, StorePerformance
<1>2. /\ run' = Idle \/ (run.app < Len(EnabledApps) /\ run' = At(run.app + 1, run.day))
      /\ answered' \subseteq answered \cup {run.day}
  BY <1>1, Ends DEF StorePerformance
<1>3. run.app < Len(EnabledApps) => run.app + 1 \in DOMAIN EnabledApps
  BY <1>1, AppsInOrder
<1>4. run' \in [pc : {"idle", "entities", "performance", "store"}, app : DOMAIN EnabledApps,
                day : StatDays, ids : SUBSET Entities, report : SUBSET Rows]
  BY <1>1, <1>2, <1>3, RunShapes
<1>5. \/ stored' = stored
      \/ stored' = [y \in DOMAIN stored |-> IF New(y) = {} THEN stored[y]
                                            ELSE (CHOOSE r \in New(y) : TRUE).spend]
  BY DEF StorePerformance, New
<1>6. \A y \in DOMAIN stored : (IF New(y) = {} THEN stored[y]
                                ELSE (CHOOSE r \in New(y) : TRUE).spend) \in 0..MaxSpend
  <2>1. TAKE y \in DOMAIN stored
  <2>2. CASE New(y) = {}
    BY <2>2 DEF AdTypeOK
  <2>3. CASE New(y) # {}
    <3>1. (CHOOSE r \in New(y) : TRUE) \in New(y)
      BY <2>3
    <3>2. New(y) \subseteq Rows
      BY DEF AdTypeOK, New, Values
    <3>3. \A r \in Rows : r.spend \in 0..MaxSpend
      BY IngestAssumption DEF Rows
    <3> QED BY <2>3, <3>1, <3>2, <3>3
  <2> QED BY <2>2, <2>3
<1>7. stored' \in [Apps \X Entities \X StatDays -> 0..MaxSpend]
  BY <1>5, <1>6 DEF AdTypeOK
<1> QED BY <1>1, <1>2, <1>4, <1>7 DEF AdTypeOK

\* The insert is refused: the job fails, and nothing has changed.
LEMMA RefusedInv == ASSUME AdInv, StorePerformance, RowTwice PROVE AdInv'
<1>1. /\ run' = Idle /\ answered' = answered \cup {run.day}
      /\ UNCHANGED <<adDay, spent, stored>> /\ run.pc = "store" /\ run'.pc = "idle"
  BY RunShapes DEF StorePerformance
<1>2. AdTypeOK' /\ run.day \in StatDays
  BY StoreTypes DEF AdInv, AdTypeOK
<1>3. Dated' /\ Fetched'
  BY <1>1 DEF AdInv, Dated, Fetched
<1>4. ~ Clear(run.day)
  BY <1>1, RefusedTwice
<1>5. \A s \in answered' : Clear(s)' => s \in answered /\ Clear(s)
  BY <1>1, <1>4, ClearSame
<1>6. \A s \in answered' : Clear(s)' =>
         \A d \in Due(s), u \in Units, app \in Apps : Right(app, u, d)'
  BY <1>1, <1>5 DEF AdInv, StoredInv, Right
<1>7. StoredInv'
  BY <1>1, <1>6 DEF AdInv, StoredInv, Due, Window, Final
<1> QED BY <1>2, <1>3, <1>7 DEF AdInv

LEMMA StoreInvariant == ASSUME AdInv, StorePerformance, ~ RowTwice PROVE AdInv'
<1>1. run.pc = "store" /\ UNCHANGED <<adDay, spent>>
  BY DEF StorePerformance
<1>2. AdTypeOK /\ run.day \in StatDays /\ run.app \in DOMAIN EnabledApps /\ adDay \in StatDays
  BY DEF AdInv, AdTypeOK
<1>3. EndOfApp
  BY DEF StorePerformance
<1>4. \/ run.app < Len(EnabledApps) /\ run' = At(run.app + 1, run.day) /\ answered' = answered
      \/ run.app = Len(EnabledApps) /\ run' = Idle /\ answered' = answered \cup {run.day}
  BY <1>2, <1>3, Ends
<1>5. \A u \in Units : EntityOf[u] \in Entities
  BY DEF Entities
<1>7. AdTypeOK'
  BY <1>2, StoreTypes
<1>8. /\ run'.pc \in {"idle", "entities"}
      /\ run'.pc # "idle" => run'.app = run.app + 1 /\ run'.day = run.day /\ answered' = answered
      /\ run'.pc = "idle" => run.app = Len(EnabledApps)
      /\ answered' \subseteq answered \cup {run.day}
      /\ answered' # answered => run.app = Len(EnabledApps)
  BY <1>4, RunShapes DEF At
<1>9. /\ run.day <= adDay /\ run.day \in Nat
      /\ \A s \in answered : s \in StatDays /\ s \in Nat /\ s <= run.day /\ s <= adDay
  BY <1>1, <1>2, DueDays DEF AdInv, AdTypeOK, Dated, StatDays
<1>10. Dated'
  BY <1>1, <1>8, <1>9 DEF Dated
<1>11. Fetched'
  BY <1>8 DEF Fetched
\* A row of the app and of a date that is due is right now, one of another app
\* is as it was, and so is one of a date that is not due.
<1>12. ASSUME NEW i \in DOMAIN EnabledApps, i <= run.app, NEW d \in Due(run.day),
              NEW u \in Units, spent[<<u, d>>] # 0
       PROVE  stored'[<<EnabledApps[i], EntityOf[u], d>>] = spent[<<u, d>>]
  <2>1. d \in StatDays /\ EnabledApps[i] \in Apps
    BY <1>2, DueDays, AppsInOrder
  <2>2. CASE i = run.app
    BY <1>1, <1>5, <2>1, <2>2, <1>12, UpsertedRow
  <2>3. CASE i # run.app
    <3>1. i < run.app /\ EnabledApps[i] # EnabledApps[run.app]
      BY <1>2, <1>12, <2>3, AppsInOrder, IngestAssumption
    <3>2. Right(EnabledApps[i], u, d)
      BY <1>1, <1>12, <3>1 DEF AdInv, StoredInv
    <3> QED BY <1>1, <1>5, <1>12, <2>1, <3>1, <3>2, UpsertedRow DEF Right
  <2> QED BY <2>2, <2>3
<1>13. ASSUME NEW s \in answered, Clear(s), NEW d \in Due(s), NEW u \in Units, NEW app \in Apps,
              spent[<<u, d>>] # 0
       PROVE  stored'[<<app, EntityOf[u], d>>] = spent[<<u, d>>]
  <2>1. /\ d \in StatDays /\ s \in StatDays /\ d + RestateDays <= s
        /\ s <= run.day /\ d \in Nat /\ s \in Nat
    BY <1>9, DueDays
  <2>2. stored[<<app, EntityOf[u], d>>] = spent[<<u, d>>]
    BY <1>13 DEF AdInv, StoredInv, Right
  <2>3. CASE app = EnabledApps[run.app] /\ d \in Window(run.day)
    <3>1. d \in Due(run.day)
      BY <1>9, <2>1, <2>3, DueDays DEF Due, Final
    <3> QED BY <1>1, <1>5, <1>13, <2>1, <2>3, <3>1, UpsertedRow
  <2>4. CASE ~ (app = EnabledApps[run.app] /\ d \in Window(run.day))
    BY <1>1, <1>5, <2>1, <2>2, <2>4, UpsertedRow
  <2> QED BY <2>3, <2>4
<1>14. StoredInv'
  <2>1. ASSUME NEW app \in Apps, NEW e \in Entities, NEW d \in StatDays,
               stored'[<<app, e, d>>] # 0
        PROVE  \E u \in Units : EntityOf[u] = e /\ spent[<<u, d>>] # 0
    BY <1>1, <2>1, UpsertedRow DEF AdInv, StoredInv
  <2>2. ASSUME run'.pc # "idle", NEW i \in DOMAIN EnabledApps, i < run'.app,
               NEW d \in Due(run'.day), NEW u \in Units, spent[<<u, d>>] # 0
        PROVE  stored'[<<EnabledApps[i], EntityOf[u], d>>] = spent[<<u, d>>]
    <3>1. i <= run.app /\ d \in Due(run.day)
      BY <1>2, <1>8, <2>2, AppsInOrder
    <3> QED BY <1>12, <2>2, <3>1
  <2>3. ASSUME NEW s \in answered', Clear(s), NEW d \in Due(s), NEW u \in Units,
               NEW app \in Apps, spent[<<u, d>>] # 0
        PROVE  stored'[<<app, EntityOf[u], d>>] = spent[<<u, d>>]
    <3>1. CASE s \in answered
      BY <1>13, <2>3, <3>1
    <3>2. CASE s \notin answered
      <4>1. s = run.day /\ run.app = Len(EnabledApps)
        BY <1>8, <3>2
      <4>2. PICK i \in DOMAIN EnabledApps : app = EnabledApps[i]
        BY AppsInOrder
      <4>3. i <= run.app
        BY <4>1, AppsInOrder
      <4> QED BY <1>12, <2>3, <4>1, <4>2, <4>3
    <3> QED BY <3>1, <3>2
  <2> QED BY <1>1, <2>1, <2>2, <2>3, ClearSame DEF StoredInv, Right, Due, Window, Final
<1> QED BY <1>7, <1>10, <1>11, <1>14 DEF AdInv

LEMMA AdStep == ASSUME AdInv, [AdNext]_adVars PROVE AdInv'
<1>1. CASE AdNext
  BY <1>1, SpendInv, RestateInv, NextDayInv, StartIngestInv, FetchEntitiesInv,
     FetchPerformanceInv, RefusedInv, StoreInvariant, IngestFailsInv DEF AdNext
<1>2. CASE UNCHANGED adVars
  BY <1>2, ClearSame DEF adVars, AdInv, AdTypeOK, Dated, Fetched, StoredInv, Right, Due, Window, Final
<1> QED BY <1>1, <1>2

LEMMA AdStart == AdInit => AdInv
<1> SUFFICES ASSUME AdInit PROVE AdInv
  OBVIOUS
<1>1. 0 \in StatDays /\ 0 \in 0..MaxSpend
  BY IngestAssumption DEF StatDays
<1>2. AdTypeOK
  BY <1>1, RunShapes DEF AdInit, AdTypeOK
<1>3. Dated /\ Fetched
  BY RunShapes DEF AdInit, Dated, Fetched
<1>4. \A app \in Apps, u \in Units, d \in StatDays : stored[<<app, EntityOf[u], d>>] = 0
  BY DEF AdInit, Entities
<1>5. StoredInv
  BY <1>4, RunShapes DEF AdInit, StoredInv
<1> QED BY <1>2, <1>3, <1>5 DEF AdInv

\* The sum over an entity's units is what the one unit spent that spent anything.
LEMMA SpentIsSum ==
  ASSUME NEW e, NEW d \in StatDays
  PROVE  Spent(e, d) = Sum([v \in Units |-> spent[<<v, d>>]], {v \in Units : EntityOf[v] = e})
<1> DEFINE S == {v \in Units : EntityOf[v] = e}
           g == [v \in Units |-> spent[<<v, d>>]]
           Eq(H) == H = [s \in SUBSET S |-> IF s = {} THEN 0
                         ELSE spent[<<AnyOf(s), d>>] + H[s \ {AnyOf(s)}]]
<1>1. IsFiniteSet(S)
  BY IngestAssumption, FS_Subset
<1>2. PICK F : Adds(F, g, SUBSET S)
  BY <1>1, SumExists
<1>3. \A s \in SUBSET S : s # {} => AnyOf(s) \in S
  BY <1>1, OneLess
<1>4. \A s \in SUBSET S : s # {} => g[AnyOf(s)] = spent[<<AnyOf(s), d>>]
  BY <1>3
<1>5. \A H : Eq(H) <=> Adds(H, g, SUBSET S)
  BY <1>4 DEF Adds
<1>6. Eq(CHOOSE H : Eq(H))
  BY <1>2, <1>5
<1>7. Spent(e, d) = (CHOOSE H : Eq(H))[S]
  BY DEF Spent, MapThenSumSet, MapThenFoldSet, AnyOf
<1> HIDE DEF Eq, g, S
<1>8. Adds(CHOOSE H : Eq(H), g, SUBSET S) /\ S \in SUBSET S
  BY <1>5, <1>6
<1>9. (CHOOSE H : Eq(H))[S] = Sum(g, S)
  BY <1>1, <1>8, SumWithin
<1> QED BY <1>7, <1>9 DEF g, S

LEMMA NothingSpent ==
  ASSUME NEW g, NEW S, IsFiniteSet(S), \A v \in S : g[v] = 0
  PROVE  Sum(g, S) = 0
<1> DEFINE Z == [s \in SUBSET S |-> 0]
<1>1. Adds(Z, g, SUBSET S)
  <2>1. \A s \in SUBSET S : s # {} => g[AnyOf(s)] = 0 /\ s \ {AnyOf(s)} \in SUBSET S
    BY OneLess
  <2> QED BY <2>1 DEF Adds
<1> QED BY <1>1, SumWithin

LEMMA SpentOfUnit ==
  ASSUME AdTypeOK, NEW e \in Entities, NEW d \in StatDays, ~ TwoUnits(e, d)
  PROVE  /\ \A u \in Units : EntityOf[u] = e /\ spent[<<u, d>>] # 0 => Spent(e, d) = spent[<<u, d>>]
         /\ (\A u \in Units : EntityOf[u] = e => spent[<<u, d>>] = 0) => Spent(e, d) = 0
<1> DEFINE S == {v \in Units : EntityOf[v] = e}
           g == [v \in Units |-> spent[<<v, d>>]]
<1>1. IsFiniteSet(S) /\ Spent(e, d) = Sum(g, S)
  BY IngestAssumption, FS_Subset, SpentIsSum
<1>2. \A v \in S : g[v] \in Nat
  BY IngestAssumption DEF AdTypeOK
<1>3. ASSUME NEW u \in Units, EntityOf[u] = e, spent[<<u, d>>] # 0
      PROVE  Spent(e, d) = spent[<<u, d>>]
  <2> DEFINE T == S \ {u}
  <2>1. \A v \in T : g[v] = 0
    BY <1>3 DEF TwoUnits
  <2>2. u \in S /\ T \cup {u} = S /\ T \in SUBSET S /\ IsFiniteSet(T)
    BY <1>1, <1>3, FS_Subset
  <2>3. g[u] = spent[<<u, d>>] /\ g[u] \in Nat
    BY <1>2, <2>2
  <2> HIDE DEF S, g
  <2>4. Sum(g, T) = 0
    BY <2>1, <2>2, NothingSpent
  <2>5. Sum(g, T \cup {u}) = Sum(g, T) + g[u]
    BY <1>1, <1>2, <2>2, SumAdd
  <2> HIDE DEF T
  <2>6. Sum(g, S) = Sum(g, T) + g[u]
    BY <2>2, <2>5
  <2>7. Spent(e, d) = g[u]
    BY ONLY <1>1, <2>3, <2>4, <2>6
  <2> QED BY ONLY <2>3, <2>7
<1>4. ASSUME \A u \in Units : EntityOf[u] = e => spent[<<u, d>>] = 0
      PROVE  Spent(e, d) = 0
  <2>1. \A v \in S : g[v] = 0
    BY <1>4
  <2> HIDE DEF S, g
  <2> QED BY <1>1, <2>1, NothingSpent
<1> QED BY <1>3, <1>4

\* LookbackAbsorbs for the runs whose window has no entity twice.
ClearAbsorbs ==
    \A d \in StatDays, s \in answered :
        s >= d + RestateDays /\ s < d + Lookback /\ Clear(s) =>
            \A app \in Apps, e \in Entities : stored[<<app, e, d>>] = Spent(e, d)

LEMMA Absorbs == AdInv => ClearAbsorbs
<1> SUFFICES ASSUME AdInv, NEW d \in StatDays, NEW s \in answered, Clear(s),
                    s >= d + RestateDays, s < d + Lookback, NEW app \in Apps, NEW e \in Entities
             PROVE  stored[<<app, e, d>>] = Spent(e, d)
  BY DEF ClearAbsorbs
<1>1. s \in Nat /\ d \in Nat
  BY DueDays DEF AdInv, AdTypeOK, StatDays
<1>2. d \in Due(s)
  BY <1>1, DueDays DEF Due, Window, Final
<1>3. ~ TwoUnits(e, d)
  BY <1>2, DueDays DEF Clear, Due
<1>4. CASE \E u \in Units : EntityOf[u] = e /\ spent[<<u, d>>] # 0
  <2>1. PICK u \in Units : EntityOf[u] = e /\ spent[<<u, d>>] # 0
    BY <1>4
  <2>2. Right(app, u, d)
    BY <1>2 DEF AdInv, StoredInv
  <2>3. Spent(e, d) = spent[<<u, d>>]
    BY <1>3, <2>1, SpentOfUnit DEF AdInv
  <2> QED BY <2>1, <2>2, <2>3 DEF Right
<1>5. CASE ~ \E u \in Units : EntityOf[u] = e /\ spent[<<u, d>>] # 0
  <2>1. stored[<<app, e, d>>] = 0
    BY <1>5 DEF AdInv, StoredInv
  <2>2. Spent(e, d) = 0
    BY <1>3, <1>5, SpentOfUnit DEF AdInv
  <2> QED BY <2>1, <2>2
<1> QED BY <1>4, <1>5

\* Whatever units the entities have: however often the ingest failed, was late or
\* stopped half-way through the apps, one run that had all its answers while a
\* date was due stores it right for every app, unless on some day of its window
\* two units of one entity had spend.
THEOREM ClearWindowsAbsorb == AdSpec => []ClearAbsorbs
<1>1. AdInv /\ [AdNext]_adVars => AdInv'
  BY AdStep
<1>2. AdInv => ClearAbsorbs
  BY Absorbs
<1> QED BY <1>1, <1>2, AdStart, PTL DEF AdSpec

\* Each entity is of one unit: Meta's ads, and Google's campaigns that have one
\* ad group.
OneUnitEach == \A u, v \in Units : EntityOf[u] = EntityOf[v] => u = v

\* So it is for every run where each entity's spend comes from one unit.
THEOREM LookbackHolds == ASSUME OneUnitEach PROVE AdSpec => []LookbackAbsorbs
<1>1. ClearAbsorbs => LookbackAbsorbs
  BY DEF ClearAbsorbs, LookbackAbsorbs, OneUnitEach, Clear, TwoUnits
<1> QED BY <1>1, ClearWindowsAbsorb, PTL

\* And what two units cost: while a date that is due has two of one entity, the
\* runs store nothing at all, of no entity, date or app.
THEOREM TwoUnitsBlock ==
  AdSpec => [][\A d \in Due(run.day) : (\E e \in Entities : TwoUnits(e, d)) => stored' = stored]_adVars
<1>1. AdInv /\ [AdNext]_adVars =>
        [\A d \in Due(run.day) : (\E e \in Entities : TwoUnits(e, d)) => stored' = stored]_adVars
  <2> SUFFICES ASSUME AdInv, [AdNext]_adVars, NEW d \in Due(run.day), NEW e \in Entities,
                      TwoUnits(e, d), stored' # stored
               PROVE  FALSE
    OBVIOUS
  <2>1. StorePerformance
    BY DEF AdNext, adVars, Spend, Restate, NextDay, StartIngest, FetchEntities,
           FetchPerformance, IngestFails
  <2>2. run.pc = "store" /\ ~ RowTwice
    BY <2>1 DEF StorePerformance
  <2> QED BY <2>2, DueSingle DEF TwoUnits
<1>2. AdInv /\ [AdNext]_adVars => AdInv'
  BY AdStep
<1> QED BY <1>1, <1>2, AdStart, PTL DEF AdSpec

\* The state of the ingest has its types.
LEMMA AdTypeStep == ASSUME AdTypeOK, [AdNext]_adVars PROVE AdTypeOK'
<1>1. ASSUME NEW u \in Units, Spend(u) PROVE AdTypeOK'
  BY <1>1, IngestAssumption DEF Spend, AdTypeOK
<1>2. ASSUME NEW u \in Units, NEW d \in StatDays, Restate(u, d) PROVE AdTypeOK'
  <2>1. PICK s \in 1..MaxSpend : spent' = [spent EXCEPT ![<<u, d>>] = s]
    BY <1>2 DEF Restate
  <2>2. s \in 0..MaxSpend
    BY IngestAssumption
  <2> QED BY <1>2, <2>1, <2>2 DEF Restate, AdTypeOK
<1>3. CASE NextDay
  BY <1>3, IngestAssumption DEF NextDay, AdTypeOK, StatDays
<1>4. CASE StartIngest
  <2>1. run' = At(1, adDay)
    BY <1>4 DEF StartIngest, Idle, At
  <2> QED BY <1>4, <2>1, RunShapes, AppsInOrder DEF StartIngest, AdTypeOK
<1>5. CASE FetchEntities
  <2>1. run.day \in StatDays
    BY DEF AdTypeOK
  <2>2. (IF Derived THEN {EntityOf[r.unit] : r \in Report(run.day)} ELSE Entities) \in SUBSET Entities
    BY <2>1, ReportEntities
  <2> QED BY <1>5, <2>2 DEF FetchEntities, AdTypeOK
<1>6. CASE FetchPerformance
  <2>1. Report(run.day) \in SUBSET Rows
    BY InReport DEF AdTypeOK
  <2> QED BY <1>6, <2>1 DEF FetchPerformance, AdTypeOK
<1>7. CASE StorePerformance
  BY <1>7, StoreTypes
<1>8. CASE IngestFails
  BY <1>8, RunShapes DEF IngestFails, AdTypeOK
<1>9. CASE UNCHANGED adVars
  BY <1>9 DEF adVars, AdTypeOK
<1> QED BY <1>1, <1>2, <1>3, <1>4, <1>5, <1>6, <1>7, <1>8, <1>9 DEF AdNext

THEOREM AdTypes == AdSpec => []AdTypeOK
<1>1. AdInit => AdTypeOK
  BY AdStart DEF AdInv
<1>2. AdTypeOK /\ [AdNext]_adVars => AdTypeOK'
  BY AdTypeStep
<1> QED BY <1>1, <1>2, PTL DEF AdSpec

-----------------------------------------------------------------------------
(* MCSideBySide: the components share no state, so each of them behaves as *)
(* it does alone, and what is proved of it holds beside the others.        *)

\* Whichever component runs, every one of them takes only steps of its own.
THEOREM EachRunsAlone ==
  SideSpec => Spec /\ AdSpec /\ AlertSpec /\ GeoSpec /\ ProducerSpec /\ BeaconSpec
<1>1. SideInit => Init /\ AdInit /\ AlertInit /\ GeoInit /\ ProducerInit /\ BeaconInit
  BY DEF SideInit
<1>2. [SideNext]_sideVars => [Next]_vars
  BY DEF SideNext, sideVars
<1>3. [SideNext]_sideVars => [AdNext]_adVars
  BY DEF SideNext, sideVars
<1>4. [SideNext]_sideVars => [AlertNext]_alertVars
  BY DEF SideNext, sideVars
<1>5. [SideNext]_sideVars => [GeoNext]_geoVars
  BY DEF SideNext, sideVars
<1>6. [SideNext]_sideVars => [ProducerNext]_producerVars
  BY DEF SideNext, sideVars
<1>7. [SideNext]_sideVars => [BeaconNext]_beaconVars
  BY DEF SideNext, sideVars
<1> QED
  BY <1>1, <1>2, <1>3, <1>4, <1>5, <1>6, <1>7, PTL
     DEF SideSpec, Spec, AdSpec, AlertSpec, GeoSpec, ProducerSpec, BeaconSpec

\* The state of all six has its types.
THEOREM AllTypesHold == SideSpec => []TypesOK
<1>1. TypeOK /\ AdTypeOK /\ AlertTypeOK /\ GeoTypeOK /\ ProducerTypeOK /\ BeaconTypeOK => TypesOK
  BY DEF TypesOK
<1> QED
  BY <1>1, EachRunsAlone, TypeCorrect, AdTypes, AlertTypes, GeoTypes, ProducerTypes, BeaconTypes, PTL

\* What the run asks of them holds of any number of events, reports, executions,
\* lanes, bookings, landings and failures, whichever component runs.
THEOREM SideBySideHolds ==
  SideSpec => /\ [](/\ AlertsCostStalls /\ FollowUpsCostFaults /\ AnswersKept /\ FirstOrderOnce
                    /\ OrdersCostFaults /\ RevenueOnce /\ TouchesCostFaults /\ ReportsAgree
                    /\ ClearAbsorbs)
              /\ LoginKeepsProgress
BY EachRunsAlone, AlertsHold, FollowUpsHold, GeoHolds, FirstOrderHolds, OrdersHold, RevenueHolds,
   BeaconHolds, ReportsHold, ClearWindowsAbsorb, LoginHolds, PTL
=============================================================================
