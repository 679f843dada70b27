---------------------------- MODULE DeliveryProofs ----------------------------
(***************************************************************************)
(* Proofs about what is delivered from outside, late, repeated or not at   *)
(* all: events to the event store, orders from the backend, touches from   *)
(* the edge, for every number of deliveries, retries and failures; and     *)
(* about the reports that read what has arrived.                           *)
(***************************************************************************)
EXTENDS EventMetrics, SpendReports, TouchBeacon, Counting, SequenceTheorems

(* EventStore: requests and the partition job.                             *)

-----------------------------------------------------------------------------
(* Months.                                                                 *)

\* What dividing by the length of a month means.
LEMMA Division ==
  ASSUME NEW t \in Nat
  PROVE  /\ t \div MonthLength \in Nat
         /\ MonthLength * (t \div MonthLength) <= t
         /\ t < MonthLength * (t \div MonthLength) + MonthLength
BY EventAssumption, Z3

\* Later is not in an earlier month.
LEMMA DivisionGrows ==
  ASSUME NEW s \in Nat, NEW t \in Nat, s <= t
  PROVE  s \div MonthLength <= t \div MonthLength
<1> DEFINE p == s \div MonthLength
           q == t \div MonthLength
<1>1. /\ p \in Nat /\ q \in Nat
      /\ MonthLength * p <= s /\ t < MonthLength * q + MonthLength
  BY Division
<1> HIDE DEF p, q
<1>2. ASSUME p > q PROVE FALSE
  <2>1. PICK k \in Nat : p = q + 1 + k
    <3>1. p - q - 1 \in Nat /\ p = q + 1 + (p - q - 1)
      BY <1>1, <1>2
    <3> QED BY <3>1
  <2>2. MonthLength * p = MonthLength * q + MonthLength + MonthLength * k
    BY <1>1, <2>1, EventAssumption
  <2>3. MonthLength * k \in Nat /\ MonthLength * q \in Nat
    BY <1>1, <2>1, EventAssumption
  <2> QED BY <1>1, <2>2, <2>3, EventAssumption
<1> QED BY <1>1, <1>2 DEF p, q

\* The two clocks: the UTC month is not ahead, and grows with time.
LEMMA MonthType ==
  ASSUME NEW t \in Nat
  PROVE  Month(t) \in Nat
BY Division DEF Month

LEMMA MonthGrows ==
  ASSUME NEW s \in Nat, NEW t \in Nat, s <= t
  PROVE  Month(s) <= Month(t)
BY DivisionGrows DEF Month

LEMMA UtcMonthType ==
  ASSUME NEW t \in Nat, MonthLength <= t
  PROVE  UtcMonth(t) \in Nat /\ UtcMonth(t) <= Month(t)
<1>1. t - UtcLag \in Nat /\ t - UtcLag <= t
  BY EventAssumption
<1> QED BY <1>1, Division, DivisionGrows DEF UtcMonth, Month

LEMMA UtcMonthGrows ==
  ASSUME NEW s \in Nat, NEW t \in Nat, MonthLength <= s, s <= t
  PROVE  UtcMonth(s) <= UtcMonth(t)
<1>1. s - UtcLag \in Nat /\ t - UtcLag \in Nat /\ s - UtcLag <= t - UtcLag
  BY EventAssumption
<1> QED BY <1>1, DivisionGrows DEF UtcMonth

\* When the cron fires, UTC is still in the month that has just ended in IST.
LEMMA CronMonth ==
  ASSUME NEW t \in Nat, MonthLength <= t, (t + 1) % MonthLength = 0
  PROVE  Month(t) <= UtcMonth(t + 1)
<1> DEFINE q == t \div MonthLength
           u == (t + 1) \div MonthLength
           v == ((t + 1) - UtcLag) \div MonthLength
<1>1. /\ q \in Nat /\ u \in Nat /\ v \in Nat
      /\ MonthLength * q <= t
      /\ (t + 1) - UtcLag < MonthLength * v + MonthLength
      /\ t + 1 = MonthLength * u
  <2>1. t + 1 = (MonthLength * u) + ((t + 1) % MonthLength)
    BY EventAssumption, Z3
  <2>2. (t + 1) - UtcLag \in Nat /\ t + 1 \in Nat /\ MonthLength * u \in Nat
    BY Division, EventAssumption
  <2> HIDE DEF u
  <2> QED BY <2>1, <2>2, Division DEF u
<1> HIDE DEF q, u, v
<1>2. ASSUME v < q PROVE FALSE
  <2>1. PICK k \in Nat : q = v + 1 + k
    <3>1. q - v - 1 \in Nat /\ q = v + 1 + (q - v - 1)
      BY <1>1, <1>2
    <3> QED BY <3>1
  <2>2. MonthLength * q = MonthLength * v + MonthLength + MonthLength * k
    BY <1>1, <2>1, EventAssumption
  <2>3. MonthLength * k \in Nat /\ MonthLength * v \in Nat
    BY <1>1, <2>1, EventAssumption
  <2>4. MonthLength * v + MonthLength <= t
    BY <1>1, <2>2, <2>3, EventAssumption
  <2>5. MonthLength * (v + 1) < MonthLength * u /\ MonthLength * u < MonthLength * (v + 2)
    BY <1>1, <2>3, <2>4, EventAssumption
  <2> QED BY <1>1, <2>5, EventAssumption, Z3
<1>3. q <= v
  BY <1>1, <1>2
<1>4. q = Month(t) /\ v = UtcMonth(t + 1)
  <2>1. q = Month(t)
    BY DEF q, Month
  <2>2. v = UtcMonth(t + 1)
    BY DEF v, UtcMonth
  <2> QED BY <2>1, <2>2
<1> QED BY <1>3, <1>4

-----------------------------------------------------------------------------
(* The invariant.                                                          *)

\* The month a run reckons from is not ahead of the clock, and what it has listed
\* to be dropped lies before or after the months it retains.
JobInv ==
    /\ job.pc \in {"create", "list", "drop"} => job.month <= UtcMonth(now)
    /\ job.pc = "drop" => /\ job.old \subseteq partitions
                          /\ \A m \in job.old : \/ m + Retention < job.month + 1
                                                \/ job.month + 2 < m

\* TypeOK, a clock past the first month, so that no clamped time is negative,
\* a minted stamp for each event that has a row, and what a request links.
IInv ==
    /\ TypeOK
    /\ MonthLength <= now
    /\ job.month <= Month(MaxTime)
    /\ \A c \in Clients : request[c].pc = "link" => request[c].links = request[c].batch \cap Identified
    /\ AckedIsLinked

\* No attempt of the job is still at work when IST is two months past the UTC
\* month it began in, which takes it most of a month at least.
Prompt == job.pc \in {"create", "list", "drop"} => Month(now) <= job.month + 1

\* No row lies further ahead than the clock may be behind the clients'.
KeptInv ==
    /\ IInv /\ JobInv /\ RetentionKept
    /\ \A r \in inserted : r.at <= now + Future

-----------------------------------------------------------------------------
(* Type correctness, and the links of acknowledged events.                 *)

\* The rows of a batch are rows.
LEMMA KeyType ==
  ASSUME IInv, NEW e \in Events, stamp[e] # Unminted
  PROVE  Key(e) \in Keys
<1>1. stamp[e] \in Nat /\ now \in Nat /\ now <= MaxTime /\ Past <= now
  <2>1. stamp[e] \in Stamps \cup {Unminted} /\ now \in 0..MaxTime /\ MonthLength <= now
    BY DEF IInv, TypeOK
  <2>2. stamp[e] \in Stamps /\ Stamps \subseteq Nat
    BY <2>1, EventAssumption
  <2>3. Past \in 0..MonthLength /\ MonthLength \in Nat /\ MaxTime \in Nat
    BY EventAssumption
  <2>4. Past <= now
    BY <2>1, <2>3
  <2>5. stamp[e] \in Nat
    BY <2>2
  <2>6. now \in Nat /\ now <= MaxTime
    BY <2>1, <2>3
  <2> QED BY <2>4, <2>5, <2>6
<1>2. Clamp(stamp[e]) \in 0..(MaxTime + Future)
  BY <1>1, EventAssumption DEF Clamp
<1> QED BY <1>2 DEF Key, Keys

LEMMA FaultType == TypeOK /\ Fault => faults' \in 0..MaxFaults
  BY EventAssumption DEF Fault, TypeOK

\* What TypeOK says of a job.
Jobs == [pc : {"idle", "due", "create", "list", "drop"}, month : Months, offset : 0..2,
         old : SUBSET (Months \cup Seeded), attempt : 1..MaxAttempts]

LEMMA RestingType == /\ Resting \in Jobs /\ Resting.month = 0 /\ Resting.pc = "idle"
                     /\ Month(MaxTime) \in Nat
<1>1. Month(MaxTime) \in Nat
  BY EventAssumption, MonthType
<1> QED BY <1>1, EventAssumption DEF Resting, Jobs, Months

\* The job that failed is due again, or given up.
LEMMA FailedType ==
  ASSUME IInv, AttemptFails
  PROVE  job' \in Jobs /\ job'.month = 0 /\ job'.pc \in {"idle", "due"}
<1>1. job \in Jobs
  BY DEF IInv, TypeOK, Jobs
<1>2. CASE job.attempt = MaxAttempts
  BY <1>2, RestingType DEF AttemptFails
<1>3. CASE job.attempt # MaxAttempts
  <2>1. job' = [pc |-> "due", month |-> 0, offset |-> 0, old |-> {}, attempt |-> job.attempt + 1]
    BY <1>3 DEF AttemptFails, Resting
  <2>2. job.attempt + 1 \in 1..MaxAttempts
    BY <1>1, <1>3, EventAssumption DEF Jobs
  <2> QED BY <2>1, <2>2, RestingType DEF Jobs, Months
<1> QED BY <1>2, <1>3

\* A step of the job touches neither the clients nor what they were told.
LEMMA JobMoves ==
  ASSUME IInv, job' \in Jobs, job'.month <= Month(MaxTime),
         now' \in 0..MaxTime, MonthLength <= now',
         partitions' \subseteq Months \cup Seeded, rows' \subseteq rows, faults' \in 0..MaxFaults,
         UNCHANGED <<stamp, inserted, linked, acked, request>>
  PROVE  IInv'
BY DEF IInv, TypeOK, Jobs, AckedIsLinked

LEMMA IInvStep ==
  ASSUME IInv, [Next]_vars
  PROVE  IInv'
<1>0. TypeOK /\ now \in 0..MaxTime /\ MonthLength <= now /\ job \in Jobs
      /\ partitions \subseteq Months \cup Seeded /\ rows \subseteq inserted /\ faults \in 0..MaxFaults
      /\ job.month <= Month(MaxTime)
  BY DEF IInv, TypeOK, Jobs
<1>1. ASSUME NEW e \in Events, Mint(e) PROVE IInv'
  BY <1>1 DEF IInv, TypeOK, Mint, AckedIsLinked
<1>2. ASSUME NEW c \in Clients, Insert(c) PROVE IInv'
  <2>1. PICK batch \in SUBSET {e \in Events \ acked : stamp[e] # Unminted} :
          /\ rows' = rows \cup {Key(e) : e \in batch}
          /\ inserted' = inserted \cup {Key(e) : e \in batch}
          /\ request' = [request EXCEPT ![c] =
                [pc |-> "link", batch |-> batch, links |-> batch \cap Identified]]
          /\ UNCHANGED <<now, stamp, linked, acked, partitions, job, faults>>
    BY <1>2 DEF Insert
  <2>2. {Key(e) : e \in batch} \subseteq Keys
    BY KeyType
  <2> QED BY <2>1, <2>2 DEF IInv, TypeOK, AckedIsLinked
<1>3. ASSUME NEW c \in Clients, Link(c) PROVE IInv'
  BY <1>3 DEF IInv, TypeOK, Link, AckedIsLinked, NoRequest
<1>4. ASSUME NEW c \in Clients, RequestFails(c) PROVE IInv'
  BY <1>4, FaultType DEF IInv, TypeOK, RequestFails, AckedIsLinked, NoRequest
<1>5. CASE Tick
  <2>1. job' \in Jobs /\ job'.month <= Month(MaxTime)
    <3>1. CASE UNCHANGED job
      BY <1>0, <3>1
    <3>2. CASE job' = [Resting EXCEPT !.pc = "due"]
      BY <3>2, RestingType DEF Jobs
    <3> QED BY <1>5, <3>1, <3>2 DEF Tick
  <2>2. now' \in 0..MaxTime /\ MonthLength <= now' /\ faults' \in 0..MaxFaults
    BY <1>0, <1>5, FaultType, EventAssumption DEF Tick
  <2> QED BY <1>0, <1>5, <2>1, <2>2, JobMoves DEF Tick
<1>6. CASE StartRun
  <2>1. UtcMonth(now) \in Nat /\ UtcMonth(now) <= Month(MaxTime)
    <3>1. UtcMonth(now) \in Nat /\ UtcMonth(now) <= Month(now) /\ Month(now) <= Month(MaxTime)
      BY <1>0, UtcMonthType, MonthGrows, EventAssumption
    <3> QED BY <1>0, <3>1, MonthType, EventAssumption
  <2>2. job' \in Jobs /\ job'.month <= Month(MaxTime)
    BY <1>0, <1>6, <2>1, RestingType DEF StartRun, Jobs, Months
  <2> QED BY <1>0, <1>6, <2>2, JobMoves DEF StartRun
<1>7. CASE Create
  <2>1. job.month + job.offset \in Months
    BY <1>0, RestingType DEF Jobs, Months
  <2>2. job' \in Jobs /\ job'.month <= Month(MaxTime)
    <3>1. CASE job.offset = 2
      <4>1. job' = [job EXCEPT !.pc = "list", !.offset = 0]
        BY <1>7, <3>1 DEF Create, NextOffset
      <4>2. job' = [pc |-> "list", month |-> job.month, offset |-> 0, old |-> job.old,
                    attempt |-> job.attempt]
        BY <1>0, <4>1 DEF Jobs
      <4> QED BY <1>0, <4>2 DEF Jobs
    <3>2. CASE job.offset # 2
      <4>1. job.offset + 1 \in 0..2
        BY <1>0, <3>2 DEF Jobs
      <4>2. job' = [job EXCEPT !.offset = job.offset + 1]
        BY <1>7, <3>2 DEF Create, NextOffset
      <4> QED BY <1>0, <4>1, <4>2 DEF Jobs
    <3> QED BY <3>1, <3>2
  <2>3. partitions' \subseteq Months \cup Seeded
    BY <1>0, <1>7, <2>1 DEF Create
  <2> QED BY <1>0, <1>7, <2>2, <2>3, JobMoves DEF Create
<1>8. CASE ListPartitions
  <2>1. job' \in Jobs /\ job'.month <= Month(MaxTime)
    <3> DEFINE old == {m \in partitions : ~Retained(m)}
    <3>1. job' = IF old = {} THEN Resting ELSE [job EXCEPT !.pc = "drop", !.old = old]
      BY <1>8 DEF ListPartitions
    <3>2. old \in SUBSET (Months \cup Seeded)
      BY <1>0
    <3> HIDE DEF old
    <3>3. [job EXCEPT !.pc = "drop", !.old = old] \in Jobs
          /\ [job EXCEPT !.pc = "drop", !.old = old].month = job.month
      BY <1>0, <3>2 DEF Jobs
    <3> QED BY <1>0, <3>1, <3>3, RestingType
  <2> QED BY <1>0, <1>8, <2>1, JobMoves DEF ListPartitions
<1>9. CASE Drop
  <2>1. PICK m \in job.old :
          /\ partitions' = partitions \ {m}
          /\ rows' = {r \in rows : Month(r.at) # m}
          /\ job' = IF job.old = {m} THEN Resting ELSE [job EXCEPT !.old = job.old \ {m}]
    BY <1>9 DEF Drop
  <2>2. job' \in Jobs /\ job'.month <= Month(MaxTime)
    BY <1>0, <2>1, RestingType DEF Jobs
  <2> QED BY <1>0, <1>9, <2>1, <2>2, JobMoves DEF Drop
<1>10. CASE CreateRefused \/ RunDies
  <2>1. AttemptFails /\ faults' \in 0..MaxFaults
        /\ UNCHANGED <<now, stamp, rows, inserted, linked, acked, request, partitions>>
    BY <1>0, <1>10, FaultType DEF CreateRefused, RunDies
  <2>2. job' \in Jobs /\ job'.month <= Month(MaxTime)
    BY <2>1, FailedType, RestingType
  <2> QED BY <1>0, <2>1, <2>2, JobMoves
<1>11. CASE UNCHANGED vars
  BY <1>11 DEF IInv, TypeOK, AckedIsLinked, vars
<1> QED BY <1>1, <1>2, <1>3, <1>4, <1>5, <1>6, <1>7, <1>8, <1>9, <1>10, <1>11 DEF Next

LEMMA InitIInv == Init => IInv
<1> SUFFICES ASSUME Init PROVE IInv
  OBVIOUS
<1>1. now \in 0..MaxTime /\ MonthLength <= now
  BY EventAssumption DEF Init
<1>2. job \in Jobs /\ job.month <= Month(MaxTime)
  BY RestingType DEF Init
<1>3. TypeOK
  BY <1>1, <1>2, EventAssumption DEF Init, TypeOK, Jobs, NoRequest
<1> QED BY <1>1, <1>2, <1>3 DEF IInv, Init, NoRequest, AckedIsLinked

\* Rows, requests, partitions and the job are well formed; no time is negative.
THEOREM TypeCorrect == Spec => []TypeOK
<1>1. Spec => []IInv
  BY InitIInv, IInvStep, PTL DEF Spec
<1>2. IInv => TypeOK
  BY DEF IInv
<1> QED BY <1>1, <1>2, PTL

\* writeEvents: whatever attempt inserted the rows, an acknowledged event that
\* carries a session and a user has them linked.
THEOREM AckedHolds == Spec => []AckedIsLinked
<1>1. Spec => []IInv
  BY InitIInv, IInvStep, PTL DEF Spec
<1>2. IInv => AckedIsLinked
  BY DEF IInv
<1> QED BY <1>1, <1>2, PTL

-----------------------------------------------------------------------------
(* The months of the clocks and of what is stored.                         *)

\* The months of the clocks and of a row.
LEMMA ClockMonths ==
  ASSUME IInv
  PROVE  /\ now \in Nat /\ Month(now) \in Nat /\ UtcMonth(now) \in Nat
         /\ UtcMonth(now) <= Month(now)
         /\ job.month \in Nat /\ Retention \in Nat
         /\ \A m \in partitions : m \in Nat
         /\ \A r \in inserted : Month(r.at) \in Nat
<1>1. now \in Nat /\ MonthLength <= now /\ job.month \in Months
  BY EventAssumption DEF IInv, TypeOK
<1>2. \A r \in inserted : r.at \in Nat
  BY EventAssumption DEF IInv, TypeOK, Keys
<1>3. \A m \in partitions : m \in Nat
  BY EventAssumption, RestingType DEF IInv, TypeOK, Months
<1> QED BY <1>1, <1>2, <1>3, MonthType, UtcMonthType, EventAssumption DEF Months

-----------------------------------------------------------------------------
(* The months events can be clamped to.                                    *)

LEMMA Apart ==
  ASSUME NEW p \in Nat, NEW q \in Nat, p < q
  PROVE  MonthLength * p + MonthLength <= MonthLength * q
<1>1. PICK k \in Nat : q = p + 1 + k
  <2>1. q - p - 1 \in Nat /\ q = p + 1 + (q - p - 1)
    OBVIOUS
  <2> QED BY <2>1
<1>2. MonthLength * q = MonthLength * p + MonthLength + MonthLength * k
  BY <1>1, EventAssumption
<1>3. MonthLength * k \in Nat /\ MonthLength * p \in Nat
  BY <1>1, EventAssumption
<1> QED BY <1>2, <1>3, EventAssumption

\* The month of a time is the one whose first tick is the last before it.
LEMMA MonthIs ==
  ASSUME NEW t \in Nat, NEW q \in Nat,
         MonthLength * q <= t, t < MonthLength * q + MonthLength
  PROVE  Month(t) = q
<1> DEFINE p == t \div MonthLength
<1>1. p \in Nat /\ MonthLength * p <= t /\ t < MonthLength * p + MonthLength
  BY Division
<1> HIDE DEF p
<1>2. MonthLength * p \in Nat /\ MonthLength * q \in Nat /\ MonthLength \in Nat
  BY <1>1, EventAssumption
<1>3. ~(p < q) /\ ~(q < p)
  BY <1>1, <1>2, Apart
<1>4. p = q
  BY <1>1, <1>3
<1> QED BY <1>4 DEF p, Month

\* The first tick of a month, and those after it.
LEMMA MonthTicks ==
  ASSUME NEW t \in Nat
  PROVE  /\ (t + 1) % MonthLength = 0 => Month(t + 1) = Month(t) + 1
         /\ (t + 1) % MonthLength # 0 => Month(t + 1) = Month(t)
<1> DEFINE q == Month(t)
           u == Month(t + 1)
<1>1. /\ q \in Nat /\ MonthLength * q <= t /\ t < MonthLength * q + MonthLength
      /\ u \in Nat /\ t + 1 = MonthLength * u + ((t + 1) % MonthLength)
  <2>1. t + 1 = MonthLength * ((t + 1) \div MonthLength) + ((t + 1) % MonthLength)
    BY EventAssumption, Z3
  <2> QED BY <2>1, Division DEF Month
<1> HIDE DEF q, u
<1>2. MonthLength * q \in Nat /\ MonthLength * u \in Nat /\ MonthLength \in Nat \ {0}
  BY <1>1, EventAssumption
<1>3. CASE t + 1 < MonthLength * q + MonthLength
  <2>1. MonthLength * q <= t + 1
    BY <1>1, <1>2
  <2>2. u = q
    BY <1>1, <1>3, <2>1, MonthIs DEF u
  <2>3. (t + 1) % MonthLength # 0
    BY <1>1, <1>2, <2>2
  <2> QED BY <2>2, <2>3 DEF q, u
<1>4. CASE t + 1 = MonthLength * q + MonthLength
  <2>1. MonthLength * (q + 1) = MonthLength * q + MonthLength
    BY <1>1, EventAssumption
  <2>2. u = q + 1
    BY <1>1, <1>2, <1>4, <2>1, MonthIs DEF u
  <2>3. (t + 1) % MonthLength = 0
    BY <1>1, <1>2, <1>4, <2>1, <2>2
  <2> QED BY <2>2, <2>3 DEF q, u
<1> QED BY <1>1, <1>2, <1>3, <1>4

\* A month later, a month on.
LEMMA NextMonth ==
  ASSUME NEW t \in Nat
  PROVE  Month(t + MonthLength) = Month(t) + 1
<1>1. /\ Month(t) \in Nat /\ MonthLength * Month(t) <= t
      /\ t < MonthLength * Month(t) + MonthLength
  BY Division DEF Month
<1>2. MonthLength * (Month(t) + 1) = MonthLength * Month(t) + MonthLength
      /\ MonthLength * Month(t) \in Nat /\ MonthLength \in Nat
  BY <1>1, EventAssumption
<1> QED BY <1>1, <1>2, MonthIs

\* At the first tick of a month, UTC is in the month before, and no event can
\* be clamped to the month after.
LEMMA FirstTick ==
  ASSUME NEW t \in Nat, MonthLength <= t, t % MonthLength = 0
  PROVE  /\ Month(t) = UtcMonth(t) + 1
         /\ \A s \in Nat : s < t + MonthLength => Month(s) <= Month(t)
<1> DEFINE u == Month(t)
<1>1. u \in Nat /\ t = MonthLength * u
  <2>1. t = MonthLength * (t \div MonthLength) + (t % MonthLength)
    BY EventAssumption, Z3
  <2>2. t \div MonthLength \in Nat /\ MonthLength * (t \div MonthLength) \in Nat
    BY Division, EventAssumption
  <2> QED BY <2>1, <2>2 DEF Month
<1> HIDE DEF u
<1>2. u # 0
  BY <1>1, EventAssumption
<1>3. u - 1 \in Nat /\ MonthLength * (u - 1) \in Nat /\ MonthLength * u \in Nat
      /\ MonthLength * u = MonthLength * (u - 1) + MonthLength
  BY <1>1, <1>2, EventAssumption
<1>4. UtcMonth(t) = u - 1
  <2>1. t - UtcLag \in Nat /\ MonthLength * (u - 1) <= t - UtcLag
        /\ t - UtcLag < MonthLength * (u - 1) + MonthLength
    BY <1>1, <1>3, EventAssumption
  <2> HIDE DEF u
  <2>2. Month(t - UtcLag) = u - 1
    BY <1>3, <2>1, MonthIs
  <2> QED BY <2>2 DEF UtcMonth, Month
<1>5. ASSUME NEW s \in Nat, s < t + MonthLength PROVE Month(s) <= u
  <2> DEFINE v == Month(s)
  <2>1. v \in Nat /\ MonthLength * v <= s /\ MonthLength * v \in Nat
    BY Division, EventAssumption DEF Month
  <2> HIDE DEF v
  <2>2. ~(u < v)
    BY <1>1, <1>3, <1>5, <2>1, Apart, EventAssumption
  <2>3. v <= u
    BY <1>1, <2>1, <2>2
  <2> QED BY <2>3 DEF v
<1>6. u = UtcMonth(t) + 1
  BY <1>1, <1>4
<1> QED BY <1>5, <1>6 DEF u

\* The instance is installed when some month is seeded that is not ahead, and
\* from each seeded month on, the months up to the next are seeded too.
SeedsCover ==
    \A t \in StartTimes :
        /\ \E m \in Seeded : m <= Month(t)
        /\ \A m \in Seeded, k \in Nat : m <= k /\ k <= Month(t) + 1 => k \in Seeded

\* A month an event can be clamped to, after some seeded one.
InWindow(k) == /\ k \in Nat /\ \E m \in Seeded : m <= k
               /\ Month(now) <= k + 1 /\ k <= Month(now) + 1

\* While nothing failed: a run takes place at the first tick of a month, and the
\* only month it may find without a partition is the next, which has no row.
WindowInv ==
    faults = 0 =>
        /\ \E m \in Seeded : m <= Month(now) /\ (job.pc # "idle" => m < Month(now))
        /\ job.pc # "idle" => now % MonthLength = 0
        /\ job.pc \in {"create", "list", "drop"} => job.month = UtcMonth(now)
        /\ job.pc = "drop" => \A m \in job.old : ~Retained(m)
        /\ \A r \in rows : r.at <= now + Future
        /\ \A k \in Nat : InWindow(k) => \/ k \in partitions
                                         \/ job.pc \in {"due", "create"} /\ k = Month(now) + 1

LEMMA Numbers ==
  ASSUME IInv
  PROVE  /\ now \in Nat /\ MonthLength <= now /\ Month(now) \in Nat /\ UtcMonth(now) \in Nat
         /\ job.month \in Nat /\ job.offset \in 0..2 /\ job \in Jobs
         /\ faults \in Nat
         /\ \A r \in rows : r.at \in Nat /\ Month(r.at) \in Nat
         /\ \A m \in Seeded : m \in Nat
<1>1. job \in Jobs /\ rows \subseteq inserted /\ faults \in 0..MaxFaults
  BY DEF IInv, TypeOK, Jobs
<1>2. \A r \in inserted : r.at \in Nat
  BY EventAssumption DEF IInv, TypeOK, Keys
<1>3. now \in Nat /\ MonthLength <= now /\ job.month \in Months
  BY EventAssumption DEF IInv, TypeOK
<1> QED BY <1>1, <1>2, <1>3, ClockMonths, EventAssumption DEF Jobs, Months

\* No run is refused a partition.
LEMMA NotRefused ==
  ASSUME IInv, WindowInv, faults = 0, Future < MonthLength, job.pc = "create"
  PROVE  ~Refused(job.month + job.offset)
<1>0. /\ now \in Nat /\ MonthLength <= now /\ Month(now) \in Nat
      /\ job.month \in Nat /\ job.offset \in 0..2
      /\ \A r \in rows : r.at \in Nat /\ Month(r.at) \in Nat
      /\ \A m \in Seeded : m \in Nat
  BY Numbers
<1>1. /\ now % MonthLength = 0 /\ job.month = UtcMonth(now)
      /\ \A r \in rows : r.at <= now + Future
  BY DEF WindowInv
<1>2. PICK m \in Seeded : m < Month(now)
  BY DEF WindowInv
<1>3. Month(now) = job.month + 1 /\ \A s \in Nat : s < now + MonthLength => Month(s) <= Month(now)
  BY <1>0, <1>1, FirstTick
<1> DEFINE k == job.month + job.offset
<1>4. CASE job.offset = 2
  <2>1. \A r \in rows : r.at < now + MonthLength
    BY <1>0, <1>1, EventAssumption
  <2>2. \A r \in rows : Month(r.at) <= Month(now)
    BY <1>0, <1>3, <2>1
  <2>3. k = Month(now) + 1
    BY <1>0, <1>3, <1>4
  <2> QED BY <1>0, <2>2, <2>3 DEF Refused
<1>5. CASE job.offset # 2
  <2>1. k \in Nat /\ m <= k /\ Month(now) <= k + 1 /\ k <= Month(now)
    BY <1>0, <1>2, <1>3, <1>5
  <2>2. InWindow(k) /\ k # Month(now) + 1
    BY <1>0, <1>2, <2>1 DEF InWindow
  <2>3. k \in partitions
    BY <2>1, <2>2 DEF WindowInv
  <2> QED BY <2>3 DEF Refused
<1> QED BY <1>4, <1>5

\* The next month is the only one without a partition when a month begins.
LEMMA WindowTick ==
  ASSUME IInv, WindowInv, Tick, faults' = 0
  PROVE  WindowInv'
<1>0. /\ now \in Nat /\ MonthLength <= now /\ Month(now) \in Nat /\ faults \in Nat
      /\ \A r \in rows : r.at \in Nat
      /\ \A m \in Seeded : m \in Nat
  BY Numbers
<1>1. /\ now' = now + 1 /\ rows' = rows /\ partitions' = partitions
      /\ faults = 0 /\ job.pc = "idle"
      /\ job' = IF (now + 1) % MonthLength = 0 THEN [Resting EXCEPT !.pc = "due"] ELSE job
  BY <1>0 DEF Tick, Fault
<1>2. PICK m \in Seeded : m <= Month(now)
  BY <1>1 DEF WindowInv
<1>3. \A r \in rows' : r.at <= now' + Future
  <2>1. \A r \in rows : r.at <= now + Future
    BY <1>1 DEF WindowInv
  <2> QED BY <1>0, <1>1, <2>1, EventAssumption
<1>4. \A k \in Nat : InWindow(k) => k \in partitions
  BY <1>1 DEF WindowInv
<1>5. CASE (now + 1) % MonthLength = 0
  <2>1. job'.pc = "due"
    BY <1>1, <1>5 DEF Resting
  <2>2. Month(now') = Month(now) + 1 /\ now' % MonthLength = 0
    BY <1>0, <1>1, <1>5, MonthTicks
  <2>3. m < Month(now')
    BY <1>0, <1>2, <2>2
  <2>4. ASSUME NEW k \in Nat, InWindow(k)'
        PROVE  k \in partitions \/ k = Month(now') + 1
    <3>1. (\E j \in Seeded : j <= k) /\ Month(now) + 1 <= k + 1 /\ k <= Month(now) + 2
      BY <1>0, <2>2, <2>4 DEF InWindow
    <3>2. k # Month(now) + 2 => InWindow(k)
      BY <1>0, <3>1 DEF InWindow
    <3> QED BY <1>0, <1>4, <2>2, <3>2
  <2>5. \A k \in Nat : InWindow(k)' => k \in partitions' \/ k = Month(now') + 1
    BY <1>1, <2>4
  <2>6. m <= Month(now')
    BY <1>0, <1>2, <2>2
  <2> QED BY <1>3, <2>1, <2>2, <2>3, <2>5, <2>6 DEF WindowInv
<1>6. CASE (now + 1) % MonthLength # 0
  <2>1. Month(now') = Month(now) /\ job' = job
    BY <1>0, <1>1, <1>6, MonthTicks
  <2>2. \A k \in Nat : InWindow(k)' => k \in partitions
    BY <1>4, <2>1 DEF InWindow
  <2> QED BY <1>1, <1>2, <1>3, <2>1, <2>2 DEF WindowInv
<1> QED BY <1>5, <1>6

\* A step other than a tick leaves the window where it was.
LEMMA WindowSame ==
  ASSUME WindowInv, now' = now, faults = 0,
         job'.pc = "idle" \/ job.pc # "idle",
         job'.pc \in {"create", "list", "drop"} => job'.month = UtcMonth(now),
         job'.pc = "drop" => \A m \in job'.old : Retained(m)' = FALSE,
         \A r \in rows' : r.at <= now + Future,
         \A k \in Nat : InWindow(k) => \/ k \in partitions'
                                       \/ job'.pc \in {"due", "create"} /\ k = Month(now) + 1
  PROVE  WindowInv'
<1>1. \A k \in Nat : InWindow(k)' <=> InWindow(k)
  BY DEF InWindow
<1>2. \E m \in Seeded : m <= Month(now) /\ (job'.pc # "idle" => m < Month(now))
  BY DEF WindowInv
<1>3. job'.pc # "idle" => now % MonthLength = 0
  BY DEF WindowInv
<1> QED BY <1>1, <1>2, <1>3 DEF WindowInv

\* A run that goes on holds its month and what it found old.
LEMMA OldStays ==
  ASSUME WindowInv, faults = 0, UNCHANGED job
  PROVE  /\ job'.pc \in {"create", "list", "drop"} => job'.month = UtcMonth(now)
         /\ job'.pc = "drop" => \A m \in job'.old : Retained(m)' = FALSE
BY DEF WindowInv, Retained

\* An event's clamped time is at most Future ahead.
LEMMA ClampedNear ==
  ASSUME IInv, NEW e \in Events, stamp[e] # Unminted
  PROVE  Key(e).at <= now + Future
<1>1. stamp[e] \in Nat
  BY EventAssumption DEF IInv, TypeOK
<1>2. now \in Nat /\ Future \in Nat /\ Past \in Nat /\ Past <= now
  BY Numbers, EventAssumption
<1> QED BY <1>1, <1>2 DEF Key, Clamp

LEMMA WindowStep ==
  ASSUME IInv, WindowInv, Future < MonthLength, [Next]_vars
  PROVE  WindowInv'
<1> SUFFICES ASSUME faults' = 0 PROVE WindowInv'
  BY DEF WindowInv
<1>0. /\ now \in Nat /\ MonthLength <= now /\ Month(now) \in Nat /\ UtcMonth(now) \in Nat
      /\ job.month \in Nat /\ job.offset \in 0..2 /\ job \in Jobs
      /\ faults \in Nat
      /\ \A m \in Seeded : m \in Nat
  BY Numbers
<1>1. CASE Tick
  BY <1>1, WindowTick
<1>2. CASE ~Tick
  <2>1. ~Fault
    BY <1>0 DEF Fault
  <2>2. now' = now /\ faults = 0
    BY <1>2, <2>1 DEF Next, vars, Mint, Insert, Link, RequestFails, StartRun, Create,
                      ListPartitions, Drop, CreateRefused, RunDies
  <2>3. /\ \A r \in rows : r.at <= now + Future
        /\ \A k \in Nat : InWindow(k) => \/ k \in partitions
                                         \/ job.pc \in {"due", "create"} /\ k = Month(now) + 1
    BY <2>2 DEF WindowInv
  <2>4. CASE UNCHANGED <<rows, partitions, job>>
    BY <2>2, <2>3, <2>4, OldStays, WindowSame
  <2>5. ASSUME NEW c \in Clients, Insert(c) PROVE WindowInv'
    <3>1. PICK batch \in SUBSET {e \in Events \ acked : stamp[e] # Unminted} :
            /\ rows' = rows \cup {Key(e) : e \in batch}
            /\ UNCHANGED <<partitions, job>>
      BY <2>5 DEF Insert
    <3>2. \A e \in batch : Key(e).at <= now + Future
      BY ClampedNear
    <3>3. \A r \in rows' : r.at <= now + Future
      BY <2>3, <3>1, <3>2
    <3> QED BY <2>2, <2>3, <3>1, <3>3, OldStays, WindowSame
  <2>6. CASE StartRun
    <3>1. /\ job.pc = "due" /\ job'.pc = "create" /\ job'.month = UtcMonth(now)
          /\ UNCHANGED <<rows, partitions>>
      BY <2>6 DEF StartRun
    <3>2. \A r \in rows' : r.at <= now + Future
      BY <2>3, <3>1
    <3>3. \A k \in Nat : InWindow(k) => \/ k \in partitions'
                                        \/ job'.pc \in {"due", "create"} /\ k = Month(now) + 1
      BY <2>3, <3>1
    <3> QED BY <2>2, <3>1, <3>2, <3>3, WindowSame
  <2>7. CASE Create
    <3>1. /\ job.pc = "create" /\ job.month = UtcMonth(now) /\ now % MonthLength = 0
          /\ partitions' = partitions \cup {job.month + job.offset} /\ rows' = rows
      BY <2>2, <2>7 DEF Create, WindowInv
    <3>2. Month(now) = job.month + 1
      BY <1>0, <3>1, FirstTick
    <3>3. CASE job.offset = 2
      <4>1. job' = [job EXCEPT !.pc = "list", !.offset = 0]
        BY <2>7, <3>3 DEF Create, NextOffset
      <4>2. job'.pc = "list" /\ job'.month = job.month
        BY <1>0, <4>1 DEF Jobs
      <4>3. Month(now) + 1 \in partitions'
        BY <1>0, <3>1, <3>2, <3>3
      <4>4. \A k \in Nat : InWindow(k) => k \in partitions'
        BY <2>3, <3>1, <4>3
      <4> QED BY <2>2, <2>3, <3>1, <4>2, <4>4, WindowSame
    <3>4. CASE job.offset # 2
      <4>1. job' = [job EXCEPT !.offset = job.offset + 1]
        BY <2>7, <3>4 DEF Create, NextOffset
      <4>2. job'.pc = "create" /\ job'.month = job.month
        BY <1>0, <3>1, <4>1 DEF Jobs
      <4>3. \A k \in Nat : InWindow(k) => \/ k \in partitions'
                                          \/ job'.pc \in {"due", "create"} /\ k = Month(now) + 1
        BY <2>3, <3>1, <4>2
      <4> QED BY <2>2, <2>3, <3>1, <4>2, <4>3, WindowSame
    <3> QED BY <3>3, <3>4
  <2>8. CASE ListPartitions
    <3> DEFINE old == {m \in partitions : ~Retained(m)}
    <3>1. /\ job' = IF old = {} THEN Resting ELSE [job EXCEPT !.pc = "drop", !.old = old]
          /\ UNCHANGED <<rows, partitions>> /\ job.pc = "list"
      BY <2>8 DEF ListPartitions
    <3> HIDE DEF old
    <3>2. job.month = UtcMonth(now)
      BY <2>2, <3>1 DEF WindowInv
    <3>3. /\ job'.pc \in {"idle", "drop"}
          /\ job'.pc = "drop" => job'.month = job.month /\ job'.old = old
      BY <1>0, <3>1, RestingType DEF Jobs
    <3>5. job'.pc = "drop" => \A m \in job'.old : Retained(m)' = FALSE
      BY <3>3 DEF old, Retained
    <3>4. \A k \in Nat : InWindow(k) => k \in partitions'
      BY <2>3, <3>1
    <3> QED BY <2>2, <2>3, <3>1, <3>2, <3>3, <3>4, <3>5, WindowSame
  <2>9. CASE Drop
    <3>1. PICK m \in job.old :
            /\ partitions' = partitions \ {m}
            /\ rows' = {r \in rows : Month(r.at) # m}
            /\ job' = IF job.old = {m} THEN Resting ELSE [job EXCEPT !.old = job.old \ {m}]
      BY <2>9 DEF Drop
    <3>2. /\ job.pc = "drop" /\ job.month = UtcMonth(now) /\ now % MonthLength = 0
          /\ \A j \in job.old : ~Retained(j)
      BY <2>2, <2>9 DEF Drop, WindowInv
    <3>3. Month(now) = job.month + 1
      BY <1>0, <3>2, FirstTick
    <3>4. /\ job'.pc \in {"idle", "drop"}
          /\ job'.pc = "drop" => job'.month = job.month /\ job'.old \subseteq job.old
      BY <1>0, <3>1, <3>2, RestingType DEF Jobs
    <3>5. job'.pc = "drop" => \A j \in job'.old : Retained(j)' = FALSE
      BY <3>2, <3>4 DEF Retained
    <3>6. ASSUME NEW k \in Nat, InWindow(k) PROVE k \in partitions' /\ k # m
      <4>1. k + Retention >= job.month + 1 /\ k <= job.month + 2
        BY <1>0, <3>3, <3>6, EventAssumption DEF InWindow
      <4>2. k # m
        BY <3>1, <3>2, <4>1 DEF Retained
      <4> QED BY <2>3, <3>1, <3>2, <3>6, <4>2
    <3>7. \A r \in rows' : r.at <= now + Future
      BY <2>3, <3>1
    <3> QED BY <2>2, <3>2, <3>4, <3>5, <3>6, <3>7, WindowSame
  <2>10. CASE CreateRefused
    BY <2>2, <2>10, NotRefused DEF CreateRefused
  <2> QED BY <1>2, <2>1, <2>4, <2>5, <2>6, <2>7, <2>8, <2>9, <2>10
          DEF Next, vars, Mint, Link, RequestFails, RunDies
<1> QED BY <1>1, <1>2

\* maintainEventPartitions: for every month length and lag of the two clocks,
\* every time an event can be clamped to has its partition while nothing fails,
\* if the seeds cover the start and events are clamped to less than a month ahead.
THEOREM WindowHolds ==
  ASSUME SeedsCover, Future < MonthLength
  PROVE  Spec => []WindowHasPartition
<1>1. Init => WindowInv
  <2> SUFFICES ASSUME Init PROVE WindowInv
    OBVIOUS
  <2>1. /\ job.pc = "idle" /\ partitions = Seeded /\ now \in StartTimes /\ rows = {}
    BY RestingType DEF Init
  <2>2. \A k \in Nat : InWindow(k) => k \in partitions
    BY <2>1 DEF SeedsCover, InWindow
  <2>3. \E m \in Seeded : m <= Month(now)
    BY <2>1 DEF SeedsCover
  <2> QED BY <2>1, <2>2, <2>3 DEF WindowInv
<1>2. Spec => [](IInv /\ WindowInv)
  BY <1>1, InitIInv, IInvStep, WindowStep, PTL DEF Spec
<1>3. IInv /\ WindowInv => WindowHasPartition
  <2> SUFFICES ASSUME IInv, WindowInv, faults = 0,
                      NEW t \in (now - Past)..(now + Future), \E m \in Seeded : m <= Month(t)
               PROVE  Month(t) \in partitions \/ job.pc \in {"due", "create"}
    BY DEF WindowHasPartition
  <2>1. now \in Nat /\ MonthLength <= now /\ Month(now) \in Nat
    BY Numbers
  <2>2. t \in Nat /\ now <= t + MonthLength /\ t <= now + MonthLength
    BY <2>1, EventAssumption
  <2>3. /\ now + MonthLength \in Nat /\ t + MonthLength \in Nat
        /\ Month(t) \in Nat
        /\ Month(t + MonthLength) = Month(t) + 1 /\ Month(now + MonthLength) = Month(now) + 1
    BY <2>1, <2>2, NextMonth, MonthType, EventAssumption
  <2>4. Month(now) <= Month(t) + 1 /\ Month(t) <= Month(now) + 1
    BY <2>1, <2>2, <2>3, MonthGrows
  <2>5. InWindow(Month(t))
    BY <2>3, <2>4 DEF InWindow
  <2> QED BY <2>3, <2>5 DEF WindowInv
<1> QED BY <1>2, <1>3, PTL

-----------------------------------------------------------------------------
(* What the job drops.                                                     *)

\* UTC is at most a month behind, a clamped time at most a month ahead.
LEMMA UtcBehind ==
  ASSUME NEW t \in Nat, MonthLength <= t
  PROVE  Month(t) <= UtcMonth(t) + 1
<1>1. t - UtcLag \in Nat /\ (t - UtcLag) + MonthLength \in Nat /\ t <= (t - UtcLag) + MonthLength
  BY EventAssumption
<1>2. Month(t) <= Month((t - UtcLag) + MonthLength)
  BY <1>1, MonthGrows
<1>3. Month((t - UtcLag) + MonthLength) = Month(t - UtcLag) + 1
  BY <1>1, NextMonth
<1> QED BY <1>2, <1>3 DEF UtcMonth, Month

LEMMA MonthAhead ==
  ASSUME NEW t \in Nat, NEW s \in Nat, s <= t + Future
  PROVE  Month(s) <= Month(t) + 1
<1>1. s <= t + MonthLength /\ t + MonthLength \in Nat
  BY EventAssumption
<1>2. Month(s) <= Month(t + MonthLength) /\ Month(t + MonthLength) = Month(t) + 1
  BY <1>1, MonthGrows, NextMonth
<1> QED BY <1>2

LEMMA JobInvStep ==
  ASSUME IInv, JobInv, [Next]_vars
  PROVE  JobInv'
<1>0. /\ now \in Nat /\ UtcMonth(now) \in Nat /\ job.month \in Nat /\ Retention \in Nat
      /\ \A m \in partitions : m \in Nat
      /\ MonthLength <= now /\ job \in Jobs
  BY ClockMonths DEF IInv, TypeOK, Jobs
<1>1. CASE UNCHANGED <<now, partitions, job>>
  BY <1>1 DEF JobInv
<1>2. CASE Tick
  <2>1. now' = now + 1 /\ partitions' = partitions
    BY <1>2 DEF Tick
  <2>2. UtcMonth(now') \in Nat /\ UtcMonth(now) <= UtcMonth(now')
    <3>1. now + 1 \in Nat /\ now <= now + 1 /\ MonthLength <= now + 1
      BY <1>0, EventAssumption
    <3>2. UtcMonth(now + 1) \in Nat /\ UtcMonth(now) <= UtcMonth(now + 1)
      BY <1>0, <3>1, UtcMonthType, UtcMonthGrows
    <3> QED BY <2>1, <3>2
  <2>3. CASE job' = job
    BY <1>0, <2>1, <2>2, <2>3 DEF JobInv
  <2>4. CASE job' = [Resting EXCEPT !.pc = "due"]
    <3>1. job'.pc = "due"
      BY <2>4 DEF Resting
    <3> QED BY <3>1 DEF JobInv
  <2> QED BY <1>2, <2>3, <2>4 DEF Tick
<1>3. CASE StartRun
  <2>1. job'.pc = "create" /\ job'.month = UtcMonth(now) /\ now' = now
    BY <1>3 DEF StartRun
  <2> QED BY <1>0, <2>1 DEF JobInv
<1>4. CASE Create
  <2>1. now' = now /\ job.pc = "create"
    BY <1>4 DEF Create
  <2>2. job'.pc \in {"create", "list"} /\ job'.month = job.month
    <3>1. CASE job.offset = 2
      <4>1. job' = [job EXCEPT !.pc = "list", !.offset = 0]
        BY <1>4, <3>1 DEF Create, NextOffset
      <4>2. job' = [pc |-> "list", month |-> job.month, offset |-> 0, old |-> job.old,
                    attempt |-> job.attempt]
        BY <1>0, <4>1 DEF Jobs
      <4> QED BY <4>2
    <3>2. CASE job.offset # 2
      <4>1. job' = [job EXCEPT !.offset = job.offset + 1]
        BY <1>4, <3>2 DEF Create, NextOffset
      <4> QED BY <1>0, <2>1, <4>1 DEF Jobs
    <3> QED BY <3>1, <3>2
  <2> QED BY <2>1, <2>2 DEF JobInv
<1>5. CASE ListPartitions
  <2> DEFINE old == {m \in partitions : ~Retained(m)}
  <2>1. /\ job' = IF old = {} THEN Resting ELSE [job EXCEPT !.pc = "drop", !.old = old]
        /\ now' = now /\ partitions' = partitions /\ job.pc = "list"
    BY <1>5 DEF ListPartitions
  <2>2. \A m \in old : m \in partitions /\ (m + Retention < job.month + 1 \/ job.month + 2 < m)
    BY <1>0 DEF Retained
  <2> HIDE DEF old
  <2>3. CASE job' = Resting
    BY <2>3, RestingType DEF JobInv
  <2>4. CASE job' = [job EXCEPT !.pc = "drop", !.old = old]
    <3>1. job' = [pc |-> "drop", month |-> job.month, offset |-> job.offset, old |-> old,
                  attempt |-> job.attempt]
      BY <1>0, <2>4 DEF Jobs
    <3> QED BY <2>1, <2>2, <3>1 DEF JobInv
  <2> QED BY <2>1, <2>3, <2>4
<1>6. CASE Drop
  <2>1. PICK m \in job.old :
          /\ partitions' = partitions \ {m}
          /\ job' = IF job.old = {m} THEN Resting ELSE [job EXCEPT !.old = job.old \ {m}]
    BY <1>6 DEF Drop
  <2>2. job.pc = "drop" /\ now' = now
    BY <1>6 DEF Drop
  <2>3. CASE job' = Resting
    BY <2>3, RestingType DEF JobInv
  <2>4. CASE job' = [job EXCEPT !.old = job.old \ {m}]
    <3>1. job'.pc = "drop" /\ job'.month = job.month /\ job'.old = job.old \ {m}
      BY <1>0, <2>2, <2>4 DEF Jobs
    <3> QED BY <2>1, <2>2, <3>1 DEF JobInv
  <2> QED BY <2>1, <2>3, <2>4
<1>7. CASE CreateRefused \/ RunDies
  <2>1. job'.pc \in {"idle", "due"}
    BY <1>7, FailedType DEF CreateRefused, RunDies
  <2> QED BY <2>1 DEF JobInv
<1> QED BY <1>1, <1>2, <1>3, <1>4, <1>5, <1>6, <1>7
        DEF Next, vars, Mint, Insert, Link, RequestFails

\* What is dropped is past its retention, or too far ahead for any row.
LEMMA KeptStep ==
  ASSUME KeptInv, Prompt, [Next]_vars
  PROVE  KeptInv'
<1> USE DEF KeptInv
<1>1. IInv' /\ JobInv'
  BY IInvStep, JobInvStep
<1>2. /\ now \in Nat /\ Month(now) \in Nat /\ UtcMonth(now) \in Nat /\ UtcMonth(now) <= Month(now)
      /\ job.month \in Nat /\ Retention \in Nat /\ Future \in Nat
      /\ \A m \in partitions : m \in Nat
      /\ \A r \in inserted : Month(r.at) \in Nat /\ r.at \in Nat
  BY ClockMonths, EventAssumption DEF IInv, TypeOK, Keys
<1>3. CASE rows' = rows /\ inserted' = inserted /\ now' = now
  BY <1>1, <1>3 DEF RetentionKept
<1>4. ASSUME NEW c \in Clients, Insert(c) PROVE KeptInv'
  <2>1. PICK batch \in SUBSET {e \in Events \ acked : stamp[e] # Unminted} :
          /\ rows' = rows \cup {Key(e) : e \in batch}
          /\ inserted' = inserted \cup {Key(e) : e \in batch}
          /\ now' = now
    BY <1>4 DEF Insert
  <2>2. \A e \in batch : Key(e).at <= now + Future
    BY ClampedNear
  <2> QED BY <1>1, <2>1, <2>2 DEF RetentionKept
<1>5. CASE Tick
  <2>1. now' = now + 1 /\ rows' = rows /\ inserted' = inserted
    BY <1>5 DEF Tick
  <2>2. Month(now) <= Month(now + 1) /\ Month(now + 1) \in Nat
    BY <1>2, MonthGrows, MonthType
  <2>3. \A r \in inserted : Month(r.at) + Retention >= Month(now + 1) + 1 => r \in rows
    BY <1>2, <2>2 DEF RetentionKept
  <2>4. \A r \in inserted : r.at <= (now + 1) + Future
    BY <1>2
  <2> QED BY <1>1, <2>1, <2>3, <2>4 DEF RetentionKept
<1>6. CASE Drop
  <2>1. PICK m \in job.old : rows' = {r \in rows : Month(r.at) # m}
    BY <1>6 DEF Drop
  <2>2. /\ now' = now /\ inserted' = inserted /\ m \in Nat /\ job.month <= UtcMonth(now)
        /\ m + Retention < job.month + 1 \/ job.month + 2 < m
        /\ Month(now) <= job.month + 1
    BY <1>2, <1>6 DEF Drop, JobInv, Prompt
  <2>3. ASSUME NEW r \in inserted, Month(r.at) + Retention >= Month(now) + 1
        PROVE  Month(r.at) # m
    <3>1. Month(r.at) <= Month(now) + 1
      BY <1>2, MonthAhead
    <3> QED BY <1>2, <2>2, <2>3, <3>1
  <2>4. RetentionKept'
    BY <2>1, <2>2, <2>3 DEF RetentionKept
  <2> QED BY <1>1, <2>2, <2>4
<1> QED BY <1>3, <1>4, <1>5, <1>6
        DEF Next, vars, Mint, Link, RequestFails, StartRun, Create, ListPartitions,
            CreateRefused, RunDies

\* maintainEventPartitions: late, repeated or half-done runs lose no row of the
\* last Retention months, whatever months were seeded: those further ahead than a
\* run looks it drops before an event can be clamped to them, if no attempt
\* takes a month.
THEOREM RetentionHolds == Spec /\ []Prompt => []RetentionKept
<1>1. Init => KeptInv
  <2> SUFFICES ASSUME Init PROVE KeptInv
    OBVIOUS
  <2>1. job.pc = "idle" /\ inserted = {}
    BY RestingType DEF Init
  <2> QED BY <2>1, InitIInv DEF KeptInv, JobInv, RetentionKept
<1>2. KeptInv /\ Prompt /\ [Next]_vars => KeptInv'
  BY KeptStep
<1>3. Spec /\ []Prompt => []KeptInv
  BY <1>1, <1>2, PTL DEF Spec
<1>4. KeptInv => RetentionKept
  BY DEF KeptInv
<1> QED BY <1>3, <1>4, PTL

\* Within a month the ticks are counted up.
LEMMA NextTick ==
  ASSUME NEW t \in Nat, (t % MonthLength) + 1 < MonthLength
  PROVE  (t + 1) % MonthLength = (t % MonthLength) + 1 /\ Month(t + 1) = Month(t)
<1> DEFINE q == Month(t)
           u == Month(t + 1)
<1>1. /\ t = MonthLength * q + (t % MonthLength) /\ t % MonthLength \in Nat
      /\ t + 1 = MonthLength * u + ((t + 1) % MonthLength) /\ (t + 1) % MonthLength \in Nat
      /\ q \in Nat /\ u \in Nat
  <2>1. /\ t = MonthLength * (t \div MonthLength) + (t % MonthLength)
        /\ t + 1 = MonthLength * ((t + 1) \div MonthLength) + ((t + 1) % MonthLength)
        /\ t % MonthLength \in Nat /\ (t + 1) % MonthLength \in Nat
    BY EventAssumption, Z3
  <2> QED BY <2>1, Division DEF Month
<1> HIDE DEF q, u
<1>2. MonthLength * q \in Nat /\ MonthLength \in Nat
  BY <1>1, EventAssumption
<1>3. MonthLength * q <= t + 1 /\ t + 1 < MonthLength * q + MonthLength
  BY <1>1, <1>2
<1>4. u = q
  BY <1>1, <1>3, MonthIs DEF u
<1>5. (t + 1) % MonthLength = (t % MonthLength) + 1
  BY <1>1, <1>2, <1>4
<1> QED BY <1>4, <1>5 DEF q, u

\* While a job is not done, each tick since the first of the month was a fault.
HeldInv ==
    /\ IInv /\ Prompt
    /\ job.pc # "idle" => now % MonthLength <= faults

\* A job held up by fewer faults than a month has ticks is prompt.
THEOREM PromptHolds ==
  ASSUME MaxFaults < MonthLength
  PROVE  Spec => []Prompt
<1>1. Init => HeldInv
  BY InitIInv, RestingType DEF Init, HeldInv, Prompt
<1>2. ASSUME HeldInv, [Next]_vars PROVE HeldInv'
  <2>0. /\ now \in Nat /\ MonthLength <= now /\ job \in Jobs /\ job.month \in Nat
        /\ faults \in Nat /\ MonthLength \in Nat \ {0} /\ MaxFaults \in Nat
        /\ now % MonthLength \in Nat /\ Month(now) \in Nat
    <3>1. now \in Nat /\ MonthLength <= now /\ job.month \in Nat /\ job \in Jobs /\ Month(now) \in Nat
      BY <1>2, Numbers DEF HeldInv
    <3>2. faults \in Nat /\ MonthLength \in Nat \ {0} /\ MaxFaults \in Nat
      BY <1>2, EventAssumption DEF HeldInv, IInv, TypeOK
    <3>3. now % MonthLength \in Nat
      BY <3>1, <3>2
    <3> QED BY <3>1, <3>2, <3>3
  <2>1. IInv'
    BY <1>2, IInvStep DEF HeldInv
  <2>2. CASE UNCHANGED <<now, job>>
    <3>1. faults' = faults \/ faults' = faults + 1
      BY <1>2 DEF Next, vars, Mint, Insert, Link, RequestFails, Fault, Tick, StartRun,
                  Create, CreateRefused, ListPartitions, Drop, RunDies
    <3>2. job.pc # "idle" => now % MonthLength <= faults'
      BY <1>2, <2>0, <3>1 DEF HeldInv
    <3> QED BY <1>2, <2>1, <2>2, <3>2 DEF HeldInv, Prompt
  <2>3. CASE Tick
    <3>1. now' = now + 1
      BY <2>3 DEF Tick
    <3>2. CASE job.pc = "idle"
      <4>1. job'.pc \in {"idle", "due"}
        BY <2>3, <3>2, RestingType DEF Tick, Resting
      <4>2. job'.pc = "due" => now' % MonthLength = 0
        BY <2>3, <3>1, <3>2 DEF Tick
      <4> QED BY <2>1, <4>1, <4>2 DEF HeldInv, Prompt, IInv, TypeOK
    <3>3. CASE job.pc # "idle"
      <4>1. job' = job /\ faults' = faults + 1 /\ faults < MaxFaults /\ now % MonthLength <= faults
        BY <1>2, <2>3, <3>3 DEF Tick, Fault, HeldInv
      <4>0. (now % MonthLength) + 1 < MonthLength
        BY <2>0, <4>1
      <4>2. (now + 1) % MonthLength = (now % MonthLength) + 1 /\ Month(now + 1) = Month(now)
        BY <2>0, <4>0, NextTick
      <4> QED BY <1>2, <2>0, <2>1, <3>1, <4>1, <4>2 DEF HeldInv, Prompt
    <3> QED BY <3>2, <3>3
  <2>4. CASE StartRun
    <3>1. job.pc = "due" /\ job'.pc = "create" /\ job'.month = UtcMonth(now) /\ UNCHANGED <<now, faults>>
      BY <2>4 DEF StartRun
    <3> QED BY <1>2, <2>0, <2>1, <3>1, UtcBehind DEF HeldInv, Prompt
  <2>5. CASE Create \/ ListPartitions \/ Drop
    <3>1. /\ job.pc \in {"create", "list", "drop"} /\ UNCHANGED <<now, faults>>
          /\ job' = Resting \/ (job'.pc \in {"create", "list", "drop"} /\ job'.month = job.month)
      BY <2>0, <2>5 DEF Create, NextOffset, ListPartitions, Drop, Jobs
    <3> QED BY <1>2, <2>0, <2>1, <3>1, RestingType DEF HeldInv, Prompt
  <2>6. CASE CreateRefused \/ RunDies
    <3>1. job'.pc \in {"idle", "due"} /\ job.pc # "idle" /\ now' = now /\ faults' >= faults
      BY <1>2, <2>0, <2>6, FailedType DEF HeldInv, CreateRefused, RunDies, Fault
    <3>2. faults' \in Nat
      BY <2>1, EventAssumption DEF IInv, TypeOK
    <3> QED BY <1>2, <2>0, <2>1, <3>1, <3>2 DEF HeldInv, Prompt
  <2> QED BY <1>2, <2>2, <2>3, <2>4, <2>5, <2>6
          DEF Next, vars, Mint, Insert, Link, RequestFails
<1>3. HeldInv => Prompt
  BY DEF HeldInv
<1> QED BY <1>1, <1>2, <1>3, PTL DEF Spec

-----------------------------------------------------------------------------
(* EventMetrics: the reports over the store.                               *)

\* What the reports rely on: the rows and links are of events.
Kept == /\ rows \subseteq Keys /\ IsFiniteSet(rows)
          /\ linked \subseteq Identified

-----------------------------------------------------------------------------
(* Identities.                                                             *)

\* The users of an event's session.
UsersOf(e) == {User[x] : x \in {y \in linked : Session[y] = Session[e]}}

LEMMA LeastIs ==
  ASSUME NEW S \in SUBSET Nat, S # {}
  PROVE  Min(S) \in S /\ \A x \in S : Min(S) <= x
<1>1. \E m \in S : \A x \in S : m <= x
  BY Least
<1> QED BY <1>1 DEF Min

\* Somebody is linked to the session, or nobody is.
LEMMA Linked ==
  ASSUME linked \subseteq Identified, NEW e
  PROVE  /\ Nobody \notin UsersOf(e)
         /\ \A u \in UsersOf(e) : \E x \in Events : u = User[x]
         /\ Matches(e) # {}
         /\ Nobody \in Matches(e) => Matches(e) = {Nobody} /\ (Session[e] = Nobody \/ UsersOf(e) = {})
         /\ Session[e] # Nobody /\ UsersOf(e) # {} => Matches(e) = UsersOf(e)
         /\ Session[e] = Nobody \/ UsersOf(e) = {} => Matches(e) = {Nobody}
         /\ \A m \in Matches(e) : m # Nobody => Session[e] # Nobody /\ m \in UsersOf(e)
<1>1. \A x \in linked : x \in Events /\ User[x] # Nobody
  BY MetricsAssumption
<1>2. Matches(e) = IF Session[e] = Nobody \/ UsersOf(e) = {} THEN {Nobody} ELSE UsersOf(e)
  BY DEF Matches, UsersOf
<1>3. /\ Nobody \notin UsersOf(e)
      /\ \A u \in UsersOf(e) : \E x \in Events : u = User[x]
  BY <1>1 DEF UsersOf
<1> QED BY <1>2, <1>3

\* The joined rows, one by one.
LEMMA JoinedIs ==
  ASSUME NEW window, NEW j
  PROVE  j \in Joined(window) <=>
           \E r \in rows : \E m \in Matches(r.id) :
              /\ r.at \in window /\ IdentityKey(r.id, m) # Nobody
              /\ j = [row |-> r, match |-> m, who |-> IdentityKey(r.id, m)]
BY DEF Joined

LEMMA JoinedTypes ==
  ASSUME Kept, NEW window, NEW j \in Joined(window)
  PROVE  /\ j.row \in rows /\ j.row.at \in window /\ j.row.at \in Nat /\ j.row.id \in Events
         /\ j.match \in Matches(j.row.id) /\ j.who = IdentityKey(j.row.id, j.match) /\ j.who # Nobody
<1>1. PICK r \in rows : \E m \in Matches(r.id) :
              /\ r.at \in window /\ IdentityKey(r.id, m) # Nobody
              /\ j = [row |-> r, match |-> m, who |-> IdentityKey(r.id, m)]
  BY JoinedIs
<1>2. r.at \in Nat /\ r.id \in Events
  BY EventAssumption DEF Kept, Keys
<1> QED BY <1>1, <1>2

\* Only so many rows are joined.
LEMMA JoinedFinite ==
  ASSUME Kept, NEW window
  PROVE  IsFiniteSet(Joined(window)) /\ IsFiniteSet(Who(Joined(window)))
<1> DEFINE M == {User[e] : e \in Events} \cup {Nobody}
           P == rows \X M
           g == [j \in Joined(window) |-> <<j.row, j.match>>]
<1>1. IsFiniteSet(P)
  <2>1. IsFiniteSet(Events) /\ IsFiniteSet({Nobody})
    BY MetricsAssumption, FS_Singleton
  <2>2. IsFiniteSet({User[e] : e \in Events})
    BY <2>1, ImageFinite
  <2>3. IsFiniteSet(M)
    BY <2>1, <2>2, FS_Union
  <2> HIDE DEF M
  <2> QED BY <2>3, FS_Product DEF Kept
<1>2. ASSUME NEW j \in Joined(window) PROVE <<j.row, j.match>> \in P
  <2>1. j.row \in rows /\ j.match \in Matches(j.row.id)
    BY JoinedTypes
  <2>2. j.match = Nobody \/ j.match \in UsersOf(j.row.id)
    BY <2>1, Linked DEF Kept
  <2>3. j.match \in M
    BY <2>2, Linked DEF Kept
  <2> QED BY <2>1, <2>3
<1>3. ASSUME NEW j \in Joined(window), NEW k \in Joined(window), j.row = k.row, j.match = k.match
      PROVE  j = k
  BY <1>3, JoinedIs
<1>4. g \in Injection(Joined(window), P)
  <2> HIDE DEF P
  <2> QED BY <1>2, <1>3 DEF Injection, IsInjective
<1>5. IsFiniteSet(Joined(window))
  <2> HIDE DEF P, g
  <2> QED BY <1>1, <1>4, FS_Injection
<1>6. IsFiniteSet(Who(Joined(window)))
  <2> DEFINE w == [j \in Joined(window) |-> j.who]
  <2>1. w \in Surjection(Joined(window), Who(Joined(window)))
    BY DEF Surjection, Who
  <2> QED BY <1>5, <2>1, FS_Surjection
<1> QED BY <1>5, <1>6

-----------------------------------------------------------------------------
(* The days of the cohorts.                                                *)

Day(J, p) == Min({IstDay[j.row.at] : j \in {x \in J : x.who = p}})
CohortOf(J, d) == {p \in Who(On(J, IstDay, d)) : Day(J, p) = d}
Dates(window, date) == {date[t] : t \in window}

LEMMA DayIs ==
  ASSUME Kept, NEW window \in SUBSET Instants, NEW p \in Who(Joined(window))
  PROVE  /\ Day(Joined(window), p) \in Dates(window, IstDay)
         /\ p \in Who(On(Joined(window), IstDay, Day(Joined(window), p)))
<1> DEFINE S == {IstDay[j.row.at] : j \in {x \in Joined(window) : x.who = p}}
<1>1. S # {}
  BY DEF Who
<1>2. S \in SUBSET Nat /\ S \subseteq Dates(window, IstDay)
  BY JoinedTypes, MetricsAssumption DEF Dates
<1>3. Min(S) \in S
  <2> HIDE DEF S
  <2> QED BY <1>1, <1>2, LeastIs
<1>4. Min(S) = Day(Joined(window), p)
  BY DEF Day
<1>5. PICK j \in Joined(window) : j.who = p /\ IstDay[j.row.at] = Min(S)
  BY <1>3
<1>6. p \in Who(On(Joined(window), IstDay, Min(S)))
  BY <1>5 DEF Who, On
<1> HIDE DEF S
<1> QED BY <1>2, <1>3, <1>4, <1>6

\* The cohorts share out who was active.
LEMMA CohortsAdd ==
  ASSUME Kept, NEW window \in SUBSET Instants, NEW K, K = Dates(window, IstDay), IsFiniteSet(K),
         NEW h, \A d \in K : h[d] = Cardinality(CohortOf(Joined(window), d))
  PROVE  Sum(h, K) = Cardinality(Who(Joined(window)))
<1> DEFINE J == Joined(window)
           W == Who(J)
           key == [p \in W |-> Day(J, p)]
<1>1. IsFiniteSet(W) /\ \A p \in W : key[p] \in K
  BY JoinedFinite, DayIs
<1>2. ASSUME NEW d \in K PROVE CohortOf(J, d) = Group(W, key, d)
  <2>1. \A p : p \in Who(On(J, IstDay, d)) => p \in W
    BY DEF Who, On
  <2>2. \A p \in W : Day(J, p) = d => p \in Who(On(J, IstDay, d))
    BY DayIs
  <2>3. \A p \in W : key[p] = Day(J, p)
    OBVIOUS
  <2> HIDE DEF J, W, key
  <2> QED BY <2>1, <2>2, <2>3 DEF CohortOf, Group
<1>3. \A d \in K : h[d] = Cardinality(Group(W, key, d))
  BY <1>2
<1> HIDE DEF J, W, key
<1>4. Sum(h, K) = Cardinality(W)
  BY <1>1, <1>3, CountGroups
<1> QED BY <1>4 DEF J, W

\* Whoever acts on a date of one kind acts on one of the other: a cohort is no
\* larger than the daily users of the dates its own has times in.
LEMMA CohortWithinDays ==
  ASSUME Kept, NEW window \in SUBSET Instants, NEW d,
         NEW K, K = Dates({x \in window : IstDay[x] = d}, SessionDay), IsFiniteSet(K),
         NEW h, \A x \in K : h[x] = Cardinality(Who(On(Joined(window), SessionDay, x))),
         NEW P \in SUBSET Who(On(Joined(window), IstDay, d))
  PROVE  Cardinality(P) <= Sum(h, K)
<1> DEFINE J == Joined(window)
           U == Who(J)
           W == [x \in K |-> Who(On(J, SessionDay, x))]
<1>1. IsFiniteSet(U)
  BY JoinedFinite
<1>2. \A x \in K : W[x] \subseteq U
  BY DEF Who, On
<1>3. \A x \in K : h[x] = Cardinality(W[x])
  OBVIOUS
<1>4. ASSUME NEW p \in P PROVE \E x \in K : p \in W[x]
  <2>1. PICK j \in J : j.who = p /\ IstDay[j.row.at] = d
    BY DEF Who, On
  <2>2. j.row.at \in window
    BY JoinedTypes
  <2>3. SessionDay[j.row.at] \in K
    BY <2>1, <2>2 DEF Dates
  <2>4. p \in W[SessionDay[j.row.at]]
    BY <2>1, <2>3 DEF Who, On
  <2> QED BY <2>3, <2>4
<1> HIDE DEF U, W
<1> QED BY <1>1, <1>2, <1>3, <1>4, CountCover

-----------------------------------------------------------------------------
(* The funnel.                                                             *)

\* The rows that take an identity one step further, and when it first took it.
Fired(J, name, i, before) ==
    {j \in Named(J, name) : i > 1 => j.who \in DOMAIN before /\ j.row.at > before[j.who]}
Firsts(F) == [p \in Who(F) |-> Min({j.row.at : j \in {x \in F : x.who = p}})]
Before(s, i) == IF i = 1 THEN <<>> ELSE s[i-1]

\* The times of the first n steps.
Times(s, J, steps, n) == s = [i \in 1..n |-> Firsts(Fired(J, steps[i], i, Before(s, i)))]

\* The funnel is as long as its steps, however many.
LEMMA TimesExist ==
  ASSUME NEW J, NEW steps, NEW n \in Nat
  PROVE  \E s : Times(s, J, steps, n)
<1> DEFINE Made(m) == \E s : Times(s, J, steps, m)
           Bad == {m \in Nat : ~Made(m)}
<1>1. Bad = {}
  <2> SUFFICES ASSUME Bad # {} PROVE FALSE
    OBVIOUS
  <2>1. PICK m \in Bad : \A k \in Bad : m <= k
    BY Least
  <2>2. m # 0
    <3>1. Times([i \in 1..0 |-> 0], J, steps, 0)
      BY DEF Times
    <3> QED BY <3>1
  <2>3. m - 1 \in Nat /\ ~(m <= m - 1)
    BY <2>2
  <2>4. PICK s : Times(s, J, steps, m - 1)
    BY <2>1, <2>3
  <2> DEFINE f(i, b) == Firsts(Fired(J, steps[i], i, b))
             t == [i \in 1..m |-> IF i < m THEN s[i] ELSE f(i, Before(s, i))]
  <2>5. \A i \in 1..m-1 : s[i] = f(i, Before(s, i))
    BY <2>4 DEF Times
  <2>6. \A i \in 1..m : Before(t, i) = Before(s, i)
    BY <2>3 DEF Before
  <2>7. \A i \in 1..m : t[i] = f(i, Before(s, i))
    <3> TAKE i \in 1..m
    <3>1. CASE i < m
      BY <2>3, <2>5, <3>1
    <3>2. CASE ~(i < m)
      BY <3>2
    <3> QED BY <3>1, <3>2
  <2>8. \A i \in 1..m : t[i] = f(i, Before(t, i))
    BY <2>6, <2>7
  <2>9. t = [i \in 1..m |-> f(i, Before(t, i))]
    <3>1. DOMAIN t = 1..m /\ t = [i \in 1..m |-> t[i]]
      OBVIOUS
    <3> HIDE DEF t, f
    <3> QED BY <2>8, <3>1
  <2>10. Made(m)
    BY <2>9 DEF Times
  <2> QED BY <2>10
<1> QED BY <1>1

LEMMA StepTimesAre ==
  ASSUME NEW window, NEW steps, NEW n \in Nat, DOMAIN steps = 1..n
  PROVE  Times(StepTimes(window, steps), Joined(window), steps, n)
<1> DEFINE J == Joined(window)
           Is(s) == s = [i \in DOMAIN steps |->
              [p \in Who({j \in Named(J, steps[i]) :
                             i > 1 => /\ j.who \in DOMAIN (IF i = 1 THEN <<>> ELSE s[i-1])
                                      /\ j.row.at > (IF i = 1 THEN <<>> ELSE s[i-1])[j.who]}) |->
                 Min({j.row.at : j \in
                    {x \in {j \in Named(J, steps[i]) :
                             i > 1 => /\ j.who \in DOMAIN (IF i = 1 THEN <<>> ELSE s[i-1])
                                      /\ j.row.at > (IF i = 1 THEN <<>> ELSE s[i-1])[j.who]} :
                       x.who = p}})]]
<1>1. \A s : Is(s) <=> Times(s, J, steps, n)
  BY DEF Times, Firsts, Fired, Before
<1>2. StepTimes(window, steps) = CHOOSE s : Is(s)
  BY DEF StepTimes
<1> HIDE DEF Is
<1>3. \E s : Is(s)
  BY <1>1, TimesExist
<1>4. Is(CHOOSE s : Is(s))
  BY <1>3
<1> QED BY <1>1, <1>2, <1>4

\* Whoever took a step took the one before it.
LEMMA StepsNarrow ==
  ASSUME NEW J, NEW steps, NEW n \in Nat, NEW s, Times(s, J, steps, n), NEW i \in 2..n
  PROVE  DOMAIN s[i] \subseteq DOMAIN s[i-1]
<1>1. i \in 1..n /\ i > 1 /\ i # 1
  OBVIOUS
<1>2. s[i] = Firsts(Fired(J, steps[i], i, s[i-1]))
  BY <1>1 DEF Times, Before
<1>3. DOMAIN s[i] = Who(Fired(J, steps[i], i, s[i-1]))
  BY <1>2 DEF Firsts
<1> QED BY <1>1, <1>3 DEF Who, Fired

\* And is one of those who acted.
LEMMA StepsWho ==
  ASSUME NEW J, NEW steps, NEW n \in Nat, NEW s, Times(s, J, steps, n), NEW i \in 1..n
  PROVE  DOMAIN s[i] \subseteq Who(J)
<1>1. s[i] = Firsts(Fired(J, steps[i], i, Before(s, i)))
  BY DEF Times
<1>2. DOMAIN s[i] = Who(Fired(J, steps[i], i, Before(s, i)))
  BY <1>1 DEF Firsts
<1> QED BY <1>2 DEF Who, Fired, Named

-----------------------------------------------------------------------------
(* Reports, by the operators above.                                        *)

LEMMA TotalIs ==
  ASSUME NEW f, NEW K, K = DOMAIN f, IsFiniteSet(K)
  PROVE  Total(f) = Sum(f, K)
<1>1. PICK F : Adds(F, f, SUBSET K)
  BY SumExists
<1>2. Adds(CHOOSE H : Adds(H, f, SUBSET K), f, SUBSET K) /\ K \in SUBSET K
  BY <1>1
<1>3. Total(f) = (CHOOSE H : Adds(H, f, SUBSET K))[K]
  BY DEF Total, FoldSet, MapThenFoldSet, Adds, AnyOf
<1> QED BY <1>2, <1>3, SumWithin

LEMMA ReportsAre ==
  ASSUME NEW window, NEW steps
  PROVE  /\ Dau(window).unique_users = Cardinality(Who(Joined(window)))
         /\ Dau(window).events = Cardinality(Joined(window))
         /\ DOMAIN Dau(window).by_event = Names
         /\ \A n \in Names : Dau(window).by_event[n]
                = Cardinality({r \in rows : r.at \in window /\ Name[r.id] = n})
         /\ \A d \in Dates(window, SessionDay) :
               Dau(window).daily[d].dau = Cardinality(Who(On(Joined(window), SessionDay, d)))
BY DEF Dau, Dates

LEMMA CohortsAre ==
  ASSUME NEW window
  PROVE  LET report == RetentionReport(window, {0, 1}, FirstSeen)
             J == Joined(window)
         IN
         /\ DOMAIN report = Dates(window, IstDay)
         /\ \A d \in Dates(window, IstDay) :
               /\ report[d].size = Cardinality(CohortOf(J, d))
               /\ report[d].retained[0] = Cardinality(CohortOf(J, d) \cap Who(On(J, IstDay, d + 0)))
BY DEF RetentionReport, CohortOf, Day, Dates

LEMMA FunnelIs ==
  ASSUME NEW window, NEW steps, NEW i \in DOMAIN steps
  PROVE  Funnel(window, steps)[i] = Cardinality(DOMAIN StepTimes(window, steps)[i])
BY DEF Funnel

\* The part of the reports that holds whatever is in the store.
LEMMA WindowAgrees ==
  ASSUME Kept, NEW window \in SUBSET Instants, IsFiniteSet(window)
  PROVE  LET users   == Dau(window)
             cohorts == RetentionReport(window, {0, 1}, FirstSeen)
             steps   == Funnel(window, Steps)
             shared(d) == {SessionDay[t] : t \in {x \in window : IstDay[x] = d}}
         IN  /\ users.unique_users = Total([d \in DOMAIN cohorts |-> cohorts[d].size])
             /\ \A d \in DOMAIN cohorts :
                   cohorts[d].retained[0] <= Total([x \in shared(d) |-> users.daily[x].dau])
             /\ \A i \in 2..Len(Steps) : steps[i] <= steps[i-1]
<1> DEFINE J == Joined(window)
           R == RetentionReport(window, {0, 1}, FirstSeen)
           K == Dates(window, IstDay)
           h == [d \in DOMAIN R |-> R[d].size]
           Shared(d) == {SessionDay[t] : t \in {x \in window : IstDay[x] = d}}
           daily(d) == [x \in Shared(d) |-> Dau(window).daily[x].dau]
<1>1. IsFiniteSet(J) /\ IsFiniteSet(Who(J))
  BY JoinedFinite
<1>2. IsFiniteSet(K)
  BY ImageFinite DEF Dates
<1>3. Dau(window).unique_users = Total(h)
  <2>1. DOMAIN h = K
    BY CohortsAre
  <2>2. \A d \in K : h[d] = Cardinality(CohortOf(J, d))
    BY CohortsAre
  <2>3. Dau(window).unique_users = Cardinality(Who(J))
    BY ReportsAre
  <2> HIDE DEF h
  <2>4. Total(h) = Sum(h, K)
    BY <1>2, <2>1, TotalIs
  <2>5. Sum(h, K) = Cardinality(Who(J))
    BY <1>2, <2>2, CohortsAdd
  <2> QED BY <2>3, <2>4, <2>5
<1>4. ASSUME NEW d \in DOMAIN R PROVE R[d].retained[0] <= Total(daily(d))
  <2> DEFINE A == Who(On(J, IstDay, d))
             B == CohortOf(J, d) \cap A
             X == Shared(d)
             g == daily(d)
  <2>1. d \in K /\ d + 0 = d
    <3>1. d \in K
      BY CohortsAre
    <3>2. K \subseteq Nat
      BY MetricsAssumption DEF Dates
    <3> QED BY <3>1, <3>2
  <2>2. R[d].retained[0] = Cardinality(B)
    BY <2>1, CohortsAre
  <2>3. X = Dates({x \in window : IstDay[x] = d}, SessionDay) /\ X \subseteq Dates(window, SessionDay)
    BY DEF Dates
  <2>4. IsFiniteSet(X)
    <3>1. IsFiniteSet({x \in window : IstDay[x] = d})
      BY FS_Subset
    <3> QED BY <3>1, ImageFinite
  <2>5. \A x \in X : g[x] = Cardinality(Who(On(J, SessionDay, x)))
    BY <2>3, ReportsAre
  <2>6. DOMAIN g = X /\ B \in SUBSET A
    OBVIOUS
  <2> HIDE DEF g, X, B, R
  <2>7. Total(g) = Sum(g, X)
    BY <2>4, <2>6, TotalIs
  <2>8. Cardinality(B) <= Sum(g, X)
    BY <2>3, <2>4, <2>5, <2>6, CohortWithinDays
  <2> QED BY <2>2, <2>7, <2>8 DEF g
<1>5. ASSUME NEW i \in 2..Len(Steps) PROVE Funnel(window, Steps)[i] <= Funnel(window, Steps)[i-1]
  <2> DEFINE s == StepTimes(window, Steps)
             n == Len(Steps)
  <2>1. n \in Nat /\ DOMAIN Steps = 1..n
    BY MetricsAssumption
  <2>2. i \in 1..n /\ i - 1 \in 1..n /\ i \in 2..n
    BY <2>1
  <2>3. Times(s, J, Steps, n)
    BY <2>1, StepTimesAre
  <2>4. /\ Funnel(window, Steps)[i] = Cardinality(DOMAIN s[i])
        /\ Funnel(window, Steps)[i-1] = Cardinality(DOMAIN s[i-1])
    BY <2>1, <2>2, FunnelIs
  <2> HIDE DEF s, n, J
  <2>5. DOMAIN s[i] \subseteq DOMAIN s[i-1] /\ DOMAIN s[i-1] \subseteq Who(J)
    BY <2>1, <2>2, <2>3, StepsNarrow, StepsWho
  <2>6. IsFiniteSet(DOMAIN s[i-1])
    BY <1>1, <2>5, FS_Subset
  <2> QED BY <2>4, <2>5, <2>6, FS_Subset
<1> QED BY <1>3, <1>4, <1>5

-----------------------------------------------------------------------------
(* An event is counted once.                                               *)

Clamped(t, clock) ==
    IF t + Past < clock THEN clock - Past
    ELSE IF t > clock + Future THEN clock + Future
    ELSE t

\* Each row carries the stamp of its event, as some clock since the installation
\* clamped it.
ClampInv ==
    /\ Min(StartTimes) \in Nat /\ Min(StartTimes) <= now
    /\ \A r \in rows : /\ stamp[r.id] # Unminted
                       /\ \E clock \in Min(StartTimes)..now : r.at = Clamped(stamp[r.id], clock)

MetricsTypes == /\ Kept /\ now \in Nat /\ stamp \in [Events -> Stamps \cup {Unminted}]

LEMMA ClampStart == Init => ClampInv
<1> SUFFICES ASSUME Init PROVE ClampInv
  OBVIOUS
<1>1. StartTimes \in SUBSET Nat /\ StartTimes # {} /\ now \in StartTimes /\ rows = {}
  BY EventAssumption DEF Init
<1>2. Min(StartTimes) \in StartTimes /\ Min(StartTimes) <= now
  BY <1>1, LeastIs
<1> QED BY <1>1, <1>2 DEF ClampInv

LEMMA ClampStep ==
  ASSUME MetricsTypes, ClampInv, [Next]_vars
  PROVE  ClampInv'
<1>1. Min(StartTimes) \in Nat /\ Min(StartTimes) <= now /\ now \in Nat
  BY DEF ClampInv, MetricsTypes
<1>2. now' \in Nat /\ now <= now'
  <2>1. now' = now \/ now' = now + 1
    BY DEF Next, Mint, Insert, Link, RequestFails, Tick, StartRun, Create, CreateRefused,
           ListPartitions, Drop, RunDies, vars
  <2> QED BY <1>1, <2>1
<1>3. \A e \in Events : stamp[e] # Unminted => stamp'[e] = stamp[e]
  <2>1. CASE \E e \in Events : Mint(e)
    BY <2>1 DEF Mint, MetricsTypes
  <2>2. CASE stamp' = stamp
    BY <2>2
  <2>3. stamp' = stamp \/ \E e \in Events : Mint(e)
    BY DEF Next, Insert, Link, RequestFails, Tick, StartRun, Create, CreateRefused,
           ListPartitions, Drop, RunDies, vars
  <2> QED BY <2>1, <2>2, <2>3
<1>4. ASSUME NEW r \in rows'
      PROVE  /\ stamp'[r.id] # Unminted
             /\ \E clock \in Min(StartTimes)..now' : r.at = Clamped(stamp'[r.id], clock)
  <2>1. CASE r \in rows
    <3>1. r.id \in Events /\ stamp[r.id] # Unminted
      BY <2>1 DEF MetricsTypes, Kept, Keys, ClampInv
    <3>2. PICK clock \in Min(StartTimes)..now : r.at = Clamped(stamp[r.id], clock)
      BY <2>1 DEF ClampInv
    <3>3. clock \in Min(StartTimes)..now' /\ stamp'[r.id] = stamp[r.id]
      BY <1>1, <1>2, <1>3, <3>1, <3>2
    <3> QED BY <3>1, <3>2, <3>3
  <2>2. CASE r \notin rows
    <3>1. \E c \in Clients : Insert(c)
      BY <2>2 DEF Next, Mint, Link, RequestFails, Tick, StartRun, Create, CreateRefused,
                  ListPartitions, Drop, RunDies, vars
    <3>2. PICK e \in Events : r = Key(e) /\ stamp[e] # Unminted /\ stamp' = stamp
      BY <2>2, <3>1 DEF Insert
    <3>3. r.id = e /\ r.at = Clamped(stamp[e], now)
      BY <3>2 DEF Key, Clamp, Clamped
    <3>4. now \in Min(StartTimes)..now'
      BY <1>1, <1>2
    <3> QED BY <3>2, <3>3, <3>4
  <2> QED BY <2>1, <2>2
<1> QED BY <1>1, <1>2, <1>4 DEF ClampInv

\* As long as no clock had to clamp it, a row carries its event's own stamp.
LEMMA SteadyRow ==
  ASSUME MetricsTypes, ClampInv, Past \in Nat, Future \in Nat, NEW r \in rows, Steady(r.id)
  PROVE  r.at = stamp[r.id]
<1>1. r.id \in Events /\ stamp[r.id] # Unminted
  BY DEF MetricsTypes, Kept, Keys, ClampInv
<1>2. stamp[r.id] \in Nat /\ now \in Nat /\ Min(StartTimes) \in Nat
  BY <1>1, EventAssumption DEF MetricsTypes, ClampInv
<1>3. PICK clock \in Min(StartTimes)..now : r.at = Clamped(stamp[r.id], clock)
  BY DEF ClampInv
<1>4. now - Past <= stamp[r.id] /\ stamp[r.id] <= Min(StartTimes) + Future
  BY <1>2 DEF Steady
<1>5. clock \in Nat /\ clock <= now /\ Min(StartTimes) <= clock
  BY <1>2, <1>3
<1>6. ~(stamp[r.id] + Past < clock) /\ ~(stamp[r.id] > clock + Future)
  BY <1>2, <1>4, <1>5
<1> QED BY <1>3, <1>6 DEF Clamped

\* A session of one user at most.
LEMMA OneMatch ==
  ASSUME Kept, ~SharedSession, NEW e \in Events
  PROVE  \E m : Matches(e) = {m}
<1>1. CASE Session[e] = Nobody \/ UsersOf(e) = {}
  BY <1>1, Linked DEF Kept
<1>2. CASE Session[e] # Nobody /\ UsersOf(e) # {}
  <2>1. PICK x \in linked : Session[x] = Session[e]
    BY <1>2 DEF UsersOf
  <2>2. UsersOf(x) = UsersOf(e) /\ Matches(e) = UsersOf(e) /\ Matches(x) = UsersOf(x)
    <3>1. UsersOf(x) = UsersOf(e)
      BY <2>1 DEF UsersOf
    <3> QED BY <1>2, <2>1, <3>1, Linked DEF Kept
  <2>3. ~(Cardinality(Matches(e)) > 1)
    BY <2>1, <2>2 DEF SharedSession
  <2>4. IsFiniteSet(Matches(e))
    <3>1. IsFiniteSet({User[y] : y \in Events})
      BY MetricsAssumption, ImageFinite
    <3>2. Matches(e) \subseteq {User[y] : y \in Events}
      BY <2>2, Linked DEF Kept
    <3> QED BY <3>1, <3>2, FS_Subset
  <2>5. PICK m \in Matches(e) : TRUE
    BY Linked DEF Kept
  <2>6. ASSUME NEW u \in Matches(e), u # m PROVE FALSE
    <3>1. {m, u} \subseteq Matches(e) /\ IsFiniteSet({m, u}) /\ Cardinality({m, u}) = 2
      <4>1. IsFiniteSet({m}) /\ Cardinality({m}) = 1 /\ u \notin {m} /\ {m, u} = {m} \cup {u}
        BY <2>6, FS_Singleton
      <4>2. /\ IsFiniteSet({m} \cup {u})
            /\ Cardinality({m} \cup {u}) = IF u \in {m} THEN Cardinality({m}) ELSE Cardinality({m}) + 1
        BY <4>1, FS_AddElement
      <4>3. Cardinality({m} \cup {u}) = 1 + 1
        BY ONLY <4>1, <4>2
      <4> QED BY <4>1, <4>2, <4>3
    <3>2. 2 <= Cardinality(Matches(e)) /\ Cardinality(Matches(e)) \in Nat
      BY <2>4, <3>1, FS_Subset, FS_CardinalityType
    <3> QED BY <2>3, <3>2
  <2> QED BY <2>5, <2>6
<1> QED BY <1>1, <1>2

KnownRows == {x \in rows : Known(x.id)}

\* Who acted is known of a row unless it has neither id.
LEMMA WhoIsKnown ==
  ASSUME Kept, NEW e \in Events, NEW m \in Matches(e)
  PROVE  IdentityKey(e, m) # Nobody <=> Known(e)
<1>1. m # Nobody => Session[e] # Nobody
  BY Linked DEF Kept
<1> QED BY <1>1 DEF IdentityKey, Known

LEMMA CountedOnce ==
  ASSUME MetricsTypes, ClampInv, ~SharedSession, \A r \in rows : Steady(r.id)
  PROVE  /\ Dau(Instants).events = Cardinality({r.id : r \in KnownRows})
         /\ Total(Dau(Instants).by_event) = Cardinality({r.id : r \in rows})
<1> DEFINE J == Joined(Instants)
           I == {r.id : r \in KnownRows}
           g == [j \in J |-> j.row.id]
           all == {r.id : r \in rows}
           id == [r \in rows |-> r.id]
<1>1. Past \in Nat /\ Future \in Nat /\ Kept /\ IsFiniteSet(rows)
  BY EventAssumption DEF MetricsTypes, Kept
<1>2. \A r, q \in rows : r.id = q.id => r = q
  <2> SUFFICES ASSUME NEW r \in rows, NEW q \in rows, r.id = q.id PROVE r = q
    OBVIOUS
  <2>1. r.at = stamp[r.id] /\ q.at = stamp[q.id]
    BY <1>1, SteadyRow
  <2>2. r = [id |-> r.id, at |-> r.at] /\ q = [id |-> q.id, at |-> q.at]
    BY <1>1 DEF Kept, Keys
  <2> QED BY <2>1, <2>2
<1>3. \A r \in rows : r.at \in Instants /\ r.id \in Events
  BY <1>1 DEF Kept, Keys, Instants
<1>4. ASSUME NEW j \in J PROVE j.row.id \in I /\ j.row \in rows
  BY <1>1, JoinedTypes, WhoIsKnown DEF KnownRows
<1>5. ASSUME NEW j \in J, NEW k \in J, j.row.id = k.row.id PROVE j = k
  <2>1. j.row = k.row
    BY <1>2, <1>4, <1>5
  <2>2. j.match \in Matches(j.row.id) /\ k.match \in Matches(j.row.id) /\ j.row.id \in Events
    BY <1>1, <2>1, JoinedTypes
  <2>3. j.match = k.match
    BY <1>1, <2>2, OneMatch
  <2> QED BY <2>1, <2>3, JoinedIs
<1>6. ASSUME NEW i \in I PROVE \E j \in J : j.row.id = i
  <2>1. PICK r \in rows : r.id = i /\ Known(r.id)
    BY DEF KnownRows
  <2>2. PICK m \in Matches(r.id) : TRUE
    BY <1>1, Linked DEF Kept
  <2>3. IdentityKey(r.id, m) # Nobody
    BY <1>1, <1>3, <2>1, WhoIsKnown
  <2>4. [row |-> r, match |-> m, who |-> IdentityKey(r.id, m)] \in J
    BY <1>3, <2>3, JoinedIs
  <2> QED BY <2>1, <2>4
<1>7. Cardinality(J) = Cardinality(I)
  <2>1. IsFiniteSet(J)
    BY <1>1, JoinedFinite
  <2> HIDE DEF J, I
  <2>2. g \in Injection(J, I) /\ g \in Surjection(J, I)
    BY <1>4, <1>5, <1>6 DEF Injection, IsInjective, Surjection
  <2>3. g \in Bijection(J, I)
    BY <2>2 DEF Bijection
  <2> QED BY <2>1, <2>3, FS_Bijection DEF ExistsBijection
<1>8. Cardinality(rows) = Cardinality(all)
  <2>1. id \in Injection(rows, all) /\ id \in Surjection(rows, all)
    BY <1>2 DEF Injection, IsInjective, Surjection
  <2>2. id \in Bijection(rows, all)
    BY <2>1 DEF Bijection
  <2> HIDE DEF id, all
  <2> QED BY <1>1, <2>2, FS_Bijection DEF ExistsBijection
<1>9. Total(Dau(Instants).by_event) = Cardinality(rows)
  <2> DEFINE h == Dau(Instants).by_event
             key == [r \in rows |-> Name[r.id]]
  <2>1. DOMAIN h = Names /\ IsFiniteSet(Names) /\ \A r \in rows : key[r] \in Names
    BY <1>3, ReportsAre, MetricsAssumption
  <2>2. \A n \in Names : h[n] = Cardinality(Group(rows, key, n))
    <3> TAKE n \in Names
    <3>1. Group(rows, key, n) = {r \in rows : r.at \in Instants /\ Name[r.id] = n}
      BY <1>3 DEF Group
    <3> QED BY <3>1, ReportsAre
  <2> HIDE DEF h, key
  <2>3. Total(h) = Sum(h, Names)
    BY <2>1, TotalIs
  <2>4. Sum(h, Names) = Cardinality(rows)
    BY <1>1, <2>1, <2>2, CountGroups
  <2> QED BY <2>3, <2>4 DEF h
<1>10. Dau(Instants).events = Cardinality(J)
  BY ReportsAre
<1> HIDE DEF J, I, all
<1> QED BY <1>7, <1>8, <1>9, <1>10 DEF I, all

LEMMA Agreement ==
  ASSUME MetricsTypes, ClampInv
  PROVE  ReportsAgree
<1>1. ASSUME NEW from, NEW last
      PROVE  WindowClause(from, last) \in SUBSET Instants /\ IsFiniteSet(WindowClause(from, last))
  <2>1. IsFiniteSet(Instants)
    BY EventAssumption, FS_Interval DEF Instants
  <2>2. WindowClause(from, last) \in SUBSET Instants
    BY DEF WindowClause
  <2> QED BY <2>1, <2>2, FS_Subset
<1>2. ASSUME \A e \in Events : stamp[e] # Unminted => Steady(e)
      PROVE  \A r \in rows : Steady(r.id)
  BY <1>2 DEF ClampInv, MetricsTypes, Kept, Keys
<1>3. ASSUME NEW from, NEW last
      PROVE  LET window  == WindowClause(from, last)
                 users   == Dau(window)
                 cohorts == RetentionReport(window, {0, 1}, FirstSeen)
                 steps   == Funnel(window, Steps)
                 shared(d) == {SessionDay[t] : t \in {x \in window : IstDay[x] = d}}
             IN  /\ users.unique_users = Total([d \in DOMAIN cohorts |-> cohorts[d].size])
                 /\ \A d \in DOMAIN cohorts :
                       cohorts[d].retained[0] <= Total([x \in shared(d) |-> users.daily[x].dau])
                 /\ \A i \in 2..Len(Steps) : steps[i] <= steps[i-1]
  BY <1>1, WindowAgrees DEF MetricsTypes
<1> QED BY <1>2, <1>3, CountedOnce DEF ReportsAgree, KnownRows

-----------------------------------------------------------------------------
(* A login.                                                                *)

\* The rows an identity acted in.
RowsOf(J, p) == {j.row : j \in {x \in J : x.who = p}}
Has(J, p, L, q) == RowsOf(L, q) \subseteq RowsOf(J, p)

\* Two sets of rows with the times of their steps.
Stepped(J, s, steps, n) == Times(s, J, steps, n) /\ \A j \in J : j.row.at \in Nat

\* Whoever acted in all the rows of another got as far as that, and no later.
LEMMA FurtherOn ==
  ASSUME NEW J, NEW L, NEW steps, NEW n \in Nat, NEW s, NEW t,
         Stepped(J, s, steps, n), Stepped(L, t, steps, n),
         NEW p, NEW q, Has(L, q, J, p),
         NEW i \in 1..n, p \in DOMAIN s[i]
  PROVE  q \in DOMAIN t[i] /\ t[i][q] <= s[i][p] /\ s[i][p] \in Nat /\ t[i][q] \in Nat
<1>0. /\ Times(s, J, steps, n) /\ Times(t, L, steps, n)
      /\ \A j \in J : j.row.at \in Nat
      /\ \A l \in L : l.row.at \in Nat
  BY DEF Stepped
<1> DEFINE Good(k) == p \in DOMAIN s[k] =>
              q \in DOMAIN t[k] /\ t[k][q] <= s[k][p] /\ s[k][p] \in Nat /\ t[k][q] \in Nat
           Bad == {k \in 1..n : ~Good(k)}
<1>1. Bad = {}
  <2> SUFFICES ASSUME Bad # {} PROVE FALSE
    OBVIOUS
  <2>1. PICK k \in Bad : \A l \in Bad : k <= l
    <3>1. Bad \in SUBSET Nat
      OBVIOUS
    <3> HIDE DEF Bad
    <3> QED BY <3>1, Least
  <2>2. k \in 1..n /\ p \in DOMAIN s[k] /\ ~Good(k)
    BY <2>1
  <2>3. k # 1 => k - 1 \in 1..n /\ Good(k - 1)
    <3>1. k # 1 => k - 1 \in 1..n /\ ~(k <= k - 1)
      BY <2>2
    <3> HIDE DEF Good
    <3> QED BY <2>1, <3>1
  <2> HIDE DEF Bad
  <2> DEFINE F == Fired(J, steps[k], k, Before(s, k))
             G == Fired(L, steps[k], k, Before(t, k))
             A == {j.row.at : j \in {x \in F : x.who = p}}
             B == {j.row.at : j \in {x \in G : x.who = q}}
  <2>4. s[k] = Firsts(F) /\ t[k] = Firsts(G)
    BY <1>0, <2>2 DEF Times
  <2>5. A \in SUBSET Nat /\ B \in SUBSET Nat
    BY <1>0 DEF Fired, Named
  <2>6. A # {}
    <3>1. p \in Who(F)
      <4> HIDE DEF F, G
      <4> QED BY <2>2, <2>4 DEF Firsts
    <3> QED BY <3>1 DEF Who
  <2>7. s[k][p] = Min(A)
    BY <2>2, <2>4 DEF Firsts
  <2>8. PICK j \in F : j.who = p /\ j.row.at = Min(A)
    <3>1. Min(A) \in A
      <4> HIDE DEF A
      <4> QED BY <2>5, <2>6, LeastIs
    <3> QED BY <3>1
  <2>9. j \in J /\ Name[j.row.id] = steps[k]
        /\ (k > 1 => p \in DOMAIN Before(s, k) /\ j.row.at > Before(s, k)[p])
    BY <2>8 DEF Fired, Named
  <2>10. PICK l \in L : l.who = q /\ l.row = j.row
    BY <2>8, <2>9 DEF Has, RowsOf
  <2>11. k > 1 => q \in DOMAIN Before(t, k) /\ l.row.at > Before(t, k)[q]
    <3> SUFFICES ASSUME k > 1 PROVE q \in DOMAIN Before(t, k) /\ l.row.at > Before(t, k)[q]
      OBVIOUS
    <3>1. k # 1 /\ Before(s, k) = s[k-1] /\ Before(t, k) = t[k-1]
      BY <2>2 DEF Before
    <3>2. /\ q \in DOMAIN t[k-1] /\ t[k-1][q] <= s[k-1][p] /\ s[k-1][p] \in Nat /\ t[k-1][q] \in Nat
          /\ j.row.at > s[k-1][p] /\ j.row.at \in Nat
      BY <1>0, <2>3, <2>9, <3>1
    <3> QED BY <2>10, <3>1, <3>2
  <2>12. l \in G
    BY <2>9, <2>10, <2>11 DEF Fired, Named
  <2>13. q \in Who(G) /\ l.row.at \in B
    BY <2>10, <2>12 DEF Who
  <2>14. q \in DOMAIN t[k] /\ t[k][q] = Min(B)
    BY <2>4, <2>13 DEF Firsts
  <2>15. Min(B) \in Nat /\ Min(B) <= l.row.at
    <3> HIDE DEF B
    <3> QED BY <2>5, <2>13, LeastIs
  <2>16. Min(A) \in Nat
    BY <1>0, <2>8, <2>9
  <2> HIDE DEF A, B, F, G
  <2>17. Good(k)
    BY <2>7, <2>8, <2>10, <2>14, <2>15, <2>16
  <2> QED BY <2>2, <2>17
<1> QED BY <1>1

\* How far an identity has got.
Reached(s, p) == {i \in DOMAIN Steps : p \in DOMAIN s[i]}
Keyed == {User[e] : e \in Events} \cup {Session[e] : e \in Events}

LEMMA ProgressIs ==
  Progress = [p \in Keyed |-> Cardinality(Reached(StepTimes(Instants, Steps), p))]
BY DEF Progress, Keyed, Reached

LEMMA ProgressNext ==
  Progress' = [p \in Keyed |-> Cardinality(Reached(StepTimes(Instants, Steps)', p))]
<1>1. (Progress = [p \in Keyed |-> Cardinality(Reached(StepTimes(Instants, Steps), p))])'
  BY ProgressIs, PTL
<1> QED BY <1>1 DEF Keyed, Reached

LEMMA StepsTimed ==
  Times(StepTimes(Instants, Steps), Joined(Instants), Steps, Len(Steps))
<1>1. Len(Steps) \in Nat /\ DOMAIN Steps = 1..Len(Steps)
  BY MetricsAssumption
<1> QED BY <1>1, StepTimesAre

LEMMA StepsTimedNext ==
  Times(StepTimes(Instants, Steps)', Joined(Instants)', Steps, Len(Steps))
<1>1. Times(StepTimes(Instants, Steps), Joined(Instants), Steps, Len(Steps))'
  BY StepsTimed, PTL
<1> QED BY <1>1 DEF Times, Firsts, Fired, Before, Who, Named

LEMMA JoinedTimed == Kept => \A j \in Joined(Instants) : j.row.at \in Nat
BY JoinedTypes

LEMMA JoinedTimedNext == Kept' => \A j \in Joined(Instants)' : j.row.at \in Nat
<1>1. (Kept => \A j \in Joined(Instants) : j.row.at \in Nat)'
  BY JoinedTimed, PTL
<1> QED BY <1>1

\* So whoever has all the rows of another has come as far.
LEMMA Advances ==
  ASSUME Kept, Kept', NEW p \in Keyed, NEW q \in Keyed,
         Has(Joined(Instants)', q, Joined(Instants), p)
  PROVE  Progress'[q] >= Progress[p]
<1> DEFINE J == Joined(Instants)
           L == Joined(Instants)'
           s == StepTimes(Instants, Steps)
           t == StepTimes(Instants, Steps)'
           n == Len(Steps)
<1>1. n \in Nat /\ DOMAIN Steps = 1..n
  BY MetricsAssumption
<1>2. Stepped(J, s, Steps, n)
  BY StepsTimed, JoinedTimed DEF Stepped
<1>3. Stepped(L, t, Steps, n)
  BY StepsTimedNext, JoinedTimedNext DEF Stepped
<1>5. Reached(s, p) \subseteq Reached(t, q)
  <2> HIDE DEF J, L, s, t, n
  <2>1. Has(L, q, J, p)
    BY DEF J, L
  <2>2. \A i \in 1..n : p \in DOMAIN s[i] => q \in DOMAIN t[i]
    BY <1>1, <1>2, <1>3, <2>1, FurtherOn
  <2> QED BY <1>1, <2>2 DEF Reached
<1>6. Reached(t, q) \subseteq 1..n /\ IsFiniteSet(1..n)
  BY <1>1, FS_Interval DEF Reached
<1>7. /\ Cardinality(Reached(s, p)) <= Cardinality(Reached(t, q))
      /\ Cardinality(Reached(s, p)) \in Nat /\ Cardinality(Reached(t, q)) \in Nat
  <2> HIDE DEF s, t, n
  <2>1. IsFiniteSet(Reached(t, q)) /\ IsFiniteSet(Reached(s, p))
    BY <1>5, <1>6, FS_Subset
  <2> QED BY <1>5, <2>1, FS_Subset, FS_CardinalityType
<1>8. Progress[p] = Cardinality(Reached(s, p)) /\ Progress'[q] = Cardinality(Reached(t, q))
  BY ProgressIs, ProgressNext
<1> HIDE DEF s, t
<1> QED BY <1>7, <1>8

\* A step that keeps the rows and adds to the links.
Login == Kept /\ Kept' /\ rows' = rows /\ linked \subseteq linked'

LEMMA LinkedNext ==
  ASSUME Login, NEW e
  PROVE  /\ UsersOf(e) \subseteq UsersOf(e)'
         /\ Matches(e)' # {}
         /\ Nobody \notin UsersOf(e)'
         /\ \A u \in UsersOf(e)' : \E x \in Events : u = User[x]
         /\ Session[e] # Nobody /\ UsersOf(e)' # {} => Matches(e)' = UsersOf(e)'
         /\ Session[e] = Nobody \/ UsersOf(e)' = {} => Matches(e)' = {Nobody}
<1>1. linked' \subseteq Identified /\ linked \subseteq linked'
  BY DEF Login, Kept
<1>2. \A x \in linked' : x \in Events /\ User[x] # Nobody
  BY <1>1, MetricsAssumption
<1>3. UsersOf(e)' = {User[x] : x \in {y \in linked' : Session[y] = Session[e]}}
  BY DEF UsersOf
<1>4. Matches(e)' = IF Session[e] = Nobody \/ UsersOf(e)' = {} THEN {Nobody} ELSE UsersOf(e)'
  BY DEF Matches, UsersOf
<1>5. Nobody \notin UsersOf(e)' /\ \A u \in UsersOf(e)' : \E x \in Events : u = User[x]
  BY <1>2, <1>3
<1>6. UsersOf(e) \subseteq UsersOf(e)'
  BY <1>1, <1>3 DEF UsersOf
<1> QED BY <1>4, <1>5, <1>6

JoinsAll ==
    \A r \in rows : \A m \in Matches(r.id) :
        r.at \in Instants /\ IdentityKey(r.id, m) # Nobody =>
            [row |-> r, match |-> m, who |-> IdentityKey(r.id, m)] \in Joined(Instants)

LEMMA AllJoined == JoinsAll
BY JoinedIs DEF JoinsAll

LEMMA JoinedNext ==
  ASSUME Login, NEW r \in rows, r.at \in Instants, NEW m \in Matches(r.id)', IdentityKey(r.id, m) # Nobody
  PROVE  [row |-> r, match |-> m, who |-> IdentityKey(r.id, m)] \in Joined(Instants)'
<1>1. JoinsAll'
  BY AllJoined, PTL
<1> QED BY <1>1 DEF JoinsAll, Login, IdentityKey, Instants

\* To have the rows of another it is enough to match each of them.
LEMMA HasRows ==
  ASSUME Login, NEW p, NEW q,
         \A j \in Joined(Instants) : j.who = p =>
            \E m \in Matches(j.row.id)' : IdentityKey(j.row.id, m) = q /\ q # Nobody
  PROVE  Has(Joined(Instants)', q, Joined(Instants), p)
<1> SUFFICES ASSUME NEW j \in Joined(Instants), j.who = p
             PROVE  \E l \in Joined(Instants)' : l.who = q /\ l.row = j.row
  BY DEF Has, RowsOf
<1>1. PICK m \in Matches(j.row.id)' : IdentityKey(j.row.id, m) = q /\ q # Nobody
  OBVIOUS
<1>2. j.row \in rows /\ j.row.at \in Instants
  BY JoinedTypes DEF Login
<1>3. [row |-> j.row, match |-> m, who |-> q] \in Joined(Instants)'
  BY <1>1, <1>2, JoinedNext
<1> QED BY <1>3

\* No user's id is a session's key.
LEMMA NoSharedKey ==
  ASSUME NEW e \in Events, NEW x \in Events, User[e] # Nobody
  PROVE  User[e] # Session[x]
BY MetricsAssumption

\* A user keeps the rows that are his.
LEMMA UserAdvances ==
  ASSUME Login, NEW x \in Events, User[x] # Nobody
  PROVE  Progress'[User[x]] >= Progress[User[x]]
<1> DEFINE u == User[x]
<1>1. ASSUME NEW j \in Joined(Instants), j.who = u
      PROVE  \E m \in Matches(j.row.id)' : IdentityKey(j.row.id, m) = u /\ u # Nobody
  <2> DEFINE e == j.row.id
  <2>1. e \in Events /\ j.match \in Matches(e) /\ IdentityKey(e, j.match) = u
    BY <1>1, JoinedTypes DEF Login
  <2>2. CASE User[e] # Nobody
    <3>1. PICK m \in Matches(e)' : TRUE
      BY LinkedNext
    <3> QED BY <2>1, <2>2, <3>1 DEF IdentityKey
  <2>3. CASE User[e] = Nobody /\ j.match # Nobody
    <3>1. j.match = u /\ Session[e] # Nobody /\ u \in UsersOf(e)
      BY <2>1, <2>3, Linked DEF IdentityKey, Login, Kept
    <3>2. u \in Matches(e)'
      BY <3>1, LinkedNext
    <3> QED BY <2>3, <3>2 DEF IdentityKey
  <2>4. CASE User[e] = Nobody /\ j.match = Nobody
    BY <2>1, <2>4, NoSharedKey DEF IdentityKey
  <2> QED BY <2>2, <2>3, <2>4
<1>2. Has(Joined(Instants)', u, Joined(Instants), u)
  BY <1>1, HasRows
<1>3. u \in Keyed
  BY DEF Keyed
<1> QED BY <1>2, <1>3, Advances DEF Login

\* A session that stays without a user keeps its rows; the first user it gets
\* has them all.
LEMMA SessionAdvances ==
  ASSUME Login, NEW x \in Events, Session[x] # Nobody, UsersOf(x) = {},
         NEW n \in Matches(x)'
  PROVE  LET q == IF n # Nobody THEN n ELSE Session[x]
         IN  Progress'[q] >= Progress[Session[x]]
<1> DEFINE s == Session[x]
           q == IF n # Nobody THEN n ELSE s
<1>0. /\ n # Nobody => n \in UsersOf(x)'
      /\ n = Nobody => UsersOf(x)' = {}
  BY LinkedNext
<1>1. ASSUME NEW j \in Joined(Instants), j.who = s
      PROVE  \E m \in Matches(j.row.id)' : IdentityKey(j.row.id, m) = q /\ q # Nobody
  <2> DEFINE e == j.row.id
  <2>1. e \in Events /\ j.match \in Matches(e) /\ IdentityKey(e, j.match) = s
    BY <1>1, JoinedTypes DEF Login
  <2>2. User[e] = Nobody
    BY <2>1, NoSharedKey DEF IdentityKey
  <2>3. j.match = Nobody
    <3> SUFFICES ASSUME j.match # Nobody PROVE FALSE
      OBVIOUS
    <3>1. j.match = s /\ j.match \in UsersOf(e)
      BY <2>1, <2>2, Linked DEF IdentityKey, Login, Kept
    <3>2. PICK y \in Events : s = User[y]
      BY <3>1, Linked DEF Login, Kept
    <3> QED BY <3>2, NoSharedKey
  <2>4. Session[e] = s
    BY <2>1, <2>2, <2>3 DEF IdentityKey
  <2>5. Matches(e)' = Matches(x)'
    BY <2>4 DEF Matches
  <2>6. IdentityKey(e, n) = q
    BY <2>2, <2>4 DEF IdentityKey
  <2> QED BY <2>5, <2>6
<1>2. Has(Joined(Instants)', q, Joined(Instants), s)
  <2> HIDE DEF q, s
  <2> QED BY <1>1, HasRows
<1>3. s \in Keyed /\ q \in Keyed
  <2>1. s \in Keyed
    BY DEF Keyed
  <2>2. n # Nobody => \E y \in Events : n = User[y]
    BY <1>0, LinkedNext
  <2> QED BY <2>1, <2>2 DEF Keyed
<1> HIDE DEF q, s
<1>4. Progress'[q] >= Progress[s]
  BY <1>2, <1>3, Advances DEF Login
<1> QED BY <1>4 DEF q, s

LEMMA LoginAdvances ==
  ASSUME Login, NEW r \in {j.row : j \in Joined(Instants)}
  PROVE  /\ User[r.id] # Nobody => Progress'[User[r.id]] >= Progress[User[r.id]]
         /\ \A m \in Matches(r.id) : \E n \in Matches(r.id)' :
               Progress'[IdentityKey(r.id, n)] >= Progress[IdentityKey(r.id, m)]
<1> DEFINE e == r.id
<1>1. PICK j \in Joined(Instants) : j.row = r
  OBVIOUS
<1>2. e \in Events /\ j.match \in Matches(e) /\ IdentityKey(e, j.match) # Nobody
  BY <1>1, JoinedTypes DEF Login
<1>3. User[e] # Nobody => Progress'[User[e]] >= Progress[User[e]]
  BY <1>2, UserAdvances
<1>4. ASSUME NEW m \in Matches(e)
      PROVE  \E n \in Matches(e)' : Progress'[IdentityKey(e, n)] >= Progress[IdentityKey(e, m)]
  <2>1. CASE User[e] # Nobody
    <3>1. PICK n \in Matches(e)' : TRUE
      BY LinkedNext
    <3> QED BY <1>3, <2>1, <3>1 DEF IdentityKey
  <2>2. CASE User[e] = Nobody /\ m # Nobody
    <3>1. Session[e] # Nobody /\ m \in UsersOf(e) /\ \E x \in Events : m = User[x]
      BY <1>4, <2>2, Linked DEF Login, Kept
    <3>2. m \in Matches(e)'
      BY <3>1, LinkedNext
    <3>3. Progress'[m] >= Progress[m]
      BY <2>2, <3>1, UserAdvances
    <3> QED BY <2>2, <3>2, <3>3 DEF IdentityKey
  <2>3. CASE User[e] = Nobody /\ m = Nobody
    <3>1. Matches(e) = {Nobody} /\ (Session[e] = Nobody \/ UsersOf(e) = {})
      BY <1>4, <2>3, Linked DEF Login, Kept
    <3>2. Session[e] # Nobody
      BY <1>2, <2>3, <3>1 DEF IdentityKey
    <3>3. PICK n \in Matches(e)' : TRUE
      BY LinkedNext
    <3>4. Progress'[IF n # Nobody THEN n ELSE Session[e]] >= Progress[Session[e]]
      BY <1>2, <3>1, <3>2, <3>3, SessionAdvances
    <3> QED BY <2>3, <3>3, <3>4 DEF IdentityKey
  <2> QED BY <2>1, <2>2, <2>3
<1> QED BY <1>3, <1>4

-----------------------------------------------------------------------------
(* The reports agree, whatever reaches the store.                          *)

\* The rows an event can have are finitely many.
LEMMA KeysFinite == IsFiniteSet(Keys)
<1> DEFINE P == Events \X (0..(MaxTime + Future))
           f == [k \in Keys |-> <<k.id, k.at>>]
<1>1. IsFiniteSet(0..(MaxTime + Future))
  BY EventAssumption, FS_Interval
<1>2. IsFiniteSet(P)
  BY <1>1, MetricsAssumption, FS_Product
<1>3. f \in Injection(Keys, P)
  BY DEF Injection, IsInjective, Keys
<1> QED BY <1>2, <1>3, FS_Injection

LEMMA MetricsTyped == IInv => MetricsTypes
<1>1. ASSUME IInv PROVE rows \subseteq Keys /\ linked \subseteq Identified /\ now \in Nat
                        /\ stamp \in [Events -> Stamps \cup {Unminted}]
  BY <1>1, EventAssumption DEF IInv, TypeOK
<1> QED BY <1>1, KeysFinite, FS_Subset DEF MetricsTypes, Kept

\* dau, funnel and retention: over any dates they agree, whatever the timezone of
\* the session makes of a time beside that of India; and while no stamp had to be
\* clamped and no session is shared, an event is counted once.
THEOREM ReportsHold == Spec => []ReportsAgree
<1>1. Init => IInv /\ ClampInv
  BY InitIInv, ClampStart
<1>2. IInv /\ ClampInv /\ [Next]_vars => IInv' /\ ClampInv'
  BY IInvStep, MetricsTyped, ClampStep
<1>3. IInv /\ ClampInv => ReportsAgree
  BY MetricsTyped, Agreement
<1> QED BY <1>1, <1>2, <1>3, PTL DEF Spec

\* No link is ever removed.
LEMMA LinksStay ==
  ASSUME IInv, [Next]_vars
  PROVE  linked \subseteq linked'
BY DEF Next, vars, Mint, Insert, Link, RequestFails, Tick, StartRun, Create, CreateRefused, AttemptFails,
       ListPartitions, Drop, RunDies

\* IDENTITY_KEY: a login only adds to what a user has done, and nobody's anonymous
\* progress is lost on the way.
THEOREM LoginHolds == Spec => LoginKeepsProgress
<1> DEFINE Keeps ==
      rows' = rows =>
          \A was \in {Progress}, is \in {Progress'}, r \in {j.row : j \in Joined(Instants)} :
              /\ User[r.id] # Nobody => is[User[r.id]] >= was[User[r.id]]
              /\ \A m \in Matches(r.id) : \E n \in Matches(r.id)' :
                    is[IdentityKey(r.id, n)] >= was[IdentityKey(r.id, m)]
<1>1. Spec => []IInv
  BY InitIInv, IInvStep, PTL DEF Spec
<1>2. IInv /\ IInv' /\ [Next]_vars => [Keeps]_linked
  <2> SUFFICES ASSUME IInv, IInv', [Next]_vars, rows' = rows PROVE Keeps
    OBVIOUS
  <2>1. Kept /\ linked \subseteq linked'
    BY MetricsTyped, LinksStay DEF MetricsTypes
  <2>2. Kept'
    BY KeysFinite, FS_Subset DEF IInv, TypeOK, Kept
  <2>3. Login
    BY <2>1, <2>2 DEF Login
  <2> QED BY <2>3, LoginAdvances
<1> QED BY <1>1, <1>2, PTL DEF Spec, LoginKeepsProgress

-----------------------------------------------------------------------------
(* BookingProducer: first orders and lost orders.                          *)

Calling == [pc : {"none", "count", "post", "over"}, first : BOOLEAN, attempt : 0..Backoffs]

Types ==
    /\ deleted \subseteq paid /\ paid \subseteq Bookings
    /\ emission \in [Bookings \X Calls -> Calling]
    /\ conversions \subseteq [booking : Bookings, first : BOOLEAN]
    /\ failedPosts \in [Bookings -> Nat]

SameBuyer(a, b) == Buyer[a] = Buyer[b]

\* A call of the booking found it to be the first.
Claims(b) == \E k \in Calls : emission[<<b, k>>].first = TRUE

\* Whoever counts later finds the other booking paid, so of two claims one is of
\* a booking deleted since.  A user whose every booking was paid after the
\* conversion of the one before has one without a conversion at most, and when
\* that is not a first order, there is a conversion already.
FirstInv ==
    /\ \A b \in Bookings, k \in Calls :
          /\ emission[<<b, k>>].pc # "none" => b \in paid
          /\ emission[<<b, k>>].pc \in {"none", "count"} =>
                emission[<<b, k>>].first = FALSE /\ emission[<<b, k>>].attempt = 0
          /\ emission[<<b, k>>].pc = "post" /\ emission[<<b, k>>].first = FALSE /\ Buyer[b] \notin queued =>
                \E c \in conversions : SameBuyer(c.booking, b)
    /\ \A a, b \in Bookings \ deleted : Claims(a) /\ Claims(b) /\ SameBuyer(a, b) => a = b
    /\ \A b \in Bookings : Claims(b) => b \in paid
    /\ \A c \in conversions : c.first => Claims(c.booking)
    /\ \A a, b \in paid : SameBuyer(a, b) /\ Buyer[a] \notin queued /\ ~Ordered(a) /\ ~Ordered(b) => a = b
    /\ \A c \in conversions : Buyer[c.booking] \notin queued =>
          \E d \in conversions : d.first /\ SameBuyer(d.booking, c.booking)

\* The posts of a booking that are known to have failed.
Tries(b) ==
    {x \in Calls \X (0..Backoffs) :
        \/ emission[<<b, x[1]>>].pc = "post" /\ x[2] < emission[<<b, x[1]>>].attempt
        \/ emission[<<b, x[1]>>].pc = "over"}

TriesInv ==
    \A b \in Bookings : b \notin sessions \cup died => Cardinality(Tries(b)) <= failedPosts[b]

ProducerInv == Types /\ FirstInv /\ TriesInv

-----------------------------------------------------------------------------
(* What a step does to the calls and to the rows.                          *)

LEMMA CallMoves ==
  ASSUME Types, NEW b \in Bookings, NEW k \in Calls, NEW e \in Calling,
         emission' = [emission EXCEPT ![<<b, k>>] = e]
  PROVE  /\ emission' \in [Bookings \X Calls -> Calling] /\ emission'[<<b, k>>] = e
         /\ \A c \in Bookings, j \in Calls :
               c # b \/ j # k => emission'[<<c, j>>] = emission[<<c, j>>]
<1>1. emission \in [Bookings \X Calls -> Calling] /\ <<b, k>> \in Bookings \X Calls
  BY DEF Types
<1>2. \A c \in Bookings, j \in Calls :
         <<c, j>> \in Bookings \X Calls /\ (c # b \/ j # k => <<c, j>> # <<b, k>>)
  OBVIOUS
<1> QED BY <1>1, <1>2

LEMMA CallType ==
  ASSUME Types, NEW b \in Bookings, NEW k \in Calls
  PROVE  emission[<<b, k>>] \in Calling
BY DEF Types

LEMMA RowWritten ==
  ASSUME Types, NEW b \in Bookings, NEW f \in BOOLEAN, WriteRow(b, f)
  PROVE  /\ conversions' \subseteq [booking : Bookings, first : BOOLEAN]
         /\ conversions \subseteq conversions' /\ Ordered(b)'
         /\ \A c \in conversions' : c \notin conversions => c.booking = b /\ c.first = f
<1> DEFINE row == [booking |-> b, first |-> f]
<1>1. row \in [booking : Bookings, first : BOOLEAN] /\ row.booking = b /\ row.first = f
  OBVIOUS
<1>2. conversions' = IF Ordered(b) THEN conversions ELSE conversions \cup {row}
  BY DEF WriteRow
<1> HIDE DEF row
<1> QED BY <1>1, <1>2 DEF Types, Ordered

LEMMA TriesFinite ==
  /\ IsFiniteSet(Calls \X (0..Backoffs))
  /\ \A b : IsFiniteSet(Tries(b)) /\ Cardinality(Tries(b)) \in Nat
<1>1. IsFiniteSet(0..Backoffs)
  BY ProducerAssumption, FS_Interval
<1>2. IsFiniteSet(Calls \X (0..Backoffs))
  BY <1>1, ProducerAssumption, FS_Product
<1>3. \A b : Tries(b) \subseteq Calls \X (0..Backoffs)
  BY DEF Tries
<1> QED BY <1>2, <1>3, FS_Subset, FS_CardinalityType

\* No call fails or ends.
LEMMA TriesKept ==
  ASSUME Types, TriesInv, UNCHANGED <<sessions, died, failedPosts>>,
         \A b \in Bookings, k \in Calls :
            /\ emission'[<<b, k>>].pc = "over" <=> emission[<<b, k>>].pc = "over"
            /\ emission'[<<b, k>>].pc = "post" =>
                  \/ emission'[<<b, k>>].attempt = 0
                  \/ emission'[<<b, k>>] = emission[<<b, k>>]
  PROVE  TriesInv'
<1> SUFFICES ASSUME NEW b \in Bookings, b \notin sessions \cup died
             PROVE  Cardinality(Tries(b)') <= failedPosts[b]
  BY DEF TriesInv
<1>1. Tries(b)' \subseteq Tries(b)
  BY DEF Tries
<1>2. Cardinality(Tries(b)') <= Cardinality(Tries(b)) /\ Cardinality(Tries(b)') \in Nat
  BY <1>1, TriesFinite, FS_Subset, FS_CardinalityType
<1>3. /\ Cardinality(Tries(b)) <= failedPosts[b] /\ Cardinality(Tries(b)) \in Nat
      /\ failedPosts[b] \in Nat
  BY TriesFinite DEF TriesInv, Types
<1> QED BY <1>2, <1>3

-----------------------------------------------------------------------------
(* The steps.                                                              *)

LEMMA PayInv ==
  ASSUME ProducerInv, NEW b \in Bookings, NEW k \in Calls, Pay(b, k) PROVE ProducerInv'
<1> DEFINE e == [emission[<<b, k>>] EXCEPT !.pc = "count"]
<1>1. /\ emission[<<b, k>>].pc = "none" /\ b \notin deleted /\ paid' = paid \cup {b}
      /\ queued' = IF \E x \in paid \ {b} : Buyer[x] = Buyer[b] /\ ~Ordered(x)
                   THEN queued \cup {Buyer[b]} ELSE queued
      /\ UNCHANGED <<deleted, conversions, sessions, failedPosts, died>>
  BY CallType DEF Pay, ProducerInv
<1>2. emission[<<b, k>>] \in Calling /\ emission' = [emission EXCEPT ![<<b, k>>] = e]
  BY CallType DEF Pay, ProducerInv
<1>3. /\ e \in Calling /\ e.pc = "count" /\ e.first = emission[<<b, k>>].first
      /\ e.attempt = emission[<<b, k>>].attempt
  BY <1>2 DEF Calling
<1> HIDE DEF e
<1>4. /\ emission' \in [Bookings \X Calls -> Calling] /\ emission'[<<b, k>>] = e
      /\ \A c \in Bookings, j \in Calls :
            c # b \/ j # k => emission'[<<c, j>>] = emission[<<c, j>>]
  BY <1>2, <1>3, CallMoves DEF ProducerInv
<1>5. Types'
  BY <1>1, <1>4 DEF ProducerInv, Types
<1>6. \A c \in Bookings : Claims(c)' <=> Claims(c)
  BY <1>3, <1>4 DEF Claims
<1>7. \A c : Ordered(c)' <=> Ordered(c)
  BY <1>1 DEF Ordered
<1>8. FirstInv'
  <2>1. FirstInv /\ queued \subseteq queued' /\ paid \subseteq Bookings
    BY <1>1 DEF ProducerInv, Types
  <2>2. \A c \in Bookings, j \in Calls :
          /\ emission'[<<c, j>>].pc # "none" => c \in paid'
          /\ emission'[<<c, j>>].pc \in {"none", "count"} =>
                emission'[<<c, j>>].first = FALSE /\ emission'[<<c, j>>].attempt = 0
          /\ emission'[<<c, j>>].pc = "post" /\ emission'[<<c, j>>].first = FALSE /\ Buyer[c] \notin queued' =>
                \E d \in conversions' : SameBuyer(d.booking, c)
    <3> SUFFICES ASSUME NEW c \in Bookings, NEW j \in Calls
                 PROVE  /\ emission'[<<c, j>>].pc # "none" => c \in paid'
                        /\ emission'[<<c, j>>].pc \in {"none", "count"} =>
                              emission'[<<c, j>>].first = FALSE /\ emission'[<<c, j>>].attempt = 0
                        /\ emission'[<<c, j>>].pc = "post" /\ emission'[<<c, j>>].first = FALSE
                              /\ Buyer[c] \notin queued' =>
                                 \E d \in conversions' : SameBuyer(d.booking, c)
      OBVIOUS
    <3>1. CASE c = b /\ j = k
      BY <1>1, <1>3, <1>4, <2>1, <3>1 DEF FirstInv
    <3>2. CASE c # b \/ j # k
      BY <1>1, <1>4, <2>1, <3>2 DEF FirstInv
    <3> QED BY <3>1, <3>2
  <2>3. \A a, c \in paid' : SameBuyer(a, c) /\ Buyer[a] \notin queued'
                              /\ ~Ordered(a) /\ ~Ordered(c) => a = c
    <3>1. \A a, c \in paid : SameBuyer(a, c) /\ Buyer[a] \notin queued
                               /\ ~Ordered(a) /\ ~Ordered(c) => a = c
      BY <2>1 DEF FirstInv
    <3>2. \A c \in paid : SameBuyer(c, b) /\ Buyer[b] \notin queued' /\ ~Ordered(c) => c = b
      BY <1>1 DEF SameBuyer
    <3> QED BY <1>1, <2>1, <3>1, <3>2 DEF SameBuyer
  <2>4. \A a, c \in Bookings \ deleted' : Claims(a)' /\ Claims(c)' /\ SameBuyer(a, c) => a = c
    BY <1>1, <1>6, <2>1 DEF FirstInv
  <2>5. \A c \in Bookings : Claims(c)' => c \in paid'
    BY <1>1, <1>6, <2>1 DEF FirstInv
  <2>6. \A c \in conversions' : c.first => Claims(c.booking)'
    BY <1>1, <1>6, <2>1 DEF FirstInv, ProducerInv, Types
  <2>7. \A c \in conversions' : Buyer[c.booking] \notin queued' =>
           \E d \in conversions' : d.first /\ SameBuyer(d.booking, c.booking)
    BY <1>1, <2>1 DEF FirstInv
  <2> QED BY <1>7, <2>2, <2>3, <2>4, <2>5, <2>6, <2>7 DEF FirstInv, SameBuyer
<1>9. TriesInv'
  <2>1. \A c \in Bookings, j \in Calls :
            /\ emission'[<<c, j>>].pc = "over" <=> emission[<<c, j>>].pc = "over"
            /\ emission'[<<c, j>>].pc = "post" =>
                  \/ emission'[<<c, j>>].attempt = 0
                  \/ emission'[<<c, j>>] = emission[<<c, j>>]
    BY <1>1, <1>3, <1>4
  <2> QED BY <1>1, <2>1, TriesKept DEF ProducerInv
<1> QED BY <1>5, <1>8, <1>9 DEF ProducerInv

LEMMA DeleteInv ==
  ASSUME ProducerInv, NEW b \in Bookings, Delete(b) PROVE ProducerInv'
<1>1. /\ deleted' = deleted \cup {b} /\ b \in paid
      /\ UNCHANGED <<paid, emission, conversions, sessions, queued, failedPosts, died>>
  BY DEF Delete
<1>2. \A c : (Claims(c)' <=> Claims(c)) /\ (Ordered(c)' <=> Ordered(c)) /\ Tries(c)' = Tries(c)
  BY <1>1 DEF Claims, Ordered, Tries
<1>3. Types' /\ TriesInv'
  BY <1>1, <1>2 DEF ProducerInv, Types, TriesInv
<1>4. FirstInv'
  BY <1>1, <1>2 DEF ProducerInv, FirstInv
<1> QED BY <1>3, <1>4 DEF ProducerInv

\* The count: whoever else claims to be first is deleted by now; and when there
\* are others, one of two paid bookings has its conversion.
LEMMA CountInv ==
  ASSUME ProducerInv, NEW b \in Bookings, NEW k \in Calls, CountPrior(b, k) PROVE ProducerInv'
<1>1. /\ emission[<<b, k>>].pc = "count"
      /\ UNCHANGED <<paid, deleted, conversions, sessions, queued, failedPosts, died>>
  BY CallType DEF CountPrior, ProducerInv
<1> DEFINE first == PriorPaid(b) = {}
           e == [pc |-> "post", first |-> first, attempt |-> 0]
<1>2. emission' = [emission EXCEPT ![<<b, k>>] = e]
  BY DEF CountPrior
<1>3. e \in Calling /\ e.pc = "post" /\ e.first = first /\ e.attempt = 0
  BY ProducerAssumption DEF Calling
<1>4. first \in BOOLEAN /\ (first <=> \A x \in paid \ deleted : SameBuyer(x, b) => x = b)
  BY DEF PriorPaid, SameBuyer
<1> HIDE DEF e, first
<1>5. /\ emission' \in [Bookings \X Calls -> Calling] /\ emission'[<<b, k>>] = e
      /\ \A c \in Bookings, j \in Calls :
            c # b \/ j # k => emission'[<<c, j>>] = emission[<<c, j>>]
  BY <1>2, <1>3, CallMoves DEF ProducerInv
<1>6. Types'
  BY <1>1, <1>5 DEF ProducerInv, Types
<1>7. FirstInv /\ paid \subseteq Bookings /\ conversions \subseteq [booking : Bookings, first : BOOLEAN]
  BY DEF ProducerInv, Types
<1>8. /\ \A c \in Bookings : Claims(c) => Claims(c)'
      /\ \A c \in Bookings : Claims(c)' => Claims(c) \/ (c = b /\ first)
  <2>1. emission[<<b, k>>].first = FALSE
    BY <1>1, <1>7 DEF FirstInv
  <2>2. ASSUME NEW c \in Bookings, NEW j \in Calls, emission[<<c, j>>].first = TRUE
        PROVE  emission'[<<c, j>>].first = TRUE
    BY <1>5, <2>1, <2>2
  <2>3. ASSUME NEW c \in Bookings, NEW j \in Calls, emission'[<<c, j>>].first = TRUE
        PROVE  emission[<<c, j>>].first = TRUE \/ (c = b /\ first)
    <3>1. CASE c = b /\ j = k
      BY <1>3, <1>5, <2>3, <3>1
    <3>2. CASE c # b \/ j # k
      BY <1>5, <2>3, <3>2
    <3> QED BY <3>1, <3>2
  <2> QED BY <2>2, <2>3 DEF Claims
<1>9. b \in paid
  BY <1>1, <1>7 DEF FirstInv
<1>10. FirstInv'
  <2>1. ~first /\ Buyer[b] \notin queued => \E c \in conversions : SameBuyer(c.booking, b)
    <3> SUFFICES ASSUME ~first, Buyer[b] \notin queued
                 PROVE  \E c \in conversions : SameBuyer(c.booking, b)
      OBVIOUS
    <3>1. PICK x \in paid \ deleted : SameBuyer(x, b) /\ x # b
      BY <1>4
    <3>2. Ordered(x) \/ Ordered(b)
      BY <1>7, <1>9, <3>1 DEF FirstInv, SameBuyer
    <3> QED BY <3>1, <3>2 DEF Ordered, SameBuyer
  <2>2. \A c \in Bookings, j \in Calls :
          /\ emission'[<<c, j>>].pc # "none" => c \in paid
          /\ emission'[<<c, j>>].pc \in {"none", "count"} =>
                emission'[<<c, j>>].first = FALSE /\ emission'[<<c, j>>].attempt = 0
          /\ emission'[<<c, j>>].pc = "post" /\ emission'[<<c, j>>].first = FALSE /\ Buyer[c] \notin queued =>
                \E d \in conversions : SameBuyer(d.booking, c)
    <3> SUFFICES ASSUME NEW c \in Bookings, NEW j \in Calls
                 PROVE  /\ emission'[<<c, j>>].pc # "none" => c \in paid
                        /\ emission'[<<c, j>>].pc \in {"none", "count"} =>
                              emission'[<<c, j>>].first = FALSE /\ emission'[<<c, j>>].attempt = 0
                        /\ emission'[<<c, j>>].pc = "post" /\ emission'[<<c, j>>].first = FALSE
                              /\ Buyer[c] \notin queued =>
                                 \E d \in conversions : SameBuyer(d.booking, c)
      OBVIOUS
    <3>1. CASE c = b /\ j = k
      BY <1>3, <1>5, <1>9, <2>1, <3>1
    <3>2. CASE c # b \/ j # k
      BY <1>5, <1>7, <3>2 DEF FirstInv
    <3> QED BY <3>1, <3>2
  <2>3. \A a, c \in Bookings \ deleted : Claims(a)' /\ Claims(c)' /\ SameBuyer(a, c) => a = c
    <3>1. \A a \in Bookings \ deleted : Claims(a) /\ first /\ SameBuyer(a, b) => a = b
      BY <1>4, <1>7 DEF FirstInv
    <3> QED BY <1>7, <1>8, <3>1 DEF FirstInv, SameBuyer
  <2>4. \A c \in Bookings : Claims(c)' => c \in paid
    BY <1>7, <1>8, <1>9 DEF FirstInv
  <2>5. \A c \in conversions : c.first => Claims(c.booking)'
    BY <1>7, <1>8 DEF FirstInv
  <2>6. \A c : Ordered(c)' <=> Ordered(c)
    BY <1>1 DEF Ordered
  <2> QED BY <1>1, <1>7, <2>2, <2>3, <2>4, <2>5, <2>6 DEF FirstInv, SameBuyer
<1>11. TriesInv'
  <2>1. \A c \in Bookings, j \in Calls :
            /\ emission'[<<c, j>>].pc = "over" <=> emission[<<c, j>>].pc = "over"
            /\ emission'[<<c, j>>].pc = "post" =>
                  \/ emission'[<<c, j>>].attempt = 0
                  \/ emission'[<<c, j>>] = emission[<<c, j>>]
    BY <1>1, <1>3, <1>5
  <2> QED BY <1>1, <2>1, TriesKept DEF ProducerInv
<1> QED BY <1>6, <1>10, <1>11 DEF ProducerInv

\* A post, whether it failed or not: calls keep their claims, rows are added.
LEMMA FirstKept ==
  ASSUME ProducerInv, UNCHANGED <<paid, deleted, queued>>,
         \A c \in Bookings, j \in Calls :
            /\ emission'[<<c, j>>].first = emission[<<c, j>>].first
            /\ emission'[<<c, j>>].pc # emission[<<c, j>>].pc =>
                  emission[<<c, j>>].pc # "none" /\ emission'[<<c, j>>].pc = "over"
            /\ emission'[<<c, j>>].pc = "count" =>
                  emission'[<<c, j>>].attempt = emission[<<c, j>>].attempt
            /\ emission'[<<c, j>>].pc = "none" =>
                  emission'[<<c, j>>].attempt = emission[<<c, j>>].attempt,
         conversions \subseteq conversions',
         \A c \in conversions' : c \in conversions \/
            \E j \in Calls : /\ c.booking \in Bookings /\ emission[<<c.booking, j>>].pc = "post"
                             /\ c.first = emission[<<c.booking, j>>].first
  PROVE  FirstInv'
<1>1. FirstInv /\ paid \subseteq Bookings /\ conversions \subseteq [booking : Bookings, first : BOOLEAN]
  BY DEF ProducerInv, Types
<1>2. \A c \in Bookings : Claims(c)' <=> Claims(c)
  <2>1. \A c \in Bookings, j \in Calls : emission'[<<c, j>>].first = emission[<<c, j>>].first
    OBVIOUS
  <2> QED BY ONLY <2>1 DEF Claims
<1>3. \A c : Ordered(c) => Ordered(c)'
  BY DEF Ordered
<1>4. \A c \in conversions' : c.first => Claims(c.booking)'
  <2> TAKE c \in conversions'
  <2>1. CASE c \in conversions
    BY <1>1, <1>2, <2>1 DEF FirstInv
  <2>2. CASE c \notin conversions
    BY <1>2, <2>2 DEF Claims
  <2> QED BY <2>1, <2>2
<1>5. \A c \in conversions' : Buyer[c.booking] \notin queued =>
         \E d \in conversions' : d.first /\ SameBuyer(d.booking, c.booking)
  <2> SUFFICES ASSUME NEW c \in conversions', Buyer[c.booking] \notin queued
               PROVE  \E d \in conversions' : d.first /\ SameBuyer(d.booking, c.booking)
    OBVIOUS
  <2>1. CASE c.first
    BY <2>1 DEF SameBuyer
  <2>2. CASE ~c.first
    <3>1. PICK d \in conversions : SameBuyer(d.booking, c.booking)
      <4>1. CASE c \in conversions
        BY <4>1 DEF SameBuyer
      <4>2. CASE c \notin conversions
        <5>1. PICK j \in Calls : /\ c.booking \in Bookings /\ emission[<<c.booking, j>>].pc = "post"
                                 /\ c.first = emission[<<c.booking, j>>].first
          BY <4>2
        <5>2. emission[<<c.booking, j>>].first = FALSE
          BY <2>2, <5>1, CallType DEF ProducerInv, Calling
        <5> QED BY <1>1, <5>1, <5>2 DEF FirstInv, SameBuyer
      <4> QED BY <4>1, <4>2
    <3> QED BY <1>1, <3>1 DEF FirstInv, SameBuyer
  <2> QED BY <2>1, <2>2
<1>6. \A b \in Bookings, k \in Calls :
        /\ emission'[<<b, k>>].pc # "none" => b \in paid
        /\ emission'[<<b, k>>].pc \in {"none", "count"} =>
              emission'[<<b, k>>].first = FALSE /\ emission'[<<b, k>>].attempt = 0
        /\ emission'[<<b, k>>].pc = "post" /\ emission'[<<b, k>>].first = FALSE /\ Buyer[b] \notin queued =>
              \E c \in conversions' : SameBuyer(c.booking, b)
  <2> TAKE b \in Bookings, k \in Calls
  <2>1. /\ emission[<<b, k>>].pc # "none" => b \in paid
        /\ emission[<<b, k>>].pc \in {"none", "count"} =>
              emission[<<b, k>>].first = FALSE /\ emission[<<b, k>>].attempt = 0
        /\ emission[<<b, k>>].pc = "post" /\ emission[<<b, k>>].first = FALSE /\ Buyer[b] \notin queued =>
              \E c \in conversions : SameBuyer(c.booking, b)
    BY <1>1 DEF FirstInv
  <2>2. /\ emission'[<<b, k>>].first = emission[<<b, k>>].first
        /\ emission'[<<b, k>>].pc # emission[<<b, k>>].pc =>
              emission[<<b, k>>].pc # "none" /\ emission'[<<b, k>>].pc = "over"
        /\ emission'[<<b, k>>].pc \in {"none", "count"} =>
              emission'[<<b, k>>].attempt = emission[<<b, k>>].attempt
    OBVIOUS
  <2> QED BY <2>1, <2>2
<1>7. \A a, b \in Bookings \ deleted : Claims(a)' /\ Claims(b)' /\ SameBuyer(a, b) => a = b
  BY <1>1, <1>2 DEF FirstInv
<1>8. \A b \in Bookings : Claims(b)' => b \in paid
  BY <1>1, <1>2 DEF FirstInv
<1>9. \A a, b \in paid : SameBuyer(a, b) /\ Buyer[a] \notin queued /\ ~Ordered(a)' /\ ~Ordered(b)' => a = b
  BY <1>1, <1>3 DEF FirstInv
<1> QED BY <1>4, <1>5, <1>6, <1>7, <1>8, <1>9 DEF FirstInv, SameBuyer

LEMMA PostedInv ==
  ASSUME ProducerInv, NEW b \in Bookings, NEW k \in Calls, PostConversion(b, k) PROVE ProducerInv'
<1> DEFINE e == [emission[<<b, k>>] EXCEPT !.pc = "over"]
           first == emission[<<b, k>>].first
<1>1. /\ emission[<<b, k>>].pc = "post" /\ WriteRow(b, first) /\ sessions' = sessions \cup {b}
      /\ UNCHANGED <<paid, deleted, queued, failedPosts, died>>
      /\ emission[<<b, k>>] \in Calling
  BY CallType DEF PostConversion, WriteLink, ProducerInv
<1>2. emission' = [emission EXCEPT ![<<b, k>>] = e]
  BY CallType DEF PostConversion, ProducerInv
<1>3. e \in Calling /\ e.pc = "over" /\ e.first = first /\ first \in BOOLEAN
  BY <1>1 DEF Calling
<1> HIDE DEF e
<1>4. /\ emission' \in [Bookings \X Calls -> Calling] /\ emission'[<<b, k>>] = e
      /\ \A c \in Bookings, j \in Calls :
            c # b \/ j # k => emission'[<<c, j>>] = emission[<<c, j>>]
  BY <1>2, <1>3, CallMoves DEF ProducerInv
<1>5. /\ conversions' \subseteq [booking : Bookings, first : BOOLEAN]
      /\ conversions \subseteq conversions'
      /\ \A c \in conversions' : c \notin conversions => c.booking = b /\ c.first = first
  BY <1>1, <1>3, RowWritten DEF ProducerInv
<1>6. Types'
  BY <1>1, <1>4, <1>5 DEF ProducerInv, Types
<1>7. FirstInv'
  <2>1. \A c \in Bookings, j \in Calls :
            /\ emission'[<<c, j>>].first = emission[<<c, j>>].first
            /\ emission'[<<c, j>>].pc # emission[<<c, j>>].pc =>
                  emission[<<c, j>>].pc # "none" /\ emission'[<<c, j>>].pc = "over"
            /\ emission'[<<c, j>>].pc = "count" =>
                  emission'[<<c, j>>].attempt = emission[<<c, j>>].attempt
            /\ emission'[<<c, j>>].pc = "none" =>
                  emission'[<<c, j>>].attempt = emission[<<c, j>>].attempt
    BY <1>1, <1>3, <1>4
  <2>2. \A c \in conversions' : c \in conversions \/
           \E j \in Calls : /\ c.booking \in Bookings /\ emission[<<c.booking, j>>].pc = "post"
                            /\ c.first = emission[<<c.booking, j>>].first
    BY <1>1, <1>5
  <2> QED BY <1>1, <1>5, <2>1, <2>2, FirstKept
<1>8. TriesInv'
  <2> SUFFICES ASSUME NEW c \in Bookings, c \notin sessions' \cup died
               PROVE  Cardinality(Tries(c)') <= failedPosts[c]
    BY <1>1 DEF TriesInv
  <2>1. Tries(c)' = Tries(c)
    BY <1>1, <1>4 DEF Tries
  <2> QED BY <1>1, <2>1 DEF ProducerInv, TriesInv
<1> QED BY <1>6, <1>7, <1>8 DEF ProducerInv

\* What a failed post makes of its call: the next try, or the end.
LEMMA Retried ==
  ASSUME Types, NEW b \in Bookings, NEW k \in Calls, Retry(b, k), emission[<<b, k>>].pc = "post"
  PROVE  /\ emission' \in [Bookings \X Calls -> Calling]
         /\ \A c \in Bookings, j \in Calls :
               c # b \/ j # k => emission'[<<c, j>>] = emission[<<c, j>>]
         /\ emission'[<<b, k>>].first = emission[<<b, k>>].first
         /\ \/ /\ emission'[<<b, k>>].pc = "post" /\ emission[<<b, k>>].attempt < Backoffs
               /\ emission'[<<b, k>>].attempt = emission[<<b, k>>].attempt + 1
            \/ emission'[<<b, k>>].pc = "over" /\ emission[<<b, k>>].attempt = Backoffs
<1>1. emission[<<b, k>>] \in Calling
  BY CallType
<1>0. emission[<<b, k>>].attempt \in 0..Backoffs /\ Backoffs \in Nat
  BY <1>1, ProducerAssumption DEF Calling
<1>2. CASE emission[<<b, k>>].attempt < Backoffs
  <2> DEFINE e == [emission[<<b, k>>] EXCEPT !.attempt = emission[<<b, k>>].attempt + 1]
  <2>1. /\ e \in Calling /\ e.pc = "post" /\ e.first = emission[<<b, k>>].first
        /\ e.attempt = emission[<<b, k>>].attempt + 1
    <3>1. emission[<<b, k>>].attempt + 1 \in 0..Backoffs
      BY <1>0, <1>2
    <3> QED BY <1>1, <3>1 DEF Calling
  <2>2. emission' = [emission EXCEPT ![<<b, k>>] = e]
    BY <1>1, <1>2 DEF Retry
  <2> HIDE DEF e
  <2> QED BY <1>2, <2>1, <2>2, CallMoves
<1>3. CASE ~(emission[<<b, k>>].attempt < Backoffs)
  <2> DEFINE e == [emission[<<b, k>>] EXCEPT !.pc = "over"]
  <2>1. e \in Calling /\ e.pc = "over" /\ e.first = emission[<<b, k>>].first
    BY <1>1 DEF Calling
  <2>2. emission' = [emission EXCEPT ![<<b, k>>] = e]
    BY <1>1, <1>3 DEF Retry
  <2>3. emission[<<b, k>>].attempt = Backoffs
    BY <1>0, <1>3
  <2> HIDE DEF e
  <2> QED BY <2>1, <2>2, <2>3, CallMoves
<1> QED BY <1>2, <1>3

LEMMA PostFailsInv ==
  ASSUME ProducerInv, NEW b \in Bookings, NEW k \in Calls, PostFails(b, k) PROVE ProducerInv'
<1> DEFINE first == emission[<<b, k>>].first
           at == emission[<<b, k>>].attempt
<1>1. /\ emission[<<b, k>>].pc = "post" /\ emission[<<b, k>>] \in Calling
      /\ failedPosts' = [failedPosts EXCEPT ![b] = failedPosts[b] + 1]
      /\ UNCHANGED <<paid, deleted, queued, died>>
      /\ conversions' = conversions \/ WriteRow(b, first)
      /\ sessions' = sessions \/ sessions' = sessions \cup {b}
  BY CallType DEF PostFails, Failed, WriteLink, ProducerInv
<1>2. /\ emission' \in [Bookings \X Calls -> Calling]
      /\ \A c \in Bookings, j \in Calls :
            c # b \/ j # k => emission'[<<c, j>>] = emission[<<c, j>>]
      /\ emission'[<<b, k>>].first = first
      /\ \/ /\ emission'[<<b, k>>].pc = "post" /\ at < Backoffs
            /\ emission'[<<b, k>>].attempt = at + 1
         \/ emission'[<<b, k>>].pc = "over" /\ at = Backoffs
  BY <1>1, Retried DEF PostFails, ProducerInv
<1>3. /\ conversions' \subseteq [booking : Bookings, first : BOOLEAN]
      /\ conversions \subseteq conversions'
      /\ \A c \in conversions' : c \notin conversions => c.booking = b /\ c.first = first
  <2>1. first \in BOOLEAN
    BY <1>1 DEF Calling
  <2> QED BY <1>1, <2>1, RowWritten DEF ProducerInv, Types
<1>4. Types'
  <2>1. failedPosts' \in [Bookings -> Nat]
    BY <1>1 DEF ProducerInv, Types
  <2> QED BY <1>1, <1>2, <1>3, <2>1 DEF ProducerInv, Types
<1>5. FirstInv'
  <2>1. \A c \in Bookings, j \in Calls :
            /\ emission'[<<c, j>>].first = emission[<<c, j>>].first
            /\ emission'[<<c, j>>].pc # emission[<<c, j>>].pc =>
                  emission[<<c, j>>].pc # "none" /\ emission'[<<c, j>>].pc = "over"
            /\ emission'[<<c, j>>].pc = "count" =>
                  emission'[<<c, j>>].attempt = emission[<<c, j>>].attempt
            /\ emission'[<<c, j>>].pc = "none" =>
                  emission'[<<c, j>>].attempt = emission[<<c, j>>].attempt
    BY <1>1, <1>2
  <2>2. \A c \in conversions' : c \in conversions \/
           \E j \in Calls : /\ c.booking \in Bookings /\ emission[<<c.booking, j>>].pc = "post"
                            /\ c.first = emission[<<c.booking, j>>].first
    BY <1>1, <1>3
  <2> QED BY <1>1, <1>3, <2>1, <2>2, FirstKept
<1>6. TriesInv'
  <2> SUFFICES ASSUME NEW c \in Bookings, c \notin sessions' \cup died
               PROVE  Cardinality(Tries(c)') <= failedPosts'[c]
    BY <1>1 DEF TriesInv
  <2>1. /\ Cardinality(Tries(c)) <= failedPosts[c] /\ Cardinality(Tries(c)) \in Nat
        /\ failedPosts[c] \in Nat /\ failedPosts \in [Bookings -> Nat]
    BY <1>1, TriesFinite DEF ProducerInv, TriesInv, Types
  <2>2. CASE c # b
    <3>1. Tries(c)' = Tries(c) /\ failedPosts'[c] = failedPosts[c]
      BY <1>1, <1>2, <2>1, <2>2 DEF Tries
    <3> QED BY <2>1, <3>1
  <2>3. CASE c = b
    <3>1. at \in 0..Backoffs /\ Backoffs \in Nat
      BY <1>1, ProducerAssumption DEF Calling
    <3>2. Tries(b)' \subseteq Tries(b) \cup {<<k, at>>}
      <4> SUFFICES ASSUME NEW j \in Calls, NEW i \in 0..Backoffs, <<j, i>> \in Tries(b)'
                   PROVE  <<j, i>> \in Tries(b) \cup {<<k, at>>}
        BY DEF Tries
      <4>1. CASE j # k
        BY <1>2, <4>1 DEF Tries
      <4>2. CASE j = k
        <5>1. i < at \/ i = at
          BY <1>2, <3>1, <4>2 DEF Tries
        <5> QED BY <1>1, <4>2, <5>1 DEF Tries
      <4> QED BY <4>1, <4>2
    <3>3. /\ Cardinality(Tries(b) \cup {<<k, at>>}) <= Cardinality(Tries(b)) + 1
          /\ IsFiniteSet(Tries(b) \cup {<<k, at>>})
          /\ Cardinality(Tries(b) \cup {<<k, at>>}) \in Nat
      <4>1. IsFiniteSet(Tries(b)) /\ Cardinality(Tries(b)) \in Nat
        BY TriesFinite
      <4>2. /\ IsFiniteSet(Tries(b) \cup {<<k, at>>})
            /\ Cardinality(Tries(b) \cup {<<k, at>>}) =
                  IF <<k, at>> \in Tries(b) THEN Cardinality(Tries(b)) ELSE Cardinality(Tries(b)) + 1
        BY <4>1, FS_AddElement
      <4> QED BY <4>1, <4>2
    <3>4. Cardinality(Tries(b)') <= Cardinality(Tries(b) \cup {<<k, at>>}) /\ Cardinality(Tries(b)') \in Nat
      BY <3>2, <3>3, FS_Subset, FS_CardinalityType
    <3>5. failedPosts'[b] = failedPosts[b] + 1
      BY <1>1, <2>1
    <3> QED BY <2>1, <2>3, <3>3, <3>4, <3>5
  <2> QED BY <2>2, <2>3
<1> QED BY <1>4, <1>5, <1>6 DEF ProducerInv

\* The calls in progress end; their bookings are no longer counted.
LEMMA BackendDiesInv ==
  ASSUME ProducerInv, BackendDies PROVE ProducerInv'
<1> DEFINE calls == {x \in Bookings \X Calls : emission[x].pc \in {"count", "post"}}
<1>1. /\ died' = died \cup {x[1] : x \in calls}
      /\ emission' = [x \in Bookings \X Calls |->
                         IF x \in calls THEN [emission[x] EXCEPT !.pc = "over"] ELSE emission[x]]
      /\ UNCHANGED <<paid, deleted, conversions, sessions, queued, failedPosts>>
  BY DEF BackendDies, Emissions
<1>2. ASSUME NEW x \in calls
      PROVE  LET e == [emission[x] EXCEPT !.pc = "over"]
             IN  /\ e \in Calling /\ e.pc = "over" /\ e.first = emission[x].first
                 /\ e.attempt = emission[x].attempt
  <2>1. emission[x] \in Calling
    BY DEF ProducerInv, Types
  <2> QED BY <2>1 DEF Calling
<1>3. emission' \in [Bookings \X Calls -> Calling]
  BY <1>1, <1>2 DEF ProducerInv, Types
<1>4. \A b \in Bookings, k \in Calls :
         IF emission[<<b, k>>].pc \in {"count", "post"}
         THEN /\ emission'[<<b, k>>].pc = "over" /\ emission'[<<b, k>>].first = emission[<<b, k>>].first
              /\ emission'[<<b, k>>].attempt = emission[<<b, k>>].attempt /\ b \in died'
         ELSE emission'[<<b, k>>] = emission[<<b, k>>]
  <2> TAKE b \in Bookings, k \in Calls
  <2>1. CASE emission[<<b, k>>].pc \in {"count", "post"}
    <3>1. <<b, k>> \in calls /\ <<b, k>>[1] = b
      BY <2>1
    <3>2. b \in died'
      BY <1>1, <3>1
    <3> QED BY <1>1, <1>2, <2>1, <3>1, <3>2
  <2>2. CASE emission[<<b, k>>].pc \notin {"count", "post"}
    BY <1>1, <2>2
  <2> QED BY <2>1, <2>2
<1>5. Types'
  BY <1>1, <1>3 DEF ProducerInv, Types
<1>6. FirstInv'
  <2>1. \A c \in Bookings, j \in Calls :
            /\ emission'[<<c, j>>].first = emission[<<c, j>>].first
            /\ emission'[<<c, j>>].pc # emission[<<c, j>>].pc =>
                  emission[<<c, j>>].pc # "none" /\ emission'[<<c, j>>].pc = "over"
            /\ emission'[<<c, j>>].pc = "count" =>
                  emission'[<<c, j>>].attempt = emission[<<c, j>>].attempt
            /\ emission'[<<c, j>>].pc = "none" =>
                  emission'[<<c, j>>].attempt = emission[<<c, j>>].attempt
    BY <1>4
  <2> QED BY <1>1, <2>1, FirstKept
<1>7. TriesInv'
  <2> SUFFICES ASSUME NEW b \in Bookings, b \notin sessions \cup died'
               PROVE  Cardinality(Tries(b)') <= failedPosts[b]
    BY <1>1 DEF TriesInv
  <2>1. Tries(b)' = Tries(b)
    BY <1>4 DEF Tries
  <2> QED BY <1>1, <2>1 DEF ProducerInv, TriesInv
<1> QED BY <1>5, <1>6, <1>7 DEF ProducerInv

LEMMA ProducerStep ==
  ASSUME ProducerInv, [ProducerNext]_producerVars PROVE ProducerInv'
<1>1. CASE UNCHANGED producerVars
  <2>1. \A c : (Claims(c)' <=> Claims(c)) /\ (Ordered(c)' <=> Ordered(c)) /\ Tries(c)' = Tries(c)
    BY <1>1 DEF Claims, Ordered, Tries, producerVars
  <2>2. Types' /\ TriesInv'
    BY <1>1, <2>1 DEF ProducerInv, Types, TriesInv, producerVars
  <2>3. FirstInv'
    BY <1>1, <2>1 DEF ProducerInv, FirstInv, producerVars
  <2> QED BY <2>2, <2>3 DEF ProducerInv
<1> QED BY <1>1, PayInv, DeleteInv, CountInv, PostedInv, PostFailsInv, BackendDiesInv
           DEF ProducerNext

LEMMA ProducerStart == ProducerInit => ProducerInv
<1> SUFFICES ASSUME ProducerInit PROVE ProducerInv
  OBVIOUS
<1>1. NotCalled \in Calling /\ NotCalled.pc = "none" /\ NotCalled.first = FALSE /\ NotCalled.attempt = 0
  BY ProducerAssumption DEF NotCalled, Calling
<1>2. \A b \in Bookings, k \in Calls : emission[<<b, k>>] = NotCalled
  BY DEF ProducerInit, Emissions
<1>3. Types
  BY <1>1 DEF ProducerInit, Types, Emissions
<1>4. FirstInv
  BY <1>1, <1>2 DEF ProducerInit, FirstInv, Claims
<1>5. TriesInv
  <2> SUFFICES ASSUME NEW b \in Bookings PROVE Cardinality(Tries(b)) <= failedPosts[b]
    BY DEF TriesInv
  <2>1. Tries(b) = {}
    BY <1>1, <1>2, ProducerAssumption DEF Tries
  <2> QED BY <2>1, FS_EmptySet DEF ProducerInit
<1> QED BY <1>3, <1>4, <1>5 DEF ProducerInv

LEMMA ProducerKeeps == ProducerSpec => []ProducerInv
BY ProducerStart, ProducerStep, PTL DEF ProducerSpec

-----------------------------------------------------------------------------
(* What follows.                                                           *)

LEMMA OneUnlessDeleted ==
  ASSUME ProducerInv, NEW u
  PROVE  Cardinality(FirstOrders(u)) <= 1 + Cardinality({b \in deleted : Buyer[b] = u})
<1> DEFINE D == {b \in deleted : Buyer[b] = u}
           F == FirstOrders(u)
<1>1. /\ \A b \in F : b \in Bookings /\ Buyer[b] = u /\ Claims(b)
      /\ D \subseteq Bookings
  BY DEF ProducerInv, Types, FirstInv, FirstOrders
<1>2. IsFiniteSet(D) /\ Cardinality(D) \in Nat
  BY <1>1, ProducerAssumption, FS_Subset, FS_CardinalityType
<1>3. \A a, b \in F : a \notin D /\ b \notin D => a = b
  BY <1>1 DEF ProducerInv, FirstInv, SameBuyer
<1> HIDE DEF D, F
<1>4. CASE F \subseteq D
  <2>1. Cardinality(F) <= Cardinality(D) /\ Cardinality(F) \in Nat
    BY <1>2, <1>4, FS_Subset, FS_CardinalityType
  <2>2. Cardinality(F) <= 1 + Cardinality(D)
    BY <1>2, <2>1
  <2> QED BY <2>2 DEF D, F
<1>5. CASE ~(F \subseteq D)
  <2>1. PICK b \in F : b \notin D
    BY <1>5
  <2>2. F \subseteq D \cup {b}
    BY <1>3, <2>1
  <2>3. IsFiniteSet(D \cup {b}) /\ Cardinality(D \cup {b}) = Cardinality(D) + 1
    BY <1>2, <2>1, FS_AddElement
  <2>4. Cardinality(F) <= Cardinality(D \cup {b}) /\ Cardinality(F) \in Nat
    BY <2>2, <2>3, FS_Subset, FS_CardinalityType
  <2>5. Cardinality(F) <= 1 + Cardinality(D)
    BY <1>2, <2>3, <2>4
  <2> QED BY <2>5 DEF D, F
<1> QED BY <1>4, <1>5

\* onBookingPaid and conversion-writer: one first order of a user, another only
\* for a booking deleted since; and one, unless bookings overtook conversions.
THEOREM FirstOrderHolds == ProducerSpec => []FirstOrderOnce
<1>1. ProducerInv => FirstOrderOnce
  <2> SUFFICES ASSUME ProducerInv, NEW u \in Buyers
               PROVE  /\ Cardinality(FirstOrders(u)) <= 1 + Cardinality({b \in deleted : Buyer[b] = u})
                      /\ u \notin queued /\ (\E c \in conversions : Buyer[c.booking] = u) =>
                            FirstOrders(u) # {}
    BY DEF FirstOrderOnce
  <2>1. ASSUME u \notin queued, NEW c \in conversions, Buyer[c.booking] = u
        PROVE  FirstOrders(u) # {}
    <3>1. PICK d \in conversions : d.first /\ SameBuyer(d.booking, c.booking)
      BY <2>1 DEF ProducerInv, FirstInv
    <3>2. d.booking \in FirstOrders(u)
      BY <2>1, <3>1 DEF FirstOrders, SameBuyer
    <3> QED BY <3>2
  <2> QED BY <2>1, OneUnlessDeleted
<1> QED BY <1>1, ProducerKeeps, PTL

\* The retries of mil-client: an order whose calls are over is missing or
\* unlinked only when each post of each call failed, or the backend died.
THEOREM OrdersHold == ProducerSpec => []OrdersCostFaults
<1>1. ProducerInv => OrdersCostFaults
  <2> SUFFICES ASSUME ProducerInv, NEW b \in paid \ died, b \notin sessions,
                      \A k \in Calls : emission[<<b, k>>].pc \in {"none", "over"}
               PROVE  failedPosts[b] >= (1 + Backoffs) *
                         Cardinality({k \in Calls : emission[<<b, k>>].pc = "over"})
    BY DEF OrdersCostFaults
  <2> DEFINE O == {k \in Calls : emission[<<b, k>>].pc = "over"}
  <2>1. b \in Bookings
    BY DEF ProducerInv, Types
  <2>2. Tries(b) = O \X (0..Backoffs)
    BY DEF Tries
  <2>3. IsFiniteSet(O) /\ Cardinality(O) \in Nat
    BY ProducerAssumption, FS_Subset, FS_CardinalityType
  <2>4. IsFiniteSet(0..Backoffs) /\ Cardinality(0..Backoffs) = 1 + Backoffs
    BY ProducerAssumption, FS_Interval
  <2>5. Cardinality(Tries(b)) = Cardinality(O) * (1 + Backoffs)
    BY <2>2, <2>3, <2>4, FS_Product
  <2>6. Cardinality(Tries(b)) <= failedPosts[b] /\ failedPosts[b] \in Nat
    BY <2>1 DEF ProducerInv, TriesInv, Types
  <2> HIDE DEF O
  <2>7. Cardinality(O) * (1 + Backoffs) = (1 + Backoffs) * Cardinality(O)
    BY <2>3, ProducerAssumption
  <2>8. failedPosts[b] >= (1 + Backoffs) * Cardinality(O)
    BY <2>3, <2>5, <2>6, <2>7, ProducerAssumption
  <2> QED BY <2>8 DEF O
<1> QED BY <1>1, ProducerKeeps, PTL

-----------------------------------------------------------------------------
(* Types of the producer.                                                  *)

\* Posts that failed are troubles, of whichever booking.
LEMMA FewFailures ==
  ASSUME ProducerTypeOK, NEW b \in Bookings, Troubles < MaxTroubles
  PROVE  failedPosts[b] + 1 \in 0..MaxTroubles
<1>1. /\ failedPosts \in [Bookings -> 0..MaxTroubles] /\ MaxTroubles \in Nat
      /\ IsFiniteSet(Bookings) /\ IsFiniteSet(died)
  BY ProducerAssumption, FS_Subset DEF ProducerTypeOK
<1>2. \A c \in Bookings : failedPosts[c] \in Nat
  BY <1>1
<1>3. MapThenSumSet(LAMBDA c : failedPosts[c], Bookings) = Sum(failedPosts, Bookings)
  BY <1>1, SumIsFold
<1>4. Sum(failedPosts, {b}) <= Sum(failedPosts, Bookings) /\ Sum(failedPosts, {b}) = failedPosts[b]
  BY <1>1, <1>2, SumMonotone, SumOne
<1>5. Cardinality(died) \in Nat /\ Sum(failedPosts, Bookings) \in Nat
  BY <1>1, <1>2, FS_CardinalityType, SumType
<1>6. Troubles = Cardinality(died) + Sum(failedPosts, Bookings)
  BY <1>3 DEF Troubles
<1> QED BY <1>1, <1>2, <1>4, <1>5, <1>6

LEMMA WritesTyped ==
  ASSUME ProducerTypeOK, NEW b \in Bookings, NEW f \in BOOLEAN, WriteRow(b, f),
         sessions' = sessions \/ WriteLink(b)
  PROVE  /\ conversions' \subseteq [booking : Bookings, first : BOOLEAN]
         /\ \A c, d \in conversions' : c.booking = d.booking => c = d
         /\ sessions' \subseteq {c.booking : c \in conversions'}
<1> DEFINE row == [booking |-> b, first |-> f]
<1>1. row \in [booking : Bookings, first : BOOLEAN] /\ row.booking = b
  OBVIOUS
<1>2. conversions' = IF Ordered(b) THEN conversions ELSE conversions \cup {row}
  BY DEF WriteRow
<1> HIDE DEF row
<1>3. b \in {c.booking : c \in conversions'} /\ conversions \subseteq conversions'
  BY <1>1, <1>2 DEF Ordered
<1> QED BY <1>1, <1>2, <1>3 DEF ProducerTypeOK, Ordered, WriteLink

LEMMA ProducerTypeStep ==
  ASSUME ProducerTypeOK, [ProducerNext]_producerVars
  PROVE  ProducerTypeOK'
<1>0. emission \in [Bookings \X Calls -> Calling]
  BY DEF ProducerTypeOK, Calling, Emissions
<1>1. ASSUME NEW b \in Bookings, Delete(b) PROVE ProducerTypeOK'
  BY <1>1 DEF ProducerTypeOK, Delete
<1>2. ASSUME NEW b \in Bookings, NEW k \in Calls, Pay(b, k) PROVE ProducerTypeOK'
  <2>1. <<b, k>> \in Bookings \X Calls /\ [emission[<<b, k>>] EXCEPT !.pc = "count"] \in Calling
    BY <1>0 DEF Calling
  <2>2. emission' \in [Bookings \X Calls -> Calling]
    BY <1>0, <1>2, <2>1 DEF Pay
  <2>3. queued' \subseteq Buyers
    BY <1>2 DEF Pay, ProducerTypeOK, Buyers
  <2> QED BY <1>2, <2>2, <2>3 DEF ProducerTypeOK, Pay, Calling, Emissions
<1>3. ASSUME NEW b \in Bookings, NEW k \in Calls, CountPrior(b, k) PROVE ProducerTypeOK'
  <2>1. [pc |-> "post", first |-> PriorPaid(b) = {}, attempt |-> 0] \in Calling
    BY ProducerAssumption DEF Calling
  <2>2. emission' \in [Bookings \X Calls -> Calling]
    BY <1>0, <1>3, <2>1 DEF CountPrior
  <2> QED BY <1>3, <2>2 DEF ProducerTypeOK, CountPrior, Calling, Emissions
<1>4. ASSUME NEW b \in Bookings, NEW k \in Calls, PostConversion(b, k) PROVE ProducerTypeOK'
  <2>1. <<b, k>> \in Bookings \X Calls /\ [emission[<<b, k>>] EXCEPT !.pc = "over"] \in Calling
        /\ emission[<<b, k>>].first \in BOOLEAN
    BY <1>0 DEF Calling
  <2>2. emission' \in [Bookings \X Calls -> Calling]
    BY <1>0, <1>4, <2>1 DEF PostConversion
  <2>3. WriteRow(b, emission[<<b, k>>].first) /\ WriteLink(b)
        /\ UNCHANGED <<paid, deleted, queued, failedPosts, died>>
    BY <1>4 DEF PostConversion
  <2>4. /\ conversions' \subseteq [booking : Bookings, first : BOOLEAN]
        /\ \A c, d \in conversions' : c.booking = d.booking => c = d
        /\ sessions' \subseteq {c.booking : c \in conversions'}
    BY <2>1, <2>3, WritesTyped
  <2> QED BY <2>2, <2>3, <2>4 DEF ProducerTypeOK, Calling, Emissions
<1>5. ASSUME NEW b \in Bookings, NEW k \in Calls, PostFails(b, k) PROVE ProducerTypeOK'
  <2> DEFINE e == emission[<<b, k>>]
  <2>1. <<b, k>> \in Bookings \X Calls /\ e \in Calling /\ e.first \in BOOLEAN /\ e.attempt \in 0..Backoffs
        /\ [e EXCEPT !.pc = "over"] \in Calling
    BY <1>0 DEF Calling
  <2>2. e.attempt < Backoffs => e.attempt + 1 \in 0..Backoffs
    BY <2>1, ProducerAssumption
  <2>3. e.attempt < Backoffs => [e EXCEPT !.attempt = e.attempt + 1] \in Calling
    BY <2>1, <2>2 DEF Calling
  <2>4. emission' \in [Bookings \X Calls -> Calling]
    BY <1>0, <1>5, <2>1, <2>3 DEF PostFails, Retry
  <2>5. failedPosts' \in [Bookings -> 0..MaxTroubles]
    <3>1. Troubles < MaxTroubles /\ failedPosts' = [failedPosts EXCEPT ![b] = failedPosts[b] + 1]
      BY <1>5 DEF PostFails, Failed
    <3> QED BY <3>1, FewFailures DEF ProducerTypeOK
  <2>6. /\ conversions' \subseteq [booking : Bookings, first : BOOLEAN]
        /\ \A c, d \in conversions' : c.booking = d.booking => c = d
        /\ sessions' \subseteq {c.booking : c \in conversions'}
    <3>1. CASE UNCHANGED <<conversions, sessions>>
      BY <3>1 DEF ProducerTypeOK
    <3>2. CASE WriteRow(b, e.first) /\ (sessions' = sessions \/ WriteLink(b))
      BY <2>1, <3>2, WritesTyped
    <3> QED BY <1>5, <3>1, <3>2 DEF PostFails
  <2>7. UNCHANGED <<paid, deleted, queued, died>>
    BY <1>5 DEF PostFails
  <2> QED BY <2>4, <2>5, <2>6, <2>7 DEF ProducerTypeOK, Calling, Emissions
<1>6. CASE BackendDies
  <2> DEFINE calls == {x \in Emissions : emission[x].pc \in {"count", "post"}}
  <2>1. /\ died' = died \cup {x[1] : x \in calls}
        /\ emission' = [x \in Emissions |-> IF x \in calls THEN [emission[x] EXCEPT !.pc = "over"]
                                            ELSE emission[x]]
        /\ UNCHANGED <<paid, deleted, conversions, sessions, queued, failedPosts>>
    BY <1>6 DEF BackendDies
  <2>2. \A x \in Emissions : x \in Bookings \X Calls /\ x[1] \in Bookings
                             /\ emission[x] \in Calling /\ [emission[x] EXCEPT !.pc = "over"] \in Calling
    BY <1>0 DEF Emissions, Calling
  <2>3. emission' \in [Emissions -> Calling]
    <3> HIDE DEF calls
    <3> QED BY <2>1, <2>2
  <2>4. died' \subseteq Bookings
    BY <2>1, <2>2 DEF ProducerTypeOK
  <2> QED BY <2>1, <2>3, <2>4 DEF ProducerTypeOK, Calling
<1>7. CASE UNCHANGED producerVars
  BY <1>7 DEF ProducerTypeOK, producerVars
<1> QED BY <1>1, <1>2, <1>3, <1>4, <1>5, <1>6, <1>7 DEF ProducerNext

\* Calls, bookings and rows are well formed, an order has one row, and only a
\* session whose order has a row is linked.
THEOREM ProducerTypes == ProducerSpec => []ProducerTypeOK
<1>1. ProducerInit => ProducerTypeOK
  BY ProducerAssumption DEF ProducerInit, ProducerTypeOK, Emissions, NotCalled
<1> QED BY <1>1, ProducerTypeStep, PTL DEF ProducerSpec

-----------------------------------------------------------------------------
(* SpendReports: what the orders delivered add up to.                      *)

RevInv ==
    /\ conversions \subseteq [booking : Bookings, first : BOOLEAN] /\ deleted \subseteq Bookings
    /\ \A a, b \in Bookings \ deleted : IsFirst(a) /\ IsFirst(b) /\ Buyer[a] = Buyer[b] => a = b

-----------------------------------------------------------------------------
(* The sums of the reports, as sums of functions.                          *)

LEMMA ReportTotal ==
  ASSUME NEW all, NEW field, NEW K, K = DOMAIN all, IsFiniteSet(K),
         NEW g, \A x \in K : g[x] = all[x][field]
  PROVE  TotalOf(all, field) = Sum(g, K)
<1> DEFINE Eq(H) == H = [s \in SUBSET K |-> IF s = {} THEN 0
                          ELSE all[AnyOf(s)][field] + H[s \ {AnyOf(s)}]]
<1>1. PICK F : Adds(F, g, SUBSET K)
  BY SumExists
<1>2. \A s \in SUBSET K : s # {} => g[AnyOf(s)] = all[AnyOf(s)][field]
  BY OneLess
<1>3. \A H : Eq(H) <=> Adds(H, g, SUBSET K)
  BY <1>2 DEF Adds
<1>4. Eq(CHOOSE H : Eq(H))
  BY <1>1, <1>3
<1> SUFFICES (CHOOSE H : Eq(H))[K] = Sum(g, K)
  BY DEF TotalOf, MapThenSumSet, MapThenFoldSet, AnyOf
<1> HIDE DEF Eq
<1>5. Adds(CHOOSE H : Eq(H), g, SUBSET K) /\ K \in SUBSET K
  BY <1>3, <1>4
<1> QED BY <1>5, SumWithin

LEMMA SpendsAreSum ==
  ASSUME NEW S, IsFiniteSet(S), NEW g, \A x \in S : g[x] = x.inr
  PROVE  SumSpend(S) = Sum(g, S)
<1> DEFINE Eq(H) == H = [s \in SUBSET S |-> IF s = {} THEN 0
                          ELSE AnyOf(s).inr + H[s \ {AnyOf(s)}]]
<1>1. PICK F : Adds(F, g, SUBSET S)
  BY SumExists
<1>2. \A s \in SUBSET S : s # {} => g[AnyOf(s)] = AnyOf(s).inr
  BY OneLess
<1>3. \A H : Eq(H) <=> Adds(H, g, SUBSET S)
  BY <1>2 DEF Adds
<1>4. Eq(CHOOSE H : Eq(H))
  BY <1>1, <1>3
<1> SUFFICES (CHOOSE H : Eq(H))[S] = Sum(g, S)
  BY DEF SumSpend, MapThenSumSet, MapThenFoldSet, AnyOf
<1> HIDE DEF Eq
<1>5. Adds(CHOOSE H : Eq(H), g, SUBSET S) /\ S \in SUBSET S
  BY <1>3, <1>4
<1> QED BY <1>5, SumWithin

SumPairs(S) == MapThenSumSet(LAMBDA p : Value[p[2]], S)

LEMMA PairsAreSum ==
  ASSUME NEW S, IsFiniteSet(S), NEW g, \A x \in S : g[x] = Value[x[2]]
  PROVE  SumPairs(S) = Sum(g, S)
<1> DEFINE Eq(H) == H = [s \in SUBSET S |-> IF s = {} THEN 0
                          ELSE Value[AnyOf(s)[2]] + H[s \ {AnyOf(s)}]]
<1>1. PICK F : Adds(F, g, SUBSET S)
  BY SumExists
<1>2. \A s \in SUBSET S : s # {} => g[AnyOf(s)] = Value[AnyOf(s)[2]]
  BY OneLess
<1>3. \A H : Eq(H) <=> Adds(H, g, SUBSET S)
  BY <1>2 DEF Adds
<1>4. Eq(CHOOSE H : Eq(H))
  BY <1>1, <1>3
<1> SUFFICES (CHOOSE H : Eq(H))[S] = Sum(g, S)
  BY DEF SumPairs, MapThenSumSet, MapThenFoldSet, AnyOf
<1> HIDE DEF Eq
<1>5. Adds(CHOOSE H : Eq(H), g, SUBSET S) /\ S \in SUBSET S
  BY <1>3, <1>4
<1> QED BY <1>5, SumWithin

-----------------------------------------------------------------------------
(* Spend.                                                                  *)

LEMMA SpendFinite ==
  ASSUME NEW f
  PROVE  /\ SpendOf(f) \in SUBSET Spends /\ IsFiniteSet(SpendOf(f))
         /\ \A s \in SpendOf(f) : s.inr \in Nat
<1>1. SpendOf(f) \in SUBSET Spends
  BY DEF SpendOf
<1> QED BY <1>1, ReportAssumption, FS_Subset

\* The ads that were spent on, by dimension.
SpentOn(f, dimension) == {dimension[s.ad] : s \in SpendOf(f)}

LEMMA SpentOnFinite ==
  ASSUME NEW f, NEW dimension
  PROVE  IsFiniteSet(SpentOn(f, dimension))
<1> DEFINE g == [s \in SpendOf(f) |-> dimension[s.ad]]
<1>1. g \in Surjection(SpendOf(f), SpentOn(f, dimension))
  BY DEF Surjection, SpentOn
<1> QED BY <1>1, SpendFinite, FS_Surjection

\* A breakdown adds up to the summary.
LEMMA SpendAdds ==
  ASSUME NEW f, NEW dimension, NEW K, IsFiniteSet(K), SpentOn(f, dimension) \subseteq K,
         NEW h, \A x \in K : h[x] = IF x \in SpentOn(f, dimension)
                                    THEN SpendBreakdown(f, dimension)[x] ELSE 0
  PROVE  Sum(h, K) = SpendSummary(f)
<1> DEFINE S == SpendOf(f)
           inr == [s \in S |-> s.inr]
           key == [s \in S |-> dimension[s.ad]]
<1>1. IsFiniteSet(S) /\ \A s \in S : inr[s] \in Nat /\ inr[s] = s.inr
  BY SpendFinite
<1>2. \A s \in S : key[s] \in K /\ key[s] = dimension[s.ad] /\ dimension[s.ad] \in SpentOn(f, dimension)
  BY DEF SpentOn
<1>3. \A x : Group(S, key, x) = {s \in S : dimension[s.ad] = x}
  BY <1>2 DEF Group
<1> HIDE DEF inr, key
<1>4. ASSUME NEW x \in K PROVE h[x] = Sum(inr, Group(S, key, x))
  <2>1. IsFiniteSet(Group(S, key, x)) /\ \A s \in Group(S, key, x) : inr[s] = s.inr
    BY <1>1, FS_Subset DEF Group
  <2>2. CASE x \in SpentOn(f, dimension)
    <3>1. SpendBreakdown(f, dimension)[x] = SumSpend(Group(S, key, x))
      BY <1>3, <2>2 DEF SpendBreakdown, SpentOn
    <3> HIDE DEF S
    <3>2. SumSpend(Group(S, key, x)) = Sum(inr, Group(S, key, x))
      BY <2>1, SpendsAreSum
    <3> QED BY <2>2, <3>1, <3>2
  <2>3. CASE x \notin SpentOn(f, dimension)
    <3>1. Group(S, key, x) = {}
      BY <1>2, <2>3 DEF Group
    <3>2. Sum(inr, {}) = 0
      BY FS_EmptySet, SumFirst
    <3> QED BY <2>3, <3>1, <3>2
  <2> QED BY <2>2, <2>3
<1>5. SpendSummary(f) = Sum(inr, S)
  BY <1>1, SpendsAreSum DEF SpendSummary
<1> HIDE DEF S
<1>6. Sum(h, K) = Sum(inr, S)
  BY <1>1, <1>2, <1>4, SumGroups
<1> QED BY <1>5, <1>6

-----------------------------------------------------------------------------
(* Orders.                                                                 *)

LEMMA OrdersFinite ==
  ASSUME RevInv, NEW f
  PROVE  /\ Delivered \in SUBSET Bookings /\ IsFiniteSet(Delivered)
         /\ WindowOrders(f) \in SUBSET Delivered /\ IsFiniteSet(WindowOrders(f))
         /\ Acquired(f) \in SUBSET WindowOrders(f) /\ IsFiniteSet(Acquired(f))
         /\ Acquired(f) \in SUBSET Bookings
         /\ CohortOrders(f) \in SUBSET (Acquired(f) \X Delivered) /\ IsFiniteSet(CohortOrders(f))
<1>1. Delivered \in SUBSET Bookings
  BY DEF RevInv, Delivered
<1>2. WindowOrders(f) \in SUBSET Delivered /\ Acquired(f) \in SUBSET WindowOrders(f)
  BY DEF WindowOrders, Acquired
<1>3. CohortOrders(f) \in SUBSET (Acquired(f) \X Delivered)
  BY DEF CohortOrders
<1>4. IsFiniteSet(Delivered) /\ IsFiniteSet(Acquired(f)) /\ IsFiniteSet(WindowOrders(f))
  BY <1>1, <1>2, ProducerAssumption, FS_Subset
<1>5. IsFiniteSet(Acquired(f) \X Delivered)
  BY <1>4, FS_Product
<1>6. IsFiniteSet(CohortOrders(f))
  BY <1>3, <1>5, FS_Subset
<1> QED BY <1>1, <1>2, <1>3, <1>4, <1>6

\* A customer is acquired once, but for the bookings deleted since.
LEMMA OneEach ==
  ASSUME RevInv, NEW f, NEW a \in Acquired(f) \ deleted, NEW b \in Acquired(f) \ deleted,
         Buyer[a] = Buyer[b]
  PROVE  a = b
<1>1. a \in Bookings /\ b \in Bookings
  BY OrdersFinite
<1> QED BY <1>1 DEF RevInv, Acquired

\* Each acquired customer's first order is one of the orders of the cohort.
LEMMA OwnOrder ==
  ASSUME RevInv, NEW f \in Filters, NEW b \in Acquired(f)
  PROVE  <<b, b>> \in CohortOrders(f)
<1>1. b \in Delivered /\ b \in Bookings /\ OrderDay[b] \in f.days
  BY OrdersFinite DEF Acquired, WindowOrders
<1>2. OrderDay[b] \in Nat
  BY <1>1, ReportAssumption
<1>3. OrderDay[b] <= OrderDay[b]
  BY <1>2
<1> QED BY <1>1, <1>3 DEF CohortOrders

-----------------------------------------------------------------------------
(* The cohort by key.                                                      *)

GroupKeys(f, key) == {key[p[1]] : p \in CohortOrders(f)}
Cohort(f, key, x) == {p \in CohortOrders(f) : key[p[1]] = x}
Customers(S) == {Buyer[p[1]] : p \in S}

LEMMA GroupedIs ==
  ASSUME NEW f, NEW key
  PROVE  /\ DOMAIN Grouped(f, key) = GroupKeys(f, key)
         /\ \A x \in GroupKeys(f, key) :
               /\ Grouped(f, key)[x].customers = Cardinality(Customers(Cohort(f, key, x)))
               /\ Grouped(f, key)[x].revenue = SumPairs(Cohort(f, key, x))
BY DEF Grouped, GroupKeys, Cohort, Customers, SumPairs

LEMMA GroupKeysFinite ==
  ASSUME RevInv, NEW f, NEW key
  PROVE  IsFiniteSet(GroupKeys(f, key))
<1> DEFINE g == [p \in CohortOrders(f) |-> key[p[1]]]
<1>1. g \in Surjection(CohortOrders(f), GroupKeys(f, key))
  BY DEF Surjection, GroupKeys
<1> QED BY <1>1, OrdersFinite, FS_Surjection

PairValue(f) == [p \in CohortOrders(f) |-> Value[p[2]]]

\* Revenue, by whatever key, adds up to that of all pairs.
LEMMA RevenueAdds ==
  ASSUME RevInv, NEW f, NEW key, NEW K, IsFiniteSet(K), GroupKeys(f, key) \subseteq K,
         NEW h, \A x \in K : h[x] = IF x \in GroupKeys(f, key)
                                    THEN Grouped(f, key)[x].revenue ELSE 0
  PROVE  Sum(h, K) = Sum(PairValue(f), CohortOrders(f))
<1> DEFINE C == CohortOrders(f)
           val == PairValue(f)
           k1 == [p \in C |-> key[p[1]]]
<1>1. IsFiniteSet(C) /\ \A p \in C : val[p] \in Nat /\ val[p] = Value[p[2]]
  BY OrdersFinite, ReportAssumption DEF PairValue
<1>2. \A p \in C : k1[p] \in K /\ k1[p] = key[p[1]] /\ key[p[1]] \in GroupKeys(f, key)
  BY DEF GroupKeys
<1>3. \A x : Group(C, k1, x) = Cohort(f, key, x)
  BY <1>2 DEF Group, Cohort
<1> HIDE DEF val, k1
<1>4. ASSUME NEW x \in K PROVE h[x] = Sum(val, Group(C, k1, x))
  <2>1. IsFiniteSet(Group(C, k1, x)) /\ \A p \in Group(C, k1, x) : val[p] = Value[p[2]]
    BY <1>1, FS_Subset DEF Group
  <2>2. CASE x \in GroupKeys(f, key)
    <3>1. Grouped(f, key)[x].revenue = SumPairs(Group(C, k1, x))
      BY <1>3, <2>2, GroupedIs
    <3> HIDE DEF C
    <3>2. SumPairs(Group(C, k1, x)) = Sum(val, Group(C, k1, x))
      BY <2>1, PairsAreSum
    <3> QED BY <2>2, <3>1, <3>2
  <2>3. CASE x \notin GroupKeys(f, key)
    <3>1. Group(C, k1, x) = {}
      BY <1>2, <2>3 DEF Group
    <3>2. Sum(val, {}) = 0
      BY FS_EmptySet, SumFirst
    <3> QED BY <2>3, <3>1, <3>2
  <2> QED BY <2>2, <2>3
<1> HIDE DEF C
<1>5. Sum(h, K) = Sum(val, C)
  BY <1>1, <1>2, <1>4, SumGroups
<1> QED BY <1>5 DEF val, C

\* The customers of a key are those acquired with it.
LEMMA CustomersOf ==
  ASSUME RevInv, deleted = {}, NEW f \in Filters, NEW key, NEW x
  PROVE  Cardinality(Customers(Cohort(f, key, x))) = Cardinality({b \in Acquired(f) : key[b] = x})
<1> DEFINE A == {b \in Acquired(f) : key[b] = x}
           C == Customers(Cohort(f, key, x))
           g == [b \in A |-> Buyer[b]]
<1>1. IsFiniteSet(A)
  BY OrdersFinite, FS_Subset
<1>2. ASSUME NEW b \in A PROVE Buyer[b] \in C
  <2>1. <<b, b>> \in Cohort(f, key, x)
    BY OwnOrder DEF Cohort
  <2> QED BY <2>1 DEF Customers
<1>3. ASSUME NEW u \in C PROVE \E b \in A : Buyer[b] = u
  <2>1. PICK p \in Cohort(f, key, x) : u = Buyer[p[1]]
    BY DEF Customers
  <2>2. p[1] \in Acquired(f) /\ key[p[1]] = x
    BY OrdersFinite DEF Cohort
  <2> QED BY <2>1, <2>2
<1>4. \A a, b \in A : Buyer[a] = Buyer[b] => a = b
  BY OneEach
<1> HIDE DEF A, C
<1>5. g \in Injection(A, C) /\ g \in Surjection(A, C)
  BY <1>2, <1>3, <1>4 DEF Injection, IsInjective, Surjection
<1>6. g \in Bijection(A, C)
  BY <1>5 DEF Bijection
<1>7. Cardinality(A) = Cardinality(C)
  BY <1>1, <1>6, FS_Bijection DEF ExistsBijection
<1> QED BY <1>7 DEF A, C

\* Customers, by whatever key, add up to the acquired.
LEMMA CustomersAdd ==
  ASSUME RevInv, deleted = {}, NEW f \in Filters, NEW key,
         NEW K, IsFiniteSet(K), GroupKeys(f, key) \subseteq K,
         NEW h, \A x \in K : h[x] = IF x \in GroupKeys(f, key)
                                    THEN Grouped(f, key)[x].customers ELSE 0
  PROVE  Sum(h, K) = Cardinality(Acquired(f))
<1> DEFINE A == Acquired(f)
           k1 == [b \in A |-> key[b]]
<1>1. IsFiniteSet(A)
  BY OrdersFinite
<1>2. \A b \in A : key[b] \in GroupKeys(f, key)
  <2> TAKE b \in A
  <2>1. <<b, b>> \in CohortOrders(f)
    BY OwnOrder
  <2> QED BY <2>1 DEF GroupKeys
<1>3. \A x : Group(A, k1, x) = {b \in A : key[b] = x}
  BY DEF Group
<1>4. \A b \in A : k1[b] \in K
  BY <1>2
<1>5. ASSUME NEW x \in K PROVE h[x] = Cardinality(Group(A, k1, x))
  <2>1. CASE x \in GroupKeys(f, key)
    BY <1>3, <2>1, GroupedIs, CustomersOf
  <2>2. CASE x \notin GroupKeys(f, key)
    <3>1. Group(A, k1, x) = {}
      BY <1>2, <1>3, <2>2
    <3> QED BY <2>2, <3>1, FS_EmptySet
  <2> QED BY <2>1, <2>2
<1> HIDE DEF A, k1
<1>6. Sum(h, K) = Cardinality(A)
  BY <1>1, <1>4, <1>5, CountGroups
<1> QED BY <1>6 DEF A

-----------------------------------------------------------------------------
(* What the reports promise.                                               *)

\* Acquired customers are customers; a second booking is a deleted one.
LEMMA AcquiredBound ==
  ASSUME RevInv, NEW f
  PROVE  CacSummary(f).first_orders <= RepeatRate(f).customers + Cardinality(deleted)
<1> DEFINE A == Acquired(f) \ deleted
           D == Acquired(f) \cap deleted
           U == {Buyer[b] : b \in WindowOrders(f)}
           g == [b \in A |-> Buyer[b]]
<1>1. /\ IsFiniteSet(A) /\ IsFiniteSet(D) /\ IsFiniteSet(deleted) /\ IsFiniteSet(WindowOrders(f))
      /\ Cardinality(D) <= Cardinality(deleted)
  <2>1. IsFiniteSet(deleted)
    BY ProducerAssumption, FS_Subset DEF RevInv
  <2> QED BY <2>1, OrdersFinite, FS_Subset
<1>2. IsFiniteSet(U)
  BY <1>1, ImageFinite
<1>3. \A a, b \in A : Buyer[a] = Buyer[b] => a = b
  BY OneEach
<1>4. \A b \in A : Buyer[b] \in U
  BY OrdersFinite
<1>5. g \in Injection(A, U)
  <2> HIDE DEF A, U
  <2> QED BY <1>3, <1>4 DEF Injection, IsInjective
<1>6. Cardinality(A) <= Cardinality(U)
  <2> HIDE DEF A, U, g
  <2> QED BY <1>2, <1>5, FS_Injection
<1>7. Cardinality(Acquired(f)) = Cardinality(A) + Cardinality(D)
  <2>1. Acquired(f) = A \cup D /\ A \cap D = {}
    OBVIOUS
  <2>2. Cardinality(A \cap D) = 0
    BY <2>1, FS_EmptySet
  <2>3. Cardinality(A \cup D) = Cardinality(A) + Cardinality(D) - Cardinality(A \cap D)
    BY <1>1, FS_Union
  <2>4. Cardinality(A) \in Nat /\ Cardinality(D) \in Nat
    BY <1>1, FS_CardinalityType
  <2> HIDE DEF A, D
  <2> QED BY <2>1, <2>2, <2>3, <2>4
<1>8. /\ Cardinality(A) \in Nat /\ Cardinality(D) \in Nat
      /\ Cardinality(U) \in Nat /\ Cardinality(deleted) \in Nat
  BY <1>1, <1>2, FS_CardinalityType
<1>9. CacSummary(f).first_orders = Cardinality(Acquired(f)) /\ RepeatRate(f).customers = Cardinality(U)
  BY DEF CacSummary, RepeatRate, Acquired
<1> HIDE DEF A, D, U
<1> QED BY <1>1, <1>6, <1>7, <1>8, <1>9

\* No campaign claims a first order another does.
LEMMA ClaimedOnce ==
  ASSUME RevInv, NEW f
  PROVE  TotalOf(CostPerFirstOrder(f), "first_orders") <= CacSummary(f).first_orders
<1> DEFINE K == {s.ad : s \in SpendOf(f)}
           A == Acquired(f)
           C == {b \in A : AdOf[b] \in K}
           key == [b \in C |-> AdOf[b]]
           h == [a \in K |-> Cardinality({b \in A : AdOf[b] = a})]
<1>1. IsFiniteSet(K)
  <2> DEFINE g == [s \in SpendOf(f) |-> s.ad]
  <2>1. g \in Surjection(SpendOf(f), K)
    BY DEF Surjection
  <2> HIDE DEF g, K
  <2> QED BY <2>1, SpendFinite, FS_Surjection
<1>2. IsFiniteSet(A) /\ IsFiniteSet(C) /\ Cardinality(C) <= Cardinality(A)
  BY OrdersFinite, FS_Subset
<1>3. \A b \in C : key[b] \in K
  OBVIOUS
<1>4. \A a \in K : h[a] = Cardinality(Group(C, key, a))
  <2> TAKE a \in K
  <2>1. Group(C, key, a) = {b \in A : AdOf[b] = a}
    BY DEF Group
  <2> QED BY <2>1
<1>5. DOMAIN CostPerFirstOrder(f) = K /\ \A a \in K : h[a] = CostPerFirstOrder(f)[a]["first_orders"]
  <2>1. \A a : {b \in WindowOrders(f) : IsFirst(b) /\ AdOf[b] = a} = {b \in A : AdOf[b] = a}
    BY DEF Acquired
  <2> QED BY <2>1 DEF CostPerFirstOrder
<1>6. CacSummary(f).first_orders = Cardinality(A)
  BY DEF CacSummary, Acquired
<1> HIDE DEF K, A, C, key, h
<1>7. Sum(h, K) = Cardinality(C)
  BY <1>1, <1>2, <1>3, <1>4, CountGroups
<1>8. TotalOf(CostPerFirstOrder(f), "first_orders") = Sum(h, K)
  BY <1>1, <1>5, ReportTotal
<1> QED BY <1>2, <1>6, <1>7, <1>8

\* What acquired customers have ordered up to the end of the window.
OrdersOfAcquired(f) ==
    {o \in Delivered : Buyer[o] \in {Buyer[b] : b \in Acquired(f)} /\ \E d \in f.days : OrderDay[o] <= d}

LEMMA OrderOnce ==
  ASSUME RevInv, deleted = {}, NEW f
  PROVE  Sum(PairValue(f), CohortOrders(f)) = SumValue(OrdersOfAcquired(f))
<1> DEFINE C == CohortOrders(f)
           O == OrdersOfAcquired(f)
           key == [p \in C |-> p[2]]
           val == PairValue(f)
<1>1. IsFiniteSet(C) /\ \A p \in C : val[p] \in Nat /\ val[p] = Value[p[2]]
  BY OrdersFinite, ReportAssumption DEF PairValue
<1>2. IsFiniteSet(O)
  BY OrdersFinite, FS_Subset DEF OrdersOfAcquired
<1>3. \A p \in C : key[p] \in O /\ key[p] = p[2]
  BY DEF CohortOrders, OrdersOfAcquired
<1>4. ASSUME NEW o \in O
      PROVE  \E p \in C : Group(C, key, o) = {p} /\ Value[o] = val[p]
  <2>1. PICK b \in Acquired(f) : Buyer[b] = Buyer[o]
    BY DEF OrdersOfAcquired
  <2>2. <<b, o>> \in C
    BY <2>1 DEF CohortOrders, OrdersOfAcquired
  <2>3. ASSUME NEW p \in C, p[2] = o PROVE p = <<b, o>>
    <3>1. p = <<p[1], p[2]>> /\ p[1] \in Acquired(f) /\ Buyer[p[1]] = Buyer[o]
      BY <2>3 DEF CohortOrders
    <3>2. p[1] = b
      BY <2>1, <3>1, OneEach
    <3> QED BY <2>3, <3>1, <3>2
  <2>4. Group(C, key, o) = {<<b, o>>}
    BY <1>3, <2>2, <2>3 DEF Group
  <2> QED BY <1>1, <2>2, <2>4
<1>5. SumValue(O) = Sum(Value, O)
  <2> HIDE DEF O
  <2> QED BY <1>2, SumIsFold DEF SumValue
<1> HIDE DEF C, O, key, val
<1>6. Sum(Value, O) = Sum(val, C)
  BY <1>1, <1>2, <1>3, <1>4, SumRenamed
<1> QED BY <1>5, <1>6 DEF C, O, val

\* The two keys.
CampaignKey == [b \in Bookings |-> CampaignOf(b)]
ChannelKey == [b \in Bookings |-> ChannelOf(b)]

\* The report by campaign has the totals of the cohort.
LEMMA CampaignTotals ==
  ASSUME RevInv, NEW f \in Filters
  PROVE  /\ TotalOf(CohortRevenue(f), "revenue") = Sum(PairValue(f), CohortOrders(f))
         /\ deleted = {} => TotalOf(CohortRevenue(f), "customers") = Cardinality(Acquired(f))
<1> DEFINE K == GroupKeys(f, CampaignKey)
           G == Grouped(f, CampaignKey)
           h == [x \in K |-> G[x]["revenue"]]
           c == [x \in K |-> G[x]["customers"]]
<1>1. CohortRevenue(f) = G
  BY DEF CohortRevenue, CampaignKey
<1>2. IsFiniteSet(K) /\ DOMAIN G = K
  BY GroupKeysFinite, GroupedIs
<1>3. \A x \in K : h[x] = G[x]["revenue"] /\ c[x] = G[x]["customers"]
  OBVIOUS
<1>4. \A x \in K : h[x] = G[x].revenue /\ c[x] = G[x].customers
  OBVIOUS
<1> HIDE DEF G, h, c
<1>5. TotalOf(G, "revenue") = Sum(h, K) /\ TotalOf(G, "customers") = Sum(c, K)
  <2> HIDE DEF K
  <2> QED BY <1>2, <1>3, ReportTotal
<1>6. Sum(h, K) = Sum(PairValue(f), CohortOrders(f))
  BY <1>2, <1>4, RevenueAdds DEF G
<1>7. deleted = {} => Sum(c, K) = Cardinality(Acquired(f))
  BY <1>2, <1>4, CustomersAdd DEF G
<1> QED BY <1>1, <1>5, <1>6, <1>7

\* So has the report by channel, and those of the spend.
LEMMA ChannelTotals ==
  ASSUME RevInv, NEW f \in Filters
  PROVE  /\ TotalOf(LtvCac(f), "revenue") = Sum(PairValue(f), CohortOrders(f))
         /\ TotalOf(LtvCac(f), "spend") = SpendSummary(f)
         /\ deleted = {} => TotalOf(LtvCac(f), "acquired") = Cardinality(Acquired(f))
<1> DEFINE L == LtvCac(f)
           G == Grouped(f, ChannelKey)
           B == SpendBreakdown(f, AdChannel)
           K == GroupKeys(f, ChannelKey) \cup SpentOn(f, AdChannel)
           h == [x \in K |-> L[x]["revenue"]]
           c == [x \in K |-> L[x]["acquired"]]
           s == [x \in K |-> L[x]["spend"]]
<1>1. IsFiniteSet(K)
  BY GroupKeysFinite, SpentOnFinite, FS_Union
<1>2. DOMAIN G = GroupKeys(f, ChannelKey) /\ DOMAIN B = SpentOn(f, AdChannel)
  BY GroupedIs DEF SpendBreakdown, SpentOn
<1>3. L = [x \in DOMAIN G \cup DOMAIN B |->
            [spend    |-> IF x \in DOMAIN B THEN B[x] ELSE 0,
             acquired |-> IF x \in DOMAIN G THEN G[x].customers ELSE 0,
             revenue  |-> IF x \in DOMAIN G THEN G[x].revenue ELSE 0]]
  BY DEF LtvCac, ChannelKey
<1>4. \A x \in K : h[x] = L[x]["revenue"] /\ c[x] = L[x]["acquired"] /\ s[x] = L[x]["spend"]
  OBVIOUS
<1> HIDE DEF L, G, B
<1>5. /\ DOMAIN L = K
      /\ \A x \in K : /\ h[x] = IF x \in GroupKeys(f, ChannelKey) THEN G[x].revenue ELSE 0
                      /\ c[x] = IF x \in GroupKeys(f, ChannelKey) THEN G[x].customers ELSE 0
                      /\ s[x] = IF x \in SpentOn(f, AdChannel) THEN B[x] ELSE 0
  BY <1>2, <1>3
<1> HIDE DEF h, c, s
<1>6. /\ TotalOf(L, "revenue") = Sum(h, K) /\ TotalOf(L, "acquired") = Sum(c, K)
      /\ TotalOf(L, "spend") = Sum(s, K)
  <2> HIDE DEF K
  <2> QED BY <1>1, <1>4, <1>5, ReportTotal
<1>7. Sum(h, K) = Sum(PairValue(f), CohortOrders(f))
  BY <1>1, <1>5, RevenueAdds DEF G
<1>8. deleted = {} => Sum(c, K) = Cardinality(Acquired(f))
  BY <1>1, <1>5, CustomersAdd DEF G
<1>9. Sum(s, K) = SpendSummary(f)
  BY <1>1, <1>5, SpendAdds DEF B
<1> QED BY <1>6, <1>7, <1>8, <1>9 DEF L

LEMMA RevenueSums == RevInv => RevenueOnce
<1> SUFFICES ASSUME RevInv, NEW f \in Filters
             PROVE  /\ TotalOf(CohortRevenue(f), "revenue") = TotalOf(LtvCac(f), "revenue")
                    /\ CacSummary(f).spend = TotalOf(LtvCac(f), "spend")
                    /\ CacSummary(f).first_orders >= TotalOf(CostPerFirstOrder(f), "first_orders")
                    /\ CacSummary(f).first_orders <= RepeatRate(f).customers + Cardinality(deleted)
                    /\ deleted = {} =>
                          /\ TotalOf(CohortRevenue(f), "revenue") = SumValue(OrdersOfAcquired(f))
                          /\ CacSummary(f).first_orders = TotalOf(CohortRevenue(f), "customers")
                          /\ CacSummary(f).first_orders = TotalOf(LtvCac(f), "acquired")
  BY DEF RevenueOnce, OrdersOfAcquired
<1>1. CacSummary(f).spend = SpendSummary(f) /\ CacSummary(f).first_orders = Cardinality(Acquired(f))
  BY DEF CacSummary, Acquired
<1>2. CacSummary(f).first_orders >= TotalOf(CostPerFirstOrder(f), "first_orders")
  BY ClaimedOnce
<1> QED BY <1>1, <1>2, CampaignTotals, ChannelTotals, AcquiredBound, OrderOnce

\* The conversions as the producer leaves them.
LEMMA Reported == ProducerInv => RevInv
<1> SUFFICES ASSUME ProducerInv PROVE RevInv
  OBVIOUS
<1>1. conversions \subseteq [booking : Bookings, first : BOOLEAN] /\ deleted \subseteq Bookings
  BY DEF ProducerInv, Types
<1>2. \A b \in Bookings : IsFirst(b) => Claims(b)
  BY DEF ProducerInv, FirstInv, IsFirst
<1> QED BY <1>1, <1>2 DEF ProducerInv, FirstInv, SameBuyer, RevInv

\* The reports on spend and revenue: whatever calls were repeated, overtaken or
\* lost, revenue and spend add up to the same by campaign, by channel and in all.
THEOREM RevenueHolds == ProducerSpec => []RevenueOnce
BY Reported, RevenueSums, ProducerKeeps, PTL

-----------------------------------------------------------------------------
(* TouchBeacon: touches lost, doubled and stripped.                        *)

\* An attempt failed for every one before it; a row is there for every answer
\* lost; all that is ever forwarded is what sanitizeTouch left of the body.
Paid(t) ==
    /\ beacon[t].pc = "none" => failedForwards[t] = 0
    /\ beacon[t].pc \in {"none", "refused"} => touchRows[t] = <<>> /\ lostAnswers[t] = 0
    /\ beacon[t].pc = "none" => beacon[t].attempt = 1
    /\ beacon[t].pc = "forward" =>
          /\ failedForwards[t] = beacon[t].attempt - 1
          /\ beacon[t].payload.clicks => Body[t].consent
          /\ Len(touchRows[t]) = lostAnswers[t]
    /\ lostAnswers[t] <= failedForwards[t]
    /\ beacon[t].pc = "over" /\ touchRows[t] = <<>> => failedForwards[t] = Forwards \/ t \in dropped
    /\ Len(touchRows[t]) <= 1 + lostAnswers[t]
    /\ \A i \in DOMAIN touchRows[t] : touchRows[t][i].clicks => Body[t].consent

BeaconInv == BeaconTypeOK /\ \A t \in Landings : Paid(t)

Requests == [pc : {"none", "refused", "forward", "over"}, payload : Payloads, attempt : 1..Forwards]

\* What a step does to the request it is for, the other requests staying as they are.
OneRequest(t) ==
    /\ \A u \in Landings \ {t} :
          /\ beacon'[u] = beacon[u] /\ touchRows'[u] = touchRows[u]
          /\ failedForwards'[u] = failedForwards[u] /\ lostAnswers'[u] = lostAnswers[u]
          /\ u \in dropped' <=> u \in dropped

LEMMA OneIsEnough ==
  ASSUME BeaconInv, NEW t \in Landings, OneRequest(t), BeaconTypeOK', Paid(t)'
  PROVE  BeaconInv'
<1>1. ASSUME NEW u \in Landings PROVE Paid(u)'
  <2>1. CASE u = t
    BY <2>1
  <2>2. CASE u # t
    BY <2>2 DEF BeaconInv, OneRequest, Paid
  <2> QED BY <2>1, <2>2
<1> QED BY <1>1 DEF BeaconInv

LEMMA AcceptInv ==
  ASSUME BeaconInv, NEW t \in Landings, Accept(t) PROVE BeaconInv'
<1> DEFINE k == [pc |-> "forward", payload |-> Sanitized(Body[t]), attempt |-> 1]
<1>1. beacon[t].pc = "none" /\ beacon' = [beacon EXCEPT ![t] = k]
      /\ UNCHANGED <<touchRows, failedForwards, lostAnswers, dropped>>
  BY DEF Accept
<1>2. k \in Requests /\ k.pc = "forward" /\ k.attempt = 1 /\ (k.payload.clicks => Body[t].consent)
  BY BeaconAssumption DEF Sanitized, Bodies, Requests, Payloads
<1> HIDE DEF k
<1>3. BeaconTypeOK' /\ OneRequest(t) /\ beacon'[t] = k
  BY <1>1, <1>2 DEF BeaconInv, BeaconTypeOK, OneRequest, Requests
<1>4. Paid(t)'
  <2>1. Len(<<>>) = 0
    OBVIOUS
  <2> QED BY <1>1, <1>2, <1>3, <2>1 DEF BeaconInv, BeaconTypeOK, Paid
<1> QED BY <1>3, <1>4, OneIsEnough

LEMMA EndInv ==
  ASSUME BeaconInv, NEW t \in Landings, Refuse(t) \/ ForwardDropped(t) PROVE BeaconInv'
<1>1. beacon[t] \in Requests /\ beacon \in [Landings -> Requests]
  BY DEF BeaconInv, BeaconTypeOK, Requests
<1>2. PICK pc \in {"refused", "over"} : beacon' = [beacon EXCEPT ![t].pc = pc]
         /\ (pc = "over" => Refuse(t) \/ t \in dropped')
  BY DEF Refuse, ForwardDropped
<1>3. BeaconTypeOK' /\ OneRequest(t)
  BY <1>1, <1>2 DEF BeaconInv, BeaconTypeOK, OneRequest, Requests, Refuse, ForwardDropped
<1>4. Paid(t)'
  <2>1. CASE Refuse(t)
    BY <1>1, <2>1 DEF BeaconInv, BeaconTypeOK, Paid, Refuse, Requests
  <2>2. CASE ForwardDropped(t)
    <3>1. /\ beacon'[t].pc = "over" /\ beacon[t].pc = "forward" /\ t \in dropped'
          /\ UNCHANGED <<touchRows, failedForwards, lostAnswers>>
      BY <1>1, <2>2 DEF ForwardDropped, Requests
    <3> QED BY <3>1 DEF BeaconInv, BeaconTypeOK, Paid
  <2> QED BY <2>1, <2>2
<1> QED BY <1>3, <1>4, OneIsEnough

\* The row a request has stored, besides those of its answers that were lost.
LEMMA StoredRow ==
  ASSUME BeaconInv, NEW t \in Landings, Stored(t), beacon[t].pc = "forward"
  PROVE  /\ touchRows' \in [Landings -> Seq(Payloads)]
         /\ \A u \in Landings \ {t} : touchRows'[u] = touchRows[u]
         /\ Len(touchRows'[t]) = lostAnswers[t] + 1 /\ touchRows'[t] # <<>>
         /\ \A i \in DOMAIN touchRows'[t] : touchRows'[t][i].clicks => Body[t].consent
<1>1. /\ touchRows[t] \in Seq(Payloads) /\ beacon[t].payload \in Payloads
      /\ touchRows \in [Landings -> Seq(Payloads)]
  BY DEF BeaconInv, BeaconTypeOK
<1>2. /\ Len(touchRows[t]) = lostAnswers[t] /\ (beacon[t].payload.clicks => Body[t].consent)
      /\ \A i \in DOMAIN touchRows[t] : touchRows[t][i].clicks => Body[t].consent
  BY DEF BeaconInv, Paid
<1>3. touchRows' = [touchRows EXCEPT ![t] = Append(touchRows[t], beacon[t].payload)]
  BY DEF Stored
<1>4. touchRows'[t] = Append(touchRows[t], beacon[t].payload)
  BY <1>1, <1>3
<1>5. touchRows' \in [Landings -> Seq(Payloads)]
  BY <1>1, <1>3
<1>6. \A i \in DOMAIN touchRows'[t] : touchRows'[t][i].clicks => Body[t].consent
  BY <1>1, <1>2, <1>4
<1>7. Len(touchRows'[t]) = lostAnswers[t] + 1 /\ touchRows'[t] # <<>>
  <2>1. /\ Len(Append(touchRows[t], beacon[t].payload)) = Len(touchRows[t]) + 1
        /\ Append(touchRows[t], beacon[t].payload) # <<>>
    BY <1>1, AppendProperties
  <2> QED BY <1>2, <1>4, <2>1
<1> QED BY <1>1, <1>3, <1>5, <1>6, <1>7

LEMMA ForwardInv ==
  ASSUME BeaconInv, NEW t \in Landings, Forward(t) PROVE BeaconInv'
<1>1. beacon[t] \in Requests /\ beacon \in [Landings -> Requests] /\ beacon[t].pc = "forward"
  BY DEF BeaconInv, BeaconTypeOK, Requests, Forward
<1>2. beacon' = [beacon EXCEPT ![t].pc = "over"] /\ UNCHANGED <<failedForwards, lostAnswers, dropped>>
  BY DEF Forward
<1>3. beacon' \in [Landings -> Requests] /\ beacon'[t].pc = "over"
  BY <1>1, <1>2 DEF Requests
<1>4. /\ touchRows' \in [Landings -> Seq(Payloads)]
      /\ \A u \in Landings \ {t} : touchRows'[u] = touchRows[u]
      /\ Len(touchRows'[t]) = lostAnswers[t] + 1 /\ touchRows'[t] # <<>>
      /\ \A i \in DOMAIN touchRows'[t] : touchRows'[t][i].clicks => Body[t].consent
  BY <1>1, StoredRow DEF Forward
<1>5. BeaconTypeOK' /\ OneRequest(t)
  BY <1>1, <1>2, <1>3, <1>4 DEF BeaconInv, BeaconTypeOK, OneRequest, Requests
<1>6. lostAnswers[t] \in Nat /\ lostAnswers[t] <= failedForwards[t]
  BY BeaconAssumption DEF BeaconInv, BeaconTypeOK, Paid
<1>7. Paid(t)'
  BY <1>2, <1>3, <1>4, <1>6 DEF Paid
<1> QED BY <1>5, <1>7, OneIsEnough

\* The next attempt, or the end of the last one.
LEMMA Tried ==
  ASSUME BeaconInv, NEW t \in Landings, TryAgain(t), beacon[t].pc = "forward"
  PROVE  /\ beacon' \in [Landings -> Requests]
         /\ \A u \in Landings \ {t} : beacon'[u] = beacon[u]
         /\ beacon'[t].payload = beacon[t].payload
         /\ \/ /\ beacon[t].attempt < Forwards
               /\ beacon'[t].pc = "forward" /\ beacon'[t].attempt = beacon[t].attempt + 1
            \/ beacon'[t].pc = "over" /\ beacon[t].attempt = Forwards
<1>1. beacon[t] \in Requests /\ beacon \in [Landings -> Requests]
  BY DEF BeaconInv, BeaconTypeOK, Requests
<1>2. CASE beacon[t].attempt < Forwards
  <2> DEFINE k == [beacon[t] EXCEPT !.attempt = beacon[t].attempt + 1]
  <2>1. k \in Requests /\ k.pc = "forward" /\ k.payload = beacon[t].payload
        /\ k.attempt = beacon[t].attempt + 1
    BY <1>1, <1>2, BeaconAssumption DEF Requests
  <2>2. beacon' = [beacon EXCEPT ![t] = k]
    BY <1>2 DEF TryAgain
  <2> HIDE DEF k
  <2> QED BY <1>1, <1>2, <2>1, <2>2
<1>3. CASE ~(beacon[t].attempt < Forwards)
  <2> DEFINE k == [beacon[t] EXCEPT !.pc = "over"]
  <2>1. k \in Requests /\ k.pc = "over" /\ k.payload = beacon[t].payload
    BY <1>1 DEF Requests
  <2>2. beacon' = [beacon EXCEPT ![t] = k]
    BY <1>3 DEF TryAgain
  <2>3. beacon[t].attempt = Forwards
    BY <1>1, <1>3, BeaconAssumption DEF Requests
  <2> HIDE DEF k
  <2> QED BY <1>1, <2>1, <2>2, <2>3
<1> QED BY <1>2, <1>3

LEMMA ForwardFailsInv ==
  ASSUME BeaconInv, NEW t \in Landings, ForwardFails(t) PROVE BeaconInv'
<1>1. /\ beacon[t].pc = "forward" /\ UNCHANGED dropped
      /\ failedForwards' = [failedForwards EXCEPT ![t] = failedForwards[t] + 1]
  BY DEF ForwardFails
<1>2. /\ beacon' \in [Landings -> Requests]
      /\ \A u \in Landings \ {t} : beacon'[u] = beacon[u]
      /\ beacon'[t].payload = beacon[t].payload
      /\ \/ /\ beacon[t].attempt < Forwards
            /\ beacon'[t].pc = "forward" /\ beacon'[t].attempt = beacon[t].attempt + 1
         \/ beacon'[t].pc = "over" /\ beacon[t].attempt = Forwards
  BY Tried DEF ForwardFails
<1>3. /\ beacon[t].attempt \in 1..Forwards /\ failedForwards[t] = beacon[t].attempt - 1
      /\ lostAnswers[t] \in Nat /\ lostAnswers[t] <= failedForwards[t]
      /\ failedForwards \in [Landings -> 0..Forwards] /\ lostAnswers \in [Landings -> 0..Forwards]
  BY <1>1, BeaconAssumption DEF BeaconInv, BeaconTypeOK, Paid
<1>4. /\ failedForwards' \in [Landings -> 0..Forwards]
      /\ failedForwards'[t] = beacon[t].attempt
      /\ \A u \in Landings \ {t} : failedForwards'[u] = failedForwards[u]
  BY <1>1, <1>3, BeaconAssumption
<1>5. /\ lostAnswers' \in [Landings -> 0..Forwards] /\ lostAnswers'[t] <= failedForwards'[t]
      /\ \A u \in Landings \ {t} : lostAnswers'[u] = lostAnswers[u]
      /\ touchRows' \in [Landings -> Seq(Payloads)]
      /\ \A u \in Landings \ {t} : touchRows'[u] = touchRows[u]
      /\ Len(touchRows'[t]) = lostAnswers'[t] /\ lostAnswers'[t] \in Nat
      /\ \A i \in DOMAIN touchRows'[t] : touchRows'[t][i].clicks => Body[t].consent
  <2>1. CASE UNCHANGED <<touchRows, lostAnswers>>
    BY <1>1, <1>3, <1>4, <2>1 DEF BeaconInv, BeaconTypeOK, Paid
  <2>2. CASE Stored(t) /\ lostAnswers' = [lostAnswers EXCEPT ![t] = lostAnswers[t] + 1]
    <3>1. /\ touchRows' \in [Landings -> Seq(Payloads)]
          /\ \A u \in Landings \ {t} : touchRows'[u] = touchRows[u]
          /\ Len(touchRows'[t]) = lostAnswers[t] + 1
          /\ \A i \in DOMAIN touchRows'[t] : touchRows'[t][i].clicks => Body[t].consent
      BY <1>1, <2>2, StoredRow
    <3>2. lostAnswers[t] + 1 <= failedForwards'[t] /\ lostAnswers[t] + 1 \in 0..Forwards
      BY <1>3, <1>4, BeaconAssumption
    <3>3. /\ lostAnswers' \in [Landings -> 0..Forwards] /\ lostAnswers'[t] = lostAnswers[t] + 1
          /\ \A u \in Landings \ {t} : lostAnswers'[u] = lostAnswers[u]
      BY <1>3, <2>2, <3>2
    <3>4. lostAnswers'[t] \in Nat
      BY <1>3, <3>3
    <3> QED BY <3>1, <3>2, <3>3, <3>4
  <2> QED BY <2>1, <2>2 DEF ForwardFails
<1>6. BeaconTypeOK' /\ OneRequest(t)
  BY <1>1, <1>2, <1>4, <1>5 DEF BeaconInv, BeaconTypeOK, OneRequest, Requests
<1>7. Paid(t)'
  <2>1. beacon'[t].payload.clicks => Body[t].consent
    BY <1>1, <1>2 DEF BeaconInv, Paid
  <2>2. CASE beacon'[t].pc = "forward"
    BY <1>2, <1>3, <1>4, <1>5, <2>1, <2>2 DEF Paid
  <2>3. CASE beacon'[t].pc = "over"
    BY <1>2, <1>3, <1>4, <1>5, <2>3 DEF Paid
  <2> QED BY <1>2, <2>2, <2>3
<1> QED BY <1>6, <1>7, OneIsEnough

LEMMA BeaconStep ==
  ASSUME BeaconInv, [BeaconNext]_beaconVars PROVE BeaconInv'
<1>1. CASE UNCHANGED beaconVars
  BY <1>1 DEF BeaconInv, BeaconTypeOK, Paid, beaconVars
<1> QED BY <1>1, AcceptInv, EndInv, ForwardInv, ForwardFailsInv DEF BeaconNext

LEMMA BeaconStart == BeaconInit => BeaconInv
<1> SUFFICES ASSUME BeaconInit PROVE BeaconInv
  OBVIOUS
<1>1. Unseen \in Requests /\ Unseen.pc = "none" /\ Unseen.attempt = 1
  BY BeaconAssumption DEF Unseen, Requests, Payloads
<1>2. <<>> \in Seq(Payloads) /\ Len(<<>>) = 0
  OBVIOUS
<1>3. BeaconTypeOK
  BY <1>1, <1>2, BeaconAssumption DEF BeaconInit, BeaconTypeOK, Requests
<1>4. ASSUME NEW t \in Landings PROVE Paid(t)
  BY <1>1, <1>2 DEF BeaconInit, Paid
<1> QED BY <1>3, <1>4 DEF BeaconInv

LEMMA BeaconKeeps == BeaconSpec => []BeaconInv
BY BeaconStart, BeaconStep, PTL DEF BeaconSpec

\* handleRequest and forwardTouch: every request, its rows and its counts keep
\* their types; no attempt goes beyond the last.
THEOREM BeaconTypes == BeaconSpec => []BeaconTypeOK
<1>1. BeaconInv => BeaconTypeOK
  BY DEF BeaconInv
<1> QED BY <1>1, BeaconKeeps, PTL

\* forwardTouch after a 204: a touch is missing only when all its forwards failed
\* or it was dropped, is there twice only for an answer lost, and has click ids
\* only with consent.
THEOREM BeaconHolds == BeaconSpec => []TouchesCostFaults
<1>1. BeaconInv => TouchesCostFaults
  BY DEF BeaconInv, Paid, TouchesCostFaults
<1> QED BY <1>1, BeaconKeeps, PTL

=============================================================================
