---------------------- MODULE ConversionPipelineProofs ----------------------
(***************************************************************************)
(* Proofs about ConversionPipeline, for every set of items, lanes, batch   *)
(* size, resolver run, number of overlapping CAPI executions and fault     *)
(* bound.                                                                  *)
(***************************************************************************)
EXTENDS ConversionPipeline, FiniteSetTheorems, TLAPS

-----------------------------------------------------------------------------
(* Helpers.                                                                *)

\* The first n items of a set belong to it.
LEMMA FirstIsSubset == \A n, S : First(n, S) \subseteq S
  BY DEF First

\* There is at least one lane.
LEMMA LaneCount == Len(Lanes) \in Nat \ {0}
  BY ItemsAssumption

\* A run that is over is a run ...
LEMMA RestingType == Resting \in ResolverRuns
  BY DEF Resting, ResolverRuns, Outcomes

\* ... and so is a job that is over, which holds nothing.
LEMMA StoppedType ==
  /\ Stopped \in UploaderRuns
  /\ Stopped.pc = "idle" /\ Stopped.pending = {} /\ ~ Stopped.stalled
  BY LaneCount DEF Stopped, UploaderRuns

\* At the start of a lane the job holds nothing.
LEMMA LaneType ==
  ASSUME NEW run \in UploaderRuns, NEW n \in 1..Len(Lanes)
  PROVE  /\ AtLane(run, n) \in UploaderRuns
         /\ AtLane(run, n).lane = n /\ n > 0
         /\ AtLane(run, n).pc = "select"
         /\ AtLane(run, n).pending = {}
         /\ AtLane(run, n).stalled = run.stalled
<1>1. n \in 0..Len(Lanes) /\ n > 0
  BY LaneCount
<1>2. {} \in SUBSET Items /\ 1 \in 1..2
  OBVIOUS
<1> QED BY <1>1, <1>2 DEF AtLane, UploaderRuns

\* The end of a lane leaves the job at the next one, or over; it holds nothing.
LEMMA NextLaneType ==
  ASSUME NEW run \in UploaderRuns
  PROVE  /\ NextLane(run) \in UploaderRuns
         /\ NextLane(run).pc # "idle" => NextLane(run).lane > 0
         /\ NextLane(run).pc \in {"idle", "select"}
         /\ NextLane(run).pending = {}
         /\ NextLane(run).stalled => run.stalled /\ NextLane(run).pc # "idle"
         /\ NextLane(run).pc # "idle" => NextLane(run).stalled = run.stalled
<1>1. CASE run.lane = Len(Lanes)
  BY <1>1, StoppedType DEF NextLane
<1>2. CASE run.lane # Len(Lanes)
  <2>1. run.lane + 1 \in 1..Len(Lanes)
    BY <1>2, LaneCount DEF UploaderRuns
  <2> QED BY <1>2, <2>1, LaneType DEF NextLane
<1> QED BY <1>1, <1>2

\* A job that has selected rows is about to send the first batch of them.
LEMMA SendingType ==
  ASSUME NEW run \in UploaderRuns, NEW rows \in SUBSET Items
  PROVE  /\ Sending(run, rows) \in UploaderRuns
         /\ Sending(run, rows).lane = run.lane
         /\ Sending(run, rows).pending = rows
         /\ Sending(run, rows).pc = "send"
         /\ Sending(run, rows).stalled = run.stalled
<1>1. 1 \in 1..2
  OBVIOUS
<1> QED BY <1>1 DEF UploaderRuns, Sending

\* A step gives one resolver run, or one CAPI job, a new record.
LEMMA ResolverMoves ==
  ASSUME TypeOK, NEW r \in Resolvers, NEW k \in ResolverRuns,
         resolver' = [resolver EXCEPT ![r] = k]
  PROVE  resolver' \in [Resolvers -> ResolverRuns]
BY DEF TypeOK

\* The same for a CAPI job: the new record keeps what TypeOK says of jobs.
LEMMA UploaderMoves ==
  ASSUME TypeOK, NEW u \in Uploaders, NEW k \in UploaderRuns, k.pc # "idle" => k.lane > 0,
         uploader' = [uploader EXCEPT ![u] = k]
  PROVE  /\ uploader' \in [Uploaders -> UploaderRuns]
         /\ \A v \in Uploaders : uploader'[v].pc # "idle" => uploader'[v].lane > 0
BY DEF TypeOK

\* The number of faults stays within its bound.
LEMMA FaultType ==
  /\ TypeOK => faults \in Nat /\ lostLocks \in Nat
  /\ TypeOK /\ Fault => /\ faults' \in 0..MaxFaults /\ faults' = faults + 1
                       /\ lostLocks \in 0..faults' /\ lostLocks + 1 \in 0..faults'
  BY ItemsAssumption DEF Fault, TypeOK

\* Counting one more acceptance per item keeps the counters natural.
LEMMA AcceptedType ==
  ASSUME TypeOK, NEW batch, Accepted(batch)
  PROVE  accepted' \in [Items -> Nat]
BY DEF Accepted, TypeOK

\* What TypeOK says of one run and one job.
LEMMA RunTypes ==
  ASSUME TypeOK
  PROVE  /\ \A u \in Uploaders : /\ uploader[u] \in UploaderRuns
                                 /\ uploader[u].pending \subseteq Items
                                 /\ ThisBatch(uploader[u]) \subseteq uploader[u].pending
         /\ \A r \in Resolvers : /\ resolver[r] \in ResolverRuns
                                 /\ resolver[r].todo \subseteq Purchases
                                 /\ resolver[r].item \in Purchases \cup {NoItem}
                                 /\ resolver[r].found \in Outcomes
BY FirstIsSubset DEF TypeOK, UploaderRuns, ResolverRuns, ThisBatch

-----------------------------------------------------------------------------
(* Types.                                                                  *)

\* Initially every variable has its type.
LEMMA TypeInit == Init => TypeOK
<1> SUFFICES ASSUME Init PROVE TypeOK
  OBVIOUS
<1> QED BY RestingType, StoppedType, ItemsAssumption DEF Init, TypeOK, Outcomes

\* The writers keep the types ...
LEMMA WriterTypes ==
  ASSUME TypeOK, NEW i \in Items, Ingest(i) \/ TouchArrives(i)
  PROVE  TypeOK'
<1>1. CASE Ingest(i)
  BY <1>1 DEF Ingest, TypeOK
<1>2. CASE TouchArrives(i)
  BY <1>2 DEF TouchArrives, TypeOK
<1> QED BY <1>1, <1>2

\* ... and so does every step of a resolver run ...
LEMMA ResolverTypes ==
  ASSUME TypeOK, NEW r \in Resolvers, ResolveStep(r)
  PROVE  TypeOK'
<1>1. CASE ResolveStart(r)
  <2>1. PICK todo \in SUBSET Purchases : resolver' = [resolver EXCEPT ![r].todo = todo]
    BY <1>1 DEF ResolveStart
  <2>2. [resolver[r] EXCEPT !.todo = todo] \in ResolverRuns
    BY RunTypes DEF ResolverRuns
  <2> QED BY <1>1, <2>1, <2>2, ResolverMoves DEF ResolveStart, TypeOK
<1>2. CASE ResolveRead(r)
  <2>1. PICK i \in resolver[r].todo :
           resolver' = [resolver EXCEPT
              ![r] = [@ EXCEPT !.item = i,
                               !.found = IF i \in touched THEN "touch" ELSE "no_touch"]]
    BY <1>2 DEF ResolveRead
  <2> DEFINE k == [resolver[r] EXCEPT !.item = i,
                      !.found = IF i \in touched THEN "touch" ELSE "no_touch"]
  <2>2. i \in Purchases
    BY RunTypes
  <2>3. k \in ResolverRuns
    BY <2>2, RunTypes DEF ResolverRuns, Outcomes
  <2>4. resolver' = [resolver EXCEPT ![r] = k]
    BY <2>1
  <2> HIDE DEF k
  <2> QED BY <1>2, <2>3, <2>4, ResolverMoves DEF ResolveRead, TypeOK
<1>3. CASE ResolveWrite(r)
  <2> DEFINE k == [todo  |-> resolver[r].todo \ {resolver[r].item},
                   item  |-> NoItem, found |-> "none"]
  <2>1. k \in ResolverRuns /\ resolver' = [resolver EXCEPT ![r] = k]
    BY <1>3, RunTypes DEF ResolveWrite, NextItem, ResolverRuns, Outcomes
  <2>2. outcome' \in [Purchases -> Outcomes]
    BY <1>3, RunTypes DEF ResolveWrite, TypeOK
  <2> HIDE DEF k
  <2> QED BY <1>3, <2>1, <2>2, ResolverMoves DEF ResolveWrite, TypeOK
<1>4. CASE ResolveAborts(r)
  BY <1>4, RestingType, ResolverMoves, FaultType DEF ResolveAborts, TypeOK
<1> QED BY <1>1, <1>2, <1>3, <1>4 DEF ResolveStep

\* A step gives an execution the record k.
Moves(u, k) == uploader' = [uploader EXCEPT ![u] = k]

\* k comes of the lock as it was: a stalled execution stays so until it ends, and
\* another one starts only if none has the lock.
Lawful(u, k) ==
    /\ k.stalled => uploader[u].stalled /\ k.pc # "idle"
    /\ k.pc # "idle" /\ ~ k.stalled => Owner(u) \/ \A v \in Uploaders : ~ Owner(v)
    /\ k.pc \in {"idle", "select"} => k.pending = {}

\* Rows that may be selected: resolved or leads, and unmarked.
Selectable(rows) == rows \subseteq Offered \ uploaded

\* The three forms of an upload step.  Nothing is sent or marked: rows are
\* selected, kept or given up, ...
Quiet(u, k) ==
    /\ UNCHANGED <<accepted, uploaded, lostLocks>>
    /\ k.pc # "mark"
    /\ \/ k.pending = {}
       \/ k.pending = uploader[u].pending /\ uploader[u].pc = "send"
       \/ Selectable(k.pending) /\ uploader[u].pc = "select"
    /\ \/ faults' = faults /\ uploader[u].pc # "mark"
       \/ faults' = faults + 1

\* ... Meta accepts the batch, be its answer received or lost, ...
Accepting(u, k) ==
    /\ uploader[u].pc = "send" /\ Accepted(ThisBatch(uploader[u]))
    /\ UNCHANGED <<uploaded, lostLocks>>
    /\ \/ /\ k.pc = "mark" /\ k.pending = uploader[u].pending
          /\ k.stalled = uploader[u].stalled /\ faults' = faults
       \/ /\ k.pc # "mark" /\ faults' = faults + 1
          /\ k.pending = uploader[u].pending \/ k.pending = {}

\* ... or the batch it has accepted is marked.
Settling(u, k) ==
    /\ uploader[u].pc = "mark" /\ k.pc # "mark"
    /\ k.pending = uploader[u].pending \ ThisBatch(uploader[u])
    /\ uploaded' = uploaded \cup ThisBatch(uploader[u])
    /\ UNCHANGED <<accepted, faults, lostLocks>>

\* What a step of an execution leaves behind.
Effect(u, k) ==
    /\ Moves(u, k) /\ k \in UploaderRuns /\ (k.pc # "idle" => k.lane > 0) /\ Lawful(u, k)
    /\ Quiet(u, k) \/ Accepting(u, k) \/ Settling(u, k)

\* Every step of an execution has one of the forms.
LEMMA UploaderEffect ==
  ASSUME TypeOK, NEW u \in Uploaders, UploadStep(u)
  PROVE  \E k : Effect(u, k)
<1> DEFINE run == uploader[u]
<1>1. /\ run \in UploaderRuns /\ (run.pc # "idle" => run.lane > 0)
      /\ run.pending \subseteq Items /\ ThisBatch(run) \subseteq run.pending
  BY RunTypes DEF TypeOK
<1>2. ASSUME run.pc # "idle"
      PROVE  /\ NextLane(run) \in UploaderRuns /\ Lawful(u, NextLane(run))
             /\ NextLane(run).pc # "idle" => NextLane(run).lane > 0
             /\ NextLane(run).pc # "mark" /\ NextLane(run).pending = {}
  BY <1>1, <1>2, NextLaneType DEF Lawful, Owner
<1>3. /\ Stopped \in UploaderRuns /\ Lawful(u, Stopped)
      /\ Stopped.pc = "idle" /\ Stopped.pending = {}
  BY StoppedType DEF Lawful
<1>4. CASE UploadStart(u)
  <2> DEFINE k == AtLane(Stopped, 1)
  <2>1. 1 \in 1..Len(Lanes)
    BY LaneCount
  <2>2. /\ k \in UploaderRuns /\ k.lane > 0
        /\ k.pc = "select" /\ k.pending = {} /\ ~ k.stalled
    BY <2>1, StoppedType, LaneType
  <2>3. Moves(u, k) /\ run.pc = "idle" /\ UNCHANGED <<accepted, uploaded, lostLocks, faults>>
    BY <1>4 DEF UploadStart, Moves
  <2> HIDE DEF k
  <2>4. Lawful(u, k)
    BY <1>4, <2>2 DEF UploadStart, Lawful
  <2>5. Quiet(u, k)
    BY <2>2, <2>3 DEF Quiet
  <2> QED BY <2>2, <2>3, <2>4, <2>5 DEF Effect
<1>5. CASE Select(u)
  <2> DEFINE pending == First(MaxPerRun, {i \in Lanes[run.lane] : Eligible(i)})
             k == Sending(run, pending)
  <2>1. pending \subseteq Items
    <3>1. run.lane \in 1..Len(Lanes)
      BY <1>1, <1>5, LaneCount DEF Select, UploaderRuns
    <3>2. Lanes[run.lane] \subseteq Items
      BY <3>1, ItemsAssumption
    <3> QED BY <3>2, FirstIsSubset
  <2>2. Selectable(pending)
    BY FirstIsSubset DEF Selectable, Eligible, Offered
  <2>3. /\ run.pc = "select" /\ UNCHANGED <<accepted, uploaded, lostLocks, faults>>
        /\ Moves(u, NextLane(run)) \/ Moves(u, k)
    BY <1>5 DEF Select, Moves
  <2> HIDE DEF pending
  <2>4. /\ k \in UploaderRuns /\ k.lane > 0
        /\ k.pc = "send" /\ k.pending = pending /\ k.stalled = run.stalled
    BY <1>1, <2>1, <2>3, SendingType
  <2> HIDE DEF k
  <2>5. Lawful(u, k)
    BY <2>3, <2>4 DEF Lawful, Owner
  <2>6. Quiet(u, NextLane(run)) /\ Quiet(u, k)
    BY <1>2, <2>2, <2>3, <2>4 DEF Quiet
  <2> QED BY <1>2, <2>3, <2>4, <2>5, <2>6 DEF Effect
<1>6. CASE SendAccepted(u)
  <2> DEFINE k == [run EXCEPT !.pc = "mark"]
  <2>1. /\ k \in UploaderRuns /\ k.lane = run.lane
        /\ k.pc = "mark" /\ k.pending = run.pending /\ k.stalled = run.stalled
    BY <1>1 DEF UploaderRuns
  <2>2. /\ Moves(u, k) /\ run.pc = "send" /\ Accepted(ThisBatch(run))
        /\ UNCHANGED <<uploaded, lostLocks, faults>>
    BY <1>6 DEF SendAccepted, Moves
  <2> HIDE DEF k
  <2>3. Lawful(u, k)
    BY <2>1, <2>2 DEF Lawful, Owner
  <2>4. Accepting(u, k)
    BY <2>1, <2>2 DEF Accepting
  <2> QED BY <1>1, <2>1, <2>2, <2>3, <2>4 DEF Effect
<1>7. CASE SendRejected(u)
  <2>1. /\ Moves(u, NextLane(run)) /\ run.pc = "send"
        /\ UNCHANGED <<accepted, uploaded, lostLocks, faults>>
    BY <1>7 DEF SendRejected, Moves
  <2>2. Quiet(u, NextLane(run))
    BY <1>2, <2>1 DEF Quiet
  <2> QED BY <1>2, <2>1, <2>2 DEF Effect
<1>8. CASE SendFails(u)
  <2> DEFINE again == [run EXCEPT !.attempt = 2]
  <2>1. /\ again \in UploaderRuns /\ again.lane = run.lane
        /\ again.pc = run.pc /\ again.pending = run.pending /\ again.stalled = run.stalled
    BY <1>1 DEF UploaderRuns
  <2>2. /\ run.pc = "send" /\ faults' = faults + 1 /\ UNCHANGED <<uploaded, lostLocks>>
        /\ UNCHANGED accepted \/ Accepted(ThisBatch(run))
        /\ Moves(u, NextLane(run)) \/ Moves(u, again)
    BY <1>8 DEF SendFails, Fault, Moves
  <2> HIDE DEF again
  <2>3. Lawful(u, again)
    BY <2>1, <2>2 DEF Lawful, Owner
  <2>4. ASSUME NEW k, k = NextLane(run) \/ k = again
        PROVE  Quiet(u, k) \/ Accepting(u, k)
    BY <1>2, <2>1, <2>2, <2>4 DEF Quiet, Accepting
  <2> QED BY <1>1, <1>2, <2>1, <2>2, <2>3, <2>4 DEF Effect
<1>9. CASE Mark(u)
  <2> DEFINE rest == run.pending \ ThisBatch(run)
             k == Sending(run, rest)
  <2>1. /\ run.pc = "mark" /\ uploaded' = uploaded \cup ThisBatch(run)
        /\ UNCHANGED <<accepted, faults, lostLocks>>
        /\ \/ rest = {} /\ Moves(u, NextLane(run))
           \/ Moves(u, k)
    BY <1>9 DEF Mark, Moves
  <2>2. rest \in SUBSET Items
    BY <1>1
  <2> HIDE DEF rest
  <2>3. /\ k \in UploaderRuns /\ k.lane = run.lane
        /\ k.pc = "send" /\ k.pending = rest /\ k.stalled = run.stalled
    BY <1>1, <2>2, SendingType
  <2> HIDE DEF k
  <2>4. Lawful(u, k)
    BY <2>1, <2>3 DEF Lawful, Owner
  <2> USE DEF rest
  <2>5. CASE rest = {} /\ Moves(u, NextLane(run))
    <3>1. Settling(u, NextLane(run))
      BY <1>2, <2>1, <2>5 DEF Settling
    <3> QED BY <1>2, <2>1, <2>5, <3>1 DEF Effect
  <2>6. CASE Moves(u, k)
    <3>1. Settling(u, k)
      BY <2>1, <2>3 DEF Settling
    <3> QED BY <1>1, <2>1, <2>3, <2>4, <2>6, <3>1 DEF Effect
  <2> QED BY <2>1, <2>5, <2>6
<1>10. CASE UploadAborts(u)
  <2>1. Moves(u, Stopped) /\ faults' = faults + 1 /\ UNCHANGED <<accepted, uploaded, lostLocks>>
    BY <1>10 DEF UploadAborts, Fault, Moves
  <2>2. Quiet(u, Stopped)
    BY <1>3, <2>1 DEF Quiet
  <2> QED BY <1>3, <2>1, <2>2 DEF Effect
<1> QED
  BY <1>4, <1>5, <1>6, <1>7, <1>8, <1>9, <1>10 DEF UploadStep

\* ... and every step of a CAPI job.
LEMMA UploaderTypes ==
  ASSUME TypeOK, NEW u \in Uploaders, UploadStep(u)
  PROVE  TypeOK'
<1>1. PICK k : Effect(u, k)
  BY UploaderEffect
<1>2. /\ uploader' \in [Uploaders -> UploaderRuns]
      /\ \A v \in Uploaders : uploader'[v].pc # "idle" => uploader'[v].lane > 0
  BY <1>1, UploaderMoves DEF Effect, Moves
<1>3. UNCHANGED <<stored, touched, early, outcome, resolver, lostLocks>>
  BY DEF UploadStep, UploadStart, Select, SendAccepted, SendRejected, SendFails, Mark, UploadAborts
<1>4. uploaded' \subseteq Items
  BY RunTypes DEF UploadStep, UploadStart, Select, SendAccepted, SendRejected, SendFails, Mark,
                  UploadAborts, TypeOK
<1>5. accepted' \in [Items -> Nat]
  BY AcceptedType DEF UploadStep, UploadStart, Select, SendAccepted, SendRejected, SendFails,
                      Mark, UploadAborts, TypeOK
<1>6. faults' \in 0..MaxFaults /\ lostLocks \in 0..faults'
  BY FaultType DEF UploadStep, UploadStart, Select, SendAccepted, SendRejected, SendFails,
                   Mark, UploadAborts, TypeOK
<1> QED BY <1>2, <1>3, <1>4, <1>5, <1>6 DEF TypeOK

\* An execution that loses its lock goes on as it was.
LEMMA StalledRun ==
  ASSUME TypeOK, NEW u \in Uploaders, LoseLock(u)
  PROVE  \E k \in UploaderRuns :
           /\ Moves(u, k) /\ k.stalled /\ k.pc # "idle" /\ Owner(u)
           /\ k.pc = uploader[u].pc /\ k.pending = uploader[u].pending
           /\ k.lane = uploader[u].lane
           /\ faults' = faults + 1 /\ lostLocks' = lostLocks + 1
           /\ UNCHANGED <<stored, touched, early, outcome, resolver, accepted, uploaded>>
<1> DEFINE k == [uploader[u] EXCEPT !.stalled = TRUE]
<1>1. uploader[u] \in UploaderRuns
  BY RunTypes
<1>2. /\ k \in UploaderRuns /\ k.stalled
      /\ k.pc = uploader[u].pc /\ k.pending = uploader[u].pending /\ k.lane = uploader[u].lane
  BY <1>1 DEF UploaderRuns
<1>3. Moves(u, k)
  BY DEF LoseLock, Moves
<1>4. Owner(u) /\ uploader[u].pc # "idle"
  BY DEF LoseLock, Owner
<1> HIDE DEF k
<1> QED BY <1>2, <1>3, <1>4 DEF LoseLock, Fault

\* ... and so does the loss of a lock.
LEMMA LoseLockTypes ==
  ASSUME TypeOK, NEW u \in Uploaders, LoseLock(u)
  PROVE  TypeOK'
<1>1. PICK k \in UploaderRuns :
        /\ Moves(u, k) /\ k.pc = uploader[u].pc /\ k.lane = uploader[u].lane
        /\ lostLocks' = lostLocks + 1
        /\ UNCHANGED <<stored, touched, early, outcome, resolver, accepted, uploaded>>
  BY StalledRun
<1>2. k.pc # "idle" => k.lane > 0
  BY <1>1 DEF TypeOK
<1>3. /\ uploader' \in [Uploaders -> UploaderRuns]
      /\ \A v \in Uploaders : uploader'[v].pc # "idle" => uploader'[v].lane > 0
  BY <1>1, <1>2, UploaderMoves DEF Moves
<1>4. faults' \in 0..MaxFaults /\ lostLocks' \in 0..faults'
  BY <1>1, FaultType DEF LoseLock
<1> QED BY <1>1, <1>3, <1>4 DEF TypeOK

\* TypeOK is inductive.
LEMMA TypeStep == TypeOK /\ [Next]_vars => TypeOK'
<1>1. TypeOK /\ UNCHANGED vars => TypeOK'
  BY DEF vars, TypeOK
<1> QED BY <1>1, WriterTypes, ResolverTypes, UploaderTypes, LoseLockTypes DEF Next

\* Every row, run and counter stays within its type; a batch is never tried a
\* third time in a run.
THEOREM TypeCorrect == Spec => []TypeOK
  BY TypeInit, TypeStep, PTL DEF Spec

-----------------------------------------------------------------------------
(* Attribution.                                                            *)

\* Only a resolver's write changes an outcome, and only from "none".
LEMMA OutcomeStep ==
  ASSUME TypeOK, [Next]_vars
  PROVE  \/ outcome' = outcome
         \/ \E r \in Resolvers :
               /\ ResolveWrite(r) /\ resolver[r].item \in Purchases
               /\ outcome[resolver[r].item] = "none"
               /\ outcome' = [outcome EXCEPT ![resolver[r].item] = resolver[r].found]
<1>1. ASSUME NEW r \in Resolvers, ResolveWrite(r), outcome' # outcome
      PROVE  /\ resolver[r].item \in Purchases /\ outcome[resolver[r].item] = "none"
             /\ outcome' = [outcome EXCEPT ![resolver[r].item] = resolver[r].found]
  BY <1>1, RunTypes DEF ResolveWrite
<1>2. ASSUME NEW r \in Resolvers, ResolveStep(r), ~ ResolveWrite(r)
      PROVE  outcome' = outcome
  BY <1>2 DEF ResolveStep, ResolveStart, ResolveRead, ResolveAborts
<1>3. ASSUME NEW u \in Uploaders, UploadStep(u)
      PROVE  outcome' = outcome
  BY <1>3 DEF UploadStep, UploadStart, Select, SendAccepted, SendRejected, SendFails, Mark,
              UploadAborts
<1>4. ASSUME NEW i \in Items, Ingest(i) \/ TouchArrives(i)
      PROVE  outcome' = outcome
  BY <1>4 DEF Ingest, TouchArrives
<1>5. ASSUME NEW u \in Uploaders, LoseLock(u)
      PROVE  outcome' = outcome
  BY <1>5 DEF LoseLock
<1> QED BY <1>1, <1>2, <1>3, <1>4, <1>5 DEF Next, vars

\* Two resolver runs may hold the same purchase, one of them with a stale view
\* of its touches; the attribution written first is the one that stays.
THEOREM AttributionIsFinal == Spec => AttributionFinal
<1>1. TypeOK /\ [Next]_vars => [\A i \in Purchases : outcome[i] # "none" => outcome'[i] = outcome[i]]_vars
  <2> SUFFICES ASSUME TypeOK, [Next]_vars, NEW i \in Purchases, outcome[i] # "none"
               PROVE  outcome'[i] = outcome[i]
    OBVIOUS
  <2> QED BY OutcomeStep DEF TypeOK
<1> QED BY <1>1, TypeCorrect, PTL DEF Spec, AttributionFinal

\* Nothing is stored or resolved initially.
LEMMA ResolverInvInit == Init => ResolverInv
  BY ItemsAssumption DEF Init, ResolverInv, EarlyTouchAttributed, Resting

\* A new row is unresolved and in no run; a late touch makes no purchase early.
LEMMA WriterKeepsResolverInv ==
  ASSUME TypeOK, ResolverInv, NEW i \in Items, Ingest(i) \/ TouchArrives(i)
  PROVE  ResolverInv'
<1>1. CASE Ingest(i)
  <2>1. stored' = stored \cup {i} /\ i \notin stored /\ UNCHANGED <<outcome, resolver>>
    BY <1>1 DEF Ingest
  <2>2. early' \subseteq early \cup {i} /\ early' \subseteq Purchases
    BY <1>1 DEF Ingest, TypeOK
  <2>3. i \in Purchases => outcome[i] = "none"
    BY <2>1 DEF ResolverInv
  <2>4. i # NoItem
    BY ItemsAssumption
  <2> QED BY <2>1, <2>2, <2>3, <2>4 DEF ResolverInv, EarlyTouchAttributed
<1>2. CASE TouchArrives(i)
  BY <1>2 DEF TouchArrives, ResolverInv, EarlyTouchAttributed
<1> QED BY <1>1, <1>2

\* A resolver run takes up record k, which is about stored items and has seen
\* the touches that were there before them.
LEMMA ResolverInvMoves ==
  ASSUME TypeOK, ResolverInv, NEW r \in Resolvers, NEW k,
         resolver' = [resolver EXCEPT ![r] = k], UNCHANGED <<stored, early, outcome>>,
         k.todo \subseteq stored, k.item \in stored \cup {NoItem},
         k.item \in early => k.found = "touch"
  PROVE  ResolverInv'
BY DEF TypeOK, ResolverInv, EarlyTouchAttributed

\* A resolver run reads and writes only what it has snapshot.
LEMMA ResolverKeepsResolverInv ==
  ASSUME TypeOK, ResolverInv, NEW r \in Resolvers, ResolveStep(r)
  PROVE  ResolverInv'
<1>1. NoItem \notin early /\ early \subseteq touched
  BY ItemsAssumption DEF TypeOK, Purchases
<1>2. CASE ResolveStart(r)
  <2>1. PICK todo \in SUBSET stored : resolver' = [resolver EXCEPT ![r].todo = todo]
    BY <1>2 DEF ResolveStart
  <2> DEFINE k == [resolver[r] EXCEPT !.todo = todo]
  <2>2. k.todo = todo /\ k.item = resolver[r].item /\ k.found = resolver[r].found
    BY RunTypes DEF ResolverRuns
  <2>3. resolver' = [resolver EXCEPT ![r] = k]
    BY <2>1
  <2>4. k.item \in early => k.found = "touch"
    BY <2>2 DEF ResolverInv
  <2>5. k.item \in stored \cup {NoItem}
    BY <2>2 DEF ResolverInv
  <2> HIDE DEF k
  <2> QED BY <1>2, <2>2, <2>3, <2>4, <2>5, ResolverInvMoves DEF ResolveStart
<1>3. CASE ResolveRead(r)
  <2>1. PICK i \in resolver[r].todo :
           resolver' = [resolver EXCEPT
              ![r] = [@ EXCEPT !.item = i,
                               !.found = IF i \in touched THEN "touch" ELSE "no_touch"]]
    BY <1>3 DEF ResolveRead
  <2> DEFINE k == [resolver[r] EXCEPT !.item = i,
                      !.found = IF i \in touched THEN "touch" ELSE "no_touch"]
  <2>2. /\ k.todo = resolver[r].todo /\ k.item = i
        /\ k.found = IF i \in touched THEN "touch" ELSE "no_touch"
    BY RunTypes DEF ResolverRuns
  <2>3. resolver' = [resolver EXCEPT ![r] = k]
    BY <2>1
  <2>4. i \in stored /\ resolver[r].todo \subseteq stored
    BY DEF ResolverInv
  <2> HIDE DEF k
  <2> QED BY <1>1, <1>3, <2>2, <2>3, <2>4, ResolverInvMoves DEF ResolveRead
<1>4. CASE ResolveWrite(r)
  <2> DEFINE it == resolver[r].item
  <2>1. /\ it \in Purchases /\ it \in stored
        /\ it \in early => resolver[r].found = "touch"
    BY <1>4, RunTypes DEF ResolveWrite, ResolverInv
  <2>2. outcome' = outcome \/ outcome' = [outcome EXCEPT ![it] = resolver[r].found]
    BY <1>4 DEF ResolveWrite
  <2>3. stored' = stored /\ early' = early
    BY <1>4 DEF ResolveWrite
  <2>4. /\ \A j \in Purchases : outcome'[j] # "none" => j \in stored'
        /\ \A j \in early' : outcome'[j] \in {"none", "touch"}
    BY <2>1, <2>2, <2>3 DEF TypeOK, ResolverInv, EarlyTouchAttributed
  <2>5. \A s \in Resolvers :
           /\ resolver'[s].todo \subseteq stored'
           /\ resolver'[s].item \in stored' \cup {NoItem}
           /\ resolver'[s].item \in early' => resolver'[s].found = "touch"
    BY <1>1, <1>4, <2>3 DEF ResolveWrite, NextItem, ResolverInv, TypeOK
  <2> QED BY <2>4, <2>5 DEF ResolverInv, EarlyTouchAttributed
<1>5. CASE ResolveAborts(r)
  <2>1. Resting.todo = {} /\ Resting.item = NoItem
    BY DEF Resting
  <2>2. resolver' = [resolver EXCEPT ![r] = Resting] /\ UNCHANGED <<stored, early, outcome>>
    BY <1>5 DEF ResolveAborts
  <2> HIDE DEF Resting
  <2> QED BY <1>1, <2>1, <2>2, ResolverInvMoves
<1> QED BY <1>2, <1>3, <1>4, <1>5 DEF ResolveStep

\* A CAPI job touches nothing the resolver depends on.
LEMMA UploaderKeepsResolverInv ==
  ASSUME ResolverInv, NEW u \in Uploaders, UploadStep(u) \/ LoseLock(u)
  PROVE  ResolverInv'
<1>1. UNCHANGED <<stored, early, outcome, resolver>>
  BY DEF UploadStep, UploadStart, Select, SendAccepted, SendRejected, SendFails, Mark,
         UploadAborts, LoseLock
<1> QED BY <1>1 DEF ResolverInv, EarlyTouchAttributed

\* ResolverInv is inductive relative to TypeOK.
LEMMA ResolverInvStep == TypeOK /\ ResolverInv /\ [Next]_vars => ResolverInv'
<1>1. ResolverInv /\ UNCHANGED vars => ResolverInv'
  BY DEF vars, ResolverInv, EarlyTouchAttributed
<1> QED
  BY <1>1, WriterKeepsResolverInv, ResolverKeepsResolverInv, UploaderKeepsResolverInv DEF Next

\* Resolver runs hold stored purchases only, and a run that holds an early
\* purchase has found its touch.
THEOREM ResolverInvariant == Spec => []ResolverInv
  BY TypeCorrect, ResolverInvInit, ResolverInvStep, PTL DEF Spec

\* A purchase is attributed to the touch that was there before it, whatever
\* runs overlap, fail or work from an old snapshot.
THEOREM EarlyTouchIsFound == Spec => []EarlyTouchAttributed
<1>1. ResolverInv => EarlyTouchAttributed
  BY DEF ResolverInv
<1> QED BY <1>1, ResolverInvariant, PTL

-----------------------------------------------------------------------------
(* Uploads, however many executions overlap.                               *)

\* What may be sent stays so, whatever writers and resolvers do.
LEMMA OfferedGrows ==
  ASSUME TypeOK, [Next]_vars
  PROVE  Offered \subseteq Offered'
<1>1. stored \subseteq stored'
  BY DEF Next, vars, Ingest, TouchArrives, ResolveStep, ResolveStart, ResolveRead, ResolveWrite,
         ResolveAborts, UploadStep, UploadStart, Select, SendAccepted, SendRejected, SendFails,
         Mark, UploadAborts, LoseLock
<1>2. \A i \in Purchases : outcome[i] # "none" => outcome'[i] # "none"
  BY OutcomeStep DEF TypeOK
<1> QED BY <1>1, <1>2 DEF Offered, Purchases, TypeOK

\* A CAPI job neither stores nor resolves.
LEMMA UploadFrame ==
  ASSUME NEW u \in Uploaders, UploadStep(u) \/ LoseLock(u)
  PROVE  UNCHANGED <<stored, touched, early, outcome, resolver>> /\ Offered' = Offered
<1>1. UNCHANGED <<stored, touched, early, outcome, resolver>>
  BY DEF UploadStep, UploadStart, Select, SendAccepted, SendRejected, SendFails, Mark,
         UploadAborts, LoseLock
<1> QED BY <1>1 DEF Offered

\* Writers and resolvers leave the executions and their counters alone.
LEMMA OthersFrame ==
  ASSUME [Next]_vars, ~ \E u \in Uploaders : UploadStep(u) \/ LoseLock(u)
  PROVE  /\ UNCHANGED <<accepted, uploaded, uploader, lostLocks>>
         /\ faults' = faults \/ faults' = faults + 1
BY DEF Next, vars, Ingest, TouchArrives, ResolveStep, ResolveStart, ResolveRead, ResolveWrite,
       ResolveAborts, Fault

\* The records after a move.
LEMMA Moved ==
  ASSUME TypeOK, NEW u \in Uploaders, NEW k, Moves(u, k)
  PROVE  /\ uploader'[u] = k
         /\ \A v \in Uploaders \ {u} : uploader'[v] = uploader[v]
BY DEF TypeOK, Moves

\* LockInv survives a lawful move, and the loss of a lock.
LEMMA LockStep ==
  ASSUME TypeOK, LockInv, NEW u \in Uploaders, NEW k, Moves(u, k),
         k.pc \in {"idle", "select"} => k.pending = {},
         k.stalled => k.pc # "idle" /\ lostLocks' > 0,
         k.pc # "idle" /\ ~ k.stalled => Owner(u) \/ \A v \in Uploaders : ~ Owner(v),
         lostLocks > 0 => lostLocks' > 0
  PROVE  LockInv'
<1>1. uploader'[u] = k /\ \A v \in Uploaders \ {u} : uploader'[v] = uploader[v]
  BY Moved
<1>2. ASSUME NEW v \in Uploaders, NEW w \in Uploaders, Owner(v)', Owner(w)'
      PROVE  v = w
  BY <1>1, <1>2 DEF LockInv, Owner
<1>3. ASSUME NEW v \in Uploaders
      PROVE  /\ uploader'[v].stalled => uploader'[v].pc # "idle" /\ lostLocks' > 0
             /\ uploader'[v].pc \in {"idle", "select"} => uploader'[v].pending = {}
  BY <1>1 DEF LockInv
<1> HIDE DEF Owner
<1> QED BY <1>2, <1>3 DEF LockInv

\* LockInv is inductive relative to TypeOK.
LEMMA LockInvStep ==
  ASSUME TypeOK, LockInv, [Next]_vars
  PROVE  LockInv'
<1>1. ASSUME NEW u \in Uploaders, UploadStep(u)
      PROVE  LockInv'
  <2>1. PICK k : Effect(u, k)
    BY <1>1, UploaderEffect
  <2>2. lostLocks' = lostLocks
    BY <2>1 DEF Effect, Quiet, Accepting, Settling
  <2>3. k.stalled => k.pc # "idle" /\ lostLocks' > 0
    BY <2>1, <2>2 DEF Effect, Lawful, LockInv
  <2> QED BY <2>1, <2>2, <2>3, LockStep DEF Effect, Lawful
<1>2. ASSUME NEW u \in Uploaders, LoseLock(u)
      PROVE  LockInv'
  <2>1. PICK k : /\ Moves(u, k) /\ k.stalled /\ k.pc # "idle"
                 /\ k.pc = uploader[u].pc /\ k.pending = uploader[u].pending
                 /\ lostLocks' = lostLocks + 1
    BY <1>2, StalledRun
  <2>2. lostLocks' > 0
    BY <2>1, FaultType
  <2>3. k.pc \in {"idle", "select"} => k.pending = {}
    BY <2>1 DEF LockInv
  <2> QED BY <2>1, <2>2, <2>3, LockStep
<1>3. CASE ~ \E u \in Uploaders : UploadStep(u) \/ LoseLock(u)
  BY <1>3, OthersFrame DEF LockInv, Owner
<1> QED BY <1>1, <1>2, <1>3

\* While no lock has been lost, an execution in progress is alone.
LEMMA AloneWithoutLoss ==
  ASSUME LockInv, lostLocks = 0, NEW u \in Uploaders, uploader[u].pc # "idle",
         NEW v \in Uploaders \ {u}
  PROVE  uploader[v].pc = "idle" /\ uploader[v].pending = {}
BY DEF LockInv, Owner

\* What an execution marks it holds.
LEMMA MarkingHeld ==
  ASSUME TypeOK, NEW u \in Uploaders, NEW i, Marking(u, i)
  PROVE  i \in uploader[u].pending /\ i \in Items /\ uploader[u].pc = "mark"
BY RunTypes DEF Marking

\* Whom a move leaves marking what.
LEMMA MarkingMoved ==
  ASSUME TypeOK, NEW u \in Uploaders, NEW k, Moves(u, k)
  PROVE  /\ \A v \in Uploaders \ {u} : \A i : Marking(v, i)' <=> Marking(v, i)
         /\ \A i : Marking(u, i)' <=> k.pc = "mark" /\ i \in ThisBatch(k)
BY Moved DEF Marking, ThisBatch

\* HoldingInv after each form of a step.
LEMMA HoldingQuiet ==
  ASSUME TypeOK, LockInv, HoldingInv, NEW u \in Uploaders, NEW k, Moves(u, k), Quiet(u, k),
         Offered' = Offered
  PROVE  HoldingInv'
<1>1. uploader'[u] = k /\ \A v \in Uploaders \ {u} : uploader'[v] = uploader[v]
  BY Moved
<1>2. /\ k.pending \subseteq Offered
      /\ lostLocks = 0 => k.pending \cap uploaded = {}
  BY DEF Quiet, Selectable, HoldingInv
<1>3. \A v \in Uploaders : /\ uploader'[v].pending \subseteq Offered'
                           /\ lostLocks' = 0 => uploader'[v].pending \cap uploaded' = {}
  BY <1>1, <1>2 DEF HoldingInv, Quiet
<1>4. \A v \in Uploaders : \A i \in Items : Marking(v, i)' => accepted'[i] > 0
  BY MarkingMoved DEF Quiet, HoldingInv
<1>5. \A i \in uploaded' : accepted'[i] > 0
  BY DEF Quiet, HoldingInv
<1> QED BY <1>3, <1>4, <1>5 DEF HoldingInv

LEMMA HoldingAccepting ==
  ASSUME TypeOK, LockInv, HoldingInv, NEW u \in Uploaders, NEW k, Moves(u, k), Accepting(u, k),
         Offered' = Offered
  PROVE  HoldingInv'
<1> DEFINE batch == ThisBatch(uploader[u])
<1>1. uploader'[u] = k /\ \A v \in Uploaders \ {u} : uploader'[v] = uploader[v]
  BY Moved
<1>2. \A v \in Uploaders : /\ uploader'[v].pending \subseteq Offered'
                           /\ lostLocks' = 0 => uploader'[v].pending \cap uploaded' = {}
  BY <1>1 DEF HoldingInv, Accepting
<1>3. \A i \in Items : accepted[i] \in Nat
  BY DEF TypeOK
<1>4. \A i \in Items : accepted'[i] = IF i \in batch THEN accepted[i] + 1 ELSE accepted[i]
  BY DEF Accepting, Accepted
<1>5. \A i \in Items : (i \in batch => accepted'[i] > 0) /\ (accepted[i] > 0 => accepted'[i] > 0)
  BY <1>3, <1>4
<1>6. k.pc = "mark" => ThisBatch(k) = batch
  BY DEF Accepting, ThisBatch
<1>7. \A v \in Uploaders : \A i \in Items : Marking(v, i)' => accepted'[i] > 0
  BY <1>5, <1>6, MarkingMoved DEF HoldingInv
<1>8. \A i \in uploaded' : accepted'[i] > 0
  <2>1. uploaded' = uploaded /\ uploaded \subseteq Items
    BY DEF Accepting, TypeOK
  <2> QED BY <1>5, <2>1 DEF HoldingInv
<1> QED BY <1>2, <1>7, <1>8 DEF HoldingInv

LEMMA HoldingSettling ==
  ASSUME TypeOK, LockInv, HoldingInv, NEW u \in Uploaders, NEW k, Moves(u, k), Settling(u, k),
         Offered' = Offered
  PROVE  HoldingInv'
<1> DEFINE batch == ThisBatch(uploader[u])
<1>1. uploader'[u] = k /\ \A v \in Uploaders \ {u} : uploader'[v] = uploader[v]
  BY Moved
<1>2. /\ uploader[u].pc = "mark" /\ k.pending = uploader[u].pending \ batch
      /\ uploaded' = uploaded \cup batch /\ UNCHANGED <<accepted, lostLocks>> /\ k.pc # "mark"
  BY DEF Settling
<1>3. ASSUME NEW v \in Uploaders
      PROVE  /\ uploader'[v].pending \subseteq Offered'
             /\ lostLocks' = 0 => uploader'[v].pending \cap uploaded' = {}
  <2>1. CASE v = u
    BY <1>1, <1>2, <2>1 DEF HoldingInv
  <2>2. CASE v # u
    <3>1. lostLocks = 0 => uploader[v].pending = {}
      BY <1>2, <2>2, AloneWithoutLoss
    <3> QED BY <1>1, <1>2, <2>2, <3>1 DEF HoldingInv
  <2> QED BY <2>1, <2>2
<1>4. \A i \in batch : i \in Items /\ Marking(u, i)
  BY <1>2, RunTypes DEF Marking
<1>5. \A i \in uploaded' : accepted'[i] > 0
  BY <1>2, <1>4 DEF HoldingInv
<1>6. \A v \in Uploaders : \A i \in Items : Marking(v, i)' => accepted'[i] > 0
  BY <1>2, MarkingMoved DEF HoldingInv
<1> QED BY <1>3, <1>5, <1>6 DEF HoldingInv

\* HoldingInv is inductive relative to TypeOK and LockInv.
LEMMA HoldingInvStep ==
  ASSUME TypeOK, LockInv, HoldingInv, [Next]_vars
  PROVE  HoldingInv'
<1>1. ASSUME NEW u \in Uploaders, UploadStep(u)
      PROVE  HoldingInv'
  <2>1. Offered' = Offered
    BY <1>1, UploadFrame
  <2>2. PICK k : Effect(u, k)
    BY <1>1, UploaderEffect
  <2> QED BY <2>1, <2>2, HoldingQuiet, HoldingAccepting, HoldingSettling DEF Effect
<1>2. ASSUME NEW u \in Uploaders, LoseLock(u)
      PROVE  HoldingInv'
  <2>1. Offered' = Offered
    BY <1>2, UploadFrame
  <2>2. PICK k : /\ Moves(u, k) /\ k.pc = uploader[u].pc /\ k.pending = uploader[u].pending
                 /\ lostLocks' = lostLocks + 1 /\ UNCHANGED <<accepted, uploaded>>
    BY <1>2, StalledRun
  <2>3. uploader'[u] = k /\ \A v \in Uploaders \ {u} : uploader'[v] = uploader[v]
    BY <2>2, Moved
  <2>4. \A v \in Uploaders : /\ uploader'[v].pending \subseteq Offered'
                             /\ lostLocks' = 0 => uploader'[v].pending \cap uploaded' = {}
    <3>1. lostLocks' # 0
      BY <2>2, FaultType
    <3> QED BY <2>1, <2>2, <2>3, <3>1 DEF HoldingInv
  <2>5. \A v \in Uploaders : \A i : Marking(v, i)' <=> Marking(v, i)
    <3>1. ThisBatch(k) = ThisBatch(uploader[u])
      BY <2>2 DEF ThisBatch
    <3> QED BY <2>2, <3>1, MarkingMoved DEF Marking
  <2> QED BY <2>2, <2>4, <2>5 DEF HoldingInv
<1>3. CASE ~ \E u \in Uploaders : UploadStep(u) \/ LoseLock(u)
  <2>1. UNCHANGED <<accepted, uploaded, uploader, lostLocks>>
    BY <1>3, OthersFrame
  <2>2. Offered \subseteq Offered'
    BY OfferedGrows
  <2>3. \A v \in Uploaders : \A i : Marking(v, i)' <=> Marking(v, i)
    BY <2>1 DEF Marking
  <2> QED BY <2>1, <2>2, <2>3 DEF HoldingInv
<1> QED BY <1>1, <1>2, <1>3

-----------------------------------------------------------------------------
(* Counting the sends of an item.                                          *)

\* Sets of executions are finite; the three facts about their sizes used here.
LEMMA Sizes ==
  ASSUME NEW S \in SUBSET Uploaders, NEW T \in SUBSET Uploaders, NEW x
  PROVE  /\ Cardinality(S) \in Nat /\ Cardinality(T) \in Nat
         /\ T \subseteq S => Cardinality(T) <= Cardinality(S)
         /\ T \subseteq S \cup {x} => Cardinality(T) <= Cardinality(S) + 1
         /\ x \in S /\ T \subseteq S \ {x} => Cardinality(T) + 1 <= Cardinality(S)
<1>1. IsFiniteSet(S) /\ IsFiniteSet(T)
  BY ItemsAssumption, FS_Subset
<1>2. /\ Cardinality(S) \in Nat /\ Cardinality(T) \in Nat
      /\ IsFiniteSet(S \cup {x}) /\ IsFiniteSet(S \ {x})
      /\ Cardinality(S \cup {x}) \in Nat /\ Cardinality(S \ {x}) \in Nat
  BY <1>1, FS_CardinalityType, FS_AddElement, FS_RemoveElement
<1>3. T \subseteq S => Cardinality(T) <= Cardinality(S)
  BY <1>1, FS_Subset
<1>4. T \subseteq S \cup {x} => Cardinality(T) <= Cardinality(S \cup {x})
  BY <1>2, FS_Subset
<1>5. T \subseteq S \ {x} => Cardinality(T) <= Cardinality(S \ {x})
  BY <1>2, FS_Subset
<1>6. Cardinality(S \cup {x}) = IF x \in S THEN Cardinality(S) ELSE Cardinality(S) + 1
  BY <1>1, FS_AddElement
<1>7. Cardinality(S \ {x}) = IF x \in S THEN Cardinality(S) - 1 ELSE Cardinality(S)
  BY <1>1, FS_RemoveElement
<1>8. Cardinality(S \cup {x}) <= Cardinality(S) + 1
  BY ONLY <1>2, <1>6
<1>9. x \in S => Cardinality(S \ {x}) + 1 = Cardinality(S)
  BY ONLY <1>2, <1>7
<1>10. T \subseteq S \cup {x} => Cardinality(T) <= Cardinality(S) + 1
  BY ONLY <1>2, <1>4, <1>8
<1>11. x \in S /\ T \subseteq S \ {x} => Cardinality(T) + 1 <= Cardinality(S)
  BY ONLY <1>2, <1>5, <1>9
<1> QED BY <1>2, <1>3, <1>10, <1>11

\* The balance of an item: a sends, S late ones to come, r a regular one, f faults.
Balanced(a, S, r, f) == a + Cardinality(S) <= IF r THEN 1 + f ELSE f

\* What may happen to it in a step of execution x: nothing but fewer late sends
\* or a fault; a lock lost; a late send; the regular one; one whose answer is
\* lost; a mark by a late one, which leaves the regular one late.
Permitted(a, S, r, f, b, T, q, g, x) ==
    \/ b = a /\ T \subseteq S /\ (g = f \/ g = f + 1) /\ (r => q)
    \/ b = a /\ T \subseteq S /\ g = f + 1
    \/ b = a /\ T \subseteq S \cup {x} /\ g = f + 1 /\ (r => q)
    \/ b = a + 1 /\ x \in S /\ T \subseteq S \ {x} /\ g = f /\ (r => q)
    \/ b = a + 1 /\ T \subseteq S /\ g = f /\ ~ r /\ q
    \/ b = a + 1 /\ T \subseteq S /\ g = f + 1 /\ (r => q)
    \/ b = a /\ T \subseteq S \cup {x} /\ g = f /\ ~ r /\ q

\* Every change permitted keeps the balance.
LEMMA BalanceKept ==
  ASSUME NEW a \in Nat, NEW b \in Nat, NEW f \in Nat, NEW g \in Nat,
         NEW S \in SUBSET Uploaders, NEW T \in SUBSET Uploaders,
         NEW r \in BOOLEAN, NEW q \in BOOLEAN, NEW x,
         Balanced(a, S, r, f), Permitted(a, S, r, f, b, T, q, g, x)
  PROVE  Balanced(b, T, q, g)
<1> DEFINE c == Cardinality(S)
           d == Cardinality(T)
<1>1. /\ c \in Nat /\ d \in Nat
      /\ T \subseteq S => d <= c
      /\ T \subseteq S \cup {x} => d <= c + 1
      /\ x \in S /\ T \subseteq S \ {x} => d + 1 <= c
  BY Sizes
<1>2. a + c <= IF r THEN 1 + f ELSE f
  BY DEF Balanced
<1>3. \/ b = a /\ d <= c /\ (g = f \/ g = f + 1) /\ (r => q)
      \/ b = a /\ d <= c /\ g = f + 1
      \/ b = a /\ d <= c + 1 /\ g = f + 1 /\ (r => q)
      \/ b = a + 1 /\ d + 1 <= c /\ g = f /\ (r => q)
      \/ b = a + 1 /\ d <= c /\ g = f /\ ~ r /\ q
      \/ b = a + 1 /\ d <= c /\ g = f + 1 /\ (r => q)
      \/ b = a /\ d <= c + 1 /\ g = f /\ ~ r /\ q
  BY <1>1 DEF Permitted
<1> HIDE DEF c, d
<1>4. b + d <= IF q THEN 1 + g ELSE g
  BY ONLY <1>1, <1>2, <1>3, a \in Nat, b \in Nat, f \in Nat, g \in Nat, r \in BOOLEAN, q \in BOOLEAN
<1> USE DEF c, d
<1> QED BY <1>4 DEF Balanced

\* The change of item i in a step: for some x it is permitted.
Change(i) ==
    \E x : Permitted(accepted[i], Late(i), Regular(i), faults,
                     accepted'[i], Late(i)', Regular(i)', faults', x)

\* It is enough that the change of each item is permitted.
LEMMA SendsKept ==
  ASSUME TypeOK, TypeOK', SendsCostFaults, \A i \in Items : Change(i)
  PROVE  SendsCostFaults'
<1> SUFFICES ASSUME NEW i \in Items
             PROVE  Balanced(accepted'[i], Late(i)', Regular(i)', faults')
  BY DEF SendsCostFaults, Balanced
<1>1. accepted[i] \in Nat /\ accepted'[i] \in Nat /\ faults \in Nat /\ faults' \in Nat
  BY ItemsAssumption DEF TypeOK
<1>2. Late(i) \in SUBSET Uploaders /\ Late(i)' \in SUBSET Uploaders
  BY DEF Late
<1>3. Regular(i) \in BOOLEAN /\ Regular(i)' \in BOOLEAN
  BY DEF Regular
<1>4. Balanced(accepted[i], Late(i), Regular(i), faults)
  BY DEF SendsCostFaults, Balanced
<1>5. Change(i)
  OBVIOUS
<1> HIDE DEF Late, Regular
<1> QED BY <1>1, <1>2, <1>3, <1>4, <1>5, BalanceKept DEF Change

\* A late execution is one that holds the item, or that is stalled.
LEMMA LateIs ==
  ASSUME NEW i, NEW v
  PROVE  /\ i \in uploaded => (v \in Late(i) <=> /\ v \in Uploaders /\ i \in uploader[v].pending
                                                 /\ ~ Marking(v, i))
         /\ i \notin uploaded => (v \in Late(i) <=> /\ v \in Uploaders /\ uploader[v].stalled
                                                    /\ ~ Marking(v, i))
         /\ i \in uploaded' => (v \in Late(i)' <=> /\ v \in Uploaders /\ i \in uploader'[v].pending
                                                   /\ ~ Marking(v, i)')
         /\ i \notin uploaded' => (v \in Late(i)' <=> /\ v \in Uploaders /\ uploader'[v].stalled
                                                      /\ ~ Marking(v, i)')
BY DEF Late

\* Whoever else was about to mark still is.
LEMMA RegularMoved ==
  ASSUME TypeOK, NEW u \in Uploaders, NEW k, Moves(u, k), uploaded \subseteq uploaded', NEW i,
         Regular(i)
  PROVE  Regular(i)' \/ (Owner(u) /\ Marking(u, i) /\ i \notin uploaded)
<1>1. \A v \in Uploaders \ {u} : uploader'[v] = uploader[v] /\ (Marking(v, i)' <=> Marking(v, i))
  BY Moved, MarkingMoved
<1>2. ASSUME NEW v \in Uploaders, Owner(v), Marking(v, i), v # u
      PROVE  Regular(i)'
  <2>1. Owner(v)' /\ Marking(v, i)'
    BY <1>1, <1>2 DEF Owner
  <2> QED BY <2>1 DEF Regular
<1>3. i \in uploaded => Regular(i)'
  BY DEF Regular
<1> QED BY <1>2, <1>3 DEF Regular

\* First form: late executions may give up, no others come without a fault.
LEMMA QuietChange ==
  ASSUME TypeOK, NEW u \in Uploaders, NEW k, Moves(u, k), Lawful(u, k), Quiet(u, k), NEW i \in Items
  PROVE  Change(i)
<1>1. /\ uploader'[u] = k /\ ~ Marking(u, i)'
      /\ \A v \in Uploaders \ {u} : uploader'[v] = uploader[v] /\ (Marking(v, i)' <=> Marking(v, i))
  BY Moved, MarkingMoved DEF Quiet
<1>2. uploaded' = uploaded /\ accepted'[i] = accepted[i]
  BY DEF Quiet
<1>3. uploader[u].pc # "mark" => ~ Marking(u, i)
  BY DEF Marking
<1>4. ASSUME NEW v \in Late(i)', v # u
      PROVE  v \in Late(i)
  BY <1>1, <1>2, <1>4, LateIs
<1>5. u \in Late(i)' => u \in Late(i) \/ Marking(u, i)
  <2>1. CASE i \in uploaded
    BY <1>1, <1>2, <2>1, LateIs DEF Quiet, Selectable
  <2>2. CASE i \notin uploaded
    BY <1>1, <1>2, <2>2, LateIs DEF Lawful
  <2> QED BY <2>1, <2>2
<1>6. CASE ~ Marking(u, i)
  <2>1. Late(i)' \subseteq Late(i)
    BY <1>4, <1>5, <1>6
  <2>2. Regular(i) => Regular(i)'
    BY <1>2, <1>6, RegularMoved
  <2>3. faults' = faults \/ faults' = faults + 1
    BY DEF Quiet
  <2> QED BY <1>2, <2>1, <2>2, <2>3 DEF Change, Permitted
<1>7. CASE Marking(u, i)
  <2>1. uploader[u].pc = "mark" /\ faults' = faults + 1
    BY <1>3, <1>7 DEF Quiet
  <2>2. CASE u \notin Late(i)'
    <3>1. Late(i)' \subseteq Late(i)
      BY <1>4, <2>2
    <3> QED BY <1>2, <2>1, <3>1 DEF Change, Permitted
  <2>3. CASE u \in Late(i)'
    <3>1. Late(i)' \subseteq Late(i) \cup {u}
      BY <1>4
    <3>2. i \in uploaded => k.pending = {}
      BY <2>1 DEF Quiet
    <3>3. i \notin uploaded
      BY <1>1, <1>2, <2>3, <3>2, LateIs
    <3>4. k.stalled
      BY <1>1, <1>2, <2>3, <3>3, LateIs
    <3>5. ~ Owner(u)
      BY <3>4 DEF Lawful, Owner
    <3>6. Regular(i) => Regular(i)'
      BY <1>2, <3>5, RegularMoved
    <3> QED BY <1>2, <2>1, <3>1, <3>6 DEF Change, Permitted
  <2> QED BY <2>2, <2>3
<1> QED BY <1>6, <1>7

\* Second form: the send is the regular one, a late one, or has its answer lost.
LEMMA AcceptingChange ==
  ASSUME TypeOK, LockInv, NEW u \in Uploaders, NEW k, Moves(u, k), Lawful(u, k), Accepting(u, k),
         NEW i \in Items
  PROVE  Change(i)
<1> DEFINE batch == ThisBatch(uploader[u])
<1>1. /\ uploader'[u] = k /\ (Marking(u, i)' <=> k.pc = "mark" /\ i \in ThisBatch(k))
      /\ \A v \in Uploaders \ {u} : uploader'[v] = uploader[v] /\ (Marking(v, i)' <=> Marking(v, i))
  BY Moved, MarkingMoved
<1>2. /\ uploader[u].pc = "send" /\ uploaded' = uploaded /\ ~ Marking(u, i)
      /\ accepted'[i] = IF i \in batch THEN accepted[i] + 1 ELSE accepted[i]
      /\ i \in batch => i \in uploader[u].pending
  BY RunTypes DEF Accepting, Accepted, Marking
<1>3. k.pending = uploader[u].pending \/ k.pending = {}
  BY DEF Accepting
<1>4. k.stalled => uploader[u].stalled
  BY DEF Lawful
<1>5. Regular(i) => Regular(i)'
  BY <1>2, RegularMoved
<1>6. Late(i)' \subseteq Late(i)
  <2> SUFFICES ASSUME NEW v \in Late(i)' PROVE v \in Late(i)
    OBVIOUS
  <2>1. CASE v = u
    <3>1. CASE i \in uploaded
      BY <1>1, <1>2, <1>3, <2>1, <3>1, LateIs
    <3>2. CASE i \notin uploaded
      BY <1>1, <1>2, <1>4, <2>1, <3>2, LateIs
    <3> QED BY <3>1, <3>2
  <2>2. CASE v # u
    BY <1>1, <1>2, <2>2, LateIs
  <2> QED BY <2>1, <2>2
<1>7. CASE k.pc # "mark"
  <2>1. faults' = faults + 1
    BY <1>7 DEF Accepting
  <2> HIDE DEF batch
  <2> QED BY <1>2, <1>5, <1>6, <2>1 DEF Change, Permitted
<1>8. CASE k.pc = "mark" /\ i \notin batch
  <2>1. faults' = faults
    BY <1>8 DEF Accepting
  <2> QED BY <1>2, <1>5, <1>6, <1>8, <2>1 DEF Change, Permitted
<1>9. CASE k.pc = "mark" /\ i \in batch
  <2>1. /\ faults' = faults /\ accepted'[i] = accepted[i] + 1
        /\ k.pending = uploader[u].pending /\ k.stalled = uploader[u].stalled
    BY <1>2, <1>9 DEF Accepting
  <2>2. Marking(u, i)'
    BY <1>1, <1>9, <2>1 DEF ThisBatch
  <2>3. Late(i)' \subseteq Late(i) \ {u}
    BY <1>6, <2>2, LateIs
  <2>4. CASE i \in uploaded \/ uploader[u].stalled
    <3>1. u \in Late(i)
      BY <1>2, <1>9, <2>4, LateIs
    <3> QED BY <1>5, <2>1, <2>3, <3>1 DEF Change, Permitted
  <2>5. CASE i \notin uploaded /\ ~ uploader[u].stalled
    <3>1. Owner(u) /\ Owner(u)'
      BY <1>1, <1>2, <1>9, <2>1, <2>5 DEF Owner
    <3>2. ~ Regular(i)
      BY <1>2, <2>5, <3>1 DEF Regular, LockInv
    <3>3. Regular(i)'
      BY <2>2, <3>1 DEF Regular
    <3> QED BY <1>6, <2>1, <3>2, <3>3 DEF Change, Permitted
  <2> QED BY <2>4, <2>5
<1> QED BY <1>7, <1>8, <1>9

\* Third form: the mark of a stalled execution makes the one with the lock late.
LEMMA SettlingChange ==
  ASSUME TypeOK, LockInv, NEW u \in Uploaders, NEW k, Moves(u, k), Lawful(u, k), Settling(u, k),
         NEW i \in Items
  PROVE  Change(i)
<1> DEFINE batch == ThisBatch(uploader[u])
<1>1. /\ uploader'[u] = k /\ ~ Marking(u, i)'
      /\ \A v \in Uploaders \ {u} : uploader'[v] = uploader[v] /\ (Marking(v, i)' <=> Marking(v, i))
  BY Moved, MarkingMoved DEF Settling
<1>2. /\ uploader[u].pc = "mark" /\ k.pending = uploader[u].pending \ batch
      /\ uploaded' = uploaded \cup batch /\ accepted'[i] = accepted[i] /\ faults' = faults
      /\ Marking(u, i) <=> i \in batch
  BY DEF Settling, Marking
<1>3. k.stalled => uploader[u].stalled
  BY DEF Lawful
<1> HIDE DEF batch
<1>4. CASE i \notin batch
  <2>1. i \in uploaded' <=> i \in uploaded
    BY <1>2, <1>4
  <2>2. Late(i)' \subseteq Late(i)
    <3> SUFFICES ASSUME NEW v \in Late(i)' PROVE v \in Late(i)
      OBVIOUS
    <3>1. CASE v = u
      <4>1. CASE i \in uploaded
        BY <1>1, <1>2, <1>4, <2>1, <3>1, <4>1, LateIs
      <4>2. CASE i \notin uploaded
        BY <1>1, <1>2, <1>3, <1>4, <2>1, <3>1, <4>2, LateIs
      <4> QED BY <4>1, <4>2
    <3>2. CASE v # u
      <4>1. CASE i \in uploaded
        BY <1>1, <2>1, <3>2, <4>1, LateIs
      <4>2. CASE i \notin uploaded
        BY <1>1, <2>1, <3>2, <4>2, LateIs
      <4> QED BY <4>1, <4>2
    <3> QED BY <3>1, <3>2
  <2>3. Regular(i) => Regular(i)'
    BY <1>2, <1>4, RegularMoved
  <2> QED BY <1>2, <2>2, <2>3 DEF Change, Permitted
<1>5. CASE i \in batch
  <2>1. i \in uploaded' /\ Regular(i)'
    BY <1>2, <1>5 DEF Regular
  <2>2. ASSUME NEW v \in Late(i)'
        PROVE  v \in Uploaders \ {u} /\ i \in uploader[v].pending /\ ~ Marking(v, i)
    <3>1. i \notin k.pending
      BY <1>2, <1>5
    <3> QED BY <1>1, <2>1, <2>2, <3>1, LateIs
  <2>3. CASE Late(i)' \subseteq Late(i)
    BY <1>2, <2>1, <2>3 DEF Change, Permitted
  <2>4. CASE ~ (Late(i)' \subseteq Late(i))
    <3>1. i \notin uploaded
      BY <2>2, <2>4, LateIs
    <3>2. ASSUME NEW v \in Late(i)', v \notin Late(i)
          PROVE  Owner(v)
      <4>1. v \in Uploaders /\ uploader[v].pending # {} /\ ~ uploader[v].stalled
        BY <2>2, <3>1, <3>2, LateIs
      <4> QED BY <4>1 DEF LockInv, Owner
    <3>3. PICK w \in Late(i)' : w \notin Late(i)
      BY <2>4
    <3>4. \A v \in Uploaders : Owner(v) => v = w
      BY <2>2, <3>2, <3>3 DEF LockInv
    <3>5. Late(i)' \subseteq Late(i) \cup {w}
      BY <2>2, <3>2, <3>4
    <3>6. ~ Regular(i)
      BY <2>2, <3>1, <3>3, <3>4 DEF Regular
    <3> QED BY <1>2, <2>1, <3>5, <3>6 DEF Change, Permitted
  <2> QED BY <2>3, <2>4
<1> QED BY <1>4, <1>5

\* A lost lock makes the execution a late one; if it is about to mark the item, it
\* has sent it, and the next one may send it again.
LEMMA LoseLockChange ==
  ASSUME TypeOK, NEW u \in Uploaders, LoseLock(u), NEW i \in Items
  PROVE  Change(i)
<1>1. PICK k : /\ Moves(u, k) /\ k.pc = uploader[u].pc /\ k.pending = uploader[u].pending
               /\ faults' = faults + 1 /\ UNCHANGED <<accepted, uploaded>>
  BY StalledRun
<1>2. ThisBatch(k) = ThisBatch(uploader[u])
  BY <1>1 DEF ThisBatch
<1>3. \A v \in Uploaders : Marking(v, i)' <=> Marking(v, i)
  BY <1>1, <1>2, MarkingMoved DEF Marking
<1>4. uploader'[u] = k /\ \A v \in Uploaders \ {u} : uploader'[v] = uploader[v]
  BY <1>1, Moved
<1>5. ASSUME NEW v \in Late(i)', v # u
      PROVE  v \in Late(i)
  BY <1>1, <1>3, <1>4, <1>5, LateIs
<1>6. CASE i \in uploaded \/ Marking(u, i)
  <2>1. u \in Late(i)' => u \in Late(i)
    BY <1>1, <1>3, <1>4, <1>6, LateIs
  <2>2. Late(i)' \subseteq Late(i)
    BY <1>5, <2>1
  <2> QED BY <1>1, <2>2 DEF Change, Permitted
<1>7. CASE i \notin uploaded /\ ~ Marking(u, i)
  <2>1. Late(i)' \subseteq Late(i) \cup {u}
    BY <1>5
  <2>2. Regular(i) => Regular(i)'
    BY <1>1, <1>7, RegularMoved
  <2> QED BY <1>1, <2>1, <2>2 DEF Change, Permitted
<1> QED BY <1>6, <1>7

\* SendsCostFaults is inductive relative to TypeOK and LockInv.
LEMMA SendsStep ==
  ASSUME TypeOK, LockInv, SendsCostFaults, [Next]_vars
  PROVE  SendsCostFaults'
<1>1. TypeOK'
  BY TypeStep
<1>2. ASSUME NEW u \in Uploaders, UploadStep(u), NEW i \in Items
      PROVE  Change(i)
  <2>1. PICK k : Effect(u, k)
    BY <1>2, UploaderEffect
  <2> QED BY <2>1, QuietChange, AcceptingChange, SettlingChange DEF Effect
<1>3. ASSUME ~ \E u \in Uploaders : UploadStep(u) \/ LoseLock(u), NEW i \in Items
      PROVE  Change(i)
  <2>1. UNCHANGED <<accepted, uploaded, uploader>> /\ (faults' = faults \/ faults' = faults + 1)
    BY <1>3, OthersFrame
  <2>2. \A v : Marking(v, i)' <=> Marking(v, i)
    BY <2>1 DEF Marking
  <2>3. Late(i)' = Late(i)
    BY <2>1, <2>2 DEF Late
  <2>4. Regular(i) => Regular(i)'
    BY <2>1, <2>2 DEF Regular, Owner
  <2> QED BY <2>1, <2>3, <2>4 DEF Change, Permitted
<1>4. \A i \in Items : Change(i)
  BY <1>2, <1>3, LoseLockChange
<1> QED BY <1>1, <1>4, SendsKept

\* Nothing has been sent and no execution has started.
LEMMA UploaderInvInit == Init => UploaderInv
<1> SUFFICES ASSUME Init PROVE UploaderInv
  OBVIOUS
<1>1. \A u \in Uploaders : /\ uploader[u].pc = "idle" /\ uploader[u].pending = {}
                           /\ ~ uploader[u].stalled
  BY StoppedType DEF Init
<1>2. uploaded = {} /\ faults = 0 /\ \A i \in Items : accepted[i] = 0
  BY DEF Init
<1>3. LockInv /\ HoldingInv
  BY <1>1, <1>2 DEF LockInv, HoldingInv, Owner, Marking
<1>4. ASSUME NEW i \in Items
      PROVE  accepted[i] + Cardinality(Late(i)) <= IF Regular(i) THEN 1 + faults ELSE faults
  <2>1. Late(i) = {} /\ ~ Regular(i)
    BY <1>1, <1>2 DEF Late, Regular, Owner
  <2>2. Cardinality(Late(i)) = 0
    BY <2>1, FS_EmptySet
  <2> HIDE DEF Late, Regular
  <2> QED BY <1>2, <2>1, <2>2
<1> QED BY <1>3, <1>4 DEF UploaderInv, SendsCostFaults

\* However many executions lose their lock and run on beside the next: one has
\* the lock, what each holds was offered when it was selected, what it marks has
\* been accepted, and every send of an item but one has cost a fault.
THEOREM UploaderInvariant == Spec => []UploaderInv
<1>1. TypeOK /\ UploaderInv /\ [Next]_vars => UploaderInv'
  BY LockInvStep, HoldingInvStep, SendsStep DEF UploaderInv
<1> QED BY <1>1, TypeCorrect, UploaderInvInit, PTL DEF Spec

\* Meta receives an item once, and once more for each failure at most: a lost
\* answer, a failed call, a job that died between the call and its mark, or one
\* whose lock expired while it held the item.
THEOREM EachDoubleHasAFault == Spec => []DoublesCostFaults
<1>1. TypeOK /\ UploaderInv => DoublesCostFaults
  <2> SUFFICES ASSUME TypeOK, UploaderInv, NEW i \in Items
               PROVE  accepted[i] <= 1 + faults
    BY DEF DoublesCostFaults
  <2>1. accepted[i] \in Nat /\ faults \in Nat
    BY ItemsAssumption DEF TypeOK
  <2>2. Cardinality(Late(i)) \in Nat
    BY Sizes DEF Late
  <2>3. accepted[i] + Cardinality(Late(i)) <= IF Regular(i) THEN 1 + faults ELSE faults
    BY DEF UploaderInv, SendsCostFaults
  <2> HIDE DEF Late, Regular
  <2> QED BY ONLY <2>1, <2>2, <2>3
<1> QED BY <1>1, TypeCorrect, UploaderInvariant, PTL

\* An item is sent after its mark only if some execution has lost its lock.
THEOREM NoneSentAfterMark ==
  Spec => [][\A i \in uploaded : accepted'[i] # accepted[i] => lostLocks > 0]_vars
<1>1. TypeOK /\ UploaderInv /\ [Next]_vars
        => [\A i \in uploaded : accepted'[i] # accepted[i] => lostLocks > 0]_vars
  <2> SUFFICES ASSUME TypeOK, UploaderInv, [Next]_vars,
                      NEW i \in uploaded, accepted'[i] # accepted[i]
               PROVE  lostLocks > 0
    OBVIOUS
  <2>1. PICK u \in Uploaders : UploadStep(u) \/ LoseLock(u)
    BY OthersFrame
  <2>2. ~ LoseLock(u)
    BY DEF LoseLock
  <2>3. PICK k : Effect(u, k)
    BY <2>1, <2>2, UploaderEffect
  <2>4. Accepted(ThisBatch(uploader[u]))
    BY <2>3 DEF Effect, Quiet, Accepting, Settling
  <2>5. i \in Items /\ i \in ThisBatch(uploader[u])
    BY <2>4 DEF Accepted, TypeOK
  <2>6. i \in uploader[u].pending
    BY <2>5, RunTypes
  <2>7. lostLocks # 0
    BY <2>6 DEF UploaderInv, HoldingInv
  <2> QED BY <2>7, FaultType
<1> QED BY <1>1, TypeCorrect, UploaderInvariant, PTL DEF Spec

-----------------------------------------------------------------------------
(* The pipeline implements the outbox.                                     *)

\* An ingested lead is an offer; any other write is a stutter.
LEMMA WriterRefines ==
  ASSUME TypeOK, ResolverInv, NEW i \in Items, Ingest(i) \/ TouchArrives(i)
  PROVE  [Promise!Next]_(Promise!outbox)
<1>1. UNCHANGED <<accepted, uploaded, uploader, lostLocks>>
  BY DEF Ingest, TouchArrives
<1>2. Offered' = Offered \/ Offered' = Offered \cup {i}
  BY DEF Ingest, TouchArrives, Offered
<1> QED BY <1>1, <1>2 DEF Promise!Next, Promise!Offer, Promise!outbox

\* A resolved purchase is an offer; any other step of a run is a stutter.
LEMMA ResolverRefines ==
  ASSUME TypeOK, ResolverInv, NEW r \in Resolvers, ResolveStep(r)
  PROVE  [Promise!Next]_(Promise!outbox)
<1>1. UNCHANGED <<accepted, uploaded, stored, uploader, lostLocks>>
  BY DEF ResolveStep, ResolveStart, ResolveRead, ResolveWrite, ResolveAborts
<1>2. CASE outcome' = outcome
  BY <1>1, <1>2 DEF Promise!outbox, Offered
<1>3. CASE ResolveWrite(r)
  <2> DEFINE i == resolver[r].item
  <2>1. i \in Purchases /\ i \in stored /\ i \in Items
    BY <1>3, RunTypes DEF ResolveWrite, ResolverInv, Purchases
  <2>2. outcome' = outcome \/ outcome' = [outcome EXCEPT ![i] = resolver[r].found]
    BY <1>3 DEF ResolveWrite
  <2>3. CASE outcome' # outcome
    <3>1. outcome[i] = "none" /\ outcome' = [outcome EXCEPT ![i] = resolver[r].found]
      BY <1>3, <2>3 DEF ResolveWrite
    <3>2. resolver[r].found # "none"
      BY <2>3, <3>1 DEF TypeOK
    <3>3. Offered' = Offered \cup {i}
      BY <1>1, <2>1, <3>1, <3>2 DEF Offered, TypeOK, Purchases
    <3> QED BY <1>1, <2>1, <3>3 DEF Promise!Next, Promise!Offer, Promise!outbox
  <2> QED BY <1>2, <2>3
<1> QED BY <1>2, <1>3 DEF ResolveStep, ResolveStart, ResolveRead, ResolveAborts

\* What the executions hold after a move.
LEMMA HeldMoved ==
  ASSUME TypeOK, NEW u \in Uploaders, NEW k, Moves(u, k)
  PROVE  [v \in Uploaders |-> uploader'[v].pending]
           = [[v \in Uploaders |-> uploader[v].pending] EXCEPT ![u] = k.pending]
BY Moved

\* A select takes, an accepted batch is a send, its mark the settlement; a batch
\* given up is dropped.
LEMMA UploaderRefines ==
  ASSUME TypeOK, UploaderInv, NEW u \in Uploaders, UploadStep(u)
  PROVE  [Promise!Next]_(Promise!outbox)
<1> DEFINE run == uploader[u]
           held == [v \in Uploaders |-> uploader[v].pending]
           heldNext == [v \in Uploaders |-> uploader'[v].pending]
<1>1. Offered' = Offered
  BY UploadFrame
<1>2. PICK k : Effect(u, k)
  BY UploaderEffect
<1>3. /\ heldNext = [held EXCEPT ![u] = k.pending]
      /\ held[u] = run.pending /\ held = [held EXCEPT ![u] = run.pending]
  BY <1>2, HeldMoved DEF Effect
<1>4. /\ ThisBatch(run) \subseteq run.pending /\ run.pending \subseteq Items
      /\ k.pending \in SUBSET Items
  BY <1>2, RunTypes DEF Effect, UploaderRuns
<1> PICK batch \in SUBSET Items : batch = ThisBatch(run)
  BY <1>4
<1>5. LockInv /\ HoldingInv
  BY DEF UploaderInv
<1>6. CASE Quiet(u, k)
  <2>1. UNCHANGED <<accepted, uploaded, lostLocks>>
    BY <1>6 DEF Quiet
  <2>2. CASE k.pending = {}
    <3>1. Promise!Drop(u)
      BY <1>1, <1>3, <2>1, <2>2 DEF Promise!Drop
    <3> QED BY <3>1 DEF Promise!Next
  <2>3. CASE k.pending = run.pending
    BY <1>1, <1>3, <2>1, <2>3 DEF Promise!outbox
  <2>4. CASE Selectable(k.pending) /\ run.pc = "select"
    <3>1. lostLocks = 0 => \A t \in Uploaders \ {u} : held[t] = {}
      BY <1>5, <2>4, AloneWithoutLoss
    <3>2. Promise!Take(u, k.pending)
      BY <1>1, <1>3, <2>1, <2>4, <3>1 DEF Promise!Take, Selectable
    <3> QED BY <1>4, <3>2 DEF Promise!Next
  <2> QED BY <1>6, <2>2, <2>3, <2>4 DEF Quiet
<1>7. CASE Accepting(u, k)
  <2>1. /\ Accepted(batch) /\ UNCHANGED <<uploaded, lostLocks>>
        /\ k.pending = run.pending \/ k.pending = {}
    BY <1>7 DEF Accepting
  <2>2. heldNext = held \/ heldNext = [held EXCEPT ![u] = {}]
    BY <1>3, <2>1
  <2>3. Promise!Send(u, batch)
    BY <1>1, <1>3, <1>4, <2>1, <2>2 DEF Promise!Send, Accepted
  <2> QED BY <2>3 DEF Promise!Next
<1>8. CASE Settling(u, k)
  <2>1. /\ k.pending = run.pending \ batch /\ uploaded' = uploaded \cup batch
        /\ UNCHANGED <<accepted, lostLocks>>
    BY <1>8 DEF Settling
  <2>2. \A i \in batch : accepted[i] > 0
    BY <1>4, <1>5, <1>8 DEF HoldingInv, Marking, Settling
  <2>3. Promise!Settle(u, batch)
    BY <1>1, <1>3, <1>4, <2>1, <2>2 DEF Promise!Settle
  <2> QED BY <2>3 DEF Promise!Next
<1> QED BY <1>2, <1>6, <1>7, <1>8 DEF Effect

\* A lost lock lets the next sender in.
LEMMA LoseLockRefines ==
  ASSUME TypeOK, NEW u \in Uploaders, LoseLock(u)
  PROVE  [Promise!Next]_(Promise!outbox)
<1>1. Offered' = Offered
  BY UploadFrame
<1>2. PICK k : /\ Moves(u, k) /\ k.pending = uploader[u].pending
               /\ lostLocks' = lostLocks + 1 /\ UNCHANGED <<accepted, uploaded>>
  BY StalledRun
<1>3. [v \in Uploaders |-> uploader'[v].pending] = [v \in Uploaders |-> uploader[v].pending]
  BY <1>2, Moved
<1>4. Promise!Overlap
  BY <1>1, <1>2, <1>3 DEF Promise!Overlap
<1> QED BY <1>4 DEF Promise!Next

\* What Meta is sent follows the outbox, however many executions overlap: only
\* resolved purchases and stored leads, none taken after its mark, no mark before
\* an accepted call, and none sent after its mark while no lock has been lost.
THEOREM PipelineImplementsOutbox == Spec => ImplementsOutbox
<1>1. Init => Promise!Init
  BY StoppedType DEF Init, Promise!Init, Offered
<1>2. TypeOK /\ ResolverInv /\ UploaderInv /\ [Next]_vars => [Promise!Next]_(Promise!outbox)
  <2>1. UNCHANGED vars => UNCHANGED Promise!outbox
    BY DEF vars, Promise!outbox, Offered
  <2> QED BY <2>1, WriterRefines, ResolverRefines, UploaderRefines, LoseLockRefines DEF Next
<1> QED
  BY <1>1, <1>2, TypeCorrect, ResolverInvariant, UploaderInvariant, PTL
  DEF Spec, ImplementsOutbox, Promise!Spec

=============================================================================
