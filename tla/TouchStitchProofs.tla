-------------------------- MODULE TouchStitchProofs --------------------------
(***************************************************************************)
(* Proofs about TouchStitch, for every set of sessions, users, campaigns,  *)
(* posts and requests in progress, every page size and every fault bound.  *)
(***************************************************************************)
EXTENDS TouchStitch, Counting

-----------------------------------------------------------------------------
(* Helpers.                                                                *)

\* A set of natural numbers has a least element (Least), which First picks, ...
LEMMA FirstIn ==
  ASSUME NEW S \in SUBSET Nat, S # {}
  PROVE  First(S) \in S /\ \A i \in S : First(S) <= i
BY Least DEF First

\* ... and a bounded one has a greatest.
LEMMA Greatest ==
  ASSUME NEW n \in Nat, NEW S \in SUBSET (1..n), S # {}
  PROVE  \E m \in S : \A i \in S : i <= m
<1> DEFINE T == {n - i : i \in S}
<1>1. T \in SUBSET Nat /\ T # {}
  <2>1. \A i \in S : i \in 1..n
    OBVIOUS
  <2>2. \A i \in S : n - i \in Nat
    BY <2>1
  <2> QED BY <2>2
<1>2. PICK t \in T : \A u \in T : t <= u
  BY <1>1, Least
<1>3. PICK m \in S : t = n - m
  OBVIOUS
<1>4. ASSUME NEW i \in S PROVE i <= m
  <2>1. n - m <= n - i
    BY <1>2, <1>3, <1>4
  <2> QED BY <2>1, <1>3, <1>4
<1> QED BY <1>4

\* The page of a set that is not empty is not empty; what it leaves out comes
\* after what it holds.
LEMMA FirstPageOf ==
  ASSUME NEW n \in Nat, NEW S \in SUBSET (1..n), S # {}
  PROVE  /\ FirstPage(S) \subseteq S /\ FirstPage(S) # {}
         /\ \A i \in S \ FirstPage(S), m \in FirstPage(S) : m < i
<1> DEFINE Before(i) == {j \in S : j < i}
<1>0. \A i \in S : i \in Nat
  OBVIOUS
<1>1. FirstPage(S) = {i \in S : Cardinality(Before(i)) < PageSize}
  BY DEF FirstPage
<1>2. IsFiniteSet(1..n)
  BY FS_Interval
<1>3. \A i \in S : IsFiniteSet(Before(i)) /\ Cardinality(Before(i)) \in Nat
  <2> TAKE i \in S
  <2>1. IsFiniteSet(Before(i))
    BY <1>2, FS_Subset, Before(i) \subseteq 1..n
  <2> QED BY <2>1, FS_CardinalityType
<1>4. FirstPage(S) # {}
  <2>1. S \in SUBSET Nat
    OBVIOUS
  <2>2. PICK m \in S : \A i \in S : m <= i
    BY <2>1, Least
  <2>3. Before(m) = {}
    <3>1. \A j \in S : ~(j < m)
      BY <1>0, <2>2
    <3> QED BY <3>1
  <2>4. Cardinality(Before(m)) = 0
    BY <2>3, FS_EmptySet
  <2>5. Cardinality(Before(m)) < PageSize
    BY <2>4, TouchAssumption
  <2> QED BY <1>1, <2>5
<1>5. ASSUME NEW i \in S \ FirstPage(S), NEW m \in FirstPage(S), ~(m < i)
      PROVE  FALSE
  <2>1. Before(i) \subseteq Before(m)
    <3>0. m \in S
      BY <1>1
    <3>1. m \in Nat /\ i \in Nat /\ i <= m
      BY <1>0, <1>5, <3>0
    <3>2. \A j \in S : j < i => j < m
      BY <1>0, <3>1
    <3> QED BY <3>0, <3>2
  <2>2. Cardinality(Before(i)) <= Cardinality(Before(m))
    BY <1>1, <1>3, <1>5, <2>1, FS_Subset
  <2>3. Cardinality(Before(m)) < PageSize /\ ~(Cardinality(Before(i)) < PageSize)
    BY <1>1, <1>5
  <2>4. Cardinality(Before(i)) \in Nat /\ Cardinality(Before(m)) \in Nat /\ PageSize \in Nat
    BY <1>1, <1>3, <1>5, TouchAssumption
  <2> HIDE DEF Before
  <2> QED BY <2>2, <2>3, <2>4
<1> QED BY <1>1, <1>4, <1>5

-----------------------------------------------------------------------------
(* Type correctness.                                                       *)

\* The requests that will still insert a row.
Reserved == {w \in Writers : writer[w].pc \in {"lookup", "insert"}}

\* TypeOK with what keeps it: a row is reserved for each request that has yet to
\* insert one, the backfill knows rows that exist, and only a post that knows
\* its user links and stitches.
Types ==
    /\ TypeOK
    /\ Len(touches) + Cardinality(Reserved) <= MaxRows
    /\ backfill.upto <= Len(touches)
    /\ backfill.page \subseteq DOMAIN touches
    /\ \A w \in Writers : writer[w].pc \in {"link", "stitch"} => writer[w].row.posted \in Users

\* What no step does to a row: it does not delete it, change whose session it
\* is of or what was posted, or change its campaign once it has been corrected.
RowsKept ==
    /\ DOMAIN touches \subseteq DOMAIN touches'
    /\ \A i \in DOMAIN touches :
          /\ touches'[i].session = touches[i].session
          /\ touches'[i].posted = touches[i].posted
          /\ touches'[i].referrer = touches[i].referrer
          /\ touches[i].marker # "none" => /\ touches'[i].campaign = touches[i].campaign
                                           /\ touches'[i].marker = touches[i].marker

LEMMA ReservedType ==
  IsFiniteSet(Reserved) /\ Cardinality(Reserved) \in Nat
<1>1. IsFiniteSet(Reserved)
  BY TouchAssumption, FS_Subset DEF Reserved
<1> QED BY <1>1, FS_CardinalityType

\* A request that moves on reserves a row or gives its own up.
LEMMA ReservedMoves ==
  ASSUME TypeOK, NEW w \in Writers, NEW k, writer' = [writer EXCEPT ![w] = k]
  PROVE  /\ Cardinality(Reserved') \in Nat
         /\ Cardinality(Reserved') <= Cardinality(Reserved) + 1
         /\ k.pc \notin {"lookup", "insert"} \/ w \in Reserved =>
               Cardinality(Reserved') <= Cardinality(Reserved)
         /\ k.pc \notin {"lookup", "insert"} /\ w \in Reserved =>
               Cardinality(Reserved') = Cardinality(Reserved) - 1
<1>0. \A v \in Writers : writer'[v] = IF v = w THEN k ELSE writer[v]
  BY DEF TypeOK
<1>1. CASE k.pc \in {"lookup", "insert"}
  <2>1. Reserved' = Reserved \cup {w}
    BY <1>0, <1>1 DEF Reserved
  <2>2. Cardinality(Reserved \cup {w}) =
           IF w \in Reserved THEN Cardinality(Reserved) ELSE Cardinality(Reserved) + 1
    BY ReservedType, FS_AddElement
  <2> QED BY <1>1, <2>1, <2>2, ReservedType
<1>2. CASE k.pc \notin {"lookup", "insert"}
  <2>1. Reserved' = Reserved \ {w}
    BY <1>0, <1>2 DEF Reserved
  <2>2. Cardinality(Reserved \ {w}) =
           IF w \in Reserved THEN Cardinality(Reserved) - 1 ELSE Cardinality(Reserved)
    BY ReservedType, FS_RemoveElement
  <2>3. w \in Reserved => Cardinality(Reserved) # 0
    BY ReservedType, FS_EmptySet
  <2> QED BY <1>2, <2>1, <2>2, <2>3, ReservedType
<1> QED BY <1>1, <1>2

LEMMA WithIdsType ==
  ASSUME NEW row \in Rows, NEW c \in Campaigns \cup {Generic, Own}, NEW m \in Markers
  PROVE  /\ WithIds(row, c, m) \in Rows
         /\ WithIds(row, c, m).session = row.session
         /\ WithIds(row, c, m).posted = row.posted
         /\ WithIds(row, c, m).user = row.user
         /\ WithIds(row, c, m).referrer = row.referrer
         /\ WithIds(row, c, m).campaign = c
         /\ WithIds(row, c, m).marker = m
BY DEF Rows, WithIds

\* A request gets a new record.
LEMMA WriterMoves ==
  ASSUME TypeOK, NEW w \in Writers, NEW pc, NEW row \in Rows,
         pc \in {"lookup", "insert", "link", "stitch", "propagate"}, Goto(w, pc, row)
  PROVE  /\ writer' \in [Writers -> Requests]
         /\ writer'[w] = [pc |-> pc, row |-> row]
         /\ \A v \in Writers \ {w} : writer'[v] = writer[v]
<1>1. [pc |-> pc, row |-> row] \in Requests
  BY DEF Requests
<1> QED BY <1>1 DEF Goto, TypeOK

LEMMA WriterDone ==
  ASSUME TypeOK, NEW w \in Writers, Done(w)
  PROVE  /\ writer' \in [Writers -> Requests]
         /\ writer'[w] = Resting /\ Resting.pc = "idle"
         /\ \A v \in Writers \ {w} : writer'[v] = writer[v]
BY DEF Done, TypeOK, Requests, Resting

\* The request of a writer that is not idle has a row.
LEMMA WriterRow ==
  ASSUME TypeOK, NEW w \in Writers, writer[w].pc # "idle"
  PROVE  /\ writer[w].row \in Rows
         /\ writer[w].pc \in {"lookup", "insert", "link", "stitch", "propagate"}
         /\ writer[w] # Resting
BY DEF TypeOK, Requests, Resting

\* A row is appended, and the request goes on behind the insert.
LEMMA StoreStep ==
  ASSUME Types, NEW w \in Writers, NEW row \in Rows, Store(w, row)
  PROVE  /\ touches' \in Seq(Rows) /\ RowsKept
         /\ Len(touches') = Len(touches) + 1
         /\ touches'[Len(touches')] = row
         /\ \A i \in DOMAIN touches : touches'[i] = touches[i]
         /\ DOMAIN touches' = DOMAIN touches \cup {Len(touches')}
         /\ writer' \in [Writers -> Requests]
         /\ writer'[w] \in {[pc |-> "link", row |-> row], [pc |-> "propagate", row |-> row], Resting}
         /\ writer'[w].pc = "link" => row.posted \in Users
         /\ writer'[w].pc = "propagate" => row.marker = "nonce"
         /\ \A v \in Writers \ {w} : writer'[v] = writer[v]
         /\ Cardinality(Reserved') \in Nat
         /\ Cardinality(Reserved') <= Cardinality(Reserved)
         /\ w \in Reserved => Cardinality(Reserved') = Cardinality(Reserved) - 1
<1> USE DEF Types
<1>1. /\ touches' \in Seq(Rows)
      /\ Len(touches') = Len(touches) + 1
      /\ touches'[Len(touches')] = row
      /\ \A i \in DOMAIN touches : touches'[i] = touches[i]
      /\ DOMAIN touches' = DOMAIN touches \cup {Len(touches')}
      /\ DOMAIN touches \subseteq DOMAIN touches'
  BY DEF Store, TypeOK
<1>2. RowsKept
  BY <1>1 DEF RowsKept
<1>3. row.posted \in Users \cup {Nobody}
  BY DEF Rows
<1> DEFINE k == IF row.posted # Nobody THEN [pc |-> "link", row |-> row]
                ELSE IF row.marker = "nonce" THEN [pc |-> "propagate", row |-> row]
                ELSE Resting
<1>4. writer' = [writer EXCEPT ![w] = k]
  BY DEF Store, AfterInsert, Goto, Done
<1>5. /\ k \in {[pc |-> "link", row |-> row], [pc |-> "propagate", row |-> row], Resting}
      /\ k.pc = "link" => row.posted \in Users
      /\ k.pc = "propagate" => row.marker = "nonce"
  BY <1>3 DEF Resting
<1> HIDE DEF k
<1>6. k \in Requests /\ k.pc \notin {"lookup", "insert"}
  BY <1>5 DEF Requests, Resting
<1>7. writer' \in [Writers -> Requests] /\ writer'[w] = k /\ \A v \in Writers \ {w} : writer'[v] = writer[v]
  BY <1>4, <1>6 DEF TypeOK
<1>8. /\ Cardinality(Reserved') \in Nat
      /\ Cardinality(Reserved') <= Cardinality(Reserved)
      /\ w \in Reserved => Cardinality(Reserved') = Cardinality(Reserved) - 1
  BY <1>4, <1>6, ReservedMoves
<1> QED BY <1>1, <1>2, <1>5, <1>7, <1>8

\* A step that leaves the rows and the backfill alone needs only the request.
LEMMA WriterOnly ==
  ASSUME Types, NEW w \in Writers,
         writer' \in [Writers -> Requests],
         \A v \in Writers \ {w} : writer'[v] = writer[v],
         writer'[w].pc \in {"link", "stitch"} => writer'[w].row.posted \in Users,
         touches' \in Seq(Rows), RowsKept, Len(touches') + Cardinality(Reserved') <= MaxRows,
         Cardinality(Reserved') \in Nat, DOMAIN touches \subseteq DOMAIN touches',
         Len(touches) <= Len(touches'),
         links' \subseteq Sessions \X Users,
         faults' \in 0..MaxFaults,
         UNCHANGED <<hasKey, backfill, covered>>
  PROVE  Types' /\ RowsKept
<1>1. TypeOK'
  BY TouchAssumption DEF Types, TypeOK
<1>2. backfill'.upto <= Len(touches') /\ backfill'.page \subseteq DOMAIN touches'
  BY DEF Types, TypeOK, Backfills
<1>3. \A v \in Writers : writer'[v].pc \in {"link", "stitch"} => writer'[v].row.posted \in Users
  BY DEF Types
<1> QED BY <1>1, <1>2, <1>3 DEF Types

LEMMA FaultType == TypeOK /\ Fault => faults' \in 0..MaxFaults
  BY TouchAssumption DEF Fault, TypeOK

LEMMA ReceiveTypes ==
  ASSUME Types, NEW w \in Writers, Receive(w)
  PROVE  Types' /\ RowsKept
<1> USE DEF Types
<1>1. PICK post \in Posts :
        LET row == [session |-> post.session, posted |-> post.user, user |-> post.user,
                    referrer |-> post.referrer, campaign |-> post.label, marker |-> "none"]
            decrypted == post.referrer \in Campaigns /\ hasKey
        IN
        \/ decrypted /\ Store(w, WithIds(row, post.referrer, "nonce"))
        \/ ~decrypted /\ post.label = Own /\ Store(w, row)
        \/ ~decrypted /\ post.label = Generic /\ Goto(w, "lookup", row) /\ UNCHANGED touches
  BY DEF Receive
<1> DEFINE row == [session |-> post.session, posted |-> post.user, user |-> post.user,
                   referrer |-> post.referrer, campaign |-> post.label, marker |-> "none"]
<1>2. row \in Rows
  BY TouchAssumption DEF Rows, Markers
<1>3. Len(touches) + Cardinality(Reserved) < MaxRows /\ writer[w] = Resting
  BY DEF Receive, Room, Reserved
<1>4. Cardinality(Reserved) \in Nat /\ Len(touches) \in Nat
  BY ReservedType DEF TypeOK
<1>5. UNCHANGED <<links, hasKey, backfill, covered, faults>>
  BY DEF Receive
<1>6. \A r \in Rows : Store(w, r) => Types' /\ RowsKept
  <2> SUFFICES ASSUME NEW r \in Rows, Store(w, r) PROVE Types' /\ RowsKept
    OBVIOUS
  <2>1. /\ touches' \in Seq(Rows) /\ RowsKept
        /\ Len(touches') = Len(touches) + 1
        /\ writer' \in [Writers -> Requests]
        /\ writer'[w] \in {[pc |-> "link", row |-> r], [pc |-> "propagate", row |-> r], Resting}
        /\ writer'[w].pc = "link" => r.posted \in Users
        /\ \A v \in Writers \ {w} : writer'[v] = writer[v]
        /\ Cardinality(Reserved') \in Nat
        /\ Cardinality(Reserved') <= Cardinality(Reserved)
    BY StoreStep
  <2>2. writer'[w].pc \in {"link", "stitch"} => writer'[w].row.posted \in Users
    BY <2>1 DEF Resting
  <2>3. Len(touches') + Cardinality(Reserved') <= MaxRows
    BY <1>3, <1>4, <2>1, TouchAssumption
  <2>4. DOMAIN touches \subseteq DOMAIN touches' /\ Len(touches) <= Len(touches')
    BY <1>4, <2>1 DEF RowsKept
  <2> QED BY <1>5, <2>1, <2>2, <2>3, <2>4, WriterOnly DEF TypeOK
<1>7. CASE post.referrer \in Campaigns /\ hasKey
  <2>1. WithIds(row, post.referrer, "nonce") \in Rows
    BY <1>2, <1>7, WithIdsType DEF Markers
  <2> QED BY <1>1, <1>6, <1>7, <2>1
<1>8. CASE ~(post.referrer \in Campaigns /\ hasKey) /\ Store(w, row)
  BY <1>2, <1>6, <1>8
<1>9. CASE Goto(w, "lookup", row) /\ UNCHANGED touches
  <2> HIDE DEF row
  <2>1. /\ writer' \in [Writers -> Requests]
        /\ writer'[w] = [pc |-> "lookup", row |-> row]
        /\ \A v \in Writers \ {w} : writer'[v] = writer[v]
    BY <1>2, <1>9, WriterMoves
  <2>2. /\ Cardinality(Reserved') \in Nat
        /\ Cardinality(Reserved') <= Cardinality(Reserved) + 1
    BY <1>9, ReservedMoves DEF Goto
  <2>3. Len(touches') + Cardinality(Reserved') <= MaxRows
    BY <1>3, <1>4, <1>9, <2>2, TouchAssumption
  <2>4. RowsKept
    BY <1>9 DEF RowsKept
  <2>5. /\ touches' \in Seq(Rows) /\ DOMAIN touches \subseteq DOMAIN touches'
        /\ Len(touches) <= Len(touches')
    BY <1>4, <1>9 DEF TypeOK
  <2>6. links' \subseteq Sessions \X Users /\ faults' \in 0..MaxFaults
    BY <1>5 DEF TypeOK
  <2>7. writer'[w].pc \notin {"link", "stitch"}
    BY <2>1
  <2> QED BY <1>5, <2>1, <2>2, <2>3, <2>4, <2>5, <2>6, <2>7, WriterOnly
<1> QED BY <1>1, <1>7, <1>8, <1>9

LEMMA InsertTypes ==
  ASSUME Types, NEW w \in Writers, Insert(w)
  PROVE  Types' /\ RowsKept
<1> USE DEF Types
<1> DEFINE r == writer[w].row
<1>1. r \in Rows /\ w \in Reserved /\ Store(w, r)
  BY WriterRow DEF Insert, Reserved
<1>2. Cardinality(Reserved) \in Nat /\ Len(touches) \in Nat
  BY ReservedType DEF TypeOK
<1> HIDE DEF r
<1>3. /\ touches' \in Seq(Rows) /\ RowsKept
      /\ Len(touches') = Len(touches) + 1
      /\ writer' \in [Writers -> Requests]
      /\ writer'[w] \in {[pc |-> "link", row |-> r], [pc |-> "propagate", row |-> r], Resting}
      /\ writer'[w].pc = "link" => r.posted \in Users
      /\ \A v \in Writers \ {w} : writer'[v] = writer[v]
      /\ Cardinality(Reserved') \in Nat
      /\ Cardinality(Reserved') = Cardinality(Reserved) - 1
  BY <1>1, StoreStep
<1>4. writer'[w].pc \in {"link", "stitch"} => writer'[w].row.posted \in Users
  BY <1>3 DEF Resting
<1>5. Len(touches') + Cardinality(Reserved') <= MaxRows
  BY <1>2, <1>3, TouchAssumption
<1>6. DOMAIN touches \subseteq DOMAIN touches' /\ Len(touches) <= Len(touches')
  BY <1>2, <1>3 DEF RowsKept
<1> QED BY <1>3, <1>4, <1>5, <1>6, WriterOnly DEF Insert, TypeOK

\* A row is a row.
LEMMA RowType == ASSUME TypeOK, NEW i \in DOMAIN touches PROVE touches[i] \in Rows
  BY DEF TypeOK

\* An update of rows in place.
LEMMA RowsUpdated ==
  ASSUME TypeOK, NEW f \in [DOMAIN touches -> Rows]
  PROVE  f \in Seq(Rows) /\ Len(f) = Len(touches) /\ DOMAIN f = DOMAIN touches
<1>1. Len(touches) \in Nat /\ DOMAIN touches = 1..Len(touches)
  BY DEF TypeOK
<1>2. f \in Seq(Rows)
  BY <1>1
<1> QED BY <1>1, <1>2

\* A request moves on, to a step that inserts no row, or ends; whatever rows it
\* updates, it updates in place.
LEMMA WriterUpdates ==
  ASSUME Types, NEW w \in Writers,
         \/ \E pc \in {"stitch", "propagate"} :
               Goto(w, pc, writer[w].row) /\ (pc = "stitch" => writer[w].row.posted \in Users)
         \/ Done(w),
         writer[w].pc # "idle",
         touches' \in [DOMAIN touches -> Rows], RowsKept,
         links' \subseteq Sessions \X Users, faults' \in 0..MaxFaults,
         UNCHANGED <<hasKey, backfill, covered>>
  PROVE  Types' /\ RowsKept
<1> USE DEF Types
<1>1. touches' \in Seq(Rows) /\ Len(touches') = Len(touches) /\ DOMAIN touches' = DOMAIN touches
  BY RowsUpdated
<1>2. /\ writer' \in [Writers -> Requests]
      /\ \A v \in Writers \ {w} : writer'[v] = writer[v]
      /\ writer'[w].pc \in {"link", "stitch"} => writer'[w].row.posted \in Users
      /\ Cardinality(Reserved') \in Nat /\ Cardinality(Reserved') <= Cardinality(Reserved)
  <2>1. CASE Done(w)
    BY <2>1, WriterDone, ReservedMoves DEF Done, Resting
  <2>2. ASSUME NEW pc \in {"stitch", "propagate"}, Goto(w, pc, writer[w].row),
               pc = "stitch" => writer[w].row.posted \in Users
        PROVE  <1>2
    <3>1. writer[w].row \in Rows
      BY WriterRow
    <3>2. /\ writer' \in [Writers -> Requests]
          /\ writer'[w] = [pc |-> pc, row |-> writer[w].row]
          /\ \A v \in Writers \ {w} : writer'[v] = writer[v]
      BY <2>2, <3>1, WriterMoves
    <3>3. Cardinality(Reserved') \in Nat /\ Cardinality(Reserved') <= Cardinality(Reserved)
      <4> DEFINE k == [pc |-> pc, row |-> writer[w].row]
      <4>1. writer' = [writer EXCEPT ![w] = k] /\ k.pc \notin {"lookup", "insert"}
        BY <2>2 DEF Goto
      <4> HIDE DEF k
      <4> QED BY <4>1, ReservedMoves
    <3> QED BY <2>2, <3>2, <3>3
  <2> QED BY <2>1, <2>2
<1>3. Len(touches) \in Nat /\ Cardinality(Reserved) \in Nat
  BY ReservedType DEF TypeOK
<1>4. Len(touches') + Cardinality(Reserved') <= MaxRows
  BY <1>1, <1>2, <1>3, TouchAssumption
<1> QED BY <1>1, <1>2, <1>3, <1>4, WriterOnly

LEMMA LookupTypes ==
  ASSUME Types, NEW w \in Writers, Lookup(w) \/ LookupFails(w)
  PROVE  Types' /\ RowsKept
<1> USE DEF Types
<1>1. writer[w].row \in Rows /\ w \in Reserved /\ faults' \in 0..MaxFaults
  BY WriterRow, FaultType DEF Lookup, LookupFails, Reserved, TypeOK
<1>2. \E row \in Rows : Goto(w, "insert", row)
  <2>1. CASE LookupFails(w)
    BY <1>1, <2>1 DEF LookupFails
  <2>2. CASE Lookup(w) /\ NonceRows(writer[w].row.session) = {}
    BY <1>1, <2>2 DEF Lookup
  <2>3. CASE Lookup(w) /\ NonceRows(writer[w].row.session) # {}
    <3> DEFINE j == First(NonceRows(writer[w].row.session))
    <3>1. j \in DOMAIN touches
      BY <2>3, FirstIn DEF NonceRows, TypeOK
    <3>2. touches[j].campaign \in Campaigns \cup {Generic, Own}
      BY <3>1, RowType DEF Rows
    <3>3. WithIds(writer[w].row, touches[j].campaign, "propagated") \in Rows
      BY <1>1, <3>2, WithIdsType DEF Markers
    <3> QED BY <2>3, <3>3 DEF Lookup
  <2> QED BY <2>1, <2>2, <2>3
<1>3. PICK row \in Rows : Goto(w, "insert", row)
  BY <1>2
<1>4. /\ writer' \in [Writers -> Requests]
      /\ writer'[w] = [pc |-> "insert", row |-> row]
      /\ \A v \in Writers \ {w} : writer'[v] = writer[v]
  BY <1>3, WriterMoves
<1>5. Cardinality(Reserved') \in Nat /\ Cardinality(Reserved') <= Cardinality(Reserved)
  BY <1>1, <1>3, ReservedMoves DEF Goto
<1>6. UNCHANGED <<touches, links, hasKey, backfill, covered>>
  BY DEF Lookup, LookupFails
<1>7. Len(touches) \in Nat /\ Cardinality(Reserved) \in Nat
  BY ReservedType DEF TypeOK
<1>8. RowsKept /\ Len(touches') + Cardinality(Reserved') <= MaxRows
  BY <1>5, <1>6, <1>7, TouchAssumption DEF RowsKept
<1> QED BY <1>1, <1>4, <1>5, <1>6, <1>7, <1>8, WriterOnly DEF TypeOK

LEMMA LinkTypes ==
  ASSUME Types, NEW w \in Writers, Link(w)
  PROVE  Types' /\ RowsKept
<1> USE DEF Types
<1>1. writer[w].row \in Rows /\ writer[w].row.posted \in Users /\ writer[w].pc # "idle"
  BY WriterRow DEF Link
<1>2. links' \subseteq Sessions \X Users
  BY <1>1 DEF Link, TypeOK, Rows
<1>3. touches' \in [DOMAIN touches -> Rows] /\ RowsKept
  BY RowType DEF Link, RowsKept, TypeOK
<1> QED BY <1>1, <1>2, <1>3, WriterUpdates DEF Link, TypeOK

LEMMA StitchTypes ==
  ASSUME Types, NEW w \in Writers, Stitch(w)
  PROVE  Types' /\ RowsKept
<1> USE DEF Types
<1> DEFINE row == writer[w].row
<1>1. row \in Rows /\ row.posted \in Users /\ writer[w].pc # "idle"
  BY WriterRow DEF Stitch
<1>2. \A i \in DOMAIN touches : [touches[i] EXCEPT !.user = row.posted] \in Rows
  BY <1>1, RowType DEF Rows
<1>3. touches' = [i \in DOMAIN touches |->
                    IF touches[i].session = row.session /\ touches[i].user = Nobody
                    THEN [touches[i] EXCEPT !.user = row.posted] ELSE touches[i]]
  BY DEF Stitch
<1>4. touches' \in [DOMAIN touches -> Rows]
  BY <1>2, <1>3, RowType
<1>5. RowsKept
  BY <1>3, RowType DEF RowsKept, Rows
<1>6. Goto(w, "propagate", row) \/ Done(w)
  BY DEF Stitch, AfterStitch
<1> QED BY <1>1, <1>4, <1>5, <1>6, WriterUpdates DEF Stitch, TypeOK

LEMMA PropagateTypes ==
  ASSUME Types, NEW w \in Writers, Propagate(w)
  PROVE  Types' /\ RowsKept
<1> USE DEF Types
<1> DEFINE row == writer[w].row
<1>1. row \in Rows /\ writer[w].pc # "idle"
  BY WriterRow DEF Propagate
<1>2. \A i \in DOMAIN touches :
        LET new == WithIds(touches[i], row.campaign, "propagated")
        IN  /\ new \in Rows /\ new.session = touches[i].session
            /\ new.posted = touches[i].posted /\ new.referrer = touches[i].referrer
  BY <1>1, RowType, WithIdsType DEF Rows, Markers
<1>3. touches' = [i \in DOMAIN touches |->
                    IF touches[i].session = row.session /\ Uncorrected(touches[i])
                    THEN WithIds(touches[i], row.campaign, "propagated") ELSE touches[i]]
  BY DEF Propagate
<1>4. touches' \in [DOMAIN touches -> Rows]
  BY <1>2, <1>3, RowType
<1>5. RowsKept
  BY <1>2, <1>3 DEF RowsKept, Uncorrected
<1> QED BY <1>1, <1>4, <1>5, WriterUpdates DEF Propagate, TypeOK

LEMMA AbandonTypes ==
  ASSUME Types, NEW w \in Writers, Abandon(w)
  PROVE  Types' /\ RowsKept
<1> USE DEF Types
<1>1. writer[w].pc # "idle"
  BY DEF Abandon, TypeOK, Requests, Resting
<1>2. touches' \in [DOMAIN touches -> Rows] /\ RowsKept
  BY RowType DEF Abandon, RowsKept, TypeOK
<1> QED BY <1>1, <1>2, WriterUpdates, FaultType DEF Abandon, TypeOK

\* A step of the backfill updates rows in place and leaves the requests alone.
LEMMA BackfillUpdates ==
  ASSUME Types,
         touches' \in [DOMAIN touches -> Rows], RowsKept,
         backfill' \in Backfills,
         backfill'.pc = "row" => backfill'.page # {},
         backfill'.upto <= Len(touches), backfill'.page \subseteq DOMAIN touches,
         covered' \in 0..Len(touches),
         faults' \in 0..MaxFaults,
         hasKey' \in BOOLEAN, UNCHANGED <<links, writer>>
  PROVE  Types' /\ RowsKept
<1>1. touches' \in Seq(Rows) /\ Len(touches') = Len(touches) /\ DOMAIN touches' = DOMAIN touches
  BY RowsUpdated DEF Types
<1>2. Reserved' = Reserved
  BY DEF Reserved
<1>3. TypeOK'
  BY <1>1 DEF Types, TypeOK
<1> QED BY <1>1, <1>2, <1>3 DEF Types

\* A step of the backfill, or of the operator, that writes no row.
LEMMA BackfillMoves ==
  ASSUME Types, UNCHANGED <<touches, links, writer, covered>>,
         backfill' \in Backfills,
         backfill'.pc = "row" => backfill'.page # {},
         backfill'.upto <= Len(touches), backfill'.page \subseteq DOMAIN touches,
         faults' \in 0..MaxFaults, hasKey' \in BOOLEAN
  PROVE  Types' /\ RowsKept
<1>1. touches' \in [DOMAIN touches -> Rows] /\ RowsKept
  BY RowType DEF Types, TypeOK, RowsKept
<1> QED BY <1>1, BackfillUpdates DEF Types, TypeOK

\* Stopped is a backfill that does nothing.
LEMMA StoppedType ==
  /\ Stopped \in Backfills /\ Stopped.pc = "idle" /\ Stopped.page = {} /\ Stopped.upto = 0
BY TouchAssumption DEF Stopped, Backfills

LEMMA ConfigureTypes ==
  ASSUME Types, ConfigureKey PROVE Types' /\ RowsKept
BY BackfillMoves DEF ConfigureKey, Types, TypeOK

LEMMA StartTypes ==
  ASSUME Types, StartBackfill PROVE Types' /\ RowsKept
<1>1. Len(touches) \in 0..MaxRows
  BY TouchAssumption DEF Types, TypeOK
<1>2. backfill' \in Backfills /\ backfill'.pc = "page" /\ backfill'.page = {} /\ backfill'.upto = Len(touches)
  BY <1>1, TouchAssumption DEF StartBackfill, Backfills
<1> QED BY <1>1, <1>2, BackfillMoves DEF StartBackfill, Types, TypeOK

LEMMA DiesTypes ==
  ASSUME Types, BackfillDies PROVE Types' /\ RowsKept
BY StoppedType, FaultType, BackfillMoves DEF BackfillDies, Types, TypeOK

LEMMA NextPageTypes ==
  ASSUME Types, NextPage PROVE Types' /\ RowsKept
<1> USE DEF Types
<1> DEFINE S == {i \in Candidates : i > backfill.last}
           rows == FirstPage(S)
           last == CHOOSE i \in rows : \A j \in rows : j <= i
<1>1. S \in SUBSET (1..Len(touches)) /\ Len(touches) \in Nat /\ Len(touches) <= MaxRows
  BY TouchAssumption DEF Candidates, TypeOK
<1>2. rows \subseteq S
  BY DEF FirstPage
<1>3. ReadPage(rows, IF rows = {} THEN 0 ELSE last)
  BY DEF NextPage
<1>4. CASE rows = {}
  <2>1. backfill' = [backfill EXCEPT !.pc = "spread"]
    BY <1>3, <1>4 DEF ReadPage
  <2>2. backfill' \in Backfills /\ backfill'.pc = "spread"
        /\ backfill'.upto = backfill.upto /\ backfill'.page = backfill.page
    BY <2>1 DEF TypeOK, Backfills
  <2> QED BY <2>2, BackfillMoves DEF NextPage, TypeOK
<1>5. CASE rows # {}
  <2>1. last \in rows
    BY <1>1, <1>2, <1>5, Greatest
  <2>2. last \in 0..MaxRows /\ rows \in SUBSET (1..MaxRows)
    BY <1>1, <1>2, <2>1, TouchAssumption
  <2>3. backfill' = [pc |-> "row", last |-> last, page |-> rows, upto |-> backfill.upto]
    BY <1>3, <1>5 DEF ReadPage
  <2> HIDE DEF rows, last
  <2>4. backfill' \in Backfills /\ backfill'.page = rows /\ backfill'.upto = backfill.upto
    BY <2>2, <2>3 DEF Backfills, TypeOK
  <2>5. rows \subseteq DOMAIN touches
    BY <1>1, <1>2 DEF TypeOK
  <2> QED BY <1>5, <2>4, <2>5, BackfillMoves DEF NextPage, TypeOK
<1> QED BY <1>4, <1>5

\* What the decryption of a row of the page does.
LEMMA DecryptRowTypes ==
  ASSUME Types, DecryptRow
  PROVE  /\ Types' /\ RowsKept
         /\ First(backfill.page) \in backfill.page
         /\ touches' \in [DOMAIN touches -> Rows]
         /\ \A i \in DOMAIN touches :
               touches'[i] = IF /\ i = First(backfill.page)
                                /\ touches[i].referrer \in Campaigns /\ touches[i].marker = "none"
                             THEN WithIds(touches[i], touches[i].referrer, "nonce")
                             ELSE touches[i]
<1> USE DEF Types
<1> DEFINE f == First(backfill.page)
<1>1. f \in backfill.page /\ f \in DOMAIN touches
  <2>1. backfill.page \in SUBSET Nat /\ backfill.page # {}
    BY DEF DecryptRow, TypeOK, Backfills
  <2> QED BY <2>1, FirstIn
<1>2. touches[f] \in Rows
  BY <1>1, RowType
<1>3. touches[f].referrer \in Campaigns =>
        LET new == WithIds(touches[f], touches[f].referrer, "nonce")
        IN  /\ new \in Rows /\ new.session = touches[f].session
            /\ new.posted = touches[f].posted /\ new.referrer = touches[f].referrer
  BY <1>2, WithIdsType DEF Markers
<1>4. touches' = IF touches[f].referrer \in Campaigns /\ touches[f].marker = "none"
                 THEN [touches EXCEPT ![f] = WithIds(touches[f], touches[f].referrer, "nonce")]
                 ELSE touches
  BY DEF DecryptRow
<1>5. touches \in [DOMAIN touches -> Rows]
  BY DEF TypeOK
<1> HIDE DEF f
<1>6. touches' \in [DOMAIN touches -> Rows]
  BY <1>1, <1>3, <1>4, <1>5
<1>7. \A i \in DOMAIN touches :
         touches'[i] = IF i = f /\ touches[i].referrer \in Campaigns /\ touches[i].marker = "none"
                       THEN WithIds(touches[i], touches[i].referrer, "nonce")
                       ELSE touches[i]
  BY <1>1, <1>4, <1>5
<1>8. RowsKept
  BY <1>3, <1>6, <1>7 DEF RowsKept
<1>9. /\ backfill' \in Backfills
      /\ backfill'.pc = "row" => backfill'.page # {}
      /\ backfill'.upto = backfill.upto /\ backfill'.page \subseteq backfill.page
  <2>1. backfill' = [backfill EXCEPT !.page = backfill.page \ {f},
                                     !.pc = IF backfill.page = {f} THEN "page" ELSE "row"]
    BY DEF DecryptRow, NextRow, f
  <2> QED BY <1>1, <2>1 DEF TypeOK, Backfills
<1>10. Types' /\ RowsKept
  <2>1. /\ backfill'.upto <= Len(touches) /\ backfill'.page \subseteq DOMAIN touches
        /\ covered' \in 0..Len(touches) /\ faults' \in 0..MaxFaults /\ hasKey' \in BOOLEAN
        /\ UNCHANGED <<links, writer>>
    BY <1>9 DEF DecryptRow, TypeOK
  <2> HIDE DEF Types
  <2> QED BY <1>6, <1>8, <1>9, <2>1, BackfillUpdates
<1> QED BY <1>1, <1>6, <1>7, <1>10 DEF f

LEMMA SpreadTypes ==
  ASSUME Types, Spread PROVE Types' /\ RowsKept
<1> USE DEF Types
<1>1. \A i \in DOMAIN touches :
        LET known == NonceRows(touches[i].session)
            new == WithIds(touches[i], touches[First(known)].campaign, "propagated")
        IN  known # {} => /\ new \in Rows /\ new.session = touches[i].session
                          /\ new.posted = touches[i].posted /\ new.referrer = touches[i].referrer
  <2> SUFFICES ASSUME NEW i \in DOMAIN touches, NonceRows(touches[i].session) # {}
               PROVE  LET new == WithIds(touches[i],
                                   touches[First(NonceRows(touches[i].session))].campaign, "propagated")
                      IN  /\ new \in Rows /\ new.session = touches[i].session
                          /\ new.posted = touches[i].posted /\ new.referrer = touches[i].referrer
    OBVIOUS
  <2> DEFINE j == First(NonceRows(touches[i].session))
  <2>1. NonceRows(touches[i].session) \in SUBSET Nat
    BY DEF NonceRows, TypeOK
  <2>2. j \in DOMAIN touches
    BY <2>1, FirstIn DEF NonceRows
  <2>3. touches[j].campaign \in Campaigns \cup {Generic, Own} /\ touches[i] \in Rows
    BY <2>2, RowType DEF Rows
  <2> QED BY <2>3, WithIdsType DEF Markers
<1>2. touches' = [i \in DOMAIN touches |->
                    LET known == NonceRows(touches[i].session) IN
                    IF Uncorrected(touches[i]) /\ known # {}
                    THEN WithIds(touches[i], touches[First(known)].campaign, "propagated")
                    ELSE touches[i]]
  BY DEF Spread
<1>3. touches' \in [DOMAIN touches -> Rows]
  BY <1>1, <1>2, RowType
<1>4. RowsKept
  BY <1>1, <1>2 DEF RowsKept, Uncorrected
<1>5. covered' \in 0..Len(touches)
  BY DEF Spread, TypeOK, Backfills
<1>6. backfill' \in Backfills /\ backfill'.pc = "idle" /\ backfill'.page = {} /\ backfill'.upto = 0
  BY StoppedType DEF Spread
<1>7. Len(touches) \in Nat /\ faults' \in 0..MaxFaults /\ hasKey' \in BOOLEAN
      /\ UNCHANGED <<links, writer>>
  BY DEF Spread, TypeOK
<1> HIDE DEF Types
<1> QED BY <1>3, <1>4, <1>5, <1>6, <1>7, BackfillUpdates

LEMMA TypesStep ==
  ASSUME Types, [Next]_vars
  PROVE  Types' /\ RowsKept
<1>1. CASE UNCHANGED vars
  <2>1. backfill' = backfill /\ writer' = writer /\ touches' = touches /\ links' = links
        /\ covered' = covered /\ faults' = faults /\ hasKey' = hasKey
    BY <1>1 DEF vars
  <2>2. RowsKept
    BY <2>1 DEF RowsKept
  <2>3. TypeOK' /\ Reserved' = Reserved
    BY <2>1 DEF Types, TypeOK, Reserved
  <2> QED BY <2>1, <2>2, <2>3 DEF Types
<1>2. CASE Next
  BY <1>2, ReceiveTypes, LookupTypes, InsertTypes, LinkTypes, StitchTypes, PropagateTypes,
     AbandonTypes, ConfigureTypes, StartTypes, NextPageTypes, DecryptRowTypes, SpreadTypes,
     DiesTypes
     DEF Next, WriterStep, BackfillStep
<1> QED BY <1>1, <1>2

LEMMA InitTypes == Init => Types
<1> SUFFICES ASSUME Init PROVE Types
  OBVIOUS
<1>1. Reserved = {}
  BY DEF Init, Reserved, Resting
<1>2. Cardinality(Reserved) = 0
  BY <1>1, FS_EmptySet
<1>3. Len(touches) = 0 /\ touches \in Seq(Rows) /\ DOMAIN touches = {}
  BY DEF Init
<1>4. writer \in [Writers -> Requests] /\ \A w \in Writers : writer[w].pc = "idle"
  BY DEF Init, Requests, Resting
<1>5. TypeOK
  BY <1>3, <1>4, StoppedType, TouchAssumption DEF Init, TypeOK
<1> QED BY <1>2, <1>3, <1>4, <1>5, StoppedType, TouchAssumption DEF Types, Init

\* The rows, requests and backfill runs are well formed, and there is room for
\* every row a request has yet to insert.
THEOREM TypeCorrect == Spec => []TypeOK
<1>1. Spec => []Types
  BY InitTypes, TypesStep, PTL DEF Spec
<1>2. Types => TypeOK
  BY DEF Types
<1> QED BY <1>1, <1>2, PTL

\* writeTouch and runMetaReferrerBackfill: a corrected row keeps its campaign.
THEOREM CorrectedOnceHolds == Spec => CorrectedOnce
<1>1. Spec => []Types
  BY InitTypes, TypesStep, PTL DEF Spec
<1>2. Types /\ [Next]_vars =>
        [\A i \in DOMAIN touches : touches[i].marker # "none"
            => /\ touches'[i].campaign = touches[i].campaign
               /\ touches'[i].marker = touches[i].marker]_vars
  BY TypesStep DEF RowsKept
<1> QED BY <1>1, <1>2, PTL DEF Spec, CorrectedOnce

-----------------------------------------------------------------------------
(* The link of a stitched row, and the source of a propagated campaign.    *)

\* A row as it is stored by each step that stores one.
LEMMA ReceiveStores ==
  ASSUME Types, NEW w \in Writers, Receive(w)
  PROVE  \E row \in Rows :
           /\ row.user = row.posted
           /\ row.marker # "propagated"
           /\ \/ Store(w, row)
              \/ row.marker = "none" /\ Goto(w, "lookup", row) /\ UNCHANGED touches
<1>1. PICK post \in Posts :
        LET row == [session |-> post.session, posted |-> post.user, user |-> post.user,
                    referrer |-> post.referrer, campaign |-> post.label, marker |-> "none"]
            decrypted == post.referrer \in Campaigns /\ hasKey
        IN
        \/ decrypted /\ Store(w, WithIds(row, post.referrer, "nonce"))
        \/ ~decrypted /\ post.label = Own /\ Store(w, row)
        \/ ~decrypted /\ post.label = Generic /\ Goto(w, "lookup", row) /\ UNCHANGED touches
  BY DEF Receive
<1> DEFINE row == [session |-> post.session, posted |-> post.user, user |-> post.user,
                   referrer |-> post.referrer, campaign |-> post.label, marker |-> "none"]
<1>2. row \in Rows /\ row.user = row.posted /\ row.marker = "none"
  BY TouchAssumption DEF Rows, Markers
<1> HIDE DEF row
<1>3. CASE post.referrer \in Campaigns /\ Store(w, WithIds(row, post.referrer, "nonce"))
  <2> DEFINE new == WithIds(row, post.referrer, "nonce")
  <2>1. new \in Rows /\ new.user = new.posted /\ new.marker # "propagated"
    BY <1>2, <1>3, WithIdsType DEF Markers
  <2> QED BY <1>3, <2>1
<1>4. CASE Store(w, row)
  BY <1>2, <1>4
<1>5. CASE Goto(w, "lookup", row) /\ UNCHANGED touches
  BY <1>2, <1>5
<1> QED BY <1>1, <1>3, <1>4, <1>5 DEF row

\* Among these rows is a decrypted touch of the session with the campaign.
Known(table, row) ==
    \E j \in DOMAIN table : /\ table[j].session = row.session
                            /\ table[j].marker = "nonce"
                            /\ table[j].campaign = row.campaign

LEMMA KnownStays ==
  RowsKept => \A row : Known(touches, row) => Known(touches', row)
BY DEF RowsKept, Known

\* What a request may hold: a row bound for the table belongs to whom it was
\* posted with, a request that stitches has linked its session, and what a
\* request may copy comes from a decrypted touch.
HeldBy(request, table, pairs) ==
    LET row == request.row IN
    /\ request.pc \in {"lookup", "insert"} => row.user = row.posted
    /\ request.pc = "stitch" => <<row.session, row.posted>> \in pairs
    /\ request.pc = "propagate" => row.marker = "nonce"
    /\ request.pc # "idle" /\ row.marker # "none" => Known(table, row)

Held == \A w \in Writers : HeldBy(writer[w], touches, links)

Sourced == \A i \in DOMAIN touches : touches[i].marker = "propagated" => Known(touches, touches[i])

BoundInv == Types /\ Held /\ Sourced /\ StitchedAreLinked

\* The rows of the next state are sourced and linked ...
BoundNext ==
    \A i \in DOMAIN touches' :
        /\ touches'[i].marker = "propagated" => Known(touches', touches'[i])
        /\ touches'[i].user # touches'[i].posted =>
              <<touches'[i].session, touches'[i].user>> \in links'

\* ... and what the request that moves holds, with links that only grow, is all
\* that can go wrong.
LEMMA HeldByOne ==
  ASSUME Types, Types', Held, RowsKept, links \subseteq links', NEW w \in Writers,
         \A v \in Writers \ {w} : writer'[v] = writer[v],
         HeldBy(writer'[w], touches', links'),
         BoundNext
  PROVE  BoundInv'
<1>1. ASSUME NEW v \in Writers \ {w} PROVE HeldBy(writer'[v], touches', links')
  <2>1. HeldBy(writer[v], touches, links)
    BY <1>1 DEF Held
  <2>2. HeldBy(writer[v], touches', links')
    BY <2>1, KnownStays DEF HeldBy
  <2> QED BY <1>1, <2>2
<1>2. Held'
  BY <1>1 DEF Held
<1>3. Sourced'
  BY DEF BoundNext, Sourced
<1>4. StitchedAreLinked'
  BY DEF BoundNext, StitchedAreLinked
<1> QED BY <1>2, <1>3, <1>4 DEF BoundInv

\* Rows that stay as they are stay sourced and linked.
LEMMA RowStays ==
  ASSUME BoundInv, RowsKept, links \subseteq links', NEW i \in DOMAIN touches,
         NEW row, row.session = touches[i].session, row.campaign = touches[i].campaign,
         row.marker = touches[i].marker
  PROVE  /\ row.marker = "propagated" => Known(touches', row)
         /\ row.user = touches[i].user /\ row.posted = touches[i].posted /\ row.user # row.posted =>
               <<row.session, row.user>> \in links'
<1>1. row.marker = "propagated" => Known(touches, touches[i])
  BY DEF BoundInv, Sourced
<1>2. row.marker = "propagated" => Known(touches', touches[i])
  BY <1>1, KnownStays
<1>3. row.marker = "propagated" => Known(touches', row)
  BY <1>2 DEF Known
<1>4. touches[i].user # touches[i].posted => <<touches[i].session, touches[i].user>> \in links
  BY DEF BoundInv, StitchedAreLinked
<1> QED BY <1>3, <1>4

\* A row is stored.
LEMMA StoreBound ==
  ASSUME BoundInv, Types', NEW w \in Writers, NEW row \in Rows, Store(w, row),
         row.user = row.posted, row.marker = "propagated" => Known(touches, row),
         links' = links
  PROVE  BoundInv'
<1>1. /\ RowsKept
      /\ touches'[Len(touches')] = row
      /\ \A i \in DOMAIN touches : touches'[i] = touches[i]
      /\ DOMAIN touches' = DOMAIN touches \cup {Len(touches')}
      /\ writer'[w] \in {[pc |-> "link", row |-> row], [pc |-> "propagate", row |-> row], Resting}
      /\ writer'[w].pc = "propagate" => row.marker = "nonce"
      /\ \A v \in Writers \ {w} : writer'[v] = writer[v]
  BY StoreStep DEF BoundInv
<1>2. row.marker # "none" => Known(touches', row)
  <2>1. row.marker = "propagated" => Known(touches', row)
    BY <1>1, KnownStays
  <2>2. row.marker = "nonce" => Known(touches', row)
    BY <1>1 DEF Known
  <2> QED BY <2>1, <2>2 DEF Rows, Markers
<1>3. HeldBy(writer'[w], touches', links')
  BY <1>1, <1>2 DEF HeldBy, Resting
<1>4. BoundNext
  <2> SUFFICES ASSUME NEW i \in DOMAIN touches'
               PROVE  /\ touches'[i].marker = "propagated" => Known(touches', touches'[i])
                      /\ touches'[i].user # touches'[i].posted =>
                            <<touches'[i].session, touches'[i].user>> \in links'
    BY DEF BoundNext
  <2>1. CASE i = Len(touches')
    BY <1>1, <1>2, <2>1
  <2>2. CASE i \in DOMAIN touches
    BY <1>1, <2>2, RowStays
  <2> QED BY <1>1, <2>1, <2>2
<1> QED BY <1>1, <1>3, <1>4, HeldByOne DEF BoundInv

\* A request moves on, or ends, and updates rows in place.
LEMMA InPlaceBound ==
  ASSUME BoundInv, Types', RowsKept, NEW w \in Writers,
         links \subseteq links',
         \A v \in Writers \ {w} : writer'[v] = writer[v],
         HeldBy(writer'[w], touches', links'),
         DOMAIN touches' = DOMAIN touches,
         \A i \in DOMAIN touches :
            \/ touches'[i] = touches[i]
            \/ /\ touches'[i].user = touches[i].user
               /\ touches'[i].marker = "propagated" => Known(touches', touches'[i])
            \/ /\ touches'[i].campaign = touches[i].campaign /\ touches'[i].marker = touches[i].marker
               /\ <<touches'[i].session, touches'[i].user>> \in links'
  PROVE  BoundInv'
<1>1. ASSUME NEW i \in DOMAIN touches
      PROVE  /\ touches'[i].marker = "propagated" => Known(touches', touches'[i])
             /\ touches'[i].user # touches'[i].posted =>
                   <<touches'[i].session, touches'[i].user>> \in links'
  <2>1. touches'[i].session = touches[i].session /\ touches'[i].posted = touches[i].posted
    BY DEF RowsKept
  <2>2. CASE touches'[i] = touches[i]
    BY <2>2, RowStays
  <2>3. CASE /\ touches'[i].user = touches[i].user
             /\ touches'[i].marker = "propagated" => Known(touches', touches'[i])
    <3>1. touches[i].user # touches[i].posted => <<touches[i].session, touches[i].user>> \in links
      BY DEF BoundInv, StitchedAreLinked
    <3> QED BY <2>1, <2>3, <3>1
  <2>4. CASE /\ touches'[i].campaign = touches[i].campaign /\ touches'[i].marker = touches[i].marker
             /\ <<touches'[i].session, touches'[i].user>> \in links'
    BY <2>1, <2>4, RowStays
  <2> QED BY <2>2, <2>3, <2>4
<1>2. BoundNext
  BY <1>1 DEF BoundNext
<1> QED BY <1>2, HeldByOne DEF BoundInv

LEMMA LookupBound ==
  ASSUME BoundInv, Types', RowsKept, NEW w \in Writers, Lookup(w) \/ LookupFails(w)
  PROVE  BoundInv'
<1> DEFINE row == writer[w].row
           known == NonceRows(row.session)
           found == WithIds(row, touches[First(known)].campaign, "propagated")
<1>0. TypeOK /\ HeldBy(writer[w], touches, links) /\ UNCHANGED <<touches, links>>
  BY DEF BoundInv, Types, Held, Lookup, LookupFails
<1>1. row \in Rows /\ row.user = row.posted /\ (row.marker # "none" => Known(touches, row))
  BY <1>0, WriterRow DEF Lookup, LookupFails, HeldBy
<1>2. known # {} => /\ found \in Rows /\ found.user = found.posted
                    /\ Known(touches, found)
  <2> SUFFICES ASSUME known # {} PROVE /\ found \in Rows /\ found.user = found.posted
                                       /\ Known(touches, found)
    OBVIOUS
  <2> DEFINE j == First(known)
  <2>1. known \in SUBSET Nat
    BY <1>0 DEF NonceRows, TypeOK
  <2>2. j \in known
    BY <2>1, FirstIn
  <2>3. j \in DOMAIN touches /\ touches[j].session = row.session /\ touches[j].marker = "nonce"
    BY <2>2 DEF NonceRows
  <2>4. touches[j].campaign \in Campaigns \cup {Generic, Own}
    BY <1>0, <2>3, RowType DEF Rows
  <2>5. /\ found \in Rows /\ found.user = row.user /\ found.posted = row.posted
        /\ found.session = row.session /\ found.campaign = touches[j].campaign
    <3> DEFINE c == touches[j].campaign
    <3>1. row \in Rows /\ "propagated" \in Markers /\ found = WithIds(row, c, "propagated")
      BY <1>1 DEF Markers
    <3>2. c \in Campaigns \cup {Generic, Own}
      BY <2>4
    <3> HIDE DEF row, j, c
    <3>3. /\ WithIds(row, c, "propagated") \in Rows
          /\ WithIds(row, c, "propagated").user = row.user
          /\ WithIds(row, c, "propagated").posted = row.posted
          /\ WithIds(row, c, "propagated").session = row.session
          /\ WithIds(row, c, "propagated").campaign = c
      BY <3>1, <3>2, WithIdsType
    <3> HIDE DEF found
    <3>4. found \in Rows /\ found.user = row.user /\ found.posted = row.posted
          /\ found.session = row.session /\ found.campaign = c
      BY <3>1, <3>3
    <3> QED BY <3>4 DEF c
  <2> QED BY <1>1, <2>3, <2>5 DEF Known
<1>3. \E new \in Rows : /\ new.user = new.posted /\ (new.marker # "none" => Known(touches, new))
                        /\ Goto(w, "insert", new)
  <2>1. CASE LookupFails(w) \/ known = {}
    BY <1>1, <2>1 DEF Lookup, LookupFails
  <2>2. CASE Lookup(w) /\ known # {}
    BY <1>2, <2>2 DEF Lookup
  <2> QED BY <2>1, <2>2
<1>4. PICK new \in Rows : /\ new.user = new.posted /\ (new.marker # "none" => Known(touches, new))
                          /\ Goto(w, "insert", new)
  BY <1>3
<1>5. writer'[w] = [pc |-> "insert", row |-> new] /\ \A v \in Writers \ {w} : writer'[v] = writer[v]
  BY <1>0, <1>4, WriterMoves
<1>6. HeldBy(writer'[w], touches', links')
  BY <1>0, <1>4, <1>5 DEF HeldBy
<1> QED BY <1>0, <1>5, <1>6, InPlaceBound

LEMMA ReceiveBound ==
  ASSUME BoundInv, Types', RowsKept, NEW w \in Writers, Receive(w)
  PROVE  BoundInv'
<1>0. Types /\ TypeOK /\ links' = links
  BY DEF BoundInv, Types, Receive
<1>1. PICK row \in Rows :
           /\ row.user = row.posted
           /\ row.marker # "propagated"
           /\ \/ Store(w, row)
              \/ row.marker = "none" /\ Goto(w, "lookup", row) /\ UNCHANGED touches
  BY <1>0, ReceiveStores
<1>2. CASE Store(w, row)
  BY <1>0, <1>1, <1>2, StoreBound
<1>3. CASE row.marker = "none" /\ Goto(w, "lookup", row) /\ UNCHANGED touches
  <2>1. writer'[w] = [pc |-> "lookup", row |-> row] /\ \A v \in Writers \ {w} : writer'[v] = writer[v]
    BY <1>0, <1>3, WriterMoves
  <2>2. HeldBy(writer'[w], touches', links')
    BY <1>1, <1>3, <2>1 DEF HeldBy
  <2> QED BY <1>0, <1>3, <2>1, <2>2, InPlaceBound
<1> QED BY <1>1, <1>2, <1>3

LEMMA InsertBound ==
  ASSUME BoundInv, Types', NEW w \in Writers, Insert(w)
  PROVE  BoundInv'
<1>1. TypeOK /\ HeldBy(writer[w], touches, links) /\ writer[w].pc = "insert"
  BY DEF BoundInv, Types, Held, Insert
<1>2. /\ writer[w].row \in Rows /\ writer[w].row.user = writer[w].row.posted
      /\ writer[w].row.marker = "propagated" => Known(touches, writer[w].row)
  BY <1>1, WriterRow DEF HeldBy
<1> QED BY <1>2, StoreBound DEF Insert

LEMMA LinkBound ==
  ASSUME BoundInv, Types', RowsKept, NEW w \in Writers, Link(w)
  PROVE  BoundInv'
<1> DEFINE row == writer[w].row
<1>1. TypeOK /\ HeldBy(writer[w], touches, links) /\ writer[w].pc = "link" /\ touches' = touches
      /\ links' = links \cup {<<row.session, row.posted>>} /\ Goto(w, "stitch", row)
  BY DEF BoundInv, Types, Held, Link
<1>2. row \in Rows /\ (row.marker # "none" => Known(touches, row))
  BY <1>1, WriterRow DEF HeldBy
<1>3. writer'[w] = [pc |-> "stitch", row |-> row] /\ \A v \in Writers \ {w} : writer'[v] = writer[v]
  BY <1>1, <1>2, WriterMoves
<1>4. HeldBy(writer'[w], touches', links')
  BY <1>1, <1>2, <1>3 DEF HeldBy
<1> QED BY <1>1, <1>3, <1>4, InPlaceBound

LEMMA StitchBound ==
  ASSUME BoundInv, Types', RowsKept, NEW w \in Writers, Stitch(w)
  PROVE  BoundInv'
<1> DEFINE row == writer[w].row
<1>1. TypeOK /\ HeldBy(writer[w], touches, links) /\ writer[w].pc = "stitch" /\ links' = links
      /\ AfterStitch(w, row)
  BY DEF BoundInv, Types, Held, Stitch
<1>2. /\ row \in Rows /\ (row.marker # "none" => Known(touches, row))
      /\ <<row.session, row.posted>> \in links
  BY <1>1, WriterRow DEF HeldBy
<1>3. /\ touches' = [i \in DOMAIN touches |->
                       IF touches[i].session = row.session /\ touches[i].user = Nobody
                       THEN [touches[i] EXCEPT !.user = row.posted] ELSE touches[i]]
  BY DEF Stitch
<1>4. \A i \in DOMAIN touches :
         \/ touches'[i] = touches[i]
         \/ /\ touches'[i].campaign = touches[i].campaign /\ touches'[i].marker = touches[i].marker
            /\ <<touches'[i].session, touches'[i].user>> \in links'
  BY <1>1, <1>2, <1>3, RowType DEF Rows
<1>5. HeldBy(writer'[w], touches', links') /\ \A v \in Writers \ {w} : writer'[v] = writer[v]
  <2>1. row.marker # "none" => Known(touches', row)
    BY <1>2, KnownStays
  <2>2. CASE row.marker = "nonce" /\ Goto(w, "propagate", row)
    <3>1. writer'[w] = [pc |-> "propagate", row |-> row] /\ \A v \in Writers \ {w} : writer'[v] = writer[v]
      BY <1>1, <1>2, <2>2, WriterMoves
    <3> QED BY <2>1, <2>2, <3>1 DEF HeldBy
  <2>3. CASE Done(w)
    <3>1. writer'[w] = Resting /\ Resting.pc = "idle" /\ \A v \in Writers \ {w} : writer'[v] = writer[v]
      BY <1>1, <2>3, WriterDone
    <3> QED BY <3>1 DEF HeldBy
  <2> QED BY <1>1, <2>2, <2>3 DEF AfterStitch
<1> QED BY <1>1, <1>3, <1>4, <1>5, InPlaceBound

LEMMA PropagateBound ==
  ASSUME BoundInv, Types', RowsKept, NEW w \in Writers, Propagate(w)
  PROVE  BoundInv'
<1> DEFINE row == writer[w].row
<1>1. TypeOK /\ HeldBy(writer[w], touches, links) /\ writer[w].pc = "propagate" /\ links' = links
      /\ Done(w)
  BY DEF BoundInv, Types, Held, Propagate
<1>2. row \in Rows /\ Known(touches, row)
  BY <1>1, WriterRow DEF HeldBy
<1>3. Known(touches', row)
  BY <1>2, KnownStays
<1>4. touches' = [i \in DOMAIN touches |->
                    IF touches[i].session = row.session /\ Uncorrected(touches[i])
                    THEN WithIds(touches[i], row.campaign, "propagated") ELSE touches[i]]
  BY DEF Propagate
<1>5. ASSUME NEW i \in DOMAIN touches, touches'[i] # touches[i]
      PROVE  touches'[i].user = touches[i].user /\ Known(touches', touches'[i])
  <2>1. touches[i].session = row.session /\ touches'[i] = WithIds(touches[i], row.campaign, "propagated")
    BY <1>4, <1>5
  <2>2. touches[i] \in Rows /\ row.campaign \in Campaigns \cup {Generic, Own}
    BY <1>1, <1>2, RowType DEF Rows
  <2>3. touches'[i].user = touches[i].user /\ touches'[i].session = row.session
        /\ touches'[i].campaign = row.campaign
    BY <2>1, <2>2, WithIdsType DEF Markers
  <2> QED BY <1>3, <2>3 DEF Known
<1>6. HeldBy(writer'[w], touches', links') /\ \A v \in Writers \ {w} : writer'[v] = writer[v]
  BY <1>1, WriterDone DEF HeldBy
<1> QED BY <1>1, <1>4, <1>5, <1>6, InPlaceBound

LEMMA AbandonBound ==
  ASSUME BoundInv, Types', RowsKept, NEW w \in Writers, Abandon(w)
  PROVE  BoundInv'
<1>1. TypeOK /\ Done(w) /\ UNCHANGED <<touches, links>>
  BY DEF BoundInv, Types, Abandon
<1>2. HeldBy(writer'[w], touches', links') /\ \A v \in Writers \ {w} : writer'[v] = writer[v]
  BY <1>1, WriterDone DEF HeldBy
<1> QED BY <1>1, <1>2, InPlaceBound

\* The requests stay as they are; rows are corrected in place.
LEMMA CorrectedBound ==
  ASSUME BoundInv, Types', RowsKept, UNCHANGED <<writer, links>>,
         DOMAIN touches' = DOMAIN touches,
         \A i \in DOMAIN touches :
            \/ touches'[i] = touches[i]
            \/ /\ touches'[i].user = touches[i].user
               /\ touches'[i].marker = "propagated" => Known(touches', touches'[i])
  PROVE  BoundInv'
<1>1. Held'
  <2> SUFFICES ASSUME NEW w \in Writers PROVE HeldBy(writer[w], touches', links)
    BY DEF Held
  <2>1. HeldBy(writer[w], touches, links)
    BY DEF BoundInv, Held
  <2> QED BY <2>1, KnownStays DEF HeldBy
<1>2. ASSUME NEW i \in DOMAIN touches
      PROVE  /\ touches'[i].marker = "propagated" => Known(touches', touches'[i])
             /\ touches'[i].user # touches'[i].posted =>
                   <<touches'[i].session, touches'[i].user>> \in links'
  <2>1. touches'[i].session = touches[i].session /\ touches'[i].posted = touches[i].posted
    BY DEF RowsKept
  <2>2. CASE touches'[i] = touches[i]
    BY <2>2, RowStays
  <2>3. CASE /\ touches'[i].user = touches[i].user
             /\ touches'[i].marker = "propagated" => Known(touches', touches'[i])
    <3>1. touches[i].user # touches[i].posted => <<touches[i].session, touches[i].user>> \in links
      BY DEF BoundInv, StitchedAreLinked
    <3> QED BY <2>1, <2>3, <3>1
  <2> QED BY <2>2, <2>3
<1>3. Sourced'
  BY <1>2 DEF Sourced
<1>4. StitchedAreLinked'
  BY <1>2 DEF StitchedAreLinked
<1> QED BY <1>1, <1>3, <1>4 DEF BoundInv

LEMMA DecryptRowBound ==
  ASSUME BoundInv, Types', RowsKept, DecryptRow
  PROVE  BoundInv'
<1>1. Types /\ UNCHANGED <<writer, links>>
  BY DEF BoundInv, DecryptRow
<1>2. /\ touches' \in [DOMAIN touches -> Rows]
      /\ \A i \in DOMAIN touches :
            touches'[i] = IF /\ i = First(backfill.page)
                             /\ touches[i].referrer \in Campaigns /\ touches[i].marker = "none"
                          THEN WithIds(touches[i], touches[i].referrer, "nonce")
                          ELSE touches[i]
  BY <1>1, DecryptRowTypes
<1>3. ASSUME NEW i \in DOMAIN touches, touches'[i] # touches[i]
      PROVE  touches'[i].user = touches[i].user /\ touches'[i].marker # "propagated"
  <2>1. touches[i] \in Rows /\ touches[i].referrer \in Campaigns
        /\ touches'[i] = WithIds(touches[i], touches[i].referrer, "nonce")
    BY <1>1, <1>2, <1>3, RowType DEF Types
  <2> QED BY <2>1, WithIdsType DEF Markers
<1> QED BY <1>1, <1>2, <1>3, CorrectedBound

LEMMA SpreadBound ==
  ASSUME BoundInv, Types', RowsKept, Spread
  PROVE  BoundInv'
<1>1. Types /\ TypeOK /\ UNCHANGED <<writer, links>>
  BY DEF BoundInv, Types, Spread
<1>2. touches' = [i \in DOMAIN touches |->
                    LET known == NonceRows(touches[i].session) IN
                    IF Uncorrected(touches[i]) /\ known # {}
                    THEN WithIds(touches[i], touches[First(known)].campaign, "propagated")
                    ELSE touches[i]]
  BY DEF Spread
<1>3. ASSUME NEW i \in DOMAIN touches, touches'[i] # touches[i]
      PROVE  touches'[i].user = touches[i].user /\ Known(touches', touches'[i])
  <2> DEFINE known == NonceRows(touches[i].session)
             j == First(known)
  <2>1. known # {} /\ touches'[i] = WithIds(touches[i], touches[j].campaign, "propagated")
    BY <1>2, <1>3
  <2>2. known \in SUBSET Nat
    BY <1>1 DEF NonceRows, TypeOK
  <2>3. j \in known
    BY <2>1, <2>2, FirstIn
  <2>4. j \in DOMAIN touches /\ touches[j].session = touches[i].session /\ touches[j].marker = "nonce"
    BY <2>3 DEF NonceRows
  <2>5. touches[i] \in Rows /\ touches[j].campaign \in Campaigns \cup {Generic, Own}
    BY <1>1, <2>4, RowType DEF Rows
  <2>6. touches'[i].user = touches[i].user /\ touches'[i].session = touches[i].session
        /\ touches'[i].campaign = touches[j].campaign
    BY <2>1, <2>5, WithIdsType DEF Markers
  <2>7. Known(touches, touches'[i])
    BY <2>4, <2>6 DEF Known
  <2> QED BY <2>6, <2>7, KnownStays
<1> QED BY <1>1, <1>2, <1>3, CorrectedBound

LEMMA BoundStep ==
  ASSUME BoundInv, [Next]_vars
  PROVE  BoundInv'
<1>1. Types' /\ RowsKept
  BY TypesStep DEF BoundInv
<1>2. CASE UNCHANGED <<touches, writer, links>>
  BY <1>1, <1>2, CorrectedBound
<1>3. CASE \E w \in Writers : WriterStep(w)
  BY <1>1, <1>3, ReceiveBound, LookupBound, InsertBound, LinkBound, StitchBound,
     PropagateBound, AbandonBound DEF WriterStep
<1>4. CASE DecryptRow \/ Spread
  BY <1>1, <1>4, DecryptRowBound, SpreadBound
<1> QED BY <1>2, <1>3, <1>4
        DEF Next, vars, BackfillStep, ConfigureKey, StartBackfill, NextPage, BackfillDies

LEMMA InitBound == Init => BoundInv
<1> SUFFICES ASSUME Init PROVE BoundInv
  OBVIOUS
<1>1. DOMAIN touches = {} /\ \A w \in Writers : writer[w].pc = "idle"
  BY DEF Init, Resting
<1> QED BY <1>1, InitTypes DEF BoundInv, Held, HeldBy, Sourced, StitchedAreLinked

\* writeTouch: a row bound to a user it was not posted with is linked to him.
THEOREM StitchedHolds == Spec => []StitchedAreLinked
<1>1. Spec => []BoundInv
  BY InitBound, BoundStep, PTL DEF Spec
<1>2. BoundInv => StitchedAreLinked
  BY DEF BoundInv
<1> QED BY <1>1, <1>2, PTL

\* withSessionMetaIds, propagateMetaReferrerToSession, propagateAllSessions: a
\* copied campaign is that of a decrypted touch of the session.
THEOREM PropagatedHolds == Spec => []PropagatedFromSession
<1>1. Spec => []BoundInv
  BY InitBound, BoundStep, PTL DEF Spec
<1>2. BoundInv => PropagatedFromSession
  BY DEF BoundInv, Sourced, Known, PropagatedFromSession, NonceRows
<1> QED BY <1>1, <1>2, PTL

-----------------------------------------------------------------------------
(* What a backfill run covers.                                             *)

\* A row is not decrypted unless its own envelope is, and keeps its label until
\* it is corrected.
RowStep ==
    \A i \in DOMAIN touches :
        /\ touches'[i].marker = "nonce" => touches[i].marker = "nonce" \/ touches[i].referrer \in Campaigns
        /\ Uncorrected(touches'[i]) => Uncorrected(touches[i])

\* Rows up to upto with an envelope that decrypts are corrected, or still ahead.
Ahead ==
    \A i \in 1..backfill.upto :
        touches[i].referrer \in Campaigns /\ touches[i].marker = "none" =>
            /\ backfill.pc # "spread"
            /\ backfill.pc = "page" => i > backfill.last
            /\ backfill.pc = "row" => i \in backfill.page \/ i > backfill.last

CoverInv == Types /\ Ahead /\ BackfillCovers

LEMMA RowStepHolds ==
  ASSUME Types, [Next]_vars
  PROVE  RowStep
<1> USE DEF Types
<1>0. TypeOK
  OBVIOUS
<1>1. CASE \A i \in DOMAIN touches : touches'[i] = touches[i]
  BY <1>1 DEF RowStep
<1>2. ASSUME NEW w \in Writers, NEW row \in Rows, Store(w, row) PROVE RowStep
  BY <1>1, <1>2, StoreStep
<1>3. ASSUME NEW w \in Writers, Receive(w) PROVE RowStep
  BY <1>1, <1>2, <1>3, ReceiveStores
<1>4. ASSUME NEW w \in Writers, Insert(w) PROVE RowStep
  BY <1>2, <1>4, WriterRow DEF Insert
<1>5. ASSUME NEW w \in Writers, Stitch(w) PROVE RowStep
  <2>1. \A i \in DOMAIN touches : touches'[i].marker = touches[i].marker
                                  /\ touches'[i].campaign = touches[i].campaign
    BY <1>5, RowType DEF Stitch, Rows
  <2> QED BY <2>1 DEF RowStep, Uncorrected
<1>6. ASSUME NEW w \in Writers, Propagate(w) PROVE RowStep
  <2> DEFINE row == writer[w].row
  <2>1. row.campaign \in Campaigns \cup {Generic, Own}
    BY <1>6, WriterRow DEF Propagate, Rows
  <2>2. \A i \in DOMAIN touches : \/ touches'[i] = touches[i]
                                  \/ touches'[i] = WithIds(touches[i], row.campaign, "propagated")
    BY <1>6 DEF Propagate
  <2>3. \A i \in DOMAIN touches : touches'[i] = touches[i] \/ touches'[i].marker = "propagated"
    BY <2>1, <2>2, RowType, WithIdsType DEF Markers
  <2> QED BY <2>3 DEF RowStep, Uncorrected
<1>7. ASSUME DecryptRow PROVE RowStep
  <2>1. \A i \in DOMAIN touches :
           \/ touches'[i] = touches[i]
           \/ touches[i].referrer \in Campaigns
              /\ touches'[i] = WithIds(touches[i], touches[i].referrer, "nonce")
    BY <1>7, DecryptRowTypes
  <2>2. \A i \in DOMAIN touches :
           touches'[i] = touches[i] \/ (touches[i].referrer \in Campaigns /\ touches'[i].marker = "nonce")
    <3> SUFFICES ASSUME NEW i \in DOMAIN touches, touches[i].referrer \in Campaigns,
                        touches'[i] = WithIds(touches[i], touches[i].referrer, "nonce")
                 PROVE  touches'[i].marker = "nonce"
      BY <2>1
    <3>1. touches[i] \in Rows /\ "nonce" \in Markers
      BY <1>0, RowType DEF Markers
    <3> QED BY <3>1, WithIdsType
  <2> QED BY <2>2 DEF RowStep, Uncorrected
<1>8. ASSUME Spread PROVE RowStep
  <2>1. \A i \in DOMAIN touches : \/ touches'[i] = touches[i]
                                  \/ /\ NonceRows(touches[i].session) # {}
                                     /\ touches'[i] = WithIds(touches[i],
                                          touches[First(NonceRows(touches[i].session))].campaign,
                                          "propagated")
    BY <1>8 DEF Spread
  <2>2. ASSUME NEW i \in DOMAIN touches, NonceRows(touches[i].session) # {}
        PROVE  touches[First(NonceRows(touches[i].session))].campaign \in Campaigns \cup {Generic, Own}
    <3>1. NonceRows(touches[i].session) \in SUBSET Nat
      BY DEF NonceRows, TypeOK
    <3>2. First(NonceRows(touches[i].session)) \in DOMAIN touches
      BY <2>2, <3>1, FirstIn DEF NonceRows
    <3> QED BY <3>2, RowType DEF Rows
  <2>3. \A i \in DOMAIN touches : touches'[i] = touches[i] \/ touches'[i].marker = "propagated"
    <3> SUFFICES ASSUME NEW i \in DOMAIN touches, touches'[i] # touches[i]
                 PROVE  touches'[i].marker = "propagated"
      OBVIOUS
    <3> DEFINE c == touches[First(NonceRows(touches[i].session))].campaign
    <3>1. touches'[i] = WithIds(touches[i], c, "propagated") /\ c \in Campaigns \cup {Generic, Own}
      BY <2>1, <2>2
    <3> HIDE DEF c
    <3>2. touches[i] \in Rows /\ "propagated" \in Markers
      BY <1>0, RowType DEF Markers
    <3> QED BY <3>1, <3>2, WithIdsType
  <2> QED BY <2>3 DEF RowStep, Uncorrected
<1>9. CASE touches' = touches
  BY <1>1, <1>9
<1> QED BY <1>3, <1>4, <1>5, <1>6, <1>7, <1>8, <1>9
        DEF Next, vars, WriterStep, BackfillStep, Lookup, LookupFails, Link, Abandon,
            ConfigureKey, StartBackfill, NextPage, BackfillDies

\* What is covered, or ahead, stays so while the backfill does not move.
LEMMA CoverStays ==
  ASSUME Types, Types', RowsKept, RowStep, BackfillCovers, covered' = covered
  PROVE  BackfillCovers'
<1>1. 1..covered \subseteq DOMAIN touches
  BY DEF Types, TypeOK
<1>2. ASSUME NEW i \in 1..covered, touches'[i].referrer \in Campaigns
      PROVE  touches'[i].marker # "none"
  BY <1>1, <1>2 DEF RowsKept, BackfillCovers
<1>3. ASSUME NEW i \in 1..covered, NEW j \in 1..covered, Uncorrected(touches'[i]),
             touches'[j].session = touches'[i].session, touches'[j].marker = "nonce"
      PROVE  FALSE
  <2>1. Uncorrected(touches[i]) /\ touches[j].session = touches[i].session
    BY <1>1, <1>3 DEF RowsKept, RowStep
  <2>2. touches[j].marker = "nonce"
    BY <1>1, <1>3 DEF RowsKept, RowStep, BackfillCovers
  <2>3. j \in NonceRows(touches[i].session) \cap (1..covered)
    BY <1>1, <2>1, <2>2 DEF NonceRows
  <2> QED BY <2>1, <2>3 DEF BackfillCovers
<1> QED BY <1>2, <1>3 DEF BackfillCovers, NonceRows

\* A row that is corrected in the next state's sense was not before.
LEMMA AheadStays ==
  ASSUME Types, RowsKept, Ahead, backfill' = backfill
  PROVE  Ahead'
<1>1. 1..backfill.upto \subseteq DOMAIN touches
  BY DEF Types, TypeOK, Backfills
<1> QED BY <1>1 DEF Ahead, RowsKept

LEMMA NextPageAhead ==
  ASSUME Types, Ahead, NextPage PROVE Ahead'
<1> DEFINE S == {i \in Candidates : i > backfill.last}
           rows == FirstPage(S)
           last == CHOOSE i \in rows : \A j \in rows : j <= i
<1>0. TypeOK
  BY DEF Types
<1>1. S \in SUBSET (1..Len(touches)) /\ Len(touches) \in Nat
      /\ 1..backfill.upto \subseteq DOMAIN touches
  BY DEF Candidates, Types, TypeOK, Backfills
<1>2. ReadPage(rows, IF rows = {} THEN 0 ELSE last) /\ touches' = touches /\ backfill.pc = "page"
  BY DEF NextPage
<1>3. S # {} => /\ rows \subseteq S /\ rows # {}
                /\ \A i \in S \ rows, m \in rows : m < i
  BY <1>1, FirstPageOf
<1>4. \A i \in 1..backfill.upto :
        touches[i].referrer \in Campaigns /\ touches[i].marker = "none" => i \in S
  BY <1>1, <1>2, TouchAssumption DEF Ahead, Candidates
<1>5. CASE rows = {}
  <2>1. S = {} /\ backfill' = [backfill EXCEPT !.pc = "spread"]
    BY <1>2, <1>3, <1>5 DEF ReadPage
  <2>2. backfill'.upto = backfill.upto
    BY <1>0, <2>1 DEF TypeOK, Backfills
  <2> QED BY <1>2, <1>4, <2>1, <2>2 DEF Ahead
<1>6. CASE rows # {}
  <2>1. S # {}
    BY <1>6 DEF FirstPage
  <2>2. last \in rows
    BY <1>1, <1>3, <1>6, <2>1, Greatest
  <2>3. backfill' = [pc |-> "row", last |-> last, page |-> rows, upto |-> backfill.upto]
    BY <1>2, <1>6 DEF ReadPage
  <2>4. \A i \in S : i \in rows \/ i > last
    <3> SUFFICES ASSUME NEW i \in S \ rows PROVE i > last
      OBVIOUS
    <3>1. last < i /\ last \in Nat /\ i \in Nat
      BY <1>1, <1>3, <2>1, <2>2
    <3> QED BY <3>1
  <2> HIDE DEF rows, last, S
  <2> QED BY <1>2, <1>4, <2>3, <2>4 DEF Ahead
<1> QED BY <1>5, <1>6

LEMMA DecryptRowAhead ==
  ASSUME Types, RowsKept, Ahead, DecryptRow PROVE Ahead'
<1> DEFINE f == First(backfill.page)
<1>0. TypeOK /\ 1..backfill.upto \subseteq DOMAIN touches
  BY DEF Types, TypeOK, Backfills
<1>1. /\ f \in backfill.page
      /\ \A i \in DOMAIN touches :
            touches'[i] = IF i = f /\ touches[i].referrer \in Campaigns /\ touches[i].marker = "none"
                          THEN WithIds(touches[i], touches[i].referrer, "nonce")
                          ELSE touches[i]
  BY DecryptRowTypes
<1>2. backfill.pc = "row" /\ NextRow(f)
  BY DEF DecryptRow
<1>3. /\ backfill'.page = backfill.page \ {f}
      /\ backfill'.pc = IF backfill.page = {f} THEN "page" ELSE "row"
      /\ backfill'.last = backfill.last /\ backfill'.upto = backfill.upto
  BY <1>0, <1>2 DEF NextRow, TypeOK, Backfills
<1> HIDE DEF f
<1>4. ASSUME NEW i \in 1..backfill.upto, touches'[i].referrer \in Campaigns, touches'[i].marker = "none"
      PROVE  /\ touches[i].referrer \in Campaigns /\ touches[i].marker = "none"
             /\ i # f
  <2>1. touches[i].referrer \in Campaigns /\ touches[i].marker = "none"
    BY <1>0, <1>4 DEF RowsKept
  <2>2. touches[i] \in Rows
    BY <1>0, RowType
  <2>3. WithIds(touches[i], touches[i].referrer, "nonce").marker = "nonce"
    BY <2>1, <2>2, WithIdsType DEF Markers
  <2> QED BY <1>0, <1>1, <1>4, <2>1, <2>3
<1>5. \A i \in 1..backfill.upto :
        touches'[i].referrer \in Campaigns /\ touches'[i].marker = "none" =>
            i \in backfill.page \ {f} \/ i > backfill.last
  BY <1>2, <1>4 DEF Ahead
<1> QED BY <1>3, <1>5 DEF Ahead

\* What the last statement of a run leaves.
LEMMA SpreadCovers ==
  ASSUME Types, Types', RowsKept, RowStep, Ahead, Spread PROVE BackfillCovers'
<1>0. TypeOK /\ 1..backfill.upto \subseteq DOMAIN touches /\ backfill.pc = "spread"
      /\ covered' = backfill.upto
  <2>1. TypeOK /\ backfill.upto <= Len(touches)
    BY DEF Types
  <2>2. Len(touches) \in Nat /\ DOMAIN touches = 1..Len(touches) /\ backfill.upto \in Nat
    BY <2>1 DEF TypeOK, Backfills
  <2>3. backfill.pc = "spread" /\ covered' = backfill.upto
    BY DEF Spread
  <2> QED BY <2>1, <2>2, <2>3
<1>1. ASSUME NEW i \in 1..backfill.upto, touches'[i].referrer \in Campaigns
      PROVE  touches'[i].marker # "none"
  <2>1. i \in DOMAIN touches
    BY <1>0
  <2>2. touches[i].referrer \in Campaigns /\ (touches'[i].marker = "none" => touches[i].marker = "none")
    BY <1>1, <2>1 DEF RowsKept
  <2>3. touches[i].marker # "none"
    BY <1>0, <2>2 DEF Ahead
  <2> QED BY <2>2, <2>3
<1>2. ASSUME NEW i \in 1..backfill.upto, NEW j \in 1..backfill.upto, Uncorrected(touches'[i]),
             touches'[j].session = touches'[i].session, touches'[j].marker = "nonce"
      PROVE  FALSE
  <2>1. Uncorrected(touches[i]) /\ touches[j].session = touches[i].session
    BY <1>0, <1>2 DEF RowsKept, RowStep
  <2>2. touches[j].marker = "nonce"
    <3>1. touches[j].marker = "nonce" \/ touches[j].referrer \in Campaigns
      BY <1>0, <1>2 DEF RowStep
    <3>2. touches[j].marker # "none"
      BY <1>0, <3>1 DEF Ahead
    <3> QED BY <1>0, <1>2, <3>2 DEF RowsKept
  <2>3. NonceRows(touches[i].session) # {}
    BY <1>0, <2>1, <2>2 DEF NonceRows
  <2> DEFINE c == touches[First(NonceRows(touches[i].session))].campaign
  <2>4. touches'[i] = WithIds(touches[i], c, "propagated")
    BY <1>0, <2>1, <2>3 DEF Spread
  <2>5. c \in Campaigns \cup {Generic, Own}
    <3>1. NonceRows(touches[i].session) \in SUBSET Nat
      BY <1>0 DEF NonceRows, TypeOK
    <3>2. First(NonceRows(touches[i].session)) \in DOMAIN touches
      BY <2>3, <3>1, FirstIn DEF NonceRows
    <3> QED BY <1>0, <3>2, RowType DEF Rows
  <2> HIDE DEF c
  <2>6. touches'[i].marker = "propagated"
    BY <1>0, <2>4, <2>5, RowType, WithIdsType DEF Markers
  <2> QED BY <1>2, <2>6 DEF Uncorrected
<1> QED BY <1>0, <1>1, <1>2 DEF BackfillCovers, NonceRows

LEMMA CoverStep ==
  ASSUME CoverInv, [Next]_vars
  PROVE  CoverInv'
<1> USE DEF CoverInv
<1>0. Types' /\ RowsKept /\ RowStep
  BY TypesStep, RowStepHolds
<1>1. CASE UNCHANGED <<backfill, covered>>
  BY <1>0, <1>1, AheadStays, CoverStays
<1>2. CASE StartBackfill
  <2>1. Ahead'
    BY <1>2 DEF StartBackfill, Ahead
  <2> QED BY <1>0, <1>2, <2>1, CoverStays DEF StartBackfill
<1>3. CASE NextPage
  BY <1>0, <1>3, NextPageAhead, CoverStays DEF NextPage
<1>4. CASE DecryptRow
  BY <1>0, <1>4, DecryptRowAhead, CoverStays DEF DecryptRow
<1>5. CASE Spread
  <2>1. Ahead'
    BY <1>5, StoppedType DEF Spread, Ahead
  <2> QED BY <1>0, <1>5, <2>1, SpreadCovers
<1>6. CASE BackfillDies
  <2>1. Ahead'
    BY <1>6, StoppedType DEF BackfillDies, Ahead
  <2> QED BY <1>0, <1>6, <2>1, CoverStays DEF BackfillDies
<1> QED BY <1>1, <1>2, <1>3, <1>4, <1>5, <1>6
        DEF Next, vars, WriterStep, BackfillStep, Receive, Lookup, LookupFails, Insert, Link,
            Stitch, Propagate, Abandon, ConfigureKey

\* runMetaReferrerBackfill: whatever the requests do between its pages, a run
\* that has finished has corrected what was there when it began.
THEOREM CoversHolds == Spec => []BackfillCovers
<1>1. Init => CoverInv
  <2> SUFFICES ASSUME Init PROVE CoverInv
    OBVIOUS
  <2>1. backfill.upto = 0 /\ covered = 0
    BY StoppedType DEF Init
  <2> QED BY <2>1, InitTypes DEF CoverInv, Ahead, BackfillCovers
<1>2. Spec => []CoverInv
  BY <1>1, CoverStep, PTL DEF Spec
<1>3. CoverInv => BackfillCovers
  BY DEF CoverInv
<1> QED BY <1>2, <1>3, PTL
=============================================================================
