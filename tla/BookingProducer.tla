-------------------------- MODULE BookingProducer ----------------------------
(***************************************************************************)
(* The backend's producer of conversions.  After every transition of a     *)
(* booking into paid it works out whether it is the user's first order and *)
(* posts the conversion, with timers in memory for up to Backoffs retries. *)
(* On the other side writeConversion inserts one row per order and links   *)
(* the session it carries to its user.  The backend's own handlers are     *)
(* external: they pay and delete bookings.                                 *)
(***************************************************************************)
EXTENDS Naturals, FiniteSets, FiniteSetsExt

CONSTANTS
    Bookings, Buyer,   \* bookings and the user of each
    Calls,             \* transitions of a booking into paid, a set of numbers
    Backoffs,          \* retries of a conversion, Len(BACKOFFS_MS)
    MaxTroubles        \* bound on failed posts and crashes

ASSUME ProducerAssumption ==
    /\ DOMAIN Buyer = Bookings /\ IsFiniteSet(Bookings)
    /\ Calls \subseteq Nat /\ IsFiniteSet(Calls)
    /\ Backoffs \in Nat /\ MaxTroubles \in Nat

VARIABLES
    paid, deleted,   \* bookings with payment_status paid, with a deleted_at
    emission,        \* each call of emitBookingPaid
    conversions,     \* the rows of marketing.conversion
    sessions,        \* bookings whose session and user are linked
    queued,          \* users for whom a booking was paid before the conversion
                     \* of one before it had arrived (history)
    failedPosts,     \* the posts of each booking that failed (history)
    died             \* bookings whose calls the backend died in (history)

producerVars == <<paid, deleted, emission, conversions, sessions, queued, failedPosts, died>>

Emissions == Bookings \X Calls
Buyers == {Buyer[b] : b \in Bookings}
NotCalled == [pc |-> "none", first |-> FALSE, attempt |-> 0]
Ordered(b) == \E c \in conversions : c.booking = b

ProducerTypeOK ==
    /\ deleted \subseteq paid /\ paid \subseteq Bookings
    /\ emission \in [Emissions -> [pc : {"none", "count", "post", "over"}, first : BOOLEAN,
                                   attempt : 0..Backoffs]]
    /\ conversions \subseteq [booking : Bookings, first : BOOLEAN]
    /\ \A c, d \in conversions : c.booking = d.booking => c = d
    /\ sessions \subseteq {c.booking : c \in conversions}
    /\ queued \subseteq Buyers
    /\ failedPosts \in [Bookings -> 0..MaxTroubles] /\ died \subseteq Bookings

ProducerInit ==
    /\ paid = {} /\ deleted = {} /\ conversions = {} /\ sessions = {} /\ queued = {} /\ died = {}
    /\ emission = [x \in Emissions |-> NotCalled]
    /\ failedPosts = [b \in Bookings |-> 0]

-----------------------------------------------------------------------------
\* A transition into paid is committed and emitBookingPaid called for it.
Pay(b, k) ==
    /\ emission[<<b, k>>].pc = "none" /\ b \notin deleted
    /\ paid' = paid \cup {b}
    /\ emission' = [emission EXCEPT ![<<b, k>>].pc = "count"]
    /\ queued' = IF \E x \in paid \ {b} : Buyer[x] = Buyer[b] /\ ~Ordered(x)
                 THEN queued \cup {Buyer[b]} ELSE queued
    /\ UNCHANGED <<deleted, conversions, sessions, failedPosts, died>>

Delete(b) ==
    /\ b \in paid \ deleted
    /\ deleted' = deleted \cup {b}
    /\ UNCHANGED <<paid, emission, conversions, sessions, queued,
                   failedPosts, died>>

\* faulty: the booking itself is counted.
PaidWithItself(b) == {x \in paid \ deleted : Buyer[x] = Buyer[b]}

\* The bookings counted against a first order.
PriorPaid(b) == {x \in paid \ deleted : Buyer[x] = Buyer[b] /\ x # b}

CountPrior(b, k) ==
    /\ emission[<<b, k>>].pc = "count"
    /\ emission' = [emission EXCEPT ![<<b, k>>] =
                        [pc |-> "post", first |-> PriorPaid(b) = {}, attempt |-> 0]]
    /\ UNCHANGED <<paid, deleted, conversions, sessions, queued,
                   failedPosts, died>>

\* writeConversion: the row, unless the order has one, and then the link.
WriteRow(b, first) ==
    conversions' = IF Ordered(b) THEN conversions
                   ELSE conversions \cup {[booking |-> b, first |-> first]}
WriteLink(b) == sessions' = sessions \cup {b}

Troubles == Cardinality(died) + MapThenSumSet(LAMBDA b : failedPosts[b], Bookings)

Failed(b) == Troubles < MaxTroubles /\ failedPosts' = [failedPosts EXCEPT ![b] = failedPosts[b] + 1]

PostConversion(b, k) ==
    /\ emission[<<b, k>>].pc = "post"
    /\ WriteRow(b, emission[<<b, k>>].first) /\ WriteLink(b)
    /\ emission' = [emission EXCEPT ![<<b, k>>].pc = "over"]
    /\ UNCHANGED <<paid, deleted, queued, failedPosts, died>>

\* faulty: one retry too few.
RetryLess(b, k) ==
    emission' = [emission EXCEPT ![<<b, k>>] =
        IF emission[<<b, k>>].attempt + 1 < Backoffs
        THEN [emission[<<b, k>>] EXCEPT !.attempt = emission[<<b, k>>].attempt + 1]
        ELSE [emission[<<b, k>>] EXCEPT !.pc = "over"]]

\* faulty: one retry too many.
RetryMore(b, k) ==
    emission' = [emission EXCEPT ![<<b, k>>] =
        IF emission[<<b, k>>].attempt <= Backoffs
        THEN [emission[<<b, k>>] EXCEPT !.attempt = emission[<<b, k>>].attempt + 1]
        ELSE [emission[<<b, k>>] EXCEPT !.pc = "over"]]

\* The catch of post.
Retry(b, k) ==
    emission' = [emission EXCEPT ![<<b, k>>] =
        IF emission[<<b, k>>].attempt < Backoffs
        THEN [emission[<<b, k>>] EXCEPT !.attempt = emission[<<b, k>>].attempt + 1]
        ELSE [emission[<<b, k>>] EXCEPT !.pc = "over"]]

\* The post fails before the row, between the row and the link, or after both.
PostFails(b, k) ==
    /\ emission[<<b, k>>].pc = "post" /\ Failed(b) /\ Retry(b, k)
    /\ \/ UNCHANGED <<conversions, sessions>>
       \/ WriteRow(b, emission[<<b, k>>].first) /\ UNCHANGED sessions
       \/ WriteRow(b, emission[<<b, k>>].first) /\ WriteLink(b)
    /\ UNCHANGED <<paid, deleted, queued, died>>

\* The timers and the calls in progress are gone with the backend's process.
BackendDies ==
    LET calls == {x \in Emissions : emission[x].pc \in {"count", "post"}} IN
    /\ calls # {} /\ Troubles < MaxTroubles
    /\ died' = died \cup {x[1] : x \in calls}
    /\ emission' = [x \in Emissions |-> IF x \in calls THEN [emission[x] EXCEPT !.pc = "over"]
                                        ELSE emission[x]]
    /\ UNCHANGED <<paid, deleted, conversions, sessions, queued, failedPosts>>

ProducerNext ==
    \/ \E b \in Bookings : Delete(b)
    \/ \E b \in Bookings, k \in Calls :
          Pay(b, k) \/ CountPrior(b, k) \/ PostConversion(b, k) \/ PostFails(b, k)
    \/ BackendDies

ProducerSpec == ProducerInit /\ [][ProducerNext]_producerVars

-----------------------------------------------------------------------------
(* What the producer promises.                                             *)

FirstOrders(u) == {c.booking : c \in {x \in conversions : x.first /\ Buyer[x.booking] = u}}

\* However the calls for a user's bookings overlap, are repeated or arrive out
\* of order, a user has one first order, another only for a booking deleted
\* since; and, unless a booking was paid before the conversion of one before it
\* had arrived, a user with an order has one.
FirstOrderOnce ==
    \A u \in Buyers :
        /\ Cardinality(FirstOrders(u)) <= 1 + Cardinality({b \in deleted : Buyer[b] = u})
        /\ u \notin queued /\ (\E c \in conversions : Buyer[c.booking] = u) => FirstOrders(u) # {}

\* An order whose calls are over is missing, or its session unlinked, only when
\* every post of every call failed, or the backend died in one of the calls.
OrdersCostFaults ==
    \A b \in paid \ died :
        (\A k \in Calls : emission[<<b, k>>].pc \in {"none", "over"}) /\ b \notin sessions =>
            failedPosts[b] >=
                (1 + Backoffs) * Cardinality({k \in Calls : emission[<<b, k>>].pc = "over"})
=============================================================================
