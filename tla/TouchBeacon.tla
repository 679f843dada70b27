---------------------------- MODULE TouchBeacon ------------------------------
(***************************************************************************)
(* The edge beacon: it answers a browser's touch at once and forwards it   *)
(* to the service afterwards, at most Forwards times.  The service inserts *)
(* a row for every touch it gets.                                          *)
(***************************************************************************)
EXTENDS Naturals, Sequences

CONSTANTS
    Landings,      \* requests to the beacon
    Body,          \* what each carries
    Forwards       \* attempts to forward a touch

Bodies == [wellFormed : BOOLEAN, utm : BOOLEAN, clicks : BOOLEAN, consent : BOOLEAN]

ASSUME BeaconAssumption ==
    /\ Body \in [Landings -> Bodies]
    /\ Forwards \in Nat \ {0}

VARIABLES
    beacon,        \* each request
    touchRows,     \* the rows it has in attribution_touch
    failedForwards,\* its forwards that failed (history)
    lostAnswers,   \* those of them that had been carried out (history)
    dropped        \* requests MIL refused or whose worker ended (history)

beaconVars == <<beacon, touchRows, failedForwards, lostAnswers, dropped>>

Payloads == [utm : BOOLEAN, clicks : BOOLEAN]
Unseen == [pc |-> "none", payload |-> [utm |-> FALSE, clicks |-> FALSE], attempt |-> 1]

BeaconTypeOK ==
    /\ beacon \in [Landings -> [pc : {"none", "refused", "forward", "over"}, payload : Payloads,
                                attempt : 1..Forwards]]
    /\ touchRows \in [Landings -> Seq(Payloads)]
    /\ failedForwards \in [Landings -> 0..Forwards] /\ lostAnswers \in [Landings -> 0..Forwards]
    /\ dropped \subseteq Landings

BeaconInit ==
    /\ beacon = [t \in Landings |-> Unseen]
    /\ touchRows = [t \in Landings |-> <<>>]
    /\ failedForwards = [t \in Landings |-> 0] /\ lostAnswers = [t \in Landings |-> 0]
    /\ dropped = {}

-----------------------------------------------------------------------------
\* sanitizeTouch: nothing without a campaign signal.  Click ids count as one even
\* without consent, but then are not forwarded.
Plausible(body) == body.wellFormed /\ (body.utm \/ body.clicks)
Sanitized(body) == [utm |-> body.utm, clicks |-> body.clicks /\ body.consent]

\* handleRequest: 204 and the forward to come, or an error.
Accept(t) ==
    /\ beacon[t].pc = "none" /\ Plausible(Body[t])
    /\ beacon' = [beacon EXCEPT ![t] =
                     [pc |-> "forward", payload |-> Sanitized(Body[t]), attempt |-> 1]]
    /\ UNCHANGED <<touchRows, failedForwards, lostAnswers, dropped>>

\* Whatever the body: a foreign origin, too many requests, too large.
Refuse(t) ==
    /\ beacon[t].pc = "none"
    /\ beacon' = [beacon EXCEPT ![t].pc = "refused"]
    /\ UNCHANGED <<touchRows, failedForwards, lostAnswers, dropped>>

Stored(t) == touchRows' = [touchRows EXCEPT ![t] = Append(touchRows[t], beacon[t].payload)]

Forward(t) ==
    /\ beacon[t].pc = "forward"
    /\ Stored(t)
    /\ beacon' = [beacon EXCEPT ![t].pc = "over"]
    /\ UNCHANGED <<failedForwards, lostAnswers, dropped>>

\* faulty: one forward too few.
TryLess(t) ==
    beacon' = [beacon EXCEPT ![t] =
        IF beacon[t].attempt + 1 < Forwards THEN [beacon[t] EXCEPT !.attempt = beacon[t].attempt + 1]
        ELSE [beacon[t] EXCEPT !.pc = "over"]]

TryAgain(t) ==
    beacon' = [beacon EXCEPT ![t] =
        IF beacon[t].attempt < Forwards THEN [beacon[t] EXCEPT !.attempt = beacon[t].attempt + 1]
        ELSE [beacon[t] EXCEPT !.pc = "over"]]

\* No answer, or a 5xx: once more, though the row may be there already.
ForwardFails(t) ==
    /\ beacon[t].pc = "forward" /\ TryAgain(t)
    /\ failedForwards' = [failedForwards EXCEPT ![t] = failedForwards[t] + 1]
    /\ \/ UNCHANGED <<touchRows, lostAnswers>>
       \/ Stored(t) /\ lostAnswers' = [lostAnswers EXCEPT ![t] = lostAnswers[t] + 1]
    /\ UNCHANGED dropped

\* A 4xx, which is not tried again, or the end of the worker.
ForwardDropped(t) ==
    /\ beacon[t].pc = "forward"
    /\ dropped' = dropped \cup {t}
    /\ beacon' = [beacon EXCEPT ![t].pc = "over"]
    /\ UNCHANGED <<touchRows, failedForwards, lostAnswers>>

BeaconNext ==
    \E t \in Landings :
        Accept(t) \/ Refuse(t) \/ Forward(t) \/ ForwardFails(t) \/ ForwardDropped(t)

BeaconSpec == BeaconInit /\ [][BeaconNext]_beaconVars

-----------------------------------------------------------------------------
(* What the beacon promises.                                               *)

\* A touch that was answered 204 is missing only when all forwards failed or it
\* was dropped, is stored once more only for each answer lost, and without
\* consent is never stored with click ids.
TouchesCostFaults ==
    \A t \in Landings :
        /\ beacon[t].pc = "over" /\ touchRows[t] = <<>> => failedForwards[t] = Forwards \/ t \in dropped
        /\ Len(touchRows[t]) <= 1 + lostAnswers[t]
        /\ \A i \in DOMAIN touchRows[t] : touchRows[t][i].clicks => Body[t].consent
=============================================================================
