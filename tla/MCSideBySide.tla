---------------------------- MODULE MCSideBySide -----------------------------
(* Components that share no state, for TLC: each runs alone, the others rest *)
(* in their initial states, so that the states of all add up.                *)
EXTENDS EventMetrics, AdIngest, AlertWatch, GeoRun, SpendReports, TouchBeacon, TLC

CONSTANTS
    e1, e2, e3, c1, u1, u2, s1, open, order,
    campaign, adGroup, w1, w2, admin, l1, l2, b1, b2, buyer, pune, t1, t2

-----------------------------------------------------------------------------
(* EventMetrics: a visit, and two users who log in from its session.         *)
MCSeeded == 2..5
MCStart == {4}
MCStamps == {2, 5}
MCName == e1 :> order @@ e2 :> open @@ e3 :> open
MCUser == e1 :> u1 @@ e2 :> Nobody @@ e3 :> u2
MCSession == [e \in Events |-> s1]
MCSteps == <<open, order>>
\* The session is in UTC: a month of two ticks is a day long, and that of UTC
\* begins a tick later.
MCSessionDay == [t \in Instants |-> (t + 1) \div 2]
MCIstDay == [t \in Instants |-> t \div 2 + 1]

(* AdIngest: two apps, a campaign with one ad group.                         *)
MCApps == <<"services", "society">>
MCEntityOf == adGroup :> campaign

(* AlertWatch: a campaign too dear with its first order, and a day without;  *)
(* its name is taken away from it.                                           *)
MCCampaignSpend == campaign :> 900
MCNameOf == campaign :> "Brand"
MCAdNames == {"Brand", Nil}

(* GeoRun: as many lanes as engines.                                         *)
MCEngines == <<"openai", "gemini">>
MCQuestions == <<"brand", "city">>

(* BookingProducer, SpendReports: two orders of one customer.                *)
MCBuyer == [b \in Bookings |-> buyer]
MCOrderDay == b1 :> 1 @@ b2 :> 2
MCValue == b1 :> 5 @@ b2 :> 3
MCOrderCity == b1 :> None @@ b2 :> pune
MCAdOf == b1 :> campaign @@ b2 :> None
MCAdChannel == campaign :> "meta"
MCAdCity == campaign :> pune
MCSpends == {[ad |-> campaign, date |-> 1, inr |-> 2]}
MCReportDays == 1..2

\* Workers and lanes are interchangeable, and no property is one of liveness.
MCSymmetry == Permutations(Evaluators) \cup Permutations(Lanes)

(* TouchBeacon: click ids without consent, and with it.                      *)
MCBody == t1 :> [wellFormed |-> TRUE, utm |-> FALSE, clicks |-> TRUE, consent |-> FALSE]
       @@ t2 :> [wellFormed |-> TRUE, utm |-> TRUE, clicks |-> TRUE, consent |-> TRUE]

-----------------------------------------------------------------------------
VARIABLE running   \* the component that runs, chosen at first

SideInit ==
    /\ Init /\ AdInit /\ AlertInit /\ GeoInit /\ ProducerInit /\ BeaconInit
    /\ running \in {"events", "ads", "alerts", "geo", "producer", "beacon"}

sideVars == <<vars, adVars, alertVars, geoVars, producerVars, beaconVars, running>>

SideNext ==
    \/ /\ running = "events" /\ Next
       /\ UNCHANGED <<adVars, alertVars, geoVars, producerVars, beaconVars, running>>
    \/ /\ running = "ads" /\ AdNext
       /\ UNCHANGED <<vars, alertVars, geoVars, producerVars, beaconVars, running>>
    \/ /\ running = "alerts" /\ AlertNext
       /\ UNCHANGED <<vars, adVars, geoVars, producerVars, beaconVars, running>>
    \/ /\ running = "geo" /\ GeoNext
       /\ UNCHANGED <<vars, adVars, alertVars, producerVars, beaconVars, running>>
    \/ /\ running = "producer" /\ ProducerNext
       /\ UNCHANGED <<vars, adVars, alertVars, geoVars, beaconVars, running>>
    \/ /\ running = "beacon" /\ BeaconNext
       /\ UNCHANGED <<vars, adVars, alertVars, geoVars, producerVars, running>>

SideSpec == SideInit /\ [][SideNext]_sideVars

\* The state of every component has its types.
TypesOK == TypeOK /\ AdTypeOK /\ AlertTypeOK /\ GeoTypeOK /\ ProducerTypeOK /\ BeaconTypeOK
=============================================================================
