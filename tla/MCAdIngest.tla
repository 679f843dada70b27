----------------------------- MODULE MCAdIngest ------------------------------
(* AdIngest for TLC.                                                         *)
EXTENDS AdIngest, TLC

CONSTANTS unit1, unit2, campaign

MCApps == <<"services", "society">>
\* Two ad groups of one campaign.
MCEntityOf == unit1 :> campaign @@ unit2 :> campaign
=============================================================================
