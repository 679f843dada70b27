------------------------ MODULE MCConversionPipeline ------------------------
(* ConversionPipeline for TLC, with the lanes of its instances.              *)
EXTENDS ConversionPipeline

CONSTANTS r1, r2, u1, u2

\* Two apps: two leads of the first, a purchase of the second.
MCTwoApps == <<{}, {1, 2}, {3}, {}>>
=============================================================================
