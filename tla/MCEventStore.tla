---------------------------- MODULE MCEventStore -----------------------------
(* EventStore for TLC.                                                       *)
EXTENDS EventStore

CONSTANTS e1, e2, c1, c2

\* The migration seeds a month and the next three; it is run within the first.
MCSeeded == 2..5
MCStart == 4..5
\* Its clients' clocks are right, far behind or far ahead.
MCStamps == {0, 6, 40}
=============================================================================
