-------------------------- MODULE MCSegmentRefresh --------------------------
(* SegmentRefresh for TLC, with the members of its sets as model values.     *)
EXTENDS SegmentRefresh

CONSTANTS own, system, w1, w2, h1
=============================================================================
