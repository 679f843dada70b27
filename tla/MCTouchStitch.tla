---------------------------- MODULE MCTouchStitch ----------------------------
(* TouchStitch for TLC, with the touches its instances post.                 *)
EXTENDS TouchStitch

CONSTANTS s1, s2, u1, u2, w1, w2, meta1, meta2

Post(s, u, referrer, label) ==
    [session |-> s, user |-> u, referrer |-> referrer, label |-> label]

\* A session with installs of two campaigns, one of them forwarded with a user and
\* a label of its own beside the envelope, a bare generic touch and an envelope that
\* does not decrypt; and another session with an install of its own.
MCPosts == {Post(s1, Nobody, meta1, Generic), Post(s1, u1, meta2, Own),
            Post(s1, Nobody, "none", Generic), Post(s1, u2, "tampered", Generic),
            Post(s1, Nobody, "none", Own), Post(s2, Nobody, meta1, Generic)}
=============================================================================
