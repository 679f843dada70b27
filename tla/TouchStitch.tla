----------------------------- MODULE TouchStitch -----------------------------
(***************************************************************************)
(* Touches of an anonymous session, their stitch to a user and the         *)
(* correction of Meta's generic labels.  A touch posted to /ingest/touch   *)
(* is one row of attribution_touch.  A post that knows the user links the  *)
(* session to him and binds the session's anonymous rows; a post whose     *)
(* install referrer decrypts carries Meta's campaign id and copies it onto *)
(* the session's rows still labelled fb4a/ig4a.  A backfill run repairs    *)
(* rows stored before the key was configured.                              *)
(*                                                                         *)
(* touches is a sequence: the index of a row is its id, in commit order.   *)
(* Every post carries consent and one app.                                 *)
(***************************************************************************)
EXTENDS Naturals, Sequences, FiniteSets

CONSTANTS
    Sessions, Users,
    Campaigns,    \* the ids Meta's envelopes decrypt to
    Writers,      \* POST /ingest/touch requests that can be in progress at once
    Posts,        \* the touches that may be posted, any number of times
    PageSize,     \* PAGE_SIZE
    MaxRows,      \* bound on the posts
    MaxFaults,    \* bound on failed statements and process deaths
    Generic,      \* the labels fb4a and ig4a
    Own,          \* any other campaign
    Nobody        \* user_id is null

\* What the referrer of a post holds: no envelope, one that does not decrypt
\* (tampered with, or of another key), or one that decrypts to a campaign.
Referrers == Campaigns \cup {"none", "tampered"}

ASSUME TouchAssumption ==
    /\ Posts \subseteq [session : Sessions, user : Users \cup {Nobody},
                       referrer : Referrers, label : {Generic, Own}]
    /\ Nobody \notin Users
    /\ Generic # Own /\ {Generic, Own, "none", "tampered"} \cap Campaigns = {}
    /\ IsFiniteSet(Writers)
    /\ PageSize \in Nat \ {0} /\ MaxRows \in Nat /\ MaxFaults \in Nat

VARIABLES
    touches,    \* the rows of attribution_touch
    links,      \* the rows of identity_link
    hasKey,     \* META_INSTALL_REFERRER_KEY is set
    writer,     \* what each request is doing
    backfill,   \* what the backfill run is doing
    covered,    \* the rows a finished backfill run started with (history)
    faults

vars == <<touches, links, hasKey, writer, backfill, covered, faults>>

\* raw.meta_install_referrer of a row: absent, with a nonce, or "propagated".
Markers == {"none", "nonce", "propagated"}

Rows == [session : Sessions, posted : Users \cup {Nobody}, user : Users \cup {Nobody},
         referrer : Referrers, campaign : Campaigns \cup {Generic, Own},
         marker : Markers]
Resting == [pc |-> "idle"]
Requests == [pc : {"lookup", "insert", "link", "stitch", "propagate"}, row : Rows] \cup {Resting}
Stopped == [pc |-> "idle", last |-> 0, page |-> {}, upto |-> 0]
Backfills == [pc : {"idle", "page", "row", "spread"}, last : 0..MaxRows,
              page : SUBSET (1..MaxRows), upto : 0..MaxRows]

TypeOK ==
    /\ touches \in Seq(Rows) /\ Len(touches) <= MaxRows
    /\ links \subseteq Sessions \X Users
    /\ hasKey \in BOOLEAN
    /\ writer \in [Writers -> Requests]
    /\ backfill \in Backfills
    /\ backfill.pc = "row" => backfill.page # {}
    /\ covered \in 0..Len(touches)
    /\ faults \in 0..MaxFaults

Init ==
    /\ touches = <<>> /\ links = {}
    /\ hasKey \in BOOLEAN
    /\ writer = [w \in Writers |-> Resting]
    /\ backfill = Stopped
    /\ covered = 0 /\ faults = 0

Fault == faults < MaxFaults /\ faults' = faults + 1
Uncorrected(row) == row.campaign = Generic /\ row.marker = "none"
NonceRows(s) == {i \in DOMAIN touches : touches[i].session = s /\ touches[i].marker = "nonce"}
First(S) == CHOOSE i \in S : \A j \in S : i <= j
WithIds(row, campaign, marker) == [row EXCEPT !.campaign = campaign, !.marker = marker]

-----------------------------------------------------------------------------
(* writeTouch.                                                             *)

Goto(w, pc, row) == writer' = [writer EXCEPT ![w] = [pc |-> pc, row |-> row]]
Done(w) == writer' = [writer EXCEPT ![w] = Resting]

\* After the insert: the stitch if the user is known, then the propagation if
\* the post's own envelope was decrypted.
AfterInsert(w, row) ==
    IF row.posted # Nobody THEN Goto(w, "link", row)
    ELSE IF row.marker = "nonce" THEN Goto(w, "propagate", row)
    ELSE Done(w)

AfterStitch(w, row) ==
    IF row.marker = "nonce" THEN Goto(w, "propagate", row) ELSE Done(w)

Store(w, row) == touches' = Append(touches, row) /\ AfterInsert(w, row)

Room == Len(touches) + Cardinality({w \in Writers : writer[w].pc \in {"lookup", "insert"}}) < MaxRows

\* A post arrives and its envelope is decrypted, if it has one and the key fits;
\* a generic label that stays has yet to be looked up.
Receive(w) ==
    /\ writer[w] = Resting /\ Room
    /\ \E post \in Posts :
          LET row == [session |-> post.session, posted |-> post.user, user |-> post.user,
                      referrer |-> post.referrer, campaign |-> post.label, marker |-> "none"]
              decrypted == post.referrer \in Campaigns /\ hasKey
          IN
          \/ decrypted /\ Store(w, WithIds(row, post.referrer, "nonce"))
          \/ ~decrypted /\ post.label = Own /\ Store(w, row)
          \/ ~decrypted /\ post.label = Generic /\ Goto(w, "lookup", row) /\ UNCHANGED touches
    /\ UNCHANGED <<links, hasKey, backfill, covered, faults>>

\* withSessionMetaIds.
Lookup(w) ==
    LET row   == writer[w].row
        known == NonceRows(row.session)
    IN
    /\ writer[w].pc = "lookup"
    /\ Goto(w, "insert", IF known = {} THEN row
                         ELSE WithIds(row, touches[First(known)].campaign, "propagated"))
    /\ UNCHANGED <<touches, links, hasKey, backfill, covered, faults>>

\* The error of the lookup is caught: the touch is kept as received.
LookupFails(w) ==
    /\ writer[w].pc = "lookup" /\ Fault
    /\ Goto(w, "insert", writer[w].row)
    /\ UNCHANGED <<touches, links, hasKey, backfill, covered>>

Insert(w) ==
    /\ writer[w].pc = "insert"
    /\ Store(w, writer[w].row)
    /\ UNCHANGED <<links, hasKey, backfill, covered, faults>>

\* faulty: the rows are bound before the session is linked.
LinkLast(w) ==
    LET row == writer[w].row IN
    /\ writer[w].pc = "link"
    /\ touches' = [i \in DOMAIN touches |->
                     IF touches[i].session = row.session /\ touches[i].user = Nobody
                     THEN [touches[i] EXCEPT !.user = row.posted] ELSE touches[i]]
    /\ Goto(w, "stitch", row)
    /\ UNCHANGED <<links, hasKey, backfill, covered, faults>>

\* ON CONFLICT DO NOTHING.
Link(w) ==
    LET row == writer[w].row IN
    /\ writer[w].pc = "link"
    /\ links' = links \cup {<<row.session, row.posted>>}
    /\ Goto(w, "stitch", row)
    /\ UNCHANGED <<touches, hasKey, backfill, covered, faults>>

\* Earlier rows of the session without a user are his.
Stitch(w) ==
    LET row == writer[w].row IN
    /\ writer[w].pc = "stitch"
    /\ touches' = [i \in DOMAIN touches |->
                     IF touches[i].session = row.session /\ touches[i].user = Nobody
                     THEN [touches[i] EXCEPT !.user = row.posted] ELSE touches[i]]
    /\ AfterStitch(w, row)
    /\ UNCHANGED <<links, hasKey, backfill, covered, faults>>

\* faulty: every generic label of the app is corrected, not the session's alone.
PropagateToAll(w) ==
    LET row == writer[w].row IN
    /\ writer[w].pc = "propagate"
    /\ touches' = [i \in DOMAIN touches |->
                     IF Uncorrected(touches[i])
                     THEN WithIds(touches[i], row.campaign, "propagated") ELSE touches[i]]
    /\ Done(w)
    /\ UNCHANGED <<links, hasKey, backfill, covered, faults>>

\* propagateMetaReferrerToSession.
Propagate(w) ==
    LET row == writer[w].row IN
    /\ writer[w].pc = "propagate"
    /\ touches' = [i \in DOMAIN touches |->
                     IF touches[i].session = row.session /\ Uncorrected(touches[i])
                     THEN WithIds(touches[i], row.campaign, "propagated") ELSE touches[i]]
    /\ Done(w)
    /\ UNCHANGED <<links, hasKey, backfill, covered, faults>>

\* A statement throws or the process dies.  An error of the propagation is
\* swallowed, any other is the caller's, who may post the touch again.
Abandon(w) ==
    /\ writer[w] # Resting /\ Fault
    /\ Done(w)
    /\ UNCHANGED <<touches, links, hasKey, backfill, covered>>

\* The process is restarted with the key, after its requests have ended.
ConfigureKey ==
    /\ ~hasKey /\ \A w \in Writers : writer[w] = Resting
    /\ hasKey' = TRUE
    /\ UNCHANGED <<touches, links, writer, backfill, covered, faults>>

-----------------------------------------------------------------------------
(* runMetaReferrerBackfill({ apply: true }); the dry run writes nothing.   *)

StartBackfill ==
    /\ backfill.pc = "idle" /\ hasKey /\ touches # <<>>
    /\ backfill' = [pc |-> "page", last |-> 0, page |-> {}, upto |-> Len(touches)]
    /\ UNCHANGED <<touches, links, hasKey, writer, covered, faults>>

\* The rows the page query looks for.
Candidates == {i \in DOMAIN touches :
                 touches[i].referrer # "none" /\ touches[i].marker = "none"}

FirstPage(S) == {i \in S : Cardinality({j \in S : j < i}) < PageSize}

ReadPage(rows, last) ==
    backfill' = IF rows = {} THEN [backfill EXCEPT !.pc = "spread"]
                ELSE [pc |-> "row", last |-> last, page |-> rows, upto |-> backfill.upto]

\* faulty: "offset" in place of "id > lastId".
NextPageByOffset ==
    LET rows == FirstPage({i \in Candidates :
                   Cardinality({j \in Candidates : j < i}) >= backfill.last})
    IN
    /\ backfill.pc = "page"
    /\ ReadPage(rows, backfill.last + Cardinality(rows))
    /\ UNCHANGED <<touches, links, hasKey, writer, covered, faults>>

\* faulty: lastId is not advanced.
NextPageFromStart ==
    /\ backfill.pc = "page"
    /\ ReadPage(FirstPage(Candidates), 0)
    /\ UNCHANGED <<touches, links, hasKey, writer, covered, faults>>

NextPage ==
    LET rows == FirstPage({i \in Candidates : i > backfill.last})
        last == CHOOSE i \in rows : \A j \in rows : j <= i
    IN
    /\ backfill.pc = "page"
    /\ ReadPage(rows, IF rows = {} THEN 0 ELSE last)
    /\ UNCHANGED <<touches, links, hasKey, writer, covered, faults>>

\* faulty: the end of the page is missed.
NextRowPastEnd(i) == backfill' = [backfill EXCEPT !.page = backfill.page \ {i}]

NextRow(i) ==
    backfill' = [backfill EXCEPT !.page = backfill.page \ {i},
                                 !.pc = IF backfill.page = {i} THEN "page" ELSE "row"]

\* faulty: the marker is not checked again.
DecryptRowUnguarded ==
    LET i == First(backfill.page) IN
    /\ backfill.pc = "row"
    /\ touches' = IF touches[i].referrer \in Campaigns
                  THEN [touches EXCEPT ![i] = WithIds(touches[i], touches[i].referrer, "nonce")]
                  ELSE touches
    /\ NextRow(i)
    /\ UNCHANGED <<links, hasKey, writer, covered, faults>>

\* A row of the page: a copy from before other writers changed it.
DecryptRow ==
    LET i == First(backfill.page) IN
    /\ backfill.pc = "row"
    /\ touches' = IF touches[i].referrer \in Campaigns /\ touches[i].marker = "none"
                  THEN [touches EXCEPT ![i] = WithIds(touches[i], touches[i].referrer, "nonce")]
                  ELSE touches
    /\ NextRow(i)
    /\ UNCHANGED <<links, hasKey, writer, covered, faults>>

\* propagateAllSessions: one statement.
Spread ==
    /\ backfill.pc = "spread"
    /\ touches' = [i \in DOMAIN touches |->
                     LET known == NonceRows(touches[i].session) IN
                     IF Uncorrected(touches[i]) /\ known # {}
                     THEN WithIds(touches[i], touches[First(known)].campaign, "propagated")
                     ELSE touches[i]]
    /\ backfill' = Stopped
    /\ covered' = backfill.upto
    /\ UNCHANGED <<links, hasKey, writer, faults>>

BackfillDies ==
    /\ backfill.pc # "idle" /\ Fault
    /\ backfill' = Stopped
    /\ UNCHANGED <<touches, links, hasKey, writer, covered>>

-----------------------------------------------------------------------------
WriterStep(w) ==
    \/ Receive(w) \/ Lookup(w) \/ LookupFails(w)
    \/ Insert(w) \/ Link(w) \/ Stitch(w) \/ Propagate(w)
    \/ Abandon(w)

BackfillStep == NextPage \/ DecryptRow \/ Spread

Next ==
    \/ \E w \in Writers : WriterStep(w)
    \/ ConfigureKey
    \/ StartBackfill \/ BackfillStep \/ BackfillDies

Spec == Init /\ [][Next]_vars

\* A started query ends; nobody is obliged to start a backfill.
FairSpec == Spec /\ WF_vars(BackfillStep)

-----------------------------------------------------------------------------
(* What the component promises.                                            *)

\* A corrected row keeps its campaign: neither a later envelope of the session
\* nor a backfill working from an old page overwrites it.
CorrectedOnce ==
    [][\A i \in DOMAIN touches : touches[i].marker # "none"
          => /\ touches'[i].campaign = touches[i].campaign
             /\ touches'[i].marker = touches[i].marker]_vars

\* A propagated campaign is that of a decrypted touch of the same session, be
\* it copied on arrival, by a live request or by the backfill.
PropagatedFromSession ==
    \A i \in DOMAIN touches : touches[i].marker = "propagated" =>
        \E j \in NonceRows(touches[i].session) : touches[j].campaign = touches[i].campaign

\* Whatever request dies where, a row is bound to a user it was not posted with
\* only if identity_link says so: the funnel joins the two.
StitchedAreLinked ==
    \A i \in DOMAIN touches : touches[i].user # touches[i].posted =>
        <<touches[i].session, touches[i].user>> \in links

\* A finished backfill has decrypted every envelope that was stored when it
\* began and corrected the generic touches of their sessions, however live
\* requests changed the rows between its pages.
BackfillCovers ==
    \A i \in 1..covered :
        /\ touches[i].referrer \in Campaigns => touches[i].marker # "none"
        /\ Uncorrected(touches[i]) => NonceRows(touches[i].session) \cap (1..covered) = {}

\* A backfill ends, past the rows it cannot decrypt.
BackfillEnds == backfill.pc # "idle" ~> backfill.pc = "idle"

-----------------------------------------------------------------------------
(* What a comment says of it, and the code does not do.                    *)

\* touch-writer.ts: propagation "fixes install touches that reached MIL without
\* the encrypted payload ... once that user's registration forward brings it",
\* and the lookup covers "the reverse order".  When nothing has failed and no
\* request is in progress, no generic touch is left beside a decrypted one.
QuietSessionsCorrected ==
    faults = 0 /\ (\A w \in Writers : writer[w] = Resting)
    => \A i \in DOMAIN touches : Uncorrected(touches[i]) => NonceRows(touches[i].session) = {}
=============================================================================
