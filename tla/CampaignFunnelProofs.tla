------------------------ MODULE CampaignFunnelProofs ------------------------
(***************************************************************************)
(* Proofs about the campaign report, for all tables it may be read from,   *)
(* whatever the length of a day, the lookback and the grace.               *)
(***************************************************************************)
EXTENDS CampaignFunnel, Counting

-----------------------------------------------------------------------------
(* The tables.                                                             *)

AnyTouch == UNION {{t} \cup Stitched(t, Users) : t \in Touches}

RowInv == TypeOK /\ IsFiniteSet(links)

\* A touch bound to a user keeps its other fields, and is not bound again.
LEMMA TouchShape ==
  ASSUME NEW t \in AnyTouch
  PROVE  /\ t.session \in Sessions /\ t.at \in Nat /\ t.click \in Nat \cup {NotSet}
         /\ t.user \in Users \cup {NotSet}
         /\ t.user = NotSet => t \in Touches
<1>1. PICK s \in Touches : t = s \/ \E u \in Users : t = [s EXCEPT !.user = u]
  BY DEF AnyTouch, Stitched
<1>2. /\ s.session \in Sessions /\ s.at \in Nat /\ s.click \in Nat \cup {NotSet}
      /\ s.user \in Users \cup {NotSet} /\ NotSet \notin Users
      /\ {"session", "user", "click", "at"} \subseteq DOMAIN s
  BY FunnelAssumption
<1>3. CASE t = s
  BY <1>2, <1>3
<1>4. ASSUME NEW u \in Users, t = [s EXCEPT !.user = u]
      PROVE  t.session = s.session /\ t.at = s.at /\ t.click = s.click /\ t.user = u
  BY <1>2, <1>4
<1> QED BY <1>1, <1>2, <1>3, <1>4

LEMMA BindsOnce ==
  ASSUME NEW t \in AnyTouch, t.user = NotSet, NEW u \in Users
  PROVE  /\ [t EXCEPT !.user = u] \in AnyTouch
         /\ [t EXCEPT !.user = u].session = t.session /\ [t EXCEPT !.user = u].user = u
<1>1. t \in Touches
  BY TouchShape
<1>2. [t EXCEPT !.user = u] \in AnyTouch
  BY <1>1 DEF AnyTouch, Stitched
<1>3. {"session", "user"} \subseteq DOMAIN t
  BY <1>1, FunnelAssumption
<1> QED BY <1>2, <1>3

LEMMA RowInit == Init => RowInv
<1> SUFFICES ASSUME Init PROVE RowInv
  OBVIOUS
<1>1. IsFiniteSet(links) /\ Cardinality(links) = 0
  BY FS_EmptySet DEF Init
<1> QED BY <1>1, FunnelAssumption DEF Init, RowInv, TypeOK

LEMMA StitchTypes ==
  ASSUME RowInv, StitchTouches
  PROVE  RowInv'
<1>1. /\ touches \in Seq(AnyTouch) /\ links \subseteq Links
      /\ \A i \in DOMAIN touches :
            touches[i] \notin Touches => <<touches[i].session, touches[i].user>> \in links
  BY DEF RowInv, TypeOK, AnyTouch
<1>2. PICK l \in links :
         touches' = [i \in DOMAIN touches |->
                        IF touches[i].session = l[1] /\ touches[i].user = NotSet
                        THEN [touches[i] EXCEPT !.user = l[2]] ELSE touches[i]]
  BY DEF StitchTouches
<1>3. l[2] \in Users /\ l = <<l[1], l[2]>>
  BY <1>1, FunnelAssumption
<1>4. UNCHANGED <<events, orders, links, tie>>
  BY DEF StitchTouches
<1>5. ASSUME NEW i \in DOMAIN touches
      PROVE  /\ touches'[i] \in AnyTouch
             /\ touches'[i] \notin Touches => <<touches'[i].session, touches'[i].user>> \in links
  <2>1. touches[i] \in AnyTouch
    BY <1>1, <1>5
  <2>2. CASE touches[i].session = l[1] /\ touches[i].user = NotSet
    <3>1. touches'[i] = [touches[i] EXCEPT !.user = l[2]]
      BY <1>2, <1>5, <2>2
    <3>2. /\ touches'[i] \in AnyTouch
          /\ touches'[i].session = l[1] /\ touches'[i].user = l[2]
      BY <1>3, <2>1, <2>2, <3>1, BindsOnce
    <3> QED BY <1>3, <3>2
  <2>3. CASE ~(touches[i].session = l[1] /\ touches[i].user = NotSet)
    BY <1>1, <1>2, <1>5, <2>1, <2>3
  <2> QED BY <2>2, <2>3
<1>6. DOMAIN touches' = DOMAIN touches /\ touches' \in Seq(AnyTouch) /\ Len(touches') = Len(touches)
  <2>1. DOMAIN touches = 1..Len(touches) /\ Len(touches) \in Nat
    BY <1>1
  <2>2. touches' \in [1..Len(touches) -> AnyTouch]
    BY <1>2, <1>5, <2>1
  <2> QED BY <2>1, <2>2
<1> QED BY <1>4, <1>5, <1>6 DEF RowInv, TypeOK, AnyTouch

LEMMA RowStep == RowInv /\ [Next]_vars => RowInv'
<1> SUFFICES ASSUME RowInv, [Next]_vars PROVE RowInv'
  OBVIOUS
<1>1. CASE StoreTouch
  <2>1. PICK t \in Touches : touches' = Append(touches, t)
    BY <1>1 DEF StoreTouch
  <2>2. touches \in Seq(AnyTouch) /\ t \in AnyTouch
    BY DEF RowInv, TypeOK, AnyTouch
  <2>3. /\ touches' \in Seq(AnyTouch) /\ Len(touches') = Len(touches) + 1
        /\ DOMAIN touches' = DOMAIN touches \cup {Len(touches) + 1}
        /\ touches'[Len(touches) + 1] = t
        /\ \A i \in DOMAIN touches : touches'[i] = touches[i]
    BY <2>1, <2>2
  <2>4. Len(touches') <= MaxTouches
    BY <1>1, <2>2, <2>3, FunnelAssumption DEF StoreTouch
  <2> QED BY <1>1, <2>3, <2>4 DEF StoreTouch, RowInv, TypeOK, AnyTouch
<1>2. CASE StoreEvent
  <2>1. events' \in Seq(Events) /\ Len(events') = Len(events) + 1
    BY <1>2 DEF StoreEvent, RowInv, TypeOK
  <2>2. Len(events) \in Nat /\ Len(orders) \in Nat
    BY DEF RowInv, TypeOK
  <2> QED BY <1>2, <2>1, <2>2, FunnelAssumption DEF StoreEvent, RowInv, TypeOK
<1>3. CASE StoreOrder
  <2>1. orders' \in Seq(Orders) /\ Len(orders') = Len(orders) + 1
    BY <1>3 DEF StoreOrder, RowInv, TypeOK
  <2>2. Len(events) \in Nat /\ Len(orders) \in Nat
    BY DEF RowInv, TypeOK
  <2> QED BY <1>3, <2>1, <2>2, FunnelAssumption DEF StoreOrder, RowInv, TypeOK
<1>4. CASE StoreLink
  <2>1. PICK l \in Links \ links : links' = links \cup {l}
    BY <1>4 DEF StoreLink
  <2>2. IsFiniteSet(links') /\ Cardinality(links') = Cardinality(links) + 1
    BY <2>1, FS_AddElement DEF RowInv
  <2>3. Cardinality(links) \in Nat /\ Cardinality(links) < MaxLinks
    BY <1>4, FS_CardinalityType DEF StoreLink, RowInv
  <2>4. Cardinality(links') <= MaxLinks
    BY <2>2, <2>3, FunnelAssumption
  <2> QED BY <1>4, <2>1, <2>2, <2>4 DEF StoreLink, RowInv, TypeOK
<1>5. CASE StitchTouches
  BY <1>5, StitchTypes
<1>6. CASE TiesFallOtherwise \/ UNCHANGED vars
  BY <1>6 DEF TiesFallOtherwise, RowInv, TypeOK, vars
<1> QED BY <1>1, <1>2, <1>3, <1>4, <1>5, <1>6 DEF Next

\* Rows and links stay within their types and bounds, and a touch that differs
\* from what was posted was bound to a user its session is linked to.
THEOREM TypeCorrect == Spec => []TypeOK
<1>1. RowInv => TypeOK
  BY DEF RowInv
<1> QED BY RowInit, RowStep, <1>1, PTL DEF Spec

-----------------------------------------------------------------------------
(* Filters.                                                                *)

\* The pool of touches, and with it every credited stage, is the same for all
\* filters ...
LEMMA StagesOfAll == \A w, f, key : Stages(w, f, key) = Stages(w, NoFilter, key)
BY DEF Stages, InstallAttr, EvAttr, ConvAttr, Credit, TouchesAttr

\* ... and without one no campaign is missing.
LEMMA NoFilterShowsAll == \A w, f : Campaigns(w, f) \subseteq Campaigns(w, NoFilter)
<1> SUFFICES ASSUME NEW w, NEW f, NEW k \in Campaigns(w, f) PROVE k \in Campaigns(w, NoFilter)
  OBVIOUS
<1>1. NoFilter.campaign = NotSet /\ NoFilter.channel = NotSet /\ NoFilter.medium = NotSet
  BY DEF NoFilter
<1>2. TouchCampaigns(w, f) \subseteq TouchCampaigns(w, NoFilter)
  BY <1>1 DEF TouchCampaigns, TouchFilter
<1>3. AdCampaigns(w, f) \subseteq AdCampaigns(w, NoFilter)
  BY <1>1 DEF AdCampaigns
<1> QED BY <1>1, <1>2, <1>3 DEF Campaigns

\* Whatever the tables hold, a filtered report shows campaigns of the unfiltered
\* one, with the same installs, registrations, orders and revenue.
THEOREM FilterHolds == Spec => []FilterKeepsCredit
<1>1. FilterKeepsCredit
  BY StagesOfAll, NoFilterShowsAll DEF FilterKeepsCredit, CampaignFunnel
<1> QED BY <1>1, PTL

-----------------------------------------------------------------------------
(* Installs.                                                               *)

\* Every row acts for somebody, if it has a session.
LEMMA SomebodyActs ==
  ASSUME RowInv, NEW t \in AnyTouch
  PROVE  Ids(t) # {} /\ Ids(t) \subseteq Users \cup Sessions
<1> DEFINE linked == {u \in Users : <<t.session, u>> \in links}
<1>1. /\ t.session \in Sessions /\ t.user \in Users \cup {NotSet} /\ NotSet \notin Sessions
  BY TouchShape, FunnelAssumption
<1>2. Ids(t) = IF t.user # NotSet THEN {t.user}
               ELSE IF linked # {} THEN linked ELSE {t.session} \ {NotSet}
  BY DEF Ids
<1>3. linked \subseteq Users
  OBVIOUS
<1> HIDE DEF linked
<1> QED BY <1>1, <1>2, <1>3

\* The row an install is taken from is one of the touches.
LEMMA InstallIsOfTouch ==
  ASSUME RowInv, NEW n \in Nonces
  PROVE  MetaInstall(n).at \in Nat
<1> DEFINE sent == UNION {{[touch |-> i, id |-> d] : d \in Ids(touches[i])} :
                             i \in {j \in DOMAIN touches : touches[j].nonce = n}}
           Before(r, q) == \/ r.id \in Users /\ q.id \in Sessions
                           \/ (r.id \in Users) = (q.id \in Users) /\ r.touch <= q.touch
<1>1. touches \in Seq(AnyTouch) /\ DOMAIN touches \subseteq Nat
  BY DEF RowInv, TypeOK, AnyTouch
<1>2. /\ \A r \in sent : r.touch \in DOMAIN touches /\ r.id \in Users \cup Sessions
      /\ sent # {}
  <2>1. PICK i \in DOMAIN touches : touches[i].nonce = n
    BY DEF Nonces
  <2>2. touches[i] \in AnyTouch
    BY <1>1
  <2>3. PICK d : d \in Ids(touches[i])
    BY <2>2, SomebodyActs
  <2>4. [touch |-> i, id |-> d] \in sent
    BY <2>1, <2>3
  <2>5. \A j \in DOMAIN touches : Ids(touches[j]) \subseteq Users \cup Sessions
    BY <1>1, SomebodyActs
  <2>6. ASSUME NEW r \in sent PROVE r.touch \in DOMAIN touches /\ r.id \in Users \cup Sessions
    <3>1. PICK j \in DOMAIN touches : r \in {[touch |-> j, id |-> e] : e \in Ids(touches[j])}
      BY <2>6
    <3> QED BY <2>5, <3>1
  <2> QED BY <2>4, <2>6
<1> DEFINE ofUsers == {r \in sent : r.id \in Users}
           best == IF ofUsers # {} THEN ofUsers ELSE sent
           at == {r.touch : r \in best}
<1>3. at \in SUBSET Nat /\ at # {}
  BY <1>1, <1>2
<1>4. PICK m \in at : \A i \in at : m <= i
  BY <1>3, Least
<1>5. PICK r \in best : r.touch = m
  BY <1>4
<1>6. r \in sent /\ \A q \in sent : Before(r, q)
  <2>1. \A q \in best : r.touch <= q.touch
    BY <1>4, <1>5
  <2> QED BY <1>2, <1>5, <2>1, FunnelAssumption
<1>7. (CHOOSE x \in sent : \A q \in sent : Before(x, q)) \in sent
  BY <1>6
<1>8. ASSUME NEW i \in DOMAIN touches PROVE InstallTime(touches[i]) \in Nat
  <2>1. touches[i] \in AnyTouch
    BY <1>1, <1>8
  <2> QED BY <2>1, TouchShape DEF InstallTime
<1> QED BY <1>2, <1>7, <1>8 DEF MetaInstall

\* Days do not overlap.
LEMMA OneDay ==
  ASSUME NEW c \in Days, NEW d \in Days, NEW at \in Nat,
         Within(at, [from |-> c, to |-> c]), Within(at, [from |-> d, to |-> d])
  PROVE  c = d
<1>1. Day \in Nat \ {0} /\ c \in Nat /\ d \in Nat
  BY FunnelAssumption
<1>2. c * Day <= at /\ at < (c + 1) * Day /\ d * Day <= at /\ at < (d + 1) * Day
  BY DEF Within
<1>3. \A x, y \in Nat : x < y => (x + 1) * Day <= y * Day
  <2> SUFFICES ASSUME NEW x \in Nat, NEW y \in Nat, x < y PROVE (x + 1) * Day <= y * Day
    OBVIOUS
  <2>1. y - x - 1 \in Nat /\ (y - x - 1) * Day \in Nat
    BY <1>1
  <2>2. (x + 1) * Day + (y - x - 1) * Day = y * Day
    BY <1>1
  <2>3. (x + 1) * Day \in Nat /\ y * Day \in Nat
    BY <1>1
  <2> QED BY <2>1, <2>2, <2>3
<1>4. c * Day \in Nat /\ (c + 1) * Day \in Nat /\ d * Day \in Nat /\ (d + 1) * Day \in Nat
  BY <1>1
<1>5. ~(c < d) /\ ~(d < c)
  BY <1>1, <1>2, <1>3, <1>4
<1> QED BY <1>1, <1>5

LEMMA NoncesFinite ==
  ASSUME RowInv
  PROVE  IsFiniteSet(Nonces)
<1>1. touches \in Seq(AnyTouch)
  BY DEF RowInv, TypeOK, AnyTouch
<1>2. DOMAIN touches = 1..Len(touches) /\ Len(touches) \in Nat
  BY <1>1
<1>3. IsFiniteSet(DOMAIN touches)
  BY <1>2, FS_Interval
<1> DEFINE T == {touches[i].nonce : i \in DOMAIN touches}
           f == [i \in DOMAIN touches |-> touches[i].nonce]
<1>4. f \in Surjection(DOMAIN touches, T)
  BY DEF Surjection
<1>5. IsFiniteSet(T)
  BY <1>3, <1>4, FS_Surjection
<1>6. Nonces \in SUBSET T
  BY DEF Nonces
<1> QED BY <1>5, <1>6, FS_Subset

LEMMA InstallDays == RowInv => InstallInOneWindow
<1> SUFFICES ASSUME RowInv, NEW id \in {m.id : m \in MetaInstalls}
             PROVE  LET on == {d \in Days : \E r \in InstallAttr([from |-> d, to |-> d], NoFilter) :
                                                r.id = id}
                    IN  Cardinality(on) <= Cardinality({n \in Nonces : MetaInstall(n).id = id})
  BY DEF InstallInOneWindow
<1> DEFINE day(d) == [from |-> d, to |-> d]
           on == {d \in Days : \E r \in InstallAttr(day(d), NoFilter) : r.id = id}
           sent == {n \in Nonces : MetaInstall(n).id = id}
           f == [d \in on |-> CHOOSE n \in sent : Within(MetaInstall(n).at, day(d))]
<1>1. \A d \in on : \E n \in sent : Within(MetaInstall(n).at, day(d))
  <2> TAKE d \in on
  <2>1. PICK r \in InstallAttr(day(d), NoFilter) : r.id = id
    OBVIOUS
  <2>2. ~(\A m \in MetaInstalls : m.id # r.id)
    BY <2>1
  <2>3. \E m \in MetaInstalls : Within(m.at, day(d)) /\ r.id = m.id
    <3> DEFINE dated == {m \in MetaInstalls : Within(m.at, day(d))}
               first(m) == \A q \in dated : q.id = m.id => m.at <= q.at
    <3>1. r \in {[id |-> m.id, key |-> Min(UNION {q.keys : q \in {p \in dated : p.id = m.id /\ first(p)}})] :
                    m \in dated}
      BY <2>2, Zenon DEF InstallAttr
    <3>2. PICK m \in dated : r = [id |-> m.id, key |->
                Min(UNION {q.keys : q \in {p \in dated : p.id = m.id /\ first(p)}})]
      BY <3>1
    <3> QED BY <3>2
  <2> QED BY <2>1, <2>3 DEF MetaInstalls
<1>2. \A d \in on : f[d] \in sent /\ Within(MetaInstall(f[d]).at, day(d))
  BY <1>1
<1>3. ASSUME NEW c \in on, NEW d \in on, f[c] = f[d] PROVE c = d
  <2>1. MetaInstall(f[c]).at \in Nat
    BY <1>2, InstallIsOfTouch
  <2> HIDE DEF f
  <2> QED BY <1>2, <1>3, <2>1, OneDay
<1>4. f \in [on -> sent]
  BY <1>2
<1>5. f \in Injection(on, sent)
  <2> HIDE DEF f, on, sent
  <2> QED BY <1>3, <1>4 DEF Injection, IsInjective
<1>6. IsFiniteSet(sent)
  BY NoncesFinite, FS_Subset
<1>7. Cardinality(on) <= Cardinality(sent)
  BY <1>5, <1>6, FS_Injection
<1> QED BY <1>7

\* For every number of touches and every length of a day: no install is counted
\* in the reports of two days, an identity is on no more days than it has referrers.
THEOREM InstallHolds == Spec => []InstallInOneWindow
BY RowInit, RowStep, InstallDays, PTL DEF Spec

-----------------------------------------------------------------------------
(* Credit.                                                                 *)

\* The touch preferred to all others of a set, if there is one.
Nearest(i, F, at) == i \in F /\ \A j \in F : Preferred(i, j, at)

LEMMA NearestExists ==
  RowInv => \A at \in Nat, F \in SUBSET DOMAIN touches : F # {} => \E i \in F : Nearest(i, F, at)
<1> SUFFICES ASSUME RowInv, NEW at \in Nat, NEW F \in SUBSET DOMAIN touches, F # {}
             PROVE  \E i \in F : Nearest(i, F, at)
  OBVIOUS
<1>1. touches \in Seq(AnyTouch)
  BY DEF RowInv, TypeOK, AnyTouch
<1>2. F \subseteq 1..Len(touches) /\ Len(touches) \in Nat
  BY <1>1
<1>3. \A i \in F : touches[i].at \in Nat
  <2>1. \A i \in F : touches[i] \in AnyTouch
    BY <1>1
  <2> QED BY <2>1, TouchShape
<1> DEFINE before(i) == touches[i].at <= at
           far(i) == IF before(i) THEN at - touches[i].at ELSE touches[i].at - at
           B == {i \in F : before(i)}
           G == IF B # {} THEN B ELSE F
           H(m) == {i \in G : far(i) = m}
<1>4. G \subseteq F /\ G # {} /\ \A i, j \in G : before(i) = before(j)
  OBVIOUS
<1>5. \A i \in F : far(i) \in Nat
  BY <1>3
<1>6. PICK m \in Nat : (\E i \in G : far(i) = m) /\ \A i \in G : m <= far(i)
  <2> DEFINE D == {far(i) : i \in G}
  <2>1. D \in SUBSET Nat /\ D # {}
    BY <1>4, <1>5
  <2> HIDE DEF G, far
  <2>2. PICK d \in D : \A e \in D : d <= e
    BY <2>1, Least
  <2> QED BY <2>1, <2>2
<1>7. \A i \in H(m), j \in F : before(i) = before(j) => m <= far(j)
  BY <1>4, <1>6
<1>8. PICK i \in H(m) : \A j \in H(m) : IF tie = "older" THEN i <= j ELSE i >= j
  <2>1. H(m) # {} /\ H(m) \subseteq 1..Len(touches)
    BY <1>2, <1>4, <1>6
  <2> HIDE DEF H
  <2>2. CASE tie = "older"
    <3>1. H(m) \in SUBSET Nat
      BY <1>2, <2>1
    <3> QED BY <2>1, <2>2, <3>1, Least
  <2>3. CASE tie # "older"
    <3> DEFINE T == {Len(touches) - j : j \in H(m)}
    <3>1. T \in SUBSET Nat /\ T # {}
      BY <1>2, <2>1
    <3>2. PICK d \in T : \A e \in T : d <= e
      BY <3>1, Least
    <3>3. PICK i \in H(m) : d = Len(touches) - i
      BY <3>2
    <3>4. \A j \in H(m) : i >= j
      <4> TAKE j \in H(m)
      <4>1. Len(touches) - i <= Len(touches) - j
        BY <3>2, <3>3
      <4> QED BY <1>2, <2>1, <4>1
    <3> QED BY <2>3, <3>4
  <2> QED BY <2>2, <2>3
<1>9. ASSUME NEW j \in F PROVE Preferred(i, j, at)
  <2>1. i \in G /\ far(i) = m
    BY <1>8
  <2>2. CASE j \in G
    <3>1. before(i) = before(j) /\ m <= far(j)
      BY <1>4, <1>6, <2>1, <2>2
    <3>2. far(j) = m => j \in H(m)
      BY <2>2
    <3>3. far(j) \in Nat
      BY <1>5
    <3>4. far(i) < far(j) \/ (far(i) = far(j) /\ IF tie = "older" THEN i <= j ELSE i >= j)
      BY <1>8, <2>1, <3>1, <3>2, <3>3
    <3> QED BY <3>1, <3>4 DEF Preferred
  <2>3. CASE j \notin G
    <3>1. before(i) /\ ~before(j)
      BY <2>1, <2>3
    <3> QED BY <3>1 DEF Preferred
  <2> QED BY <2>2, <2>3
<1> QED BY <1>4, <1>8, <1>9 DEF Nearest

\* Two touches are never preferred to each other.
LEMMA PreferredOne ==
  RowInv => \A at \in Nat, i, j \in DOMAIN touches :
               Preferred(i, j, at) /\ Preferred(j, i, at) => i = j
<1> SUFFICES ASSUME RowInv, NEW at \in Nat, NEW i \in DOMAIN touches, NEW j \in DOMAIN touches,
                    Preferred(i, j, at), Preferred(j, i, at)
             PROVE  i = j
  OBVIOUS
<1>1. touches \in Seq(AnyTouch)
  BY DEF RowInv, TypeOK, AnyTouch
<1>2. i \in Nat /\ j \in Nat /\ touches[i] \in AnyTouch /\ touches[j] \in AnyTouch
  BY <1>1
<1>3. touches[i].at \in Nat /\ touches[j].at \in Nat
  BY <1>2, TouchShape
<1> QED BY <1>2, <1>3 DEF Preferred

\* A text counts under one key.
LEMMA OneKey == \A text : \E k : Key(text) = {k}
<1> TAKE text
<1>1. CASE Alias(text) = {}
  BY <1>1 DEF Key
<1>2. CASE Alias(text) # {}
  <2>1. PICK r : Alias(text) = {r}
    BY <1>2 DEF Alias
  <2>2. Key(text) = {[entity |-> r.entity, key |-> r.key]}
    BY <2>1 DEF Key
  <2> QED BY <2>2
<1> QED BY <1>1, <1>2

\* The touches of some identities that may be credited with what they did at a time.
Candidates(w, ids, at) ==
    {r \in TouchesAttr(w, NoFilter) : r.id \in ids /\ Eligible(touches[r.touch], at)}

LEMMA InPool ==
  ASSUME NEW w, NEW r \in TouchesAttr(w, NoFilter)
  PROVE  r.touch \in DOMAIN touches /\ \E k \in Key(touches[r.touch].campaign) : r.key = k.key
BY DEF TouchesAttr

\* The pool, touch by touch, as a function of the rows and links it is read from.
Actors(row, L) ==
    IF row.user # NotSet THEN {row.user}
    ELSE LET linked == {u \in Users : <<row.session, u>> \in L}
         IN IF linked # {} THEN linked ELSE {row.session} \ {NotSet}

Pooled(row, w) ==
    /\ (w.from - Lookback) * Day <= row.at
    /\ row.at < (w.to + 1) * Day
    /\ row.campaign # NotSet

Carries(row, L, j, r) ==
    \E d \in Actors(row, L), k \in Key(row.campaign) : r = [touch |-> j, id |-> d, key |-> k.key]

LEMMA PoolIs ==
  \A w, r : r \in TouchesAttr(w, NoFilter) <=>
     \E j \in DOMAIN touches : Pooled(touches[j], w) /\ Carries(touches[j], links, j, r)
<1>1. \A row : Ids(row) = Actors(row, links)
  BY DEF Ids, Actors
<1>2. \A w, r : r \in TouchesAttr(w, NoFilter) <=>
         \E j \in DOMAIN touches :
            /\ Pooled(touches[j], w)
            /\ \E d \in Ids(touches[j]), k \in Key(touches[j].campaign) :
                  r = [touch |-> j, id |-> d, key |-> k.key]
  BY DEF TouchesAttr, Pooled
<1> QED BY <1>1, <1>2 DEF Carries

LEMMA PoolIsNext ==
  (\A w, r : r \in TouchesAttr(w, NoFilter) <=>
     \E j \in DOMAIN touches : Pooled(touches[j], w) /\ Carries(touches[j], links, j, r))'
BY PoolIs, PTL

\* Credit goes to the campaign of the nearest of them.
LEMMA CreditOfNearest ==
  RowInv => \A w, ids : \A at \in Nat : \A r \in Candidates(w, ids, at) :
               (\A q \in Candidates(w, ids, at) : Preferred(r.touch, q.touch, at))
               => Credit(w, NoFilter, ids, at) = {r.key}
<1> SUFFICES ASSUME RowInv, NEW w, NEW ids, NEW at \in Nat, NEW r \in Candidates(w, ids, at),
                    \A q \in Candidates(w, ids, at) : Preferred(r.touch, q.touch, at)
             PROVE  Credit(w, NoFilter, ids, at) = {r.key}
  OBVIOUS
<1> DEFINE found == Candidates(w, ids, at)
           best == CHOOSE x \in found : \A q \in found : Preferred(x.touch, q.touch, at)
<1>1. Credit(w, NoFilter, ids, at) = {best.key}
  BY DEF Credit, Candidates
<1>2. best \in found /\ \A q \in found : Preferred(best.touch, q.touch, at)
  OBVIOUS
<1> HIDE DEF best
<1>3. best \in TouchesAttr(w, NoFilter) /\ r \in TouchesAttr(w, NoFilter)
  BY <1>2 DEF Candidates
<1>4. best.touch = r.touch
  BY <1>2, <1>3, InPool, PreferredOne
<1>5. best.key = r.key
  BY <1>3, <1>4, InPool, OneKey
<1> QED BY <1>1, <1>5

LEMMA CreditOfNearestNext ==
  (RowInv => \A w, ids : \A at \in Nat : \A r \in Candidates(w, ids, at) :
               (\A q \in Candidates(w, ids, at) : Preferred(r.touch, q.touch, at))
               => Credit(w, NoFilter, ids, at) = {r.key})'
BY CreditOfNearest, PTL

LEMMA CreditOfNone ==
  \A w, ids, at : Candidates(w, ids, at) = {} => Credit(w, NoFilter, ids, at) = {}
BY DEF Credit, Candidates

LEMMA CreditOfNoneNext ==
  (\A w, ids, at : Candidates(w, ids, at) = {} => Credit(w, NoFilter, ids, at) = {})'
BY CreditOfNone, PTL

\* What somebody did at a time, with touch n arriving after it: the candidates
\* of before stay, in their order, and a new one comes after each that was there.
LEMMA LaterTouch ==
  ASSUME RowInv, RowInv', NEW t, NEW n, NEW w, NEW ids, NEW at \in Nat,
         n = Len(touches) + 1, touches' = Append(touches, t), t \in AnyTouch,
         UNCHANGED <<links, tie>>, t.at > at,
         \/ t.type = "first_party_click"
         \/ \E r \in Candidates(w, ids, at) : touches[r.touch].at <= at
  PROVE  Credit(w, NoFilter, ids, at)' = Credit(w, NoFilter, ids, at)
<1> DEFINE F == Candidates(w, ids, at)
<1>1. /\ touches \in Seq(AnyTouch) /\ n \notin DOMAIN touches
      /\ DOMAIN touches' = DOMAIN touches \cup {n} /\ touches'[n] = t
      /\ \A j \in DOMAIN touches : touches'[j] = touches[j]
  BY DEF RowInv, TypeOK, AnyTouch
<1>3. \A j, k \in DOMAIN touches : Preferred(j, k, at)' = Preferred(j, k, at)
  BY <1>1 DEF Preferred
<1>4. ASSUME NEW r
      PROVE  /\ r \in F => r \in F'
             /\ r \in F' => r \in F \/ (r.touch = n /\ t.type # "first_party_click")
  <2>1. r \in F <=> \E j \in DOMAIN touches : /\ Pooled(touches[j], w) /\ Carries(touches[j], links, j, r)
                                              /\ r.id \in ids /\ Eligible(touches[j], at)
    <3>1. \A j : Carries(touches[j], links, j, r) => r.touch = j
      BY DEF Carries
    <3> QED BY <3>1, PoolIs DEF Candidates
  <2>2. r \in F' <=> \E j \in DOMAIN touches' : /\ Pooled(touches'[j], w) /\ Carries(touches'[j], links, j, r)
                                                /\ r.id \in ids /\ Eligible(touches'[j], at)
    <3>1. r \in TouchesAttr(w, NoFilter)'
            <=> \E j \in DOMAIN touches' : Pooled(touches'[j], w) /\ Carries(touches'[j], links, j, r)
      BY PoolIsNext
    <3>2. \A j : Carries(touches'[j], links, j, r) => r.touch = j
      BY DEF Carries
    <3> QED BY <3>1, <3>2 DEF Candidates
  <2>3. t.type = "first_party_click" => ~Eligible(t, at)
    <3>1. t.at \in Nat
      BY TouchShape
    <3> QED BY <3>1 DEF Eligible
  <2>4. \A j : Carries(t, links, j, r) => r.touch = j
    BY DEF Carries
  <2> HIDE DEF F
  <2> QED BY <1>1, <2>1, <2>2, <2>3, <2>4
<1>5. CASE F = {}
  <2>1. F' = {}
    BY <1>4, <1>5
  <2> QED BY <1>5, <2>1, CreditOfNone, CreditOfNoneNext
<1>6. CASE F # {}
  <2> DEFINE T == {r.touch : r \in F}
  <2>1. T \in SUBSET DOMAIN touches /\ T # {}
    BY <1>6, InPool DEF Candidates
  <2>2. PICK b \in T : Nearest(b, T, at)
    BY <2>1, NearestExists
  <2>3. PICK r \in F : r.touch = b
    OBVIOUS
  <2>4. \A q \in F : Preferred(b, q.touch, at)
    BY <2>2 DEF Nearest
  <2>5. Credit(w, NoFilter, ids, at) = {r.key}
    BY <2>3, <2>4, CreditOfNearest
  <2>6. ASSUME NEW q \in F' PROVE Preferred(b, q.touch, at)'
    <3>1. CASE q \in F
      <4>1. b \in DOMAIN touches /\ q.touch \in DOMAIN touches /\ Preferred(b, q.touch, at)
        BY <2>1, <2>2, <2>4, <3>1
      <4> QED BY <1>3, <4>1
    <3>2. CASE q \notin F
      <4>1. q.touch = n /\ t.type # "first_party_click"
        BY <1>4, <2>6, <3>2
      <4>2. PICK s \in F : touches[s.touch].at <= at
        BY <4>1
      <4>3. b \in DOMAIN touches /\ s.touch \in DOMAIN touches /\ Preferred(b, s.touch, at)
        BY <2>1, <2>2, <2>4
      <4>4. touches[b].at <= at
        BY <4>2, <4>3 DEF Preferred
      <4>5. touches'[b].at <= at /\ ~(touches'[n].at <= at)
        <5>1. t.at \in Nat
          BY TouchShape
        <5> QED BY <1>1, <4>3, <4>4, <5>1
      <4> QED BY <4>1, <4>5 DEF Preferred
    <3> QED BY <3>1, <3>2
  <2>7. r \in F'
    BY <1>4
  <2>8. Credit(w, NoFilter, ids, at)' = {r.key}
    BY <2>3, <2>6, <2>7, CreditOfNearestNext
  <2> QED BY <2>5, <2>8
<1> QED BY <1>5, <1>6

LEMMA LaterStep == RowInv /\ RowInv' /\ [Next]_vars =>
    [ Len(touches') > Len(touches) =>
        LET t == touches'[Len(touches')] IN
        \A i \in DOMAIN orders :
            /\ t.at > orders[i].at
            /\ \/ t.type = "first_party_click"
               \/ \E r \in TouchesAttr(Always, NoFilter) :
                     /\ r.id \in Ids(orders[i]) /\ touches[r.touch].at <= orders[i].at
                     /\ Eligible(touches[r.touch], orders[i].at)
            => Credited(i)' = Credited(i) ]_vars
<1> SUFFICES ASSUME RowInv, RowInv', [Next]_vars, Len(touches') > Len(touches),
                    NEW t, t = touches'[Len(touches')], NEW i \in DOMAIN orders,
                    t.at > orders[i].at,
                    \/ t.type = "first_party_click"
                    \/ \E r \in TouchesAttr(Always, NoFilter) :
                          /\ r.id \in Ids(orders[i]) /\ touches[r.touch].at <= orders[i].at
                          /\ Eligible(touches[r.touch], orders[i].at)
             PROVE  Credited(i)' = Credited(i)
  OBVIOUS
<1>1. touches \in Seq(AnyTouch) /\ orders \in Seq(Orders)
  BY DEF RowInv, TypeOK, AnyTouch
<1>2. StoreTouch
  <2>1. Len(touches) \in Nat
    BY <1>1
  <2>2. ASSUME StitchTouches PROVE FALSE
    <3>1. DOMAIN touches' = DOMAIN touches
      BY <2>2 DEF StitchTouches
    <3>2. touches' \in Seq(AnyTouch)
      BY DEF RowInv, TypeOK, AnyTouch
    <3>3. Len(touches') = Len(touches)
      BY <1>1, <3>1, <3>2
    <3> QED BY <2>1, <3>3
  <2> QED BY <2>1, <2>2 DEF Next, StoreEvent, StoreOrder, StoreLink, TiesFallOtherwise, vars
<1>3. /\ touches' = Append(touches, t) /\ t \in AnyTouch
      /\ UNCHANGED <<orders, links, tie>>
  <2>1. PICK s \in Touches : touches' = Append(touches, s)
    BY <1>2 DEF StoreTouch
  <2>2. s \in AnyTouch
    BY DEF AnyTouch
  <2>3. t = s
    BY <1>1, <2>1, <2>2
  <2> QED BY <1>2, <2>1, <2>2, <2>3 DEF StoreTouch
<1>4. PICK at \in Nat : at = orders[i].at
  <2>1. orders[i] \in Orders
    BY <1>1
  <2> QED BY <2>1, FunnelAssumption
<1>5. PICK ids : ids = Ids(orders[i])
  OBVIOUS
<1>6. orders[i].at' = at /\ Ids(orders[i])' = ids
  BY <1>3, <1>4, <1>5 DEF Ids
<1>7. \/ t.type = "first_party_click"
      \/ \E r \in Candidates(Always, ids, at) : touches[r.touch].at <= at
  BY <1>4, <1>5 DEF Candidates
<1>8. Credit(Always, NoFilter, ids, at)' = Credit(Always, NoFilter, ids, at)
  BY <1>3, <1>4, <1>7, LaterTouch
<1> QED BY <1>4, <1>5, <1>6, <1>8 DEF Credited

\* However many touches, links and orders there are: a touch later than an order
\* takes it from no touch before it, and a later click is credited with nothing.
THEOREM LaterHolds == Spec => NothingLaterIsCredited
BY RowInit, RowStep, LaterStep, PTL DEF Spec, NothingLaterIsCredited

-----------------------------------------------------------------------------
(* Sums.                                                                   *)

\* What the report relies on the platforms for: an id names one entity of its
\* channel, whatever its level, and the campaign of a fact has a name.
IdsDistinct == \A c, d \in Entities : c.channel = d.channel /\ c.ext = d.ext => c = d
Named == \A p \in Facts : \A c \in CampaignsOf(p.entity) : c.name # NotSet

LEMMA OneCampaign ==
  ASSUME IdsDistinct, NEW e \in Entities
  PROVE  \E c : CampaignsOf(e) = {c}
<1>1. ASSUME NEW x \in Entities PROVE \E y \in Entities : Above(x) = {y}
  <2>1. CASE {c \in Entities : c.channel = x.channel /\ c.ext = x.parent} = {}
    BY <2>1 DEF Above
  <2>2. CASE {c \in Entities : c.channel = x.channel /\ c.ext = x.parent} # {}
    <3>1. PICK y \in Entities : y.channel = x.channel /\ y.ext = x.parent
      BY <2>2
    <3>2. {c \in Entities : c.channel = x.channel /\ c.ext = x.parent} = {y}
      BY <3>1 DEF IdsDistinct
    <3> QED BY <3>2 DEF Above
  <2> QED BY <2>1, <2>2
<1>2. PICK b \in Entities : Above(e) = {b}
  BY <1>1
<1>3. PICK c \in Entities : Above(b) = {c}
  BY <1>1
<1> DEFINE camp == [key  |-> c.ext,
                    name |-> IF c.name # NotSet THEN c.name
                             ELSE IF b.name # NotSet THEN b.name ELSE e.name]
<1>4. CampaignsOf(e) = UNION {{camp}}
  BY <1>2, <1>3 DEF CampaignsOf
<1> HIDE DEF camp
<1> QED BY <1>4

\* The sums of the report, as sums of functions.
LEMMA TotalIsSum ==
  ASSUME NEW all, NEW field, NEW K, K = DOMAIN all, IsFiniteSet(K),
         NEW g, \A x \in K : g[x] = all[x][field]
  PROVE  TotalOf(all, field) = Sum(g, K)
<1> DEFINE Eq(H) == H = [s \in SUBSET K |-> IF s = {} THEN 0
                          ELSE all[AnyOf(s)][field] + H[s \ {AnyOf(s)}]]
<1>1. PICK F : Adds(F, g, SUBSET K)
  BY SumExists
<1>2. \A s \in SUBSET K : s # {} => g[AnyOf(s)] = all[AnyOf(s)][field]
  BY OneLess
<1>3. \A H : Eq(H) <=> Adds(H, g, SUBSET K)
  BY <1>2 DEF Adds
<1>4. Eq(CHOOSE H : Eq(H))
  BY <1>1, <1>3
<1> SUFFICES (CHOOSE H : Eq(H))[K] = Sum(g, K)
  BY DEF TotalOf, MapThenSumSet, MapThenFoldSet, AnyOf
<1> HIDE DEF Eq
<1>5. Adds(CHOOSE H : Eq(H), g, SUBSET K) /\ K \in SUBSET K
  BY <1>3, <1>4
<1> QED BY <1>5, SumWithin

LEMMA RowSpendsAreSum ==
  ASSUME NEW S, IsFiniteSet(S), NEW g, \A x \in S : g[x] = x.fact.spend
  PROVE  MapThenSumSet(LAMBDA x : x.fact.spend, S) = Sum(g, S)
<1> DEFINE Eq(H) == H = [s \in SUBSET S |-> IF s = {} THEN 0
                          ELSE AnyOf(s).fact.spend + H[s \ {AnyOf(s)}]]
<1>1. PICK F : Adds(F, g, SUBSET S)
  BY SumExists
<1>2. \A s \in SUBSET S : s # {} => g[AnyOf(s)] = AnyOf(s).fact.spend
  BY OneLess
<1>3. \A H : Eq(H) <=> Adds(H, g, SUBSET S)
  BY <1>2 DEF Adds
<1>4. Eq(CHOOSE H : Eq(H))
  BY <1>1, <1>3
<1> SUFFICES (CHOOSE H : Eq(H))[S] = Sum(g, S)
  BY DEF MapThenSumSet, MapThenFoldSet, AnyOf
<1> HIDE DEF Eq
<1>5. Adds(CHOOSE H : Eq(H), g, SUBSET S) /\ S \in SUBSET S
  BY <1>3, <1>4
<1> QED BY <1>5, SumWithin

\* The facts of the window.
FactsOf(w) == {p \in Facts : w.from <= p.day /\ p.day <= w.to}

LEMMA FactSpendsAreSum ==
  ASSUME NEW w, NEW S, S = FactsOf(w), IsFiniteSet(S), NEW g, \A x \in S : g[x] = x.spend
  PROVE  SpendIn(w) = Sum(g, S)
<1> DEFINE Eq(H) == H = [s \in SUBSET S |-> IF s = {} THEN 0
                          ELSE AnyOf(s).spend + H[s \ {AnyOf(s)}]]
<1>1. PICK F : Adds(F, g, SUBSET S)
  BY SumExists
<1>2. \A s \in SUBSET S : s # {} => g[AnyOf(s)] = AnyOf(s).spend
  BY OneLess
<1>3. \A H : Eq(H) <=> Adds(H, g, SUBSET S)
  BY <1>2 DEF Adds
<1>4. Eq(CHOOSE H : Eq(H))
  BY <1>1, <1>3
<1> SUFFICES (CHOOSE H : Eq(H))[S] = Sum(g, S)
  BY DEF SpendIn, FactsOf, MapThenSumSet, MapThenFoldSet, AnyOf
<1> HIDE DEF Eq
<1>5. Adds(CHOOSE H : Eq(H), g, SUBSET S) /\ S \in SUBSET S
  BY <1>3, <1>4
<1> QED BY <1>5, SumWithin

\* A touch of the window with a campaign has one row.
LEMMA TouchRows ==
  ASSUME NEW w, NEW r
  PROVE  r \in TouchCampaigns(w, NoFilter) <=>
           \E i \in DOMAIN touches :
              /\ Within(touches[i].at, w) /\ touches[i].campaign # NotSet
              /\ \E k \in Key(touches[i].campaign) :
                    r = [touch |-> i, entity |-> k.entity, key |-> k.key]
<1>1. NoFilter.campaign = NotSet /\ NoFilter.channel = NotSet /\ NoFilter.medium = NotSet
  BY DEF NoFilter
<1>2. \A t : TouchFilter(t, NoFilter) <=> t.campaign # NotSet
  BY <1>1 DEF TouchFilter
<1> QED BY <1>2 DEF TouchCampaigns

Clicks(w) == {i \in DOMAIN touches :
                 /\ Within(touches[i].at, w) /\ touches[i].campaign # NotSet
                 /\ touches[i].type = "first_party_click"}

ClickRows(w) == {r \in TouchCampaigns(w, NoFilter) : touches[r.touch].type = "first_party_click"}

LEMMA SameTouch ==
  ASSUME NEW w, NEW r \in TouchCampaigns(w, NoFilter), NEW q \in TouchCampaigns(w, NoFilter),
         r.touch = q.touch
  PROVE  r = q
<1>1. PICK i \in DOMAIN touches : \E k \in Key(touches[i].campaign) :
                                     r = [touch |-> i, entity |-> k.entity, key |-> k.key]
  BY TouchRows
<1>2. PICK j \in DOMAIN touches : \E k \in Key(touches[j].campaign) :
                                     q = [touch |-> j, entity |-> k.entity, key |-> k.key]
  BY TouchRows
<1>3. i = j
  BY <1>1, <1>2
<1> QED BY <1>1, <1>2, <1>3, OneKey

LEMMA RowOfClick ==
  ASSUME NEW w
  PROVE  [r \in ClickRows(w) |-> r.touch] \in Bijection(ClickRows(w), Clicks(w))
<1> DEFINE f == [r \in ClickRows(w) |-> r.touch]
<1>1. ASSUME NEW r \in ClickRows(w) PROVE r.touch \in Clicks(w)
  BY TouchRows DEF ClickRows, Clicks
<1>2. ASSUME NEW r \in ClickRows(w), NEW q \in ClickRows(w), r.touch = q.touch PROVE r = q
  BY <1>2, SameTouch DEF ClickRows
<1>3. ASSUME NEW i \in Clicks(w) PROVE \E r \in ClickRows(w) : r.touch = i
  <2>1. PICK k : Key(touches[i].campaign) = {k}
    BY OneKey
  <2>2. [touch |-> i, entity |-> k.entity, key |-> k.key] \in TouchCampaigns(w, NoFilter)
    BY <2>1, TouchRows DEF Clicks
  <2> QED BY <2>2 DEF ClickRows, Clicks
<1>4. f \in [ClickRows(w) -> Clicks(w)]
  BY <1>1
<1>5. f \in Injection(ClickRows(w), Clicks(w))
  BY <1>2, <1>4 DEF Injection, IsInjective
<1>6. f \in Surjection(ClickRows(w), Clicks(w))
  BY <1>3, <1>4 DEF Surjection
<1> QED BY <1>5, <1>6 DEF Bijection

LEMMA ClicksAddUp ==
  ASSUME RowInv, NEW w, NEW K, IsFiniteSet(K), \A r \in TouchCampaigns(w, NoFilter) : r.key \in K,
         NEW h, \A k \in K : h[k] = FirstPartyClicks(w, NoFilter, k)
  PROVE  Sum(h, K) = Cardinality(Clicks(w))
<1>1. DOMAIN touches = 1..Len(touches) /\ Len(touches) \in Nat
  BY DEF RowInv, TypeOK
<1>2. IsFiniteSet(Clicks(w))
  <2>1. IsFiniteSet(DOMAIN touches) /\ Clicks(w) \in SUBSET DOMAIN touches
    BY <1>1, FS_Interval DEF Clicks
  <2> QED BY <2>1, FS_Subset
<1> DEFINE key == [r \in ClickRows(w) |-> r.key]
<1>3. IsFiniteSet(ClickRows(w)) /\ Cardinality(ClickRows(w)) = Cardinality(Clicks(w))
  <2>1. [r \in ClickRows(w) |-> r.touch] \in Injection(ClickRows(w), Clicks(w))
    BY RowOfClick DEF Bijection
  <2>2. IsFiniteSet(ClickRows(w))
    BY <1>2, <2>1, FS_Injection
  <2>3. Cardinality(Clicks(w)) = Cardinality(ClickRows(w))
    <3>1. PICK f : f \in Bijection(ClickRows(w), Clicks(w))
      BY RowOfClick
    <3> QED BY <2>2, <3>1, FS_Bijection DEF ExistsBijection
  <2> QED BY <2>2, <2>3
<1>4. \A r \in ClickRows(w) : key[r] \in K
  BY DEF ClickRows
<1>5. \A k \in K : h[k] = Cardinality(Group(ClickRows(w), key, k))
  <2> TAKE k \in K
  <2>1. Group(ClickRows(w), key, k)
          = {r \in TouchCampaigns(w, NoFilter) :
                r.key = k /\ touches[r.touch].type = "first_party_click"}
    BY DEF Group, ClickRows
  <2> QED BY <2>1 DEF FirstPartyClicks
<1> HIDE DEF key
<1> QED BY <1>3, <1>4, <1>5, CountGroups

\* A fact of the window has one row, that of its campaign.
RowsOf(w, p) == {r \in AdCampaigns(w, NoFilter) : r.fact = p}

LEMMA FactRows ==
  ASSUME IdsDistinct, Named, NEW w
  PROVE  /\ \A r \in AdCampaigns(w, NoFilter) : r.fact \in FactsOf(w)
         /\ \A p \in FactsOf(w) : \E r : RowsOf(w, p) = {r}
<1>1. NoFilter.campaign = NotSet /\ NoFilter.channel = NotSet
  BY DEF NoFilter
<1>2. \A r : r \in AdCampaigns(w, NoFilter) <=>
                \E p \in FactsOf(w) : \E c \in CampaignsOf(p.entity) : r = [fact |-> p, key |-> c.key]
  BY <1>1 DEF AdCampaigns, FactsOf, Named
<1>3. ASSUME NEW p \in FactsOf(w)
      PROVE  \E r : RowsOf(w, p) = {r}
  <2>1. PICK c : CampaignsOf(p.entity) = {c}
    BY OneCampaign, FunnelAssumption DEF FactsOf
  <2>2. \A q : q \in RowsOf(w, p) <=> q = [fact |-> p, key |-> c.key]
    BY <1>2, <2>1 DEF RowsOf
  <2>3. RowsOf(w, p) = {[fact |-> p, key |-> c.key]}
    BY <2>2
  <2> QED BY <2>3
<1>4. ASSUME NEW r \in AdCampaigns(w, NoFilter) PROVE r.fact \in FactsOf(w)
  BY <1>2
<1> QED BY <1>3, <1>4

LEMMA AdRowsFinite ==
  ASSUME IdsDistinct, Named, NEW w
  PROVE  IsFiniteSet(AdCampaigns(w, NoFilter))
<1> DEFINE A == AdCampaigns(w, NoFilter)
           P == FactsOf(w)
           fact == [r \in A |-> r.fact]
<1>1. IsFiniteSet(P)
  BY FunnelAssumption, FS_Subset DEF FactsOf
<1>2. fact \in [A -> P]
  BY FactRows
<1>3. \A r, q \in A : r.fact = q.fact => r = q
  <2> SUFFICES ASSUME NEW r \in A, NEW q \in A, r.fact = q.fact PROVE r = q
    OBVIOUS
  <2>1. r \in RowsOf(w, q.fact) /\ q \in RowsOf(w, q.fact) /\ q.fact \in FactsOf(w)
    BY FactRows DEF RowsOf
  <2> QED BY <2>1, FactRows
<1>4. fact \in Injection(A, P)
  BY <1>2, <1>3 DEF Injection, IsInjective
<1> QED BY <1>1, <1>4, FS_Injection

LEMMA KeysFinite ==
  ASSUME NEW S, IsFiniteSet(S)
  PROVE  IsFiniteSet({r.key : r \in S})
<1> DEFINE f == [r \in S |-> r.key]
           T == {r.key : r \in S}
<1>1. f \in Surjection(S, T)
  BY DEF Surjection
<1> QED BY <1>1, FS_Surjection

LEMMA SpendAddsUp ==
  ASSUME IdsDistinct, Named, NEW w,
         NEW K, IsFiniteSet(K), \A r \in AdCampaigns(w, NoFilter) : r.key \in K,
         NEW h, \A k \in K : h[k] = AdSpend(w, NoFilter, k)
  PROVE  Sum(h, K) = SpendIn(w)
<1> DEFINE A == AdCampaigns(w, NoFilter)
           P == FactsOf(w)
           key == [r \in A |-> r.key]
           fact == [r \in A |-> r.fact]
           g == [r \in A |-> r.fact.spend]
           s == [p \in P |-> p.spend]
<1>1. IsFiniteSet(P) /\ \A p \in P : p.spend \in Nat
  BY FunnelAssumption, FS_Subset DEF FactsOf
<1>2. IsFiniteSet(A)
  BY AdRowsFinite
<1>3. /\ \A r \in A : g[r] \in Nat /\ key[r] \in K /\ fact[r] \in P
      /\ \A r \in A : g[r] = r.fact.spend
      /\ \A p \in P : s[p] = p.spend
  BY <1>1, FactRows
<1>4. \A k \in K : h[k] = Sum(g, Group(A, key, k))
  <2> TAKE k \in K
  <2>1. Group(A, key, k) = {r \in A : r.key = k} /\ Group(A, key, k) \subseteq A
    BY DEF Group
  <2>2. IsFiniteSet(Group(A, key, k))
    BY <1>2, <2>1, FS_Subset
  <2>3. \A r \in Group(A, key, k) : g[r] = r.fact.spend
    BY <1>3, <2>1
  <2>4. MapThenSumSet(LAMBDA x : x.fact.spend, Group(A, key, k)) = Sum(g, Group(A, key, k))
    <3> HIDE DEF g, key
    <3> QED BY <2>2, <2>3, RowSpendsAreSum
  <2> QED BY <2>1, <2>4 DEF AdSpend
<1>5. \A p \in P : \E r \in A : Group(A, fact, p) = {r} /\ s[p] = g[r]
  <2> TAKE p \in P
  <2>1. PICK r : RowsOf(w, p) = {r}
    BY FactRows
  <2>2. r \in A /\ r.fact = p /\ Group(A, fact, p) = {r}
    BY <2>1 DEF Group, RowsOf
  <2> QED BY <1>3, <2>2
<1>6. SpendIn(w) = Sum(s, P)
  <2> HIDE DEF s
  <2> QED BY <1>1, <1>3, FactSpendsAreSum
<1> HIDE DEF A, P, key, fact, g, s
<1>7. Sum(h, K) = Sum(g, A)
  BY <1>2, <1>3, <1>4, SumGroups
<1>8. Sum(s, P) = Sum(g, A)
  BY <1>1, <1>2, <1>3, <1>5, SumRenamed
<1> QED BY <1>6, <1>7, <1>8 DEF A, P

LEMMA TouchRowsFinite ==
  ASSUME RowInv, NEW w
  PROVE  IsFiniteSet(TouchCampaigns(w, NoFilter))
<1> DEFINE R == TouchCampaigns(w, NoFilter)
           f == [r \in R |-> r.touch]
<1>1. DOMAIN touches = 1..Len(touches) /\ Len(touches) \in Nat
  BY DEF RowInv, TypeOK
<1>2. IsFiniteSet(DOMAIN touches)
  BY <1>1, FS_Interval
<1>3. f \in [R -> DOMAIN touches]
  BY TouchRows
<1>4. ASSUME NEW r \in R, NEW q \in R, r.touch = q.touch PROVE r = q
  BY <1>4, SameTouch
<1>5. f \in Injection(R, DOMAIN touches)
  BY <1>3, <1>4 DEF Injection, IsInjective
<1> QED BY <1>2, <1>5, FS_Injection

LEMMA Sums == IdsDistinct /\ Named /\ RowInv => RowsAddUp
<1> SUFFICES ASSUME IdsDistinct, Named, RowInv, NEW w \in Windows,
                    NEW all, all = CampaignFunnel(w, NoFilter)
             PROVE  /\ TotalOf(all, "first_party_clicks") = Cardinality(Clicks(w))
                    /\ TotalOf(all, "ad_spend_inr") = SpendIn(w)
  BY DEF RowsAddUp, Clicks
<1> DEFINE K == DOMAIN all
           clicks == [k \in K |-> all[k].first_party_clicks]
           spend == [k \in K |-> all[k].ad_spend_inr]
<1>1. /\ K = Campaigns(w, NoFilter)
      /\ \A k \in K : clicks[k] = FirstPartyClicks(w, NoFilter, k) /\ spend[k] = AdSpend(w, NoFilter, k)
  BY DEF CampaignFunnel
<1>2. /\ \A r \in TouchCampaigns(w, NoFilter) : r.key \in K
      /\ \A r \in AdCampaigns(w, NoFilter) : r.key \in K
      /\ K = {r.key : r \in TouchCampaigns(w, NoFilter)} \cup {r.key : r \in AdCampaigns(w, NoFilter)}
  BY <1>1 DEF Campaigns, NoFilter
<1>3. IsFiniteSet(K)
  <2> DEFINE ofAds == {r.key : r \in AdCampaigns(w, NoFilter)}
             ofTouches == {r.key : r \in TouchCampaigns(w, NoFilter)}
  <2>1. IsFiniteSet(ofAds)
    BY AdRowsFinite, KeysFinite
  <2>2. IsFiniteSet(ofTouches)
    BY TouchRowsFinite, KeysFinite
  <2>3. K = ofTouches \cup ofAds
    BY <1>2
  <2> HIDE DEF K, ofAds, ofTouches
  <2> QED BY <2>1, <2>2, <2>3, FS_Union
<1> HIDE DEF K, clicks, spend
<1>4. TotalOf(all, "first_party_clicks") = Cardinality(Clicks(w))
  <2>1. Sum(clicks, K) = Cardinality(Clicks(w))
    BY <1>1, <1>2, <1>3, ClicksAddUp
  <2>2. K = DOMAIN all /\ \A k \in K : clicks[k] = all[k]["first_party_clicks"]
    BY DEF clicks, K
  <2> QED BY <1>3, <2>1, <2>2, TotalIsSum
<1>5. TotalOf(all, "ad_spend_inr") = SpendIn(w)
  <2>1. Sum(spend, K) = SpendIn(w)
    BY <1>1, <1>2, <1>3, SpendAddsUp
  <2>2. K = DOMAIN all /\ \A k \in K : spend[k] = all[k]["ad_spend_inr"]
    BY DEF spend, K
  <2> QED BY <1>3, <2>1, <2>2, TotalIsSum
<1> QED BY <1>4, <1>5

\* For all tables: the campaigns' clicks and spend add up to those of the window,
\* however many names and ids the campaigns go by.
THEOREM RowsHold == ASSUME IdsDistinct, Named PROVE Spec => []RowsAddUp
BY RowInit, RowStep, Sums, PTL DEF Spec
=============================================================================
