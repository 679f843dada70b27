---------------------------- MODULE EventMetrics -----------------------------
(***************************************************************************)
(* The three reports over the event store: daily active users, the ordered *)
(* funnel and cohort retention.  Each joins the rows with the links of     *)
(* their sessions and names whoever acted by one key: the user of the row, *)
(* else the user its session is linked to, else the session.               *)
(*                                                                         *)
(* The code casts times to dates in two ways: the window and the daily     *)
(* users by the timezone of the database session, the cohorts by that of   *)
(* India.  A time has a date of each kind, and they need not be the same.  *)
(***************************************************************************)
EXTENDS EventStore, FiniteSetsExt, Sequences

CONSTANTS
    Names,                \* event names
    Name, User, Session,  \* what each event carries
    Steps,                \* the steps of a funnel
    SessionDay, IstDay,   \* the dates of a time, by either timezone
    FirstSeen,            \* the cohort of any event
    Nobody                \* an absent user_id, session_id or link

\* The times a row can be stored with.
Instants == 0..(MaxTime + Future)

ASSUME MetricsAssumption ==
    /\ Name \in [Events -> Names]
    /\ Steps \in Seq(Names) /\ FirstSeen \notin Names
    /\ SessionDay \in [Instants -> Nat] /\ IstDay \in [Instants -> Nat]
    /\ IsFiniteSet(Events) /\ IsFiniteSet(Names)
    /\ Cardinality(Names) <= 50           \* by_event has limit 50
    /\ \A e \in Events, x \in Events :    \* 'sid:' || session_id is no bigint
          User[e] = Session[x] => User[e] = Nobody
    /\ Identified = {e \in Events : User[e] # Nobody /\ Session[e] # Nobody}

-----------------------------------------------------------------------------
(* IDENTITY_JOIN and IDENTITY_KEY.                                         *)

\* The users the LEFT JOIN pairs an event's row with: a session two users
\* logged in from has two, and its rows come twice.
Matches(e) ==
    LET users == {User[x] : x \in {y \in linked : Session[y] = Session[e]}} IN
    IF Session[e] = Nobody \/ users = {} THEN {Nobody} ELSE users

\* faulty: the link comes before the row's own user.
LinkFirstKey(e, match) ==
    IF match # Nobody THEN match
    ELSE IF User[e] # Nobody THEN User[e]
    ELSE Session[e]

\* The key of a row paired with a user, Nobody when it has neither id.
IdentityKey(e, match) ==
    IF User[e] # Nobody THEN User[e]
    ELSE IF match # Nobody THEN match
    ELSE Session[e]

\* windowClause: the times from the start of a date to the end of another.
WindowClause(from, to) == {t \in Instants : SessionDay[t] \in from..to}

\* The joined rows of a window, each with who acted.
Joined(window) ==
    {j \in UNION {{[row |-> r, match |-> m, who |-> IdentityKey(r.id, m)] : m \in Matches(r.id)}
                     : r \in {x \in rows : x.at \in window}} :
        j.who # Nobody}

Who(joined) == {j.who : j \in joined}
On(joined, date, day) == {j \in joined : date[j.row.at] = day}
Named(joined, name) == {j \in joined : Name[j.row.id] = name}

-----------------------------------------------------------------------------
(* dau, funnel, retention.                                                 *)

Dau(window) ==
    LET joined == Joined(window) IN
    [daily        |-> [d \in {SessionDay[t] : t \in window} |->
                         [dau    |-> Cardinality(Who(On(joined, SessionDay, d))),
                          events |-> Cardinality(On(joined, SessionDay, d))]],
     unique_users |-> Cardinality(Who(joined)),
     events       |-> Cardinality(joined),
     by_event     |-> [n \in Names |->
                         Cardinality({r \in rows : r.at \in window /\ Name[r.id] = n})]]

\* The time each identity fired each step at: the first one after its time of
\* the step before.  Those it has no time for are not in the domain.
StepTimes(window, steps) ==
    LET joined == Joined(window)
        s[i \in DOMAIN steps] ==
            LET before == IF i = 1 THEN <<>> ELSE s[i-1]
                fired == {j \in Named(joined, steps[i]) :
                             i > 1 => j.who \in DOMAIN before /\ j.row.at > before[j.who]}
            IN  [p \in Who(fired) |-> Min({j.row.at : j \in {x \in fired : x.who = p}})]
    IN  s

Funnel(window, steps) ==
    [i \in DOMAIN steps |-> Cardinality(DOMAIN StepTimes(window, steps)[i])]

\* The cohort of a day are those whose first row of the cohort's event (of any
\* event: FirstSeen) is on it; retained after n days are those of them active
\* exactly n days later.
RetentionReport(window, days, cohort) ==
    LET joined == Joined(window)
        entered == IF cohort = FirstSeen THEN joined ELSE Named(joined, cohort)
        first(p) == Min({IstDay[j.row.at] : j \in {x \in entered : x.who = p}})
        members(d) == {p \in Who(On(entered, IstDay, d)) : first(p) = d}
    IN  [d \in {IstDay[t] : t \in window} |->
           [size     |-> Cardinality(members(d)),
            retained |-> [n \in days |->
                            Cardinality(members(d) \cap Who(On(joined, IstDay, d + n)))]]]

-----------------------------------------------------------------------------
(* What the reports promise.                                               *)

Total(f) == FoldSet(LAMBDA x, sum : f[x] + sum, 0, DOMAIN f)

\* A stamp the server's clock, since the installation, never had to clamp.
Steady(e) == stamp[e] \in (now - Past)..(Min(StartTimes) + Future)

\* What somebody did: the totals leave out a row with neither id.
Known(e) == User[e] # Nobody \/ Session[e] # Nobody

SharedSession == \E e \in linked : Cardinality(Matches(e)) > 1

\* An event posted again after a failure, late or by two requests at once is
\* counted once, as long as its stamp lay in the window of every clock that
\* clamped it and its session belongs to one user.  Over any dates, the users of
\* dau are the cohorts of retention, although the two cast times to different
\* dates: a cohort is counted by dau on the dates its day has a share in.  No
\* funnel step has more than the last.
ReportsAgree ==
    rows # {} =>
        LET all  == Dau(Instants)
            last == Max({SessionDay[t] : t \in Instants})
        IN
        /\ (\A e \in Events : stamp[e] # Unminted => Steady(e)) /\ ~SharedSession =>
              /\ Total(all.by_event) = Cardinality({r.id : r \in rows})
              /\ all.events = Cardinality({r.id : r \in {x \in rows : Known(x.id)}})
        /\ \A from \in {0, SessionDay[now]} :
              LET window  == WindowClause(from, last)
                  users   == Dau(window)
                  cohorts == RetentionReport(window, {0, 1}, FirstSeen)
                  steps   == Funnel(window, Steps)
                  shared(d) == {SessionDay[t] : t \in {x \in window : IstDay[x] = d}}
              IN  /\ users.unique_users = Total([d \in DOMAIN cohorts |-> cohorts[d].size])
                  /\ \A d \in DOMAIN cohorts :
                        cohorts[d].retained[0] <= Total([x \in shared(d) |-> users.daily[x].dau])
                  /\ \A i \in 2..Len(Steps) : steps[i] <= steps[i-1]

\* How many steps each identity has gone through.
Progress ==
    LET s == StepTimes(Instants, Steps)
    IN  [p \in {User[e] : e \in Events} \cup {Session[e] : e \in Events} |->
            Cardinality({i \in DOMAIN Steps : p \in DOMAIN s[i]})]

\* A login only adds to what a user has done: linking a session moves its rows,
\* old ones included, to the user; no user falls back in the funnel, nor does
\* anybody's anonymous progress get lost on the way.
LoginKeepsProgress ==
    [][rows' = rows =>
          \A was \in {Progress}, is \in {Progress'}, r \in {j.row : j \in Joined(Instants)} :
              /\ User[r.id] # Nobody => is[User[r.id]] >= was[User[r.id]]
              /\ \A m \in Matches(r.id) : \E n \in Matches(r.id)' :
                    is[IdentityKey(r.id, n)] >= was[IdentityKey(r.id, m)]]_linked
=============================================================================
