------------------------------ MODULE Calendar ------------------------------
(***************************************************************************)
(* The reporting calendar of one workspace (reporting/calendar.py and the  *)
(* calendar half of reporting/service.py): versions of the configuration,  *)
(* and the weeks that are opened ahead from them.                          *)
(*                                                                         *)
(* Days are numbered, and a week starts on a weekday; an instant is a      *)
(* number of minutes.  configure_calendar and the nightly job are          *)
(* transactions at READ COMMITTED: every query of theirs is a step, what   *)
(* they write is theirs until the commit.  A transaction is short beside a *)
(* minute: the clock stands while one is open.                             *)
(***************************************************************************)
EXTENDS Integers, Sequences

CONSTANTS
    Writers,        \* the requests and the job that write the calendar
    Nightly,        \* the job among them, ensure_periods_everywhere
    WeekLength,    \* 7
    MinutesPerDay,  \* 1440
    Horizon,        \* DEFAULT_HORIZON in days: how far ahead weeks are opened
    Choices,        \* what a professor may save
    Throughs,       \* days a route may open weeks through
    MaxVersions,    \* bound: saved versions
    MaxMinute       \* bound: the last instant

ASSUME CalendarAssumption ==
    /\ Nightly \in Writers
    /\ WeekLength \in Nat \ {0} /\ MinutesPerDay \in Nat \ {0} /\ Horizon \in Nat
    /\ Choices \subseteq [weekStart : 0 .. WeekLength - 1, meeting : 0 .. WeekLength - 1,
                          grace : Nat, zone : Int, effective : Nat]
    /\ Throughs \subseteq Nat
    /\ MaxVersions \in Nat /\ MaxMinute \in Nat

VARIABLES
    now,
    configs,    \* calendar_configs by version
    weeks,      \* reporting_periods by local_start
    tx,         \* what each writer has read and written but not committed
    crossed     \* history: a transaction committed on what another had changed

calendarVars == <<now, configs, weeks, tx, crossed>>

Row == [version : Nat \ {0}, start : Int, deadline : Int, reminder : Int]
Tables == UNION {[days -> Row] : days \in SUBSET Nat}
Nothing == [d \in {} |-> 0]

Today == now \div MinutesPerDay     \* now().date(), a day of UTC

-----------------------------------------------------------------------------
(* Arithmetic: core/clock.py and reporting/calendar.py. *)

NextWeekday(d, weekday) == d + ((weekday - d) % WeekLength)

\* 23:59 local time on the day before the meeting that follows the week.
Deadline(s, c) == NextWeekday(s + WeekLength, c.meeting) * MinutesPerDay - 1 - c.zone

\* period_dates, with the version it was called for.
Cut(s, cs, v) ==
    [version |-> v, start |-> s * MinutesPerDay - cs[v].zone,
     deadline |-> Deadline(s, cs[v]), reminder |-> Deadline(s, cs[v]) + cs[v].grace + 1]

\* calendar_for: the latest effective_from not after d, the newest such version.
InForce(cs, d, v) ==
    /\ v \in 1 .. Len(cs) /\ cs[v].effective <= d
    /\ \A x \in 1 .. Len(cs) : cs[x].effective <= d =>
          cs[x].effective < cs[v].effective \/ (cs[x].effective = cs[v].effective /\ x <= v)

\* Mutant of Governs: the first version that has taken effect goes on governing.
GovernsFirst(cs, d, latest, v) ==
    \/ InForce(cs, d, v) /\ v = 1
    \/ v = 1 /\ latest >= 1

\* calendar_for(...) or latest
Governs(cs, d, latest, v) ==
    \/ InForce(cs, d, v)
    \/ v = latest /\ \A x \in 1 .. Len(cs) : cs[x].effective > d

-----------------------------------------------------------------------------

\* The tables as a writer sees them: what is committed, and its own rows over it.
Overlay(f, g) == [d \in DOMAIN f \cup DOMAIN g |-> IF d \in DOMAIN g THEN g[d] ELSE f[d]]
SeenConfigs(w) == configs \o tx[w].saved

Idle == [stage |-> "idle", saved |-> << >>, redated |-> Nothing, added |-> Nothing,
         latest |-> 0, through |-> 0, cursor |-> 0]

Transactions == [stage : {"idle", "saved", "ensuring", "opening"},
                 saved : {<< >>} \cup {<<c>> : c \in Choices}, redated : Tables,
                 added : Tables, latest : 0 .. MaxVersions, through : Nat, cursor : Nat]

CalendarTypeOK ==
    /\ now \in 0 .. MaxMinute /\ crossed \in BOOLEAN
    /\ configs \in Seq(Choices) /\ Len(configs) <= MaxVersions
    /\ weeks \in Tables
    /\ tx \in [Writers -> Transactions]

CalendarInit ==
    /\ now = 0 /\ configs = << >> /\ weeks = Nothing
    /\ tx = [w \in Writers |-> Idle]
    /\ crossed = FALSE

NextMinute ==
    /\ now < MaxMinute /\ \A w \in Writers : tx[w].stage = "idle"
    /\ now' = now + 1
    /\ UNCHANGED <<configs, weeks, tx, crossed>>

-----------------------------------------------------------------------------
(* configure_calendar up to ensure_periods. *)

\* Mutant of Redatable: a week that has begun is re-dated too.
RedatableBegun(s, c) == s \in DOMAIN weeks /\ s >= c.effective /\ s % WeekLength = c.weekStart

\* unstarted_periods: opened, not begun, and starting on the new weekday.
Redatable(s, c) ==
    /\ s \in DOMAIN weeks /\ weeks[s].start > now /\ s >= c.effective
    /\ s % WeekLength = c.weekStart

\* _redate_unstarted.
Redated(c) ==
    LET cs == Append(configs, c) IN
    [s \in {x \in DOMAIN weeks : Redatable(x, c)} |-> Cut(s, cs, Len(cs))]

\* A second version waits on the unique (workspace, version) of the first, and fails.
Configure(w, c) ==
    /\ w # Nightly /\ tx[w].stage = "idle" /\ Len(configs) < MaxVersions
    /\ \A x \in Writers : tx[x].saved = << >>
    /\ tx' = [tx EXCEPT ![w] = [Idle EXCEPT !.stage = "saved", !.saved = <<c>>,
                                   !.redated = Redated(c)]]
    /\ UNCHANGED <<now, configs, weeks, crossed>>

-----------------------------------------------------------------------------
(* ensure_periods. *)

\* Within configure_calendar, in the nightly job, or for a route that may name
\* the day through which it opens weeks.  The latest version is read first.
Ensure(w, through) ==
    /\ tx[w].stage \in {"idle", "saved"} /\ SeenConfigs(w) # << >>
    /\ through = Today + Horizon \/ (w # Nightly /\ tx[w].stage = "idle" /\ through \in Throughs)
    /\ tx' = [tx EXCEPT ![w].stage = "ensuring", ![w].through = through,
                        ![w].latest = Len(SeenConfigs(w))]
    /\ UNCHANGED <<now, configs, weeks, crossed>>

NightlyEnsure == Ensure(Nightly, Today + Horizon)

\* Mutant of Follows: weeks go on from the last start, not from the last end.
FollowsStart(s, weekStart) == NextWeekday(s + 1, weekStart)

\* next_period_start, of the local_end of the week that starts on s.
Follows(s, weekStart) == NextWeekday(s + WeekLength, weekStart)

\* first_period_start of the latest version.
First(c) == NextWeekday(c.effective, c.weekStart)

From(w, s) == tx' = [tx EXCEPT ![w].stage = "opening", ![w].cursor = s]

\* Mutant of FindCursor: it goes on with the last week that is there.
FindCursorAgain(w) ==
    LET latest == SeenConfigs(w)[tx[w].latest] IN
    /\ tx[w].stage = "ensuring"
    /\ \/ DOMAIN weeks = {} /\ From(w, First(latest))
       \/ \E last \in DOMAIN weeks : (\A x \in DOMAIN weeks : x <= last) /\ From(w, last)
    /\ UNCHANGED <<now, configs, weeks, crossed>>

\* The first week to open: after the last one, or the calendar's first.
FindCursor(w) ==
    LET latest == SeenConfigs(w)[tx[w].latest] IN
    /\ tx[w].stage = "ensuring"
    /\ \/ DOMAIN weeks = {} /\ From(w, First(latest))
       \/ \E last \in DOMAIN weeks : /\ \A x \in DOMAIN weeks : x <= last
                                     /\ From(w, Follows(last, latest.weekStart))
    /\ UNCHANGED <<now, configs, weeks, crossed>>

\* One turn of the loop: the version is queried for each week, and the week before
\* is inserted by that query.  A key that another transaction has inserted is
\* waited for, and fails the whole transaction once that one has committed.
OpenWeek(w) ==
    LET s == tx[w].cursor IN
    /\ tx[w].stage = "opening" /\ s <= tx[w].through
    /\ \A x \in Writers : s \notin DOMAIN tx[x].added
    /\ IF s \in DOMAIN weeks THEN tx' = [tx EXCEPT ![w] = Idle]
       ELSE \E v \in 1 .. Len(SeenConfigs(w)) :
               /\ Governs(SeenConfigs(w), s, tx[w].latest, v)
               /\ tx' = [tx EXCEPT
                    ![w].added = Overlay(@, [d \in {s} |-> Cut(s, SeenConfigs(w), v)]),
                    ![w].cursor = Follows(s, SeenConfigs(w)[v].weekStart)]
    /\ UNCHANGED <<now, configs, weeks, crossed>>

\* What another transaction commits beside a saved version, or the other way round.
Crosses(w, x) ==
    \/ tx[w].saved # << >> /\ tx[x].stage # "idle"
    \/ tx[x].saved # << >> /\ DOMAIN tx[w].added # {}

Commit(w) ==
    /\ tx[w].stage = "opening" /\ tx[w].cursor > tx[w].through
    /\ configs' = configs \o tx[w].saved
    /\ weeks' = Overlay(Overlay(weeks, tx[w].redated), tx[w].added)
    /\ crossed' = (crossed \/ \E x \in Writers \ {w} : Crosses(w, x))
    /\ tx' = [tx EXCEPT ![w] = Idle]
    /\ UNCHANGED now

CalendarNext ==
    \/ NextMinute
    \/ \E w \in Writers :
          \/ \E c \in Choices : Configure(w, c)
          \/ \E d \in Throughs \cup {Today + Horizon} : Ensure(w, d)
          \/ FindCursor(w) \/ OpenWeek(w) \/ Commit(w)

CalendarSpec == CalendarInit /\ [][CalendarNext]_calendarVars

\* The job runs every night, and a transaction that is open goes on to its end.
CalendarFairness ==
    /\ WF_calendarVars(NightlyEnsure)
    /\ \A w \in Writers :
          /\ WF_calendarVars(tx[w].stage = "saved" /\ Ensure(w, Today + Horizon))
          /\ WF_calendarVars(FindCursor(w) \/ OpenWeek(w) \/ Commit(w))

FairCalendarSpec == CalendarSpec /\ CalendarFairness

-----------------------------------------------------------------------------

Disjoint(days) == \A s, r \in days : s < r => s + WeekLength <= r
Gapless(days)  == \A s, r \in days : s < r => \E q \in days : s < q /\ q < s + 2 * WeekLength

\* No two weeks overlap, so that no day is reported twice: one after another for
\* any weekdays, and for overlapping requests and jobs as long as the weeks start
\* on one weekday.  Fewer days than a week lie between two that follow each other
\* as long as no save overlapped the opening of weeks.
WeeksApart ==
    /\ (crossed => \A v, x \in 1 .. Len(configs) : configs[v].weekStart = configs[x].weekStart)
          => Disjoint(DOMAIN weeks)
    /\ ~crossed => Gapless(DOMAIN weeks)

\* A new version reaches the weeks that were opened before it: one that has not
\* begun, starts on its weekday and has the version in force carries it (as long
\* as no save overlapped the job that opens weeks).
UnstartedFollowLatest ==
    ~crossed /\ configs # << >> =>
        LET v == Len(configs) IN
        \A s \in DOMAIN weeks :
            weeks[s].start > now /\ s % WeekLength = configs[v].weekStart /\ InForce(configs, s, v)
                => weeks[s].version = v

\* A deadline never moves under a student who may be working towards it.
BegunWeekKeepsDeadline ==
    [][\A s \in DOMAIN weeks : weeks[s].start <= now => s \in DOMAIN weeks' /\ weeks'[s] = weeks[s]]_calendarVars

\* Weeks are opened as far ahead as the job looks, whatever the writers did to
\* each other, or the calendar starts later than that.
Reached ==
    \E v \in 1 .. Len(configs) :
        \/ \E s \in DOMAIN weeks : Follows(s, configs[v].weekStart) > Today + Horizon
        \/ DOMAIN weeks = {} /\ First(configs[v]) > Today + Horizon
WeeksAreOpened == (configs # << >>) ~> Reached

=============================================================================
