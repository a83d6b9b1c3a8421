---------------------------- MODULE Obligations ----------------------------
(***************************************************************************)
(* What one student owes: memberships of projects (projects/service.py),   *)
(* the obligations that are derived from them for every opened week, and   *)
(* the plan that a week is measured against, frozen from the report of the *)
(* week before (reporting/service.py).                                     *)
(*                                                                         *)
(* Weeks are given and of one length; time passes in days of the           *)
(* workspace.  A request is one transaction and one step, save an ending   *)
(* that is written on what was read before.  A job reads in one step and   *)
(* commits in another, and requests and jobs run in between.               *)
(***************************************************************************)
EXTENDS Integers, Sequences

CONSTANTS
    Projects,
    Jobs,           \* runs of ensure_periods and freeze_baselines, or of their route
    LastWeek,       \* weeks 1 .. LastWeek are opened
    DaysPerWeek,    \* 7
    Lag,            \* days between the end of a week and the day of its deadline
    Catchup,        \* BASELINE_CATCHUP, in days
    Dates,          \* days a professor may write beside today
    MaxMembers,     \* bound: memberships that are written
    LastDay         \* bound: the last day

ASSUME ObligationsAssumption ==
    /\ LastWeek \in Nat /\ DaysPerWeek \in Nat \ {0} /\ Lag \in Nat /\ Catchup \in Nat
    /\ MaxMembers \in Nat /\ LastDay \in Nat /\ Dates \subseteq 0 .. LastDay

VARIABLES
    today,
    status,     \* projects.status and open_to_join, which matters while it is active
    members,    \* project_memberships, in the order they were written
    owed,       \* reporting_obligations: pairs of a membership and a week
    plan,       \* where the current report of a week holds a plan for a project
    baseline,   \* plan_baselines of an obligation, version 1
    job,        \* what a job has read and is about to write
    ending,     \* an end_membership that has read its row: <<membership, left_on>>
    lost,       \* history: an ending was written over one that it had not read
    kept        \* history: plans there when the next week began and not taken back since

vars == <<today, status, members, owed, plan, baseline, job, ending, lost, kept>>
\* What the enrolment routes leave alone.
reportVars == <<plan, baseline, kept>>

Weeks == 1 .. LastWeek
Days  == 0 .. LastDay
Never == LastDay + 1    \* left_on IS NULL: later than every day

Start(w) == 1 + (w - 1) * DaysPerWeek   \* local_start
End(w)   == Start(w) + DaysPerWeek - 1  \* local_end

\* origin is SELF_JOINED, or one of ASSIGNED and CREATED, which owe alike.
Membership == [project : Projects, selfJoined : BOOLEAN, joined : Days, left : 0 .. Never]
Members == 1 .. Len(members)
Obligation == (1 .. MaxMembers) \X Weeks

TypeOK ==
    /\ today \in Days
    /\ status \in [Projects -> {"absent", "inactive", "active", "open"}]
    /\ members \in Seq(Membership) /\ Len(members) <= MaxMembers
    /\ owed \subseteq Obligation /\ \A o \in owed : o[1] <= Len(members)
    /\ plan \subseteq Projects \X Weeks
    /\ baseline \in [Obligation -> {"none", "empty", "frozen"}]
    /\ job \in [Jobs -> [kind : {"idle", "derive", "freeze"}, rows : SUBSET Obligation,
                        planned : SUBSET Obligation]]
    /\ ending \in {<< >>} \cup ((1 .. MaxMembers) \X (0 .. LastDay))
    /\ lost \in BOOLEAN /\ kept \subseteq Projects \X Weeks

IdleJob == [kind |-> "idle", rows |-> {}, planned |-> {}]

Init ==
    /\ today = 0 /\ status = [p \in Projects |-> "absent"]
    /\ members = << >> /\ owed = {} /\ ending = << >> /\ lost = FALSE /\ plan = {} /\ kept = {}
    /\ baseline = [o \in Obligation |-> "none"]
    /\ job = [j \in Jobs |-> IdleJob]

-----------------------------------------------------------------------------
(* The rules, each written once (projects/repository.py). *)

\* open_on and in_effect_on.
OpenOn(m, d)     == members[m].left > d
InEffectOn(m, d) == members[m].joined <= d /\ OpenOn(m, d)

\* ProjectStatus.ACTIVE; proposed, paused, completed and archived are inactive.
Active(st) == st \in {"active", "open"}

\* memberships_active_in_range: who owes a report for the week.
ActiveInRange(ms, st, m, w) ==
    /\ Active(st[ms[m].project])
    /\ ms[m].joined <= End(w) /\ ms[m].left > End(w)
    /\ ms[m].selfJoined => ms[m].joined < Start(w)

\* Mutant of StillOwes: the project's status is not asked again.
StillOwesPaused(m, w) == OpenOn(m, End(w))

\* memberships_open_through: the same question, of an obligation already derived.
StillOwes(m, w) == OpenOn(m, End(w)) /\ Active(status[members[m].project])

\* _obligations_still_owed, for one project.
Owing(p, w) == {m \in Members : members[m].project = p /\ <<m, w>> \in owed /\ StillOwes(m, w)}

\* Of the weeks that have begun, the newest.
Newest(w) == Start(w) <= today /\ \A x \in Weeks : Start(x) <= today => x <= w

-----------------------------------------------------------------------------
(* Projects and memberships. *)

\* Mutant of Enrolled: only a membership without an end date is in the way.
EnrolledOpenly(p, d) == d \in Days /\ \E m \in Members : members[m].project = p /\ members[m].left = Never

\* active_membership, which refuses a second membership for a day.
Enrolled(p, d) == \E m \in Members : members[m].project = p /\ OpenOn(m, d)

\* _enrol, with _on_membership_started in the same transaction: the obligations of
\* the newest week that has begun are derived at once.
Enrol(p, st, self, d) ==
    LET ms == Append(members, [project |-> p, selfJoined |-> self, joined |-> d, left |-> Never]) IN
    /\ Len(members) < MaxMembers /\ ~Enrolled(p, d)
    /\ members' = ms
    /\ owed' = owed \cup {o \in (1 .. Len(ms)) \X Weeks :
                            Newest(o[2]) /\ ActiveInRange(ms, st, o[1], o[2])}

\* create_project, by the student (active, and they are on it) or by a professor.
StartProject(p) ==
    LET st == [status EXCEPT ![p] = "active"] IN
    /\ status[p] = "absent"
    /\ status' = st /\ Enrol(p, st, FALSE, today)
    /\ UNCHANGED <<today, reportVars, job, ending, lost>>

ProposeProject(p) ==
    /\ status[p] = "absent" /\ status' = [status EXCEPT ![p] = "inactive"]
    /\ UNCHANGED <<today, members, owed, reportVars, job, ending, lost>>

\* update_project: the status and open_to_join are the professor's.
UpdateProject(p, st) ==
    /\ status[p] # "absent" /\ st # status[p]
    /\ status' = [status EXCEPT ![p] = st]
    /\ UNCHANGED <<today, members, owed, reportVars, job, ending, lost>>

\* joinable_project leaves out those the student is on.
Joinable(p) ==
    /\ status[p] = "open"
    /\ ~\E m \in Members : members[m].project = p /\ InEffectOn(m, today)

JoinProject(p) ==
    /\ Joinable(p)
    /\ Enrol(p, status, TRUE, today)
    /\ UNCHANGED <<today, status, reportVars, job, ending, lost>>

\* add_member, by the professor, for any day.
AddMember(p, d) ==
    /\ status[p] # "absent" /\ Enrol(p, status, FALSE, d)
    /\ UNCHANGED <<today, status, reportVars, job, ending, lost>>

\* end_membership reads its row, and writes the end it was given once and for all.
ReadEnding(m, d) ==
    /\ ending = << >> /\ members[m].left = Never
    /\ ending' = <<m, d>>
    /\ UNCHANGED <<today, status, members, owed, reportVars, job, lost>>

EndMembership ==
    /\ ending # << >>
    /\ lost' = (lost \/ members[ending[1]].left # Never)
    /\ members' = [members EXCEPT ![ending[1]].left = ending[2]] /\ ending' = << >>
    /\ UNCHANGED <<today, status, owed, reportVars, job>>

\* _on_user_removed: every membership that is not over ends today.
RemoveStudent ==
    /\ \E m \in Members : OpenOn(m, today)
    /\ members' = [m \in Members |-> IF OpenOn(m, today) THEN [members[m] EXCEPT !.left = today]
                                                         ELSE members[m]]
    /\ UNCHANGED <<today, status, owed, reportVars, job, ending, lost>>

-----------------------------------------------------------------------------
(* The report: only what the baselines read of it.  That of the last week is  *)
(* read by none.                                                             *)

\* submit_report: an entry for every project that is owed, and carried entries
\* for those that were handed in before.
Submit(w, P, planned) ==
    /\ P = {p \in Projects : Owing(p, w) # {}} /\ P # {} /\ planned \subseteq P
    /\ plan' = (plan \ (P \X {w})) \cup (planned \X {w})
    /\ kept' = kept \cap plan'
    /\ UNCHANGED <<today, status, members, owed, baseline, job, ending, lost>>

-----------------------------------------------------------------------------
(* The jobs. *)

\* ensure_obligations, over every week there is.
DerivedRows == {o \in (Members \X Weeks) \ owed : ActiveInRange(members, status, o[1], o[2])}

ReadDerivation(j) ==
    /\ job[j].kind = "idle" /\ DerivedRows # {}
    /\ job' = [job EXCEPT ![j] = [IdleJob EXCEPT !.kind = "derive", !.rows = DerivedRows]]
    /\ UNCHANGED <<today, status, members, owed, reportVars, ending, lost>>

\* Unique on (membership, period): one row that is there fails the whole job.
CommitDerivation(j) ==
    /\ job[j].kind = "derive"
    /\ owed' = IF job[j].rows \cap owed = {} THEN owed \cup job[j].rows ELSE owed
    /\ job' = [job EXCEPT ![j] = IdleJob]
    /\ UNCHANGED <<today, status, members, reportVars, ending, lost>>

\* Mutant of Due: a week is frozen as soon as it is opened.
DueAhead(w) == End(w) + Catchup >= today

\* freeze_due_baselines: the week has begun, and is not long over.
Due(w) == Start(w) <= today /\ End(w) + Catchup >= today

\* _carried_plan: what the report of the week before holds for the project.
Carried(m, w) == w > 1 /\ <<members[m].project, w - 1>> \in plan

ReadFreeze(j) ==
    LET rows == {o \in owed : Due(o[2]) /\ baseline[o] = "none"} IN
    /\ job[j].kind = "idle" /\ rows # {}
    /\ job' = [job EXCEPT ![j] = [kind |-> "freeze", rows |-> rows,
                                  planned |-> {o \in rows : Carried(o[1], o[2])}]]
    /\ UNCHANGED <<today, status, members, owed, reportVars, ending, lost>>

\* The state that freeze_baseline inserts.
Frozen(o, planned) == IF o \in planned THEN "frozen" ELSE "empty"

\* freeze_baselines.  Unique on (membership, period, version_no): a baseline that
\* is there fails the whole job.
CommitFreeze(j) ==
    /\ job[j].kind = "freeze"
    /\ baseline' = IF \E o \in job[j].rows : baseline[o] # "none" THEN baseline
                   ELSE [o \in Obligation |->
                           IF o \notin job[j].rows THEN baseline[o]
                           ELSE Frozen(o, job[j].planned)]
    /\ job' = [job EXCEPT ![j] = IdleJob]
    /\ UNCHANGED <<today, status, members, owed, plan, ending, lost, kept>>

\* A day passes; the next week begins after the last day of a week.
Tick ==
    /\ today < LastDay /\ today' = today + 1
    /\ kept' = kept \cup {x \in plan : End(x[2]) = today}
    /\ UNCHANGED <<status, members, owed, plan, baseline, job, ending, lost>>

-----------------------------------------------------------------------------

StudentStep == \E p \in Projects : StartProject(p) \/ JoinProject(p)
ProfessorStep ==
    \/ \E p \in Projects :
          \/ ProposeProject(p)
          \/ \E st \in {"inactive", "active", "open"} : UpdateProject(p, st)
          \/ \E d \in Dates \cup {today} : AddMember(p, d)
    \/ \E m \in Members, d \in Dates \cup {today} : ReadEnding(m, d)
    \/ EndMembership \/ RemoveStudent
ReportStep == \E w \in 1 .. LastWeek - 1, P, planned \in SUBSET Projects : Submit(w, P, planned)
Work(j) == CommitDerivation(j) \/ CommitFreeze(j)
JobStep == \E j \in Jobs : ReadDerivation(j) \/ ReadFreeze(j) \/ Work(j)

Next == Tick \/ StudentStep \/ ProfessorStep \/ ReportStep \/ JobStep

Spec == Init /\ [][Next]_vars

-----------------------------------------------------------------------------

\* An obligation that was derived is owed exactly as long as it would be derived
\* today, however memberships, statuses and jobs interleaved: the student, the
\* professor and the reminder ask one rule, and deriving asks another.
OwedAsDerived ==
    \A o \in owed : StillOwes(o[1], o[2]) <=> ActiveInRange(members, status, o[1], o[2])

\* A student owes one report entry for a project and a week, and not one for each
\* of several memberships (unless an ending was lost to another that overlapped).
OwedOnce ==
    ~lost => \A p \in Projects, w \in Weeks : \A m, n \in Owing(p, w) : m = n

\* An empty baseline means that nothing was agreed by the freeze point: a plan
\* that was in the report when the next week began, and was not taken back since,
\* is the one that week is measured against, whichever job reads it and whenever
\* (freeze_baselines, BASELINE_CATCHUP).
EmptyMeansNothingAgreed ==
    \A o \in Obligation :
        baseline[o] = "empty" /\ o[2] > 1 => <<members[o[1]].project, o[2] - 1>> \notin kept

\* A plan that was handed in and not late becomes the next baseline (PROJ-04):
\* none is in a report whose deadline has not passed beside an empty baseline.
\* The code freezes when the week begins, whenever the deadline of the last is.
OnTimePlanCounts ==
    \A o \in Obligation :
        baseline[o] = "empty" /\ o[2] > 1 /\ today <= End(o[2] - 1) + Lag =>
            <<members[o[1]].project, o[2] - 1>> \notin plan

\* What the first job froze is never frozen again, nor taken back.
BaselineStands ==
    [][\A o \in Obligation : baseline[o] # "none" => baseline'[o] = baseline[o]]_vars

=============================================================================
