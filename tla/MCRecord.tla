------------------------------ MODULE MCRecord ------------------------------
(* Three parts that share no state, on small instances in one run: what the  *)
(* reads answer, who belongs to which workspace, and the calendar.  A        *)
(* behaviour is about one of them; the others rest in their initial state,   *)
(* in which none of their fair actions is enabled.  The reads have four      *)
(* instances of their own, each taken far enough in one part of the record.  *)
EXTENDS Reading, Workspaces, Calendar, TLC

CONSTANT Fewer     \* bound: writes where many kinds of them can happen

VARIABLE about

InstancesOfReading == {"list", "assessments", "feedback", "project"}

\* A calendar with a week of two days and a day of two minutes.
CalendarVersion(weekStart, meeting, grace, zone, effective) ==
    [weekStart |-> weekStart, meeting |-> meeting, grace |-> grace, zone |-> zone,
     effective |-> effective]

\* Both weekdays, a grace, a zone ahead of UTC, and dates before and after others.
Saved == {CalendarVersion(0, 0, 0, 0, 0), CalendarVersion(0, 1, 1, 0, 1),
          CalendarVersion(1, 0, 0, 1, 2), CalendarVersion(0, 1, 0, 1, 3)}

OnlyOne == <<1, 1>>     \* the report most instances of the reads are about

MCInit ==
    /\ ReadingInit /\ Init /\ CalendarInit
    /\ about \in InstancesOfReading \cup {"workspaces", "calendar"}
    /\ \A s \in Students : name[s] = 1
    /\ about = "list" => \A s \in Students : on[s] = "on"
    /\ about \notin {"list", "project"} =>
          on = [s \in Students |-> IF s = 1 THEN "on" ELSE "never"]

-----------------------------------------------------------------------------

Writes ==
    \/ about = "list" /\ changes < Fewer /\ OfReports
    \/ /\ about # "list" /\ changes < (IF about = "project" THEN Fewer ELSE MaxChanges)
       /\ \/ OfReports \/ OfMemberships
          \/ about = "assessments" /\ OfAssessments
          \/ about = "feedback" /\ OfFeedback
          \/ about = "project" /\ OfFiles

ReadingBound ==
    /\ about = "list" => ask.what \in {"none", "reports"} /\ \A r \in Reports : filed[r] \in {0, r[2]}
    /\ about # "list" =>
          /\ \A s \in Students : name[s] = 1
          /\ \A r \in Reports : filed[r] # 0 => r = OnlyOne /\ waiting[r]
          /\ ask.what \in {"report", "trend", "assessments", "feedback", "history", "project"} =>
                ask.of = OnlyOne
    /\ about \in {"assessments", "feedback"} => on[2] = "never"
    /\ about = "project" => ask.what \in {"none", "project", "board", "artifacts", "artifact",
                                           "report", "snapshot"}

\* Accounts but the founder's interchange.  The liveness property is about the
\* calendar, in whose behaviours no state tells one account from another.
Interchangeable == Permutations(Accounts \ {Founder})

\* The routes and commands may all have been used up.
RollsStop == UNCHANGED vars

MCNext ==
    \/ /\ about \in InstancesOfReading /\ (Reads \/ Writes) /\ ReadingBound'
       /\ UNCHANGED <<vars, calendarVars>>
    \/ /\ about = "workspaces" /\ (Next \/ RollsStop)
       /\ UNCHANGED <<readingVars, calendarVars>>
    \/ about = "calendar" /\ CalendarNext /\ UNCHANGED <<readingVars, vars>>

MCSpec ==
    /\ MCInit
    /\ [][about' = about /\ MCNext]_<<readingVars, vars, calendarVars, about>>
    /\ CalendarFairness

=============================================================================
