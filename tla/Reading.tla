------------------------------- MODULE Reading -------------------------------
(***************************************************************************)
(* What the reads answer.  A request resolves its Scope once (identity's   *)
(* scope_for) and then sends its queries one by one, each at READ          *)
(* COMMITTED: between two of them memberships, reports, reviews, feedback  *)
(* and files change.  Most queries filter by the visibility predicate of   *)
(* their aggregate (core/authz.py, the policies.py of each module), some   *)
(* read by the ids an earlier one returned and filter by nothing.          *)
(* The list of reports is read page by page, one request a page, from the  *)
(* position a cursor names.                                                *)
(*                                                                         *)
(* Reads change nothing, so one reader is enough.  One project; who may    *)
(* write what is the other modules' subject and only its effect is here.   *)
(***************************************************************************)
EXTENDS Integers, FiniteSets, Sequences

CONSTANTS
    Students,       \* naturals, in the order of their reports' ids
    Weeks,          \* naturals, in order
    Names,          \* naturals, in the order of display_name
    Files,          \* artifacts
    Professor,      \* a reader who is no student
    Creator,        \* who created the project
    PageSize,       \* the limit of a page of reports
    MaxReadings,    \* bound: assessments of one report, revisions of one feedback
    MaxChanges      \* bound: writes while the reader is watched

Reports  == Students \X Weeks
Versions == 1 .. MaxReadings

ASSUME ReadingAssumption ==
    /\ Students \subseteq Nat /\ Weeks \subseteq Nat \ {0} /\ Names \subseteq Nat \ {0}
    /\ IsFiniteSet(Students) /\ IsFiniteSet(Weeks)
    /\ Professor \notin Students /\ PageSize \in Nat \ {0}
    /\ MaxReadings \in Nat /\ MaxChanges \in Nat

VARIABLES
    on,         \* each student's membership of the project
    name,       \* display_name
    filed,      \* the week a report was first handed in; 0 for a draft
    waiting,    \* its state is one of NEEDS_REVIEW
    review,     \* the state of each assessment's review
    written,    \* feedback.version; 0 before it is created
    published,  \* feedback.published_version; 0 for NULL
    artifact,   \* who attached each file, to what, and whether it arrived
    changes,    \* how many writes have been made
    ask,        \* the request under way
    revoked     \* what held for its reader at some moment of it and no longer does

world == <<on, name, filed, waiting, review, written, published, artifact, changes>>
readingVars  == <<world, ask, revoked>>

Readers     == Students \cup {Professor}
Memberships == {"never", "on", "left"}
ReviewStates == {"none", "draft", "approved", "withdrawn", "superseded"}
NoFile  == [by |-> Professor, to |-> "week", state |-> "none"]
Artifacts == [by : Readers, to : {"week", "project"}, state : {"none", "granted", "stored"}]

-----------------------------------------------------------------------------
(* The requests, as the queries each one sends. *)

Readings == {"reports", "report", "assessments", "trend", "queue", "feedback", "feedbacks",
             "history", "artifacts", "artifact", "project", "board", "snapshot"}
Subjects(what) == CASE what = "artifact" -> Files
                    [] what \in {"reports", "queue", "feedbacks", "artifacts", "board"} -> {<<0, 0>>}
                    [] OTHER -> Reports
ForProfessor == {"queue", "history", "board"}

ReportList   == <<"page", "titles", "obligations", "links", "reviews">>
OneReport    == <<"report", "versions">>
AssessmentList == <<"assessments", "reviews">>
Trend        == <<"series", "reviews">>
Queue        == <<"drafts", "reviews", "titles", "names">>
OneFeedback  == <<"feedback", "revision", "attachments">>
FeedbackList == <<"summaries", "counts">>
History      == <<"feedback", "revisions">>
OneProject   == <<"project", "members">>
Board        == <<"owed", "titles", "names">>
SnapshotOf   == <<"window", "entries">>

Queries(what) ==
    CASE what = "reports"     -> ReportList
      [] what = "report"      -> OneReport
      [] what = "assessments" -> AssessmentList
      [] what = "trend"       -> Trend
      [] what = "queue"       -> Queue
      [] what = "feedback"    -> OneFeedback
      [] what = "feedbacks"   -> FeedbackList
      [] what = "history"     -> History
      [] what = "artifacts"   -> <<"artifacts">>
      [] what = "artifact"    -> <<"file">>
      [] what = "project"     -> OneProject
      [] what = "board"       -> Board
      [] what = "snapshot"    -> SnapshotOf

\* The queries for one row: without it the request ends in a 404.
OneRow == {"report", "feedback", "revision", "file", "project"}

\* What a page of reports starts from: before every report.
Top == <<1 + CHOOSE w \in Weeks : \A v \in Weeks : v <= w, 0, 0>>
NoTimes == [r \in Reports |-> 0]
NoAsk == [who |-> Professor, member |-> FALSE, was |-> FALSE, what |-> "none", of |-> <<0, 0>>,
          left |-> <<>>, shown |-> {}, needsReview |-> FALSE, cursor |-> Top, more |-> FALSE,
          times |-> NoTimes, standing |-> {}, renamed |-> {}]

ReadingTypeOK ==
    /\ on \in [Students -> Memberships] /\ name \in [Students -> Names]
    /\ filed \in [Reports -> Nat] /\ waiting \in [Reports -> BOOLEAN]
    /\ review \in [Reports -> [Versions -> ReviewStates]]
    /\ written \in [Students -> 0 .. MaxReadings]
    /\ published \in [Students -> 0 .. MaxReadings]
    /\ artifact \in [Files -> Artifacts]
    /\ changes \in 0 .. MaxChanges

ReadingInit ==
    /\ on \in [Students -> {"never", "on"}]
    /\ name \in [Students -> Names]
    /\ filed = [r \in Reports |-> 0] /\ waiting = [r \in Reports |-> FALSE]
    /\ review = [r \in Reports |-> [v \in Versions |-> "none"]]
    /\ written = [s \in Students |-> 0] /\ published = [s \in Students |-> 0]
    /\ artifact = [f \in Files |-> NoFile]
    /\ changes = 0 /\ ask = NoAsk /\ revoked = {}

-----------------------------------------------------------------------------
(* The Scope of a request and the visibility predicates. *)

IsProf(a) == a.who = Professor

\* Mutant of LoadProjectIds: a membership that has ended still counts.
LoadEveryProjectId(s) == on[s] # "never"

\* load_membership_project_ids: the project is one of the Scope's project_ids
\* while the membership is in effect (in_effect_on).
LoadProjectIds(s) == on[s] = "on"

\* scope_for; a snapshot is built through student_view, which names the project
\* whether or not the student is still on it.
ScopeFor(who, what) ==
    [who |-> who, member |-> who # Professor /\ (what = "snapshot" \/ LoadProjectIds(who))]

UserVisible(a)       == {s \in Students : IsProf(a) \/ s = a.who}
ReportVisible(a)     == {r \in Reports : IsProf(a) \/ r[1] = a.who}
ObligationVisible(a) == {r \in Reports : on[r[1]] # "never" /\ (IsProf(a) \/ r[1] = a.who)}
VersionVisible(a)    == {r \in ReportVisible(a) : filed[r] # 0}

\* A student sees an assessment only once a review has approved it.
AssessmentVisible(a) ==
    {x \in Reports \X Versions :
        \/ IsProf(a) /\ review[x[1]][x[2]] # "none"
        \/ x[1][1] = a.who /\ review[x[1]][x[2]] = "approved"}

FeedbackVisible(a) ==
    {s \in Students : written[s] > 0 /\ (IsProf(a) \/ (s = a.who /\ published[s] # 0))}
RevisionVisible(a) ==
    {x \in FeedbackVisible(a) \X Versions :
        x[2] <= written[x[1]] /\ (IsProf(a) \/ x[2] = published[x[1]])}

\* A revision carries a file of its own and those of the revisions before it.
AttachmentVisible(a) ==
    {x \in Students \X Versions :
        \E n \in x[2] .. MaxReadings : <<x[1], n>> \in RevisionVisible(a)}

\* A file of a week is its student's and the professor's; a document of the
\* project is also whoever's is on it.
ArtifactVisible(a) ==
    {f \in Files : /\ artifact[f].state # "none"
                   /\ \/ IsProf(a) \/ artifact[f].by = a.who
                      \/ artifact[f].to = "project" /\ a.member}

\* The record of the project stays readable to whoever was ever on it.
ProjectVisible(a) == IsProf(a) \/ a.member \/ a.who = Creator \/ on[a.who] # "never"
MembershipVisible(a) ==
    {s \in Students : on[s] # "never" /\ (IsProf(a) \/ a.member \/ s = a.who)}

\* Evidence of a report's entries is labelled as its student's own.
ChunkVisible(a) == {r \in Reports : filed[r] # 0 /\ (IsProf(a) \/ r[1] = a.who)}

-----------------------------------------------------------------------------
(* The queries.  What one finds: <<kind, of what, number>>. *)

\* Handed in at least once, and waiting for a review if that was asked for.
Listed(a) == {r \in ReportVisible(a) : filed[r] # 0 /\ (a.needsReview => waiting[r])}

\* The order of the list, newest week first, then by name, then by id.
Position(r) == <<r[2], name[r[1]], r[1]>>
Before(p, q) ==
    \/ p[1] > q[1]
    \/ p[1] = q[1] /\ p[2] < q[2]
    \/ p[1] = q[1] /\ p[2] = q[2] /\ p[3] < q[3]

\* Mutant of Remaining: the page resumes after the name, and no id breaks the tie.
RemainingByName(a) ==
    {r \in Listed(a) :
        \/ r[2] < a.cursor[1]
        \/ r[2] = a.cursor[1] /\ name[r[1]] > a.cursor[2]}

\* What the list still holds behind the position the cursor names.
Remaining(a) == {r \in Listed(a) : Before(a.cursor, Position(r))}

Page(a) == {r \in Remaining(a) :
    Cardinality({q \in Remaining(a) : Before(Position(q), Position(r))}) < PageSize}
NextCursor(a) ==
    LET last == CHOOSE r \in Page(a) : \A q \in Page(a) \ {r} : Before(Position(q), Position(r))
    IN  IF Page(a) = {} THEN a.cursor ELSE Position(last)

TheProject  == <<"project", <<0, 0>>, 0>>
ShownReports(a) == {r \in Reports : <<"report", r, 0>> \in a.shown}
ShownStudents(a) == {s \in Students : \E i \in a.shown :
    i[1] \in {"waiting", "obligation"} /\ i[2][1] = s}

\* project_titles asks for no permission: a name and nothing else.
Titles(a) == IF a.shown = {} THEN {} ELSE {TheProject}
Named(a)  == {<<"name", s, 0>> : s \in UserVisible(a) \cap ShownStudents(a)}

ObligationsForWeeks(a) == {<<"obligation", r, 0>> : r \in ObligationVisible(a) \cap ShownReports(a)}
StillOwed(a) == {<<"obligation", r, 0>> : r \in {r \in ObligationVisible(a) : on[r[1]] = "on"}}

Assessments(rv) == {<<"assessment", x[1], x[2]>> : x \in rv}
LatestForWeeks(a) == Assessments({x \in AssessmentVisible(a) :
    /\ x[1] \in ShownReports(a)
    /\ \A y \in AssessmentVisible(a) : y[1] = x[1] => y[2] <= x[2]})
ListAssessments(a) == Assessments({x \in AssessmentVisible(a) : x[1] = a.of})
ApprovedSeries(a) == Assessments({x \in AssessmentVisible(a) :
    x[1][1] = a.of[1] /\ review[x[1]][x[2]] = "approved"})
ReviewQueue(a) == {<<"waiting", x[1], x[2]>> : x \in
    {x \in AssessmentVisible(a) : review[x[1]][x[2]] = "draft"}}

\* reviews_for: the reviews of the assessments an earlier query found, by their
\* ids and by nothing else.  The answer shows the state, or what stands with it.
ReviewsFor(a) == {<<review[x[1]][x[2]], x[1], x[2]>> : x \in
    {x \in Reports \X Versions : \E kind \in {"assessment", "waiting"} :
        <<kind, x[1], x[2]>> \in a.shown}}

\* The professor reads the newest revision, a student the published one.
ShownVersion(a, s) == IF IsProf(a) THEN written[s] ELSE published[s]

GetFeedback(a) == {<<"feedback", s, ShownVersion(a, s)>> : s \in FeedbackVisible(a) \cap {a.of[1]}}
GetRevision(a) == {<<"revision", x[1], x[2]>> : x \in
    {x \in RevisionVisible(a) : <<"feedback", x[1], x[2]>> \in a.shown}}
Revisions(a) == {<<"revision", x[1], x[2]>> : x \in {x \in RevisionVisible(a) : x[1] = a.of[1]}}
Summaries(a) == {<<"revision", s, ShownVersion(a, s)>> : s \in FeedbackVisible(a)}

\* The files of the revision that was found, among those that may be read now.
Attachments(a) == {<<"attached", x[1], x[2]>> : x \in {x \in AttachmentVisible(a) :
    \E n \in x[2] .. MaxReadings : <<"revision", x[1], n>> \in a.shown}}
Counts(a) == {<<"attached", x[1], x[2]>> : x \in {x \in Students \X Versions :
    \E n \in x[2] .. MaxReadings :
        <<x[1], n>> \in RevisionVisible(a) /\ <<"revision", x[1], n>> \in a.shown}}

\* A grant whose bytes never arrived is not listed.
ListArtifacts(a) == {<<"file", f, 0>> : f \in {f \in ArtifactVisible(a) : artifact[f].state = "stored"}}

Members(a) == {<<"member", s, 0>> : s \in {s \in MembershipVisible(a) : on[s] = "on"}}

\* The evidence of a week: what was written in it, and the week's own report
\* whenever it was handed in.
InWindow(a)   == {<<"chunk", r, 0>> : r \in {r \in ChunkVisible(a) : filed[r] = a.of[2]}}
OfEntries(a)  == {<<"chunk", r, 0>> : r \in ChunkVisible(a) \cap {a.of}}

Found(q, a) ==
    CASE q = "page"        -> {<<"report", r, 0>> : r \in Page(a)}
      [] q = "titles"      -> Titles(a)
      [] q = "names"       -> Named(a)
      [] q = "obligations" -> ObligationsForWeeks(a)
      [] q = "owed"        -> StillOwed(a)
      [] q = "links"       -> LatestForWeeks(a)
      [] q = "report"      -> {<<"report", r, 0>> : r \in ReportVisible(a) \cap {a.of}}
      [] q = "versions"    -> {<<"version", r, 0>> : r \in VersionVisible(a) \cap {a.of}}
      [] q = "assessments" -> ListAssessments(a)
      [] q = "series"      -> ApprovedSeries(a)
      [] q = "drafts"      -> ReviewQueue(a)
      [] q = "reviews"     -> ReviewsFor(a)
      [] q = "feedback"    -> GetFeedback(a)
      [] q = "revision"    -> GetRevision(a)
      [] q = "attachments" -> Attachments(a)
      [] q = "summaries"   -> Summaries(a)
      [] q = "counts"      -> Counts(a)
      [] q = "revisions"   -> Revisions(a)
      [] q = "artifacts"   -> ListArtifacts(a)
      [] q = "file"        -> {<<"file", f, 0>> : f \in ArtifactVisible(a) \cap {a.of}}
      [] q = "project"     -> IF ProjectVisible(a) THEN {TheProject} ELSE {}
      [] q = "members"     -> Members(a)
      [] q = "window"      -> InWindow(a)
      [] q = "entries"     -> OfEntries(a)

-----------------------------------------------------------------------------
(* The request. *)

\* The states a review can be in once it was approved.
Decided == {"approved", "withdrawn", "superseded"}

\* What holds for this reader now, whatever was asked: what is theirs to read,
\* and for the professor what is waiting, owed and agreed.  Of a review's state
\* it is true for a student that theirs is in it, once it is a decided one: what
\* they may read is the assessment, while it is approved.
Holds(who, member) ==
    LET prof == who = Professor
        theirs == {s \in Students : prof \/ s = who}
        ofTheirs == {r \in Reports : r[1] \in theirs}
    IN  {<<"report", r, 0>> : r \in ofTheirs}
        \cup {<<kind, r, 0>> : kind \in {"version", "chunk"}, r \in {r \in ofTheirs : filed[r] # 0}}
        \cup {<<"obligation", r, 0>> : r \in {r \in ofTheirs :
                 IF ask.what = "board" THEN on[r[1]] = "on" ELSE on[r[1]] # "never"}}
        \cup {<<"assessment", x[1], x[2]>> : x \in {x \in ofTheirs \X Versions :
                 review[x[1]][x[2]] \in (IF prof THEN ReviewStates \ {"none"} ELSE {"approved"})}}
        \cup {<<review[x[1]][x[2]], x[1], x[2]>> : x \in {x \in ofTheirs \X Versions :
                 review[x[1]][x[2]] \in (IF prof THEN ReviewStates \ {"none"} ELSE Decided)}}
        \cup {<<"waiting", x[1], x[2]>> : x \in {x \in ofTheirs \X Versions :
                 prof /\ review[x[1]][x[2]] = "draft"}}
        \cup {<<kind, x[1], x[2]>> : kind \in {"feedback", "revision"},
                 x \in {x \in theirs \X Versions :
                     IF prof THEN x[2] <= written[x[1]] ELSE x[2] = published[x[1]]}}
        \cup {<<"attached", x[1], x[2]>> : x \in {x \in theirs \X Versions :
                 x[2] <= IF prof THEN written[x[1]] ELSE published[x[1]]}}
        \cup {<<"file", f, 0>> : f \in {f \in Files : artifact[f].state # "none" /\
                 (prof \/ artifact[f].by = who \/ (artifact[f].to = "project" /\ member))}}
        \cup {<<"name", s, 0>> : s \in theirs}
        \cup {<<"member", s, 0>> : s \in {s \in Students :
                 on[s] = "on" /\ (prof \/ member \/ s = who)}}
        \cup (IF prof \/ who = Creator \/ on[who] # "never" THEN {TheProject} ELSE {})

\* The request begins; a list of reports is begun at its top.
Ask(who, what, of, needsReview) ==
    /\ ask.what = "none"
    /\ what \in ForProfessor => who = Professor
    /\ what = "snapshot" => who = of[1]
    /\ needsReview => what = "reports"
    /\ LET scope == ScopeFor(who, what)
           begun == [NoAsk EXCEPT !.who = who, !.member = scope.member, !.what = what, !.of = of,
                        !.was = who # Professor /\ on[who] = "on",
                        !.left = Queries(what), !.needsReview = needsReview]
       IN  ask' = [begun EXCEPT !.standing = {r \in Listed(begun) : what = "reports"}]
    /\ revoked' = {}
    /\ UNCHANGED world

\* A request sends its next query; one that misses its row answers 404.
Query ==
    LET q == Head(ask.left)
        found == Found(q, ask)
    IN
    /\ ask.left # <<>>
    /\ ask' = [ask EXCEPT
         !.left  = IF q \in OneRow /\ found = {} THEN <<>> ELSE Tail(@),
         !.shown = IF q \in OneRow /\ found = {} THEN {} ELSE @ \cup found,
         !.more  = IF q = "page" THEN Cardinality(Remaining(ask)) > PageSize ELSE @,
         !.cursor = IF q = "page" THEN NextCursor(ask) ELSE @,
         !.times = IF q = "page" THEN [r \in Reports |-> @[r] + IF r \in Page(ask) THEN 1 ELSE 0]
                   ELSE @]
    /\ UNCHANGED <<world, revoked>>

\* The client follows next_cursor with another request.
NextPage ==
    /\ ask.what = "reports" /\ ask.left = <<>> /\ ask.more
    /\ ask' = [ask EXCEPT !.member = ScopeFor(ask.who, ask.what).member,
                          !.was = ask.who # Professor /\ on[ask.who] = "on",
                          !.left = Queries("reports"), !.shown = {}]
    /\ revoked' = {}
    /\ UNCHANGED world

\* The answer is read and the reader turns to something else.
Close ==
    /\ ask.what # "none" /\ ask.left = <<>> /\ ~ask.more
    /\ ask' = NoAsk /\ revoked' = {}
    /\ UNCHANGED world

-----------------------------------------------------------------------------
(* What the others commit meanwhile. *)

\* Every write is watched from the request: which memberships its reader has
\* had, which reports never left the list, what held and no longer does.
Watched ==
    /\ changes' = changes + 1
    /\ IF ask.what = "none" THEN UNCHANGED <<ask, revoked>> ELSE
        /\ ask' = [ask EXCEPT
             !.was = @ \/ (ask.who # Professor /\ on'[ask.who] = "on"),
             !.renamed = @ \cup {s \in Students : ask.what = "reports" /\ name'[s] # name[s]},
             !.standing = {r \in @ : /\ name'[r[1]] = name[r[1]]
                                     /\ ask.needsReview => waiting'[r]}]
        /\ revoked' = revoked \cup (Holds(ask.who, ask.was) \ Holds(ask.who, ask.was)')

Join(s) ==
    /\ on[s] # "on" /\ on' = [on EXCEPT ![s] = "on"]
    /\ UNCHANGED <<name, filed, waiting, review, written, published, artifact>> /\ Watched

Leave(s) ==
    /\ on[s] = "on" /\ on' = [on EXCEPT ![s] = "left"]
    /\ UNCHANGED <<name, filed, waiting, review, written, published, artifact>> /\ Watched

Rename(s, n) ==
    /\ n # name[s] /\ name' = [name EXCEPT ![s] = n]
    /\ UNCHANGED <<on, filed, waiting, review, written, published, artifact>> /\ Watched

\* A first submission, in its own week or late in the next one.
HandIn(r, week) ==
    /\ on[r[1]] = "on" /\ filed[r] = 0
    /\ filed' = [filed EXCEPT ![r] = week] /\ waiting' = [waiting EXCEPT ![r] = TRUE]
    /\ UNCHANGED <<on, name, review, written, published, artifact>> /\ Watched

\* mark_reviewed or request_revision, and a resubmission after it.
Handle(r) ==
    /\ filed[r] # 0 /\ waiting' = [waiting EXCEPT ![r] = ~@]
    /\ UNCHANGED <<on, name, filed, review, written, published, artifact>> /\ Watched

\* A run records an assessment; older drafts give way.
Assess(r, v) ==
    /\ filed[r] # 0 /\ review[r][v] = "none" /\ \A u \in 1 .. v - 1 : review[r][u] # "none"
    /\ review' = [review EXCEPT ![r] = [u \in Versions |->
                    IF u = v THEN "draft" ELSE IF @[u] = "draft" THEN "superseded" ELSE @[u]]]
    /\ UNCHANGED <<on, name, filed, waiting, written, published, artifact>> /\ Watched

Approve(r, v) ==
    /\ review[r][v] = "draft"
    /\ review' = [review EXCEPT ![r] = [u \in Versions |->
                    IF u = v THEN "approved" ELSE IF @[u] = "approved" THEN "superseded" ELSE @[u]]]
    /\ UNCHANGED <<on, name, filed, waiting, written, published, artifact>> /\ Watched

Withdraw(r, v) ==
    /\ review[r][v] = "approved" /\ review' = [review EXCEPT ![r][v] = "withdrawn"]
    /\ UNCHANGED <<on, name, filed, waiting, written, published, artifact>> /\ Watched

\* create_feedback (about a submitted report) or update_feedback.
WriteFeedback(s) ==
    /\ \E w \in Weeks : filed[<<s, w>>] # 0
    /\ written[s] < MaxReadings /\ written' = [written EXCEPT ![s] = @ + 1]
    /\ UNCHANGED <<on, name, filed, waiting, review, published, artifact>> /\ Watched

Publish(s) ==
    /\ written[s] > published[s] /\ published' = [published EXCEPT ![s] = written[s]]
    /\ UNCHANGED <<on, name, filed, waiting, review, written, artifact>> /\ Watched

\* A student on the project, or the professor, asks to attach a file.
Grant(f, who, to) ==
    /\ artifact[f].state = "none" /\ who \in {s \in Students : on[s] = "on"} \cup {Professor}
    /\ artifact' = [artifact EXCEPT ![f] = [by |-> who, to |-> to, state |-> "granted"]]
    /\ UNCHANGED <<on, name, filed, waiting, review, written, published>> /\ Watched

Confirm(f) ==
    /\ artifact[f].state = "granted" /\ artifact' = [artifact EXCEPT ![f].state = "stored"]
    /\ UNCHANGED <<on, name, filed, waiting, review, written, published>> /\ Watched

Remove(f) ==
    /\ artifact[f].state # "none" /\ artifact' = [artifact EXCEPT ![f] = NoFile]
    /\ UNCHANGED <<on, name, filed, waiting, review, written, published>> /\ Watched

\* The writes, by the part of the record they concern.
OfMemberships == \E s \in Students : Join(s) \/ Leave(s)
OfReports ==
    \/ \E s \in Students, n \in Names : Rename(s, n)
    \/ \E r \in Reports : Handle(r) \/ \E week \in {r[2], r[2] + 1} : HandIn(r, week)
OfAssessments ==
    \E r \in Reports, v \in Versions : Assess(r, v) \/ Approve(r, v) \/ Withdraw(r, v)
OfFeedback == \E s \in Students : WriteFeedback(s) \/ Publish(s)
OfFiles ==
    \/ \E f \in Files : Confirm(f) \/ Remove(f)
    \/ \E f \in Files, who \in Readers, to \in {"week", "project"} : Grant(f, who, to)

Others == /\ changes < MaxChanges
          /\ OfMemberships \/ OfReports \/ OfAssessments \/ OfFeedback \/ OfFiles

Reads ==
    \/ \E who \in Readers, what \in Readings, needsReview \in BOOLEAN :
          \E of \in Subjects(what) : Ask(who, what, of, needsReview)
    \/ Query \/ NextPage \/ Close

ReadingNext == Reads \/ Others

ReadingSpec == ReadingInit /\ [][ReadingNext]_readingVars

-----------------------------------------------------------------------------
(* Properties. *)

\* Whoever follows the list of reports to its end has seen every report that
\* was on it all along exactly once, and none twice, whatever is handed in,
\* reviewed or withdrawn from the list between two pages; only a student who
\* changes their name meanwhile may be missed or seen again
\* (repository.list_submitted_reports: a page boundary cannot drop or repeat a row).
PagesShowEachOnce ==
    ask.what = "reports" =>
        /\ \A r \in Reports : r[1] \notin ask.renamed => ask.times[r] <= 1
        /\ ask.left # ReportList /\ ~ask.more =>
              \A r \in ask.standing : ask.times[r] = 1

\* What an answer shows held for its reader at some moment of the request: no
\* unapproved assessment, unpublished word or file, superseded worklist row, or
\* project left before the request began, and beside an assessment no state but
\* one its review was in, for a student never a draft's, however the queries
\* interleave with the writes (AUTH-03, ASSESS-08, AC-02).
ShownHeld == ask.left = <<>> => ask.shown \subseteq revoked \cup Holds(ask.who, ask.was)

\* "A student is only ever linked to an approved one" (with_assessments): the
\* status beside a project on their list of reports is that of an approved
\* assessment.
LinkedWhenApproved ==
    ask.what = "reports" /\ ask.who # Professor =>
        \A i \in ask.shown : i[1] \in ReviewStates => i[1] = "approved"

=============================================================================
