------------------------- MODULE AssessmentPipeline -------------------------
(***************************************************************************)
(* The assessments of one student, one project and one week: the pipeline  *)
(* that drafts them (assessment/service.py, run_pipeline), the jobs and    *)
(* the retry route that start it, and the professor's review of a draft    *)
(* (approve, withdraw).                                                    *)
(*                                                                         *)
(* Every caller works in a database transaction of its own at READ         *)
(* COMMITTED: a statement sees what others have committed, nothing locks a *)
(* row it only reads, and an UPDATE waits for the row's writer and then    *)
(* tests its WHERE clause again.  A transaction is therefore several       *)
(* actions: the reads that decide, the statements that take row locks,     *)
(* and the commit that makes the writes visible.                           *)
(***************************************************************************)
EXTENDS Integers, FiniteSets

CONSTANTS
    Workers,        \* job slots of the worker (settings.worker_concurrency)
    Retries,        \* concurrent POST /admin/assessments/retry requests
    Reviewers,      \* concurrent approve or withdraw requests
    MaxReports,     \* bound: versions of the report that are submitted
    MaxVersions,    \* bound: assessment versions that are numbered
    MaxAttempts,    \* attempts of one job (core/jobs.py, RETRY_TRANSIENT: 5)
    MaxRetries,     \* bound: retry requests the professor makes
    MaxKills        \* bound: processes killed in the middle of a run

ASSUME PipelineAssumption ==
    /\ MaxReports \in Nat \ {0} /\ MaxVersions \in Nat \ {0}
    /\ MaxAttempts \in Nat \ {0} /\ MaxRetries \in Nat /\ MaxKills \in Nat
    /\ Workers \cap Retries = {}

VARIABLES
    submitted,  \* highest version_no of the report; 0 when none was submitted
    changedIn,  \* content_changed_in_version_id of the project's entry in each version
    queue,      \* report versions with a job in state "todo" (its queueing lock)
    attempts,   \* how often the job of a version was started
    retried,    \* how many retry requests were made
    kills,      \* how many runs were killed
    last,       \* highest version_no in assessment_versions
    about,      \* report version each assessment was drafted from; 0 for none
    review,     \* state of each assessment's review row
    approvals,  \* audit_events rows "assessment.approved": the versions they name
    run,        \* what each pipeline transaction has done so far
    clock,      \* transactions started: the order of analysis_runs.started_at
    log,        \* committed analysis_runs rows
    req         \* what each review transaction has done so far

reportVars == <<submitted, changedIn>>
jobVars    == <<queue, attempts, retried, kills>>
tableVars  == <<last, about, review, approvals>>
runVars    == <<run, clock, log>>
vars == <<reportVars, jobVars, tableVars, runVars, req>>

Runs      == Workers \cup Retries
Reports   == 1 .. MaxReports
Versions  == 1 .. MaxVersions

ReviewStates == {"draft", "approved", "superseded", "withdrawn"}
Outcomes     == {"completed", "stalled"}   \* COMPLETED/RESTRICTED, PARTIAL/DELAYED_BUDGET
Idle  == [pc |-> "idle", report |-> 0, started |-> 0, no |-> 0]
Quiet == [pc |-> "idle", op |-> "none", target |-> 0, retired |-> {}]

RunRecords     == [pc : {"idle", "analysing", "numbered"}, report : 0 .. MaxReports,
                   started : Nat, no : 0 .. MaxVersions]
LogRecords     == [started : Nat, report : 0 .. MaxReports, outcome : Outcomes]
RequestRecords == [pc : {"idle", "loaded", "written", "looked", "retired"},
                   op : {"none", "approve", "withdraw"},
                   target : 0 .. MaxVersions, retired : SUBSET Versions]

TypeOK ==
    /\ submitted \in 0 .. MaxReports
    /\ changedIn \in [Reports -> 0 .. MaxReports]
    /\ queue \subseteq Reports
    /\ attempts \in [Reports -> 0 .. MaxAttempts]
    /\ retried \in 0 .. MaxRetries /\ kills \in 0 .. MaxKills
    /\ last \in 0 .. MaxVersions
    /\ about \in [Versions -> 0 .. MaxReports]
    /\ review \in [Versions -> ReviewStates \cup {"absent"}]
    /\ approvals \subseteq Versions
    /\ run \in [Runs -> RunRecords]
    /\ clock \in Nat
    /\ log \subseteq LogRecords
    /\ req \in [Reviewers -> RequestRecords]

Init ==
    /\ submitted = 0 /\ changedIn = [v \in Reports |-> 0]
    /\ queue = {} /\ attempts = [v \in Reports |-> 0] /\ retried = 0 /\ kills = 0
    /\ last = 0 /\ approvals = {}
    /\ about = [n \in Versions |-> 0]
    /\ review = [n \in Versions |-> "absent"]
    /\ run = [r \in Runs |-> Idle] /\ clock = 0 /\ log = {}
    /\ req = [p \in Reviewers |-> Quiet]

-----------------------------------------------------------------------------
(* A submission, and the job it defers. *)

\* submit_report commits a version; _on_report_submitted defers a job for the
\* entry when its content moved in this version.  The defer is sent after the
\* commit and is dropped when the send fails or the process dies first.
Submit(changed) ==
    LET v == submitted + 1 IN
    /\ submitted < MaxReports
    /\ submitted = 0 => changed
    /\ submitted' = v
    /\ changedIn' = [changedIn EXCEPT ![v] = IF changed THEN v ELSE changedIn[submitted]]
    /\ queue' \in (IF changed THEN {queue, queue \cup {v}} ELSE {queue})
    /\ UNCHANGED <<attempts, retried, kills, tableVars, runVars, req>>

-----------------------------------------------------------------------------
(* The pipeline. *)

\* The check at the head of run_pipeline: the newest assessment was drafted
\* from this very entry, or from the version its content last changed in.
NothingNew(v) ==
    /\ v # 0 /\ last # 0
    /\ about[last] = v \/ about[last] = changedIn[v]

Begin(r, v) ==
    /\ clock' = clock + 1
    /\ run' = IF NothingNew(v) THEN run
              ELSE [run EXCEPT ![r] = [pc |-> "analysing", report |-> v,
                                       started |-> clock + 1, no |-> 0]]

\* Mutant of StartJob: the job stays queued while it runs.
StartJobStaysQueued(r, v) ==
    /\ run[r].pc = "idle" /\ r \in Workers
    /\ v \in queue
    /\ attempts' = [attempts EXCEPT ![v] = @ + 1]
    /\ Begin(r, v)
    /\ UNCHANGED <<reportVars, queue, retried, kills, tableVars, log, req>>

\* A worker slot takes a queued job: its lock is free again from here on.
StartJob(r, v) ==
    /\ run[r].pc = "idle" /\ r \in Workers
    /\ v \in queue
    /\ queue' = queue \ {v}
    /\ attempts' = [attempts EXCEPT ![v] = @ + 1]
    /\ Begin(r, v)
    /\ UNCHANGED <<reportVars, retried, kills, tableVars, log, req>>

\* The retry route runs the pipeline in the request, on the current version.
StartRetry(r) ==
    /\ run[r].pc = "idle" /\ r \in Retries
    /\ retried < MaxRetries
    /\ retried' = retried + 1
    /\ Begin(r, submitted)
    /\ UNCHANGED <<reportVars, queue, attempts, kills, tableVars, log, req>>

\* The model steps stopped short: the run is committed as partial or delayed.
Stall(r) ==
    /\ run[r].pc = "analysing"
    /\ log' = log \cup {[started |-> run[r].started, report |-> run[r].report,
                         outcome |-> "stalled"]}
    /\ run' = [run EXCEPT ![r] = Idle]
    /\ UNCHANGED <<reportVars, jobVars, tableVars, clock, req>>

NextVersionNo == last + 1

\* The number is read once the model steps are done.
Number(r) ==
    /\ run[r].pc = "analysing"
    /\ last < MaxVersions
    /\ run' = [run EXCEPT ![r].pc = "numbered", ![r].no = NextVersionNo]
    /\ UNCHANGED <<reportVars, jobVars, tableVars, clock, log, req>>

\* Row locks: an uncommitted UPDATE holds the rows it wrote.
Locked(n) == \E p \in Reviewers :
    \/ req[p].pc \in {"written", "looked", "retired"} /\ req[p].target = n
    \/ req[p].pc = "retired" /\ n \in req[p].retired

\* Mutants of Record: the older drafts are left, or the published reading is
\* superseded with them.
RecordSuperseding(r, gone) ==
    LET n == run[r].no IN
    /\ run[r].pc = "numbered" /\ n = last + 1
    /\ last' = n
    /\ about' = [about EXCEPT ![n] = run[r].report]
    /\ review' = [m \in Versions |-> IF m \in gone THEN "superseded"
                                     ELSE IF m = n THEN "draft" ELSE review[m]]
    /\ run' = [run EXCEPT ![r] = Idle]
    /\ UNCHANGED <<reportVars, jobVars, approvals, clock, log, req>>
RecordKeepsDrafts(r)       == RecordSuperseding(r, {})
RecordRetiresPublished(r)  == RecordSuperseding(r, 1 .. last)

\* _record_assessment and the commit: the version, its draft review, and the
\* older drafts superseded.  An approved review is left standing.
Record(r) ==
    LET n == run[r].no
        drafts == {m \in Versions : review[m] = "draft"}
    IN
    /\ run[r].pc = "numbered"
    /\ n = last + 1
    /\ \A m \in drafts : ~Locked(m)
    /\ last' = n
    /\ about' = [about EXCEPT ![n] = run[r].report]
    /\ review' = [m \in Versions |-> IF m = n THEN "draft"
                                     ELSE IF m \in drafts THEN "superseded" ELSE review[m]]
    /\ log' = log \cup {[started |-> run[r].started, report |-> run[r].report,
                         outcome |-> "completed"]}
    /\ run' = [run EXCEPT ![r] = Idle]
    /\ UNCHANGED <<reportVars, jobVars, approvals, clock, req>>

\* Mutant of Abort: a job that raised is not queued again.
AbortDropsJob(r) ==
    /\ run[r].pc # "idle"
    /\ run' = [run EXCEPT ![r] = Idle]
    /\ UNCHANGED <<reportVars, jobVars, tableVars, clock, log, req>>

\* The transaction raises, on a number another run committed first (the unique
\* constraint) or on a database error, and its analysis_runs row is lost with
\* it.  A job that raised is queued again while it has attempts left.
Abort(r) ==
    LET v == run[r].report IN
    /\ run[r].pc # "idle"
    /\ run' = [run EXCEPT ![r] = Idle]
    /\ queue' = IF r \in Workers /\ attempts[v] < MaxAttempts THEN queue \cup {v} ELSE queue
    /\ UNCHANGED <<reportVars, attempts, retried, kills, tableVars, clock, log, req>>

\* The process is killed.  Nothing puts its job back: it stays "doing".
Kill(r) ==
    /\ run[r].pc # "idle" /\ kills < MaxKills
    /\ kills' = kills + 1
    /\ run' = [run EXCEPT ![r] = Idle]
    /\ UNCHANGED <<reportVars, queue, attempts, retried, tableVars, clock, log, req>>

-----------------------------------------------------------------------------
(* The review. *)

\* current_review and the state tests of approve: only a draft goes on.
ApproveLoad(p, n) ==
    /\ req[p].pc = "idle" /\ n <= last
    /\ review[n] = "draft"
    /\ req' = [req EXCEPT ![p] = [pc |-> "loaded", op |-> "approve",
                                  target |-> n, retired |-> {}]]
    /\ UNCHANGED <<reportVars, jobVars, tableVars, runVars>>

WithdrawLoad(p, n) ==
    /\ req[p].pc = "idle" /\ n <= last
    /\ review[n] = "approved"
    /\ req' = [req EXCEPT ![p] = [pc |-> "loaded", op |-> "withdraw",
                                  target |-> n, retired |-> {}]]
    /\ UNCHANGED <<reportVars, jobVars, tableVars, runVars>>

\* The flush: UPDATE assessment_reviews SET state = ... WHERE id = ..., which
\* waits for the row's writer and does not look at the state it overwrites.
Write(p) ==
    /\ req[p].pc = "loaded"
    /\ ~Locked(req[p].target)
    /\ req' = [req EXCEPT ![p].pc = "written"]
    /\ UNCHANGED <<reportVars, jobVars, tableVars, runVars>>

\* Mutant of Look: the older publication is not looked for.
LookForNothing(p) ==
    /\ req[p].pc = "written" /\ req[p].op = "approve"
    /\ req' = [req EXCEPT ![p].pc = "looked"]
    /\ UNCHANGED <<reportVars, jobVars, tableVars, runVars>>

\* retire_other_approved_reviews, one UPDATE: it finds the other reviews that
\* were committed as approved when the statement began ...
Look(p) ==
    LET others == {m \in Versions \ {req[p].target} : review[m] = "approved"} IN
    /\ req[p].pc = "written" /\ req[p].op = "approve"
    /\ req' = [req EXCEPT ![p].pc = "looked", ![p].retired = others]
    /\ UNCHANGED <<reportVars, jobVars, tableVars, runVars>>

\* ... waits for whoever writes one of them, and retires those that still are.
Retire(p) ==
    /\ req[p].pc = "looked"
    /\ \A m \in req[p].retired : ~Locked(m)
    /\ req' = [req EXCEPT ![p].pc = "retired",
                          ![p].retired = {m \in @ : review[m] = "approved"}]
    /\ UNCHANGED <<reportVars, jobVars, tableVars, runVars>>

Commit(p) ==
    /\ req[p].pc = IF req[p].op = "approve" THEN "retired" ELSE "written"
    /\ review' = [m \in Versions |->
                    IF m = req[p].target
                    THEN IF req[p].op = "approve" THEN "approved" ELSE "withdrawn"
                    ELSE IF m \in req[p].retired THEN "superseded" ELSE review[m]]
    /\ approvals' = IF req[p].op = "approve" THEN approvals \cup {req[p].target} ELSE approvals
    /\ req' = [req EXCEPT ![p] = Quiet]
    /\ UNCHANGED <<reportVars, jobVars, last, about, runVars>>

\* The request fails, or the database breaks a deadlock by refusing it.
Rollback(p) ==
    /\ req[p].pc # "idle"
    /\ req' = [req EXCEPT ![p] = Quiet]
    /\ UNCHANGED <<reportVars, jobVars, tableVars, runVars>>

-----------------------------------------------------------------------------
RunStep(r) ==
    \/ \E v \in Reports : StartJob(r, v)
    \/ StartRetry(r) \/ Stall(r) \/ Number(r) \/ Record(r) \/ Abort(r) \/ Kill(r)

ReviewStep(p) ==
    \/ \E n \in Versions : ApproveLoad(p, n) \/ WithdrawLoad(p, n)
    \/ Write(p) \/ Look(p) \/ Retire(p) \/ Commit(p) \/ Rollback(p)

Next ==
    \/ \E changed \in BOOLEAN : Submit(changed)
    \/ \E r \in Runs : RunStep(r)
    \/ \E p \in Reviewers : ReviewStep(p)

Spec == Init /\ [][Next]_vars

-----------------------------------------------------------------------------
(* Fairness: the worker fetches jobs, a model call returns or times out, and *)
(* a transaction that is open goes on.  Nobody has to submit or to review.   *)

Proceed(r)  == Stall(r) \/ Number(r) \/ Record(r) \/ Abort(r)
Complete(p) == Write(p) \/ Look(p) \/ Retire(p) \/ Commit(p) \/ Rollback(p)

Fairness ==
    /\ \A r \in Runs : WF_vars(\E v \in Reports : StartJob(r, v)) /\ WF_vars(Proceed(r))
    /\ \A p \in Reviewers : WF_vars(Complete(p))

FairSpec == Spec /\ Fairness

-----------------------------------------------------------------------------
(* Properties. *)

\* A draft waiting in the review queue is the newest reading of the week: two
\* runs that overlap never leave two drafts behind, nor an old one on top
\* (supersede_other_reviews and the unique version_no serialise them).
DraftIsNewest == \A n \in Versions : review[n] = "draft" => n = last

\* What the student sees is taken away by the professor alone: a published
\* reading goes when it is withdrawn or when another is published in its
\* place, and never because a new draft arrived (ASSESS-09, AC-03).  It holds
\* for reviews that overlap too: a reading is retired beside one that stands.
StandsUntilReplaced ==
    [][\A n \in Versions : review[n] = "approved" /\ review'[n] # "approved" =>
          \/ review'[n] = "withdrawn"
          \/ \E m \in Versions \ {n} : review'[m] = "approved"]_vars

\* "A week has one published assessment" (assessment/repository.py,
\* retire_other_approved_reviews).  Two approvals that cross publish two.
AtMostOnePublished ==
    \A m, n \in Versions : review[m] = "approved" /\ review[n] = "approved" => m = n

\* The jobs alone never draft one report version twice, however often they
\* raise and are queued again: the queueing lock admits one job of a version at
\* a time, and one that recorded its draft is not queued again
\* (assessment/tasks.py).  A retry request takes no such lock, and a run beside
\* one may draft the version a second time.
DraftedOnce ==
    retried = 0 => \A m, n \in Versions : about[m] = about[n] /\ about[m] # 0 => m = n

\* The worklist: a run that stopped short stays on it until a later one of the
\* week got somewhere (partial_runs).
Redone(x)   == \E y \in log : y.started > x.started /\ y.outcome = "completed"
StalledRuns == {x \in log : x.outcome = "stalled" /\ ~Redone(x)}

\* Every job the queue accepted comes to something the product can show: an
\* assessment, a run that is on the worklist or was redone, or all its attempts used up.
\* A killed process is the exception: its job stays "doing" and is not fetched.
Settled(v) ==
    \/ \E n \in 1 .. last : about[n] = v
    \/ \E x \in log : x.report = v /\ (x \in StalledRuns \/ Redone(x))
    \/ attempts[v] = MaxAttempts
    \/ kills > 0
QueuedIsSettled == \A v \in Reports : v \in queue ~> Settled(v)

=============================================================================
