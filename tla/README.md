# Verification of Research Manager

Research Manager collects the weekly reports of research students, drafts an assessment of each
report with a language model, and lets a professor review, correct and publish what the student
then reads. This directory holds TLA+ models of its protocols, the TLC runs that check them on
small instances, and theorems about them whose proofs TLAPS checks for every value of the
constants. Paths below are relative to `src/backend/app/` unless they start with `docs/` (which is
`src/docs/`).

1. The system
2. The modules
3. The runs
4. The proofs
5. Where the code does not do what it says
6. Not modelled
7. What could come next

## 1. The system

The back end is one FastAPI application and one `procrastinate` worker over one PostgreSQL
database; an S3 store holds the bytes of files. An HTTP request, an MCP tool call and a job are
each **one transaction at READ COMMITTED** (`core/db.py`): a statement sees what others have
committed, a plain read locks nothing, an `UPDATE` waits for the row's writer and then tests its
`WHERE` clause again, and an ORM object keeps the values it was loaded with and writes only those
that changed. Nothing in the code serialises two requests on the same week except an explicit
`FOR UPDATE`, a unique constraint or a trigger. Most of what is hard here follows from that.

| Component | State it keeps | Operations | Talks to |
|---|---|---|---|
| Assessment pipeline and review (`assessment/`) | `assessment_versions`, `assessment_reviews`, `analysis_runs` | `run_pipeline` (job or retry route), `approve`, `withdraw`, correction, worklist of stalled runs | reporting (entries), ai (model steps), queue, audit |
| Weekly report (`reporting/service.py`) | `weekly_reports`, `report_versions`, entries, revision requests | `save_draft`, `submit_report`, `request_revision`, `mark_reviewed` | emits `ReportSubmitted`; assessment, evidence and attachments defer jobs on it |
| Calendar (`reporting/calendar.py`, `reporting/service.py`) | calendar versions, periods | `configure_calendar`, `ensure_periods` (routes and the nightly job) | obligations, reminders |
| Projects, memberships, obligations, baselines (`projects/`, `reporting/`) | projects, memberships, obligations, plan baselines | create, update, join, enrol, end; `ensure_obligations`, `freeze_baselines` | events between the two modules, nightly jobs |
| Attachments (`reporting/artifacts.py`) and evidence index (`evidence/`) | artifacts, versions, references, stored objects | grant, confirm, extract, remove; index, forget | object store, queue |
| Feedback (`feedback/`, `mcp/tools.py`) | feedbacks, revisions, attachments, idempotency keys, stored objects | create, update, publish, upload, inline upload, confirm | MCP server, object store |
| Accounts (`identity/`) and OAuth grants (`oauth/`) | users, invitations, sessions, resets; codes, token pairs | invite, accept, log in, reset, deactivate, reactivate, recover; issue, exchange, refresh, revoke | emits `UserRemoved`, links by e-mail |
| Workspaces (`identity/`) | workspaces, memberships, anchors | create, join, leave, archive, move a student, break-glass commands | accounts |
| Notifications (`notifications/`) | notifications, deliveries | reminder scan, delivery loop | reporting, mail relay |
| AI gateway and budget (`ai/`) | `ai_calls` ledger | check the budget, call, record | model provider |
| Authorization and reading (`core/authz.py`, `policies.py`) | a `Scope` for each request | every list and detail a student or professor reads | all of the above |
| Queue and transactions (`core/jobs.py`, `core/db.py`) | jobs, pending defers of a session | defer after commit, flush, discard, retry | PostgreSQL |
| Web front end | drafts being edited | autosave, submit with an idempotency key | HTTP API |

### What is hard

* **Reads that decide and are stale when used.** `approve` tests a review state, `submit_report`
  reads the version to compare with, `accept_invitation` tests the account's state, `end_membership`
  reads the row it ends; all write without looking again.
* **Jobs.** Deferred on a connection of their own after the commit, guarded by a queueing lock only
  while they wait, retried up to five times, never taken up again after a killed worker. The
  periodic ones start whether or not the one before is done.
* **Retries by people.** The retry route runs the pipeline inside the request, outside the lock.
* **Idempotency keys**, two kinds: a unique column of a version, and a claimed row whose insert
  waits for another holder.
* **An object store and a mail relay outside every transaction.** A deletion or a message outlives
  a rollback, and a presigned URL lets the client write after the check.
* **Answers made of several queries**, between which everything may change, and lists read in pages.

### What makes each component correct

* *Assessments*: one draft waits at a time and it is the newest; one reading is published (which the
  code keeps until two approvals cross) and it goes only when the professor says so; jobs draft a
  version once; a queued job comes to something the product can show.
* *Reports*: the first submission stands; a key makes one version; nothing submitted is lost; a
  marker names the version its content last changed in; a job and its version go together.
* *Calendar*: weeks do not overlap and leave no week out; a deadline does not move under a week that
  has begun; a new version reaches the weeks that have not; weeks are always opened ahead.
* *Obligations and baselines*: one rule of owing for everybody who asks; one entry for a project and
  a week; a baseline is frozen once, and is empty only if nothing was agreed.
* *Attachments and evidence*: what was checked and confirmed stays in the store, but for what the
  student does to it; what is removed is cited nowhere; what is queued comes to be citable or says
  why not.
* *Feedback*: two writers take turns; a file that is attached was checked and is there; a key
  creates once; the student reads what somebody reviewed; calls end.
* *Accounts and grants*: a code and a token are spent once, a replay ends the grant, a deactivation
  or a reset ends the sessions, and only the professor brings a deactivated account back.
* *Workspaces*: active accounts are not left without the professor they had; an archived workspace
  stays empty; an account belongs to the workspace it works in, and a student to no other.
* *Notifications*: who is missing is told, who is not is not, and mails are not repeated.
* *AI budget*: no call is permitted on a sum that has reached the budget. Charges are seen by others
  only after a commit, so each analysis at work may by itself come to the budget and one call beyond
  it; all together spend no more than that for each of them. Every analysis ends.
* *Reading*: what a request shows held for its reader at some moment while it ran, and pages show
  each row once.

## 2. The modules

| Module | What it is |
|---|---|
| `AssessmentPipeline` | The assessments of one student, project and week: runs, jobs, retries, reviews |
| `ObservedReview` | The same, with an observer of whether two approvals have crossed; the refinement |
| `Publication` | Abstract: what a student is shown, one reading at a time, each over one stretch of time |
| `WeeklyReport` | One student's report for one week: submissions, markers, revision requests, jobs |
| `ObservedReport` | The same, with an observer of whether two submissions were ever under way at once |
| `Calendar` | Versions of the calendar and the weeks opened from them, query by query |
| `Obligations` | One student's memberships, what is owed for each week, and the baselines of the plans |
| `Attachments` | One attachment: overlapping grants and confirmations, bytes sent at any time, extraction, indexing, removal |
| `Feedback` | Feedback of a professor: calls under keys and row locks, files in a store |
| `Access` | One account: its links, sessions and token pairs under overlapping requests |
| `Workspaces` | Who belongs to which workspace and in what role; the professor's routes and the host shell |
| `Reminders` | The scan for missed deadlines and the loop that mails |
| `Gateway` | The model calls of overlapping analyses and the budget they share |
| `Reading` | What requests answer, query by query and page by page |
| `MC...` | Symmetry, values and bounds for TLC: `MCAssessmentPipeline`, `MCWeeklyReport`, `MCFeedback`, `MCReminders`; `MCRecord` (`Reading`, `Workspaces`, `Calendar`) and `MCServices` (`Gateway`, `Attachments`) run components that share no state |
| `...Proofs` | Theorems and proofs: `AssessmentPipelineProofs` (with `ObservedReview`), `WeeklyReportProofs` (with `ObservedReport`), `ObligationsProofs` (with `Calendar`), `AttachmentsProofs`, `FeedbackProofs`, `AccessProofs` (with `Reading`), `WorkspacesProofs` (with `Gateway`), `RemindersProofs` |

A transaction is split where another can come between: what it reads, the statement that takes a row
lock, and the commit. What it has not committed is private to it (a record in `run`, `req`, `sub`,
`rev`, `call`, `tx`, `job`, `scan` or `send`). Failure is an action of its own (`Abort`, `Rollback`,
`Abandon`, `Leave`, `Raise`, `Fail`), enabled at every such point, and stands for constraints,
deadlocks broken by the database and lost connections alike. `Calendar`, `Gateway` and `Reading`
call their specification `CalendarSpec` and so on, because a proof module and an MC module extend
each beside another module. Definitions whose comment calls them a *mutant* are not part of the
specification: each is a plausible mistake in the definition it stands beside, and shows that a
property notices it. Variables marked *history* or *observer* record what happened; nothing is
decided by them.

The modules are composed through what one leaves for another. `AssessmentPipeline` takes a
submission as one action whose detail is `WeeklyReport`; `WeeklyReport` and `Obligations` share what
a week owes; `Attachments` joins the upload, the two jobs and the index, which are three components
of the code; `Reading` has the effects of all of them on what is read; `AssessmentPipeline`
implements `Publication` until two approvals cross (`ObservedReview`).

### AssessmentPipeline

`StartJob` and `StartRetry` begin a run and make the check at its head (`NothingNew`); `Stall` is a
run whose model steps stopped and that is committed as partial or delayed; `Number` reads
`next_version_no`; `Record` is `_record_assessment` with the commit: the unique constraint on the
number is the guard `n = last + 1`, the supersession waits for the row locks (`Locked`). `Abort`
queues a job again while attempts are left; `Kill` leaves it `doing` for ever. A review is
`ApproveLoad` or `WithdrawLoad` (the state test), `Write` (the flush, which takes the lock and does
not look at what it overwrites), `Look` and `Retire` (one `UPDATE`: it finds the reviews that were
committed as approved when it began, waits for who writes one of them, and retires those that still
are) and `Commit`. `StalledRuns` is the worklist.

`ObservedReview` adds `crossed`: an approval was committed beside another that will not see it, one
of the same reading which has tested the state already, or one that has already looked. The published
readings are a set there (`Published`), and `ReviewImplementsPublication` says that every step up to
the crossing is one of `Publication`.

The answer of a model and the text of an assessment are left out.

### WeeklyReport

`Open` makes the reads of `submit_report` and its two tests of the package (`IsComplete`,
`SaysSomething`); `Number` reads the next number again from the table; `Write` flushes the report
row (and takes its lock) and reads the open revision requests; `Commit` applies entries, markers,
state and first submission, and is possible only if the database accepts it (`Accepted`: one report
a week, unique number and key, and the trigger that freezes `first_submitted_at`); `Flush` sends the
deferred jobs. The professor's request is `Load`, `Mark`, `Settle`. An assignment of the value an
ORM object was loaded with writes nothing: this is `saw` and `Touches`. Contents are a set that
`content_hash` tells apart. Drafts meet no version, so only the creation of the row by `save_draft`
is kept. The deadline's timing status is left out.

### Calendar

Days are numbered and an instant is a number of minutes, so that `Cut` computes what `period_dates`
computes; a zone is an offset. `Configure` saves a version and re-dates the weeks it sees that have
not begun (`Redatable`, `Redated`); `Ensure`, `FindCursor` and `OpenWeek` are `ensure_periods`, each
query a step, and `NightlyEnsure` starts it in the nightly job. `InForce` is `calendar_for`, with
its choice of the newest among versions that take effect on one day. `crossed` records that a
transaction committed on what another had changed since it read.

### Obligations

One student. Projects are created (`StartProject` by a professor, `ProposeProject` by a student),
updated, joined and left; a job (`ReadDerivation`, `CommitDerivation`) derives what is owed and
another (`ReadFreeze`, `CommitFreeze`) freezes the plan that the week before holds, from the first
day of a week on, whatever its deadline is. A student may submit a report at any time; `Lag` is the
number of days from the end of a week to its deadline, which the meeting weekday decides. `kept`
records which plans were in the report when the next week began and have not been taken back since.
`StillOwes` and `ActiveInRange` are the two queries the code has for one question, translated
separately. `ReadEnding` and `EndMembership` are one request in two steps, because a removal or an
enrolment may come between.

### Attachments

`Ask` and `Grant` are `request_upload`, whose two requests may overlap: both may be given a URL for
one version, and the second write of the row decides which file it stands for. `Put` is the client
at a URL, with the file it promised, another, or one over the limit; while the URL lives it may do
so any number of times, also after the confirmation (`late` records that it put another file over
one that was checked), and a URL that has expired is one it does not use. A confirmation is `Check`
and `Confirm`, or `Oversized` and `Discard`: it finds an object over the limit and deletes what is
under that key by then, which no refusal takes back. `Submit` queues an extraction for each new
version; a worker does `TakeExtract`, `PutText`, `CommitText` or `CommitEmpty`, and `TakeIndex`,
`CommitIndex`, or `Raise`; `Remove`, `Strip` and `Delete` are the removal: the references, the
objects one at a time, the commit. The store's objects change at once and stay changed when the
transaction is left.

### Feedback

A call is `Ask...`, then `Claim` (keyed operations: the insert waits for another holder of the key
and replays what a committed one did), `Lock` (`FOR UPDATE`, then `_require_current`), and its work:
`Create`, `Update`, `Publish`, `Grant`, `GrantInline`, or the steps of a confirmation (`Fetch`,
`Discard`, `Attach`). A domain error is an answer: `call_tool` catches it and commits, while the
savepoint takes the claim back. `Put` is the client that holds a presigned URL: it may write the
bytes it promised or others until they were checked; a URL lives for fifteen minutes, and a client
that overwrites a file after its confirmation with other bytes is outside the model.

### Access

A request on the account is `Read`, `Write` (the flush, which waits for the row's writer, and the
statements that revoke what is committed by then) and its commit (`CommitAccept`, `CommitEnding`,
`CommitRestore`); a login is `Login` and `CommitLogin` and waits for nobody. A code and a token are
read `FOR UPDATE` (`HoldsPair`); a `Replay` collects the client's pairs, waits for those that others
hold (`Sweep`) and revokes them. `leaves` is the state it will write, decided by the account it
read. `era` counts deactivations and resets; `beside` and `spared` record what was opened or minted
by a request that overlapped one.

### Workspaces

One action is one request of `identity/service.py` or one break-glass command, run to its commit:
the question is not how two requests overlap but where a long sequence of permitted calls can lead.
An account has one `anchor` (`users.workspace_id`, where it works) and any number of memberships
(`member`); a workspace has an `owner`, who need not be a member. The three relations are changed by
different calls and no constraint ties them together, save that rows pinned to the anchor by a
foreign key (`worked`) refuse to let it move (`Movable`), while open invitations follow it. Sessions
and reset links are `Access`'s, save `ResetPassword`, which gives a password to an account that was
recovered without one and so decides what `Reactivate` makes of it.

### Reminders

A scan is `StartScan` (the weeks due), `ReadWeek` (`unfulfilled_entries`), `Dispatch` (a notice and
a queued delivery for each student; an insert waits for another scan's, `ScanWaitsFor`) and
`CommitScan`, which stamps the week. A sender is `TakeQueued`, `Mail` (the relay, which no rollback
undoes), `Flush`, `Row` and `CommitSend`. `Fail` is a crash, a lost reply, or the end of a deadlock.
Students hand in and professors excuse, pause and extend in between.

### Gateway

A run is three steps; each is `Decide` (`check_budget` over the ledger it sees and its own rows),
then `Answer`, `Unparsed`, `Retry` or `Fail`. Rows are flushed in the analysis' transaction
(`Recorded`) and reach the ledger with `Commit`, or are lost with `Abort`. The ledger is kept as the
two sums that `check_budget` asks for, of a project and of the workspace (`Scopes`): a row counts in
both. `NewMonth` may come at any point; rows are dated by the start of their transaction.

### Reading

A request resolves its `Scope` (`Ask`), sends its queries in order (`Query`, each over what is
committed then), and for the list of reports goes on with the next page (`NextPage`). Each query is
an operator built from the visibility predicate of its aggregate (`...Visible`), translated from the
`policies.py` of the module; `ReviewsFor` is the one without a predicate, which looks up the reviews
of assessments by the ids that the query before it found, for the list of reports, the trend, the
list of assessments and the review queue. The actions `Join` to `Remove` are the effects of the
other modules.

## 3. The runs

| Run | Instance | What it shows |
|---|---|---|
| `Pipeline` | 2 report versions, 3 assessments, 2 worker slots, 1 retry, 2 reviewers, 2 attempts, 1 kill: one reviewer beside runs that overlap, and two beside runs that do not; fair | `DraftIsNewest`, `StandsUntilReplaced`, `DraftedOnce`; every queued job is settled (`QueuedIsSettled`); until two approvals cross the review implements `Publication` (`ReviewImplementsPublication`), so that one reading is published at a time |
| `TwoPublished` | 1 worker slot, 2 reviewers, 2 assessments | violated: `AtMostOnePublished` |
| `Report` | 2 tabs, 1 professor, 2 projects, 2 contents, 1 key, 3 versions, 1 lost send | Alone: markers are true and nothing is dropped (`AloneRecordsTruly`). Overlapping too: `FirstStands`, `OneVersionPerKey`, `JobsFollowCommit`, `SentWithVersion` |
| `Obligations` | 1 project, 1 job beside the requests, 2 memberships, 2 weeks of 2 days, deadlines a day after the week | `OwedAsDerived`, `OwedOnce`, `EmptyMeansNothingAgreed` |
| `PlanFrozenEarly` | the same | violated: `OnTimePlanCounts` |
| `Feedback` | 2 calls, 2 feedbacks, 1 file and a limit of 1, 1 key for two operations, 3 revisions; fair | `AttachedIsReady`, `CreatedOnce`, `ClaimMeansDone`, `PublishedAsReviewed`, `EveryCallEnds` |
| `Access` | 2 requests at once, 2 links, 2 sessions, 3 pairs, 2 endings | `MintedOnce`, `ReplayEndsGrant`, `EndingsEndSessions` |
| `Reminders` | 2 scans and 2 senders at once, one of each may fail, 1 student, 1 week, 2 attempts; fair | `NoFalseAlarm`, `EveryMissingIsTold`, `OneMailEach`, `ToldInTheEnd` |
| `Record` | *Reading*: 2 students, 2 weeks, pages of 1, 5 writes in between. *Workspaces*: 3 accounts, 2 workspaces, 1 break-glass command. *Calendar*: a request and the nightly job, 4 calendars to choose from, 3 saved versions, weeks of 2 days, days of 2 minutes; fair | `PagesShowEachOnce`, `ShownHeld`; `ArchivedIsEmpty`, `BelongsWhereItWorks`, `RoutesKeepProfessor`; `WeeksApart`, `UnstartedFollowLatest`, `BegunWeekKeepsDeadline`, `WeeksAreOpened` |
| `Services` | *Gateway*: 2 analyses, 2 projects, a budget of 3, calls of 2, 2 attempts; fair. *Attachments*: 2 calls, 1 worker, 2 files of which one has a text, 2 versions, 2 grants, 3 files sent, 1 submission, 1 lost send; fair | `WithinBudget`, `EveryRunEnds`; `ConfirmedIsWhole`, `RemovedIsForgotten`, `QueuedIsCitable` |
| `LinkedWhenApproved` | 1 student, 1 week, 1 assessment, 4 writes | violated: `LinkedWhenApproved` |
| `DeactivationUndone` | the instance of `Access` | violated: `DeactivationIsDurable` |

Each property of a passing run has a mutant in `PROJECT.json`, a change of one definition that makes
the same run find it violated.

**Runs of several parts.** `Record` and `Services` run components that share no state: a behaviour is
about one of them (`about`), and the others rest in an initial state, in which none of their fair
actions is enabled. A property of one part is then decided in the behaviours about that part.

**Some properties say when they hold.** `WeeksApart` and `UnstartedFollowLatest` speak of calendars
in which no writer committed on what another had changed (`crossed`); that weeks do not overlap is
claimed of overlapping writers too while weeks start on one weekday, that none is left out is not.
`OwedOnce` excepts an ending written over one that it had not read (`lost`); `ConfirmedIsWhole`
overlapping requests about the upload (`crossed`), what the student puts over a checked file
(`late`) and a removal that has begun (`stripped`); `RemovedIsForgotten` what a worker held during
the removal (`met`); `DraftedOnce` speaks of jobs only; `AloneRecordsTruly` of one submission at a
time; `ReviewImplementsPublication` of the time until two approvals cross. What happens beyond each
is in section 5: the exceptions are behaviours of the code, and nothing narrower than each could be
left out.

**Bounds.** The constants named *bound* in each module end the behaviours; nothing else depends on
them. Two actors of a kind are enough for each race above (a third repeats one of the two), two
versions for *older and newer*, three for *carried twice* or *the version before last*.
`MaxAttempts` is 2 instead of 5 so that a job does use up its attempts, and `MaxFiles` 1 instead of
20 so that two confirmations meet the limit. A week of two days has a first and a last one, a day of
two minutes a boundary inside it; `Catchup` of 1 lets a freeze come late. Three accounts are the
professor who goes, a colleague and a student; one command is a shell at any point of a sequence of
routes. A budget of 3 with calls of 2 is passed in the middle of an analysis of three calls. In
`Reading` a report has two readings and a feedback two revisions, and the five writes are enough to
publish, withdraw and publish again, or to hand in, rename and hand in, between two queries.

The MC modules bound combinations, not actors: `MCAssessmentPipeline` runs two reviewers over runs
that come one after another and are not killed, and one reviewer over runs of every kind;
`MCWeeklyReport` one tab over two projects with everything around it, and two tabs over one project
without the professor; `MCFeedback` takes files or keys; `MCRecord` watches one part of the record of
`Reading` at a time; `MCServices` has the requests about an upload overlap where no week is submitted,
and one after another where the worker reads what is attached. Each says so beside its definition.

**Deadlock** is checked except where the system may simply be over: a week that was assessed and
reviewed (`Pipeline`, `TwoPublished`), a grant that was used up (`Access`, `DeactivationUndone`), a
queue that is empty after the last instant (`Reminders`). In `Record` and `Services` the routes on
workspaces and the attachment may stop as well (`RollsStop`, `AttachmentsStop`); the other parts may
not.

**Symmetry.** `Report` has no liveness property. `Record` has one, about the calendar, and a symmetry
of the accounts of `Workspaces`, which TLC warns of in general: in the behaviours about the calendar
no account ever differs from another, so that the symmetry identifies none of their states.

**Fairness.** Open transactions go on or fail, and the worker and the periodic jobs are started
again and again; nobody has to submit, review, save, upload, remove or retry, and no fairness is put
on failures except the end of a deadlock, which PostgreSQL guarantees.
*Pipeline*: a worker slot that is free keeps fetching jobs, and an open transaction goes on (the
model client has a timeout and bounded attempts); a killed worker leaves its job `doing` and nothing
in the program takes it up, so `QueuedIsSettled` is claimed up to a kill. *Calendar*: the nightly job
runs every night. *Attachments*: workers go on, and a request that has opened a transaction ends it.
*Feedback*: weak fairness of a call's own steps, and strong fairness of `Claim` and `Lock` because
PostgreSQL grants a lock in the order in which it was asked for. *Reminders*: scans and senders are
started and go on, and time passes. *Gateway*: a call is answered or times out.

## 4. The proofs

Each proof module states inductive invariants, proves them of the initial states and of every step,
action by action, and derives its theorems. They assume only the named assumption of the modules they
are about (`PipelineAssumption`, `ReportAssumption`, `CalendarAssumption` and so on), which bounds the
constants and says that they are what they stand for; where a theorem has a further hypothesis it is
named below. A module that is about two components extends both and nothing of one is used for the
other. Every theorem is for any number of actors and any value of the bounds.

* **AssessmentPipelineProofs.** `Inv` adds to the types: queued versions have an attempt left
  (`JobsInBounds`), a review transaction targets and retires numbered versions and never its own
  target (`RequestsInOrder`), versions are numbered without a gap (`RowsInOrder`). From it:
  `TypeCorrect`; `DraftNewest`; `PublishedStands`, for any number of overlapping reviews. Of
  `ObservedReview`, for any number of reviewers, runs and retries: `OnePublished`, a week has one
  published reading until two approvals cross, and `ReviewIsPublication`, until then `Commit` is a
  `Publish`, a `Withdraw` or changes nothing of what is published, and every other step is a stutter
  of `Publication`. Their invariant (`InTurn`) adds that a request which has looked has found every
  other published reading (`RetiresAll`) and that what was published was audited (`Audited`); an
  approval that commits while another has looked would break the first, and that is what crossing
  means. `JobsDraftOnce` rests on `OneHolder`: a version of the report is queued, at work in one
  slot, or assessed, and never two of these. The proof uses the queueing lock and not the check at
  the head of `run_pipeline`: the lock alone is enough for jobs.
* **WeeklyReportProofs.** `Inv` adds that a drawn number is one that may still be taken
  (`NumberDrawn`), that nothing was submitted before the first version, and that what is under way
  says something. From it: `TypeCorrect`, `FirstSubmissionStands`, `KeyMakesOneVersion`,
  `JobsAfterCommit`. `MarkerIsTrue` and `NothingDropped` need that a submission's base is the latest
  version (`BaseIsLatest`), which is what a second tab breaks: `AloneIsTrue` proves both of
  `ObservedReport`, for any number of tabs, up to the first time two submissions are under way at
  once, and `OneTabRecordsTruly` proves them without the observer where there is one tab. `JobsAreSent`
  is `SentWithVersion`: while no send has failed, every committed version has a job for each entry
  that changed, or its submission is about to send them.
* **ObligationsProofs** on `Obligations`. `OwedAsDerived` relates two queries over a table that
  requests and jobs change under each other. It is inductive once everybody who is owed joined in
  time (`Timely`), which holds because an enrolment's fields never change: `OneRuleOfOwing`.
  `OwedOnce` needs that of two memberships of one project the first has ended when the second
  begins, unless an ending was lost (`Apart`): `OneEntryOwed`. `NothingAgreedIsLost` proves
  `EmptyMeansNothingAgreed` wherever the deadline falls: an empty baseline, or a row a freeze is
  about to write without a plan, means that its week has begun and that nothing which was in the
  report then is still in it (`Agreed`). A plan handed in after that, though on time, is another
  matter (section 5). `FrozenOnce` is `BaselineStands`.
* **ObligationsProofs** on `Calendar`. `CalendarTypes` and, from what a transaction at each point has
  read and holds (`CalendarShape`, `CalendarRows`), `BegunWeeksStand`: only a commit writes weeks,
  the clock stands while one is open, and no other writer re-dates. `NewVersionReaches`: until a save
  overlaps the opening of weeks, who saves has re-dated every week it should and who opens has read
  the newest version (`CalendarFresh`). `WeeksStandApart` has two parts. While versions share a
  weekday every week starts on it (`CalendarWeekdays`), and two different multiples of a week do not
  overlap, whoever opened them. Otherwise weeks are opened one after the last (`CalendarSpacing`): all
  writers that open weeks begin with the same one, so that the insert fails all but one of them. The
  second part also gives that none is left out.
* **AttachmentsProofs.** `TakenBack`: while a removal is open every reference is one it has forgotten,
  or of a version some worker held (`Tracked`); without that `RemovedIsForgotten` is not inductive, as
  a job's commit may come long after. `OnlyWholeFiles`: as long as requests about the
  upload do not overlap, the one that is open is for the version after the current one (`InTurn`),
  versions are confirmed in order (`Numbered`), and what was checked is stored (`Matching`), or the
  student has put another file over it since. A deletion, by a grant asked again or by a confirmation
  that found too large a file, is then of an object no confirmed version rests on.
* **FeedbackProofs.** `Inv` says what a call at each point may hold (`CallsFit`), that two calls
  never hold one key or one row (`OneAtATime`), and that a claim agrees with what it stands for
  (`RecordsAgree`), beside the safety properties themselves. Two properties that no run checks are
  proved as well: `WritersTakeTurns` (`BuiltOnWhatWasRead`) and `FilesAreBounded` (`AtMostMaxFiles`).
* **AccessProofs** on `Access`. `SpentOnce` and `ReplayEnds` rest on the pairs being numbered in the
  order they were minted (`Numbered`), on a pair that was replaced being revoked (`Succession`), on one
  request at a time holding a pair (`Exclusive`), and on what a request that holds one may rely on
  (`Presented`). `EndingsEnd` rests on `EndingsSee`: what an ending that has looked did not find was
  opened beside it.
* **AccessProofs** on `Reading`. `ReadsShowWhatHeld`: each of the 24 queries finds only what its
  reader holds at that moment (`FoundHolds`, by kind of row), and what is shown stays in what holds
  now or has been revoked since (`AnswersHeld`). The query by ids has no predicate to prove it from:
  that an assessment found earlier belongs to the reader, and that its review was approved once and
  can only be withdrawn or superseded after that, is `Linked`. So what a student is shown of a
  review is a state it was in, never a draft's, and not more than that (section 5). It rests on
  `AskFits`: which queries are left of a request, that the project is in the `Scope` of a student
  only if they were on it during the request (but for a snapshot, which asks for evidence alone),
  and that a list with rows in it belongs to somebody who was enrolled once. `PagesShowEach`: a
  report shown lies behind the cursor, a standing one that is not shown lies before it, and after
  the last page none does (`WalkShows`). The arithmetic is in `PageTurns`: the list is a strict
  total order (`ListOrder`), a page is an initial segment of what remains and its last row the next
  cursor, and what remains and fits is the page. That needs the students and weeks to be finite,
  which `ReadingAssumption` says.
* **WorkspacesProofs** on `Workspaces`. `ArchivedIsEmpty` is not inductive: what matters is who can
  come back into an archived workspace. `Inv` adds that only existing accounts have open invitations
  (`OffersHaveAccounts`), that none leads into an archived workspace (`NoOfferIntoArchived`, a theorem
  of its own), and that an account which is not active belongs to no workspace but its anchor
  (`DormantAtHome`). Reactivation is then harmless because the professor who asks is active in the
  same workspace. `RoutesKeep`, that a step which takes the professor from somebody is
  no route's, needs the types alone: it holds from every state the shell can leave.
* **WorkspacesProofs** on `Gateway`. `SpendingIsBounded` is not inductive by the ledger alone: a
  commit adds what a run had gathered. Each run has a pot, what it has spent and may still commit to
  this month, which a permitted call cannot raise above one `Overspend`; committed money and the pots
  together never exceed one overspend for each run (`PotsWithinBudget`). The pots are added by
  counting a set of units.
* **RemindersProofs.** `NoSecondMail`: while a row is unsent, a sender's mails are at most its
  failures (`Counted`). `NobodyAlarmed` and `NobodyForgotten`: what an entry has been since its
  reminder was due is recorded without a gap (`Watching`), and what a scan has read and written is
  true of all that time (`Scanned`); a scan never inserts a notice another has inserted
  (`Inserting`).

Every safety and action property that a passing run checks is so proved. Only model-checked: the
liveness properties (`QueuedIsSettled`, `QueuedIsCitable`, `EveryCallEnds`, `EveryRunEnds`,
`WeeksAreOpened`, `ToldInTheEnd`), because the prover does not handle fairness and `ENABLED`.

## 5. Where the code does not do what it says

Four runs are kept as *violated*, because a comment, a docstring or a requirement promises what each
refutes. The others below were seen in the models while their properties were being stated: a hazard
of `PROJECT.json` without a property, or the exception in one, refers to this list. All need two
actors at once unless said otherwise.

**Accounts and grants**

* *DeactivationUndone* (the violation run): an invitation is read as open, the account is
  deactivated, and the acceptance writes `active` over it (`identity/service.py:814`, against the
  comment at `:806`).
* A login, or an acceptance, that overlaps a deactivation or a reset leaves an open session
  (`beside`); after a deactivation it works again with the reactivation. A replay that overlaps the
  refresh of another pair leaves the new pair live (`spared`). Token pairs survive a deactivation or
  a reset and work again after a reactivation. Two overlapping uses of one reset link both succeed.
* One after another: an invitation that was open before a break-glass recovery can still be accepted
  after it, and replaces the password without ending sessions.

**Workspaces** (one after another)

* `demote_professor` and `deactivate_professor` look for another professor only in the workspace the
  account works in, and the account may be the last one of another (`identity/service.py:1299`,
  against `docs/runbooks/break-glass.md`). A professor may leave a workspace in which someone is
  invited: `leave_workspace` counts active accounts.

**Assessments**

* *TwoPublished*: `approve` locks nothing of the week, so two overlapping approvals each retire what
  is committed when they look, and two readings are published (`assessment/service.py:714`; the comment
  at `assessment/repository.py:318` says a week has one). One of the two was superseded by a later
  draft after it was read. An approval writes over a draft that a run has
  superseded since it was read (`:706`), which needs no second reviewer.
* A retry beside a job drafts a version twice. The check at the head of `run_pipeline` compares with
  the newest assessment only by entry and by version changed in, so that after a retry on a carried
  entry it no longer recognises the content (`:262`). A run that stalls after a later one completed
  is not on the worklist, and one that stalls while another completes may be listed though a retry
  finds nothing new to do (`assessment/repository.py:378`).

**Reports**

* Assigning `resubmitted` to a row loaded as `resubmitted` writes nothing, so a revision request that
  commits in between wins and hides the new version from the professor's list; the other way round,
  the request is lost (`reporting/service.py:577`, `:648`).
* With two tabs the version to compare with is read before the number: a marker may name a version in
  which the content did not change, and an entry of the other tab may be dropped. A job whose send
  fails is dropped, and nothing sends it again.

**Calendar**

* A save that overlaps the nightly job may leave weeks that overlap, or weeks of the older version
  that are never re-dated. Where no week is open yet, a save whose version takes effect later begins
  with a later week than a route that goes by the version before it and opens up to a nearer day:
  both commit, and the weeks between are left out, even on one weekday. `grace_minutes_for` reads
  the grace live while the reminder's time is stored; `_redate_unstarted` applies the version just
  saved also to a week for which `calendar_for` answers an older one, and the cursor goes by the
  newest version's `week_start`.

**Obligations and baselines**

* *PlanFrozenEarly*: where the deadline of a week comes after its end, a plan handed in on time is
  frozen as empty: the freeze runs when the next week begins, and what it wrote stands
  (`reporting/service.py:369`, against PROJ-04, `docs/research_management_requirements.md:58`).
* One after another: a project that was paused and resumed owes the weeks of the pause (against
  REP-06 and AC-08). The baseline shown for a past week is looked up through the membership open
  today.
* `end_membership` writes over a removal, or over an enrolment that put the member back, and an
  ending is lost (`projects/service.py:385`). Two freezes of one week collide on their number, and the
  second job fails as a whole. `ensure_periods_everywhere` is one transaction over all workspaces.

**Attachments**

* A removal that overlaps an extraction or an indexing leaves a reference to a file that is gone
  (`met`). A removal that fails after deleting objects leaves an attachment that can be listed and
  not read. Requests about one upload that overlap leave a confirmed version whose object is not
  there (`crossed`): a grant asked again deletes what is being confirmed, or points the confirmed
  row at its own file; a confirmation that found too large a file deletes what has been put, checked
  and confirmed under the same key since (`:245`). Against the docstring of
  `reporting/artifacts.py`, and without any overlap, a URL lives for fifteen minutes (`:206`) and
  another file may be put over a checked one (`late`), of which a comment (`:260`) says that the
  bytes are safe. A file confirmed after a submission is read at the next one only, and a late write
  to a grant that was asked again leaves an object nobody refers to.

**Reminders**

* A crash between sending and commit, a lost reply, and two senders over one queue send a message
  again; the fifty messages of a transaction together (`notifications/service.py:193`). Scans insert
  their rows in no fixed order and may deadlock. An extension that runs at the dispatch is not
  reminded of later. A delivery that failed for good is not sent again.

**Gateway**

* The rows of the ledger belong to the analysis' transaction: a run that raises loses charges that
  were made (`ai/cost.py:4` says otherwise). A model without a published rate costs nothing in the sum
  that the budget is compared with; attempts that failed are not recorded; the rows of a run that
  crosses the end of a month count for neither month's check; and nothing starts an analysis again
  that was delayed, when the budget is raised.

**Reading**

* *LinkedWhenApproved*: `with_assessments` reads the assessments a student may see and then their
  reviews by id, in a statement of its own and without the predicate (`assessment/service.py:844`).
  After a withdrawal or another approval in between the list shows the status *withdrawn* or
  *superseded*, against the docstring at `:838`, and a link that answers 404. `progress_series`
  (`:903`) and the list of assessments (`:969`) look up reviews in the same way. `get_feedback`
  during a republication answers 404, or without the files. A rename while a list is paged may drop
  or repeat that student's rows. `ShownHeld` and `PagesShowEachOnce` are stated so that they allow
  what changed during the request, and no more.

## 6. Not modelled

* *Overlapping requests on workspaces*: two professors who leave or are demoted at once, a workspace
  archived while it is joined. `Workspaces` runs one request after another; the checks of
  `identity/service.py` read and write without a lock, so a model of overlaps would show the same
  kind of loss as in `Access`.
* *The rest of a report*: the timing status of a submission, titles, the editing of a description, a
  professor's approval of a baseline by hand, and the indexing of report text.
* *Correction* of an assessment, which records a version and approves it in one transaction, and the
  overrides of single ratings.
* *Data without a protocol*: prompts, citation validation, weekly metrics, which characters an
  extractor yields, chunking and ranking, redaction, prices, wording, time zones beyond an offset.
* *Mails of invitations and resets*, written by the same `notify`; the health of the mail queue.
* *Protocol details of OAuth*: PKCE, redirect URIs, registration of clients.
* *Infrastructure*: rate limits, routing and problem documents, rendering in the front end, seed
  data, command line wiring, heartbeat and retention of the queue, observability, backup and
  deployment. What the queue library and PostgreSQL do is modelled as the code uses it.

## 7. What could come next

1. `Workspaces` with the reads and the commit of each request as steps of their own.
2. A second attachment and the indexing of report text, for the order of forgetting and reindexing.
3. The weekly metrics against a reference definition.
