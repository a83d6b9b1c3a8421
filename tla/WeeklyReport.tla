----------------------------- MODULE WeeklyReport -----------------------------
(***************************************************************************)
(* One student's report for one week (reporting/service.py): the student   *)
(* submits and resubmits the package of project entries, the professor     *)
(* requests revisions and marks the report reviewed, obligations are       *)
(* excused and memberships end meanwhile, and each submission leaves       *)
(* assessment jobs to be sent after its commit (core/jobs.py, core/db.py). *)
(*                                                                         *)
(* A request is a database transaction at READ COMMITTED, in the steps     *)
(* where another can come between: what it reads, the flush that takes the *)
(* report's row lock, the commit, and the sending of its deferred jobs.    *)
(* The report row is an ORM object: an UPDATE names only the columns whose *)
(* value differs from the one that was loaded.                             *)
(***************************************************************************)
EXTENDS Integers, FiniteSets

CONSTANTS
    Submitters,     \* concurrent submit requests of the student (tabs)
    Professors,     \* concurrent revision or review requests
    Projects,       \* projects the week has an obligation for
    Contents,       \* what an entry may say, as its content_hash tells it apart
    Keys,           \* idempotency keys
    Blank,          \* no entry; not in Contents
    MaxVersions,    \* bound: versions of the report
    MaxRequests,    \* bound: revision requests
    MaxLost         \* bound: flushes that lose a job

ASSUME ReportAssumption ==
    /\ MaxVersions \in Nat \ {0} /\ MaxRequests \in Nat /\ MaxLost \in Nat
    /\ Blank \notin Contents

VARIABLES
    exists,      \* the weekly_reports row was committed
    state,       \* weekly_reports.workflow_state
    current,     \* version_no of current_version_id; 0 for NULL
    first,       \* version whose submission set first_submitted_at; 0 for NULL
    count,       \* highest version_no in report_versions
    keyOf,       \* idempotency_key of each version
    entries,     \* content of each version's entry for each project
    changed,     \* content_changed_in_version_id of each entry
    obligation,  \* what the week owes for each project
    asked,       \* revision requests made so far
    open,        \* those not yet resolved in a version
    sub,         \* what each submit request has done so far
    rev,         \* what each professor's request has done so far
    jobs,        \* assessment jobs in the queue: <<version, project>>
    lost         \* how many flushes lost a job

reportVars  == <<exists, state, current, first>>
versionVars == <<count, keyOf, entries, changed>>
requestVars == <<asked, open>>
jobVars     == <<jobs, lost>>
vars == <<reportVars, versionVars, obligation, requestVars, sub, rev, jobVars>>

Versions == 1 .. MaxVersions
Requests == 1 .. MaxRequests
States   == {"draft", "submitted", "revision_requested", "resubmitted", "reviewed"}
Packages == UNION {[covered -> Contents \cup {Blank}] : covered \in SUBSET Projects}

\* Mutant of SaysSomething: the test is of the package, and one entry with text
\* lets the empty ones through.
SaysSomethingSomewhere(package) ==
    DOMAIN package # {} => \E p \in DOMAIN package : package[p] # Blank

\* An entry in which nothing was written is refused, whatever its siblings say.
SaysSomething(package) == \A p \in DOMAIN package : package[p] # Blank

NoPackage == [p \in {} |-> Blank]
NoSubmit  == [pc |-> "idle", base |-> 0, firstSeen |-> 0, saw |-> "draft", fresh |-> FALSE,
              key |-> "none", package |-> NoPackage, no |-> 0, resolving |-> {}]
NoReview  == [pc |-> "idle", to |-> "reviewed", saw |-> "draft"]

\* A request under way: the version (base), the first submission and the state
\* it read, or that it found no report; what it carries and what it has drawn.
Submits == [pc : {"idle", "opened", "numbered", "written", "committed"},
            base : 0 .. MaxVersions, firstSeen : 0 .. MaxVersions, saw : States, fresh : BOOLEAN,
            key : Keys \cup {"none"}, package : {g \in Packages : SaysSomething(g)},
            no : 0 .. MaxVersions, resolving : SUBSET Requests]
Reviews == [pc : {"idle", "loaded", "written"},
            to : {"revision_requested", "reviewed"}, saw : States]

TypeOK ==
    /\ exists \in BOOLEAN /\ state \in States
    /\ current \in 0 .. MaxVersions /\ first \in 0 .. MaxVersions
    /\ count \in 0 .. MaxVersions
    /\ keyOf \in [Versions -> Keys \cup {"none"}]
    /\ entries \in [Versions -> [Projects -> Contents \cup {Blank}]]
    /\ changed \in [Versions -> [Projects -> 0 .. MaxVersions]]
    /\ obligation \in [Projects -> {"required", "excused", "ended"}]
    /\ asked \in 0 .. MaxRequests /\ open \subseteq Requests
    /\ sub \in [Submitters -> Submits] /\ rev \in [Professors -> Reviews]
    /\ jobs \subseteq Versions \X Projects /\ lost \in 0 .. MaxLost

Init ==
    /\ exists = FALSE /\ state = "draft" /\ current = 0 /\ first = 0
    /\ count = 0 /\ keyOf = [v \in Versions |-> "none"]
    /\ entries = [v \in Versions |-> [p \in Projects |-> Blank]]
    /\ changed = [v \in Versions |-> [p \in Projects |-> 0]]
    /\ obligation = [p \in Projects |-> "required"]
    /\ asked = 0 /\ open = {}
    /\ sub = [s \in Submitters |-> NoSubmit]
    /\ rev = [q \in Professors |-> NoReview]
    /\ jobs = {} /\ lost = 0

-----------------------------------------------------------------------------
(* The week around the report. *)

\* save_draft creates the row on first use; draft_content never meets a version.
SaveDraft ==
    /\ ~exists
    /\ exists' = TRUE
    /\ UNCHANGED <<state, current, first, versionVars, obligation, requestVars, sub, rev, jobVars>>

\* excuse_obligation, whatever the obligation was.
Excuse(p) ==
    /\ obligation[p] = "required"
    /\ obligation' = [obligation EXCEPT ![p] = "excused"]
    /\ UNCHANGED <<reportVars, versionVars, requestVars, sub, rev, jobVars>>

\* The membership ended inside the week, or its project left ACTIVE: the
\* obligation's row stays and is no longer owed (memberships_still_owing).
EndMembership(p) ==
    /\ obligation[p] # "ended"
    /\ obligation' = [obligation EXCEPT ![p] = "ended"]
    /\ UNCHANGED <<reportVars, versionVars, requestVars, sub, rev, jobVars>>

-----------------------------------------------------------------------------
(* Submission. *)

\* REP-02: every required project has an entry, and no other project has one.
IsComplete(package) ==
    /\ {p \in Projects : obligation[p] = "required"} \subseteq DOMAIN package
    /\ \A p \in DOMAIN package : obligation[p] # "ended"

\* The reads of submit_report: the report (or its creation), the idempotency
\* key, the obligations, and the entries of the version current by then.
Open(s, key, package) ==
    /\ sub[s].pc = "idle"
    /\ key # "none" => \A v \in 1 .. count : keyOf[v] # key
    /\ IsComplete(package) /\ SaysSomething(package)
    /\ sub' = [sub EXCEPT ![s] =
                 [pc |-> "opened", base |-> current, firstSeen |-> first, saw |-> state,
                  fresh |-> ~exists, key |-> key, package |-> package, no |-> 0, resolving |-> {}]]
    /\ UNCHANGED <<reportVars, versionVars, obligation, requestVars, rev, jobVars>>

\* _next_version_no, read again from the table, and the version's insert.
Number(s) ==
    /\ sub[s].pc = "opened"
    /\ count < MaxVersions
    /\ sub' = [sub EXCEPT ![s].pc = "numbered", ![s].no = count + 1]
    /\ UNCHANGED <<reportVars, versionVars, obligation, requestVars, rev, jobVars>>

\* The row lock of weekly_reports: a request that wrote the row holds it.
Touches(q) == rev[q].saw # rev[q].to
RowLocked == \/ \E s \in Submitters : sub[s].pc = "written" /\ ~sub[s].fresh
             \/ \E q \in Professors : rev[q].pc = "written" /\ Touches(q)

\* Mutant of Write: the jobs are deferred inside the transaction.
WriteDefersInline(s) ==
    /\ sub[s].pc = "numbered"
    /\ sub[s].fresh \/ ~RowLocked
    /\ sub' = [sub EXCEPT ![s].pc = "written", ![s].resolving = open]
    /\ jobs' = jobs \cup {<<sub[s].no, p>> : p \in DOMAIN sub[s].package}
    /\ UNCHANGED <<reportVars, versionVars, obligation, requestVars, rev, lost>>

\* The flush of the report row, then _resolve_open_revision_requests over the
\* requests committed by now.
Write(s) ==
    /\ sub[s].pc = "numbered"
    /\ sub[s].fresh \/ ~RowLocked
    /\ sub' = [sub EXCEPT ![s].pc = "written", ![s].resolving = open]
    /\ UNCHANGED <<reportVars, versionVars, obligation, requestVars, rev, jobVars>>

\* Mutants of Accepted: no trigger on first_submitted_at, no unique key.
AcceptedTwiceFirst(s) ==
    /\ sub[s].fresh => ~exists
    /\ sub[s].no = count + 1
    /\ sub[s].key # "none" => \A v \in 1 .. count : keyOf[v] # sub[s].key
AcceptedAnyKey(s) ==
    /\ sub[s].fresh => ~exists
    /\ sub[s].no = count + 1
    /\ sub[s].firstSeen = 0 => first = 0

\* What the database refuses: a second report of the week, a version number or
\* an idempotency key that is taken, and a second first_submitted_at.
Accepted(s) ==
    /\ sub[s].fresh => ~exists
    /\ sub[s].no = count + 1
    /\ sub[s].key # "none" => \A v \in 1 .. count : keyOf[v] # sub[s].key
    /\ sub[s].firstSeen = 0 => first = 0

\* The version's entries: those of the package, and every earlier entry the
\* package does not cover (_carried_entry).
EntriesOf(s) == [p \in Projects |->
    IF p \in DOMAIN sub[s].package THEN sub[s].package[p]
    ELSE IF sub[s].base # 0 THEN entries[sub[s].base][p] ELSE Blank]

\* An entry nobody touched keeps pointing at the version it last changed in.
ChangedIn(s) == [p \in Projects |->
    IF sub[s].base # 0 /\ entries[sub[s].base][p] = EntriesOf(s)[p]
    THEN changed[sub[s].base][p]
    ELSE IF p \in DOMAIN sub[s].package THEN sub[s].no ELSE 0]

\* The state a submission leaves; the UPDATE names it only if it is not the one
\* that was read, so what a professor's request made of it meanwhile may stand.
HandedIn(s) == IF sub[s].base = 0 THEN "submitted" ELSE "resubmitted"

Commit(s) ==
    LET v == sub[s].no IN
    /\ sub[s].pc = "written"
    /\ Accepted(s)
    /\ exists' = TRUE
    /\ state' = IF sub[s].saw = HandedIn(s) THEN state ELSE HandedIn(s)
    /\ current' = v
    /\ first' = IF sub[s].firstSeen = 0 THEN v ELSE first
    /\ count' = v
    /\ keyOf' = [keyOf EXCEPT ![v] = sub[s].key]
    /\ entries' = [entries EXCEPT ![v] = EntriesOf(s)]
    /\ changed' = [changed EXCEPT ![v] = ChangedIn(s)]
    /\ open' = open \ sub[s].resolving
    /\ sub' = [sub EXCEPT ![s].pc = "committed"]
    /\ UNCHANGED <<obligation, asked, rev, jobVars>>

\* The request raises: a constraint, a deadlock, a lost connection.  Its
\* pending defers are discarded with it.
Abort(s) ==
    /\ sub[s].pc \in {"opened", "numbered", "written"}
    /\ sub' = [sub EXCEPT ![s] = NoSubmit]
    /\ UNCHANGED <<reportVars, versionVars, obligation, requestVars, rev, jobVars>>

\* Mutant of Flush: the subscriber stops at the first entry that changed.
FlushOne(s) ==
    LET v   == sub[s].no
        due == {<<v, p>> : p \in {p \in Projects : changed[v][p] = v}}
    IN
    /\ sub[s].pc = "committed"
    /\ IF due = {} THEN UNCHANGED jobs ELSE \E job \in due : jobs' = jobs \cup {job}
    /\ sub' = [sub EXCEPT ![s] = NoSubmit]
    /\ UNCHANGED <<reportVars, versionVars, obligation, requestVars, rev, lost>>

\* _on_report_submitted defers a job for each entry that changed in the version
\* and flush_deferred sends them once it is committed.  A send that fails is
\* dropped, and a process that dies here drops them all.
Flush(s) ==
    LET v   == sub[s].no
        due == {<<v, p>> : p \in {p \in Projects : changed[v][p] = v}}
    IN
    /\ sub[s].pc = "committed"
    /\ \/ jobs' = jobs \cup due /\ UNCHANGED lost
       \/ /\ lost < MaxLost /\ lost' = lost + 1
          /\ \E sent \in SUBSET due : sent # due /\ jobs' = jobs \cup sent
    /\ sub' = [sub EXCEPT ![s] = NoSubmit]
    /\ UNCHANGED <<reportVars, versionVars, obligation, requestVars, rev>>

-----------------------------------------------------------------------------
(* The professor. *)

\* get_report_by_id: request_revision needs a version, mark_reviewed does not.
Load(q, to) ==
    /\ rev[q].pc = "idle" /\ exists
    /\ to = "revision_requested" => current # 0 /\ asked < MaxRequests
    /\ rev' = [rev EXCEPT ![q] = [pc |-> "loaded", to |-> to, saw |-> state]]
    /\ UNCHANGED <<reportVars, versionVars, obligation, requestVars, sub, jobVars>>

\* The flush: the row is written, and locked, only if its state was another.
Mark(q) ==
    /\ rev[q].pc = "loaded"
    /\ Touches(q) => ~RowLocked
    /\ rev' = [rev EXCEPT ![q].pc = "written"]
    /\ UNCHANGED <<reportVars, versionVars, obligation, requestVars, sub, jobVars>>

Settle(q) ==
    /\ rev[q].pc = "written"
    /\ state' = IF Touches(q) THEN rev[q].to ELSE state
    /\ IF rev[q].to = "revision_requested"
       THEN asked < MaxRequests /\ asked' = asked + 1 /\ open' = open \cup {asked + 1}
       ELSE UNCHANGED <<asked, open>>
    /\ rev' = [rev EXCEPT ![q] = NoReview]
    /\ UNCHANGED <<exists, current, first, versionVars, obligation, sub, jobVars>>

Abandon(q) ==
    /\ rev[q].pc # "idle"
    /\ rev' = [rev EXCEPT ![q] = NoReview]
    /\ UNCHANGED <<reportVars, versionVars, obligation, requestVars, sub, jobVars>>

-----------------------------------------------------------------------------
SubmitStep(s) ==
    \/ \E key \in Keys \cup {"none"}, package \in Packages : Open(s, key, package)
    \/ Number(s) \/ Write(s) \/ Commit(s) \/ Abort(s) \/ Flush(s)

ReviewStep(q) ==
    \/ \E to \in {"revision_requested", "reviewed"} : Load(q, to)
    \/ Mark(q) \/ Settle(q) \/ Abandon(q)

Next ==
    \/ SaveDraft
    \/ \E p \in Projects : Excuse(p) \/ EndMembership(p)
    \/ \E s \in Submitters : SubmitStep(s)
    \/ \E q \in Professors : ReviewStep(q)

Spec == Init /\ [][Next]_vars

-----------------------------------------------------------------------------
(* Properties. *)

\* The first submission is version 1 and stays so, however submissions overlap
\* and fail: its time is what the deadline is judged by (AC-13).
FirstStands == count # 0 => first = 1

\* A double click creates one version: no two carry one idempotency key.
OneVersionPerKey ==
    \A u, v \in 1 .. count : keyOf[u] = keyOf[v] /\ keyOf[u] # "none" => u = v

\* The marker of a carried entry names the version its content last changed
\* in: the content was this one from there on and another one before (REP-05).
MarkerIsTrue ==
    \A v \in 1 .. count, p \in Projects : entries[v][p] # Blank =>
        LET w == changed[v][p] IN
        /\ w \in 1 .. v
        /\ \A u \in w .. v : entries[u][p] = entries[v][p]
        /\ w > 1 => entries[w - 1][p] # entries[v][p]

\* What was submitted stays on the record: a later version has an entry for
\* every project an earlier one had, whoever left it since (_carried_entry).
NothingDropped ==
    \A u, v \in 1 .. count : u < v =>
        \A p \in Projects : entries[u][p] # Blank => entries[v][p] # Blank

\* A job is in the queue only for a committed version whose entry changed in
\* it: a worker never dequeues a job for rows it cannot see (get_session).
JobsFollowCommit ==
    \A job \in jobs : job[1] <= count /\ changed[job[1]][job[2]] = job[1]

\* Version, entries and jobs persist together or not at all: a committed
\* version that is not still being flushed has its jobs.
EnqueuedWithVersion ==
    \A v \in 1 .. count, p \in Projects : changed[v][p] = v =>
        \/ <<v, p>> \in jobs
        \/ \E s \in Submitters : sub[s].pc = "committed" /\ sub[s].no = v

\* While no send has failed, every committed version has its jobs, also when
\* submissions overlap and one of them is refused.
SentWithVersion == lost = 0 => EnqueuedWithVersion

=============================================================================
