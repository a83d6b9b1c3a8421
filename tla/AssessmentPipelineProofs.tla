---------------------- MODULE AssessmentPipelineProofs ----------------------
(* Theorems about AssessmentPipeline, for every value of its constants. *)
EXTENDS ObservedReview, TLAPS

\* What keeps the attempts of a job within their bound: a queued version was
\* submitted and has an attempt left, and a job's run is about such a version.
JobsInBounds ==
    /\ \A v \in queue : v <= submitted /\ attempts[v] < MaxAttempts
    /\ \A v \in Reports : v > submitted => attempts[v] = 0
    /\ \A r \in Workers : run[r].pc # "idle" => run[r].report \in 1 .. submitted

\* What a review transaction has written so far is consistent with itself.
RequestsInOrder ==
    \A p \in Reviewers :
        /\ req[p].pc # "idle" => req[p].target \in 1 .. last /\ req[p].op # "none"
        /\ req[p].retired \subseteq 1 .. last
        /\ req[p].pc \notin {"looked", "retired"} => req[p].retired = {}
        /\ req[p].pc \in {"looked", "retired"} => req[p].op = "approve"
        /\ req[p].target \notin req[p].retired

\* The versions are numbered without a gap.
RowsInOrder == \A n \in Versions : n > last => review[n] = "absent"

Inv == TypeOK /\ JobsInBounds /\ RequestsInOrder /\ RowsInOrder

LEMMA InitInv == Init => Inv
  BY PipelineAssumption
  DEF Init, Inv, TypeOK, JobsInBounds, RequestsInOrder, RowsInOrder, Idle, Quiet, Reports, Versions,
      Runs, RunRecords, LogRecords, RequestRecords

LEMMA IdleRecord == Idle \in RunRecords
  BY PipelineAssumption DEF Idle, RunRecords

LEMMA SubmitInv ==
  ASSUME Inv, NEW changed \in BOOLEAN, Submit(changed)
  PROVE  Inv'
<1> USE PipelineAssumption DEF Inv, Submit, reportVars, tableVars, runVars, Reports
<1>1. TypeOK'
  <2> USE DEF TypeOK
  <2>1. submitted' \in 0 .. MaxReports /\ submitted' \in Reports /\ submitted \in 0 .. MaxReports
    OBVIOUS
  <2>2. (IF changed THEN submitted + 1 ELSE changedIn[submitted]) \in 0 .. MaxReports
    BY <2>1
  <2>3. changedIn' \in [Reports -> 0 .. MaxReports]
    BY <2>1, <2>2
  <2>4. queue' \subseteq Reports
    BY <2>1
  <2> QED BY <2>1, <2>3, <2>4
<1>2. JobsInBounds'
  BY DEF JobsInBounds, TypeOK, Runs
<1>3. RequestsInOrder'
  BY DEF RequestsInOrder, Versions
<1>4. RowsInOrder'
  BY DEF RowsInOrder
<1> QED BY <1>1, <1>2, <1>3, <1>4

LEMMA RunStepInv ==
  ASSUME Inv, NEW r \in Runs, RunStep(r)
  PROVE  Inv'
<1> USE PipelineAssumption DEF Inv, reportVars, jobVars, tableVars, runVars, Reports, Runs
<1>0. RequestsInOrder' /\ RowsInOrder'
  <2>1. (last' = last /\ review' = review /\ req' = req) \/ Record(r)
    BY DEF RunStep, StartJob, StartRetry, Stall, Number, Abort, Kill
  <2>2. CASE Record(r)
    <3>1. RequestsInOrder'
      BY <2>2 DEF Record, RequestsInOrder, TypeOK
    <3>2. RowsInOrder'
      BY <2>2 DEF Record, RowsInOrder, TypeOK, Versions
    <3> QED BY <3>1, <3>2
  <2>3. CASE last' = last /\ review' = review /\ req' = req
    BY <2>3 DEF RequestsInOrder, RowsInOrder
  <2> QED BY <2>1, <2>2, <2>3
<1>1. ASSUME NEW v \in Reports, StartJob(r, v) PROVE Inv'
  <2>1. TypeOK'
    <3>1. [pc |-> "analysing", report |-> v, started |-> clock + 1, no |-> 0] \in RunRecords
      BY DEF TypeOK, RunRecords
    <3>2. run' \in [Runs -> RunRecords]
      BY <1>1, <3>1 DEF StartJob, Begin, TypeOK
    <3>3. attempts' \in [Reports -> 0 .. MaxAttempts]
      BY <1>1 DEF StartJob, TypeOK, JobsInBounds
    <3>4. clock' \in Nat
      BY <1>1 DEF StartJob, Begin, TypeOK
    <3> QED BY <1>1, <3>2, <3>3, <3>4 DEF StartJob, TypeOK
  <2>2. JobsInBounds'
    BY <1>1 DEF StartJob, Begin, TypeOK, JobsInBounds
  <2> QED BY <1>0, <2>1, <2>2
<1>2. CASE StartRetry(r)
  <2>1. TypeOK'
    <3>1. [pc |-> "analysing", report |-> submitted, started |-> clock + 1, no |-> 0]
            \in RunRecords
      BY DEF TypeOK, RunRecords
    <3>2. run' \in [Runs -> RunRecords]
      BY <1>2, <3>1 DEF StartRetry, Begin, TypeOK
    <3> QED BY <1>2, <3>2 DEF StartRetry, Begin, TypeOK
  <2>2. JobsInBounds'
    BY <1>2 DEF StartRetry, Begin, TypeOK, JobsInBounds
  <2> QED BY <1>0, <2>1, <2>2
<1>3. CASE Stall(r)
  <2>1. TypeOK'
    <3>1. [started |-> run[r].started, report |-> run[r].report, outcome |-> "stalled"]
            \in LogRecords
      BY DEF TypeOK, RunRecords, LogRecords, Outcomes
    <3> QED BY <1>3, <3>1, IdleRecord DEF Stall, TypeOK
  <2>2. JobsInBounds'
    BY <1>3 DEF Stall, TypeOK, JobsInBounds, Idle
  <2> QED BY <1>0, <2>1, <2>2
<1>4. CASE Number(r)
  <2>1. TypeOK'
    <3>1. [run[r] EXCEPT !.pc = "numbered", !.no = last + 1] \in RunRecords
      <4>1. run[r] \in RunRecords /\ last + 1 \in 0 .. MaxVersions
        BY <1>4 DEF Number, NextVersionNo, TypeOK
      <4> QED BY <4>1 DEF RunRecords
    <3> QED BY <1>4, <3>1 DEF Number, NextVersionNo, TypeOK
  <2>2. JobsInBounds'
    BY <1>4 DEF Number, NextVersionNo, TypeOK, JobsInBounds
  <2> QED BY <1>0, <2>1, <2>2
<1>5. CASE Record(r)
  <2>1. TypeOK'
    <3>1. [started |-> run[r].started, report |-> run[r].report, outcome |-> "completed"]
            \in LogRecords
      BY DEF TypeOK, RunRecords, LogRecords, Outcomes
    <3>2. run[r].report \in 0 .. MaxReports /\ run[r].no \in 0 .. MaxVersions
      BY DEF TypeOK, RunRecords
    <3>3. /\ run' \in [Runs -> RunRecords] /\ log' \subseteq LogRecords
          /\ last' \in 0 .. MaxVersions /\ about' \in [Versions -> 0 .. MaxReports]
      BY <1>5, <3>1, <3>2, IdleRecord DEF Record, TypeOK
    <3>4. review' \in [Versions -> ReviewStates \cup {"absent"}]
      BY <1>5 DEF Record, TypeOK, ReviewStates
    <3> QED BY <1>5, <3>3, <3>4 DEF Record, TypeOK
  <2>2. JobsInBounds'
    BY <1>5 DEF Record, TypeOK, JobsInBounds, Idle
  <2> QED BY <1>0, <2>1, <2>2
<1>6. CASE Abort(r)
  <2>1. TypeOK'
    <3>1. run' \in [Runs -> RunRecords]
      BY <1>6, IdleRecord DEF Abort, TypeOK
    <3>2. queue' \subseteq Reports
      <4>1. r \in Workers => run[r].report \in 1 .. MaxReports
        BY <1>6 DEF Abort, TypeOK, JobsInBounds
      <4> QED BY <1>6, <4>1 DEF Abort, TypeOK
    <3> QED BY <1>6, <3>1, <3>2 DEF Abort, TypeOK
  <2>2. JobsInBounds'
    BY <1>6 DEF Abort, TypeOK, JobsInBounds, Idle
  <2> QED BY <1>0, <2>1, <2>2
<1>7. CASE Kill(r)
  <2>1. TypeOK'
    BY <1>7, IdleRecord DEF Kill, TypeOK
  <2>2. JobsInBounds'
    BY <1>7 DEF Kill, TypeOK, JobsInBounds, Idle
  <2> QED BY <1>0, <2>1, <2>2
<1> QED BY <1>1, <1>2, <1>3, <1>4, <1>5, <1>6, <1>7 DEF RunStep

LEMMA ReviewStepInv ==
  ASSUME Inv, NEW p \in Reviewers, ReviewStep(p)
  PROVE  Inv'
<1> USE PipelineAssumption DEF Inv, reportVars, jobVars, tableVars, runVars
<1>a. RowsInOrder'
  <2>1. CASE Commit(p)
    BY <2>1 DEF Commit, RowsInOrder, RequestsInOrder, Versions, TypeOK
  <2>2. CASE ~Commit(p)
    BY <2>2 DEF RowsInOrder, ReviewStep, ApproveLoad, WithdrawLoad, Write, Look, Retire, Rollback,
                Versions
  <2> QED BY <2>1, <2>2
<1>0. JobsInBounds' /\ RowsInOrder'
  BY <1>a DEF JobsInBounds, ReviewStep, ApproveLoad, WithdrawLoad, Write, Look, Retire, Commit, Rollback
<1>1. ASSUME NEW n \in Versions, ApproveLoad(p, n) \/ WithdrawLoad(p, n) PROVE Inv'
  <2>1. TypeOK'
    <3>1. \A op \in {"approve", "withdraw"} :
            [pc |-> "loaded", op |-> op, target |-> n, retired |-> {}] \in RequestRecords
      BY DEF RequestRecords, Versions
    <3>2. req' \in [Reviewers -> RequestRecords]
      BY <1>1, <3>1 DEF ApproveLoad, WithdrawLoad, TypeOK
    <3> QED BY <1>1, <3>2 DEF ApproveLoad, WithdrawLoad, TypeOK
  <2>2. RequestsInOrder'
    <3>1. n \in 1 .. last
      BY <1>1 DEF ApproveLoad, WithdrawLoad, TypeOK, Versions
    <3>2. PICK op \in {"approve", "withdraw"} :
            req' = [req EXCEPT ![p] = [pc |-> "loaded", op |-> op, target |-> n, retired |-> {}]]
      BY <1>1 DEF ApproveLoad, WithdrawLoad
    <3>3. last' = last
      BY <1>1 DEF ApproveLoad, WithdrawLoad
    <3> QED BY <3>1, <3>2, <3>3 DEF TypeOK, RequestsInOrder
  <2> QED BY <1>0, <2>1, <2>2
<1>2. CASE Write(p)
  BY <1>0, <1>2 DEF Write, TypeOK, RequestRecords, RequestsInOrder
<1>3. CASE Look(p)
  <2>1. TypeOK'
    BY <1>3 DEF Look, TypeOK, RequestRecords
  <2>2. RequestsInOrder'
    <3>1. {m \in Versions \ {req[p].target} : review[m] = "approved"} \subseteq 1 .. last
      BY DEF TypeOK, RowsInOrder, Versions
    <3> QED BY <1>3, <3>1 DEF Look, TypeOK, RequestRecords, RequestsInOrder
  <2> QED BY <1>0, <2>1, <2>2
<1>6. CASE Retire(p)
  BY <1>0, <1>6 DEF Retire, TypeOK, RequestRecords, RequestsInOrder
<1>4. CASE Commit(p)
  <2>1. TypeOK'
    <3>1. Quiet \in RequestRecords
      BY DEF Quiet, RequestRecords
    <3>2. req' \in [Reviewers -> RequestRecords]
      BY <1>4, <3>1 DEF Commit, TypeOK
    <3>3. review' \in [Versions -> ReviewStates \cup {"absent"}]
      BY <1>4 DEF Commit, TypeOK, ReviewStates
    <3>4. req[p].target \in Versions
      BY <1>4 DEF Commit, TypeOK, RequestsInOrder, Versions
    <3>5. approvals' \subseteq Versions
      BY <1>4, <3>4 DEF Commit, TypeOK
    <3> QED BY <1>4, <3>2, <3>3, <3>5 DEF Commit, TypeOK
  <2>2. RequestsInOrder'
    BY <1>4 DEF Commit, TypeOK, Quiet, RequestsInOrder, Versions
  <2> QED BY <1>0, <2>1, <2>2
<1>5. CASE Rollback(p)
  BY <1>0, <1>5 DEF Rollback, TypeOK, RequestRecords, Quiet, RequestsInOrder, Versions
<1> QED BY <1>1, <1>2, <1>3, <1>4, <1>5, <1>6 DEF ReviewStep

LEMMA StutterInv == Inv /\ UNCHANGED vars => Inv'
  BY DEF Inv, vars, reportVars, jobVars, tableVars, runVars, TypeOK, JobsInBounds, RequestsInOrder,
         RowsInOrder

LEMMA InvStep == Inv /\ [Next]_vars => Inv'
  BY SubmitInv, RunStepInv, ReviewStepInv, StutterInv DEF Next

LEMMA Invariance == Spec => []Inv
  BY InitInv, InvStep, PTL DEF Spec

\* The tables, the queue and the transactions keep their types; the part that
\* is not plain is that a job never takes more attempts than it was given.
THEOREM TypeCorrect == Spec => []TypeOK
<1>1. Inv => TypeOK
  BY DEF Inv
<1> QED BY Invariance, <1>1, PTL
\* A draft in the review queue is the newest reading, whatever runs overlap.
THEOREM DraftNewest == Spec => []DraftIsNewest
<1>1. Init => DraftIsNewest
  BY DEF Init, DraftIsNewest
<1>2. ASSUME Inv, DraftIsNewest, [Next]_vars PROVE DraftIsNewest'
  <2> USE DEF DraftIsNewest, reportVars, jobVars, tableVars, runVars
  <2>1. CASE \E r \in Runs : Record(r)
    BY <1>2, <2>1 DEF Record, Inv, TypeOK
  <2>2. CASE \E p \in Reviewers : Commit(p)
    BY <1>2, <2>2 DEF Commit, Inv, TypeOK
  <2>3. CASE UNCHANGED <<last, review>>
    BY <1>2, <2>3
  <2> QED BY <1>2, <2>1, <2>2, <2>3
    DEF Next, vars, Submit, RunStep, StartJob, StartRetry, Stall, Number, Abort, Kill,
        ReviewStep, ApproveLoad, WithdrawLoad, Write, Look, Retire, Rollback
<1> QED BY Invariance, <1>1, <1>2, PTL DEF Spec

\* What only Record and Commit do: no other step touches the review rows.
LEMMA ReviewRows ==
  ASSUME [Next]_vars
  PROVE  \/ \E r \in Runs : Record(r)
         \/ \E p \in Reviewers : Commit(p)
         \/ UNCHANGED review
  BY DEF Next, vars, Submit, RunStep, StartJob, StartRetry, Stall, Number, Abort, Kill,
        ReviewStep, ApproveLoad, WithdrawLoad, Write, Look, Retire, Rollback,
        reportVars, jobVars, tableVars, runVars

\* A published reading is lost to a withdrawal or beside one that stands, with
\* any number of reviews at once.
THEOREM PublishedStands == Spec => StandsUntilReplaced
<1>1. ASSUME Inv, [Next]_vars, NEW n \in Versions, review[n] = "approved", review'[n] # "approved"
      PROVE  review'[n] = "withdrawn" \/ \E m \in Versions \ {n} : review'[m] = "approved"
  <2>1. ASSUME NEW r \in Runs, Record(r) PROVE FALSE
    BY <1>1, <2>1 DEF Record, Inv, TypeOK, RowsInOrder
  <2>2. ASSUME NEW p \in Reviewers, Commit(p)
        PROVE  review'[n] = "withdrawn" \/ \E m \in Versions \ {n} : review'[m] = "approved"
    <3>1. req[p].target \in Versions
      <4>1. req[p].pc # "idle"
        BY <2>2 DEF Commit
      <4> QED BY <1>1, <2>2, <4>1, PipelineAssumption DEF Inv, TypeOK, RequestsInOrder, Versions
    <3>2. CASE n = req[p].target
      BY <1>1, <2>2, <3>1, <3>2 DEF Commit
    <3>3. CASE n \in req[p].retired /\ n # req[p].target
      <4>1. req[p].op = "approve"
        BY <1>1, <2>2, <3>3 DEF Inv, RequestsInOrder, Commit
      <4> QED BY <1>1, <2>2, <3>1, <3>3, <4>1 DEF Commit
    <3> QED BY <1>1, <2>2, <3>2, <3>3 DEF Commit, Inv, TypeOK
  <2> QED BY <1>1, <2>1, <2>2, ReviewRows
<1>2. Inv /\ [Next]_vars =>
        [\A n \in Versions : review[n] = "approved" /\ review'[n] # "approved" =>
            \/ review'[n] = "withdrawn"
            \/ \E m \in Versions \ {n} : review'[m] = "approved"]_vars
  BY <1>1
<1> QED BY Invariance, <1>2, PTL DEF Spec, StandsUntilReplaced

-----------------------------------------------------------------------------
(* One draft of each version of the report. *)

Drafts(r, v) == run[r].pc # "idle" /\ run[r].report = v

\* A job is queued, at work or done: while no retry request is made, the
\* queueing lock and the slot that runs the job hand a version to each other,
\* and neither has it once its assessment is recorded.
OneHolder ==
    /\ \A r \in Retries : run[r].pc = "idle"
    /\ \A r \in Workers, v \in queue : ~Drafts(r, v)
    /\ \A r, x \in Workers, v \in Reports : Drafts(r, v) /\ Drafts(x, v) => r = x
    /\ \A n \in Versions : about[n] # 0 =>
          /\ about[n] <= submitted /\ about[n] \notin queue
          /\ \A r \in Workers : ~Drafts(r, about[n])

DraftedByHolder == retried = 0 => OneHolder /\ DraftedOnce

LEMMA SubmitDrafts ==
  ASSUME Inv, DraftedByHolder, NEW changed \in BOOLEAN, Submit(changed)
  PROVE  DraftedByHolder'
<1> USE DEF reportVars, tableVars, runVars
<1> SUFFICES ASSUME retried = 0 PROVE OneHolder' /\ DraftedOnce'
  BY DEF DraftedByHolder, Submit
<1>1. OneHolder /\ DraftedOnce /\ submitted \in Nat
  BY PipelineAssumption DEF DraftedByHolder, Inv, TypeOK
<1>2. /\ UNCHANGED <<run, about, retried>> /\ submitted' = submitted + 1
      /\ queue' \subseteq queue \cup {submitted + 1}
  BY DEF Submit
<1>3. \A r \in Workers : run[r].pc # "idle" => run[r].report \in 1 .. submitted
  BY DEF Inv, JobsInBounds
<1>4. \A n \in Versions : about[n] \in Nat
  BY PipelineAssumption DEF Inv, TypeOK
<1>5. OneHolder'
  BY <1>1, <1>2, <1>3, <1>4 DEF OneHolder, Drafts, Versions, Reports
<1> QED BY <1>1, <1>2, <1>5 DEF DraftedOnce, Versions

LEMMA RunDrafts ==
  ASSUME Inv, DraftedByHolder, NEW r \in Runs, RunStep(r)
  PROVE  DraftedByHolder'
<1> USE PipelineAssumption DEF reportVars, jobVars, tableVars, runVars
<1> SUFFICES ASSUME retried' = 0 PROVE OneHolder' /\ DraftedOnce'
  BY DEF DraftedByHolder
<1>0. run \in [Runs -> RunRecords] /\ about \in [Versions -> 0 .. MaxReports] /\ retried \in Nat
  BY DEF Inv, TypeOK
<1>1. retried = 0 /\ ~StartRetry(r)
  BY <1>0 DEF RunStep, StartRetry, StartJob, Stall, Number, Record, Abort, Kill
<1>2. OneHolder /\ DraftedOnce
  BY <1>1 DEF DraftedByHolder
<1>3. run[r].pc # "idle" =>
        r \in Workers /\ run[r].report \in 1 .. submitted /\ run[r].report \in Reports
  BY <1>0, <1>2 DEF OneHolder, Runs, Inv, JobsInBounds, RunRecords, Reports, TypeOK
<1>4. ASSUME NEW v \in Reports, StartJob(r, v) PROVE OneHolder' /\ DraftedOnce'
  <2>1. /\ r \in Workers /\ v \in queue /\ queue' = queue \ {v} /\ UNCHANGED <<about, submitted>>
        /\ \A x \in Runs \ {r} : run'[x] = run[x]
        /\ Drafts(r, v)' \/ run'[r] = run[r]
    BY <1>0, <1>4 DEF StartJob, Begin, Drafts
  <2>2. \A x \in Runs, u \in Reports : Drafts(x, u)' => Drafts(x, u) \/ (x = r /\ u = v)
    BY <2>1 DEF Drafts
  <2>3. \A x \in Retries : run'[x].pc = "idle"
    BY <1>2, <2>1 DEF OneHolder, Runs
  <2>4. \A n \in Versions : about[n] # 0 => about[n] \in Reports
    BY <1>0 DEF Reports
  <2>5. OneHolder'
    <3>1. \A x \in Workers, u \in queue' : ~Drafts(x, u)'
      BY <1>2, <2>1, <2>2 DEF OneHolder, Runs, Inv, TypeOK
    <3>2. \A x, y \in Workers, u \in Reports : Drafts(x, u)' /\ Drafts(y, u)' => x = y
      BY <1>2, <2>1, <2>2 DEF OneHolder, Runs
    <3>3. \A n \in Versions : about[n] # 0 => \A x \in Workers : ~Drafts(x, about[n])'
      BY <1>2, <2>1, <2>2, <2>4 DEF OneHolder, Runs
    <3>4. \A n \in Versions : about[n] # 0 => about[n] <= submitted' /\ about[n] \notin queue'
      BY <1>2, <2>1 DEF OneHolder
    <3> QED BY <2>1, <2>3, <3>1, <3>2, <3>3, <3>4 DEF OneHolder, Versions, Drafts
  <2> QED BY <1>1, <1>2, <2>1, <2>5 DEF DraftedOnce, Versions
\* The other steps only let go of what is at work.
<1>5. ASSUME \A x \in Runs, u \in Reports : Drafts(x, u)' => Drafts(x, u),
             \A x \in Runs : run[x].pc = "idle" => run'[x].pc = "idle",
             UNCHANGED <<about, submitted>>,
             \A u \in queue' \ queue : Drafts(r, u) /\ ~Drafts(r, u)' /\ r \in Workers,
             queue' \subseteq Reports
      PROVE  OneHolder' /\ DraftedOnce'
  <2>1. \A n \in Versions : about[n] # 0 => about[n] \in Reports
    BY <1>0 DEF Reports
  <2>2. \A x \in Workers, u \in queue' : ~Drafts(x, u)'
    BY <1>2, <1>5 DEF OneHolder, Runs
  <2>3. \A x, y \in Workers, u \in Reports : Drafts(x, u)' /\ Drafts(y, u)' => x = y
    BY <1>2, <1>5 DEF OneHolder, Runs
  <2>4. \A n \in Versions : about[n] # 0 =>
          /\ about[n] <= submitted' /\ about[n] \notin queue'
          /\ \A x \in Workers : ~Drafts(x, about[n])'
    BY <1>2, <1>5, <2>1 DEF OneHolder, Runs
  <2>5. \A x \in Retries : run'[x].pc = "idle"
    BY <1>2, <1>5 DEF OneHolder, Runs
  <2> QED BY <1>1, <1>2, <1>5, <2>2, <2>3, <2>4, <2>5 DEF OneHolder, DraftedOnce, Versions, Drafts
<1>6. CASE Stall(r) \/ Kill(r)
  <2>1. run' = [run EXCEPT ![r] = Idle] /\ UNCHANGED <<about, submitted, queue>>
    BY <1>6 DEF Stall, Kill
  <2> QED BY <1>0, <1>5, <2>1 DEF Drafts, Idle, Inv, TypeOK
<1>7. CASE Number(r)
  <2>1. /\ run' = [run EXCEPT ![r].pc = "numbered", ![r].no = NextVersionNo]
        /\ run[r].pc # "idle" /\ UNCHANGED <<about, submitted, queue>>
    BY <1>7 DEF Number
  <2>2. \A x \in Runs : run'[x].report = run[x].report /\ (run'[x].pc = "idle" <=> run[x].pc = "idle")
    BY <1>0, <2>1 DEF RunRecords
  <2> QED BY <1>5, <2>1, <2>2 DEF Drafts, Inv, TypeOK
<1>8. CASE Record(r)
  <2>1. /\ run' = [run EXCEPT ![r] = Idle] /\ run[r].pc # "idle" /\ UNCHANGED <<submitted, queue>>
        /\ about' = [about EXCEPT ![run[r].no] = run[r].report]
    BY <1>8 DEF Record
  <2>2. r \in Workers /\ run[r].report \in 1 .. submitted /\ submitted \in Nat
    BY <1>3, <2>1 DEF Inv, TypeOK
  <2>3. \A x \in Runs, u \in Reports : Drafts(x, u)' <=> Drafts(x, u) /\ x # r
    BY <1>0, <2>1 DEF Drafts, Idle
  <2>4. \A n \in Versions : about'[n] = about[n] \/ (n = run[r].no /\ about'[n] = run[r].report)
    BY <1>0, <2>1
  <2>5. Drafts(r, run[r].report) /\ run[r].report \in Reports
    BY <1>3, <2>1 DEF Drafts
  <2>6. \A n \in Versions : about'[n] # 0 => about'[n] \in Reports
    BY <1>0, <2>4, <2>5 DEF Reports
  <2>7. OneHolder'
    <3>1. \A x \in Retries : run'[x].pc = "idle"
      BY <1>0, <1>2, <2>1, <2>2 DEF OneHolder, Runs, Idle
    <3>2. \A x \in Workers, u \in queue' : ~Drafts(x, u)'
      BY <1>2, <2>1, <2>3 DEF OneHolder, Runs, Inv, TypeOK
    <3>3. \A x, y \in Workers, u \in Reports : Drafts(x, u)' /\ Drafts(y, u)' => x = y
      BY <1>2, <2>3 DEF OneHolder, Runs
    <3>4. ASSUME NEW n \in Versions, NEW v \in Reports, about'[n] = v
          PROVE  v <= submitted' /\ v \notin queue' /\ \A x \in Workers : ~Drafts(x, v)'
      <4>1. CASE about[n] = v
        BY <1>2, <2>1, <2>3, <4>1 DEF OneHolder, Runs, Reports
      <4>2. CASE v = run[r].report
        BY <1>2, <2>1, <2>2, <2>3, <2>5, <4>2 DEF OneHolder, Runs, Inv, TypeOK
      <4> QED BY <2>4, <3>4, <4>1, <4>2
    <3> QED BY <2>6, <3>1, <3>2, <3>3, <3>4 DEF OneHolder, Versions, Drafts
  <2>8. DraftedOnce'
    BY <1>1, <1>2, <2>2, <2>4, <2>5 DEF OneHolder, DraftedOnce, Versions
  <2> QED BY <2>7, <2>8
<1>9. CASE Abort(r)
  <2>1. /\ run' = [run EXCEPT ![r] = Idle] /\ run[r].pc # "idle" /\ UNCHANGED <<submitted, about>>
        /\ queue' \subseteq queue \cup {run[r].report}
    BY <1>9 DEF Abort
  <2> QED BY <1>0, <1>3, <1>5, <2>1 DEF Drafts, Idle, Inv, TypeOK
<1> QED BY <1>1, <1>4, <1>6, <1>7, <1>8, <1>9 DEF RunStep

\* The jobs alone never draft one version of the report twice.  The queueing
\* lock is enough for that: the check at the head of run_pipeline is not used.
THEOREM JobsDraftOnce == Spec => []DraftedOnce
<1>1. Init => DraftedByHolder
  BY DEF Init, DraftedByHolder, OneHolder, Drafts, DraftedOnce, Runs, Idle
<1>2. Inv /\ DraftedByHolder /\ [Next]_vars => DraftedByHolder'
  <2> SUFFICES ASSUME Inv, DraftedByHolder, [Next]_vars PROVE DraftedByHolder'
    OBVIOUS
  <2>1. CASE \/ \E p \in Reviewers : ReviewStep(p)
             \/ UNCHANGED vars
    <3>1. UNCHANGED <<retried, run, queue, submitted, about>>
      BY <2>1 DEF ReviewStep, ApproveLoad, WithdrawLoad, Write, Look, Retire, Commit, Rollback, vars,
                  reportVars, jobVars, tableVars, runVars
    <3> QED BY <3>1 DEF DraftedByHolder, OneHolder, Drafts, DraftedOnce, Versions, Reports
  <2> QED BY <2>1, SubmitDrafts, RunDrafts DEF Next
<1>3. DraftedByHolder => DraftedOnce
  BY DEF DraftedByHolder, DraftedOnce
<1> QED BY Invariance, <1>1, <1>2, <1>3, PTL DEF Spec

-----------------------------------------------------------------------------
(* The review implements Publication until two approvals cross, for any      *)
(* number of reviewers.                                                      *)

\* A request that has looked for the publications it retires found them all.
RetiresAll ==
    \A p \in Reviewers : req[p].pc \in {"looked", "retired"} =>
        \A n \in Versions : review[n] = "approved" => n \in req[p].retired \cup {req[p].target}

\* What was published is in the audit trail, and what waits to be approved is
\* not; what is about to be withdrawn was published.
Audited ==
    /\ \A n \in Versions : review[n] = "approved" => n \in approvals
    /\ \A n \in Versions : review[n] \in {"draft", "absent"} => n \notin approvals
    /\ \A p \in Reviewers : req[p].pc # "idle" =>
          /\ req[p].op = "approve" => req[p].target \notin approvals
          /\ req[p].op = "withdraw" => req[p].target \in approvals

InTurn == AtMostOnePublished /\ RetiresAll /\ Audited

LEMMA StepFacts ==
  ASSUME Inv
  PROVE  /\ req \in [Reviewers -> RequestRecords]
         /\ review \in [Versions -> ReviewStates \cup {"absent"}]
         /\ approvals \subseteq Versions
         /\ \A p \in Reviewers :
               /\ req[p].retired \subseteq Versions /\ req[p].target \notin req[p].retired
               /\ req[p].pc # "idle" =>
                     req[p].target \in Versions /\ req[p].op \in {"approve", "withdraw"}
  BY PipelineAssumption DEF Inv, TypeOK, RequestsInOrder, RequestRecords, Versions

LEMMA RecordInTurn ==
  ASSUME Inv, InTurn, NEW r \in Runs, Record(r)
  PROVE  /\ InTurn' /\ UNCHANGED approvals
         /\ \A n \in Versions : review'[n] = "approved" <=> review[n] = "approved"
<1>1. /\ UNCHANGED <<req, approvals>>
      /\ \A n \in Versions :
            \/ review'[n] = review[n]
            \/ review'[n] = "draft" /\ n = last + 1
            \/ review[n] = "draft" /\ review'[n] = "superseded"
  BY DEF Record, Inv, TypeOK
<1>2. \A n \in Versions : n = last + 1 => review[n] = "absent"
  BY DEF Inv, TypeOK, RowsInOrder
<1>3. \A n \in Versions : review'[n] = "approved" <=> review[n] = "approved"
  BY <1>1, <1>2
<1>4. AtMostOnePublished' /\ RetiresAll'
  BY <1>1, <1>3 DEF InTurn, AtMostOnePublished, RetiresAll, Versions
<1>5. Audited'
  BY <1>1, <1>2, <1>3 DEF InTurn, Audited, Versions
<1> QED BY <1>1, <1>3, <1>4, <1>5 DEF InTurn

\* A commit publishes a reading or withdraws the published one, as Publication
\* has it, or it writes over what is no longer published.
LEMMA CommitInTurn ==
  ASSUME Inv, InTurn, NEW p \in Reviewers, Commit(p), ~Crosses(p)
  PROVE  InTurn' /\ [Publications!Next]_(Publications!vars)
<1> DEFINE target == req[p].target
<1>0. /\ req \in [Reviewers -> RequestRecords]
      /\ review \in [Versions -> ReviewStates \cup {"absent"}] /\ approvals \subseteq Versions
      /\ target \in Versions /\ req[p].retired \subseteq Versions /\ target \notin req[p].retired
      /\ req[p].op \in {"approve", "withdraw"}
  BY StepFacts DEF Commit
<1>1. req'[p].pc = "idle" /\ \A q \in Reviewers : q # p => req'[q] = req[q]
  BY <1>0 DEF Commit, Quiet
<1>2. CASE req[p].op = "approve"
  <2>1. /\ target \notin approvals /\ approvals' = approvals \cup {target}
        /\ \A n \in Versions : review[n] = "approved" => n \in req[p].retired \cup {target}
    BY <1>0, <1>2 DEF Commit, InTurn, Audited, RetiresAll
  <2>2. /\ review'[target] = "approved"
        /\ \A n \in Versions : n # target =>
              review'[n] = IF n \in req[p].retired THEN "superseded" ELSE review[n]
    BY <1>0, <1>2 DEF Commit
  <2>3. \A n \in Versions : review'[n] = "approved" <=> n = target
    BY <1>0, <2>1, <2>2
  <2>4. \A q \in Reviewers : q # p /\ req[q].pc # "idle" /\ req[q].op = "approve" =>
            req[q].target # target /\ req[q].pc \notin {"looked", "retired"}
    BY <1>2 DEF Crosses
  <2>5. RetiresAll'
    <3>1. \A q \in Reviewers : req'[q].pc \notin {"looked", "retired"}
      BY <1>1, <2>4 DEF Inv, RequestsInOrder
    <3> QED BY <3>1 DEF RetiresAll
  <2>6. Audited'
    <3>1. \A n \in Versions : review'[n] \in {"draft", "absent"} => n \notin approvals'
      BY <1>0, <2>1, <2>2 DEF InTurn, Audited
    <3>2. \A n \in Versions : review'[n] = "approved" => n \in approvals'
      BY <2>1, <2>3
    <3>3. \A q \in Reviewers : req'[q].pc # "idle" =>
            /\ req'[q].op = "approve" => req'[q].target \notin approvals'
            /\ req'[q].op = "withdraw" => req'[q].target \in approvals'
      BY <1>1, <2>1, <2>4 DEF InTurn, Audited
    <3> QED BY <3>1, <3>2, <3>3 DEF Audited, Versions
  <2>7. AtMostOnePublished'
    BY <2>3 DEF AtMostOnePublished, Versions
  <2>8. /\ Published' = {target} /\ Published \subseteq approvals
        /\ (approvals \ Published)' = (approvals \ Published) \cup Published
    <3>1. Published' = {target} /\ Published \subseteq approvals
      BY <1>0, <2>3 DEF Published, Versions, InTurn, Audited
    <3> QED BY <2>1, <3>1
  <2>9. Publications!Publish(target)
    BY <2>1, <2>8 DEF Publications!Publish
  <2> QED BY <1>0, <2>5, <2>6, <2>7, <2>9 DEF InTurn, Publications!Next
<1>3. CASE req[p].op = "withdraw"
  <2>1. target \in approvals /\ req[p].retired = {} /\ approvals' = approvals
    BY <1>0, <1>3 DEF Commit, InTurn, Audited, Inv, RequestsInOrder
  <2>2. /\ review'[target] = "withdrawn"
        /\ \A n \in Versions : n # target => review'[n] = review[n]
    BY <1>0, <1>3, <2>1 DEF Commit
  <2>3. RetiresAll'
    BY <1>1, <2>2 DEF InTurn, RetiresAll, Versions
  <2>4. Audited'
    <3>1. \A n \in Versions : review'[n] \in {"draft", "absent"} => n \notin approvals'
      BY <2>1, <2>2 DEF InTurn, Audited
    <3>2. \A n \in Versions : review'[n] = "approved" => n \in approvals'
      BY <2>1, <2>2 DEF InTurn, Audited
    <3>3. \A q \in Reviewers : req'[q].pc # "idle" =>
            /\ req'[q].op = "approve" => req'[q].target \notin approvals'
            /\ req'[q].op = "withdraw" => req'[q].target \in approvals'
      BY <1>1, <2>1 DEF InTurn, Audited
    <3> QED BY <3>1, <3>2, <3>3 DEF Audited, Versions
  <2>5. AtMostOnePublished'
    BY <2>2 DEF InTurn, AtMostOnePublished, Versions
  <2>6. CASE review[target] = "approved"
    <3>1. Published = {target} /\ Published' = {}
      BY <1>0, <2>2, <2>6 DEF Published, Versions, InTurn, AtMostOnePublished
    <3>2. (approvals \ Published)' = (approvals \ Published) \cup Published
      BY <2>1, <3>1
    <3> QED BY <2>3, <2>4, <2>5, <3>1, <3>2
      DEF InTurn, Publications!Next, Publications!Withdraw
  <2>7. CASE review[target] # "approved"
    <3>1. Published' = Published
      BY <1>0, <2>2, <2>7 DEF Published, Versions
    <3> QED BY <2>1, <2>3, <2>4, <2>5, <3>1 DEF InTurn, Publications!vars
  <2> QED BY <2>6, <2>7
<1> QED BY <1>0, <1>2, <1>3

\* The requests that have not committed show the student nothing.
LEMMA RequestInTurn ==
  ASSUME Inv, InTurn, NEW p \in Reviewers, ReviewStep(p), ~Commit(p)
  PROVE  InTurn' /\ UNCHANGED <<review, approvals>>
<1> USE DEF tableVars
<1>0. /\ req \in [Reviewers -> RequestRecords]
      /\ review \in [Versions -> ReviewStates \cup {"absent"}]
  BY StepFacts
<1>1. UNCHANGED <<review, approvals>>
  BY DEF ReviewStep, ApproveLoad, WithdrawLoad, Write, Look, Retire, Rollback
<1>2. AtMostOnePublished'
  BY <1>1 DEF InTurn, AtMostOnePublished, Versions
<1>3. ASSUME NEW n \in Versions, ApproveLoad(p, n) \/ WithdrawLoad(p, n)
      PROVE  RetiresAll' /\ Audited'
  BY <1>0, <1>1, <1>3 DEF ApproveLoad, WithdrawLoad, InTurn, RetiresAll, Audited, Versions
<1>4. ASSUME NEW new, req' = [req EXCEPT ![p] = new],
             new.pc = "idle" \/ (new.op = req[p].op /\ new.target = req[p].target),
             new.pc # "idle" => req[p].pc # "idle",
             new.pc \in {"looked", "retired"} => \A n \in Versions :
                review[n] = "approved" => n \in new.retired \cup {new.target}
      PROVE  RetiresAll' /\ Audited'
  <2>1. req'[p] = new /\ \A q \in Reviewers : q # p => req'[q] = req[q]
    BY <1>0, <1>4
  <2>2. RetiresAll'
    BY <1>1, <1>4, <2>1 DEF InTurn, RetiresAll, Versions
  <2>3. Audited'
    BY <1>1, <1>4, <2>1 DEF InTurn, Audited, Versions
  <2> QED BY <2>2, <2>3
<1>5. CASE Write(p)
  <2>0. PICK new : new = [req[p] EXCEPT !.pc = "written"]
    OBVIOUS
  <2>1. new.op = req[p].op /\ new.target = req[p].target /\ new.pc = "written"
    BY <1>0, <2>0 DEF RequestRecords
  <2>2. req' = [req EXCEPT ![p] = new] /\ req[p].pc # "idle"
    BY <1>5, <2>0 DEF Write
  <2> QED BY <1>1, <1>2, <1>4, <2>1, <2>2 DEF InTurn
<1>6. CASE Rollback(p)
  <2>1. PICK new : new = Quiet
    OBVIOUS
  <2>2. req' = [req EXCEPT ![p] = new] /\ new.pc = "idle"
    BY <1>6, <2>1 DEF Rollback, Quiet
  <2> QED BY <1>1, <1>2, <1>4, <2>2 DEF InTurn
<1>7. CASE Look(p)
  <2>0. PICK new : new = [req[p] EXCEPT !.pc = "looked",
                        !.retired = {m \in Versions \ {req[p].target} : review[m] = "approved"}]
    OBVIOUS
  <2>1. /\ new.op = req[p].op /\ new.target = req[p].target /\ new.pc = "looked"
        /\ new.retired = {m \in Versions \ {req[p].target} : review[m] = "approved"}
    BY <1>0, <2>0 DEF RequestRecords
  <2>2. req' = [req EXCEPT ![p] = new] /\ req[p].pc # "idle"
    BY <1>7, <2>0 DEF Look
  <2> QED BY <1>1, <1>2, <1>4, <2>1, <2>2 DEF InTurn
<1>8. CASE Retire(p)
  <2>0. PICK new : new = [req[p] EXCEPT !.pc = "retired",
                        !.retired = {m \in req[p].retired : review[m] = "approved"}]
    OBVIOUS
  <2>1. /\ new.op = req[p].op /\ new.target = req[p].target /\ new.pc = "retired"
        /\ new.retired = {m \in req[p].retired : review[m] = "approved"}
    BY <1>0, <2>0 DEF RequestRecords
  <2>2. req' = [req EXCEPT ![p] = new] /\ req[p].pc = "looked"
    BY <1>8, <2>0 DEF Retire
  <2>3. \A n \in Versions : review[n] = "approved" => n \in req[p].retired \cup {req[p].target}
    BY <2>2 DEF InTurn, RetiresAll
  <2> QED BY <1>1, <1>2, <1>4, <2>1, <2>2, <2>3 DEF InTurn
<1> QED BY <1>1, <1>2, <1>3, <1>5, <1>6, <1>7, <1>8 DEF ReviewStep, InTurn

LEMMA ObservedStep ==
  ASSUME Inv, crossed \/ InTurn, [ObservedNext]_observedVars
  PROVE  /\ crossed' \/ InTurn'
         /\ [crossed' \/ Publications!Next]_(Publications!vars)
<1>1. CASE crossed'
  BY <1>1
<1>2. ASSUME ~crossed' PROVE InTurn' /\ [Publications!Next]_(Publications!vars)
  <2>0. InTurn
    BY <1>2 DEF ObservedNext, observedVars
  <2>1. ASSUME UNCHANGED <<review, approvals>>
        PROVE  UNCHANGED Publications!vars
    BY <2>1 DEF Publications!vars, Published, Versions
  <2>2. ASSUME NEW r \in Runs, Record(r)
        PROVE  InTurn' /\ UNCHANGED Publications!vars
    <3>1. InTurn' /\ UNCHANGED approvals
      BY <2>0, <2>2, RecordInTurn
    <3>2. Published' = Published
      BY <2>0, <2>2, RecordInTurn DEF Published, Versions
    <3> QED BY <3>1, <3>2 DEF Publications!vars
  <2>3. ASSUME NEW p \in Reviewers, Commit(p), ObservedNext
        PROVE  InTurn' /\ [Publications!Next]_(Publications!vars)
    <3>1. ~Crosses(p)
      BY <1>2, <2>3 DEF ObservedNext
    <3> QED BY <2>0, <2>3, <3>1, CommitInTurn
  <2>4. ASSUME NEW p \in Reviewers, ReviewStep(p), ~Commit(p)
        PROVE  InTurn' /\ UNCHANGED Publications!vars
    BY <2>0, <2>1, <2>4, RequestInTurn
  <2>5. ASSUME UNCHANGED <<review, approvals, req>>
        PROVE  InTurn' /\ UNCHANGED Publications!vars
    BY <2>0, <2>1, <2>5 DEF InTurn, AtMostOnePublished, RetiresAll, Audited, Versions
  <2>6. ASSUME NEW r \in Runs, RunStep(r), ~Record(r) PROVE UNCHANGED <<review, approvals, req>>
    BY <2>6 DEF RunStep, StartJob, StartRetry, Stall, Number, Abort, Kill, tableVars
  <2>7. ASSUME NEW changed \in BOOLEAN, Submit(changed) PROVE UNCHANGED <<review, approvals, req>>
    BY <2>7 DEF Submit, tableVars
  <2>8. CASE ObservedNext
    BY <2>2, <2>3, <2>4, <2>5, <2>6, <2>7, <2>8 DEF ObservedNext, Next
  <2>9. CASE UNCHANGED observedVars
    BY <2>5, <2>9 DEF observedVars, vars, tableVars
  <2> QED BY <2>8, <2>9
<1> QED BY <1>1, <1>2

LEMMA ObservedInv == ObservedSpec => [](Inv /\ (crossed \/ InTurn))
<1>1. ObservedInit => Inv /\ (crossed \/ InTurn)
  BY InitInv DEF ObservedInit, Init, InTurn, Audited, AtMostOnePublished, RetiresAll, Quiet
<1>2. Inv /\ (crossed \/ InTurn) /\ [ObservedNext]_observedVars
        => Inv' /\ (crossed' \/ InTurn')
  BY InvStep, ObservedStep DEF ObservedNext, observedVars
<1> QED BY <1>1, <1>2, PTL DEF ObservedSpec

\* A week has one published assessment until two approvals cross, whatever
\* other requests, runs and retries overlap (retire_other_approved_reviews).
THEOREM OnePublished == ObservedSpec => []OneUntilCrossed
<1>1. Inv /\ (crossed \/ InTurn) => OneUntilCrossed
  BY DEF InTurn, OneUntilCrossed
<1> QED BY ObservedInv, <1>1, PTL

\* Until two approvals cross, any number of reviewers implement the abstract
\* publication: a student is shown one reading at a time, each over one
\* stretch of time, none ever again.
THEOREM ReviewIsPublication == ObservedSpec => ReviewImplementsPublication
<1>1. ObservedInit => Publications!Init
  BY DEF ObservedInit, Init, Publications!Init, Published
<1>2. Inv /\ (crossed \/ InTurn) /\ [ObservedNext]_observedVars
        => [crossed' \/ Publications!Next]_(Publications!vars)
  BY ObservedStep
<1> QED BY ObservedInv, <1>1, <1>2, PTL DEF ObservedSpec, ReviewImplementsPublication

=============================================================================
