---------------------------- MODULE Attachments ----------------------------
(***************************************************************************)
(* One file a student attaches to a week (reporting/artifacts.py), the     *)
(* jobs that read its text (reporting/tasks.py) and index it               *)
(* (evidence/service.py, evidence/tasks.py), and its removal.              *)
(*                                                                         *)
(* Rows belong to transactions at READ COMMITTED.  Objects do not: what is *)
(* written to or deleted from the store stays so when the transaction is   *)
(* rolled back.  A call is therefore its reads, its dealings with the      *)
(* store, and its commit; a commit waits for the rows another has written. *)
(***************************************************************************)
EXTENDS Integers

CONSTANTS
    Calls,          \* requests of the student, and the browser between them
    Workers,        \* job slots of the worker
    Sums,           \* files the student may pick, as their SHA-256 tells them apart
    Readable,       \* the files with a text to index, and not a blank one
    Nothing,        \* no file; not in Sums
    MaxVersion,     \* bound: versions of the attachment
    MaxAttempts,    \* attempts of one job (core/jobs.py, RETRY_TRANSIENT: 5)
    MaxAsks,        \* bound: grants asked for
    MaxPuts,        \* bound: files sent to the store
    MaxSubmits,     \* bound: submissions of the week's report
    MaxLost         \* bound: jobs whose send fails

ASSUME AttachmentsAssumption ==
    /\ Readable \subseteq Sums /\ Nothing \notin Sums
    /\ MaxVersion \in Nat \ {0} /\ MaxAttempts \in Nat \ {0}
    /\ MaxAsks \in Nat /\ MaxPuts \in Nat /\ MaxSubmits \in Nat /\ MaxLost \in Nat

VARIABLES
    artifact,   \* the artifacts row: "new" before the first grant, "gone" after the removal
    current,    \* current_version_no
    version,    \* artifact_versions
    object,     \* what is stored under <<version_no, sha256>>
    urls,       \* the keys a URL was granted for
    texts,      \* the versions with an extracted.txt in the store
    refs,       \* the versions evidence_references name
    call,       \* what each call of the student has done so far
    extracts,   \* versions with an extract_artifact job queued
    indexes,    \* versions with an index_artifact_version job queued
    attempts,   \* how often the job of each kind and version was started
    job,        \* what each worker has done so far
    asks,       \* grants asked for
    puts,       \* files sent to the store
    submits,    \* submissions made
    lost,       \* jobs whose send failed
    crossed,    \* history: two requests about the upload were open at once
    late,       \* history: keys whose checked object was put again, as another file
    stripped,   \* history: a removal has deleted objects
    met         \* history: versions a worker held while a removal was open

rowVars   == <<artifact, current, version>>
storeVars == <<object, urls, texts>>
jobVars   == <<extracts, indexes, attempts, job, lost>>
history   == <<crossed, late, stripped, met>>
counts    == <<asks, puts, submits>>
vars == <<rowVars, storeVars, refs, call, jobVars, counts, history>>

Versions == 1 .. MaxVersion
Keys     == Versions \X Sums
Kinds    == {"extract", "index"}
NoRow    == [here |-> FALSE, uploaded |-> FALSE, sum |-> Nothing, state |-> "pending", text |-> FALSE]
Row(sum) == [NoRow EXCEPT !.here = TRUE, !.sum = sum]
NoCall   == [pc |-> "idle", no |-> 0, sum |-> Nothing, fresh |-> FALSE, keys |-> {}, forgot |-> {}]
NoJob    == [pc |-> "idle", no |-> 0]
Bytes    == {"whole", "other", "large"}    \* the file that was promised, another, one over the limit

Rows  == [here : BOOLEAN, uploaded : BOOLEAN, sum : Sums \cup {Nothing},
          state : {"pending", "ok", "failed", "unsupported"}, text : BOOLEAN]
CallRecords == [pc : {"idle", "asking", "oversized", "checked", "removing", "stripping"},
                no : 0 .. MaxVersion, sum : Sums \cup {Nothing}, fresh : BOOLEAN,
                keys : SUBSET (Versions \X (Sums \cup {Nothing})), forgot : SUBSET Versions]
JobRecords  == [pc : {"idle", "unread", "blank", "read", "written", "indexing"}, no : 0 .. MaxVersion]

TypeOK ==
    /\ artifact \in {"new", "here", "gone"} /\ current \in 0 .. MaxVersion
    /\ version \in [Versions -> Rows]
    /\ object \in [Keys -> {"none"} \cup Bytes] /\ urls \subseteq Keys /\ texts \subseteq Versions
    /\ refs \subseteq Versions
    /\ call \in [Calls -> CallRecords]
    /\ extracts \subseteq Versions /\ indexes \subseteq Versions
    /\ attempts \in [Kinds \X Versions -> Nat]
    /\ job \in [Workers -> JobRecords]
    /\ asks \in 0 .. MaxAsks /\ puts \in 0 .. MaxPuts /\ submits \in 0 .. MaxSubmits
    /\ lost \in 0 .. MaxLost
    /\ crossed \in BOOLEAN /\ late \subseteq Keys /\ stripped \in BOOLEAN /\ met \subseteq Versions

Init ==
    /\ artifact = "new" /\ current = 0 /\ version = [v \in Versions |-> NoRow]
    /\ object = [k \in Keys |-> "none"] /\ urls = {} /\ texts = {} /\ refs = {}
    /\ call = [c \in Calls |-> NoCall]
    /\ extracts = {} /\ indexes = {} /\ attempts = [k \in Kinds \X Versions |-> 0]
    /\ job = [w \in Workers |-> NoJob] /\ asks = 0 /\ puts = 0 /\ submits = 0
    /\ lost = 0 /\ crossed = FALSE /\ late = {} /\ stripped = FALSE /\ met = {}

Uploading(c) == call[c].pc \in {"asking", "oversized", "checked"}
Removing     == \E c \in Calls : call[c].pc \in {"removing", "stripping"}
Held         == {job[w].no : w \in {w \in Workers : job[w].pc # "idle"}}

-----------------------------------------------------------------------------
(* The upload. *)

\* _pending_version: the newest version that was not confirmed; 0 for none.
Pending ==
    LET waiting == {v \in Versions : version[v].here /\ ~version[v].uploaded}
    IN  IF waiting = {} THEN 0 ELSE CHOOSE v \in waiting : \A u \in waiting : u <= v

\* A request about the upload begins.
Begin(c, record) ==
    /\ call[c].pc = "idle"
    /\ call' = [call EXCEPT ![c] = record]
    /\ crossed' = (crossed \/ \E d \in Calls : Uploading(d))

\* request_upload up to its flush: the version after the current one, which a
\* pending row is pointed at again.  The object the row named is deleted now.
Ask(c, sum) ==
    LET no  == current + 1
        old == version[no].sum
    IN
    /\ artifact # "gone" /\ no <= MaxVersion /\ asks < MaxAsks /\ asks' = asks + 1
    /\ Begin(c, [NoCall EXCEPT !.pc = "asking", !.no = no, !.sum = sum, !.fresh = Pending # no])
    /\ object' = IF Pending = no /\ old # sum THEN [object EXCEPT ![<<no, old>>] = "none"]
                 ELSE object
    /\ UNCHANGED <<rowVars, urls, texts, refs, jobVars, puts, submits, late, stripped, met>>

\* Its commit, which hands out the URL: an INSERT that the unique version_no
\* may refuse, or an UPDATE of the columns that name the object.
Grant(c) ==
    LET no == call[c].no IN
    /\ call[c].pc = "asking" /\ artifact # "gone"
    /\ version[no].here = ~call[c].fresh
    /\ artifact' = "here"
    /\ version' = [version EXCEPT ![no] = IF call[c].fresh THEN Row(call[c].sum)
                                          ELSE [@ EXCEPT !.sum = call[c].sum]]
    /\ urls' = urls \cup {<<no, call[c].sum>>}
    /\ call' = [call EXCEPT ![c] = NoCall]
    /\ UNCHANGED <<current, object, texts, refs, jobVars, counts, history>>

\* A confirmed version, or a confirmation that has checked it, rests on this object.
Relied(k) ==
    \/ version[k[1]].uploaded /\ version[k[1]].sum = k[2]
    \/ \E c \in Calls : call[c].pc = "checked" /\ <<call[c].no, call[c].sum>> = k

\* The browser sends bytes to a URL it was granted: those of the file it hashed,
\* of one that has changed since, or of one over the limit.  For fifteen
\* minutes it may do so again, whatever has become of the version; after that
\* it just does not.
Put(k, bytes) ==
    /\ k \in urls /\ puts < MaxPuts /\ puts' = puts + 1
    /\ object' = [object EXCEPT ![k] = bytes]
    /\ late' = IF Relied(k) /\ bytes # "whole" THEN late \cup {k} ELSE late \ {k}
    /\ UNCHANGED <<rowVars, urls, texts, refs, call, jobVars, asks, submits, crossed, stripped, met>>

\* Mutant of Arrived: an object that is there will do.
ArrivedAnything(v) == object[<<v, version[v].sum>>] # "none"

\* What confirm_upload asks of the store: the object is there, within the
\* limit, and its checksum is the one the row declares.
Arrived(v) == object[<<v, version[v].sum>>] = "whole"

Confirming(pc) == [NoCall EXCEPT !.pc = pc, !.no = Pending, !.sum = version[Pending].sum]

\* confirm_upload up to its flush, which names the attachment and no version.
Check(c) ==
    /\ artifact = "here" /\ Pending # 0 /\ Arrived(Pending)
    /\ Begin(c, Confirming("checked"))
    /\ UNCHANGED <<rowVars, storeVars, refs, jobVars, counts, late, stripped, met>>

\* It has found an object over the limit ...
Oversized(c) ==
    /\ artifact = "here" /\ Pending # 0 /\ object[<<Pending, version[Pending].sum>>] = "large"
    /\ Begin(c, Confirming("oversized"))
    /\ UNCHANGED <<rowVars, storeVars, refs, jobVars, counts, late, stripped, met>>

\* ... and deletes what is there under that key by now, and refuses.
Discard(c) ==
    /\ call[c].pc = "oversized"
    /\ object' = [object EXCEPT ![<<call[c].no, call[c].sum>>] = "none"]
    /\ call' = [call EXCEPT ![c] = NoCall]
    /\ UNCHANGED <<rowVars, urls, texts, refs, jobVars, counts, history>>

\* The commit of a confirmation: uploaded, and the attachment's current version.
Confirm(c) ==
    LET no == call[c].no IN
    /\ call[c].pc = "checked" /\ version[no].here
    /\ version' = [version EXCEPT ![no].uploaded = TRUE]
    /\ current' = no
    /\ call' = [call EXCEPT ![c] = NoCall]
    /\ UNCHANGED <<artifact, storeVars, refs, jobVars, counts, history>>

-----------------------------------------------------------------------------
(* The removal. *)

\* Mutant of Forgotten: the current version's reference alone.
ForgottenCurrent == refs \cap {current}

\* forget_sources, over the references committed by now.
Forgotten == refs

\* remove_artifact up to the store: the versions, and their references deleted.
Remove(c) ==
    /\ call[c].pc = "idle" /\ artifact = "here"
    /\ \A d \in Calls : call[d].forgot = {}     \* the rows another removal deletes are its own
    /\ call' = [call EXCEPT ![c] =
                  [NoCall EXCEPT !.pc = "removing", !.forgot = Forgotten,
                     !.keys = {<<v, version[v].sum>> : v \in {v \in Versions : version[v].here}}]]
    /\ met' = met \cup Held
    /\ UNCHANGED <<rowVars, storeVars, refs, jobVars, counts, crossed, late, stripped>>

\* The objects, and the texts of the versions that were read.
Strip(c) ==
    /\ call[c].pc = "removing"
    /\ object' = [k \in Keys |-> IF k \in call[c].keys THEN "none" ELSE object[k]]
    /\ texts' = texts \ {v \in Versions : version[v].text}
    /\ stripped' = TRUE
    /\ call' = [call EXCEPT ![c].pc = "stripping"]
    /\ UNCHANGED <<rowVars, urls, refs, jobVars, counts, crossed, late, met>>

\* The attachment's row and, by cascade, its versions, whichever there are.
Delete(c) ==
    /\ call[c].pc = "stripping" /\ artifact = "here"
    /\ artifact' = "gone" /\ current' = 0
    /\ version' = [v \in Versions |-> NoRow]
    /\ refs' = refs \ call[c].forgot
    /\ call' = [call EXCEPT ![c] = NoCall]
    /\ UNCHANGED <<storeVars, jobVars, counts, history>>

\* The request is refused or fails, or the browser goes away.
Leave(c) ==
    /\ call[c].pc # "idle"
    /\ call' = [call EXCEPT ![c] = NoCall]
    /\ UNCHANGED <<rowVars, storeVars, refs, jobVars, counts, history>>

-----------------------------------------------------------------------------
(* The reading. *)

\* A deferred job, sent once its transaction is committed: its queueing lock
\* makes it one in the queue, and a send that fails is dropped.
Sent(before, after, due) ==
    \/ after = before \cup due /\ UNCHANGED lost
    \/ due # {} /\ lost < MaxLost /\ lost' = lost + 1 /\ after = before

\* read_attachments_for, in the submission of the week's report.
Submit ==
    LET due == {v \in Versions : version[v].uploaded /\ version[v].state = "pending"} IN
    /\ submits < MaxSubmits
    /\ submits' = submits + 1
    /\ Sent(extracts, extracts', due)
    /\ UNCHANGED <<rowVars, storeVars, refs, call, indexes, attempts, job, asks, puts, history>>

Take(w, kind, v, record) ==
    /\ job[w].pc = "idle"
    /\ attempts' = [attempts EXCEPT ![<<kind, v>>] = @ + 1]
    /\ job' = [job EXCEPT ![w] = record]
    /\ met' = IF Removing /\ record # NoJob THEN met \cup {v} ELSE met

\* What a job makes of the object it reads: the text of the promised file or,
\* of another, any outcome.
Reads(v) ==
    LET bytes == object[<<v, version[v].sum>>] IN
    IF bytes = "none" THEN {"unread"}
    ELSE IF bytes # "whole" THEN {"read", "blank"}
    ELSE IF version[v].sum \in Readable THEN {"read"} ELSE {"blank"}

\* extract_version reads the row and the object; without a row it is done.
TakeExtract(w, v) ==
    /\ v \in extracts /\ extracts' = extracts \ {v}
    /\ IF version[v].here THEN \E pc \in Reads(v) : Take(w, "extract", v, [pc |-> pc, no |-> v])
       ELSE Take(w, "extract", v, NoJob)
    /\ UNCHANGED <<rowVars, storeVars, refs, call, indexes, lost, counts, crossed, late, stripped>>

\* The text is put beside the object it was extracted from.
PutText(w) ==
    /\ job[w].pc = "read"
    /\ texts' = texts \cup {job[w].no}
    /\ job' = [job EXCEPT ![w].pc = "written"]
    /\ UNCHANGED <<rowVars, object, urls, refs, call, extracts, indexes, attempts, lost, counts,
                   history>>

\* An upsert waits for the transaction that deletes the reference it meets.
Free(v) == \A c \in Calls : v \notin call[c].forgot

\* What extract says of a file without a text: that it is empty, or of a kind
\* with none, or that it could not be parsed.
Outcomes == {"ok", "unsupported", "failed"}

\* index_evidence: one reference for a version, however often it is indexed.
Indexed(v) == refs \cup {v}

\* The commit of a reading that found no text, for want of one or of the object.
CommitEmpty(w) ==
    LET v == job[w].no IN
    /\ job[w].pc \in {"unread", "blank"} /\ version[v].here
    /\ \E state \in IF job[w].pc = "unread" THEN {"failed"} ELSE Outcomes :
          version' = [version EXCEPT ![v].state = state]
    /\ job' = [job EXCEPT ![w] = NoJob]
    /\ UNCHANGED <<artifact, current, storeVars, refs, call, extracts, indexes, attempts, lost,
                   counts, history>>

\* Mutant of CommitText: nobody subscribed to the extracted text, in the worker.
CommitTextUnheard(w, indexed) ==
    LET v == job[w].no IN
    /\ job[w].pc = "written" /\ version[v].here /\ Free(v)
    /\ version' = [version EXCEPT ![v].state = "ok", ![v].text = TRUE]
    /\ job' = [job EXCEPT ![w] = NoJob]
    /\ UNCHANGED <<artifact, current, storeVars, refs, call, extracts, indexes, attempts, lost,
                   counts, history>>

\* The commit of a text: the version, and its reference with it, or a job that
\* indexes it after the indexing failed (_on_artifact_extracted).
CommitText(w, indexed) ==
    LET v == job[w].no IN
    /\ job[w].pc = "written" /\ version[v].here /\ Free(v)
    /\ version' = [version EXCEPT ![v].state = "ok", ![v].text = TRUE]
    /\ refs' = IF indexed THEN Indexed(v) ELSE refs
    /\ Sent(indexes, indexes', IF indexed THEN {} ELSE {v})
    /\ job' = [job EXCEPT ![w] = NoJob]
    /\ UNCHANGED <<artifact, current, storeVars, call, extracts, attempts, counts, history>>

\* index_artifact_version: version_for_indexing, without which it is done.
TakeIndex(w, v) ==
    /\ v \in indexes /\ indexes' = indexes \ {v}
    /\ Take(w, "index", v,
            IF version[v].here /\ version[v].text /\ v \in texts
            THEN [pc |-> "indexing", no |-> v] ELSE NoJob)
    /\ UNCHANGED <<rowVars, storeVars, refs, call, extracts, lost, counts, crossed, late, stripped>>

\* Its commit looks at no row of the attachment.
CommitIndex(w) ==
    /\ job[w].pc = "indexing" /\ Free(job[w].no)
    /\ refs' = Indexed(job[w].no)
    /\ job' = [job EXCEPT ![w] = NoJob]
    /\ UNCHANGED <<rowVars, storeVars, call, extracts, indexes, attempts, lost, counts, history>>

\* The job raises, on a row that is gone or on the database, and is queued
\* again while it has attempts left.
Raise(w) ==
    LET v    == job[w].no
        kind == IF job[w].pc = "indexing" THEN "index" ELSE "extract"
        due  == IF attempts[<<kind, v>>] < MaxAttempts THEN {v} ELSE {}
    IN
    /\ job[w].pc # "idle"
    /\ extracts' = IF kind = "extract" THEN extracts \cup due ELSE extracts
    /\ indexes' = IF kind = "index" THEN indexes \cup due ELSE indexes
    /\ job' = [job EXCEPT ![w] = NoJob]
    /\ UNCHANGED <<rowVars, storeVars, refs, call, attempts, lost, counts, history>>

-----------------------------------------------------------------------------
CallStep(c) ==
    \/ \E sum \in Sums : Ask(c, sum)
    \/ Grant(c)
    \/ Check(c) \/ Confirm(c) \/ Oversized(c) \/ Discard(c)
    \/ Remove(c) \/ Strip(c) \/ Delete(c)
    \/ Leave(c)

JobStep(w) ==
    \/ \E v \in Versions : TakeExtract(w, v) \/ TakeIndex(w, v)
    \/ PutText(w) \/ CommitEmpty(w)
    \/ \E indexed \in BOOLEAN : CommitText(w, indexed)
    \/ CommitIndex(w) \/ Raise(w)

Next ==
    \/ \E c \in Calls : CallStep(c)
    \/ \E k \in Keys, bytes \in Bytes : Put(k, bytes)
    \/ Submit
    \/ \E w \in Workers : JobStep(w)

Spec == Init /\ [][Next]_vars

\* The worker fetches jobs and goes on with what it holds, and a request that
\* has opened a transaction ends it.  Nobody has to upload, submit or remove.
Fairness ==
    /\ \A w \in Workers : WF_vars(JobStep(w))
    /\ \A c \in Calls : WF_vars(Grant(c) \/ Confirm(c) \/ Discard(c) \/ Strip(c) \/ Delete(c) \/ Leave(c))

FairSpec == Spec /\ Fairness

-----------------------------------------------------------------------------
(* Properties. *)

\* download_url hands out a link to any version that was confirmed.
Downloadable == {v \in Versions : version[v].here /\ version[v].uploaded}

\* What the snapshot of the next assessment may quote (evidence_for_sources).
Citable == refs

\* Of every confirmed version the store has the very file that was promised, or
\* what the student has put under the same URL since it was checked.
Kept == \A v \in Downloadable :
            LET k == <<v, version[v].sum>> IN k \in late \/ object[k] = "whole"

\* Nothing is attached until the object exists and matches what was promised
\* (confirm_upload), and what was checked is not lost again: through grants
\* asked again, bytes that change or are too large, deletions no rollback undoes
\* and failed requests, as long as no two requests about the upload overlap and
\* no removal has begun to delete the objects.
ConfirmedIsWhole == ~crossed /\ ~stripped => Kept

\* What the student took back is cited nowhere: a reference belongs to a
\* version that is there, unless a job held that version during the removal.
RemovedIsForgotten == \A v \in Citable : version[v].here \/ v \in met

\* Whatever a submission queued comes to be citable, or says why it is not: it
\* has a reference, or no text, or it is gone, or its attempts are used up; a
\* job may also have been lost on its way to the queue, and the text with the
\* objects a removal deletes before it fails.
Settled(v) ==
    \/ v \in Citable \/ ~version[v].here
    \/ version[v].state # "pending" /\ ~version[v].text
    \/ \E kind \in Kinds : attempts[<<kind, v>>] >= MaxAttempts
    \/ lost > 0 \/ stripped
QueuedIsCitable == \A v \in Versions : v \in extracts ~> Settled(v)

=============================================================================
