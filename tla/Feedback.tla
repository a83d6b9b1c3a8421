------------------------------- MODULE Feedback -------------------------------
(***************************************************************************)
(* Feedback as professors write it through the MCP tools                   *)
(* (feedback/service.py): create a draft, revise it, attach files, publish *)
(* a revision to the student.  Several calls run at once, each one a       *)
(* transaction; the feedback row is locked FOR UPDATE while a call changes *)
(* it, an idempotency key is claimed by an insert that waits for another   *)
(* holder of the key, and the bytes of a file are in an object store that  *)
(* takes part in no transaction.                                           *)
(*                                                                         *)
(* What a call has done so far is private to it until it commits.  Titles, *)
(* bodies and report lists are left out: a revision is its files and the   *)
(* version its caller named.                                               *)
(***************************************************************************)
EXTENDS Integers, FiniteSets

CONSTANTS
    Calls,        \* tool calls that may be running at once
    Feedbacks,    \* ids a feedback may get
    Files,        \* ids an attachment may get
    Keys,         \* idempotency keys of one professor
    None,         \* no feedback, no file, no key
    MaxVersion,   \* bound: revisions of a feedback
    MaxFiles      \* MAX_ATTACHMENTS

ASSUME FeedbackAssumption ==
    /\ MaxVersion \in Nat \ {0} /\ MaxFiles \in Nat \ {0}
    /\ None \notin Feedbacks \cup Files \cup Keys
    /\ IsFiniteSet(Files)

VARIABLES
    version,    \* feedbacks.version: its newest revision; 0 while there is none
    revision,   \* feedback_revisions with their files
    published,  \* feedbacks.published_version; 0 for NULL
    file,       \* feedback_attachments
    object,     \* what the store has at the attachment's key
    claim,      \* feedback_idempotency of each operation
    madeWith,   \* the key each feedback was created under (observer)
    call        \* the calls under way

feedbackVars == <<version, revision, published, madeWith>>
vars == <<feedbackVars, file, object, claim, call>>

Versions   == 1 .. MaxVersion
Operations == {"create", "update", "publish", "upload", "confirm", "inline"}
Keyed      == {"create", "publish"}
Revisions  == [files : SUBSET Files, base : 0 .. MaxVersion]
Uploads    == [state : {"none", "pending", "ready"}, of : Feedbacks \cup {None}]
Claims     == [feedback : Feedbacks \cup {None}, expected : 0 .. MaxVersion]

\* A call waits for its key ("asked"), then for the row ("claimed"), has the
\* row ("locked"), and has found the stored bytes wrong or right.
CallRecords ==
    [pc : {"idle", "asked", "claimed", "locked", "refusing", "checked"}, op : Operations,
     f : Feedbacks \cup {None}, key : Keys \cup {None}, expected : 0 .. MaxVersion,
     a : Files \cup {None}, removing : SUBSET Files]

NoRevision == [files |-> {}, base |-> 0]
NoUpload   == [state |-> "none", of |-> None]
NoClaim    == [feedback |-> None, expected |-> 0]
Idle       == [pc |-> "idle", op |-> "create", f |-> None, key |-> None, expected |-> 0,
               a |-> None, removing |-> {}]

TypeOK ==
    /\ version \in [Feedbacks -> 0 .. MaxVersion]
    /\ revision \in [Feedbacks -> [Versions -> Revisions]]
    /\ published \in [Feedbacks -> 0 .. MaxVersion]
    /\ file \in [Files -> Uploads]
    /\ object \in [Files -> {"absent", "promised", "other"}]
    /\ claim \in [Keyed -> [Keys -> Claims]]
    /\ madeWith \in [Feedbacks -> Keys \cup {None}]
    /\ call \in [Calls -> CallRecords]

Init ==
    /\ version = [f \in Feedbacks |-> 0]
    /\ revision = [f \in Feedbacks |-> [v \in Versions |-> NoRevision]]
    /\ published = [f \in Feedbacks |-> 0]
    /\ file = [a \in Files |-> NoUpload]
    /\ object = [a \in Files |-> "absent"]
    /\ claim = [o \in Keyed |-> [k \in Keys |-> NoClaim]]
    /\ madeWith = [f \in Feedbacks |-> None]
    /\ call = [c \in Calls |-> Idle]

-----------------------------------------------------------------------------
(* Tool calls arrive. *)

Ask(c, r) ==
    /\ call[c].pc = "idle"
    /\ call' = [call EXCEPT ![c] = r]
    /\ UNCHANGED <<feedbackVars, file, object, claim>>

\* Bounds: a call starts only while the ids and versions it may need are left.
Underway(f)  == {d \in Calls : call[d].f = f /\ call[d].pc # "idle"}
RoomFor(f)   == version[f] # 0 /\ version[f] + Cardinality(Underway(f)) < MaxVersion
RoomToCreate == Cardinality({d \in Calls : call[d].op = "create" /\ call[d].pc # "idle"})
                    < Cardinality({f \in Feedbacks : version[f] = 0})

AskCreate(c, k) ==
    /\ RoomToCreate
    /\ Ask(c, [Idle EXCEPT !.pc = "asked", !.op = "create", !.key = k])

\* The version a caller names is one it has read.
AskPublish(c, f, k, e) ==
    /\ e \in 1 .. version[f]
    /\ Ask(c, [Idle EXCEPT !.pc = "asked", !.op = "publish", !.f = f, !.key = k, !.expected = e])

AskUpdate(c, f, e, remove) ==
    /\ RoomFor(f) /\ e \in 1 .. version[f]
    /\ Ask(c, [Idle EXCEPT !.pc = "claimed", !.op = "update", !.f = f, !.expected = e,
                           !.removing = remove])

\* The upload draws a fresh id for its file.
Unused(a) == /\ file[a] = NoUpload /\ object[a] = "absent"
             /\ \A d \in Calls : call[d].a # a
AskUpload(c, f, a) ==
    /\ version[f] # 0 /\ Unused(a)
    /\ Ask(c, [Idle EXCEPT !.pc = "claimed", !.op = "upload", !.f = f, !.a = a])

\* upload_attachment_inline; e = 0 when no expected_version was given.
AskInline(c, f, a, e) ==
    /\ RoomFor(f) /\ e <= version[f] /\ Unused(a)
    /\ Ask(c, [Idle EXCEPT !.pc = "claimed", !.op = "inline", !.f = f, !.a = a, !.expected = e])

AskConfirm(c, f, a, e) ==
    /\ RoomFor(f) /\ e <= version[f] /\ file[a].of = f
    /\ Ask(c, [Idle EXCEPT !.pc = "claimed", !.op = "confirm", !.f = f, !.a = a, !.expected = e])

\* The client of an upload grant writes to the store, what it declared or not.
\* While a confirmation runs it may repeat the upload, with what it declared.
Put(a, bytes) ==
    /\ file[a].state = "pending"
    /\ bytes # "promised" => \A d \in Calls : call[d].pc # "idle" => call[d].a # a
    /\ object' = [object EXCEPT ![a] = bytes]
    /\ UNCHANGED <<feedbackVars, file, claim, call>>

-----------------------------------------------------------------------------
(* Keys and the row lock. *)

\* The call's transaction is over, committed or not: what it held is free.
Done(c) == call' = [call EXCEPT ![c] = Idle]

\* Mutant of HoldsKey: the key is taken before its holders are waited for.
HoldsKeyEarly(c, o, k) ==
    call[c].op = o /\ call[c].key = k /\ call[c].pc # "idle"

HoldsKey(c, o, k) ==
    call[c].op = o /\ call[c].key = k /\ call[c].pc \notin {"idle", "asked"}
HoldsRow(c, f) ==
    call[c].f = f /\ call[c].pc \in {"locked", "refusing", "checked"}

\* Mutant of Claim: a read for the key instead of the insert that waits.
ClaimUnseen(c) ==
    LET o == call[c].op  k == call[c].key IN
    /\ call[c].pc = "asked"
    /\ IF k = None \/ claim[o][k] = NoClaim
       THEN call' = [call EXCEPT ![c].pc = "claimed"]
       ELSE Done(c)
    /\ UNCHANGED <<feedbackVars, file, object, claim>>

\* _claim: a committed claim is replayed, or refused for another request;
\* either way nothing is written.
Claim(c) ==
    LET o == call[c].op  k == call[c].key IN
    /\ call[c].pc = "asked"
    /\ k # None => \A d \in Calls \ {c} : ~HoldsKey(d, o, k)
    /\ IF k = None \/ claim[o][k] = NoClaim
       THEN call' = [call EXCEPT ![c].pc = "claimed"]
       ELSE Done(c)
    /\ UNCHANGED <<feedbackVars, file, object, claim>>

\* The claim is written with the work it stands for.
Record(c, f) ==
    LET o == call[c].op  k == call[c].key IN
    claim' = IF k = None THEN claim
             ELSE [claim EXCEPT ![o][k] = [feedback |-> f, expected |-> call[c].expected]]

\* Mutant of Refused: the version is not compared.
RefusedNever(c) == call[c].op = "confirm" /\ file[call[c].a].state = "ready"

\* _require_current, and for a confirmation first whether the file is ready.  An
\* inline upload compares the version only after its file was stored.
Refused(c) ==
    \/ call[c].op = "confirm" /\ file[call[c].a].state = "ready"
    \/ /\ call[c].op # "inline" /\ call[c].expected # 0
       /\ call[c].expected # version[call[c].f]

\* Mutants of Lock: the row is read without FOR UPDATE; a refused call leaves
\* its claim behind.
LockNothing(c) ==
    /\ call[c].pc = "claimed" /\ call[c].op # "create"
    /\ IF Refused(c) THEN Done(c) ELSE call' = [call EXCEPT ![c].pc = "locked"]
    /\ UNCHANGED <<feedbackVars, file, object, claim>>
LockKeepsClaim(c) ==
    /\ call[c].pc = "claimed" /\ call[c].op # "create"
    /\ \A d \in Calls : ~HoldsRow(d, call[c].f)
    /\ IF Refused(c)
       THEN Done(c) /\ (IF call[c].op = "publish" THEN Record(c, call[c].f) ELSE UNCHANGED claim)
       ELSE call' = [call EXCEPT ![c].pc = "locked"] /\ UNCHANGED claim
    /\ UNCHANGED <<feedbackVars, file, object>>

\* _locked.  A refusal rolls the savepoint back, and the claim with it.
Lock(c) ==
    /\ call[c].pc = "claimed" /\ call[c].op # "create"
    /\ \A d \in Calls : ~HoldsRow(d, call[c].f)
    /\ IF Refused(c) THEN Done(c) ELSE call' = [call EXCEPT ![c].pc = "locked"]
    /\ UNCHANGED <<feedbackVars, file, object, claim>>

\* The connection, the database or the process fails; the transaction is undone.
Abort(c) ==
    /\ call[c].pc # "idle"
    /\ Done(c)
    /\ UNCHANGED <<feedbackVars, file, object, claim>>

-----------------------------------------------------------------------------
(* The work, under the lock. *)

Head(f) == revision[f][version[f]]

\* _new_revision: the next version, built on the one the caller named.
Revise(c, f, files) ==
    /\ version[f] < MaxVersion
    /\ version' = [version EXCEPT ![f] = @ + 1]
    /\ revision' = [revision EXCEPT ![f][version[f] + 1] =
                      [files |-> files, base |-> call[c].expected]]

Create(c, f) ==
    /\ call[c].pc = "claimed" /\ call[c].op = "create"
    /\ version[f] = 0
    /\ Revise(c, f, {})
    /\ madeWith' = [madeWith EXCEPT ![f] = call[c].key]
    /\ Record(c, f)
    /\ Done(c)
    /\ UNCHANGED <<published, file, object>>

\* A file to remove must be one the head carries.
Update(c) ==
    LET f == call[c].f IN
    /\ call[c].pc = "locked" /\ call[c].op = "update"
    /\ \/ /\ call[c].removing \subseteq Head(f).files
          /\ Revise(c, f, Head(f).files \ call[c].removing)
       \/ /\ ~(call[c].removing \subseteq Head(f).files)
          /\ UNCHANGED <<version, revision>>
    /\ Done(c)
    /\ UNCHANGED <<published, madeWith, file, object, claim>>

\* A revision that is already shown is only recorded under the key.
Publish(c) ==
    LET f == call[c].f IN
    /\ call[c].pc = "locked" /\ call[c].op = "publish"
    /\ published' = [published EXCEPT ![f] = version[f]]
    /\ Record(c, f)
    /\ Done(c)
    /\ UNCHANGED <<version, revision, madeWith, file, object>>

\* A full head grants and attaches nothing more.
Full(f) == Cardinality(Head(f).files) >= MaxFiles

\* request_attachment_upload.
Grant(c) ==
    LET f == call[c].f IN
    /\ call[c].pc = "locked" /\ call[c].op = "upload"
    /\ file' = IF Full(f) THEN file
               ELSE [file EXCEPT ![call[c].a] = [state |-> "pending", of |-> f]]
    /\ Done(c)
    /\ UNCHANGED <<feedbackVars, object, claim>>

\* upload_attachment_inline: grant, store, then the checks of a confirmation.
\* A stale version is answered with an error after the grant, and call_tool
\* commits what was done by then.
GrantInline(c) ==
    LET f == call[c].f  a == call[c].a
        granted == [file EXCEPT ![a] = [state |-> "pending", of |-> f]] IN
    /\ call[c].pc = "locked" /\ call[c].op = "inline"
    /\ \/ Full(f) /\ Done(c) /\ UNCHANGED <<file, object>>
       \/ /\ ~Full(f)
          /\ object' = [object EXCEPT ![a] = "promised"]
          /\ IF call[c].expected \in {0, version[f]}
             THEN call' = [call EXCEPT ![c].pc = "checked"] /\ UNCHANGED file
             ELSE Done(c) /\ file' = granted
    /\ UNCHANGED <<feedbackVars, claim>>

\* confirm_attachment reads the stored bytes and compares them with what was
\* declared, then counts the files of the head.
Fetch(c) ==
    LET a == call[c].a IN
    /\ call[c].pc = "locked" /\ call[c].op = "confirm"
    /\ \/ object[a] = "absent" /\ Done(c)
       \/ /\ object[a] = "other" \/ (object[a] = "promised" /\ Full(call[c].f))
          /\ call' = [call EXCEPT ![c].pc = "refusing"]
       \/ /\ object[a] = "promised" /\ ~Full(call[c].f)
          /\ call' = [call EXCEPT ![c].pc = "checked"]
    /\ UNCHANGED <<feedbackVars, file, object, claim>>

\* The refused object is deleted at once; its row stays pending.
Discard(c) ==
    /\ call[c].pc = "refusing"
    /\ object' = [object EXCEPT ![call[c].a] = "absent"]
    /\ Done(c)
    /\ UNCHANGED <<feedbackVars, file, claim>>

Attach(c) ==
    LET f == call[c].f  a == call[c].a IN
    /\ call[c].pc = "checked"
    /\ file' = [file EXCEPT ![a] = [state |-> "ready", of |-> f]]
    /\ Revise(c, f, Head(f).files \cup {a})
    /\ Done(c)
    /\ UNCHANGED <<published, madeWith, object, claim>>

-----------------------------------------------------------------------------
Arrive(c) ==
    \/ \E k \in Keys \cup {None} : AskCreate(c, k)
    \/ \E f \in Feedbacks, e \in 0 .. MaxVersion :
          \/ \E k \in Keys \cup {None} : AskPublish(c, f, k, e)
          \/ \E remove \in SUBSET Files : AskUpdate(c, f, e, remove)
          \/ \E a \in Files : AskInline(c, f, a, e) \/ AskConfirm(c, f, a, e)
    \/ \E f \in Feedbacks, a \in Files : AskUpload(c, f, a)

Proceed(c) ==
    \/ Claim(c) \/ Lock(c)
    \/ \E f \in Feedbacks : Create(c, f)
    \/ Update(c) \/ Publish(c) \/ Grant(c) \/ GrantInline(c)
    \/ Fetch(c) \/ Discard(c) \/ Attach(c)

Next ==
    \/ \E c \in Calls : Arrive(c) \/ Proceed(c) \/ Abort(c)
    \/ \E a \in Files, bytes \in {"promised", "other"} : Put(a, bytes)

Spec == Init /\ [][Next]_vars

\* A call that holds what it waited for goes on, and PostgreSQL grants a lock in
\* the order it was asked for.  No failure is needed for a call to end.
FairSpec == Spec /\ \A c \in Calls : /\ WF_vars(Proceed(c))
                                     /\ SF_vars(Claim(c)) /\ SF_vars(Lock(c))

-----------------------------------------------------------------------------
(* Properties. *)

\* A file some revision carries is ready, and the store has the bytes that were
\* checked: no later refusal deletes them (confirm_attachment).
AttachedIsReady ==
    \A f \in Feedbacks : \A v \in 1 .. version[f] : \A a \in revision[f][v].files :
        file[a] = [state |-> "ready", of |-> f] /\ object[a] = "promised"

\* A caller that named a version changed that version: two writers take turns
\* and the second is refused rather than merged (ADR 0026).
BuiltOnWhatWasRead ==
    \A f \in Feedbacks : \A v \in 1 .. version[f] : revision[f][v].base \in {0, v - 1}

\* A revision carries at most MAX_ATTACHMENTS files, however many uploads were
\* granted while there was room.
AtMostMaxFiles ==
    \A f \in Feedbacks : \A v \in 1 .. version[f] : Cardinality(revision[f][v].files) <= MaxFiles

\* Retries do not repeat: one key makes one feedback, the one its replay returns.
CreatedOnce ==
    /\ \A f, g \in Feedbacks : madeWith[f] = madeWith[g] /\ madeWith[f] # None => f = g
    /\ \A k \in Keys, f \in Feedbacks :
          claim["create"][k].feedback = f <=> madeWith[f] = k

\* A publish key that is taken did its work: the student reads the revision its
\* caller reviewed or a later one.  A refused call leaves its key free.
ClaimMeansDone ==
    \A k \in Keys : LET done == claim["publish"][k] IN
        done.feedback # None => published[done.feedback] >= done.expected

\* What the student reads changes only to the revision that a caller of publish
\* looked at and that nothing has replaced, and never back to an older one.
PublishedAsReviewed ==
    [][\A f \in Feedbacks : published'[f] # published[f] =>
          /\ published'[f] > published[f] /\ published'[f] = version[f]
          /\ \E c \in Calls : call[c].op = "publish" /\ call[c].f = f
                              /\ call[c].expected = published'[f]]_vars

\* No call waits for ever: keys and rows are taken in one order.
EveryCallEnds == \A c \in Calls : call[c].pc # "idle" ~> call[c].pc = "idle"

=============================================================================
