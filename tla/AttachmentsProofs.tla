-------------------------- MODULE AttachmentsProofs --------------------------
(* Theorems about Attachments, for every value of its constants. *)
EXTENDS Attachments, WellFoundedInduction, TLAPS

States == {"pending", "ok", "failed", "unsupported"}
Files  == Sums \cup {Nothing}
Contents == {"none"} \cup Bytes

-----------------------------------------------------------------------------
(* The newest version that is waiting. *)

LEMMA Newest ==
  ASSUME NEW S \in SUBSET Versions, S # {}
  PROVE  \E v \in S : \A u \in S : u <= v
<1> DEFINE T == {n \in Nat : MaxVersion - n \in S}
<1>1. PICK s \in S : TRUE
  OBVIOUS
<1>2. \A v \in S : v \in 1 .. MaxVersion /\ MaxVersion - v \in Nat
                   /\ MaxVersion - (MaxVersion - v) = v
  BY AttachmentsAssumption DEF Versions
<1>3. T \subseteq Nat /\ T # {}
  BY <1>1, <1>2
<1>4. \E x \in T : \A y \in T : ~(<<y, x>> \in OpToRel(<, Nat))
  <2> HIDE DEF T
  <2> QED
    BY <1>3, WFMin, NatLessThanWellFounded
<1>5. PICK x \in T : \A y \in T : ~(y < x)
  BY <1>3, <1>4 DEF OpToRel
<1>6. \A u \in S : u <= MaxVersion - x
  BY <1>2, <1>5, AttachmentsAssumption
<1> QED
  BY <1>5, <1>6

Waiting == {v \in Versions : version[v].here /\ ~version[v].uploaded}

LEMMA PendingWaits ==
  /\ Pending = 0 \/ Pending \in Waiting
  /\ Waiting = {} => Pending = 0
<1>1. CASE Waiting = {}
  BY <1>1 DEF Pending, Waiting
<1>2. CASE Waiting # {}
  <2>1. Waiting \in SUBSET Versions
    BY DEF Waiting
  <2>2. \E v \in Waiting : \A u \in Waiting : u <= v
    BY <1>2, <2>1, Newest
  <2>3. Pending = CHOOSE v \in Waiting : \A u \in Waiting : u <= v
    BY <1>2 DEF Pending, Waiting
  <2> QED
    BY <1>2, <2>2, <2>3
<1> QED
  BY <1>1, <1>2

-----------------------------------------------------------------------------
(* Types. *)

\* A call or a job that is under way is about a version.
Named == /\ \A c \in Calls : Uploading(c) => call[c].no \in Versions
         /\ \A c \in Calls : call[c].pc = "asking" => call[c].sum \in Sums
         /\ \A w \in Workers : job[w].pc # "idle" => job[w].no \in Versions
TypeInv == TypeOK /\ Named

LEMMA Records ==
  /\ NoRow \in Rows /\ \A sum \in Sums : Row(sum) \in Rows
  /\ NoCall \in CallRecords /\ NoJob \in JobRecords
<1>1. NoRow \in Rows
  BY DEF NoRow, Rows
<1>2. ASSUME NEW sum \in Sums
      PROVE  Row(sum) \in Rows
  BY <1>1 DEF Row, NoRow, Rows
<1>3. 0 \in 0 .. MaxVersion
  BY AttachmentsAssumption
<1>4. NoCall \in CallRecords /\ NoJob \in JobRecords
  BY <1>3 DEF NoCall, CallRecords, NoJob, JobRecords
<1> QED
  BY <1>1, <1>2, <1>4

LEMMA CurrentNext ==
  ASSUME TypeInv
  PROVE  /\ current \in Int /\ MaxVersion \in Nat
         /\ \A v \in Versions : v \in Int /\ v \in 0 .. MaxVersion
         /\ current + 1 <= MaxVersion => current + 1 \in Versions
  BY AttachmentsAssumption DEF TypeInv, TypeOK, Versions

\* One call's record, and nothing of the others.
LEMMA CallTypes ==
  ASSUME TypeInv, NEW c \in Calls, NEW r \in CallRecords, call' = [call EXCEPT ![c] = r],
         r.pc \in {"asking", "oversized", "checked"} => r.no \in Versions,
         r.pc = "asking" => r.sum \in Sums, UNCHANGED job
  PROVE  call' \in [Calls -> CallRecords] /\ Named'
  BY DEF TypeInv, TypeOK, Named, Uploading

LEMMA JobTypes ==
  ASSUME TypeInv, NEW w \in Workers, NEW r \in JobRecords, job' = [job EXCEPT ![w] = r],
         r.pc # "idle" => r.no \in Versions, UNCHANGED call
  PROVE  job' \in [Workers -> JobRecords] /\ Named'
  BY DEF TypeInv, TypeOK, Named, Uploading

LEMMA VersionTypes ==
  ASSUME TypeInv, NEW v \in Versions
  PROVE  /\ version[v] \in Rows
         /\ \A sum \in Files : [version[v] EXCEPT !.sum = sum] \in Rows
         /\ [version[v] EXCEPT !.uploaded = TRUE] \in Rows
         /\ \A s \in States : [version[v] EXCEPT !.state = s] \in Rows
         /\ \A s \in States : [version[v] EXCEPT !.state = s, !.text = TRUE] \in Rows
  BY DEF TypeInv, TypeOK, Rows, Files, States

LEMMA AskTypes ==
  ASSUME TypeInv, NEW c \in Calls, NEW sum \in Sums, Ask(c, sum)
  PROVE  TypeInv'
<1> DEFINE r == [NoCall EXCEPT !.pc = "asking", !.no = current + 1, !.sum = sum,
                               !.fresh = Pending # current + 1]
<1>1. current + 1 \in Versions
  BY CurrentNext DEF Ask
<1>2. r \in CallRecords /\ r.no = current + 1 /\ r.sum = sum
  BY <1>1, CurrentNext, Records DEF CallRecords, NoCall
<1>3. call' = [call EXCEPT ![c] = r]
  BY DEF Ask, Begin
<1> HIDE DEF r
<1>4. call' \in [Calls -> CallRecords] /\ Named'
  BY <1>1, <1>2, <1>3, CallTypes DEF Ask, jobVars
<1>5. object' \in [Keys -> Contents]
  BY DEF Ask, TypeInv, TypeOK, Contents
<1>6. asks' \in 0 .. MaxAsks
  BY AttachmentsAssumption DEF Ask, TypeInv, TypeOK
<1>7. crossed' \in BOOLEAN
  BY DEF Ask, Begin, TypeInv, TypeOK
<1> QED
  BY <1>4, <1>5, <1>6, <1>7 DEF Ask, TypeInv, TypeOK, rowVars, jobVars, Contents

\* A confirmation that has found its version.
LEMMA Confirmings ==
  ASSUME TypeInv, Pending # 0, NEW pc \in {"checked", "oversized"}
  PROVE  /\ Pending \in Versions /\ Confirming(pc) \in CallRecords
         /\ Confirming(pc).pc = pc /\ Confirming(pc).no = Pending
         /\ Confirming(pc).sum = version[Pending].sum
<1>1. Pending \in Versions
  BY PendingWaits DEF Waiting
<1>2. Pending \in 0 .. MaxVersion /\ version[Pending].sum \in Sums \cup {Nothing}
  BY <1>1, CurrentNext, VersionTypes DEF Rows
<1> QED
  BY <1>1, <1>2, Records DEF Confirming, CallRecords, NoCall

LEMMA UploadTypes ==
  ASSUME TypeInv, NEW c \in Calls,
         Grant(c) \/ Check(c) \/ Confirm(c) \/ Oversized(c) \/ Discard(c)
  PROVE  TypeInv'
<1>1. call[c] \in CallRecords
  BY DEF TypeInv, TypeOK
<1>2. ASSUME call' = [call EXCEPT ![c] = NoCall], UNCHANGED job
      PROVE  call' \in [Calls -> CallRecords] /\ Named'
  BY <1>2, Records, CallTypes DEF NoCall
<1>3. CASE Grant(c)
  <2> DEFINE no == call[c].no
             row == IF call[c].fresh THEN Row(call[c].sum)
                    ELSE [version[no] EXCEPT !.sum = call[c].sum]
  <2>1. no \in Versions /\ call[c].sum \in Sums
    BY <1>3 DEF Grant, TypeInv, Named, Uploading
  <2>2. row \in Rows
    BY <2>1, VersionTypes, Records DEF Row, NoRow, Rows, Files
  <2>3. version' = [version EXCEPT ![no] = row]
    BY <1>3 DEF Grant
  <2> HIDE DEF row
  <2>4. version' \in [Versions -> Rows]
    BY <2>2, <2>3 DEF TypeInv, TypeOK
  <2>5. urls' \subseteq Keys
    BY <1>3, <2>1 DEF Grant, Keys, TypeInv, TypeOK
  <2> QED
    BY <1>2, <1>3, <2>4, <2>5 DEF Grant, TypeInv, TypeOK, jobVars, counts, history
<1>4. CASE Check(c) \/ Oversized(c)
  <2>1. PICK pc \in {"checked", "oversized"} : /\ Pending # 0 /\ Begin(c, Confirming(pc))
                                               /\ UNCHANGED job
    BY <1>4 DEF Check, Oversized, jobVars
  <2> DEFINE r == Confirming(pc)
  <2>2. Pending \in Versions /\ r \in CallRecords /\ r.pc = pc /\ r.no = Pending
    BY <2>1, Confirmings
  <2>3. call' = [call EXCEPT ![c] = r]
    BY <2>1 DEF Begin
  <2> HIDE DEF r
  <2>4. call' \in [Calls -> CallRecords] /\ Named'
    BY <2>1, <2>2, <2>3, CallTypes
  <2>5. crossed' \in BOOLEAN
    BY <2>1 DEF Begin, TypeInv, TypeOK
  <2> QED
    BY <1>4, <2>4, <2>5
    DEF Check, Oversized, TypeInv, TypeOK, rowVars, storeVars, jobVars, counts
<1>5. CASE Discard(c)
  <2>1. object' \in [Keys -> Contents]
    BY <1>5 DEF Discard, TypeInv, TypeOK, Contents
  <2>2. call' \in [Calls -> CallRecords] /\ Named'
    BY <1>2, <1>5 DEF Discard, jobVars
  <2> QED
    BY <1>5, <2>1, <2>2 DEF Discard, TypeInv, TypeOK, rowVars, jobVars, counts, history, Contents
<1>6. CASE Confirm(c)
  <2> DEFINE no == call[c].no
             row == [version[no] EXCEPT !.uploaded = TRUE]
  <2>1. no \in Versions
    BY <1>6 DEF Confirm, TypeInv, Named, Uploading
  <2>2. row \in Rows /\ version' = [version EXCEPT ![no] = row] /\ current' \in 0 .. MaxVersion
    BY <1>6, <2>1, VersionTypes, CurrentNext DEF Confirm
  <2> HIDE DEF row
  <2>3. version' \in [Versions -> Rows]
    BY <2>2 DEF TypeInv, TypeOK
  <2>4. call' \in [Calls -> CallRecords] /\ Named'
    BY <1>2, <1>6 DEF Confirm, jobVars
  <2> QED
    BY <1>6, <2>2, <2>3, <2>4 DEF Confirm, TypeInv, TypeOK, storeVars, jobVars, counts, history
<1> QED
  BY <1>3, <1>4, <1>5, <1>6

LEMMA PutTypes ==
  ASSUME TypeInv, NEW k \in Keys, NEW bytes \in Bytes, Put(k, bytes)
  PROVE  TypeInv'
<1>1. object' \in [Keys -> Contents] /\ late' \subseteq Keys
  BY DEF Put, TypeInv, TypeOK, Contents
<1>2. puts' \in 0 .. MaxPuts
  BY AttachmentsAssumption DEF Put, TypeInv, TypeOK
<1>3. Named'
  BY DEF Put, TypeInv, Named, Uploading, jobVars
<1> QED
  BY <1>1, <1>2, <1>3 DEF Put, TypeInv, TypeOK, rowVars, jobVars, Contents

LEMMA RemovalTypes ==
  ASSUME TypeInv, NEW c \in Calls, Remove(c) \/ Strip(c) \/ Delete(c) \/ Leave(c)
  PROVE  TypeInv'
<1>1. call[c] \in CallRecords /\ refs \subseteq Versions /\ version \in [Versions -> Rows]
      /\ object \in [Keys -> Contents]
  BY DEF TypeInv, TypeOK, Contents
<1>2. CASE Remove(c)
  <2> DEFINE keys == {<<v, version[v].sum>> : v \in {v \in Versions : version[v].here}}
             r == [NoCall EXCEPT !.pc = "removing", !.forgot = Forgotten, !.keys = keys]
  <2>1. keys \subseteq Versions \X (Sums \cup {Nothing})
    BY <1>1 DEF Rows
  <2>2. call' = [call EXCEPT ![c] = r] /\ Forgotten \subseteq Versions
    BY <1>1, <1>2 DEF Remove, Forgotten
  <2> HIDE DEF keys
  <2>3. r \in CallRecords /\ r.pc = "removing"
    BY <2>1, <2>2, Records DEF CallRecords, NoCall
  <2> HIDE DEF r
  <2>4. call' \in [Calls -> CallRecords] /\ Named'
    BY <1>2, <2>2, <2>3, CallTypes DEF Remove, jobVars
  <2>5. met' \subseteq Versions
    BY <1>2 DEF Remove, Held, TypeInv, TypeOK, Named
  <2> QED
    BY <1>2, <2>4, <2>5 DEF Remove, TypeInv, TypeOK, rowVars, storeVars, jobVars, counts
<1>3. CASE Strip(c)
  <2> DEFINE r == [call[c] EXCEPT !.pc = "stripping"]
  <2>1. r \in CallRecords /\ r.pc = "stripping" /\ call' = [call EXCEPT ![c] = r]
    BY <1>1, <1>3 DEF Strip, CallRecords
  <2> HIDE DEF r
  <2>2. call' \in [Calls -> CallRecords] /\ Named'
    BY <1>3, <2>1, CallTypes DEF Strip, jobVars
  <2>3. object' \in [Keys -> Contents] /\ texts' \subseteq Versions
    BY <1>1, <1>3 DEF Strip, Contents, TypeInv, TypeOK
  <2> QED
    BY <1>3, <2>2, <2>3 DEF Strip, TypeInv, TypeOK, rowVars, jobVars, counts, Contents
<1>4. CASE Delete(c)
  <2>1. call' \in [Calls -> CallRecords] /\ Named'
    BY <1>4, Records, CallTypes DEF Delete, NoCall, jobVars
  <2>2. version' \in [Versions -> Rows] /\ current' \in 0 .. MaxVersion
    BY <1>4, Records, AttachmentsAssumption DEF Delete
  <2>3. refs' \subseteq Versions
    BY <1>1, <1>4 DEF Delete
  <2> QED
    BY <1>4, <2>1, <2>2, <2>3 DEF Delete, TypeInv, TypeOK, storeVars, jobVars, counts, history
<1>5. CASE Leave(c)
  <2>1. call' \in [Calls -> CallRecords] /\ Named'
    BY <1>5, Records, CallTypes DEF Leave, NoCall, jobVars
  <2> QED
    BY <1>5, <2>1 DEF Leave, TypeInv, TypeOK, rowVars, storeVars, jobVars, counts, history
<1> QED
  BY <1>2, <1>3, <1>4, <1>5

LEMMA SentTypes ==
  ASSUME TypeInv, NEW before \in SUBSET Versions, NEW after, NEW due \in SUBSET Versions,
         Sent(before, after, due)
  PROVE  after \subseteq Versions /\ lost' \in 0 .. MaxLost
  BY AttachmentsAssumption DEF Sent, TypeInv, TypeOK

LEMMA TakeTypes ==
  ASSUME TypeInv, NEW w \in Workers, NEW kind \in Kinds, NEW v \in Versions,
         NEW r \in JobRecords, Take(w, kind, v, r), r.pc # "idle" => r.no = v, UNCHANGED call
  PROVE  /\ job' \in [Workers -> JobRecords] /\ Named' /\ attempts' \in [Kinds \X Versions -> Nat]
         /\ met' \subseteq Versions
<1>1. job' \in [Workers -> JobRecords] /\ Named'
  BY JobTypes DEF Take
<1>2. attempts' \in [Kinds \X Versions -> Nat]
  <2>1. attempts[<<kind, v>>] \in Nat
    BY DEF TypeInv, TypeOK
  <2> QED
    BY <2>1 DEF Take, TypeInv, TypeOK
<1>3. met' \subseteq Versions
  BY DEF Take, TypeInv, TypeOK
<1> QED
  BY <1>1, <1>2, <1>3

LEMMA WorkTypes ==
  ASSUME TypeInv, NEW w \in Workers, JobStep(w)
  PROVE  TypeInv'
<1>1. job[w] \in JobRecords /\ (job[w].pc # "idle" => job[w].no \in Versions)
      /\ refs \subseteq Versions /\ texts \subseteq Versions
      /\ extracts \subseteq Versions /\ indexes \subseteq Versions
  BY DEF TypeInv, TypeOK, Named
<1>2. ASSUME NEW v \in Versions, TakeExtract(w, v)
      PROVE  TypeInv'
  <2>1. PICK r : Take(w, "extract", v, r) /\ (r = NoJob \/ \E pc \in Reads(v) : r = [pc |-> pc, no |-> v])
    BY <1>2 DEF TakeExtract
  <2>2. Reads(v) \subseteq {"unread", "read", "blank"}
    BY DEF Reads
  <2>3. r \in JobRecords /\ (r.pc # "idle" => r.no = v)
    BY <2>1, <2>2, CurrentNext, Records DEF JobRecords, NoJob
  <2>4. /\ job' \in [Workers -> JobRecords] /\ Named' /\ attempts' \in [Kinds \X Versions -> Nat]
        /\ met' \subseteq Versions
    BY <1>2, <2>1, <2>3, TakeTypes DEF TakeExtract, Kinds
  <2> QED
    BY <1>1, <1>2, <2>4 DEF TakeExtract, TypeInv, TypeOK, rowVars, storeVars, counts
<1>3. ASSUME NEW v \in Versions, TakeIndex(w, v)
      PROVE  TypeInv'
  <2> DEFINE r == IF version[v].here /\ version[v].text /\ v \in texts
                  THEN [pc |-> "indexing", no |-> v] ELSE NoJob
  <2>1. r \in JobRecords /\ (r.pc # "idle" => r.no = v)
    BY VersionTypes, CurrentNext, Records DEF JobRecords, Rows, NoJob
  <2>2. Take(w, "index", v, r)
    BY <1>3 DEF TakeIndex
  <2> HIDE DEF r
  <2>3. /\ job' \in [Workers -> JobRecords] /\ Named' /\ attempts' \in [Kinds \X Versions -> Nat]
        /\ met' \subseteq Versions
    BY <1>3, <2>1, <2>2, TakeTypes DEF TakeIndex, Kinds
  <2> QED
    BY <1>1, <1>3, <2>3 DEF TakeIndex, TypeInv, TypeOK, rowVars, storeVars, counts
<1>4. CASE PutText(w)
  <2> DEFINE r == [job[w] EXCEPT !.pc = "written"]
  <2>1. r \in JobRecords /\ r.no = job[w].no /\ job' = [job EXCEPT ![w] = r]
    BY <1>1, <1>4 DEF PutText, JobRecords
  <2> HIDE DEF r
  <2>2. job' \in [Workers -> JobRecords] /\ Named'
    BY <1>1, <1>4, <2>1, JobTypes DEF PutText
  <2> QED
    BY <1>1, <1>4, <2>2 DEF PutText, TypeInv, TypeOK, rowVars, counts, history
<1>5. ASSUME job' = [job EXCEPT ![w] = NoJob], UNCHANGED call
      PROVE  job' \in [Workers -> JobRecords] /\ Named'
  BY <1>5, Records, JobTypes DEF NoJob
<1>6. CASE CommitEmpty(w)
  <2>1. job[w].no \in Versions
    BY <1>1, <1>6 DEF CommitEmpty
  <2>2. PICK state \in States : version' = [version EXCEPT ![job[w].no] =
                                              [version[job[w].no] EXCEPT !.state = state]]
    BY <1>6 DEF CommitEmpty, Outcomes, States
  <2>3. version' \in [Versions -> Rows]
    BY <2>1, <2>2, VersionTypes DEF TypeInv, TypeOK
  <2> QED
    BY <1>5, <1>6, <2>3 DEF CommitEmpty, TypeInv, TypeOK, storeVars, counts, history
<1>7. ASSUME NEW indexed \in BOOLEAN, CommitText(w, indexed)
      PROVE  TypeInv'
  <2>1. job[w].no \in Versions
    BY <1>1, <1>7 DEF CommitText
  <2>2. version' = [version EXCEPT ![job[w].no] =
                      [version[job[w].no] EXCEPT !.state = "ok", !.text = TRUE]]
    BY <1>7 DEF CommitText
  <2>3. version' \in [Versions -> Rows]
    BY <2>1, <2>2, VersionTypes DEF TypeInv, TypeOK, States
  <2>4. indexes' \subseteq Versions /\ lost' \in 0 .. MaxLost
    BY <1>1, <1>7, <2>1, SentTypes DEF CommitText
  <2>5. refs' \subseteq Versions
    BY <1>1, <1>7, <2>1 DEF CommitText, Indexed
  <2> QED
    BY <1>5, <1>7, <2>3, <2>4, <2>5 DEF CommitText, TypeInv, TypeOK, storeVars, counts, history
<1>8. CASE CommitIndex(w)
  <2>1. refs' \subseteq Versions
    BY <1>1, <1>8 DEF CommitIndex, Indexed
  <2> QED
    BY <1>5, <1>8, <2>1 DEF CommitIndex, TypeInv, TypeOK, rowVars, storeVars, counts, history
<1>9. CASE Raise(w)
  <2>1. extracts' \subseteq Versions /\ indexes' \subseteq Versions
    BY <1>1, <1>9 DEF Raise
  <2> QED
    BY <1>5, <1>9, <2>1 DEF Raise, TypeInv, TypeOK, rowVars, storeVars, counts, history
<1> QED
  BY <1>2, <1>3, <1>4, <1>6, <1>7, <1>8, <1>9 DEF JobStep

LEMMA SubmitTypes ==
  ASSUME TypeInv, Submit
  PROVE  TypeInv'
<1>1. extracts' \subseteq Versions /\ lost' \in 0 .. MaxLost
  BY SentTypes DEF Submit, TypeInv, TypeOK
<1>2. submits' \in 0 .. MaxSubmits
  BY AttachmentsAssumption DEF Submit, TypeInv, TypeOK
<1>3. Named'
  BY DEF Submit, TypeInv, Named, Uploading
<1> QED
  BY <1>1, <1>2, <1>3 DEF Submit, TypeInv, TypeOK, rowVars, storeVars, history

LEMMA NextTypes ==
  ASSUME TypeInv, [Next]_vars
  PROVE  TypeInv'
<1>1. CASE UNCHANGED vars
  BY <1>1 DEF vars, rowVars, storeVars, jobVars, counts, history, TypeInv, TypeOK, Named, Uploading
<1> QED
  BY <1>1, AskTypes, UploadTypes, PutTypes, RemovalTypes, SubmitTypes, WorkTypes DEF Next, CallStep

LEMMA InitTypes ==
  ASSUME Init
  PROVE  TypeInv
<1>1. /\ version \in [Versions -> Rows] /\ call \in [Calls -> CallRecords]
      /\ job \in [Workers -> JobRecords]
  BY Records DEF Init
<1>2. /\ current \in 0 .. MaxVersion /\ asks \in 0 .. MaxAsks /\ puts \in 0 .. MaxPuts
      /\ submits \in 0 .. MaxSubmits /\ lost \in 0 .. MaxLost
  BY AttachmentsAssumption DEF Init
<1>3. /\ object \in [Keys -> Contents] /\ attempts \in [Kinds \X Versions -> Nat]
  BY DEF Init, Contents
<1>4. Named
  BY DEF Init, Named, Uploading, NoCall, NoJob
<1> QED
  BY <1>1, <1>2, <1>3, <1>4 DEF Init, TypeInv, TypeOK, Contents

\* Every row, object, request and job has its type (reporting/models.py).
THEOREM TypeCorrect == Spec => []TypeOK
<1>1. TypeInv => TypeOK
  BY DEF TypeInv
<1> QED
  BY <1>1, InitTypes, NextTypes, PTL DEF Spec

-----------------------------------------------------------------------------
(* What was taken back. *)

\* While a removal is open, every reference is one it deletes or was made by a job
\* that it met; a job is about a version that is there, or that a removal met.
Opened(c) == call[c].pc \in {"removing", "stripping"}
Known(v)  == version[v].here \/ v \in met
Tracked ==
    /\ \A v \in refs : Known(v)
    /\ \A w \in Workers : job[w].pc # "idle" => Known(job[w].no)
    /\ \A c \in Calls : Opened(c) => Held \subseteq met
                                     /\ \A v \in refs : v \in call[c].forgot \/ v \in met

LEMMA HeldBy ==
  ASSUME NEW v, v \in Held
  PROVE  \E w \in Workers : job[w].pc # "idle" /\ job[w].no = v
  BY DEF Held

LEMMA Holds ==
  ASSUME NEW w \in Workers, job[w].pc # "idle"
  PROVE  job[w].no \in Held
  BY DEF Held

\* A step of a call that removes nothing.
LEMMA UploadTracked ==
  ASSUME Tracked, NEW c \in Calls, UNCHANGED <<refs, job, met>>,
         \A v \in Versions : version[v].here => version'[v].here,
         refs \subseteq Versions, \A w \in Workers : job[w].pc # "idle" => job[w].no \in Versions,
         \A d \in Calls : Opened(d)' => Opened(d) /\ call'[d].forgot = call[d].forgot
  PROVE  Tracked'
<1>1. \A v \in Versions : Known(v) => Known(v)'
  BY DEF Known
<1>2. UNCHANGED Held
  BY DEF Held
<1> QED
  BY <1>1, <1>2 DEF Tracked

LEMMA CallTracked ==
  ASSUME TypeInv, Tracked, NEW c \in Calls, CallStep(c)
  PROVE  Tracked'
<1>1. /\ call \in [Calls -> CallRecords] /\ version \in [Versions -> Rows] /\ refs \subseteq Versions
      /\ met \subseteq Versions
      /\ \A w \in Workers : job[w].pc # "idle" => job[w].no \in Versions
      /\ call[c] \in CallRecords
  BY DEF TypeInv, TypeOK, Named
<1>2. ASSUME UNCHANGED <<refs, job, met>>, \A v \in Versions : version[v].here => version'[v].here,
             NEW r, call' = [call EXCEPT ![c] = r], r.pc \notin {"removing", "stripping"}
      PROVE  Tracked'
  BY <1>1, <1>2, UploadTracked DEF Opened
<1>3. NoCall.pc = "idle"
  BY DEF NoCall
<1>4. ASSUME NEW sum \in Sums, Ask(c, sum)
      PROVE  Tracked'
  <2> DEFINE r == [NoCall EXCEPT !.pc = "asking", !.no = current + 1, !.sum = sum,
                                 !.fresh = Pending # current + 1]
  <2>1. r.pc = "asking" /\ call' = [call EXCEPT ![c] = r]
    BY <1>4 DEF Ask, Begin, NoCall
  <2>2. UNCHANGED <<refs, job, met, version>>
    BY <1>4 DEF Ask, rowVars, jobVars
  <2> HIDE DEF r
  <2> QED
    BY <1>2, <2>1, <2>2
<1>5. CASE Grant(c)
  <2>1. \A v \in Versions : version[v].here => version'[v].here
    BY <1>1, <1>5 DEF Grant, Row, NoRow, Rows
  <2> QED
    BY <1>2, <1>3, <1>5, <2>1 DEF Grant, jobVars, history
<1>6. CASE Discard(c)
  BY <1>2, <1>3, <1>6 DEF Discard, jobVars, history, rowVars
<1>7. CASE Check(c) \/ Oversized(c)
  <2>1. PICK pc \in {"checked", "oversized"} : Pending # 0 /\ Begin(c, Confirming(pc))
    BY <1>7 DEF Check, Oversized
  <2> DEFINE r == Confirming(pc)
  <2>2. r.pc = pc /\ call' = [call EXCEPT ![c] = r]
    BY <2>1, Confirmings DEF Begin
  <2>3. UNCHANGED <<refs, job, met, version>>
    BY <1>7 DEF Check, Oversized, jobVars, rowVars
  <2> HIDE DEF r
  <2> QED
    BY <1>2, <2>2, <2>3
<1>8. CASE Confirm(c)
  <2>1. \A v \in Versions : version[v].here => version'[v].here
    BY <1>1, <1>8 DEF Confirm, Rows
  <2> QED
    BY <1>2, <1>3, <1>8, <2>1 DEF Confirm, jobVars, history
<1>9. CASE Leave(c)
  BY <1>2, <1>3, <1>9 DEF Leave, jobVars, history, rowVars
<1>10. CASE Remove(c)
  <2>1. call'[c].forgot = refs /\ \A d \in Calls : d # c => call'[d] = call[d]
    BY <1>1, <1>10 DEF Remove, Forgotten, NoCall
  <2>2. UNCHANGED <<refs, job, version>> /\ met' = met \cup Held /\ UNCHANGED Held
    BY <1>10 DEF Remove, rowVars, jobVars, Held
  <2>3. \A v : Known(v) => Known(v)'
    BY <2>2 DEF Known
  <2> QED
    BY <2>1, <2>2, <2>3 DEF Tracked, Opened
<1>11. CASE Strip(c)
  <2>1. call[c].pc = "removing" /\ call' = [call EXCEPT ![c] = [call[c] EXCEPT !.pc = "stripping"]]
        /\ UNCHANGED <<refs, job, met, version>>
    BY <1>11 DEF Strip, rowVars, jobVars
  <2>2. call'[c].forgot = call[c].forgot /\ \A d \in Calls : d # c => call'[d] = call[d]
    BY <1>1, <2>1 DEF CallRecords
  <2>3. \A d \in Calls : Opened(d)' => Opened(d) /\ call'[d].forgot = call[d].forgot
    BY <2>1, <2>2 DEF Opened
  <2> QED
    BY <1>1, <2>1, <2>3, UploadTracked
<1>12. CASE Delete(c)
  <2>1. Opened(c) /\ refs' = refs \ call[c].forgot /\ UNCHANGED <<job, met>> /\ UNCHANGED Held
    BY <1>12 DEF Delete, Opened, jobVars, history, Held
  <2>2. call' = [call EXCEPT ![c] = NoCall]
    BY <1>12 DEF Delete
  <2>3. refs' \subseteq met /\ Held \subseteq met
    BY <2>1 DEF Tracked
  <2>4. \A w \in Workers : job[w].pc # "idle" => job[w].no \in met
    BY <2>3, Holds
  <2> QED
    BY <2>1, <2>3, <2>4 DEF Tracked, Known
<1> QED
  BY <1>4, <1>5, <1>6, <1>7, <1>8, <1>9, <1>10, <1>11, <1>12 DEF CallStep

\* A worker ends or begins a job; a reference it makes is about the version it held.
LEMMA JobTracked ==
  ASSUME TypeInv, Tracked, NEW w \in Workers, JobStep(w)
  PROVE  Tracked'
<1>1. /\ job \in [Workers -> JobRecords] /\ version \in [Versions -> Rows]
      /\ refs \subseteq Versions /\ job[w] \in JobRecords
      /\ \A x \in Workers : job[x].pc # "idle" => job[x].no \in Versions
  BY DEF TypeInv, TypeOK, Named
<1>2. ASSUME NEW r, job' = [job EXCEPT ![w] = r], UNCHANGED call,
             \A v \in Versions : version'[v].here = version[v].here, met \subseteq met',
             r.pc # "idle" => /\ r.no \in Versions /\ Known(r.no)
                              /\ (\E c \in Calls : Opened(c)) => r.no \in met',
             refs' = refs \/ (job[w].pc # "idle" /\ refs' = refs \cup {job[w].no})
      PROVE  Tracked'
  <2>1. job'[w] = r /\ \A x \in Workers : x # w => job'[x] = job[x]
    BY <1>1, <1>2
  <2>2. \A v \in Versions : Known(v) => Known(v)'
    BY <1>2 DEF Known
  <2>3. \A v \in refs' : v \in Versions /\ Known(v)
    BY <1>1, <1>2 DEF Tracked
  <2> DEFINE KnownNext(v) == version'[v].here \/ v \in met'
  <2>4. \A x \in Workers : job'[x].pc # "idle" => KnownNext(job'[x].no)
    <3>1. \A v \in Versions : Known(v) => KnownNext(v)
      BY <2>2 DEF Known
    <3>2. ASSUME NEW x \in Workers, x # w, job[x].pc # "idle"
          PROVE  KnownNext(job[x].no)
      BY <1>1, <3>1, <3>2 DEF Tracked
    <3>3. r.pc # "idle" => KnownNext(r.no)
      BY <1>2, <3>1
    <3> QED
      BY <2>1, <3>2, <3>3
  <2>5. ASSUME NEW c \in Calls, Opened(c)'
        PROVE  Held' \subseteq met' /\ \A v \in refs' : v \in call'[c].forgot \/ v \in met'
    <3>1. Opened(c) /\ call'[c] = call[c]
      BY <1>2, <2>5 DEF Opened
    <3>2. Held \subseteq met
      BY <3>1 DEF Tracked
    <3>3. ASSUME NEW x \in Workers, job'[x].pc # "idle"
          PROVE  job'[x].no \in met'
      BY <1>2, <2>1, <3>1, <3>2, <3>3, Holds
    <3>4. Held' \subseteq met'
      BY <3>3 DEF Held
    <3>5. job[w].pc # "idle" => job[w].no \in met
      BY <3>2, Holds
    <3>6. \A v \in refs' : v \in call[c].forgot \/ v \in met
      BY <1>2, <3>1, <3>5 DEF Tracked
    <3> QED
      BY <1>2, <3>1, <3>4, <3>6
  <2>6. \A v \in refs' : Known(v)'
    BY <2>2, <2>3
  <2> QED
    BY <2>4, <2>5, <2>6 DEF Tracked, Known
<1>3. NoJob.pc = "idle"
  BY DEF NoJob
<1>4. ASSUME NEW v \in Versions, NEW kind, NEW r, Take(w, kind, v, r), UNCHANGED <<call, version, refs>>,
             r = NoJob \/ (r.no = v /\ version[v].here)
      PROVE  Tracked'
  <2>1. (\E c \in Calls : Opened(c)) => Removing
    BY DEF Opened, Removing
  <2>2. r.pc # "idle" => r.no = v /\ version[v].here /\ r # NoJob
    BY <1>3, <1>4
  <2>3. job' = [job EXCEPT ![w] = r] /\ met \subseteq met' /\ (Removing /\ r # NoJob => v \in met')
    BY <1>4 DEF Take
  <2> QED
    BY <1>2, <1>4, <2>1, <2>2, <2>3 DEF Known
<1>5. ASSUME NEW v \in Versions, TakeExtract(w, v)
      PROVE  Tracked'
  <2>1. PICK r : /\ Take(w, "extract", v, r)
                 /\ r = NoJob \/ (version[v].here /\ \E pc \in Reads(v) : r = [pc |-> pc, no |-> v])
    BY <1>5 DEF TakeExtract
  <2>2. r = NoJob \/ (r.no = v /\ version[v].here)
    BY <2>1
  <2>3. UNCHANGED <<call, version, refs>>
    BY <1>5 DEF TakeExtract, rowVars
  <2> QED
    BY <1>4, <2>1, <2>2, <2>3
<1>6. ASSUME NEW v \in Versions, TakeIndex(w, v)
      PROVE  Tracked'
  <2> DEFINE r == IF version[v].here /\ version[v].text /\ v \in texts
                  THEN [pc |-> "indexing", no |-> v] ELSE NoJob
  <2>1. r = NoJob \/ (r.no = v /\ version[v].here)
    OBVIOUS
  <2>2. Take(w, "index", v, r) /\ UNCHANGED <<call, version, refs>>
    BY <1>6 DEF TakeIndex, rowVars
  <2> HIDE DEF r
  <2> QED
    BY <1>4, <2>1, <2>2
<1>7. CASE PutText(w)
  <2> DEFINE r == [job[w] EXCEPT !.pc = "written"]
  <2>1. r.no = job[w].no /\ job' = [job EXCEPT ![w] = r] /\ job[w].pc # "idle"
    BY <1>1, <1>7 DEF PutText, JobRecords
  <2>2. UNCHANGED <<call, version, refs, met>>
    BY <1>7 DEF PutText, rowVars, history
  <2>3. r.no \in Versions /\ Known(r.no) /\ ((\E c \in Calls : Opened(c)) => r.no \in met)
    BY <1>1, <2>1, Holds DEF Tracked
  <2> HIDE DEF r
  <2> QED
    BY <1>2, <2>1, <2>2, <2>3
<1>8. CASE CommitEmpty(w)
  <2>1. \A v \in Versions : version'[v].here = version[v].here
    BY <1>1, <1>8 DEF CommitEmpty, Rows
  <2> QED
    BY <1>2, <1>3, <1>8, <2>1 DEF CommitEmpty, history
<1>9. ASSUME NEW indexed \in BOOLEAN, CommitText(w, indexed)
      PROVE  Tracked'
  <2>1. \A v \in Versions : version'[v].here = version[v].here
    BY <1>1, <1>9 DEF CommitText, Rows
  <2>2. refs' = refs \/ (job[w].pc # "idle" /\ refs' = refs \cup {job[w].no})
    BY <1>9 DEF CommitText, Indexed
  <2> QED
    BY <1>2, <1>3, <1>9, <2>1, <2>2 DEF CommitText, history
<1>10. CASE CommitIndex(w)
  <2>1. job[w].pc # "idle" /\ refs' = refs \cup {job[w].no}
    BY <1>10 DEF CommitIndex, Indexed
  <2> QED
    BY <1>2, <1>3, <1>10, <2>1 DEF CommitIndex, history, rowVars
<1>11. CASE Raise(w)
  BY <1>2, <1>3, <1>11 DEF Raise, history, rowVars
<1> QED
  BY <1>5, <1>6, <1>7, <1>8, <1>9, <1>10, <1>11 DEF JobStep

LEMMA NextTracked ==
  ASSUME TypeInv, Tracked, [Next]_vars
  PROVE  Tracked'
<1>1. CASE Submit \/ UNCHANGED vars \/ \E k \in Keys, bytes \in Bytes : Put(k, bytes)
  <2>1. UNCHANGED <<version, refs, call, job, met>>
    BY <1>1 DEF Submit, Put, vars, rowVars, jobVars, history
  <2> QED
    BY <2>1 DEF Tracked, Known, Opened, Held
<1> QED
  BY <1>1, CallTracked, JobTracked DEF Next

\* What the student took back is cited nowhere, but for the versions that a worker
\* held while the removal was open (reporting/artifacts.py: remove_artifact;
\* evidence/service.py: forget_sources, index_evidence).
THEOREM TakenBack == Spec => []RemovedIsForgotten
<1>1. Init => Tracked
  BY DEF Init, Tracked, Opened, NoCall, NoJob
<1>2. Tracked => RemovedIsForgotten
  BY DEF Tracked, RemovedIsForgotten, Citable, Known
<1>3. Spec => []Tracked
  BY <1>1, InitTypes, NextTypes, NextTracked, PTL DEF Spec
<1> QED
  BY <1>2, <1>3, PTL

-----------------------------------------------------------------------------
(* What may be downloaded. *)

\* One request about the upload at a time is about the version after the current one;
\* the versions up to the current one are those that were confirmed.
AtOnce    == \A c, d \in Calls : Uploading(c) /\ Uploading(d) => c = d
InTurn    == \A c \in Calls : Uploading(c) => call[c].no = current + 1
Numbered  == \A v \in Versions : /\ version[v].here => v <= current + 1
                                 /\ version[v].uploaded <=> v <= current
Key(v)    == <<v, version[v].sum>>
Stored(v) == Key(v) \in late \/ object[Key(v)] = "whole"
Matching  == /\ \A c \in Calls : call[c].pc = "checked" =>
                   Stored(call[c].no) /\ call[c].sum = version[call[c].no].sum
             /\ \A v \in Versions : version[v].uploaded => Stored(v)
Orderly   == AtOnce /\ InTurn /\ Numbered /\ Matching
Alone     == /\ ~crossed /\ ~stripped => Orderly
             /\ \A c \in Calls : call[c].pc = "stripping" => stripped

\* A request about the upload begins while no other is open.
LEMMA BeginAlone ==
  ASSUME TypeInv, Alone, NEW c \in Calls, NEW r \in CallRecords, Begin(c, r),
         r.pc \in {"asking", "oversized", "checked"}, r.no = current + 1,
         r.pc = "checked" => Stored(r.no) /\ r.sum = version[r.no].sum,
         UNCHANGED <<version, current, late, stripped>>,
         \A v \in Versions : v # current + 1 => object'[Key(v)] = object[Key(v)],
         r.pc # "checked" \/ UNCHANGED object
  PROVE  Alone'
<1>1. call \in [Calls -> CallRecords] /\ current \in Int /\ \A v \in Versions : v \in Int
  BY CurrentNext DEF TypeInv, TypeOK
<1>2. call'[c] = r /\ \A d \in Calls : d # c => call'[d] = call[d]
  BY <1>1 DEF Begin
<1>3. ASSUME ~crossed', ~stripped'
      PROVE  Orderly'
  <2>1. Orderly /\ \A d \in Calls : ~Uploading(d)
    BY <1>3 DEF Begin, Alone
  <2>2. \A d \in Calls : Uploading(d)' => d = c
    BY <1>2, <2>1 DEF Uploading
  <2>3. AtOnce' /\ InTurn'
    BY <1>2, <2>2 DEF AtOnce, InTurn
  <2>4. Numbered'
    BY <2>1 DEF Orderly, Numbered
  <2>5. \A v \in Versions : version[v].uploaded => v # current + 1 /\ Stored(v)
    BY <1>1, <2>1 DEF Orderly, Numbered, Matching
  <2>6. \A v \in Versions : version'[v].uploaded => Stored(v)'
    BY <2>5 DEF Stored, Key
  <2>7. \A d \in Calls : call'[d].pc = "checked" =>
                            d = c /\ Stored(r.no)' /\ r.sum = version'[r.no].sum
    <3>1. \A d \in Calls : call'[d].pc = "checked" => d = c
      BY <2>2 DEF Uploading
    <3>2. r.pc = "checked" => Stored(r.no)'
      BY DEF Stored, Key
    <3> QED
      BY <1>2, <3>1, <3>2
  <2> QED
    BY <1>2, <2>3, <2>4, <2>6, <2>7 DEF Orderly, Matching
<1>4. \A d \in Calls : call'[d].pc = "stripping" => stripped'
  BY <1>2 DEF Alone
<1> QED
  BY <1>3, <1>4 DEF Alone

LEMMA AskAlone ==
  ASSUME TypeInv, Alone, NEW c \in Calls, NEW sum \in Sums, Ask(c, sum)
  PROVE  Alone'
<1> DEFINE r == [NoCall EXCEPT !.pc = "asking", !.no = current + 1, !.sum = sum,
                               !.fresh = Pending # current + 1]
<1>1. r \in CallRecords /\ r.no = current + 1 /\ r.pc = "asking"
  BY CurrentNext, Records DEF Ask, CallRecords, NoCall
<1>2. Begin(c, r) /\ UNCHANGED <<version, current, late, stripped>>
  BY DEF Ask, rowVars
<1>3. \A v \in Versions : v # current + 1 => object'[Key(v)] = object[Key(v)]
  BY DEF Ask, Key, TypeInv, TypeOK
<1> HIDE DEF r
<1> QED
  BY <1>1, <1>2, <1>3, BeginAlone

\* What is waiting is the version after the current one.
LEMMA PendingNext ==
  ASSUME TypeInv, Numbered, Pending # 0
  PROVE  Pending = current + 1
<1>1. Pending \in Waiting
  BY PendingWaits
<1> QED
  BY <1>1, CurrentNext DEF Waiting, Numbered

LEMMA CheckAlone ==
  ASSUME TypeInv, Alone, NEW c \in Calls, Check(c) \/ Oversized(c)
  PROVE  Alone'
<1>1. PICK pc \in {"checked", "oversized"} :
           /\ Pending # 0 /\ Begin(c, Confirming(pc))
           /\ pc = "checked" => Arrived(Pending)
           /\ UNCHANGED <<version, current, object, late, stripped>>
  BY DEF Check, Oversized, rowVars, storeVars
<1> DEFINE r == Confirming(pc)
<1>2. /\ Pending \in Versions /\ r \in CallRecords /\ r.pc = pc /\ r.no = Pending
      /\ r.sum = version[Pending].sum
  BY <1>1, Confirmings
<1>3. CASE crossed' \/ stripped'
  <2>1. call \in [Calls -> CallRecords] /\ call' = [call EXCEPT ![c] = r]
    BY <1>1 DEF Begin, TypeInv, TypeOK
  <2> HIDE DEF r
  <2>2. \A d \in Calls : call'[d].pc = "stripping" => stripped'
    BY <1>1, <1>2, <2>1 DEF Alone
  <2> QED
    BY <1>3, <2>2 DEF Alone
<1>4. CASE ~crossed' /\ ~stripped'
  <2>1. Orderly
    BY <1>1, <1>4 DEF Alone, Begin
  <2>2. Pending = current + 1
    BY <1>1, <2>1, PendingNext DEF Orderly
  <2>3. r.pc = "checked" => Stored(r.no) /\ r.sum = version[r.no].sum
    BY <1>1, <1>2 DEF Arrived, Stored, Key
  <2>4. Begin(c, r)
    BY <1>1
  <2> HIDE DEF r
  <2> QED
    BY <1>1, <1>2, <2>2, <2>3, <2>4, BeginAlone
<1> QED
  BY <1>3, <1>4

\* A request about the upload ends, having done to the rows and the store what no
\* confirmed version rests on.
LEMMA EndAlone ==
  ASSUME TypeInv, Alone, NEW c \in Calls, Grant(c) \/ Confirm(c) \/ Discard(c)
  PROVE  Alone'
<1>1. /\ call \in [Calls -> CallRecords] /\ object \in [Keys -> Contents]
      /\ version \in [Versions -> Rows] /\ current \in Int /\ call[c] \in CallRecords
      /\ Uploading(c) /\ call[c].no \in Versions /\ \A v \in Versions : v \in Int
  BY CurrentNext DEF TypeInv, TypeOK, Grant, Confirm, Discard, Uploading, Named, Contents
<1>2. UNCHANGED <<crossed, stripped, late>>
  BY DEF Grant, Confirm, Discard, history
<1>3. call'[c].pc = "idle" /\ \A d \in Calls : d # c => call'[d] = call[d]
  BY <1>1 DEF Grant, Confirm, Discard, NoCall
<1>4. ASSUME ~crossed, ~stripped
      PROVE  Orderly'
  <2>1. Orderly /\ call[c].no = current + 1 /\ \A d \in Calls : d # c => ~Uploading(d)
    BY <1>1, <1>4 DEF Alone, Orderly, AtOnce, InTurn
  <2>2. \A d \in Calls : ~Uploading(d)'
    BY <1>3, <2>1 DEF Uploading
  <2>3. AtOnce' /\ InTurn' /\ \A d \in Calls : call'[d].pc # "checked"
    BY <2>2 DEF AtOnce, InTurn, Uploading
  <2>4. \A v \in Versions : version[v].uploaded => v # current + 1 /\ Stored(v)
    BY <1>1, <2>1 DEF Orderly, Numbered, Matching
  <2>5. CASE Grant(c)
    <3>1. /\ \A v \in Versions : v # current + 1 => version'[v] = version[v]
          /\ ~version'[current + 1].uploaded /\ UNCHANGED <<object, current>>
      BY <1>1, <2>1, <2>5 DEF Grant, Orderly, Numbered, Row, NoRow, Rows
    <3>2. Numbered'
      BY <1>1, <2>1, <3>1 DEF Orderly, Numbered
    <3>3. \A v \in Versions : version'[v].uploaded => Stored(v)'
      BY <1>2, <2>4, <3>1 DEF Stored, Key
    <3> QED
      BY <2>3, <3>2, <3>3 DEF Orderly, Matching
  <2>6. CASE Discard(c)
    <3>1. UNCHANGED <<version, current>>
      BY <2>6 DEF Discard, rowVars
    <3>2. \A v \in Versions : v # current + 1 => object'[Key(v)] = object[Key(v)]
      BY <1>1, <2>1, <2>6 DEF Discard, Key
    <3>3. \A v \in Versions : version'[v].uploaded => Stored(v)'
      BY <1>2, <2>4, <3>1, <3>2 DEF Stored, Key
    <3>4. Numbered'
      BY <2>1, <3>1 DEF Orderly, Numbered
    <3> QED
      BY <2>3, <3>3, <3>4 DEF Orderly, Matching
  <2>7. CASE Confirm(c)
    <3>1. /\ \A v \in Versions : v # current + 1 => version'[v] = version[v]
          /\ version'[current + 1].uploaded /\ version'[current + 1].sum = version[current + 1].sum
          /\ current' = current + 1 /\ UNCHANGED object
      BY <1>1, <2>1, <2>7 DEF Confirm, Rows, storeVars
    <3>2. Numbered'
      BY <1>1, <2>1, <3>1 DEF Orderly, Numbered
    <3>3. Stored(current + 1)
      BY <2>1, <2>7 DEF Confirm, Orderly, Matching
    <3>4. \A v \in Versions : version'[v].sum = version[v].sum
      BY <3>1
    <3>5. \A v \in Versions : version'[v].uploaded => v = current + 1 \/ version[v].uploaded
      BY <3>1
    <3>6. \A v \in Versions : version'[v].uploaded => Stored(v)'
      BY <1>2, <2>4, <3>1, <3>3, <3>4, <3>5 DEF Stored, Key
    <3> QED
      BY <2>3, <3>2, <3>6 DEF Orderly, Matching
  <2> QED
    BY <2>5, <2>6, <2>7
<1>5. \A d \in Calls : call'[d].pc = "stripping" => stripped'
  BY <1>2, <1>3 DEF Alone
<1> QED
  BY <1>2, <1>4, <1>5 DEF Alone

\* A file that is put where a confirmed version or a confirmation rests is late, or
\* the very file again.
LEMMA PutAlone ==
  ASSUME TypeInv, Alone, NEW k \in Keys, NEW bytes \in Bytes, Put(k, bytes)
  PROVE  Alone'
<1>1. UNCHANGED <<version, current, call, crossed, stripped>>
  BY DEF Put, rowVars
<1>2. /\ object' = [object EXCEPT ![k] = bytes] /\ object \in [Keys -> Contents]
      /\ late' = IF Relied(k) /\ bytes # "whole" THEN late \cup {k} ELSE late \ {k}
  BY DEF Put, TypeInv, TypeOK, Contents
<1>3. ASSUME NEW v \in Versions, Stored(v), Key(v) = k => Relied(k)
      PROVE  Stored(v)'
  <2>1. Key(v)' = Key(v)
    BY <1>1 DEF Key
  <2>2. CASE Key(v) # k
    BY <1>2, <1>3, <2>1, <2>2 DEF Stored
  <2>3. CASE Key(v) = k
    <3>1. k \in late' \/ bytes = "whole"
      BY <1>2, <1>3, <2>3
    <3>2. object'[k] = bytes
      BY <1>2
    <3> QED
      BY <2>1, <2>3, <3>1, <3>2 DEF Stored
  <2> QED
    BY <2>2, <2>3
<1>4. ASSUME Orderly
      PROVE  Orderly'
  <2>1. AtOnce' /\ InTurn' /\ Numbered'
    BY <1>1, <1>4 DEF Orderly, AtOnce, InTurn, Numbered, Uploading
  <2>2. \A v \in Versions : version[v].uploaded => Stored(v)'
    <3> SUFFICES ASSUME NEW v \in Versions, version[v].uploaded
                 PROVE  Stored(v)'
      OBVIOUS
    <3>1. Stored(v)
      BY <1>4 DEF Orderly, Matching
    <3>2. Key(v) = k => Relied(k)
      BY DEF Key, Relied
    <3> QED
      BY <1>3, <3>1, <3>2
  <2>3. ASSUME NEW c \in Calls, call[c].pc = "checked"
        PROVE  Stored(call[c].no)' /\ call[c].sum = version[call[c].no].sum
    <3>1. PICK v \in Versions : v = call[c].no
      BY <2>3 DEF TypeInv, Named, Uploading
    <3>2. Stored(v) /\ call[c].sum = version[v].sum
      BY <1>4, <2>3, <3>1 DEF Orderly, Matching
    <3>3. Key(v) = k => Relied(k)
      BY <2>3, <3>1, <3>2 DEF Key, Relied
    <3>4. Stored(v)'
      BY <1>3, <3>2, <3>3
    <3>5. Stored(call[c].no)' = (<<v, version'[v].sum>> \in late' \/ object'[<<v, version'[v].sum>>] = "whole")
      BY <1>1, <3>1 DEF Stored, Key
    <3> QED
      BY <3>1, <3>2, <3>4, <3>5 DEF Stored, Key
  <2> QED
    BY <1>1, <2>1, <2>2, <2>3 DEF Orderly, Matching
<1> QED
  BY <1>1, <1>4 DEF Alone

\* The steps that leave confirmed versions, and where uploads stand, alone.
LEMMA AloneFrame ==
  ASSUME Alone, UNCHANGED <<current, object, late, crossed, stripped>>,
         \A v \in Versions : /\ version'[v].here = version[v].here
                             /\ version'[v].uploaded = version[v].uploaded
                             /\ version'[v].sum = version[v].sum,
         \A c \in Calls : call'[c] = call[c] \/ call'[c].pc \in {"idle", "removing"},
         \A c \in Calls : Uploading(c) => call[c].no \in Versions
  PROVE  Alone'
<1>1. \A c \in Calls : Uploading(c)' => Uploading(c) /\ call'[c] = call[c]
  BY DEF Uploading
<1>2. \A v \in Versions : Stored(v)' = Stored(v)
  BY DEF Stored, Key
<1>3. Orderly => AtOnce' /\ InTurn' /\ Numbered'
  BY <1>1 DEF Orderly, AtOnce, InTurn, Numbered
<1>4. Orderly => Matching'
  <2>1. \A c \in Calls : call'[c].pc = "checked" => Uploading(c) /\ call'[c] = call[c]
    BY <1>1 DEF Uploading
  <2>2. ASSUME Orderly, NEW c \in Calls, call'[c].pc = "checked"
        PROVE  /\ Stored(call[c].no) /\ call[c].no \in Versions /\ call'[c] = call[c]
               /\ call[c].sum = version[call[c].no].sum
    BY <2>1, <2>2 DEF Orderly, Matching
  <2>3. \A v \in Versions : Stored(v) =>
            <<v, version'[v].sum>> \in late' \/ object'[<<v, version'[v].sum>>] = "whole"
    BY <1>2 DEF Stored, Key
  <2>4. ASSUME Orderly, NEW v \in Versions, version'[v].uploaded
        PROVE  Stored(v)'
    BY <1>2, <2>4 DEF Orderly, Matching
  <2>5. ASSUME Orderly, NEW c \in Calls, call'[c].pc = "checked"
        PROVE  Stored(call[c].no)' /\ call'[c].sum = version'[call'[c].no].sum /\ call'[c] = call[c]
    <3>1. PICK v \in Versions : v = call[c].no
      BY <2>2, <2>5
    <3>2. Stored(v) /\ call[c].sum = version[v].sum /\ call'[c] = call[c]
      BY <2>2, <2>5, <3>1
    <3>3. <<v, version'[v].sum>> \in late' \/ object'[<<v, version'[v].sum>>] = "whole"
      BY <2>3, <3>2
    <3> QED
      BY <3>1, <3>2, <3>3 DEF Stored, Key
  <2> QED
    BY <2>4, <2>5 DEF Matching
<1> QED
  BY <1>3, <1>4 DEF Alone, Orderly

LEMMA NextAlone ==
  ASSUME TypeInv, Alone, [Next]_vars
  PROVE  Alone'
<1>1. /\ call \in [Calls -> CallRecords] /\ version \in [Versions -> Rows]
      /\ \A c \in Calls : Uploading(c) => call[c].no \in Versions
      /\ \A c \in Calls : call[c] \in CallRecords
  BY DEF TypeInv, TypeOK, Named
<1>2. ASSUME NEW c \in Calls, Remove(c) \/ Leave(c)
      PROVE  Alone'
  <2>1. UNCHANGED <<current, object, late, crossed, stripped, version>>
    BY <1>2 DEF Remove, Leave, rowVars, storeVars, history
  <2>2. call'[c].pc \in {"idle", "removing"} /\ \A d \in Calls : d # c => call'[d] = call[d]
    <3>1. CASE Leave(c)
      BY <1>1, <3>1 DEF Leave, NoCall
    <3>2. CASE Remove(c)
      <4> DEFINE keys == {<<v, version[v].sum>> : v \in {v \in Versions : version[v].here}}
                 r == [NoCall EXCEPT !.pc = "removing", !.forgot = Forgotten, !.keys = keys]
      <4>1. call' = [call EXCEPT ![c] = r]
        BY <3>2 DEF Remove
      <4> HIDE DEF keys
      <4>2. r.pc = "removing"
        BY DEF NoCall
      <4> HIDE DEF r
      <4> QED
        BY <1>1, <4>1, <4>2
    <3> QED
      BY <1>2, <3>1, <3>2
  <2> QED
    BY <1>1, <2>1, <2>2, AloneFrame
<1>3. ASSUME NEW c \in Calls, Strip(c)
      PROVE  Alone'
  BY <1>3 DEF Strip, Alone
<1>4. ASSUME NEW c \in Calls, Delete(c)
      PROVE  Alone'
  <2>1. stripped /\ UNCHANGED stripped
    BY <1>4 DEF Delete, Alone, history
  <2> QED
    BY <2>1 DEF Alone
<1>5. ASSUME NEW w \in Workers, JobStep(w)
      PROVE  Alone'
  <2>1. UNCHANGED <<current, object, late, crossed, stripped, call>>
    BY <1>5 DEF JobStep, TakeExtract, TakeIndex, PutText, CommitEmpty, CommitText, CommitIndex, Raise,
                rowVars, storeVars, history
  <2>2. \A v \in Versions : /\ version'[v].here = version[v].here
                            /\ version'[v].uploaded = version[v].uploaded
                            /\ version'[v].sum = version[v].sum
    <3>1. ASSUME NEW v \in Versions, NEW state, NEW text,
                 version' = [version EXCEPT ![v] = [version[v] EXCEPT !.state = state, !.text = text]]
          PROVE  \A u \in Versions : /\ version'[u].here = version[u].here
                                     /\ version'[u].uploaded = version[u].uploaded
                                     /\ version'[u].sum = version[u].sum
      <4>1. version[v] \in Rows
        BY <1>1
      <4> DEFINE r == [version[v] EXCEPT !.state = state, !.text = text]
      <4>2. r.here = version[v].here /\ r.uploaded = version[v].uploaded /\ r.sum = version[v].sum
        BY <4>1 DEF Rows
      <4>3. version' = [version EXCEPT ![v] = r]
        BY <3>1
      <4> HIDE DEF r
      <4> QED
        BY <1>1, <4>2, <4>3
    <3>2. job[w].pc # "idle" => job[w].no \in Versions
      BY DEF TypeInv, Named
    <3>3. CASE CommitEmpty(w)
      <4>1. PICK state : version' = [version EXCEPT ![job[w].no] =
                                       [version[job[w].no] EXCEPT !.state = state]]
        BY <3>3 DEF CommitEmpty
      <4>2. job[w].no \in Versions /\ version[job[w].no] \in Rows
        BY <1>1, <3>2, <3>3 DEF CommitEmpty
      <4>3. [version[job[w].no] EXCEPT !.state = state]
              = [version[job[w].no] EXCEPT !.state = state, !.text = version[job[w].no].text]
        BY <4>2 DEF Rows
      <4> QED
        BY <3>1, <4>1, <4>2, <4>3
    <3>4. ASSUME NEW indexed, CommitText(w, indexed)
          PROVE  \A u \in Versions : /\ version'[u].here = version[u].here
                                     /\ version'[u].uploaded = version[u].uploaded
                                     /\ version'[u].sum = version[u].sum
      <4>1. version' = [version EXCEPT ![job[w].no] =
                          [version[job[w].no] EXCEPT !.state = "ok", !.text = TRUE]]
        BY <3>4 DEF CommitText
      <4>2. job[w].no \in Versions
        BY <3>2, <3>4 DEF CommitText
      <4> QED
        BY <3>1, <4>1, <4>2
    <3>5. CASE UNCHANGED version
      BY <3>5
    <3> QED
      BY <1>5, <3>3, <3>4, <3>5
      DEF JobStep, TakeExtract, TakeIndex, PutText, CommitIndex, Raise, rowVars
  <2> QED
    BY <1>1, <2>1, <2>2, AloneFrame
<1>6. CASE Submit \/ UNCHANGED vars
  <2>1. UNCHANGED <<current, object, late, crossed, stripped, call, version>>
    BY <1>6 DEF Submit, vars, rowVars, storeVars, history
  <2> QED
    BY <1>1, <2>1, AloneFrame
<1> QED
  BY <1>2, <1>3, <1>4, <1>5, <1>6, AskAlone, CheckAlone, EndAlone, PutAlone DEF Next, CallStep

\* Of what was confirmed the store has the very file that was promised, or what was
\* put over it under a URL that still lived, as long as requests about the upload do
\* not overlap and no removal has begun to delete the objects (reporting/artifacts.py: request_upload, confirm_upload).
THEOREM OnlyWholeFiles == Spec => []ConfirmedIsWhole
<1>1. Init => Alone
  <2> SUFFICES ASSUME Init
               PROVE  Alone
    OBVIOUS
  <2>1. current = 0 /\ \A v \in Versions : v \in Nat /\ v > 0 /\ version[v] = NoRow
    BY AttachmentsAssumption DEF Init, Versions
  <2>2. \A c \in Calls : call[c].pc = "idle"
    BY DEF Init, NoCall
  <2>3. Numbered /\ Matching
    BY <2>1, <2>2 DEF Numbered, Matching, NoRow
  <2>4. AtOnce /\ InTurn
    BY <2>2 DEF AtOnce, InTurn, Uploading
  <2> QED
    BY <2>2, <2>3, <2>4 DEF Alone, Orderly
<1>2. Alone => ConfirmedIsWhole
  BY DEF Alone, Orderly, Matching, Stored, Key, ConfirmedIsWhole, Kept, Downloadable
<1>3. Spec => []Alone
  BY <1>1, InitTypes, NextTypes, NextAlone, PTL DEF Spec
<1> QED
  BY <1>2, <1>3, PTL

=============================================================================
