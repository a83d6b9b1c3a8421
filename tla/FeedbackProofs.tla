--------------------------- MODULE FeedbackProofs ---------------------------
(***************************************************************************)
(* Theorems about Feedback, for every number of calls, feedbacks, files    *)
(* and keys.  The invariant says what the row lock and the key protect:    *)
(* what a call has checked under them still holds when it commits.         *)
(***************************************************************************)
EXTENDS Feedback, FiniteSetTheorems, TLAPS

Rowed == {"locked", "refusing", "checked"}

\* What is true of a call's record r, whatever the other calls do.
Fits(r) ==
    /\ r.pc = "idle" => r = Idle
    /\ r.key # None => r.op \in Keyed
    /\ r.op = "create" => r.expected = 0
    /\ r.pc # "idle" /\ r.op # "create" => r.f \in Feedbacks /\ version[r.f] # 0
    /\ r.pc \in Rowed => r.op # "create"
    /\ r.pc \notin {"idle", "asked"} /\ r.key # None => claim[r.op][r.key] = NoClaim
    /\ r.pc # "idle" /\ r.op \in {"update", "publish"} => r.expected # 0
    /\ r.pc = "locked" /\ r.op \in {"update", "publish"} => r.expected = version[r.f]
    /\ r.pc # "idle" /\ r.op = "confirm" => r.a \in Files /\ file[r.a].of = r.f
    /\ r.pc \in Rowed /\ r.op = "confirm" =>
          file[r.a].state = "pending" /\ r.expected \in {0, version[r.f]}
    /\ r.pc # "idle" /\ r.op \in {"upload", "inline"} => r.a \in Files /\ file[r.a] = NoUpload
    /\ r.pc = "refusing" => r.op = "confirm"
    /\ r.pc = "checked" =>
          /\ r.op \in {"confirm", "inline"} /\ object[r.a] = "promised"
          /\ r.expected \in {0, version[r.f]} /\ ~Full(r.f)

CallsFit == \A c \in Calls : Fits(call[c])

\* One call has a row, a key or a fresh file at a time.
SameRow(r, q)  == r.pc \in Rowed /\ q.pc \in Rowed /\ r.f = q.f
SameKey(r, q)  == /\ r.pc \notin {"idle", "asked"} /\ q.pc \notin {"idle", "asked"}
                  /\ r.key # None /\ r.key = q.key /\ r.op = q.op
SameFile(r, q) == r.pc # "idle" /\ r.op \in {"upload", "inline"} /\ r.a = q.a
Clash(r, q)    == SameRow(r, q) \/ SameKey(r, q) \/ SameFile(r, q)

OneAtATime == \A c, d \in Calls : c # d => ~Clash(call[c], call[d])

RecordsAgree ==
    /\ \A f \in Feedbacks : /\ published[f] <= version[f]
                            /\ version[f] = 0 => madeWith[f] = None
    /\ \A a \in Files : file[a].state = "none" => file[a] = NoUpload

Inv ==
    /\ TypeOK /\ CallsFit /\ OneAtATime /\ RecordsAgree
    /\ AttachedIsReady /\ BuiltOnWhatWasRead /\ AtMostMaxFiles
    /\ CreatedOnce /\ ClaimMeansDone

-----------------------------------------------------------------------------
LEMMA IdleFits == Idle \in CallRecords /\ Fits(Idle)
  BY FeedbackAssumption
  DEF Idle, CallRecords, Fits, Operations, Rowed

LEMMA IdleNeverClashes ==
  ASSUME Inv, NEW c \in Calls, NEW d \in Calls
  PROVE  ~Clash(Idle, call[d]) /\ ~Clash(call[c], Idle)
  BY FeedbackAssumption
  DEF Idle, Clash, SameRow, SameKey, SameFile, Rowed, Inv, CallsFit, Fits

LEMMA InitInv == Init => Inv
  <1> SUFFICES ASSUME Init PROVE Inv  OBVIOUS
  <1>1. TypeOK
    <2>1. NoRevision \in Revisions /\ NoUpload \in Uploads /\ NoClaim \in Claims
      BY FeedbackAssumption DEF NoRevision, Revisions, NoUpload, Uploads, NoClaim, Claims
    <2>2. Idle \in CallRecords
      BY FeedbackAssumption DEF Idle, CallRecords, Operations
    <2>3. /\ version \in [Feedbacks -> 0 .. MaxVersion]
          /\ revision \in [Feedbacks -> [Versions -> Revisions]]
          /\ published \in [Feedbacks -> 0 .. MaxVersion]
          /\ madeWith \in [Feedbacks -> Keys \cup {None}]
      BY <2>1, FeedbackAssumption DEF Init
    <2>4. /\ file \in [Files -> Uploads]
          /\ object \in [Files -> {"absent", "promised", "other"}]
          /\ claim \in [Keyed -> [Keys -> Claims]]
          /\ call \in [Calls -> CallRecords]
      BY <2>1, <2>2 DEF Init
    <2> QED  BY <2>3, <2>4 DEF TypeOK
  <1>2. CallsFit
    BY DEF Init, CallsFit, Fits, Idle, Rowed
  <1>3. OneAtATime
    BY DEF Init, OneAtATime, Clash, SameRow, SameKey, SameFile, Idle, Rowed
  <1>4. RecordsAgree
    BY DEF Init, RecordsAgree, NoUpload
  <1>5. AttachedIsReady /\ BuiltOnWhatWasRead /\ AtMostMaxFiles
    BY DEF Init, AttachedIsReady, BuiltOnWhatWasRead, AtMostMaxFiles
  <1>6. CreatedOnce /\ ClaimMeansDone
    BY FeedbackAssumption DEF Init, CreatedOnce, ClaimMeansDone, NoClaim, Keyed
  <1> QED  BY <1>1, <1>2, <1>3, <1>4, <1>5, <1>6 DEF Inv

\* A call moves on, and nothing else does.
LEMMA CallMoves ==
  ASSUME Inv, NEW c \in Calls, NEW r \in CallRecords, Fits(r),
         \A d \in Calls \ {c} : ~Clash(r, call[d]) /\ ~Clash(call[d], r),
         call' = [call EXCEPT ![c] = r],
         UNCHANGED <<feedbackVars, file, object, claim>>
  PROVE  Inv'
  <1> USE DEF Inv, feedbackVars
  <1>1. TypeOK'  BY DEF TypeOK, Versions
  <1>2. CallsFit'
    <2> SUFFICES ASSUME NEW d \in Calls PROVE Fits(call[d])'  BY DEF CallsFit
    <2>1. call'[d] \in {r, call[d]}  BY DEF TypeOK
    <2>2. Fits(call'[d])  BY <2>1 DEF CallsFit
    <2> QED  BY <2>2 DEF Fits, Full, Head
  <1>3. OneAtATime'
    BY DEF OneAtATime, TypeOK, Clash, SameRow, SameKey, SameFile
  <1>4. RecordsAgree'  BY DEF RecordsAgree
  <1>5. AttachedIsReady' /\ BuiltOnWhatWasRead' /\ AtMostMaxFiles'
    BY DEF AttachedIsReady, BuiltOnWhatWasRead, AtMostMaxFiles
  <1>6. CreatedOnce' /\ ClaimMeansDone'
    BY DEF CreatedOnce, ClaimMeansDone
  <1> QED  BY <1>1, <1>2, <1>3, <1>4, <1>5, <1>6

-----------------------------------------------------------------------------
(* Steps that change nothing but the call. *)

LEMMA EndsWithoutWriting ==
  ASSUME Inv, NEW c \in Calls, Done(c), UNCHANGED <<feedbackVars, file, object, claim>>
  PROVE  Inv'
  BY IdleFits, IdleNeverClashes, CallMoves DEF Done

LEMMA CallTypes ==
  ASSUME Inv, NEW c \in Calls
  PROVE  call[c] \in CallRecords /\ Fits(call[c])
  BY DEF Inv, TypeOK, CallsFit

\* A call that arrives with no file of its own, or with an unused one.
LEMMA AskInv ==
  ASSUME Inv, NEW c \in Calls, NEW r \in CallRecords, Ask(c, r), Fits(r),
         r.pc = "asked" \/ (r.pc = "claimed" /\ r.key = None),
         \/ r.a = None /\ r.op \notin {"upload", "inline"}
         \/ r.a \in Files /\ file[r.a] # NoUpload /\ r.op \notin {"upload", "inline"}
         \/ r.a \in Files /\ Unused(r.a)
  PROVE  Inv'
  <1>1. ASSUME NEW d \in Calls \ {c}
        PROVE  ~Clash(r, call[d]) /\ ~Clash(call[d], r)
    <2>1. Fits(call[d])  BY CallTypes
    <2> QED
      BY <2>1, FeedbackAssumption
      DEF Clash, SameRow, SameKey, SameFile, Rowed, Unused, Fits
  <1> QED  BY <1>1, CallMoves DEF Ask

LEMMA ArriveInv ==
  ASSUME Inv, NEW c \in Calls, Arrive(c)
  PROVE  Inv'
  <1> USE FeedbackAssumption
  <1>1. ASSUME NEW k \in Keys \cup {None},
               AskCreate(c, k)
        PROVE  Inv'
    <2> DEFINE r == [Idle EXCEPT !.pc = "asked", !.op = "create",
                                 !.key = k]
    <2>1. r \in CallRecords  BY IdleFits DEF CallRecords, Operations
    <2>2. /\ r.pc = "asked" /\ r.op = "create" /\ r.f = None
          /\ r.key = k /\ r.a = None /\ r.expected = 0
      BY DEF Idle
    <2>3. Ask(c, r)  BY <1>1 DEF AskCreate
    <2> HIDE DEF r
    <2>4. Fits(r)  BY <2>2 DEF Fits, Keyed, Rowed
    <2> QED  BY <2>1, <2>2, <2>3, <2>4, AskInv
  <1>2. ASSUME NEW f \in Feedbacks, NEW e \in 0 .. MaxVersion, NEW k \in Keys \cup {None},
               AskPublish(c, f, k, e)
        PROVE  Inv'
    <2> DEFINE r == [Idle EXCEPT !.pc = "asked", !.op = "publish",
                                 !.f = f, !.key = k, !.expected = e]
    <2>0. version[f] # 0 /\ e # 0  BY <1>2 DEF AskPublish, Inv, TypeOK
    <2>1. r \in CallRecords  BY IdleFits DEF CallRecords, Operations
    <2>2. /\ r.pc = "asked" /\ r.op = "publish" /\ r.f = f
          /\ r.key = k /\ r.a = None /\ r.expected = e
      BY DEF Idle
    <2>3. Ask(c, r)  BY <1>2 DEF AskPublish
    <2> HIDE DEF r
    <2>4. Fits(r)  BY <2>0, <2>2 DEF Fits, Keyed, Rowed
    <2> QED  BY <2>0, <2>1, <2>2, <2>3, <2>4, AskInv
  <1>3. ASSUME NEW f \in Feedbacks, NEW e \in 0 .. MaxVersion, NEW remove \in SUBSET Files,
               AskUpdate(c, f, e, remove)
        PROVE  Inv'
    <2> DEFINE r == [Idle EXCEPT !.pc = "claimed", !.op = "update",
                                 !.f = f, !.expected = e, !.removing = remove]
    <2>0. version[f] # 0 /\ e # 0  BY <1>3 DEF AskUpdate, RoomFor, Inv, TypeOK
    <2>1. r \in CallRecords  BY IdleFits DEF CallRecords, Operations
    <2>2. /\ r.pc = "claimed" /\ r.op = "update" /\ r.f = f
          /\ r.key = None /\ r.a = None /\ r.expected = e
      BY DEF Idle
    <2>3. Ask(c, r)  BY <1>3 DEF AskUpdate
    <2> HIDE DEF r
    <2>4. Fits(r)  BY <2>0, <2>2 DEF Fits, Keyed, Rowed
    <2> QED  BY <2>0, <2>1, <2>2, <2>3, <2>4, AskInv
  <1>4. ASSUME NEW f \in Feedbacks, NEW e \in 0 .. MaxVersion, NEW a \in Files,
               AskInline(c, f, a, e)
        PROVE  Inv'
    <2> DEFINE r == [Idle EXCEPT !.pc = "claimed", !.op = "inline",
                                 !.f = f, !.a = a, !.expected = e]
    <2>0. version[f] # 0 /\ Unused(a)  BY <1>4 DEF AskInline, RoomFor
    <2>1. r \in CallRecords  BY IdleFits DEF CallRecords, Operations
    <2>2. /\ r.pc = "claimed" /\ r.op = "inline" /\ r.f = f
          /\ r.key = None /\ r.a = a /\ r.expected = e
      BY DEF Idle
    <2>3. Ask(c, r)  BY <1>4 DEF AskInline
    <2> HIDE DEF r
    <2>4. Fits(r)  BY <2>0, <2>2 DEF Fits, Keyed, Rowed, Unused
    <2> QED  BY <2>0, <2>1, <2>2, <2>3, <2>4, AskInv
  <1>5. ASSUME NEW f \in Feedbacks, NEW e \in 0 .. MaxVersion, NEW a \in Files,
               AskConfirm(c, f, a, e)
        PROVE  Inv'
    <2> DEFINE r == [Idle EXCEPT !.pc = "claimed", !.op = "confirm",
                                 !.f = f, !.a = a, !.expected = e]
    <2>0. version[f] # 0 /\ file[a].of = f /\ file[a] # NoUpload
      BY <1>5 DEF AskConfirm, RoomFor, NoUpload
    <2>1. r \in CallRecords  BY IdleFits DEF CallRecords, Operations
    <2>2. /\ r.pc = "claimed" /\ r.op = "confirm" /\ r.f = f
          /\ r.key = None /\ r.a = a /\ r.expected = e
      BY DEF Idle
    <2>3. Ask(c, r)  BY <1>5 DEF AskConfirm
    <2> HIDE DEF r
    <2>4. Fits(r)  BY <2>0, <2>2 DEF Fits, Keyed, Rowed
    <2> QED  BY <2>0, <2>1, <2>2, <2>3, <2>4, AskInv
  <1>6. ASSUME NEW f \in Feedbacks, NEW a \in Files,
               AskUpload(c, f, a)
        PROVE  Inv'
    <2> DEFINE r == [Idle EXCEPT !.pc = "claimed", !.op = "upload",
                                 !.f = f, !.a = a]
    <2>0. version[f] # 0 /\ Unused(a)  BY <1>6 DEF AskUpload
    <2>1. r \in CallRecords  BY IdleFits DEF CallRecords, Operations
    <2>2. /\ r.pc = "claimed" /\ r.op = "upload" /\ r.f = f
          /\ r.key = None /\ r.a = a /\ r.expected = 0
      BY DEF Idle
    <2>3. Ask(c, r)  BY <1>6 DEF AskUpload
    <2> HIDE DEF r
    <2>4. Fits(r)  BY <2>0, <2>2 DEF Fits, Keyed, Rowed, Unused
    <2> QED  BY <2>0, <2>1, <2>2, <2>3, <2>4, AskInv
  <1> QED  BY <1>1, <1>2, <1>3, <1>4, <1>5, <1>6 DEF Arrive

\* A call that goes on to pc under what it holds already, or now takes.
LEMMA GoesOn ==
  ASSUME Inv, NEW c \in Calls, NEW pc \in {"claimed", "locked", "refusing", "checked"},
         call[c].pc # "idle", call' = [call EXCEPT ![c].pc = pc],
         Fits([call[c] EXCEPT !.pc = pc]),
         call[c].pc \in Rowed \/ pc = "claimed" \/ \A d \in Calls : ~HoldsRow(d, call[c].f),
         \/ call[c].pc # "asked" \/ call[c].key = None
         \/ \A d \in Calls \ {c} : ~HoldsKey(d, call[c].op, call[c].key),
         UNCHANGED <<feedbackVars, file, object, claim>>
  PROVE  Inv'
  <1> DEFINE r == [call[c] EXCEPT !.pc = pc]
  <1>0. call[c] \in CallRecords  BY CallTypes
  <1>1. /\ r \in CallRecords /\ r.pc = pc /\ r.f = call[c].f /\ r.key = call[c].key
        /\ r.op = call[c].op /\ r.a = call[c].a
    BY <1>0 DEF CallRecords
  <1>2. call' = [call EXCEPT ![c] = r] /\ Fits(r)  OBVIOUS
  <1> HIDE DEF r
  <1>3. ASSUME NEW d \in Calls \ {c}
        PROVE  ~Clash(r, call[d]) /\ ~Clash(call[d], r)
    <2>1. ~Clash(call[c], call[d]) /\ ~Clash(call[d], call[c])  BY DEF Inv, OneAtATime
    <2> QED
      BY <1>1, <2>1 DEF Clash, SameRow, SameKey, SameFile, Rowed, HoldsRow, HoldsKey
  <1> QED  BY <1>1, <1>2, <1>3, CallMoves

LEMMA WaitInv ==
  ASSUME Inv, NEW c \in Calls, Claim(c) \/ Lock(c) \/ Fetch(c) \/ Abort(c)
  PROVE  Inv'
  <1> DEFINE r(pc) == [call[c] EXCEPT !.pc = pc]
  <1>0. call[c] \in CallRecords /\ Fits(call[c])  BY CallTypes
  <1>1. CASE Done(c) /\ UNCHANGED <<feedbackVars, file, object, claim>>
    BY <1>1, EndsWithoutWriting
  <1>2. CASE Claim(c) /\ ~Done(c)
    <2>1. /\ call[c].pc = "asked" /\ call' = [call EXCEPT ![c].pc = "claimed"]
          /\ UNCHANGED <<feedbackVars, file, object, claim>>
          /\ call[c].key = None \/ claim[call[c].op][call[c].key] = NoClaim
          /\ call[c].key = None \/ \A d \in Calls \ {c} : ~HoldsKey(d, call[c].op, call[c].key)
      BY <1>2 DEF Claim
    <2>2. Fits(r("claimed"))  BY <1>0, <2>1 DEF CallRecords, Fits, Rowed
    <2> QED  BY <2>1, <2>2, GoesOn
  <1>3. CASE Lock(c) /\ ~Done(c)
    <2>1. /\ call[c].pc = "claimed" /\ call[c].op # "create" /\ ~Refused(c)
          /\ call' = [call EXCEPT ![c].pc = "locked"]
          /\ UNCHANGED <<feedbackVars, file, object, claim>>
          /\ \A d \in Calls : ~HoldsRow(d, call[c].f)
      BY <1>3 DEF Lock
    <2>2. call[c].op = "confirm" => file[call[c].a].state = "pending"
      <3> SUFFICES ASSUME call[c].op = "confirm" PROVE file[call[c].a].state = "pending"
        OBVIOUS
      <3>1. call[c].a \in Files /\ file[call[c].a].of \in Feedbacks
        BY <1>0, <2>1 DEF Fits
      <3>2. file[call[c].a].state \in {"none", "pending", "ready"}
        BY <3>1 DEF Inv, TypeOK, Uploads
      <3>3. file[call[c].a].state # "none"
        BY <3>1, FeedbackAssumption DEF Inv, RecordsAgree, NoUpload
      <3> QED  BY <2>1, <3>2, <3>3 DEF Refused
    <2>3. call[c].op # "inline" => call[c].expected \in {0, version[call[c].f]}
      BY <2>1 DEF Refused
    <2>4. call[c].op \in {"update", "publish"} => call[c].expected # 0
      BY <1>0, <2>1 DEF Fits
    <2>5. Fits(r("locked"))
      BY <1>0, <2>1, <2>2, <2>3, <2>4 DEF CallRecords, Fits, Rowed
    <2> QED  BY <2>1, <2>5, GoesOn
  <1>4. CASE Fetch(c) /\ ~Done(c)
    <2>1. /\ call[c].pc = "locked" /\ call[c].op = "confirm"
          /\ UNCHANGED <<feedbackVars, file, object, claim>>
          /\ \/ call' = [call EXCEPT ![c].pc = "refusing"]
             \/ /\ object[call[c].a] = "promised" /\ ~Full(call[c].f)
                /\ call' = [call EXCEPT ![c].pc = "checked"]
      BY <1>4 DEF Fetch
    <2>2. CASE call' = [call EXCEPT ![c].pc = "refusing"]
      <3>1. Fits(r("refusing"))  BY <1>0, <2>1 DEF CallRecords, Fits, Rowed
      <3> QED  BY <2>1, <2>2, <3>1, GoesOn DEF Rowed
    <2>3. CASE /\ object[call[c].a] = "promised" /\ ~Full(call[c].f)
               /\ call' = [call EXCEPT ![c].pc = "checked"]
      <3>1. Fits(r("checked"))  BY <1>0, <2>1, <2>3 DEF CallRecords, Fits, Rowed
      <3> QED  BY <2>1, <2>3, <3>1, GoesOn DEF Rowed
    <2> QED  BY <2>1, <2>2, <2>3
  <1> QED  BY <1>1, <1>2, <1>3, <1>4 DEF Claim, Lock, Fetch, Abort

-----------------------------------------------------------------------------
(* Steps that write. *)

\* A call whose record becomes q, which takes nothing from another.
LEMMA CallBecomes ==
  ASSUME Inv, NEW c \in Calls, NEW q \in CallRecords, call' = [call EXCEPT ![c] = q],
         \A d \in Calls \ {c} : ~Clash(q, call[d]) /\ ~Clash(call[d], q)
  PROVE  /\ call' \in [Calls -> CallRecords] /\ call'[c] = q
         /\ \A d \in Calls \ {c} : call'[d] = call[d]
         /\ OneAtATime'
  <1>1. /\ call' \in [Calls -> CallRecords] /\ call'[c] = q
        /\ \A d \in Calls \ {c} : call'[d] = call[d]
    BY DEF Inv, TypeOK
  <1>2. OneAtATime'
    <2> SUFFICES ASSUME NEW d \in Calls, NEW e \in Calls, d # e
                 PROVE  ~Clash(call'[d], call'[e])
      BY DEF OneAtATime, Clash, SameRow, SameKey, SameFile
    <2>1. ~Clash(call[d], call[e])  BY DEF Inv, OneAtATime
    <2> QED  BY <1>1, <2>1
  <1> QED  BY <1>1, <1>2

\* A call that is over frees what it had.
LEMMA DoneFrees ==
  ASSUME Inv, NEW c \in Calls, Done(c)
  PROVE  /\ call' \in [Calls -> CallRecords] /\ call'[c] = Idle
         /\ \A d \in Calls \ {c} : call'[d] = call[d]
         /\ OneAtATime'
  BY IdleFits, IdleNeverClashes, CallBecomes DEF Done

\* What a call relies on is what its row, its key and its file protect.
LEMMA StillFits ==
  ASSUME NEW r, Fits(r),
         r.f \in Feedbacks /\ version[r.f] # 0 => version'[r.f] # 0,
         r.pc \in Rowed => version'[r.f] = version[r.f] /\ (Full(r.f))' = Full(r.f),
         r.pc \notin {"idle", "asked"} /\ r.key # None =>
             claim'[r.op][r.key] = claim[r.op][r.key],
         r.pc # "idle" /\ r.op = "confirm" => file'[r.a].of = file[r.a].of,
         r.pc \in Rowed /\ r.op = "confirm" => file'[r.a] = file[r.a],
         r.pc # "idle" /\ r.op \in {"upload", "inline"} => file'[r.a] = file[r.a],
         r.pc = "checked" /\ object[r.a] = "promised" => object'[r.a] = "promised"
  PROVE  Fits(r)'
  BY DEF Fits, Rowed

LEMMA OthersFit ==
  ASSUME Inv, NEW c \in Calls, Done(c),
         \A d \in Calls \ {c}, r \in CallRecords : r = call[d] => Fits(r)'
  PROVE  CallsFit'
  <1> SUFFICES ASSUME NEW d \in Calls PROVE Fits(call[d])'  BY DEF CallsFit
  <1>1. CASE d # c
    <2>1. PICK r \in CallRecords : r = call[d]  BY CallTypes
    <2>2. Fits(r)' /\ call'[d] = r  BY <1>1, <2>1, DoneFrees
    <2> QED  BY <2>2 DEF Fits, Full, Head
  <1>2. CASE d = c
    <2>1. call'[d] = Idle  BY <1>2, DoneFrees
    <2> QED  BY <2>1, FeedbackAssumption DEF Fits, Idle, Rowed
  <1> QED  BY <1>1, <1>2

\* A new revision keeps what is promised of revisions.
LEMMA ReviseKeeps ==
  ASSUME Inv, NEW c \in Calls, NEW f \in Feedbacks, NEW files \in SUBSET Files,
         Revise(c, f, files), call[c].expected \in {0, version[f]},
         Cardinality(files) <= MaxFiles,
         \A a \in files : file'[a] = [state |-> "ready", of |-> f] /\ object[a] = "promised",
         \A a \in Files : file[a].state = "ready" => file'[a] = file[a],
         object' = object
  PROVE  /\ version' \in [Feedbacks -> 0 .. MaxVersion]
         /\ revision' \in [Feedbacks -> [Versions -> Revisions]]
         /\ version'[f] = version[f] + 1
         /\ \A g \in Feedbacks \ {f} : version'[g] = version[g] /\ revision'[g] = revision[g]
         /\ AttachedIsReady' /\ BuiltOnWhatWasRead' /\ AtMostMaxFiles'
  <1> DEFINE new == [files |-> files, base |-> call[c].expected]
             v0 == version[f]
  <1> USE FeedbackAssumption
  <1>0. /\ version \in [Feedbacks -> 0 .. MaxVersion]
        /\ revision \in [Feedbacks -> [Versions -> Revisions]]
        /\ v0 \in 0 .. MaxVersion /\ v0 < MaxVersion /\ v0 + 1 \in Versions
    BY DEF Inv, TypeOK, Revise, Versions
  <1>1. new \in Revisions /\ new.files = files /\ new.base = call[c].expected
    BY <1>0 DEF Revisions
  <1> HIDE DEF new
  <1>2. /\ version' = [version EXCEPT ![f] = v0 + 1]
        /\ revision' = [revision EXCEPT ![f] = [revision[f] EXCEPT ![v0 + 1] = new]]
    BY DEF Revise, new
  <1>3. /\ version'[f] = v0 + 1 /\ revision'[f][v0 + 1] = new
        /\ \A v \in 1 .. v0 : revision'[f][v] = revision[f][v]
        /\ \A g \in Feedbacks \ {f} : version'[g] = version[g] /\ revision'[g] = revision[g]
    BY <1>0, <1>2 DEF Versions
  <1>4. /\ version' \in [Feedbacks -> 0 .. MaxVersion]
        /\ revision' \in [Feedbacks -> [Versions -> Revisions]]
    BY <1>0, <1>1, <1>2
  <1>5. \A g \in Feedbacks : \A v \in 1 .. version'[g] :
            \/ g = f /\ v = v0 + 1 /\ revision'[g][v] = new
            \/ v \in 1 .. version[g] /\ revision'[g][v] = revision[g][v]
    BY <1>0, <1>3
  <1>6. AttachedIsReady'
    <2> SUFFICES ASSUME NEW g \in Feedbacks, NEW v \in 1 .. version'[g],
                        NEW a \in revision'[g][v].files
                 PROVE  file'[a] = [state |-> "ready", of |-> g] /\ object'[a] = "promised"
      BY DEF AttachedIsReady
    <2>1. CASE g = f /\ v = v0 + 1 /\ revision'[g][v] = new  BY <1>1, <2>1
    <2>2. CASE v \in 1 .. version[g] /\ revision'[g][v] = revision[g][v]
      <3>1. file[a] = [state |-> "ready", of |-> g] /\ object[a] = "promised"
        BY <2>2 DEF Inv, AttachedIsReady
      <3>2. v \in Versions /\ revision[g][v] \in Revisions
        BY <1>0, <2>2 DEF Versions
      <3>3. a \in Files  BY <2>2, <3>2 DEF Revisions
      <3> QED  BY <3>1, <3>3
    <2> QED  BY <1>5, <2>1, <2>2
  <1>7. BuiltOnWhatWasRead'
    BY <1>0, <1>1, <1>5 DEF BuiltOnWhatWasRead, Inv
  <1>8. AtMostMaxFiles'
    BY <1>1, <1>5 DEF AtMostMaxFiles, Inv
  <1> QED  BY <1>3, <1>4, <1>6, <1>7, <1>8

LEMMA RecordKeeps ==
  ASSUME Inv, NEW c \in Calls, NEW f \in Feedbacks, Record(c, f)
  PROVE  /\ claim' \in [Keyed -> [Keys -> Claims]]
         /\ \A o \in Keyed, k \in Keys :
               claim'[o][k] = IF o = call[c].op /\ k = call[c].key
                              THEN [feedback |-> f, expected |-> call[c].expected]
                              ELSE claim[o][k]
  <1> DEFINE o == call[c].op  k == call[c].key
             new == [feedback |-> f, expected |-> call[c].expected]
  <1>1. claim \in [Keyed -> [Keys -> Claims]]  BY DEF Inv, TypeOK
  <1>2. k \in Keys \cup {None} /\ (k # None => o \in Keyed) /\ new \in Claims
    BY CallTypes DEF CallRecords, Fits, Claims
  <1>3. claim' = IF k = None THEN claim
                 ELSE [claim EXCEPT ![o] = [claim[o] EXCEPT ![k] = new]]
    BY DEF Record
  <1> HIDE DEF new, o, k
  <1>4. CASE k = None
    BY <1>1, <1>2, <1>3, <1>4, FeedbackAssumption DEF new, o, k
  <1>5. CASE k # None
    <2>1. k \in Keys /\ o \in Keyed  BY <1>2, <1>5
    <2>2. [claim[o] EXCEPT ![k] = new] \in [Keys -> Claims]  BY <1>1, <1>2, <2>1
    <2>3. claim' \in [Keyed -> [Keys -> Claims]]  BY <1>1, <1>3, <1>5, <2>1, <2>2
    <2>4. \A p \in Keyed, q \in Keys :
              claim'[p][q] = IF p = o /\ q = k THEN new ELSE claim[p][q]
      BY <1>1, <1>3, <1>5, <2>1
    <2> QED  BY <2>3, <2>4 DEF new, o, k
  <1> QED  BY <1>4, <1>5

LEMMA CreateInv ==
  ASSUME Inv, NEW c \in Calls, NEW f \in Feedbacks, Create(c, f)
  PROVE  Inv'
  <1> USE FeedbackAssumption
  <1>0. /\ call[c].pc = "claimed" /\ call[c].op = "create" /\ call[c].expected = 0
        /\ version[f] = 0 /\ madeWith[f] = None /\ call[c].key \in Keys \cup {None}
        /\ call[c].key # None => claim["create"][call[c].key] = NoClaim
        /\ Revise(c, f, {}) /\ Record(c, f) /\ Done(c)
        /\ madeWith' = [madeWith EXCEPT ![f] = call[c].key]
        /\ UNCHANGED <<published, file, object>>
    BY CallTypes DEF Create, CallRecords, Fits, Inv, RecordsAgree
  <1>1. /\ {} \in SUBSET Files /\ Cardinality({}) <= MaxFiles
        /\ call[c].expected \in {0, version[f]}
        /\ \A a \in Files : file[a].state = "ready" => file'[a] = file[a]
    BY <1>0, FS_EmptySet
  <1>2. /\ version' \in [Feedbacks -> 0 .. MaxVersion]
        /\ revision' \in [Feedbacks -> [Versions -> Revisions]]
        /\ version'[f] = version[f] + 1
        /\ \A g \in Feedbacks \ {f} : version'[g] = version[g] /\ revision'[g] = revision[g]
        /\ AttachedIsReady' /\ BuiltOnWhatWasRead' /\ AtMostMaxFiles'
    BY <1>0, <1>1, ReviseKeeps
  <1>3. /\ call' \in [Calls -> CallRecords] /\ OneAtATime'
        /\ \A d \in Calls \ {c} : call'[d] = call[d]
    BY <1>0, DoneFrees
  <1>4. /\ claim' \in [Keyed -> [Keys -> Claims]]
        /\ \A o \in Keyed, k \in Keys :
               claim'[o][k] = IF o = call[c].op /\ k = call[c].key
                              THEN [feedback |-> f, expected |-> call[c].expected]
                              ELSE claim[o][k]
    BY <1>0, RecordKeeps
  <1>5. TypeOK'
    BY <1>0, <1>2, <1>3, <1>4 DEF Inv, TypeOK, Versions
  <1>6. CallsFit'
    <2> SUFFICES ASSUME NEW d \in Calls \ {c}, NEW r \in CallRecords, r = call[d]
                 PROVE  Fits(r)'
      BY <1>0, OthersFit
    <2>1. r \in CallRecords /\ Fits(r) /\ ~Clash(call[c], r)
      BY CallTypes DEF Inv, OneAtATime
    <2>2. r.pc \in Rowed => r.f \in Feedbacks \ {f}
      BY <1>0, <2>1 DEF Fits, Rowed
    <2>3. r.pc \notin {"idle", "asked"} /\ r.key # None =>
              claim'[r.op][r.key] = claim[r.op][r.key]
      BY <1>0, <1>4, <2>1 DEF Fits, Clash, SameKey, CallRecords
    <2>4. r.pc \in Rowed => version'[r.f] = version[r.f] /\ (Full(r.f))' = Full(r.f)
      BY <1>2, <2>2 DEF Full, Head
    <2>5. r.f \in Feedbacks /\ version[r.f] # 0 => version'[r.f] # 0
      BY <1>0, <1>2
    <2> QED  BY <1>0, <2>1, <2>3, <2>4, <2>5, StillFits
  <1>7. madeWith'[f] = call[c].key /\ \A g \in Feedbacks \ {f} : madeWith'[g] = madeWith[g]
    BY <1>0 DEF Inv, TypeOK
  <1>8. RecordsAgree'
    BY <1>0, <1>2, <1>7 DEF Inv, RecordsAgree, TypeOK
  <1>9. CreatedOnce'
    BY <1>0, <1>4, <1>7 DEF Inv, TypeOK, CreatedOnce, NoClaim, Keyed
  <1>10. ClaimMeansDone'
    BY <1>0, <1>4 DEF Inv, ClaimMeansDone, Keyed
  <1> QED  BY <1>2, <1>3, <1>5, <1>6, <1>8, <1>9, <1>10 DEF Inv

\* A revision made under the row lock: everybody else's rows are other rows.
LEMMA LockedReviseInv ==
  ASSUME Inv, NEW c \in Calls, NEW f \in Feedbacks, NEW files \in SUBSET Files,
         call[c].pc \in Rowed, f = call[c].f, Revise(c, f, files), Done(c),
         call[c].expected \in {0, version[f]}, Cardinality(files) <= MaxFiles,
         \A a \in files : file'[a] = [state |-> "ready", of |-> f] /\ object[a] = "promised",
         \/ file' = file
         \/ /\ file' = [file EXCEPT ![call[c].a] = [state |-> "ready", of |-> f]]
            /\ call[c].op \in {"confirm", "inline"},
         UNCHANGED <<published, madeWith, object, claim>>
  PROVE  Inv'
  <1> USE FeedbackAssumption
  <1>0. /\ call[c] \in CallRecords /\ Fits(call[c])
        /\ file \in [Files -> Uploads]
    BY CallTypes DEF Inv, TypeOK
  <1>1. /\ file' \in [Files -> Uploads]
        /\ \A a \in Files : \/ file'[a] = file[a]
                            \/ /\ a = call[c].a /\ file'[a].state = "ready"
                               /\ file'[a].of = f /\ file[a].state # "ready"
                               /\ call[c].op = "confirm" => file[a].of = f
                               /\ call[c].op \in {"confirm", "inline"}
    BY <1>0 DEF Uploads, Fits, Rowed, NoUpload
  <1>2. /\ version' \in [Feedbacks -> 0 .. MaxVersion]
        /\ revision' \in [Feedbacks -> [Versions -> Revisions]]
        /\ version'[f] = version[f] + 1
        /\ \A g \in Feedbacks \ {f} : version'[g] = version[g] /\ revision'[g] = revision[g]
        /\ AttachedIsReady' /\ BuiltOnWhatWasRead' /\ AtMostMaxFiles'
    <2>1. \A a \in Files : file[a].state = "ready" => file'[a] = file[a]
      BY <1>1
    <2> QED  BY <2>1, ReviseKeeps
  <1>3. /\ call' \in [Calls -> CallRecords] /\ OneAtATime'
    BY DoneFrees
  <1>4. TypeOK'
    BY <1>1, <1>2, <1>3 DEF Inv, TypeOK, Versions
  <1>5. CallsFit'
    <2> SUFFICES ASSUME NEW d \in Calls \ {c}, NEW r \in CallRecords, r = call[d]
                 PROVE  Fits(r)'
      BY OthersFit
    <2>1. r \in CallRecords /\ Fits(r) /\ ~Clash(call[c], r) /\ ~Clash(r, call[c])
      BY CallTypes DEF Inv, OneAtATime
    <2>2. r.pc \in Rowed => r.f \in Feedbacks \ {f}
      BY <2>1 DEF Fits, Clash, SameRow, Rowed
    <2>3. r.pc \in Rowed => version'[r.f] = version[r.f] /\ (Full(r.f))' = Full(r.f)
      BY <1>2, <2>2 DEF Full, Head
    <2>4. r.f \in Feedbacks /\ version[r.f] # 0 => version'[r.f] # 0
      BY <1>0, <1>2 DEF Inv, TypeOK
    <2>5. r.pc # "idle" /\ r.op = "confirm" => file'[r.a].of = file[r.a].of
      <3> SUFFICES ASSUME r.pc # "idle", r.op = "confirm"
                   PROVE  file'[r.a].of = file[r.a].of
        OBVIOUS
      <3>1. r.a \in Files  BY <2>1 DEF Fits
      <3>2. CASE call[c].op = "inline"
        <4>1. r.a # call[c].a  BY <2>1, <3>2 DEF Clash, SameFile, Rowed
        <4> QED  BY <1>1, <3>1, <4>1
      <3> QED  BY <1>1, <3>1, <3>2
    <2>6. r.pc \in Rowed /\ r.op = "confirm" => file'[r.a] = file[r.a]
      <3> SUFFICES ASSUME r.pc \in Rowed, r.op = "confirm"
                   PROVE  file'[r.a] = file[r.a]
        OBVIOUS
      <3>1. r.a \in Files /\ file[r.a].of = r.f  BY <2>1 DEF Fits, Rowed
      <3>2. CASE call[c].op = "inline"
        <4>1. r.a # call[c].a  BY <2>1, <3>2 DEF Clash, SameFile, Rowed
        <4> QED  BY <1>1, <3>1, <4>1
      <3> QED  BY <1>1, <2>2, <3>1, <3>2
    <2>7. r.pc # "idle" /\ r.op \in {"upload", "inline"} => file'[r.a] = file[r.a]
      BY <1>1, <2>1 DEF Fits, Clash, SameFile
    <2> QED  BY <2>1, <2>3, <2>4, <2>5, <2>6, <2>7, StillFits
  <1>6. RecordsAgree'
    BY <1>1, <1>2 DEF Inv, RecordsAgree, TypeOK
  <1>7. CreatedOnce'  BY DEF Inv, CreatedOnce
  <1>8. ClaimMeansDone'  BY DEF Inv, ClaimMeansDone
  <1> QED  BY <1>2, <1>3, <1>4, <1>5, <1>6, <1>7, <1>8 DEF Inv

LEMMA AttachedFiles ==
  ASSUME Inv, NEW f \in Feedbacks, NEW v \in 1 .. version[f], NEW a \in revision[f][v].files
  PROVE  a \in Files
  <1>1. v \in Versions  BY FeedbackAssumption DEF Inv, TypeOK, Versions
  <1> QED  BY <1>1 DEF Inv, TypeOK, Revisions

\* Where no revision is written, the files they carry need only stay as they are.
LEMMA AttachedStay ==
  ASSUME Inv, UNCHANGED <<version, revision>>,
         \A b \in Files : file[b].state = "ready" => file'[b] = file[b] /\ object'[b] = object[b]
  PROVE  AttachedIsReady'
  <1> SUFFICES ASSUME NEW g \in Feedbacks, NEW v \in 1 .. version'[g],
                      NEW b \in revision'[g][v].files
               PROVE  file'[b] = [state |-> "ready", of |-> g] /\ object'[b] = "promised"
    BY DEF AttachedIsReady
  <1>1. v \in 1 .. version[g] /\ b \in revision[g][v].files  OBVIOUS
  <1>2. b \in Files /\ file[b] = [state |-> "ready", of |-> g] /\ object[b] = "promised"
    BY <1>1, AttachedFiles DEF Inv, AttachedIsReady
  <1> QED  BY <1>2

\* What the head carries.
LEMMA HeadFiles ==
  ASSUME Inv, NEW f \in Feedbacks, version[f] # 0
  PROVE  /\ Head(f).files \in SUBSET Files
         /\ IsFiniteSet(Head(f).files)
         /\ Cardinality(Head(f).files) \in Nat /\ Cardinality(Head(f).files) <= MaxFiles
         /\ \A a \in Head(f).files :
               file[a] = [state |-> "ready", of |-> f] /\ object[a] = "promised"
  <1>1. version[f] \in 1 .. version[f] /\ version[f] \in Versions
    BY FeedbackAssumption DEF Inv, TypeOK, Versions
  <1>2. Head(f) \in Revisions
    BY <1>1 DEF Inv, TypeOK, Head
  <1>3. Head(f).files \in SUBSET Files  BY <1>2 DEF Revisions
  <1>4. IsFiniteSet(Head(f).files) /\ Cardinality(Head(f).files) \in Nat
    BY <1>3, FeedbackAssumption, FS_Subset, FS_CardinalityType
  <1>5. Cardinality(Head(f).files) <= MaxFiles
    BY <1>1 DEF Inv, AtMostMaxFiles, Head
  <1>6. \A a \in Head(f).files :
            file[a] = [state |-> "ready", of |-> f] /\ object[a] = "promised"
    BY <1>1 DEF Inv, AttachedIsReady, Head
  <1> QED  BY <1>3, <1>4, <1>5, <1>6, FeedbackAssumption

LEMMA UpdateInv ==
  ASSUME Inv, NEW c \in Calls, Update(c)
  PROVE  Inv'
  <1> DEFINE f == call[c].f  files == Head(f).files \ call[c].removing
  <1>1. /\ call[c].pc = "locked" /\ call[c].op = "update" /\ Done(c)
        /\ UNCHANGED <<published, madeWith, file, object, claim>>
        /\ Revise(c, f, files) \/ UNCHANGED <<version, revision>>
    BY DEF Update
  <1>2. /\ f \in Feedbacks /\ version[f] # 0 /\ call[c].expected = version[f]
    BY <1>1, CallTypes DEF Fits
  <1>3. CASE Revise(c, f, files)
    <2>1. /\ files \in SUBSET Files
          /\ \A a \in files : file'[a] = [state |-> "ready", of |-> f] /\ object[a] = "promised"
      BY <1>1, <1>2, HeadFiles
    <2>2. Cardinality(files) <= MaxFiles
      <3>1. files \subseteq Head(f).files  OBVIOUS
      <3>2. Cardinality(files) <= Cardinality(Head(f).files) /\ Cardinality(files) \in Nat
        BY <1>2, <3>1, HeadFiles, FS_Subset, FS_CardinalityType
      <3>3. Cardinality(Head(f).files) \in Nat /\ Cardinality(Head(f).files) <= MaxFiles
        BY <1>2, HeadFiles
      <3> QED  BY <3>2, <3>3, FeedbackAssumption
    <2> HIDE DEF files
    <2> QED  BY <1>1, <1>2, <1>3, <2>1, <2>2, LockedReviseInv DEF Rowed
  <1>4. CASE UNCHANGED <<version, revision>>
    BY <1>1, <1>4, EndsWithoutWriting DEF feedbackVars
  <1> QED  BY <1>1, <1>3, <1>4

LEMMA AttachInv ==
  ASSUME Inv, NEW c \in Calls, Attach(c)
  PROVE  Inv'
  <1> DEFINE f == call[c].f  a == call[c].a  files == Head(f).files \cup {a}
  <1>1. /\ call[c].pc = "checked" /\ Done(c) /\ Revise(c, f, files)
        /\ file' = [file EXCEPT ![a] = [state |-> "ready", of |-> f]]
        /\ UNCHANGED <<published, madeWith, object, claim>>
    BY DEF Attach
  <1>2. /\ call[c].op \in {"confirm", "inline"}
        /\ f \in Feedbacks /\ version[f] # 0 /\ call[c].expected \in {0, version[f]}
        /\ a \in Files /\ object[a] = "promised" /\ ~Full(f)
    BY <1>1, CallTypes DEF Fits
  <1>3. /\ files \in SUBSET Files
        /\ \A b \in files : file'[b] = [state |-> "ready", of |-> f] /\ object[b] = "promised"
    BY <1>1, <1>2, HeadFiles DEF Inv, TypeOK
  <1>4. Cardinality(files) <= MaxFiles
    <2>1. IsFiniteSet(Head(f).files) /\ Cardinality(Head(f).files) \in Nat
      BY <1>2, HeadFiles
    <2>2. Cardinality(Head(f).files) < MaxFiles
      BY <1>2, <2>1, FeedbackAssumption DEF Full
    <2>3. \/ Cardinality(files) = Cardinality(Head(f).files)
          \/ Cardinality(files) = Cardinality(Head(f).files) + 1
      BY <2>1, FS_AddElement
    <2> QED  BY <2>1, <2>2, <2>3, FeedbackAssumption
  <1> HIDE DEF files
  <1> QED  BY <1>1, <1>2, <1>3, <1>4, LockedReviseInv DEF Rowed

\* The steps that write a file's row or its bytes and no revision.
LEMMA FileWriteInv ==
  ASSUME Inv, NEW c \in Calls, NEW a \in Files, NEW f \in Feedbacks,
         a = call[c].a, f = call[c].f, call[c].pc \in Rowed,
         \/ call[c].op \in {"upload", "inline"}
         \/ call[c].pc = "refusing" /\ file' = file,
         \/ file' = file
         \/ file' = [file EXCEPT ![a] = [state |-> "pending", of |-> f]],
         object' = object \/ \E b \in {"absent", "promised"} : object' = [object EXCEPT ![a] = b],
         UNCHANGED <<feedbackVars, claim>>,
         NEW q \in CallRecords, call' = [call EXCEPT ![c] = q], Fits(q)',
         \A d \in Calls \ {c} : ~Clash(q, call[d]) /\ ~Clash(call[d], q)
  PROVE  Inv'
  <1> USE FeedbackAssumption
  <1>7. /\ call' \in [Calls -> CallRecords] /\ call'[c] = q
        /\ \A d \in Calls \ {c} : call'[d] = call[d]
        /\ OneAtATime'
    BY CallBecomes
  <1>0. /\ call[c] \in CallRecords /\ Fits(call[c])
        /\ file \in [Files -> Uploads] /\ object \in [Files -> {"absent", "promised", "other"}]
    BY CallTypes DEF Inv, TypeOK
  <1>1. /\ call[c].op \in {"upload", "inline"} \/ (call[c].op = "confirm" /\ file[a].of = f)
        /\ file[a].state # "ready"
    BY <1>0 DEF Fits, Rowed, NoUpload
  <1>2. /\ file' \in [Files -> Uploads] /\ object' \in [Files -> {"absent", "promised", "other"}]
        /\ \A b \in Files \ {a} : file'[b] = file[b] /\ object'[b] = object[b]
        /\ file'[a].state = "none" => file'[a] = file[a]
        /\ call[c].op = "confirm" => file' = file
    BY <1>0 DEF Uploads, Fits
  <1>3. TypeOK'
    BY <1>2, <1>7 DEF Inv, TypeOK, feedbackVars, Versions
  <1>4. CallsFit'
    <2> SUFFICES ASSUME NEW d \in Calls \ {c}, NEW r \in CallRecords, r = call[d]
                 PROVE  Fits(r)'
      <3>1. ASSUME NEW d \in Calls \ {c} PROVE Fits(call[d])'
        <4>1. PICK r \in CallRecords : r = call[d]  BY CallTypes
        <4>2. Fits(r)' /\ call'[d] = r  BY <1>7, <4>1
        <4> QED  BY <4>2 DEF Fits, Full, Head
      <3>2. Fits(call[c])'  BY <1>7 DEF Fits, Full, Head
      <3> QED  BY <3>1, <3>2 DEF CallsFit
    <2>1. r \in CallRecords /\ Fits(r) /\ ~Clash(call[c], r) /\ ~Clash(r, call[c])
      BY CallTypes DEF Inv, OneAtATime
    <2>2. call[c].op \in {"upload", "inline"} => r.a # a
      BY <2>1 DEF Clash, SameFile, Rowed
    <2>3. r.pc # "idle" /\ r.op \in {"upload", "inline"} => r.a \in Files \ {a}
      BY <2>1 DEF Clash, SameFile, Fits
    <2>4. call[c].op = "confirm" /\ r.pc = "checked" /\ r.op = "confirm" => r.a \in Files \ {a}
      BY <1>1, <2>1 DEF Clash, SameRow, Fits, Rowed
    <2>5. r.pc # "idle" /\ r.op = "confirm" => r.a \in Files
      BY <2>1 DEF Fits
    <2>6. r.pc # "idle" /\ r.op = "confirm" => file'[r.a] = file[r.a]
      BY <1>1, <1>2, <2>2, <2>5
    <2>7. r.pc = "checked" => object'[r.a] = object[r.a]
      BY <1>1, <1>2, <2>1, <2>2, <2>3, <2>4, <2>5 DEF Fits
    <2>8. (Full(r.f))' = Full(r.f)
      BY DEF Full, Head, feedbackVars
    <2>9. r.pc # "idle" /\ r.op \in {"upload", "inline"} => file'[r.a] = file[r.a]
      BY <1>2, <2>3
    <2> QED  BY <2>1, <2>6, <2>7, <2>8, <2>9, StillFits DEF feedbackVars, Rowed
  <1>5. RecordsAgree'
    BY <1>2 DEF Inv, RecordsAgree, feedbackVars
  <1>6. AttachedIsReady'
    <2>1. \A b \in Files : file[b].state = "ready" => file'[b] = file[b] /\ object'[b] = object[b]
      BY <1>1, <1>2
    <2> QED  BY <2>1, AttachedStay DEF feedbackVars
  <1>8. BuiltOnWhatWasRead' /\ AtMostMaxFiles' /\ CreatedOnce' /\ ClaimMeansDone'
    BY DEF Inv, BuiltOnWhatWasRead, AtMostMaxFiles, CreatedOnce, ClaimMeansDone, feedbackVars
  <1> QED  BY <1>3, <1>4, <1>5, <1>6, <1>7, <1>8 DEF Inv

LEMMA IdleFitsNext == Fits(Idle)'
  BY FeedbackAssumption DEF Fits, Idle, Rowed

LEMMA GrantInv ==
  ASSUME Inv, NEW c \in Calls, Grant(c) \/ GrantInline(c) \/ Discard(c)
  PROVE  Inv'
  <1> DEFINE f == call[c].f  a == call[c].a
             granted == [file EXCEPT ![a] = [state |-> "pending", of |-> f]]
  <1>0. call[c] \in CallRecords /\ Fits(call[c])  BY CallTypes
  <1>1. /\ call[c].pc \in Rowed /\ f \in Feedbacks /\ a \in Files /\ version[f] # 0
        /\ UNCHANGED <<feedbackVars, claim>>
        /\ \/ call[c].op \in {"upload", "inline"}
           \/ call[c].pc = "refusing" /\ file' = file
    BY <1>0 DEF Grant, GrantInline, Discard, Fits, Rowed
  <1>2. /\ file' = file \/ file' = granted
        /\ \/ object' = object
           \/ \E b \in {"absent", "promised"} : object' = [object EXCEPT ![a] = b]
    BY DEF Grant, GrantInline, Discard
  <1>3. CASE Done(c)
    <2>1. call' = [call EXCEPT ![c] = Idle]  BY <1>3 DEF Done
    <2>2. \A d \in Calls \ {c} : ~Clash(Idle, call[d]) /\ ~Clash(call[d], Idle)
      BY IdleNeverClashes
    <2> HIDE DEF f, a
    <2> QED  BY <1>1, <1>2, <2>1, <2>2, IdleFits, IdleFitsNext, FileWriteInv DEF f, a
  <1>4. CASE ~Done(c)
    <2> DEFINE q == [call[c] EXCEPT !.pc = "checked"]
    <2>1. /\ call[c].pc = "locked" /\ call[c].op = "inline" /\ ~Full(f)
          /\ call[c].expected \in {0, version[f]} /\ file' = file
          /\ object' = [object EXCEPT ![a] = "promised"]
          /\ call' = [call EXCEPT ![c] = q]
      BY <1>4 DEF Grant, GrantInline, Discard
    <2>2. q \in CallRecords  BY <1>0 DEF CallRecords
    <2>3. /\ q.pc = "checked" /\ q.op = "inline" /\ q.f = f /\ q.a = a
          /\ q.key = call[c].key /\ q.expected = call[c].expected
      BY <1>0, <2>1 DEF CallRecords
    <2> HIDE DEF q
    <2>4. \A d \in Calls \ {c} : ~Clash(q, call[d]) /\ ~Clash(call[d], q)
      <3> SUFFICES ASSUME NEW d \in Calls \ {c}
                   PROVE  ~Clash(q, call[d]) /\ ~Clash(call[d], q)
        OBVIOUS
      <3>1. ~Clash(call[c], call[d]) /\ ~Clash(call[d], call[c])
        BY DEF Inv, OneAtATime
      <3> QED  BY <2>1, <2>3, <3>1 DEF Clash, SameRow, SameKey, SameFile, Rowed
    <2>5. object'[a] = "promised"  BY <1>1, <2>1 DEF Inv, TypeOK
    <2>6. PICK r \in CallRecords : r = q  BY <2>2
    <2>7. r.f = f /\ (Full(r.f))' = Full(r.f)
      BY <1>1, <2>3, <2>6 DEF Full, Head, feedbackVars
    <2>8. /\ r.key = None /\ file[a] = NoUpload
      BY <1>0, <2>1, <2>3, <2>6 DEF Fits, Keyed
    <2>9. Fits(r)'
      BY <1>1, <2>1, <2>3, <2>5, <2>6, <2>7, <2>8 DEF Fits, Rowed, feedbackVars
    <2> HIDE DEF f, a
    <2> QED  BY <1>1, <1>2, <2>1, <2>4, <2>6, <2>9, FileWriteInv DEF f, a
  <1> QED  BY <1>3, <1>4

LEMMA PublishInv ==
  ASSUME Inv, NEW c \in Calls, Publish(c)
  PROVE  Inv'
  <1> USE FeedbackAssumption
  <1>0. /\ call[c] \in CallRecords /\ Fits(call[c])  BY CallTypes
  <1>1. PICK f \in Feedbacks : f = call[c].f /\ version[f] # 0 /\ call[c].expected = version[f]
    BY <1>0 DEF Publish, Fits
  <1>2. /\ published' = [published EXCEPT ![f] = version[f]]
        /\ call[c].pc = "locked" /\ call[c].op = "publish"
        /\ Record(c, f) /\ Done(c)
        /\ UNCHANGED <<version, revision, madeWith, file, object>>
    BY <1>1 DEF Publish
  <1>3. /\ claim' \in [Keyed -> [Keys -> Claims]]
        /\ \A o \in Keyed, k \in Keys :
               claim'[o][k] = IF o = call[c].op /\ k = call[c].key
                              THEN [feedback |-> f, expected |-> call[c].expected]
                              ELSE claim[o][k]
    BY <1>2, RecordKeeps
  <1>4. TypeOK'
    BY <1>2, <1>3, DoneFrees DEF Inv, TypeOK, Versions
  <1>5. CallsFit'
    <2> SUFFICES ASSUME NEW d \in Calls \ {c}, NEW r \in CallRecords, r = call[d]
                 PROVE  Fits(r)'
      BY <1>2, OthersFit
    <2>1. r \in CallRecords /\ Fits(r) /\ ~Clash(call[c], r)
      BY CallTypes DEF Inv, OneAtATime
    <2>2. r.pc \notin {"idle", "asked"} /\ r.key # None =>
              claim'[r.op][r.key] = claim[r.op][r.key]
      BY <1>2, <1>3, <2>1 DEF Fits, Clash, SameKey, CallRecords
    <2>3. (Full(r.f))' = Full(r.f)  BY <1>2 DEF Full, Head
    <2> QED  BY <1>2, <2>1, <2>2, <2>3, StillFits
  <1>6. published'[f] = version[f] /\ \A g \in Feedbacks \ {f} : published'[g] = published[g]
    BY <1>2 DEF Inv, TypeOK
  <1>7. RecordsAgree'
    BY <1>2, <1>6 DEF Inv, TypeOK, RecordsAgree
  <1>8. ClaimMeansDone'
    <2> SUFFICES ASSUME NEW k \in Keys, claim'["publish"][k].feedback # None
                 PROVE  published'[claim'["publish"][k].feedback]
                            >= claim'["publish"][k].expected
      BY DEF ClaimMeansDone
    <2>1. CASE k = call[c].key
      BY <1>1, <1>2, <1>3, <1>6, <2>1 DEF Keyed, Inv, TypeOK
    <2>2. CASE k # call[c].key
      <3>1. claim'["publish"][k] = claim["publish"][k]
        BY <1>3, <2>2 DEF Keyed
      <3>2. claim["publish"][k] \in Claims
        BY DEF Inv, TypeOK, Keyed
      <3>3. PICK g \in Feedbacks : g = claim["publish"][k].feedback
        BY <3>1, <3>2 DEF Claims
      <3>4. published[g] >= claim["publish"][k].expected
        BY <3>1, <3>3 DEF Inv, ClaimMeansDone
      <3>5. published'[g] >= published[g]
        BY <1>6 DEF Inv, TypeOK, RecordsAgree
      <3>6. /\ published[g] \in Int /\ published'[g] \in Int
            /\ claim["publish"][k].expected \in Int
        BY <1>4, <3>2 DEF Inv, TypeOK, Claims
      <3> QED  BY <3>1, <3>3, <3>4, <3>5, <3>6
    <2> QED  BY <2>1, <2>2
  <1>9. AttachedIsReady' /\ BuiltOnWhatWasRead' /\ AtMostMaxFiles'
    BY <1>2 DEF Inv, AttachedIsReady, BuiltOnWhatWasRead, AtMostMaxFiles
  <1>10. CreatedOnce'
    BY <1>2, <1>3 DEF Inv, CreatedOnce, Keyed
  <1> QED  BY <1>2, <1>4, <1>5, <1>7, <1>8, <1>9, <1>10, DoneFrees DEF Inv

LEMMA PutInv ==
  ASSUME Inv, NEW a \in Files, NEW bytes \in {"promised", "other"}, Put(a, bytes)
  PROVE  Inv'
  <1> USE FeedbackAssumption
  <1>1. /\ object' = [object EXCEPT ![a] = bytes] /\ file[a].state = "pending"
        /\ bytes # "promised" => \A d \in Calls : call[d].pc # "idle" => call[d].a # a
        /\ UNCHANGED <<version, revision, published, madeWith, file, claim, call>>
    BY DEF Put, feedbackVars
  <1>2. TypeOK'  BY <1>1 DEF Inv, TypeOK, Versions
  <1>3. CallsFit'
    <2> SUFFICES ASSUME NEW d \in Calls, NEW r \in CallRecords, r = call[d]
                 PROVE  Fits(r)'
      <3>1. ASSUME NEW d \in Calls PROVE Fits(call[d])'
        <4>1. PICK r \in CallRecords : r = call[d]  BY CallTypes
        <4>2. Fits(r)' /\ call'[d] = r  BY <1>1, <4>1
        <4> QED  BY <4>2 DEF Fits, Full, Head
      <3> QED  BY <3>1 DEF CallsFit
    <2>1. Fits(r)  BY CallTypes
    <2>2. r.pc = "checked" => r.a \in Files  BY <2>1 DEF Fits
    <2>3. r.pc = "checked" /\ object[r.a] = "promised" => object'[r.a] = "promised"
      BY <1>1, <2>2 DEF Inv, TypeOK
    <2>4. (Full(r.f))' = Full(r.f)  BY <1>1 DEF Full, Head
    <2> QED  BY <1>1, <2>1, <2>3, <2>4, StillFits
  <1>4. AttachedIsReady'
    <2>1. \A b \in Files : file[b].state = "ready" => file'[b] = file[b] /\ object'[b] = object[b]
      BY <1>1 DEF Inv, TypeOK
    <2> QED  BY <1>1, <2>1, AttachedStay
  <1>5. OneAtATime' /\ RecordsAgree'
    BY <1>1 DEF Inv, OneAtATime, RecordsAgree, Clash, SameRow, SameKey, SameFile
  <1>6. BuiltOnWhatWasRead' /\ AtMostMaxFiles' /\ CreatedOnce' /\ ClaimMeansDone'
    BY <1>1 DEF Inv, BuiltOnWhatWasRead, AtMostMaxFiles, CreatedOnce, ClaimMeansDone
  <1> QED  BY <1>2, <1>3, <1>4, <1>5, <1>6 DEF Inv

-----------------------------------------------------------------------------
LEMMA NextInv == Inv /\ [Next]_vars => Inv'
  <1> SUFFICES ASSUME Inv, [Next]_vars PROVE Inv'  OBVIOUS
  <1>1. CASE UNCHANGED vars
    <2>1. UNCHANGED <<version, revision, published, madeWith, file, object, claim, call>>
      BY <1>1 DEF vars, feedbackVars
    <2>2. TypeOK'  BY <2>1 DEF Inv, TypeOK
    <2>3. CallsFit'
      <3> SUFFICES ASSUME NEW d \in Calls PROVE Fits(call[d])'  BY DEF CallsFit
      <3>1. PICK r \in CallRecords : r = call[d]  BY CallTypes
      <3>2. Fits(r) /\ (Full(r.f))' = Full(r.f)  BY <2>1, <3>1, CallTypes DEF Full, Head
      <3>3. Fits(r)' /\ call'[d] = r  BY <2>1, <3>1, <3>2, StillFits
      <3> QED  BY <3>3 DEF Fits, Full, Head
    <2>4. OneAtATime' /\ RecordsAgree'
      BY <2>1 DEF Inv, OneAtATime, RecordsAgree, Clash, SameRow, SameKey, SameFile
    <2>5. AttachedIsReady' /\ BuiltOnWhatWasRead' /\ AtMostMaxFiles'
      BY <2>1 DEF Inv, AttachedIsReady, BuiltOnWhatWasRead, AtMostMaxFiles
    <2>6. CreatedOnce' /\ ClaimMeansDone'
      BY <2>1 DEF Inv, CreatedOnce, ClaimMeansDone
    <2> QED  BY <2>2, <2>3, <2>4, <2>5, <2>6 DEF Inv
  <1>2. ASSUME NEW c \in Calls, Arrive(c) PROVE Inv'  BY <1>2, ArriveInv
  <1>3. ASSUME NEW c \in Calls, Proceed(c) PROVE Inv'
    BY <1>3, WaitInv, CreateInv, UpdateInv, PublishInv, GrantInv, AttachInv DEF Proceed
  <1>4. ASSUME NEW c \in Calls, Abort(c) PROVE Inv'  BY <1>4, WaitInv
  <1>5. ASSUME NEW a \in Files, NEW bytes \in {"promised", "other"}, Put(a, bytes) PROVE Inv'
    BY <1>5, PutInv
  <1> QED  BY <1>1, <1>2, <1>3, <1>4, <1>5 DEF Next

LEMMA Invariance == Spec => []Inv
  BY InitInv, NextInv, PTL DEF Spec

\* Every state is well formed, however many calls run.
THEOREM TypeCorrect == Spec => []TypeOK
  <1>1. Inv => TypeOK  BY DEF Inv
  <1> QED  BY <1>1, Invariance, PTL

\* A file that a revision carries was checked and is still in the store.
THEOREM AttachedFilesAreReady == Spec => []AttachedIsReady
  <1>1. Inv => AttachedIsReady  BY DEF Inv
  <1> QED  BY <1>1, Invariance, PTL

\* Two writers take turns: a revision is built on the version its caller read.
THEOREM WritersTakeTurns == Spec => []BuiltOnWhatWasRead
  <1>1. Inv => BuiltOnWhatWasRead  BY DEF Inv
  <1> QED  BY <1>1, Invariance, PTL

\* No revision carries more than MAX_ATTACHMENTS files.
THEOREM FilesAreBounded == Spec => []AtMostMaxFiles
  <1>1. Inv => AtMostMaxFiles  BY DEF Inv
  <1> QED  BY <1>1, Invariance, PTL

\* A key creates one feedback, whatever fails and however often it is retried.
THEOREM KeyCreatesOnce == Spec => []CreatedOnce
  <1>1. Inv => CreatedOnce  BY DEF Inv
  <1> QED  BY <1>1, Invariance, PTL

\* A publish key that is taken did its work.
THEOREM ClaimedIsDone == Spec => []ClaimMeansDone
  <1>1. Inv => ClaimMeansDone  BY DEF Inv
  <1> QED  BY <1>1, Invariance, PTL

\* What the student reads moves forward, to a revision that was looked at.
THEOREM StudentReadsWhatWasReviewed == Spec => PublishedAsReviewed
  <1> DEFINE Reviewed ==
        \A f \in Feedbacks : published'[f] # published[f] =>
          /\ published'[f] > published[f] /\ published'[f] = version[f]
          /\ \E c \in Calls : call[c].op = "publish" /\ call[c].f = f
                              /\ call[c].expected = published'[f]
  <1>1. ASSUME Inv, [Next]_vars PROVE Reviewed
    <2> USE <1>1
    <2>1. CASE UNCHANGED published  BY <2>1
    <2>2. ASSUME NEW c \in Calls, Publish(c) PROVE Reviewed
      <3>1. Fits(call[c])  BY CallTypes
      <3>2. PICK g \in Feedbacks : g = call[c].f /\ call[c].expected = version[g]
        BY <2>2, <3>1 DEF Publish, Fits
      <3>3. published' = [published EXCEPT ![g] = version[g]] /\ call[c].op = "publish"
        BY <2>2, <3>2 DEF Publish
      <3>4. /\ published \in [Feedbacks -> 0 .. MaxVersion]
            /\ published[g] \in Int /\ version[g] \in Int
        BY FeedbackAssumption DEF Inv, TypeOK
      <3>5. published[g] <= version[g]  BY DEF Inv, RecordsAgree
      <3>6. /\ published'[g] = version[g]
            /\ \A f \in Feedbacks \ {g} : published'[f] = published[f]
        BY <3>3, <3>4
      <3> QED  BY <3>2, <3>3, <3>4, <3>5, <3>6
    <2>3. ASSUME NEW c \in Calls, NEW f \in Feedbacks, Create(c, f) PROVE UNCHANGED published
      BY <2>3 DEF Create
    <2>4. ASSUME NEW c \in Calls, Arrive(c) PROVE UNCHANGED published
      BY <2>4 DEF Arrive, AskCreate, AskPublish, AskUpdate, AskInline, AskConfirm, AskUpload,
                  Ask, feedbackVars
    <2>5. ASSUME NEW c \in Calls,
                 \/ Claim(c) \/ Lock(c) \/ Update(c) \/ Grant(c) \/ GrantInline(c)
                 \/ Fetch(c) \/ Discard(c) \/ Attach(c) \/ Abort(c)
          PROVE  UNCHANGED published
      BY <2>5 DEF Claim, Lock, Update, Grant, GrantInline, Fetch, Discard, Attach, Abort,
                  feedbackVars
    <2>6. ASSUME NEW a \in Files, NEW bytes \in {"promised", "other"}, Put(a, bytes)
          PROVE  UNCHANGED published
      BY <2>6 DEF Put, feedbackVars
    <2>7. CASE UNCHANGED vars  BY <2>1, <2>7 DEF vars, feedbackVars
    <2> QED  BY <2>1, <2>2, <2>3, <2>4, <2>5, <2>6, <2>7 DEF Next, Proceed
  <1> QED  BY <1>1, Invariance, PTL DEF Spec, PublishedAsReviewed

=============================================================================
