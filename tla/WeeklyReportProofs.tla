------------------------- MODULE WeeklyReportProofs -------------------------
(***************************************************************************)
(* Theorems about WeeklyReport, for every number of tabs, professors,      *)
(* projects, contents and keys, and for every bound.                       *)
(***************************************************************************)
EXTENDS ObservedReport, TLAPS

\* A number that was drawn is one the table of versions has room for, and a
\* committed submission's version is in it.
NumberDrawn ==
    \A s \in Submitters :
        /\ sub[s].pc \in {"numbered", "written", "committed"} => sub[s].no \in Versions
        /\ sub[s].pc = "committed" => sub[s].no <= count

\* Before the first version there is no first submission, and a request that
\* saw a first submission saw the one that stands.
NothingBefore == count = 0 => first = 0
FirstSeen     == \A s \in Submitters : sub[s].firstSeen # 0 => first = 1

Inv ==
    /\ TypeOK /\ NumberDrawn
    /\ FirstStands /\ NothingBefore /\ FirstSeen
    /\ OneVersionPerKey /\ JobsFollowCommit

-----------------------------------------------------------------------------
(* Types of what a submission carries. *)

\* What Write, EntriesOf and ChangedIn read of a submission has its type.
LEMMA SubTypes ==
  ASSUME TypeOK, NEW s \in Submitters
  PROVE  /\ sub[s].base \in 0 .. MaxVersions
         /\ sub[s].firstSeen \in 0 .. MaxVersions
         /\ sub[s].no \in 0 .. MaxVersions
         /\ sub[s].key \in Keys \cup {"none"}
         /\ sub[s].package \in Packages /\ SaysSomething(sub[s].package)
         /\ sub[s].resolving \subseteq Requests
  BY DEF TypeOK, Submits

LEMMA PackageTypes ==
  ASSUME NEW package \in Packages, SaysSomething(package), NEW p \in DOMAIN package
  PROVE  package[p] \in Contents
  BY DEF Packages, SaysSomething

\* Nothing has been submitted yet.
LEMMA NoPackageType == NoPackage \in Packages /\ SaysSomething(NoPackage)
  <1>1. {} \in SUBSET Projects  OBVIOUS
  <1>2. NoPackage \in [{} -> Contents \cup {Blank}]  BY DEF NoPackage
  <1> QED  BY <1>1, <1>2 DEF Packages, SaysSomething

LEMMA EntriesType ==
  ASSUME TypeOK, NEW s \in Submitters
  PROVE  EntriesOf(s) \in [Projects -> Contents \cup {Blank}]
  <1>1. /\ sub[s].package \in Packages /\ SaysSomething(sub[s].package)
        /\ sub[s].base \in 0 .. MaxVersions
    BY SubTypes
  <1>2. sub[s].base # 0 => entries[sub[s].base] \in [Projects -> Contents \cup {Blank}]
    BY <1>1, ReportAssumption DEF TypeOK, Versions
  <1> QED  BY <1>1, <1>2, PackageTypes DEF EntriesOf

LEMMA ChangedType ==
  ASSUME TypeOK, NEW s \in Submitters
  PROVE  ChangedIn(s) \in [Projects -> 0 .. MaxVersions]
  <1>1. sub[s].no \in 0 .. MaxVersions /\ sub[s].base \in 0 .. MaxVersions  BY SubTypes
  <1>2. sub[s].base # 0 => changed[sub[s].base] \in [Projects -> 0 .. MaxVersions]
    BY <1>1, ReportAssumption DEF TypeOK, Versions
  <1> QED  BY <1>1, <1>2, ReportAssumption DEF ChangedIn

-----------------------------------------------------------------------------
(* The invariant. *)

LEMMA InitInv == Init => Inv
  <1> SUFFICES ASSUME Init PROVE Inv  OBVIOUS
  <1>1. NoSubmit \in Submits /\ NoReview \in Reviews
    BY NoPackageType, ReportAssumption DEF NoSubmit, NoReview, Submits, Reviews, States
  <1>2. TypeOK
    <2>1. sub \in [Submitters -> Submits] /\ rev \in [Professors -> Reviews]
      BY <1>1 DEF Init
    <2>2. /\ keyOf \in [Versions -> Keys \cup {"none"}]
          /\ entries \in [Versions -> [Projects -> Contents \cup {Blank}]]
          /\ changed \in [Versions -> [Projects -> 0 .. MaxVersions]]
          /\ obligation \in [Projects -> {"required", "excused", "ended"}]
      BY ReportAssumption DEF Init
    <2>3. /\ current \in 0 .. MaxVersions /\ first \in 0 .. MaxVersions
          /\ count \in 0 .. MaxVersions /\ asked \in 0 .. MaxRequests
          /\ lost \in 0 .. MaxLost
      BY ReportAssumption DEF Init
    <2>4. /\ exists \in BOOLEAN /\ state \in States
          /\ open \subseteq Requests /\ jobs \subseteq Versions \X Projects
      BY Zenon DEF Init, States
    <2> QED  BY <2>1, <2>2, <2>3, <2>4 DEF TypeOK
  <1>3. NumberDrawn /\ FirstSeen
    BY DEF Init, NumberDrawn, FirstSeen, NoSubmit
  <1>4. FirstStands /\ NothingBefore /\ JobsFollowCommit
    BY DEF Init, FirstStands, NothingBefore, JobsFollowCommit
  <1>5. OneVersionPerKey
    BY DEF Init, OneVersionPerKey
  <1> QED  BY <1>2, <1>3, <1>4, <1>5 DEF Inv

\* A submission that moves on without committing, or is dropped: its key and
\* package are of their types, its number is drawn, it saw what stands.
LEMMA SubmitMoves ==
  ASSUME Inv, NEW s \in Submitters, NEW r \in Submits, sub' = [sub EXCEPT ![s] = r],
         r.pc \in {"numbered", "written"} => r.no \in Versions, r.pc # "committed",
         r.firstSeen # 0 => first = 1,
         UNCHANGED <<reportVars, versionVars, obligation, requestVars, rev, jobVars>>
  PROVE  Inv'
  <1> USE DEF Inv, reportVars, versionVars, requestVars, jobVars
  <1>1. TypeOK'  BY DEF TypeOK, Versions
  <1>2. NumberDrawn' /\ FirstSeen'
    BY DEF NumberDrawn, FirstSeen, TypeOK, Versions
  <1>3. FirstStands' /\ NothingBefore'
    BY DEF FirstStands, NothingBefore
  <1>4. OneVersionPerKey' /\ JobsFollowCommit'
    BY DEF OneVersionPerKey, JobsFollowCommit
  <1> QED  BY <1>1, <1>2, <1>3, <1>4

LEMMA SubmitInv ==
  ASSUME Inv, NEW s \in Submitters,
         \/ \E key \in Keys \cup {"none"}, package \in Packages : Open(s, key, package)
         \/ Number(s) \/ Write(s) \/ Abort(s)
  PROVE  Inv'
  <1> USE DEF Inv
  <1>0. /\ sub \in [Submitters -> Submits] /\ open \subseteq Requests
        /\ current \in 0 .. MaxVersions /\ first \in 0 .. MaxVersions
        /\ count \in 0 .. MaxVersions /\ state \in States /\ exists \in BOOLEAN
    BY DEF TypeOK
  <1>1. ASSUME NEW key \in Keys \cup {"none"}, NEW package \in Packages, Open(s, key, package)
        PROVE  Inv'
    <2> DEFINE r == [pc |-> "opened", base |-> current, firstSeen |-> first, saw |-> state,
                     fresh |-> ~exists, key |-> key, package |-> package, no |-> 0,
                     resolving |-> {}]
    <2>1. r \in Submits  BY <1>0, <1>1, ReportAssumption DEF Submits, Open
    <2>2. first # 0 => first = 1  BY <1>0, ReportAssumption DEF FirstStands, NothingBefore
    <2>3. sub' = [sub EXCEPT ![s] = r]  BY <1>1 DEF Open
    <2>4. UNCHANGED <<reportVars, versionVars, obligation, requestVars, rev, jobVars>>
      BY <1>1 DEF Open
    <2> HIDE DEF r
    <2>5. r.pc = "opened" /\ r.firstSeen = first  BY DEF r
    <2> QED  BY <2>1, <2>2, <2>3, <2>4, <2>5, SubmitMoves
  <1>2. CASE Number(s)
    <2> DEFINE r == [sub[s] EXCEPT !.pc = "numbered", !.no = count + 1]
    <2>0. count + 1 \in Versions /\ count + 1 \in 0 .. MaxVersions
      BY <1>0, <1>2, ReportAssumption DEF Number, Versions
    <2>1. r \in Submits  BY <1>0, <2>0 DEF Submits
    <2>2. sub' = [sub EXCEPT ![s] = r]  BY <1>0, <1>2 DEF Number
    <2>3. UNCHANGED <<reportVars, versionVars, obligation, requestVars, rev, jobVars>>
      BY <1>2 DEF Number
    <2>4. r.pc = "numbered" /\ r.no = count + 1 /\ r.firstSeen = sub[s].firstSeen
      BY <1>0 DEF Submits
    <2> HIDE DEF r
    <2> QED  BY <2>0, <2>1, <2>2, <2>3, <2>4, SubmitMoves DEF FirstSeen
  <1>3. CASE Write(s)
    <2> DEFINE r == [sub[s] EXCEPT !.pc = "written", !.resolving = open]
    <2>1. r \in Submits  BY <1>0 DEF Submits
    <2>2. sub' = [sub EXCEPT ![s] = r]  BY <1>0, <1>3 DEF Write
    <2>3. UNCHANGED <<reportVars, versionVars, obligation, requestVars, rev, jobVars>>
      BY <1>3 DEF Write
    <2>4. /\ r.pc = "written" /\ r.no = sub[s].no /\ r.firstSeen = sub[s].firstSeen
      BY <1>0 DEF Submits
    <2>5. sub[s].no \in Versions  BY <1>3 DEF Write, NumberDrawn
    <2> HIDE DEF r
    <2> QED  BY <2>1, <2>2, <2>3, <2>4, <2>5, SubmitMoves DEF FirstSeen
  <1>4. CASE Abort(s)
    <2>1. NoSubmit \in Submits
      BY NoPackageType, ReportAssumption DEF NoSubmit, Submits, States
    <2>2. /\ sub' = [sub EXCEPT ![s] = NoSubmit]
          /\ UNCHANGED <<reportVars, versionVars, obligation, requestVars, rev, jobVars>>
      BY <1>4 DEF Abort
    <2>3. NoSubmit.pc = "idle" /\ NoSubmit.firstSeen = 0  BY DEF NoSubmit
    <2> QED  BY <2>1, <2>2, <2>3, SubmitMoves
  <1> QED  BY <1>1, <1>2, <1>3, <1>4

LEMMA CommitInv ==
  ASSUME Inv, NEW s \in Submitters, Commit(s)
  PROVE  Inv'
  <1> DEFINE v == sub[s].no
  <1> USE DEF Inv
  <1>0. /\ v \in Versions /\ v = count + 1 /\ count \in 0 .. MaxVersions
        /\ first \in 0 .. MaxVersions
        /\ count' = v /\ UNCHANGED jobs
        /\ keyOf' = [keyOf EXCEPT ![v] = sub[s].key]
        /\ sub' = [sub EXCEPT ![s].pc = "committed"]
        /\ first' = IF sub[s].firstSeen = 0 THEN v ELSE first
        /\ keyOf \in [Versions -> Keys \cup {"none"}]
        /\ sub \in [Submitters -> Submits]
    BY DEF Commit, Accepted, NumberDrawn, TypeOK, jobVars
  <1>1. TypeOK'
    <2>1. UNCHANGED <<obligation, asked, rev, lost>>  BY DEF Commit, jobVars
    <2>2. keyOf' \in [Versions -> Keys \cup {"none"}]  BY <1>0, SubTypes
    <2>3. entries' \in [Versions -> [Projects -> Contents \cup {Blank}]]
      BY EntriesType DEF Commit, TypeOK
    <2>4. changed' \in [Versions -> [Projects -> 0 .. MaxVersions]]
      BY ChangedType DEF Commit, TypeOK
    <2>5. sub' \in [Submitters -> Submits]  BY <1>0 DEF Submits
    <2>6. exists' \in BOOLEAN /\ state' \in States /\ open' \subseteq Requests
      BY DEF Commit, HandedIn, TypeOK, States
    <2>7. /\ current' \in 0 .. MaxVersions /\ count' \in 0 .. MaxVersions
          /\ first' \in 0 .. MaxVersions
      BY <1>0, ReportAssumption DEF Commit, Versions
    <2> QED  BY <1>0, <2>1, <2>2, <2>3, <2>4, <2>5, <2>6, <2>7 DEF TypeOK, Versions, Requests
  <1>2. NumberDrawn'
    <2> SUFFICES ASSUME NEW r \in Submitters
                 PROVE  /\ sub'[r].pc \in {"numbered", "written", "committed"}
                             => sub'[r].no \in Versions
                        /\ sub'[r].pc = "committed" => sub'[r].no <= count'
      BY DEF NumberDrawn, Versions
    <2>1. sub[r].no \in 0 .. MaxVersions  BY SubTypes
    <2>2. sub'[r].no = sub[r].no /\ (r # s => sub'[r] = sub[r])  BY <1>0 DEF Submits
    <2> QED  BY <1>0, <2>1, <2>2, ReportAssumption DEF NumberDrawn, Versions
  <1>3. first' = 1
    BY <1>0 DEF Commit, Accepted, FirstStands, FirstSeen
  <1>4. FirstStands' /\ NothingBefore' /\ FirstSeen'
    BY <1>0, <1>3 DEF FirstStands, NothingBefore, FirstSeen, Versions
  <1>5. OneVersionPerKey'
    <2> SUFFICES ASSUME NEW u \in 1 .. count', NEW w \in 1 .. count',
                        keyOf'[u] = keyOf'[w], keyOf'[u] # "none"
                 PROVE  u = w
      BY DEF OneVersionPerKey
    <2>1. u \in Versions /\ w \in Versions
      <3>1. v \in 1 .. MaxVersions /\ u \in 1 .. v /\ w \in 1 .. v  BY <1>0 DEF Versions
      <3> HIDE DEF v
      <3> QED  BY <3>1, ReportAssumption DEF Versions
    <2>2. \A x \in 1 .. count : keyOf[x] # sub[s].key \/ sub[s].key = "none"
      BY DEF Commit, Accepted
    <2>3. CASE u = v \/ w = v  BY <1>0, <2>1, <2>2, <2>3
    <2>4. CASE u # v /\ w # v  BY <1>0, <2>1, <2>4 DEF OneVersionPerKey
    <2> QED  BY <2>3, <2>4
  <1>6. JobsFollowCommit'
    <2> SUFFICES ASSUME NEW job \in jobs
                 PROVE  job[1] <= count' /\ changed'[job[1]][job[2]] = job[1]
      BY <1>0 DEF JobsFollowCommit
    <2>1. job[1] \in Versions /\ job[1] <= count /\ changed[job[1]][job[2]] = job[1]
      BY DEF JobsFollowCommit, TypeOK
    <2> QED  BY <1>0, <2>1 DEF Commit, TypeOK, Versions
  <1> QED  BY <1>1, <1>2, <1>4, <1>5, <1>6

LEMMA FlushInv ==
  ASSUME Inv, NEW s \in Submitters, Flush(s)
  PROVE  Inv'
  <1> DEFINE v == sub[s].no
             due == {<<v, p>> : p \in {p \in Projects : changed[v][p] = v}}
  <1> USE DEF Inv
  <1>0. /\ sub[s].pc = "committed" /\ jobs' \subseteq jobs \cup due
        /\ sub' = [sub EXCEPT ![s] = NoSubmit]
        /\ lost' \in 0 .. MaxLost
        /\ UNCHANGED <<reportVars, versionVars, obligation, requestVars, rev>>
    BY ReportAssumption DEF Flush, TypeOK
  <1>1. v \in Versions /\ v <= count  BY <1>0 DEF NumberDrawn
  <1>2. TypeOK'
    <2>1. NoSubmit \in Submits
      BY NoPackageType, ReportAssumption DEF NoSubmit, Submits, States
    <2>2. jobs' \subseteq Versions \X Projects
      BY <1>0, <1>1 DEF TypeOK
    <2>3. UNCHANGED Versions  BY DEF Versions
    <2> QED
      BY <1>0, <2>1, <2>2, <2>3 DEF TypeOK, reportVars, versionVars, requestVars, Requests
  <1>3. NumberDrawn' /\ FirstSeen'
    BY <1>0 DEF NumberDrawn, FirstSeen, NoSubmit, TypeOK, reportVars, versionVars, Versions
  <1>4. FirstStands' /\ NothingBefore' /\ OneVersionPerKey'
    BY <1>0 DEF FirstStands, NothingBefore, OneVersionPerKey, reportVars,
                versionVars, requestVars
  <1>5. JobsFollowCommit'
    <2> SUFFICES ASSUME NEW job \in jobs'
                 PROVE  job[1] <= count /\ changed[job[1]][job[2]] = job[1]
      BY <1>0 DEF JobsFollowCommit, versionVars
    <2>1. CASE job \in jobs  BY <2>1 DEF JobsFollowCommit
    <2>2. CASE job \in due  BY <1>1, <2>2
    <2> QED  BY <1>0, <2>1, <2>2
  <1> QED  BY <1>2, <1>3, <1>4, <1>5

\* The professor's steps, and what happens around the report.
LEMMA ElsewhereInv ==
  ASSUME Inv,
         \/ SaveDraft
         \/ \E p \in Projects : Excuse(p) \/ EndMembership(p)
         \/ \E q \in Professors : ReviewStep(q)
         \/ UNCHANGED vars
  PROVE  Inv'
  <1> USE DEF Inv, reportVars, versionVars, requestVars, jobVars
  <1>0. UNCHANGED <<sub, versionVars, first, jobs>>
    BY DEF SaveDraft, Excuse, EndMembership, ReviewStep, Load, Mark, Settle, Abandon, vars
  <1>1. NumberDrawn' /\ FirstSeen' /\ FirstStands' /\ NothingBefore'
    BY <1>0 DEF NumberDrawn, FirstSeen, FirstStands, NothingBefore, Versions
  <1>2. OneVersionPerKey' /\ JobsFollowCommit'
    BY <1>0 DEF OneVersionPerKey, JobsFollowCommit
  <1>3. CASE SaveDraft \/ UNCHANGED vars
    BY <1>1, <1>2, <1>3 DEF SaveDraft, vars, TypeOK, Versions, Requests
  <1>4. ASSUME NEW p \in Projects, Excuse(p) \/ EndMembership(p)
        PROVE  TypeOK'
    BY <1>4 DEF Excuse, EndMembership, TypeOK, Versions, Requests
  <1>5. ASSUME NEW q \in Professors, ReviewStep(q)
        PROVE  TypeOK'
    <2>1. rev[q] \in Reviews /\ NoReview \in Reviews
      BY DEF TypeOK, Reviews, NoReview, States
    <2>2. ASSUME NEW to \in {"revision_requested", "reviewed"}, Load(q, to)
          PROVE  TypeOK'
      <3>1. [pc |-> "loaded", to |-> to, saw |-> state] \in Reviews
        BY DEF TypeOK, Reviews
      <3> QED  BY <2>2, <3>1 DEF Load, TypeOK, Versions, Requests
    <2>3. CASE Mark(q)
      <3>1. [rev[q] EXCEPT !.pc = "written"] \in Reviews  BY <2>1 DEF Reviews
      <3> QED  BY <2>3, <3>1 DEF Mark, TypeOK, Versions, Requests
    <2>4. CASE Settle(q)
      <3>1. /\ state' \in States /\ rev' \in [Professors -> Reviews]
            /\ UNCHANGED <<exists, current, first, versionVars, obligation, sub, jobVars>>
        BY <2>1, <2>4 DEF Settle, TypeOK, Reviews, States
      <3>2. asked' \in 0 .. MaxRequests /\ open' \subseteq Requests
        <4>1. asked \in 0 .. MaxRequests /\ open \subseteq 1 .. MaxRequests
          BY DEF TypeOK, Requests
        <4>2. \/ asked < MaxRequests /\ asked' = asked + 1 /\ open' = open \cup {asked + 1}
              \/ UNCHANGED <<asked, open>>
          BY <2>4 DEF Settle
        <4>3. CASE UNCHANGED <<asked, open>>  BY <4>1, <4>3 DEF Requests
        <4>4. CASE asked < MaxRequests /\ asked' = asked + 1 /\ open' = open \cup {asked + 1}
          <5>1. asked + 1 \in 1 .. MaxRequests  BY <4>1, <4>4, ReportAssumption
          <5> QED  BY <4>1, <4>4, <5>1, ReportAssumption DEF Requests
        <4> QED  BY <4>2, <4>3, <4>4
      <3> QED  BY <3>1, <3>2 DEF TypeOK, Versions, Requests
    <2>5. CASE Abandon(q)
      BY <2>1, <2>5 DEF Abandon, TypeOK, Versions, Requests
    <2> QED  BY <1>5, <2>2, <2>3, <2>4, <2>5 DEF ReviewStep
  <1> QED  BY <1>1, <1>2, <1>3, <1>4, <1>5

LEMMA NextInv == Inv /\ [Next]_vars => Inv'
  <1> SUFFICES ASSUME Inv, [Next]_vars PROVE Inv'  OBVIOUS
  <1>1. ASSUME NEW s \in Submitters, SubmitStep(s) PROVE Inv'
    BY <1>1, SubmitInv, CommitInv, FlushInv DEF SubmitStep
  <1> QED  BY <1>1, ElsewhereInv DEF Next

LEMMA Invariance == Spec => []Inv
  BY InitInv, NextInv, PTL DEF Spec

-----------------------------------------------------------------------------
(* The theorems. *)

\* Every reachable state has the module's types.
THEOREM TypeCorrect == Spec => []TypeOK
  BY Invariance, PTL DEF Inv

\* The first submission is version 1 and stays so, whatever overlaps it
\* (submit_report's insert of the version, the trigger on first_submitted_at).
THEOREM FirstSubmissionStands == Spec => []FirstStands
  BY Invariance, PTL DEF Inv

\* However often a request is repeated, its idempotency key has one version.
THEOREM KeyMakesOneVersion == Spec => []OneVersionPerKey
  BY Invariance, PTL DEF Inv

\* No worker finds a job whose version it cannot read (defer_after_commit).
THEOREM JobsAfterCommit == Spec => []JobsFollowCommit
  BY Invariance, PTL DEF Inv

-----------------------------------------------------------------------------
(* One tab at a time. *)

\* What a submission carries forward from is the newest version.
BaseIsLatest ==
    /\ current = count
    /\ \A s \in Submitters :
          sub[s].pc \in {"opened", "numbered", "written"} => sub[s].base = count

\* What a commit with the newest version as its base records.
LEMMA CommitOverLatest ==
  ASSUME Inv, BaseIsLatest, NEW s \in Submitters, Commit(s)
  PROVE  /\ count' = count + 1 /\ count + 1 \in Versions /\ count \in Nat
         /\ entries'[count + 1] = EntriesOf(s) /\ changed'[count + 1] = ChangedIn(s)
         /\ \A u \in 1 .. count : entries'[u] = entries[u] /\ changed'[u] = changed[u]
         /\ sub[s].base = count
  <1>1. sub[s].no \in Versions /\ sub[s].no = count + 1 /\ count \in 0 .. MaxVersions
    BY DEF Commit, Accepted, Inv, NumberDrawn, TypeOK
  <1>2. /\ entries' = [entries EXCEPT ![sub[s].no] = EntriesOf(s)] /\ count' = sub[s].no
        /\ changed' = [changed EXCEPT ![sub[s].no] = ChangedIn(s)]
        /\ sub[s].base = count
    BY DEF Commit, BaseIsLatest
  <1> QED  BY <1>1, <1>2, ReportAssumption DEF Inv, TypeOK, Versions

LEMMA BaseStep ==
  ASSUME Inv, ~Overlap, BaseIsLatest, [Next]_vars
  PROVE  BaseIsLatest'
  <1> USE DEF BaseIsLatest, reportVars, versionVars
  <1>0. sub \in [Submitters -> Submits]  BY DEF Inv, TypeOK
  <1>1. ASSUME NEW s \in Submitters, SubmitStep(s) PROVE BaseIsLatest'
    <2>1. ASSUME NEW key \in Keys \cup {"none"}, NEW package \in Packages, Open(s, key, package)
          PROVE  BaseIsLatest'
      BY <1>0, <2>1 DEF Open
    <2>2. CASE Number(s) \/ Write(s)  BY <1>0, <2>2 DEF Number, Write, Submits
    <2>3. CASE Commit(s)
      <3>1. \A t \in Submitters \ {s} : sub[t].pc = "idle"
        BY <2>3 DEF Commit, Overlap, Underway
      <3> QED  BY <1>0, <2>3, <3>1 DEF Commit, Submits
    <2>4. CASE Abort(s) \/ Flush(s)  BY <1>0, <2>4 DEF Abort, Flush, NoSubmit
    <2> QED  BY <1>1, <2>1, <2>2, <2>3, <2>4 DEF SubmitStep
  <1>2. CASE UNCHANGED <<current, count, sub>>
    BY <1>2
  <1> QED
    BY <1>1, <1>2 DEF Next, vars, SaveDraft, Excuse, EndMembership, ReviewStep, Load, Mark,
                      Settle, Abandon

LEMMA RecordStep ==
  ASSUME Inv, BaseIsLatest, MarkerIsTrue, NothingDropped, NEW s \in Submitters, Commit(s)
  PROVE  MarkerIsTrue' /\ NothingDropped'
  <1> DEFINE n == count + 1
  <1>0. /\ count' = n /\ n \in Versions /\ count \in Nat
        /\ entries'[n] = EntriesOf(s) /\ changed'[n] = ChangedIn(s)
        /\ \A u \in 1 .. count : entries'[u] = entries[u] /\ changed'[u] = changed[u]
        /\ sub[s].base = count /\ sub[s].no = n
    BY CommitOverLatest DEF Commit, Accepted
  <1>1. ASSUME NEW p \in Projects, count # 0, entries[count][p] # Blank
        PROVE  EntriesOf(s)[p] # Blank
    BY <1>0, <1>1, PackageTypes, SubTypes, ReportAssumption DEF EntriesOf, Inv
  <1>2. NothingDropped'
    <2> SUFFICES ASSUME NEW u \in 1 .. n, NEW w \in 1 .. n, u < w, NEW p \in Projects,
                        entries'[u][p] # Blank
                 PROVE  entries'[w][p] # Blank
      BY <1>0 DEF NothingDropped
    <2>1. u \in 1 .. count /\ entries[u][p] # Blank /\ count # 0  BY <1>0
    <2>2. entries[count][p] # Blank
      BY <1>0, <2>1 DEF NothingDropped
    <2>3. CASE w = n  BY <1>0, <1>1, <2>1, <2>2, <2>3
    <2>4. CASE w # n  BY <1>0, <2>1, <2>4 DEF NothingDropped
    <2> QED  BY <2>3, <2>4
  <1>3. ASSUME NEW p \in Projects, EntriesOf(s)[p] # Blank
        PROVE  LET w == ChangedIn(s)[p] IN
               /\ w \in 1 .. n
               /\ \A u \in w .. n : entries'[u][p] = EntriesOf(s)[p]
               /\ w > 1 => entries'[w - 1][p] # EntriesOf(s)[p]
    <2>1. CASE count # 0 /\ entries[count][p] = EntriesOf(s)[p]
      <3>1. ChangedIn(s)[p] = changed[count][p]  BY <1>0, <2>1 DEF ChangedIn
      <3>2. LET w == changed[count][p] IN
            /\ w \in 1 .. count
            /\ \A u \in w .. count : entries[u][p] = entries[count][p]
            /\ w > 1 => entries[w - 1][p] # entries[count][p]
        BY <1>0, <1>3, <2>1 DEF MarkerIsTrue
      <3> QED  BY <1>0, <2>1, <3>1, <3>2
    <2>2. CASE ~(count # 0 /\ entries[count][p] = EntriesOf(s)[p])
      <3>1. p \in DOMAIN sub[s].package  BY <1>0, <1>3, <2>2 DEF EntriesOf
      <3>2. ChangedIn(s)[p] = n  BY <1>0, <2>2, <3>1 DEF ChangedIn
      <3> QED  BY <1>0, <2>2, <3>2
    <2> QED  BY <2>1, <2>2
  <1>4. MarkerIsTrue'
    <2> SUFFICES ASSUME NEW v \in 1 .. n, NEW p \in Projects, entries'[v][p] # Blank
                 PROVE  LET w == changed'[v][p] IN
                        /\ w \in 1 .. v
                        /\ \A u \in w .. v : entries'[u][p] = entries'[v][p]
                        /\ w > 1 => entries'[w - 1][p] # entries'[v][p]
      BY <1>0 DEF MarkerIsTrue
    <2>1. CASE v = n  BY <1>0, <1>3, <2>1
    <2>2. CASE v # n
      <3>1. v \in 1 .. count  BY <1>0, <2>2
      <3> QED  BY <1>0, <3>1 DEF MarkerIsTrue
    <2> QED  BY <2>1, <2>2
  <1> QED  BY <1>2, <1>4

LEMMA RecordsTruly ==
  ASSUME Inv, ~Overlap, BaseIsLatest, MarkerIsTrue, NothingDropped, [Next]_vars
  PROVE  BaseIsLatest' /\ MarkerIsTrue' /\ NothingDropped'
  <1>1. BaseIsLatest'  BY BaseStep
  <1>2. CASE \E s \in Submitters : Commit(s)  BY <1>1, <1>2, RecordStep
  <1>3. CASE UNCHANGED versionVars
    BY <1>1, <1>3 DEF MarkerIsTrue, NothingDropped, versionVars
  <1> QED
    BY <1>2, <1>3
    DEF Next, vars, SaveDraft, Excuse, EndMembership, SubmitStep, Open, Number, Write, Abort,
        Flush, ReviewStep, Load, Mark, Settle, Abandon

LEMMA InitRecord == Init => ~Overlap /\ BaseIsLatest /\ MarkerIsTrue /\ NothingDropped
  BY DEF Init, Overlap, Underway, BaseIsLatest, MarkerIsTrue, NothingDropped, NoSubmit

\* As long as the student's submissions come one after another, the record is
\* true: nothing that was submitted is dropped, and each marker names the
\* version its content last changed in (submit_report, _carried_entry).  From
\* the first time two overlap neither holds.
THEOREM AloneIsTrue == ObservedSpec => []AloneRecordsTruly
  <1> DEFINE I == Inv /\ (~overlapped =>
                            ~Overlap /\ BaseIsLatest /\ MarkerIsTrue /\ NothingDropped)
  <1>1. ObservedInit => I
    BY InitInv, InitRecord DEF ObservedInit
  <1>2. ASSUME I, [ObservedNext]_observedVars PROVE I'
    <2>1. [Next]_vars  BY <1>2 DEF ObservedNext, observedVars
    <2>2. Inv'  BY <1>2, <2>1, NextInv
    <2>3. CASE UNCHANGED observedVars
      <3>1. UNCHANGED <<sub, current, versionVars, overlapped>>
        BY <2>3 DEF observedVars, vars, reportVars
      <3> QED
        BY <1>2, <2>2, <3>1
        DEF Overlap, Underway, BaseIsLatest, MarkerIsTrue, NothingDropped, versionVars
    <2>4. ASSUME ObservedNext, ~overlapped'
          PROVE  ~overlapped /\ ~Overlap' /\ BaseIsLatest' /\ MarkerIsTrue' /\ NothingDropped'
      <3>1. ~overlapped /\ ~Overlap'  BY <2>4 DEF ObservedNext
      <3> QED  BY <1>2, <2>1, <3>1, RecordsTruly
    <2> QED  BY <1>2, <2>2, <2>3, <2>4
  <1>3. I => AloneRecordsTruly  BY DEF AloneRecordsTruly
  <1> QED  BY <1>1, <1>2, <1>3, PTL DEF ObservedSpec

\* One tab records truly, whatever the professor does meanwhile.
THEOREM OneTabRecordsTruly ==
  ASSUME NEW o, Submitters = {o}
  PROVE  Spec => [](MarkerIsTrue /\ NothingDropped)
  <1> DEFINE I == Inv /\ BaseIsLatest /\ MarkerIsTrue /\ NothingDropped
  <1>1. Init => I
    BY InitInv, InitRecord
  <1>2. ASSUME I, [Next]_vars PROVE I'
    <2>1. ~Overlap  BY DEF Overlap, Underway
    <2> QED  BY <1>2, <2>1, NextInv, RecordsTruly
  <1> QED  BY <1>1, <1>2, PTL DEF Spec

-----------------------------------------------------------------------------
(* The jobs of a version. *)

LEMMA SentStep ==
  ASSUME Inv, SentWithVersion, [Next]_vars
  PROVE  SentWithVersion'
  <1> USE DEF versionVars, jobVars
  <1>0. sub \in [Submitters -> Submits] /\ lost \in 0 .. MaxLost  BY DEF Inv, TypeOK
  <1>1. ASSUME NEW s \in Submitters, Commit(s) PROVE SentWithVersion'
    <2>1. /\ sub' = [sub EXCEPT ![s].pc = "committed"] /\ UNCHANGED <<jobs, lost>>
          /\ sub[s].no = count + 1 /\ count' = count + 1 /\ count \in 0 .. MaxVersions
          /\ sub[s].pc = "written"
      BY <1>1 DEF Commit, Accepted, Inv, TypeOK
    <2>2. sub[s].no \in Versions  BY <2>1 DEF Inv, NumberDrawn
    <2>3. \A v \in 1 .. count : v \in Versions /\ changed'[v] = changed[v]
      BY <1>1, <2>1, ReportAssumption DEF Commit, Inv, TypeOK, Versions
    <2>4. \A t \in Submitters : sub[t].pc = "committed" => sub'[t] = sub[t]
      BY <1>0, <2>1
    <2>5. sub'[s].pc = "committed" /\ sub'[s].no = count + 1
      BY <1>0, <2>1 DEF Submits
    <2> QED
      <3> SUFFICES ASSUME lost = 0, NEW v \in 1 .. count + 1, NEW p \in Projects,
                          changed'[v][p] = v
                   PROVE  \/ <<v, p>> \in jobs
                          \/ \E t \in Submitters : sub'[t].pc = "committed" /\ sub'[t].no = v
        BY <2>1 DEF SentWithVersion, EnqueuedWithVersion
      <3>1. CASE v = count + 1  BY <2>5, <3>1
      <3>2. CASE v \in 1 .. count
        BY <2>3, <2>4, <3>2 DEF SentWithVersion, EnqueuedWithVersion
      <3> QED  BY <2>1, <3>1, <3>2
  <1>2. ASSUME NEW s \in Submitters, Flush(s) PROVE SentWithVersion'
    <2>1. sub' = [sub EXCEPT ![s] = NoSubmit] /\ UNCHANGED versionVars  BY <1>2 DEF Flush
    <2>2. lost' = 0 =>
            /\ lost = 0 /\ jobs \subseteq jobs'
            /\ \A p \in Projects : changed[sub[s].no][p] = sub[s].no => <<sub[s].no, p>> \in jobs'
      BY <1>0, <1>2 DEF Flush
    <2>3. \A t \in Submitters \ {s} : sub'[t] = sub[t]  BY <1>0, <2>1
    <2> QED  BY <2>1, <2>2, <2>3 DEF SentWithVersion, EnqueuedWithVersion
  <1>3. ASSUME \A t \in Submitters : sub[t].pc = "committed" => sub'[t] = sub[t],
               UNCHANGED <<versionVars, jobVars>>
        PROVE  SentWithVersion'
    BY <1>3 DEF SentWithVersion, EnqueuedWithVersion
  <1>4. ASSUME NEW s \in Submitters, SubmitStep(s), ~Commit(s), ~Flush(s)
        PROVE  SentWithVersion'
    <2>1. UNCHANGED <<versionVars, jobVars>> /\ sub[s].pc # "committed"
      BY <1>4 DEF SubmitStep, Open, Number, Write, Abort
    <2>2. \A t \in Submitters \ {s} : sub'[t] = sub[t]
      BY <1>0, <1>4 DEF SubmitStep, Open, Number, Write, Abort
    <2> QED  BY <1>3, <2>1, <2>2
  <1>5. CASE UNCHANGED <<sub, versionVars, jobVars>>  BY <1>3, <1>5
  <1> QED
    BY <1>1, <1>2, <1>4, <1>5
    DEF Next, vars, SaveDraft, Excuse, EndMembership, ReviewStep, Load, Mark, Settle, Abandon

\* Version, entries and jobs persist together: while no send has failed, each
\* committed version has its jobs or is about to send them, however
\* submissions overlap (defer_after_commit, flush_deferred).
THEOREM JobsAreSent == Spec => []SentWithVersion
  <1>1. Init => SentWithVersion  BY DEF Init, SentWithVersion, EnqueuedWithVersion
  <1> QED  BY Invariance, SentStep, <1>1, PTL DEF Spec

=============================================================================
