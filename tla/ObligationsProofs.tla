-------------------------- MODULE ObligationsProofs --------------------------
(***************************************************************************)
(* Theorems about Obligations and about Calendar, whose weeks they are for *)
(* every value of their constants.                                         *)
(***************************************************************************)
EXTENDS Obligations, Calendar, SequenceTheorems, TLAPS

\* What a membership was made with does not change.
Enrolment(m) == <<m.project, m.selfJoined, m.joined>>
Kept == /\ Len(members') \in Nat /\ Len(members) <= Len(members') /\ Len(members') <= MaxMembers
        /\ \A m \in Members : Enrolment(members'[m]) = Enrolment(members[m])

LEMMA WeekDates ==
  ASSUME NEW w \in Weeks
  PROVE  /\ w \in Nat /\ Start(w) \in Int /\ End(w) \in Int /\ Start(w) <= End(w)
         /\ \A v \in Weeks : v < w => End(v) < Start(w)
<1>1. w \in Nat /\ DaysPerWeek \in Nat \ {0}
  BY ObligationsAssumption DEF Weeks
<1>2. Start(w) \in Int /\ End(w) \in Int /\ Start(w) <= End(w)
  BY <1>1 DEF Start, End
<1>3. ASSUME NEW v \in Weeks, v < w
      PROVE  End(v) < Start(w)
  <2>1. v \in Int /\ w - v \in Nat \ {0}
    BY <1>1, <1>3, ObligationsAssumption DEF Weeks
  <2>2. PICK k \in Nat : w = v + 1 + k
    BY <1>1, <2>1
  <2>3. Start(w) = Start(v) + DaysPerWeek + k * DaysPerWeek
    BY <1>1, <2>1, <2>2 DEF Start
  <2>4. k * DaysPerWeek \in Nat /\ Start(v) \in Int
    BY <1>1, <2>1, <2>2 DEF Start
  <2> QED
    BY <1>1, <2>3, <2>4 DEF End
<1> QED
  BY <1>1, <1>2, <1>3

LEMMA MembersType ==
  ASSUME TypeOK
  PROVE  /\ Len(members) \in Nat
         /\ \A m \in Members : /\ members[m] \in Membership
                               /\ members[m].project \in Projects
                               /\ members[m].joined \in Days
                               /\ members[m].left \in 0 .. Never
         /\ Members \subseteq 1 .. MaxMembers
<1>1. members \in Seq(Membership) /\ Len(members) \in Nat /\ Len(members) <= MaxMembers
  BY LenProperties DEF TypeOK
<1>2. \A m \in Members : members[m] \in Membership
  BY <1>1, ElementOfSeq DEF Members
<1> QED
  BY <1>1, <1>2, ObligationsAssumption DEF Membership, Members

-----------------------------------------------------------------------------
(* How the steps change the memberships. *)

NewRow(p, self, d) == [project |-> p, selfJoined |-> self, joined |-> d, left |-> Never]

LEMMA EnrolMembers ==
  ASSUME TypeOK, NEW p \in Projects, NEW st, NEW self \in BOOLEAN, NEW d \in Days,
         Enrol(p, st, self, d)
  PROVE  /\ members' = Append(members, NewRow(p, self, d)) /\ members' \in Seq(Membership)
         /\ Len(members') = Len(members) + 1 /\ Len(members') <= MaxMembers
         /\ \A m \in Members : members'[m] = members[m]
         /\ members'[Len(members) + 1] = NewRow(p, self, d)
         /\ Kept
<1>1. Len(members) \in Nat /\ members \in Seq(Membership)
  BY LenProperties DEF TypeOK
<1>2. NewRow(p, self, d) \in Membership
  BY ObligationsAssumption DEF NewRow, Membership, Never, Days
<1>3. members' = Append(members, NewRow(p, self, d)) /\ Len(members) < MaxMembers
  BY DEF Enrol, NewRow
<1>4. /\ members' \in Seq(Membership) /\ Len(members') = Len(members) + 1
      /\ \A m \in 1 .. Len(members) : members'[m] = members[m]
      /\ members'[Len(members) + 1] = NewRow(p, self, d)
  BY <1>1, <1>2, <1>3, AppendProperties
<1> QED
  BY <1>1, <1>3, <1>4, ObligationsAssumption DEF Members, Kept

LEMMA EndMembers ==
  ASSUME TypeOK, EndMembership, ending[1] \in Members
  PROVE  /\ members' \in Seq(Membership) /\ Len(members') = Len(members)
         /\ ending[2] \in Days
         /\ \A m \in Members : members'[m] =
               IF m = ending[1] THEN [members[m] EXCEPT !.left = ending[2]] ELSE members[m]
         /\ Kept
<1>1. members \in Seq(Membership) /\ Len(members) \in Nat /\ Len(members) <= MaxMembers
  BY LenProperties DEF TypeOK
<1>2. ending[2] \in Days /\ members[ending[1]] \in Membership
  BY MembersType DEF EndMembership, TypeOK, Days
<1> DEFINE e == [members[ending[1]] EXCEPT !.left = ending[2]]
<1>3. e \in Membership
  BY <1>2, ObligationsAssumption DEF Membership, Days, Never
<1>4. members' = [members EXCEPT ![ending[1]] = e]
  BY DEF EndMembership
<1> HIDE DEF e
<1>5. /\ members' \in Seq(Membership) /\ Len(members') = Len(members)
      /\ \A m \in 1 .. Len(members) : members'[m] = IF m = ending[1] THEN e ELSE members[m]
  BY <1>1, <1>3, <1>4, ExceptSeq DEF Members
<1>6. \A m \in Members : Enrolment(members'[m]) = Enrolment(members[m])
  BY <1>2, <1>5, MembersType DEF Members, Enrolment, e, Membership
<1> QED
  BY <1>1, <1>2, <1>5, <1>6 DEF Members, Kept, e

LEMMA RemoveMembers ==
  ASSUME TypeOK, RemoveStudent
  PROVE  /\ members' \in Seq(Membership) /\ Len(members') = Len(members)
         /\ \A m \in Members : members'[m] =
               IF OpenOn(m, today) THEN [members[m] EXCEPT !.left = today] ELSE members[m]
         /\ Kept
<1>1. members \in Seq(Membership) /\ Len(members) \in Nat /\ Len(members) <= MaxMembers
  BY LenProperties DEF TypeOK
<1>2. members' = [m \in 1 .. Len(members) |->
          IF OpenOn(m, today) THEN [members[m] EXCEPT !.left = today] ELSE members[m]]
  BY DEF RemoveStudent, Members
<1>3. \A m \in 1 .. Len(members) :
        (IF OpenOn(m, today) THEN [members[m] EXCEPT !.left = today] ELSE members[m])
           \in Membership
  <2>1. \A m \in 1 .. Len(members) : members[m] \in Membership
    BY MembersType DEF Members
  <2>2. today \in 0 .. Never
    BY ObligationsAssumption DEF TypeOK, Days, Never
  <2> QED
    BY <2>1, <2>2 DEF Membership
<1>4. members' \in [1 .. Len(members) -> Membership]
  BY <1>2, <1>3
<1>5. members' \in Seq(Membership)
  BY <1>1, <1>4, SeqDef
<1>6. Len(members') = Len(members)
  <2>1. Len(members') \in Nat /\ 1 .. Len(members') = 1 .. Len(members)
    BY <1>4, <1>5, LenProperties
  <2>2. \A i \in Nat : i \in 1 .. Len(members') <=> i \in 1 .. Len(members)
    BY <2>1
  <2> QED
    BY <1>1, <2>1, <2>2
<1>7. \A m \in Members : Enrolment(members'[m]) = Enrolment(members[m])
  BY <1>2, MembersType DEF Members, Enrolment, Membership
<1> QED
  BY <1>1, <1>2, <1>5, <1>6, <1>7 DEF Members, Kept

-----------------------------------------------------------------------------
(* Types, and what rows refer to. *)

\* An ending and the rows of a job are about memberships that were written.
Known == /\ ending # << >> => ending[1] \in Members
         /\ \A j \in Jobs : \A o \in job[j].rows : o[1] \in Members

TypeInv == TypeOK /\ Known

LEMMA TypeFrame ==
  ASSUME TypeInv, Kept, members' \in Seq(Membership), UNCHANGED <<today, job, plan, kept, baseline>>,
         status' \in [Projects -> {"absent", "inactive", "active", "open"}],
         ending' = ending \/ ending' = << >>, lost' \in BOOLEAN,
         owed' \subseteq owed \cup ((1 .. Len(members')) \X Weeks)
  PROVE  TypeInv'
<1>1. Members \subseteq Members' /\ Members' \subseteq 1 .. MaxMembers
  BY MembersType, ObligationsAssumption DEF TypeInv, Kept, Members
<1>2. owed' \subseteq Obligation /\ \A o \in owed' : o[1] <= Len(members')
  <2>1. /\ Len(members) \in Nat /\ Len(members') \in Nat /\ Len(members) <= Len(members')
        /\ MaxMembers \in Nat
    BY MembersType, ObligationsAssumption DEF TypeInv, Kept
  <2>2. \A o \in owed : o \in Obligation /\ o[1] <= Len(members)
    BY DEF TypeInv, TypeOK
  <2>3. \A o \in Obligation : o[1] \in Nat
    BY DEF Obligation
  <2>4. \A o \in owed : o[1] <= Len(members')
    BY <2>1, <2>2, <2>3
  <2>5. \A o \in (1 .. Len(members')) \X Weeks : o \in Obligation /\ o[1] <= Len(members')
    BY <1>1 DEF Members, Obligation
  <2> QED
    BY <2>2, <2>4, <2>5
<1>3. Known'
  BY <1>1 DEF TypeInv, Known
<1>4. TypeOK'
  BY <1>2 DEF TypeInv, TypeOK, Kept
<1> QED
  BY <1>3, <1>4 DEF TypeInv

LEMMA EnrolOwed ==
  ASSUME NEW p, NEW st, NEW self, NEW d, Enrol(p, st, self, d)
  PROVE  owed' \subseteq owed \cup ((1 .. Len(members')) \X Weeks)
  BY DEF Enrol

LEMMA StayKept ==
  ASSUME TypeOK, UNCHANGED members
  PROVE  Kept /\ members' \in Seq(Membership)
  BY LenProperties DEF TypeOK, Kept, Members

LEMMA StudentTypes ==
  ASSUME TypeInv, StudentStep
  PROVE  TypeInv'
<1>1. ASSUME NEW p \in Projects, StartProject(p)
      PROVE  TypeInv'
  <2>1. today \in Days /\ Enrol(p, status', FALSE, today)
    BY <1>1 DEF StartProject, TypeInv, TypeOK
  <2> QED
    BY <1>1, <2>1, EnrolMembers, EnrolOwed, TypeFrame DEF StartProject, TypeInv, TypeOK, reportVars
<1>2. ASSUME NEW p \in Projects, JoinProject(p)
      PROVE  TypeInv'
  <2>1. today \in Days /\ Enrol(p, status, TRUE, today)
    BY <1>2 DEF JoinProject, TypeInv, TypeOK
  <2> QED
    BY <1>2, <2>1, EnrolMembers, EnrolOwed, TypeFrame DEF JoinProject, TypeInv, TypeOK, reportVars
<1> QED
  BY <1>1, <1>2 DEF StudentStep

LEMMA ProfessorTypes ==
  ASSUME TypeInv, ProfessorStep
  PROVE  TypeInv'
<1>1. ASSUME NEW p \in Projects, ProposeProject(p)
      PROVE  TypeInv'
  BY <1>1, StayKept, TypeFrame DEF ProposeProject, TypeInv, TypeOK, reportVars
<1>2. ASSUME NEW p \in Projects, NEW st \in {"inactive", "active", "open"}, UpdateProject(p, st)
      PROVE  TypeInv'
  BY <1>2, StayKept, TypeFrame DEF UpdateProject, TypeInv, TypeOK, reportVars
<1>3. ASSUME NEW p \in Projects, NEW d \in Dates \cup {today}, AddMember(p, d)
      PROVE  TypeInv'
  <2>1. d \in Days /\ Enrol(p, status, FALSE, d)
    BY <1>3, ObligationsAssumption DEF AddMember, TypeInv, TypeOK, Days
  <2> QED
    BY <1>3, <2>1, EnrolMembers, EnrolOwed, TypeFrame DEF AddMember, TypeInv, TypeOK, reportVars
<1>4. ASSUME NEW m \in Members, NEW d \in Dates \cup {today}, ReadEnding(m, d)
      PROVE  TypeInv'
  <2>1. ending' = <<m, d>> /\ m \in 1 .. MaxMembers /\ d \in 0 .. LastDay
    BY <1>4, MembersType, ObligationsAssumption DEF ReadEnding, TypeInv, TypeOK, Days
  <2>2. UNCHANGED <<today, status, members, owed, plan, baseline, kept, job, lost>>
    BY <1>4 DEF ReadEnding, reportVars
  <2>3. TypeOK'
    BY <2>1, <2>2 DEF TypeInv, TypeOK
  <2>4. Known'
    BY <2>1, <2>2 DEF TypeInv, Known, Members
  <2> QED
    BY <2>3, <2>4 DEF TypeInv
<1>5. CASE EndMembership
  <2>1. ending[1] \in Members
    BY <1>5 DEF EndMembership, TypeInv, Known
  <2> QED
    BY <1>5, <2>1, EndMembers, TypeFrame DEF EndMembership, TypeInv, TypeOK, reportVars
<1>6. CASE RemoveStudent
  BY <1>6, RemoveMembers, TypeFrame DEF RemoveStudent, TypeInv, TypeOK, reportVars
<1> QED
  BY <1>1, <1>2, <1>3, <1>4, <1>5, <1>6 DEF ProfessorStep

LEMMA JobTypes ==
  ASSUME TypeInv, NEW j \in Jobs, ReadDerivation(j) \/ ReadFreeze(j) \/ Work(j)
  PROVE  TypeInv'
<1> DEFINE Records == [kind : {"idle", "derive", "freeze"}, rows : SUBSET Obligation,
                       planned : SUBSET Obligation]
<1>1. IdleJob \in Records /\ IdleJob.rows = {}
  BY DEF IdleJob
<1>2. ASSUME NEW r \in Records, job' = [job EXCEPT ![j] = r], \A o \in r.rows : o[1] \in Members,
             UNCHANGED <<today, status, members, plan, ending, lost, kept>>,
             owed' \in {owed, owed \cup job[j].rows},
             baseline' \in [Obligation -> {"none", "empty", "frozen"}]
      PROVE  TypeInv'
  <2>1. job' \in [Jobs -> Records]
    BY <1>2 DEF TypeInv, TypeOK
  <2>2. owed' \subseteq Obligation /\ \A o \in owed' : o[1] <= Len(members')
    <3>1. \A o \in job[j].rows : o \in Obligation /\ o[1] \in Members
      BY DEF TypeInv, TypeOK, Known
    <3> QED
      BY <1>2, <3>1, MembersType DEF TypeInv, TypeOK, Members
  <2>3. TypeOK'
    BY <1>2, <2>1, <2>2 DEF TypeInv, TypeOK
  <2>4. Known'
    BY <1>2 DEF TypeInv, TypeOK, Known, Members
  <2> QED
    BY <2>3, <2>4 DEF TypeInv
<1> HIDE DEF Records
<1>3. CASE ReadDerivation(j)
  <2> DEFINE r == [IdleJob EXCEPT !.kind = "derive", !.rows = DerivedRows]
  <2>1. DerivedRows \subseteq Obligation /\ \A o \in DerivedRows : o[1] \in Members
    BY MembersType DEF DerivedRows, Obligation, TypeInv
  <2>2. r \in Records /\ r.rows = DerivedRows
    BY <2>1 DEF IdleJob, Records
  <2>3. job' = [job EXCEPT ![j] = r] /\ UNCHANGED <<today, status, members, owed, plan, baseline,
                                                     ending, lost, kept>>
    BY <1>3 DEF ReadDerivation, reportVars
  <2> HIDE DEF r
  <2> QED
    BY <1>2, <2>1, <2>2, <2>3 DEF TypeInv, TypeOK
<1>4. CASE ReadFreeze(j)
  <2> DEFINE rows == {o \in owed : Due(o[2]) /\ baseline[o] = "none"}
             r == [kind |-> "freeze", rows |-> rows,
                   planned |-> {o \in rows : Carried(o[1], o[2])}]
  <2>1. rows \subseteq Obligation /\ \A o \in rows : o[1] \in Members
    BY MembersType DEF Obligation, TypeInv, TypeOK, Members
  <2>2. r \in Records /\ r.rows = rows
    BY <2>1 DEF Records
  <2>3. job' = [job EXCEPT ![j] = r] /\ UNCHANGED <<today, status, members, owed, plan, baseline,
                                                     ending, lost, kept>>
    BY <1>4 DEF ReadFreeze, reportVars
  <2> HIDE DEF r, rows
  <2> QED
    BY <1>2, <2>1, <2>2, <2>3 DEF TypeInv, TypeOK
<1>5. CASE CommitDerivation(j)
  BY <1>1, <1>2, <1>5 DEF CommitDerivation, reportVars, TypeInv, TypeOK
<1>6. CASE CommitFreeze(j)
  <2>1. baseline' \in [Obligation -> {"none", "empty", "frozen"}]
    BY <1>6 DEF CommitFreeze, TypeInv, TypeOK, Frozen
  <2> QED
    BY <1>1, <1>2, <1>6, <2>1 DEF CommitFreeze
<1> QED
  BY <1>3, <1>4, <1>5, <1>6 DEF Work

LEMMA NextTypes ==
  ASSUME TypeInv, [Next]_vars
  PROVE  TypeInv'
<1>1. CASE Tick
  <2>1. today' \in Days
    BY <1>1, ObligationsAssumption DEF Tick, TypeInv, TypeOK, Days
  <2> QED
    BY <1>1, <2>1 DEF Tick, TypeInv, TypeOK, Known, Members
<1>2. CASE ReportStep
  <2>1. PICK w \in 1 .. LastWeek - 1, P \in SUBSET Projects, planned \in SUBSET Projects :
           Submit(w, P, planned)
    BY <1>2 DEF ReportStep
  <2>2. w \in Weeks /\ planned \subseteq Projects
    BY <2>1, ObligationsAssumption DEF Weeks
  <2>3. plan' \subseteq Projects \X Weeks /\ kept' \subseteq Projects \X Weeks
    BY <2>1, <2>2 DEF Submit, TypeInv, TypeOK
  <2> QED
    BY <2>1, <2>3 DEF Submit, TypeInv, TypeOK, Known, Members
<1>3. CASE UNCHANGED vars
  BY <1>3 DEF vars, TypeInv, TypeOK, Known, Members
<1> QED
  BY <1>1, <1>2, <1>3, StudentTypes, ProfessorTypes, JobTypes DEF Next, JobStep

LEMMA InitTypes ==
  ASSUME Init
  PROVE  TypeInv
<1>1. members \in Seq(Membership) /\ Len(members) = 0
  BY EmptySeq DEF Init
<1>2. \A j \in Jobs : job[j] = IdleJob
  BY DEF Init
<1>3. job \in [Jobs -> [kind : {"idle", "derive", "freeze"}, rows : SUBSET Obligation,
                         planned : SUBSET Obligation]]
  BY DEF Init, IdleJob
<1>4. TypeOK
  <2>1. today \in Days /\ status \in [Projects -> {"absent", "inactive", "active", "open"}]
    BY ObligationsAssumption DEF Init, Days
  <2>2. Len(members) <= MaxMembers /\ owed = {} /\ plan = {} /\ kept = {}
    BY <1>1, ObligationsAssumption DEF Init
  <2>3. baseline \in [Obligation -> {"none", "empty", "frozen"}]
    BY DEF Init
  <2>4. ending = << >> /\ lost \in BOOLEAN
    BY DEF Init
  <2> QED
    BY <1>1, <1>3, <2>1, <2>2, <2>3, <2>4 DEF TypeOK
<1>5. Known
  BY <1>2 DEF Init, Known, IdleJob
<1> QED
  BY <1>4, <1>5 DEF TypeInv

\* Every row of the tables has its type, obligations are of memberships that were
\* written, and there is one baseline for an obligation (projects and reporting/models.py).
THEOREM TypeCorrect == Spec => []TypeOK
<1>1. TypeInv => TypeOK
  BY DEF TypeInv
<1> QED
  BY <1>1, InitTypes, NextTypes, PTL DEF Spec

LEMMA TypeInvariant == Spec => []TypeInv
BY InitTypes, NextTypes, PTL DEF Spec

-----------------------------------------------------------------------------
(* Two rules that agree: whoever is owed has joined in time, and that stays.  *)

JoinedBy(o) == /\ members[o[1]].joined <= End(o[2])
               /\ members[o[1]].selfJoined => members[o[1]].joined < Start(o[2])
Timely == /\ \A o \in owed : JoinedBy(o)
          /\ \A j \in Jobs : \A o \in job[j].rows : JoinedBy(o)

LEMMA JoinedByKept ==
  ASSUME Kept, NEW o, o[1] \in Members, JoinedBy(o)
  PROVE  JoinedBy(o)'
  BY DEF Kept, JoinedBy, Enrolment, Start, End

LEMMA TimelyFrame ==
  ASSUME TypeInv, Timely, Kept, UNCHANGED job, \A o \in owed' \ owed : JoinedBy(o)'
  PROVE  Timely'
<1>1. \A o \in owed : o[1] \in Members
  <2>1. \A o \in owed : o[1] \in Nat \ {0} /\ o[1] <= Len(members)
    BY ObligationsAssumption DEF TypeInv, TypeOK, Obligation
  <2> QED
    BY <2>1, MembersType DEF TypeInv, Members
<1>2. \A o \in owed' : JoinedBy(o)'
  BY <1>1, JoinedByKept DEF Timely
<1>3. \A j \in Jobs : \A o \in job[j].rows : JoinedBy(o)'
  BY JoinedByKept DEF Timely, TypeInv, Known
<1> QED
  BY <1>2, <1>3 DEF Timely

LEMMA EnrolTimely ==
  ASSUME TypeInv, Timely, NEW p \in Projects, NEW st, NEW self \in BOOLEAN, NEW d \in Days,
         Enrol(p, st, self, d), UNCHANGED job
  PROVE  Timely'
<1>1. Kept
  BY EnrolMembers DEF TypeInv
<1>2. \A o \in owed' \ owed : ActiveInRange(members', st, o[1], o[2])
  BY DEF Enrol
<1>3. \A o \in owed' \ owed : JoinedBy(o)'
  BY <1>2 DEF ActiveInRange, JoinedBy, Start, End
<1> QED
  BY <1>1, <1>3, TimelyFrame

LEMMA RequestTimely ==
  ASSUME TypeInv, Timely, StudentStep \/ ProfessorStep
  PROVE  Timely'
<1>1. ASSUME NEW p \in Projects, StartProject(p)
      PROVE  Timely'
  <2>1. today \in Days /\ Enrol(p, status', FALSE, today) /\ UNCHANGED job
    BY <1>1 DEF StartProject, TypeInv, TypeOK
  <2> QED
    BY <2>1, EnrolTimely
<1>2. ASSUME NEW p \in Projects, JoinProject(p)
      PROVE  Timely'
  <2>1. today \in Days /\ Enrol(p, status, TRUE, today) /\ UNCHANGED job
    BY <1>2 DEF JoinProject, TypeInv, TypeOK
  <2> QED
    BY <2>1, EnrolTimely
<1>3. ASSUME NEW p \in Projects, NEW d \in Dates \cup {today}, AddMember(p, d)
      PROVE  Timely'
  <2>1. d \in Days /\ Enrol(p, status, FALSE, d) /\ UNCHANGED job
    BY <1>3, ObligationsAssumption DEF AddMember, TypeInv, TypeOK, Days
  <2> QED
    BY <2>1, EnrolTimely
<1>4. CASE EndMembership
  <2>1. ending[1] \in Members /\ UNCHANGED <<job, owed>>
    BY <1>4 DEF EndMembership, TypeInv, Known
  <2> QED
    BY <1>4, <2>1, EndMembers, TimelyFrame DEF TypeInv
<1>5. CASE RemoveStudent
  BY <1>5, RemoveMembers, TimelyFrame DEF RemoveStudent, TypeInv
<1>6. ASSUME NEW p \in Projects, ProposeProject(p)
      PROVE  Timely'
  BY <1>6, StayKept, TimelyFrame DEF ProposeProject, TypeInv
<1>7. ASSUME NEW p \in Projects, NEW st, UpdateProject(p, st)
      PROVE  Timely'
  BY <1>7, StayKept, TimelyFrame DEF UpdateProject, TypeInv
<1>8. ASSUME NEW m \in Members, NEW d, ReadEnding(m, d)
      PROVE  Timely'
  BY <1>8, StayKept, TimelyFrame DEF ReadEnding, TypeInv
<1> QED
  BY <1>1, <1>2, <1>3, <1>4, <1>5, <1>6, <1>7, <1>8 DEF StudentStep, ProfessorStep

LEMMA JobTimely ==
  ASSUME TypeInv, Timely, NEW j \in Jobs, ReadDerivation(j) \/ ReadFreeze(j) \/ Work(j)
  PROVE  Timely'
<1>1. UNCHANGED members /\ \A o : JoinedBy(o)' = JoinedBy(o)
  BY DEF ReadDerivation, ReadFreeze, Work, CommitDerivation, CommitFreeze, JoinedBy, Start, End
<1>2. ASSUME NEW r, job' = [job EXCEPT ![j] = r], \A o \in r.rows : JoinedBy(o),
             \A o \in owed' : o \in owed \/ o \in job[j].rows
      PROVE  Timely'
  BY <1>1, <1>2 DEF Timely, TypeInv, TypeOK
<1>3. \A o \in IdleJob.rows : JoinedBy(o)
  BY DEF IdleJob
<1>4. CASE ReadDerivation(j)
  <2> DEFINE r == [IdleJob EXCEPT !.kind = "derive", !.rows = DerivedRows]
  <2>1. \A o \in DerivedRows : JoinedBy(o)
    BY DEF DerivedRows, ActiveInRange, JoinedBy
  <2>2. r.rows = DerivedRows
    BY DEF IdleJob
  <2>3. job' = [job EXCEPT ![j] = r] /\ owed' = owed
    BY <1>4 DEF ReadDerivation
  <2> HIDE DEF r
  <2> QED
    BY <1>2, <2>1, <2>2, <2>3
<1>5. CASE ReadFreeze(j)
  <2> DEFINE rows == {o \in owed : Due(o[2]) /\ baseline[o] = "none"}
             r == [kind |-> "freeze", rows |-> rows,
                   planned |-> {o \in rows : Carried(o[1], o[2])}]
  <2>1. r.rows = rows /\ \A o \in rows : JoinedBy(o)
    BY DEF Timely
  <2>2. job' = [job EXCEPT ![j] = r] /\ owed' = owed
    BY <1>5 DEF ReadFreeze
  <2> HIDE DEF r
  <2> QED
    BY <1>2, <2>1, <2>2
<1>6. CASE CommitDerivation(j)
  BY <1>2, <1>3, <1>6 DEF CommitDerivation
<1>7. CASE CommitFreeze(j)
  BY <1>2, <1>3, <1>7 DEF CommitFreeze
<1> QED
  BY <1>4, <1>5, <1>6, <1>7 DEF Work

LEMMA NextTimely ==
  ASSUME TypeInv, Timely, [Next]_vars
  PROVE  Timely'
<1>1. CASE Tick \/ ReportStep \/ UNCHANGED vars
  BY <1>1, StayKept, TimelyFrame DEF Tick, ReportStep, Submit, vars, TypeInv
<1> QED
  BY <1>1, RequestTimely, JobTimely DEF Next, JobStep

\* What the list, the reminder and the submission ask of an obligation is what
\* deriving it would ask today, for every history of memberships, statuses and
\* jobs (projects/repository.py: memberships_open_through and
\* memberships_active_in_range).
THEOREM OneRuleOfOwing == Spec => []OwedAsDerived
<1>1. Init => Timely
  BY DEF Init, Timely, IdleJob
<1>2. Timely => OwedAsDerived
  BY DEF Timely, OwedAsDerived, StillOwes, ActiveInRange, OpenOn, JoinedBy
<1>3. Spec => []Timely
  BY <1>1, NextTimely, TypeInvariant, PTL DEF Spec
<1> QED
  BY <1>2, <1>3, PTL

-----------------------------------------------------------------------------
(* One membership at a time: of two of one project, the first has ended when  *)
(* the second begins, unless an ending was lost.                              *)

Succeeds(m, n) == members[m].project = members[n].project => members[m].left <= members[n].joined
Apart == ~lost => \A m, n \in Members : m < n => Succeeds(m, n)

LEMMA EarlierEnds ==
  ASSUME TypeInv, Apart, Kept, Len(members') = Len(members), ~lost,
         \A m \in Members : members'[m].left \in Int,
         \A m \in Members : members'[m].left <= members[m].left \/ members[m].left = Never
  PROVE  \A m, n \in Members' : m < n => Succeeds(m, n)'
<1> SUFFICES ASSUME NEW m \in Members, NEW n \in Members, m < n,
                    members'[m].project = members'[n].project
             PROVE  members'[m].left <= members'[n].joined
  BY DEF Succeeds, Members
<1>1. /\ members'[m].project = members[m].project /\ members'[n].project = members[n].project
      /\ members'[n].joined = members[n].joined
  BY DEF Kept, Enrolment
<1>2. members[m].left <= members[n].joined
  BY <1>1 DEF Apart, Succeeds
<1>3. members[n].joined \in 0 .. LastDay /\ members[m].left \in 0 .. LastDay + 1
  BY MembersType DEF TypeInv, Days, Never
<1>4. members[m].left # Never
  BY <1>2, <1>3, ObligationsAssumption DEF Never
<1>5. members'[m].left <= members[m].left
  BY <1>4
<1> QED
  BY <1>1, <1>2, <1>3, <1>5

LEMMA EnrolApart ==
  ASSUME TypeInv, Apart, NEW p \in Projects, NEW st, NEW self \in BOOLEAN, NEW d \in Days,
         Enrol(p, st, self, d), UNCHANGED lost
  PROVE  Apart'
<1> SUFFICES ASSUME ~lost, NEW m \in Members', NEW n \in Members', m < n
             PROVE  Succeeds(m, n)'
  BY DEF Apart
<1>1. /\ Len(members) \in Nat /\ Len(members') = Len(members) + 1
      /\ \A k \in Members : members'[k] = members[k]
      /\ members'[Len(members) + 1] = NewRow(p, self, d)
  BY EnrolMembers, MembersType DEF TypeInv
<1>2. m \in Members
  BY <1>1 DEF Members
<1>3. CASE n \in Members
  BY <1>1, <1>2, <1>3 DEF Apart, Succeeds
<1>4. CASE n = Len(members) + 1
  <2>1. members'[n].project = p /\ members'[n].joined = d
    BY <1>1, <1>4 DEF NewRow
  <2>2. members[m].project = p => ~(members[m].left > d)
    BY <1>2 DEF Enrol, Enrolled, OpenOn
  <2>3. members[m].left \in Int /\ d \in Int
    BY <1>2, MembersType, ObligationsAssumption DEF TypeInv, Days, Never
  <2> QED
    BY <1>1, <1>2, <2>1, <2>2, <2>3 DEF Succeeds
<1> QED
  BY <1>1, <1>3, <1>4 DEF Members

LEMMA NextApart ==
  ASSUME TypeInv, Apart, [Next]_vars
  PROVE  Apart'
<1>1. ASSUME NEW p \in Projects, StartProject(p)
      PROVE  Apart'
  <2>1. today \in Days /\ Enrol(p, status', FALSE, today) /\ UNCHANGED lost
    BY <1>1 DEF StartProject, TypeInv, TypeOK
  <2> QED
    BY <2>1, EnrolApart
<1>2. ASSUME NEW p \in Projects, JoinProject(p)
      PROVE  Apart'
  <2>1. today \in Days /\ Enrol(p, status, TRUE, today) /\ UNCHANGED lost
    BY <1>2 DEF JoinProject, TypeInv, TypeOK
  <2> QED
    BY <2>1, EnrolApart
<1>3. ASSUME NEW p \in Projects, NEW d \in Dates \cup {today}, AddMember(p, d)
      PROVE  Apart'
  <2>1. d \in Days /\ Enrol(p, status, FALSE, d) /\ UNCHANGED lost
    BY <1>3, ObligationsAssumption DEF AddMember, TypeInv, TypeOK, Days
  <2> QED
    BY <2>1, EnrolApart
<1>4. CASE EndMembership
  <2>1. ending[1] \in Members
    BY <1>4 DEF EndMembership, TypeInv, Known
  <2>2. /\ Kept /\ Len(members') = Len(members) /\ ending[2] \in Days
        /\ \A m \in Members : members'[m] =
              IF m = ending[1] THEN [members[m] EXCEPT !.left = ending[2]] ELSE members[m]
    BY <1>4, <2>1, EndMembers DEF TypeInv
  <2>3. ~lost' => ~lost /\ members[ending[1]].left = Never
    BY <1>4 DEF EndMembership, TypeInv, TypeOK
  <2>4. \A m \in Members : members[m].left \in Int /\ members[m] \in Membership
    BY MembersType, ObligationsAssumption DEF TypeInv, Never
  <2>5. \A m \in Members : members'[m].left = IF m = ending[1] THEN ending[2] ELSE members[m].left
    BY <2>2, <2>4 DEF Membership
  <2>6. \A m \in Members : members'[m].left \in Int
    BY <2>2, <2>4, <2>5, ObligationsAssumption DEF Days
  <2>7. ASSUME ~lost'
        PROVE  \A m, n \in Members' : m < n => Succeeds(m, n)'
    <3>1. ~lost /\ members[ending[1]].left = Never
      BY <2>3, <2>7, Zenon
    <3>2. \A m \in Members : members'[m].left <= members[m].left \/ members[m].left = Never
      BY <2>4, <2>5, <3>1
    <3> QED
      BY <2>2, <2>6, <3>1, <3>2, EarlierEnds
  <2> QED
    BY <2>7 DEF Apart
<1>5. CASE RemoveStudent
  <2>1. /\ Kept /\ Len(members') = Len(members) /\ UNCHANGED lost
        /\ \A m \in Members : members'[m] =
              IF OpenOn(m, today) THEN [members[m] EXCEPT !.left = today] ELSE members[m]
    BY <1>5, RemoveMembers DEF RemoveStudent, TypeInv
  <2>2. today \in Int /\ \A m \in Members : members[m].left \in Int /\ members[m] \in Membership
    BY MembersType, ObligationsAssumption DEF TypeInv, TypeOK, Days, Never
  <2>3. \A m \in Members : members'[m].left = IF OpenOn(m, today) THEN today ELSE members[m].left
    BY <2>1, <2>2 DEF Membership
  <2>4. \A m \in Members : members'[m].left \in Int /\ members'[m].left <= members[m].left
    BY <2>2, <2>3 DEF OpenOn
  <2>5. ~lost => \A m, n \in Members' : m < n => Succeeds(m, n)'
    BY <2>1, <2>4, EarlierEnds
  <2> QED
    BY <2>1, <2>5 DEF Apart
<1>6. CASE UNCHANGED <<members, lost>>
  BY <1>6 DEF Apart, Succeeds, Members
<1> QED
  BY <1>1, <1>2, <1>3, <1>4, <1>5, <1>6
  DEF Next, Tick, StudentStep, ProfessorStep, ReportStep, JobStep, Submit, ProposeProject,
      UpdateProject, ReadEnding, ReadDerivation, ReadFreeze, Work, CommitDerivation, CommitFreeze,
      reportVars, vars

\* A student owes one entry for a project and a week, through whichever of the
\* memberships, unless an ending was written over one that it had not read
\* (projects/service.py: _enrol, end_membership, _on_user_removed).
THEOREM OneEntryOwed == Spec => []OwedOnce
<1>1. Init => Apart
  <2>1. Init => Members = {}
    BY EmptySeq DEF Init, Members
  <2> QED
    BY <2>1 DEF Apart
<1>2. ASSUME TypeInv, Timely, Apart, ~lost, NEW p \in Projects, NEW w \in Weeks,
             NEW m \in Owing(p, w), NEW n \in Owing(p, w), m < n
      PROVE  FALSE
  <2>1. /\ m \in Members /\ n \in Members /\ <<n, w>> \in owed
        /\ members[m].project = members[n].project /\ members[m].left > End(w)
    BY <1>2 DEF Owing, StillOwes, OpenOn
  <2>2. members[n].joined <= End(w)
    BY <1>2, <2>1 DEF Timely, JoinedBy
  <2>3. members[m].left <= members[n].joined
    BY <1>2, <2>1 DEF Apart, Succeeds
  <2>4. members[m].left \in Int /\ members[n].joined \in Int /\ End(w) \in Int
    BY <1>2, <2>1, MembersType, WeekDates, ObligationsAssumption DEF TypeInv, Days, Never
  <2> QED
    BY <2>1, <2>2, <2>3, <2>4
<1>3. TypeInv /\ Timely /\ Apart => OwedOnce
  <2> SUFFICES ASSUME TypeInv, Timely, Apart, ~lost, NEW p \in Projects, NEW w \in Weeks,
                      NEW m \in Owing(p, w), NEW n \in Owing(p, w)
               PROVE  m = n
    BY DEF OwedOnce
  <2>1. m \in Nat /\ n \in Nat
    BY MembersType DEF Owing, Members, TypeInv
  <2>2. ~(m < n) /\ ~(n < m)
    BY <1>2
  <2> QED
    BY <2>1, <2>2
<1>4. Init => Timely
  BY DEF Init, Timely, IdleJob
<1>5. Spec => [](TypeInv /\ Timely /\ Apart)
  BY <1>1, <1>4, InitTypes, NextTypes, NextTimely, NextApart, PTL DEF Spec
<1> QED
  BY <1>3, <1>5, PTL

-----------------------------------------------------------------------------
(* Baselines. *)

\* A frozen baseline is not written again (reporting/service.py: freeze_baseline).
THEOREM FrozenOnce == Spec => BaselineStands
<1>1. ASSUME [Next]_vars
      PROVE  \A o \in Obligation : baseline[o] # "none" => baseline'[o] = baseline[o]
  <2>1. ASSUME NEW j \in Jobs, CommitFreeze(j)
        PROVE  \A o \in Obligation : baseline[o] # "none" => baseline'[o] = baseline[o]
    BY <2>1 DEF CommitFreeze
  <2>2. CASE UNCHANGED baseline
    BY <2>2
  <2> QED
    BY <1>1, <2>1, <2>2
    DEF Next, Tick, StudentStep, ProfessorStep, ReportStep, JobStep, Submit, StartProject,
        JoinProject, AddMember, EndMembership, RemoveStudent, ProposeProject, UpdateProject,
        ReadEnding, ReadDerivation, ReadFreeze, Work, CommitDerivation, reportVars, vars
<1> QED
  BY <1>1, PTL DEF Spec, BaselineStands

\* An obligation for which the report of the week before held nothing when its week began.
NothingAgreed(o) ==
    /\ o[1] \in Members
    /\ o[2] > 1 => Start(o[2]) <= today /\ <<members[o[1]].project, o[2] - 1>> \notin kept
Agreed == /\ kept \subseteq plan
          /\ \A o \in Obligation : baseline[o] = "empty" => NothingAgreed(o)
          /\ \A j \in Jobs : job[j].kind = "freeze" =>
                \A o \in job[j].rows \ job[j].planned : NothingAgreed(o)

LEMMA AgreedFrame ==
  ASSUME TypeInv, Agreed, Kept, UNCHANGED <<today, job, baseline>>,
         kept' \subseteq kept, kept' \subseteq plan'
  PROVE  Agreed'
<1>1. ASSUME NEW o, NothingAgreed(o)
      PROVE  NothingAgreed(o)'
  BY <1>1 DEF NothingAgreed, Kept, Enrolment, Start, Members
<1> QED
  BY <1>1 DEF Agreed

LEMMA TickAgreed ==
  ASSUME TypeInv, Agreed, Tick
  PROVE  Agreed'
<1>1. ASSUME NEW o \in Obligation, NothingAgreed(o)
      PROVE  NothingAgreed(o)'
  <2>1. members' = members /\ today \in Int /\ today' = today + 1
    BY ObligationsAssumption DEF Tick, TypeInv, TypeOK, Days
  <2>2. CASE o[2] > 1
    <3>1. o[2] \in Weeks /\ o[2] - 1 \in Weeks
      BY <2>2, ObligationsAssumption DEF Obligation, Weeks
    <3>2. /\ End(o[2] - 1) < Start(o[2])
          /\ Start(o[2]) \in Int /\ End(o[2] - 1) \in Int
      BY <3>1, WeekDates DEF Weeks
    <3>3. Start(o[2]) <= today /\ <<members[o[1]].project, o[2] - 1>> \notin kept
      BY <1>1, <2>2 DEF NothingAgreed
    <3>4. End(o[2] - 1) # today
      BY <2>1, <3>2, <3>3
    <3>5. <<members[o[1]].project, o[2] - 1>> \notin kept'
      BY <3>3, <3>4 DEF Tick
    <3>6. Start(o[2])' = Start(o[2])
      BY DEF Start
    <3> QED
      BY <1>1, <2>1, <3>2, <3>3, <3>5, <3>6 DEF NothingAgreed, Members
  <2>3. CASE ~(o[2] > 1)
    BY <1>1, <2>1, <2>3 DEF NothingAgreed, Members
  <2> QED
    BY <2>2, <2>3
<1>2. kept' \subseteq plan' /\ UNCHANGED <<job, baseline>>
  BY DEF Tick, Agreed
<1>3. \A j \in Jobs : job[j].rows \subseteq Obligation
  BY DEF TypeInv, TypeOK
<1> QED
  BY <1>1, <1>2, <1>3 DEF Agreed

LEMMA JobAgreed ==
  ASSUME TypeInv, Agreed, NEW j \in Jobs, ReadDerivation(j) \/ ReadFreeze(j) \/ Work(j)
  PROVE  Agreed'
<1>1. UNCHANGED <<today, members, plan, kept>> /\ \A o : NothingAgreed(o)' = NothingAgreed(o)
  BY DEF ReadDerivation, ReadFreeze, Work, CommitDerivation, CommitFreeze, NothingAgreed, Start,
         Members, reportVars
<1>2. ASSUME NEW r, job' = [job EXCEPT ![j] = r],
             r.kind = "freeze" => \A o \in r.rows \ r.planned : NothingAgreed(o),
             \A o \in Obligation : baseline'[o] = "empty" => NothingAgreed(o)
      PROVE  Agreed'
  BY <1>1, <1>2 DEF Agreed, TypeInv, TypeOK
<1>3. \A o \in Obligation : baseline[o] = "empty" => NothingAgreed(o)
  BY DEF Agreed
<1>4. IdleJob.kind # "freeze"
  BY DEF IdleJob
<1>5. CASE ReadDerivation(j)
  <2> DEFINE r == [IdleJob EXCEPT !.kind = "derive", !.rows = DerivedRows]
  <2>1. r.kind = "derive" /\ job' = [job EXCEPT ![j] = r] /\ baseline' = baseline
    BY <1>5 DEF ReadDerivation, IdleJob, reportVars
  <2> HIDE DEF r
  <2> QED
    BY <1>2, <1>3, <2>1
<1>6. CASE ReadFreeze(j)
  <2> DEFINE rows == {o \in owed : Due(o[2]) /\ baseline[o] = "none"}
             planned == {o \in rows : Carried(o[1], o[2])}
             r == [kind |-> "freeze", rows |-> rows, planned |-> planned]
  <2>1. \A o \in rows \ planned : NothingAgreed(o)
    <3> SUFFICES ASSUME NEW o \in owed, Due(o[2]), ~Carried(o[1], o[2])
                 PROVE  NothingAgreed(o)
      OBVIOUS
    <3>1. o[1] \in Members
      <4>1. o[1] \in Nat \ {0} /\ o[1] <= Len(members)
        BY ObligationsAssumption DEF TypeInv, TypeOK, Obligation
      <4> QED
        BY <4>1, MembersType DEF TypeInv, Members
    <3> QED
      BY <3>1 DEF Due, Carried, Agreed, NothingAgreed
  <2>2. r.rows = rows /\ r.planned = planned /\ job' = [job EXCEPT ![j] = r] /\ baseline' = baseline
    BY <1>6 DEF ReadFreeze, reportVars
  <2> HIDE DEF r, rows, planned
  <2> QED
    BY <1>2, <1>3, <2>1, <2>2
<1>7. CASE CommitDerivation(j)
  BY <1>2, <1>3, <1>4, <1>7 DEF CommitDerivation, reportVars
<1>8. CASE CommitFreeze(j)
  <2>1. \A o \in Obligation : baseline'[o] = "empty" => NothingAgreed(o)
    BY <1>3, <1>8 DEF CommitFreeze, Frozen, Agreed
  <2> QED
    BY <1>2, <1>4, <1>8, <2>1 DEF CommitFreeze
<1> QED
  BY <1>5, <1>6, <1>7, <1>8 DEF Work

LEMMA RequestAgreed ==
  ASSUME TypeInv, Agreed, StudentStep \/ ProfessorStep
  PROVE  Agreed'
<1>1. kept' \subseteq kept /\ kept' \subseteq plan' /\ UNCHANGED <<today, job, baseline>>
  BY DEF Agreed, StudentStep, ProfessorStep, StartProject, JoinProject, AddMember, EndMembership,
         RemoveStudent, ProposeProject, UpdateProject, ReadEnding, reportVars
<1>2. Kept
  <2>1. ASSUME NEW p \in Projects, StartProject(p)
        PROVE  Kept
    <3>1. today \in Days /\ Enrol(p, status', FALSE, today)
      BY <2>1 DEF StartProject, TypeInv, TypeOK
    <3> QED
      BY <3>1, EnrolMembers DEF TypeInv
  <2>2. ASSUME NEW p \in Projects, JoinProject(p)
        PROVE  Kept
    <3>1. today \in Days /\ Enrol(p, status, TRUE, today)
      BY <2>2 DEF JoinProject, TypeInv, TypeOK
    <3> QED
      BY <3>1, EnrolMembers DEF TypeInv
  <2>3. ASSUME NEW p \in Projects, NEW d \in Dates \cup {today}, AddMember(p, d)
        PROVE  Kept
    <3>1. d \in Days /\ Enrol(p, status, FALSE, d)
      BY <2>3, ObligationsAssumption DEF AddMember, TypeInv, TypeOK, Days
    <3> QED
      BY <3>1, EnrolMembers DEF TypeInv
  <2>4. CASE EndMembership
    <3>1. ending[1] \in Members
      BY <2>4 DEF EndMembership, TypeInv, Known
    <3> QED
      BY <2>4, <3>1, EndMembers DEF TypeInv
  <2>5. CASE RemoveStudent
    BY <2>5, RemoveMembers DEF TypeInv
  <2>6. CASE UNCHANGED members
    BY <2>6, StayKept DEF TypeInv
  <2> QED
    BY <2>1, <2>2, <2>3, <2>4, <2>5, <2>6
    DEF StudentStep, ProfessorStep, ProposeProject, UpdateProject, ReadEnding
<1> QED
  BY <1>1, <1>2, AgreedFrame

LEMMA NextAgreed ==
  ASSUME TypeInv, Agreed, [Next]_vars
  PROVE  Agreed'
<1>1. CASE ReportStep
  <2>1. PICK w \in 1 .. LastWeek - 1, P \in SUBSET Projects, planned \in SUBSET Projects :
           Submit(w, P, planned)
    BY <1>1 DEF ReportStep
  <2>2. kept' = kept \cap plan' /\ UNCHANGED <<today, members, job, baseline>>
    BY <2>1 DEF Submit
  <2> QED
    BY <2>2, StayKept, AgreedFrame DEF TypeInv
<1>2. CASE UNCHANGED vars
  BY <1>2, StayKept, AgreedFrame DEF vars, TypeInv, Agreed
<1> QED
  BY <1>1, <1>2, TickAgreed, JobAgreed, RequestAgreed DEF Next, JobStep

\* A plan that was in the report when the next week began, and was not taken back,
\* is the one that week is measured against, whichever job reads it when, and
\* whenever the deadline is (reporting/service.py: freeze_baselines, _carried_plan).
THEOREM NothingAgreedIsLost == Spec => []EmptyMeansNothingAgreed
<1>1. Init => Agreed
  BY DEF Init, Agreed, IdleJob, Obligation
<1>2. Agreed => EmptyMeansNothingAgreed
  BY DEF Agreed, NothingAgreed, EmptyMeansNothingAgreed
<1>3. Spec => []Agreed
  BY <1>1, NextAgreed, TypeInvariant, PTL DEF Spec
<1> QED
  BY <1>2, <1>3, PTL

-----------------------------------------------------------------------------
(* The calendar: arithmetic of days and of weekdays. *)

LEMMA Multiple ==
  ASSUME NEW D \in Nat, D > 0, NEW k \in Int
  PROVE  /\ D * k \in Int
         /\ k >= 1 => D * k >= D
         /\ k <= -1 => D * k <= -D
  OBVIOUS

LEMMA Division ==
  ASSUME NEW D \in Nat, D > 0, NEW a \in Int
  PROVE  /\ a \div D \in Int /\ a % D \in 0 .. D - 1
         /\ a = D * (a \div D) + (a % D)
  OBVIOUS
LEMMA Distribution ==
  ASSUME NEW D \in Nat, D > 0, NEW a \in Int, NEW b \in Int
  PROVE  D * a - D * b = D * (a - b)
  OBVIOUS

\* Two days on one weekday are a week apart at least.
LEMMA SameWeekday ==
  ASSUME NEW D \in Nat, D > 0, NEW s \in Int, NEW r \in Int, s % D = r % D, s < r
  PROVE  s + D <= r
<1> DEFINE p == s \div D
           q == r \div D
           m == s % D
           k == q - p
<1>1. q \in Int /\ p \in Int /\ m \in 0 .. D - 1 /\ s = D * p + m /\ r = D * q + m /\ k \in Int
  BY Division
<1> HIDE DEF q, m, p
<1>2. D * q - D * p = D * k
  BY <1>1, Distribution
<1> HIDE DEF k
<1>3. D * k = r - s
  <2>1. D * q \in Int /\ D * p \in Int
    BY <1>1, Multiple
  <2> QED
    BY <1>1, <1>2, <2>1
<1>4. k >= 1
  BY <1>1, <1>3, Multiple
<1> QED
  BY <1>1, <1>3, <1>4, Multiple
\* The next such weekday is within a week, and it is that weekday.
LEMMA NextWeekdayIs ==
  ASSUME NEW d \in Int, NEW w \in 0 .. WeekLength - 1
  PROVE  /\ NextWeekday(d, w) \in Int
         /\ d <= NextWeekday(d, w) /\ NextWeekday(d, w) < d + WeekLength
         /\ NextWeekday(d, w) % WeekLength = w
<1> DEFINE n == NextWeekday(d, w)
           q == (w - d) \div WeekLength
           m == (w - d) % WeekLength
           p == n \div WeekLength
           l == n % WeekLength
           k == q + p
<1>1. WeekLength \in Nat /\ WeekLength > 0 /\ w - d \in Int
  BY CalendarAssumption
<1>2. q \in Int /\ m \in 0 .. WeekLength - 1 /\ w - d = WeekLength * q + m
  BY <1>1, Division
<1>3. n = d + m
  BY DEF NextWeekday
<1> HIDE DEF q, m, n
<1>4. p \in Int /\ l \in 0 .. WeekLength - 1 /\ n = WeekLength * p + l
  BY <1>1, <1>2, <1>3, Division
<1> HIDE DEF p, l
<1>5. WeekLength * q + WeekLength * p = WeekLength * k /\ k \in Int
  BY <1>1, <1>2, <1>4
<1> HIDE DEF k
<1>6. WeekLength * k = w - l
  <2>1. WeekLength * q \in Int /\ WeekLength * p \in Int
    BY <1>1, <1>2, <1>4, Multiple
  <2> QED
    BY <1>1, <1>2, <1>3, <1>4, <1>5, <2>1
<1>7. k = 0
  BY <1>1, <1>4, <1>5, <1>6, Multiple
<1>8. WeekLength * 0 = 0
  BY <1>1
<1>9. l = w
  BY <1>1, <1>4, <1>6, <1>7, <1>8
<1> QED
  BY <1>1, <1>2, <1>3, <1>9 DEF n, l

LEMMA CalendarConstants ==
  /\ WeekLength \in Nat /\ WeekLength > 0 /\ MinutesPerDay \in Nat /\ MinutesPerDay > 0
  /\ Horizon \in Nat /\ MaxVersions \in Nat /\ MaxMinute \in Nat /\ Throughs \subseteq Nat
  /\ \A c \in Choices : /\ c.weekStart \in 0 .. WeekLength - 1 /\ c.meeting \in 0 .. WeekLength - 1
                        /\ c.grace \in Nat /\ c.zone \in Int /\ c.effective \in Nat
  BY CalendarAssumption

LEMMA TodayType == now \in Nat => Today \in Nat
  BY CalendarConstants, Division DEF Today

\* The days a version opens are days of its weekday, a week after the last or more.
LEMMA FollowsIs ==
  ASSUME NEW s \in Nat, NEW c \in Choices
  PROVE  /\ Follows(s, c.weekStart) \in Nat
         /\ s + WeekLength <= Follows(s, c.weekStart)
         /\ Follows(s, c.weekStart) < s + 2 * WeekLength
         /\ Follows(s, c.weekStart) % WeekLength = c.weekStart
<1>1. PICK d \in Int : d = s + WeekLength
  BY CalendarConstants
<1>2. c.weekStart \in 0 .. WeekLength - 1
  BY CalendarConstants
<1>3. /\ NextWeekday(d, c.weekStart) \in Int
      /\ d <= NextWeekday(d, c.weekStart) /\ NextWeekday(d, c.weekStart) < d + WeekLength
      /\ NextWeekday(d, c.weekStart) % WeekLength = c.weekStart
  BY <1>1, <1>2, NextWeekdayIs
<1>4. Follows(s, c.weekStart) = NextWeekday(d, c.weekStart)
  BY <1>1 DEF Follows
<1> QED
  BY <1>1, <1>3, <1>4, CalendarConstants

LEMMA FirstIs ==
  ASSUME NEW c \in Choices
  PROVE  First(c) \in Nat /\ First(c) % WeekLength = c.weekStart
<1>1. c.effective \in Int /\ c.effective >= 0 /\ c.weekStart \in 0 .. WeekLength - 1
  BY CalendarConstants
<1>2. /\ NextWeekday(c.effective, c.weekStart) \in Int
      /\ c.effective <= NextWeekday(c.effective, c.weekStart)
      /\ NextWeekday(c.effective, c.weekStart) % WeekLength = c.weekStart
  BY <1>1, NextWeekdayIs
<1> QED
  BY <1>1, <1>2 DEF First

LEMMA CutType ==
  ASSUME NEW s \in Nat, NEW cs \in Seq(Choices), NEW v \in 1 .. Len(cs)
  PROVE  Cut(s, cs, v) \in Row /\ Cut(s, cs, v).version = v
<1>1. cs[v] \in Choices
  BY ElementOfSeq
<1>2. /\ cs[v].meeting \in 0 .. WeekLength - 1 /\ cs[v].grace \in Nat /\ cs[v].zone \in Int
      /\ s + WeekLength \in Int /\ WeekLength \in Nat /\ MinutesPerDay \in Nat
  BY <1>1, CalendarConstants
<1>3. PICK m : m = NextWeekday(s + WeekLength, cs[v].meeting)
  OBVIOUS
<1>4. m \in Int
  BY <1>2, <1>3, NextWeekdayIs
<1>5. PICK late \in Int, early \in Int : late = m * MinutesPerDay /\ early = s * MinutesPerDay
  BY <1>2, <1>4
<1>6. Deadline(s, cs[v]) = late - 1 - cs[v].zone
  BY <1>3, <1>5 DEF Deadline
<1>7. PICK deadline \in Int : deadline = Deadline(s, cs[v])
  BY <1>2, <1>6
<1>8. deadline + cs[v].grace + 1 \in Int /\ early - cs[v].zone \in Int
  BY <1>2
<1>9. v \in Nat \ {0}
  <2>1. Len(cs) \in Nat
    BY LenProperties
  <2> QED
    BY <2>1
<1> QED
  BY <1>5, <1>7, <1>8, <1>9 DEF Cut, Row

-----------------------------------------------------------------------------
(* Tables. *)

LEMMA TableRows ==
  ASSUME NEW t \in Tables
  PROVE  DOMAIN t \subseteq Nat /\ \A s \in DOMAIN t : t[s] \in Row
  BY DEF Tables

LEMMA RowFields == \A r \in Row : r.version \in Nat /\ r.start \in Int
  BY DEF Row

LEMMA IsTable ==
  ASSUME NEW days \in SUBSET Nat, NEW t \in [days -> Row]
  PROVE  t \in Tables
  BY DEF Tables

LEMMA NothingIs == Nothing \in Tables /\ DOMAIN Nothing = {}
<1>1. Nothing \in [{} -> Row]
  BY DEF Nothing
<1> QED
  BY <1>1, IsTable

LEMMA OverlayIs ==
  ASSUME NEW f \in Tables, NEW g \in Tables
  PROVE  /\ Overlay(f, g) \in Tables
         /\ DOMAIN Overlay(f, g) = DOMAIN f \cup DOMAIN g
         /\ \A s \in DOMAIN g : Overlay(f, g)[s] = g[s]
         /\ \A s \in DOMAIN f \ DOMAIN g : Overlay(f, g)[s] = f[s]
<1>1. /\ DOMAIN f \cup DOMAIN g \in SUBSET Nat
      /\ \A s \in DOMAIN f \cup DOMAIN g : (IF s \in DOMAIN g THEN g[s] ELSE f[s]) \in Row
  BY TableRows
<1>2. Overlay(f, g) \in [DOMAIN f \cup DOMAIN g -> Row]
  BY <1>1 DEF Overlay
<1>3. Overlay(f, g) \in Tables
  BY <1>1, <1>2, IsTable
<1> QED
  BY <1>3 DEF Overlay

-----------------------------------------------------------------------------
(* What a writer sees, and what each step does to its transaction. *)

LEMMA IdleIs == Idle \in Transactions /\ Idle.saved = << >> /\ Idle.stage = "idle"
                /\ Idle.redated = Nothing /\ Idle.added = Nothing
  BY NothingIs, CalendarConstants DEF Idle, Transactions

LEMMA TxFields ==
  ASSUME NEW t \in Transactions
  PROVE  /\ t.stage \in {"idle", "saved", "ensuring", "opening"}
         /\ t.saved = << >> \/ \E c \in Choices : t.saved = <<c>>
         /\ t.redated \in Tables /\ t.added \in Tables
         /\ t.latest \in 0 .. MaxVersions /\ t.through \in Nat /\ t.cursor \in Nat
  BY DEF Transactions

\* Its own version follows those that are committed.
LEMMA SeenIs ==
  ASSUME configs \in Seq(Choices), NEW w \in Writers, tx[w] \in Transactions
  PROVE  /\ SeenConfigs(w) \in Seq(Choices)
         /\ tx[w].saved = << >> => SeenConfigs(w) = configs
         /\ tx[w].saved # << >> =>
               /\ Len(SeenConfigs(w)) = Len(configs) + 1
               /\ SeenConfigs(w) = Append(configs, tx[w].saved[1])
               /\ tx[w].saved[1] \in Choices
         /\ Len(configs) <= Len(SeenConfigs(w))
         /\ \A i \in 1 .. Len(configs) : SeenConfigs(w)[i] = configs[i]
<1>1. CASE tx[w].saved = << >>
  <2>1. SeenConfigs(w) = configs
    BY <1>1, ConcatEmptySeq DEF SeenConfigs
  <2> QED
    BY <1>1, <2>1, LenProperties
<1>2. ASSUME NEW c \in Choices, tx[w].saved = <<c>>
      PROVE  /\ SeenConfigs(w) \in Seq(Choices)
             /\ Len(SeenConfigs(w)) = Len(configs) + 1
             /\ SeenConfigs(w) = Append(configs, c)
             /\ \A i \in 1 .. Len(configs) : SeenConfigs(w)[i] = configs[i]
  <2>1. <<c>> \in Seq(Choices) /\ Len(<<c>>) = 1
    OBVIOUS
  <2>2. /\ SeenConfigs(w) \in Seq(Choices) /\ Len(SeenConfigs(w)) = Len(configs) + 1
        /\ \A i \in 1 .. Len(configs) + 1 :
              SeenConfigs(w)[i] = IF i <= Len(configs) THEN configs[i] ELSE <<c>>[i - Len(configs)]
    BY <1>2, <2>1, ConcatProperties DEF SeenConfigs
  <2>3. Append(configs, c) \in Seq(Choices) /\ Len(Append(configs, c)) = Len(configs) + 1
    BY LenProperties
  <2>4. \A i \in 1 .. Len(configs) + 1 : SeenConfigs(w)[i] = Append(configs, c)[i]
    <3>1. Len(configs) \in Nat
      BY LenProperties
    <3> QED
      BY <2>2, <3>1
  <2>5. SeenConfigs(w) = Append(configs, c)
    BY <2>2, <2>3, <2>4, SeqEqual
  <2> QED
    BY <2>2, <2>5, LenProperties
<1>3. tx[w].saved = << >> \/ \E c \in Choices : tx[w].saved = <<c>>
  BY TxFields
<1>4. \A c \in Choices : <<c>> # << >> /\ <<c>>[1] = c
  OBVIOUS
<1>5. Len(configs) \in Nat
  BY LenProperties
<1> QED
  BY <1>1, <1>2, <1>3, <1>4, <1>5

LEMMA ConfigureDoes ==
  ASSUME CalendarTypeOK, NEW w \in Writers, NEW c \in Choices, Configure(w, c)
  PROVE  /\ tx'[w] \in Transactions
         /\ tx'[w].stage = "saved" /\ tx'[w].saved = <<c>> /\ tx'[w].redated = Redated(c)
         /\ tx'[w].added = Nothing
         /\ \A x \in Writers \ {w} : tx'[x] = tx[x]
         /\ tx' \in [Writers -> Transactions]
         /\ \A x \in Writers : tx[x].saved = << >>
         /\ tx[w].stage = "idle" /\ Len(configs) < MaxVersions
         /\ UNCHANGED <<now, configs, weeks, crossed>>
<1>1. Redated(c) \in Tables
  <2> DEFINE cs == Append(configs, c)
             days == {x \in DOMAIN weeks : Redatable(x, c)}
  <2>1. cs \in Seq(Choices) /\ Len(cs) \in 1 .. Len(cs)
    BY LenProperties DEF CalendarTypeOK
  <2>2. days \in SUBSET Nat
    BY TableRows DEF CalendarTypeOK
  <2> HIDE DEF cs, days
  <2>3. \A s \in days : Cut(s, cs, Len(cs)) \in Row
    BY <2>1, <2>2, CutType
  <2>4. [s \in days |-> Cut(s, cs, Len(cs))] \in [days -> Row]
    BY <2>3
  <2>5. [s \in days |-> Cut(s, cs, Len(cs))] \in Tables
    BY <2>2, <2>4, IsTable
  <2> QED
    BY <2>5 DEF Redated, cs, days
<1> DEFINE new == [Idle EXCEPT !.stage = "saved", !.saved = <<c>>, !.redated = Redated(c)]
<1>2. /\ new \in Transactions /\ new.stage = "saved" /\ new.saved = <<c>>
      /\ new.redated = Redated(c) /\ new.added = Nothing
  BY <1>1, IdleIs DEF Transactions, Idle
<1>3. tx' = [tx EXCEPT ![w] = new] /\ tx \in [Writers -> Transactions]
  BY DEF Configure, CalendarTypeOK
<1> HIDE DEF new
<1>4. /\ tx'[w] = new /\ \A x \in Writers \ {w} : tx'[x] = tx[x]
      /\ tx' \in [Writers -> Transactions]
  BY <1>2, <1>3
<1> QED
  BY <1>2, <1>4 DEF Configure

LEMMA EnsureDoes ==
  ASSUME CalendarTypeOK, NEW w \in Writers, NEW d \in Throughs \cup {Today + Horizon}, Ensure(w, d),
         Len(SeenConfigs(w)) <= MaxVersions
  PROVE  /\ tx'[w].stage = "ensuring" /\ tx'[w].saved = tx[w].saved
         /\ tx'[w].redated = tx[w].redated /\ tx'[w].added = tx[w].added
         /\ tx'[w].latest = Len(SeenConfigs(w))
         /\ \A x \in Writers \ {w} : tx'[x] = tx[x]
         /\ tx' \in [Writers -> Transactions]
         /\ tx[w].stage \in {"idle", "saved"} /\ SeenConfigs(w) # << >>
         /\ UNCHANGED <<now, configs, weeks, crossed>>
<1> DEFINE new == [tx[w] EXCEPT !.stage = "ensuring", !.through = d, !.latest = Len(SeenConfigs(w))]
<1>1. d \in Nat
  BY TodayType, CalendarConstants DEF CalendarTypeOK
<1>2. Len(SeenConfigs(w)) \in 0 .. MaxVersions
  BY SeenIs, LenProperties, CalendarConstants DEF CalendarTypeOK
<1>3. /\ new \in Transactions /\ new.stage = "ensuring" /\ new.saved = tx[w].saved
      /\ new.redated = tx[w].redated /\ new.added = tx[w].added /\ new.latest = Len(SeenConfigs(w))
  BY <1>1, <1>2 DEF Transactions, CalendarTypeOK
<1>4. tx' = [tx EXCEPT ![w] = new] /\ tx \in [Writers -> Transactions]
  BY <1>3 DEF Ensure, CalendarTypeOK, Transactions
<1> HIDE DEF new
<1>5. /\ tx'[w] = new /\ \A x \in Writers \ {w} : tx'[x] = tx[x]
      /\ tx' \in [Writers -> Transactions]
  BY <1>3, <1>4
<1> QED
  BY <1>3, <1>5 DEF Ensure

LEMMA FindCursorDoes ==
  ASSUME CalendarTypeOK, NEW w \in Writers, FindCursor(w), tx[w].latest \in 1 .. Len(SeenConfigs(w))
  PROVE  /\ tx'[w].stage = "opening" /\ tx'[w].saved = tx[w].saved
         /\ tx'[w].redated = tx[w].redated /\ tx'[w].added = tx[w].added
         /\ tx'[w].latest = tx[w].latest /\ tx[w].stage = "ensuring"
         /\ SeenConfigs(w)[tx[w].latest] \in Choices
         /\ \/ /\ DOMAIN weeks = {}
               /\ tx'[w].cursor = First(SeenConfigs(w)[tx[w].latest])
            \/ \E last \in DOMAIN weeks :
                  /\ \A x \in DOMAIN weeks : x <= last
                  /\ tx'[w].cursor = Follows(last, SeenConfigs(w)[tx[w].latest].weekStart)
         /\ \A x \in Writers \ {w} : tx'[x] = tx[x]
         /\ tx' \in [Writers -> Transactions]
         /\ UNCHANGED <<now, configs, weeks, crossed>>
<1> DEFINE latest == SeenConfigs(w)[tx[w].latest]
<1>1. latest \in Choices
  BY SeenIs, ElementOfSeq DEF CalendarTypeOK
<1>2. PICK s : /\ From(w, s)
               /\ \/ DOMAIN weeks = {} /\ s = First(latest)
                  \/ \E last \in DOMAIN weeks :
                        (\A x \in DOMAIN weeks : x <= last) /\ s = Follows(last, latest.weekStart)
  BY DEF FindCursor
<1> HIDE DEF latest
<1>3. s \in Nat
  BY <1>1, <1>2, FirstIs, FollowsIs, TableRows DEF CalendarTypeOK
<1> DEFINE new == [tx[w] EXCEPT !.stage = "opening", !.cursor = s]
<1>4. /\ new \in Transactions /\ new.stage = "opening" /\ new.saved = tx[w].saved /\ new.cursor = s
      /\ new.redated = tx[w].redated /\ new.added = tx[w].added /\ new.latest = tx[w].latest
  BY <1>3 DEF Transactions, CalendarTypeOK
<1>5. tx' = [tx EXCEPT ![w] = new] /\ tx \in [Writers -> Transactions]
  BY <1>2 DEF From, CalendarTypeOK, Transactions
<1> HIDE DEF new
<1>6. /\ tx'[w] = new /\ \A x \in Writers \ {w} : tx'[x] = tx[x]
      /\ tx' \in [Writers -> Transactions]
  BY <1>4, <1>5
<1>7. tx[w].stage = "ensuring" /\ UNCHANGED <<now, configs, weeks, crossed>>
  BY DEF FindCursor
<1> QED
  BY <1>1, <1>2, <1>4, <1>6, <1>7 DEF latest

\* The transaction fails on a week that is there.
Fails(w) ==
    /\ tx[w].cursor \in DOMAIN weeks /\ tx' = [tx EXCEPT ![w] = Idle]
    /\ tx[w].stage = "opening"
    /\ UNCHANGED <<now, configs, weeks, crossed>>

LEMMA FailsDoes ==
  ASSUME CalendarTypeOK, NEW w \in Writers, Fails(w)
  PROVE  /\ tx'[w] = Idle /\ \A x \in Writers \ {w} : tx'[x] = tx[x]
         /\ tx' \in [Writers -> Transactions]
         /\ UNCHANGED <<now, configs, weeks, crossed>>
  BY IdleIs DEF Fails, CalendarTypeOK

\* It opens the week at its cursor by version v.
Opens(w, v) ==
    LET s == tx[w].cursor IN
    /\ tx[w].stage = "opening" /\ s <= tx[w].through /\ s \notin DOMAIN weeks
    /\ \A x \in Writers : s \notin DOMAIN tx[x].added
    /\ Governs(SeenConfigs(w), s, tx[w].latest, v)
    /\ tx' = [tx EXCEPT ![w].added = Overlay(@, [d \in {s} |-> Cut(s, SeenConfigs(w), v)]),
                        ![w].cursor = Follows(s, SeenConfigs(w)[v].weekStart)]
    /\ UNCHANGED <<now, configs, weeks, crossed>>

LEMMA OpenWeekDoes ==
  ASSUME NEW w \in Writers, OpenWeek(w)
  PROVE  Fails(w) \/ \E v \in 1 .. Len(SeenConfigs(w)) : Opens(w, v)
  BY DEF OpenWeek, Fails, Opens

LEMMA OpensDoes ==
  ASSUME CalendarTypeOK, NEW w \in Writers, NEW v \in 1 .. Len(SeenConfigs(w)), Opens(w, v)
  PROVE  /\ tx'[w].stage = "opening" /\ tx'[w].saved = tx[w].saved
         /\ tx'[w].redated = tx[w].redated /\ tx'[w].latest = tx[w].latest
         /\ SeenConfigs(w)[v] \in Choices
         /\ tx'[w].cursor = Follows(tx[w].cursor, SeenConfigs(w)[v].weekStart)
         /\ DOMAIN tx'[w].added = DOMAIN tx[w].added \cup {tx[w].cursor}
         /\ tx'[w].added[tx[w].cursor].version = v
         /\ \A s \in DOMAIN tx[w].added : tx'[w].added[s] = tx[w].added[s]
         /\ \A x \in Writers \ {w} : tx'[x] = tx[x]
         /\ tx' \in [Writers -> Transactions]
         /\ UNCHANGED <<now, configs, weeks, crossed>>
<1> DEFINE s == tx[w].cursor
           row == [d \in {s} |-> Cut(s, SeenConfigs(w), v)]
           added == Overlay(tx[w].added, row)
           next == Follows(s, SeenConfigs(w)[v].weekStart)
           new == [tx[w] EXCEPT !.added = added, !.cursor = next]
<1>1. /\ tx[w] \in Transactions /\ configs \in Seq(Choices) /\ s \in Nat
      /\ tx[w].added \in Tables
  BY TxFields DEF CalendarTypeOK
<1>2. SeenConfigs(w) \in Seq(Choices) /\ SeenConfigs(w)[v] \in Choices
  BY <1>1, SeenIs, ElementOfSeq
<1>3. Cut(s, SeenConfigs(w), v) \in Row /\ Cut(s, SeenConfigs(w), v).version = v
  BY <1>1, <1>2, CutType
<1>4. row \in Tables /\ DOMAIN row = {s} /\ row[s].version = v
  <2>1. row \in [{s} -> Row] /\ {s} \in SUBSET Nat
    BY <1>1, <1>3
  <2>2. row \in Tables
    BY <2>1, IsTable
  <2> QED
    BY <1>3, <2>2
<1> HIDE DEF row
<1>5. /\ added \in Tables /\ DOMAIN added = DOMAIN tx[w].added \cup {s} /\ added[s].version = v
      /\ \A d \in DOMAIN tx[w].added : d # s => added[d] = tx[w].added[d]
  <2> HIDE DEF s
  <2>1. PICK f : f = tx[w].added
    OBVIOUS
  <2>2. /\ added \in Tables /\ DOMAIN added = DOMAIN f \cup DOMAIN row
        /\ \A d \in DOMAIN row : added[d] = row[d]
        /\ \A d \in DOMAIN f \ DOMAIN row : added[d] = f[d]
    BY <1>1, <1>4, <2>1, OverlayIs
  <2> QED
    BY <1>4, <2>1, <2>2
<1>6. next \in Nat
  BY <1>1, <1>2, FollowsIs
<1>7. s \notin DOMAIN tx[w].added
  BY DEF Opens
<1>8. tx' = [tx EXCEPT ![w].added = added, ![w].cursor = next]
  BY DEF Opens, row
<1> HIDE DEF added, next
<1>9. /\ new \in Transactions /\ new.stage = tx[w].stage /\ new.saved = tx[w].saved
      /\ new.redated = tx[w].redated /\ new.latest = tx[w].latest
      /\ new.cursor = next /\ new.added = added
  BY <1>1, <1>5, <1>6 DEF Transactions
<1>10. tx' = [tx EXCEPT ![w] = new] /\ tx \in [Writers -> Transactions]
  BY <1>1, <1>8 DEF CalendarTypeOK, Transactions
<1> HIDE DEF new
<1>11. /\ tx'[w] = new /\ \A x \in Writers \ {w} : tx'[x] = tx[x]
       /\ tx' \in [Writers -> Transactions]
  BY <1>9, <1>10
<1>12. tx[w].stage = "opening" /\ UNCHANGED <<now, configs, weeks, crossed>>
  BY DEF Opens
<1> QED
  BY <1>2, <1>5, <1>7, <1>9, <1>11, <1>12 DEF next

LEMMA CommitDoes ==
  ASSUME CalendarTypeOK, NEW w \in Writers, Commit(w)
  PROVE  /\ configs' = SeenConfigs(w) /\ configs' \in Seq(Choices)
         /\ Len(configs') = IF tx[w].saved = << >> THEN Len(configs) ELSE Len(configs) + 1
         /\ tx[w].saved = << >> => configs' = configs
         /\ \A i \in 1 .. Len(configs) : configs'[i] = configs[i]
         /\ weeks' \in Tables
         /\ DOMAIN weeks' = DOMAIN weeks \cup DOMAIN tx[w].redated \cup DOMAIN tx[w].added
         /\ \A s \in DOMAIN tx[w].added : weeks'[s] = tx[w].added[s]
         /\ \A s \in DOMAIN tx[w].redated \ DOMAIN tx[w].added : weeks'[s] = tx[w].redated[s]
         /\ \A s \in DOMAIN weeks \ (DOMAIN tx[w].redated \cup DOMAIN tx[w].added) :
               weeks'[s] = weeks[s]
         /\ crossed' = (crossed \/ \E x \in Writers \ {w} : Crosses(w, x))
         /\ tx'[w] = Idle /\ \A x \in Writers \ {w} : tx'[x] = tx[x]
         /\ tx' \in [Writers -> Transactions]
         /\ tx[w].stage = "opening" /\ now' = now
<1>1. /\ tx[w] \in Transactions /\ configs \in Seq(Choices) /\ weeks \in Tables
      /\ tx[w].added \in Tables /\ tx[w].redated \in Tables
  BY TxFields DEF CalendarTypeOK
<1>2. configs' = SeenConfigs(w)
  BY DEF Commit, SeenConfigs
<1>3. PICK mid : mid = Overlay(weeks, tx[w].redated)
  OBVIOUS
<1>4. /\ mid \in Tables /\ DOMAIN mid = DOMAIN weeks \cup DOMAIN tx[w].redated
      /\ \A s \in DOMAIN tx[w].redated : mid[s] = tx[w].redated[s]
      /\ \A s \in DOMAIN weeks \ DOMAIN tx[w].redated : mid[s] = weeks[s]
  BY <1>1, <1>3, OverlayIs
<1>5. weeks' = Overlay(mid, tx[w].added)
  BY <1>3 DEF Commit
<1>6. /\ weeks' \in Tables /\ DOMAIN weeks' = DOMAIN mid \cup DOMAIN tx[w].added
      /\ \A s \in DOMAIN tx[w].added : weeks'[s] = tx[w].added[s]
      /\ \A s \in DOMAIN mid \ DOMAIN tx[w].added : weeks'[s] = mid[s]
  BY <1>1, <1>4, <1>5, OverlayIs
<1>7. /\ tx'[w] = Idle /\ \A x \in Writers \ {w} : tx'[x] = tx[x]
      /\ tx' \in [Writers -> Transactions]
  BY IdleIs DEF Commit, CalendarTypeOK
<1>8. /\ tx[w].stage = "opening" /\ now' = now
      /\ crossed' = (crossed \/ \E x \in Writers \ {w} : Crosses(w, x))
  BY DEF Commit
<1>9. /\ configs' \in Seq(Choices)
      /\ tx[w].saved = << >> => configs' = configs
      /\ Len(configs') = IF tx[w].saved = << >> THEN Len(configs) ELSE Len(configs) + 1
      /\ \A i \in 1 .. Len(configs) : configs'[i] = configs[i]
  BY <1>1, <1>2, SeenIs
<1>10. /\ \A s \in DOMAIN tx[w].redated \ DOMAIN tx[w].added : weeks'[s] = tx[w].redated[s]
       /\ \A s \in DOMAIN weeks \ (DOMAIN tx[w].redated \cup DOMAIN tx[w].added) :
               weeks'[s] = weeks[s]
  BY <1>4, <1>6
<1>11. DOMAIN weeks' = DOMAIN weeks \cup DOMAIN tx[w].redated \cup DOMAIN tx[w].added
  BY <1>4, <1>6
<1> QED
  BY <1>2, <1>6, <1>7, <1>8, <1>9, <1>10, <1>11

-----------------------------------------------------------------------------
(* Types, and which writer holds what. *)

\* One writer at a time has a version of its own to commit, and no other re-dates
\* weeks; rows are only in the hands of a writer that is opening weeks.
CalendarShape ==
    /\ CalendarTypeOK
    /\ \A w \in Writers :
          /\ tx[w].stage = "idle" => tx[w] = Idle
          /\ tx[w].stage # "opening" => DOMAIN tx[w].added = {}
          /\ tx[w].saved = << >> => DOMAIN tx[w].redated = {}
          /\ tx[w].saved # << >> => Len(configs) < MaxVersions
          /\ tx[w].stage \in {"ensuring", "opening"} => tx[w].latest \in 1 .. Len(SeenConfigs(w))
    /\ \A w, x \in Writers : tx[w].saved # << >> /\ tx[x].saved # << >> => w = x

\* A writer that a step leaves alone, and whose view of the versions it leaves.
LEMMA ShapeOfOthers ==
  ASSUME CalendarShape, NEW x \in Writers, tx'[x] = tx[x],
         configs' = configs \/ tx[x].saved = << >>,
         Len(configs') >= Len(configs), Len(configs') \in Nat,
         configs' \in Seq(Choices)
  PROVE  /\ tx'[x].stage = "idle" => tx'[x] = Idle
         /\ tx'[x].stage # "opening" => DOMAIN tx'[x].added = {}
         /\ tx'[x].saved = << >> => DOMAIN tx'[x].redated = {}
         /\ tx'[x].saved # << >> => Len(configs') < MaxVersions
         /\ tx'[x].stage \in {"ensuring", "opening"} => tx'[x].latest \in 1 .. Len(SeenConfigs(x)')
<1>1. tx[x] \in Transactions /\ configs \in Seq(Choices)
  BY DEF CalendarShape, CalendarTypeOK
<1>2. CASE configs' = configs
  <2>1. SeenConfigs(x)' = SeenConfigs(x)
    BY <1>2 DEF SeenConfigs
  <2> QED
    BY <1>2, <2>1 DEF CalendarShape
<1>3. CASE tx[x].saved = << >>
  <2>1. SeenConfigs(x) = configs /\ SeenConfigs(x)' = configs'
    BY <1>1, <1>3, SeenIs, ConcatEmptySeq DEF SeenConfigs
  <2>2. Len(configs) \in Nat
    BY <1>1, LenProperties
  <2> QED
    BY <1>3, <2>1, <2>2 DEF CalendarShape
<1> QED
  BY <1>2, <1>3

LEMMA ShapeStep == CalendarShape /\ [CalendarNext]_calendarVars => CalendarShape'
<1> SUFFICES ASSUME CalendarShape, [CalendarNext]_calendarVars
             PROVE  CalendarShape'
  OBVIOUS
<1>1. /\ CalendarTypeOK /\ now \in Nat /\ configs \in Seq(Choices) /\ Len(configs) \in Nat
      /\ Len(configs) <= MaxVersions /\ MaxVersions \in Nat
      /\ \A x \in Writers : tx[x] \in Transactions
  BY LenProperties, CalendarConstants DEF CalendarShape, CalendarTypeOK
<1>2. ASSUME NextMinute
      PROVE  CalendarShape'
  <2>1. CalendarTypeOK'
    BY <1>1, <1>2, CalendarConstants DEF NextMinute, CalendarTypeOK
  <2>2. tx' = tx /\ configs' = configs
    BY <1>2 DEF NextMinute
  <2> QED
    BY <2>1, <2>2 DEF CalendarShape, SeenConfigs
<1>3. ASSUME NEW w \in Writers, NEW c \in Choices, Configure(w, c)
      PROVE  CalendarShape'
  <2>1. /\ tx'[w].stage = "saved" /\ tx'[w].saved = <<c>> /\ tx'[w].added = Nothing
        /\ \A x \in Writers \ {w} : tx'[x] = tx[x]
        /\ tx' \in [Writers -> Transactions]
        /\ \A x \in Writers : tx[x].saved = << >>
        /\ Len(configs) < MaxVersions
        /\ UNCHANGED <<now, configs, weeks, crossed>>
    BY <1>1, <1>3, ConfigureDoes
  <2>2. CalendarTypeOK'
    BY <1>1, <2>1 DEF CalendarTypeOK
  <2>3. <<c>> # << >> /\ DOMAIN tx'[w].added = {}
    BY <2>1, NothingIs
  <2> QED
    BY <1>1, <2>1, <2>2, <2>3, ShapeOfOthers DEF CalendarShape
<1>4. ASSUME NEW w \in Writers, NEW d \in Throughs \cup {Today + Horizon}, Ensure(w, d)
      PROVE  CalendarShape'
  <2>1. Len(SeenConfigs(w)) <= MaxVersions /\ Len(SeenConfigs(w)) \in Nat
    BY <1>1, SeenIs, LenProperties DEF CalendarShape
  <2>2. /\ tx'[w].stage = "ensuring" /\ tx'[w].saved = tx[w].saved
        /\ tx'[w].redated = tx[w].redated /\ tx'[w].added = tx[w].added
        /\ tx'[w].latest = Len(SeenConfigs(w))
        /\ \A x \in Writers \ {w} : tx'[x] = tx[x]
        /\ tx' \in [Writers -> Transactions]
        /\ tx[w].stage \in {"idle", "saved"} /\ SeenConfigs(w) # << >>
        /\ UNCHANGED <<now, configs, weeks, crossed>>
    BY <1>1, <1>4, <2>1, EnsureDoes
  <2>3. CalendarTypeOK'
    BY <1>1, <2>2 DEF CalendarTypeOK
  <2>4. SeenConfigs(w)' = SeenConfigs(w) /\ Len(SeenConfigs(w)) >= 1
    BY <1>1, <2>1, <2>2, SeenIs, EmptySeq DEF SeenConfigs
  <2> QED
    BY <1>1, <2>1, <2>2, <2>3, <2>4, ShapeOfOthers DEF CalendarShape
<1>5. ASSUME NEW w \in Writers, FindCursor(w)
      PROVE  CalendarShape'
  <2>1. tx[w].latest \in 1 .. Len(SeenConfigs(w))
    BY <1>5 DEF CalendarShape, FindCursor
  <2>2. /\ tx'[w].stage = "opening" /\ tx'[w].saved = tx[w].saved
        /\ tx'[w].redated = tx[w].redated /\ tx'[w].added = tx[w].added
        /\ tx'[w].latest = tx[w].latest /\ tx[w].stage = "ensuring"
        /\ \A x \in Writers \ {w} : tx'[x] = tx[x]
        /\ tx' \in [Writers -> Transactions]
        /\ UNCHANGED <<now, configs, weeks, crossed>>
    BY <1>1, <1>5, <2>1, FindCursorDoes
  <2>3. CalendarTypeOK'
    BY <1>1, <2>2 DEF CalendarTypeOK
  <2>4. SeenConfigs(w)' = SeenConfigs(w)
    BY <2>2 DEF SeenConfigs
  <2> QED
    BY <1>1, <2>1, <2>2, <2>3, <2>4, ShapeOfOthers DEF CalendarShape
<1>6. ASSUME NEW w \in Writers, Fails(w)
      PROVE  CalendarShape'
  <2>1. /\ tx'[w] = Idle /\ \A x \in Writers \ {w} : tx'[x] = tx[x]
        /\ tx' \in [Writers -> Transactions]
        /\ UNCHANGED <<now, configs, weeks, crossed>>
    BY <1>1, <1>6, FailsDoes
  <2>2. CalendarTypeOK'
    BY <1>1, <2>1 DEF CalendarTypeOK
  <2> QED
    BY <1>1, <2>1, <2>2, IdleIs, NothingIs, ShapeOfOthers DEF CalendarShape
<1>7. ASSUME NEW w \in Writers, NEW v \in 1 .. Len(SeenConfigs(w)), Opens(w, v)
      PROVE  CalendarShape'
  <2>1. /\ tx'[w].stage = "opening" /\ tx'[w].saved = tx[w].saved
        /\ tx'[w].redated = tx[w].redated /\ tx'[w].latest = tx[w].latest
        /\ \A x \in Writers \ {w} : tx'[x] = tx[x]
        /\ tx' \in [Writers -> Transactions]
        /\ UNCHANGED <<now, configs, weeks, crossed>>
    BY <1>1, <1>7, OpensDoes
  <2>2. CalendarTypeOK'
    BY <1>1, <2>1 DEF CalendarTypeOK
  <2>3. SeenConfigs(w)' = SeenConfigs(w) /\ tx[w].stage = "opening"
    BY <1>7, <2>1 DEF SeenConfigs, Opens
  <2> QED
    BY <1>1, <2>1, <2>2, <2>3, ShapeOfOthers DEF CalendarShape
<1>8. ASSUME NEW w \in Writers, Commit(w)
      PROVE  CalendarShape'
  <2>1. /\ configs' \in Seq(Choices)
        /\ Len(configs') = IF tx[w].saved = << >> THEN Len(configs) ELSE Len(configs) + 1
        /\ tx[w].saved = << >> => configs' = configs
        /\ weeks' \in Tables /\ now' = now
        /\ crossed' = (crossed \/ \E x \in Writers \ {w} : Crosses(w, x))
        /\ tx'[w] = Idle /\ \A x \in Writers \ {w} : tx'[x] = tx[x]
        /\ tx' \in [Writers -> Transactions]
    BY <1>1, <1>8, CommitDoes
  <2>2. Len(configs') \in Nat /\ Len(configs') <= MaxVersions /\ Len(configs') >= Len(configs)
    BY <1>1, <2>1 DEF CalendarShape
  <2>3. crossed' \in BOOLEAN
    BY <1>1, <2>1 DEF CalendarTypeOK
  <2>4. CalendarTypeOK'
    BY <1>1, <2>1, <2>2, <2>3 DEF CalendarTypeOK
  <2>5. \A x \in Writers \ {w} : configs' = configs \/ tx[x].saved = << >>
    BY <2>1 DEF CalendarShape
  <2> QED
    BY <1>1, <2>1, <2>2, <2>4, <2>5, IdleIs, NothingIs, ShapeOfOthers DEF CalendarShape
<1>9. CASE UNCHANGED calendarVars
  BY <1>1, <1>9 DEF calendarVars, CalendarShape, CalendarTypeOK, SeenConfigs
<1> QED
  BY <1>2, <1>3, <1>4, <1>5, <1>6, <1>7, <1>8, <1>9, OpenWeekDoes DEF CalendarNext

-----------------------------------------------------------------------------
(* Rows that two writers hold, and weeks that have begun. *)

\* A week is only inserted once, and only weeks that have not begun are re-dated.
CalendarRows ==
    /\ \A w \in Writers : \A s \in DOMAIN tx[w].added : s \notin DOMAIN weeks
    /\ \A w, x \in Writers : w # x =>
          \A s \in DOMAIN tx[w].added : s \notin DOMAIN tx[x].added
    /\ \A w \in Writers : \A s \in DOMAIN tx[w].redated :
          s \in DOMAIN weeks /\ weeks[s].start > now


LEMMA NoRows == DOMAIN Idle.added = {} /\ DOMAIN Idle.redated = {}
  BY IdleIs, NothingIs

LEMMA RowsStep ==
  CalendarShape /\ CalendarRows /\ [CalendarNext]_calendarVars => CalendarRows'
<1> SUFFICES ASSUME CalendarShape, CalendarRows, [CalendarNext]_calendarVars
             PROVE  CalendarRows'
  OBVIOUS
<1>1. CalendarTypeOK
  BY DEF CalendarShape
<1>2. ASSUME NextMinute
      PROVE  CalendarRows'
  <2>1. \A w \in Writers : tx[w] = Idle
    BY <1>2 DEF NextMinute, CalendarShape
  <2> QED
    BY <1>2, <2>1, NoRows DEF NextMinute, CalendarRows
<1>3. ASSUME NEW w \in Writers, NEW c \in Choices, Configure(w, c)
      PROVE  CalendarRows'
  <2>1. /\ tx'[w].redated = Redated(c) /\ DOMAIN tx'[w].added = {}
        /\ \A x \in Writers \ {w} : tx'[x] = tx[x]
        /\ UNCHANGED <<now, configs, weeks, crossed>>
    BY <1>1, <1>3, ConfigureDoes, NothingIs
  <2>2. \A s \in DOMAIN Redated(c) : s \in DOMAIN weeks /\ weeks[s].start > now
    BY DEF Redated, Redatable
  <2> QED
    BY <2>1, <2>2 DEF CalendarRows
<1>4. ASSUME NEW w \in Writers, NEW d \in Throughs \cup {Today + Horizon}, Ensure(w, d)
      PROVE  CalendarRows'
  <2>1. Len(SeenConfigs(w)) <= MaxVersions
    BY <1>1, SeenIs, LenProperties, CalendarConstants DEF CalendarShape, CalendarTypeOK
  <2>2. /\ tx'[w].redated = tx[w].redated /\ tx'[w].added = tx[w].added
        /\ \A x \in Writers \ {w} : tx'[x] = tx[x]
        /\ UNCHANGED <<now, configs, weeks, crossed>>
    BY <1>1, <1>4, <2>1, EnsureDoes
  <2> QED
    BY <2>2 DEF CalendarRows
<1>5. ASSUME NEW w \in Writers, FindCursor(w)
      PROVE  CalendarRows'
  <2>1. tx[w].latest \in 1 .. Len(SeenConfigs(w))
    BY <1>5 DEF CalendarShape, FindCursor
  <2>2. /\ tx'[w].redated = tx[w].redated /\ tx'[w].added = tx[w].added
        /\ \A x \in Writers \ {w} : tx'[x] = tx[x]
        /\ UNCHANGED <<now, configs, weeks, crossed>>
    BY <1>1, <1>5, <2>1, FindCursorDoes
  <2> QED
    BY <2>2 DEF CalendarRows
<1>6. ASSUME NEW w \in Writers, Fails(w)
      PROVE  CalendarRows'
  <2>1. /\ tx'[w] = Idle /\ \A x \in Writers \ {w} : tx'[x] = tx[x]
        /\ UNCHANGED <<now, configs, weeks, crossed>>
    BY <1>1, <1>6, FailsDoes
  <2> QED
    BY <2>1, NoRows DEF CalendarRows
<1>7. ASSUME NEW w \in Writers, NEW v \in 1 .. Len(SeenConfigs(w)), Opens(w, v)
      PROVE  CalendarRows'
  <2>1. /\ tx'[w].redated = tx[w].redated
        /\ DOMAIN tx'[w].added = DOMAIN tx[w].added \cup {tx[w].cursor}
        /\ \A x \in Writers \ {w} : tx'[x] = tx[x]
        /\ UNCHANGED <<now, configs, weeks, crossed>>
    BY <1>1, <1>7, OpensDoes
  <2>2. tx[w].cursor \notin DOMAIN weeks /\ \A x \in Writers : tx[w].cursor \notin DOMAIN tx[x].added
    BY <1>7 DEF Opens
  <2> QED
    BY <2>1, <2>2 DEF CalendarRows
<1>8. ASSUME NEW w \in Writers, Commit(w)
      PROVE  CalendarRows'
  <2>1. /\ DOMAIN weeks' = DOMAIN weeks \cup DOMAIN tx[w].redated \cup DOMAIN tx[w].added
        /\ \A s \in DOMAIN weeks \ (DOMAIN tx[w].redated \cup DOMAIN tx[w].added) :
              weeks'[s] = weeks[s]
        /\ tx'[w] = Idle /\ \A x \in Writers \ {w} : tx'[x] = tx[x]
        /\ now' = now
    BY <1>1, <1>8, CommitDoes
  <2>2. \A x \in Writers \ {w} : \A s \in DOMAIN tx[x].added : s \notin DOMAIN weeks'
    BY <2>1 DEF CalendarRows
  <2>3. ASSUME NEW x \in Writers \ {w}, NEW s \in DOMAIN tx[x].redated
        PROVE  s \in DOMAIN weeks' /\ weeks'[s].start > now
    <3>1. DOMAIN tx[w].redated = {}
      BY <2>3 DEF CalendarShape
    <3>2. s \in DOMAIN weeks /\ weeks[s].start > now /\ s \notin DOMAIN tx[w].added
      BY DEF CalendarRows
    <3> QED
      BY <2>1, <3>1, <3>2
  <2> QED
    BY <2>1, <2>2, <2>3, NoRows DEF CalendarRows
<1>9. CASE UNCHANGED calendarVars
  BY <1>9 DEF calendarVars, CalendarRows
<1> QED
  BY <1>2, <1>3, <1>4, <1>5, <1>6, <1>7, <1>8, <1>9, OpenWeekDoes DEF CalendarNext

LEMMA CalendarStart == CalendarInit => CalendarShape /\ CalendarRows
<1> SUFFICES ASSUME CalendarInit
             PROVE  CalendarShape /\ CalendarRows
  OBVIOUS
<1>1. \A w \in Writers : tx[w] = Idle
  BY DEF CalendarInit
<1>2. CalendarTypeOK
  <2>1. configs \in Seq(Choices) /\ Len(configs) = 0 /\ Len(configs) <= MaxVersions
    BY EmptySeq, CalendarConstants DEF CalendarInit
  <2>2. tx \in [Writers -> Transactions]
    BY IdleIs DEF CalendarInit
  <2>3. 0 \in 0 .. MaxMinute
    BY CalendarConstants
  <2> QED
    BY <2>1, <2>2, <2>3, NothingIs DEF CalendarInit, CalendarTypeOK
<1>3. CalendarRows
  BY <1>1, NoRows DEF CalendarRows
<1> QED
  BY <1>1, <1>2, <1>3, NoRows, IdleIs DEF CalendarShape

\* The types of the calendar, with the rows a writer holds.
THEOREM CalendarTypes == CalendarSpec => []CalendarTypeOK
<1>1. CalendarShape => CalendarTypeOK
  BY DEF CalendarShape
<1> QED
  BY <1>1, CalendarStart, ShapeStep, PTL DEF CalendarSpec

\* Only a commit writes weeks, and what it writes over has not begun: the clock
\* stands while it is open, no other writer re-dates, and an insert is of a week
\* that is not there.
THEOREM BegunWeeksStand == CalendarSpec => BegunWeekKeepsDeadline
<1> DEFINE Keeps == \A s \in DOMAIN weeks :
                        weeks[s].start <= now => s \in DOMAIN weeks' /\ weeks'[s] = weeks[s]
<1>1. CalendarShape /\ CalendarRows /\ [CalendarNext]_calendarVars => [Keeps]_calendarVars
  <2> SUFFICES ASSUME CalendarShape, CalendarRows, CalendarNext
               PROVE  Keeps
    BY DEF calendarVars
  <2>1. CASE weeks' = weeks
    BY <2>1
  <2>2. ASSUME NEW w \in Writers, Commit(w)
        PROVE  Keeps
    <3>1. CalendarTypeOK
      BY DEF CalendarShape
    <3>2. /\ DOMAIN weeks \subseteq DOMAIN weeks'
          /\ \A s \in DOMAIN weeks \ (DOMAIN tx[w].redated \cup DOMAIN tx[w].added) :
                weeks'[s] = weeks[s]
      BY <2>2, <3>1, CommitDoes
    <3>3. \A s \in DOMAIN weeks : weeks[s].start \in Int /\ now \in Int
      BY <3>1, TableRows, RowFields DEF CalendarTypeOK
    <3>4. \A s \in DOMAIN weeks : weeks[s].start <= now =>
              s \notin DOMAIN tx[w].redated /\ s \notin DOMAIN tx[w].added
      BY <3>3 DEF CalendarRows
    <3> QED
      BY <3>2, <3>4
  <2> QED
    BY <2>1, <2>2
    DEF CalendarNext, NextMinute, Configure, Ensure, FindCursor, OpenWeek
<1>2. CalendarInit => CalendarShape /\ CalendarRows
  BY CalendarStart
<1> QED
  BY <1>1, <1>2, ShapeStep, RowsStep, PTL DEF CalendarSpec, BegunWeekKeepsDeadline

-----------------------------------------------------------------------------
(* A new version and the weeks that were opened before it. *)

\* A week that the newest of the versions governs carries it.
CarriesNewest(cs, s, version) == InForce(cs, s, Len(cs)) => version = Len(cs)

\* Until a save overlaps the opening of weeks, a writer that saves has re-dated
\* every week it should, and one that opens weeks has read the newest version.
CalendarFresh ==
    /\ \A w \in Writers : \A s \in DOMAIN tx[w].redated :
          tx[w].redated[s].version = Len(configs) + 1
    /\ ~crossed => \A w \in Writers :
          /\ tx[w].saved # << >> =>
                \A s \in DOMAIN weeks : Redatable(s, tx[w].saved[1]) => s \in DOMAIN tx[w].redated
          /\ tx[w].stage \in {"ensuring", "opening"} => tx[w].latest = Len(SeenConfigs(w))
          /\ \A s \in DOMAIN tx[w].added : CarriesNewest(SeenConfigs(w), s, tx[w].added[s].version)
    /\ UnstartedFollowLatest


LEMMA OneInForce ==
  ASSUME NEW cs \in Seq(Choices), NEW s, NEW u, NEW v, InForce(cs, s, u), InForce(cs, s, v)
  PROVE  u = v
<1>1. u \in 1 .. Len(cs) /\ v \in 1 .. Len(cs) /\ Len(cs) \in Nat
  BY LenProperties DEF InForce
<1>2. cs[u].effective \in Nat /\ cs[v].effective \in Nat
  BY <1>1, ElementOfSeq, CalendarConstants
<1>3. /\ cs[u].effective < cs[v].effective \/ (cs[u].effective = cs[v].effective /\ u <= v)
      /\ cs[v].effective < cs[u].effective \/ (cs[v].effective = cs[u].effective /\ v <= u)
  BY <1>1 DEF InForce
<1> QED
  BY <1>1, <1>2, <1>3

\* What a step leaves of the tables, of the clock and of every transaction but
\* one keeps what the others owe.
FreshWriter(w) ==
    /\ \A s \in DOMAIN tx[w].redated : tx[w].redated[s].version = Len(configs) + 1
    /\ ~crossed =>
          /\ tx[w].saved # << >> =>
                \A s \in DOMAIN weeks : Redatable(s, tx[w].saved[1]) => s \in DOMAIN tx[w].redated
          /\ tx[w].stage \in {"ensuring", "opening"} => tx[w].latest = Len(SeenConfigs(w))
          /\ \A s \in DOMAIN tx[w].added : CarriesNewest(SeenConfigs(w), s, tx[w].added[s].version)

LEMMA FreshWriters ==
  CalendarFresh <=> UnstartedFollowLatest /\ \A w \in Writers : FreshWriter(w)
  BY DEF CalendarFresh, FreshWriter

LEMMA FreshOthers ==
  ASSUME NEW x \in Writers, tx'[x] = tx[x], UNCHANGED <<now, configs, weeks, crossed>>, FreshWriter(x)
  PROVE  FreshWriter(x)'
  BY DEF FreshWriter, SeenConfigs, CarriesNewest, InForce, Redatable

LEMMA FreshIdle ==
  ASSUME NEW x \in Writers, tx'[x] = Idle
  PROVE  FreshWriter(x)'
  BY IdleIs, NoRows DEF FreshWriter

\* The weeks a writer commits with its version carry it, where it governs them.
LEMMA SaveIsFresh ==
  ASSUME CalendarShape, CalendarRows, CalendarFresh, NEW w \in Writers, Commit(w),
         tx[w].saved # << >>, ~crossed
  PROVE  UnstartedFollowLatest'
<1> DEFINE c == tx[w].saved[1]
           v == Len(configs) + 1
<1>1. /\ CalendarTypeOK /\ configs \in Seq(Choices) /\ tx[w] \in Transactions
      /\ Len(configs) \in Nat /\ FreshWriter(w)
  BY FreshWriters, LenProperties DEF CalendarShape, CalendarTypeOK
<1>2. /\ configs' = SeenConfigs(w) /\ SeenConfigs(w) = Append(configs, c) /\ Len(configs') = v
      /\ configs' \in Seq(Choices) /\ now' = now
  BY <1>1, CommitDoes, SeenIs
<1>3. configs'[v] = c /\ c \in Choices
  BY <1>1, <1>2, SeenIs
<1>4. /\ DOMAIN weeks' = DOMAIN weeks \cup DOMAIN tx[w].redated \cup DOMAIN tx[w].added
      /\ \A s \in DOMAIN tx[w].added : weeks'[s] = tx[w].added[s]
      /\ \A s \in DOMAIN tx[w].redated \ DOMAIN tx[w].added : weeks'[s] = tx[w].redated[s]
      /\ \A s \in DOMAIN weeks \ (DOMAIN tx[w].redated \cup DOMAIN tx[w].added) :
            weeks'[s] = weeks[s]
  BY <1>1, CommitDoes
<1> HIDE DEF c, v
<1>5. SUFFICES ASSUME NEW s \in DOMAIN weeks', weeks'[s].start > now,
                      s % WeekLength = c.weekStart, InForce(configs', s, v)
               PROVE  weeks'[s].version = v
  BY <1>2, <1>3 DEF UnstartedFollowLatest
<1>6. CASE s \in DOMAIN tx[w].added
  <2>1. CarriesNewest(SeenConfigs(w), s, tx[w].added[s].version)
    BY <1>1, <1>6 DEF FreshWriter
  <2> QED
    BY <1>2, <1>4, <1>5, <1>6, <2>1 DEF CarriesNewest
<1>7. CASE s \in DOMAIN tx[w].redated \ DOMAIN tx[w].added
  BY <1>1, <1>4, <1>7 DEF FreshWriter, v
<1>8. CASE s \notin DOMAIN tx[w].redated \cup DOMAIN tx[w].added
  <2>1. s \in DOMAIN weeks /\ weeks[s].start > now
    BY <1>4, <1>5, <1>8
  <2>2. c.effective <= s
    BY <1>3, <1>5 DEF InForce
  <2>3. s \in Nat /\ c.effective \in Nat
    BY <1>1, <1>3, <2>1, TableRows, CalendarConstants DEF CalendarTypeOK
  <2>4. Redatable(s, c)
    BY <1>5, <2>1, <2>2, <2>3 DEF Redatable
  <2> QED
    BY <1>1, <1>8, <2>1, <2>4 DEF FreshWriter, c
<1> QED
  BY <1>4, <1>6, <1>7, <1>8

LEMMA FreshStep ==
  CalendarShape /\ CalendarRows /\ CalendarFresh /\ [CalendarNext]_calendarVars => CalendarFresh'
<1> SUFFICES ASSUME CalendarShape, CalendarRows, CalendarFresh, [CalendarNext]_calendarVars
             PROVE  UnstartedFollowLatest' /\ \A x \in Writers : FreshWriter(x)'
  BY DEF CalendarFresh, FreshWriter
<1>1. /\ CalendarTypeOK /\ UnstartedFollowLatest /\ \A x \in Writers : FreshWriter(x)
      /\ configs \in Seq(Choices) /\ \A x \in Writers : tx[x] \in Transactions
  BY FreshWriters DEF CalendarShape, CalendarTypeOK
<1>2. UNCHANGED <<now, configs, weeks, crossed>> => UnstartedFollowLatest'
  BY <1>1 DEF UnstartedFollowLatest, InForce
<1>3. ASSUME NextMinute
      PROVE  UnstartedFollowLatest' /\ \A x \in Writers : FreshWriter(x)'
  <2>1. /\ \A x \in Writers : tx'[x] = Idle
        /\ now' = now + 1 /\ configs' = configs /\ weeks' = weeks /\ crossed' = crossed
    BY <1>3 DEF NextMinute, CalendarShape
  <2>2. now \in Int /\ \A s \in DOMAIN weeks : weeks[s].start \in Int
    BY <1>1, TableRows, RowFields DEF CalendarTypeOK
  <2>3. \A s \in DOMAIN weeks : weeks[s].start > now' => weeks[s].start > now
    BY <2>1, <2>2
  <2> QED
    BY <1>1, <2>1, <2>3, FreshIdle DEF UnstartedFollowLatest, InForce
<1>4. ASSUME NEW w \in Writers, NEW c \in Choices, Configure(w, c)
      PROVE  UnstartedFollowLatest' /\ \A x \in Writers : FreshWriter(x)'
  <2>1. /\ tx'[w].stage = "saved" /\ tx'[w].saved = <<c>> /\ tx'[w].redated = Redated(c)
        /\ DOMAIN tx'[w].added = {}
        /\ \A x \in Writers \ {w} : tx'[x] = tx[x]
        /\ UNCHANGED <<now, configs, weeks, crossed>>
    BY <1>1, <1>4, ConfigureDoes, NothingIs
  <2>2. \A s \in DOMAIN weeks : Redatable(s, c) <=> s \in DOMAIN Redated(c)
    BY DEF Redated
  <2>3. \A s \in DOMAIN Redated(c) : Redated(c)[s].version = Len(configs) + 1
    <3>1. Append(configs, c) \in Seq(Choices) /\ Len(Append(configs, c)) = Len(configs) + 1
          /\ Len(configs) \in Nat
      BY <1>1, LenProperties
    <3>2. DOMAIN Redated(c) \subseteq Nat
      BY <1>1, TableRows DEF Redated, CalendarTypeOK
    <3>3. \A s \in DOMAIN Redated(c) :
              Redated(c)[s] = Cut(s, Append(configs, c), Len(Append(configs, c)))
      BY DEF Redated
    <3> QED
      BY <3>1, <3>2, <3>3 DEF Cut
  <2>4. <<c>>[1] = c /\ UNCHANGED <<now, configs, weeks, crossed>>
    BY <2>1
  <2>5. \A s : Redatable(s, c)' <=> Redatable(s, c)
    BY <2>1 DEF Redatable
  <2>6. FreshWriter(w)'
    BY <2>1, <2>2, <2>3, <2>4, <2>5 DEF FreshWriter, Redatable
  <2> QED
    BY <1>1, <1>2, <2>1, <2>6, FreshOthers
<1>5. ASSUME NEW w \in Writers, NEW d \in Throughs \cup {Today + Horizon}, Ensure(w, d)
      PROVE  UnstartedFollowLatest' /\ \A x \in Writers : FreshWriter(x)'
  <2>1. Len(SeenConfigs(w)) <= MaxVersions
    BY <1>1, SeenIs, LenProperties, CalendarConstants DEF CalendarShape, CalendarTypeOK
  <2>2. /\ tx'[w].saved = tx[w].saved
        /\ tx'[w].redated = tx[w].redated /\ tx'[w].added = tx[w].added
        /\ tx'[w].latest = Len(SeenConfigs(w)) /\ tx[w].stage \in {"idle", "saved"}
        /\ \A x \in Writers \ {w} : tx'[x] = tx[x]
        /\ UNCHANGED <<now, configs, weeks, crossed>>
    BY <1>1, <1>5, <2>1, EnsureDoes
  <2>3. SeenConfigs(w)' = SeenConfigs(w) /\ DOMAIN tx[w].added = {}
    BY <2>2 DEF SeenConfigs, CalendarShape
  <2>4. \A s, c : Redatable(s, c)' <=> Redatable(s, c)
    BY <2>2 DEF Redatable
  <2>5. FreshWriter(w)'
    BY <1>1, <2>2, <2>3, <2>4 DEF FreshWriter, Redatable
  <2> QED
    BY <1>1, <1>2, <2>2, <2>5, FreshOthers
<1>6. ASSUME NEW w \in Writers, FindCursor(w)
      PROVE  UnstartedFollowLatest' /\ \A x \in Writers : FreshWriter(x)'
  <2>1. tx[w].latest \in 1 .. Len(SeenConfigs(w))
    BY <1>6 DEF CalendarShape, FindCursor
  <2>2. /\ tx'[w].saved = tx[w].saved
        /\ tx'[w].redated = tx[w].redated /\ tx'[w].added = tx[w].added
        /\ tx'[w].latest = tx[w].latest /\ tx[w].stage = "ensuring"
        /\ \A x \in Writers \ {w} : tx'[x] = tx[x]
        /\ UNCHANGED <<now, configs, weeks, crossed>>
    BY <1>1, <1>6, <2>1, FindCursorDoes
  <2>3. SeenConfigs(w)' = SeenConfigs(w) /\ DOMAIN tx[w].added = {}
    BY <2>2 DEF SeenConfigs, CalendarShape
  <2>4. FreshWriter(w)'
    BY <1>1, <2>2, <2>3 DEF FreshWriter, Redatable
  <2> QED
    BY <1>1, <1>2, <2>2, <2>4, FreshOthers
<1>7. ASSUME NEW w \in Writers, Fails(w)
      PROVE  UnstartedFollowLatest' /\ \A x \in Writers : FreshWriter(x)'
  <2>1. /\ tx'[w] = Idle /\ \A x \in Writers \ {w} : tx'[x] = tx[x]
        /\ UNCHANGED <<now, configs, weeks, crossed>>
    BY <1>1, <1>7, FailsDoes
  <2> QED
    BY <1>1, <1>2, <2>1, FreshOthers, FreshIdle
<1>8. ASSUME NEW w \in Writers, NEW v \in 1 .. Len(SeenConfigs(w)), Opens(w, v)
      PROVE  UnstartedFollowLatest' /\ \A x \in Writers : FreshWriter(x)'
  <2> DEFINE cs == SeenConfigs(w)
             s == tx[w].cursor
  <2>1. /\ tx'[w].saved = tx[w].saved
        /\ tx'[w].redated = tx[w].redated /\ tx'[w].latest = tx[w].latest
        /\ DOMAIN tx'[w].added = DOMAIN tx[w].added \cup {s}
        /\ tx'[w].added[s].version = v
        /\ \A d \in DOMAIN tx[w].added : tx'[w].added[d] = tx[w].added[d]
        /\ \A x \in Writers \ {w} : tx'[x] = tx[x]
        /\ UNCHANGED <<now, configs, weeks, crossed>>
    BY <1>1, <1>8, OpensDoes
  <2>2. SeenConfigs(w)' = cs /\ tx[w].stage = "opening" /\ Governs(cs, s, tx[w].latest, v)
    BY <1>8, <2>1 DEF SeenConfigs, Opens
  <2>3. ~crossed => CarriesNewest(cs, s, v)
    <3>1. SUFFICES ASSUME ~crossed, InForce(cs, s, Len(cs))
                   PROVE  v = Len(cs)
      BY DEF CarriesNewest
    <3>2. tx[w].latest = Len(cs)
      BY <1>1, <2>2, <3>1 DEF FreshWriter
    <3>3. cs \in Seq(Choices)
      BY <1>1, SeenIs
    <3> QED
      BY <2>2, <3>1, <3>2, <3>3, OneInForce DEF Governs
  <2> HIDE DEF cs, s
  <2>4. ~crossed => \A d \in DOMAIN tx'[w].added : CarriesNewest(cs, d, tx'[w].added[d].version)
    BY <1>1, <2>1, <2>3 DEF FreshWriter, cs
  <2>5. \A d, c : Redatable(d, c)' <=> Redatable(d, c)
    BY <2>1 DEF Redatable
  <2>6. FreshWriter(w)'
    <3>1. \A d \in DOMAIN tx'[w].redated : tx'[w].redated[d].version = Len(configs') + 1
      BY <1>1, <2>1 DEF FreshWriter
    <3>2. ~crossed' /\ tx'[w].saved # << >> => \A d \in DOMAIN weeks' :
              Redatable(d, tx[w].saved[1]) => d \in DOMAIN tx'[w].redated
      BY <1>1, <2>1 DEF FreshWriter
    <3>3. ~crossed' => tx'[w].latest = Len(SeenConfigs(w)')
      BY <1>1, <2>1, <2>2 DEF FreshWriter, cs
    <3>4. ~crossed' => \A d \in DOMAIN tx'[w].added :
              CarriesNewest(SeenConfigs(w)', d, tx'[w].added[d].version)
      BY <2>1, <2>2, <2>4
    <3> QED
      BY <2>1, <2>2, <3>1, <3>2, <3>3, <3>4 DEF FreshWriter, Redatable, CarriesNewest, InForce
  <2> QED
    BY <1>1, <1>2, <2>1, <2>6, FreshOthers
<1>9. ASSUME NEW w \in Writers, Commit(w), tx[w].saved # << >>
      PROVE  UnstartedFollowLatest' /\ \A x \in Writers : FreshWriter(x)'
  <2>1. /\ crossed' = (crossed \/ \E x \in Writers \ {w} : Crosses(w, x))
        /\ tx'[w] = Idle /\ \A x \in Writers \ {w} : tx'[x] = tx[x]
    BY <1>1, <1>9, CommitDoes
  <2>2. UnstartedFollowLatest'
    BY <1>9, <2>1, SaveIsFresh DEF UnstartedFollowLatest
  <2>3. ASSUME NEW x \in Writers
        PROVE  FreshWriter(x)'
    <3>1. CASE tx'[x] = Idle
      BY <3>1, FreshIdle
    <3>2. CASE tx'[x] # Idle
      <4>1. x # w /\ tx'[x] = tx[x] /\ tx[x].stage # "idle"
        BY <2>1, <3>2 DEF CalendarShape
      <4>2. crossed'
        BY <1>9, <2>1, <4>1 DEF Crosses
      <4>3. DOMAIN tx[x].redated = {}
        BY <1>9, <4>1 DEF CalendarShape
      <4> QED
        BY <4>1, <4>2, <4>3 DEF FreshWriter
    <3> QED
      BY <3>1, <3>2
  <2> QED
    BY <2>2, <2>3
<1>10. ASSUME NEW w \in Writers, Commit(w), tx[w].saved = << >>
       PROVE  UnstartedFollowLatest' /\ \A x \in Writers : FreshWriter(x)'
  <2>1. /\ configs' = configs /\ now' = now
        /\ DOMAIN weeks' = DOMAIN weeks \cup DOMAIN tx[w].redated \cup DOMAIN tx[w].added
        /\ \A s \in DOMAIN tx[w].added : weeks'[s] = tx[w].added[s]
        /\ \A s \in DOMAIN weeks \ (DOMAIN tx[w].redated \cup DOMAIN tx[w].added) :
              weeks'[s] = weeks[s]
        /\ crossed' = (crossed \/ \E x \in Writers \ {w} : Crosses(w, x))
        /\ tx'[w] = Idle /\ \A x \in Writers \ {w} : tx'[x] = tx[x]
    BY <1>1, <1>10, CommitDoes
  <2>2. DOMAIN tx[w].redated = {} /\ SeenConfigs(w) = configs
    BY <1>1, <1>10, SeenIs DEF CalendarShape
  <2>3. UnstartedFollowLatest'
    <3>1. SUFFICES ASSUME ~crossed', configs # << >>, NEW s \in DOMAIN weeks', weeks'[s].start > now,
                          s % WeekLength = configs[Len(configs)].weekStart,
                          InForce(configs, s, Len(configs))
                   PROVE  weeks'[s].version = Len(configs)
      BY <2>1 DEF UnstartedFollowLatest
    <3>2. ~crossed
      BY <2>1, <3>1
    <3>3. CASE s \in DOMAIN tx[w].added
      BY <1>1, <2>1, <2>2, <3>1, <3>2, <3>3 DEF FreshWriter, CarriesNewest
    <3>4. CASE s \notin DOMAIN tx[w].added
      BY <1>1, <2>1, <2>2, <3>1, <3>2, <3>4 DEF UnstartedFollowLatest
    <3> QED
      BY <3>3, <3>4
  <2>4. ASSUME NEW x \in Writers
        PROVE  FreshWriter(x)'
    <3>1. CASE x = w
      BY <2>1, <3>1, FreshIdle
    <3>2. CASE x # w
      <4>1. tx'[x] = tx[x] /\ SeenConfigs(x)' = SeenConfigs(x)
        BY <2>1, <3>2 DEF SeenConfigs
      <4>2. ASSUME ~crossed', tx[x].saved # << >>, NEW s \in DOMAIN weeks',
                   Redatable(s, tx[x].saved[1])'
            PROVE  s \in DOMAIN tx[x].redated
        <5>1. DOMAIN tx[w].added = {} /\ ~crossed
          BY <2>1, <3>2, <4>2 DEF Crosses
        <5>2. Redatable(s, tx[x].saved[1]) /\ s \in DOMAIN weeks
          BY <2>1, <2>2, <4>1, <4>2, <5>1 DEF Redatable
        <5> QED
          BY <1>1, <4>2, <5>1, <5>2 DEF FreshWriter
      <4>3. \A s \in DOMAIN tx'[x].redated : tx'[x].redated[s].version = Len(configs') + 1
        BY <1>1, <2>1, <4>1 DEF FreshWriter
      <4>4. ~crossed' => ~crossed
        BY <2>1
      <4>5. ~crossed' => /\ tx'[x].stage \in {"ensuring", "opening"} => tx'[x].latest = Len(SeenConfigs(x)')
                         /\ \A s \in DOMAIN tx'[x].added :
                               CarriesNewest(SeenConfigs(x)', s, tx'[x].added[s].version)
        BY <1>1, <4>1, <4>4 DEF FreshWriter
      <4> QED
        BY <4>1, <4>2, <4>3, <4>5 DEF FreshWriter, Redatable, CarriesNewest, InForce
    <3> QED
      BY <3>1, <3>2
  <2> QED
    BY <2>3, <2>4
<1>11. CASE UNCHANGED calendarVars
  BY <1>1, <1>2, <1>11, FreshOthers DEF calendarVars
<1> QED
  BY <1>3, <1>4, <1>5, <1>6, <1>7, <1>8, <1>9, <1>10, <1>11, OpenWeekDoes DEF CalendarNext

\* A version that is saved reaches every week it may: the ones that were opened
\* before it and have not begun as well.
THEOREM NewVersionReaches == CalendarSpec => []UnstartedFollowLatest
<1>1. CalendarInit => CalendarFresh
  <2> SUFFICES ASSUME CalendarInit
               PROVE  UnstartedFollowLatest /\ \A x \in Writers : FreshWriter(x)
    BY DEF CalendarFresh, FreshWriter
  <2>1. \A x \in Writers : tx[x] = Idle
    BY DEF CalendarInit
  <2> QED
    BY <2>1, NoRows, IdleIs DEF UnstartedFollowLatest, FreshWriter, CalendarInit
<1>2. CalendarFresh => UnstartedFollowLatest
  BY DEF CalendarFresh
<1> QED
  BY <1>1, <1>2, CalendarStart, ShapeStep, RowsStep, FreshStep, PTL DEF CalendarSpec

-----------------------------------------------------------------------------
(* Weekdays: weeks on one of them do not overlap. *)

\* Every week starts on the weekday of some version.
OnWeekday(s, cs) == \E v \in 1 .. Len(cs) : s % WeekLength = cs[v].weekStart
CalendarWeekdays ==
    /\ \A s \in DOMAIN weeks : OnWeekday(s, configs)
    /\ \A w \in Writers :
          /\ \A s \in DOMAIN tx[w].added : OnWeekday(s, SeenConfigs(w))
          /\ tx[w].stage = "opening" => OnWeekday(tx[w].cursor, SeenConfigs(w))


LEMMA WeekdayOthers ==
  ASSUME CalendarShape, NEW x \in Writers, tx'[x] = tx[x],
         configs' = configs \/ tx[x].saved = << >>,
         configs' \in Seq(Choices), Len(configs) <= Len(configs'),
         \A i \in 1 .. Len(configs) : configs'[i] = configs[i],
         NEW s, OnWeekday(s, SeenConfigs(x))
  PROVE  OnWeekday(s, SeenConfigs(x)')
<1>1. CASE configs' = configs
  BY <1>1 DEF SeenConfigs
<1>2. CASE tx[x].saved = << >>
  <2>1. configs \in Seq(Choices) /\ tx[x] \in Transactions
    BY DEF CalendarShape, CalendarTypeOK
  <2>2. SeenConfigs(x) = configs /\ SeenConfigs(x)' = configs'
    BY <1>2, <2>1, SeenIs, ConcatEmptySeq DEF SeenConfigs
  <2>3. Len(configs) \in Nat /\ Len(configs') \in Nat
    BY <2>1, LenProperties
  <2> QED
    BY <2>2, <2>3 DEF OnWeekday
<1> QED
  BY <1>1, <1>2

LEMMA WeekdaysStep ==
  CalendarShape /\ CalendarRows /\ CalendarWeekdays /\ [CalendarNext]_calendarVars
    => CalendarWeekdays'
<1> SUFFICES ASSUME CalendarShape, CalendarRows, CalendarWeekdays, [CalendarNext]_calendarVars
             PROVE  CalendarWeekdays'
  OBVIOUS
<1>1. /\ CalendarTypeOK /\ configs \in Seq(Choices) /\ Len(configs) \in Nat
      /\ \A x \in Writers : tx[x] \in Transactions
  BY LenProperties DEF CalendarShape, CalendarTypeOK
<1>2. ASSUME NEW w \in Writers, \A x \in Writers \ {w} : tx'[x] = tx[x],
             configs' = configs, weeks' = weeks,
             \A s \in DOMAIN tx'[w].added : OnWeekday(s, SeenConfigs(w)'),
             tx'[w].stage = "opening" => OnWeekday(tx'[w].cursor, SeenConfigs(w)')
      PROVE  CalendarWeekdays'
  <2>1. \A x \in Writers \ {w} : SeenConfigs(x)' = SeenConfigs(x)
    BY <1>2 DEF SeenConfigs
  <2> QED
    BY <1>2, <2>1 DEF CalendarWeekdays
<1>3. ASSUME NextMinute
      PROVE  CalendarWeekdays'
  BY <1>3 DEF NextMinute, CalendarWeekdays, SeenConfigs
<1>4. ASSUME NEW w \in Writers, NEW c \in Choices, Configure(w, c)
      PROVE  CalendarWeekdays'
  BY <1>1, <1>2, <1>4, ConfigureDoes, NothingIs
<1>5. ASSUME NEW w \in Writers, NEW d \in Throughs \cup {Today + Horizon}, Ensure(w, d)
      PROVE  CalendarWeekdays'
  <2>1. Len(SeenConfigs(w)) <= MaxVersions
    BY <1>1, SeenIs, LenProperties, CalendarConstants DEF CalendarShape, CalendarTypeOK
  <2>2. /\ tx'[w].added = tx[w].added /\ tx'[w].stage = "ensuring"
        /\ tx[w].stage \in {"idle", "saved"}
        /\ \A x \in Writers \ {w} : tx'[x] = tx[x]
        /\ UNCHANGED <<now, configs, weeks, crossed>>
    BY <1>1, <1>5, <2>1, EnsureDoes
  <2>3. DOMAIN tx'[w].added = {}
    BY <2>2 DEF CalendarShape
  <2> QED
    BY <1>2, <2>2, <2>3
<1>6. ASSUME NEW w \in Writers, FindCursor(w)
      PROVE  CalendarWeekdays'
  <2> DEFINE latest == SeenConfigs(w)[tx[w].latest]
  <2>1. tx[w].latest \in 1 .. Len(SeenConfigs(w))
    BY <1>6 DEF CalendarShape, FindCursor
  <2>2. /\ tx'[w].added = tx[w].added /\ tx[w].stage = "ensuring" /\ latest \in Choices
        /\ tx'[w].saved = tx[w].saved
        /\ \/ tx'[w].cursor = First(latest)
           \/ \E last \in DOMAIN weeks : tx'[w].cursor = Follows(last, latest.weekStart)
        /\ \A x \in Writers \ {w} : tx'[x] = tx[x]
        /\ UNCHANGED <<now, configs, weeks, crossed>>
    BY <1>1, <1>6, <2>1, FindCursorDoes
  <2>3. DOMAIN tx'[w].added = {} /\ SeenConfigs(w)' = SeenConfigs(w)
    BY <2>2 DEF CalendarShape, SeenConfigs
  <2> HIDE DEF latest
  <2>4. tx'[w].cursor % WeekLength = latest.weekStart
    <3>1. CASE tx'[w].cursor = First(latest)
      BY <2>2, <3>1, FirstIs
    <3>2. ASSUME NEW last \in DOMAIN weeks, tx'[w].cursor = Follows(last, latest.weekStart)
          PROVE  tx'[w].cursor % WeekLength = latest.weekStart
      <4>1. last \in Nat
        BY <1>1, TableRows DEF CalendarTypeOK
      <4> QED
        BY <2>2, <3>2, <4>1, FollowsIs
    <3> QED
      BY <2>2, <3>1, <3>2
  <2>5. OnWeekday(tx'[w].cursor, SeenConfigs(w)')
    BY <2>1, <2>3, <2>4 DEF OnWeekday, latest
  <2> QED
    BY <1>2, <2>2, <2>3, <2>5
<1>7. ASSUME NEW w \in Writers, Fails(w)
      PROVE  CalendarWeekdays'
  BY <1>1, <1>2, <1>7, FailsDoes, NoRows, IdleIs
<1>8. ASSUME NEW w \in Writers, NEW v \in 1 .. Len(SeenConfigs(w)), Opens(w, v)
      PROVE  CalendarWeekdays'
  <2> DEFINE cs == SeenConfigs(w)
  <2>1. /\ cs[v] \in Choices /\ tx'[w].saved = tx[w].saved
        /\ tx'[w].cursor = Follows(tx[w].cursor, cs[v].weekStart)
        /\ DOMAIN tx'[w].added = DOMAIN tx[w].added \cup {tx[w].cursor}
        /\ \A x \in Writers \ {w} : tx'[x] = tx[x]
        /\ UNCHANGED <<now, configs, weeks, crossed>>
    BY <1>1, <1>8, OpensDoes
  <2>2. SeenConfigs(w)' = cs /\ tx[w].stage = "opening"
    BY <1>8, <2>1 DEF SeenConfigs, Opens
  <2>3. tx[w].cursor \in Nat
    BY <1>1, TxFields
  <2>4. tx'[w].cursor % WeekLength = cs[v].weekStart
    BY <2>1, <2>3, FollowsIs
  <2>5. OnWeekday(tx'[w].cursor, cs)
    BY <2>4 DEF OnWeekday
  <2>6. \A s \in DOMAIN tx'[w].added : OnWeekday(s, cs)
    BY <2>1, <2>2 DEF CalendarWeekdays
  <2> HIDE DEF cs
  <2> QED
    BY <1>2, <2>1, <2>2, <2>5, <2>6
<1>9. ASSUME NEW w \in Writers, Commit(w)
      PROVE  CalendarWeekdays'
  <2>1. /\ configs' = SeenConfigs(w) /\ configs' \in Seq(Choices)
        /\ Len(configs') = IF tx[w].saved = << >> THEN Len(configs) ELSE Len(configs) + 1
        /\ tx[w].saved = << >> => configs' = configs
        /\ \A i \in 1 .. Len(configs) : configs'[i] = configs[i]
        /\ DOMAIN weeks' = DOMAIN weeks \cup DOMAIN tx[w].redated \cup DOMAIN tx[w].added
        /\ tx'[w] = Idle /\ \A x \in Writers \ {w} : tx'[x] = tx[x]
    BY <1>1, <1>9, CommitDoes
  <2>2. Len(configs') \in Nat /\ Len(configs) <= Len(configs')
    BY <1>1, <2>1
  <2>3. \A x \in Writers \ {w} : configs' = configs \/ tx[x].saved = << >>
    BY <2>1 DEF CalendarShape
  <2>4. ASSUME NEW s \in DOMAIN weeks
        PROVE  OnWeekday(s, configs')
    BY <1>1, <2>1, <2>2 DEF CalendarWeekdays, OnWeekday
  <2>5. ASSUME NEW s \in DOMAIN tx[w].added
        PROVE  OnWeekday(s, configs')
    BY <2>1 DEF CalendarWeekdays
  <2>6. DOMAIN tx[w].redated \subseteq DOMAIN weeks
    BY DEF CalendarRows
  <2> QED
    BY <2>1, <2>2, <2>3, <2>4, <2>5, <2>6, NoRows, IdleIs, WeekdayOthers DEF CalendarWeekdays
<1>10. CASE UNCHANGED calendarVars
  BY <1>10 DEF calendarVars, CalendarWeekdays, SeenConfigs
<1> QED
  BY <1>3, <1>4, <1>5, <1>6, <1>7, <1>8, <1>9, <1>10, OpenWeekDoes DEF CalendarNext

-----------------------------------------------------------------------------
(* Spacing: weeks that are opened one after another. *)

Spaced(days) == Disjoint(days) /\ Gapless(days)
Fits(day, days) ==
    days = {} \/ \E last \in days : /\ \A x \in days : x <= last
                                    /\ last + WeekLength <= day /\ day < last + 2 * WeekLength

\* The week that the committed tables call for.
CalledFor(day) ==
    LET latest == configs[Len(configs)] IN
    \/ DOMAIN weeks = {} /\ day = First(latest)
    \/ \E last \in DOMAIN weeks : /\ \A x \in DOMAIN weeks : x <= last
                                  /\ day = Follows(last, latest.weekStart)

Behind(w) == tx[w].cursor \in DOMAIN weeks /\ DOMAIN tx[w].added = {}

\* Whoever opens weeks goes on from the last one, or will fail on a week that
\* another opened; and all but a writer that saves begin with the same week, so
\* that one of them holds it.
SpacedWriter(w) ==
    /\ tx[w].stage = "opening" =>
          \/ Behind(w)
          \/ /\ Spaced(DOMAIN weeks \cup DOMAIN tx[w].added)
             /\ Fits(tx[w].cursor, DOMAIN weeks \cup DOMAIN tx[w].added)
    /\ tx[w].stage = "opening" /\ tx[w].saved = << >> =>
          \/ Behind(w)
          \/ DOMAIN tx[w].added = {} /\ CalledFor(tx[w].cursor)
          \/ \E s \in DOMAIN tx[w].added : CalledFor(s)

CalendarSpacing == ~crossed => Spaced(DOMAIN weeks) /\ \A w \in Writers : SpacedWriter(w)

LEMMA SpacedAdd ==
  ASSUME NEW days \in SUBSET Nat, NEW c \in Nat, Spaced(days), Fits(c, days)
  PROVE  Spaced(days \cup {c}) /\ \A x \in days \cup {c} : x <= c
<1>1. WeekLength \in Nat /\ WeekLength > 0
  BY CalendarConstants
<1>2. CASE days = {}
  BY <1>1, <1>2 DEF Spaced, Disjoint, Gapless
<1>3. ASSUME NEW last \in days, \A x \in days : x <= last,
             last + WeekLength <= c, c < last + 2 * WeekLength
      PROVE  Spaced(days \cup {c}) /\ \A x \in days \cup {c} : x <= c
  <2>1. \A x \in days : x \in Nat /\ x <= last /\ x + WeekLength <= c /\ x < c
    BY <1>1, <1>3
  <2>2. Disjoint(days \cup {c})
    <3>1. SUFFICES ASSUME NEW s \in days \cup {c}, NEW r \in days \cup {c}, s < r
                   PROVE  s + WeekLength <= r
      BY DEF Disjoint
    <3>2. s \in days
      BY <1>1, <2>1, <3>1
    <3> QED
      BY <2>1, <3>1, <3>2 DEF Spaced, Disjoint
  <2>3. Gapless(days \cup {c})
    <3>1. SUFFICES ASSUME NEW s \in days \cup {c}, NEW r \in days \cup {c}, s < r
                   PROVE  \E q \in days \cup {c} : s < q /\ q < s + 2 * WeekLength
      BY DEF Gapless
    <3>2. s \in days
      BY <1>1, <2>1, <3>1
    <3>3. CASE s = last
      BY <1>1, <1>3, <2>1, <3>3
    <3>4. CASE s < last
      BY <3>2, <3>4 DEF Spaced, Gapless
    <3> QED
      BY <2>1, <3>2, <3>3, <3>4
  <2> QED
    BY <1>1, <2>1, <2>2, <2>3 DEF Spaced
<1> QED
  BY <1>2, <1>3 DEF Fits

LEMMA FitsNext ==
  ASSUME NEW days \in SUBSET Nat, NEW s \in days, \A x \in days : x <= s, NEW c \in Choices
  PROVE  Fits(Follows(s, c.weekStart), days)
BY FollowsIs DEF Fits

\* There is one such week.
LEMMA OneCalledFor ==
  ASSUME CalendarTypeOK, NEW r, NEW s, CalledFor(r), CalledFor(s)
  PROVE  r = s
<1>1. DOMAIN weeks \subseteq Nat
  BY TableRows DEF CalendarTypeOK
<1> QED
  BY <1>1 DEF CalledFor

LEMMA SpacedOthers ==
  ASSUME NEW x \in Writers, tx'[x] = tx[x], DOMAIN weeks' = DOMAIN weeks, configs' = configs,
         SpacedWriter(x)
  PROVE  SpacedWriter(x)'
BY DEF SpacedWriter, Behind, CalledFor

LEMMA SpacingStep ==
  CalendarShape /\ CalendarRows /\ CalendarFresh /\ CalendarSpacing /\ [CalendarNext]_calendarVars
    => CalendarSpacing'
<1> SUFFICES ASSUME CalendarShape, CalendarRows, CalendarFresh, CalendarSpacing,
                    [CalendarNext]_calendarVars, ~crossed'
             PROVE  Spaced(DOMAIN weeks') /\ \A x \in Writers : SpacedWriter(x)'
  BY DEF CalendarSpacing, SpacedWriter, Spaced
<1>1. /\ CalendarTypeOK /\ configs \in Seq(Choices) /\ DOMAIN weeks \in SUBSET Nat
      /\ \A x \in Writers : tx[x] \in Transactions /\ DOMAIN tx[x].added \in SUBSET Nat
  BY TableRows, TxFields DEF CalendarShape, CalendarTypeOK
<1>2. ASSUME NEW w \in Writers, \A x \in Writers \ {w} : tx'[x] = tx[x],
             UNCHANGED <<now, configs, weeks, crossed>>,
             ~crossed => SpacedWriter(w)'
      PROVE  Spaced(DOMAIN weeks') /\ \A x \in Writers : SpacedWriter(x)'
  <2>1. ~crossed /\ Spaced(DOMAIN weeks) /\ \A x \in Writers : SpacedWriter(x)
    BY <1>2 DEF CalendarSpacing
  <2> QED
    BY <1>2, <2>1, SpacedOthers
<1>3. ASSUME NextMinute
      PROVE  Spaced(DOMAIN weeks') /\ \A x \in Writers : SpacedWriter(x)'
  BY <1>3, SpacedOthers DEF NextMinute, CalendarSpacing
<1>4. ASSUME NEW w \in Writers, NEW c \in Choices, Configure(w, c)
      PROVE  Spaced(DOMAIN weeks') /\ \A x \in Writers : SpacedWriter(x)'
  <2>1. /\ tx'[w].stage = "saved" /\ \A x \in Writers \ {w} : tx'[x] = tx[x]
        /\ UNCHANGED <<now, configs, weeks, crossed>>
    BY <1>1, <1>4, ConfigureDoes
  <2> QED
    BY <1>2, <2>1 DEF SpacedWriter
<1>5. ASSUME NEW w \in Writers, NEW d \in Throughs \cup {Today + Horizon}, Ensure(w, d)
      PROVE  Spaced(DOMAIN weeks') /\ \A x \in Writers : SpacedWriter(x)'
  <2>1. Len(SeenConfigs(w)) <= MaxVersions
    BY <1>1, SeenIs, LenProperties, CalendarConstants DEF CalendarShape, CalendarTypeOK
  <2>2. /\ tx'[w].stage = "ensuring" /\ \A x \in Writers \ {w} : tx'[x] = tx[x]
        /\ UNCHANGED <<now, configs, weeks, crossed>>
    BY <1>1, <1>5, <2>1, EnsureDoes
  <2> QED
    BY <1>2, <2>2 DEF SpacedWriter
<1>6. ASSUME NEW w \in Writers, FindCursor(w)
      PROVE  Spaced(DOMAIN weeks') /\ \A x \in Writers : SpacedWriter(x)'
  <2> DEFINE latest == SeenConfigs(w)[tx[w].latest]
  <2>1. tx[w].latest \in 1 .. Len(SeenConfigs(w))
    BY <1>6 DEF CalendarShape, FindCursor
  <2>2. /\ tx'[w].saved = tx[w].saved /\ tx'[w].added = tx[w].added
        /\ tx[w].stage = "ensuring" /\ latest \in Choices
        /\ \/ /\ DOMAIN weeks = {}
              /\ tx'[w].cursor = First(latest)
           \/ \E last \in DOMAIN weeks :
                 /\ \A x \in DOMAIN weeks : x <= last
                 /\ tx'[w].cursor = Follows(last, latest.weekStart)
        /\ \A x \in Writers \ {w} : tx'[x] = tx[x]
        /\ UNCHANGED <<now, configs, weeks, crossed>>
    BY <1>1, <1>6, <2>1, FindCursorDoes
  <2>3. DOMAIN tx[w].added = {} /\ ~crossed /\ Spaced(DOMAIN weeks)
    BY <2>2 DEF CalendarShape, CalendarSpacing
  <2>4. tx[w].saved = << >> => latest = configs[Len(configs)]
    BY <1>1, <2>2, <2>3, SeenIs DEF CalendarFresh
  <2> HIDE DEF latest
  <2>5. Fits(tx'[w].cursor, DOMAIN weeks)
    <3>1. CASE DOMAIN weeks = {}
      BY <3>1 DEF Fits
    <3>2. ASSUME NEW last \in DOMAIN weeks, \A x \in DOMAIN weeks : x <= last,
                 tx'[w].cursor = Follows(last, latest.weekStart)
          PROVE  Fits(tx'[w].cursor, DOMAIN weeks)
      BY <1>1, <2>2, <3>2, FitsNext
    <3> QED
      BY <2>2, <3>1, <3>2
  <2>6. tx[w].saved = << >> => CalledFor(tx'[w].cursor)
    BY <2>2, <2>4 DEF CalledFor
  <2>7. tx[w].saved = << >> => CalledFor(tx[w].cursor)'
    BY <2>2, <2>6 DEF CalledFor
  <2>8. SpacedWriter(w)'
    <3>1. DOMAIN weeks' \cup DOMAIN tx'[w].added = DOMAIN weeks
      BY <2>2, <2>3
    <3> QED
      BY <2>2, <2>3, <2>5, <2>7, <3>1 DEF SpacedWriter
  <2> QED
    BY <1>2, <2>2, <2>8
<1>7. ASSUME NEW w \in Writers, Fails(w)
      PROVE  Spaced(DOMAIN weeks') /\ \A x \in Writers : SpacedWriter(x)'
  <2>1. /\ tx'[w].stage = "idle" /\ \A x \in Writers \ {w} : tx'[x] = tx[x]
        /\ UNCHANGED <<now, configs, weeks, crossed>>
    BY <1>1, <1>7, FailsDoes, IdleIs
  <2> QED
    BY <1>2, <2>1 DEF SpacedWriter
<1>8. ASSUME NEW w \in Writers, NEW v \in 1 .. Len(SeenConfigs(w)), Opens(w, v)
      PROVE  Spaced(DOMAIN weeks') /\ \A x \in Writers : SpacedWriter(x)'
  <2> DEFINE s == tx[w].cursor
             c == SeenConfigs(w)[v]
             days == DOMAIN weeks \cup DOMAIN tx[w].added
  <2>1. /\ tx'[w].saved = tx[w].saved /\ c \in Choices
        /\ tx'[w].cursor = Follows(s, c.weekStart)
        /\ DOMAIN tx'[w].added = DOMAIN tx[w].added \cup {s}
        /\ \A x \in Writers \ {w} : tx'[x] = tx[x]
        /\ UNCHANGED <<now, configs, weeks, crossed>>
    BY <1>1, <1>8, OpensDoes
  <2>2. tx[w].stage = "opening" /\ s \notin DOMAIN weeks /\ s \in Nat /\ SpacedWriter(w)
    BY <1>1, <1>8, <2>1, TxFields DEF Opens, CalendarSpacing
  <2>3. Spaced(days) /\ Fits(s, days) /\ days \in SUBSET Nat
    BY <1>1, <2>2 DEF SpacedWriter, Behind
  <2>4. DOMAIN weeks' \cup DOMAIN tx'[w].added = days \cup {s}
    BY <2>1
  <2>5. tx[w].saved = << >> => \E r \in DOMAIN tx'[w].added : CalledFor(r)
    BY <2>1, <2>2 DEF SpacedWriter, Behind
  <2>6. tx[w].saved = << >> => \E r \in DOMAIN tx'[w].added : CalledFor(r)'
    BY <2>1, <2>5 DEF CalledFor
  <2> HIDE DEF s, c, days
  <2>7. Spaced(days \cup {s}) /\ \A x \in days \cup {s} : x <= s
    BY <2>2, <2>3, SpacedAdd
  <2>8. Fits(tx'[w].cursor, days \cup {s})
    <3>1. PICK more \in SUBSET Nat : more = days \cup {s}
      BY <2>2, <2>3
    <3>2. s \in more /\ \A x \in more : x <= s
      BY <2>7, <3>1
    <3> QED
      BY <2>1, <3>1, <3>2, FitsNext
  <2>9. SpacedWriter(w)'
    BY <2>1, <2>4, <2>6, <2>7, <2>8 DEF SpacedWriter
  <2> QED
    BY <1>2, <2>1, <2>9
<1>9. ASSUME NEW w \in Writers, Commit(w)
      PROVE  Spaced(DOMAIN weeks') /\ \A x \in Writers : SpacedWriter(x)'
  <2>1. /\ configs' = SeenConfigs(w) /\ (tx[w].saved = << >> => configs' = configs)
        /\ DOMAIN weeks' = DOMAIN weeks \cup DOMAIN tx[w].redated \cup DOMAIN tx[w].added
        /\ ~crossed /\ \A x \in Writers \ {w} : ~Crosses(w, x)
        /\ tx'[w] = Idle /\ \A x \in Writers \ {w} : tx'[x] = tx[x]
    BY <1>1, <1>9, CommitDoes
  <2>2. tx[w].stage = "opening" /\ Spaced(DOMAIN weeks) /\ \A x \in Writers : SpacedWriter(x)
    BY <1>9, <2>1 DEF Commit, CalendarSpacing
  <2>3. DOMAIN weeks' = DOMAIN weeks \cup DOMAIN tx[w].added
    BY <2>1 DEF CalendarRows
  <2>4. Spaced(DOMAIN weeks')
    <3>1. CASE Behind(w)
      BY <2>2, <2>3, <3>1 DEF Behind
    <3>2. CASE ~Behind(w)
      BY <2>2, <2>3, <3>2 DEF SpacedWriter
    <3> QED
      BY <3>1, <3>2
  <2>5. ASSUME NEW x \in Writers
        PROVE  SpacedWriter(x)'
    <3>1. CASE tx'[x].stage # "opening"
      BY <3>1 DEF SpacedWriter
    <3>2. CASE tx'[x].stage = "opening"
      <4>1. x # w /\ tx'[x] = tx[x]
        BY <2>1, <3>2, IdleIs
      <4>2. tx[w].saved = << >>
        BY <2>1, <3>2, <4>1 DEF Crosses
      <4>3. CASE DOMAIN tx[w].added = {}
        <5>1. DOMAIN weeks' = DOMAIN weeks /\ configs' = configs
          BY <2>1, <2>3, <4>2, <4>3
        <5> QED
          BY <2>2, <4>1, <5>1, SpacedOthers
      <4>4. CASE DOMAIN tx[w].added # {}
        <5>1. tx[x].saved = << >>
          BY <2>1, <4>1, <4>4 DEF Crosses
        <5>2. PICK s \in DOMAIN tx[w].added : CalledFor(s)
          BY <2>2, <4>2, <4>4 DEF SpacedWriter, Behind
        <5>3. \A r \in DOMAIN tx[x].added : ~CalledFor(r)
          BY <1>1, <4>1, <5>2, OneCalledFor DEF CalendarRows
        <5>4. DOMAIN tx[x].added = {} /\ tx[x].cursor \in DOMAIN weeks'
          BY <1>1, <2>2, <2>3, <3>2, <4>1, <5>1, <5>2, <5>3, OneCalledFor DEF SpacedWriter, Behind
        <5> QED
          BY <4>1, <5>4 DEF SpacedWriter, Behind
      <4> QED
        BY <4>3, <4>4
    <3> QED
      BY <3>1, <3>2
  <2> QED
    BY <2>4, <2>5
<1>10. CASE UNCHANGED calendarVars
  BY <1>10, SpacedOthers DEF calendarVars, CalendarSpacing
<1> QED
  BY <1>3, <1>4, <1>5, <1>6, <1>7, <1>8, <1>9, <1>10, OpenWeekDoes DEF CalendarNext

\* No two weeks overlap, and none is left out between two that follow each other:
\* each is opened after the last of those that are there, and a week that two
\* writers open fails all but one of them.
THEOREM WeeksStandApart == CalendarSpec => []WeeksApart
<1>1. CalendarInit => CalendarFresh /\ CalendarWeekdays /\ CalendarSpacing
  <2> SUFFICES ASSUME CalendarInit
               PROVE  CalendarFresh /\ CalendarWeekdays /\ CalendarSpacing
    OBVIOUS
  <2>1. \A x \in Writers : tx[x] = Idle
    BY DEF CalendarInit
  <2>2. DOMAIN weeks = {} /\ configs = << >>
    BY NothingIs DEF CalendarInit
  <2>3. CalendarFresh
    BY <2>1, <2>2, NoRows, IdleIs DEF CalendarFresh, UnstartedFollowLatest
  <2>4. CalendarWeekdays
    BY <2>1, <2>2, NoRows, IdleIs DEF CalendarWeekdays
  <2>5. CalendarSpacing
    BY <2>1, <2>2, IdleIs DEF CalendarSpacing, SpacedWriter, Spaced, Disjoint, Gapless
  <2> QED
    BY <2>3, <2>4, <2>5
<1>2. CalendarShape /\ CalendarWeekdays /\ CalendarSpacing => WeeksApart
  <2> SUFFICES ASSUME CalendarShape, CalendarWeekdays, CalendarSpacing,
                      \A v, x \in 1 .. Len(configs) : configs[v].weekStart = configs[x].weekStart,
                      NEW s \in DOMAIN weeks, NEW r \in DOMAIN weeks, s < r
               PROVE  s + WeekLength <= r
    BY DEF WeeksApart, CalendarSpacing, Spaced, Disjoint
  <2>1. s % WeekLength = r % WeekLength
    BY DEF CalendarWeekdays, OnWeekday
  <2>2. s \in Int /\ r \in Int
    BY TableRows DEF CalendarShape, CalendarTypeOK
  <2> QED
    BY <2>1, <2>2, SameWeekday, CalendarConstants
<1> QED
  BY <1>1, <1>2, CalendarStart, ShapeStep, RowsStep, FreshStep, WeekdaysStep, SpacingStep, PTL
     DEF CalendarSpec

=============================================================================
