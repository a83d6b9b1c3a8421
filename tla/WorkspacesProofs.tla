-------------------------- MODULE WorkspacesProofs --------------------------
(* Theorems about a workspace's people (Workspaces) and about what its      *)
(* analyses spend (Gateway), for every value of their constants.            *)
EXTENDS Workspaces, Gateway, FiniteSetTheorems, TLAPS

\* An open invitation belongs to an account.
OffersHaveAccounts == \A u \in offers : state[u] # "absent"

\* Whoever is not active belongs to one workspace at most.  Becoming active,
\* an account then enters no workspace but the one it is anchored in.
DormantAtHome ==
    shell = 0 => \A u \in Accounts : state[u] # "active" => member[u] \subseteq {anchor[u]}

Seats == ArchivedIsEmpty /\ BelongsWhereItWorks /\ DormantAtHome
Inv   == TypeOK /\ OffersHaveAccounts /\ NoOfferIntoArchived /\ Seats

LEMMA InitInv == Init => Inv
  BY WorkspacesAssumption
  DEF Init, Inv, TypeOK, OffersHaveAccounts, NoOfferIntoArchived, Seats, ArchivedIsEmpty,
      BelongsWhereItWorks, DormantAtHome, Active, Spaces

-----------------------------------------------------------------------------
(* Types, and the way into an archived workspace that an offer would be. *)

Ways == TypeOK /\ OffersHaveAccounts /\ NoOfferIntoArchived

LEMMA OwnWays ==
  ASSUME Ways, NEW p \in Accounts, OwnStep(p)
  PROVE  Ways'
<1> USE WorkspacesAssumption DEF Ways, Spaces
<1>1. CASE CreateWorkspace(p)
  <2>1. created + 1 \in Spaces /\ created + 1 \notin archived /\ anchor[p] # 0
    BY <1>1 DEF CreateWorkspace, TypeOK, Acting
  <2>2. TypeOK'
    BY <1>1, <2>1 DEF CreateWorkspace, TypeOK, Acting
  <2> QED
    BY <1>1, <2>1, <2>2 DEF CreateWorkspace, TypeOK, OffersHaveAccounts, NoOfferIntoArchived
<1>2. ASSUME NEW w \in Spaces, JoinWorkspace(p, w)
      PROVE  Ways'
  <2>1. w \in Spaces /\ w \notin archived /\ w # 0 /\ state[p] # "absent"
    BY <1>2 DEF JoinWorkspace, Reachable, Existing, Acting
  <2>2. TypeOK'
    BY <1>2, <2>1 DEF JoinWorkspace, TypeOK, spaceVars
  <2> QED
    BY <1>2, <2>1, <2>2
    DEF JoinWorkspace, TypeOK, OffersHaveAccounts, NoOfferIntoArchived, spaceVars
<1>3. ASSUME NEW w \in Spaces, LeaveWorkspace(p, w)
      PROVE  Ways'
  <2>1. PICK d \in Spaces : Destination(p, w, d) /\ MoveOut(p, w, d)
    BY <1>3 DEF LeaveWorkspace, Depart
  <2>2. d \notin archived /\ d # 0 /\ state[p] # "absent"
    BY <1>3, <2>1 DEF LeaveWorkspace, Destination, Existing, Acting
  <2>3. TypeOK'
    BY <2>1, <2>2 DEF MoveOut, TypeOK, spaceVars
  <2> QED
    BY <2>1, <2>2, <2>3 DEF MoveOut, TypeOK, OffersHaveAccounts, NoOfferIntoArchived, spaceVars
<1>4. ASSUME NEW w \in Spaces, ArchiveWorkspace(p, w)
      PROVE  Ways'
  BY <1>4
  DEF ArchiveWorkspace, OffersBeside, TypeOK, OffersHaveAccounts, NoOfferIntoArchived, Owned, Existing
<1> QED
  BY <1>1, <1>2, <1>3, <1>4 DEF OwnStep

LEMMA EnrolmentWays ==
  ASSUME Ways, NEW u \in Accounts, EnrolmentStep(u)
  PROVE  Ways'
<1> USE WorkspacesAssumption DEF Ways, Spaces
<1>1. ASSUME NEW p \in Accounts, NEW r \in {"student", "professor"}, NEW w \in Spaces,
             Invite(p, u, r, w)
      PROVE  Ways'
  <2>1. w \notin archived /\ w # 0
    BY <1>1 DEF Invite, Invitable, Existing
  <2>2. TypeOK'
    BY <1>1, <2>1 DEF Invite, TypeOK, spaceVars
  <2> QED
    BY <1>1, <2>1, <2>2
    DEF Invite, TypeOK, OffersHaveAccounts, NoOfferIntoArchived, spaceVars
<1>2. CASE Accept(u)
  BY <1>2 DEF Accept, TypeOK, OffersHaveAccounts, NoOfferIntoArchived, spaceVars
<1>3. CASE Lapse(u) \/ ResetPassword(u) \/ Enrol(u)
  BY <1>3
  DEF Lapse, ResetPassword, Enrol, TypeOK, OffersHaveAccounts, NoOfferIntoArchived, spaceVars
<1> QED
  BY <1>1, <1>2, <1>3 DEF EnrolmentStep

LEMMA RosterWays ==
  ASSUME Ways, NEW p \in Accounts, NEW u \in Accounts, RosterStep(p, u)
  PROVE  Ways'
<1> USE WorkspacesAssumption DEF Ways, Spaces, Over, OffersHaveAccounts, NoOfferIntoArchived
<1>1. CASE Deactivate(p, u)
  BY <1>1 DEF Deactivate, TypeOK, spaceVars
<1>2. CASE Reactivate(p, u)
  <2>1. anchor[u] \in Spaces
    BY <1>2 DEF Reactivate, TypeOK
  <2> QED
    BY <1>2, <2>1 DEF Reactivate, TypeOK, spaceVars
<1>3. CASE RemoveStudent(p, u)
  BY <1>3 DEF RemoveStudent, TypeOK, spaceVars
<1>4. ASSUME NEW w \in Spaces, MoveStudent(p, u, w)
      PROVE  Ways'
  <2>1. w \notin archived /\ w # 0
    BY <1>4 DEF MoveStudent, Existing
  <2> QED
    BY <1>4, <2>1 DEF MoveStudent, TypeOK, spaceVars
<1> QED
  BY <1>1, <1>2, <1>3, <1>4 DEF RosterStep

LEMMA ShellWays ==
  ASSUME Ways, NEW u \in Accounts, ShellStep(u)
  PROVE  Ways' /\ shell' # 0
<1> USE WorkspacesAssumption
    DEF Ways, Spaces, Shell, OffersHaveAccounts, NoOfferIntoArchived
<1>1. CASE DemoteProfessor(u)
  BY <1>1 DEF DemoteProfessor, TypeOK, spaceVars
<1>2. CASE DeactivateProfessor(u)
  BY <1>2 DEF DeactivateProfessor, TypeOK, spaceVars
<1>3. CASE RecoverProfessor(u)
  BY <1>3 DEF RecoverProfessor, TypeOK, spaceVars
<1>4. ASSUME NEW v \in Accounts, TransferProfessor(u, v)
      PROVE  Ways' /\ shell' # 0
  <2>1. anchor[u] \in Spaces /\ u # v
    BY <1>4 DEF TransferProfessor, TypeOK
  <2>2. \A x \in Accounts :
          /\ anchor'[x] = IF x = v THEN anchor[u] ELSE anchor[x]
          /\ state'[x] = IF x = v THEN "active" ELSE IF x = u THEN "deactivated" ELSE state[x]
    BY <1>4, <2>1 DEF TransferProfessor, TypeOK
  <2>3. owner' \in [1 .. MaxSpaces -> Accounts] /\ role' \in [Accounts -> {"student", "professor"}]
    BY <1>4, <2>1 DEF TransferProfessor, TypeOK
  <2>4. /\ anchor' \in [Accounts -> 0 .. MaxSpaces]
        /\ state' \in [Accounts -> {"absent", "invited", "active", "deactivated"}]
    BY <1>4, <2>1 DEF TransferProfessor, TypeOK
  <2>5. member' \in [Accounts -> SUBSET (1 .. MaxSpaces)]
    BY <1>4, <2>1 DEF TransferProfessor, TypeOK
  <2>6. \A x \in Accounts : state'[x] = "absent" <=> anchor'[x] = 0
    BY <1>4, <2>1, <2>2 DEF TransferProfessor, TypeOK
  <2>7. shell' \in 0 .. MaxShell /\ shell' # 0
    BY <1>4 DEF TransferProfessor, TypeOK
  <2>8. TypeOK'
    BY <1>4, <2>3, <2>4, <2>5, <2>6, <2>7 DEF TransferProfessor, TypeOK
  <2>9. \A x \in offers' : x \in offers /\ anchor'[x] = anchor[x] /\ state'[x] # "absent"
    BY <1>4, <2>1, <2>2 DEF TransferProfessor, TypeOK
  <2>10. archived' = archived
    BY <1>4 DEF TransferProfessor
  <2> QED
    BY <2>7, <2>8, <2>9, <2>10
<1> QED
  BY <1>1, <1>2, <1>3, <1>4 DEF ShellStep

-----------------------------------------------------------------------------
(* Where accounts belong, as long as the shell was not used. *)

LEMMA OwnSeats ==
  ASSUME Inv, shell = 0, NEW p \in Accounts, OwnStep(p)
  PROVE  Seats'
<1> USE DEF Inv, Seats, ArchivedIsEmpty, BelongsWhereItWorks, DormantAtHome, Active, Acting
<1>1. CASE CreateWorkspace(p)
  BY <1>1 DEF CreateWorkspace, TypeOK, Spaces
<1>2. ASSUME NEW w \in Spaces, JoinWorkspace(p, w)
      PROVE  Seats'
  BY <1>2 DEF JoinWorkspace, Reachable, TypeOK, Existing, spaceVars
<1>3. ASSUME NEW w \in Spaces, LeaveWorkspace(p, w)
      PROVE  Seats'
  <2>1. PICK d \in Spaces : Destination(p, w, d) /\ MoveOut(p, w, d)
    BY <1>3 DEF LeaveWorkspace, Depart
  <2> QED
    BY <1>3, <2>1 DEF LeaveWorkspace, Destination, MoveOut, TypeOK, Existing, spaceVars
<1>4. ASSUME NEW w \in Spaces, ArchiveWorkspace(p, w)
      PROVE  Seats'
  BY <1>4 DEF ArchiveWorkspace, OffersBeside, TypeOK
<1> QED
  BY <1>1, <1>2, <1>3, <1>4 DEF OwnStep

LEMMA EnrolmentSeats ==
  ASSUME Inv, shell = 0, NEW u \in Accounts, EnrolmentStep(u)
  PROVE  Seats'
<1> USE DEF Inv, Seats, ArchivedIsEmpty, BelongsWhereItWorks, DormantAtHome, Active
<1>1. ASSUME NEW p \in Accounts, NEW r \in {"student", "professor"}, NEW w \in Spaces,
             Invite(p, u, r, w)
      PROVE  Seats'
  <2>1. member[u] \subseteq {w}
    BY <1>1 DEF Invite, Invitable, Existing, TypeOK, Spaces
  <2> QED
    BY <1>1, <2>1 DEF Invite, TypeOK, spaceVars
<1>2. CASE Accept(u)
  BY <1>2 DEF Accept, TypeOK, OffersHaveAccounts, NoOfferIntoArchived, spaceVars
<1>3. CASE Lapse(u) \/ ResetPassword(u) \/ Enrol(u)
  BY <1>3 DEF Lapse, ResetPassword, Enrol, TypeOK, spaceVars
<1> QED
  BY <1>1, <1>2, <1>3 DEF EnrolmentStep

LEMMA RosterSeats ==
  ASSUME Inv, shell = 0, NEW p \in Accounts, NEW u \in Accounts, RosterStep(p, u)
  PROVE  Seats'
<1> USE DEF Inv, Seats, ArchivedIsEmpty, BelongsWhereItWorks, DormantAtHome, Active, Over, Acting
<1>1. CASE Deactivate(p, u)
  BY <1>1 DEF Deactivate, TypeOK, spaceVars
<1>2. CASE Reactivate(p, u)
  <2>1. anchor[u] \notin archived
    BY <1>2 DEF Reactivate, TypeOK
  <2>2. member'[u] = {anchor[u]}
    BY <1>2 DEF Reactivate, TypeOK
  <2> QED
    BY <1>2, <2>1, <2>2 DEF Reactivate, TypeOK, spaceVars
<1>3. CASE RemoveStudent(p, u)
  BY <1>3 DEF RemoveStudent, TypeOK, spaceVars
<1>4. ASSUME NEW w \in Spaces, MoveStudent(p, u, w)
      PROVE  Seats'
  <2>1. member'[u] = {w} /\ w \notin archived
    BY <1>4 DEF MoveStudent, TypeOK, Existing
  <2> QED
    BY <1>4, <2>1 DEF MoveStudent, TypeOK, spaceVars
<1> QED
  BY <1>1, <1>2, <1>3, <1>4 DEF RosterStep

LEMMA NextInv == Inv /\ [Next]_vars => Inv'
<1> SUFFICES ASSUME Inv, [Next]_vars PROVE Inv'
  OBVIOUS
<1>1. CASE UNCHANGED vars
  BY <1>1
  DEF vars, spaceVars, accountVars, Inv, TypeOK, OffersHaveAccounts, NoOfferIntoArchived, Seats,
      ArchivedIsEmpty, BelongsWhereItWorks, DormantAtHome, Active
<1>2. CASE RouteStep
  <2>1. shell' = shell
    BY <1>2
    DEF RouteStep, OwnStep, EnrolmentStep, RosterStep, CreateWorkspace, JoinWorkspace,
        LeaveWorkspace, Depart, MoveOut, ArchiveWorkspace, Invite, Accept, Lapse, ResetPassword,
        Enrol, Deactivate, Reactivate, RemoveStudent, MoveStudent
  <2>2. Ways'
    BY <1>2, OwnWays, EnrolmentWays, RosterWays DEF RouteStep, Inv, Ways
  <2>3. CASE shell = 0
    BY <1>2, <2>2, <2>3, OwnSeats, EnrolmentSeats, RosterSeats DEF RouteStep, Inv, Ways
  <2>4. CASE shell # 0
    BY <2>1, <2>2, <2>4
    DEF Inv, Ways, Seats, ArchivedIsEmpty, BelongsWhereItWorks, DormantAtHome
  <2> QED
    BY <2>3, <2>4
<1>3. ASSUME NEW u \in Accounts, ShellStep(u)
      PROVE  Inv'
  BY <1>3, ShellWays
  DEF Inv, Ways, Seats, ArchivedIsEmpty, BelongsWhereItWorks, DormantAtHome
<1> QED
  BY <1>1, <1>2, <1>3 DEF Next

LEMMA Invariance == Spec => []Inv
  BY InitInv, NextInv, PTL DEF Spec

-----------------------------------------------------------------------------
(* The theorems. *)

\* Types; an account has an anchor, whatever is left, moved or transferred.
THEOREM TypeCorrect == Spec => []TypeOK
  BY Invariance, PTL DEF Inv

\* No sequence of routes brings an active account into an archived workspace.
THEOREM ArchivedStaysEmpty == Spec => []ArchivedIsEmpty
  BY Invariance, PTL DEF Inv, Seats

\* The anchor is a membership, and a student's only one.
THEOREM AnchorIsMembership == Spec => []BelongsWhereItWorks
  BY Invariance, PTL DEF Inv, Seats

\* Nobody can accept an invitation into an archived workspace.
THEOREM NoWayIntoArchived == Spec => []NoOfferIntoArchived
  BY Invariance, PTL DEF Inv

\* A step that takes no active professor from w keeps one there.
LEMMA StaysProfessor ==
  ASSUME NEW w \in Spaces, Professors(w) \subseteq Professors(w)'
  PROVE  Keeps(w)
  BY DEF Keeps

LEMMA RouteKeeps ==
  ASSUME TypeOK, RouteStep, NEW w \in Spaces
  PROVE  Keeps(w)
<1> USE DEF Professors, Active, Acting, TypeOK
<1>1. ASSUME NEW p \in Accounts, OwnStep(p)
      PROVE  Keeps(w)
  <2>1. CASE CreateWorkspace(p)
    BY <2>1, StaysProfessor DEF CreateWorkspace
  <2>2. ASSUME NEW x \in Spaces, JoinWorkspace(p, x) \/ ArchiveWorkspace(p, x)
        PROVE  Keeps(w)
    BY <2>2, StaysProfessor DEF JoinWorkspace, ArchiveWorkspace
  <2>3. ASSUME NEW x \in Spaces, LeaveWorkspace(p, x)
        PROVE  Keeps(w)
    <3>1. PICK d \in Spaces : MoveOut(p, x, d)
      BY <2>3 DEF LeaveWorkspace, Depart
    <3>2. /\ state' = state /\ role' = role
          /\ \A q \in Accounts : member'[q] = IF q = p THEN member[q] \ {x} ELSE member[q]
      BY <3>1 DEF MoveOut
    <3>3. CASE w # x
      BY <3>2, <3>3, StaysProfessor
    <3>4. CASE w = x
      BY <2>3, <3>2, <3>4 DEF LeaveWorkspace, Keeps
    <3> QED
      BY <3>3, <3>4
  <2> QED
    BY <1>1, <2>1, <2>2, <2>3 DEF OwnStep
<1>2. ASSUME NEW u \in Accounts, EnrolmentStep(u)
      PROVE  Keeps(w)
  BY <1>2, StaysProfessor DEF EnrolmentStep, Invite, Accept, Lapse, ResetPassword, Enrol
<1>3. ASSUME NEW p \in Accounts, NEW u \in Accounts, RosterStep(p, u)
      PROVE  Keeps(w)
  BY <1>3, StaysProfessor DEF RosterStep, Deactivate, Reactivate, RemoveStudent, MoveStudent, Over
<1> QED
  BY <1>1, <1>2, <1>3 DEF RouteStep

\* No route leaves active accounts behind without the professor they had.
THEOREM RoutesKeep == Spec => RoutesKeepProfessor
<1>1. TypeOK /\ [Next]_vars => [(\E w \in Spaces : ~Keeps(w)) => ~RouteStep]_vars
  BY RouteKeeps
<1> QED
  BY <1>1, TypeCorrect, PTL DEF Spec, RoutesKeepProfessor

-----------------------------------------------------------------------------
(* The budget of a workspace. *)

\* What a run may still add to this month's ledger: the rows it flushed, and
\* the call it was permitted.
PotOf(x) == IF x.dated # "now" THEN 0 ELSE x.own + (IF x.pc = "calling" THEN Dearest ELSE 0)
Pot      == [r \in Runs |-> PotOf(run[r])]

\* The same in units, one pair for each, so that they can be counted.
Units(pot) == {u \in Runs \X (1 .. Overspend) : u[2] <= pot[u[1]]}
Pots       == [Runs -> 0 .. Overspend]

\* A run that was permitted a call had spent less than the budget, so its pot
\* never exceeds one overspend; what is committed and what is in the pots come
\* to one overspend for each run at the most.  The ledger alone would not be
\* inductive: a commit adds what a pot held.
PotsWithinBudget ==
    /\ GatewayTypeOK
    /\ \A r \in Runs : run[r].pc = "idle" => run[r].own = 0
    /\ Pot \in Pots
    /\ ledger["workspace"] + Cardinality(Units(Pot)) <= Cardinality(Runs) * Overspend

LEMMA OverspendType == Overspend \in Nat /\ Budget <= Overspend + 1 /\ Dearest \in Nat
  BY GatewayAssumption DEF Overspend

LEMMA UnitsFinite ==
  ASSUME NEW pot \in Pots
  PROVE  /\ IsFiniteSet(Units(pot))
         /\ Cardinality(Units(pot)) \in Nat
<1>1. IsFiniteSet(1 .. Overspend)
  BY OverspendType, FS_Interval
<1>2. IsFiniteSet(Runs \X (1 .. Overspend))
  BY <1>1, GatewayAssumption, FS_Product
<1>3. Units(pot) \in SUBSET (Runs \X (1 .. Overspend))
  BY DEF Units
<1> QED
  BY <1>2, <1>3, FS_Subset, FS_CardinalityType

\* Less in every pot is fewer units.
LEMMA UnitsLess ==
  ASSUME NEW f \in Pots, NEW g \in Pots, \A r \in Runs : f[r] <= g[r]
  PROVE  Cardinality(Units(f)) <= Cardinality(Units(g))
<1>1. \A u \in Units(f) : u[2] \in Int /\ u[1] \in Runs /\ f[u[1]] \in Int /\ g[u[1]] \in Int
  BY DEF Units, Pots
<1>2. Units(f) \in SUBSET Units(g)
  BY <1>1 DEF Units
<1> QED
  BY <1>2, UnitsFinite, FS_Subset

\* Emptying a pot takes away as many units as it held.
LEMMA UnitsOfPot ==
  ASSUME NEW pot \in Pots, NEW r \in Runs
  PROVE  /\ [pot EXCEPT ![r] = 0] \in Pots
         /\ Cardinality(Units(pot)) = Cardinality(Units([pot EXCEPT ![r] = 0])) + pot[r]
<1> DEFINE rest == [pot EXCEPT ![r] = 0]
           mine == {r} \X (1 .. pot[r])
<1>1. rest \in Pots /\ pot[r] \in 0 .. Overspend /\ pot[r] \in Int /\ 0 \in Int
  BY OverspendType DEF Pots
<1>2. Units(pot) = Units(rest) \cup mine
  <2>1. ASSUME NEW u \in Units(pot)
        PROVE  u \in Units(rest) \cup mine
    <3>1. u \in Runs \X (1 .. Overspend) /\ u[2] <= pot[u[1]]
      BY DEF Units
    <3>2. CASE u[1] = r
      BY <1>1, <3>1, <3>2, OverspendType
    <3>3. CASE u[1] # r
      <4>1. rest[u[1]] = pot[u[1]]
        BY <3>1, <3>3 DEF Pots
      <4> QED
        BY <3>1, <4>1 DEF Units
    <3> QED
      BY <3>2, <3>3
  <2>2. ASSUME NEW u \in Units(rest)
        PROVE  u \in Units(pot)
    <3>1. u \in Runs \X (1 .. Overspend) /\ u[2] <= rest[u[1]]
      BY DEF Units
    <3>2. u[1] # r /\ rest[u[1]] = pot[u[1]]
      BY <3>1, OverspendType DEF Pots
    <3> QED
      BY <3>1, <3>2 DEF Units
  <2>3. mine \subseteq Units(pot)
    BY <1>1, OverspendType DEF Units
  <2> QED
    BY <2>1, <2>2, <2>3
<1>3. Units(rest) \cap mine = {}
  BY <1>1 DEF Units, Pots
<1>4. IsFiniteSet(mine) /\ Cardinality(mine) = pot[r]
  <2>1. IsFiniteSet(1 .. pot[r]) /\ Cardinality(1 .. pot[r]) = pot[r]
    BY <1>1, FS_Interval
  <2>2. IsFiniteSet({r}) /\ Cardinality({r}) = 1
    BY FS_Singleton
  <2>3. IsFiniteSet(mine) /\ Cardinality(mine) = Cardinality({r}) * Cardinality(1 .. pot[r])
    BY <2>1, <2>2, FS_Product, Zenon
  <2> QED
    BY <1>1, <2>1, <2>2, <2>3
<1>5. IsFiniteSet(Units(rest)) /\ Cardinality(Units(rest)) \in Nat
  BY <1>1, UnitsFinite
<1>6. Cardinality(Units(rest) \cap mine) = 0
  BY <1>3, FS_EmptySet
<1> HIDE DEF mine, rest
<1>7. Cardinality(Units(rest) \cup mine)
        = Cardinality(Units(rest)) + Cardinality(mine) - Cardinality(Units(rest) \cap mine)
  BY <1>4, <1>5, FS_Union, Zenon
<1>8. Cardinality(Units(pot)) = Cardinality(Units(rest)) + pot[r]
  BY <1>1, <1>2, <1>4, <1>5, <1>6, <1>7
<1> QED
  BY <1>1, <1>8 DEF rest

\* The pots of the others hold at most one overspend each.
LEMMA OthersUnits ==
  ASSUME NEW pot \in Pots, NEW r \in Runs
  PROVE  Cardinality(Units(pot)) + Overspend <= Cardinality(Runs) * Overspend + pot[r]
<1> DEFINE full == [q \in Runs |-> Overspend]
<1>1. full \in Pots /\ full[r] = Overspend
  BY OverspendType DEF Pots
<1>2. Cardinality(Units(full)) = Cardinality(Runs) * Overspend
  <2>1. Units(full) = Runs \X (1 .. Overspend)
    BY OverspendType DEF Units
  <2>2. IsFiniteSet(1 .. Overspend) /\ Cardinality(1 .. Overspend) = Overspend
    BY OverspendType, FS_Interval
  <2> QED
    BY <2>1, <2>2, GatewayAssumption, FS_Product
<1> HIDE DEF full
<1> DEFINE less == [pot EXCEPT ![r] = 0]
           rest == [full EXCEPT ![r] = 0]
<1>3. /\ less \in Pots
      /\ Cardinality(Units(pot)) = Cardinality(Units(less)) + pot[r]
  BY UnitsOfPot
<1>4. /\ rest \in Pots
      /\ Cardinality(Units(full)) = Cardinality(Units(rest)) + full[r]
  BY <1>1, UnitsOfPot
<1>5. \A q \in Runs : less[q] <= rest[q]
  BY <1>1, OverspendType DEF Pots, full
<1> HIDE DEF less, rest
<1>6. Cardinality(Units(less)) <= Cardinality(Units(rest))
  BY <1>3, <1>4, <1>5, UnitsLess
<1>7. /\ Cardinality(Units(less)) \in Nat /\ Cardinality(Units(rest)) \in Nat
      /\ pot[r] \in Nat
  BY <1>3, <1>4, UnitsFinite, OverspendType DEF Pots
<1> QED
  BY <1>1, <1>2, <1>3, <1>4, <1>6, <1>7, OverspendType

LEMMA RunType ==
  ASSUME GatewayTypeOK
  PROVE  /\ \A r \in Runs :
               /\ run[r] \in RunRecords /\ run[r].own \in Nat /\ run[r].project \in Projects
               /\ run[r].dated \in {"now", "last month"} /\ Own(r) \in Nat
         /\ \A s \in Scopes : ledger[s] \in Nat
<1>1. \A r \in Runs : run[r] \in RunRecords
  BY DEF GatewayTypeOK
<1>2. \A r \in Runs : /\ run[r].own \in Nat /\ run[r].project \in Projects
                     /\ run[r].dated \in {"now", "last month"}
  BY <1>1 DEF RunRecords
<1> QED
  BY <1>1, <1>2 DEF GatewayTypeOK, Own

LEMMA IdleType == Idle \in RunRecords
  BY GatewayAssumption DEF Idle, RunRecords, Steps

LEMMA CostType == \A c \in Costs : c \in Nat /\ c <= Dearest
  BY GatewayAssumption

\* A step of one run keeps the types when the record it writes is one.
LEMMA OneRunTypes ==
  ASSUME GatewayTypeOK, share' = share, ledger' \in [Scopes -> Nat],
         NEW r \in Runs, NEW new \in RunRecords, run' = [run EXCEPT ![r] = new]
  PROVE  GatewayTypeOK'
  BY DEF GatewayTypeOK

LEMMA GatewayTypeStep == GatewayTypeOK /\ [GatewayNext]_gatewayVars => GatewayTypeOK'
<1> SUFFICES ASSUME GatewayTypeOK, [GatewayNext]_gatewayVars
             PROVE  GatewayTypeOK'
  OBVIOUS
<1>1. /\ \A r \in Runs : run[r] \in RunRecords
      /\ ledger \in [Scopes -> Nat]
  BY RunType DEF GatewayTypeOK
<1>2. 1 \in 0 .. MaxTries
  <2>1. MaxTries \in Nat \ {0}
    BY GatewayAssumption
  <2> QED
    BY <2>1
<1>3. ASSUME NEW r \in Runs, NEW p \in Projects, Start(r, p)
      PROVE  GatewayTypeOK'
  <2>1. [Idle EXCEPT !.pc = "deciding", !.project = p] \in RunRecords
    BY IdleType DEF RunRecords
  <2> QED
    BY <1>1, <1>3, <2>1, OneRunTypes DEF Start
<1>4. ASSUME NEW r \in Runs, Decide(r)
      PROVE  GatewayTypeOK'
  <2> DEFINE new == [run[r] EXCEPT !.pc = IF Allowed(r) THEN "calling" ELSE "delayed_budget",
                                   !.attempt = 1]
  <2>1. new \in RunRecords
    BY <1>1, <1>2 DEF RunRecords, Results
  <2>2. run' = [run EXCEPT ![r] = new]
    BY <1>4 DEF Decide
  <2> QED
    BY <1>1, <1>4, <2>1, <2>2, OneRunTypes DEF Decide
<1>5. ASSUME NEW r \in Runs, Retry(r)
      PROVE  GatewayTypeOK'
  <2>1. run[r].attempt \in 0 .. MaxTries
    BY <1>1 DEF RunRecords
  <2>2. run[r].attempt + 1 \in 0 .. MaxTries
    BY <1>2, <1>5, <2>1, GatewayAssumption DEF Retry
  <2>3. [run[r] EXCEPT !.attempt = @ + 1] \in RunRecords
    BY <1>1, <2>2 DEF RunRecords
  <2> QED
    BY <1>1, <1>5, <2>3, OneRunTypes DEF Retry
<1>6. ASSUME NEW r \in Runs, Fail(r)
      PROVE  GatewayTypeOK'
  <2>1. [run[r] EXCEPT !.pc = "partial"] \in RunRecords
    BY <1>1 DEF RunRecords, Results
  <2> QED
    BY <1>1, <1>6, <2>1, OneRunTypes DEF Fail
<1>7. ASSUME NEW r \in Runs, NEW cost \in Costs, Answer(r, cost) \/ Unparsed(r, cost)
      PROVE  GatewayTypeOK'
  <2>1. run[r].step \in 1 .. 3 /\ run[r].own \in Nat
    BY <1>1 DEF RunRecords, Steps
  <2>2. run[r].own + cost \in Nat
    BY <2>1, CostType
  <2>3. [run[r] EXCEPT !.own = @ + cost] \in RunRecords
    BY <1>1, <2>2 DEF RunRecords
  <2>4. CASE Answer(r, cost)
    <3> DEFINE new == [run[r] EXCEPT !.own = @ + cost,
                                     !.pc = IF run[r].step = 3 THEN "completed" ELSE "deciding",
                                     !.step = IF @ = 3 THEN @ ELSE @ + 1]
    <3>1. (IF run[r].step = 3 THEN run[r].step ELSE run[r].step + 1) \in Steps
      BY <2>1 DEF Steps
    <3>2. new \in RunRecords
      BY <1>1, <2>2, <3>1 DEF RunRecords, Results
    <3>3. run' = [run EXCEPT ![r] = new]
      BY <1>1, <2>4 DEF Answer, Recorded, GatewayTypeOK, RunRecords
    <3> QED
      BY <1>1, <2>4, <3>2, <3>3, OneRunTypes DEF Answer
  <2>5. CASE Unparsed(r, cost)
    <3> DEFINE new == [run[r] EXCEPT !.own = @ + cost, !.pc = "partial"]
    <3>1. new \in RunRecords
      BY <1>1, <2>2 DEF RunRecords, Results
    <3>2. run' = [run EXCEPT ![r] = new]
      BY <1>1, <2>5 DEF Unparsed, Recorded, GatewayTypeOK, RunRecords
    <3> QED
      BY <1>1, <2>5, <3>1, <3>2, OneRunTypes DEF Unparsed
  <2> QED
    BY <1>7, <2>4, <2>5
<1>8. ASSUME NEW r \in Runs, Commit(r)
      PROVE  GatewayTypeOK'
  <2>1. Own(r) \in Nat /\ \A s \in Scopes : ledger[s] \in Nat
    BY RunType
  <2>2. \A s \in Scopes : ledger[s] \in Nat /\ Spent(r, s) \in Nat
    BY <2>1 DEF Spent
  <2>3. ledger' \in [Scopes -> Nat]
    BY <1>8, <2>2 DEF Commit
  <2> QED
    BY <1>1, <1>8, <2>3, IdleType, OneRunTypes DEF Commit
<1>9. ASSUME NEW r \in Runs, Abort(r)
      PROVE  GatewayTypeOK'
  BY <1>1, <1>9, IdleType, OneRunTypes DEF Abort
<1>10. ASSUME NEW p \in Projects, NEW limit \in Shares \cup {NoLimit}, SetBudgets(p, limit)
       PROVE  GatewayTypeOK'
  BY <1>10 DEF SetBudgets, GatewayTypeOK
<1>11. CASE NewMonth
  <2>1. \A r \in Runs : [run[r] EXCEPT !.dated = "last month"] \in RunRecords
    BY <1>1 DEF RunRecords
  <2> QED
    BY <1>11, <2>1, IdleType DEF NewMonth, GatewayTypeOK
<1>12. CASE UNCHANGED gatewayVars
  BY <1>12 DEF gatewayVars, GatewayTypeOK
<1> QED
  BY <1>3, <1>4, <1>5, <1>6, <1>7, <1>8, <1>9, <1>10, <1>11, <1>12 DEF GatewayNext, Proceed

LEMMA PotOfType == \A x \in RunRecords : PotOf(x) \in Nat
<1> SUFFICES ASSUME NEW x \in RunRecords
             PROVE  PotOf(x) \in Nat
  OBVIOUS
<1>1. x.own \in Nat
  BY DEF RunRecords
<1> QED
  BY <1>1, OverspendType DEF PotOf

\* A step that puts nothing into a pot and commits nothing keeps the bound.
LEMMA PotsShrink ==
  ASSUME PotsWithinBudget, GatewayTypeOK', ledger'["workspace"] <= ledger["workspace"],
         \A r \in Runs : /\ run'[r].pc = "idle" => run'[r].own = 0
                        /\ PotOf(run'[r]) <= PotOf(run[r])
  PROVE  PotsWithinBudget'
<1> DEFINE now  == Pot
           then == [r \in Runs |-> PotOf(run'[r])]
<1>1. GatewayTypeOK /\ GatewayTypeOK' /\ Pot' = then
  BY DEF PotsWithinBudget, Pot
<1>2. /\ \A r \in Runs : run[r] \in RunRecords /\ run'[r] \in RunRecords
      /\ ledger["workspace"] \in Nat /\ ledger'["workspace"] \in Nat
  BY <1>1 DEF GatewayTypeOK, Scopes
<1>3. /\ now \in Pots
      /\ ledger["workspace"] + Cardinality(Units(now)) <= Cardinality(Runs) * Overspend
  BY DEF PotsWithinBudget
<1>4. \A r \in Runs : /\ now[r] \in 0 .. Overspend /\ then[r] \in Nat /\ then[r] <= now[r]
  BY <1>2, <1>3, PotOfType DEF Pots, Pot
<1>5. then \in Pots
  <2>1. \A r \in Runs : then[r] \in 0 .. Overspend
    BY <1>4, OverspendType
  <2> QED
    BY <2>1 DEF Pots
<1> HIDE DEF now, then
<1>6. Cardinality(Units(then)) <= Cardinality(Units(now))
  BY <1>3, <1>4, <1>5, UnitsLess
<1>7. Cardinality(Units(then)) \in Nat /\ Cardinality(Units(now)) \in Nat
  BY <1>3, <1>5, UnitsFinite
<1>8. Cardinality(Runs) * Overspend \in Nat
  BY GatewayAssumption, OverspendType, FS_CardinalityType
<1>9. ledger'["workspace"] + Cardinality(Units(then)) <= Cardinality(Runs) * Overspend
  BY <1>2, <1>3, <1>6, <1>7, <1>8
<1> QED
  BY <1>1, <1>5, <1>9 DEF PotsWithinBudget

LEMMA OneRunShrinks ==
  ASSUME PotsWithinBudget, GatewayTypeOK', ledger' = ledger,
         NEW r \in Runs, NEW new \in RunRecords, run' = [run EXCEPT ![r] = new],
         new.pc = "idle" => new.own = 0,
         PotOf(new) <= PotOf(run[r])
  PROVE  PotsWithinBudget'
<1>1. /\ \A q \in Runs : run[q] \in RunRecords /\ run'[q] = IF q = r THEN new ELSE run[q]
      /\ \A q \in Runs : run[q].pc = "idle" => run[q].own = 0
      /\ ledger["workspace"] \in Nat
  BY DEF PotsWithinBudget, GatewayTypeOK, Scopes
<1>2. \A q \in Runs : PotOf(run[q]) \in Nat
  BY <1>1, PotOfType
<1>3. \A q \in Runs : /\ run'[q].pc = "idle" => run'[q].own = 0
                     /\ PotOf(run'[q]) <= PotOf(run[q])
  BY <1>1, <1>2
<1> QED
  BY <1>1, <1>3, PotsShrink

\* A run that is permitted a call has spent, with the ledger, less than the
\* budget: with the call it stays within one overspend.
LEMMA PermittedInBudget ==
  ASSUME PotsWithinBudget, GatewayTypeOK', NEW r \in Runs, Decide(r), Allowed(r)
  PROVE  PotsWithinBudget'
<1> DEFINE now  == Pot
           then == [q \in Runs |-> PotOf(run'[q])]
<1>1. /\ GatewayTypeOK /\ now \in Pots /\ Pot' = then /\ ledger' = ledger
      /\ \A q \in Runs : run[q].pc = "idle" => run[q].own = 0
  BY DEF PotsWithinBudget, Pot, Decide
<1>2. /\ \A q \in Runs : run[q] \in RunRecords
      /\ ledger["workspace"] \in Nat /\ Own(r) \in Nat
  BY <1>1, RunType DEF GatewayTypeOK, Scopes
<1>3. /\ \A q \in Runs \ {r} : run'[q] = run[q]
      /\ run'[r].own = run[r].own /\ run'[r].dated = run[r].dated /\ run'[r].pc = "calling"
  BY <1>1, <1>2 DEF Decide, GatewayTypeOK, RunRecords
<1>4. ledger["workspace"] + Own(r) < Budget
  <2>1. "workspace" \in {run[r].project, "workspace"} /\ Limit("workspace") = Budget
    BY DEF Limit
  <2>2. Budget # NoLimit /\ Budget \in Nat
    BY GatewayAssumption
  <2>3. ~Refuses(Spent(r, "workspace"), Budget)
    BY <2>1, <2>2 DEF Allowed
  <2> QED
    BY <1>2, <2>2, <2>3 DEF Refuses, Spent
<1>5. then[r] \in Nat /\ then[r] <= Own(r) + Dearest
  BY <1>2, <1>3, OverspendType DEF PotOf, Own
<1>6. ledger["workspace"] + then[r] <= Overspend
  BY <1>2, <1>4, <1>5, GatewayAssumption, OverspendType DEF Overspend
<1>7. then \in Pots
  <2>1. \A q \in Runs \ {r} : then[q] = now[q] /\ now[q] \in 0 .. Overspend
    BY <1>1, <1>3 DEF Pot, Pots
  <2>2. then[r] \in 0 .. Overspend
    BY <1>2, <1>5, <1>6, OverspendType
  <2>3. \A q \in Runs : then[q] \in 0 .. Overspend
    BY <2>1, <2>2
  <2> QED
    BY <2>3 DEF Pots
<1> HIDE DEF now, then
<1>8. Cardinality(Units(then)) + Overspend <= Cardinality(Runs) * Overspend + then[r]
  BY <1>7, OthersUnits
<1>9. Cardinality(Runs) * Overspend \in Nat /\ Cardinality(Units(then)) \in Nat
  BY <1>7, UnitsFinite, GatewayAssumption, OverspendType, FS_CardinalityType
<1>10. ledger'["workspace"] + Cardinality(Units(then)) <= Cardinality(Runs) * Overspend
  BY <1>1, <1>2, <1>5, <1>6, <1>8, <1>9, OverspendType
<1>11. \A q \in Runs : run'[q].pc = "idle" => run'[q].own = 0
  BY <1>1, <1>3
<1> QED
  BY <1>1, <1>7, <1>10, <1>11 DEF PotsWithinBudget

\* A commit moves what the run's pot held into the ledger.
LEMMA CommitInBudget ==
  ASSUME PotsWithinBudget, GatewayTypeOK', NEW r \in Runs, Commit(r)
  PROVE  PotsWithinBudget'
<1> DEFINE now  == Pot
           then == [now EXCEPT ![r] = 0]
<1>1. /\ GatewayTypeOK /\ now \in Pots
      /\ ledger["workspace"] + Cardinality(Units(now)) <= Cardinality(Runs) * Overspend
      /\ \A q \in Runs : run[q].pc = "idle" => run[q].own = 0
  BY DEF PotsWithinBudget
<1>2. /\ ledger["workspace"] \in Nat /\ Own(r) \in Nat
      /\ \A q \in Runs : run'[q] = IF q = r THEN Idle ELSE run[q]
  BY <1>1, RunType DEF GatewayTypeOK, Scopes, Commit
<1>3. Pot' = then
  <2>1. PotOf(Idle) = 0
    BY DEF PotOf, Idle
  <2> QED
    BY <1>2, <2>1 DEF Pot
<1>4. now[r] = Own(r)
  <2>1. run[r].pc # "calling"
    BY DEF Commit, Results
  <2> QED
    BY <1>2, <2>1 DEF Pot, PotOf, Own
<1>5. ledger'["workspace"] = ledger["workspace"] + Own(r)
  BY DEF Commit, Spent, Scopes
<1> HIDE DEF now
<1>6. /\ then \in Pots
      /\ Cardinality(Units(now)) = Cardinality(Units(then)) + now[r]
  BY <1>1, UnitsOfPot
<1> HIDE DEF then
<1>7. Cardinality(Units(then)) \in Nat /\ Cardinality(Runs) * Overspend \in Nat
  BY <1>6, UnitsFinite, GatewayAssumption, OverspendType, FS_CardinalityType
<1>8. ledger'["workspace"] + Cardinality(Units(then)) <= Cardinality(Runs) * Overspend
  BY <1>1, <1>2, <1>4, <1>5, <1>6, <1>7
<1>9. Idle.own = 0
  BY DEF Idle
<1>10. \A q \in Runs : run'[q].pc = "idle" => run'[q].own = 0
  BY <1>1, <1>2, <1>9
<1> QED
  BY <1>3, <1>6, <1>8, <1>10 DEF PotsWithinBudget

LEMMA GatewayStep == PotsWithinBudget /\ [GatewayNext]_gatewayVars => PotsWithinBudget'
<1> SUFFICES ASSUME PotsWithinBudget, [GatewayNext]_gatewayVars
             PROVE  PotsWithinBudget'
  OBVIOUS
<1>1. /\ GatewayTypeOK /\ GatewayTypeOK'
      /\ \A r \in Runs : run[r].pc = "idle" => run[r].own = 0
  BY GatewayTypeStep DEF PotsWithinBudget
<1>2. /\ \A r \in Runs : /\ run[r] \in RunRecords /\ run'[r] \in RunRecords
                         /\ run[r].own \in Nat /\ PotOf(run[r]) \in Nat
      /\ ledger["workspace"] \in Nat
      /\ run \in [Runs -> RunRecords]
  BY <1>1, RunType, PotOfType DEF GatewayTypeOK, Scopes
<1>3. PotOf(Idle) = 0 /\ Idle.own = 0
  BY DEF PotOf, Idle
<1>4. ASSUME NEW r \in Runs, NEW p \in Projects, Start(r, p)
      PROVE  PotsWithinBudget'
  <2> DEFINE new == [Idle EXCEPT !.pc = "deciding", !.project = p]
  <2>1. new \in RunRecords
    BY IdleType DEF RunRecords
  <2>2. new.pc = "deciding" /\ PotOf(new) = 0
    BY DEF PotOf, Idle
  <2>3. run' = [run EXCEPT ![r] = new] /\ ledger' = ledger
    BY <1>4 DEF Start
  <2> HIDE DEF new
  <2>4. PotOf(new) <= PotOf(run[r])
    BY <1>2, <2>2
  <2> QED
    BY <1>1, <2>1, <2>2, <2>3, <2>4, OneRunShrinks
<1>5. ASSUME NEW r \in Runs, Decide(r), ~Allowed(r)
      PROVE  PotsWithinBudget'
  <2>1. /\ \A q \in Runs \ {r} : run'[q] = run[q]
        /\ run'[r].own = run[r].own /\ run'[r].dated = run[r].dated
        /\ run'[r].pc = "delayed_budget" /\ run[r].pc = "deciding" /\ ledger' = ledger
    BY <1>2, <1>5 DEF Decide, RunRecords
  <2>2. PotOf(run'[r]) = PotOf(run[r])
    BY <2>1 DEF PotOf
  <2> QED
    BY <1>1, <1>2, <2>1, <2>2, PotsShrink
<1>6. ASSUME NEW r \in Runs, Retry(r) \/ Fail(r)
      PROVE  PotsWithinBudget'
  <2>1. /\ \A q \in Runs \ {r} : run'[q] = run[q]
        /\ run'[r].own = run[r].own /\ run'[r].dated = run[r].dated
        /\ run'[r].pc \in {"calling", "partial"} /\ run[r].pc = "calling" /\ ledger' = ledger
    <3>1. CASE Retry(r)
      BY <1>2, <3>1 DEF Retry, RunRecords
    <3>2. CASE Fail(r)
      BY <1>2, <3>2 DEF Fail, RunRecords
    <3> QED
      BY <1>6, <3>1, <3>2
  <2>2. PotOf(run'[r]) <= PotOf(run[r])
    BY <1>2, <2>1, OverspendType DEF PotOf
  <2> QED
    BY <1>1, <1>2, <2>1, <2>2, PotsShrink
<1>7. ASSUME NEW r \in Runs, NEW cost \in Costs, Answer(r, cost) \/ Unparsed(r, cost)
      PROVE  PotsWithinBudget'
  <2>1. /\ \A q \in Runs \ {r} : run'[q] = run[q]
        /\ run'[r].own = run[r].own + cost /\ run'[r].dated = run[r].dated
        /\ run'[r].pc \in {"completed", "deciding", "partial"} /\ run[r].pc = "calling"
        /\ ledger' = ledger
    <3>1. CASE Answer(r, cost)
      BY <1>2, <3>1 DEF Answer, Recorded, RunRecords
    <3>2. CASE Unparsed(r, cost)
      BY <1>2, <3>2 DEF Unparsed, Recorded, RunRecords
    <3> QED
      BY <1>7, <3>1, <3>2
  <2>2. PotOf(run'[r]) <= PotOf(run[r])
    BY <1>2, <2>1, CostType, OverspendType DEF PotOf
  <2> QED
    BY <1>1, <1>2, <2>1, <2>2, PotsShrink
<1>8. ASSUME NEW r \in Runs, Abort(r)
      PROVE  PotsWithinBudget'
  <2>1. run' = [run EXCEPT ![r] = Idle] /\ ledger' = ledger
    BY <1>8 DEF Abort
  <2>2. PotOf(Idle) <= PotOf(run[r])
    BY <1>2, <1>3
  <2> QED
    BY <1>1, <1>3, <2>1, <2>2, IdleType, OneRunShrinks
<1>9. ASSUME NEW p \in Projects, NEW limit \in Shares \cup {NoLimit}, SetBudgets(p, limit)
      PROVE  PotsWithinBudget'
  BY <1>1, <1>2, <1>9, PotsShrink DEF SetBudgets
<1>10. CASE NewMonth
  <2>1. \A q \in Runs : \/ run'[q] = Idle
                        \/ run'[q].dated = "last month" /\ run'[q].pc # "idle"
    BY <1>2, <1>10 DEF NewMonth, RunRecords
  <2>2. ledger'["workspace"] = 0
    BY <1>10 DEF NewMonth, Scopes
  <2>3. \A q \in Runs : PotOf(run'[q]) = 0 /\ (run'[q].pc = "idle" => run'[q].own = 0)
    BY <1>3, <2>1 DEF PotOf
  <2> QED
    BY <1>1, <1>2, <2>2, <2>3, PotsShrink
<1>11. CASE UNCHANGED gatewayVars
  BY <1>1, <1>2, <1>11, PotsShrink DEF gatewayVars
<1> QED
  BY <1>1, <1>4, <1>5, <1>6, <1>7, <1>8, <1>9, <1>10, <1>11, PermittedInBudget, CommitInBudget
  DEF GatewayNext, Proceed

\* The analyses of a workspace spend at most one overspend each beyond what
\* they would be permitted one at a time, whatever fails, raises or commits in
\* between and however the project limits are set.
THEOREM SpendingIsBounded == GatewaySpec => []WithinBudget
<1>1. GatewayInit => PotsWithinBudget
  <2> SUFFICES ASSUME GatewayInit
               PROVE  PotsWithinBudget
    OBVIOUS
  <2>1. GatewayTypeOK
    BY GatewayAssumption, IdleType DEF GatewayInit, GatewayTypeOK
  <2>2. PICK now : now = Pot
    OBVIOUS
  <2>3. now = [r \in Runs |-> 0]
    BY <2>2 DEF GatewayInit, Pot, PotOf, Idle
  <2>4. now \in Pots
    BY <2>3, OverspendType DEF Pots
  <2>5. Units(now) = {}
    BY <2>3, OverspendType DEF Units
  <2>6. Cardinality(Units(now)) = 0 /\ ledger["workspace"] = 0
    BY <2>5, FS_EmptySet DEF GatewayInit, Scopes
  <2>7. Cardinality(Runs) * Overspend \in Nat
    BY GatewayAssumption, OverspendType, FS_CardinalityType
  <2> QED
    BY <2>1, <2>2, <2>4, <2>6, <2>7 DEF PotsWithinBudget, GatewayInit, Idle
<1>2. PotsWithinBudget => WithinBudget
  <2> SUFFICES ASSUME PotsWithinBudget
               PROVE  WithinBudget
    OBVIOUS
  <2>1. PICK now : now = Pot
    OBVIOUS
  <2>2. now \in Pots
    BY <2>1 DEF PotsWithinBudget
  <2>3. Cardinality(Units(now)) \in Nat /\ Cardinality(Runs) * Overspend \in Nat
        /\ ledger["workspace"] \in Nat
    BY <2>2, UnitsFinite, GatewayAssumption, OverspendType, FS_CardinalityType
    DEF PotsWithinBudget, GatewayTypeOK, Scopes
  <2> QED
    BY <2>1, <2>3 DEF PotsWithinBudget, WithinBudget
<1> QED
  BY <1>1, <1>2, GatewayStep, PTL DEF GatewaySpec

=============================================================================
