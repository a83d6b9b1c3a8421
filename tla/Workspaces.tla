----------------------------- MODULE Workspaces -----------------------------
(***************************************************************************)
(* Who belongs to which workspace, and in what role (identity/service.py): *)
(* invitation and acceptance, the professor's routes over students, a      *)
(* professor's own joining and leaving, archiving, and the break-glass     *)
(* commands of the host shell.                                             *)
(*                                                                         *)
(* One action is one request, a transaction of its own.  Requests run here *)
(* one after another: what is asked is where a long sequence of permitted  *)
(* calls can lead.  Sessions and tokens are left out, save that an open    *)
(* invitation is a way in.                                                 *)
(***************************************************************************)
EXTENDS Integers, FiniteSets

CONSTANTS
    Accounts,       \* e-mail addresses that may come to have an account
    Founder,        \* the account app.cli bootstrap names
    MaxSpaces,      \* bound: workspaces that are created
    MaxShell        \* bound: break-glass commands that are run

ASSUME WorkspacesAssumption ==
    Founder \in Accounts /\ MaxSpaces \in Nat \ {0} /\ MaxShell \in Nat

VARIABLES
    created,    \* workspaces 1 .. created exist, in the order of created_at
    owner,      \* workspaces.owner_id
    archived,   \* workspaces with archived_at
    role, state,
    anchor,     \* users.workspace_id: where the account works; 0 for no account
    member,     \* workspace_members: the workspaces an account belongs to
    password,   \* accounts with a password_hash
    offers,     \* accounts with an open invitation; it cascades with the anchor
    worked,     \* accounts with rows pinned to their anchor by a foreign key
    shell       \* how many break-glass commands were run

spaceVars   == <<created, owner, archived>>
accountVars == <<role, state, anchor, member, password, offers, worked>>
vars == <<spaceVars, accountVars, shell>>

Spaces == 1 .. MaxSpaces

TypeOK ==
    /\ created \in Spaces
    /\ owner \in [Spaces -> Accounts] /\ archived \subseteq 1 .. created
    /\ role \in [Accounts -> {"student", "professor"}]
    /\ state \in [Accounts -> {"absent", "invited", "active", "deactivated"}]
    /\ anchor \in [Accounts -> 0 .. MaxSpaces]
    /\ member \in [Accounts -> SUBSET Spaces]
    /\ \A u \in Accounts : state[u] = "absent" <=> anchor[u] = 0   \* not nullable
    /\ password \subseteq Accounts /\ offers \subseteq Accounts /\ worked \subseteq Accounts
    /\ shell \in 0 .. MaxShell

\* bootstrap_workspace: the workspace, its invited professor, and the owner.
Init ==
    /\ created = 1 /\ archived = {}
    /\ owner = [w \in Spaces |-> Founder]
    /\ role = [u \in Accounts |-> IF u = Founder THEN "professor" ELSE "student"]
    /\ state = [u \in Accounts |-> IF u = Founder THEN "invited" ELSE "absent"]
    /\ anchor = [u \in Accounts |-> IF u = Founder THEN 1 ELSE 0]
    /\ member = [u \in Accounts |-> IF u = Founder THEN {1} ELSE {}]
    /\ password = {} /\ offers = {Founder} /\ worked = {}
    /\ shell = 0

-----------------------------------------------------------------------------
(* What the guards read. *)

\* resolve_session and require_prof: who may call a professor's route.
Acting(p) == state[p] = "active" /\ role[p] = "professor"

Active(w)     == {u \in Accounts : state[u] = "active" /\ w \in member[u]}
Professors(w) == {u \in Active(w) : role[u] = "professor"}

Existing == (1 .. created) \ archived
Owned(p) == {w \in Existing : owner[w] = p}

\* _administered_workspace_ids
Administered(p) == (member[p] \cap Existing) \cup Owned(p) \cup {anchor[p]}

\* _require_reachable_workspace: where p may work; _require_invitable_workspace:
\* where p may invite.  Neither is to an archived one.
Reachable(p) == {w \in Existing : owner[w] = p \/ w \in member[p]}
Invitable(p) == {w \in Existing : owner[w] = p \/ w = anchor[p]}

\* The two foreign keys that do not cascade refuse to move an account with
\* a project membership or a report.
Movable(u, w) == anchor[u] = w \/ u \notin worked

-----------------------------------------------------------------------------
(* A professor's own workspaces. *)

CreateWorkspace(p) ==
    LET w == created + 1 IN
    /\ Acting(p) /\ created < MaxSpaces /\ Movable(p, w)
    /\ created' = w /\ owner' = [owner EXCEPT ![w] = p]
    /\ member' = [member EXCEPT ![p] = @ \cup {w}]
    /\ anchor' = [anchor EXCEPT ![p] = w]
    /\ UNCHANGED <<archived, role, state, password, offers, worked, shell>>

\* Mutant of JoinWorkspace: an archived workspace is not refused.
JoinArchived(p, w) ==
    /\ Acting(p) /\ w \in 1 .. created /\ (owner[w] = p \/ w \in member[p])
    /\ Movable(p, w)
    /\ member' = [member EXCEPT ![p] = @ \cup {w}]
    /\ anchor' = [anchor EXCEPT ![p] = w]
    /\ UNCHANGED <<spaceVars, role, state, password, offers, worked, shell>>

\* Joining, and switching to a workspace already joined.
JoinWorkspace(p, w) ==
    /\ Acting(p) /\ w \in Reachable(p)
    /\ Movable(p, w)
    /\ member' = [member EXCEPT ![p] = @ \cup {w}]
    /\ anchor' = [anchor EXCEPT ![p] = w]
    /\ UNCHANGED <<spaceVars, role, state, password, offers, worked, shell>>

\* Where p may go on leaving w: the oldest other workspace (candidates[0]).
Destination(p, w, d) ==
    LET others == (member[p] \ {w}) \cap Existing IN
    d \in others /\ \A x \in others : d <= x

MoveOut(p, w, d) ==
    /\ member' = [member EXCEPT ![p] = @ \ {w}]
    /\ anchor' = IF anchor[p] = w THEN [anchor EXCEPT ![p] = d] ELSE anchor
    /\ anchor[p] = w => Movable(p, d)
    /\ UNCHANGED <<spaceVars, role, state, password, offers, worked, shell>>

\* The membership goes, and with it the anchor where it stood there.
Depart(p, w) == \E d \in Spaces : Destination(p, w, d) /\ MoveOut(p, w, d)

\* Mutant of LeaveWorkspace: an invited professor counts as one who stays.
LeaveToInvited(p, w) ==
    /\ Acting(p) /\ w \in member[p]
    /\ \/ \E q \in Accounts \ {p} : role[q] = "professor" /\ w \in member[q]
       \/ Active(w) \subseteq {p}
    /\ Depart(p, w)

\* leave_workspace: refused when it would strand others.
LeaveWorkspace(p, w) ==
    /\ Acting(p) /\ w \in member[p]
    /\ Professors(w) \subseteq {p} => Active(w) \subseteq {p}
    /\ Depart(p, w)

\* revoke_workspace_invitations: an invited account is not an active one yet,
\* and its link would lead into the archived workspace.
OffersBeside(w) == {u \in offers : anchor[u] # w}

ArchiveWorkspace(p, w) ==
    /\ Acting(p) /\ w \in Owned(p) /\ w # anchor[p]
    /\ Active(w) = {}
    /\ archived' = archived \cup {w}
    /\ offers' = OffersBeside(w)
    /\ UNCHANGED <<created, owner, role, state, anchor, member, password, worked, shell>>

-----------------------------------------------------------------------------
(* Enrolment. *)

\* The workspace the inviter works in, or one they own; a new account, or one
\* that is still invited there, whose role is then the one offered last.
Invite(p, u, r, w) ==
    /\ Acting(p) /\ w \in Invitable(p)
    /\ state[u] = "absent" \/ (state[u] = "invited" /\ anchor[u] = w)
    /\ state' = [state EXCEPT ![u] = "invited"]
    /\ role' = [role EXCEPT ![u] = r]
    /\ anchor' = [anchor EXCEPT ![u] = w]
    /\ member' = [member EXCEPT ![u] = @ \cup {w}]
    /\ offers' = offers \cup {u}
    /\ UNCHANGED <<spaceVars, password, worked, shell>>

Accept(u) ==
    /\ u \in offers /\ state[u] # "deactivated"
    /\ state' = [state EXCEPT ![u] = "active"]
    /\ password' = password \cup {u} /\ offers' = offers \ {u}
    /\ UNCHANGED <<spaceVars, role, anchor, member, worked, shell>>

\* expires_at passes.
Lapse(u) ==
    /\ u \in offers /\ offers' = offers \ {u}
    /\ UNCHANGED <<spaceVars, role, state, anchor, member, password, worked, shell>>

\* request_password_reset and reset_password, of an account without a password.
ResetPassword(u) ==
    /\ state[u] = "active" /\ u \notin password
    /\ password' = password \cup {u}
    /\ UNCHANGED <<spaceVars, role, state, anchor, member, offers, worked, shell>>

\* A project membership, assigned by a professor who works there or taken by
\* the student: the first of the rows that pin the account.
Enrol(u) ==
    /\ role[u] = "student" /\ anchor[u] \in member[u]
    /\ \/ state[u] = "active"
       \/ \E p \in Accounts : Acting(p) /\ anchor[p] = anchor[u]
    /\ worked' = worked \cup {u}
    /\ UNCHANGED <<spaceVars, role, state, anchor, member, password, offers, shell>>

-----------------------------------------------------------------------------
(* A professor over the students of the workspace they work in. *)

Over(p, u) == Acting(p) /\ p # u /\ state[u] # "absent" /\ anchor[u] = anchor[p]

Deactivate(p, u) ==
    /\ Over(p, u) /\ role[u] = "student" /\ state[u] # "deactivated"
    /\ state' = [state EXCEPT ![u] = "deactivated"]
    /\ offers' = offers \ {u}
    /\ UNCHANGED <<spaceVars, role, anchor, member, password, worked, shell>>

\* Mutant of Reactivate: the membership that removal deleted is not put back.
ReactivateUnseated(p, u) ==
    /\ Over(p, u) /\ state[u] = "deactivated"
    /\ state' = [state EXCEPT ![u] = IF u \in password THEN "active" ELSE "invited"]
    /\ UNCHANGED <<spaceVars, role, anchor, member, password, offers, worked, shell>>

Reactivate(p, u) ==
    /\ Over(p, u) /\ state[u] = "deactivated"
    /\ state' = [state EXCEPT ![u] = IF u \in password THEN "active" ELSE "invited"]
    /\ member' = [member EXCEPT ![u] = @ \cup {anchor[u]}]
    /\ UNCHANGED <<spaceVars, role, anchor, password, offers, worked, shell>>

RemoveStudent(p, u) ==
    /\ Over(p, u) /\ role[u] = "student"
    /\ state' = [state EXCEPT ![u] = "deactivated"]
    /\ offers' = offers \ {u}
    /\ member' = [member EXCEPT ![u] = @ \ {anchor[p]}]
    /\ UNCHANGED <<spaceVars, role, anchor, password, worked, shell>>

MoveStudent(p, u, w) ==
    /\ Acting(p) /\ w \in Administered(p) \cap Existing
    /\ state[u] # "absent" /\ role[u] = "student"
    /\ anchor[u] \in Administered(p) \ {w} /\ Movable(u, w)
    /\ anchor' = [anchor EXCEPT ![u] = w]
    /\ member' = [member EXCEPT ![u] = (@ \ {anchor[u]}) \cup {w}]
    /\ UNCHANGED <<spaceVars, role, state, password, offers, worked, shell>>

-----------------------------------------------------------------------------
(* The host shell. *)

Shell == shell < MaxShell /\ shell' = shell + 1

\* _require_another_active_professor, in the workspace the account works in.
AnotherProfessor(u) == Professors(anchor[u]) \ {u} # {}

DemoteProfessor(u) ==
    /\ state[u] # "absent" /\ role[u] = "professor" /\ AnotherProfessor(u)
    /\ role' = [role EXCEPT ![u] = "student"]
    /\ Shell
    /\ UNCHANGED <<spaceVars, state, anchor, member, password, offers, worked>>

DeactivateProfessor(u) ==
    /\ state[u] \notin {"absent", "deactivated"} /\ role[u] = "professor"
    /\ AnotherProfessor(u)
    /\ state' = [state EXCEPT ![u] = "deactivated"]
    /\ offers' = offers \ {u}
    /\ Shell
    /\ UNCHANGED <<spaceVars, role, anchor, member, password, worked>>

RecoverProfessor(u) ==
    /\ state[u] # "absent"
    /\ role' = [role EXCEPT ![u] = "professor"]
    /\ state' = [state EXCEPT ![u] = "active"]
    /\ Shell
    /\ UNCHANGED <<spaceVars, anchor, member, password, offers, worked>>

\* The successor takes every workspace of the predecessor, archived ones too.
TransferProfessor(u, v) ==
    LET w == anchor[u] IN
    /\ u # v /\ state[u] # "absent"
    /\ state[v] = "absent" \/ anchor[v] = w
    /\ role' = [role EXCEPT ![v] = "professor"]
    /\ state' = [state EXCEPT ![v] = "active", ![u] = "deactivated"]
    /\ anchor' = [anchor EXCEPT ![v] = w]
    /\ member' = [member EXCEPT ![v] = @ \cup member[u] \cup {w}, ![u] = {}]
    /\ owner' = IF owner[w] = u THEN [owner EXCEPT ![w] = v] ELSE owner
    /\ offers' = offers \ {u}
    /\ Shell
    /\ UNCHANGED <<created, archived, password, worked>>

-----------------------------------------------------------------------------
OwnStep(p) ==
    \/ CreateWorkspace(p)
    \/ \E w \in Spaces : JoinWorkspace(p, w) \/ LeaveWorkspace(p, w) \/ ArchiveWorkspace(p, w)

EnrolmentStep(u) ==
    \/ \E p \in Accounts, r \in {"student", "professor"}, w \in Spaces : Invite(p, u, r, w)
    \/ Accept(u) \/ Lapse(u) \/ ResetPassword(u) \/ Enrol(u)

RosterStep(p, u) ==
    \/ Deactivate(p, u) \/ Reactivate(p, u) \/ RemoveStudent(p, u)
    \/ \E w \in Spaces : MoveStudent(p, u, w)

ShellStep(u) ==
    \/ DemoteProfessor(u) \/ DeactivateProfessor(u) \/ RecoverProfessor(u)
    \/ \E v \in Accounts : TransferProfessor(u, v)

RouteStep ==
    \/ \E u \in Accounts : OwnStep(u) \/ EnrolmentStep(u)
    \/ \E p, u \in Accounts : RosterStep(p, u)

Next == RouteStep \/ \E u \in Accounts : ShellStep(u)

Spec == Init /\ [][Next]_vars

-----------------------------------------------------------------------------
(* Properties. *)

\* An archived workspace has nobody in it who could be harmed by its being
\* archived (archive_workspace): no sequence of routes gives it an active
\* account again.  Recovery and transfer, from the shell, can.
ArchivedIsEmpty == shell = 0 => \A w \in archived : Active(w) = {}

\* Whoever may act or be invited belongs to the workspace they work in, and
\* a student to no other (ADR 0015; users.workspace_id in identity/models.py).
BelongsWhereItWorks ==
    shell = 0 => \A u \in Accounts :
        /\ state[u] \in {"invited", "active"} => anchor[u] \in member[u]
        /\ role[u] = "student" => member[u] \subseteq {anchor[u]}

\* No open invitation leads into an archived workspace, whether it was sent
\* there or followed its account (revoke_workspace_invitations).
NoOfferIntoArchived == \A u \in offers : anchor[u] \notin archived

\* A workspace with an active professor, where others are active as well, is
\* not left without one (AUTH-01).
Keeps(w) == Professors(w) # {} => Professors(w)' # {} \/ Active(w)' = {}

\* What breaks that rule is no route's step, from any state the shell can leave
\* behind.
RoutesKeepProfessor == [][(\E w \in Spaces : ~Keeps(w)) => ~RouteStep]_vars

=============================================================================
