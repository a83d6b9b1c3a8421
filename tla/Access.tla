-------------------------------- MODULE Access --------------------------------
(***************************************************************************)
(* What lets one account in, and what ends it (identity/service.py,        *)
(* oauth/service.py): the invitation and reset links, the sessions, and    *)
(* the token pairs of the MCP client the account connected.                *)
(*                                                                         *)
(* A request is a database transaction at READ COMMITTED.  It reads, it    *)
(* writes the account's row (which waits for the row's writer) and updates *)
(* the rows a statement finds committed, and it commits.  A login only     *)
(* inserts and waits for nobody.  A code and a refresh token are read FOR  *)
(* UPDATE, so their row is held from the read on.                          *)
(***************************************************************************)
EXTENDS Integers, FiniteSets

CONSTANTS
    Requests,       \* requests under way at once
    MaxLinks,       \* bound: invitation and reset links issued
    MaxSessions,    \* bound: sessions opened
    MaxPairs,       \* bound: token pairs minted
    MaxEndings      \* bound: deactivations and resets that commit

ASSUME AccessAssumption ==
    /\ MaxLinks \in Nat \ {0} /\ MaxSessions \in Nat /\ MaxPairs \in Nat /\ MaxEndings \in Nat

VARIABLES
    state,      \* users.state
    password,   \* users.password_hash is set
    link,       \* invitations and password_resets
    session,    \* sessions: state, and the era its opener read in
    code,       \* the oauth_codes row of the one consent
    pair,       \* oauth_tokens: state, and the pair it replaced (0: the code)
    tx,         \* what each request has done so far
    era,        \* deactivations and resets committed so far (observer)
    beside,     \* sessions whose opening overlapped one of them (observer)
    replayed,   \* a refresh token was presented a second time (observer)
    spared      \* pairs minted beside that request, and their successors (observer)

accountVars == <<state, password, link>>
grantVars   == <<code, pair, replayed, spared>>
sessionVars == <<session, era, beside>>
vars == <<accountVars, sessionVars, grantVars, tx>>

Links    == 1 .. MaxLinks
Sessions == 1 .. MaxSessions
Pairs    == 1 .. MaxPairs
States   == {"invited", "active", "deactivated"}
Account  == {"accept", "reset", "deactivate", "reactivate", "recover"}
Endings  == {"reset", "deactivate"}

\* n is the link or the pair the request presented, saw the state it read and
\* leaves the one it will write, gone the sessions or pairs it revokes and void
\* the links.
Transactions ==
    [pc : {"idle", "read", "written"},
     op : Account \cup {"login", "exchange", "refresh", "close", "replay"},
     n : Nat, saw : States, leaves : States,
     gone : SUBSET (Sessions \cup Pairs), void : SUBSET Links, era : Nat]
Idle == [pc |-> "idle", op |-> "login", n |-> 0, saw |-> "invited", leaves |-> "invited",
         gone |-> {}, void |-> {}, era |-> 0]

TypeOK ==
    /\ state \in States /\ password \in BOOLEAN
    /\ link \in [Links -> [kind : {"invitation", "reset"},
                           state : {"none", "open", "used", "revoked"}]]
    /\ session \in [Sessions -> [state : {"none", "open", "ended"}, era : Nat]]
    /\ code \in {"none", "issued", "used"}
    /\ pair \in [Pairs -> [state : {"none", "live", "revoked"}, parent : 0 .. MaxPairs]]
    /\ tx \in [Requests -> Transactions]
    /\ era \in Nat /\ beside \subseteq Sessions
    /\ replayed \in BOOLEAN /\ spared \subseteq Pairs

\* The account was invited and its link is on the way.
Init ==
    /\ state = "invited" /\ password = FALSE
    /\ link = [n \in Links |-> [kind |-> "invitation", state |-> IF n = 1 THEN "open" ELSE "none"]]
    /\ session = [s \in Sessions |-> [state |-> "none", era |-> 0]]
    /\ code = "none" /\ pair = [n \in Pairs |-> [state |-> "none", parent |-> 0]]
    /\ tx = [q \in Requests |-> Idle]
    /\ era = 0 /\ beside = {} /\ replayed = FALSE /\ spared = {}

Begin(q, r) ==
    /\ tx[q].pc = "idle"
    /\ tx' = [tx EXCEPT ![q] = r]
    /\ UNCHANGED <<accountVars, sessionVars, grantVars>>

Finish(q) == tx' = [tx EXCEPT ![q] = Idle]

\* Rows are numbered in the order they are inserted.
OpenLinks(kind) == {n \in Links : link[n] = [kind |-> kind, state |-> "open"]}
OpenSessions    == {s \in Sessions : session[s].state = "open"}
LivePairs       == {n \in Pairs : pair[n].state = "live"}
Minted          == {n \in Pairs : pair[n].state # "none"}
NextLink        == Cardinality({n \in Links : link[n].state # "none"}) + 1
NextSession     == Cardinality({s \in Sessions : session[s].state # "none"}) + 1
NextPair        == Cardinality(Minted) + 1

\* The account may act, and a session acts for it (resolve_session).
Live        == state = "active"
SignedIn(s) == Live /\ s \in OpenSessions

-----------------------------------------------------------------------------
(* Sessions. *)

\* Bound: deactivations and resets under way leave room for themselves.
MayEnd == era + Cardinality({q \in Requests : tx[q].pc # "idle" /\ tx[q].op \in Endings})
              < MaxEndings

\* Rows a request has written and not committed.
Ending(p)   == tx[p].pc = "written" /\ tx[p].op \in Endings
Revoking(s) == \E p \in Requests : Ending(p) /\ s \in tx[p].gone

\* _open_session, in the request that read the account in era e.  It overlaps
\* an ending that committed since then, or has looked for sessions already.
OpenSession(e) ==
    /\ NextSession \in Sessions
    /\ session' = [session EXCEPT ![NextSession] = [state |-> "open", era |-> e]]
    /\ beside' = IF e = era /\ ~\E p \in Requests : Ending(p) THEN beside
                 ELSE beside \cup {NextSession}
    /\ UNCHANGED era

\* login reads the account and verifies the password; only an active one passes.
Login(q) ==
    /\ Live /\ password
    /\ Begin(q, [Idle EXCEPT !.pc = "read", !.era = era])

CommitLogin(q) ==
    /\ tx[q].pc = "read" /\ tx[q].op = "login"
    /\ OpenSession(tx[q].era)
    /\ Finish(q)
    /\ UNCHANGED <<accountVars, grantVars>>

Logout(s) ==
    /\ session[s].state = "open" /\ ~Revoking(s)
    /\ session' = [session EXCEPT ![s].state = "ended"]
    /\ UNCHANGED <<accountVars, era, beside, grantVars, tx>>

\* From the shell, when a cookie may have leaked: every session at once.
RevokeAllSessions ==
    /\ OpenSessions # {} /\ \A s \in OpenSessions : ~Revoking(s)
    /\ session' = [s \in Sessions |-> IF s \in OpenSessions
                                      THEN [session[s] EXCEPT !.state = "ended"] ELSE session[s]]
    /\ UNCHANGED <<accountVars, era, beside, grantVars, tx>>

-----------------------------------------------------------------------------
(* The account: what a request reads, what it writes, and its commit. *)

Issue(kind) ==
    /\ NextLink \in Links
    /\ link' = [m \in Links |->
                  IF m = NextLink THEN [kind |-> kind, state |-> "open"]
                  ELSE IF m \in OpenLinks(kind) THEN [link[m] EXCEPT !.state = "revoked"]
                  ELSE link[m]]
    /\ UNCHANGED <<state, password, sessionVars, grantVars, tx>>

\* A further invitation, or a further reset: the older link stops working.
InviteUser           == state = "invited" /\ Issue("invitation")
RequestPasswordReset == Live /\ Issue("reset")

\* The state a request leaves, decided by the account it read.
Target(op) == CASE op = "accept"     -> "active"
                [] op = "reset"      -> state
                [] op = "deactivate" -> "deactivated"
                [] op = "reactivate" -> IF password THEN "active" ELSE "invited"
                [] op = "recover"    -> "active"

Read(q, op, n) == Begin(q, [Idle EXCEPT !.pc = "read", !.op = op, !.n = n, !.saw = state,
                                        !.leaves = Target(op), !.era = era])

AcceptInvitation(q, n) ==
    n \in OpenLinks("invitation") /\ state # "deactivated" /\ Read(q, "accept", n)
ResetPassword(q, n) ==
    n \in OpenLinks("reset") /\ Live /\ MayEnd /\ Read(q, "reset", n)
DeactivateUser(q)   == state # "deactivated" /\ MayEnd /\ Read(q, "deactivate", 0)
ReactivateUser(q)   == state = "deactivated" /\ Read(q, "reactivate", 0)
RecoverProfessor(q) == Read(q, "recover", 0)

\* An acceptance or a reset writes the password; the others only another state.
Touches(q)      == tx[q].op \in {"accept", "reset"} \/ tx[q].leaves # tx[q].saw
HoldsAccount(q) == tx[q].pc = "written" /\ tx[q].op \in Account /\ Touches(q)

\* Mutant of Ended: a reset leaves the sessions alone.
EndedByDeactivation(op) == IF op = "deactivate" THEN OpenSessions ELSE {}

\* revoke_sessions_for_user: the sessions committed by then.
Ended(op) == IF op \in Endings THEN OpenSessions ELSE {}

\* The flush: the account's row, then the statements that revoke what they see.
Write(q) ==
    /\ tx[q].pc = "read" /\ tx[q].op \in Account
    /\ Touches(q) => \A p \in Requests \ {q} : ~HoldsAccount(p)
    /\ tx' = [tx EXCEPT ![q].pc = "written", ![q].gone = Ended(tx[q].op),
                        ![q].void = IF tx[q].op = "deactivate" THEN OpenLinks("invitation")
                                    ELSE IF tx[q].op = "recover" THEN OpenLinks("reset") ELSE {}]
    /\ UNCHANGED <<accountVars, sessionVars, grantVars>>

\* An UPDATE names the state only if it is not the one that was read.
CommitState(q) ==
    LET op == tx[q].op IN
    /\ tx[q].pc = "written" /\ op \in Account
    /\ op = "recover" => NextLink \in Links
    /\ state' = IF tx[q].leaves = tx[q].saw THEN state ELSE tx[q].leaves
    /\ password' = (password \/ op \in {"accept", "reset"})
    /\ link' = [n \in Links |->
                  IF op \in {"accept", "reset"} /\ n = tx[q].n THEN [link[n] EXCEPT !.state = "used"]
                  ELSE IF op = "recover" /\ n = NextLink THEN [kind |-> "reset", state |-> "open"]
                  ELSE IF n \in tx[q].void /\ link[n].state = "open"
                       THEN [link[n] EXCEPT !.state = "revoked"] ELSE link[n]]
    /\ Finish(q)
    /\ UNCHANGED grantVars

\* accept_invitation goes on with start_session in the same transaction.
CommitAccept(q) ==
    /\ tx[q].op = "accept"
    /\ CommitState(q)
    /\ OpenSession(tx[q].era)

CommitEnding(q) ==
    /\ tx[q].op \in Endings
    /\ CommitState(q)
    /\ session' = [s \in Sessions |-> IF s \in tx[q].gone
                                      THEN [session[s] EXCEPT !.state = "ended"] ELSE session[s]]
    /\ era' = era + 1 /\ UNCHANGED beside

CommitRestore(q) ==
    /\ tx[q].op \in {"reactivate", "recover"}
    /\ CommitState(q)
    /\ UNCHANGED sessionVars

-----------------------------------------------------------------------------
(* The grant of an MCP client. *)

\* The professor consents, signed in: resolve_session wants the session open
\* and the account active.
IssueCode ==
    /\ code = "none" /\ \E s \in Sessions : SignedIn(s)
    /\ code' = "issued"
    /\ UNCHANGED <<accountVars, sessionVars, pair, replayed, spared, tx>>

\* Mutant of HoldsPair: the rows are read without FOR UPDATE.
HoldsPairNever(q, n) == FALSE

\* The row a token request read, and those a replay has swept.
HoldsPair(q, n) ==
    \/ tx[q].pc # "idle" /\ tx[q].op \in {"refresh", "close", "replay"} /\ tx[q].n = n
    \/ tx[q].pc = "written" /\ tx[q].op = "replay" /\ n \in tx[q].gone
HeldPair(n) == \E q \in Requests : HoldsPair(q, n)

ExchangeCode(q) ==
    /\ code = "issued"
    /\ \A p \in Requests : tx[p].pc = "idle" \/ tx[p].op # "exchange"
    /\ Begin(q, [Idle EXCEPT !.pc = "read", !.op = "exchange"])

\* A pair that was not used yet: rotated while the account is an active
\* professor's, and closed otherwise.
Refresh(q, n) ==
    /\ n \in LivePairs /\ ~HeldPair(n)
    /\ Begin(q, [Idle EXCEPT !.pc = "read", !.n = n,
                             !.op = IF Live THEN "refresh" ELSE "close"])

\* A pair that was used before: the UPDATE over the client's pairs starts from
\* those committed and live by now.
Replay(q, n) ==
    /\ pair[n].state = "revoked" /\ ~HeldPair(n)
    /\ Begin(q, [Idle EXCEPT !.pc = "read", !.op = "replay", !.n = n, !.gone = LivePairs])

\* Mutant of Sweep: the replay revokes the pair that was presented.
SweepPresented(q) ==
    /\ tx[q].pc = "read" /\ tx[q].op = "replay"
    /\ tx' = [tx EXCEPT ![q].pc = "written", ![q].gone = {tx[q].n}]
    /\ UNCHANGED <<accountVars, sessionVars, grantVars>>

\* It waits for the pairs other requests hold and tests each again.
Sweep(q) ==
    /\ tx[q].pc = "read" /\ tx[q].op = "replay"
    /\ \A n \in tx[q].gone, p \in Requests \ {q} : ~HoldsPair(p, n)
    /\ tx' = [tx EXCEPT ![q].pc = "written", ![q].gone = @ \cap LivePairs]
    /\ UNCHANGED <<accountVars, sessionVars, grantVars>>

Revoked(rows) == [n \in Pairs |-> IF n \in rows THEN [pair[n] EXCEPT !.state = "revoked"]
                                  ELSE pair[n]]
Replaying == \E q \in Requests : tx[q].pc # "idle" /\ tx[q].op = "replay"

\* _mint: the new pair in place of the code (0) or of the pair m.
Mint(m) ==
    /\ NextPair \in Pairs
    /\ pair' = [Revoked({m}) EXCEPT ![NextPair] = [state |-> "live", parent |-> m]]
    /\ spared' = IF Replaying \/ m \in spared THEN spared \cup {NextPair} ELSE spared

CommitExchange(q) ==
    /\ tx[q].pc = "read" /\ tx[q].op = "exchange"
    /\ code' = "used" /\ Mint(0)
    /\ Finish(q)
    /\ UNCHANGED <<accountVars, sessionVars, replayed>>

CommitRefresh(q) ==
    /\ tx[q].pc = "read" /\ tx[q].op \in {"refresh", "close"}
    /\ IF tx[q].op = "refresh" THEN Mint(tx[q].n)
       ELSE pair' = Revoked({tx[q].n}) /\ UNCHANGED spared
    /\ Finish(q)
    /\ UNCHANGED <<accountVars, sessionVars, code, replayed>>

\* The client is answered with an error, and what was revoked is committed.
CommitReplay(q) ==
    /\ tx[q].pc = "written" /\ tx[q].op = "replay"
    /\ pair' = Revoked(tx[q].gone) /\ replayed' = TRUE
    /\ Finish(q)
    /\ UNCHANGED <<accountVars, sessionVars, code, spared>>

\* POST /oauth/revoke, by the client.
RevokePair(n) ==
    /\ n \in LivePairs /\ ~HeldPair(n)
    /\ pair' = Revoked({n})
    /\ UNCHANGED <<accountVars, sessionVars, code, replayed, spared, tx>>

\* The request fails before its commit.
Abort(q) == tx[q].pc # "idle" /\ Finish(q) /\ UNCHANGED <<accountVars, sessionVars, grantVars>>

-----------------------------------------------------------------------------
Arrive(q) ==
    \/ Login(q) \/ DeactivateUser(q) \/ ReactivateUser(q) \/ RecoverProfessor(q)
    \/ ExchangeCode(q)
    \/ \E n \in Links : AcceptInvitation(q, n) \/ ResetPassword(q, n)
    \/ \E n \in Pairs : Refresh(q, n) \/ Replay(q, n)

Proceed(q) ==
    \/ Write(q) \/ Sweep(q)
    \/ CommitLogin(q) \/ CommitAccept(q) \/ CommitEnding(q) \/ CommitRestore(q)
    \/ CommitExchange(q) \/ CommitRefresh(q) \/ CommitReplay(q)

Next ==
    \/ \E q \in Requests : Arrive(q) \/ Proceed(q) \/ Abort(q)
    \/ \E s \in Sessions : Logout(s)
    \/ RevokeAllSessions \/ InviteUser \/ RequestPasswordReset \/ IssueCode
    \/ \E n \in Pairs : RevokePair(n)

Spec == Init /\ [][Next]_vars

-----------------------------------------------------------------------------
(* Properties. *)

\* A code makes one pair and a pair has one successor, however often and
\* however close together a client presents them (exchange_code, refresh).
MintedOnce == \A m, n \in Minted : pair[m].parent = pair[n].parent => m = n

\* Once a used refresh token came back, nothing issued before works any more;
\* what lives was being minted while that request ran, or came of such a pair.
ReplayEndsGrant == replayed => LivePairs \subseteq spared

\* A deactivation or a reset ends the sessions there are (AUTH-03): an open one
\* was opened after the last of them, or by a request that overlapped it.
EndingsEndSessions == \A s \in OpenSessions : session[s].era = era \/ s \in beside

\* A deactivated account comes back by a reactivation or by recovery from the
\* shell, and no link issued before brings it back (accept_invitation, AUTH-03).
DeactivationIsDurable ==
    [][state = "deactivated" /\ state' # "deactivated" =>
          \E q \in Requests : tx[q].pc = "written" /\ tx[q].op \in {"reactivate", "recover"}
                              /\ tx'[q].pc = "idle"]_vars

=============================================================================
