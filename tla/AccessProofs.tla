----------------------------- MODULE AccessProofs -----------------------------
(* Theorems about Access and Reading, for every value of their constants. *)
EXTENDS Access, Reading, FiniteSetTheorems, SequenceTheorems, WellFoundedInduction, TLAPS

\* The steps that read or write the account, its links and its sessions only.
AccountArrive(q) ==
    \/ Login(q) \/ DeactivateUser(q) \/ ReactivateUser(q) \/ RecoverProfessor(q)
    \/ \E n \in Links : AcceptInvitation(q, n) \/ ResetPassword(q, n)

AccountProceed(q) ==
    Write(q) \/ CommitLogin(q) \/ CommitAccept(q) \/ CommitEnding(q) \/ CommitRestore(q)

-----------------------------------------------------------------------------
(* Types. *)

LEMMA BeginTypes ==
  ASSUME TypeOK, NEW q \in Requests, NEW r \in Transactions, Begin(q, r)
  PROVE  TypeOK'
  BY DEF Begin, TypeOK, accountVars, sessionVars, grantVars

LEMMA IdleIsTransaction == Idle \in Transactions
  BY DEF Idle, Transactions, States, Account

LEMMA InitTypes == Init => TypeOK
<1> SUFFICES ASSUME Init PROVE TypeOK
  OBVIOUS
<1>1. tx \in [Requests -> Transactions]
  BY IdleIsTransaction DEF Init
<1>2. pair \in [Pairs -> [state : {"none", "live", "revoked"}, parent : 0 .. MaxPairs]]
  BY AccessAssumption DEF Init
<1> QED
  BY <1>1, <1>2 DEF Init, TypeOK, States

LEMMA ArriveTypes ==
  ASSUME TypeOK, NEW q \in Requests, Arrive(q)
  PROVE  TypeOK'
<1>1. CASE Login(q)
  <2>1. [Idle EXCEPT !.pc = "read", !.era = era] \in Transactions
    BY DEF TypeOK, Idle, Transactions, States, Account
  <2> QED
    BY <1>1, <2>1, BeginTypes DEF Login
<1>2. ASSUME NEW op \in Account, NEW n \in Nat, Read(q, op, n)
      PROVE  TypeOK'
  <2>1. Target(op) \in States
    BY <1>2 DEF TypeOK, Target, States, Account
  <2>2. [Idle EXCEPT !.pc = "read", !.op = op, !.n = n, !.saw = state, !.leaves = Target(op),
                     !.era = era] \in Transactions
    BY <1>2, <2>1 DEF TypeOK, Idle, Transactions, States, Account
  <2> QED
    BY <1>2, <2>2, BeginTypes DEF Read
<1>3. CASE DeactivateUser(q) \/ ReactivateUser(q) \/ RecoverProfessor(q)
  BY <1>2, <1>3 DEF DeactivateUser, ReactivateUser, RecoverProfessor, Account
<1>4. ASSUME NEW n \in Links, AcceptInvitation(q, n) \/ ResetPassword(q, n)
      PROVE  TypeOK'
  <2>1. n \in Nat
    BY AccessAssumption DEF Links
  <2> QED
    BY <1>2, <1>4, <2>1 DEF AcceptInvitation, ResetPassword, Account
<1>5. CASE ExchangeCode(q)
  <2>1. [Idle EXCEPT !.pc = "read", !.op = "exchange"] \in Transactions
    BY DEF Idle, Transactions, States, Account
  <2> QED
    BY <1>5, <2>1, BeginTypes DEF ExchangeCode
<1>6. ASSUME NEW n \in Pairs, Refresh(q, n)
      PROVE  TypeOK'
  <2>0. n \in Nat
    BY AccessAssumption DEF Pairs
  <2>1. [Idle EXCEPT !.pc = "read", !.n = n, !.op = IF Live THEN "refresh" ELSE "close"]
          \in Transactions
    BY <2>0 DEF Idle, Transactions, States
  <2> QED
    BY <1>6, <2>1, BeginTypes DEF Refresh
<1>7. ASSUME NEW n \in Pairs, Replay(q, n)
      PROVE  TypeOK'
  <2>0. n \in Nat /\ LivePairs \subseteq Pairs
    BY AccessAssumption DEF Pairs, LivePairs
  <2>1. [Idle EXCEPT !.pc = "read", !.op = "replay", !.n = n, !.gone = LivePairs]
          \in Transactions
    BY <2>0 DEF Idle, Transactions, States
  <2> QED
    BY <1>7, <2>1, BeginTypes DEF Replay
<1> QED
  BY <1>1, <1>3, <1>4, <1>5, <1>6, <1>7 DEF Arrive

\* The parts of the types that a commit of the account and of a pair touch.
LEMMA CommitStateTypes ==
  ASSUME TypeOK, NEW q \in Requests, CommitState(q)
  PROVE  /\ state' \in States /\ password' \in BOOLEAN
         /\ link' \in [Links -> [kind : {"invitation", "reset"},
                                 state : {"none", "open", "used", "revoked"}]]
         /\ tx' \in [Requests -> Transactions]
         /\ UNCHANGED grantVars
<1>1. tx[q].saw \in States /\ tx[q].leaves \in States
  BY DEF CommitState, TypeOK, Transactions, States
<1> QED
  BY <1>1, IdleIsTransaction DEF CommitState, TypeOK, Finish

LEMMA OpenSessionTypes ==
  ASSUME TypeOK, NEW e \in Nat, OpenSession(e)
  PROVE  /\ session' \in [Sessions -> [state : {"none", "open", "ended"}, era : Nat]]
         /\ era' = era /\ beside' \subseteq Sessions
  BY DEF OpenSession, TypeOK

LEMMA RevokedTypes ==
  ASSUME TypeOK, NEW rows
  PROVE  Revoked(rows) \in [Pairs -> [state : {"none", "live", "revoked"},
                                      parent : 0 .. MaxPairs]]
  BY DEF TypeOK, Revoked

LEMMA MintTypes ==
  ASSUME TypeOK, NEW m \in 0 .. MaxPairs, Mint(m)
  PROVE  /\ pair' \in [Pairs -> [state : {"none", "live", "revoked"}, parent : 0 .. MaxPairs]]
         /\ spared' \subseteq Pairs
<1>1. Revoked({m}) \in [Pairs -> [state : {"none", "live", "revoked"}, parent : 0 .. MaxPairs]]
  BY RevokedTypes
<1> QED
  BY <1>1 DEF Mint, TypeOK

\* A refresh is under way for a pair that was minted: what follows needs it.
Tokens == \A q \in Requests :
    tx[q].pc # "idle" /\ tx[q].op \in {"refresh", "close", "replay"} => tx[q].n \in Pairs

LEMMA ProceedTypes ==
  ASSUME TypeOK, Tokens, NEW q \in Requests, Proceed(q)
  PROVE  TypeOK'
<1> USE IdleIsTransaction
<1>0. tx[q] \in Transactions /\ tx[q].era \in Nat
  BY DEF TypeOK, Transactions
<1>1. CASE Write(q)
  <2>1. Ended(tx[q].op) \subseteq Sessions
    BY DEF Ended, OpenSessions
  <2>2. OpenLinks("invitation") \subseteq Links /\ OpenLinks("reset") \subseteq Links
    BY DEF OpenLinks
  <2>3. [tx[q] EXCEPT !.pc = "written", !.gone = Ended(tx[q].op),
                      !.void = IF tx[q].op = "deactivate" THEN OpenLinks("invitation")
                               ELSE IF tx[q].op = "recover" THEN OpenLinks("reset") ELSE {}]
          \in Transactions
    BY <1>0, <2>1, <2>2 DEF Transactions
  <2> QED
    BY <1>1, <2>3 DEF Write, TypeOK, accountVars, sessionVars, grantVars
<1>2. CASE Sweep(q)
  <2>1. [tx[q] EXCEPT !.pc = "written", !.gone = @ \cap LivePairs] \in Transactions
    BY <1>0 DEF Transactions
  <2> QED
    BY <1>2, <2>1 DEF Sweep, TypeOK, accountVars, sessionVars, grantVars
<1>3. CASE CommitLogin(q)
  BY <1>0, <1>3, OpenSessionTypes DEF CommitLogin, TypeOK, Finish, accountVars, grantVars
<1>4. CASE CommitAccept(q)
  BY <1>0, <1>4, OpenSessionTypes, CommitStateTypes DEF CommitAccept, TypeOK, grantVars
<1>5. CASE CommitEnding(q)
  BY <1>5, CommitStateTypes DEF CommitEnding, TypeOK, grantVars
<1>6. CASE CommitRestore(q)
  BY <1>6, CommitStateTypes DEF CommitRestore, TypeOK, grantVars, sessionVars
<1>7. CASE CommitExchange(q)
  <2>1. 0 \in 0 .. MaxPairs
    BY AccessAssumption
  <2> QED
    BY <1>7, <2>1, MintTypes DEF CommitExchange, TypeOK, Finish, accountVars, sessionVars
<1>8. CASE CommitRefresh(q)
  <2>1. tx[q].n \in 0 .. MaxPairs
    BY <1>8, AccessAssumption DEF CommitRefresh, Tokens, Pairs
  <2> QED
    BY <1>8, <2>1, MintTypes, RevokedTypes
    DEF CommitRefresh, TypeOK, Finish, accountVars, sessionVars
<1>9. CASE CommitReplay(q)
  BY <1>9, RevokedTypes DEF CommitReplay, TypeOK, Finish, accountVars, sessionVars
<1> QED
  BY <1>1, <1>2, <1>3, <1>4, <1>5, <1>6, <1>7, <1>8, <1>9 DEF Proceed

LEMMA NextTypes ==
  ASSUME TypeOK, Tokens, [Next]_vars
  PROVE  TypeOK'
<1>1. ASSUME NEW q \in Requests, Abort(q)
      PROVE  TypeOK'
  BY <1>1, IdleIsTransaction
  DEF Abort, Finish, TypeOK, accountVars, sessionVars, grantVars
<1>2. ASSUME NEW s \in Sessions, Logout(s)
      PROVE  TypeOK'
  BY <1>2 DEF Logout, TypeOK, accountVars, grantVars
<1>3. CASE RevokeAllSessions
  BY <1>3 DEF RevokeAllSessions, TypeOK, accountVars, grantVars
<1>4. CASE InviteUser \/ RequestPasswordReset
  BY <1>4 DEF InviteUser, RequestPasswordReset, Issue, TypeOK, sessionVars, grantVars
<1>5. CASE IssueCode
  BY <1>5 DEF IssueCode, TypeOK, accountVars, sessionVars
<1>6. ASSUME NEW n \in Pairs, RevokePair(n)
      PROVE  TypeOK'
  BY <1>6, RevokedTypes DEF RevokePair, TypeOK, accountVars, sessionVars
<1>7. CASE UNCHANGED vars
  BY <1>7 DEF vars, TypeOK, accountVars, sessionVars, grantVars
<1> QED
  BY <1>1, <1>2, <1>3, <1>4, <1>5, <1>6, <1>7, ArriveTypes, ProceedTypes DEF Next

-----------------------------------------------------------------------------
(* The sessions. *)

\* What an ending that has looked for sessions did not find was opened beside it.
EndingsSee == \A p \in Requests : Ending(p) => OpenSessions \subseteq tx[p].gone \cup beside

SessionInv == EndingsSee /\ EndingsEndSessions

LEMMA OpenSessionKeeps ==
  ASSUME TypeOK, SessionInv, NEW q \in Requests, ~Ending(q), NEW e \in Nat,
         OpenSession(e), Finish(q)
  PROVE  SessionInv'
<1>1. OpenSessions' \subseteq OpenSessions \cup {NextSession} /\ beside \subseteq beside'
  BY DEF OpenSession, OpenSessions, TypeOK
<1>2. \A p \in Requests : Ending(p)' => Ending(p) /\ tx'[p] = tx[p]
  BY DEF Ending, Finish, Idle, TypeOK
<1>3. EndingsSee'
  BY <1>1, <1>2 DEF SessionInv, EndingsSee, OpenSession
<1>4. EndingsEndSessions'
  BY <1>1 DEF SessionInv, EndingsEndSessions, OpenSession, TypeOK, OpenSessions
<1> QED
  BY <1>3, <1>4 DEF SessionInv

\* Steps that open no session and end none by an ending of the account.
LEMMA ClosingKeeps ==
  ASSUME SessionInv, OpenSessions' \subseteq OpenSessions, UNCHANGED <<era, beside>>,
         \A s \in OpenSessions' : session'[s].era = session[s].era,
         \A p \in Requests : Ending(p)' =>
            (Ending(p) /\ tx'[p].gone = tx[p].gone) \/ OpenSessions \subseteq tx'[p].gone
  PROVE  SessionInv'
  BY DEF SessionInv, EndingsSee, EndingsEndSessions

LEMMA CommitEndingKeeps ==
  ASSUME TypeOK, SessionInv, NEW q \in Requests, CommitEnding(q)
  PROVE  SessionInv'
<1>1. Ending(q)
  BY DEF CommitEnding, CommitState, Ending
<1>2. OpenSessions' \subseteq OpenSessions \ tx[q].gone
  BY DEF CommitEnding, OpenSessions, TypeOK
<1>3. OpenSessions' \subseteq beside /\ beside' = beside
  BY <1>1, <1>2 DEF SessionInv, EndingsSee, CommitEnding
<1>4. \A p \in Requests : Ending(p)' => Ending(p) /\ tx'[p] = tx[p]
  BY DEF CommitEnding, CommitState, Ending, Finish, Idle, TypeOK
<1> QED
  BY <1>3, <1>4 DEF SessionInv, EndingsSee, EndingsEndSessions

LEMMA NextSessions ==
  ASSUME TypeOK, SessionInv, [Next]_vars
  PROVE  SessionInv'
<1>1. ASSUME NEW q \in Requests, NEW r, r.pc = "read", Begin(q, r)
      PROVE  SessionInv'
  BY <1>1, ClosingKeeps DEF Begin, sessionVars, Ending, OpenSessions, TypeOK
<1>2. ASSUME NEW q \in Requests, Arrive(q)
      PROVE  SessionInv'
  BY <1>1, <1>2
  DEF Arrive, Login, DeactivateUser, ReactivateUser, RecoverProfessor, ExchangeCode,
      AcceptInvitation, ResetPassword, Refresh, Replay, Read, Idle
<1>3. ASSUME NEW q \in Requests, Write(q)
      PROVE  SessionInv'
  <2>1. \A p \in Requests : Ending(p)' =>
            (Ending(p) /\ tx'[p].gone = tx[p].gone) \/ OpenSessions \subseteq tx'[p].gone
    BY <1>3 DEF Write, Ending, Ended, TypeOK
  <2> QED
    BY <1>3, <2>1, ClosingKeeps DEF Write, sessionVars, OpenSessions
<1>4. ASSUME NEW q \in Requests, Sweep(q)
      PROVE  SessionInv'
  <2>1. \A p \in Requests : Ending(p)' => Ending(p) /\ tx'[p].gone = tx[p].gone
    BY <1>4 DEF Sweep, Ending, Endings, TypeOK
  <2> QED
    BY <1>4, <2>1, ClosingKeeps DEF Sweep, sessionVars, OpenSessions
<1>5. ASSUME NEW q \in Requests, CommitLogin(q) \/ CommitAccept(q)
      PROVE  SessionInv'
  <2>1. ~Ending(q) /\ tx[q].era \in Nat /\ OpenSession(tx[q].era) /\ Finish(q)
    BY <1>5 DEF CommitLogin, CommitAccept, CommitState, Ending, Endings, TypeOK, Transactions
  <2> QED
    BY <2>1, OpenSessionKeeps
<1>6. ASSUME NEW q \in Requests, Finish(q), UNCHANGED sessionVars
      PROVE  SessionInv'
  <2>1. \A p \in Requests : Ending(p)' => Ending(p) /\ tx'[p].gone = tx[p].gone
    BY <1>6 DEF Finish, Idle, Ending, TypeOK
  <2> QED
    BY <1>6, <2>1, ClosingKeeps DEF sessionVars, OpenSessions
<1>7. ASSUME NEW q \in Requests, Proceed(q) \/ Abort(q)
      PROVE  SessionInv'
  BY <1>3, <1>4, <1>5, <1>6, <1>7, CommitEndingKeeps
  DEF Proceed, Abort, CommitRestore, CommitState, CommitExchange, CommitRefresh, CommitReplay
<1>8. ASSUME NEW s \in Sessions, Logout(s)
      PROVE  SessionInv'
  BY <1>8, ClosingKeeps DEF Logout, OpenSessions, Ending, TypeOK
<1>9. CASE RevokeAllSessions
  BY <1>9, ClosingKeeps DEF RevokeAllSessions, OpenSessions, Ending, TypeOK
<1>10. CASE InviteUser \/ RequestPasswordReset \/ IssueCode \/ (\E n \in Pairs : RevokePair(n))
            \/ UNCHANGED vars
  <2>1. UNCHANGED <<sessionVars, tx>>
    BY <1>10 DEF InviteUser, RequestPasswordReset, Issue, IssueCode, RevokePair, vars
  <2> QED
    BY <2>1, ClosingKeeps DEF sessionVars, OpenSessions, Ending
<1> QED
  BY <1>2, <1>7, <1>8, <1>9, <1>10 DEF Next

-----------------------------------------------------------------------------
(* The pairs of the grant. *)

TokenOps == {"refresh", "close", "replay"}
Busy(q, op) == tx[q].pc # "idle" /\ tx[q].op = op

\* Pairs are numbered in the order they are minted, without a gap.
Numbered == \E k \in 0 .. MaxPairs : Minted = 1 .. k

\* What a pair replaced is revoked.
Succession == \A n \in Minted : pair[n].parent # 0 =>
                  pair[n].parent \in Minted \ LivePairs

\* A code that is still there made no pair, and no pair was replayed.
CodeFirst == Minted # {} \/ replayed => code = "used"

\* What a request under way may rely on.
Presented == \A q \in Requests :
    /\ Busy(q, "exchange") => code = "issued"
    /\ Busy(q, "refresh") \/ Busy(q, "close") => tx[q].pc = "read" /\ tx[q].n \in LivePairs
    /\ Busy(q, "replay") => tx[q].n \in Minted \ LivePairs
                            /\ LivePairs \subseteq tx[q].gone \cup spared
                            /\ tx[q].gone \cap Pairs \subseteq Minted

\* One request at a time has a code or a pair.
Exclusive == \A p, q \in Requests :
    /\ Busy(p, "exchange") /\ Busy(q, "exchange") => p = q
    /\ \A n \in Pairs : HoldsPair(p, n) /\ HoldsPair(q, n) => p = q

GrantInv == Numbered /\ Succession /\ CodeFirst /\ Presented /\ Exclusive
            /\ MintedOnce /\ ReplayEndsGrant

LEMMA NextPairIsNew ==
  ASSUME TypeOK, Numbered, NextPair \in Pairs
  PROVE  /\ NextPair \notin Minted /\ NextPair # 0
         /\ \E k \in 0 .. MaxPairs : Minted \cup {NextPair} = 1 .. k
<1>1. PICK k \in 0 .. MaxPairs : Minted = 1 .. k
  BY DEF Numbered
<1>2. Cardinality(Minted) = k
  BY <1>1, AccessAssumption, FS_Interval
<1>3. NextPair = k + 1
  BY <1>2 DEF NextPair
<1> QED
  BY <1>1, <1>3, AccessAssumption DEF Pairs

\* Minting in place of the code, when nothing was minted, or of a live pair.
LEMMA MintKeeps ==
  ASSUME TypeOK, GrantInv, NEW m \in {0} \cup LivePairs, m = 0 => Minted = {}, Mint(m)
  PROVE  /\ Numbered' /\ Succession' /\ MintedOnce'
         /\ Minted' = Minted \cup {NextPair}
         /\ LivePairs' = (LivePairs \ {m}) \cup {NextPair}
         /\ spared \subseteq spared'
         /\ Replaying \/ m \in spared => NextPair \in spared'
<1> DEFINE new == NextPair
<1>1. new \in Pairs /\ new \notin Minted /\ new # 0
      /\ \E k \in 0 .. MaxPairs : Minted \cup {new} = 1 .. k
  BY NextPairIsNew DEF GrantInv, Mint
<1>2. (m \in Minted \/ m = 0) /\ m # new /\ 0 \notin Pairs
  BY <1>1, AccessAssumption DEF LivePairs, Minted, Pairs
<1>3. /\ pair' = [Revoked({m}) EXCEPT ![new] = [state |-> "live", parent |-> m]]
      /\ spared' = IF Replaying \/ m \in spared THEN spared \cup {new} ELSE spared
  BY DEF Mint
<1> HIDE DEF new
<1>4. \A n \in Pairs :
        /\ pair'[n].state = IF n = new THEN "live" ELSE IF n = m THEN "revoked" ELSE pair[n].state
        /\ pair'[n].parent = IF n = new THEN m ELSE pair[n].parent
  BY <1>1, <1>3 DEF Revoked, TypeOK
<1>5. Minted' = Minted \cup {new} /\ LivePairs' = (LivePairs \ {m}) \cup {new}
  <2>1. \A n \in Pairs : n \in Minted' <=> n \in Minted \cup {new}
    BY <1>1, <1>2, <1>4 DEF Minted
  <2>2. \A n \in Pairs : n \in LivePairs' <=> n \in (LivePairs \ {m}) \cup {new}
    BY <1>1, <1>2, <1>4 DEF LivePairs
  <2> QED
    BY <1>1, <2>1, <2>2 DEF Minted, LivePairs
<1>6. \A n \in Minted : n \in Pairs /\ n # new /\ pair'[n].parent = pair[n].parent
  BY <1>1, <1>4 DEF Minted
<1>7. \A n \in Minted : pair[n].parent # m
  BY <1>2 DEF GrantInv, Succession
<1>8. pair'[new].parent = m /\ (m # 0 => m \in Minted' \ LivePairs')
  BY <1>1, <1>2, <1>4, <1>5
<1>9. Succession'
  <2>1. \A n \in Minted : pair'[n].parent # 0 => pair'[n].parent \in Minted' \ LivePairs'
    BY <1>1, <1>5, <1>6 DEF GrantInv, Succession
  <2> QED
    BY <2>1, <1>5, <1>8 DEF Succession
<1>10. MintedOnce'
  <2>1. \A n, o \in Minted : pair'[n].parent = pair'[o].parent => n = o
    BY <1>6 DEF GrantInv, MintedOnce
  <2> QED
    BY <2>1, <1>5, <1>6, <1>7, <1>8 DEF MintedOnce
<1> QED
  BY <1>1, <1>3, <1>5, <1>9, <1>10 DEF Numbered, new

\* A request that begins, and holds what nobody else held.
LEMMA BeginKeeps ==
  ASSUME TypeOK, GrantInv, NEW q \in Requests, NEW r, Begin(q, r), r.pc = "read",
         r.op = "exchange" => /\ code = "issued"
                              /\ \A p \in Requests : ~Busy(p, "exchange"),
         r.op \in TokenOps => r.n \in Pairs /\ ~HeldPair(r.n),
         r.op \in {"refresh", "close"} => r.n \in LivePairs,
         r.op = "replay" => r.n \in Minted \ LivePairs /\ r.gone = LivePairs
  PROVE  GrantInv'
<1>1. tx' = [tx EXCEPT ![q] = r] /\ UNCHANGED <<code, pair, replayed, spared>>
  BY DEF Begin, grantVars
<1>2. tx'[q] = r /\ \A p \in Requests : p # q => tx'[p] = tx[p]
  BY <1>1 DEF TypeOK
<1>3. Minted' = Minted /\ LivePairs' = LivePairs /\ LivePairs \subseteq Minted
  BY <1>1 DEF Minted, LivePairs
<1>4. Presented'
  BY <1>1, <1>2, <1>3 DEF GrantInv, Presented, Busy
<1>5. \A n \in Pairs : HoldsPair(q, n)' => r.op \in TokenOps /\ n = r.n
  BY <1>2 DEF HoldsPair, TokenOps
<1>6. \A p \in Requests : p # q => \A n \in Pairs : HoldsPair(p, n)' <=> HoldsPair(p, n)
  BY <1>2 DEF HoldsPair
<1>7. Exclusive'
  BY <1>2, <1>5, <1>6 DEF GrantInv, Exclusive, Busy, HeldPair
<1> QED
  BY <1>1, <1>3, <1>4, <1>7
  DEF GrantInv, Numbered, Succession, CodeFirst, MintedOnce, ReplayEndsGrant

LEMMA ArriveGrant ==
  ASSUME TypeOK, GrantInv, NEW q \in Requests, Arrive(q)
  PROVE  GrantInv'
<1>1. CASE AccountArrive(q)
  <2>1. ASSUME NEW r, Begin(q, r), r.pc = "read", r.op \in Account \cup {"login"}
        PROVE  GrantInv'
    BY <2>1, BeginKeeps DEF Account, TokenOps
  <2>2. CASE Login(q)
    BY <2>1, <2>2 DEF Login, Idle
  <2>3. ASSUME NEW op \in Account, NEW n, Read(q, op, n)
        PROVE  GrantInv'
    BY <2>1, <2>3 DEF Read, Idle
  <2> QED
    BY <1>1, <2>2, <2>3
    DEF AccountArrive, DeactivateUser, ReactivateUser, RecoverProfessor, AcceptInvitation,
        ResetPassword, Account
<1>2. CASE ExchangeCode(q)
  <2>1. \A p \in Requests : ~Busy(p, "exchange")
    BY <1>2 DEF ExchangeCode, Busy
  <2> QED
    BY <1>2, <2>1, BeginKeeps DEF ExchangeCode, Idle, TokenOps
<1>3. ASSUME NEW n \in Pairs, Refresh(q, n)
      PROVE  GrantInv'
  BY <1>3, BeginKeeps DEF Refresh, Idle, TokenOps
<1>4. ASSUME NEW n \in Pairs, Replay(q, n)
      PROVE  GrantInv'
  <2>1. n \in Minted \ LivePairs
    BY <1>4 DEF Replay, Minted, LivePairs
  <2> QED
    BY <1>4, <2>1, BeginKeeps DEF Replay, Idle, TokenOps
<1> QED
  BY <1>1, <1>2, <1>3, <1>4 DEF Arrive, AccountArrive

\* A step that revokes pairs no request relies on, and lets nobody hold more.
LEMMA RevokingKeeps ==
  ASSUME TypeOK, GrantInv, NEW rows \in SUBSET Pairs, pair' = Revoked(rows \cap Minted),
         UNCHANGED <<code, spared>>,
         \A p \in Requests, op \in TokenOps \cup {"exchange"} :
            Busy(p, op)' => Busy(p, op) /\ tx'[p] = tx[p],
         \A p \in Requests, n \in Pairs : HoldsPair(p, n)' => HoldsPair(p, n),
         \A p \in Requests : (Busy(p, "refresh") \/ Busy(p, "close"))' => tx[p].n \notin rows,
         replayed' => replayed \/ (Minted # {} /\ LivePairs \subseteq spared \cup rows)
  PROVE  GrantInv'
<1>1. \A n \in Pairs :
        /\ pair'[n].parent = pair[n].parent
        /\ pair'[n].state = IF n \in rows \cap Minted THEN "revoked" ELSE pair[n].state
  BY DEF Revoked, TypeOK
<1>2. Minted' = Minted /\ LivePairs' = LivePairs \ rows
  BY <1>1 DEF Minted, LivePairs
<1>3. Numbered' /\ Succession' /\ CodeFirst' /\ MintedOnce' /\ ReplayEndsGrant'
  BY <1>1, <1>2
  DEF GrantInv, Numbered, Succession, CodeFirst, MintedOnce, ReplayEndsGrant, Minted
<1>4. Presented'
  BY <1>2 DEF GrantInv, Presented, TokenOps
<1>5. Exclusive'
  BY DEF GrantInv, Exclusive
<1> QED
  BY <1>3, <1>4, <1>5 DEF GrantInv

\* A request that ends holds nothing any more.
LEMMA FinishHolds ==
  ASSUME TypeOK, NEW q \in Requests, Finish(q)
  PROVE  /\ \A p \in Requests, op \in TokenOps \cup {"exchange"} :
                Busy(p, op)' => p # q /\ Busy(p, op) /\ tx'[p] = tx[p]
         /\ \A p \in Requests, n \in Pairs : HoldsPair(p, n)' => p # q /\ HoldsPair(p, n)
  BY DEF Finish, Idle, Busy, HoldsPair, TypeOK

LEMMA SweepKeeps ==
  ASSUME TypeOK, GrantInv, NEW q \in Requests, Sweep(q)
  PROVE  GrantInv'
<1>1. tx'[q] = [tx[q] EXCEPT !.pc = "written", !.gone = @ \cap LivePairs]
      /\ \A p \in Requests : p # q => tx'[p] = tx[p]
  BY DEF Sweep, TypeOK
<1>2. /\ tx'[q].pc = "written" /\ tx'[q].op = "replay" /\ tx'[q].n = tx[q].n
      /\ tx'[q].gone = tx[q].gone \cap LivePairs
  BY <1>1 DEF Sweep, TypeOK, Transactions
<1>3. UNCHANGED grantVars /\ tx[q].op = "replay" /\ tx[q].pc = "read"
      /\ \A n \in tx[q].gone, p \in Requests \ {q} : ~HoldsPair(p, n)
  BY DEF Sweep
<1>4. Minted' = Minted /\ LivePairs' = LivePairs
  BY <1>3 DEF Minted, LivePairs, grantVars
<1>5. Presented'
  BY <1>1, <1>2, <1>3, <1>4 DEF GrantInv, Presented, Busy, grantVars
<1>6. \A p \in Requests, n \in Pairs : p # q => (HoldsPair(p, n)' <=> HoldsPair(p, n))
  BY <1>1 DEF HoldsPair
<1>7. \A n \in Pairs : HoldsPair(q, n)' => HoldsPair(q, n) \/ n \in tx[q].gone
  BY <1>2, <1>3 DEF HoldsPair
<1>8. \A p \in Requests : Busy(p, "exchange")' => Busy(p, "exchange")
  BY <1>1, <1>2 DEF Busy
<1>9. Exclusive'
  BY <1>3, <1>6, <1>7, <1>8 DEF GrantInv, Exclusive
<1> QED
  BY <1>3, <1>4, <1>5, <1>9
  DEF GrantInv, Numbered, Succession, CodeFirst, MintedOnce, ReplayEndsGrant, grantVars

\* An account step: nobody begins to hold a code or a pair.
LEMMA AccountKeeps ==
  ASSUME TypeOK, GrantInv, UNCHANGED grantVars,
         \A p \in Requests, op \in TokenOps \cup {"exchange"} :
            Busy(p, op)' => Busy(p, op) /\ tx'[p] = tx[p],
         \A p \in Requests, n \in Pairs : HoldsPair(p, n)' => HoldsPair(p, n)
  PROVE  GrantInv'
<1>1. Minted' = Minted /\ LivePairs' = LivePairs
  BY DEF Minted, LivePairs, grantVars
<1>2. Presented'
  BY <1>1 DEF GrantInv, Presented, TokenOps, grantVars
<1>3. Exclusive'
  BY DEF GrantInv, Exclusive
<1> QED
  BY <1>1, <1>2, <1>3
  DEF GrantInv, Numbered, Succession, CodeFirst, MintedOnce, ReplayEndsGrant, grantVars

LEMMA MintingKeeps ==
  ASSUME TypeOK, GrantInv, NEW q \in Requests, Finish(q),
         NEW m \in {0} \cup LivePairs, Mint(m), UNCHANGED replayed,
         code' = IF m = 0 THEN "used" ELSE code,
         m = 0 => Busy(q, "exchange"),
         m # 0 => HoldsPair(q, m)
  PROVE  GrantInv'
<1>1. m = 0 => Minted = {} /\ code = "issued" /\ ~replayed
  BY DEF GrantInv, Presented, CodeFirst
<1>2. /\ Numbered' /\ Succession' /\ MintedOnce'
      /\ Minted' = Minted \cup {NextPair}
      /\ LivePairs' = (LivePairs \ {m}) \cup {NextPair}
      /\ spared \subseteq spared'
      /\ Replaying \/ m \in spared => NextPair \in spared'
  BY <1>1, MintKeeps
<1>3. CodeFirst' /\ (m # 0 => Minted # {})
  BY <1>1, <1>2 DEF GrantInv, CodeFirst, LivePairs, Minted
<1>4. ReplayEndsGrant'
  <2>1. replayed => m # 0
    BY <1>1
  <2> QED
    BY <1>2, <2>1 DEF GrantInv, ReplayEndsGrant
<1>5. NextPair \notin Minted /\ LivePairs \subseteq Minted
  BY NextPairIsNew DEF GrantInv, Mint, LivePairs, Minted
<1>6. ASSUME NEW p \in Requests
      PROVE  Presented!(p)'
  <2>1. \A op \in TokenOps \cup {"exchange"} :
            Busy(p, op)' => p # q /\ Busy(p, op) /\ tx'[p] = tx[p]
    BY FinishHolds
  <2>2. Busy(p, "exchange")' => code' = "issued"
    BY <2>1 DEF GrantInv, Exclusive, Presented, TokenOps
  <2>3. ASSUME NEW op \in {"refresh", "close"}, Busy(p, op)'
        PROVE  tx'[p].pc = "read" /\ tx'[p].n \in LivePairs'
    <3>1. p # q /\ Busy(p, op) /\ tx'[p] = tx[p]
      BY <2>1, <2>3 DEF TokenOps
    <3>2. tx[p].pc = "read" /\ tx[p].n \in LivePairs
      BY <3>1 DEF GrantInv, Presented
    <3>3. tx[p].n # m
      <4>1. tx[p].n \in Pairs /\ HoldsPair(p, tx[p].n)
        BY <3>1, <3>2 DEF HoldsPair, Busy, LivePairs
      <4> QED
        BY <1>1, <1>5, <3>1, <3>2, <4>1 DEF GrantInv, Exclusive
    <3> QED
      BY <1>2, <3>1, <3>2, <3>3
  <2>4. ASSUME Busy(p, "replay")'
        PROVE  /\ tx'[p].n \in Minted' \ LivePairs' /\ LivePairs' \subseteq tx'[p].gone \cup spared'
               /\ tx'[p].gone \cap Pairs \subseteq Minted'
    <3>1. p # q /\ Busy(p, "replay") /\ tx'[p] = tx[p]
      BY <2>1, <2>4 DEF TokenOps
    <3>2. Replaying
      BY <3>1 DEF Replaying, Busy
    <3> QED
      BY <1>2, <1>5, <3>1, <3>2 DEF GrantInv, Presented
  <2> QED
    BY <2>2, <2>3, <2>4
<1>7. Presented'
  BY <1>6 DEF Presented
<1>8. Exclusive'
  BY FinishHolds DEF GrantInv, Exclusive, TokenOps
<1> QED
  BY <1>2, <1>3, <1>4, <1>7, <1>8 DEF GrantInv

LEMMA ProceedGrant ==
  ASSUME TypeOK, GrantInv, NEW q \in Requests, Proceed(q)
  PROVE  GrantInv'
<1>1. CASE AccountProceed(q)
  <2>1. UNCHANGED grantVars
    BY <1>1
    DEF AccountProceed, Write, CommitLogin, CommitAccept, CommitEnding, CommitRestore, CommitState
  <2>2. CASE Write(q)
    <3>1. tx[q].op \in Account
          /\ \A p \in Requests : IF p = q THEN tx'[p].op = tx[p].op ELSE tx'[p] = tx[p]
      BY <2>2 DEF Write, TypeOK, Transactions
    <3> QED
      BY <2>1, <3>1, AccountKeeps DEF Busy, HoldsPair, TokenOps, Account
  <2>3. CASE Finish(q)
    BY <2>1, <2>3, AccountKeeps, FinishHolds
  <2> QED
    BY <1>1, <2>2, <2>3
    DEF AccountProceed, CommitLogin, CommitAccept, CommitEnding, CommitRestore, CommitState
<1>2. CASE CommitExchange(q)
  BY <1>2, MintingKeeps DEF CommitExchange, Busy
<1>3. CASE CommitRefresh(q)
  <2>1. /\ tx[q].n \in LivePairs /\ HoldsPair(q, tx[q].n) /\ tx[q].n # 0
        /\ Finish(q) /\ UNCHANGED <<code, replayed>>
    BY <1>3, AccessAssumption
    DEF CommitRefresh, GrantInv, Presented, Busy, HoldsPair, LivePairs, Pairs
  <2>2. CASE tx[q].op = "refresh"
    BY <1>3, <2>1, <2>2, MintingKeeps DEF CommitRefresh
  <2>3. CASE tx[q].op # "refresh"
    <3>1. pair' = Revoked({tx[q].n}) /\ UNCHANGED spared
      BY <1>3, <2>3 DEF CommitRefresh
    <3>2. tx[q].n \in Pairs /\ {tx[q].n} \cap Minted = {tx[q].n}
      BY <2>1 DEF LivePairs, Minted
    <3>3. \A p \in Requests : (Busy(p, "refresh") \/ Busy(p, "close"))' => tx[p].n # tx[q].n
      BY <2>1, <3>2, FinishHolds DEF TokenOps, GrantInv, Exclusive, HoldsPair, Busy
    <3> QED
      BY <2>1, <3>1, <3>2, <3>3, FinishHolds, RevokingKeeps
  <2> QED
    BY <2>2, <2>3
<1>4. CASE CommitReplay(q)
  <2>1. /\ Busy(q, "replay") /\ Finish(q) /\ UNCHANGED <<code, spared>>
        /\ pair' = Revoked(tx[q].gone) /\ \A n \in tx[q].gone \cap Pairs : HoldsPair(q, n)
    BY <1>4 DEF CommitReplay, Busy, HoldsPair
  <2>2. /\ Minted # {} /\ LivePairs \subseteq spared \cup tx[q].gone
        /\ tx[q].gone \cap Pairs \subseteq Minted
    BY <2>1 DEF GrantInv, Presented
  <2>3. PICK rows \in SUBSET Pairs : rows = tx[q].gone \cap Pairs
    OBVIOUS
  <2>4. pair' = Revoked(rows \cap Minted) /\ LivePairs \subseteq spared \cup rows
    BY <2>1, <2>2, <2>3 DEF Revoked, LivePairs
  <2>5. \A p \in Requests : (Busy(p, "refresh") \/ Busy(p, "close"))' => tx[p].n \notin rows
    <3>1. ASSUME NEW p \in Requests, (Busy(p, "refresh") \/ Busy(p, "close"))'
          PROVE  tx[p].n \notin rows
      <4>1. p # q /\ (Busy(p, "refresh") \/ Busy(p, "close"))
        BY <2>1, <3>1, FinishHolds DEF TokenOps
      <4>2. tx[p].n \in Pairs /\ HoldsPair(p, tx[p].n)
        BY <4>1 DEF GrantInv, Presented, HoldsPair, Busy, LivePairs
      <4> QED
        BY <2>1, <2>3, <4>1, <4>2 DEF GrantInv, Exclusive
    <3> QED
      BY <3>1
  <2> QED
    BY <2>1, <2>2, <2>4, <2>5, FinishHolds, RevokingKeeps
<1> QED
  BY <1>1, <1>2, <1>3, <1>4, SweepKeeps DEF Proceed, AccountProceed

LEMMA NextGrant ==
  ASSUME TypeOK, GrantInv, [Next]_vars
  PROVE  GrantInv'
<1>1. ASSUME NEW q \in Requests, Abort(q)
      PROVE  GrantInv'
  BY <1>1, AccountKeeps, FinishHolds DEF Abort
<1>2. CASE IssueCode
  <2>1. Minted' = Minted /\ LivePairs' = LivePairs /\ Minted = {} /\ ~replayed
    BY <1>2 DEF IssueCode, Minted, LivePairs, GrantInv, CodeFirst
  <2>2. \A p \in Requests : ~Busy(p, "exchange")
    BY <1>2 DEF IssueCode, GrantInv, Presented
  <2>3. UNCHANGED <<pair, tx, replayed, spared>> /\ code' = "issued"
    BY <1>2 DEF IssueCode
  <2>4. Presented' /\ Exclusive'
    BY <2>1, <2>2, <2>3 DEF GrantInv, Presented, Exclusive, Busy, HoldsPair
  <2> QED
    BY <2>1, <2>3, <2>4
    DEF GrantInv, Numbered, Succession, CodeFirst, MintedOnce, ReplayEndsGrant
<1>3. ASSUME NEW n \in Pairs, RevokePair(n)
      PROVE  GrantInv'
  <2>1. n \in Minted /\ pair' = Revoked({n} \cap Minted) /\ UNCHANGED <<code, tx, replayed, spared>>
    BY <1>3 DEF RevokePair, LivePairs, Minted
  <2>2. \A p \in Requests : (Busy(p, "refresh") \/ Busy(p, "close"))' => tx[p].n # n
    BY <1>3, <2>1 DEF RevokePair, HeldPair, HoldsPair, Busy
  <2> QED
    BY <2>1, <2>2, RevokingKeeps DEF Busy, HoldsPair
<1>4. CASE (\E s \in Sessions : Logout(s)) \/ RevokeAllSessions \/ InviteUser
           \/ RequestPasswordReset \/ UNCHANGED vars
  <2>1. UNCHANGED <<grantVars, tx>>
    BY <1>4 DEF Logout, RevokeAllSessions, InviteUser, RequestPasswordReset, Issue, vars
  <2> QED
    BY <2>1, AccountKeeps DEF Busy, HoldsPair
<1> QED
  BY <1>1, <1>2, <1>3, <1>4, ArriveGrant, ProceedGrant DEF Next

-----------------------------------------------------------------------------
(* The theorems. *)

Inv == TypeOK /\ SessionInv /\ GrantInv

LEMMA InitInv == Init => Inv
<1> SUFFICES ASSUME Init PROVE Inv
  OBVIOUS
<1>1. \A q \in Requests : tx[q] = Idle
  BY DEF Init
<1>2. SessionInv
  BY <1>1 DEF Init, SessionInv, EndingsSee, EndingsEndSessions, Ending, OpenSessions, Idle
<1>3. Minted = {} /\ LivePairs = {} /\ ~replayed
  BY DEF Init, Minted, LivePairs
<1>4. Numbered
  <2>1. 0 \in 0 .. MaxPairs /\ Minted = 1 .. 0
    BY <1>3, AccessAssumption
  <2> QED
    BY <2>1 DEF Numbered
<1>5. Presented /\ Exclusive
  BY <1>1 DEF Presented, Exclusive, Busy, HoldsPair, Idle
<1>6. GrantInv
  BY <1>3, <1>4, <1>5 DEF GrantInv, Succession, CodeFirst, MintedOnce, ReplayEndsGrant
<1> QED
  BY <1>2, <1>6, InitTypes DEF Inv

LEMMA NextInv == Inv /\ [Next]_vars => Inv'
<1> SUFFICES ASSUME Inv, [Next]_vars PROVE Inv'
  OBVIOUS
<1>1. Tokens
  BY DEF Inv, GrantInv, Presented, Tokens, Busy, LivePairs, Minted
<1> QED
  BY <1>1, NextTypes, NextSessions, NextGrant DEF Inv

LEMMA SpecInv == Spec => []Inv
  BY InitInv, NextInv, PTL DEF Spec

\* The state of the account, its links, sessions, requests and pairs stays in
\* its types, for any number of requests.
THEOREM TypeCorrect == Spec => []TypeOK
  BY SpecInv, PTL DEF Inv

\* For any number of overlapping requests, a code makes one pair and a pair has
\* one successor (exchange_code and refresh read their row FOR UPDATE).
THEOREM SpentOnce == Spec => []MintedOnce
<1>1. Inv => MintedOnce
  BY DEF Inv, GrantInv
<1> QED
  BY <1>1, SpecInv, PTL

\* For any number of overlapping requests, once a used refresh token has come
\* back only what was minted beside that request works, and what came of it.
THEOREM ReplayEnds == Spec => []ReplayEndsGrant
<1>1. Inv => ReplayEndsGrant
  BY DEF Inv, GrantInv
<1> QED
  BY <1>1, SpecInv, PTL

\* For any number of overlapping requests, a deactivation or a reset leaves no
\* session open but those whose opening overlapped it (AUTH-03).
THEOREM EndingsEnd == Spec => []EndingsEndSessions
<1>1. Inv => EndingsEndSessions
  BY DEF Inv, SessionInv
<1> QED
  BY <1>1, SpecInv, PTL

-----------------------------------------------------------------------------
(* Reading. *)

LEMMA ReadingConstants ==
  /\ Students \subseteq Nat /\ Weeks \subseteq Nat \ {0} /\ Names \subseteq Nat \ {0}
  /\ Professor \notin Students /\ PageSize \in Nat \ {0} /\ MaxReadings \in Nat /\ MaxChanges \in Nat
BY ReadingAssumption

-----------------------------------------------------------------------------
(* What a reader holds, kind by kind. *)

Theirs(who) == {s \in Students : who = Professor \/ s = who}

LEMMA HoldsOfReports ==
  ASSUME NEW who, NEW was, NEW r \in Reports, r[1] \in Theirs(who)
  PROVE  /\ <<"report", r, 0>> \in Holds(who, was)
         /\ filed[r] # 0 => /\ <<"version", r, 0>> \in Holds(who, was)
                            /\ <<"chunk", r, 0>> \in Holds(who, was)
         /\ on[r[1]] = "on" \/ (ask.what # "board" /\ on[r[1]] # "never") =>
               <<"obligation", r, 0>> \in Holds(who, was)
BY DEF Holds, Theirs

LEMMA HoldsOfAssessments ==
  ASSUME NEW who, NEW was, NEW r \in Reports, NEW v \in Versions, r[1] \in Theirs(who)
  PROVE  /\ review[r][v] = "approved" \/ (who = Professor /\ review[r][v] \in ReviewStates \ {"none"}) =>
               <<"assessment", r, v>> \in Holds(who, was)
         /\ who = Professor /\ review[r][v] = "draft" => <<"waiting", r, v>> \in Holds(who, was)
<1> DEFINE x == <<r, v>>
           ofTheirs == {q \in Reports : q[1] \in Theirs(who)}
<1>1. x \in ofTheirs \X Versions /\ x[1] = r /\ x[2] = v
  OBVIOUS
<1>2. "approved" \in ReviewStates \ {"none"}
  BY DEF ReviewStates
<1> HIDE DEF x
<1> QED
  BY <1>1, <1>2 DEF Holds, Theirs

\* A review in a state that may be shown beside its assessment.
Stated(who, r, v) ==
    /\ r \in Reports /\ v \in Versions /\ r[1] \in Theirs(who)
    /\ review[r][v] \in (IF who = Professor THEN ReviewStates \ {"none"} ELSE Decided)

LEMMA HoldsOfStates ==
  ASSUME NEW who, NEW was, NEW r, NEW v, Stated(who, r, v)
  PROVE  <<review[r][v], r, v>> \in Holds(who, was)
<1> DEFINE x == <<r, v>>
           ofTheirs == {q \in Reports : q[1] \in Theirs(who)}
<1>1. x \in ofTheirs \X Versions /\ x[1] = r /\ x[2] = v
  BY DEF Stated
<1>2. review[r][v] \in (IF who = Professor THEN ReviewStates \ {"none"} ELSE Decided)
  BY DEF Stated
<1> HIDE DEF x
<1> QED
  BY <1>1, <1>2 DEF Holds, Theirs

LEMMA HoldsOfFeedback ==
  ASSUME NEW who, NEW was, NEW s \in Theirs(who), NEW v \in Versions
  PROVE  /\ (IF who = Professor THEN v <= written[s] ELSE v = published[s]) =>
               /\ <<"feedback", s, v>> \in Holds(who, was)
               /\ <<"revision", s, v>> \in Holds(who, was)
         /\ v <= (IF who = Professor THEN written[s] ELSE published[s]) =>
               <<"attached", s, v>> \in Holds(who, was)
<1> DEFINE x == <<s, v>>
<1>1. x \in Theirs(who) \X Versions /\ x[1] = s /\ x[2] = v
  OBVIOUS
<1> HIDE DEF x
<1> QED
  BY <1>1 DEF Holds, Theirs

LEMMA HoldsOfProject ==
  ASSUME NEW who, NEW was
  PROVE  /\ \A f \in Files : /\ artifact[f].state # "none"
                             /\ \/ who = Professor \/ artifact[f].by = who
                                \/ artifact[f].to = "project" /\ was
               => <<"file", f, 0>> \in Holds(who, was)
         /\ \A s \in Theirs(who) : <<"name", s, 0>> \in Holds(who, was)
         /\ \A s \in Students : on[s] = "on" /\ (who = Professor \/ was \/ s = who) =>
               <<"member", s, 0>> \in Holds(who, was)
         /\ who = Professor \/ who = Creator \/ on[who] # "never" => TheProject \in Holds(who, was)
BY DEF Holds, Theirs

-----------------------------------------------------------------------------
(* A request. *)

QueryNames == {"page", "titles", "names", "obligations", "owed", "links", "report", "versions",
               "assessments", "series", "drafts", "reviews", "feedback", "revision", "attachments", "summaries",
               "counts", "revisions", "artifacts", "file", "project", "members", "window", "entries"}

\* What a request may still ask.
May(a, q) ==
    /\ q \in QueryNames
    /\ a.what = "snapshot" => q \in {"window", "entries"}
    /\ a.what = "reports" => q \in {"page", "titles", "obligations", "links", "reviews"}
    /\ q = "obligations" => a.what # "board"
    /\ q = "drafts" => a.who = Professor
    /\ q = "titles" => a.who = Professor \/ a.what = "reports"
    /\ q = "page" => a.what = "reports" /\ a.left = ReportList

IsAsk(a) ==
    a = [who |-> a.who, member |-> a.member, was |-> a.was, what |-> a.what, of |-> a.of,
         left |-> a.left, shown |-> a.shown, needsReview |-> a.needsReview, cursor |-> a.cursor,
         more |-> a.more, times |-> a.times, standing |-> a.standing, renamed |-> a.renamed]

\* The reader's rights within the request: a project in its Scope is one they
\* have been on, and whoever was on it once stays so in the record.
AskFits ==
    /\ IsAsk(ask) /\ ask.who \in Readers /\ ask.was \in BOOLEAN /\ ask.member \in BOOLEAN
    /\ ask.left \in Seq(QueryNames) /\ \A i \in 1 .. Len(ask.left) : May(ask, ask.left[i])
    /\ ask.was => ask.who # Professor /\ on[ask.who] # "never"
    /\ ask.member /\ ask.what # "snapshot" => ask.was
    /\ ask.what = "reports" /\ ask.shown # {} => ask.who = Professor \/ on[ask.who] # "never"
    /\ ask.what = "none" => ask.left = << >> /\ ask.shown = {}

ReadingShape ==
    /\ ReadingTypeOK /\ AskFits
    /\ \A r \in Reports : filed[r] # 0 => on[r[1]] # "never"

LEMMA VisibleIsTheirs ==
  ASSUME NEW a
  PROVE  /\ \A r \in ReportVisible(a) : r \in Reports /\ r[1] \in Theirs(a.who)
         /\ \A r \in ObligationVisible(a) : r \in Reports /\ r[1] \in Theirs(a.who) /\ on[r[1]] # "never"
         /\ \A r \in ChunkVisible(a) : r \in Reports /\ r[1] \in Theirs(a.who) /\ filed[r] # 0
         /\ \A s \in FeedbackVisible(a) : s \in Theirs(a.who)
         /\ \A s \in UserVisible(a) : s \in Theirs(a.who)
BY DEF ReportVisible, ObligationVisible, ChunkVisible, FeedbackVisible, UserVisible, Theirs, IsProf,
       Reports

\* An assessment that may be read holds for its reader, and so for the professor
\* what waits for a review.
LEMMA AssessmentsHeld ==
  ASSUME ReadingShape, NEW x \in AssessmentVisible(ask)
  PROVE  /\ <<"assessment", x[1], x[2]>> \in Holds(ask.who, ask.was)
         /\ ask.who = Professor /\ review[x[1]][x[2]] = "draft" =>
               <<"waiting", x[1], x[2]>> \in Holds(ask.who, ask.was)
<1>1. PICK r \in Reports, v \in Versions : x = <<r, v>>
  BY DEF AssessmentVisible
<1>2. review[r][v] \in ReviewStates
  BY DEF ReadingShape, ReadingTypeOK
<1>3. r[1] \in Students /\ (ask.who = Professor \/ r[1] = ask.who)
  BY <1>1 DEF AssessmentVisible, IsProf, Reports
<1>4. review[r][v] = "approved" \/ (ask.who = Professor /\ review[r][v] # "none")
  BY <1>1 DEF AssessmentVisible, IsProf
<1> QED
  BY <1>1, <1>2, <1>3, <1>4, HoldsOfAssessments DEF Theirs

LEMMA FeedbackHeld ==
  ASSUME ReadingShape
  PROVE  /\ \A s \in FeedbackVisible(ask) :
               /\ <<"feedback", s, ShownVersion(ask, s)>> \in Holds(ask.who, ask.was)
               /\ <<"revision", s, ShownVersion(ask, s)>> \in Holds(ask.who, ask.was)
         /\ \A x \in RevisionVisible(ask) : <<"revision", x[1], x[2]>> \in Holds(ask.who, ask.was)
         /\ \A s \in Students, f \in Versions : \A n \in f .. MaxReadings :
               <<s, n>> \in RevisionVisible(ask) =>
                   <<"attached", s, f>> \in Holds(ask.who, ask.was)
<1>1. ASSUME NEW s \in FeedbackVisible(ask)
      PROVE  /\ <<"feedback", s, ShownVersion(ask, s)>> \in Holds(ask.who, ask.was)
             /\ <<"revision", s, ShownVersion(ask, s)>> \in Holds(ask.who, ask.was)
  <2>1. s \in Theirs(ask.who) /\ s \in Students /\ written[s] > 0
    BY VisibleIsTheirs DEF FeedbackVisible
  <2>2. written[s] \in 0 .. MaxReadings /\ published[s] \in 0 .. MaxReadings /\ MaxReadings \in Nat
    BY <2>1, ReadingConstants DEF ReadingShape, ReadingTypeOK
  <2>3. CASE ask.who = Professor
    <3>1. ShownVersion(ask, s) = written[s] /\ written[s] \in Versions /\ written[s] <= written[s]
      BY <2>1, <2>2, <2>3 DEF ShownVersion, IsProf, Versions
    <3> QED
      BY <2>1, <2>3, <3>1, HoldsOfFeedback
  <2>4. CASE ask.who # Professor
    <3>1. ShownVersion(ask, s) = published[s] /\ published[s] \in Versions
      BY <2>1, <2>2, <2>4 DEF ShownVersion, IsProf, Versions, FeedbackVisible
    <3> QED
      BY <2>1, <2>4, <3>1, HoldsOfFeedback
  <2> QED
    BY <2>3, <2>4
<1>2. ASSUME NEW s, NEW n, <<s, n>> \in RevisionVisible(ask)
      PROVE  /\ s \in Theirs(ask.who) /\ s \in Students /\ n \in Versions
             /\ IF ask.who = Professor THEN n <= written[s] ELSE n = published[s]
  BY <1>2, VisibleIsTheirs DEF RevisionVisible, FeedbackVisible, IsProf
<1>3. ASSUME NEW x \in RevisionVisible(ask)
      PROVE  <<"revision", x[1], x[2]>> \in Holds(ask.who, ask.was)
  <2>1. x = <<x[1], x[2]>>
    BY DEF RevisionVisible
  <2> QED
    BY <1>2, <2>1, HoldsOfFeedback
<1>4. ASSUME NEW s \in Students, NEW f \in Versions, NEW n \in f .. MaxReadings,
             <<s, n>> \in RevisionVisible(ask)
      PROVE  <<"attached", s, f>> \in Holds(ask.who, ask.was)
  <2>1. /\ s \in Theirs(ask.who)
        /\ IF ask.who = Professor THEN n <= written[s] ELSE n = published[s]
    BY <1>2, <1>4
  <2>2. written[s] \in Nat /\ f \in Nat /\ n \in Nat /\ f <= n
    BY ReadingConstants DEF ReadingShape, ReadingTypeOK, Versions
  <2>3. f <= (IF ask.who = Professor THEN written[s] ELSE published[s])
    BY <2>1, <2>2
  <2> QED
    BY <2>1, <2>3, HoldsOfFeedback
<1> QED
  BY <1>1, <1>3, <1>4

\* What the request has shown of assessments stays one whose review's state may
\* be shown: an approved one may be withdrawn or superseded, never drafted again.
Linked ==
    \A r, v : <<"assessment", r, v>> \in ask.shown \/ <<"waiting", r, v>> \in ask.shown =>
                  Stated(ask.who, r, v)

\* Whatever a query answers holds for the reader while it is answered.
LEMMA FoundHolds ==
  ASSUME ReadingShape, Linked, ask.left # << >>
  PROVE  Found(Head(ask.left), ask) \subseteq Holds(ask.who, ask.was)
<1> DEFINE q == Head(ask.left)
           H == Holds(ask.who, ask.was)
<1> SUFFICES Found(q, ask) \subseteq H
  OBVIOUS
<1>1. /\ q \in QueryNames /\ May(ask, q)
      /\ ask.who \in Readers /\ ask.member \in BOOLEAN /\ ask.was \in BOOLEAN
  BY HeadTailProperties DEF ReadingShape, AskFits, May
<1>2. ask.member /\ ask.what # "snapshot" => ask.was
  BY DEF ReadingShape, AskFits
<1>3. ask.was => on[ask.who] # "never"
  BY DEF ReadingShape, AskFits
<1> HIDE DEF q, H
<1>4. \A r \in ReportVisible(ask) : <<"report", r, 0>> \in H
  BY VisibleIsTheirs, HoldsOfReports DEF H
<1>5. CASE q = "page"
  BY <1>4, <1>5 DEF Found, Page, Remaining, Listed
<1>6. CASE q = "titles"
  <2>1. ask.shown # {} => ask.who = Professor \/ on[ask.who] # "never"
    BY <1>1, <1>6 DEF May, ReadingShape, AskFits
  <2>2. Found(q, ask) = Titles(ask)
    BY <1>6 DEF Found
  <2> QED
    BY <2>1, <2>2, HoldsOfProject DEF Titles, H
<1>7. CASE q = "names"
  <2>1. Found(q, ask) = Named(ask)
    BY <1>7 DEF Found
  <2> QED
    BY <2>1, VisibleIsTheirs, HoldsOfProject DEF Named, H
<1>8. CASE q = "obligations"
  <2>1. Found(q, ask) = ObligationsForWeeks(ask) /\ ask.what # "board"
    BY <1>1, <1>8 DEF Found, May
  <2> QED
    BY <2>1, VisibleIsTheirs, HoldsOfReports DEF ObligationsForWeeks, H
<1>9. CASE q = "owed"
  <2>1. Found(q, ask) = StillOwed(ask)
    BY <1>9 DEF Found
  <2> QED
    BY <2>1, VisibleIsTheirs, HoldsOfReports DEF StillOwed, H
<1>10. CASE q \in {"links", "assessments", "series"}
  <2>1. \A x \in AssessmentVisible(ask) : <<"assessment", x[1], x[2]>> \in H
    BY AssessmentsHeld DEF H
  <2>2. Found(q, ask) \in {LatestForWeeks(ask), ListAssessments(ask), ApprovedSeries(ask)}
    BY <1>10 DEF Found
  <2> QED
    BY <2>1, <2>2 DEF LatestForWeeks, ListAssessments, ApprovedSeries, Assessments
<1>11. CASE q = "report"
  BY <1>4, <1>11 DEF Found
<1>12. CASE q = "versions"
  <2>1. Found(q, ask) = {<<"version", r, 0>> : r \in VersionVisible(ask) \cap {ask.of}}
    BY <1>12 DEF Found
  <2> QED
    BY <2>1, VisibleIsTheirs, HoldsOfReports DEF VersionVisible, H
<1>13. CASE q = "drafts"
  <2>1. Found(q, ask) = ReviewQueue(ask) /\ ask.who = Professor
    BY <1>1, <1>13 DEF Found, May
  <2> QED
    BY <2>1, AssessmentsHeld DEF ReviewQueue, H
<1>14. CASE q \in {"feedback", "revision", "summaries", "revisions"}
  <2>1. Found(q, ask) \in {GetFeedback(ask), GetRevision(ask), Summaries(ask), Revisions(ask)}
    BY <1>14 DEF Found
  <2>2. GetFeedback(ask) \subseteq H /\ Summaries(ask) \subseteq H
    BY FeedbackHeld DEF GetFeedback, Summaries, H
  <2>3. GetRevision(ask) \subseteq H /\ Revisions(ask) \subseteq H
    BY FeedbackHeld DEF GetRevision, Revisions, H
  <2> QED
    BY <2>1, <2>2, <2>3
<1>15. CASE q = "attachments"
  <2>1. Found(q, ask) \subseteq {<<"attached", x[1], x[2]>> : x \in AttachmentVisible(ask)}
    BY <1>15 DEF Found, Attachments
  <2>2. \A x \in AttachmentVisible(ask) : <<"attached", x[1], x[2]>> \in H
    BY FeedbackHeld DEF AttachmentVisible, H
  <2> QED
    BY <2>1, <2>2
<1>16. CASE q = "counts"
  <2>1. Found(q, ask) = Counts(ask)
    BY <1>16 DEF Found
  <2>2. \A x \in Students \X Versions : \A n \in x[2] .. MaxReadings :
            <<x[1], n>> \in RevisionVisible(ask) => <<"attached", x[1], x[2]>> \in H
    BY FeedbackHeld DEF H
  <2> QED
    BY <2>1, <2>2 DEF Counts
<1>17. CASE q \in {"artifacts", "file"}
  <2>1. Found(q, ask) \subseteq {<<"file", f, 0>> : f \in ArtifactVisible(ask)}
    BY <1>17 DEF Found, ListArtifacts
  <2>2. ask.member => ask.was
    BY <1>1, <1>2, <1>17 DEF May
  <2>3. \A f \in ArtifactVisible(ask) : <<"file", f, 0>> \in H
    BY <2>2, HoldsOfProject DEF ArtifactVisible, IsProf, H
  <2> QED
    BY <2>1, <2>3
<1>18. CASE q = "project"
  <2>1. Found(q, ask) = IF ProjectVisible(ask) THEN {TheProject} ELSE {}
    BY <1>18 DEF Found
  <2>2. ask.member => ask.was
    BY <1>1, <1>2, <1>18 DEF May
  <2> QED
    BY <1>3, <2>1, <2>2, HoldsOfProject DEF ProjectVisible, IsProf, H
<1>19. CASE q = "members"
  <2>1. Found(q, ask) = Members(ask)
    BY <1>19 DEF Found
  <2>2. ask.member => ask.was
    BY <1>1, <1>2, <1>19 DEF May
  <2> QED
    BY <2>1, <2>2, HoldsOfProject DEF Members, MembershipVisible, IsProf, H
<1>20. CASE q \in {"window", "entries"}
  <2>1. Found(q, ask) \subseteq {<<"chunk", r, 0>> : r \in ChunkVisible(ask)}
    BY <1>20 DEF Found, InWindow, OfEntries
  <2>2. \A r \in ChunkVisible(ask) : <<"chunk", r, 0>> \in H
    BY VisibleIsTheirs, HoldsOfReports DEF H
  <2> QED
    BY <2>1, <2>2
<1>21. CASE q = "reviews"
  <2>1. Found(q, ask) = ReviewsFor(ask)
    BY <1>21 DEF Found
  <2>2. ASSUME NEW x \in Reports \X Versions, NEW kind \in {"assessment", "waiting"},
               <<kind, x[1], x[2]>> \in ask.shown
        PROVE  <<review[x[1]][x[2]], x[1], x[2]>> \in H
    <3>1. Stated(ask.who, x[1], x[2])
      BY <2>2 DEF Linked
    <3> QED
      BY <3>1, HoldsOfStates DEF H
  <2> QED
    BY <2>1, <2>2 DEF ReviewsFor
<1> QED
  BY <1>1, <1>5, <1>6, <1>7, <1>8, <1>9, <1>10, <1>11, <1>12, <1>13, <1>14, <1>15, <1>16, <1>17,
     <1>18, <1>19, <1>20, <1>21 DEF QueryNames, q, H

-----------------------------------------------------------------------------
(* The steps. *)

LEMMA Begins ==
  ASSUME NEW a, a.what \in Readings, a.left = Queries(a.what),
         a.what \in ForProfessor => a.who = Professor
  PROVE  a.left \in Seq(QueryNames) /\ \A i \in 1 .. Len(a.left) : May(a, a.left[i])
<1>1. CASE a.what = "reports"
  <2>1. a.left = <<"page", "titles", "obligations", "links", "reviews">>
    BY <1>1 DEF Queries, ReportList
  <2>2. a.left \in Seq(QueryNames)
    BY <2>1 DEF QueryNames
  <2>3. \A i \in 1 .. Len(a.left) : a.left[i] \in {"page", "titles", "obligations", "links", "reviews"}
    BY <2>1
  <2>4. \A q \in {"page", "titles", "obligations", "links", "reviews"} : May(a, q)
    BY <1>1, <2>1 DEF May, QueryNames, ForProfessor, ReportList
  <2> QED
    BY <2>2, <2>3, <2>4
<1>2. CASE a.what = "report"
  <2>1. a.left = <<"report", "versions">>
    BY <1>2 DEF Queries, OneReport
  <2>2. a.left \in Seq(QueryNames)
    BY <2>1 DEF QueryNames
  <2>3. \A i \in 1 .. Len(a.left) : a.left[i] \in {"report", "versions"}
    BY <2>1
  <2>4. \A q \in {"report", "versions"} : May(a, q)
    BY <1>2, <2>1 DEF May, QueryNames, ForProfessor
  <2> QED
    BY <2>2, <2>3, <2>4
<1>3. CASE a.what = "assessments"
  <2>1. a.left = <<"assessments", "reviews">>
    BY <1>3 DEF Queries, AssessmentList
  <2>2. a.left \in Seq(QueryNames)
    BY <2>1 DEF QueryNames
  <2>3. \A i \in 1 .. Len(a.left) : a.left[i] \in {"assessments", "reviews"}
    BY <2>1
  <2>4. \A q \in {"assessments", "reviews"} : May(a, q)
    BY <1>3, <2>1 DEF May, QueryNames, ForProfessor
  <2> QED
    BY <2>2, <2>3, <2>4
<1>4. CASE a.what = "trend"
  <2>1. a.left = <<"series", "reviews">>
    BY <1>4 DEF Queries, Trend
  <2>2. a.left \in Seq(QueryNames)
    BY <2>1 DEF QueryNames
  <2>3. \A i \in 1 .. Len(a.left) : a.left[i] \in {"series", "reviews"}
    BY <2>1
  <2>4. \A q \in {"series", "reviews"} : May(a, q)
    BY <1>4, <2>1 DEF May, QueryNames, ForProfessor
  <2> QED
    BY <2>2, <2>3, <2>4
<1>5. CASE a.what = "queue"
  <2>1. a.left = <<"drafts", "reviews", "titles", "names">>
    BY <1>5 DEF Queries, Queue
  <2>2. a.left \in Seq(QueryNames)
    BY <2>1 DEF QueryNames
  <2>3. \A i \in 1 .. Len(a.left) : a.left[i] \in {"drafts", "reviews", "titles", "names"}
    BY <2>1
  <2>4. \A q \in {"drafts", "reviews", "titles", "names"} : May(a, q)
    BY <1>5, <2>1 DEF May, QueryNames, ForProfessor
  <2> QED
    BY <2>2, <2>3, <2>4
<1>6. CASE a.what = "feedback"
  <2>1. a.left = <<"feedback", "revision", "attachments">>
    BY <1>6 DEF Queries, OneFeedback
  <2>2. a.left \in Seq(QueryNames)
    BY <2>1 DEF QueryNames
  <2>3. \A i \in 1 .. Len(a.left) : a.left[i] \in {"feedback", "revision", "attachments"}
    BY <2>1
  <2>4. \A q \in {"feedback", "revision", "attachments"} : May(a, q)
    BY <1>6, <2>1 DEF May, QueryNames, ForProfessor
  <2> QED
    BY <2>2, <2>3, <2>4
<1>7. CASE a.what = "feedbacks"
  <2>1. a.left = <<"summaries", "counts">>
    BY <1>7 DEF Queries, FeedbackList
  <2>2. a.left \in Seq(QueryNames)
    BY <2>1 DEF QueryNames
  <2>3. \A i \in 1 .. Len(a.left) : a.left[i] \in {"summaries", "counts"}
    BY <2>1
  <2>4. \A q \in {"summaries", "counts"} : May(a, q)
    BY <1>7, <2>1 DEF May, QueryNames, ForProfessor
  <2> QED
    BY <2>2, <2>3, <2>4
<1>8. CASE a.what = "history"
  <2>1. a.left = <<"feedback", "revisions">>
    BY <1>8 DEF Queries, History
  <2>2. a.left \in Seq(QueryNames)
    BY <2>1 DEF QueryNames
  <2>3. \A i \in 1 .. Len(a.left) : a.left[i] \in {"feedback", "revisions"}
    BY <2>1
  <2>4. \A q \in {"feedback", "revisions"} : May(a, q)
    BY <1>8, <2>1 DEF May, QueryNames, ForProfessor
  <2> QED
    BY <2>2, <2>3, <2>4
<1>9. CASE a.what = "artifacts"
  <2>1. a.left = <<"artifacts">>
    BY <1>9 DEF Queries
  <2>2. a.left \in Seq(QueryNames)
    BY <2>1 DEF QueryNames
  <2>3. \A i \in 1 .. Len(a.left) : a.left[i] \in {"artifacts"}
    BY <2>1
  <2>4. \A q \in {"artifacts"} : May(a, q)
    BY <1>9, <2>1 DEF May, QueryNames, ForProfessor
  <2> QED
    BY <2>2, <2>3, <2>4
<1>10. CASE a.what = "artifact"
  <2>1. a.left = <<"file">>
    BY <1>10 DEF Queries
  <2>2. a.left \in Seq(QueryNames)
    BY <2>1 DEF QueryNames
  <2>3. \A i \in 1 .. Len(a.left) : a.left[i] \in {"file"}
    BY <2>1
  <2>4. \A q \in {"file"} : May(a, q)
    BY <1>10, <2>1 DEF May, QueryNames, ForProfessor
  <2> QED
    BY <2>2, <2>3, <2>4
<1>11. CASE a.what = "project"
  <2>1. a.left = <<"project", "members">>
    BY <1>11 DEF Queries, OneProject
  <2>2. a.left \in Seq(QueryNames)
    BY <2>1 DEF QueryNames
  <2>3. \A i \in 1 .. Len(a.left) : a.left[i] \in {"project", "members"}
    BY <2>1
  <2>4. \A q \in {"project", "members"} : May(a, q)
    BY <1>11, <2>1 DEF May, QueryNames, ForProfessor
  <2> QED
    BY <2>2, <2>3, <2>4
<1>12. CASE a.what = "board"
  <2>1. a.left = <<"owed", "titles", "names">>
    BY <1>12 DEF Queries, Board
  <2>2. a.left \in Seq(QueryNames)
    BY <2>1 DEF QueryNames
  <2>3. \A i \in 1 .. Len(a.left) : a.left[i] \in {"owed", "titles", "names"}
    BY <2>1
  <2>4. \A q \in {"owed", "titles", "names"} : May(a, q)
    BY <1>12, <2>1 DEF May, QueryNames, ForProfessor
  <2> QED
    BY <2>2, <2>3, <2>4
<1>13. CASE a.what = "snapshot"
  <2>1. a.left = <<"window", "entries">>
    BY <1>13 DEF Queries, SnapshotOf
  <2>2. a.left \in Seq(QueryNames)
    BY <2>1 DEF QueryNames
  <2>3. \A i \in 1 .. Len(a.left) : a.left[i] \in {"window", "entries"}
    BY <2>1
  <2>4. \A q \in {"window", "entries"} : May(a, q)
    BY <1>13, <2>1 DEF May, QueryNames, ForProfessor
  <2> QED
    BY <2>2, <2>3, <2>4
<1> QED
  BY <1>1, <1>2, <1>3, <1>4, <1>5, <1>6, <1>7, <1>8, <1>9, <1>10, <1>11, <1>12, <1>13 DEF Readings

LEMMA GoesOn ==
  ASSUME NEW a, NEW b, a.left \in Seq(QueryNames), a.left # << >>,
         \A i \in 1 .. Len(a.left) : May(a, a.left[i]),
         b.who = a.who, b.what = a.what, b.left = Tail(a.left) \/ b.left = << >>
  PROVE  b.left \in Seq(QueryNames) /\ \A i \in 1 .. Len(b.left) : May(b, b.left[i])
<1>1. CASE b.left = << >>
  BY <1>1
<1>2. CASE b.left = Tail(a.left)
  <2>1. /\ b.left \in Seq(QueryNames) /\ Len(b.left) = Len(a.left) - 1
        /\ \A i \in 1 .. Len(b.left) : b.left[i] = a.left[i + 1]
    BY <1>2, HeadTailProperties
  <2>2. ASSUME NEW i \in 1 .. Len(b.left)
        PROVE  May(b, b.left[i])
    <3>1. i + 1 \in 1 .. Len(a.left) /\ b.left[i] = a.left[i + 1]
      BY <2>1, LenProperties
    <3>2. May(a, b.left[i])
      BY <3>1
    <3>3. b.left[i] # "page"
      <4>1. SUFFICES ASSUME a.left = ReportList
                     PROVE  a.left[i + 1] # "page"
        BY <3>1, <3>2 DEF May
      <4>2. i + 1 \in 2 .. 5
        BY <3>1, <4>1 DEF ReportList
      <4> QED
        BY <4>1, <4>2 DEF ReportList
    <3> QED
      BY <3>2, <3>3 DEF May
  <2> QED
    BY <2>1, <2>2
<1> QED
  BY <1>1, <1>2

\* A request that begins.
AskBegins(who, what, needs) ==
    /\ UNCHANGED world /\ revoked' = {} /\ ask.what = "none"
    /\ IsAsk(ask') /\ ask'.who = who /\ ask'.what = what /\ ask'.left = Queries(what)
    /\ ask'.member \in BOOLEAN /\ ask'.was \in BOOLEAN
    /\ ask'.member <=> who # Professor /\ (what = "snapshot" \/ on[who] = "on")
    /\ ask'.was <=> who # Professor /\ on[who] = "on"
    /\ ask'.shown = {} /\ ask'.cursor = Top /\ ask'.more = FALSE /\ ask'.times = NoTimes
    /\ ask'.renamed = {} /\ ask'.needsReview = needs
    /\ \A r \in ask'.standing : r \in Listed(ask') /\ what = "reports"
    /\ what \in ForProfessor => who = Professor

LEMMA AskDoes ==
  ASSUME NEW who \in Readers, NEW what \in Readings, NEW of, NEW needs \in BOOLEAN,
         Ask(who, what, of, needs)
  PROVE  AskBegins(who, what, needs)
<1> DEFINE scope == ScopeFor(who, what)
           was == who # Professor /\ on[who] = "on"
           begun == [NoAsk EXCEPT !.who = who, !.member = scope.member, !.what = what, !.of = of,
                        !.was = was, !.left = Queries(what), !.needsReview = needs]
           new == [who |-> who, member |-> scope.member, was |-> was,
                   what |-> what, of |-> of, left |-> Queries(what), shown |-> {},
                   needsReview |-> needs, cursor |-> Top, more |-> FALSE, times |-> NoTimes,
                   standing |-> {}, renamed |-> {}]
<1>2. ask' = [begun EXCEPT !.standing = {r \in Listed(begun) : what = "reports"}]
  BY DEF Ask
<1> HIDE DEF was, scope
<1>1. begun = new
  <2>1. PICK m, w : m = scope.member /\ w = was
    OBVIOUS
  <2>2. PICK a : a = [NoAsk EXCEPT !.who = who, !.member = m, !.what = what, !.of = of, !.was = w,
                                   !.left = Queries(what), !.needsReview = needs]
    OBVIOUS
  <2>3. a = [who |-> who, member |-> m, was |-> w, what |-> what, of |-> of,
             left |-> Queries(what), shown |-> {}, needsReview |-> needs, cursor |-> Top,
             more |-> FALSE, times |-> NoTimes, standing |-> {}, renamed |-> {}]
    BY <2>2 DEF NoAsk
  <2> QED
    BY <2>1, <2>2, <2>3
<1>3. ask' = [who |-> who, member |-> scope.member, was |-> was,
              what |-> what, of |-> of, left |-> Queries(what), shown |-> {},
              needsReview |-> needs, cursor |-> Top, more |-> FALSE, times |-> NoTimes,
              standing |-> {r \in Listed(new) : what = "reports"}, renamed |-> {}]
  BY <1>1, <1>2
<1>4. Listed(ask') = Listed(new)
  BY <1>3 DEF Listed, ReportVisible, IsProf
<1>6. was = (who # Professor /\ on[who] = "on")
  BY DEF was
<1>5. scope.member = (who # Professor /\ (what = "snapshot" \/ on[who] = "on"))
  BY DEF ScopeFor, LoadProjectIds, scope
<1>7. UNCHANGED world /\ revoked' = {} /\ ask.what = "none" /\ (what \in ForProfessor => who = Professor)
  BY DEF Ask
<1> QED
  BY <1>3, <1>4, <1>5, <1>6, <1>7 DEF IsAsk, AskBegins

\* What a query leaves of its request and adds to it.
LEMMA QueryDoes ==
  ASSUME IsAsk(ask), ask.times \in [Reports -> Nat], Query
  PROVE  /\ UNCHANGED world /\ revoked' = revoked /\ ask.left # << >>
         /\ IsAsk(ask') /\ ask'.who = ask.who /\ ask'.what = ask.what /\ ask'.was = ask.was
         /\ ask'.member = ask.member /\ ask'.needsReview = ask.needsReview
         /\ ask'.standing = ask.standing /\ ask'.renamed = ask.renamed
         /\ ask'.left = Tail(ask.left) \/ ask'.left = << >>
         /\ ask'.shown \subseteq ask.shown \cup Found(Head(ask.left), ask)
         /\ Head(ask.left) # "page" =>
               ask'.more = ask.more /\ ask'.cursor = ask.cursor /\ ask'.times = ask.times
         /\ Head(ask.left) = "page" =>
               /\ ask'.left = Tail(ask.left)
               /\ ask'.more = (Cardinality(Remaining(ask)) > PageSize)
               /\ ask'.cursor = NextCursor(ask)
               /\ ask'.times = [r \in Reports |-> ask.times[r] + IF r \in Page(ask) THEN 1 ELSE 0]
<1> DEFINE q == Head(ask.left)
           found == Found(q, ask)
           missed == q \in OneRow /\ found = {}
           times == [r \in Reports |-> ask.times[r] + IF r \in Page(ask) THEN 1 ELSE 0]
<1>1. ask' = [ask EXCEPT
         !.left  = IF missed THEN << >> ELSE Tail(@),
         !.shown = IF missed THEN {} ELSE @ \cup found,
         !.more  = IF q = "page" THEN Cardinality(Remaining(ask)) > PageSize ELSE @,
         !.cursor = IF q = "page" THEN NextCursor(ask) ELSE @,
         !.times = IF q = "page" THEN [r \in Reports |-> @[r] + IF r \in Page(ask) THEN 1 ELSE 0]
                   ELSE @]
  BY DEF Query
<1> HIDE DEF q, found, missed
<1>2. ask' = [who |-> ask.who, member |-> ask.member, was |-> ask.was, what |-> ask.what,
              of |-> ask.of, left |-> IF missed THEN << >> ELSE Tail(ask.left),
              shown |-> IF missed THEN {} ELSE ask.shown \cup found,
              needsReview |-> ask.needsReview,
              cursor |-> IF q = "page" THEN NextCursor(ask) ELSE ask.cursor,
              more |-> IF q = "page" THEN Cardinality(Remaining(ask)) > PageSize ELSE ask.more,
              times |-> IF q = "page" THEN times ELSE ask.times,
              standing |-> ask.standing, renamed |-> ask.renamed]
  BY <1>1 DEF IsAsk
<1>3. q = "page" => ~missed
  BY DEF missed, OneRow
<1>4. UNCHANGED world /\ revoked' = revoked /\ ask.left # << >>
  BY DEF Query
<1> QED
  BY <1>2, <1>3, <1>4 DEF IsAsk, q, found

LEMMA NextPageDoes ==
  ASSUME IsAsk(ask), NextPage
  PROVE  /\ UNCHANGED world /\ revoked' = {} /\ ask.what = "reports"
         /\ ask.left = << >> /\ ask.more
         /\ IsAsk(ask') /\ ask'.who = ask.who /\ ask'.what = ask.what
         /\ ask'.member \in BOOLEAN /\ ask'.was = ask'.member
         /\ ask'.member <=> ask.who # Professor /\ on[ask.who] = "on"
         /\ ask'.left = Queries("reports") /\ ask'.shown = {} /\ ask'.more = ask.more
         /\ ask'.needsReview = ask.needsReview /\ ask'.cursor = ask.cursor /\ ask'.times = ask.times
         /\ ask'.standing = ask.standing /\ ask'.renamed = ask.renamed
<1>1. ScopeFor(ask.who, ask.what).member = (ask.who # Professor /\ on[ask.who] = "on")
  BY DEF NextPage, ScopeFor, LoadProjectIds
<1> QED
  BY <1>1 DEF NextPage, IsAsk

LEMMA CloseDoes ==
  ASSUME Close
  PROVE  UNCHANGED world /\ revoked' = {} /\ ask' = NoAsk /\ IsAsk(ask')
BY DEF Close, IsAsk, NoAsk

LEMMA WatchedDoes ==
  ASSUME IsAsk(ask), Watched, ask.what # "none"
  PROVE  /\ IsAsk(ask') /\ ask'.who = ask.who /\ ask'.member = ask.member /\ ask'.what = ask.what
         /\ ask'.left = ask.left /\ ask'.shown = ask.shown /\ ask'.needsReview = ask.needsReview
         /\ ask'.cursor = ask.cursor /\ ask'.more = ask.more /\ ask'.times = ask.times
         /\ ask'.was \in BOOLEAN
         /\ ask'.was <=> ask.was \/ (ask.who # Professor /\ on'[ask.who] = "on")
         /\ \A s \in Students : s \in ask'.renamed <=>
               s \in ask.renamed \/ (ask.what = "reports" /\ name'[s] # name[s])
         /\ ask.renamed \subseteq Students => ask'.renamed \subseteq Students
         /\ \A r \in ask'.standing : /\ r \in ask.standing /\ name'[r[1]] = name[r[1]]
                                     /\ ask.needsReview => waiting'[r]
         /\ revoked' = revoked \cup (Holds(ask.who, ask.was) \ Holds(ask.who, ask.was)')
<1> DEFINE was == ask.was \/ (ask.who # Professor /\ on'[ask.who] = "on")
           renamed == ask.renamed \cup {s \in Students : ask.what = "reports" /\ name'[s] # name[s]}
           standing == {r \in ask.standing : /\ name'[r[1]] = name[r[1]]
                                             /\ ask.needsReview => waiting'[r]}
<1>1. ask' = [ask EXCEPT !.was = was, !.renamed = renamed, !.standing = standing]
  BY DEF Watched
<1>2. /\ \A s \in Students : s \in renamed <=>
            s \in ask.renamed \/ (ask.what = "reports" /\ name'[s] # name[s])
      /\ ask.renamed \subseteq Students => renamed \subseteq Students
      /\ \A r \in standing : /\ r \in ask.standing /\ name'[r[1]] = name[r[1]]
                             /\ ask.needsReview => waiting'[r]
      /\ was = (ask.was \/ (ask.who # Professor /\ on'[ask.who] = "on"))
  OBVIOUS
<1> HIDE DEF was, renamed, standing
<1>3. ask' = [who |-> ask.who, member |-> ask.member, was |-> was, what |-> ask.what, of |-> ask.of,
              left |-> ask.left, shown |-> ask.shown, needsReview |-> ask.needsReview,
              cursor |-> ask.cursor, more |-> ask.more, times |-> ask.times,
              standing |-> standing, renamed |-> renamed]
  BY <1>1 DEF IsAsk
<1>4. revoked' = revoked \cup (Holds(ask.who, ask.was) \ Holds(ask.who, ask.was)')
  BY DEF Watched
<1> QED
  BY <1>2, <1>3, <1>4 DEF IsAsk

\* A write keeps the types, takes nobody out of the record, and no report's
\* first submission back.
Written ==
    /\ Watched /\ changes < MaxChanges
    /\ on' \in [Students -> Memberships] /\ name' \in [Students -> Names]
    /\ filed' \in [Reports -> Nat] /\ waiting' \in [Reports -> BOOLEAN]
    /\ review' \in [Reports -> [Versions -> ReviewStates]]
    /\ written' \in [Students -> 0 .. MaxReadings]
    /\ published' \in [Students -> 0 .. MaxReadings]
    /\ artifact' \in [Files -> Artifacts]
    /\ \A s \in Students : on[s] # "never" => on'[s] # "never"
    /\ \A r \in Reports : /\ filed[r] # 0 => filed'[r] # 0
                          /\ filed'[r] # 0 => filed[r] # 0 \/ on'[r[1]] # "never"
    /\ \A r \in Reports, v \in Versions :
          /\ review[r][v] # "none" => review'[r][v] # "none"
          /\ review[r][v] \in Decided => review'[r][v] \in Decided

LEMMA OthersDo ==
  ASSUME ReadingTypeOK, Others
  PROVE  Written
<1>1. /\ on \in [Students -> Memberships] /\ name \in [Students -> Names]
      /\ filed \in [Reports -> Nat] /\ waiting \in [Reports -> BOOLEAN]
      /\ review \in [Reports -> [Versions -> ReviewStates]]
      /\ written \in [Students -> 0 .. MaxReadings]
      /\ published \in [Students -> 0 .. MaxReadings]
      /\ artifact \in [Files -> Artifacts]
      /\ changes < MaxChanges /\ MaxReadings \in Nat
  BY ReadingConstants DEF ReadingTypeOK, Others
<1>2. ASSUME NEW s \in Students, Join(s)
      PROVE  Written
  BY <1>1, <1>2 DEF Join, Written, Memberships
<1>3. ASSUME NEW s \in Students, Leave(s)
      PROVE  Written
  BY <1>1, <1>3 DEF Leave, Written, Memberships
<1>4. ASSUME NEW s \in Students, NEW n \in Names, Rename(s, n)
      PROVE  Written
  BY <1>1, <1>4 DEF Rename, Written
<1>5. ASSUME NEW r \in Reports, NEW week \in {r[2], r[2] + 1}, HandIn(r, week)
      PROVE  Written
  <2>1. r[1] \in Students
    BY DEF Reports
  <2>2. PICK w \in Nat : w = r[2]
    BY ReadingConstants DEF Reports
  <2>3. week \in Nat
    BY <2>2
  <2> QED
    BY <1>1, <1>5, <2>1, <2>3 DEF HandIn, Written
<1>6. ASSUME NEW r \in Reports, Handle(r)
      PROVE  Written
  BY <1>1, <1>6 DEF Handle, Written
<1>7. ASSUME NEW r \in Reports, NEW v \in Versions, Assess(r, v)
      PROVE  Written
  <2>1. review' \in [Reports -> [Versions -> ReviewStates]]
    BY <1>1, <1>7 DEF Assess, ReviewStates
  <2>2. \A q \in Reports, u \in Versions :
            /\ review[q][u] # "none" => review'[q][u] # "none"
            /\ review[q][u] \in Decided => review'[q][u] \in Decided
    BY <1>1, <1>7 DEF Assess, Decided
  <2> QED
    BY <1>1, <1>7, <2>1, <2>2 DEF Assess, Written
<1>8. ASSUME NEW r \in Reports, NEW v \in Versions, Approve(r, v)
      PROVE  Written
  <2>1. review' \in [Reports -> [Versions -> ReviewStates]]
    BY <1>1, <1>8 DEF Approve, ReviewStates
  <2>2. \A q \in Reports, u \in Versions :
            /\ review[q][u] # "none" => review'[q][u] # "none"
            /\ review[q][u] \in Decided => review'[q][u] \in Decided
    BY <1>1, <1>8 DEF Approve, Decided
  <2> QED
    BY <1>1, <1>8, <2>1, <2>2 DEF Approve, Written
<1>9. ASSUME NEW r \in Reports, NEW v \in Versions, Withdraw(r, v)
      PROVE  Written
  <2>1. review' \in [Reports -> [Versions -> ReviewStates]]
    BY <1>1, <1>9 DEF Withdraw, ReviewStates
  <2>2. \A q \in Reports, u \in Versions :
            /\ review[q][u] # "none" => review'[q][u] # "none"
            /\ review[q][u] \in Decided => review'[q][u] \in Decided
    BY <1>1, <1>9 DEF Withdraw, Decided
  <2> QED
    BY <1>1, <1>9, <2>1, <2>2 DEF Withdraw, Written
<1>10. ASSUME NEW s \in Students, WriteFeedback(s)
      PROVE  Written
  <2>1. written[s] + 1 \in 0 .. MaxReadings
    BY <1>1, <1>10 DEF WriteFeedback
  <2> QED
    BY <1>1, <1>10, <2>1 DEF WriteFeedback, Written
<1>11. ASSUME NEW s \in Students, Publish(s)
      PROVE  Written
  BY <1>1, <1>11 DEF Publish, Written
<1>12. ASSUME NEW f \in Files, NEW who \in Readers, NEW to \in {"week", "project"}, Grant(f, who, to)
      PROVE  Written
  BY <1>1, <1>12 DEF Grant, Written, Artifacts
<1>13. ASSUME NEW f \in Files, Confirm(f)
      PROVE  Written
  BY <1>1, <1>13 DEF Confirm, Written, Artifacts
<1>14. ASSUME NEW f \in Files, Remove(f)
      PROVE  Written
  BY <1>1, <1>14 DEF Remove, Written, Artifacts, NoFile, Readers
<1> QED
  BY <1>1, <1>2, <1>3, <1>4, <1>5, <1>6, <1>7, <1>8, <1>9, <1>10, <1>11, <1>12, <1>13, <1>14
     DEF Others, OfMemberships, OfReports, OfAssessments, OfFeedback, OfFiles

LEMMA ShapeAsked ==
  ASSUME ReadingShape, UNCHANGED world, AskFits'
  PROVE  ReadingShape'
BY DEF ReadingShape, ReadingTypeOK, world

LEMMA ShapeStep ==
  ReadingShape /\ ask.times \in [Reports -> Nat] /\ [ReadingNext]_readingVars => ReadingShape'
<1> SUFFICES ASSUME ReadingShape, ask.times \in [Reports -> Nat], [ReadingNext]_readingVars
             PROVE  ReadingShape'
  OBVIOUS
<1>1. ReadingTypeOK /\ AskFits /\ IsAsk(ask)
  BY DEF ReadingShape, AskFits
<1>2. ASSUME NEW who \in Readers, NEW what \in Readings, NEW of, NEW needs \in BOOLEAN,
             Ask(who, what, of, needs)
      PROVE  ReadingShape'
  <2>1. /\ UNCHANGED world /\ IsAsk(ask') /\ ask'.who = who /\ ask'.what = what
        /\ ask'.left = Queries(what) /\ ask'.shown = {}
        /\ ask'.member \in BOOLEAN /\ ask'.was \in BOOLEAN
        /\ ask'.member <=> who # Professor /\ (what = "snapshot" \/ on[who] = "on")
        /\ ask'.was <=> who # Professor /\ on[who] = "on"
        /\ what \in ForProfessor => who = Professor
    <3>1. AskBegins(who, what, needs)
      BY <1>2, AskDoes
    <3> QED
      BY <3>1 DEF AskBegins
  <2>2. ask'.left \in Seq(QueryNames) /\ \A i \in 1 .. Len(ask'.left) : May(ask', ask'.left[i])
    BY <2>1, Begins
  <2>3. on' = on /\ what # "none"
    BY <2>1 DEF world, Readings
  <2>4. AskFits'
    BY <2>1, <2>2, <2>3 DEF AskFits, May
  <2> QED
    BY <2>1, <2>4, ShapeAsked
<1>3. ASSUME Query
      PROVE  ReadingShape'
  <2>1. /\ UNCHANGED world /\ ask.left # << >> /\ IsAsk(ask') /\ ask'.who = ask.who
        /\ ask'.what = ask.what /\ ask'.was = ask.was /\ ask'.member = ask.member
        /\ ask'.left = Tail(ask.left) \/ ask'.left = << >>
        /\ ask'.shown \subseteq ask.shown \cup Found(Head(ask.left), ask)
    BY <1>1, <1>3, QueryDoes
  <2>2. ask'.left \in Seq(QueryNames) /\ \A i \in 1 .. Len(ask'.left) : May(ask', ask'.left[i])
    BY <1>1, <2>1, GoesOn DEF AskFits
  <2>3. on' = on
    BY <2>1 DEF world
  <2>4. ASSUME ask.what = "reports", ask.who # Professor, ask'.shown # {}
        PROVE  on[ask.who] # "never"
    <3>1. CASE ask.shown # {}
      BY <1>1, <2>4, <3>1 DEF AskFits
    <3>2. CASE ask.shown = {}
      <4> DEFINE q == Head(ask.left)
      <4>1. May(ask, q) /\ Found(q, ask) # {}
        BY <1>1, <2>1, <2>4, <3>2, HeadTailProperties DEF AskFits
      <4> HIDE DEF q
      <4>2. ShownReports(ask) = {}
        BY <3>2 DEF ShownReports
      <4>3. q = "page"
        BY <2>4, <3>2, <4>1, <4>2
           DEF May, Found, Titles, ObligationsForWeeks, LatestForWeeks, ReviewsFor, Assessments
      <4>4. PICK r \in Page(ask) : TRUE
        BY <4>1, <4>3 DEF Found
      <4>5. r \in Reports /\ r[1] = ask.who /\ filed[r] # 0
        BY <2>4 DEF Page, Remaining, Listed, ReportVisible, IsProf
      <4> QED
        BY <4>5 DEF ReadingShape
    <3> QED
      BY <3>1, <3>2
  <2>5. AskFits'
    BY <1>1, <2>1, <2>2, <2>3, <2>4 DEF AskFits
  <2> QED
    BY <2>1, <2>5, ShapeAsked
<1>4. ASSUME NextPage
      PROVE  ReadingShape'
  <2>1. /\ UNCHANGED world /\ ask.what = "reports" /\ IsAsk(ask') /\ ask'.who = ask.who
        /\ ask'.what = ask.what /\ ask'.left = Queries("reports") /\ ask'.shown = {}
        /\ ask'.member \in BOOLEAN /\ ask'.was = ask'.member
        /\ ask'.member <=> ask.who # Professor /\ on[ask.who] = "on"
    BY <1>1, <1>4, NextPageDoes
  <2>2. ask'.left \in Seq(QueryNames) /\ \A i \in 1 .. Len(ask'.left) : May(ask', ask'.left[i])
    BY <2>1, Begins DEF Readings, ForProfessor
  <2>3. on' = on
    BY <2>1 DEF world
  <2>4. AskFits'
    BY <1>1, <2>1, <2>2, <2>3 DEF AskFits
  <2> QED
    BY <2>1, <2>4, ShapeAsked
<1>5. ASSUME Close
      PROVE  ReadingShape'
  <2>1. UNCHANGED world /\ ask' = NoAsk /\ IsAsk(ask')
    BY <1>5, CloseDoes
  <2>2. AskFits'
    BY <2>1 DEF AskFits, NoAsk, Readers
  <2> QED
    BY <2>1, <2>2, ShapeAsked
<1>6. ASSUME Others
      PROVE  ReadingShape'
  <2>1. Written
    BY <1>1, <1>6, OthersDo
  <2>2. changes' = changes + 1
    BY <2>1 DEF Written, Watched
  <2>3. ReadingTypeOK'
    BY <1>1, <2>1, <2>2, ReadingConstants DEF Written, ReadingTypeOK
  <2>4. \A r \in Reports : filed'[r] # 0 => on'[r[1]] # "never"
    BY <2>1 DEF Written, ReadingShape, Reports
  <2>5. ask.who # Professor => ask.who \in Students
    BY <1>1 DEF AskFits, Readers
  <2>6. on[ask.who] # "never" /\ ask.who # Professor => on'[ask.who] # "never"
    BY <2>1, <2>5 DEF Written
  <2>7. CASE ask.what = "none"
    <3>1. ask' = ask
      BY <2>1, <2>7 DEF Written, Watched
    <3>2. AskFits'
      BY <1>1, <2>6, <2>7, <3>1 DEF AskFits, May
    <3> QED
      BY <2>3, <2>4, <3>2 DEF ReadingShape
  <2>8. CASE ask.what # "none"
    <3>1. /\ IsAsk(ask') /\ ask'.who = ask.who /\ ask'.member = ask.member
          /\ ask'.what = ask.what /\ ask'.left = ask.left /\ ask'.shown = ask.shown
          /\ ask'.was \in BOOLEAN
          /\ ask'.was <=> ask.was \/ (ask.who # Professor /\ on'[ask.who] = "on")
      BY <1>1, <2>1, <2>8, WatchedDoes DEF Written
    <3>2. AskFits'
      BY <1>1, <2>6, <2>8, <3>1 DEF AskFits, May
    <3> QED
      BY <2>3, <2>4, <3>2 DEF ReadingShape
  <2> QED
    BY <2>7, <2>8
<1>7. CASE UNCHANGED readingVars
  BY <1>1, <1>7, ShapeAsked DEF readingVars, AskFits, May, world
<1> QED
  BY <1>2, <1>3, <1>4, <1>5, <1>6, <1>7 DEF ReadingNext, Reads

-----------------------------------------------------------------------------
(* What an answer shows held for its reader. *)

Times == ask.times \in [Reports -> Nat]

AnswersHeld == ask.shown \subseteq revoked \cup Holds(ask.who, ask.was)

HeldInv == ReadingShape /\ Times /\ Linked /\ AnswersHeld

LEMMA HeldInit == ReadingInit => HeldInv
<1> SUFFICES ASSUME ReadingInit
             PROVE  HeldInv
  OBVIOUS
<1>1. ReadingTypeOK
  BY ReadingConstants
     DEF ReadingInit, ReadingTypeOK, Memberships, ReviewStates, Artifacts, NoFile, Readers
<1>2. AskFits
  BY DEF ReadingInit, AskFits, IsAsk, NoAsk, Readers
<1>3. \A r \in Reports : filed[r] = 0
  BY DEF ReadingInit
<1>4. Times /\ Linked /\ AnswersHeld
  BY DEF ReadingInit, Times, Linked, AnswersHeld, NoAsk, NoTimes
<1> QED
  BY <1>1, <1>2, <1>3, <1>4 DEF HeldInv, ReadingShape

LEMMA HoldsSame ==
  ASSUME UNCHANGED world, ask'.what = ask.what, ask'.who = ask.who, ask'.was = ask.was
  PROVE  Holds(ask.who, ask.was)' = Holds(ask.who, ask.was)
BY DEF Holds, world

LEMMA TimesStep ==
  ASSUME ReadingShape, Times, [ReadingNext]_readingVars
  PROVE  Times'
<1>1. ReadingTypeOK /\ AskFits /\ IsAsk(ask)
  BY DEF ReadingShape, AskFits
<1>2. ASSUME NEW who \in Readers, NEW what \in Readings, NEW of, NEW needs \in BOOLEAN,
             Ask(who, what, of, needs)
      PROVE  Times'
  <2>1. AskBegins(who, what, needs)
    BY <1>2, AskDoes
  <2> QED
    BY <2>1 DEF AskBegins, Times, NoTimes
<1>3. ASSUME Query
      PROVE  Times'
  <2>1. ask'.times = ask.times \/
        ask'.times = [r \in Reports |-> ask.times[r] + IF r \in Page(ask) THEN 1 ELSE 0]
    BY <1>1, <1>3, QueryDoes DEF Times
  <2> QED
    BY <2>1 DEF Times
<1>4. ASSUME NextPage
      PROVE  Times'
  BY <1>1, <1>4, NextPageDoes DEF Times
<1>5. ASSUME Close
      PROVE  Times'
  BY <1>5, CloseDoes DEF Times, NoAsk, NoTimes
<1>6. ASSUME Others
      PROVE  Times'
  <2>1. Written
    BY <1>1, <1>6, OthersDo
  <2>2. CASE ask.what = "none"
    BY <2>1, <2>2 DEF Written, Watched, Times
  <2>3. CASE ask.what # "none"
    BY <1>1, <2>1, <2>3, WatchedDoes DEF Written, Times
  <2> QED
    BY <2>2, <2>3
<1> QED
  BY <1>2, <1>3, <1>4, <1>5, <1>6 DEF ReadingNext, Reads, readingVars, Times

\* What holds of an assessment is that its review may be shown.
LEMMA HoldsStated ==
  ASSUME ReadingTypeOK, NEW who, NEW was, NEW r, NEW v, NEW kind \in {"assessment", "waiting"},
         <<kind, r, v>> \in Holds(who, was)
  PROVE  Stated(who, r, v)
<1> DEFINE Shown(x) == review[x[1]][x[2]] \in
               (IF who = Professor THEN ReviewStates \ {"none"} ELSE {"approved"})
           ofTheirs == {q \in Reports : q[1] \in Theirs(who)}
<1>1. \A x \in ofTheirs \X Versions : review[x[1]][x[2]] \in ReviewStates
  BY DEF ReadingTypeOK
<1>2. \/ \E x \in ofTheirs \X Versions : <<kind, r, v>> = <<"assessment", x[1], x[2]>> /\ Shown(x)
      \/ \E x \in ofTheirs \X Versions :
            <<kind, r, v>> = <<"waiting", x[1], x[2]>> /\ who = Professor /\ review[x[1]][x[2]] = "draft"
  BY <1>1 DEF Holds, Theirs, TheProject, ReviewStates
<1>3. PICK x \in ofTheirs \X Versions : r = x[1] /\ v = x[2] /\
            (Shown(x) \/ (who = Professor /\ review[x[1]][x[2]] = "draft"))
  BY <1>2
<1> QED
  BY <1>3 DEF Stated, ReviewStates, Decided

LEMMA LinkedStep ==
  ASSUME HeldInv, [ReadingNext]_readingVars
  PROVE  Linked'
<1>1. /\ ReadingShape /\ ReadingTypeOK /\ AskFits /\ IsAsk(ask) /\ Times /\ Linked
  BY DEF HeldInv, ReadingShape, AskFits
<1>2. ASSUME NEW who \in Readers, NEW what \in Readings, NEW of, NEW needs \in BOOLEAN,
             Ask(who, what, of, needs)
      PROVE  Linked'
  <2>1. AskBegins(who, what, needs)
    BY <1>2, AskDoes
  <2> QED
    BY <2>1 DEF AskBegins, Linked
<1>3. ASSUME Query
      PROVE  Linked'
  <2>1. /\ UNCHANGED world /\ ask.left # << >> /\ ask'.who = ask.who
        /\ ask'.shown \subseteq ask.shown \cup Found(Head(ask.left), ask)
    BY <1>1, <1>3, QueryDoes DEF Times
  <2>2. Found(Head(ask.left), ask) \subseteq Holds(ask.who, ask.was)
    BY <1>1, <2>1, FoundHolds
  <2>3. ASSUME NEW r, NEW v, NEW kind \in {"assessment", "waiting"}, <<kind, r, v>> \in ask'.shown
        PROVE  Stated(ask.who, r, v)
    <3>1. <<kind, r, v>> \in ask.shown \/ <<kind, r, v>> \in Holds(ask.who, ask.was)
      BY <2>1, <2>2, <2>3
    <3> QED
      BY <1>1, <3>1, HoldsStated DEF Linked
  <2>4. review' = review
    BY <2>1 DEF world
  <2> QED
    BY <2>1, <2>3, <2>4 DEF Linked, Stated, Theirs
<1>4. ASSUME NextPage
      PROVE  Linked'
  <2>1. ask'.shown = {}
    BY <1>1, <1>4, NextPageDoes
  <2> QED
    BY <2>1 DEF Linked
<1>5. ASSUME Close
      PROVE  Linked'
  BY <1>5, CloseDoes DEF Linked, NoAsk
<1>6. ASSUME Others
      PROVE  Linked'
  <2>1. Written /\ Watched
    BY <1>1, <1>6, OthersDo DEF Written
  <2>2. ask'.shown = ask.shown /\ ask'.who = ask.who
    <3>1. CASE ask.what = "none"
      BY <2>1, <3>1 DEF Watched
    <3>2. CASE ask.what # "none"
      BY <1>1, <2>1, <3>2, WatchedDoes
    <3> QED
      BY <3>1, <3>2
  <2>3. ASSUME NEW r, NEW v, Stated(ask.who, r, v)
        PROVE  review'[r][v] \in (IF ask.who = Professor THEN ReviewStates \ {"none"} ELSE Decided)
    BY <2>1, <2>3 DEF Stated, Written
  <2> QED
    BY <1>1, <2>2, <2>3 DEF Linked, Stated, Theirs
<1>7. CASE UNCHANGED readingVars
  BY <1>1, <1>7 DEF readingVars, world, Linked, Stated, Theirs
<1> QED
  BY <1>2, <1>3, <1>4, <1>5, <1>6, <1>7 DEF ReadingNext, Reads

LEMMA AnswersStep ==
  ASSUME HeldInv, [ReadingNext]_readingVars
  PROVE  AnswersHeld'
<1>1. /\ ReadingShape /\ ReadingTypeOK /\ AskFits /\ IsAsk(ask) /\ Times /\ Linked
      /\ ask.shown \subseteq revoked \cup Holds(ask.who, ask.was)
  BY DEF HeldInv, AnswersHeld, ReadingShape, AskFits
<1>2. ASSUME NEW who \in Readers, NEW what \in Readings, NEW of, NEW needs \in BOOLEAN,
             Ask(who, what, of, needs)
      PROVE  AnswersHeld'
  <2>1. AskBegins(who, what, needs)
    BY <1>2, AskDoes
  <2> QED
    BY <2>1 DEF AskBegins, AnswersHeld
<1>3. ASSUME Query
      PROVE  AnswersHeld'
  <2>1. /\ UNCHANGED world /\ revoked' = revoked /\ ask.left # << >>
        /\ ask'.who = ask.who /\ ask'.what = ask.what /\ ask'.was = ask.was
        /\ ask'.shown \subseteq ask.shown \cup Found(Head(ask.left), ask)
    BY <1>1, <1>3, QueryDoes DEF Times
  <2>2. Found(Head(ask.left), ask) \subseteq Holds(ask.who, ask.was)
    BY <1>1, <2>1, FoundHolds
  <2>3. Holds(ask.who, ask.was)' = Holds(ask.who, ask.was)
    BY <2>1, HoldsSame
  <2>4. ask'.shown \subseteq revoked' \cup Holds(ask.who, ask.was)'
    BY <1>1, <2>1, <2>2, <2>3
  <2> QED
    BY <2>4 DEF AnswersHeld
<1>4. ASSUME NextPage
      PROVE  AnswersHeld'
  <2>1. ask'.shown = {}
    BY <1>1, <1>4, NextPageDoes
  <2> QED
    BY <2>1 DEF AnswersHeld
<1>5. ASSUME Close
      PROVE  AnswersHeld'
  BY <1>5, CloseDoes DEF AnswersHeld, NoAsk
<1>6. ASSUME Others
      PROVE  AnswersHeld'
  <2>1. Watched
    BY <1>1, <1>6, OthersDo DEF Written
  <2>2. CASE ask.what = "none"
    BY <1>1, <2>1, <2>2 DEF Watched, AnswersHeld, AskFits
  <2>3. CASE ask.what # "none"
    <3>1. /\ ask'.shown = ask.shown
          /\ revoked' = revoked \cup (Holds(ask.who, ask.was) \ Holds(ask.who, ask.was)')
      BY <1>1, <2>1, <2>3, WatchedDoes
    <3> DEFINE H == Holds(ask.who, ask.was)
               N == Holds(ask.who, ask.was)'
    <3>2. revoked' = revoked \cup (H \ N) /\ ask'.shown \subseteq revoked \cup H
      BY <1>1, <3>1
    <3> HIDE DEF H, N
    <3>3. ask'.shown \subseteq revoked' \cup N
      BY <3>2
    <3> QED
      BY <3>3 DEF N, AnswersHeld
  <2> QED
    BY <2>2, <2>3
<1>7. CASE UNCHANGED readingVars
  <2>1. UNCHANGED world /\ ask' = ask /\ revoked' = revoked
    BY <1>7 DEF readingVars
  <2>2. Holds(ask.who, ask.was)' = Holds(ask.who, ask.was)
    BY <2>1, HoldsSame
  <2>3. ask'.shown \subseteq revoked' \cup Holds(ask.who, ask.was)'
    BY <1>1, <2>1, <2>2
  <2> QED
    BY <2>3 DEF AnswersHeld
<1> QED
  BY <1>2, <1>3, <1>4, <1>5, <1>6, <1>7 DEF ReadingNext, Reads

LEMMA HeldStep == HeldInv /\ [ReadingNext]_readingVars => HeldInv'
<1> SUFFICES ASSUME HeldInv, [ReadingNext]_readingVars
             PROVE  HeldInv'
  OBVIOUS
<1>1. ReadingShape /\ Times /\ ask.times \in [Reports -> Nat]
  BY DEF HeldInv, Times
<1>2. ReadingShape'
  BY <1>1, ShapeStep
<1>3. Times'
  BY <1>1, TimesStep
<1>4. Linked'
  BY LinkedStep
<1>5. AnswersHeld'
  BY AnswersStep
<1> QED
  BY <1>2, <1>3, <1>4, <1>5 DEF HeldInv

LEMMA HeldAlways == ReadingSpec => []HeldInv
BY HeldInit, HeldStep, PTL DEF ReadingSpec

\* The record the reads answer from keeps its types.
THEOREM ReadingTypes == ReadingSpec => []ReadingTypeOK
<1>1. HeldInv => ReadingTypeOK
  BY DEF HeldInv, ReadingShape
<1> QED
  BY HeldAlways, <1>1, PTL

\* Whatever the sets of students, reports and files and however the writes fall
\* between its queries, what a finished answer shows held for its reader at some
\* moment of the request; the state of a review, which reviews_for reads by its id
\* alone, is one it was in, and for a student never a draft's (core/authz.py, the
\* policies of the modules, assessment/service.py).
THEOREM ReadsShowWhatHeld == ReadingSpec => []ShownHeld
<1>1. HeldInv => ShownHeld
  BY DEF HeldInv, AnswersHeld, ShownHeld
<1> QED
  BY HeldAlways, <1>1, PTL

-----------------------------------------------------------------------------
(* The order of the list. *)

LEMMA NatMin ==
  ASSUME NEW T, T \subseteq Nat, T # {}
  PROVE  \E n \in T : \A m \in T : n <= m
<1>1. PICK n \in T : \A m \in T : ~ (<<m, n>> \in OpToRel(<, Nat))
  BY NatLessThanWellFounded, WFMin
<1>2. \A m \in T : ~ (m < n)
  BY <1>1 DEF OpToRel
<1> QED
  BY <1>2

\* A finite order has a last element.
LEMMA Topmost ==
  ASSUME NEW S, IsFiniteSet(S), S # {}, NEW R,
         \A x \in S : <<x, x>> \notin R,
         \A x, y, z \in S : <<x, y>> \in R /\ <<y, z>> \in R => <<x, z>> \in R
  PROVE  \E m \in S : \A x \in S : <<m, x>> \notin R
<1> DEFINE above(x) == {y \in S : <<x, y>> \in R}
           T == {Cardinality(above(x)) : x \in S}
<1>1. \A x \in S : above(x) \in SUBSET S
  OBVIOUS
<1>2. \A x \in S : IsFiniteSet(above(x)) /\ Cardinality(above(x)) \in Nat
  BY <1>1, FS_Subset, FS_CardinalityType
<1>3. T \subseteq Nat /\ T # {}
  <2> HIDE DEF above
  <2> QED
    BY <1>2
<1>4. PICK m \in S : \A x \in S : Cardinality(above(m)) <= Cardinality(above(x))
  <2> HIDE DEF above
  <2>1. PICK n \in T : \A k \in T : n <= k
    BY <1>3, NatMin
  <2> QED
    BY <2>1
<1>5. ASSUME NEW x \in S, <<m, x>> \in R
      PROVE  FALSE
  <2>1. above(x) \in SUBSET above(m) /\ x \in above(m) /\ x \notin above(x)
    BY <1>5
  <2> HIDE DEF above
  <2>2. /\ Cardinality(above(x)) <= Cardinality(above(m))
        /\ Cardinality(above(m)) = Cardinality(above(x)) => above(m) = above(x)
    BY <1>2, <2>1, FS_Subset
  <2>3. Cardinality(above(m)) <= Cardinality(above(x))
    BY <1>4
  <2>4. Cardinality(above(m)) = Cardinality(above(x))
    BY <1>2, <2>2, <2>3
  <2> QED
    BY <2>1, <2>2, <2>4
<1> QED
  BY <1>5

Triples == Nat \X Nat \X Nat

LEMMA BeforeOrders ==
  ASSUME NEW p \in Triples, NEW q \in Triples, NEW s \in Triples
  PROVE  /\ ~ Before(p, p)
         /\ Before(p, q) /\ Before(q, s) => Before(p, s)
         /\ p # q => Before(p, q) \/ Before(q, p)
<1>1. /\ p[1] \in Nat /\ p[2] \in Nat /\ p[3] \in Nat
      /\ q[1] \in Nat /\ q[2] \in Nat /\ q[3] \in Nat
      /\ s[1] \in Nat /\ s[2] \in Nat /\ s[3] \in Nat
  BY DEF Triples
<1>2. p = <<p[1], p[2], p[3]>> /\ q = <<q[1], q[2], q[3]>>
  BY DEF Triples
<1>3. p # q => p[1] # q[1] \/ p[2] # q[2] \/ p[3] # q[3]
  BY <1>2
<1>4. p # q => Before(p, q) \/ Before(q, p)
  BY <1>1, <1>3 DEF Before
<1>5. ~ Before(p, p)
  BY <1>1 DEF Before
<1>6. Before(p, q) /\ Before(q, s) => Before(p, s)
  BY <1>1 DEF Before
<1> QED
  BY <1>4, <1>5, <1>6

LEMMA Positions ==
  ASSUME name \in [Students -> Names], NEW r \in Reports
  PROVE  /\ Position(r) \in Triples
         /\ \A q \in Reports : Position(q) = Position(r) => q = r
<1>1. /\ r[2] \in Nat /\ r[1] \in Nat /\ name[r[1]] \in Nat
  BY ReadingConstants DEF Reports
<1>2. ASSUME NEW q \in Reports, Position(q) = Position(r)
      PROVE  q = r
  <2>1. q[1] = r[1] /\ q[2] = r[2]
    BY <1>2 DEF Position
  <2> QED
    BY <2>1 DEF Reports
<1> QED
  BY <1>1, <1>2 DEF Position, Triples

\* The order of the reports in the list is strict and total.
LEMMA ListOrder ==
  ASSUME name \in [Students -> Names], NEW q \in Reports, NEW r \in Reports
  PROVE  /\ ~ Before(Position(r), Position(r))
         /\ \A s \in Reports :
               Before(Position(q), Position(r)) /\ Before(Position(r), Position(s)) =>
                   Before(Position(q), Position(s))
         /\ q # r => Before(Position(q), Position(r)) \/ Before(Position(r), Position(q))
         /\ \A c \in Triples :
               Before(c, Position(q)) /\ Before(Position(q), Position(r)) => Before(c, Position(r))
<1>1. \A s \in Reports : Position(s) \in Triples
  BY Positions
<1>2. q # r => Position(q) # Position(r)
  BY Positions
<1>3. Position(q) \in Triples /\ Position(r) \in Triples
  BY <1>1
<1> QED
  BY <1>1, <1>2, <1>3, BeforeOrders

LEMMA TopIsFirst ==
  ASSUME name \in [Students -> Names], Weeks # {}
  PROVE  /\ Top \in Triples
         /\ \A r \in Reports : Before(Top, Position(r))
<1> DEFINE R == {p \in Weeks \X Weeks : p[1] < p[2]}
<1>1. \A v, w \in Weeks : <<v, w>> \in R <=> v < w
  OBVIOUS
<1> HIDE DEF R
<1>2. IsFiniteSet(Weeks) /\ Weeks \subseteq Nat
  BY ReadingAssumption
<1>3. /\ \A v \in Weeks : <<v, v>> \notin R
      /\ \A u, v, w \in Weeks : <<u, v>> \in R /\ <<v, w>> \in R => <<u, w>> \in R
  BY <1>1, <1>2
<1>4. PICK m \in Weeks : \A v \in Weeks : <<m, v>> \notin R
  BY <1>2, <1>3, Topmost
<1>5. ASSUME NEW v \in Weeks
      PROVE  v <= m
  <2>1. ~ (m < v)
    BY <1>1, <1>4
  <2>2. m \in Nat /\ v \in Nat
    BY <1>2
  <2> QED
    BY <2>1, <2>2
<1> DEFINE last == CHOOSE w \in Weeks : \A v \in Weeks : v <= w
<1>6. last \in Weeks /\ \A v \in Weeks : v <= last
  BY <1>5
<1>7. Top = <<1 + last, 0, 0>>
  BY DEF Top
<1> HIDE DEF last
<1>8. PICK n \in Nat : n = last
  BY <1>2, <1>6
<1>9. Top = <<1 + n, 0, 0>> /\ 1 + n \in Nat
  BY <1>7, <1>8
<1>10. Top \in Triples
  BY <1>9 DEF Triples
<1>11. ASSUME NEW r \in Reports
       PROVE  Before(Top, Position(r))
  <2>1. r[2] \in Nat /\ r[2] <= n
    BY <1>2, <1>6, <1>8 DEF Reports
  <2>2. Top[1] = 1 + n /\ Position(r)[1] = r[2]
    BY <1>9 DEF Position
  <2>3. Top[1] > Position(r)[1]
    BY <2>1, <2>2
  <2> QED
    BY <2>3 DEF Before
<1> QED
  BY <1>10, <1>11

LEMMA ReportsFinite == IsFiniteSet(Reports)
BY ReadingAssumption, FS_Product DEF Reports

\* The last report of a page.
LEMMA LastOf ==
  ASSUME name \in [Students -> Names], NEW S \in SUBSET Reports, S # {}
  PROVE  \E l \in S : \A q \in S \ {l} : Before(Position(q), Position(l))
<1> DEFINE R == {p \in S \X S : Before(Position(p[1]), Position(p[2]))}
<1>1. \A q, r \in S : <<q, r>> \in R <=> Before(Position(q), Position(r))
  OBVIOUS
<1> HIDE DEF R
<1>2. IsFiniteSet(S)
  BY ReportsFinite, FS_Subset
<1>3. /\ \A q \in S : <<q, q>> \notin R
      /\ \A q, r, s \in S : <<q, r>> \in R /\ <<r, s>> \in R => <<q, s>> \in R
  BY <1>1, ListOrder
<1>4. PICK l \in S : \A q \in S : <<l, q>> \notin R
  BY <1>2, <1>3, Topmost
<1> QED
  BY <1>1, <1>4, ListOrder

-----------------------------------------------------------------------------
(* A page. *)

LEMMA PageTurns ==
  ASSUME name \in [Students -> Names], NEW a, a.cursor \in Triples
  PROVE  /\ Page(a) \subseteq Remaining(a) /\ Remaining(a) \subseteq Reports
         /\ NextCursor(a) \in Triples
         /\ \A r \in Page(a) : ~ Before(NextCursor(a), Position(r))
         /\ \A r \in Remaining(a) \ Page(a) : Before(NextCursor(a), Position(r))
         /\ Cardinality(Remaining(a)) <= PageSize => Page(a) = Remaining(a)
         /\ \A r \in Reports : ~ Before(a.cursor, Position(r)) => ~ Before(NextCursor(a), Position(r))
<1> DEFINE ahead(r) == {q \in Remaining(a) : Before(Position(q), Position(r))}
<1>1. /\ Remaining(a) \subseteq Reports
      /\ \A r \in Remaining(a) : Before(a.cursor, Position(r))
  BY DEF Remaining, Listed, ReportVisible
<1>2. /\ Page(a) \subseteq Remaining(a)
      /\ \A r \in Remaining(a) : r \in Page(a) <=> Cardinality(ahead(r)) < PageSize
  BY DEF Page
<1>3. IsFiniteSet(Remaining(a)) /\ Cardinality(Remaining(a)) \in Nat /\ PageSize \in Nat
  BY <1>1, ReportsFinite, FS_Subset, FS_CardinalityType, ReadingConstants
<1>4. \A r \in Reports : /\ ahead(r) \in SUBSET Remaining(a) /\ IsFiniteSet(ahead(r))
                         /\ Cardinality(ahead(r)) \in Nat
  <2>1. \A r \in Reports : ahead(r) \in SUBSET Remaining(a)
    OBVIOUS
  <2> HIDE DEF ahead
  <2> QED
    BY <2>1, <1>3, FS_Subset, FS_CardinalityType
<1>5. ASSUME Cardinality(Remaining(a)) <= PageSize, NEW r \in Remaining(a)
      PROVE  r \in Page(a)
  <2>1. r \in Reports
    BY <1>1
  <2>2. r \notin ahead(r)
    BY <2>1, ListOrder
  <2> HIDE DEF ahead
  <2>3. Cardinality(ahead(r)) <= Cardinality(Remaining(a))
        /\ (Cardinality(Remaining(a)) = Cardinality(ahead(r)) => Remaining(a) = ahead(r))
    BY <2>1, <1>3, <1>4, FS_Subset
  <2>4. Cardinality(Remaining(a)) # Cardinality(ahead(r))
    BY <2>2, <2>3
  <2>5. Cardinality(ahead(r)) < PageSize
    BY <1>3, <1>4, <1>5, <2>1, <2>3, <2>4
  <2> QED
    BY <1>2, <2>5
<1>6. CASE Page(a) = {}
  <2>1. NextCursor(a) = a.cursor
    BY <1>6 DEF NextCursor
  <2> QED
    BY <1>1, <1>2, <1>5, <1>6, <2>1
<1>7. CASE Page(a) # {}
  <2> DEFINE last == CHOOSE r \in Page(a) : \A q \in Page(a) \ {r} : Before(Position(q), Position(r))
  <2>1. NextCursor(a) = Position(last)
    BY <1>7 DEF NextCursor
  <2>2. last \in Page(a) /\ \A q \in Page(a) \ {last} : Before(Position(q), Position(last))
    BY <1>1, <1>2, <1>7, LastOf
  <2> HIDE DEF last
  <2>3. last \in Reports /\ last \in Remaining(a) /\ Before(a.cursor, Position(last))
    BY <1>1, <1>2, <2>2
  <2>4. Position(last) \in Triples
    BY <2>3, Positions
  <2>5. ASSUME NEW r \in Page(a)
        PROVE  ~ Before(Position(last), Position(r))
    <3>1. r \in Reports
      BY <1>1, <1>2
    <3>2. CASE r = last
      BY <2>3, <3>2, ListOrder
    <3>3. CASE r # last
      <4>1. Before(Position(r), Position(last))
        BY <2>2, <3>3
      <4>2. Before(Position(last), Position(r)) => Before(Position(last), Position(last))
        BY <2>3, <3>1, <4>1, ListOrder
      <4> QED
        BY <2>3, <4>2, ListOrder
    <3> QED
      BY <3>2, <3>3
  <2>6. ASSUME NEW r \in Remaining(a) \ Page(a)
        PROVE  Before(Position(last), Position(r))
    <3>1. r \in Reports /\ r # last
      BY <1>1, <2>2
    <3>2. SUFFICES ASSUME Before(Position(r), Position(last))
                   PROVE  FALSE
      BY <2>3, <3>1, ListOrder
    <3>3. ahead(r) \in SUBSET ahead(last)
      BY <1>1, <2>3, <3>1, <3>2, ListOrder
    <3> HIDE DEF ahead
    <3>4. Cardinality(ahead(r)) <= Cardinality(ahead(last))
      BY <1>4, <2>3, <3>3, FS_Subset
    <3>5. Cardinality(ahead(last)) < PageSize /\ ~ (Cardinality(ahead(r)) < PageSize)
      BY <1>2, <2>2, <2>3
    <3> QED
      BY <1>3, <1>4, <2>3, <3>1, <3>4, <3>5
  <2>7. ASSUME NEW r \in Reports, ~ Before(a.cursor, Position(r))
        PROVE  ~ Before(Position(last), Position(r))
    BY <2>3, <2>7, ListOrder
  <2> QED
    BY <1>1, <1>2, <1>5, <2>1, <2>4, <2>5, <2>6, <2>7
<1> QED
  BY <1>6, <1>7

-----------------------------------------------------------------------------
(* A walk over the list. *)

WalkFits ==
    /\ Weeks # {} => ask.cursor \in Triples
    /\ ask.standing \subseteq Listed(ask)
    /\ \A r \in ask.standing : r[1] \notin ask.renamed

\* A report already shown lies behind the cursor, one still to be shown before it.
WalkShows ==
    /\ \A r \in Reports : r[1] \notin ask.renamed =>
          /\ ask.times[r] <= 1
          /\ ask.times[r] >= 1 => ~ Before(ask.cursor, Position(r))
    /\ \A r \in ask.standing : Before(ask.cursor, Position(r)) \/ ask.times[r] = 1
    /\ ask.left # ReportList /\ ~ ask.more =>
          \A r \in ask.standing : ~ Before(ask.cursor, Position(r))

WalkInv == ReadingShape /\ Times /\ (ask.what = "reports" => WalkFits /\ WalkShows)

LEMMA WalkInit == ReadingInit => WalkInv
<1>1. ReadingInit => ask.what = "none"
  BY DEF ReadingInit, NoAsk
<1> QED
  BY <1>1, HeldInit DEF WalkInv, HeldInv

LEMMA ListedSame ==
  ASSUME UNCHANGED world, ask'.who = ask.who, ask'.needsReview = ask.needsReview
  PROVE  /\ Listed(ask)' = Listed(ask)
         /\ \A r : Position(r)' = Position(r)
BY DEF Listed, ReportVisible, IsProf, Position, world

\* A query that reads a page.
LEMMA WalkQuery ==
  ASSUME ReadingShape, Times, WalkFits, WalkShows, Query, Head(ask.left) = "page"
  PROVE  WalkFits' /\ WalkShows'
<1>1. ReadingTypeOK /\ AskFits /\ IsAsk(ask) /\ ask.times \in [Reports -> Nat]
  BY DEF ReadingShape, AskFits, Times
<1>2. name \in [Students -> Names]
  BY <1>1 DEF ReadingTypeOK
<1>3. /\ UNCHANGED world /\ ask'.who = ask.who /\ ask'.what = ask.what
      /\ ask'.needsReview = ask.needsReview
      /\ ask'.standing = ask.standing /\ ask'.renamed = ask.renamed
      /\ ask'.left = Tail(ask.left)
      /\ ask'.more = (Cardinality(Remaining(ask)) > PageSize)
      /\ ask'.cursor = NextCursor(ask)
      /\ ask'.times = [r \in Reports |-> ask.times[r] + IF r \in Page(ask) THEN 1 ELSE 0]
  BY <1>1, QueryDoes
<1>4. Listed(ask)' = Listed(ask) /\ \A r : Position(r)' = Position(r)
  BY <1>3, ListedSame
<1>5. Weeks = {} => Reports = {}
  BY DEF Reports
<1>6. Listed(ask) \subseteq Reports
  BY DEF Listed, ReportVisible
<1>7. CASE Weeks = {}
  BY <1>3, <1>4, <1>5, <1>6, <1>7 DEF WalkFits, WalkShows
<1>8. CASE Weeks # {}
  <2>1. /\ Page(ask) \subseteq Remaining(ask) /\ Remaining(ask) \subseteq Reports
        /\ NextCursor(ask) \in Triples
        /\ \A r \in Page(ask) : ~ Before(NextCursor(ask), Position(r))
        /\ \A r \in Remaining(ask) \ Page(ask) : Before(NextCursor(ask), Position(r))
        /\ Cardinality(Remaining(ask)) <= PageSize => Page(ask) = Remaining(ask)
        /\ \A r \in Reports : ~ Before(ask.cursor, Position(r)) =>
              ~ Before(NextCursor(ask), Position(r))
    BY <1>2, <1>8, PageTurns DEF WalkFits
  <2>2. WalkFits'
    BY <1>3, <1>4, <1>6, <2>1 DEF WalkFits
  <2>3. \A r \in Listed(ask) : r \in Remaining(ask) <=> Before(ask.cursor, Position(r))
    BY DEF Remaining
  <2>4. \A r \in Remaining(ask) : Before(ask.cursor, Position(r))
    BY DEF Remaining
  <2>5. ASSUME NEW r \in Reports, r[1] \notin ask.renamed
        PROVE  /\ ask'.times[r] <= 1
               /\ ask'.times[r] >= 1 => ~ Before(ask'.cursor, Position(r))
               /\ r \in Page(ask) => ask'.times[r] = 1
    <3>1. ask.times[r] \in Nat /\ ask.times[r] <= 1
          /\ (ask.times[r] >= 1 => ~ Before(ask.cursor, Position(r)))
      BY <1>1, <2>5 DEF WalkShows
    <3>2. CASE r \in Page(ask)
      <4>1. ask.times[r] = 0
        BY <2>1, <2>4, <3>1, <3>2
      <4>2. ask'.times[r] = ask.times[r] + 1
        BY <1>3, <3>2
      <4> QED
        BY <1>3, <2>1, <3>2, <4>1, <4>2
    <3>3. CASE r \notin Page(ask)
      <4>1. ask'.times[r] = ask.times[r] + 0
        BY <1>3, <3>3
      <4> QED
        BY <1>3, <2>1, <3>1, <3>3, <4>1
    <3> QED
      BY <3>2, <3>3
  <2>6. ASSUME NEW r \in ask.standing
        PROVE  Before(ask'.cursor, Position(r)) \/ ask'.times[r] = 1
    <3>1. r \in Listed(ask) /\ r \in Reports /\ r[1] \notin ask.renamed
      BY <1>6 DEF WalkFits
    <3>2. CASE r \in Page(ask)
      BY <2>5, <3>1, <3>2
    <3>3. CASE r \in Remaining(ask) \ Page(ask)
      BY <1>3, <2>1, <3>3
    <3>4. CASE r \notin Remaining(ask)
      <4>1. ask.times[r] = 1 /\ r \notin Page(ask)
        BY <2>1, <2>3, <3>1, <3>4 DEF WalkShows
      <4>2. ask'.times[r] = ask.times[r] + 0
        BY <1>3, <3>1, <4>1
      <4> QED
        BY <4>1, <4>2
    <3> QED
      BY <3>2, <3>3, <3>4
  <2>7. ASSUME ~ ask'.more, NEW r \in ask.standing
        PROVE  ~ Before(ask'.cursor, Position(r))
    <3>1. r \in Listed(ask) /\ r \in Reports
      BY <1>6 DEF WalkFits
    <3>2. Cardinality(Remaining(ask)) \in Nat /\ PageSize \in Nat
      BY <2>1, ReportsFinite, FS_Subset, FS_CardinalityType, ReadingConstants
    <3>3. Page(ask) = Remaining(ask)
      <4>1. ~ (Cardinality(Remaining(ask)) > PageSize)
        BY <1>3, <2>7
      <4>2. Cardinality(Remaining(ask)) <= PageSize
        BY <3>2, <4>1
      <4> QED
        BY <2>1, <4>2
    <3> QED
      BY <1>3, <2>1, <2>3, <3>1, <3>3
  <2>8. WalkShows'
    BY <1>3, <1>4, <2>5, <2>6, <2>7 DEF WalkShows
  <2> QED
    BY <2>2, <2>8
<1> QED
  BY <1>7, <1>8

LEMMA WalkStep == WalkInv /\ [ReadingNext]_readingVars => WalkInv'
<1> SUFFICES ASSUME WalkInv, [ReadingNext]_readingVars
             PROVE  WalkInv'
  OBVIOUS
<1>1. /\ ReadingShape /\ ReadingTypeOK /\ AskFits /\ IsAsk(ask) /\ Times
      /\ ask.times \in [Reports -> Nat] /\ (ask.what = "reports" => WalkFits /\ WalkShows)
  BY DEF WalkInv, ReadingShape, AskFits, Times
<1>2. name \in [Students -> Names]
  BY <1>1 DEF ReadingTypeOK
<1>3. ReadingShape' /\ Times'
  BY <1>1, ShapeStep, TimesStep
<1> SUFFICES ASSUME ask'.what = "reports"
             PROVE  WalkFits' /\ WalkShows'
  BY <1>3 DEF WalkInv
<1>4. ASSUME NEW who \in Readers, NEW what \in Readings, NEW of, NEW needs \in BOOLEAN,
             Ask(who, what, of, needs)
      PROVE  WalkFits' /\ WalkShows'
  <2>1. AskBegins(who, what, needs)
    BY <1>4, AskDoes
  <2>2. /\ UNCHANGED world /\ ask'.cursor = Top /\ ask'.times = NoTimes /\ ask'.renamed = {}
        /\ ask'.standing \subseteq Listed(ask') /\ ask'.left = ReportList
    BY <2>1 DEF AskBegins, Queries
  <2>3. /\ Listed(ask)' = Listed(ask') /\ \A r : Position(r)' = Position(r)
        /\ Listed(ask') \subseteq Reports
    BY <2>2 DEF Listed, ReportVisible, IsProf, Position, world
  <2>4. Weeks # {} => Top \in Triples /\ \A r \in Reports : Before(Top, Position(r))
    BY <1>2, TopIsFirst
  <2>5. Reports # {} => Weeks # {}
    BY DEF Reports
  <2>6. WalkFits'
    BY <2>2, <2>3, <2>4 DEF WalkFits
  <2>7. \A r \in Reports : ask'.times[r] = 0
    BY <2>2 DEF NoTimes
  <2>8. WalkShows'
    BY <2>2, <2>3, <2>4, <2>5, <2>7 DEF WalkShows
  <2> QED
    BY <2>6, <2>8
<1>5. ASSUME Query
      PROVE  WalkFits' /\ WalkShows'
  <2>1. /\ UNCHANGED world /\ ask.left # << >> /\ ask'.who = ask.who /\ ask'.what = ask.what
        /\ ask'.needsReview = ask.needsReview
        /\ ask'.standing = ask.standing /\ ask'.renamed = ask.renamed
        /\ Head(ask.left) # "page" =>
              ask'.more = ask.more /\ ask'.cursor = ask.cursor /\ ask'.times = ask.times
    BY <1>1, <1>5, QueryDoes
  <2>2. WalkFits /\ WalkShows
    BY <1>1, <2>1
  <2>3. CASE Head(ask.left) = "page"
    BY <1>1, <1>5, <2>2, <2>3, WalkQuery
  <2>4. CASE Head(ask.left) # "page"
    <3>1. Listed(ask)' = Listed(ask) /\ \A r : Position(r)' = Position(r)
      BY <2>1, ListedSame
    <3>2. ask.left # ReportList
      BY <2>4 DEF ReportList
    <3>3. WalkFits'
      BY <2>1, <2>2, <2>4, <3>1 DEF WalkFits
    <3>4. WalkShows'
      BY <2>1, <2>2, <2>4, <3>1, <3>2 DEF WalkShows
    <3> QED
      BY <3>3, <3>4
  <2> QED
    BY <2>3, <2>4
<1>6. ASSUME NextPage
      PROVE  WalkFits' /\ WalkShows'
  <2>1. /\ UNCHANGED world /\ ask.what = "reports" /\ ask'.who = ask.who /\ ask.more
        /\ ask'.left = Queries("reports") /\ ask'.more = ask.more
        /\ ask'.needsReview = ask.needsReview /\ ask'.cursor = ask.cursor /\ ask'.times = ask.times
        /\ ask'.standing = ask.standing /\ ask'.renamed = ask.renamed
    BY <1>1, <1>6, NextPageDoes
  <2>2. Listed(ask)' = Listed(ask) /\ \A r : Position(r)' = Position(r)
    BY <2>1, ListedSame
  <2>3. WalkFits'
    BY <1>1, <2>1, <2>2 DEF WalkFits
  <2>4. WalkShows'
    BY <1>1, <2>1, <2>2 DEF WalkShows
  <2> QED
    BY <2>3, <2>4
<1>7. ASSUME Close
      PROVE  WalkFits' /\ WalkShows'
  BY <1>7, CloseDoes DEF NoAsk
<1>8. ASSUME Others
      PROVE  WalkFits' /\ WalkShows'
  <2>1. Written /\ Watched
    BY <1>1, <1>8, OthersDo DEF Written
  <2>2. ask.what # "none"
    <3>1. ask.what = "none" => ask' = ask
      BY <2>1 DEF Watched
    <3> QED
      BY <3>1
  <2>3. /\ ask'.who = ask.who /\ ask'.what = ask.what
        /\ ask'.left = ask.left /\ ask'.needsReview = ask.needsReview
        /\ ask'.cursor = ask.cursor /\ ask'.more = ask.more /\ ask'.times = ask.times
        /\ \A s \in Students : s \in ask'.renamed <=>
              s \in ask.renamed \/ (ask.what = "reports" /\ name'[s] # name[s])
        /\ \A r \in ask'.standing : /\ r \in ask.standing /\ name'[r[1]] = name[r[1]]
                                    /\ ask.needsReview => waiting'[r]
    BY <1>1, <2>1, <2>2, WatchedDoes
  <2>4. WalkFits /\ WalkShows /\ ask.what = "reports"
    BY <1>1, <2>3
  <2>5. \A r \in Reports : r[1] \in Students
    BY DEF Reports
  <2>6. \A r \in Reports : name'[r[1]] = name[r[1]] => Position(r)' = Position(r)
    BY DEF Position
  <2>7. Listed(ask) \subseteq Reports
    BY DEF Listed, ReportVisible
  <2>8. ASSUME NEW r \in ask'.standing
        PROVE  /\ r \in Listed(ask)' /\ r[1] \notin ask'.renamed /\ r \in Reports
               /\ r \in ask.standing /\ Position(r)' = Position(r)
    <3>1. /\ r \in ask.standing /\ r \in Listed(ask) /\ r \in Reports /\ r[1] \notin ask.renamed
          /\ name'[r[1]] = name[r[1]] /\ (ask.needsReview => waiting'[r])
      BY <2>3, <2>4, <2>7 DEF WalkFits
    <3>2. filed[r] # 0 /\ filed'[r] # 0 /\ r \in ReportVisible(ask)
      BY <2>1, <3>1 DEF Listed, Written
    <3>3. r \in Listed(ask)'
      BY <2>3, <3>1, <3>2 DEF Listed, ReportVisible, IsProf
    <3> QED
      BY <2>3, <2>5, <2>6, <3>1, <3>3
  <2>9. WalkFits'
    BY <2>3, <2>4, <2>8 DEF WalkFits
  <2>10. \A r \in Reports : r[1] \notin ask'.renamed =>
            r[1] \notin ask.renamed /\ Position(r)' = Position(r)
    BY <2>3, <2>4, <2>5, <2>6
  <2>11. WalkShows'
    BY <2>3, <2>4, <2>8, <2>10 DEF WalkShows
  <2> QED
    BY <2>9, <2>11
<1>9. CASE UNCHANGED readingVars
  <2>1. UNCHANGED world /\ ask' = ask
    BY <1>9 DEF readingVars
  <2>2. Listed(ask)' = Listed(ask) /\ \A r : Position(r)' = Position(r)
    BY <2>1, ListedSame
  <2>3. WalkFits'
    BY <1>1, <2>1, <2>2 DEF WalkFits
  <2>4. WalkShows'
    BY <1>1, <2>1, <2>2 DEF WalkShows
  <2> QED
    BY <2>3, <2>4
<1> QED
  BY <1>4, <1>5, <1>6, <1>7, <1>8, <1>9 DEF ReadingNext, Reads

\* Whoever follows the list of reports to its end has seen every standing report
\* exactly once, whatever the size of a page and of the list.
THEOREM PagesShowEach == ReadingSpec => []PagesShowEachOnce
<1>1. WalkInv => PagesShowEachOnce
  <2> SUFFICES ASSUME WalkInv, ask.what = "reports"
               PROVE  /\ \A r \in Reports : r[1] \notin ask.renamed => ask.times[r] <= 1
                      /\ ask.left # ReportList /\ ~ ask.more =>
                            \A r \in ask.standing : ask.times[r] = 1
    BY DEF PagesShowEachOnce
  <2> QED
    BY DEF WalkInv, WalkShows
<1>2. ReadingSpec => []WalkInv
  BY WalkInit, WalkStep, PTL DEF ReadingSpec
<1> QED
  BY <1>1, <1>2, PTL

=============================================================================
