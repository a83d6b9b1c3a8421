------------------------------- MODULE Gateway -------------------------------
(***************************************************************************)
(* The model calls of the analyses of one workspace, and the budget they   *)
(* are held to (ai/gateway.py, ai/cost.py, assessment/service.py).         *)
(*                                                                         *)
(* An analysis is one transaction: it asks the model for three steps in    *)
(* turn, and before each call it compares what the ledger shows of this    *)
(* month with the workspace's budget and the project's.  The ledger rows   *)
(* are written in the analysis' own transaction, so it sees its own and    *)
(* those that others have committed, and they are lost when it raises.     *)
(* They are dated by the transaction's start (ai_calls.created_at).        *)
(***************************************************************************)
EXTENDS Integers, FiniteSets

CONSTANTS
    Runs,           \* analyses under way at once: worker slots and retry requests
    Projects,
    Budget,         \* the workspace's monthly_usd; it has one
    Shares,         \* what a project's limit may be set to
    NoLimit,        \* a project without a limit of its own
    Costs,          \* what a call may cost at the published rate
    Dearest,        \* and the most it may
    MaxTries        \* DEFAULT_MAX_ATTEMPTS, attempts of one call

ASSUME GatewayAssumption ==
    /\ IsFiniteSet(Runs) /\ Runs # {} /\ Projects # {} /\ "workspace" \notin Projects
    /\ Budget \in Nat \ {0} /\ Shares \subseteq Nat /\ NoLimit \notin Nat
    /\ Costs \subseteq Nat /\ Dearest \in Costs /\ \A c \in Costs : c <= Dearest
    /\ MaxTries \in Nat \ {0}

VARIABLES
    share,      \* each project's monthly limit, or NoLimit
    ledger,     \* what the committed ai_calls of this month cost, in each scope
    run         \* what each analysis has done so far

gatewayVars == <<share, ledger, run>>

\* A row of the ledger counts for its project and for the workspace.
Scopes == Projects \cup {"workspace"}

\* extract_claims, match_claims, rate_rubric.
Steps == 1 .. 3
\* A run that is ending holds its result: a draft, or the reason there is none.
Results == {"completed", "partial", "delayed_budget"}
Idle == [pc |-> "idle", project |-> CHOOSE p \in Projects : TRUE, step |-> 1, attempt |-> 0,
         own |-> 0, dated |-> "now"]

\* own is the cost of the rows the run has flushed; they count while the month
\* the run started in lasts.
RunRecords == [pc : {"idle", "deciding", "calling"} \cup Results, project : Projects,
               step : Steps, attempt : 0 .. MaxTries, own : Nat,
               dated : {"now", "last month"}]

GatewayTypeOK ==
    /\ share \in [Projects -> Shares \cup {NoLimit}]
    /\ ledger \in [Scopes -> Nat]
    /\ run \in [Runs -> RunRecords]

GatewayInit ==
    /\ share \in [Projects -> Shares \cup {NoLimit}]
    /\ ledger = [s \in Scopes |-> 0]
    /\ run = [r \in Runs |-> Idle]

-----------------------------------------------------------------------------
(* The budget, as one run sees it. *)

\* usage: the rows of this month that others committed and the run wrote.
Own(r)      == IF run[r].dated = "now" THEN run[r].own ELSE 0
Spent(r, s) == ledger[s] + Own(r)
Limit(s)    == IF s = "workspace" THEN Budget ELSE share[s]

\* _decide: a limit of zero and a limit that is reached refuse; a warning at 80 %.
Refuses(spent, limit) == limit = 0 \/ spent >= limit
Warns(spent, limit)   == 5 * spent >= 4 * limit

\* Mutant of Allowed: a project's warning answers for the workspace too.
AllowedOnWarning(r) ==
    LET p == run[r].project IN
    IF share[p] # NoLimit /\ (Refuses(Spent(r, p), share[p]) \/ Warns(Spent(r, p), share[p]))
    THEN ~Refuses(Spent(r, p), share[p])
    ELSE ~Refuses(Spent(r, "workspace"), Budget)

\* check_budget: both limits apply.
Allowed(r) ==
    \A s \in {run[r].project, "workspace"} :
        Limit(s) # NoLimit => ~Refuses(Spent(r, s), Limit(s))

\* The professor sets a project's limit; the workspace's stays.
SetBudgets(p, limit) ==
    /\ share' = [share EXCEPT ![p] = limit]
    /\ UNCHANGED <<ledger, run>>

\* A month begins: a run that is under way writes rows of the last one.
NewMonth ==
    /\ ledger' = [s \in Scopes |-> 0]
    /\ run' = [r \in Runs |-> IF run[r].pc = "idle" THEN Idle
                              ELSE [run[r] EXCEPT !.dated = "last month"]]
    /\ UNCHANGED share

-----------------------------------------------------------------------------
(* One analysis: _analyse, and complete_structured for each of its steps. *)

Start(r, p) ==
    /\ run[r].pc = "idle"
    /\ run' = [run EXCEPT ![r] = [Idle EXCEPT !.pc = "deciding", !.project = p]]
    /\ UNCHANGED <<share, ledger>>

\* A refused step ends the analysis, visibly delayed; its row costs nothing.
Decide(r) ==
    /\ run[r].pc = "deciding"
    /\ run' = [run EXCEPT ![r].pc = IF Allowed(r) THEN "calling" ELSE "delayed_budget",
                          ![r].attempt = 1]
    /\ UNCHANGED <<share, ledger>>

\* _record: a row of the ledger, flushed and not committed.  An outcome that
\* was not paid for adds nothing.
Recorded(r, cost) == [run EXCEPT ![r].own = @ + cost]

\* The row, then the next step.
Answer(r, cost) ==
    /\ run[r].pc = "calling"
    /\ run' = [Recorded(r, cost) EXCEPT
                          ![r].pc = IF run[r].step = 3 THEN "completed" ELSE "deciding",
                          ![r].step = IF @ = 3 THEN @ ELSE @ + 1]
    /\ UNCHANGED <<share, ledger>>

\* A refusal, or output that does not match the schema: it is paid for as well.
Unparsed(r, cost) ==
    /\ run[r].pc = "calling"
    /\ run' = [Recorded(r, cost) EXCEPT ![r].pc = "partial"]
    /\ UNCHANGED <<share, ledger>>

\* Mutant of Retry: the attempts start again when they are used up.
RetryAnew(r) ==
    /\ run[r].pc = "calling"
    /\ run' = [run EXCEPT ![r].attempt = (@ % MaxTries) + 1]
    /\ UNCHANGED <<share, ledger>>

\* A transient failure is tried again, and nothing is recorded of it.
Retry(r) ==
    /\ run[r].pc = "calling" /\ run[r].attempt < MaxTries
    /\ run' = [run EXCEPT ![r].attempt = @ + 1]
    /\ UNCHANGED <<share, ledger>>

\* The last failure, or one that would fail again: its row costs nothing.
Fail(r) ==
    /\ run[r].pc = "calling"
    /\ run' = [run EXCEPT ![r].pc = "partial"]
    /\ UNCHANGED <<share, ledger>>

\* The analysis is committed, with its result and its rows of the ledger.
Commit(r) ==
    /\ run[r].pc \in Results
    /\ ledger' = [s \in Scopes |-> IF s \in {run[r].project, "workspace"}
                                 THEN Spent(r, s) ELSE ledger[s]]
    /\ run' = [run EXCEPT ![r] = Idle]
    /\ UNCHANGED share

\* It raises, on the number of its assessment or on the database: the rows go.
Abort(r) ==
    /\ run[r].pc # "idle"
    /\ run' = [run EXCEPT ![r] = Idle]
    /\ UNCHANGED <<share, ledger>>

-----------------------------------------------------------------------------
Proceed(r) ==
    \/ Decide(r) \/ Retry(r) \/ Fail(r) \/ Commit(r) \/ Abort(r)
    \/ \E cost \in Costs : Answer(r, cost) \/ Unparsed(r, cost)

GatewayNext ==
    \/ \E r \in Runs : Proceed(r) \/ \E p \in Projects : Start(r, p)
    \/ \E p \in Projects, limit \in Shares \cup {NoLimit} : SetBudgets(p, limit)
    \/ NewMonth

GatewaySpec == GatewayInit /\ [][GatewayNext]_gatewayVars

\* Every call is answered or times out (DEFAULT_TIMEOUT_SECONDS), and a
\* transaction that is open goes on.
GatewayFairness == \A r \in Runs : WF_gatewayVars(Proceed(r))

FairGatewaySpec == GatewaySpec /\ GatewayFairness

-----------------------------------------------------------------------------
(* Properties. *)

\* The budget is checked before a call and its cost is known after it, so the
\* runs that are at work together may each pass it once: by what they spent up
\* to their last permitted call, and never by more (requirements section 11).
Overspend    == Budget - 1 + Dearest
WithinBudget == ledger["workspace"] <= Cardinality(Runs) * Overspend

\* Every analysis that starts comes to an end the product can show, or raises:
\* no provider failure is tried for ever.
EveryRunEnds == \A r \in Runs : run[r].pc # "idle" ~> run[r].pc = "idle"

=============================================================================
