----------------------------- MODULE Reminders -----------------------------
(***************************************************************************)
(* The missed-deadline e-mail (notifications/service.py and its periodic   *)
(* jobs): a scan finds the weeks whose reminder is due, records a notice   *)
(* for every student who has not handed in, and stamps the week; a sender  *)
(* mails what is queued, with bounded attempts.                            *)
(*                                                                         *)
(* Every run of a job is one transaction at READ COMMITTED: what it wrote  *)
(* is its own until the commit and gone if it crashes, but a mail that     *)
(* went out has gone out.  A job starts every few minutes whether or not   *)
(* the one before it is done.  Students and professors act in between.     *)
(***************************************************************************)
EXTENDS Integers

CONSTANTS
    Students,
    Weeks,
    Scanners,       \* runs of notifications.scan_due_reminders
    Senders,        \* runs of notifications.send_queued_emails
    Due,            \* reminder_due_utc of each week
    MaxAttempts,    \* MAX_EMAIL_ATTEMPTS
    Busy,           \* bound: entries whose student and professor act
    Faulty,         \* bound: jobs that may crash or lose a reply
    MaxTime,        \* bound: the last instant
    MaxFaults       \* bound: crashes and lost replies of one job

ASSUME RemindersAssumption ==
    /\ Due \in [Weeks -> Nat] /\ Busy \subseteq Students \X Weeks /\ Faulty \subseteq Scanners \cup Senders
    /\ MaxAttempts \in Nat \ {0} /\ MaxTime \in Nat /\ MaxFaults \in Nat

VARIABLES
    now,
    liable,     \* whether the entry is required, and its membership and project stand
    handed,     \* the current version carries the entry
    until,      \* extension_until_utc, 0 for none
    stamped,    \* the weeks with a reminder_dispatched_at
    delivery,   \* email_deliveries, one for every notice
    scan,       \* what a scan has read and written but not committed
    send,       \* what a sender has read and written but not committed
    mails,      \* history: the mails of each sender that reached the relay
    faults,     \* history: the crashes, lost replies and deadlocks of each job
    seen        \* history: what each entry has been since its reminder was due

vars == <<now, liable, handed, until, stamped, delivery, scan, send, mails, faults, seen>>
entryVars == <<liable, handed, until>>

Entries == Students \X Weeks    \* a student's week: one notice, one mail
Of(w)   == {e \in Entries : e[2] = w}
Jobs    == Scanners \cup Senders

NoScan == [at |-> 0, todo |-> {}, week |-> {}, missing |-> {}, wrote |-> {}, marks |-> {}]
NoSend == [todo |-> {}, attempts |-> [e \in Entries |-> 0], out |-> {}, accepted |-> FALSE,
           rows |-> {}, sent |-> {}]

TypeOK ==
    /\ now \in 0 .. MaxTime
    /\ liable \in [Entries -> BOOLEAN]
    /\ handed \in [Entries -> BOOLEAN] /\ until \in [Entries -> 0 .. MaxTime]
    /\ stamped \subseteq Weeks
    /\ delivery \in [Entries -> [state : {"none", "queued", "sent", "failed"}, attempts : 0 .. MaxAttempts]]
    /\ scan \in [Scanners -> [at : 0 .. MaxTime, todo : SUBSET Weeks, week : SUBSET Weeks,
                              missing : SUBSET Entries, wrote : SUBSET Entries, marks : SUBSET Weeks]]
    /\ send \in [Senders -> [todo : SUBSET Entries, attempts : [Entries -> 0 .. MaxAttempts],
                             out : SUBSET Entries, accepted : BOOLEAN,
                             rows : SUBSET Entries, sent : SUBSET Entries]]
    /\ mails \in [Senders -> [Entries -> Nat]] /\ faults \in [Jobs -> Nat]
    /\ seen \in [Entries -> SUBSET {"missing", "fine"}]

\* required_obligations_at and submitted_project_ids, at an instant.
Missing(e, at) == liable[e] /\ until[e] <= at /\ ~handed[e]

Standing(e, at) == IF Missing(e, at) THEN "missing" ELSE "fine"

Init ==
    /\ now = 0
    /\ liable = [e \in Entries |-> TRUE]
    /\ handed = [e \in Entries |-> FALSE] /\ until = [e \in Entries |-> 0]
    /\ stamped = {} /\ delivery = [e \in Entries |-> [state |-> "none", attempts |-> 0]]
    /\ scan = [j \in Scanners |-> NoScan] /\ send = [k \in Senders |-> NoSend]
    /\ mails = [k \in Senders |-> [e \in Entries |-> 0]] /\ faults = [j \in Jobs |-> 0]
    /\ seen = [e \in Entries |-> IF Due[e[2]] > now THEN {} ELSE {Standing(e, now)}]

\* What an entry is now, once its reminder is due.
Watched == seen' = [e \in Entries |-> seen[e] \cup IF Due[e[2]] > now' THEN {}
                                                    ELSE {Standing(e, now)'}]

-----------------------------------------------------------------------------
(* Time, students and professors. *)

Tick ==
    /\ now < MaxTime /\ now' = now + 1
    /\ UNCHANGED <<entryVars, stamped, delivery, scan, send, mails, faults>>
    /\ Watched

\* An accepted submission carries the entry, and every later version does.
HandIn(e) ==
    /\ ~handed[e] /\ handed' = [handed EXCEPT ![e] = TRUE]
    /\ UNCHANGED <<now, liable, until, stamped, delivery, scan, send, mails, faults>>
    /\ Watched

\* Excused, the membership ended, the project paused or completed; or taken up again.
Change(e) ==
    /\ liable' = [liable EXCEPT ![e] = ~@]
    /\ UNCHANGED <<now, handed, until, stamped, delivery, scan, send, mails, faults>>
    /\ Watched

\* extend_obligation, to an instant that is still to come.
Extend(e, t) ==
    /\ t > now /\ until[e] # t /\ until' = [until EXCEPT ![e] = t]
    /\ UNCHANGED <<now, liable, handed, stamped, delivery, scan, send, mails, faults>>
    /\ Watched

-----------------------------------------------------------------------------
(* The scan. *)

\* periods_awaiting_reminder: the instant is fixed here, for every week of the run.
StartScan(j) ==
    LET due == {w \in Weeks : Due[w] <= now /\ w \notin stamped} IN
    /\ scan[j] = NoScan /\ due # {}
    /\ scan' = [scan EXCEPT ![j] = [NoScan EXCEPT !.at = now, !.todo = due]]
    /\ UNCHANGED <<now, entryVars, stamped, delivery, send, mails, faults, seen>>

\* Mutant of ReadWeek: an extension that still runs is not heeded.
ReadWeekUnextended(j, w) ==
    /\ w \in scan[j].todo /\ scan[j].week = {}
    /\ scan' = [scan EXCEPT ![j].week = {w}, ![j].todo = @ \ {w},
                            ![j].missing = {e \in Of(w) : liable[e] /\ ~handed[e]}]
    /\ UNCHANGED <<now, entryVars, stamped, delivery, send, mails, faults, seen>>

\* unfulfilled_entries, read at the moment of dispatching this week.
ReadWeek(j, w) ==
    /\ w \in scan[j].todo /\ scan[j].week = {}
    /\ \A x \in scan[j].todo : Due[w] <= Due[x]
    /\ scan' = [scan EXCEPT ![j].week = {w}, ![j].todo = @ \ {w},
                            ![j].missing = {e \in Of(w) : Missing(e, scan[j].at)}]
    /\ UNCHANGED <<now, entryVars, stamped, delivery, send, mails, faults, seen>>

\* Another scan has written one of these keys, or the stamp, and not committed.
ScanWaitsFor(j, x) == x # j /\ (scan[j].missing \cap scan[x].wrote # {} \/ scan[j].week \cap scan[x].marks # {})

\* dispatch_missed_deadline: notify inserts nothing where the notice exists; the
\* week is stamped last, if it still has no stamp.
Dispatch(j) ==
    /\ scan[j].week # {} /\ ~\E x \in Scanners : ScanWaitsFor(j, x)
    /\ scan' = [scan EXCEPT
          ![j].wrote = @ \cup {e \in scan[j].missing : delivery[e].state = "none"},
          ![j].marks = @ \cup scan[j].week, ![j].week = {}, ![j].missing = {}]
    /\ UNCHANGED <<now, entryVars, stamped, delivery, send, mails, faults, seen>>

\* Mutant of CommitScan: the stamp is committed before the notices.
CommitStampFirst(j) ==
    /\ scan[j] # NoScan /\ scan[j].todo = {} /\ scan[j].week = {}
    /\ stamped' = stamped \cup scan[j].marks
    /\ IF scan[j].marks # {} THEN delivery' = delivery /\ scan' = [scan EXCEPT ![j].marks = {}]
       ELSE /\ delivery' = [e \in Entries |-> IF e \in scan[j].wrote THEN [state |-> "queued", attempts |-> 0]
                                                                      ELSE delivery[e]]
            /\ scan' = [scan EXCEPT ![j] = NoScan]
    /\ UNCHANGED <<now, entryVars, send, mails, faults, seen>>

CommitScan(j) ==
    /\ scan[j] # NoScan /\ scan[j].todo = {} /\ scan[j].week = {}
    /\ delivery' = [e \in Entries |-> IF e \in scan[j].wrote THEN [state |-> "queued", attempts |-> 0]
                                                             ELSE delivery[e]]
    /\ stamped' = stamped \cup scan[j].marks
    /\ scan' = [scan EXCEPT ![j] = NoScan]
    /\ UNCHANGED <<now, entryVars, send, mails, faults, seen>>

-----------------------------------------------------------------------------
(* The sender. *)

\* Mutant of TakeQueued: what was refused once is not tried again.
TakeUntried(k) ==
    LET queued == {e \in Entries : delivery[e].state = "queued" /\ delivery[e].attempts = 0} IN
    /\ send[k] = NoSend /\ queued # {}
    /\ send' = [send EXCEPT ![k].todo = queued]
    /\ UNCHANGED <<now, entryVars, stamped, delivery, scan, mails, faults, seen>>

\* queued_deliveries.
TakeQueued(k) ==
    LET queued == {e \in Entries : delivery[e].state = "queued"} IN
    /\ send[k] = NoSend /\ queued # {}
    /\ send' = [send EXCEPT ![k].todo = queued,
                            ![k].attempts = [e \in Entries |-> IF e \in queued THEN delivery[e].attempts ELSE 0]]
    /\ UNCHANGED <<now, entryVars, stamped, delivery, scan, mails, faults, seen>>

\* The relay takes the mail or refuses it, or takes it and its reply is lost.
\* Notices of one scan were created at one instant: they come in any order.
Mail(k, e, taken, accepted) ==
    /\ e \in send[k].todo /\ send[k].out = {}
    /\ (accepted => taken) /\ (taken /\ ~accepted => k \in Faulty /\ faults[k] < MaxFaults)
    /\ mails' = [mails EXCEPT ![k][e] = @ + IF taken THEN 1 ELSE 0]
    /\ faults' = [faults EXCEPT ![k] = @ + IF taken /\ ~accepted THEN 1 ELSE 0]
    /\ send' = [send EXCEPT ![k].todo = @ \ {e}, ![k].out = {e}, ![k].accepted = accepted]
    /\ UNCHANGED <<now, entryVars, stamped, delivery, scan, seen>>

\* Another sender has written the row and not committed.
SendWaitsFor(k, x) == x # k /\ send[k].out \cap send[x].rows # {}

\* The flush: attempts are counted on from what was read.
Flush(k) ==
    /\ send[k].out # {} /\ ~\E x \in Senders : SendWaitsFor(k, x)
    /\ send' = [send EXCEPT ![k].rows = @ \cup send[k].out, ![k].out = {},
                            ![k].sent = @ \cup (IF send[k].accepted THEN send[k].out ELSE {}),
                            ![k].accepted = FALSE,
                            ![k].attempts = [e \in Entries |-> @[e] + IF e \in send[k].out THEN 1 ELSE 0]]
    /\ UNCHANGED <<now, entryVars, stamped, delivery, scan, mails, faults, seen>>

\* Mutant of Row: an accepted mail stays queued.
RowStaysQueued(k, e) == [delivery[e] EXCEPT !.attempts = send[k].attempts[e],
                           !.state = IF send[k].attempts[e] >= MaxAttempts THEN "failed" ELSE @]

\* The row as committed: the state is written where it changed from what was read.
Row(k, e) == [delivery[e] EXCEPT !.attempts = send[k].attempts[e],
                !.state = IF e \in send[k].sent THEN "sent"
                          ELSE IF send[k].attempts[e] >= MaxAttempts THEN "failed" ELSE @]

CommitSend(k) ==
    /\ send[k].rows # {} /\ send[k].todo = {} /\ send[k].out = {}
    /\ delivery' = [e \in Entries |-> IF e \in send[k].rows THEN Row(k, e) ELSE delivery[e]]
    /\ send' = [send EXCEPT ![k] = NoSend]
    /\ UNCHANGED <<now, entryVars, stamped, scan, mails, faults, seen>>

-----------------------------------------------------------------------------
(* Crashes, and the transaction that the database ends when two wait for   *)
(* each other.                                                             *)

Rollback(j) ==
    /\ scan' = [x \in Scanners |-> IF x = j THEN NoScan ELSE scan[x]]
    /\ send' = [x \in Senders |-> IF x = j THEN NoSend ELSE send[x]]
    /\ faults' = [faults EXCEPT ![j] = @ + 1]
    /\ UNCHANGED <<now, entryVars, stamped, delivery, mails, seen>>

Open(j) == (j \in Scanners /\ scan[j] # NoScan) \/ (j \in Senders /\ send[j] # NoSend)

Deadlocked(j) ==
    \/ j \in Scanners /\ \E x \in Scanners : ScanWaitsFor(j, x) /\ ScanWaitsFor(x, j)
    \/ j \in Senders /\ \E x \in Senders : SendWaitsFor(j, x) /\ SendWaitsFor(x, j)

Fail(j) ==
    /\ Deadlocked(j) \/ (Open(j) /\ j \in Faulty /\ faults[j] < MaxFaults)
    /\ Rollback(j)

-----------------------------------------------------------------------------

PeopleStep ==
    \E e \in Busy : HandIn(e) \/ Change(e) \/ \E t \in 0 .. MaxTime : Extend(e, t)

ScanStep(j) == StartScan(j) \/ (\E w \in Weeks : ReadWeek(j, w)) \/ Dispatch(j) \/ CommitScan(j)
SendStep(k) ==
    \/ TakeQueued(k) \/ Flush(k) \/ CommitSend(k)
    \/ \E e \in Entries, taken, accepted \in BOOLEAN : Mail(k, e, taken, accepted)

Next ==
    \/ Tick \/ PeopleStep
    \/ \E j \in Scanners : ScanStep(j)
    \/ \E k \in Senders : SendStep(k)
    \/ \E j \in Jobs : Fail(j)

Spec == Init /\ [][Next]_vars

\* The jobs are started again and again, and one that runs goes on.
FairSpec ==
    /\ Spec /\ WF_vars(Tick)
    /\ \A j \in Scanners : WF_vars(ScanStep(j)) /\ WF_vars(Deadlocked(j) /\ Fail(j))
    /\ \A k \in Senders : WF_vars(SendStep(k)) /\ WF_vars(Deadlocked(k) /\ Fail(k))

-----------------------------------------------------------------------------

Told(e) == delivery[e].state # "none"

\* No student is mailed who was never missing from the deadline on: handed in at the
\* last minute, excused, paused or extended all through.
NoFalseAlarm == \A e \in Entries : Told(e) => "missing" \in seen[e]

\* A week that is stamped is done: whoever was missing all the time since its
\* reminder was due has a notice, whatever crashed between the two.
EveryMissingIsTold == \A e \in Entries : e[2] \in stamped /\ seen[e] = {"missing"} => Told(e)

\* A sender mails a student once for a week, and once more at the most for every
\* crash, lost reply or deadlock of its own.
OneMailEach == \A k \in Senders, e \in Entries : mails[k][e] <= 1 + faults[k]

\* A student who is missing from the deadline on is told, or the professor sees
\* that the mail could not be sent.
ToldInTheEnd ==
    \A e \in Entries : <>[](seen[e] = {"missing"}) => <>(delivery[e].state \in {"sent", "failed"})

=============================================================================
