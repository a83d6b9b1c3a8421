--------------------------- MODULE RemindersProofs ---------------------------
(* Theorems about Reminders, for every value of its constants. *)
EXTENDS Reminders, TLAPS

States == {"none", "queued", "sent", "failed"}
Deliveries == [state : States, attempts : 0 .. MaxAttempts]
Scans == [at : 0 .. MaxTime, todo : SUBSET Weeks, week : SUBSET Weeks,
          missing : SUBSET Entries, wrote : SUBSET Entries, marks : SUBSET Weeks]
Sends == [todo : SUBSET Entries, attempts : [Entries -> 0 .. MaxAttempts],
          out : SUBSET Entries, accepted : BOOLEAN, rows : SUBSET Entries, sent : SUBSET Entries]

\* What a sender holds is in one place, was recorded, and may be tried once more.
Sending(k) ==
    /\ send[k].todo \cap send[k].out = {} /\ send[k].todo \cap send[k].rows = {}
    /\ send[k].out \cap send[k].rows = {} /\ send[k].sent \subseteq send[k].rows
    /\ \A e \in send[k].todo \cup send[k].out : send[k].attempts[e] < MaxAttempts
    /\ \A e \in send[k].todo \cup send[k].out \cup send[k].rows : Told(e)
Trying == \A e \in Entries : delivery[e].state = "queued" => delivery[e].attempts < MaxAttempts

TypeInv == TypeOK /\ Trying /\ \A k \in Senders : Sending(k)

LEMMA TypeFields ==
  ASSUME TypeInv
  PROVE  /\ \A j \in Scanners : scan[j] \in Scans
         /\ \A k \in Senders : send[k] \in Sends /\ Sending(k)
         /\ \A e \in Entries : delivery[e] \in Deliveries
         /\ \A e \in Entries : e[2] \in Weeks
         /\ now \in 0 .. MaxTime /\ MaxTime \in Nat /\ MaxAttempts \in Nat \ {0}
         /\ \A w \in Weeks : Due[w] \in Nat
         /\ \A e \in Entries : until[e] \in Nat
<1>1. \A j \in Scanners : scan[j] \in Scans
  BY DEF TypeInv, TypeOK, Scans
<1>2. \A k \in Senders : send[k] \in Sends /\ Sending(k)
  BY DEF TypeInv, TypeOK, Sends
<1>3. \A e \in Entries : delivery[e] \in Deliveries
  BY DEF TypeInv, TypeOK, Deliveries, States
<1>4. \A e \in Entries : e[2] \in Weeks
  BY DEF Entries
<1>5. now \in 0 .. MaxTime /\ MaxTime \in Nat /\ MaxAttempts \in Nat \ {0}
  BY RemindersAssumption DEF TypeInv, TypeOK
<1>6. \A w \in Weeks : Due[w] \in Nat
  BY RemindersAssumption
<1>7. \A e \in Entries : until[e] \in Nat
  BY <1>5 DEF TypeInv, TypeOK
<1> QED
  BY <1>1, <1>2, <1>3, <1>4, <1>5, <1>6, <1>7

-----------------------------------------------------------------------------
(* What the steps of a scan and of a sender write, field by field. *)

LEMMA ReadWeekFields ==
  ASSUME TypeInv, NEW j \in Scanners, NEW w \in Weeks, ReadWeek(j, w)
  PROVE  /\ scan'[j] \in Scans /\ scan' \in [Scanners -> Scans]
         /\ scan'[j].at = scan[j].at /\ scan'[j].todo = scan[j].todo \ {w} /\ scan'[j].week = {w}
         /\ scan'[j].missing = {e \in Of(w) : Missing(e, scan[j].at)}
         /\ scan'[j].wrote = scan[j].wrote /\ scan'[j].marks = scan[j].marks
         /\ \A x \in Scanners : x # j => scan'[x] = scan[x]
<1> DEFINE m == {e \in Of(w) : Missing(e, scan[j].at)}
<1>1. scan' = [scan EXCEPT ![j] = [scan[j] EXCEPT !.week = {w}, !.todo = scan[j].todo \ {w},
                                                  !.missing = m]]
  BY DEF ReadWeek
<1>2. m \subseteq Entries
  BY DEF Of
<1>3. scan[j] \in Scans /\ scan \in [Scanners -> Scans]
  BY DEF TypeInv, TypeOK, Scans
<1> HIDE DEF m
<1>4. [scan[j] EXCEPT !.week = {w}, !.todo = scan[j].todo \ {w}, !.missing = m] \in Scans
  BY <1>2, <1>3 DEF Scans
<1> QED
  BY <1>1, <1>3, <1>4 DEF m, Scans

LEMMA DispatchFields ==
  ASSUME TypeInv, NEW j \in Scanners, Dispatch(j)
  PROVE  /\ scan'[j] \in Scans /\ scan' \in [Scanners -> Scans]
         /\ scan'[j].at = scan[j].at /\ scan'[j].todo = scan[j].todo
         /\ scan'[j].week = {} /\ scan'[j].missing = {}
         /\ scan'[j].wrote = scan[j].wrote \cup {e \in scan[j].missing : delivery[e].state = "none"}
         /\ scan'[j].marks = scan[j].marks \cup scan[j].week
         /\ \A x \in Scanners : x # j => scan'[x] = scan[x]
<1> DEFINE a == scan[j].wrote \cup {e \in scan[j].missing : delivery[e].state = "none"}
           b == scan[j].marks \cup scan[j].week
<1>1. scan' = [scan EXCEPT ![j] = [scan[j] EXCEPT !.wrote = a, !.marks = b,
                                                  !.week = {}, !.missing = {}]]
  BY DEF Dispatch
<1>2. scan[j] \in Scans /\ scan \in [Scanners -> Scans]
  BY DEF TypeInv, TypeOK, Scans
<1>3. a \subseteq Entries /\ b \subseteq Weeks
  BY <1>2 DEF Scans
<1> HIDE DEF a, b
<1>4. [scan[j] EXCEPT !.wrote = a, !.marks = b, !.week = {}, !.missing = {}] \in Scans
  BY <1>2, <1>3 DEF Scans
<1> QED
  BY <1>1, <1>2, <1>4 DEF a, b, Scans

LEMMA TakeFields ==
  ASSUME TypeInv, NEW k \in Senders, TakeQueued(k)
  PROVE  /\ send' \in [Senders -> Sends]
         /\ send'[k].todo = {e \in Entries : delivery[e].state = "queued"}
         /\ \A e \in send'[k].todo : send'[k].attempts[e] = delivery[e].attempts
         /\ send'[k].out = {} /\ send'[k].rows = {} /\ send'[k].sent = {}
         /\ \A x \in Senders : x # k => send'[x] = send[x]
<1> DEFINE q == {e \in Entries : delivery[e].state = "queued"}
           a == [e \in Entries |-> IF e \in q THEN delivery[e].attempts ELSE 0]
<1>1. send' = [send EXCEPT ![k] = [NoSend EXCEPT !.todo = q, !.attempts = a]]
  BY DEF TakeQueued
<1>2. send \in [Senders -> Sends] /\ NoSend \in Sends
  BY RemindersAssumption DEF TypeInv, TypeOK, Sends, NoSend
<1>3. q \subseteq Entries /\ a \in [Entries -> 0 .. MaxAttempts]
      /\ \A e \in q : a[e] = delivery[e].attempts
  BY TypeFields DEF Deliveries
<1>4. NoSend.out = {} /\ NoSend.rows = {} /\ NoSend.sent = {}
  BY DEF NoSend
<1> HIDE DEF q, a
<1>5. [NoSend EXCEPT !.todo = q, !.attempts = a] \in Sends
  BY <1>2, <1>3 DEF Sends
<1>6. /\ [NoSend EXCEPT !.todo = q, !.attempts = a].todo = q
      /\ [NoSend EXCEPT !.todo = q, !.attempts = a].attempts = a
      /\ [NoSend EXCEPT !.todo = q, !.attempts = a].out = {}
      /\ [NoSend EXCEPT !.todo = q, !.attempts = a].rows = {}
      /\ [NoSend EXCEPT !.todo = q, !.attempts = a].sent = {}
  BY <1>4 DEF NoSend
<1>7. send'[k] = [NoSend EXCEPT !.todo = q, !.attempts = a]
      /\ \A x \in Senders : x # k => send'[x] = send[x]
  BY <1>1, <1>2
<1>8. send' \in [Senders -> Sends]
  BY <1>1, <1>2, <1>5
<1>9. send'[k].todo = {e \in Entries : delivery[e].state = "queued"}
  BY <1>6, <1>7 DEF q
<1> QED
  BY <1>3, <1>6, <1>7, <1>8, <1>9

LEMMA MailFields ==
  ASSUME TypeInv, NEW k \in Senders, NEW e \in Entries, NEW taken \in BOOLEAN,
         NEW accepted \in BOOLEAN, Mail(k, e, taken, accepted)
  PROVE  /\ send' \in [Senders -> Sends]
         /\ send'[k].todo = send[k].todo \ {e} /\ send'[k].out = {e}
         /\ send'[k].accepted = accepted /\ send'[k].attempts = send[k].attempts
         /\ send'[k].rows = send[k].rows /\ send'[k].sent = send[k].sent
         /\ \A x \in Senders : x # k => send'[x] = send[x]
<1>1. send' = [send EXCEPT ![k] = [send[k] EXCEPT !.todo = send[k].todo \ {e}, !.out = {e},
                                                  !.accepted = accepted]]
  BY DEF Mail
<1>2. send[k] \in Sends /\ send \in [Senders -> Sends]
  BY DEF TypeInv, TypeOK, Sends
<1>3. [send[k] EXCEPT !.todo = send[k].todo \ {e}, !.out = {e}, !.accepted = accepted] \in Sends
  BY <1>2 DEF Sends
<1> QED
  BY <1>1, <1>2, <1>3 DEF Sends

LEMMA FlushFields ==
  ASSUME TypeInv, NEW k \in Senders, Flush(k)
  PROVE  /\ send' \in [Senders -> Sends]
         /\ send'[k].todo = send[k].todo /\ send'[k].out = {}
         /\ \A e \in send[k].todo : send'[k].attempts[e] = send[k].attempts[e]
         /\ send'[k].rows = send[k].rows \cup send[k].out
         /\ send'[k].sent = send[k].sent \cup (IF send[k].accepted THEN send[k].out ELSE {})
         /\ \A x \in Senders : x # k => send'[x] = send[x]
<1> DEFINE r == send[k].rows \cup send[k].out
           s == send[k].sent \cup (IF send[k].accepted THEN send[k].out ELSE {})
           a == [e \in Entries |-> send[k].attempts[e] + IF e \in send[k].out THEN 1 ELSE 0]
<1>1. send' = [send EXCEPT ![k] = [send[k] EXCEPT !.rows = r, !.out = {}, !.sent = s,
                                                  !.accepted = FALSE, !.attempts = a]]
  BY DEF Flush
<1>2. send[k] \in Sends /\ send \in [Senders -> Sends] /\ Sending(k)
  BY DEF TypeInv, TypeOK, Sends
<1>3. r \subseteq Entries /\ s \subseteq Entries
  BY <1>2 DEF Sends
<1>4. a \in [Entries -> 0 .. MaxAttempts]
  <2>1. \A e \in Entries : send[k].attempts[e] \in 0 .. MaxAttempts
    BY <1>2 DEF Sends
  <2>2. \A e \in Entries : e \in send[k].out => send[k].attempts[e] < MaxAttempts
    BY <1>2 DEF Sending
  <2> QED
    BY <2>1, <2>2, RemindersAssumption
<1>5. \A e \in send[k].todo : a[e] = send[k].attempts[e]
  BY <1>2 DEF Sends, Sending
<1> HIDE DEF r, s, a
<1> DEFINE n == [send[k] EXCEPT !.rows = r, !.out = {}, !.sent = s, !.accepted = FALSE, !.attempts = a]
<1>6. n \in Sends
  BY <1>2, <1>3, <1>4 DEF Sends
<1>7. n.todo = send[k].todo /\ n.out = {} /\ n.attempts = a /\ n.rows = r /\ n.sent = s
  BY <1>2 DEF Sends
<1>8. send'[k] = n /\ \A x \in Senders : x # k => send'[x] = send[x]
  BY <1>1, <1>2
<1>9. send' \in [Senders -> Sends]
  BY <1>1, <1>2, <1>6
<1> HIDE DEF n
<1> QED
  BY <1>5, <1>7, <1>8, <1>9 DEF r, s

\* One delivery's next state, whichever job commits it: what was recorded stays
\* recorded, and what was settled is never queued again.
Forward(e) == /\ delivery'[e] \in Deliveries
              /\ delivery'[e].state = "queued" => delivery'[e].attempts < MaxAttempts
              /\ delivery'[e].state = "none" => delivery[e].state = "none"
              /\ delivery'[e].state = "queued" => delivery[e].state \in {"none", "queued"}

LEMMA CommitSendForward ==
  ASSUME TypeInv, NEW k \in Senders, CommitSend(k)
  PROVE  /\ \A e \in Entries : Forward(e) /\ (delivery[e].state = "none" => delivery'[e] = delivery[e])
         /\ \A e \in send[k].sent : delivery'[e].state = "sent"
         /\ \A e \in Entries \ send[k].rows : delivery'[e] = delivery[e]
<1>1. /\ send[k] \in Sends /\ Sending(k) /\ MaxAttempts \in Nat
      /\ \A e \in Entries : delivery[e] \in Deliveries
  BY TypeFields
<1>2. \A e \in Entries : delivery'[e] = IF e \in send[k].rows THEN Row(k, e) ELSE delivery[e]
  BY DEF CommitSend
<1>3. ASSUME NEW e \in Entries
      PROVE  /\ Row(k, e) \in Deliveries
             /\ Row(k, e).attempts = send[k].attempts[e]
             /\ Row(k, e).state = IF e \in send[k].sent THEN "sent"
                                  ELSE IF send[k].attempts[e] >= MaxAttempts THEN "failed"
                                  ELSE delivery[e].state
  BY <1>1 DEF Row, Deliveries, Sends, States
<1>4. \A e \in Entries : send[k].attempts[e] \in 0 .. MaxAttempts
  BY <1>1 DEF Sends
<1>5. ASSUME NEW e \in Entries, e \in send[k].rows
      PROVE  Forward(e) /\ delivery[e].state # "none"
  <2>1. delivery'[e] = Row(k, e) /\ delivery[e].state # "none"
    BY <1>1, <1>2, <1>5 DEF Sending, Told
  <2>2. delivery[e].state \in States
    BY <1>1 DEF Deliveries
  <2> QED
    BY <1>1, <1>3, <1>4, <2>1, <2>2 DEF Forward, States
<1>6. ASSUME NEW e \in Entries, e \notin send[k].rows
      PROVE  Forward(e) /\ delivery'[e] = delivery[e]
  BY <1>1, <1>2, <1>6 DEF Forward, TypeInv, Trying
<1>7. \A e \in send[k].sent : e \in Entries /\ e \in send[k].rows
  BY <1>1 DEF Sending, Sends
<1> QED
  BY <1>2, <1>3, <1>5, <1>6, <1>7

LEMMA CommitScanForward ==
  ASSUME TypeInv, NEW j \in Scanners, CommitScan(j), \A e \in scan[j].wrote : ~Told(e)
  PROVE  /\ \A e \in Entries : Forward(e)
         /\ \A e \in scan[j].wrote : delivery'[e].state = "queued"
         /\ \A e \in Entries \ scan[j].wrote : delivery'[e] = delivery[e]
<1>1. /\ scan[j] \in Scans /\ MaxAttempts \in Nat \ {0}
      /\ \A e \in Entries : delivery[e] \in Deliveries
  BY TypeFields
<1>2. \A e \in Entries : delivery'[e] = IF e \in scan[j].wrote
                                        THEN [state |-> "queued", attempts |-> 0] ELSE delivery[e]
  BY DEF CommitScan
<1>3. [state |-> "queued", attempts |-> 0] \in Deliveries
  BY <1>1 DEF Deliveries, States
<1>4. \A e \in Entries : e \in scan[j].wrote => delivery[e].state = "none"
  BY DEF Told
<1>5. ASSUME NEW e \in Entries
      PROVE  Forward(e)
  BY <1>1, <1>2, <1>3, <1>4 DEF Forward, TypeInv, Trying
<1> QED
  BY <1>1, <1>2, <1>5 DEF Scans

-----------------------------------------------------------------------------
(* Types. *)

\* What a scan inserts has no row yet, nor does another scan insert it.
Inserting == /\ \A j \in Scanners : \A e \in scan[j].wrote : ~Told(e)
             /\ \A j, x \in Scanners : j # x => scan[j].wrote \cap scan[x].wrote = {}
Safe == TypeInv /\ Inserting

\* Steps of the people and of the clock.
Outside == Tick \/ PeopleStep

LEMMA OutsideSafe ==
  ASSUME Safe, Outside
  PROVE  Safe'
<1>1. UNCHANGED <<stamped, delivery, scan, send, mails, faults>>
  BY DEF Outside, Tick, PeopleStep, HandIn, Change, Extend
<1>2. now' \in 0 .. MaxTime
  BY TypeFields DEF Outside, Tick, PeopleStep, HandIn, Change, Extend, Safe
<1>3. /\ liable' \in [Entries -> BOOLEAN] /\ handed' \in [Entries -> BOOLEAN]
      /\ until' \in [Entries -> 0 .. MaxTime]
  <2>1. ASSUME NEW e \in Entries, HandIn(e) \/ Change(e)
        PROVE  /\ liable' \in [Entries -> BOOLEAN] /\ handed' \in [Entries -> BOOLEAN]
               /\ until' = until
    BY <2>1 DEF HandIn, Change, Safe, TypeInv, TypeOK
  <2>2. ASSUME NEW e \in Entries, NEW t \in 0 .. MaxTime, Extend(e, t)
        PROVE  /\ liable' = liable /\ handed' = handed
               /\ until' \in [Entries -> 0 .. MaxTime]
    BY <2>2 DEF Extend, Safe, TypeInv, TypeOK
  <2>3. Busy \subseteq Entries
    BY RemindersAssumption DEF Entries
  <2> QED
    BY <2>1, <2>2, <2>3 DEF Outside, Tick, PeopleStep, Safe, TypeInv, TypeOK, entryVars
<1>4. seen' \in [Entries -> SUBSET {"missing", "fine"}]
  <2>1. Watched
    BY DEF Outside, Tick, PeopleStep, HandIn, Change, Extend
  <2>2. \A e \in Entries : Standing(e, now)' \in {"missing", "fine"}
    BY DEF Standing
  <2> QED
    BY <2>1, <2>2 DEF Watched, Safe, TypeInv, TypeOK
<1>5. TypeOK'
  BY <1>1, <1>2, <1>3, <1>4 DEF Safe, TypeInv, TypeOK
<1> QED
  BY <1>1, <1>5 DEF Safe, TypeInv, Trying, Sending, Told, Inserting

LEMMA ScanSafe ==
  ASSUME Safe, NEW j \in Scanners, ScanStep(j)
  PROVE  Safe'
<1>1. UNCHANGED <<now, entryVars, send, mails, faults, seen>>
  BY DEF ScanStep, StartScan, ReadWeek, Dispatch, CommitScan
<1>2. ASSUME scan' \in [Scanners -> Scans], Inserting', stamped' \subseteq Weeks,
             \A e \in Entries : Forward(e), delivery' \in [Entries -> Deliveries]
      PROVE  Safe'
  <2>1. TypeOK'
    BY <1>1, <1>2 DEF Safe, TypeInv, TypeOK, entryVars, Scans, Deliveries, States
  <2>2. \A k \in Senders : Sending(k)'
    <3>1. \A k \in Senders : send[k].todo \cup send[k].out \cup send[k].rows \subseteq Entries
      BY TypeFields DEF Safe, Sends
    <3>2. \A e \in Entries : Told(e) => Told(e)'
      BY <1>2 DEF Forward, Told
    <3> QED
      BY <1>1, <3>1, <3>2 DEF Safe, TypeInv, Sending
  <2>3. Trying'
    BY <1>2 DEF Forward, Trying
  <2> QED
    BY <1>2, <2>1, <2>2, <2>3 DEF Safe, TypeInv
<1>3. /\ scan \in [Scanners -> Scans] /\ NoScan \in Scans /\ stamped \subseteq Weeks
      /\ delivery \in [Entries -> Deliveries]
  BY RemindersAssumption DEF Safe, TypeInv, TypeOK, Scans, NoScan, Deliveries, States
<1>4. UNCHANGED delivery => \A e \in Entries : Forward(e)
  BY <1>3 DEF Forward, Safe, TypeInv, Trying
<1>5. CASE StartScan(j)
  <2> DEFINE due == {w \in Weeks : Due[w] <= now /\ w \notin stamped}
             n == [NoScan EXCEPT !.at = now, !.todo = due]
  <2>1. n \in Scans /\ n.wrote = {}
    BY TypeFields DEF Scans, NoScan, Safe
  <2>2. scan' = [scan EXCEPT ![j] = n]
    BY <1>5 DEF StartScan
  <2> HIDE DEF n
  <2>3. scan' \in [Scanners -> Scans] /\ Inserting'
    BY <1>3, <1>5, <2>1, <2>2 DEF Inserting, Safe, StartScan, Told
  <2> QED
    BY <1>2, <1>3, <1>4, <1>5, <2>3 DEF StartScan
<1>6. ASSUME NEW w \in Weeks, ReadWeek(j, w)
      PROVE  Safe'
  <2>1. /\ scan' \in [Scanners -> Scans] /\ UNCHANGED <<delivery, stamped>>
        /\ scan'[j].wrote = scan[j].wrote /\ \A x \in Scanners : x # j => scan'[x] = scan[x]
    BY <1>6, ReadWeekFields DEF Safe, ReadWeek
  <2>2. \A x \in Scanners : scan'[x].wrote = scan[x].wrote
    BY <2>1
  <2>3. Inserting'
    BY <2>1, <2>2 DEF Inserting, Safe, Told
  <2> QED
    BY <1>2, <1>3, <1>4, <2>1, <2>3
<1>7. CASE Dispatch(j)
  <2>1. /\ scan' \in [Scanners -> Scans] /\ UNCHANGED <<delivery, stamped>>
        /\ scan'[j].wrote = scan[j].wrote \cup {e \in scan[j].missing : delivery[e].state = "none"}
        /\ \A x \in Scanners : x # j => scan'[x] = scan[x]
    BY <1>7, DispatchFields DEF Safe, Dispatch
  <2>2. \A x \in Scanners : x # j => scan[j].missing \cap scan[x].wrote = {}
    BY <1>7 DEF Dispatch, ScanWaitsFor
  <2>3. \A x \in Scanners : \A e \in scan'[x].wrote : ~Told(e)'
    BY <2>1 DEF Safe, Inserting, Told
  <2>4. \A x, y \in Scanners : x # y => scan'[x].wrote \cap scan'[y].wrote = {}
    BY <2>1, <2>2 DEF Safe, Inserting
  <2> QED
    BY <1>2, <1>3, <1>4, <2>1, <2>3, <2>4 DEF Inserting
<1>8. CASE CommitScan(j)
  <2>1. /\ \A e \in Entries : Forward(e)
        /\ \A e \in Entries \ scan[j].wrote : delivery'[e] = delivery[e]
    BY <1>8, CommitScanForward DEF Safe, Inserting
  <2>2. scan' = [scan EXCEPT ![j] = NoScan] /\ NoScan.wrote = {}
    BY <1>8 DEF CommitScan, NoScan
  <2>3. \A x \in Scanners : \A e \in scan'[x].wrote : x # j /\ e \in Entries /\ e \in scan[x].wrote
    BY <1>3, <2>2 DEF Scans
  <2>4. \A x \in Scanners : \A e \in scan'[x].wrote : ~Told(e)'
    BY <2>1, <2>3 DEF Safe, Inserting, Told
  <2>5. \A x, y \in Scanners : x # y => scan'[x].wrote \cap scan'[y].wrote = {}
    BY <2>3 DEF Safe, Inserting
  <2>6. stamped' \subseteq Weeks
    BY <1>3, <1>8 DEF CommitScan, Scans
  <2>7. delivery' \in [Entries -> Deliveries]
    <3>1. DOMAIN delivery' = Entries /\ delivery' = [e \in Entries |-> delivery'[e]]
      BY <1>8 DEF CommitScan
    <3> QED
      BY <2>1, <3>1 DEF Forward
  <2> QED
    BY <1>2, <1>3, <2>1, <2>2, <2>4, <2>5, <2>6, <2>7 DEF Inserting
<1> QED
  BY <1>5, <1>6, <1>7, <1>8 DEF ScanStep

LEMMA SendSafe ==
  ASSUME Safe, NEW k \in Senders, SendStep(k)
  PROVE  Safe'
<1>1. UNCHANGED <<now, entryVars, stamped, scan, seen>>
  BY DEF SendStep, TakeQueued, Mail, Flush, CommitSend
<1>2. ASSUME send' \in [Senders -> Sends], Sending(k)', \A x \in Senders : x # k => send'[x] = send[x],
             delivery' \in [Entries -> Deliveries],
             \A e \in Entries : Forward(e) /\ (delivery[e].state = "none" => delivery'[e] = delivery[e]),
             mails' \in [Senders -> [Entries -> Nat]], faults' \in [Jobs -> Nat]
      PROVE  Safe'
  <2>1. TypeOK'
    BY <1>1, <1>2 DEF Safe, TypeInv, TypeOK, entryVars, Sends, Deliveries, States
  <2>2. \A x \in Senders : Sending(x)'
    <3>1. \A x \in Senders : send[x].todo \cup send[x].out \cup send[x].rows \subseteq Entries
      BY TypeFields DEF Safe, Sends
    <3>2. \A e \in Entries : Told(e) => Told(e)'
      BY <1>2 DEF Forward, Told
    <3>3. ASSUME NEW x \in Senders, x # k
          PROVE  Sending(x)'
      BY <1>2, <3>1, <3>2, <3>3 DEF Safe, TypeInv, Sending
    <3> QED
      BY <1>2, <3>3
  <2>3. Trying'
    BY <1>2 DEF Forward, Trying
  <2>4. \A j \in Scanners : scan[j].wrote \subseteq Entries
    BY TypeFields DEF Safe, Scans
  <2>5. Inserting'
    BY <1>1, <1>2, <2>4 DEF Safe, Inserting, Told
  <2> QED
    BY <2>1, <2>2, <2>3, <2>5 DEF Safe, TypeInv
<1>3. /\ delivery \in [Entries -> Deliveries] /\ mails \in [Senders -> [Entries -> Nat]]
      /\ faults \in [Jobs -> Nat]
  BY DEF Safe, TypeInv, TypeOK, Deliveries, States
<1>4. ASSUME UNCHANGED delivery
      PROVE  /\ delivery' \in [Entries -> Deliveries]
             /\ \A e \in Entries :
                   Forward(e) /\ (delivery[e].state = "none" => delivery'[e] = delivery[e])
  BY <1>3, <1>4 DEF Safe, TypeInv, Forward, Trying
<1>5. CASE TakeQueued(k)
  <2>1. /\ send' \in [Senders -> Sends] /\ UNCHANGED <<delivery, mails, faults>>
        /\ \A x \in Senders : x # k => send'[x] = send[x]
    BY <1>5, TakeFields DEF Safe, TakeQueued
  <2>2. Sending(k)'
    <3>1. /\ send'[k].todo = {e \in Entries : delivery[e].state = "queued"}
          /\ \A e \in send'[k].todo : send'[k].attempts[e] = delivery[e].attempts
          /\ send'[k].out = {} /\ send'[k].rows = {} /\ send'[k].sent = {}
      BY <1>5, TakeFields DEF Safe
    <3> QED
      BY <2>1, <3>1 DEF Sending, Safe, TypeInv, Trying, Told
  <2> QED
    BY <1>2, <1>3, <1>4, <2>1, <2>2
<1>6. ASSUME NEW e \in Entries, NEW taken \in BOOLEAN, NEW accepted \in BOOLEAN,
             Mail(k, e, taken, accepted)
      PROVE  Safe'
  <2>1. /\ send' \in [Senders -> Sends] /\ UNCHANGED delivery
        /\ \A x \in Senders : x # k => send'[x] = send[x]
    BY <1>6, MailFields DEF Safe, Mail
  <2>2. Sending(k)'
    <3>1. /\ send'[k].todo = send[k].todo \ {e} /\ send'[k].out = {e}
          /\ send'[k].attempts = send[k].attempts
          /\ send'[k].rows = send[k].rows /\ send'[k].sent = send[k].sent
          /\ e \in send[k].todo
      BY <1>6, MailFields DEF Safe, Mail
    <3>2. Sending(k)
      BY DEF Safe, TypeInv
    <3> QED
      BY <2>1, <3>1, <3>2 DEF Sending, Told
  <2>3. mails' \in [Senders -> [Entries -> Nat]] /\ faults' \in [Jobs -> Nat]
    <3>1. mails' = [mails EXCEPT ![k] = [mails[k] EXCEPT ![e] = mails[k][e] + IF taken THEN 1 ELSE 0]]
      BY <1>6 DEF Mail
    <3>2. mails[k] \in [Entries -> Nat] /\ mails[k][e] \in Nat
      BY <1>3
    <3>3. [mails[k] EXCEPT ![e] = mails[k][e] + IF taken THEN 1 ELSE 0] \in [Entries -> Nat]
      BY <3>2
    <3>4. faults' = [faults EXCEPT ![k] = faults[k] + IF taken /\ ~accepted THEN 1 ELSE 0]
      BY <1>6 DEF Mail
    <3>5. k \in Jobs
      BY DEF Jobs
    <3> QED
      BY <1>3, <3>1, <3>3, <3>4, <3>5
  <2> QED
    BY <1>2, <1>4, <2>1, <2>2, <2>3
<1>7. CASE Flush(k)
  <2>1. /\ send' \in [Senders -> Sends] /\ UNCHANGED <<delivery, mails, faults>>
        /\ \A x \in Senders : x # k => send'[x] = send[x]
    BY <1>7, FlushFields DEF Safe, Flush
  <2>2. Sending(k)'
    <3>1. /\ send'[k].todo = send[k].todo /\ send'[k].out = {}
          /\ \A e \in send[k].todo : send'[k].attempts[e] = send[k].attempts[e]
          /\ send'[k].rows = send[k].rows \cup send[k].out
          /\ send'[k].sent \subseteq send[k].sent \cup send[k].out
      BY <1>7, FlushFields DEF Safe
    <3>2. Sending(k)
      BY DEF Safe, TypeInv
    <3> QED
      BY <2>1, <3>1, <3>2 DEF Sending, Told
  <2> QED
    BY <1>2, <1>3, <1>4, <2>1, <2>2
<1>8. CASE CommitSend(k)
  <2>1. \A e \in Entries : Forward(e) /\ (delivery[e].state = "none" => delivery'[e] = delivery[e])
    BY <1>8, CommitSendForward DEF Safe
  <2>2. delivery' \in [Entries -> Deliveries]
    <3>1. delivery' = [e \in Entries |-> delivery'[e]]
      BY <1>8 DEF CommitSend
    <3> QED
      BY <2>1, <3>1 DEF Forward
  <2>3. NoSend \in Sends /\ send \in [Senders -> Sends] /\ send' = [send EXCEPT ![k] = NoSend]
    BY <1>8, RemindersAssumption DEF CommitSend, Safe, TypeInv, TypeOK, Sends, NoSend
  <2>4. Sending(k)'
    BY <2>3 DEF Sending, NoSend
  <2>5. UNCHANGED <<mails, faults>>
    BY <1>8 DEF CommitSend
  <2> QED
    BY <1>2, <1>3, <2>1, <2>2, <2>3, <2>4, <2>5
<1> QED
  BY <1>5, <1>6, <1>7, <1>8 DEF SendStep

LEMMA FailSafe ==
  ASSUME Safe, NEW j \in Jobs, Fail(j)
  PROVE  Safe'
<1>1. NoScan \in Scans /\ NoSend \in Sends
  BY RemindersAssumption DEF Scans, NoScan, Sends, NoSend
<1>2. /\ scan' = [x \in Scanners |-> IF x = j THEN NoScan ELSE scan[x]]
      /\ send' = [x \in Senders |-> IF x = j THEN NoSend ELSE send[x]]
      /\ faults' = [faults EXCEPT ![j] = faults[j] + 1]
      /\ UNCHANGED <<now, entryVars, stamped, delivery, mails, seen>>
  BY DEF Fail, Rollback
<1>3. scan' \in [Scanners -> Scans] /\ send' \in [Senders -> Sends] /\ faults' \in [Jobs -> Nat]
  BY <1>1, <1>2 DEF Safe, TypeInv, TypeOK, Scans, Sends
<1>4. TypeOK'
  BY <1>2, <1>3 DEF Safe, TypeInv, TypeOK, entryVars, Scans, Sends
<1>5. Trying' /\ \A k \in Senders : Sending(k)'
  BY <1>2 DEF Safe, TypeInv, Trying, Sending, Told, NoSend
<1>6. \A x \in Scanners : scan'[x].wrote \subseteq scan[x].wrote
  BY <1>2 DEF NoScan
<1>7. Inserting'
  BY <1>2, <1>6 DEF Safe, Inserting, Told
<1> QED
  BY <1>4, <1>5, <1>7 DEF Safe, TypeInv

LEMMA InitSafe ==
  ASSUME Init
  PROVE  Safe
<1>1. NoScan \in Scans /\ NoSend \in Sends
  BY RemindersAssumption DEF Scans, NoScan, Sends, NoSend
<1>2. seen \in [Entries -> SUBSET {"missing", "fine"}]
  BY DEF Init, Standing
<1>3. /\ scan \in [Scanners -> Scans] /\ send \in [Senders -> Sends]
      /\ delivery \in [Entries -> Deliveries]
  BY <1>1, RemindersAssumption DEF Init, Deliveries, States
<1>4. TypeOK
  <2>1. /\ now \in 0 .. MaxTime /\ stamped \subseteq Weeks
        /\ liable \in [Entries -> BOOLEAN] /\ handed \in [Entries -> BOOLEAN]
        /\ until \in [Entries -> 0 .. MaxTime]
    BY RemindersAssumption DEF Init
  <2>2. mails \in [Senders -> [Entries -> Nat]] /\ faults \in [Jobs -> Nat]
    BY DEF Init
  <2> QED
    BY <1>2, <1>3, <2>1, <2>2 DEF TypeOK, Scans, Sends, Deliveries, States
<1>5. \A e \in Entries : delivery[e].state = "none"
  BY DEF Init
<1>6. Trying /\ \A k \in Senders : Sending(k)
  BY <1>5 DEF Init, Trying, Sending, NoSend
<1>7. Inserting
  BY DEF Init, Inserting, NoScan
<1> QED
  BY <1>4, <1>6, <1>7 DEF Safe, TypeInv

LEMMA NextSafe ==
  ASSUME Safe, [Next]_vars
  PROVE  Safe'
<1>1. CASE UNCHANGED vars
  BY <1>1 DEF vars, entryVars, Safe, TypeInv, TypeOK, Trying, Sending, Told, Inserting
<1> QED
  BY <1>1, OutsideSafe, ScanSafe, SendSafe, FailSafe DEF Next, Outside

\* Every row and every transaction has its type, and no delivery is attempted
\* more often than its bound (notifications/models.py, MAX_EMAIL_ATTEMPTS).
THEOREM TypeCorrect == Spec => []TypeOK
<1>1. Safe => TypeOK
  BY DEF Safe, TypeInv
<1> QED
  BY <1>1, InitSafe, NextSafe, PTL DEF Spec

-----------------------------------------------------------------------------
(* The mails of one sender. *)

\* The sender has not had this mail accepted, or will not know of it.
Unsent(k, e) ==
    \/ e \in send[k].todo \/ (e \in send[k].out /\ ~send[k].accepted)
    \/ e \in send[k].rows \ send[k].sent
    \/ /\ e \notin send[k].todo \cup send[k].out \cup send[k].rows
       /\ delivery[e].state \in {"none", "queued"}
Counted == \A k \in Senders, e \in Entries :
              mails[k][e] <= 1 + faults[k] /\ (Unsent(k, e) => mails[k][e] <= faults[k])

LEMMA CountedFrame ==
  ASSUME Safe, Counted, NEW k \in Senders, NEW e \in Entries, UNCHANGED mails,
         faults'[k] \in Nat, faults[k] <= faults'[k], Unsent(k, e)' => Unsent(k, e)
  PROVE  /\ mails'[k][e] <= 1 + faults'[k]
         /\ Unsent(k, e)' => mails'[k][e] <= faults'[k]
<1>1. mails[k][e] \in Nat /\ faults[k] \in Nat
  BY DEF Safe, TypeInv, TypeOK, Jobs
<1>2. mails[k][e] <= 1 + faults[k] /\ (Unsent(k, e) => mails[k][e] <= faults[k])
  BY DEF Counted
<1> QED
  BY <1>1, <1>2

LEMMA MailCounted ==
  ASSUME Safe, Counted, NEW k \in Senders, NEW e \in Entries, NEW taken \in BOOLEAN,
         NEW accepted \in BOOLEAN, Mail(k, e, taken, accepted)
  PROVE  Counted'
<1>1. /\ send'[k].todo = send[k].todo \ {e} /\ send'[k].out = {e}
      /\ send'[k].accepted = accepted
      /\ send'[k].rows = send[k].rows /\ send'[k].sent = send[k].sent
      /\ \A x \in Senders : x # k => send'[x] = send[x]
      /\ e \in send[k].todo /\ send[k].out = {} /\ e \notin send[k].rows /\ UNCHANGED delivery
      /\ accepted => taken
  BY MailFields, TypeFields DEF Safe, Mail, Sending
<1>2. mails \in [Senders -> [Entries -> Nat]] /\ faults \in [Jobs -> Nat] /\ Senders \subseteq Jobs
  BY DEF Safe, TypeInv, TypeOK, Jobs
<1>3. /\ faults'[k] = faults[k] + IF taken /\ ~accepted THEN 1 ELSE 0
      /\ \A x \in Senders : x # k => faults'[x] = faults[x]
  BY <1>2 DEF Mail
<1>4. /\ mails'[k][e] = mails[k][e] + IF taken THEN 1 ELSE 0
      /\ \A x \in Senders, d \in Entries : <<x, d>> # <<k, e>> => mails'[x][d] = mails[x][d]
  <2>1. mails' = [mails EXCEPT ![k] = [mails[k] EXCEPT ![e] = mails[k][e] + IF taken THEN 1 ELSE 0]]
    BY DEF Mail
  <2> QED
    BY <1>2, <2>1
<1>5. mails'[k][e] <= 1 + faults'[k] /\ (Unsent(k, e)' => mails'[k][e] <= faults'[k])
  <2>1. mails[k][e] <= faults[k] /\ mails[k][e] \in Nat /\ faults[k] \in Nat
    BY <1>1, <1>2 DEF Counted, Unsent
  <2>2. Unsent(k, e)' => ~accepted
    BY <1>1 DEF Unsent
  <2> QED
    BY <1>1, <1>3, <1>4, <2>1, <2>2
<1>6. ASSUME NEW x \in Senders, NEW d \in Entries, <<x, d>> # <<k, e>>
      PROVE  mails'[x][d] <= 1 + faults'[x] /\ (Unsent(x, d)' => mails'[x][d] <= faults'[x])
  <2>1. mails'[x][d] = mails[x][d] /\ mails[x][d] \in Nat /\ faults[x] \in Nat
    BY <1>2, <1>4, <1>6
  <2>2. faults[x] <= faults'[x] /\ faults'[x] \in Nat
    BY <1>3, <2>1
  <2>3. Unsent(x, d)' => Unsent(x, d)
    BY <1>1, <1>6 DEF Unsent
  <2>4. mails[x][d] <= 1 + faults[x] /\ (Unsent(x, d) => mails[x][d] <= faults[x])
    BY DEF Counted
  <2> QED
    BY <2>1, <2>2, <2>3, <2>4
<1> QED
  BY <1>5, <1>6 DEF Counted

LEMMA NextCounted ==
  ASSUME Safe, Counted, [Next]_vars
  PROVE  Counted'
<1>1. \A k \in Senders : faults[k] \in Nat /\ k \in Jobs
  BY DEF Safe, TypeInv, TypeOK, Jobs
<1>2. ASSUME UNCHANGED <<mails, faults, send>>, \A e \in Entries : Forward(e)
      PROVE  Counted'
  <2>1. \A k \in Senders, e \in Entries : Unsent(k, e)' => Unsent(k, e)
    BY <1>2 DEF Unsent, Forward
  <2> QED
    BY <1>1, <1>2, <2>1, CountedFrame DEF Counted
<1>3. UNCHANGED delivery => \A e \in Entries : Forward(e)
  BY TypeFields DEF Forward, Safe, TypeInv, Trying
<1>4. CASE Outside \/ UNCHANGED vars
  BY <1>2, <1>3, <1>4 DEF Outside, Tick, PeopleStep, HandIn, Change, Extend, vars
<1>5. ASSUME NEW j \in Scanners, ScanStep(j)
      PROVE  Counted'
  BY <1>2, <1>3, <1>5, CommitScanForward
  DEF ScanStep, StartScan, ReadWeek, Dispatch, CommitScan, Safe, Inserting
<1>6. ASSUME NEW k \in Senders, TakeQueued(k)
      PROVE  Counted'
  <2>1. /\ send'[k].todo = {e \in Entries : delivery[e].state = "queued"}
        /\ send'[k].out = {} /\ send'[k].rows = {} /\ send'[k].sent = {}
        /\ \A x \in Senders : x # k => send'[x] = send[x]
    BY <1>6, TakeFields DEF Safe
  <2>2. send[k].todo = {} /\ send[k].out = {} /\ send[k].rows = {} /\ UNCHANGED <<delivery, mails, faults>>
    BY <1>6 DEF TakeQueued, NoSend
  <2>3. \A x \in Senders, e \in Entries : Unsent(x, e)' => Unsent(x, e)
    BY <2>1, <2>2 DEF Unsent
  <2> QED
    BY <1>1, <2>2, <2>3, CountedFrame DEF Counted
<1>7. ASSUME NEW k \in Senders, Flush(k)
      PROVE  Counted'
  <2>1. /\ send'[k].todo = send[k].todo /\ send'[k].out = {}
        /\ send'[k].rows = send[k].rows \cup send[k].out
        /\ send'[k].sent = send[k].sent \cup (IF send[k].accepted THEN send[k].out ELSE {})
        /\ \A x \in Senders : x # k => send'[x] = send[x]
    BY <1>7, FlushFields DEF Safe
  <2>2. UNCHANGED <<delivery, mails, faults>>
    BY <1>7 DEF Flush
  <2>3. \A x \in Senders, e \in Entries : Unsent(x, e)' => Unsent(x, e)
    BY <2>1, <2>2 DEF Unsent
  <2> QED
    BY <1>1, <2>2, <2>3, CountedFrame DEF Counted
<1>8. ASSUME NEW k \in Senders, CommitSend(k)
      PROVE  Counted'
  <2>1. /\ \A e \in Entries : Forward(e)
        /\ \A e \in send[k].sent : delivery'[e].state = "sent"
    BY <1>8, CommitSendForward DEF Safe
  <2>2. send \in [Senders -> Sends] /\ send' = [send EXCEPT ![k] = NoSend]
        /\ UNCHANGED <<mails, faults>> /\ send[k].todo = {} /\ send[k].out = {}
    BY <1>8 DEF CommitSend, Safe, TypeInv, TypeOK, Sends
  <2>3. send'[k] = NoSend /\ \A x \in Senders : x # k => send'[x] = send[x]
    BY <2>2
  <2>4. \A x \in Senders, e \in Entries : Unsent(x, e)' => Unsent(x, e)
    BY <2>1, <2>2, <2>3 DEF Unsent, NoSend, Forward
  <2> QED
    BY <1>1, <2>2, <2>4, CountedFrame DEF Counted
<1>9. ASSUME NEW j \in Jobs, Fail(j)
      PROVE  Counted'
  <2>1. /\ send' = [x \in Senders |-> IF x = j THEN NoSend ELSE send[x]]
        /\ faults' = [faults EXCEPT ![j] = faults[j] + 1]
        /\ UNCHANGED <<delivery, mails>>
    BY <1>9 DEF Fail, Rollback
  <2>2. faults \in [Jobs -> Nat] /\ mails \in [Senders -> [Entries -> Nat]]
    BY DEF Safe, TypeInv, TypeOK
  <2>3. ASSUME NEW x \in Senders, NEW e \in Entries, x = j
        PROVE  mails'[x][e] <= faults'[x]
    <3>1. faults'[x] = faults[x] + 1 /\ mails'[x][e] = mails[x][e]
      BY <2>1, <2>2, <2>3
    <3>2. mails[x][e] <= 1 + faults[x]
      BY DEF Counted
    <3>3. mails[x][e] \in Nat /\ faults[x] \in Nat
      BY <1>1, <2>2
    <3> QED
      BY <3>1, <3>2, <3>3
  <2>4. ASSUME NEW x \in Senders, NEW e \in Entries, x # j
        PROVE  mails'[x][e] <= 1 + faults'[x] /\ (Unsent(x, e)' => mails'[x][e] <= faults'[x])
    <3>1. faults'[x] = faults[x]
      BY <1>1, <2>1, <2>2, <2>4
    <3>2. Unsent(x, e)' => Unsent(x, e)
      BY <2>1, <2>4 DEF Unsent
    <3>3. mails[x][e] <= 1 + faults[x] /\ (Unsent(x, e) => mails[x][e] <= faults[x])
      BY DEF Counted
    <3> QED
      BY <2>1, <3>1, <3>2, <3>3
  <2>5. \A x \in Senders, e \in Entries : mails'[x][e] \in Nat /\ faults'[x] \in Nat
    BY <1>1, <2>1, <2>2
  <2>6. \A x \in Senders, e \in Entries : x = j => mails'[x][e] <= 1 + faults'[x]
    BY <2>3, <2>5
  <2> QED
    BY <2>3, <2>4, <2>6 DEF Counted
<1> QED
  BY <1>4, <1>5, <1>6, <1>7, <1>8, <1>9, MailCounted DEF Next, SendStep, Outside

\* A sender mails a student once for a week, and once more at the most for every
\* crash, lost reply or deadlock of its own, whatever the other senders and the
\* scans do meanwhile (notifications/service.py: send_queued_emails).
THEOREM NoSecondMail == Spec => []OneMailEach
<1>1. Init => Counted
  <2> SUFFICES ASSUME Init, NEW k \in Senders, NEW e \in Entries
               PROVE  mails[k][e] <= 1 + faults[k] /\ mails[k][e] <= faults[k]
    BY DEF Counted
  <2>1. mails[k][e] = 0 /\ faults[k] = 0
    BY DEF Init, Jobs
  <2> QED
    BY <2>1
<1>2. Counted => OneMailEach
  BY DEF Counted, OneMailEach
<1>3. Spec => []Counted
  BY <1>1, InitSafe, NextSafe, NextCounted, PTL DEF Spec
<1> QED
  BY <1>2, <1>3, PTL

-----------------------------------------------------------------------------
(* Who is told. *)

\* The record of what an entry has been since its reminder was due.
Watching == \A e \in Entries :
    /\ Due[e[2]] > now => seen[e] = {}
    /\ Due[e[2]] <= now => Standing(e, now) \in seen[e]
    /\ seen[e] = {"missing"} => until[e] <= Due[e[2]]

\* What a scan has read and written is true of the whole time since the deadline.
Scanned(j) ==
    /\ scan[j].at <= now
    /\ \A w \in scan[j].todo \cup scan[j].week : Due[w] <= scan[j].at
    /\ \A w \in scan[j].marks : Due[w] <= now
    /\ \A e \in scan[j].missing \cup scan[j].wrote : "missing" \in seen[e]
    /\ \A e \in Entries : seen[e] = {"missing"} /\ e[2] \in scan[j].week => e \in scan[j].missing
    /\ \A e \in Entries : seen[e] = {"missing"} /\ e[2] \in scan[j].marks
                             => e \in scan[j].wrote \/ Told(e)
Begun == \A w \in stamped : Due[w] <= now
Honest == Watching /\ Begun /\ NoFalseAlarm /\ EveryMissingIsTold /\ \A j \in Scanners : Scanned(j)

LEMMA OutsideTrue ==
  ASSUME Safe, Honest, Outside
  PROVE  Honest'
<1>1. UNCHANGED <<stamped, delivery, scan>> /\ Watched
  BY DEF Outside, Tick, PeopleStep, HandIn, Change, Extend
<1>2. now \in Nat /\ now' \in Nat /\ now <= now' /\ now' <= now + 1
  BY TypeFields DEF Outside, Tick, PeopleStep, HandIn, Change, Extend, Safe
<1>3. ASSUME NEW e \in Entries
      PROVE  /\ Due[e[2]] \in Nat /\ until[e] \in Nat
             /\ seen'[e] = seen[e] \cup IF Due[e[2]] > now' THEN {} ELSE {Standing(e, now)'}
             /\ Due[e[2]] > now => seen[e] = {}
             /\ Due[e[2]] <= now => Standing(e, now) \in seen[e]
             /\ seen[e] = {"missing"} => until[e] <= Due[e[2]]
  <2>1. /\ Due[e[2]] \in Nat /\ until[e] \in Nat
    BY TypeFields DEF Safe
  <2>2. seen'[e] = seen[e] \cup IF Due[e[2]] > now' THEN {} ELSE {Standing(e, now)'}
    BY <1>1 DEF Watched
  <2> QED
    BY <2>1, <2>2 DEF Honest, Watching
<1>4. ASSUME NEW e \in Entries, Due[e[2]] <= now, seen'[e] = {"missing"}
      PROVE  seen[e] = {"missing"}
  BY <1>3, <1>4
<1>5. ASSUME NEW e \in Entries, seen'[e] = {"missing"}
      PROVE  until'[e] <= Due[e[2]]
  <2>1. Due[e[2]] <= now' /\ Standing(e, now)' = "missing"
    BY <1>2, <1>3, <1>5
  <2>2. until'[e] <= now'
    BY <2>1 DEF Standing, Missing
  <2>3. CASE Due[e[2]] <= now
    <3>1. until[e] <= Due[e[2]]
      BY <1>3, <1>4, <1>5, <2>3
    <3>2. until'[e] = until[e] \/ until'[e] > now'
      <4>1. ASSUME NEW d \in Busy, NEW t \in 0 .. MaxTime, Extend(d, t)
            PROVE  now' = now /\ (until'[e] = until[e] \/ until'[e] > now)
        <5>1. DOMAIN until = Entries
          BY DEF Safe, TypeInv, TypeOK
        <5>2. until' = [until EXCEPT ![d] = t] /\ t > now /\ now' = now
          BY <4>1 DEF Extend
        <5> QED
          BY <5>1, <5>2
      <4> QED
        BY <4>1 DEF Outside, Tick, PeopleStep, HandIn, Change, entryVars
    <3>3. until'[e] \in Nat
      BY OutsideSafe, RemindersAssumption DEF Safe, TypeInv, TypeOK
    <3> QED
      BY <1>2, <2>2, <3>1, <3>2, <3>3
  <2>4. CASE Due[e[2]] > now
    BY <1>2, <1>3, <2>1, <2>2, <2>4
  <2> QED
    BY <1>2, <1>3, <2>3, <2>4
<1>6. Watching'
  <2>1. ASSUME NEW e \in Entries
        PROVE  /\ Due[e[2]] > now' => seen'[e] = {}
               /\ Due[e[2]] <= now' => Standing(e, now)' \in seen'[e]
    BY <1>2, <1>3
  <2> QED
    BY <1>5, <2>1 DEF Watching
<1>7. Begun'
  <2>1. \A w \in stamped : Due[w] \in Nat
    BY RemindersAssumption DEF Safe, TypeInv, TypeOK
  <2> QED
    BY <1>1, <1>2, <2>1 DEF Honest, Begun
<1>8. NoFalseAlarm' /\ EveryMissingIsTold'
  <2>1. \A e \in Entries : seen[e] \subseteq seen'[e]
    BY <1>3
  <2>2. \A e \in Entries : e[2] \in stamped => Due[e[2]] <= now
    BY DEF Honest, Begun
  <2> QED
    BY <1>1, <1>4, <2>1, <2>2 DEF Honest, NoFalseAlarm, EveryMissingIsTold, Told
<1>9. ASSUME NEW j \in Scanners
      PROVE  Scanned(j)'
  <2>1. Scanned(j) /\ scan[j] \in Scans /\ scan'[j] = scan[j]
    BY <1>1, TypeFields DEF Honest, Safe
  <2>2. scan[j].at <= now' /\ \A w \in scan[j].marks : Due[w] <= now'
    <3>1. scan[j].at \in Int /\ \A w \in scan[j].marks : Due[w] \in Nat
      BY <2>1, RemindersAssumption DEF Scans
    <3> QED
      BY <1>2, <2>1, <3>1 DEF Scanned
  <2>3. \A e \in scan[j].missing \cup scan[j].wrote : "missing" \in seen'[e]
    BY <1>3, <2>1 DEF Scanned, Scans
  <2>4. \A e \in Entries : e[2] \in scan[j].week \cup scan[j].marks => Due[e[2]] <= now
    <3>1. scan[j].at \in Int /\ \A w \in scan[j].week : Due[w] \in Nat
      BY <2>1, RemindersAssumption DEF Scans
    <3> QED
      BY <1>2, <2>1, <3>1 DEF Scanned
  <2> QED
    BY <1>1, <1>4, <2>1, <2>2, <2>3, <2>4 DEF Scanned, Told
<1> QED
  BY <1>6, <1>7, <1>8, <1>9 DEF Honest

\* Steps that leave the people and the clock alone, and change deliveries forwards.
LEMMA InsideTrue ==
  ASSUME Safe, Honest, UNCHANGED <<now, entryVars, seen>>, \A e \in Entries : Told(e) => Told(e)'
  PROVE  /\ Watching'
         /\ UNCHANGED stamped => Begun'
         /\ \A j \in Scanners : scan'[j] = scan[j] => Scanned(j)'
<1>1. Watching'
  BY DEF Honest, Watching, Standing, Missing, entryVars
<1>2. UNCHANGED stamped => Begun'
  BY DEF Honest, Begun
<1>3. ASSUME NEW j \in Scanners, scan'[j] = scan[j]
      PROVE  Scanned(j)'
  <2>1. Scanned(j)
    BY DEF Honest
  <2> QED
    BY <1>3, <2>1 DEF Scanned
<1> QED
  BY <1>1, <1>2, <1>3

LEMMA ScanTrue ==
  ASSUME Safe, Honest, NEW j \in Scanners, ScanStep(j)
  PROVE  Honest'
<1>1. UNCHANGED <<now, entryVars, seen>>
  BY DEF ScanStep, StartScan, ReadWeek, Dispatch, CommitScan
<1>2. \A e \in Entries : Told(e) => Told(e)'
  BY CommitScanForward
  DEF ScanStep, StartScan, ReadWeek, Dispatch, CommitScan, Forward, Told, Safe, Inserting
<1>3. Scanned(j) /\ scan[j] \in Scans /\ now \in Nat /\ \A w \in Weeks : Due[w] \in Nat
  BY TypeFields DEF Honest, Safe
<1>4. ASSUME UNCHANGED <<stamped, delivery>>, Scanned(j)', \A x \in Scanners : x # j => scan'[x] = scan[x]
      PROVE  Honest'
  <2>1. NoFalseAlarm' /\ EveryMissingIsTold'
    BY <1>1, <1>4 DEF Honest, NoFalseAlarm, EveryMissingIsTold, Told
  <2> QED
    BY <1>1, <1>2, <1>4, <2>1, InsideTrue DEF Honest
<1>5. CASE StartScan(j)
  <2> DEFINE due == {w \in Weeks : Due[w] <= now /\ w \notin stamped}
             n == [NoScan EXCEPT !.at = now, !.todo = due]
  <2>1. /\ n.at = now /\ n.todo = due /\ n.week = {} /\ n.missing = {} /\ n.wrote = {}
        /\ n.marks = {}
    BY DEF NoScan
  <2>2. scan \in [Scanners -> Scans]
    BY DEF Safe, TypeInv, TypeOK, Scans
  <2>3. scan' = [scan EXCEPT ![j] = n] /\ UNCHANGED <<stamped, delivery>>
    BY <1>5 DEF StartScan
  <2>4. \A w \in due : Due[w] <= now
    OBVIOUS
  <2> HIDE DEF n, due
  <2>5. scan'[j] = n /\ \A x \in Scanners : x # j => scan'[x] = scan[x]
    BY <2>2, <2>3
  <2>6. Scanned(j)'
    BY <1>1, <1>3, <2>1, <2>4, <2>5 DEF Scanned
  <2> QED
    BY <1>4, <2>3, <2>5, <2>6
<1>6. ASSUME NEW w \in Weeks, ReadWeek(j, w)
      PROVE  Honest'
  <2>1. /\ scan'[j].at = scan[j].at /\ scan'[j].todo = scan[j].todo \ {w} /\ scan'[j].week = {w}
        /\ scan'[j].missing = {e \in Of(w) : Missing(e, scan[j].at)}
        /\ scan'[j].wrote = scan[j].wrote /\ scan'[j].marks = scan[j].marks
        /\ \A x \in Scanners : x # j => scan'[x] = scan[x]
    BY <1>6, ReadWeekFields DEF Safe
  <2>2. UNCHANGED <<stamped, delivery>> /\ Due[w] <= scan[j].at /\ scan[j].at <= now
        /\ scan[j].at \in Nat /\ Due[w] \in Nat
    BY <1>3, <1>6, RemindersAssumption DEF ReadWeek, Scanned, Scans
  <2>3. ASSUME NEW e \in Of(w)
        PROVE  /\ Standing(e, now) \in seen[e] /\ until[e] \in Nat
               /\ seen[e] = {"missing"} => until[e] <= Due[w]
    <3>1. e \in Entries /\ e[2] = w
      BY DEF Of
    <3> QED
      BY <1>3, <2>2, <3>1, TypeFields DEF Honest, Watching, Safe
  <2>4. \A e \in scan'[j].missing : "missing" \in seen[e]
    BY <1>3, <2>1, <2>2, <2>3 DEF Standing, Missing
  <2>5. ASSUME NEW e \in Entries, seen[e] = {"missing"}, e[2] = w
        PROVE  e \in scan'[j].missing
    <3>1. e \in Of(w)
      BY <2>5 DEF Of
    <3>2. Missing(e, now)
      BY <2>3, <2>5, <3>1 DEF Standing
    <3>3. Missing(e, scan[j].at)
      BY <2>2, <2>3, <2>5, <3>1, <3>2 DEF Missing
    <3> QED
      BY <2>1, <3>1, <3>3
  <2>6. \A e \in Entries : Told(e)' <=> Told(e)
    BY <2>2 DEF Told
  <2>7. Scanned(j)'
    BY <1>1, <1>3, <2>1, <2>2, <2>4, <2>5, <2>6 DEF Scanned
  <2> QED
    BY <1>4, <2>1, <2>2, <2>7
<1>7. CASE Dispatch(j)
  <2>1. /\ scan'[j].at = scan[j].at /\ scan'[j].todo = scan[j].todo
        /\ scan'[j].week = {} /\ scan'[j].missing = {}
        /\ scan'[j].wrote = scan[j].wrote \cup {e \in scan[j].missing : delivery[e].state = "none"}
        /\ scan'[j].marks = scan[j].marks \cup scan[j].week
        /\ \A x \in Scanners : x # j => scan'[x] = scan[x]
    BY <1>7, DispatchFields DEF Safe
  <2>2. UNCHANGED <<stamped, delivery>> /\ \A e \in Entries : Told(e)' <=> Told(e)
    BY <1>7 DEF Dispatch, Told
  <2>3. \A w \in scan[j].week : Due[w] <= now
    BY <1>3, RemindersAssumption DEF Scanned, Scans
  <2>4. \A e \in scan[j].missing : e \in scan'[j].wrote \/ Told(e)
    BY <2>1 DEF Told
  <2>5. Scanned(j)'
    BY <1>1, <1>3, <2>1, <2>2, <2>3, <2>4 DEF Scanned
  <2> QED
    BY <1>4, <2>1, <2>2, <2>5
<1>8. CASE CommitScan(j)
  <2>1. /\ \A e \in scan[j].wrote : delivery'[e].state = "queued"
        /\ \A e \in Entries \ scan[j].wrote : delivery'[e] = delivery[e]
    BY <1>8, CommitScanForward DEF Safe, Inserting
  <2>2. stamped' = stamped \cup scan[j].marks /\ scan' = [scan EXCEPT ![j] = NoScan]
    BY <1>8 DEF CommitScan
  <2>3. scan \in [Scanners -> Scans]
    BY DEF Safe, TypeInv, TypeOK, Scans
  <2>4. scan'[j] = NoScan /\ \A x \in Scanners : x # j => scan'[x] = scan[x]
    BY <2>2, <2>3
  <2>5. Scanned(j)'
    BY <1>1, <1>3, <2>4 DEF Scanned, NoScan
  <2>6. \A e \in Entries : Told(e)' <=> (Told(e) \/ e \in scan[j].wrote)
    BY <1>2, <2>1 DEF Told
  <2>7. NoFalseAlarm'
    BY <1>1, <1>3, <2>6 DEF NoFalseAlarm, Honest, Scanned
  <2>8. EveryMissingIsTold'
    BY <1>1, <1>3, <2>2, <2>6 DEF EveryMissingIsTold, Honest, Scanned
  <2>9. Begun'
    BY <1>1, <1>3, <2>2 DEF Begun, Honest, Scanned
  <2> QED
    BY <1>1, <1>2, <2>4, <2>5, <2>7, <2>8, <2>9, InsideTrue DEF Honest
<1> QED
  BY <1>5, <1>6, <1>7, <1>8 DEF ScanStep

LEMMA NextTrue ==
  ASSUME Safe, Honest, [Next]_vars
  PROVE  Honest'
<1>1. ASSUME UNCHANGED <<now, entryVars, seen, stamped>>, \A e \in Entries : Told(e)' <=> Told(e),
             \A j \in Scanners : scan'[j] \in {scan[j], NoScan}
      PROVE  Honest'
  <2>1. NoFalseAlarm' /\ EveryMissingIsTold'
    BY <1>1 DEF Honest, NoFalseAlarm, EveryMissingIsTold
  <2>2. ASSUME NEW j \in Scanners, scan'[j] = NoScan
        PROVE  Scanned(j)'
    <3>1. now \in Nat
      BY TypeFields DEF Safe
    <3> QED
      BY <1>1, <2>2, <3>1 DEF Scanned, NoScan
  <2> QED
    BY <1>1, <2>1, <2>2, InsideTrue DEF Honest
<1>2. ASSUME NEW k \in Senders, SendStep(k)
      PROVE  Honest'
  <2>1. UNCHANGED <<now, entryVars, stamped, scan, seen>>
    BY <1>2 DEF SendStep, TakeQueued, Mail, Flush, CommitSend
  <2>2. \A e \in Entries : Told(e)' <=> Told(e)
    BY <1>2, CommitSendForward
    DEF SendStep, TakeQueued, Mail, Flush, CommitSend, Safe, Told, Forward
  <2> QED
    BY <1>1, <2>1, <2>2
<1>3. ASSUME NEW j \in Jobs, Fail(j)
      PROVE  Honest'
  <2>1. UNCHANGED <<now, entryVars, stamped, delivery, seen>>
    BY <1>3 DEF Fail, Rollback
  <2>2. \A e \in Entries : Told(e)' <=> Told(e)
    BY <2>1 DEF Told
  <2>3. \A x \in Scanners : scan'[x] \in {scan[x], NoScan}
    BY <1>3 DEF Fail, Rollback
  <2> QED
    BY <1>1, <2>1, <2>2, <2>3
<1>4. CASE UNCHANGED vars
  <2>1. UNCHANGED <<now, entryVars, stamped, delivery, scan, seen>>
    BY <1>4 DEF vars, entryVars
  <2>2. \A e \in Entries : Told(e)' <=> Told(e)
    BY <2>1 DEF Told
  <2>3. \A x \in Scanners : scan'[x] \in {scan[x], NoScan}
    BY <2>1
  <2> QED
    BY <1>1, <2>1, <2>2, <2>3
<1> QED
  BY <1>2, <1>3, <1>4, OutsideTrue, ScanTrue DEF Next, Outside

LEMMA InitTrue ==
  ASSUME Init
  PROVE  Honest
<1>1. now = 0 /\ \A e \in Entries : until[e] = 0 /\ Due[e[2]] \in Nat
  BY RemindersAssumption DEF Init, Entries
<1>2. Watching
  BY <1>1 DEF Init, Watching
<1>3. \A j \in Scanners : Scanned(j)
  BY <1>1 DEF Init, Scanned, NoScan
<1>4. Begun /\ NoFalseAlarm /\ EveryMissingIsTold
  BY DEF Init, Begun, NoFalseAlarm, EveryMissingIsTold, Told
<1> QED
  BY <1>2, <1>3, <1>4 DEF Honest

LEMMA TrueInvariant == Spec => []Honest
BY InitSafe, NextSafe, InitTrue, NextTrue, PTL DEF Spec

\* Nobody is told who was never missing from the deadline on (notifications/service.py:
\* dispatch_missed_deadline, with unfulfilled_entries).
THEOREM NobodyAlarmed == Spec => []NoFalseAlarm
<1>1. Honest => NoFalseAlarm
  BY DEF Honest
<1> QED
  BY <1>1, TrueInvariant, PTL

\* A week is stamped only with the notices of all who were missing all the time,
\* through crashes, overlapping scans and deadlocks.
THEOREM NobodyForgotten == Spec => []EveryMissingIsTold
<1>1. Honest => EveryMissingIsTold
  BY DEF Honest
<1> QED
  BY <1>1, TrueInvariant, PTL

=============================================================================
