---------------------------- MODULE ObservedReport ----------------------------
(* WeeklyReport with an observer of the student's tabs: some of what the       *)
(* service promises holds only while submissions come one after another.       *)
EXTENDS WeeklyReport

VARIABLE overlapped     \* two submissions have been under way at once

observedVars == <<vars, overlapped>>

Underway == {s \in Submitters : sub[s].pc # "idle"}
Overlap  == \E s, t \in Underway : s # t

ObservedInit == Init /\ overlapped = FALSE
ObservedNext == Next /\ overlapped' = (overlapped \/ Overlap')

ObservedSpec == ObservedInit /\ [][ObservedNext]_observedVars

\* With one submission at a time, every marker is true and nothing that was
\* submitted is dropped, whatever the professor does meanwhile (REP-05).
AloneRecordsTruly == overlapped \/ (MarkerIsTrue /\ NothingDropped)

=============================================================================
