----------------------------- MODULE Publication -----------------------------
(***************************************************************************)
(* What the review of one student's week on one project promises: of the   *)
(* readings the pipeline drafts the student is shown at most one at a      *)
(* time, and a reading whose showing has ended is not shown again.         *)
(***************************************************************************)
CONSTANT Readings    \* version numbers of the week's assessments

VARIABLES
    shown,  \* the readings the student sees: none, or one
    ended   \* the readings that were shown and no longer are

vars == <<shown, ended>>

Init == shown = {} /\ ended = {}

\* A reading takes the place of the one before it.
Publish(n) ==
    /\ n \notin ended \cup shown
    /\ shown' = {n}
    /\ ended' = ended \cup shown

Withdraw ==
    /\ shown # {}
    /\ shown' = {}
    /\ ended' = ended \cup shown

Next == Withdraw \/ \E n \in Readings : Publish(n)

Spec == Init /\ [][Next]_vars

=============================================================================
