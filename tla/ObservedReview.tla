---------------------------- MODULE ObservedReview ----------------------------
(* AssessmentPipeline with an observer of approvals that overlap: what the     *)
(* review promises the student holds until two of them cross.                  *)
EXTENDS AssessmentPipeline

VARIABLE crossed    \* two approvals have crossed

observedVars == <<vars, crossed>>

\* An approval is committed beside another that will not see it: one of the
\* same reading, which has tested the state already, or one that has already
\* looked for the publications it retires.
Crosses(p) ==
    /\ req[p].op = "approve"
    /\ \E q \in Reviewers \ {p} :
          /\ req[q].pc # "idle" /\ req[q].op = "approve"
          /\ req[q].target = req[p].target \/ req[q].pc \in {"looked", "retired"}

ObservedInit == Init /\ crossed = FALSE
ObservedNext ==
    /\ Next
    /\ crossed' = (crossed \/ \E p \in Reviewers : Crosses(p) /\ Commit(p))

ObservedSpec     == ObservedInit /\ [][ObservedNext]_observedVars
FairObservedSpec == ObservedSpec /\ Fairness

\* A week has one published assessment until two approvals cross, however
\* many reviews, runs and retries overlap (retire_other_approved_reviews).
OneUntilCrossed == crossed \/ AtMostOnePublished

\* A week's readings, as its student is shown them.
Published    == {n \in Versions : review[n] = "approved"}
Publications == INSTANCE Publication WITH
    Readings <- Versions, shown <- Published, ended <- approvals \ Published

\* Until two approvals cross the review implements the abstract publication:
\* one reading at a time, each shown over one stretch of time, none ever again.
ReviewImplementsPublication ==
    Publications!Init /\ [][crossed' \/ Publications!Next]_(Publications!vars)

=============================================================================
