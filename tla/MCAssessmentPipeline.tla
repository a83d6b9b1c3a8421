------------------------ MODULE MCAssessmentPipeline ------------------------
(* AssessmentPipeline on two small instances in one run: one reviewer beside *)
(* runs that overlap, stall and are killed, and two reviewers whose requests *)
(* overlap beside runs that come one after another.                          *)
EXTENDS ObservedReview

VARIABLE alone      \* there is one reviewer

FirstReviewer == CHOOSE p \in Reviewers : TRUE

\* Bounds: what meets a second reviewer, and what meets a second run.
Bounded ==
    IF alone
    THEN \A p \in Reviewers \ {FirstReviewer} : req[p] = Quiet
    ELSE /\ kills = 0 /\ \A v \in Reports : attempts[v] <= 1
         /\ \A x \in log : x.outcome = "completed"
         /\ Cardinality({r \in Runs : run[r] # Idle}) <= 1

MCInit == ObservedInit /\ alone \in BOOLEAN

MCSpec ==
    /\ MCInit
    /\ [][ObservedNext /\ alone' = alone /\ Bounded']_<<observedVars, alone>>
    /\ Fairness

=============================================================================
