----------------------------- MODULE MCServices -----------------------------
(* Two parts that call a service outside, the model's provider and the       *)
(* object store, and share no state, on small instances in one run.  A       *)
(* behaviour is about one of them; the other rests in an initial state, in   *)
(* which none of its fair actions is enabled.  The attachments have two      *)
(* instances: in one the requests about the upload overlap and no week is    *)
(* submitted; in the other they come one after another, by one of the        *)
(* callers, beside removals by the other, submissions and the jobs of the    *)
(* worker.                                                                   *)
EXTENDS Gateway, Attachments

CONSTANT Fewer      \* bound: files sent beside the jobs

VARIABLE about

Uploader  == CHOOSE c \in Calls : TRUE
Unlimited == CHOOSE p \in Projects : TRUE

\* One project has a limit of its own, now and then, and another never.
BudgetBound == share[Unlimited] = NoLimit

MCInit ==
    /\ GatewayInit /\ Init
    /\ about \in {"budget", "upload", "reading"}
    /\ BudgetBound /\ (about # "budget" => \A p \in Projects : share[p] = NoLimit)

UploadBound == submits = 0

\* The worker reads what is attached.
ReadingBound ==
    /\ puts <= Fewer
    /\ \A k \in Keys : object[k] \in {"none", "whole"} \/ (object[k] = "other" /\ k \in late)
    /\ \A c \in Calls : call[c].pc # "idle" => (Uploading(c) <=> c = Uploader)

\* Everything may have been attached, read or removed.
AttachmentsStop == UNCHANGED vars

MCNext ==
    \/ about = "budget" /\ GatewayNext /\ BudgetBound' /\ UNCHANGED vars
    \/ /\ about # "budget" /\ (Next \/ AttachmentsStop) /\ UNCHANGED gatewayVars
       /\ \/ about = "upload" /\ UploadBound'
          \/ about = "reading" /\ ReadingBound'

MCSpec ==
    /\ MCInit
    /\ [][about' = about /\ MCNext]_<<gatewayVars, vars, about>>
    /\ GatewayFairness /\ Fairness

=============================================================================
