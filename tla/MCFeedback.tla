----------------------------- MODULE MCFeedback -----------------------------
(* Feedback on small instances.  Files and keys are two ways two calls can    *)
(* meet: a behaviour of the run uses one or the other, not both.              *)
EXTENDS Feedback

FileUsed == \/ \E a \in Files : file[a] # NoUpload
            \/ \E c \in Calls : call[c].a # None \/ call[c].removing # {}
KeyUsed  == \/ \E f \in Feedbacks : published[f] # 0
            \/ \E c \in Calls : call[c].op = "publish"
            \/ \E o \in Keyed, k \in Keys : claim[o][k] # NoClaim
            \/ \E c \in Calls : call[c].key # None
Several  == Cardinality({f \in Feedbacks : version[f] # 0}
                          \cup {c \in Calls : call[c].op = "create" /\ call[c].pc # "idle"}) > 1

\* New ids are alike: the first feedback takes the first one.
First == CHOOSE f \in Feedbacks : TRUE

\* Bounds the run: files on one feedback of up to three versions, or keys and
\* publications on several of up to two.
FilesOrKeys ==
    /\ FileUsed => ~KeyUsed /\ ~Several
    /\ version[First] = 0 => \A f \in Feedbacks : version[f] = 0
    /\ KeyUsed \/ Several => \A f \in Feedbacks : version[f] < MaxVersion

=============================================================================
