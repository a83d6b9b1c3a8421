--------------------------- MODULE MCWeeklyReport ---------------------------
(* WeeklyReport on small instances, two in one run: one tab with everything    *)
(* around it, and two tabs whose requests overlap, or lose a send, over one    *)
(* project.  The observer overlapped tells the two apart.                      *)
EXTENDS ObservedReport, TLC

Interchangeable ==
    Permutations(Submitters) \cup Permutations(Projects) \cup Permutations(Contents)

\* Bounds: what overlaps, follows a lost send or carries a key is about one
\* project, and what overlaps or follows a lost send meets no professor.
Named == {p \in Projects : \/ \E v \in Versions : entries[v][p] # Blank
                           \/ \E s \in Submitters : p \in DOMAIN sub[s].package}
Keyed == \/ \E v \in Versions : keyOf[v] # "none"
         \/ \E s \in Submitters : sub[s].key # "none"
Bounded ==
    /\ overlapped \/ lost # 0 \/ Keyed => Cardinality(Named) <= 1
    /\ overlapped \/ lost # 0 =>
        asked = 0 /\ state # "reviewed" /\ \A q \in Professors : rev[q] = NoReview

MCSpec == ObservedInit /\ [][ObservedNext /\ Bounded']_observedVars

=============================================================================
