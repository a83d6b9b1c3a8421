---------------------------- MODULE MCReminders ----------------------------
(* The reminders of two weeks that come due together. *)
EXTENDS Reminders, TLC

CONSTANTS s1, w1

Together == [w \in Weeks |-> 1]
FirstWeek == {<<s1, w1>>}

=============================================================================
