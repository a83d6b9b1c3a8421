SPECIFICATION FairSpec
CONSTANTS
    Students = {s1}
    Weeks = {w1}
    Scanners = {c1, c2}
    Senders = {m1, m2}
    s1 = s1
    w1 = w1
    Due <- Together
    Busy <- FirstWeek
    Faulty = {c1, m1}
    MaxAttempts = 2
    MaxTime = 2
    MaxFaults = 1
INVARIANT NoFalseAlarm
INVARIANT EveryMissingIsTold
INVARIANT OneMailEach
CHECK_DEADLOCK FALSE
PROPERTY ToldInTheEnd
