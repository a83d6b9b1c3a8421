SPECIFICATION Spec
CONSTANTS
    Projects = {p1}
    Jobs = {j1}
    LastWeek = 2
    DaysPerWeek = 2
    Lag = 1
    Catchup = 1
    Dates = {}
    MaxMembers = 2
    LastDay = 4
INVARIANT OnTimePlanCounts
