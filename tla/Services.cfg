SPECIFICATION MCSpec
CONSTANTS
    Runs = {r1, r2}
    Projects = {pa, pb}
    Budget = 3
    Shares = {5}
    NoLimit = nolimit
    Costs = {2}
    Dearest = 2
    MaxTries = 2
    Calls = {c1, c2}
    Workers = {w1}
    Sums = {fa, fb}
    Readable = {fa}
    Nothing = nothing
    MaxVersion = 2
    MaxAttempts = 2
    MaxAsks = 2
    MaxPuts = 3
    Fewer = 2
    MaxSubmits = 1
    MaxLost = 1
INVARIANT WithinBudget
INVARIANT ConfirmedIsWhole
INVARIANT RemovedIsForgotten
PROPERTY EveryRunEnds
PROPERTY QueuedIsCitable
