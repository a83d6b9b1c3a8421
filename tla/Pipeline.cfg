SPECIFICATION MCSpec
CONSTANTS
    Workers = {w1, w2}
    Retries = {a1}
    Reviewers = {p1, p2}
    MaxReports = 2
    MaxVersions = 3
    MaxAttempts = 2
    MaxRetries = 1
    MaxKills = 1
INVARIANT DraftIsNewest
INVARIANT DraftedOnce
PROPERTY StandsUntilReplaced
PROPERTY ReviewImplementsPublication
PROPERTY QueuedIsSettled
CHECK_DEADLOCK FALSE
