SPECIFICATION Spec
CONSTANTS
    Workers = {w1}
    Retries = {}
    Reviewers = {p1, p2}
    MaxReports = 2
    MaxVersions = 2
    MaxAttempts = 2
    MaxRetries = 0
    MaxKills = 0
INVARIANT AtMostOnePublished
CHECK_DEADLOCK FALSE
