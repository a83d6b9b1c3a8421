SPECIFICATION Spec
CONSTANTS
    Requests = {q1, q2}
    MaxLinks = 2
    MaxSessions = 2
    MaxPairs = 3
    MaxEndings = 2
CHECK_DEADLOCK FALSE
PROPERTY DeactivationIsDurable
