SPECIFICATION MCSpec
CONSTANTS
    Submitters = {s1, s2}
    Professors = {q1}
    Projects = {pa, pb}
    Contents = {ca, cb}
    Keys = {k1}
    Blank = blank
    MaxVersions = 3
    MaxRequests = 1
    MaxLost = 1
SYMMETRY Interchangeable
INVARIANT AloneRecordsTruly
INVARIANT FirstStands
INVARIANT OneVersionPerKey
INVARIANT JobsFollowCommit
INVARIANT SentWithVersion
