SPECIFICATION FairSpec
CONSTANTS
    Calls = {c1, c2}
    Feedbacks = {f1, f2}
    Files = {a1}
    Keys = {k1}
    MaxVersion = 3
    MaxFiles = 1
    None = none
CONSTRAINT FilesOrKeys
INVARIANT AttachedIsReady
INVARIANT CreatedOnce
INVARIANT ClaimMeansDone
PROPERTY PublishedAsReviewed
PROPERTY EveryCallEnds
