SPECIFICATION MCSpec
CONSTANTS
    Students = {1, 2}
    Weeks = {1, 2}
    Names = {1, 2}
    Files = {f1}
    Professor = 0
    Creator = 1
    PageSize = 1
    MaxReadings = 2
    MaxChanges = 5
    Fewer = 4
    Accounts = {a, b, s}
    Founder = a
    MaxSpaces = 2
    MaxShell = 1
    Writers = {night, r1}
    Nightly = night
    WeekLength = 2
    MinutesPerDay = 2
    Horizon = 3
    Choices <- Saved
    Throughs = {5}
    MaxVersions = 3
    MaxMinute = 5
SYMMETRY Interchangeable
INVARIANT PagesShowEachOnce
INVARIANT ShownHeld
INVARIANT ArchivedIsEmpty
INVARIANT BelongsWhereItWorks
INVARIANT WeeksApart
INVARIANT UnstartedFollowLatest
PROPERTY RoutesKeepProfessor
PROPERTY BegunWeekKeepsDeadline
PROPERTY WeeksAreOpened
