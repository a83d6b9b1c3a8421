SPECIFICATION ReadingSpec
CONSTANTS
    Students = {1}
    Weeks = {1}
    Names = {1}
    Files = {}
    Professor = 0
    Creator = 1
    PageSize = 1
    MaxReadings = 1
    MaxChanges = 4
INVARIANT LinkedWhenApproved
