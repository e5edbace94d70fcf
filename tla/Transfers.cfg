SPECIFICATION TransfersSpec
CONSTANTS
    Files = {f1, f2}
    Size = 2
    RetryTimes = 2
    Rounds = 2
    Shows = 1
    Cuts = 1
    Drops = 1
INVARIANTS CountNeverAhead SuccessIsWhole Distributed
CHECK_DEADLOCK FALSE
PROPERTIES DownloadEnds
