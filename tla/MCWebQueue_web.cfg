CONSTANTS
    Names <- MCNames
    Ids = {1, 2}
    NoId = 0
    Upgrades <- MCUpgrades
    Requires <- MCRequires
    Position <- MCPosition
    Messages <- MCMessages
    Active = {TRUE}
    RetryTimes = 1
    Checks = 1
    Mishaps = 1
    Waiting = 1
SPECIFICATION WebSpec
INVARIANTS
    AwaitsTask
    ServedIsVerified
    ClosedIsTold
CHECK_DEADLOCK FALSE
