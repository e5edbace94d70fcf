CONSTANTS
    Names <- MCSoloNames
    Ids = {1}
    NoId = 0
    Upgrades <- MCSoloUpgrades
    Requires <- MCSoloRequires
    Position <- MCSoloPosition
    Messages <- MCSoloMessages
    Active = {TRUE}
    RetryTimes = 1
SPECIFICATION Spec
INVARIANTS
    TypeOK
    WatchdogArmed
    DetailsMatchUpgrade
    DeploySanctioned
    RejoinControl
PROPERTIES
    NoSilentEnd
    ClosesOnce
    SuccessIsDeployed
