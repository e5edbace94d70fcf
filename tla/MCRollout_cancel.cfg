CONSTANTS
    Names <- MCNames
    Ids = {1}
    NoId = 0
    Upgrades <- MCTwo
    Requires <- MCChain
    Position <- MCPosition
    Messages <- Message
    Active = {}
    RetryTimes = 0
    Target <- MCTarget
    Patched = {}
    CanFail = FALSE
    CanCancel = TRUE
    Answers = {"ANS_ACCEPT", "ANS_REFUSE"}
    Swift = {"deployment", "disconnection"}
    Faulty = {}
    Faults = 0
    Lasting = {"download", "deploy"}
SPECIFICATION RolloutSpec
INVARIANTS
    RolloutTypeOK
PROPERTIES
    CancelIsReal
