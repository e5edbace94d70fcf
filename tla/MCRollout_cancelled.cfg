CONSTANTS
    Names <- MCNames
    Ids = {1}
    NoId = 0
    Upgrades <- MCOne
    Requires <- MCChain
    Position <- MCPosition
    Messages <- Message
    Active = {}
    RetryTimes = 0
    Target <- MCTarget
    Patched = {1}
    CanFail = TRUE
    CanCancel = TRUE
    Answers = {"ANS_ACCEPT", "ANS_REFUSE"}
    Swift = {"deployment", "disconnection"}
    Faulty = {"connection", "restart"}
    Faults = 0
    Lasting = {"download", "deploy"}
SPECIFICATION TimedSpec
PROPERTIES
    CancelCloses
