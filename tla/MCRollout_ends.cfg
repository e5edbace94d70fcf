CONSTANTS
    Names <- MCNames
    Ids = {1}
    NoId = 0
    Upgrades <- MCOne
    Requires <- MCChain
    Position <- MCPosition
    Messages <- Message
    Active = {}
    RetryTimes = 0
    Target <- MCTarget
    Patched = {1}
    CanFail = TRUE
    CanCancel = FALSE
    Answers = {}
    Swift = {"deployment", "disconnection"}
    Faulty = {"connection", "restart"}
    Faults = 1
    Lasting = {"deploy"}
SPECIFICATION TimedSpec
PROPERTIES
    RequestCloses
