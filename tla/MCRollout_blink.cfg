CONSTANTS
    Names <- MCNames
    Ids = {1}
    NoId = 0
    Upgrades <- MCTwo
    Requires <- MCChain
    Position <- MCPosition
    Messages <- Message
    Active = {}
    RetryTimes = 0
    Target <- MCTarget
    Patched = {}
    CanFail = FALSE
    CanCancel = FALSE
    Answers = {}
    Swift = {"deployment", "disconnection"}
    Faulty = {"connection"}
    Faults = 1
    Lasting = {}
SPECIFICATION RolloutSpec
INVARIANTS
    DependsRespected
    SuccessIsReal
