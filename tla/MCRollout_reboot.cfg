CONSTANTS
    Names <- MCNames
    Ids = {1}
    NoId = 0
    Upgrades <- MCTwo
    Requires <- MCChain
    Position <- MCPosition
    Messages <- Message
    Active = {}
    RetryTimes = 0
    Target <- MCTarget
    Patched = {}
    CanFail = TRUE
    CanCancel = FALSE
    Answers = {}
    Swift = {"deployment", "disconnection"}
    Faulty = {"restart"}
    Faults = 1
    Lasting = {"download", "deploy"}
SPECIFICATION RolloutSpec
INVARIANTS
    DependsRespected
    NoEarlyDeploy
    SuccessIsReal
