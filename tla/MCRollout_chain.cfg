CONSTANTS
    Names <- MCNames
    Ids = {1}
    NoId = 0
    Upgrades <- MCThree
    Requires <- MCChain
    Position <- MCPosition
    Messages <- Message
    Active = {}
    RetryTimes = 0
    Target <- MCTarget
    Patched = {}
    CanFail = FALSE
    CanCancel = FALSE
    Answers = {}
    Swift = {"deployment"}
    Faulty = {}
    Faults = 0
    Lasting = {}
SPECIFICATION RolloutSpec
INVARIANTS
    DependsRespected
    NoEarlyDeploy
