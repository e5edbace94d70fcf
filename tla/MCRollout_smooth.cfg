CONSTANTS
    Names <- MCNames
    Ids = {1}
    NoId = 0
    Upgrades <- MCTwo
    Requires <- MCChain
    Position <- MCPosition
    Messages <- Message
    Active = {}
    RetryTimes = 0
    Target <- MCTarget
    Patched = {1}
    CanFail = FALSE
    CanCancel = FALSE
    Answers = {}
    Swift = {}
    Faulty = {}
    Faults = 0
    Lasting = {}
SPECIFICATION FairRolloutSpec
PROPERTIES
    RequestSucceeds
