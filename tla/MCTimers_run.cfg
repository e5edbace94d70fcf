CONSTANTS
    List <- MCList
    Loop <- MCLoop
    Intervals = {0, 3, 5}
    Least = 1
    Offset = 1
    Now0 = 1
    MaxTime = 16
SPECIFICATION Spec
INVARIANTS
    TypeOK
    NoDrift
    NoOversleep
    OnceOnly
CHECK_DEADLOCK FALSE
