SPECIFICATION MCSpec
CONSTANTS
    poller = poller
    call = call
    r1 = r1
    r2 = r2
    Record = {r1, r2}
    Thread = {poller, call}
    Poller = poller
    Interval = 1
    MaxAge = 1
    Settings <- AllSettings
    Sweeps = {"sweep"}
    Calls = {"call"}
    Presentations = {"present"}
    Setups <- AllSetups
INVARIANTS CollectedOnce DeferralIsCollectable 
PROPERTIES BackgroundEnds
CHECK_DEADLOCK FALSE
