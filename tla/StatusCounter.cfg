SPECIFICATION CounterSpec
CONSTANTS
    s1 = s1
    s2 = s2
    a1 = a1
    a2 = a2
    a3 = a3
    counter = counter
    status = status
    Server = {s1, s2}
    Allocation = {a1, a3}
    HomeOf <- Homes
    Key = {counter}
    CounterKey = counter
    Section = {status}
    ServerSections = {status}
    SectionOf <- CounterSection
    CredentialsSection = creds
    LogSection = log
    Value = {0, 1, 2, 3}
    NoValue = NoValue
    BulkReadAbove = 16
    MaxEdits = 0
    MaxFaults = 1
    MaxAttempts = 2
    MaxResets = 1
INVARIANTS AllocationIsSound
CHECK_DEADLOCK FALSE
