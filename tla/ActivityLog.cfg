SPECIFICATION MCSpec
CONSTANTS
    Server = {s1, s2}
    c1 = c1
    e1 = e1
    e2 = e2
    creds = creds
    log = log
    Key = {c1, e1, e2}
    Section = {creds, log}
    ServerSections = {creds, log}
    SectionOf <- MCSections
    CredentialsSection = creds
    LogSection = log
    Value = {v1}
    Entry = v1
    NoValue = NoValue
    BulkReadAbove = 0
    MaxEdits = 2
    MaxFaults = 0
    MaxClears = 1
    MaxTrims = 1
    MaxLogEntries = 0
    LogTrimSlack = 2
SYMMETRY ServerSymmetry
PROPERTIES EntriesAreKept
CHECK_DEADLOCK FALSE
