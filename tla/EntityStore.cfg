SPECIFICATION MCSpec
CONSTANTS
    Server = {s1, s2}
    s1 = s1
    s2 = s2
    k1 = k1
    k2 = k2
    k3 = k3
    v2 = v2
    creds = creds
    status = status
    Key = {k1, k2, k3}
    Section = {creds, status}
    ServerSections = {creds, status}
    SectionOf <- TwoSections
    CredentialsSection = creds
    LogSection = log
    Value = {v1, v2}
    NoValue = NoValue
    BulkReadAbove = 1
    MaxEdits = 2
    MaxFaults = 1
INVARIANTS  StampIdentifiesBytes 
 
CHECK_DEADLOCK FALSE
