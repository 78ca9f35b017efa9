SPECIFICATION Spec
CONSTANTS
    r1 = r1
    r2 = r2
    c1 = c1
    c2 = c2
    Request = {r1, r2}
    Call = {c1, c2}
    Setups <- AllSetups
    EntryTTL = 1
    MaxEntries = 1
INVARIANTS VerifiedIsWhatWasAsked
PROPERTIES VerdictsAreFinal
CHECK_DEADLOCK FALSE
