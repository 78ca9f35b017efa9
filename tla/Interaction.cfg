SPECIFICATION MCSpec
CONSTANTS
    Request = {r1, r2}
    Call = {c1, c2}
    c1 = c1
    c2 = c2
    r1 = r1
    r2 = r2
    Owns <- OwnsAll
    ConsentTimeout = 1
    ResolvedRetention = 1
    MaxAge = 2
    Offer = {"o1", "o2"}
    Stream = {"s1"}
    Unowned = "nobody"
    Owners <- MCOwners
    MaxSignIns = 1
    ChannelSize = 1
    MaxStoredErrors = 1
    ErrorRetention = 0
    CallbackWait = 1
    StepTime = 0
    OfferTTL = 1
INVARIANTS ConsentIsSound OffersAreSound
PROPERTIES InteractionsEnd
CHECK_DEADLOCK FALSE
