SPECIFICATION RequestsOnly
CONSTANTS
    Scenes <- AllScenes
    MaxSwitches = 1
    Tokens <- Credentials
    ClaimsQueries <- AllQueries
    Spelled <- NoDots
    Cases <- TransactionData
    MaxChanges = 0
INVARIANT StrictRejectsTransactionData
CHECK_DEADLOCK FALSE
