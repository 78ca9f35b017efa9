SPECIFICATION MCSpec
CONSTANTS
    Scenes <- AllScenes
    MaxSwitches = 1
    Tokens <- Credentials
    ClaimsQueries <- AllQueries
    Spelled <- NoDots
    Cases <- AllCases
    MaxChanges = 1
INVARIANTS QueryIsAnswered BestIsPreselected StrictAnswersOnlyMatching    
CHECK_DEADLOCK FALSE
