SPECIFICATION Spec
CONSTANTS
    AuthServers = {"A", "B"}
    MaxRounds = 2
    World <- Worlds
    MaxNonceChanges = 1
    MaxListed = 2
INVARIANTS  FlowIsConsistent DemandsAreAnswered
PROPERTIES NothingSentTwice
CHECK_DEADLOCK FALSE
