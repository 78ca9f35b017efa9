SPECIFICATION Spec
CONSTANTS
    Offers = {"a", "b"}
    Responses <- IssuerResponses
    Presentations = {"p"}
    MaxUses = 2
    Setups <- AllSetups
INVARIANTS CopiesAreUnlinkable
PROPERTIES RoomIsMade BatchIsComplete ListIsAShelf
CHECK_DEADLOCK FALSE
