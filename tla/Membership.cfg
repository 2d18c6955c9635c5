\* Two users, one crash.
CONSTANTS
    User <- MCPair
    None = "none"
    MaxCrashes = 1
    Gap = {}
SPECIFICATION FairSpec
INVARIANTS OneRoom PlayersBelong ConnectedIsTracked
PROPERTIES OwnerPresent DesertedRoomEnds
