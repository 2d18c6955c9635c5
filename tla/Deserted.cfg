\* Two users, one crash; the last who is live may leave a game as a watcher.
CONSTANTS
    User <- MCPair
    None = "none"
    MaxCrashes = 1
    Gap = {"watcher"}
SPECIFICATION FairSpec
PROPERTY DesertedRoomEnds
