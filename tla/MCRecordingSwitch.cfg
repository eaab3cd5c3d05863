SPECIFICATION SwitchFairSpec
CONSTANTS
    MaxCommands = 2
    MaxOthers = 1
INVARIANTS
    SwitchTypeOK
    LastClickCounts
    PublishedIsTheRobots
PROPERTIES
    SwitchSettles
