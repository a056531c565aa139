\* Two honest endpoints, one of which receives in pieces of any length or has a
\* block canceled, and each role that faces a rogue peer.
SPECIFICATION Spec
CONSTANTS
    MaxStateBuf = 2
    UniLimit = 1
    Grease = TRUE
    Plans <- SomePlans
    RogueFrames <- SomeFrames
    MaxRequests = 1
    MaxRogue = 2
    MaxEvents = 6
INVARIANTS EventsInOrder RulesKept NothingForgotten
CHECK_DEADLOCK FALSE
