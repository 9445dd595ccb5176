SPECIFICATION PmpSpec
CONSTANTS
    Command = {c1, c2}
    Key = {k1}
    Principal = {p1, p2}
    Capacity = 1
    Faults = {"panic", "drop", "db", "crash"}
    NoCommand = NoCommand
    Intent = {i1, i2}
    Player = {p1}
    NoIntent = NoIntent
    NoPlayer = NoPlayer
INVARIANTS
    CommandsAreTrue
    IntentsAreSound
PROPERTIES
    CommandsAreAudited
    IntentsDrain
CHECK_DEADLOCK FALSE
