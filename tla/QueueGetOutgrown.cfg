CONSTANTS
    Consumer = {c1, c2}
    Messages = 2
    Raw <- OutgrowingRaw
    Converted <- OutgrowingConverted
    MaxLength = {1, 3}
    InitialLength = 2
    Unset = Unset
SYMMETRY ConsumerSymmetry
SPECIFICATION QueueSpec
INVARIANT NothingEverLost
CHECK_DEADLOCK FALSE
