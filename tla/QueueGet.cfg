CONSTANTS
    Consumer = {c1, c2}
    Messages = 3
    Raw <- MCRaw
    Converted <- MCConverted
    MaxLength = {3}
    InitialLength = 2
    Unset = Unset
SYMMETRY ConsumerSymmetry
SPECIFICATION QueueSpec
INVARIANTS QueueTypeOK NothingLost
CHECK_DEADLOCK FALSE
