\* The objects 2 and 20 of one connection, in a table of the real capacity.
CONSTANTS
    HConn = {5}
    HObj = {2, 20}
    Buffer = {b1, b2, b3}
    Length = {1}
    NoEntry = NoEntry
    InitialCapacity = 16
    HashWidth = 65536
SPECIFICATION Spec
INVARIANT EntriesHaveBuffers
CHECK_DEADLOCK FALSE
