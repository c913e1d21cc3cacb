\* Two connections, "1/" and "15/", and the objects 2 and 3: no key is a prefix
\* of another, and "15/2" shares its first character with "1/2".  The table
\* starts with one bucket, so that four entries make it grow twice.
CONSTANTS
    HConn = {1, 15}
    HObj = {2, 3}
    Buffer = {b1, b2, b3, b4, b5}
    Length = {0, 1, 2}
    NoEntry = NoEntry
    InitialCapacity = 1
    HashWidth = 65536
SYMMETRY BufferSymmetry
SPECIFICATION Spec
INVARIANTS TypeOK ChainsAreAMap
PROPERTY KeepsPromise
CHECK_DEADLOCK FALSE
