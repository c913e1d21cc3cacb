\* Two threads with a connection each.
CONSTANTS
    Thread = {t1, t2}
    HConn = {1, 5}
    Key <- MCKey
    ConnOf <- MCConnOf
    With <- PrivateWith
    Buffer = {b1, b2, b3}
    Length = {0, 1}
    NoEntry = NoEntry
    None = None
SYMMETRY CallSymmetry
SPECIFICATION Spec
INVARIANTS TypeOK OwnBuffers NoLeak BufferStays OwnMessage NoOrphans
CHECK_DEADLOCK FALSE
