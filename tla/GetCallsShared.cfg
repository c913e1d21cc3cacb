\* Two threads that share connections and queues.
CONSTANTS
    Thread = {t1, t2}
    HConn = {1, 5}
    Key <- MCKey
    ConnOf <- MCConnOf
    With <- SharedWith
    Buffer = {b1, b2, b3}
    Length = {0, 1}
    NoEntry = NoEntry
    None = None
SYMMETRY CallSymmetry
SPECIFICATION Spec
INVARIANT OwnMessage
CHECK_DEADLOCK FALSE
