\* Two threads, the connection handles 1 and 15, one object number that is
\* reused, and the event handlers of the connections.
CONSTANTS
    Thread = {t1, t2}
    HConn = {1, 15}
    HObj = {2}
    MaxConnects = 2
    MaxOpens = 2
    NoEntry = NoEntry
SYMMETRY ThreadSymmetry
SPECIFICATION Spec
INVARIANTS TypeOK CallbackResolves AreaOfThisConnection StashEmptied
CHECK_DEADLOCK FALSE
