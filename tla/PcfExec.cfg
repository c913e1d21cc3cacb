\* Two threads that share a PCFExecute and execute two commands.
CONSTANTS
    a1 = a1
    a2 = a2
    Caller = {a1, a2}
    MaxCalls = 2
    Script <- MCScript
    None = None
SPECIFICATION Spec
INVARIANTS TypeOK NothingMissing NothingLeftBehind CommandQueueUsable
PROPERTY CallsEndUnlessStuck
CHECK_DEADLOCK FALSE
