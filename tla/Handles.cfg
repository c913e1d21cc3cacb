CONSTANTS
    QueueManager = {m1}
    PCFExecute = {p1}
    Queue = {q1, q2}
    Topic = {t1}
    Subscription = {s1}
    DisconnectOnExit = {m1}
    Lapse = {"lent"}
    Conn = {c1, c2}
    Obj = {n1, n2}
    None = None
    Orphan = Orphan
SYMMETRY HandlesSymmetry
SPECIFICATION Spec
INVARIANTS TypeOK HoldsOwn NothingLost ConnectionsHeld
