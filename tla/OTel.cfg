CONSTANTS
    Thread = {t1, t2}
    Consumer = {t1}
    Conn = {1, 15}
    Obj = {o1, o2}
    Handle = {h1, h2}
    Span = {s1}
    Remote = {r1}
    Asked = {"none", "queue", "handle"}
    None = None
SYMMETRY HandleSymmetry
SPECIFICATION Spec
INVARIANTS TypeOK HandlesAlive OptionsOfThisObject SpanPropagated SpanLinked GmoReturned
PROPERTY OwnTraceKept
