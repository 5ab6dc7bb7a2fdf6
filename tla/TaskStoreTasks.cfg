SPECIFICATION Spec
CONSTANTS
    n1 = n1
    n2 = n2
    s1 = s1
    s2 = s2
    t1 = t1
    t2 = t2
    w1 = w1
    None = None
    TaskOps = {t1, t2}
    SendOps = {s1, s2}
    JobOps = {}
    Workspace = {w1}
    NativeTurns = {n1, n2}
    Receiver <- MCReceiver
    EndStates = {"completed"}
INVARIANTS
    TypeOK
    LostIsFinal
    ReceiptsTrue
    AcknowledgedIsOver
PROPERTIES
    UncertainStaysUncertain
