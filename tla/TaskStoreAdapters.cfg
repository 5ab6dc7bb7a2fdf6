SPECIFICATION FairSpec
CONSTANTS
    j1 = j1
    s1 = s1
    s2 = s2
    t1 = t1
    None = None
    TaskOps = {t1}
    SendOps = {s1, s2}
    JobOps = {j1}
    Workspace = {}
    NativeTurns = {}
    Receiver <- MCReceiver
    EndStates = {"completed", "failed"}
INVARIANTS
    AtMostOnce
    SerialDispatching
    IntentFirst
    LateRequestIsUncertain
    OneChain
PROPERTIES
    LockReturns
    NoRequestAfterRevocation
    ImplementsSerialDispatch
