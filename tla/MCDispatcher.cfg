CONSTANTS
    p1 = p1  p2 = p2  p3 = p3  p4 = p4  a1 = a1  a2 = a2  o1 = o1  o2 = o2  t1 = t1
    Packs = {p1, p2, p3, p4}
    NoPack = NoPack
    Actions = {a1, a2}
    Owners = {o1, o2}
    NoOwner = NoOwner
    Owned <- MCOwned
    Callers = {t1}
    Worker = Worker
    ActionName <- MCActionName
    SubCommand <- MCSubCommand
    NeedAnswer <- MCNeedAnswer
    MAX_ELEMENT_IN_QUEUE = 1
SPECIFICATION FairSpec
CHECK_DEADLOCK FALSE
INVARIANTS
    RegisteredServed
    QuietAfterDeregister
    UnlockedDispatchSafe
    WorkerAwake
PROPERTIES
    Delivers
    QueuedEnds
    DeregisterReturns
