\* An interrupted run leaves an open attempt; its key is claimed again.
CONSTANTS
    a1 = a1  a2 = a2  b1 = b1
    A = A  B = B  k1 = k1  k2 = k2  m1 = m1  m2 = m2
    NoRun = NoRun  NoKey = NoKey
    Task = {A, B}
    Lock = {A, B}
    Msg = {m1, m2}
    TaskOf <- TaskOfRun
    LockOf <- LockOfTask
    Age <- InOrder
    RouteTo <- ToA
    Run = {a1, a2, b1}
    Key = {k1}
    Box = {k1}
    BoxOf <- OwnBox
    Holds <- OneMessage
    Source <- AllKeys
    Actions <- BothMove
    MaxActions <- Uncapped
    DryRun = {}
    FailFast = {}
    Faults = {"interrupt"}
SPECIFICATION Spec
INVARIANTS ClaimExclusive
CHECK_DEADLOCK FALSE
