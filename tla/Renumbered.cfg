\* A mailbox is renumbered between a crash and the reconcile pass.
CONSTANTS
    a1 = a1  a2 = a2  b1 = b1
    A = A  B = B  k1 = k1  k2 = k2  m1 = m1  m2 = m2
    NoRun = NoRun  NoKey = NoKey
    Task = {A, B}
    Lock = {A, B}
    Msg = {m1, m2}
    TaskOf <- TaskOfRun
    LockOf <- LockOfTask
    Age <- InOrder
    RouteTo <- ToA
    Run = {a1, a2}
    Key = {k1}
    Box = {k1}
    BoxOf <- OwnBox
    Holds <- OneMessage
    Source <- AllKeys
    Actions <- BothMove
    MaxActions <- Uncapped
    DryRun = {}
    FailFast = {}
    Faults = {"crash", "renumber"}
SPECIFICATION Spec
INVARIANTS CompletedMoveIsTrue
CHECK_DEADLOCK FALSE
