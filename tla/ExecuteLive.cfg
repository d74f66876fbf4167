\* Nobody is killed: every run ends, and answers every message it loaded.
CONSTANTS
    a1 = a1  a2 = a2  b1 = b1
    A = A  B = B  k1 = k1  k2 = k2  m1 = m1  m2 = m2
    NoRun = NoRun  NoKey = NoKey
    Task = {A, B}
    Lock = {A, B}
    Msg = {m1, m2}
    TaskOf <- TaskOfRun
    LockOf <- LockOfTask
    Age <- InOrder
    RouteTo <- ToA
    Run = {a1, a2, b1}
    Key = {k1, k2}
    Box = {k1, k2}
    BoxOf <- OwnBox
    Holds <- OneMessage
    Source <- BSeesOne
    Actions <- OneRoutes
    MaxActions <- CapOne
    DryRun = {a2}
    FailFast = {}
    Faults = {"unsupported"}
SPECIFICATION FairSpec
INVARIANTS CapIsExact ReportHonest
PROPERTIES RunEnds EveryItemAnswered
CHECK_DEADLOCK FALSE
