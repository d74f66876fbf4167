SPECIFICATION FairSpec
CONSTANTS
    sorter = sorter
    mover = mover
    inbox = inbox
    lists = lists
    m1 = m1
    m2 = m2
    Task = {sorter, mover}
    Box = {inbox, lists}
    Msg = {m1, m2}
    Uid <- MCUid
    Validity <- MCValidity
    Sources <- MCSources
    Cap <- MCCap
    RouteTo <- MCRouteTo
    Inbox <- MCInbox
    MaxEvents = 2
    NoMsg = NoMsg
    NoKey = NoKey
INVARIANTS
    TypeOK
    RowsAreTrue
    FetchBounded
    NoGaps
PROPERTIES
    RetiredStays
    ActsOnOwnBody
    EveryMailSeen
    FlagsConverge
