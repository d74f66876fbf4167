SPECIFICATION Spec
CONSTANTS
    s1 = s1
    s2 = s2
    s3 = s3
    r1 = r1
    k1 = k1
    k2 = k2
    c1 = c1
    c2 = c2
    Saver = {s1, s2, s3}
    Restorer = {r1}
    Key = {k1, k2}
    Content = {c1}
    KeyOf <- MCKeyOf
    Holds <- MCHolds
    Faults = {"kill", "power_cut", "io_error", "imap_error", "rot"}
    Nothing = Nothing
    Failed = Failed
    Junk = Junk
INVARIANTS
    TypeOK
    ManifestBacked
    NothingLost
    RestoreFaithful
    StampsAreTrue
    NoLitter
PROPERTIES
    ImplementsStore
CHECK_DEADLOCK FALSE
