SPECIFICATION FairSpec
CONSTANTS
    c1 = c1
    c2 = c2
    c3 = c3
    chat = chat
    jev = jev
    spam = spam
    risk = risk
    old = old
    junk = junk
    keep = keep
    ham = ham
    f1 = f1
    f2 = f2
    t1 = t1
    t2 = t2
    t3 = t3
    Fact = {old}
    Proc = {spam, risk}
    Noul = {risk}
    Name = {junk, keep, ham}
    NoAnswer = NoAnswer
    Cand = {c1, c2, c3}
    Place <- MCPlace
    Fp <- MCFp
    Facts <- MCFacts
    Text <- MCText
    Model = {chat, jev}
    ModelOf <- MCModelOf
    NeedsBody = {risk}
    Edition = {1, 2}
    Criteria <- MCCriteria
    Rulebook <- MCRulebook
    Provider <- MCProvider
    Ladder <- MCLadder
    Tries <- MCTries
    BatchSize <- MCBatch
    MaxConcurrent <- MCConcurrent
    Response <- MCResponse
    Malformed = Malformed
    Meta = Meta
    MaxRuns = 2
INVARIANTS
    TypeOK
    AnswersAreDeclared
    OnlyWhatWasAsked
    MatchIsCertain
    RowsInOrder
    SplitKeepsAll
    FailureIsTold
    NoIdleCondition
PROPERTIES
    CachedOnItsBody
    AskedOnce
    EvaluationEnds
CHECK_DEADLOCK FALSE
