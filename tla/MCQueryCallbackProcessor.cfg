SPECIFICATION FairSpec
CONSTANTS
    c1 = c1
    c2 = c2
    c3 = c3
    Chain = {c1, c2, c3}
    Length <- LengthOf
INVARIANTS
    ChainInv
    CallbackGetsItsAnswer
PROPERTIES
    ThrowSparesNewChains
    AnsweredIsCalled
CHECK_DEADLOCK FALSE
