SPECIFICATION Spec
CONSTANTS
    MAX_MATRIX_DIM = 3
    MaxExact = 8
    Wide = 64
    NameOrder <- MCNameOrder
    Env <- MCEnv
    Broken <- MCBroken
    Features = {"time", "unit", "fx"}
    Exprs <- Mixed
    Once <- OnlyOnce
    AllQuestions <- QuestionsAsked
    NoQuestion = NoQuestion
    Failure <- Error
    MaxWorld = 1
    MaxAsks = 3
    MaxHeld = 2
CHECK_DEADLOCK FALSE
INVARIANTS TypeOK FreshAnswer CanonicalSound KeyTellsMeaning
