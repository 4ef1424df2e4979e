SPECIFICATION Spec
CONSTANTS
    MAX_MATRIX_DIM = 3
    MaxExact = 8
    Wide = 64
    NameOrder <- MCNameOrder
    Env <- MCEnv
    Broken <- MCBroken
    Features = {"time", "unit", "fx"}
    Exprs <- Wrapped
    Once = {}
    AllQuestions <- QuestionsAsked
    NoQuestion = NoQuestion
    Failure <- Error
    MaxWorld = 1
    MaxAsks = 1
    MaxHeld = 1
CHECK_DEADLOCK FALSE
INVARIANTS WrappedRatesEvaluate
