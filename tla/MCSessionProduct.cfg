SPECIFICATION Spec
CONSTANTS
    MAX_MATRIX_DIM = 3
    MaxExact = 8
    Wide = 64
    NameOrder <- MCNameOrder
    Env <- MCEnv
    Broken <- MCBroken
    Features = {"time", "unit", "fx"}
    Exprs <- Products
    Once = {}
    AllQuestions <- QuestionsAsked
    NoQuestion = NoQuestion
    Failure <- Error
    MaxWorld = 0
    MaxAsks = 2
    MaxHeld = 2
CHECK_DEADLOCK FALSE
INVARIANTS FreshAnswer
