SPECIFICATION Spec
CONSTANTS
    NoOutcome = NoOutcome
    NoCall = NoCall
    NoValue = NoValue
    Exprs <- MCExprs
    Forms <- MCForms
    Vars <- MCVars
    Timeouts <- MCTimeouts
    Values <- MCValues
    Parsable <- MCParsable
    Foldable <- MCFoldable
    Routable <- MCRoutable
    Detected = {"now"}
    Oversize <- MCOversize
    FormOf <- MCFormOf
    Meaning <- MCMeaning
    Calls = {c1, c2}
    Requests <- AllPaths
    MaxWorld = 1
INVARIANTS
    TypeOK
    CacheProvenance
    HonestAnswer
PROPERTIES
    EveryCallReturns
    ImplementsPromise
CHECK_DEADLOCK FALSE
