SPECIFICATION Spec
CONSTANTS
    NoOutcome = NoOutcome
    NoCall = NoCall
    NoValue = NoValue
    Exprs <- MCExprs
    Forms <- MCForms
    Vars <- MCVars
    Timeouts <- MCTimeouts
    Values <- MCValues
    Parsable <- MCParsable
    Foldable <- MCFoldable
    Routable <- MCRoutable
    Detected = {"now"}
    Oversize <- MCOversize
    FormOf <- MCFormOf
    Meaning <- MCMeaning
    Calls = {c1, c2, c3}
    Requests <- Crowd
    MaxWorld = 1
INVARIANTS
    SingleFlight
    NoRedundantWork
    NoLostFollower
    MissIsOwnWork
CHECK_DEADLOCK FALSE
SYMMETRY CallSymmetry
