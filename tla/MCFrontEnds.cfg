SPECIFICATION Spec
CONSTANTS
    Calls = {1, 2, 3}
    Exprs <- MCExprs
    Forms <- MCExprs
    Vars <- MCVars
    Timeouts <- MCTimeouts
    Values <- MCValues
    Requests <- MCRequests
    MaxWorld = 1
    Parsable <- MCParsable
    Foldable <- MCFoldable
    Routable <- MCFoldable
    Detected = {"rate"}
    Oversize = {}
    FormOf <- MCFormOf
    Meaning <- MCMeaning
    NoOutcome = NoOutcome
    Invocations <- MCInvocations
    Lines <- MCLines
    Workers = 2
    MaxBatch = 3
    DefaultTimeout = 50
    MaxTimeout = 36000
    DefaultCache = 10000
    BindingOf <- MCBinding
INVARIANTS
    TypeOK
    ExitTells
    OutputNamesLines
    TranscriptReplays
PROPERTIES
    EveryRunEnds
CHECK_DEADLOCK FALSE
