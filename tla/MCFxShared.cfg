SPECIFICATION Spec
CONSTANTS
    None = None
    Missing = Missing
    Corrupted = Corrupted
    Unreadable = Unreadable
    first = first
    second = second
    here = here
    there = there
    Ttl = 1
    Cooldown = 2
    MaxTime = 3
    Threshold = 1
    Providers = {first, second}
    Processes = {here, there}
    ProcessOf <- Apart
    OneShot = {second}
    StaleAllowed = {second}
    Chain <- TwoSources
    Oversize <- LargeTables
INVARIANTS
    TypeOK
    NoSilentlyStale
    OutageIsPaced
PROPERTIES
    StaysAvailable
    EveryAskAnswered
