SPECIFICATION Spec
CONSTANTS
    None = None
    Missing = Missing
    Corrupted = Corrupted
    Unreadable = Unreadable
    first = first
    second = second
    here = here
    there = there
    Ttl = 1
    Cooldown = 2
    MaxTime = 4
    Threshold = 2
    Providers = {first}
    Processes = {here}
    ProcessOf <- Alone
    OneShot = {}
    StaleAllowed = {}
    Chain <- TwoSources
    Oversize <- LargeTables
INVARIANTS
    SnapshotsExpire
