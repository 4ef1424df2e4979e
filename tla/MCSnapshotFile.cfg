SPECIFICATION FileSpec
CONSTANTS
    w1 = w1
    w2 = w2
    p1 = p1
    p2 = p2
    Writers = {w1, w2}
    Processes = {p1, p2}
    ProcessOf <- OneEach
    Inodes = {n1, n2, n3, n4}
    NoInode = NoInode
    Snapshots = {s1, s2}
    NoText = NoText
    Torn = Torn
    Binary = Binary
    Missing = Missing
INVARIANTS
    FileTypeOK
PROPERTIES
    AtomicReplace
    ImplementsFilePromise
