SPECIFICATION FairSpec
CONSTANTS
    FolderId = {f1, f2}
    FileId = {i1}
    Name = {n1, n2}
    Account = {a, b}
    DiskName = {"default", "A"}
    Dir = {old, new}
    StorageRoot = old
    MaxDisks = 3
    MaxFaults = 2
    Nil = Nil
INVARIANTS TypeOK ServesSound FilesReachable
PROPERTIES RowsKept Starts
