SPECIFICATION Spec
CONSTANTS
    Request = {r1, r2}
    FileId = {i1, i2}
    FolderId = {}
    Key = {k1, k2}
    Mount = {d, e}
    Default = d
    NoMount = NoMount
    Root = Root
    Name = {n}
    BadName = BadName
    Content = {a, b}
    Partial = Partial
    Checksum <- MCChecksum
    Nil = Nil
    Ops = {"upload", "copy", "download", "delete", "restore", "purge"}
    Audited = {"purge"}
    a = a
    b = b
SYMMETRY Pools
INVARIANTS TypeOK RowsHaveObjects SoleReference NoOrphan DownloadIntegrity UploadAnswersRow PurgeWins PurgeEventsTrue
PROPERTIES RowsLeaveFromTrash ImplementsCatalog
