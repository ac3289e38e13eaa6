SPECIFICATION FairSpec
CONSTANTS
    Request = {r1, r2}
    FileId = {i1}
    FolderId = {f1, f2}
    Key = {k1}
    Mount = {d, e}
    Default = d
    NoMount = NoMount
    Root = Root
    Name = {n}
    BadName = BadName
    Content = {a}
    Partial = Partial
    Checksum <- MCChecksum
    Nil = Nil
    Ops = {"createFolder", "deleteFolder"}
    Audited = {}
    a = a
    b = b
PROPERTY OnlyEmptyFoldersDeleted
