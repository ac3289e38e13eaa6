SPECIFICATION Spec
CONSTANTS
    Request = {r1, r2}
    FileId = {}
    FolderId = {f1, f2, f3}
    Key = {}
    Mount = {d}
    Default = d
    NoMount = NoMount
    Root = Root
    Name = {n1, n2}
    BadName = BadName
    Content = {a}
    Partial = Partial
    Checksum <- MCChecksum
    Nil = Nil
    Ops = {"createFolder", "renameFolder", "deleteFolder"}
    Audited = {}
    a = a
    b = b
SYMMETRY FolderPools
INVARIANTS FolderTree SiblingsDiffer
