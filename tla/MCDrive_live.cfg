SPECIFICATION FairSpec
CONSTANTS
    Request = {r1, r2}
    FileId = {i1}
    FolderId = {}
    Key = {k1, k2}
    Mount = {d}
    Default = d
    NoMount = NoMount
    Root = Root
    Name = {n}
    BadName = BadName
    Content = {a, b}
    Partial = Partial
    Checksum <- MCCollide
    Nil = Nil
    Ops = {"upload", "copy", "download", "rename", "delete", "restore", "purge"}
    Audited = {}
    a = a
    b = b
INVARIANTS IndInv
PROPERTIES Responsive Reclaimed
