------------------------------- MODULE Drive -------------------------------
(***************************************************************************)
(* The file manager of N-Drive: FileService, FileRepository, LocalStore    *)
(* and the HTTP handlers in front of them.                                 *)
(*                                                                         *)
(* Metadata lives in SQLite tables, bytes live in one directory per disk   *)
(* ("mount"), and no transaction spans the two.  A request is a goroutine: *)
(* each SQL statement and each change of a disk is one atomic step (the    *)
(* pool has a single connection), and the steps of different requests      *)
(* interleave freely.  The label pc[r] names the next statement or system  *)
(* call of request r, loc[r] holds its local variables.                    *)
(***************************************************************************)
EXTENDS Naturals, FiniteSets

CONSTANTS
    Request,        \* request slots: how many requests may be in flight
    FileId,         \* row ids of files that uuid.NewString can return
    FolderId,       \* row ids of folders that uuid.NewString can return
    Key,            \* storage keys that uuid.NewString can return
    Mount,          \* disks an operator may configure
    Default,        \* the first configured disk, always present
    NoMount,        \* the empty mount id ""
    Root,           \* the empty folder id "", stored as NULL
    Name,           \* valid file and folder names
    BadName,        \* a name that sanitising or validation rejects
    Content,        \* what an uploaded body may hold
    Partial,        \* an object whose body is still being written
    Checksum,       \* the xxHash64 of a content; it need not be injective
    Nil,            \* the zero value of a local variable
    Ops,            \* the operations the clients of an instance call
    Audited         \* the audit actions an instance keeps

Operations == {"upload", "copy", "download", "delete", "restore", "rename",
               "move", "purge", "createFolder", "renameFolder", "deleteFolder"}

AuditActions == {"upload", "download", "delete", "restore", "purge"}

Sum == {Checksum[c] : c \in Content}

ASSUME DefaultAssumption == Default \in Mount /\ NoMount \notin Mount
ASSUME RootAssumption == Root \notin FolderId
ASSUME NameAssumption == BadName \notin Name
ASSUME ContentAssumption == Partial \notin Content /\ Nil \notin Content
ASSUME NilAssumption ==
    Nil \notin FileId /\ Nil \notin FolderId /\ Nil \notin Key /\ Nil \notin Sum
ASSUME OpsAssumption == Ops \subseteq Operations /\ Audited \subseteq AuditActions

VARIABLES
    folders,    \* table folders: a function from row id to row
    files,      \* table files: a function from row id to row
    disk,       \* disk[m]: the objects under the root of disk m, by key
    audit,      \* table audit_events, as a set of <<action, resource id>>
    mounted,    \* the disks the running process was configured with
    pc,         \* the next step of every request
    loc,        \* the local variables of every request
    issued,     \* every uuid handed out so far
    leaked      \* history: objects abandoned by a crash or by a failed removal

world == <<folders, files, disk, audit, mounted, issued, leaked>>
vars  == <<folders, files, disk, audit, mounted, issued, leaked, pc, loc>>

(***************************************************************************)
(* Rows and local variables.                                               *)
(***************************************************************************)
FolderRow == [parent : FolderId \cup {Root}, mount : Mount \cup {NoMount},
              name : Name]

FileRow == [dir : FolderId \cup {Root}, mount : Mount, key : Key,
            name : Name, sum : Sum, trashed : BOOLEAN]

Local == [op     : Operations \cup {Nil},
          id     : FileId \cup FolderId \cup {Nil},
          dir    : FolderId \cup {Root},
          mount  : Mount \cup {NoMount},
          src    : Key \cup {Nil},      \* key read from a row
          key    : Key \cup {Nil},      \* key this request created
          data   : Content \cup {Partial, Nil},
          sum    : Sum \cup {Nil},
          name   : Name \cup {BadName, Nil},
          status : {Nil, 200, 201, 204, 400, 404, 409}]

Blank == [op |-> Nil, id |-> Nil, dir |-> Root, mount |-> NoMount, src |-> Nil,
          key |-> Nil, data |-> Nil, sum |-> Nil, name |-> Nil, status |-> Nil]

Labels == {"idle", "findFolder", "findFile", "findTrashed", "open", "create",
           "write", "lookup", "dedupe", "check", "insert", "undo", "softDelete",
           "restoreRow", "renameRow", "exists", "moveRow", "deleteRow",
           "remove", "audit", "checkParent", "insertFolder", "renameFolderRow",
           "count", "deleteFolderRow", "reply"}

Put(f, x, v) == [y \in DOMAIN f \cup {x} |-> IF y = x THEN v ELSE f[y]]

Drop(f, S) == [y \in DOMAIN f \ S |-> f[y]]

(* The status of the handler's answer on success and on a plain failure     *)
(* (an upload's 413 and 415 count as 400).                                  *)
OkStatus == [op \in Operations |->
    CASE op = "download" -> 200
      [] op \in {"upload", "copy", "createFolder"} -> 201
      [] OTHER -> 204]

FailStatus == [op \in Operations |->
    IF op \in {"upload", "createFolder"} THEN 400 ELSE 404]

(***************************************************************************)
(* Mounts.Get.                                                             *)
(***************************************************************************)
Resolve(m) == IF m = NoMount THEN Default ELSE m

Mounted(m) == Resolve(m) \in mounted

(***************************************************************************)
(* Control of a request.                                                   *)
(***************************************************************************)
Become(r, rec, label) ==
    /\ pc'  = [pc EXCEPT ![r] = label]
    /\ loc' = [loc EXCEPT ![r] = rec]

Goto(r, label) == Become(r, loc[r], label)

Reply(r, rec, status) == Become(r, [rec EXCEPT !.status = status], "reply")

Succeed(r) == Reply(r, loc[r], OkStatus[loc[r].op])

Fail(r) == Reply(r, loc[r], FailStatus[loc[r].op])

(* Slip: the body goes to the disk as the caller named it, "" included.     *)
SaveOnUnresolved(r, rec) ==
    IF Mounted(rec.mount) THEN Become(r, rec, "create") ELSE Reply(r, rec, 400)

(* Upload past mounts.Get: the body goes to the resolved disk.              *)
SaveOn(r, rec) ==
    IF Mounted(rec.mount)
    THEN Become(r, [rec EXCEPT !.mount = Resolve(rec.mount)], "create")
    ELSE Reply(r, rec, 400)

(* CreateFolder past mounts.Get: the disk is looked up, and the row keeps   *)
(* the id as the caller gave it.                                            *)
MakeFolder(r, rec, label) ==
    IF Mounted(rec.mount) THEN Become(r, rec, label) ELSE Reply(r, rec, 400)

(* After Save, CreateFile looks at the folder only when there is one.       *)
CreateFileLabel(r) == IF loc[r].dir = Root THEN "insert" ELSE "check"

(***************************************************************************)
(* Handlers: a request arrives with its parameters.  Ids are those of rows *)
(* that exist or once existed.                                             *)
(***************************************************************************)
KnownFiles == issued \cap FileId
KnownDirs  == (issued \cap FolderId) \cup {Root}

Arrives(r, op) == pc[r] = "idle" /\ op \in Ops /\ UNCHANGED world

BeginUpload(r) ==
    /\ Arrives(r, "upload")
    /\ \E d \in KnownDirs, m \in Mount \cup {NoMount}, c \in Content,
          n \in Name \cup {BadName} :
         LET rec == [Blank EXCEPT !.op = "upload", !.dir = d, !.mount = m,
                                  !.data = c, !.name = n]
         IN  IF d = Root THEN SaveOn(r, rec) ELSE Become(r, rec, "findFolder")

BeginCopy(r) ==
    /\ Arrives(r, "copy")
    /\ \E i \in KnownFiles, d \in KnownDirs :
         Become(r, [Blank EXCEPT !.op = "copy", !.id = i, !.dir = d], "findFile")

BeginMove(r) ==
    /\ Arrives(r, "move")
    /\ \E i \in KnownFiles, d \in KnownDirs :
         Become(r, [Blank EXCEPT !.op = "move", !.id = i, !.dir = d],
                IF d = Root THEN "moveRow" ELSE "findFile")

BeginRename(r) ==
    /\ Arrives(r, "rename")
    /\ \E i \in KnownFiles, n \in Name \cup {BadName} :
         LET rec == [Blank EXCEPT !.op = "rename", !.id = i, !.name = n]
         IN  IF n = BadName THEN Reply(r, rec, 404) ELSE Become(r, rec, "renameRow")

BeginOnFile(r, op, label) ==
    /\ Arrives(r, op)
    /\ \E i \in KnownFiles : Become(r, [Blank EXCEPT !.op = op, !.id = i], label)

BeginDownload(r) == BeginOnFile(r, "download", "findFile")
BeginDelete(r)   == BeginOnFile(r, "delete", "softDelete")
BeginRestore(r)  == BeginOnFile(r, "restore", "restoreRow")
BeginPurge(r)    == BeginOnFile(r, "purge", "findTrashed")

BeginCreateFolder(r) ==
    /\ Arrives(r, "createFolder")
    /\ \E d \in KnownDirs, m \in Mount \cup {NoMount}, n \in Name \cup {BadName} :
         LET rec == [Blank EXCEPT !.op = "createFolder", !.dir = d,
                                  !.mount = m, !.name = n]
         IN  CASE n = BadName -> Reply(r, rec, 400)
               [] n # BadName /\ d # Root -> Become(r, rec, "findFolder")
               [] n # BadName /\ d = Root -> MakeFolder(r, rec, "insertFolder")

BeginRenameFolder(r) ==
    /\ Arrives(r, "renameFolder")
    /\ \E d \in KnownDirs \ {Root}, n \in Name \cup {BadName} :
         LET rec == [Blank EXCEPT !.op = "renameFolder", !.id = d, !.name = n]
         IN  IF n = BadName THEN Reply(r, rec, 400)
                            ELSE Become(r, rec, "renameFolderRow")

BeginDeleteFolder(r) ==
    /\ Arrives(r, "deleteFolder")
    /\ \E d \in KnownDirs \ {Root} :
         Become(r, [Blank EXCEPT !.op = "deleteFolder", !.id = d], "count")

Begin(r) ==
    \/ BeginUpload(r) \/ BeginCopy(r) \/ BeginMove(r) \/ BeginRename(r)
    \/ BeginDownload(r) \/ BeginDelete(r) \/ BeginRestore(r) \/ BeginPurge(r)
    \/ BeginCreateFolder(r) \/ BeginRenameFolder(r) \/ BeginDeleteFolder(r)

(***************************************************************************)
(* SELECTs that a request starts with.                                     *)
(***************************************************************************)
FolderMissing(r) ==
    /\ pc[r] = "findFolder" /\ loc[r].dir \notin DOMAIN folders
    /\ Fail(r)
    /\ UNCHANGED world

UploadIntoFolder(r) ==
    /\ pc[r] = "findFolder" /\ loc[r].op = "upload"
    /\ loc[r].dir \in DOMAIN folders
    /\ SaveOn(r, [loc[r] EXCEPT !.mount = folders[loc[r].dir].mount])
    /\ UNCHANGED world

(* Slip: a move does not compare disks.                                     *)
MoveIntoAnyFolder(r) ==
    /\ pc[r] = "findFolder" /\ loc[r].op = "move"
    /\ loc[r].dir \in DOMAIN folders
    /\ Goto(r, "exists")
    /\ UNCHANGED world

MoveIntoFolder(r) ==
    /\ pc[r] = "findFolder" /\ loc[r].op = "move"
    /\ loc[r].dir \in DOMAIN folders
    /\ IF folders[loc[r].dir].mount = loc[r].mount
       THEN Goto(r, "exists")
       ELSE Reply(r, loc[r], 400)
    /\ UNCHANGED world

CreateUnderParent(r) ==
    /\ pc[r] = "findFolder" /\ loc[r].op = "createFolder"
    /\ loc[r].dir \in DOMAIN folders
    /\ MakeFolder(r, [loc[r] EXCEPT !.mount = folders[loc[r].dir].mount], "checkParent")
    /\ UNCHANGED world

FindFolder(r) ==
    \/ FolderMissing(r) \/ UploadIntoFolder(r)
    \/ MoveIntoFolder(r) \/ CreateUnderParent(r)

IsActive(i)  == i \in DOMAIN files /\ ~files[i].trashed
IsTrashed(i) == i \in DOMAIN files /\ files[i].trashed

(* What a request remembers of the row it read.                             *)
WithRow(rec, row) == [rec EXCEPT !.mount = row.mount, !.src = row.key,
                                 !.sum = row.sum, !.name = row.name]

FindFile(r) ==
    /\ pc[r] = "findFile"
    /\ IF ~IsActive(loc[r].id)
       THEN Fail(r)
       ELSE LET rec == WithRow(loc[r], files[loc[r].id])
            IN  CASE loc[r].op = "move" -> Become(r, rec, "findFolder")
                  [] loc[r].op # "move" /\ Mounted(rec.mount) -> Become(r, rec, "open")
                  [] loc[r].op # "move" /\ ~Mounted(rec.mount) -> Reply(r, rec, 404)
    /\ UNCHANGED world

(* Slip: a purge removes the object before it deletes the row.              *)
FindAndRemoveTrashed(r) ==
    /\ pc[r] = "findTrashed"
    /\ IF IsTrashed(loc[r].id)
       THEN LET rec == WithRow(loc[r], files[loc[r].id])
            IN  /\ Become(r, rec, "deleteRow")
                /\ disk' = [disk EXCEPT ![rec.mount] = Drop(@, {rec.src})]
       ELSE Fail(r) /\ UNCHANGED disk
    /\ UNCHANGED <<folders, files, audit, mounted, issued, leaked>>

FindTrashedFile(r) ==
    /\ pc[r] = "findTrashed"
    /\ IF IsTrashed(loc[r].id)
       THEN Become(r, WithRow(loc[r], files[loc[r].id]), "deleteRow")
       ELSE Fail(r)
    /\ UNCHANGED world

(***************************************************************************)
(* LocalStore.  An open file stays readable when its name is removed, and  *)
(* nothing rewrites a finished object: what Open finds is what is served.  *)
(***************************************************************************)
Open(r) ==
    /\ pc[r] = "open"
    /\ IF loc[r].src \in DOMAIN disk[loc[r].mount]
       THEN Become(r, [loc[r] EXCEPT !.data = disk[loc[r].mount][loc[r].src]],
                   IF loc[r].op = "copy" THEN "create" ELSE "audit")
       ELSE Fail(r)
    /\ UNCHANGED world

(* Slip: a key that is not new, and no O_EXCL.                              *)
CreateOverObject(r) ==
    /\ pc[r] = "create" /\ loc[r].name # BadName
    /\ \E k \in Key :
         /\ disk' = [disk EXCEPT ![loc[r].mount] = Put(@, k, Partial)]
         /\ issued' = issued \cup {k}
         /\ Become(r, [loc[r] EXCEPT !.key = k], "write")
    /\ UNCHANGED <<folders, files, audit, mounted, leaked>>

(* Save: O_EXCL creation under a new key.                                   *)
CreateObject(r) ==
    /\ pc[r] = "create" /\ loc[r].name # BadName
    /\ \E k \in Key \ issued :
         /\ disk' = [disk EXCEPT ![loc[r].mount] = Put(@, k, Partial)]
         /\ issued' = issued \cup {k}
         /\ Become(r, [loc[r] EXCEPT !.key = k], "write")
    /\ UNCHANGED <<folders, files, audit, mounted, leaked>>

(* Save: the body is complete, hashed, and within the limits.  CopyFile     *)
(* keeps the checksum of the source row, whatever was hashed.               *)
WriteObject(r) ==
    /\ pc[r] = "write"
    /\ disk' = [disk EXCEPT ![loc[r].mount] = Put(@, loc[r].key, loc[r].data)]
    /\ IF loc[r].op = "upload"
       THEN Become(r, [loc[r] EXCEPT !.sum = Checksum[loc[r].data]], "lookup")
       ELSE Goto(r, CreateFileLabel(r))
    /\ UNCHANGED <<folders, files, audit, mounted, issued, leaked>>

(* LocalStore.Delete, which does not mind a missing object; os.Remove may   *)
(* fail, and then the object stays.                                         *)
Removed(m, k) ==
    /\ disk' = [disk EXCEPT ![m] = Drop(@, {k})]
    /\ UNCHANGED <<folders, files, audit, mounted, issued, leaked>>

NotRemoved(k) ==
    /\ leaked' = leaked \cup {k}
    /\ UNCHANGED <<folders, files, disk, audit, mounted, issued>>

(* A best-effort removal: the error is ignored.                             *)
Discard(r) == Removed(loc[r].mount, loc[r].key) \/ NotRemoved(loc[r].key)

(* Slip: a failing Save leaves its half-written object behind.              *)
SaveFailsUncleaned(r) == pc[r] \in {"create", "write"} /\ Fail(r) /\ UNCHANGED world

(* Slip: CopyFile ignores the error of Copy.                                *)
SaveFailsUnseen(r) ==
    \/ pc[r] = "create" /\ Fail(r) /\ UNCHANGED world
    \/ pc[r] = "write" /\ loc[r].op = "upload" /\ Fail(r) /\ Discard(r)
    \/ pc[r] = "write" /\ loc[r].op = "copy" /\ Goto(r, CreateFileLabel(r)) /\ UNCHANGED world

(* Save fails: bad name, open error, broken body, ErrTooLarge or            *)
(* ErrInvalidMIME.  Once the object exists it is cleaned up.                *)
SaveFails(r) ==
    \/ pc[r] = "create" /\ Fail(r) /\ UNCHANGED world
    \/ pc[r] = "write" /\ Fail(r) /\ Discard(r)

(***************************************************************************)
(* Upload and CopyFile after Save.                                         *)
(***************************************************************************)
(* Slip: duplicates are looked for on every disk.                           *)
SameContentAnywhere(m, s) == {i \in DOMAIN files :
    ~files[i].trashed /\ files[i].sum = s}

SameContent(m, s) == {i \in DOMAIN files :
    ~files[i].trashed /\ files[i].mount = m /\ files[i].sum = s}

(* LIMIT 1 without ORDER BY: any active duplicate may be the answer.        *)
FindActiveByChecksum(r) ==
    /\ pc[r] = "lookup"
    /\ \/ \E i \in SameContent(loc[r].mount, loc[r].sum) :
            Become(r, [loc[r] EXCEPT !.id = i], "dedupe")
       \/ /\ SameContent(loc[r].mount, loc[r].sum) = {}
          /\ Goto(r, CreateFileLabel(r))
    /\ UNCHANGED world

(* Slip: the object of the row that was found goes, not the new one.        *)
DedupeOld(r) ==
    /\ pc[r] = "dedupe" /\ Succeed(r)
    /\ Removed(loc[r].mount, files[loc[r].id].key)

Dedupe(r) == pc[r] = "dedupe" /\ Succeed(r) /\ Discard(r)

CheckFolder(r) ==
    /\ pc[r] = "check"
    /\ IF loc[r].dir \in DOMAIN folders /\ folders[loc[r].dir].mount = loc[r].mount
       THEN Goto(r, "insert")
       ELSE Goto(r, "undo")
    /\ UNCHANGED world

(* Slip: a copy that reuses the stored object.                              *)
NewFileSharing(rec) == [dir |-> rec.dir, mount |-> rec.mount,
    key |-> IF rec.op = "copy" THEN rec.src ELSE rec.key,
    name |-> rec.name, sum |-> rec.sum, trashed |-> FALSE]

(* The row the INSERT writes, and the foreign key it must satisfy.          *)
NewFile(rec) == [dir |-> rec.dir, mount |-> rec.mount, key |-> rec.key,
                 name |-> rec.name, sum |-> rec.sum, trashed |-> FALSE]

(* Slip: foreign keys are not enforced.                                     *)
DirUnchecked(d) == TRUE

DirExists(d) == d = Root \/ d \in DOMAIN folders

InsertFile(r) ==
    /\ pc[r] = "insert" /\ DirExists(loc[r].dir)
    /\ \E i \in FileId \ issued :
         /\ files' = Put(files, i, NewFile(loc[r]))
         /\ issued' = issued \cup {i}
         /\ IF loc[r].op = "upload"
            THEN Become(r, [loc[r] EXCEPT !.id = i], "audit")
            ELSE Reply(r, loc[r], 201)
    /\ UNCHANGED <<folders, disk, audit, mounted, leaked>>

InsertFileRefused(r) ==
    /\ pc[r] = "insert" /\ ~DirExists(loc[r].dir)
    /\ Goto(r, "undo")
    /\ UNCHANGED world

(* Slip: a failed INSERT leaves the object behind.                          *)
UndoNothing(r) == pc[r] = "undo" /\ Fail(r) /\ UNCHANGED world

UndoSave(r) == pc[r] = "undo" /\ Fail(r) /\ Discard(r)

(***************************************************************************)
(* UPDATE and DELETE statements on files.  A statement that affects no row *)
(* is ErrNotFound.                                                         *)
(***************************************************************************)
SetFile(i, row) ==
    /\ files' = [files EXCEPT ![i] = row]
    /\ UNCHANGED <<folders, disk, audit, mounted, issued, leaked>>

NoRow(r, found) == ~found /\ Fail(r) /\ UNCHANGED world

SoftDeleteFile(r) ==
    /\ pc[r] = "softDelete"
    /\ \/ NoRow(r, IsActive(loc[r].id))
       \/ /\ IsActive(loc[r].id)
          /\ SetFile(loc[r].id, [files[loc[r].id] EXCEPT !.trashed = TRUE])
          /\ Goto(r, "audit")

RestoreFile(r) ==
    /\ pc[r] = "restoreRow"
    /\ \/ NoRow(r, IsTrashed(loc[r].id))
       \/ /\ IsTrashed(loc[r].id)
          /\ SetFile(loc[r].id, [files[loc[r].id] EXCEPT !.trashed = FALSE])
          /\ Goto(r, "audit")

RenameFile(r) ==
    /\ pc[r] = "renameRow"
    /\ \/ NoRow(r, IsActive(loc[r].id))
       \/ /\ IsActive(loc[r].id)
          /\ SetFile(loc[r].id, [files[loc[r].id] EXCEPT !.name = loc[r].name])
          /\ Succeed(r)

FolderExists(r) ==
    /\ pc[r] = "exists"
    /\ IF loc[r].dir \in DOMAIN folders THEN Goto(r, "moveRow") ELSE Fail(r)
    /\ UNCHANGED world

MoveFile(r) ==
    /\ pc[r] = "moveRow"
    /\ \/ NoRow(r, IsActive(loc[r].id) /\ DirExists(loc[r].dir))
       \/ /\ IsActive(loc[r].id) /\ DirExists(loc[r].dir)
          /\ SetFile(loc[r].id, [files[loc[r].id] EXCEPT !.dir = loc[r].dir])
          /\ Succeed(r)

(* Slip: the DELETE does not ask for deleted_at.                            *)
DeleteAnyFile(r) ==
    /\ pc[r] = "deleteRow"
    /\ files' = Drop(files, {loc[r].id})
    /\ Goto(r, "remove")
    /\ UNCHANGED <<folders, disk, audit, mounted, issued, leaked>>

(* Slip: nobody looks at RowsAffected.                                      *)
DeleteUncounted(r) ==
    /\ pc[r] = "deleteRow"
    /\ files' = IF IsTrashed(loc[r].id) THEN Drop(files, {loc[r].id}) ELSE files
    /\ Goto(r, "remove")
    /\ UNCHANGED <<folders, disk, audit, mounted, issued, leaked>>

(* PermanentlyDelete: the row goes first.  On a disk that is no longer      *)
(* configured mounts.Get then fails and the object stays behind.            *)
DeleteFilePermanently(r) ==
    /\ pc[r] = "deleteRow"
    /\ \/ NoRow(r, IsTrashed(loc[r].id))
       \/ /\ IsTrashed(loc[r].id)
          /\ files' = Drop(files, {loc[r].id})
          /\ IF Mounted(loc[r].mount)
             THEN Goto(r, "remove") /\ leaked' = leaked
             ELSE Fail(r) /\ leaked' = leaked \cup {loc[r].src}
          /\ UNCHANGED <<folders, disk, audit, mounted, issued>>

RemoveObject(r) ==
    /\ pc[r] = "remove"
    /\ \/ Removed(loc[r].mount, loc[r].src) /\ Goto(r, "audit")
       \/ NotRemoved(loc[r].src) /\ Fail(r)

Audit(r) ==
    /\ pc[r] = "audit"
    /\ audit' = audit \cup ({loc[r].op} \cap Audited) \X {loc[r].id}
    /\ Succeed(r)
    /\ UNCHANGED <<folders, files, disk, mounted, issued, leaked>>

(***************************************************************************)
(* Folders.                                                                *)
(***************************************************************************)
(* UNIQUE(parent_id, name) ignores NULL parents; root folders have an index *)
(* of their own, on (name, mount).                                          *)
NameTaken(self, d, m, n) == \E f \in DOMAIN folders \ {self} :
    /\ folders[f].parent = d /\ folders[f].name = n
    /\ d = Root => folders[f].mount = m

CheckParent(r) ==
    /\ pc[r] = "checkParent"
    /\ IF loc[r].dir \in DOMAIN folders /\ folders[loc[r].dir].mount = loc[r].mount
       THEN Goto(r, "insertFolder")
       ELSE Fail(r)
    /\ UNCHANGED world

InsertFolder(r) ==
    /\ pc[r] = "insertFolder" /\ DirExists(loc[r].dir)
    /\ ~NameTaken(Nil, loc[r].dir, loc[r].mount, loc[r].name)
    /\ \E f \in FolderId \ issued :
         /\ folders' = Put(folders, f, [parent |-> loc[r].dir,
                              mount |-> loc[r].mount, name |-> loc[r].name])
         /\ issued' = issued \cup {f}
    /\ Succeed(r)
    /\ UNCHANGED <<files, disk, audit, mounted, leaked>>

InsertFolderRefused(r) ==
    /\ pc[r] = "insertFolder"
    /\ \/ ~DirExists(loc[r].dir)
       \/ NameTaken(Nil, loc[r].dir, loc[r].mount, loc[r].name)
    /\ Reply(r, loc[r], 409)
    /\ UNCHANGED world

(* Slip: a rename that no constraint refuses.                               *)
RenameUnchecked(r) ==
    /\ pc[r] = "renameFolderRow" /\ loc[r].id \in DOMAIN folders
    /\ folders' = [folders EXCEPT ![loc[r].id].name = loc[r].name]
    /\ Succeed(r)
    /\ UNCHANGED <<files, disk, audit, mounted, issued, leaked>>

(* A name clash is a plain error of the UPDATE, never ErrConflict.          *)
RenameFolder(r) ==
    /\ pc[r] = "renameFolderRow"
    /\ LET d == loc[r].id
           renamed == /\ d \in DOMAIN folders
                      /\ ~NameTaken(d, folders[d].parent, folders[d].mount, loc[r].name)
       IN  \/ NoRow(r, renamed)
           \/ /\ renamed
              /\ folders' = [folders EXCEPT ![d].name = loc[r].name]
              /\ Succeed(r)
              /\ UNCHANGED <<files, disk, audit, mounted, issued, leaked>>

Children(d) == {f \in DOMAIN folders : folders[f].parent = d}
FilesIn(d)  == {i \in DOMAIN files : files[i].dir = d}

CountContents(r) ==
    /\ pc[r] = "count"
    /\ IF Children(loc[r].id) = {} /\ FilesIn(loc[r].id) = {}
       THEN Goto(r, "deleteFolderRow")
       ELSE Reply(r, loc[r], 409)
    /\ UNCHANGED world

(* What ON DELETE CASCADE deletes with d: the least set that holds d and    *)
(* the children of its members.                                             *)
Subtree(d) == {f \in DOMAIN folders : \A S \in SUBSET DOMAIN folders :
    (d \in S /\ \A g \in S : Children(g) \subseteq S) => f \in S}

(* Slip: files.folder_id without ON DELETE SET NULL.                        *)
DeleteUnderFiles(r) ==
    /\ pc[r] = "deleteFolderRow" /\ loc[r].id \in DOMAIN folders
    /\ folders' = Drop(folders, Subtree(loc[r].id))
    /\ Succeed(r)
    /\ UNCHANGED <<files, disk, audit, mounted, issued, leaked>>

(* The DELETE cascades to subfolders and sets folder_id to NULL in files.   *)
DeleteFolder(r) ==
    /\ pc[r] = "deleteFolderRow"
    /\ LET gone == Subtree(loc[r].id)
       IN  \/ NoRow(r, loc[r].id \in DOMAIN folders)
           \/ /\ loc[r].id \in DOMAIN folders
              /\ folders' = Drop(folders, gone)
              /\ files' = [i \in DOMAIN files |->
                    IF files[i].dir \in gone THEN [files[i] EXCEPT !.dir = Root]
                                             ELSE files[i]]
              /\ Succeed(r)
              /\ UNCHANGED <<disk, audit, mounted, issued, leaked>>

(***************************************************************************)
(* A statement fails: the client went away and its context was cancelled,  *)
(* SQLite was busy, the disk was full.  Nothing is written.                *)
(***************************************************************************)
SqlLabels == {"findFolder", "findFile", "findTrashed", "lookup", "check",
    "insert", "softDelete", "restoreRow", "renameRow", "exists", "moveRow",
    "deleteRow", "audit", "checkParent", "insertFolder", "renameFolderRow",
    "count", "deleteFolderRow"}

(* Slip: Upload starts over when its INSERT fails.                          *)
StatementRetried(r) ==
    /\ pc[r] \in SqlLabels
    /\ CASE pc[r] = "lookup" -> Goto(r, CreateFileLabel(r))
         [] pc[r] \in {"check", "insert"} -> Goto(r, "lookup")
         [] pc[r] = "audit" -> Succeed(r)
         [] OTHER -> Fail(r)
    /\ UNCHANGED world

(* Slip: PermanentlyDelete goes on after a failing DELETE.                  *)
StatementFailsUnseen(r) ==
    /\ pc[r] = "deleteRow"
    /\ Goto(r, "remove")
    /\ UNCHANGED world

StatementFails(r) ==
    /\ pc[r] \in SqlLabels
    /\ CASE pc[r] = "lookup" -> Goto(r, CreateFileLabel(r))
         [] pc[r] \in {"check", "insert"} -> Goto(r, "undo")
         [] pc[r] = "audit" -> Succeed(r)
         [] OTHER -> Fail(r)
    /\ UNCHANGED world

OpenFails(r) == pc[r] = "open" /\ Fail(r) /\ UNCHANGED world

Answered(r) == pc[r] = "reply" /\ Become(r, Blank, "idle") /\ UNCHANGED world

Step(r) ==
    \/ FindFolder(r) \/ FindFile(r) \/ FindTrashedFile(r)
    \/ Open(r) \/ OpenFails(r) \/ CreateObject(r) \/ WriteObject(r) \/ SaveFails(r)
    \/ FindActiveByChecksum(r) \/ Dedupe(r) \/ CheckFolder(r)
    \/ InsertFile(r) \/ InsertFileRefused(r) \/ UndoSave(r)
    \/ SoftDeleteFile(r) \/ RestoreFile(r) \/ RenameFile(r)
    \/ FolderExists(r) \/ MoveFile(r)
    \/ DeleteFilePermanently(r) \/ RemoveObject(r) \/ Audit(r)
    \/ CheckParent(r) \/ InsertFolder(r) \/ InsertFolderRefused(r)
    \/ RenameFolder(r) \/ CountContents(r) \/ DeleteFolder(r)
    \/ StatementFails(r) \/ Answered(r)

(***************************************************************************)
(* The process dies, or a shutdown outlasts its deadline, and is started   *)
(* again, perhaps with other disks configured.  Tables and disks survive,  *)
(* but for old audit events; an object whose request died before it was    *)
(* referenced is abandoned.                                                *)
(***************************************************************************)
SavedLabels == {"write", "lookup", "dedupe", "check", "insert", "undo"}

OwnsAt(label, rec, k) ==
    \/ label \in SavedLabels /\ rec.key = k
    \/ label = "remove" /\ rec.src = k

Owns(r, k) == OwnsAt(pc[r], loc[r], k)

(* Events are not dated here: any of them may be past the retention, and    *)
(* the pruning may fail.                                                    *)
PruneAudit == audit' \in SUBSET audit

Restart ==
    /\ PruneAudit
    /\ pc' = [r \in Request |-> "idle"]
    /\ loc' = [r \in Request |-> Blank]
    /\ leaked' = leaked \cup {k \in Key : \E r \in Request : Owns(r, k)}
    /\ \E M \in SUBSET Mount : Default \in M /\ mounted' = M
    /\ UNCHANGED <<folders, files, disk, issued>>

Init ==
    /\ folders = [f \in {} |-> Nil]
    /\ files = [i \in {} |-> Nil]
    /\ disk = [m \in Mount |-> [k \in {} |-> Nil]]
    /\ audit = {}
    /\ mounted = Mount
    /\ pc = [r \in Request |-> "idle"]
    /\ loc = [r \in Request |-> Blank]
    /\ issued = {}
    /\ leaked = {}

Next == Restart \/ \E r \in Request : Begin(r) \/ Step(r)

Spec == Init /\ [][Next]_vars

(* Every statement and system call of a request returns, with a result or   *)
(* an error: a body that stops arriving runs into the server's ReadTimeout. *)
FairSpec == Spec /\ \A r \in Request : WF_vars(Step(r))

(***************************************************************************)
(* Browsing: the queries of the repository for rows of the disk m, and the *)
(* folders a client reaches by opening, from the root, what the listings   *)
(* show that it asks for with the disk m.                                  *)
(***************************************************************************)
ListFolders(m, d) == {f \in Children(d) : folders[f].mount = m}

ListFiles(m, d) == {i \in FilesIn(d) : files[i].mount = m /\ ~files[i].trashed}

ListTrash(m) == {i \in DOMAIN files : files[i].mount = m /\ files[i].trashed}

(* The rows of m that hang below the root by rows of m.                     *)
Below(m) == {d \in DOMAIN folders \cup {Root} :
    \A S \in SUBSET (DOMAIN folders \cup {Root}) :
        (Root \in S /\ \A g \in S : ListFolders(m, g) \subseteq S) => d \in S}

(* A request that names no disk asks for the default one.                   *)
mountParam(m) == IF m = NoMount THEN Default ELSE m

Reached(m) == Below(mountParam(m))

(***************************************************************************)
(* Properties.                                                             *)
(***************************************************************************)
TablesOK ==
    /\ DOMAIN folders \subseteq FolderId
    /\ \A f \in DOMAIN folders : folders[f] \in FolderRow
    /\ DOMAIN files \subseteq FileId
    /\ \A i \in DOMAIN files : files[i] \in FileRow
    /\ DOMAIN disk = Mount
    /\ \A m \in Mount : DOMAIN disk[m] \subseteq Key
    /\ \A m \in Mount : \A k \in DOMAIN disk[m] : disk[m][k] \in Content \cup {Partial}
    /\ audit \subseteq Audited \X FileId
    /\ mounted \subseteq Mount /\ Default \in mounted
    /\ issued \subseteq FileId \cup FolderId \cup Key
    /\ leaked \subseteq Key

(* Tables, disks and locals hold values of their types.                     *)
TypeOK == TablesOK /\ pc \in [Request -> Labels] /\ loc \in [Request -> Local]

(* Upload, CopyFile and PermanentlyDelete never leave a row, active or      *)
(* trashed, whose object is missing, half written, on another disk, or      *)
(* different from the content whose checksum the row records.               *)
RowsHaveObjects == \A i \in DOMAIN files :
    /\ files[i].key \in DOMAIN disk[files[i].mount]
    /\ disk[files[i].mount][files[i].key] \in Content
    /\ Checksum[disk[files[i].mount][files[i].key]] = files[i].sum

(* No object is referenced twice, and none that a row references is in the  *)
(* hands of a request that may still remove it: de-duplication, undoing a   *)
(* failed insert and purging destroy nothing that is in use.                *)
SoleReference ==
    /\ \A i, j \in DOMAIN files : files[i].key = files[j].key => i = j
    /\ \A i \in DOMAIN files : files[i].key \notin leaked
    /\ \A i \in DOMAIN files, r \in Request : ~Owns(r, files[i].key)

(* Upload and purge clean up behind themselves: an object that no row       *)
(* references belongs to a request in flight or was abandoned by a crash,   *)
(* by a failed os.Remove, or by a purge on a disk that is not configured.   *)
NoOrphan == \A m \in Mount : \A k \in DOMAIN disk[m] :
    \/ \E i \in DOMAIN files : files[i].mount = m /\ files[i].key = k
    \/ \E r \in Request : Owns(r, k) /\ loc[r].mount = m
    \/ k \in leaked

(* A download that answers 200 serves a complete body with the checksum of  *)
(* the row it found, whatever was trashed or purged in the meantime.        *)
DownloadIntegrity == \A r \in Request :
    (pc[r] = "reply" /\ loc[r].op = "download" /\ loc[r].status = 200) =>
        loc[r].data \in Content /\ Checksum[loc[r].data] = loc[r].sum

(* The id an upload answers with names, unless it has been purged since, a  *)
(* row on the requested disk that has the checksum of the uploaded body:    *)
(* also when duplicate detection answered with a row that was there before. *)
UploadAnswersRow == \A r \in Request :
    LET i == loc[r].id IN
    (pc[r] = "reply" /\ loc[r].op = "upload" /\ loc[r].status = 201) =>
        /\ i \in issued
        /\ i \in DOMAIN files => /\ files[i].mount = loc[r].mount
                                 /\ files[i].sum = Checksum[loc[r].data]

(* Of several requests that purge a file, one at most gets past the DELETE, *)
(* and from then on the row is gone for good: no restore brings it back.    *)
Purging(r) ==
    /\ loc[r].op = "purge"
    /\ pc[r] \in {"remove", "audit"} \/ (pc[r] = "reply" /\ loc[r].status = 204)

PurgeWins == \A r \in Request : Purging(r) =>
    /\ loc[r].id \notin DOMAIN files
    /\ \A q \in Request \ {r} : Purging(q) => loc[q].id # loc[r].id

(* An audit event of a purge is never about a file that still has a row.    *)
PurgeEventsTrue == \A i \in FileId : <<"purge", i>> \in audit => i \notin DOMAIN files

(* PermanentlyDelete works on the trash only: an active file, restored      *)
(* perhaps while a purge is under way, never loses its row, and a row that  *)
(* stays keeps its disk, its object and its checksum.                       *)
RowsLeaveFromTrash == [][\A i \in DOMAIN files :
    IF i \in DOMAIN files'
    THEN /\ files'[i].key = files[i].key
         /\ files'[i].mount = files[i].mount
         /\ files'[i].sum = files[i].sum
    ELSE files[i].trashed]_vars

(* A parent exists and is on the same disk, and there are no cycles.        *)
Rooted == \A f \in DOMAIN folders :
    /\ folders[f].parent # Root =>
         /\ folders[f].parent \in DOMAIN folders
         /\ folders[folders[f].parent].mount = folders[f].mount
    /\ f \in Below(folders[f].mount)

(* Folders form trees, one disk each, also under renames and the cascades   *)
(* of other requests; and a folder can be found in the listings, opening    *)
(* folder after folder, if and only if it was created with a disk: one that *)
(* was created without is on "", which no listing asks for.                 *)
FolderTree ==
    /\ Rooted
    /\ \A f \in DOMAIN folders :
         folders[f].mount # NoMount <=> \E m \in Mount \cup {NoMount} : f \in Reached(m)

(* A file, trashed or not, is in no folder or in one that exists and is on  *)
(* its own disk, although the folder is checked before the row is written.  *)
FilesOnFolderDisk == \A i \in DOMAIN files : files[i].dir # Root =>
    /\ files[i].dir \in DOMAIN folders
    /\ folders[files[i].dir].mount = files[i].mount

(* Every file can be found in the listings of its disk, opening folder      *)
(* after folder from the root, or in its trash.                             *)
FilesListed == \A i \in DOMAIN files :
    \/ i \in ListTrash(files[i].mount)
    \/ \E d \in Reached(files[i].mount) : i \in ListFiles(files[i].mount, d)

(* No two folders of a parent, and no two roots of a disk, share a name.    *)
SiblingsDiffer == \A f, g \in DOMAIN folders :
    (/\ f # g /\ folders[f].parent = folders[g].parent
     /\ folders[f].mount = folders[g].mount) => folders[f].name # folders[g].name

(* A client always gets its answer (or sees the server restart).            *)
Responsive == \A r \in Request : pc[r] # "idle" ~> pc[r] = "idle"

(* An object without a row does not stay: it gets a row, or is removed, or  *)
(* is one of the abandoned ones.                                            *)
HasRow(m, k) == \E i \in DOMAIN files : files[i].mount = m /\ files[i].key = k

Reclaimed == \A m \in Mount, k \in Key :
    (k \in DOMAIN disk[m] /\ ~HasRow(m, k)) ~>
        (HasRow(m, k) \/ k \notin DOMAIN disk[m] \/ k \in leaked)
=============================================================================
