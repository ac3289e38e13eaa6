------------------------- MODULE DriveRequestProofs -------------------------
(***************************************************************************)
(* Machine-checked proofs about what the requests of Drive answer and what *)
(* they leave behind in the tables: uploads, purges, the folder tree; and  *)
(* that Drive implements Catalog.                                          *)
(***************************************************************************)
EXTENDS DriveProofs, DriveCatalog

(***************************************************************************)
(* The inductive invariant.                                                *)
(***************************************************************************)
(* The operations that execute the statement at label p.                    *)
PathOK(p, op) ==
    /\ p = "findFolder" => op \in {"upload", "move", "createFolder"}
    /\ p = "findFile" => op \in {"copy", "download", "move"}
    /\ p = "open" => op \in {"copy", "download"}
    /\ p \in {"create", "write", "check", "insert", "undo"} => op \in {"upload", "copy"}
    /\ p \in {"lookup", "dedupe"} => op = "upload"
    /\ p \in {"findTrashed", "deleteRow", "remove"} => op = "purge"
    /\ p = "softDelete" => op = "delete"
    /\ p = "restoreRow" => op = "restore"
    /\ p = "renameRow" => op = "rename"
    /\ p \in {"exists", "moveRow"} => op = "move"
    /\ p \in {"checkParent", "insertFolder"} => op = "createFolder"
    /\ p = "renameFolderRow" => op = "renameFolder"
    /\ p \in {"count", "deleteFolderRow"} => op = "deleteFolder"
    /\ p = "audit" => op \in AuditActions

(* The upload has its row: a new one, or one that was there before.         *)
HasAnswer(p, v) ==
    \/ p = "dedupe"
    \/ p = "audit" /\ v.op = "upload"
    \/ p = "reply" /\ v.op = "upload" /\ v.status = 201

(* The row is gone, and the request is the one that deleted it.             *)
HasPurged(p, v) ==
    /\ v.op = "purge"
    /\ p \in {"remove", "audit"} \/ (p = "reply" /\ v.status = 204)

(* The folder was looked at, and is or was on the disk of the request.      *)
HasFolder(p, v) ==
    p \in {"insert", "exists", "moveRow", "insertFolder"} /\ v.dir # Root

(* The move has looked at the row of its file.                              *)
HasSource(p, v) ==
    /\ v.dir # Root
    /\ p \in {"exists", "moveRow"} \/ (p = "findFolder" /\ v.op = "move")

(* What such a request relies on: ids that were handed out, and what cannot *)
(* change under an id while it is in the table.                             *)
AnswerOK(v) ==
    /\ v.id \in issued
    /\ v.id \in DOMAIN files => /\ files[v.id].mount = v.mount
                                /\ files[v.id].sum = Checksum[v.data]

PurgedOK(v) == v.id \in issued \ DOMAIN files

FolderOK(v) ==
    /\ v.dir \in issued
    /\ v.dir \in DOMAIN folders => folders[v.dir].mount = v.mount

SourceOK(v) ==
    /\ v.id \in issued
    /\ v.id \in DOMAIN files => files[v.id].mount = v.mount

RequestAt(p, v) ==
    /\ PathOK(p, v.op)
    /\ HasAnswer(p, v) => AnswerOK(v)
    /\ HasPurged(p, v) => PurgedOK(v)
    /\ HasFolder(p, v) => FolderOK(v)
    /\ HasSource(p, v) => SourceOK(v)

OnePurge == \A r, q \in Request :
    Purging(r) /\ Purging(q) /\ loc[r].id = loc[q].id => r = q

PurgedForGood == \A i \in FileId :
    <<"purge", i>> \in audit => i \in issued \ DOMAIN files

TreeInv ==
    DOMAIN folders \subseteq issued /\ Rooted /\ FilesOnFolderDisk /\ SiblingsDiffer

(* What every step preserves, next to IndInv.                               *)
RequestInv ==
    /\ \A r \in Request : RequestAt(pc[r], loc[r])
    /\ OnePurge /\ PurgedForGood /\ TreeInv

(***************************************************************************)
(* What no step does to tables and ids.                                    *)
(***************************************************************************)
(* Rows keep what requests rely on, and an id that was handed out does not  *)
(* come back once its row is gone.                                          *)
Frame ==
    /\ issued \subseteq issued'
    /\ RowsKept
    /\ \A i \in issued \ DOMAIN files : i \notin DOMAIN files'
    /\ \A f \in DOMAIN folders \cap DOMAIN folders' :
         folders'[f].mount = folders[f].mount /\ folders'[f].parent = folders[f].parent
    /\ \A f \in issued \ DOMAIN folders : f \notin DOMAIN folders'

(* The statements on the files table change no folder.                      *)
LEMMA FileStatementFrame ==
    ASSUME IndInv, NEW r \in Request,
           \/ SoftDeleteFile(r) \/ RestoreFile(r) \/ RenameFile(r) \/ MoveFile(r)
           \/ InsertFile(r) \/ DeleteFilePermanently(r)
    PROVE  Frame
<1>1. folders' = folders /\ issued \subseteq issued'
    BY DEF SoftDeleteFile, RestoreFile, RenameFile, MoveFile, InsertFile,
        DeleteFilePermanently, SetFile, NoRow, world
<1>2. RowsKept
    BY UpdateKeepsRows, InsertDeleteKeepsRows
<1>3. \A i \in issued \ DOMAIN files : i \notin DOMAIN files'
  <2>1. CASE SoftDeleteFile(r) \/ RestoreFile(r) \/ RenameFile(r) \/ MoveFile(r)
      BY <2>1 DEF SoftDeleteFile, RestoreFile, RenameFile, MoveFile, SetFile, NoRow, world
  <2>2. CASE InsertFile(r)
      BY <2>2 DEF InsertFile, Put
  <2>3. CASE DeleteFilePermanently(r)
      BY <2>3 DEF DeleteFilePermanently, Drop, NoRow, world
  <2>. QED BY <2>1, <2>2, <2>3
<1>. QED BY <1>1, <1>2, <1>3 DEF Frame

(* The statements on the folders table set folder_id in files, at most.     *)
LEMMA FolderStatementFrame ==
    ASSUME IndInv, NEW r \in Request, DOMAIN folders \subseteq issued,
           InsertFolder(r) \/ RenameFolder(r) \/ DeleteFolder(r)
    PROVE  Frame
<1>1. \A f \in DOMAIN folders : folders[f] \in FolderRow
    BY DEF IndInv, TypeOK, TablesOK
<1>2. CASE InsertFolder(r)
  <2>1. PICK f \in FolderId \ issued :
          /\ folders' = Put(folders, f, [parent |-> loc[r].dir,
                              mount |-> loc[r].mount, name |-> loc[r].name])
          /\ issued' = issued \cup {f}
      BY <1>2 DEF InsertFolder
  <2>2. files' = files
      BY <1>2 DEF InsertFolder
  <2>3. \A g \in DOMAIN folders : folders'[g] = folders[g]
      BY <2>1 DEF Put
  <2>4. DOMAIN folders' = DOMAIN folders \cup {f}
      BY <2>1 DEF Put
  <2>. QED BY <2>1, <2>2, <2>3, <2>4 DEF Frame, RowsKept
<1>3. CASE RenameFolder(r)
  <2>1. files' = files /\ issued' = issued
      BY <1>3 DEF RenameFolder, NoRow, world
  <2>2. \/ folders' = folders
        \/ folders' = [folders EXCEPT ![loc[r].id].name = loc[r].name]
      BY <1>3 DEF RenameFolder, NoRow, world
  <2>3. DOMAIN folders' = DOMAIN folders
      BY <2>2
  <2>4. \A f \in DOMAIN folders :
          folders'[f].mount = folders[f].mount /\ folders'[f].parent = folders[f].parent
      BY <1>1, <2>2 DEF FolderRow
  <2>. QED BY <2>1, <2>3, <2>4 DEF Frame, RowsKept
<1>4. CASE DeleteFolder(r)
  <2>1. RowsKept
      BY <1>4, InsertDeleteKeepsRows
  <2>2. issued' = issued /\ DOMAIN files' = DOMAIN files
      BY <1>4 DEF DeleteFolder, NoRow, world
  <2>3. /\ DOMAIN folders' \subseteq DOMAIN folders
        /\ \A f \in DOMAIN folders' : folders'[f] = folders[f]
      BY <1>4 DEF DeleteFolder, NoRow, Drop, world
  <2>. QED BY <2>1, <2>2, <2>3 DEF Frame
<1>. QED BY <1>2, <1>3, <1>4

(* All other steps leave both tables alone.                                 *)
LEMMA OtherStepsKeepTables ==
    ASSUME NEW r \in Request,
           \/ Begin(r) \/ FindFolder(r) \/ FindFile(r) \/ FindTrashedFile(r)
           \/ Open(r) \/ OpenFails(r) \/ CreateObject(r) \/ WriteObject(r)
           \/ SaveFails(r) \/ FindActiveByChecksum(r) \/ Dedupe(r)
           \/ CheckFolder(r) \/ InsertFileRefused(r) \/ UndoSave(r)
           \/ FolderExists(r) \/ RemoveObject(r) \/ Audit(r) \/ CheckParent(r)
           \/ InsertFolderRefused(r) \/ CountContents(r) \/ StatementFails(r) \/ Answered(r)
    PROVE  files' = files /\ folders' = folders /\ issued \subseteq issued'
<1>1. files' = files
    BY OtherStepsKeepFiles
<1>2. CASE Begin(r)
    BY <1>1, <1>2 DEF Begin, BeginUpload, BeginCopy, BeginMove, BeginRename,
        BeginDownload, BeginDelete, BeginRestore, BeginPurge, BeginOnFile,
        BeginCreateFolder, BeginRenameFolder, BeginDeleteFolder, Arrives, world
<1>3. CASE FindFolder(r) \/ FindFile(r) \/ FindTrashedFile(r) \/ Open(r) \/ OpenFails(r)
    BY <1>1, <1>3 DEF FindFolder, FolderMissing, UploadIntoFolder, MoveIntoFolder,
        CreateUnderParent, FindFile, FindTrashedFile, Open, OpenFails, world
<1>4. CASE \/ CreateObject(r) \/ WriteObject(r) \/ SaveFails(r) \/ Dedupe(r)
           \/ UndoSave(r) \/ RemoveObject(r)
    BY <1>1, <1>4 DEF CreateObject, WriteObject, SaveFails, Dedupe, UndoSave,
        RemoveObject, Discard, Removed, NotRemoved, world
<1>5. CASE \/ FindActiveByChecksum(r) \/ CheckFolder(r) \/ InsertFileRefused(r)
           \/ FolderExists(r) \/ Audit(r) \/ CheckParent(r) \/ Answered(r)
    BY <1>1, <1>5 DEF FindActiveByChecksum, CheckFolder, InsertFileRefused,
        FolderExists, Audit, CheckParent, Answered, world
<1>6. CASE InsertFolderRefused(r) \/ CountContents(r) \/ StatementFails(r)
    BY <1>1, <1>6 DEF InsertFolderRefused, CountContents, StatementFails, world
<1>. QED BY <1>2, <1>3, <1>4, <1>5, <1>6

(* So every step keeps the frame.                                           *)
LEMMA FrameStep ==
    ASSUME IndInv, DOMAIN folders \subseteq issued, Next
    PROVE  Frame
<1>1. CASE files' = files /\ folders' = folders /\ issued \subseteq issued'
    BY <1>1 DEF Frame, RowsKept
<1>2. CASE Restart
    BY <1>1, <1>2 DEF Restart
<1>. QED BY <1>1, <1>2, FileStatementFrame, FolderStatementFrame, OtherStepsKeepTables
         DEF Next, Step

(***************************************************************************)
(* Where a step takes a request.                                           *)
(***************************************************************************)
(* Request r may be where it arrives, and purges what it purged before or   *)
(* what had a row until now; the other requests stay where they are.        *)
Lands(r) ==
    /\ \A q \in Request \ {r} : pc'[q] = pc[q] /\ loc'[q] = loc[q]
    /\ RequestAt(pc[r], loc[r])'
    /\ Purging(r)' => \/ Purging(r) /\ loc'[r].id = loc[r].id
                      \/ loc'[r].id \in DOMAIN files

(* A request at label p that relies on nothing in the tables.               *)
Bare(p, v) ==
    /\ PathOK(p, v.op)
    /\ ~HasAnswer(p, v) /\ ~HasPurged(p, v) /\ ~HasFolder(p, v) /\ ~HasSource(p, v)

(* Become, of any locals.                                                   *)
LEMMA BecomeAny ==
    ASSUME TypeOK, NEW r \in Request, NEW rec, NEW label, Become(r, rec, label)
    PROVE  /\ pc'[r] = label /\ loc'[r] = rec
           /\ \A q \in Request \ {r} : pc'[q] = pc[q] /\ loc'[q] = loc[q]
BY DEF TypeOK, Become

(* A request may always go where it relies on nothing.                      *)
LEMMA BareLands ==
    ASSUME TypeOK, NEW r \in Request, NEW rec, NEW label, Become(r, rec, label),
           Bare(label, rec)
    PROVE  Lands(r)
<1>1. /\ pc'[r] = label /\ loc'[r] = rec
      /\ \A q \in Request \ {r} : pc'[q] = pc[q] /\ loc'[q] = loc[q]
    BY BecomeAny
<1>2. Bare(pc'[r], loc'[r])
    BY <1>1
<1>3. RequestAt(pc[r], loc[r])'
    BY <1>2 DEF Bare, RequestAt, HasAnswer, HasPurged, HasFolder, HasSource, PathOK
<1>4. ~Purging(r)'
    BY <1>2 DEF Bare, HasPurged, Purging
<1>. QED BY <1>1, <1>3, <1>4 DEF Lands

(* So it may always answer, but for an upload or a purge that succeeded.    *)
LEMMA ReplyLands ==
    ASSUME TypeOK, NEW r \in Request, NEW rec \in Local, NEW s, Reply(r, rec, s),
           ~(rec.op = "upload" /\ s = 201), ~(rec.op = "purge" /\ s = 204)
    PROVE  Lands(r)
<1>. DEFINE v == [rec EXCEPT !.status = s]
<1>1. Become(r, v, "reply")
    BY DEF Reply
<1>2. v.op = rec.op /\ v.status = s
    BY DEF Local
<1>. HIDE DEF v
<1>3. Bare("reply", v)
    BY <1>2 DEF Bare, PathOK, HasAnswer, HasPurged, HasFolder, HasSource
<1>. QED BY <1>1, <1>3, BareLands

(* A plain failure.                                                         *)
LEMMA FailLands ==
    ASSUME IndInv, NEW r \in Request, Fail(r), pc[r] # "idle"
    PROVE  Lands(r)
<1>1. loc[r] \in Local /\ loc[r].op \in Operations
    BY DEF IndInv, TypeOK, At, LocalsAt
<1>2. FailStatus[loc[r].op] \in {400, 404}
    BY <1>1, StatusOK
<1>3. PICK rec \in Local : rec = loc[r]
    BY <1>1
<1>4. PICK s \in {400, 404} : s = FailStatus[loc[r].op]
    BY <1>2
<1>5. Reply(r, rec, s)
    BY <1>3, <1>4 DEF Fail
<1>. QED BY <1>4, <1>5, ReplyLands DEF IndInv

(* Success, of an operation that neither uploads nor purges.                *)
LEMMA SucceedLands ==
    ASSUME IndInv, NEW r \in Request, Succeed(r), loc[r].op \notin {"upload", "purge"}
    PROVE  Lands(r)
<1>1. PICK rec \in Local : rec = loc[r]
    BY DEF IndInv, TypeOK
<1>2. PICK s : s = OkStatus[loc[r].op]
    OBVIOUS
<1>3. Reply(r, rec, s)
    BY <1>1, <1>2 DEF Succeed
<1>. QED BY <1>1, <1>3, ReplyLands DEF IndInv

(* Success, of an upload or a purge that relies on its row already.         *)
LEMMA DoneLands ==
    ASSUME IndInv, RequestInv, Frame, NEW r \in Request, Succeed(r),
           pc[r] = "audit" \/ pc[r] = "dedupe"
    PROVE  Lands(r)
<1>0. PICK v : v = [loc[r] EXCEPT !.status = OkStatus[loc[r].op]]
    OBVIOUS
<1>1. loc[r] \in Local /\ loc[r].op \in Operations /\ TypeOK
    BY DEF IndInv, TypeOK, At, LocalsAt
<1>2. Become(r, v, "reply")
    BY <1>0 DEF Succeed, Reply
<1>3. /\ v.op = loc[r].op /\ v.id = loc[r].id /\ v.mount = loc[r].mount
      /\ v.data = loc[r].data
    BY <1>0, <1>1 DEF Local
<1>4. /\ pc'[r] = "reply" /\ loc'[r] = v
      /\ \A q \in Request \ {r} : pc'[q] = pc[q] /\ loc'[q] = loc[q]
    BY <1>1, <1>2, BecomeAny
<1>5. /\ loc[r].op = "upload" => AnswerOK(loc[r])
      /\ loc[r].op = "purge" => PurgedOK(loc[r]) /\ Purging(r)
    BY DEF RequestInv, RequestAt, PathOK, HasAnswer, HasPurged, Purging
<1>6. loc[r].op = "upload" => AnswerOK(v)'
    BY <1>3, <1>5 DEF AnswerOK, Frame, RowsKept
<1>7. loc[r].op = "purge" => PurgedOK(v)'
    BY <1>3, <1>5 DEF PurgedOK, Frame
<1>8. RequestAt(pc[r], loc[r])'
    BY <1>3, <1>4, <1>6, <1>7 DEF RequestAt, PathOK, HasAnswer, HasPurged, HasFolder,
        HasSource, AnswerOK, PurgedOK
<1>. QED BY <1>3, <1>4, <1>5, <1>8 DEF Lands, Purging

(***************************************************************************)
(* One lemma for each kind of step.                                        *)
(***************************************************************************)
(* A request that arrives relies on nothing yet.                            *)
LEMMA BeginLands ==
    ASSUME IndInv, NEW r \in Request, Begin(r)
    PROVE  Lands(r)
<1>. USE DEF Bare, PathOK, HasAnswer, HasPurged, HasFolder, HasSource
<1>0. TypeOK
    BY DEF IndInv
<1>1. CASE BeginUpload(r)
  <2>1. PICK d \in KnownDirs, m \in Mount \cup {NoMount}, c \in Content,
             n \in Name \cup {BadName} :
          LET rec == [Blank EXCEPT !.op = "upload", !.dir = d, !.mount = m,
                                   !.data = c, !.name = n]
          IN  IF d = Root THEN SaveOn(r, rec) ELSE Become(r, rec, "findFolder")
      BY <1>1 DEF BeginUpload
  <2>. DEFINE rec == [Blank EXCEPT !.op = "upload", !.dir = d, !.mount = m,
                                   !.data = c, !.name = n]
  <2>2. PICK v : /\ v.op = "upload"
                 /\ \/ Become(r, v, "findFolder")
                    \/ Become(r, v, "create")
                    \/ Become(r, v, "reply") /\ v.status = 400
    <3>1. CASE d # Root
      <4>1. Become(r, rec, "findFolder") /\ rec.op = "upload"
          BY <2>1, <3>1 DEF Blank
      <4>. QED BY <4>1
    <3>2. CASE d = Root /\ Mounted(rec.mount)
      <4>. DEFINE w == [rec EXCEPT !.mount = Resolve(rec.mount)]
      <4>1. Become(r, w, "create") /\ w.op = "upload"
          BY <2>1, <3>2 DEF SaveOn, Blank
      <4>. QED BY <4>1
    <3>3. CASE d = Root /\ ~Mounted(rec.mount)
      <4>. DEFINE w == [rec EXCEPT !.status = 400]
      <4>1. Become(r, w, "reply") /\ w.op = "upload" /\ w.status = 400
          BY <2>1, <3>3 DEF SaveOn, Reply, Blank
      <4>. HIDE DEF w
      <4>. QED BY <4>1
    <3>. QED BY <3>1, <3>2, <3>3
  <2>. QED BY <1>0, <2>2, BareLands
<1>2. CASE BeginCopy(r) \/ BeginMove(r)
  <2>1. PICK v : \/ v.op \in {"copy", "move"} /\ Become(r, v, "findFile")
                 \/ v.op = "move" /\ v.dir = Root /\ Become(r, v, "moveRow")
    <3>1. CASE BeginCopy(r)
      <4>1. PICK i \in KnownFiles, d \in KnownDirs :
              Become(r, [Blank EXCEPT !.op = "copy", !.id = i, !.dir = d], "findFile")
          BY <3>1 DEF BeginCopy
      <4>. DEFINE w == [Blank EXCEPT !.op = "copy", !.id = i, !.dir = d]
      <4>2. w.op = "copy"
          BY DEF Blank
      <4>. QED BY <4>1, <4>2
    <3>2. CASE BeginMove(r)
      <4>1. PICK i \in KnownFiles, d \in KnownDirs :
              Become(r, [Blank EXCEPT !.op = "move", !.id = i, !.dir = d],
                     IF d = Root THEN "moveRow" ELSE "findFile")
          BY <3>2 DEF BeginMove
      <4>. DEFINE w == [Blank EXCEPT !.op = "move", !.id = i, !.dir = d]
      <4>2. w.op = "move" /\ w.dir = d
          BY DEF Blank
      <4>3. CASE d = Root
          BY <4>1, <4>2, <4>3
      <4>4. CASE d # Root
          BY <4>1, <4>2, <4>4
      <4>. QED BY <4>3, <4>4
    <3>. QED BY <1>2, <3>1, <3>2
  <2>. QED BY <1>0, <2>1, BareLands
<1>3. CASE BeginRename(r)
  <2>1. PICK i \in KnownFiles, n \in Name \cup {BadName} :
          LET rec == [Blank EXCEPT !.op = "rename", !.id = i, !.name = n]
          IN  IF n = BadName THEN Reply(r, rec, 404) ELSE Become(r, rec, "renameRow")
      BY <1>3 DEF BeginRename
  <2>. DEFINE rec == [Blank EXCEPT !.op = "rename", !.id = i, !.name = n]
              w == [rec EXCEPT !.status = 404]
  <2>2. rec.op = "rename" /\ w.op = "rename"
      BY DEF Blank
  <2>3. Become(r, w, "reply") \/ Become(r, rec, "renameRow")
      BY <2>1 DEF Reply
  <2>. HIDE DEF rec, w
  <2>. QED BY <1>0, <2>2, <2>3, BareLands
<1>4. CASE BeginDownload(r) \/ BeginDelete(r) \/ BeginRestore(r) \/ BeginPurge(r)
  <2>1. ASSUME NEW op, NEW label, BeginOnFile(r, op, label)
        PROVE  \E v : v.op = op /\ Become(r, v, label)
    <3>1. PICK i \in KnownFiles : Become(r, [Blank EXCEPT !.op = op, !.id = i], label)
        BY <2>1 DEF BeginOnFile
    <3>. DEFINE w == [Blank EXCEPT !.op = op, !.id = i]
    <3>2. w.op = op
        BY DEF Blank
    <3>. QED BY <3>1, <3>2
  <2>2. PICK v : \/ v.op = "download" /\ Become(r, v, "findFile")
                 \/ v.op = "delete" /\ Become(r, v, "softDelete")
                 \/ v.op = "restore" /\ Become(r, v, "restoreRow")
                 \/ v.op = "purge" /\ Become(r, v, "findTrashed")
      BY <1>4, <2>1 DEF BeginDownload, BeginDelete, BeginRestore, BeginPurge
  <2>. QED BY <1>0, <2>2, BareLands
<1>5. CASE BeginCreateFolder(r)
  <2>1. PICK d \in KnownDirs, m \in Mount \cup {NoMount}, n \in Name \cup {BadName} :
          LET rec == [Blank EXCEPT !.op = "createFolder", !.dir = d,
                                   !.mount = m, !.name = n]
          IN  CASE n = BadName -> Reply(r, rec, 400)
                [] n # BadName /\ d # Root -> Become(r, rec, "findFolder")
                [] n # BadName /\ d = Root -> MakeFolder(r, rec, "insertFolder")
      BY <1>5 DEF BeginCreateFolder
  <2>. DEFINE rec == [Blank EXCEPT !.op = "createFolder", !.dir = d,
                                   !.mount = m, !.name = n]
              w == [rec EXCEPT !.status = 400]
  <2>2. rec.op = "createFolder" /\ rec.dir = d /\ w.op = "createFolder"
      BY DEF Blank
  <2>3. \/ Become(r, w, "reply")
        \/ Become(r, rec, "findFolder")
        \/ d = Root /\ Become(r, rec, "insertFolder")
      BY <2>1 DEF Reply, MakeFolder
  <2>. HIDE DEF rec, w
  <2>. QED BY <1>0, <2>2, <2>3, BareLands
<1>6. CASE BeginRenameFolder(r)
  <2>1. PICK d \in KnownDirs \ {Root}, n \in Name \cup {BadName} :
          LET rec == [Blank EXCEPT !.op = "renameFolder", !.id = d, !.name = n]
          IN  IF n = BadName THEN Reply(r, rec, 400)
                             ELSE Become(r, rec, "renameFolderRow")
      BY <1>6 DEF BeginRenameFolder
  <2>. DEFINE rec == [Blank EXCEPT !.op = "renameFolder", !.id = d, !.name = n]
              w == [rec EXCEPT !.status = 400]
  <2>2. rec.op = "renameFolder" /\ w.op = "renameFolder"
      BY DEF Blank
  <2>3. Become(r, w, "reply") \/ Become(r, rec, "renameFolderRow")
      BY <2>1 DEF Reply
  <2>. HIDE DEF rec, w
  <2>. QED BY <1>0, <2>2, <2>3, BareLands
<1>7. CASE BeginDeleteFolder(r)
  <2>1. PICK d \in KnownDirs \ {Root} :
          Become(r, [Blank EXCEPT !.op = "deleteFolder", !.id = d], "count")
      BY <1>7 DEF BeginDeleteFolder
  <2>. DEFINE rec == [Blank EXCEPT !.op = "deleteFolder", !.id = d]
  <2>2. rec.op = "deleteFolder"
      BY DEF Blank
  <2>3. Become(r, rec, "count")
      BY <2>1
  <2>. HIDE DEF rec
  <2>. QED BY <1>0, <2>2, <2>3, BareLands
<1>. QED BY <1>1, <1>2, <1>3, <1>4, <1>5, <1>6, <1>7 DEF Begin

(* An upload past FindFolder or a new folder past it relies on no row; a    *)
(* move relies on the row of the folder, which is on its disk.              *)
LEMMA FindFolderLands ==
    ASSUME IndInv, RequestInv, Frame, NEW r \in Request, FindFolder(r)
    PROVE  Lands(r)
<1>1. pc[r] = "findFolder" /\ UNCHANGED world
    BY DEF FindFolder, FolderMissing, UploadIntoFolder, MoveIntoFolder, CreateUnderParent
<1>2. loc[r] \in Local /\ TypeOK
    BY DEF IndInv, TypeOK
<1>3. ASSUME loc[r].dir \in DOMAIN folders
      PROVE  folders[loc[r].dir].mount \in Mount \cup {NoMount}
    BY <1>3 DEF IndInv, TypeOK, TablesOK, FolderRow
<1>4. CASE FolderMissing(r)
    BY <1>1, <1>4, FailLands DEF FolderMissing
<1>5. CASE UploadIntoFolder(r)
  <2>1. PICK rec : rec = [loc[r] EXCEPT !.mount = folders[loc[r].dir].mount]
      OBVIOUS
  <2>2. rec \in Local /\ rec.op = "upload"
      BY <1>2, <1>3, <1>5, <2>1 DEF UploadIntoFolder, Local
  <2>3. SaveOn(r, rec)
      BY <1>5, <2>1 DEF UploadIntoFolder
  <2>4. CASE Mounted(rec.mount)
    <3>1. PICK v : v = [rec EXCEPT !.mount = Resolve(rec.mount)]
        OBVIOUS
    <3>2. Become(r, v, "create") /\ v.op = "upload"
        BY <2>2, <2>3, <2>4, <3>1 DEF SaveOn, Local
    <3>. QED BY <1>2, <3>2, BareLands
              DEF Bare, PathOK, HasAnswer, HasPurged, HasFolder, HasSource
  <2>5. CASE ~Mounted(rec.mount)
    <3>1. Reply(r, rec, 400)
        BY <2>3, <2>5 DEF SaveOn
    <3>. QED BY <1>2, <2>2, <3>1, ReplyLands
  <2>. QED BY <2>4, <2>5
<1>6. CASE MoveIntoFolder(r)
  <2>1. CASE folders[loc[r].dir].mount = loc[r].mount
    <3>1. /\ pc'[r] = "exists" /\ loc'[r] = loc[r]
          /\ \A q \in Request \ {r} : pc'[q] = pc[q] /\ loc'[q] = loc[q]
        BY <1>2, <1>6, <2>1, BecomeAny DEF MoveIntoFolder, Goto
    <3>2. loc[r].op = "move" /\ loc[r].dir \in DOMAIN folders /\ loc[r].dir # Root
        BY <1>6, RootAssumption DEF MoveIntoFolder, IndInv, TypeOK, TablesOK
    <3>3. FolderOK(loc[r])
        BY <2>1, <3>2 DEF FolderOK, RequestInv, TreeInv
    <3>4. SourceOK(loc[r])
        BY <1>1, <3>2 DEF RequestInv, RequestAt, HasSource
    <3>5. FolderOK(loc[r])' /\ SourceOK(loc[r])'
        BY <1>1, <3>1, <3>3, <3>4 DEF FolderOK, SourceOK, world
    <3>6. RequestAt(pc[r], loc[r])' /\ ~Purging(r)'
        BY <3>1, <3>2, <3>5 DEF RequestAt, PathOK, HasAnswer, HasPurged, Purging
    <3>. QED BY <3>1, <3>6 DEF Lands
  <2>2. CASE folders[loc[r].dir].mount # loc[r].mount
    <3>1. PICK rec \in Local : rec = loc[r]
        BY <1>2
    <3>2. Reply(r, rec, 400)
        BY <1>6, <2>2, <3>1 DEF MoveIntoFolder
    <3>. QED BY <1>2, <3>2, ReplyLands
  <2>. QED BY <2>1, <2>2
<1>7. CASE CreateUnderParent(r)
  <2>1. PICK rec : rec = [loc[r] EXCEPT !.mount = folders[loc[r].dir].mount]
      OBVIOUS
  <2>2. rec \in Local /\ rec.op = "createFolder"
      BY <1>2, <1>3, <1>7, <2>1 DEF CreateUnderParent, Local
  <2>3. MakeFolder(r, rec, "checkParent")
      BY <1>7, <2>1 DEF CreateUnderParent
  <2>4. CASE Become(r, rec, "checkParent")
      BY <1>2, <2>2, <2>4, BareLands
         DEF Bare, PathOK, HasAnswer, HasPurged, HasFolder, HasSource
  <2>5. CASE Reply(r, rec, 400)
      BY <1>2, <2>2, <2>5, ReplyLands
  <2>. QED BY <2>3, <2>4, <2>5 DEF MakeFolder
<1>. QED BY <1>4, <1>5, <1>6, <1>7 DEF FindFolder

(* A move relies on the row it found; a copy and a download on its object.  *)
LEMMA FindFileLands ==
    ASSUME IndInv, RequestInv, NEW r \in Request, FindFile(r)
    PROVE  Lands(r)
<1>1. pc[r] = "findFile" /\ UNCHANGED world
    BY DEF FindFile
<1>2. loc[r] \in Local /\ TypeOK
    BY DEF IndInv, TypeOK
<1>3. loc[r].op \in {"copy", "download", "move"}
    BY <1>1 DEF RequestInv, RequestAt, PathOK
<1>4. CASE ~IsActive(loc[r].id)
    BY <1>1, <1>4, FailLands DEF FindFile
<1>5. CASE IsActive(loc[r].id)
  <2>0. loc[r].id \in DOMAIN files /\ loc[r].id \in issued
      BY <1>5 DEF IsActive, IndInv, RowsIssued
  <2>1. PICK rec : rec = WithRow(loc[r], files[loc[r].id])
      OBVIOUS
  <2>2. /\ rec \in Local /\ rec.op = loc[r].op /\ rec.id = loc[r].id
        /\ rec.mount = files[loc[r].id].mount
      BY <1>2, <2>0, <2>1, WithRowOK
  <2>3. \/ rec.op = "move" /\ Become(r, rec, "findFolder")
        \/ rec.op # "move" /\ Become(r, rec, "open")
        \/ rec.op # "move" /\ Reply(r, rec, 404)
      BY <1>5, <2>1, <2>2 DEF FindFile
  <2>4. CASE rec.op = "move" /\ Become(r, rec, "findFolder")
    <3>1. /\ pc'[r] = "findFolder" /\ loc'[r] = rec
          /\ \A q \in Request \ {r} : pc'[q] = pc[q] /\ loc'[q] = loc[q]
        BY <1>2, <2>4, BecomeAny
    <3>2. SourceOK(loc[r])'
        BY <1>1, <2>0, <2>2, <3>1 DEF SourceOK, world
    <3>3. RequestAt(pc[r], loc[r])' /\ ~Purging(r)'
        BY <2>4, <3>1, <3>2 DEF RequestAt, PathOK, HasAnswer, HasPurged, HasFolder, Purging
    <3>. QED BY <3>1, <3>3 DEF Lands
  <2>5. CASE rec.op # "move" /\ Become(r, rec, "open")
      BY <1>2, <1>3, <2>2, <2>5, BareLands
         DEF Bare, PathOK, HasAnswer, HasPurged, HasFolder, HasSource
  <2>6. CASE Reply(r, rec, 404)
      BY <1>2, <2>2, <2>6, ReplyLands
  <2>. QED BY <2>3, <2>4, <2>5, <2>6
<1>. QED BY <1>4, <1>5

(* A purge that has found its row relies on nothing but the DELETE.         *)
LEMMA FindTrashedLands ==
    ASSUME IndInv, RequestInv, NEW r \in Request, FindTrashedFile(r)
    PROVE  Lands(r)
<1>1. pc[r] = "findTrashed" /\ loc[r] \in Local /\ TypeOK
    BY DEF FindTrashedFile, IndInv, TypeOK
<1>2. CASE ~IsTrashed(loc[r].id)
    BY <1>1, <1>2, FailLands DEF FindTrashedFile
<1>3. CASE IsTrashed(loc[r].id)
  <2>1. PICK rec : rec = WithRow(loc[r], files[loc[r].id])
      OBVIOUS
  <2>2. rec.op = loc[r].op
      BY <1>1, <1>3, <2>1, WithRowOK DEF IsTrashed
  <2>3. rec.op = "purge"
      BY <1>1, <2>2 DEF RequestInv, RequestAt, PathOK
  <2>4. Become(r, rec, "deleteRow")
      BY <1>3, <2>1 DEF FindTrashedFile
  <2>. QED BY <1>1, <2>3, <2>4, BareLands
            DEF Bare, PathOK, HasAnswer, HasPurged, HasFolder, HasSource
<1>. QED BY <1>2, <1>3

(* Open and the writing of the object.                                      *)
LEMMA SavingLands ==
    ASSUME IndInv, RequestInv, NEW r \in Request,
           Open(r) \/ OpenFails(r) \/ CreateObject(r) \/ WriteObject(r) \/ SaveFails(r)
    PROVE  Lands(r)
<1>. USE DEF Bare, PathOK, HasAnswer, HasPurged, HasFolder, HasSource
<1>1. loc[r] \in Local /\ TypeOK /\ PathOK(pc[r], loc[r].op)
    BY DEF IndInv, TypeOK, RequestInv, RequestAt
<1>2. CASE Fail(r) /\ pc[r] # "idle"
    BY <1>2, FailLands
<1>3. CASE Open(r) /\ ~Fail(r)
  <2>1. PICK v : v = [loc[r] EXCEPT !.data = disk[loc[r].mount][loc[r].src]]
      OBVIOUS
  <2>2. v.op = loc[r].op /\ loc[r].op \in {"copy", "download"}
      BY <1>1, <1>3, <2>1 DEF Open, Local
  <2>3. Become(r, v, IF loc[r].op = "copy" THEN "create" ELSE "audit")
      BY <1>3, <2>1 DEF Open
  <2>4. CASE v.op = "copy"
    <3>1. Become(r, v, "create")
        BY <2>2, <2>3, <2>4
    <3>. QED BY <1>1, <2>4, <3>1, BareLands
  <2>5. CASE v.op = "download"
    <3>1. Become(r, v, "audit")
        BY <2>2, <2>3, <2>5
    <3>. QED BY <1>1, <2>5, <3>1, BareLands DEF AuditActions
  <2>. QED BY <2>2, <2>4, <2>5
<1>4. CASE CreateObject(r)
  <2>1. PICK k \in Key : Become(r, [loc[r] EXCEPT !.key = k], "write")
      BY <1>4 DEF CreateObject
  <2>2. PICK v : v = [loc[r] EXCEPT !.key = k]
      OBVIOUS
  <2>3. v.op \in {"upload", "copy"}
      BY <1>1, <1>4, <2>2 DEF CreateObject, Local
  <2>. QED BY <1>1, <2>1, <2>2, <2>3, BareLands
<1>5. CASE WriteObject(r)
  <2>1. loc[r].op \in {"upload", "copy"}
      BY <1>1, <1>5 DEF WriteObject
  <2>2. CASE loc[r].op = "upload"
    <3>1. PICK v : v = [loc[r] EXCEPT !.sum = Checksum[loc[r].data]]
        OBVIOUS
    <3>2. v.op = "upload"
        BY <1>1, <2>2, <3>1 DEF Local
    <3>3. Become(r, v, "lookup")
        BY <1>5, <2>2, <3>1 DEF WriteObject
    <3>. QED BY <1>1, <3>2, <3>3, BareLands
  <2>3. CASE loc[r].op # "upload"
    <3>1. PICK v : v = loc[r]
        OBVIOUS
    <3>2. \/ v.dir = Root /\ Become(r, v, "insert")
          \/ Become(r, v, "check")
        BY <1>5, <2>3, <3>1 DEF WriteObject, Goto, CreateFileLabel
    <3>. QED BY <1>1, <2>1, <3>1, <3>2, BareLands
  <2>. QED BY <2>2, <2>3
<1>. QED BY <1>2, <1>3, <1>4, <1>5 DEF Open, OpenFails, SaveFails

(* Duplicate detection: the row it answers with was active, on the disk of  *)
(* the upload, and had its checksum.                                        *)
LEMMA LookupLands ==
    ASSUME IndInv, RequestInv, NEW r \in Request, FindActiveByChecksum(r)
    PROVE  Lands(r)
<1>1. pc[r] = "lookup" /\ UNCHANGED world /\ loc[r] \in Local /\ TypeOK
    BY DEF FindActiveByChecksum, IndInv, TypeOK
<1>2. loc[r].op = "upload" /\ loc[r].sum = Checksum[loc[r].data]
    BY <1>1 DEF RequestInv, RequestAt, PathOK, IndInv, At, BodyAt, HashedAt
<1>3. ASSUME NEW i \in SameContent(loc[r].mount, loc[r].sum),
             Become(r, [loc[r] EXCEPT !.id = i], "dedupe")
      PROVE  Lands(r)
  <2>1. PICK v : v = [loc[r] EXCEPT !.id = i]
      OBVIOUS
  <2>2. v.op = "upload" /\ v.id = i /\ v.mount = loc[r].mount /\ v.data = loc[r].data
      BY <1>1, <1>2, <2>1 DEF Local
  <2>3. /\ pc'[r] = "dedupe" /\ loc'[r] = v
        /\ \A q \in Request \ {r} : pc'[q] = pc[q] /\ loc'[q] = loc[q]
      BY <1>1, <1>3, <2>1, BecomeAny
  <2>4. AnswerOK(v)
      BY <1>2, <2>2 DEF AnswerOK, SameContent, IndInv, RowsIssued
  <2>5. AnswerOK(loc[r])'
      BY <1>1, <2>3, <2>4 DEF AnswerOK, world
  <2>6. RequestAt(pc[r], loc[r])' /\ ~Purging(r)'
      BY <2>2, <2>3, <2>5 DEF RequestAt, PathOK, HasPurged, HasFolder, HasSource, Purging
  <2>. QED BY <2>3, <2>6 DEF Lands
<1>4. CASE Goto(r, CreateFileLabel(r))
  <2>1. PICK v : v = loc[r]
      OBVIOUS
  <2>2. \/ v.dir = Root /\ Become(r, v, "insert")
        \/ Become(r, v, "check")
      BY <1>4, <2>1 DEF Goto, CreateFileLabel
  <2>. QED BY <1>1, <1>2, <2>1, <2>2, BareLands
            DEF Bare, PathOK, HasAnswer, HasPurged, HasFolder, HasSource
<1>. QED BY <1>3, <1>4 DEF FindActiveByChecksum

(* FolderExistsOnMount and FolderExists: from there on the request relies   *)
(* on the folder being gone or on its disk.                                 *)
LEMMA FolderCheckLands ==
    ASSUME IndInv, RequestInv, NEW r \in Request,
           CheckFolder(r) \/ CheckParent(r) \/ FolderExists(r)
    PROVE  Lands(r)
<1>1. /\ pc[r] \in {"check", "checkParent", "exists"} /\ UNCHANGED world /\ TypeOK
      /\ RequestAt(pc[r], loc[r])
    BY DEF CheckFolder, CheckParent, FolderExists, IndInv, RequestInv
<1>2. CASE Fail(r)
    BY <1>1, <1>2, FailLands
<1>3. CASE CheckFolder(r) /\ Goto(r, "undo")
  <2>1. PICK v : v = loc[r]
      OBVIOUS
  <2>2. Become(r, v, "undo") /\ v.op \in {"upload", "copy"}
      BY <1>1, <1>3, <2>1 DEF Goto, CheckFolder, RequestAt, PathOK
  <2>. QED BY <1>1, <2>2, BareLands
            DEF Bare, PathOK, HasAnswer, HasPurged, HasFolder, HasSource
<1>4. ASSUME NEW label \in {"insert", "insertFolder", "moveRow"}, Goto(r, label),
             label = "insert" => pc[r] = "check",
             label = "insertFolder" => pc[r] = "checkParent",
             label = "moveRow" => pc[r] = "exists",
             loc[r].dir \in DOMAIN folders,
             pc[r] # "exists" => folders[loc[r].dir].mount = loc[r].mount
      PROVE  Lands(r)
  <2>1. /\ pc'[r] = label /\ loc'[r] = loc[r]
        /\ \A q \in Request \ {r} : pc'[q] = pc[q] /\ loc'[q] = loc[q]
      BY <1>1, <1>4, BecomeAny DEF Goto
  <2>2. loc[r].dir # Root
      BY <1>1, <1>4, RootAssumption DEF TypeOK, TablesOK
  <2>3. FolderOK(loc[r])
      BY <1>1, <1>4, <2>2 DEF FolderOK, RequestInv, TreeInv, RequestAt, HasFolder
  <2>4. label = "moveRow" => SourceOK(loc[r])
      BY <1>1, <1>4, <2>2 DEF RequestAt, HasSource
  <2>5. FolderOK(loc[r])' /\ (label = "moveRow" => SourceOK(loc[r])')
      BY <1>1, <2>1, <2>3, <2>4 DEF FolderOK, SourceOK, world
  <2>6. PathOK(pc[r], loc[r].op)'
      BY <1>1, <1>4, <2>1 DEF RequestAt, PathOK
  <2>7. ~HasAnswer(pc[r], loc[r])' /\ ~HasPurged(pc[r], loc[r])' /\ ~Purging(r)'
      BY <1>4, <2>1 DEF HasAnswer, HasPurged, Purging
  <2>8. HasSource(pc[r], loc[r])' => SourceOK(loc[r])'
      BY <1>4, <2>1, <2>5 DEF HasSource
  <2>9. RequestAt(pc[r], loc[r])'
      BY <2>5, <2>6, <2>7, <2>8 DEF RequestAt
  <2>. QED BY <2>1, <2>7, <2>9 DEF Lands
<1>. QED BY <1>1, <1>2, <1>3, <1>4 DEF CheckFolder, CheckParent, FolderExists

(* The INSERT of a file: an upload answers with the new row.                *)
LEMMA InsertFileLands ==
    ASSUME IndInv, RequestInv, NEW r \in Request,
           InsertFile(r) \/ InsertFileRefused(r)
    PROVE  Lands(r)
<1>1. pc[r] = "insert" /\ loc[r] \in Local /\ TypeOK /\ loc[r].op \in {"upload", "copy"}
    BY DEF InsertFile, InsertFileRefused, IndInv, TypeOK, RequestInv, RequestAt, PathOK
<1>2. CASE InsertFileRefused(r)
  <2>1. PICK v : v = loc[r]
      OBVIOUS
  <2>2. Become(r, v, "undo")
      BY <1>2, <2>1 DEF InsertFileRefused, Goto
  <2>. QED BY <1>1, <2>1, <2>2, BareLands
            DEF Bare, PathOK, HasAnswer, HasPurged, HasFolder, HasSource
<1>3. CASE InsertFile(r)
  <2>1. PICK i \in FileId \ issued :
          /\ files' = Put(files, i, NewFile(loc[r]))
          /\ issued' = issued \cup {i}
          /\ IF loc[r].op = "upload"
             THEN Become(r, [loc[r] EXCEPT !.id = i], "audit")
             ELSE Reply(r, loc[r], 201)
      BY <1>3 DEF InsertFile
  <2>2. CASE loc[r].op = "upload"
    <3>1. PICK v : v = [loc[r] EXCEPT !.id = i]
        OBVIOUS
    <3>2. v.op = "upload" /\ v.id = i /\ v.mount = loc[r].mount /\ v.data = loc[r].data
        BY <1>1, <2>2, <3>1 DEF Local
    <3>3. /\ pc'[r] = "audit" /\ loc'[r] = v
          /\ \A q \in Request \ {r} : pc'[q] = pc[q] /\ loc'[q] = loc[q]
        BY <1>1, <2>1, <2>2, <3>1, BecomeAny
    <3>4. files'[i] = NewFile(loc[r]) /\ i \in issued'
        BY <2>1 DEF Put
    <3>5. loc[r].sum = Checksum[loc[r].data]
        BY <1>1 DEF IndInv, At, BodyAt, HashedAt
    <3>6. AnswerOK(loc[r])'
        BY <3>2, <3>3, <3>4, <3>5 DEF AnswerOK, NewFile
    <3>7. RequestAt(pc[r], loc[r])' /\ ~Purging(r)'
        BY <3>2, <3>3, <3>6 DEF RequestAt, PathOK, HasPurged, HasFolder, HasSource,
            Purging, AuditActions
    <3>. QED BY <3>3, <3>7 DEF Lands
  <2>3. CASE loc[r].op # "upload"
    <3>1. PICK rec \in Local : rec = loc[r]
        BY <1>1
    <3>2. Reply(r, rec, 201) /\ rec.op = "copy"
        BY <1>1, <2>1, <2>3, <3>1
    <3>. QED BY <1>1, <3>2, ReplyLands
  <2>. QED BY <2>2, <2>3
<1>. QED BY <1>2, <1>3

(* UPDATE statements on a row of files.                                     *)
LEMMA UpdateLands ==
    ASSUME IndInv, RequestInv, NEW r \in Request,
           SoftDeleteFile(r) \/ RestoreFile(r) \/ RenameFile(r) \/ MoveFile(r)
    PROVE  Lands(r)
<1>1. /\ pc[r] \in {"softDelete", "restoreRow", "renameRow", "moveRow"} /\ TypeOK
      /\ PathOK(pc[r], loc[r].op)
    BY DEF SoftDeleteFile, RestoreFile, RenameFile, MoveFile, IndInv, RequestInv, RequestAt
<1>2. CASE Fail(r)
    BY <1>1, <1>2, FailLands
<1>3. CASE (RenameFile(r) \/ MoveFile(r)) /\ Succeed(r)
  <2>1. loc[r].op \in {"rename", "move"}
      BY <1>1, <1>3 DEF RenameFile, MoveFile, PathOK
  <2>. QED BY <1>3, <2>1, SucceedLands
<1>4. CASE (SoftDeleteFile(r) \/ RestoreFile(r)) /\ Goto(r, "audit")
  <2>1. PICK v : v = loc[r]
      OBVIOUS
  <2>2. Become(r, v, "audit") /\ v.op \in {"delete", "restore"}
      BY <1>1, <1>4, <2>1 DEF Goto, SoftDeleteFile, RestoreFile, PathOK
  <2>. QED BY <1>1, <2>2, BareLands
            DEF Bare, PathOK, HasAnswer, HasPurged, HasFolder, HasSource, AuditActions
<1>. QED BY <1>1, <1>2, <1>3, <1>4
         DEF SoftDeleteFile, RestoreFile, RenameFile, MoveFile, NoRow

(* The DELETE of a file: the row was there until now.                       *)
LEMMA DeleteLands ==
    ASSUME IndInv, RequestInv, NEW r \in Request, DeleteFilePermanently(r)
    PROVE  Lands(r)
<1>1. pc[r] = "deleteRow" /\ TypeOK /\ loc[r].op = "purge"
    BY DEF DeleteFilePermanently, IndInv, RequestInv, RequestAt, PathOK
<1>2. CASE Fail(r)
    BY <1>1, <1>2, FailLands
<1>3. CASE ~Fail(r)
  <2>1. /\ IsTrashed(loc[r].id) /\ Goto(r, "remove")
        /\ files' = Drop(files, {loc[r].id}) /\ issued' = issued
      BY <1>3 DEF DeleteFilePermanently, NoRow
  <2>2. /\ pc'[r] = "remove" /\ loc'[r] = loc[r]
        /\ \A q \in Request \ {r} : pc'[q] = pc[q] /\ loc'[q] = loc[q]
      BY <1>1, <2>1, BecomeAny DEF Goto
  <2>3. loc[r].id \in DOMAIN files /\ loc[r].id \in issued
      BY <2>1 DEF IsTrashed, IndInv, RowsIssued
  <2>4. PurgedOK(loc[r])'
      BY <2>1, <2>2, <2>3 DEF PurgedOK, Drop
  <2>5. RequestAt(pc[r], loc[r])'
      BY <1>1, <2>2, <2>4 DEF RequestAt, PathOK, HasAnswer, HasFolder, HasSource
  <2>. QED BY <2>2, <2>3, <2>5 DEF Lands
<1>. QED BY <1>2, <1>3

(* The removal of the object of a purged row.                               *)
LEMMA RemoveLands ==
    ASSUME IndInv, RequestInv, Frame, NEW r \in Request, RemoveObject(r)
    PROVE  Lands(r)
<1>1. /\ pc[r] = "remove" /\ TypeOK /\ loc[r].op = "purge"
      /\ RequestAt(pc[r], loc[r])
    BY DEF RemoveObject, IndInv, RequestInv, RequestAt, PathOK
<1>2. CASE Fail(r)
    BY <1>1, <1>2, FailLands
<1>3. CASE Goto(r, "audit")
  <2>1. /\ pc'[r] = "audit" /\ loc'[r] = loc[r]
        /\ \A q \in Request \ {r} : pc'[q] = pc[q] /\ loc'[q] = loc[q]
      BY <1>1, <1>3, BecomeAny DEF Goto
  <2>2. PurgedOK(loc[r]) /\ Purging(r)
      BY <1>1 DEF RequestAt, HasPurged, Purging
  <2>3. PurgedOK(loc[r])'
      BY <2>1, <2>2 DEF PurgedOK, Frame
  <2>4. RequestAt(pc[r], loc[r])'
      BY <1>1, <2>1, <2>3 DEF RequestAt, PathOK, HasAnswer, HasFolder, HasSource,
          AuditActions
  <2>. QED BY <2>1, <2>2, <2>4 DEF Lands
<1>. QED BY <1>2, <1>3 DEF RemoveObject

(* Statements on folders.                                                   *)
LEMMA FolderLands ==
    ASSUME IndInv, RequestInv, NEW r \in Request,
           \/ InsertFolder(r) \/ InsertFolderRefused(r) \/ RenameFolder(r)
           \/ CountContents(r) \/ DeleteFolder(r)
    PROVE  Lands(r)
<1>1. /\ pc[r] \in {"insertFolder", "renameFolderRow", "count", "deleteFolderRow"}
      /\ TypeOK /\ loc[r].op \in {"createFolder", "renameFolder", "deleteFolder"}
      /\ pc[r] = "count" => loc[r].op = "deleteFolder"
    BY DEF InsertFolder, InsertFolderRefused, RenameFolder, CountContents, DeleteFolder,
        IndInv, RequestInv, RequestAt, PathOK
<1>2. CASE Fail(r)
    BY <1>1, <1>2, FailLands
<1>3. CASE Succeed(r)
    BY <1>1, <1>3, SucceedLands
<1>4. CASE Reply(r, loc[r], 409)
  <2>1. PICK rec \in Local : rec = loc[r]
      BY <1>1 DEF TypeOK
  <2>. QED BY <1>1, <1>4, <2>1, ReplyLands
<1>5. CASE pc[r] = "count" /\ Goto(r, "deleteFolderRow")
  <2>1. PICK v : v = loc[r]
      OBVIOUS
  <2>2. Become(r, v, "deleteFolderRow") /\ v.op = "deleteFolder"
      BY <1>1, <1>5, <2>1 DEF Goto
  <2>. QED BY <1>1, <2>2, BareLands
            DEF Bare, PathOK, HasAnswer, HasPurged, HasFolder, HasSource
<1>6. CASE InsertFolder(r)
    BY <1>3, <1>6 DEF InsertFolder
<1>7. CASE InsertFolderRefused(r)
    BY <1>4, <1>7 DEF InsertFolderRefused
<1>8. CASE RenameFolder(r)
    BY <1>2, <1>3, <1>8 DEF RenameFolder, NoRow
<1>9. CASE CountContents(r)
    BY <1>4, <1>5, <1>9 DEF CountContents
<1>10. CASE DeleteFolder(r)
    BY <1>2, <1>3, <1>10 DEF DeleteFolder, NoRow
<1>. QED BY <1>6, <1>7, <1>8, <1>9, <1>10

(* Answers, undoing, and statements that fail.                              *)
LEMMA EndLands ==
    ASSUME IndInv, RequestInv, Frame, NEW r \in Request,
           \/ Dedupe(r) \/ UndoSave(r) \/ Audit(r) \/ StatementFails(r) \/ Answered(r)
    PROVE  Lands(r)
<1>1. TypeOK /\ PathOK(pc[r], loc[r].op)
    BY DEF IndInv, RequestInv, RequestAt
<1>2. CASE (pc[r] = "dedupe" \/ pc[r] = "audit") /\ Succeed(r)
    BY <1>2, DoneLands
<1>3. CASE pc[r] # "idle" /\ Fail(r)
    BY <1>3, FailLands
<1>4. CASE Answered(r)
  <2>1. Become(r, Blank, "idle")
      BY <1>4 DEF Answered
  <2>. QED BY <1>1, <2>1, BareLands
            DEF Bare, PathOK, HasAnswer, HasPurged, HasFolder, HasSource
<1>5. CASE \/ pc[r] = "lookup" /\ Goto(r, CreateFileLabel(r))
           \/ pc[r] \in {"check", "insert"} /\ Goto(r, "undo")
  <2>1. PICK v : v = loc[r]
      OBVIOUS
  <2>2. /\ v.op \in {"upload", "copy"}
        /\ \/ v.dir = Root /\ Become(r, v, "insert")
           \/ Become(r, v, "check")
           \/ Become(r, v, "undo")
      BY <1>1, <1>5, <2>1 DEF Goto, CreateFileLabel, PathOK
  <2>. QED BY <1>1, <2>2, BareLands
            DEF Bare, PathOK, HasAnswer, HasPurged, HasFolder, HasSource
<1>6. CASE StatementFails(r)
    BY <1>2, <1>3, <1>5, <1>6 DEF StatementFails, SqlLabels
<1>. QED BY <1>2, <1>3, <1>4, <1>6 DEF Dedupe, UndoSave, Audit

(***************************************************************************)
(* The folder tree.                                                        *)
(***************************************************************************)
(* A set of folders that holds the root and what the listings of its        *)
(* members for disk m show.                                                 *)
Browsed(m, S) == Root \in S /\ \A g \in S : ListFolders(m, g) \subseteq S

(* A folder is below the root when every such set holds it.                 *)
LEMMA BelowIn ==
    ASSUME NEW m, NEW f \in Below(m), NEW S \in SUBSET (DOMAIN folders \cup {Root}),
           Browsed(m, S)
    PROVE  f \in S
BY DEF Below, Browsed

(* The same after a step.                                                   *)
LEMMA BelowAfter ==
    ASSUME NEW m, NEW f \in DOMAIN folders' \cup {Root},
           \A S \in SUBSET (DOMAIN folders' \cup {Root}) : Browsed(m, S)' => f \in S
    PROVE  f \in Below(m)'
BY DEF Below, Browsed

(* ON DELETE CASCADE takes the children of what it deletes along.           *)
LEMMA SubtreeClosed ==
    ASSUME NEW d, NEW g \in Subtree(d)
    PROVE  Children(g) \subseteq Subtree(d)
<1>1. SUFFICES ASSUME NEW c \in Children(g) PROVE c \in Subtree(d)
    OBVIOUS
<1>2. c \in DOMAIN folders
    BY DEF Children
<1>3. SUFFICES ASSUME NEW S \in SUBSET DOMAIN folders, d \in S,
                      \A h \in S : Children(h) \subseteq S
               PROVE  c \in S
    BY <1>2 DEF Subtree
<1>4. g \in S
    BY <1>3 DEF Subtree
<1>. QED BY <1>3, <1>4

(* A new folder hangs below its parent, on the same disk, and no sibling    *)
(* has its name.                                                            *)
LEMMA InsertFolderTree ==
    ASSUME IndInv, RequestInv, NEW r \in Request, InsertFolder(r)
    PROVE  Rooted' /\ SiblingsDiffer' /\ FilesOnFolderDisk'
<1>1. PICK f0 \in FolderId \ issued :
        folders' = Put(folders, f0, [parent |-> loc[r].dir,
                          mount |-> loc[r].mount, name |-> loc[r].name])
    BY DEF InsertFolder
<1>2. /\ pc[r] = "insertFolder" /\ DirExists(loc[r].dir) /\ files' = files
      /\ ~NameTaken(Nil, loc[r].dir, loc[r].mount, loc[r].name)
    BY DEF InsertFolder
<1>3. DOMAIN folders \subseteq issued /\ DOMAIN folders \subseteq FolderId
    BY DEF RequestInv, TreeInv, IndInv, TypeOK, TablesOK
<1>4. f0 \notin DOMAIN folders /\ DOMAIN folders' = DOMAIN folders \cup {f0}
    BY <1>1, <1>3 DEF Put
<1>5. \A f \in DOMAIN folders : folders'[f] = folders[f]
    BY <1>1, <1>4 DEF Put
<1>6. /\ folders'[f0].parent = loc[r].dir /\ folders'[f0].mount = loc[r].mount
      /\ folders'[f0].name = loc[r].name
    BY <1>1 DEF Put
<1>7. loc[r].dir # Root => /\ loc[r].dir \in DOMAIN folders
                           /\ folders[loc[r].dir].mount = loc[r].mount
    BY <1>2 DEF DirExists, RequestInv, RequestAt, HasFolder, FolderOK
<1>8. Rooted /\ SiblingsDiffer /\ FilesOnFolderDisk
    BY DEF RequestInv, TreeInv
<1>9. FilesOnFolderDisk'
    BY <1>2, <1>4, <1>5, <1>8 DEF FilesOnFolderDisk
<1>10. SiblingsDiffer'
  <2>1. \A g \in DOMAIN folders :
          (folders[g].parent = loc[r].dir /\ folders[g].mount = loc[r].mount)
             => folders[g].name # loc[r].name
      BY <1>2, <1>3, NilAssumption DEF NameTaken
  <2>. QED BY <1>4, <1>5, <1>6, <1>8, <2>1 DEF SiblingsDiffer
<1>11. Rooted'
  <2>1. \A f \in DOMAIN folders' : folders'[f].parent # Root =>
          /\ folders'[f].parent \in DOMAIN folders'
          /\ folders'[folders'[f].parent].mount = folders'[f].mount
      BY <1>4, <1>5, <1>6, <1>7, <1>8 DEF Rooted
  <2>2. ASSUME NEW m, NEW S \in SUBSET (DOMAIN folders' \cup {Root}), Browsed(m, S)'
        PROVE  \A d \in Below(m) : d \in S
    <3>1. PICK T : T = S \cap (DOMAIN folders \cup {Root})
        OBVIOUS
    <3>2. \A g : ListFolders(m, g) \subseteq ListFolders(m, g)'
        BY <1>4, <1>5 DEF ListFolders, Children
    <3>3. \A g : ListFolders(m, g) \subseteq DOMAIN folders
        BY DEF ListFolders, Children
    <3>4. Browsed(m, T)
        BY <2>2, <3>1, <3>2, <3>3 DEF Browsed
    <3>. QED BY <3>1, <3>4, BelowIn
  <2>3. ASSUME NEW f \in DOMAIN folders PROVE f \in Below(folders[f].mount)'
    <3>1. PICK m : m = folders[f].mount
        OBVIOUS
    <3>2. f \in Below(m)
        BY <1>8, <3>1 DEF Rooted
    <3>3. f \in Below(m)'
        BY <1>4, <2>2, <3>2, BelowAfter
    <3>4. folders'[f].mount = m
        BY <1>5, <3>1
    <3>. QED BY <3>3, <3>4 DEF Below
  <2>4. f0 \in Below(folders[f0].mount)'
    <3>1. PICK m : m = folders'[f0].mount
        OBVIOUS
    <3>2. PICK d : d = loc[r].dir
        OBVIOUS
    <3>3. ASSUME NEW S \in SUBSET (DOMAIN folders' \cup {Root}), Browsed(m, S)'
          PROVE  f0 \in S
      <4>1. d = Root \/ d \in Below(m)
          BY <1>6, <1>7, <1>8, <3>1, <3>2 DEF Rooted
      <4>2. d \in S
          BY <2>2, <3>3, <4>1 DEF Browsed
      <4>3. f0 \in ListFolders(m, d)'
          BY <1>4, <1>6, <3>1, <3>2 DEF ListFolders, Children
      <4>. QED BY <3>3, <4>2, <4>3 DEF Browsed
    <3>4. f0 \in Below(m)'
        BY <1>4, <3>3, BelowAfter
    <3>. QED BY <3>1, <3>4 DEF Below
  <2>. QED BY <1>4, <2>1, <2>3, <2>4 DEF Rooted
<1>. QED BY <1>9, <1>10, <1>11

(* A renamed folder stays where it is, and no sibling has its new name.     *)
LEMMA RenameFolderTree ==
    ASSUME IndInv, RequestInv, NEW r \in Request, RenameFolder(r)
    PROVE  Rooted' /\ SiblingsDiffer' /\ FilesOnFolderDisk'
<1>1. Rooted /\ SiblingsDiffer /\ FilesOnFolderDisk
    BY DEF RequestInv, TreeInv
<1>2. \A f \in DOMAIN folders : folders[f] \in FolderRow
    BY DEF IndInv, TypeOK, TablesOK
<1>3. files' = files
    BY DEF RenameFolder, NoRow, world
<1>4. \/ folders' = folders
      \/ folders' = [folders EXCEPT ![loc[r].id].name = loc[r].name]
    BY DEF RenameFolder, NoRow, world
<1>5. /\ DOMAIN folders' = DOMAIN folders
      /\ \A f \in DOMAIN folders : /\ folders'[f].parent = folders[f].parent
                                   /\ folders'[f].mount = folders[f].mount
    BY <1>2, <1>4 DEF FolderRow
<1>6. \A m, g : ListFolders(m, g)' = ListFolders(m, g)
    BY <1>5 DEF ListFolders, Children
<1>7. \A m : Below(m)' = Below(m)
    BY <1>5, <1>6 DEF Below
<1>8. Rooted'
    BY <1>1, <1>5, <1>7 DEF Rooted
<1>9. FilesOnFolderDisk'
    BY <1>1, <1>3, <1>5 DEF FilesOnFolderDisk
<1>10. SiblingsDiffer'
  <2>1. CASE folders' = folders
      BY <1>1, <2>1 DEF SiblingsDiffer
  <2>2. CASE folders' # folders
    <3>1. PICK d : d = loc[r].id
        OBVIOUS
    <3>2. /\ d \in DOMAIN folders
          /\ ~NameTaken(d, folders[d].parent, folders[d].mount, loc[r].name)
          /\ folders' = [folders EXCEPT ![d].name = loc[r].name]
        BY <2>2, <3>1 DEF RenameFolder, NoRow, world
    <3>3. folders'[d].name = loc[r].name
        BY <1>2, <3>2 DEF FolderRow
    <3>4. \A f \in DOMAIN folders \ {d} : folders'[f] = folders[f]
        BY <3>2
    <3>5. \A g \in DOMAIN folders \ {d} :
            (folders[g].parent = folders[d].parent /\ folders[g].mount = folders[d].mount)
               => folders[g].name # loc[r].name
        BY <3>2 DEF NameTaken
    <3>. QED BY <1>1, <1>5, <3>3, <3>4, <3>5 DEF SiblingsDiffer
  <2>. QED BY <2>1, <2>2
<1>. QED BY <1>8, <1>9, <1>10

(* What a DELETE with its cascade leaves still hangs together.              *)
LEMMA DeleteFolderTree ==
    ASSUME IndInv, RequestInv, NEW r \in Request, DeleteFolder(r)
    PROVE  Rooted' /\ SiblingsDiffer' /\ FilesOnFolderDisk'
<1>1. Rooted /\ SiblingsDiffer /\ FilesOnFolderDisk
    BY DEF RequestInv, TreeInv
<1>2. \A i \in DOMAIN files : files[i] \in FileRow
    BY DEF IndInv, TypeOK, TablesOK
<1>3. CASE folders' = folders /\ files' = files
    BY <1>1, <1>3 DEF Rooted, SiblingsDiffer, FilesOnFolderDisk, Below,
        ListFolders, Children
<1>4. CASE ~(folders' = folders /\ files' = files)
  <2>1. PICK gone : gone = Subtree(loc[r].id)
      OBVIOUS
  <2>2. /\ folders' = Drop(folders, gone)
        /\ files' = [i \in DOMAIN files |->
              IF files[i].dir \in gone THEN [files[i] EXCEPT !.dir = Root] ELSE files[i]]
      BY <1>4, <2>1 DEF DeleteFolder, NoRow, world
  <2>3. \A g \in gone : Children(g) \subseteq gone
      BY <2>1, SubtreeClosed
  <2>4. gone \subseteq DOMAIN folders
      BY <2>1 DEF Subtree
  <2>5. /\ DOMAIN folders' = DOMAIN folders \ gone
        /\ \A f \in DOMAIN folders' : folders'[f] = folders[f]
      BY <2>2 DEF Drop
  <2>6. SiblingsDiffer'
      BY <1>1, <2>5 DEF SiblingsDiffer
  <2>7. FilesOnFolderDisk'
    <3>1. SUFFICES ASSUME NEW i \in DOMAIN files', files'[i].dir # Root
                   PROVE  /\ files'[i].dir \in DOMAIN folders'
                          /\ folders'[files'[i].dir].mount = files'[i].mount
        BY DEF FilesOnFolderDisk
    <3>2. i \in DOMAIN files
        BY <2>2
    <3>3. files[i].dir \notin gone
        BY <1>2, <2>2, <3>1, <3>2 DEF FileRow
    <3>4. files'[i] = files[i]
        BY <2>2, <3>2, <3>3
    <3>. QED BY <1>1, <2>5, <3>1, <3>2, <3>3, <3>4 DEF FilesOnFolderDisk
  <2>8. Rooted'
    <3>1. SUFFICES ASSUME NEW f \in DOMAIN folders'
                   PROVE  /\ folders'[f].parent # Root =>
                               /\ folders'[f].parent \in DOMAIN folders'
                               /\ folders'[folders'[f].parent].mount = folders'[f].mount
                          /\ f \in Below(folders[f].mount)'
        BY DEF Rooted
    <3>2. f \in DOMAIN folders /\ f \notin gone /\ folders'[f] = folders[f]
        BY <2>5
    <3>3. folders[f].parent \notin gone
        BY <2>3, <3>2 DEF Children
    <3>4. PICK m : m = folders[f].mount
        OBVIOUS
    <3>5. f \in Below(m)
        BY <1>1, <3>2, <3>4 DEF Rooted
    <3>6. ASSUME NEW S \in SUBSET (DOMAIN folders' \cup {Root}), Browsed(m, S)'
          PROVE  f \in S
      <4>1. PICK T : T = S \cup gone
          OBVIOUS
      <4>2. T \in SUBSET (DOMAIN folders \cup {Root})
          BY <2>4, <2>5, <4>1
      <4>3. \A g : ListFolders(m, g) \subseteq ListFolders(m, g)' \cup gone
          BY <2>5 DEF ListFolders, Children
      <4>4. \A g : ListFolders(m, g) \subseteq Children(g)
          BY DEF ListFolders
      <4>5. Browsed(m, T)
          BY <2>3, <3>6, <4>1, <4>3, <4>4 DEF Browsed
      <4>6. f \in T
          BY <3>5, <4>2, <4>5, BelowIn
      <4>. QED BY <3>2, <4>1, <4>6
    <3>7. f \in Below(m)'
        BY <3>6, BelowAfter
    <3>8. f \in Below(folders[f].mount)'
        BY <3>2, <3>4, <3>7 DEF Below
    <3>. QED BY <1>1, <2>5, <3>2, <3>3, <3>8 DEF Rooted
  <2>. QED BY <2>6, <2>7, <2>8
<1>. QED BY <1>3, <1>4

(* Statements on files put a file in no folder, or in one of its disk.      *)
LEMMA FileStatementTree ==
    ASSUME IndInv, RequestInv, NEW r \in Request,
           \/ SoftDeleteFile(r) \/ RestoreFile(r) \/ RenameFile(r) \/ MoveFile(r)
           \/ InsertFile(r) \/ DeleteFilePermanently(r)
    PROVE  folders' = folders /\ FilesOnFolderDisk'
<1>1. folders' = folders
    BY DEF SoftDeleteFile, RestoreFile, RenameFile, MoveFile, InsertFile,
        DeleteFilePermanently, SetFile, NoRow, world
<1>2. FilesOnFolderDisk /\ RequestAt(pc[r], loc[r])
    BY DEF RequestInv, TreeInv
<1>3. \A i \in DOMAIN files : files[i] \in FileRow
    BY DEF IndInv, TypeOK, TablesOK
<1>4. CASE files' = files
    BY <1>1, <1>2, <1>4 DEF FilesOnFolderDisk
<1>5. CASE /\ SoftDeleteFile(r) \/ RestoreFile(r) \/ RenameFile(r)
           /\ files' # files
  <2>1. PICK i : i = loc[r].id
      OBVIOUS
  <2>2. /\ i \in DOMAIN files
        /\ \/ files' = [files EXCEPT ![i] = [files[i] EXCEPT !.trashed = TRUE]]
           \/ files' = [files EXCEPT ![i] = [files[i] EXCEPT !.trashed = FALSE]]
           \/ files' = [files EXCEPT ![i] = [files[i] EXCEPT !.name = loc[r].name]]
      BY <1>5, <2>1 DEF SoftDeleteFile, RestoreFile, RenameFile, SetFile, NoRow, world,
          IsActive, IsTrashed
  <2>3. /\ DOMAIN files' = DOMAIN files
        /\ \A j \in DOMAIN files : /\ files'[j].dir = files[j].dir
                                   /\ files'[j].mount = files[j].mount
      BY <1>3, <2>2 DEF FileRow
  <2>. QED BY <1>1, <1>2, <2>3 DEF FilesOnFolderDisk
<1>6. CASE MoveFile(r) /\ files' # files
  <2>1. PICK i : i = loc[r].id
      OBVIOUS
  <2>2. /\ pc[r] = "moveRow" /\ i \in DOMAIN files /\ DirExists(loc[r].dir)
        /\ files' = [files EXCEPT ![i] = [files[i] EXCEPT !.dir = loc[r].dir]]
      BY <1>6, <2>1 DEF MoveFile, SetFile, NoRow, world, IsActive
  <2>3. loc[r].dir # Root =>
          /\ loc[r].dir \in DOMAIN folders
          /\ folders[loc[r].dir].mount = files[i].mount
      BY <1>2, <2>1, <2>2 DEF DirExists, RequestAt, HasFolder, HasSource, FolderOK, SourceOK
  <2>4. files'[i].dir = loc[r].dir /\ files'[i].mount = files[i].mount
      BY <1>3, <2>2 DEF FileRow
  <2>5. DOMAIN files' = DOMAIN files /\ \A j \in DOMAIN files \ {i} : files'[j] = files[j]
      BY <2>2
  <2>. QED BY <1>1, <1>2, <2>3, <2>4, <2>5 DEF FilesOnFolderDisk
<1>7. CASE InsertFile(r)
  <2>1. PICK i \in FileId \ issued : files' = Put(files, i, NewFile(loc[r]))
      BY <1>7 DEF InsertFile
  <2>2. loc[r].dir # Root =>
          /\ loc[r].dir \in DOMAIN folders
          /\ folders[loc[r].dir].mount = loc[r].mount
      BY <1>2, <1>7 DEF InsertFile, DirExists, RequestAt, HasFolder, FolderOK
  <2>3. /\ DOMAIN files' = DOMAIN files \cup {i}
        /\ files'[i].dir = loc[r].dir /\ files'[i].mount = loc[r].mount
        /\ \A j \in DOMAIN files \ {i} : files'[j] = files[j]
      BY <2>1 DEF Put, NewFile
  <2>. QED BY <1>1, <1>2, <2>2, <2>3 DEF FilesOnFolderDisk
<1>8. CASE DeleteFilePermanently(r) /\ files' # files
  <2>1. files' = Drop(files, {loc[r].id})
      BY <1>8 DEF DeleteFilePermanently, NoRow, world
  <2>. QED BY <1>1, <1>2, <2>1 DEF FilesOnFolderDisk, Drop
<1>. QED BY <1>1, <1>4, <1>5, <1>6, <1>7, <1>8

(* So every step keeps the tree.                                            *)
LEMMA TreeStep ==
    ASSUME IndInv, RequestInv, Next
    PROVE  TreeInv'
<1>1. TreeInv
    BY DEF RequestInv
<1>2. CASE folders' = folders /\ issued \subseteq issued' /\ FilesOnFolderDisk'
    BY <1>1, <1>2 DEF TreeInv, Rooted, SiblingsDiffer, Below, ListFolders, Children
<1>3. CASE files' = files /\ folders' = folders /\ issued \subseteq issued'
    BY <1>1, <1>2, <1>3 DEF TreeInv, FilesOnFolderDisk
<1>4. CASE Restart
    BY <1>3, <1>4 DEF Restart
<1>5. ASSUME NEW r \in Request,
             \/ SoftDeleteFile(r) \/ RestoreFile(r) \/ RenameFile(r) \/ MoveFile(r)
             \/ InsertFile(r) \/ DeleteFilePermanently(r)
      PROVE  TreeInv'
  <2>1. issued \subseteq issued'
      BY <1>5, FileStatementFrame DEF Frame
  <2>. QED BY <1>2, <1>5, <2>1, FileStatementTree
<1>6. ASSUME NEW r \in Request, InsertFolder(r) \/ RenameFolder(r) \/ DeleteFolder(r)
      PROVE  TreeInv'
  <2>1. Rooted' /\ SiblingsDiffer' /\ FilesOnFolderDisk'
      BY <1>6, InsertFolderTree, RenameFolderTree, DeleteFolderTree
  <2>2. DOMAIN folders' \subseteq issued'
    <3>1. CASE InsertFolder(r)
        BY <1>1, <3>1 DEF InsertFolder, Put, TreeInv
    <3>2. CASE RenameFolder(r)
        BY <1>1, <3>2 DEF RenameFolder, NoRow, world, TreeInv
    <3>3. CASE DeleteFolder(r)
        BY <1>1, <3>3 DEF DeleteFolder, Drop, NoRow, world, TreeInv
    <3>. QED BY <1>6, <3>1, <3>2, <3>3
  <2>. QED BY <2>1, <2>2 DEF TreeInv
<1>. QED BY <1>3, <1>4, <1>5, <1>6, OtherStepsKeepTables DEF Next, Step

(***************************************************************************)
(* Every step preserves the invariant.                                     *)
(***************************************************************************)
(* A request that does not move keeps what it relies on.                    *)
LEMMA OthersKeep ==
    ASSUME Frame, NEW q \in Request, pc'[q] = pc[q], loc'[q] = loc[q],
           RequestAt(pc[q], loc[q])
    PROVE  RequestAt(pc[q], loc[q])'
<1>1. HasAnswer(pc[q], loc[q]) /\ AnswerOK(loc[q]) => AnswerOK(loc[q])'
    BY DEF AnswerOK, Frame, RowsKept
<1>2. HasPurged(pc[q], loc[q]) /\ PurgedOK(loc[q]) => PurgedOK(loc[q])'
    BY DEF PurgedOK, Frame
<1>3. HasFolder(pc[q], loc[q]) /\ FolderOK(loc[q]) => FolderOK(loc[q])'
    BY DEF FolderOK, Frame
<1>4. HasSource(pc[q], loc[q]) /\ SourceOK(loc[q]) => SourceOK(loc[q])'
    BY DEF SourceOK, Frame, RowsKept
<1>. QED BY <1>1, <1>2, <1>3, <1>4
         DEF RequestAt, PathOK, HasAnswer, HasPurged, HasFolder, HasSource

(* Wherever a request goes, it may go.                                      *)
LEMMA StepLands ==
    ASSUME IndInv, RequestInv, Frame, NEW r \in Request, Begin(r) \/ Step(r)
    PROVE  Lands(r)
BY BeginLands, FindFolderLands, FindFileLands, FindTrashedLands, SavingLands, LookupLands,
   FolderCheckLands, InsertFileLands, UpdateLands, DeleteLands, RemoveLands, FolderLands,
   EndLands DEF Step

(* An audit event is written by the request that did what it says.          *)
LEMMA AuditGrows ==
    ASSUME NEW r \in Request, Begin(r) \/ Step(r), ~Audit(r)
    PROVE  audit' = audit
<1>1. CASE Begin(r)
    BY <1>1 DEF Begin, BeginUpload, BeginCopy, BeginMove, BeginRename,
        BeginDownload, BeginDelete, BeginRestore, BeginPurge, BeginOnFile,
        BeginCreateFolder, BeginRenameFolder, BeginDeleteFolder, Arrives, world
<1>2. CASE FindFolder(r) \/ FindFile(r) \/ FindTrashedFile(r) \/ Open(r) \/ OpenFails(r)
    BY <1>2 DEF FindFolder, FolderMissing, UploadIntoFolder, MoveIntoFolder,
        CreateUnderParent, FindFile, FindTrashedFile, Open, OpenFails, world
<1>3. CASE \/ CreateObject(r) \/ WriteObject(r) \/ SaveFails(r) \/ Dedupe(r)
           \/ UndoSave(r) \/ RemoveObject(r)
    BY <1>3 DEF CreateObject, WriteObject, SaveFails, Dedupe, UndoSave,
        RemoveObject, Discard, Removed, NotRemoved, world
<1>4. CASE \/ FindActiveByChecksum(r) \/ CheckFolder(r) \/ InsertFileRefused(r)
           \/ FolderExists(r) \/ CheckParent(r) \/ Answered(r)
    BY <1>4 DEF FindActiveByChecksum, CheckFolder, InsertFileRefused,
        FolderExists, CheckParent, Answered, world
<1>5. CASE InsertFolderRefused(r) \/ CountContents(r) \/ StatementFails(r)
    BY <1>5 DEF InsertFolderRefused, CountContents, StatementFails, world
<1>6. CASE \/ SoftDeleteFile(r) \/ RestoreFile(r) \/ RenameFile(r) \/ MoveFile(r)
           \/ InsertFile(r) \/ DeleteFilePermanently(r)
    BY <1>6 DEF SoftDeleteFile, RestoreFile, RenameFile, MoveFile, InsertFile,
        DeleteFilePermanently, SetFile, NoRow, world
<1>7. CASE InsertFolder(r) \/ RenameFolder(r) \/ DeleteFolder(r)
    BY <1>7 DEF InsertFolder, RenameFolder, DeleteFolder, NoRow, world
<1>. QED BY <1>1, <1>2, <1>3, <1>4, <1>5, <1>6, <1>7 DEF Step

(* The steps of a request preserve the invariant.                           *)
LEMMA RequestInvStep ==
    ASSUME IndInv, RequestInv, NEW r \in Request, Begin(r) \/ Step(r)
    PROVE  RequestInv'
<1>1. Frame
    BY FrameStep DEF RequestInv, TreeInv, Next
<1>2. Lands(r)
    BY <1>1, StepLands
<1>3. \A q \in Request : RequestAt(pc[q], loc[q])'
  <2>1. ASSUME NEW q \in Request \ {r} PROVE RequestAt(pc[q], loc[q])'
      BY <1>1, <1>2, <2>1, OthersKeep DEF Lands, RequestInv
  <2>. QED BY <1>2, <2>1 DEF Lands
<1>4. OnePurge'
  <2>1. SUFFICES ASSUME NEW a \in Request, NEW b \in Request, Purging(a)', Purging(b)',
                        loc'[a].id = loc'[b].id, a # b
                 PROVE  FALSE
      BY DEF OnePurge
  <2>2. ASSUME NEW q \in Request \ {r}, Purging(q)', Purging(r)', loc'[q].id = loc'[r].id
        PROVE  FALSE
    <3>1. Purging(q) /\ loc'[q].id = loc[q].id
        BY <1>2, <2>2 DEF Lands, Purging
    <3>2. loc[q].id \notin DOMAIN files
        BY <3>1 DEF RequestInv, RequestAt, HasPurged, PurgedOK, Purging
    <3>3. Purging(r) /\ loc'[r].id = loc[r].id
        BY <1>2, <2>2, <3>1, <3>2 DEF Lands
    <3>. QED BY <2>2, <3>1, <3>3 DEF RequestInv, OnePurge
  <2>3. CASE a # r /\ b # r
      BY <1>2, <2>1, <2>3 DEF Lands, Purging, RequestInv, OnePurge
  <2>. QED BY <2>1, <2>2, <2>3
<1>5. PurgedForGood'
  <2>1. SUFFICES ASSUME NEW i \in FileId, <<"purge", i>> \in audit'
                 PROVE  i \in issued' \ DOMAIN files'
      BY DEF PurgedForGood
  <2>2. i \in issued \ DOMAIN files
    <3>1. CASE <<"purge", i>> \in audit
        BY <3>1 DEF RequestInv, PurgedForGood
    <3>2. CASE <<"purge", i>> \notin audit
      <4>1. Audit(r)
          BY <2>1, <3>2, AuditGrows
      <4>2. <<"purge", i>> \in ({loc[r].op} \cap Audited) \X {loc[r].id}
          BY <2>1, <3>2, <4>1 DEF Audit
      <4>3. pc[r] = "audit" /\ loc[r].op = "purge" /\ loc[r].id = i
          BY <4>1, <4>2 DEF Audit
      <4>. QED BY <4>3 DEF RequestInv, RequestAt, HasPurged, PurgedOK
    <3>. QED BY <3>1, <3>2
  <2>. QED BY <1>1, <2>2 DEF Frame
<1>6. TreeInv'
    BY TreeStep DEF Next
<1>. QED BY <1>3, <1>4, <1>5, <1>6 DEF RequestInv

(* After a restart no request is in flight, and the tables are as before.   *)
LEMMA RequestInvRestart ==
    ASSUME IndInv, RequestInv, Restart
    PROVE  RequestInv'
<1>1. /\ \A r \in Request : pc'[r] = "idle"
      /\ files' = files /\ issued' = issued /\ audit' \subseteq audit
    BY DEF Restart, PruneAudit
<1>2. \A r \in Request : RequestAt(pc[r], loc[r])' /\ ~Purging(r)'
    BY <1>1 DEF RequestAt, PathOK, HasAnswer, HasPurged, HasFolder, HasSource, Purging
<1>3. PurgedForGood'
    BY <1>1 DEF RequestInv, PurgedForGood
<1>4. TreeInv'
    BY TreeStep DEF Next
<1>. QED BY <1>2, <1>3, <1>4 DEF RequestInv, OnePurge

(* Nor does a step that changes nothing disturb it.                         *)
LEMMA RequestInvStutter ==
    ASSUME RequestInv, UNCHANGED vars
    PROVE  RequestInv'
<1>1. \A q \in Request : RequestAt(pc[q], loc[q])'
    BY DEF RequestInv, RequestAt, AnswerOK, PurgedOK, FolderOK, SourceOK, PathOK,
        HasAnswer, HasPurged, HasFolder, HasSource, vars
<1>2. OnePurge' /\ PurgedForGood'
    BY DEF RequestInv, OnePurge, PurgedForGood, Purging, vars
<1>3. TreeInv'
    BY DEF RequestInv, TreeInv, Rooted, FilesOnFolderDisk, SiblingsDiffer, Below,
        ListFolders, Children, vars
<1>. QED BY <1>1, <1>2, <1>3 DEF RequestInv

(* It holds when the program starts on empty tables.                        *)
LEMMA RequestInvInit == Init => RequestInv
<1>1. SUFFICES ASSUME Init PROVE RequestInv
    OBVIOUS
<1>2. /\ \A r \in Request : pc[r] = "idle"
      /\ DOMAIN files = {} /\ DOMAIN folders = {} /\ audit = {}
    BY <1>1 DEF Init
<1>3. \A r \in Request : RequestAt(pc[r], loc[r]) /\ ~Purging(r)
    BY <1>2 DEF RequestAt, PathOK, HasAnswer, HasPurged, HasFolder, HasSource, Purging
<1>4. PurgedForGood /\ TreeInv
    BY <1>2 DEF PurgedForGood, TreeInv, Rooted, FilesOnFolderDisk, SiblingsDiffer
<1>. QED BY <1>3, <1>4 DEF RequestInv, OnePurge

(***************************************************************************)
(* Theorems.                                                               *)
(***************************************************************************)
(* What a request relies on between two of its statements stays true,       *)
(* whatever other requests and restarts do, and the folder tree is sound.   *)
THEOREM RequestInvariance == Spec => []RequestInv
<1>1. IndInv /\ RequestInv /\ [Next]_vars => RequestInv'
    BY RequestInvStep, RequestInvRestart, RequestInvStutter DEF Next
<1>. QED BY <1>1, RequestInvInit, Invariance, PTL DEF Spec

(* The id an upload answers with names, unless it was purged since, a row   *)
(* on the requested disk with the checksum of the body, also when duplicate *)
(* detection answered (file_service.go, Upload).                            *)
THEOREM UploadsAnswerTheirRow == Spec => []UploadAnswersRow
<1>1. RequestInv => UploadAnswersRow
    BY DEF RequestInv, RequestAt, HasAnswer, AnswerOK, UploadAnswersRow
<1>. QED BY <1>1, RequestInvariance, PTL

(* At most one purge of a file gets past the DELETE, and then no restore    *)
(* brings the row back (file_service.go, PermanentlyDelete).                *)
THEOREM OnePurgeWins == Spec => []PurgeWins
<1>1. RequestInv => PurgeWins
    BY DEF RequestInv, RequestAt, HasPurged, PurgedOK, OnePurge, Purging, PurgeWins
<1>. QED BY <1>1, RequestInvariance, PTL

(* An audit event of a purge is never about a file that has a row.          *)
THEOREM PurgeEventsHold == Spec => []PurgeEventsTrue
<1>1. RequestInv => PurgeEventsTrue
    BY DEF RequestInv, PurgedForGood, PurgeEventsTrue
<1>. QED BY <1>1, RequestInvariance, PTL

(* A file is in no folder or in one that exists, on the file's disk,        *)
(* although the folder is looked at several statements before the INSERT or *)
(* the UPDATE that relies on it.                                            *)
THEOREM FilesStayOnDisk == Spec => []FilesOnFolderDisk
<1>1. RequestInv => FilesOnFolderDisk
    BY DEF RequestInv, TreeInv
<1>. QED BY <1>1, RequestInvariance, PTL

(* What is below the root by rows of m is on m.                             *)
LEMMA BelowOnDisk ==
    ASSUME NEW m, NEW f \in Below(m), f # Root
    PROVE  folders[f].mount = m
<1>1. PICK S : S = {Root} \cup {g \in DOMAIN folders : folders[g].mount = m}
    OBVIOUS
<1>2. S \in SUBSET (DOMAIN folders \cup {Root}) /\ Browsed(m, S)
    BY <1>1 DEF Browsed, ListFolders, Children
<1>3. f \in S
    BY <1>2, BelowIn
<1>. QED BY <1>1, <1>3

(* Folders form trees, one disk each, and exactly those that were created   *)
(* with a disk can be found in listings (file_service.go, CreateFolder, and *)
(* httpapi/files.go, mountParam).                                           *)
THEOREM FoldersFormTrees == Spec => []FolderTree
<1>1. RequestInv /\ TypeOK => FolderTree
  <2>1. SUFFICES ASSUME RequestInv, TypeOK PROVE FolderTree
      OBVIOUS
  <2>2. Rooted
      BY <2>1 DEF RequestInv, TreeInv
  <2>3. ASSUME NEW f \in DOMAIN folders, folders[f].mount # NoMount
        PROVE  \E m \in Mount \cup {NoMount} : f \in Reached(m)
    <3>1. folders[f].mount \in Mount
        BY <2>1, <2>3 DEF TypeOK, TablesOK, FolderRow
    <3>2. f \in Reached(folders[f].mount)
        BY <2>2, <2>3 DEF Rooted, Reached, mountParam
    <3>. QED BY <3>1, <3>2
  <2>4. ASSUME NEW f \in DOMAIN folders, NEW m \in Mount \cup {NoMount}, f \in Reached(m)
        PROVE  folders[f].mount # NoMount
    <3>1. mountParam(m) \in Mount /\ f \in Below(mountParam(m))
        BY <2>4, DefaultAssumption DEF Reached, mountParam
    <3>2. f # Root
        BY <2>1, <2>4, RootAssumption DEF TypeOK, TablesOK
    <3>3. folders[f].mount = mountParam(m)
        BY <3>1, <3>2, BelowOnDisk
    <3>. QED BY <3>1, <3>3, DefaultAssumption
  <2>. QED BY <2>2, <2>3, <2>4 DEF FolderTree
<1>. QED BY <1>1, RequestInvariance, TypeCorrect, PTL

(* No two folders of a parent, and no two roots of a disk, share a name.    *)
THEOREM NamesUnique == Spec => []SiblingsDiffer
<1>1. RequestInv => SiblingsDiffer
    BY DEF RequestInv, TreeInv
<1>. QED BY <1>1, RequestInvariance, PTL

(* Every file is found in the trash of its disk or by opening folder after  *)
(* folder from the root of its disk.                                        *)
THEOREM NoFileHidden == Spec => []FilesListed
<1>1. RequestInv /\ TypeOK => FilesListed
  <2>1. SUFFICES ASSUME RequestInv, TypeOK, NEW i \in DOMAIN files, ~files[i].trashed
                 PROVE  \E d \in Reached(files[i].mount) : i \in ListFiles(files[i].mount, d)
      BY DEF FilesListed, ListTrash
  <2>2. i \in ListFiles(files[i].mount, files[i].dir)
      BY <2>1 DEF ListFiles, FilesIn
  <2>3. CASE files[i].dir = Root
    <3>1. Root \in Reached(files[i].mount)
        BY DEF Reached, Below
    <3>. QED BY <2>2, <2>3, <3>1
  <2>4. CASE files[i].dir # Root
    <3>1. files[i].dir \in Below(files[i].mount)
        BY <2>1, <2>4 DEF RequestInv, TreeInv, FilesOnFolderDisk, Rooted
    <3>2. files[i].mount # NoMount
        BY <2>1, DefaultAssumption DEF TypeOK, TablesOK, FileRow
    <3>3. files[i].dir \in Reached(files[i].mount)
        BY <3>1, <3>2 DEF Reached, mountParam
    <3>. QED BY <2>2, <3>3
  <2>. QED BY <2>3, <2>4
<1>. QED BY <1>1, RequestInvariance, TypeCorrect, PTL

(***************************************************************************)
(* Drive implements Catalog: every step of the program is a step of what   *)
(* the file manager promises, or changes nothing that a client can tell.   *)
(***************************************************************************)
(* The bytes behind every row are where they were.                          *)
ObjectsKept == \A i \in DOMAIN files :
    /\ files[i].key \in DOMAIN disk'[files[i].mount]
    /\ disk'[files[i].mount][files[i].key] = disk[files[i].mount][files[i].key]

(* What the mapping shows of a row, as long as rows have their objects.     *)
Entry(i) == [disk    |-> files[i].mount,
             data    |-> disk[files[i].mount][files[i].key],
             trashed |-> files[i].trashed]

(* The mapping shows the entries of the rows, and nothing else.             *)
LEMMA StoredEntries ==
    ASSUME RowsHaveObjects
    PROVE  Stored = [i \in DOMAIN files |-> Entry(i)]
BY DEF Stored, StoredData, Entry, RowsHaveObjects

(* No request touches an object that a row refers to: the writers and the   *)
(* removers only touch objects they own.                                    *)
LEMMA StepKeepsObjects ==
    ASSUME IndInv, NEW r \in Request, Begin(r) \/ Step(r)
    PROVE  ObjectsKept
<1>1. /\ RowsHaveObjects /\ DOMAIN disk = Mount
      /\ \A i \in DOMAIN files : /\ files[i].mount \in Mount /\ files[i].key \in Key
                                 /\ files[i].key \in issued
      /\ \A i \in DOMAIN files : ~Owns(r, files[i].key)
    BY DEF IndInv, TypeOK, TablesOK, FileRow, RowsIssued, SoleReference
<1>2. CASE disk' = disk
    BY <1>1, <1>2 DEF ObjectsKept, RowsHaveObjects
<1>3. ASSUME NEW m, NEW k, NEW c, disk' = [disk EXCEPT ![m] = Put(@, k, c)],
             \A i \in DOMAIN files : files[i].key # k
      PROVE  ObjectsKept
  <2>1. SUFFICES ASSUME NEW i \in DOMAIN files
                 PROVE  /\ files[i].key \in DOMAIN disk'[files[i].mount]
                        /\ disk'[files[i].mount][files[i].key]
                             = disk[files[i].mount][files[i].key]
      BY DEF ObjectsKept
  <2>. QED BY <1>1, <1>3 DEF Put, RowsHaveObjects
<1>4. ASSUME NEW m, NEW k, Removed(m, k), \A i \in DOMAIN files : files[i].key # k
      PROVE  ObjectsKept
    BY <1>1, <1>4 DEF ObjectsKept, Removed, Drop, RowsHaveObjects
<1>5. CASE CreateObject(r)
  <2>1. PICK k \in Key \ issued :
          disk' = [disk EXCEPT ![loc[r].mount] = Put(@, k, Partial)]
      BY <1>5 DEF CreateObject
  <2>2. \A i \in DOMAIN files : files[i].key # k
      BY <1>1
  <2>. QED BY <1>3, <2>1, <2>2
<1>6. CASE WriteObject(r)
  <2>1. \A i \in DOMAIN files : files[i].key # loc[r].key
      BY <1>1, <1>6 DEF WriteObject, Owns, OwnsAt, SavedLabels
  <2>. QED BY <1>3, <1>6, <2>1 DEF WriteObject
<1>7. ASSUME pc[r] \in SavedLabels, Discard(r) PROVE ObjectsKept
  <2>1. \A i \in DOMAIN files : files[i].key # loc[r].key
      BY <1>1, <1>7 DEF Owns, OwnsAt
  <2>. QED BY <1>2, <1>4, <1>7, <2>1 DEF Discard, NotRemoved
<1>8. CASE SaveFails(r) \/ Dedupe(r) \/ UndoSave(r)
    BY <1>2, <1>7, <1>8 DEF SaveFails, Dedupe, UndoSave, SavedLabels, world
<1>9. CASE RemoveObject(r)
  <2>1. \A i \in DOMAIN files : files[i].key # loc[r].src
      BY <1>1, <1>9 DEF RemoveObject, Owns, OwnsAt
  <2>. QED BY <1>2, <1>4, <1>9, <2>1 DEF RemoveObject, NotRemoved
<1>10. CASE Begin(r)
    BY <1>2, <1>10 DEF Begin, BeginUpload, BeginCopy, BeginMove, BeginRename,
        BeginDownload, BeginDelete, BeginRestore, BeginPurge, BeginOnFile,
        BeginCreateFolder, BeginRenameFolder, BeginDeleteFolder, Arrives, world
<1>11. CASE FindFolder(r) \/ FindFile(r) \/ FindTrashedFile(r) \/ Open(r) \/ OpenFails(r)
    BY <1>2, <1>11 DEF FindFolder, FolderMissing, UploadIntoFolder, MoveIntoFolder,
        CreateUnderParent, FindFile, FindTrashedFile, Open, OpenFails, world
<1>12. CASE \/ FindActiveByChecksum(r) \/ CheckFolder(r) \/ InsertFileRefused(r)
            \/ FolderExists(r) \/ Audit(r) \/ CheckParent(r) \/ Answered(r)
    BY <1>2, <1>12 DEF FindActiveByChecksum, CheckFolder, InsertFileRefused,
        FolderExists, Audit, CheckParent, Answered, world
<1>13. CASE \/ InsertFolder(r) \/ InsertFolderRefused(r) \/ RenameFolder(r)
            \/ CountContents(r) \/ DeleteFolder(r) \/ StatementFails(r)
    BY <1>2, <1>13 DEF InsertFolder, InsertFolderRefused, RenameFolder, NoRow,
        CountContents, DeleteFolder, StatementFails, world
<1>14. CASE \/ SoftDeleteFile(r) \/ RestoreFile(r) \/ RenameFile(r) \/ MoveFile(r)
            \/ InsertFile(r) \/ DeleteFilePermanently(r)
    BY <1>2, <1>14 DEF SoftDeleteFile, RestoreFile, RenameFile, MoveFile, InsertFile,
        DeleteFilePermanently, SetFile, NoRow, world
<1>. QED BY <1>5, <1>6, <1>8, <1>9, <1>10, <1>11, <1>12, <1>13, <1>14 DEF Step

(* A step after which every row has its disk, its object and its deleted_at *)
(* as before is invisible in the catalog.                                   *)
LEMMA Invisible ==
    ASSUME IndInv, IndInv', ObjectsKept, DOMAIN files' = DOMAIN files,
           issued' \cap FileId = issued \cap FileId,
           \A i \in DOMAIN files : /\ files'[i].key = files[i].key
                                   /\ files'[i].mount = files[i].mount
                                   /\ files'[i].trashed = files[i].trashed
    PROVE  UNCHANGED <<Stored, issued \cap FileId>>
<1>1. Stored = [i \in DOMAIN files |-> Entry(i)]
    BY StoredEntries DEF IndInv
<1>2. Stored' = [i \in DOMAIN files' |-> Entry(i)']
  <2>1. RowsHaveObjects'
      BY DEF IndInv
  <2>. QED BY <2>1 DEF Stored, StoredData, Entry, RowsHaveObjects
<1>3. \A i \in DOMAIN files : Entry(i)' = Entry(i)
    BY DEF Entry, ObjectsKept
<1>. QED BY <1>1, <1>2, <1>3

(* The INSERT of a file adds it, complete and under a new id.               *)
LEMMA InsertAdds ==
    ASSUME IndInv, IndInv', NEW r \in Request, InsertFile(r)
    PROVE  C!Next
<1>1. PICK i \in FileId \ issued : /\ files' = Put(files, i, NewFile(loc[r]))
                                   /\ issued' = issued \cup {i}
    BY DEF InsertFile
<1>2. disk' = disk /\ pc[r] = "insert"
    BY DEF InsertFile
<1>3. PICK m, c : m = loc[r].mount /\ c = loc[r].data
    OBVIOUS
<1>4. m \in Mount /\ c \in Content /\ disk[m][loc[r].key] = c
    BY <1>2, <1>3 DEF IndInv, At, LocalsAt, BodyAt, HashedAt, WorldAt, SaveLabels, SavedLabels
<1>5. Stored = [j \in DOMAIN files |-> Entry(j)]
    BY StoredEntries DEF IndInv
<1>6. Stored' = [j \in DOMAIN files' |-> Entry(j)']
  <2>1. RowsHaveObjects'
      BY DEF IndInv
  <2>. QED BY <2>1 DEF Stored, StoredData, Entry, RowsHaveObjects
<1>7. DOMAIN files' = DOMAIN files \cup {i}
    BY <1>1 DEF Put
<1>8. Entry(i)' = [disk |-> m, data |-> c, trashed |-> FALSE]
    BY <1>1, <1>2, <1>3, <1>4 DEF Entry, Put, NewFile
<1>9. \A j \in DOMAIN files \ {i} : Entry(j)' = Entry(j)
    BY <1>1, <1>2 DEF Entry, Put
<1>10. Stored' = [j \in DOMAIN Stored \cup {i} |->
                    IF j = i THEN [disk |-> m, data |-> c, trashed |-> FALSE] ELSE Stored[j]]
    BY <1>5, <1>6, <1>7, <1>8, <1>9
<1>11. i \notin issued \cap FileId /\ issued' \cap FileId = (issued \cap FileId) \cup {i}
    BY <1>1
<1>12. C!Add(i, m, c)
    BY <1>10, <1>11 DEF C!Add
<1>. QED BY <1>1, <1>4, <1>12 DEF C!Next

(* Setting or clearing deleted_at moves one file to or from the trash.      *)
LEMMA UpdateToggles ==
    ASSUME IndInv, IndInv', NEW r \in Request, SoftDeleteFile(r) \/ RestoreFile(r),
           ~UNCHANGED <<files, issued>>
    PROVE  C!Next
<1>1. PICK i : i = loc[r].id
    OBVIOUS
<1>2. PICK t \in BOOLEAN : t = ~files[i].trashed
    OBVIOUS
<1>3. /\ i \in DOMAIN files /\ disk' = disk /\ issued' = issued
      /\ files' = [files EXCEPT ![i] = [files[i] EXCEPT !.trashed = t]]
  <2>1. i \in DOMAIN files => files[i].trashed \in BOOLEAN
      BY DEF IndInv, TypeOK, TablesOK, FileRow
  <2>2. CASE SoftDeleteFile(r)
      BY <1>1, <1>2, <2>1, <2>2 DEF SoftDeleteFile, NoRow, SetFile, IsActive, world
  <2>3. CASE RestoreFile(r)
      BY <1>1, <1>2, <2>1, <2>3 DEF RestoreFile, NoRow, SetFile, IsTrashed, world
  <2>. QED BY <2>2, <2>3
<1>4. Stored = [j \in DOMAIN files |-> Entry(j)]
    BY StoredEntries DEF IndInv
<1>5. Stored' = [j \in DOMAIN files' |-> Entry(j)']
  <2>1. RowsHaveObjects'
      BY DEF IndInv
  <2>. QED BY <2>1 DEF Stored, StoredData, Entry, RowsHaveObjects
<1>6. files[i] \in FileRow
    BY <1>3 DEF IndInv, TypeOK, TablesOK
<1>7. /\ DOMAIN files' = DOMAIN files
      /\ files'[i].mount = files[i].mount /\ files'[i].key = files[i].key
      /\ files'[i].trashed = t
      /\ \A j \in DOMAIN files \ {i} : files'[j] = files[j]
    BY <1>3, <1>6 DEF FileRow
<1>8. Entry(i)' = [Entry(i) EXCEPT !.trashed = t]
    BY <1>3, <1>7 DEF Entry
<1>9. \A j \in DOMAIN files \ {i} : Entry(j)' = Entry(j)
    BY <1>3, <1>7 DEF Entry
<1>10. i \in DOMAIN Stored /\ Stored[i] = Entry(i) /\ Stored[i].trashed = files[i].trashed
    BY <1>3, <1>4 DEF Entry
<1>11. Stored' = [Stored EXCEPT ![i].trashed = ~@]
  <2>1. Stored' = [Stored EXCEPT ![i] = [Stored[i] EXCEPT !.trashed = t]]
      BY <1>4, <1>5, <1>7, <1>8, <1>9, <1>10
  <2>. QED BY <1>2, <1>10, <2>1
<1>12. C!Toggle(i)
    BY <1>3, <1>11 DEF C!Toggle
<1>. QED BY <1>10, <1>12 DEF C!Next

(* The DELETE of a file purges one file that was in the trash.              *)
LEMMA DeletePurges ==
    ASSUME IndInv, IndInv', NEW r \in Request, DeleteFilePermanently(r),
           ~UNCHANGED <<files, issued>>
    PROVE  C!Next
<1>1. PICK i : i = loc[r].id
    OBVIOUS
<1>2. /\ i \in DOMAIN files /\ files[i].trashed /\ disk' = disk /\ issued' = issued
      /\ files' = Drop(files, {i})
    BY <1>1 DEF DeleteFilePermanently, NoRow, IsTrashed, world
<1>3. Stored = [j \in DOMAIN files |-> Entry(j)]
    BY StoredEntries DEF IndInv
<1>4. Stored' = [j \in DOMAIN files' |-> Entry(j)']
  <2>1. RowsHaveObjects'
      BY DEF IndInv
  <2>. QED BY <2>1 DEF Stored, StoredData, Entry, RowsHaveObjects
<1>5. DOMAIN files' = DOMAIN files \ {i} /\ \A j \in DOMAIN files' : files'[j] = files[j]
    BY <1>2 DEF Drop
<1>6. \A j \in DOMAIN files' : Entry(j)' = Entry(j)
    BY <1>2, <1>5 DEF Entry
<1>7. i \in DOMAIN Stored /\ Stored[i].trashed
    BY <1>2, <1>3 DEF Entry
<1>8. Stored' = [j \in DOMAIN Stored \ {i} |-> Stored[j]]
    BY <1>3, <1>4, <1>5, <1>6
<1>9. C!Purge(i)
    BY <1>2, <1>7, <1>8 DEF C!Purge
<1>. QED BY <1>7, <1>9 DEF C!Next

(* All other statements change no file: a rename, a move and the deletion   *)
(* of a folder are invisible, and no other uuid is taken for a file.        *)
LEMMA OthersInvisible ==
    ASSUME IndInv, IndInv', NEW r \in Request, Begin(r) \/ Step(r), ~InsertFile(r),
           ~((SoftDeleteFile(r) \/ RestoreFile(r) \/ DeleteFilePermanently(r))
               /\ ~UNCHANGED <<files, issued>>)
    PROVE  UNCHANGED <<Stored, issued \cap FileId>>
<1>1. ObjectsKept
    BY StepKeepsObjects
<1>2. CASE files' = files /\ issued' \cap FileId = issued \cap FileId
    BY <1>1, <1>2, Invisible
<1>3. \A i \in DOMAIN files : files[i] \in FileRow
    BY DEF IndInv, TypeOK, TablesOK
<1>4. CASE RenameFile(r) \/ MoveFile(r)
  <2>1. issued' = issued
      BY <1>4 DEF RenameFile, MoveFile, SetFile, NoRow, world
  <2>2. CASE files' # files
    <3>1. PICK i : i = loc[r].id
        OBVIOUS
    <3>2. /\ i \in DOMAIN files
          /\ \/ files' = [files EXCEPT ![i] = [files[i] EXCEPT !.name = loc[r].name]]
             \/ files' = [files EXCEPT ![i] = [files[i] EXCEPT !.dir = loc[r].dir]]
        BY <1>4, <2>2, <3>1 DEF RenameFile, MoveFile, SetFile, NoRow, world, IsActive
    <3>3. /\ DOMAIN files' = DOMAIN files
          /\ \A j \in DOMAIN files : /\ files'[j].key = files[j].key
                                     /\ files'[j].mount = files[j].mount
                                     /\ files'[j].trashed = files[j].trashed
        BY <1>3, <3>2 DEF FileRow
    <3>. QED BY <1>1, <2>1, <3>3, Invisible
  <2>. QED BY <1>2, <2>1, <2>2
<1>5. CASE DeleteFolder(r)
  <2>1. issued' = issued
      BY <1>5 DEF DeleteFolder, NoRow, world
  <2>2. CASE files' # files
    <3>1. files' = [i \in DOMAIN files |->
             IF files[i].dir \in Subtree(loc[r].id) THEN [files[i] EXCEPT !.dir = Root]
                                                    ELSE files[i]]
        BY <1>5, <2>2 DEF DeleteFolder, NoRow, world
    <3>2. /\ DOMAIN files' = DOMAIN files
          /\ \A j \in DOMAIN files : /\ files'[j].key = files[j].key
                                     /\ files'[j].mount = files[j].mount
                                     /\ files'[j].trashed = files[j].trashed
        BY <1>3, <3>1 DEF FileRow
    <3>. QED BY <1>1, <2>1, <3>2, Invisible
  <2>. QED BY <1>2, <2>1, <2>2
<1>6. CASE SoftDeleteFile(r) \/ RestoreFile(r) \/ DeleteFilePermanently(r)
    BY <1>2, <1>6
<1>7. CASE CreateObject(r) \/ InsertFolder(r)
  <2>1. files' = files
      BY <1>7, OtherStepsKeepFiles
  <2>2. PICK k \in FolderId \cup Key : issued' = issued \cup {k}
      BY <1>7 DEF CreateObject, InsertFolder
  <2>3. issued' \cap FileId = issued \cap FileId
      BY <2>2, IdAssumption
  <2>. QED BY <1>2, <2>1, <2>3
<1>8. CASE Begin(r)
  <2>1. files' = files
      BY <1>8, OtherStepsKeepFiles
  <2>2. issued' = issued
      BY <1>8 DEF Begin, BeginUpload, BeginCopy, BeginMove, BeginRename,
          BeginDownload, BeginDelete, BeginRestore, BeginPurge, BeginOnFile,
          BeginCreateFolder, BeginRenameFolder, BeginDeleteFolder, Arrives, world
  <2>. QED BY <1>2, <2>1, <2>2
<1>9. CASE \/ FindFolder(r) \/ FindFile(r) \/ FindTrashedFile(r) \/ Open(r) \/ OpenFails(r)
           \/ WriteObject(r) \/ SaveFails(r) \/ Dedupe(r) \/ UndoSave(r) \/ RemoveObject(r)
           \/ FindActiveByChecksum(r) \/ CheckFolder(r) \/ InsertFileRefused(r)
           \/ FolderExists(r) \/ Audit(r) \/ CheckParent(r) \/ Answered(r)
           \/ InsertFolderRefused(r) \/ RenameFolder(r) \/ CountContents(r)
           \/ StatementFails(r)
  <2>1. files' = files
      BY <1>9, OtherStepsKeepFiles
  <2>2. CASE FindFolder(r) \/ FindFile(r) \/ FindTrashedFile(r) \/ Open(r) \/ OpenFails(r)
    <3>1. issued' = issued
        BY <2>2 DEF FindFolder, FolderMissing, UploadIntoFolder, MoveIntoFolder,
            CreateUnderParent, FindFile, FindTrashedFile, Open, OpenFails, world
    <3>. QED BY <1>2, <2>1, <3>1
  <2>3. CASE \/ WriteObject(r) \/ SaveFails(r) \/ Dedupe(r) \/ UndoSave(r)
             \/ RemoveObject(r)
    <3>1. issued' = issued
        BY <2>3 DEF WriteObject, SaveFails, Dedupe, UndoSave, RemoveObject, Discard,
            Removed, NotRemoved, world
    <3>. QED BY <1>2, <2>1, <3>1
  <2>4. CASE \/ FindActiveByChecksum(r) \/ CheckFolder(r) \/ InsertFileRefused(r)
             \/ FolderExists(r) \/ Audit(r) \/ CheckParent(r) \/ Answered(r)
    <3>1. issued' = issued
        BY <2>4 DEF FindActiveByChecksum, CheckFolder, InsertFileRefused, FolderExists,
            Audit, CheckParent, Answered, world
    <3>. QED BY <1>2, <2>1, <3>1
  <2>5. CASE \/ InsertFolderRefused(r) \/ RenameFolder(r) \/ CountContents(r)
             \/ StatementFails(r)
    <3>1. issued' = issued
        BY <2>5 DEF InsertFolderRefused, RenameFolder, NoRow, CountContents,
            StatementFails, world
    <3>. QED BY <1>2, <2>1, <3>1
  <2>. QED BY <1>9, <2>2, <2>3, <2>4, <2>5
<1>. QED BY <1>4, <1>5, <1>6, <1>7, <1>8, <1>9 DEF Step

(* The program implements its promise: every step of Drive adds one         *)
(* complete file under a new id, moves one file to or from the trash,       *)
(* purges one file from the trash, or is invisible in the catalog.          *)
THEOREM DriveImplementsCatalog == Spec => ImplementsCatalog
<1>1. Init => C!Init
  <2>1. SUFFICES ASSUME Init PROVE C!Init
      OBVIOUS
  <2>2. files = [i \in {} |-> Nil] /\ issued = {}
      BY <2>1 DEF Init
  <2>3. Stored = [i \in {} |-> {}] /\ issued \cap FileId = {}
      BY <2>2 DEF Stored
  <2>. QED BY <2>3 DEF C!Init
<1>2. IndInv /\ IndInv' /\ [Next]_vars => [C!Next]_<<Stored, issued \cap FileId>>
  <2>1. SUFFICES ASSUME IndInv, IndInv', [Next]_vars
                 PROVE  C!Next \/ UNCHANGED <<Stored, issued \cap FileId>>
      OBVIOUS
  <2>2. CASE UNCHANGED <<files, disk, issued>>
      BY <2>2 DEF Stored, StoredData
  <2>3. CASE Restart
      BY <2>2, <2>3 DEF Restart
  <2>4. CASE UNCHANGED vars
      BY <2>2, <2>4 DEF vars
  <2>5. ASSUME NEW r \in Request, Begin(r) \/ Step(r)
        PROVE  C!Next \/ UNCHANGED <<Stored, issued \cap FileId>>
      BY <2>1, <2>5, InsertAdds, UpdateToggles, DeletePurges, OthersInvisible
  <2>. QED BY <2>1, <2>3, <2>4, <2>5 DEF Next
<1>. QED BY <1>1, <1>2, Invariance, PTL DEF Spec, ImplementsCatalog, C!Spec
=============================================================================
