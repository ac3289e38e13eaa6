----------------------------- MODULE DriveProofs -----------------------------
(***************************************************************************)
(* Machine-checked proofs about Drive, for any number of requests, files,  *)
(* folders, disks and contents.                                            *)
(***************************************************************************)
EXTENDS DriveInv, TLAPS

(* Request r moves on, the others stay where they are.                      *)
Moves(r) ==
    /\ pc' \in [Request -> Labels] /\ loc' \in [Request -> Local]
    /\ \A q \in Request \ {r} : pc'[q] = pc[q] /\ loc'[q] = loc[q]

(* Tables may change, but no row comes, goes, or changes its object.        *)
KeepsObjects ==
    /\ disk' = disk /\ leaked' = leaked /\ issued \subseteq issued'
    /\ DOMAIN files' = DOMAIN files
    /\ \A i \in DOMAIN files : /\ files'[i].key = files[i].key
                               /\ files'[i].mount = files[i].mount
                               /\ files'[i].sum = files[i].sum

(* Request r owns afterwards what it owned before, and opens nothing that   *)
(* another request may still write.                                         *)
KeepsOwned(r) ==
    /\ \A k \in Key : Owns(r, k)' <=> Owns(r, k)
    /\ \A k \in Key : Owns(r, k) => loc'[r].mount = loc[r].mount
    /\ pc'[r] \in SavedLabels => pc[r] \in SavedLabels
    /\ pc'[r] = "open" => \A q \in Request \ {r} :
         pc[q] \in SavedLabels => loc[q].key # loc'[r].src

(* A step that changes no object and no ownership preserves the invariant   *)
(* as soon as the request that takes it satisfies At where it arrives.      *)
LEMMA QuietStep ==
    ASSUME IndInv, NEW r \in Request, Moves(r), TablesOK', KeepsObjects,
           KeepsOwned(r), At(pc[r], loc[r])'
    PROVE  IndInv'
<1>1. TypeOK'
    BY DEF Moves, TypeOK
<1>2. \A q \in Request : At(pc[q], loc[q])'
  <2>1. ASSUME NEW q \in Request \ {r} PROVE At(pc[q], loc[q])'
    <3>1. pc'[q] = pc[q] /\ loc'[q] = loc[q] /\ At(pc[q], loc[q])
        BY DEF Moves, IndInv
    <3>2. LocalsAt(pc[q], loc[q])'
        BY <3>1 DEF At, LocalsAt, KeepsObjects
    <3>3. BodyAt(pc[q], loc[q])'
        BY <3>1 DEF At, BodyAt, HashedAt
    <3>4. WorldAt(pc[q], loc[q])'
        BY <3>1 DEF At, WorldAt, KeepsObjects
    <3>. QED BY <3>2, <3>3, <3>4 DEF At
  <2>. QED BY <2>1
<1>3. \A q \in Request, k \in Key : Owns(q, k)' <=> Owns(q, k)
    BY DEF Moves, KeepsOwned, Owns
<1>4. OwnersOK'
    BY <1>3 DEF OwnersOK, KeepsObjects, IndInv
<1>5. OpensOK'
  <2>1. SUFFICES ASSUME NEW q \in Request, NEW s \in Request,
                        pc'[q] = "open", pc'[s] \in SavedLabels
                 PROVE  loc'[s].key # loc'[q].src
      BY DEF OpensOK
  <2>2. q # s
      BY <2>1 DEF SavedLabels
  <2>3. CASE q = r
      BY <2>1, <2>2, <2>3 DEF KeepsOwned, Moves
  <2>4. CASE s = r
    <3>1. pc[q] = "open" /\ loc'[q] = loc[q] /\ pc[r] \in SavedLabels
        BY <2>1, <2>2, <2>4 DEF KeepsOwned, Moves
    <3>2. PICK k \in Key : k = loc'[r].key
        BY <2>1, <2>4 DEF At, LocalsAt
    <3>3. Owns(r, k)'
        BY <2>1, <2>4, <3>2 DEF Owns, OwnsAt
    <3>4. Owns(r, k)
        BY <3>3, <1>3
    <3>5. loc[r].key = loc'[r].key
        BY <3>1, <3>2, <3>4 DEF Owns, OwnsAt, SavedLabels
    <3>. QED BY <3>1, <3>5, <2>4 DEF OpensOK, IndInv
  <2>5. CASE q # r /\ s # r
      BY <2>1, <2>5 DEF Moves, OpensOK, IndInv
  <2>. QED BY <2>3, <2>4, <2>5
<1>6. RowsIssued'
    BY DEF RowsIssued, KeepsObjects, IndInv
<1>7. RowsHaveObjects'
    BY DEF RowsHaveObjects, KeepsObjects, IndInv
<1>8. SoleReference'
  <2>1. \A i \in DOMAIN files : files[i].key \in Key
      BY DEF IndInv, TypeOK, TablesOK, FileRow
  <2>. QED BY <2>1, <1>3 DEF SoleReference, KeepsObjects, IndInv
<1>9. NoOrphan'
  <2>1. \A m \in Mount : \A k \in DOMAIN disk[m] : k \in Key
      BY DEF IndInv, TypeOK, TablesOK
  <2>2. \A q \in Request, k \in Key : Owns(q, k) => loc'[q].mount = loc[q].mount
      BY DEF Moves, KeepsOwned
  <2>3. NoOrphan
      BY DEF IndInv
  <2>4. SUFFICES ASSUME NEW m \in Mount, NEW k \in DOMAIN disk[m]
                 PROVE  \/ \E i \in DOMAIN files' : files'[i].mount = m /\ files'[i].key = k
                        \/ \E q \in Request : Owns(q, k)' /\ loc'[q].mount = m
                        \/ k \in leaked'
      BY DEF NoOrphan, KeepsObjects
  <2>5. CASE \E i \in DOMAIN files : files[i].mount = m /\ files[i].key = k
      BY <2>5 DEF KeepsObjects
  <2>6. CASE \E q \in Request : Owns(q, k) /\ loc[q].mount = m
    <3>1. PICK q \in Request : Owns(q, k) /\ loc[q].mount = m
        BY <2>6
    <3>2. Owns(q, k)' /\ loc'[q].mount = m
        BY <3>1, <2>1, <2>2, <1>3
    <3>. QED BY <3>2
  <2>7. CASE k \in leaked
      BY <2>7 DEF KeepsObjects
  <2>. QED BY <2>3, <2>5, <2>6, <2>7 DEF NoOrphan
<1>. QED
    BY <1>1, <1>2, <1>4, <1>5, <1>6, <1>7, <1>8, <1>9 DEF IndInv

(***************************************************************************)
(* Steps that read, and steps that answer.                                 *)
(***************************************************************************)
(* A statement that only reads leaves tables typed and objects alone.       *)
LEMMA ReadOnly ==
    ASSUME TypeOK, UNCHANGED world
    PROVE  TablesOK' /\ KeepsObjects
BY DEF TypeOK, TablesOK, KeepsObjects, world

(* Become moves one request, to the label and the locals it names.          *)
LEMMA BecomeMoves ==
    ASSUME TypeOK, NEW r \in Request, NEW rec \in Local, NEW label \in Labels,
           Become(r, rec, label)
    PROVE  Moves(r) /\ pc'[r] = label /\ loc'[r] = rec
BY DEF TypeOK, Become, Moves

(* The statuses the handlers answer with; 200 is for downloads only.        *)
LEMMA StatusOK ==
    ASSUME NEW op \in Operations
    PROVE  /\ FailStatus[op] \in {400, 404}
           /\ OkStatus[op] \in {200, 201, 204}
           /\ op # "download" => OkStatus[op] \in {201, 204}
BY DEF FailStatus, OkStatus, Operations

(* Labels at which a request holds no object of its own.                    *)
FreeLabels == Labels \ (SavedLabels \cup {"remove"})

(* A handler's answer changes the status among its locals, and no other.    *)
LEMMA ReplyMoves ==
    ASSUME TypeOK, NEW r \in Request, NEW rec \in Local,
           NEW s \in {200, 201, 204, 400, 404, 409}, Reply(r, rec, s)
    PROVE  /\ Moves(r) /\ pc'[r] = "reply"
           /\ loc'[r].op = rec.op /\ loc'[r].status = s
           /\ loc'[r].data = rec.data /\ loc'[r].sum = rec.sum
<1>. DEFINE v == [rec EXCEPT !.status = s]
<1>1. v \in Local
    BY DEF Local
<1>2. Become(r, v, "reply")
    BY DEF Reply
<1>3. "reply" \in Labels
    BY DEF Labels
<1>4. Moves(r) /\ pc'[r] = "reply" /\ loc'[r] = v
  <2>. HIDE DEF v
  <2>. QED BY <1>1, <1>2, <1>3, BecomeMoves
<1>5. /\ v.op = rec.op /\ v.status = s
      /\ v.data = rec.data /\ v.sum = rec.sum
    BY DEF Local
<1>. HIDE DEF v
<1>. QED BY <1>4, <1>5

(* Answering, with anything but the body of a download, is quiet.           *)
LEMMA ReplyStep ==
    ASSUME IndInv, NEW r \in Request, NEW rec \in Local,
           NEW s \in {201, 204, 400, 404, 409}, Reply(r, rec, s),
           rec.op \in Operations, pc[r] \in FreeLabels, TablesOK', KeepsObjects
    PROVE  IndInv'
<1>1. TypeOK /\ s \in {200, 201, 204, 400, 404, 409}
    BY DEF IndInv
<1>2. /\ Moves(r) /\ pc'[r] = "reply"
      /\ loc'[r].op = rec.op /\ loc'[r].status = s
    BY <1>1, ReplyMoves
<1>3. At(pc[r], loc[r])'
    BY <1>2 DEF At, LocalsAt, BodyAt, HashedAt, WorldAt, SaveLabels, SavedLabels
<1>4. KeepsOwned(r)
    BY <1>2 DEF KeepsOwned, Owns, OwnsAt, FreeLabels, SavedLabels
<1>. QED BY <1>2, <1>3, <1>4, QuietStep

(* A plain failure before anything was stored is safe.                      *)
LEMMA FailStep ==
    ASSUME IndInv, NEW r \in Request, Fail(r), UNCHANGED world,
           pc[r] \in FreeLabels, pc[r] # "idle"
    PROVE  IndInv'
<1>1. loc[r] \in Local /\ loc[r].op \in Operations
    BY DEF IndInv, TypeOK, At, LocalsAt
<1>2. FailStatus[loc[r].op] \in {201, 204, 400, 404, 409}
    BY <1>1, StatusOK
<1>3. TablesOK' /\ KeepsObjects
    BY ReadOnly DEF IndInv
<1>. QED BY <1>1, <1>2, <1>3, ReplyStep DEF Fail

(* A step that only reads and takes r from one free label to another.       *)
LEMMA ReadStep ==
    ASSUME IndInv, NEW r \in Request, NEW rec \in Local, NEW label \in FreeLabels,
           Become(r, rec, label), UNCHANGED world, pc[r] \in FreeLabels,
           At(label, rec),
           label = "open" => \A q \in Request \ {r} :
               pc[q] \in SavedLabels => loc[q].key # rec.src
    PROVE  IndInv'
<1>1. label \in Labels
    BY DEF FreeLabels
<1>2. Moves(r) /\ pc'[r] = label /\ loc'[r] = rec
    BY <1>1, BecomeMoves DEF IndInv
<1>3. TablesOK' /\ KeepsObjects
    BY ReadOnly DEF IndInv
<1>4. At(pc[r], loc[r])'
    BY <1>2 DEF At, LocalsAt, BodyAt, WorldAt, world
<1>5. KeepsOwned(r)
    BY <1>2 DEF KeepsOwned, Owns, OwnsAt, FreeLabels
<1>. QED BY <1>2, <1>3, <1>4, <1>5, QuietStep

(* Labels at which nothing is required of the locals but an operation.      *)
PlainLabels == {"findFile", "findTrashed", "softDelete", "restoreRow", "exists",
                "moveRow", "count", "deleteFolderRow"}

(* Going to a statement that relies on nothing but the operation is safe.   *)
LEMMA PlainStep ==
    ASSUME IndInv, NEW r \in Request, NEW rec \in Local, NEW label \in PlainLabels,
           Become(r, rec, label), UNCHANGED world, pc[r] \in FreeLabels,
           rec.op \in Operations, label # "findFile" => rec.op # "download"
    PROVE  IndInv'
<1>1. label \in FreeLabels /\ label # "open"
    BY DEF FreeLabels, PlainLabels, SavedLabels, Labels
<1>2. At(label, rec)
    BY DEF At, LocalsAt, BodyAt, HashedAt, WorldAt, PlainLabels, SaveLabels, SavedLabels
<1>. QED BY <1>1, <1>2, ReadStep

(* Upload, once mounts.Get found the disk: the body is about to be stored.  *)
LEMMA SaveOnStep ==
    ASSUME IndInv, NEW r \in Request, NEW rec \in Local, SaveOn(r, rec),
           UNCHANGED world, pc[r] \in FreeLabels, rec.op = "upload",
           rec.data \in Content, rec.name \in Name \cup {BadName}
    PROVE  IndInv'
<1>1. CASE Mounted(rec.mount)
  <2>. DEFINE v == [rec EXCEPT !.mount = Resolve(rec.mount)]
  <2>1. v \in Local /\ v.mount \in Mount
      BY DefaultAssumption DEF Local, Resolve
  <2>2. v.op = "upload" /\ v.data \in Content /\ v.name \in Name \cup {BadName}
      BY DEF Local
  <2>3. Become(r, v, "create")
      BY <1>1 DEF SaveOn
  <2>. HIDE DEF v
  <2>4. "create" \in FreeLabels
      BY DEF FreeLabels, Labels, SavedLabels
  <2>5. At("create", v)
      BY <2>1, <2>2 DEF At, LocalsAt, BodyAt, HashedAt, WorldAt, SaveLabels,
                        SavedLabels, Operations
  <2>. QED BY <2>1, <2>3, <2>4, <2>5, ReadStep
<1>2. CASE ~Mounted(rec.mount)
  <2>1. Reply(r, rec, 400)
      BY <1>2 DEF SaveOn
  <2>2. TablesOK' /\ KeepsObjects /\ rec.op \in Operations
      BY ReadOnly DEF IndInv, Operations
  <2>. QED BY <2>1, <2>2, ReplyStep
<1>. QED BY <1>1, <1>2

(* CreateFolder, once mounts.Get found the disk and the name was validated. *)
LEMMA MakeFolderStep ==
    ASSUME IndInv, NEW r \in Request, NEW rec \in Local,
           NEW label \in {"checkParent", "insertFolder"},
           MakeFolder(r, rec, label), UNCHANGED world, pc[r] \in FreeLabels,
           rec.op = "createFolder", rec.name \in Name
    PROVE  IndInv'
<1>1. CASE Mounted(rec.mount)
  <2>1. Become(r, rec, label)
      BY <1>1 DEF MakeFolder
  <2>2. label \in FreeLabels /\ label # "open"
      BY DEF FreeLabels, Labels, SavedLabels
  <2>3. At(label, rec)
      BY DEF At, LocalsAt, BodyAt, HashedAt, WorldAt, SaveLabels, SavedLabels, Operations
  <2>. QED BY <2>1, <2>2, <2>3, ReadStep
<1>2. CASE ~Mounted(rec.mount)
  <2>1. Reply(r, rec, 400)
      BY <1>2 DEF MakeFolder
  <2>2. TablesOK' /\ KeepsObjects /\ rec.op \in Operations
      BY ReadOnly DEF IndInv, Operations
  <2>. QED BY <2>1, <2>2, ReplyStep
<1>. QED BY <1>1, <1>2

(***************************************************************************)
(* A request arrives.                                                      *)
(***************************************************************************)
(* The locals of a handler that has not started are typed.                  *)
LEMMA BlankOK == Blank \in Local
BY DEF Blank, Local

(* The handlers that only take a file id preserve the invariant.            *)
LEMMA BeginOnFileStep ==
    ASSUME IndInv, NEW r \in Request, NEW op \in Operations,
           NEW label \in PlainLabels, BeginOnFile(r, op, label),
           label # "findFile" => op # "download"
    PROVE  IndInv'
<1>1. PICK i \in KnownFiles : Become(r, [Blank EXCEPT !.op = op, !.id = i], label)
    BY DEF BeginOnFile
<1>. DEFINE rec == [Blank EXCEPT !.op = op, !.id = i]
<1>2. rec \in Local /\ rec.op = op
    BY DEF Blank, Local, KnownFiles
<1>3. UNCHANGED world /\ pc[r] \in FreeLabels
    BY DEF BeginOnFile, Arrives, FreeLabels, Labels, SavedLabels
<1>4. Become(r, rec, label)
    BY <1>1
<1>. HIDE DEF rec
<1>. QED BY <1>2, <1>3, <1>4, PlainStep

(* The variables of a request that has just arrived.                        *)
LEMMA NewRequest ==
    ASSUME NEW op \in Operations
    PROVE  LET v == [Blank EXCEPT !.op = op] IN v \in Local /\ v.op = op
<1>1. Blank \in Local
    BY DEF Blank, Local
<1>. QED BY <1>1 DEF Local

(* The variables of a request for a file or a folder.                       *)
LEMMA NewRequestOn ==
    ASSUME NEW op \in Operations, NEW i \in FileId \cup FolderId
    PROVE  LET v == [Blank EXCEPT !.op = op, !.id = i] IN v \in Local /\ v.op = op
<1>. DEFINE u == [Blank EXCEPT !.op = op]
<1>1. u \in Local /\ u.op = op
    BY NewRequest
<1>2. [Blank EXCEPT !.op = op, !.id = i] = [u EXCEPT !.id = i]
    OBVIOUS
<1>. HIDE DEF u
<1>3. [u EXCEPT !.id = i] \in Local /\ [u EXCEPT !.id = i].op = op
    BY <1>1 DEF Local
<1>. QED BY <1>2, <1>3

(* The arrival of any request preserves the invariant.                      *)
LEMMA BeginStep ==
    ASSUME IndInv, NEW r \in Request, Begin(r)
    PROVE  IndInv'
<1>. USE DEF Arrives
<1>1. pc[r] = "idle" => pc[r] \in FreeLabels
    BY DEF FreeLabels, Labels, SavedLabels
<1>2. \A d \in KnownDirs : d \in FolderId \cup {Root}
    BY DEF KnownDirs
<1>3. UNCHANGED world => TablesOK' /\ KeepsObjects
    BY ReadOnly DEF IndInv
<1>4. CASE BeginUpload(r)
  <2>1. PICK d \in KnownDirs, m \in Mount \cup {NoMount}, c \in Content,
             n \in Name \cup {BadName} :
          LET rec == [Blank EXCEPT !.op = "upload", !.dir = d, !.mount = m,
                                   !.data = c, !.name = n]
          IN  IF d = Root THEN SaveOn(r, rec) ELSE Become(r, rec, "findFolder")
      BY <1>4 DEF BeginUpload
  <2>. DEFINE rec == [Blank EXCEPT !.op = "upload", !.dir = d, !.mount = m,
                                   !.data = c, !.name = n]
  <2>2. /\ rec \in Local /\ rec.op = "upload" /\ rec.data \in Content
        /\ rec.name \in Name \cup {BadName}
    <3>. DEFINE u == [Blank EXCEPT !.op = "upload"]
                v == [u EXCEPT !.dir = d]
    <3>0. u \in Local /\ u.op = "upload"
        BY NewRequest DEF Operations
    <3>1. v \in Local /\ v.op = "upload"
      <4>. HIDE DEF u
      <4>. QED BY <1>2, <3>0 DEF Local
    <3>. DEFINE w == [v EXCEPT !.mount = m]
                x == [w EXCEPT !.data = c]
    <3>2. w \in Local /\ w.op = "upload"
      <4>. HIDE DEF v
      <4>. QED BY <3>1 DEF Local
    <3>3. x \in Local /\ x.op = "upload" /\ x.data \in Content
      <4>. HIDE DEF w
      <4>. QED BY <3>2 DEF Local
    <3>4. rec = [x EXCEPT !.name = n]
        OBVIOUS
    <3>. HIDE DEF rec, x
    <3>. QED BY <3>3, <3>4 DEF Local
  <2>3. UNCHANGED world /\ pc[r] \in FreeLabels
      BY <1>1, <1>4 DEF BeginUpload
  <2>4. IF d = Root THEN SaveOn(r, rec) ELSE Become(r, rec, "findFolder")
      BY <2>1
  <2>. HIDE DEF rec
  <2>5. CASE d = Root
      BY <2>2, <2>3, <2>4, <2>5, SaveOnStep
  <2>6. CASE d # Root
    <3>1. At("findFolder", rec) /\ "findFolder" \in FreeLabels
        BY <2>2 DEF At, LocalsAt, BodyAt, HashedAt, WorldAt, SaveLabels,
                    SavedLabels, Operations, FreeLabels, Labels
    <3>. QED BY <2>2, <2>3, <2>4, <2>6, <3>1, ReadStep
  <2>. QED BY <2>5, <2>6
<1>5. CASE BeginCopy(r)
  <2>1. PICK i \in KnownFiles, d \in KnownDirs :
          Become(r, [Blank EXCEPT !.op = "copy", !.id = i, !.dir = d], "findFile")
      BY <1>5 DEF BeginCopy
  <2>. DEFINE rec == [Blank EXCEPT !.op = "copy", !.id = i, !.dir = d]
  <2>2. rec \in Local /\ rec.op \in Operations \ {"download"}
    <3>1. i \in FileId \cup FolderId
        BY DEF KnownFiles
    <3>. DEFINE v == [Blank EXCEPT !.op = "copy", !.id = i]
    <3>2. /\ v \in Local /\ v.op = "copy" /\ "copy" \in Operations
          /\ rec = [v EXCEPT !.dir = d]
        BY <3>1, NewRequestOn DEF Operations
    <3>. HIDE DEF v, rec
    <3>3. rec \in Local /\ rec.op = "copy"
        BY <1>2, <3>2 DEF Local
    <3>. QED BY <3>2, <3>3
  <2>3. Become(r, rec, "findFile")
      BY <2>1
  <2>. HIDE DEF rec
  <2>4. UNCHANGED world /\ pc[r] \in FreeLabels /\ "findFile" \in PlainLabels
      BY <1>1, <1>5 DEF BeginCopy, PlainLabels
  <2>. QED BY <2>2, <2>3, <2>4, PlainStep
<1>6. CASE BeginMove(r)
  <2>1. PICK i \in KnownFiles, d \in KnownDirs :
          Become(r, [Blank EXCEPT !.op = "move", !.id = i, !.dir = d],
                 IF d = Root THEN "moveRow" ELSE "findFile")
      BY <1>6 DEF BeginMove
  <2>. DEFINE rec == [Blank EXCEPT !.op = "move", !.id = i, !.dir = d]
              label == IF d = Root THEN "moveRow" ELSE "findFile"
  <2>2. rec \in Local /\ rec.op \in Operations \ {"download"}
    <3>1. i \in FileId \cup FolderId
        BY DEF KnownFiles
    <3>. DEFINE v == [Blank EXCEPT !.op = "move", !.id = i]
    <3>2. /\ v \in Local /\ v.op = "move" /\ "move" \in Operations
          /\ rec = [v EXCEPT !.dir = d]
        BY <3>1, NewRequestOn DEF Operations
    <3>. HIDE DEF v, rec
    <3>3. rec \in Local /\ rec.op = "move"
        BY <1>2, <3>2 DEF Local
    <3>. QED BY <3>2, <3>3
  <2>3. Become(r, rec, label)
      BY <2>1
  <2>4. label \in PlainLabels
      BY DEF PlainLabels
  <2>. HIDE DEF rec, label
  <2>5. UNCHANGED world /\ pc[r] \in FreeLabels
      BY <1>1, <1>6 DEF BeginMove
  <2>. QED BY <2>2, <2>3, <2>4, <2>5, PlainStep
<1>7. CASE BeginRename(r)
  <2>1. PICK i \in KnownFiles, n \in Name \cup {BadName} :
          LET rec == [Blank EXCEPT !.op = "rename", !.id = i, !.name = n]
          IN  IF n = BadName THEN Reply(r, rec, 404) ELSE Become(r, rec, "renameRow")
      BY <1>7 DEF BeginRename
  <2>. DEFINE rec == [Blank EXCEPT !.op = "rename", !.id = i, !.name = n]
  <2>2. rec \in Local /\ rec.op = "rename" /\ rec.op \in Operations /\ rec.name = n
    <3>1. i \in FileId \cup FolderId
        BY DEF KnownFiles
    <3>. DEFINE v == [Blank EXCEPT !.op = "rename", !.id = i]
    <3>2. /\ v \in Local /\ v.op = "rename" /\ "rename" \in Operations
          /\ rec = [v EXCEPT !.name = n]
        BY <3>1, NewRequestOn DEF Operations
    <3>. HIDE DEF v, rec
    <3>3. rec \in Local /\ rec.op = "rename" /\ rec.name = n
        BY <1>2, <3>2 DEF Local
    <3>. QED BY <3>2, <3>3
  <2>3. IF n = BadName THEN Reply(r, rec, 404) ELSE Become(r, rec, "renameRow")
      BY <2>1
  <2>. HIDE DEF rec
  <2>4. UNCHANGED world /\ pc[r] \in FreeLabels
      BY <1>1, <1>7 DEF BeginRename
  <2>5. n # BadName => At("renameRow", rec) /\ "renameRow" \in FreeLabels
      BY <2>2 DEF At, LocalsAt, BodyAt, HashedAt, WorldAt, SaveLabels,
                  SavedLabels, Operations, FreeLabels, Labels
  <2>6. n = BadName => IndInv'
      BY <1>3, <2>2, <2>3, <2>4, ReplyStep
  <2>7. n # BadName => IndInv'
      BY <2>2, <2>3, <2>4, <2>5, ReadStep
  <2>. QED BY <2>6, <2>7
<1>8. CASE BeginDownload(r)
    BY <1>8, BeginOnFileStep DEF BeginDownload, Operations, PlainLabels
<1>9. CASE BeginDelete(r)
    BY <1>9, BeginOnFileStep DEF BeginDelete, Operations, PlainLabels
<1>10. CASE BeginRestore(r)
    BY <1>10, BeginOnFileStep DEF BeginRestore, Operations, PlainLabels
<1>11. CASE BeginPurge(r)
    BY <1>11, BeginOnFileStep DEF BeginPurge, Operations, PlainLabels
<1>12. CASE BeginCreateFolder(r)
  <2>1. PICK d \in KnownDirs, m \in Mount \cup {NoMount}, n \in Name \cup {BadName} :
          LET rec == [Blank EXCEPT !.op = "createFolder", !.dir = d,
                                   !.mount = m, !.name = n]
          IN  CASE n = BadName -> Reply(r, rec, 400)
                [] n # BadName /\ d # Root -> Become(r, rec, "findFolder")
                [] n # BadName /\ d = Root -> MakeFolder(r, rec, "insertFolder")
      BY <1>12 DEF BeginCreateFolder
  <2>. DEFINE rec == [Blank EXCEPT !.op = "createFolder", !.dir = d,
                                   !.mount = m, !.name = n]
  <2>2. /\ rec \in Local /\ rec.op = "createFolder" /\ rec.op \in Operations
        /\ rec.name = n
    <3>. DEFINE u == [Blank EXCEPT !.op = "createFolder"]
                v == [u EXCEPT !.dir = d]
    <3>0. u \in Local /\ u.op = "createFolder" /\ u.op \in Operations
        BY NewRequest DEF Operations
    <3>1. v \in Local /\ v.op = "createFolder" /\ v.op \in Operations
      <4>. HIDE DEF u
      <4>. QED BY <1>2, <3>0 DEF Local
    <3>. DEFINE w == [v EXCEPT !.mount = m]
    <3>2. w \in Local /\ w.op = "createFolder" /\ w.op \in Operations
      <4>. HIDE DEF v
      <4>. QED BY <3>1 DEF Local
    <3>3. rec = [w EXCEPT !.name = n]
        OBVIOUS
    <3>. HIDE DEF rec, w
    <3>. QED BY <3>2, <3>3 DEF Local
  <2>3. /\ n = BadName => Reply(r, rec, 400)
        /\ n # BadName /\ d # Root => Become(r, rec, "findFolder")
        /\ n # BadName /\ d = Root => MakeFolder(r, rec, "insertFolder")
      BY <2>1
  <2>. HIDE DEF rec
  <2>4. UNCHANGED world /\ pc[r] \in FreeLabels
      BY <1>1, <1>12 DEF BeginCreateFolder
  <2>5. CASE n = BadName
      BY <1>3, <2>2, <2>3, <2>4, <2>5, ReplyStep
  <2>6. CASE n # BadName /\ d # Root
    <3>1. At("findFolder", rec) /\ "findFolder" \in FreeLabels
        BY <2>2, <2>6 DEF At, LocalsAt, BodyAt, HashedAt, WorldAt, SaveLabels,
                    SavedLabels, Operations, FreeLabels, Labels
    <3>. QED BY <2>2, <2>3, <2>4, <2>6, <3>1, ReadStep
  <2>7. CASE n # BadName /\ d = Root
      BY <2>2, <2>3, <2>4, <2>7, MakeFolderStep
  <2>. QED BY <2>5, <2>6, <2>7
<1>13. CASE BeginRenameFolder(r)
  <2>1. PICK d \in KnownDirs \ {Root}, n \in Name \cup {BadName} :
          LET rec == [Blank EXCEPT !.op = "renameFolder", !.id = d, !.name = n]
          IN  IF n = BadName THEN Reply(r, rec, 400)
                             ELSE Become(r, rec, "renameFolderRow")
      BY <1>13 DEF BeginRenameFolder
  <2>. DEFINE rec == [Blank EXCEPT !.op = "renameFolder", !.id = d, !.name = n]
  <2>2. /\ rec \in Local /\ rec.op = "renameFolder" /\ rec.op \in Operations
        /\ rec.name = n
    <3>1. d \in FileId \cup FolderId
        BY DEF KnownDirs
    <3>. DEFINE v == [Blank EXCEPT !.op = "renameFolder", !.id = d]
    <3>2. /\ v \in Local /\ v.op = "renameFolder" /\ "renameFolder" \in Operations
          /\ rec = [v EXCEPT !.name = n]
        BY <3>1, NewRequestOn DEF Operations
    <3>. HIDE DEF v, rec
    <3>3. rec \in Local /\ rec.op = "renameFolder" /\ rec.name = n
        BY <1>2, <3>2 DEF Local
    <3>. QED BY <3>2, <3>3
  <2>3. IF n = BadName THEN Reply(r, rec, 400) ELSE Become(r, rec, "renameFolderRow")
      BY <2>1
  <2>. HIDE DEF rec
  <2>4. UNCHANGED world /\ pc[r] \in FreeLabels
      BY <1>1, <1>13 DEF BeginRenameFolder
  <2>5. n # BadName => At("renameFolderRow", rec) /\ "renameFolderRow" \in FreeLabels
      BY <2>2 DEF At, LocalsAt, BodyAt, HashedAt, WorldAt, SaveLabels,
                  SavedLabels, Operations, FreeLabels, Labels
  <2>6. n = BadName => IndInv'
      BY <1>3, <2>2, <2>3, <2>4, ReplyStep
  <2>7. n # BadName => IndInv'
      BY <2>2, <2>3, <2>4, <2>5, ReadStep
  <2>. QED BY <2>6, <2>7
<1>14. CASE BeginDeleteFolder(r)
  <2>1. PICK d \in KnownDirs \ {Root} :
          Become(r, [Blank EXCEPT !.op = "deleteFolder", !.id = d], "count")
      BY <1>14 DEF BeginDeleteFolder
  <2>. DEFINE rec == [Blank EXCEPT !.op = "deleteFolder", !.id = d]
  <2>2. rec \in Local /\ rec.op \in Operations \ {"download"}
    <3>1. d \in FileId \cup FolderId
        BY DEF KnownDirs
    <3>2. rec \in Local /\ rec.op = "deleteFolder" /\ "deleteFolder" \in Operations
        BY <3>1, NewRequestOn DEF Operations
    <3>. HIDE DEF rec
    <3>. QED BY <3>2
  <2>3. Become(r, rec, "count")
      BY <2>1
  <2>. HIDE DEF rec
  <2>4. UNCHANGED world /\ pc[r] \in FreeLabels /\ "count" \in PlainLabels
      BY <1>1, <1>14 DEF BeginDeleteFolder, PlainLabels
  <2>. QED BY <2>2, <2>3, <2>4, PlainStep
<1>. QED
    BY <1>4, <1>5, <1>6, <1>7, <1>8, <1>9, <1>10, <1>11, <1>12, <1>13, <1>14 DEF Begin

(***************************************************************************)
(* Steps of a request that change no table and no disk.                    *)
(***************************************************************************)
(* PlainStep for a request that keeps its locals.                           *)
LEMMA GotoPlain ==
    ASSUME IndInv, NEW r \in Request, NEW label \in PlainLabels, Goto(r, label),
           UNCHANGED world, pc[r] \in FreeLabels, pc[r] # "idle",
           pc[r] \notin {"findFile", "open", "audit", "reply"}
    PROVE  IndInv'
<1>1. loc[r] \in Local /\ loc[r].op \in Operations \ {"download"}
    BY DEF IndInv, TypeOK, At, LocalsAt
<1>. QED BY <1>1, PlainStep DEF Goto

(* Answering after a statement that only reads is safe.                     *)
LEMMA ReplyRead ==
    ASSUME IndInv, NEW r \in Request, NEW s \in {201, 204, 400, 404, 409},
           Reply(r, loc[r], s), UNCHANGED world, pc[r] \in FreeLabels, pc[r] # "idle"
    PROVE  IndInv'
<1>1. loc[r] \in Local /\ loc[r].op \in Operations
    BY DEF IndInv, TypeOK, At, LocalsAt
<1>2. TablesOK' /\ KeepsObjects
    BY ReadOnly DEF IndInv
<1>. QED BY <1>1, <1>2, ReplyStep

(* FindFolder, for an upload, a move or a new folder.                       *)
LEMMA FindFolderStep ==
    ASSUME IndInv, NEW r \in Request, FindFolder(r)
    PROVE  IndInv'
<1>1. pc[r] = "findFolder" /\ UNCHANGED world
    BY DEF FindFolder, FolderMissing, UploadIntoFolder, MoveIntoFolder, CreateUnderParent
<1>2. pc[r] \in FreeLabels /\ pc[r] # "idle"
    BY <1>1 DEF FreeLabels, Labels, SavedLabels
<1>3. loc[r] \in Local /\ At(pc[r], loc[r])
    BY DEF IndInv, TypeOK
<1>4. ASSUME loc[r].dir \in DOMAIN folders
      PROVE  folders[loc[r].dir].mount \in Mount \cup {NoMount}
    BY <1>4 DEF IndInv, TypeOK, TablesOK, FolderRow
<1>5. CASE FolderMissing(r)
    BY <1>1, <1>2, <1>5, FailStep DEF FolderMissing
<1>6. CASE UploadIntoFolder(r)
  <2>. DEFINE rec == [loc[r] EXCEPT !.mount = folders[loc[r].dir].mount]
  <2>1. rec \in Local /\ rec.op = loc[r].op /\ rec.data = loc[r].data /\ rec.name = loc[r].name
      BY <1>3, <1>4, <1>6 DEF UploadIntoFolder, Local
  <2>2. SaveOn(r, rec)
      BY <1>6 DEF UploadIntoFolder
  <2>. HIDE DEF rec
  <2>3. rec.op = "upload" /\ rec.data \in Content /\ rec.name \in Name \cup {BadName}
      BY <1>1, <1>3, <1>6, <2>1 DEF UploadIntoFolder, At, BodyAt, LocalsAt
  <2>. QED BY <1>1, <1>2, <2>1, <2>2, <2>3, SaveOnStep
<1>7. CASE MoveIntoFolder(r)
  <2>1. Goto(r, "exists") \/ Reply(r, loc[r], 400)
      BY <1>7 DEF MoveIntoFolder
  <2>2. "exists" \in PlainLabels
      BY DEF PlainLabels
  <2>3. CASE Goto(r, "exists")
      BY <1>1, <1>2, <2>2, <2>3, GotoPlain
  <2>4. CASE Reply(r, loc[r], 400)
      BY <1>1, <1>2, <2>4, ReplyRead
  <2>. QED BY <2>1, <2>3, <2>4
<1>8. CASE CreateUnderParent(r)
  <2>. DEFINE rec == [loc[r] EXCEPT !.mount = folders[loc[r].dir].mount]
  <2>1. rec \in Local /\ rec.op = loc[r].op /\ rec.name = loc[r].name
      BY <1>3, <1>4, <1>8 DEF CreateUnderParent, Local
  <2>2. MakeFolder(r, rec, "checkParent")
      BY <1>8 DEF CreateUnderParent
  <2>. HIDE DEF rec
  <2>3. rec.op = "createFolder" /\ rec.name \in Name
      BY <1>1, <1>3, <1>8, <2>1 DEF CreateUnderParent, At, LocalsAt
  <2>. QED BY <1>1, <1>2, <2>1, <2>2, <2>3, MakeFolderStep
<1>. QED BY <1>5, <1>6, <1>7, <1>8 DEF FindFolder

(* What WithRow copies from a row that the invariant covers.                *)
LEMMA WithRowOK ==
    ASSUME IndInv, NEW v \in Local, NEW i \in DOMAIN files
    PROVE  LET w == WithRow(v, files[i]) IN
           /\ w \in Local
           /\ w.op = v.op /\ w.id = v.id /\ w.data = v.data /\ w.status = v.status
           /\ w.mount = files[i].mount /\ w.mount \in Mount
           /\ w.src = files[i].key /\ w.src \in issued \cap Key
           /\ w.sum = files[i].sum /\ w.name \in Name
<1>1. files[i] \in FileRow /\ files[i].key \in issued
    BY DEF IndInv, TypeOK, TablesOK, RowsIssued
<1>2. /\ files[i].mount \in Mount /\ files[i].key \in Key
      /\ files[i].sum \in Sum /\ files[i].name \in Name
    BY <1>1 DEF FileRow
<1>. DEFINE a == [v EXCEPT !.mount = files[i].mount]
            b == [a EXCEPT !.src = files[i].key]
            c == [b EXCEPT !.sum = files[i].sum]
            w == [c EXCEPT !.name = files[i].name]
<1>3. /\ a \in Local /\ a.op = v.op /\ a.id = v.id /\ a.data = v.data
      /\ a.status = v.status /\ a.mount = files[i].mount
    BY <1>2 DEF Local
<1>4. /\ b \in Local /\ b.op = v.op /\ b.id = v.id /\ b.data = v.data
      /\ b.status = v.status /\ b.mount = files[i].mount /\ b.src = files[i].key
  <2>. HIDE DEF a
  <2>. QED BY <1>2, <1>3 DEF Local
<1>5. /\ c \in Local /\ c.op = v.op /\ c.id = v.id /\ c.data = v.data
      /\ c.status = v.status /\ c.mount = files[i].mount /\ c.src = files[i].key
      /\ c.sum = files[i].sum
  <2>. HIDE DEF b
  <2>. QED BY <1>2, <1>4 DEF Local
<1>6. /\ w \in Local /\ w.op = v.op /\ w.id = v.id /\ w.data = v.data
      /\ w.status = v.status /\ w.mount = files[i].mount /\ w.src = files[i].key
      /\ w.sum = files[i].sum /\ w.name = files[i].name
  <2>. HIDE DEF c
  <2>. QED BY <1>2, <1>5 DEF Local
<1>7. WithRow(v, files[i]) = w
    BY DEF WithRow
<1>. HIDE DEF w
<1>. QED BY <1>1, <1>2, <1>6, <1>7

(* FindFile: the row of a download, a copy or a move.                       *)
LEMMA FindFileStep ==
    ASSUME IndInv, NEW r \in Request, FindFile(r)
    PROVE  IndInv'
<1>1. pc[r] = "findFile" /\ UNCHANGED world
    BY DEF FindFile
<1>2. pc[r] \in FreeLabels /\ pc[r] # "idle"
    BY <1>1 DEF FreeLabels, Labels, SavedLabels
<1>3. loc[r] \in Local /\ loc[r].op \in Operations
    BY <1>1 DEF IndInv, TypeOK, At, LocalsAt
<1>4. CASE ~IsActive(loc[r].id)
    BY <1>1, <1>2, <1>4, FailStep DEF FindFile
<1>5. CASE IsActive(loc[r].id)
  <2>. DEFINE i == loc[r].id
              rec == WithRow(loc[r], files[i])
  <2>1. i \in DOMAIN files
      BY <1>5 DEF IsActive
  <2>2. /\ rec \in Local /\ rec.op = loc[r].op /\ rec.id = i
        /\ rec.mount = files[i].mount /\ rec.mount \in Mount
        /\ rec.src = files[i].key /\ rec.src \in issued \cap Key
        /\ rec.sum = files[i].sum /\ rec.name \in Name
      BY <1>3, <2>1, WithRowOK
  <2>3. \/ loc[r].op = "move" /\ Become(r, rec, "findFolder")
        \/ loc[r].op # "move" /\ Become(r, rec, "open")
        \/ Reply(r, rec, 404)
      BY <1>5 DEF FindFile
  <2>. HIDE DEF rec
  <2>4. CASE loc[r].op = "move" /\ Become(r, rec, "findFolder")
    <3>1. At("findFolder", rec) /\ "findFolder" \in FreeLabels
        BY <1>3, <2>2, <2>4 DEF At, LocalsAt, BodyAt, HashedAt, WorldAt,
               SaveLabels, SavedLabels, FreeLabels, Labels
    <3>. QED BY <1>1, <1>2, <2>2, <2>4, <3>1, ReadStep
  <2>5. CASE Become(r, rec, "open")
    <3>1. i \in issued \cap FileId
        BY <2>1 DEF IndInv, RowsIssued, TypeOK, TablesOK
    <3>2. /\ disk[rec.mount][rec.src] \in Content
          /\ Checksum[disk[rec.mount][rec.src]] = rec.sum
        BY <2>1, <2>2 DEF IndInv, RowsHaveObjects
    <3>3. LocalsAt("open", rec) /\ "open" \in FreeLabels
        BY <1>3, <2>2, <3>1 DEF LocalsAt, SaveLabels, SavedLabels, FreeLabels, Labels
    <3>4. BodyAt("open", rec) /\ WorldAt("open", rec)
        BY <3>2 DEF BodyAt, HashedAt, WorldAt
    <3>5. \A q \in Request \ {r} : pc[q] \in SavedLabels => loc[q].key # rec.src
        BY <2>1, <2>2 DEF IndInv, SoleReference, Owns, OwnsAt
    <3>. QED BY <1>1, <1>2, <2>2, <2>5, <3>3, <3>4, <3>5, ReadStep DEF At
  <2>6. CASE Reply(r, rec, 404)
    <3>1. TablesOK' /\ KeepsObjects
        BY <1>1, ReadOnly DEF IndInv
    <3>. QED BY <1>2, <1>3, <2>2, <2>6, <3>1, ReplyStep
  <2>. QED BY <2>3, <2>4, <2>5, <2>6
<1>. QED BY <1>4, <1>5

(* FindTrashedFile: the row PermanentlyDelete is about to delete.           *)
LEMMA FindTrashedStep ==
    ASSUME IndInv, NEW r \in Request, FindTrashedFile(r)
    PROVE  IndInv'
<1>1. pc[r] = "findTrashed" /\ UNCHANGED world
    BY DEF FindTrashedFile
<1>2. pc[r] \in FreeLabels /\ pc[r] # "idle"
    BY <1>1 DEF FreeLabels, Labels, SavedLabels
<1>3. loc[r] \in Local /\ loc[r].op \in Operations \ {"download"}
    BY <1>1 DEF IndInv, TypeOK, At, LocalsAt
<1>4. CASE ~IsTrashed(loc[r].id)
    BY <1>1, <1>2, <1>4, FailStep DEF FindTrashedFile
<1>5. CASE IsTrashed(loc[r].id)
  <2>. DEFINE i == loc[r].id
              rec == WithRow(loc[r], files[i])
  <2>1. i \in DOMAIN files /\ i \in issued \cap FileId
      BY <1>5 DEF IsTrashed, IndInv, RowsIssued, TypeOK, TablesOK
  <2>2. /\ rec \in Local /\ rec.op = loc[r].op /\ rec.id = i
        /\ rec.mount = files[i].mount /\ rec.mount \in Mount
        /\ rec.src = files[i].key /\ rec.src \in issued \cap Key
      BY <1>3, <2>1, WithRowOK
  <2>3. Become(r, rec, "deleteRow")
      BY <1>5 DEF FindTrashedFile
  <2>. HIDE DEF rec
  <2>4. At("deleteRow", rec) /\ "deleteRow" \in FreeLabels
      BY <1>3, <2>1, <2>2 DEF At, LocalsAt, BodyAt, HashedAt, WorldAt,
             SaveLabels, SavedLabels, FreeLabels, Labels
  <2>. QED BY <1>1, <1>2, <2>2, <2>3, <2>4, ReadStep
<1>. QED BY <1>4, <1>5

(* Open finds the object complete and as the row describes it, or gone.     *)
LEMMA OpenStep ==
    ASSUME IndInv, NEW r \in Request, Open(r)
    PROVE  IndInv'
<1>1. pc[r] = "open" /\ UNCHANGED world
    BY DEF Open
<1>2. pc[r] \in FreeLabels /\ pc[r] # "idle"
    BY <1>1 DEF FreeLabels, Labels, SavedLabels
<1>3. loc[r] \in Local /\ At("open", loc[r])
    BY <1>1 DEF IndInv, TypeOK
<1>4. CASE loc[r].src \notin DOMAIN disk[loc[r].mount]
    BY <1>1, <1>2, <1>4, FailStep DEF Open
<1>5. CASE loc[r].src \in DOMAIN disk[loc[r].mount]
  <2>. DEFINE body == disk[loc[r].mount][loc[r].src]
              rec == [loc[r] EXCEPT !.data = body]
              label == IF loc[r].op = "copy" THEN "create" ELSE "audit"
  <2>1. body \in Content /\ Checksum[body] = loc[r].sum
      BY <1>3, <1>5 DEF At, WorldAt
  <2>2. Become(r, rec, label)
      BY <1>5 DEF Open
  <2>. HIDE DEF body
  <2>3. /\ rec \in Local /\ rec.op = loc[r].op /\ rec.id = loc[r].id
        /\ rec.mount = loc[r].mount /\ rec.name = loc[r].name
        /\ rec.data = body /\ rec.sum = loc[r].sum
      BY <1>3, <2>1 DEF Local
  <2>. HIDE DEF rec
  <2>4. LocalsAt(label, rec) /\ label \in FreeLabels /\ label # "open"
      BY <1>3, <2>3 DEF At, LocalsAt, SaveLabels, SavedLabels, FreeLabels, Labels
  <2>5. BodyAt(label, rec) /\ WorldAt(label, rec)
      BY <2>1, <2>3 DEF BodyAt, HashedAt, WorldAt
  <2>. HIDE DEF label
  <2>. QED BY <1>1, <1>2, <2>2, <2>3, <2>4, <2>5, ReadStep DEF At
<1>. QED BY <1>4, <1>5

(* A step between labels at which a request holds an object of its own.     *)
LEMMA SavedStep ==
    ASSUME IndInv, NEW r \in Request, NEW rec \in Local, NEW label \in SavedLabels,
           Become(r, rec, label), UNCHANGED world, pc[r] \in SavedLabels,
           rec.key = loc[r].key, rec.mount = loc[r].mount, At(label, rec)
    PROVE  IndInv'
<1>1. label \in Labels
    BY DEF Labels, SavedLabels
<1>2. Moves(r) /\ pc'[r] = label /\ loc'[r] = rec
    BY <1>1, BecomeMoves DEF IndInv
<1>3. TablesOK' /\ KeepsObjects
    BY ReadOnly DEF IndInv
<1>4. At(pc[r], loc[r])'
    BY <1>2 DEF At, LocalsAt, BodyAt, WorldAt, world
<1>5. KeepsOwned(r)
    BY <1>2 DEF KeepsOwned, Owns, OwnsAt, SavedLabels
<1>. QED BY <1>2, <1>3, <1>4, <1>5, QuietStep

(* FindActiveByChecksum: a duplicate, or none.                              *)
LEMMA LookupStep ==
    ASSUME IndInv, NEW r \in Request, FindActiveByChecksum(r)
    PROVE  IndInv'
<1>1. pc[r] = "lookup" /\ UNCHANGED world /\ pc[r] \in SavedLabels
    BY DEF FindActiveByChecksum, SavedLabels
<1>2. loc[r] \in Local /\ At("lookup", loc[r])
    BY <1>1 DEF IndInv, TypeOK
<1>3. CASE \E i \in SameContent(loc[r].mount, loc[r].sum) :
             Become(r, [loc[r] EXCEPT !.id = i], "dedupe")
  <2>1. PICK i \in SameContent(loc[r].mount, loc[r].sum) :
             Become(r, [loc[r] EXCEPT !.id = i], "dedupe")
      BY <1>3
  <2>2. i \in FileId
      BY DEF SameContent, IndInv, TypeOK, TablesOK
  <2>. DEFINE rec == [loc[r] EXCEPT !.id = i]
  <2>3. /\ rec \in Local /\ rec.op = loc[r].op /\ rec.key = loc[r].key
        /\ rec.mount = loc[r].mount /\ rec.name = loc[r].name
      BY <1>2, <2>2 DEF Local
  <2>4. Become(r, rec, "dedupe")
      BY <2>1
  <2>. HIDE DEF rec
  <2>5. At("dedupe", rec) /\ "dedupe" \in SavedLabels
      BY <1>2, <2>3 DEF At, LocalsAt, BodyAt, HashedAt, WorldAt, SaveLabels, SavedLabels
  <2>. QED BY <1>1, <2>3, <2>4, <2>5, SavedStep
<1>4. CASE Goto(r, CreateFileLabel(r))
  <2>1. /\ CreateFileLabel(r) \in {"insert", "check"}
        /\ CreateFileLabel(r) \in SavedLabels
      BY DEF CreateFileLabel, SavedLabels
  <2>2. At(CreateFileLabel(r), loc[r])
      BY <1>2, <2>1 DEF At, LocalsAt, BodyAt, HashedAt, WorldAt, SaveLabels, SavedLabels
  <2>. QED BY <1>1, <1>2, <1>4, <2>1, <2>2, SavedStep DEF Goto
<1>. QED BY <1>3, <1>4 DEF FindActiveByChecksum

(* A folder check or an INSERT that fails leads to the undo of the Save.    *)
LEMMA UndoGoto ==
    ASSUME IndInv, NEW r \in Request, UNCHANGED world, Goto(r, "undo"),
           pc[r] \in {"check", "insert"}
    PROVE  IndInv'
<1>1. loc[r] \in Local /\ At(pc[r], loc[r])
    BY DEF IndInv, TypeOK
<1>2. /\ pc[r] \in SavedLabels /\ "undo" \in SavedLabels
      /\ At("undo", loc[r])
    BY <1>1 DEF At, LocalsAt, BodyAt, HashedAt, WorldAt, SaveLabels, SavedLabels
<1>. QED BY <1>1, <1>2, SavedStep DEF Goto

(* The folder check of CreateFile, and an INSERT its foreign key refuses.   *)
LEMMA CheckFolderStep ==
    ASSUME IndInv, NEW r \in Request, CheckFolder(r) \/ InsertFileRefused(r)
    PROVE  IndInv'
<1>1. UNCHANGED world /\ pc[r] \in {"check", "insert"}
    BY DEF CheckFolder, InsertFileRefused
<1>2. CASE Goto(r, "undo")
    BY <1>1, <1>2, UndoGoto
<1>3. CASE pc[r] = "check" /\ Goto(r, "insert")
  <2>1. loc[r] \in Local /\ At(pc[r], loc[r])
      BY DEF IndInv, TypeOK
  <2>2. /\ pc[r] \in SavedLabels /\ "insert" \in SavedLabels
        /\ At("insert", loc[r])
      BY <1>3, <2>1 DEF At, LocalsAt, BodyAt, HashedAt, WorldAt, SaveLabels, SavedLabels
  <2>. QED BY <1>1, <1>3, <2>1, <2>2, SavedStep DEF Goto
<1>. QED BY <1>2, <1>3 DEF CheckFolder, InsertFileRefused

(* The remaining statements that only read, and a failing Open.             *)
LEMMA ReadingStep ==
    ASSUME IndInv, NEW r \in Request,
           \/ OpenFails(r) \/ FolderExists(r) \/ CheckParent(r)
           \/ InsertFolderRefused(r) \/ CountContents(r)
    PROVE  IndInv'
<1>1. /\ pc[r] \in {"open", "exists", "checkParent", "insertFolder", "count"}
      /\ UNCHANGED world
    BY DEF OpenFails, FolderExists, CheckParent, InsertFolderRefused, CountContents
<1>2. pc[r] \in FreeLabels /\ pc[r] # "idle"
    BY <1>1 DEF FreeLabels, Labels, SavedLabels
<1>3. "moveRow" \in PlainLabels /\ "deleteFolderRow" \in PlainLabels
    BY DEF PlainLabels
<1>4. CASE Fail(r)
    BY <1>1, <1>2, <1>4, FailStep
<1>5. CASE Reply(r, loc[r], 409)
    BY <1>1, <1>2, <1>5, ReplyRead
<1>6. CASE pc[r] # "open" /\ (Goto(r, "moveRow") \/ Goto(r, "deleteFolderRow"))
    BY <1>1, <1>2, <1>3, <1>6, GotoPlain
<1>7. CASE pc[r] = "checkParent" /\ Goto(r, "insertFolder")
  <2>1. loc[r] \in Local /\ At("checkParent", loc[r])
      BY <1>7 DEF IndInv, TypeOK
  <2>2. At("insertFolder", loc[r]) /\ "insertFolder" \in FreeLabels
      BY <2>1 DEF At, LocalsAt, BodyAt, HashedAt, WorldAt, SaveLabels, SavedLabels,
             FreeLabels, Labels
  <2>. QED BY <1>1, <1>2, <1>7, <2>1, <2>2, ReadStep DEF Goto
<1>. QED BY <1>4, <1>5, <1>6, <1>7 DEF OpenFails, FolderExists, CheckParent,
             InsertFolderRefused, CountContents

(* The answer of a request whose audit event was written, or failed to be.  *)
LEMMA AuditedStep ==
    ASSUME IndInv, NEW r \in Request, pc[r] = "audit", Succeed(r), TablesOK',
           KeepsObjects
    PROVE  IndInv'
<1>1. loc[r] \in Local /\ loc[r].op \in Operations /\ At("audit", loc[r])
    BY DEF IndInv, TypeOK, At, LocalsAt
<1>2. OkStatus[loc[r].op] \in {200, 201, 204, 400, 404, 409}
    BY <1>1, StatusOK
<1>3. /\ Moves(r) /\ pc'[r] = "reply" /\ loc'[r].op = loc[r].op
      /\ loc'[r].data = loc[r].data /\ loc'[r].sum = loc[r].sum
    BY <1>1, <1>2, ReplyMoves DEF Succeed, IndInv
<1>4. At(pc[r], loc[r])'
    BY <1>1, <1>3 DEF At, LocalsAt, BodyAt, HashedAt, WorldAt, SaveLabels, SavedLabels
<1>5. KeepsOwned(r)
    BY <1>3 DEF KeepsOwned, Owns, OwnsAt, SavedLabels
<1>. QED BY <1>3, <1>4, <1>5, QuietStep

(* Audit inserts an event about the file id the request holds.              *)
LEMMA AuditStep ==
    ASSUME IndInv, NEW r \in Request, Audit(r)
    PROVE  IndInv'
<1>1. loc[r].id \in FileId
    BY DEF IndInv, At, LocalsAt, Audit
<1>2. audit' \subseteq Audited \X FileId
  <2>1. audit \subseteq Audited \X FileId
      BY DEF IndInv, TypeOK, TablesOK
  <2>2. ({loc[r].op} \cap Audited) \X {loc[r].id} \subseteq Audited \X FileId
      BY <1>1
  <2>. QED BY <2>1, <2>2 DEF Audit
<1>3. TablesOK'
    BY <1>2 DEF IndInv, TypeOK, TablesOK, Audit
<1>4. KeepsObjects
    BY DEF KeepsObjects, Audit
<1>. QED BY <1>3, <1>4, AuditedStep DEF Audit

(* A failing statement, at each of the places where one can fail.           *)
LEMMA StatementFailsStep ==
    ASSUME IndInv, NEW r \in Request, StatementFails(r)
    PROVE  IndInv'
<1>1. UNCHANGED world /\ pc[r] \in SqlLabels
    BY DEF StatementFails
<1>2. CASE pc[r] = "lookup"
  <2>1. Goto(r, CreateFileLabel(r))
      BY <1>2 DEF StatementFails
  <2>2. loc[r] \in Local /\ At("lookup", loc[r])
      BY <1>2 DEF IndInv, TypeOK
  <2>3. /\ CreateFileLabel(r) \in {"insert", "check"}
        /\ CreateFileLabel(r) \in SavedLabels /\ pc[r] \in SavedLabels
      BY <1>2 DEF CreateFileLabel, SavedLabels
  <2>4. At(CreateFileLabel(r), loc[r])
      BY <2>2, <2>3 DEF At, LocalsAt, BodyAt, HashedAt, WorldAt, SaveLabels, SavedLabels
  <2>. QED BY <1>1, <2>1, <2>2, <2>3, <2>4, SavedStep DEF Goto
<1>3. CASE pc[r] \in {"check", "insert"}
  <2>1. Goto(r, "undo")
      BY <1>3 DEF StatementFails
  <2>. QED BY <1>1, <1>3, <2>1, UndoGoto
<1>4. CASE pc[r] = "audit"
  <2>1. Succeed(r)
      BY <1>4 DEF StatementFails
  <2>2. TablesOK' /\ KeepsObjects
      BY <1>1, ReadOnly DEF IndInv
  <2>. QED BY <1>4, <2>1, <2>2, AuditedStep
<1>5. CASE pc[r] \notin {"lookup", "check", "insert", "audit"}
  <2>1. Fail(r)
      BY <1>5 DEF StatementFails
  <2>2. pc[r] \in FreeLabels /\ pc[r] # "idle"
      BY <1>1, <1>5 DEF SqlLabels, FreeLabels, Labels, SavedLabels
  <2>. QED BY <1>1, <2>1, <2>2, FailStep
<1>. QED BY <1>2, <1>3, <1>4, <1>5

(* The end of a request.                                                    *)
LEMMA AnsweredStep ==
    ASSUME IndInv, NEW r \in Request, Answered(r)
    PROVE  IndInv'
<1>1. Become(r, Blank, "idle") /\ UNCHANGED world /\ pc[r] \in FreeLabels
    BY DEF Answered, FreeLabels, Labels, SavedLabels
<1>2. At("idle", Blank) /\ "idle" \in FreeLabels
    BY DEF At, LocalsAt, BodyAt, HashedAt, WorldAt, SaveLabels, SavedLabels,
           FreeLabels, Labels
<1>. QED BY <1>1, <1>2, BlankOK, ReadStep

(***************************************************************************)
(* Statements that change rows and leave every object alone.               *)
(***************************************************************************)
(* An UPDATE of one row that keeps its key, disk and checksum.              *)
LEMMA SetFileKeeps ==
    ASSUME IndInv, NEW i \in DOMAIN files, NEW row \in FileRow, SetFile(i, row),
           row.key = files[i].key, row.mount = files[i].mount, row.sum = files[i].sum
    PROVE  TablesOK' /\ KeepsObjects
BY DEF SetFile, IndInv, TypeOK, TablesOK, KeepsObjects

(* A successful statement on a row is followed by the audit statement.      *)
LEMMA ToAudit ==
    ASSUME IndInv, NEW r \in Request, Goto(r, "audit"), TablesOK', KeepsObjects,
           pc[r] \in FreeLabels, loc[r].id \in FileId,
           loc[r].op \in Operations \ {"download"}
    PROVE  IndInv'
<1>1. loc[r] \in Local /\ "audit" \in Labels
    BY DEF IndInv, TypeOK, Labels
<1>2. Moves(r) /\ pc'[r] = "audit" /\ loc'[r] = loc[r]
    BY <1>1, BecomeMoves DEF Goto, IndInv
<1>3. At(pc[r], loc[r])'
    BY <1>2 DEF At, LocalsAt, BodyAt, HashedAt, WorldAt, SaveLabels, SavedLabels
<1>4. KeepsOwned(r)
    BY <1>2 DEF KeepsOwned, Owns, OwnsAt, FreeLabels, SavedLabels
<1>. QED BY <1>2, <1>3, <1>4, QuietStep

(* A successful answer of any operation but a download is safe.             *)
LEMMA SucceedStep ==
    ASSUME IndInv, NEW r \in Request, Succeed(r), TablesOK', KeepsObjects,
           pc[r] \in FreeLabels, loc[r].op \in Operations \ {"download"}
    PROVE  IndInv'
<1>1. loc[r] \in Local
    BY DEF IndInv, TypeOK
<1>2. OkStatus[loc[r].op] \in {201, 204, 400, 404, 409}
    BY StatusOK
<1>. QED BY <1>1, <1>2, ReplyStep DEF Succeed

TableLabels == {"softDelete", "restoreRow", "renameRow", "moveRow",
                "insertFolder", "renameFolderRow", "deleteFolderRow"}

(* Facts about a request that is about to change a row.                     *)
LEMMA AtTable ==
    ASSUME IndInv, NEW r \in Request, pc[r] \in TableLabels
    PROVE  /\ pc[r] \in FreeLabels /\ pc[r] # "idle"
           /\ loc[r] \in Local /\ loc[r].op \in Operations \ {"download"}
<1>1. pc[r] \in FreeLabels /\ pc[r] \notin {"idle", "findFile", "open", "audit", "reply"}
    BY DEF TableLabels, FreeLabels, Labels, SavedLabels
<1>. QED BY <1>1 DEF IndInv, TypeOK, At, LocalsAt

(* SoftDeleteFile, RestoreFile, RenameFile and MoveFile.                    *)
LEMMA UpdateFileStep ==
    ASSUME IndInv, NEW r \in Request,
           SoftDeleteFile(r) \/ RestoreFile(r) \/ RenameFile(r) \/ MoveFile(r)
    PROVE  IndInv'
<1>. DEFINE i == loc[r].id
<1>1. pc[r] \in TableLabels
    BY DEF SoftDeleteFile, RestoreFile, RenameFile, MoveFile, TableLabels
<1>2. /\ pc[r] \in FreeLabels /\ pc[r] # "idle"
      /\ loc[r] \in Local /\ loc[r].op \in Operations \ {"download"}
    BY <1>1, AtTable
<1>3. CASE Fail(r) /\ UNCHANGED world
    BY <1>2, <1>3, FailStep
<1>4. ASSUME i \in DOMAIN files
      PROVE  files[i] \in FileRow /\ i \in FileId
    BY <1>4 DEF IndInv, TypeOK, TablesOK
<1>5. ASSUME i \in DOMAIN files, NEW t \in BOOLEAN,
             SetFile(i, [files[i] EXCEPT !.trashed = t]), Goto(r, "audit")
      PROVE  IndInv'
  <2>. DEFINE row == [files[i] EXCEPT !.trashed = t]
  <2>1. /\ row \in FileRow /\ row.key = files[i].key
        /\ row.mount = files[i].mount /\ row.sum = files[i].sum
      BY <1>4, <1>5 DEF FileRow
  <2>2. SetFile(i, row)
      BY <1>5
  <2>. HIDE DEF row
  <2>3. TablesOK' /\ KeepsObjects
      BY <1>5, <2>1, <2>2, SetFileKeeps
  <2>. QED BY <1>2, <1>4, <1>5, <2>3, ToAudit
<1>6. CASE RenameFile(r) /\ IsActive(i) /\ Succeed(r)
             /\ SetFile(i, [files[i] EXCEPT !.name = loc[r].name])
  <2>. DEFINE row == [files[i] EXCEPT !.name = loc[r].name]
  <2>1. i \in DOMAIN files /\ loc[r].name \in Name
      BY <1>6 DEF RenameFile, IsActive, IndInv, At, LocalsAt
  <2>2. /\ row \in FileRow /\ row.key = files[i].key
        /\ row.mount = files[i].mount /\ row.sum = files[i].sum
      BY <1>4, <2>1 DEF FileRow
  <2>3. SetFile(i, row)
      BY <1>6
  <2>. HIDE DEF row
  <2>4. TablesOK' /\ KeepsObjects
      BY <2>1, <2>2, <2>3, SetFileKeeps
  <2>. QED BY <1>2, <1>6, <2>4, SucceedStep
<1>7. CASE MoveFile(r) /\ IsActive(i) /\ Succeed(r)
             /\ SetFile(i, [files[i] EXCEPT !.dir = loc[r].dir])
  <2>. DEFINE row == [files[i] EXCEPT !.dir = loc[r].dir]
  <2>1. i \in DOMAIN files /\ loc[r].dir \in FolderId \cup {Root}
      BY <1>2, <1>7 DEF IsActive, Local
  <2>2. /\ row \in FileRow /\ row.key = files[i].key
        /\ row.mount = files[i].mount /\ row.sum = files[i].sum
      BY <1>4, <2>1 DEF FileRow
  <2>3. SetFile(i, row)
      BY <1>7
  <2>. HIDE DEF row
  <2>4. TablesOK' /\ KeepsObjects
      BY <2>1, <2>2, <2>3, SetFileKeeps
  <2>. QED BY <1>2, <1>7, <2>4, SucceedStep
<1>8. CASE SoftDeleteFile(r)
    BY <1>3, <1>5, <1>8 DEF SoftDeleteFile, NoRow, IsActive
<1>9. CASE RestoreFile(r)
    BY <1>3, <1>5, <1>9 DEF RestoreFile, NoRow, IsTrashed
<1>10. CASE RenameFile(r)
    BY <1>3, <1>6, <1>10 DEF RenameFile, NoRow
<1>11. CASE MoveFile(r)
    BY <1>3, <1>7, <1>11 DEF MoveFile, NoRow
<1>. QED BY <1>8, <1>9, <1>10, <1>11

(* CreateFolder, RenameFolder and DeleteFolder, the cascade included.       *)
LEMMA FolderStep ==
    ASSUME IndInv, NEW r \in Request,
           InsertFolder(r) \/ RenameFolder(r) \/ DeleteFolder(r)
    PROVE  IndInv'
<1>1. pc[r] \in TableLabels
    BY DEF InsertFolder, RenameFolder, DeleteFolder, TableLabels
<1>2. /\ pc[r] \in FreeLabels /\ pc[r] # "idle"
      /\ loc[r] \in Local /\ loc[r].op \in Operations \ {"download"}
    BY <1>1, AtTable
<1>3. CASE Fail(r) /\ UNCHANGED world
    BY <1>2, <1>3, FailStep
<1>4. CASE InsertFolder(r)
  <2>1. PICK f \in FolderId \ issued :
          /\ folders' = Put(folders, f, [parent |-> loc[r].dir,
                               mount |-> loc[r].mount, name |-> loc[r].name])
          /\ issued' = issued \cup {f}
      BY <1>4 DEF InsertFolder
  <2>2. loc[r].name \in Name
      BY <1>4 DEF InsertFolder, IndInv, At, LocalsAt
  <2>3. [parent |-> loc[r].dir, mount |-> loc[r].mount, name |-> loc[r].name] \in FolderRow
      BY <1>2, <2>2 DEF FolderRow, Local
  <2>4. TablesOK'
      BY <1>4, <2>1, <2>3 DEF InsertFolder, Put, IndInv, TypeOK, TablesOK
  <2>5. KeepsObjects
      BY <1>4, <2>1 DEF InsertFolder, KeepsObjects
  <2>. QED BY <1>2, <1>4, <2>4, <2>5, SucceedStep DEF InsertFolder
<1>5. ASSUME RenameFolder(r), loc[r].id \in DOMAIN folders, Succeed(r),
             folders' = [folders EXCEPT ![loc[r].id].name = loc[r].name],
             UNCHANGED <<files, disk, audit, mounted, issued, leaked>>
      PROVE  IndInv'
  <2>1. loc[r].id \in DOMAIN folders
      BY <1>5
  <2>2. loc[r].name \in Name
      BY <1>5 DEF RenameFolder, IndInv, At, LocalsAt
  <2>3. \A f \in DOMAIN folders' : folders'[f] \in FolderRow
      BY <1>5, <2>2 DEF IndInv, TypeOK, TablesOK, FolderRow
  <2>4. TablesOK'
      BY <1>5, <2>3 DEF IndInv, TypeOK, TablesOK
  <2>5. KeepsObjects
      BY <1>5 DEF KeepsObjects
  <2>. QED BY <1>2, <1>5, <2>4, <2>5, SucceedStep
<1>6. ASSUME NEW gone, Succeed(r), folders' = Drop(folders, gone),
             files' = [i \in DOMAIN files |->
                IF files[i].dir \in gone THEN [files[i] EXCEPT !.dir = Root]
                                         ELSE files[i]],
             UNCHANGED <<disk, audit, mounted, issued, leaked>>
      PROVE  IndInv'
  <2>1. DOMAIN files' = DOMAIN files
      BY <1>6
  <2>2. ASSUME NEW i \in DOMAIN files
        PROVE  /\ files'[i] \in FileRow /\ files'[i].key = files[i].key
               /\ files'[i].mount = files[i].mount /\ files'[i].sum = files[i].sum
    <3>1. files[i] \in FileRow
        BY DEF IndInv, TypeOK, TablesOK
    <3>. QED BY <1>6, <3>1 DEF FileRow
  <2>3. TablesOK'
      BY <1>6, <2>1, <2>2 DEF Drop, IndInv, TypeOK, TablesOK
  <2>4. KeepsObjects
      BY <1>6, <2>1, <2>2 DEF KeepsObjects
  <2>. QED BY <1>2, <1>6, <2>3, <2>4, SucceedStep
<1>7. CASE RenameFolder(r)
    BY <1>3, <1>5, <1>7 DEF RenameFolder, NoRow
<1>8. CASE DeleteFolder(r)
    BY <1>3, <1>6, <1>8 DEF DeleteFolder, NoRow
<1>. QED BY <1>4, <1>7, <1>8

(***************************************************************************)
(* Steps that change one object: k on disk m, in the hands of r alone.     *)
(***************************************************************************)
OnlyObject(m, k) == \A n \in Mount, j \in Key : (n # m \/ j # k) =>
    /\ j \in DOMAIN disk'[n] <=> j \in DOMAIN disk[n]
    /\ j \in DOMAIN disk[n] => disk'[n][j] = disk[n][j]

(* Nobody but r can reach the object: no row, no other owner.               *)
Private(r, m, k) ==
    /\ k \notin leaked
    /\ \A i \in DOMAIN files : files[i].key # k
    /\ \A q \in Request \ {r} : ~Owns(q, k)
    /\ \A j \in Key : Owns(r, j) => j = k
    /\ Owns(r, k) => loc[r].mount = m

(* Afterwards r holds the object, or it is gone, or it is abandoned.        *)
Settles(r, m, k) ==
    /\ \A j \in Key : Owns(r, j)' => j = k
    /\ \/ leaked' = leaked
       \/ leaked' = leaked \cup {k} /\ ~Owns(r, k)' /\ k \in issued
    /\ k \in DOMAIN disk'[m] => k \in leaked' \/ (Owns(r, k)' /\ loc'[r].mount = m)
    /\ pc'[r] # "open"
    /\ pc'[r] \in SavedLabels => loc'[r].key = k
    /\ \A q \in Request \ {r} : (pc[q] = "open" /\ loc[q].src = k) =>
         pc'[r] \notin SavedLabels
         /\ (k \in DOMAIN disk'[m] => disk'[m][k] = disk[m][k] /\ k \in DOMAIN disk[m])

(* Changing an object that one request alone can reach is safe.             *)
LEMMA ObjectStep ==
    ASSUME IndInv, NEW r \in Request, NEW m \in Mount, NEW k \in Key, Moves(r),
           TablesOK', files' = files, issued \subseteq issued',
           OnlyObject(m, k), Private(r, m, k), Settles(r, m, k), At(pc[r], loc[r])'
    PROVE  IndInv'
<1>1. TypeOK'
    BY DEF Moves, TypeOK
<1>2. \A q \in Request : At(pc[q], loc[q])'
  <2>1. ASSUME NEW q \in Request \ {r} PROVE At(pc[q], loc[q])'
    <3>1. pc'[q] = pc[q] /\ loc'[q] = loc[q] /\ At(pc[q], loc[q])
        BY DEF Moves, IndInv
    <3>2. LocalsAt(pc[q], loc[q])'
        BY <3>1 DEF At, LocalsAt
    <3>3. BodyAt(pc[q], loc[q])'
        BY <3>1 DEF At, BodyAt, HashedAt
    <3>4. ASSUME pc[q] \in {"lookup", "check", "insert"}
          PROVE  /\ loc[q].key \in DOMAIN disk'[loc[q].mount]
                 /\ disk'[loc[q].mount][loc[q].key] = loc[q].data
      <4>1. loc[q].key \in Key /\ loc[q].mount \in Mount /\ pc[q] \in SavedLabels
          BY <3>1, <3>4 DEF At, LocalsAt, SaveLabels, SavedLabels
      <4>2. loc[q].key # k
          BY <4>1 DEF Private, Owns, OwnsAt
      <4>. QED BY <3>1, <3>4, <4>1, <4>2 DEF At, WorldAt, OnlyObject
    <3>5. ASSUME pc[q] = "open", loc[q].src \in DOMAIN disk'[loc[q].mount]
          PROVE  /\ disk'[loc[q].mount][loc[q].src] \in Content
                 /\ Checksum[disk'[loc[q].mount][loc[q].src]] = loc[q].sum
      <4>1. loc[q].src \in Key /\ loc[q].mount \in Mount
          BY <3>1, <3>5 DEF At, LocalsAt
      <4>2. /\ loc[q].src \in DOMAIN disk[loc[q].mount]
            /\ disk'[loc[q].mount][loc[q].src] = disk[loc[q].mount][loc[q].src]
          BY <3>5, <4>1 DEF OnlyObject, Settles
      <4>. QED BY <3>1, <3>5, <4>2 DEF At, WorldAt
    <3>6. WorldAt(pc[q], loc[q])'
        BY <3>1, <3>4, <3>5 DEF At, WorldAt
    <3>. QED BY <3>2, <3>3, <3>6 DEF At
  <2>. QED BY <2>1
<1>3. \A q \in Request \ {r} : \A j \in Key : Owns(q, j)' <=> Owns(q, j)
    BY DEF Moves, Owns
<1>4. OwnersOK'
  <2>1. SUFFICES ASSUME NEW q \in Request, NEW j \in Key, Owns(q, j)'
                 PROVE  /\ j \notin leaked'
                        /\ \A s \in Request \ {q} : ~Owns(s, j)'
      BY DEF OwnersOK
  <2>2. CASE q = r
      BY <1>3, <2>1, <2>2 DEF Settles, Private
  <2>3. CASE q # r
    <3>1. Owns(q, j) /\ j # k
        BY <1>3, <2>1, <2>3 DEF Private
    <3>2. j \notin leaked /\ \A s \in Request \ {q} : ~Owns(s, j)
        BY <3>1 DEF IndInv, OwnersOK
    <3>3. j \notin leaked' /\ ~Owns(r, j)'
        BY <3>1, <3>2 DEF Settles
    <3>. QED BY <1>3, <3>2, <3>3
  <2>. QED BY <2>2, <2>3
<1>5. OpensOK'
  <2>1. SUFFICES ASSUME NEW q \in Request, NEW s \in Request,
                        pc'[q] = "open", pc'[s] \in SavedLabels
                 PROVE  loc'[s].key # loc'[q].src
      BY DEF OpensOK
  <2>2. q # r /\ pc[q] = "open" /\ loc'[q] = loc[q]
      BY <2>1 DEF Settles, Moves
  <2>3. CASE s = r
      BY <2>1, <2>2, <2>3 DEF Settles
  <2>4. CASE s # r
      BY <2>1, <2>2, <2>4 DEF Moves, OpensOK, IndInv
  <2>. QED BY <2>3, <2>4
<1>6. RowsIssued'
    BY DEF RowsIssued, IndInv, Settles
<1>7. \A i \in DOMAIN files : files[i].key \in Key /\ files[i].mount \in Mount
                               /\ files[i].key # k
    BY DEF IndInv, TypeOK, TablesOK, FileRow, Private
<1>8. RowsHaveObjects'
  <2>1. ASSUME NEW i \in DOMAIN files
        PROVE  /\ files[i].key \in DOMAIN disk'[files[i].mount]
               /\ disk'[files[i].mount][files[i].key] = disk[files[i].mount][files[i].key]
      BY <1>7 DEF OnlyObject, IndInv, RowsHaveObjects
  <2>. QED BY <2>1 DEF IndInv, RowsHaveObjects
<1>9. SoleReference'
  <2>1. \A i \in DOMAIN files : files[i].key \notin leaked'
      BY <1>7 DEF IndInv, SoleReference, Settles
  <2>2. \A i \in DOMAIN files, q \in Request : ~Owns(q, files[i].key)'
    <3>1. ASSUME NEW i \in DOMAIN files, NEW q \in Request PROVE ~Owns(q, files[i].key)'
      <4>1. PICK j \in Key : j = files[i].key
          BY <1>7
      <4>2. j # k /\ ~Owns(q, j)
          BY <1>7, <4>1 DEF IndInv, SoleReference
      <4>3. ~Owns(q, j)'
          BY <1>3, <4>2 DEF Settles
      <4>. QED BY <4>1, <4>3 DEF Owns
    <3>. QED BY <3>1
  <2>. QED BY <2>1, <2>2 DEF IndInv, SoleReference
<1>10. NoOrphan'
  <2>1. SUFFICES ASSUME NEW n \in Mount, NEW j \in DOMAIN disk'[n]
                 PROVE  \/ \E i \in DOMAIN files : files[i].mount = n /\ files[i].key = j
                        \/ \E q \in Request : Owns(q, j)' /\ loc'[q].mount = n
                        \/ j \in leaked'
      BY DEF NoOrphan
  <2>2. j \in Key
      BY DEF TablesOK
  <2>3. CASE n = m /\ j = k
      BY <2>1, <2>3 DEF Settles
  <2>4. CASE n # m \/ j # k
    <3>1. j \in DOMAIN disk[n]
        BY <2>1, <2>2, <2>4 DEF OnlyObject
    <3>2. \/ \E i \in DOMAIN files : files[i].mount = n /\ files[i].key = j
          \/ \E q \in Request : Owns(q, j) /\ loc[q].mount = n
          \/ j \in leaked
        BY <3>1 DEF IndInv, NoOrphan
    <3>3. CASE \E q \in Request : Owns(q, j) /\ loc[q].mount = n
      <4>1. PICK q \in Request : Owns(q, j) /\ loc[q].mount = n
          BY <3>3
      <4>2. q # r
          BY <2>2, <2>4, <4>1 DEF Private
      <4>3. Owns(q, j)' /\ loc'[q].mount = n
          BY <1>3, <2>2, <4>1, <4>2 DEF Moves
      <4>. QED BY <4>3
    <3>4. CASE j \in leaked
        BY <3>4 DEF Settles
    <3>. QED BY <3>2, <3>3, <3>4
  <2>. QED BY <2>3, <2>4
<1>. QED BY <1>1, <1>2, <1>4, <1>5, <1>6, <1>8, <1>9, <1>10 DEF IndInv

(* Writing object k on disk m changes that object and no other.             *)
LEMMA PutObject ==
    ASSUME TypeOK, NEW m \in Mount, NEW k \in Key, NEW c \in Content \cup {Partial},
           disk' = [disk EXCEPT ![m] = Put(@, k, c)]
    PROVE  /\ OnlyObject(m, k) /\ DOMAIN disk' = Mount
           /\ k \in DOMAIN disk'[m] /\ disk'[m][k] = c
           /\ \A n \in Mount : DOMAIN disk'[n] \subseteq Key
           /\ \A n \in Mount : \A j \in DOMAIN disk'[n] : disk'[n][j] \in Content \cup {Partial}
BY DEF TypeOK, TablesOK, Put, OnlyObject

(* os.Remove of object k on disk m changes that object and no other.        *)
LEMMA DropObject ==
    ASSUME TypeOK, NEW m \in Mount, NEW k \in Key,
           disk' = [disk EXCEPT ![m] = Drop(@, {k})]
    PROVE  /\ OnlyObject(m, k) /\ DOMAIN disk' = Mount /\ k \notin DOMAIN disk'[m]
           /\ \A n \in Mount : DOMAIN disk'[n] \subseteq Key
           /\ \A n \in Mount : \A j \in DOMAIN disk'[n] : disk'[n][j] \in Content \cup {Partial}
BY DEF TypeOK, TablesOK, Drop, OnlyObject

(* A key is on disk, in a row or in somebody's hands only once issued.      *)
LEMMA IssuedKeys ==
    ASSUME IndInv, NEW k \in Key, k \notin issued
    PROVE  /\ k \notin leaked
           /\ \A i \in DOMAIN files : files[i].key # k
           /\ \A q \in Request : ~Owns(q, k)
           /\ \A q \in Request : pc[q] = "open" => loc[q].src # k
<1>1. \A q \in Request : LocalsAt(pc[q], loc[q])
    BY DEF IndInv, At
<1>2. \A q \in Request : ~Owns(q, k)
    BY <1>1 DEF Owns, OwnsAt, LocalsAt, SavedLabels
<1>3. \A q \in Request : pc[q] = "open" => loc[q].src # k
    BY <1>1 DEF LocalsAt
<1>. QED BY <1>2, <1>3 DEF IndInv, RowsIssued

(* Save creates the object under a key nobody has seen.                     *)
LEMMA CreateObjectStep ==
    ASSUME IndInv, NEW r \in Request, CreateObject(r)
    PROVE  IndInv'
<1>1. PICK k \in Key \ issued :
        /\ disk' = [disk EXCEPT ![loc[r].mount] = Put(@, k, Partial)]
        /\ issued' = issued \cup {k}
        /\ Become(r, [loc[r] EXCEPT !.key = k], "write")
    BY DEF CreateObject
<1>. DEFINE m == loc[r].mount
            rec == [loc[r] EXCEPT !.key = k]
<1>2. loc[r] \in Local /\ At("create", loc[r]) /\ pc[r] = "create"
    BY DEF IndInv, TypeOK, CreateObject
<1>3. m \in Mount
    BY <1>2 DEF At, LocalsAt, SaveLabels
<1>4. /\ rec \in Local /\ rec.op = loc[r].op /\ rec.mount = m /\ rec.key = k
      /\ rec.name = loc[r].name /\ rec.data = loc[r].data /\ rec.sum = loc[r].sum
    BY <1>2 DEF Local
<1>5. Become(r, rec, "write")
    BY <1>1
<1>. HIDE DEF rec
<1>6. Moves(r) /\ pc'[r] = "write" /\ loc'[r] = rec
    BY <1>4, <1>5, BecomeMoves DEF IndInv, Labels
<1>7. /\ OnlyObject(m, k) /\ DOMAIN disk' = Mount
      /\ \A n \in Mount : DOMAIN disk'[n] \subseteq Key
      /\ \A n \in Mount : \A j \in DOMAIN disk'[n] : disk'[n][j] \in Content \cup {Partial}
    BY <1>1, <1>3, PutObject DEF IndInv
<1>8. TablesOK'
    BY <1>1, <1>7 DEF IndInv, TypeOK, TablesOK, CreateObject
<1>9. At(pc[r], loc[r])'
  <2>1. rec.name \in Name /\ rec.key \in issued' \cap Key
      BY <1>1, <1>2, <1>4 DEF CreateObject, At, LocalsAt
  <2>2. LocalsAt(pc[r], loc[r])'
      BY <1>2, <1>3, <1>4, <1>6, <2>1 DEF At, LocalsAt, SaveLabels, SavedLabels
  <2>3. BodyAt(pc[r], loc[r])' /\ WorldAt(pc[r], loc[r])'
      BY <1>2, <1>4, <1>6 DEF At, BodyAt, HashedAt, WorldAt
  <2>. QED BY <2>2, <2>3 DEF At
<1>10. /\ k \notin leaked /\ \A i \in DOMAIN files : files[i].key # k
       /\ \A q \in Request : ~Owns(q, k)
       /\ \A q \in Request : pc[q] = "open" => loc[q].src # k
    BY IssuedKeys
<1>11. Private(r, m, k)
    BY <1>2, <1>10 DEF Private, Owns, OwnsAt, SavedLabels
<1>12. Settles(r, m, k)
    BY <1>4, <1>6, <1>10 DEF CreateObject, Settles, Owns, OwnsAt, SavedLabels
<1>13. files' = files /\ issued \subseteq issued'
    BY <1>1 DEF CreateObject
<1>. HIDE DEF m
<1>. QED BY <1>3, <1>6, <1>7, <1>8, <1>9, <1>11, <1>12, <1>13, ObjectStep

(* What OwnersOK, SoleReference and the locals say of an owner.             *)
LEMMA OwnerPrivate ==
    ASSUME IndInv, NEW r \in Request, NEW k \in Key, Owns(r, k)
    PROVE  /\ loc[r] \in Local /\ At(pc[r], loc[r])
           /\ loc[r].mount \in Mount /\ k \in issued
           /\ Private(r, loc[r].mount, k)
<1>1. loc[r] \in Local /\ At(pc[r], loc[r])
    BY DEF IndInv, TypeOK
<1>2. loc[r].mount \in Mount /\ k \in issued
    BY <1>1 DEF At, LocalsAt, Owns, OwnsAt, SaveLabels
<1>3. \A j \in Key : Owns(r, j) => j = k
    BY DEF Owns, OwnsAt, SavedLabels
<1>4. Private(r, loc[r].mount, k)
    BY <1>3 DEF Private, IndInv, OwnersOK, SoleReference
<1>. QED BY <1>1, <1>2, <1>4

(* Save completes the object; its checksum is that of the body.             *)
LEMMA WriteObjectStep ==
    ASSUME IndInv, NEW r \in Request, WriteObject(r)
    PROVE  IndInv'
<1>. DEFINE m == loc[r].mount
            k == loc[r].key
<1>1. pc[r] = "write" /\ At("write", loc[r]) /\ loc[r] \in Local
    BY DEF WriteObject, IndInv, TypeOK
<1>2. k \in Key /\ k \in issued /\ loc[r].data \in Content
    BY <1>1 DEF At, LocalsAt, BodyAt, SavedLabels
<1>3. Owns(r, k)
    BY <1>1 DEF Owns, OwnsAt, SavedLabels
<1>4. m \in Mount /\ Private(r, m, k)
    BY <1>2, <1>3, OwnerPrivate
<1>5. /\ OnlyObject(m, k) /\ DOMAIN disk' = Mount
      /\ k \in DOMAIN disk'[m] /\ disk'[m][k] = loc[r].data
      /\ \A n \in Mount : DOMAIN disk'[n] \subseteq Key
      /\ \A n \in Mount : \A j \in DOMAIN disk'[n] : disk'[n][j] \in Content \cup {Partial}
    BY <1>2, <1>4, PutObject DEF WriteObject, IndInv
<1>6. TablesOK'
    BY <1>5 DEF IndInv, TypeOK, TablesOK, WriteObject
<1>7. /\ Moves(r) /\ loc'[r].op = loc[r].op /\ loc'[r].key = k /\ loc'[r].mount = m
      /\ loc'[r].data = loc[r].data /\ loc'[r].name = loc[r].name
      /\ loc'[r].sum = Checksum[loc[r].data]
      /\ pc'[r] \in {"lookup", "check", "insert"}
  <2>1. CASE loc[r].op = "upload"
    <3>. DEFINE rec == [loc[r] EXCEPT !.sum = Checksum[loc[r].data]]
    <3>1. Become(r, rec, "lookup")
        BY <2>1 DEF WriteObject
    <3>2. /\ rec \in Local /\ rec.op = loc[r].op /\ rec.key = k /\ rec.mount = m
          /\ rec.data = loc[r].data /\ rec.name = loc[r].name
          /\ rec.sum = Checksum[loc[r].data]
        BY <1>1, <1>2 DEF Local, Sum
    <3>. HIDE DEF rec
    <3>3. Moves(r) /\ pc'[r] = "lookup" /\ loc'[r] = rec
        BY <3>1, <3>2, BecomeMoves DEF IndInv, Labels
    <3>. QED BY <3>2, <3>3
  <2>2. CASE loc[r].op # "upload"
    <3>1. loc[r].op = "copy" /\ loc[r].sum = Checksum[loc[r].data]
        BY <1>1, <2>2 DEF At, LocalsAt, BodyAt, HashedAt, SaveLabels, SavedLabels
    <3>2. Become(r, loc[r], CreateFileLabel(r))
        BY <2>2 DEF WriteObject, Goto
    <3>3. CreateFileLabel(r) \in {"check", "insert"} /\ CreateFileLabel(r) \in Labels
        BY DEF CreateFileLabel, Labels
    <3>4. Moves(r) /\ pc'[r] = CreateFileLabel(r) /\ loc'[r] = loc[r]
        BY <1>1, <3>2, <3>3, BecomeMoves DEF IndInv
    <3>. QED BY <3>1, <3>3, <3>4
  <2>. QED BY <2>1, <2>2
<1>8. issued' = issued /\ leaked' = leaked /\ files' = files
    BY DEF WriteObject
<1>9. At(pc[r], loc[r])'
  <2>1. LocalsAt(pc[r], loc[r])'
      BY <1>1, <1>7, <1>8 DEF At, LocalsAt, SaveLabels, SavedLabels
  <2>2. BodyAt(pc[r], loc[r])'
      BY <1>2, <1>7 DEF BodyAt
  <2>3. WorldAt(pc[r], loc[r])'
      BY <1>5, <1>7 DEF WorldAt
  <2>. QED BY <2>1, <2>2, <2>3 DEF At
<1>10. \A q \in Request : pc[q] = "open" => loc[q].src # k
    BY <1>1 DEF IndInv, OpensOK, SavedLabels
<1>11. Settles(r, m, k)
    BY <1>7, <1>8, <1>10 DEF Settles, Owns, OwnsAt, SavedLabels
<1>. HIDE DEF m, k
<1>. QED BY <1>2, <1>4, <1>5, <1>6, <1>7, <1>8, <1>9, <1>11, ObjectStep

(* Removing an object one owns, or failing to, ends the ownership.          *)
LEMMA ReleaseStep ==
    ASSUME IndInv, NEW r \in Request, NEW k \in Key, Owns(r, k), Moves(r),
           pc'[r] \in {"reply", "audit"}, At(pc[r], loc[r])',
           Removed(loc[r].mount, k) \/ NotRemoved(k)
    PROVE  IndInv'
<1>. DEFINE m == loc[r].mount
<1>1. m \in Mount /\ k \in issued /\ Private(r, m, k)
    BY OwnerPrivate
<1>2. \A j \in Key : ~Owns(r, j)'
    BY DEF Owns, OwnsAt, SavedLabels
<1>3. files' = files /\ issued' = issued
    BY DEF Removed, NotRemoved
<1>4. CASE Removed(m, k)
  <2>1. /\ OnlyObject(m, k) /\ DOMAIN disk' = Mount /\ k \notin DOMAIN disk'[m]
        /\ \A n \in Mount : DOMAIN disk'[n] \subseteq Key
        /\ \A n \in Mount : \A j \in DOMAIN disk'[n] : disk'[n][j] \in Content \cup {Partial}
      BY <1>1, <1>4, DropObject DEF Removed, IndInv
  <2>2. TablesOK'
      BY <1>4, <2>1 DEF IndInv, TypeOK, TablesOK, Removed
  <2>3. Settles(r, m, k)
      BY <1>2, <1>4, <2>1 DEF Settles, Removed, SavedLabels
  <2>. HIDE DEF m
  <2>. QED BY <1>1, <1>3, <2>1, <2>2, <2>3, ObjectStep
<1>5. CASE NotRemoved(k)
  <2>1. OnlyObject(m, k)
      BY <1>5 DEF OnlyObject, NotRemoved
  <2>2. TablesOK'
      BY <1>5 DEF IndInv, TypeOK, TablesOK, NotRemoved
  <2>3. Settles(r, m, k)
      BY <1>1, <1>2, <1>5 DEF Settles, NotRemoved, SavedLabels
  <2>. HIDE DEF m
  <2>. QED BY <1>1, <1>3, <2>1, <2>2, <2>3, ObjectStep
<1>. QED BY <1>4, <1>5

(* The answer of an owner that discards what it saved.                      *)
LEMMA DiscardStep ==
    ASSUME IndInv, NEW r \in Request, pc[r] \in SavedLabels, Fail(r) \/ Succeed(r),
           Discard(r)
    PROVE  IndInv'
<1>1. loc[r] \in Local /\ LocalsAt(pc[r], loc[r])
    BY DEF IndInv, TypeOK, At
<1>2. loc[r].op \in {"upload", "copy"} /\ loc[r].key \in Key
    BY <1>1 DEF LocalsAt, SaveLabels
<1>3. Owns(r, loc[r].key)
    BY DEF Owns, OwnsAt
<1>4. loc[r].op \in Operations
    BY <1>2 DEF Operations
<1>5. \E s \in {200, 201, 204, 400, 404, 409} : Reply(r, loc[r], s)
    BY <1>4, StatusOK DEF Fail, Succeed
<1>6. Moves(r) /\ pc'[r] = "reply" /\ loc'[r].op = loc[r].op
    BY <1>1, <1>5, ReplyMoves DEF IndInv
<1>7. At(pc[r], loc[r])'
    BY <1>2, <1>4, <1>6 DEF At, LocalsAt, BodyAt, HashedAt, WorldAt, SaveLabels, SavedLabels
<1>. QED BY <1>2, <1>3, <1>6, <1>7, ReleaseStep DEF Discard

(* A failing Save, a duplicate that was found, and the undo of an upload.   *)
LEMMA SaveEnds ==
    ASSUME IndInv, NEW r \in Request, SaveFails(r) \/ Dedupe(r) \/ UndoSave(r)
    PROVE  IndInv'
<1>1. CASE pc[r] = "create" /\ Fail(r) /\ UNCHANGED world
  <2>1. pc[r] \in FreeLabels /\ pc[r] # "idle"
      BY <1>1 DEF FreeLabels, Labels, SavedLabels
  <2>. QED BY <1>1, <2>1, FailStep
<1>2. CASE pc[r] \in SavedLabels /\ (Fail(r) \/ Succeed(r)) /\ Discard(r)
    BY <1>2, DiscardStep
<1>. QED BY <1>1, <1>2 DEF SaveFails, Dedupe, UndoSave, SavedLabels

(* PermanentlyDelete removes the object after its row.                      *)
LEMMA RemoveObjectStep ==
    ASSUME IndInv, NEW r \in Request, RemoveObject(r)
    PROVE  IndInv'
<1>1. pc[r] = "remove" /\ loc[r] \in Local /\ LocalsAt("remove", loc[r])
    BY DEF RemoveObject, IndInv, TypeOK, At
<1>2. /\ loc[r].src \in Key /\ loc[r].id \in FileId
      /\ loc[r].op \in Operations \ {"download"}
    BY <1>1 DEF LocalsAt
<1>3. Owns(r, loc[r].src)
    BY <1>1 DEF Owns, OwnsAt
<1>4. CASE Goto(r, "audit") /\ Removed(loc[r].mount, loc[r].src)
  <2>1. Moves(r) /\ pc'[r] = "audit" /\ loc'[r] = loc[r]
      BY <1>1, <1>4, BecomeMoves DEF Goto, IndInv, Labels
  <2>2. At(pc[r], loc[r])'
      BY <1>2, <2>1 DEF At, LocalsAt, BodyAt, HashedAt, WorldAt, SaveLabels, SavedLabels
  <2>. QED BY <1>2, <1>3, <1>4, <2>1, <2>2, ReleaseStep
<1>5. CASE Fail(r) /\ NotRemoved(loc[r].src)
  <2>1. FailStatus[loc[r].op] \in {200, 201, 204, 400, 404, 409}
      BY <1>2, StatusOK
  <2>2. Moves(r) /\ pc'[r] = "reply" /\ loc'[r].op = loc[r].op
      BY <1>1, <1>5, <2>1, ReplyMoves DEF Fail, IndInv
  <2>3. At(pc[r], loc[r])'
      BY <1>2, <2>2 DEF At, LocalsAt, BodyAt, HashedAt, WorldAt, SaveLabels, SavedLabels
  <2>. QED BY <1>2, <1>3, <1>5, <2>2, <2>3, ReleaseStep
<1>. QED BY <1>4, <1>5 DEF RemoveObject

(***************************************************************************)
(* Rows come and go.                                                       *)
(***************************************************************************)
(* CreateFile hands the object over from the request to the new row.        *)
LEMMA InsertFileStep ==
    ASSUME IndInv, NEW r \in Request, InsertFile(r)
    PROVE  IndInv'
<1>1. PICK i \in FileId \ issued :
        /\ files' = Put(files, i, NewFile(loc[r]))
        /\ issued' = issued \cup {i}
        /\ IF loc[r].op = "upload"
           THEN Become(r, [loc[r] EXCEPT !.id = i], "audit")
           ELSE Reply(r, loc[r], 201)
    BY DEF InsertFile
<1>. DEFINE row == NewFile(loc[r])
            k == loc[r].key
<1>2. pc[r] = "insert" /\ loc[r] \in Local /\ At("insert", loc[r])
    BY DEF InsertFile, IndInv, TypeOK
<1>3. /\ loc[r].op \in {"upload", "copy"} /\ k \in issued /\ k \in Key
      /\ loc[r].mount \in Mount /\ loc[r].name \in Name
      /\ loc[r].data \in Content /\ loc[r].sum = Checksum[loc[r].data]
      /\ k \in DOMAIN disk[loc[r].mount] /\ disk[loc[r].mount][k] = loc[r].data
    BY <1>2 DEF At, LocalsAt, BodyAt, HashedAt, WorldAt, SaveLabels, SavedLabels
<1>4. Owns(r, k)
    BY <1>2 DEF Owns, OwnsAt, SavedLabels
<1>5. Private(r, loc[r].mount, k)
    BY <1>3, <1>4, OwnerPrivate
<1>6. /\ row \in FileRow /\ row.key = k /\ row.mount = loc[r].mount
      /\ row.sum = loc[r].sum
    BY <1>2, <1>3 DEF NewFile, FileRow, Local, Sum
<1>7. /\ disk' = disk /\ leaked' = leaked
      /\ UNCHANGED <<folders, audit, mounted>>
    BY DEF InsertFile
<1>8. i \notin DOMAIN files
    BY DEF IndInv, RowsIssued
<1>9. /\ DOMAIN files' = DOMAIN files \cup {i} /\ files'[i] = row
      /\ \A j \in DOMAIN files : files'[j] = files[j]
    BY <1>1, <1>8 DEF Put
<1>. HIDE DEF row
<1>10. /\ Moves(r) /\ pc'[r] \in {"audit", "reply"} /\ loc'[r].op = loc[r].op
       /\ pc'[r] = "audit" => loc'[r].id = i
  <2>1. CASE loc[r].op = "upload"
    <3>. DEFINE rec == [loc[r] EXCEPT !.id = i]
    <3>1. rec \in Local /\ rec.op = loc[r].op /\ rec.id = i
        BY <1>2 DEF Local
    <3>2. Become(r, rec, "audit")
        BY <1>1, <2>1
    <3>. HIDE DEF rec
    <3>. QED BY <3>1, <3>2, BecomeMoves DEF IndInv, Labels
  <2>2. CASE loc[r].op # "upload"
      BY <1>1, <1>2, <2>2, ReplyMoves DEF IndInv
  <2>. QED BY <2>1, <2>2
<1>11. TypeOK'
    BY <1>1, <1>6, <1>7, <1>9, <1>10 DEF IndInv, TypeOK, TablesOK, Moves
<1>12. \A q \in Request : At(pc[q], loc[q])'
  <2>1. At(pc[r], loc[r])'
      BY <1>3, <1>10 DEF At, LocalsAt, BodyAt, HashedAt, WorldAt, SaveLabels,
             SavedLabels, Operations
  <2>2. ASSUME NEW q \in Request \ {r} PROVE At(pc[q], loc[q])'
    <3>1. pc'[q] = pc[q] /\ loc'[q] = loc[q] /\ At(pc[q], loc[q])
        BY <1>10 DEF Moves, IndInv
    <3>2. LocalsAt(pc[q], loc[q])'
        BY <1>1, <3>1 DEF At, LocalsAt
    <3>3. BodyAt(pc[q], loc[q])'
        BY <3>1 DEF At, BodyAt, HashedAt
    <3>4. pc[q] = "deleteRow" => loc[q].id # i
        BY <3>1 DEF At, LocalsAt
    <3>5. WorldAt(pc[q], loc[q])'
        BY <1>7, <1>9, <3>1, <3>4 DEF At, WorldAt
    <3>. QED BY <3>2, <3>3, <3>5 DEF At
  <2>. QED BY <2>1, <2>2
<1>13. /\ \A q \in Request \ {r} : \A j \in Key : Owns(q, j)' <=> Owns(q, j)
       /\ \A j \in Key : ~Owns(r, j)'
    BY <1>10 DEF Moves, Owns, OwnsAt, SavedLabels
<1>14. OwnersOK'
    BY <1>7, <1>13 DEF IndInv, OwnersOK
<1>15. OpensOK'
    BY <1>10 DEF IndInv, OpensOK, Moves, SavedLabels
<1>16. RowsIssued'
    BY <1>1, <1>3, <1>6, <1>7, <1>9 DEF IndInv, RowsIssued
<1>17. RowsHaveObjects'
    BY <1>3, <1>6, <1>7, <1>9 DEF IndInv, RowsHaveObjects
<1>18. SoleReference'
  <2>1. \A j \in DOMAIN files : files[j].key \in Key /\ files[j].key # k
      BY <1>5 DEF IndInv, TypeOK, TablesOK, FileRow, Private
  <2>2. \A a, b \in DOMAIN files' : files'[a].key = files'[b].key => a = b
      BY <1>6, <1>9, <2>1 DEF IndInv, SoleReference
  <2>3. \A a \in DOMAIN files' : files'[a].key \in Key /\ files'[a].key \notin leaked'
      BY <1>3, <1>5, <1>6, <1>7, <1>9, <2>1 DEF IndInv, SoleReference, Private
  <2>4. \A j \in Key : j = k => \A q \in Request : ~Owns(q, j)'
      BY <1>3, <1>5, <1>13 DEF Private
  <2>5. ASSUME NEW a \in DOMAIN files', NEW q \in Request, NEW j \in Key,
               j = files'[a].key
        PROVE  ~Owns(q, j)'
    <3>1. CASE a = i
        BY <1>6, <1>9, <2>4, <2>5, <3>1
    <3>2. CASE a # i
      <4>1. a \in DOMAIN files /\ j = files[a].key
          BY <1>9, <2>5, <3>2
      <4>2. ~Owns(q, j)
          BY <4>1 DEF IndInv, SoleReference
      <4>. QED BY <1>13, <4>2
    <3>. QED BY <3>1, <3>2
  <2>. QED BY <2>2, <2>3, <2>5 DEF SoleReference
<1>19. NoOrphan'
  <2>1. SUFFICES ASSUME NEW n \in Mount, NEW j \in DOMAIN disk[n]
                 PROVE  \/ \E a \in DOMAIN files' : files'[a].mount = n /\ files'[a].key = j
                        \/ \E q \in Request : Owns(q, j)' /\ loc'[q].mount = n
                        \/ j \in leaked'
      BY <1>7 DEF NoOrphan
  <2>2. j \in Key
      BY DEF IndInv, TypeOK, TablesOK
  <2>3. \/ \E a \in DOMAIN files : files[a].mount = n /\ files[a].key = j
        \/ \E q \in Request : Owns(q, j) /\ loc[q].mount = n
        \/ j \in leaked
      BY DEF IndInv, NoOrphan
  <2>4. CASE \E a \in DOMAIN files : files[a].mount = n /\ files[a].key = j
      BY <1>9, <2>4
  <2>5. CASE \E q \in Request : Owns(q, j) /\ loc[q].mount = n
    <3>1. PICK q \in Request : Owns(q, j) /\ loc[q].mount = n
        BY <2>5
    <3>2. CASE q = r
      <4>1. j = k
          BY <1>5, <2>2, <3>1, <3>2 DEF Private
      <4>. QED BY <1>6, <1>9, <3>1, <3>2, <4>1
    <3>3. CASE q # r
        BY <1>10, <1>13, <2>2, <3>1, <3>3 DEF Moves
    <3>. QED BY <3>2, <3>3
  <2>6. CASE j \in leaked
      BY <1>7, <2>6
  <2>. QED BY <2>3, <2>4, <2>5, <2>6
<1>. QED BY <1>11, <1>12, <1>14, <1>15, <1>16, <1>17, <1>18, <1>19 DEF IndInv

(* DeleteFilePermanently hands it over from the row to the purge.           *)
LEMMA DeleteFilePermanentlyStep ==
    ASSUME IndInv, NEW r \in Request, DeleteFilePermanently(r)
    PROVE  IndInv'
<1>. DEFINE i == loc[r].id
<1>1. pc[r] = "deleteRow" /\ loc[r] \in Local /\ At("deleteRow", loc[r])
    BY DEF DeleteFilePermanently, IndInv, TypeOK
<1>2. pc[r] \in FreeLabels /\ pc[r] # "idle"
    BY <1>1 DEF FreeLabels, Labels, SavedLabels
<1>3. CASE Fail(r) /\ UNCHANGED world
    BY <1>2, <1>3, FailStep
<1>4. CASE /\ IsTrashed(i)
           /\ files' = Drop(files, {i})
           /\ IF Mounted(loc[r].mount)
              THEN Goto(r, "remove") /\ leaked' = leaked
              ELSE Fail(r) /\ leaked' = leaked \cup {loc[r].src}
           /\ UNCHANGED <<folders, disk, audit, mounted, issued>>
  <2>1. /\ i \in DOMAIN files /\ loc[r].src = files[i].key
        /\ loc[r].mount = files[i].mount
      BY <1>1, <1>4 DEF IsTrashed, At, WorldAt
  <2>2. PICK k \in Key : k = loc[r].src /\ k \in issued
      BY <1>1 DEF At, LocalsAt
  <2>3. /\ DOMAIN files' = DOMAIN files \ {i}
        /\ \A j \in DOMAIN files' : files'[j] = files[j]
      BY <1>4 DEF Drop
  <2>4. /\ \A j \in DOMAIN files' : files'[j].key # k
        /\ k \notin leaked /\ \A q \in Request : ~Owns(q, k)
      BY <2>1, <2>2, <2>3 DEF IndInv, SoleReference
  <2>5. /\ Moves(r) /\ loc'[r].op = loc[r].op
        /\ \/ pc'[r] = "remove" /\ loc'[r] = loc[r] /\ leaked' = leaked
           \/ pc'[r] = "reply" /\ leaked' = leaked \cup {k}
    <3>1. CASE Mounted(loc[r].mount)
        BY <1>1, <1>4, <3>1, BecomeMoves DEF Goto, IndInv, Labels
    <3>2. CASE ~Mounted(loc[r].mount)
      <4>1. FailStatus[loc[r].op] \in {200, 201, 204, 400, 404, 409}
          BY <1>1, StatusOK DEF At, LocalsAt
      <4>. QED BY <1>1, <1>4, <2>2, <3>2, <4>1, ReplyMoves DEF Fail, IndInv
    <3>. QED BY <3>1, <3>2
  <2>6. TypeOK'
      BY <1>4, <2>3, <2>5 DEF IndInv, TypeOK, TablesOK, Moves
  <2>7. \A q \in Request : At(pc[q], loc[q])'
    <3>1. At(pc[r], loc[r])'
        BY <1>1, <1>4, <2>5 DEF At, LocalsAt, BodyAt, HashedAt, WorldAt,
               SaveLabels, SavedLabels
    <3>2. ASSUME NEW q \in Request \ {r} PROVE At(pc[q], loc[q])'
      <4>1. pc'[q] = pc[q] /\ loc'[q] = loc[q] /\ At(pc[q], loc[q])
          BY <2>5 DEF Moves, IndInv
      <4>2. LocalsAt(pc[q], loc[q])' /\ BodyAt(pc[q], loc[q])'
          BY <1>4, <4>1 DEF At, LocalsAt, BodyAt, HashedAt
      <4>3. WorldAt(pc[q], loc[q])'
          BY <1>4, <2>3, <4>1 DEF At, WorldAt
      <4>. QED BY <4>2, <4>3 DEF At
    <3>. QED BY <3>1, <3>2
  <2>8. /\ \A q \in Request \ {r} : \A j \in Key : Owns(q, j)' <=> Owns(q, j)
        /\ \A j \in Key : Owns(r, j)' <=> pc'[r] = "remove" /\ j = k
        /\ \A j \in Key : ~Owns(r, j)
      BY <1>1, <2>2, <2>5 DEF Moves, Owns, OwnsAt, SavedLabels
  <2>9. OwnersOK'
    <3>1. SUFFICES ASSUME NEW q \in Request, NEW j \in Key, Owns(q, j)'
                   PROVE  /\ j \notin leaked'
                          /\ \A s \in Request \ {q} : ~Owns(s, j)'
        BY DEF OwnersOK
    <3>2. CASE q = r
        BY <2>4, <2>5, <2>8, <3>1, <3>2
    <3>3. CASE q # r
      <4>1. Owns(q, j) /\ j # k
          BY <2>4, <2>8, <3>1, <3>3
      <4>2. j \notin leaked /\ \A s \in Request \ {q} : ~Owns(s, j)
          BY <4>1 DEF IndInv, OwnersOK
      <4>. QED BY <2>5, <2>8, <4>1, <4>2
    <3>. QED BY <3>2, <3>3
  <2>10. OpensOK'
      BY <2>5 DEF IndInv, OpensOK, Moves, SavedLabels
  <2>11. RowsIssued'
      BY <1>4, <2>2, <2>3, <2>5 DEF IndInv, RowsIssued
  <2>12. RowsHaveObjects'
      BY <1>4, <2>3 DEF IndInv, RowsHaveObjects
  <2>13. SoleReference'
    <3>1. \A a, b \in DOMAIN files' : files'[a].key = files'[b].key => a = b
        BY <2>3 DEF IndInv, SoleReference
    <3>2. \A a \in DOMAIN files' : files'[a].key \in Key /\ files'[a].key \notin leaked'
        BY <2>3, <2>4, <2>5 DEF IndInv, SoleReference, TypeOK, TablesOK, FileRow
    <3>3. ASSUME NEW a \in DOMAIN files', NEW q \in Request, NEW j \in Key,
                 j = files'[a].key
          PROVE  ~Owns(q, j)'
      <4>1. ~Owns(q, j) /\ j # k
          BY <2>3, <2>4, <3>3 DEF IndInv, SoleReference
      <4>. QED BY <2>8, <4>1
    <3>. QED BY <3>1, <3>2, <3>3 DEF SoleReference
  <2>14. NoOrphan'
    <3>1. SUFFICES ASSUME NEW n \in Mount, NEW j \in DOMAIN disk[n]
                   PROVE  \/ \E a \in DOMAIN files' : files'[a].mount = n /\ files'[a].key = j
                          \/ \E q \in Request : Owns(q, j)' /\ loc'[q].mount = n
                          \/ j \in leaked'
        BY <1>4 DEF NoOrphan
    <3>2. j \in Key
        BY DEF IndInv, TypeOK, TablesOK
    <3>3. \/ \E a \in DOMAIN files : files[a].mount = n /\ files[a].key = j
          \/ \E q \in Request : Owns(q, j) /\ loc[q].mount = n
          \/ j \in leaked
        BY DEF IndInv, NoOrphan
    <3>4. CASE \E a \in DOMAIN files : files[a].mount = n /\ files[a].key = j
      <4>1. PICK a \in DOMAIN files : files[a].mount = n /\ files[a].key = j
          BY <3>4
      <4>2. CASE a = i
          BY <2>1, <2>2, <2>5, <2>8, <4>1, <4>2
      <4>3. CASE a # i
          BY <2>3, <4>1, <4>3
      <4>. QED BY <4>2, <4>3
    <3>5. CASE \E q \in Request : Owns(q, j) /\ loc[q].mount = n
        BY <2>5, <2>8, <3>2, <3>5 DEF Moves
    <3>6. CASE j \in leaked
        BY <2>5, <3>6
    <3>. QED BY <3>3, <3>4, <3>5, <3>6
  <2>. QED BY <2>6, <2>7, <2>9, <2>10, <2>11, <2>12, <2>13, <2>14 DEF IndInv
<1>. QED BY <1>3, <1>4 DEF DeleteFilePermanently, NoRow

(***************************************************************************)
(* Crash, restart, and the start.                                          *)
(***************************************************************************)
(* A restart forgets every request; what a request held is abandoned.       *)
LEMMA RestartStep ==
    ASSUME IndInv, Restart
    PROVE  IndInv'
<1>1. /\ \A r \in Request : pc'[r] = "idle" /\ loc'[r] = Blank
      /\ pc' \in [Request -> Labels] /\ loc' \in [Request -> Local]
    BY BlankOK DEF Restart, Labels
<1>2. /\ folders' = folders /\ files' = files /\ disk' = disk /\ audit' \subseteq audit
      /\ issued' = issued /\ mounted' \subseteq Mount /\ Default \in mounted'
      /\ leaked' = leaked \cup {k \in Key : \E r \in Request : Owns(r, k)}
    BY DEF Restart, PruneAudit
<1>3. TypeOK'
    BY <1>1, <1>2 DEF IndInv, TypeOK, TablesOK
<1>4. \A r \in Request : At(pc[r], loc[r])'
    BY <1>1 DEF At, LocalsAt, BodyAt, HashedAt, WorldAt, SaveLabels, SavedLabels
<1>5. \A r \in Request, k \in Key : ~Owns(r, k)'
    BY <1>1 DEF Owns, OwnsAt, SavedLabels
<1>6. OwnersOK' /\ OpensOK'
    BY <1>1, <1>5 DEF OwnersOK, OpensOK
<1>7. \A r \in Request, k \in Key : Owns(r, k) => k \in issued
    BY OwnerPrivate
<1>8. RowsIssued'
    BY <1>2, <1>7 DEF IndInv, RowsIssued
<1>9. RowsHaveObjects'
    BY <1>2 DEF IndInv, RowsHaveObjects
<1>10. SoleReference'
  <2>1. \A i \in DOMAIN files : files[i].key \in Key
      BY DEF IndInv, TypeOK, TablesOK, FileRow
  <2>. QED BY <1>2, <1>5, <2>1 DEF IndInv, SoleReference
<1>11. NoOrphan'
  <2>1. \A m \in Mount : \A k \in DOMAIN disk[m] : k \in Key
      BY DEF IndInv, TypeOK, TablesOK
  <2>. QED BY <1>2, <2>1 DEF IndInv, NoOrphan
<1>. QED BY <1>3, <1>4, <1>6, <1>8, <1>9, <1>10, <1>11 DEF IndInv

(* The empty drive satisfies the invariant.                                 *)
LEMMA InitInv == Init => IndInv
<1>. SUFFICES ASSUME Init PROVE IndInv
    OBVIOUS
<1>1. /\ \A r \in Request : pc[r] = "idle" /\ loc[r] = Blank
      /\ pc \in [Request -> Labels] /\ loc \in [Request -> Local]
    BY BlankOK DEF Init, Labels
<1>2. /\ DOMAIN folders = {} /\ DOMAIN files = {} /\ DOMAIN disk = Mount
      /\ \A m \in Mount : DOMAIN disk[m] = {}
      /\ audit = {} /\ mounted = Mount /\ issued = {} /\ leaked = {}
    BY DEF Init
<1>3. TypeOK
    BY <1>1, <1>2, DefaultAssumption DEF TypeOK, TablesOK
<1>4. \A r \in Request : At(pc[r], loc[r])
    BY <1>1 DEF At, LocalsAt, BodyAt, HashedAt, WorldAt, SaveLabels, SavedLabels
<1>5. OwnersOK /\ OpensOK
    BY <1>1 DEF OwnersOK, OpensOK, Owns, OwnsAt, SavedLabels
<1>6. RowsIssued /\ RowsHaveObjects /\ SoleReference /\ NoOrphan
    BY <1>2 DEF RowsIssued, RowsHaveObjects, SoleReference, NoOrphan
<1>. QED BY <1>3, <1>4, <1>5, <1>6 DEF IndInv

(* Every step of a request preserves the invariant.                         *)
LEMMA RequestStep ==
    ASSUME IndInv, NEW r \in Request, Begin(r) \/ Step(r)
    PROVE  IndInv'
<1>1. CASE Begin(r)
    BY <1>1, BeginStep
<1>2. CASE FindFolder(r) \/ FindFile(r) \/ FindTrashedFile(r) \/ Open(r)
    BY <1>2, FindFolderStep, FindFileStep, FindTrashedStep, OpenStep
<1>3. CASE CreateObject(r) \/ WriteObject(r) \/ FindActiveByChecksum(r)
    BY <1>3, CreateObjectStep, WriteObjectStep, LookupStep
<1>4. CASE SaveFails(r) \/ Dedupe(r) \/ UndoSave(r)
    BY <1>4, SaveEnds
<1>5. CASE CheckFolder(r) \/ InsertFileRefused(r)
    BY <1>5, CheckFolderStep
<1>6. CASE InsertFile(r) \/ DeleteFilePermanently(r) \/ RemoveObject(r)
    BY <1>6, InsertFileStep, DeleteFilePermanentlyStep, RemoveObjectStep
<1>7. CASE SoftDeleteFile(r) \/ RestoreFile(r) \/ RenameFile(r) \/ MoveFile(r)
    BY <1>7, UpdateFileStep
<1>8. CASE \/ OpenFails(r) \/ FolderExists(r) \/ CheckParent(r)
           \/ InsertFolderRefused(r) \/ CountContents(r)
    BY <1>8, ReadingStep
<1>9. CASE InsertFolder(r) \/ RenameFolder(r) \/ DeleteFolder(r)
    BY <1>9, FolderStep
<1>10. CASE Audit(r) \/ StatementFails(r) \/ Answered(r)
    BY <1>10, AuditStep, StatementFailsStep, AnsweredStep
<1>. QED BY <1>1, <1>2, <1>3, <1>4, <1>5, <1>6, <1>7, <1>8, <1>9, <1>10 DEF Step

(* A stuttering step preserves it too.                                      *)
LEMMA StutterStep ==
    ASSUME IndInv, UNCHANGED vars
    PROVE  IndInv'
<1>1. /\ folders' = folders /\ files' = files /\ disk' = disk /\ audit' = audit
      /\ mounted' = mounted /\ issued' = issued /\ leaked' = leaked
      /\ pc' = pc /\ loc' = loc
    BY DEF vars
<1>2. TypeOK'
    BY <1>1 DEF IndInv, TypeOK, TablesOK
<1>3. \A r \in Request : At(pc[r], loc[r])'
    BY <1>1 DEF IndInv, At, LocalsAt, BodyAt, HashedAt, WorldAt
<1>4. OwnersOK' /\ OpensOK'
    BY <1>1 DEF IndInv, OwnersOK, OpensOK, Owns
<1>5. RowsIssued' /\ RowsHaveObjects' /\ NoOrphan' /\ SoleReference'
    BY <1>1 DEF IndInv, RowsIssued, RowsHaveObjects, NoOrphan, SoleReference, Owns
<1>. QED BY <1>2, <1>3, <1>4, <1>5 DEF IndInv

(***************************************************************************)
(* The theorems.                                                           *)
(***************************************************************************)
(* Whatever the requests in flight, their interleaving, the failures of     *)
(* statements and removals, and the crashes: the inductive invariant holds. *)
THEOREM Invariance == Spec => []IndInv
<1>1. IndInv /\ [Next]_vars => IndInv'
  <2>1. SUFFICES ASSUME IndInv, [Next]_vars PROVE IndInv'
      OBVIOUS
  <2>2. CASE Restart
      BY <2>1, <2>2, RestartStep
  <2>3. CASE \E r \in Request : Begin(r) \/ Step(r)
      BY <2>1, <2>3, RequestStep
  <2>4. CASE UNCHANGED vars
      BY <2>1, <2>4, StutterStep
  <2>. QED BY <2>1, <2>2, <2>3, <2>4 DEF Next
<1>. QED BY <1>1, InitInv, PTL DEF Spec

(* Tables, disks and the locals of every handler keep their types.          *)
THEOREM TypeCorrect == Spec => []TypeOK
<1>1. IndInv => TypeOK
    BY DEF IndInv
<1>. QED BY <1>1, Invariance, PTL

(* No row of the files table ever points at a missing, half-written or      *)
(* wrong object, on whatever disk: Upload, CopyFile and PermanentlyDelete   *)
(* order their statements and their disk operations well.                   *)
THEOREM RowsAlwaysHaveObjects == Spec => []RowsHaveObjects
<1>1. IndInv => RowsHaveObjects
    BY DEF IndInv
<1>. QED BY <1>1, Invariance, PTL

(* No object serves two rows, and no request that may still remove an       *)
(* object (de-duplication, undo of an upload, purge) holds one in use.      *)
THEOREM ObjectsNeverShared == Spec => []SoleReference
<1>1. IndInv => SoleReference
    BY DEF IndInv
<1>. QED BY <1>1, Invariance, PTL

(* Objects without a row belong to a request in flight or were given up by  *)
(* a crash or a removal that failed: no other path leaks disk space.        *)
THEOREM NothingOrphaned == Spec => []NoOrphan
<1>1. IndInv => NoOrphan
    BY DEF IndInv
<1>. QED BY <1>1, Invariance, PTL

(* What a download serves with status 200 is the content its row records.   *)
THEOREM DownloadsIntact == Spec => []DownloadIntegrity
<1>1. IndInv => DownloadIntegrity
    BY DEF IndInv, At, BodyAt, HashedAt, DownloadIntegrity
<1>. QED BY <1>1, Invariance, PTL

(* What RowsLeaveFromTrash says of one step.                                *)
RowsKept == \A i \in DOMAIN files :
    IF i \in DOMAIN files'
    THEN /\ files'[i].key = files[i].key
         /\ files'[i].mount = files[i].mount
         /\ files'[i].sum = files[i].sum
    ELSE files[i].trashed

(* An UPDATE of the files table that sets deleted_at, the name or the       *)
(* folder keeps every row's object, disk and checksum.                      *)
LEMMA UpdateKeepsRows ==
    ASSUME IndInv, NEW r \in Request,
           SoftDeleteFile(r) \/ RestoreFile(r) \/ RenameFile(r) \/ MoveFile(r)
    PROVE  RowsKept
<1>1. \A i \in DOMAIN files : files[i] \in FileRow
    BY DEF IndInv, TypeOK, TablesOK
<1>2. CASE UNCHANGED files
    BY <1>2 DEF RowsKept
<1>3. ASSUME NEW i \in DOMAIN files, NEW row, SetFile(i, row),
             row.key = files[i].key, row.mount = files[i].mount,
             row.sum = files[i].sum
      PROVE  RowsKept
    BY <1>3 DEF RowsKept, SetFile
<1>4. CASE SoftDeleteFile(r)
    BY <1>1, <1>2, <1>3, <1>4 DEF SoftDeleteFile, NoRow, world, IsActive, FileRow
<1>5. CASE RestoreFile(r)
    BY <1>1, <1>2, <1>3, <1>5 DEF RestoreFile, NoRow, world, IsTrashed, FileRow
<1>6. CASE RenameFile(r)
    BY <1>1, <1>2, <1>3, <1>6 DEF RenameFile, NoRow, world, IsActive, FileRow
<1>7. CASE MoveFile(r)
    BY <1>1, <1>2, <1>3, <1>7 DEF MoveFile, NoRow, world, IsActive, FileRow
<1>. QED BY <1>4, <1>5, <1>6, <1>7

(* The statements that add rows, delete rows or clear folder ids do so too. *)
LEMMA InsertDeleteKeepsRows ==
    ASSUME IndInv, NEW r \in Request,
           InsertFile(r) \/ DeleteFilePermanently(r) \/ DeleteFolder(r)
    PROVE  RowsKept
<1>1. CASE InsertFile(r)
    BY <1>1 DEF InsertFile, Put, RowsKept, IndInv, RowsIssued
<1>2. CASE DeleteFilePermanently(r)
    BY <1>2 DEF DeleteFilePermanently, NoRow, world, IsTrashed, Drop, RowsKept
<1>3. CASE DeleteFolder(r)
  <2>1. \A i \in DOMAIN files : files[i] \in FileRow
      BY DEF IndInv, TypeOK, TablesOK
  <2>. QED BY <1>3, <2>1 DEF DeleteFolder, NoRow, world, FileRow, RowsKept
<1>. QED BY <1>1, <1>2, <1>3

(* Nothing else a request does touches the files table.                     *)
LEMMA OtherStepsKeepFiles ==
    ASSUME NEW r \in Request,
           \/ Begin(r) \/ FindFolder(r) \/ FindFile(r) \/ FindTrashedFile(r)
           \/ Open(r) \/ OpenFails(r) \/ CreateObject(r) \/ WriteObject(r)
           \/ SaveFails(r) \/ FindActiveByChecksum(r) \/ Dedupe(r)
           \/ CheckFolder(r) \/ InsertFileRefused(r) \/ UndoSave(r)
           \/ FolderExists(r) \/ RemoveObject(r) \/ Audit(r) \/ CheckParent(r)
           \/ InsertFolder(r) \/ InsertFolderRefused(r) \/ RenameFolder(r)
           \/ CountContents(r) \/ StatementFails(r) \/ Answered(r)
    PROVE  files' = files
<1>1. CASE Begin(r)
    BY <1>1 DEF Begin, BeginUpload, BeginCopy, BeginMove, BeginRename,
        BeginDownload, BeginDelete, BeginRestore, BeginPurge, BeginOnFile,
        BeginCreateFolder, BeginRenameFolder, BeginDeleteFolder, Arrives, world
<1>2. CASE FindFolder(r) \/ FindFile(r) \/ FindTrashedFile(r) \/ Open(r) \/ OpenFails(r)
    BY <1>2 DEF FindFolder, FolderMissing, UploadIntoFolder, MoveIntoFolder,
        CreateUnderParent, FindFile, FindTrashedFile, Open, OpenFails, world
<1>3. CASE \/ CreateObject(r) \/ WriteObject(r) \/ SaveFails(r) \/ Dedupe(r)
           \/ UndoSave(r) \/ RemoveObject(r)
    BY <1>3 DEF CreateObject, WriteObject, SaveFails, Dedupe, UndoSave,
        RemoveObject, Discard, Removed, NotRemoved, world
<1>4. CASE \/ FindActiveByChecksum(r) \/ CheckFolder(r) \/ InsertFileRefused(r)
           \/ FolderExists(r) \/ Audit(r) \/ CheckParent(r) \/ Answered(r)
    BY <1>4 DEF FindActiveByChecksum, CheckFolder, InsertFileRefused,
        FolderExists, Audit, CheckParent, Answered, world
<1>5. CASE \/ InsertFolder(r) \/ InsertFolderRefused(r) \/ RenameFolder(r)
           \/ CountContents(r) \/ StatementFails(r)
    BY <1>5 DEF InsertFolder, InsertFolderRefused, RenameFolder, NoRow,
        CountContents, StatementFails, world
<1>. QED BY <1>1, <1>2, <1>3, <1>4, <1>5

(* Rows leave the files table from the trash only, and the others keep      *)
(* their object: no interleaving of purge with restore deletes an active    *)
(* file, and neither a folder's deletion nor a restart deletes any.         *)
THEOREM TrashIsTheOnlyExit == Spec => RowsLeaveFromTrash
<1>1. IndInv /\ [Next]_vars => [RowsKept]_vars
  <2>1. SUFFICES ASSUME IndInv, Next PROVE RowsKept
      BY DEF vars
  <2>2. CASE UNCHANGED files
      BY <2>2 DEF RowsKept
  <2>3. CASE Restart
      BY <2>2, <2>3 DEF Restart
  <2>4. ASSUME NEW r \in Request, Begin(r) \/ Step(r) PROVE RowsKept
      BY <2>1, <2>2, <2>4, UpdateKeepsRows, InsertDeleteKeepsRows,
         OtherStepsKeepFiles DEF Step
  <2>. QED BY <2>1, <2>3, <2>4 DEF Next
<1>2. RowsLeaveFromTrash <=> [][RowsKept]_vars
    BY DEF RowsLeaveFromTrash, RowsKept
<1>. QED BY <1>1, <1>2, Invariance, PTL DEF Spec
=============================================================================
