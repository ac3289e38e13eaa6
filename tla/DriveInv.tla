------------------------------ MODULE DriveInv ------------------------------
(***************************************************************************)
(* The inductive invariant behind the safety properties of Drive: what is  *)
(* true of a request at each label, who may still remove an object, and    *)
(* what a request that read a row a while ago may rely on.                 *)
(***************************************************************************)
EXTENDS Drive

SaveLabels == {"create"} \cup SavedLabels

(* What the locals v of a request hold at label p: the operation, the ids   *)
(* and keys it obtained, names that have been validated.                    *)
LocalsAt(p, v) ==
    /\ p # "idle" => v.op \in Operations
    /\ p \notin {"idle", "findFile", "open", "audit", "reply"} => v.op # "download"
    /\ p \in SaveLabels => v.op \in {"upload", "copy"}
    /\ p \in SaveLabels \cup {"open", "deleteRow", "remove"} => v.mount \in Mount
    /\ p \in {"open", "deleteRow", "remove"} =>
         v.src \in issued \cap Key /\ v.id \in issued \cap FileId
    /\ p = "audit" => v.id \in FileId
    /\ p \in SavedLabels => v.key \in issued \cap Key
    /\ p \in {"findFolder", "create"} => v.name \in Name \cup {BadName}
    /\ p = "findFolder" /\ v.op = "createFolder" => v.name \in Name
    /\ p \in SavedLabels \cup {"open", "checkParent", "insertFolder",
                               "renameRow", "renameFolderRow"} => v.name \in Name

HashedAt(p, v) ==
    \/ p \in {"lookup", "check", "insert"}
    \/ p \in {"create", "write"} /\ v.op = "copy"
    \/ p = "audit" /\ v.op = "download"
    \/ p = "reply" /\ v.op = "download" /\ v.status = 200

(* The body it holds: complete, and what its checksum says.                 *)
BodyAt(p, v) ==
    /\ p = "findFolder" /\ v.op = "upload" => v.data \in Content
    /\ p \in {"create", "write"} => v.data \in Content
    /\ HashedAt(p, v) => v.data \in Content /\ v.sum = Checksum[v.data]

(* What it may rely on in tables and disks: the object it is about to       *)
(* insert is on disk; the object of a row it read is gone or unchanged; the *)
(* row it is about to purge still has the key and the disk it read.         *)
WorldAt(p, v) ==
    /\ p \in {"lookup", "check", "insert"} =>
         v.key \in DOMAIN disk[v.mount] /\ disk[v.mount][v.key] = v.data
    /\ p = "open" /\ v.src \in DOMAIN disk[v.mount] =>
         /\ disk[v.mount][v.src] \in Content
         /\ Checksum[disk[v.mount][v.src]] = v.sum
    /\ p = "deleteRow" /\ v.id \in DOMAIN files =>
         files[v.id].key = v.src /\ files[v.id].mount = v.mount

At(p, v) == LocalsAt(p, v) /\ BodyAt(p, v) /\ WorldAt(p, v)

(* An object that a request may remove belongs to no other request and was  *)
(* not given up.                                                            *)
OwnersOK == \A r \in Request, k \in Key : Owns(r, k) =>
    /\ k \notin leaked
    /\ \A q \in Request \ {r} : ~Owns(q, k)

(* No request writes under a key that another one is about to open.         *)
OpensOK == \A r, q \in Request :
    pc[r] = "open" /\ pc[q] \in SavedLabels => loc[q].key # loc[r].src

(* Uuids of rows and of abandoned objects are spent.                        *)
RowsIssued ==
    /\ leaked \subseteq issued
    /\ \A i \in DOMAIN files : i \in issued /\ files[i].key \in issued

(* The conjunction that every step of FileService, LocalStore and a restart *)
(* preserves; it implies that rows have their objects, that no object is    *)
(* shared or orphaned, and that downloads are intact.                       *)
IndInv ==
    /\ TypeOK
    /\ \A r \in Request : At(pc[r], loc[r])
    /\ OwnersOK /\ OpensOK
    /\ RowsIssued /\ RowsHaveObjects /\ SoleReference /\ NoOrphan
=============================================================================
