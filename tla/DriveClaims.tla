---------------------------- MODULE DriveClaims ----------------------------
(***************************************************************************)
(* What comments, handlers and messages of the repository say of the file  *)
(* manager and the code does not keep.  A run refutes it.                  *)
(***************************************************************************)
EXTENDS Drive

(* "folder is not empty" (httpapi/files.go, deleteFolder): only an empty    *)
(* folder is deleted.  DeleteFolder counts in one statement and deletes in  *)
(* another, and the DELETE cascades.                                        *)
OnlyEmptyFoldersDeleted == [][\A f \in DOMAIN folders \ DOMAIN folders' :
    Children(f) = {} /\ FilesIn(f) = {}]_vars
=============================================================================
