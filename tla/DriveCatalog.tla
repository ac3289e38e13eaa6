---------------------------- MODULE DriveCatalog ----------------------------
(***************************************************************************)
(* Drive implements Catalog: rows and objects together are the files.      *)
(***************************************************************************)
EXTENDS Drive

(* A uuid names a file, a folder or an object, and none of the others.      *)
ASSUME IdAssumption == FileId \cap (FolderId \cup Key) = {}

(* What a reader of row i finds on its disk.                                *)
StoredData(i) ==
    IF files[i].key \in DOMAIN disk[files[i].mount]
    THEN disk[files[i].mount][files[i].key]
    ELSE Nil

Stored == [i \in DOMAIN files |-> [disk    |-> files[i].mount,
                                   data    |-> StoredData(i),
                                   trashed |-> files[i].trashed]]

C == INSTANCE Catalog WITH Id <- FileId, Disk <- Mount, Content <- Content,
                           store <- Stored, spent <- issued \cap FileId

(* Every step of a request, an error, a crash or a restart included, adds   *)
(* one complete file under a new id, moves one file to or from the trash,   *)
(* purges one file from the trash, or changes no file; the bytes read       *)
(* through a row never change while the row exists.                         *)
ImplementsCatalog == C!Spec
=============================================================================
