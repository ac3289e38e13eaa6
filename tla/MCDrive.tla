------------------------------ MODULE MCDrive ------------------------------
(* Instances of Drive for TLC.                                              *)
EXTENDS DriveCatalog, DriveClaims, DriveInv, TLC

CONSTANTS a, b

(* Two contents with different checksums.                                   *)
MCChecksum == [c \in Content |-> c]

(* A checksum that tells no contents apart: every upload collides.          *)
MCCollide == [c \in Content |-> 0]

Pools == Permutations(Request) \cup Permutations(FileId) \cup Permutations(Key)

FolderPools == Pools \cup Permutations(FolderId) \cup Permutations(Name)
=============================================================================
