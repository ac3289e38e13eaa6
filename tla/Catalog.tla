------------------------------ MODULE Catalog ------------------------------
(***************************************************************************)
(* What the file manager promises about stored files, whatever its tables  *)
(* and disks look like: a file appears complete and under an id of its     *)
(* own, keeps its disk and its content as long as it exists, moves between *)
(* active and trashed, and leaves only from the trash, one at a time and   *)
(* for good.                                                               *)
(***************************************************************************)
CONSTANTS Id, Disk, Content

VARIABLES
    store,      \* the files that exist: id -> [disk, data, trashed]
    spent       \* ids that name or once named a file

Init == store = [i \in {} |-> {}] /\ spent = {}

(* Upload and CopyFile.                                                     *)
Add(i, m, c) ==
    /\ i \notin spent
    /\ spent' = spent \cup {i}
    /\ store' = [j \in DOMAIN store \cup {i} |->
                    IF j = i THEN [disk |-> m, data |-> c, trashed |-> FALSE]
                             ELSE store[j]]

(* DeleteFile and RestoreFile.                                              *)
Toggle(i) ==
    /\ store' = [store EXCEPT ![i].trashed = ~@]
    /\ spent' = spent

(* PermanentlyDelete.                                                       *)
Purge(i) ==
    /\ store[i].trashed
    /\ store' = [j \in DOMAIN store \ {i} |-> store[j]]
    /\ spent' = spent

Next ==
    \/ \E i \in Id, m \in Disk, c \in Content : Add(i, m, c)
    \/ \E i \in DOMAIN store : Toggle(i) \/ Purge(i)

Spec == Init /\ [][Next]_<<store, spent>>
=============================================================================
