-------------------------------- MODULE Boot --------------------------------
(***************************************************************************)
(* Starting the server: config.Load, database.Open with its migration of   *)
(* older databases, and the storage mounts, until requests are served.     *)
(* The process may die between any two statements and is started again;    *)
(* the operator changes the configuration while it is down.                *)
(*                                                                         *)
(* A statement outside BEGIN ... COMMIT takes effect by itself.  Indexes   *)
(* that only make queries faster are left out, and so are the rows of      *)
(* sessions and audit_events, which Sessions and Drive prune at startup.   *)
(***************************************************************************)
EXTENDS Naturals, Sequences, FiniteSets

CONSTANTS
    FolderId, FileId, Name,
    Account,        \* credentials: a username with its password
    DiskName,       \* names of STORAGE_MOUNTS entries
    Dir,            \* directories of disks
    StorageRoot,    \* the directory STORAGE_ROOT
    MaxDisks,       \* bound on the entries of STORAGE_MOUNTS
    MaxFaults,      \* bound on failing statements and crashes
    Nil

ASSUME BootAssumption ==
    /\ StorageRoot \in Dir
    /\ Nil \notin FolderId \cup Dir \cup DiskName \cup {"default"}
    /\ MaxDisks \in Nat /\ MaxFaults \in Nat

VARIABLES
    disks,      \* STORAGE_MOUNTS: entries [name, dir]; empty when blank
    cred,       \* N_DRIVE_USERNAME and N_DRIVE_PASSWORD
    pc,         \* the next step of the process, or "down"
    mounts,     \* the mounts of the process: [id, dir]
    fk,         \* PRAGMA foreign_keys of the connection
    tables,     \* the tables there are
    legacy,     \* users has the column email
    mountCol,   \* the tables that have the column mount
    rootIndex,  \* the columns of idx_folders_root_name, or "none"
    users,      \* the accounts
    folders,    \* id -> [parent, name, mount]
    files,      \* id -> [folder, mount]
    object,     \* id of a file -> the directory that has its object
    faults

config   == <<disks, cred>>
database == <<tables, legacy, mountCol, rootIndex, users, folders, files, object>>
vars     == <<disks, cred, pc, mounts, fk, tables, legacy, mountCol, rootIndex,
              users, folders, files, object, faults>>

(* The tables in the order in which the schema creates them, and those to   *)
(* which ensureColumns adds the column mount.                               *)
singleUserSchema == <<"users", "sessions", "folders", "files", "audit_events">>
MountTables == <<"files", "folders">>

AllTables == {singleUserSchema[i] : i \in DOMAIN singleUserSchema}

Labels == {"down", "open", "fkOff", "rebuild", "fkOn", "schema", "columns",
           "dropIndex", "createIndex", "seed", "mounts", "serving"}

Goto(label) == pc' = label

(* The first entry of seq that is not in set.                               *)
FirstMissing(seq, set) ==
    seq[CHOOSE i \in DOMAIN seq : seq[i] \notin set /\ \A j \in 1..(i-1) : seq[j] \in set]

(***************************************************************************)
(* config: the first disk has the id "default", unless another one is      *)
(* called so.  Ids must differ.                                            *)
(***************************************************************************)
(* Slip: every disk keeps its own name as its id.                           *)
parseMountsNamed(entries) ==
    IF entries = << >> THEN << [id |-> "default", dir |-> StorageRoot] >>
    ELSE [i \in DOMAIN entries |-> [id |-> entries[i].name, dir |-> entries[i].dir]]

parseMounts(entries) ==
    IF entries = << >>
    THEN << [id |-> "default", dir |-> StorageRoot] >>
    ELSE LET hasDefault == \E i \in DOMAIN entries : entries[i].name = "default"
         IN  [i \in DOMAIN entries |->
                [id  |-> IF i = 1 /\ ~hasDefault THEN "default" ELSE entries[i].name,
                 dir |-> entries[i].dir]]

Valid(specs) == \A i, j \in DOMAIN specs : specs[i].id = specs[j].id => i = j

(* Mounts.Get: the mount with an id.                                        *)
Get(id) == CHOOSE m \in {mounts[i] : i \in DOMAIN mounts} : m.id = id

Ids == {mounts[i].id : i \in DOMAIN mounts}

Load ==
    /\ pc = "down" /\ Valid(parseMounts(disks))
    /\ mounts' = parseMounts(disks)
    /\ Goto("open")
    /\ UNCHANGED <<config, database, fk, faults>>

(***************************************************************************)
(* database.Open.  A new connection does not enforce foreign keys.         *)
(***************************************************************************)
Open ==
    /\ pc = "open"
    /\ fk' = TRUE
    /\ Goto(IF legacy THEN "fkOff" ELSE "schema")
    /\ UNCHANGED <<config, database, mounts, faults>>

(* Slip: foreign keys stay on during the rebuild.                           *)
ForeignKeysStayOn ==
    /\ pc = "fkOff"
    /\ Goto("rebuild")
    /\ UNCHANGED <<config, database, mounts, fk, faults>>

ForeignKeysOff ==
    /\ pc = "fkOff"
    /\ fk' = FALSE
    /\ Goto("rebuild")
    /\ UNCHANGED <<config, database, mounts, faults>>

(* The transaction of migrateLegacy.  The accounts are not copied.  The new *)
(* tables refer to folders by name: if foreign keys were enforced, DROP     *)
(* TABLE folders would delete the copied subfolders and empty folder_id.    *)
Rebuild ==
    /\ pc = "rebuild"
    /\ folders' = IF fk THEN [f \in {g \in DOMAIN folders : folders[g].parent = Nil} |-> folders[f]]
                        ELSE folders
    /\ files' = IF fk THEN [f \in DOMAIN files |-> [files[f] EXCEPT !.folder = Nil]] ELSE files
    /\ users' = {}
    /\ legacy' = FALSE /\ rootIndex' = "none" /\ mountCol' = {}
    /\ Goto("fkOn")
    /\ UNCHANGED <<config, mounts, fk, tables, object, faults>>

ForeignKeysOn ==
    /\ pc = "fkOn"
    /\ fk' = TRUE
    /\ Goto("schema")
    /\ UNCHANGED <<config, database, mounts, faults>>

(* CREATE TABLE IF NOT EXISTS, one table after the other.                   *)
CreateTable ==
    /\ pc = "schema"
    /\ IF AllTables \subseteq tables
       THEN Goto("columns") /\ UNCHANGED <<tables, mountCol>>
       ELSE LET t == FirstMissing(singleUserSchema, tables) IN
            /\ tables' = tables \cup {t}
            /\ mountCol' = mountCol \cup ({t} \cap {"folders", "files"})
            /\ Goto("schema")
    /\ UNCHANGED <<config, mounts, fk, legacy, rootIndex, users, folders, files, object, faults>>

Default(rows) == [x \in DOMAIN rows |-> [rows[x] EXCEPT !.mount = "default"]]

(* Slip: the column is added without DEFAULT 'default'.                     *)
AddEmptyColumn(t) == mountCol' = mountCol \cup {t} /\ UNCHANGED <<folders, files>>

(* ALTER TABLE t ADD COLUMN mount TEXT NOT NULL DEFAULT 'default'.          *)
AddColumn(t) ==
    /\ mountCol' = mountCol \cup {t}
    /\ folders' = IF t = "folders" THEN Default(folders) ELSE folders
    /\ files' = IF t = "files" THEN Default(files) ELSE files

(* Slip: the columns are added without looking; one that exists is an error *)
(* that ends the process.                                                   *)
ensureColumnsBlindly ==
    /\ pc = "columns"
    /\ IF mountCol = {"folders", "files"} THEN Goto("down") /\ UNCHANGED <<mountCol, folders, files>>
       ELSE LET t == FirstMissing(MountTables, mountCol) IN
            AddColumn(t) /\ Goto(IF t = "folders" THEN "dropIndex" ELSE "columns")
    /\ UNCHANGED <<config, mounts, fk, tables, legacy, rootIndex, users, object, faults>>

(* The columns are added where they are missing.                            *)
ensureColumns ==
    /\ pc = "columns"
    /\ IF mountCol = {"folders", "files"}
       THEN Goto("dropIndex") /\ UNCHANGED <<mountCol, folders, files>>
       ELSE AddColumn(FirstMissing(MountTables, mountCol)) /\ Goto("columns")
    /\ UNCHANGED <<config, mounts, fk, tables, legacy, rootIndex, users, object, faults>>

DropRootIndex ==
    /\ pc = "dropIndex"
    /\ rootIndex' = "none"
    /\ Goto("createIndex")
    /\ UNCHANGED <<config, mounts, fk, tables, legacy, mountCol, users, folders, files, object, faults>>

(* Two root folders with one name on one disk.                              *)
RootClash == \E f, g \in DOMAIN folders :
    /\ f # g /\ folders[f].parent = Nil /\ folders[g].parent = Nil
    /\ folders[f].name = folders[g].name /\ folders[f].mount = folders[g].mount

(* Slip: an index that cannot be created is passed over.                    *)
CreateRootIndexIfPossible ==
    /\ pc = "createIndex"
    /\ rootIndex' = IF RootClash THEN "none" ELSE "name,mount"
    /\ Goto("seed")
    /\ UNCHANGED <<config, mounts, fk, tables, legacy, mountCol, users, folders, files, object, faults>>

(* CREATE UNIQUE INDEX fails when there is a clash, and ends the process.   *)
CreateRootIndex ==
    /\ pc = "createIndex"
    /\ IF RootClash THEN Goto("down") /\ UNCHANGED rootIndex
                    ELSE Goto("seed") /\ rootIndex' = "name,mount"
    /\ UNCHANGED <<config, mounts, fk, tables, legacy, mountCol, users, folders, files, object, faults>>

(* seedSingleUser: only into an empty table.                                *)
Seed ==
    /\ pc = "seed"
    /\ users' = IF users = {} THEN {cred} ELSE users
    /\ Goto("mounts")
    /\ UNCHANGED <<config, mounts, fk, tables, legacy, mountCol, rootIndex, folders, files, object, faults>>

(* NewMounts creates the directories; the listener follows.                 *)
NewMounts == pc = "mounts" /\ Goto("serving")
    /\ UNCHANGED <<config, database, mounts, fk, faults>>

Step ==
    \/ Load \/ Open \/ ForeignKeysOff \/ Rebuild \/ ForeignKeysOn
    \/ CreateTable \/ ensureColumns \/ DropRootIndex \/ CreateRootIndex
    \/ Seed \/ NewMounts

(***************************************************************************)
(* The process ends: a signal while it serves, or at any moment a crash or *)
(* a failing statement, for which NewRouter panics.                        *)
(***************************************************************************)
Shutdown ==
    /\ pc = "serving" /\ Goto("down")
    /\ UNCHANGED <<config, database, mounts, fk, faults>>

Crash ==
    /\ pc # "down" /\ faults < MaxFaults
    /\ faults' = faults + 1
    /\ Goto("down")
    /\ UNCHANGED <<config, database, mounts, fk>>

(***************************************************************************)
(* What requests store, as far as it matters here: Drive has the details.  *)
(***************************************************************************)
Put(f, x, v) == [y \in DOMAIN f \cup {x} |-> IF y = x THEN v ELSE f[y]]

CreateFolder ==
    /\ pc = "serving"
    /\ \E f \in FolderId \ DOMAIN folders, n \in Name, m \in Ids :
         /\ ~\E g \in DOMAIN folders :
               /\ folders[g].parent = Nil /\ folders[g].name = n
               /\ folders[g].mount = m /\ rootIndex = "name,mount"
         /\ folders' = Put(folders, f, [parent |-> Nil, name |-> n, mount |-> m])
    /\ UNCHANGED <<config, pc, mounts, fk, tables, legacy, mountCol, rootIndex,
                   users, files, object, faults>>

(* A file is stored on the disk of its folder, or else on one it names.     *)
Upload ==
    /\ pc = "serving"
    /\ \E f \in FileId \ DOMAIN files, to \in {Nil} \cup DOMAIN folders, m \in Ids :
         /\ to # Nil => folders[to].mount = m
         /\ files' = Put(files, f, [folder |-> to, mount |-> m])
         /\ object' = Put(object, f, Get(m).dir)
    /\ UNCHANGED <<config, pc, mounts, fk, tables, legacy, mountCol, rootIndex,
                   users, folders, faults>>

(***************************************************************************)
(* The operator, while the process is down: other credentials; the first   *)
(* disk, which takes over STORAGE_ROOT, and its name; another disk at the  *)
(* end.  An entry that Validate refuses is taken back.  No later disk is   *)
(* called "default", and disks with files are not taken away.              *)
(***************************************************************************)
SetCredentials == \E c \in Account : cred' = c /\ UNCHANGED disks

SetDisks ==
    /\ \/ \E n \in DiskName :
            IF disks = << >> THEN disks' = << [name |-> n, dir |-> StorageRoot] >>
                             ELSE disks' = [disks EXCEPT ![1].name = n]
       \/ /\ Len(disks) \in 1..(MaxDisks - 1)
          /\ \E n \in DiskName \ {"default"}, d \in Dir :
               disks' = Append(disks, [name |-> n, dir |-> d])
       \/ ~Valid(parseMounts(disks)) /\ disks' = SubSeq(disks, 1, Len(disks) - 1)
    /\ UNCHANGED cred

Configure ==
    /\ pc = "down"
    /\ SetCredentials \/ SetDisks
    /\ UNCHANGED <<database, pc, mounts, fk, faults>>

(***************************************************************************)
(* The databases of earlier versions.  The first version has many users,   *)
(* whose root folders may have equal names; the second has one user and no *)
(* disks.  Neither has a column mount.                                     *)
(***************************************************************************)
Rows(parentOf, nameOf) == [f \in DOMAIN parentOf |->
    [parent |-> parentOf[f], name |-> nameOf[f], mount |-> Nil]]

Older(accounts) ==
    /\ tables = AllTables /\ mountCol = {} /\ users = accounts
    /\ \E fs \in SUBSET FolderId : \E nameOf \in [fs -> Name], parentOf \in [fs -> fs \cup {Nil}] :
         /\ \A f \in fs : parentOf[f] # Nil => parentOf[parentOf[f]] = Nil
         /\ \A f, g \in fs : f # g /\ parentOf[f] = parentOf[g] /\ parentOf[f] # Nil
                                 => nameOf[f] # nameOf[g]
         /\ folders = Rows(parentOf, nameOf)
         /\ \E is \in SUBSET FileId : \E inF \in [is -> fs \cup {Nil}] :
              /\ files = [i \in is |-> [folder |-> inF[i], mount |-> Nil]]
              /\ object = [i \in is |-> StorageRoot]

Fresh ==
    /\ tables = {} /\ mountCol = {} /\ users = {} /\ legacy = FALSE /\ rootIndex = "none"
    /\ folders = [f \in {} |-> Nil] /\ files = [f \in {} |-> Nil] /\ object = [f \in {} |-> Nil]

Init ==
    /\ disks = << >> /\ cred \in Account
    /\ pc = "down" /\ mounts = << >> /\ fk = FALSE /\ faults = 0
    /\ \/ Fresh
       \/ legacy = TRUE /\ rootIndex = "none" /\ Older(Account)
       \/ \E a \in Account : Older({a}) /\ legacy = FALSE /\ rootIndex = "name" /\ ~RootClash

Next == Step \/ Shutdown \/ Crash \/ CreateFolder \/ Upload \/ Configure

Spec == Init /\ [][Next]_vars

(* The supervisor starts a process that has ended, and statements return.   *)
FairSpec == Spec /\ WF_vars(Step)

(***************************************************************************)
(* Properties.                                                             *)
(***************************************************************************)
(* Types, and: folders refer to folders, and every row of a table with the  *)
(* column mount names a disk.                                               *)
TypeOK ==
    /\ pc \in Labels /\ fk \in BOOLEAN /\ legacy \in BOOLEAN
    /\ tables \subseteq AllTables /\ mountCol \subseteq {"folders", "files"}
    /\ rootIndex \in {"none", "name", "name,mount"}
    /\ users \subseteq Account /\ cred \in Account
    /\ DOMAIN folders \subseteq FolderId /\ DOMAIN files \subseteq FileId
    /\ DOMAIN object = DOMAIN files
    /\ \A f \in DOMAIN folders :
         /\ folders[f].parent \in DOMAIN folders \cup {Nil}
         /\ folders[f].mount = Nil <=> "folders" \notin mountCol
    /\ \A f \in DOMAIN files :
         /\ files[f].folder \in DOMAIN folders \cup {Nil}
         /\ files[f].mount = Nil <=> "files" \notin mountCol

(* No start of the server loses or moves what is stored, wherever it is     *)
(* interrupted and however often it is repeated: rows stay, in their        *)
(* folders and on their disks, and so does the account of a single-user     *)
(* database, whatever the credentials in the configuration are by now.  The *)
(* accounts of a multi-user database do not: Rebuild drops them, although   *)
(* database.go says that existing accounts are never deleted.               *)
RowsKept == [][
    /\ \A f \in DOMAIN folders : f \in DOMAIN folders'
         /\ folders'[f].parent = folders[f].parent /\ folders'[f].name = folders[f].name
         /\ folders[f].mount \in {Nil, folders'[f].mount}
    /\ \A f \in DOMAIN files : f \in DOMAIN files'
         /\ files'[f].folder = files[f].folder
         /\ files[f].mount \in {Nil, files'[f].mount}
    /\ ~legacy /\ users # {} => users' = users]_vars

(* Whoever serves requests has what the handlers rely on: all tables, with  *)
(* foreign keys enforced, the unique index that keeps root folders of one   *)
(* disk apart, and one account, whatever was interrupted before.            *)
ServesSound == pc = "serving" =>
    /\ tables = AllTables /\ ~legacy /\ mountCol = {"folders", "files"}
    /\ fk /\ rootIndex = "name,mount" /\ ~RootClash
    /\ Cardinality(users) = 1

(* Every file is found on the disk its row names, also after disks were     *)
(* added and the first one was given another name, and for files that were  *)
(* stored before there were disks.                                          *)
FilesReachable == pc = "serving" =>
    \A f \in DOMAIN files : files[f].mount \in Ids /\ Get(files[f].mount).dir = object[f]

(* A start that is interrupted can be repeated: the server always comes up  *)
(* again, unless two root folders clash or the disks are refused.           *)
Starts == []<>(pc = "serving" \/ RootClash \/ ~Valid(parseMounts(disks)))
=============================================================================
