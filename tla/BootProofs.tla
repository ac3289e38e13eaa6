----------------------------- MODULE BootProofs -----------------------------
(***************************************************************************)
(* Machine-checked proofs about Boot: whatever is interrupted and however  *)
(* often a start is repeated, the server that comes up has a sound schema, *)
(* all its rows, and every file on the disk its row names.                 *)
(***************************************************************************)
EXTENDS Boot, FiniteSetTheorems, SequenceTheorems, TLAPS

MountId == DiskName \cup {"default"}

(***************************************************************************)
(* The inductive invariant.                                                *)
(***************************************************************************)
RowTypes ==
    /\ \A f \in DOMAIN folders : folders[f] \in
         [parent : FolderId \cup {Nil}, name : Name, mount : MountId \cup {Nil}]
    /\ \A f \in DOMAIN files : files[f] \in
         [folder : FolderId \cup {Nil}, mount : MountId \cup {Nil}]

(* A table that is missing has no rows; an old database is complete, and    *)
(* knows no disks; a new one has one account at most.                       *)
SchemaInv ==
    /\ "folders" \notin tables => DOMAIN folders = {}
    /\ "files" \notin tables => DOMAIN files = {}
    /\ legacy => mountCol = {} /\ tables = AllTables
    /\ ~legacy => users = {} \/ \E a \in Account : users = {a}

(* What each phase of database.Open leaves to the ones that follow it.      *)
AfterRebuild == {"fkOn", "schema", "columns", "dropIndex", "createIndex", "seed",
                 "mounts", "serving"}
AfterKeys    == AfterRebuild \ {"fkOn"}
AfterSchema  == AfterKeys \ {"schema"}
AfterColumns == AfterSchema \ {"columns"}
AfterIndex   == {"seed", "mounts", "serving"}

PhaseInv ==
    /\ pc \in {"fkOff", "rebuild"} => legacy
    /\ pc = "rebuild" => ~fk
    /\ pc \in AfterRebuild => ~legacy
    /\ pc \in AfterKeys => fk
    /\ pc \in AfterSchema => tables = AllTables
    /\ pc \in AfterColumns => mountCol = {"folders", "files"}
    /\ pc \in AfterIndex => rootIndex = "name,mount" /\ ~RootClash
    /\ pc \in {"mounts", "serving"} => users # {}

(* The first disk has STORAGE_ROOT, and no later one is called "default".   *)
ConfigInv ==
    /\ disks \in Seq([name : DiskName, dir : Dir])
    /\ disks # << >> => disks[1].dir = StorageRoot
    /\ \A i \in 2..Len(disks) : disks[i].name # "default"
    /\ pc # "down" => mounts = parseMounts(disks) /\ Valid(mounts)

(* The entry at j has the id m and the directory d, and up to j no two      *)
(* entries have the same id.                                                *)
Settled(specs, j, m, d) ==
    /\ specs[j].id = m /\ specs[j].dir = d
    /\ \A i, k \in 1..j : specs[i].id = specs[k].id => i = k

(* Every file is where the configuration says: before there were disks, in  *)
(* STORAGE_ROOT, and from then on on the disk its row names.                *)
PlaceInv == \A f \in DOMAIN files :
    IF files[f].mount = Nil
    THEN object[f] = StorageRoot
    ELSE \E j \in DOMAIN parseMounts(disks) :
            Settled(parseMounts(disks), j, files[f].mount, object[f])

BootInv == TypeOK /\ RowTypes /\ SchemaInv /\ PhaseInv /\ ConfigInv /\ PlaceInv

(***************************************************************************)
(* The operators.                                                          *)
(***************************************************************************)
(* parseMounts gives the first disk the id "default" and STORAGE_ROOT,      *)
(* whatever it is called, and the others their names.                       *)
LEMMA ParsedMounts ==
    ASSUME NEW ds \in Seq([name : DiskName, dir : Dir]),
           ds # << >> => ds[1].dir = StorageRoot,
           \A i \in 2..Len(ds) : ds[i].name # "default"
    PROVE  LET specs == parseMounts(ds) IN
           /\ DOMAIN specs = 1..(IF ds = << >> THEN 1 ELSE Len(ds))
           /\ specs[1].id = "default" /\ specs[1].dir = StorageRoot
           /\ \A i \in 2..Len(ds) : specs[i].id = ds[i].name /\ specs[i].dir = ds[i].dir
<1>1. CASE ds = << >>
  <2>1. Len(ds) = 0 /\ parseMounts(ds) = << [id |-> "default", dir |-> StorageRoot] >>
      BY <1>1 DEF parseMounts
  <2>. QED BY <1>1, <2>1
<1>2. CASE ds # << >>
  <2>1. Len(ds) \in Nat \ {0} /\ DOMAIN ds = 1..Len(ds)
      BY <1>2
  <2>. DEFINE hasDefault == \E i \in DOMAIN ds : ds[i].name = "default"
  <2>2. parseMounts(ds) = [i \in DOMAIN ds |->
           [id |-> IF i = 1 /\ ~hasDefault THEN "default" ELSE ds[i].name,
            dir |-> ds[i].dir]]
      BY <1>2 DEF parseMounts
  <2>3. hasDefault => ds[1].name = "default"
      BY <2>1
  <2>4. 1 \in DOMAIN ds /\ \A i \in 2..Len(ds) : i \in DOMAIN ds /\ i # 1
      BY <2>1
  <2>. HIDE DEF hasDefault
  <2>. QED BY <1>2, <2>1, <2>2, <2>3, <2>4
<1>. QED BY <1>1, <1>2

(* Every mount id is a name of a disk or "default", and never NULL.         *)
LEMMA MountIds ==
    ASSUME ConfigInv, pc # "down", NEW m \in Ids
    PROVE  m \in MountId /\ m # Nil
<1>1. disks \in Seq([name : DiskName, dir : Dir]) /\ mounts = parseMounts(disks)
    BY DEF ConfigInv
<1>2. PICK i \in DOMAIN mounts : mounts[i].id = m
    BY DEF Ids
<1>3. /\ DOMAIN mounts = 1..(IF disks = << >> THEN 1 ELSE Len(disks))
      /\ mounts[1].id = "default"
      /\ \A k \in 2..Len(disks) : mounts[k].id = disks[k].name
    BY <1>1, ParsedMounts DEF ConfigInv
<1>4. \A k \in 1..Len(disks) : disks[k].name \in DiskName
  <2>1. \A k \in 1..Len(disks) : disks[k] \in [name : DiskName, dir : Dir]
      BY <1>1, ElementOfSeq
  <2>. QED BY <2>1
<1>5. i = 1 \/ i \in 2..Len(disks)
    BY <1>1, <1>2, <1>3
<1>6. m \in MountId
    BY <1>2, <1>3, <1>4, <1>5 DEF MountId
<1>. QED BY <1>6, BootAssumption DEF MountId

(* The schema creates the tables that are missing, one after the other.     *)
LEMMA NextTable ==
    ASSUME ~(AllTables \subseteq tables)
    PROVE  FirstMissing(singleUserSchema, tables) \in AllTables \ tables
<1>. DEFINE seq == singleUserSchema
            P(i) == seq[i] \notin tables /\ \A j \in 1..(i-1) : seq[j] \in tables
<1>1. DOMAIN seq = 1..5
    BY DEF singleUserSchema
<1>2. \E i \in 1..5 : seq[i] \notin tables
    BY <1>1 DEF AllTables
<1>. HIDE DEF seq
<1>3. \E i \in 1..5 : P(i)
  <2>1. CASE seq[1] \notin tables
      BY <2>1
  <2>2. CASE seq[1] \in tables /\ seq[2] \notin tables
      BY <2>2
  <2>3. CASE seq[1] \in tables /\ seq[2] \in tables /\ seq[3] \notin tables
      BY <2>3
  <2>4. CASE seq[1] \in tables /\ seq[2] \in tables /\ seq[3] \in tables /\ seq[4] \notin tables
      BY <2>4
  <2>5. CASE /\ seq[1] \in tables /\ seq[2] \in tables /\ seq[3] \in tables
             /\ seq[4] \in tables /\ seq[5] \notin tables
      BY <2>5
  <2>. QED BY <1>2, <2>1, <2>2, <2>3, <2>4, <2>5
<1>4. PICK n \in 1..5 : n = (CHOOSE i \in DOMAIN seq : P(i)) /\ P(n)
    BY <1>1, <1>3
<1>5. FirstMissing(singleUserSchema, tables) = seq[n]
    BY <1>4 DEF FirstMissing, seq
<1>. QED BY <1>1, <1>4, <1>5 DEF AllTables, seq

(* ensureColumns adds a column that is missing.                             *)
LEMMA NextColumn ==
    ASSUME mountCol \subseteq {"folders", "files"}, mountCol # {"folders", "files"}
    PROVE  FirstMissing(MountTables, mountCol) \in {"folders", "files"} \ mountCol
<1>. DEFINE seq == MountTables
            P(i) == seq[i] \notin mountCol /\ \A j \in 1..(i-1) : seq[j] \in mountCol
<1>1. DOMAIN seq = 1..2 /\ seq[1] = "files" /\ seq[2] = "folders"
    BY DEF MountTables
<1>2. seq[1] \notin mountCol \/ seq[2] \notin mountCol
    BY <1>1
<1>. HIDE DEF seq
<1>3. \E i \in 1..2 : P(i)
  <2>1. CASE seq[1] \notin mountCol
      BY <2>1
  <2>2. CASE seq[1] \in mountCol /\ seq[2] \notin mountCol
      BY <2>2
  <2>. QED BY <1>2, <2>1, <2>2
<1>4. PICK n \in 1..2 : n = (CHOOSE i \in DOMAIN seq : P(i)) /\ P(n)
    BY <1>1, <1>3
<1>5. FirstMissing(MountTables, mountCol) = seq[n]
    BY <1>4 DEF FirstMissing, seq
<1>6. n = 1 \/ n = 2
    OBVIOUS
<1>. QED BY <1>1, <1>4, <1>5, <1>6

(***************************************************************************)
(* Steps that change neither rows nor configuration.                       *)
(***************************************************************************)
(* A step that leaves rows and configuration alone has to see to the schema *)
(* and its phase only.                                                      *)
LEMMA Quiet ==
    ASSUME BootInv, UNCHANGED <<disks, folders, files, object>>, cred' = cred,
           pc' \in Labels, fk' \in BOOLEAN, PhaseInv', SchemaInv', mountCol' = mountCol,
           tables' \subseteq AllTables, legacy' \in BOOLEAN, users' \subseteq Account,
           rootIndex' \in {"none", "name", "name,mount"},
           pc' # "down" => mounts' = parseMounts(disks) /\ Valid(mounts')
    PROVE  BootInv'
<1>1. TypeOK'
    BY DEF BootInv, TypeOK
<1>2. RowTypes' /\ ConfigInv' /\ PlaceInv'
    BY DEF BootInv, RowTypes, ConfigInv, PlaceInv, Valid
<1>. QED BY <1>1, <1>2 DEF BootInv

(* The process starts and reads its configuration, or ends.                 *)
LEMMA ProcessSteps ==
    ASSUME BootInv, Load \/ Open \/ ForeignKeysOff \/ ForeignKeysOn \/ NewMounts
                    \/ Shutdown \/ Crash
    PROVE  BootInv'
<1>. USE DEF Goto, AfterRebuild, AfterKeys, AfterSchema, AfterColumns, AfterIndex
<1>1. /\ UNCHANGED <<disks, folders, files, object, tables, legacy, mountCol, users, rootIndex>>
      /\ cred' = cred
    BY DEF Load, Open, ForeignKeysOff, ForeignKeysOn, NewMounts, Shutdown, Crash,
        config, database
<1>2. SchemaInv'
    BY <1>1 DEF BootInv, SchemaInv
<1>3. RootClash' <=> RootClash
    BY <1>1 DEF RootClash
<1>4. TypeOK /\ PhaseInv /\ ConfigInv
    BY DEF BootInv
<1>5. /\ pc' \in Labels /\ fk' \in BOOLEAN
      /\ pc' # "down" => mounts' = parseMounts(disks) /\ Valid(mounts')
  <2>1. CASE Load
      BY <1>4, <2>1 DEF Load, TypeOK, Labels
  <2>2. CASE Open \/ ForeignKeysOff \/ ForeignKeysOn \/ NewMounts
    <3>1. pc # "down" /\ mounts' = mounts
        BY <2>2 DEF Open, ForeignKeysOff, ForeignKeysOn, NewMounts
    <3>2. pc' \in Labels /\ fk' \in BOOLEAN
        BY <1>4, <2>2 DEF Open, ForeignKeysOff, ForeignKeysOn, NewMounts, TypeOK, Labels
    <3>. QED BY <1>4, <3>1, <3>2 DEF ConfigInv
  <2>3. CASE Shutdown \/ Crash
      BY <1>4, <2>3 DEF Shutdown, Crash, TypeOK, Labels
  <2>. QED BY <2>1, <2>2, <2>3
<1>6. PhaseInv'
  <2>1. CASE Load
      BY <1>1, <2>1 DEF Load, PhaseInv
  <2>2. CASE Open
      BY <1>1, <2>2 DEF Open, PhaseInv
  <2>3. CASE ForeignKeysOff
      BY <1>1, <1>4, <2>3 DEF ForeignKeysOff, PhaseInv
  <2>4. CASE ForeignKeysOn
      BY <1>1, <1>4, <2>4 DEF ForeignKeysOn, PhaseInv
  <2>5. CASE NewMounts
      BY <1>1, <1>3, <1>4, <2>5 DEF NewMounts, PhaseInv
  <2>6. CASE Shutdown \/ Crash
      BY <2>6 DEF Shutdown, Crash, PhaseInv
  <2>. QED BY <2>1, <2>2, <2>3, <2>4, <2>5, <2>6
<1>. QED BY <1>1, <1>2, <1>4, <1>5, <1>6, Quiet DEF TypeOK

(* Dropping and creating the unique index, and seeding the account.         *)
LEMMA IndexSteps ==
    ASSUME BootInv, DropRootIndex \/ CreateRootIndex \/ Seed
    PROVE  BootInv'
<1>. USE DEF Goto, AfterRebuild, AfterKeys, AfterSchema, AfterColumns, AfterIndex
<1>1. /\ UNCHANGED <<disks, folders, files, object, tables, legacy, mountCol, fk, mounts>>
      /\ cred' = cred /\ pc # "down"
    BY DEF DropRootIndex, CreateRootIndex, Seed, config
<1>2. TypeOK /\ PhaseInv /\ ConfigInv /\ SchemaInv
    BY DEF BootInv
<1>3. RootClash' <=> RootClash
    BY <1>1 DEF RootClash
<1>4. /\ pc' \in Labels /\ rootIndex' \in {"none", "name", "name,mount"}
      /\ users' = users \/ (users' = {cred} /\ ~legacy)
    BY <1>2 DEF DropRootIndex, CreateRootIndex, Seed, TypeOK, Labels, PhaseInv
<1>5. SchemaInv' /\ users' \subseteq Account
    BY <1>1, <1>2, <1>4 DEF SchemaInv, TypeOK
<1>6. PhaseInv'
  <2>1. CASE DropRootIndex
      BY <1>1, <1>2, <2>1 DEF DropRootIndex, PhaseInv
  <2>2. CASE CreateRootIndex
    <3>1. \/ pc' = "down"
          \/ pc' = "seed" /\ rootIndex' = "name,mount" /\ ~RootClash
        BY <2>2 DEF CreateRootIndex
    <3>2. ~RootClash => ~RootClash'
        BY <1>3
    <3>3. fk /\ ~legacy /\ tables = AllTables /\ mountCol = {"folders", "files"}
        BY <1>2, <2>2 DEF CreateRootIndex, PhaseInv
    <3>. QED BY <1>1, <3>1, <3>2, <3>3 DEF PhaseInv
  <2>3. CASE Seed
    <3>1. users' # {} /\ rootIndex' = rootIndex /\ pc' = "mounts"
        BY <2>3 DEF Seed
    <3>2. /\ fk /\ ~legacy /\ tables = AllTables /\ mountCol = {"folders", "files"}
          /\ rootIndex = "name,mount" /\ ~RootClash
        BY <1>2, <2>3 DEF Seed, PhaseInv
    <3>3. ~RootClash'
        BY <1>3, <3>2
    <3>. QED BY <1>1, <3>1, <3>2, <3>3 DEF PhaseInv
  <2>. QED BY <2>1, <2>2, <2>3
<1>7. pc' # "down" => mounts' = parseMounts(disks) /\ Valid(mounts')
    BY <1>1, <1>2 DEF ConfigInv
<1>. QED BY <1>1, <1>2, <1>4, <1>5, <1>6, <1>7, Quiet DEF TypeOK

(***************************************************************************)
(* Steps that change the schema.                                           *)
(***************************************************************************)
(* The transaction of migrateLegacy, with foreign keys off, keeps rows.     *)
LEMMA RebuildStep ==
    ASSUME BootInv, Rebuild
    PROVE  BootInv'
<1>. USE DEF Goto, AfterRebuild, AfterKeys, AfterSchema, AfterColumns, AfterIndex
<1>1. TypeOK /\ PhaseInv /\ ConfigInv /\ SchemaInv
    BY DEF BootInv
<1>2. pc = "rebuild" /\ ~fk /\ legacy /\ mountCol = {} /\ tables = AllTables
    BY <1>1 DEF Rebuild, PhaseInv, SchemaInv
<1>3. /\ UNCHANGED <<disks, folders, files, object, mountCol, tables, fk, mounts>>
      /\ cred' = cred /\ pc' = "fkOn" /\ users' = {} /\ ~legacy' /\ rootIndex' = "none"
      /\ legacy' \in BOOLEAN
    BY <1>2 DEF Rebuild, config
<1>4. SchemaInv'
    BY <1>1, <1>3 DEF SchemaInv
<1>5. PhaseInv'
    BY <1>1, <1>3 DEF PhaseInv
<1>6. mounts' = parseMounts(disks) /\ Valid(mounts')
    BY <1>1, <1>2, <1>3 DEF ConfigInv
<1>7. pc' \in Labels
    BY <1>3 DEF Labels
<1>. QED BY <1>1, <1>3, <1>4, <1>5, <1>6, <1>7, Quiet DEF TypeOK

(* CREATE TABLE: a table that was missing had no rows.                      *)
LEMMA CreateTableStep ==
    ASSUME BootInv, CreateTable
    PROVE  BootInv'
<1>. USE DEF Goto, AfterRebuild, AfterKeys, AfterSchema, AfterColumns, AfterIndex
<1>1. TypeOK /\ RowTypes /\ PhaseInv /\ ConfigInv /\ SchemaInv /\ PlaceInv
    BY DEF BootInv
<1>2. /\ pc = "schema" /\ ~legacy
      /\ UNCHANGED <<disks, folders, files, object, fk, mounts, legacy, users, rootIndex>>
      /\ cred' = cred
    BY <1>1 DEF CreateTable, config, PhaseInv
<1>3. mounts' = parseMounts(disks) /\ Valid(mounts')
    BY <1>1, <1>2 DEF ConfigInv
<1>4. CASE AllTables \subseteq tables
  <2>1. tables' = tables /\ mountCol' = mountCol /\ pc' = "columns"
      BY <1>4 DEF CreateTable
  <2>2. PhaseInv' /\ SchemaInv' /\ pc' \in Labels
      BY <1>1, <1>2, <1>4, <2>1 DEF PhaseInv, SchemaInv, TypeOK, Labels
  <2>. QED BY <1>1, <1>2, <1>3, <2>1, <2>2, Quiet DEF TypeOK
<1>5. CASE ~(AllTables \subseteq tables)
  <2>1. PICK t : t = FirstMissing(singleUserSchema, tables)
      OBVIOUS
  <2>2. t \in AllTables \ tables
      BY <1>5, <2>1, NextTable
  <2>3. /\ tables' = tables \cup {t} /\ pc' = "schema"
        /\ mountCol' = mountCol \cup ({t} \cap {"folders", "files"})
      BY <1>5, <2>1 DEF CreateTable
  <2>4. /\ t = "folders" => DOMAIN folders = {}
        /\ t = "files" => DOMAIN files = {}
      BY <1>1, <2>2 DEF SchemaInv
  <2>5. TypeOK'
    <3>1. /\ pc' \in Labels /\ tables' \subseteq AllTables
          /\ mountCol' \subseteq {"folders", "files"}
        BY <1>1, <2>2, <2>3 DEF TypeOK, Labels
    <3>2. \A f \in DOMAIN folders : folders[f].mount = Nil <=> "folders" \notin mountCol'
        BY <1>1, <2>3, <2>4 DEF TypeOK
    <3>3. \A f \in DOMAIN files : files[f].mount = Nil <=> "files" \notin mountCol'
        BY <1>1, <2>3, <2>4 DEF TypeOK
    <3>. QED BY <1>1, <1>2, <3>1, <3>2, <3>3 DEF TypeOK
  <2>6. SchemaInv' /\ PhaseInv'
      BY <1>1, <1>2, <2>3 DEF SchemaInv, PhaseInv
  <2>7. RowTypes' /\ ConfigInv' /\ PlaceInv'
      BY <1>1, <1>2, <1>3 DEF RowTypes, ConfigInv, PlaceInv
  <2>. QED BY <2>5, <2>6, <2>7 DEF BootInv
<1>. QED BY <1>4, <1>5

(* ALTER TABLE gives the rows that knew no disk the first one, whose        *)
(* directory is the one they were stored in.                                *)
LEMMA ColumnsStep ==
    ASSUME BootInv, ensureColumns
    PROVE  BootInv'
<1>. USE DEF Goto, AfterRebuild, AfterKeys, AfterSchema, AfterColumns, AfterIndex
<1>1. TypeOK /\ RowTypes /\ PhaseInv /\ ConfigInv /\ SchemaInv /\ PlaceInv
    BY DEF BootInv
<1>2. /\ pc = "columns" /\ ~legacy
      /\ UNCHANGED <<disks, object, fk, mounts, tables, legacy, users, rootIndex>>
      /\ cred' = cred
    BY <1>1 DEF ensureColumns, config, PhaseInv
<1>3. mounts' = parseMounts(disks) /\ Valid(mounts')
    BY <1>1, <1>2 DEF ConfigInv
<1>4. CASE mountCol = {"folders", "files"}
  <2>1. UNCHANGED <<mountCol, folders, files>> /\ pc' = "dropIndex"
      BY <1>4 DEF ensureColumns
  <2>2. PhaseInv' /\ SchemaInv' /\ pc' \in Labels
      BY <1>1, <1>2, <1>4, <2>1 DEF PhaseInv, SchemaInv, TypeOK, Labels
  <2>. QED BY <1>1, <1>2, <1>3, <2>1, <2>2, Quiet DEF TypeOK
<1>5. CASE mountCol # {"folders", "files"}
  <2>1. PICK t : t = FirstMissing(MountTables, mountCol)
      OBVIOUS
  <2>2. t \in {"folders", "files"} \ mountCol
      BY <1>1, <1>5, <2>1, NextColumn DEF TypeOK
  <2>3. /\ mountCol' = mountCol \cup {t} /\ pc' = "columns"
        /\ folders' = IF t = "folders" THEN Default(folders) ELSE folders
        /\ files' = IF t = "files" THEN Default(files) ELSE files
      BY <1>5, <2>1 DEF ensureColumns, AddColumn
  <2>4. "default" \in MountId /\ "default" # Nil
      BY BootAssumption DEF MountId
  <2>5. /\ DOMAIN folders' = DOMAIN folders
        /\ \A f \in DOMAIN folders :
             /\ folders'[f] \in [parent : FolderId \cup {Nil}, name : Name,
                                 mount : MountId \cup {Nil}]
             /\ folders'[f].parent = folders[f].parent
             /\ folders'[f].mount = IF t = "folders" THEN "default" ELSE folders[f].mount
      BY <1>1, <2>3, <2>4 DEF RowTypes, Default
  <2>6. /\ DOMAIN files' = DOMAIN files
        /\ \A f \in DOMAIN files :
             /\ files'[f] \in [folder : FolderId \cup {Nil}, mount : MountId \cup {Nil}]
             /\ files'[f].folder = files[f].folder
             /\ files'[f].mount = IF t = "files" THEN "default" ELSE files[f].mount
      BY <1>1, <2>3, <2>4 DEF RowTypes, Default
  <2>7. RowTypes'
      BY <2>5, <2>6 DEF RowTypes
  <2>8. TypeOK'
    <3>1. pc' \in Labels /\ mountCol' \subseteq {"folders", "files"}
        BY <1>1, <2>2, <2>3 DEF TypeOK, Labels
    <3>2. \A f \in DOMAIN folders' :
            /\ folders'[f].parent \in DOMAIN folders' \cup {Nil}
            /\ folders'[f].mount = Nil <=> "folders" \notin mountCol'
        BY <1>1, <2>2, <2>3, <2>4, <2>5 DEF TypeOK
    <3>3. \A f \in DOMAIN files' :
            /\ files'[f].folder \in DOMAIN folders' \cup {Nil}
            /\ files'[f].mount = Nil <=> "files" \notin mountCol'
        BY <1>1, <2>2, <2>3, <2>4, <2>5, <2>6 DEF TypeOK
    <3>. QED BY <1>1, <1>2, <2>5, <2>6, <3>1, <3>2, <3>3 DEF TypeOK
  <2>9. SchemaInv' /\ PhaseInv'
      BY <1>1, <1>2, <2>3, <2>5, <2>6 DEF SchemaInv, PhaseInv
  <2>10. ConfigInv'
      BY <1>1, <1>2, <1>3 DEF ConfigInv
  <2>11. PlaceInv'
    <3>1. CASE t # "files"
        BY <1>1, <1>2, <2>3, <3>1 DEF PlaceInv
    <3>2. CASE t = "files"
      <4>1. \A f \in DOMAIN files : files[f].mount = Nil /\ object[f] = StorageRoot
          BY <1>1, <2>2, <3>2 DEF TypeOK, PlaceInv
      <4>2. /\ 1 \in DOMAIN parseMounts(disks)
            /\ parseMounts(disks)[1].id = "default"
            /\ parseMounts(disks)[1].dir = StorageRoot
        <5>1. /\ DOMAIN parseMounts(disks) = 1..(IF disks = << >> THEN 1 ELSE Len(disks))
              /\ parseMounts(disks)[1].id = "default"
              /\ parseMounts(disks)[1].dir = StorageRoot
            BY <1>1, ParsedMounts DEF ConfigInv
        <5>2. disks = << >> \/ Len(disks) \in Nat \ {0}
            BY <1>1 DEF ConfigInv
        <5>. QED BY <5>1, <5>2
      <4>3. \A f \in DOMAIN files : Settled(parseMounts(disks), 1, "default", object[f])
          BY <4>1, <4>2 DEF Settled
      <4>. QED BY <1>2, <2>4, <2>6, <3>2, <4>2, <4>3 DEF PlaceInv
    <3>. QED BY <3>1, <3>2
  <2>. QED BY <2>7, <2>8, <2>9, <2>10, <2>11 DEF BootInv
<1>. QED BY <1>4, <1>5

(* The schema has the tables folders and files.                             *)
LEMMA TableNames == "folders" \in AllTables /\ "files" \in AllTables
<1>1. /\ singleUserSchema[3] = "folders" /\ singleUserSchema[4] = "files"
      /\ 3 \in DOMAIN singleUserSchema /\ 4 \in DOMAIN singleUserSchema
    BY DEF singleUserSchema
<1>. HIDE DEF singleUserSchema
<1>2. \A i \in DOMAIN singleUserSchema : singleUserSchema[i] \in AllTables
    BY DEF AllTables
<1>. QED BY <1>1, <1>2

(***************************************************************************)
(* Requests.                                                               *)
(***************************************************************************)
(* The unique index keeps a new root folder apart from the others.          *)
LEMMA CreateFolderStep ==
    ASSUME BootInv, CreateFolder
    PROVE  BootInv'
<1>. USE DEF Goto, AfterRebuild, AfterKeys, AfterSchema, AfterColumns, AfterIndex
<1>1. TypeOK /\ RowTypes /\ PhaseInv /\ ConfigInv /\ SchemaInv /\ PlaceInv
    BY DEF BootInv
<1>2. /\ pc = "serving"
      /\ UNCHANGED <<disks, cred, pc, mounts, fk, tables, legacy, mountCol, rootIndex,
                     users, files, object>>
    BY DEF CreateFolder, config
<1>3. /\ mountCol = {"folders", "files"} /\ rootIndex = "name,mount" /\ ~RootClash
      /\ tables = AllTables /\ "folders" \in tables /\ "files" \in tables
  <2>1. mountCol = {"folders", "files"} /\ rootIndex = "name,mount" /\ ~RootClash
        /\ tables = AllTables
      BY <1>1, <1>2 DEF PhaseInv
  <2>. QED BY <2>1, TableNames
<1>4. PICK f \in FolderId \ DOMAIN folders, n \in Name, m \in Ids :
         /\ ~\E g \in DOMAIN folders :
               /\ folders[g].parent = Nil /\ folders[g].name = n
               /\ folders[g].mount = m /\ rootIndex = "name,mount"
         /\ folders' = Put(folders, f, [parent |-> Nil, name |-> n, mount |-> m])
    BY DEF CreateFolder
<1>5. m \in MountId /\ m # Nil
    BY <1>1, <1>2, MountIds
<1>6. /\ DOMAIN folders' = DOMAIN folders \cup {f}
      /\ folders'[f] = [parent |-> Nil, name |-> n, mount |-> m]
      /\ folders'[f].parent = Nil /\ folders'[f].name = n /\ folders'[f].mount = m
      /\ \A g \in DOMAIN folders : folders'[g] = folders[g] /\ g # f
  <2>1. /\ DOMAIN folders' = DOMAIN folders \cup {f}
        /\ folders'[f] = [parent |-> Nil, name |-> n, mount |-> m]
        /\ \A g \in DOMAIN folders : folders'[g] = folders[g] /\ g # f
      BY <1>4 DEF Put
  <2>. QED BY <2>1
<1>. HIDE DEF AfterRebuild, AfterKeys, AfterSchema, AfterColumns, AfterIndex
<1>7. RowTypes'
    BY <1>1, <1>2, <1>5, <1>6 DEF RowTypes
<1>8. TypeOK'
  <2>1. \A g \in DOMAIN folders' :
          /\ folders'[g].parent \in DOMAIN folders' \cup {Nil}
          /\ folders'[g].mount = Nil <=> "folders" \notin mountCol'
      BY <1>1, <1>2, <1>3, <1>5, <1>6 DEF TypeOK
  <2>2. \A g \in DOMAIN files' :
          /\ files'[g].folder \in DOMAIN folders' \cup {Nil}
          /\ files'[g].mount = Nil <=> "files" \notin mountCol'
      BY <1>1, <1>2, <1>6 DEF TypeOK
  <2>. QED BY <1>1, <1>2, <1>4, <1>6, <2>1, <2>2 DEF TypeOK
<1>9. ~RootClash'
  <2>1. SUFFICES ASSUME NEW x \in DOMAIN folders', NEW y \in DOMAIN folders', x # y,
                        folders'[x].parent = Nil, folders'[y].parent = Nil,
                        folders'[x].name = folders'[y].name,
                        folders'[x].mount = folders'[y].mount
                 PROVE  FALSE
      BY DEF RootClash
  <2>2. CASE x = f
      BY <1>3, <1>4, <1>6, <2>1, <2>2
  <2>3. CASE y = f
      BY <1>3, <1>4, <1>6, <2>1, <2>3
  <2>4. CASE x # f /\ y # f
      BY <1>3, <1>6, <2>1, <2>4 DEF RootClash
  <2>. QED BY <2>2, <2>3, <2>4
<1>10. SchemaInv' /\ PhaseInv'
    BY <1>1, <1>2, <1>3, <1>9 DEF SchemaInv, PhaseInv
<1>11. ConfigInv' /\ PlaceInv'
    BY <1>1, <1>2 DEF ConfigInv, PlaceInv, Valid
<1>. QED BY <1>7, <1>8, <1>10, <1>11 DEF BootInv

(* While ids differ, Mounts.Get finds the one mount with an id.             *)
LEMMA GetMount ==
    ASSUME Valid(mounts), NEW j \in DOMAIN mounts
    PROVE  Get(mounts[j].id) = mounts[j]
<1>. DEFINE M == {mounts[i] : i \in DOMAIN mounts}
<1>1. \A x \in M : x.id = mounts[j].id => x = mounts[j]
    BY DEF Valid
<1>2. mounts[j] \in M
    OBVIOUS
<1>. HIDE DEF M
<1>3. (CHOOSE x \in M : x.id = mounts[j].id) = mounts[j]
    BY <1>1, <1>2
<1>. QED BY <1>3 DEF Get, M

(* An upload puts the object on the disk that its row names.                *)
LEMMA UploadStep ==
    ASSUME BootInv, Upload
    PROVE  BootInv'
<1>1. TypeOK /\ RowTypes /\ PhaseInv /\ ConfigInv /\ SchemaInv /\ PlaceInv
    BY DEF BootInv
<1>2. /\ pc = "serving"
      /\ UNCHANGED <<disks, cred, pc, mounts, fk, tables, legacy, mountCol, rootIndex,
                     users, folders>>
    BY DEF Upload, config
<1>3. /\ mountCol = {"folders", "files"} /\ tables = AllTables
      /\ "folders" \in tables /\ "files" \in tables
  <2>1. mountCol = {"folders", "files"} /\ tables = AllTables
      BY <1>1, <1>2 DEF PhaseInv, AfterRebuild, AfterKeys, AfterSchema, AfterColumns
  <2>. QED BY <2>1, TableNames
<1>4. PICK f \in FileId \ DOMAIN files, to \in {Nil} \cup DOMAIN folders, m \in Ids :
         /\ to # Nil => folders[to].mount = m
         /\ files' = Put(files, f, [folder |-> to, mount |-> m])
         /\ object' = Put(object, f, Get(m).dir)
    BY DEF Upload
<1>5. m \in MountId /\ m # Nil
    BY <1>1, <1>2, MountIds
<1>6. /\ DOMAIN files' = DOMAIN files \cup {f} /\ DOMAIN object' = DOMAIN object \cup {f}
      /\ files'[f] = [folder |-> to, mount |-> m] /\ object'[f] = Get(m).dir
      /\ files'[f].folder = to /\ files'[f].mount = m
      /\ \A g \in DOMAIN files : files'[g] = files[g] /\ object'[g] = object[g]
  <2>1. /\ DOMAIN files' = DOMAIN files \cup {f} /\ DOMAIN object' = DOMAIN object \cup {f}
        /\ files'[f] = [folder |-> to, mount |-> m] /\ object'[f] = Get(m).dir
        /\ \A g \in DOMAIN files : files'[g] = files[g] /\ object'[g] = object[g]
      BY <1>1, <1>4 DEF Put, TypeOK
  <2>. QED BY <2>1
<1>7. to \in FolderId \cup {Nil}
    BY <1>1, <1>4 DEF TypeOK
<1>8. RowTypes'
    BY <1>1, <1>2, <1>5, <1>6, <1>7 DEF RowTypes
<1>9. TypeOK'
  <2>1. \A g \in DOMAIN files' :
          /\ files'[g].folder \in DOMAIN folders' \cup {Nil}
          /\ files'[g].mount = Nil <=> "files" \notin mountCol'
      BY <1>1, <1>2, <1>3, <1>4, <1>5, <1>6 DEF TypeOK
  <2>. QED BY <1>1, <1>2, <1>4, <1>6, <2>1 DEF TypeOK
<1>10. SchemaInv' /\ PhaseInv'
  <2>1. RootClash' <=> RootClash
      BY <1>2 DEF RootClash
  <2>. QED BY <1>1, <1>2, <1>3, <2>1 DEF SchemaInv, PhaseInv
<1>11. ConfigInv'
    BY <1>1, <1>2 DEF ConfigInv, Valid
<1>12. PlaceInv'
  <2>1. mounts = parseMounts(disks) /\ Valid(mounts)
      BY <1>1, <1>2 DEF ConfigInv
  <2>2. PICK j \in DOMAIN mounts : mounts[j].id = m
      BY DEF Ids
  <2>3. Get(m).dir = mounts[j].dir
      BY <2>1, <2>2, GetMount
  <2>4. j \in Nat /\ DOMAIN mounts = 1..(IF disks = << >> THEN 1 ELSE Len(disks))
    <3>1. DOMAIN mounts = 1..(IF disks = << >> THEN 1 ELSE Len(disks))
        BY <1>1, <2>1, ParsedMounts DEF ConfigInv
    <3>. QED BY <2>2, <3>1
  <2>5. 1..j \subseteq DOMAIN mounts
    <3>1. (IF disks = << >> THEN 1 ELSE Len(disks)) \in Nat
        BY <1>1 DEF ConfigInv
    <3>. QED BY <2>2, <2>4, <3>1
  <2>6. Settled(mounts, j, m, object'[f])
      BY <1>6, <2>1, <2>2, <2>3, <2>5 DEF Settled, Valid
  <2>7. \E k \in DOMAIN parseMounts(disks) :
            Settled(parseMounts(disks), k, files'[f].mount, object'[f])
      BY <1>6, <2>1, <2>2, <2>6
  <2>8. files'[f].mount # Nil
      BY <1>5, <1>6
  <2>9. \A g \in DOMAIN files : IF files'[g].mount = Nil THEN object'[g] = StorageRoot
          ELSE \E k \in DOMAIN parseMounts(disks) :
                  Settled(parseMounts(disks), k, files'[g].mount, object'[g])
      BY <1>1, <1>6 DEF PlaceInv
  <2>. QED BY <1>2, <1>6, <2>7, <2>8, <2>9 DEF PlaceInv
<1>. QED BY <1>8, <1>9, <1>10, <1>11, <1>12 DEF BootInv

(***************************************************************************)
(* The operator.                                                           *)
(***************************************************************************)
(* STORAGE_MOUNTS as the operator keeps it: see ConfigInv.                  *)
Kept(ds) ==
    /\ ds \in Seq([name : DiskName, dir : Dir])
    /\ ds # << >> => ds[1].dir = StorageRoot
    /\ \A i \in 2..Len(ds) : ds[i].name # "default"

Entries(ds) == IF ds = << >> THEN 1 ELSE Len(ds)

(* Entries that two lists have in common have the same ids and directories, *)
(* whatever the first one is called.                                        *)
LEMMA SettledStays ==
    ASSUME NEW ds, NEW es, Kept(ds), Kept(es),
           NEW j \in 1..Entries(ds), j \in 1..Entries(es),
           \A i \in 2..j : es[i].name = ds[i].name /\ es[i].dir = ds[i].dir,
           NEW m, NEW d, Settled(parseMounts(ds), j, m, d)
    PROVE  /\ j \in DOMAIN parseMounts(es)
           /\ Settled(parseMounts(es), j, m, d)
<1>. DEFINE D == parseMounts(ds)
            E == parseMounts(es)
<1>1. Len(ds) \in Nat /\ Len(es) \in Nat
    BY DEF Kept
<1>2. /\ DOMAIN D = 1..Entries(ds) /\ D[1].id = "default" /\ D[1].dir = StorageRoot
      /\ \A i \in 2..Len(ds) : D[i].id = ds[i].name /\ D[i].dir = ds[i].dir
    BY ParsedMounts DEF Kept, Entries
<1>3. /\ DOMAIN E = 1..Entries(es) /\ E[1].id = "default" /\ E[1].dir = StorageRoot
      /\ \A i \in 2..Len(es) : E[i].id = es[i].name /\ E[i].dir = es[i].dir
    BY ParsedMounts DEF Kept, Entries
<1>. HIDE DEF D, E
<1>4. \A i \in 1..j : i = 1 \/ (i \in 2..j /\ i \in 2..Len(ds) /\ i \in 2..Len(es))
    BY <1>1 DEF Entries
<1>5. \A i \in 1..j : E[i].id = D[i].id /\ E[i].dir = D[i].dir
    BY <1>2, <1>3, <1>4
<1>6. j \in 1..j /\ Settled(D, j, m, d)
    BY DEF D
<1>7. Settled(E, j, m, d)
    BY <1>5, <1>6 DEF Settled
<1>. QED BY <1>3, <1>7 DEF E

(* What the operator does to the list of disks leaves it in order, and no   *)
(* disk with files changes its place: the first one may be renamed, and an  *)
(* entry that is taken back has no files, because its id was taken.         *)
LEMMA DisksInOrder ==
    ASSUME ConfigInv, SetDisks, NEW es, es = disks'
    PROVE  /\ Kept(es)
           /\ \A j \in 1..Entries(disks) :
                (\E m, d : Settled(parseMounts(disks), j, m, d)) =>
                   /\ j \in 1..Entries(es)
                   /\ \A i \in 2..j : es[i].name = disks[i].name /\ es[i].dir = disks[i].dir
<1>. DEFINE Disk == [name : DiskName, dir : Dir]
<1>1. Kept(disks) /\ Len(disks) \in Nat /\ disks \in Seq(Disk)
    BY DEF ConfigInv, Kept
<1>2. DOMAIN parseMounts(disks) = 1..Entries(disks)
    BY <1>1, ParsedMounts DEF Kept, Entries
<1>3. \A i \in 1..Len(disks) : disks[i] \in Disk
    BY <1>1, ElementOfSeq
<1>4. /\ disks # << >> => Len(disks) \in Nat \ {0}
      /\ disks = << >> => Len(disks) = 0
    BY <1>1, EmptySeq
<1>5. StorageRoot \in Dir
    BY BootAssumption
<1>6. CASE disks = << >> /\ \E n \in DiskName : es = << [name |-> n, dir |-> StorageRoot] >>
  <2>1. PICK n \in DiskName : es = << [name |-> n, dir |-> StorageRoot] >>
      BY <1>6
  <2>2. es \in Seq(Disk) /\ Len(es) = 1 /\ es[1].dir = StorageRoot /\ es # << >>
      BY <1>5, <2>1
  <2>3. Kept(es) /\ Entries(es) = 1 /\ Entries(disks) = 1
      BY <1>6, <2>2 DEF Kept, Entries
  <2>. QED BY <2>3
<1>7. CASE disks # << >> /\ \E n \in DiskName : es = [disks EXCEPT ![1].name = n]
  <2>1. PICK n \in DiskName : es = [disks EXCEPT ![1].name = n]
      BY <1>7
  <2>2. PICK e : e = [disks[1] EXCEPT !.name = n]
      OBVIOUS
  <2>3. 1 \in 1..Len(disks) /\ disks[1] \in Disk
      BY <1>3, <1>4, <1>7
  <2>4. e \in Disk /\ e.dir = disks[1].dir
      BY <2>2, <2>3
  <2>5. es = [disks EXCEPT ![1] = e]
      BY <2>1, <2>2
  <2>. HIDE DEF Disk
  <2>6. /\ es \in Seq(Disk) /\ Len(es) = Len(disks)
        /\ \A i \in 1..Len(disks) : es[i] = IF i = 1 THEN e ELSE disks[i]
      BY <1>1, <2>3, <2>4, <2>5, ExceptSeq
  <2>7. es # << >> /\ es[1].dir = StorageRoot
      BY <1>1, <1>4, <1>7, <2>3, <2>4, <2>6, EmptySeq DEF Kept
  <2>8. \A i \in 2..Len(disks) : i \in 1..Len(disks) /\ i # 1
      BY <1>1
  <2>9. \A i \in 2..Len(disks) : es[i] = disks[i]
      BY <2>6, <2>8
  <2>10. Kept(es)
      BY <1>1, <2>6, <2>7, <2>9 DEF Kept, Disk
  <2>11. Entries(es) = Len(disks) /\ Entries(disks) = Len(disks)
      BY <1>7, <2>6, <2>7 DEF Entries
  <2>12. \A j \in 1..Len(disks) : \A i \in 2..j : i \in 2..Len(disks)
      BY <1>1
  <2>. QED BY <2>9, <2>10, <2>11, <2>12
<1>8. CASE /\ Len(disks) \in 1..(MaxDisks - 1)
           /\ \E n \in DiskName \ {"default"}, d \in Dir :
                es = Append(disks, [name |-> n, dir |-> d])
  <2>1. PICK n \in DiskName \ {"default"}, d \in Dir :
                es = Append(disks, [name |-> n, dir |-> d])
      BY <1>8
  <2>2. PICK e : e = [name |-> n, dir |-> d]
      OBVIOUS
  <2>3. e \in Disk /\ e.name # "default" /\ es = Append(disks, e)
      BY <2>1, <2>2
  <2>. HIDE DEF Disk
  <2>4. /\ es \in Seq(Disk) /\ es # << >> /\ Len(es) = Len(disks) + 1
        /\ \A i \in 1..Len(disks) : es[i] = disks[i]
        /\ es[Len(disks) + 1] = e
      BY <1>1, <2>3, AppendProperties
  <2>5. Len(disks) >= 1 /\ disks # << >>
    <3>1. MaxDisks \in Nat
        BY BootAssumption
    <3>. QED BY <1>1, <1>4, <1>8, <3>1
  <2>6. es[1].dir = StorageRoot
    <3>1. 1 \in 1..Len(disks)
        BY <1>1, <2>5
    <3>. QED BY <1>1, <2>4, <2>5, <3>1 DEF Kept
  <2>7. \A i \in 2..Len(es) : es[i].name # "default"
    <3>1. \A i \in 2..Len(es) : i = Len(disks) + 1 \/ (i \in 2..Len(disks) /\ i \in 1..Len(disks))
        BY <1>1, <2>4
    <3>. QED BY <1>1, <2>3, <2>4, <3>1 DEF Kept
  <2>8. Kept(es)
      BY <2>4, <2>6, <2>7 DEF Kept, Disk
  <2>9. Entries(es) = Len(disks) + 1 /\ Entries(disks) = Len(disks)
      BY <2>4, <2>5 DEF Entries
  <2>10. \A j \in 1..Len(disks) : j \in 1..(Len(disks) + 1) /\ \A i \in 2..j : i \in 1..Len(disks)
      BY <1>1
  <2>. QED BY <2>4, <2>8, <2>9, <2>10
<1>9. CASE ~Valid(parseMounts(disks)) /\ es = SubSeq(disks, 1, Len(disks) - 1)
  <2>1. Entries(disks) >= 2 /\ Len(disks) >= 2 /\ Entries(disks) = Len(disks) /\ disks # << >>
    <3>1. PICK i \in 1..Entries(disks), k \in 1..Entries(disks) : i # k
        BY <1>2, <1>9 DEF Valid
    <3>2. Entries(disks) \in Nat
        BY <1>1 DEF Entries
    <3>3. Entries(disks) >= 2
        BY <3>1, <3>2
    <3>. QED BY <3>3 DEF Entries
  <2>2. \A i \in 1..(Len(disks) - 1) : i \in 1..Len(disks) /\ disks[i] \in Disk
      BY <1>1, <1>3
  <2>. HIDE DEF Disk
  <2>3. /\ es \in Seq(Disk)
        /\ Len(es) = Len(disks) - 1
        /\ \A i \in 1..(Len(disks) - 1) : es[i] = disks[i]
    <3>1. 1 \in Int /\ Len(disks) - 1 \in Int
        BY <1>1
    <3>2. /\ SubSeq(disks, 1, Len(disks) - 1) \in Seq(Disk)
          /\ Len(SubSeq(disks, 1, Len(disks) - 1)) =
                IF 1 <= Len(disks) - 1 THEN Len(disks) - 1 - 1 + 1 ELSE 0
          /\ \A i \in 1..(Len(disks) - 1 - 1 + 1) :
                SubSeq(disks, 1, Len(disks) - 1)[i] = disks[1 + i - 1]
        BY <2>2, <3>1, SubSeqProperties
    <3>3. Len(disks) - 1 - 1 + 1 = Len(disks) - 1 /\ 1 <= Len(disks) - 1
        BY <1>1, <2>1
    <3>4. \A i \in 1..(Len(disks) - 1) : 1 + i - 1 = i
        OBVIOUS
    <3>. QED BY <1>9, <3>2, <3>3, <3>4
  <2>4. es # << >> /\ Len(es) >= 1
      BY <1>1, <2>1, <2>3, EmptySeq
  <2>5. Kept(es)
    <3>1. 1 \in 1..(Len(disks) - 1)
        BY <1>1, <2>1
    <3>2. \A i \in 2..Len(es) : i \in 1..(Len(disks) - 1) /\ i \in 2..Len(disks)
        BY <1>1, <2>3
    <3>. QED BY <1>1, <2>1, <2>3, <3>1, <3>2 DEF Kept, Disk
  <2>6. ASSUME NEW j \in 1..Entries(disks), NEW m, NEW d,
               Settled(parseMounts(disks), j, m, d)
        PROVE  j \in 1..(Len(disks) - 1)
    <3>1. j # Len(disks)
        BY <1>2, <1>9, <2>1, <2>6 DEF Settled, Valid
    <3>. QED BY <1>1, <2>1, <3>1
  <2>7. Entries(es) = Len(disks) - 1
      BY <2>3, <2>4 DEF Entries
  <2>8. \A j \in 1..(Len(disks) - 1) : \A i \in 2..j : i \in 1..(Len(disks) - 1)
      BY <1>1
  <2>. QED BY <2>3, <2>5, <2>6, <2>7, <2>8
<1>. QED BY <1>6, <1>7, <1>8, <1>9 DEF SetDisks

(* Other credentials or other disks: the database is not touched.           *)
LEMMA ConfigureStep ==
    ASSUME BootInv, Configure
    PROVE  BootInv'
<1>1. TypeOK /\ RowTypes /\ PhaseInv /\ ConfigInv /\ SchemaInv /\ PlaceInv
    BY DEF BootInv
<1>2. /\ pc = "down"
      /\ UNCHANGED <<tables, legacy, mountCol, rootIndex, users, folders, files, object,
                     pc, mounts, fk>>
    BY DEF Configure, database
<1>3. RowTypes' /\ SchemaInv'
    BY <1>1, <1>2 DEF RowTypes, SchemaInv
<1>4. PhaseInv'
    BY <1>2 DEF PhaseInv, AfterRebuild, AfterKeys, AfterSchema, AfterColumns, AfterIndex
<1>5. CASE SetCredentials
  <2>1. disks' = disks /\ cred' \in Account
      BY <1>5 DEF SetCredentials
  <2>2. TypeOK' /\ ConfigInv' /\ PlaceInv'
      BY <1>1, <1>2, <2>1 DEF TypeOK, ConfigInv, PlaceInv
  <2>. QED BY <1>3, <1>4, <2>2 DEF BootInv
<1>6. CASE SetDisks
  <2>1. cred' = cred
      BY <1>6 DEF SetDisks
  <2>2. PICK es : es = disks'
      OBVIOUS
  <2>3. /\ Kept(es)
        /\ \A j \in 1..Entries(disks) :
             (\E m, d : Settled(parseMounts(disks), j, m, d)) =>
                /\ j \in 1..Entries(es)
                /\ \A i \in 2..j : es[i].name = disks[i].name /\ es[i].dir = disks[i].dir
      BY <1>1, <1>6, <2>2, DisksInOrder
  <2>4. Kept(disks) /\ DOMAIN parseMounts(disks) = 1..Entries(disks)
      BY <1>1, ParsedMounts DEF ConfigInv, Kept, Entries
  <2>5. TypeOK'
      BY <1>1, <1>2, <2>1 DEF TypeOK
  <2>6. ConfigInv'
      BY <1>2, <2>2, <2>3 DEF ConfigInv, Kept
  <2>7. \A f \in DOMAIN files : IF files[f].mount = Nil THEN object[f] = StorageRoot
          ELSE \E j \in DOMAIN parseMounts(es) :
                  Settled(parseMounts(es), j, files[f].mount, object[f])
    <3>1. SUFFICES ASSUME NEW f \in DOMAIN files, files[f].mount # Nil
                   PROVE  \E j \in DOMAIN parseMounts(es) :
                             Settled(parseMounts(es), j, files[f].mount, object[f])
        BY <1>1 DEF PlaceInv
    <3>2. PICK j \in 1..Entries(disks) :
                  Settled(parseMounts(disks), j, files[f].mount, object[f])
        BY <1>1, <2>4, <3>1 DEF PlaceInv
    <3>3. /\ j \in 1..Entries(es)
          /\ \A i \in 2..j : es[i].name = disks[i].name /\ es[i].dir = disks[i].dir
        BY <2>3, <3>2
    <3>. QED BY <2>3, <2>4, <3>2, <3>3, SettledStays
  <2>8. PlaceInv'
      BY <1>2, <2>2, <2>7 DEF PlaceInv
  <2>. QED BY <1>3, <1>4, <2>5, <2>6, <2>8 DEF BootInv
<1>. QED BY <1>5, <1>6 DEF Configure

(***************************************************************************)
(* The databases a server starts with.                                     *)
(***************************************************************************)
(* A database of an earlier version knows no disks, and has its objects in  *)
(* STORAGE_ROOT.                                                            *)
LEMMA OlderRows ==
    ASSUME NEW accounts, Older(accounts)
    PROVE  /\ tables = AllTables /\ mountCol = {} /\ users = accounts
           /\ DOMAIN folders \subseteq FolderId /\ DOMAIN files \subseteq FileId
           /\ DOMAIN object = DOMAIN files
           /\ \A f \in DOMAIN folders :
                /\ folders[f] \in [parent : FolderId \cup {Nil}, name : Name,
                                   mount : MountId \cup {Nil}]
                /\ folders[f].parent \in DOMAIN folders \cup {Nil} /\ folders[f].mount = Nil
           /\ \A f \in DOMAIN files :
                /\ files[f] \in [folder : FolderId \cup {Nil}, mount : MountId \cup {Nil}]
                /\ files[f].folder \in DOMAIN folders \cup {Nil} /\ files[f].mount = Nil
                /\ object[f] = StorageRoot
<1>1. PICK fs \in SUBSET FolderId :
         \E nameOf \in [fs -> Name], parentOf \in [fs -> fs \cup {Nil}] :
            /\ folders = Rows(parentOf, nameOf)
            /\ \E is \in SUBSET FileId : \E inF \in [is -> fs \cup {Nil}] :
                 /\ files = [i \in is |-> [folder |-> inF[i], mount |-> Nil]]
                 /\ object = [i \in is |-> StorageRoot]
    BY DEF Older
<1>2. PICK nameOf \in [fs -> Name], parentOf \in [fs -> fs \cup {Nil}] :
         /\ folders = Rows(parentOf, nameOf)
         /\ \E is \in SUBSET FileId : \E inF \in [is -> fs \cup {Nil}] :
              /\ files = [i \in is |-> [folder |-> inF[i], mount |-> Nil]]
              /\ object = [i \in is |-> StorageRoot]
    BY <1>1
<1>3. PICK is \in SUBSET FileId : \E inF \in [is -> fs \cup {Nil}] :
         /\ files = [i \in is |-> [folder |-> inF[i], mount |-> Nil]]
         /\ object = [i \in is |-> StorageRoot]
    BY <1>2
<1>4. PICK inF \in [is -> fs \cup {Nil}] :
         /\ files = [i \in is |-> [folder |-> inF[i], mount |-> Nil]]
         /\ object = [i \in is |-> StorageRoot]
    BY <1>3
<1>5. folders = [f \in fs |-> [parent |-> parentOf[f], name |-> nameOf[f], mount |-> Nil]]
    BY <1>2 DEF Rows
<1>6. \A f \in fs : parentOf[f] \in fs \cup {Nil} /\ nameOf[f] \in Name
    OBVIOUS
<1>7. \A i \in is : inF[i] \in fs \cup {Nil}
    OBVIOUS
<1>8. /\ DOMAIN folders = fs
      /\ \A f \in fs : /\ folders[f] = [parent |-> parentOf[f], name |-> nameOf[f], mount |-> Nil]
                       /\ folders[f].parent = parentOf[f] /\ folders[f].mount = Nil
    BY <1>5
<1>9. /\ DOMAIN files = is /\ DOMAIN object = is
      /\ \A f \in is : /\ files[f] = [folder |-> inF[f], mount |-> Nil]
                       /\ files[f].folder = inF[f] /\ files[f].mount = Nil
                       /\ object[f] = StorageRoot
    BY <1>4
<1>10. tables = AllTables /\ mountCol = {} /\ users = accounts
    BY DEF Older
<1>. QED BY <1>6, <1>7, <1>8, <1>9, <1>10

(* The invariant holds of a new database and of those of earlier versions.  *)
LEMMA BootInit == Init => BootInv
<1>. SUFFICES ASSUME Init PROVE BootInv
    OBVIOUS
<1>1. disks = << >> /\ cred \in Account /\ pc = "down" /\ fk = FALSE
    BY DEF Init
<1>2. PhaseInv
    BY <1>1 DEF PhaseInv, AfterRebuild, AfterKeys, AfterSchema, AfterColumns, AfterIndex
<1>3. ConfigInv
  <2>1. << >> \in Seq([name : DiskName, dir : Dir]) /\ Len(<< >>) = 0
      BY EmptySeq
  <2>. QED BY <1>1, <2>1 DEF ConfigInv
<1>4. "down" \in Labels
    BY DEF Labels
<1>5. CASE Fresh
  <2>1. /\ DOMAIN folders = {} /\ DOMAIN files = {} /\ DOMAIN object = {}
        /\ tables = {} /\ mountCol = {} /\ users = {} /\ legacy = FALSE /\ rootIndex = "none"
      BY <1>5 DEF Fresh
  <2>2. TypeOK /\ RowTypes /\ SchemaInv /\ PlaceInv
      BY <1>1, <1>4, <2>1 DEF TypeOK, RowTypes, SchemaInv, PlaceInv
  <2>. QED BY <1>2, <1>3, <2>2 DEF BootInv
<1>6. CASE \E accounts \in SUBSET Account :
             /\ Older(accounts) /\ legacy \in BOOLEAN /\ rootIndex \in {"none", "name"}
             /\ ~legacy => \E a \in Account : accounts = {a}
  <2>1. PICK accounts \in SUBSET Account :
             /\ Older(accounts) /\ legacy \in BOOLEAN /\ rootIndex \in {"none", "name"}
             /\ ~legacy => \E a \in Account : accounts = {a}
      BY <1>6
  <2>2. /\ tables = AllTables /\ mountCol = {} /\ users = accounts
        /\ DOMAIN folders \subseteq FolderId /\ DOMAIN files \subseteq FileId
        /\ DOMAIN object = DOMAIN files
        /\ \A f \in DOMAIN folders :
             /\ folders[f].parent \in DOMAIN folders \cup {Nil} /\ folders[f].mount = Nil
        /\ \A f \in DOMAIN files :
             /\ files[f].folder \in DOMAIN folders \cup {Nil} /\ files[f].mount = Nil
             /\ object[f] = StorageRoot
      BY <2>1, OlderRows
  <2>3. RowTypes
      BY <2>1, OlderRows DEF RowTypes
  <2>4. TypeOK
      BY <1>1, <1>4, <2>1, <2>2 DEF TypeOK
  <2>5. SchemaInv /\ PlaceInv
      BY <2>1, <2>2, TableNames DEF SchemaInv, PlaceInv
  <2>. QED BY <1>2, <1>3, <2>3, <2>4, <2>5 DEF BootInv
<1>7. \/ Fresh
      \/ \E accounts \in SUBSET Account :
             /\ Older(accounts) /\ legacy \in BOOLEAN /\ rootIndex \in {"none", "name"}
             /\ ~legacy => \E a \in Account : accounts = {a}
  <2>1. CASE legacy = TRUE /\ rootIndex = "none" /\ Older(Account)
    <3>1. Account \in SUBSET Account
        OBVIOUS
    <3>. QED BY <2>1, <3>1
  <2>2. CASE \E a \in Account : Older({a}) /\ legacy = FALSE /\ rootIndex = "name" /\ ~RootClash
    <3>1. PICK a \in Account : Older({a}) /\ legacy = FALSE /\ rootIndex = "name"
        BY <2>2
    <3>2. {a} \in SUBSET Account
        OBVIOUS
    <3>. QED BY <3>1, <3>2
  <2>. QED BY <2>1, <2>2 DEF Init
<1>. QED BY <1>5, <1>6, <1>7

(***************************************************************************)
(* Theorems.                                                               *)
(***************************************************************************)
(* The inductive invariant: wherever a start is interrupted, what the later *)
(* phases of database.Open rely on has been done, and files are on the      *)
(* disks that their rows name.                                              *)
THEOREM BootInvariance == Spec => []BootInv
<1>1. Init => BootInv
    BY BootInit
<1>2. BootInv /\ [Next]_vars => BootInv'
  <2>1. SUFFICES ASSUME BootInv, [Next]_vars PROVE BootInv'
      OBVIOUS
  <2>2. CASE UNCHANGED vars
    <3>1. UNCHANGED <<disks, cred, pc, mounts, fk, tables, legacy, mountCol, rootIndex,
                      users, folders, files, object>>
        BY <2>2 DEF vars
    <3>2. TypeOK' /\ RowTypes' /\ SchemaInv'
        BY <2>1, <3>1 DEF BootInv, TypeOK, RowTypes, SchemaInv
    <3>3. PhaseInv'
        BY <2>1, <3>1 DEF BootInv, PhaseInv, RootClash
    <3>4. ConfigInv' /\ PlaceInv'
        BY <2>1, <3>1 DEF BootInv, ConfigInv, PlaceInv, Valid
    <3>. QED BY <3>2, <3>3, <3>4 DEF BootInv
  <2>3. CASE Step
      BY <2>1, <2>3, ProcessSteps, IndexSteps, RebuildStep, CreateTableStep, ColumnsStep
      DEF Step
  <2>4. CASE Shutdown \/ Crash
      BY <2>1, <2>4, ProcessSteps
  <2>5. CASE CreateFolder
      BY <2>1, <2>5, CreateFolderStep
  <2>6. CASE Upload
      BY <2>1, <2>6, UploadStep
  <2>7. CASE Configure
      BY <2>1, <2>7, ConfigureStep
  <2>. QED BY <2>1, <2>2, <2>3, <2>4, <2>5, <2>6, <2>7 DEF Next
<1>. QED BY <1>1, <1>2, PTL DEF Spec

(* Types, and the references between rows.                                  *)
THEOREM BootTyped == Spec => []TypeOK
<1>1. BootInv => TypeOK
    BY DEF BootInv
<1>. QED BY <1>1, BootInvariance, PTL

(* A server that answers requests has the whole schema, enforced foreign    *)
(* keys, the unique index over root folders, and exactly one account.       *)
THEOREM ServingIsSound == Spec => []ServesSound
<1>1. BootInv => ServesSound
  <2>1. SUFFICES ASSUME BootInv, pc = "serving" PROVE ServesSound
      BY DEF ServesSound
  <2>2. /\ tables = AllTables /\ ~legacy /\ mountCol = {"folders", "files"}
        /\ fk /\ rootIndex = "name,mount" /\ ~RootClash /\ users # {}
      BY <2>1 DEF BootInv, PhaseInv, AfterRebuild, AfterKeys, AfterSchema, AfterColumns,
        AfterIndex
  <2>3. PICK a : users = {a}
      BY <2>1, <2>2 DEF BootInv, SchemaInv
  <2>4. Cardinality(users) = 1
      BY <2>3, FS_Singleton
  <2>. QED BY <2>2, <2>4 DEF ServesSound
<1>. QED BY <1>1, BootInvariance, PTL

(* Every file is found on the disk that its row names, whatever disks were  *)
(* added, renamed or refused since it was stored.                           *)
THEOREM FilesFound == Spec => []FilesReachable
<1>1. BootInv => FilesReachable
  <2>1. SUFFICES ASSUME BootInv, pc = "serving", NEW f \in DOMAIN files
                 PROVE  files[f].mount \in Ids /\ Get(files[f].mount).dir = object[f]
      BY DEF FilesReachable
  <2>2. mounts = parseMounts(disks) /\ Valid(mounts)
      BY <2>1 DEF BootInv, ConfigInv
  <2>3. files[f].mount # Nil
      BY <2>1 DEF BootInv, TypeOK, PhaseInv, AfterRebuild, AfterKeys, AfterSchema, AfterColumns
  <2>4. PICK j \in DOMAIN mounts : Settled(mounts, j, files[f].mount, object[f])
      BY <2>1, <2>2, <2>3 DEF BootInv, PlaceInv
  <2>5. mounts[j].id = files[f].mount /\ mounts[j].dir = object[f]
      BY <2>4 DEF Settled
  <2>6. Get(files[f].mount) = mounts[j]
      BY <2>2, <2>5, GetMount
  <2>. QED BY <2>5, <2>6 DEF Ids
<1>. QED BY <1>1, BootInvariance, PTL

(* No step, of the migration or of anything else, loses a row or moves it:  *)
(* folders keep parent and name, files their folder, both their disk once   *)
(* they have one, and the account stays.                                    *)
THEOREM StartsKeepRows == Spec => RowsKept
<1>. DEFINE Keeps ==
         /\ \A f \in DOMAIN folders : f \in DOMAIN folders'
              /\ folders'[f].parent = folders[f].parent /\ folders'[f].name = folders[f].name
              /\ folders[f].mount \in {Nil, folders'[f].mount}
         /\ \A f \in DOMAIN files : f \in DOMAIN files'
              /\ files'[f].folder = files[f].folder
              /\ files[f].mount \in {Nil, files'[f].mount}
         /\ ~legacy /\ users # {} => users' = users
<1>1. BootInv /\ [Next]_vars => [Keeps]_vars
  <2>1. SUFFICES ASSUME BootInv, Next PROVE Keeps
      OBVIOUS
  <2>2. CASE UNCHANGED <<folders, files, users>>
      BY <2>2
  <2>3. CASE Rebuild
    <3>1. ~fk /\ legacy
        BY <2>1, <2>3 DEF BootInv, PhaseInv, Rebuild
    <3>. QED BY <2>3, <3>1 DEF Rebuild
  <2>4. CASE ensureColumns /\ mountCol # {"folders", "files"}
    <3>1. PICK t : t = FirstMissing(MountTables, mountCol)
        OBVIOUS
    <3>2. t \in {"folders", "files"} \ mountCol
        BY <2>1, <2>4, <3>1, NextColumn DEF BootInv, TypeOK
    <3>3. /\ folders' = IF t = "folders" THEN Default(folders) ELSE folders
          /\ files' = IF t = "files" THEN Default(files) ELSE files
          /\ users' = users
        BY <2>4, <3>1 DEF ensureColumns, AddColumn
    <3>4. /\ \A f \in DOMAIN folders : folders[f] \in
               [parent : FolderId \cup {Nil}, name : Name, mount : MountId \cup {Nil}]
          /\ \A f \in DOMAIN files : files[f] \in
               [folder : FolderId \cup {Nil}, mount : MountId \cup {Nil}]
        BY <2>1 DEF BootInv, RowTypes
    <3>5. CASE t = "folders"
      <4>1. \A f \in DOMAIN folders : folders[f].mount = Nil
          BY <2>1, <3>2, <3>5 DEF BootInv, TypeOK
      <4>2. files' = files /\ folders' = Default(folders)
          BY <3>3, <3>5
      <4>. QED BY <3>3, <3>4, <4>1, <4>2 DEF Default
    <3>6. CASE t = "files"
      <4>1. \A f \in DOMAIN files : files[f].mount = Nil
          BY <2>1, <3>2, <3>6 DEF BootInv, TypeOK
      <4>2. folders' = folders /\ files' = Default(files)
          BY <3>3, <3>6
      <4>. QED BY <3>3, <3>4, <4>1, <4>2 DEF Default
    <3>. QED BY <3>2, <3>5, <3>6
  <2>5. CASE Seed
      BY <2>5 DEF Seed
  <2>6. CASE CreateFolder
      BY <2>6 DEF CreateFolder, Put
  <2>7. CASE Upload
      BY <2>7 DEF Upload, Put
  <2>8. CASE \/ Load \/ Open \/ ForeignKeysOff \/ ForeignKeysOn \/ CreateTable
             \/ (ensureColumns /\ mountCol = {"folders", "files"})
             \/ DropRootIndex \/ CreateRootIndex \/ NewMounts
             \/ Shutdown \/ Crash \/ Configure
    <3>1. UNCHANGED <<folders, files, users>>
        BY <2>8 DEF Load, Open, ForeignKeysOff, ForeignKeysOn, CreateTable, ensureColumns,
            DropRootIndex, CreateRootIndex, NewMounts, Shutdown, Crash, Configure, database
    <3>. QED BY <2>2, <3>1
  <2>. QED BY <2>1, <2>3, <2>4, <2>5, <2>6, <2>7, <2>8 DEF Next, Step
<1>2. Spec => [][Keeps]_vars
    BY <1>1, BootInvariance, PTL DEF Spec
<1>. QED BY <1>2 DEF RowsKept
=============================================================================
