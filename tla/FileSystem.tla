----------------------------- MODULE FileSystem -----------------------------
(***************************************************************************)
(* The in-memory FAT12 filesystem of filesystem.c: the allocation table,   *)
(* the root directory, the file handles and the current directory.         *)
(*                                                                         *)
(* A path is the sequence of its slashes and names, e.g. <<"/", "a">>, and *)
(* a name stands for all spellings convert_filename maps to it.  The table *)
(* is a function from clusters to values; module Fat12 shows that the      *)
(* packed bytes implement it.  The sector driver is a stub that always     *)
(* succeeds and moves no data, so file contents are not modelled, but the  *)
(* sector numbers it is called with are.  Sizes and offsets count whole    *)
(* sectors.  Calls run to completion; fs_read and fs_write are one action  *)
(* per sector.                                                             *)
(*                                                                         *)
(* An "any" client makes every call with every argument.  A "strict" one   *)
(* deletes, removes and renames only by paths without a leading slash, and *)
(* only while no file is open, and formats only from the root directory    *)
(* with no file open.  Of the paths validate_path accepts only "." and     *)
(* ".." have no leading slash, and remove_directory_entry never finds any  *)
(* other (see DeleteRemoves).  So what is said of a strict client covers   *)
(* no ordinary delete, rmdir or rename: after the first of those, clusters *)
(* and entries no longer belong together.                                  *)
(***************************************************************************)
EXTENDS Integers, Sequences, FiniteSets, FiniteSetsExt

CONSTANTS
  CLUSTERS,         \* entries of the FAT (2880 in the code)
  FS_ROOT_ENTRIES,  \* entries of the root directory (224 in the code)
  FS_DATA_SECTOR,   \* first data sector (33 in the code)
  Paths,            \* the paths callers use
  Handles,          \* the fs_file_t objects callers own
  MAX_SIZE,         \* bound: no file grows past this many sectors,
  ANY_SIZE,         \* or past this many with an "any" client
  Clients           \* the clients considered

FREE_CLUSTER == 0
EOC == 4095              \* 0xFFF, written at the end of a chain
LAST == 4088             \* 0xFF8, values from here on end a chain
FS_READ == "read"
FS_WRITE == "write"
NoName == <<"free">>     \* name[0] is 0 or 0xE5: the entry is free

Clusters == 0 .. CLUSTERS - 1
Entries == 0 .. FS_ROOT_ENTRIES - 1
Root == <<"/">>

ASSUME FileSystemAssumption ==
  /\ CLUSTERS \in 3 .. LAST - 1
  /\ FS_ROOT_ENTRIES \in Nat \ {0}
  /\ FS_DATA_SECTOR \in Nat /\ FS_DATA_SECTOR >= 4
  /\ MAX_SIZE \in Nat /\ ANY_SIZE \in 0 .. MAX_SIZE
  /\ Clients \subseteq {"any", "strict"}

VARIABLES
  client,             \* what the callers keep to; never changes
  fat,                \* fs_state.fat_table
  root_dir,           \* fs_state.root_dir
  file,               \* the handles
  current_directory,  \* fs_state.current_directory
  io,                 \* the fs_read or fs_write in progress
  hung                \* fs_free_cluster_chain is going round cluster 0

vars == <<client, fat, root_dir, file, current_directory, io, hung>>

NoEntry == [name |-> NoName, directory |-> FALSE, cluster |-> 0, size |-> 0]
Closed == [valid |-> FALSE, cluster |-> 0, offset |-> 0, size |-> 0, mode |-> {}]
NoIo == [op |-> "none", h |-> "none", left |-> 0, cluster |-> 0, sector |-> 0]

(* fs_init: its two fs_write_fat calls for clusters 0 and 1 are refused,   *)
(* because the filesystem is not yet initialized.  The statistics it sets  *)
(* are recomputed before anything reads them, and are not state here.      *)
Init ==
  /\ client \in Clients
  /\ fat = [c \in Clusters |-> FREE_CLUSTER]
  /\ root_dir = [i \in Entries |-> NoEntry]
  /\ file = [h \in Handles |-> Closed]
  /\ current_directory = Root
  /\ io = NoIo
  /\ hung = FALSE

-----------------------------------------------------------------------------
(* Paths and names *)

(* The 8.3 name of a string: "." has an empty name and an empty extension. *)
convert_filename(s) == IF s = <<".">> THEN <<>> ELSE s

(* The leading slash is taken off before the conversion by the functions   *)
(* that look up and add an entry, and by no other.                         *)
Strip(path) == IF path # <<>> /\ Head(path) = "/" THEN Tail(path) ELSE path
lookup_name(path) == convert_filename(Strip(path))
raw_name(path) == convert_filename(path)

(* A path is a string of ASCII characters, as the keyboard's tables and    *)
(* the programs give them: no name begins with 0xE5, the mark of a removed *)
(* entry, which convert_filename would copy like any other byte.           *)
ASSUME PathsAssumption ==
  \A path \in Paths : path \in Seq(STRING) /\ lookup_name(path) # NoName

Special == {<<".">>, <<"..">>, Root}

is_valid_filename(s) == s # <<>> /\ Head(s) \notin {".", ".."}

validate_path(path) ==
  \/ path \in Special
  \/ path # <<>> /\ Head(path) = "/" /\ is_valid_filename(Tail(path))

(* Entries with a given name in use; the code takes the first. *)
Named(name) == {i \in Entries : root_dir[i].name = name /\ name # NoName}
Found(path) == Named(lookup_name(path)) # {}
find_directory_entry(path) == root_dir[Min(Named(lookup_name(path)))]

-----------------------------------------------------------------------------
(* Clusters.  Operators whose names begin with Bad are broken variants of  *)
(* the definition that follows them; no specification uses them.           *)

FreeClusters == {c \in 2 .. CLUSTERS - 1 : fat[c] = FREE_CLUSTER}

(* The FAT entry of the first data cluster is not looked at. *)
BadFindFree == 2

fs_find_free_cluster == Min(FreeClusters)

(* The clusters a walk from c meets, by number of steps. *)
Walk(f, c) ==
  LET node[k \in 0 .. CLUSTERS] ==
        IF k = 0 THEN c
        ELSE LET at == node[k - 1] IN IF at >= LAST THEN at ELSE f[at]
  IN  node

Chain(f, c) ==
  LET node == Walk(f, c) IN {node[k] : k \in 0 .. CLUSTERS} \cap Clusters

(* The walk ends.  Otherwise it runs into cluster 0, whose entry is 0, or  *)
(* round a cycle, which the zeros written on the way lead to cluster 0.    *)
Ends(f, c) == Walk(f, c)[CLUSTERS] >= LAST

(* The table after the chain from c, which ends, is freed. *)
WithoutChain(f, c) == [x \in Clusters |-> IF x \in Chain(f, c) THEN FREE_CLUSTER ELSE f[x]]

fs_free_cluster_chain(c) ==
  IF Ends(fat, c) THEN fat' = WithoutChain(fat, c) /\ UNCHANGED hung
  ELSE UNCHANGED fat /\ hung' = TRUE

(* fs_allocate_cluster ends the new chain of one cluster. *)
Allocated(c) == [fat EXCEPT ![c] = EOC]

FirstSector(c) == FS_DATA_SECTOR + (c - 2) * 2

-----------------------------------------------------------------------------
Ready == ~hung /\ io = NoIo
NothingOpen == \A h \in Handles : ~file[h].valid
MayRemove(path) == client = "any" \/ (NothingOpen /\ Head(path) # "/")

FreeEntries == {i \in Entries : root_dir[i].name = NoName}
UsedEntries == Entries \ FreeEntries

(* The cluster stays allocated when the entry cannot be added. *)
BadAddEntry(path, directory, c) ==
  /\ fat' = Allocated(c)
  /\ root_dir' = IF FreeEntries = {} THEN root_dir
                 ELSE [root_dir EXCEPT ![Min(FreeEntries)] =
                        [name |-> lookup_name(path), directory |-> directory,
                         cluster |-> c, size |-> 0]]

(* Allocate cluster c and put an entry for it in the root directory; when  *)
(* the directory is full the chain of the cluster is freed again.          *)
AddRootEntry(path, directory, c) ==
  IF FreeEntries = {}
    THEN fat' = WithoutChain(Allocated(c), c) /\ UNCHANGED root_dir
    ELSE /\ fat' = Allocated(c)
         /\ root_dir' = [root_dir EXCEPT ![Min(FreeEntries)] =
                          [name |-> lookup_name(path), directory |-> directory,
                           cluster |-> c, size |-> 0]]

(* fs_open succeeded on entry e. *)
Open(h, e, mode) ==
  file' = [file EXCEPT ![h] = [valid |-> TRUE, cluster |-> e.cluster, offset |-> 0,
                               size |-> e.size, mode |-> mode]]

(* fs_open of a path that names an entry. *)
fs_open_existing(path, mode, h) ==
  /\ Ready /\ validate_path(path) /\ Found(path)
  /\ Open(h, find_directory_entry(path), mode)
  /\ UNCHANGED <<client, fat, root_dir, current_directory, io, hung>>

(* fs_open with FS_MODE_CREATE of a path that names none, from the root    *)
(* directory.                                                              *)
fs_open_create(path, mode, h) ==
  /\ Ready /\ validate_path(path) /\ ~Found(path) /\ current_directory = Root
  /\ FreeClusters # {}
  /\ AddRootEntry(path, FALSE, fs_find_free_cluster)
  /\ IF FreeEntries = {}
       THEN UNCHANGED file
       ELSE Open(h, [cluster |-> fs_find_free_cluster, size |-> 0], mode)
  /\ UNCHANGED <<client, current_directory, io, hung>>

(* The same from a subdirectory.  The sector buffer that should hold the   *)
(* directory was never read, so the search for a free slot in it may       *)
(* succeed or fail; the slot it fills is never written back, so the lookup *)
(* that follows does not find the new entry and fs_open fails.             *)
fs_open_create_subdir(path) ==
  /\ Ready /\ validate_path(path) /\ ~Found(path) /\ current_directory # Root
  /\ FreeClusters # {}
  /\ \/ /\ Found(current_directory)
        /\ find_directory_entry(current_directory).directory
        /\ fat' = Allocated(fs_find_free_cluster)
     \/ fat' = WithoutChain(Allocated(fs_find_free_cluster), fs_find_free_cluster)
  /\ UNCHANGED <<client, root_dir, file, current_directory, io, hung>>

(* Only `valid' is cleared in the code; nothing reads the other fields of  *)
(* a closed handle.                                                        *)
fs_close(h) ==
  /\ Ready /\ file[h].valid
  /\ file' = [file EXCEPT ![h] = Closed]
  /\ UNCHANGED <<client, fat, root_dir, current_directory, io, hung>>

(* fs_create: open with FS_MODE_CREATE | FS_MODE_WRITE, then close a local *)
(* handle, so only the directory changes.  From a subdirectory it does     *)
(* what fs_open_create_subdir does.                                        *)
fs_create(path) ==
  /\ Ready /\ validate_path(path) /\ ~Found(path) /\ current_directory = Root
  /\ FreeClusters # {}
  /\ AddRootEntry(path, FALSE, fs_find_free_cluster)
  /\ UNCHANGED <<client, file, current_directory, io, hung>>

fs_mkdir(path) ==
  /\ Ready /\ validate_path(path) /\ ~Found(path)
  /\ FreeClusters # {}
  /\ AddRootEntry(path, TRUE, fs_find_free_cluster)
  /\ UNCHANGED <<client, file, current_directory, io, hung>>

-----------------------------------------------------------------------------
(* The slash is stripped, and nobody asks whether the directory is in use. *)
BadRemoveEntry(path) ==
  root_dir' = IF ~Found(path) THEN root_dir
              ELSE [root_dir EXCEPT ![Min(Named(lookup_name(path)))] = NoEntry]

(* remove_directory_entry and update_directory_entry do not strip the      *)
(* slash.                                                                  *)
remove_directory_entry(path) ==
  root_dir' = IF Named(raw_name(path)) = {} THEN root_dir
              ELSE [root_dir EXCEPT ![Min(Named(raw_name(path)))] = NoEntry]

(* fs_delete (directory = FALSE) and fs_rmdir (directory = TRUE): the      *)
(* chain is released first, then the entry is removed, if it is found.     *)
Remove(path, directory) ==
  /\ Ready /\ MayRemove(path) /\ validate_path(path) /\ Found(path)
  /\ find_directory_entry(path).directory = directory
  /\ fs_free_cluster_chain(find_directory_entry(path).cluster)
  /\ IF hung' THEN UNCHANGED root_dir ELSE remove_directory_entry(path)
  /\ UNCHANGED <<client, file, current_directory, io>>

fs_delete(path) == Remove(path, FALSE)
fs_rmdir(path) == Remove(path, TRUE)

(* fs_rename: the new name is converted with its slash. *)
fs_rename(old_path, new_path) ==
  /\ Ready /\ MayRemove(old_path) /\ MayRemove(new_path)
  /\ validate_path(old_path) /\ validate_path(new_path)
  /\ Found(old_path) /\ ~Found(new_path)
  /\ Named(raw_name(old_path)) # {}
  /\ root_dir' = [root_dir EXCEPT ![Min(Named(raw_name(old_path)))] =
                   [find_directory_entry(old_path) EXCEPT !.name = raw_name(new_path)]]
  /\ UNCHANGED <<client, fat, file, current_directory, io, hung>>

(* fs_chdir: "/" and ".." lead to the root, but ".." does not from the root *)
(* itself; find_entry compares the names.                                  *)
fs_chdir(path) ==
  /\ Ready /\ validate_path(path)
  /\ \/ path = Root /\ current_directory' = Root
     \/ path = <<"..">> /\ current_directory # Root /\ current_directory' = Root
     \/ /\ path \notin Special
        /\ Named(Strip(path)) # {}
        /\ root_dir[Min(Named(Strip(path)))].directory
        /\ current_directory' = path
  /\ UNCHANGED <<client, fat, root_dir, file, io, hung>>

fs_format ==
  /\ Ready
  /\ client = "strict" => NothingOpen /\ current_directory = Root
  /\ fat' = [c \in Clusters |-> FREE_CLUSTER]
  /\ root_dir' = [i \in Entries |-> NoEntry]
  /\ UNCHANGED <<client, file, current_directory, io, hung>>

-----------------------------------------------------------------------------
(* fs_read and fs_write start at the sector `offset' sectors behind the    *)
(* first one of the file's first cluster.                                  *)
StartIo(op, h, n) ==
  /\ Ready /\ file[h].valid /\ op \in file[h].mode
  /\ io' = [op |-> op, h |-> h, left |-> n, cluster |-> file[h].cluster,
            sector |-> FirstSector(file[h].cluster) + file[h].offset]
  /\ UNCHANGED <<client, fat, root_dir, file, current_directory, hung>>

fs_read(h, n) == n <= file[h].size - file[h].offset /\ StartIo(FS_READ, h, n)
fs_write(h, n) ==
  /\ file[h].offset + n <= IF client = "any" THEN ANY_SIZE ELSE MAX_SIZE
  /\ StartIo(FS_WRITE, h, n)

(* The call returns, or goes on with the given cluster and sector. *)
Continue(cluster, sector) ==
  io' = IF io.left = 1 THEN NoIo
        ELSE [io EXCEPT !.left = @ - 1, !.cluster = cluster, !.sector = sector]

(* fs_write appends a cluster to the chain, or fails with a full disk. *)
Extend ==
  IF FreeClusters = {}
    THEN io' = NoIo /\ UNCHANGED fat
    ELSE /\ fat' = [fat EXCEPT ![fs_find_free_cluster] = EOC,
                               ![io.cluster] = fs_find_free_cluster]
         /\ Continue(fs_find_free_cluster, FirstSector(fs_find_free_cluster))

(* One sector is transferred; whenever the next sector number is even the  *)
(* loop moves to the next cluster of the chain.                            *)
IoStep ==
  LET next == io.sector + 1
      follow == fat[io.cluster]
      offset == file[io.h].offset + 1
  IN  /\ io # NoIo
      /\ file' = [file EXCEPT ![io.h].offset = offset,
                              ![io.h].size = Max({@, offset})]
      /\ \/ next % 2 # 0 /\ Continue(io.cluster, next) /\ UNCHANGED fat
         \/ next % 2 = 0 /\ follow < LAST /\ Continue(follow, FirstSector(follow)) /\ UNCHANGED fat
         \/ next % 2 = 0 /\ follow >= LAST /\ io.op = FS_READ /\ io' = NoIo /\ UNCHANGED fat
         \/ next % 2 = 0 /\ follow >= LAST /\ io.op = FS_WRITE /\ Extend
      /\ UNCHANGED <<client, root_dir, current_directory, hung>>

(* fs_seek, with the offset its three modes compute; one before the start  *)
(* of the file wraps to a number past its end and is refused.              *)
fs_seek(h, offset) ==
  /\ Ready /\ file[h].valid /\ offset <= file[h].size
  /\ file' = [file EXCEPT ![h].offset = offset]
  /\ UNCHANGED <<client, fat, root_dir, current_directory, io, hung>>

Modes == {{FS_READ}, {FS_READ, FS_WRITE}}

Next ==
  \/ \E path \in Paths, mode \in Modes, h \in Handles :
       fs_open_existing(path, mode, h) \/ fs_open_create(path, mode, h)
  \/ \E path \in Paths :
       \/ fs_open_create_subdir(path) \/ fs_create(path) \/ fs_mkdir(path)
       \/ fs_delete(path) \/ fs_rmdir(path) \/ fs_chdir(path)
  \/ \E old_path, new_path \in Paths : fs_rename(old_path, new_path)
  \/ \E h \in Handles :
       \/ fs_close(h)
       \/ \E n \in 1 .. MAX_SIZE : fs_read(h, n) \/ fs_write(h, n)
       \/ \E offset \in 0 .. MAX_SIZE : fs_seek(h, offset)
  \/ IoStep
  \/ fs_format

Spec == Init /\ [][Next]_vars

-----------------------------------------------------------------------------
(* Properties *)

(* For a strict client, whatever it creates, writes and seeks, whatever it *)
(* removes and renames by "." and "..", and however often the disk or the  *)
(* directory fills up: every entry's chain ends, and no cluster is in the  *)
(* chains of two entries or marked free while it is in one; no call hangs. *)
ChainsSound ==
  client = "strict" =>
    /\ ~hung
    /\ \A i \in UsedEntries : /\ Ends(fat, root_dir[i].cluster)
                              /\ FREE_CLUSTER \notin Chain(fat, root_dir[i].cluster)
    /\ \A i, j \in UsedEntries :
         i # j => Chain(fat, root_dir[i].cluster) \cap Chain(fat, root_dir[j].cluster) = {}

(* Clusters marked used that no entry's chain contains. *)
Leaked ==
  {c \in 2 .. CLUSTERS - 1 : fat[c] # FREE_CLUSTER}
    \ UNION {Chain(fat, root_dir[i].cluster) : i \in UsedEntries}

(* fs_delete of a file that exists removes its directory entry. *)
DeleteRemoves ==
  [][\A path \in Paths : fs_delete(path) /\ Cardinality(Named(lookup_name(path))) = 1 => ~Found(path)']_vars

(* Every sector fs_read and fs_write transfer belongs to a cluster of the  *)
(* file.                                                                   *)
SectorInChain ==
  io # NoIo =>
    \E c \in Chain(fat, file[io.h].cluster) : io.sector \in FirstSector(c) .. FirstSector(c) + 1
=============================================================================
