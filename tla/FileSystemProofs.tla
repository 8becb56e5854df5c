-------------------------- MODULE FileSystemProofs --------------------------
(***************************************************************************)
(* Proofs about filesystem.c and the calls that reach it: they keep the    *)
(* chains, the directory and the current directory sound, for every size   *)
(* of the disk and of the root directory, every set of paths and handles   *)
(* and both clients.                                                       *)
(*                                                                         *)
(* Each step of FileSystem keeps FsType, the labelling of the chains and   *)
(* the current directory; the theorems follow from that invariant.         *)
(***************************************************************************)
EXTENDS FileSystemLemmas

-----------------------------------------------------------------------------
(* Reading and writing *)

LEMMA MaxType ==
  ASSUME NEW a \in Nat, NEW b \in Nat
  PROVE  Max({a, b}) \in Nat
<1>1. \E x \in {a, b} : \A y \in {a, b} : x >= y
  OBVIOUS
<1>2. Max({a, b}) \in {a, b}
  BY <1>1 DEF Max
<1> QED
  BY <1>2

(* One sector: the offset and the size of the file change, and the table *)
(* when the chain grows.                                                 *)
LEMMA SectorFacts ==
  ASSUME FsType, IoStep
  PROVE  /\ io \in Transfer
         /\ file' \in [Handles -> Handle]
         /\ \A h \in Handles : file'[h].valid = file[h].valid /\ file'[h].cluster = file[h].cluster
         /\ UNCHANGED <<client, root_dir, current_directory, hung>>
<1>1. io \in Transfer /\ io.h \in Handles
  BY DEF FsType, IoStep, Transfer
<1> DEFINE r == file[io.h]
           offset == r.offset + 1
           size == Max({r.size, offset})
<1>2. r \in Handle /\ offset \in Nat /\ r.size \in Nat
  BY <1>1 DEF FsType, Handle
<1>3. size \in Nat
  BY <1>2, MaxType
<1>4. file' = [file EXCEPT ![io.h].offset = offset, ![io.h].size = size]
  BY DEF IoStep
<1> HIDE DEF offset, size
<1>5. file' = [file EXCEPT ![io.h] = [[r EXCEPT !.offset = offset] EXCEPT !.size = size]]
  BY <1>1, <1>2, <1>4 DEF FsType, Handle
<1> DEFINE q == [[r EXCEPT !.offset = offset] EXCEPT !.size = size]
<1>6. q \in Handle /\ q.valid = r.valid /\ q.cluster = r.cluster
  BY <1>2, <1>3 DEF Handle
<1> HIDE DEF q
<1>7. file' \in [Handles -> Handle] /\ \A h \in Handles : file'[h] = IF h = io.h THEN q ELSE file[h]
  BY <1>1, <1>5, <1>6 DEF FsType, q
<1>8. \A h \in Handles : file'[h].valid = file[h].valid /\ file'[h].cluster = file[h].cluster
  BY <1>6, <1>7
<1>9. UNCHANGED <<client, root_dir, current_directory, hung>>
  BY DEF IoStep
<1> QED
  BY <1>1, <1>7, <1>8, <1>9

(* Where the transfer goes on. *)
LEMMA SectorMoves ==
  ASSUME FsType, IoStep
  PROVE  \/ fat' = fat /\ io' = NoIo
         \/ /\ fat' = fat /\ io' \in Transfer
            /\ io'.cluster = io.cluster \/ (io'.cluster = fat[io.cluster] /\ fat[io.cluster] < LAST)
         \/ /\ FreeClusters # {} /\ fat[io.cluster] >= LAST
            /\ fat' = [fat EXCEPT ![fs_find_free_cluster] = EOC, ![io.cluster] = fs_find_free_cluster]
            /\ io' = NoIo \/ (io' \in Transfer /\ io'.cluster = fs_find_free_cluster)
<1>1. io \in Transfer /\ io.cluster \in Clusters /\ io.sector \in Int
  BY SectorFacts DEF Transfer
<1>2. fat[io.cluster] \in Links
  BY <1>1 DEF FsType
<1>3. ASSUME NEW c \in Clusters, NEW s \in Int, Continue(c, s)
      PROVE  io' = NoIo \/ (io' \in Transfer /\ io'.cluster = c)
  <2>1. CASE io.left = 1
    BY <1>3, <2>1 DEF Continue
  <2>2. CASE io.left # 1
    <3>1. io' = [io EXCEPT !.left = io.left - 1, !.cluster = c, !.sector = s]
      BY <1>3, <2>2 DEF Continue
    <3>2. io.left - 1 \in Nat \ {0}
      BY <1>1, <2>2 DEF Transfer
    <3> QED
      BY <1>1, <3>1, <3>2 DEF Transfer
  <2> QED
    BY <2>1, <2>2
<1>4. \A c \in Clusters : FirstSector(c) \in Int
  BY FileSystemAssumption, ClusterNumbers DEF FirstSector
<1> DEFINE next == io.sector + 1
           follow == fat[io.cluster]
<1>5. CASE Continue(io.cluster, next) /\ UNCHANGED fat
  BY <1>1, <1>3, <1>5
<1>6. CASE follow < LAST /\ Continue(follow, FirstSector(follow)) /\ UNCHANGED fat
  <2>1. follow \in Clusters
    BY <1>2, <1>6, ClusterNumbers DEF Links
  <2> QED
    BY <1>3, <1>4, <1>6, <2>1
<1>7. CASE io' = NoIo /\ UNCHANGED fat
  BY <1>7
<1>8. CASE follow >= LAST /\ Extend
  <2>1. CASE FreeClusters = {}
    BY <1>8, <2>1 DEF Extend
  <2>2. CASE FreeClusters # {}
    <3>1. fs_find_free_cluster \in Clusters
      BY <2>2, FreeCluster
    <3>2. /\ fat' = [fat EXCEPT ![fs_find_free_cluster] = EOC, ![io.cluster] = fs_find_free_cluster]
          /\ Continue(fs_find_free_cluster, FirstSector(fs_find_free_cluster))
      BY <1>8, <2>2 DEF Extend
    <3>3. io' = NoIo \/ (io' \in Transfer /\ io'.cluster = fs_find_free_cluster)
      BY <1>3, <1>4, <3>1, <3>2
    <3> QED
      BY <1>8, <2>2, <3>2, <3>3
  <2> QED
    BY <2>1, <2>2
<1> QED
  BY <1>5, <1>6, <1>7, <1>8 DEF IoStep

LEMMA KeptSector ==
  ASSUME FsType, IoStep, NEW own, NEW depth, Kept(own, depth), NEW c, c = fs_find_free_cluster
  PROVE  /\ Heads' = Heads
         /\ \/ Kept(own, depth)' /\ InUse(fat') = InUse(fat)
            \/ \E own2, depth2 :
                 /\ Kept(own2, depth2)'
                 /\ InUse(fat') = InUse(fat) \cup {c} /\ own2[c] \in Heads
                 /\ \A x \in InUse(fat) : own2[x] = own[x]
<1>1. /\ \A h \in Handles : file'[h].valid = file[h].valid /\ file'[h].cluster = file[h].cluster
      /\ UNCHANGED <<client, root_dir, current_directory, hung>>
  BY SectorFacts
<1>2. UsedEntries' = UsedEntries /\ Heads' = Heads
  BY <1>1 DEF UsedEntries, FreeEntries, Heads
<1>3. io # NoIo
  BY DEF IoStep
<1> DEFINE at == io.cluster
<1>4. /\ ~hung /\ Chained(fat, own, depth) /\ (\A h \in Heads : h \in InUse(fat) /\ own[h] = h)
      /\ at \in InUse(fat) /\ own[at] \in Heads
  BY <1>3 DEF Kept
<1>5. /\ \A h \in Handles : file'[h].valid => file'[h].cluster \in Heads
      /\ \A i, j \in UsedEntries : root_dir[i].cluster = root_dir[j].cluster => i = j
  BY <1>1 DEF Kept
<1>6. fat[at] \in {FREE_CLUSTER, EOC} \cup InUse(fat) /\ fat[at] # FREE_CLUSTER
  BY <1>4, ClusterNumbers DEF Chained, InUse
<1>7. CASE fat' = fat /\ (io' = NoIo \/ (io'.cluster \in InUse(fat) /\ own[io'.cluster] \in Heads))
  <2>1. Kept(own, depth)'
    BY <1>1, <1>2, <1>4, <1>5, <1>7 DEF Kept
  <2> QED
    BY <1>2, <1>7, <2>1
<1>8. CASE fat' = fat /\ fat[at] < LAST /\ io'.cluster = fat[at]
  <2>1. fat[at] # EOC
    BY <1>8, ClusterNumbers
  <2>2. fat[at] \in InUse(fat) /\ own[fat[at]] = own[at]
    BY <1>4, <1>6, <2>1 DEF Chained
  <2> QED
    BY <1>4, <1>7, <1>8, <2>2
<1>9. CASE /\ FreeClusters # {} /\ fat[at] >= LAST
           /\ fat' = [fat EXCEPT ![c] = EOC, ![at] = c]
           /\ io' = NoIo \/ io'.cluster = c
  <2> DEFINE own2 == [own EXCEPT ![c] = own[at]]
             depth2 == [depth EXCEPT ![c] = depth[at] + 1]
  <2>1. c \in 2 .. CLUSTERS - 1 /\ fat[c] = FREE_CLUSTER
    BY <1>9, FreeCluster
  <2>2. fat[at] = EOC
    BY <1>6, <1>9, ClusterNumbers
  <2>3. InUse(fat') = InUse(fat) \cup {c} /\ Chained(fat', own2, depth2)
    BY <1>4, <1>9, <2>1, <2>2, LongerChain
  <2>4. own2[c] = own[at] /\ \A x \in InUse(fat) : own2[x] = own[x]
    <3>1. c \in Clusters /\ c \notin InUse(fat) /\ InUse(fat) \subseteq Clusters
      BY <2>1, ClusterNumbers DEF Clusters, InUse
    <3> QED
      BY <1>4, <3>1 DEF Chained
  <2> HIDE DEF own2, depth2
  <2>5. PICK o, d : o = own2 /\ d = depth2
    OBVIOUS
  <2>6. Kept(o, d)'
    BY <1>1, <1>2, <1>4, <1>5, <1>9, <2>3, <2>4, <2>5 DEF Kept
  <2> QED
    BY <1>2, <1>4, <2>3, <2>4, <2>5, <2>6
<1>10. \/ fat' = fat /\ io' = NoIo
       \/ fat' = fat /\ io'.cluster = at
       \/ fat' = fat /\ fat[at] < LAST /\ io'.cluster = fat[at]
       \/ /\ FreeClusters # {} /\ fat[at] >= LAST
          /\ fat' = [fat EXCEPT ![c] = EOC, ![at] = c]
          /\ io' = NoIo \/ io'.cluster = c
  BY SectorMoves, Zenon
<1>11. CASE fat' = fat /\ io'.cluster = at
  <2>1. io'.cluster \in InUse(fat) /\ own[io'.cluster] \in Heads
    BY <1>4, <1>11
  <2> QED
    BY <1>7, <1>11, <2>1
<1> QED
  BY <1>7, <1>8, <1>9, <1>10, <1>11, Zenon

-----------------------------------------------------------------------------
(* Every step keeps the types. *)

LEMMA TypeStep ==
  ASSUME FsType, Steps
  PROVE  FsType'
<1>1. /\ client \in {"any", "strict"} /\ fat \in [Clusters -> Links] /\ root_dir \in [Entries -> Entry]
      /\ file \in [Handles -> Handle] /\ (io = NoIo \/ io \in Transfer)
  BY DEF FsType
<1>2. \A m \in Modes : m \in SUBSET {FS_READ, FS_WRITE}
  BY DEF Modes
<1>3. 0 \in Clusters /\ NoEntry \in Entry
  BY EntryNumbers DEF NoEntry, Entry, Names, FREE_CLUSTER
<1>4. CASE UNCHANGED vars
  BY <1>1, <1>4 DEF FsType, vars
<1>5. ASSUME NEW path, Proper(path), Creates(path) PROVE FsType'
  <2>1. /\ FreeClusters # {} /\ UNCHANGED <<client, current_directory, io, hung>>
        /\ \/ file' = file
           \/ /\ FreeEntries # {}
              /\ \E h \in Handles, mode \in Modes : Open(h, [cluster |-> fs_find_free_cluster, size |-> 0], mode)
    BY <1>5 DEF Creates
  <2>2. PICK directory \in BOOLEAN : AddRootEntry(path, directory, fs_find_free_cluster)
    BY <1>5 DEF Creates
  <2>3. fat' \in [Clusters -> Links] /\ root_dir' \in [Entries -> Entry]
    <3>1. CASE FreeEntries = {}
      BY <1>1, <2>1, <2>2, <3>1, FullDirectory
    <3>2. CASE FreeEntries # {}
      BY <1>5, <2>1, <2>2, <3>2, Added
    <3> QED
      BY <3>1, <3>2
  <2>4. file' \in [Handles -> Handle]
    <3>1. ASSUME NEW h \in Handles, NEW mode \in Modes, Open(h, [cluster |-> fs_find_free_cluster, size |-> 0], mode)
          PROVE  file' \in [Handles -> Handle]
      <4> DEFINE r == [valid |-> TRUE, cluster |-> fs_find_free_cluster, offset |-> 0, size |-> 0, mode |-> mode]
      <4>1. file' = [file EXCEPT ![h] = r]
        BY <3>1 DEF Open
      <4>2. r \in Handle
        BY <1>2, <2>1, FreeCluster DEF Handle
      <4> HIDE DEF r
      <4> QED
        BY <1>1, <4>1, <4>2
    <3> QED
      BY <1>1, <2>1, <3>1
  <2> QED
    BY <1>1, <2>1, <2>3, <2>4 DEF FsType
<1>6. ASSUME NEW path, NEW mode \in Modes, NEW h \in Handles, fs_open_existing(path, mode, h) PROVE FsType'
  <2> DEFINE e == find_directory_entry(path)
             r == [valid |-> TRUE, cluster |-> e.cluster, offset |-> 0, size |-> e.size, mode |-> mode]
  <2>1. e \in Entry
    BY <1>1, <1>6, NamedEntry DEF fs_open_existing, Found, find_directory_entry
  <2>2. file' = [file EXCEPT ![h] = r] /\ UNCHANGED <<client, fat, root_dir, current_directory, io, hung>>
    BY <1>6 DEF fs_open_existing, Open
  <2>3. e.cluster \in Clusters /\ e.size \in Nat
    <3> HIDE DEF e
    <3> QED
      BY <2>1 DEF Entry
  <2> HIDE DEF e
  <2>4. r \in Handle
    BY <1>2, <2>3 DEF Handle
  <2> HIDE DEF r
  <2> QED
    BY <1>1, <2>2, <2>4 DEF FsType
<1>7. ASSUME NEW path, fs_open_create_subdir(path) PROVE FsType'
  <2>1. fs_find_free_cluster \in Clusters
    BY <1>7, FreeCluster DEF fs_open_create_subdir
  <2>2. fat' = fat \/ fat' = [fat EXCEPT ![fs_find_free_cluster] = EOC]
    BY <1>7, SubdirTable
  <2>3. fat' \in [Clusters -> Links]
    BY <1>1, <2>1, <2>2, EntryNumbers
  <2> QED
    BY <1>1, <1>7, <2>3 DEF FsType, fs_open_create_subdir
<1>8. ASSUME NEW path, NEW directory, Remove(path, directory) PROVE FsType'
  <2>1. fat' \in [Clusters -> Links]
    <3> DEFINE C == Chain(fat, find_directory_entry(path).cluster)
    <3>1. fat' = fat \/ fat' = [x \in Clusters |-> IF x \in C THEN FREE_CLUSTER ELSE fat[x]]
      BY <1>8, Zenon DEF Remove, fs_free_cluster_chain, WithoutChain
    <3> HIDE DEF C
    <3> QED
      BY <1>1, <3>1, EntryNumbers
  <2>2. root_dir' \in [Entries -> Entry]
    <3>1. root_dir' = root_dir \/ root_dir' = [root_dir EXCEPT ![Min(Named(raw_name(path)))] = NoEntry]
      BY <1>8, Zenon DEF Remove, remove_directory_entry
    <3> QED
      BY <1>1, <1>3, <3>1
  <2> QED
    BY <1>1, <1>8, <2>1, <2>2 DEF FsType, Remove
<1>9. ASSUME NEW old_path, NEW new_path, Proper(new_path), fs_rename(old_path, new_path) PROVE FsType'
  <2> DEFINE e == find_directory_entry(old_path)
             q == [e EXCEPT !.name = raw_name(new_path)]
  <2>1. e \in Entry
    BY <1>1, <1>9, NamedEntry DEF fs_rename, Found, find_directory_entry
  <2>2. root_dir' = [root_dir EXCEPT ![Min(Named(raw_name(old_path)))] = q]
    BY <1>9 DEF fs_rename
  <2> HIDE DEF e
  <2>3. q \in Entry
    BY <1>9, <2>1, ProperNames DEF Entry
  <2> HIDE DEF q
  <2>4. root_dir' \in [Entries -> Entry]
    BY <1>1, <2>2, <2>3
  <2> QED
    BY <1>1, <1>9, <2>4 DEF FsType, fs_rename
<1>10. ASSUME NEW path, fs_chdir(path) PROVE FsType'
  BY <1>1, <1>10 DEF FsType, fs_chdir
<1>11. ASSUME NEW h \in Handles, fs_close(h) PROVE FsType'
  <2>1. Closed \in Handle
    BY <1>3 DEF Closed, Handle
  <2> QED
    BY <1>1, <1>11, <2>1 DEF FsType, fs_close
<1>12. ASSUME NEW h \in Handles, NEW n \in Nat, fs_seek(h, n) PROVE FsType'
  <2> DEFINE r == [file[h] EXCEPT !.offset = n]
  <2>1. file[h] \in Handle
    BY <1>1
  <2>2. r \in Handle
    BY <2>1 DEF Handle
  <2>3. file' = [file EXCEPT ![h] = r]
    BY <1>12 DEF fs_seek
  <2> HIDE DEF r
  <2> QED
    BY <1>1, <1>12, <2>2, <2>3 DEF FsType, fs_seek
<1>13. ASSUME NEW h \in Handles, NEW op \in {FS_READ, FS_WRITE}, NEW n \in Nat \ {0}, StartIo(op, h, n) PROVE FsType'
  <2> DEFINE c == file[h].cluster
             s == FirstSector(c) + file[h].offset
  <2>1. c \in Clusters /\ file[h].offset \in Nat
    BY <1>1 DEF Handle
  <2>2. s \in Int
    BY <2>1, FileSystemAssumption, ClusterNumbers DEF FirstSector
  <2>3. io' = [op |-> op, h |-> h, left |-> n, cluster |-> c, sector |-> s]
    BY <1>13 DEF StartIo
  <2> HIDE DEF c, s
  <2>4. io' \in Transfer
    BY <2>1, <2>2, <2>3 DEF Transfer
  <2> QED
    BY <1>1, <1>13, <2>4 DEF FsType, StartIo
<1>14. CASE transfer
  <2>1. IoStep
    BY <1>14 DEF transfer
  <2>2. file' \in [Handles -> Handle] /\ UNCHANGED <<client, root_dir, current_directory, hung>> /\ io.cluster \in Clusters
    BY <2>1, SectorFacts DEF Transfer
  <2>3. io' = NoIo \/ io' \in Transfer
    BY <2>1, SectorMoves
  <2>4. fat' = fat \/ (FreeClusters # {} /\ fat' = [fat EXCEPT ![fs_find_free_cluster] = EOC, ![io.cluster] = fs_find_free_cluster])
    BY <2>1, SectorMoves
  <2>5. fat' \in [Clusters -> Links]
    <3>1. CASE fat' = fat
      BY <1>1, <3>1
    <3>2. CASE FreeClusters # {} /\ fat' = [fat EXCEPT ![fs_find_free_cluster] = EOC, ![io.cluster] = fs_find_free_cluster]
      <4>1. fs_find_free_cluster \in Links
        BY <3>2, FreeCluster DEF Links
      <4> QED
        BY <1>1, <3>2, <4>1, EntryNumbers
    <3> QED
      BY <2>4, <3>1, <3>2
  <2> QED
    BY <1>1, <2>2, <2>3, <2>5 DEF FsType
<1>15. CASE fs_format
  <2>1. fat' \in [Clusters -> Links] /\ root_dir' \in [Entries -> Entry]
    BY <1>3, <1>15, EntryNumbers DEF fs_format
  <2> QED
    BY <1>1, <1>15, <2>1 DEF FsType, fs_format
<1>16. CASE CreatesInSubdir
  BY <1>7, <1>16 DEF CreatesInSubdir
<1> QED
  BY <1>4, <1>5, <1>6, <1>8, <1>9, <1>10, <1>11, <1>12, <1>13, <1>14, <1>15, <1>16 DEF Steps

-----------------------------------------------------------------------------
(* Every step of a strict client keeps the chains, and unless it creates a *)
(* file in a subdirectory it leaves no cluster in use without an entry     *)
(* that was not.                                                           *)

NoMoreLeaks(own, own2) ==
  \A c \in InUse(fat') : own2[c] \notin Heads' => c \in InUse(fat) /\ own[c] \notin Heads

LEMMA KeptStep ==
  ASSUME FsType, Steps, client = "strict", NEW own, NEW depth, Kept(own, depth)
  PROVE  \E own2, depth2 : /\ Kept(own2, depth2)'
                           /\ ~CreatesInSubdir => NoMoreLeaks(own, own2)
<1> DEFINE Goal == \E own2, depth2 : /\ Kept(own2, depth2)'
                                     /\ ~CreatesInSubdir => NoMoreLeaks(own, own2)
<1> SUFFICES Goal
  OBVIOUS
<1>1. /\ ~hung /\ Chained(fat, own, depth) /\ (\A h \in Heads : h \in InUse(fat) /\ own[h] = h)
      /\ \A i, j \in UsedEntries : root_dir[i].cluster = root_dir[j].cluster => i = j
      /\ \A h \in Handles : file[h].valid => file[h].cluster \in Heads
      /\ io # NoIo => io.cluster \in InUse(fat) /\ own[io.cluster] \in Heads
  BY DEF Kept
<1>2. file \in [Handles -> Handle]
  BY DEF FsType
<1>3. ASSUME UNCHANGED <<fat, root_dir, hung>>,
             \A h \in Handles : file'[h].valid => file'[h].cluster \in Heads,
             io' # NoIo => io'.cluster \in Heads \/ io' = io
      PROVE  Goal
  <2>1. UsedEntries' = UsedEntries /\ Heads' = Heads
    BY <1>3 DEF UsedEntries, FreeEntries, Heads
  <2>2. io' # NoIo => io'.cluster \in InUse(fat) /\ own[io'.cluster] \in Heads
    BY <1>1, <1>3
  <2>3. Kept(own, depth)'
    BY <1>1, <1>3, <2>1, <2>2 DEF Kept
  <2>4. NoMoreLeaks(own, own)
    BY <1>3, <2>1 DEF NoMoreLeaks
  <2> QED
    BY <2>3, <2>4
<1>4. CASE UNCHANGED vars
  BY <1>1, <1>3, <1>4 DEF vars
<1>5. ASSUME NEW path, Proper(path), Creates(path) PROVE Goal
  <2>1. PICK directory \in BOOLEAN : AddRootEntry(path, directory, fs_find_free_cluster)
    BY <1>5 DEF Creates
  <2>2. /\ Ready /\ FreeClusters # {} /\ UNCHANGED <<client, current_directory, io, hung>>
        /\ \/ file' = file
           \/ /\ FreeEntries # {}
              /\ \E h \in Handles, mode \in Modes : Open(h, [cluster |-> fs_find_free_cluster, size |-> 0], mode)
    BY <1>5 DEF Creates
  <2>3. CASE FreeEntries = {}
    <3>1. UNCHANGED <<fat, root_dir, file>>
      BY <2>1, <2>2, <2>3, FullDirectory
    <3> QED
      BY <1>1, <1>3, <2>2, <3>1
  <2>4. CASE FreeEntries # {}
    <3>1. PICK c : c = fs_find_free_cluster
      OBVIOUS
    <3>2. \A h \in Handles : file'[h].valid =>
            (file[h].valid /\ file'[h].cluster = file[h].cluster) \/ file'[h].cluster = c
      <4>1. ASSUME NEW g \in Handles, NEW mode \in Modes, Open(g, [cluster |-> fs_find_free_cluster, size |-> 0], mode)
            PROVE  \A h \in Handles : file'[h] = file[h] \/ file'[h].cluster = c
        BY <1>2, <3>1, <4>1 DEF Open
      <4> QED
        BY <2>2, <4>1
    <3> DEFINE own2 == [own EXCEPT ![c] = c]
               depth2 == [depth EXCEPT ![c] = 0]
    <3>3. Kept(own2, depth2)' /\ Heads' = Heads \cup {c} /\ InUse(fat') = InUse(fat) \cup {c}
      BY <1>5, <2>1, <2>2, <2>4, <3>1, <3>2, KeptAdded
    <3>4. own2[c] = c /\ \A x \in InUse(fat) : own2[x] = own[x]
      <4>1. c \in Clusters /\ c \notin InUse(fat) /\ InUse(fat) \subseteq Clusters
        BY <2>2, <3>1, FreeCluster, ClusterNumbers DEF InUse
      <4> QED
        BY <1>1, <4>1 DEF Chained
    <3> HIDE DEF own2, depth2
    <3>5. NoMoreLeaks(own, own2)
      BY <3>3, <3>4 DEF NoMoreLeaks
    <3> QED
      BY <3>3, <3>5
  <2> QED
    BY <2>3, <2>4
<1>6. ASSUME NEW path, NEW mode \in Modes, NEW h \in Handles, fs_open_existing(path, mode, h) PROVE Goal
  <2> DEFINE i == Min(Named(lookup_name(path)))
             r == [valid |-> TRUE, cluster |-> root_dir[i].cluster, offset |-> 0, size |-> root_dir[i].size, mode |-> mode]
  <2>1. i \in UsedEntries
    BY <1>6, NamedEntry DEF fs_open_existing, Found
  <2>2. file' = [file EXCEPT ![h] = r] /\ UNCHANGED <<fat, root_dir, io, hung>>
    BY <1>6 DEF fs_open_existing, Open, find_directory_entry
  <2> HIDE DEF i
  <2>3. r.cluster \in Heads
    BY <2>1 DEF Heads
  <2> HIDE DEF r
  <2>4. \A g \in Handles : file'[g].valid => file'[g].cluster \in Heads
    BY <1>1, <1>2, <2>2, <2>3
  <2> QED
    BY <1>3, <2>2, <2>4
<1>7. CASE CreatesInSubdir
  <2>0. PICK path : fs_open_create_subdir(path)
    BY <1>7 DEF CreatesInSubdir
  <2>1. UNCHANGED <<client, root_dir, file, current_directory, io, hung>> /\ FreeClusters # {}
    BY <2>0 DEF fs_open_create_subdir
  <2>2. CASE fat' = fat
    BY <1>1, <1>3, <2>1, <2>2
  <2>3. CASE fat' # fat
    <3>1. PICK c : c = fs_find_free_cluster
      OBVIOUS
    <3>2. fat' = [fat EXCEPT ![c] = EOC]
      BY <2>0, <2>3, <3>1, SubdirTable
    <3>3. c \in 2 .. CLUSTERS - 1 /\ fat[c] = FREE_CLUSTER /\ c \in Clusters
      BY <2>1, <3>1, FreeCluster
    <3> DEFINE own2 == [own EXCEPT ![c] = c]
               depth2 == [depth EXCEPT ![c] = 0]
    <3>4. InUse(fat') = InUse(fat) \cup {c} /\ Chained(fat', own2, depth2)
      BY <1>1, <3>2, <3>3, NewChain
    <3>5. \A x \in InUse(fat) : own2[x] = own[x]
      BY <1>1, <3>3, ClusterNumbers DEF Chained, InUse
    <3>6. UsedEntries' = UsedEntries /\ Heads' = Heads
      BY <2>1 DEF UsedEntries, FreeEntries, Heads
    <3> HIDE DEF own2, depth2
    <3>7. Kept(own2, depth2)'
      BY <1>1, <2>1, <3>4, <3>5, <3>6 DEF Kept
    <3> QED
      BY <1>7, <3>7
  <2> QED
    BY <2>2, <2>3
<1>8. ASSUME NEW path, NEW directory, Remove(path, directory) PROVE Goal
  <2>1. Kept(own, depth)' /\ \E head : Heads' = Heads \ {head} /\ InUse(fat') = {x \in InUse(fat) : own[x] # head}
    BY <1>8, KeptRemoved
  <2>2. NoMoreLeaks(own, own)
    BY <2>1 DEF NoMoreLeaks
  <2> QED
    BY <2>1, <2>2
<1>9. ASSUME NEW old_path, NEW new_path, Proper(new_path), fs_rename(old_path, new_path) PROVE Goal
  <2>1. PICK i \in UsedEntries :
           /\ root_dir'[i].cluster = root_dir[i].cluster
           /\ UsedEntries' = UsedEntries
           /\ \A j \in Entries : j # i => root_dir'[j] = root_dir[j]
    BY <1>9, Renamed
  <2>2. UNCHANGED <<client, fat, file, current_directory, io, hung>>
    BY <1>9 DEF fs_rename
  <2>3. UsedEntries \subseteq Entries /\ \A j \in UsedEntries : root_dir'[j].cluster = root_dir[j].cluster
    BY <2>1 DEF UsedEntries
  <2>4. Heads' = Heads
    BY <2>1, <2>3 DEF Heads
  <2>5. Kept(own, depth)'
    BY <1>1, <2>1, <2>2, <2>3, <2>4 DEF Kept
  <2>6. NoMoreLeaks(own, own)
    BY <2>2, <2>4 DEF NoMoreLeaks
  <2> QED
    BY <2>5, <2>6
<1>10. ASSUME NEW path, fs_chdir(path) PROVE Goal
  BY <1>1, <1>3, <1>10 DEF fs_chdir
<1>11. ASSUME NEW h \in Handles, fs_close(h) PROVE Goal
  <2>1. UNCHANGED <<fat, root_dir, io, hung>> /\ file' = [file EXCEPT ![h] = Closed]
    BY <1>11 DEF fs_close
  <2>2. ~Closed.valid
    BY DEF Closed
  <2>3. \A g \in Handles : file'[g].valid => file'[g].cluster \in Heads
    BY <1>1, <1>2, <2>1, <2>2
  <2> QED
    BY <1>3, <2>1, <2>3
<1>12. ASSUME NEW h \in Handles, NEW n \in Nat, fs_seek(h, n) PROVE Goal
  <2> DEFINE r == [file[h] EXCEPT !.offset = n]
  <2>1. UNCHANGED <<fat, root_dir, io, hung>> /\ file' = [file EXCEPT ![h] = r]
    BY <1>12 DEF fs_seek
  <2>2. file[h] \in Handle
    BY <1>2
  <2>3. r.valid = file[h].valid /\ r.cluster = file[h].cluster
    BY <2>2 DEF Handle
  <2> HIDE DEF r
  <2>4. \A g \in Handles : file'[g].valid => file'[g].cluster \in Heads
    BY <1>1, <1>2, <2>1, <2>3
  <2> QED
    BY <1>3, <2>1, <2>4
<1>13. ASSUME NEW h \in Handles, NEW op \in {FS_READ, FS_WRITE}, NEW n \in Nat \ {0}, StartIo(op, h, n) PROVE Goal
  <2>1. /\ UNCHANGED <<fat, root_dir, file, hung>> /\ file[h].valid
        /\ io'.cluster = file[h].cluster
    BY <1>13 DEF StartIo
  <2> QED
    BY <1>1, <1>3, <2>1
<1>14. CASE transfer
  <2>1. IoStep
    BY <1>14 DEF transfer
  <2>2. PICK c : c = fs_find_free_cluster
    OBVIOUS
  <2>3. Heads' = Heads
    BY <2>1, <2>2, KeptSector
  <2>4. CASE Kept(own, depth)' /\ InUse(fat') = InUse(fat)
    <3>1. NoMoreLeaks(own, own)
      BY <2>3, <2>4 DEF NoMoreLeaks
    <3> QED
      BY <2>4, <3>1
  <2>5. ASSUME NEW own2, NEW depth2, Kept(own2, depth2)',
               InUse(fat') = InUse(fat) \cup {c}, own2[c] \in Heads,
               \A x \in InUse(fat) : own2[x] = own[x]
        PROVE  Goal
    <3>1. NoMoreLeaks(own, own2)
      BY <2>3, <2>5 DEF NoMoreLeaks
    <3> QED
      BY <2>5, <3>1
  <2>6. \/ Kept(own, depth)' /\ InUse(fat') = InUse(fat)
        \/ \E own2, depth2 :
                 /\ Kept(own2, depth2)'
                 /\ InUse(fat') = InUse(fat) \cup {c} /\ own2[c] \in Heads
                 /\ \A x \in InUse(fat) : own2[x] = own[x]
    BY <2>1, <2>2, KeptSector
  <2> HIDE DEF Goal
  <2> QED
    BY <2>4, <2>5, <2>6, Zenon
<1>15. CASE fs_format
  <2>1. /\ NothingOpen /\ UNCHANGED <<file, io, hung>> /\ io = NoIo
        /\ fat' = [c \in Clusters |-> FREE_CLUSTER] /\ root_dir' = [i \in Entries |-> NoEntry]
    BY <1>15 DEF fs_format, Ready
  <2>2. \A c \in 2 .. CLUSTERS - 1 : c \in Clusters
    BY ClusterNumbers DEF Clusters
  <2>3. InUse(fat') = {} /\ fat' \in [Clusters -> Links] /\ 0 \in Clusters /\ 1 \in Clusters
    BY <2>1, <2>2, EntryNumbers, ClusterNumbers DEF InUse, Clusters
  <2>4. Chained(fat', own, depth)
    BY <1>1, <2>1, <2>3 DEF Chained
  <2>5. UsedEntries' = {} /\ Heads' = {}
    BY <2>1 DEF UsedEntries, FreeEntries, Heads, NoEntry
  <2>6. Kept(own, depth)'
    BY <1>1, <2>1, <2>4, <2>5 DEF Kept, NothingOpen
  <2>7. NoMoreLeaks(own, own)
    BY <2>3 DEF NoMoreLeaks
  <2> QED
    BY <2>6, <2>7
<1> HIDE DEF Goal
<1> QED
  BY <1>4, <1>5, <1>6, <1>7, <1>8, <1>9, <1>10, <1>11, <1>12, <1>13, <1>14, <1>15 DEF Steps

-----------------------------------------------------------------------------
(* What is entered is a directory. *)
LEMMA Entering ==
  ASSUME NEW path, fs_chdir(path)
  PROVE  \/ current_directory' = Root
         \/ /\ (current_directory \notin Special /\ validate_path(current_directory))'
            /\ IsDirectory(current_directory)'
<1>1. UNCHANGED <<client, root_dir>> /\ validate_path(path)
  BY DEF fs_chdir
<1>2. ASSUME path \notin Special, Named(Strip(path)) # {}, root_dir[Min(Named(Strip(path)))].directory, current_directory' = path
      PROVE  /\ (current_directory \notin Special /\ validate_path(current_directory))'
             /\ IsDirectory(current_directory)'
  <2>1. lookup_name(path) = Strip(path)
    BY <1>1, <1>2, EnteredPath
  <2>2. IsDirectory(path)
    BY <1>2, <2>1 DEF IsDirectory, Found, find_directory_entry
  <2>3. IsDirectory(current_directory)'
    BY <1>1, <1>2, <2>2 DEF IsDirectory, Found, find_directory_entry, Named, lookup_name, Strip, convert_filename
  <2>4. (current_directory \notin Special /\ validate_path(current_directory))'
    BY <1>1, <1>2 DEF validate_path, is_valid_filename, Special, Root
  <2> QED
    BY <2>3, <2>4
<1> QED
  BY <1>2 DEF fs_chdir

-----------------------------------------------------------------------------
(* The invariant and what follows from it *)

LEMMA InitInv == CallInit => FsInv
<1> SUFFICES ASSUME CallInit PROVE FsInv
  OBVIOUS
<1>1. /\ client \in Clients /\ fat = [c \in Clusters |-> FREE_CLUSTER] /\ root_dir = [i \in Entries |-> NoEntry]
      /\ file = [h \in Handles |-> Closed] /\ current_directory = Root /\ io = NoIo /\ hung = FALSE
  BY DEF CallInit, Init
<1>2. 0 \in Clusters /\ 1 \in Clusters /\ 2 .. CLUSTERS - 1 \subseteq Clusters
  BY ClusterNumbers DEF Clusters
<1>3. NoEntry \in Entry /\ Closed \in Handle /\ ~Closed.valid /\ NoEntry.name = NoName
  BY <1>2 DEF NoEntry, Entry, Names, Closed, Handle
<1>4. FsType
  BY <1>1, <1>3, EntryNumbers, FileSystemAssumption DEF FsType
<1> DEFINE own == [c \in Clusters |-> c]
           depth == [c \in Clusters |-> 0]
<1>6. InUse(fat) = {}
  BY <1>1, <1>2 DEF InUse
<1>7. Chained(fat, own, depth)
  BY <1>1, <1>2, <1>6, EntryNumbers DEF Chained
<1>8. UsedEntries = {} /\ Heads = {}
  BY <1>1, <1>3 DEF UsedEntries, FreeEntries, Heads
<1> HIDE DEF own, depth
<1>9. Kept(own, depth)
  BY <1>1, <1>3, <1>7, <1>8 DEF Kept
<1> QED
  BY <1>4, <1>9 DEF FsInv

LEMMA NextSteps == [CallNext]_callVars => Steps
BY CallSteps DEF callVars, Steps

(* The inductive invariant, for every call in every order. *)
THEOREM FsInvariant == CallSpec => []FsInv
<1>1. ASSUME FsInv, [CallNext]_callVars PROVE FsInv'
  <2>1. FsType /\ Steps /\ (client = "strict" => \E own, depth : Kept(own, depth))
    BY <1>1, NextSteps DEF FsInv
  <2>2. FsType'
    BY <2>1, TypeStep
  <2>3. UNCHANGED client
    BY <2>1 DEF Steps, vars, Creates, fs_open_existing, CreatesInSubdir, fs_open_create_subdir, Remove, fs_rename, fs_chdir, fs_close,
           fs_seek, StartIo, transfer, IoStep, fs_format
  <2>4. ASSUME client = "strict" PROVE (\E own, depth : Kept(own, depth))'
    <3>1. PICK own, depth : Kept(own, depth)
      BY <2>1, <2>4
    <3>2. PICK own2, depth2 : Kept(own2, depth2)'
      BY <2>1, <2>4, <3>1, KeptStep
    <3> QED
      BY <3>2
  <2> QED
    BY <2>2, <2>3, <2>4 DEF FsInv
<1> QED
  BY <1>1, InitInv, PTL DEF CallSpec

LEMMA SoundChains ==
  ASSUME NEW own, NEW depth, Kept(own, depth)
  PROVE  /\ ~hung
         /\ \A i \in UsedEntries : /\ Ends(fat, root_dir[i].cluster)
                                   /\ FREE_CLUSTER \notin Chain(fat, root_dir[i].cluster)
         /\ \A i, j \in UsedEntries :
              i # j => Chain(fat, root_dir[i].cluster) \cap Chain(fat, root_dir[j].cluster) = {}
<1>1. /\ ~hung /\ Chained(fat, own, depth) /\ (\A h \in Heads : h \in InUse(fat) /\ own[h] = h)
      /\ \A i, j \in UsedEntries : root_dir[i].cluster = root_dir[j].cluster => i = j
  BY DEF Kept
<1>2. ASSUME NEW i \in UsedEntries
      PROVE  /\ Ends(fat, root_dir[i].cluster)
             /\ Chain(fat, root_dir[i].cluster) = {c \in InUse(fat) : own[c] = root_dir[i].cluster}
  <2>1. root_dir[i].cluster \in InUse(fat) /\ own[root_dir[i].cluster] = root_dir[i].cluster
    BY <1>1 DEF Heads
  <2>2. PICK h : h = root_dir[i].cluster
    OBVIOUS
  <2>3. h \in InUse(fat) /\ own[h] = h
    BY <2>1, <2>2
  <2>4. Ends(fat, h)
    BY <1>1, <2>3, ChainEnds
  <2>5. Chain(fat, h) = {c \in InUse(fat) : own[c] = h}
    BY <1>1, <2>3, ChainIs
  <2> QED
    BY <2>2, <2>4, <2>5
<1>3. FREE_CLUSTER \notin InUse(fat)
  BY ClusterNumbers
<1>4. ASSUME NEW i \in UsedEntries, NEW j \in UsedEntries, i # j
      PROVE  Chain(fat, root_dir[i].cluster) \cap Chain(fat, root_dir[j].cluster) = {}
  <2>1. root_dir[i].cluster # root_dir[j].cluster
    BY <1>1, <1>4
  <2> QED
    BY <1>2, <2>1
<1> QED
  BY <1>1, <1>2, <1>3, <1>4

(* No call of a strict client, in any order and on a disk and a directory  *)
(* of any size, crosses two chains, frees a cluster that is in one or      *)
(* hangs fs_free_cluster_chain.                                            *)
THEOREM FsChainsSound == CallSpec => []ChainsSound
<1>1. FsInv => ChainsSound
  BY SoundChains DEF FsInv, ChainsSound
<1> QED
  BY <1>1, FsInvariant, PTL

-----------------------------------------------------------------------------
(* What a step may do *)

LeakedOf(f, heads) == InUse(f) \ UNION {Chain(f, h) : h \in heads}

(* The clusters that are in use for nothing are those in a chain that no   *)
(* entry has.                                                              *)
LEMMA LeakedIs ==
  ASSUME NEW f, NEW own, NEW depth, NEW heads, Chained(f, own, depth),
         \A h \in heads : h \in InUse(f) /\ own[h] = h
  PROVE  LeakedOf(f, heads) = {c \in InUse(f) : own[c] \notin heads}
<1>1. \A h \in heads : Chain(f, h) = {c \in InUse(f) : own[c] = h}
  BY ChainIs
<1>2. UNION {Chain(f, h) : h \in heads} = {c \in InUse(f) : own[c] \in heads}
  BY <1>1
<1> QED
  BY <1>2 DEF LeakedOf

LEMMA LeakedByHeads == Leaked = LeakedOf(fat, Heads) /\ Leaked' = LeakedOf(fat', Heads')
<1>1. {Chain(fat, h) : h \in Heads} = {Chain(fat, root_dir[i].cluster) : i \in UsedEntries}
  BY DEF Heads
<1>2. {Chain(fat', h) : h \in Heads'} = {Chain(fat', root_dir'[i].cluster) : i \in UsedEntries'}
  BY DEF Heads
<1> QED
  BY <1>1, <1>2 DEF Leaked, LeakedOf, InUse

(* A strict client leaks no cluster but by creating a file in a            *)
(* subdirectory.                                                           *)
THEOREM FsLeaksOnlyInSubdirs == CallSpec => LeaksOnlyInSubdirs
<1>1. ASSUME FsInv, [CallNext]_callVars, client = "strict", ~CreatesInSubdir
      PROVE  Leaked' \subseteq Leaked
  <2>1. FsType /\ Steps
    BY <1>1, NextSteps DEF FsInv
  <2>2. PICK own, depth : Kept(own, depth)
    BY <1>1 DEF FsInv
  <2>3. PICK own2, depth2 : Kept(own2, depth2)' /\ NoMoreLeaks(own, own2)
    BY <1>1, <2>1, <2>2, KeptStep
  <2>4. LeakedOf(fat, Heads) = {c \in InUse(fat) : own[c] \notin Heads}
    BY <2>2, LeakedIs DEF Kept
  <2>5. Chained(fat', own2, depth2) /\ \A h \in Heads' : h \in InUse(fat') /\ own2[h] = h
    BY <2>3 DEF Kept
  <2>6. LeakedOf(fat', Heads') = {c \in InUse(fat') : own2[c] \notin Heads'}
    BY <2>5, LeakedIs
  <2> QED
    BY <2>3, <2>4, <2>6, LeakedByHeads DEF NoMoreLeaks
<1>2. FsInv /\ [CallNext]_callVars =>
        [client = "strict" /\ ~CreatesInSubdir =>
           UNCHANGED <<fat, root_dir>> \/ Leaked' \subseteq Leaked]_vars
  BY <1>1
<1> QED
  BY <1>2, FsInvariant, PTL DEF CallSpec, LeaksOnlyInSubdirs

(* How the clusters in use can change. *)
LEMMA TakenAdds ==
  ASSUME FsType, NEW c \in 2 .. CLUSTERS - 1, fat' = [fat EXCEPT ![c] = EOC]
  PROVE  Taken \subseteq Taken'
<1>1. fat \in [Clusters -> Links] /\ EOC # FREE_CLUSTER /\ \A x \in 2 .. CLUSTERS - 1 : x \in Clusters
  BY ClusterNumbers DEF FsType, Clusters
<1>2. \A x \in 2 .. CLUSTERS - 1 : fat[x] # FREE_CLUSTER => fat'[x] # FREE_CLUSTER
  BY <1>1
<1> QED
  BY <1>2 DEF Taken

LEMMA TakenLinks ==
  ASSUME FsType, NEW c \in 2 .. CLUSTERS - 1, NEW b \in Clusters,
         fat' = [fat EXCEPT ![c] = EOC, ![b] = c]
  PROVE  Taken \subseteq Taken'
<1>1. fat \in [Clusters -> Links] /\ EOC # FREE_CLUSTER /\ c # FREE_CLUSTER /\ \A x \in 2 .. CLUSTERS - 1 : x \in Clusters
  BY ClusterNumbers DEF FsType, Clusters, FREE_CLUSTER
<1>2. \A x \in 2 .. CLUSTERS - 1 : fat[x] # FREE_CLUSTER => fat'[x] # FREE_CLUSTER
  BY <1>1
<1> QED
  BY <1>2 DEF Taken

LEMMA TakenSame == UNCHANGED fat => Taken' = Taken
BY DEF Taken

(* A removal that finds its entry takes it away; one that does not takes   *)
(* only the chain.                                                         *)
LEMMA RemovedEntry ==
  ASSUME FsType, NEW path, NEW directory, Remove(path, directory), ret' = Removed(path)
  PROVE  /\ UNCHANGED <<current_directory, file>> /\ Taken' \subseteq Taken
         /\ ret' = "error" => UNCHANGED root_dir /\ client # "strict"
         /\ ret' = "ok" => UsedEntries' # UsedEntries
<1>1. UNCHANGED <<current_directory, file>> /\ MayRemove(path) /\ validate_path(path) /\ Named(lookup_name(path)) # {}
  BY DEF Remove, Found
<1>2. Taken' \subseteq Taken
  <2> DEFINE C == Chain(fat, find_directory_entry(path).cluster)
  <2>1. fat' = fat \/ fat' = [x \in Clusters |-> IF x \in C THEN FREE_CLUSTER ELSE fat[x]]
    BY Zenon DEF Remove, fs_free_cluster_chain, WithoutChain
  <2>2. \A x \in 2 .. CLUSTERS - 1 : x \in Clusters
    BY ClusterNumbers DEF Clusters
  <2> HIDE DEF C
  <2>3. \A x \in 2 .. CLUSTERS - 1 : fat'[x] # FREE_CLUSTER => fat[x] # FREE_CLUSTER
    BY <2>1, <2>2
  <2> QED
    BY <2>3 DEF Taken
<1>3. ret' = "error" => ~hung' /\ Named(raw_name(path)) = {}
  BY DEF Removed
<1>4. ret' = "ok" => ~hung' /\ Named(raw_name(path)) # {}
  BY DEF Removed
<1>5. ~hung' => remove_directory_entry(path)
  BY DEF Remove
<1>6. ASSUME ret' = "error" PROVE UNCHANGED root_dir /\ client # "strict"
  <2>1. UNCHANGED root_dir
    BY <1>3, <1>5, <1>6 DEF remove_directory_entry
  <2>2. ASSUME client = "strict" PROVE FALSE
    <3>1. Head(path) # "/"
      BY <1>1, <2>2 DEF MayRemove
    <3> QED
      BY <1>1, <1>3, <1>6, <3>1, StrictPath
  <2> QED
    BY <2>1, <2>2
<1>7. ASSUME ret' = "ok" PROVE UsedEntries' # UsedEntries
  <2> DEFINE i == Min(Named(raw_name(path)))
  <2>1. i \in Entries /\ i \in UsedEntries
    BY <1>4, <1>7, NamedEntry
  <2>2. root_dir' = [root_dir EXCEPT ![i] = NoEntry]
    BY <1>4, <1>5, <1>7 DEF remove_directory_entry
  <2> HIDE DEF i
  <2>3. root_dir'[i] = NoEntry /\ NoEntry.name = NoName
    BY <2>1, <2>2 DEF FsType, NoEntry
  <2>4. i \notin UsedEntries'
    BY <2>1, <2>3 DEF UsedEntries, FreeEntries
  <2> QED
    BY <2>1, <2>4
<1> QED
  BY <1>1, <1>2, <1>6, <1>7

LEMMA CreatesFacts ==
  ASSUME FsType, NEW path, Proper(path), Creates(path)
  PROVE  /\ UNCHANGED current_directory /\ Taken \subseteq Taken'
         /\ ret' = "error" => UNCHANGED <<fat, root_dir, file>>
<1>1. PICK directory \in BOOLEAN : AddRootEntry(path, directory, fs_find_free_cluster)
  BY DEF Creates
<1>2. UNCHANGED current_directory /\ FreeClusters # {} /\ ret' = Created /\ (file' = file \/ FreeEntries # {})
  BY DEF Creates
<1>3. ret' = "error" => FreeEntries = {}
  BY <1>2 DEF Created
<1>4. FreeEntries = {} => UNCHANGED <<fat, root_dir, file>>
  BY <1>1, <1>2, FullDirectory
<1>5. Taken \subseteq Taken'
  <2>1. CASE FreeEntries = {}
    BY <1>4, <2>1, TakenSame
  <2>2. CASE FreeEntries # {}
    <3>1. fat' = [fat EXCEPT ![fs_find_free_cluster] = EOC]
      BY <1>1, <2>2 DEF AddRootEntry, Allocated
    <3>2. fs_find_free_cluster \in 2 .. CLUSTERS - 1 /\ fs_find_free_cluster \in Clusters /\ EOC # FREE_CLUSTER
      BY <1>2, FreeCluster, ClusterNumbers
    <3> HIDE DEF fs_find_free_cluster
    <3>3. PICK c \in 2 .. CLUSTERS - 1 : c = fs_find_free_cluster
      BY <3>2
    <3>4. fat' = [fat EXCEPT ![c] = EOC]
      BY <3>1, <3>3
    <3> QED
      BY <3>2, <3>3, <3>4, TakenAdds
  <2> QED
    BY <2>1, <2>2
<1> QED
  BY <1>2, <1>3, <1>4, <1>5

LEMMA TransferFacts ==
  ASSUME FsType, transfer
  PROVE  /\ UNCHANGED <<client, root_dir, current_directory, hung>> /\ io # NoIo
         /\ Taken \subseteq Taken' /\ (ret' = "error" => fat' = fat)
<1>1. IoStep
  BY DEF transfer
<1>2. UNCHANGED <<client, root_dir, current_directory, hung>> /\ io # NoIo /\ io.cluster \in Clusters
  BY <1>1, SectorFacts DEF IoStep, Transfer
<1>3. fat' = fat \/ (FreeClusters # {} /\ fat' = [fat EXCEPT ![fs_find_free_cluster] = EOC, ![io.cluster] = fs_find_free_cluster])
  BY <1>1, SectorMoves
<1>4. ret' = "error" => FreeClusters = {}
  BY DEF transfer, DiskFull
<1>5. Taken \subseteq Taken'
  <2>1. CASE fat' = fat
    BY <2>1, TakenSame
  <2>2. CASE FreeClusters # {} /\ fat' = [fat EXCEPT ![fs_find_free_cluster] = EOC, ![io.cluster] = fs_find_free_cluster]
    <3>1. fs_find_free_cluster \in 2 .. CLUSTERS - 1 /\ fs_find_free_cluster # FREE_CLUSTER
      BY <2>2, FreeCluster, ClusterNumbers DEF FREE_CLUSTER
    <3> QED
      BY <1>2, <2>2, <3>1, TakenLinks
  <2> QED
    BY <1>3, <2>1, <2>2
<1> QED
  BY <1>2, <1>3, <1>4, <1>5

(* A call that answers an error changed neither the directory nor the      *)
(* current one, at every point where a call gives up and for any client.   *)
THEOREM FsFailuresOnlyLeak == CallSpec => FailuresOnlyLeak
<1> DEFINE Harmless == /\ UNCHANGED <<root_dir, current_directory>>
                       /\ io = NoIo => UNCHANGED file
                       /\ CreatesInSubdir \/ Taken' \subseteq Taken
                       /\ client = "strict" => Taken \subseteq Taken'
<1>1. ASSUME FsInv, [CallNext]_callVars, ret' = "error" PROVE Harmless
  <2>1. FsType /\ Steps
    BY <1>1, NextSteps DEF FsInv
  <2>2. CASE UNCHANGED vars
    BY <2>2, TakenSame DEF vars
  <2>3. ASSUME NEW path, Proper(path), Creates(path) PROVE Harmless
    BY <1>1, <2>1, <2>3, CreatesFacts, TakenSame
  <2>4. CASE CreatesInSubdir
    <3>0. PICK path : fs_open_create_subdir(path)
      BY <2>4 DEF CreatesInSubdir
    <3>1. UNCHANGED <<root_dir, file, current_directory>> /\ FreeClusters # {}
      BY <3>0 DEF fs_open_create_subdir
    <3>2. fat' = fat \/ fat' = [fat EXCEPT ![fs_find_free_cluster] = EOC]
      BY <2>1, <3>0, SubdirTable
    <3>3. fs_find_free_cluster \in 2 .. CLUSTERS - 1 /\ fs_find_free_cluster \in Clusters /\ EOC # FREE_CLUSTER
      BY <3>1, FreeCluster, ClusterNumbers
    <3> HIDE DEF fs_find_free_cluster
    <3>4. Taken \subseteq Taken'
      BY <2>1, <3>2, <3>3, TakenAdds, TakenSame
    <3> QED
      BY <2>4, <3>1, <3>4
  <2>5. ASSUME NEW path, NEW directory, Remove(path, directory), ret' = Removed(path) PROVE Harmless
    BY <1>1, <2>1, <2>5, RemovedEntry
  <2>6. CASE transfer
    BY <1>1, <2>1, <2>6, TransferFacts, TakenSame
  <2> HIDE DEF Harmless
  <2> QED
    BY <1>1, <2>1, <2>2, <2>3, <2>4, <2>5, <2>6 DEF Steps
<1>2. FsInv /\ [CallNext]_callVars => [ret' = "error" => Harmless]_callVars
  BY <1>1
<1> QED
  BY <1>2, FsInvariant, PTL DEF CallSpec, FailuresOnlyLeak

-----------------------------------------------------------------------------
(* A file reported created is found. *)
LEMMA CreateSeen ==
  ASSUME FsType, NEW path \in Paths, sys_create(path), ret' = "ok"
  PROVE  Found(path)'
<1>1. Proper(path)
  BY ProperPaths
<1>2. lookup_name(path) # NoName
  BY <1>1 DEF Proper
<1>3. CASE Found(path) /\ UNCHANGED vars
  BY <1>3 DEF vars, Found, Named
<1>4. CASE fs_create(path) /\ ret' = Created
  <2>1. FreeEntries # {} /\ FreeClusters # {} /\ AddRootEntry(path, FALSE, fs_find_free_cluster)
    BY <1>4 DEF Created, fs_create
  <2> DEFINE made == [name |-> lookup_name(path), directory |-> FALSE, cluster |-> fs_find_free_cluster, size |-> 0]
  <2>2. PICK i \in Entries : root_dir'[i] = made
    BY <1>1, <2>1, Added
  <2>3. made.name = lookup_name(path)
    OBVIOUS
  <2> HIDE DEF made
  <2>4. root_dir'[i].name = lookup_name(path)
    BY <2>3, <2>2
  <2> QED
    BY <1>2, <2>4 DEF Found, Named
<1> QED
  BY <1>3, <1>4 DEF sys_create, Answer, Refuse

(* A directory reported made is in a listing that has room for all. *)
LEMMA MkdirSeen ==
  ASSUME FsType, NEW path \in Paths, sys_mkdir(path), ret' = "ok", Cardinality(UsedEntries') <= LIST_MAX
  PROVE  \E e \in fs_listdir(LIST_MAX)' : e.directory /\ e.name = lookup_name(path)
<1>1. Proper(path)
  BY ProperPaths
<1>2. fs_mkdir(path) /\ ret' = Created
  BY DEF sys_mkdir, Refuse, Answer
<1>3. FreeEntries # {} /\ FreeClusters # {} /\ AddRootEntry(path, TRUE, fs_find_free_cluster)
  BY <1>2 DEF Created, fs_mkdir
<1> DEFINE made == [name |-> lookup_name(path), directory |-> TRUE, cluster |-> fs_find_free_cluster, size |-> 0]
<1>4. PICK i \in Entries : UsedEntries' = UsedEntries \cup {i} /\ root_dir'[i] = made
  BY <1>1, <1>3, Added
<1>5. made.directory /\ made.name = lookup_name(path)
  OBVIOUS
<1> HIDE DEF made
<1>6. root_dir'[i].directory /\ root_dir'[i].name = lookup_name(path)
  BY <1>5, <1>4
<1> DEFINE U == UsedEntries'
           B == {k \in U : k < i}
<1>7. i \in U /\ U \subseteq Entries /\ i \in Nat
  BY <1>4, EntryNumbers DEF UsedEntries
<1>8. IsFiniteSet(Entries)
  BY FS_Interval, FileSystemAssumption DEF Entries
<1> HIDE DEF U
<1>9. IsFiniteSet(U) /\ Cardinality(U) \in Nat
  BY <1>7, <1>8, FS_Subset, FS_CardinalityType
<1>10. IsFiniteSet(U \ {i}) /\ Cardinality(U \ {i}) = Cardinality(U) - 1
  BY <1>7, <1>9, FS_RemoveElement
<1>11. B \in SUBSET (U \ {i})
  BY <1>7
<1> HIDE DEF B
<1>12. Cardinality(B) <= Cardinality(U \ {i}) /\ Cardinality(B) \in Nat
  BY <1>10, <1>11, FS_Subset, FS_CardinalityType
<1>13. Cardinality(U) <= LIST_MAX /\ LIST_MAX \in Nat
  BY FileCallsAssumption DEF U
<1>14. Cardinality(B) < LIST_MAX
  BY <1>9, <1>10, <1>12, <1>13
<1>15. root_dir'[i] \in fs_listdir(LIST_MAX)'
  BY <1>7, <1>14 DEF fs_listdir, B, U
<1> QED
  BY <1>6, <1>15

(* What a call reports as done can be seen. *)
THEOREM FsSuccessIsVisible == CallSpec => SuccessIsVisible
<1> DEFINE Freed == ~(Taken \subseteq Taken') => UsedEntries' = {} \/ UsedEntries' # UsedEntries
           Entered == UNCHANGED current_directory \/ current_directory' = Root \/ IsDirectory(current_directory)'
           Shown(path) ==
             /\ ~Found(path)' => ~sys_create(path)
             /\ /\ Cardinality(UsedEntries') <= LIST_MAX
                /\ \A e \in fs_listdir(LIST_MAX)' : ~e.directory \/ e.name # lookup_name(path)
                => ~sys_mkdir(path)
<1>1. ASSUME FsInv, [CallNext]_callVars, ret' = "ok" PROVE Freed /\ Entered
  <2>1. FsType /\ Steps
    BY <1>1, NextSteps DEF FsInv
  <2>2. ASSUME UNCHANGED <<fat, current_directory>> PROVE Freed /\ Entered
    BY <2>2, TakenSame
  <2>3. CASE UNCHANGED vars
    BY <2>2, <2>3 DEF vars
  <2>4. ASSUME NEW path, Proper(path), Creates(path) PROVE Freed /\ Entered
    BY <2>1, <2>4, CreatesFacts
  <2>5. ASSUME NEW path, NEW mode, NEW h, fs_open_existing(path, mode, h) PROVE Freed /\ Entered
    BY <2>2, <2>5 DEF fs_open_existing
  <2>6. ASSUME NEW path, NEW directory, Remove(path, directory), ret' = Removed(path) PROVE Freed /\ Entered
    BY <1>1, <2>1, <2>6, RemovedEntry
  <2>7. ASSUME NEW old_path, NEW new_path, fs_rename(old_path, new_path) PROVE Freed /\ Entered
    BY <2>2, <2>7 DEF fs_rename
  <2>8. ASSUME NEW path, fs_chdir(path) PROVE Freed /\ Entered
    <3>1. UNCHANGED fat
      BY <2>8 DEF fs_chdir
    <3> QED
      BY <2>8, <3>1, TakenSame, Entering
  <2>9. ASSUME NEW h, fs_close(h) PROVE Freed /\ Entered
    BY <2>2, <2>9 DEF fs_close
  <2>10. ASSUME NEW h, NEW n, fs_seek(h, n) PROVE Freed /\ Entered
    BY <2>2, <2>10 DEF fs_seek
  <2>11. CASE transfer
    BY <2>1, <2>11, TransferFacts
  <2>12. CASE fs_format
    <3>1. root_dir' = [i \in Entries |-> NoEntry] /\ UNCHANGED current_directory
      BY <2>12 DEF fs_format
    <3>2. UsedEntries' = {}
      BY <3>1 DEF UsedEntries, FreeEntries, NoEntry
    <3> QED
      BY <3>1, <3>2
  <2> HIDE DEF Freed, Entered
  <2> QED
    BY <1>1, <2>1, <2>3, <2>4, <2>5, <2>6, <2>7, <2>8, <2>9, <2>10, <2>11, <2>12 DEF Steps
<1>2. ASSUME FsInv, ret' = "ok", NEW path \in Paths PROVE Shown(path)
  <2>1. FsType
    BY <1>2 DEF FsInv
  <2>2. sys_create(path) => Found(path)'
    BY <1>2, <2>1, CreateSeen
  <2>3. sys_mkdir(path) /\ Cardinality(UsedEntries') <= LIST_MAX =>
          \E e \in fs_listdir(LIST_MAX)' : e.directory /\ e.name = lookup_name(path)
    BY <1>2, <2>1, MkdirSeen
  <2> QED
    BY <2>2, <2>3, Zenon
<1>3. FsInv /\ [CallNext]_callVars =>
        [ret' = "ok" => (\A path \in Paths : Shown(path)) /\ Freed /\ Entered]_callVars
  <2> HIDE DEF Freed, Entered, Shown
  <2> QED
    BY <1>1, <1>2
<1> QED
  BY <1>3, FsInvariant, PTL DEF CallSpec, SuccessIsVisible
=============================================================================
