---------------------------- MODULE PagingProofs ----------------------------
(***************************************************************************)
(* Proofs about Paging, for every layout of memory and every size of the   *)
(* tables: the frames given out, and that the two-level tables implement   *)
(* AddressSpace.                                                           *)
(***************************************************************************)
EXTENDS Paging, WellFoundedInduction, TLAPS

-----------------------------------------------------------------------------
(* The inductive invariant *)

InUse(i) == Present(memory[DIRECTORY][i])
Table(i) == memory[DIRECTORY][i].address

(* Until a frame of the tables is handed out: exactly the frames of the    *)
(* start and the held ones are marked, and none of the held ones is where  *)
(* the kernel's structures lie; the directory leads to tables that have    *)
(* been created, each entry to another one.                                *)
Safe ==
  /\ TypeOK
  /\ bitmap = (0 .. USED - 1) \cup held
  /\ held \cap ((0 .. USED - 1) \cup TableFrames) = {}
  /\ \A i \in Indexes : InUse(i) => Table(i) \in TABLE_BASE .. next_page_table_addr - 1
  /\ \A i, j \in Indexes : InUse(i) /\ InUse(j) /\ Table(i) = Table(j) => i = j

(* Whatever has been handed out, frame 0 is marked and nobody's. *)
IInv ==
  /\ TypeOK
  /\ 0 \in bitmap /\ 0 \notin held
  /\ ~exposed => Safe

(* A set of natural numbers that is not empty has a least element, which   *)
(* Min returns.                                                            *)
LEMMA MinOfNats ==
  ASSUME NEW S \in SUBSET Nat, S # {}
  PROVE  Min(S) \in S /\ \A y \in S : Min(S) <= y
<1> DEFINE Less == {ss \in Nat \X Nat : ss[1] < ss[2]}
<1>1. IsWellFoundedOn(Less, Nat)
  BY NatLessThanWellFounded DEF OpToRel
<1>2. PICK x \in S : \A y \in S : ~(<<y, x>> \in Less)
  BY <1>1, WFMin, Zenon
<1>3. \A y \in S : <<y, x>> \in Less <=> y < x
  OBVIOUS
<1>4. ASSUME NEW y \in S PROVE x <= y
  <2>1. ~(y < x)
    BY <1>2, <1>3, Zenon
  <2>2. x \in Nat /\ y \in Nat
    OBVIOUS
  <2> HIDE DEF Less
  <2> QED
    BY <2>1, <2>2
<1> QED
  BY <1>4, Zenon DEF Min

(* The search finds a free frame if there is one, the lowest. *)
LEMMA FindsLowest ==
  ASSUME TypeOK, FreeFrames # {}
  PROVE  /\ find_free_physical_page \in FreeFrames
         /\ \A f \in FreeFrames : find_free_physical_page <= f
<1>1. FreeFrames \in SUBSET Nat
  BY PagingAssumption DEF FreeFrames, Frames
<1> QED
  BY <1>1, MinOfNats DEF find_free_physical_page

(* What is left in a frame reads as a table. *)
LEMMA ContentsTyped == Contents \subseteq [Indexes -> Entry]
<1>1. 0 \in Frames /\ JunkFrames \subseteq Frames
  BY PagingAssumption DEF Frames
<1> QED
  BY <1>1 DEF Contents, Zeroed, Filled, Entry, Flags

-----------------------------------------------------------------------------
(* Init and the actions *)

LEMMA InitSafe == Init => Safe
<1> SUFFICES ASSUME Init PROVE Safe
  OBVIOUS
<1> USE PagingAssumption
<1>1. DIRECTORY \in Frames /\ TABLE_BASE \in Frames /\ 0 \in Indexes /\ 0 \in Frames
      /\ TABLE_BASE # DIRECTORY
  BY DEF Frames, Indexes
<1>2. /\ Zeroed \in [Indexes -> Entry] /\ Contents \subseteq [Indexes -> Entry]
      /\ FirstTable \in [Indexes -> Entry]
      /\ TableEntry(TABLE_BASE) \in Entry
  <2>1. \A i \in Indexes : i \in Frames
    BY DEF Frames, Indexes
  <2>2. FirstTable \in [Indexes -> Entry]
    BY <2>1 DEF FirstTable, Entry, Flags
  <2> QED
    BY <1>1, <2>2, ContentsTyped DEF Zeroed, Filled, TableEntry, Entry, Flags
<1>3. PICK c \in Contents :
        memory = [f \in Frames |->
                   IF f = TABLE_BASE THEN FirstTable
                   ELSE IF f = DIRECTORY THEN [Zeroed EXCEPT ![0] = TableEntry(TABLE_BASE)]
                   ELSE c]
  BY DEF Init
<1>4. memory[DIRECTORY] = [Zeroed EXCEPT ![0] = TableEntry(TABLE_BASE)]
  BY <1>1, <1>3
<1>5. /\ \A i \in Indexes : InUse(i) <=> i = 0
      /\ Table(0) = TABLE_BASE
  BY <1>1, <1>4 DEF InUse, Table, Present, Zeroed, Filled, TableEntry
<1>6. TypeOK
  <2>1. memory \in [Frames -> [Indexes -> Entry]]
    BY <1>1, <1>2, <1>3
  <2> QED
    <3>1. bitmap \subseteq Frames /\ held \subseteq Frames
      BY DEF Init, Frames
    <3>2. next_page_table_addr \in TABLE_BASE + 1 .. DIRECTORY
      BY DEF Init
    <3>3. exposed \in BOOLEAN
      BY Zenon DEF Init
    <3> QED
      BY <2>1, <3>1, <3>2, <3>3 DEF TypeOK
<1> QED
  BY <1>5, <1>6 DEF Init, Safe

LEMMA InitIInv == Init => IInv
<1>1. Init => 0 \in bitmap /\ 0 \notin held
  BY PagingAssumption DEF Init
<1> QED
  BY <1>1, InitSafe DEF IInv, Safe

(* A page's index in the directory and in its table. *)
LEMMA IndexesOfPages ==
  ASSUME NEW v \in Pages
  PROVE  /\ get_page_directory_index(v) \in Indexes
         /\ get_page_table_index(v) \in Indexes
         /\ v = PAGE_TABLE_SIZE * get_page_directory_index(v) + get_page_table_index(v)
BY PagingAssumption, SMTT(60) DEF Pages, Indexes, get_page_directory_index, get_page_table_index

(* A directory entry is an entry, and a present one leads to a frame other *)
(* than the directory that nobody holds.                                   *)
LEMMA EntriesTyped ==
  ASSUME Safe
  PROVE  /\ DIRECTORY \in Frames
         /\ \A f \in Frames, i \in Indexes : memory[f][i] \in Entry
         /\ \A i \in Indexes : Table(i) \in Frames
         /\ \A i \in Indexes : InUse(i) => Table(i) # DIRECTORY /\ Table(i) \notin held
<1>1. DIRECTORY \in Frames
  BY PagingAssumption DEF Frames
<1>2. \A f \in Frames, i \in Indexes : memory[f][i] \in Entry
  BY DEF Safe, TypeOK
<1>3. \A i \in Indexes : Table(i) \in Frames
  BY <1>1, <1>2 DEF Table, Entry
<1>4. ASSUME NEW i \in Indexes, InUse(i) PROVE Table(i) # DIRECTORY /\ Table(i) \notin held
  <2>1. /\ Table(i) \in TABLE_BASE .. next_page_table_addr - 1
        /\ next_page_table_addr \in TABLE_BASE + 1 .. DIRECTORY
    BY <1>4 DEF Safe, TypeOK
  <2>2. Table(i) < DIRECTORY /\ Table(i) \in TableFrames
    BY <2>1, PagingAssumption DEF TableFrames
  <2> QED
    BY <2>2, PagingAssumption DEF Safe
<1> QED
  BY <1>1, <1>2, <1>3, <1>4

(* Where a step leaves the directory alone, the invariant's clauses on it  *)
(* stay.                                                                   *)
LEMMA DirectoryKept ==
  ASSUME Safe, memory'[DIRECTORY] = memory[DIRECTORY],
         UNCHANGED next_page_table_addr
  PROVE  /\ \A i \in Indexes : InUse(i)' => Table(i)' \in TABLE_BASE .. next_page_table_addr' - 1
         /\ \A i, j \in Indexes : InUse(i)' /\ InUse(j)' /\ Table(i)' = Table(j)' => i = j
BY DEF Safe, InUse, Table

(* The frame an allocation gives away was free, so it is not frame 0.  As  *)
(* long as it is none of the tables', it is none of the kernel's.          *)
LEMMA AllocKeeps ==
  ASSUME IInv, alloc_physical_page
  PROVE  IInv'
<1> DEFINE page == find_free_physical_page
<1>1. memory' = memory /\ next_page_table_addr' = next_page_table_addr
  BY DEF alloc_physical_page
<1>2. CASE page = 0
  <2>1. UNCHANGED vars
    BY <1>2 DEF alloc_physical_page, vars
  <2> QED
    BY <2>1 DEF vars, IInv, Safe, TypeOK, InUse, Table
<1>3. CASE page # 0
  <2>1. /\ bitmap' = bitmap \cup {page} /\ held' = held \cup {page}
        /\ exposed' = (exposed \/ page \in TableFrames)
    BY <1>3 DEF alloc_physical_page, SetBit
  <2>2. page \in FreeFrames
    BY <1>3, FindsLowest DEF find_free_physical_page, IInv
  <2> HIDE DEF page
  <2>3. page \in Frames /\ page \notin bitmap
    BY <2>2 DEF FreeFrames
  <2>4. TypeOK'
    BY <1>1, <2>1, <2>3 DEF IInv, TypeOK
  <2>5. ASSUME ~exposed' PROVE Safe'
    <3>1. Safe /\ page \notin TableFrames
      BY <2>1, <2>5 DEF IInv
    <3>2. held' \cap ((0 .. USED - 1) \cup TableFrames) = {}
      BY <2>1, <2>3, <3>1 DEF Safe
    <3>3. bitmap' = (0 .. USED - 1) \cup held'
      BY <2>1, <3>1 DEF Safe
    <3> QED
      BY <1>1, <2>4, <3>1, <3>2, <3>3, DirectoryKept DEF Safe
  <2> QED
    BY <1>3, <2>1, <2>4, <2>5 DEF IInv, page
<1> QED
  BY <1>2, <1>3

(* mark_page_allocated reserves a frame that is free and not the kernel's. *)
LEMMA MarkKeeps ==
  ASSUME IInv, NEW f \in Frames, mark_page_allocated(f)
  PROVE  IInv'
<1>1. bitmap' = bitmap \cup {f} /\ held' = held \cup {f} /\ exposed' = exposed
  BY DEF mark_page_allocated, SetBit
<1>2. memory' = memory /\ next_page_table_addr' = next_page_table_addr
  BY DEF mark_page_allocated
<1>3. f \notin bitmap /\ f \notin TableFrames
  BY DEF mark_page_allocated, FreeFrames
<1>4. TypeOK'
  BY <1>1, <1>2 DEF IInv, TypeOK
<1>5. ASSUME ~exposed PROVE Safe'
  <2>1. Safe
    BY <1>5 DEF IInv
  <2>2. held' \cap ((0 .. USED - 1) \cup TableFrames) = {}
    BY <1>1, <1>3, <2>1 DEF Safe
  <2>3. bitmap' = (0 .. USED - 1) \cup held'
    BY <1>1, <2>1 DEF Safe
  <2> QED
    BY <1>2, <1>4, <2>1, <2>2, <2>3, DirectoryKept DEF Safe
<1> QED
  BY <1>1, <1>3, <1>4, <1>5 DEF IInv

(* The client gives a frame back. *)
LEMMA ReleaseKeeps ==
  ASSUME IInv, NEW f \in Frames, free_physical_page(f) \/ mark_page_free(f)
  PROVE  IInv'
<1>1. f \in held /\ f < FRAMES
  BY PagingAssumption DEF free_physical_page, mark_page_free, Frames
<1>2. /\ bitmap' = bitmap \ {f} /\ held' = held \ {f} /\ exposed' = exposed
      /\ memory' = memory /\ next_page_table_addr' = next_page_table_addr
  BY <1>1 DEF free_physical_page, mark_page_free, FreeFrame, ClearBit
<1>3. TypeOK'
  BY <1>2 DEF IInv, TypeOK
<1>4. ASSUME ~exposed PROVE Safe'
  <2>1. Safe
    BY <1>4 DEF IInv
  <2>2. held' \cap ((0 .. USED - 1) \cup TableFrames) = {}
    BY <1>2, <2>1 DEF Safe
  <2>3. bitmap' = (0 .. USED - 1) \cup held'
    BY <1>1, <1>2, <2>1 DEF Safe
  <2> QED
    BY <1>2, <1>3, <2>1, <2>2, <2>3, DirectoryKept DEF Safe
<1> QED
  BY <1>1, <1>2, <1>3, <1>4 DEF IInv

(* destroy_page_table refuses the null pointer, and clears the bit of a    *)
(* frame that was not marked as long as no table has been handed out.      *)
LEMMA DestroyKeeps ==
  ASSUME IInv, NEW v \in Pages, destroy_page_table(v)
  PROVE  IInv'
<1> DEFINE pt == TableOf(v)
<1>1. pt # 0 /\ Present(DirectoryEntry(v)) /\ FreeFrame(pt) /\ held' = held
  BY DEF destroy_page_table
<1>2. /\ bitmap' \in {bitmap, bitmap \ {pt}} /\ exposed' = exposed
      /\ memory' = memory /\ next_page_table_addr' = next_page_table_addr
  BY <1>1 DEF FreeFrame, ClearBit
<1>3. TypeOK'
  BY <1>1, <1>2 DEF IInv, TypeOK
<1>4. ASSUME ~exposed PROVE Safe'
  <2>1. Safe
    BY <1>4 DEF IInv
  <2>2. PICK i \in Indexes : InUse(i) /\ pt = Table(i)
    BY <1>1, IndexesOfPages DEF DirectoryEntry, TableOf, InUse, Table
  <2>3. Table(i) \in TABLE_BASE .. next_page_table_addr - 1 /\ Table(i) \notin held
    BY <2>1, <2>2, EntriesTyped DEF Safe
  <2> HIDE DEF pt
  <2>4. pt \notin bitmap
    BY <2>1, <2>2, <2>3, PagingAssumption DEF Safe
  <2>5. bitmap' = bitmap
    BY <1>2, <2>4
  <2> QED
    BY <1>1, <1>2, <1>3, <2>1, <2>5, DirectoryKept DEF Safe
<1> QED
  BY <1>1, <1>2, <1>3, <1>4 DEF IInv

LEMMA WriteKeeps ==
  ASSUME IInv, NEW f \in Frames, NEW c \in Contents, Write(f, c)
  PROVE  IInv'
<1>1. c \in [Indexes -> Entry]
  BY ContentsTyped
<1>2. /\ f \in held /\ memory' = [memory EXCEPT ![f] = c]
      /\ UNCHANGED <<bitmap, next_page_table_addr, held, exposed>>
  BY DEF Write
<1>3. TypeOK'
  BY <1>1, <1>2 DEF IInv, TypeOK
<1>4. ASSUME ~exposed PROVE Safe'
  <2>1. Safe
    BY <1>4 DEF IInv
  <2>2. f # DIRECTORY
    BY <1>2, <2>1, PagingAssumption DEF Safe, TableFrames
  <2>3. memory'[DIRECTORY] = memory[DIRECTORY]
    BY <1>2, <2>1, <2>2, EntriesTyped DEF Safe, TypeOK
  <2> QED
    BY <1>2, <1>3, <2>1, <2>3, DirectoryKept DEF Safe
<1> QED
  BY <1>2, <1>3, <1>4 DEF IInv

(* What map_page does, entry by entry: page v's entry is in the table its  *)
(* directory entry leads to, which is the one of before or, new and        *)
(* otherwise empty, the next one.                                          *)
LEMMA MapEffect ==
  ASSUME Safe, NEW v \in Pages, NEW p \in MapFrames, NEW flags \in MapFlags,
         map_page(v, p, flags)
  PROVE  LET d == get_page_directory_index(v)
             t == get_page_table_index(v)
             pt == IF InUse(d) THEN Table(d) ELSE next_page_table_addr
         IN  /\ memory' \in [Frames -> [Indexes -> Entry]]
             /\ pt \in Frames /\ pt < DIRECTORY
             /\ InUse(d)' /\ Table(d)' = pt
             /\ \A i \in Indexes : i # d => memory'[DIRECTORY][i] = memory[DIRECTORY][i]
             /\ memory'[pt][t] = [address |-> p, flags |-> flags]
             /\ \A j \in Indexes : j # t =>
                  IF InUse(d) THEN memory'[pt][j] = memory[pt][j]
                  ELSE ~Present(memory'[pt][j])
             /\ \A f \in Frames : f # pt /\ f # DIRECTORY => memory'[f] = memory[f]
             /\ next_page_table_addr' = IF InUse(d) THEN next_page_table_addr ELSE pt + 1
             /\ bitmap' = bitmap /\ held' = held /\ exposed' = exposed
<1> DEFINE d == get_page_directory_index(v)
           t == get_page_table_index(v)
           pt == IF InUse(d) THEN Table(d) ELSE next_page_table_addr
           e == [address |-> p, flags |-> flags]
<1>1. d \in Indexes /\ t \in Indexes
  BY IndexesOfPages
<1>2. /\ DIRECTORY \in Frames
      /\ Zeroed \in [Indexes -> Entry]
      /\ memory \in [Frames -> [Indexes -> Entry]]
      /\ e \in Entry
  BY PagingAssumption DEF Zeroed, Filled, Entry, Flags, Frames, Safe, TypeOK
<1>3. pt \in Frames /\ pt < DIRECTORY /\ pt # DIRECTORY
  <2>1. CASE InUse(d)
    <3>1. Table(d) \in TABLE_BASE .. next_page_table_addr - 1
      BY <1>1, <2>1 DEF Safe
    <3>2. next_page_table_addr \in TABLE_BASE + 1 .. DIRECTORY
      BY DEF Safe, TypeOK
    <3> HIDE DEF d
    <3> QED
      BY <2>1, <3>1, <3>2, PagingAssumption DEF Frames
  <2>2. CASE ~InUse(d)
    <3>1. next_page_table_addr < DIRECTORY
      BY <2>2 DEF map_page, MoreTables, InUse, DirectoryEntry
    <3>2. next_page_table_addr \in TABLE_BASE + 1 .. DIRECTORY
      BY DEF Safe, TypeOK
    <3> HIDE DEF d
    <3> QED
      BY <2>2, <3>1, <3>2, PagingAssumption DEF Frames
  <2> QED
    BY <2>1, <2>2
<1>4. TableEntry(pt) \in Entry
  BY <1>3 DEF TableEntry, Entry, Flags
<1>5. /\ next_page_table_addr' = IF InUse(d) THEN next_page_table_addr ELSE pt + 1
      /\ bitmap' = bitmap /\ held' = held /\ exposed' = exposed
  BY DEF map_page, InUse, DirectoryEntry
<1>6. CASE InUse(d)
  <2>1. memory' = [memory EXCEPT ![pt][t] = e]
    BY <1>6 DEF map_page, SetEntry, InUse, Table, DirectoryEntry, TableOf
  <2>2. pt = Table(d)
    BY <1>6
  <2> HIDE DEF d, t, pt, e
  <2>3. memory'[DIRECTORY] = memory[DIRECTORY]
    BY <2>1, <1>2, <1>3
  <2>4. InUse(d)' /\ Table(d)' = pt
    BY <2>2, <2>3, <1>6 DEF InUse, Table
  <2>5. memory' \in [Frames -> [Indexes -> Entry]]
    BY <2>1, <1>1, <1>2, <1>3
  <2>6. memory'[pt] = [memory[pt] EXCEPT ![t] = e] /\ memory[pt] \in [Indexes -> Entry]
    BY <2>1, <1>2, <1>3
  <2>7. memory'[pt][t] = e /\ \A j \in Indexes : j # t => memory'[pt][j] = memory[pt][j]
    BY <2>6, <1>1
  <2>8. \A f \in Frames : f # pt /\ f # DIRECTORY => memory'[f] = memory[f]
    BY <2>1, <1>2, <1>3
  <2> QED
    BY <1>3, <1>5, <1>6, <2>3, <2>4, <2>5, <2>7, <2>8 DEF d, t, pt, e
<1>7. CASE ~InUse(d)
  <2> DEFINE mem == [memory EXCEPT ![pt] = Zeroed, ![DIRECTORY][d] = TableEntry(pt)]
  <2>1. memory' = [mem EXCEPT ![pt][t] = e]
    BY <1>7 DEF map_page, SetEntry, InUse, Table, DirectoryEntry, TableOf
  <2> HIDE DEF d, t, pt, e
  <2>2. /\ mem \in [Frames -> [Indexes -> Entry]]
        /\ mem[pt] = Zeroed
        /\ mem[DIRECTORY] = [memory[DIRECTORY] EXCEPT ![d] = TableEntry(pt)]
        /\ \A f \in Frames : f # pt /\ f # DIRECTORY => mem[f] = memory[f]
    BY <1>1, <1>2, <1>3, <1>4
  <2> HIDE DEF mem
  <2>3. /\ memory' \in [Frames -> [Indexes -> Entry]]
        /\ memory'[pt] = [Zeroed EXCEPT ![t] = e]
        /\ memory'[DIRECTORY] = mem[DIRECTORY]
        /\ \A f \in Frames : f # pt => memory'[f] = mem[f]
    BY <2>1, <2>2, <1>1, <1>2, <1>3
  <2>4. memory[DIRECTORY] \in [Indexes -> Entry]
    BY <1>2
  <2>5. memory'[DIRECTORY][d] = TableEntry(pt)
    BY <2>2, <2>3, <2>4, <1>1
  <2>6. InUse(d)' /\ Table(d)' = pt
    BY <2>5 DEF InUse, Table, Present, TableEntry
  <2>7. \A i \in Indexes : i # d => memory'[DIRECTORY][i] = memory[DIRECTORY][i]
    BY <2>2, <2>3, <2>4
  <2>8. memory'[pt][t] = e
    BY <2>3, <1>1, <1>2
  <2>9. \A j \in Indexes : j # t => ~Present(memory'[pt][j])
    BY <2>3, <1>1 DEF Zeroed, Filled, Present
  <2>10. \A f \in Frames : f # pt /\ f # DIRECTORY => memory'[f] = memory[f]
    BY <2>2, <2>3
  <2> QED
    BY <1>3, <1>5, <1>7, <2>3, <2>6, <2>7, <2>8, <2>9, <2>10 DEF d, t, pt, e
<1> QED
  BY <1>6, <1>7

(* unmap_page takes the present flag from page v's entry and changes no    *)
(* other; without a table it changes nothing.                              *)
LEMMA UnmapEffect ==
  ASSUME Safe, NEW v \in Pages, unmap_page(v)
  PROVE  LET d == get_page_directory_index(v)
             t == get_page_table_index(v)
         IN  /\ memory' \in [Frames -> [Indexes -> Entry]]
             /\ memory'[DIRECTORY] = memory[DIRECTORY]
             /\ \A f \in Frames, j \in Indexes :
                  ~(InUse(d) /\ f = Table(d) /\ j = t) => memory'[f][j] = memory[f][j]
             /\ InUse(d) => ~Present(memory'[Table(d)][t])
             /\ UNCHANGED <<bitmap, next_page_table_addr, held, exposed>>
<1> DEFINE d == get_page_directory_index(v)
           t == get_page_table_index(v)
<1>1. d \in Indexes /\ t \in Indexes
  BY IndexesOfPages
<1>2. DIRECTORY \in Frames /\ memory \in [Frames -> [Indexes -> Entry]]
  BY PagingAssumption DEF Frames, Safe, TypeOK
<1>3. CASE InUse(d)
  <2> DEFINE pt == Table(d)
             old == memory[pt][t]
             new == [old EXCEPT !.flags = @ \ {"PAGE_PRESENT"}]
  <2>1. pt \in Frames /\ pt # DIRECTORY
    BY <1>1, <1>3, EntriesTyped
  <2>2. memory' = [memory EXCEPT ![pt][t] = new]
    BY <1>3 DEF unmap_page, InUse, Table, DirectoryEntry, TableOf
  <2>3. old \in Entry
    BY <1>1, <1>2, <2>1
  <2> HIDE DEF d, t, pt, old
  <2>4. new \in Entry /\ ~Present(new)
    BY <2>3 DEF Entry, Present
  <2> HIDE DEF new
  <2>5. memory' \in [Frames -> [Indexes -> Entry]]
    BY <2>1, <2>2, <2>4, <1>1, <1>2
  <2>6. memory'[DIRECTORY] = memory[DIRECTORY]
    BY <2>1, <2>2, <1>2
  <2>7. \A f \in Frames, j \in Indexes : ~(f = pt /\ j = t) => memory'[f][j] = memory[f][j]
    BY <2>1, <2>2, <1>1, <1>2
  <2>8. memory'[pt][t] = new
    BY <2>1, <2>2, <1>1, <1>2
  <2>9. UNCHANGED <<bitmap, next_page_table_addr, held, exposed>>
    BY DEF unmap_page
  <2> QED
    BY <1>3, <2>4, <2>5, <2>6, <2>7, <2>8, <2>9 DEF d, t, pt
<1>4. CASE ~InUse(d)
  BY <1>2, <1>4 DEF unmap_page, InUse, DirectoryEntry
<1> QED
  BY <1>3, <1>4

LEMMA UnmapKeeps ==
  ASSUME IInv, NEW v \in Pages, unmap_page(v)
  PROVE  IInv'
<1> DEFINE t == get_page_table_index(v)
           pt == TableOf(v)
           old == memory[pt][t]
           new == [old EXCEPT !.flags = @ \ {"PAGE_PRESENT"}]
<1>1. UNCHANGED <<bitmap, next_page_table_addr, held, exposed>>
  BY DEF unmap_page
<1>2. memory' \in {memory, [memory EXCEPT ![pt][t] = new]}
  BY DEF unmap_page
<1>3. /\ memory \in [Frames -> [Indexes -> Entry]]
      /\ t \in Indexes /\ pt \in Frames
  <2>1. DIRECTORY \in Frames /\ memory \in [Frames -> [Indexes -> Entry]]
    BY PagingAssumption DEF Frames, IInv, TypeOK
  <2> QED
    BY <2>1, IndexesOfPages DEF TableOf, DirectoryEntry, Entry
<1>4. new \in Entry
  <2>1. old \in Entry
    BY <1>3
  <2> HIDE DEF old
  <2> QED
    BY <2>1 DEF Entry
<1> HIDE DEF t, pt, new
<1>5. memory' \in [Frames -> [Indexes -> Entry]]
  BY <1>2, <1>3, <1>4
<1>6. TypeOK'
  BY <1>1, <1>5 DEF IInv, TypeOK
<1>7. ASSUME ~exposed PROVE Safe'
  <2>1. Safe
    BY <1>7 DEF IInv
  <2>2. memory'[DIRECTORY] = memory[DIRECTORY]
    BY <2>1, UnmapEffect
  <2> QED
    BY <1>1, <1>6, <2>1, <2>2, DirectoryKept DEF Safe
<1> QED
  BY <1>1, <1>6, <1>7 DEF IInv

LEMMA MapSafe ==
  ASSUME Safe, NEW v \in Pages, NEW p \in MapFrames, NEW flags \in MapFlags,
         map_page(v, p, flags)
  PROVE  Safe'
<1> DEFINE d == get_page_directory_index(v)
           pt == IF InUse(d) THEN Table(d) ELSE next_page_table_addr
<1>1. /\ memory' \in [Frames -> [Indexes -> Entry]]
      /\ pt \in Frames /\ pt < DIRECTORY
      /\ InUse(d)' /\ Table(d)' = pt
      /\ \A i \in Indexes : i # d => memory'[DIRECTORY][i] = memory[DIRECTORY][i]
      /\ next_page_table_addr' = IF InUse(d) THEN next_page_table_addr ELSE pt + 1
      /\ bitmap' = bitmap /\ held' = held /\ exposed' = exposed
  BY MapEffect
<1>2. d \in Indexes
  BY IndexesOfPages
<1>3. next_page_table_addr \in TABLE_BASE + 1 .. DIRECTORY
  BY DEF Safe, TypeOK
<1>4. InUse(d) => pt = Table(d)
  OBVIOUS
<1>5. ~InUse(d) => pt = next_page_table_addr
  OBVIOUS
<1> HIDE DEF d, pt
<1>6. \A i \in Indexes : i # d => (InUse(i)' <=> InUse(i)) /\ Table(i)' = Table(i)
  BY <1>1 DEF InUse, Table
<1>7. \A i \in Indexes : InUse(i) => Table(i) \in TABLE_BASE .. next_page_table_addr - 1
  BY DEF Safe
<1>8. TypeOK'
  <2>1. next_page_table_addr' \in TABLE_BASE + 1 .. DIRECTORY
    BY <1>1, <1>3, <1>5, PagingAssumption
  <2> QED
    BY <1>1, <2>1 DEF Safe, TypeOK
<1>9. \A i \in Indexes : InUse(i)' => Table(i)' \in TABLE_BASE .. next_page_table_addr' - 1
  <2> SUFFICES ASSUME NEW i \in Indexes, InUse(i)'
               PROVE  Table(i)' \in TABLE_BASE .. next_page_table_addr' - 1
    OBVIOUS
  <2>1. next_page_table_addr <= next_page_table_addr' /\ next_page_table_addr' \in Int
    BY <1>1, <1>3, <1>5, PagingAssumption
  <2>2. CASE i # d
    <3>1. Table(i)' \in TABLE_BASE .. next_page_table_addr - 1
      BY <2>2, <1>6, <1>7
    <3> QED
      BY <3>1, <2>1, <1>3, PagingAssumption
  <2>3. CASE i = d /\ InUse(d)
    <3>1. Table(i)' \in TABLE_BASE .. next_page_table_addr - 1
      BY <2>3, <1>1, <1>2, <1>4, <1>7
    <3> QED
      BY <3>1, <2>1, <1>3, PagingAssumption
  <2>4. CASE i = d /\ ~InUse(d)
    <3>1. Table(i)' = next_page_table_addr /\ next_page_table_addr' = next_page_table_addr + 1
      BY <2>4, <1>1, <1>5
    <3> QED
      BY <3>1, <1>3, PagingAssumption
  <2> QED
    BY <2>2, <2>3, <2>4
<1>10. \A i \in Indexes : i # d /\ InUse(i) => Table(i) # pt
  <2> SUFFICES ASSUME NEW i \in Indexes, i # d, InUse(i) PROVE Table(i) # pt
    OBVIOUS
  <2>1. CASE InUse(d)
    BY <2>1, <1>2, <1>4 DEF Safe
  <2>2. CASE ~InUse(d)
    BY <2>2, <1>3, <1>5, <1>7, PagingAssumption
  <2> QED
    BY <2>1, <2>2
<1>11. \A i, j \in Indexes : InUse(i)' /\ InUse(j)' /\ Table(i)' = Table(j)' => i = j
  <2>1. \A i, j \in Indexes : InUse(i) /\ InUse(j) /\ Table(i) = Table(j) => i = j
    BY DEF Safe
  <2> QED
    BY <1>1, <1>2, <1>6, <1>10, <2>1
<1> QED
  BY <1>1, <1>8, <1>9, <1>11 DEF Safe

(* Whatever a client has written into the directory, memory stays frames   *)
(* of entries.                                                             *)
LEMMA MapTyped ==
  ASSUME TypeOK, NEW v \in Pages, NEW p \in MapFrames, NEW flags \in MapFlags,
         map_page(v, p, flags)
  PROVE  TypeOK' /\ UNCHANGED <<bitmap, held, exposed>>
<1> DEFINE d == get_page_directory_index(v)
           t == get_page_table_index(v)
           new == ~Present(DirectoryEntry(v))
           pt == IF new THEN next_page_table_addr ELSE TableOf(v)
           e == [address |-> p, flags |-> flags]
           mem == [memory EXCEPT ![pt] = Zeroed, ![DIRECTORY][d] = TableEntry(pt)]
<1>1. d \in Indexes /\ t \in Indexes
  BY IndexesOfPages
<1>2. /\ DIRECTORY \in Frames
      /\ Zeroed \in [Indexes -> Entry]
      /\ memory \in [Frames -> [Indexes -> Entry]]
      /\ e \in Entry
  BY PagingAssumption DEF Zeroed, Filled, Entry, Flags, Frames, TypeOK
<1>3. /\ new => next_page_table_addr < DIRECTORY
      /\ memory' = IF new THEN [mem EXCEPT ![pt][t] = e] ELSE [memory EXCEPT ![pt][t] = e]
      /\ next_page_table_addr' = IF new THEN pt + 1 ELSE next_page_table_addr
      /\ UNCHANGED <<bitmap, held, exposed>>
  BY DEF map_page, MoreTables, SetEntry
<1>4. next_page_table_addr \in TABLE_BASE + 1 .. DIRECTORY
  BY DEF TypeOK
<1>5. TableOf(v) \in Frames
  BY <1>1, <1>2 DEF TableOf, DirectoryEntry, Entry
<1>6. pt \in Frames /\ (new => pt = next_page_table_addr)
  <2> HIDE DEF new
  <2> QED
    BY <1>3, <1>4, <1>5, PagingAssumption DEF Frames
<1>7. TableEntry(pt) \in Entry
  BY <1>6 DEF TableEntry, Entry, Flags
<1> HIDE DEF d, t, new, pt, e
<1>8. mem \in [Frames -> [Indexes -> Entry]]
  BY <1>1, <1>2, <1>6, <1>7
<1> HIDE DEF mem
<1>9. memory' \in [Frames -> [Indexes -> Entry]]
  BY <1>1, <1>2, <1>3, <1>6, <1>8
<1>10. next_page_table_addr' \in TABLE_BASE + 1 .. DIRECTORY
  BY <1>3, <1>4, <1>6, PagingAssumption
<1> QED
  BY <1>3, <1>9, <1>10 DEF TypeOK

LEMMA MapKeeps ==
  ASSUME IInv, NEW v \in Pages, NEW p \in MapFrames, NEW flags \in MapFlags,
         map_page(v, p, flags)
  PROVE  IInv'
<1>1. TypeOK' /\ UNCHANGED <<bitmap, held, exposed>>
  BY MapTyped DEF IInv
<1>2. ~exposed => Safe'
  BY MapSafe DEF IInv
<1> QED
  BY <1>1, <1>2 DEF IInv

-----------------------------------------------------------------------------
(* The invariant, and what follows from it *)

LEMMA NextKeeps == IInv /\ [Next]_vars => IInv'
<1> SUFFICES ASSUME IInv, [Next]_vars PROVE IInv'
  OBVIOUS
<1>1. CASE alloc_physical_page
  BY <1>1, AllocKeeps
<1>2. CASE \E f \in Frames : \/ free_physical_page(f)
                             \/ mark_page_allocated(f) \/ mark_page_free(f)
  BY <1>2, ReleaseKeeps, MarkKeeps
<1>3. CASE \E f \in Frames, c \in Contents : Write(f, c)
  BY <1>3, WriteKeeps
<1>4. CASE \E v \in Pages, p \in MapFrames, flags \in MapFlags : map_page(v, p, flags)
  BY <1>4, MapKeeps
<1>5. CASE \E v \in Pages : unmap_page(v) \/ destroy_page_table(v)
  BY <1>5, UnmapKeeps, DestroyKeeps
<1>6. CASE UNCHANGED vars
  BY <1>6 DEF vars, IInv, Safe, TypeOK, InUse, Table
<1> QED
  BY <1>1, <1>2, <1>3, <1>4, <1>5, <1>6 DEF Next

(* The invariant holds in every state of every run, however much a client  *)
(* allocates.                                                              *)
THEOREM PagingInvariant == Spec => []IInv
BY InitIInv, NextKeeps, PTL DEF Spec

(* Only an allocation hands out a frame of the tables, and the search      *)
(* stops there only when every frame before the tables is marked.          *)
LEMMA ExposedLast ==
  ASSUME IInv, [Next]_vars, ~exposed, exposed'
  PROVE  USED .. TABLE_BASE - 1 \subseteq held
<1> DEFINE page == find_free_physical_page
<1>1. alloc_physical_page
  BY DEF Next, vars, free_physical_page, mark_page_allocated, mark_page_free, FreeFrame,
         Write, map_page, unmap_page, destroy_page_table
<1>2. page # 0 /\ page \in TableFrames
  BY <1>1 DEF alloc_physical_page
<1>3. /\ page \in FreeFrames
      /\ \A f \in FreeFrames : page <= f
  BY <1>2, FindsLowest DEF find_free_physical_page, IInv
<1> HIDE DEF page
<1>4. ASSUME NEW f \in USED .. TABLE_BASE - 1 PROVE f \in held
  <2>1. f < page /\ f \in Frames
    BY <1>2, PagingAssumption DEF TableFrames, Frames
  <2>2. f \notin FreeFrames
    BY <1>3, <2>1, PagingAssumption DEF FreeFrames, Frames
  <2>3. f \in bitmap
    BY <2>1, <2>2 DEF FreeFrames
  <2> QED
    BY <2>3, PagingAssumption DEF IInv, Safe
<1> QED
  BY <1>4

(* A frame somebody holds is marked, and is not of the frames marked at    *)
(* start, a page table in use or the directory, until the allocator hands  *)
(* out a frame of the tables itself; and that it does only to a client     *)
(* that holds every frame before the tables.                               *)
THEOREM PagingFramesSafe == Spec => KernelFramesSafe
<1> DEFINE Apart == held \cap (0 .. USED - 1 \cup Tables \cup {DIRECTORY}) = {}
<1>1. IInv => (~exposed => held \subseteq bitmap /\ Apart)
  <2> SUFFICES ASSUME Safe PROVE held \subseteq bitmap /\ Apart
    BY DEF IInv
  <2>1. \A f \in Tables : f \notin held
    BY EntriesTyped DEF Tables, InUse, Table
  <2>2. DIRECTORY \notin held
    BY PagingAssumption DEF Safe, TableFrames
  <2> QED
    BY <2>1, <2>2 DEF Safe
<1>2. IInv /\ [Next]_vars =>
        [~exposed /\ exposed' => USED .. TABLE_BASE - 1 \subseteq held]_vars
  BY ExposedLast
<1> QED
  BY <1>1, <1>2, PagingInvariant, PTL DEF Spec, KernelFramesSafe

(* find_free_physical_page answers 0 only when no frame is free: frame 0   *)
(* stays marked, even where clients write over the tables.                 *)
THEOREM PagingFailureIsFull == Spec => []FailureIsFull
<1>1. IInv => FailureIsFull
  <2> SUFFICES ASSUME IInv, FreeFrames # {} PROVE find_free_physical_page # 0
    BY DEF FailureIsFull
  <2>1. find_free_physical_page \in FreeFrames
    BY FindsLowest DEF IInv
  <2>2. 0 \notin FreeFrames
    BY DEF IInv, FreeFrames
  <2> QED
    BY <2>1, <2>2
<1> QED
  BY <1>1, PagingInvariant, PTL

-----------------------------------------------------------------------------
(* The tables implement the address space *)

(* Two pages that share both indexes are the same page. *)
LEMMA PagesDiffer ==
  ASSUME NEW v \in Pages, NEW w \in Pages,
         get_page_directory_index(v) = get_page_directory_index(w),
         get_page_table_index(v) = get_page_table_index(w)
  PROVE  v = w
<1>1. v = PAGE_TABLE_SIZE * get_page_directory_index(v) + get_page_table_index(v)
  BY IndexesOfPages
<1>2. w = PAGE_TABLE_SIZE * get_page_directory_index(w) + get_page_table_index(w)
  BY IndexesOfPages
<1> QED
  BY <1>1, <1>2, Zenon

(* map_page gives page v the address it is told, or none if the flags do   *)
(* not say present, and leaves every other page's translation.             *)
LEMMA MapTranslates ==
  ASSUME Safe, NEW v \in Pages, NEW p \in MapFrames, NEW flags \in MapFlags,
         map_page(v, p, flags), NEW w \in Pages
  PROVE  get_physical_address(w, 1)' =
           IF w # v THEN get_physical_address(w, 1)
           ELSE IF "PAGE_PRESENT" \in flags THEN <<p, 1>> ELSE <<0, 0>>
<1> DEFINE d == get_page_directory_index(v)
           t == get_page_table_index(v)
           pt == IF InUse(d) THEN Table(d) ELSE next_page_table_addr
           i == get_page_directory_index(w)
           j == get_page_table_index(w)
<1>1. /\ InUse(d)' /\ Table(d)' = pt
      /\ \A k \in Indexes : k # d => memory'[DIRECTORY][k] = memory[DIRECTORY][k]
      /\ memory'[pt][t] = [address |-> p, flags |-> flags]
      /\ \A k \in Indexes : k # t =>
            IF InUse(d) THEN memory'[pt][k] = memory[pt][k] ELSE ~Present(memory'[pt][k])
      /\ \A f \in Frames : f # pt /\ f # DIRECTORY => memory'[f] = memory[f]
  BY MapEffect
<1>2. d \in Indexes /\ t \in Indexes /\ i \in Indexes /\ j \in Indexes
  BY IndexesOfPages
<1>3. w # v => i # d \/ j # t
  BY PagesDiffer
<1>4. w = v => i = d /\ j = t
  OBVIOUS
<1>5. /\ InUse(d) => pt = Table(d)
      /\ ~InUse(d) => pt = next_page_table_addr
  OBVIOUS
<1>6. get_physical_address(w, 1) =
        IF InUse(i) /\ Present(memory[Table(i)][j])
        THEN <<memory[Table(i)][j].address, 1>> ELSE <<0, 0>>
  BY DEF get_physical_address, TableOf, DirectoryEntry, InUse, Table
<1>7. get_physical_address(w, 1)' =
        IF InUse(i)' /\ Present(memory'[Table(i)'][j])
        THEN <<memory'[Table(i)'][j].address, 1>> ELSE <<0, 0>>
  BY DEF get_physical_address, TableOf, DirectoryEntry, InUse, Table, Present
<1> HIDE DEF d, t, pt, i, j
<1>8. CASE w = v
  BY <1>1, <1>4, <1>7, <1>8 DEF Present
<1>9. CASE i # d
  <2>1. (InUse(i)' <=> InUse(i)) /\ Table(i)' = Table(i)
    BY <1>1, <1>2, <1>9 DEF InUse, Table
  <2>2. CASE InUse(i)
    <3>1. Table(i) \in Frames /\ Table(i) # DIRECTORY
      BY <1>2, <2>2, EntriesTyped
    <3>2. Table(i) # pt
      <4>1. CASE InUse(d)
        BY <1>2, <1>5, <1>9, <2>2, <4>1 DEF Safe
      <4>2. CASE ~InUse(d)
        <5>1. /\ Table(i) \in TABLE_BASE .. next_page_table_addr - 1
              /\ next_page_table_addr \in TABLE_BASE + 1 .. DIRECTORY
          BY <1>2, <2>2 DEF Safe, TypeOK
        <5> QED
          BY <5>1, <1>5, <4>2, PagingAssumption
      <4> QED
        BY <4>1, <4>2
    <3>3. memory'[Table(i)'] = memory[Table(i)]
      BY <1>1, <2>1, <3>1, <3>2
    <3> QED
      BY <1>4, <1>6, <1>7, <1>9, <2>1, <3>3
  <2>3. CASE ~InUse(i)
    BY <1>4, <1>6, <1>7, <1>9, <2>1, <2>3
  <2> QED
    BY <2>2, <2>3
<1>10. CASE i = d /\ w # v
  <2>1. j # t /\ InUse(i)' /\ Table(i)' = pt
    BY <1>1, <1>3, <1>10
  <2>2. CASE InUse(d)
    <3>1. memory'[pt][j] = memory[pt][j] /\ pt = Table(i)
      BY <1>1, <1>2, <1>5, <1>10, <2>1, <2>2
    <3> QED
      BY <1>6, <1>7, <1>10, <2>1, <2>2, <3>1
  <2>3. CASE ~InUse(d)
    <3>1. ~Present(memory'[pt][j])
      BY <1>1, <1>2, <2>1, <2>3
    <3> QED
      BY <1>6, <1>7, <1>10, <2>1, <2>3, <3>1
  <2> QED
    BY <2>2, <2>3
<1> QED
  BY <1>8, <1>9, <1>10

(* unmap_page takes page v's translation away and leaves the others'.      *)
LEMMA UnmapTranslates ==
  ASSUME Safe, NEW v \in Pages, unmap_page(v), NEW w \in Pages
  PROVE  get_physical_address(w, 1)' =
           IF w # v THEN get_physical_address(w, 1) ELSE <<0, 0>>
<1> DEFINE d == get_page_directory_index(v)
           t == get_page_table_index(v)
           i == get_page_directory_index(w)
           j == get_page_table_index(w)
<1>1. /\ memory'[DIRECTORY] = memory[DIRECTORY]
      /\ \A f \in Frames, k \in Indexes :
           ~(InUse(d) /\ f = Table(d) /\ k = t) => memory'[f][k] = memory[f][k]
      /\ InUse(d) => ~Present(memory'[Table(d)][t])
  BY UnmapEffect
<1>2. d \in Indexes /\ t \in Indexes /\ i \in Indexes /\ j \in Indexes
  BY IndexesOfPages
<1>3. w # v => i # d \/ j # t
  BY PagesDiffer
<1>4. w = v => i = d /\ j = t
  OBVIOUS
<1>5. get_physical_address(w, 1) =
        IF InUse(i) /\ Present(memory[Table(i)][j])
        THEN <<memory[Table(i)][j].address, 1>> ELSE <<0, 0>>
  BY DEF get_physical_address, TableOf, DirectoryEntry, InUse, Table
<1>6. get_physical_address(w, 1)' =
        IF InUse(i) /\ Present(memory'[Table(i)][j])
        THEN <<memory'[Table(i)][j].address, 1>> ELSE <<0, 0>>
  BY <1>1 DEF get_physical_address, TableOf, DirectoryEntry, InUse, Table, Present
<1> HIDE DEF d, t, i, j
<1>7. CASE w = v
  BY <1>1, <1>4, <1>6, <1>7
<1>8. CASE w # v /\ InUse(i)
  <2>1. Table(i) \in Frames
    BY <1>2, EntriesTyped
  <2>2. ~(InUse(d) /\ Table(i) = Table(d) /\ j = t)
    BY <1>2, <1>3, <1>8 DEF Safe
  <2>3. memory'[Table(i)][j] = memory[Table(i)][j]
    BY <1>1, <1>2, <2>1, <2>2
  <2> QED
    BY <1>5, <1>6, <1>8, <2>3
<1>9. CASE w # v /\ ~InUse(i)
  BY <1>5, <1>6, <1>9
<1> QED
  BY <1>7, <1>8, <1>9

(* What is written in a frame somebody holds changes no translation. *)
LEMMA WriteTranslates ==
  ASSUME Safe, NEW f \in Frames, NEW c \in Contents, Write(f, c), NEW w \in Pages
  PROVE  get_physical_address(w, 1)' = get_physical_address(w, 1)
<1> DEFINE i == get_page_directory_index(w)
<1>1. i \in Indexes
  BY IndexesOfPages
<1>2. f # DIRECTORY /\ f \in held
  BY PagingAssumption DEF Write, Safe, TableFrames
<1>3. \A g \in Frames : g # f => memory'[g] = memory[g]
  BY DEF Write, Safe, TypeOK
<1>4. memory'[DIRECTORY] = memory[DIRECTORY]
  BY <1>2, <1>3, EntriesTyped
<1>5. InUse(i) => memory'[Table(i)] = memory[Table(i)]
  BY <1>1, <1>2, <1>3, EntriesTyped
<1> QED
  BY <1>4, <1>5 DEF get_physical_address, TableOf, DirectoryEntry, InUse, Table, Present

(* At start the pages of the first table translate to themselves and no    *)
(* other page translates.                                                  *)
LEMMA FirstTranslates ==
  ASSUME Init, NEW v \in Pages
  PROVE  get_physical_address(v, 1) = IF v < PAGE_TABLE_SIZE THEN <<v, 1>> ELSE <<0, 0>>
<1> DEFINE i == get_page_directory_index(v)
           j == get_page_table_index(v)
<1>1. i \in Indexes /\ j \in Indexes
  BY IndexesOfPages
<1>2. v < PAGE_TABLE_SIZE => i = 0 /\ j = v
  BY PagingAssumption DEF Pages, get_page_directory_index, get_page_table_index
<1>3. ~(v < PAGE_TABLE_SIZE) => i # 0
  <2>1. v \in Nat /\ v = PAGE_TABLE_SIZE * i + j
    BY IndexesOfPages, PagingAssumption DEF Pages
  <2> HIDE DEF i, j
  <2> QED
    BY <1>1, <2>1, PagingAssumption DEF Indexes
<1>4. /\ DIRECTORY \in Frames /\ TABLE_BASE \in Frames /\ TABLE_BASE # DIRECTORY
      /\ 0 \in Indexes
  BY PagingAssumption DEF Frames, Indexes
<1>5. /\ memory[DIRECTORY] = [Zeroed EXCEPT ![0] = TableEntry(TABLE_BASE)]
      /\ memory[TABLE_BASE] = FirstTable
  BY <1>4 DEF Init
<1>6. /\ InUse(i) <=> i = 0
      /\ Table(0) = TABLE_BASE
  <2> HIDE DEF i
  <2> QED
    BY <1>1, <1>4, <1>5 DEF InUse, Table, Present, Zeroed, Filled, TableEntry
<1>7. Present(memory[TABLE_BASE][j]) /\ memory[TABLE_BASE][j].address = j
  <2> HIDE DEF j
  <2> QED
    BY <1>1, <1>5 DEF FirstTable, Present
<1>8. get_physical_address(v, 1) =
        IF InUse(i) /\ Present(memory[Table(i)][j])
        THEN <<memory[Table(i)][j].address, 1>> ELSE <<0, 0>>
  BY DEF get_physical_address, TableOf, DirectoryEntry, InUse, Table
<1> HIDE DEF i, j
<1> QED
  BY <1>2, <1>3, <1>6, <1>7, <1>8

(* The two-level tables implement AddressSpace through the translation     *)
(* get_physical_address gives: map_page and unmap_page do what they        *)
(* promise to their page, and every other call changes no page, until a    *)
(* frame of the tables is handed out.                                      *)
THEOREM PagingIsAddressSpace == Spec => IsAddressSpace
<1> DEFINE space == [v \in Pages |-> get_physical_address(v, 1)]
           Mapping == \E v \in Pages, p \in MapFrames, flags \in MapFlags : map_page(v, p, flags)
           Unmapping == \E v \in Pages : unmap_page(v)
           Promised ==
             /\ \A v \in Pages, p \in MapFrames, flags \in MapFlags :
                  map_page(v, p, flags) => Maps(v, p, flags)
             /\ \A v \in Pages : unmap_page(v) => Space!Unmap(v)
             /\ Mapping \/ Unmapping \/ Space!Keep
<1>1. Init => Space!Init
  BY FirstTranslates DEF Space!Init
<1>2. IInv /\ [Next]_vars => [~exposed => Promised]_vars
  <2> SUFFICES ASSUME Safe, Next PROVE Promised
    BY DEF IInv
  <2>1. ASSUME UNCHANGED memory PROVE Space!Keep
    BY <2>1 DEF Space!Keep, get_physical_address, TableOf, DirectoryEntry, Present
  <2>2. ASSUME NEW v \in Pages, NEW p \in MapFrames, NEW flags \in MapFlags,
               map_page(v, p, flags)
        PROVE  Maps(v, p, flags)
    <3> DEFINE a == IF "PAGE_PRESENT" \in flags THEN <<p, 1>> ELSE <<0, 0>>
    <3>1. \A w \in Pages :
            get_physical_address(w, 1)' = IF w # v THEN get_physical_address(w, 1) ELSE a
      BY <2>2, MapTranslates
    <3>2. /\ "PAGE_PRESENT" \in flags => a = <<p, 1>>
          /\ "PAGE_PRESENT" \notin flags => a = <<0, 0>>
      OBVIOUS
    <3> HIDE DEF a
    <3>3. space' = [space EXCEPT ![v] = a]
      BY <3>1
    <3> QED
      BY <3>2, <3>3 DEF Maps, Space!Map, Space!Unmap
  <2>3. ASSUME NEW v \in Pages, unmap_page(v) PROVE Space!Unmap(v)
    <3>1. \A w \in Pages :
            get_physical_address(w, 1)' = IF w # v THEN get_physical_address(w, 1) ELSE <<0, 0>>
      BY <2>3, UnmapTranslates
    <3> QED
      BY <3>1 DEF Space!Unmap
  <2>4. ASSUME NEW f \in Frames, NEW c \in Contents, Write(f, c) PROVE Space!Keep
    BY <2>4, WriteTranslates DEF Space!Keep
  <2>5. ASSUME NEW f \in Frames,
               free_physical_page(f) \/ mark_page_allocated(f) \/ mark_page_free(f)
        PROVE  Space!Keep
    BY <2>1, <2>5 DEF free_physical_page, FreeFrame, mark_page_allocated, mark_page_free
  <2>6. ASSUME NEW v \in Pages, destroy_page_table(v) PROVE Space!Keep
    BY <2>1, <2>6 DEF destroy_page_table, FreeFrame
  <2>7. ASSUME alloc_physical_page PROVE Space!Keep
    BY <2>1, <2>7 DEF alloc_physical_page
  <2>8. Mapping \/ Unmapping \/ Space!Keep
    BY <2>4, <2>5, <2>6, <2>7, Zenon DEF Next
  <2> QED
    BY <2>2, <2>3, <2>8
<1> QED
  BY <1>1, <1>2, PagingInvariant, PTL DEF Spec, IsAddressSpace
=============================================================================
