------------------------------- MODULE Paging -------------------------------
(***************************************************************************)
(* The physical frame bitmap and the two-level page tables of memory.c.    *)
(*                                                                         *)
(* Addresses count whole frames.  The kernel lays its own structures out   *)
(* at fixed addresses: init_physical_page_bitmap marks the frames below    *)
(* 6 MB, create_page_table takes frames from 7 MB upwards, and the page    *)
(* directory lies at 16 MB.  Directory and tables are contents of frames,  *)
(* so a client that writes a frame it was given may write into them.  The  *)
(* counters page_allocations and page_deallocations are left out, and so   *)
(* is the update_memory_stats both calls end with: it recomputes what      *)
(* module Heap shows to be exact already.                                  *)
(*                                                                         *)
(* Nothing in the kernel calls these functions after start-up, so the      *)
(* client is an assumption: it frees and writes only frames it holds, and  *)
(* reserves only frames that are free and not the kernel's.  It allocates  *)
(* as much as it likes.  Since the frames of the tables and the directory  *)
(* are not marked, it is given those too in the end; exposed is the        *)
(* history of that, and from then on what it writes may be a table.        *)
(* A client that frees frame 0, which it was never given, is left out: it  *)
(* stops the allocator, which takes frame 0 for a failure.                 *)
(*                                                                         *)
(* Operators whose names begin with Bad are broken variants of the         *)
(* definition that follows them; no specification uses them.               *)
(***************************************************************************)
EXTENDS Integers, FiniteSets, FiniteSetsExt

CONSTANTS
  PAGE_TABLE_SIZE,   \* entries of a table and of the directory (1024)
  KERNEL_START,      \* first frame of the kernel's image (1 MB)
  KERNEL_END,        \* the frame after it (2 MB)
  USED,              \* frames marked at start (6 MB)
  TABLE_BASE,        \* first frame create_page_table takes (7 MB)
  DIRECTORY,         \* the frame of the page directory (16 MB)
  FRAMES,            \* bits of the bitmap (256 MB)
  MapFrames,         \* the frames callers map
  MapFlags,          \* the flag sets callers pass to map_page
  JunkFrames         \* the addresses in the old contents of frames

Frames == 0 .. FRAMES - 1
Indexes == 0 .. PAGE_TABLE_SIZE - 1
Pages == 0 .. PAGE_TABLE_SIZE * PAGE_TABLE_SIZE - 1
Flags == {"PAGE_PRESENT", "PAGE_WRITABLE", "PAGE_USER", "PAGE_GLOBAL"}

ASSUME PagingAssumption ==
  /\ PAGE_TABLE_SIZE \in Nat \ {0}
  /\ KERNEL_START \in Nat /\ KERNEL_END \in Nat
  /\ KERNEL_START <= KERNEL_END /\ KERNEL_END <= PAGE_TABLE_SIZE
  /\ USED \in Nat /\ TABLE_BASE \in Nat /\ DIRECTORY \in Nat /\ FRAMES \in Nat
  /\ 0 < USED /\ USED <= TABLE_BASE
  /\ TABLE_BASE + PAGE_TABLE_SIZE <= DIRECTORY /\ DIRECTORY < FRAMES
  /\ MapFrames \subseteq Frames
  /\ MapFlags \subseteq SUBSET Flags
  /\ JunkFrames \subseteq Frames

VARIABLES
  bitmap,                \* the frames whose bit is set
  memory,                \* frame -> its entries, read as a page_table_t
  next_page_table_addr,  \* the static of create_page_table
  held,                  \* the frames the client was given or has reserved
  exposed                \* history: it was given one of the kernel's tables

vars == <<bitmap, memory, next_page_table_addr, held, exposed>>

Entry == [flags : SUBSET Flags, address : Frames]

Filled(entry) == [i \in Indexes |-> entry]
Zeroed == Filled([flags |-> {}, address |-> 0])

(* What the machine or a client leaves in a frame. *)
Contents == {Zeroed} \cup {Filled([flags |-> Flags, address |-> f]) : f \in JunkFrames}

(* Where the tables and the directory lie, in frames the bitmap shows as   *)
(* free.                                                                   *)
TableFrames == TABLE_BASE .. DIRECTORY

get_page_directory_index(v) == v \div PAGE_TABLE_SIZE
get_page_table_index(v) == v % PAGE_TABLE_SIZE

Present(entry) == "PAGE_PRESENT" \in entry.flags

(* The entries after setup_identity_paging, then setup_kernel_paging.      *)
FirstTable ==
  [i \in Indexes |->
    [address |-> i,
     flags |-> {"PAGE_PRESENT", "PAGE_WRITABLE"} \cup
               IF i \in KERNEL_START .. KERNEL_END - 1 THEN {} ELSE {"PAGE_GLOBAL"}]]

(* What map_page stores in the directory for a new table. *)
TableEntry(f) == [address |-> f,
                  flags |-> {"PAGE_PRESENT", "PAGE_WRITABLE", "PAGE_USER"}]

(* One frame too few is marked. *)
BadInit ==
  /\ bitmap = 0 .. USED - 2
  /\ \E c \in Contents :
       memory = [f \in Frames |->
                  IF f = TABLE_BASE THEN FirstTable
                  ELSE IF f = DIRECTORY THEN [Zeroed EXCEPT ![0] = TableEntry(TABLE_BASE)]
                  ELSE c]
  /\ next_page_table_addr = TABLE_BASE + 1
  /\ held = {} /\ exposed = FALSE

(* init_physical_page_bitmap and paging_init.  The other frames hold what  *)
(* the machine left there.                                                 *)
Init ==
  /\ bitmap = 0 .. USED - 1
  /\ \E c \in Contents :
       memory = [f \in Frames |->
                  IF f = TABLE_BASE THEN FirstTable
                  ELSE IF f = DIRECTORY THEN [Zeroed EXCEPT ![0] = TableEntry(TABLE_BASE)]
                  ELSE c]
  /\ next_page_table_addr = TABLE_BASE + 1
  /\ held = {} /\ exposed = FALSE

-----------------------------------------------------------------------------
(* Frames *)

FreeFrames == Frames \ bitmap

(* The lowest clear bit; 0 if there is none. *)
find_free_physical_page == IF FreeFrames = {} THEN 0 ELSE Min(FreeFrames)

(* set_bitmap_bit. *)
SetBit(f) == bitmap' = bitmap \cup {f}
ClearBit(f) == bitmap' = bitmap \ {f}

alloc_physical_page ==
  /\ LET page == find_free_physical_page IN
       IF page = 0 THEN UNCHANGED <<bitmap, held, exposed>>
       ELSE /\ SetBit(page) /\ held' = held \cup {page}
            /\ exposed' = (exposed \/ page \in TableFrames)
  /\ UNCHANGED <<memory, next_page_table_addr>>

(* free_physical_page. *)
FreeFrame(f) ==
  /\ IF f < FRAMES THEN ClearBit(f) ELSE UNCHANGED bitmap
  /\ UNCHANGED <<memory, next_page_table_addr, exposed>>

(* The client gives a frame back. *)
free_physical_page(f) == f \in held /\ FreeFrame(f) /\ held' = held \ {f}

(* The client reserves a certain frame. *)
mark_page_allocated(f) ==
  /\ f \in FreeFrames \ TableFrames
  /\ SetBit(f) /\ held' = held \cup {f}
  /\ UNCHANGED <<memory, next_page_table_addr, exposed>>

mark_page_free(f) ==
  /\ f \in held
  /\ ClearBit(f) /\ held' = held \ {f}
  /\ UNCHANGED <<memory, next_page_table_addr, exposed>>

(* The client fills a frame it holds. *)
Write(f, c) ==
  /\ f \in held
  /\ memory' = [memory EXCEPT ![f] = c]
  /\ UNCHANGED <<bitmap, next_page_table_addr, held, exposed>>

-----------------------------------------------------------------------------
(* Page tables *)

DirectoryEntry(v) == memory[DIRECTORY][get_page_directory_index(v)]

TableOf(v) == DirectoryEntry(v).address

(* Memory with page v's entry in table pt set to e. *)
SetEntry(mem, pt, v, e) == [mem EXCEPT ![pt][get_page_table_index(v)] = e]

(* The bound of the model: the tables stay below the directory, as they do *)
(* as long as no client writes over the directory.                         *)
MoreTables == next_page_table_addr < DIRECTORY

(* A new table is used as it is found. *)
BadMapPage(v, p, flags) ==
  LET new == ~Present(DirectoryEntry(v))
      pt == IF new THEN next_page_table_addr ELSE TableOf(v)
      withTable == [memory EXCEPT
        ![DIRECTORY][get_page_directory_index(v)] = TableEntry(pt)]
  IN  /\ new => MoreTables
      /\ memory' = SetEntry(IF new THEN withTable ELSE memory, pt, v,
                            [address |-> p, flags |-> flags])
      /\ next_page_table_addr' = IF new THEN pt + 1 ELSE next_page_table_addr
      /\ UNCHANGED <<bitmap, held, exposed>>

(* create_page_table never fails and never looks at the bitmap. *)
map_page(v, p, flags) ==
  LET new == ~Present(DirectoryEntry(v))
      pt == IF new THEN next_page_table_addr ELSE TableOf(v)
      withTable == [memory EXCEPT
        ![pt] = Zeroed, ![DIRECTORY][get_page_directory_index(v)] = TableEntry(pt)]
  IN  /\ new => MoreTables
      /\ memory' = SetEntry(IF new THEN withTable ELSE memory, pt, v,
                            [address |-> p, flags |-> flags])
      /\ next_page_table_addr' = IF new THEN pt + 1 ELSE next_page_table_addr
      /\ UNCHANGED <<bitmap, held, exposed>>

(* Fails when there is no table. *)
unmap_page(v) ==
  /\ IF Present(DirectoryEntry(v))
     THEN memory' = [memory EXCEPT
            ![TableOf(v)][get_page_table_index(v)].flags = @ \ {"PAGE_PRESENT"}]
     ELSE UNCHANGED memory
  /\ UNCHANGED <<bitmap, next_page_table_addr, held, exposed>>

(* The null pointer is not refused. *)
BadDestroy(v) == FreeFrame(TableOf(v)) /\ UNCHANGED held

(* Frees the frame of a table, which was never marked unless a client has  *)
(* it, and leaves the directory as it is.                                  *)
destroy_page_table(v) ==
  /\ Present(DirectoryEntry(v)) /\ TableOf(v) # 0
  /\ FreeFrame(TableOf(v)) /\ UNCHANGED held

(* 0, the address of frame 0 at offset 0, when the page is not mapped. *)
get_physical_address(v, offset) ==
  LET e == memory[TableOf(v)][get_page_table_index(v)] IN
  IF Present(DirectoryEntry(v)) /\ Present(e) THEN <<e.address, offset>> ELSE <<0, 0>>

Next ==
  \/ alloc_physical_page
  \/ \E f \in Frames : \/ free_physical_page(f)
                       \/ mark_page_allocated(f) \/ mark_page_free(f)
  \/ \E f \in Frames, c \in Contents : Write(f, c)
  \/ \E v \in Pages, p \in MapFrames, flags \in MapFlags : map_page(v, p, flags)
  \/ \E v \in Pages : unmap_page(v) \/ destroy_page_table(v)

Spec == Init /\ [][Next]_vars

-----------------------------------------------------------------------------
(* Properties *)

(* The bitmap and the frames given out are sets of frames, and every frame *)
(* reads as a table of entries.                                            *)
TypeOK ==
  /\ bitmap \subseteq Frames /\ held \subseteq Frames
  /\ memory \in [Frames -> [Indexes -> Entry]]
  /\ next_page_table_addr \in TABLE_BASE + 1 .. DIRECTORY
  /\ exposed \in BOOLEAN

Tables == {memory[DIRECTORY][i].address :
            i \in {j \in Indexes : Present(memory[DIRECTORY][j])}}

(* A frame somebody holds is marked, so that alloc_physical_page hands it  *)
(* out to no other, and is none of the kernel's first 6 MB, no page table  *)
(* in use and not the page directory, although create_page_table and       *)
(* paging_init take their frames without marking them.  That ends when the *)
(* allocator hands out a frame of the tables itself, which it does only to *)
(* a client that holds every frame between the marked ones and the tables: *)
(* freeing, reserving, and destroying tables meanwhile bring it no nearer. *)
KernelFramesSafe ==
  /\ [](~exposed =>
          /\ held \subseteq bitmap
          /\ held \cap (0 .. USED - 1 \cup Tables \cup {DIRECTORY}) = {})
  /\ [][~exposed /\ exposed' => USED .. TABLE_BASE - 1 \subseteq held]_vars

(* An allocation fails only when no frame is free: frame 0, whose number   *)
(* the search also answers when it finds nothing, is marked at start and   *)
(* never becomes free, whatever is allocated, given back or destroyed and  *)
(* even when a client has written over the tables and the directory.       *)
FailureIsFull == find_free_physical_page = 0 => FreeFrames = {}

Space == INSTANCE AddressSpace WITH
  Unmapped <- <<0, 0>>,
  First <- [v \in Pages |-> IF v < PAGE_TABLE_SIZE THEN <<v, 1>> ELSE <<0, 0>>],
  space <- [v \in Pages |-> get_physical_address(v, 1)]

Maps(v, p, flags) ==
  IF "PAGE_PRESENT" \in flags THEN Space!Map(v, <<p, 1>>) ELSE Space!Unmap(v)

(* Seen through get_physical_address, map_page and unmap_page do to the    *)
(* page they are given what they promise, and nothing to another page,     *)
(* whether or not a table has to be created and whatever its frame held    *)
(* before; and no other call, nor what a client writes, changes the        *)
(* translation of any page, until the allocator has handed out a frame of  *)
(* the tables.                                                             *)
IsAddressSpace ==
  /\ Space!Init
  /\ [][~exposed =>
          /\ \A v \in Pages, p \in MapFrames, flags \in MapFlags :
               map_page(v, p, flags) => Maps(v, p, flags)
          /\ \A v \in Pages : unmap_page(v) => Space!Unmap(v)
          /\ \/ \E v \in Pages, p \in MapFrames, flags \in MapFlags : map_page(v, p, flags)
             \/ \E v \in Pages : unmap_page(v)
             \/ Space!Keep]_vars
=============================================================================
