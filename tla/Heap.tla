-------------------------------- MODULE Heap --------------------------------
(***************************************************************************)
(* The kernel heap of memory.c: a doubly linked list of block headers laid *)
(* inside the heap itself.  kmalloc is first fit with splitting, kfree     *)
(* clears the type word in front of the pointer it is given and runs a     *)
(* coalescing pass over the whole list.                                    *)
(*                                                                         *)
(* Addresses and sizes are bytes.  `block' maps the address of every       *)
(* header on the list to its contents; bytes that are not part of such a   *)
(* header are payload, whose contents are not modelled.  Every loop of the *)
(* code (the search, the coalescing pass, the statistics pass) is one      *)
(* action per iteration, driven by `pc' and the loop cursor `cur'; a call  *)
(* runs to completion before the next one starts, because nothing that     *)
(* runs at interrupt level uses the heap.                                  *)
(***************************************************************************)
EXTENDS Integers, FiniteSets

CONSTANTS
  KERNEL_HEAP_START,  \* address of the first header
  KERNEL_HEAP_SIZE,   \* bytes of the heap
  TOTAL_MEMORY,       \* what memory_init reports as free before any call
  SIZE_MOD,           \* 2^32 in the code: size_t arithmetic wraps here
  Sizes,              \* the sizes callers ask for
  Nums                \* the element counts callers pass to kcalloc

HDR == 20             \* sizeof(memory_block_t): five 4-byte words
NULL == 0
MEMORY_FREE == 0
MEMORY_ALLOCATED == 1
HEAP_END == KERNEL_HEAP_START + KERNEL_HEAP_SIZE

ASSUME HeapAssumption ==
  /\ KERNEL_HEAP_START \in Nat /\ KERNEL_HEAP_START > HDR
  /\ KERNEL_HEAP_START % 4 = 0
  /\ KERNEL_HEAP_SIZE \in Nat /\ KERNEL_HEAP_SIZE >= HDR
  /\ KERNEL_HEAP_SIZE % 4 = 0
  /\ TOTAL_MEMORY \in Nat
  /\ SIZE_MOD \in Nat /\ SIZE_MOD > 0 /\ SIZE_MOD % 4 = 0
  /\ Sizes \subseteq 0 .. SIZE_MOD - 1
  /\ Nums \subseteq Nat

(* No product kcalloc forms is one of the top three values of size_t: such *)
(* a request is rounded up to 0, an empty block is granted, and the memset *)
(* after it overwrites all of memory, for which there is no state here.    *)
ASSUME KcallocAssumption ==
  \A num \in Nums, size \in Sizes : ((num * size) % SIZE_MOD) + 3 < SIZE_MOD

VARIABLES
  block,        \* header address -> memory_block_t, for the listed headers
  used_memory,  \* memory_stats.used_memory
  free_memory,  \* memory_stats.free_memory
  pc,           \* "idle", or the loop the current call is in
  cur,          \* `current' of that loop
  req,          \* kmalloc: the aligned size
  want,         \* kmalloc: the bytes its caller needs (before any wrap)
  old,          \* krealloc: the block to free once the new one exists
  client,       \* "careful": callers free only pointers they hold;
                \* "any": kfree gets any 4-aligned heap pointer
  owned         \* history: pointers callers hold -> bytes they asked for
                \* (kept only for careful callers)

vars == <<block, used_memory, free_memory, pc, cur, req, want, old, client, owned>>

memory_map == KERNEL_HEAP_START
Headers == DOMAIN block

BlockType ==
  [start_addr : Nat, size : Nat, type : {MEMORY_FREE, MEMORY_ALLOCATED},
   next : Nat, prev : Nat]

Init ==
  /\ block = [h \in {KERNEL_HEAP_START} |->
                [start_addr |-> h + HDR, size |-> KERNEL_HEAP_SIZE - HDR,
                 type |-> MEMORY_FREE, next |-> NULL, prev |-> NULL]]
  /\ used_memory = 0
  /\ free_memory = TOTAL_MEMORY
  /\ pc = "idle"
  /\ cur = NULL
  /\ req = 0
  /\ want = 0
  /\ old = NULL
  /\ client \in {"careful", "any"}
  /\ owned = [p \in {} |-> 0]

-----------------------------------------------------------------------------
(* Operators whose names begin with Bad are broken variants of the         *)
(* definition that follows them; no specification uses them.               *)

(* Rounds down: the + 3 is forgotten. *)
BadAlign(size) == size - (size % 4)

(* (size + 3) & ~3 in size_t arithmetic. *)
Align(size) ==
  LET s == (size + 3) % SIZE_MOD IN s - (s % 4)

(* The new header's own bytes are not taken off the rest. *)
BadSplit(h, size) ==
  LET n == block[h].start_addr + size
      rest == [start_addr |-> n + HDR, size |-> block[h].size - size,
               type |-> MEMORY_FREE, next |-> block[h].next, prev |-> h]
  IN  [x \in Headers \cup {n} |->
         IF x = n THEN rest
         ELSE IF x = h THEN [block[h] EXCEPT !.size = size, !.next = n,
                                             !.type = MEMORY_ALLOCATED]
         ELSE IF x = block[h].next THEN [block[x] EXCEPT !.prev = n]
         ELSE block[x]]

(* The list after split_block cut header h at `size' bytes. *)
split_block(h, size) ==
  LET n == block[h].start_addr + size
      rest == [start_addr |-> n + HDR, size |-> block[h].size - size - HDR,
               type |-> MEMORY_FREE, next |-> block[h].next, prev |-> h]
  IN  [x \in Headers \cup {n} |->
         IF x = n THEN rest
         ELSE IF x = h THEN [block[h] EXCEPT !.size = size, !.next = n,
                                             !.type = MEMORY_ALLOCATED]
         ELSE IF x = block[h].next THEN [block[x] EXCEPT !.prev = n]
         ELSE block[x]]

(* The list after header h absorbed its successor. *)
absorb(h) ==
  LET n == block[h].next
  IN  [x \in Headers \ {n} |->
         IF x = h THEN [block[h] EXCEPT !.size = @ + block[n].size + HDR,
                                        !.next = block[n].next]
         ELSE IF x = block[n].next THEN [block[x] EXCEPT !.prev = h]
         ELSE block[x]]

Goto(l, c) == pc' = l /\ cur' = c

(* The call returns; its locals are gone. *)
Return ==
  /\ Goto("idle", NULL)
  /\ req' = 0 /\ want' = 0 /\ old' = NULL

(* The totals are not reset. *)
BadStartStats ==
  /\ UNCHANGED <<used_memory, free_memory>>
  /\ Goto("stats", memory_map)

(* update_memory_stats starts: both totals are reset, the walk begins. *)
StartStats ==
  /\ used_memory' = 0
  /\ free_memory' = 0
  /\ Goto("stats", memory_map)

-----------------------------------------------------------------------------
(* kmalloc(size) for a caller that needs w bytes; f is freed afterwards.   *)
StartKmalloc(size, w, f) ==
  /\ IF size = 0
       THEN UNCHANGED <<pc, cur, req, want, old>>
       ELSE /\ req' = Align(size)
            /\ want' = w
            /\ old' = f
            /\ Goto("find", memory_map)
  /\ UNCHANGED <<block, used_memory, free_memory, client, owned>>

(* merge_adjacent_blocks starts; nothing of the request is needed any more. *)
StartMerge ==
  /\ Goto("merge", memory_map)
  /\ req' = 0 /\ want' = 0 /\ old' = NULL

(* The address of the word kfree(ptr) tests, and the header it lies in. *)
TypeWord(ptr) == ptr - HDR + 8
InHeader(h, a) == h <= a /\ a < h + HDR

(* The field of a header at byte offset d. *)
FieldAt(d) ==
  CASE d = 0 -> "start_addr" [] d = 4 -> "size" [] d = 8 -> "type"
    [] d = 12 -> "next" [] d = 16 -> "prev"

(* kfree(ptr): the word is cleared if it reads MEMORY_ALLOCATED, and only  *)
(* then is the list coalesced.  A word of no listed header is payload: it  *)
(* may read as MEMORY_ALLOCATED, and clearing it changes no header.        *)
StartKfree(ptr) ==
  LET a == TypeWord(ptr)
      hit == {h \in Headers : InHeader(h, a)}
      clear(h) == [block EXCEPT ![h] = [@ EXCEPT ![FieldAt(a - h)] = MEMORY_FREE]]
  IN  /\ \/ /\ hit = {}
            /\ UNCHANGED block
            /\ StartMerge
         \/ /\ hit = {}
            /\ UNCHANGED block
            /\ Return
         \/ \E h \in hit :
              /\ block[h][FieldAt(a - h)] = MEMORY_ALLOCATED
              /\ block' = clear(h)
              /\ StartMerge
         \/ \E h \in hit :
              /\ block[h][FieldAt(a - h)] # MEMORY_ALLOCATED
              /\ UNCHANGED block
              /\ Return
      /\ owned' = [p \in DOMAIN owned \ {ptr} |-> owned[p]]
      /\ UNCHANGED <<used_memory, free_memory, client>>

(* The pointers a caller may pass to kfree or krealloc. *)
Pointers ==
  IF client = "careful"
    THEN DOMAIN owned
    ELSE {p \in KERNEL_HEAP_START + HDR .. HEAP_END : p % 4 = 0}

Kmalloc(size) ==
  /\ pc = "idle"
  /\ StartKmalloc(size, size, NULL)

(* kcalloc(num, size): num * size wraps before kmalloc sees it; the memset *)
(* of that many bytes is within the block granted (KcallocAssumption) and  *)
(* changes no header.                                                      *)
Kcalloc(num, size) ==
  /\ pc = "idle"
  /\ StartKmalloc((num * size) % SIZE_MOD, num * size, NULL)

Kfree(ptr) ==
  /\ pc = "idle"
  /\ StartKfree(ptr)

(* sys_malloc and the shell's malloc turn a zero size away, sys_free a     *)
(* null pointer; the shell's free forwards whatever address was typed.     *)
sys_malloc(size) == size # 0 /\ Kmalloc(size)
shell_malloc(size) == size # 0 /\ Kmalloc(size)
sys_free(ptr) == ptr # NULL /\ Kfree(ptr)
shell_free(ptr) == Kfree(ptr)

(* krealloc(ptr, size) with ptr # NULL; krealloc(NULL, size) is kmalloc.   *)
(* It copies `size' bytes into the new block, so sizes that wrap, for      *)
(* which that copy leaves the block, are outside the model.                *)
Krealloc(ptr, size) ==
  /\ pc = "idle"
  /\ Align(size) >= size
  /\ IF size = 0 THEN StartKfree(ptr) ELSE StartKmalloc(size, size, ptr)

-----------------------------------------------------------------------------
Fits(h) == block[h].type = MEMORY_FREE /\ block[h].size >= req

(* Skips a block after one that does not fit. *)
BadFindAdvance ==
  /\ pc = "find" /\ cur # NULL /\ ~Fits(cur)
  /\ LET n == block[cur].next IN
     Goto("find", IF n = NULL THEN NULL ELSE block[n].next)
  /\ UNCHANGED <<block, used_memory, free_memory, req, want, old, client, owned>>

(* One iteration of find_free_block that goes on to the next block. *)
FindAdvance ==
  /\ pc = "find" /\ cur # NULL /\ ~Fits(cur)
  /\ Goto("find", block[cur].next)
  /\ UNCHANGED <<block, used_memory, free_memory, req, want, old, client, owned>>

(* find_free_block ran off the list: kmalloc returns NULL. *)
FindFail ==
  /\ pc = "find" /\ cur = NULL
  /\ Return
  /\ UNCHANGED <<block, used_memory, free_memory, client, owned>>

(* Forgets to mark a block that is not split. *)
BadFindTake ==
  /\ pc = "find" /\ cur # NULL /\ Fits(cur)
  /\ block' = IF block[cur].size > req + HDR THEN split_block(cur, req) ELSE block
  /\ LET ptr == block[cur].start_addr IN
     owned' = IF client = "careful"
                THEN [p \in DOMAIN owned \cup {ptr} |-> IF p = ptr THEN want ELSE owned[p]]
                ELSE owned
  /\ StartStats
  /\ req' = 0 /\ want' = 0
  /\ UNCHANGED <<old, client>>

(* The block is found: kmalloc splits it if the rest can hold a header and *)
(* at least one byte, marks it and starts the statistics pass.             *)
FindTake ==
  /\ pc = "find" /\ cur # NULL /\ Fits(cur)
  /\ block' = IF block[cur].size > req + HDR
                THEN split_block(cur, req)
                ELSE [block EXCEPT ![cur].type = MEMORY_ALLOCATED]
  /\ LET ptr == block[cur].start_addr IN
     owned' = IF client = "careful"
                THEN [p \in DOMAIN owned \cup {ptr} |-> IF p = ptr THEN want ELSE owned[p]]
                ELSE owned
  /\ StartStats
  /\ req' = 0 /\ want' = 0
  /\ UNCHANGED <<old, client>>

(* The header between the two payloads is forgotten. *)
BadMergeable(h) ==
  LET n == block[h].next IN
  /\ block[h].type = MEMORY_FREE
  /\ block[n].type = MEMORY_FREE
  /\ block[h].start_addr + block[h].size = block[n].start_addr

(* The successor of h lies right behind it and both are free. *)
Mergeable(h) ==
  LET n == block[h].next IN
  /\ block[h].type = MEMORY_FREE
  /\ block[n].type = MEMORY_FREE
  /\ block[h].start_addr + block[h].size + HDR = block[n].start_addr

(* The cursor moves only after a merge. *)
BadMergeStuck ==
  /\ pc = "merge" /\ block[cur].next # NULL
  /\ block' = IF Mergeable(cur) THEN absorb(cur) ELSE block
  /\ UNCHANGED <<pc, cur, used_memory, free_memory, req, want, old, client, owned>>

(* One iteration of merge_adjacent_blocks. *)
MergeStep ==
  /\ pc = "merge" /\ block[cur].next # NULL
  /\ IF Mergeable(cur)
       THEN block' = absorb(cur) /\ Goto("merge", cur)
       ELSE UNCHANGED block /\ Goto("merge", block[cur].next)
  /\ UNCHANGED <<used_memory, free_memory, req, want, old, client, owned>>

MergeEnd ==
  /\ pc = "merge" /\ block[cur].next = NULL
  /\ StartStats
  /\ UNCHANGED <<block, req, want, old, client, owned>>

(* One iteration of update_memory_stats. *)
StatsStep ==
  /\ pc = "stats" /\ cur # NULL
  /\ used_memory' = used_memory + (IF block[cur].type = MEMORY_ALLOCATED THEN block[cur].size ELSE 0)
  /\ free_memory' = free_memory + (IF block[cur].type = MEMORY_FREE THEN block[cur].size ELSE 0)
  /\ Goto("stats", block[cur].next)
  /\ UNCHANGED <<block, req, want, old, client, owned>>

(* The statistics are done: the call returns, or krealloc goes on to free  *)
(* the block it has just copied.                                           *)
StatsEnd ==
  /\ pc = "stats" /\ cur = NULL
  /\ IF old # NULL
       THEN StartKfree(old)
       ELSE /\ Return
            /\ UNCHANGED <<block, used_memory, free_memory, client, owned>>

-----------------------------------------------------------------------------
Call ==
  \/ \E size \in Sizes : Kmalloc(size) \/ sys_malloc(size) \/ shell_malloc(size)
  \/ \E num \in Nums, size \in Sizes : Kcalloc(num, size)
  \/ \E ptr \in Pointers : Kfree(ptr) \/ sys_free(ptr) \/ shell_free(ptr)
  \/ \E ptr \in Pointers, size \in Sizes : Krealloc(ptr, size)

Step ==
  \/ FindAdvance \/ FindFail \/ FindTake
  \/ MergeStep \/ MergeEnd
  \/ StatsStep \/ StatsEnd

Next == Call \/ Step

Spec == Init /\ [][Next]_vars

(* A call that has started keeps running: nothing preempts the kernel for  *)
(* good.                                                                   *)
FairSpec == Spec /\ WF_vars(Step)

-----------------------------------------------------------------------------
(* Properties *)

(* Types of the state of memory.c's heap. *)
TypeOK ==
  /\ Headers \subseteq Nat
  /\ \A h \in Headers : block[h] \in BlockType
  /\ used_memory \in Nat /\ free_memory \in Nat
  /\ pc \in {"idle", "find", "merge", "stats"}
  /\ cur \in Headers \cup {NULL}
  /\ req \in Nat /\ want \in Nat /\ old \in Nat
  /\ client \in {"careful", "any"}
  /\ DOMAIN owned \subseteq Nat /\ \A p \in DOMAIN owned : owned[p] \in Nat

End(b, h) == h + HDR + b[h].size

(* The blocks tile the heap: whatever sequence of kmalloc, kcalloc,        *)
(* krealloc and kfree calls was made, with whatever aligned pointers, the  *)
(* listed headers cover the heap end to end without gap or overlap, each   *)
(* block's next and prev are its neighbours in address order, and          *)
(* start_addr is the byte after the header.                                *)
HeapTiled ==
  /\ memory_map \in Headers
  /\ \A h \in Headers :
       /\ block[h].start_addr = h + HDR
       /\ memory_map <= h /\ End(block, h) <= HEAP_END
       /\ IF h = memory_map
            THEN block[h].prev = NULL
            ELSE block[h].prev \in Headers /\ End(block, block[h].prev) = h
       /\ IF End(block, h) = HEAP_END
            THEN block[h].next = NULL
            ELSE block[h].next = End(block, h) /\ End(block, h) \in Headers
       /\ \A g \in Headers : g < h => End(block, g) <= h

(* In the list b, header h and its successor are both free. *)
FreePair(b, h) ==
  /\ b[h].next # NULL
  /\ b[h].type = MEMORY_FREE
  /\ b[b[h].next].type = MEMORY_FREE

(* Whenever no kfree is in its coalescing pass, no two neighbouring blocks *)
(* are both free: split_block and merge_adjacent_blocks together leave no  *)
(* fragmentation beyond what live allocations cause.                       *)
Coalesced == pc # "merge" => \A h \in Headers : ~FreePair(block, h)

(* kmalloc gives up only if no free block of the heap is large enough.     *)
FailureIsExhaustion ==
  pc = "find" /\ cur = NULL => \A h \in Headers : ~Fits(h)

(* The payload bytes in blocks of type t. *)
Payload(t) ==
  {a \in memory_map .. HEAP_END - 1 :
     \E h \in Headers : block[h].type = t /\ h + HDR <= a /\ a < End(block, h)}
Bytes(t) == Cardinality(Payload(t))

(* Once a call has run update_memory_stats, the figures it left are the    *)
(* exact totals of the payload bytes whenever no call is running; before   *)
(* that they are what memory_init set.                                     *)
StatsExact ==
  pc = "idle" =>
    \/ used_memory = Bytes(MEMORY_ALLOCATED) /\ free_memory = Bytes(MEMORY_FREE)
    \/ Headers = {memory_map} /\ used_memory = 0 /\ free_memory = TOTAL_MEMORY

(* As long as callers free only what they hold, every pointer handed out   *)
(* is the payload of an allocated block of its own that holds the aligned  *)
(* request, so no two holders share a byte and none can reach a header.    *)
Isolation ==
  client = "careful" =>
    \A p \in DOMAIN owned :
      /\ p - HDR \in Headers
      /\ block[p - HDR].type = MEMORY_ALLOCATED
      /\ block[p - HDR].size >= Align(owned[p] % SIZE_MOD)

(* A pointer kmalloc or kcalloc returns has room for the bytes its caller  *)
(* asked for ("Allocated <size> bytes", as the shell's malloc reports it), *)
(* unless rounding the request up leaves the range of size_t.              *)
GrantCoversRequest ==
  client = "careful" =>
    \A p \in DOMAIN owned :
      owned[p] + 3 < SIZE_MOD => block[p - HDR].size >= owned[p]

(* Every call returns: the search, coalescing and statistics loops end.    *)
CallsReturn == (pc # "idle") ~> (pc = "idle")
=============================================================================
