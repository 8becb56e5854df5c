----------------------------- MODULE HeapProofs -----------------------------
(***************************************************************************)
(* Proofs about the kernel heap: its blocks always tile the heap, for      *)
(* every heap size, every request and every aligned pointer given to kfree.*)
(***************************************************************************)
EXTENDS Heap, FiniteSetTheorems, TLAPS

(* Headers and sizes are word aligned: what keeps the word kfree tests     *)
(* from being any header field but a type.                                 *)
Aligned ==
  /\ \A h \in Headers : h % 4 = 0 /\ block[h].size % 4 = 0
  /\ req % 4 = 0
  /\ old % 4 = 0
  /\ \A p \in DOMAIN owned : p % 4 = 0

Shape == TypeOK /\ HeapTiled /\ Aligned

(* What the loops have established up to their cursor: the search has seen *)
(* no block that fits, the coalescing pass leaves no free pair behind it.  *)
Loops ==
  /\ pc = "find" => \A h \in Headers : cur = NULL \/ h < cur => ~Fits(h)
  /\ pc = "merge" => cur \in Headers /\ \A h \in Headers : h < cur => ~FreePair(block, h)

IInv == Shape /\ Coalesced /\ Loops

(* Header m reads s bytes, type t, successor x, predecessor p in b. *)
Reads(b, m, s, t, x, p) ==
  /\ b[m].start_addr = m + HDR
  /\ b[m].size = s
  /\ b[m].type = t
  /\ b[m].next = x
  /\ b[m].prev = p

(* What split_block(h, sz) leaves in the headers. *)
LEMMA SplitFields ==
  ASSUME Shape, NEW h \in Headers, NEW sz \in Nat,
         block[h].size > sz + HDR, block' = split_block(h, sz),
         NEW n, n = h + HDR + sz
  PROVE  /\ Headers' = Headers \cup {n} /\ n \notin Headers
         /\ \A x \in Headers' : block'[x] \in BlockType
         /\ Reads(block', n, block[h].size - sz - HDR, MEMORY_FREE, block[h].next, h)
         /\ Reads(block', h, sz, MEMORY_ALLOCATED, n, block[h].prev)
         /\ \A x \in Headers \ {h} :
              Reads(block', x, block[x].size, block[x].type, block[x].next,
                    IF x = block[h].next THEN n ELSE block[x].prev)
<1>1. /\ block[h] \in BlockType /\ h \in Nat /\ block[h].start_addr = h + HDR
      /\ \A x \in Headers : x \in Nat /\ block[x] \in BlockType /\ block[x].start_addr = x + HDR
  BY DEF Shape, TypeOK, HeapTiled
<1>2. n \notin Headers
  <2>1. SUFFICES ASSUME n \in Headers PROVE FALSE
    OBVIOUS
  <2>2. h < n
    BY <1>1 DEF HDR
  <2>3. End(block, h) <= n
    BY <2>1, <2>2 DEF Shape, HeapTiled
  <2>4. QED
    BY <1>1, <2>3 DEF End, HDR, BlockType
<1>3. n = block[h].start_addr + sz /\ n \in Nat
  BY <1>1 DEF HDR
<1>4. block' = [x \in Headers \cup {n} |->
         IF x = n THEN [start_addr |-> n + HDR, size |-> block[h].size - sz - HDR,
               type |-> MEMORY_FREE, next |-> block[h].next, prev |-> h]
         ELSE IF x = h THEN [block[h] EXCEPT !.size = sz, !.next = n,
                                             !.type = MEMORY_ALLOCATED]
         ELSE IF x = block[h].next THEN [block[x] EXCEPT !.prev = n]
         ELSE block[x]]
  BY <1>3 DEF split_block
<1>5. Headers' = Headers \cup {n}
  BY <1>4 DEF Headers
<1>6. block'[n] = [start_addr |-> n + HDR, size |-> block[h].size - sz - HDR,
               type |-> MEMORY_FREE, next |-> block[h].next, prev |-> h]
  BY <1>4
<1>7. block'[h] = [block[h] EXCEPT !.size = sz, !.next = n, !.type = MEMORY_ALLOCATED]
  BY <1>4, <1>2
<1>8. \A x \in Headers \ {h} : block'[x] = IF x = block[h].next THEN [block[x] EXCEPT !.prev = n] ELSE block[x]
  BY <1>4, <1>2
<1>9. block'[n] \in BlockType /\ Reads(block', n, block[h].size - sz - HDR, MEMORY_FREE, block[h].next, h)
  BY <1>6, <1>1, <1>3 DEF BlockType, Reads, HDR, MEMORY_FREE, MEMORY_ALLOCATED
<1>10. block'[h] \in BlockType /\ Reads(block', h, sz, MEMORY_ALLOCATED, n, block[h].prev)
  BY <1>7, <1>1, <1>3 DEF BlockType, Reads, HDR, MEMORY_FREE, MEMORY_ALLOCATED
<1>11. ASSUME NEW x \in Headers \ {h}
       PROVE block'[x] \in BlockType /\ Reads(block', x, block[x].size, block[x].type, block[x].next,
                    IF x = block[h].next THEN n ELSE block[x].prev)
  <2>1. block[x] \in BlockType /\ block[x].start_addr = x + HDR /\ n \in Nat
    BY <1>1, <1>3, <1>11
  <2>2. CASE x = block[h].next
    <3>1. block'[x] = [block[x] EXCEPT !.prev = n]
      BY <1>8, <1>11, <2>2
    <3>2. QED
      BY <2>1, <2>2, <3>1 DEF BlockType, Reads
  <2>3. CASE x # block[h].next
    <3>1. block'[x] = block[x]
      BY <1>8, <1>11, <2>3
    <3>2. QED
      BY <2>1, <2>3, <3>1 DEF Reads
  <2>4. QED
    BY <2>2, <2>3
<1>12. QED
  BY <1>2, <1>5, <1>9, <1>10, <1>11

(* First consequences of the shape. *)
LEMMA Basics ==
  ASSUME Shape
  PROVE  /\ memory_map \in Nat /\ memory_map > HDR /\ HEAP_END \in Nat
         /\ memory_map \in Headers
         /\ \A x \in Headers :
              /\ x \in Nat /\ x > HDR /\ x % 4 = 0
              /\ block[x] \in BlockType
              /\ block[x].size \in Nat /\ block[x].size % 4 = 0
              /\ End(block, x) \in Nat /\ x + HDR <= End(block, x) /\ End(block, x) <= HEAP_END
              /\ block[x].next # NULL => block[x].next = End(block, x) /\ End(block, x) \in Headers
              /\ block[x].next = NULL => End(block, x) = HEAP_END
              /\ x # memory_map => block[x].prev \in Headers /\ block[x].prev < x
         /\ \A x, y \in Headers : End(block, x) = End(block, y) => x = y
<1>1. memory_map \in Nat /\ memory_map > HDR /\ HEAP_END \in Nat /\ memory_map \in Headers
  BY HeapAssumption DEF memory_map, HEAP_END, HDR, Shape, HeapTiled
<1>2. ASSUME NEW x \in Headers
      PROVE  /\ x \in Nat /\ x > HDR /\ x % 4 = 0
             /\ block[x] \in BlockType
             /\ block[x].size \in Nat /\ block[x].size % 4 = 0
             /\ End(block, x) \in Nat /\ x + HDR <= End(block, x) /\ End(block, x) <= HEAP_END
  BY <1>1 DEF Shape, HeapTiled, TypeOK, Aligned, BlockType, End, HDR
<1>3. ASSUME NEW x \in Headers
      PROVE  /\ block[x].next # NULL => block[x].next = End(block, x) /\ End(block, x) \in Headers
             /\ block[x].next = NULL => End(block, x) = HEAP_END
             /\ x # memory_map => block[x].prev \in Headers /\ block[x].prev < x
  BY <1>2 DEF Shape, HeapTiled, NULL, HDR
<1>4. ASSUME NEW x \in Headers, NEW y \in Headers, End(block, x) = End(block, y)
      PROVE  x = y
  BY <1>2, <1>4 DEF Shape, HeapTiled, HDR
<1>5. QED
  BY <1>1, <1>2, <1>3, <1>4

(* split_block keeps the tiling. *)
LEMMA SplitTiled ==
  ASSUME Shape, NEW h \in Headers, NEW sz \in Nat, sz % 4 = 0,
         block[h].size > sz + HDR, block' = split_block(h, sz)
  PROVE  /\ HeapTiled'
         /\ Headers' \subseteq Nat
         /\ Headers \subseteq Headers'
         /\ \A x \in Headers' : block'[x] \in BlockType /\ x % 4 = 0 /\ block'[x].size % 4 = 0
<1> DEFINE n == h + HDR + sz
<1>1. /\ Headers' = Headers \cup {n} /\ n \notin Headers
      /\ \A x \in Headers' : block'[x] \in BlockType
      /\ Reads(block', n, block[h].size - sz - HDR, MEMORY_FREE, block[h].next, h)
      /\ Reads(block', h, sz, MEMORY_ALLOCATED, n, block[h].prev)
      /\ \A x \in Headers \ {h} :
           Reads(block', x, block[x].size, block[x].type, block[x].next,
                 IF x = block[h].next THEN n ELSE block[x].prev)
  BY SplitFields
<1>2. \A x \in Headers : x \in Nat /\ block[x].size \in Nat /\ x % 4 = 0 /\ block[x].size % 4 = 0
  BY Basics
<1>3. n \in Nat /\ n % 4 = 0 /\ (block[h].size - sz - HDR) % 4 = 0 /\ h < n /\ n < End(block, h)
      /\ block[h].size - sz - HDR \in Nat
  BY <1>2 DEF HDR, End
<1>4. /\ End(block', n) = End(block, h) /\ End(block', h) = n
      /\ \A x \in Headers \ {h} : End(block', x) = End(block, x)
  BY <1>1, <1>2 DEF End, Reads, HDR
<1> HIDE DEF n
<1>5. \A x \in Headers' : x \in Nat /\ x % 4 = 0 /\ block'[x].size % 4 = 0
  BY <1>1, <1>2, <1>3 DEF Reads
<1>6. ASSUME NEW x \in Headers'
      PROVE /\ block'[x].start_addr = x + HDR
            /\ memory_map <= x /\ End(block', x) <= HEAP_END
  <2>1. \A y \in Headers : memory_map <= y
    BY DEF Shape, HeapTiled
  <2>a. /\ memory_map \in Nat /\ memory_map <= h /\ HEAP_END \in Nat
        /\ h \in Nat /\ End(block, h) \in Nat /\ End(block, h) <= HEAP_END
    BY <2>1, Basics
  <2>2. CASE x = n
    <3>1. block'[x].start_addr = x + HDR
      BY <2>2, <1>1 DEF Reads
    <3>2. memory_map <= x /\ End(block', x) <= HEAP_END
      BY <2>2, <2>a, <1>3, <1>4
    <3>3. QED
      BY <3>1, <3>2
  <2>3. CASE x = h
    <3>1. block'[x].start_addr = x + HDR
      BY <2>3, <1>1 DEF Reads
    <3>2. memory_map <= x /\ End(block', x) <= HEAP_END
      BY <2>3, <2>a, <1>3, <1>4
    <3>3. QED
      BY <3>1, <3>2
  <2>4. CASE x # n /\ x # h
    BY <2>1, <2>4, Basics, <1>1, <1>4 DEF Reads
  <2>5. QED
    BY <2>2, <2>3, <2>4
<1>7. ASSUME NEW x \in Headers'
      PROVE  IF x = memory_map
             THEN block'[x].prev = NULL
             ELSE block'[x].prev \in Headers' /\ End(block', block'[x].prev) = x
  <2>1. CASE x = n
    BY <2>1, <1>1, <1>4, Basics DEF Reads
  <2>2. CASE x = h
    <3>1. CASE h = memory_map
      BY <2>2, <3>1, <1>1 DEF Reads, Shape, HeapTiled
    <3>2. CASE h # memory_map
      <4>1. block[h].prev \in Headers /\ block[h].prev # h /\ End(block, block[h].prev) = h
        BY <3>2, Basics DEF Shape, HeapTiled
      <4>2. QED
        BY <4>1, <3>2, <2>2, <1>1, <1>4 DEF Reads
    <3>3. QED
      BY <3>1, <3>2
  <2>3. CASE x # n /\ x = block[h].next /\ x # h
    <3>1. x = End(block, h) /\ x # memory_map
      BY <2>3, <1>1, Basics DEF NULL, HDR, Shape, HeapTiled
    <3>2. QED
      BY <2>3, <3>1, <1>1, <1>4 DEF Reads
  <2>4. CASE x # n /\ x # block[h].next /\ x # h
    <3>1. x \in Headers \ {h} /\ block'[x].prev = block[x].prev
      BY <2>4, <1>1 DEF Reads
    <3>2. CASE x # memory_map
      <4>1. block[x].prev \in Headers /\ End(block, block[x].prev) = x
        BY <3>1, <3>2 DEF Shape, HeapTiled
      <4>2. x # HEAP_END
        BY <3>1, Basics DEF HDR
      <4>3. block[x].prev # h
        BY <2>4, <4>1, <4>2 DEF Shape, HeapTiled
      <4>4. QED
        BY <3>1, <3>2, <4>1, <4>3, <1>1, <1>4
    <3>3. QED
      BY <3>1, <3>2 DEF Shape, HeapTiled
  <2>5. QED
    BY <2>1, <2>2, <2>3, <2>4, Basics DEF HDR
<1>8. ASSUME NEW x \in Headers'
      PROVE  IF End(block', x) = HEAP_END
             THEN block'[x].next = NULL
             ELSE block'[x].next = End(block', x) /\ End(block', x) \in Headers'
  <2>1. CASE x = n
    BY <2>1, <1>1, <1>4 DEF Shape, HeapTiled, Reads
  <2>2. CASE x = h
    <3>1. n # HEAP_END
      BY <1>3, Basics
    <3>2. QED
      BY <2>2, <3>1, <1>1, <1>4 DEF Reads
  <2>3. CASE x # n /\ x # h
    BY <2>3, <1>1, <1>4 DEF Reads, Shape, HeapTiled
  <2>4. QED
    BY <2>1, <2>2, <2>3
<1>9. ASSUME NEW x \in Headers', NEW g \in Headers', g < x
      PROVE  End(block', g) <= x
  <2>1. \A a, b \in Headers : a < b => End(block, a) <= b
    BY DEF Shape, HeapTiled
  <2>2. \A a \in Headers : End(block, a) \in Nat /\ a < End(block, a)
    BY Basics DEF HDR
  <2>3. QED
    BY <2>1, <2>2, <1>1, <1>2, <1>3, <1>4, <1>9
<1>10. memory_map \in Headers'
  BY <1>1, Basics
<1>11. HeapTiled'
  BY <1>6, <1>7, <1>8, <1>9, <1>10 DEF HeapTiled, memory_map, HEAP_END
<1>12. QED
  BY <1>1, <1>5, <1>11

(* What setting the type word of header h to t leaves. *)
LEMMA TypeFields ==
  ASSUME Shape, NEW h \in Headers, NEW t \in {MEMORY_FREE, MEMORY_ALLOCATED},
         block' = [block EXCEPT ![h].type = t]
  PROVE  /\ Headers' = Headers
         /\ \A x \in Headers :
              /\ block'[x] \in BlockType
              /\ Reads(block', x, block[x].size, IF x = h THEN t ELSE block[x].type,
                       block[x].next, block[x].prev)
<1>1. \A x \in Headers : block[x] \in BlockType /\ block[x].start_addr = x + HDR
  BY DEF Shape, TypeOK, HeapTiled
<1>2. /\ Headers' = Headers
      /\ block'[h] = [block[h] EXCEPT !.type = t]
      /\ \A x \in Headers \ {h} : block'[x] = block[x]
  BY DEF Headers
<1>3. QED
  BY <1>1, <1>2 DEF BlockType, Reads

(* Changing a type keeps the tiling. *)
LEMMA TypeTiled ==
  ASSUME Shape, NEW h \in Headers, NEW t \in {MEMORY_FREE, MEMORY_ALLOCATED},
         block' = [block EXCEPT ![h].type = t]
  PROVE  /\ HeapTiled'
         /\ Headers' = Headers
         /\ \A x \in Headers' : block'[x] \in BlockType /\ x % 4 = 0 /\ block'[x].size % 4 = 0
<1>1. /\ Headers' = Headers
      /\ \A x \in Headers :
           /\ block'[x] \in BlockType
           /\ block'[x].start_addr = x + HDR
           /\ block'[x].size = block[x].size
           /\ block'[x].next = block[x].next
           /\ block'[x].prev = block[x].prev
  BY TypeFields DEF Reads
<1>2. \A x \in Headers : End(block', x) = End(block, x)
  BY <1>1 DEF End
<1>3. ASSUME NEW x \in Headers
      PROVE  /\ block'[x].start_addr = x + HDR
             /\ memory_map <= x /\ End(block', x) <= HEAP_END
             /\ IF x = memory_map
                  THEN block'[x].prev = NULL
                  ELSE block'[x].prev \in Headers /\ End(block', block'[x].prev) = x
             /\ IF End(block', x) = HEAP_END
                  THEN block'[x].next = NULL
                  ELSE block'[x].next = End(block', x) /\ End(block', x) \in Headers
             /\ \A g \in Headers : g < x => End(block', g) <= x
  <2>1. /\ block[x].start_addr = x + HDR
        /\ memory_map <= x /\ End(block, x) <= HEAP_END
        /\ IF x = memory_map
             THEN block[x].prev = NULL
             ELSE block[x].prev \in Headers /\ End(block, block[x].prev) = x
        /\ IF End(block, x) = HEAP_END
             THEN block[x].next = NULL
             ELSE block[x].next = End(block, x) /\ End(block, x) \in Headers
        /\ \A g \in Headers : g < x => End(block, g) <= x
    BY Zenon DEF Shape, HeapTiled
  <2>2. QED
    BY <2>1, <1>1, <1>2
<1>4. ASSUME NEW x \in Headers'
      PROVE  /\ block'[x].start_addr = x + HDR
             /\ memory_map <= x /\ End(block', x) <= HEAP_END
             /\ IF x = memory_map
                  THEN block'[x].prev = NULL
                  ELSE block'[x].prev \in Headers' /\ End(block', block'[x].prev) = x
             /\ IF End(block', x) = HEAP_END
                  THEN block'[x].next = NULL
                  ELSE block'[x].next = End(block', x) /\ End(block', x) \in Headers'
             /\ \A g \in Headers' : g < x => End(block', g) <= x
  BY ZenonT(40), <1>1, <1>3
<1>5. memory_map \in Headers'
  BY <1>1, Basics
<1>6. HeapTiled'
  BY <1>4, <1>5 DEF HeapTiled, memory_map, HEAP_END
<1>7. QED
  BY <1>1, <1>6, Basics

(* What absorbing its successor leaves of header h. *)
LEMMA AbsorbFields ==
  ASSUME Shape, NEW h \in Headers, block[h].next # NULL, block' = absorb(h),
         NEW n, n = block[h].next
  PROVE  /\ n \in Headers /\ n # h /\ n # memory_map /\ n = End(block, h)
         /\ Headers' = Headers \ {n}
         /\ \A x \in Headers' : block'[x] \in BlockType
         /\ Reads(block', h, block[h].size + block[n].size + HDR, block[h].type,
                  block[n].next, block[h].prev)
         /\ \A x \in Headers \ {h, n} :
              Reads(block', x, block[x].size, block[x].type, block[x].next,
                    IF x = block[n].next THEN h ELSE block[x].prev)
<1>1. n \in Headers /\ n = End(block, h)
  BY Basics
<1>2. n # h /\ n # memory_map /\ h # block[n].next
  BY <1>1, Basics DEF HDR, NULL, Shape, HeapTiled
<1>3. \A x \in Headers : x \in Nat /\ block[x] \in BlockType /\ block[x].start_addr = x + HDR
  BY Basics DEF Shape, HeapTiled
<1>4. /\ Headers' = Headers \ {n}
      /\ block'[h] = [block[h] EXCEPT !.size = @ + block[n].size + HDR, !.next = block[n].next]
      /\ \A x \in Headers \ {h, n} :
           block'[x] = IF x = block[n].next THEN [block[x] EXCEPT !.prev = h] ELSE block[x]
  BY <1>2 DEF absorb, Headers
<1>5. block'[h] \in BlockType
      /\ Reads(block', h, block[h].size + block[n].size + HDR, block[h].type,
               block[n].next, block[h].prev)
  <2> DEFINE s == block[h].size + block[n].size + HDR
  <2>1. block[h] \in BlockType /\ block[n] \in BlockType /\ block[h].start_addr = h + HDR
    BY <1>1, <1>3
  <2>2. s \in Nat /\ block[n].next \in Nat
    BY <2>1 DEF BlockType, HDR
  <2>3. block'[h] = [block[h] EXCEPT !.size = s, !.next = block[n].next]
    BY <1>4
  <2> HIDE DEF s
  <2>4. block'[h] \in BlockType
        /\ Reads(block', h, s, block[h].type, block[n].next, block[h].prev)
    BY <2>1, <2>2, <2>3 DEF BlockType, Reads
  <2>5. QED
    BY <2>4 DEF s
<1>6. ASSUME NEW x \in Headers \ {h, n}
      PROVE  block'[x] \in BlockType
             /\ Reads(block', x, block[x].size, block[x].type, block[x].next,
                      IF x = block[n].next THEN h ELSE block[x].prev)
  <2>1. block[x] \in BlockType /\ block[x].start_addr = x + HDR /\ h \in Nat
    BY <1>3, <1>6
  <2>2. CASE x = block[n].next
    <3>1. block'[x] = [block[x] EXCEPT !.prev = h]
      BY <2>2, <1>4, <1>6
    <3>2. QED
      BY <2>1, <2>2, <3>1 DEF BlockType, Reads
  <2>3. CASE x # block[n].next
    <3>1. block'[x] = block[x]
      BY <2>3, <1>4, <1>6
    <3>2. QED
      BY <2>1, <2>3, <3>1 DEF Reads
  <2>4. QED
    BY <2>2, <2>3
<1>7. QED
  BY <1>1, <1>2, <1>4, <1>5, <1>6

(* Absorbing a successor keeps the tiling. *)
LEMMA AbsorbTiled ==
  ASSUME Shape, NEW h \in Headers, block[h].next # NULL, block' = absorb(h)
  PROVE  /\ HeapTiled'
         /\ Headers' \subseteq Headers /\ h \in Headers'
         /\ \A x \in Headers' : block'[x] \in BlockType /\ x % 4 = 0 /\ block'[x].size % 4 = 0
<1> DEFINE n == block[h].next
<1>1. /\ n \in Headers /\ n # h /\ n # memory_map /\ n = End(block, h)
      /\ Headers' = Headers \ {n}
      /\ \A x \in Headers' : block'[x] \in BlockType
      /\ Reads(block', h, block[h].size + block[n].size + HDR, block[h].type,
               block[n].next, block[h].prev)
      /\ \A x \in Headers \ {h, n} :
           Reads(block', x, block[x].size, block[x].type, block[x].next,
                 IF x = block[n].next THEN h ELSE block[x].prev)
  BY AbsorbFields
<1> HIDE DEF n
<1>2. /\ End(block', h) = End(block, n)
      /\ \A x \in Headers \ {h, n} : End(block', x) = End(block, x)
  BY <1>1, Basics DEF End, Reads, HDR
<1>3. ASSUME NEW x \in Headers'
      PROVE  x % 4 = 0 /\ block'[x].size % 4 = 0
  <2>1. /\ block[h].size \in Nat /\ block[h].size % 4 = 0
        /\ block[n].size \in Nat /\ block[n].size % 4 = 0
    BY <1>1, Basics
  <2>2. (block[h].size + block[n].size + HDR) % 4 = 0
    BY <2>1 DEF HDR
  <2>3. QED
    BY <2>2, <1>1, Basics DEF Reads
<1>4. ASSUME NEW x \in Headers'
      PROVE  block'[x].start_addr = x + HDR /\ memory_map <= x /\ End(block', x) <= HEAP_END
  BY <1>1, <1>2 DEF Reads, Shape, HeapTiled
<1>5. ASSUME NEW x \in Headers'
      PROVE  IF x = memory_map
             THEN block'[x].prev = NULL
             ELSE block'[x].prev \in Headers' /\ End(block', block'[x].prev) = x
  <2>1. CASE x = h
    <3>1. CASE h = memory_map
      BY <2>1, <3>1, <1>1 DEF Reads, Shape, HeapTiled
    <3>2. CASE h # memory_map
      <4>1. block[h].prev \in Headers /\ block[h].prev < h /\ End(block, block[h].prev) = h
        BY <3>2, Basics DEF Shape, HeapTiled
      <4>2. block[h].prev # h /\ block[h].prev # n
        BY <4>1, <1>1, Basics DEF HDR
      <4>3. QED
        BY <4>1, <4>2, <3>2, <2>1, <1>1, <1>2 DEF Reads
    <3>3. QED
      BY <3>1, <3>2
  <2>2. CASE x # h /\ x = block[n].next
    <3>1. x = End(block, n) /\ x # memory_map
      BY <2>2, <1>1, Basics DEF NULL, HDR, Shape, HeapTiled
    <3>2. QED
      BY <2>2, <3>1, <1>1, <1>2 DEF Reads
  <2>3. CASE x # h /\ x # block[n].next
    <3>1. x \in Headers \ {h, n} /\ block'[x].prev = block[x].prev
      BY <2>3, <1>1 DEF Reads
    <3>2. CASE x # memory_map
      <4>1. block[x].prev \in Headers /\ End(block, block[x].prev) = x
        BY <3>1, <3>2 DEF Shape, HeapTiled
      <4>2. x # HEAP_END
        BY <3>1, Basics DEF HDR
      <4>3. block[x].prev # h /\ block[x].prev # n
        BY <2>3, <3>1, <4>1, <4>2, <1>1 DEF Shape, HeapTiled
      <4>4. QED
        BY <3>1, <3>2, <4>1, <4>3, <1>1, <1>2
    <3>3. QED
      BY <3>1, <3>2 DEF Shape, HeapTiled
  <2>4. QED
    BY <2>1, <2>2, <2>3
<1>6. ASSUME NEW x \in Headers'
      PROVE  IF End(block', x) = HEAP_END
             THEN block'[x].next = NULL
             ELSE block'[x].next = End(block', x) /\ End(block', x) \in Headers'
  <2>1. CASE x = h
    <3>1. End(block, n) # n
      BY <1>1, Basics DEF HDR
    <3>2. QED
      BY <2>1, <3>1, <1>1, <1>2 DEF Reads, Shape, HeapTiled
  <2>2. CASE x # h
    <3>1. End(block, x) # n
      BY <2>2, <1>1, Basics
    <3>2. QED
      BY <2>2, <3>1, <1>1, <1>2 DEF Reads, Shape, HeapTiled
  <2>3. QED
    BY <2>1, <2>2
<1>7. ASSUME NEW x \in Headers', NEW g \in Headers', g < x
      PROVE  End(block', g) <= x
  <2>1. CASE g = h
    <3>1. n < x
      <4>1. n <= x
        BY <2>1, <1>7, <1>1 DEF Shape, HeapTiled
      <4>2. n \in Nat /\ x \in Nat /\ x # n
        BY <1>1, Basics
      <4>3. QED
        BY <4>1, <4>2
    <3>2. QED
      BY <2>1, <3>1, <1>1, <1>2 DEF Shape, HeapTiled
  <2>2. CASE g # h
    BY <2>2, <1>7, <1>1, <1>2 DEF Shape, HeapTiled
  <2>3. QED
    BY <2>1, <2>2
<1>8. HeapTiled'
  BY <1>1, <1>4, <1>5, <1>6, <1>7, Basics DEF HeapTiled, memory_map, HEAP_END
<1>9. QED
  BY <1>1, <1>3, <1>8

(* The only word equal to MEMORY_ALLOCATED that kfree(ptr) can meet inside *)
(* a listed header, for an aligned ptr, is that header's type.             *)
LEMMA KfreeHitsType ==
  ASSUME Shape, NEW h \in Headers, NEW ptr \in Nat, ptr % 4 = 0,
         InHeader(h, TypeWord(ptr)),
         block[h][FieldAt(TypeWord(ptr) - h)] = MEMORY_ALLOCATED
  PROVE  TypeWord(ptr) = h + 8 /\ FieldAt(TypeWord(ptr) - h) = "type"
<1> DEFINE d == TypeWord(ptr) - h
<1>1. d \in {0, 4, 8, 12, 16}
  <2>1. h \in Nat /\ h % 4 = 0
    BY Basics
  <2>2. QED
    BY <2>1 DEF InHeader, TypeWord, HDR
<1>2. block[h].start_addr # 1 /\ block[h].size # 1
  BY Basics DEF Shape, HeapTiled, HDR
<1>3. block[h].next # 1
  BY Basics DEF HDR, NULL
<1>4. block[h].prev # 1
  BY Basics DEF Shape, HeapTiled, HDR, NULL
<1>5. d \in {0, 4, 12, 16} => FALSE
  <2>1. d = 0 => FieldAt(d) = "start_addr"
    BY DEF FieldAt
  <2>2. d = 4 => FieldAt(d) = "size"
    BY DEF FieldAt
  <2>3. d = 12 => FieldAt(d) = "next"
    BY DEF FieldAt
  <2>4. d = 16 => FieldAt(d) = "prev"
    BY DEF FieldAt
  <2>5. QED
    BY <2>1, <2>2, <2>3, <2>4, <1>2, <1>3, <1>4 DEF MEMORY_ALLOCATED
<1>6. d = 8
  BY <1>1, <1>5
<1>7. QED
  BY <1>6, Basics DEF FieldAt, TypeWord, HDR

(* Rounding a request up, wrapped or not, gives a word-aligned size. *)
LEMMA AlignWord ==
  ASSUME NEW size \in Nat
  PROVE  Align(size) \in Nat /\ Align(size) % 4 = 0
<1> DEFINE s == (size + 3) % SIZE_MOD
<1>1. s \in Nat
  BY HeapAssumption
<1> HIDE DEF s
<1>2. s - (s % 4) \in Nat /\ (s - (s % 4)) % 4 = 0
  BY <1>1
<1>3. QED
  BY <1>2 DEF s, Align

(* A kmalloc that starts keeps the invariant. *)
LEMMA StartKmallocInv ==
  ASSUME IInv, pc = "idle", NEW size \in Nat, NEW w \in Nat,
         NEW f \in Nat, f % 4 = 0, StartKmalloc(size, w, f)
  PROVE  IInv'
<1>1. CASE size = 0
  BY <1>1 DEF StartKmalloc, IInv, Shape, TypeOK, HeapTiled, Aligned, Coalesced, Loops,
     Headers, FreePair, Fits, End
<1>2. CASE size # 0
  <2>1. /\ req' = Align(size) /\ want' = w /\ old' = f /\ pc' = "find" /\ cur' = memory_map
        /\ UNCHANGED <<block, used_memory, free_memory, client, owned>>
    BY <1>2 DEF StartKmalloc, Goto
  <2>2. Headers' = Headers
    BY <2>1 DEF Headers
  <2>3. TypeOK'
    BY <2>1, <2>2, AlignWord, Basics DEF IInv, Shape, TypeOK, memory_map
  <2>4. HeapTiled'
    BY <2>1, <2>2 DEF IInv, Shape, HeapTiled, memory_map, HEAP_END
  <2>5. Aligned'
    BY <2>1, <2>2, AlignWord DEF IInv, Shape, Aligned
  <2>6. Coalesced'
    BY <2>1, <2>2 DEF IInv, Coalesced, FreePair
  <2>7. Loops'
    <3>1. \A h \in Headers : ~(h < memory_map) /\ memory_map # NULL
      BY Basics DEF IInv, Shape, HeapTiled, NULL, HDR
    <3>2. QED
      BY <2>1, <2>2, <3>1 DEF Loops, memory_map
  <2>8. QED
    BY <2>3, <2>4, <2>5, <2>6, <2>7 DEF IInv, Shape
<1>3. QED
  BY <1>1, <1>2

(* A kfree that starts keeps the invariant, whatever aligned pointer it    *)
(* was given.                                                              *)
LEMMA StartKfreeInv ==
  ASSUME IInv, pc # "merge", NEW ptr \in Nat, ptr % 4 = 0, StartKfree(ptr)
  PROVE  IInv'
<1> DEFINE a == TypeWord(ptr)
<1>1. /\ old' = NULL /\ req' = 0 /\ want' = 0
      /\ owned' = [p \in DOMAIN owned \ {ptr} |-> owned[p]]
      /\ UNCHANGED <<used_memory, free_memory>>
      /\ \/ pc' = "merge" /\ cur' = memory_map
         \/ pc' = "idle" /\ cur' = NULL /\ block' = block
      /\ client' = client
  BY DEF StartKfree, StartMerge, Return, Goto
<1>2. \/ block' = block
      \/ \E h \in Headers : block' = [block EXCEPT ![h].type = MEMORY_FREE]
  <2>1. SUFFICES ASSUME NEW h \in Headers, InHeader(h, a),
                        block[h][FieldAt(a - h)] = MEMORY_ALLOCATED,
                        block' = [block EXCEPT ![h] = [@ EXCEPT ![FieldAt(a - h)] = MEMORY_FREE]]
                 PROVE  block' = [block EXCEPT ![h].type = MEMORY_FREE]
    BY DEF StartKfree
  <2>2. FieldAt(a - h) = "type"
    BY <2>1, KfreeHitsType DEF IInv
  <2>3. QED
    BY <2>1, <2>2
<1>3. /\ HeapTiled' /\ Headers' = Headers
      /\ \A x \in Headers' : block'[x] \in BlockType /\ x % 4 = 0 /\ block'[x].size % 4 = 0
  <2>1. CASE block' = block
    <3>1. Headers' = Headers
      BY <2>1 DEF Headers
    <3>2. HeapTiled'
      BY <2>1, <3>1 DEF IInv, Shape, HeapTiled, memory_map, HEAP_END
    <3>3. QED
      BY <2>1, <3>1, <3>2, Basics DEF IInv
  <2>2. CASE \E h \in Headers : block' = [block EXCEPT ![h].type = MEMORY_FREE]
    BY <2>2, TypeTiled DEF IInv
  <2>3. QED
    BY <1>2, <2>1, <2>2
<1>4. TypeOK'
  BY <1>1, <1>3, Basics DEF IInv, Shape, TypeOK, NULL, memory_map
<1>5. Aligned'
  BY <1>1, <1>3 DEF IInv, Shape, Aligned, NULL
<1>6. Coalesced'
  BY <1>1, <1>3 DEF IInv, Coalesced, FreePair
<1>7. Loops'
  <2>1. \A h \in Headers : ~(h < memory_map)
    BY Basics DEF IInv, Shape, HeapTiled
  <2>2. QED
    BY <1>1, <1>3, <2>1, Basics DEF Loops, IInv, memory_map
<1>8. QED
  BY <1>3, <1>4, <1>5, <1>6, <1>7 DEF IInv, Shape

(* A step that leaves the list alone keeps its tiling. *)
LEMMA SameList ==
  ASSUME IInv, block' = block
  PROVE  /\ HeapTiled' /\ Headers' = Headers
         /\ \A h \in Headers : FreePair(block', h) = FreePair(block, h)
<1>1. Headers' = Headers
  BY DEF Headers
<1>2. HeapTiled'
  BY <1>1 DEF IInv, Shape, HeapTiled, memory_map, HEAP_END
<1>3. QED
  BY <1>1, <1>2 DEF FreePair

(* No header lies strictly between a header and its successor, nor after   *)
(* the last one.                                                           *)
LEMMA NothingBetween ==
  ASSUME Shape, NEW g \in Headers, NEW h \in Headers
  PROVE  /\ block[g].next # NULL /\ h < block[g].next => h < g \/ h = g
         /\ block[g].next = NULL => h < g \/ h = g
<1>1. g \in Nat /\ h \in Nat /\ End(block, g) \in Nat /\ h + HDR <= End(block, h) /\ End(block, h) <= HEAP_END
      /\ HEAP_END \in Nat /\ End(block, h) \in Nat
  BY Basics
<1>2. g < h => End(block, g) <= h
  BY DEF Shape, HeapTiled
<1>3. QED
  BY <1>1, <1>2, Basics DEF HDR

LEMMA FindAdvanceInv == IInv /\ FindAdvance => IInv'
<1> SUFFICES ASSUME IInv, FindAdvance PROVE IInv'
  OBVIOUS
<1>1. /\ pc = "find" /\ cur \in Headers /\ ~Fits(cur) /\ pc' = "find" /\ cur' = block[cur].next
      /\ UNCHANGED <<block, used_memory, free_memory, req, want, old, client, owned>>
  BY DEF FindAdvance, Goto, IInv, Shape, TypeOK
<1>2. /\ HeapTiled' /\ Headers' = Headers
      /\ \A h \in Headers : FreePair(block', h) = FreePair(block, h)
  BY <1>1, SameList
<1>3. \A h \in Headers : Fits(h)' = Fits(h)
  BY <1>1 DEF Fits
<1>4. TypeOK' /\ Aligned'
  BY <1>1, <1>2, Basics DEF IInv, Shape, TypeOK, Aligned
<1>5. Coalesced'
  BY <1>1, <1>2 DEF IInv, Coalesced
<1>6. Loops'
  <2>1. SUFFICES ASSUME NEW h \in Headers, cur' = NULL \/ h < cur' PROVE ~Fits(h)
    BY <1>1, <1>2, <1>3 DEF Loops
  <2>2. h < cur \/ h = cur
    BY <2>1, <1>1, NothingBetween DEF IInv
  <2>3. QED
    BY <2>2, <1>1 DEF IInv, Loops
<1>7. QED
  BY <1>2, <1>4, <1>5, <1>6 DEF IInv, Shape

LEMMA FindTakeInv == IInv /\ FindTake => IInv'
<1> SUFFICES ASSUME IInv, FindTake PROVE IInv'
  OBVIOUS
<1>1. /\ pc = "find" /\ cur \in Headers /\ block[cur].type = MEMORY_FREE /\ block[cur].size >= req
      /\ pc' = "stats" /\ cur' = memory_map /\ used_memory' = 0 /\ free_memory' = 0
      /\ req' = 0 /\ want' = 0 /\ old' = old /\ client' = client
  BY DEF FindTake, StartStats, Goto, Fits, IInv, Shape, TypeOK
<1>2. /\ DOMAIN owned' \subseteq Nat
      /\ \A p \in DOMAIN owned' : owned'[p] \in Nat /\ p % 4 = 0
  <2> DEFINE ptr == block[cur].start_addr
  <2>1. ptr \in Nat /\ ptr % 4 = 0
    <3>1. ptr = cur + HDR
      BY <1>1 DEF IInv, Shape, HeapTiled
    <3>2. cur \in Nat /\ cur % 4 = 0
      BY <1>1, Basics DEF IInv
    <3>3. QED
      BY <3>1, <3>2 DEF HDR
  <2>2. want \in Nat /\ DOMAIN owned \subseteq Nat
        /\ \A p \in DOMAIN owned : owned[p] \in Nat /\ p % 4 = 0
    BY DEF IInv, Shape, TypeOK, Aligned
  <2>3. CASE client # "careful"
    BY <2>2, <2>3 DEF FindTake
  <2>4. CASE client = "careful"
    <3>1. owned' = [p \in DOMAIN owned \cup {ptr} |-> IF p = ptr THEN want ELSE owned[p]]
      BY <2>4 DEF FindTake
    <3>2. QED
      BY <3>1, <2>1, <2>2
  <2>5. QED
    BY <2>3, <2>4
<1>3. \A h \in Headers : ~FreePair(block, h)
  BY <1>1 DEF IInv, Coalesced
<1>4. /\ HeapTiled' /\ Headers' \subseteq Nat
      /\ \A x \in Headers' : block'[x] \in BlockType /\ x % 4 = 0 /\ block'[x].size % 4 = 0
      /\ \A x \in Headers' : ~FreePair(block', x)
  <2>1. CASE block[cur].size > req + HDR
    <3> DEFINE n == cur + HDR + req
    <3>1. block' = split_block(cur, req) /\ req \in Nat /\ req % 4 = 0
      BY <2>1 DEF FindTake, IInv, Shape, TypeOK, Aligned
    <3>2. /\ HeapTiled' /\ Headers' \subseteq Nat
          /\ \A x \in Headers' : block'[x] \in BlockType /\ x % 4 = 0 /\ block'[x].size % 4 = 0
      BY <1>1, <2>1, <3>1, SplitTiled DEF IInv
    <3>3. /\ Headers' = Headers \cup {n} /\ n \notin Headers
          /\ block'[n].next = block[cur].next /\ block'[cur].type = MEMORY_ALLOCATED
          /\ \A x \in Headers \ {cur} : block'[x].type = block[x].type /\ block'[x].next = block[x].next
      BY <1>1, <2>1, <3>1, SplitFields DEF IInv, Reads
    <3> HIDE DEF n
    <3>4. \A x \in Headers : block[x].next # NULL => block[x].next \in Headers
      BY Basics DEF IInv
    <3>5. MEMORY_ALLOCATED # MEMORY_FREE
      BY DEF MEMORY_ALLOCATED, MEMORY_FREE
    <3>6. ~FreePair(block', cur)
      BY <3>3, <3>5 DEF FreePair
    <3>7. ~FreePair(block', n)
      <4>1. SUFFICES ASSUME block[cur].next # NULL PROVE block'[block[cur].next].type # MEMORY_FREE
        BY <3>3 DEF FreePair
      <4>2. block[cur].next \in Headers /\ block[block[cur].next].type # MEMORY_FREE
        BY <4>1, <3>4, <1>1, <1>3 DEF FreePair
      <4>3. QED
        BY <4>2, <3>3, <3>5
    <3>8. ASSUME NEW x \in Headers \ {cur} PROVE ~FreePair(block', x)
      BY <3>3, <3>4, <3>5, <3>8, <1>3 DEF FreePair
    <3>9. QED
      BY <3>2, <3>3, <3>6, <3>7, <3>8
  <2>2. CASE ~(block[cur].size > req + HDR)
    <3>1. block' = [block EXCEPT ![cur].type = MEMORY_ALLOCATED]
      BY <2>2 DEF FindTake
    <3>2. /\ HeapTiled' /\ Headers' = Headers
          /\ \A x \in Headers' : block'[x] \in BlockType /\ x % 4 = 0 /\ block'[x].size % 4 = 0
      BY <1>1, <3>1, TypeTiled DEF IInv
    <3>3. \A x \in Headers :
            /\ block'[x].next = block[x].next
            /\ block'[x].type = IF x = cur THEN MEMORY_ALLOCATED ELSE block[x].type
      BY <1>1, <3>1, TypeFields DEF IInv, Reads
    <3>4. \A x \in Headers : block[x].next # NULL => block[x].next \in Headers
      BY Basics DEF IInv
    <3>5. ASSUME NEW x \in Headers PROVE ~FreePair(block', x)
      BY <3>3, <3>4, <1>3 DEF FreePair, MEMORY_ALLOCATED, MEMORY_FREE
    <3>6. Headers' \subseteq Nat
      BY <3>2, Basics DEF IInv
    <3>7. QED
      BY <3>2, <3>5, <3>6
  <2>3. QED
    BY <2>1, <2>2
<1>5. TypeOK'
  BY <1>1, <1>2, <1>4 DEF IInv, Shape, TypeOK, HeapTiled, memory_map
<1>6. Aligned'
  <2>1. req' % 4 = 0 /\ old' % 4 = 0
    BY <1>1 DEF IInv, Shape, Aligned
  <2>2. QED
    BY <2>1, <1>2, <1>4 DEF Aligned
<1>7. Coalesced' /\ Loops'
  BY <1>1, <1>4 DEF Coalesced, Loops
<1>8. QED
  BY <1>4, <1>5, <1>6, <1>7 DEF IInv, Shape

LEMMA FindFailInv == IInv /\ FindFail => IInv'
<1> SUFFICES ASSUME IInv, FindFail PROVE IInv'
  OBVIOUS
<1>1. /\ pc = "find" /\ pc' = "idle" /\ cur' = NULL /\ req' = 0 /\ want' = 0 /\ old' = NULL
      /\ UNCHANGED <<block, used_memory, free_memory, client, owned>>
  BY DEF FindFail, Return, Goto
<1>2. /\ HeapTiled' /\ Headers' = Headers
      /\ \A h \in Headers : FreePair(block', h) = FreePair(block, h)
  BY <1>1, SameList
<1>3. TypeOK' /\ Aligned'
  BY <1>1, <1>2 DEF IInv, Shape, TypeOK, Aligned, NULL
<1>4. Coalesced' /\ Loops'
  BY <1>1, <1>2 DEF IInv, Coalesced, Loops
<1>5. QED
  BY <1>2, <1>3, <1>4 DEF IInv, Shape

LEMMA MergeStepInv == IInv /\ MergeStep => IInv'
<1> SUFFICES ASSUME IInv, MergeStep PROVE IInv'
  OBVIOUS
<1>1. /\ pc = "merge" /\ cur \in Headers /\ block[cur].next # NULL /\ pc' = "merge"
      /\ UNCHANGED <<used_memory, free_memory, req, want, old, client, owned>>
      /\ \A h \in Headers : h < cur => ~FreePair(block, h)
  BY DEF MergeStep, Goto, IInv, Loops
<1>2. CASE Mergeable(cur)
  <2> DEFINE n == block[cur].next
  <2>1. block' = absorb(cur) /\ cur' = cur
    BY <1>2 DEF MergeStep, Goto
  <2>2. /\ HeapTiled' /\ Headers' \subseteq Headers /\ cur \in Headers'
        /\ \A x \in Headers' : block'[x] \in BlockType /\ x % 4 = 0 /\ block'[x].size % 4 = 0
    BY <1>1, <2>1, AbsorbTiled DEF IInv
  <2>3. /\ n \in Headers /\ n # cur /\ n = End(block, cur)
        /\ Headers' = Headers \ {n}
        /\ block'[cur].type = block[cur].type
        /\ \A x \in Headers \ {cur, n} : block'[x].type = block[x].type /\ block'[x].next = block[x].next
    BY <1>1, <2>1, AbsorbFields DEF IInv, Reads
  <2>4. TypeOK' /\ Aligned'
    BY <1>1, <2>1, <2>2 DEF IInv, Shape, TypeOK, Aligned
  <2>5. ASSUME NEW h \in Headers', h < cur PROVE ~FreePair(block', h)
    <3>1. h \in Headers \ {cur, n}
      <4>1. h \in Headers /\ h # n
        BY <2>3, <2>5
      <4>2. h \in Nat /\ cur \in Nat
        BY <4>1, <1>1, Basics DEF IInv
      <4>3. QED
        BY <4>1, <4>2, <2>5
    <3>2. ASSUME block[h].next # NULL PROVE block[h].next \in Headers /\ block[h].next # n
      <4>1. block[h].next = End(block, h) /\ End(block, h) \in Headers
        BY <3>1, <3>2, Basics DEF IInv
      <4>2. End(block, h) # End(block, cur)
        BY <3>1, <1>1, Basics DEF IInv
      <4>3. QED
        BY <4>1, <4>2, <2>3
    <3>3. block'[h].type = block[h].type /\ block'[h].next = block[h].next
      BY <3>1, <2>3
    <3>4. ~FreePair(block, h)
      BY <3>1, <2>5, <1>1
    <3>5. block[h].next # NULL => block'[block[h].next].type = block[block[h].next].type
      BY <3>2, <2>3
    <3>6. QED
      BY <3>3, <3>4, <3>5 DEF FreePair
  <2>6. Coalesced' /\ Loops'
    BY <1>1, <2>1, <2>2, <2>5 DEF Coalesced, Loops
  <2>7. QED
    BY <2>2, <2>4, <2>6 DEF IInv, Shape
<1>3. CASE ~Mergeable(cur)
  <2>1. block' = block /\ cur' = block[cur].next
    BY <1>3 DEF MergeStep, Goto
  <2>2. /\ HeapTiled' /\ Headers' = Headers
        /\ \A h \in Headers : FreePair(block', h) = FreePair(block, h)
    BY <2>1, SameList
  <2>3. cur' \in Headers /\ cur' = End(block, cur)
    BY <1>1, <2>1, Basics DEF IInv
  <2>4. TypeOK' /\ Aligned'
    BY <1>1, <2>1, <2>2, <2>3 DEF IInv, Shape, TypeOK, Aligned
  <2>5. ~FreePair(block, cur)
    <3>1. block[cur].start_addr + block[cur].size + HDR = block[cur'].start_addr
      <4>1. block[cur].start_addr = cur + HDR /\ block[cur'].start_addr = cur' + HDR
        BY <1>1, <2>3 DEF IInv, Shape, HeapTiled
      <4>2. cur \in Nat /\ block[cur].size \in Nat
        BY <1>1, Basics DEF IInv
      <4>3. QED
        BY <4>1, <4>2, <2>3 DEF End, HDR
    <3>2. QED
      BY <3>1, <1>3, <2>1 DEF Mergeable, FreePair
  <2>6. ASSUME NEW h \in Headers, h < cur' PROVE ~FreePair(block, h)
    <3>1. h < cur \/ h = cur
      BY <2>6, <2>1, <1>1, NothingBetween DEF IInv
    <3>2. QED
      BY <3>1, <2>5, <1>1
  <2>7. Coalesced' /\ Loops'
    BY <1>1, <2>2, <2>3, <2>6 DEF Coalesced, Loops
  <2>8. QED
    BY <2>2, <2>4, <2>7 DEF IInv, Shape
<1>4. QED
  BY <1>2, <1>3

LEMMA MergeEndInv == IInv /\ MergeEnd => IInv'
<1> SUFFICES ASSUME IInv, MergeEnd PROVE IInv'
  OBVIOUS
<1>1. /\ pc = "merge" /\ cur \in Headers /\ block[cur].next = NULL
      /\ pc' = "stats" /\ cur' = memory_map /\ used_memory' = 0 /\ free_memory' = 0
      /\ UNCHANGED <<block, req, want, old, client, owned>>
      /\ \A h \in Headers : h < cur => ~FreePair(block, h)
  BY DEF MergeEnd, StartStats, Goto, IInv, Loops
<1>2. /\ HeapTiled' /\ Headers' = Headers
      /\ \A h \in Headers : FreePair(block', h) = FreePair(block, h)
  BY <1>1, SameList
<1>3. TypeOK' /\ Aligned'
  BY <1>1, <1>2, Basics DEF IInv, Shape, TypeOK, Aligned, memory_map
<1>4. ASSUME NEW h \in Headers PROVE ~FreePair(block, h)
  <2>1. h < cur \/ h = cur
    BY <1>1, NothingBetween DEF IInv
  <2>2. QED
    BY <2>1, <1>1 DEF FreePair
<1>5. Coalesced' /\ Loops'
  BY <1>1, <1>2, <1>4 DEF Coalesced, Loops
<1>6. QED
  BY <1>2, <1>3, <1>5 DEF IInv, Shape

LEMMA StatsStepInv == IInv /\ StatsStep => IInv'
<1> SUFFICES ASSUME IInv, StatsStep PROVE IInv'
  OBVIOUS
<1>1. /\ pc = "stats" /\ cur \in Headers /\ pc' = "stats" /\ cur' = block[cur].next
      /\ UNCHANGED <<block, req, want, old, client, owned>>
  BY DEF StatsStep, Goto, IInv, Shape, TypeOK
<1>2. /\ HeapTiled' /\ Headers' = Headers
      /\ \A h \in Headers : FreePair(block', h) = FreePair(block, h)
  BY <1>1, SameList
<1>3. used_memory' \in Nat /\ free_memory' \in Nat
  <2>1. block[cur].size \in Nat /\ used_memory \in Nat /\ free_memory \in Nat
    BY <1>1, Basics DEF IInv, Shape, TypeOK
  <2>2. QED
    BY <2>1 DEF StatsStep
<1>4. TypeOK' /\ Aligned'
  BY <1>1, <1>2, <1>3, Basics DEF IInv, Shape, TypeOK, Aligned
<1>5. Coalesced' /\ Loops'
  BY <1>1, <1>2 DEF IInv, Coalesced, Loops
<1>6. QED
  BY <1>2, <1>4, <1>5 DEF IInv, Shape

LEMMA StatsEndInv == IInv /\ StatsEnd => IInv'
<1> SUFFICES ASSUME IInv, StatsEnd PROVE IInv'
  OBVIOUS
<1>1. pc = "stats" /\ old \in Nat /\ old % 4 = 0
  BY DEF StatsEnd, IInv, Shape, TypeOK, Aligned
<1>2. CASE old # NULL
  BY <1>1, <1>2, StartKfreeInv DEF StatsEnd
<1>3. CASE old = NULL
  <2>1. /\ pc' = "idle" /\ cur' = NULL /\ req' = 0 /\ want' = 0 /\ old' = NULL
        /\ UNCHANGED <<block, used_memory, free_memory, client, owned>>
    BY <1>3 DEF StatsEnd, Return, Goto
  <2>2. /\ HeapTiled' /\ Headers' = Headers
        /\ \A h \in Headers : FreePair(block', h) = FreePair(block, h)
    BY <2>1, SameList
  <2>3. TypeOK' /\ Aligned'
    BY <2>1, <2>2 DEF IInv, Shape, TypeOK, Aligned, NULL
  <2>4. Coalesced' /\ Loops'
    BY <1>1, <2>1, <2>2 DEF IInv, Coalesced, Loops
  <2>5. QED
    BY <2>2, <2>3, <2>4 DEF IInv, Shape
<1>4. QED
  BY <1>2, <1>3

(* The pointers callers pass are word aligned. *)
LEMMA PointersAligned ==
  ASSUME IInv, NEW ptr \in Pointers
  PROVE  ptr \in Nat /\ ptr % 4 = 0
<1>1. CASE client # "careful"
  BY <1>1, HeapAssumption DEF Pointers, HDR
<1>2. CASE client = "careful"
  BY <1>2 DEF Pointers, IInv, Shape, TypeOK, Aligned
<1>3. QED
  BY <1>1, <1>2

LEMMA CallInv == IInv /\ Call => IInv'
<1> SUFFICES ASSUME IInv, Call PROVE IInv'
  OBVIOUS
<1>1. \A size \in Sizes : size \in Nat
  BY HeapAssumption
<1>2. NULL \in Nat /\ NULL % 4 = 0
  BY DEF NULL
<1>3. ASSUME NEW size \in Sizes, Kmalloc(size) PROVE IInv'
  BY <1>1, <1>2, <1>3, StartKmallocInv DEF Kmalloc
<1>4. ASSUME NEW num \in Nums, NEW size \in Sizes, Kcalloc(num, size) PROVE IInv'
  <2>1. num * size \in Nat
    BY <1>1, HeapAssumption
  <2>2. (num * size) % SIZE_MOD \in Nat
    BY <2>1, HeapAssumption
  <2>3. QED
    BY <2>1, <2>2, <1>2, <1>4, StartKmallocInv DEF Kcalloc
<1>5. ASSUME NEW ptr \in Pointers, Kfree(ptr) PROVE IInv'
  BY <1>5, PointersAligned, StartKfreeInv DEF Kfree
<1>6. ASSUME NEW ptr \in Pointers, NEW size \in Sizes, Krealloc(ptr, size) PROVE IInv'
  <2>1. CASE size = 0
    BY <2>1, <1>6, PointersAligned, StartKfreeInv DEF Krealloc
  <2>2. CASE size # 0
    BY <2>2, <1>1, <1>6, PointersAligned, StartKmallocInv DEF Krealloc
  <2>3. QED
    BY <2>1, <2>2
<1>7. QED
  BY <1>3, <1>4, <1>5, <1>6 DEF Call, sys_malloc, sys_free, shell_malloc, shell_free

LEMMA InitInv == Init => IInv
<1> SUFFICES ASSUME Init PROVE IInv
  OBVIOUS
<1> DEFINE H == KERNEL_HEAP_START
<1>1. /\ Headers = {H} /\ block[H].start_addr = H + HDR /\ block[H].size = KERNEL_HEAP_SIZE - HDR
      /\ block[H].type = MEMORY_FREE /\ block[H].next = NULL /\ block[H].prev = NULL
      /\ H \in Nat /\ H % 4 = 0 /\ KERNEL_HEAP_SIZE - HDR \in Nat
      /\ (KERNEL_HEAP_SIZE - HDR) % 4 = 0
  BY HeapAssumption DEF Init, Headers, HDR
<1>2. block[H] \in BlockType
  BY HeapAssumption DEF Init, BlockType, HDR, NULL, MEMORY_FREE
<1>3. End(block, H) = HEAP_END
  BY <1>1, HeapAssumption DEF End, HEAP_END, HDR
<1>4. TypeOK
  BY <1>1, <1>2, HeapAssumption DEF Init, TypeOK, NULL
<1>5. Aligned
  BY <1>1 DEF Init, Aligned, NULL
<1>6. HeapTiled
  BY <1>1, <1>3, HeapAssumption DEF HeapTiled, memory_map, HEAP_END
<1>7. Coalesced /\ Loops
  BY <1>1 DEF Init, Coalesced, Loops, FreePair
<1>8. QED
  BY <1>4, <1>5, <1>6, <1>7 DEF IInv, Shape

LEMMA StutterInv == IInv /\ UNCHANGED vars => IInv'
<1> SUFFICES ASSUME IInv, UNCHANGED vars PROVE IInv'
  OBVIOUS
<1>1. /\ HeapTiled' /\ Headers' = Headers
      /\ \A h \in Headers : FreePair(block', h) = FreePair(block, h)
  BY SameList DEF vars
<1>2. \A h \in Headers : Fits(h)' = Fits(h)
  BY DEF Fits, vars
<1>3. TypeOK' /\ Aligned'
  BY <1>1 DEF IInv, Shape, TypeOK, Aligned, vars
<1>4. Coalesced' /\ Loops'
  BY <1>1, <1>2 DEF IInv, Coalesced, Loops, vars
<1>5. QED
  BY <1>1, <1>3, <1>4 DEF IInv, Shape

(* The inductive invariant holds of every behaviour. *)
THEOREM HeapInvariant == Spec => []IInv
<1>1. IInv /\ [Next]_vars => IInv'
  BY CallInv, FindAdvanceInv, FindFailInv, FindTakeInv, MergeStepInv, MergeEndInv,
     StatsStepInv, StatsEndInv, StutterInv DEF Next, Step
<1>2. QED
  BY InitInv, <1>1, PTL DEF Spec

(* memory.c's heap variables keep their types. *)
THEOREM HeapTypeCorrect == Spec => []TypeOK
<1>1. IInv => TypeOK
  BY DEF IInv, Shape
<1>2. QED
  BY <1>1, HeapInvariant, PTL

(* Whatever calls are made, the block list tiles the heap. *)
THEOREM HeapAlwaysTiled == Spec => []HeapTiled
<1>1. IInv => HeapTiled
  BY DEF IInv, Shape
<1>2. QED
  BY <1>1, HeapInvariant, PTL

(* No two neighbouring blocks are free outside a coalescing pass. *)
THEOREM HeapCoalesced == Spec => []Coalesced
<1>1. IInv => Coalesced
  BY DEF IInv
<1>2. QED
  BY <1>1, HeapInvariant, PTL

(* kmalloc returns NULL only if no free block could hold the request. *)
THEOREM HeapFailure == Spec => []FailureIsExhaustion
<1>1. IInv => FailureIsExhaustion
  BY DEF IInv, Loops, FailureIsExhaustion
<1>2. QED
  BY <1>1, HeapInvariant, PTL

-----------------------------------------------------------------------------
(* The statistics. *)

(* The figures of update_memory_stats: while it walks they count the       *)
(* payload bytes before its cursor, and outside it those of the heap, or   *)
(* they are still what memory_init set.                                    *)
Passed(t) == {a \in Payload(t) : cur = NULL \/ a < cur}

Figures ==
  \/ used_memory = Bytes(MEMORY_ALLOCATED) /\ free_memory = Bytes(MEMORY_FREE)
  \/ Headers = {memory_map} /\ used_memory = 0 /\ free_memory = TOTAL_MEMORY

StatsInv ==
  /\ pc = "stats" => /\ used_memory = Cardinality(Passed(MEMORY_ALLOCATED))
                     /\ free_memory = Cardinality(Passed(MEMORY_FREE))
  /\ pc \in {"idle", "find"} => Figures

(* There are finitely many payload bytes. *)
LEMMA PayloadFinite ==
  ASSUME NEW t
  PROVE  IsFiniteSet(Payload(t)) /\ IsFiniteSet(Passed(t)) /\ Cardinality(Passed(t)) \in Nat
<1>1. memory_map \in Int /\ HEAP_END - 1 \in Int
  BY HeapAssumption DEF memory_map, HEAP_END
<1>2. IsFiniteSet(memory_map .. HEAP_END - 1)
  BY <1>1, FS_Interval
<1>3. Payload(t) \in SUBSET (memory_map .. HEAP_END - 1) /\ Passed(t) \in SUBSET (memory_map .. HEAP_END - 1)
  BY DEF Payload, Passed
<1>4. IsFiniteSet(Payload(t)) /\ IsFiniteSet(Passed(t))
  BY <1>2, <1>3, FS_Subset
<1> QED
  BY <1>4, FS_CardinalityType

(* A payload byte between a header and its end is in the block of that     *)
(* header.                                                                 *)
LEMMA OwnBlock ==
  ASSUME Shape, NEW h \in Headers, NEW x \in Headers, NEW a \in Nat,
         x + HDR <= a, a < End(block, x), h <= a, a < End(block, h)
  PROVE  x = h
<1>1. /\ x \in Nat /\ h \in Nat /\ End(block, x) \in Nat /\ End(block, h) \in Nat
  BY Basics
<1>2. (x < h => End(block, x) <= h) /\ (h < x => End(block, h) <= x)
  BY DEF Shape, HeapTiled
<1> QED
  BY <1>1, <1>2 DEF HDR

(* The bytes before the end of a block are those before its header and,    *)
(* if the type is right, its payload.                                      *)
LEMMA OneMore ==
  ASSUME Shape, NEW h \in Headers, NEW t
  PROVE  {a \in Payload(t) : a < End(block, h)} =
           {a \in Payload(t) : a < h} \cup
             (IF block[h].type = t THEN h + HDR .. End(block, h) - 1 ELSE {})
<1>1. /\ h \in Nat /\ memory_map \in Nat /\ memory_map <= h /\ HEAP_END \in Nat
      /\ End(block, h) \in Nat /\ h + HDR <= End(block, h) /\ End(block, h) <= HEAP_END
  BY Basics DEF Shape, HeapTiled
<1>2. ASSUME NEW a \in Payload(t), a < End(block, h), ~(a < h)
      PROVE  block[h].type = t /\ a \in h + HDR .. End(block, h) - 1
  <2>1. a \in Nat
    BY <1>1 DEF Payload
  <2>2. PICK x \in Headers : block[x].type = t /\ x + HDR <= a /\ a < End(block, x)
    BY DEF Payload
  <2>3. x = h
    BY <1>1, <1>2, <2>1, <2>2, OwnBlock
  <2> QED
    BY <1>1, <1>2, <2>1, <2>2, <2>3 DEF HDR
<1>3. ASSUME NEW a \in Payload(t), a < h PROVE a < End(block, h)
  BY <1>1, <1>3 DEF Payload, HDR
<1>4. ASSUME block[h].type = t, NEW a \in h + HDR .. End(block, h) - 1
      PROVE  a \in Payload(t) /\ a < End(block, h)
  <2>1. a \in memory_map .. HEAP_END - 1 /\ h + HDR <= a /\ a < End(block, h)
    BY <1>1, <1>4 DEF HDR
  <2> QED
    BY <1>4, <2>1 DEF Payload
<1> QED
  BY <1>2, <1>3, <1>4

(* Hence their number grows by the size of the block. *)
LEMMA OneMoreCount ==
  ASSUME Shape, NEW h \in Headers, NEW t
  PROVE  Cardinality({a \in Payload(t) : a < End(block, h)}) =
           Cardinality({a \in Payload(t) : a < h}) + (IF block[h].type = t THEN block[h].size ELSE 0)
<1> DEFINE S == {a \in Payload(t) : a < h}
           I == h + HDR .. End(block, h) - 1
<1>1. /\ h \in Nat /\ block[h].size \in Nat /\ End(block, h) \in Nat /\ End(block, h) = h + HDR + block[h].size
  BY Basics DEF End
<1>2. IsFiniteSet(S) /\ Cardinality(S) \in Nat
  <2>1. IsFiniteSet(Payload(t)) /\ S \in SUBSET Payload(t)
    BY PayloadFinite
  <2> QED
    BY <2>1, FS_Subset, FS_CardinalityType
<1>3. CASE block[h].type # t
  <2>1. {a \in Payload(t) : a < End(block, h)} = S
    BY <1>3, OneMore
  <2> HIDE DEF S
  <2>2. Cardinality({a \in Payload(t) : a < End(block, h)}) = Cardinality(S) + 0
    BY <1>2, <2>1
  <2> QED
    BY <1>3, <2>2 DEF S
<1>4. CASE block[h].type = t
  <2>1. \A lo, hi \in Int : IsFiniteSet(lo .. hi) /\ (lo <= hi + 1 => Cardinality(lo .. hi) = hi - lo + 1)
    BY FS_Interval
  <2>2. /\ h + HDR \in Int /\ End(block, h) - 1 \in Int
        /\ h + HDR <= End(block, h) - 1 + 1 /\ End(block, h) - 1 - (h + HDR) + 1 = block[h].size
    BY <1>1 DEF HDR
  <2>3. IsFiniteSet(I) /\ Cardinality(I) = block[h].size
    BY <2>1, <2>2, Zenon
  <2>4. S \cap I = {}
    BY <1>1 DEF HDR
  <2> HIDE DEF S, I
  <2>5. Cardinality(S \cup I) = Cardinality(S) + Cardinality(I) - Cardinality(S \cap I)
    BY <1>2, <2>3, FS_Union
  <2>6. Cardinality(S \cup I) = Cardinality(S) + block[h].size
    BY <1>1, <1>2, <2>3, <2>4, <2>5, FS_EmptySet
  <2>7. {a \in Payload(t) : a < End(block, h)} = S \cup I
    BY <1>4, OneMore DEF S, I
  <2> QED
    BY <1>4, <2>6, <2>7 DEF S
<1> QED
  BY <1>3, <1>4

(* One iteration of the walk counts the block at the cursor. *)
LEMMA StatsStepCounts ==
  ASSUME IInv, StatsInv, StatsStep
  PROVE  StatsInv'
<1>1. /\ pc = "stats" /\ pc' = "stats" /\ cur \in Headers /\ cur # NULL
      /\ block' = block /\ cur' = block[cur].next /\ Shape
  BY DEF StatsStep, Goto, IInv, Shape, TypeOK
<1>2. \A t : Passed(t) = {a \in Payload(t) : a < cur}
  BY <1>1 DEF Passed
<1>3. \A t : Payload(t)' = Payload(t)
  BY <1>1 DEF Payload, Headers, End
<1>4. ASSUME NEW t PROVE Passed(t)' = {a \in Payload(t) : a < End(block, cur)}
  <2>1. CASE cur' # NULL
    BY <1>1, <1>3, <2>1, Basics DEF Passed
  <2>2. CASE cur' = NULL
    <3>1. End(block, cur) = HEAP_END /\ HEAP_END \in Nat /\ memory_map \in Nat
      BY <1>1, <2>2, Basics
    <3>2. \A a \in Payload(t) : a < End(block, cur)
      BY <3>1 DEF Payload
    <3>3. Passed(t)' = Payload(t)
      BY <1>3, <2>2 DEF Passed
    <3> QED
      BY <3>2, <3>3
  <2> QED
    BY <2>1, <2>2
<1>5. \A t : Cardinality(Passed(t)') = Cardinality(Passed(t)) + (IF block[cur].type = t THEN block[cur].size ELSE 0)
  BY <1>1, <1>2, <1>4, OneMoreCount
<1>6. /\ used_memory = Cardinality(Passed(MEMORY_ALLOCATED))
      /\ free_memory = Cardinality(Passed(MEMORY_FREE))
  BY <1>1 DEF StatsInv
<1>7. /\ used_memory' = Cardinality(Passed(MEMORY_ALLOCATED)')
      /\ free_memory' = Cardinality(Passed(MEMORY_FREE)')
  BY <1>5, <1>6 DEF StatsStep
<1> QED
  BY <1>1, <1>7 DEF StatsInv, MEMORY_ALLOCATED, MEMORY_FREE

(* A walk that starts has counted nothing. *)
LEMMA StartCounts ==
  ASSUME StartStats
  PROVE  StatsInv'
<1>1. /\ pc' = "stats" /\ cur' = memory_map /\ used_memory' = 0 /\ free_memory' = 0
  BY DEF StartStats, Goto
<1>2. memory_map # NULL /\ memory_map \in Nat
  BY HeapAssumption DEF memory_map, NULL, HDR
<1>3. HEAP_END \in Int
  BY HeapAssumption DEF HEAP_END
<1>4. ASSUME NEW t PROVE Passed(t)' = {}
  BY <1>1, <1>2, <1>3 DEF Passed, Payload
<1> QED
  BY <1>1, <1>4, FS_EmptySet DEF StatsInv, MEMORY_ALLOCATED, MEMORY_FREE

(* Where list and figures stay, they stay right. *)
LEMMA SameFigures ==
  ASSUME Figures, UNCHANGED <<block, used_memory, free_memory>>
  PROVE  Figures'
BY DEF Figures, Bytes, Payload, Headers, End

(* kfree either starts to coalesce or leaves list and figures alone. *)
LEMMA StartKfreeFigures ==
  ASSUME Figures, NEW ptr, StartKfree(ptr)
  PROVE  StatsInv'
<1>1. CASE pc' = "merge"
  BY <1>1 DEF StatsInv
<1>2. CASE pc' = "idle" /\ UNCHANGED block
  BY <1>2, SameFigures DEF StatsInv, StartKfree
<1>3. pc' = "merge" \/ (pc' = "idle" /\ UNCHANGED block)
  BY DEF StartKfree, StartMerge, Return, Goto
<1> QED
  BY <1>1, <1>2, <1>3

LEMMA StartKmallocFigures ==
  ASSUME pc = "idle", Figures, NEW size, NEW w, NEW f, StartKmalloc(size, w, f)
  PROVE  StatsInv'
<1>1. UNCHANGED <<block, used_memory, free_memory>> /\ pc' \in {"idle", "find"}
  BY DEF StartKmalloc, Goto
<1> QED
  BY <1>1, SameFigures DEF StatsInv

(* Every step keeps the figures right. *)
LEMMA StatsInvariant == Spec => []StatsInv
<1>1. Init => StatsInv
  BY DEF Init, StatsInv, Figures, Headers, memory_map
<1>2. ASSUME IInv, StatsInv, [Next]_vars PROVE StatsInv'
  <2>1. ASSUME Call PROVE StatsInv'
    <3>1. pc = "idle" /\ Figures
      BY <1>2, <2>1 DEF Call, Kmalloc, Kcalloc, Kfree, Krealloc, sys_malloc, shell_malloc, sys_free, shell_free, StatsInv
    <3>2. \/ \E size, w, f : StartKmalloc(size, w, f)
          \/ \E ptr : StartKfree(ptr)
      BY <2>1 DEF Call, Kmalloc, Kcalloc, Kfree, Krealloc, sys_malloc, shell_malloc, sys_free, shell_free
    <3> QED
      BY <3>1, <3>2, StartKmallocFigures, StartKfreeFigures
  <2>2. ASSUME FindAdvance \/ FindFail PROVE StatsInv'
    <3>1. /\ pc = "find" /\ pc' \in {"idle", "find"} /\ UNCHANGED <<block, used_memory, free_memory>>
      BY <2>2 DEF FindAdvance, FindFail, Goto, Return
    <3> QED
      BY <1>2, <3>1, SameFigures DEF StatsInv
  <2>3. ASSUME FindTake \/ MergeEnd PROVE StatsInv'
    BY <2>3, StartCounts DEF FindTake, MergeEnd
  <2>4. ASSUME MergeStep PROVE StatsInv'
    <3>1. pc' = "merge"
      BY <2>4 DEF MergeStep, Goto
    <3> QED
      BY <3>1 DEF StatsInv
  <2>5. ASSUME StatsStep PROVE StatsInv'
    BY <1>2, <2>5, StatsStepCounts
  <2>6. ASSUME StatsEnd PROVE StatsInv'
    <3>1. pc = "stats" /\ cur = NULL
      BY <2>6 DEF StatsEnd
    <3>2. \A t : Passed(t) = Payload(t)
      BY <3>1 DEF Passed
    <3>3. Figures
      BY <1>2, <3>1, <3>2 DEF StatsInv, Figures, Bytes
    <3>4. CASE old # NULL
      BY <2>6, <3>3, <3>4, StartKfreeFigures DEF StatsEnd
    <3>5. CASE old = NULL
      <4>1. pc' = "idle" /\ UNCHANGED <<block, used_memory, free_memory>>
        BY <2>6, <3>5 DEF StatsEnd, Return, Goto
      <4> QED
        BY <3>3, <4>1, SameFigures DEF StatsInv
    <3> QED
      BY <3>4, <3>5
  <2>7. CASE UNCHANGED vars
    <3>1. UNCHANGED <<block, used_memory, free_memory, pc, cur>>
      BY <2>7 DEF vars
    <3>2. \A t : Passed(t)' = Passed(t)
      BY <3>1 DEF Passed, Payload, Headers, End
    <3>3. Figures => Figures'
      BY <3>1, SameFigures
    <3> QED
      BY <1>2, <3>1, <3>2, <3>3 DEF StatsInv, MEMORY_ALLOCATED, MEMORY_FREE
  <2> QED
    BY <1>2, <2>1, <2>2, <2>3, <2>4, <2>5, <2>6, <2>7 DEF Next, Step
<1> QED
  BY <1>1, <1>2, HeapInvariant, PTL DEF Spec

(* Whenever no call is running used_memory and free_memory are the exact   *)
(* numbers of payload bytes allocated and free, or still what memory_init  *)
(* set: no call returns between a change of the list and the recount.      *)
THEOREM HeapStatsExact == Spec => []StatsExact
<1>1. StatsInv => StatsExact
  BY DEF StatsInv, StatsExact, Figures
<1> QED
  BY <1>1, StatsInvariant, PTL

-----------------------------------------------------------------------------
(* Isolation of the callers from one another, when they free only what     *)
(* they hold.                                                              *)

(* In the list b, p is the payload of an allocated block of at least s     *)
(* bytes.                                                                  *)
Holds(b, p, s) ==
  /\ p - HDR \in DOMAIN b
  /\ b[p - HDR].type = MEMORY_ALLOCATED
  /\ b[p - HDR].size >= s

OwnInv ==
  client = "careful" =>
    /\ \A p \in DOMAIN owned : Holds(block, p, Align(owned[p] % SIZE_MOD))
    /\ pc = "find" => req = Align(want % SIZE_MOD)
    /\ old # NULL => old \in DOMAIN owned

(* Reducing a size that fits size_t leaves it alone. *)
LEMMA ModSmall ==
  ASSUME NEW x \in Nat
  PROVE  /\ (x % SIZE_MOD) % SIZE_MOD = x % SIZE_MOD
         /\ x < SIZE_MOD => x % SIZE_MOD = x
<1>1. SIZE_MOD \in Nat /\ SIZE_MOD > 0
  BY HeapAssumption
<1>2. ASSUME NEW y \in Nat, y < SIZE_MOD PROVE y % SIZE_MOD = y
  BY <1>1, <1>2
<1>3. x % SIZE_MOD \in Nat /\ x % SIZE_MOD < SIZE_MOD
  BY <1>1
<1>4. QED
  BY <1>2, <1>3

(* kfree of a pointer its caller holds clears the type of that block only. *)
LEMMA KfreeOwn ==
  ASSUME IInv, OwnInv, client = "careful", NEW ptr \in DOMAIN owned, StartKfree(ptr)
  PROVE  block' = [block EXCEPT ![ptr - HDR].type = MEMORY_FREE]
<1> DEFINE a == TypeWord(ptr)
           h == ptr - HDR
<1>1. h \in Headers /\ block[h].type = MEMORY_ALLOCATED /\ ptr \in Nat /\ ptr % 4 = 0 /\ h \in Nat
  BY Basics DEF OwnInv, Holds, Headers, IInv, Shape, TypeOK, Aligned
<1>2. a = h + 8 /\ InHeader(h, a)
  BY <1>1 DEF TypeWord, InHeader, HDR
<1>3. ASSUME NEW g \in Headers, InHeader(g, a) PROVE g = h
  <2>1. g \in Nat /\ g + HDR <= End(block, g) /\ h + HDR <= End(block, h)
        /\ End(block, g) \in Nat /\ End(block, h) \in Nat
    BY <1>1, Basics DEF IInv
  <2>2. g < h => End(block, g) <= h
    BY <1>1 DEF IInv, Shape, HeapTiled
  <2>3. h < g => End(block, h) <= g
    BY <1>1 DEF IInv, Shape, HeapTiled
  <2>4. QED
    BY <2>1, <2>2, <2>3, <1>1, <1>2, <1>3 DEF InHeader, HDR
<1>4. FieldAt(a - h) = "type"
  BY <1>1, <1>2 DEF FieldAt
<1>5. block[h][FieldAt(a - h)] = MEMORY_ALLOCATED
  BY <1>1, <1>4
<1>6. {g \in Headers : InHeader(g, a)} = {h}
  BY <1>1, <1>2, <1>3
<1>7. block' = [block EXCEPT ![h] = [@ EXCEPT ![FieldAt(a - h)] = MEMORY_FREE]]
  BY <1>5, <1>6 DEF StartKfree
<1>8. QED
  BY <1>4, <1>7

LEMMA StartKfreeOwn ==
  ASSUME IInv, OwnInv, client = "careful", NEW ptr \in DOMAIN owned, StartKfree(ptr)
  PROVE  OwnInv'
<1>1. block' = [block EXCEPT ![ptr - HDR].type = MEMORY_FREE]
  BY KfreeOwn
<1>2. /\ old' = NULL /\ pc' # "find"
      /\ owned' = [p \in DOMAIN owned \ {ptr} |-> owned[p]]
  BY DEF StartKfree, StartMerge, Return, Goto
<1>3. ASSUME NEW p \in DOMAIN owned' PROVE Holds(block', p, Align(owned'[p] % SIZE_MOD))
  <2>1. p \in DOMAIN owned /\ p # ptr /\ owned'[p] = owned[p]
    BY <1>2
  <2>2. p \in Nat /\ ptr \in Nat
    BY <2>1 DEF IInv, Shape, TypeOK
  <2>3. p - HDR # ptr - HDR
    BY <2>1, <2>2 DEF HDR
  <2>4. DOMAIN block' = DOMAIN block /\ block'[p - HDR] = block[p - HDR]
    BY <1>1, <2>3, <2>1 DEF OwnInv, Holds
  <2>5. QED
    BY <2>1, <2>4 DEF OwnInv, Holds
<1>4. QED
  BY <1>2, <1>3 DEF OwnInv

LEMMA StartKmallocOwn ==
  ASSUME IInv, OwnInv, client = "careful", pc = "idle", NEW size \in Nat, NEW w \in Nat,
         size = w % SIZE_MOD, NEW f, f = NULL \/ f \in DOMAIN owned, StartKmalloc(size, w, f)
  PROVE  OwnInv'
<1>1. UNCHANGED <<block, client, owned>>
  BY DEF StartKmalloc
<1>2. CASE size = 0
  BY <1>1, <1>2 DEF StartKmalloc, OwnInv
<1>3. CASE size # 0
  BY <1>1, <1>3 DEF StartKmalloc, OwnInv
<1>4. QED
  BY <1>2, <1>3

LEMMA FindTakeOwn ==
  ASSUME IInv, OwnInv, client = "careful", FindTake
  PROVE  OwnInv'
<1> DEFINE ptr == block[cur].start_addr
<1>1. /\ pc = "find" /\ cur \in Headers /\ block[cur].type = MEMORY_FREE /\ block[cur].size >= req
      /\ pc' = "stats" /\ old' = old /\ req \in Nat /\ req = Align(want % SIZE_MOD)
      /\ owned' = [p \in DOMAIN owned \cup {ptr} |-> IF p = ptr THEN want ELSE owned[p]]
  BY DEF FindTake, StartStats, Goto, Fits, IInv, Shape, TypeOK, OwnInv
<1>2. ptr = cur + HDR /\ cur \in Nat /\ ptr - HDR = cur
  <2>1. ptr = cur + HDR /\ cur \in Nat
    BY <1>1, Basics DEF IInv, Shape, HeapTiled
  <2>2. QED
    BY <2>1 DEF HDR
<1> HIDE DEF ptr
<1>3. /\ Headers \subseteq Headers'
      /\ block'[cur].type = MEMORY_ALLOCATED /\ block'[cur].size >= req
      /\ \A x \in Headers \ {cur} : block'[x].type = block[x].type /\ block'[x].size = block[x].size
  <2>1. CASE block[cur].size > req + HDR
    <3> DEFINE n == cur + HDR + req
    <3>1. block' = split_block(cur, req) /\ Shape /\ req \in Nat
      BY <1>1, <2>1 DEF FindTake, IInv
    <3>2. /\ Headers' = Headers \cup {n}
          /\ Reads(block', cur, req, MEMORY_ALLOCATED, n, block[cur].prev)
          /\ \A x \in Headers \ {cur} :
               Reads(block', x, block[x].size, block[x].type, block[x].next,
                     IF x = block[cur].next THEN n ELSE block[x].prev)
      BY <1>1, <2>1, <3>1, SplitFields
    <3> HIDE DEF n
    <3>3. QED
      BY <3>1, <3>2 DEF Reads
  <2>2. CASE ~(block[cur].size > req + HDR)
    <3>1. block' = [block EXCEPT ![cur].type = MEMORY_ALLOCATED]
      BY <2>2 DEF FindTake
    <3>2. /\ Headers' = Headers
          /\ \A x \in Headers : /\ block'[x].size = block[x].size
                                /\ block'[x].type = IF x = cur THEN MEMORY_ALLOCATED ELSE block[x].type
      BY <1>1, <3>1, TypeFields DEF IInv, Reads
    <3>3. QED
      BY <1>1, <3>2
  <2>3. QED
    BY <2>1, <2>2
<1>4. ASSUME NEW p \in DOMAIN owned' PROVE Holds(block', p, Align(owned'[p] % SIZE_MOD))
  <2>1. CASE p = ptr
    <3>1. owned'[p] = want
      BY <1>1, <2>1
    <3>2. QED
      BY <3>1, <2>1, <1>1, <1>2, <1>3 DEF Holds, Headers
  <2>2. CASE p # ptr
    <3>1. p \in DOMAIN owned /\ owned'[p] = owned[p]
      BY <1>1, <2>2
    <3>2. p - HDR \in Headers /\ Holds(block, p, Align(owned[p] % SIZE_MOD))
      BY <3>1 DEF OwnInv, Holds, Headers
    <3>3. p - HDR # cur
      BY <3>2, <1>1 DEF Holds, MEMORY_FREE, MEMORY_ALLOCATED
    <3>4. QED
      BY <3>1, <3>2, <3>3, <1>3 DEF Holds, Headers
  <2>3. QED
    BY <2>1, <2>2
<1>5. QED
  BY <1>1, <1>4 DEF OwnInv

LEMMA MergeStepOwn ==
  ASSUME IInv, OwnInv, client = "careful", MergeStep
  PROVE  OwnInv'
<1>1. /\ pc = "merge" /\ cur \in Headers /\ block[cur].next # NULL /\ pc' = "merge"
      /\ UNCHANGED <<old, client, owned>>
  BY DEF MergeStep, Goto, IInv, Loops
<1>2. CASE Mergeable(cur)
  <2> DEFINE n == block[cur].next
  <2>1. /\ Headers' = Headers \ {n}
        /\ \A x \in Headers \ {cur, n} : block'[x].type = block[x].type /\ block'[x].size = block[x].size
    <3>1. block' = absorb(cur) /\ Shape
      BY <1>2 DEF MergeStep, IInv
    <3>2. /\ Headers' = Headers \ {n}
          /\ \A x \in Headers \ {cur, n} :
               Reads(block', x, block[x].size, block[x].type, block[x].next,
                     IF x = block[n].next THEN cur ELSE block[x].prev)
      BY <1>1, <3>1, AbsorbFields
    <3>3. QED
      BY <3>2 DEF Reads
  <2>2. block[cur].type = MEMORY_FREE /\ block[n].type = MEMORY_FREE
    BY <1>2 DEF Mergeable
  <2>3. ASSUME NEW p \in DOMAIN owned PROVE Holds(block', p, Align(owned[p] % SIZE_MOD))
    <3>1. Holds(block, p, Align(owned[p] % SIZE_MOD)) /\ p - HDR \in Headers \ {cur, n}
      BY <2>2 DEF OwnInv, Holds, Headers, MEMORY_FREE, MEMORY_ALLOCATED
    <3>2. QED
      BY <3>1, <2>1 DEF Holds, Headers
  <2>4. QED
    BY <1>1, <2>3 DEF OwnInv
<1>3. CASE ~Mergeable(cur)
  BY <1>1, <1>3 DEF OwnInv, MergeStep
<1>4. QED
  BY <1>2, <1>3

(* No call makes its caller more or less careful. *)
LEMMA ClientConstant == [Next]_vars => client' = client
<1>1. \A ptr : StartKfree(ptr) => client' = client
  BY DEF StartKfree
<1>2. \A size, w, f : StartKmalloc(size, w, f) => client' = client
  BY DEF StartKmalloc
<1>3. Call => client' = client
  BY <1>1, <1>2 DEF Call, Kmalloc, Kcalloc, Kfree, Krealloc, sys_malloc, sys_free,
                    shell_malloc, shell_free
<1>4. Step => client' = client
  BY <1>1 DEF Step, FindAdvance, FindFail, FindTake, MergeStep, MergeEnd, StatsStep, StatsEnd
<1>5. QED
  BY <1>3, <1>4 DEF Next, vars

(* Callers that free only what they hold keep OwnInv. *)
LEMMA OwnInvariant == Spec => []OwnInv
<1>1. Init => OwnInv
  BY DEF Init, OwnInv
<1>2. IInv /\ OwnInv /\ [Next]_vars => OwnInv'
  <2> SUFFICES ASSUME IInv, OwnInv, [Next]_vars, client = "careful" PROVE OwnInv'
    BY ClientConstant DEF OwnInv
  <2>1. \A size \in Sizes : size \in Nat /\ size = size % SIZE_MOD
    BY HeapAssumption, ModSmall
  <2>2. ASSUME NEW size \in Sizes, Kmalloc(size) PROVE OwnInv'
    BY <2>1, <2>2, StartKmallocOwn DEF Kmalloc
  <2>3. ASSUME NEW num \in Nums, NEW size \in Sizes, Kcalloc(num, size) PROVE OwnInv'
    <3>1. num * size \in Nat
      BY <2>1, HeapAssumption
    <3>2. (num * size) % SIZE_MOD \in Nat
      BY <3>1, HeapAssumption
    <3>3. QED
      BY <3>1, <3>2, <2>3, StartKmallocOwn DEF Kcalloc
  <2>4. ASSUME NEW ptr \in Pointers, Kfree(ptr) PROVE OwnInv'
    BY <2>4, StartKfreeOwn DEF Kfree, Pointers
  <2>5. ASSUME NEW ptr \in Pointers, NEW size \in Sizes, Krealloc(ptr, size) PROVE OwnInv'
    <3>1. ptr \in DOMAIN owned
      BY <2>5 DEF Pointers
    <3>2. CASE size = 0
      BY <3>1, <3>2, <2>5, StartKfreeOwn DEF Krealloc
    <3>3. CASE size # 0
      BY <3>1, <3>3, <2>1, <2>5, StartKmallocOwn DEF Krealloc
    <3>4. QED
      BY <3>2, <3>3
  <2>6. ASSUME StatsEnd PROVE OwnInv'
    <3>1. CASE old # NULL
      BY <3>1, <2>6, StartKfreeOwn DEF StatsEnd, OwnInv
    <3>2. CASE old = NULL
      BY <3>2, <2>6 DEF StatsEnd, Return, Goto, OwnInv
    <3>3. QED
      BY <3>1, <3>2
  <2>7. ASSUME FindAdvance PROVE OwnInv'
    BY <2>7 DEF FindAdvance, Goto, OwnInv
  <2>8. ASSUME FindFail PROVE OwnInv'
    BY <2>8 DEF FindFail, Return, Goto, OwnInv
  <2>9. ASSUME MergeEnd PROVE OwnInv'
    BY <2>9 DEF MergeEnd, StartStats, Goto, OwnInv
  <2>10. ASSUME StatsStep PROVE OwnInv'
    BY <2>10 DEF StatsStep, Goto, OwnInv
  <2>11. CASE UNCHANGED vars
    BY <2>11 DEF vars, OwnInv
  <2>12. QED
    BY <2>2, <2>3, <2>4, <2>5, <2>6, <2>7, <2>8, <2>9, <2>10, <2>11, FindTakeOwn, MergeStepOwn
       DEF Next, Call, Step, sys_malloc, sys_free, shell_malloc, shell_free
<1>3. QED
  BY <1>1, <1>2, HeapInvariant, PTL DEF Spec

(* Callers that free only what they hold never share a byte of the heap. *)
THEOREM HeapIsolation == Spec => []Isolation
<1>1. OwnInv => Isolation
  BY DEF OwnInv, Isolation, Holds, Headers
<1>2. QED
  BY <1>1, OwnInvariant, PTL

(* kmalloc and kcalloc hand out at least the bytes asked for, for every    *)
(* request that can be rounded up within size_t.                           *)
THEOREM HeapGrantCovers == Spec => []GrantCoversRequest
<1>1. ASSUME NEW n \in Nat, n + 3 < SIZE_MOD PROVE Align(n % SIZE_MOD) >= n
  <2>1. n % SIZE_MOD = n /\ (n + 3) % SIZE_MOD = n + 3
    BY <1>1, ModSmall, HeapAssumption
  <2>2. (n + 3) % 4 \in 0 .. 3
    OBVIOUS
  <2>3. QED
    BY <2>1, <2>2 DEF Align
<1>2. IInv /\ OwnInv => GrantCoversRequest
  <2> SUFFICES ASSUME IInv, OwnInv, client = "careful", NEW p \in DOMAIN owned, owned[p] + 3 < SIZE_MOD
               PROVE  block[p - HDR].size >= owned[p]
    BY DEF GrantCoversRequest
  <2>1. owned[p] \in Nat
    BY DEF IInv, Shape, TypeOK
  <2>2. p - HDR \in Headers /\ block[p - HDR].size >= Align(owned[p] % SIZE_MOD)
    BY DEF OwnInv, Holds, Headers
  <2>3. block[p - HDR].size \in Nat
    BY <2>2 DEF IInv, Shape, TypeOK, BlockType
  <2>4. Align(owned[p] % SIZE_MOD) \in Int
    BY <2>1, HeapAssumption DEF Align
  <2>5. QED
    BY <1>1, <2>1, <2>2, <2>3, <2>4
<1>3. QED
  BY <1>2, HeapInvariant, OwnInvariant, PTL
=============================================================================
