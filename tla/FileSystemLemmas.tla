-------------------------- MODULE FileSystemLemmas --------------------------
(***************************************************************************)
(* The lemmas FileSystemProofs rests on, each for every size of the disk,  *)
(* the directory and the table: the packed allocation table implements a   *)
(* map from clusters to 12-bit values; what the chains in such a map are   *)
(* and how they change; what paths the calls are given and which steps     *)
(* they come to; the inductive invariant FsInv, and how an entry that is   *)
(* added, removed or renamed changes the directory.                        *)
(*                                                                         *)
(* The chains are described by a labelling of the clusters in use, own and *)
(* depth, that every step carries along (see Chained); FsInv says that     *)
(* there is one.                                                           *)
(***************************************************************************)
EXTENDS Fat12, FileCalls, FiniteSetTheorems, SequenceTheorems, TLAPS

-----------------------------------------------------------------------------
(* The packed table *)

(* A cluster is 2k or 2k + 1, and its word starts at byte 3k or 3k + 1 of  *)
(* the table.                                                              *)
LEMMA Offsets ==
  ASSUME NEW c \in FatEntries
  PROVE  \E k \in Nat : \/ c = 2 * k /\ c % 2 = 0 /\ fat_offset(c) = 3 * k
                        \/ c = 2 * k + 1 /\ c % 2 = 1 /\ fat_offset(c) = 3 * k + 1
<1>1. c \in Nat
  BY Fat12Assumption DEF FatEntries
<1>2. c \div 2 \in Nat /\ (c = 2 * (c \div 2) \/ c = 2 * (c \div 2) + 1)
  BY <1>1, SMT
<1>3. PICK k \in Nat : c = 2 * k \/ c = 2 * k + 1
  BY <1>2
<1>4. CASE c = 2 * k
  BY <1>4, SMT DEF fat_offset
<1>5. CASE c = 2 * k + 1
  BY <1>5, SMT DEF fat_offset
<1> QED
  BY <1>3, <1>4, <1>5

(* The two bytes of a cluster's word lie in the table. *)
LEMMA WordInTable ==
  ASSUME NEW c \in FatEntries
  PROVE  fat_offset(c) \in Bytes /\ fat_offset(c) + 1 \in Bytes
<1>1. PICK k \in Nat : \/ c = 2 * k /\ c % 2 = 0 /\ fat_offset(c) = 3 * k
                       \/ c = 2 * k + 1 /\ c % 2 = 1 /\ fat_offset(c) = 3 * k + 1
  BY Offsets
<1>2. FAT_ENTRIES \in Nat /\ c \in Nat /\ c < FAT_ENTRIES
  BY Fat12Assumption DEF FatEntries
<1> QED
  BY <1>1, <1>2, SMT DEF Bytes

(* Bytes as bounded numbers. *)
LEMMA ByteBounds == \A x : x \in Byte <=> x \in Nat /\ x < 256
  BY SMT DEF Byte

(* Dividing by a power of two splits a number without loss. *)
LEMMA Nibbles ==
  ASSUME NEW x \in Byte
  PROVE  \E q \in Nat, r \in Nat : /\ q < 16 /\ r < 16 /\ x = 16 * q + r
                                   /\ x \div 16 = q /\ x % 16 = r
<1>1. x \in Nat /\ x < 256
  BY ByteBounds
<1>2. /\ x \div 16 \in Nat /\ x % 16 \in Nat /\ x \div 16 < 16 /\ x % 16 < 16
      /\ x = 16 * (x \div 16) + (x % 16)
  BY <1>1, SMT
<1> QED
  BY <1>2

LEMMA Cut ==
  ASSUME NEW w \in Nat, w < 65536
  PROVE  /\ w % 256 \in Byte
         /\ w \div 256 \in Byte
         /\ w = (w % 256) + 256 * (w \div 256)
<1>1. /\ w % 256 \in Nat /\ w % 256 < 256
      /\ w \div 256 \in Nat /\ w \div 256 < 256
      /\ w = (w % 256) + 256 * (w \div 256)
  BY SMT
<1> QED
  BY <1>1, ByteBounds

(* What fs_write_fat stores is a 16-bit word: it has the value in the      *)
(* cluster's twelve bits and the old bits of the neighbour in the others.  *)
LEMMA OddWord ==
  ASSUME NEW lo \in Byte, NEW hi \in Byte, NEW v \in Nat, v < 4096,
         NEW w, w = ((lo + 256 * hi) % 16) + v * 16
  PROVE  /\ w \in Nat /\ w < 65536
         /\ w \div 16 = v
         /\ (w % 256) % 16 = lo % 16
<1>1. PICK q \in Nat, r \in Nat : q < 16 /\ r < 16 /\ lo = 16 * q + r /\ lo % 16 = r
  BY Nibbles
<1>2. hi \in Nat
  BY ByteBounds
<1>3. (lo + 256 * hi) % 16 = r
  BY <1>1, <1>2, SMT
<1>4. w = r + v * 16 /\ w \in Nat
  BY <1>3, SMT
<1>5. w < 65536
  BY <1>1, <1>4, SMT
<1>6. w \div 16 = v
  BY <1>1, <1>4, SMT
<1>7. (w % 256) % 16 = r
  BY <1>1, <1>4, SMT
<1> QED
  BY <1>1, <1>4, <1>5, <1>6, <1>7

LEMMA EvenWord ==
  ASSUME NEW lo \in Byte, NEW hi \in Byte, NEW v \in Nat, v < 4096,
         NEW w, w = 4096 * ((lo + 256 * hi) \div 4096) + v
  PROVE  /\ w \in Nat /\ w < 65536
         /\ w % 4096 = v
         /\ (w \div 256) \div 16 = hi \div 16
<1>1. PICK q \in Nat, r \in Nat : /\ q < 16 /\ r < 16 /\ hi = 16 * q + r
                                  /\ hi \div 16 = q /\ hi % 16 = r
  BY Nibbles
<1>2. lo \in Nat /\ lo < 256
  BY ByteBounds
<1>3. (lo + 256 * hi) \div 4096 = q
  BY <1>1, <1>2, SMT
<1>4. w = 4096 * q + v /\ w \in Nat
  BY <1>3, SMT
<1>5. w < 65536
  BY <1>1, <1>4, SMT
<1>6. w % 4096 = v
  BY <1>1, <1>4, SMT
<1>7. (w \div 256) \div 16 = q
  BY <1>1, <1>4, SMT
<1> QED
  BY <1>1, <1>4, <1>5, <1>6, <1>7

(* A reading depends on the neighbour's byte only through its own four bits. *)
LEMMA ReadOdd ==
  ASSUME NEW lo \in Byte, NEW hi \in Byte
  PROVE  (lo + 256 * hi) \div 16 = (lo \div 16) + 16 * hi
<1>1. lo \in Nat /\ hi \in Nat
  BY ByteBounds
<1> QED
  BY <1>1, SMT

LEMMA ReadEven ==
  ASSUME NEW lo \in Byte, NEW hi \in Byte
  PROVE  (lo + 256 * hi) % 4096 = lo + 256 * (hi % 16)
<1>1. PICK q \in Nat, r \in Nat : q < 16 /\ r < 16 /\ hi = 16 * q + r /\ hi % 16 = r
  BY Nibbles
<1>2. lo \in Nat /\ lo < 256
  BY ByteBounds
<1> QED
  BY <1>1, <1>2, SMT

(* Storing two adjacent bytes. *)
LEMMA TwoBytes ==
  ASSUME NEW f \in [Bytes -> Byte], NEW a \in Bytes, a + 1 \in Bytes,
         NEW x \in Byte, NEW y \in Byte,
         NEW g, g = [f EXCEPT ![a] = x, ![a + 1] = y]
  PROVE  /\ g \in [Bytes -> Byte]
         /\ g[a] = x /\ g[a + 1] = y
         /\ \A i \in Bytes : i # a /\ i # a + 1 => g[i] = f[i]
<1>1. a # a + 1
  BY DEF Bytes
<1> QED
  BY <1>1

(* The word that fs_write_fat stores for the value v over the word w. *)
NewWord(c, w, v) == IF c % 2 = 1 THEN (w % 16) + v * 16 ELSE 4096 * (w \div 4096) + v

(* What fs_write_fat does to the bytes lo and hi of its cluster: they      *)
(* become the halves x and y of the new word.                              *)
LEMMA Written ==
  ASSUME TableTypeOK, NEW c \in FatEntries, NEW v \in Values, fs_write_fat(c, v),
         NEW a, a = fat_offset(c),
         NEW lo, lo = fat_table[a], NEW hi, hi = fat_table[a + 1],
         NEW w, w = NewWord(c, lo + 256 * hi, v),
         NEW x, x = w % 256, NEW y, y = w \div 256
  PROVE  /\ v \in Nat /\ v < 4096
         /\ a \in Bytes /\ a + 1 \in Bytes
         /\ lo \in Byte /\ hi \in Byte /\ x \in Byte /\ y \in Byte
         /\ w = x + 256 * y
         /\ fat_table' = [fat_table EXCEPT ![a] = x, ![a + 1] = y]
<1>1. a \in Bytes /\ a + 1 \in Bytes
  BY WordInTable
<1>2. lo \in Byte /\ hi \in Byte
  BY <1>1 DEF TableTypeOK
<1>3. v \in Nat /\ v < 4096
  BY Fat12Assumption, SMT
<1>4. w \in Nat /\ w < 65536
  <2>1. CASE c % 2 = 1
    BY <2>1, <1>2, <1>3, OddWord DEF NewWord
  <2>2. CASE c % 2 # 1
    BY <2>2, <1>2, <1>3, EvenWord DEF NewWord
  <2> QED
    BY <2>1, <2>2
<1>5. x \in Byte /\ y \in Byte /\ w = x + 256 * y
  BY <1>4, Cut
<1>6. Word(fat_offset(c)) = lo + 256 * hi
  BY DEF Word
<1>7. StoreWord(a, w)
  BY <1>6, SMT DEF fs_write_fat, NewWord
<1>8. fat_table' = [fat_table EXCEPT ![a] = x, ![a + 1] = y]
  BY <1>7, <1>1, <1>4, <1>5, SMT DEF StoreWord
<1> QED
  BY <1>1, <1>2, <1>3, <1>5, <1>8

(* fs_write_fat keeps the table a table of bytes. *)
LEMMA WriteKeepsBytes ==
  ASSUME TableTypeOK, NEW c \in FatEntries, NEW v \in Values, fs_write_fat(c, v)
  PROVE  TableTypeOK'
<1>1. PICK a, x, y : /\ a \in Bytes /\ a + 1 \in Bytes /\ x \in Byte /\ y \in Byte
                     /\ fat_table' = [fat_table EXCEPT ![a] = x, ![a + 1] = y]
  BY Written
<1> QED
  BY <1>1, TwoBytes DEF TableTypeOK

(* The table holds bytes at every step. *)
THEOREM Fat12TypeCorrect == FatSpec => []TableTypeOK
<1>1. FatInit => TableTypeOK
  <2>1. 0 \in Byte
    BY ByteBounds
  <2> QED
    BY <2>1 DEF FatInit, Zeroed, TableTypeOK
<1>2. TableTypeOK /\ [FatNext]_fat_table => TableTypeOK'
  <2> SUFFICES ASSUME TableTypeOK, [FatNext]_fat_table PROVE TableTypeOK'
    OBVIOUS
  <2>1. CASE clear_fat
    <3>1. 0 \in Byte
      BY ByteBounds
    <3> QED
      BY <3>1, <2>1 DEF clear_fat, Zeroed, TableTypeOK
  <2>2. ASSUME NEW c \in FatEntries, NEW v \in Values, fs_write_fat(c, v)
        PROVE  TableTypeOK'
    BY <2>2, WriteKeepsBytes
  <2>3. CASE UNCHANGED fat_table
    BY <2>3 DEF TableTypeOK
  <2> QED
    BY <2>1, <2>2, <2>3 DEF FatNext
<1> QED
  BY <1>1, <1>2, PTL DEF FatSpec

(* Seen through fs_read_fat, fs_write_fat changes one entry. The other     *)
(* entry of the same three bytes keeps its four bits of the shared byte;   *)
(* every other entry lies in other bytes.                                  *)
LEMMA WriteIsUpdate ==
  ASSUME TableTypeOK, NEW c \in FatEntries, NEW v \in Values, fs_write_fat(c, v),
         NEW d \in FatEntries
  PROVE  fs_read_fat(d)' = IF d = c THEN v ELSE fs_read_fat(d)
<1>1. PICK k \in Nat : \/ c = 2 * k /\ c % 2 = 0 /\ fat_offset(c) = 3 * k
                       \/ c = 2 * k + 1 /\ c % 2 = 1 /\ fat_offset(c) = 3 * k + 1
  BY Offsets
<1>2. PICK j \in Nat : \/ d = 2 * j /\ d % 2 = 0 /\ fat_offset(d) = 3 * j
                       \/ d = 2 * j + 1 /\ d % 2 = 1 /\ fat_offset(d) = 3 * j + 1
  BY Offsets
<1>3. PICK b : b = fat_offset(d)
  OBVIOUS
<1>4. b \in Bytes /\ b + 1 \in Bytes
  BY <1>3, WordInTable
<1>5. PICK p, q : p = fat_table[b] /\ q = fat_table[b + 1]
  OBVIOUS
<1>6. p \in Byte /\ q \in Byte
  BY <1>4, <1>5 DEF TableTypeOK
<1>7. PICK a, lo, hi, w, x, y :
        /\ a = fat_offset(c) /\ lo = fat_table[a] /\ hi = fat_table[a + 1]
        /\ w = NewWord(c, lo + 256 * hi, v)
        /\ x = w % 256 /\ y = w \div 256
  OBVIOUS
<1>8. /\ v \in Nat /\ v < 4096
      /\ a \in Bytes /\ a + 1 \in Bytes
      /\ lo \in Byte /\ hi \in Byte /\ x \in Byte /\ y \in Byte
      /\ w = x + 256 * y
      /\ fat_table' = [fat_table EXCEPT ![a] = x, ![a + 1] = y]
  BY <1>7, Written
<1>9. /\ fat_table'[a] = x /\ fat_table'[a + 1] = y
      /\ \A i \in Bytes : i # a /\ i # a + 1 => fat_table'[i] = fat_table[i]
  BY <1>8, TwoBytes DEF TableTypeOK
<1>10. fs_read_fat(d) = IF d % 2 = 1 THEN (p + 256 * q) \div 16 ELSE (p + 256 * q) % 4096
  BY <1>3, <1>5, SMT DEF fs_read_fat, Word
<1>11. ASSUME NEW s, NEW t, s = fat_table'[b], t = fat_table'[b + 1]
       PROVE  fs_read_fat(d)' = IF d % 2 = 1 THEN (s + 256 * t) \div 16
                                ELSE (s + 256 * t) % 4096
  BY <1>3, <1>11, SMT DEF fs_read_fat, Word, fat_offset
<1>12. CASE d = c
  <2>1. a = b
    BY <1>3, <1>7, <1>12
  <2>2. fs_read_fat(d)' = IF d % 2 = 1 THEN w \div 16 ELSE w % 4096
    <3>1. fat_table'[b] = x /\ fat_table'[b + 1] = y
      BY <2>1, <1>9
    <3>2. fs_read_fat(d)' = IF d % 2 = 1 THEN (x + 256 * y) \div 16
                            ELSE (x + 256 * y) % 4096
      BY <3>1, <1>11
    <3> QED
      BY <3>2, <1>8
  <2>3. CASE c % 2 = 1
    <3>1. w \div 16 = v
      BY <2>3, <1>7, <1>8, OddWord DEF NewWord
    <3> QED
      BY <3>1, <2>2, <2>3, <1>12
  <2>4. CASE c % 2 = 0
    <3>1. w % 4096 = v
      BY <2>4, <1>7, <1>8, EvenWord DEF NewWord
    <3> QED
      BY <3>1, <2>2, <2>4, <1>12
  <2> QED
    BY <2>3, <2>4, <1>1
<1>13. CASE d # c /\ j # k
  <2>1. b # a /\ b # a + 1 /\ b + 1 # a /\ b + 1 # a + 1
    BY <1>1, <1>2, <1>3, <1>7, <1>13, SMT
  <2>2. fat_table'[b] = p /\ fat_table'[b + 1] = q
    BY <2>1, <1>4, <1>5, <1>9
  <2> QED
    BY <2>2, <1>10, <1>11, <1>13, SMT
<1>14. CASE d # c /\ j = k /\ c % 2 = 0
  <2>1. d % 2 = 1 /\ b = a + 1 /\ b + 1 # a /\ b + 1 # a + 1
    BY <1>1, <1>2, <1>3, <1>7, <1>14, SMT
  <2>2. fat_table'[b] = y /\ fat_table'[b + 1] = q /\ p = hi
    BY <2>1, <1>4, <1>5, <1>7, <1>9
  <2>3. (w \div 256) \div 16 = hi \div 16
    BY <1>7, <1>8, <1>14, EvenWord DEF NewWord
  <2>4. y \div 16 = hi \div 16
    BY <2>3, <1>7
  <2>5. (p + 256 * q) \div 16 = (p \div 16) + 16 * q
    BY <1>6, ReadOdd
  <2>6. (y + 256 * q) \div 16 = (y \div 16) + 16 * q
    BY <1>6, <1>8, ReadOdd
  <2> QED
    BY <2>1, <2>2, <2>4, <2>5, <2>6, <1>10, <1>11, <1>14, SMT
<1>15. CASE d # c /\ j = k /\ c % 2 = 1
  <2>1. d % 2 = 0 /\ b + 1 = a /\ b # a /\ b # a + 1
    BY <1>1, <1>2, <1>3, <1>7, <1>15, SMT
  <2>2. fat_table'[b] = p /\ fat_table'[b + 1] = x /\ q = lo
    BY <2>1, <1>4, <1>5, <1>7, <1>9
  <2>3. (w % 256) % 16 = lo % 16
    BY <1>7, <1>8, <1>15, OddWord DEF NewWord
  <2>4. x % 16 = lo % 16
    BY <2>3, <1>7
  <2>5. (p + 256 * q) % 4096 = p + 256 * (q % 16)
    BY <1>6, ReadEven
  <2>6. (p + 256 * x) % 4096 = p + 256 * (x % 16)
    BY <1>6, <1>8, ReadEven
  <2> QED
    BY <2>1, <2>2, <2>4, <2>5, <2>6, <1>10, <1>11, <1>15, SMT
<1> QED
  BY <1>1, <1>12, <1>13, <1>14, <1>15

(* A zeroed table reads as 0 everywhere. *)
LEMMA ZeroedReads ==
  ASSUME NEW d \in FatEntries
  PROVE  /\ fat_table = Zeroed => fs_read_fat(d) = 0
         /\ fat_table' = Zeroed => fs_read_fat(d)' = 0
<1>1. fat_offset(d) \in Bytes /\ fat_offset(d) + 1 \in Bytes
  BY WordInTable
<1>2. Zeroed[fat_offset(d)] = 0 /\ Zeroed[fat_offset(d) + 1] = 0
  BY <1>1 DEF Zeroed
<1>3. (0 + 256 * 0) \div 16 = 0 /\ (0 + 256 * 0) % 4096 = 0
  BY SMT
<1> QED
  BY <1>2, <1>3, SMT DEF fs_read_fat, Word, fat_offset

(* The packed bytes implement the map from clusters to 12-bit values that  *)
(* filesystem.c works with, for every number of clusters.                  *)
THEOREM Fat12IsMap == FatSpec => IsMap
<1> DEFINE seen == [c \in FatEntries |-> fs_read_fat(c)]
           Tied == \A cluster \in FatEntries, value \in Values :
                     fs_write_fat(cluster, value) => Map!Write(cluster, value)
<1>1. FatInit => Map!Init
  BY ZeroedReads DEF FatInit, Map!Init
<1>2. TableTypeOK => Tied
  <2> SUFFICES ASSUME TableTypeOK, NEW c \in FatEntries, NEW v \in Values, fs_write_fat(c, v)
               PROVE  Map!Write(c, v)
    OBVIOUS
  <2>1. \A d \in FatEntries : fs_read_fat(d)' = IF d = c THEN v ELSE fs_read_fat(d)
    BY WriteIsUpdate
  <2>2. seen' = [seen EXCEPT ![c] = v]
    BY <2>1
  <2> QED
    BY <2>2 DEF Map!Write
<1>3. TableTypeOK /\ [FatNext]_fat_table => [Map!Next]_seen
  <2> SUFFICES ASSUME TableTypeOK, [FatNext]_fat_table PROVE [Map!Next]_seen
    OBVIOUS
  <2>1. CASE clear_fat
    BY <2>1, ZeroedReads DEF clear_fat, Map!Next, Map!Clear
  <2>2. ASSUME NEW c \in FatEntries, NEW v \in Values, fs_write_fat(c, v)
        PROVE  Map!Next
    <3>1. Map!Write(c, v)
      BY <1>2, <2>2
    <3> QED
      BY <3>1 DEF Map!Next
  <2>3. CASE UNCHANGED fat_table
    BY <2>3 DEF fs_read_fat, Word
  <2> QED
    BY <2>1, <2>2, <2>3 DEF FatNext
<1>4. TableTypeOK => [Tied]_fat_table
  BY <1>2
<1> QED
  BY <1>1, <1>3, <1>4, Fat12TypeCorrect, PTL DEF FatSpec, IsMap, Map!Spec

-----------------------------------------------------------------------------
(* Numbers: the least element of a set, which the searches for a free      *)
(* cluster and an entry return, induction over a set, and the existence of *)
(* what a recursive function defines.                                      *)

(* A set of natural numbers that is not empty has a least element, which   *)
(* Min returns.                                                            *)
LEMMA MinOfNats ==
  ASSUME NEW S \in SUBSET Nat, S # {}
  PROVE  Min(S) \in S /\ \A y \in S : Min(S) <= y
<1> DEFINE Less == {ss \in Nat \X Nat : ss[1] < ss[2]}
<1>1. IsWellFoundedOn(Less, Nat)
  BY NatLessThanWellFounded DEF OpToRel
<1>2. PICK x \in S : \A y \in S : ~(<<y, x>> \in Less)
  BY <1>1, WFMin, Zenon
<1>3. \A y \in S : <<y, x>> \in Less <=> y < x
  OBVIOUS
<1>4. ASSUME NEW y \in S PROVE x <= y
  <2>1. ~(y < x)
    BY <1>2, <1>3, Zenon
  <2>2. x \in Nat /\ y \in Nat
    OBVIOUS
  <2> HIDE DEF Less
  <2> QED
    BY <2>1, <2>2
<1> QED
  BY <1>4, Zenon DEF Min

(* A set of numbers with 0 that has n + 1 with every n has every number:   *)
(* induction for a property that is given as a set.                        *)
LEMMA InductionOnSet ==
  ASSUME NEW S \in SUBSET Nat, 0 \in S, \A n \in S : n + 1 \in S
  PROVE  S = Nat
<1> SUFFICES ASSUME Nat \ S # {} PROVE FALSE
  BY Zenon
<1> DEFINE x == Min(Nat \ S)
<1>1. x \in Nat /\ x \notin S /\ \A y \in Nat \ S : x <= y
  BY MinOfNats
<1> HIDE DEF x
<1>2. x - 1 \in Nat
  BY <1>1
<1>3. x - 1 \in S
  BY <1>1, <1>2
<1>4. (x - 1) + 1 \in S
  BY <1>3, Zenon
<1> QED
  BY <1>1, <1>4

(* A function of S into itself can be iterated n times from h. *)
Iterates(S, F, h, n) ==
  {f \in [0 .. n -> S] : f[0] = h /\ \A k \in 1 .. n : f[k] = F[f[k - 1]]}

LEMMA Iteration ==
  ASSUME NEW S, NEW F \in [S -> S], NEW h \in S, NEW n \in Nat
  PROVE  Iterates(S, F, h, n) # {}
<1> DEFINE Iterated(f, m) == f[0] = h /\ \A k \in 1 .. m : f[k] = F[f[k - 1]]
           I == {m \in Nat : \E f \in [0 .. m -> S] : Iterated(f, m)}
<1>1. 0 \in I
  <2> DEFINE f == [k \in 0 .. 0 |-> h]
  <2>1. f \in [0 .. 0 -> S] /\ Iterated(f, 0)
    OBVIOUS
  <2> QED
    BY <2>1, Zenon
<1>2. ASSUME NEW m \in I PROVE m + 1 \in I
  <2>1. PICK f \in [0 .. m -> S] : Iterated(f, m)
    OBVIOUS
  <2> DEFINE e == [k \in 0 .. m + 1 |-> IF k = m + 1 THEN F[f[m]] ELSE f[k]]
  <2>2. m \in Nat
    OBVIOUS
  <2>3. e \in [0 .. m + 1 -> S]
    BY <2>2
  <2>4. e[0] = h
    BY <2>1, <2>2
  <2>5. ASSUME NEW k \in 1 .. m + 1 PROVE e[k] = F[e[k - 1]]
    <3>1. CASE k = m + 1
      BY <2>2, <3>1
    <3>2. CASE k # m + 1
      <4>1. k \in 1 .. m /\ k - 1 \in 0 .. m /\ k - 1 # m + 1
        BY <2>2, <3>2
      <4> QED
        BY <2>1, <2>2, <4>1
    <3> QED
      BY <3>1, <3>2
  <2> HIDE DEF e
  <2> QED
    BY <2>2, <2>3, <2>4, <2>5
<1>3. I = Nat
  <2>1. I \in SUBSET Nat
    OBVIOUS
  <2> HIDE DEF I
  <2> QED
    BY <1>1, <1>2, <2>1, InductionOnSet
<1> QED
  BY <1>3 DEF Iterates

-----------------------------------------------------------------------------
(* Chains, for any table f *)

(* What a walk along the links of f can meet. *)
Links == Clusters \cup {EOC}
InUse(f) == {c \in 2 .. CLUSTERS - 1 : f[c] # FREE_CLUSTER}

(* Each cluster in use belongs to the chain of its owner own[c], where it  *)
(* is the one number depth[c]: the owner itself is number 0, a link leads  *)
(* to the next number of the same chain, every number but 0 is linked to,  *)
(* and no number is there twice.                                           *)
Chained(f, own, depth) ==
  /\ f \in [Clusters -> Links]
  /\ own \in [Clusters -> Clusters] /\ depth \in [Clusters -> Nat]
  /\ \A c \in Clusters : f[c] \in {FREE_CLUSTER, EOC} \cup InUse(f)
  /\ f[0] = FREE_CLUSTER /\ f[1] = FREE_CLUSTER
  /\ \A c \in InUse(f) :
       /\ own[c] \in InUse(f) /\ own[own[c]] = own[c]
       /\ depth[c] = 0 <=> own[c] = c
       /\ f[c] # EOC => own[f[c]] = own[c] /\ depth[f[c]] = depth[c] + 1
       /\ depth[c] # 0 => \E d \in InUse(f) : f[d] = c
  /\ \A c, d \in InUse(f) : own[c] = own[d] /\ depth[c] = depth[d] => c = d

LEMMA ClusterNumbers ==
  /\ CLUSTERS \in Nat /\ CLUSTERS >= 3 /\ CLUSTERS < LAST /\ LAST < EOC /\ EOC \in Nat /\ LAST \in Nat
  /\ \A c \in Clusters : c \in Nat /\ c < CLUSTERS /\ ~(c >= LAST) /\ c # EOC
  /\ EOC >= LAST /\ EOC # FREE_CLUSTER /\ EOC \notin Clusters
  /\ \A f : InUse(f) \subseteq Clusters /\ FREE_CLUSTER \notin InUse(f)
<1>1. /\ CLUSTERS \in Nat /\ CLUSTERS >= 3 /\ CLUSTERS < LAST /\ LAST < EOC /\ EOC \in Nat /\ LAST \in Nat
  BY FileSystemAssumption DEF LAST, EOC
<1>2. \A c \in Clusters : c \in Nat /\ c < CLUSTERS /\ ~(c >= LAST) /\ c # EOC
  BY <1>1 DEF Clusters
<1>3. \A f : InUse(f) \subseteq Clusters /\ FREE_CLUSTER \notin InUse(f)
  BY <1>1 DEF Clusters, InUse, FREE_CLUSTER
<1>4. EOC >= LAST /\ EOC # FREE_CLUSTER /\ EOC \notin Clusters
  BY <1>1, <1>2 DEF FREE_CLUSTER
<1> QED
  BY <1>1, <1>2, <1>3, <1>4

(* Walk follows the links and stays where the chain ends. *)
LEMMA WalkFacts ==
  ASSUME NEW f \in [Clusters -> Links], NEW h \in Clusters
  PROVE  /\ Walk(f, h) \in [0 .. CLUSTERS -> Links]
         /\ Walk(f, h)[0] = h
         /\ \A k \in 1 .. CLUSTERS :
              Walk(f, h)[k] = IF Walk(f, h)[k - 1] >= LAST THEN Walk(f, h)[k - 1] ELSE f[Walk(f, h)[k - 1]]
<1> DEFINE F == [x \in Links |-> IF x >= LAST THEN x ELSE f[x]]
           Eq(w) == w = [k \in 0 .. CLUSTERS |->
                           IF k = 0 THEN h ELSE IF w[k - 1] >= LAST THEN w[k - 1] ELSE f[w[k - 1]]]
           node == CHOOSE w : Eq(w)
<1>1. F \in [Links -> Links]
  <2> SUFFICES ASSUME NEW x \in Links PROVE (IF x >= LAST THEN x ELSE f[x]) \in Links
    OBVIOUS
  <2>1. x \in Clusters \/ x >= LAST
    BY ClusterNumbers DEF Links
  <2> QED
    BY <2>1
<1>2. CLUSTERS \in Nat /\ h \in Links
  BY ClusterNumbers DEF Links
<1>3. PICK w \in [0 .. CLUSTERS -> Links] : w[0] = h /\ \A k \in 1 .. CLUSTERS : w[k] = F[w[k - 1]]
  <2> HIDE DEF F
  <2>1. Iterates(Links, F, h, CLUSTERS) # {}
    BY <1>1, <1>2, Iteration
  <2> QED
    BY <2>1 DEF Iterates
<1>4. \A k \in 1 .. CLUSTERS : w[k] = IF w[k - 1] >= LAST THEN w[k - 1] ELSE f[w[k - 1]]
  <2> SUFFICES ASSUME NEW k \in 1 .. CLUSTERS
               PROVE  w[k] = IF w[k - 1] >= LAST THEN w[k - 1] ELSE f[w[k - 1]]
    OBVIOUS
  <2>1. k - 1 \in 0 .. CLUSTERS
    BY <1>2
  <2>2. w[k - 1] \in Links
    BY <2>1
  <2> QED
    BY <1>3, <2>2, Zenon
<1>5. Eq(w)
  <2> DEFINE r == [k \in 0 .. CLUSTERS |->
                     IF k = 0 THEN h ELSE IF w[k - 1] >= LAST THEN w[k - 1] ELSE f[w[k - 1]]]
  <2>1. ASSUME NEW k \in 0 .. CLUSTERS PROVE w[k] = r[k]
    <3>1. CASE k = 0
      BY <1>3, <3>1
    <3>2. CASE k # 0
      <4>1. k \in 1 .. CLUSTERS
        BY <1>2, <3>2
      <4> QED
        BY <1>4, <3>2, <4>1, Zenon
    <3> QED
      BY <3>1, <3>2
  <2>2. \A k \in 0 .. CLUSTERS : w[k] = r[k]
    BY <2>1
  <2>3. w = r
    BY <2>2
  <2> QED
    BY <2>3, Zenon
<1>6. Eq(node)
  <2> HIDE DEF Eq
  <2> QED
    BY <1>5
<1>7. Walk(f, h) = node
  BY DEF Walk
<1> HIDE DEF node
<1>8. ASSUME NEW k \in 0 .. CLUSTERS, k # 0
      PROVE  node[k] = IF node[k - 1] >= LAST THEN node[k - 1] ELSE f[node[k - 1]]
  BY <1>6, <1>8, Zenon
<1>9. node[0] = h
  BY <1>2, <1>6
<1> DEFINE Same == {k \in Nat : k <= CLUSTERS => node[k] = w[k]}
<1>10. Same = Nat
  <2>1. 0 \in Same
    BY <1>3, <1>9
  <2>2. ASSUME NEW k \in Same PROVE k + 1 \in Same
    <3>1. CASE k + 1 <= CLUSTERS
      <4>1. k \in Nat /\ k <= CLUSTERS /\ k + 1 \in 1 .. CLUSTERS /\ k + 1 \in 0 .. CLUSTERS /\ k + 1 # 0 /\ (k + 1) - 1 = k
        BY <1>2, <3>1
      <4>2. node[k] = w[k]
        BY <4>1
      <4>3. node[k + 1] = IF node[k] >= LAST THEN node[k] ELSE f[node[k]]
        BY <1>8, <4>1
      <4>4. w[k + 1] = IF w[k] >= LAST THEN w[k] ELSE f[w[k]]
        BY <1>4, <4>1
      <4> QED
        BY <4>1, <4>2, <4>3, <4>4
    <3> QED
      BY <3>1
  <2>3. Same \in SUBSET Nat
    OBVIOUS
  <2> HIDE DEF Same
  <2> QED
    BY <2>1, <2>2, <2>3, InductionOnSet
<1>11. \A k \in 0 .. CLUSTERS : node[k] = w[k]
  BY <1>2, <1>10
<1>12. node = w
  <2>1. DOMAIN node = 0 .. CLUSTERS
    BY <1>6, Zenon
  <2>2. node = [k \in 0 .. CLUSTERS |-> node[k]]
    BY <1>6
  <2> QED
    BY <1>11, <2>2
<1> QED
  BY <1>3, <1>4, <1>7, <1>12

(* The walk from the owner of a chain passes its numbers one by one. *)
LEMMA ChainWalk ==
  ASSUME NEW f, NEW own, NEW depth, Chained(f, own, depth), NEW h \in InUse(f), own[h] = h,
         NEW k \in 0 .. CLUSTERS, Walk(f, h)[k] # EOC
  PROVE  \A j \in 0 .. k : Walk(f, h)[j] \in InUse(f) /\ own[Walk(f, h)[j]] = h /\ depth[Walk(f, h)[j]] = j
<1> DEFINE w == Walk(f, h)
           At(j) == w[j] \in InUse(f) /\ own[w[j]] = h /\ depth[w[j]] = j
           S == {i \in Nat : i <= CLUSTERS /\ w[i] # EOC => \A j \in 0 .. i : At(j)}
<1>1. h \in Clusters /\ f \in [Clusters -> Links] /\ CLUSTERS \in Nat
  BY ClusterNumbers DEF Chained
<1>2. w[0] = h /\ \A j \in 1 .. CLUSTERS : w[j] = IF w[j - 1] >= LAST THEN w[j - 1] ELSE f[w[j - 1]]
  BY <1>1, WalkFacts, Zenon
<1> HIDE DEF w
<1>3. 0 \in S
  <2>1. At(0)
    BY <1>2 DEF Chained
  <2> QED
    BY <2>1
<1>4. ASSUME NEW i \in S PROVE i + 1 \in S
  <2> SUFFICES ASSUME i + 1 <= CLUSTERS, w[i + 1] # EOC PROVE \A j \in 0 .. i + 1 : At(j)
    OBVIOUS
  <2>1. i \in Nat /\ i <= CLUSTERS /\ i + 1 \in 1 .. CLUSTERS /\ (i + 1) - 1 = i
    BY <1>1
  <2>2. w[i + 1] = IF w[i] >= LAST THEN w[i] ELSE f[w[i]]
    BY <1>2, <2>1
  <2>3. w[i] # EOC
    BY <2>2, ClusterNumbers
  <2>4. \A j \in 0 .. i : At(j)
    BY <2>1, <2>3
  <2>5. At(i)
    BY <2>1, <2>4
  <2>6. w[i + 1] = f[w[i]]
    BY <2>2, <2>5, ClusterNumbers
  <2>7. w[i] \in Clusters
    BY <2>5, ClusterNumbers
  <2>8. f[w[i]] \in InUse(f) /\ own[f[w[i]]] = h /\ depth[f[w[i]]] = i + 1
    BY <2>5, <2>6, <2>7 DEF Chained, InUse
  <2>9. At(i + 1)
    BY <2>6, <2>8, Zenon
  <2>10. \A j \in 0 .. i + 1 : j \in 0 .. i \/ j = i + 1
    BY <2>1
  <2> HIDE DEF At
  <2> QED
    BY <2>4, <2>9, <2>10, Zenon
<1>5. S = Nat
  <2>1. S \in SUBSET Nat
    OBVIOUS
  <2> HIDE DEF S
  <2> QED
    BY <1>3, <1>4, <2>1, InductionOnSet
<1>6. k \in S /\ k <= CLUSTERS
  BY <1>1, <1>5
<1> QED
  BY <1>6 DEF w

(* A chain cannot be longer than there are clusters, so its walk ends. *)
LEMMA ChainEnds ==
  ASSUME NEW f, NEW own, NEW depth, Chained(f, own, depth), NEW h \in InUse(f), own[h] = h
  PROVE  Walk(f, h)[CLUSTERS] = EOC /\ Ends(f, h)
<1> DEFINE w == Walk(f, h)
<1>1. h \in Clusters /\ f \in [Clusters -> Links] /\ CLUSTERS \in Nat
  BY ClusterNumbers DEF Chained
<1>2. w \in [0 .. CLUSTERS -> Links]
  BY <1>1, WalkFacts
<1>3. ASSUME w[CLUSTERS] # EOC PROVE FALSE
  <2>1. CLUSTERS \in 0 .. CLUSTERS
    BY <1>1
  <2>2. \A j \in 0 .. CLUSTERS : w[j] \in InUse(f) /\ depth[w[j]] = j
    BY <1>3, <2>1, ChainWalk
  <2> HIDE DEF w
  <2>3. w \in [0 .. CLUSTERS -> InUse(f)]
    BY <1>2, <2>2
  <2>4. InUse(f) \in SUBSET (0 .. CLUSTERS - 1)
    BY <1>1 DEF InUse
  <2>5. /\ IsFiniteSet(0 .. CLUSTERS - 1) /\ Cardinality(0 .. CLUSTERS - 1) = CLUSTERS
        /\ IsFiniteSet(0 .. CLUSTERS) /\ Cardinality(0 .. CLUSTERS) = CLUSTERS + 1
    <3>1. \A lo, hi \in Int : IsFiniteSet(lo .. hi) /\ (lo <= hi => Cardinality(lo .. hi) = hi - lo + 1)
      BY FS_Interval
    <3>2. 0 \in Int /\ CLUSTERS - 1 \in Int /\ CLUSTERS \in Int /\ 0 <= CLUSTERS /\ 0 <= CLUSTERS - 1
          /\ CLUSTERS - 1 - 0 + 1 = CLUSTERS /\ CLUSTERS - 0 + 1 = CLUSTERS + 1
      BY ClusterNumbers
    <3> QED
      BY <3>1, <3>2, Zenon
  <2>6. IsFiniteSet(InUse(f)) /\ Cardinality(InUse(f)) <= CLUSTERS
    BY <2>4, <2>5, FS_Subset
  <2>7. Cardinality(InUse(f)) \in Nat
    BY <2>6, FS_CardinalityType
  <2>8. Cardinality(InUse(f)) < Cardinality(0 .. CLUSTERS)
    BY <1>1, <2>5, <2>6, <2>7
  <2>9. \E x, y \in 0 .. CLUSTERS : x # y /\ w[x] = w[y]
    BY <2>3, <2>5, <2>6, <2>8, FS_PigeonHole
  <2> QED
    BY <2>2, <2>9
<1> QED
  BY <1>3, ClusterNumbers DEF Ends

(* Chain collects exactly the clusters of the owner. *)
LEMMA ChainIs ==
  ASSUME NEW f, NEW own, NEW depth, Chained(f, own, depth), NEW h \in InUse(f), own[h] = h
  PROVE  Chain(f, h) = {c \in InUse(f) : own[c] = h}
<1> DEFINE w == Walk(f, h)
           Q(n) == \A c \in InUse(f) : own[c] = h /\ depth[c] = n => n <= CLUSTERS /\ w[n] = c
           S == {n \in Nat : Q(n)}
<1>1. h \in Clusters /\ f \in [Clusters -> Links] /\ CLUSTERS \in Nat
  BY ClusterNumbers DEF Chained
<1>2. w[0] = h /\ \A j \in 1 .. CLUSTERS : w[j] = IF w[j - 1] >= LAST THEN w[j - 1] ELSE f[w[j - 1]]
  BY <1>1, WalkFacts, Zenon
<1>3. w[CLUSTERS] = EOC
  BY ChainEnds
<1>4. \A j \in 0 .. CLUSTERS : w[j] # EOC => w[j] \in InUse(f) /\ own[w[j]] = h
  <2> SUFFICES ASSUME NEW j \in 0 .. CLUSTERS, w[j] # EOC PROVE w[j] \in InUse(f) /\ own[w[j]] = h
    OBVIOUS
  <2>1. j \in 0 .. j
    BY <1>1
  <2> QED
    BY <2>1, ChainWalk
<1>5. Chain(f, h) = {w[k] : k \in 0 .. CLUSTERS} \cap Clusters
  BY DEF Chain
<1> HIDE DEF w
<1>6. 0 \in S
  <2> SUFFICES ASSUME NEW c \in InUse(f), own[c] = h, depth[c] = 0 PROVE 0 <= CLUSTERS /\ w[0] = c
    OBVIOUS
  <2> QED
    BY <1>1, <1>2 DEF Chained
<1>7. ASSUME NEW n \in S PROVE n + 1 \in S
  <2> SUFFICES ASSUME NEW c \in InUse(f), own[c] = h, depth[c] = n + 1
               PROVE  n + 1 <= CLUSTERS /\ w[n + 1] = c
    OBVIOUS
  <2>1. n \in Nat /\ n + 1 # 0
    OBVIOUS
  <2>2. PICK d \in InUse(f) : f[d] = c
    BY <2>1 DEF Chained
  <2>3. c # EOC /\ c \in Clusters /\ d \in Clusters
    BY ClusterNumbers
  <2>4. own[d] = h /\ depth[d] = n
    <3>1. own[c] = own[d] /\ depth[c] = depth[d] + 1 /\ depth[d] \in Nat
      BY <2>2, <2>3 DEF Chained
    <3> QED
      BY <2>1, <3>1
  <2>5. n <= CLUSTERS /\ w[n] = d
    BY <2>4
  <2>6. n # CLUSTERS
    BY <1>3, <2>3, <2>5, ClusterNumbers
  <2>7. n + 1 \in 1 .. CLUSTERS /\ (n + 1) - 1 = n /\ n + 1 <= CLUSTERS
    BY <1>1, <2>1, <2>5, <2>6
  <2>8. w[n + 1] = IF w[n] >= LAST THEN w[n] ELSE f[w[n]]
    BY <1>2, <2>7
  <2> QED
    BY <2>2, <2>3, <2>5, <2>7, <2>8, ClusterNumbers
<1>8. S = Nat
  <2>1. S \in SUBSET Nat
    OBVIOUS
  <2> HIDE DEF S
  <2> QED
    BY <1>6, <1>7, <2>1, InductionOnSet
<1>9. ASSUME NEW c \in InUse(f), own[c] = h PROVE c \in Chain(f, h)
  <2>1. c \in Clusters /\ depth[c] \in Nat
    BY ClusterNumbers DEF Chained
  <2>2. depth[c] <= CLUSTERS /\ w[depth[c]] = c
    BY <1>8, <1>9, <2>1
  <2>3. depth[c] \in 0 .. CLUSTERS
    BY <1>1, <2>1, <2>2
  <2> QED
    BY <1>5, <2>1, <2>2, <2>3
<1>10. ASSUME NEW c \in Chain(f, h) PROVE c \in InUse(f) /\ own[c] = h
  BY <1>4, <1>5, ClusterNumbers
<1> QED
  BY <1>9, <1>10

-----------------------------------------------------------------------------
(* What the calls do to the table keeps it chained. *)

(* A free cluster becomes a chain of its own. *)
LEMMA NewChain ==
  ASSUME NEW f, NEW own, NEW depth, Chained(f, own, depth),
         NEW n \in 2 .. CLUSTERS - 1, f[n] = FREE_CLUSTER
  PROVE  LET g == [f EXCEPT ![n] = EOC]
         IN  /\ InUse(g) = InUse(f) \cup {n}
             /\ Chained(g, [own EXCEPT ![n] = n], [depth EXCEPT ![n] = 0])
<1> DEFINE g == [f EXCEPT ![n] = EOC]
           own2 == [own EXCEPT ![n] = n]
           depth2 == [depth EXCEPT ![n] = 0]
<1>1. /\ f \in [Clusters -> Links] /\ own \in [Clusters -> Clusters] /\ depth \in [Clusters -> Nat]
      /\ f[0] = FREE_CLUSTER /\ f[1] = FREE_CLUSTER
  BY DEF Chained
<1>2. n \in Clusters /\ n # 0 /\ n # 1 /\ EOC \in Links /\ n \notin InUse(f) /\ InUse(f) \subseteq Clusters
  BY ClusterNumbers DEF Clusters, Links, InUse
<1>3. /\ g \in [Clusters -> Links] /\ own2 \in [Clusters -> Clusters] /\ depth2 \in [Clusters -> Nat]
      /\ g[n] = EOC /\ own2[n] = n /\ depth2[n] = 0
      /\ \A c \in Clusters : c # n => g[c] = f[c] /\ own2[c] = own[c] /\ depth2[c] = depth[c]
  BY <1>1, <1>2
<1> HIDE DEF g, own2, depth2
<1>4. InUse(g) = InUse(f) \cup {n}
  <2>1. \A c \in 2 .. CLUSTERS - 1 : c \in Clusters
    BY ClusterNumbers DEF Clusters
  <2>2. \A c \in 2 .. CLUSTERS - 1 : g[c] # FREE_CLUSTER <=> f[c] # FREE_CLUSTER \/ c = n
    BY <1>3, <2>1, ClusterNumbers
  <2> QED
    BY <2>2 DEF InUse
<1>5. ASSUME NEW c \in Clusters PROVE g[c] \in {FREE_CLUSTER, EOC} \cup InUse(g)
  BY <1>3, <1>4 DEF Chained
<1>6. g[0] = FREE_CLUSTER /\ g[1] = FREE_CLUSTER
  BY <1>1, <1>2, <1>3, ClusterNumbers DEF Clusters
<1>7. ASSUME NEW c \in InUse(g)
      PROVE  /\ own2[c] \in InUse(g) /\ own2[own2[c]] = own2[c]
             /\ depth2[c] = 0 <=> own2[c] = c
             /\ g[c] # EOC => own2[g[c]] = own2[c] /\ depth2[g[c]] = depth2[c] + 1
             /\ depth2[c] # 0 => \E d \in InUse(g) : g[d] = c
  <2>1. CASE c = n
    BY <1>2, <1>3, <1>4, <2>1
  <2>2. CASE c # n
    <3>1. c \in InUse(f) /\ c \in Clusters
      BY <1>2, <1>4, <2>2
    <3>2. /\ own[c] \in InUse(f) /\ own[own[c]] = own[c]
          /\ depth[c] = 0 <=> own[c] = c
          /\ f[c] # EOC => own[f[c]] = own[c] /\ depth[f[c]] = depth[c] + 1
          /\ depth[c] # 0 => \E d \in InUse(f) : f[d] = c
      BY <3>1 DEF Chained
    <3>3. f[c] # EOC => f[c] \in InUse(f)
      BY <3>1 DEF Chained, InUse
    <3>4. depth2[c] = depth[c] /\ own2[c] = own[c] /\ g[c] = f[c]
      BY <1>3, <2>2, <3>1
    <3>5. depth[c] # 0 => \E d \in InUse(g) : g[d] = c
      BY <1>2, <1>3, <1>4, <3>2
    <3> QED
      BY <1>2, <1>3, <1>4, <3>2, <3>3, <3>4, <3>5
  <2> QED
    BY <2>1, <2>2
<1>8. ASSUME NEW c \in InUse(g), NEW d \in InUse(g), own2[c] = own2[d], depth2[c] = depth2[d] PROVE c = d
  <2>1. \A x \in InUse(f) : own[x] # n
    BY <1>2 DEF Chained
  <2>2. CASE c = n \/ d = n
    BY <1>2, <1>3, <1>4, <1>8, <2>1, <2>2
  <2>3. CASE c # n /\ d # n
    <3>1. c \in InUse(f) /\ d \in InUse(f)
      BY <1>4, <2>3
    <3>2. own[c] = own[d] /\ depth[c] = depth[d]
      BY <1>2, <1>3, <1>8, <2>3, <3>1
    <3> QED
      BY <3>1, <3>2 DEF Chained
  <2> QED
    BY <2>2, <2>3
<1>9. Chained(g, own2, depth2)
  BY <1>3, <1>5, <1>6, <1>7, <1>8 DEF Chained
<1> QED
  BY <1>4, <1>9 DEF g, own2, depth2

(* A free cluster is linked to the end of a chain. *)
LEMMA LongerChain ==
  ASSUME NEW f, NEW own, NEW depth, Chained(f, own, depth),
         NEW n \in 2 .. CLUSTERS - 1, f[n] = FREE_CLUSTER, NEW m \in InUse(f), f[m] = EOC
  PROVE  LET g == [f EXCEPT ![n] = EOC, ![m] = n]
         IN  /\ InUse(g) = InUse(f) \cup {n}
             /\ Chained(g, [own EXCEPT ![n] = own[m]], [depth EXCEPT ![n] = depth[m] + 1])
<1> DEFINE g == [f EXCEPT ![n] = EOC, ![m] = n]
           own2 == [own EXCEPT ![n] = own[m]]
           depth2 == [depth EXCEPT ![n] = depth[m] + 1]
<1>1. /\ f \in [Clusters -> Links] /\ own \in [Clusters -> Clusters] /\ depth \in [Clusters -> Nat]
      /\ f[0] = FREE_CLUSTER /\ f[1] = FREE_CLUSTER
  BY DEF Chained
<1>2. /\ n \in Clusters /\ n # 0 /\ n # 1 /\ n \in Links /\ n # EOC /\ EOC \in Links /\ n \notin InUse(f)
      /\ InUse(f) \subseteq Clusters /\ m # n /\ m \in Clusters /\ m # 0 /\ m # 1
  BY ClusterNumbers DEF Clusters, Links, InUse
<1>3. /\ g \in [Clusters -> Links] /\ own2 \in [Clusters -> Clusters] /\ depth2 \in [Clusters -> Nat]
      /\ g[n] = EOC /\ g[m] = n /\ own2[n] = own[m] /\ depth2[n] = depth[m] + 1
      /\ own2[m] = own[m] /\ depth2[m] = depth[m]
      /\ \A c \in Clusters : c # n => own2[c] = own[c] /\ depth2[c] = depth[c]
      /\ \A c \in Clusters : c # n /\ c # m => g[c] = f[c]
  BY <1>1, <1>2
<1> HIDE DEF g, own2, depth2
<1>4. InUse(g) = InUse(f) \cup {n}
  <2>1. n # FREE_CLUSTER /\ EOC # FREE_CLUSTER /\ f[m] # FREE_CLUSTER
    BY <1>2, ClusterNumbers DEF FREE_CLUSTER
  <2>2. \A c \in 2 .. CLUSTERS - 1 : c \in Clusters /\ (c \in InUse(f) <=> f[c] # FREE_CLUSTER)
    BY ClusterNumbers DEF InUse, Clusters
  <2>3. \A c \in 2 .. CLUSTERS - 1 : g[c] # FREE_CLUSTER <=> f[c] # FREE_CLUSTER \/ c = n
    BY <1>2, <1>3, <2>1, <2>2
  <2> QED
    BY <2>3 DEF InUse
<1>5. ASSUME NEW c \in Clusters PROVE g[c] \in {FREE_CLUSTER, EOC} \cup InUse(g)
  BY <1>3, <1>4 DEF Chained
<1>6. g[0] = FREE_CLUSTER /\ g[1] = FREE_CLUSTER
  BY <1>1, <1>2, <1>3, ClusterNumbers DEF Clusters
<1>7. /\ own[m] \in InUse(f) /\ own[own[m]] = own[m] /\ own[m] # n /\ depth[m] \in Nat /\ depth[m] + 1 # 0
  BY <1>1, <1>2 DEF Chained
<1>8. ASSUME NEW c \in InUse(g)
      PROVE  /\ own2[c] \in InUse(g) /\ own2[own2[c]] = own2[c]
             /\ depth2[c] = 0 <=> own2[c] = c
             /\ g[c] # EOC => own2[g[c]] = own2[c] /\ depth2[g[c]] = depth2[c] + 1
             /\ depth2[c] # 0 => \E d \in InUse(g) : g[d] = c
  <2>1. CASE c = n
    BY <1>2, <1>3, <1>4, <1>7, <2>1
  <2>2. CASE c # n
    <3>1. c \in InUse(f) /\ c \in Clusters
      BY <1>2, <1>4, <2>2
    <3>2. /\ own[c] \in InUse(f) /\ own[own[c]] = own[c]
          /\ depth[c] = 0 <=> own[c] = c
          /\ f[c] # EOC => own[f[c]] = own[c] /\ depth[f[c]] = depth[c] + 1
          /\ depth[c] # 0 => \E d \in InUse(f) : f[d] = c
      BY <3>1 DEF Chained
    <3>3. f[c] # EOC => f[c] \in InUse(f)
      BY <3>1 DEF Chained, InUse
    <3>4. depth2[c] = depth[c] /\ own2[c] = own[c] /\ (c # m => g[c] = f[c])
      BY <1>3, <2>2, <3>1
    <3>5. depth[c] # 0 => \E d \in InUse(g) : g[d] = c
      <4> SUFFICES ASSUME depth[c] # 0 PROVE \E d \in InUse(g) : g[d] = c
        OBVIOUS
      <4>1. PICK d \in InUse(f) : f[d] = c
        BY <3>2
      <4>2. d # m /\ d # n /\ d \in Clusters
        BY <1>2, <3>1, <4>1, ClusterNumbers
      <4> QED
        BY <1>3, <1>4, <4>1, <4>2
    <3>6. g[c] # EOC => own2[g[c]] = own2[c] /\ depth2[g[c]] = depth2[c] + 1
      <4>1. CASE c = m
        BY <1>3, <4>1
      <4>2. CASE c # m
        BY <1>2, <1>3, <3>2, <3>3, <3>4, <4>2
      <4> QED
        BY <4>1, <4>2
    <3>7. own2[c] \in InUse(g) /\ own2[own2[c]] = own2[c]
      BY <1>2, <1>3, <1>4, <3>2, <3>4
    <3> QED
      BY <3>2, <3>4, <3>5, <3>6, <3>7
  <2> QED
    BY <2>1, <2>2
<1>9. ASSUME NEW c \in InUse(g), NEW d \in InUse(g), own2[c] = own2[d], depth2[c] = depth2[d] PROVE c = d
  <2>1. \A x \in InUse(f) : own[x] = own[m] => depth[x] # depth[m] + 1
    <3> SUFFICES ASSUME NEW x \in InUse(f), own[x] = own[m], depth[x] = depth[m] + 1 PROVE FALSE
      OBVIOUS
    <3>1. PICK d2 \in InUse(f) : f[d2] = x
      BY <1>7 DEF Chained
    <3>2. x # EOC /\ d2 \in Clusters
      BY <1>2, ClusterNumbers
    <3>3. own[x] = own[d2] /\ depth[x] = depth[d2] + 1 /\ depth[d2] \in Nat
      BY <1>1, <3>1, <3>2 DEF Chained
    <3>4. d2 = m
      <4>1. own[d2] = own[m] /\ depth[d2] = depth[m]
        BY <1>7, <3>3
      <4> QED
        BY <4>1 DEF Chained
    <3> QED
      BY <3>1, <3>2, <3>4
  <2>2. \A x \in InUse(f) : x # n /\ own2[x] = own[x] /\ depth2[x] = depth[x]
    BY <1>2, <1>3
  <2>3. CASE c = n /\ d # n
    <3>1. d \in InUse(f)
      BY <1>4, <2>3
    <3> QED
      BY <1>3, <1>9, <2>1, <2>2, <2>3, <3>1
  <2>4. CASE d = n /\ c # n
    <3>1. c \in InUse(f)
      BY <1>4, <2>4
    <3> QED
      BY <1>3, <1>9, <2>1, <2>2, <2>4, <3>1
  <2>5. CASE c # n /\ d # n
    <3>1. c \in InUse(f) /\ d \in InUse(f)
      BY <1>4, <2>5
    <3>2. own[c] = own[d] /\ depth[c] = depth[d]
      BY <1>9, <2>2, <3>1
    <3> QED
      BY <3>1, <3>2 DEF Chained
  <2> QED
    BY <2>3, <2>4, <2>5
<1>10. Chained(g, own2, depth2)
  BY <1>3, <1>5, <1>6, <1>8, <1>9 DEF Chained
<1> QED
  BY <1>4, <1>10 DEF g, own2, depth2

(* A whole chain is given back. *)
LEMMA ChainFreed ==
  ASSUME NEW f, NEW own, NEW depth, Chained(f, own, depth), NEW h \in InUse(f), own[h] = h
  PROVE  /\ InUse(WithoutChain(f, h)) = {c \in InUse(f) : own[c] # h}
         /\ Chained(WithoutChain(f, h), own, depth)
<1> DEFINE g == WithoutChain(f, h)
<1>1. Chain(f, h) = {c \in InUse(f) : own[c] = h}
  BY ChainIs
<1>2. /\ f \in [Clusters -> Links] /\ own \in [Clusters -> Clusters] /\ depth \in [Clusters -> Nat]
      /\ f[0] = FREE_CLUSTER /\ f[1] = FREE_CLUSTER
  BY DEF Chained
<1>3. /\ InUse(f) \subseteq Clusters /\ 0 \in Clusters /\ 1 \in Clusters /\ 0 \in Links /\ FREE_CLUSTER = 0 /\ FREE_CLUSTER # EOC
      /\ 2 .. CLUSTERS - 1 \subseteq Clusters
  BY ClusterNumbers DEF Clusters, Links, FREE_CLUSTER
<1>4. /\ \A c \in Clusters : g[c] = IF c \in InUse(f) /\ own[c] = h THEN FREE_CLUSTER ELSE f[c]
      /\ g = [x \in Clusters |-> g[x]]
  BY <1>1 DEF WithoutChain
<1> HIDE DEF g
<1>5. g \in [Clusters -> Links]
  <2>1. \A x \in Clusters : g[x] \in Links
    BY <1>2, <1>3, <1>4
  <2> QED
    BY <1>4, <2>1
<1>6. \A c \in InUse(f) : c \in 2 .. CLUSTERS - 1 /\ f[c] # FREE_CLUSTER
  BY DEF InUse
<1>7. InUse(g) = {c \in InUse(f) : own[c] # h}
  <2>1. ASSUME NEW c \in InUse(g) PROVE c \in InUse(f) /\ own[c] # h
    BY <1>3, <1>4 DEF InUse
  <2>2. ASSUME NEW c \in InUse(f), own[c] # h PROVE c \in InUse(g)
    BY <1>3, <1>4, <2>2 DEF InUse
  <2> QED
    BY <2>1, <2>2
<1>8. ASSUME NEW c \in InUse(g)
      PROVE  /\ g[c] = f[c] /\ own[c] \in InUse(g) /\ own[own[c]] = own[c]
             /\ depth[c] = 0 <=> own[c] = c
             /\ g[c] # EOC => g[c] \in InUse(g) /\ own[g[c]] = own[c] /\ depth[g[c]] = depth[c] + 1
             /\ depth[c] # 0 => \E d \in InUse(g) : g[d] = c
  <2>1. c \in InUse(f) /\ own[c] # h /\ c \in Clusters
    BY <1>3, <1>7
  <2>2. /\ own[c] \in InUse(f) /\ own[own[c]] = own[c]
        /\ depth[c] = 0 <=> own[c] = c
        /\ f[c] # EOC => own[f[c]] = own[c] /\ depth[f[c]] = depth[c] + 1
        /\ depth[c] # 0 => \E d \in InUse(f) : f[d] = c
    BY <2>1 DEF Chained
  <2>3. f[c] # EOC => f[c] \in InUse(f)
    BY <1>6, <2>1 DEF Chained
  <2>4. g[c] = f[c]
    BY <1>4, <2>1
  <2>5. depth[c] # 0 => \E d \in InUse(g) : g[d] = c
    <3> SUFFICES ASSUME depth[c] # 0 PROVE \E d \in InUse(g) : g[d] = c
      OBVIOUS
    <3>1. PICK d \in InUse(f) : f[d] = c
      BY <2>2
    <3>2. own[d] = own[c]
      BY <2>1, <3>1, ClusterNumbers DEF Chained
    <3>3. d \in InUse(g) /\ d \in Clusters
      BY <1>3, <1>7, <2>1, <3>2
    <3> QED
      BY <1>4, <2>1, <3>1, <3>2, <3>3
  <2> QED
    BY <1>7, <2>1, <2>2, <2>3, <2>4, <2>5
<1>9. ASSUME NEW c \in Clusters PROVE g[c] \in {FREE_CLUSTER, EOC} \cup InUse(g)
  <2>1. CASE c \in InUse(g)
    BY <1>8, <2>1
  <2>2. CASE c \notin InUse(g) /\ c \in InUse(f)
    BY <1>4, <1>7, <2>2
  <2>3. CASE c \notin InUse(f)
    <3>1. c = 0 \/ c = 1 \/ f[c] = FREE_CLUSTER
      BY <2>3 DEF InUse, Clusters
    <3> QED
      BY <1>2, <1>4, <2>3, <3>1
  <2> QED
    BY <2>1, <2>2, <2>3
<1>10. g[0] = FREE_CLUSTER /\ g[1] = FREE_CLUSTER
  BY <1>2, <1>3, <1>4
<1>11. \A c, d \in InUse(g) : own[c] = own[d] /\ depth[c] = depth[d] => c = d
  BY <1>7 DEF Chained
<1>12. Chained(g, own, depth)
  BY <1>2, <1>5, <1>8, <1>9, <1>10, <1>11 DEF Chained
<1> QED
  BY <1>7, <1>12 DEF g

-----------------------------------------------------------------------------
(* The calls *)

(* A path no free entry answers to; the shell's paths are like that too. *)
Symbols == STRING \cup {"/"}
Proper(path) == path \in Seq(Symbols) /\ lookup_name(path) # NoName

(* Taking the slash off again. *)
LEMMA Slashed ==
  ASSUME NEW T, NEW a \in T, NEW s \in Seq(T)
  PROVE  /\ <<a>> \o s \in Seq(T) /\ <<a>> \o s # <<>>
         /\ Head(<<a>> \o s) = a /\ Tail(<<a>> \o s) = s
<1> DEFINE r == <<a>>
           t == r \o s
<1>1. r \in Seq(T) /\ Len(r) = 1 /\ r[1] = a
  OBVIOUS
<1> HIDE DEF r
<1>2. /\ t \in Seq(T) /\ Len(t) = 1 + Len(s) /\ Len(s) \in Nat
      /\ \A i \in 1 .. 1 + Len(s) : t[i] = IF i <= 1 THEN r[i] ELSE s[i - 1]
  <2>1. /\ t \in Seq(T) /\ Len(t) = Len(r) + Len(s)
        /\ \A i \in 1 .. Len(r) + Len(s) : t[i] = IF i <= Len(r) THEN r[i] ELSE s[i - Len(r)]
    BY <1>1, ConcatProperties, Zenon
  <2>2. Len(s) \in Nat
    OBVIOUS
  <2> QED
    BY <1>1, <2>1, <2>2, Zenon
<1>3. t[1] = a /\ \A i \in 1 .. Len(s) : t[i + 1] = s[i]
  BY <1>1, <1>2
<1> HIDE DEF t
<1>4. t # <<>> /\ Head(t) = a
  BY <1>2, <1>3
<1>5. Tail(t) \in Seq(T) /\ Len(Tail(t)) = Len(s) /\ \A i \in 1 .. Len(s) : Tail(t)[i] = t[i + 1]
  BY <1>2, <1>4
<1>6. Tail(t) = s
  <2>1. \A i \in 1 .. Len(Tail(t)) : Tail(t)[i] = s[i]
    BY <1>3, <1>5
  <2> QED
    BY <1>5, <2>1, SeqEqual
<1> QED
  BY <1>2, <1>4, <1>6 DEF t, r

LEMMA ProperPaths ==
  /\ \A path \in Paths : Proper(path)
  /\ \A arg \in Args : Proper(FullPath(arg))
<1>1. \A path \in Paths : Proper(path)
  <2>1. \A path \in Seq(STRING) : path \in Seq(Symbols)
    BY SeqMonotonic DEF Symbols
  <2> QED
    BY <2>1, PathsAssumption DEF Proper
<1>2. ASSUME NEW arg \in Args PROVE Proper(FullPath(arg))
  <2>1. PICK path \in Paths : arg = Strip(path)
    BY DEF Args
  <2>2. path \in Seq(Symbols) /\ convert_filename(arg) # NoName
    BY <1>1, <2>1 DEF Proper, lookup_name
  <2>3. arg \in Seq(Symbols)
    <3>1. path # <<>> => Tail(path) \in Seq(Symbols)
      BY <2>2
    <3> QED
      BY <2>1, <2>2, <3>1, Zenon DEF Strip
  <2> DEFINE full == <<"/">> \o arg
  <2>4. full \in Seq(Symbols) /\ full # <<>> /\ Head(full) = "/" /\ Tail(full) = arg
    <3>1. \A a \in Symbols : /\ <<a>> \o arg \in Seq(Symbols) /\ <<a>> \o arg # <<>>
                            /\ Head(<<a>> \o arg) = a /\ Tail(<<a>> \o arg) = arg
      BY <2>3, Slashed
    <3>2. "/" \in Symbols
      BY DEF Symbols
    <3> QED
      BY <3>1, <3>2, Zenon
  <2> HIDE DEF full
  <2>5. FullPath(arg) = full
    BY DEF FullPath, Root, full
  <2> QED
    BY <2>2, <2>4, <2>5 DEF Proper, lookup_name, Strip
<1> QED
  BY <1>1, <1>2

(* A creation: by fs_create, fs_mkdir or fs_open, which then opens it. *)
Creates(path) ==
  /\ Ready /\ validate_path(path) /\ ~Found(path) /\ FreeClusters # {}
  /\ \E directory \in BOOLEAN : AddRootEntry(path, directory, fs_find_free_cluster)
  /\ \/ file' = file
     \/ /\ FreeEntries # {}
        /\ \E h \in Handles, mode \in Modes : Open(h, [cluster |-> fs_find_free_cluster, size |-> 0], mode)
  /\ UNCHANGED <<client, current_directory, io, hung>>
  /\ ret' = Created

(* What every call comes to: it changes nothing, or takes one of the steps *)
(* of FileSystem.                                                          *)
Steps ==
  \/ UNCHANGED vars
  \/ \E path : Proper(path) /\ Creates(path)
  \/ \E path : \E mode \in Modes, h \in Handles : fs_open_existing(path, mode, h) /\ ret' = "ok"
  \/ CreatesInSubdir /\ ret' = "error"
  \/ \E path, directory : Proper(path) /\ Remove(path, directory) /\ ret' = Removed(path)
  \/ \E old_path, new_path : /\ Proper(old_path) /\ Proper(new_path)
                             /\ fs_rename(old_path, new_path) /\ ret' = "ok"
  \/ \E path : fs_chdir(path) /\ ret' = "ok"
  \/ \E h \in Handles : fs_close(h) /\ ret' = "ok"
  \/ \E h \in Handles, n \in Nat : fs_seek(h, n) /\ ret' = "ok"
  \/ \E h \in Handles, op \in {FS_READ, FS_WRITE}, n \in Nat \ {0} : StartIo(op, h, n) /\ ret' = "busy"
  \/ transfer
  \/ fs_format /\ ret' = "ok"

(* A transfer asks for at least one sector. *)
LEMMA Asked ==
  ASSUME NEW n \in 1 .. MAX_SIZE
  PROVE  Min({n, KERNEL_BUF}) \in Nat \ {0}
<1>1. n \in Nat \ {0} /\ KERNEL_BUF \in Nat \ {0}
  BY FileCallsAssumption, FileSystemAssumption
<1>2. \E x \in {n, KERNEL_BUF} : \A y \in {n, KERNEL_BUF} : x <= y
  BY <1>1
<1>3. Min({n, KERNEL_BUF}) \in {n, KERNEL_BUF}
  BY <1>2 DEF Min
<1> QED
  BY <1>1, <1>3

LEMMA CallSteps == CallNext => Steps
<1> SUFFICES ASSUME CallNext PROVE Steps
  OBVIOUS
<1> DEFINE Called == Paths \cup {FullPath(arg) : arg \in Args}
<1>0. \A answer : Answer(answer) => Steps
  BY DEF Answer, Steps
<1>1. ASSUME NEW path \in Called, Proper(path), sys_create(path) PROVE Steps
  <2>1. CASE Answer("ok") \/ Refuse(CannotCreate(path))
    BY <1>0, <2>1 DEF Refuse
  <2>2. CASE fs_create(path) /\ ret' = Created
    <3>1. Creates(path)
      BY <2>2 DEF fs_create, Creates
    <3> QED
      BY <1>1, <3>1 DEF Steps
  <2>3. CASE fs_open_create_subdir(path) /\ ret' = "error"
    BY <2>3 DEF Steps, CreatesInSubdir
  <2> QED
    BY <1>1, <2>1, <2>2, <2>3 DEF sys_create
<1>2. ASSUME NEW path \in Called, Proper(path), NEW create, sys_open(path, create) PROVE Steps
  <2>1. CASE create
    BY <1>1, <1>2, <2>1 DEF sys_open
  <2>2. CASE ~create
    BY <1>0, <1>2, <2>2 DEF sys_open
  <2> QED
    BY <2>1, <2>2
<1>3. ASSUME NEW path, Proper(path), sys_mkdir(path) PROVE Steps
  <2>1. CASE fs_mkdir(path) /\ ret' = Created
    <3>1. Creates(path)
      BY <2>1 DEF fs_mkdir, Creates
    <3> QED
      BY <1>3, <3>1 DEF Steps
  <2> QED
    BY <1>0, <1>3, <2>1 DEF sys_mkdir, Refuse
<1>4. ASSUME NEW path, Proper(path), sys_delete(path) \/ sys_rmdir(path) PROVE Steps
  <2>1. CASE (fs_delete(path) \/ fs_rmdir(path)) /\ ret' = Removed(path)
    BY <1>4, <2>1 DEF Steps, fs_delete, fs_rmdir
  <2> QED
    BY <1>0, <1>4, <2>1 DEF sys_delete, sys_rmdir, Refuse
<1>5. ASSUME NEW path, sys_chdir(path) PROVE Steps
  <2>1. CASE fs_chdir(path) /\ ret' = "ok"
    BY <2>1 DEF Steps
  <2> QED
    BY <1>0, <1>5, <2>1 DEF sys_chdir, Refuse
<1>6. ASSUME NEW path, sys_listdir(path) PROVE Steps
  BY <1>0, <1>6 DEF sys_listdir
<1>7. CASE \E path \in Paths :
             \/ \E create \in BOOLEAN : sys_open(path, create)
             \/ \E mode \in Modes, h \in Handles : open_handle(path, mode, h)
             \/ sys_create(path) \/ sys_mkdir(path) \/ sys_delete(path) \/ sys_rmdir(path)
             \/ fs_exists(path)
  <2>1. PICK path \in Paths :
             \/ \E create \in BOOLEAN : sys_open(path, create)
             \/ \E mode \in Modes, h \in Handles : open_handle(path, mode, h)
             \/ sys_create(path) \/ sys_mkdir(path) \/ sys_delete(path) \/ sys_rmdir(path)
             \/ fs_exists(path)
    BY <1>7
  <2>2. Proper(path) /\ path \in Called
    BY ProperPaths
  <2>3. CASE \E mode \in Modes, h \in Handles : open_handle(path, mode, h)
    <3>1. PICK mode \in Modes, h \in Handles : open_handle(path, mode, h)
      BY <2>3
    <3>2. CASE fs_open_existing(path, mode, h) /\ ret' = "ok"
      BY <3>2 DEF Steps
    <3>3. CASE fs_open_create(path, mode, h) /\ ret' = Created
      <4>1. Creates(path)
        BY <3>3 DEF fs_open_create, Creates
      <4> QED
        BY <2>2, <4>1 DEF Steps
    <3> QED
      BY <3>1, <3>2, <3>3 DEF open_handle
  <2>4. CASE fs_exists(path)
    BY <1>0, <2>4 DEF fs_exists
  <2> HIDE DEF Called
  <2> QED
    BY <1>1, <1>2, <1>3, <1>4, <2>1, <2>2, <2>3, <2>4
<1>8. CASE \E old_path, new_path \in Paths : sys_rename(old_path, new_path)
  <2>1. PICK old_path, new_path \in Paths : sys_rename(old_path, new_path)
    BY <1>8
  <2>2. Proper(old_path) /\ Proper(new_path)
    BY ProperPaths
  <2>3. CASE fs_rename(old_path, new_path) /\ ret' = "ok"
    BY <2>2, <2>3 DEF Steps
  <2> QED
    BY <1>0, <2>1, <2>3 DEF sys_rename, Refuse
<1>9. CASE \E h \in Handles :
             \/ sys_close(h) \/ sys_tell(h)
             \/ \E n \in 1 .. MAX_SIZE : sys_read(h, n) \/ sys_write(h, n)
             \/ \E offset \in 0 .. MAX_SIZE : sys_seek(h, offset)
  <2>1. PICK h \in Handles :
             \/ sys_close(h) \/ sys_tell(h)
             \/ \E n \in 1 .. MAX_SIZE : sys_read(h, n) \/ sys_write(h, n)
             \/ \E offset \in 0 .. MAX_SIZE : sys_seek(h, offset)
    BY <1>9
  <2>2. CASE sys_close(h)
    <3>1. CASE fs_close(h) /\ ret' = "ok"
      BY <3>1 DEF Steps
    <3> QED
      BY <1>0, <2>2, <3>1 DEF sys_close, Refuse
  <2>3. CASE sys_tell(h)
    BY <1>0, <2>3 DEF sys_tell
  <2>4. CASE \E n \in 1 .. MAX_SIZE : sys_read(h, n) \/ sys_write(h, n)
    <3>1. PICK n \in 1 .. MAX_SIZE : sys_read(h, n) \/ sys_write(h, n)
      BY <2>4
    <3> DEFINE m == Min({n, KERNEL_BUF})
    <3>2. m \in Nat \ {0}
      BY Asked
    <3>3. CASE (fs_read(h, m) \/ fs_write(h, m)) /\ ret' = "busy"
      <4> HIDE DEF m
      <4> QED
        BY <3>2, <3>3 DEF Steps, fs_read, fs_write
    <3> QED
      BY <1>0, <3>1, <3>3 DEF sys_read, sys_write, Refuse
  <2>5. CASE \E offset \in 0 .. MAX_SIZE : sys_seek(h, offset)
    <3>1. PICK offset \in 0 .. MAX_SIZE : sys_seek(h, offset)
      BY <2>5
    <3>2. offset \in Nat
      BY FileSystemAssumption
    <3>3. CASE fs_seek(h, offset) /\ ret' = "ok"
      BY <3>2, <3>3 DEF Steps
    <3> QED
      BY <1>0, <3>1, <3>3 DEF sys_seek, Refuse
  <2> QED
    BY <2>1, <2>2, <2>3, <2>4, <2>5
<1>10. CASE \E arg \in Args : shell_command(arg)
  <2>1. PICK arg \in Args : shell_command(arg)
    BY <1>10
  <2>2. Proper(FullPath(arg)) /\ FullPath(arg) \in Called
    BY ProperPaths
  <2> HIDE DEF Called
  <2> QED
    BY <1>1, <1>2, <1>3, <1>4, <2>1, <2>2 DEF shell_command, shell_cat
<1>11. CASE \E arg \in Args \cup {Root} : shell_cd(arg)
  BY <1>0, <1>5, <1>11 DEF shell_cd
<1>12. CASE \E path \in Paths \cup {Root} : sys_chdir(path) \/ sys_listdir(path)
  BY <1>5, <1>6, <1>12
<1>13. CASE shell_ls \/ sys_getcwd \/ shell_fs_info
  BY <1>0, <1>6, <1>13 DEF shell_ls, sys_getcwd, shell_fs_info
<1>14. CASE transfer \/ (fs_format /\ ret' = "ok")
  BY <1>14 DEF Steps
<1> QED
  BY <1>7, <1>8, <1>9, <1>10, <1>11, <1>12, <1>13, <1>14, Zenon DEF CallNext

-----------------------------------------------------------------------------
(* The inductive invariant *)

Names == Seq(Symbols) \cup {NoName}
Entry == [name : Names, directory : BOOLEAN, cluster : Clusters, size : {0}]
Handle == [valid : BOOLEAN, cluster : Clusters, offset : Nat, size : Nat, mode : SUBSET {FS_READ, FS_WRITE}]
Transfer == [op : {FS_READ, FS_WRITE}, h : Handles, left : Nat \ {0}, cluster : Clusters, sector : Int]

FsType ==
  /\ client \in {"any", "strict"}
  /\ fat \in [Clusters -> Links]
  /\ root_dir \in [Entries -> Entry]
  /\ file \in [Handles -> Handle]
  /\ io = NoIo \/ io \in Transfer

Heads == {root_dir[i].cluster : i \in UsedEntries}

(* What holds for a strict client: every entry has a chain of its own, and *)
(* every open file, and a transfer, is in the chain of an entry.  A leaked *)
(* cluster is in a chain that no entry has.                                *)
Kept(own, depth) ==
  /\ ~hung
  /\ Chained(fat, own, depth)
  /\ \A h \in Heads : h \in InUse(fat) /\ own[h] = h
  /\ \A i, j \in UsedEntries : root_dir[i].cluster = root_dir[j].cluster => i = j
  /\ \A h \in Handles : file[h].valid => file[h].cluster \in Heads
  /\ io # NoIo => io.cluster \in InUse(fat) /\ own[io.cluster] \in Heads

FsInv ==
  /\ FsType
  /\ client = "strict" => \E own, depth : Kept(own, depth)

-----------------------------------------------------------------------------
(* Searches *)

LEMMA EntryNumbers == Entries \in SUBSET Nat /\ FREE_CLUSTER \in Clusters /\ FREE_CLUSTER \in Links /\ EOC \in Links
BY FileSystemAssumption, ClusterNumbers DEF Entries, Clusters, Links, FREE_CLUSTER

LEMMA FreeCluster ==
  ASSUME FreeClusters # {}
  PROVE  /\ fs_find_free_cluster \in 2 .. CLUSTERS - 1 /\ fat[fs_find_free_cluster] = FREE_CLUSTER
         /\ fs_find_free_cluster \in Clusters
<1>1. FreeClusters \in SUBSET Nat
  BY ClusterNumbers DEF FreeClusters
<1>2. fs_find_free_cluster \in FreeClusters
  BY <1>1, MinOfNats DEF fs_find_free_cluster
<1> QED
  BY <1>2, ClusterNumbers DEF FreeClusters, Clusters

(* A cluster that was just allocated is a chain of its own, and giving it *)
(* back leaves the table as it was.                                       *)
LEMMA GivenBack ==
  ASSUME FsType, FreeClusters # {}
  PROVE  WithoutChain(Allocated(fs_find_free_cluster), fs_find_free_cluster) = fat
<1>1. PICK c : c = fs_find_free_cluster
  OBVIOUS
<1>2. c \in Clusters /\ fat[c] = FREE_CLUSTER /\ fat \in [Clusters -> Links]
  BY <1>1, FreeCluster DEF FsType
<1>3. PICK f : f = Allocated(c)
  OBVIOUS
<1>4. f \in [Clusters -> Links] /\ f[c] = EOC /\ \A x \in Clusters : x # c => f[x] = fat[x]
  BY <1>2, <1>3, EntryNumbers DEF Allocated
<1> DEFINE w == Walk(f, c)
           S == {k \in Nat : k <= CLUSTERS => w[k] = IF k = 0 THEN c ELSE EOC}
<1>5. w[0] = c /\ \A k \in 1 .. CLUSTERS : w[k] = IF w[k - 1] >= LAST THEN w[k - 1] ELSE f[w[k - 1]]
  BY <1>2, <1>4, WalkFacts, Zenon
<1>6. CLUSTERS \in Nat /\ ~(c >= LAST) /\ EOC >= LAST /\ EOC \notin Clusters
  BY <1>2, ClusterNumbers
<1> HIDE DEF w
<1>7. ASSUME NEW k \in S PROVE k + 1 \in S
  <2> SUFFICES ASSUME k + 1 <= CLUSTERS PROVE w[k + 1] = EOC
    OBVIOUS
  <2>1. k \in Nat /\ k <= CLUSTERS /\ k + 1 \in 1 .. CLUSTERS /\ (k + 1) - 1 = k
    BY <1>6
  <2>2. w[k] = IF k = 0 THEN c ELSE EOC
    BY <2>1
  <2>3. w[k + 1] = IF w[k] >= LAST THEN w[k] ELSE f[w[k]]
    BY <1>5, <2>1
  <2> QED
    BY <1>4, <1>6, <2>2, <2>3
<1>8. S = Nat
  <2>1. 0 \in S /\ S \in SUBSET Nat
    BY <1>5
  <2> HIDE DEF S
  <2> QED
    BY <1>7, <2>1, InductionOnSet
<1>9. \A k \in 0 .. CLUSTERS : w[k] = IF k = 0 THEN c ELSE EOC
  BY <1>6, <1>8
<1>10. Chain(f, c) = {c}
  <2>1. Chain(f, c) = {w[k] : k \in 0 .. CLUSTERS} \cap Clusters
    BY DEF Chain, w
  <2>2. \A x \in {w[k] : k \in 0 .. CLUSTERS} : x = c \/ x = EOC
    BY <1>9
  <2>3. c \in {w[k] : k \in 0 .. CLUSTERS}
    <3>1. 0 \in 0 .. CLUSTERS
      BY <1>6
    <3> QED
      BY <1>5, <3>1
  <2> QED
    BY <1>2, <1>6, <2>1, <2>2, <2>3
<1>11. WithoutChain(f, c) = [x \in Clusters |-> fat[x]]
  BY <1>2, <1>4, <1>10 DEF WithoutChain
<1> QED
  BY <1>1, <1>2, <1>3, <1>11

(* So a creation that meets a full directory changes nothing, and one in a *)
(* subdirectory keeps the cluster or changes nothing.                      *)
LEMMA FullDirectory ==
  ASSUME FsType, FreeClusters # {}, FreeEntries = {}, NEW path, NEW directory,
         AddRootEntry(path, directory, fs_find_free_cluster)
  PROVE  UNCHANGED <<fat, root_dir>>
BY GivenBack DEF AddRootEntry

LEMMA SubdirTable ==
  ASSUME FsType, NEW path, fs_open_create_subdir(path)
  PROVE  fat' = fat \/ fat' = [fat EXCEPT ![fs_find_free_cluster] = EOC]
BY GivenBack DEF fs_open_create_subdir, Allocated

LEMMA NamedEntry ==
  ASSUME NEW name, Named(name) # {}
  PROVE  /\ Min(Named(name)) \in Entries /\ Min(Named(name)) \in UsedEntries
         /\ root_dir[Min(Named(name))].name = name /\ name # NoName
<1>1. Named(name) \in SUBSET Nat
  BY EntryNumbers DEF Named
<1>2. Min(Named(name)) \in Named(name)
  BY <1>1, MinOfNats
<1> QED
  BY <1>2 DEF Named, UsedEntries, FreeEntries

(* The names paths are looked up by. *)
LEMMA ProperNames ==
  ASSUME NEW path, Proper(path)
  PROVE  /\ lookup_name(path) \in Names /\ raw_name(path) \in Names
         /\ lookup_name(path) # NoName /\ raw_name(path) # NoName
<1>1. path \in Seq(Symbols) /\ lookup_name(path) # NoName /\ <<>> \in Seq(Symbols)
  BY DEF Proper
<1>2. path # <<>> => Tail(path) \in Seq(Symbols)
  BY <1>1
<1>3. Strip(path) \in Seq(Symbols)
  BY <1>1, <1>2, Zenon DEF Strip
<1>4. path # NoName
  <2>1. NoName # <<>> /\ Head(NoName) # "/" /\ NoName # <<".">>
    BY DEF NoName
  <2> QED
    BY <1>1, <2>1 DEF lookup_name, Strip, convert_filename
<1>5. <<>> # NoName
  BY DEF NoName
<1> QED
  BY <1>1, <1>3, <1>4, <1>5 DEF lookup_name, raw_name, convert_filename, Names

(* The only valid paths without a leading slash name the same entry with *)
(* and without taking a slash off.                                       *)
LEMMA StrictPath ==
  ASSUME NEW path, validate_path(path), Head(path) # "/"
  PROVE  raw_name(path) = lookup_name(path) /\ lookup_name(path) \in {<<>>, <<"..">>}
<1>1. path \in {<<".">>, <<"..">>}
  BY DEF validate_path, Special, Root
<1>2. <<"..">> # <<".">>
  OBVIOUS
<1> QED
  BY <1>1, <1>2 DEF raw_name, lookup_name, Strip, convert_filename

(* Any other valid path but "/" names something else. *)
LEMMA EnteredPath ==
  ASSUME NEW path, validate_path(path), path \notin Special
  PROVE  lookup_name(path) = Strip(path) /\ lookup_name(path) \notin {<<>>, <<"..">>}
<1>1. path # <<>> /\ Head(path) = "/" /\ is_valid_filename(Tail(path))
  BY DEF validate_path
<1>2. Strip(path) = Tail(path)
  BY <1>1 DEF Strip
<1>3. Tail(path) # <<>> /\ Tail(path) # <<".">> /\ Tail(path) # <<"..">>
  <2>1. Head(<<".">>) = "." /\ Head(<<"..">>) = ".."
    OBVIOUS
  <2> QED
    BY <1>1, <2>1, Zenon DEF is_valid_filename
<1> QED
  BY <1>2, <1>3 DEF lookup_name, convert_filename

-----------------------------------------------------------------------------
(* A new entry *)

LEMMA Added ==
  ASSUME FsType, NEW path, Proper(path), NEW directory \in BOOLEAN,
         FreeClusters # {}, FreeEntries # {}, AddRootEntry(path, directory, fs_find_free_cluster)
  PROVE  \E i \in Entries :
           /\ i \in FreeEntries /\ UsedEntries' = UsedEntries \cup {i}
           /\ root_dir'[i] = [name |-> lookup_name(path), directory |-> directory,
                              cluster |-> fs_find_free_cluster, size |-> 0]
           /\ \A j \in Entries : j # i => root_dir'[j] = root_dir[j]
           /\ root_dir' \in [Entries -> Entry]
           /\ fat' = [fat EXCEPT ![fs_find_free_cluster] = EOC]
           /\ fat' \in [Clusters -> Links]
<1> DEFINE i == Min(FreeEntries)
           c == fs_find_free_cluster
           e == [name |-> lookup_name(path), directory |-> directory, cluster |-> c, size |-> 0]
<1>1. i \in FreeEntries /\ i \in Entries
  BY EntryNumbers, MinOfNats DEF FreeEntries
<1>2. c \in Clusters
  BY FreeCluster
<1>3. fat' = [fat EXCEPT ![c] = EOC] /\ root_dir' = [root_dir EXCEPT ![i] = e]
  BY DEF AddRootEntry, Allocated
<1> HIDE DEF i, c
<1>4. e \in Entry /\ e.name # NoName
  BY <1>2, ProperNames DEF Entry
<1> HIDE DEF e
<1>5. fat' \in [Clusters -> Links]
  BY <1>2, <1>3, EntryNumbers DEF FsType
<1>6. /\ root_dir' \in [Entries -> Entry] /\ root_dir'[i] = e
      /\ \A j \in Entries : j # i => root_dir'[j] = root_dir[j]
  BY <1>1, <1>3, <1>4 DEF FsType
<1>7. UsedEntries' = UsedEntries \cup {i}
  BY <1>1, <1>4, <1>6 DEF UsedEntries, FreeEntries
<1> QED
  BY <1>1, <1>3, <1>5, <1>6, <1>7 DEF e, c

LEMMA KeptAdded ==
  ASSUME FsType, NEW path, Proper(path), NEW directory \in BOOLEAN,
         FreeClusters # {}, FreeEntries # {}, AddRootEntry(path, directory, fs_find_free_cluster),
         NEW c, c = fs_find_free_cluster,
         Ready, UNCHANGED <<io, hung>>,
         \A h \in Handles : file'[h].valid =>
            (file[h].valid /\ file'[h].cluster = file[h].cluster) \/ file'[h].cluster = c,
         NEW own, NEW depth, Kept(own, depth)
  PROVE  /\ Kept([own EXCEPT ![c] = c], [depth EXCEPT ![c] = 0])'
         /\ Heads' = Heads \cup {c} /\ InUse(fat') = InUse(fat) \cup {c}
<1> DEFINE own2 == [own EXCEPT ![c] = c]
           depth2 == [depth EXCEPT ![c] = 0]
<1>1. c \in 2 .. CLUSTERS - 1 /\ fat[c] = FREE_CLUSTER /\ c \in Clusters
  BY FreeCluster
<1>2. PICK i \in Entries :
           /\ i \in FreeEntries /\ UsedEntries' = UsedEntries \cup {i}
           /\ root_dir'[i] = [name |-> lookup_name(path), directory |-> directory, cluster |-> c, size |-> 0]
           /\ \A j \in Entries : j # i => root_dir'[j] = root_dir[j]
           /\ root_dir' \in [Entries -> Entry]
           /\ fat' = [fat EXCEPT ![c] = EOC]
           /\ fat' \in [Clusters -> Links]
  BY Added
<1>3. Chained(fat, own, depth)
  BY DEF Kept
<1>4. InUse(fat') = InUse(fat) \cup {c} /\ Chained(fat', own2, depth2)
  BY <1>1, <1>2, <1>3, NewChain
<1>5. own2[c] = c /\ \A x \in InUse(fat) : x # c /\ own2[x] = own[x]
  <2>1. own \in [Clusters -> Clusters]
    BY <1>3, Zenon DEF Chained
  <2>2. c \notin InUse(fat)
    BY <1>1 DEF InUse
  <2>3. InUse(fat) \subseteq Clusters
    BY ClusterNumbers DEF InUse, Clusters
  <2> QED
    BY <1>1, <2>1, <2>2, <2>3
<1>6. UsedEntries \subseteq Entries /\ i \notin UsedEntries
  BY <1>2 DEF UsedEntries
<1>7. root_dir'[i].cluster = c /\ \A j \in UsedEntries : root_dir'[j].cluster = root_dir[j].cluster
  <2> DEFINE made == [name |-> lookup_name(path), directory |-> directory, cluster |-> c, size |-> 0]
  <2>1. made.cluster = c
    OBVIOUS
  <2>2. root_dir'[i] = made
    BY <1>2, Zenon
  <2> HIDE DEF made
  <2>3. root_dir'[i].cluster = c
    BY <2>1, <2>2, Zenon
  <2>4. \A j \in UsedEntries : root_dir'[j] = root_dir[j]
    BY <1>2, <1>6
  <2> QED
    BY <2>3, <2>4, Zenon
<1>8. Heads' = Heads \cup {c}
  <2>1. Heads' = {root_dir'[j].cluster : j \in UsedEntries'}
    BY DEF Heads
  <2>2. UsedEntries' = UsedEntries \cup {i}
    BY <1>2, Zenon
  <2> QED
    BY <1>7, <2>1, <2>2 DEF Heads
<1>9. \A h \in Heads : h \in InUse(fat) /\ own[h] = h
  BY DEF Kept
<1> HIDE DEF own2, depth2
<1>10. \A h \in Heads' : h \in InUse(fat') /\ own2[h] = h
  BY <1>4, <1>5, <1>8, <1>9
<1>11. \A j, k \in UsedEntries' : root_dir'[j].cluster = root_dir'[k].cluster => j = k
  <2>1. \A j \in UsedEntries : root_dir[j].cluster # c
    BY <1>5, <1>9 DEF Heads
  <2>2. \A j, k \in UsedEntries : root_dir[j].cluster = root_dir[k].cluster => j = k
    BY DEF Kept
  <2>3. UsedEntries' = UsedEntries \cup {i}
    BY <1>2, Zenon
  <2> QED
    BY <1>7, <2>1, <2>2, <2>3
<1>12. \A h \in Handles : file'[h].valid => file'[h].cluster \in Heads'
  BY <1>8 DEF Kept
<1>13. ~hung' /\ io' = NoIo
  BY DEF Ready
<1>14. Kept(own2, depth2)'
  BY <1>4, <1>10, <1>11, <1>12, <1>13 DEF Kept
<1> QED
  BY <1>4, <1>8, <1>14 DEF own2, depth2

-----------------------------------------------------------------------------
(* Removal, by a strict client *)

LEMMA KeptRemoved ==
  ASSUME FsType, NEW path, NEW directory, Remove(path, directory), client = "strict",
         NEW own, NEW depth, Kept(own, depth)
  PROVE  /\ Kept(own, depth)' /\ Named(raw_name(path)) # {}
         /\ \E head : Heads' = Heads \ {head} /\ InUse(fat') = {x \in InUse(fat) : own[x] # head}
         /\ \E i \in UsedEntries :
              /\ UsedEntries' = UsedEntries \ {i} /\ root_dir'[i] = NoEntry
              /\ root_dir[i].name \in {<<>>, <<"..">>}
              /\ \A j \in Entries : j # i => root_dir'[j] = root_dir[j]
<1> DEFINE name == lookup_name(path)
           i == Min(Named(name))
           head == root_dir[i].cluster
<1>1. NothingOpen /\ validate_path(path) /\ Head(path) # "/" /\ Named(name) # {} /\ io = NoIo /\ io' = NoIo /\ file' = file
  BY DEF Remove, MayRemove, Ready, Found
<1>2. raw_name(path) = name /\ name \in {<<>>, <<"..">>}
  BY <1>1, StrictPath
<1>3. i \in Entries /\ i \in UsedEntries /\ root_dir[i].name = name
  BY <1>1, NamedEntry
<1>4. find_directory_entry(path).cluster = head
  BY DEF find_directory_entry
<1> HIDE DEF name, i
<1>5. Chained(fat, own, depth) /\ ~hung /\ (\A h \in Heads : h \in InUse(fat) /\ own[h] = h)
  BY DEF Kept
<1>6. head \in Heads
  BY <1>3 DEF Heads
<1>7. head \in InUse(fat) /\ own[head] = head
  BY <1>5, <1>6
<1>8. Ends(fat, head)
  BY <1>5, <1>7, ChainEnds
<1>9. fat' = [x \in Clusters |-> IF x \in Chain(fat, head) THEN FREE_CLUSTER ELSE fat[x]] /\ hung' = hung
  BY <1>4, <1>8 DEF Remove, fs_free_cluster_chain, WithoutChain
<1>10. root_dir' = [root_dir EXCEPT ![i] = NoEntry]
  BY <1>1, <1>2, <1>5, <1>9 DEF Remove, remove_directory_entry, i
<1> HIDE DEF head
<1>11. InUse(fat') = {x \in InUse(fat) : own[x] # head} /\ Chained(fat', own, depth)
  <2>1. InUse(WithoutChain(fat, head)) = {x \in InUse(fat) : own[x] # head} /\ Chained(WithoutChain(fat, head), own, depth)
    BY <1>5, <1>7, ChainFreed, Zenon
  <2>2. fat' = WithoutChain(fat, head)
    BY <1>9, Zenon DEF WithoutChain
  <2> QED
    BY <2>1, <2>2
<1>12. root_dir'[i] = NoEntry /\ \A j \in Entries : j # i => root_dir'[j] = root_dir[j]
  BY <1>3, <1>10 DEF FsType
<1>13. UsedEntries' = UsedEntries \ {i}
  BY <1>12 DEF UsedEntries, FreeEntries, NoEntry
<1>14. UsedEntries \subseteq Entries
  BY DEF UsedEntries
<1>15. \A j, k \in UsedEntries : root_dir[j].cluster = root_dir[k].cluster => j = k
  BY DEF Kept
<1>16. Heads' = Heads \ {head}
  <2>1. \A j \in UsedEntries' : root_dir'[j].cluster = root_dir[j].cluster /\ root_dir[j].cluster # head
    BY <1>3, <1>12, <1>13, <1>14, <1>15 DEF head
  <2> QED
    BY <1>13, <2>1 DEF Heads, head
<1>17. \A h \in Heads' : h \in InUse(fat') /\ own[h] = h
  BY <1>5, <1>11, <1>16
<1>18. \A j, k \in UsedEntries' : root_dir'[j].cluster = root_dir'[k].cluster => j = k
  BY <1>12, <1>13, <1>14, <1>15
<1>19. \A h \in Handles : ~file'[h].valid
  BY <1>1 DEF NothingOpen
<1>20. Kept(own, depth)'
  BY <1>1, <1>5, <1>9, <1>11, <1>17, <1>18, <1>19 DEF Kept
<1> QED
  BY <1>1, <1>2, <1>3, <1>11, <1>12, <1>13, <1>16, <1>20

(* Renaming changes a name only. *)
LEMMA Renamed ==
  ASSUME FsType, NEW old_path, NEW new_path, Proper(new_path), fs_rename(old_path, new_path), client = "strict"
  PROVE  \E i \in UsedEntries :
           /\ root_dir'[i].name \in {<<>>, <<"..">>} /\ root_dir[i].name \in {<<>>, <<"..">>}
           /\ root_dir'[i].cluster = root_dir[i].cluster
           /\ UsedEntries' = UsedEntries
           /\ \A j \in Entries : j # i => root_dir'[j] = root_dir[j]
<1> DEFINE name == raw_name(old_path)
           i == Min(Named(name))
           e == [root_dir[i] EXCEPT !.name = raw_name(new_path)]
<1>1. validate_path(old_path) /\ Head(old_path) # "/" /\ validate_path(new_path) /\ Head(new_path) # "/" /\ Named(name) # {}
  BY DEF fs_rename, MayRemove
<1>2. lookup_name(old_path) = name /\ name \in {<<>>, <<"..">>} /\ raw_name(new_path) \in {<<>>, <<"..">>}
  BY <1>1, StrictPath
<1>3. i \in Entries /\ i \in UsedEntries /\ root_dir[i].name = name
  BY <1>1, NamedEntry
<1>4. raw_name(new_path) # NoName
  BY ProperNames
<1>5. root_dir' = [root_dir EXCEPT ![i] = e]
  BY <1>2 DEF fs_rename, find_directory_entry
<1> HIDE DEF name, i
<1>6. root_dir[i] \in Entry
  BY <1>3 DEF FsType
<1>7. e.name = raw_name(new_path) /\ e.cluster = root_dir[i].cluster
  BY <1>6 DEF Entry
<1> HIDE DEF e
<1>8. root_dir'[i] = e /\ \A j \in Entries : j # i => root_dir'[j] = root_dir[j]
  BY <1>3, <1>5 DEF FsType
<1>9. UsedEntries' = UsedEntries
  BY <1>3, <1>4, <1>7, <1>8 DEF UsedEntries, FreeEntries
<1> QED
  BY <1>2, <1>3, <1>7, <1>8, <1>9
=============================================================================
