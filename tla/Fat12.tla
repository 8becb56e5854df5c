-------------------------------- MODULE Fat12 -------------------------------
(***************************************************************************)
(* The packed allocation table of filesystem.c: two 12-bit entries in      *)
(* three bytes, read and written through 16-bit little-endian accesses     *)
(* that overlap the neighbouring entry.                                    *)
(*                                                                         *)
(* Operators whose names begin with Bad are broken variants of the         *)
(* definition that follows them; no specification uses them.               *)
(***************************************************************************)
EXTENDS Integers

CONSTANTS
  FAT_ENTRIES,  \* entries of the table (2880 in the code)
  Values        \* the values callers write

FatEntries == 0 .. FAT_ENTRIES - 1
Bytes == 0 .. (3 * FAT_ENTRIES) \div 2    \* the bytes the accesses can touch
Byte == 0 .. 255

ASSUME Fat12Assumption ==
  /\ FAT_ENTRIES \in Nat \ {0}
  /\ Values \subseteq 0 .. 4095

VARIABLE fat_table   \* byte address -> byte

Zeroed == [a \in Bytes |-> 0]

(* memset(fat_table, 0, ...) in fs_init. *)
FatInit == fat_table = Zeroed

fat_offset(cluster) == (cluster * 3) \div 2

(* The 16-bit word at byte a. *)
Word(a) == fat_table[a] + 256 * fat_table[a + 1]

StoreWord(a, w) ==
  fat_table' = [fat_table EXCEPT ![a] = w % 256, ![a + 1] = w \div 256]

(* An odd cluster has the high 12 bits of its word, an even one the low. *)
fs_read_fat(cluster) ==
  LET w == Word(fat_offset(cluster)) IN
  IF cluster % 2 = 1 THEN w \div 16 ELSE w % 4096

(* The neighbour's four bits are overwritten. *)
BadWriteFat(cluster, value) ==
  LET a == fat_offset(cluster) IN
  StoreWord(a, IF cluster % 2 = 1 THEN value * 16 ELSE value)

(* (w & 0x000F) | (value << 4) and (w & 0xF000) | (value & 0x0FFF). *)
fs_write_fat(cluster, value) ==
  LET a == fat_offset(cluster)
      w == Word(a)
  IN  StoreWord(a, IF cluster % 2 = 1 THEN (w % 16) + value * 16
                   ELSE 4096 * (w \div 4096) + value)

(* The same memset in fs_format. *)
clear_fat == fat_table' = Zeroed

FatNext ==
  \/ clear_fat
  \/ \E cluster \in FatEntries, value \in Values : fs_write_fat(cluster, value)

FatSpec == FatInit /\ [][FatNext]_fat_table

-----------------------------------------------------------------------------
(* Properties *)

(* The table holds bytes. *)
TableTypeOK == fat_table \in [Bytes -> Byte]

Map ==
  INSTANCE FatMap WITH Clusters <- FatEntries,
                       fat <- [c \in FatEntries |-> fs_read_fat(c)]

(* Seen through fs_read_fat, fs_write_fat changes the entry of its cluster *)
(* to the value given and no other entry, however the entries overlap in   *)
(* the bytes: the packed table implements the map FileSystem works with.   *)
IsMap ==
  /\ Map!Spec
  /\ [][\A cluster \in FatEntries, value \in Values :
          fs_write_fat(cluster, value) => Map!Write(cluster, value)]_fat_table
=============================================================================
