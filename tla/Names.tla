------------------------------- MODULE Names -------------------------------
(***************************************************************************)
(* File names and paths of filesystem.c as strings: the conversion to the  *)
(* 8.3 form of a directory entry and back, the two ways the code matches a *)
(* name with an entry, and the helpers that split and join paths.          *)
(* FileSystem works with the names that these functions tell apart.        *)
(***************************************************************************)
EXTENDS Strings, FiniteSetsExt

CONSTANTS
  NAME_LEN,         \* 8 in the code
  EXT_LEN,          \* 3 in the code
  FS_MAX_FILENAME,  \* 11 in the code
  FS_MAX_PATH       \* 256 in the code

ASSUME NamesAssumption ==
  /\ NAME_LEN \in Nat \ {0} /\ EXT_LEN \in Nat \ {0}
  /\ FS_MAX_FILENAME \in Nat /\ FS_MAX_PATH \in Nat

(* Everything behind index i. *)
Behind(str, i) == SubSeq(str, i + 1, Len(str))

(* A field of n characters: the first ones of str, padded, in upper case. *)
Field(n, str, len) ==
  LET copied == memcpy(memset([k \in 1 .. n |-> NUL], SPACE, n), str, Min({len, n}))
  IN  [k \in 1 .. n |-> UpperCase(copied[k])]

convert_filename(filename) ==
  LET dot == strchr(filename, DOT) IN
  IF dot # NULL
    THEN [name |-> Field(NAME_LEN, filename, dot - 1),
          ext |-> Field(EXT_LEN, Behind(filename, dot), strlen(Behind(filename, dot)))]
    ELSE [name |-> Field(NAME_LEN, filename, strlen(filename)),
          ext |-> Field(EXT_LEN, <<>>, 0)]

(* The characters before the first blank. *)
Unpadded(field) ==
  LET blank == SelectInSeq(field, LAMBDA c : c = SPACE)
  IN  IF blank = 0 THEN field ELSE SubSeq(field, 1, blank - 1)

(* The extension's dot is always written. *)
BadConvertBack(entry) == Unpadded(entry.name) \o <<DOT>> \o Unpadded(entry.ext) \o <<NUL>>

(* Every byte that is written, whether or not the caller's buffer has it. *)
convert_filename_back(entry) ==
  Unpadded(entry.name)
    \o (IF entry.ext[1] # SPACE THEN <<DOT>> \o Unpadded(entry.ext) ELSE <<>>)
    \o <<NUL>>

is_valid_filename(filename) ==
  LET dot == strchr(filename, DOT) IN
  /\ strlen(filename) # 0
  /\ IF dot # NULL
       THEN dot - 1 \in 1 .. NAME_LEN /\ strlen(Behind(filename, dot)) <= EXT_LEN
       ELSE strlen(filename) <= NAME_LEN

(* The entry matches the name: the test in find_directory_entry,           *)
(* remove_directory_entry and update_directory_entry, and the one in       *)
(* find_entry, which fs_chdir uses.                                        *)
MatchesBytes(entry, name) ==
  /\ memcmp(entry.name, convert_filename(name).name, NAME_LEN) = 0
  /\ memcmp(entry.ext, convert_filename(name).ext, EXT_LEN) = 0
MatchesText(entry, name) == strcasecmp(convert_filename_back(entry), name) = 0

InvalidPath == [dir |-> <<>>, filename |-> <<>>]

(* dir and filename get a terminator of their own. *)
parse_path(path) ==
  LET last_slash == strrchr(path, SLASH) IN
  IF last_slash = NULL \/ last_slash - 1 >= FS_MAX_PATH THEN InvalidPath
  ELSE [dir |-> SubSeq(path, 1, last_slash - 1) \o <<NUL>>,
        filename |-> Terminated(Behind(path, last_slash))]

(* The result, in a buffer large enough. *)
join_path(dir, filename) ==
  LET copied == strcpy([k \in 1 .. Len(dir) + Len(filename) + 1 |-> NUL], dir)
      len == strlen(copied)
      slashed == IF len > 0 /\ copied[len] # SLASH
                   THEN Overwrite(copied, len + 1, <<SLASH, NUL>>) ELSE copied
  IN  strcat(slashed, filename)
=============================================================================
