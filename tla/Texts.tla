------------------------------- MODULE Texts -------------------------------
(***************************************************************************)
(* The text algorithms of Strings, Names and CommandLine, compared with    *)
(* reference definitions on all small inputs.  The state is a pair of      *)
(* buffers and a number; a step makes one of them longer or larger.        *)
(***************************************************************************)
EXTENDS Names, CommandLine

CONSTANTS
  Chars,      \* the character codes of the buffers
  MAX_LEN     \* bound on the length of the two buffers together

VARIABLES a, b, num

vars == <<a, b, num>>

Init == a = <<>> /\ b = <<>> /\ num = 0

Type ==
  /\ Len(a) + Len(b) < MAX_LEN /\ num = 0
  /\ \E c \in Chars : \/ a' = Append(a, c) /\ b' = b
                      \/ b' = Append(b, c) /\ a' = a
  /\ UNCHANGED num

Count ==
  /\ a = <<>> /\ b = <<>> /\ num < 2 ^ WIDTH - 1
  /\ num' = num + 1
  /\ UNCHANGED <<a, b>>

Next == Type \/ Count

Spec == Init /\ [][Next]_vars

(* The buffers as C strings; a character 0 ends them early. *)
A == Append(a, NUL)
B == Append(b, NUL)

-----------------------------------------------------------------------------
(* Properties *)

Smaller(s, t) ==
  \/ IsStrictPrefix(s, t)
  \/ \E i \in 1 .. Min({Len(s), Len(t)}) :
       SubSeq(s, 1, i - 1) = SubSeq(t, 1, i - 1) /\ s[i] < t[i]

Lower(s) == [i \in 1 .. Len(s) |-> LowerCase(s[i])]

Junk == [k \in 1 .. Len(A) + Len(B) |-> 1]

(* strcmp orders strings as dictionaries do and strcasecmp tells apart the *)
(* ones that differ in more than case, whatever lies behind their ends;    *)
(* memcmp agrees with strcmp when it compares up to and with a terminator. *)
(* Copying and appending, as the shell does to make a path, gives the two  *)
(* texts one behind the other; a bounded copy, closed as process_create    *)
(* closes it, gives the text cut to the bound, and clears the rest.        *)
StringsAreTexts ==
  /\ (strcmp(A, B) = 0) <=> (Text(A) = Text(B))
  /\ (strcmp(A, B) < 0) <=> Smaller(Text(A), Text(B))
  /\ (strcasecmp(A, B) = 0) <=> (Lower(Text(A)) = Lower(Text(B)))
  /\ strlen(A) = strlen(B) =>
       ((memcmp(A, B, strlen(A) + 1) < 0) <=> (strcmp(A, B) < 0))
  /\ Text(strcat(strcpy(Junk, A), B)) = Text(A) \o Text(B)
  /\ \A n \in 0 .. Len(A) :
       LET copy == Append(strncpy([k \in 1 .. n |-> 1], A, n), NUL) IN
       /\ Text(copy) = SubSeq(Text(A), 1, Min({n, strlen(A)}))
       /\ \A k \in strlen(A) + 1 .. n : copy[k] = NUL

(* The maximal runs of characters that are no separators, as intervals. *)
Words(line) ==
  {<<i, j>> \in (1 .. Len(line)) \X (1 .. Len(line)) :
     /\ i <= j /\ \A k \in i .. j : ~Separator(line[k])
     /\ i = 1 \/ Separator(line[i - 1])
     /\ j = Len(line) \/ Separator(line[j + 1])}

(* A command line is split into its words, in order, up to MAX_ARGS of     *)
(* them; the words that follow are dropped.                                *)
ArgsAreWords ==
  LET words == SetToSortSeq(Words(Text(A)), LAMBDA v, w : v[1] < w[1])
  IN  Args(Text(A)) = [k \in 1 .. Min({MAX_ARGS, Len(words)}) |->
                         SubSeq(Text(A), words[k][1], words[k][2])]

(* The parts of a name before and behind its first dot. *)
Stem(name) == LET dot == strchr(name, DOT) IN IF dot = NULL THEN Text(name) ELSE SubSeq(name, 1, dot - 1)
Ext(name) == LET dot == strchr(name, DOT) IN IF dot = NULL THEN <<>> ELSE Text(Behind(name, dot))

(* A text up to its last character that is not a blank, in lower case; and *)
(* up to the first blank.                                                  *)
Trimmed(s) == SubSeq(Lower(s), 1, Max({0} \cup {i \in 1 .. Len(s) : s[i] # SPACE}))
FirstWord(s) == SubSeq(Lower(s), 1, Min({Len(s)} \cup {i - 1 : i \in {j \in 1 .. Len(s) : s[j] = SPACE}}))

(* The only spelling by which an entry can be entered. *)
Entered(name) ==
  FirstWord(Stem(name)) \o (IF FirstWord(Ext(name)) = <<>> THEN <<>> ELSE <<DOT>> \o FirstWord(Ext(name)))

(* A path made by join_path from a directory and a name without a slash is *)
(* split by parse_path into the same two, except that the slash of the     *)
(* root directory is lost, and refused when the directory is too long.     *)
(* Of an entry made with one name, the lookup by bytes finds another name  *)
(* exactly when stem and extension differ only in case and in blanks at    *)
(* their ends.  The lookup by text, which fs_chdir uses, finds exactly one *)
(* spelling: stem and extension up to their first blank, with a dot only   *)
(* before an extension.  So directories made as "a." and "a b" can be      *)
(* opened by these names but entered only as "a".  The text made from an   *)
(* entry fits the buffers of FS_MAX_FILENAME + 1 bytes it is written to,   *)
(* unless stem and extension both have their full length.                  *)
NamesComeBack ==
  LET dir == IF strlen(A) > 0 /\ Text(A)[strlen(A)] = SLASH
               THEN SubSeq(A, 1, strlen(A) - 1) ELSE Text(A)
      entry == convert_filename(A)
  IN  /\ strlen(A) > 0 /\ ~Contains(Text(B), SLASH) =>
           parse_path(join_path(A, B)) =
             IF Len(dir) >= FS_MAX_PATH THEN InvalidPath
             ELSE [dir |-> Append(dir, NUL), filename |-> Terminated(B)]
      /\ is_valid_filename(A) /\ is_valid_filename(B) =>
           /\ MatchesBytes(entry, B) <=>
                Trimmed(Stem(A)) = Trimmed(Stem(B)) /\ Trimmed(Ext(A)) = Trimmed(Ext(B))
           /\ MatchesText(entry, B) <=> Lower(Text(B)) = Entered(A)
      /\ is_valid_filename(A) =>
           (Len(convert_filename_back(entry)) > FS_MAX_FILENAME + 1 <=>
              Len(FirstWord(Stem(A))) = NAME_LEN /\ Len(FirstWord(Ext(A))) = EXT_LEN)

Signed(n) == IF n >= 2 ^ (WIDTH - 1) THEN n - 2 ^ WIDTH ELSE n

(* The address malloc prints is the one free and syscall read back from    *)
(* it, but a pid as ps prints it is refused by kill and priority.  A       *)
(* number printed in decimal, by the library functions that no command     *)
(* calls, is read back by atoi and, when it is not negative, by the        *)
(* commands; both printers of decimals agree.  (The least int is left out: *)
(* its negation overflows.)                                                *)
NumbersComeBack ==
  LET hex == Append(vga_puthex(num), NUL)
      n == Signed(num)
  IN  /\ ParseAddress(hex) = num /\ ParseArgument(hex) = num
      /\ ParseDecimal(hex) = INVALID
      /\ Len(hex) <= 2 + WIDTH \div 4 + 1
      /\ n # -(2 ^ (WIDTH - 1)) =>
           /\ atoi(itoa(n, 10)) = n
           /\ Text(itoa(n, 10)) = vga_putnum(n)
      /\ n >= 0 => ParseDecimal(itoa(n, 10)) = n /\ ParseArgument(itoa(n, 10)) = n
=============================================================================
