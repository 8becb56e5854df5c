------------------------------ MODULE Strings ------------------------------
(***************************************************************************)
(* The string library of string.c.  A buffer is a sequence of character    *)
(* codes; a C string is a buffer that holds a 0, and whatever follows the  *)
(* first 0 is not part of it.  A pointer into a buffer is an index, and    *)
(* NULL is index 0.  Codes are below 128, as all that the keyboard makes,  *)
(* so char is the same signed or unsigned.                                 *)
(***************************************************************************)
EXTENDS Integers, Sequences, SequencesExt

NUL == 0
SPACE == 32
DOT == 46
SLASH == 47
NULL == 0

Digit(d) == d + 48
IsDigit(c) == c \in 48 .. 57
IsUpper(c) == c \in 65 .. 90
IsLower(c) == c \in 97 .. 122
LowerCase(c) == IF IsUpper(c) THEN c + 32 ELSE c
UpperCase(c) == IF IsLower(c) THEN c - 32 ELSE c

strlen(str) ==
  LET from[len \in 0 .. Len(str)] == IF str[len + 1] = NUL THEN len ELSE from[len + 1]
  IN  from[0]

(* The two strings are not compared past the end of the second. *)
BadStrcmp(str1, str2) ==
  LET from[i \in 1 .. Len(str1)] ==
        IF str1[i] # NUL /\ str2[i] # NUL /\ str1[i] = str2[i] THEN from[i + 1]
        ELSE IF str2[i] = NUL THEN 0 ELSE str1[i] - str2[i]
  IN  from[1]

strcmp(str1, str2) ==
  LET from[i \in 1 .. Len(str1)] ==
        IF str1[i] # NUL /\ str1[i] = str2[i] THEN from[i + 1] ELSE str1[i] - str2[i]
  IN  from[1]

strcasecmp(str1, str2) ==
  LET from[i \in 1 .. Len(str1)] ==
        IF str1[i] = NUL \/ str2[i] = NUL THEN str1[i] - str2[i]
        ELSE IF LowerCase(str1[i]) # LowerCase(str2[i])
               THEN LowerCase(str1[i]) - LowerCase(str2[i])
        ELSE from[i + 1]
  IN  from[1]

(* Write the bytes of src over dest, starting at index i. *)
Overwrite(dest, i, src) ==
  [k \in 1 .. Len(dest) |-> IF k \in i .. i + Len(src) - 1 THEN src[k - i + 1] ELSE dest[k]]

(* The string without and with its terminator. *)
Text(str) == SubSeq(str, 1, strlen(str))
Terminated(str) == SubSeq(str, 1, strlen(str) + 1)

strcpy(dest, src) == Overwrite(dest, 1, Terminated(src))

strncpy(dest, src, n) ==
  Overwrite(dest, 1, [k \in 1 .. n |-> IF k <= strlen(src) THEN src[k] ELSE NUL])

strcat(dest, src) == Overwrite(dest, strlen(dest) + 1, Terminated(src))

memset(ptr, value, num) == Overwrite(ptr, 1, [k \in 1 .. num |-> value])
memcpy(dest, src, num) == Overwrite(dest, 1, SubSeq(src, 1, num))

memcmp(ptr1, ptr2, num) ==
  LET from[i \in 1 .. num + 1] ==
        IF i > num THEN 0
        ELSE IF ptr1[i] < ptr2[i] THEN -1
        ELSE IF ptr1[i] > ptr2[i] THEN 1
        ELSE from[i + 1]
  IN  from[1]

strchr(str, character) ==
  LET from[i \in 1 .. Len(str)] ==
        IF str[i] = NUL THEN (IF character = NUL THEN i ELSE NULL)
        ELSE IF str[i] = character THEN i
        ELSE from[i + 1]
  IN  from[1]

strrchr(str, character) ==
  LET from[i \in 1 .. Len(str), last \in 0 .. Len(str)] ==
        IF str[i] = NUL THEN (IF character = NUL THEN i ELSE last)
        ELSE from[i + 1, IF str[i] = character THEN i ELSE last]
  IN  from[1, NULL]

-----------------------------------------------------------------------------
(* Numbers *)

MINUS == 45
PLUS == 43
IsBlank(c) == c \in {SPACE, 9, 10}

(* Blanks, a sign, and digits up to the first other character. *)
atoi(str) ==
  LET skip[i \in 1 .. Len(str)] == IF IsBlank(str[i]) THEN skip[i + 1] ELSE i
      end[i \in 1 .. Len(str)] == IF IsDigit(str[i]) THEN end[i + 1] ELSE i
      start == skip[1]
      first == IF str[start] \in {MINUS, PLUS} THEN start + 1 ELSE start
      result == FoldLeft(LAMBDA r, c : r * 10 + (c - 48), 0, SubSeq(str, first, end[first] - 1))
  IN  IF str[start] = MINUS THEN -result ELSE result

(* The digits of num > 0, lowest first, ten and above as letters from a. *)
Digits(num, base, a) ==
  LET from[n \in 0 .. num] ==
        IF n = 0 THEN <<>>
        ELSE <<IF n % base > 9 THEN (n % base) - 10 + a ELSE Digit(n % base)>> \o from[n \div base]
  IN  from[num]

(* For num >= 0, and in base 10 for every number whose negation is an int. *)
itoa(num, base) ==
  IF num = 0 THEN <<Digit(0), NUL>>
  ELSE IF num < 0 /\ base = 10
         THEN Reverse(Append(Digits(-num, base, 97), MINUS)) \o <<NUL>>
  ELSE Reverse(Digits(num, base, 97)) \o <<NUL>>
=============================================================================
