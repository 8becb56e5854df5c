---------------------------- MODULE CommandLine ----------------------------
(***************************************************************************)
(* How the shell of kernel.c reads numbers: the number formats of its      *)
(* commands, and the formats vga.c prints numbers in.                      *)
(***************************************************************************)
EXTENDS Strings, Arguments

CONSTANT WIDTH   \* bits of an unsigned int: 32 in the code

ASSUME CommandLineAssumption == WIDTH \in Nat \ {0}

INVALID == -1
HexDigit(c) ==
  CASE IsDigit(c) -> c - 48
    [] c \in 97 .. 102 -> c - 97 + 10
    [] c \in 65 .. 70 -> c - 65 + 10
    [] OTHER -> INVALID
DecDigit(c) == IF IsDigit(c) THEN c - 48 ELSE INVALID
DigitValue(c, base) == IF base = 16 THEN HexDigit(c) ELSE DecDigit(c)

(* The number the digits spell, in WIDTH bits, or INVALID. *)
Number(str, base) ==
  LET from[i \in 0 .. strlen(str)] ==
        IF i = 0 THEN 0
        ELSE IF from[i - 1] = INVALID \/ DigitValue(str[i], base) = INVALID THEN INVALID
        ELSE (from[i - 1] * base + DigitValue(str[i], base)) % 2 ^ WIDTH
  IN  from[strlen(str)]

HasPrefix(str) == str[1] = Digit(0) /\ str[2] = 120

(* shell_malloc, shell_kill, shell_priority and the call number of         *)
(* shell_syscall.                                                          *)
ParseDecimal(str) == Number(str, 10)

(* shell_free. *)
ParseAddress(str) ==
  IF HasPrefix(str) THEN Number(SubSeq(str, 3, Len(str)), 16)
  ELSE Number(str, 16)

(* An argument of shell_syscall. *)
ParseArgument(str) ==
  IF HasPrefix(str) THEN Number(SubSeq(str, 3, Len(str)), 16)
  ELSE ParseDecimal(str)

-----------------------------------------------------------------------------
(* What vga_putnum prints, for a number whose negation is an int. *)
vga_putnum(num) ==
  IF num = 0 THEN <<Digit(0)>>
  ELSE IF num < 0 THEN <<MINUS>> \o Reverse(Digits(-num, 10, 65))
  ELSE Reverse(Digits(num, 10, 65))

(* Letters are taken to follow the digits. *)
BadPuthex(num) ==
  <<Digit(0), 120>>
    \o (IF num = 0 THEN <<Digit(0)>> ELSE Reverse(Digits(num, 16, 58)))

vga_puthex(num) ==
  <<Digit(0), 120>>
    \o (IF num = 0 THEN <<Digit(0)>> ELSE Reverse(Digits(num, 16, 65)))
=============================================================================
