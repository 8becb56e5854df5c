----------------------------- MODULE Arguments -----------------------------
(***************************************************************************)
(* How the shell of kernel.c splits a command line into arguments.  A line *)
(* is a sequence of character codes without its terminator.                *)
(***************************************************************************)
EXTENDS Integers, Sequences, FiniteSetsExt

CONSTANT MAX_ARGS   \* 8 in the code

ASSUME ArgumentsAssumption == MAX_ARGS \in Nat \ {0}

(* A blank or a tab. *)
Separator(c) == c \in {32, 9}

(* The first index from i on that is not (is) a separator or is the end. *)
SkipFrom(line, i) == Min({k \in i .. Len(line) + 1 : k = Len(line) + 1 \/ ~Separator(line[k])})
WordEnd(line, i) == Min({k \in i .. Len(line) + 1 : k = Len(line) + 1 \/ Separator(line[k])})

(* One more argument, from index i on; none once the line is at its end. *)
NextArg(line, args) ==
  LET start == SkipFrom(line, args.i)
      end == WordEnd(line, start)
  IN  IF start > Len(line) THEN args
      ELSE [argv |-> Append(args.argv, SubSeq(line, start, end - 1)), i |-> end]

(* Arguments past the last one are appended to it. *)
BadArgs(line) ==
  LET split[argc \in 0 .. MAX_ARGS - 1] ==
        IF argc = 0 THEN [argv |-> <<>>, i |-> 1] ELSE NextArg(line, split[argc - 1])
      last == split[MAX_ARGS - 1]
      start == SkipFrom(line, last.i)
  IN  IF start > Len(line) THEN last.argv
      ELSE Append(last.argv, SubSeq(line, start, Len(line)))

(* shell_execute_command: the arguments of a line without its terminator.  *)
Args(line) ==
  LET split[argc \in 0 .. MAX_ARGS] ==
        IF argc = 0 THEN [argv |-> <<>>, i |-> 1] ELSE NextArg(line, split[argc - 1])
  IN  split[MAX_ARGS].argv
=============================================================================
