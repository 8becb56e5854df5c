------------------------------ MODULE Console ------------------------------
(***************************************************************************)
(* The shell's dialogue on the screen: kmain's output, the prompt, the     *)
(* editing of a line with its echo, and the output of commands, composed   *)
(* with the screen of Vga.  `out' holds the calls of vga_putchar and       *)
(* vga_clear that the running function has still to make; a step makes one *)
(* of them, and the next key is taken when there are none left.  The keys  *)
(* come from the ring of module Keyboard.                                  *)
(*                                                                         *)
(* Of a command only its output matters here: "clear" clears the screen,   *)
(* "cd" may change the prompt, and any other prints one of Outputs.        *)
(***************************************************************************)
EXTENDS Vga, Arguments

CONSTANTS
  Keys,                \* the printable characters the user types
  MAX_COMMAND_LENGTH,  \* 64 in the code
  PromptLengths,       \* lengths of the prompt; the least is the root's
  BootText,            \* what kmain prints before it clears the screen
  NotFoundText,        \* "Command not found: "
  Commands,            \* the table: a function from names to kinds
  Outputs,             \* what the other commands print
  MAX_COMMANDS         \* bound on the lines the user enters

(* The characters, and those vga_putchar puts in a cell as they are. *)
Char == 1 .. 255
Glyphs == Char \ {Newline, Backspace}
PromptChar == 36

ASSUME ConsoleAssumption ==
  /\ MAX_COMMAND_LENGTH \in Nat /\ MAX_COMMAND_LENGTH > 1
  /\ PromptLengths \in SUBSET Nat /\ PromptLengths # {}
  /\ \A n \in PromptLengths : n + MAX_COMMAND_LENGTH < VGA_WIDTH * (VGA_HEIGHT - 1)
  /\ {Newline, Backspace} \subseteq Char /\ {Blank, Dash, Art, PromptChar} \subseteq Glyphs
  /\ Keys \subseteq 32 .. 126 /\ Keys \subseteq Glyphs
  /\ BootText \in Seq(Char) /\ NotFoundText \in Seq(Char) /\ \A text \in Outputs : text \in Seq(Char)

VARIABLES
  mode,      \* "prompt", "edit" (in shell_read_input) or "run"
  out,       \* the output still to make
  line,      \* the buffer of shell_read_input, up to pos
  prompt,    \* length of the prompt for the current directory
  start,     \* the column where the line begins
  swallowed, \* a backspace of this line met the left edge of the screen
  entered    \* lines entered so far

vars == <<vgavars, mode, out, line, prompt, start, swallowed, entered>>

CLEAR == -1     \* in `out', a call of vga_clear

shell_prompt(n) == [k \in 1 .. n |-> PromptChar]
RootPrompt == CHOOSE n \in PromptLengths : \A m \in PromptLengths : n <= m

(* kmain up to its call of shell_run, and shell_run's first prompt. *)
Init ==
  /\ vga_init
  /\ mode = "prompt"
  /\ out = BootText \o <<CLEAR>> \o shell_prompt(RootPrompt)
  /\ line = <<>>
  /\ prompt = RootPrompt
  /\ start = 0
  /\ swallowed = FALSE
  /\ entered = 0

(* vga_putstr and vga_putchar, one character at a time, and vga_clear. *)
Put ==
  /\ out # <<>>
  /\ IF Head(out) = CLEAR THEN vga_clear ELSE vga_putchar(Head(out))
  /\ swallowed' = (swallowed \/ (mode = "edit" /\ Head(out) = Backspace /\ terminal_column = 0))
  /\ out' = Tail(out)
  /\ UNCHANGED <<mode, line, prompt, start, entered>>

-----------------------------------------------------------------------------
BeginRead ==
  /\ mode = "prompt" /\ out = <<>>
  /\ mode' = "edit" /\ line' = <<>> /\ start' = terminal_column /\ swallowed' = FALSE
  /\ UNCHANGED <<vgavars, out, prompt, entered>>

Editing == mode = "edit" /\ out = <<>> /\ entered < MAX_COMMANDS

Enter ==
  /\ Editing
  /\ mode' = "run" /\ out' = <<Newline>>
  /\ UNCHANGED <<vgavars, line, prompt, start, swallowed, entered>>

Erase ==
  /\ Editing /\ line # <<>>
  /\ line' = SubSeq(line, 1, Len(line) - 1)
  /\ out' = <<Backspace>>
  /\ UNCHANGED <<vgavars, mode, prompt, start, swallowed, entered>>

(* A line that fills the buffer is taken as it is, without a line feed. *)
TypeChar(c) ==
  /\ Editing
  /\ line' = Append(line, c)
  /\ out' = <<c>>
  /\ mode' = IF Len(line) + 1 = MAX_COMMAND_LENGTH - 1 THEN "run" ELSE "edit"
  /\ UNCHANGED <<vgavars, prompt, start, swallowed, entered>>

shell_read_input == BeginRead \/ Enter \/ Erase \/ \E c \in Keys : TypeChar(c)

-----------------------------------------------------------------------------
(* The output of a command of the given kind and the prompt after it. *)
Effect(kind, text, n) ==
  CASE kind = "clear" -> text = <<CLEAR>> /\ n = prompt
    [] kind = "cd" -> text = <<>> /\ n \in PromptLengths
    [] OTHER -> text \in Outputs /\ n = prompt

(* The line feed behind the message is forgotten. *)
BadNotFound(name) == NotFoundText \o name

NotFound(name) == NotFoundText \o name \o <<Newline>>

shell_execute_command ==
  LET args == Args(line) IN
  /\ mode = "run" /\ out = <<>>
  /\ \/ args = <<>> /\ prompt' = prompt /\ out' = shell_prompt(prompt)
     \/ /\ args # <<>> /\ args[1] \in DOMAIN Commands
        /\ \E text \in Outputs \cup {<<CLEAR>>, <<>>}, n \in PromptLengths :
             /\ Effect(Commands[args[1]], text, n)
             /\ prompt' = n
             /\ out' = text \o <<Newline>> \o shell_prompt(n)
     \/ /\ args # <<>> /\ args[1] \notin DOMAIN Commands
        /\ prompt' = prompt
        /\ out' = NotFound(args[1]) \o shell_prompt(prompt)
  /\ mode' = "prompt" /\ entered' = entered + 1
  /\ UNCHANGED <<vgavars, line, start, swallowed>>

Next == Put \/ shell_read_input \/ shell_execute_command

Spec == Init /\ [][Next]_vars

-----------------------------------------------------------------------------
(* Properties *)

(* Types of the screen's state: the cursor stays on the screen and neither *)
(* a newline nor a backspace is put in a cell, whatever is printed.        *)
TypeOK ==
  /\ terminal_buffer \in [Cells -> Glyphs]
  /\ terminal_row \in 0 .. VGA_HEIGHT - 1
  /\ terminal_column \in 0 .. VGA_WIDTH - 1
  /\ cursor \in Cells
  /\ Len(line) < MAX_COMMAND_LENGTH
  /\ prompt \in PromptLengths

Roll == INSTANCE Paper WITH
  WIDTH <- VGA_WIDTH, HOME <- SEPARATOR_Y + 3, Page <- Rows(Cleared), Chars <- Glyphs,
  paper <- gone \o Rows(terminal_buffer),
  row <- Len(gone) + terminal_row + 1, col <- terminal_column

(* The screen always shows the last rows of the roll of paper that Paper   *)
(* describes: wrapping at the right edge and scrolling at the bottom lose, *)
(* repeat and mix nothing.                                                 *)
ImplementsPaper == Roll!Spec

(* While a line is edited the prompt and the line, exactly as it is in the *)
(* buffer, stand before the hardware cursor and nothing stands behind it,  *)
(* also when they wrap to the next row or scroll the screen; unless a      *)
(* backspace met the left edge, which the screen does not show.  That      *)
(* happens only where the longest line would not fit between the column    *)
(* the line begins in and the right edge.  The root's prompt of the code,  *)
(* 11 columns of 80, leaves room for 63 characters when it begins a row,   *)
(* but not behind full lines of blanks, which it follows on the same row   *)
(* (PromptAtLeft): behind two of them the line begins in column 79.        *)
EchoExact ==
  /\ mode = "edit" /\ out = <<>> =>
       /\ \A i \in cursor .. VGA_WIDTH * VGA_HEIGHT - 1 : terminal_buffer[i] = Blank
       /\ ~swallowed =>
            \A i \in 1 .. prompt + Len(line) :
              terminal_buffer[cursor - prompt - Len(line) + i - 1] =
                (shell_prompt(prompt) \o line)[i]
  /\ swallowed => start + MAX_COMMAND_LENGTH - 2 >= VGA_WIDTH

(* The prompt begins a row, whatever the command before it printed, except *)
(* behind a line of blanks that filled the buffer.                         *)
PromptAtLeft ==
  [][mode = "prompt" /\ mode' = "edit" =>
       \/ terminal_column = prompt % VGA_WIDTH
       \/ Len(line) = MAX_COMMAND_LENGTH - 1 /\ Args(line) = <<>>]_vars
=============================================================================
