-------------------------------- MODULE Vga --------------------------------
(***************************************************************************)
(* The text screen of vga.c: the cells of video memory, the cursor of the  *)
(* driver and the cursor of the hardware.  Colours are left out.  A cell   *)
(* is addressed as in the code, by row * VGA_WIDTH + column.  `gone' is    *)
(* not in the code: it keeps the rows that scrolling and clearing have     *)
(* removed from the screen.                                                *)
(***************************************************************************)
EXTENDS Integers, Sequences

CONSTANTS
  VGA_WIDTH, VGA_HEIGHT,   \* 80 and 25 in the code
  START_Y,                 \* first row of the picture, 2 in the code
  ART_HEIGHT,              \* rows of the picture, 12 in the code
  Blank, Newline, Backspace, Dash, Art

(* The row below the picture and the separator is on the screen. *)
ASSUME VgaAssumption ==
  /\ VGA_WIDTH \in Nat \ {0} /\ VGA_HEIGHT \in Nat \ {0}
  /\ START_Y \in Nat /\ ART_HEIGHT \in Nat
  /\ START_Y + ART_HEIGHT + 3 < VGA_HEIGHT
  /\ Newline # Backspace /\ Blank \notin {Newline, Backspace}

VARIABLES terminal_buffer, terminal_row, terminal_column, cursor, gone

vgavars == <<terminal_buffer, terminal_row, terminal_column, cursor, gone>>

Cells == 0 .. VGA_WIDTH * VGA_HEIGHT - 1
SEPARATOR_Y == START_Y + ART_HEIGHT + 1

(* Row y of a buffer, as a row of paper. *)
Row(buffer, y) == [x \in 0 .. VGA_WIDTH - 1 |-> buffer[y * VGA_WIDTH + x]]
Rows(buffer) == [k \in 1 .. VGA_HEIGHT |-> Row(buffer, k - 1)]

(* The picture and the separator; each cell of the picture is Art. *)
Cleared ==
  [i \in Cells |-> LET y == i \div VGA_WIDTH IN
     IF y \in START_Y .. START_Y + ART_HEIGHT - 1 THEN Art
     ELSE IF y = SEPARATOR_Y THEN Dash
     ELSE Blank]

vga_init ==
  /\ terminal_buffer = Cleared
  /\ terminal_row = SEPARATOR_Y + 2
  /\ terminal_column = 0
  /\ cursor = terminal_row * VGA_WIDTH + terminal_column
  /\ gone = <<>>

vga_update_cursor == cursor' = terminal_row' * VGA_WIDTH + terminal_column'

vga_clear ==
  /\ terminal_buffer' = Cleared
  /\ terminal_row' = SEPARATOR_Y + 2
  /\ terminal_column' = 0
  /\ vga_update_cursor
  /\ gone' = gone \o Rows(terminal_buffer)

(* The last line is not blanked. *)
BadScroll(buffer) ==
  /\ terminal_buffer' = [i \in Cells |->
       IF i + VGA_WIDTH \in Cells THEN buffer[i + VGA_WIDTH] ELSE buffer[i]]
  /\ terminal_row' = VGA_HEIGHT - 1
  /\ terminal_column' = 0
  /\ gone' = Append(gone, Row(buffer, 0))

(* Scroll the given contents of the buffer. *)
vga_scroll(buffer) ==
  /\ terminal_buffer' = [i \in Cells |->
       IF i + VGA_WIDTH \in Cells THEN buffer[i + VGA_WIDTH] ELSE Blank]
  /\ terminal_row' = VGA_HEIGHT - 1
  /\ terminal_column' = 0
  /\ gone' = Append(gone, Row(buffer, 0))

vga_putchar_at(c, x, y) == [terminal_buffer EXCEPT ![y * VGA_WIDTH + x] = c]

(* The screen is scrolled one row late. *)
BadNextLine(buffer) ==
  IF terminal_row = VGA_HEIGHT THEN vga_scroll(buffer)
  ELSE /\ terminal_buffer' = buffer
       /\ terminal_row' = terminal_row + 1
       /\ terminal_column' = 0
       /\ UNCHANGED gone

(* The common end of a line feed and of a full row, with the given         *)
(* contents of the buffer.                                                 *)
NextLine(buffer) ==
  IF terminal_row + 1 = VGA_HEIGHT THEN vga_scroll(buffer)
  ELSE /\ terminal_buffer' = buffer
       /\ terminal_row' = terminal_row + 1
       /\ terminal_column' = 0
       /\ UNCHANGED gone

(* The cell is not blanked. *)
BadBackspace ==
  /\ terminal_column' = IF terminal_column > 0 THEN terminal_column - 1 ELSE 0
  /\ UNCHANGED <<terminal_buffer, terminal_row, gone>>

PutBackspace ==
  /\ IF terminal_column > 0
       THEN /\ terminal_column' = terminal_column - 1
            /\ terminal_buffer' = vga_putchar_at(Blank, terminal_column - 1, terminal_row)
       ELSE UNCHANGED <<terminal_column, terminal_buffer>>
  /\ UNCHANGED <<terminal_row, gone>>

PutPrintable(c) ==
  LET buffer == vga_putchar_at(c, terminal_column, terminal_row) IN
  IF terminal_column + 1 = VGA_WIDTH THEN NextLine(buffer)
  ELSE /\ terminal_buffer' = buffer
       /\ terminal_column' = terminal_column + 1
       /\ UNCHANGED <<terminal_row, gone>>

vga_putchar(c) ==
  /\ \/ c = Newline /\ NextLine(terminal_buffer)
     \/ c = Backspace /\ PutBackspace
     \/ c \notin {Newline, Backspace} /\ PutPrintable(c)
  /\ vga_update_cursor
=============================================================================
