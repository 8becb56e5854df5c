------------------------------- MODULE Paper -------------------------------
(***************************************************************************)
(* What the text screen promises: printing on a roll of paper.  The paper  *)
(* has rows of WIDTH cells; the pen writes a cell and moves on, goes to a  *)
(* new row at the end of one, and steps back to erase, but never to the    *)
(* row above.  Nothing that is written is moved, and nothing but erasing   *)
(* changes it.  Clear starts a fresh page.  Vga implements it by showing   *)
(* the last rows of the paper.                                             *)
(***************************************************************************)
EXTENDS Integers, Sequences

CONSTANTS WIDTH, HOME, Page, Chars, Blank

VARIABLES
  paper,    \* the rows written so far, each a function from columns
  row, col  \* the position of the pen; the first row is row 1

vars == <<paper, row, col>>

BlankRow == [x \in 0 .. WIDTH - 1 |-> Blank]

Init == paper = Page /\ row = HOME /\ col = 0

(* Move the pen to the beginning of the next row of the given paper. *)
NextRow(p) ==
  /\ row' = row + 1 /\ col' = 0
  /\ paper' = IF row = Len(p) THEN Append(p, BlankRow) ELSE p

Write(c) ==
  LET written == [paper EXCEPT ![row][col] = c] IN
  IF col = WIDTH - 1 THEN NextRow(written)
  ELSE paper' = written /\ col' = col + 1 /\ UNCHANGED row

Erase ==
  /\ col > 0
  /\ paper' = [paper EXCEPT ![row][col - 1] = Blank]
  /\ col' = col - 1
  /\ UNCHANGED row

Clear ==
  /\ paper' = paper \o Page
  /\ row' = Len(paper) + HOME
  /\ col' = 0

Next == (\E c \in Chars : Write(c)) \/ NextRow(paper) \/ Erase \/ Clear

Spec == Init /\ [][Next]_vars
=============================================================================
