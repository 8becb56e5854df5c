---------------------------- MODULE ConsoleProofs ---------------------------
(***************************************************************************)
(* Proofs about the console: the screen vga.c writes, the line the shell   *)
(* reads and the command it runs, for every size of the screen, every      *)
(* length of a line and of a prompt, and everything a command prints.      *)
(***************************************************************************)
EXTENDS Console, WellFoundedInduction, TLAPS

-----------------------------------------------------------------------------
(* Numbers: the least element of a set, which the scan for a word returns,  *)
(* induction over a set, and the existence of what a recursive function     *)
(* defines.                                                                 *)

(* A set of natural numbers that is not empty has a least element, which   *)
(* Min returns.                                                            *)
LEMMA MinOfNats ==
  ASSUME NEW S \in SUBSET Nat, S # {}
  PROVE  Min(S) \in S /\ \A y \in S : Min(S) <= y
<1> DEFINE Less == {ss \in Nat \X Nat : ss[1] < ss[2]}
<1>1. IsWellFoundedOn(Less, Nat)
  BY NatLessThanWellFounded DEF OpToRel
<1>2. PICK x \in S : \A y \in S : ~(<<y, x>> \in Less)
  BY <1>1, WFMin, Zenon
<1>3. \A y \in S : <<y, x>> \in Less <=> y < x
  OBVIOUS
<1>4. ASSUME NEW y \in S PROVE x <= y
  <2>1. ~(y < x)
    BY <1>2, <1>3, Zenon
  <2>2. x \in Nat /\ y \in Nat
    OBVIOUS
  <2> HIDE DEF Less
  <2> QED
    BY <2>1, <2>2
<1> QED
  BY <1>4, Zenon DEF Min

(* A set of numbers with 0 that has n + 1 with every n has every number:   *)
(* induction for a property that is given as a set.                        *)
LEMMA InductionOnSet ==
  ASSUME NEW S \in SUBSET Nat, 0 \in S, \A n \in S : n + 1 \in S
  PROVE  S = Nat
<1> SUFFICES ASSUME Nat \ S # {} PROVE FALSE
  BY Zenon
<1> DEFINE x == Min(Nat \ S)
<1>1. x \in Nat /\ x \notin S /\ \A y \in Nat \ S : x <= y
  BY MinOfNats
<1> HIDE DEF x
<1>2. x - 1 \in Nat
  BY <1>1
<1>3. x - 1 \in S
  BY <1>1, <1>2
<1>4. (x - 1) + 1 \in S
  BY <1>3, Zenon
<1> QED
  BY <1>1, <1>4

(* A function of S into itself can be iterated n times from h. *)
Iterates(S, F, h, n) ==
  {f \in [0 .. n -> S] : f[0] = h /\ \A k \in 1 .. n : f[k] = F[f[k - 1]]}

LEMMA Iteration ==
  ASSUME NEW S, NEW F \in [S -> S], NEW h \in S, NEW n \in Nat
  PROVE  Iterates(S, F, h, n) # {}
<1> DEFINE Iterated(f, m) == f[0] = h /\ \A k \in 1 .. m : f[k] = F[f[k - 1]]
           I == {m \in Nat : \E f \in [0 .. m -> S] : Iterated(f, m)}
<1>1. 0 \in I
  <2> DEFINE f == [k \in 0 .. 0 |-> h]
  <2>1. f \in [0 .. 0 -> S] /\ Iterated(f, 0)
    OBVIOUS
  <2> QED
    BY <2>1, Zenon
<1>2. ASSUME NEW m \in I PROVE m + 1 \in I
  <2>1. PICK f \in [0 .. m -> S] : Iterated(f, m)
    OBVIOUS
  <2> DEFINE e == [k \in 0 .. m + 1 |-> IF k = m + 1 THEN F[f[m]] ELSE f[k]]
  <2>2. m \in Nat
    OBVIOUS
  <2>3. e \in [0 .. m + 1 -> S]
    BY <2>2
  <2>4. e[0] = h
    BY <2>1, <2>2
  <2>5. ASSUME NEW k \in 1 .. m + 1 PROVE e[k] = F[e[k - 1]]
    <3>1. CASE k = m + 1
      BY <2>2, <3>1
    <3>2. CASE k # m + 1
      <4>1. k \in 1 .. m /\ k - 1 \in 0 .. m /\ k - 1 # m + 1
        BY <2>2, <3>2
      <4> QED
        BY <2>1, <2>2, <4>1
    <3> QED
      BY <3>1, <3>2
  <2> HIDE DEF e
  <2> QED
    BY <2>2, <2>3, <2>4, <2>5
<1>3. I = Nat
  <2>1. I \in SUBSET Nat
    OBVIOUS
  <2> HIDE DEF I
  <2> QED
    BY <1>1, <1>2, <2>1, InductionOnSet
<1> QED
  BY <1>3 DEF Iterates

-----------------------------------------------------------------------------
(* Sequences *)

(* A sequence is a function on the numbers up to its length. *)
LEMMA Length ==
  ASSUME NEW S, NEW s \in Seq(S)
  PROVE  Len(s) \in Nat /\ DOMAIN s = 1 .. Len(s) /\ s \in [1 .. Len(s) -> S]
OBVIOUS

LEMMA NoneOrSome ==
  ASSUME NEW S
  PROVE  <<>> \in Seq(S) /\ Len(<<>>) = 0 /\ \A s \in Seq(S) : s # <<>> => Len(s) \in Nat \ {0}
OBVIOUS

LEMMA ElementIn ==
  ASSUME NEW S, NEW s \in Seq(S), NEW i \in 1 .. Len(s)
  PROVE  s[i] \in S
OBVIOUS

LEMMA SameElements ==
  ASSUME NEW S, NEW s \in Seq(S), NEW t \in Seq(S), Len(s) = Len(t), \A i \in 1 .. Len(s) : s[i] = t[i]
  PROVE  s = t
OBVIOUS

LEMMA Appended ==
  ASSUME NEW S, NEW s \in Seq(S), NEW e \in S
  PROVE  /\ Append(s, e) \in Seq(S) /\ Len(Append(s, e)) = Len(s) + 1
         /\ Append(s, e)[Len(s) + 1] = e
         /\ \A i \in 1 .. Len(s) : Append(s, e)[i] = s[i]
OBVIOUS

LEMMA Replaced ==
  ASSUME NEW S, NEW s \in Seq(S), NEW i \in 1 .. Len(s), NEW e \in S
  PROVE  /\ [s EXCEPT ![i] = e] \in Seq(S) /\ Len([s EXCEPT ![i] = e]) = Len(s)
         /\ \A j \in 1 .. Len(s) : [s EXCEPT ![i] = e][j] = IF j = i THEN e ELSE s[j]
<1> DEFINE t == [s EXCEPT ![i] = e]
<1>1. t \in [1 .. Len(s) -> S] /\ Len(s) \in Nat
  BY Length
<1>2. \A j \in 1 .. Len(s) : t[j] = IF j = i THEN e ELSE s[j]
  BY Length
<1> HIDE DEF t
<1>3. t \in Seq(S) /\ Len(t) = Len(s)
  BY <1>1
<1> QED
  BY <1>2, <1>3 DEF t

LEMMA Concatenated ==
  ASSUME NEW S, NEW s \in Seq(S), NEW t \in Seq(S)
  PROVE  /\ s \o t \in Seq(S) /\ Len(s \o t) = Len(s) + Len(t)
         /\ \A i \in 1 .. Len(s) + Len(t) : (s \o t)[i] = IF i <= Len(s) THEN s[i] ELSE t[i - Len(s)]
OBVIOUS

LEMMA NothingBefore ==
  ASSUME NEW S, NEW s \in Seq(S)
  PROVE  <<>> \o s = s
OBVIOUS

LEMMA FirstAndRest ==
  ASSUME NEW S, NEW s \in Seq(S), s # <<>>
  PROVE  /\ Head(s) \in S /\ Tail(s) \in Seq(S) /\ Len(Tail(s)) = Len(s) - 1
         /\ \A i \in 1 .. Len(Tail(s)) : Tail(s)[i] = s[i + 1]
OBVIOUS

LEMMA PartOf ==
  ASSUME NEW S, NEW s \in Seq(S), NEW m \in 1 .. Len(s), NEW n \in m - 1 .. Len(s)
  PROVE  SubSeq(s, m, n) \in Seq(S)
OBVIOUS

-----------------------------------------------------------------------------
(* The addresses of the cells *)

(* The addresses of cells *)
LEMMA CellIndex ==
  ASSUME NEW y \in 0 .. VGA_HEIGHT - 1, NEW x \in 0 .. VGA_WIDTH - 1
  PROVE  /\ y * VGA_WIDTH + x \in Cells
         /\ y * VGA_WIDTH \in Nat /\ y * VGA_WIDTH <= VGA_WIDTH * (VGA_HEIGHT - 1)
         /\ (y + 1) * VGA_WIDTH = y * VGA_WIDTH + VGA_WIDTH
         /\ y = VGA_HEIGHT - 1 => y * VGA_WIDTH = VGA_WIDTH * (VGA_HEIGHT - 1)
         /\ y # VGA_HEIGHT - 1 => (y + 1) * VGA_WIDTH <= VGA_WIDTH * (VGA_HEIGHT - 1)
<1> DEFINE W == VGA_WIDTH
           H == VGA_HEIGHT
<1>1. W \in Nat /\ H \in Nat /\ W > 0 /\ H > 0
  BY VgaAssumption
<1> HIDE DEF W, H
<1>2. y \in Nat /\ y <= H - 1 /\ x \in Nat /\ x < W
  BY <1>1 DEF W, H
<1>3. W * (H - 1) = W * H - W /\ (y + 1) * W = y * W + W /\ y * W \in Nat
  BY <1>1, <1>2
<1>4. \A z \in Nat : z <= H - 1 => z * W <= W * (H - 1)
  <2> SUFFICES ASSUME NEW z \in Nat, z <= H - 1 PROVE z * W <= W * (H - 1)
    OBVIOUS
  <2>1. (H - 1 - z) \in Nat
    BY <1>1
  <2>2. (H - 1 - z) * W \in Nat
    BY <1>1, <2>1
  <2>3. (H - 1 - z) * W = W * (H - 1) - z * W
    BY <1>1
  <2>4. z * W \in Nat /\ W * (H - 1) \in Int
    BY <1>1
  <2> QED
    BY <2>2, <2>3, <2>4
<1>5. y * W <= W * (H - 1)
  BY <1>2, <1>4
<1>6. W * H \in Nat
  BY <1>1
<1>7. y * W + x \in 0 .. W * H - 1
  BY <1>1, <1>2, <1>3, <1>5, <1>6
<1>8. y # H - 1 => (y + 1) * W <= W * (H - 1)
  BY <1>1, <1>2, <1>4
<1>9. y = H - 1 => y * W = W * (H - 1)
  BY <1>1
<1> QED
  BY <1>3, <1>5, <1>7, <1>8, <1>9 DEF W, H, Cells

LEMMA CellSize ==
  /\ VGA_WIDTH * VGA_HEIGHT \in Nat
  /\ VGA_WIDTH * (VGA_HEIGHT - 1) \in Nat
  /\ VGA_WIDTH * (VGA_HEIGHT - 1) = VGA_WIDTH * VGA_HEIGHT - VGA_WIDTH
BY VgaAssumption

(* A row from the k-th on holds the addresses from k * VGA_WIDTH on. *)
LEMMA RowOf ==
  ASSUME NEW i \in Nat, NEW k \in Nat, i >= k * VGA_WIDTH
  PROVE  i \div VGA_WIDTH >= k
<1> DEFINE W == VGA_WIDTH
           q == i \div W
<1>1. W \in Nat \ {0}
  BY VgaAssumption
<1> HIDE DEF W
<1>2. q \in Nat /\ i % W \in 0 .. W - 1 /\ i = W * q + (i % W)
  BY <1>1
<1> HIDE DEF q
<1>3. ASSUME q < k PROVE FALSE
  <2>1. q + 1 <= k /\ k - (q + 1) \in Nat
    BY <1>2, <1>3
  <2>2. (k - (q + 1)) * W \in Nat
    BY <1>1, <2>1
  <2>3. (k - (q + 1)) * W = k * W - W * q - W
    BY <1>1, <1>2
  <2>4. k * W \in Nat /\ W * q \in Nat /\ i >= k * W
    BY <1>1, <1>2 DEF W
  <2> QED
    BY <1>1, <1>2, <2>2, <2>3, <2>4
<1> QED
  BY <1>2, <1>3 DEF q, W

-----------------------------------------------------------------------------
(* What each character does to the screen *)

(* The screen and its cursors: nothing stands at or behind the cursor. *)
PaperRow == [0 .. VGA_WIDTH - 1 -> Glyphs]
Screen ==
  /\ terminal_buffer \in [Cells -> Glyphs]
  /\ terminal_row \in 0 .. VGA_HEIGHT - 1 /\ terminal_column \in 0 .. VGA_WIDTH - 1
  /\ cursor = terminal_row * VGA_WIDTH + terminal_column
  /\ \A i \in Cells : i >= cursor => terminal_buffer[i] = Blank
  /\ gone \in Seq(PaperRow)

(* The buffer b moved up by d cells. *)
Shift(b, d) == [i \in Cells |-> IF i + d \in Cells THEN b[i + d] ELSE Blank]

LEMMA BlankGlyph == Blank \in Glyphs /\ Dash \in Glyphs /\ Art \in Glyphs /\ PromptChar \in Glyphs
BY ConsoleAssumption

LEMMA CursorCell ==
  ASSUME Screen
  PROVE  cursor \in Cells /\ cursor \in Nat
<1>1. terminal_row * VGA_WIDTH + terminal_column \in Cells
  BY CellIndex DEF Screen
<1> QED
  BY <1>1 DEF Screen, Cells

LEMMA RowTyped ==
  ASSUME NEW b \in [Cells -> Glyphs], NEW y \in 0 .. VGA_HEIGHT - 1
  PROVE  Row(b, y) \in PaperRow
<1>1. \A x \in 0 .. VGA_WIDTH - 1 : y * VGA_WIDTH + x \in Cells
  BY CellIndex
<1>2. \A x \in 0 .. VGA_WIDTH - 1 : b[y * VGA_WIDTH + x] \in Glyphs
  BY <1>1
<1> QED
  BY <1>2 DEF Row, PaperRow

(* A line feed, or the end of a row, with b in the cells. *)
LEMMA NextLineEffect ==
  ASSUME Screen, NEW b \in [Cells -> Glyphs],
         \A i \in Cells : i >= (terminal_row + 1) * VGA_WIDTH => b[i] = Blank,
         NextLine(b), vga_update_cursor
  PROVE  /\ Screen' /\ terminal_column' = 0
         /\ \E d \in {0, VGA_WIDTH} :
              /\ terminal_buffer' = Shift(b, d)
              /\ cursor' = (terminal_row + 1) * VGA_WIDTH - d
              /\ d = VGA_WIDTH => cursor' = VGA_WIDTH * (VGA_HEIGHT - 1)
<1> DEFINE W == VGA_WIDTH
           y == terminal_row
           n == (terminal_row + 1) * VGA_WIDTH
           S == VGA_WIDTH * VGA_HEIGHT
           e == VGA_WIDTH * (VGA_HEIGHT - 1)
<1>1. /\ W \in Nat /\ W > 0 /\ VGA_HEIGHT \in Nat /\ VGA_HEIGHT > 0
      /\ y \in 0 .. VGA_HEIGHT - 1 /\ terminal_column \in 0 .. W - 1 /\ 0 \in 0 .. W - 1
  BY VgaAssumption DEF Screen
<1>2. /\ y * W \in Nat /\ n = y * W + W /\ Cells = 0 .. S - 1 /\ S \in Nat /\ e \in Nat /\ e = S - W
      /\ y = VGA_HEIGHT - 1 => y * W = e
      /\ y # VGA_HEIGHT - 1 => n <= e
  BY <1>1, CellIndex, CellSize DEF Cells
<1>3. cursor' = terminal_row' * W + terminal_column'
  BY DEF vga_update_cursor
<1>4. CASE terminal_row + 1 = VGA_HEIGHT
  <2>1. /\ terminal_buffer' = Shift(b, W) /\ terminal_row' = VGA_HEIGHT - 1 /\ terminal_column' = 0
        /\ gone' = Append(gone, Row(b, 0))
    BY <1>4 DEF NextLine, vga_scroll, Shift
  <2>2. y = VGA_HEIGHT - 1
    BY <1>1, <1>4
  <2>3. cursor' = e /\ cursor' = n - W
    BY <1>1, <1>2, <1>3, <2>1, <2>2
  <2>4. terminal_row' \in 0 .. VGA_HEIGHT - 1
    BY <1>1, <2>1
  <2> HIDE DEF e, n, S
  <2>5. \A i \in Cells : i + W \in Cells \/ i >= e
    BY <1>1, <1>2
  <2>6. \A i \in Cells : i >= e => i + W \notin Cells
    BY <1>1, <1>2
  <2>7. terminal_buffer' \in [Cells -> Glyphs] /\ \A i \in Cells : i >= e => terminal_buffer'[i] = Blank
    BY <2>1, <2>6, BlankGlyph DEF Shift
  <2>8. gone' \in Seq(PaperRow)
    <3>1. Row(b, 0) \in PaperRow
      BY <1>1, RowTyped
    <3> QED
      BY <2>1, <3>1 DEF Screen
  <2>9. Screen'
    BY <1>1, <1>3, <2>1, <2>3, <2>4, <2>7, <2>8 DEF Screen
  <2> QED
    BY <2>1, <2>3, <2>9 DEF e, n
<1>5. CASE terminal_row + 1 # VGA_HEIGHT
  <2>1. /\ terminal_buffer' = b /\ terminal_row' = terminal_row + 1 /\ terminal_column' = 0
        /\ gone' = gone
    BY <1>5 DEF NextLine
  <2>2. terminal_row' \in 0 .. VGA_HEIGHT - 1
    BY <1>1, <1>5, <2>1
  <2>3. cursor' = n /\ n \in Nat
    BY <1>1, <1>2, <1>3, <2>1
  <2>4. b = Shift(b, 0)
    <3>1. \A i \in Cells : i + 0 = i
      BY <1>2
    <3>2. b = [i \in Cells |-> b[i]]
      OBVIOUS
    <3> QED
      BY <3>1, <3>2 DEF Shift
  <2>5. Screen'
    BY <1>1, <1>3, <2>1, <2>2, <2>3 DEF Screen
  <2>6. cursor' = n - 0
    BY <2>3
  <2>7. 0 # W
    BY <1>1
  <2> QED
    BY <2>1, <2>4, <2>5, <2>6, <2>7
<1> QED
  BY <1>4, <1>5

LEMMA NewlineEffect ==
  ASSUME Screen, vga_putchar(Newline)
  PROVE  Screen' /\ terminal_column' = 0
<1>1. NextLine(terminal_buffer) /\ vga_update_cursor
  BY VgaAssumption DEF vga_putchar
<1>2. \A i \in Cells : i >= (terminal_row + 1) * VGA_WIDTH => i >= cursor
  <2>1. /\ terminal_row * VGA_WIDTH \in Nat /\ terminal_column \in 0 .. VGA_WIDTH - 1 /\ VGA_WIDTH \in Nat
        /\ (terminal_row + 1) * VGA_WIDTH = terminal_row * VGA_WIDTH + VGA_WIDTH
        /\ cursor = terminal_row * VGA_WIDTH + terminal_column
    BY CellIndex, VgaAssumption DEF Screen
  <2> DEFINE a == terminal_row * VGA_WIDTH
             b == (terminal_row + 1) * VGA_WIDTH
  <2> HIDE DEF a, b
  <2>2. a \in Nat /\ b = a + VGA_WIDTH /\ cursor = a + terminal_column /\ b >= cursor
    BY <2>1 DEF a, b
  <2>3. \A i \in Cells : i \in Int
    BY DEF Cells
  <2> QED
    BY <2>1, <2>2, <2>3 DEF b
<1>3. terminal_buffer \in [Cells -> Glyphs] /\ \A i \in Cells : i >= cursor => terminal_buffer[i] = Blank
  BY DEF Screen
<1> QED
  BY <1>1, <1>2, <1>3, NextLineEffect

(* A character that goes into a cell. *)
LEMMA GlyphEffect ==
  ASSUME Screen, NEW c \in Glyphs, vga_putchar(c)
  PROVE  /\ Screen'
         /\ terminal_column' = IF terminal_column + 1 = VGA_WIDTH THEN 0 ELSE terminal_column + 1
         /\ \E d \in {0, VGA_WIDTH} :
              /\ terminal_buffer' = Shift([terminal_buffer EXCEPT ![cursor] = c], d)
              /\ cursor' = cursor + 1 - d
              /\ d = VGA_WIDTH => cursor' = VGA_WIDTH * (VGA_HEIGHT - 1)
<1> DEFINE W == VGA_WIDTH
           a == terminal_row * VGA_WIDTH
           n == (terminal_row + 1) * VGA_WIDTH
           b == [terminal_buffer EXCEPT ![cursor] = c]
<1>1. /\ W \in Nat /\ W > 0 /\ terminal_column \in 0 .. W - 1
      /\ a \in Nat /\ n = a + W /\ cursor = a + terminal_column
  BY CellIndex, VgaAssumption DEF Screen
<1>2. PutPrintable(c) /\ vga_update_cursor
  BY DEF vga_putchar, Glyphs
<1>3. b = vga_putchar_at(c, terminal_column, terminal_row)
  BY DEF vga_putchar_at, Screen
<1>4. cursor \in Cells /\ cursor \in Nat /\ \A i \in Cells : i \in Nat
  BY CursorCell DEF Cells
<1>5. b \in [Cells -> Glyphs] /\ \A i \in Cells : b[i] = IF i = cursor THEN c ELSE terminal_buffer[i]
  BY <1>4 DEF Screen
<1> HIDE DEF b
<1>6. CASE terminal_column + 1 = W
  <2>1. NextLine(b)
    BY <1>2, <1>3, <1>6 DEF PutPrintable
  <2> HIDE DEF a, n
  <2>2. n = cursor + 1
    BY <1>1, <1>6
  <2>3. \A i \in Cells : i >= n => b[i] = Blank
    BY <1>4, <1>5, <2>2 DEF Screen
  <2>4. /\ Screen' /\ terminal_column' = 0
        /\ \E d \in {0, VGA_WIDTH} :
              /\ terminal_buffer' = Shift(b, d)
              /\ cursor' = n - d
              /\ d = VGA_WIDTH => cursor' = VGA_WIDTH * (VGA_HEIGHT - 1)
    BY <1>2, <1>5, <2>1, <2>3, NextLineEffect DEF n
  <2>5. PICK d \in {0, VGA_WIDTH} :
              /\ terminal_buffer' = Shift(b, d)
              /\ cursor' = n - d
              /\ d = VGA_WIDTH => cursor' = VGA_WIDTH * (VGA_HEIGHT - 1)
    BY <2>4
  <2>6. terminal_buffer' = Shift([terminal_buffer EXCEPT ![cursor] = c], d)
    BY <2>5 DEF b
  <2>7. cursor' = cursor + 1 - d
    <3>1. d \in Int /\ cursor \in Int
      BY <1>1, <1>4
    <3> QED
      BY <2>2, <2>5, <3>1
  <2> QED
    BY <1>6, <2>4, <2>5, <2>6, <2>7
<1>7. CASE terminal_column + 1 # W
  <2>1. /\ terminal_buffer' = b /\ terminal_column' = terminal_column + 1
        /\ terminal_row' = terminal_row /\ gone' = gone
    BY <1>2, <1>3, <1>7 DEF PutPrintable
  <2>2. cursor' = terminal_row' * W + terminal_column'
    BY <1>2 DEF vga_update_cursor
  <2>3. cursor' = cursor + 1
    BY <1>1, <2>1, <2>2
  <2>4. terminal_column' \in 0 .. W - 1
    BY <1>1, <1>7, <2>1
  <2>5. \A i \in Cells : i >= cursor' => b[i] = Blank
    BY <1>4, <1>5, <2>3 DEF Screen
  <2>6. Screen'
    BY <1>5, <2>1, <2>2, <2>4, <2>5 DEF Screen
  <2>7. b = Shift(b, 0)
    <3>1. \A i \in Cells : i + 0 = i
      BY <1>4
    <3>2. b = [i \in Cells |-> b[i]]
      BY <1>5
    <3> QED
      BY <3>1, <3>2 DEF Shift
  <2>8. cursor' = cursor + 1 - 0 /\ 0 # W
    BY <1>1, <1>4, <2>3
  <2> QED
    BY <1>7, <2>1, <2>6, <2>7, <2>8 DEF b
<1> QED
  BY <1>6, <1>7

LEMMA BackspaceEffect ==
  ASSUME Screen, vga_putchar(Backspace)
  PROVE  /\ Screen'
         /\ terminal_column = 0 => UNCHANGED <<terminal_buffer, terminal_row, terminal_column, cursor, gone>>
         /\ terminal_column > 0 =>
              /\ terminal_column' = terminal_column - 1 /\ UNCHANGED <<terminal_row, gone>>
              /\ cursor' = cursor - 1 /\ cursor' \in Cells
              /\ terminal_buffer' = [terminal_buffer EXCEPT ![cursor - 1] = Blank]
<1> DEFINE W == VGA_WIDTH
           a == terminal_row * VGA_WIDTH
<1>1. /\ W \in Nat /\ W > 0 /\ terminal_column \in 0 .. W - 1
      /\ a \in Nat /\ cursor = a + terminal_column
  BY CellIndex, VgaAssumption DEF Screen
<1>2. PutBackspace /\ vga_update_cursor
  BY VgaAssumption DEF vga_putchar
<1>3. terminal_row' = terminal_row /\ gone' = gone
  BY <1>2 DEF PutBackspace
<1>4. cursor' = terminal_row' * W + terminal_column'
  BY <1>2 DEF vga_update_cursor
<1>5. cursor \in Cells /\ \A i \in Cells : i \in Nat
  BY CursorCell DEF Cells
<1>6. CASE terminal_column = 0
  <2>1. UNCHANGED <<terminal_buffer, terminal_row, terminal_column, cursor, gone>>
    BY <1>1, <1>2, <1>3, <1>4, <1>6 DEF PutBackspace
  <2> QED
    BY <1>6, <2>1 DEF Screen
<1>7. CASE terminal_column > 0
  <2>1. /\ terminal_column' = terminal_column - 1
        /\ terminal_buffer' = [terminal_buffer EXCEPT ![a + (terminal_column - 1)] = Blank]
    BY <1>2, <1>7 DEF PutBackspace, vga_putchar_at
  <2>2. cursor' = cursor - 1 /\ a + (terminal_column - 1) = cursor - 1 /\ terminal_column' \in 0 .. W - 1
    BY <1>1, <1>3, <1>4, <1>7, <2>1
  <2>3. cursor' \in Cells
    BY <1>3, <2>2, CellIndex, <1>4 DEF Screen
  <2>4. terminal_buffer' = [terminal_buffer EXCEPT ![cursor - 1] = Blank]
    BY <2>1, <2>2, Zenon
  <2> HIDE DEF a
  <2>5. terminal_buffer' \in [Cells -> Glyphs] /\ \A i \in Cells : i >= cursor' => terminal_buffer'[i] = Blank
    BY <1>5, <2>2, <2>3, <2>4, BlankGlyph DEF Screen
  <2>6. Screen'
    BY <1>3, <1>4, <2>2, <2>5 DEF Screen
  <2>7. terminal_column # 0
    BY <1>1, <1>7
  <2> DEFINE t == [terminal_buffer EXCEPT ![cursor - 1] = Blank]
  <2>8. terminal_buffer' = t
    BY <2>4
  <2> HIDE DEF t
  <2>9. /\ terminal_column' = terminal_column - 1 /\ UNCHANGED <<terminal_row, gone>>
        /\ cursor' = cursor - 1 /\ cursor' \in Cells /\ terminal_buffer' = t
    BY <1>3, <2>1, <2>2, <2>3, <2>8
  <2> QED
    BY <2>6, <2>7, <2>9 DEF t
<1> QED
  BY <1>1, <1>6, <1>7

LEMMA ClearedBlank ==
  /\ Cleared \in [Cells -> Glyphs] /\ SEPARATOR_Y + 2 \in 0 .. VGA_HEIGHT - 1
  /\ \A i \in Cells : i >= (SEPARATOR_Y + 2) * VGA_WIDTH + 0 => Cleared[i] = Blank
<1> DEFINE k == SEPARATOR_Y + 2
<1>1. /\ k \in Nat /\ k \in 0 .. VGA_HEIGHT - 1 /\ k > SEPARATOR_Y /\ START_Y + ART_HEIGHT - 1 < k
      /\ START_Y \in Nat /\ ART_HEIGHT \in Nat /\ VGA_WIDTH \in Nat /\ SEPARATOR_Y \in Int
  BY VgaAssumption DEF SEPARATOR_Y
<1>2. Cleared \in [Cells -> Glyphs]
  BY BlankGlyph DEF Cleared
<1> HIDE DEF k
<1>3. ASSUME NEW i \in Cells, i >= k * VGA_WIDTH + 0 PROVE Cleared[i] = Blank
  <2> DEFINE y == i \div VGA_WIDTH
  <2>1. i \in Nat /\ k * VGA_WIDTH \in Nat
    BY <1>1 DEF Cells
  <2>2. i >= k * VGA_WIDTH
    BY <1>3, <2>1
  <2>3. y >= k /\ y \in Int
    BY <1>1, <2>1, <2>2, RowOf, VgaAssumption
  <2>4. Cleared[i] = IF y \in START_Y .. START_Y + ART_HEIGHT - 1 THEN Art
                     ELSE IF y = SEPARATOR_Y THEN Dash ELSE Blank
    BY DEF Cleared
  <2> HIDE DEF y
  <2> QED
    BY <1>1, <2>3, <2>4
<1> QED
  BY <1>1, <1>2, <1>3 DEF k

LEMMA RowsTyped ==
  ASSUME NEW b \in [Cells -> Glyphs]
  PROVE  Rows(b) \in Seq(PaperRow) /\ Len(Rows(b)) = VGA_HEIGHT
<1>1. \A k \in 1 .. VGA_HEIGHT : k - 1 \in 0 .. VGA_HEIGHT - 1
  BY VgaAssumption
<1>2. \A k \in 1 .. VGA_HEIGHT : Row(b, k - 1) \in PaperRow
  BY <1>1, RowTyped
<1> QED
  BY <1>2, VgaAssumption DEF Rows

LEMMA ClearEffect ==
  ASSUME Screen, vga_clear
  PROVE  Screen' /\ terminal_column' = 0
<1>1. /\ terminal_buffer' = Cleared /\ terminal_row' = SEPARATOR_Y + 2 /\ terminal_column' = 0
      /\ cursor' = terminal_row' * VGA_WIDTH + terminal_column' /\ gone' = gone \o Rows(terminal_buffer)
  BY DEF vga_clear, vga_update_cursor
<1>2. gone' \in Seq(PaperRow)
  BY <1>1, RowsTyped, Concatenated DEF Screen
<1>3. 0 \in 0 .. VGA_WIDTH - 1
  BY VgaAssumption
<1>4. cursor' = (SEPARATOR_Y + 2) * VGA_WIDTH + 0
  BY <1>1
<1> QED
  BY <1>1, <1>2, <1>3, <1>4, ClearedBlank DEF Screen

LEMMA InitScreen ==
  ASSUME vga_init
  PROVE  Screen /\ terminal_column = 0
<1>1. /\ terminal_buffer = Cleared /\ terminal_row = SEPARATOR_Y + 2 /\ terminal_column = 0
      /\ cursor = (SEPARATOR_Y + 2) * VGA_WIDTH + 0 /\ gone = <<>>
  BY DEF vga_init
<1>2. 0 \in 0 .. VGA_WIDTH - 1
  BY VgaAssumption
<1> QED
  BY <1>1, <1>2, ClearedBlank DEF Screen

-----------------------------------------------------------------------------
(* The echo on the screen *)

(* The first k characters of a prompt of length n and the line l stand in  *)
(* the cells of b before the one at e.                                     *)
Spoken(n, l, i) == IF i <= n THEN PromptChar ELSE l[i - n]
Shows(b, e, n, l, k) == k <= e /\ \A i \in 1 .. k : b[e - k + i - 1] = Spoken(n, l, i)

LEMMA ShowsMore ==
  ASSUME Screen, NEW c \in Glyphs, vga_putchar(c), NEW n, NEW l, NEW k \in Nat,
         Shows(terminal_buffer, cursor, n, l, k), c = Spoken(n, l, k + 1),
         k + 1 <= VGA_WIDTH * (VGA_HEIGHT - 1)
  PROVE  Shows(terminal_buffer', cursor', n, l, k + 1)
<1> DEFINE b == [terminal_buffer EXCEPT ![cursor] = c]
           S == VGA_WIDTH * VGA_HEIGHT
           e == VGA_WIDTH * (VGA_HEIGHT - 1)
<1>1. PICK d \in {0, VGA_WIDTH} :
              /\ terminal_buffer' = Shift([terminal_buffer EXCEPT ![cursor] = c], d)
              /\ cursor' = cursor + 1 - d
              /\ d = VGA_WIDTH => cursor' = VGA_WIDTH * (VGA_HEIGHT - 1)
  BY GlyphEffect
<1>2. terminal_buffer' = Shift(b, d)
  BY <1>1
<1>3. cursor \in Cells /\ cursor \in Nat /\ Cells = 0 .. S - 1 /\ S \in Nat /\ d \in Nat
  BY CursorCell, CellSize, VgaAssumption DEF Cells
<1>4. \A i \in Cells : b[i] = IF i = cursor THEN c ELSE terminal_buffer[i]
  BY DEF Screen
<1> HIDE DEF b, S, e
<1>5. k + 1 <= cursor' /\ cursor' \in Nat /\ cursor' = cursor + 1 - d
  <2>1. CASE d = VGA_WIDTH
    BY <1>1, <1>3, <2>1, CellSize DEF e
  <2>2. CASE d = 0
    BY <1>1, <1>3, <2>2 DEF Shows
  <2> QED
    BY <1>1, <2>1, <2>2
<1>6. ASSUME NEW i \in 1 .. k + 1
      PROVE  terminal_buffer'[cursor' - (k + 1) + i - 1] = Spoken(n, l, i)
  <2> DEFINE j == cursor' - (k + 1) + i - 1
  <2>1. j \in Cells /\ j + d \in Cells /\ j + d = cursor - k + i - 1
    BY <1>3, <1>5
  <2> HIDE DEF j
  <2>2. terminal_buffer'[j] = b[j + d]
    BY <1>2, <2>1 DEF Shift
  <2>3. CASE i = k + 1
    <3>1. j + d = cursor
      BY <1>3, <2>1, <2>3
    <3> QED
      BY <1>4, <2>1, <2>2, <2>3, <3>1 DEF j
  <2>4. CASE i # k + 1
    <3>1. i \in 1 .. k /\ j + d # cursor
      BY <1>3, <2>1, <2>4
    <3>2. terminal_buffer[cursor - k + i - 1] = Spoken(n, l, i)
      BY <3>1 DEF Shows
    <3> QED
      BY <1>4, <2>1, <2>2, <3>1, <3>2 DEF j
  <2> QED
    BY <2>3, <2>4
<1> QED
  BY <1>5, <1>6 DEF Shows

LEMMA ShowsLess ==
  ASSUME Screen, vga_putchar(Backspace), terminal_column > 0, NEW n, NEW l, NEW k \in Nat,
         Shows(terminal_buffer, cursor - 1, n, l, k)
  PROVE  Shows(terminal_buffer', cursor', n, l, k)
<1>1. cursor' = cursor - 1 /\ terminal_buffer' = [terminal_buffer EXCEPT ![cursor - 1] = Blank]
  BY BackspaceEffect
<1>2. cursor \in Nat /\ \A j \in Nat : j <= cursor => j \in Cells
  <2>1. cursor \in Nat /\ cursor \in 0 .. VGA_WIDTH * VGA_HEIGHT - 1 /\ VGA_WIDTH * VGA_HEIGHT \in Nat
    BY CursorCell, CellSize DEF Cells
  <2> DEFINE S == VGA_WIDTH * VGA_HEIGHT
  <2>2. Cells = 0 .. S - 1
    BY DEF Cells
  <2> HIDE DEF S
  <2> QED
    BY <2>1, <2>2 DEF S
<1>3. \A i \in Cells : i # cursor - 1 => terminal_buffer'[i] = terminal_buffer[i]
  BY <1>1 DEF Screen
<1>4. ASSUME NEW i \in 1 .. k
      PROVE  terminal_buffer'[cursor' - k + i - 1] = Spoken(n, l, i)
  <2> DEFINE j == (cursor - 1) - k + i - 1
  <2>1. j \in Nat /\ j <= cursor /\ j # cursor - 1
    BY <1>2 DEF Shows
  <2>2. terminal_buffer[j] = Spoken(n, l, i) /\ cursor' - k + i - 1 = j
    BY <1>1 DEF Shows
  <2> HIDE DEF j
  <2> QED
    BY <1>2, <1>3, <2>1, <2>2
<1>5. k <= cursor'
  BY <1>1 DEF Shows
<1> QED
  BY <1>4, <1>5 DEF Shows

(* A line without its last character. *)
Shorter(l) == SubSeq(l, 1, Len(l) - 1)

LEMMA ShowsShorter ==
  ASSUME NEW b, NEW e \in Nat, NEW n \in Nat, NEW T, NEW l \in Seq(T), l # <<>>,
         Shows(b, e, n, l, n + Len(l))
  PROVE  Shows(b, e - 1, n, Shorter(l), n + Len(Shorter(l)))
<1> DEFINE m == Len(l)
<1>1. m \in Nat /\ m > 0 /\ Len(Shorter(l)) = m - 1 /\ \A i \in 1 .. m - 1 : Shorter(l)[i] = l[i]
  <2>1. Shorter(l) = [i \in 1 .. m - 1 |-> l[i]]
    BY DEF Shorter, SubSeq
  <2>2. m \in Nat /\ m > 0
    BY NoneOrSome, Length
  <2> HIDE DEF m
  <2> QED
    BY <2>1, <2>2
<1> HIDE DEF m
<1>2. n + m <= e /\ \A i \in 1 .. n + m : b[e - (n + m) + i - 1] = Spoken(n, l, i)
  BY DEF Shows, m
<1>3. ASSUME NEW i \in 1 .. n + (m - 1)
      PROVE  b[(e - 1) - (n + (m - 1)) + i - 1] = Spoken(n, Shorter(l), i)
  <2>1. i \in 1 .. n + m /\ (e - 1) - (n + (m - 1)) + i - 1 = e - (n + m) + i - 1
    BY <1>1
  <2>2. Spoken(n, Shorter(l), i) = Spoken(n, l, i)
    <3>1. ~(i <= n) => i - n \in 1 .. m - 1
      BY <1>1
    <3> QED
      BY <1>1, <3>1 DEF Spoken
  <2> QED
    BY <1>2, <2>1, <2>2
<1>4. n + (m - 1) <= e - 1
  BY <1>1, <1>2
<1> QED
  BY <1>1, <1>3, <1>4 DEF Shows

LEMMA ShowsAppend ==
  ASSUME NEW b, NEW e, NEW n \in Nat, NEW T, NEW l \in Seq(T), NEW c \in T,
         Shows(b, e, n, l, n + Len(l))
  PROVE  /\ Shows(b, e, n, Append(l, c), n + Len(l))
         /\ Spoken(n, Append(l, c), n + Len(l) + 1) = c
<1> DEFINE m == Len(l)
           a == Append(l, c)
<1>1. m \in Nat /\ a[m + 1] = c /\ \A i \in 1 .. m : a[i] = l[i]
  BY Appended
<1> HIDE DEF m, a
<1>2. ASSUME NEW i \in 1 .. n + m PROVE Spoken(n, a, i) = Spoken(n, l, i)
  <2>1. ~(i <= n) => i - n \in 1 .. m
    BY <1>1
  <2> QED
    BY <1>1, <2>1 DEF Spoken
<1>3. Spoken(n, a, n + m + 1) = c
  <2>1. ~(n + m + 1 <= n) /\ n + m + 1 - n = m + 1
    BY <1>1
  <2> QED
    BY <1>1, <2>1 DEF Spoken
<1>4. Shows(b, e, n, l, n + m)
  BY DEF m
<1> QED
  BY <1>2, <1>3, <1>4 DEF Shows, m, a

(* The prompt alone. *)
LEMMA ShowsPrompt ==
  ASSUME NEW b, NEW e, NEW n, NEW l, NEW h, NEW k \in Nat, k <= n, n \in Nat, Shows(b, e, n, l, k)
  PROVE  Shows(b, e, n, h, k)
<1>1. \A i \in 1 .. k : i <= n
  OBVIOUS
<1> QED
  BY <1>1 DEF Shows, Spoken

LEMMA ShowsNone ==
  ASSUME NEW b, NEW e \in Nat, NEW n, NEW l
  PROVE  Shows(b, e, n, l, 0)
BY DEF Shows

-----------------------------------------------------------------------------
(* The words of a line *)

(* What shell_execute_command reads: the arguments of a line are texts of  *)
(* the characters of the line.                                             *)
Reading(T, line_) == [argv : Seq(Seq(T)), i : 1 .. Len(line_) + 1]

LEMMA NextArgTyped ==
  ASSUME NEW T, NEW s \in Seq(T), NEW args \in Reading(T, s)
  PROVE  NextArg(s, args) \in Reading(T, s)
<1> DEFINE n == Len(s)
<1>1. n \in Nat /\ args.i \in 1 .. n + 1 /\ args.argv \in Seq(Seq(T))
  BY DEF Reading
<1>2. ASSUME NEW i \in 1 .. n + 1
      PROVE  SkipFrom(s, i) \in i .. n + 1 /\ WordEnd(s, i) \in i .. n + 1
  <2> DEFINE A == {k \in i .. n + 1 : k = n + 1 \/ ~Separator(s[k])}
             B == {k \in i .. n + 1 : k = n + 1 \/ Separator(s[k])}
  <2>1. A \in SUBSET Nat /\ A # {} /\ B \in SUBSET Nat /\ B # {}
    <3>1. n + 1 \in A /\ n + 1 \in B
      BY <1>1
    <3> QED
      BY <1>1, <3>1
  <2>2. SkipFrom(s, i) = Min(A) /\ WordEnd(s, i) = Min(B)
    BY DEF SkipFrom, WordEnd
  <2>3. A \subseteq i .. n + 1 /\ B \subseteq i .. n + 1
    OBVIOUS
  <2> HIDE DEF A, B
  <2> QED
    BY <2>1, <2>2, <2>3, MinOfNats, Zenon
<1> DEFINE start_ == SkipFrom(s, args.i)
           end == WordEnd(s, start_)
<1>3. start_ \in 1 .. n + 1 /\ (start_ <= n => end \in start_ .. n + 1)
  <2>1. start_ \in args.i .. n + 1
    BY <1>1, <1>2
  <2>2. start_ \in 1 .. n + 1
    BY <1>1, <2>1
  <2> QED
    BY <1>2, <2>2
<1> HIDE DEF start_, end
<1>4. NextArg(s, args) = IF start_ > n THEN args
                         ELSE [argv |-> Append(args.argv, SubSeq(s, start_, end - 1)), i |-> end]
  BY DEF NextArg, start_, end
<1>5. CASE start_ > n
  BY <1>4, <1>5
<1>6. CASE ~(start_ > n)
  <2>1. end \in 1 .. n + 1 /\ start_ \in 1 .. n /\ end - 1 \in start_ - 1 .. n
    BY <1>1, <1>3, <1>6
  <2>2. SubSeq(s, start_, end - 1) \in Seq(T)
    <3>1. \A k \in start_ .. end - 1 : k \in 1 .. Len(s)
      BY <1>1, <2>1
    <3> QED
      BY <1>1, <2>1, PartOf
  <2>3. Append(args.argv, SubSeq(s, start_, end - 1)) \in Seq(Seq(T))
    BY <1>1, <2>2, Appended
  <2> QED
    BY <1>4, <1>6, <2>1, <2>3 DEF Reading
<1> QED
  BY <1>5, <1>6

LEMMA ArgsTyped ==
  ASSUME NEW T, NEW s \in Seq(T)
  PROVE  Args(s) \in Seq(Seq(T))
<1> DEFINE R == Reading(T, s)
           none == [argv |-> <<>>, i |-> 1]
           Eq(f) == f = [argc \in 0 .. MAX_ARGS |-> IF argc = 0 THEN [argv |-> <<>>, i |-> 1]
                                                    ELSE NextArg(s, f[argc - 1])]
           split == CHOOSE f : Eq(f)
<1>0. MAX_ARGS \in Nat
  BY ArgumentsAssumption
<1>1. none \in R
  BY Length DEF Reading
<1>2. \A r \in R : NextArg(s, r) \in R
  BY NextArgTyped
<1>3. PICK f \in [0 .. MAX_ARGS -> R] :
        f[0] = none /\ \A k \in 1 .. MAX_ARGS : f[k] = NextArg(s, f[k - 1])
  <2> DEFINE F == [r \in R |-> NextArg(s, r)]
  <2> HIDE DEF R, none
  <2>1. F \in [R -> R] /\ \A r \in R : F[r] = NextArg(s, r)
    BY <1>2
  <2> HIDE DEF F
  <2>2. PICK f \in Iterates(R, F, none, MAX_ARGS) : TRUE
    BY <1>0, <1>1, <2>1, Iteration
  <2>3. f \in [0 .. MAX_ARGS -> R] /\ f[0] = none /\ \A k \in 1 .. MAX_ARGS : f[k] = F[f[k - 1]]
    BY <2>2 DEF Iterates
  <2>4. ASSUME NEW k \in 1 .. MAX_ARGS PROVE f[k] = NextArg(s, f[k - 1])
    <3>1. k - 1 \in 0 .. MAX_ARGS
      BY <1>0
    <3> QED
      BY <2>1, <2>3, <3>1
  <2> QED
    BY <2>3, <2>4, Zenon
<1>4. Eq(f)
  <2> DEFINE r == [argc \in 0 .. MAX_ARGS |-> IF argc = 0 THEN none ELSE NextArg(s, f[argc - 1])]
  <2> HIDE DEF none
  <2>1. \A k \in 0 .. MAX_ARGS : f[k] = r[k]
    BY <1>0, <1>3
  <2>2. f = r
    BY <2>1
  <2> QED
    BY <2>2, Zenon DEF none
<1>5. Eq(split)
  <2> HIDE DEF Eq
  <2> QED
    BY <1>4
<1>6. Args(s) = split[MAX_ARGS].argv
  BY Zenon DEF Args
<1> HIDE DEF split, none
<1>7. split[0] = none /\ \A k \in 1 .. MAX_ARGS : split[k] = NextArg(s, split[k - 1])
  BY <1>0, <1>5 DEF none
<1> HIDE DEF Eq
<1> DEFINE K == {k \in Nat : k <= MAX_ARGS => split[k] \in R}
<1> HIDE DEF R
<1>8. 0 \in K
  BY <1>1, <1>7
<1>9. ASSUME NEW k \in K PROVE k + 1 \in K
  <2>1. k \in Nat
    OBVIOUS
  <2> SUFFICES ASSUME k + 1 <= MAX_ARGS PROVE split[k + 1] \in R
    BY <2>1
  <2>2. k + 1 \in 1 .. MAX_ARGS /\ (k + 1) - 1 = k /\ split[k] \in R
    BY <1>0, <2>1
  <2> QED
    BY <1>2, <1>7, <2>2
<1>10. K = Nat
  <2>1. K \in SUBSET Nat
    OBVIOUS
  <2> HIDE DEF K
  <2> QED
    BY <1>8, <1>9, <2>1, InductionOnSet
<1>11. split[MAX_ARGS] \in R
  BY <1>0, <1>10
<1> QED
  BY <1>6, <1>11 DEF R, Reading

LEMMA FirstArgTyped ==
  ASSUME NEW T, NEW s \in Seq(T), Args(s) # <<>>
  PROVE  Args(s)[1] \in Seq(T)
<1> DEFINE a == Args(s)
<1>1. a \in Seq(Seq(T)) /\ a # <<>>
  BY ArgsTyped
<1> HIDE DEF a
<1>2. Len(a) \in Nat /\ Len(a) # 0
  BY <1>1, NoneOrSome, Length
<1>3. 1 \in 1 .. Len(a)
  BY <1>2
<1> QED
  BY <1>1, <1>3, ElementIn DEF a

-----------------------------------------------------------------------------
(* The inductive invariant of the dialogue.  A prompt is printed behind a   *)
(* line feed or a cleared screen, so that it begins a row, unless a line of *)
(* blanks filled the buffer; what is printed of the prompt and the line     *)
(* stands before the cursor.                                                *)
Fits == start + MAX_COMMAND_LENGTH - 2 < VGA_WIDTH
FullBlank == Len(line) = MAX_COMMAND_LENGTH - 1 /\ Args(line) = <<>>
Echoed(e, k) == ~swallowed => Shows(terminal_buffer, e, prompt, line, k)

PromptEnds(o, n) ==
  /\ \A i \in 1 .. Len(o) : i > Len(o) - n => o[i] = PromptChar
  /\ Len(o) > n => o[Len(o) - n] \in {Newline, CLEAR}

Prompting ==
  /\ PromptEnds(out, prompt)
  /\ Len(out) <= prompt =>
       /\ Shows(terminal_buffer, cursor, prompt, <<>>, prompt - Len(out))
       /\ terminal_column = (prompt - Len(out)) % VGA_WIDTH \/ FullBlank

EditingLine ==
  /\ Len(line) < MAX_COMMAND_LENGTH - 1
  /\ \/ /\ out = <<>> /\ Echoed(cursor, prompt + Len(line))
        /\ Fits => terminal_column = start + Len(line)
     \/ /\ line # <<>> /\ out = <<line[Len(line)]>>
        /\ Echoed(cursor, prompt + Len(line) - 1)
        /\ Fits => terminal_column = start + Len(line) - 1
     \/ /\ out = <<Backspace>> /\ Len(line) < MAX_COMMAND_LENGTH - 2
        /\ Echoed(cursor - 1, prompt + Len(line))
        /\ Fits => terminal_column = start + Len(line) + 1

Running ==
  \/ out = <<Newline>> /\ Len(line) < MAX_COMMAND_LENGTH - 1
  \/ \E c \in Keys : out = <<c>> /\ Len(line) = MAX_COMMAND_LENGTH - 1
  \/ out = <<>> /\ (Len(line) < MAX_COMMAND_LENGTH - 1 => terminal_column = 0)

DialogueTyped ==
  /\ mode \in {"prompt", "edit", "run"}
  /\ out \in Seq(Char \cup {CLEAR})
  /\ line \in Seq(Keys) /\ Len(line) < MAX_COMMAND_LENGTH
  /\ prompt \in PromptLengths
  /\ start \in 0 .. VGA_WIDTH - 1
  /\ swallowed \in BOOLEAN

ConsoleInv ==
  /\ Screen
  /\ DialogueTyped
  /\ swallowed => ~Fits
  /\ mode = "prompt" => Prompting
  /\ mode = "edit" => EditingLine
  /\ mode = "run" => Running

-----------------------------------------------------------------------------
LEMMA NextMod ==
  ASSUME NEW k \in Nat
  PROVE  (k + 1) % VGA_WIDTH = IF (k % VGA_WIDTH) + 1 = VGA_WIDTH THEN 0 ELSE (k % VGA_WIDTH) + 1
<1> DEFINE W == VGA_WIDTH
           q == k \div W
           r == k % W
           p == (k + 1) \div W
           s == (k + 1) % W
<1>1. W \in Nat \ {0}
  BY VgaAssumption
<1> HIDE DEF W
<1>2. q \in Nat /\ r \in 0 .. W - 1 /\ k = W * q + r
  BY <1>1
<1>3. p \in Nat /\ s \in 0 .. W - 1 /\ k + 1 = W * p + s
  <2>1. k + 1 \in Nat
    OBVIOUS
  <2> QED
    BY <1>1, <2>1
<1> HIDE DEF q, r, p, s
<1>4. W * (p - q) = (r + 1) - s /\ p - q \in Int
  <2>1. W * (p - q) = W * p - W * q
    BY <1>1, <1>2, <1>3
  <2>2. W * p \in Int /\ W * q \in Int
    BY <1>1, <1>2, <1>3
  <2> DEFINE wp == W * p
             wq == W * q
             wd == W * (p - q)
  <2>3. wd = wp - wq /\ wp \in Int /\ wq \in Int /\ k = wq + r /\ k + 1 = wp + s /\ p - q \in Int
    BY <1>2, <1>3, <2>1, <2>2
  <2> HIDE DEF wp, wq, wd
  <2>4. wd = (r + 1) - s
    BY <1>2, <1>3, <2>3
  <2> QED
    BY <2>3, <2>4 DEF wd
<1> DEFINE z == p - q
           u == W * z
<1>5. z \in Int /\ u \in Int /\ u = (r + 1) - s /\ (z >= 2 => u >= W + W) /\ (z = 1 => u = W) /\ (z = 0 => u = 0) /\ (z <= -1 => u <= -W)
  <2> SUFFICES z \in Int /\ u = (r + 1) - s => /\ (z >= 2 => u >= W + W)
                   /\ (z = 1 => u = W) /\ (z = 0 => u = 0) /\ (z <= -1 => u <= -W)
    BY <1>1, <1>2, <1>3, <1>4
  <2> HIDE DEF z
  <2>1. ASSUME z \in Int, z >= 2 PROVE u >= W + W
    <3>1. W * (z - 2) >= 0 /\ W * (z - 2) = W * z - (W + W) /\ W * z \in Int
      BY <1>1, <2>1
    <3> QED
      BY <1>1, <3>1
  <2>2. ASSUME z \in Int, z <= -1 PROVE u <= -W
    <3>1. W * ((-1) - z) >= 0 /\ W * ((-1) - z) = -W - W * z /\ W * z \in Int
      BY <1>1, <2>2
    <3> QED
      BY <1>1, <3>1
  <2>3. z = 1 => u = W
    BY <1>1
  <2>4. z = 0 => u = 0
    BY <1>1
  <2> QED
    BY <2>1, <2>2, <2>3, <2>4
<1> HIDE DEF z, u
<1>6. s = IF r + 1 = W THEN 0 ELSE r + 1
  BY <1>1, <1>2, <1>3, <1>5
<1> QED
  BY <1>6 DEF s, r, W

LEMMA TailFacts ==
  ASSUME NEW T, NEW o \in Seq(T), o # <<>>
  PROVE  /\ Len(o) \in Nat /\ Len(o) > 0 /\ Head(o) = o[1] /\ Head(o) \in T
         /\ Tail(o) \in Seq(T) /\ Len(Tail(o)) = Len(o) - 1
         /\ \A i \in 1 .. Len(o) - 1 : Tail(o)[i] = o[i + 1]
<1>1. Len(o) \in Nat /\ Len(o) # 0
  BY NoneOrSome, Length
<1>2. Head(o) = o[1] /\ Head(o) \in T
  BY FirstAndRest
<1>3. Tail(o) \in Seq(T) /\ Len(Tail(o)) = Len(o) - 1 /\ \A i \in 1 .. Len(Tail(o)) : Tail(o)[i] = o[i + 1]
  BY FirstAndRest
<1> QED
  BY <1>1, <1>2, <1>3

(* What a character, or the clearing, does to the screen. *)
LEMMA PutScreen ==
  ASSUME Screen, out \in Seq(Char \cup {CLEAR}), Put
  PROVE  /\ Screen'
         /\ Head(out) \in {Newline, CLEAR} => terminal_column' = 0
         /\ Head(out) # CLEAR => Head(out) \in Char /\ vga_putchar(Head(out))
<1>1. out # <<>> /\ IF Head(out) = CLEAR THEN vga_clear ELSE vga_putchar(Head(out))
  BY DEF Put
<1>2. Head(out) \in Char \cup {CLEAR}
  BY <1>1, TailFacts
<1>3. CASE Head(out) = CLEAR
  <2>1. vga_clear
    BY <1>1, <1>3
  <2> QED
    BY <1>3, <2>1, ClearEffect
<1>4. CASE Head(out) # CLEAR
  <2>1. vga_putchar(Head(out)) /\ Head(out) \in Char
    BY <1>1, <1>2, <1>4
  <2>2. CASE Head(out) = Newline
    BY <2>1, <2>2, NewlineEffect
  <2>3. CASE Head(out) = Backspace
    <3>1. vga_putchar(Backspace)
      BY <2>1, <2>3
    <3>2. Screen'
      BY <3>1, BackspaceEffect
    <3> QED
      BY <1>4, <2>1, <2>3, <3>2, VgaAssumption
  <2>4. CASE Head(out) \notin {Newline, Backspace}
    <3>1. Head(out) \in Glyphs
      BY <2>1, <2>4 DEF Glyphs
    <3>2. Screen'
      BY <2>1, <3>1, GlyphEffect, Zenon
    <3> QED
      BY <1>4, <2>1, <2>4, <3>2
  <2> QED
    BY <2>2, <2>3, <2>4
<1> QED
  BY <1>3, <1>4

(* A character of the prompt or of the line. *)
LEMMA PromptFits ==
  ASSUME DialogueTyped
  PROVE  /\ prompt \in Nat /\ Len(line) \in Nat /\ Len(line) < MAX_COMMAND_LENGTH
         /\ MAX_COMMAND_LENGTH \in Nat /\ VGA_WIDTH \in Nat /\ start \in Nat
         /\ \A k \in Nat : k <= prompt + Len(line) => k <= VGA_WIDTH * (VGA_HEIGHT - 1)
<1>1. prompt \in Nat /\ MAX_COMMAND_LENGTH \in Nat /\ prompt + MAX_COMMAND_LENGTH < VGA_WIDTH * (VGA_HEIGHT - 1)
  BY ConsoleAssumption DEF DialogueTyped
<1>2. Len(line) \in Nat /\ Len(line) < MAX_COMMAND_LENGTH /\ start \in Nat /\ VGA_WIDTH \in Nat
  BY Length, VgaAssumption DEF DialogueTyped
<1>3. VGA_WIDTH * (VGA_HEIGHT - 1) \in Nat
  BY CellSize
<1> QED
  BY <1>1, <1>2, <1>3

-----------------------------------------------------------------------------
(* A character of the output that is printed *)

LEMMA CharFacts ==
  /\ Newline \in Char /\ Backspace \in Char /\ CLEAR \notin Char
  /\ Glyphs \subseteq Char /\ Newline \notin Glyphs /\ Backspace \notin Glyphs
  /\ Keys \subseteq Glyphs /\ PromptChar \in Glyphs
<1>1. Newline \in Char /\ Backspace \in Char /\ Keys \subseteq Glyphs
  BY ConsoleAssumption
<1>2. CLEAR \notin Char
  BY DEF CLEAR, Char
<1>3. Glyphs \subseteq Char /\ Newline \notin Glyphs /\ Backspace \notin Glyphs
  BY DEF Glyphs
<1> QED
  BY <1>1, <1>2, <1>3, BlankGlyph

LEMMA PutFrame ==
  ASSUME Put
  PROVE  /\ out # <<>> /\ out' = Tail(out)
         /\ mode' = mode /\ line' = line /\ prompt' = prompt /\ start' = start
         /\ swallowed' = (swallowed \/ (mode = "edit" /\ Head(out) = Backspace /\ terminal_column = 0))
         /\ Fits' = Fits /\ FullBlank' = FullBlank
BY DEF Put, Fits, FullBlank

LEMMA PutPrompting ==
  ASSUME Screen, DialogueTyped, Prompting, Put
  PROVE  Prompting'
<1> DEFINE m == Len(out)
           b == terminal_buffer
<1>1. /\ m \in Nat /\ m > 0 /\ Head(out) = out[1] /\ out' = Tail(out) /\ Len(out') = m - 1
      /\ \A i \in 1 .. m - 1 : out'[i] = out[i + 1]
  <2>1. out \in Seq(Char \cup {CLEAR}) /\ out # <<>> /\ out' = Tail(out)
    BY PutFrame DEF DialogueTyped
  <2> QED
    BY <2>1, TailFacts
<1>2. prompt' = prompt /\ FullBlank' = FullBlank /\ prompt \in Nat
  BY PutFrame, PromptFits
<1>3. PromptEnds(out, prompt)
  BY DEF Prompting
<1>4. PromptEnds(out', prompt)
  <2> HIDE DEF m
  <2>1. ASSUME NEW i \in 1 .. m - 1, i > (m - 1) - prompt PROVE out'[i] = PromptChar
    <3>1. i + 1 \in 1 .. m /\ i + 1 > m - prompt
      BY <1>1, <1>2, <2>1
    <3> QED
      BY <1>1, <1>3, <3>1 DEF PromptEnds, m
  <2>2. ASSUME m - 1 > prompt PROVE out'[(m - 1) - prompt] \in {Newline, CLEAR}
    <3>1. (m - 1) - prompt \in 1 .. m - 1 /\ ((m - 1) - prompt) + 1 = m - prompt /\ m > prompt
      BY <1>1, <1>2, <2>2
    <3>2. out[m - prompt] \in {Newline, CLEAR}
      BY <1>3, <3>1 DEF PromptEnds, m
    <3> QED
      BY <1>1, <3>1, <3>2
  <2> QED
    BY <1>1, <2>1, <2>2, Zenon DEF PromptEnds
<1>5. ASSUME m - 1 <= prompt
      PROVE  /\ Shows(b', cursor', prompt, <<>>, prompt - (m - 1))
             /\ terminal_column' = (prompt - (m - 1)) % VGA_WIDTH \/ FullBlank
  <2>0. Screen' /\ (Head(out) \in {Newline, CLEAR} => terminal_column' = 0)
        /\ (Head(out) # CLEAR => vga_putchar(Head(out)))
    BY PutScreen DEF DialogueTyped
  <2>1. CASE m - 1 = prompt
    <3>1. m > prompt /\ m - prompt = 1 /\ prompt - (m - 1) = 0
      BY <1>1, <1>2, <2>1
    <3>2. Head(out) \in {Newline, CLEAR}
      BY <1>1, <1>3, <3>1 DEF PromptEnds
    <3>3. terminal_column' = 0 % VGA_WIDTH
      <4>1. 0 % VGA_WIDTH = 0
        BY VgaAssumption
      <4> QED
        BY <2>0, <3>2, <4>1
    <3>4. cursor' \in Nat
      <4>1. /\ terminal_row' \in 0 .. VGA_HEIGHT - 1 /\ terminal_column' \in 0 .. VGA_WIDTH - 1
            /\ cursor' = terminal_row' * VGA_WIDTH + terminal_column'
        BY <2>0 DEF Screen
      <4> DEFINE y == terminal_row'
                 x == terminal_column'
      <4>2. y * VGA_WIDTH \in Nat /\ x \in Nat
        <5>1. y \in 0 .. VGA_HEIGHT - 1 /\ x \in 0 .. VGA_WIDTH - 1
          BY <4>1
        <5> HIDE DEF x, y
        <5>2. y * VGA_WIDTH \in Nat
          BY <5>1, CellIndex
        <5> QED
          BY <5>1, <5>2
      <4> QED
        BY <4>1, <4>2
    <3>5. Shows(b', cursor', prompt, <<>>, 0)
      BY <3>4, ShowsNone
    <3> QED
      BY <3>1, <3>3, <3>5
  <2>2. CASE m <= prompt
    <3> DEFINE k == prompt - m
    <3>1. /\ Shows(terminal_buffer, cursor, prompt, <<>>, k)
          /\ terminal_column = k % VGA_WIDTH \/ FullBlank
      BY <2>2 DEF Prompting
    <3>2. k \in Nat /\ k + 1 = prompt - (m - 1) /\ k + 1 <= prompt
      BY <1>1, <1>2, <2>2
    <3>3. Head(out) = PromptChar
      <4>1. 1 \in 1 .. m /\ 1 > m - prompt
        BY <1>1, <1>2, <2>2
      <4> QED
        BY <1>1, <1>3, <4>1 DEF PromptEnds
    <3>4. PromptChar \in Glyphs /\ vga_putchar(PromptChar)
      <4>1. PromptChar # CLEAR
        BY DEF PromptChar, CLEAR
      <4> QED
        BY <2>0, <3>3, <4>1, BlankGlyph
    <3>5. k + 1 <= VGA_WIDTH * (VGA_HEIGHT - 1)
      <4>1. k + 1 \in Nat /\ k + 1 <= prompt + Len(line)
        BY <1>2, <3>2, PromptFits
      <4> QED
        BY <4>1, PromptFits
    <3> HIDE DEF k
    <3>6. Spoken(prompt, <<>>, k + 1) = PromptChar
      BY <3>2 DEF Spoken
    <3>7. Shows(b', cursor', prompt, <<>>, k + 1)
      BY <3>1, <3>2, <3>4, <3>5, <3>6, ShowsMore
    <3>8. terminal_column' = (k + 1) % VGA_WIDTH \/ FullBlank
      <4>1. terminal_column' = IF terminal_column + 1 = VGA_WIDTH THEN 0 ELSE terminal_column + 1
        BY <3>4, GlyphEffect, Zenon
      <4> QED
        BY <3>1, <3>2, <4>1, NextMod
    <3> QED
      BY <3>2, <3>7, <3>8
  <2> QED
    BY <1>1, <1>2, <1>5, <2>1, <2>2
<1> HIDE DEF m
<1> QED
  BY <1>1, <1>2, <1>4, <1>5 DEF Prompting

LEMMA PutRunning ==
  ASSUME Screen, DialogueTyped, Running, Put
  PROVE  Running'
<1>1. out # <<>> /\ out' = Tail(out) /\ line' = line
  BY PutFrame
<1>2. CASE out = <<Newline>> /\ Len(line) < MAX_COMMAND_LENGTH - 1
  <2>1. Head(out) = Newline /\ Tail(out) = <<>>
    BY <1>2
  <2>2. terminal_column' = 0
    BY <2>1, PutScreen DEF DialogueTyped
  <2> QED
    BY <1>1, <2>1, <2>2 DEF Running
<1>3. CASE \E c \in Keys : out = <<c>> /\ Len(line) = MAX_COMMAND_LENGTH - 1
  <2>1. Tail(out) = <<>>
    BY <1>3
  <2>2. ~(Len(line) < MAX_COMMAND_LENGTH - 1)
    BY <1>3, PromptFits
  <2> QED
    BY <1>1, <2>1, <2>2 DEF Running
<1> QED
  BY <1>1, <1>2, <1>3 DEF Running

LEMMA PutEditing ==
  ASSUME Screen, DialogueTyped, swallowed => ~Fits, EditingLine, mode = "edit", Put
  PROVE  EditingLine' /\ (swallowed' => ~Fits')
<1> DEFINE n == Len(line)
           W == VGA_WIDTH
           M == MAX_COMMAND_LENGTH
           col == terminal_column
<1>1. out # <<>> /\ out' = Tail(out) /\ line' = line /\ prompt' = prompt /\ start' = start /\ Fits' = Fits
      /\ swallowed' = (swallowed \/ (Head(out) = Backspace /\ terminal_column = 0))
  BY PutFrame
<1>2. n \in Nat /\ prompt \in Nat /\ M \in Nat /\ W \in Nat /\ start \in Nat /\ n < M - 1 /\ col \in 0 .. W - 1
      /\ prompt + n <= VGA_WIDTH * (VGA_HEIGHT - 1)
  <2>1. prompt + n \in Nat /\ prompt + n <= prompt + n
    BY PromptFits
  <2> QED
    BY <2>1, PromptFits DEF EditingLine, Screen
<1>3. Head(out) # CLEAR => vga_putchar(Head(out))
  BY PutScreen DEF DialogueTyped
<1>4. CASE /\ line # <<>> /\ out = <<line[n]>>
           /\ Echoed(cursor, prompt + n - 1)
           /\ Fits => col = start + n - 1
  <2> DEFINE c == line[n]
  <2>1. n > 0 /\ c \in Keys /\ Head(out) = c /\ Tail(out) = <<>>
    <3>1. n > 0 /\ line \in Seq(Keys)
      BY <1>2, <1>4, NoneOrSome DEF DialogueTyped
    <3>2. c \in Keys
      BY <1>2, <3>1, ElementIn
    <3> QED
      BY <1>4, <3>1, <3>2
  <2>2. c \in Glyphs /\ c # CLEAR /\ c # Backspace
    BY <2>1, CharFacts
  <2>3. vga_putchar(c) /\ swallowed' = swallowed
    BY <1>1, <1>3, <2>1, <2>2 DEF DialogueTyped
  <2>4. Fits => col' = start + n
    <3>1. col' = IF col + 1 = W THEN 0 ELSE col + 1
      BY <2>2, <2>3, GlyphEffect, Zenon
    <3>2. Fits => start + M - 2 < W /\ col = start + n - 1
      BY <1>4 DEF Fits
    <3> HIDE DEF n, col, M, W
    <3> QED
      BY <1>2, <2>1, <3>1, <3>2
  <2>5. ASSUME ~swallowed PROVE Shows(terminal_buffer', cursor', prompt, line, prompt + n)
    <3> DEFINE k == prompt + n - 1
    <3>1. k \in Nat /\ k + 1 = prompt + n
      BY <1>2, <2>1
    <3>2. Shows(terminal_buffer, cursor, prompt, line, k)
      BY <1>4, <2>5 DEF Echoed
    <3>3. c = Spoken(prompt, line, prompt + n)
      <4>0. c = line[n]
        OBVIOUS
      <4> HIDE DEF n, c
      <4>1. ~(prompt + n <= prompt) /\ prompt + n - prompt = n
        BY <1>2, <2>1
      <4> QED
        BY <1>2, <4>0, <4>1 DEF Spoken
    <3> HIDE DEF k, c
    <3> QED
      BY <1>2, <2>2, <2>3, <3>1, <3>2, <3>3, ShowsMore
  <2> QED
    BY <1>1, <1>2, <2>1, <2>3, <2>4, <2>5 DEF EditingLine, Echoed
<1>5. CASE /\ out = <<Backspace>> /\ n < M - 2
           /\ Echoed(cursor - 1, prompt + n)
           /\ Fits => col = start + n + 1
  <2>1. Head(out) = Backspace /\ Tail(out) = <<>> /\ Backspace # CLEAR /\ vga_putchar(Backspace)
    <3>1. Head(out) = Backspace /\ Tail(out) = <<>>
      BY <1>5
    <3>2. Backspace # CLEAR
      BY CharFacts
    <3> QED
      BY <1>3, <3>1, <3>2
  <2>2. CASE col = 0
    <3>0. ~Fits
      BY <1>2, <1>5, <2>2
    <3>1. swallowed' /\ ~Fits
      BY <1>1, <2>1, <2>2, <3>0, Zenon
    <3> QED
      BY <1>1, <1>2, <2>1, <3>1 DEF EditingLine, Echoed
  <2>3. CASE col > 0
    <3>1. swallowed' = swallowed
      BY <1>1, <2>3 DEF DialogueTyped
    <3>2. col' = col - 1
      BY <2>1, <2>3, BackspaceEffect
    <3>3. Fits => col' = start + n
      BY <1>2, <1>5, <3>2
    <3>4. ASSUME ~swallowed PROVE Shows(terminal_buffer', cursor', prompt, line, prompt + n)
      <4>1. Shows(terminal_buffer, cursor - 1, prompt, line, prompt + n)
        BY <1>5, <3>4 DEF Echoed
      <4>2. prompt + n \in Nat
        BY <1>2
      <4> QED
        BY <2>1, <2>3, <4>1, <4>2, ShowsLess
    <3> QED
      BY <1>1, <1>2, <2>1, <3>1, <3>3, <3>4 DEF EditingLine, Echoed
  <2> QED
    BY <1>2, <2>2, <2>3
<1> QED
  BY <1>1, <1>4, <1>5 DEF EditingLine

Calls == Char \cup {CLEAR}

LEMMA PromptAlone ==
  ASSUME NEW n \in Nat
  PROVE  /\ shell_prompt(n) \in Seq(Calls) /\ Len(shell_prompt(n)) = n
         /\ \A i \in 1 .. n : shell_prompt(n)[i] = PromptChar
         /\ PromptEnds(shell_prompt(n), n)
<1> DEFINE s == shell_prompt(n)
<1>1. s = [k \in 1 .. n |-> PromptChar] /\ PromptChar \in Calls
  BY CharFacts DEF shell_prompt, Calls
<1>2. s \in Seq(Calls) /\ Len(s) = n
  BY <1>1
<1>3. \A i \in 1 .. n : s[i] = PromptChar
  BY <1>1
<1> HIDE DEF s
<1>4. PromptEnds(s, n)
  BY <1>2, <1>3 DEF PromptEnds
<1> QED
  BY <1>2, <1>3, <1>4 DEF s

LEMMA PromptBehind ==
  ASSUME NEW text \in Seq(Calls), NEW x \in {Newline, CLEAR}, NEW n \in Nat
  PROVE  /\ text \o <<x>> \o shell_prompt(n) \in Seq(Calls)
         /\ Len(text \o <<x>> \o shell_prompt(n)) > n
         /\ PromptEnds(text \o <<x>> \o shell_prompt(n), n)
<1> DEFINE s == shell_prompt(n)
           t == text \o <<x>>
           o == t \o s
           m == Len(text)
<1>1. s \in Seq(Calls) /\ Len(s) = n /\ \A i \in 1 .. n : s[i] = PromptChar
  BY PromptAlone
<1>2. m \in Nat /\ t \in Seq(Calls) /\ Len(t) = m + 1 /\ t[m + 1] = x
  <2>1. x \in Calls
    BY CharFacts DEF Calls
  <2>2. <<x>> \in Seq(Calls) /\ Len(<<x>>) = 1 /\ <<x>>[1] = x
    BY <2>1
  <2> QED
    BY <2>2, Concatenated, Length
<1> HIDE DEF s, t, m
<1>3. /\ o \in Seq(Calls) /\ Len(o) = m + 1 + n
      /\ \A i \in 1 .. Len(o) : o[i] = IF i <= Len(t) THEN t[i] ELSE s[i - Len(t)]
  <2>1. s \in Seq(Calls) /\ t \in Seq(Calls)
    BY <1>1, <1>2
  <2>2. /\ o \in Seq(Calls) /\ Len(o) = Len(t) + Len(s)
        /\ \A i \in 1 .. Len(o) : o[i] = IF i <= Len(t) THEN t[i] ELSE s[i - Len(t)]
    BY <2>1, Concatenated, Zenon
  <2> QED
    BY <1>1, <1>2, <2>2, Zenon
<1> HIDE DEF o
<1>4. ASSUME NEW i \in 1 .. Len(o), i > Len(o) - n PROVE o[i] = PromptChar
  <2>1. ~(i <= Len(t)) /\ i - Len(t) \in 1 .. n
    BY <1>2, <1>3, <1>4
  <2> QED
    BY <1>1, <1>3, <2>1
<1>5. o[Len(o) - n] \in {Newline, CLEAR} /\ Len(o) > n
  <2>1. Len(o) - n = m + 1 /\ m + 1 \in 1 .. Len(o) /\ m + 1 <= Len(t) /\ Len(o) > n
    BY <1>2, <1>3
  <2> QED
    BY <1>2, <1>3, <2>1
<1>6. PromptEnds(o, n)
  BY <1>4, <1>5 DEF PromptEnds
<1> QED
  BY <1>3, <1>5, <1>6 DEF o, t, s

LEMMA TextTyped ==
  /\ <<>> \in Seq(Calls) /\ <<CLEAR>> \in Seq(Calls) /\ <<Newline>> \in Seq(Calls) /\ <<Backspace>> \in Seq(Calls)
  /\ \A c \in Keys : <<c>> \in Seq(Calls)
  /\ BootText \in Seq(Calls) /\ \A text \in Outputs : text \in Seq(Calls)
  /\ \A name \in Seq(Keys) : NotFoundText \o name \in Seq(Calls)
<1>1. Char \subseteq Calls /\ CLEAR \in Calls /\ Keys \subseteq Calls /\ Newline \in Calls /\ Backspace \in Calls
  BY CharFacts DEF Calls
<1>2. \A s \in Seq(Char) : s \in Seq(Calls)
  BY <1>1
<1>3. \A s \in Seq(Keys) : s \in Seq(Calls)
  BY <1>1
<1>4. BootText \in Seq(Char) /\ NotFoundText \in Seq(Char) /\ \A text \in Outputs : text \in Seq(Char)
  BY ConsoleAssumption
<1>5. ASSUME NEW name \in Seq(Keys) PROVE NotFoundText \o name \in Seq(Calls)
  <2>1. NotFoundText \in Seq(Calls) /\ name \in Seq(Calls)
    BY <1>2, <1>3, <1>4
  <2> QED
    BY <2>1, Concatenated
<1>6. <<>> \in Seq(Calls) /\ <<CLEAR>> \in Seq(Calls) /\ <<Newline>> \in Seq(Calls) /\ <<Backspace>> \in Seq(Calls)
  BY <1>1
<1>7. \A c \in Keys : <<c>> \in Seq(Calls)
  BY <1>1
<1> QED
  BY <1>2, <1>4, <1>5, <1>6, <1>7

LEMMA RootPromptLength == RootPrompt \in PromptLengths
<1>1. PromptLengths \in SUBSET Nat /\ PromptLengths # {}
  BY ConsoleAssumption
<1>2. \E n \in PromptLengths : \A m \in PromptLengths : n <= m
  BY <1>1, MinOfNats, Zenon
<1> QED
  BY <1>2, Zenon DEF RootPrompt

LEMMA InitConsole ==
  ASSUME Init
  PROVE  ConsoleInv
<1>1. Screen /\ mode = "prompt" /\ line = <<>> /\ prompt = RootPrompt /\ start = 0 /\ swallowed = FALSE
      /\ out = BootText \o <<CLEAR>> \o shell_prompt(RootPrompt)
  BY InitScreen DEF Init
<1>2. RootPrompt \in Nat /\ RootPrompt \in PromptLengths /\ BootText \in Seq(Calls)
  <2>1. PromptLengths \in SUBSET Nat
    BY ConsoleAssumption
  <2> QED
    BY <2>1, RootPromptLength, TextTyped
<1>3. out \in Seq(Calls) /\ Len(out) > prompt /\ PromptEnds(out, prompt)
  BY <1>1, <1>2, PromptBehind, Zenon
<1>4. Prompting
  <2>1. ~(Len(out) <= prompt)
    <3>1. Len(out) \in Nat
      BY <1>3, Length
    <3> QED
      BY <1>1, <1>2, <1>3, <3>1
  <2> QED
    BY <1>3, <2>1 DEF Prompting
<1>5. DialogueTyped
  <2>1. line \in Seq(Keys) /\ Len(line) = 0
    BY <1>1
  <2>2. 0 < MAX_COMMAND_LENGTH /\ 0 \in 0 .. VGA_WIDTH - 1
    BY ConsoleAssumption, VgaAssumption
  <2> QED
    BY <1>1, <1>2, <1>3, <2>1, <2>2, Zenon DEF DialogueTyped, Calls
<1> QED
  BY <1>1, <1>4, <1>5 DEF ConsoleInv

LEMMA PutKeeps ==
  ASSUME ConsoleInv, Put
  PROVE  ConsoleInv'
<1>1. Screen /\ DialogueTyped
  BY DEF ConsoleInv
<1>2. out # <<>> /\ out' = Tail(out) /\ mode' = mode /\ line' = line /\ prompt' = prompt /\ start' = start
      /\ swallowed' = (swallowed \/ (mode = "edit" /\ Head(out) = Backspace /\ terminal_column = 0))
      /\ Fits' = Fits
  BY PutFrame
<1>3. Screen'
  BY <1>1, PutScreen DEF DialogueTyped
<1>4. DialogueTyped'
  <2>1. out' \in Seq(Char \cup {CLEAR})
    BY <1>1, <1>2, TailFacts DEF DialogueTyped
  <2>2. swallowed' \in BOOLEAN
    BY <1>2
  <2> QED
    BY <1>1, <1>2, <2>1, <2>2 DEF DialogueTyped
<1>5. (mode = "prompt" => Prompting') /\ (mode = "run" => Running')
  BY <1>1, PutPrompting, PutRunning DEF ConsoleInv
<1>6. mode = "edit" => EditingLine' /\ (swallowed' => ~Fits')
  BY <1>1, PutEditing DEF ConsoleInv
<1>7. mode # "edit" => (swallowed' => ~Fits')
  BY <1>2, Zenon DEF ConsoleInv
<1> QED
  BY <1>2, <1>3, <1>4, <1>5, <1>6, <1>7 DEF ConsoleInv

-----------------------------------------------------------------------------
(* The steps of the shell *)

(* The steps that leave the screen alone. *)
LEMMA ScreenSame ==
  ASSUME Screen, UNCHANGED vgavars
  PROVE  Screen'
BY DEF Screen, vgavars

LEMMA BeginReadKeeps ==
  ASSUME ConsoleInv, BeginRead
  PROVE  ConsoleInv'
<1>1. /\ mode = "prompt" /\ out = <<>> /\ out' = out /\ prompt' = prompt /\ UNCHANGED vgavars
      /\ mode' = "edit" /\ line' = <<>> /\ start' = terminal_column /\ swallowed' = FALSE
  BY DEF BeginRead
<1>2. Screen /\ DialogueTyped /\ Prompting /\ Screen'
  BY <1>1, ScreenSame DEF ConsoleInv
<1>3. UNCHANGED <<terminal_buffer, terminal_column, cursor>>
  BY <1>1 DEF vgavars
<1>4. prompt \in Nat /\ terminal_column \in 0 .. VGA_WIDTH - 1 /\ MAX_COMMAND_LENGTH \in Nat /\ MAX_COMMAND_LENGTH > 1
  BY <1>2, PromptFits, ConsoleAssumption DEF Screen
<1>5. Len(<<>>) = 0 /\ <<>> \in Seq(Keys)
  OBVIOUS
<1>6. Shows(terminal_buffer, cursor, prompt, <<>>, prompt)
  <2>1. Len(out) = 0 /\ Len(out) <= prompt /\ prompt - Len(out) = prompt
    BY <1>1, <1>4
  <2> QED
    BY <1>2, <2>1 DEF Prompting
<1>7. EditingLine'
  <2>1. Len(line') < MAX_COMMAND_LENGTH - 1 /\ prompt' + Len(line') = prompt
        /\ terminal_column' = start' + Len(line')
    BY <1>1, <1>3, <1>4, <1>5
  <2>2. Echoed(cursor, prompt + Len(line))'
    BY <1>1, <1>3, <1>6, <2>1 DEF Echoed
  <2> QED
    BY <1>1, <2>1, <2>2 DEF EditingLine
<1>8. DialogueTyped'
  <2>1. line' \in Seq(Keys) /\ Len(line') < MAX_COMMAND_LENGTH /\ start' \in 0 .. VGA_WIDTH - 1
    BY <1>1, <1>4, <1>5
  <2>2. swallowed' \in BOOLEAN
    BY <1>1, Zenon
  <2> QED
    BY <1>1, <1>2, <2>1, <2>2 DEF DialogueTyped
<1> QED
  BY <1>1, <1>2, <1>7, <1>8 DEF ConsoleInv

LEMMA EditFacts ==
  ASSUME ConsoleInv, Editing
  PROVE  /\ Screen /\ DialogueTyped /\ (swallowed => ~Fits) /\ out = <<>> /\ mode = "edit"
         /\ Len(line) \in Nat /\ Len(line) < MAX_COMMAND_LENGTH - 1 /\ MAX_COMMAND_LENGTH \in Nat
         /\ prompt \in Nat /\ line \in Seq(Keys)
         /\ Echoed(cursor, prompt + Len(line))
         /\ Fits => terminal_column = start + Len(line)
<1>1. mode = "edit" /\ out = <<>>
  BY DEF Editing
<1>2. Screen /\ DialogueTyped /\ (swallowed => ~Fits) /\ EditingLine
  BY <1>1 DEF ConsoleInv
<1>3. /\ Len(line) < MAX_COMMAND_LENGTH - 1 /\ Echoed(cursor, prompt + Len(line))
      /\ Fits => terminal_column = start + Len(line)
  BY <1>1, <1>2 DEF EditingLine
<1> QED
  BY <1>1, <1>2, <1>3, PromptFits DEF DialogueTyped

LEMMA EnterKeeps ==
  ASSUME ConsoleInv, Enter
  PROVE  ConsoleInv'
<1>1. Editing /\ mode' = "run" /\ out' = <<Newline>> /\ UNCHANGED vgavars
      /\ line' = line /\ prompt' = prompt /\ start' = start /\ swallowed' = swallowed
  BY DEF Enter
<1>2. Screen' /\ Fits' = Fits
  BY <1>1, EditFacts, ScreenSame DEF Fits
<1>3. DialogueTyped'
  BY <1>1, EditFacts, TextTyped DEF DialogueTyped, Calls
<1>4. Running'
  BY <1>1, EditFacts DEF Running
<1> QED
  BY <1>1, <1>2, <1>3, <1>4, EditFacts DEF ConsoleInv

LEMMA EraseKeeps ==
  ASSUME ConsoleInv, Erase
  PROVE  ConsoleInv'
<1> DEFINE n == Len(line)
           f == Shorter(line)
<1>1. Editing /\ line # <<>> /\ line' = f /\ out' = <<Backspace>> /\ mode' = mode
      /\ prompt' = prompt /\ start' = start /\ swallowed' = swallowed /\ UNCHANGED vgavars
  BY DEF Erase, Shorter
<1>2. Screen' /\ Fits' = Fits /\ UNCHANGED <<terminal_buffer, terminal_column, cursor>>
  BY <1>1, EditFacts, ScreenSame DEF Fits, vgavars
<1>3. n \in Nat /\ n > 0 /\ f \in Seq(Keys) /\ Len(f) = n - 1
  <2>1. line \in Seq(Keys)
    BY <1>1, EditFacts
  <2>2. n \in Nat /\ n > 0
    BY <1>1, <2>1, NoneOrSome, Length
  <2>3. f = [i \in 1 .. n - 1 |-> line[i]]
    BY DEF Shorter, SubSeq
  <2>4. \A i \in 1 .. n - 1 : line[i] \in Keys
    BY <2>1, <2>2, ElementIn
  <2> HIDE DEF f, n
  <2>5. n - 1 \in Nat
    BY <2>2
  <2> QED
    BY <2>2, <2>3, <2>4, <2>5
<1>4. DialogueTyped'
  <2>1. Len(f) < MAX_COMMAND_LENGTH
    BY <1>1, <1>3, EditFacts
  <2> QED
    BY <1>1, <1>3, <2>1, EditFacts, TextTyped DEF DialogueTyped, Calls
<1>5. EditingLine'
  <2>1. Len(line') = n - 1 /\ n - 1 < MAX_COMMAND_LENGTH - 2 /\ n - 1 < MAX_COMMAND_LENGTH - 1
    BY <1>1, <1>3, EditFacts
  <2>2. Echoed(cursor - 1, prompt + Len(line))'
    <3>1. ASSUME ~swallowed PROVE Shows(terminal_buffer, cursor - 1, prompt, f, prompt + Len(f))
      <4>1. Shows(terminal_buffer, cursor, prompt, line, prompt + n)
        BY <1>1, <3>1, EditFacts DEF Echoed
      <4>2. cursor \in Nat /\ prompt \in Nat /\ line \in Seq(Keys)
        BY <1>1, EditFacts, CursorCell
      <4> QED
        BY <1>1, <4>1, <4>2, ShowsShorter
    <3> HIDE DEF f
    <3> QED
      BY <1>1, <1>2, <3>1 DEF Echoed
  <2>3. Fits => terminal_column = start + (n - 1) + 1
    BY <1>1, <1>3, EditFacts, PromptFits
  <2> QED
    BY <1>1, <1>2, <2>1, <2>2, <2>3 DEF EditingLine
<1> QED
  BY <1>1, <1>2, <1>4, <1>5, EditFacts DEF ConsoleInv

LEMMA TypeCharKeeps ==
  ASSUME ConsoleInv, NEW c \in Keys, TypeChar(c)
  PROVE  ConsoleInv'
<1> DEFINE n == Len(line)
           f == Append(line, c)
<1>1. Editing /\ line' = f /\ out' = <<c>> /\ prompt' = prompt /\ start' = start /\ swallowed' = swallowed
      /\ mode' = (IF n + 1 = MAX_COMMAND_LENGTH - 1 THEN "run" ELSE "edit") /\ UNCHANGED vgavars
  BY DEF TypeChar
<1>2. Screen' /\ Fits' = Fits /\ UNCHANGED <<terminal_buffer, terminal_column, cursor>>
  BY <1>1, EditFacts, ScreenSame DEF Fits, vgavars
<1>3. n \in Nat /\ f \in Seq(Keys) /\ Len(f) = n + 1 /\ f # <<>> /\ f[n + 1] = c
  <2>1. line \in Seq(Keys)
    BY <1>1, EditFacts
  <2>2. n \in Nat /\ f \in Seq(Keys) /\ Len(f) = n + 1 /\ f[n + 1] = c
    BY <2>1, Appended
  <2>3. f # <<>>
    BY <2>2, NoneOrSome
  <2> QED
    BY <2>2, <2>3
<1>4. MAX_COMMAND_LENGTH \in Nat /\ n + 1 < MAX_COMMAND_LENGTH
  BY <1>1, <1>3, EditFacts
<1>5. DialogueTyped'
  BY <1>1, <1>3, <1>4, EditFacts, TextTyped DEF DialogueTyped, Calls
<1>6. CASE n + 1 = MAX_COMMAND_LENGTH - 1
  <2>1. Running'
    BY <1>1, <1>3, <1>6 DEF Running
  <2> QED
    BY <1>1, <1>2, <1>5, <1>6, <2>1, EditFacts DEF ConsoleInv
<1>7. CASE n + 1 # MAX_COMMAND_LENGTH - 1
  <2>1. Len(line') = n + 1 /\ n + 1 < MAX_COMMAND_LENGTH - 1 /\ line' # <<>> /\ out' = <<line'[Len(line')]>>
    BY <1>1, <1>3, <1>4, <1>7
  <2>2. Echoed(cursor, prompt + Len(line) - 1)'
    <3>1. prompt' + Len(line') - 1 = prompt + n
      BY <1>1, <1>3, EditFacts
    <3>2. ASSUME ~swallowed PROVE Shows(terminal_buffer, cursor, prompt, f, prompt + n)
      <4>1. Shows(terminal_buffer, cursor, prompt, line, prompt + n) /\ prompt \in Nat /\ line \in Seq(Keys)
        BY <1>1, <3>2, EditFacts DEF Echoed
      <4> QED
        BY <4>1, ShowsAppend
    <3> HIDE DEF f
    <3> QED
      BY <1>1, <1>2, <3>1, <3>2 DEF Echoed
  <2>3. Fits => terminal_column = start + (n + 1) - 1
    BY <1>1, <1>3, EditFacts, PromptFits
  <2>4. EditingLine'
    BY <1>1, <1>2, <2>1, <2>2, <2>3 DEF EditingLine
  <2> QED
    BY <1>1, <1>2, <1>5, <1>7, <2>4, EditFacts DEF ConsoleInv
<1> QED
  BY <1>6, <1>7

(* What is printed by a command ends in a line feed and the prompt. *)
LEMMA ExecuteKeeps ==
  ASSUME ConsoleInv, shell_execute_command
  PROVE  ConsoleInv'
<1> DEFINE args == Args(line)
<1>1. /\ mode = "run" /\ out = <<>> /\ mode' = "prompt" /\ line' = line /\ start' = start
      /\ swallowed' = swallowed /\ UNCHANGED vgavars
  BY DEF shell_execute_command
<1>2. Screen /\ DialogueTyped /\ Running /\ (swallowed => ~Fits)
  BY <1>1 DEF ConsoleInv
<1>3. Screen' /\ Fits' = Fits /\ UNCHANGED <<terminal_buffer, terminal_column, cursor>>
  BY <1>1, <1>2, ScreenSame DEF Fits, vgavars
<1>4. PromptLengths \in SUBSET Nat /\ prompt \in PromptLengths /\ prompt \in Nat
  BY <1>2, ConsoleAssumption DEF DialogueTyped
<1>5. CASE args = <<>> /\ prompt' = prompt /\ out' = shell_prompt(prompt)
  <2>1. out' \in Seq(Calls) /\ Len(out') = prompt /\ PromptEnds(out', prompt)
    BY <1>4, <1>5, PromptAlone
  <2>2. terminal_column = 0 \/ FullBlank
    <3>1. CASE Len(line) < MAX_COMMAND_LENGTH - 1
      BY <1>1, <1>2, <3>1 DEF Running
    <3>2. CASE ~(Len(line) < MAX_COMMAND_LENGTH - 1)
      <4>1. Len(line) = MAX_COMMAND_LENGTH - 1
        BY <1>2, <3>2, PromptFits
      <4> QED
        BY <1>5, <4>1 DEF FullBlank
    <3> QED
      BY <3>1, <3>2
  <2>3. Shows(terminal_buffer, cursor, prompt, <<>>, 0) /\ prompt - prompt = 0 /\ 0 % VGA_WIDTH = 0
    BY <1>2, <1>4, CursorCell, ShowsNone, VgaAssumption
  <2>4. FullBlank' = FullBlank
    BY <1>1 DEF FullBlank
  <2>5. Prompting'
    BY <1>3, <1>5, <2>1, <2>2, <2>3, <2>4 DEF Prompting
  <2>6. DialogueTyped'
    BY <1>1, <1>2, <1>5, <2>1 DEF DialogueTyped, Calls
  <2> QED
    BY <1>1, <1>2, <1>3, <2>5, <2>6 DEF ConsoleInv
<1>6. ASSUME prompt' \in PromptLengths,
             NEW text \in Seq(Calls), out' = text \o <<Newline>> \o shell_prompt(prompt')
      PROVE  ConsoleInv'
  <2>1. prompt' \in Nat
    BY <1>4, <1>6
  <2>2. out' \in Seq(Calls) /\ Len(out') > prompt' /\ PromptEnds(out', prompt')
    BY <1>6, <2>1, PromptBehind, Zenon
  <2>3. Prompting'
    <3>1. ~(Len(out') <= prompt')
      <4>1. Len(out') \in Nat
        BY <2>2, Length
      <4> QED
        BY <2>1, <2>2, <4>1
    <3> QED
      BY <2>2, <3>1 DEF Prompting
  <2>4. DialogueTyped'
    BY <1>1, <1>2, <1>6, <2>2 DEF DialogueTyped, Calls
  <2> QED
    BY <1>1, <1>2, <1>3, <2>3, <2>4 DEF ConsoleInv
<1>7. CASE args # <<>> /\ args[1] \in DOMAIN Commands
  <2>1. PICK text \in Outputs \cup {<<CLEAR>>, <<>>}, n \in PromptLengths :
          prompt' = n /\ out' = text \o <<Newline>> \o shell_prompt(n)
    BY <1>7, Zenon DEF shell_execute_command
  <2>2. text \in Seq(Calls)
    BY TextTyped, Zenon
  <2> QED
    BY <1>6, <2>1, <2>2, Zenon
<1>8. CASE args # <<>> /\ args[1] \notin DOMAIN Commands
  <2>1. prompt' = prompt /\ out' = NotFoundText \o args[1] \o <<Newline>> \o shell_prompt(prompt)
    BY <1>8 DEF shell_execute_command, NotFound
  <2>2. args[1] \in Seq(Keys)
    BY <1>2, <1>8, FirstArgTyped DEF DialogueTyped
  <2>3. NotFoundText \o args[1] \in Seq(Calls)
    BY <2>2, TextTyped
  <2> HIDE DEF args
  <2> QED
    BY <1>4, <1>6, <2>1, <2>3, Zenon
<1> QED
  BY <1>5, <1>7, <1>8 DEF shell_execute_command

LEMMA SameConsole ==
  ASSUME ConsoleInv, UNCHANGED vars
  PROVE  ConsoleInv'
<1>1. UNCHANGED vgavars /\ UNCHANGED <<mode, out, line, prompt, start, swallowed>>
  BY DEF vars
<1>2. UNCHANGED <<terminal_buffer, terminal_column, cursor>>
  BY <1>1 DEF vgavars
<1>3. Screen' /\ Fits' = Fits /\ FullBlank' = FullBlank /\ Screen /\ DialogueTyped'
  BY <1>1, ScreenSame DEF ConsoleInv, Fits, FullBlank, DialogueTyped
<1>4. Prompting' = Prompting
  BY <1>1, <1>2, <1>3 DEF Prompting
<1>5. EditingLine' = EditingLine
  BY <1>1, <1>2, <1>3 DEF EditingLine, Echoed
<1>6. Running' = Running
  BY <1>1, <1>2 DEF Running
<1> QED
  BY <1>1, <1>3, <1>4, <1>5, <1>6 DEF ConsoleInv

LEMMA NextKeepsConsole ==
  ASSUME ConsoleInv, [Next]_vars
  PROVE  ConsoleInv'
<1>1. CASE Put
  BY <1>1, PutKeeps
<1>2. CASE BeginRead
  BY <1>2, BeginReadKeeps
<1>3. CASE Enter
  BY <1>3, EnterKeeps
<1>4. CASE Erase
  BY <1>4, EraseKeeps
<1>5. CASE \E c \in Keys : TypeChar(c)
  BY <1>5, TypeCharKeeps
<1>6. CASE shell_execute_command
  BY <1>6, ExecuteKeeps
<1>7. CASE UNCHANGED vars
  BY <1>7, SameConsole
<1> QED
  BY <1>1, <1>2, <1>3, <1>4, <1>5, <1>6, <1>7 DEF Next, shell_read_input

(* The inductive invariant holds in every state: what the shell has still   *)
(* to print, where the cursor is and what stands before it fit together.    *)
THEOREM ConsoleInvariant == Spec => []ConsoleInv
<1>1. Init => ConsoleInv
  BY InitConsole
<1>2. ConsoleInv /\ [Next]_vars => ConsoleInv'
  BY NextKeepsConsole
<1> QED
  BY <1>1, <1>2, PTL DEF Spec

(* For every size of the screen and of the line: no write of vga.c leaves   *)
(* the buffer, the cursor is the cell of the row and the column, and the    *)
(* line never outgrows the buffer of the shell.                             *)
THEOREM ConsoleTypeCorrect == Spec => []TypeOK
<1>1. ConsoleInv => TypeOK
  <2> SUFFICES ASSUME ConsoleInv PROVE TypeOK
    OBVIOUS
  <2>1. Screen /\ DialogueTyped
    BY DEF ConsoleInv
  <2>2. cursor \in Cells
    BY <2>1, CursorCell
  <2> QED
    BY <2>1, <2>2 DEF TypeOK, Screen, DialogueTyped
<1> QED
  BY <1>1, ConsoleInvariant, PTL

(* While a line is edited, the prompt and the line stand before the cursor, *)
(* character by character, across the ends of rows and the scrolling,       *)
(* unless a backspace at the left edge was swallowed; and none is when the  *)
(* longest line fits between the column it begins in and the right edge.    *)
THEOREM ConsoleEchoExact == Spec => []EchoExact
<1>1. ConsoleInv => EchoExact
  <2> SUFFICES ASSUME ConsoleInv PROVE EchoExact
    OBVIOUS
  <2>1. Screen /\ DialogueTyped /\ (swallowed => ~Fits)
    BY DEF ConsoleInv
  <2>2. swallowed => start + MAX_COMMAND_LENGTH - 2 >= VGA_WIDTH
    <3>1. start \in Int /\ MAX_COMMAND_LENGTH \in Int /\ VGA_WIDTH \in Int
      BY <2>1, PromptFits
    <3> QED
      BY <2>1, <3>1 DEF Fits
  <2>3. ASSUME NEW i \in cursor .. VGA_WIDTH * VGA_HEIGHT - 1 PROVE terminal_buffer[i] = Blank
    <3> DEFINE S == VGA_WIDTH * VGA_HEIGHT
    <3>1. S \in Nat /\ cursor \in Nat /\ i \in cursor .. S - 1 /\ Cells = 0 .. S - 1
      BY <2>1, CellSize, CursorCell DEF Cells
    <3> HIDE DEF S
    <3>2. i \in Cells /\ i >= cursor
      BY <3>1
    <3> QED
      BY <2>1, <3>2 DEF Screen
  <2>4. ASSUME mode = "edit", out = <<>>, ~swallowed, NEW i \in 1 .. prompt + Len(line)
        PROVE  terminal_buffer[cursor - prompt - Len(line) + i - 1] = (shell_prompt(prompt) \o line)[i]
    <3> DEFINE n == Len(line)
               s == shell_prompt(prompt)
    <3>1. Shows(terminal_buffer, cursor, prompt, line, prompt + n)
      BY <2>4 DEF ConsoleInv, EditingLine, Echoed
    <3>2. prompt \in Nat /\ n \in Nat /\ cursor \in Nat
      BY <2>1, PromptFits, CursorCell
    <3>3. line \in Seq(Calls) /\ s \in Seq(Calls) /\ Len(s) = prompt /\ \A j \in 1 .. prompt : s[j] = PromptChar
      <4>1. line \in Seq(Keys) /\ Keys \subseteq Calls
        BY <2>1, CharFacts DEF DialogueTyped, Calls
      <4>2. \A t \in Seq(Keys) : t \in Seq(Calls)
        BY <4>1
      <4> QED
        BY <3>2, <4>1, <4>2, PromptAlone, Zenon
    <3> HIDE DEF s
    <3>4. Len(s \o line) = prompt + n /\ (s \o line)[i] = IF i <= prompt THEN s[i] ELSE line[i - prompt]
      BY <2>4, <3>2, <3>3, Concatenated, Zenon
    <3>5. (s \o line)[i] = Spoken(prompt, line, i)
      <4>1. i <= prompt => s[i] = PromptChar
        BY <2>4, <3>2, <3>3
      <4> QED
        BY <3>4, <4>1 DEF Spoken
    <3>6. terminal_buffer[cursor - (prompt + n) + i - 1] = Spoken(prompt, line, i)
      BY <2>4, <3>1 DEF Shows
    <3>7. cursor - (prompt + n) + i - 1 = cursor - prompt - n + i - 1
      BY <2>4, <3>2
    <3> QED
      BY <3>5, <3>6, <3>7 DEF s
  <2> QED
    BY <2>2, <2>3, <2>4, Zenon DEF EchoExact
<1> QED
  BY <1>1, ConsoleInvariant, PTL

(* A prompt begins at the left edge, whatever the command before it has     *)
(* printed, unless a line of blanks filled the buffer.                      *)
THEOREM ConsolePromptAtLeft == Spec => PromptAtLeft
<1> DEFINE A == mode = "prompt" /\ mode' = "edit" =>
                 \/ terminal_column = prompt % VGA_WIDTH
                 \/ Len(line) = MAX_COMMAND_LENGTH - 1 /\ Args(line) = <<>>
<1>1. ConsoleInv /\ [Next]_vars => [A]_vars
  <2> SUFFICES ASSUME ConsoleInv, Next, mode = "prompt", mode' = "edit"
               PROVE  terminal_column = prompt % VGA_WIDTH \/ FullBlank
    BY DEF FullBlank
  <2>1. BeginRead
    BY DEF Next, Put, shell_read_input, Enter, Erase, TypeChar, Editing, shell_execute_command
  <2>2. out = <<>> /\ Prompting /\ prompt \in Nat
    BY <2>1, PromptFits DEF BeginRead, ConsoleInv
  <2>3. Len(out) <= prompt /\ prompt - Len(out) = prompt
    BY <2>2
  <2> QED
    BY <2>2, <2>3 DEF Prompting
<1> QED
  BY <1>1, ConsoleInvariant, PTL DEF Spec, PromptAtLeft

-----------------------------------------------------------------------------
(* The roll of paper behind the screen *)

(* The roll of paper behind the screen. *)
PaperNow == gone \o Rows(terminal_buffer)
RowNow == Len(gone) + terminal_row + 1
Inked(p, r, x, c) == [p EXCEPT ![r][x] = c]
Stamped(b, i, c) == [b EXCEPT ![i] = c]
BlankLine == [x \in 0 .. VGA_WIDTH - 1 |-> Blank]

(* Two cells have different addresses. *)
LEMMA CellUnique ==
  ASSUME NEW y \in 0 .. VGA_HEIGHT - 1, NEW x \in 0 .. VGA_WIDTH - 1,
         NEW v \in 0 .. VGA_HEIGHT - 1, NEW u \in 0 .. VGA_WIDTH - 1
  PROVE  y * VGA_WIDTH + x = v * VGA_WIDTH + u <=> y = v /\ x = u
<1> DEFINE W == VGA_WIDTH
           z == y - v
           p == z * W
<1>1. W \in Nat \ {0} /\ y \in Nat /\ v \in Nat /\ x \in 0 .. W - 1 /\ u \in 0 .. W - 1
  BY VgaAssumption
<1> HIDE DEF W
<1>2. p = y * W - v * W /\ y * W \in Int /\ v * W \in Int /\ z \in Int
  BY <1>1
<1> HIDE DEF z
<1>3. /\ z >= 1 => p >= W
      /\ z <= -1 => p <= -W
  <2>1. ASSUME z >= 1 PROVE p >= W
    <3>1. (z - 1) * W >= 0 /\ (z - 1) * W = p - W /\ p \in Int
      BY <1>1, <1>2, <2>1
    <3> QED
      BY <1>1, <3>1
  <2>2. ASSUME z <= -1 PROVE p <= -W
    <3>1. ((-1) - z) * W >= 0 /\ ((-1) - z) * W = -W - p /\ p \in Int
      BY <1>1, <1>2, <2>2
    <3> QED
      BY <1>1, <3>1
  <2> QED
    BY <2>1, <2>2
<1> DEFINE yW == y * W
           vW == v * W
<1>4. p = yW - vW /\ yW \in Int /\ vW \in Int
  BY <1>2
<1> HIDE DEF p, yW, vW
<1>5. ASSUME yW + x = vW + u PROVE z = 0
  BY <1>1, <1>2, <1>3, <1>4, <1>5
<1>6. ASSUME yW + x = vW + u PROVE y = v /\ x = u
  <2>1. y = v
    BY <1>1, <1>5, <1>6 DEF z
  <2>2. yW = vW
    BY <2>1 DEF yW, vW
  <2> QED
    BY <1>1, <1>4, <1>6, <2>1, <2>2
<1> QED
  BY <1>6 DEF yW, vW, W

(* Writing a cell of the screen writes the cell of the paper. *)
LEMMA WriteRoll ==
  ASSUME gone \in Seq(PaperRow), NEW b \in [Cells -> Glyphs], NEW c \in Glyphs,
         NEW y \in 0 .. VGA_HEIGHT - 1, NEW x \in 0 .. VGA_WIDTH - 1
  PROVE  Inked(gone \o Rows(b), Len(gone) + y + 1, x, c) = gone \o Rows(Stamped(b, y * VGA_WIDTH + x, c))
<1> DEFINE d == [b EXCEPT ![y * VGA_WIDTH + x] = c]
           p == gone \o Rows(b)
           q == gone \o Rows(d)
           r == Len(gone) + y + 1
           rw == [p[r] EXCEPT ![x] = c]
           e == [p EXCEPT ![r] = rw]
           G == Len(gone)
           H == VGA_HEIGHT
           W == VGA_WIDTH
<1>1. y * VGA_WIDTH + x \in Cells
  BY CellIndex
<1>2. d \in [Cells -> Glyphs]
  BY <1>1
<1>3. \A i \in Cells : d[i] = IF i = y * VGA_WIDTH + x THEN c ELSE b[i]
  BY <1>1
<1> HIDE DEF d
<1>4. G \in Nat /\ H \in Nat /\ W \in Nat /\ r \in 1 .. G + H /\ r - G = y + 1
  BY Length, VgaAssumption
<1>5. /\ p \in Seq(PaperRow) /\ Len(p) = G + H
      /\ \A i \in 1 .. G + H : p[i] = IF i <= G THEN gone[i] ELSE Rows(b)[i - G]
  BY RowsTyped, Concatenated, Zenon
<1>6. /\ q \in Seq(PaperRow) /\ Len(q) = G + H
      /\ \A i \in 1 .. G + H : q[i] = IF i <= G THEN gone[i] ELSE Rows(d)[i - G]
  BY <1>2, RowsTyped, Concatenated, Zenon
<1>7. \A k \in 1 .. H : Rows(b)[k] = Row(b, k - 1) /\ Rows(d)[k] = Row(d, k - 1)
  BY DEF Rows
<1>8. ASSUME NEW v \in 0 .. H - 1
      PROVE  Row(d, v) = IF v = y THEN [Row(b, y) EXCEPT ![x] = c] ELSE Row(b, v)
  <2>1. ASSUME NEW u \in 0 .. W - 1
        PROVE  d[v * VGA_WIDTH + u] = IF v = y /\ u = x THEN c ELSE b[v * VGA_WIDTH + u]
    <3>1. v * VGA_WIDTH + u \in Cells
      BY CellIndex
    <3>2. v * VGA_WIDTH + u = y * VGA_WIDTH + x <=> v = y /\ u = x
      BY CellUnique
    <3> QED
      BY <1>3, <3>1, <3>2
  <2>2. CASE v = y
    <3>1. Row(d, v) = [u \in 0 .. W - 1 |-> IF u = x THEN c ELSE b[v * VGA_WIDTH + u]]
      BY <2>1, <2>2 DEF Row
    <3>2. [Row(b, y) EXCEPT ![x] = c] = [u \in 0 .. W - 1 |-> IF u = x THEN c ELSE b[y * VGA_WIDTH + u]]
      BY Zenon DEF Row
    <3> QED
      BY <2>2, <3>1, <3>2
  <2>3. CASE v # y
    <3>1. Row(d, v) = [u \in 0 .. W - 1 |-> b[v * VGA_WIDTH + u]]
      BY <2>1, <2>3 DEF Row
    <3> QED
      BY <2>3, <3>1 DEF Row
  <2> QED
    BY <2>2, <2>3
<1>9. p[r] = Row(b, y) /\ Row(b, y) \in PaperRow
  <2>1. ~(r <= G) /\ y + 1 \in 1 .. H /\ (y + 1) - 1 = y
    BY <1>4
  <2> HIDE DEF p, r, G
  <2> QED
    BY <1>4, <1>5, <1>7, <2>1, RowTyped
<1>10. rw = [Row(b, y) EXCEPT ![x] = c] /\ rw \in PaperRow
  <2>1. rw = [Row(b, y) EXCEPT ![x] = c]
    BY <1>9
  <2>2. [Row(b, y) EXCEPT ![x] = c] \in PaperRow
    BY <1>9 DEF PaperRow
  <2> QED
    BY <2>1, <2>2, Zenon
<1>11. [gone \o Rows(b) EXCEPT ![Len(gone) + y + 1][x] = c] = e
  OBVIOUS
<1> HIDE DEF p, q, r, rw, G
<1>12. e \in Seq(PaperRow) /\ Len(e) = G + H /\ \A i \in 1 .. G + H : e[i] = IF i = r THEN rw ELSE p[i]
  <2>1. r \in 1 .. Len(p)
    BY <1>4, <1>5
  <2>2. /\ e \in Seq(PaperRow) /\ Len(e) = Len(p)
        /\ \A i \in 1 .. Len(p) : e[i] = IF i = r THEN rw ELSE p[i]
    BY <1>5, <1>10, <2>1, Replaced
  <2> QED
    BY <1>5, <2>2
<1> HIDE DEF e
<1>13. ASSUME NEW i \in 1 .. G + H PROVE e[i] = q[i]
  <2>1. CASE i <= G
    BY <1>4, <1>5, <1>6, <1>12, <2>1
  <2>2. CASE ~(i <= G)
    <3>1. i - G \in 1 .. H /\ (i - G) - 1 \in 0 .. H - 1 /\ (i = r <=> (i - G) - 1 = y)
      BY <1>4, <2>2
    <3>2. q[i] = Row(d, (i - G) - 1) /\ p[i] = Row(b, (i - G) - 1)
      BY <1>5, <1>6, <1>7, <2>2, <3>1
    <3> QED
      BY <1>8, <1>10, <1>12, <3>1, <3>2
  <2> QED
    BY <2>1, <2>2
<1>14. e = q
  BY <1>6, <1>12, <1>13, SameElements
<1> QED
  BY <1>11, <1>14, Zenon DEF q, d, Inked, Stamped

(* Scrolling moves each row up and leaves a blank one. *)
LEMMA ScrolledRows ==
  ASSUME NEW b \in [Cells -> Glyphs], NEW v \in 0 .. VGA_HEIGHT - 1
  PROVE  Row(Shift(b, VGA_WIDTH), v) = IF v = VGA_HEIGHT - 1 THEN BlankLine ELSE Row(b, v + 1)
<1> DEFINE W == VGA_WIDTH
           H == VGA_HEIGHT
           S == VGA_WIDTH * VGA_HEIGHT
           d == Shift(b, VGA_WIDTH)
<1>1. W \in Nat /\ H \in Nat /\ S \in Nat /\ Cells = 0 .. S - 1
  BY VgaAssumption, CellSize DEF Cells
<1>2. CASE v = H - 1
  <2>1. ASSUME NEW u \in 0 .. W - 1 PROVE d[v * W + u] = Blank
    <3> DEFINE a == v * W
    <3>1. a + u \in Cells /\ a \in Nat /\ a = S - W
      BY <1>2, CellIndex, CellSize
    <3> HIDE DEF S, a
    <3>2. a + u + W \notin Cells
      BY <1>1, <3>1
    <3> QED
      BY <3>1, <3>2 DEF Shift, a
  <2> QED
    BY <1>2, <2>1 DEF Row, BlankLine
<1>3. CASE v # H - 1
  <2>1. v + 1 \in 0 .. H - 1
    BY <1>1, <1>3
  <2>2. ASSUME NEW u \in 0 .. W - 1 PROVE d[v * W + u] = b[(v + 1) * W + u]
    <3> DEFINE a == v * W
               n == (v + 1) * W
    <3>1. a + u \in Cells /\ a \in Nat /\ n = a + W /\ n + u \in Cells
      BY <2>1, CellIndex
    <3> HIDE DEF a, n
    <3>2. a + u + W = n + u
      BY <1>1, <3>1
    <3> QED
      BY <3>1, <3>2 DEF Shift, a, n
  <2> QED
    BY <1>3, <2>2 DEF Row
<1> QED
  BY <1>2, <1>3

(* The end of a row moves the pen to the next one of the paper. *)
LEMMA NextLineRoll ==
  ASSUME Screen, NEW b \in [Cells -> Glyphs], NextLine(b)
  PROVE  /\ RowNow' = RowNow + 1 /\ terminal_column' = 0
         /\ PaperNow' = IF RowNow = Len(gone \o Rows(b)) THEN Append(gone \o Rows(b), BlankLine)
                        ELSE gone \o Rows(b)
<1> DEFINE p == gone \o Rows(b)
           G == Len(gone)
           H == VGA_HEIGHT
           y == terminal_row
<1>1. gone \in Seq(PaperRow) /\ G \in Nat /\ H \in Nat /\ H > 0 /\ y \in 0 .. H - 1
  BY Length, VgaAssumption DEF Screen
<1>2. /\ p \in Seq(PaperRow) /\ Len(p) = G + H
      /\ \A i \in 1 .. G + H : p[i] = IF i <= G THEN gone[i] ELSE Rows(b)[i - G]
  BY <1>1, RowsTyped, Concatenated, Zenon
<1>3. RowNow = G + y + 1
  BY DEF RowNow
<1>4. CASE y + 1 # H
  <2>1. terminal_buffer' = b /\ terminal_row' = y + 1 /\ terminal_column' = 0 /\ gone' = gone
    BY <1>4 DEF NextLine
  <2>2. RowNow # Len(p)
    BY <1>1, <1>2, <1>3, <1>4
  <2>3. RowNow' = RowNow + 1
    BY <1>1, <1>3, <2>1 DEF RowNow
  <2>4. PaperNow' = p
    BY <2>1 DEF PaperNow
  <2> QED
    BY <2>1, <2>2, <2>3, <2>4
<1>5. CASE y + 1 = H
  <2> DEFINE d == Shift(b, VGA_WIDTH)
             f == Append(gone, Row(b, 0))
             q == f \o Rows(d)
             t == Append(p, BlankLine)
  <2>1. terminal_buffer' = d /\ terminal_row' = H - 1 /\ terminal_column' = 0 /\ gone' = f
    BY <1>5 DEF NextLine, vga_scroll, Shift
  <2>2. Row(b, 0) \in PaperRow /\ BlankLine \in PaperRow
    <3>1. 0 \in 0 .. VGA_HEIGHT - 1
      BY <1>1
    <3> QED
      BY <3>1, RowTyped, BlankGlyph DEF BlankLine, PaperRow
  <2>3. /\ f \in Seq(PaperRow) /\ Len(f) = G + 1 /\ f[G + 1] = Row(b, 0)
        /\ \A i \in 1 .. G : f[i] = gone[i]
    BY <1>1, <2>2, Appended
  <2>4. d \in [Cells -> Glyphs]
    BY BlankGlyph DEF Shift
  <2> HIDE DEF p, d, f, G
  <2>5. /\ q \in Seq(PaperRow) /\ Len(q) = G + 1 + H
        /\ \A i \in 1 .. G + 1 + H : q[i] = IF i <= G + 1 THEN f[i] ELSE Rows(d)[i - (G + 1)]
    <3>1. Rows(d) \in Seq(PaperRow) /\ Len(Rows(d)) = H
      BY <2>4, RowsTyped
    <3>2. Len(f) \in Nat
      BY <2>3, Length
    <3>3. /\ q \in Seq(PaperRow) /\ Len(q) = Len(f) + Len(Rows(d))
          /\ \A i \in 1 .. Len(f) + Len(Rows(d)) : q[i] = IF i <= Len(f) THEN f[i] ELSE Rows(d)[i - Len(f)]
      BY <2>3, <3>1, Concatenated, Zenon
    <3> HIDE DEF H, q
    <3> QED
      BY <2>3, <3>1, <3>3
  <2>6. /\ t \in Seq(PaperRow) /\ Len(t) = G + H + 1 /\ t[G + H + 1] = BlankLine
        /\ \A i \in 1 .. G + H : t[i] = p[i]
    BY <1>2, <2>2, Appended
  <2> HIDE DEF q, t
  <2>7. \A k \in 1 .. H : Rows(b)[k] = Row(b, k - 1) /\ Rows(d)[k] = Row(d, k - 1)
    BY DEF Rows
  <2>8. \A v \in 0 .. H - 1 : Row(d, v) = IF v = H - 1 THEN BlankLine ELSE Row(b, v + 1)
    BY ScrolledRows DEF d
  <2>9. ASSUME NEW i \in 1 .. G + 1 + H PROVE q[i] = t[i]
    <3>1. CASE i <= G
      BY <1>1, <1>2, <2>3, <2>5, <2>6, <3>1
    <3>2. CASE i = G + 1
      <4>1. i \in 1 .. G + H /\ ~(i <= G) /\ i - G = 1 /\ i <= G + 1 /\ 1 \in 1 .. H /\ 1 - 1 = 0
        BY <1>1, <3>2
      <4>2. q[i] = Row(b, 0)
        BY <2>3, <2>5, <3>2, <4>1
      <4>3. t[i] = Rows(b)[1]
        BY <1>2, <2>6, <4>1
      <4> QED
        BY <2>7, <4>1, <4>2, <4>3
    <3>3. CASE i > G + 1 /\ i # G + H + 1
      <4> DEFINE v == i - (G + 1) - 1
      <4>1. /\ i \in 1 .. G + H /\ ~(i <= G + 1) /\ ~(i <= G) /\ i - (G + 1) \in 1 .. H /\ i - G \in 1 .. H
            /\ v \in 0 .. H - 1 /\ v # H - 1 /\ i - G - 1 = v + 1
        BY <1>1, <3>3
      <4>2. q[i] = Row(d, v)
        BY <2>5, <2>7, <4>1
      <4>3. t[i] = Row(b, v + 1)
        BY <1>2, <2>6, <2>7, <4>1, Zenon
      <4> HIDE DEF v
      <4> QED
        BY <2>8, <4>1, <4>2, <4>3
    <3>4. CASE i = G + H + 1
      <4>1. ~(i <= G + 1) /\ i - (G + 1) = H /\ H \in 1 .. H /\ H - 1 \in 0 .. H - 1
        BY <1>1, <3>4
      <4>2. q[i] = Row(d, H - 1)
        BY <2>5, <2>7, <4>1
      <4> QED
        BY <2>6, <2>8, <3>4, <4>1, <4>2
    <3> QED
      BY <1>1, <3>1, <3>2, <3>3, <3>4
  <2>10. q = t
    <3>1. Len(q) = Len(t)
      BY <1>1, <2>5, <2>6
    <3> QED
      BY <2>5, <2>6, <2>9, <3>1, SameElements
  <2>11. RowNow = Len(p)
    BY <1>1, <1>2, <1>3, <1>5
  <2>12. RowNow' = RowNow + 1
    <3>1. RowNow' = Len(gone') + terminal_row' + 1
      BY DEF RowNow
    <3> QED
      BY <1>1, <1>3, <1>5, <2>1, <2>3, <3>1
  <2>13. PaperNow' = q
    BY <2>1 DEF PaperNow, q
  <2> QED
    BY <2>1, <2>10, <2>11, <2>12, <2>13 DEF t, p
<1> QED
  BY <1>1, <1>4, <1>5

LEMMA RollNow ==
  /\ Roll!vars = <<PaperNow, RowNow, terminal_column>>
  /\ Roll!BlankRow = BlankLine
BY DEF Roll!vars, PaperNow, RowNow, Roll!BlankRow, BlankLine

LEMMA GlyphRoll ==
  ASSUME Screen, NEW c \in Glyphs, vga_putchar(c)
  PROVE  Roll!Write(c)
<1> DEFINE b == [terminal_buffer EXCEPT ![terminal_row * VGA_WIDTH + terminal_column] = c]
           p == gone \o Rows(b)
           written == [gone \o Rows(terminal_buffer) EXCEPT ![Len(gone) + terminal_row + 1][terminal_column] = c]
<1>1. terminal_buffer \in [Cells -> Glyphs] /\ terminal_row \in 0 .. VGA_HEIGHT - 1
      /\ terminal_column \in 0 .. VGA_WIDTH - 1 /\ gone \in Seq(PaperRow) /\ VGA_WIDTH \in Nat
  BY VgaAssumption DEF Screen
<1>2. c \notin {Newline, Backspace} /\ PutPrintable(c)
  BY CharFacts DEF vga_putchar, Glyphs
<1>3. b \in [Cells -> Glyphs]
  <2>1. terminal_row * VGA_WIDTH + terminal_column \in Cells
    BY <1>1, CellIndex, Zenon
  <2> QED
    BY <1>1, <2>1
<1>4. written = p
  <2>1. Inked(gone \o Rows(terminal_buffer), Len(gone) + terminal_row + 1, terminal_column, c)
          = gone \o Rows(Stamped(terminal_buffer, terminal_row * VGA_WIDTH + terminal_column, c))
    BY <1>1, WriteRoll
  <2> QED
    BY <2>1, Zenon DEF Inked, Stamped
<1>5. CASE terminal_column + 1 = VGA_WIDTH
  <2>1. NextLine(b)
    BY <1>2, <1>5 DEF PutPrintable, vga_putchar_at
  <2> HIDE DEF b
  <2>2. /\ RowNow' = RowNow + 1 /\ terminal_column' = 0
        /\ PaperNow' = IF RowNow = Len(p) THEN Append(p, BlankLine) ELSE p
    BY <1>3, <2>1, NextLineRoll
  <2> HIDE DEF p, written
  <2>3. PaperNow' = IF RowNow = Len(written) THEN Append(written, BlankLine) ELSE written
    BY <1>4, <2>2
  <2>4. Roll!NextRow(written)
    BY <2>2, <2>3, RollNow, Zenon DEF Roll!NextRow, PaperNow, RowNow
  <2>5. terminal_column = VGA_WIDTH - 1
    BY <1>1, <1>5
  <2> QED
    BY <2>4, <2>5 DEF Roll!Write, written
<1>6. CASE terminal_column + 1 # VGA_WIDTH
  <2>1. terminal_buffer' = b /\ terminal_column' = terminal_column + 1 /\ terminal_row' = terminal_row /\ gone' = gone
    BY <1>2, <1>6 DEF PutPrintable, vga_putchar_at
  <2>2. (gone \o Rows(terminal_buffer))' = written
    <3> HIDE DEF b
    <3> QED
      BY <1>4, <2>1
  <2>3. (Len(gone) + terminal_row + 1)' = Len(gone) + terminal_row + 1
    BY <2>1
  <2>4. terminal_column # VGA_WIDTH - 1
    BY <1>1, <1>6
  <2> HIDE DEF b, p
  <2> QED
    BY <2>1, <2>2, <2>3, <2>4 DEF Roll!Write
<1> QED
  BY <1>5, <1>6

LEMMA NewlineRoll ==
  ASSUME Screen, vga_putchar(Newline)
  PROVE  Roll!NextRow(gone \o Rows(terminal_buffer))
<1>1. terminal_buffer \in [Cells -> Glyphs] /\ NextLine(terminal_buffer)
  BY VgaAssumption DEF Screen, vga_putchar
<1>2. /\ RowNow' = RowNow + 1 /\ terminal_column' = 0
      /\ PaperNow' = IF RowNow = Len(gone \o Rows(terminal_buffer))
                       THEN Append(gone \o Rows(terminal_buffer), BlankLine)
                     ELSE gone \o Rows(terminal_buffer)
  BY <1>1, NextLineRoll
<1> QED
  BY <1>2, RollNow DEF Roll!NextRow, PaperNow, RowNow

LEMMA BackspaceRoll ==
  ASSUME Screen, vga_putchar(Backspace)
  PROVE  Roll!Erase \/ UNCHANGED Roll!vars
<1>1. terminal_buffer \in [Cells -> Glyphs] /\ terminal_row \in 0 .. VGA_HEIGHT - 1
      /\ terminal_column \in 0 .. VGA_WIDTH - 1 /\ gone \in Seq(PaperRow) /\ VGA_WIDTH \in Nat
      /\ cursor = terminal_row * VGA_WIDTH + terminal_column
  BY VgaAssumption DEF Screen
<1>2. CASE terminal_column = 0
  <2>1. UNCHANGED <<terminal_buffer, terminal_row, terminal_column, cursor, gone>>
    BY <1>2, BackspaceEffect
  <2> QED
    BY <2>1 DEF Roll!vars
<1>3. CASE terminal_column > 0
  <2> DEFINE x == terminal_column - 1
             b == [terminal_buffer EXCEPT ![terminal_row * VGA_WIDTH + x] = Blank]
  <2>1. terminal_column' = x /\ terminal_row' = terminal_row /\ gone' = gone
    BY <1>3, BackspaceEffect
  <2>2. x \in 0 .. VGA_WIDTH - 1
    BY <1>1, <1>3
  <2>3. terminal_buffer' = b
    <3>1. PutBackspace
      BY VgaAssumption DEF vga_putchar
    <3> QED
      BY <1>3, <3>1 DEF PutBackspace, vga_putchar_at
  <2> HIDE DEF x
  <2>4. [gone \o Rows(terminal_buffer) EXCEPT ![Len(gone) + terminal_row + 1][x] = Blank] = gone \o Rows(b)
    <3>1. Inked(gone \o Rows(terminal_buffer), Len(gone) + terminal_row + 1, x, Blank)
            = gone \o Rows(Stamped(terminal_buffer, terminal_row * VGA_WIDTH + x, Blank))
      BY <1>1, <2>2, WriteRoll, BlankGlyph, Zenon
    <3> QED
      BY <3>1, Zenon DEF Inked, Stamped
  <2> HIDE DEF b
  <2>5. (gone \o Rows(terminal_buffer))'
          = [gone \o Rows(terminal_buffer) EXCEPT ![Len(gone) + terminal_row + 1][terminal_column - 1] = Blank]
    BY <2>1, <2>3, <2>4 DEF x
  <2>6. (Len(gone) + terminal_row + 1)' = Len(gone) + terminal_row + 1
    BY <2>1
  <2> QED
    BY <1>3, <2>1, <2>5, <2>6 DEF Roll!Erase, x
<1> QED
  BY <1>1, <1>2, <1>3

LEMMA ClearRoll ==
  ASSUME Screen, vga_clear
  PROVE  Roll!Clear
<1>1. /\ terminal_buffer' = Cleared /\ terminal_row' = SEPARATOR_Y + 2 /\ terminal_column' = 0
      /\ gone' = gone \o Rows(terminal_buffer)
  BY DEF vga_clear
<1>2. (gone \o Rows(terminal_buffer))' = (gone \o Rows(terminal_buffer)) \o Rows(Cleared)
  BY <1>1
<1>3. (Len(gone) + terminal_row + 1)' = Len(gone \o Rows(terminal_buffer)) + (SEPARATOR_Y + 3)
  <2> DEFINE n == Len(gone \o Rows(terminal_buffer))
  <2>1. n \in Nat /\ SEPARATOR_Y \in Int
    <3>1. gone \in Seq(PaperRow) /\ Rows(terminal_buffer) \in Seq(PaperRow)
      BY RowsTyped DEF Screen
    <3> QED
      BY <3>1, Concatenated, Length, VgaAssumption DEF SEPARATOR_Y
  <2>2. Len(gone') = n
    BY <1>1
  <2> HIDE DEF n
  <2>3. Len(gone') + terminal_row' + 1 = n + (SEPARATOR_Y + 3)
    BY <1>1, <2>1, <2>2
  <2> QED
    BY <2>3 DEF n
<1> QED
  BY <1>1, <1>2, <1>3 DEF Roll!Clear

LEMMA RollInit ==
  ASSUME Init
  PROVE  Roll!Init
<1>1. terminal_buffer = Cleared /\ terminal_row = SEPARATOR_Y + 2 /\ terminal_column = 0 /\ gone = <<>>
  BY DEF Init, vga_init
<1>2. Rows(Cleared) \in Seq(PaperRow)
  BY ClearedBlank, RowsTyped
<1>3. gone \o Rows(terminal_buffer) = Rows(Cleared)
  BY <1>1, <1>2, NothingBefore
<1>4. Len(gone) + terminal_row + 1 = SEPARATOR_Y + 3
  <2>1. SEPARATOR_Y \in Int /\ Len(<<>>) = 0
    BY VgaAssumption DEF SEPARATOR_Y
  <2> QED
    BY <1>1, <2>1
<1> QED
  BY <1>1, <1>3, <1>4 DEF Roll!Init

LEMMA RollStep ==
  ASSUME ConsoleInv, [Next]_vars
  PROVE  [Roll!Next]_(Roll!vars)
<1>0. Screen /\ out \in Seq(Char \cup {CLEAR})
  BY DEF ConsoleInv, DialogueTyped
<1>1. CASE Put
  <2>1. IF Head(out) = CLEAR THEN vga_clear ELSE vga_putchar(Head(out))
    BY <1>1 DEF Put
  <2>2. CASE Head(out) = CLEAR
    BY <1>0, <2>1, <2>2, ClearRoll DEF Roll!Next
  <2>3. CASE Head(out) # CLEAR
    <3>1. Head(out) \in Char /\ vga_putchar(Head(out))
      BY <1>0, <1>1, <2>3, PutScreen
    <3>2. CASE Head(out) = Newline
      BY <1>0, <3>1, <3>2, NewlineRoll DEF Roll!Next
    <3>3. CASE Head(out) = Backspace
      BY <1>0, <3>1, <3>3, BackspaceRoll DEF Roll!Next
    <3>4. CASE Head(out) \notin {Newline, Backspace}
      <4>1. Head(out) \in Glyphs
        BY <3>1, <3>4 DEF Glyphs
      <4>2. Roll!Write(Head(out))
        BY <1>0, <3>1, <4>1, GlyphRoll
      <4> QED
        BY <4>1, <4>2 DEF Roll!Next
    <3> QED
      BY <3>2, <3>3, <3>4
  <2> QED
    BY <2>2, <2>3
<1>2. CASE ~Put
  <2>1. UNCHANGED vgavars
    BY <1>2 DEF Next, shell_read_input, BeginRead, Enter, Erase, TypeChar, shell_execute_command, vars
  <2>2. UNCHANGED <<terminal_buffer, terminal_row, terminal_column, gone>>
    BY <2>1 DEF vgavars
  <2>3. UNCHANGED Roll!vars
    BY <2>2 DEF Roll!vars
  <2> QED
    BY <2>3
<1> QED
  BY <1>1, <1>2

(* The refinement: the screen with the rows that scrolled off it is a roll  *)
(* of paper that is written at one place, erased to the left of it, and     *)
(* only grows: vga_scroll loses nothing but the row at the top.             *)
THEOREM ConsoleImplementsPaper == Spec => ImplementsPaper
<1>1. Init => Roll!Init
  BY RollInit
<1>2. ConsoleInv /\ [Next]_vars => [Roll!Next]_(Roll!vars)
  BY RollStep
<1> QED
  BY <1>1, <1>2, ConsoleInvariant, PTL DEF Spec, ImplementsPaper, Roll!Spec
=============================================================================
