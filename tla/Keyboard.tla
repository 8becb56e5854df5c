------------------------------ MODULE Keyboard ------------------------------
(***************************************************************************)
(* The keyboard driver of keyboard.c and its only reader, shell_read_input *)
(* of kernel.c.                                                            *)
(*                                                                         *)
(* The interrupt handler runs with interrupts off and is one action.  The  *)
(* reader runs with interrupts on, so it is one action per access to the   *)
(* shared ring.  buffer_count is a plain int both sides write: compiled    *)
(* with the Makefile's -O2, keyboard_get_char keeps the count it tested in *)
(* a register and stores it minus one, before or after it reads the        *)
(* character; a build may as well decrement the variable in place.  Those  *)
(* outcomes are the nondeterminism of Store and of the order of Store and  *)
(* Take.  The timer is masked (interrupt.c), so a keyboard interrupt is    *)
(* the only thing that ends a hlt.                                         *)
(***************************************************************************)
EXTENDS Integers, Sequences

CONSTANTS
  INPUT_BUFFER_SIZE,   \* slots of the ring (256 in the code)
  MAX_COMMAND_LENGTH,  \* the shell's line buffer (64 in the code)
  Keys                 \* the keys that get pressed

NUL == "none"          \* the character 0
Shifts == {"lshift", "rshift"}
Letters == {"a", "b"}
Specials == Shifts \cup {"ctrl", "alt", "caps", "esc", "tab"}

(* The two maps, for the keys the runs press; other keys have no character. *)
scancode_map == [k \in {"a", "b", "1"} |-> k]
shift_map == [k \in {"a", "b", "1"} |-> CASE k = "a" -> "A" [] k = "b" -> "B" [] k = "1" -> "!"]
upper == [a |-> "A", b |-> "B"]
lower == [A |-> "a", B |-> "b"]
Chars == {"a", "b", "A", "B", "1", "!", "nl", "bs"}

ASSUME KeyboardAssumption ==
  /\ INPUT_BUFFER_SIZE \in Nat \ {0}
  /\ MAX_COMMAND_LENGTH \in Nat \ {0, 1}

VARIABLES
  input_buffer, buffer_head, buffer_tail, buffer_count,
  keyboard_state,  \* the modifier flags
  held,            \* the keys that are down
  pc,              \* where shell_read_input is
  seen,            \* keyboard_get_char: buffer_count as loaded
  todo,            \* keyboard_get_char: what it has still to do
  ch,              \* the character it returns
  line,            \* shell_read_input: buffer[0 .. pos - 1]
  unread,          \* history: the queue a bounded FIFO would hold now
  raced            \* history: a key has come inside keyboard_get_char

ring == <<input_buffer, buffer_head, buffer_tail, buffer_count>>
reader == <<pc, seen, todo, ch, line>>
vars == <<ring, keyboard_state, held, reader, unread, raced>>

Init ==
  /\ input_buffer = [i \in 0 .. INPUT_BUFFER_SIZE - 1 |-> NUL]
  /\ buffer_head = 0 /\ buffer_tail = 0 /\ buffer_count = 0
  /\ keyboard_state = [shift |-> FALSE, ctrl |-> FALSE, alt |-> FALSE, caps |-> FALSE]
  /\ held = {}
  /\ pc = "check" /\ seen = 0 /\ todo = {} /\ ch = NUL
  /\ line = <<>>
  /\ unread = <<>>
  /\ raced = FALSE

-----------------------------------------------------------------------------
(* The interrupt side.  Operators whose names begin with Bad are broken    *)
(* variants of the definition that follows them; no specification uses     *)
(* them.                                                                   *)

scancode_to_char(key) ==
  LET map == IF keyboard_state.shift THEN shift_map ELSE scancode_map
      c == IF key \in Specials \/ key \notin DOMAIN map THEN NUL ELSE map[key]
  IN  IF ~keyboard_state.caps THEN c
      ELSE IF c \in DOMAIN upper THEN upper[c]
      ELSE IF c \in DOMAIN lower THEN lower[c] ELSE c

(* The last slot is given away although it is taken. *)
BadPut(c) ==
  /\ input_buffer' = [input_buffer EXCEPT ![buffer_tail] = c]
  /\ buffer_tail' = (buffer_tail + 1) % INPUT_BUFFER_SIZE
  /\ buffer_count' = buffer_count + 1
  /\ unread' = IF Len(unread) < INPUT_BUFFER_SIZE THEN Append(unread, c) ELSE unread
  /\ UNCHANGED buffer_head

(* Append c to the ring, or drop it if the ring is full. *)
Put(c) ==
  /\ IF buffer_count < INPUT_BUFFER_SIZE
       THEN /\ input_buffer' = [input_buffer EXCEPT ![buffer_tail] = c]
            /\ buffer_tail' = (buffer_tail + 1) % INPUT_BUFFER_SIZE
            /\ buffer_count' = buffer_count + 1
       ELSE UNCHANGED <<input_buffer, buffer_tail, buffer_count>>
  /\ unread' = IF Len(unread) < INPUT_BUFFER_SIZE THEN Append(unread, c) ELSE unread
  /\ UNCHANGED buffer_head

(* The release of the right shift key is not recognised. *)
BadModifier(key, released) ==
  keyboard_state' =
    CASE key \in Shifts -> [keyboard_state EXCEPT !.shift = ~released \/ key = "rshift"]
      [] OTHER -> keyboard_state

Modifier(key, released) ==
  keyboard_state' =
    CASE key \in Shifts -> [keyboard_state EXCEPT !.shift = ~released]
      [] key = "ctrl" -> [keyboard_state EXCEPT !.ctrl = ~released]
      [] key = "alt" -> [keyboard_state EXCEPT !.alt = ~released]
      [] key = "caps" -> [keyboard_state EXCEPT !.caps = IF released THEN @ ELSE ~@]

process_scancode(key, released) ==
  \/ /\ key \in Shifts \cup {"ctrl", "alt", "caps"}
     /\ Modifier(key, released)
     /\ UNCHANGED <<ring, unread>>
  \/ /\ key \notin Shifts \cup {"ctrl", "alt", "caps"}
     /\ LET c == CASE key = "enter" -> "nl"
                   [] key = "backspace" -> "bs"
                   [] OTHER -> scancode_to_char(key)
        IN  IF released \/ c = NUL THEN UNCHANGED <<ring, unread>> ELSE Put(c)
     /\ UNCHANGED keyboard_state

(* keyboard_get_char has loaded buffer_count and is not done. *)
InGet == pc = "get"

(* An interrupt does not end the hlt. *)
BadInterrupt(key, released) ==
  /\ released => key \in held
  /\ process_scancode(key, released)
  /\ held' = IF released THEN held \ {key} ELSE held \cup {key}
  /\ raced' = (raced \/ InGet)
  /\ UNCHANGED reader

(* A key is pressed or released; the interrupt wakes a halted CPU. *)
keyboard_interrupt(key, released) ==
  /\ released => key \in held
  /\ process_scancode(key, released)
  /\ held' = IF released THEN held \ {key} ELSE held \cup {key}
  /\ pc' = IF pc = "asleep" THEN "check" ELSE pc
  /\ raced' = (raced \/ InGet)
  /\ UNCHANGED <<seen, todo, ch, line>>

-----------------------------------------------------------------------------
(* The reader. *)

(* The loop condition of shell_read_input and keyboard_has_input. *)
CheckInput ==
  /\ pc = "check"
  /\ pc' = IF buffer_count > 0 THEN "load" ELSE "halt"
  /\ UNCHANGED <<ring, keyboard_state, held, seen, todo, ch, line, unread, raced>>

(* The CPU executes hlt, whether or not a key has come in since the check. *)
Hlt ==
  /\ pc = "halt"
  /\ pc' = "asleep"
  /\ UNCHANGED <<ring, keyboard_state, held, seen, todo, ch, line, unread, raced>>

(* keyboard_get_char loads and tests buffer_count. *)
LoadCount ==
  /\ pc = "load"
  /\ seen' = buffer_count
  /\ IF buffer_count = 0
       THEN pc' = "got" /\ ch' = NUL /\ UNCHANGED todo
       ELSE pc' = "get" /\ todo' = {"store", "take"} /\ UNCHANGED ch
  /\ UNCHANGED <<ring, keyboard_state, held, line, unread, raced>>

(* Part t of keyboard_get_char is done. *)
Finish(t) ==
  /\ todo' = todo \ {t}
  /\ pc' = IF todo = {t} THEN "got" ELSE "get"
  /\ unread' = IF todo = {t} /\ unread # <<>> THEN Tail(unread) ELSE unread

Store ==
  /\ pc = "get" /\ "store" \in todo
  /\ buffer_count' \in {seen - 1, buffer_count - 1}
  /\ Finish("store")
  /\ UNCHANGED <<input_buffer, buffer_head, buffer_tail, keyboard_state, held, seen, ch, line, raced>>

(* The head index does not wrap. *)
BadTake ==
  /\ pc = "get" /\ "take" \in todo
  /\ ch' = input_buffer[buffer_head]
  /\ buffer_head' = IF buffer_head < INPUT_BUFFER_SIZE THEN buffer_head + 1 ELSE 0
  /\ Finish("take")
  /\ UNCHANGED <<input_buffer, buffer_tail, buffer_count, keyboard_state, held, seen, line, raced>>

Take ==
  /\ pc = "get" /\ "take" \in todo
  /\ ch' = input_buffer[buffer_head]
  /\ buffer_head' = (buffer_head + 1) % INPUT_BUFFER_SIZE
  /\ Finish("take")
  /\ UNCHANGED <<input_buffer, buffer_tail, buffer_count, keyboard_state, held, seen, line, raced>>

(* shell_read_input handles the character; on Enter, or when the line      *)
(* buffer is full, it returns the line to shell_run.                       *)
HandleChar ==
  /\ pc = "got"
  /\ line' = CASE ch = "bs" -> SubSeq(line, 1, Len(line) - 1)
               [] ch \in {NUL, "nl"} -> line
               [] OTHER -> Append(line, ch)
  /\ pc' = IF ch = "nl" \/ Len(line') = MAX_COMMAND_LENGTH - 1 THEN "exec" ELSE "check"
  /\ ch' = NUL /\ seen' = 0
  /\ UNCHANGED <<ring, keyboard_state, held, todo, unread, raced>>

(* shell_execute_command runs and shell_run asks for the next line. *)
Execute ==
  /\ pc = "exec"
  /\ pc' = "check" /\ line' = <<>>
  /\ UNCHANGED <<ring, keyboard_state, held, seen, todo, ch, unread, raced>>

Interrupt == \E key \in Keys, released \in BOOLEAN : keyboard_interrupt(key, released)

Reader == CheckInput \/ Hlt \/ LoadCount \/ Store \/ Take \/ HandleChar \/ Execute

Next == Interrupt \/ Reader

(* The CPU executes the reader's instructions; nobody has to press a key. *)
Spec == Init /\ [][Next]_vars /\ WF_vars(Reader)

-----------------------------------------------------------------------------
(* Properties *)

(* Whatever the interleaving of the handler with the reader, head and tail *)
(* index the ring, the count is between 0 and its size, and the line fits  *)
(* the shell's buffer with its final NUL.                                  *)
TypeOK ==
  /\ input_buffer \in [0 .. INPUT_BUFFER_SIZE - 1 -> Chars \cup {NUL}]
  /\ buffer_head \in 0 .. INPUT_BUFFER_SIZE - 1
  /\ buffer_tail \in 0 .. INPUT_BUFFER_SIZE - 1
  /\ buffer_count \in 0 .. INPUT_BUFFER_SIZE
  /\ keyboard_state \in [shift : BOOLEAN, ctrl : BOOLEAN, alt : BOOLEAN, caps : BOOLEAN]
  /\ held \subseteq Keys
  /\ pc \in {"check", "halt", "asleep", "load", "get", "got", "exec"}
  /\ seen \in 0 .. INPUT_BUFFER_SIZE
  /\ todo \subseteq {"store", "take"}
  /\ ch \in Chars \cup {NUL}
  /\ Len(line) < MAX_COMMAND_LENGTH

(* As long as no key arrives inside keyboard_get_char, the ring is a FIFO: *)
(* between two calls the buffer_count slots from buffer_head hold the      *)
(* unread characters, oldest first, and a key is dropped only when         *)
(* INPUT_BUFFER_SIZE of them are waiting.                                  *)
RingIsFifo ==
  ~InGet /\ ~raced =>
    unread = [i \in 1 .. buffer_count |->
                input_buffer[(buffer_head + i - 1) % INPUT_BUFFER_SIZE]]

(* keyboard_has_input answers whether a character is waiting: between two  *)
(* calls of keyboard_get_char the count is not 0 while one is unread.      *)
HasInput == ~InGet /\ unread # <<>> => buffer_count > 0

(* If interrupts keep arriving, none of them inside keyboard_get_char, the *)
(* shell gets to read what is waiting.  Without them it may sleep on input *)
(* that came between its check and its hlt.                                *)
ReadIfMoreKeys ==
  []~raced /\ []<><<Interrupt>>_vars => (unread # <<>> ~> pc = "get")

(* The shift flag is never left on with both shift keys up, whichever of   *)
(* the two was pressed or released last.  (It may be off with one down:    *)
(* the release of either key clears it.)                                   *)
NoStuckShift == keyboard_state.shift => held \cap Shifts # {}
=============================================================================
