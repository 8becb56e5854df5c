----------------------------- MODULE Interrupts -----------------------------
(***************************************************************************)
(* Interrupts: the descriptor table and the controller as interrupt.c and  *)
(* syscall.c set them up, the entry code of interrupt_asm.asm and          *)
(* syscall_asm.asm, the two device handlers, and the order in which kmain  *)
(* makes them live.                                                        *)
(*                                                                         *)
(* The processor, the 8259 controller and the keyboard controller are      *)
(* external and modelled by what the code relies on.  The stack is the     *)
(* words that interrupts and their entry code push, top last.  A function  *)
(* returns with ret, which pops one word, or iret, which pops three; a ret *)
(* that pops anything but an address leaves the program: eip = "lost".  A  *)
(* vector without a gate stops the machine: eip = "crash".                 *)
(***************************************************************************)
EXTENDS Integers, Sequences, SequencesExt, FiniteSetsExt

CONSTANTS
  Faults,      \* exceptions that occur
  MAX_STACK    \* bound on the words that unfinished interrupts leave

Exceptions == (0 .. 14) \cup (16 .. 19)
WithError == {8, 10, 11, 12, 13, 14, 17}   \* the CPU pushes an error code
Traps == {3}                               \* the gate is a trap gate
INT_TIMER == 32
INT_KEYBOARD == 33
SYSCALL_INT_NUM == 128
Vectors == (0 .. 47) \cup {SYSCALL_INT_NUM}
IRQS == 0 .. 7
KEYBOARD == 1

ASSUME InterruptsAssumption == Faults \subseteq Exceptions /\ MAX_STACK \in Nat

VARIABLES
  idt,          \* the gates: the entry code and the kind of gate
  pic,          \* vector base, requests, interrupts in service, mask
  obf,          \* the keyboard controller holds a byte nobody has read
  flag,         \* the interrupt flag of the CPU
  stack,
  regs,         \* whose values are in the registers
  eip,          \* where the CPU is
  timer_count,  \* capped at 1
  direct,       \* history: the kind of gate by which a C function was entered
  early         \* history: a byte was waiting when the controller was reset

irqVars == <<idt, pic, obf, flag, stack, regs, eip, timer_count, direct, early>>

NoGate == [entry |-> "none", gate |-> "none"]
Word(kind, value) == [w |-> kind, v |-> value]

(* The bootloader has switched interrupts off and called kmain. *)
IrqInit ==
  /\ idt = [v \in Vectors |-> NoGate]
  /\ pic = [base |-> 8, irr |-> {}, isr |-> {}, mask |-> {}]
  /\ obf = FALSE
  /\ flag = "off"
  /\ stack = <<>>
  /\ regs = "program"
  /\ eip = "kmain"
  /\ timer_count = 0
  /\ direct = "no"
  /\ early = FALSE

-----------------------------------------------------------------------------
(* Set-up.  Operators whose names begin with Bad are broken variants of    *)
(* the definition that follows them; no specification uses them.           *)

(* pic_init up to the mask: reset, which forgets pending requests, and the *)
(* new vector base.                                                        *)
PicReset ==
  /\ eip = "kmain"
  /\ pic' = [base |-> 32, irr |-> {}, isr |-> {}, mask |-> {}]
  /\ early' = obf
  /\ eip' = "mask"
  /\ UNCHANGED <<idt, obf, flag, stack, regs, timer_count, direct>>

PicMask ==
  /\ eip = "mask"
  /\ pic' = [pic EXCEPT !.mask = IRQS \ {KEYBOARD}]
  /\ eip' = "idt_init"
  /\ UNCHANGED <<idt, obf, flag, stack, regs, timer_count, direct, early>>

(* The calls of idt_set_entry in idt_init: the exceptions go straight to C *)
(* functions, the devices to their stubs.                                  *)
Table ==
  [v \in Vectors |->
     CASE v \in Exceptions -> [entry |-> "c", gate |-> IF v \in Traps THEN "trap" ELSE "int"]
       [] v = INT_TIMER -> [entry |-> "timer", gate |-> "int"]
       [] v = INT_KEYBOARD -> [entry |-> "keyboard", gate |-> "int"]
       [] v = SYSCALL_INT_NUM -> [entry |-> "syscall_entry", gate |-> "trap"]
       [] OTHER -> NoGate]

idt_init ==
  /\ eip = "idt_init"
  /\ idt' = Table
  /\ eip' = "syscall_init"
  /\ UNCHANGED <<pic, obf, flag, stack, regs, timer_count, direct, early>>

(* The last statement of syscall_init points the gate to a C function. *)
syscall_init ==
  /\ eip = "syscall_init"
  /\ idt' = [idt EXCEPT ![SYSCALL_INT_NUM] = [entry |-> "c", gate |-> "trap"]]
  /\ eip' = "sti"
  /\ UNCHANGED <<pic, obf, flag, stack, regs, timer_count, direct, early>>

Sti ==
  /\ eip = "sti"
  /\ flag' = "on"
  /\ eip' = "main"
  /\ UNCHANGED <<idt, pic, obf, stack, regs, timer_count, direct, early>>

Boot == PicReset \/ PicMask \/ idt_init \/ syscall_init \/ Sti

-----------------------------------------------------------------------------
(* The machine (external). *)

(* The CPU enters vector v, to come back to `resume' with what is pushed   *)
(* on the given stack.                                                     *)
EnterGate(v, resume, below) ==
  LET g == idt[v]
      frame == <<Word("eflags", flag), Word("cs", "code"), Word("eip", resume)>>
                 \o (IF v \in WithError THEN <<Word("error", "code")>> ELSE <<>>)
  IN  /\ eip' = IF g = NoGate THEN "crash" ELSE g.entry
      /\ stack' = below \o frame
      /\ flag' = IF g.gate = "int" THEN "off" ELSE flag
      /\ direct' = IF g.entry # "c" \/ direct = "int" THEN direct ELSE g.gate

(* The controller offers a request that is not masked and not held back by *)
(* one in service.                                                         *)
Offered == {i \in pic.irr \ pic.mask : \A j \in pic.isr : i < j}

(* The CPU takes the most urgent one; a halted CPU goes on after the hlt.  *)
Deliver ==
  /\ flag = "on" /\ eip \notin {"lost", "crash"} /\ Offered # {}
  /\ Len(stack) + 3 <= MAX_STACK
  /\ LET i == Min(Offered) IN
     /\ pic' = [pic EXCEPT !.irr = @ \ {i}, !.isr = @ \cup {i}]
     /\ EnterGate(pic.base + i, IF eip = "halt" THEN "main" ELSE eip, stack)
  /\ UNCHANGED <<idt, obf, regs, timer_count, early>>

(* The timer makes a request; the keyboard makes one for a byte, and holds *)
(* the next byte back until that one is read.                              *)
Tick ==
  /\ pic' = [pic EXCEPT !.irr = @ \cup {0}]
  /\ UNCHANGED <<idt, obf, flag, stack, regs, eip, timer_count, direct, early>>

Byte ==
  /\ ~obf
  /\ obf' = TRUE
  /\ pic' = [pic EXCEPT !.irr = @ \cup {KEYBOARD}]
  /\ UNCHANGED <<idt, flag, stack, regs, eip, timer_count, direct, early>>

-----------------------------------------------------------------------------
(* The stubs interrupt_handler_32 and interrupt_handler_33. *)

Save ==
  /\ eip \in {"timer", "keyboard"}
  /\ flag' = "off"
  /\ stack' = Append(stack, Word("regs", regs))
  /\ eip' = IF eip = "timer" THEN "timer_handler" ELSE "keyboard_handler"
  /\ UNCHANGED <<idt, pic, obf, regs, timer_count, direct, early>>

(* timer_handler, and keyboard_handler's call of                           *)
(* keyboard_interrupt_handler, which reads the byte, up to the end of      *)
(* interrupt command.                                                      *)
Handle ==
  /\ eip \in {"timer_handler", "keyboard_handler"}
  /\ timer_count' = IF eip = "timer_handler" THEN 1 ELSE timer_count
  /\ obf' = IF eip = "keyboard_handler" THEN FALSE ELSE obf
  /\ regs' = "handler"
  /\ eip' = "eoi"
  /\ UNCHANGED <<idt, pic, flag, stack, direct, early>>

(* The command is left out. *)
BadEoi ==
  /\ eip = "eoi" /\ eip' = "restore"
  /\ UNCHANGED <<idt, pic, obf, flag, stack, regs, timer_count, direct, early>>

(* The controller ends the most urgent interrupt in service. *)
EndOfInterrupt ==
  /\ eip = "eoi"
  /\ pic' = [pic EXCEPT !.isr = @ \ {Min(@)}]
  /\ eip' = "restore"
  /\ UNCHANGED <<idt, obf, flag, stack, regs, timer_count, direct, early>>

(* RESTORE_REGS is left out and the words stay on the stack. *)
BadRestore ==
  /\ eip = "restore" /\ eip' = "iret"
  /\ UNCHANGED <<idt, pic, obf, flag, stack, regs, timer_count, direct, early>>

Restore ==
  /\ eip = "restore"
  /\ regs' = Last(stack).v
  /\ stack' = Front(stack)
  /\ eip' = "iret"
  /\ UNCHANGED <<idt, pic, obf, flag, timer_count, direct, early>>

(* iret takes the address, the segment and the flags off the stack. *)
Iret ==
  /\ eip = "iret"
  /\ eip' = IF Last(stack).w = "eip" THEN Last(stack).v ELSE "lost"
  /\ flag' = IF Last(stack).w = "eip" THEN stack[Len(stack) - 2].v ELSE flag
  /\ stack' = SubSeq(stack, 1, Len(stack) - 3)
  /\ UNCHANGED <<idt, pic, obf, regs, timer_count, direct, early>>

(* A C function at the end of a gate, an exception handler or              *)
(* syscall_handler, and the ret of a syscall_ wrapper: one word is taken   *)
(* off the stack.                                                          *)
Ret ==
  /\ eip \in {"c", "wrapper"}
  /\ eip' = IF Last(stack).w = "eip" THEN Last(stack).v ELSE "lost"
  /\ stack' = Front(stack)
  /\ UNCHANGED <<idt, pic, obf, flag, regs, timer_count, direct, early>>

Handlers == Save \/ Handle \/ EndOfInterrupt \/ Restore \/ Iret \/ Ret

-----------------------------------------------------------------------------
(* The kernel behind kmain: shell_read_input halts, an instruction may     *)
(* fault, and a syscall_ wrapper may be called, whose int 0x80 comes back  *)
(* to its ret.                                                             *)
Idle ==
  /\ eip = "main"
  /\ eip' = "halt"
  /\ UNCHANGED <<idt, pic, obf, flag, stack, regs, timer_count, direct, early>>

Fault(v) ==
  /\ eip = "main" /\ Len(stack) + 4 <= MAX_STACK
  /\ EnterGate(v, "main", stack)
  /\ UNCHANGED <<idt, pic, obf, regs, timer_count, early>>

Int80 ==
  /\ eip = "main" /\ Len(stack) + 4 <= MAX_STACK
  /\ EnterGate(SYSCALL_INT_NUM, "wrapper", Append(stack, Word("eip", "main")))
  /\ UNCHANGED <<idt, pic, obf, regs, timer_count, early>>

IrqNext ==
  \/ Boot \/ Deliver \/ Tick \/ Byte \/ Handlers \/ Idle
  \/ \E v \in Faults : Fault(v)
  \/ Int80

(* The CPU goes on executing and takes the interrupts it is offered. *)
IrqSpec ==
  /\ IrqInit /\ [][IrqNext]_irqVars
  /\ WF_irqVars(Boot) /\ WF_irqVars(Deliver) /\ WF_irqVars(Handlers)

-----------------------------------------------------------------------------
(* Properties *)

Stages ==
  {"kmain", "mask", "idt_init", "syscall_init", "sti", "main", "halt", "wrapper", "c",
   "timer", "keyboard", "timer_handler", "keyboard_handler", "eoi", "restore", "iret",
   "lost", "crash"}

(* Types of the machine's state; the CPU runs off or stops only after a C  *)
(* function was entered straight from a gate, so the table, the controller *)
(* and the flag become live in an order that leaves no vector without a    *)
(* gate, and the stubs leave the stack as they found it.                   *)
IrqTypeOK ==
  /\ eip \in Stages
  /\ eip \in {"lost", "crash"} => direct # "no"
  /\ Len(stack) <= MAX_STACK + 1
  /\ flag \in {"on", "off"}
  /\ pic.irr \subseteq IRQS /\ pic.isr \subseteq IRQS

Frames == Cardinality({k \in 1 .. Len(stack) : stack[k].w = "eip"})

(* A handler is never interrupted, so keyboard_interrupt_handler runs as   *)
(* one step with respect to the reader of the keyboard ring.               *)
HandlerAlone == direct = "no" => Frames <= 1

(* A device interrupt leaves no trace: back in the interrupted program the *)
(* stack and the registers are as before and interrupts are on, and no     *)
(* handler is interrupted.  The timer never interrupts: its requests from  *)
(* before and after the mask is set wait forever.  An exception by an      *)
(* interrupt gate leaves interrupts off for good, since its C handler      *)
(* returns by ret, which does not restore the flags.                       *)
NoTrace ==
  /\ eip \in {"main", "halt"} /\ direct = "no" =>
       stack = <<>> /\ regs = "program" /\ flag = "on" /\ pic.isr = {}
  /\ HandlerAlone
  /\ timer_count = 0
  /\ direct = "int" => flag = "off"

(* Every byte is read, also one that arrives while the handler of the one  *)
(* before is still running, unless a C function was entered straight from  *)
(* a gate, or a byte was waiting when the controller was reset, which      *)
(* forgets its request and never makes it again.                           *)
BytesRead == obf ~> (~obf \/ early \/ direct # "no")
=============================================================================
